SPECIFICATION Spec
CONSTANTS
  Char <- Bytes
  Space <- Blank
  First <- Texts
  Second <- Arguments
  NoStr = NoStr
  Unset = Unset
  Zero = 0
  BUFSIZE = 3
  SIZE_MAX = 255
INVARIANTS FindOutcome CompareOutcome JoinsBack PartsHaveNoDelim WordsInOrder BufferHoldsLast
PROPERTIES CallReturns
CHECK_DEADLOCK FALSE
