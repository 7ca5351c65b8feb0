SPECIFICATION Spec
CONSTANTS
  x = x  y = y
  Buf = {b1, b2}
  Char = {x, y}
  Text <- ShortTexts
  Sizes = {0, 1}
  Zero = Zero
  Garbage = Garbage
  None = None
  MaxLength = 3
INVARIANTS TypeOK HoldsWhatItWasTold DuplicateFits
PROPERTIES PrintfTerminates ConcatenationEnds
