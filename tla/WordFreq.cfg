SPECIFICATION Spec
CONSTANTS
  TOP = 2
  Space <- Blanks
  Newline <- EndOfLine
  NoStr = NoStr
  Char <- Characters
  Text <- Files
  Hash <- Numbered
  LINE_SIZE = 3
  INITIAL_COUNTS_SIZE = 5
  CELL = 2
  INITIAL_TABLE_SIZE = 6
  NoHandle = NoHandle
  Junk = Junk
  StrayWords = {}
INVARIANTS CountsExact TotalKept HandlesInArray MostRanked LeastRanked MatchesAgree
PROPERTIES Ends
CHECK_DEADLOCK FALSE
