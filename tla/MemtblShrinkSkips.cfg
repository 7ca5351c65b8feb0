SPECIFICATION Spec
CONSTANTS
  INITIAL_TABLE_SIZE = 8
  NoHandle = NoHandle
  Junk = Junk
  StrayWords = {}
  a1 = a1  a2 = a2  a3 = a3  a4 = a4  a5 = a5
  Addr = {a1, a2, a3, a4, a5}
  Hash <- SpreadIn16
  NullHash = 99
  MaxCount = 6
INVARIANTS DestroyFreesDue
