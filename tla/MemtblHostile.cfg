SPECIFICATION Spec
CONSTANTS
  INITIAL_TABLE_SIZE = 4
  NoHandle = NoHandle
  Junk = Junk
  StrayWords = {}
  a1 = a1  a2 = a2  a3 = a3  a4 = a4  a5 = a5
  Addr = {a1, a2, a3}
  Hash <- Colliding
  NullHash = 99
  MaxCount = 4
INVARIANTS TypeOK HeldNeverFreed ResolvesToSelf
