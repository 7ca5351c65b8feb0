SPECIFICATION Spec
CONSTANTS
  INITIAL_TABLE_SIZE = 4
  NoHandle = NoHandle
  Junk = Junk
  StrayWords = {}
  b1 = b1  b2 = b2  b3 = b3
  Addr = {b1, b2, b3}
  Hash <- Colliding
  NullHash = 99
  MaxCount = 4
  Resets = {TRUE, FALSE}
INVARIANTS TypeOK HandlerSeesConsistentTable HandlesAreRegistered DispositionRestored
