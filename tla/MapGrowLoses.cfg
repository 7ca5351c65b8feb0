SPECIFICATION Spec
CONSTANTS
  INITIAL_TABLE_SIZE = 4
  NoHandle = NoHandle
  Junk = Junk
  StrayWords = {}
  ka = ka  kb = kb  kc = kc  kd = kd
  v1 = v1  v2 = v2
  Key = {ka, kb, kc}
  StrKey = {kb}
  Hash <- ApartIn4
  Handle = {v1}
  Releasable = {}
  MaxCount = 3
INVARIANTS StoredIsFound
