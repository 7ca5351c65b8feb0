SPECIFICATION Spec
CONSTANTS
  INITIAL_TABLE_SIZE = 4
  NoHandle = NoHandle
  Junk = Junk
  StrayWords = {0, 9}
  ka = ka  kb = kb  kc = kc  kd = kd
  v1 = v1  v2 = v2
  Key = {ka, kb, kc, kd}
  StrKey = {}
  Hash <- Awkward
  Handle = {v1}
  Releasable = {}
  MaxCount = 5
INVARIANTS TypeOK ProbeStops CountCoversEntries
PROPERTIES NoThrash
