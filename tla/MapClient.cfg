SPECIFICATION FairSpec
CONSTANTS
  INITIAL_TABLE_SIZE = 6
  NoHandle = NoHandle
  Junk = Junk
  StrayWords = {}
  ka = ka  kb = kb  kc = kc  kd = kd
  v1 = v1  v2 = v2
  Key = {ka, kb, kc, kd}
  StrKey = {kb}
  Hash <- Colliding
  Handle = {v1, v2}
  Releasable = {v1, v2}
  MaxCount = 4
INVARIANTS ExactUntilCut CountsUntilCut IterationComplete
PROPERTIES IterationSound IterationEnds
