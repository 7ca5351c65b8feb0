SPECIFICATION Spec
CONSTANTS
  StrKeys <- StringsAndAddresses
  PtrKeys <- Addresses
  Byte <- Bytes
INVARIANTS OneChangeApart IsFnv1a
CHECK_DEADLOCK FALSE
