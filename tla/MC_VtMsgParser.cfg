CONSTANTS
  Threads = {t1, t2}
  Types <- MCTypes
  Slots = {0, 1}
  NULL = NULL
  CRASH = CRASH
SYMMETRY MCSymmetry
SPECIFICATION Spec
INVARIANT TypeOK
INVARIANT SessionsExclusive
INVARIANT SingleInstance
INVARIANT SessionSeesConstructed
INVARIANT GetSlotIsMessageSlot
