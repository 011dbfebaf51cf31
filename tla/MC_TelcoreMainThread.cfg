CONSTANTS
  Features <- MCFeatures
  Slots <- MCSlots
  SlotInputs <- MCSlotInputs
  EnabledInputs <- MCEnabled
  MimsSupports <- MCMimsSupports
  Slot = 0
  UrcIds = {u1}
  States = {0, 1}
  MaxReqs = 2
  MaxUrcs = 1
  MaxChanges = 2
  None = None
SPECIFICATION ThreadSpec
INVARIANT TypeOK
INVARIANT ReadsLastWrite
PROPERTY RequestAnsweredOnce
