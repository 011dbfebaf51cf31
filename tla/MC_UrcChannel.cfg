CONSTANTS
  Numbers <- MCNumbers
  NumLen <- MCShortLen
  Categories <- MCCategories
  Mccs <- MCMccs
  CanRestart = TRUE
  PropValueMax = 92
  MaxPropChars = 50
  Lines <- MCLines
  Garbled <- MCGarbled
  Slot = 1
  FailedInt <- MCFailedInt
  MT_CALL_ENRICHED_CALLING = 3
  MaxUrcs = 2
  None = None
SPECIFICATION ChannelSpec
INVARIANT TypeOK
INVARIANT EccListComplete
INVARIANT UrcReportedAsDocumented
