CONSTANTS
  Kinds <- MCContractKinds
  Ids <- MCIds
  None = None
  Junk = Junk
  CardTypes <- MCCardTypes
SPECIFICATION Spec
PROPERTY RequestAnsweredTruthfully
CHECK_DEADLOCK FALSE
