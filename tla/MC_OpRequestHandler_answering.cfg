CONSTANTS
  Kinds <- MCAnsweringKinds
  Ids <- MCIds
  None = None
  Junk = Junk
  CardTypes <- MCCardTypes
SPECIFICATION Spec
INVARIANT TypeOK
INVARIANT AnswerTruthful
PROPERTY EveryRequestAnswered
CHECK_DEADLOCK FALSE
INVARIANT SmsAnswerReportsModem
