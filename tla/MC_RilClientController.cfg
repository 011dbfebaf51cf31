CONSTANTS
  TestModes <- MCTestModes
  SimCounts <- MCSimCounts
  MaxUrcs = 2
  MaxRequests = 1
  NULL = NULL
  CRASH = CRASH
  Sizes = {0, 2}
  MaxSends = 3
  Watched = "ATCI"
SPECIFICATION Spec
INVARIANT TypeOK
INVARIANT RegisteredClients
INVARIANT NoAssert
INVARIANT UrcReachesEveryClient
INVARIANT ReaderGetsResponses
CHECK_DEADLOCK FALSE
