CONSTANTS
  Addrs <- MCAddrs
  Family <- MCFamilyAll
  Cut <- MCNoCut
  MaxEntries = 2
  MallocFails = TRUE
SPECIFICATION Spec
INVARIANT TypeOK
INVARIANT CsvServersParsed
INVARIANT GetServersAllOrNothing
INVARIANT CsvFailureSetsNothing
