CONSTANTS
  Addrs <- MCAddrsV6Digits
  Family <- MCFamilyV6
  Cut <- MCCut
  MaxEntries = 3
  MallocFails = FALSE
SPECIFICATION Spec
INVARIANT CsvServersParsed
