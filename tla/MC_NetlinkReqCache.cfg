CONSTANTS
  Ifaces = {i0, i1}
  Addrs <- MCAddrs
  AddrKey <- MCAddrKey
  PrefixLens <- MCPrefixLens
  Invalid = Invalid
  InvalidPrefix = InvalidPrefix
  CallocFails = TRUE
  MaxQueue = 1
SYMMETRY MCSymmetry
SPECIFICATION Spec
INVARIANT TypeOK
INVARIANT OneEntryPerInterface
PROPERTY AbstractSpec
