CONSTANTS
  Categories <- MCCategories
  Languages <- MCLanguages
  Faults <- MCFaults
  Uniformity <- MCMixed
  EmptyConfig = FALSE
  None = None
  Junk = Junk
SPECIFICATION Spec
INVARIANT TypeOK
PROPERTY AbstractSpec
