CONSTANTS
  Categories <- MCCategories
  Languages <- MCAdjacentLanguages
  Faults <- MCFaults
  Uniformity <- MCMixed
  EmptyConfig = TRUE
  None = None
  Junk = Junk
SPECIFICATION Spec
PROPERTY RequestServedSoundly
