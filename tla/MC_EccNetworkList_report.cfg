CONSTANTS
  Numbers <- MCNumbers
  NumLen <- MCLongLen
  Categories <- MCCategories
  Mccs <- MCMccs
  CanRestart = TRUE
  PropValueMax = 92
  MaxPropChars = 50
SPECIFICATION Spec
INVARIANT EccListIsReport
