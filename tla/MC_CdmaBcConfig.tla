--------------------------- MODULE MC_CdmaBcConfig ---------------------------
(* Model-checking instance of CdmaBcConfig: three service categories, so *)
(* that requested and enabled sets form one or two ranges and overlap     *)
(* partly.  MCLanguages are two languages that never merge into one range *)
(* (every language its own range); MCAdjacentLanguages do merge.          *)
EXTENDS CdmaBcConfig

MCCategories == 1..3
MCLanguages == {1, 3}
MCAdjacentLanguages == 1..2
MCFaults == {"ERROR", "TIMEOUT", "MALFORMED"}
MCUniform == {TRUE}
MCMixed == BOOLEAN
================================================================================
