-------------------------- MODULE MC_EccNetworkList --------------------------
(* Model-checking instance of EccNetworkList: three numbers, two MCCs and *)
(* categories of one and two digits.  MCShortLen gives the numbers the    *)
(* length of the usual three-digit emergency numbers; MCLongLen gives     *)
(* three numbers whose list entries together pass the 91 characters a    *)
(* property value holds, as a network list of fifteen short numbers does. *)
EXTENDS EccNetworkList

MCNumbers == {"n1", "n2", "n3"}
MCShortLen == [n \in MCNumbers |-> 3]
MCLongLen == [n \in MCNumbers |-> 30]
MCCategories == {1, 16}
MCMccs == {"460", "466"}
================================================================================
