------------------------ MODULE MC_TelcoreMainThread ------------------------
(* Model-checking instance of TelcoreMainThread: the ImsFeatureConfig       *)
(* instance (four slots, the invalid ids -1 and 4, the one feature "wfc",  *)
(* "enabled" parsing to 0, 1 and 2, mims_support 1 or 2) beside the mobile *)
(* Wi-Fi controller of slot 0 with two WFC states, one URC id, two         *)
(* requests, one MD-comm URC and two WFC changes; the cfg gives the values. *)
EXTENDS TelcoreMainThread

MCSlots == 0..3
MCSlotInputs == MCSlots \cup {-1, 4}
MCEnabled == {0, 1, 2}
MCFeatures == {"wfc"}
MCMimsSupports == {1, 2}
================================================================================
