---------------------------- MODULE MC_UrcChannel ----------------------------
(* Model-checking instance of UrcChannel: the ECC numbers of               *)
(* MC_EccNetworkList, and IMS call-control lines in and out of their      *)
(* documented formats: a conference SRVCC of two calls, of five (the      *)
(* int[6] full), of six (over the limit) and with a call id that is not a *)
(* number; a line without ':'; +EVADSREP for CS, for IMS with a rat and   *)
(* with a bad rat; +CIREPH states 0, 1 and 2; +EIMSCAI in enriched mode   *)
(* with and without the additional info and with a field too many, and in *)
(* another mode; one line of each forwarded kind that appends the slot.    *)
EXTENDS UrcChannel

MCNumbers == {"n1", "n2", "n3"}
MCShortLen == [n \in MCNumbers |-> 3]
MCCategories == {1, 16}
MCMccs == {"460", "466"}
\* The value atTokNextint returns on a failure is defined outside src/.
MCFailedInt == -1
\* 99 stands for a token that is not a number.
MCGarbled == {99}

L(k, t) == [kind |-> k, start |-> TRUE, toks |-> t]
MCLines ==
  { L("CONF_SRVCC", <<2, 1, 3>>), L("CONF_SRVCC", <<5, 1, 2, 3, 4, 5>>),
    L("CONF_SRVCC", <<6, 1, 2, 3, 4, 5, 6>>), L("CONF_SRVCC", <<2, 1, 99>>),
    [kind |-> "CONF_SRVCC", start |-> FALSE, toks |-> <<>>],
    L("VDM_SELECT_RESULT", <<0>>), L("VDM_SELECT_RESULT", <<1, 2>>),
    L("VDM_SELECT_RESULT", <<1, 99>>),
    L("SRVCC", <<0>>), L("SRVCC", <<1>>), L("SRVCC", <<2>>),
    L("CALL_ADDITIONAL_INFO", <<7, 3, 1, 2, 1, 1>>),
    L("CALL_ADDITIONAL_INFO", <<7, 3, 1, 2, 1, 1, 4>>),
    L("CALL_ADDITIONAL_INFO", <<7, 3, 1, 2, 1, 1, 4, 5>>),
    L("CALL_ADDITIONAL_INFO", <<7, 1, 1, 2, 1, 1>>),
    L("ECPLICIT_CALL_TRANSFER", <<1, 0, 0>>), L("IMS_EVENT_PACKAGE", <<1, 1, 1, 1, 8>>) }
================================================================================
