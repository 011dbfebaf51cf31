------------------------- MODULE MC_OpRequestHandler -------------------------
(* Model-checking instance of OpRequestHandler: three requests in flight  *)
(* at most, so that a request waits behind others in the channel queue.  *)
EXTENDS OpRequestHandler

MCIds == {1, 2, 3}
\* The handlers that answer by their result.
MCAnsweringKinds ==
  {"GET_SHARED_KEY", "UPDATE_SIM_LOCK_SETTINGS", "GET_SIM_LOCK_INFO",
   "GET_MODEM_STATUS", "SET_DIGITS_LINE", "CDMA_SEND_SMS"}
\* A CT card and one of another operator.
MCCardTypes == {"CT_3G_UIM_CARD", "OTHER_CARD"}
MCResetKinds == {"RESET_SIM_LOCK_SETTINGS"}
MCRcsKinds == {"SWITCH_RCS_ROI_STATUS", "UPDATE_RCS_CAPABILITIES", "UPDATE_RCS_SESSION_INFO"}
\* The requests whose handlers break the contract.
MCContractKinds == MCResetKinds \cup MCRcsKinds \cup {"SET_DIGITS_REG_STATUS"}
================================================================================
