------------------------------ MODULE UrcChannel ------------------------------
(***************************************************************************)
(* The URC channel (RIL_CMD_PROXY_URC) of one slot, on which both          *)
(* RmcEccNumberUrcHandler and RmcCallControlImsUrcHandler are registered   *)
(* (RFX_IMPLEMENT_HANDLER_CLASS in each).  The channel's one thread hands  *)
(* each URC line to the handler registered for its prefix and runs it to  *)
(* its end before it reads the next line, so a step of the channel is a    *)
(* whole handler of one of the two.  rild restarting (EccNetworkList's     *)
(* Restart) ends both; the IMS handler keeps nothing across URCs, and tcl  *)
(* is what the framework was told, which outlives it.                      *)
(***************************************************************************)
EXTENDS EccNetworkList

CONSTANTS Lines, Garbled, Slot, FailedInt, MT_CALL_ENRICHED_CALLING, MaxUrcs, None

VARIABLES tcl, handled, last

Cc == INSTANCE ImsCcUrcHandler

eccVars == <<eccList, eccMcc, mNeedRefreshNwEcc, cen1Seen, sinceCen1, cen2Since, overrun>>
ccVars == <<tcl, handled, last>>
channelVars == <<eccVars, ccVars>>

ChannelInit == Init /\ Cc!Init

\* The channel thread runs one URC handler, or rild restarts.
ChannelNext ==
  \/ (HandleCen1 \/ HandleCen2) /\ UNCHANGED ccVars
  \/ Cc!HandleUrc /\ UNCHANGED eccVars
  \/ Restart /\ UNCHANGED ccVars

ChannelSpec == ChannelInit /\ [][ChannelNext]_channelVars

\* Every line in a format the IMS handler's comments document is reported
\* to the framework as that format says.
UrcReportedAsDocumented == Cc!UrcReportedAsDocumented

================================================================================
