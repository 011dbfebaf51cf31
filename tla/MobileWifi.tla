------------------------------ MODULE MobileWifi ------------------------------
(***************************************************************************)
(* RtcMobileWifiController (telcore/mwi/RtcMobileWifiController.cpp), the  *)
(* telcore controller of one slot for Wi-Fi calling.  It relays: a        *)
(* framework request goes to MD-comm (requestToMcl) unless the modem is   *)
(* off, MD-comm's response and the Wi-Fi URCs go back to RILJ             *)
(* (responseToRilj).  It also turns each change of the status key         *)
(* RFX_STATUS_KEY_WFC_STATE into an RFX_MSG_URC_WFC_PDN_STATE URC          *)
(* carrying the new state and the slot.                                    *)
(*                                                                         *)
(* The framework around it (RfxController's dispatch, the status manager, *)
(* MD-comm) is not under src/.  It is modelled as what the controller    *)
(* sees of it: a request reaches the controller only while it is          *)
(* registered, it first asks onCheckIfRejectMessage, and a rejected       *)
(* request is answered with an error by the framework; every request sent *)
(* to MD-comm is answered (the AT layer answers or times out); the status *)
(* manager calls the callback, on the telcore main thread, when the value *)
(* changes.  Messages are tokens: their payload is forwarded unchanged,  *)
(* and what reached RILJ is kept as a bag, as no property depends on the  *)
(* order in which RILJ reads it.                                          *)
(***************************************************************************)
EXTENDS Integers, FiniteSets, Bags

CONSTANTS
  Slot,          \* getSlotId() of this controller
  UrcIds,        \* the Wi-Fi URCs MD-comm sends
  States,        \* values RFX_STATUS_KEY_WFC_STATE takes
  MaxReqs,       \* bound on requests from the framework
  MaxUrcs,       \* bound on URCs from MD-comm
  MaxChanges,    \* bound on changes of the WFC status
  None

VARIABLES
  registered,    \* onInit has run and onDeinit has not
  modemOff,      \* the isModemPowerOff the framework passes
  wfcState,      \* the value of RFX_STATUS_KEY_WFC_STATE
  issued,        \* requests the framework has handed to the controller
  atMcl,         \* tokens of the requests sent to MD-comm, not answered
  rilj,          \* the bag of messages sent to RILJ
  urcs,          \* URCs MD-comm has sent
  changes        \* changes of the WFC status

vars == <<registered, modemOff, wfcState, issued, atMcl, rilj, urcs, changes>>

Tokens == 1..MaxReqs

\* responseToRilj: one more copy of message m in RILJ's bag.
ToRilj(m) == rilj' = rilj (+) SetToBag({m})

(***************************************************************************)
(* Plausible bugs, used as mutants of the definitions below them.         *)
(***************************************************************************)
OnHandleResponseDropped(t) == UNCHANGED rilj

(***************************************************************************)
(* RtcMobileWifiController                                                 *)
(***************************************************************************)
\* onInit registers the request and URC ids and the WFC status callback;
\* onDeinit unregisters the callback.
OnInit ==
  /\ ~registered
  /\ registered' = TRUE
  /\ UNCHANGED <<modemOff, wfcState, issued, atMcl, rilj, urcs, changes>>

OnDeinit ==
  /\ registered
  /\ registered' = FALSE
  /\ UNCHANGED <<modemOff, wfcState, issued, atMcl, rilj, urcs, changes>>

\* onCheckIfRejectMessage: reject every request while the modem is off,
\* whatever the radio state.
OnCheckIfRejectMessage(isModemPowerOff) == isModemPowerOff

\* onHandleRequest: requestToMcl.
OnHandleRequest(t) == atMcl' = atMcl \cup {t}

\* onHandleUrc and onHandleResponse: responseToRilj.
OnHandleUrc(u) == ToRilj([kind |-> "urc", id |-> u])
OnHandleResponse(t) == ToRilj([kind |-> "rsp", tok |-> t])

\* onWFCPDNStatusChanged: a WFC_PDN_STATE URC of this slot with the ints
\* {new_value, slot}, handed to onHandleUrc.
OnWFCPDNStatusChanged(old, new) ==
  ToRilj([kind |-> "wfc", state |-> new, slot |-> Slot])

(***************************************************************************)
(* The controller in its framework                                         *)
(***************************************************************************)
Init ==
  /\ registered = FALSE
  /\ modemOff = TRUE
  /\ wfcState \in States
  /\ issued = 0
  /\ atMcl = {}
  /\ rilj = EmptyBag
  /\ urcs = 0
  /\ changes = 0

\* A framework request for the controller: rejected (and answered with an
\* error by the framework) while the modem is off, otherwise sent to MD-comm.
Request ==
  /\ registered
  /\ issued < MaxReqs
  /\ LET t == issued + 1 IN
       /\ issued' = t
       /\ IF OnCheckIfRejectMessage(modemOff)
          THEN ToRilj([kind |-> "rej", tok |-> t]) /\ UNCHANGED atMcl
          ELSE OnHandleRequest(t) /\ UNCHANGED rilj
  /\ UNCHANGED <<registered, modemOff, wfcState, urcs, changes>>

\* MD-comm answers request t and the response reaches onHandleResponse.
MclResponse(t) ==
  /\ t \in atMcl
  /\ atMcl' = atMcl \ {t}
  /\ OnHandleResponse(t)
  /\ UNCHANGED <<registered, modemOff, wfcState, issued, urcs, changes>>

\* A Wi-Fi URC from MD-comm, delivered while the controller is registered.
MclUrc ==
  /\ registered
  /\ urcs < MaxUrcs
  /\ urcs' = urcs + 1
  /\ \E u \in UrcIds : OnHandleUrc(u)
  /\ UNCHANGED <<registered, modemOff, wfcState, issued, atMcl, changes>>

\* Another controller sets RFX_STATUS_KEY_WFC_STATE to a new value; the
\* status manager calls the registered callback with the old and new value.
SetWfcState ==
  /\ changes < MaxChanges
  /\ \E v \in States \ {wfcState} :
       /\ wfcState' = v
       /\ IF registered THEN OnWFCPDNStatusChanged(wfcState, v)
                        ELSE UNCHANGED rilj
  /\ changes' = changes + 1
  /\ UNCHANGED <<registered, modemOff, issued, atMcl, urcs>>

\* The modem is powered off or on.
ModemPower ==
  /\ modemOff' = ~modemOff
  /\ UNCHANGED <<registered, wfcState, issued, atMcl, rilj, urcs, changes>>

Next ==
  \/ OnInit \/ OnDeinit \/ Request \/ MclUrc \/ SetWfcState \/ ModemPower
  \/ \E t \in Tokens : MclResponse(t)

\* MD-comm answers every request it is sent (with a timeout at worst).
Fairness == \A t \in Tokens : WF_vars(MclResponse(t))

Spec == Init /\ [][Next]_vars /\ Fairness

(***************************************************************************)
(* Properties                                                              *)
(***************************************************************************)
Answers(t) ==
  CopiesIn([kind |-> "rsp", tok |-> t], rilj) + CopiesIn([kind |-> "rej", tok |-> t], rilj)

\* Every request the framework hands the controller is answered to RILJ
\* exactly once: rejected at once while the modem is off, or relayed to
\* MD-comm and its response relayed back by onHandleResponse, even when the
\* modem goes off or the controller deinits in between.
RequestAnsweredOnce ==
  \A t \in Tokens : (t <= issued) ~> [](Answers(t) = 1)

================================================================================
