--------------------------- MODULE ImsCcUrcHandler ---------------------------
(***************************************************************************)
(* RmcCallControlImsUrcHandler (mdcomm/cc/RmcCallControlImsUrcHandler.cpp):*)
(* the IMS call-control URCs of one slot, handled on the slot's URC       *)
(* channel.  onHandleUrc dispatches a line on its prefix; each handler     *)
(* tokenises the line and sends zero or more messages to telcore.          *)
(*                                                                         *)
(* A line is its kind (the prefix), whether atTokStart finds the ':'      *)
(* (start) and its tokens, each a small int; the ints in Garbled stand    *)
(* for text that is not a number, which atTokNextint fails on (a string    *)
(* token is passed on as it is).  Reading past the last token fails.  tcl *)
(* is the sequence of messages sent to telcore, a message its id and data.*)
(*                                                                         *)
(* hasImsCall reads call state the call-control request handlers keep;    *)
(* it is an input of each URC.  notifyIntsDataToTcl,                      *)
(* notifyStringsDataToTcl and the value atTokNextint leaves on a failure  *)
(* are defined outside src/ (FailedInt).                                   *)
(***************************************************************************)
EXTENDS Integers, Sequences, SequencesExt

CONSTANTS
  Lines,          \* the URC lines the modem may send
  Garbled,        \* tokens that are not numbers
  Slot,           \* m_slot_id
  FailedInt,      \* what atTokNextint returns when it fails
  MT_CALL_ENRICHED_CALLING,
  MaxUrcs,        \* bound on the number of URCs handled
  None

Kinds ==
  {"CONF_SRVCC", "CONF_MODIFIED_RESULT", "VDM_SELECT_RESULT", "IMS_CALL_MODE",
   "IMS_VIDEO_CAP", "ECPLICIT_CALL_TRANSFER", "IMS_CALL_CONTROL_RESULT",
   "IMS_EVENT_PACKAGE", "SRVCC", "ECC_BEARER", "REDIAL_ECC_INDICATION",
   "IMS_HEADER", "CALL_ADDITIONAL_INFO"}

ASSUME \A l \in Lines : l.kind \in Kinds /\ l.start \in BOOLEAN /\ l.toks \in Seq(Int)

VARIABLES
  tcl,            \* the messages sent to telcore, in order
  handled,        \* the number of URCs handled
  last            \* history: the last line handled, hasImsCall, and what was sent

vars == <<tcl, handled, last>>

SRVCC_START == 0
SRVCC_COMPLETED == 1
CONFERENCE_MEMBERS_LIMIT == 5
MODE_ENRICHED_CALLING == 3

IsInt(t) == t \notin Garbled
\* atTokNextint succeeds on the i-th token.
IntAt(l, i) == i <= Len(l.toks) /\ IsInt(l.toks[i])
Msg(id, data) == [id |-> id, data |-> data]
\* The first k tokens, or all when there are fewer.
FirstToks(l, k) == SubSeq(l.toks, 1, IF Len(l.toks) < k THEN Len(l.toks) ELSE k)

(***************************************************************************)
(* Plausible bugs, used as mutants of the definitions below them.         *)
(***************************************************************************)
ConfSrvccFiveInts(l) ==
  LET n    == IF Len(l.toks) < 5 THEN Len(l.toks) ELSE 5
      bad  == {i \in 1..n : ~IsInt(l.toks[i])}
      good == IF bad = {} THEN n ELSE Min(bad) - 1
      data == [i \in 1..6 |-> IF i <= good THEN l.toks[i]
                              ELSE IF i = good + 1 /\ good < n THEN FailedInt ELSE 0]
  IN IF ~l.start \/ data[1] > CONFERENCE_MEMBERS_LIMIT THEN <<>>
     ELSE <<Msg("ECONF_SRVCC_INDICATION", data)>>

(***************************************************************************)
(* The handlers: the messages each sends for line l                        *)
(***************************************************************************)
\* notifySrvccState: the state, and after a completed SRVCC the call-state
\* change that makes the framework poll the calls.
NotifySrvccState(state) ==
  <<Msg("SRVCC_STATE_NOTIFY", <<state>>)>>
    \o (IF state = SRVCC_COMPLETED THEN <<Msg("CALL_STATE_CHANGED", <<>>)>> ELSE <<>>)

\* handleConfSrvcc: up to six ints into a zeroed int[6]; a failed int is
\* stored and ends the loop; a count above the limit sends nothing.
HandleConfSrvcc(l) ==
  LET n    == IF Len(l.toks) < 6 THEN Len(l.toks) ELSE 6
      bad  == {i \in 1..n : ~IsInt(l.toks[i])}
      good == IF bad = {} THEN n ELSE Min(bad) - 1
      data == [i \in 1..6 |-> IF i <= good THEN l.toks[i]
                              ELSE IF i = good + 1 /\ good < n THEN FailedInt ELSE 0]
  IN IF ~l.start \/ data[1] > CONFERENCE_MEMBERS_LIMIT THEN <<>>
     ELSE <<Msg("ECONF_SRVCC_INDICATION", data)>>

\* handleVoiceDomainSelectResult: ignored without an IMS call; the domain
\* and the optional rat (-1 when absent) are sent; a CS domain is reported
\* as an SRVCC that started and completed.
HandleVoiceDomainSelectResult(l, imsCall) ==
  LET domain == l.toks[1]
      rat    == IF Len(l.toks) >= 2 THEN l.toks[2] ELSE -1
  IN IF ~imsCall \/ ~l.start \/ ~IntAt(l, 1) \/ (Len(l.toks) >= 2 /\ ~IntAt(l, 2)) THEN <<>>
     ELSE <<Msg("CALL_RAT_INDICATION", <<domain, rat>>)>>
          \o (IF domain /= 0 THEN <<>>
              ELSE NotifySrvccState(SRVCC_START) \o NotifySrvccState(SRVCC_COMPLETED))

\* handleSrvccStateChange: the modem's SRVCC state, whatever it is.
HandleSrvccStateChange(l) ==
  IF l.start /\ IntAt(l, 1) THEN NotifySrvccState(l.toks[1]) ELSE <<>>

\* handleCallAdditionalInfo: only the enriched-calling mode is sent, as
\* that mode, the call id and up to five more strings.
HandleCallAdditionalInfo(l) ==
  IF ~l.start \/ Len(l.toks) < 1 \/ ~IntAt(l, 2) \/ l.toks[2] /= MODE_ENRICHED_CALLING
     THEN <<>>
     ELSE <<Msg("CALL_ADDITIONAL_INFO",
                <<MT_CALL_ENRICHED_CALLING, l.toks[1]>>
                  \o SubSeq(l.toks, 3, IF Len(l.toks) < 7 THEN Len(l.toks) ELSE 7))>>

\* The handlers that pass the line's first maxLen tokens on as one message,
\* with the slot appended for appendPhoneId: the conference result and the
\* hold/resume result;
ForwardedConf ==
  ("CONF_MODIFIED_RESULT" :> [id |-> "ECONF_RESULT_INDICATION", maxLen |-> 6, phone |-> FALSE])
  @@ ("IMS_CALL_CONTROL_RESULT" :> [id |-> "IMS_ASYNC_CALL_CONTROL_RESULT", maxLen |-> 4, phone |-> FALSE])

\* the call mode, the explicit call transfer, the video capability and the
\* event package;
ForwardedCall ==
  ("IMS_CALL_MODE" :> [id |-> "CALLMOD_CHANGE_INDICATOR", maxLen |-> 6, phone |-> FALSE])
  @@ ("ECPLICIT_CALL_TRANSFER" :> [id |-> "ECT_INDICATION", maxLen |-> 3, phone |-> TRUE])
  @@ ("IMS_VIDEO_CAP" :> [id |-> "VIDEO_CAPABILITY_INDICATOR", maxLen |-> 3, phone |-> FALSE])
  @@ ("IMS_EVENT_PACKAGE" :> [id |-> "IMS_EVENT_PACKAGE_INDICATION", maxLen |-> 5, phone |-> TRUE])

\* the emergency bearer support, the emergency redial and the SIP header.
ForwardedEcc ==
  ("ECC_BEARER" :> [id |-> "EMERGENCY_BEARER_SUPPORT_NOTIFY", maxLen |-> 1, phone |-> FALSE])
  @@ ("REDIAL_ECC_INDICATION" :> [id |-> "REDIAL_EMERGENCY_INDICATION", maxLen |-> 1, phone |-> FALSE])
  @@ ("IMS_HEADER" :> [id |-> "SIP_HEADER", maxLen |-> 5, phone |-> FALSE])

Forwarded == ForwardedConf @@ ForwardedCall @@ ForwardedEcc

\* notifyIntsDataToTcl / notifyStringsDataToTcl.
NotifyDataToTcl(l, f) ==
  IF ~l.start THEN <<>>
  ELSE <<Msg(f.id, FirstToks(l, f.maxLen) \o (IF f.phone THEN <<Slot>> ELSE <<>>))>>

\* onHandleUrc: the handler of the line's prefix.
OnHandleUrc(l, imsCall) ==
  CASE l.kind = "CONF_SRVCC" -> HandleConfSrvcc(l)
    [] l.kind = "VDM_SELECT_RESULT" -> HandleVoiceDomainSelectResult(l, imsCall)
    [] l.kind = "SRVCC" -> HandleSrvccStateChange(l)
    [] l.kind = "CALL_ADDITIONAL_INFO" -> HandleCallAdditionalInfo(l)
    [] OTHER -> NotifyDataToTcl(l, Forwarded[l.kind])

Init ==
  /\ tcl = <<>>
  /\ handled = 0
  /\ last = [line |-> None, imsCall |-> FALSE, sent |-> <<>>]

\* The URC channel hands the handler one line; whether there is an IMS
\* call is whatever the call-control handlers last recorded.
HandleUrc ==
  /\ handled < MaxUrcs
  /\ \E l \in Lines, imsCall \in BOOLEAN :
       /\ tcl' = tcl \o OnHandleUrc(l, imsCall)
       /\ handled' = handled + 1
       /\ last' = [line |-> l, imsCall |-> imsCall, sent |-> OnHandleUrc(l, imsCall)]

Next == HandleUrc

Spec == Init /\ [][Next]_vars

(***************************************************************************)
(* Properties                                                              *)
(***************************************************************************)
\* The formats the handlers' comments give:
\*   +ECONFSRVCC: <number_of_calls>, <call_id>, ...  at most 5 calls
\*     besides the host, a call id 0 (incoming) or 1..32;
\*   +EVADSREP: <domain>, [<call rat>]  domain 0 = CS, 1 = IMS, rat 1..3;
\*   +EIMSCAI: <call_id>, <mode>, <type>, <total>, <index>, <count>,
\*     [additional Info]  (mode 3 is enriched calling).
Documented(l) ==
  /\ l.start
  /\ \/ /\ l.kind = "CONF_SRVCC"
        /\ IntAt(l, 1) /\ l.toks[1] \in Nat /\ Len(l.toks) = l.toks[1] + 1
        /\ \A i \in 2..Len(l.toks) : IntAt(l, i) /\ l.toks[i] \in 0..32
     \/ /\ l.kind = "VDM_SELECT_RESULT"
        /\ Len(l.toks) \in 1..2 /\ IntAt(l, 1) /\ l.toks[1] \in {0, 1}
        /\ \A i \in 2..Len(l.toks) : IntAt(l, i) /\ l.toks[i] \in 1..3
     \/ /\ l.kind = "CALL_ADDITIONAL_INFO"
        /\ Len(l.toks) \in 6..7 /\ IntAt(l, 2)

\* What the framework is told of a documented line: the calls of an SRVCC
\* to a conference, padded to the host and five; the rat of an IMS call,
\* and for CS an SRVCC start, its completion and a poll of the calls; the
\* enriched-calling info with all its fields.
DocumentedOutput(l, imsCall) ==
  CASE l.kind = "CONF_SRVCC" ->
         IF l.toks[1] > 5 THEN <<>>
         ELSE <<Msg("ECONF_SRVCC_INDICATION", l.toks \o [i \in 1..(5 - l.toks[1]) |-> 0])>>
    [] l.kind = "VDM_SELECT_RESULT" ->
         IF ~imsCall THEN <<>>
         ELSE <<Msg("CALL_RAT_INDICATION", <<l.toks[1], IF Len(l.toks) = 2 THEN l.toks[2] ELSE -1>>)>>
              \o (IF l.toks[1] = 1 THEN <<>>
                  ELSE <<Msg("SRVCC_STATE_NOTIFY", <<0>>), Msg("SRVCC_STATE_NOTIFY", <<1>>),
                         Msg("CALL_STATE_CHANGED", <<>>)>>)
    [] l.kind = "CALL_ADDITIONAL_INFO" ->
         IF l.toks[2] /= 3 THEN <<>>
         ELSE <<Msg("CALL_ADDITIONAL_INFO",
                    <<MT_CALL_ENRICHED_CALLING, l.toks[1]>> \o SubSeq(l.toks, 3, Len(l.toks)))>>

\* onHandleUrc tells the framework of every line in the documented formats
\* what the format says, whether or not an IMS call is up: all calls of a
\* conference SRVCC (the int[6] holds the host and five), the optional rat,
\* every enriched-calling field.
UrcReportedAsDocumented ==
  last.line /= None /\ Documented(last.line)
    => last.sent = DocumentedOutput(last.line, last.imsCall)

================================================================================
