--------------------------- MODULE OpRequestHandler ---------------------------
(***************************************************************************)
(* The operator request handlers of one MD-comm channel: the SIM ME-lock   *)
(* requests of RmcGsmSimOpRequestHandler (operator/.../mdcomm/sim) and the *)
(* digits and RCS requests of RmcOpImsControlRequestHandler                *)
(* (operator/.../mdcomm/ims), and the CDMA MO SMS requests of            *)
(* RmcCdmaMoSmsHdlr (mdcomm/sms/RmcCdmaMoSms.cpp), an RmcSingleAtReq.      *)
(* Each kind has its own channel in rild; one queue holds them here, which *)
(* only removes interleavings, and every property is about one request.    *)
(*                                                                         *)
(* Telcore queues requests to the channel; the channel thread takes them   *)
(* in order and runs one handler to its end: it sends one AT command,     *)
(* blocks for the final result and answers the request with a RIL_Errno.  *)
(* A handler is therefore one step here, with the modem's result as its   *)
(* input.  Results: a channel error (getError() < 0: timeout, channel     *)
(* closed), OK with a well-formed or a malformed intermediate line, or an *)
(* ERROR / +CME ERROR with the code the SIM-lock handlers tell apart.     *)
(* Payloads (lock blobs, keys, feature tags) are abstracted away; an      *)
(* argument is only "supported" or not where the handler checks it.     *)
(***************************************************************************)
EXTENDS Integers, Sequences, FiniteSets, TLC

CONSTANTS
  Kinds,        \* request ids telcore may send on this channel
  Ids,          \* serial numbers of requests
  None,
  CardTypes,    \* RFX_STATUS_KEY_CDMA_CARD_TYPE values of the SMS requests
  Junk          \* what atTokNextint leaves in an int it failed to parse

VARIABLES
  queue,        \* requests sent to the channel and not yet taken
  sent,         \* ids already used by telcore
  answer,       \* id -> RIL_Errno of the response, for answered requests
  executed,     \* history: id -> the modem carried the command out
  urcs,         \* URCs sent to telcore, as a set of <<id, URC>>
  smsReq,       \* history: id -> an SMS request's message and the modem's result
  smsRsp        \* id -> RIL_SMS_Response of an SMS request, with the
                \* teleservice of the message the command carried

vars == <<queue, sent, answer, executed, urcs, smsReq, smsRsp>>

AllKinds ==
  {"GET_SHARED_KEY", "UPDATE_SIM_LOCK_SETTINGS", "GET_SIM_LOCK_INFO",
   "RESET_SIM_LOCK_SETTINGS", "GET_MODEM_STATUS", "SET_DIGITS_LINE",
   "SET_DIGITS_REG_STATUS", "SWITCH_RCS_ROI_STATUS",
   "UPDATE_RCS_CAPABILITIES", "UPDATE_RCS_SESSION_INFO",
   "CDMA_SEND_SMS", "IMS_SEND_CDMA_SMS", "IMS_SEND_CDMA_SMS_EX"}

\* The requests registered to RmcCdmaMoSmsMessage and its IMS subclass.
SmsKinds == {"CDMA_SEND_SMS", "IMS_SEND_CDMA_SMS", "IMS_SEND_CDMA_SMS_EX"}

ASSUME Kinds \subseteq AllKinds

\* What the modem may answer to an AT command.
AtResults ==
  {"CHANNEL_ERROR", "OK", "OK_MALFORMED", "CME_VERIFICATION_FAILED",
   "CME_REBOOT_REQUEST", "ERROR"}

\* Only the requests with an argument the handler switches on have
\* unsupported values: status 0..1 of SWITCH_RCS_ROI_STATUS, count
\* 0, 1, 254 of UPDATE_RCS_SESSION_INFO.
\* An SMS request is its card type and the teleservice the framework gave.
Args(k) ==
  CASE k \in {"SWITCH_RCS_ROI_STATUS", "UPDATE_RCS_SESSION_INFO"}
         -> {"supported", "unsupported"}
    [] k \in SmsKinds -> [card : CardTypes, ts : {"WEMT", "WMT"}]
    [] OTHER -> {"supported"}

Queries == {"GET_SHARED_KEY", "GET_SIM_LOCK_INFO", "GET_MODEM_STATUS"}

\* The outcomes of an SMS request: toHexPdu fails and nothing is sent; a
\* channel error; OK with a +EC2KCMGS:<ref> line, or with a line without
\* a number; a final error line with no class, with a class and no cause,
\* or with <class>,<cause>.
ClassedErrors == {"TEMP_RUIM_ABSENT", "TEMP_FDN_CHECK", "PERM_RUIM_ABSENT", "PERM_FDN_CHECK"}
SmsResults ==
  {"PDU_FAIL", "CHANNEL_ERROR", "OK", "OK_MALFORMED", "ERROR", "ERROR_NO_CAUSE"}
    \cup ClassedErrors

\* A malformed intermediate line only exists for the single-line commands.
Results(k) ==
  CASE k \in SmsKinds -> SmsResults
    [] k \in Queries -> AtResults
    [] OTHER -> AtResults \ {"OK_MALFORMED"}

(***************************************************************************)
(* Plausible bugs, used as mutants of the definitions below them.         *)
(***************************************************************************)
SinglelineIgnoreParse(r) == IF r \in {"OK", "OK_MALFORMED"} THEN "SUCCESS" ELSE "GENERIC_FAILURE"
UpdateRawCme(r) ==
  CASE r = "OK" -> "SUCCESS"
    [] r \in {"CME_VERIFICATION_FAILED", "CME_REBOOT_REQUEST"} -> r
    [] OTHER -> "GENERIC_FAILURE"
UpdateNoAnswerOnCme(r) ==
  CASE r = "OK" -> "SUCCESS"
    [] r \in {"CME_VERIFICATION_FAILED", "CME_REBOOT_REQUEST"} -> None
    [] OTHER -> "GENERIC_FAILURE"

IsCtSimCardNo3G(card) == card \in {"CT_4G_UICC_CARD", "CT_UIM_SIM_CARD"}
(***************************************************************************)
(* The handlers: the RIL_Errno each answers with                          *)
(***************************************************************************)
\* handleGetSharedKey, handleGetSimLockInfo, handleGetModemStatus: a
\* single-line query; an error, a final ERROR or a line that does not
\* parse as <len>,<string> leaves ret at RIL_E_GENERIC_FAILURE.
SinglelineErrno(r) == IF r = "OK" THEN "SUCCESS" ELSE "GENERIC_FAILURE"

\* handleUpdateSimLockSettings: +CME ERROR codes map to their RIL_Errno,
\* any other failure goes to done with RIL_E_GENERIC_FAILURE.
UpdateErrno(r) ==
  CASE r = "OK" -> "SUCCESS"
    [] r = "CME_VERIFICATION_FAILED" -> "VERIFICATION_FAILED"
    [] r = "CME_REBOOT_REQUEST" -> "REBOOT_REQUEST"
    [] OTHER -> "GENERIC_FAILURE"

\* handleResetSimLockSettings: the two +CME ERROR cases break out of the
\* switch and fall into "ret = RIL_E_SUCCESS" (line 318).
ResetErrno(r) ==
  CASE r = "CHANNEL_ERROR" -> "GENERIC_FAILURE"
    [] r = "ERROR" -> "GENERIC_FAILURE"
    [] OTHER -> "SUCCESS"

\* switchRcsRoiStatus, updateRcsCapabilities, updateRcsSessionInfo: err
\* starts as RIL_E_GENERIC_FAILURE (2) and becomes getError() once the
\* command is sent; the answer is "err >= 0 ? SUCCESS : GENERIC_FAILURE".
RcsErrno(a, r) ==
  LET err == IF a = "unsupported" THEN 2
             ELSE IF r = "CHANNEL_ERROR" THEN -1 ELSE 0
  IN IF err >= 0 THEN "SUCCESS" ELSE "GENERIC_FAILURE"

\* handleCmdWithVoidResponse (RfxBaseHandler, not in src/): OK answers
\* RIL_E_SUCCESS, anything else RIL_E_GENERIC_FAILURE.
VoidErrno(r) == IF r = "OK" THEN "SUCCESS" ELSE "GENERIC_FAILURE"

(***************************************************************************)
(* RmcCdmaMoSmsMessage                                                     *)
(***************************************************************************)
\* The class and the cause of a classed error line.  The causes are
\* stand-ins for ERROR_RUIM_ABSENT and ERROR_FDN_CHECK, distinct from the
\* 0 and -1 the handler writes itself; the modem's reference likewise.
ErrClass(r) == IF r \in {"TEMP_RUIM_ABSENT", "TEMP_FDN_CHECK"} THEN "TEMP" ELSE "PERM"
ERROR_RUIM_ABSENT == 1
ERROR_FDN_CHECK == 2
ErrCause(r) ==
  IF r \in {"TEMP_RUIM_ABSENT", "PERM_RUIM_ABSENT"} THEN ERROR_RUIM_ABSENT ELSE ERROR_FDN_CHECK
ModemRef == 5

\* isCtSimCard.
IsCtSimCard(card) == card \in {"CT_4G_UICC_CARD", "CT_UIM_SIM_CARD", "CT_3G_UIM_CARD"}

\* preProcessMessage: a CT card's WEMT long SMS is sent as WMT.
PreProcessMessage(m) == IF IsCtSimCard(m.card) /\ m.ts = "WEMT" THEN "WMT" ELSE m.ts

\* A plausible bug, used as a mutant of the definition below it.
ForErrorFdnAnyClass(r, st) ==
  CASE r = "ERROR" -> st
    [] r = "ERROR_NO_CAUSE" -> [st EXCEPT !.errCode = Junk]
    [] OTHER ->
         [st EXCEPT !.errCode = ErrCause(r), !.ref = 0,
                    !.errno = CASE ErrClass(r) = "TEMP" /\ ErrCause(r) = ERROR_RUIM_ABSENT
                                     -> "SIM_ABSENT"
                                [] ErrCause(r) = ERROR_FDN_CHECK -> "FDN_CHECK_FAILURE"
                                [] OTHER -> @]

\* onHandleFinalResponseForError, on the request state st: it returns at
\* the first int that does not parse (m_errCode keeps what the failed
\* parse left); a temporary R-UIM-absent and a permanent FDN failure set
\* their RIL_Errno; m_msgRef becomes 0.
OnHandleFinalResponseForError(r, st) ==
  CASE r = "ERROR" -> st
    [] r = "ERROR_NO_CAUSE" -> [st EXCEPT !.errCode = Junk]
    [] OTHER ->
         [st EXCEPT !.errCode = ErrCause(r), !.ref = 0,
                    !.errno = CASE ErrClass(r) = "TEMP" /\ ErrCause(r) = ERROR_RUIM_ABSENT
                                     -> "SIM_ABSENT"
                                [] ErrClass(r) = "PERM" /\ ErrCause(r) = ERROR_FDN_CHECK
                                     -> "FDN_CHECK_FAILURE"
                                [] OTHER -> @]

\* The request from construction (m_msgRef -1, m_errCode 0, RIL_E_SUCCESS)
\* to onGetRspData: onGetAtInfo (preProcessMessage, onGetPdu: SYSTEM_ERR
\* and no command when toHexPdu fails), then onHandleIntermediates on OK
\* (SYSTEM_ERR when the reference does not parse), or, on a failure, the
\* driver's RIL_E_GENERIC_FAILURE and onHandleFinalResponseForError when
\* there is a final line.
SmsResponse(m, r) ==
  LET st == [errno |-> "SUCCESS", ref |-> -1, errCode |-> 0, ts |-> PreProcessMessage(m)]
  IN CASE r = "PDU_FAIL" -> [st EXCEPT !.errno = "SYSTEM_ERR"]
       [] r = "OK" -> [st EXCEPT !.ref = ModemRef]
       [] r = "OK_MALFORMED" -> [st EXCEPT !.ref = Junk, !.errno = "SYSTEM_ERR"]
       [] r = "CHANNEL_ERROR" -> [st EXCEPT !.errno = "GENERIC_FAILURE"]
       [] OTHER -> OnHandleFinalResponseForError(r, [st EXCEPT !.errno = "GENERIC_FAILURE"])

\* The answer of request kind k with argument a when the modem answers r;
\* None when the handler sends no response.
Errno(k, a, r) ==
  CASE k \in Queries -> SinglelineErrno(r)
    [] k = "UPDATE_SIM_LOCK_SETTINGS" -> UpdateErrno(r)
    [] k = "RESET_SIM_LOCK_SETTINGS" -> ResetErrno(r)
    [] k \in {"SWITCH_RCS_ROI_STATUS", "UPDATE_RCS_SESSION_INFO"} -> RcsErrno(a, r)
    [] k = "UPDATE_RCS_CAPABILITIES" -> RcsErrno("supported", r)
    [] k = "SET_DIGITS_LINE" -> VoidErrno(r)
    [] k = "SET_DIGITS_REG_STATUS" -> None
    [] k \in SmsKinds -> SmsResponse(a, r).errno

\* Whether the handler sends an AT command at all.
SendsAt(k, a) ==
  \/ k \in SmsKinds
  \/ k /= "SET_DIGITS_REG_STATUS" /\ a = "supported"

\* The URCs a handler sends besides its response.
UrcsOf(k, r) ==
  CASE k \in {"UPDATE_SIM_LOCK_SETTINGS", "RESET_SIM_LOCK_SETTINGS"} /\ r = "OK"
          -> {"SIM_STATUS_CHANGED"}
    [] k = "SET_DIGITS_LINE" -> {"RCS_DIGITS_LINE_INFO"}
    [] k = "SET_DIGITS_REG_STATUS" -> {"DIGITS_LINE_INDICATION"}
    [] OTHER -> {}

(***************************************************************************)
(* The channel                                                             *)
(***************************************************************************)
Init ==
  /\ queue = <<>>
  /\ sent = {}
  /\ answer = [i \in {} |-> None]
  /\ executed = [i \in {} |-> FALSE]
  /\ urcs = {}
  /\ smsReq = [i \in {} |-> None]
  /\ smsRsp = [i \in {} |-> None]

\* Telcore sends a request to the channel.
Send ==
  \E i \in Ids \ sent, k \in Kinds :
    \E a \in Args(k) :
      /\ queue' = Append(queue, [id |-> i, kind |-> k, arg |-> a])
      /\ sent' = sent \cup {i}
      /\ UNCHANGED <<answer, executed, urcs, smsReq, smsRsp>>

\* The channel thread takes the next request and runs its handler
\* (needHandle/handleRequest, onHandleRequest) to the end.
HandleRequest ==
  /\ queue /= <<>>
  /\ LET q == Head(queue)
     IN \E r \in IF SendsAt(q.kind, q.arg) THEN Results(q.kind) ELSE {"NONE"} :
          LET e == Errno(q.kind, q.arg, r)
          IN /\ queue' = Tail(queue)
             /\ answer' = IF e = None THEN answer
                          ELSE answer @@ (q.id :> e)
             /\ executed' = executed @@ (q.id :> (SendsAt(q.kind, q.arg) /\ r = "OK"))
             /\ urcs' = urcs \cup {<<q.id, u>> : u \in UrcsOf(q.kind, r)}
             /\ IF q.kind \in SmsKinds
                THEN /\ smsReq' = smsReq @@ (q.id :> [msg |-> q.arg, result |-> r])
                     /\ smsRsp' = smsRsp @@ (q.id :> SmsResponse(q.arg, r))
                ELSE UNCHANGED <<smsReq, smsRsp>>
  /\ UNCHANGED sent

Next == Send \/ HandleRequest

\* The channel thread keeps taking requests while there are any.
Spec == Init /\ [][Next]_vars /\ WF_vars(HandleRequest)

(***************************************************************************)
(* Properties                                                              *)
(***************************************************************************)
Errnos ==
  {"SUCCESS", "GENERIC_FAILURE", "VERIFICATION_FAILED", "REBOOT_REQUEST",
   "SYSTEM_ERR", "SIM_ABSENT", "FDN_CHECK_FAILURE"}

TypeOK ==
  /\ \A j \in 1..Len(queue) : queue[j].id \in sent /\ queue[j].kind \in Kinds
  /\ sent \subseteq Ids
  /\ DOMAIN answer \subseteq sent /\ \A i \in DOMAIN answer : answer[i] \in Errnos
  /\ DOMAIN executed \subseteq sent
  /\ DOMAIN smsRsp = DOMAIN smsReq /\ DOMAIN smsRsp \subseteq DOMAIN answer

\* A request is answered RIL_E_SUCCESS exactly when the modem carried its
\* command out and returned what the handler needs: no handler reports a
\* refused, failed or never-sent command as done, nor a done one as failed.
AnswerTruthful ==
  \A i \in DOMAIN answer : (answer[i] = "SUCCESS") <=> executed[i]

\* The response to an SMS request reports what the modem did with it:
\* SUCCESS carries the reference the modem gave the message, which went
\* out with the teleservice its card's network takes (WMT for a CT card's
\* long SMS); SIM_ABSENT and FDN_CHECK_FAILURE are answered exactly when
\* the modem refused the message as a temporary R-UIM-absent or a
\* permanent FDN failure; and every refusal with a cause reports that
\* cause as errorCode.  RmcCdmaMoSms spreads this over preProcessMessage,
\* onHandleIntermediates, onHandleFinalResponseForError and the driver.
SmsAnswerReportsModem ==
  \A i \in DOMAIN smsRsp :
    LET m == smsReq[i].msg
        r == smsReq[i].result
    IN /\ answer[i] = "SUCCESS" =>
            /\ smsRsp[i].ref = ModemRef
            /\ smsRsp[i].ts = IF m.card \in {"CT_4G_UICC_CARD", "CT_UIM_SIM_CARD", "CT_3G_UIM_CARD"}
                              THEN "WMT" ELSE m.ts
       /\ (answer[i] = "SIM_ABSENT") <=> (r = "TEMP_RUIM_ABSENT")
       /\ (answer[i] = "FDN_CHECK_FAILURE") <=> (r = "PERM_FDN_CHECK")
       /\ r \in ClassedErrors => smsRsp[i].errCode = ErrCause(r)

\* Every request telcore sends to the channel is answered: the framework
\* holds the caller (and its wakelock) until the response arrives.
EveryRequestAnswered ==
  \A i \in Ids : (i \in sent) ~> (i \in DOMAIN answer)

\* The contract of a request, the two properties above together: every
\* request telcore sends is eventually answered, and answered SUCCESS
\* exactly when the modem carried its command out.
RequestAnsweredTruthfully ==
  \A i \in Ids :
    (i \in sent) ~> (i \in DOMAIN answer /\ ((answer[i] = "SUCCESS") <=> executed[i]))

================================================================================
