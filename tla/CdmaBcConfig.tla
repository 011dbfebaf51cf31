----------------------------- MODULE CdmaBcConfig -----------------------------
(***************************************************************************)
(* RFX_MSG_REQUEST_CDMA_SET_BROADCAST_SMS_CONFIG as the MD-comm layer      *)
(* serves it: an RmcCdmaSetBcConfigReq (mdcomm/sms/RmcCdmaBcConfigSet.cpp) *)
(* driven by the RmcMultiAtReq loop (mdcomm/common/RmcData.h), against a   *)
(* modem that keeps a set of enabled broadcast categories ("channels") and *)
(* a set of enabled languages.                                             *)
(*                                                                         *)
(* A selected request first reads the modem's ranges (AT+ECSCBCHA? and     *)
(* AT+ECSCBLAN?), disables each of them, then enables each requested      *)
(* range.  An unselected request disables each requested range.  Every AT *)
(* command may fail or time out; a timed-out command may or may not have  *)
(* been executed by the modem.                                            *)
(*                                                                         *)
(* The loop that sends a command, hands the response to the request and   *)
(* asks for the next command is RmcMultiAtReq::getNextAt, whose body is   *)
(* not in src/: it is modelled from spec.md ("send AT command, wait for   *)
(* line, branch on prefix") and marked spec_modelled in PROJECT.json.     *)
(***************************************************************************)
EXTENDS Integers, Sequences, SequencesExt, FiniteSets

CONSTANTS
  Categories,   \* service categories, a small interval of Nat
  Languages,    \* languages, a small interval of Nat
  Uniformity,   \* {TRUE} or BOOLEAN: whether requests whose config infos
                \* disagree on "selected" are sent
  Faults,       \* subset of {"ERROR", "TIMEOUT", "MALFORMED"}: what the AT
                \* channel may answer besides OK
  EmptyConfig,  \* whether the framework may pass zero config infos
  None,
  Junk          \* the indeterminate range read past the end of a vector

ASSUME Faults \subseteq {"ERROR", "TIMEOUT", "MALFORMED"}
ASSUME Uniformity \subseteq BOOLEAN /\ TRUE \in Uniformity
ASSUME EmptyConfig \in BOOLEAN

VARIABLES
  mdCha,        \* modem: enabled service categories
  mdLan,        \* modem: enabled languages
  req,          \* the request object being served, or None
  vec,          \* m_channels_md, m_languages_md, m_channels, m_lans
  cursor,       \* m_channel_md, m_lans_md, m_channel, m_lan (keyed by vector)
  error,        \* RmcBaseReqData::m_error
  at,           \* the AT command in flight or to be sent, or None
  rsp,          \* the modem's answer to "at", not yet handled, or None
  startCfg,     \* history: the modem configuration when the request arrived
  lastRsp       \* history: RIL_Errno of the last response sent, or None

vars == <<mdCha, mdLan, req, vec, cursor, error, at, rsp, startCfg, lastRsp>>

VecNames == {"m_channels_md", "m_languages_md", "m_channels", "m_lans"}
Errnos == {"SUCCESS", "GENERIC_FAILURE", "SYSTEM_ERR"}

(***************************************************************************)
(* Ranges.  RmcCdmaBcRangeParser (not in src/) turns a sorted set into    *)
(* its maximal runs of consecutive values, and parses the modem's "a-b"   *)
(* list back into such runs.                                               *)
(***************************************************************************)
IsRun(S, a, b) ==
  a <= b /\ a..b \subseteq S /\ (a - 1) \notin S /\ (b + 1) \notin S

RangesOf(S) ==
  SetToSortSeq({r \in S \X S : IsRun(S, r[1], r[2])}, LAMBDA x, y : x[1] < y[1])

RangeSet(r) == r[1]..r[2]

(***************************************************************************)
(* The AT send classes (mdcomm/common/RmcAtInfo.h).  A command carries    *)
(* the class the request wraps it in, and sendAt asks the AT layer for    *)
(* the intermediate lines that class collects: RmcNoLineAtSendInfo none, *)
(* RmcSingleLineAtSendInfo the one line with its response prefix.         *)
(***************************************************************************)
NoLineSendAt(line) == <<>>
SingleLineSendAt(line) == <<line>>

\* RmcAtSendInfo::sendAt, dispatched on the class of the command.
SendAt(c, line) ==
  IF c.send = "SingleLine" THEN SingleLineSendAt(line) ELSE NoLineSendAt(line)

\* A plausible bug, used as a mutant of Query: the query wrapped in an
\* RmcNoLineAtSendInfo, so its +ECSCBCHA: line is never collected.
QueryNoLine(k) == [kind |-> k, mode |-> -1, range |-> <<0, 0>>, send |-> "NoLine"]

\* The queries go out as RmcSingleLineAtSendInfo with prefix +ECSCBCHA: or
\* +ECSCBLAN:, the set commands as RmcNoLineAtSendInfo.
Query(k) == [kind |-> k, mode |-> -1, range |-> <<0, 0>>, send |-> "SingleLine"]
SetCmd(k, m, r) == [kind |-> k, mode |-> m, range |-> r, send |-> "NoLine"]

\* RmcBaseReqData::setError: the request's m_error, which starts as
\* RIL_E_SUCCESS and is what the response reports.
SetError(e) == error' = e

\* The line AT+ECSCBCHA? / AT+ECSCBLAN? returns: mode 0 for nothing
\* enabled, mode 1 and the enabled ranges otherwise.
QueryLine(S) == [mode |-> IF S = {} THEN 0 ELSE 1, ranges |-> RangesOf(S)]
Malformed == [mode |-> 2, ranges |-> <<>>]

\* An int index compared with Vector::size(): a negative index converts to
\* a huge unsigned value and is never below the size.
Below(i, n) == i >= 0 /\ i < n

(***************************************************************************)
(* Plausible bugs, used as mutants of the definitions below them.         *)
(***************************************************************************)
WalkEnableFirst ==
  IF req.sel THEN <<"m_channels", "m_lans", "m_channels_md", "m_languages_md">>
             ELSE <<"m_channels", "m_lans">>
AdvanceTwice(v) == cursor' = [cursor EXCEPT ![v] = @ + 2]

(***************************************************************************)
(* RmcCdmaSetBcConfigReq                                                   *)
(***************************************************************************)
\* The order of onGetNextAtInfo's else-if chain once the queries are done:
\* the modem's ranges are disabled first, then the requested ones handled.
Walk ==
  IF req.sel THEN <<"m_channels_md", "m_languages_md", "m_channels", "m_lans">>
             ELSE <<"m_channels", "m_lans">>

\* The size each cursor is compared with.  The m_lan branches compare with
\* m_languages.size(), the number of distinct languages (a SortedVector),
\* while they index m_lans, the ranges those languages form.
Bound(v) == IF v = "m_lans" THEN Cardinality(req.lans) ELSE Len(vec'[v])

\* The command onGetNextAtInfo builds from entry cursor[v] of vector v,
\* as onHandleIntermediates has just left the vectors; an index past the
\* end reads whatever lies behind the array (Vector::operator[] does not
\* check it in a release build).
CmdOf(v) ==
  SetCmd(IF v \in {"m_channels_md", "m_channels"} THEN "CHA=" ELSE "LAN=",
         IF v \in {"m_channels", "m_lans"} /\ req.sel THEN 1 ELSE 0,
         IF cursor[v] < Len(vec'[v]) THEN vec'[v][cursor[v] + 1] ELSE Junk)

Advance(v) == cursor' = [cursor EXCEPT ![v] = @ + 1]

\* onGetNextAtInfo: after AT+ECSCBCHA? ask for the languages and reset the
\* cursors; otherwise send the first range still due in Walk order, or end.
OnGetNextAtInfo(cmd) ==
  IF req.sel /\ cmd.kind = "CHA?"
  THEN /\ cursor' = [v \in VecNames |-> 0]
       /\ at' = Query("LAN?")
  ELSE LET due == {i \in 1..Len(Walk) : Below(cursor[Walk[i]], Bound(Walk[i]))}
       IN IF due = {} THEN at' = None /\ UNCHANGED cursor
          ELSE LET v == Walk[CHOOSE i \in due : \A j \in due : i <= j]
               IN at' = CmdOf(v) /\ Advance(v)

\* onHandleIntermediates: for a query of a selected request, parse the
\* mode and append the modem's ranges; a bad mode sets RIL_E_SYSTEM_ERR and
\* stops (HandleResponse then ends the loop).
OnHandleIntermediates(cmd, line) ==
  IF req.sel /\ cmd.kind \in {"CHA?", "LAN?"}
  THEN IF line.mode \notin {0, 1}
       THEN /\ SetError("SYSTEM_ERR")
            /\ UNCHANGED vec
       ELSE LET name == IF cmd.kind = "CHA?" THEN "m_channels_md" ELSE "m_languages_md"
                got == IF line.mode = 1 THEN line.ranges ELSE <<>>
            IN /\ vec' = [vec EXCEPT ![name] = @ \o got]
               /\ UNCHANGED error
  ELSE UNCHANGED <<vec, error>>

\* onGetFirstAtInfo, with sortCategoryAndLanguage as its guard: infos that
\* disagree on "selected" yield no command at all and no error.
OnGetFirstAtInfo(r) ==
  IF ~r.uniform
  THEN /\ at' = None
       /\ vec' = [v \in VecNames |-> <<>>]
       /\ cursor' = [v \in VecNames |-> -1]
  ELSE LET v0 == [v \in VecNames |->
                    CASE v = "m_channels" -> RangesOf(r.cats)
                      [] v = "m_lans"     -> RangesOf(r.lans)
                      [] OTHER            -> <<>>]
       IN /\ vec' = v0
          /\ IF r.sel
             THEN /\ at' = Query("CHA?")
                  /\ cursor' = [v \in VecNames |-> IF v \in {"m_channels", "m_lans"} THEN 0 ELSE -1]
             ELSE /\ at' = SetCmd("CHA=", 0, IF v0["m_channels"] = <<>> THEN Junk
                                             ELSE v0["m_channels"][1])
                  /\ cursor' = [v \in VecNames |->
                                  CASE v = "m_channels" -> 1
                                    [] v = "m_lans"     -> 0
                                    [] OTHER            -> -1]

(***************************************************************************)
(* The handler and the modem                                               *)
(***************************************************************************)
Init ==
  /\ mdCha \in SUBSET Categories
  /\ mdLan \in SUBSET Languages
  /\ req = None
  /\ vec = [v \in VecNames |-> <<>>]
  /\ cursor = [v \in VecNames |-> -1]
  /\ error = "SUCCESS"
  /\ at = None
  /\ rsp = None
  /\ startCfg = [cha |-> mdCha, lan |-> mdLan]
  /\ lastRsp = None

\* The request message reaches the handler: the request object is built
\* from the config infos and asked for its first command.  Every info
\* adds one category and one language, so with zero infos (length 0) both
\* are empty and no info disagrees; onGetFirstAtInfo then reads
\* m_channels[0] of an empty vector.
Receive ==
  /\ req = None
  /\ \E sel \in BOOLEAN, uniform \in Uniformity,
        cats \in SUBSET Categories, lans \in SUBSET Languages :
       LET r == [sel |-> sel, cats |-> cats, lans |-> lans, uniform |-> uniform]
       IN /\ (cats = {}) = (lans = {})
          /\ cats = {} => EmptyConfig /\ uniform
          /\ req' = r
          /\ OnGetFirstAtInfo(r)
  /\ error' = "SUCCESS"
  /\ startCfg' = [cha |-> mdCha, lan |-> mdLan]
  /\ lastRsp' = None
  /\ UNCHANGED <<mdCha, mdLan, rsp>>

\* Which answers the AT channel may give to a command, and whether the
\* modem executed it.
Outcomes(c) ==
  {"OK"} \cup IF c.kind \in {"CHA?", "LAN?"} THEN Faults ELSE Faults \ {"MALFORMED"}
Executed(o) ==
  CASE o = "OK" -> {TRUE} [] o = "TIMEOUT" -> BOOLEAN [] OTHER -> {FALSE}

Toggle(S, c) ==
  IF c.mode = 1 THEN S \cup RangeSet(c.range) ELSE S \ RangeSet(c.range)

\* What executing set command c may make of the modem's set S: a garbage
\* range may name any values, or none the modem knows.
Effects(S, c, U) ==
  IF c.range = Junk
  THEN {S} \cup {Toggle(S, [c EXCEPT !.range = r]) : r \in U \X U}
  ELSE {Toggle(S, c)}

\* The modem runs the command the handler sent and answers it.
ModemExecute ==
  /\ at /= None
  /\ rsp = None
  /\ \E o \in Outcomes(at) : \E done \in Executed(o) :
       /\ rsp' = [outcome |-> o,
                  lines |-> SendAt(at, CASE o = "MALFORMED" -> Malformed
                                         [] at.kind = "CHA?" -> QueryLine(mdCha)
                                         [] at.kind = "LAN?" -> QueryLine(mdLan)
                                         [] OTHER -> [mode |-> 0, ranges |-> <<>>])]
       /\ IF done /\ at.kind = "CHA=" THEN mdCha' \in Effects(mdCha, at, Categories)
                                       ELSE mdCha' = mdCha
       /\ IF done /\ at.kind = "LAN=" THEN mdLan' \in Effects(mdLan, at, Languages)
                                       ELSE mdLan' = mdLan
  /\ UNCHANGED <<req, vec, cursor, error, at, startCfg, lastRsp>>

\* RmcMultiAtReq::getNextAt: a failed or timed-out command sets
\* RIL_E_GENERIC_FAILURE and ends the request; otherwise the intermediate
\* line, if the command's class collects one, is handed to
\* onHandleIntermediates and, if it accepts it, the next command is asked
\* for.
HandleResponse ==
  /\ rsp /= None
  /\ rsp' = None
  /\ IF rsp.outcome \in {"ERROR", "TIMEOUT"}
     THEN /\ error' = "GENERIC_FAILURE"
          /\ at' = None
          /\ UNCHANGED <<vec, cursor>>
     ELSE IF rsp.lines = <<>>
     THEN /\ UNCHANGED <<vec, error>>
          /\ OnGetNextAtInfo(at)
     ELSE IF req.sel /\ at.kind \in {"CHA?", "LAN?"} /\ rsp.lines[1].mode \notin {0, 1}
     THEN /\ OnHandleIntermediates(at, rsp.lines[1])
          /\ at' = None
          /\ UNCHANGED cursor
     ELSE /\ OnHandleIntermediates(at, rsp.lines[1])
          /\ OnGetNextAtInfo(at)
  /\ UNCHANGED <<mdCha, mdLan, req, startCfg, lastRsp>>

\* No command left: the handler answers with the request's error
\* (RmcVoidRsp(req->getError())).
Respond ==
  /\ req /= None
  /\ at = None
  /\ rsp = None
  /\ lastRsp' = error
  /\ req' = None
  /\ UNCHANGED <<mdCha, mdLan, vec, cursor, error, at, rsp, startCfg>>

Next == Receive \/ ModemExecute \/ HandleResponse \/ Respond

\* The MD-comm channel thread serves the request until it answers, and the
\* AT channel always answers (with a timeout at worst).
Fairness ==
  /\ WF_vars(ModemExecute)
  /\ WF_vars(HandleResponse)
  /\ WF_vars(Respond)

Spec == Init /\ [][Next]_vars /\ Fairness

(***************************************************************************)
(* Properties                                                              *)
(***************************************************************************)
Cmds ==
  {Query("CHA?"), Query("LAN?")} \cup
  {SetCmd(k, m, r) : k \in {"CHA=", "LAN="}, m \in {0, 1},
   r \in ((Categories \cup Languages) \X (Categories \cup Languages)) \cup {Junk}}

\* Types, and every cursor of onGetNextAtInfo stays within its vector, so
\* no range is read past the end of m_channels, m_lans or the modem lists.
TypeOK ==
  /\ mdCha \subseteq Categories /\ mdLan \subseteq Languages
  /\ req \in [sel : BOOLEAN, cats : SUBSET Categories,
              lans : SUBSET Languages, uniform : BOOLEAN] \cup {None}
  /\ \A v \in VecNames : cursor[v] \in -1..Len(vec[v])
  /\ error \in Errnos
  /\ at \in Cmds \cup {None}
  /\ lastRsp \in Errnos \cup {None}

\* The service the request promises (CdmaBcConfigAbstract): answered
\* RIL_E_SUCCESS only with the modem holding exactly the requested
\* configuration, a failure never enabling what was neither enabled nor
\* requested, every request answered.  Between two answers the abstract
\* configuration is the one the request started from.
Abs == INSTANCE CdmaBcConfigAbstract WITH
         cfg <- IF req = None THEN [cha |-> mdCha, lan |-> mdLan] ELSE startCfg,
         pending <- req,
         answer <- lastRsp,
         Failures <- Errnos \ {"SUCCESS"}

AbstractSpec == Abs!Spec

\* onGetNextAtInfo never reads a range past the end of the vector it walks,
\* so every AT+ECSCBCHA= / AT+ECSCBLAN= names a range the request or the
\* modem gave.
NoReadPastEnd == at = None \/ at.range /= Junk

\* A request whose config infos disagree on "selected" is not answered
\* RIL_E_SUCCESS when it is answered: the modem has not been told anything.
MixedRequestNotSuccess ==
  [][(req /= None /\ ~req.uniform /\ req' = None) => lastRsp' /= "SUCCESS"]_vars

\* Every request is served soundly: no command it sends names a range read
\* past the end of a vector, and none whose infos disagree is answered
\* RIL_E_SUCCESS.  The two properties above together, as one action
\* property (no state has a command when the request starts).
RequestServedSoundly ==
  [][/\ (at' /= None => at'.range /= Junk)
     /\ ((req /= None /\ ~req.uniform /\ req' = None) => lastRsp' /= "SUCCESS")]_vars

================================================================================
