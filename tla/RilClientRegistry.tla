--------------------------- MODULE RilClientRegistry ---------------------------
(***************************************************************************)
(* The socket clients of rild (telcore/client/RtcRilClientController.cpp): *)
(* onInit creates one client per entry of the table client[] that the     *)
(* configuration asks for and registers it at the tail of the list        *)
(* clientHead, whose first node is a dummy with no client.  A completed   *)
(* request is handed to the client found by id; an unsolicited response  *)
(* is handed to every client in the list.  RFX_ASSERT aborts rild.        *)
(*                                                                         *)
(* The controller runs on the telcore main thread: every call is one step. *)
(* A client's identity and its type coincide in the table, so a client is  *)
(* its id.  The three values read when onInit runs (whether an operator   *)
(* handler exists, atoi of persist.vendor.ril.test_mode, the SIM count)   *)
(* are chosen once in Init and never change.  That a client sent a        *)
(* request is the RilClient's own step, outside src/.                      *)
(***************************************************************************)
EXTENDS Integers, Sequences, SequencesExt

CONSTANTS
  TestModes,      \* values atoi(persist.vendor.ril.test_mode) may take
  SimCounts,      \* values rfxGetSimCount() may take
  MaxUrcs,        \* bound on the unsolicited responses sent
  MaxRequests,    \* bound on the requests sent
  NULL,           \* a node without a client (the dummy head)
  CRASH           \* RFX_ASSERT(0): rild aborts

\* The table client[], in order; each entry is its identity and type.
Table == <<"OEM", "MTTS1", "MTTS2", "MTTS3", "MTTS4", "ATCI">>
Ids == {Table[i] : i \in 1..Len(Table)}

\* The SIM count each MTTS client past the first needs.
MttsSims == ("MTTS2" :> 2) @@ ("MTTS3" :> 3) @@ ("MTTS4" :> 4)

VARIABLES
  opHandler,      \* RfxOpUtils::getOpHandler() /= NULL
  testMode,       \* atoi(property_value)
  simCount,       \* RfxRilUtils::rfxGetSimCount()
  inited,         \* onInit has run
  queue,          \* the list from clientHead: queue[1] is the dummy head
  pending,        \* client -> requests it sent, not yet completed
  completed,      \* client -> requestComplete calls it received
  urcs,           \* unsolicited responses sent
  handled,        \* client -> handleUnsolicited calls it received
  crashed         \* an RFX_ASSERT fired

vars == <<opHandler, testMode, simCount, inited, queue, pending, completed,
          urcs, handled, crashed>>

(***************************************************************************)
(* Plausible bugs, used as mutants of the definitions below them.         *)
(***************************************************************************)
CreatesMttsOffByOne(c) ==
  CASE c = "OEM" -> ~opHandler
    [] c = "ATCI" -> TRUE
    [] c = "MTTS1" -> testMode /= 0
    [] OTHER -> testMode /= 0 /\ simCount > MttsSims[c]
RegisterNoClient(q, c) == Append(q, NULL)
UrcSkipLast(q) == SubSeq(q, 2, Len(q) - 1)

(***************************************************************************)
(* The controller                                                          *)
(***************************************************************************)
\* The switch of initRilClient: whether the client is created, or the
\* loop goes on ("continue").
Creates(c) ==
  CASE c = "OEM" -> ~opHandler
    [] c = "ATCI" -> TRUE
    [] c = "MTTS1" -> testMode /= 0
    [] OTHER -> testMode /= 0 /\ simCount >= MttsSims[c]

\* registerRilClient: walk to the node whose nextClient is NULL and hang
\* a new node holding the client after it.
RegisterRilClient(q, c) == Append(q, c)

\* findClientWithId: the walk from clientHead->nextClient; a node without
\* a client asserts.
RECURSIVE FindFrom(_, _, _)
FindFrom(q, i, id) ==
  CASE i > Len(q) -> NULL
    [] q[i] = NULL -> CRASH
    [] q[i] = id -> id
    [] OTHER -> FindFrom(q, i + 1, id)

FindFromHead(q, id) == FindFrom(q, 1, id)

FindClientWithId(q, id) == FindFrom(q, 2, id)

\* The nodes onClientUnsolicitedResponse visits: from clientHead->nextClient
\* to the end.
UrcClients(q) == SubSeq(q, 2, Len(q))

Init ==
  /\ opHandler \in BOOLEAN
  /\ testMode \in TestModes
  /\ simCount \in SimCounts
  /\ inited = FALSE
  /\ queue = <<NULL>>
  /\ pending = [c \in Ids |-> 0]
  /\ completed = [c \in Ids |-> 0]
  /\ urcs = 0
  /\ handled = [c \in Ids |-> 0]
  /\ crashed = FALSE

Config == <<opHandler, testMode, simCount>>

\* onInit and initRilClient.
OnInit ==
  /\ ~inited /\ ~crashed
  /\ inited' = TRUE
  /\ queue' = FoldLeft(RegisterRilClient, queue, SelectSeq(Table, Creates))
  /\ UNCHANGED <<Config, pending, completed, urcs, handled, crashed>>

\* A connected client sends a request (RilClient, outside src/).
ClientRequest ==
  /\ inited /\ ~crashed
  /\ \E i \in 2..Len(queue) :
       /\ queue[i] \in Ids
       /\ pending[queue[i]] + completed[queue[i]] < MaxRequests
       /\ pending' = [pending EXCEPT ![queue[i]] = @ + 1]
  /\ UNCHANGED <<Config, inited, queue, completed, urcs, handled, crashed>>

\* onClientRequestComplete for a request of client id.
OnClientRequestComplete ==
  /\ ~crashed
  /\ \E id \in Ids :
       /\ pending[id] > 0
       /\ pending' = [pending EXCEPT ![id] = @ - 1]
       /\ LET c == FindClientWithId(queue, id)
          IN IF c \in {NULL, CRASH}
             THEN crashed' = TRUE /\ UNCHANGED completed
             ELSE completed' = [completed EXCEPT ![c] = @ + 1] /\ UNCHANGED crashed
  /\ UNCHANGED <<Config, inited, queue, urcs, handled>>

\* onClientUnsolicitedResponse: every node past the head; a node without
\* a client asserts.
OnClientUnsolicitedResponse ==
  /\ inited /\ ~crashed /\ urcs < MaxUrcs
  /\ urcs' = urcs + 1
  /\ LET visited == UrcClients(queue)
     IN IF \E i \in 1..Len(visited) : visited[i] = NULL
        THEN crashed' = TRUE /\ UNCHANGED handled
        ELSE /\ handled' = [c \in Ids |->
                              handled[c] + Cardinality({i \in 1..Len(visited) : visited[i] = c})]
             /\ UNCHANGED crashed
  /\ UNCHANGED <<Config, inited, queue, pending, completed>>

Next ==
  \/ OnInit \/ ClientRequest \/ OnClientRequestComplete
  \/ OnClientUnsolicitedResponse

Spec == Init /\ [][Next]_vars

(***************************************************************************)
(* Properties                                                              *)
(***************************************************************************)
Registered == {queue[i] : i \in 2..Len(queue)}

TypeOK ==
  /\ queue \in Seq(Ids \cup {NULL}) /\ queue[1] = NULL
  /\ \A i \in 2..Len(queue) : queue[i] \in Ids
  /\ pending \in [Ids -> 0..MaxRequests] /\ completed \in [Ids -> 0..MaxRequests]
  /\ handled \in [Ids -> 0..MaxUrcs]

\* The reference reading of the client configuration: rild-atci always,
\* rild-oem without an operator handler, and in test mode one MTTS client
\* per SIM (at least one).  After onInit the list holds exactly these,
\* each once.
Expected ==
  {"ATCI"} \cup (IF opHandler THEN {} ELSE {"OEM"})
    \cup (IF testMode = 0 THEN {}
          ELSE {"MTTS1"} \cup {c \in DOMAIN MttsSims : MttsSims[c] <= simCount})

RegisteredClients ==
  inited => /\ Registered = Expected
            /\ Len(queue) = Cardinality(Registered) + 1

\* rild never aborts in the controller: every request completion finds
\* the client that sent the request, and neither walk meets a node
\* without a client.
NoAssert == ~crashed

\* Every registered client has handled every unsolicited response once,
\* the last one registered included; a client not registered none.
UrcReachesEveryClient ==
  \A c \in Ids : handled[c] = IF c \in Registered THEN urcs ELSE 0

================================================================================
