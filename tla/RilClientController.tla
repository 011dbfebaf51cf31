-------------------------- MODULE RilClientController --------------------------
(***************************************************************************)
(* RtcRilClientController as a whole: the client list (RilClientRegistry) *)
(* and the socket of one client, Watched, followed byte by byte            *)
(* (RilResponseWriter).                                                     *)
(*                                                                         *)
(* onClientRequestComplete and onClientUnsolicitedResponse hand a response *)
(* to the client (requestComplete, handleUnsolicited: RilClient, outside   *)
(* src/), which turns it into one parcel and sends it with sendResponse on *)
(* its socket, or drops it when the socket is closed.  All of this runs on *)
(* the telcore main thread: no controller call starts while a              *)
(* blockingWrite is in progress or a response is still to be sent.  A      *)
(* client's request arrives on the client's own thread, at any time.       *)
(***************************************************************************)
EXTENDS Integers

CONSTANTS
  TestModes, SimCounts, MaxUrcs, MaxRequests, NULL, CRASH,
  Sizes, MaxSends,
  Watched         \* the client whose socket is followed

VARIABLES
  opHandler, testMode, simCount, inited, queue, pending, completed, urcs,
  handled, crashed,
  wire, sent, parcels, pc, header, parcel, off, ret, open,
  dropped         \* responses Watched dropped on a closed socket

regVars == <<opHandler, testMode, simCount, inited, queue, pending, completed,
             urcs, handled, crashed>>
wVars == <<wire, sent, parcels, pc, header, parcel, off, ret, open>>
vars == <<regVars, wVars, dropped>>

Reg == INSTANCE RilClientRegistry
W == INSTANCE RilResponseWriter

\* Responses handed to Watched and neither sent nor dropped yet.
Owed == completed[Watched] + handled[Watched] - sent - dropped

\* The main thread is free for the next controller call.
MainThreadFree == pc = "idle" /\ Owed = 0

Init == Reg!Init /\ W!Init /\ dropped = 0

\* onInit, onClientRequestComplete, onClientUnsolicitedResponse.
ControllerCall ==
  /\ MainThreadFree
  /\ Reg!OnInit \/ Reg!OnClientRequestComplete \/ Reg!OnClientUnsolicitedResponse
  /\ UNCHANGED <<wVars, dropped>>

ClientRequest == Reg!ClientRequest /\ UNCHANGED <<wVars, dropped>>

\* Watched sends the response it was handed.
Respond == Owed > 0 /\ W!SendResponse /\ UNCHANGED <<regVars, dropped>>

\* Watched drops the response: its socket is closed.
Drop ==
  /\ Owed > 0 /\ ~open /\ pc = "idle"
  /\ dropped' = dropped + 1
  /\ UNCHANGED <<regVars, wVars>>

WriterStep ==
  /\ W!Write \/ W!WriteFails \/ W!WriteDone \/ W!Close \/ W!Reconnect
  /\ UNCHANGED <<regVars, dropped>>

Next == ControllerCall \/ ClientRequest \/ Respond \/ Drop \/ WriterStep

Spec == Init /\ [][Next]_vars

(***************************************************************************)
(* Properties: those of the two parts, on the composed behaviour.          *)
(***************************************************************************)
TypeOK == Reg!TypeOK /\ W!TypeOK /\ dropped \in 0..MaxSends

\* After onInit the list holds exactly the configured clients, each once.
RegisteredClients == Reg!RegisteredClients

\* rild never aborts in the controller.
NoAssert == Reg!NoAssert

\* Every registered client handles every unsolicited response once.
UrcReachesEveryClient == Reg!UrcReachesEveryClient

\* Watched's reader gets exactly the completed responses of its connection,
\* in order, with at most one torn response at the end.
ReaderGetsResponses == W!ReaderGetsResponses

================================================================================
