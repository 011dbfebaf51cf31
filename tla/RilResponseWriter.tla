--------------------------- MODULE RilResponseWriter ---------------------------
(***************************************************************************)
(* RtcRilClientController::sendResponse and blockingWrite: a response     *)
(* parcel goes to a client's socket as a 4-byte big-endian length         *)
(* (htonl(p.dataSize())) and then the parcel's bytes.  blockingWrite      *)
(* calls write until every byte is out: a write may take only part of     *)
(* what remains; EINTR and EAGAIN retry (a step that changes nothing, so  *)
(* it is left out); any other error returns -1 at once, leaving what was  *)
(* written on the wire.  The client that gets -1 closes the socket        *)
(* (RilClient, outside src/: "RilClient would close, too") and a new      *)
(* connection starts from an empty stream.                                 *)
(*                                                                         *)
(* The reader at the other end splits the stream into length-prefixed     *)
(* parcels.  Byte j of the parcel of the k-th response is the value        *)
(* 10 * k + j: distinct values, so that a byte sent twice or out of place  *)
(* is seen.                                                                *)
(***************************************************************************)
EXTENDS Integers, Sequences, SequencesExt

CONSTANTS
  Sizes,          \* p.dataSize() of the responses
  MaxSends        \* bound on the responses sent

ASSUME Sizes \subseteq 0..9 /\ MaxSends <= 24

VARIABLES
  wire,           \* the bytes the reader has received on this connection
  sent,           \* responses sendResponse has been called for
  parcels,        \* the parcels sendResponse completed on this connection
  pc,             \* "idle", "header" or "data": which blockingWrite runs
  header,         \* the header of the response being sent
  parcel,         \* its parcel
  off,            \* its writeOffset
  ret,            \* what the last sendResponse returned
  open            \* the connection is open

vars == <<wire, sent, parcels, pc, header, parcel, off, ret, open>>

\* The parcel of the k-th response, n bytes long.
Parcel(k, n) == [j \in 1..n |-> 10 * k + j]

\* htonl(n) as the 4 bytes of the header.
Header(n) == [i \in 1..4 |-> (n \div (256 ^ (4 - i))) % 256]

(***************************************************************************)
(* Plausible bugs, used as mutants of the definitions below them.         *)
(***************************************************************************)
ChunkFromStart(buf, o, w) == SubSeq(buf, 1, w)
HeaderRetIgnored(r) == "data"
BlockingWriteRetLen(len) == len

(***************************************************************************)
(* blockingWrite                                                           *)
(***************************************************************************)
\* The w bytes write(fd, toWrite + writeOffset, len - writeOffset) sends.
Chunk(buf, o, w) == SubSeq(buf, o + 1, o + w)

\* What blockingWrite returns once all len bytes are out.
BlockingWriteRet(len) == 0

\* After the header's blockingWrite returned r: on to the parcel, or
\* sendResponse returns r.
AfterHeader(r) == IF r < 0 THEN "idle" ELSE "data"

Init ==
  /\ wire = <<>>
  /\ sent = 0
  /\ parcels = <<>>
  /\ pc = "idle"
  /\ header = <<>>
  /\ parcel = <<>>
  /\ off = 0
  /\ ret = 0
  /\ open = TRUE

\* sendResponse(p, fd): the header's blockingWrite starts.  The client
\* sends nothing more on a socket after a -1 (it closes it).
SendResponse ==
  /\ pc = "idle" /\ open /\ ret = 0 /\ sent < MaxSends
  /\ \E n \in Sizes :
       /\ sent' = sent + 1
       /\ header' = Header(n)
       /\ parcel' = Parcel(sent + 1, n)
       /\ pc' = "header"
       /\ off' = 0
  /\ UNCHANGED <<wire, parcels, ret, open>>

\* The buffer blockingWrite is writing.
Buf == IF pc = "header" THEN header ELSE parcel

\* One write() that takes w of the remaining bytes.
Write ==
  /\ pc \in {"header", "data"} /\ off < Len(Buf)
  /\ \E w \in 1..(Len(Buf) - off) :
       /\ wire' = wire \o Chunk(Buf, off, w)
       /\ off' = off + w
  /\ UNCHANGED <<sent, parcels, pc, header, parcel, ret, open>>

\* A write() fails with an errno other than EINTR and EAGAIN: blockingWrite
\* returns -1.
WriteFails ==
  /\ pc \in {"header", "data"} /\ off < Len(Buf)
  /\ ret' = -1
  /\ pc' = IF pc = "header" THEN AfterHeader(-1) ELSE "idle"
  /\ UNCHANGED <<wire, sent, parcels, header, parcel, off, open>>

\* blockingWrite returns 0: the header is out, or the response is.
WriteDone ==
  /\ pc \in {"header", "data"} /\ off = Len(Buf)
  /\ off' = 0
  /\ ret' = BlockingWriteRet(Len(Buf))
  /\ IF pc = "header"
     THEN /\ pc' = AfterHeader(ret')
          /\ UNCHANGED parcels
     ELSE /\ pc' = "idle"
          /\ parcels' = Append(parcels, parcel)
  /\ UNCHANGED <<wire, sent, header, parcel, open>>

\* The client saw -1 and closed the socket (RilClient).
Close ==
  /\ pc = "idle" /\ open /\ ret < 0
  /\ open' = FALSE
  /\ UNCHANGED <<wire, sent, parcels, pc, header, parcel, off, ret>>

\* A new connection of the client.
Reconnect ==
  /\ ~open
  /\ open' = TRUE /\ wire' = <<>> /\ parcels' = <<>> /\ ret' = 0
  /\ UNCHANGED <<sent, pc, header, parcel, off>>

Next == SendResponse \/ Write \/ WriteFails \/ WriteDone \/ Close \/ Reconnect

Spec == Init /\ [][Next]_vars

(***************************************************************************)
(* Properties                                                              *)
(***************************************************************************)
TypeOK ==
  /\ wire \in Seq(0..255)
  /\ pc \in {"idle", "header", "data"}
  /\ pc /= "idle" => off \in 0..Len(Buf)
  /\ ret \in {0, -1}

\* The reader: a 4-byte big-endian length, then that many bytes; a parcel
\* not yet complete is not read.
Decode(h) == ((h[1] * 256 + h[2]) * 256 + h[3]) * 256 + h[4]

RECURSIVE ReadParcels(_)
ReadParcels(w) ==
  IF Len(w) < 4 \/ Len(w) < 4 + Decode(SubSeq(w, 1, 4)) THEN <<>>
  ELSE LET n == Decode(SubSeq(w, 1, 4))
       IN <<SubSeq(w, 5, 4 + n)>> \o ReadParcels(SubSeq(w, 5 + n, Len(w)))

\* The reader of a connection gets exactly the parcels whose sendResponse
\* returned 0 on it, in order, and then the bytes of at most one more
\* response: no byte of a response is lost, repeated or misplaced however
\* write() splits it, and a failed write never lets a later response
\* follow a torn one on the same connection.
ReaderGetsResponses ==
  LET done == FlattenSeq([i \in 1..Len(parcels) |-> Header(Len(parcels[i])) \o parcels[i]])
  IN /\ ReadParcels(wire) \in {parcels} \cup {Append(parcels, parcel)}
     /\ IsPrefix(done, wire)
     /\ (pc = "idle" /\ ret = 0) => wire = done

================================================================================
