---------------------------- MODULE AresServersCsv ----------------------------
(***************************************************************************)
(* The server-list calls of the c-ares fork (libc-ares-naptr/             *)
(* ares_options.c): ares_get_servers, ares_set_servers and                *)
(* ares_set_servers_csv on one channel.  A channel is used from one       *)
(* thread, so every call is one step.  The library is initialised and     *)
(* the channel is not NULL (the two early returns are left out).          *)
(*                                                                         *)
(* An address is a model value whose text is classified by Family:        *)
(* "v4" (dotted quad), "v6" (IPv6 text whose last group has a letter or   *)
(* is empty, e.g. fe80::a), "v6d" (IPv6 text ending in ':' and digits,    *)
(* e.g. ::1), "bad" (no address, e.g. a host name).  A csv entry is an    *)
(* address and whether ":<port>" follows it.  Cut[a] is the text a "v6d"  *)
(* address leaves when its last group is taken for a port.  Every         *)
(* malloc may fail: the input fail says which one does.                    *)
(***************************************************************************)
EXTENDS Integers, Sequences, SequencesExt

CONSTANTS
  Addrs,          \* address texts
  Family,         \* Family[a] \in {"v4", "v6", "v6d", "bad"}
  Cut,            \* Cut[a] for "v6d" a: the address text left without the last group
  MaxEntries,     \* entries of a csv
  MallocFails     \* whether a malloc may fail

ASSUME Family \in [Addrs -> {"v4", "v6", "v6d", "bad"}]
ASSUME Cut \in [{a \in Addrs : Family[a] = "v6d"} -> Addrs]

VARIABLES
  servers,        \* channel->servers[0 .. nservers-1], their addresses
  got,            \* the list the last ares_get_servers returned
  lastOp,         \* history: the last call
  lastCsv,        \* history: the entries of the last ares_set_servers_csv
  lastRv          \* history: the status the last call returned

vars == <<servers, got, lastOp, lastCsv, lastRv>>

Entries == [addr : Addrs, port : BOOLEAN]

Csvs == UNION {[1..n -> Entries] : n \in 0..MaxEntries}

\* What inet_pton accepts: a server holds an in_addr or an in6_addr.
Addresses == {a \in Addrs : Family[a] /= "bad"}

ServerLists == UNION {[1..n -> Addresses] : n \in 0..MaxEntries}

\* Which malloc fails: none, the csv copy, the server array of
\* ares_set_servers, or the node of entry (server) i.
NoFail == 0
CsvFail == -1
ArrayFail == -2
Fails(n) == IF MallocFails THEN {NoFail, CsvFail, ArrayFail} \cup 1..n ELSE {NoFail}

(***************************************************************************)
(* Plausible bugs, used as mutants of the definitions below them.         *)
(***************************************************************************)
EntryNoBadCheck(e, i, fail, st) ==
  IF fail = i THEN [st EXCEPT !.rv = "ENOMEM"] ELSE [st EXCEPT !.list = @ \o <<e.addr>>]
LinkPrepend(st, s) == [st EXCEPT !.list = <<s>> \o @, !.last = 1]

(***************************************************************************)
(* ares_set_servers_csv                                                    *)
(***************************************************************************)
\* The backward scan for ":<digits>" before the ','.  A port is cut off;
\* so is the last group of an IPv6 text ending in digits when no port
\* follows it.
HostOf(e) ==
  IF ~e.port /\ Family[e.addr] = "v6d" THEN Cut[e.addr] ELSE e.addr

\* The list node s is hung after "last": last->next = s drops whatever
\* followed last, and only the first node becomes "last".
Link(st, s) ==
  IF st.last = 0
  THEN [st EXCEPT !.list = <<s>>, !.last = 1]
  ELSE [st EXCEPT !.list = SubSeq(@, 1, st.last) \o <<s>>]

\* One turn of the loop, at the ',' after entry e (the i-th): inet_pton as
\* IPv4, then as IPv6, else EBADSTR; the node's malloc may fail.
Entry(e, i, fail, st) ==
  LET h == HostOf(e)
  IN CASE Family[h] = "bad" -> [st EXCEPT !.rv = "EBADSTR"]
       [] fail = i -> [st EXCEPT !.rv = "ENOMEM"]
       [] OTHER -> Link(st, h)

\* The loop over the entries, left at the first "goto out".
RECURSIVE ParseEntries(_, _, _, _)
ParseEntries(csv, i, fail, st) ==
  IF i > Len(csv) \/ st.rv /= "SUCCESS" THEN st
  ELSE ParseEntries(csv, i + 1, fail, Entry(csv[i], i, fail, st))

\* ares_set_servers: the old state is destroyed; an empty list leaves
\* none, otherwise the array's malloc may fail.
SetServersResult(list, fail) ==
  CASE list = <<>> -> [rv |-> "SUCCESS", list |-> <<>>]
    [] fail = ArrayFail -> [rv |-> "ENOMEM", list |-> <<>>]
    [] OTHER -> [rv |-> "SUCCESS", list |-> list]

\* A plausible bug, used as a mutant of the definition below it: the
\* entries parsed before the failing one are set on the channel.
SetServersCsvKeepPartial(csv, fail) ==
  IF csv = <<>> THEN [rv |-> "SUCCESS", list |-> <<>>]
  ELSE IF fail = CsvFail THEN [rv |-> "ENOMEM", list |-> <<>>]
  ELSE LET st == ParseEntries(csv, 1, fail,
                              [list |-> <<>>, last |-> 0, rv |-> "SUCCESS"])
       IN IF st.rv = "SUCCESS" THEN SetServersResult(st.list, fail)
          ELSE [rv |-> st.rv, list |-> st.list]

\* ares_set_servers_csv: the servers are destroyed first, whatever
\* follows; an empty string stops there.
SetServersCsvResult(csv, fail) ==
  IF csv = <<>> THEN [rv |-> "SUCCESS", list |-> <<>>]
  ELSE IF fail = CsvFail THEN [rv |-> "ENOMEM", list |-> <<>>]
  ELSE LET st == ParseEntries(csv, 1, fail,
                              [list |-> <<>>, last |-> 0, rv |-> "SUCCESS"])
       IN IF st.rv = "SUCCESS" THEN SetServersResult(st.list, fail)
          ELSE [rv |-> st.rv, list |-> <<>>]

(***************************************************************************)
(* ares_get_servers.  The list it builds is a sequence of nodes linked by *)
(* "next" (0 is NULL), with srvr_head and srvr_last as indexes.  fail is  *)
(* the server whose node's malloc fails.                                   *)
(***************************************************************************)
\* The list a caller walks from a head node, following next until NULL
\* (the "srvr = srvr->next" walk of ares_set_servers).
RECURSIVE ListFrom(_, _)
ListFrom(nodes, p) ==
  IF p = 0 THEN <<>> ELSE <<nodes[p].addr>> \o ListFrom(nodes, nodes[p].next)

\* A plausible bug, used as a mutant of GetServersOut: the nodes made
\* before the failing malloc are returned instead of freed.
GetServersOutNoFree(st) == [rv |-> st.rv, list |-> ListFrom(st.nodes, st.head)]

\* One turn of the loop, for server i: the node's malloc may fail (ENOMEM,
\* break); otherwise the node is hung after srvr_last, or becomes the
\* head, becomes srvr_last, and gets the server's address.
GetNode(i, fail, st) ==
  IF fail = i THEN [st EXCEPT !.rv = "ENOMEM"]
  ELSE LET n == Len(st.nodes) + 1
           linked == IF st.last = 0 THEN st.nodes
                     ELSE [st.nodes EXCEPT ![st.last].next = n]
       IN [st EXCEPT !.nodes = Append(linked, [addr |-> servers[i], next |-> 0]),
                     !.head = IF st.last = 0 THEN n ELSE @,
                     !.last = n]

\* The loop over channel->servers, left at the first failed malloc.
RECURSIVE GetLoop(_, _, _)
GetLoop(i, fail, st) ==
  IF i > Len(servers) \/ st.rv /= "SUCCESS" THEN st
  ELSE GetLoop(i + 1, fail, GetNode(i, fail, st))

\* After the loop: on a failure the list from srvr_head is freed and
\* NULL is returned; otherwise the list from srvr_head.
GetServersOut(st) ==
  IF st.rv /= "SUCCESS" THEN [rv |-> st.rv, list |-> <<>>]
  ELSE [rv |-> st.rv, list |-> ListFrom(st.nodes, st.head)]

GetServersResult(fail) ==
  GetServersOut(GetLoop(1, fail, [nodes |-> <<>>, head |-> 0, last |-> 0, rv |-> "SUCCESS"]))

(***************************************************************************)
(* The calls                                                               *)
(***************************************************************************)
Init ==
  /\ servers \in ServerLists
  /\ got = <<>>
  /\ lastOp = "init"
  /\ lastCsv = <<>>
  /\ lastRv = "SUCCESS"

SetServersCsv ==
  \E csv \in Csvs :
    \E fail \in Fails(Len(csv)) :
      LET r == SetServersCsvResult(csv, fail)
      IN /\ servers' = r.list
         /\ lastRv' = r.rv
         /\ lastOp' = "csv"
         /\ lastCsv' = csv
         /\ UNCHANGED got

\* ares_set_servers with the list the caller last got back.
SetServers ==
  \E fail \in Fails(0) \ {CsvFail} :
    LET r == SetServersResult(got, fail)
    IN /\ servers' = r.list
       /\ lastRv' = r.rv
       /\ lastOp' = "set"
       /\ UNCHANGED <<got, lastCsv>>

GetServers ==
  \E fail \in Fails(Len(servers)) \ {CsvFail, ArrayFail} :
    LET r == GetServersResult(fail)
    IN /\ got' = r.list
       /\ lastRv' = r.rv
       /\ lastOp' = "get"
       /\ UNCHANGED <<servers, lastCsv>>

Next == SetServersCsv \/ SetServers \/ GetServers

Spec == Init /\ [][Next]_vars

(***************************************************************************)
(* Properties                                                              *)
(***************************************************************************)
Statuses == {"SUCCESS", "ENOMEM", "EBADSTR"}

\* Types: the channel holds only addresses inet_pton accepted.
TypeOK ==
  /\ servers \in Seq(Addresses) /\ got \in Seq(Addresses)
  /\ lastRv \in Statuses
  /\ lastOp \in {"init", "csv", "set", "get"}

\* The reference reading of "host[:port][,host[:port]]...": the hosts,
\* in order, ports removed.
CsvHosts(csv) == [i \in 1..Len(csv) |-> csv[i].addr]

CsvValid(csv) == \A i \in 1..Len(csv) : Family[csv[i].addr] /= "bad"

\* A well-formed csv that ares_set_servers_csv does not fail for lack of
\* memory is accepted, and the channel then has exactly its hosts, in
\* order: the pointer walk that builds the list and the scan for a port
\* neither drop, reorder nor alter a server.
CsvServersParsed ==
  (lastOp = "csv" /\ CsvValid(lastCsv) /\ lastRv /= "ENOMEM")
    => lastRv = "SUCCESS" /\ servers = CsvHosts(lastCsv)

\* A failed ares_set_servers_csv (a bad entry, or any malloc) never leaves
\* part of the csv on the channel: the nodes parsed before the failure are
\* freed at "out", and the destroy at the start has already removed the
\* old servers, so the channel has none.
CsvFailureSetsNothing ==
  (lastOp = "csv" /\ lastRv /= "SUCCESS") => servers = <<>>

\* ares_get_servers hands back the channel's servers, all of them and in
\* order, or, when a node's malloc fails part way, nothing: the srvr_last
\* walk that links the nodes and the free of the partial list on failure
\* together decide this, so a caller saving the servers to set them back
\* never restores a part of them.
GetServersAllOrNothing ==
  lastOp = "get" => \/ lastRv = "SUCCESS" /\ got = servers
                    \/ lastRv = "ENOMEM" /\ got = <<>>

================================================================================
