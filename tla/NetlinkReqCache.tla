---------------------------- MODULE NetlinkReqCache ----------------------------
(***************************************************************************)
(* NetlinkEventHandler of netagent (netagent/libnetagent/na/               *)
(* NetlinkEventHandler.cpp): onEvent turns a kernel address event on a    *)
(* ccmni interface into an IP-update request queued to NetAgentService;   *)
(* the service's worker compares each request with the last one kept for  *)
(* its interface (hasLastReqInfoChanged), keeps it (setLastReqInfo) and   *)
(* drops an interface's entry (removeLastReqInfo).  The kept requests are *)
(* m_pLastNetlinkEventReqInfo, a Vector searched from index 0.            *)
(*                                                                         *)
(* The worker loop and the queue live in NetAgentService, outside src/:   *)
(* the worker is modelled as calling the three cache operations on the    *)
(* request at the head of the queue, in any order.  Every request has     *)
(* cmd NETAGENT_IO_CMD_IPUPDATE, so cmd is left out.  An event lost to a  *)
(* failed calloc in enqueueReqInfo is the same as no event.               *)
(***************************************************************************)
EXTENDS Integers, Sequences, SequencesExt

CONSTANTS
  Ifaces,         \* interface ids the "ccmni<id>" names parse to
  Addrs,          \* ADDRESS texts, without the "/<prefix>"
  AddrKey,        \* AddrKey[a]: a with its letters folded (strncasecmp)
  PrefixLens,       \* prefix lengths after the '/'
  Invalid,        \* INVALID_INTERFACE_ID
  InvalidPrefix,  \* INVALID_IPV6_PREFIX_LENGTH
  CallocFails,    \* whether calloc may fail
  MaxQueue        \* bound on the requests queued to NetAgentService

ASSUME Invalid \notin Ifaces /\ InvalidPrefix \notin PrefixLens
ASSUME AddrKey \in [Addrs \cup {""} -> Addrs \cup {""}]

VARIABLES
  queue,          \* the requests onEvent queued, not yet done by the worker
  cache,          \* m_pLastNetlinkEventReqInfo
  answer,         \* what the last hasLastReqInfoChanged returned
  compared        \* history: the request hasLastReqInfoChanged last compared

vars == <<queue, cache, answer, compared>>

(***************************************************************************)
(* onEvent                                                                 *)
(***************************************************************************)
\* A netlink event: its subsystem (NULL or another one is ignored), its
\* INTERFACE (absent; a ccmni name with a number; "ccmni" with no digits;
\* another interface), its action, its ADDRESS (absent, or "<addr>" with
\* or without "/<prefix>").
Events ==
  [subsys : {"net", "other"},
   name : {[kind |-> "ccmni", id |-> i] : i \in Ifaces}
            \cup {[kind |-> k, id |-> Invalid] : k \in {"absent", "ccmni_nodigits", "mismatch"}},
   action : {"kAddressUpdated", "kAddressRemoved", "kLinkUp"},
   address : Addrs \cup {"absent"},
   slash : BOOLEAN,
   prefix : PrefixLens]

\* The request onEvent queues for event e, as a set of zero or one.  A
\* missing INTERFACE leaves interfaceId invalid; a missing ADDRESS leaves
\* the address empty and the prefix invalid (strsep of NULL).
OnEventReqs(e) ==
  IF \/ e.subsys /= "net"
     \/ e.name.kind \in {"ccmni_nodigits", "mismatch"}
     \/ e.action \notin {"kAddressUpdated", "kAddressRemoved"}
  THEN {}
  ELSE {[iface |-> e.name.id,
         action |-> IF e.action = "kAddressUpdated" THEN "ACTION_ADDR_UPDATED"
                    ELSE "ACTION_ADDR_REMOVED",
         address |-> IF e.address = "absent" THEN "" ELSE e.address,
         prefix |-> IF e.address = "absent" \/ ~e.slash
                    THEN InvalidPrefix ELSE e.prefix]}

Reqs == UNION {OnEventReqs(e) : e \in Events}

(***************************************************************************)
(* Plausible bugs, used as mutants of the definitions below them.         *)
(***************************************************************************)
SetLastNoRemove(c, r, ok) == IF ok THEN Append(c, r) ELSE c
DiffersNoPrefix(a, b) ==
  a.action /= b.action \/ AddrKey[a.address] /= AddrKey[b.address]

(***************************************************************************)
(* The cache                                                               *)
(***************************************************************************)
\* The index the "for (i = 0; i < size; i++) ... break" loops stop at,
\* 0 when no entry has the interface id.
FirstIdx(c, id) ==
  LET hits == {k \in 1..Len(c) : c[k].iface = id}
  IN IF hits = {} THEN 0 ELSE Min(hits)

\* removeLastReqInfo, and the first loop of setLastReqInfo.
RemoveEntry(c, id) ==
  IF FirstIdx(c, id) = 0 THEN c ELSE RemoveAt(c, FirstIdx(c, id))

\* setLastReqInfo past its checks: the old entry is freed first, then the
\* copy is calloc'ed (ok: it succeeded) and added at the end.
SetLast(c, r, ok) ==
  IF ok THEN Append(RemoveEntry(c, r.iface), r) ELSE RemoveEntry(c, r.iface)

\* The comparison of hasLastReqInfoChanged (cmd, action, prefix, address).
Differs(a, b) ==
  \/ a.action /= b.action
  \/ a.prefix /= b.prefix
  \/ AddrKey[a.address] /= AddrKey[b.address]

HasChanged(c, r) ==
  LET k == FirstIdx(c, r.iface)
  IN CASE r.iface = Invalid -> "GENERIC_FAILURE"
       [] k = 0 -> "NEW"
       [] Differs(c[k], r) -> "CHANGED"
       [] OTHER -> "NO_CHANGED"

Init ==
  /\ queue = <<>>
  /\ cache = <<>>
  /\ answer = "NONE"
  /\ compared = "NONE"

\* The listener thread: onEvent and enqueueReqInfo.
OnEvent ==
  /\ Len(queue) < MaxQueue
  /\ \E e \in Events :
       /\ OnEventReqs(e) /= {}
       /\ queue' = Append(queue, CHOOSE r \in OnEventReqs(e) : TRUE)
  /\ UNCHANGED <<cache, answer, compared>>

HasLastReqInfoChanged ==
  /\ queue /= <<>>
  /\ answer' = HasChanged(cache, Head(queue))
  /\ compared' = Head(queue)
  /\ UNCHANGED <<queue, cache>>

\* setLastReqInfo; a request without a valid interface id is refused
\* (GENERIC_FAILURE) and changes nothing.  What it returns is not kept:
\* no property reads it.
SetLastReqInfo ==
  /\ queue /= <<>>
  /\ LET r == Head(queue)
     IN /\ r.iface /= Invalid
        /\ \E ok \in IF CallocFails THEN BOOLEAN ELSE {TRUE} :
             cache' = SetLast(cache, r, ok)
  /\ UNCHANGED <<queue, answer, compared>>

RemoveLastReqInfo ==
  /\ \E i \in Ifaces : cache' = RemoveEntry(cache, i)
  /\ UNCHANGED <<queue, answer, compared>>

\* The worker is done with the head request.
Done ==
  /\ queue /= <<>>
  /\ queue' = Tail(queue)
  /\ UNCHANGED <<cache, answer, compared>>

Next ==
  \/ OnEvent \/ HasLastReqInfoChanged \/ SetLastReqInfo
  \/ RemoveLastReqInfo \/ Done

Spec == Init /\ [][Next]_vars

(***************************************************************************)
(* Properties                                                              *)
(***************************************************************************)
\* Types; the cache never holds more entries than there are interfaces.
TypeOK ==
  /\ queue \in Seq(Reqs) /\ Len(queue) <= MaxQueue
  /\ cache \in Seq(Reqs) /\ Len(cache) <= Cardinality(Ifaces)
  /\ answer \in {"NEW", "CHANGED", "NO_CHANGED", "GENERIC_FAILURE", "NONE"}

\* The cache holds at most one request per interface, and none without a
\* valid id: setLastReqInfo frees the entry it replaces, so the loops that
\* stop at the first match never miss a later, newer one.
OneEntryPerInterface ==
  \A j, k \in 1..Len(cache) :
    /\ cache[j].iface /= Invalid
    /\ (j /= k => cache[j].iface /= cache[k].iface)

\* Two requests describe the same address state: the same action, prefix
\* and address, the address compared without regard to case.
SameState(a, b) ==
  a.action = b.action /\ a.prefix = b.prefix /\ AddrKey[a.address] = AddrKey[b.address]

\* The entry of each interface, as the loops of the cache find it.
LastOf == [i \in {cache[k].iface : k \in 1..Len(cache)} |-> cache[FirstIdx(cache, i)]]

Abs == INSTANCE NetlinkReqCacheAbstract
         WITH last <- LastOf, answer <- answer, asked <- compared, Same <- SameState

\* The Vector with its search loops implements a per-interface map of the
\* last request kept: hasLastReqInfoChanged answers NEW, CHANGED or
\* NO_CHANGED exactly as a comparison with the last request stored for
\* the interface (and not removed since) would.
AbstractSpec == Abs!Spec

================================================================================
