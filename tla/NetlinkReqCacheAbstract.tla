------------------------ MODULE NetlinkReqCacheAbstract ------------------------
(***************************************************************************)
(* What the last-request cache of NetlinkEventHandler promises: per       *)
(* interface, the last address request stored, which a later request is   *)
(* compared with.  A store may forget the interface's request instead of  *)
(* replacing it (the allocation failed); a request without a valid        *)
(* interface id is never stored nor compared.                              *)
(***************************************************************************)
CONSTANTS
  Reqs,           \* the requests callers may present
  Invalid,        \* INVALID_INTERFACE_ID
  Same(_, _)      \* two requests describe the same address state

VARIABLES
  last,           \* interface id -> last request stored for it
  answer,         \* the answer of the last comparison
  asked           \* the request last compared

Answers == {"NEW", "CHANGED", "NO_CHANGED", "GENERIC_FAILURE", "NONE"}

Init == last = [i \in {} |-> Invalid] /\ answer = "NONE" /\ asked = "NONE"

\* The cache entry of interface i, gone.
Without(i) == [j \in DOMAIN last \ {i} |-> last[j]]

Store(r) ==
  /\ r.iface /= Invalid
  /\ \/ last' = [j \in DOMAIN last \cup {r.iface} |->
                   IF j = r.iface THEN r ELSE last[j]]
     \/ last' = Without(r.iface)
  /\ UNCHANGED <<answer, asked>>

Forget(i) == last' = Without(i) /\ UNCHANGED <<answer, asked>>

Compare(r) ==
  /\ answer' = CASE r.iface = Invalid -> "GENERIC_FAILURE"
                 [] r.iface \notin DOMAIN last -> "NEW"
                 [] Same(last[r.iface], r) -> "NO_CHANGED"
                 [] OTHER -> "CHANGED"
  /\ asked' = r
  /\ UNCHANGED last

Next ==
  \/ \E r \in Reqs : Store(r) \/ Compare(r) \/ Forget(r.iface)

Spec == Init /\ [][Next]_<<last, answer, asked>>

================================================================================
