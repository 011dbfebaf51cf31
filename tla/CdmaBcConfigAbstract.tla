------------------------- MODULE CdmaBcConfigAbstract -------------------------
(***************************************************************************)
(* What RFX_MSG_REQUEST_CDMA_SET_BROADCAST_SMS_CONFIG promises its caller, *)
(* stated without AT commands.  The modem keeps one set of enabled CDMA    *)
(* broadcast service categories and one set of enabled languages.  A       *)
(* request carries a set of categories, a set of languages, the           *)
(* "selected" flag and whether all of its config infos agree on that flag. *)
(*                                                                         *)
(*  - a selected request makes the modem enable exactly what it names;    *)
(*  - an unselected request disables what it names and keeps the rest;   *)
(*  - a request that fails may leave the modem anywhere between the old   *)
(*    and the requested configuration, but never enables anything that    *)
(*    was neither enabled before nor requested;                           *)
(*  - a request whose infos disagree on "selected" changes nothing;       *)
(*  - every request is answered.                                          *)
(***************************************************************************)
EXTENDS FiniteSets

CONSTANTS
  Categories,   \* service categories a request may name
  Languages,    \* languages a request may name
  Failures,     \* RIL_Errno values other than RIL_E_SUCCESS
  None          \* no pending request / no answer yet

VARIABLES
  cfg,          \* the modem's enabled categories and languages
  pending,      \* the request being served, or None
  answer        \* the RIL_Errno the last request was answered with, or None

vars == <<cfg, pending, answer>>

Configs == [cha : SUBSET Categories, lan : SUBSET Languages]

Requests ==
  [sel : BOOLEAN, cats : (SUBSET Categories) \ {{}},
   lans : (SUBSET Languages) \ {{}}, uniform : BOOLEAN]

\* The configuration a request asks for, given the one it starts from.
Target(r, c) ==
  IF r.sel THEN [cha |-> r.cats, lan |-> r.lans]
           ELSE [cha |-> c.cha \ r.cats, lan |-> c.lan \ r.lans]

\* Where a failed request may leave the modem.
Between(c, t) ==
  {d \in Configs : d.cha \subseteq c.cha \cup t.cha /\ d.lan \subseteq c.lan \cup t.lan}

Init ==
  /\ cfg \in Configs
  /\ pending = None
  /\ answer = None

Request ==
  /\ pending = None
  /\ pending' \in Requests
  /\ answer' = None
  /\ UNCHANGED cfg

Apply ==
  /\ pending /= None
  /\ pending.uniform
  /\ cfg' = Target(pending, cfg)
  /\ answer' = "SUCCESS"
  /\ pending' = None

Fail ==
  /\ pending /= None
  /\ pending.uniform
  /\ cfg' \in Between(cfg, Target(pending, cfg))
  /\ answer' \in Failures
  /\ pending' = None

\* The answer to a request whose infos disagree is left open here; the
\* finding run of MC_CdmaBcConfig is about it.
Ignore ==
  /\ pending /= None
  /\ ~pending.uniform
  /\ answer' \in Failures \cup {"SUCCESS"}
  /\ pending' = None
  /\ UNCHANGED cfg

Next == Request \/ Apply \/ Fail \/ Ignore

Spec == Init /\ [][Next]_vars /\ WF_vars(Apply \/ Fail \/ Ignore)

================================================================================
