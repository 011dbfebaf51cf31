------------------------------ MODULE VtMsgParser ------------------------------
(***************************************************************************)
(* RmcVtMsgParser (mdcomm/vt/RmcVtMsgParser.cpp): the process-wide parser *)
(* of the VT messages of the IMS video-call service.  getInstance creates  *)
(* the singleton with double-checked locking on the global std::mutex     *)
(* mtxx; startSession locks the same mutex and points the member of the   *)
(* message's type at the input buffer; getSlot reads sim_slot_id through *)
(* the member of mType; stopSession clears members and unlocks.           *)
(*                                                                         *)
(* The callers (the VT request handler of each slot, outside src/) run on *)
(* their own channel threads; each is modelled as the loop getInstance,   *)
(* startSession, getSlot, stopSession over a message of its choice.       *)
(* A message is a type and the slot it carries; a member holds the        *)
(* message it points at, or NULL.                                          *)
(*                                                                         *)
(* s_RmcVtMsgParser is read without the lock.  The compiler and the CPU   *)
(* may make the pointer visible before the constructor's stores, so       *)
(* "new" is two steps: the pointer is published, then the object is      *)
(* constructed; both happen while the creator holds mtxx.                  *)
(***************************************************************************)
EXTENDS Integers, FiniteSets

CONSTANTS
  Threads,        \* caller threads
  Types,          \* message types the callers receive
  Slots,          \* sim_slot_id values
  NULL,
  CRASH           \* the outcome of a read through a NULL member

\* The message types startSession has a branch for, each with its member.
Known ==
  {"CAP_IND", "CAP_RSP", "MOD_BW_REQ", "INIT_IND", "UPDATE_IND", "DEINIT_IND",
   "MODIFY_REQ", "MODIFY_IND", "MODIFY_RSP", "MODIFY_CNF", "HO_START_IND",
   "HO_STOP_IND", "PDN_HO_BEGIN_IND", "PDN_HO_END_IND", "CANCEL_REQ",
   "CANCEL_IND", "CANCEL_CNF", "ANBR_REQ"}

ASSUME Types \subseteq Known \cup {"OTHER"}

Msgs == [type : Types, slot : Slots]

VARIABLES
  inst,           \* the object s_RmcVtMsgParser points at: "null",
                  \* "allocated" (published, not constructed), "constructed"
  created,        \* history: how many objects getInstance has created
  holder,         \* the thread holding mtxx, or NULL
  mType,          \* the type id; the constructor's 0 is the string "0" here
  member,         \* type -> the message its member points at, or NULL
  pc,             \* thread -> where it is in its loop
  msg,            \* thread -> the message it is parsing
  got             \* thread -> what its last getSlot returned

vars == <<inst, created, holder, mType, member, pc, msg, got>>

(***************************************************************************)
(* Plausible bugs, used as mutants of the definitions below them.         *)
(***************************************************************************)
GetInstanceNoRecheck(t) ==
  /\ pc[t] = "check" /\ holder = t
  /\ inst' = "allocated" /\ created' = created + 1 /\ pc' = [pc EXCEPT ![t] = "construct"]
  /\ UNCHANGED <<holder, mType, member, msg, got>>
StartSessionNoLock(t, m) ==
  /\ pc[t] = "ready"
  /\ pc' = [pc EXCEPT ![t] = "session"]
  /\ msg' = [msg EXCEPT ![t] = m]
  /\ mType' = m.type
  /\ member' = [k \in Known |-> IF k = m.type THEN m
                                ELSE IF k \in {"PDN_HO_BEGIN_IND", "PDN_HO_END_IND"} THEN member[k]
                                ELSE NULL]
  /\ UNCHANGED <<inst, created, holder, got>>
GetSlotOfNoAnbr(type, mem) ==
  IF type \notin Known \ {"PDN_HO_BEGIN_IND", "PDN_HO_END_IND", "ANBR_REQ"} THEN 0
  ELSE IF mem[type] = NULL THEN CRASH
  ELSE mem[type].slot
SlotMemberSwapped(type) ==
  CASE type = "CAP_IND" -> "CAP_RSP" [] type = "CAP_RSP" -> "CAP_IND" [] OTHER -> type

(***************************************************************************)
(* The parser                                                              *)
(***************************************************************************)
\* The members startSession and stopSession leave alone.
KeptByStart == {"PDN_HO_BEGIN_IND", "PDN_HO_END_IND"}
KeptByStop == {"ANBR_REQ", "PDN_HO_BEGIN_IND", "PDN_HO_END_IND"}

\* The types getSlot has a branch for; any other type reads slot 0.
SlotTypes == Known \ {"PDN_HO_BEGIN_IND", "PDN_HO_END_IND"}

\* The member getSlot reads for mType.
SlotMember(type) == type

\* getSlot: sim_slot_id through the member of mType; a NULL member is a
\* crash of rild.
GetSlotOf(type, mem) ==
  IF type \notin SlotTypes THEN 0
  ELSE IF mem[SlotMember(type)] = NULL THEN CRASH
  ELSE mem[SlotMember(type)].slot

Init ==
  /\ inst = "null"
  /\ created = 0
  /\ holder = NULL
  /\ mType = "0"
  /\ member = [k \in Known |-> NULL]
  /\ pc = [t \in Threads |-> "start"]
  /\ msg = [t \in Threads |-> NULL]
  /\ got = [t \in Threads |-> NULL]

\* getInstance, the unlocked test of s_RmcVtMsgParser.
GetInstance(t) ==
  /\ pc[t] = "start"
  /\ pc' = [pc EXCEPT ![t] = IF inst = "null" THEN "lock" ELSE "ready"]
  /\ UNCHANGED <<inst, created, holder, mType, member, msg, got>>

\* mtxx.lock() in getInstance.
GetInstanceLock(t) ==
  /\ pc[t] = "lock" /\ holder = NULL
  /\ holder' = t
  /\ pc' = [pc EXCEPT ![t] = "check"]
  /\ UNCHANGED <<inst, created, mType, member, msg, got>>

\* The test under the lock, and "new": the pointer is published first.
GetInstanceCheck(t) ==
  /\ pc[t] = "check" /\ holder = t
  /\ IF inst = "null"
     THEN /\ inst' = "allocated" /\ created' = created + 1
          /\ pc' = [pc EXCEPT ![t] = "construct"]
     ELSE /\ pc' = [pc EXCEPT ![t] = "unlock"]
          /\ UNCHANGED <<inst, created>>
  /\ UNCHANGED <<holder, mType, member, msg, got>>

\* The constructor RmcVtMsgParser(): every member NULL, mType 0.
Construct(t) ==
  /\ pc[t] = "construct"
  /\ inst' = "constructed"
  /\ mType' = "0"
  /\ member' = [k \in Known |-> NULL]
  /\ pc' = [pc EXCEPT ![t] = "unlock"]
  /\ UNCHANGED <<created, holder, msg, got>>

GetInstanceUnlock(t) ==
  /\ pc[t] = "unlock"
  /\ holder' = NULL
  /\ pc' = [pc EXCEPT ![t] = "ready"]
  /\ UNCHANGED <<inst, created, mType, member, msg, got>>

\* startSession(input, type): lock, clear, point the type's member at input.
StartSession(t, m) ==
  /\ pc[t] = "ready" /\ holder = NULL
  /\ holder' = t
  /\ pc' = [pc EXCEPT ![t] = "session"]
  /\ msg' = [msg EXCEPT ![t] = m]
  /\ mType' = m.type
  /\ member' = [k \in Known |-> IF k = m.type THEN m
                                ELSE IF k \in KeptByStart THEN member[k]
                                ELSE NULL]
  /\ UNCHANGED <<inst, created, got>>

GetSlot(t) ==
  /\ pc[t] = "session"
  /\ got' = [got EXCEPT ![t] = GetSlotOf(mType, member)]
  /\ pc' = [pc EXCEPT ![t] = "parsed"]
  /\ UNCHANGED <<inst, created, holder, mType, member, msg>>

\* stopSession: clear, unlock.  The caller then frees its input buffer.
StopSession(t) ==
  /\ pc[t] = "parsed"
  /\ member' = [k \in Known |-> IF k \in KeptByStop THEN member[k] ELSE NULL]
  /\ holder' = NULL
  /\ pc' = [pc EXCEPT ![t] = "ready"]
  /\ UNCHANGED <<inst, created, mType, msg, got>>

Next ==
  \E t \in Threads :
    \/ GetInstance(t) \/ GetInstanceLock(t) \/ GetInstanceCheck(t)
    \/ Construct(t) \/ GetInstanceUnlock(t)
    \/ \E m \in Msgs : StartSession(t, m)
    \/ GetSlot(t) \/ StopSession(t)

Spec == Init /\ [][Next]_vars

(***************************************************************************)
(* Properties                                                              *)
(***************************************************************************)
InSession == {t \in Threads : pc[t] \in {"session", "parsed"}}

\* Types; getSlot returns a slot id.
TypeOK ==
  /\ inst \in {"null", "allocated", "constructed"}
  /\ holder \in Threads \cup {NULL}
  /\ member \in [Known -> Msgs \cup {NULL}]
  /\ msg \in [Threads -> Msgs \cup {NULL}]
  /\ got \in [Threads -> Slots \cup {0, NULL}]

\* At most one thread is between startSession and stopSession: the
\* members and mType one thread set are never overwritten by another's
\* startSession before it has read them.
SessionsExclusive == Cardinality(InSession) <= 1

\* The double-checked locking of getInstance creates one parser only.
SingleInstance == created <= 1

\* A session never runs on an object whose constructor has not run, though
\* another thread may see s_RmcVtMsgParser before the constructor's
\* stores: startSession's lock waits for the creator's unlock.
SessionSeesConstructed == \A t \in InSession : inst = "constructed"

\* getSlot, in a session on a message of a type it has a branch for,
\* returns the sim_slot_id of that very message: never that of a message
\* an earlier session left in a member, nor another thread's, nor a
\* crash on a NULL member.  The PDN handover indications have no branch
\* (getSlot returns 0 for them whatever their slot, line 274); they are
\* in the run, so their sessions interleave with the others, but this
\* property does not speak of them.
GetSlotIsMessageSlot ==
  \A t \in Threads :
    (pc[t] = "parsed" /\ msg[t].type \in SlotTypes) => got[t] = msg[t].slot

================================================================================
