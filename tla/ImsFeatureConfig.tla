--------------------------- MODULE ImsFeatureConfig ---------------------------
(***************************************************************************)
(* The per-slot IMS feature switches of ImsConfigUtils                     *)
(* (telcore/ims/config/ImsConfigUtils.cpp).  Each feature (VoLTE, WFC,     *)
(* ViLTE, ...) is one persist property holding an int whose bit s is the   *)
(* switch of slot s.  With multi-IMS (persist.vendor.mims_support other    *)
(* than 1) every slot has its own bit; without it, every slot reads and    *)
(* writes bit 0.  setFeaturePropValue reads the property, sets or clears   *)
(* one bit and writes the whole value back; getFeaturePropValue reads one  *)
(* bit.  Features are model values: propName picks the property.  All     *)
(* telcore controllers run on the telcore main thread, so calls do not    *)
(* interleave.                                                            *)
(***************************************************************************)
EXTENDS Integers, Bitwise

CONSTANTS
  Features,       \* the feature properties (propName)
  Slots,          \* phone ids the controllers call with, within 0..3
  SlotInputs,     \* slot ids passed in: Slots and invalid ids
  EnabledInputs,  \* values "enabled" parses to
  MimsSupports    \* values persist.vendor.mims_support may hold

ASSUME Slots \subseteq 0..3 /\ Slots \subseteq SlotInputs /\ (SlotInputs \ Slots) \cap 0..3 = {}

VARIABLES
  mimsSupport,    \* persist.vendor.mims_support: set at build, never written
  featureValue,   \* feature -> its property, as the int it parses to
  lastSet,        \* history: feature, slot -> value (1 or not) of the
                  \* slot's last set of the feature
  lastAny         \* history: feature -> value of its last set by any slot

vars == <<mimsSupport, featureValue, lastSet, lastAny>>

Bit(x, s) == IF (x & (2 ^ s)) > 0 THEN 1 ELSE 0

(***************************************************************************)
(* Plausible bugs, used as mutants of the definitions below them.         *)
(***************************************************************************)
SetBitOverwrite(v, enabled, s) == IF enabled = 1 THEN 2 ^ s ELSE 0
BitOfShifted(s) == IF mimsSupport /= 1 THEN s + 1 ELSE 0

(***************************************************************************)
(* ImsConfigUtils                                                          *)
(***************************************************************************)
\* isMultiImsSupport: anything but 1 means multi-IMS.
IsMultiImsSupport == mimsSupport /= 1

\* checkIsPhoneIdValid
CheckIsPhoneIdValid(s) == s >= 0 /\ s <= 3

\* setBitForPhone: only enabled == 1 sets the bit; x & ~(1 << s) on the
\* 32-bit int clears bit s and keeps all the others.
SetBitForPhone(v, enabled, s) ==
  IF enabled = 1 THEN v | (2 ^ s) ELSE v - (v & (2 ^ s))

\* The bit a slot uses.
BitOf(s) == IF IsMultiImsSupport THEN s ELSE 0

\* getFeaturePropValue: an invalid slot reads the default 0.
GetFeaturePropValue(f, s) ==
  IF ~CheckIsPhoneIdValid(s) THEN 0 ELSE Bit(featureValue[f], BitOf(s))

Init ==
  /\ mimsSupport \in MimsSupports
  /\ featureValue \in [Features -> 0..(2 ^ 4 - 1)]
  /\ lastSet = [f \in Features, s \in Slots |-> Bit(featureValue[f], BitOf(s))]
  /\ lastAny = [f \in Features |-> Bit(featureValue[f], 0)]

\* setFeaturePropValue(propName, enabled, slot_id)
SetFeaturePropValue ==
  \E f \in Features, s \in SlotInputs, enabled \in EnabledInputs :
    IF ~CheckIsPhoneIdValid(s)
    THEN UNCHANGED vars
    ELSE LET v == IF enabled = 1 THEN 1 ELSE 0
         IN /\ featureValue' = [featureValue EXCEPT
                                  ![f] = SetBitForPhone(@, enabled, BitOf(s))]
            /\ lastSet' = [lastSet EXCEPT ![f, s] = v]
            /\ lastAny' = [lastAny EXCEPT ![f] = v]
            /\ UNCHANGED mimsSupport

Next == SetFeaturePropValue

Spec == Init /\ [][Next]_vars

(***************************************************************************)
(* Properties                                                              *)
(***************************************************************************)
TypeOK ==
  /\ featureValue \in [Features -> 0..(2 ^ 4 - 1)]
  /\ lastSet \in [Features \X Slots -> {0, 1}]

\* What a slot reads is what was last written for it: with multi-IMS the
\* last set of that slot, whatever the other slots set since (the
\* read-modify-write of setFeaturePropValue keeps their bits); without,
\* the last set of any slot.  An invalid slot id changes nothing.
ReadsLastWrite ==
  \A f \in Features, s \in Slots :
    GetFeaturePropValue(f, s) =
      IF IsMultiImsSupport THEN lastSet[f, s] ELSE lastAny[f]

================================================================================
