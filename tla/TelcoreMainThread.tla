--------------------------- MODULE TelcoreMainThread ---------------------------
(***************************************************************************)
(* The telcore main thread, which runs every Rtc* controller: here the    *)
(* IMS feature switches of ImsConfigUtils, called by the IMS controllers, *)
(* and the mobile Wi-Fi controller of one slot.  The thread runs one      *)
(* handler at a time to its end, so each step below is one call of one   *)
(* component and leaves the other's state alone.  The two share the      *)
(* thread and nothing else.                                               *)
(***************************************************************************)
EXTENDS ImsFeatureConfig

CONSTANTS Slot, UrcIds, States, MaxReqs, MaxUrcs, MaxChanges, None

VARIABLES registered, modemOff, wfcState, issued, atMcl, rilj, urcs, changes

Mwi == INSTANCE MobileWifi

imsVars == <<mimsSupport, featureValue, lastSet, lastAny>>
mwiVars == <<registered, modemOff, wfcState, issued, atMcl, rilj, urcs, changes>>
threadVars == <<imsVars, mwiVars>>

ThreadInit == Init /\ Mwi!Init

ThreadNext ==
  \/ SetFeaturePropValue /\ UNCHANGED mwiVars
  \/ Mwi!Next /\ UNCHANGED imsVars

ThreadSpec == ThreadInit /\ [][ThreadNext]_threadVars /\ Mwi!Fairness

(***************************************************************************)
(* Properties of the mobile Wi-Fi controller (see MobileWifi)             *)
(***************************************************************************)
\* Every request handed to RtcMobileWifiController is answered to RILJ
\* exactly once: rejected while the modem is off, or relayed to MD-comm and
\* back by onHandleResponse.
RequestAnsweredOnce == Mwi!RequestAnsweredOnce

================================================================================
