--------------------------- MODULE MC_VtMsgParser ----------------------------
(* Model-checking instance of VtMsgParser: two caller threads, messages  *)
(* of two types with a getSlot branch, the ANBR report, the two PDN      *)
(* handover indications (kept across sessions) and a type startSession   *)
(* does not know, on slots 0 and 1.                                       *)
EXTENDS VtMsgParser, TLC

MCTypes == {"CAP_IND", "CAP_RSP", "ANBR_REQ", "PDN_HO_BEGIN_IND", "PDN_HO_END_IND", "OTHER"}
MCSymmetry == Permutations(Threads)
================================================================================
