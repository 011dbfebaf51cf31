------------------------- MODULE MC_NetlinkReqCache --------------------------
(* Model-checking instance of NetlinkReqCache: two ccmni interfaces (model *)
(* values, symmetric), one address in two letter cases, one prefix       *)
(* length, one queued request.                                           *)
EXTENDS NetlinkReqCache

MCSymmetry == Permutations(Ifaces)
MCAddrs == {"fe80::a", "FE80::A"}
MCAddrKey == ("fe80::a" :> "fe80::a") @@ ("FE80::A" :> "fe80::a")
               @@ ("" :> "")
MCPrefixLens == {64}
================================================================================
