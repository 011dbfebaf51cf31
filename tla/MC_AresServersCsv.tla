-------------------------- MODULE MC_AresServersCsv ---------------------------
(* Model-checking instance of AresServersCsv.  The address texts: an IPv4 *)
(* address, two IPv6 addresses whose last group is not a port-like digit  *)
(* string and a host name inet_pton rejects; then IPv6 addresses whose   *)
(* last group is digits: "::1" is cut to ":", which inet_pton rejects,   *)
(* and "2001:db8::1:2" to "2001:db8::1", another address.                *)
EXTENDS AresServersCsv

MCAddrs == {"10.0.0.1", "fe80::a", "::", "dns.example"}
MCAddrsV6Digits == MCAddrs \cup {"::1", ":", "2001:db8::1:2", "2001:db8::1"}
MCFamily ==
  ("10.0.0.1" :> "v4") @@ ("fe80::a" :> "v6") @@ ("::" :> "v6")
    @@ ("dns.example" :> "bad") @@ ("::1" :> "v6d") @@ (":" :> "bad")
    @@ ("2001:db8::1:2" :> "v6d") @@ ("2001:db8::1" :> "v6")
MCFamilyAll == [a \in MCAddrs |-> MCFamily[a]]
MCFamilyV6 == [a \in MCAddrsV6Digits |-> MCFamily[a]]
MCCut == ("::1" :> ":") @@ ("2001:db8::1:2" :> "2001:db8::1")
MCNoCut == [a \in {} |-> "::"]
================================================================================
