---------------------------- MODULE MCMixStore ----------------------------
(***************************************************************************)
(* Instances of MixStore for TLC.                                          *)
(***************************************************************************)
EXTENDS MixStore, TLC

CONSTANTS p1, p2, p3, c1, c2, c3, n1, n2, h1, h2, a1, a2, a3, b1

OneNet    == {n1}
TwoNets   == {n1, n2}
IPs4      == {h1, a1, a2, a3}
IPs3      == {h1, a1, a2}
IPsTwo    == {h1, a1, h2, b1}
Subnet4   == n1 :> IPs4
Subnet3   == n1 :> IPs3
SubnetTwo == n1 :> {h1, a1} @@ n2 :> {h2, b1}
HostOne   == n1 :> h1
HostTwo   == n1 :> h1 @@ n2 :> h2

Symmetry == Permutations({p1, p2, p3}) \cup Permutations({c1, c2, c3}) \cup Permutations({a1, a2, a3})

=============================================================================
