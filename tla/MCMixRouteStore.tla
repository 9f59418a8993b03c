--------------------------- MODULE MCMixRouteStore ---------------------------
(***************************************************************************)
(* Instances of MixRouteStore for TLC: one network with two addresses      *)
(* beside the host's own.                                                  *)
(***************************************************************************)
EXTENDS MixRouteStore, TLC

CONSTANTS p1, p2, c1, c2, n1, h1, a1, a2

OneNet  == {n1}
IPs3    == {h1, a1, a2}
Subnet3 == n1 :> IPs3
HostOne == n1 :> h1

=============================================================================
