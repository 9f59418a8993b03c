------------------------- MODULE MCRouteController -------------------------
(***************************************************************************)
(* Instances of RouteController for TLC.                                   *)
(***************************************************************************)
EXTENDS RouteController

CONSTANTS w1, w2, p1, p2, a1, a2, x1

=============================================================================
