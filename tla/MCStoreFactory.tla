--------------------------- MODULE MCStoreFactory ---------------------------
(***************************************************************************)
(* Instances of StoreFactory for TLC.                                      *)
(***************************************************************************)
EXTENDS StoreFactory

CONSTANTS p1, p2, c1, c2, q1, q2

=============================================================================
