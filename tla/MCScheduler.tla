---------------------------- MODULE MCScheduler -----------------------------
(***************************************************************************)
(* Instances of Scheduler for TLC.                                         *)
(***************************************************************************)
EXTENDS Scheduler, TLC

CONSTANTS n1, n2, w1, w2

\* The VM of n1 comes first in the list.
Homes == (n1 :> 1) @@ (n2 :> 2)

=============================================================================
