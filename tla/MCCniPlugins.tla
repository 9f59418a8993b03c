---------------------------- MODULE MCCniPlugins ----------------------------
(***************************************************************************)
(* Instances of CniPlugins for TLC.                                        *)
(***************************************************************************)
EXTENDS CniPlugins, TLC

CONSTANTS c1, c2, eth0, eth1, eth2, tmp, t1, t2

Same   == [c \in Containers |-> {1, 2}]
Differ == (c1 :> {1, 2}) @@ (c2 :> {2})

MCChainConfs == {[ipMasq |-> TRUE, routes |-> Same], [ipMasq |-> TRUE, routes |-> Differ],
                 [ipMasq |-> FALSE, routes |-> Differ]}

=============================================================================
