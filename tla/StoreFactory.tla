---------------------------- MODULE StoreFactory ----------------------------
(***************************************************************************)
(* StoreFactory of pkg/ipam/backend/neutron/factory.go for the two modes   *)
(* in which a container has a port of its own: the mode is part of the     *)
(* network configuration, the same in every call.  ("mix" and "mix-route"  *)
(* share no state with these and have modules of their own.)               *)
(***************************************************************************)
EXTENDS EniStore

VARIABLE mode   \* ipamConfig.NeutronConf.Mode

Separate == INSTANCE SeparateStore

storeVars == <<vars, mode>>

StoreInit == Init /\ mode \in {"eni", "separate"}

\* The calls, the steps of a call and its death, in the mode's store.
StoreStart(p) ==
    \/ mode = "eni" /\ Start(p) /\ UNCHANGED mode
    \/ mode = "separate" /\ Separate!Start(p) /\ UNCHANGED <<lock, attached, mode>>

StoreStep(p) ==
    \/ mode = "eni" /\ Step(p) /\ UNCHANGED mode
    \/ mode = "separate" /\ Separate!Step(p) /\ UNCHANGED <<lock, attached, mode>>

StoreCrash(p) ==
    \/ mode = "eni" /\ Crash(p) /\ UNCHANGED mode
    \/ mode = "separate" /\ Dies(p) /\ UNCHANGED <<lock, attached, mode>>

StoreNext == \E p \in Procs : StoreStart(p) \/ StoreStep(p) \/ StoreCrash(p)

StoreSpec == StoreInit /\ [][StoreNext]_storeVars

\* Processes run, a process waiting in flock gets the lock if it is free again
\* and again, and the runtime repeats a DEL that is due.
StoreFairSpec ==
    /\ StoreSpec
    /\ \A p \in Procs :
          /\ WF_storeVars(StoreStep(p))
          /\ SF_storeVars(mode = "eni" /\ Lock(p) /\ UNCHANGED mode)
    /\ \A c \in Containers :
          WF_storeVars(\E p \in Procs : /\ att[c] = "torn" /\ CmdDel(p, c)
                                        /\ UNCHANGED <<lock, attached, mode>>)

-----------------------------------------------------------------------------
\* The interface of a container that runs in the eni mode is attached to the
\* machine until its DEL.
LeaseAttached ==
    mode = "eni" => \A c \in Containers : att[c] = "up" => lease[c] \in attached

\* In the eni mode a DEL that the runtime keeps repeating succeeds in the end:
\* ReleaseByID takes a port that is gone for released.
EniDelSucceeds ==
    \A c \in Containers : mode = "eni" /\ att[c] = "torn" ~> att[c] = "none"

\* "N.B. This function eats errors to be tolerant and release as much as
\* possible" (separate_store.go, ReleaseByID): so a DEL that the runtime keeps
\* repeating succeeds in the end in the separate mode, too.
SeparateDelSucceeds ==
    \A c \in Containers : mode = "separate" /\ att[c] = "torn" ~> att[c] = "none"

=============================================================================
