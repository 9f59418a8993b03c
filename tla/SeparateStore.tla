---------------------------- MODULE SeparateStore ----------------------------
(***************************************************************************)
(* The "separate" mode of tcnp-ipam,                                       *)
(* pkg/ipam/backend/neutron/separate_store.go.  Its lock is a mutex inside *)
(* the process, which handles one call: plugin processes do not exclude    *)
(* each other, and Lock and Unlock are no steps here.                      *)
(***************************************************************************)
EXTENDS NamedPort

vars == portVars

NewSeparateStore(p) ==
    /\ pc[p] \in {"addNew", "delNew"}
    /\ Goto(p, IF pc[p] = "addNew" THEN "addCreate" ELSE "delFind")
    /\ UNCHANGED <<ports, cid, port, att, lease, faults>>

Reserve(p) == CreatePort(p, "addOK") \/ CreatePortRefused(p) \/ CreatePortLost(p)

\* FindPort returns nil for a port that is gone, and port.ID panics.
ReleaseFind(p) ==
    /\ pc[p] = "delFind"
    /\ \/ /\ FindPort(cid[p]) = {}
          /\ Goto(p, "delErr")
          /\ UNCHANGED port
       \/ /\ \E q \in FindPort(cid[p]) : port' = [port EXCEPT ![p] = q]
          /\ Goto(p, "delDelete")
    /\ UNCHANGED <<ports, cid, att, lease, faults>>

ReleaseByID(p) == ReleaseFind(p) \/ DeletePort(p) \/ DeletePortLost(p)

-----------------------------------------------------------------------------
Start(p) == \E c \in Containers : CmdAdd(p, c) \/ CmdDel(p, c)

Step(p) == NewSeparateStore(p) \/ Reserve(p) \/ ReleaseByID(p) \/ ReturnAdd(p) \/ ReturnDel(p)

Next == \E p \in Procs : Start(p) \/ Step(p) \/ Dies(p)

Spec == PortInit /\ [][Next]_vars

=============================================================================
