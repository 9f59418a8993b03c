----------------------------- MODULE StoreModes -----------------------------
(***************************************************************************)
(* The two stores that put addresses on the host port, of which            *)
(* StoreFactory (pkg/ipam/backend/neutron/factory.go) makes the one that the *)
(* network configuration names.  The mode of a node does not change while  *)
(* containers have addresses.                                              *)
(***************************************************************************)
EXTENDS MixStore

VARIABLE mode  \* ipamConfig.Mode: "mix" or "mix-route"

Route == INSTANCE MixRouteStore

modeVars == <<vars, mode>>

ModeInit == Init /\ mode \in {"mix", "mix-route"}

ModeStep(p) ==
    /\ \/ mode = "mix" /\ Step(p)
       \/ mode = "mix-route" /\ Route!Step(p)
    /\ UNCHANGED mode

ModeNext ==
    \E p \in Procs : ModeStep(p) \/ ((Start(p) \/ Crash(p)) /\ UNCHANGED mode)

(***************************************************************************)
(* Fairness.  A started process keeps running (the kernel schedules it,    *)
(* Neutron and the disk answer), a process that waits in flock gets the    *)
(* lock if it is free again and again, and the runtime repeats a DEL that  *)
(* is due.  Nothing forces the runtime to start an ADD.                    *)
(***************************************************************************)
RetryDel(c, n) == \E p \in Procs : att[<<c, n>>] = "torn" /\ CmdDel(p, c, n)

ModeSpec ==
    /\ ModeInit /\ [][ModeNext]_modeVars
    /\ \A p \in Procs : WF_modeVars(ModeStep(p)) /\ SF_modeVars(Lock(p) /\ UNCHANGED mode)
    /\ \A c \in Containers, n \in Networks : WF_modeVars(RetryDel(c, n) /\ UNCHANGED mode)

-----------------------------------------------------------------------------
\* A file of the container names an address that is no longer on the port.
Stranded(c) == \E a \in Recorded(c) : a \notin port

\* A DEL that the runtime keeps repeating succeeds in the end, wherever the
\* attempts before it failed or died.  In mix-route mode one thing stops it for
\* good: removePort takes an address that is off the port already for an error,
\* as after a DEL that got past ports.Update and not to os.Remove, or after a DEL
\* for another container that wrote its stale list back.
DelSettles ==
    \A c \in Containers, n \in Networks :
        att[<<c, n>>] = "torn"
            ~> att[<<c, n>>] = "none" \/ (mode = "mix-route" /\ Stranded(c))

=============================================================================
