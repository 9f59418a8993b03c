------------------------------ MODULE EniStore ------------------------------
(***************************************************************************)
(* The "eni" mode of tcnp-ipam, pkg/ipam/backend/neutron/eni_store.go: the *)
(* container's port is attached to the virtual machine as an interface.    *)
(* Plugin processes of the host exclude each other by the flock            *)
(* dataDir/lock; Nova is external.                                         *)
(***************************************************************************)
EXTENDS NamedPort

CONSTANT MAX_ENIS  \* backend.MAX_ENIS, less the interfaces the machine has anyway

ASSUME EniAssumption == MAX_ENIS \in Nat \ {0}

VARIABLES
    lock,      \* process that holds the flock, or None
    attached   \* ports Nova has attached to the machine

vars == <<portVars, lock, attached>>

TypeOK ==
    /\ PortTypeOK
    /\ lock \in Procs \cup {None}
    /\ attached \subseteq Ports

Init == PortInit /\ lock = None /\ attached = {}

-----------------------------------------------------------------------------
\* Reserve looks for the port first, so that it stands an ADD repeated after
\* one that failed, without a DEL between them.
CmdAddAgain(p, c) == att[c] = "failed" /\ StartCall(p, c, "addNew", "adding")

NewEniStore(p) ==
    /\ pc[p] \in {"addNew", "delNew"}
    /\ Goto(p, IF pc[p] = "addNew" THEN "addLock" ELSE "delLock")
    /\ UNCHANGED <<ports, cid, port, att, lease, faults, lock, attached>>

Lock(p) ==
    /\ pc[p] \in {"addLock", "delLock"}
    /\ lock = None
    /\ lock' = p
    /\ Goto(p, IF pc[p] = "addLock" THEN "addFind" ELSE "delFind")
    /\ UNCHANGED <<ports, cid, port, att, lease, faults, attached>>

\* The deferred Unlock.
Return(p) ==
    /\ ReturnAdd(p) \/ ReturnDel(p)
    /\ lock' = None
    /\ UNCHANGED attached

\* The kernel drops the flock of a process that dies, as the process itself
\* does when it returns an error.
Crash(p) ==
    /\ Dies(p)
    /\ lock' = IF lock = p THEN None ELSE lock
    /\ UNCHANGED attached

-----------------------------------------------------------------------------
\* Mutant of IsOverMax: off by one.
IsOverMaxLax == Cardinality(attached) > MAX_ENIS

IsOverMax == Cardinality(attached) >= MAX_ENIS

\* Mutant of ReserveFind: port == nil is not looked at.
ReserveFindUnchecked(p) ==
    /\ pc[p] = "addFind"
    /\ port' \in {[port EXCEPT ![p] = q] : q \in FindPort(cid[p]) \cup {None}}
    /\ Goto(p, "addAttach")
    /\ UNCHANGED <<ports, cid, att, lease, faults, lock, attached>>

\* Mutant of ReserveFind: Reserve does not look for the port.
ReserveFindSkipped(p) ==
    /\ pc[p] = "addFind"
    /\ Goto(p, "addCheck")
    /\ UNCHANGED <<ports, cid, port, att, lease, faults, lock, attached>>

ReserveFind(p) ==
    /\ pc[p] = "addFind"
    /\ \/ /\ FindPort(cid[p]) = {}
          /\ Goto(p, "addCheck")
          /\ UNCHANGED port
       \/ /\ \E q \in FindPort(cid[p]) : port' = [port EXCEPT ![p] = q]
          /\ Goto(p, "addAttach")
    /\ UNCHANGED <<ports, cid, att, lease, faults, lock, attached>>

ReserveCheck(p) ==
    /\ pc[p] = "addCheck"
    /\ Goto(p, IF IsOverMax THEN "addErr" ELSE "addCreate")
    /\ UNCHANGED <<ports, cid, port, att, lease, faults, lock, attached>>

ReserveCreate(p) ==
    /\ CreatePort(p, "addAttach") \/ CreatePortRefused(p) \/ CreatePortLost(p)
    /\ UNCHANGED <<lock, attached>>

\* attachinterfaces.Create; Nova refuses a port that is in use.
ReserveAttach(p) ==
    /\ pc[p] = "addAttach"
    /\ IF port[p] \in attached
       THEN Goto(p, "addErr") /\ UNCHANGED attached
       ELSE Goto(p, "addOK") /\ attached' = attached \cup {port[p]}
    /\ UNCHANGED <<ports, cid, port, att, lease, faults, lock>>

\* Mutant of ReserveAttachFails: the error is only logged.
ReserveAttachIgnored(p) ==
    /\ pc[p] = "addAttach"
    /\ Fault
    /\ Goto(p, "addOK")
    /\ UNCHANGED <<ports, cid, port, att, lease, lock, attached>>

\* subnets.Get or attachinterfaces.Create fails; Nova may have carried it out.
ReserveAttachFails(p) ==
    /\ pc[p] = "addAttach"
    /\ Fault
    /\ attached' \in {attached, attached \cup {port[p]}}
    /\ Goto(p, "addErr")
    /\ UNCHANGED <<ports, cid, port, att, lease, lock>>

Reserve(p) ==
    \/ ReserveFind(p)
    \/ ReserveCheck(p)
    \/ ReserveCreate(p)
    \/ ReserveAttach(p)
    \/ ReserveAttachFails(p)

-----------------------------------------------------------------------------
\* Mutant of ReleaseFind: a port that is not attached counts as released.
ReleaseFindAttached(p) ==
    /\ pc[p] = "delFind"
    /\ \/ /\ FindPort(cid[p]) \cap attached = {}
          /\ Goto(p, "delOK")
          /\ UNCHANGED port
       \/ /\ \E q \in FindPort(cid[p]) \cap attached : port' = [port EXCEPT ![p] = q]
          /\ Goto(p, "delDelete")
    /\ UNCHANGED <<ports, cid, att, lease, faults, lock, attached>>

\* Mutant of ReleaseFind: a port that is gone is an error.
ReleaseFindStrict(p) ==
    /\ pc[p] = "delFind"
    /\ \/ /\ FindPort(cid[p]) = {}
          /\ Goto(p, "delErr")
          /\ UNCHANGED port
       \/ /\ \E q \in FindPort(cid[p]) : port' = [port EXCEPT ![p] = q]
          /\ Goto(p, "delDelete")
    /\ UNCHANGED <<ports, cid, att, lease, faults, lock, attached>>

\* A port that is gone has been released.
ReleaseFind(p) ==
    /\ pc[p] = "delFind"
    /\ \/ /\ FindPort(cid[p]) = {}
          /\ Goto(p, "delOK")
          /\ UNCHANGED port
       \/ /\ \E q \in FindPort(cid[p]) : port' = [port EXCEPT ![p] = q]
          /\ Goto(p, "delDelete")
    /\ UNCHANGED <<ports, cid, att, lease, faults, lock, attached>>

\* Deleting a port also detaches it.
ReleaseDelete(p) ==
    /\ DeletePort(p) \/ DeletePortLost(p)
    /\ attached' = attached \ {port[p]}
    /\ UNCHANGED lock

ReleaseByID(p) == ReleaseFind(p) \/ ReleaseDelete(p)

-----------------------------------------------------------------------------
Start(p) ==
    /\ \E c \in Containers : CmdAdd(p, c) \/ CmdAddAgain(p, c) \/ CmdDel(p, c)
    /\ UNCHANGED <<lock, attached>>

Step(p) ==
    NewEniStore(p) \/ Lock(p) \/ Reserve(p) \/ ReleaseByID(p) \/ Return(p)

Next == \E p \in Procs : Start(p) \/ Step(p) \/ Crash(p)

Spec == Init /\ [][Next]_vars

-----------------------------------------------------------------------------
\* IsOverMax counts interfaces, and is skipped for a port that exists already:
\* each call that failed after ports.Create can put the machine one interface
\* over the limit when its ADD is repeated, and nothing else can.
EnisBounded == Cardinality(attached) <= MAX_ENIS + faults

=============================================================================
