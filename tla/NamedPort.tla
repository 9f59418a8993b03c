------------------------------ MODULE NamedPort ------------------------------
(***************************************************************************)
(* The part of the tcnp-ipam plugin that the modes "separate" and "eni"    *)
(* share: a container has a Neutron port of its own, whose name is the     *)
(* container id, and the port is the only record of the allocation.        *)
(*                                                                         *)
(* Neutron and the container runtime are external: each is modelled by     *)
(* what the code of the stores relies on.                                  *)
(***************************************************************************)
EXTENDS Integers, FiniteSets

CONSTANTS
    Procs,      \* slots for concurrently running plugin processes
    Containers, \* sandbox ids
    Ports,      \* ids of the ports Neutron has to give, one address each
    MaxFaults,  \* bound on crashes and failing calls in one behaviour
    None        \* no container, no port

ASSUME NamedPortAssumption ==
    MaxFaults \in Nat /\ None \notin Procs \cup Containers \cup Ports

VARIABLES
    ports,   \* ports[q]: the name of port q, or None if there is no such port
    pc,      \* pc[p]: where process p is; "idle" if the slot is free
    cid,     \* cid[p]: args.ContainerID
    port,    \* port[p]: the local variable of Reserve and ReleaseByID
    att,     \* att[c]: what the runtime knows about c
    lease,   \* lease[c]: port whose address ADD returned, until DEL succeeds
    faults   \* faults so far

portVars == <<ports, pc, cid, port, att, lease, faults>>

Adding   == {"addNew", "addLock", "addFind", "addCheck", "addCreate", "addAttach", "addOK", "addErr"}
Deleting == {"delNew", "delLock", "delFind", "delDelete", "delOK", "delErr"}

PortTypeOK ==
    /\ ports \in [Ports -> Containers \cup {None}]
    /\ pc \in [Procs -> Adding \cup Deleting \cup {"idle"}]
    /\ cid \in [Procs -> Containers \cup {None}]
    /\ \A p \in Procs : pc[p] # "idle" => cid[p] \in Containers
    /\ port \in [Procs -> Ports \cup {None}]
    /\ att \in [Containers -> {"none", "adding", "up", "failed", "torn"}]
    /\ lease \in [Containers -> Ports \cup {None}]
    /\ faults \in 0..MaxFaults

PortInit ==
    /\ ports = [q \in Ports |-> None]
    /\ pc = [p \in Procs |-> "idle"]
    /\ cid = [p \in Procs |-> None]
    /\ port = [p \in Procs |-> None]
    /\ att = [c \in Containers |-> "none"]
    /\ lease = [c \in Containers |-> None]
    /\ faults = 0

Goto(p, l) == pc' = [pc EXCEPT ![p] = l]

\* A call of the environment fails.
Fault == faults < MaxFaults /\ faults' = faults + 1

-----------------------------------------------------------------------------
(***************************************************************************)
(* The container runtime: one call for a container at a time, a DEL after  *)
(* an ADD that failed or when the container goes, repeated until it        *)
(* succeeds; a DEL for something already deleted may come at any time.     *)
(***************************************************************************)
StartCall(p, c, l, state) ==
    /\ pc[p] = "idle"
    /\ \A q \in Procs : pc[q] = "idle" \/ cid[q] # c
    /\ Goto(p, l)
    /\ cid' = [cid EXCEPT ![p] = c]
    /\ att' = [att EXCEPT ![c] = state]
    /\ UNCHANGED <<ports, port, lease, faults>>

CmdAdd(p, c) == att[c] = "none" /\ StartCall(p, c, "addNew", "adding")

CmdDel(p, c) == StartCall(p, c, "delNew", IF att[c] = "none" THEN "none" ELSE "torn")

Exit(p) ==
    /\ Goto(p, "idle")
    /\ cid' = [cid EXCEPT ![p] = None]
    /\ port' = [port EXCEPT ![p] = None]

\* What the runtime makes of a call that did not succeed.
NotDone(p) == att' = [att EXCEPT ![cid[p]] = IF @ = "adding" THEN "failed" ELSE @]

\* ConnectStore or another call before the first one that changes anything
\* fails, or the process dies.
Dies(p) ==
    /\ pc[p] # "idle"
    /\ Fault
    /\ Exit(p)
    /\ NotDone(p)
    /\ UNCHANGED <<ports, lease>>

ReturnAdd(p) ==
    /\ pc[p] \in {"addOK", "addErr"}
    /\ Exit(p)
    /\ IF pc[p] = "addOK"
       THEN /\ att' = [att EXCEPT ![cid[p]] = "up"]
            /\ lease' = [lease EXCEPT ![cid[p]] = port[p]]
       ELSE NotDone(p) /\ UNCHANGED lease
    /\ UNCHANGED <<ports, faults>>

ReturnDel(p) ==
    /\ pc[p] \in {"delOK", "delErr"}
    /\ Exit(p)
    /\ IF pc[p] = "delOK"
       THEN /\ att' = [att EXCEPT ![cid[p]] = "none"]
            /\ lease' = [lease EXCEPT ![cid[p]] = None]
       ELSE UNCHANGED <<att, lease>>
    /\ UNCHANGED <<ports, faults>>

-----------------------------------------------------------------------------
(***************************************************************************)
(* Neutron                                                                 *)
(***************************************************************************)
\* Mutant of FindPort: the list request does not name the port.
FindPortAny(c) == {q \in Ports : (ports[q] = None) = (c = None)}

\* FindPort: the ports a list request for the name c can return first.
FindPort(c) == {q \in Ports : ports[q] = c}

\* ports.Create gives the new port the container id as its name.
CreatePort(p, next) ==
    /\ pc[p] = "addCreate"
    /\ \E q \in FindPort(None) :
          /\ ports' = [ports EXCEPT ![q] = cid[p]]
          /\ port' = [port EXCEPT ![p] = q]
    /\ Goto(p, next)
    /\ UNCHANGED <<cid, att, lease, faults>>

\* Neutron has no port or no address left; other hosts use them, too.
CreatePortRefused(p) ==
    /\ pc[p] = "addCreate"
    /\ Goto(p, "addErr")
    /\ UNCHANGED <<ports, cid, port, att, lease, faults>>

\* The port is created, and then ports.Create, the check that it has a fixed
\* IP, subnets.Get or ParseCIDR fails.
CreatePortLost(p) ==
    /\ pc[p] = "addCreate"
    /\ Fault
    /\ \E q \in FindPort(None) : ports' = [ports EXCEPT ![q] = cid[p]]
    /\ Goto(p, "addErr")
    /\ UNCHANGED <<cid, port, att, lease>>

DeletePort(p) ==
    /\ pc[p] = "delDelete"
    /\ ports' = [ports EXCEPT ![port[p]] = None]
    /\ Goto(p, "delOK")
    /\ UNCHANGED <<cid, port, att, lease, faults>>

\* ports.Delete returns an error although Neutron carried it out.
DeletePortLost(p) ==
    /\ pc[p] = "delDelete"
    /\ Fault
    /\ ports' = [ports EXCEPT ![port[p]] = None]
    /\ Goto(p, "delErr")
    /\ UNCHANGED <<cid, port, att, lease>>

-----------------------------------------------------------------------------
\* FindPort takes the first port of a name for the container's own: no ADD,
\* failed or repeated, leaves a container with two.
OnePortEach == \A c \in Containers : Cardinality(FindPort(c)) <= 1

\* No port outlives the DEL that the runtime was told has succeeded: whatever
\* call failed or died on the way, the port is found again by its name.
NoOrphanPorts == \A q \in Ports : ports[q] # None => att[ports[q]] # "none"

\* The port whose address ADD returned is there, under the container's name,
\* until the runtime asks for a DEL.
LeaseNamed == \A c \in Containers : att[c] = "up" => lease[c] \in FindPort(c)

=============================================================================
