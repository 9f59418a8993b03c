------------------------------ MODULE HostPort ------------------------------
(***************************************************************************)
(* The part of the tcnp-ipam plugin that the modes "mix" and "mix-route"   *)
(* share.  Every CNI call is one operating system process (Procs): it      *)
(* builds a store, takes the flock dataDir/lock, runs Reserve or           *)
(* ReleaseByID and exits.  Containers get secondary addresses of the       *)
(* Neutron port behind a host interface; a file dataDir/<ip> that holds    *)
(* the container id records who owns an address.                           *)
(*                                                                         *)
(* Neutron, the file system and the container runtime are external: each   *)
(* is modelled by what the code of the stores relies on.                   *)
(***************************************************************************)
EXTENDS Integers, FiniteSets

CONSTANTS
    Procs,       \* slots for concurrently running plugin processes
    Containers,  \* sandbox ids
    Networks,    \* CNI networks, one host interface and Neutron port each
    IPs,         \* addresses
    Subnet,      \* Subnet[n]: the addresses Neutron may put on the port of n
    HostIP,      \* HostIP[n]: the primary address of the port of n
    MAX_IPS,     \* backend.MAX_IPS
    MaxFaults,   \* bound on crashes and failing calls in one behaviour
    None,        \* no process, container, network, address or file
    Blank        \* content of a file that was created and not yet written

ASSUME ConstantAssumption ==
    /\ MAX_IPS \in Nat \ {0}
    /\ MaxFaults \in Nat
    /\ Subnet \in [Networks -> SUBSET IPs]
    /\ HostIP \in [Networks -> IPs]
    /\ \A n \in Networks : HostIP[n] \in Subnet[n]
    /\ \A m, n \in Networks : m # n => Subnet[m] \cap Subnet[n] = {}
    /\ None \notin Procs \cup IPs \cup Containers \cup Networks
    /\ Blank \notin Containers \cup {None}

VARIABLES
    lock,    \* process that holds the flock on dataDir/lock, or None
    port,    \* the fixed IPs of the Neutron ports of all Networks
    files,   \* files[a]: content of dataDir/a, or None if there is no such file
    pc,      \* pc[p]: where process p is; "idle" if the slot is free
    cid,     \* cid[p]: args.ContainerID
    net,     \* net[p]: the network the call is for
    seen,    \* seen[p]: the FixedIPs slice p works from
    ip,      \* ip[p]: newIP of Reserve, containerIP of ReleaseByID
    att,     \* att[c, n]: what the runtime knows about c on n
    lease,   \* lease[c, n]: address ADD returned, until DEL succeeds
    faults   \* faults so far

args == <<cid, net>>
vars == <<lock, port, files, pc, cid, net, seen, ip, att, lease, faults>>

(***************************************************************************)
(* Control points.  Between Locked and Unlock the process is inside        *)
(* IPAllocator.Get or IPAllocator.Release, after store.Lock().             *)
(***************************************************************************)
AddLocked == {"addGet", "addUpdate", "addOpen", "addWrite", "addOK", "addErr"}
DelLocked == {"delWalk", "delGet", "delUpdate", "delRemove", "delOK", "delErr"}
Locked    == AddLocked \cup DelLocked
Adding    == AddLocked \cup {"addNew", "addLock"}
Deleting  == DelLocked \cup {"delNew", "delLock"}
Labels    == Adding \cup Deleting \cup {"idle"}

TypeOK ==
    /\ lock \in Procs \cup {None}
    /\ port \in SUBSET IPs
    /\ files \in [IPs -> Containers \cup {None, Blank}]
    /\ pc \in [Procs -> Labels]
    /\ cid \in [Procs -> Containers \cup {None}]
    /\ net \in [Procs -> Networks \cup {None}]
    /\ \A p \in Procs : pc[p] # "idle" => cid[p] \in Containers /\ net[p] \in Networks
    /\ seen \in [Procs -> SUBSET IPs]
    /\ ip \in [Procs -> IPs \cup {None}]
    /\ att \in [Containers \X Networks -> {"none", "adding", "up", "torn"}]
    /\ lease \in [Containers \X Networks -> IPs \cup {None}]
    /\ faults \in 0..MaxFaults

Init ==
    /\ lock = None
    /\ port = {HostIP[n] : n \in Networks}
    /\ files = [a \in IPs |-> None]
    /\ pc = [p \in Procs |-> "idle"]
    /\ cid = [p \in Procs |-> None]
    /\ net = [p \in Procs |-> None]
    /\ seen = [p \in Procs |-> {}]
    /\ ip = [p \in Procs |-> None]
    /\ att = [cn \in Containers \X Networks |-> "none"]
    /\ lease = [cn \in Containers \X Networks |-> None]
    /\ faults = 0

Goto(p, l) == pc' = [pc EXCEPT ![p] = l]

\* A call of the environment (Neutron, the file system) fails.
Fault == faults < MaxFaults /\ faults' = faults + 1

-----------------------------------------------------------------------------
(***************************************************************************)
(* Neutron.                                                                *)
(***************************************************************************)
FixedIPs(n) == port \cap Subnet[n]

\* ports.Update: the list replaces the fixed IPs of the port of network n.
PutFixedIPs(n, list) == port' = (port \ Subnet[n]) \cup list

\* Addresses Neutron may choose from for a list entry that names a subnet only.
Free(n) == Subnet[n] \ port

-----------------------------------------------------------------------------
(***************************************************************************)
(* The container runtime starts plugin processes.  It never runs two calls *)
(* for one container at a time, adds a container to a network once,        *)
(* deletes after a failed ADD, and repeats a DEL until it succeeds; a DEL  *)
(* for something already deleted may come at any time.  A container is     *)
(* taken off all of its networks once the first DEL for it is made.        *)
(***************************************************************************)
NotBusy(c) == \A p \in Procs : pc[p] = "idle" \/ cid[p] # c

StartCall(p, c, n, l) ==
    /\ pc[p] = "idle"
    /\ NotBusy(c)
    /\ Goto(p, l)
    /\ cid' = [cid EXCEPT ![p] = c]
    /\ net' = [net EXCEPT ![p] = n]
    /\ UNCHANGED <<lock, port, files, seen, ip, lease, faults>>

CmdAdd(p, c, n) ==
    /\ att[<<c, n>>] = "none"
    /\ \A m \in Networks : att[<<c, m>>] # "torn"
    /\ att' = [att EXCEPT ![<<c, n>>] = "adding"]
    /\ StartCall(p, c, n, "addNew")

CmdDel(p, c, n) ==
    /\ att[<<c, n>>] # "none" \/ \A m \in Networks : att[<<c, m>>] = "none"
    /\ att' = [cn \in Containers \X Networks |->
                  IF cn[1] = c /\ att[cn] = "up" THEN "torn" ELSE att[cn]]
    /\ StartCall(p, c, n, "delNew")

\* The process exits and leaves its slot.
Exit(p) ==
    /\ Goto(p, "idle")
    /\ cid' = [cid EXCEPT ![p] = None]
    /\ net' = [net EXCEPT ![p] = None]
    /\ seen' = [seen EXCEPT ![p] = {}]
    /\ ip' = [ip EXCEPT ![p] = None]

\* What the runtime makes of a call that did not succeed: DEL is still due.
StillDue(p) ==
    att' = [att EXCEPT ![<<cid[p], net[p]>>] = IF @ = "none" THEN @ ELSE "torn"]

\* StoreFactory or anything before it fails: the plugin returns an error
\* without having taken the lock.
NewStoreFails(p) ==
    /\ pc[p] \in {"addNew", "delNew"}
    /\ Fault
    /\ Exit(p)
    /\ StillDue(p)
    /\ UNCHANGED <<lock, port, files, lease>>

\* Mutant of Lock: the error of flock with LOCK_NB is not looked at.
LockIgnored(p) ==
    /\ pc[p] \in {"addLock", "delLock"}
    /\ lock' = p
    /\ Goto(p, IF pc[p] = "addLock" THEN "addGet" ELSE "delWalk")
    /\ UNCHANGED <<port, files, args, seen, ip, att, lease, faults>>

\* IPAllocator.Get and Release: a.store.Lock().
Lock(p) ==
    /\ pc[p] \in {"addLock", "delLock"}
    /\ lock = None
    /\ lock' = p
    /\ Goto(p, IF pc[p] = "addLock" THEN "addGet" ELSE "delWalk")
    /\ UNCHANGED <<port, files, args, seen, ip, att, lease, faults>>

\* The deferred a.store.Unlock(), and the result of the call.
ReturnAdd(p) ==
    /\ pc[p] \in {"addOK", "addErr"}
    /\ lock' = None
    /\ Exit(p)
    /\ IF pc[p] = "addOK"
       THEN /\ att' = [att EXCEPT ![<<cid[p], net[p]>>] = "up"]
            /\ lease' = [lease EXCEPT ![<<cid[p], net[p]>>] = ip[p]]
       ELSE StillDue(p) /\ UNCHANGED lease
    /\ UNCHANGED <<port, files, faults>>

ReturnDel(p) ==
    /\ pc[p] \in {"delOK", "delErr"}
    /\ lock' = None
    /\ Exit(p)
    /\ IF pc[p] = "delOK"
       THEN /\ att' = [att EXCEPT ![<<cid[p], net[p]>>] = "none"]
            /\ lease' = [lease EXCEPT ![<<cid[p], net[p]>>] = None]
       ELSE StillDue(p) /\ UNCHANGED lease
    /\ UNCHANGED <<port, files, faults>>

\* Mutant of Crash: the lock is a file that its owner has to remove.
CrashKeepsLock(p) ==
    /\ pc[p] # "idle"
    /\ Fault
    /\ Exit(p)
    /\ StillDue(p)
    /\ UNCHANGED <<lock, port, files, lease>>

\* The process dies; the kernel drops its flock.
Crash(p) ==
    /\ pc[p] # "idle"
    /\ Fault
    /\ lock' = IF lock = p THEN None ELSE lock
    /\ Exit(p)
    /\ StillDue(p)
    /\ UNCHANGED <<port, files, lease>>

-----------------------------------------------------------------------------
(***************************************************************************)
(* Helpers that both stores call.                                          *)
(***************************************************************************)
\* Mutant of IsOverMax: off by one.
IsOverMaxLax(fixedIPs) == Cardinality(fixedIPs) > MAX_IPS

IsOverMax(fixedIPs) == Cardinality(fixedIPs) >= MAX_IPS

\* The address of newS that is not in oldS; none unless the list has grown.
difference(oldS, newS) ==
    IF Cardinality(newS) <= Cardinality(oldS) THEN {} ELSE newS \ oldS

\* Mutant of Recorded: the content of the file is not compared with the id.
RecordedAny(c) == {a \in IPs : files[a] \notin {None, Blank}}

\* The files filepath.Walk can find for a container id.
Recorded(c) == {a \in IPs : files[a] = c}

-----------------------------------------------------------------------------
(***************************************************************************)
(* Reserve.  The two stores run the same statements, in mix_store.go in    *)
(* one function and in mix_route_store.go in three.                        *)
(***************************************************************************)
\* ports.Get, then the check that the port has room for one more address.
CheckRoom(p) ==
    /\ pc[p] = "addGet"
    /\ IF IsOverMax(FixedIPs(net[p]))
       THEN Goto(p, "addErr") /\ UNCHANGED seen
       ELSE Goto(p, "addUpdate") /\ seen' = [seen EXCEPT ![p] = FixedIPs(net[p])]
    /\ UNCHANGED <<lock, port, files, args, ip, att, lease, faults>>

\* ports.Update with one more entry; Neutron picks the address a.
AddFixedIP(p) ==
    /\ pc[p] = "addUpdate"
    /\ \E a \in Free(net[p]) :
          LET newFixedIPs == seen[p] \cup {a} IN
          /\ PutFixedIPs(net[p], newFixedIPs)
          /\ \E newIP \in difference(seen[p], newFixedIPs) :
                ip' = [ip EXCEPT ![p] = newIP]
    /\ Goto(p, "addOpen")
    /\ UNCHANGED <<lock, files, args, seen, att, lease, faults>>

\* Neutron has no address left in the subnet and refuses the update.  Ports of
\* other machines share the subnet, so this may happen at any time.
AddFixedIPExhausted(p) ==
    /\ pc[p] = "addUpdate"
    /\ Goto(p, "addErr")
    /\ UNCHANGED <<lock, port, files, args, seen, ip, att, lease, faults>>

\* ports.Update returns an error although Neutron carried it out.
AddFixedIPLost(p) ==
    /\ pc[p] = "addUpdate"
    /\ Fault
    /\ \E a \in Free(net[p]) : PutFixedIPs(net[p], seen[p] \cup {a})
    /\ Goto(p, "addErr")
    /\ UNCHANGED <<lock, files, args, seen, ip, att, lease>>

\* Mutant of CreateFile: no O_EXCL.
CreateFileOverwrites(p) ==
    /\ pc[p] = "addOpen"
    /\ files' = [files EXCEPT ![ip[p]] = Blank]
    /\ Goto(p, "addWrite")
    /\ UNCHANGED <<lock, port, args, seen, ip, att, lease, faults>>

\* os.OpenFile with O_EXCL: an existing file is an error, and the address
\* that Neutron has just put on the port stays there.
CreateFile(p) ==
    /\ pc[p] = "addOpen"
    /\ IF files[ip[p]] # None
       THEN Goto(p, "addErr") /\ UNCHANGED files
       ELSE Goto(p, "addWrite") /\ files' = [files EXCEPT ![ip[p]] = Blank]
    /\ UNCHANGED <<lock, port, args, seen, ip, att, lease, faults>>

\* Mutant of WriteFile: the id and the address are swapped.
WriteFileSwapped(p) ==
    /\ pc[p] = "addWrite"
    /\ files' = [files EXCEPT ![ip[p]] = ip[p]]
    /\ Goto(p, "addOK")
    /\ UNCHANGED <<lock, port, args, seen, ip, att, lease, faults>>

WriteFile(p) ==
    /\ pc[p] = "addWrite"
    /\ files' = [files EXCEPT ![ip[p]] = cid[p]]
    /\ Goto(p, "addOK")
    /\ UNCHANGED <<lock, port, args, seen, ip, att, lease, faults>>

\* WriteString or Close fails: the file is removed, the address is not.
WriteFileFails(p) ==
    /\ pc[p] = "addWrite"
    /\ Fault
    /\ files' = [files EXCEPT ![ip[p]] = None]
    /\ Goto(p, "addErr")
    /\ UNCHANGED <<lock, port, args, seen, ip, att, lease>>

\* ports.Get, ports.Update or os.OpenFile fails without any effect.
ReserveFails(p) ==
    /\ pc[p] \in {"addGet", "addUpdate", "addOpen"}
    /\ Fault
    /\ Goto(p, "addErr")
    /\ UNCHANGED <<lock, port, files, args, seen, ip, att, lease>>

-----------------------------------------------------------------------------
(***************************************************************************)
(* ReleaseByID: the search for the address and the removal of its file.    *)
(***************************************************************************)
\* filepath.Walk stops at the first file that holds the id; a container
\* without one has nothing to release.
WalkFiles(p, next) ==
    /\ pc[p] = "delWalk"
    /\ \/ /\ Recorded(cid[p]) = {}
          /\ Goto(p, "delOK")
          /\ UNCHANGED ip
       \/ \E a \in Recorded(cid[p]) :
             /\ ip' = [ip EXCEPT ![p] = a]
             /\ Goto(p, next)
    /\ UNCHANGED <<lock, port, files, args, seen, att, lease, faults>>

\* ioutil.ReadFile fails on the container's file: the walk skips the file, and
\* the call reports success with nothing released.
WalkFilesSkips(p) ==
    /\ pc[p] = "delWalk"
    /\ Recorded(cid[p]) # {}
    /\ Fault
    /\ Goto(p, "delOK")
    /\ UNCHANGED <<lock, port, files, args, seen, ip, att, lease>>

\* Mutant of RemoveFile: no os.Remove.
RemoveFileForgotten(p) ==
    /\ pc[p] = "delRemove"
    /\ Goto(p, "delOK")
    /\ UNCHANGED <<lock, port, files, args, seen, ip, att, lease, faults>>

RemoveFile(p) ==
    /\ pc[p] = "delRemove"
    /\ files' = [files EXCEPT ![ip[p]] = None]
    /\ Goto(p, "delOK")
    /\ UNCHANGED <<lock, port, args, seen, ip, att, lease, faults>>

\* Mutant of ReleaseFails: the error is not returned.
ReleaseFailsEaten(p) ==
    /\ pc[p] \in {"delGet", "delUpdate", "delRemove"}
    /\ Fault
    /\ Goto(p, "delOK")
    /\ UNCHANGED <<lock, port, files, args, seen, ip, att, lease>>

\* ports.Get, ports.Update or os.Remove fails without any effect.
ReleaseFails(p) ==
    /\ pc[p] \in {"delGet", "delUpdate", "delRemove"}
    /\ Fault
    /\ Goto(p, "delErr")
    /\ UNCHANGED <<lock, port, files, args, seen, ip, att, lease>>

-----------------------------------------------------------------------------
(***************************************************************************)
(* Properties                                                              *)
(***************************************************************************)
\* The address ADD returned stays on the host port until the runtime asks for
\* a DEL: no Reserve or ReleaseByID for another container, and no crash in one,
\* takes it away (ports.Update replaces the whole list).
LeaseOnPort ==
    \A c \in Containers, n \in Networks : att[<<c, n>>] = "up" => lease[<<c, n>>] \in FixedIPs(n)

\* The file of the address ADD returned names the container until the runtime
\* asks for a DEL, so no two running containers were given one address.
LeaseRecorded ==
    \A c \in Containers, n \in Networks :
        att[<<c, n>>] = "up" => lease[<<c, n>>] \in IPs /\ files[lease[<<c, n>>]] = c

\* IsOverMax and the update that follows it are atomic under the lock: a port
\* never has more than MAX_IPS fixed IPs, and never loses the host's own.
PortBounded ==
    \A n \in Networks : HostIP[n] \in port /\ Cardinality(FixedIPs(n)) <= MAX_IPS

\* Files whose address is not on the port, whose container's DEL is neither
\* under way nor still due.
Orphans ==
    {a \in IPs : /\ files[a] \in Containers /\ a \notin port
                 /\ \A n \in Networks : att[<<files[a], n>>] # "torn"
                 /\ \A p \in Procs : pc[p] \in Deleting => cid[p] # files[a]}

\* A file outlives its address, and then blocks the address for every later
\* container (O_EXCL), only after two faults: a DEL cut short between
\* ports.Update and os.Remove, and one whose walk could not read the file.
RecordBacked == 2 * Cardinality(Orphans) <= faults

\* Addresses on a port that belong to nobody: not the host's, not recorded for
\* a container, not on their way into a file.
Leaked ==
    {a \in port : /\ \A n \in Networks : a # HostIP[n]
                  /\ files[a] \notin Containers
                  /\ ~ \E p \in Procs : pc[p] \in {"addOpen", "addWrite"} /\ ip[p] = a}

\* Each failing call or crash costs the port at most one address for good;
\* without a fault Reserve and ReleaseByID never leak one.
LeaksBounded == Cardinality(Leaked) <= faults

\* A container never has more files than networks it is or was being added to
\* without a DEL that succeeded since, but for one file for each fault: what the
\* runtime takes to be deleted leaves no record behind unless a read failed.
RecordsBounded ==
    \A c \in Containers :
        Cardinality(Recorded(c))
            <= Cardinality({n \in Networks : att[<<c, n>>] # "none"}) + faults

\* "Release clears all IPs allocated for the container with given ID"
\* (allocator.go): when a DEL succeeds, the address its network's ADD returned
\* is off the port.  A fault may have leaked it to the port again.
ReleaseClears ==
    faults = 0 =>
        \A p \in Procs : pc[p] = "delOK" => lease[<<cid[p], net[p]>>] \notin port

\* The update in ReleaseByID takes off the port only addresses recorded for
\* the container being deleted, and puts none back.
ReleaseOnlyOwn ==
    [][\A p \in Procs : pc[p] = "delUpdate" /\ pc'[p] # pc[p] =>
          /\ port' \subseteq port
          /\ port \ port' \subseteq Recorded(cid[p])]_vars

\* The store keeps the promise of the abstract specification.
Promise == INSTANCE Ipam WITH
    granted <- [cn \in Containers \X Networks |-> IF att[cn] = "up" THEN lease[cn] ELSE None],
    plumbed <- port
ImplementsIpam == Promise!IpamSpec

\* Every call comes back: no process waits for the lock for ever.
EveryCallReturns == \A p \in Procs : pc[p] # "idle" ~> pc[p] = "idle"

=============================================================================
