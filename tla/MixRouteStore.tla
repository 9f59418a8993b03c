---------------------------- MODULE MixRouteStore ----------------------------
(***************************************************************************)
(* The "mix-route" mode of tcnp-ipam,                                      *)
(* pkg/ipam/backend/neutron/mix_route_store.go.  NewMixRouteStore keeps    *)
(* the host port, with the fixed IPs it had then, and removePort writes    *)
(* that list back; only Reserve reads it again under the lock.             *)
(***************************************************************************)
EXTENDS HostPort

\* ports.List before the lock is taken: s.hostPort.
NewMixRouteStore(p) ==
    /\ pc[p] \in {"addNew", "delNew"}
    /\ seen' = [seen EXCEPT ![p] = FixedIPs(net[p])]
    /\ Goto(p, IF pc[p] = "addNew" THEN "addLock" ELSE "delLock")
    /\ UNCHANGED <<lock, port, files, args, ip, att, lease, faults>>

allocatePort(p) == AddFixedIP(p) \/ AddFixedIPExhausted(p) \/ AddFixedIPLost(p)

writeIP(p) == CreateFile(p) \/ WriteFile(p) \/ WriteFileFails(p)

Reserve(p) == CheckRoom(p) \/ allocatePort(p) \/ writeIP(p) \/ ReserveFails(p)

-----------------------------------------------------------------------------
\* Mutant of removePort: the address is not cut out of the list.
removePortKeeps(p) ==
    /\ pc[p] = "delUpdate"
    /\ IF ip[p] \in seen[p]
       THEN PutFixedIPs(net[p], seen[p]) /\ Goto(p, "delRemove")
       ELSE UNCHANGED port /\ Goto(p, "delErr")
    /\ UNCHANGED <<lock, files, args, seen, ip, att, lease, faults>>

\* The list as it was in NewMixRouteStore, without the container's address; an
\* address that is not in that list is an error.
removePort(p) ==
    /\ pc[p] = "delUpdate"
    /\ IF ip[p] \in seen[p]
       THEN PutFixedIPs(net[p], seen[p] \ {ip[p]}) /\ Goto(p, "delRemove")
       ELSE UNCHANGED port /\ Goto(p, "delErr")
    /\ UNCHANGED <<lock, files, args, seen, ip, att, lease, faults>>

\* ports.Update returns an error although Neutron carried it out.
removePortLost(p) ==
    /\ pc[p] = "delUpdate"
    /\ ip[p] \in seen[p]
    /\ Fault
    /\ PutFixedIPs(net[p], seen[p] \ {ip[p]})
    /\ Goto(p, "delErr")
    /\ UNCHANGED <<lock, files, args, seen, ip, att, lease>>

ReleaseByID(p) ==
    \/ WalkFiles(p, "delUpdate")
    \/ removePort(p)
    \/ removePortLost(p)
    \/ WalkFilesSkips(p)
    \/ RemoveFile(p)
    \/ ReleaseFails(p)

-----------------------------------------------------------------------------
Start(p) == \E c \in Containers, n \in Networks : CmdAdd(p, c, n) \/ CmdDel(p, c, n)

Step(p) ==
    \/ NewMixRouteStore(p)
    \/ NewStoreFails(p)
    \/ Lock(p)
    \/ Reserve(p)
    \/ ReleaseByID(p)
    \/ ReturnAdd(p)
    \/ ReturnDel(p)

Next == \E p \in Procs : Start(p) \/ Step(p) \/ Crash(p)

Spec == Init /\ [][Next]_vars

=============================================================================
