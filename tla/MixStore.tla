------------------------------ MODULE MixStore ------------------------------
(***************************************************************************)
(* The "mix" mode of tcnp-ipam, pkg/ipam/backend/neutron/mix_store.go.     *)
(* Both Reserve and ReleaseByID read the fixed IPs of the host port again  *)
(* after they have taken the lock, and replace the whole list.             *)
(***************************************************************************)
EXTENDS HostPort

\* NewMixStore looks up the host port and its subnet before the lock is taken;
\* it keeps the id of the port only, which never changes.
NewMixStore(p) ==
    /\ pc[p] \in {"addNew", "delNew"}
    /\ Goto(p, IF pc[p] = "addNew" THEN "addLock" ELSE "delLock")
    /\ UNCHANGED <<lock, port, files, args, seen, ip, att, lease, faults>>

Reserve(p) ==
    \/ CheckRoom(p)
    \/ AddFixedIP(p)
    \/ AddFixedIPExhausted(p)
    \/ AddFixedIPLost(p)
    \/ CreateFile(p)
    \/ WriteFile(p)
    \/ WriteFileFails(p)
    \/ ReserveFails(p)

\* Mutant of ReleaseGet: index == nil for index != nil.
ReleaseGetInverted(p) ==
    /\ pc[p] = "delGet"
    /\ seen' = [seen EXCEPT ![p] = FixedIPs(net[p])]
    /\ Goto(p, IF ip[p] \in FixedIPs(net[p]) THEN "delRemove" ELSE "delUpdate")
    /\ UNCHANGED <<lock, port, files, args, ip, att, lease, faults>>

\* Mutant of ReleaseGet: an address that is not on the port is an error.
ReleaseGetStrict(p) ==
    /\ pc[p] = "delGet"
    /\ seen' = [seen EXCEPT ![p] = FixedIPs(net[p])]
    /\ Goto(p, IF ip[p] \in FixedIPs(net[p]) THEN "delUpdate" ELSE "delErr")
    /\ UNCHANGED <<lock, port, files, args, ip, att, lease, faults>>

\* ports.Get and findIndex: an address that is no longer on the port needs no
\* update.
ReleaseGet(p) ==
    /\ pc[p] = "delGet"
    /\ seen' = [seen EXCEPT ![p] = FixedIPs(net[p])]
    /\ Goto(p, IF ip[p] \in FixedIPs(net[p]) THEN "delUpdate" ELSE "delRemove")
    /\ UNCHANGED <<lock, port, files, args, ip, att, lease, faults>>

ReleaseUpdate(p) ==
    /\ pc[p] = "delUpdate"
    /\ PutFixedIPs(net[p], seen[p] \ {ip[p]})
    /\ Goto(p, "delRemove")
    /\ UNCHANGED <<lock, files, args, seen, ip, att, lease, faults>>

\* ports.Update returns an error although Neutron carried it out.
ReleaseUpdateLost(p) ==
    /\ pc[p] = "delUpdate"
    /\ Fault
    /\ PutFixedIPs(net[p], seen[p] \ {ip[p]})
    /\ Goto(p, "delErr")
    /\ UNCHANGED <<lock, files, args, seen, ip, att, lease>>

ReleaseByID(p) ==
    \/ WalkFiles(p, "delGet")
    \/ ReleaseGet(p)
    \/ ReleaseUpdate(p)
    \/ ReleaseUpdateLost(p)
    \/ WalkFilesSkips(p)
    \/ RemoveFile(p)
    \/ ReleaseFails(p)

-----------------------------------------------------------------------------
Start(p) == \E c \in Containers, n \in Networks : CmdAdd(p, c, n) \/ CmdDel(p, c, n)

Step(p) ==
    \/ NewMixStore(p)
    \/ NewStoreFails(p)
    \/ Lock(p)
    \/ Reserve(p)
    \/ ReleaseByID(p)
    \/ ReturnAdd(p)
    \/ ReturnDel(p)

Next == \E p \in Procs : Start(p) \/ Step(p) \/ Crash(p)

Spec == Init /\ [][Next]_vars

=============================================================================
