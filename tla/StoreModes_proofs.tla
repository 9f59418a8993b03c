------------------------- MODULE StoreModes_proofs --------------------------
(***************************************************************************)
(* TLAPS proofs about both modes that put addresses on the host port, for  *)
(* any number of processes, containers, networks, addresses and faults.    *)
(*                                                                         *)
(* In mix-route mode an address in use may be taken off the port, so the   *)
(* invariant of MixStore_proofs does not hold.  Its part about the files   *)
(* does: it depends on the lock and on O_EXCL, and not on the list that a  *)
(* DEL writes back.                                                        *)
(***************************************************************************)
EXTENDS StoreModes, MixStore_faults_proofs

-----------------------------------------------------------------------------
(***************************************************************************)
(* The steps of mix-route, in the words of MixStore                        *)
(***************************************************************************)
LEMMA SameCardinality == \A S : Route!Cardinality(S) = Cardinality(S)
  BY DEF Route!Cardinality, Cardinality

LEMMA SameReserve ==
  ASSUME NEW p \in Procs, Route!Reserve(p)
  PROVE  Reserve(p)
<1> USE DEF Reserve, Route!Goto, Goto, Route!args, args
<1>1. CASE Route!CheckRoom(p)
  <2>1. Route!IsOverMax(Route!FixedIPs(net[p])) <=> IsOverMax(FixedIPs(net[p]))
    BY SameCardinality DEF Route!FixedIPs, FixedIPs, Route!IsOverMax, IsOverMax
  <2> QED
    BY <1>1, <2>1 DEF Route!CheckRoom, CheckRoom, Route!FixedIPs, FixedIPs
<1>2. CASE Route!AddFixedIP(p)
  <2>1. \A S, T : Route!difference(S, T) = difference(S, T)
    BY SameCardinality DEF Route!difference, difference
  <2> QED
    BY <1>2, <2>1 DEF Route!AddFixedIP, AddFixedIP, Route!Free, Free, Route!PutFixedIPs, PutFixedIPs
<1>3. CASE Route!AddFixedIPExhausted(p) \/ Route!AddFixedIPLost(p)
  BY <1>3 DEF Route!AddFixedIPExhausted, AddFixedIPExhausted, Route!AddFixedIPLost, AddFixedIPLost,
      Route!Free, Free, Route!PutFixedIPs, PutFixedIPs, Route!Fault, Fault
<1>4. CASE Route!CreateFile(p)
  BY <1>4 DEF Route!CreateFile, CreateFile
<1>5. CASE Route!WriteFile(p) \/ Route!WriteFileFails(p) \/ Route!ReserveFails(p)
  BY <1>5 DEF Route!WriteFile, WriteFile, Route!WriteFileFails, WriteFileFails,
      Route!ReserveFails, ReserveFails, Route!Fault, Fault
<1> QED
  BY <1>1, <1>2, <1>3, <1>4, <1>5 DEF Route!Reserve, Route!allocatePort, Route!writeIP

\* What is different: the list is read before the lock is taken, and written
\* back by removePort.
Differs(p) ==
    \/ Route!NewMixRouteStore(p) \/ WalkFiles(p, "delUpdate")
    \/ Route!removePort(p) \/ Route!removePortLost(p)

LEMMA RouteSteps ==
  ASSUME NEW p \in Procs, Route!Step(p)
  PROVE  Step(p) \/ Differs(p)
<1> USE DEF Step, Differs, Route!Goto, Goto, Route!args, args
<1>1. CASE Route!NewMixRouteStore(p)
  BY <1>1
<1>2. CASE Route!NewStoreFails(p)
  BY <1>2 DEF Route!NewStoreFails, NewStoreFails, Route!Fault, Fault, Route!Exit, Exit,
      Route!StillDue, StillDue
<1>3. CASE Route!Lock(p)
  BY <1>3 DEF Route!Lock, Lock
<1>4. CASE Route!Reserve(p)
  BY <1>4, SameReserve
<1>5. CASE Route!ReturnAdd(p)
  BY <1>5 DEF Route!ReturnAdd, ReturnAdd, Route!Exit, Exit, Route!StillDue, StillDue
<1>6. CASE Route!ReturnDel(p)
  BY <1>6 DEF Route!ReturnDel, ReturnDel, Route!Exit, Exit, Route!StillDue, StillDue
<1>7. CASE Route!ReleaseByID(p)
  <2>1. CASE Route!WalkFiles(p, "delUpdate")
    BY <2>1 DEF Route!WalkFiles, WalkFiles, Route!Recorded, Recorded
  <2>2. CASE Route!removePort(p) \/ Route!removePortLost(p)
    BY <2>2
  <2>3. CASE Route!WalkFilesSkips(p) \/ Route!RemoveFile(p) \/ Route!ReleaseFails(p)
    BY <2>3 DEF ReleaseByID, Route!WalkFilesSkips, WalkFilesSkips, Route!RemoveFile, RemoveFile,
        Route!ReleaseFails, ReleaseFails, Route!Fault, Fault, Route!Recorded, Recorded
  <2> QED
    BY <1>7, <2>1, <2>2, <2>3 DEF Route!ReleaseByID
<1> QED
  BY <1>1, <1>2, <1>3, <1>4, <1>5, <1>6, <1>7 DEF Route!Step

-----------------------------------------------------------------------------
(***************************************************************************)
(* The files.  What the process that holds the lock knows about the file   *)
(* of its address:                                                         *)
(***************************************************************************)
KnowsFile(p) ==
    /\ pc[p] \in {"addOpen", "addWrite", "addOK", "delGet", "delUpdate", "delRemove"} => ip[p] \in IPs
    /\ pc[p] = "addWrite" => files[ip[p]] = Blank
    /\ pc[p] \in {"addOK", "delGet", "delUpdate", "delRemove"} => files[ip[p]] = cid[p]

FileInv == TypeOK /\ Control /\ (\A p \in Procs : KnowsFile(p)) /\ LeaseRecorded

LEMMA InitFileInv == Init => FileInv
<1>1. Init => LeaseRecorded /\ \A p \in Procs : KnowsFile(p)
  BY DEF Init, LeaseRecorded, KnowsFile
<1> QED
  BY <1>1, InitTypeOK, InitControl DEF FileInv

\* Inside the critical section only the process that takes the step knows a file.
LEMMA InsideFiles ==
  ASSUME TypeOK, Control, NEW p \in Procs, NEW l, pc[p] \in Locked, Goto(p, l), KnowsFile(p)'
  PROVE  \A q \in Procs : KnowsFile(q)'
<1>1. \A q \in Procs \ {p} : pc'[q] \notin Informed
  BY Alone DEF TypeOK, Goto
<1> QED
  BY <1>1 DEF KnowsFile, Informed

\* A step that takes no file from a running container keeps LeaseRecorded.
LEMMA LeasesFiled ==
  ASSUME FileInv, UNCHANGED <<att, lease>>,
         \A a \in IPs, c \in Containers :
            files[a] = c /\ (\E n \in Networks : att[<<c, n>>] = "up") => files'[a] = c
  PROVE  LeaseRecorded'
  BY DEF FileInv, LeaseRecorded

LEMMA ReserveFiles ==
  ASSUME FileInv, NEW p \in Procs, Reserve(p)
  PROVE  (\A q \in Procs : KnowsFile(q)') /\ LeaseRecorded'
<1> USE DEF FileInv, TypeOK
<1>1. PICK l \in Locked : pc[p] \in Locked /\ Goto(p, l) /\ UNCHANGED <<lock, args, att, lease>>
  BY WorksInside DEF Works
<1>2. UNCHANGED <<cid, att, lease>> /\ pc'[p] = l /\ KnowsFile(p)
  BY <1>1 DEF args, Goto
<1>3. CASE CheckRoom(p) \/ AddFixedIPExhausted(p) \/ AddFixedIPLost(p) \/ ReserveFails(p)
  <2>1. UNCHANGED files /\ pc'[p] \in {"addErr", "addUpdate"}
    BY <1>3 DEF CheckRoom, AddFixedIPExhausted, AddFixedIPLost, ReserveFails, Goto
  <2>2. KnowsFile(p)'
    BY <2>1 DEF KnowsFile
  <2> QED
    BY <1>1, <1>2, <2>1, <2>2, InsideFiles, LeasesFiled
<1>4. CASE AddFixedIP(p)
  <2>1. PICK a \in Free(net[p]) :
           \E newIP \in difference(seen[p], seen[p] \cup {a}) : ip' = [ip EXCEPT ![p] = newIP]
    BY <1>4 DEF AddFixedIP
  <2>2. pc[p] = "addUpdate" /\ pc'[p] = "addOpen" /\ UNCHANGED files
    BY <1>4 DEF AddFixedIP, Goto
  <2>3. ip'[p] = a /\ a \in IPs
    BY <2>1, <2>2, ConstantAssumption DEF difference, Free
  <2>4. KnowsFile(p)'
    BY <2>2, <2>3 DEF KnowsFile
  <2> QED
    BY <1>1, <1>2, <2>2, <2>4, InsideFiles, LeasesFiled
<1>5. CASE CreateFile(p)
  <2>1. pc[p] = "addOpen" /\ ip[p] \in IPs /\ UNCHANGED ip
    BY <1>2, <1>5 DEF CreateFile, KnowsFile
  <2>2. CASE files[ip[p]] = None
    <3>1. files' = [files EXCEPT ![ip[p]] = Blank] /\ pc'[p] = "addWrite"
      BY <1>5, <2>2 DEF CreateFile, Goto
    <3>2. KnowsFile(p)'
      BY <2>1, <3>1 DEF KnowsFile
    <3>3. \A a \in IPs, c \in Containers : files[a] = c => files'[a] = c
      BY <2>2, <3>1, ConstantAssumption
    <3> QED
      BY <1>1, <1>2, <3>2, <3>3, InsideFiles, LeasesFiled
  <2>3. CASE files[ip[p]] # None
    <3>1. UNCHANGED files /\ pc'[p] = "addErr"
      BY <1>5, <2>3 DEF CreateFile, Goto
    <3>2. KnowsFile(p)'
      BY <3>1 DEF KnowsFile
    <3> QED
      BY <1>1, <1>2, <3>1, <3>2, InsideFiles, LeasesFiled
  <2> QED
    BY <2>2, <2>3
<1>6. CASE WriteFile(p) \/ WriteFileFails(p)
  <2>1. /\ ip[p] \in IPs /\ files[ip[p]] = Blank /\ UNCHANGED ip
        /\ \E x : files' = [files EXCEPT ![ip[p]] = x]
    BY <1>2, <1>6 DEF WriteFile, WriteFileFails, KnowsFile
  <2>2. KnowsFile(p)'
    BY <1>2, <1>6, <2>1 DEF WriteFile, WriteFileFails, KnowsFile, Goto
  <2>3. \A a \in IPs, c \in Containers : files[a] = c => files'[a] = c
    BY <2>1, ConstantAssumption
  <2> QED
    BY <1>1, <1>2, <2>2, <2>3, InsideFiles, LeasesFiled
<1> QED
  BY <1>3, <1>4, <1>5, <1>6 DEF Reserve

\* The search for the file, whichever step comes after it.
LEMMA WalkKnows ==
  ASSUME FileInv, NEW p \in Procs, NEW l \in {"delGet", "delUpdate"}, WalkFiles(p, l)
  PROVE  (\A q \in Procs : KnowsFile(q)') /\ LeaseRecorded'
<1> USE DEF FileInv, TypeOK
<1>1. pc[p] = "delWalk" /\ UNCHANGED <<files, cid, att, lease>>
  BY DEF WalkFiles, args
<1>2. CASE Goto(p, "delOK")
  <2>1. KnowsFile(p)'
    BY <1>2 DEF KnowsFile, Goto
  <2> QED
    BY <1>1, <1>2, <2>1, InsideFiles, LeasesFiled DEF Locked, DelLocked
<1>3. ASSUME NEW a \in Recorded(cid[p]), ip' = [ip EXCEPT ![p] = a], Goto(p, l)
      PROVE  (\A q \in Procs : KnowsFile(q)') /\ LeaseRecorded'
  <2>1. KnowsFile(p)'
    BY <1>1, <1>3 DEF KnowsFile, Goto, Recorded
  <2> QED
    BY <1>1, <1>3, <2>1, InsideFiles, LeasesFiled DEF Locked, DelLocked
<1> QED
  BY <1>2, <1>3 DEF WalkFiles

\* The steps of a release after it: the file stays, or it is removed.
LEMMA ReleaseKnows ==
  ASSUME FileInv, NEW p \in Procs, pc[p] \in DelLocked, UNCHANGED <<cid, att, lease, ip>>,
         \/ UNCHANGED files /\ Goto(p, "delErr")
         \/ UNCHANGED files /\ Goto(p, "delOK")
         \/ UNCHANGED files /\ pc[p] \in {"delGet", "delUpdate"} /\ Goto(p, "delUpdate")
         \/ UNCHANGED files /\ pc[p] \in {"delGet", "delUpdate"} /\ Goto(p, "delRemove")
         \/ RemoveFile(p)
  PROVE  (\A q \in Procs : KnowsFile(q)') /\ LeaseRecorded'
<1> USE DEF FileInv, TypeOK
<1>1. CASE UNCHANGED files
  <2>1. KnowsFile(p)
    OBVIOUS
  <2>2. PICK l \in {"delErr", "delOK", "delUpdate", "delRemove"} :
           Goto(p, l) /\ (l \in {"delUpdate", "delRemove"} => pc[p] \in {"delGet", "delUpdate", "delRemove"})
    BY DEF RemoveFile
  <2>3. KnowsFile(p)'
    BY <1>1, <2>1, <2>2 DEF KnowsFile, Goto
  <2> QED
    BY <1>1, <2>2, <2>3, InsideFiles, LeasesFiled DEF Locked
<1>2. CASE RemoveFile(p)
  <2>1. /\ pc[p] = "delRemove" /\ files' = [files EXCEPT ![ip[p]] = None] /\ Goto(p, "delOK")
        /\ files[ip[p]] = cid[p]
    BY <1>2 DEF RemoveFile, KnowsFile
  <2>2. KnowsFile(p)'
    BY <2>1 DEF KnowsFile, Goto
  <2>3. \A n \in Networks : att[<<cid[p], n>>] # "up"
    BY <2>1 DEF Control, TornDown, Deleting, DelLocked
  <2>4. \A a \in IPs, c \in Containers :
           files[a] = c /\ (\E n \in Networks : att[<<c, n>>] = "up") => files'[a] = c
    BY <2>1, <2>3
  <2> QED
    BY <2>1, <2>2, <2>4, InsideFiles, LeasesFiled DEF Locked
<1> QED
  BY <1>1, <1>2

\* Steps outside the critical section, and those that leave it.
LEMMA OutsideFiles ==
  ASSUME FileInv, NEW p \in Procs, UNCHANGED files,
         \A q \in Procs \ {p} : pc'[q] = pc[q] /\ cid'[q] = cid[q] /\ ip'[q] = ip[q],
         pc'[p] \notin {"addOpen", "addWrite", "addOK", "delGet", "delUpdate", "delRemove"},
         \A c \in Containers, n \in Networks : att'[<<c, n>>] = "up" =>
            \/ att[<<c, n>>] = "up" /\ lease'[<<c, n>>] = lease[<<c, n>>]
            \/ lease'[<<c, n>>] \in IPs /\ files[lease'[<<c, n>>]] = c
  PROVE  (\A q \in Procs : KnowsFile(q)') /\ LeaseRecorded'
<1>1. \A q \in Procs : KnowsFile(q)'
  BY DEF FileInv, KnowsFile
<1>2. LeaseRecorded'
  BY DEF FileInv, LeaseRecorded
<1> QED
  BY <1>1, <1>2

LEMMA ExitFiles ==
  ASSUME FileInv, NEW p \in Procs,
         NewStoreFails(p) \/ ReturnAdd(p) \/ ReturnDel(p) \/ Crash(p)
  PROVE  (\A q \in Procs : KnowsFile(q)') /\ LeaseRecorded'
<1> USE DEF FileInv, TypeOK
<1>1. pc[p] # "idle" /\ Exit(p) /\ UNCHANGED files /\ cid[p] \in Containers /\ net[p] \in Networks
  BY DEF NewStoreFails, ReturnAdd, ReturnDel, Crash
<1>2. /\ pc'[p] = "idle"
      /\ \A q \in Procs \ {p} : pc'[q] = pc[q] /\ cid'[q] = cid[q] /\ ip'[q] = ip[q]
  BY <1>1 DEF Exit, Goto
<1>3. CASE ReturnAdd(p) /\ pc[p] = "addOK"
  <2>1. /\ att' = [att EXCEPT ![<<cid[p], net[p]>>] = "up"]
        /\ lease' = [lease EXCEPT ![<<cid[p], net[p]>>] = ip[p]]
    BY <1>3 DEF ReturnAdd
  <2>2. ip[p] \in IPs /\ files[ip[p]] = cid[p]
    BY <1>3 DEF KnowsFile
  <2>3. ASSUME NEW c \in Containers, NEW n \in Networks, att'[<<c, n>>] = "up"
        PROVE  \/ att[<<c, n>>] = "up" /\ lease'[<<c, n>>] = lease[<<c, n>>]
               \/ lease'[<<c, n>>] \in IPs /\ files[lease'[<<c, n>>]] = c
    <3>1. CASE c = cid[p] /\ n = net[p]
      BY <1>1, <2>1, <2>2, <3>1
    <3>2. CASE ~ (c = cid[p] /\ n = net[p])
      BY <1>1, <2>1, <2>3, <3>2
    <3> QED
      BY <3>1, <3>2
  <2> QED
    BY <1>1, <1>2, <2>3, OutsideFiles
<1>4. CASE ReturnDel(p) /\ pc[p] = "delOK"
  <2>1. /\ att' = [att EXCEPT ![<<cid[p], net[p]>>] = "none"]
        /\ lease' = [lease EXCEPT ![<<cid[p], net[p]>>] = None]
    BY <1>4 DEF ReturnDel
  <2>2. \A c \in Containers, n \in Networks :
           att'[<<c, n>>] = "up" => att[<<c, n>>] = "up" /\ lease'[<<c, n>>] = lease[<<c, n>>]
    BY <1>1, <2>1
  <2> QED
    BY <1>1, <1>2, <2>2, OutsideFiles
<1>5. CASE StillDue(p) /\ UNCHANGED lease
  <2>1. \A c \in Containers, n \in Networks : att'[<<c, n>>] = "up" => att[<<c, n>>] = "up"
    BY <1>1, <1>5 DEF StillDue
  <2> QED
    BY <1>1, <1>2, <1>5, <2>1, OutsideFiles
<1> QED
  BY <1>3, <1>4, <1>5 DEF NewStoreFails, ReturnAdd, ReturnDel, Crash

LEMMA StartFiles ==
  ASSUME FileInv, NEW p \in Procs, Start(p)
  PROVE  (\A q \in Procs : KnowsFile(q)') /\ LeaseRecorded'
<1> USE DEF FileInv, TypeOK
<1>1. PICK c \in Containers, n \in Networks : CmdAdd(p, c, n) \/ CmdDel(p, c, n)
  BY DEF Start
<1>2. /\ UNCHANGED <<files, ip, lease>> /\ pc'[p] \in {"addNew", "delNew"}
      /\ \A q \in Procs \ {p} : pc'[q] = pc[q] /\ cid'[q] = cid[q]
  BY <1>1 DEF CmdAdd, CmdDel, StartCall, Goto
<1>3. \A d \in Containers, m \in Networks : att'[<<d, m>>] = "up" => att[<<d, m>>] = "up"
  BY <1>1 DEF CmdAdd, CmdDel
<1> QED
  BY <1>2, <1>3, OutsideFiles

LEMMA MixFiles ==
  ASSUME FileInv, NEW p \in Procs, Acts(p)
  PROVE  FileInv'
<1>1. Next
  BY DEF Next, Acts
<1>2. TypeOK' /\ Control'
  BY <1>1, NextTypeOK, NextControl DEF FileInv
<1>3. (\A q \in Procs : KnowsFile(q)') /\ LeaseRecorded'
  <2>1. CASE Start(p)
    BY <2>1, StartFiles
  <2>2. CASE NewStoreFails(p) \/ ReturnAdd(p) \/ ReturnDel(p) \/ Crash(p)
    BY <2>2, ExitFiles
  <2>3. CASE NewMixStore(p) \/ Lock(p)
    <3>1. /\ UNCHANGED <<files, cid, ip, att, lease>>
          /\ pc'[p] \in {"addLock", "delLock", "addGet", "delWalk"}
          /\ \A q \in Procs \ {p} : pc'[q] = pc[q]
      BY <2>3 DEF NewMixStore, Lock, args, Goto, FileInv, TypeOK
    <3> QED
      BY <3>1, OutsideFiles
  <2>4. CASE Reserve(p)
    BY <2>4, ReserveFiles
  <2>5. CASE WalkFiles(p, "delGet")
    BY <2>5, WalkKnows
  <2>6. CASE ReleaseGet(p) \/ ReleaseUpdate(p)
    <3>1. /\ pc[p] \in {"delGet", "delUpdate"} /\ UNCHANGED <<cid, att, lease, ip, files>>
          /\ Goto(p, "delUpdate") \/ Goto(p, "delRemove")
      BY <2>6 DEF ReleaseGet, ReleaseUpdate, args
    <3> QED
      BY <3>1, ReleaseKnows DEF DelLocked
  <2>7. CASE ReleaseUpdateLost(p) \/ WalkFilesSkips(p) \/ ReleaseFails(p)
    <3>1. /\ pc[p] \in DelLocked /\ UNCHANGED <<cid, att, lease, ip, files>>
          /\ Goto(p, "delErr") \/ Goto(p, "delOK")
      BY <2>7 DEF ReleaseUpdateLost, WalkFilesSkips, ReleaseFails, DelLocked, args
    <3> QED
      BY <3>1, ReleaseKnows
  <2>8. CASE RemoveFile(p)
    <3>1. pc[p] \in DelLocked /\ UNCHANGED <<cid, att, lease, ip>>
      BY <2>8 DEF RemoveFile, DelLocked, args
    <3> QED
      BY <2>8, <3>1, ReleaseKnows
  <2> QED
    BY <2>1, <2>2, <2>3, <2>4, <2>5, <2>6, <2>7, <2>8 DEF Acts, Step, ReleaseByID
<1> QED
  BY <1>2, <1>3 DEF FileInv

\* The steps that only mix-route has.
LEMMA RouteFiles ==
  ASSUME FileInv, NEW p \in Procs, Differs(p)
  PROVE  FileInv'
<1> USE DEF FileInv, TypeOK
<1>1. CASE Route!NewMixRouteStore(p)
  <2>1. /\ UNCHANGED <<lock, port, files, cid, net, ip, att, lease, faults>>
        /\ pc[p] \in {"addNew", "delNew"}
        /\ pc' = [pc EXCEPT ![p] = IF pc[p] = "addNew" THEN "addLock" ELSE "delLock"]
        /\ seen' = [seen EXCEPT ![p] = FixedIPs(net[p])]
    BY <1>1 DEF Route!NewMixRouteStore, Route!args, Route!Goto, Route!FixedIPs, FixedIPs
  <2>2. TypeOK'
    BY <2>1 DEF FixedIPs, Labels, Adding, Deleting
  <2>3. Control'
    BY <2>1 DEF Control, LockHeld, OneCallPerContainer, TornDown, AddInProgress,
        Locked, AddLocked, DelLocked, Adding, Deleting
  <2>4. (\A q \in Procs : KnowsFile(q)') /\ LeaseRecorded'
    BY <2>1, OutsideFiles
  <2> QED
    BY <2>2, <2>3, <2>4
<1>2. CASE WalkFiles(p, "delUpdate")
  <2>1. TypeOK'
    BY <1>2 DEF WalkFiles, Recorded, Goto, Labels, Deleting, DelLocked, args
  <2>2. Control'
    <3>1. PICK l \in DelLocked : pc[p] \in DelLocked /\ Goto(p, l) /\ UNCHANGED <<lock, args, att>>
      BY <1>2 DEF WalkFiles, DelLocked
    <3> QED
      BY <3>1, InsideControl DEF Locked, Adding, AddLocked, DelLocked
  <2>3. (\A q \in Procs : KnowsFile(q)') /\ LeaseRecorded'
    BY <1>2, WalkKnows
  <2> QED
    BY <2>1, <2>2, <2>3
<1>3. CASE Route!removePort(p) \/ Route!removePortLost(p)
  <2>1. /\ pc[p] = "delUpdate" /\ UNCHANGED <<lock, files, cid, net, seen, ip, att, lease>>
        /\ Goto(p, "delRemove") \/ Goto(p, "delErr")
        /\ port' = port \/ port' = (port \ Subnet[net[p]]) \cup (seen[p] \ {ip[p]})
        /\ faults' = faults \/ Fault
    BY <1>3 DEF Route!removePort, Route!removePortLost, Route!args, Route!Goto, Goto,
        Route!PutFixedIPs, Route!Fault, Fault
  <2>2. TypeOK'
    BY <2>1, FaultType DEF Goto, Labels, Deleting, DelLocked
  <2>3. Control'
    BY <2>1, InsideControl DEF Locked, Adding, AddLocked, DelLocked, args
  <2>4. (\A q \in Procs : KnowsFile(q)') /\ LeaseRecorded'
    BY <2>1, ReleaseKnows DEF DelLocked
  <2> QED
    BY <2>2, <2>3, <2>4
<1> QED
  BY <1>1, <1>2, <1>3 DEF Differs

LEMMA NextFiles ==
  ASSUME FileInv, [ModeNext]_modeVars
  PROVE  FileInv'
<1>1. CASE UNCHANGED modeVars
  BY <1>1 DEF modeVars, vars, FileInv, TypeOK, Control, LockHeld, OneCallPerContainer, TornDown,
      AddInProgress, KnowsFile, LeaseRecorded
<1>2. ASSUME NEW p \in Procs, ModeStep(p) \/ Start(p) \/ Crash(p) PROVE FileInv'
  <2>1. Acts(p) \/ Differs(p)
    BY <1>2, RouteSteps DEF ModeStep, Acts
  <2> QED
    BY <2>1, MixFiles, RouteFiles
<1> QED
  BY <1>1, <1>2 DEF ModeNext

LEMMA FilesHold == ModeSpec => []FileInv
<1>1. FileInv /\ [ModeNext]_modeVars => FileInv'
  BY NextFiles
<1>2. ModeInit => FileInv
  BY InitFileInv DEF ModeInit
<1> QED
  BY <1>1, <1>2, PTL DEF ModeSpec

\* In both modes the file of the address that ADD returned names the container
\* until the runtime asks for a DEL: no two running containers were given one
\* address, although mix-route may take it off the port.
THEOREM LeaseRecordedInBoth == ModeSpec => []LeaseRecorded
<1>1. FileInv => LeaseRecorded
  BY DEF FileInv
<1> QED
  BY <1>1, FilesHold, PTL

-----------------------------------------------------------------------------
(***************************************************************************)
(* A DEL that succeeds.  Without a fault, on a node with one network: a    *)
(* container has at most one file, none before its ADD has written it and  *)
(* none when DEL succeeds, so that the walk finds the address of the       *)
(* lease; and that address is off the port when its file is removed,       *)
(* whichever list was written back, because it was cut out of the list.    *)
(***************************************************************************)
NoFileLabels == {"addNew", "addLock", "addGet", "addUpdate", "addOpen", "addWrite", "addErr", "delOK"}

CleanContainer(c) ==
    /\ \A n \in Networks : att[<<c, n>>] = "none" => Recorded(c) = {}
    /\ \A a, b \in Recorded(c) : a = b
    /\ \A n \in Networks : lease[<<c, n>>] # None =>
          lease[<<c, n>>] \in Recorded(c) \/ \E p \in Procs : pc[p] = "delOK" /\ cid[p] = c

CleanProcess(p) ==
    /\ pc[p] \in NoFileLabels => Recorded(cid[p]) = {}
    /\ pc[p] \in {"delGet", "delUpdate", "delRemove"} =>
          \A n \in Networks : lease[<<cid[p], n>>] \in {None, ip[p]}
    /\ pc[p] = "delRemove" => ip[p] \notin port
    /\ pc[p] = "delOK" => \A n \in Networks : lease[<<cid[p], n>>] \notin port

CleanInv ==
    faults = 0 => (\A c \in Containers : CleanContainer(c)) /\ (\A p \in Procs : CleanProcess(p))

\* The lists that are written back are lists of the subnet.
ListsInv == \A n \in Networks : port \subseteq Subnet[n] /\ \A p \in Procs : seen[p] \subseteq Subnet[n]

LEMMA InitClean ==
  ASSUME OneNetwork, Init
  PROVE  CleanInv /\ ListsInv
<1>1. \A c \in Containers : Recorded(c) = {}
  BY ConstantAssumption DEF Init, Recorded
<1>2. CleanInv
  BY <1>1 DEF Init, CleanInv, CleanContainer, CleanProcess, NoFileLabels
<1>3. ListsInv
  BY ConstantAssumption DEF Init, ListsInv, OneNetwork
<1> QED
  BY <1>2, <1>3

\* A step for c: what it leaves alone.
Apart(p, c) ==
    /\ \A q \in Procs \ {p} :
          /\ pc'[q] = pc[q] /\ cid'[q] = cid[q] /\ ip'[q] = ip[q]
          /\ pc[q] # "idle" => cid[q] # c
    /\ \A d \in Containers \ {c} :
          /\ Recorded(d)' = Recorded(d)
          /\ \A n \in Networks : att'[<<d, n>>] = att[<<d, n>>] /\ lease'[<<d, n>>] = lease[<<d, n>>]
    /\ port' = port \/ pc[p] \in Locked
    /\ pc[p] # "idle" => cid[p] = c

LEMMA MixApart ==
  ASSUME FileInv, NEW p \in Procs, Acts(p), NEW c \in Containers, For(p, c)
  PROVE  Apart(p, c)
<1>1. /\ TypeOK /\ Control
      /\ pc[p] = "addWrite" => files[ip[p]] = Blank
      /\ pc[p] = "delRemove" => files[ip[p]] = cid[p]
  BY DEF FileInv, KnowsFile
<1>2. \A d \in Containers \ {c} : Recorded(d)' = Recorded(d)
  BY <1>1, StepRecords
<1>3. port' = port \/ pc[p] \in Locked
  BY WorksInside, OtherSteps
<1> QED
  BY <1>1, <1>2, <1>3, StepContainers, OthersKeepTheirs DEF Apart, For

LEMMA RouteApart ==
  ASSUME FileInv, NEW p \in Procs, Differs(p)
  PROVE  /\ pc[p] # "idle" /\ cid[p] \in Containers /\ net[p] \in Networks /\ Apart(p, cid[p])
         /\ UNCHANGED <<files, att, lease, cid>>
<1> USE DEF FileInv, TypeOK
<1>1. /\ UNCHANGED <<files, att, lease, cid>> /\ pc[p] # "idle"
      /\ \A q \in Procs \ {p} : pc'[q] = pc[q] /\ ip'[q] = ip[q]
      /\ port' = port \/ pc[p] = "delUpdate"
  BY DEF Differs, Route!NewMixRouteStore, WalkFiles, Route!removePort, Route!removePortLost,
      Route!args, args, Route!Goto, Goto
<1>2. \A q \in Procs \ {p} : pc[q] # "idle" => cid[q] # cid[p]
  BY <1>1 DEF Control, OneCallPerContainer
<1>3. \A d : Recorded(d)' = Recorded(d)
  BY <1>1 DEF Recorded
<1> QED
  BY <1>1, <1>2, <1>3 DEF Apart, Locked, DelLocked

\* The others stay clean.
LEMMA OthersClean ==
  ASSUME FileInv, FileInv', NEW p \in Procs, NEW c \in Containers, Apart(p, c),
         \A d \in Containers : CleanContainer(d), \A q \in Procs : CleanProcess(q)
  PROVE  /\ \A d \in Containers \ {c} : CleanContainer(d)'
         /\ \A q \in Procs \ {p} : CleanProcess(q)'
<1>1. ASSUME NEW q \in Procs \ {p} PROVE CleanProcess(q)'
  <2>1. CleanProcess(q) /\ pc'[q] = pc[q] /\ cid'[q] = cid[q] /\ ip'[q] = ip[q]
    BY DEF Apart
  <2>2. CASE pc[q] = "idle"
    BY <2>1, <2>2 DEF CleanProcess, NoFileLabels
  <2>3. CASE pc[q] # "idle"
    <3>1. cid[q] \in Containers \ {c}
      BY <2>3 DEF Apart, FileInv, TypeOK
    <3>2. /\ Recorded(cid[q])' = Recorded(cid[q])
          /\ \A n \in Networks : lease'[<<cid[q], n>>] = lease[<<cid[q], n>>]
      <4>1. PICK d \in Containers \ {c} : d = cid[q]
        BY <3>1
      <4>2. Recorded(d)' = Recorded(d) /\ \A n \in Networks : lease'[<<d, n>>] = lease[<<d, n>>]
        BY DEF Apart
      <4> QED
        BY <2>1, <4>1, <4>2 DEF Recorded
    <3>3. pc[q] \in {"delRemove", "delOK"} => port' = port
      BY DEF Apart, FileInv, Control, LockHeld, Locked, DelLocked
    <3> QED
      BY <2>1, <3>1, <3>2, <3>3 DEF CleanProcess
  <2> QED
    BY <2>2, <2>3
<1>2. ASSUME NEW d \in Containers \ {c} PROVE CleanContainer(d)'
  <2>1. /\ Recorded(d)' = Recorded(d)
        /\ \A n \in Networks : att'[<<d, n>>] = att[<<d, n>>] /\ lease'[<<d, n>>] = lease[<<d, n>>]
    BY DEF Apart
  <2>2. CleanContainer(d)
    OBVIOUS
  <2>3. ASSUME NEW q \in Procs, pc[q] = "delOK", cid[q] = d, q # p
        PROVE  pc'[q] = "delOK" /\ cid'[q] = d
    BY <2>3 DEF Apart
  <2>4. ~ (pc[p] = "delOK" /\ cid[p] = d)
    BY DEF Apart
  <2> QED
    BY <2>1, <2>2, <2>3, <2>4 DEF CleanContainer
<1> QED
  BY <1>1, <1>2

\* A step that keeps the files and the leases of its container.
LEMMA KeepsClean ==
  ASSUME NEW p \in Procs, NEW c \in Containers, Apart(p, c), CleanContainer(c),
         pc[p] # "delOK", Recorded(c)' = Recorded(c), lease' = lease,
         \A n \in Networks : att'[<<c, n>>] = "none" => att[<<c, n>>] = "none"
  PROVE  CleanContainer(c)'
<1>1. \A q \in Procs : ~ (pc[q] = "delOK" /\ cid[q] = c)
  BY DEF Apart
<1> QED
  BY <1>1 DEF CleanContainer

LEMMA StartClean ==
  ASSUME FileInv, NEW p \in Procs, Start(p), NEW c \in Containers, For(p, c), Apart(p, c),
         CleanContainer(c)
  PROVE  CleanContainer(c)' /\ CleanProcess(p)'
<1> USE DEF FileInv, TypeOK
<1>1. pc[p] = "idle" /\ cid'[p] = c /\ UNCHANGED <<files, lease>>
  BY DEF Start, CmdAdd, CmdDel, StartCall, For
<1>2. Recorded(c)' = Recorded(c)
  BY <1>1 DEF Recorded
<1>3. PICK n \in Networks : CmdAdd(p, c, n) \/ CmdDel(p, c, n)
  <2>1. PICK d \in Containers, n \in Networks : CmdAdd(p, d, n) \/ CmdDel(p, d, n)
    BY DEF Start
  <2>2. cid' = [cid EXCEPT ![p] = d]
    BY <2>1 DEF CmdAdd, CmdDel, StartCall
  <2>3. d = c
    BY <1>1, <2>2
  <2> QED
    BY <2>1, <2>3
<1>4. \A m \in Networks : att'[<<c, m>>] = "none" => att[<<c, m>>] = "none"
  BY <1>3 DEF CmdAdd, CmdDel
<1>5. CASE CmdAdd(p, c, n)
  <2>1. pc'[p] = "addNew" /\ att[<<c, n>>] = "none"
    BY <1>5 DEF CmdAdd, StartCall, Goto
  <2>2. Recorded(c) = {}
    BY <2>1 DEF CleanContainer
  <2>3. Recorded(cid[p])' = {}
    BY <1>1, <2>2 DEF Recorded
  <2> QED
    BY <1>1, <1>2, <1>4, <2>1, <2>3, KeepsClean DEF CleanProcess
<1>6. CASE CmdDel(p, c, n)
  <2>1. pc'[p] = "delNew"
    BY <1>6 DEF CmdDel, StartCall, Goto
  <2> QED
    BY <1>1, <1>2, <1>4, <2>1, KeepsClean DEF CleanProcess, NoFileLabels
<1> QED
  BY <1>3, <1>5, <1>6

\* The steps up to the point where the file is written.
LEMMA ReserveClean ==
  ASSUME OneNetwork, FileInv, NEW p \in Procs, Reserve(p), NEW c \in Containers, Apart(p, c),
         CleanContainer(c), CleanProcess(p), faults = 0, faults' = 0
  PROVE  CleanContainer(c)' /\ CleanProcess(p)'
<1> USE DEF FileInv, TypeOK
<1>1. pc[p] \in {"addGet", "addUpdate", "addOpen", "addWrite"} /\ UNCHANGED <<cid, att, lease>>
  BY DEF Reserve, CheckRoom, AddFixedIP, AddFixedIPExhausted, AddFixedIPLost, CreateFile,
      WriteFile, WriteFileFails, ReserveFails, args
<1>2. cid[p] = c /\ Recorded(c) = {}
  BY <1>1 DEF Apart, CleanProcess, NoFileLabels
<1>3. CASE CheckRoom(p) \/ AddFixedIP(p) \/ AddFixedIPExhausted(p) \/ CreateFile(p)
  <2>1. pc'[p] \in {"addUpdate", "addOpen", "addWrite", "addErr"}
    BY <1>3 DEF CheckRoom, AddFixedIP, AddFixedIPExhausted, CreateFile, Goto
  <2>2. files' = files \/ files' = [files EXCEPT ![ip[p]] = Blank]
    BY <1>3 DEF CheckRoom, AddFixedIP, AddFixedIPExhausted, CreateFile
  <2>3. Recorded(c)' = {}
    BY <1>2, <2>2, ConstantAssumption DEF Recorded
  <2>4. Recorded(cid[p])' = {}
    BY <1>1, <1>2, <2>3 DEF Recorded
  <2>5. CleanProcess(p)'
    BY <2>1, <2>4 DEF CleanProcess
  <2> QED
    BY <1>1, <1>2, <2>3, <2>5, KeepsClean
<1>4. CASE WriteFile(p)
  <2>1. pc[p] = "addWrite" /\ pc'[p] = "addOK" /\ files' = [files EXCEPT ![ip[p]] = c]
    BY <1>2, <1>4 DEF WriteFile, Goto
  <2>2. Recorded(c)' \subseteq {ip[p]}
    BY <1>2, <2>1 DEF Recorded
  <2>3. \A n \in Networks : lease[<<c, n>>] = None /\ att[<<c, n>>] # "none"
    <3>1. \A q \in Procs : ~ (pc[q] = "delOK" /\ cid[q] = c)
      BY <2>1 DEF Apart
    <3>2. \A n \in Networks : lease[<<c, n>>] = None
      BY <1>2, <3>1 DEF CleanContainer
    <3>3. net[p] \in Networks /\ att[<<c, net[p]>>] = "adding"
      BY <1>2, <2>1 DEF Control, AddInProgress, Adding, AddLocked
    <3> QED
      BY <3>2, <3>3 DEF OneNetwork
  <2>4. CleanProcess(p)'
    BY <2>1 DEF CleanProcess, NoFileLabels
  <2> QED
    BY <1>1, <2>2, <2>3, <2>4 DEF CleanContainer
<1>5. CASE AddFixedIPLost(p) \/ WriteFileFails(p) \/ ReserveFails(p)
  BY <1>5 DEF AddFixedIPLost, WriteFileFails, ReserveFails, Fault
<1> QED
  BY <1>3, <1>4, <1>5 DEF Reserve
\* The walk finds the address of the lease, if there is one.
LEMMA WalkClean ==
  ASSUME FileInv, NEW p \in Procs, NEW l \in {"delGet", "delUpdate"}, WalkFiles(p, l),
         NEW c \in Containers, Apart(p, c), CleanContainer(c)
  PROVE  CleanContainer(c)' /\ CleanProcess(p)'
<1> USE DEF FileInv, TypeOK
<1>1. pc[p] = "delWalk" /\ UNCHANGED <<files, port, cid, att, lease>>
  BY DEF WalkFiles, args
<1>2. cid[p] = c /\ cid'[p] = c /\ Recorded(c)' = Recorded(c) /\ Recorded(cid[p])' = Recorded(c)
  BY <1>1 DEF Apart, Recorded
<1>3. CleanContainer(c)'
  BY <1>1, <1>2, KeepsClean
<1>4. \A n \in Networks : lease[<<c, n>>] # None => lease[<<c, n>>] \in Recorded(c)
  <2>1. \A q \in Procs : ~ (pc[q] = "delOK" /\ cid[q] = c)
    BY <1>1 DEF Apart
  <2> QED
    BY <2>1 DEF CleanContainer
<1>5. CASE Recorded(c) = {} /\ Goto(p, "delOK")
  <2>1. \A n \in Networks : lease'[<<c, n>>] \notin port'
    BY <1>1, <1>4, <1>5, ConstantAssumption
  <2>2. pc'[p] = "delOK"
    BY <1>5 DEF Goto
  <2> QED
    BY <1>2, <1>3, <1>5, <2>1, <2>2 DEF CleanProcess
<1>6. ASSUME NEW a \in Recorded(c), ip' = [ip EXCEPT ![p] = a], Goto(p, l)
      PROVE  CleanProcess(p)'
  <2>1. \A n \in Networks : lease'[<<c, n>>] \in {None, a}
    BY <1>1, <1>4 DEF CleanContainer
  <2>2. pc'[p] = l /\ ip'[p] = a
    BY <1>6 DEF Goto
  <2> QED
    BY <1>2, <2>1, <2>2 DEF CleanProcess, NoFileLabels
<1> QED
  BY <1>2, <1>3, <1>5, <1>6 DEF WalkFiles

\* The list that is written back, fresh or stale, is without the address.
LEMMA PutClean ==
  ASSUME OneNetwork, FileInv, ListsInv, NEW p \in Procs, pc[p] = "delUpdate", Goto(p, "delRemove"),
         UNCHANGED <<files, cid, ip, att, lease>>,
         port' = (port \ Subnet[net[p]]) \cup (seen[p] \ {ip[p]}),
         NEW c \in Containers, Apart(p, c), CleanContainer(c), CleanProcess(p)
  PROVE  CleanContainer(c)' /\ CleanProcess(p)'
<1> USE DEF FileInv, TypeOK
<1>1. Recorded(c)' = Recorded(c) /\ cid[p] = c
  BY DEF Apart, Recorded
<1>2. CleanContainer(c)'
  BY <1>1, KeepsClean
<1>3. ip[p] \notin port'
  BY DEF ListsInv
<1>4. pc'[p] = "delRemove"
  BY DEF Goto
<1> QED
  BY <1>2, <1>3, <1>4 DEF CleanProcess, NoFileLabels

LEMMA ReleaseClean ==
  ASSUME OneNetwork, FileInv, ListsInv, NEW p \in Procs, ReleaseByID(p),
         NEW c \in Containers, Apart(p, c), CleanContainer(c), CleanProcess(p), faults = 0, faults' = 0
  PROVE  CleanContainer(c)' /\ CleanProcess(p)'
<1> USE DEF FileInv, TypeOK
<1>1. CASE WalkFiles(p, "delGet")
  BY <1>1, WalkClean
<1>2. CASE ReleaseGet(p)
  <2>1. pc[p] = "delGet" /\ UNCHANGED <<files, port, cid, ip, att, lease>>
    BY <1>2 DEF ReleaseGet, args
  <2>2. Recorded(c)' = Recorded(c) /\ cid[p] = c
    BY <2>1 DEF Apart, Recorded
  <2>3. CleanContainer(c)'
    BY <2>1, <2>2, KeepsClean
  <2>4. pc'[p] = "delUpdate" \/ (pc'[p] = "delRemove" /\ ip[p] \notin FixedIPs(net[p]))
    BY <1>2 DEF ReleaseGet, Goto
  <2>5. port \subseteq Subnet[net[p]]
    BY <2>1 DEF ListsInv
  <2>6. pc'[p] = "delRemove" => ip[p] \notin port
    BY <2>4, <2>5 DEF FixedIPs
  <2> QED
    BY <2>1, <2>3, <2>4, <2>6 DEF CleanProcess, NoFileLabels
<1>3. CASE ReleaseUpdate(p)
  BY <1>3, PutClean DEF ReleaseUpdate, PutFixedIPs, args
<1>4. CASE RemoveFile(p)
  <2>1. /\ pc[p] = "delRemove" /\ pc'[p] = "delOK" /\ UNCHANGED <<port, cid, ip, att, lease>>
        /\ files' = [files EXCEPT ![ip[p]] = None]
    BY <1>4 DEF RemoveFile, Goto, args
  <2>2. cid[p] = c /\ ip[p] \in Recorded(c)
    BY <2>1 DEF Apart, KnowsFile, Recorded
  <2>3. Recorded(c)' = {}
    BY <2>1, <2>2, ConstantAssumption DEF Recorded, CleanContainer
  <2>4. Recorded(cid[p])' = {} /\ cid'[p] = c
    BY <2>1, <2>2, <2>3 DEF Recorded
  <2>5. \A n \in Networks : lease'[<<c, n>>] \notin port'
    BY <2>1, <2>2, ConstantAssumption DEF CleanProcess
  <2>6. CleanContainer(c)'
    BY <2>1, <2>3, <2>4 DEF CleanContainer
  <2> QED
    BY <2>1, <2>4, <2>5, <2>6 DEF CleanProcess
<1>5. CASE ReleaseUpdateLost(p) \/ WalkFilesSkips(p) \/ ReleaseFails(p)
  BY <1>5 DEF ReleaseUpdateLost, WalkFilesSkips, ReleaseFails, Fault
<1> QED
  BY <1>1, <1>2, <1>3, <1>4, <1>5 DEF ReleaseByID
\* The call returns: ADD with the address whose file it has written, DEL with
\* no file left.
LEMMA ReturnClean ==
  ASSUME OneNetwork, FileInv, NEW p \in Procs, ReturnAdd(p) \/ ReturnDel(p),
         NEW c \in Containers, Apart(p, c), CleanContainer(c), CleanProcess(p)
  PROVE  CleanContainer(c)' /\ CleanProcess(p)'
<1> USE DEF FileInv, TypeOK
<1>1. pc[p] \in {"addOK", "addErr", "delOK", "delErr"} /\ UNCHANGED files /\ pc'[p] = "idle"
  BY DEF ReturnAdd, ReturnDel, Exit, Goto
<1>2. cid[p] = c /\ net[p] \in Networks /\ Recorded(c)' = Recorded(c)
  BY <1>1 DEF Apart, Recorded
<1>3. CleanProcess(p)'
  BY <1>1 DEF CleanProcess, NoFileLabels
<1>4. CASE pc[p] \in {"addErr", "delErr"}
  <2>1. StillDue(p) /\ lease' = lease
    BY <1>4 DEF ReturnAdd, ReturnDel
  <2>2. \A n \in Networks : att'[<<c, n>>] = "none" => att[<<c, n>>] = "none"
    BY <1>2, <2>1 DEF StillDue
  <2> QED
    BY <1>2, <1>3, <1>4, <2>1, <2>2, KeepsClean
<1>5. CASE pc[p] = "addOK"
  <2>1. /\ att' = [att EXCEPT ![<<c, net[p]>>] = "up"]
        /\ lease' = [lease EXCEPT ![<<c, net[p]>>] = ip[p]]
    BY <1>2, <1>5 DEF ReturnAdd, ReturnDel
  <2>2. ip[p] \in Recorded(c)
    BY <1>2, <1>5 DEF KnowsFile, Recorded
  <2>3. \A n \in Networks : att'[<<c, n>>] = "up" /\ lease'[<<c, n>>] = ip[p]
    BY <1>2, <2>1 DEF OneNetwork
  <2> QED
    BY <1>2, <1>3, <2>2, <2>3 DEF CleanContainer
<1>6. CASE pc[p] = "delOK"
  <2>1. lease' = [lease EXCEPT ![<<c, net[p]>>] = None]
    BY <1>2, <1>6 DEF ReturnAdd, ReturnDel
  <2>2. \A n \in Networks : lease'[<<c, n>>] = None
    BY <1>2, <2>1 DEF OneNetwork
  <2>3. Recorded(c)' = {}
    BY <1>2, <1>6 DEF CleanProcess, NoFileLabels
  <2> QED
    BY <1>3, <2>2, <2>3 DEF CleanContainer
<1> QED
  BY <1>1, <1>4, <1>5, <1>6

\* Waiting for the lock, in both modes.
LEMMA WaitClean ==
  ASSUME FileInv, NEW p \in Procs,
         pc[p] \in {"addNew", "addLock", "delNew", "delLock"},
         pc'[p] = CASE pc[p] = "addNew" -> "addLock" [] pc[p] = "addLock" -> "addGet"
                    [] pc[p] = "delNew" -> "delLock" [] pc[p] = "delLock" -> "delWalk",
         UNCHANGED <<files, cid, att, lease>>,
         NEW c \in Containers, Apart(p, c), CleanContainer(c), CleanProcess(p)
  PROVE  CleanContainer(c)' /\ CleanProcess(p)'
<1>1. \A d : Recorded(d)' = Recorded(d)
  BY DEF Recorded
<1>2. Recorded(cid[p])' = Recorded(cid[p])
  BY DEF Recorded
<1>3. CleanContainer(c)'
  BY <1>1, KeepsClean
<1>4. CASE pc[p] \in {"addNew", "addLock"}
  <2>1. pc'[p] \in {"addLock", "addGet"} /\ Recorded(cid[p]) = {}
    BY <1>4 DEF CleanProcess, NoFileLabels
  <2> QED
    BY <1>2, <1>3, <2>1 DEF CleanProcess
<1>5. CASE pc[p] \in {"delNew", "delLock"}
  <2>1. pc'[p] \in {"delLock", "delWalk"}
    BY <1>5
  <2> QED
    BY <1>3, <2>1 DEF CleanProcess, NoFileLabels
<1> QED
  BY <1>4, <1>5

LEMMA ActsClean ==
  ASSUME OneNetwork, FileInv, ListsInv, NEW p \in Procs, Acts(p), NEW c \in Containers, For(p, c),
         Apart(p, c), CleanContainer(c), CleanProcess(p), faults = 0, faults' = 0
  PROVE  CleanContainer(c)' /\ CleanProcess(p)'
<1>1. CASE Start(p)
  BY <1>1, StartClean
<1>2. CASE Reserve(p)
  BY <1>2, ReserveClean
<1>3. CASE ReleaseByID(p)
  BY <1>3, ReleaseClean
<1>4. CASE ReturnAdd(p) \/ ReturnDel(p)
  BY <1>4, ReturnClean
<1>5. CASE NewMixStore(p) \/ Lock(p)
  <2>1. /\ pc[p] \in {"addNew", "addLock", "delNew", "delLock"}
        /\ UNCHANGED <<files, cid, att, lease>>
        /\ pc'[p] = CASE pc[p] = "addNew" -> "addLock" [] pc[p] = "addLock" -> "addGet"
                      [] pc[p] = "delNew" -> "delLock" [] pc[p] = "delLock" -> "delWalk"
    BY <1>5 DEF NewMixStore, Lock, Goto, args, FileInv, TypeOK
  <2> QED
    BY <2>1, WaitClean
<1>6. CASE NewStoreFails(p) \/ Crash(p)
  BY <1>6 DEF NewStoreFails, Crash, Fault
<1> QED
  BY <1>1, <1>2, <1>3, <1>4, <1>5, <1>6 DEF Acts, Step

LEMMA DiffersClean ==
  ASSUME OneNetwork, FileInv, ListsInv, NEW p \in Procs, Differs(p), NEW c \in Containers,
         Apart(p, c), CleanContainer(c), CleanProcess(p), faults = 0, faults' = 0
  PROVE  CleanContainer(c)' /\ CleanProcess(p)'
<1>1. CASE Route!NewMixRouteStore(p)
  <2>1. /\ pc[p] \in {"addNew", "addLock", "delNew", "delLock"}
        /\ UNCHANGED <<files, cid, att, lease>>
        /\ pc'[p] = CASE pc[p] = "addNew" -> "addLock" [] pc[p] = "addLock" -> "addGet"
                      [] pc[p] = "delNew" -> "delLock" [] pc[p] = "delLock" -> "delWalk"
    BY <1>1 DEF Route!NewMixRouteStore, Route!Goto, Route!args, FileInv, TypeOK
  <2> QED
    BY <2>1, WaitClean
<1>2. CASE WalkFiles(p, "delUpdate")
  BY <1>2, WalkClean
<1>3. CASE Route!removePort(p)
  <2>1. pc[p] = "delUpdate" /\ UNCHANGED <<files, cid, ip, att, lease>>
    BY <1>3 DEF Route!removePort, Route!args
  <2>2. CASE ip[p] \in seen[p]
    <3>1. /\ Goto(p, "delRemove")
          /\ port' = (port \ Subnet[net[p]]) \cup (seen[p] \ {ip[p]})
      BY <1>3, <2>2 DEF Route!removePort, Route!PutFixedIPs, Route!Goto, Goto
    <3> QED
      BY <2>1, <3>1, PutClean
  <2>3. CASE ip[p] \notin seen[p]
    <3>1. pc'[p] = "delErr"
      BY <1>3, <2>3 DEF Route!removePort, Route!Goto, FileInv, TypeOK
    <3>2. Recorded(c)' = Recorded(c)
      BY <2>1 DEF Recorded
    <3> QED
      BY <2>1, <3>1, <3>2, KeepsClean DEF CleanProcess, NoFileLabels
  <2> QED
    BY <2>2, <2>3
<1>4. CASE Route!removePortLost(p)
  BY <1>4 DEF Route!removePortLost, Route!Fault
<1> QED
  BY <1>1, <1>2, <1>3, <1>4 DEF Differs
\* The lists: what is read is on the port, what is put on it is of the subnet.
LEMMA ListsKept ==
  ASSUME OneNetwork, FileInv, ListsInv, NEW p \in Procs, Acts(p) \/ Differs(p)
  PROVE  ListsInv'
<1> USE DEF FileInv, TypeOK
<1>1. \A q \in Procs : seen'[q] = seen[q] \/ seen'[q] = {} \/ seen'[q] \subseteq port
  <2>1. \/ seen' = seen \/ seen' = [seen EXCEPT ![p] = {}]
        \/ seen' = [seen EXCEPT ![p] = FixedIPs(net[p])]
    <3>1. CASE Differs(p)
      BY <3>1 DEF Differs, Route!NewMixRouteStore, WalkFiles, Route!removePort,
          Route!removePortLost, Route!FixedIPs, FixedIPs
    <3>2. CASE Works(p)
      BY <3>2 DEF Works, Reserve, CheckRoom, AddFixedIP, AddFixedIPExhausted, AddFixedIPLost,
          CreateFile, WriteFile, WriteFileFails, ReserveFails, ReleaseByID, WalkFiles,
          WalkFilesSkips, ReleaseGet, ReleaseUpdate, ReleaseUpdateLost, RemoveFile, ReleaseFails
    <3>3. CASE Acts(p) /\ ~ Works(p)
      BY <3>3, OtherSteps DEF Start, CmdAdd, CmdDel, StartCall, NewMixStore, NewStoreFails, Lock,
          ReturnAdd, ReturnDel, Crash, Exit
    <3> QED
      BY <3>1, <3>2, <3>3
  <2> QED
    BY <2>1 DEF FixedIPs
<1>2. \A n \in Networks : port' \subseteq Subnet[n]
  <2>1. port' = port \/ \E list : list \subseteq seen[p] \cup Subnet[net[p]]
                                  /\ port' = (port \ Subnet[net[p]]) \cup list /\ net[p] \in Networks
    <3>1. CASE Differs(p)
      BY <3>1 DEF Differs, Route!NewMixRouteStore, WalkFiles, Route!removePort,
          Route!removePortLost, Route!PutFixedIPs
    <3>2. CASE Works(p)
      BY <3>2 DEF Works, Reserve, CheckRoom, AddFixedIP, AddFixedIPExhausted, AddFixedIPLost,
          CreateFile, WriteFile, WriteFileFails, ReserveFails, ReleaseByID, WalkFiles,
          WalkFilesSkips, ReleaseGet, ReleaseUpdate, ReleaseUpdateLost, RemoveFile, ReleaseFails,
          PutFixedIPs, Free
    <3>3. CASE Acts(p) /\ ~ Works(p)
      BY <3>3, OtherSteps
    <3> QED
      BY <3>1, <3>2, <3>3
  <2> QED
    BY <2>1 DEF ListsInv, OneNetwork
<1> QED
  BY <1>1, <1>2 DEF ListsInv

LEMMA NextClean ==
  ASSUME OneNetwork, FileInv, FileInv', ListsInv, CleanInv, [ModeNext]_modeVars
  PROVE  CleanInv' /\ ListsInv'
<1>1. CASE UNCHANGED modeVars
  <2>1. UNCHANGED vars
    BY <1>1 DEF modeVars
  <2> QED
    BY <2>1 DEF vars, CleanInv, CleanContainer, CleanProcess, ListsInv, Recorded
<1>2. ASSUME NEW p \in Procs, Acts(p) \/ Differs(p) PROVE CleanInv'
  <2> SUFFICES ASSUME faults' = 0
               PROVE  (\A d \in Containers : CleanContainer(d)') /\ (\A q \in Procs : CleanProcess(q)')
    BY DEF CleanInv
  <2>1. faults = 0
    <3>1. faults' = faults \/ faults' = faults + 1
      <4>1. CASE Acts(p)
        BY <4>1, FaultsGrow DEF FileInv
      <4>2. CASE Differs(p)
        BY <4>2 DEF Differs, Route!NewMixRouteStore, WalkFiles, Route!removePort,
            Route!removePortLost, Route!Fault
      <4> QED
        BY <1>2, <4>1, <4>2
    <3> QED
      BY <3>1 DEF FileInv, TypeOK
  <2>2. (\A d \in Containers : CleanContainer(d)) /\ (\A q \in Procs : CleanProcess(q))
    BY <2>1 DEF CleanInv
  <2>3. \E c \in Containers : Apart(p, c) /\ CleanContainer(c)' /\ CleanProcess(p)'
    <3>1. CASE Acts(p)
      <4>1. PICK c \in Containers : For(p, c)
        BY <3>1, ActsFor DEF FileInv
      <4>2. Apart(p, c)
        BY <3>1, <4>1, MixApart
      <4> QED
        BY <2>1, <2>2, <3>1, <4>1, <4>2, ActsClean
    <3>2. CASE Differs(p)
      <4>1. PICK c \in Containers : Apart(p, c)
        BY <3>2, RouteApart
      <4> QED
        BY <2>1, <2>2, <3>2, <4>1, DiffersClean
    <3> QED
      BY <1>2, <3>1, <3>2
  <2>4. PICK c \in Containers : Apart(p, c) /\ CleanContainer(c)' /\ CleanProcess(p)'
    BY <2>3
  <2>5. /\ \A d \in Containers \ {c} : CleanContainer(d)'
        /\ \A q \in Procs \ {p} : CleanProcess(q)'
    BY <2>2, <2>4, OthersClean
  <2> QED
    BY <2>4, <2>5
<1>3. ASSUME NEW p \in Procs, ModeStep(p) \/ Start(p) \/ Crash(p) PROVE CleanInv' /\ ListsInv'
  <2>1. Acts(p) \/ Differs(p)
    BY <1>3, RouteSteps DEF ModeStep, Acts
  <2> QED
    BY <1>2, <2>1, ListsKept
<1> QED
  BY <1>1, <1>3 DEF ModeNext

\* "Release clears all IPs allocated for the container with given ID", in both
\* modes, on a node with one network: after a DEL that reports success without
\* a fault, the address that ADD returned is off the port.  The stale list of
\* mix-route may put back addresses of other containers, not its own; it can
\* come back only once the lock is free and another DEL writes its list.
THEOREM ReleaseClearsInBoth ==
  ASSUME OneNetwork
  PROVE  ModeSpec => []ReleaseClears
<1>1. FileInv /\ FileInv' /\ CleanInv /\ ListsInv /\ [ModeNext]_modeVars => CleanInv' /\ ListsInv'
  BY NextClean
<1>2. ModeInit => CleanInv /\ ListsInv
  BY InitClean DEF ModeInit
<1>3. FileInv /\ CleanInv => ReleaseClears
  BY DEF FileInv, TypeOK, CleanInv, CleanProcess, ReleaseClears
<1> QED
  BY <1>1, <1>2, <1>3, FilesHold, PTL DEF ModeSpec
=============================================================================
