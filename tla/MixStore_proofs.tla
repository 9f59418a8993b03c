--------------------------- MODULE MixStore_proofs ---------------------------
(***************************************************************************)
(* TLAPS proofs about MixStore, for any number of processes, containers,   *)
(* networks and addresses.                                                 *)
(***************************************************************************)
EXTENDS MixStore, FiniteSetTheorems, TLAPS

(***************************************************************************)
(* The inductive invariant.  LeaseOnPort is not inductive by itself: that  *)
(* an update keeps the other containers' addresses depends on the list it  *)
(* writes back still being the port's (SeenFresh), which depends on the    *)
(* lock (LockHeld) and on what the process has already done (Progress).    *)
(***************************************************************************)
LockHeld == \A p \in Procs : pc[p] \in Locked <=> lock = p

OneCallPerContainer ==
    \A p, q \in Procs :
        pc[p] # "idle" /\ pc[q] # "idle" /\ cid[p] = cid[q] => p = q

TornDown ==
    \A p \in Procs : pc[p] \in Deleting => \A n \in Networks : att[<<cid[p], n>>] # "up"

AddInProgress ==
    \A p \in Procs : pc[p] \in Adding => att[<<cid[p], net[p]>>] = "adding"

SeenFresh ==
    \A p \in Procs :
        pc[p] \in {"addUpdate", "delUpdate"} => seen[p] = FixedIPs(net[p])

RoomLeft ==
    \A p \in Procs : pc[p] = "addUpdate" => ~ IsOverMax(FixedIPs(net[p]))

Progress ==
    \A p \in Procs :
        /\ pc[p] \in {"addOpen", "addWrite", "addOK"} =>
              ip[p] \in FixedIPs(net[p]) /\ \A n \in Networks : ip[p] # HostIP[n]
        /\ pc[p] = "addWrite" => files[ip[p]] = Blank
        /\ pc[p] = "addOK" => files[ip[p]] = cid[p]
        /\ pc[p] \in {"delGet", "delUpdate", "delRemove"} =>
              ip[p] \in IPs /\ files[ip[p]] = cid[p]

HostUnrecorded == \A n \in Networks : HostIP[n] \in port /\ files[HostIP[n]] = None

PortFinite ==
    \A n \in Networks :
        IsFiniteSet(FixedIPs(n)) /\ Cardinality(FixedIPs(n)) <= MAX_IPS

Control == LockHeld /\ OneCallPerContainer /\ TornDown /\ AddInProgress
Data    == SeenFresh /\ Progress /\ HostUnrecorded
Leases  == LeaseOnPort /\ LeaseRecorded
IInv    == TypeOK /\ Control /\ Data /\ Leases

BoundInv == RoomLeft /\ PortFinite

-----------------------------------------------------------------------------
(***************************************************************************)
(* Type correctness                                                        *)
(***************************************************************************)
LEMMA InitTypeOK == Init => TypeOK
  BY ConstantAssumption DEF Init, TypeOK, Labels

LEMMA FaultType == faults \in 0..MaxFaults /\ Fault => faults' \in 0..MaxFaults
  BY ConstantAssumption DEF Fault

LEMMA ExitType ==
  ASSUME TypeOK, NEW p \in Procs, Exit(p)
  PROVE  /\ pc' \in [Procs -> Labels]
         /\ cid' \in [Procs -> Containers \cup {None}]
         /\ net' \in [Procs -> Networks \cup {None}]
         /\ seen' \in [Procs -> SUBSET IPs]
         /\ ip' \in [Procs -> IPs \cup {None}]
         /\ \A q \in Procs : pc'[q] # "idle" => cid'[q] \in Containers /\ net'[q] \in Networks
  BY DEF TypeOK, Exit, Goto, Labels

LEMMA StillDueType ==
  ASSUME TypeOK, NEW p \in Procs, pc[p] # "idle", StillDue(p)
  PROVE  att' \in [Containers \X Networks -> {"none", "adding", "up", "torn"}]
  BY DEF TypeOK, StillDue

LEMMA NextTypeOK ==
  ASSUME TypeOK, [Next]_vars
  PROVE  TypeOK'
<1>1. CASE UNCHANGED vars
  BY <1>1 DEF TypeOK, vars
<1>2. ASSUME NEW p \in Procs, NEW c \in Containers, NEW n \in Networks, CmdAdd(p, c, n)
      PROVE  TypeOK'
  BY <1>2 DEF TypeOK, CmdAdd, StartCall, Goto, Labels, Adding
<1>3. ASSUME NEW p \in Procs, NEW c \in Containers, NEW n \in Networks, CmdDel(p, c, n)
      PROVE  TypeOK'
  BY <1>3 DEF TypeOK, CmdDel, StartCall, Goto, Labels, Deleting
<1>4. ASSUME NEW p \in Procs, NewMixStore(p) PROVE TypeOK'
  BY <1>4 DEF TypeOK, NewMixStore, Goto, Labels, Adding, Deleting, args
<1>5. ASSUME NEW p \in Procs, NewStoreFails(p) PROVE TypeOK'
  <2>1. pc[p] # "idle" /\ Exit(p) /\ StillDue(p) /\ Fault
    BY <1>5 DEF NewStoreFails
  <2> QED
    BY <1>5, <2>1, ExitType, StillDueType, FaultType DEF TypeOK, NewStoreFails
<1>6. ASSUME NEW p \in Procs, Lock(p) PROVE TypeOK'
  BY <1>6 DEF TypeOK, Lock, Goto, Labels, Adding, Deleting, AddLocked, DelLocked, args
<1>7. ASSUME NEW p \in Procs, Reserve(p) PROVE TypeOK'
  <2> USE <1>7 DEF TypeOK, Goto, Labels, Adding, AddLocked, args
  <2>1. CASE CheckRoom(p)
    BY <2>1 DEF CheckRoom, FixedIPs
  <2>2. CASE AddFixedIP(p)
    BY <2>2, ConstantAssumption DEF AddFixedIP, PutFixedIPs, Free, difference
  <2>3. CASE AddFixedIPExhausted(p)
    BY <2>3 DEF AddFixedIPExhausted
  <2>4. CASE AddFixedIPLost(p)
    BY <2>4, FaultType, ConstantAssumption DEF AddFixedIPLost, PutFixedIPs, Free
  <2>5. CASE CreateFile(p)
    BY <2>5 DEF CreateFile
  <2>6. CASE WriteFile(p)
    BY <2>6 DEF WriteFile
  <2>7. CASE WriteFileFails(p)
    BY <2>7, FaultType DEF WriteFileFails
  <2>8. CASE ReserveFails(p)
    BY <2>8, FaultType DEF ReserveFails
  <2> QED
    BY <2>1, <2>2, <2>3, <2>4, <2>5, <2>6, <2>7, <2>8 DEF Reserve
<1>8. ASSUME NEW p \in Procs, ReleaseByID(p) PROVE TypeOK'
  <2> USE <1>8 DEF TypeOK, Goto, Labels, Deleting, DelLocked, args
  <2>1. CASE WalkFiles(p, "delGet")
    BY <2>1 DEF WalkFiles, Recorded
  <2>2. CASE ReleaseGet(p)
    BY <2>2 DEF ReleaseGet, FixedIPs
  <2>3. CASE ReleaseUpdate(p)
    BY <2>3 DEF ReleaseUpdate, PutFixedIPs
  <2>4. CASE ReleaseUpdateLost(p)
    BY <2>4, FaultType DEF ReleaseUpdateLost, PutFixedIPs
  <2>5. CASE RemoveFile(p)
    BY <2>5 DEF RemoveFile
  <2>6. CASE WalkFilesSkips(p) \/ ReleaseFails(p)
    BY <2>6, FaultType DEF WalkFilesSkips, ReleaseFails
  <2> QED
    BY <2>1, <2>2, <2>3, <2>4, <2>5, <2>6 DEF ReleaseByID
<1>9. ASSUME NEW p \in Procs, ReturnAdd(p) PROVE TypeOK'
  <2>1. pc[p] # "idle" /\ Exit(p)
    BY <1>9 DEF ReturnAdd
  <2> QED
    BY <1>9, <2>1, ExitType, StillDueType DEF TypeOK, ReturnAdd
<1>10. ASSUME NEW p \in Procs, ReturnDel(p) PROVE TypeOK'
  <2>1. pc[p] # "idle" /\ Exit(p)
    BY <1>10 DEF ReturnDel
  <2> QED
    BY <1>10, <2>1, ExitType, StillDueType DEF TypeOK, ReturnDel
<1>11. ASSUME NEW p \in Procs, Crash(p) PROVE TypeOK'
  BY <1>11, ExitType, StillDueType, FaultType DEF TypeOK, Crash
<1> QED
  BY <1>1, <1>2, <1>3, <1>4, <1>5, <1>6, <1>7, <1>8, <1>9, <1>10, <1>11
  DEF Next, Start, Step

\* Every variable of the store keeps its type whatever the plugin processes,
\* the runtime and the faults do.
THEOREM TypeCorrect == Spec => []TypeOK
<1>1. TypeOK /\ [Next]_vars => TypeOK'
  BY NextTypeOK
<1> QED
  BY <1>1, InitTypeOK, PTL DEF Spec

-----------------------------------------------------------------------------
(***************************************************************************)
(* Control: the lock, one call per container, containers being deleted     *)
(***************************************************************************)
LEMMA InitControl == Init => Control
  BY ConstantAssumption DEF Init, Control, LockHeld, OneCallPerContainer, TornDown, AddInProgress,
         Locked, AddLocked, DelLocked, Adding, Deleting

\* A step of p that stays inside the critical section.
LEMMA InsideControl ==
  ASSUME TypeOK, Control, NEW p \in Procs, NEW l \in Locked,
         pc[p] \in Locked, pc[p] \in Adding <=> l \in Adding,
         Goto(p, l), UNCHANGED <<lock, args, att>>
  PROVE  Control'
  BY DEF TypeOK, Control, LockHeld, OneCallPerContainer, TornDown, AddInProgress, Goto, args,
         Locked, AddLocked, DelLocked, Adding, Deleting, Labels

\* A step with which p leaves.
LEMMA ExitControl ==
  ASSUME TypeOK, Control, NEW p \in Procs, pc[p] # "idle", Exit(p),
         lock' = IF lock = p THEN None ELSE lock,
         \/ StillDue(p)
         \/ pc[p] \in Adding /\ att' = [att EXCEPT ![<<cid[p], net[p]>>] = "up"]
         \/ att' = [att EXCEPT ![<<cid[p], net[p]>>] = "none"]
  PROVE  Control'
<1>1. LockHeld'
  BY ConstantAssumption DEF TypeOK, Control, LockHeld, Exit, Goto, Locked, AddLocked, DelLocked
<1>2. OneCallPerContainer'
  BY DEF TypeOK, Control, OneCallPerContainer, Exit, Goto
<1>3. TornDown'
  <2> SUFFICES ASSUME NEW q \in Procs, pc'[q] \in Deleting, NEW n \in Networks
               PROVE  att'[<<cid'[q], n>>] # "up"
    BY DEF TornDown
  <2>1. q # p /\ pc'[q] = pc[q] /\ cid'[q] = cid[q]
    BY DEF TypeOK, Exit, Goto, Deleting, DelLocked
  <2>2. cid[q] # cid[p] /\ cid[q] \in Containers /\ cid[p] \in Containers /\ net[p] \in Networks
    BY <2>1 DEF TypeOK, Control, OneCallPerContainer, Deleting, DelLocked
  <2>3. att'[<<cid[q], n>>] = att[<<cid[q], n>>]
    BY <2>2 DEF TypeOK, StillDue
  <2> QED
    BY <2>1, <2>3 DEF Control, TornDown
<1>4. AddInProgress'
  <2> SUFFICES ASSUME NEW q \in Procs, pc'[q] \in Adding
               PROVE  att'[<<cid'[q], net'[q]>>] = "adding"
    BY DEF AddInProgress
  <2>1. q # p /\ pc'[q] = pc[q] /\ cid'[q] = cid[q] /\ net'[q] = net[q]
    BY DEF TypeOK, Exit, Goto, Adding, AddLocked
  <2>2. /\ cid[q] # cid[p] /\ cid[q] \in Containers /\ net[q] \in Networks
        /\ cid[p] \in Containers /\ net[p] \in Networks
    BY <2>1 DEF TypeOK, Control, OneCallPerContainer, Adding, AddLocked
  <2>3. att'[<<cid[q], net[q]>>] = att[<<cid[q], net[q]>>]
    BY <2>2 DEF TypeOK, StillDue
  <2> QED
    BY <2>1, <2>3 DEF Control, AddInProgress
<1> QED
  BY <1>1, <1>2, <1>3, <1>4 DEF Control

LEMMA NextControl ==
  ASSUME TypeOK, Control, [Next]_vars
  PROVE  Control'
<1>1. CASE UNCHANGED vars
  BY <1>1 DEF Control, LockHeld, OneCallPerContainer, TornDown, AddInProgress, vars
<1>2. ASSUME NEW p \in Procs, NEW c \in Containers, NEW n \in Networks, CmdAdd(p, c, n)
      PROVE  Control'
  <2> USE <1>2 DEF CmdAdd, StartCall, Goto, TypeOK, Control
  <2>1. LockHeld'
    BY DEF LockHeld, Locked, AddLocked, DelLocked
  <2>2. OneCallPerContainer'
    BY DEF OneCallPerContainer, NotBusy
  <2>3. TornDown'
    BY DEF TornDown, NotBusy, Deleting, DelLocked
  <2>4. AddInProgress'
    BY DEF AddInProgress, NotBusy, Adding, AddLocked
  <2> QED
    BY <2>1, <2>2, <2>3, <2>4
<1>3. ASSUME NEW p \in Procs, NEW c \in Containers, NEW n \in Networks, CmdDel(p, c, n)
      PROVE  Control'
  <2> USE <1>3 DEF CmdDel, StartCall, Goto, TypeOK, Control
  <2>1. LockHeld'
    BY DEF LockHeld, Locked, AddLocked, DelLocked
  <2>2. OneCallPerContainer'
    BY DEF OneCallPerContainer, NotBusy
  <2>3. TornDown'
    BY DEF TornDown, NotBusy, Deleting, DelLocked
  <2>4. AddInProgress'
    BY DEF AddInProgress, NotBusy, Adding, AddLocked
  <2> QED
    BY <2>1, <2>2, <2>3, <2>4
<1>4. ASSUME NEW p \in Procs, NewMixStore(p) PROVE Control'
  BY <1>4 DEF NewMixStore, Goto, args, TypeOK, Control, LockHeld, OneCallPerContainer,
              TornDown, AddInProgress, Locked, AddLocked, DelLocked, Adding, Deleting
<1>5. ASSUME NEW p \in Procs, NewStoreFails(p) PROVE Control'
  <2>1. lock' = IF lock = p THEN None ELSE lock
    BY <1>5 DEF NewStoreFails, Control, LockHeld, Locked, AddLocked, DelLocked
  <2> QED
    BY <1>5, <2>1, ExitControl DEF NewStoreFails
<1>6. ASSUME NEW p \in Procs, Lock(p) PROVE Control'
  <2> USE <1>6, ConstantAssumption DEF Lock, Goto, args, TypeOK, Control
  <2>1. LockHeld'
    BY DEF LockHeld, Locked, AddLocked, DelLocked
  <2>2. OneCallPerContainer'
    BY DEF OneCallPerContainer
  <2>3. TornDown'
    BY DEF TornDown, Deleting, DelLocked
  <2>4. AddInProgress'
    BY DEF AddInProgress, Adding, AddLocked
  <2> QED
    BY <2>1, <2>2, <2>3, <2>4
<1>7. ASSUME NEW p \in Procs, Reserve(p) PROVE Control'
  <2>1. PICK l \in AddLocked : pc[p] \in AddLocked /\ Goto(p, l) /\ UNCHANGED <<lock, args, att>>
    BY <1>7 DEF Reserve, CheckRoom, AddFixedIP, AddFixedIPExhausted, AddFixedIPLost,
                CreateFile, WriteFile, WriteFileFails, ReserveFails, AddLocked
  <2> QED
    BY <2>1, InsideControl DEF Locked, Adding
<1>8. ASSUME NEW p \in Procs, ReleaseByID(p) PROVE Control'
  <2>1. PICK l \in DelLocked : pc[p] \in DelLocked /\ Goto(p, l) /\ UNCHANGED <<lock, args, att>>
    BY <1>8 DEF ReleaseByID, WalkFiles, WalkFilesSkips, ReleaseGet, ReleaseUpdate,
        ReleaseUpdateLost,
                RemoveFile, ReleaseFails, DelLocked
  <2> QED
    BY <2>1, InsideControl DEF Locked, Adding, AddLocked, DelLocked
<1>9. ASSUME NEW p \in Procs, ReturnAdd(p) PROVE Control'
  <2>1. lock' = IF lock = p THEN None ELSE lock
    BY <1>9 DEF ReturnAdd, Control, LockHeld, Locked, AddLocked
  <2> QED
    BY <1>9, <2>1, ExitControl DEF ReturnAdd, Adding, AddLocked
<1>10. ASSUME NEW p \in Procs, ReturnDel(p) PROVE Control'
  <2>1. lock' = IF lock = p THEN None ELSE lock
    BY <1>10 DEF ReturnDel, Control, LockHeld, Locked, DelLocked
  <2> QED
    BY <1>10, <2>1, ExitControl DEF ReturnDel
<1>11. ASSUME NEW p \in Procs, Crash(p) PROVE Control'
  BY <1>11, ExitControl DEF Crash
<1> QED
  BY <1>1, <1>2, <1>3, <1>4, <1>5, <1>6, <1>7, <1>8, <1>9, <1>10, <1>11
  DEF Next, Start, Step

-----------------------------------------------------------------------------
(***************************************************************************)
(* What the two updates do to the ports                                    *)
(***************************************************************************)
\* Writing back the current list and one free address adds that address.
LEMMA PutAdds ==
  ASSUME NEW n \in Networks, NEW a \in Subnet[n], NEW list, list = FixedIPs(n),
         PutFixedIPs(n, list \cup {a})
  PROVE  port' = port \cup {a}
  BY DEF PutFixedIPs, FixedIPs

\* Writing back the current list without an address takes away no other.
LEMMA PutRemoves ==
  ASSUME NEW n \in Networks, NEW a, NEW list, list = FixedIPs(n),
         PutFixedIPs(n, list \ {a})
  PROVE  port' \subseteq port /\ port \ port' \subseteq {a}
  BY DEF PutFixedIPs, FixedIPs

\* Both updates of Reserve, the lost one too, add one free address.
LEMMA ReserveAdds ==
  ASSUME IInv, NEW p \in Procs, pc[p] = "addUpdate",
         NEW a \in Free(net[p]), PutFixedIPs(net[p], seen[p] \cup {a})
  PROVE  port' = port \cup {a} /\ a \in Subnet[net[p]] \ port /\ a \in IPs
<1>1. net[p] \in Networks /\ a \in Subnet[net[p]] \ port
  BY DEF IInv, TypeOK, Free
<1>2. seen[p] = FixedIPs(net[p])
  BY DEF IInv, Data, SeenFresh
<1> QED
  BY <1>1, <1>2, PutAdds, ConstantAssumption

\* Both updates of ReleaseByID remove at most the container's own address.
LEMMA ReleaseRemoves ==
  ASSUME IInv, NEW p \in Procs, ReleaseUpdate(p) \/ ReleaseUpdateLost(p)
  PROVE  /\ port' \subseteq port
         /\ port \ port' \subseteq {ip[p]}
         /\ ip[p] \in IPs /\ files[ip[p]] = cid[p] /\ cid[p] \in Containers
         /\ \A n \in Networks : att[<<cid[p], n>>] # "up"
<1>1. pc[p] = "delUpdate" /\ net[p] \in Networks /\ cid[p] \in Containers
      /\ PutFixedIPs(net[p], seen[p] \ {ip[p]})
  BY DEF ReleaseUpdate, ReleaseUpdateLost, IInv, TypeOK
<1>2. seen[p] = FixedIPs(net[p]) /\ ip[p] \in IPs /\ files[ip[p]] = cid[p]
  BY <1>1 DEF IInv, Data, SeenFresh, Progress
<1>3. \A n \in Networks : att[<<cid[p], n>>] # "up"
  BY <1>1 DEF IInv, Control, TornDown, Deleting, DelLocked
<1> QED
  BY <1>1, <1>2, <1>3, PutRemoves

-----------------------------------------------------------------------------
(***************************************************************************)
(* Data: what a process inside the critical section knows                  *)
(***************************************************************************)
LEMMA InitData == Init => Data
  BY ConstantAssumption DEF Init, Data, SeenFresh, Progress, HostUnrecorded

\* Control points at which Data says something about the process.
Informed == {"addUpdate", "addOpen", "addWrite", "addOK", "delGet", "delUpdate", "delRemove"}

\* A step that touches neither ports nor files and informs no process.
LEMMA QuietData ==
  ASSUME TypeOK, Data, NEW p \in Procs, UNCHANGED <<port, files>>,
         pc'[p] \notin Informed,
         \A q \in Procs \ {p} : /\ pc'[q] = pc[q] /\ seen'[q] = seen[q] /\ ip'[q] = ip[q]
                                /\ net'[q] = net[q] /\ cid'[q] = cid[q]
  PROVE  Data'
<1>1. SeenFresh'
  BY DEF Data, SeenFresh, FixedIPs, Informed
<1>2. Progress'
  BY DEF Data, Progress, FixedIPs, Informed
<1>3. HostUnrecorded'
  BY DEF Data, HostUnrecorded
<1> QED
  BY <1>1, <1>2, <1>3 DEF Data

\* While p is inside the critical section no other process is.
LEMMA Alone ==
  ASSUME TypeOK, Control, NEW p \in Procs, pc[p] \in Locked, NEW q \in Procs, q # p
  PROVE  pc[q] \notin Informed
  BY DEF Control, LockHeld, Locked, AddLocked, DelLocked, Informed

\* What Data says about one process.
Knows(p) ==
    /\ pc[p] \in {"addUpdate", "delUpdate"} => seen[p] = FixedIPs(net[p])
    /\ pc[p] \in {"addOpen", "addWrite", "addOK"} =>
          ip[p] \in FixedIPs(net[p]) /\ \A n \in Networks : ip[p] # HostIP[n]
    /\ pc[p] = "addWrite" => files[ip[p]] = Blank
    /\ pc[p] = "addOK" => files[ip[p]] = cid[p]
    /\ pc[p] \in {"delGet", "delUpdate", "delRemove"} =>
          ip[p] \in IPs /\ files[ip[p]] = cid[p]

\* A step inside the critical section only has to re-establish Data for the
\* process that takes it.
LEMMA InsideData ==
  ASSUME TypeOK, Control, NEW p \in Procs, NEW l, pc[p] \in Locked, Goto(p, l),
         Knows(p)', HostUnrecorded'
  PROVE  Data'
<1>1. \A q \in Procs \ {p} : pc'[q] \notin Informed
  BY Alone DEF TypeOK, Goto
<1>2. \A q \in Procs : Knows(q)'
  BY <1>1 DEF Knows, Informed
<1> QED
  BY <1>2 DEF Data, SeenFresh, Progress, Knows

LEMMA ReserveData ==
  ASSUME IInv, NEW p \in Procs, Reserve(p)
  PROVE  Data'
<1> USE DEF IInv
<1>1. CASE CheckRoom(p)
  <2>1. PICK l \in {"addErr", "addUpdate"} : Goto(p, l)
    BY <1>1 DEF CheckRoom
  <2>2. Knows(p)'
    BY <1>1 DEF CheckRoom, Knows, Goto, TypeOK, FixedIPs, args
  <2>3. HostUnrecorded'
    BY <1>1 DEF CheckRoom, Data, HostUnrecorded
  <2> QED
    BY <1>1, <2>1, <2>2, <2>3, InsideData DEF CheckRoom, Locked, AddLocked
<1>2. CASE AddFixedIP(p)
  <2>1. PICK a \in Free(net[p]) :
           /\ PutFixedIPs(net[p], seen[p] \cup {a})
           /\ \E newIP \in difference(seen[p], seen[p] \cup {a}) : ip' = [ip EXCEPT ![p] = newIP]
    BY <1>2 DEF AddFixedIP
  <2>2. ip'[p] = a
    BY <2>1 DEF difference, TypeOK
  <2>3. port' = port \cup {a} /\ a \in Subnet[net[p]] \ port
    BY <1>2, <2>1, ReserveAdds DEF AddFixedIP
  <2>4. HostUnrecorded'
    BY <1>2, <2>3 DEF AddFixedIP, Data, HostUnrecorded
  <2>5. Knows(p)'
    BY <1>2, <2>2, <2>3 DEF AddFixedIP, Knows, Goto, TypeOK, FixedIPs, args, Data, HostUnrecorded
  <2> QED
    BY <1>2, <2>4, <2>5, InsideData DEF AddFixedIP, Locked, AddLocked
<1>3. CASE AddFixedIPLost(p)
  <2>1. PICK a \in Free(net[p]) : PutFixedIPs(net[p], seen[p] \cup {a})
    BY <1>3 DEF AddFixedIPLost
  <2>2. port' = port \cup {a}
    BY <1>3, <2>1, ReserveAdds DEF AddFixedIPLost
  <2>3. HostUnrecorded'
    BY <1>3, <2>2 DEF AddFixedIPLost, Data, HostUnrecorded
  <2>4. Knows(p)'
    BY <1>3 DEF AddFixedIPLost, Knows, Goto, TypeOK
  <2> QED
    BY <1>3, <2>3, <2>4, InsideData DEF AddFixedIPLost, Locked, AddLocked
<1>4. CASE CreateFile(p)
  <2>1. PICK l \in {"addErr", "addWrite"} : Goto(p, l)
    BY <1>4 DEF CreateFile
  <2>2. ip[p] \in FixedIPs(net[p]) /\ ip[p] \in IPs /\ \A n \in Networks : ip[p] # HostIP[n]
    BY <1>4 DEF CreateFile, Data, Progress, TypeOK, FixedIPs
  <2>3. HostUnrecorded'
    BY <1>4, <2>2, ConstantAssumption DEF CreateFile, Data, HostUnrecorded, TypeOK
  <2>4. Knows(p)'
    BY <1>4, <2>2 DEF CreateFile, Knows, Goto, TypeOK, FixedIPs, args
  <2> QED
    BY <1>4, <2>1, <2>3, <2>4, InsideData DEF CreateFile, Locked, AddLocked
<1>5. CASE WriteFile(p) \/ WriteFileFails(p)
  <2>1. PICK l \in {"addErr", "addOK"} : pc[p] = "addWrite" /\ Goto(p, l)
    BY <1>5 DEF WriteFile, WriteFileFails
  <2>2. ip[p] \in FixedIPs(net[p]) /\ ip[p] \in IPs /\ \A n \in Networks : ip[p] # HostIP[n]
    BY <2>1 DEF Data, Progress, TypeOK, FixedIPs
  <2>3. HostUnrecorded'
    BY <1>5, <2>2, ConstantAssumption DEF WriteFile, WriteFileFails, Data, HostUnrecorded, TypeOK
  <2>4. Knows(p)'
    BY <1>5, <2>2 DEF WriteFile, WriteFileFails, Knows, Goto, TypeOK, FixedIPs, args
  <2> QED
    BY <2>1, <2>3, <2>4, InsideData DEF Locked, AddLocked
<1>6. CASE AddFixedIPExhausted(p) \/ ReserveFails(p)
  <2>1. pc[p] \in Locked /\ Goto(p, "addErr") /\ UNCHANGED <<port, files>>
    BY <1>6 DEF AddFixedIPExhausted, ReserveFails, Locked, AddLocked
  <2>2. HostUnrecorded'
    BY <2>1 DEF Data, HostUnrecorded
  <2>3. Knows(p)'
    BY <2>1 DEF Knows, Goto, TypeOK
  <2> QED
    BY <2>1, <2>2, <2>3, InsideData
<1> QED
  BY <1>1, <1>2, <1>3, <1>4, <1>5, <1>6 DEF Reserve

LEMMA ReleaseData ==
  ASSUME IInv, NEW p \in Procs, ReleaseByID(p)
  PROVE  Data'
<1> USE DEF IInv
<1>1. CASE WalkFiles(p, "delGet")
  <2>1. PICK l \in {"delOK", "delGet"} : Goto(p, l)
    BY <1>1 DEF WalkFiles
  <2>2. HostUnrecorded'
    BY <1>1 DEF WalkFiles, Data, HostUnrecorded
  <2>3. Knows(p)'
    BY <1>1 DEF WalkFiles, Knows, Goto, TypeOK, Recorded, args
  <2> QED
    BY <1>1, <2>1, <2>2, <2>3, InsideData DEF WalkFiles, Locked, DelLocked
<1>2. CASE ReleaseGet(p)
  <2>1. PICK l \in {"delUpdate", "delRemove"} : Goto(p, l)
    BY <1>2 DEF ReleaseGet
  <2>2. HostUnrecorded'
    BY <1>2 DEF ReleaseGet, Data, HostUnrecorded
  <2>3. Knows(p)'
    BY <1>2 DEF ReleaseGet, Knows, Goto, TypeOK, FixedIPs, args, Data, Progress
  <2> QED
    BY <1>2, <2>1, <2>2, <2>3, InsideData DEF ReleaseGet, Locked, DelLocked
<1>3. CASE ReleaseUpdate(p) \/ ReleaseUpdateLost(p)
  <2>1. PICK l \in {"delRemove", "delErr"} : pc[p] = "delUpdate" /\ Goto(p, l)
    BY <1>3 DEF ReleaseUpdate, ReleaseUpdateLost
  <2>2. HostUnrecorded'
    <3>1. \A n \in Networks : HostIP[n] \in IPs /\ HostIP[n] # ip[p]
      BY <1>3, ReleaseRemoves, ConstantAssumption DEF Data, HostUnrecorded
    <3> QED
      BY <1>3, <3>1, ReleaseRemoves DEF ReleaseUpdate, ReleaseUpdateLost, Data, HostUnrecorded
  <2>3. Knows(p)'
    BY <1>3 DEF ReleaseUpdate, ReleaseUpdateLost, Knows, Goto, TypeOK, args, Data, Progress
  <2> QED
    BY <2>1, <2>2, <2>3, InsideData DEF Locked, DelLocked
<1>4. CASE RemoveFile(p)
  <2>1. pc[p] \in Locked /\ Goto(p, "delOK")
    BY <1>4 DEF RemoveFile, Locked, DelLocked
  <2>2. HostUnrecorded'
    BY <1>4, ConstantAssumption DEF RemoveFile, Data, HostUnrecorded, TypeOK
  <2>3. Knows(p)'
    BY <1>4 DEF RemoveFile, Knows, Goto, TypeOK
  <2> QED
    BY <2>1, <2>2, <2>3, InsideData
<1>5. CASE WalkFilesSkips(p) \/ ReleaseFails(p)
  <2>1. PICK l \in {"delOK", "delErr"} : pc[p] \in Locked /\ Goto(p, l)
    BY <1>5 DEF WalkFilesSkips, ReleaseFails, Locked, DelLocked
  <2>2. HostUnrecorded'
    BY <1>5 DEF WalkFilesSkips, ReleaseFails, Data, HostUnrecorded
  <2>3. Knows(p)'
    BY <1>5 DEF WalkFilesSkips, ReleaseFails, Knows, Goto, TypeOK
  <2> QED
    BY <2>1, <2>2, <2>3, InsideData
<1> QED
  BY <1>1, <1>2, <1>3, <1>4, <1>5 DEF ReleaseByID

\* Everything but Reserve and ReleaseByID leaves the ports and the files alone.
LEMMA OutsideData ==
  ASSUME IInv, NEW p \in Procs,
         \/ Start(p) \/ NewMixStore(p) \/ NewStoreFails(p) \/ Lock(p)
         \/ ReturnAdd(p) \/ ReturnDel(p) \/ Crash(p)
  PROVE  Data'
<1> USE DEF IInv, TypeOK, Goto
<1>1. UNCHANGED <<port, files>> /\ pc'[p] \notin Informed
  <2>1. CASE Start(p)
    BY <2>1 DEF Start, CmdAdd, CmdDel, StartCall, Informed
  <2>2. CASE NewMixStore(p) \/ Lock(p)
    BY <2>2 DEF NewMixStore, Lock, Informed
  <2>3. CASE NewStoreFails(p) \/ ReturnAdd(p) \/ ReturnDel(p) \/ Crash(p)
    BY <2>3 DEF NewStoreFails, ReturnAdd, ReturnDel, Crash, Exit, Informed
  <2> QED
    BY <2>1, <2>2, <2>3
<1>2. \A q \in Procs \ {p} : /\ pc'[q] = pc[q] /\ seen'[q] = seen[q] /\ ip'[q] = ip[q]
                             /\ net'[q] = net[q] /\ cid'[q] = cid[q]
  <2>1. CASE Start(p)
    BY <2>1 DEF Start, CmdAdd, CmdDel, StartCall
  <2>2. CASE NewMixStore(p) \/ Lock(p)
    BY <2>2 DEF NewMixStore, Lock, args
  <2>3. CASE NewStoreFails(p) \/ ReturnAdd(p) \/ ReturnDel(p) \/ Crash(p)
    <3>1. Exit(p)
      BY <2>3 DEF NewStoreFails, ReturnAdd, ReturnDel, Crash
    <3> QED
      BY <3>1 DEF Exit
  <2> QED
    BY <2>1, <2>2, <2>3
<1> QED
  BY <1>1, <1>2, QuietData DEF IInv

-----------------------------------------------------------------------------
(***************************************************************************)
(* Leases: the addresses of running containers                             *)
(***************************************************************************)
\* A step that makes no container run keeps Leases if it keeps the addresses
\* of the running ones on their ports and their files as they are.
LEMMA LeasesKept ==
  ASSUME TypeOK, Leases,
         \A c \in Containers, n \in Networks : att'[<<c, n>>] = "up" =>
            /\ att[<<c, n>>] = "up"
            /\ lease'[<<c, n>>] = lease[<<c, n>>]
            /\ lease[<<c, n>>] \in port'
            /\ files'[lease[<<c, n>>]] = files[lease[<<c, n>>]]
  PROVE  Leases'
  BY DEF Leases, LeaseOnPort, LeaseRecorded, FixedIPs

LEMMA ReserveLeases ==
  ASSUME IInv, NEW p \in Procs, Reserve(p)
  PROVE  Leases'
<1> USE DEF IInv
<1>1. UNCHANGED <<att, lease>>
  BY DEF Reserve, CheckRoom, AddFixedIP, AddFixedIPExhausted, AddFixedIPLost,
         CreateFile, WriteFile, WriteFileFails, ReserveFails
<1>2. port \subseteq port'
  <2>1. CASE \E a \in Free(net[p]) : pc[p] = "addUpdate" /\ PutFixedIPs(net[p], seen[p] \cup {a})
    BY <2>1, ReserveAdds
  <2> QED
    BY <2>1 DEF Reserve, CheckRoom, AddFixedIP, AddFixedIPExhausted, AddFixedIPLost,
                CreateFile, WriteFile, WriteFileFails, ReserveFails
<1>3. \A a \in IPs : files[a] \in Containers => files'[a] = files[a]
  <2>1. CASE CreateFile(p)
    BY <2>1, ConstantAssumption DEF CreateFile, TypeOK
  <2>2. CASE WriteFile(p) \/ WriteFileFails(p)
    <3>1. pc[p] = "addWrite" /\ files[ip[p]] = Blank
      BY <2>2 DEF WriteFile, WriteFileFails, Data, Progress
    <3> QED
      BY <2>2, <3>1, ConstantAssumption DEF WriteFile, WriteFileFails, TypeOK
  <2>3. CASE UNCHANGED files
    BY <2>3
  <2> QED
    BY <2>1, <2>2, <2>3 DEF Reserve, CheckRoom, AddFixedIP, AddFixedIPExhausted,
                            AddFixedIPLost, ReserveFails
<1> QED
  BY <1>1, <1>2, <1>3, LeasesKept DEF Leases, LeaseOnPort, LeaseRecorded, FixedIPs

LEMMA ReleaseLeases ==
  ASSUME IInv, NEW p \in Procs, ReleaseByID(p)
  PROVE  Leases'
<1> USE DEF IInv
<1>1. UNCHANGED <<att, lease>>
  BY DEF ReleaseByID, WalkFiles, WalkFilesSkips, ReleaseGet, ReleaseUpdate, ReleaseUpdateLost,
         RemoveFile, ReleaseFails
<1>2. CASE ReleaseUpdate(p) \/ ReleaseUpdateLost(p)
  <2>1. UNCHANGED files
    BY <1>2 DEF ReleaseUpdate, ReleaseUpdateLost
  <2>2. \A c \in Containers, n \in Networks : att[<<c, n>>] = "up" => lease[<<c, n>>] # ip[p]
    BY <1>2, ReleaseRemoves DEF Leases, LeaseRecorded
  <2> QED
    BY <1>1, <1>2, <2>1, <2>2, ReleaseRemoves, LeasesKept DEF Leases, LeaseOnPort, FixedIPs
<1>3. CASE RemoveFile(p)
  <2>1. pc[p] = "delRemove" /\ cid[p] \in Containers /\ files[ip[p]] = cid[p]
    BY <1>3 DEF RemoveFile, TypeOK, Data, Progress
  <2>2. \A n \in Networks : att[<<cid[p], n>>] # "up"
    BY <2>1 DEF Control, TornDown, Deleting, DelLocked
  <2>3. \A c \in Containers, n \in Networks : att[<<c, n>>] = "up" => lease[<<c, n>>] # ip[p]
    BY <2>1, <2>2 DEF Leases, LeaseRecorded
  <2>4. \A c \in Containers, n \in Networks : att[<<c, n>>] = "up" =>
           files'[lease[<<c, n>>]] = files[lease[<<c, n>>]]
    BY <1>3, <2>3 DEF RemoveFile, TypeOK, Leases, LeaseRecorded
  <2> QED
    BY <1>1, <1>3, <2>4, LeasesKept DEF RemoveFile, Leases, LeaseOnPort, FixedIPs
<1>4. CASE UNCHANGED <<port, files>>
  BY <1>1, <1>4, LeasesKept DEF Leases, LeaseOnPort, FixedIPs
<1> QED
  BY <1>2, <1>3, <1>4 DEF ReleaseByID, WalkFiles, WalkFilesSkips, ReleaseGet, ReleaseFails

\* ReturnAdd makes a container run: Progress says what its address is.
LEMMA ReturnAddLeases ==
  ASSUME IInv, NEW p \in Procs, ReturnAdd(p)
  PROVE  Leases'
<1> USE DEF IInv
<1>1. pc[p] # "idle" /\ cid[p] \in Containers /\ net[p] \in Networks /\ UNCHANGED <<port, files>>
  BY DEF ReturnAdd, TypeOK
<1>2. CASE pc[p] = "addOK"
  <2>1. ip[p] \in FixedIPs(net[p]) /\ ip[p] \in IPs /\ files[ip[p]] = cid[p]
    BY <1>2 DEF Data, Progress, TypeOK, FixedIPs
  <2>2. /\ att' = [att EXCEPT ![<<cid[p], net[p]>>] = "up"]
        /\ lease' = [lease EXCEPT ![<<cid[p], net[p]>>] = ip[p]]
    BY <1>2 DEF ReturnAdd
  <2>3. ASSUME NEW c \in Containers, NEW n \in Networks, att'[<<c, n>>] = "up"
        PROVE  /\ lease'[<<c, n>>] \in FixedIPs(n)' /\ lease'[<<c, n>>] \in IPs
               /\ files'[lease'[<<c, n>>]] = c
    <3>1. CASE c = cid[p] /\ n = net[p]
      BY <1>1, <2>1, <2>2, <3>1 DEF TypeOK, FixedIPs
    <3>2. CASE <<c, n>> # <<cid[p], net[p]>>
      BY <1>1, <2>2, <2>3, <3>2 DEF TypeOK, FixedIPs, Leases, LeaseOnPort, LeaseRecorded
    <3> QED
      BY <3>1, <3>2
  <2> QED
    BY <2>3 DEF Leases, LeaseOnPort, LeaseRecorded
<1>3. CASE pc[p] = "addErr"
  <2>1. StillDue(p) /\ UNCHANGED lease
    BY <1>3 DEF ReturnAdd
  <2> QED
    BY <1>1, <2>1, LeasesKept DEF StillDue, TypeOK, Leases, LeaseOnPort, FixedIPs
<1> QED
  BY <1>2, <1>3 DEF ReturnAdd

\* No other step outside the stores makes a container run.
LEMMA OutsideLeases ==
  ASSUME IInv, NEW p \in Procs,
         \/ Start(p) \/ NewMixStore(p) \/ NewStoreFails(p) \/ Lock(p)
         \/ ReturnDel(p) \/ Crash(p)
  PROVE  Leases'
<1> USE DEF IInv
<1>1. UNCHANGED <<port, files>>
  BY DEF Start, CmdAdd, CmdDel, StartCall, NewMixStore, NewStoreFails, Lock, ReturnDel, Crash
<1>2. \A c \in Containers, n \in Networks : att'[<<c, n>>] = "up" =>
         att[<<c, n>>] = "up" /\ lease'[<<c, n>>] = lease[<<c, n>>]
  <2>1. CASE \E c \in Containers, n \in Networks : CmdAdd(p, c, n)
    BY <2>1 DEF CmdAdd, StartCall, TypeOK
  <2>2. CASE \E c \in Containers, n \in Networks : CmdDel(p, c, n)
    BY <2>2 DEF CmdDel, StartCall, TypeOK
  <2>3. CASE NewMixStore(p) \/ Lock(p)
    BY <2>3 DEF NewMixStore, Lock
  <2>4. CASE NewStoreFails(p) \/ Crash(p)
    <3>1. StillDue(p) /\ UNCHANGED lease /\ cid[p] \in Containers /\ net[p] \in Networks
      BY <2>4 DEF NewStoreFails, Crash, TypeOK
    <3> QED
      BY <3>1 DEF StillDue, TypeOK
  <2>5. CASE ReturnDel(p)
    <3>1. cid[p] \in Containers /\ net[p] \in Networks
      BY <2>5 DEF ReturnDel, TypeOK
    <3> QED
      BY <2>5, <3>1 DEF ReturnDel, StillDue, TypeOK
  <2> QED
    BY <2>1, <2>2, <2>3, <2>4, <2>5 DEF Start
<1> QED
  BY <1>1, <1>2, LeasesKept DEF Leases, LeaseOnPort, FixedIPs

-----------------------------------------------------------------------------
LEMMA InitIInv == Init => IInv
  BY InitTypeOK, InitControl, InitData
  DEF Init, IInv, Leases, LeaseOnPort, LeaseRecorded

LEMMA NextIInv ==
  ASSUME IInv, [Next]_vars
  PROVE  IInv'
<1>1. TypeOK' /\ Control'
  BY NextTypeOK, NextControl DEF IInv
<1>2. CASE UNCHANGED vars
  BY <1>1, <1>2 DEF IInv, Data, SeenFresh, Progress, HostUnrecorded, Leases, LeaseOnPort,
                    LeaseRecorded, FixedIPs, vars
<1>3. ASSUME NEW p \in Procs, Start(p) \/ Step(p) \/ Crash(p)
      PROVE  Data' /\ Leases'
  <2>1. CASE Reserve(p)
    BY <2>1, ReserveData, ReserveLeases
  <2>2. CASE ReleaseByID(p)
    BY <2>2, ReleaseData, ReleaseLeases
  <2>3. CASE ReturnAdd(p)
    BY <2>3, OutsideData, ReturnAddLeases
  <2> QED
    BY <1>3, <2>1, <2>2, <2>3, OutsideData, OutsideLeases DEF Step
<1> QED
  BY <1>1, <1>2, <1>3 DEF IInv, Next

LEMMA Inductive == Spec => []IInv
<1>1. IInv /\ [Next]_vars => IInv'
  BY NextIInv
<1> QED
  BY <1>1, InitIInv, PTL DEF Spec

\* Whatever other calls, faults and crashes happen, the address of a running
\* container stays on the host port of its network.
THEOREM LeaseOnPortHolds == Spec => []LeaseOnPort
<1>1. IInv => LeaseOnPort
  BY DEF IInv, Leases
<1> QED
  BY <1>1, Inductive, PTL

\* ... and the file of that address keeps naming the container.
THEOREM LeaseRecordedHolds == Spec => []LeaseRecorded
<1>1. IInv => LeaseRecorded
  BY DEF IInv, Leases
<1> QED
  BY <1>1, Inductive, PTL

-----------------------------------------------------------------------------
(***************************************************************************)
(* The bound on the fixed IPs of a port                                    *)
(***************************************************************************)
LEMMA InitBound == Init => BoundInv
<1> SUFFICES ASSUME Init PROVE BoundInv
  OBVIOUS
<1>1. RoomLeft
  BY DEF Init, RoomLeft
<1>2. ASSUME NEW n \in Networks
      PROVE  IsFiniteSet(FixedIPs(n)) /\ Cardinality(FixedIPs(n)) <= MAX_IPS
  <2>1. FixedIPs(n) = {HostIP[n]}
    BY ConstantAssumption DEF Init, FixedIPs
  <2>2. IsFiniteSet({HostIP[n]}) /\ Cardinality({HostIP[n]}) = 1
    BY FS_Singleton, Zenon
  <2> QED
    BY <2>1, <2>2, ConstantAssumption
<1> QED
  BY <1>1, <1>2 DEF BoundInv, PortFinite

\* Adding one address to a port with room keeps the bound.
LEMMA AddKeepsBound ==
  ASSUME IInv, BoundInv, NEW p \in Procs, pc[p] = "addUpdate",
         NEW a \in Free(net[p]), PutFixedIPs(net[p], seen[p] \cup {a})
  PROVE  PortFinite'
<1>1. port' = port \cup {a} /\ a \in Subnet[net[p]] \ port /\ net[p] \in Networks
  BY ReserveAdds DEF IInv, TypeOK
<1> SUFFICES ASSUME NEW n \in Networks
             PROVE  IsFiniteSet(FixedIPs(n)') /\ Cardinality(FixedIPs(n)') <= MAX_IPS
  BY DEF PortFinite
<1>2. IsFiniteSet(FixedIPs(n)) /\ Cardinality(FixedIPs(n)) <= MAX_IPS
  BY DEF BoundInv, PortFinite
<1>3. CASE n = net[p]
  <2>1. FixedIPs(n)' = FixedIPs(n) \cup {a} /\ a \notin FixedIPs(n)
    BY <1>1, <1>3 DEF FixedIPs
  <2>2. ~ (Cardinality(FixedIPs(n)) >= MAX_IPS)
    BY <1>3 DEF BoundInv, RoomLeft, IsOverMax
  <2>3. Cardinality(FixedIPs(n)) \in Nat
    BY <1>2, FS_CardinalityType
  <2>4. IsFiniteSet(FixedIPs(n)') /\ Cardinality(FixedIPs(n)') = Cardinality(FixedIPs(n)) + 1
    BY <1>2, <2>1, FS_AddElement
  <2> QED
    BY <2>2, <2>3, <2>4, ConstantAssumption
<1>4. CASE n # net[p]
  <2>1. FixedIPs(n)' = FixedIPs(n)
    BY <1>1, <1>4, ConstantAssumption DEF FixedIPs
  <2> QED
    BY <1>2, <2>1
<1> QED
  BY <1>3, <1>4

\* So does taking addresses off.
LEMMA ShrinkKeepsBound ==
  ASSUME BoundInv, port' \subseteq port
  PROVE  PortFinite'
<1> SUFFICES ASSUME NEW n \in Networks
             PROVE  IsFiniteSet(FixedIPs(n)') /\ Cardinality(FixedIPs(n)') <= MAX_IPS
  BY DEF PortFinite
<1>1. IsFiniteSet(FixedIPs(n)) /\ Cardinality(FixedIPs(n)) <= MAX_IPS
  BY DEF BoundInv, PortFinite
<1>2. FixedIPs(n)' \subseteq FixedIPs(n)
  BY DEF FixedIPs
<1>3. /\ IsFiniteSet(FixedIPs(n)')
      /\ Cardinality(FixedIPs(n)') <= Cardinality(FixedIPs(n))
  BY <1>1, <1>2, FS_Subset
<1>4. Cardinality(FixedIPs(n)) \in Nat /\ Cardinality(FixedIPs(n)') \in Nat
  BY <1>1, <1>3, FS_CardinalityType
<1> QED
  BY <1>1, <1>3, <1>4, ConstantAssumption

LEMMA NextBound ==
  ASSUME IInv, BoundInv, [Next]_vars
  PROVE  BoundInv'
<1>1. PortFinite'
  <2>1. CASE \E p \in Procs : \E a \in Free(net[p]) :
                pc[p] = "addUpdate" /\ PutFixedIPs(net[p], seen[p] \cup {a})
    BY <2>1, AddKeepsBound
  <2>2. CASE \E p \in Procs : ReleaseUpdate(p) \/ ReleaseUpdateLost(p)
    BY <2>2, ReleaseRemoves, ShrinkKeepsBound
  <2>3. CASE UNCHANGED port
    BY <2>3, ShrinkKeepsBound
  <2>4. ASSUME NEW p \in Procs,
               \/ Start(p) \/ NewMixStore(p) \/ NewStoreFails(p) \/ Lock(p)
               \/ ReturnAdd(p) \/ ReturnDel(p) \/ Crash(p)
        PROVE  UNCHANGED port
    BY <2>4 DEF Start, CmdAdd, CmdDel, StartCall, NewMixStore, NewStoreFails, Lock,
        ReturnAdd, ReturnDel, Crash
  <2>5. ASSUME NEW p \in Procs, Reserve(p)
        PROVE  \/ UNCHANGED port
               \/ \E a \in Free(net[p]) :
                     pc[p] = "addUpdate" /\ PutFixedIPs(net[p], seen[p] \cup {a})
    BY <2>5 DEF Reserve, CheckRoom, AddFixedIP, AddFixedIPExhausted, AddFixedIPLost,
        CreateFile, WriteFile, WriteFileFails, ReserveFails
  <2>6. ASSUME NEW p \in Procs, ReleaseByID(p)
        PROVE  UNCHANGED port \/ ReleaseUpdate(p) \/ ReleaseUpdateLost(p)
    BY <2>6 DEF ReleaseByID, WalkFiles, WalkFilesSkips, ReleaseGet, RemoveFile, ReleaseFails
  <2>7. CASE UNCHANGED vars
    BY <2>3, <2>7 DEF vars
  <2> QED
    BY <2>1, <2>2, <2>3, <2>4, <2>5, <2>6, <2>7 DEF Next, Step
<1>2. RoomLeft'
  <2> SUFFICES ASSUME NEW q \in Procs, pc'[q] = "addUpdate"
               PROVE  ~ IsOverMax(FixedIPs(net[q]))'
    BY DEF RoomLeft
  <2>1. CASE UNCHANGED vars
    BY <2>1 DEF BoundInv, RoomLeft, IsOverMax, FixedIPs, vars
  <2>2. CASE CheckRoom(q)
    BY <2>2 DEF CheckRoom, Goto, args, IsOverMax, FixedIPs, IInv, TypeOK
  <2>3. ASSUME NEW p \in Procs, Start(p) \/ Step(p) \/ Crash(p), ~ CheckRoom(q)
        PROVE  pc[q] = "addUpdate" /\ p # q /\ net'[q] = net[q]
    <3> USE DEF IInv, TypeOK, Goto, args
    <3>1. CASE Start(p)
      BY <3>1 DEF Start, CmdAdd, CmdDel, StartCall
    <3>2. CASE NewStoreFails(p) \/ ReturnAdd(p) \/ ReturnDel(p) \/ Crash(p)
      <4>1. Exit(p)
        BY <3>2 DEF NewStoreFails, ReturnAdd, ReturnDel, Crash
      <4> QED
        BY <4>1 DEF Exit
    <3>3. CASE NewMixStore(p) \/ Lock(p)
      BY <3>3 DEF NewMixStore, Lock
    <3>4. CASE Reserve(p)
      BY <2>3, <3>4 DEF Reserve, CheckRoom, AddFixedIP, AddFixedIPExhausted, AddFixedIPLost,
          CreateFile, WriteFile, WriteFileFails, ReserveFails
    <3>5. CASE ReleaseByID(p)
      BY <3>5 DEF ReleaseByID, WalkFiles, WalkFilesSkips, ReleaseGet, ReleaseUpdate,
          ReleaseUpdateLost, RemoveFile, ReleaseFails
    <3> QED
      BY <2>3, <3>1, <3>2, <3>3, <3>4, <3>5 DEF Step
  <2>4. ASSUME NEW p \in Procs, Start(p) \/ Step(p) \/ Crash(p), ~ CheckRoom(q)
        PROVE  UNCHANGED port
    <3>1. pc[p] \notin Locked
      BY <2>3, <2>4 DEF IInv, Control, LockHeld, Locked, AddLocked
    <3> QED
      BY <2>4, <3>1 DEF Start, Step, CmdAdd, CmdDel, StartCall, NewMixStore, NewStoreFails,
        Lock, Reserve, CheckRoom, AddFixedIP, AddFixedIPExhausted, AddFixedIPLost, CreateFile,
        WriteFile, WriteFileFails, ReserveFails, ReleaseByID, WalkFiles, WalkFilesSkips, ReleaseGet,
        ReleaseUpdate, ReleaseUpdateLost, RemoveFile, ReleaseFails, ReturnAdd, ReturnDel,
        Crash, Locked, AddLocked, DelLocked
  <2> QED
    BY <2>1, <2>2, <2>3, <2>4 DEF Next, BoundInv, RoomLeft, IsOverMax, FixedIPs
<1> QED
  BY <1>1, <1>2 DEF BoundInv

\* The check of MAX_IPS and the update after it cannot be separated by another
\* process: a port never has more than MAX_IPS fixed IPs, nor loses the host's.
THEOREM PortBoundedHolds == Spec => []PortBounded
<1>1. IInv /\ BoundInv /\ [Next]_vars => BoundInv'
  BY NextBound
<1>2. IInv /\ BoundInv => PortBounded
  BY DEF IInv, Data, HostUnrecorded, BoundInv, PortFinite, PortBounded
<1> QED
  BY <1>1, <1>2, InitBound, Inductive, PTL DEF Spec

-----------------------------------------------------------------------------
(***************************************************************************)
(* ReleaseByID touches no address but the container's                      *)
(***************************************************************************)
\* A step of one process does not move another.
LEMMA OthersStay ==
  ASSUME TypeOK, NEW p \in Procs, NEW q \in Procs, p # q, Start(q) \/ Step(q) \/ Crash(q)
  PROVE  pc'[p] = pc[p]
  BY DEF Start, Step, CmdAdd, CmdDel, StartCall, NewMixStore, NewStoreFails, Lock, Reserve,
         CheckRoom, AddFixedIP, AddFixedIPExhausted, AddFixedIPLost, CreateFile, WriteFile,
         WriteFileFails, ReserveFails, ReleaseByID, WalkFiles, WalkFilesSkips, ReleaseGet,
         ReleaseUpdate, ReleaseUpdateLost, RemoveFile, ReleaseFails, ReturnAdd, ReturnDel, Crash, Exit,
         Goto, TypeOK

\* What the update in ReleaseByID takes off the port was recorded for the
\* container being deleted, and it puts nothing back.
THEOREM ReleaseOnlyOwnHolds == Spec => ReleaseOnlyOwn
<1> DEFINE OnlyOwn == \A p \in Procs : pc[p] = "delUpdate" /\ pc'[p] # pc[p] =>
                         /\ port' \subseteq port
                         /\ port \ port' \subseteq Recorded(cid[p])
<1>1. IInv /\ [Next]_vars => [OnlyOwn]_vars
  <2> SUFFICES ASSUME IInv, Next, NEW p \in Procs, pc[p] = "delUpdate", pc'[p] # pc[p]
               PROVE  port' \subseteq port /\ port \ port' \subseteq Recorded(cid[p])
    OBVIOUS
  <2>1. Start(p) \/ Step(p) \/ Crash(p)
    BY OthersStay DEF Next, IInv
  <2>2. CASE ReleaseUpdate(p) \/ ReleaseUpdateLost(p)
    BY <2>2, ReleaseRemoves DEF Recorded
  <2>3. CASE UNCHANGED port
    BY <2>3
  <2> QED
    BY <2>1, <2>2, <2>3
    DEF Start, Step, CmdAdd, CmdDel, StartCall, NewMixStore, NewStoreFails, Lock, Reserve,
        CheckRoom, AddFixedIP, AddFixedIPExhausted, AddFixedIPLost, CreateFile, WriteFile,
        WriteFileFails, ReserveFails, ReleaseByID, WalkFiles, WalkFilesSkips, ReleaseGet,
        RemoveFile,
        ReleaseFails, ReturnAdd, ReturnDel, Crash
<1> QED
  BY <1>1, Inductive, PTL DEF Spec, ReleaseOnlyOwn

-----------------------------------------------------------------------------
(***************************************************************************)
(* MixStore implements Ipam                                                *)
(***************************************************************************)
granted == [cn \in Containers \X Networks |-> IF att[cn] = "up" THEN lease[cn] ELSE None]
InUse   == {granted[cn] : cn \in Containers \X Networks} \ {None}

LEMMA InUseIsLeased ==
  ASSUME IInv
  PROVE  \A a \in InUse : \E c \in Containers, n \in Networks :
            att[<<c, n>>] = "up" /\ a = lease[<<c, n>>] /\ a \in FixedIPs(n) /\ files[a] = c
<1> SUFFICES ASSUME NEW a \in InUse
             PROVE  \E c \in Containers, n \in Networks :
                       att[<<c, n>>] = "up" /\ a = lease[<<c, n>>] /\ a \in FixedIPs(n) /\ files[a] = c
  OBVIOUS
<1>1. PICK cn \in Containers \X Networks : a = granted[cn] /\ a # None
  BY DEF InUse
<1>2. PICK c \in Containers, n \in Networks : cn = <<c, n>>
  OBVIOUS
<1>3. att[<<c, n>>] = "up" /\ a = lease[<<c, n>>]
  BY <1>1, <1>2 DEF granted
<1> QED
  BY <1>3 DEF IInv, Leases, LeaseOnPort, LeaseRecorded

\* Only ReturnAdd and CmdDel change which addresses are granted.
LEMMA GrantedStays ==
  ASSUME IInv, NEW p \in Procs,
         \/ \E c \in Containers, n \in Networks : CmdAdd(p, c, n)
         \/ NewMixStore(p) \/ NewStoreFails(p) \/ Lock(p) \/ Reserve(p) \/ ReleaseByID(p)
         \/ (ReturnAdd(p) /\ pc[p] = "addErr") \/ ReturnDel(p) \/ Crash(p)
  PROVE  granted' = granted
<1> USE DEF IInv
<1>1. CASE UNCHANGED <<att, lease>>
  BY <1>1 DEF granted
<1>2. ASSUME pc[p] # "idle"
      PROVE  cid[p] \in Containers /\ net[p] \in Networks /\ att[<<cid[p], net[p]>>] # "up"
  BY <1>2 DEF TypeOK, Control, TornDown, AddInProgress, Labels
<1>3. CASE \E c \in Containers, n \in Networks : CmdAdd(p, c, n)
  BY <1>3 DEF CmdAdd, StartCall, granted, TypeOK
<1>4. CASE pc[p] # "idle" /\ StillDue(p) /\ UNCHANGED lease
  BY <1>2, <1>4 DEF StillDue, granted, TypeOK
<1>5. CASE ReturnDel(p) /\ pc[p] = "delOK"
  <2>1. /\ att' = [att EXCEPT ![<<cid[p], net[p]>>] = "none"]
        /\ lease' = [lease EXCEPT ![<<cid[p], net[p]>>] = None]
    BY <1>5 DEF ReturnDel
  <2>2. cid[p] \in Containers /\ net[p] \in Networks /\ att[<<cid[p], net[p]>>] # "up"
    BY <1>2, <1>5
  <2> QED
    BY <2>1, <2>2 DEF granted, TypeOK
<1>6. CASE NewMixStore(p) \/ Lock(p)
  BY <1>1, <1>6 DEF NewMixStore, Lock
<1>7. CASE Reserve(p)
  BY <1>1, <1>7 DEF Reserve, CheckRoom, AddFixedIP, AddFixedIPExhausted, AddFixedIPLost,
      CreateFile, WriteFile, WriteFileFails, ReserveFails
<1>8. CASE ReleaseByID(p)
  BY <1>1, <1>8 DEF ReleaseByID, WalkFiles, WalkFilesSkips, ReleaseGet, ReleaseUpdate,
      ReleaseUpdateLost, RemoveFile, ReleaseFails
<1>9. CASE NewStoreFails(p) \/ Crash(p)
  BY <1>4, <1>9 DEF NewStoreFails, Crash
<1>10. CASE (ReturnAdd(p) /\ pc[p] = "addErr") \/ (ReturnDel(p) /\ pc[p] # "delOK")
  BY <1>4, <1>10 DEF ReturnAdd, ReturnDel
<1> QED
  BY <1>3, <1>5, <1>6, <1>7, <1>8, <1>9, <1>10

LEMMA ReturnAddGrants ==
  ASSUME IInv, NEW p \in Procs, ReturnAdd(p), pc[p] = "addOK",
         NEW c \in Containers, NEW n \in Networks, NEW a,
         c = cid[p], n = net[p], a = ip[p]
  PROVE  Promise!Grant(c, n, a) /\ a \in IPs
<1> USE DEF IInv
<1>1. a \in IPs /\ a \in FixedIPs(n) /\ files[a] = c /\ att[<<c, n>>] = "adding"
  BY DEF TypeOK, Data, Progress, Control, AddInProgress, Adding, AddLocked, FixedIPs
<1>2. granted[<<c, n>>] = None
  BY <1>1 DEF granted
<1>3. a \notin InUse
  <2> SUFFICES ASSUME a \in InUse PROVE FALSE
    OBVIOUS
  <2>1. PICK d \in Containers, m \in Networks :
           att[<<d, m>>] = "up" /\ a \in FixedIPs(m) /\ files[a] = d
    BY InUseIsLeased
  <2>2. d = c /\ m = n
    BY <1>1, <2>1, ConstantAssumption DEF FixedIPs
  <2> QED
    BY <1>1, <2>1, <2>2
<1>4. granted' = [granted EXCEPT ![<<c, n>>] = a]
  <2>1. att' = [att EXCEPT ![<<c, n>>] = "up"] /\ lease' = [lease EXCEPT ![<<c, n>>] = a]
    BY DEF ReturnAdd
  <2> QED
    BY <2>1 DEF granted, TypeOK
<1>5. a \in port /\ port' = port
  BY <1>1 DEF FixedIPs, ReturnAdd
<1> QED
  BY <1>1, <1>2, <1>3, <1>4, <1>5 DEF Promise!Grant, Promise!InUse, granted, InUse

\* The store grants an address to one container at a time and keeps it plumbed
\* until the runtime asks for its release: every behaviour of MixStore is one
\* of the abstract specification.
THEOREM Implements == Spec => ImplementsIpam
<1>1. Init => Promise!IpamInit
  BY ConstantAssumption DEF Init, Promise!IpamInit
<1>2. IInv /\ IInv' /\ [Next]_vars => [Promise!IpamNext]_(Promise!ipamVars)
  <2> SUFFICES ASSUME IInv, IInv', [Next]_vars
               PROVE  [Promise!IpamNext]_(Promise!ipamVars)
    OBVIOUS
  <2>1. CASE UNCHANGED vars
    BY <2>1 DEF vars, Promise!ipamVars
  <2>2. ASSUME NEW p \in Procs, ReturnAdd(p), pc[p] = "addOK"
        PROVE  Promise!IpamNext
    <3>1. PICK c \in Containers, n \in Networks : c = cid[p] /\ n = net[p]
      BY <2>2 DEF IInv, TypeOK
    <3>2. PICK a : a = ip[p]
      OBVIOUS
    <3>3. Promise!Grant(c, n, a) /\ a \in IPs
      BY <2>2, <3>1, <3>2, ReturnAddGrants
    <3> QED
      BY <3>3 DEF Promise!IpamNext
  <2>3. ASSUME NEW p \in Procs, NEW c \in Containers, NEW n \in Networks, CmdDel(p, c, n)
        PROVE  Promise!IpamNext
    <3>1. granted' = [cn \in Containers \X Networks |->
                         IF cn[1] = c THEN None ELSE granted[cn]]
      BY <2>3 DEF CmdDel, StartCall, granted, IInv, TypeOK
    <3>2. UNCHANGED port
      BY <2>3 DEF CmdDel, StartCall
    <3> QED
      BY <3>1, <3>2 DEF Promise!IpamNext, Promise!Revoke, granted
  <2>4. CASE granted' = granted
    <3>1. InUse \subseteq port'
      <4>1. InUse' = InUse
        BY <2>4 DEF InUse
      <4>2. \A a \in InUse' : a \in port'
        <5> SUFFICES ASSUME NEW cn \in Containers \X Networks, granted'[cn] # None
                     PROVE  granted'[cn] \in port'
          BY DEF InUse
        <5>1. PICK c \in Containers, n \in Networks : cn = <<c, n>>
          OBVIOUS
        <5>2. att'[<<c, n>>] = "up" /\ granted'[cn] = lease'[<<c, n>>]
          BY <5>1 DEF granted
        <5> QED
          BY <5>2 DEF IInv, Leases, LeaseOnPort, FixedIPs
      <4> QED
        BY <4>1, <4>2
    <3> QED
      BY <2>4, <3>1 DEF Promise!IpamNext, Promise!Plumb, Promise!InUse, granted, InUse, IInv, TypeOK
  <2> QED
    BY <2>1, <2>2, <2>3, <2>4, GrantedStays DEF Next, Start, Step, ReturnAdd
<1> QED
  BY <1>1, <1>2, Inductive, PTL DEF Spec, ImplementsIpam, Promise!IpamSpec

=============================================================================
