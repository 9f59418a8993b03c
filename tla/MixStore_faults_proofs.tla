----------------------- MODULE MixStore_faults_proofs -----------------------
(***************************************************************************)
(* TLAPS proofs about what faults cost in the mix mode: the addresses that *)
(* leak, the files that stay behind, and the files that block an address.  *)
(*                                                                         *)
(* A DEL takes the first file that holds the id of its container, whatever *)
(* network the address is from: with several networks it may delete the    *)
(* record of an address and leave the address on the port.  So all but     *)
(* RecordsBounded are stated for nodes with one network.                   *)
(***************************************************************************)
EXTENDS MixStore_proofs

OneNetwork == \A m, n \in Networks : m = n

Acts(p) == Start(p) \/ Step(p) \/ Crash(p)

-----------------------------------------------------------------------------
(***************************************************************************)
(* What a step of p leaves alone                                           *)
(***************************************************************************)
\* The container that the call of p is for.
For(p, c) == (pc[p] # "idle" /\ c = cid[p]) \/ (pc[p] = "idle" /\ c = cid'[p])

LEMMA ActsFor ==
  ASSUME TypeOK, NEW p \in Procs, Acts(p)
  PROVE  \E c \in Containers : For(p, c)
<1>1. CASE pc[p] # "idle"
  BY <1>1 DEF TypeOK, For
<1>2. CASE pc[p] = "idle"
  <2>1. Start(p)
    BY <1>2 DEF Acts, Step, NewMixStore, NewStoreFails, Lock, Reserve, CheckRoom, AddFixedIP,
        AddFixedIPExhausted, AddFixedIPLost, CreateFile, WriteFile, WriteFileFails, ReserveFails,
        ReleaseByID, WalkFiles, WalkFilesSkips, ReleaseGet, ReleaseUpdate, ReleaseUpdateLost,
        RemoveFile, ReleaseFails, ReturnAdd, ReturnDel, Crash
  <2> QED
    BY <1>2, <2>1 DEF Start, CmdAdd, CmdDel, StartCall, For, TypeOK
<1> QED
  BY <1>1, <1>2

\* The steps between the lock and its release.
Works(p) == Reserve(p) \/ ReleaseByID(p)

LEMMA WorksInside ==
  ASSUME NEW p \in Procs, Works(p)
  PROVE  /\ pc[p] \in Locked /\ (\E l \in Locked : Goto(p, l)) /\ UNCHANGED <<lock, args, att, lease>>
<1>1. CASE Reserve(p)
  BY <1>1 DEF Reserve, CheckRoom, AddFixedIP, AddFixedIPExhausted, AddFixedIPLost, CreateFile,
      WriteFile, WriteFileFails, ReserveFails, Locked, AddLocked
<1>2. CASE ReleaseByID(p)
  BY <1>2 DEF ReleaseByID, WalkFiles, WalkFilesSkips, ReleaseGet, ReleaseUpdate,
      ReleaseUpdateLost, RemoveFile, ReleaseFails, Locked, DelLocked
<1> QED
  BY <1>1, <1>2 DEF Works

LEMMA OtherSteps ==
  ASSUME NEW p \in Procs, Acts(p), ~ Works(p)
  PROVE  /\ UNCHANGED <<port, files>>
         /\ \/ Start(p) \/ NewMixStore(p) \/ NewStoreFails(p) \/ Lock(p)
            \/ ReturnAdd(p) \/ ReturnDel(p) \/ Crash(p)
  BY DEF Acts, Works, Start, Step, CmdAdd, CmdDel, StartCall, NewMixStore, NewStoreFails, Lock,
         ReturnAdd, ReturnDel, Crash

\* The variables of another process.
LEMMA OthersKeepTheirs ==
  ASSUME TypeOK, NEW p \in Procs, Acts(p), NEW q \in Procs, q # p
  PROVE  pc'[q] = pc[q] /\ cid'[q] = cid[q] /\ net'[q] = net[q] /\ ip'[q] = ip[q]
<1> USE DEF TypeOK, Goto
<1>1. CASE Start(p)
  BY <1>1 DEF Start, CmdAdd, CmdDel, StartCall
<1>2. CASE NewStoreFails(p) \/ ReturnAdd(p) \/ ReturnDel(p) \/ Crash(p)
  <2>1. Exit(p)
    BY <1>2 DEF NewStoreFails, ReturnAdd, ReturnDel, Crash
  <2> QED
    BY <2>1 DEF Exit
<1>3. CASE NewMixStore(p) \/ Lock(p)
  BY <1>3 DEF NewMixStore, Lock, args
<1>4. CASE Works(p)
  <2>1. pc'[q] = pc[q] /\ cid'[q] = cid[q] /\ net'[q] = net[q]
    BY <1>4, WorksInside DEF args
  <2>2. ip'[q] = ip[q]
    <3>1. CASE Reserve(p)
      BY <3>1 DEF Reserve, CheckRoom, AddFixedIP, AddFixedIPExhausted, AddFixedIPLost,
          CreateFile, WriteFile, WriteFileFails, ReserveFails
    <3>2. CASE ReleaseByID(p)
      BY <3>2 DEF ReleaseByID, WalkFiles, WalkFilesSkips, ReleaseGet, ReleaseUpdate,
          ReleaseUpdateLost, RemoveFile, ReleaseFails
    <3> QED
      BY <1>4, <3>1, <3>2 DEF Works
  <2> QED
    BY <2>1, <2>2
<1> QED
  BY <1>1, <1>2, <1>3, <1>4, OtherSteps

\* The other processes work for other containers, and what the runtime knows
\* about these stays as it is.
LEMMA StepContainers ==
  ASSUME TypeOK, Control, NEW p \in Procs, Acts(p), NEW c \in Containers, For(p, c)
  PROVE  /\ \A q \in Procs \ {p} : pc[q] # "idle" => cid[q] # c
         /\ pc'[p] # "idle" => cid'[p] = c
         /\ \A d \in Containers \ {c}, n \in Networks :
               att'[<<d, n>>] = att[<<d, n>>] /\ lease'[<<d, n>>] = lease[<<d, n>>]
<1> USE DEF TypeOK, Goto
<1>1. CASE Start(p)
  BY <1>1 DEF Start, CmdAdd, CmdDel, StartCall, NotBusy, For
<1>2. ASSUME pc[p] # "idle" PROVE c = cid[p] /\ \A q \in Procs \ {p} : pc[q] # "idle" => cid[q] # c
  BY <1>2 DEF For, Control, OneCallPerContainer
<1>3. CASE NewStoreFails(p) \/ ReturnAdd(p) \/ ReturnDel(p) \/ Crash(p)
  <2>1. Exit(p) /\ pc[p] # "idle" /\ net[p] \in Networks
    BY <1>3 DEF NewStoreFails, ReturnAdd, ReturnDel, Crash
  <2>2. \A d \in Containers \ {c}, n \in Networks :
           att'[<<d, n>>] = att[<<d, n>>] /\ lease'[<<d, n>>] = lease[<<d, n>>]
    BY <1>2, <1>3, <2>1 DEF NewStoreFails, ReturnAdd, ReturnDel, Crash, StillDue
  <2> QED
    BY <1>2, <2>1, <2>2 DEF Exit
<1>4. CASE NewMixStore(p) \/ Lock(p)
  BY <1>2, <1>4 DEF NewMixStore, Lock, args
<1>5. CASE Works(p)
  <2>1. pc[p] # "idle" /\ UNCHANGED <<cid, att, lease>>
    BY <1>5, WorksInside DEF args, Locked, AddLocked, DelLocked
  <2> QED
    BY <1>2, <2>1
<1> QED
  BY <1>1, <1>3, <1>4, <1>5, OtherSteps

LEMMA OtherContainers ==
  ASSUME IInv, NEW p \in Procs, Acts(p), NEW c \in Containers, For(p, c)
  PROVE  /\ \A q \in Procs \ {p} : pc[q] # "idle" => cid[q] # c
         /\ pc'[p] # "idle" => cid'[p] = c
         /\ \A d \in Containers \ {c}, n \in Networks :
               att'[<<d, n>>] = att[<<d, n>>] /\ lease'[<<d, n>>] = lease[<<d, n>>]
<1>1. TypeOK /\ Control
  BY DEF IInv
<1> QED
  BY <1>1, StepContainers

\* No step gives a file to, or takes one from, a container it is not for.
LEMMA StepRecords ==
  ASSUME TypeOK, NEW p \in Procs, Acts(p), NEW c \in Containers, For(p, c),
         pc[p] = "addWrite" => files[ip[p]] = Blank,
         pc[p] = "delRemove" => files[ip[p]] = cid[p]
  PROVE  \A d \in Containers \ {c} : Recorded(d)' = Recorded(d)
<1> USE DEF TypeOK
<1>1. CASE UNCHANGED files
  BY <1>1 DEF Recorded
<1>2. CASE CreateFile(p)
  <2>1. CASE files[ip[p]] = None
    BY <1>2, <2>1, ConstantAssumption DEF CreateFile, Recorded
  <2>2. CASE files[ip[p]] # None
    BY <1>1, <1>2, <2>2 DEF CreateFile
  <2> QED
    BY <2>1, <2>2
<1>3. CASE WriteFile(p) \/ WriteFileFails(p)
  <2>1. pc[p] = "addWrite" /\ files[ip[p]] = Blank
    BY <1>3 DEF WriteFile, WriteFileFails
  <2>2. c = cid[p]
    BY <2>1 DEF For
  <2> QED
    BY <1>3, <2>1, <2>2, ConstantAssumption DEF WriteFile, WriteFileFails, Recorded
<1>4. CASE RemoveFile(p)
  <2>1. pc[p] = "delRemove" /\ files[ip[p]] = cid[p]
    BY <1>4 DEF RemoveFile
  <2>2. c = cid[p]
    BY <2>1 DEF For
  <2> QED
    BY <1>4, <2>1, <2>2, ConstantAssumption DEF RemoveFile, Recorded
<1> QED
  BY <1>1, <1>2, <1>3, <1>4, OtherSteps
  DEF Works, Reserve, CheckRoom, AddFixedIP, AddFixedIPExhausted, AddFixedIPLost, ReserveFails,
      ReleaseByID, WalkFiles, WalkFilesSkips, ReleaseGet, ReleaseUpdate, ReleaseUpdateLost,
      ReleaseFails

LEMMA OtherRecords ==
  ASSUME IInv, NEW p \in Procs, Acts(p), NEW c \in Containers, For(p, c)
  PROVE  \A d \in Containers \ {c} : Recorded(d)' = Recorded(d)
<1>1. /\ pc[p] = "addWrite" => files[ip[p]] = Blank
      /\ pc[p] = "delRemove" => files[ip[p]] = cid[p]
  BY DEF IInv, Data, Progress
<1>2. TypeOK
  BY DEF IInv
<1> QED
  BY <1>1, <1>2, StepRecords

LEMMA FaultsGrow ==
  ASSUME TypeOK, NEW p \in Procs, Acts(p)
  PROVE  faults' = faults \/ faults' = faults + 1
  BY DEF Acts, Start, Step, CmdAdd, CmdDel, StartCall, NewMixStore, NewStoreFails, Lock, Reserve,
      CheckRoom, AddFixedIP, AddFixedIPExhausted, AddFixedIPLost, CreateFile, WriteFile,
      WriteFileFails, ReserveFails, ReleaseByID, WalkFiles, WalkFilesSkips, ReleaseGet,
      ReleaseUpdate, ReleaseUpdateLost, RemoveFile, ReleaseFails, ReturnAdd, ReturnDel, Crash, Fault

-----------------------------------------------------------------------------
(***************************************************************************)
(* Where an address is while a call works on it                            *)
(***************************************************************************)
\* A file that was created and not written has its address on the port.
BlankOnPort == \A a \in IPs : files[a] = Blank => a \in port

PortOfSubnet == \A a \in port : \E n \in Networks : a \in Subnet[n]

\* What a process finds under the address it was given is not such a file.
Fresh == \A p \in Procs : pc[p] = "addOpen" => files[ip[p]] # Blank

\* A file is removed only when its address is off the port.
Off == \A p \in Procs : pc[p] = "delRemove" => ip[p] \notin port

Place == BlankOnPort /\ PortOfSubnet /\ Fresh /\ Off

LEMMA InitPlace == Init => Place
  BY ConstantAssumption DEF Init, Place, BlankOnPort, PortOfSubnet, Fresh, Off

\* How a step may change the ports and the files.
Adds(p, a)    == /\ pc[p] = "addUpdate" /\ a \in IPs \ port /\ a \in Subnet[net[p]]
                 /\ port' = port \cup {a} /\ UNCHANGED files
Takes(p)      == /\ pc[p] = "delUpdate" /\ port' \subseteq port /\ port \ port' \subseteq {ip[p]}
                 /\ UNCHANGED files
Writes(p, x)  == files' = [files EXCEPT ![ip[p]] = x] /\ UNCHANGED port
Untouched     == UNCHANGED <<port, files>>

LEMMA ReserveKinds ==
  ASSUME IInv, NEW p \in Procs, AddFixedIP(p) \/ AddFixedIPLost(p)
  PROVE  \E a \in IPs : Adds(p, a) /\ ((AddFixedIP(p) /\ ip'[p] = a) \/ AddFixedIPLost(p))
<1>1. CASE AddFixedIP(p)
  <2>1. PICK a \in Free(net[p]) :
           /\ PutFixedIPs(net[p], seen[p] \cup {a})
           /\ \E newIP \in difference(seen[p], seen[p] \cup {a}) : ip' = [ip EXCEPT ![p] = newIP]
    BY <1>1 DEF AddFixedIP
  <2>2. ip'[p] = a
    BY <2>1 DEF difference, IInv, TypeOK
  <2>3. pc[p] = "addUpdate" /\ UNCHANGED files
    BY <1>1 DEF AddFixedIP
  <2> QED
    BY <1>1, <2>1, <2>2, <2>3, ReserveAdds DEF Adds
<1>2. CASE AddFixedIPLost(p)
  <2>1. PICK a \in Free(net[p]) : PutFixedIPs(net[p], seen[p] \cup {a})
    BY <1>2 DEF AddFixedIPLost
  <2>2. pc[p] = "addUpdate" /\ UNCHANGED files
    BY <1>2 DEF AddFixedIPLost
  <2> QED
    BY <1>2, <2>1, <2>2, ReserveAdds DEF Adds
<1> QED
  BY <1>1, <1>2

LEMMA WorkKinds ==
  ASSUME IInv, NEW p \in Procs, Works(p)
  PROVE  \/ \E a \in IPs : Adds(p, a) /\ ((AddFixedIP(p) /\ ip'[p] = a) \/ AddFixedIPLost(p))
         \/ Takes(p) /\ (ReleaseUpdate(p) \/ ReleaseUpdateLost(p))
         \/ CreateFile(p) /\ files[ip[p]] = None /\ Writes(p, Blank)
         \/ WriteFile(p) /\ Writes(p, cid[p])
         \/ WriteFileFails(p) /\ Writes(p, None)
         \/ RemoveFile(p) /\ Writes(p, None)
         \/ Untouched
<1>1. CASE AddFixedIP(p) \/ AddFixedIPLost(p)
  BY <1>1, ReserveKinds
<1>3. CASE ReleaseUpdate(p) \/ ReleaseUpdateLost(p)
  <2>1. pc[p] = "delUpdate" /\ UNCHANGED files
    BY <1>3 DEF ReleaseUpdate, ReleaseUpdateLost
  <2> QED
    BY <1>3, <2>1, ReleaseRemoves DEF Takes
<1>4. CASE CreateFile(p)
  BY <1>4 DEF CreateFile, Writes, Untouched
<1>5. CASE WriteFile(p) \/ WriteFileFails(p) \/ RemoveFile(p)
  BY <1>5 DEF WriteFile, WriteFileFails, RemoveFile, Writes
<1>6. CASE Untouched
  BY <1>6
<1> QED
  BY <1>1, <1>3, <1>4, <1>5, <1>6
  DEF Works, Reserve, CheckRoom, AddFixedIPExhausted, ReserveFails, ReleaseByID, WalkFiles,
      WalkFilesSkips, ReleaseGet, ReleaseFails, Untouched

\* With one network a port has no addresses but those of that network.
LEMMA OnePort ==
  ASSUME TypeOK, OneNetwork, PortOfSubnet, NEW n \in Networks
  PROVE  FixedIPs(n) = port
  BY DEF OneNetwork, PortOfSubnet, FixedIPs

LEMMA NextPlace ==
  ASSUME OneNetwork, IInv, Place, NEW p \in Procs, Acts(p)
  PROVE  Place'
<1> USE DEF IInv, TypeOK
<1>1. BlankOnPort' /\ PortOfSubnet'
  <2>1. ASSUME NEW a \in IPs, Adds(p, a) PROVE BlankOnPort' /\ PortOfSubnet'
    <3>1. net[p] \in Networks
      BY <2>1 DEF Adds
    <3> QED
      BY <2>1, <3>1 DEF Adds, Place, BlankOnPort, PortOfSubnet
  <2>2. CASE Takes(p)
    <3>1. files[ip[p]] = cid[p] /\ cid[p] \in Containers
      BY <2>2 DEF Takes, Data, Progress
    <3> QED
      BY <2>2, <3>1, ConstantAssumption DEF Takes, Place, BlankOnPort, PortOfSubnet
  <2>3. CASE CreateFile(p) /\ Writes(p, Blank)
    <3>1. ip[p] \in port
      BY <2>3 DEF CreateFile, Data, Progress, FixedIPs
    <3> QED
      BY <2>3, <3>1 DEF Writes, Place, BlankOnPort, PortOfSubnet
  <2>4. CASE \E x \in Containers \cup {None} : Writes(p, x)
    BY <2>4, ConstantAssumption DEF Writes, Place, BlankOnPort, PortOfSubnet
  <2>5. CASE Untouched
    BY <2>5 DEF Untouched, Place, BlankOnPort, PortOfSubnet
  <2>6. WriteFile(p) => cid[p] \in Containers
    BY DEF WriteFile
  <2> QED
    BY <2>1, <2>2, <2>3, <2>4, <2>5, <2>6, WorkKinds, OtherSteps DEF Untouched
<1>2. ASSUME NEW q \in Procs, q # p, pc'[q] \in {"addOpen", "delRemove"}
      PROVE  pc[q] = pc'[q] /\ ip'[q] = ip[q] /\ UNCHANGED <<port, files>>
  <2>1. pc'[q] = pc[q] /\ ip'[q] = ip[q]
    BY <1>2, OthersKeepTheirs
  <2>2. ~ Works(p)
    BY <1>2, <2>1, WorksInside, Alone DEF Informed
  <2> QED
    BY <2>1, <2>2, OtherSteps
<1>3. pc'[p] = "addOpen" => files'[ip'[p]] # Blank
  <2>1. ASSUME pc'[p] = "addOpen" PROVE AddFixedIP(p)
    BY <2>1 DEF Acts, Start, Step, CmdAdd, CmdDel, StartCall, NewMixStore, NewStoreFails, Lock,
        Reserve, CheckRoom, AddFixedIPExhausted, AddFixedIPLost, CreateFile, WriteFile,
        WriteFileFails, ReserveFails, ReleaseByID, WalkFiles, WalkFilesSkips, ReleaseGet,
        ReleaseUpdate, ReleaseUpdateLost, RemoveFile, ReleaseFails, ReturnAdd, ReturnDel, Crash,
        Exit, Goto
  <2> SUFFICES ASSUME AddFixedIP(p) PROVE files'[ip'[p]] # Blank
    BY <2>1
  <2>2. pc[p] = "addUpdate" /\ UNCHANGED files
    BY DEF AddFixedIP
  <2>3. PICK a \in Free(net[p]) :
           \E newIP \in difference(seen[p], seen[p] \cup {a}) : ip' = [ip EXCEPT ![p] = newIP]
    BY DEF AddFixedIP
  <2>4. ip'[p] = a /\ a \in IPs \ port
    BY <2>2, <2>3, ConstantAssumption DEF difference, Free
  <2> QED
    BY <2>2, <2>4 DEF Place, BlankOnPort
<1>4. pc'[p] = "delRemove" => ip'[p] \notin port'
  <2>1. ASSUME pc'[p] = "delRemove" PROVE ReleaseGet(p) \/ ReleaseUpdate(p)
    BY <2>1 DEF Acts, Start, Step, CmdAdd, CmdDel, StartCall, NewMixStore, NewStoreFails, Lock,
        Reserve, CheckRoom, AddFixedIP, AddFixedIPExhausted, AddFixedIPLost, CreateFile, WriteFile,
        WriteFileFails, ReserveFails, ReleaseByID, WalkFiles, WalkFilesSkips,
        ReleaseUpdateLost, RemoveFile, ReleaseFails, ReturnAdd, ReturnDel, Crash,
        Exit, Goto
  <2>2. CASE ReleaseGet(p)
    <3>1. net[p] \in Networks
      BY <2>2 DEF ReleaseGet
    <3>2. FixedIPs(net[p]) = port
      BY <3>1, OnePort DEF Place
    <3> QED
      BY <2>2, <3>2 DEF ReleaseGet, Goto
  <2>3. CASE ReleaseUpdate(p)
    <3>1. net[p] \in Networks /\ pc[p] = "delUpdate"
      BY <2>3 DEF ReleaseUpdate
    <3>2. FixedIPs(net[p]) = port /\ seen[p] = FixedIPs(net[p])
      BY <3>1, OnePort DEF Place, Data, SeenFresh
    <3> QED
      BY <2>3, <3>2 DEF ReleaseUpdate, PutFixedIPs, FixedIPs
  <2> QED
    BY <2>1, <2>2, <2>3
<1>5. Fresh'
  BY <1>2, <1>3 DEF Place, Fresh
<1>6. Off'
  BY <1>2, <1>4 DEF Place, Off
<1> QED
  BY <1>1, <1>5, <1>6 DEF Place

-----------------------------------------------------------------------------
(***************************************************************************)
(* Leaked addresses                                                        *)
(***************************************************************************)
\* p is on its way to a file for a.
OnItsWay(p, a) == pc[p] \in {"addOpen", "addWrite"} /\ ip[p] = a

\* It suffices to look at the addresses that p may have let go.
LEMMA LeakedBy ==
  ASSUME TypeOK, NEW p \in Procs, Acts(p), NEW X,
         \A a \in port' \ X : files'[a] \notin Containers /\ ~ OnItsWay(p, a)'
            => (\E n \in Networks : a = HostIP[n])
               \/ (a \in port /\ files[a] \notin Containers /\ ~ OnItsWay(p, a))
  PROVE  Leaked' \subseteq Leaked \cup X
<1> SUFFICES ASSUME NEW a \in Leaked', a \notin X PROVE a \in Leaked
  OBVIOUS
<1>1. /\ a \in port' /\ files'[a] \notin Containers /\ \A n \in Networks : a # HostIP[n]
      /\ \A q \in Procs : ~ OnItsWay(q, a)'
  BY DEF Leaked, OnItsWay
<1>2. a \in port /\ files[a] \notin Containers /\ ~ OnItsWay(p, a)
  BY <1>1
<1>3. \A q \in Procs \ {p} : OnItsWay(q, a)' <=> OnItsWay(q, a)
  BY OthersKeepTheirs DEF OnItsWay
<1> QED
  BY <1>1, <1>2, <1>3 DEF Leaked, OnItsWay

\* One more element.
LEMMA GrowsByOne ==
  ASSUME NEW S, IsFiniteSet(S), NEW x, NEW T, T \subseteq S \cup {x}
  PROVE  IsFiniteSet(T) /\ Cardinality(T) <= Cardinality(S) + 1
<1>1. IsFiniteSet(S \cup {x}) /\ Cardinality(S \cup {x}) \in {Cardinality(S), Cardinality(S) + 1}
  BY FS_AddElement
<1>2. T \in SUBSET (S \cup {x})
  OBVIOUS
<1>3. IsFiniteSet(T) /\ Cardinality(T) <= Cardinality(S \cup {x})
  BY <1>1, <1>2, FS_Subset
<1>4. Cardinality(S) \in Nat /\ Cardinality(T) \in Nat
  BY <1>3, FS_CardinalityType
<1> QED
  BY <1>1, <1>3, <1>4

\* One element less.
LEMMA LosesOne ==
  ASSUME NEW S, IsFiniteSet(S), NEW x \in S
  PROVE  IsFiniteSet(S \ {x}) /\ Cardinality(S \ {x}) = Cardinality(S) - 1
  BY FS_RemoveElement

\* A step leaks nothing, or it is a fault and leaks one address.
LEMMA LeaksOne ==
  ASSUME IInv, Place, NEW p \in Procs, Acts(p)
  PROVE  \/ Leaked' \subseteq Leaked
         \/ faults' = faults + 1 /\ \E a : Leaked' \subseteq Leaked \cup {a}
<1> USE DEF IInv, TypeOK
<1>1. CASE AddFixedIP(p) \/ AddFixedIPLost(p)
  <2>1. PICK a \in IPs : Adds(p, a) /\ ((AddFixedIP(p) /\ ip'[p] = a) \/ AddFixedIPLost(p))
    BY <1>1, ReserveKinds
  <2>2. CASE AddFixedIP(p) /\ ip'[p] = a
    <3>1. OnItsWay(p, a)'
      BY <2>2 DEF OnItsWay, AddFixedIP, Goto
    <3>2. Leaked' \subseteq Leaked \cup {}
      BY <2>1, <3>1, LeakedBy DEF Adds, OnItsWay
    <3> QED
      BY <3>2
  <2>3. CASE AddFixedIPLost(p)
    <3>1. Leaked' \subseteq Leaked \cup {a}
      BY <2>1, LeakedBy DEF Adds, OnItsWay
    <3> QED
      BY <2>3, <3>1 DEF AddFixedIPLost, Fault
  <2> QED
    BY <2>1, <2>2, <2>3
<1>2. CASE CreateFile(p)
  <2>1. ip[p] \in IPs /\ pc[p] = "addOpen"
    BY <1>2 DEF CreateFile, Data, Progress, FixedIPs
  <2>2. CASE files[ip[p]] = None
    <3>1. \A a \in port' : a = ip[p] => OnItsWay(p, a)'
      BY <1>2, <2>2 DEF CreateFile, OnItsWay, Goto
    <3>2. \A a \in port' : a # ip[p] => files'[a] = files[a]
      BY <1>2, <2>2 DEF CreateFile
    <3>3. UNCHANGED port /\ \A a \in port : OnItsWay(p, a) => a = ip[p]
      BY <1>2 DEF CreateFile, OnItsWay
    <3>4. \A a \in port' : files'[a] \notin Containers /\ ~ OnItsWay(p, a)'
             => a \in port /\ files[a] \notin Containers /\ ~ OnItsWay(p, a)
      BY <3>1, <3>2, <3>3
    <3>5. Leaked' \subseteq Leaked \cup {}
      BY <3>4, LeakedBy
    <3> QED
      BY <3>5
  <2>3. CASE files[ip[p]] # None
    <3>1. files[ip[p]] \in Containers /\ UNCHANGED <<port, files>>
      BY <1>2, <2>1, <2>3 DEF CreateFile, Place, Fresh
    <3>2. Leaked' \subseteq Leaked \cup {}
      BY <3>1, LeakedBy DEF OnItsWay
    <3> QED
      BY <3>2
  <2> QED
    BY <2>2, <2>3
<1>3. CASE WriteFile(p)
  <2>1. ip[p] \in IPs /\ cid[p] \in Containers
    BY <1>3 DEF WriteFile, Data, Progress, FixedIPs
  <2>2. files'[ip[p]] = cid[p] /\ \A a \in port' : a # ip[p] => files'[a] = files[a]
    BY <1>3, <2>1 DEF WriteFile
  <2>3. Leaked' \subseteq Leaked \cup {}
    BY <1>3, <2>1, <2>2, LeakedBy DEF WriteFile, OnItsWay
  <2> QED
    BY <2>3
<1>4. CASE WriteFileFails(p)
  <2>1. ip[p] \in IPs
    BY <1>4 DEF WriteFileFails, Data, Progress, FixedIPs
  <2>2. UNCHANGED port /\ \A a \in port' : a # ip[p] => files'[a] = files[a]
    BY <1>4, <2>1 DEF WriteFileFails
  <2>3. \A a \in port' \ {ip[p]} : files'[a] \notin Containers
           => a \in port /\ files[a] \notin Containers /\ ~ OnItsWay(p, a)
    BY <2>2 DEF OnItsWay
  <2>4. Leaked' \subseteq Leaked \cup {ip[p]}
    BY <2>3, LeakedBy
  <2> QED
    BY <1>4, <2>4 DEF WriteFileFails, Fault
<1>5. CASE ReserveFails(p) \/ Crash(p)
  <2>1. UNCHANGED <<port, files>>
    BY <1>5 DEF ReserveFails, Crash
  <2>2. Leaked' \subseteq Leaked \cup {ip[p]}
    BY <2>1, LeakedBy DEF OnItsWay
  <2> QED
    BY <1>5, <2>2 DEF ReserveFails, Crash, Fault
<1>6. CASE RemoveFile(p)
  <2>1. ip[p] \notin port /\ ip[p] \in IPs
    BY <1>6 DEF RemoveFile, Place, Off, Data, Progress
  <2>2. UNCHANGED port /\ pc[p] = "delRemove" /\ \A a \in port' : files'[a] = files[a]
    BY <1>6, <2>1 DEF RemoveFile
  <2>3. Leaked' \subseteq Leaked \cup {}
    BY <2>2, LeakedBy DEF OnItsWay
  <2> QED
    BY <2>3
<1>7. CASE port' \subseteq port /\ UNCHANGED files /\ pc[p] \notin {"addOpen", "addWrite"}
  <2>1. Leaked' \subseteq Leaked \cup {}
    BY <1>7, LeakedBy DEF OnItsWay
  <2> QED
    BY <2>1
<1>8. CASE ReleaseUpdate(p) \/ ReleaseUpdateLost(p)
  BY <1>7, <1>8, ReleaseRemoves DEF ReleaseUpdate, ReleaseUpdateLost
<1>9. CASE CheckRoom(p) \/ AddFixedIPExhausted(p)
  BY <1>7, <1>9 DEF CheckRoom, AddFixedIPExhausted
<1>10. CASE WalkFiles(p, "delGet") \/ WalkFilesSkips(p) \/ ReleaseGet(p) \/ ReleaseFails(p)
  BY <1>7, <1>10 DEF WalkFiles, WalkFilesSkips, ReleaseGet, ReleaseFails
<1>11. CASE Start(p) \/ NewMixStore(p) \/ NewStoreFails(p) \/ Lock(p) \/ ReturnAdd(p) \/ ReturnDel(p)
  BY <1>7, <1>11 DEF Start, CmdAdd, CmdDel, StartCall, NewMixStore, NewStoreFails, Lock, ReturnAdd,
      ReturnDel
<1> QED
  BY <1>1, <1>2, <1>3, <1>4, <1>5, <1>6, <1>8, <1>9, <1>10, <1>11
  DEF Acts, Step, Reserve, ReleaseByID

LeakInv == IsFiniteSet(Leaked) /\ LeaksBounded

LEMMA InitLeak == Init => LeakInv
<1> SUFFICES ASSUME Init PROVE LeakInv
  OBVIOUS
<1>1. Leaked = {}
  BY DEF Init, Leaked
<1>2. IsFiniteSet({}) /\ Cardinality({}) = 0 /\ faults = 0
  BY FS_EmptySet DEF Init
<1> QED
  BY <1>1, <1>2 DEF LeakInv, LeaksBounded

LEMMA NextLeak ==
  ASSUME IInv, Place, LeakInv, NEW p \in Procs, Acts(p)
  PROVE  LeakInv'
<1>1. faults \in Nat /\ Cardinality(Leaked) \in Nat /\ Cardinality(Leaked) <= faults
  BY FS_CardinalityType, ConstantAssumption DEF LeakInv, LeaksBounded, IInv, TypeOK
<1>2. faults' = faults \/ faults' = faults + 1
  BY FaultsGrow DEF IInv
<1>3. CASE Leaked' \subseteq Leaked
  <2>1. Leaked' \in SUBSET Leaked
    BY <1>3
  <2>2. IsFiniteSet(Leaked') /\ Cardinality(Leaked') <= Cardinality(Leaked)
    BY <2>1, FS_Subset DEF LeakInv
  <2>3. Cardinality(Leaked') \in Nat
    BY <2>2, FS_CardinalityType
  <2> QED
    BY <1>1, <1>2, <2>2, <2>3 DEF LeakInv, LeaksBounded
<1>4. CASE faults' = faults + 1 /\ \E a : Leaked' \subseteq Leaked \cup {a}
  <2>1. IsFiniteSet(Leaked') /\ Cardinality(Leaked') <= Cardinality(Leaked) + 1
    BY <1>4, GrowsByOne DEF LeakInv
  <2>2. Cardinality(Leaked') \in Nat
    BY <2>1, FS_CardinalityType
  <2> QED
    BY <1>1, <1>4, <2>1, <2>2 DEF LeakInv, LeaksBounded
<1> QED
  BY <1>3, <1>4, LeaksOne

LEMMA PlaceHolds ==
  ASSUME OneNetwork
  PROVE  Spec => [](IInv /\ Place)
<1>1. IInv /\ Place /\ [Next]_vars => Place'
  <2>1. CASE UNCHANGED vars
    BY <2>1 DEF vars, Place, BlankOnPort, PortOfSubnet, Fresh, Off
  <2> QED
    BY <2>1, NextPlace DEF Next, Acts
<1> QED
  BY <1>1, Inductive, InitPlace, PTL DEF Spec

\* On a node with one network, each crash and each failing call costs the port
\* at most one address for good, and Reserve and ReleaseByID leak none without.
THEOREM LeaksBoundedHolds ==
  ASSUME OneNetwork
  PROVE  Spec => []LeaksBounded
<1>1. IInv /\ Place /\ LeakInv /\ [Next]_vars => LeakInv'
  <2>1. CASE UNCHANGED vars
    BY <2>1 DEF vars, LeakInv, LeaksBounded, Leaked
  <2> QED
    BY <2>1, NextLeak DEF Next, Acts
<1>2. LeakInv => LeaksBounded
  BY DEF LeakInv
<1> QED
  BY <1>1, <1>2, InitLeak, PlaceHolds, PTL DEF Spec

-----------------------------------------------------------------------------
(***************************************************************************)
(* The files of a container, for any number of networks                    *)
(***************************************************************************)
NetsOf(c) == {n \in Networks : att[<<c, n>>] # "none"}

\* Control points at which the network of the call has no file to account for:
\* ADD has not written it yet, DEL has removed it or found none.
NoFileYet == {"addNew", "addLock", "addGet", "addUpdate", "addOpen", "addWrite", "delOK"}

Accounted(c) ==
    /\ IsFiniteSet(NetsOf(c)) /\ IsFiniteSet(Recorded(c))
    /\ Cardinality(Recorded(c)) <= Cardinality(NetsOf(c)) + faults

Spare(p) ==
    pc[p] \in NoFileYet =>
        Cardinality(Recorded(cid[p])) <= Cardinality(NetsOf(cid[p]) \ {net[p]}) + faults

RecordInv == (\A c \in Containers : Accounted(c)) /\ (\A p \in Procs : Spare(p))

LEMMA InitRecord == Init => RecordInv
<1> SUFFICES ASSUME Init PROVE RecordInv
  OBVIOUS
<1>1. \A c \in Containers : NetsOf(c) = {} /\ Recorded(c) = {}
  BY ConstantAssumption DEF Init, NetsOf, Recorded
<1>2. IsFiniteSet({}) /\ Cardinality({}) = 0 /\ faults = 0
  BY FS_EmptySet DEF Init
<1>3. \A c \in Containers : Accounted(c)
  BY <1>1, <1>2 DEF Accounted
<1>4. \A p \in Procs : Spare(p)
  BY DEF Spare, NoFileYet, Init
<1> QED
  BY <1>3, <1>4 DEF RecordInv

\* A larger bound is a bound.
LEMMA Loosen ==
  ASSUME NEW r, NEW k, NEW f \in Nat, NEW g, r \in Nat, k \in Nat, r <= k + f, g = f \/ g = f + 1
  PROVE  r <= k + g
  OBVIOUS

\* The accounts of the containers that a step is not for.
LEMMA OtherAccounts ==
  ASSUME IInv, RecordInv, NEW p \in Procs, Acts(p), NEW c \in Containers, For(p, c)
  PROVE  /\ \A d \in Containers \ {c} : Accounted(d)'
         /\ \A q \in Procs \ {p} : Spare(q)'
<1>0. faults \in Nat /\ (faults' = faults \/ faults' = faults + 1)
  BY FaultsGrow, ConstantAssumption DEF IInv, TypeOK
<1>1. ASSUME NEW d \in Containers \ {c} PROVE NetsOf(d)' = NetsOf(d) /\ Recorded(d)' = Recorded(d)
  BY <1>1, OtherContainers, OtherRecords DEF NetsOf
<1>2. ASSUME NEW d \in Containers
      PROVE  /\ Cardinality(NetsOf(d)) \in Nat /\ Cardinality(Recorded(d)) \in Nat
             /\ \A n : Cardinality(NetsOf(d) \ {n}) \in Nat
  <2>1. IsFiniteSet(NetsOf(d)) /\ IsFiniteSet(Recorded(d))
    BY DEF RecordInv, Accounted
  <2>2. \A n : IsFiniteSet(NetsOf(d) \ {n})
    BY <2>1, FS_RemoveElement
  <2> QED
    BY <2>1, <2>2, FS_CardinalityType
<1>3. ASSUME NEW d \in Containers \ {c} PROVE Accounted(d)'
  <2>1. /\ IsFiniteSet(NetsOf(d)) /\ IsFiniteSet(Recorded(d))
        /\ Cardinality(Recorded(d)) <= Cardinality(NetsOf(d)) + faults
    BY DEF RecordInv, Accounted
  <2>2. Cardinality(Recorded(d)) <= Cardinality(NetsOf(d)) + faults'
    BY <1>0, <1>2, <2>1, Loosen
  <2> QED
    BY <1>1, <2>1, <2>2 DEF Accounted
<1>4. ASSUME NEW q \in Procs \ {p}, pc'[q] \in NoFileYet
      PROVE  Cardinality(Recorded(cid[q]))' <= Cardinality(NetsOf(cid[q]) \ {net[q]})' + faults'
  <2>1. pc'[q] = pc[q] /\ cid'[q] = cid[q] /\ net'[q] = net[q]
    BY OthersKeepTheirs DEF IInv
  <2>2. cid[q] \in Containers \ {c}
    BY <1>4, <2>1, OtherContainers DEF NoFileYet, IInv, TypeOK
  <2>3. Cardinality(Recorded(cid[q])) <= Cardinality(NetsOf(cid[q]) \ {net[q]}) + faults
    BY <1>4, <2>1 DEF RecordInv, Spare
  <2>4. Cardinality(Recorded(cid[q])) <= Cardinality(NetsOf(cid[q]) \ {net[q]}) + faults'
    BY <1>0, <1>2, <2>2, <2>3, Loosen
  <2>5. Recorded(cid[q])' = Recorded(cid[q]) /\ NetsOf(cid[q])' = NetsOf(cid[q])
    <3>1. PICK d \in Containers \ {c} : d = cid[q] /\ d = cid'[q]
      BY <2>1, <2>2
    <3>2. NetsOf(d)' = NetsOf(d) /\ Recorded(d)' = Recorded(d)
      BY <1>1
    <3> QED
      BY <3>1, <3>2 DEF NetsOf, Recorded
  <2> QED
    BY <2>1, <2>4, <2>5
<1> QED
  BY <1>3, <1>4 DEF Spare

\* A step that changes neither the files nor the networks of its container.
LEMMA SameAccount ==
  ASSUME IInv, RecordInv, NEW p \in Procs, Acts(p), NEW c \in Containers, For(p, c),
         NetsOf(c)' = NetsOf(c), Recorded(c)' = Recorded(c),
         pc'[p] \in NoFileYet => pc[p] \in NoFileYet /\ net'[p] = net[p]
  PROVE  Accounted(c)' /\ Spare(p)'
<1>0. faults \in Nat /\ (faults' = faults \/ faults' = faults + 1)
  BY FaultsGrow, ConstantAssumption DEF IInv, TypeOK
<1>1. /\ IsFiniteSet(NetsOf(c)) /\ IsFiniteSet(Recorded(c))
      /\ Cardinality(Recorded(c)) <= Cardinality(NetsOf(c)) + faults
  BY DEF RecordInv, Accounted
<1>2. /\ Cardinality(NetsOf(c)) \in Nat /\ Cardinality(Recorded(c)) \in Nat
      /\ \A n : Cardinality(NetsOf(c) \ {n}) \in Nat
  BY <1>1, FS_CardinalityType, FS_RemoveElement
<1>3. Accounted(c)'
  BY <1>0, <1>1, <1>2, Loosen DEF Accounted
<1>4. ASSUME pc'[p] \in NoFileYet
      PROVE  Cardinality(Recorded(c)') <= Cardinality(NetsOf(c)' \ {net'[p]}) + faults'
  <2>1. c = cid[p] /\ pc[p] \in NoFileYet /\ net'[p] = net[p]
    BY <1>4 DEF For, NoFileYet
  <2>2. Cardinality(Recorded(c)) <= Cardinality(NetsOf(c) \ {net[p]}) + faults
    BY <2>1 DEF RecordInv, Spare
  <2>3. Cardinality(Recorded(c)) <= Cardinality(NetsOf(c) \ {net[p]}) + faults'
    BY <1>0, <1>2, <2>2, Loosen
  <2> QED
    BY <2>1, <2>3
<1>5. pc'[p] \in NoFileYet => cid'[p] = c
  BY OtherContainers DEF NoFileYet
<1> QED
  BY <1>3, <1>4, <1>5 DEF Spare, Recorded, NetsOf

\* CmdAdd adds a network that has no file yet.
LEMMA AddAccount ==
  ASSUME IInv, RecordInv, NEW p \in Procs, NEW c \in Containers, NEW n \in Networks, CmdAdd(p, c, n)
  PROVE  Accounted(c)' /\ Spare(p)'
<1>1. /\ IsFiniteSet(NetsOf(c)) /\ IsFiniteSet(Recorded(c))
      /\ Cardinality(Recorded(c)) <= Cardinality(NetsOf(c)) + faults
  BY DEF RecordInv, Accounted
<1>2. cid'[p] = c /\ net'[p] = n /\ faults' = faults /\ Recorded(c)' = Recorded(c)
  BY DEF CmdAdd, StartCall, IInv, TypeOK, Recorded
<1>3. NetsOf(c)' = NetsOf(c) \cup {n} /\ n \notin NetsOf(c)
  BY DEF CmdAdd, NetsOf, IInv, TypeOK
<1>4. /\ IsFiniteSet(NetsOf(c) \cup {n})
      /\ Cardinality(NetsOf(c) \cup {n}) = Cardinality(NetsOf(c)) + 1
  BY <1>1, <1>3, FS_AddElement
<1>5. (NetsOf(c) \cup {n}) \ {n} = NetsOf(c)
  BY <1>3
<1>6. Cardinality(NetsOf(c)) \in Nat /\ Cardinality(Recorded(c)) \in Nat /\ faults \in Nat
  BY <1>1, FS_CardinalityType, ConstantAssumption DEF IInv, TypeOK
<1>7. Accounted(c)'
  BY <1>1, <1>2, <1>3, <1>4, <1>6 DEF Accounted
<1>8. Cardinality(Recorded(c)') <= Cardinality(NetsOf(c)' \ {net'[p]}) + faults'
  BY <1>1, <1>2, <1>3, <1>5
<1> QED
  BY <1>2, <1>7, <1>8 DEF Spare, Recorded, NetsOf

\* WriteFile adds the file of the network being added.
LEMMA WriteAccount ==
  ASSUME IInv, RecordInv, NEW p \in Procs, NEW c \in Containers, c = cid[p], WriteFile(p)
  PROVE  Accounted(c)' /\ Spare(p)'
<1> USE DEF IInv, TypeOK
<1>1. pc[p] = "addWrite" /\ net[p] \in Networks /\ ip[p] \in IPs /\ faults' = faults
  BY DEF WriteFile, Data, Progress, FixedIPs
<1>2. /\ IsFiniteSet(NetsOf(c)) /\ IsFiniteSet(Recorded(c))
      /\ Cardinality(Recorded(c)) <= Cardinality(NetsOf(c) \ {net[p]}) + faults
  BY <1>1 DEF RecordInv, Accounted, Spare, NoFileYet
<1>3. Recorded(c)' = Recorded(c) \cup {ip[p]} /\ NetsOf(c)' = NetsOf(c)
  BY <1>1 DEF WriteFile, Recorded, NetsOf
<1>4. net[p] \in NetsOf(c)
  BY <1>1 DEF NetsOf, Control, AddInProgress, Adding, AddLocked
<1>5. Cardinality(NetsOf(c) \ {net[p]}) = Cardinality(NetsOf(c)) - 1
  BY <1>2, <1>4, LosesOne
<1>6. /\ IsFiniteSet(Recorded(c) \cup {ip[p]})
      /\ Cardinality(Recorded(c) \cup {ip[p]}) <= Cardinality(Recorded(c)) + 1
  <2>1. PICK S : S = Recorded(c)
    OBVIOUS
  <2>2. IsFiniteSet(S \cup {ip[p]}) /\ Cardinality(S \cup {ip[p]}) <= Cardinality(S) + 1
    <3>1. IsFiniteSet(S) /\ S \cup {ip[p]} \subseteq S \cup {ip[p]}
      BY <1>2, <2>1
    <3> HIDE DEF IInv, TypeOK
    <3> QED
      BY <3>1, GrowsByOne
  <2> QED
    BY <2>1, <2>2
<1>7. /\ Cardinality(NetsOf(c)) \in Nat /\ Cardinality(Recorded(c)) \in Nat /\ faults \in Nat
      /\ Cardinality(Recorded(c) \cup {ip[p]}) \in Nat
  BY <1>2, <1>6, FS_CardinalityType, ConstantAssumption
<1>8. Cardinality(Recorded(c) \cup {ip[p]}) <= Cardinality(NetsOf(c)) + faults
  BY <1>2, <1>5, <1>6, <1>7
<1>9. pc'[p] \notin NoFileYet
  BY DEF WriteFile, Goto, NoFileYet
<1> QED
  BY <1>1, <1>2, <1>3, <1>6, <1>8, <1>9 DEF Accounted, Spare

\* RemoveFile removes a file; its network goes when the call returns.
LEMMA RemoveAccount ==
  ASSUME IInv, RecordInv, NEW p \in Procs, NEW c \in Containers, c = cid[p], RemoveFile(p)
  PROVE  Accounted(c)' /\ Spare(p)'
<1> USE DEF IInv, TypeOK
<1>1. /\ pc[p] = "delRemove" /\ ip[p] \in Recorded(c)
      /\ UNCHANGED <<faults, cid, net>>
  BY DEF RemoveFile, Data, Progress, Recorded, args
<1>2. /\ IsFiniteSet(NetsOf(c)) /\ IsFiniteSet(Recorded(c))
      /\ Cardinality(Recorded(c)) <= Cardinality(NetsOf(c)) + faults
  BY DEF RecordInv, Accounted
<1>3. Recorded(c)' = Recorded(c) \ {ip[p]} /\ NetsOf(c)' = NetsOf(c)
  BY <1>1, ConstantAssumption DEF RemoveFile, Recorded, NetsOf
<1>4. IsFiniteSet(Recorded(c) \ {ip[p]}) /\ Cardinality(Recorded(c) \ {ip[p]}) = Cardinality(Recorded(c)) - 1
  BY <1>1, <1>2, LosesOne
<1>5. Cardinality(NetsOf(c) \ {net[p]}) \in {Cardinality(NetsOf(c)), Cardinality(NetsOf(c)) - 1}
  BY <1>2, FS_RemoveElement
<1>6. Cardinality(NetsOf(c)) \in Nat /\ Cardinality(Recorded(c)) \in Nat /\ faults \in Nat
  BY <1>2, FS_CardinalityType, ConstantAssumption
<1>7. Cardinality(Recorded(c)) - 1 <= Cardinality(NetsOf(c)) + faults
  BY <1>2, <1>6
<1>8. Cardinality(Recorded(c)) - 1 <= Cardinality(NetsOf(c) \ {net[p]}) + faults
  BY <1>2, <1>5, <1>6
<1>9. Accounted(c)'
  BY <1>1, <1>2, <1>3, <1>4, <1>7 DEF Accounted
<1>10. Cardinality(Recorded(c)') <= Cardinality(NetsOf(c)' \ {net'[p]}) + faults'
  BY <1>1, <1>3, <1>4, <1>8
<1> QED
  BY <1>1, <1>9, <1>10 DEF Spare, Recorded, NetsOf

\* The walk ends the call: it has found no file, or has failed to read one.
LEMMA WalkAccount ==
  ASSUME IInv, RecordInv, NEW p \in Procs, NEW c \in Containers, c = cid[p],
         \/ WalkFiles(p, "delGet") /\ Recorded(c) = {}
         \/ WalkFilesSkips(p)
  PROVE  Accounted(c)' /\ Spare(p)'
<1> USE DEF IInv, TypeOK
<1>1. UNCHANGED <<cid, net, files, att>>
  BY DEF WalkFiles, WalkFilesSkips, args
<1>2. /\ IsFiniteSet(NetsOf(c)) /\ IsFiniteSet(Recorded(c))
      /\ Cardinality(Recorded(c)) <= Cardinality(NetsOf(c)) + faults
  BY DEF RecordInv, Accounted
<1>3. Recorded(c)' = Recorded(c) /\ NetsOf(c)' = NetsOf(c)
  BY <1>1 DEF Recorded, NetsOf
<1>4. /\ IsFiniteSet(NetsOf(c) \ {net[p]})
      /\ Cardinality(NetsOf(c) \ {net[p]}) \in {Cardinality(NetsOf(c)), Cardinality(NetsOf(c)) - 1}
  BY <1>2, FS_RemoveElement
<1>5. /\ Cardinality(NetsOf(c)) \in Nat /\ Cardinality(Recorded(c)) \in Nat /\ faults \in Nat
      /\ Cardinality(NetsOf(c) \ {net[p]}) \in Nat
  BY <1>2, <1>4, FS_CardinalityType, ConstantAssumption
<1>6. (faults' = faults /\ Cardinality(Recorded(c)) = 0) \/ faults' = faults + 1
  BY FS_EmptySet DEF WalkFiles, WalkFilesSkips, Fault
<1>7. Cardinality(Recorded(c)) <= Cardinality(NetsOf(c)) + faults'
  BY <1>2, <1>5, <1>6
<1>8. Cardinality(Recorded(c)) <= Cardinality(NetsOf(c) \ {net[p]}) + faults'
  BY <1>2, <1>4, <1>5, <1>6
<1>9. Accounted(c)'
  BY <1>2, <1>3, <1>7 DEF Accounted
<1>10. Cardinality(Recorded(c)') <= Cardinality(NetsOf(c)' \ {net'[p]}) + faults'
  BY <1>1, <1>3, <1>8
<1> QED
  BY <1>1, <1>9, <1>10 DEF Spare, Recorded, NetsOf

\* A DEL that succeeds takes its network out of the account.
LEMMA ReturnAccount ==
  ASSUME IInv, RecordInv, NEW p \in Procs, NEW c \in Containers, c = cid[p],
         ReturnDel(p), pc[p] = "delOK"
  PROVE  Accounted(c)' /\ Spare(p)'
<1> USE DEF IInv, TypeOK
<1>1. net[p] \in Networks /\ att' = [att EXCEPT ![<<c, net[p]>>] = "none"] /\ UNCHANGED <<files, faults>>
  BY DEF ReturnDel
<1>2. /\ IsFiniteSet(NetsOf(c)) /\ IsFiniteSet(Recorded(c))
      /\ Cardinality(Recorded(c)) <= Cardinality(NetsOf(c) \ {net[p]}) + faults
  BY DEF RecordInv, Accounted, Spare, NoFileYet
<1>3. Recorded(c)' = Recorded(c) /\ NetsOf(c)' = NetsOf(c) \ {net[p]}
  BY <1>1 DEF Recorded, NetsOf
<1>4. IsFiniteSet(NetsOf(c) \ {net[p]})
  BY <1>2, FS_RemoveElement
<1>5. pc'[p] \notin NoFileYet
  BY DEF ReturnDel, Exit, Goto, NoFileYet
<1> QED
  BY <1>1, <1>2, <1>3, <1>4, <1>5 DEF Accounted, Spare

\* Steps after which the container has the same files and networks as before.
LEMMA RestAccount ==
  ASSUME IInv, RecordInv, NEW p \in Procs, Acts(p), NEW c \in Containers, For(p, c),
         ~ WriteFile(p), ~ RemoveFile(p), ~ WalkFilesSkips(p),
         ~ (WalkFiles(p, "delGet") /\ Recorded(c) = {}),
         ~ (ReturnDel(p) /\ pc[p] = "delOK"),
         \A n \in Networks : ~ CmdAdd(p, c, n)
  PROVE  Accounted(c)' /\ Spare(p)'
<1> USE DEF IInv, TypeOK
<1>1. CASE \E n \in Networks : CmdDel(p, c, n)
  <2>1. NetsOf(c)' = NetsOf(c) /\ Recorded(c)' = Recorded(c)
    BY <1>1 DEF CmdDel, StartCall, NetsOf, Recorded
  <2>2. pc'[p] \notin NoFileYet
    BY <1>1 DEF CmdDel, StartCall, Goto, NoFileYet
  <2> QED
    BY <2>1, <2>2, SameAccount
<1>2. ASSUME Start(p) PROVE \E n \in Networks : CmdDel(p, c, n)
  <2>1. PICK d \in Containers, n \in Networks : CmdAdd(p, d, n) \/ CmdDel(p, d, n)
    BY <1>2 DEF Start
  <2>2. d = c
    BY <2>1 DEF CmdAdd, CmdDel, StartCall, For
  <2> QED
    BY <2>1, <2>2
<1>3. CASE NewStoreFails(p) \/ Crash(p) \/ ReturnAdd(p) \/ ReturnDel(p)
  <2>1. Exit(p) /\ pc[p] # "idle" /\ UNCHANGED files
    BY <1>3 DEF NewStoreFails, Crash, ReturnAdd, ReturnDel
  <2>2. c = cid[p] /\ net[p] \in Networks
    BY <2>1 DEF For
  <2>3. NetsOf(c)' = NetsOf(c)
    <3>1. CASE StillDue(p)
      BY <2>2, <3>1 DEF StillDue, NetsOf
    <3>2. CASE ReturnAdd(p) /\ pc[p] = "addOK"
      <4>1. att[<<c, net[p]>>] = "adding" /\ att' = [att EXCEPT ![<<c, net[p]>>] = "up"]
        BY <2>2, <3>2 DEF ReturnAdd, Control, AddInProgress, Adding, AddLocked
      <4> QED
        BY <2>2, <4>1 DEF NetsOf
    <3> QED
      BY <1>3, <3>1, <3>2 DEF NewStoreFails, Crash, ReturnAdd, ReturnDel
  <2>4. Recorded(c)' = Recorded(c) /\ pc'[p] \notin NoFileYet
    BY <2>1 DEF Recorded, Exit, Goto, NoFileYet
  <2> QED
    BY <2>3, <2>4, SameAccount
<1>4. CASE NewMixStore(p) \/ Lock(p) \/ Works(p)
  <2>1. UNCHANGED <<att, net>>
    BY <1>4, WorksInside DEF NewMixStore, Lock, args
  <2>2. NetsOf(c)' = NetsOf(c)
    BY <2>1 DEF NetsOf
  <2>3. Recorded(c)' = Recorded(c)
    <3>1. CASE UNCHANGED files
      BY <3>1 DEF Recorded
    <3>2. CASE CreateFile(p) /\ files[ip[p]] = None /\ Writes(p, Blank)
      BY <3>2, ConstantAssumption DEF Writes, Recorded
    <3>3. CASE WriteFileFails(p) /\ Writes(p, None)
      <4>1. files[ip[p]] = Blank
        BY <3>3 DEF WriteFileFails, Data, Progress
      <4> QED
        BY <3>3, <4>1, ConstantAssumption DEF Writes, Recorded
    <3>4. CASE Works(p)
      BY <3>1, <3>2, <3>3, <3>4, WorkKinds DEF Adds, Takes, Untouched
    <3> QED
      BY <1>4, <3>1, <3>4 DEF NewMixStore, Lock
  <2>4. pc'[p] \in NoFileYet => pc[p] \in NoFileYet
    <3>1. CASE NewMixStore(p) \/ Lock(p)
      BY <3>1 DEF NewMixStore, Lock, Goto, NoFileYet
    <3>2. CASE Reserve(p)
      BY <3>2 DEF Reserve, CheckRoom, AddFixedIP, AddFixedIPExhausted, AddFixedIPLost, CreateFile,
          WriteFileFails, ReserveFails, Goto, NoFileYet
    <3>3. CASE ReleaseByID(p)
      <4>1. pc[p] = "delWalk" => c = cid[p]
        BY DEF For
      <4> QED
        BY <3>3, <4>1 DEF ReleaseByID, WalkFiles, ReleaseGet, ReleaseUpdate, ReleaseUpdateLost,
          ReleaseFails, Goto, NoFileYet
    <3> QED
      BY <1>4, <3>1, <3>2, <3>3 DEF Works
  <2> QED
    BY <2>1, <2>2, <2>3, <2>4, SameAccount
<1> QED
  BY <1>1, <1>2, <1>3, <1>4 DEF Acts, Step, Works

LEMMA NextRecord ==
  ASSUME IInv, RecordInv, NEW p \in Procs, Acts(p)
  PROVE  RecordInv'
<1>1. PICK c \in Containers : For(p, c)
  BY ActsFor DEF IInv
<1>2. Accounted(c)' /\ Spare(p)'
  <2>1. CASE \E n \in Networks : CmdAdd(p, c, n)
    BY <2>1, AddAccount
  <2>2. ASSUME pc[p] # "idle" PROVE c = cid[p]
    BY <1>1, <2>2 DEF For
  <2>3. CASE WriteFile(p)
    BY <2>2, <2>3, WriteAccount DEF WriteFile
  <2>4. CASE RemoveFile(p)
    BY <2>2, <2>4, RemoveAccount DEF RemoveFile
  <2>5. CASE WalkFilesSkips(p) \/ (WalkFiles(p, "delGet") /\ Recorded(c) = {})
    <3>1. pc[p] = "delWalk"
      BY <2>5 DEF WalkFilesSkips, WalkFiles
    <3> QED
      BY <2>2, <2>5, <3>1, WalkAccount
  <2>6. CASE ReturnDel(p) /\ pc[p] = "delOK"
    BY <2>2, <2>6, ReturnAccount
  <2> QED
    BY <1>1, <2>1, <2>3, <2>4, <2>5, <2>6, RestAccount
<1>3. /\ \A d \in Containers \ {c} : Accounted(d)'
      /\ \A q \in Procs \ {p} : Spare(q)'
  BY <1>1, OtherAccounts
<1> QED
  BY <1>2, <1>3 DEF RecordInv

LEMMA RecordHolds == Spec => []RecordInv
<1>1. IInv /\ RecordInv /\ [Next]_vars => RecordInv'
  <2>1. CASE UNCHANGED vars
    BY <2>1 DEF vars, RecordInv, Accounted, Spare, NetsOf, Recorded
  <2> QED
    BY <2>1, NextRecord DEF Next, Acts
<1> QED
  BY <1>1, InitRecord, Inductive, PTL DEF Spec

\* What the runtime takes to be deleted leaves no file behind, but for one file
\* for each fault, on any number of networks.
THEOREM RecordsBoundedHolds == Spec => []RecordsBounded
<1>1. RecordInv => RecordsBounded
  BY DEF RecordInv, Accounted, RecordsBounded, NetsOf
<1> QED
  BY <1>1, RecordHolds, PTL

-----------------------------------------------------------------------------
(***************************************************************************)
(* What a DEL that succeeds has released, without faults                   *)
(***************************************************************************)
\* The address ADD returned has its file until the DEL that is about to return.
LeaseFiled(c) ==
    \A n \in Networks : lease[<<c, n>>] # None =>
        lease[<<c, n>>] \in Recorded(c) \/ \E p \in Procs : pc[p] = "delOK" /\ cid[p] = c

\* That DEL works on this address, and has taken it off when it succeeds.
Clearing(p) ==
    /\ pc[p] \in {"delGet", "delUpdate", "delRemove"} => lease[<<cid[p], net[p]>>] \in {None, ip[p]}
    /\ pc[p] = "delOK" => lease[<<cid[p], net[p]>>] \notin port

ClearInv == faults = 0 => (\A c \in Containers : LeaseFiled(c)) /\ (\A p \in Procs : Clearing(p))

LEMMA InitClear == Init => ClearInv
  BY DEF Init, ClearInv, LeaseFiled, Clearing

LEMMA OtherLeases ==
  ASSUME IInv, ClearInv, NEW p \in Procs, Acts(p), NEW c \in Containers, For(p, c), faults = 0
  PROVE  /\ \A d \in Containers \ {c} : LeaseFiled(d)'
         /\ \A q \in Procs \ {p} : Clearing(q)'
<1>1. ASSUME NEW d \in Containers \ {c} PROVE LeaseFiled(d)'
  <2>1. /\ \A n \in Networks : lease'[<<d, n>>] = lease[<<d, n>>]
        /\ Recorded(d)' = Recorded(d)
    BY <1>1, OtherContainers, OtherRecords
  <2>2. ASSUME NEW q \in Procs, pc[q] = "delOK" /\ cid[q] = d PROVE pc'[q] = "delOK" /\ cid'[q] = d
    <3>1. q # p
      BY <2>2 DEF For
    <3> QED
      BY <2>2, <3>1, OthersKeepTheirs DEF IInv
  <2> QED
    BY <2>1, <2>2 DEF ClearInv, LeaseFiled
<1>2. ASSUME NEW q \in Procs \ {p} PROVE Clearing(q)'
  <2>1. pc'[q] = pc[q] /\ cid'[q] = cid[q] /\ net'[q] = net[q] /\ ip'[q] = ip[q]
    BY OthersKeepTheirs DEF IInv
  <2>2. ASSUME pc[q] \in {"delGet", "delUpdate", "delRemove", "delOK"}
        PROVE  lease'[<<cid[q], net[q]>>] = lease[<<cid[q], net[q]>>]
    <3>1. pc[q] # "idle" /\ cid[q] \in Containers /\ net[q] \in Networks
      BY <2>2 DEF IInv, TypeOK
    <3> QED
      BY <3>1, OtherContainers
  <2>3. ASSUME pc[q] = "delOK" PROVE UNCHANGED port
    <3>1. pc[p] \notin Locked
      BY <2>3 DEF IInv, Control, LockHeld, Locked, DelLocked
    <3> QED
      BY <3>1, WorksInside, OtherSteps
  <2> QED
    BY <2>1, <2>2, <2>3 DEF ClearInv, Clearing
<1> QED
  BY <1>1, <1>2

\* Without a fault a container has at most one file on one network.
LEMMA OneFile ==
  ASSUME OneNetwork, IInv, RecordInv, faults = 0, NEW c \in Containers, NEW n \in Networks,
         NEW a \in Recorded(c), NEW b \in Recorded(c)
  PROVE  a = b
<1> SUFFICES ASSUME a # b PROVE FALSE
  OBVIOUS
<1>1. /\ IsFiniteSet(NetsOf(c)) /\ IsFiniteSet(Recorded(c))
      /\ Cardinality(Recorded(c)) <= Cardinality(NetsOf(c)) + 0
  BY DEF RecordInv, Accounted
<1>2. NetsOf(c) \in SUBSET {n}
  BY DEF OneNetwork, NetsOf
<1>3. IsFiniteSet({n}) /\ Cardinality({n}) = 1
  BY FS_Singleton, Zenon
<1>4. Cardinality(NetsOf(c)) <= 1
  BY <1>2, <1>3, FS_Subset
<1>5. IsFiniteSet({a}) /\ Cardinality({a}) = 1
  BY FS_Singleton, Zenon
<1>6. IsFiniteSet({a} \cup {b}) /\ Cardinality({a} \cup {b}) = 2
  <2>1. PICK S : S = {a}
    OBVIOUS
  <2>2. IsFiniteSet(S) /\ Cardinality(S) = 1 /\ b \notin S
    BY <1>5, <2>1
  <2>3. IsFiniteSet(S \cup {b}) /\ Cardinality(S \cup {b}) = Cardinality(S) + 1
    BY <2>2, FS_AddElement
  <2> QED
    BY <2>1, <2>2, <2>3
<1>7. {a} \cup {b} \in SUBSET Recorded(c)
  OBVIOUS
<1>8. Cardinality({a} \cup {b}) <= Cardinality(Recorded(c))
  BY <1>1, <1>7, FS_Subset
<1>9. Cardinality(NetsOf(c)) \in Nat /\ Cardinality(Recorded(c)) \in Nat
  BY <1>1, FS_CardinalityType
<1> QED
  BY <1>1, <1>4, <1>6, <1>8, <1>9

\* The steps of the call for c itself.
LEMMA OwnLease ==
  ASSUME OneNetwork, IInv, Place, RecordInv, ClearInv, NEW p \in Procs, Acts(p),
         NEW c \in Containers, For(p, c), faults = 0, faults' = 0
  PROVE  LeaseFiled(c)' /\ Clearing(p)'
<1> USE DEF IInv, TypeOK
<1>0. ~ Fault /\ LeaseFiled(c) /\ Clearing(p)
  BY DEF Fault, ClearInv
<1>1. ASSUME pc[p] # "idle" PROVE c = cid[p] /\ net[p] \in Networks
  BY <1>1 DEF For
<1>2. ASSUME UNCHANGED lease, Recorded(c) \subseteq Recorded(c)', pc[p] # "delOK"
      PROVE  LeaseFiled(c)'
  <2>1. ASSUME NEW q \in Procs, pc[q] = "delOK" /\ cid[q] = c PROVE pc'[q] = "delOK" /\ cid'[q] = c
    <3>1. q # p
      BY <1>2, <2>1
    <3> QED
      BY <2>1, <3>1, OthersKeepTheirs
  <2> QED
    BY <1>0, <1>2, <2>1 DEF LeaseFiled
<1>3. CASE WalkFiles(p, "delGet")
  <2>1. /\ pc[p] = "delWalk" /\ c = cid[p] /\ net[p] \in Networks
        /\ UNCHANGED <<lease, files, port, cid, net>>
    BY <1>1, <1>3 DEF WalkFiles, args
  <2>2. \A q \in Procs : ~ (pc[q] = "delOK" /\ cid[q] = c)
    BY <2>1, OtherContainers
  <2>3. lease[<<c, net[p]>>] # None => lease[<<c, net[p]>>] \in Recorded(c)
    BY <1>0, <2>1, <2>2 DEF LeaseFiled
  <2>4. LeaseFiled(c)'
    <3>1. Recorded(c)' = Recorded(c)
      BY <2>1 DEF Recorded
    <3> QED
      BY <1>2, <2>1, <3>1
  <2>5. CASE Recorded(c) = {} /\ Goto(p, "delOK")
    <3>1. lease[<<c, net[p]>>] = None /\ None \notin port
      BY <2>3, <2>5, ConstantAssumption
    <3>2. pc'[p] = "delOK"
      BY <2>5 DEF Goto
    <3> QED
      BY <2>1, <2>4, <3>1, <3>2 DEF Clearing
  <2>6. ASSUME NEW a \in Recorded(c), ip' = [ip EXCEPT ![p] = a], Goto(p, "delGet")
        PROVE  Clearing(p)'
    <3>1. lease[<<c, net[p]>>] \in {None, a}
      BY <2>1, <2>3, <2>6, OneFile
    <3>2. pc'[p] = "delGet" /\ ip'[p] = a
      BY <2>6 DEF Goto
    <3> QED
      BY <2>1, <3>1, <3>2 DEF Clearing
  <2> QED
    BY <1>3, <2>1, <2>4, <2>5, <2>6 DEF WalkFiles
<1>4. CASE ReleaseGet(p) \/ ReleaseUpdate(p)
  <2>1. /\ pc[p] \in {"delGet", "delUpdate"} /\ pc'[p] \in {"delUpdate", "delRemove"}
        /\ UNCHANGED <<lease, files, cid, net, ip>>
    BY <1>4 DEF ReleaseGet, ReleaseUpdate, args, Goto
  <2>2. Recorded(c)' = Recorded(c)
    BY <2>1 DEF Recorded
  <2> QED
    BY <1>0, <1>2, <2>1, <2>2 DEF Clearing
<1>5. CASE RemoveFile(p)
  <2>1. /\ pc[p] = "delRemove" /\ pc'[p] = "delOK" /\ c = cid[p] /\ ip[p] \notin port
        /\ UNCHANGED <<lease, port, cid, net>>
    BY <1>1, <1>5 DEF RemoveFile, args, Goto, Place, Off
  <2>2. lease[<<c, net[p]>>] \in {None, ip[p]} /\ None \notin port
    BY <1>0, <2>1, ConstantAssumption DEF Clearing
  <2> QED
    BY <2>1, <2>2 DEF Clearing, LeaseFiled
<1>6. CASE ReturnDel(p) \/ ReturnAdd(p)
  <2>1. c = cid[p] /\ net[p] \in Networks /\ UNCHANGED <<files, port>> /\ pc'[p] = "idle"
    BY <1>1, <1>6 DEF ReturnDel, ReturnAdd, Exit, Goto
  <2>2. Recorded(c)' = Recorded(c)
    BY <2>1 DEF Recorded
  <2>3. CASE pc[p] = "delOK"
    <3>1. \A n \in Networks : lease'[<<c, n>>] = None
      BY <1>6, <2>1, <2>3 DEF ReturnDel, ReturnAdd, OneNetwork
    <3> QED
      BY <2>1, <3>1 DEF LeaseFiled, Clearing
  <2>4. CASE pc[p] = "addOK"
    <3>1. ip[p] \in Recorded(c)
      BY <2>1, <2>4 DEF Data, Progress, Recorded, FixedIPs
    <3>2. \A n \in Networks : lease'[<<c, n>>] = ip[p]
      BY <1>6, <2>1, <2>4 DEF ReturnDel, ReturnAdd, OneNetwork
    <3> QED
      BY <2>1, <2>2, <3>1, <3>2 DEF LeaseFiled, Clearing
  <2>5. CASE pc[p] \notin {"delOK", "addOK"}
    <3>1. UNCHANGED lease
      BY <1>6, <2>5 DEF ReturnDel, ReturnAdd
    <3> QED
      BY <1>2, <2>1, <2>2, <2>5, <3>1 DEF Clearing
  <2> QED
    BY <2>3, <2>4, <2>5
<1>7. CASE Reserve(p)
  <2>1. pc[p] \in AddLocked /\ UNCHANGED lease /\ pc'[p] \in AddLocked
    BY <1>7 DEF Reserve, CheckRoom, AddFixedIP, AddFixedIPExhausted, AddFixedIPLost, CreateFile,
        WriteFile, WriteFileFails, ReserveFails, Goto, AddLocked
  <2>2. Recorded(c) \subseteq Recorded(c)'
    <3>1. CASE UNCHANGED files
      BY <3>1 DEF Recorded
    <3>2. CASE \E x : Writes(p, x) /\ files[ip[p]] \notin Containers
      BY <3>2 DEF Writes, Recorded
    <3>3. CASE WriteFile(p) \/ WriteFileFails(p)
      <4>1. files[ip[p]] = Blank
        BY <3>3 DEF WriteFile, WriteFileFails, Data, Progress
      <4> QED
        BY <3>2, <3>3, <4>1, ConstantAssumption DEF WriteFile, WriteFileFails, Writes
    <3>4. CASE CreateFile(p)
      <4>1. CASE files[ip[p]] = None
        <5>1. Writes(p, Blank) /\ None \notin Containers
          BY <3>4, <4>1, ConstantAssumption DEF CreateFile, Writes
        <5> QED
          BY <3>2, <4>1, <5>1
      <4>2. CASE files[ip[p]] # None
        BY <3>1, <3>4, <4>2 DEF CreateFile
      <4> QED
        BY <4>1, <4>2
    <3> QED
      BY <1>7, <3>1, <3>3, <3>4 DEF Reserve, CheckRoom, AddFixedIP, AddFixedIPExhausted,
          AddFixedIPLost, ReserveFails
  <2> QED
    BY <1>2, <2>1, <2>2 DEF Clearing, AddLocked
<1>8. CASE Start(p) \/ NewMixStore(p) \/ Lock(p)
  <2>1. /\ pc'[p] \notin {"delGet", "delUpdate", "delRemove", "delOK"} /\ pc[p] # "delOK"
        /\ UNCHANGED <<lease, files>>
    BY <1>8 DEF Start, CmdAdd, CmdDel, StartCall, NewMixStore, Lock, Goto
  <2>2. Recorded(c)' = Recorded(c)
    BY <2>1 DEF Recorded
  <2> QED
    BY <1>2, <2>1, <2>2 DEF Clearing
<1> QED
  BY <1>0, <1>3, <1>4, <1>5, <1>6, <1>7, <1>8
  DEF Acts, Step, ReleaseByID, NewStoreFails, Crash, WalkFilesSkips, ReleaseUpdateLost, ReleaseFails

LEMMA NextClear ==
  ASSUME OneNetwork, IInv, Place, RecordInv, ClearInv, NEW p \in Procs, Acts(p)
  PROVE  ClearInv'
<1> SUFFICES ASSUME faults' = 0
             PROVE  (\A c \in Containers : LeaseFiled(c)') /\ (\A q \in Procs : Clearing(q)')
  BY DEF ClearInv
<1>1. faults = 0
  BY FaultsGrow, ConstantAssumption DEF IInv, TypeOK
<1>2. PICK c \in Containers : For(p, c)
  BY ActsFor DEF IInv
<1> QED
  BY <1>1, <1>2, OwnLease, OtherLeases

\* On a node with one network, a DEL that reports success without a fault has
\* taken the address that ADD returned off the port.
THEOREM ReleaseClearsHolds ==
  ASSUME OneNetwork
  PROVE  Spec => []ReleaseClears
<1>1. IInv /\ Place /\ RecordInv /\ ClearInv /\ [Next]_vars => ClearInv'
  <2>1. CASE UNCHANGED vars
    BY <2>1 DEF vars, ClearInv, LeaseFiled, Clearing, Recorded
  <2> QED
    BY <2>1, NextClear DEF Next, Acts
<1>2. ClearInv => ReleaseClears
  BY DEF ClearInv, Clearing, ReleaseClears
<1> QED
  BY <1>1, <1>2, InitClear, PlaceHolds, RecordHolds, PTL DEF Spec

-----------------------------------------------------------------------------
(***************************************************************************)
(* Files without an address                                                *)
(*                                                                         *)
(* Every file is paid for by faults, a file off the port with two, a file  *)
(* on the port with one; but a container that the runtime knows of has one *)
(* credit, for the file its ADD has written, and the file that a DEL is    *)
(* about to remove has another.  The credit goes when DEL succeeds: by     *)
(* then the file is removed, or the walk has failed.                       *)
(***************************************************************************)
Unbacked == {a \in IPs : files[a] \in Containers /\ a \notin port}
Backed   == {a \in IPs : files[a] \in Containers /\ a \in port}

Credit ==
    {c \in Containers :
        /\ Recorded(c) # {}
        /\ \/ \E n \in Networks : att[<<c, n>>] \in {"up", "torn"}
           \/ \E p \in Procs : pc[p] = "addOK" /\ cid[p] = c
        /\ \A p \in Procs : ~ (pc[p] = "delOK" /\ cid[p] = c)}

Removal == IF \E p \in Procs : pc[p] = "delRemove" THEN 1 ELSE 0

PaidInv ==
    /\ IsFiniteSet(Unbacked) /\ IsFiniteSet(Backed) /\ IsFiniteSet(Credit)
    /\ 2 * Cardinality(Unbacked) + Cardinality(Backed) <= faults + Cardinality(Credit) + Removal

LEMMA InitPaid == Init => PaidInv
<1> SUFFICES ASSUME Init PROVE PaidInv
  OBVIOUS
<1>1. Unbacked = {} /\ Backed = {} /\ Credit = {} /\ faults = 0 /\ Removal = 0
  BY ConstantAssumption DEF Init, Unbacked, Backed, Credit, Removal, Recorded
<1>2. IsFiniteSet({}) /\ Cardinality({}) = 0
  BY FS_EmptySet
<1> QED
  BY <1>1, <1>2 DEF PaidInv

LEMMA RemovalStep ==
  ASSUME IInv, NEW p \in Procs, Acts(p)
  PROVE  /\ Removal \in {0, 1} /\ Removal' \in {0, 1}
         /\ pc[p] # "delRemove" => Removal <= Removal'
         /\ pc'[p] = "delRemove" => Removal' = 1
         /\ pc[p] = "delUpdate" => Removal = 0
<1>1. \A q \in Procs \ {p} : pc'[q] = pc[q]
  BY OthersKeepTheirs DEF IInv
<1>2. pc[p] = "delUpdate" => \A q \in Procs : pc[q] # "delRemove"
  BY Alone DEF IInv, Locked, DelLocked, Informed
<1>3. Removal \in {0, 1} /\ Removal' \in {0, 1}
  BY DEF Removal
<1>4. ASSUME pc[p] # "delRemove" PROVE Removal <= Removal'
  <2>1. CASE \E q \in Procs : pc[q] = "delRemove"
    <3>1. \E q \in Procs : pc'[q] = "delRemove"
      BY <1>1, <1>4, <2>1
    <3> QED
      BY <3>1, <1>3 DEF Removal
  <2>2. CASE ~ \E q \in Procs : pc[q] = "delRemove"
    BY <1>3, <2>2 DEF Removal
  <2> QED
    BY <2>1, <2>2
<1> QED
  BY <1>2, <1>3, <1>4 DEF Removal

\* Only the container of the step can gain or lose its credit.
LEMMA OtherCredits ==
  ASSUME IInv, NEW p \in Procs, Acts(p), NEW c \in Containers, For(p, c),
         NEW d \in Containers \ {c}
  PROVE  d \in Credit' <=> d \in Credit
<1>1. Recorded(d)' = Recorded(d) /\ \A n \in Networks : att'[<<d, n>>] = att[<<d, n>>]
  BY OtherContainers, OtherRecords
<1>2. ASSUME NEW q \in Procs, NEW l \in {"addOK", "delOK"}
      PROVE  pc'[q] = l /\ cid'[q] = d <=> pc[q] = l /\ cid[q] = d
  <2>1. CASE q # p
    BY <2>1, OthersKeepTheirs DEF IInv
  <2>2. CASE q = p
    <3>1. ~ (pc[p] = l /\ cid[p] = d)
      BY <1>2 DEF For
    <3>2. ~ (pc'[p] = l /\ cid'[p] = d)
      BY <1>2, OtherContainers
    <3> QED
      BY <2>2, <3>1, <3>2
  <2> QED
    BY <2>1, <2>2
<1> QED
  BY <1>1, <1>2 DEF Credit

\* What the steps do to the credit of their own container.
LEMMA OwnCredit ==
  ASSUME OneNetwork, IInv, NEW p \in Procs, Acts(p), NEW c \in Containers, For(p, c), c \in Credit,
         ~ RemoveFile(p), ~ WalkFilesSkips(p)
  PROVE  c \in Credit'
<1> USE DEF IInv, TypeOK
<1>0. /\ Recorded(c) # {}
      /\ \/ \E n \in Networks : att[<<c, n>>] \in {"up", "torn"}
         \/ \E q \in Procs : pc[q] = "addOK" /\ cid[q] = c
      /\ \A q \in Procs : ~ (pc[q] = "delOK" /\ cid[q] = c)
  BY DEF Credit
<1>1. \A q \in Procs \ {p} : pc'[q] = pc[q] /\ cid'[q] = cid[q] /\ (pc[q] # "idle" => cid[q] # c)
  BY OthersKeepTheirs, OtherContainers
<1>2. (\E n \in Networks : att[<<c, n>>] \in {"up", "torn"}) \/ (pc[p] = "addOK" /\ cid[p] = c)
  BY <1>0, <1>1
<1>3. ASSUME \/ \E n \in Networks : att'[<<c, n>>] \in {"up", "torn"}
             \/ pc'[p] = "addOK" /\ cid'[p] = c,
             Recorded(c) \subseteq Recorded(c)', pc'[p] # "delOK"
      PROVE  c \in Credit'
  BY <1>0, <1>1, <1>3 DEF Credit
<1>4. CASE Start(p)
  <2>1. PICK d \in Containers, n \in Networks : CmdAdd(p, d, n) \/ CmdDel(p, d, n)
    BY <1>4 DEF Start
  <2>2. d = c /\ pc[p] = "idle" /\ pc'[p] \in {"addNew", "delNew"} /\ UNCHANGED files
    BY <2>1 DEF CmdAdd, CmdDel, StartCall, For, Goto
  <2>3. \E m \in Networks : att[<<c, m>>] \in {"up", "torn"}
    BY <1>2, <2>2
  <2>4. \E m \in Networks : att'[<<c, m>>] \in {"up", "torn"}
    <3>1. CASE CmdAdd(p, c, n)
      BY <2>3, <3>1 DEF CmdAdd, OneNetwork
    <3>2. CASE CmdDel(p, c, n)
      BY <2>3, <3>2 DEF CmdDel
    <3> QED
      BY <2>1, <2>2, <3>1, <3>2
  <2> QED
    BY <1>3, <2>2, <2>4 DEF Recorded
<1>5. CASE NewStoreFails(p) \/ Crash(p) \/ ReturnAdd(p) \/ ReturnDel(p)
  <2>1. /\ pc[p] # "idle" /\ c = cid[p] /\ net[p] \in Networks /\ UNCHANGED files
        /\ pc'[p] = "idle" /\ pc[p] # "delOK"
    BY <1>0, <1>5 DEF NewStoreFails, Crash, ReturnAdd, ReturnDel, Exit, Goto, For
  <2>2. att[<<c, net[p]>>] # "none"
    BY <1>2, <2>1 DEF OneNetwork, Control, AddInProgress, Adding, AddLocked
  <2>3. att'[<<c, net[p]>>] \in {"up", "torn"}
    BY <1>5, <2>1, <2>2 DEF NewStoreFails, Crash, ReturnAdd, ReturnDel, StillDue
  <2> QED
    BY <1>3, <2>1, <2>3 DEF Recorded
<1>6. CASE NewMixStore(p) \/ Lock(p)
  BY <1>2, <1>3, <1>6 DEF NewMixStore, Lock, Goto, Recorded
<1>7. CASE Works(p) /\ ~ WalkFiles(p, "delGet")
  <2>1. pc[p] \in Locked /\ UNCHANGED att
    BY <1>7, WorksInside
  <2>2. pc[p] # "addOK" /\ pc'[p] # "delOK"
    BY <1>7 DEF Works, Reserve, CheckRoom, AddFixedIP, AddFixedIPExhausted, AddFixedIPLost,
        CreateFile, WriteFile, WriteFileFails, ReserveFails, ReleaseByID, ReleaseGet,
        ReleaseUpdate, ReleaseUpdateLost, ReleaseFails, Goto
  <2>3. Recorded(c) \subseteq Recorded(c)'
    <3>1. CASE UNCHANGED files
      BY <3>1 DEF Recorded
    <3>2. CASE \E x : Writes(p, x) /\ files[ip[p]] \notin Containers
      BY <3>2 DEF Writes, Recorded
    <3>3. CASE WriteFile(p) \/ WriteFileFails(p)
      <4>1. files[ip[p]] = Blank
        BY <3>3 DEF WriteFile, WriteFileFails, Data, Progress
      <4> QED
        BY <3>2, <3>3, <4>1, ConstantAssumption DEF WriteFile, WriteFileFails, Writes
    <3>4. CASE files[ip[p]] = None /\ Writes(p, Blank)
      BY <3>2, <3>4, ConstantAssumption
    <3> QED
      BY <1>7, <3>1, <3>3, <3>4, WorkKinds DEF Adds, Takes, Untouched
  <2> QED
    BY <1>2, <1>3, <2>1, <2>2, <2>3
<1>8. CASE WalkFiles(p, "delGet")
  <2>1. c = cid[p] /\ pc[p] = "delWalk"
    BY <1>8 DEF WalkFiles, For
  <2>2. pc'[p] = "delGet" /\ UNCHANGED <<files, att>>
    BY <1>0, <1>8, <2>1 DEF WalkFiles, Goto
  <2> QED
    BY <1>2, <1>3, <2>1, <2>2 DEF Recorded
<1> QED
  BY <1>4, <1>5, <1>6, <1>7, <1>8, OtherSteps

\* What the steps do to the number of credits.
LEMMA CreditStep ==
  ASSUME OneNetwork, IInv, NEW p \in Procs, Acts(p), IsFiniteSet(Credit)
  PROVE  /\ IsFiniteSet(Credit')
         /\ Cardinality(Credit) <= Cardinality(Credit') + 1
         /\ ~ RemoveFile(p) /\ ~ WalkFilesSkips(p) => Cardinality(Credit) <= Cardinality(Credit')
<1>1. PICK c \in Containers : For(p, c)
  BY ActsFor DEF IInv
<1>2. Credit \subseteq Containers /\ Credit' \subseteq Containers
  BY DEF Credit
<1>3. Credit' \subseteq Credit \cup {c} /\ Credit \subseteq Credit' \cup {c}
  BY <1>1, <1>2, OtherCredits
<1>4. IsFiniteSet(Credit')
  BY <1>3, GrowsByOne
<1>5. Cardinality(Credit) <= Cardinality(Credit') + 1
  BY <1>3, <1>4, GrowsByOne
<1>6. ASSUME ~ RemoveFile(p), ~ WalkFilesSkips(p) PROVE Cardinality(Credit) <= Cardinality(Credit')
  <2>1. c \in Credit => c \in Credit'
    BY <1>1, <1>6, OwnCredit
  <2>2. Credit \in SUBSET Credit'
    BY <1>3, <2>1
  <2> QED
    BY <1>4, <2>2, FS_Subset
<1> QED
  BY <1>4, <1>5, <1>6

\* The credit for the file of a container comes with the file.
LEMMA WriteCredits ==
  ASSUME OneNetwork, IInv, NEW p \in Procs, WriteFile(p), IsFiniteSet(Credit)
  PROVE  Cardinality(Credit) + 1 <= Cardinality(Credit')
<1> USE DEF IInv, TypeOK
<1>1. Acts(p) /\ Works(p)
  BY DEF Acts, Step, Reserve, Works
<1>2. /\ pc[p] = "addWrite" /\ cid[p] \in Containers /\ net[p] \in Networks /\ ip[p] \in IPs
      /\ pc'[p] = "addOK" /\ UNCHANGED cid /\ files'[ip[p]] = cid[p]
  BY DEF WriteFile, args, Goto, Data, Progress, FixedIPs
<1>3. For(p, cid[p])
  BY <1>2 DEF For
<1>4. \A q \in Procs \ {p} : pc'[q] = pc[q] /\ cid'[q] = cid[q] /\ (pc[q] # "idle" => cid[q] # cid[p])
  BY <1>1, <1>2, <1>3, OthersKeepTheirs, OtherContainers
<1>5. cid[p] \notin Credit
  <2>1. \A n \in Networks : att[<<cid[p], n>>] = "adding"
    BY <1>2 DEF OneNetwork, Control, AddInProgress, Adding, AddLocked
  <2>2. \A q \in Procs : ~ (pc[q] = "addOK" /\ cid[q] = cid[p])
    BY <1>2, <1>4
  <2> QED
    BY <2>1, <2>2 DEF Credit
<1>6. cid[p] \in Credit'
  <2>1. ip[p] \in Recorded(cid[p])'
    BY <1>2 DEF Recorded
  <2>2. \A q \in Procs : ~ (pc'[q] = "delOK" /\ cid'[q] = cid'[p])
    BY <1>2, <1>4
  <2> QED
    BY <1>2, <2>1, <2>2 DEF Credit
<1>7. Credit \cup {cid[p]} \in SUBSET Credit'
  <2>1. Credit \subseteq Containers
    BY DEF Credit
  <2>2. \A d \in Containers \ {cid[p]} : d \in Credit => d \in Credit'
    BY <1>1, <1>2, <1>3, OtherCredits
  <2> QED
    BY <1>5, <1>6, <2>1, <2>2
<1>8. /\ IsFiniteSet(Credit')
      /\ Cardinality(Credit \cup {cid[p]}) = Cardinality(Credit) + 1
  BY <1>1, <1>5, CreditStep, FS_AddElement
<1> QED
  BY <1>7, <1>8, FS_Subset

\* What the steps do to the price of the files.
Price == 2 * Cardinality(Unbacked) + Cardinality(Backed)

LEMMA PriceSame ==
  ASSUME IsFiniteSet(Unbacked), IsFiniteSet(Backed), Unbacked' = Unbacked, Backed' = Backed
  PROVE  IsFiniteSet(Unbacked') /\ IsFiniteSet(Backed') /\ Price' <= Price
<1>1. Cardinality(Unbacked) \in Nat /\ Cardinality(Backed) \in Nat
  BY FS_CardinalityType
<1> QED
  BY <1>1 DEF Price

\* The address of a file comes back to the port.
LEMMA PriceAdds ==
  ASSUME IInv, IsFiniteSet(Unbacked), IsFiniteSet(Backed), NEW p \in Procs, NEW a \in IPs, Adds(p, a)
  PROVE  IsFiniteSet(Unbacked') /\ IsFiniteSet(Backed') /\ Price' <= Price
<1>1. CASE files[a] \notin Containers
  <2>1. Unbacked' = Unbacked /\ Backed' = Backed
    BY <1>1 DEF Adds, Unbacked, Backed
  <2> QED
    BY <2>1, PriceSame
<1>2. CASE files[a] \in Containers
  <2>1. a \in Unbacked /\ a \notin Backed /\ Unbacked' = Unbacked \ {a} /\ Backed' = Backed \cup {a}
    BY <1>2 DEF Adds, Unbacked, Backed
  <2>2. IsFiniteSet(Unbacked') /\ Cardinality(Unbacked') = Cardinality(Unbacked) - 1
    BY <2>1, FS_RemoveElement
  <2>3. IsFiniteSet(Backed') /\ Cardinality(Backed') = Cardinality(Backed) + 1
    BY <2>1, FS_AddElement
  <2>4. Cardinality(Unbacked) \in Nat /\ Cardinality(Backed) \in Nat
    BY FS_CardinalityType
  <2> QED
    BY <2>2, <2>3, <2>4 DEF Price
<1> QED
  BY <1>1, <1>2

\* A DEL takes the address of a file off the port.
LEMMA PriceTakes ==
  ASSUME IInv, IsFiniteSet(Unbacked), IsFiniteSet(Backed), NEW p \in Procs, Takes(p)
  PROVE  IsFiniteSet(Unbacked') /\ IsFiniteSet(Backed') /\ Price' <= Price + 1
<1>1. pc[p] = "delUpdate" /\ ip[p] \in IPs /\ files[ip[p]] \in Containers /\ port \subseteq IPs
  BY DEF Takes, IInv, TypeOK, Data, Progress
<1>2. Cardinality(Unbacked) \in Nat /\ Cardinality(Backed) \in Nat
  BY FS_CardinalityType
<1>3. CASE port' = port
  <2>1. Unbacked' = Unbacked /\ Backed' = Backed
    BY <1>3 DEF Takes, Unbacked, Backed
  <2> QED
    BY <1>2, <2>1 DEF Price
<1>4. CASE port' # port
  <2>1. ip[p] \in port /\ port' = port \ {ip[p]} /\ UNCHANGED files
    BY <1>4 DEF Takes
  <2>2. ip[p] \notin Unbacked /\ ip[p] \in Backed
    BY <1>1, <2>1 DEF Unbacked, Backed
  <2>3. Unbacked' = Unbacked \cup {ip[p]} /\ Backed' = Backed \ {ip[p]}
    BY <1>1, <2>1 DEF Unbacked, Backed
  <2>4. IsFiniteSet(Unbacked') /\ Cardinality(Unbacked') = Cardinality(Unbacked) + 1
    BY <2>2, <2>3, FS_AddElement
  <2>5. IsFiniteSet(Backed') /\ Cardinality(Backed') = Cardinality(Backed) - 1
    BY <2>2, <2>3, FS_RemoveElement
  <2> QED
    BY <1>2, <2>4, <2>5 DEF Price
<1> QED
  BY <1>3, <1>4

\* A file is written on the port, and removed off the port.
LEMMA PriceWrites ==
  ASSUME IInv, Place, IsFiniteSet(Unbacked), IsFiniteSet(Backed), NEW p \in Procs
  PROVE  /\ WriteFile(p) => IsFiniteSet(Unbacked') /\ IsFiniteSet(Backed') /\ Price' <= Price + 1
         /\ RemoveFile(p) => IsFiniteSet(Unbacked') /\ IsFiniteSet(Backed') /\ Price' <= Price - 2
<1> USE DEF IInv, TypeOK
<1>1. Cardinality(Unbacked) \in Nat /\ Cardinality(Backed) \in Nat
  BY FS_CardinalityType
<1>2. ASSUME WriteFile(p) PROVE IsFiniteSet(Unbacked') /\ IsFiniteSet(Backed') /\ Price' <= Price + 1
  <2>1. /\ ip[p] \in port /\ ip[p] \in IPs /\ files[ip[p]] = Blank /\ cid[p] \in Containers
        /\ files' = [files EXCEPT ![ip[p]] = cid[p]] /\ UNCHANGED port
    BY <1>2 DEF WriteFile, Data, Progress, FixedIPs
  <2>2. Unbacked' = Unbacked /\ Backed' = Backed \cup {ip[p]}
    BY <2>1, ConstantAssumption DEF Unbacked, Backed
  <2>3. ip[p] \notin Backed
    BY <2>1, ConstantAssumption DEF Backed
  <2>4. IsFiniteSet(Backed') /\ Cardinality(Backed') = Cardinality(Backed) + 1
    BY <2>2, <2>3, FS_AddElement
  <2> QED
    BY <1>1, <2>2, <2>4 DEF Price
<1>3. ASSUME RemoveFile(p) PROVE IsFiniteSet(Unbacked') /\ IsFiniteSet(Backed') /\ Price' <= Price - 2
  <2>1. /\ ip[p] \notin port /\ ip[p] \in IPs /\ files[ip[p]] \in Containers
        /\ files' = [files EXCEPT ![ip[p]] = None] /\ UNCHANGED port
    BY <1>3 DEF RemoveFile, Data, Progress, Place, Off
  <2>2. Unbacked' = Unbacked \ {ip[p]} /\ Backed' = Backed /\ ip[p] \in Unbacked
    BY <2>1, ConstantAssumption DEF Unbacked, Backed
  <2>3. IsFiniteSet(Unbacked') /\ Cardinality(Unbacked') = Cardinality(Unbacked) - 1
    BY <2>2, LosesOne
  <2> QED
    BY <1>1, <2>2, <2>3 DEF Price
<1> QED
  BY <1>2, <1>3

LEMMA PriceStep ==
  ASSUME IInv, Place, IsFiniteSet(Unbacked), IsFiniteSet(Backed), NEW p \in Procs, Acts(p)
  PROVE  /\ IsFiniteSet(Unbacked') /\ IsFiniteSet(Backed')
         /\ \/ Price' <= Price /\ ~ RemoveFile(p)
            \/ Price' <= Price + 1 /\ (ReleaseUpdate(p) \/ ReleaseUpdateLost(p) \/ WriteFile(p))
            \/ Price' <= Price - 2 /\ RemoveFile(p)
<1>1. CASE RemoveFile(p)
  BY <1>1, PriceWrites
<1>2. CASE WriteFile(p)
  BY <1>2, PriceWrites
<1>3. CASE Takes(p) /\ (ReleaseUpdate(p) \/ ReleaseUpdateLost(p))
  BY <1>3, PriceTakes
<1>4. ASSUME NEW a \in IPs, Adds(p, a)
      PROVE  IsFiniteSet(Unbacked') /\ IsFiniteSet(Backed') /\ Price' <= Price /\ ~ RemoveFile(p)
  BY <1>4, PriceAdds DEF Adds, RemoveFile
<1>5. ASSUME NEW x \in {None, Blank}, Writes(p, x), files[ip[p]] \in {None, Blank}, ~ RemoveFile(p)
      PROVE  IsFiniteSet(Unbacked') /\ IsFiniteSet(Backed') /\ Price' <= Price
  <2>1. \A a \in IPs : files'[a] \in Containers <=> files[a] \in Containers
    BY <1>5, ConstantAssumption DEF Writes, IInv, TypeOK
  <2>2. \A a \in IPs : files'[a] = files[a] \/ (files[a] \notin Containers /\ files'[a] \notin Containers)
    BY <1>5, ConstantAssumption DEF Writes, IInv, TypeOK
  <2>3. Unbacked' = Unbacked /\ Backed' = Backed
    BY <1>5, <2>1 DEF Writes, Unbacked, Backed
  <2> QED
    BY <2>3, PriceSame
<1>6. CASE CreateFile(p) /\ files[ip[p]] = None /\ Writes(p, Blank)
  BY <1>5, <1>6 DEF CreateFile, RemoveFile
<1>7. CASE WriteFileFails(p) /\ Writes(p, None)
  <2>1. files[ip[p]] = Blank /\ ~ RemoveFile(p)
    BY <1>7 DEF WriteFileFails, RemoveFile, IInv, Data, Progress
  <2> QED
    BY <1>5, <1>7, <2>1
<1>8. CASE Untouched /\ ~ RemoveFile(p)
  <2>1. Unbacked' = Unbacked /\ Backed' = Backed
    BY <1>8 DEF Untouched, Unbacked, Backed
  <2> QED
    BY <1>8, <2>1, PriceSame
<1>9. ~ Works(p) => Untouched
  BY OtherSteps DEF Untouched
<1> QED
  BY <1>1, <1>2, <1>3, <1>4, <1>6, <1>7, <1>8, <1>9, WorkKinds

LEMMA NextPaid ==
  ASSUME OneNetwork, IInv, Place, PaidInv, NEW p \in Procs, Acts(p)
  PROVE  PaidInv'
<1>1. /\ IsFiniteSet(Unbacked) /\ IsFiniteSet(Backed) /\ IsFiniteSet(Credit)
      /\ Price <= faults + Cardinality(Credit) + Removal
  BY DEF PaidInv, Price
<1>2. IsFiniteSet(Unbacked') /\ IsFiniteSet(Backed') /\ IsFiniteSet(Credit')
  BY <1>1, PriceStep, CreditStep
<1>3. /\ Price \in Int /\ Price' \in Int
      /\ Cardinality(Credit) \in Nat /\ Cardinality(Credit') \in Nat
      /\ faults \in Nat /\ faults' \in Nat
  <2>1. /\ Cardinality(Unbacked) \in Nat /\ Cardinality(Unbacked') \in Nat
        /\ Cardinality(Backed) \in Nat /\ Cardinality(Backed') \in Nat
        /\ Cardinality(Credit) \in Nat /\ Cardinality(Credit') \in Nat
    BY <1>1, <1>2, FS_CardinalityType
  <2>2. faults \in Nat /\ faults' \in Nat
    BY FaultsGrow, ConstantAssumption DEF IInv, TypeOK
  <2> QED
    BY <2>1, <2>2 DEF Price
<1>4. /\ Removal \in {0, 1} /\ Removal' \in {0, 1}
      /\ pc[p] # "delRemove" => Removal <= Removal'
  BY RemovalStep
<1>5. faults <= faults'
  BY <1>3, FaultsGrow DEF IInv
<1>6. /\ Cardinality(Credit) <= Cardinality(Credit') + 1
      /\ ~ RemoveFile(p) /\ ~ WalkFilesSkips(p) => Cardinality(Credit) <= Cardinality(Credit')
  BY <1>1, CreditStep
<1>7. \/ Price' <= Price /\ ~ RemoveFile(p)
      \/ Price' <= Price + 1 /\ (ReleaseUpdate(p) \/ ReleaseUpdateLost(p) \/ WriteFile(p))
      \/ Price' <= Price - 2 /\ RemoveFile(p)
  BY <1>1, PriceStep
<1>8. Price' <= faults' + Cardinality(Credit') + Removal'
  <2>1. CASE Price' <= Price - 2
    BY <1>1, <1>3, <1>4, <1>5, <1>6, <2>1
  <2>2. CASE Price' <= Price + 1 /\ WriteFile(p)
    <3>1. Cardinality(Credit) + 1 <= Cardinality(Credit') /\ Removal <= Removal'
      BY <1>1, <1>4, <2>2, WriteCredits DEF WriteFile
    <3> QED
      BY <1>1, <1>3, <1>4, <1>5, <2>2, <3>1
  <2>3. CASE Price' <= Price + 1 /\ ReleaseUpdate(p)
    <3>1. pc[p] = "delUpdate" /\ pc'[p] = "delRemove"
      BY <2>3 DEF ReleaseUpdate, Goto, IInv, TypeOK
    <3>2. Removal = 0 /\ Removal' = 1
      BY <3>1, RemovalStep
    <3>3. Cardinality(Credit) <= Cardinality(Credit')
      BY <1>6, <3>1 DEF RemoveFile, WalkFilesSkips
    <3> QED
      BY <1>1, <1>3, <1>5, <2>3, <3>2, <3>3
  <2>4. CASE Price' <= Price + 1 /\ ReleaseUpdateLost(p)
    <3>1. pc[p] = "delUpdate" /\ faults' = faults + 1
      BY <2>4 DEF ReleaseUpdateLost, Fault
    <3>2. Cardinality(Credit) <= Cardinality(Credit') /\ Removal <= Removal'
      BY <1>4, <1>6, <3>1 DEF RemoveFile, WalkFilesSkips
    <3> QED
      BY <1>1, <1>3, <1>4, <2>4, <3>1, <3>2
  <2>5. CASE Price' <= Price /\ WalkFilesSkips(p)
    <3>1. Removal <= Removal' /\ faults' = faults + 1
      BY <1>4, <2>5 DEF WalkFilesSkips, Fault
    <3> QED
      BY <1>1, <1>3, <1>4, <1>6, <2>5, <3>1
  <2>6. CASE Price' <= Price /\ ~ RemoveFile(p) /\ pc[p] = "delRemove"
    <3>1. ReleaseFails(p) \/ Crash(p)
      BY <2>6 DEF Acts, Start, Step, CmdAdd, CmdDel, StartCall, NewMixStore, NewStoreFails, Lock,
          Reserve, CheckRoom, AddFixedIP, AddFixedIPExhausted, AddFixedIPLost, CreateFile,
          WriteFile, WriteFileFails, ReserveFails, ReleaseByID, WalkFiles, WalkFilesSkips,
          ReleaseGet, ReleaseUpdate, ReleaseUpdateLost, ReturnAdd, ReturnDel
    <3>2. faults' = faults + 1 /\ Cardinality(Credit) <= Cardinality(Credit')
      BY <1>6, <2>6, <3>1 DEF ReleaseFails, Crash, Fault, WalkFilesSkips
    <3> QED
      BY <1>1, <1>3, <1>4, <2>6, <3>2
  <2>7. CASE Price' <= Price /\ ~ RemoveFile(p) /\ ~ WalkFilesSkips(p) /\ pc[p] # "delRemove"
    BY <1>1, <1>3, <1>4, <1>5, <1>6, <2>7
  <2> QED
    BY <1>7, <2>1, <2>2, <2>3, <2>4, <2>5, <2>6, <2>7
<1> QED
  BY <1>2, <1>8 DEF PaidInv, Price

\* Every credit stands for a file that is no orphan.
LEMMA CreditsFiled ==
  ASSUME OneNetwork, IInv, Place, IsFiniteSet(Unbacked), IsFiniteSet(Backed)
  PROVE  Cardinality(Credit) <= Cardinality((Unbacked \ Orphans) \cup Backed)
<1> USE DEF IInv, TypeOK
<1> DEFINE Filed == (Unbacked \ Orphans) \cup Backed
           Named == {a \in Filed : files[a] \in Credit}
           owner == [a \in Named |-> files[a]]
<1>1. ASSUME NEW c \in Credit PROVE \E a \in Filed : files[a] = c
  <2>1. c \in Containers /\ Recorded(c) # {}
    BY DEF Credit
  <2>2. CASE \E n \in Networks : att[<<c, n>>] = "torn"
    <3>1. PICK a \in IPs : files[a] = c
      BY <2>1 DEF Recorded
    <3>2. a \notin Orphans
      BY <2>2, <3>1 DEF Orphans
    <3> QED
      BY <2>1, <3>1, <3>2 DEF Unbacked, Backed
  <2>3. CASE \E n \in Networks : att[<<c, n>>] = "up"
    <3>1. PICK n \in Networks : att[<<c, n>>] = "up"
      BY <2>3
    <3>2. lease[<<c, n>>] \in IPs /\ files[lease[<<c, n>>]] = c /\ lease[<<c, n>>] \in port
      BY <2>1, <3>1 DEF Leases, LeaseOnPort, LeaseRecorded, FixedIPs
    <3> QED
      BY <2>1, <3>2 DEF Backed
  <2>4. CASE \E p \in Procs : pc[p] = "addOK" /\ cid[p] = c
    <3>1. PICK p \in Procs : pc[p] = "addOK" /\ cid[p] = c
      BY <2>4
    <3>2. ip[p] \in IPs /\ files[ip[p]] = c /\ ip[p] \in port
      BY <3>1 DEF Data, Progress, FixedIPs
    <3> QED
      BY <2>1, <3>2 DEF Backed
  <2> QED
    BY <2>2, <2>3, <2>4 DEF Credit
<1>2. owner \in Surjection(Named, Credit)
  BY <1>1 DEF Surjection
<1>3. IsFiniteSet(Filed)
  <2>1. IsFiniteSet(Unbacked \ Orphans)
    BY FS_Difference
  <2> QED
    BY <2>1, FS_Union
<1>4. Named \in SUBSET Filed
  OBVIOUS
<1>5. IsFiniteSet(Named) /\ Cardinality(Named) <= Cardinality(Filed)
  <2> HIDE DEF Named, Filed
  <2> QED
    BY <1>3, <1>4, FS_Subset
<1>6. IsFiniteSet(Credit) /\ Cardinality(Credit) <= Cardinality(Named)
  <2> HIDE DEF Named, owner
  <2> QED
    BY <1>2, <1>5, FS_Surjection
<1>7. Cardinality(Credit) \in Nat /\ Cardinality(Named) \in Nat /\ Cardinality(Filed) \in Nat
  <2> HIDE DEF Named, Filed
  <2> QED
    BY <1>3, <1>5, <1>6, FS_CardinalityType
<1>8. Cardinality(Credit) <= Cardinality(Filed)
  <2> HIDE DEF Named, Filed
  <2> QED
    BY <1>5, <1>6, <1>7
<1> QED
  BY <1>8

LEMMA PaidSuffices ==
  ASSUME OneNetwork, IInv, Place, PaidInv
  PROVE  RecordBacked
<1>1. /\ IsFiniteSet(Unbacked) /\ IsFiniteSet(Backed)
      /\ 2 * Cardinality(Unbacked) + Cardinality(Backed) <= faults + Cardinality(Credit) + Removal
  BY DEF PaidInv
<1>2. IsFiniteSet(Credit) /\ Cardinality(Credit) \in Nat /\ faults \in Nat
  BY FS_CardinalityType, ConstantAssumption DEF PaidInv, IInv, TypeOK
<1>3. PICK K : K = Unbacked \ Orphans
  OBVIOUS
<1>4. Orphans \in SUBSET Unbacked /\ Unbacked \cap Orphans = Orphans
  BY DEF Orphans, Unbacked
<1>5. /\ IsFiniteSet(Orphans) /\ IsFiniteSet(K)
      /\ Cardinality(K) = Cardinality(Unbacked) - Cardinality(Orphans)
  <2>1. IsFiniteSet(Orphans)
    BY <1>1, <1>4, FS_Subset
  <2>2. /\ IsFiniteSet(Unbacked \ Orphans)
        /\ Cardinality(Unbacked \ Orphans) = Cardinality(Unbacked) - Cardinality(Unbacked \cap Orphans)
    BY <1>1, FS_Difference
  <2> QED
    BY <1>3, <1>4, <2>1, <2>2
<1>6. Cardinality(Credit) <= Cardinality(K) + Cardinality(Backed)
  <2>1. K \cap Backed = {} /\ Cardinality({}) = 0
    BY <1>3, FS_EmptySet DEF Unbacked, Backed
  <2>2. Cardinality(K \cup Backed) = Cardinality(K) + Cardinality(Backed) - Cardinality(K \cap Backed)
    BY <1>1, <1>5, FS_Union
  <2>3. Cardinality(Credit) <= Cardinality(K \cup Backed)
    BY <1>1, <1>3, CreditsFiled
  <2>4. Cardinality(K) \in Nat /\ Cardinality(Backed) \in Nat
    BY <1>1, <1>5, FS_CardinalityType
  <2>5. Cardinality(K \cup Backed) = Cardinality(K) + Cardinality(Backed)
    <3>1. Cardinality(K \cap Backed) = 0
      BY <2>1
    <3> QED
      BY <2>2, <2>4, <3>1
  <2> QED
    BY <2>3, <2>5
<1>7. Removal <= Cardinality(K)
  <2>1. CASE \E p \in Procs : pc[p] = "delRemove"
    <3>1. PICK p \in Procs : pc[p] = "delRemove"
      BY <2>1
    <3>2. ip[p] \in IPs /\ files[ip[p]] = cid[p] /\ cid[p] \in Containers /\ ip[p] \notin port
      BY <3>1 DEF IInv, TypeOK, Data, Progress, Place, Off
    <3>3. ip[p] \notin Orphans
      BY <3>1, <3>2 DEF Orphans, Deleting, DelLocked
    <3>4. ip[p] \in K
      BY <1>3, <3>2, <3>3 DEF Unbacked
    <3>5. Cardinality(K) \in Nat /\ Cardinality(K) # 0
      BY <1>5, <3>4, FS_CardinalityType, FS_EmptySet
    <3> QED
      BY <2>1, <3>5 DEF Removal
  <2>2. CASE ~ \E p \in Procs : pc[p] = "delRemove"
    BY <1>5, <2>2, FS_CardinalityType DEF Removal
  <2> QED
    BY <2>1, <2>2
<1>8. /\ Cardinality(Unbacked) \in Nat /\ Cardinality(Orphans) \in Nat /\ Cardinality(Backed) \in Nat
      /\ Cardinality(K) \in Nat /\ Removal \in {0, 1}
  BY <1>1, <1>5, FS_CardinalityType DEF Removal
<1> QED
  BY <1>1, <1>2, <1>5, <1>6, <1>7, <1>8 DEF RecordBacked

\* On a node with one network, a file that outlives its address and will never
\* be removed costs two faults, for any number of processes and containers.
THEOREM RecordBackedHolds ==
  ASSUME OneNetwork
  PROVE  Spec => []RecordBacked
<1>1. IInv /\ Place /\ PaidInv /\ [Next]_vars => PaidInv'
  <2>1. CASE UNCHANGED vars
    BY <2>1 DEF vars, PaidInv, Unbacked, Backed, Credit, Removal, Recorded
  <2> QED
    BY <2>1, NextPaid DEF Next, Acts
<1>2. IInv /\ Place /\ PaidInv => RecordBacked
  BY PaidSuffices
<1> QED
  BY <1>1, <1>2, InitPaid, PlaceHolds, PTL DEF Spec

=============================================================================
