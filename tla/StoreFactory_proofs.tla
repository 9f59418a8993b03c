------------------------- MODULE StoreFactory_proofs -------------------------
(***************************************************************************)
(* TLAPS proofs about StoreFactory, that is about the modes "eni" and      *)
(* "separate", for any number of processes, containers and ports.          *)
(***************************************************************************)
EXTENDS StoreFactory, FiniteSetTheorems, TLAPS

(***************************************************************************)
(* The inductive invariant.  The name of a port is the only record of an   *)
(* allocation, so each step has to know which names there are: a call      *)
(* knows the state of its container (OneCallPerContainer, CallState), that *)
(* there is no port of the name before it creates one or after it has      *)
(* deleted it (NoPortNow), and that the port in hand has the name          *)
(* (PortInHand).                                                           *)
(***************************************************************************)
OneCallPerContainer ==
    \A p, r \in Procs :
        pc[p] # "idle" /\ pc[r] # "idle" /\ cid[p] = cid[r] => p = r

CallState ==
    \A p \in Procs :
        /\ pc[p] \in Adding => att[cid[p]] = "adding"
        /\ pc[p] \in Deleting => att[cid[p]] \in {"none", "torn"}

NamesDiffer ==
    \A q, r \in Ports : ports[q] # None /\ ports[q] = ports[r] => q = r

NoPortNow ==
    \A p \in Procs :
        \/ pc[p] \in {"addCheck", "addCreate", "delOK"}
        \/ pc[p] = "addNew" /\ mode = "separate"
        => \A q \in Ports : ports[q] # cid[p]

PortInHand ==
    \A p \in Procs :
        pc[p] \in {"addAttach", "addOK", "delDelete"} =>
            port[p] \in Ports /\ ports[port[p]] = cid[p]

Calls == OneCallPerContainer /\ CallState
Names == NamesDiffer /\ NoPortNow /\ PortInHand
PortInv ==
    /\ PortTypeOK /\ mode \in {"eni", "separate"}
    /\ Calls /\ Names /\ NoOrphanPorts /\ LeaseNamed

(***************************************************************************)
(* What the eni mode adds: the flock, and the ports attached under it.     *)
(***************************************************************************)
Locked == (Adding \cup Deleting) \ {"addNew", "addLock", "delNew", "delLock"}

LockHeld == mode = "eni" => \A p \in Procs : pc[p] \in Locked <=> lock = p

AttachedNow ==
    mode = "eni" => \A p \in Procs : pc[p] = "addOK" => port[p] \in attached

AttachInv == LockHeld /\ AttachedNow /\ LeaseAttached

(***************************************************************************)
(* The bound on attached interfaces.  IsOverMax is compared under the lock *)
(* (Checked), and each port that is named but neither attached nor about   *)
(* to be was left behind by a fault (LeftBehind).                          *)
(***************************************************************************)
Named == {q \in Ports : ports[q] # None}

InHand == {port[p] : p \in {r \in Procs : pc[r] = "addAttach"}}

LeftBehind == (Named \ attached) \ InHand

Checked == \A p \in Procs : pc[p] = "addCreate" => Cardinality(attached) < MAX_ENIS

BoundInv ==
    IF mode = "separate" THEN attached = {}
    ELSE /\ IsFiniteSet(Named) /\ attached \subseteq Named
         /\ Checked
         /\ Cardinality(LeftBehind) <= faults
         /\ Cardinality(Named) <= MAX_ENIS + faults

IInv == TypeOK /\ PortInv /\ AttachInv

-----------------------------------------------------------------------------
(***************************************************************************)
(* The steps the two modes share                                           *)
(***************************************************************************)
LEMMA FaultType == faults \in 0..MaxFaults /\ Fault => faults' \in 0..MaxFaults
  BY NamedPortAssumption DEF Fault

LEMMA StartCallPorts ==
  ASSUME PortInv, UNCHANGED mode, NEW p \in Procs, NEW c \in Containers,
         CmdAdd(p, c) \/ CmdDel(p, c) \/ (CmdAddAgain(p, c) /\ mode = "eni")
  PROVE  PortInv'
<1> USE DEF PortInv, Calls, Names
<1>1. PICK l \in {"addNew", "delNew"}, s \in {"adding", "none", "torn"} :
           /\ StartCall(p, c, l, s)
           /\ l = "addNew" => s = "adding" /\ att[c] \in {"none", "failed"}
           /\ l = "addNew" /\ mode = "separate" => att[c] = "none"
           /\ l = "delNew" => s \in {"none", "torn"} /\ (s = "none" <=> att[c] = "none")
  <2>1. att[c] \in {"none", "adding", "up", "failed", "torn"}
    BY DEF PortTypeOK
  <2> QED
    BY <2>1 DEF CmdAdd, CmdDel, CmdAddAgain
<1>2. /\ pc[p] = "idle" /\ \A q \in Procs : pc[q] = "idle" \/ cid[q] # c
      /\ pc' = [pc EXCEPT ![p] = l] /\ cid' = [cid EXCEPT ![p] = c]
      /\ att' = [att EXCEPT ![c] = s]
      /\ UNCHANGED <<ports, port, lease, faults, mode>>
  BY <1>1 DEF StartCall, Goto
<1>3. PortTypeOK'
  BY <1>1, <1>2 DEF PortTypeOK, Adding, Deleting
<1>4. OneCallPerContainer' /\ CallState'
  BY <1>1, <1>2 DEF PortTypeOK, OneCallPerContainer, CallState, Adding, Deleting
<1>5. NamesDiffer' /\ PortInHand'
  BY <1>1, <1>2 DEF PortTypeOK, NamesDiffer, PortInHand
<1>6. NoPortNow'
  <2>1. l = "addNew" /\ mode = "separate" => \A q \in Ports : ports[q] # c
    BY <1>1, NamedPortAssumption DEF NoOrphanPorts
  <2> QED
    BY <1>1, <1>2, <2>1 DEF PortTypeOK, NoPortNow
<1>7. NoOrphanPorts'
  BY <1>1, <1>2 DEF PortTypeOK, NoOrphanPorts
<1>8. LeaseNamed'
  BY <1>1, <1>2 DEF PortTypeOK, LeaseNamed, FindPort
<1> QED
  BY <1>2, <1>3, <1>4, <1>5, <1>6, <1>7, <1>8

LEMMA DiesPorts ==
  ASSUME PortInv, UNCHANGED mode, NEW p \in Procs, Dies(p)
  PROVE  PortInv'
<1> USE DEF PortInv, Calls, Names
<1>1. /\ pc[p] # "idle" /\ cid[p] \in Containers
      /\ pc' = [pc EXCEPT ![p] = "idle"] /\ cid' = [cid EXCEPT ![p] = None]
      /\ port' = [port EXCEPT ![p] = None]
      /\ att' = [att EXCEPT ![cid[p]] = IF @ = "adding" THEN "failed" ELSE @]
      /\ UNCHANGED <<ports, lease, mode>>
  BY DEF Dies, Exit, Goto, NotDone, PortTypeOK
<1>2. PortTypeOK'
  BY <1>1, FaultType DEF Dies, PortTypeOK
<1>3. OneCallPerContainer' /\ CallState'
  BY <1>1 DEF PortTypeOK, OneCallPerContainer, CallState, Adding, Deleting
<1>4. NamesDiffer' /\ PortInHand' /\ NoPortNow'
  BY <1>1 DEF PortTypeOK, NamesDiffer, PortInHand, NoPortNow
<1>5. NoOrphanPorts' /\ LeaseNamed'
  BY <1>1 DEF PortTypeOK, NoOrphanPorts, LeaseNamed, FindPort
<1> QED
  BY <1>1, <1>2, <1>3, <1>4, <1>5

LEMMA ReturnPorts ==
  ASSUME PortInv, UNCHANGED mode, NEW p \in Procs, ReturnAdd(p) \/ ReturnDel(p)
  PROVE  PortInv'
<1> USE DEF PortInv, Calls, Names
<1>1. /\ pc[p] \in {"addOK", "addErr", "delOK", "delErr"} /\ cid[p] \in Containers
      /\ pc' = [pc EXCEPT ![p] = "idle"] /\ cid' = [cid EXCEPT ![p] = None]
      /\ port' = [port EXCEPT ![p] = None]
      /\ UNCHANGED <<ports, faults, mode>>
  BY DEF ReturnAdd, ReturnDel, Exit, Goto, PortTypeOK
<1>2. PICK s \in {"none", "adding", "up", "failed", "torn"} :
         /\ att' = [att EXCEPT ![cid[p]] = s]
         /\ s = "up" => pc[p] = "addOK" /\ lease' = [lease EXCEPT ![cid[p]] = port[p]]
         /\ s = "none" => pc[p] = "delOK" \/ att[cid[p]] = "none"
         /\ s # "up" => \/ UNCHANGED lease
                        \/ lease' = [lease EXCEPT ![cid[p]] = None]
  <2>1. att[cid[p]] \in {"none", "adding", "up", "failed", "torn"}
    BY <1>1 DEF PortTypeOK
  <2>2. CASE pc[p] = "addOK"
    BY <1>1, <2>2 DEF ReturnAdd, ReturnDel
  <2>3. CASE pc[p] = "delOK"
    BY <1>1, <2>3 DEF ReturnAdd, ReturnDel
  <2>4. CASE pc[p] = "addErr"
    <3>1. att[cid[p]] = "adding"
      BY <2>4 DEF CallState, Adding
    <3>2. att' = [att EXCEPT ![cid[p]] = "failed"] /\ UNCHANGED lease
      BY <1>1, <2>4, <3>1 DEF ReturnAdd, ReturnDel, NotDone
    <3> QED
      BY <3>2
  <2>5. CASE pc[p] = "delErr"
    <3>1. att' = [att EXCEPT ![cid[p]] = att[cid[p]]] /\ UNCHANGED lease
      BY <2>5 DEF ReturnAdd, ReturnDel, PortTypeOK
    <3>2. att[cid[p]] # "up"
      BY <2>5 DEF CallState, Deleting
    <3> QED
      BY <2>1, <3>1, <3>2
  <2> QED
    BY <1>1, <2>2, <2>3, <2>4, <2>5
<1>3. PortTypeOK'
  BY <1>1, <1>2 DEF PortTypeOK
<1>4. OneCallPerContainer' /\ CallState'
  BY <1>1 , <1>2 DEF PortTypeOK, OneCallPerContainer, CallState, Adding, Deleting
<1>5. NamesDiffer' /\ PortInHand' /\ NoPortNow'
  BY <1>1 DEF PortTypeOK, NamesDiffer, PortInHand, NoPortNow
<1>6. NoOrphanPorts'
  BY <1>1, <1>2 DEF PortTypeOK, NoOrphanPorts, NoPortNow
<1>7. LeaseNamed'
  BY <1>1, <1>2 DEF PortTypeOK, LeaseNamed, FindPort, PortInHand
<1> QED
  BY <1>1, <1>3, <1>4, <1>5, <1>6, <1>7

\* A step of a call that changes no port, no state of a container and no lease.
LEMMA QuietPorts ==
  ASSUME PortInv, NEW p \in Procs, NEW l \in Adding \cup Deleting,
         (pc[p] \in Adding /\ l \in Adding) \/ (pc[p] \in Deleting /\ l \in Deleting),
         Goto(p, l), UNCHANGED <<ports, cid, att, lease, mode>>,
         faults' \in 0..MaxFaults,
         port' = port \/ \E q \in Ports : port' = [port EXCEPT ![p] = q],
         l \in {"addCheck", "addCreate", "delOK"} => \A q \in Ports : ports[q] # cid[p],
         l # "addNew",
         l \in {"addAttach", "addOK", "delDelete"} => port'[p] \in Ports /\ ports[port'[p]] = cid[p]
  PROVE  PortInv'
<1> USE DEF PortInv, Calls, Names, Goto
<1>1. PortTypeOK'
  BY DEF PortTypeOK, Adding, Deleting
<1>2. OneCallPerContainer' /\ CallState'
  BY DEF PortTypeOK, OneCallPerContainer, CallState, Adding, Deleting
<1>3. NamesDiffer' /\ NoPortNow'
  BY DEF PortTypeOK, NamesDiffer, NoPortNow
<1>4. PortInHand'
  BY DEF PortTypeOK, PortInHand
<1>5. NoOrphanPorts' /\ LeaseNamed'
  BY DEF NoOrphanPorts, LeaseNamed, FindPort
<1> QED
  BY <1>1, <1>2, <1>3, <1>4, <1>5

LEMMA CreatePorts ==
  ASSUME PortInv, UNCHANGED mode, NEW p \in Procs,
         NEW next \in {"addAttach", "addOK"},
         CreatePort(p, next) \/ CreatePortLost(p)
  PROVE  PortInv'
<1> USE DEF PortInv, Calls, Names
<1>1. PICK q \in Ports, l \in {"addAttach", "addOK", "addErr"} :
         /\ ports[q] = None
         /\ ports' = [ports EXCEPT ![q] = cid[p]]
         /\ pc' = [pc EXCEPT ![p] = l]
         /\ port' = [port EXCEPT ![p] = q] \/ (l = "addErr" /\ port' = port)
  <2>1. CASE CreatePort(p, next)
    BY <2>1 DEF CreatePort, FindPort, Goto
  <2>2. CASE CreatePortLost(p)
    BY <2>2 DEF CreatePortLost, FindPort, Goto
  <2> QED
    BY <2>1, <2>2
<1>2. /\ pc[p] = "addCreate" /\ cid[p] \in Containers
      /\ UNCHANGED <<cid, att, lease, mode>>
  BY DEF CreatePort, CreatePortLost, PortTypeOK
<1>3. faults' \in 0..MaxFaults
  BY FaultType DEF CreatePort, CreatePortLost, PortTypeOK
<1>4. PortTypeOK'
  BY <1>1, <1>2, <1>3 DEF PortTypeOK, Adding
<1>5. OneCallPerContainer' /\ CallState'
  BY <1>1, <1>2 DEF PortTypeOK, OneCallPerContainer, CallState, Adding, Deleting
<1>6. \A r \in Ports : ports[r] # cid[p]
  BY <1>2 DEF NoPortNow
<1>7. NamesDiffer'
  BY <1>1, <1>6 DEF PortTypeOK, NamesDiffer
<1>8. NoPortNow'
  BY <1>1, <1>2 DEF PortTypeOK, NoPortNow, OneCallPerContainer
<1>9. PortInHand'
  <2>1. ASSUME NEW r \in Procs, pc'[r] \in {"addAttach", "addOK", "delDelete"}
        PROVE  port'[r] \in Ports /\ ports'[port'[r]] = cid'[r]
    <3>1. CASE r = p
      BY <1>1, <1>2, <2>1, <3>1 DEF PortTypeOK
    <3>2. CASE r # p
      <4>1. port'[r] = port[r] /\ pc'[r] = pc[r]
        BY <1>1, <3>2 DEF PortTypeOK
      <4>2. port[r] \in Ports /\ ports[port[r]] = cid[r] /\ cid[r] \in Containers
        BY <2>1, <4>1 DEF PortInHand, PortTypeOK
      <4> QED
        BY <1>1, <1>2, <4>1, <4>2, NamedPortAssumption DEF PortTypeOK
    <3> QED
      BY <3>1, <3>2
  <2> QED
    BY <2>1 DEF PortInHand
<1>10. NoOrphanPorts'
  BY <1>1, <1>2 DEF PortTypeOK, NoOrphanPorts, CallState, Adding
<1>11. LeaseNamed'
  BY <1>1, <1>2, NamedPortAssumption DEF PortTypeOK, LeaseNamed, FindPort
<1> QED
  BY <1>2, <1>4, <1>5, <1>7, <1>8, <1>9, <1>10, <1>11

LEMMA CreateRefusedPorts ==
  ASSUME PortInv, UNCHANGED mode, NEW p \in Procs, CreatePortRefused(p)
  PROVE  PortInv'
<1>1. /\ pc[p] \in Adding /\ "addErr" \in Adding /\ faults' \in 0..MaxFaults
      /\ Goto(p, "addErr") /\ UNCHANGED <<ports, cid, port, att, lease, mode>>
  BY DEF CreatePortRefused, Adding, PortInv, PortTypeOK
<1> QED
  BY <1>1, QuietPorts

LEMMA DeletePorts ==
  ASSUME PortInv, UNCHANGED mode, NEW p \in Procs, DeletePort(p) \/ DeletePortLost(p)
  PROVE  PortInv'
<1> USE DEF PortInv, Calls, Names
<1>1. PICK l \in {"delOK", "delErr"} :
         /\ pc' = [pc EXCEPT ![p] = l]
         /\ ports' = [ports EXCEPT ![port[p]] = None]
  BY DEF DeletePort, DeletePortLost, Goto
<1>2. /\ pc[p] = "delDelete" /\ cid[p] \in Containers
      /\ UNCHANGED <<cid, port, att, lease, mode>>
  BY DEF DeletePort, DeletePortLost, PortTypeOK
<1>3. faults' \in 0..MaxFaults
  BY FaultType DEF DeletePort, DeletePortLost, PortTypeOK
<1>4. port[p] \in Ports /\ ports[port[p]] = cid[p]
  BY <1>2 DEF PortInHand
<1>5. \A q \in Ports : /\ ports'[q] = IF q = port[p] THEN None ELSE ports[q]
                       /\ ports'[q] # cid[p]
  BY <1>1, <1>2, <1>4, NamedPortAssumption DEF PortTypeOK, NamesDiffer
<1>6. PortTypeOK'
  BY <1>1, <1>2, <1>3 DEF PortTypeOK, Deleting
<1>7. OneCallPerContainer' /\ CallState'
  BY <1>1, <1>2 DEF PortTypeOK, OneCallPerContainer, CallState, Adding, Deleting
<1>8. NamesDiffer'
  BY <1>5 DEF NamesDiffer
<1>9. NoPortNow'
  <2>1. ASSUME NEW r \in Procs, r # p,
               \/ pc[r] \in {"addCheck", "addCreate", "delOK"}
               \/ pc[r] = "addNew" /\ mode = "separate"
        PROVE  \A q \in Ports : ports'[q] # cid[r]
    <3>1. cid[r] \in Containers /\ \A q \in Ports : ports[q] # cid[r]
      BY <2>1 DEF PortTypeOK, NoPortNow
    <3> QED
      BY <1>5, <3>1, NamedPortAssumption
  <2> QED
    BY <1>1, <1>2, <1>5, <2>1 DEF NoPortNow, PortTypeOK
<1>10. PortInHand'
  <2>1. ASSUME NEW r \in Procs, r # p, pc[r] \in {"addAttach", "addOK", "delDelete"}
        PROVE  port[r] \in Ports /\ ports'[port[r]] = cid[r]
    <3>1. port[r] \in Ports /\ ports[port[r]] = cid[r]
      BY <2>1 DEF PortInHand
    <3>2. cid[r] # cid[p]
      BY <1>2, <2>1 DEF OneCallPerContainer
    <3> QED
      BY <1>4, <1>5, <3>1, <3>2
  <2> QED
    BY <1>1, <1>2, <2>1 DEF PortInHand, PortTypeOK
<1>11. NoOrphanPorts'
  BY <1>2, <1>5 DEF NoOrphanPorts
<1>12. LeaseNamed'
  BY <1>2, <1>4, <1>5 DEF LeaseNamed, FindPort, CallState, Deleting
<1> QED
  BY <1>2, <1>6, <1>7, <1>8, <1>9, <1>10, <1>11, <1>12

\* ReleaseFind and ReserveFind: the port is the one of the name, or there is none.
LEMMA FindPorts ==
  ASSUME PortInv, NEW p \in Procs, UNCHANGED <<ports, cid, att, lease, faults, mode>>,
         NEW none \in Adding \cup Deleting, NEW found \in {"addAttach", "delDelete"},
         none # "addNew", none \notin {"addAttach", "addOK", "delDelete"},
         \/ pc[p] \in Adding /\ none \in Adding /\ found \in Adding
         \/ pc[p] \in Deleting /\ none \in Deleting /\ found \in Deleting,
         \/ FindPort(cid[p]) = {} /\ Goto(p, none) /\ UNCHANGED port
         \/ /\ \E q \in FindPort(cid[p]) : port' = [port EXCEPT ![p] = q]
            /\ Goto(p, found)
  PROVE  PortInv'
<1>1. faults' \in 0..MaxFaults /\ port \in [Procs -> Ports \cup {None}]
  BY DEF PortInv, PortTypeOK
<1>2. CASE FindPort(cid[p]) = {} /\ Goto(p, none) /\ UNCHANGED port
  <2>1. \A q \in Ports : ports[q] # cid[p]
    BY <1>2 DEF FindPort
  <2> QED
    BY <1>1, <1>2, <2>1, QuietPorts
<1>3. CASE /\ \E q \in FindPort(cid[p]) : port' = [port EXCEPT ![p] = q]
           /\ Goto(p, found)
  <2>1. PICK q \in Ports : ports[q] = cid[p] /\ port' = [port EXCEPT ![p] = q]
    BY <1>3 DEF FindPort
  <2>2. port'[p] = q
    BY <1>1, <2>1
  <2>3. found \in Adding \cup Deleting
    BY DEF Adding, Deleting
  <2> QED
    BY <1>1, <1>3, <2>1, <2>2, <2>3, QuietPorts
<1> QED
  BY <1>2, <1>3

-----------------------------------------------------------------------------
(***************************************************************************)
(* The separate mode: its definitions are those of this module, instanced. *)
(***************************************************************************)
LEMMA SeparateStart ==
  ASSUME NEW p \in Procs, Separate!Start(p)
  PROVE  \E c \in Containers : CmdAdd(p, c) \/ CmdDel(p, c)
BY DEF Separate!Start, Separate!CmdAdd, Separate!CmdDel, Separate!StartCall, Separate!Goto,
   CmdAdd, CmdDel, StartCall, Goto

LEMMA SeparateStep ==
  ASSUME NEW p \in Procs, Separate!Step(p)
  PROVE  \/ Separate!NewSeparateStore(p)
         \/ CreatePort(p, "addOK") \/ CreatePortRefused(p) \/ CreatePortLost(p)
         \/ Separate!ReleaseFind(p) \/ DeletePort(p) \/ DeletePortLost(p)
         \/ ReturnAdd(p) \/ ReturnDel(p)
<1>1. Separate!CreatePort(p, "addOK") => CreatePort(p, "addOK")
  BY DEF Separate!CreatePort, CreatePort, Separate!FindPort, FindPort, Separate!Goto, Goto
<1>2. Separate!CreatePortRefused(p) => CreatePortRefused(p)
  BY DEF Separate!CreatePortRefused, CreatePortRefused, Separate!Goto, Goto
<1>3. Separate!CreatePortLost(p) => CreatePortLost(p)
  BY DEF Separate!CreatePortLost, CreatePortLost, Separate!FindPort, FindPort,
     Separate!Goto, Goto, Separate!Fault, Fault
<1>4. Separate!DeletePort(p) => DeletePort(p)
  BY DEF Separate!DeletePort, DeletePort, Separate!Goto, Goto
<1>5. Separate!DeletePortLost(p) => DeletePortLost(p)
  BY DEF Separate!DeletePortLost, DeletePortLost, Separate!Goto, Goto, Separate!Fault, Fault
<1>6. Separate!ReturnAdd(p) => ReturnAdd(p)
  BY DEF Separate!ReturnAdd, ReturnAdd, Separate!Exit, Exit, Separate!Goto, Goto,
     Separate!NotDone, NotDone
<1>7. Separate!ReturnDel(p) => ReturnDel(p)
  BY DEF Separate!ReturnDel, ReturnDel, Separate!Exit, Exit, Separate!Goto, Goto
<1> QED
  BY <1>1, <1>2, <1>3, <1>4, <1>5, <1>6, <1>7
  DEF Separate!Step, Separate!Reserve, Separate!ReleaseByID

LEMMA SeparatePorts ==
  ASSUME PortInv, UNCHANGED mode, mode = "separate", NEW p \in Procs,
         Separate!Start(p) \/ Separate!Step(p) \/ Dies(p)
  PROVE  PortInv'
<1>1. CASE Separate!Start(p)
  <2>1. PICK c \in Containers : CmdAdd(p, c) \/ CmdDel(p, c)
    BY <1>1, SeparateStart
  <2> QED
    BY <2>1, StartCallPorts
<1>2. CASE Dies(p)
  BY <1>2, DiesPorts
<1>3. CASE Separate!NewSeparateStore(p)
  <2>1. UNCHANGED <<ports, cid, port, att, lease, faults>> /\ faults' \in 0..MaxFaults
    BY <1>3 DEF Separate!NewSeparateStore, PortInv, PortTypeOK
  <2>2. CASE pc[p] = "addNew"
    <3>1. Goto(p, "addCreate") /\ \A q \in Ports : ports[q] # cid[p]
      BY <1>3, <2>2 DEF Separate!NewSeparateStore, Separate!Goto, Goto, PortInv, Names, NoPortNow
    <3>2. pc[p] \in Adding /\ "addCreate" \in Adding
      BY <2>2 DEF Adding
    <3> QED
      BY <2>1, <3>1, <3>2, QuietPorts
  <2>3. CASE pc[p] = "delNew"
    <3>1. Goto(p, "delFind")
      BY <1>3, <2>3 DEF Separate!NewSeparateStore, Separate!Goto, Goto
    <3>2. pc[p] \in Deleting /\ "delFind" \in Deleting
      BY <2>3 DEF Deleting
    <3> QED
      BY <2>1, <3>1, <3>2, QuietPorts
  <2> QED
    BY <1>3, <2>2, <2>3 DEF Separate!NewSeparateStore
<1>4. CASE Separate!ReleaseFind(p)
  <2>1. /\ pc[p] = "delFind" /\ UNCHANGED <<ports, cid, att, lease, faults>>
        /\ \/ FindPort(cid[p]) = {} /\ Goto(p, "delErr") /\ UNCHANGED port
           \/ /\ \E q \in FindPort(cid[p]) : port' = [port EXCEPT ![p] = q]
              /\ Goto(p, "delDelete")
    BY <1>4 DEF Separate!ReleaseFind, Separate!FindPort, FindPort, Separate!Goto, Goto
  <2>2. {"delFind", "delErr", "delDelete"} \subseteq Deleting
    BY DEF Deleting
  <2> QED
    BY <2>1, <2>2, FindPorts
<1> QED
  BY <1>1, <1>2, <1>3, <1>4, SeparateStep, CreatePorts, CreateRefusedPorts, DeletePorts, ReturnPorts

-----------------------------------------------------------------------------
(***************************************************************************)
(* The eni mode                                                            *)
(***************************************************************************)
LEMMA EniPorts ==
  ASSUME PortInv, UNCHANGED mode, mode = "eni", NEW p \in Procs,
         Start(p) \/ Step(p) \/ Crash(p)
  PROVE  PortInv'
<1>0. faults \in 0..MaxFaults
  BY DEF PortInv, PortTypeOK
<1>1. CASE Start(p)
  BY <1>1, StartCallPorts DEF Start
<1>2. CASE Crash(p)
  BY <1>2, DiesPorts DEF Crash
<1>3. CASE NewEniStore(p) \/ Lock(p)
  <2>1. UNCHANGED <<ports, cid, port, att, lease, faults, mode>> /\ faults' \in 0..MaxFaults
    BY <1>0, <1>3 DEF NewEniStore, Lock
  <2>2. CASE pc[p] \in {"addNew", "addLock"}
    <3>1. PICK l \in {"addLock", "addFind"} : Goto(p, l)
      BY <1>3, <2>2 DEF NewEniStore, Lock
    <3>2. pc[p] \in Adding /\ l \in Adding
      BY <2>2 DEF Adding
    <3> QED
      BY <2>1, <3>1, <3>2, QuietPorts
  <2>3. CASE pc[p] \in {"delNew", "delLock"}
    <3>1. PICK l \in {"delLock", "delFind"} : Goto(p, l)
      BY <1>3, <2>3 DEF NewEniStore, Lock
    <3>2. pc[p] \in Deleting /\ l \in Deleting
      BY <2>3 DEF Deleting
    <3> QED
      BY <2>1, <3>1, <3>2, QuietPorts
  <2> QED
    BY <1>3, <2>2, <2>3 DEF NewEniStore, Lock
<1>5. CASE ReserveFind(p)
  <2>1. {"addFind", "addCheck", "addAttach"} \subseteq Adding
    BY DEF Adding
  <2> QED
    <3>1. /\ pc[p] = "addFind" /\ UNCHANGED <<ports, cid, att, lease, faults, mode>>
          /\ \/ FindPort(cid[p]) = {} /\ Goto(p, "addCheck") /\ UNCHANGED port
             \/ /\ \E q \in FindPort(cid[p]) : port' = [port EXCEPT ![p] = q]
                /\ Goto(p, "addAttach")
      BY <1>5 DEF ReserveFind
    <3> QED
      BY <2>1, <3>1, FindPorts
<1>6. CASE ReserveCheck(p)
  <2>1. PICK l \in {"addErr", "addCreate"} : Goto(p, l)
    BY <1>6 DEF ReserveCheck
  <2>2. pc[p] = "addCheck" /\ {"addCheck", "addErr", "addCreate"} \subseteq Adding
    BY <1>6 DEF ReserveCheck, Adding
  <2>3. \A q \in Ports : ports[q] # cid[p]
    BY <2>2 DEF PortInv, Names, NoPortNow
  <2>4. UNCHANGED <<ports, cid, port, att, lease, faults, mode>> /\ faults' \in 0..MaxFaults
    BY <1>0, <1>6 DEF ReserveCheck
  <2>5. pc[p] \in Adding /\ l \in Adding
    BY <2>2
  <2> QED
    BY <2>1, <2>3, <2>4, <2>5, QuietPorts
<1>7. CASE ReserveCreate(p)
  BY <1>7, CreatePorts, CreateRefusedPorts DEF ReserveCreate
<1>8. CASE ReserveAttach(p) \/ ReserveAttachFails(p)
  <2>1. PICK l \in {"addErr", "addOK"} : Goto(p, l)
    BY <1>8 DEF ReserveAttach, ReserveAttachFails
  <2>2. pc[p] = "addAttach" /\ {"addAttach", "addErr", "addOK"} \subseteq Adding
    BY <1>8 DEF ReserveAttach, ReserveAttachFails, Adding
  <2>3. port[p] \in Ports /\ ports[port[p]] = cid[p]
    BY <2>2 DEF PortInv, Names, PortInHand
  <2>4. faults' \in 0..MaxFaults /\ UNCHANGED <<ports, cid, port, att, lease>>
    BY <1>0, <1>8, FaultType DEF ReserveAttach, ReserveAttachFails
  <2>5. pc[p] \in Adding /\ l \in Adding
    BY <2>2
  <2> QED
    BY <2>1, <2>3, <2>4, <2>5, QuietPorts
<1>9. CASE ReleaseFind(p)
  <2>1. {"delFind", "delOK", "delDelete"} \subseteq Deleting
    BY DEF Deleting
  <2> QED
    BY <1>9, <2>1, FindPorts DEF ReleaseFind
<1>10. CASE ReleaseDelete(p)
  BY <1>10, DeletePorts DEF ReleaseDelete
<1>11. CASE Return(p)
  BY <1>11, ReturnPorts DEF Return
<1> QED
  BY <1>1, <1>2, <1>3, <1>5, <1>6, <1>7, <1>8, <1>9, <1>10, <1>11
  DEF Step, Reserve, ReleaseByID

\* The flock and the attached ports: what one step of process p does to them.
LEMMA EniAttach ==
  ASSUME IInv, UNCHANGED mode, mode = "eni", NEW p \in Procs,
         Start(p) \/ Step(p) \/ Crash(p)
  PROVE  lock' \in Procs \cup {None} /\ attached' \subseteq Ports /\ AttachInv'
<1> USE DEF IInv, AttachInv
<1>0. /\ pc \in [Procs -> Adding \cup Deleting \cup {"idle"}] /\ cid \in [Procs -> Containers \cup {None}]
      /\ port \in [Procs -> Ports \cup {None}] /\ lock \in Procs \cup {None}
      /\ att \in [Containers -> {"none", "adding", "up", "failed", "torn"}]
      /\ lease \in [Containers -> Ports \cup {None}]
      /\ attached \subseteq Ports /\ None \notin Procs
      /\ \A r \in Procs : pc[r] # "idle" => cid[r] \in Containers
  BY NamedPortAssumption DEF TypeOK, PortTypeOK
<1>a. \A r \in Procs : pc[r] \in Locked <=> lock = r
  BY DEF LockHeld
<1>1. CASE Start(p)
  <2>1. PICK c \in Containers, l \in {"addNew", "delNew"}, s \in {"adding", "none", "torn"} :
             StartCall(p, c, l, s)
    BY <1>1 DEF Start, CmdAdd, CmdAddAgain, CmdDel
  <2>2. /\ pc[p] = "idle" /\ pc' = [pc EXCEPT ![p] = l] /\ att' = [att EXCEPT ![c] = s]
        /\ UNCHANGED <<port, lease, lock, attached>>
    BY <1>1, <2>1 DEF Start, StartCall, Goto
  <2>3. LockHeld'
    BY <1>0, <1>a, <2>2 DEF LockHeld, Locked, Adding, Deleting
  <2>4. AttachedNow' /\ LeaseAttached'
    BY <1>0, <2>2 DEF AttachedNow, LeaseAttached
  <2> QED
    BY <1>0, <2>2, <2>3, <2>4
<1>2. CASE Crash(p)
  <2>1. /\ pc[p] # "idle" /\ pc' = [pc EXCEPT ![p] = "idle"] /\ port' = [port EXCEPT ![p] = None]
        /\ att' = [att EXCEPT ![cid[p]] = IF @ = "adding" THEN "failed" ELSE @]
        /\ lock' = IF lock = p THEN None ELSE lock
        /\ UNCHANGED <<lease, attached>>
    BY <1>2 DEF Crash, Dies, Exit, Goto, NotDone
  <2>2. LockHeld'
    BY <1>0, <1>a, <2>1 DEF LockHeld, Locked, Adding, Deleting
  <2>3. AttachedNow' /\ LeaseAttached'
    BY <1>0, <2>1 DEF AttachedNow, LeaseAttached
  <2> QED
    BY <1>0, <2>1, <2>2, <2>3
<1>3. CASE NewEniStore(p)
  <2>1. PICK l \in {"addLock", "delLock"} : pc' = [pc EXCEPT ![p] = l]
    BY <1>3 DEF NewEniStore, Goto
  <2>2. pc[p] \in {"addNew", "delNew"} /\ UNCHANGED <<port, att, lease, lock, attached>>
    BY <1>3 DEF NewEniStore
  <2> QED
    BY <1>0, <1>a, <2>1, <2>2 DEF LockHeld, AttachedNow, LeaseAttached, Locked, Adding, Deleting
<1>4. CASE Lock(p)
  <2>1. PICK l \in {"addFind", "delFind"} : pc' = [pc EXCEPT ![p] = l]
    BY <1>4 DEF Lock, Goto
  <2>2. /\ pc[p] \in {"addLock", "delLock"} /\ lock = None /\ lock' = p
        /\ UNCHANGED <<port, att, lease, attached>>
    BY <1>4 DEF Lock
  <2>3. LockHeld'
    BY <1>0, <1>a, <2>1, <2>2 DEF LockHeld, Locked, Adding, Deleting
  <2> QED
    BY <1>0, <2>1, <2>2, <2>3 DEF AttachedNow, LeaseAttached
\* A step inside the critical section.
<1>5. ASSUME NEW l \in Locked \ {"addOK"}, pc[p] \in Locked, pc' = [pc EXCEPT ![p] = l],
             attached \subseteq attached', attached' \subseteq Ports,
             \A r \in Procs : r # p => port'[r] = port[r],
             UNCHANGED <<att, lease, lock>>
      PROVE  lock' \in Procs \cup {None} /\ attached' \subseteq Ports /\ AttachInv'
  <2>1. LockHeld'
    BY <1>0, <1>a, <1>5 DEF LockHeld
  <2> QED
    BY <1>0, <1>5, <2>1 DEF AttachedNow, LeaseAttached
<1>6. {"addFind", "addCheck", "addCreate", "addAttach", "addOK", "addErr",
       "delFind", "delDelete", "delOK", "delErr"} \subseteq Locked
  BY DEF Locked, Adding, Deleting
<1>7. CASE ReserveFind(p) \/ ReleaseFind(p)
  <2>1. PICK l \in {"addCheck", "addAttach", "delOK", "delDelete"} : pc' = [pc EXCEPT ![p] = l]
    BY <1>7 DEF ReserveFind, ReleaseFind, Goto
  <2>2. /\ pc[p] \in {"addFind", "delFind"} /\ UNCHANGED <<att, lease, lock, attached>>
        /\ \A r \in Procs : r # p => port'[r] = port[r]
    BY <1>0, <1>7 DEF ReserveFind, ReleaseFind
  <2> QED
    BY <1>0, <1>5, <1>6, <2>1, <2>2
<1>8. CASE ReserveCheck(p)
  <2>1. PICK l \in {"addErr", "addCreate"} : pc' = [pc EXCEPT ![p] = l]
    BY <1>8 DEF ReserveCheck, Goto
  <2>2. pc[p] = "addCheck" /\ UNCHANGED <<port, att, lease, lock, attached>>
    BY <1>8 DEF ReserveCheck
  <2> QED
    BY <1>0, <1>5, <1>6, <2>1, <2>2
<1>9. CASE ReserveCreate(p)
  <2>1. PICK l \in {"addErr", "addAttach"} : pc' = [pc EXCEPT ![p] = l]
    BY <1>9 DEF ReserveCreate, CreatePort, CreatePortRefused, CreatePortLost, Goto
  <2>2. /\ pc[p] = "addCreate" /\ UNCHANGED <<att, lease, lock, attached>>
        /\ \A r \in Procs : r # p => port'[r] = port[r]
    BY <1>0, <1>9 DEF ReserveCreate, CreatePort, CreatePortRefused, CreatePortLost
  <2> QED
    BY <1>0, <1>5, <1>6, <2>1, <2>2
<1>10. CASE ReserveAttach(p)
  <2>1. pc[p] = "addAttach" /\ UNCHANGED <<port, att, lease, lock>> /\ port[p] \in Ports
    BY <1>10 DEF ReserveAttach, PortInv, Names, PortInHand
  <2>2. CASE port[p] \in attached
    <3>1. pc' = [pc EXCEPT ![p] = "addErr"] /\ UNCHANGED attached
      BY <1>10, <2>2 DEF ReserveAttach, Goto
    <3> QED
      BY <1>0, <1>5, <1>6, <2>1, <3>1
  <2>3. CASE port[p] \notin attached
    <3>1. pc' = [pc EXCEPT ![p] = "addOK"] /\ attached' = attached \cup {port[p]}
      BY <1>10, <2>3 DEF ReserveAttach, Goto
    <3>2. LockHeld'
      BY <1>0, <1>a, <1>6, <2>1, <3>1 DEF LockHeld
    <3> QED
      BY <1>0, <2>1, <3>1, <3>2 DEF AttachedNow, LeaseAttached
  <2> QED
    BY <2>2, <2>3
<1>11. CASE ReserveAttachFails(p)
  <2>1. pc[p] = "addAttach" /\ UNCHANGED <<port, att, lease, lock>> /\ port[p] \in Ports
    BY <1>11 DEF ReserveAttachFails, PortInv, Names, PortInHand
  <2>2. /\ pc' = [pc EXCEPT ![p] = "addErr"]
        /\ attached \subseteq attached' /\ attached' \subseteq attached \cup {port[p]}
    BY <1>11 DEF ReserveAttachFails, Goto
  <2> QED
    BY <1>0, <1>5, <1>6, <2>1, <2>2
<1>12. CASE ReleaseDelete(p)
  <2>1. /\ pc[p] = "delDelete" /\ UNCHANGED <<port, att, lease, lock>>
        /\ attached' = attached \ {port[p]}
    BY <1>12 DEF ReleaseDelete, DeletePort, DeletePortLost
  <2>2. PICK l \in {"delOK", "delErr"} : pc' = [pc EXCEPT ![p] = l]
    BY <1>12 DEF ReleaseDelete, DeletePort, DeletePortLost, Goto
  <2>3. LockHeld'
    BY <1>0, <1>a, <1>6, <2>1, <2>2 DEF LockHeld
  <2>4. AttachedNow'
    BY <1>0, <1>a, <1>6, <2>1, <2>2 DEF AttachedNow
  <2>5. LeaseAttached'
    <3>1. ports[port[p]] = cid[p] /\ att[cid[p]] # "up"
      BY <2>1 DEF PortInv, Names, Calls, PortInHand, CallState, Deleting
    <3> QED
      BY <2>1, <3>1 DEF LeaseAttached, PortInv, LeaseNamed, FindPort
  <2> QED
    BY <1>0, <2>1, <2>3, <2>4, <2>5
<1>13. CASE Return(p)
  <2>1. /\ pc[p] \in {"addOK", "addErr", "delOK", "delErr"} /\ pc' = [pc EXCEPT ![p] = "idle"]
        /\ port' = [port EXCEPT ![p] = None] /\ lock' = None /\ UNCHANGED attached
    BY <1>13 DEF Return, ReturnAdd, ReturnDel, Exit, Goto
  <2>2. LockHeld'
    <3>1. "idle" \notin Locked
      BY DEF Locked, Adding, Deleting
    <3> QED
      BY <1>0, <1>a, <1>6, <2>1, <3>1 DEF LockHeld
  <2>3. AttachedNow'
    BY <1>0, <2>1 DEF AttachedNow
  <2>4. LeaseAttached'
    <3> USE <1>0, <2>1 DEF LeaseAttached
    <3>1. CASE pc[p] = "addOK"
      <4>1. port[p] \in attached
        BY <3>1 DEF AttachedNow
      <4>2. /\ att' = [att EXCEPT ![cid[p]] = "up"] /\ lease' = [lease EXCEPT ![cid[p]] = port[p]]
        BY <1>13, <3>1 DEF Return, ReturnAdd, ReturnDel
      <4> QED
        BY <4>1, <4>2
    <3>2. CASE pc[p] = "delOK"
      <4>1. /\ att' = [att EXCEPT ![cid[p]] = "none"] /\ lease' = [lease EXCEPT ![cid[p]] = None]
        BY <1>13, <3>2 DEF Return, ReturnAdd, ReturnDel
      <4> QED
        BY <4>1
    <3>3. CASE pc[p] \in {"addErr", "delErr"}
      <4>1. /\ UNCHANGED lease
            /\ att' \in {att, [att EXCEPT ![cid[p]] = IF @ = "adding" THEN "failed" ELSE @]}
        BY <1>13, <3>3 DEF Return, ReturnAdd, ReturnDel, NotDone
      <4> QED
        BY <4>1
    <3> QED
      BY <3>1, <3>2, <3>3
  <2> QED
    BY <1>0, <2>1, <2>2, <2>3, <2>4
<1> QED
  BY <1>1, <1>2, <1>3, <1>4, <1>7, <1>8, <1>9, <1>10, <1>11, <1>12, <1>13
  DEF Step, Reserve, ReleaseByID

LEMMA SeparateAttach ==
  ASSUME IInv, UNCHANGED <<lock, attached, mode>>, mode = "separate"
  PROVE  lock' \in Procs \cup {None} /\ attached' \subseteq Ports /\ AttachInv'
BY DEF IInv, TypeOK, AttachInv, LockHeld, AttachedNow, LeaseAttached

LEMMA InitIInv == StoreInit => IInv
<1> SUFFICES ASSUME StoreInit PROVE IInv
  OBVIOUS
<1> USE NamedPortAssumption DEF StoreInit, Init, PortInit
<1>1. TypeOK /\ PortTypeOK
  BY DEF TypeOK, PortTypeOK
<1>2. Calls /\ Names
  BY DEF Calls, Names, OneCallPerContainer, CallState, NamesDiffer, NoPortNow, PortInHand,
     Adding, Deleting
<1>3. NoOrphanPorts /\ LeaseNamed
  BY DEF NoOrphanPorts, LeaseNamed
<1>4. AttachInv
  BY DEF AttachInv, LockHeld, Locked, Adding, Deleting, AttachedNow, LeaseAttached
<1> QED
  BY <1>1, <1>2, <1>3, <1>4 DEF IInv, PortInv

LEMMA NextIInv == IInv /\ [StoreNext]_storeVars => IInv'
<1> SUFFICES ASSUME IInv, [StoreNext]_storeVars PROVE IInv'
  OBVIOUS
<1>0. PortInv
  BY DEF IInv
<1>1. CASE UNCHANGED storeVars
  BY <1>1 DEF storeVars, vars, portVars, IInv, TypeOK, PortTypeOK, PortInv, Calls, Names,
     OneCallPerContainer, CallState, NamesDiffer, NoPortNow, PortInHand, NoOrphanPorts, LeaseNamed,
     FindPort, AttachInv, LockHeld, AttachedNow, LeaseAttached
<1>2. ASSUME NEW p \in Procs, StoreStart(p) \/ StoreStep(p) \/ StoreCrash(p)
      PROVE  PortInv' /\ lock' \in Procs \cup {None} /\ attached' \subseteq Ports /\ AttachInv'
  <2>1. CASE mode = "eni"
    <3>1. (Start(p) \/ Step(p) \/ Crash(p)) /\ UNCHANGED mode
      BY <1>2, <2>1 DEF StoreStart, StoreStep, StoreCrash
    <3> QED
      BY <1>0, <2>1, <3>1, EniPorts, EniAttach
  <2>2. CASE mode = "separate"
    <3>1. /\ Separate!Start(p) \/ Separate!Step(p) \/ Dies(p)
          /\ UNCHANGED <<lock, attached, mode>>
      BY <1>2, <2>2 DEF StoreStart, StoreStep, StoreCrash
    <3> QED
      BY <1>0, <2>2, <3>1, SeparatePorts, SeparateAttach
  <2> QED
    BY <1>0, <2>1, <2>2 DEF PortInv
<1>3. CASE StoreNext
  BY <1>2, <1>3 DEF StoreNext, IInv, TypeOK, PortInv
<1> QED
  BY <1>1, <1>3

LEMMA IInvHolds == StoreSpec => []IInv
  BY InitIInv, NextIInv, PTL DEF StoreSpec

\* The type invariant of the two modes.
THEOREM TypeCorrect == StoreSpec => []TypeOK
<1>1. IInv => TypeOK
  BY DEF IInv
<1> QED
  BY <1>1, IInvHolds, PTL

\* No sequence of failed, lost and repeated calls leaves a container with two
\* ports, in either mode, although the separate mode has no lock.
THEOREM OnePortEachHolds == StoreSpec => []OnePortEach
<1>1. IInv => OnePortEach
  <2> SUFFICES ASSUME IInv, NEW c \in Containers
               PROVE  Cardinality(FindPort(c)) <= 1
    BY DEF OnePortEach
  <2>1. \A q, r \in FindPort(c) : q = r
    BY NamedPortAssumption DEF IInv, PortInv, Names, NamesDiffer, FindPort
  <2>2. CASE FindPort(c) = {}
    BY <2>2, FS_EmptySet
  <2>3. CASE FindPort(c) # {}
    <3>1. PICK q \in FindPort(c) : FindPort(c) = {q}
      BY <2>1, <2>3
    <3>2. Cardinality({q}) = 1
      BY FS_Singleton, Zenon
    <3> QED
      BY <3>1, <3>2
  <2> QED
    BY <2>2, <2>3
<1> QED
  BY <1>1, IInvHolds, PTL

\* After a DEL that succeeded there is no port of the container left.
THEOREM NoOrphanPortsHolds == StoreSpec => []NoOrphanPorts
<1>1. IInv => NoOrphanPorts
  BY DEF IInv, PortInv
<1> QED
  BY <1>1, IInvHolds, PTL

\* The port of a running container keeps its name until the DEL.
THEOREM LeaseNamedHolds == StoreSpec => []LeaseNamed
<1>1. IInv => LeaseNamed
  BY DEF IInv, PortInv
<1> QED
  BY <1>1, IInvHolds, PTL

\* The port of a container running in the eni mode stays attached until the DEL.
THEOREM LeaseAttachedHolds == StoreSpec => []LeaseAttached
<1>1. IInv => LeaseAttached
  BY DEF IInv, AttachInv
<1> QED
  BY <1>1, IInvHolds, PTL

-----------------------------------------------------------------------------
(***************************************************************************)
(* The bound on attached interfaces                                        *)
(***************************************************************************)
LEMMA OneMore ==
  ASSUME NEW S, IsFiniteSet(S), NEW x
  PROVE  /\ IsFiniteSet(S \cup {x})
         /\ Cardinality(S \cup {x}) \in Nat
         /\ Cardinality(S \cup {x}) <= Cardinality(S) + 1
<1>1. Cardinality(S) \in Nat
  BY FS_CardinalityType
<1>2. /\ IsFiniteSet(S \cup {x})
      /\ Cardinality(S \cup {x}) = IF x \in S THEN Cardinality(S) ELSE Cardinality(S) + 1
  BY FS_AddElement
<1> QED
  BY <1>1, <1>2

LEMMA InitBound == StoreInit => BoundInv
<1> SUFFICES ASSUME StoreInit PROVE BoundInv
  OBVIOUS
<1>1. Named = {} /\ LeftBehind = {} /\ attached = {} /\ faults = 0
  BY DEF StoreInit, Init, PortInit, Named, LeftBehind
<1>2. Checked
  BY DEF StoreInit, Init, PortInit, Checked
<1>3. MAX_ENIS \in Nat
  BY EniAssumption
<1> QED
  BY <1>1, <1>2, <1>3, FS_EmptySet DEF BoundInv

LEMMA BoundFinite ==
  ASSUME BoundInv, mode = "eni"
  PROVE  /\ IsFiniteSet(Named) /\ IsFiniteSet(attached) /\ IsFiniteSet(LeftBehind)
         /\ Cardinality(Named) \in Nat /\ Cardinality(attached) \in Nat
         /\ Cardinality(LeftBehind) \in Nat
<1>1. IsFiniteSet(Named) /\ attached \in SUBSET Named /\ LeftBehind \in SUBSET Named
  BY DEF BoundInv, LeftBehind
<1> QED
  BY <1>1, FS_Subset, FS_CardinalityType

\* A step that adds no port leaves at most one more behind, and only if it is a fault.
LEMMA KeepsBound ==
  ASSUME BoundInv, mode = "eni", UNCHANGED mode, faults \in Nat,
         Named' \subseteq Named, attached' \subseteq Named', Checked',
         \/ LeftBehind' \subseteq LeftBehind /\ faults' = faults
         \/ faults' = faults + 1 /\ \E x : LeftBehind' \subseteq LeftBehind \cup {x}
  PROVE  BoundInv'
<1>1. /\ IsFiniteSet(Named) /\ IsFiniteSet(LeftBehind)
      /\ Cardinality(Named) \in Nat /\ Cardinality(LeftBehind) \in Nat
      /\ Cardinality(LeftBehind) <= faults /\ Cardinality(Named) <= MAX_ENIS + faults
      /\ MAX_ENIS \in Nat
  BY BoundFinite, EniAssumption DEF BoundInv
<1>2. IsFiniteSet(Named') /\ Cardinality(Named') <= Cardinality(Named) /\ Cardinality(Named') \in Nat
  BY <1>1, FS_Subset, FS_CardinalityType
<1>3. Cardinality(LeftBehind') <= faults'
  <2>1. CASE LeftBehind' \subseteq LeftBehind /\ faults' = faults
    <3>1. Cardinality(LeftBehind') <= Cardinality(LeftBehind) /\ Cardinality(LeftBehind') \in Nat
      BY <1>1, <2>1, FS_Subset, FS_CardinalityType
    <3> QED
      BY <1>1, <2>1, <3>1
  <2>2. CASE faults' = faults + 1 /\ \E x : LeftBehind' \subseteq LeftBehind \cup {x}
    <3>1. PICK x : LeftBehind' \subseteq LeftBehind \cup {x}
      BY <2>2
    <3>2. /\ IsFiniteSet(LeftBehind \cup {x}) /\ Cardinality(LeftBehind \cup {x}) \in Nat
          /\ Cardinality(LeftBehind \cup {x}) <= Cardinality(LeftBehind) + 1
      BY <1>1, OneMore
    <3>3. /\ Cardinality(LeftBehind') <= Cardinality(LeftBehind \cup {x})
          /\ Cardinality(LeftBehind') \in Nat
      BY <3>1, <3>2, FS_Subset, FS_CardinalityType
    <3> QED
      BY <1>1, <2>2, <3>2, <3>3
  <2> QED
    BY <2>1, <2>2
<1>4. Cardinality(Named') <= MAX_ENIS + faults'
  BY <1>1, <1>2
<1> QED
  BY <1>2, <1>3, <1>4 DEF BoundInv

\* Create: the port is counted under the limit that IsOverMax compared, as no
\* other process has one in hand.
LEMMA CreateBound ==
  ASSUME IInv, BoundInv, mode = "eni", UNCHANGED mode, NEW p \in Procs,
         CreatePort(p, "addAttach") \/ CreatePortLost(p), UNCHANGED attached
  PROVE  BoundInv'
<1>0. /\ faults \in Nat /\ pc \in [Procs -> Adding \cup Deleting \cup {"idle"}]
      /\ port \in [Procs -> Ports \cup {None}] /\ ports \in [Ports -> Containers \cup {None}]
      /\ pc[p] = "addCreate" /\ cid[p] \in Containers /\ cid[p] # None /\ MAX_ENIS \in Nat
  BY NamedPortAssumption, EniAssumption DEF IInv, TypeOK, PortTypeOK, CreatePort, CreatePortLost
<1>1. \A r \in Procs : r # p => pc[r] \notin {"addAttach", "addCreate"}
  BY <1>0 DEF IInv, AttachInv, LockHeld, Locked, Adding, Deleting
<1>2. InHand = {}
  BY <1>0, <1>1 DEF InHand
<1>3. /\ IsFiniteSet(Named) /\ IsFiniteSet(attached) /\ IsFiniteSet(LeftBehind)
      /\ Cardinality(Named) \in Nat /\ Cardinality(attached) \in Nat
      /\ Cardinality(LeftBehind) \in Nat /\ attached \subseteq Named
      /\ Cardinality(LeftBehind) <= faults /\ Cardinality(attached) < MAX_ENIS
  BY <1>0, BoundFinite DEF BoundInv, Checked
<1>4. Cardinality(Named) < MAX_ENIS + faults
  <2>1. LeftBehind = Named \ attached /\ Named \cap attached = attached
    BY <1>2, <1>3 DEF LeftBehind
  <2>2. Cardinality(Named \ attached) = Cardinality(Named) - Cardinality(Named \cap attached)
    BY <1>3, FS_Difference
  <2>3. Cardinality(LeftBehind) = Cardinality(Named) - Cardinality(attached)
    BY <2>1, <2>2
  <2> QED
    BY <1>0, <1>3, <2>3
<1>5. PICK q \in Ports : ports[q] = None /\ ports' = [ports EXCEPT ![q] = cid[p]]
                          /\ (CreatePort(p, "addAttach") => port' = [port EXCEPT ![p] = q])
  <2>1. CASE CreatePort(p, "addAttach")
    BY <2>1 DEF CreatePort, FindPort
  <2>2. CASE CreatePortLost(p) /\ ~CreatePort(p, "addAttach")
    BY <2>2 DEF CreatePortLost, FindPort
  <2> QED
    BY <2>1, <2>2
<1>6. Named' = Named \cup {q} /\ q \notin Named
  BY <1>0, <1>5 DEF Named
<1>7. IsFiniteSet(Named') /\ Cardinality(Named') = Cardinality(Named) + 1
  BY <1>3, <1>6, FS_AddElement
<1>8. Checked'
  <2>1. PICK l \in {"addAttach", "addErr"} : pc' = [pc EXCEPT ![p] = l]
    BY DEF CreatePort, CreatePortLost, Goto
  <2> QED
    BY <1>0, <1>1, <2>1 DEF Checked
<1>9. LeftBehind' \subseteq LeftBehind \cup {q}
  BY <1>2, <1>6 DEF LeftBehind
<1>10. Cardinality(LeftBehind') <= faults'
  <2>1. CASE CreatePort(p, "addAttach")
    <3>1. q \in InHand' /\ faults' = faults
      BY <1>0, <1>5, <2>1 DEF CreatePort, Goto, InHand
    <3>2. LeftBehind' \subseteq LeftBehind
      BY <1>9, <3>1 DEF LeftBehind
    <3> QED
      BY <1>0, <1>3, <3>1, <3>2, FS_Subset, FS_CardinalityType
  <2>2. CASE CreatePortLost(p)
    <3>1. faults' = faults + 1
      BY <2>2 DEF CreatePortLost, Fault
    <3>2. /\ IsFiniteSet(LeftBehind \cup {q}) /\ Cardinality(LeftBehind \cup {q}) \in Nat
          /\ Cardinality(LeftBehind \cup {q}) <= Cardinality(LeftBehind) + 1
      BY <1>3, OneMore
    <3>3. /\ Cardinality(LeftBehind') <= Cardinality(LeftBehind \cup {q})
          /\ Cardinality(LeftBehind') \in Nat
      BY <1>9, <3>2, FS_Subset, FS_CardinalityType
    <3> QED
      BY <1>0, <1>3, <3>1, <3>2, <3>3
  <2> QED
    BY <2>1, <2>2
<1>11. Cardinality(Named') <= MAX_ENIS + faults'
  <2>1. faults' \in Nat /\ faults' >= faults
    BY <1>0 DEF CreatePort, CreatePortLost, Fault
  <2> QED
    BY <1>0, <1>3, <1>4, <1>7, <2>1
<1>12. attached' \subseteq Named'
  BY <1>3, <1>6
<1> QED
  BY <1>7, <1>8, <1>10, <1>11, <1>12 DEF BoundInv

LEMMA EniBound ==
  ASSUME IInv, BoundInv, mode = "eni", UNCHANGED mode, NEW p \in Procs,
         Start(p) \/ Step(p) \/ Crash(p)
  PROVE  BoundInv'
<1>0. /\ faults \in Nat /\ pc \in [Procs -> Adding \cup Deleting \cup {"idle"}]
      /\ port \in [Procs -> Ports \cup {None}] /\ ports \in [Ports -> Containers \cup {None}]
      /\ \A r \in Procs : pc[r] # "idle" => cid[r] \in Containers
  BY NamedPortAssumption DEF IInv, TypeOK, PortTypeOK
<1>a. attached \subseteq Named /\ Checked /\ Cardinality(attached) \in Nat /\ MAX_ENIS \in Nat
  BY BoundFinite, EniAssumption DEF BoundInv
<1>b. \A r \in Procs : pc[r] \in Locked <=> lock = r
  BY DEF IInv, AttachInv, LockHeld
\* The ports stay as they are, and no process puts one down.
<1>1. ASSUME NEW l, pc' = [pc EXCEPT ![p] = l], pc[p] # "addAttach",
             l = "addCreate" => Cardinality(attached) < MAX_ENIS,
             \A r \in Procs : r # p => port'[r] = port[r],
             UNCHANGED <<ports, attached, faults>>
      PROVE  BoundInv'
  <2>1. Named' = Named /\ InHand \subseteq InHand' /\ LeftBehind' \subseteq LeftBehind
    BY <1>0, <1>1 DEF Named, InHand, LeftBehind
  <2>2. Checked'
    BY <1>0, <1>a, <1>1 DEF Checked
  <2> QED
    BY <1>0, <1>a, <1>1, <2>1, <2>2, KeepsBound
<1>2. CASE Start(p)
  <2>1. PICK c \in Containers, l \in {"addNew", "delNew"}, s \in {"adding", "none", "torn"} :
             StartCall(p, c, l, s)
    BY <1>2 DEF Start, CmdAdd, CmdAddAgain, CmdDel
  <2>2. /\ pc[p] = "idle" /\ pc' = [pc EXCEPT ![p] = l]
        /\ UNCHANGED <<ports, port, attached, faults>>
    BY <1>2, <2>1 DEF Start, StartCall, Goto
  <2> QED
    BY <1>1, <2>2
<1>3. CASE NewEniStore(p) \/ Lock(p) \/ ReserveFind(p) \/ ReleaseFind(p)
  <2>1. PICK l \in {"addLock", "delLock", "addFind", "delFind", "addCheck", "addAttach", "delOK",
                    "delDelete"} : pc' = [pc EXCEPT ![p] = l]
    BY <1>3 DEF NewEniStore, Lock, ReserveFind, ReleaseFind, Goto
  <2>2. /\ pc[p] # "addAttach" /\ UNCHANGED <<ports, attached, faults>>
        /\ \A r \in Procs : r # p => port'[r] = port[r]
    BY <1>0, <1>3 DEF NewEniStore, Lock, ReserveFind, ReleaseFind
  <2> QED
    BY <1>1, <2>1, <2>2
<1>4. CASE ReserveCheck(p)
  <2>1. PICK l \in {"addErr", "addCreate"} :
           pc' = [pc EXCEPT ![p] = l] /\ (l = "addCreate" => ~IsOverMax)
    BY <1>4 DEF ReserveCheck, Goto
  <2>2. pc[p] # "addAttach" /\ UNCHANGED <<ports, port, attached, faults>>
    BY <1>4 DEF ReserveCheck
  <2>3. l = "addCreate" => Cardinality(attached) < MAX_ENIS
    BY <1>a, <2>1 DEF IsOverMax
  <2> QED
    BY <1>1, <2>1, <2>2, <2>3
<1>5. CASE Return(p)
  <2>1. /\ pc' = [pc EXCEPT ![p] = "idle"] /\ port' = [port EXCEPT ![p] = None]
        /\ pc[p] # "addAttach" /\ UNCHANGED <<ports, attached, faults>>
    BY <1>5 DEF Return, ReturnAdd, ReturnDel, Exit, Goto
  <2> QED
    BY <1>0, <1>1, <2>1
<1>6. CASE ReserveCreate(p)
  <2>1. CASE CreatePortRefused(p)
    <3>1. /\ pc' = [pc EXCEPT ![p] = "addErr"] /\ pc[p] # "addAttach"
          /\ UNCHANGED <<ports, port, attached, faults>>
      BY <1>6, <2>1 DEF ReserveCreate, CreatePortRefused, Goto
    <3> QED
      BY <1>1, <3>1
  <2> QED
    BY <1>6, <2>1, CreateBound DEF ReserveCreate
<1>7. CASE Crash(p)
  <2>1. /\ pc' = [pc EXCEPT ![p] = "idle"] /\ port' = [port EXCEPT ![p] = None]
        /\ faults' = faults + 1 /\ UNCHANGED <<ports, attached>>
    BY <1>7 DEF Crash, Dies, Exit, Goto, Fault
  <2>2. Named' = Named /\ LeftBehind' \subseteq LeftBehind \cup {port[p]}
    BY <1>0, <2>1 DEF Named, InHand, LeftBehind
  <2>3. Checked'
    BY <1>0, <1>a, <2>1 DEF Checked
  <2> QED
    BY <1>0, <1>a, <2>1, <2>2, <2>3, KeepsBound
<1>8. CASE ReserveAttach(p) \/ ReserveAttachFails(p)
  <2>1. /\ pc[p] = "addAttach" /\ UNCHANGED <<ports, port>>
        /\ port[p] \in Named
    BY <1>0, <1>8, NamedPortAssumption
    DEF ReserveAttach, ReserveAttachFails, IInv, PortInv, Names, PortInHand, Named
  <2>2. PICK l \in {"addOK", "addErr"} : pc' = [pc EXCEPT ![p] = l]
    BY <1>8 DEF ReserveAttach, ReserveAttachFails, Goto
  <2>3. Checked'
    <3>1. \A r \in Procs : r # p => pc[r] # "addCreate"
      BY <1>0, <1>b, <2>1 DEF Locked, Adding, Deleting
    <3> QED
      BY <1>0, <2>2, <3>1 DEF Checked
  <2>4. Named' = Named /\ attached' \in {attached, attached \cup {port[p]}}
    BY <1>8, <2>1 DEF ReserveAttach, ReserveAttachFails, Named
  <2>5. LeftBehind' \subseteq LeftBehind \cup {port[p]}
    BY <1>0, <2>1, <2>2, <2>4 DEF InHand, LeftBehind
  <2>6. CASE ReserveAttach(p)
    <3>1. port[p] \in attached' /\ faults' = faults
      BY <2>6 DEF ReserveAttach
    <3>2. LeftBehind' \subseteq LeftBehind
      BY <2>5, <3>1 DEF LeftBehind
    <3> QED
      BY <1>0, <1>a, <2>1, <2>3, <2>4, <3>1, <3>2, KeepsBound
  <2>7. CASE ReserveAttachFails(p)
    <3>1. faults' = faults + 1
      BY <2>7 DEF ReserveAttachFails, Fault
    <3> QED
      BY <1>0, <1>a, <2>1, <2>3, <2>4, <2>5, <3>1, KeepsBound
  <2> QED
    BY <1>8, <2>6, <2>7
<1>9. CASE ReleaseDelete(p)
  <2>1. /\ pc[p] = "delDelete" /\ UNCHANGED port
        /\ ports' = [ports EXCEPT ![port[p]] = None] /\ attached' = attached \ {port[p]}
        /\ faults' \in {faults, faults + 1}
    BY <1>9 DEF ReleaseDelete, DeletePort, DeletePortLost, Fault
  <2>2. PICK l \in {"delOK", "delErr"} : pc' = [pc EXCEPT ![p] = l]
    BY <1>9 DEF ReleaseDelete, DeletePort, DeletePortLost, Goto
  <2>3. Checked'
    <3>1. \A r \in Procs : r # p => pc[r] # "addCreate"
      BY <1>0, <1>b, <2>1 DEF Locked, Adding, Deleting
    <3> QED
      BY <1>0, <2>2, <3>1 DEF Checked
  <2>4. Named' = Named \ {port[p]}
    BY <1>0, <2>1 DEF Named
  <2>5. InHand' = InHand
    BY <1>0, <2>1, <2>2 DEF InHand
  <2>6. LeftBehind' \subseteq LeftBehind
    BY <2>1, <2>4, <2>5 DEF LeftBehind
  <2>7. attached' \subseteq Named' /\ Named' \subseteq Named
    BY <1>a, <2>1, <2>4
  <2> QED
    BY <1>0, <2>1, <2>3, <2>6, <2>7, KeepsBound
<1> QED
  BY <1>2, <1>3, <1>4, <1>5, <1>6, <1>7, <1>8, <1>9 DEF Step, Reserve, ReleaseByID

LEMMA NextBound == IInv /\ BoundInv /\ [StoreNext]_storeVars => BoundInv'
<1> SUFFICES ASSUME IInv, BoundInv, [StoreNext]_storeVars PROVE BoundInv'
  OBVIOUS
<1>1. CASE UNCHANGED storeVars
  BY <1>1 DEF storeVars, vars, portVars, BoundInv, Named, LeftBehind, InHand, Checked
<1>2. ASSUME NEW p \in Procs, StoreStart(p) \/ StoreStep(p) \/ StoreCrash(p)
      PROVE  BoundInv'
  <2>1. CASE mode = "eni"
    <3>1. (Start(p) \/ Step(p) \/ Crash(p)) /\ UNCHANGED mode
      BY <1>2, <2>1 DEF StoreStart, StoreStep, StoreCrash
    <3> QED
      BY <2>1, <3>1, EniBound
  <2>2. CASE mode = "separate"
    <3>1. UNCHANGED <<attached, mode>>
      BY <1>2, <2>2 DEF StoreStart, StoreStep, StoreCrash
    <3> QED
      BY <2>2, <3>1 DEF BoundInv
  <2> QED
    BY <2>1, <2>2 DEF IInv, PortInv
<1> QED
  BY <1>1, <1>2 DEF StoreNext

\* Only calls that failed can put the machine over the limit of interfaces, one
\* interface each.
THEOREM EnisBoundedHolds == StoreSpec => []EnisBounded
<1>1. IInv /\ BoundInv => EnisBounded
  <2> SUFFICES ASSUME IInv, BoundInv PROVE Cardinality(attached) <= MAX_ENIS + faults
    BY DEF EnisBounded
  <2>1. faults \in Nat /\ MAX_ENIS \in Nat
    BY NamedPortAssumption, EniAssumption DEF IInv, TypeOK, PortTypeOK
  <2>2. CASE mode = "separate"
    BY <2>1, <2>2, FS_EmptySet DEF BoundInv
  <2>3. CASE mode = "eni"
    <3>1. /\ attached \in SUBSET Named /\ IsFiniteSet(Named)
          /\ Cardinality(Named) <= MAX_ENIS + faults
      BY <2>3 DEF BoundInv
    <3>2. Cardinality(attached) <= Cardinality(Named)
      BY <3>1, FS_Subset
    <3>3. Cardinality(attached) \in Nat /\ Cardinality(Named) \in Nat
      BY <2>3, BoundFinite
    <3> QED
      BY <2>1, <3>1, <3>2, <3>3
  <2> QED
    BY <2>2, <2>3 DEF IInv, PortInv
<1> QED
  BY <1>1, IInvHolds, InitBound, NextBound, PTL DEF StoreSpec

=============================================================================
