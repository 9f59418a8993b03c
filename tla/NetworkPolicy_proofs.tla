------------------------ MODULE NetworkPolicy_proofs ------------------------
(***************************************************************************)
(* TLAPS proofs about NetworkPolicy, for any number of policies, pods,     *)
(* changes and faults.                                                     *)
(***************************************************************************)
EXTENDS NetworkPolicy, FiniteSetTheorems, TLAPS

(***************************************************************************)
(* TypeOK is not inductive: what a goroutine writes into the kernel's      *)
(* tables has the right type only because of what it has done before.      *)
(***************************************************************************)
Labels == Phases \cup {"idle", "list", "store", "create", "fill", "save",
              "restore", "sync", "podRestore", "ensure", "unjump", "flush", "delete"}

\* createIPSet works on sets of policies that are in its copy of p.policies.
SetsHeld ==
    \A t \in Threads : pc[t] \in {"create", "fill"} => left[t] \subseteq Held(held[t])

FillHeld ==
    \A t \in Threads :
        pc[t] = "fill" => seen[t] \in Policies \X SUBSET Pods /\ seen[t][1] \in Held(held[t])

\* A goroutine that works on a chain has the name of the pod.
PodNamed ==
    \A t \in Threads :
        pc[t] \in {"podRestore", "ensure", "unjump", "flush", "delete"} => pod[t] \in Pods

\* The handler takes an event out of the queue at its end only.
EventKept == pc["pod"] # "idle" => podEvents # <<>>

Local == SetsHeld /\ FillHeld /\ PodNamed /\ EventKept

(***************************************************************************)
(* The parts of TypeOK                                                     *)
(***************************************************************************)
ClusterTypes ==
    /\ nps \in SUBSET Policies
    /\ pods \in [Pods -> {"none", "noip", "ip", "gone"}]
    /\ changes \in 0..MaxChanges

Notices == {"update", "delete"} \X Pods \X {"noip", "ip"}

EventTypes ==
    /\ started \in BOOLEAN
    /\ npEvents \in Seq({"add", "update", "delete"})
    /\ podEvents \in Seq(Notices)

ControlTypes ==
    /\ pc \in [Threads -> Labels]
    /\ plan \in [Threads -> Seq(Phases)]

SyncTypes ==
    /\ held \in [Threads -> Tables]
    /\ old \in [Threads -> SUBSET Policies]
    /\ left \in [Threads -> SUBSET Policies]
    /\ seen \in [Threads -> {Nothing} \cup (Policies \X SUBSET Pods)]
    /\ saved \in [Threads -> SUBSET Policies]

PodTypes ==
    /\ todo \in [Threads -> SUBSET (Pods \X {"noip", "ip"})]
    /\ pod \in [Threads -> Pods \cup {Nothing}]
    /\ want \in [Threads -> SUBSET Policies]

Parts ==
    /\ ClusterTypes /\ EventTypes /\ policies \in Tables /\ ControlTypes /\ SyncTypes /\ PodTypes
    /\ NetfilterTypeOK /\ faults \in 0..MaxFaults

LEMMA PartsOfTypeOK == TypeOK <=> Parts
  BY DEF TypeOK, Parts, ClusterTypes, EventTypes, ControlTypes, SyncTypes, PodTypes, Labels, Notices

IInv == Parts /\ Local

LEMMA InitIInv == Init => IInv
<1> SUFFICES ASSUME Init PROVE IInv
  OBVIOUS
<1>0. /\ nps \in SUBSET Policies /\ pods \in [Pods -> {"none", "noip", "ip"}]
      /\ changes \in 0..MaxChanges /\ faults \in 0..MaxFaults
  <2>1. PICK start \in Starts :
             /\ nps = start.nps /\ pods = start.pods
             /\ changes = start.changes /\ faults = start.faults
    BY DEF Init
  <2> QED
    BY <2>1, PolicyAssumption
<1>1. EventTypes
  <2>1. nps \in SUBSET Policies
    BY <1>0
  <2>2. IsFiniteSet(nps)
    BY <2>1, PolicyAssumption, FS_Subset
  <2>3. PICK k \in Nat : k = Cardinality(nps)
    BY <2>2, FS_CardinalityType
  <2>4. npEvents = [i \in 1..k |-> "add"]
    BY <2>3 DEF Init
  <2>5. npEvents \in Seq({"add", "update", "delete"})
    BY <2>4
  <2>6. podEvents = <<>> /\ started = FALSE
    BY DEF Init
  <2>7. podEvents \in Seq(Notices)
    BY <2>6
  <2> QED
    BY <2>5, <2>6, <2>7 DEF EventTypes
<1>2. NetfilterTypeOK
  BY DEF Init, NetfilterInit, NetfilterTypeOK
<1>3. NoTables \in Tables
  BY DEF NoTables, Tables
<1>4. ClusterTypes
  <2>1. pods \in [Pods -> {"none", "noip", "ip", "gone"}]
    BY <1>0
  <2> QED
    BY <1>0, <2>1 DEF ClusterTypes
<1>5. faults \in 0..MaxFaults
  BY <1>0
<1>6. ControlTypes
  BY DEF Init, ControlTypes, Labels
<1>7. policies \in Tables /\ SyncTypes
  BY <1>3 DEF Init, SyncTypes
<1>8. PodTypes
  BY DEF Init, PodTypes
<1>9. Local
  BY DEF Init, Local, SetsHeld, FillHeld, PodNamed, EventKept, Threads
<1> QED
  BY <1>1, <1>2, <1>4, <1>5, <1>6, <1>7, <1>8, <1>9 DEF IInv, Parts

-----------------------------------------------------------------------------
(***************************************************************************)
(* Operators                                                               *)
(***************************************************************************)
LEMMA GotoType ==
  ASSUME ControlTypes, NEW t \in Threads, NEW l \in Labels, Goto(t, l), UNCHANGED plan
  PROVE  ControlTypes'
  BY DEF ControlTypes, Goto

\* A goroutine that goes on to its next phase is at no chain and at no set.
LEMMA AdvanceType ==
  ASSUME ControlTypes, NEW t \in Threads, Advance(t)
  PROVE  ControlTypes' /\ \E l \in Phases \cup {"idle"} : Goto(t, l)
<1>1. CASE plan[t] = <<>>
  <2>1. Goto(t, "idle") /\ UNCHANGED plan
    BY <1>1 DEF Advance
  <2> QED
    BY <2>1, GotoType DEF Labels
<1>2. CASE plan[t] # <<>>
  <2>1. plan[t] \in Seq(Phases)
    BY DEF ControlTypes
  <2>2. Head(plan[t]) \in Phases /\ Tail(plan[t]) \in Seq(Phases)
    BY <1>2, <2>1
  <2>3. Goto(t, Head(plan[t])) /\ plan' = [plan EXCEPT ![t] = Tail(plan[t])]
    BY <1>2 DEF Advance
  <2> QED
    BY <2>2, <2>3 DEF ControlTypes, Goto, Labels
<1> QED
  BY <1>1, <1>2

LEMMA NextPodType ==
  ASSUME ControlTypes, PodTypes, NEW t \in Threads, NextPod(t), UNCHANGED todo
  PROVE  /\ ControlTypes' /\ PodTypes' /\ (\E l \in Phases \cup {"idle", "sync"} : Goto(t, l))
         /\ \A q \in Threads \ {t} : pod'[q] = pod[q]
<1>1. PodTypes' /\ \A q \in Threads \ {t} : pod'[q] = pod[q]
  BY DEF NextPod, PodTypes
<1>2. CASE todo[t] = {}
  BY <1>1, <1>2, AdvanceType DEF NextPod
<1>3. CASE todo[t] # {}
  BY <1>1, <1>3, GotoType DEF NextPod, Labels
<1> QED
  BY <1>2, <1>3

LEMMA ForgetType ==
  ASSUME SyncTypes, NEW t \in Threads, Forget(t)
  PROVE  /\ SyncTypes'
         /\ \A q \in Threads \ {t} : held'[q] = held[q] /\ left'[q] = left[q] /\ seen'[q] = seen[q]
<1>1. NoTables \in Tables
  BY DEF NoTables, Tables
<1> QED
  BY <1>1 DEF SyncTypes, Forget

-----------------------------------------------------------------------------
(***************************************************************************)
(* Steps                                                                   *)
(***************************************************************************)
\* A step of one goroutine changes no local state of the others.
Others(t) ==
    \A q \in Threads \ {t} :
        pc'[q] = pc[q] /\ held'[q] = held[q] /\ left'[q] = left[q] /\ seen'[q] = seen[q]
        /\ pod'[q] = pod[q]

\* What has to be shown of a goroutine after its step.
Own(t) ==
    /\ pc[t] \in {"create", "fill"} => left[t] \subseteq Held(held[t])
    /\ pc[t] = "fill" => seen[t] \in Policies \X SUBSET Pods /\ seen[t][1] \in Held(held[t])
    /\ pc[t] \in {"podRestore", "ensure", "unjump", "flush", "delete"} => pod[t] \in Pods

LEMMA LocalStep ==
  ASSUME Local, NEW t \in Threads, Others(t), Own(t)', EventKept'
  PROVE  Local'
  BY DEF Local, SetsHeld, FillHeld, PodNamed, Others, Own, Held

\* At the start of a phase nothing has to be shown.
LEMMA OwnAtPhase ==
  ASSUME ControlTypes, NEW t \in Threads,
         NEW l \in Phases \cup {"idle", "list", "store", "save", "restore", "sync"}, Goto(t, l)
  PROVE  Own(t)' /\ \A q \in Threads \ {t} : pc'[q] = pc[q]
<1>1. pc'[t] = l /\ \A q \in Threads \ {t} : pc'[q] = pc[q]
  BY DEF ControlTypes, Goto
<1> QED
  BY <1>1 DEF Own, Phases

\* Every step but the last one of the pod handler leaves the events alone.
LEMMA KeepsEvent ==
  ASSUME Local, NEW t \in Threads, pc[t] # "idle", Others(t), UNCHANGED podEvents
  PROVE  EventKept'
<1>1. "pod" \in Threads
  BY DEF Threads
<1> QED
  BY <1>1 DEF Local, EventKept, Others

LEMMA ClusterStep ==
  ASSUME IInv, ClusterChanges
  PROVE  IInv'
<1> USE DEF IInv
<1>1. /\ UNCHANGED <<started, policies, pc, plan, local, kernel, faults>>
      /\ changes < MaxChanges /\ changes' = changes + 1
  BY DEF ClusterChanges, CreatePolicy, RemovePolicy, UpdatePolicy, CreatePod, AssignIP, RemovePod, Change
<1>2. /\ policies' \in Tables /\ ControlTypes' /\ SyncTypes' /\ PodTypes' /\ NetfilterTypeOK'
      /\ faults' \in 0..MaxFaults
  BY <1>1 DEF Parts, ControlTypes, SyncTypes, PodTypes, NetfilterTypeOK, local, kernel
<1>3. changes' \in 0..MaxChanges
  BY <1>1, PolicyAssumption DEF Parts, ClusterTypes
<1>4. ClusterTypes'
  BY <1>3 DEF ClusterChanges, CreatePolicy, RemovePolicy, UpdatePolicy, CreatePod, AssignIP,
         RemovePod, Parts, ClusterTypes
<1>5. npEvents' \in Seq({"add", "update", "delete"})
  <2>1. \/ npEvents' = npEvents
        \/ \E e \in {"add", "update", "delete"} : npEvents' = Append(npEvents, e)
    BY DEF ClusterChanges, CreatePolicy, RemovePolicy, UpdatePolicy, CreatePod, AssignIP, RemovePod
  <2> QED
    BY <2>1 DEF Parts, EventTypes
<1>6. podEvents' = podEvents \/ \E e \in Notices : podEvents' = Append(podEvents, e)
  BY DEF ClusterChanges, CreatePolicy, RemovePolicy, UpdatePolicy, CreatePod, AssignIP,
         RemovePod, PodEvent, Notices
<1>7. podEvents' \in Seq(Notices) /\ (podEvents # <<>> => podEvents' # <<>>)
  BY <1>6 DEF Parts, EventTypes
<1>8. EventTypes'
  BY <1>1, <1>5, <1>7 DEF Parts, EventTypes
<1>9. Local'
  BY <1>1, <1>7 DEF Local, SetsHeld, FillHeld, PodNamed, EventKept, local, Held
<1> QED
  BY <1>2, <1>4, <1>8, <1>9 DEF Parts

LEMMA StartStep ==
  ASSUME IInv, Run \/ PolicyHandler \/ UpdatePod \/ DeletePod
  PROVE  IInv'
<1> USE DEF IInv
<1>0. Threads = {"policy", "pod", "run"}
  BY DEF Threads
<1>1. /\ UNCHANGED <<cluster, podEvents, policies, syncing, want, kernel, faults>>
  BY DEF Run, PolicyHandler, UpdatePod, DeletePod, local, syncing
<1>2. /\ ClusterTypes' /\ policies' \in Tables /\ SyncTypes' /\ NetfilterTypeOK'
      /\ faults' \in 0..MaxFaults
  BY <1>1 DEF Parts, ClusterTypes, SyncTypes, NetfilterTypeOK, cluster, syncing, kernel
<1>3. CASE Run
  <2>1. Goto("run", "list") /\ plan' = [plan EXCEPT !["run"] = <<"rules", "pods">>]
        /\ UNCHANGED <<started, npEvents, local>>
    BY <1>3 DEF Run
  <2>2. <<"rules", "pods">> \in Seq(Phases)
    BY DEF Phases
  <2>3. ControlTypes' /\ EventTypes' /\ PodTypes'
    BY <1>0, <1>1, <2>1, <2>2 DEF Parts, ControlTypes, EventTypes, PodTypes, Goto, Labels, local
  <2>4. Own("run")' /\ Others("run")
    BY <1>0, <1>1, <2>1, OwnAtPhase DEF Parts, Others, syncing, local
  <2>5. EventKept'
    BY <1>0, <1>1, <2>4 DEF Local, EventKept, Others
  <2> QED
    BY <1>0, <1>2, <2>3, <2>4, <2>5, LocalStep DEF Parts
<1>4. CASE PolicyHandler
  <2>1. /\ npEvents # <<>> /\ npEvents' = Tail(npEvents) /\ Goto("policy", "list")
        /\ started' = (started \/ Head(npEvents) = "add") /\ UNCHANGED local
    BY <1>4 DEF PolicyHandler
  <2>2. <<"rules", "pods">> \in Seq(Phases) /\ <<"pods", "rules">> \in Seq(Phases)
    BY DEF Phases
  <2>3. PICK s \in Seq(Phases) : plan' = [plan EXCEPT !["policy"] = s]
    BY <1>4, <2>2 DEF PolicyHandler
  <2>4. ControlTypes' /\ PodTypes'
    BY <1>0, <2>1, <2>3 DEF Parts, ControlTypes, PodTypes, Goto, Labels, local
  <2>5. npEvents' \in Seq({"add", "update", "delete"})
    BY <2>1 DEF Parts, EventTypes
  <2>6. EventTypes'
    BY <1>1, <2>1, <2>5 DEF Parts, EventTypes
  <2>7. Own("policy")' /\ Others("policy")
    BY <1>0, <2>1, OwnAtPhase DEF Parts, Others, local
  <2>8. EventKept'
    BY <1>0, <1>1, <2>7 DEF Local, EventKept, Others
  <2> QED
    BY <1>0, <1>2, <2>4, <2>6, <2>7, <2>8, LocalStep DEF Parts
<1>5. CASE UpdatePod \/ DeletePod
  <2>1. podEvents # <<>> /\ Head(podEvents) \in Notices
    BY <1>5 DEF UpdatePod, DeletePod, Parts, EventTypes
  <2>2. Head(podEvents)[2] \in Pods /\ Head(podEvents)[3] \in {"noip", "ip"}
    BY <2>1 DEF Notices
  <2>3. <<"addIP">> \in Seq(Phases) /\ <<"delIP">> \in Seq(Phases)
    BY DEF Phases
  <2>4. /\ \E s \in Seq(Phases) : plan' = [plan EXCEPT !["pod"] = s]
        /\ Goto("pod", "sync") \/ (Goto("pod", "unjump") /\ pod'["pod"] \in Pods)
        /\ UNCHANGED <<started, npEvents>>
    BY <1>0, <1>5, <2>2, <2>3 DEF UpdatePod, DeletePod, Parts, PodTypes
  <2>5. ControlTypes' /\ EventTypes'
    BY <1>0, <1>1, <2>4 DEF Parts, ControlTypes, EventTypes, Goto, Labels
  <2>6. PodTypes' /\ \A q \in Threads \ {"pod"} : pod'[q] = pod[q]
    BY <1>0, <1>1, <1>5, <2>2 DEF Parts, PodTypes, UpdatePod, DeletePod
  <2>7. Others("pod")
    BY <1>0, <1>1, <2>4, <2>6 DEF Parts, ControlTypes, Others, Goto, syncing
  <2>8. Own("pod")'
    BY <1>0, <2>4 DEF Parts, ControlTypes, Own, Goto
  <2>9. EventKept'
    BY <1>1, <2>1 DEF EventKept
  <2> QED
    BY <1>0, <1>2, <2>5, <2>6, <2>7, <2>8, <2>9, LocalStep DEF Parts
<1> QED
  BY <1>3, <1>4, <1>5

\* The last step of the pod handler.
LEMMA EntryStep ==
  ASSUME IInv, SyncPodIPInIPSet
  PROVE  IInv'
<1> USE DEF IInv
<1>0. Threads = {"policy", "pod", "run"}
  BY DEF Threads
<1>1. /\ UNCHANGED <<cluster, started, npEvents, policies, plan, local, basic, plcyChain, podChain,
                     jump, faults>>
      /\ podEvents' = Tail(podEvents) /\ Goto("pod", "idle") /\ pc["pod"] \in {"addIP", "delIP"}
  BY DEF SyncPodIPInIPSet
<1>2. podEvents # <<>>
  BY <1>1 DEF Local, EventKept
<1>3. Head(podEvents) \in Notices /\ podEvents' \in Seq(Notices)
  BY <1>1, <1>2 DEF Parts, EventTypes
<1>4. EventTypes' /\ ClusterTypes' /\ policies' \in Tables /\ faults' \in 0..MaxFaults
  BY <1>1, <1>3 DEF Parts, EventTypes, ClusterTypes, cluster
<1>5. ControlTypes' /\ SyncTypes' /\ PodTypes'
  BY <1>0, <1>1 DEF Parts, ControlTypes, SyncTypes, PodTypes, Goto, Labels, local
<1>6. NetfilterTypeOK'
  <2>1. PICK as \in SUBSET Pods :
           as = IF Head(podEvents)[3] = "ip" THEN {Head(podEvents)[2]} ELSE {}
    BY <1>3 DEF Notices
  <2>2. PICK targets \in SUBSET Policies : targets = Matching(Head(podEvents)[2], policies)
    BY DEF Matching
  <2>3. ipset' = [n \in Policies |->
                    CASE n \notin targets    -> ipset[n]
                      [] pc["pod"] = "addIP" -> AddEntry(ipset, n, as)[n]
                      [] OTHER               -> DelEntry(ipset, n, as)[n]]
    BY <2>1, <2>2 DEF SyncPodIPInIPSet
  <2>4. ipset \in [Policies -> {Nothing} \cup SUBSET Pods]
    BY DEF Parts, NetfilterTypeOK
  <2>5. ASSUME NEW n \in Policies
        PROVE  /\ AddEntry(ipset, n, as)[n] \in {Nothing} \cup SUBSET Pods
               /\ DelEntry(ipset, n, as)[n] \in {Nothing} \cup SUBSET Pods
    BY <2>4 DEF AddEntry, DelEntry
  <2>6. ipset' \in [Policies -> {Nothing} \cup SUBSET Pods]
    BY <2>3, <2>4, <2>5
  <2> QED
    BY <1>1, <2>6 DEF Parts, NetfilterTypeOK
<1>7. Own("pod")' /\ Others("pod")
  BY <1>0, <1>1, OwnAtPhase DEF Parts, Others, local
<1>8. EventKept'
  BY <1>0, <1>1 DEF Parts, ControlTypes, EventKept, Goto
<1> QED
  BY <1>0, <1>4, <1>5, <1>6, <1>7, <1>8, LocalStep DEF Parts

\* A fault is counted.
LEMMA FaultType ==
  ASSUME faults \in 0..MaxFaults, faults < MaxFaults, faults' = faults + 1
  PROVE  faults' \in 0..MaxFaults
  BY PolicyAssumption

\* syncNetworkPolices: a list is made, and becomes p.policies.
LEMMA PoliciesStep ==
  ASSUME IInv, NEW t \in Threads, ListPolicies(t) \/ StorePolicies(t)
  PROVE  IInv'
<1> USE DEF IInv
<1>1. /\ UNCHANGED <<cluster, npEvents, podEvents, old, left, seen, saved, todo, pod, want, kernel, faults>>
      /\ pc[t] \in {"list", "store"}
  BY DEF ListPolicies, StorePolicies
<1>2. /\ ClusterTypes' /\ PodTypes' /\ NetfilterTypeOK' /\ faults' \in 0..MaxFaults
  BY <1>1 DEF Parts, ClusterTypes, PodTypes, NetfilterTypeOK, cluster, kernel
<1>3. CASE ListPolicies(t)
  <2>1. [n \in Policies |-> policyResult(n)] \in Tables
    BY PolicyAssumption DEF policyResult, podSelectorToTable, Tables
  <2>2. /\ held' = [held EXCEPT ![t] = [n \in Policies |-> policyResult(n)]] /\ Goto(t, "store")
        /\ started' \in BOOLEAN /\ UNCHANGED <<policies, plan>>
    BY <1>3 DEF ListPolicies
  <2>3. SyncTypes' /\ \A q \in Threads \ {t} : held'[q] = held[q]
    BY <1>1, <2>1, <2>2 DEF Parts, SyncTypes
  <2>4. ControlTypes' /\ EventTypes' /\ policies' \in Tables
    BY <1>1, <2>2 DEF Parts, ControlTypes, EventTypes, Goto, Labels
  <2>5. Own(t)' /\ Others(t)
    BY <1>1, <2>2, <2>3, OwnAtPhase DEF Parts, Others
  <2> QED
    BY <1>1, <1>2, <2>3, <2>4, <2>5, KeepsEvent, LocalStep DEF Parts
<1>4. CASE StorePolicies(t)
  <2>1. NoTables \in Tables
    BY DEF NoTables, Tables
  <2>2. /\ policies' = held[t] /\ held' = [held EXCEPT ![t] = NoTables] /\ Advance(t)
        /\ UNCHANGED started
    BY <1>4 DEF StorePolicies
  <2>3. SyncTypes' /\ policies' \in Tables /\ \A q \in Threads \ {t} : held'[q] = held[q]
    BY <1>1, <2>1, <2>2 DEF Parts, SyncTypes
  <2>4. ControlTypes' /\ \E l \in Phases \cup {"idle"} : Goto(t, l)
    BY <2>2, AdvanceType DEF Parts
  <2>5. EventTypes'
    BY <1>1, <2>2 DEF Parts, EventTypes
  <2>6. Own(t)' /\ Others(t)
    BY <1>1, <2>3, <2>4, OwnAtPhase DEF Parts, Others
  <2> QED
    BY <1>1, <1>2, <2>3, <2>4, <2>5, <2>6, KeepsEvent, LocalStep DEF Parts
<1> QED
  BY <1>3, <1>4

\* syncRules up to the restore: the steps that Progress describes.
LEMMA ProgressStep ==
  ASSUME IInv, NEW t \in Threads, NEW l \in Labels, Progress(t, l), pc[t] # "idle",
         SyncTypes', NetfilterTypeOK', Own(t)',
         \A q \in Threads \ {t} : held'[q] = held[q] /\ left'[q] = left[q] /\ seen'[q] = seen[q]
  PROVE  IInv'
<1> USE DEF IInv
<1>1. /\ UNCHANGED <<cluster, started, npEvents, podEvents, policies, plan, todo, pod, want, faults>>
      /\ Goto(t, l)
  BY DEF Progress
<1>2. /\ ClusterTypes' /\ EventTypes' /\ policies' \in Tables /\ PodTypes' /\ faults' \in 0..MaxFaults
  BY <1>1 DEF Parts, ClusterTypes, EventTypes, PodTypes, cluster
<1>3. ControlTypes'
  BY <1>1, GotoType DEF Parts
<1>4. Others(t)
  BY <1>1 DEF Parts, ControlTypes, Goto, Others
<1> QED
  BY <1>1, <1>2, <1>3, <1>4, KeepsEvent, LocalStep DEF Parts

LEMMA RulesStep ==
  ASSUME IInv, NEW t \in Threads,
         SyncRules(t) \/ CreateIPSet(t) \/ FillIPSet(t) \/ SaveChains(t)
  PROVE  IInv'
<1> USE DEF IInv
<1>0. Parts /\ SyncTypes /\ NetfilterTypeOK /\ pc \in [Threads -> Labels]
  BY DEF Parts, ControlTypes
<1>1. CASE SyncRules(t)
  <2>1. PICK l \in {"save", "create"} : Progress(t, l)
    BY <1>1 DEF SyncRules
  <2>2. /\ pc[t] = "rules" /\ held' = [held EXCEPT ![t] = policies]
        /\ left' = [left EXCEPT ![t] = Held(policies)] /\ old' = [old EXCEPT ![t] = ListSets]
        /\ UNCHANGED <<seen, saved, kernel>>
    BY <1>1 DEF SyncRules
  <2>3. Held(policies) \in SUBSET Policies /\ ListSets \in SUBSET Policies /\ policies \in Tables
    BY DEF Held, ListSets, Parts
  <2>4. SyncTypes' /\ NetfilterTypeOK'
    BY <1>0, <2>2, <2>3 DEF SyncTypes, NetfilterTypeOK, kernel
  <2>5. left'[t] = Held(held'[t]) /\ pc'[t] = l
    BY <1>0, <2>1, <2>2 DEF SyncTypes, Progress, Goto
  <2>6. Own(t)'
    BY <2>1, <2>5 DEF Own, Held
  <2>7. \A q \in Threads \ {t} : held'[q] = held[q] /\ left'[q] = left[q] /\ seen'[q] = seen[q]
    BY <1>0, <2>2 DEF SyncTypes
  <2> QED
    BY <2>1, <2>2, <2>4, <2>6, <2>7, ProgressStep DEF Labels
<1>2. CASE CreateIPSet(t)
  <2>1. PICK n \in left[t] :
          /\ ipset' = CreateSet(ipset, n)
          /\ seen' = [seen EXCEPT ![t] = <<n, ListEntries(n)>>]
          /\ left' = [left EXCEPT ![t] = left[t] \ {n}]
    BY <1>2 DEF CreateIPSet
  <2>2. /\ pc[t] = "create" /\ Progress(t, "fill")
        /\ UNCHANGED <<held, old, saved, basic, plcyChain, podChain, jump>>
    BY <1>2 DEF CreateIPSet
  <2>3. left[t] \subseteq Held(held[t]) /\ n \in Policies
    BY <1>0, <2>2 DEF Local, SetsHeld, SyncTypes
  <2>4. ListEntries(n) \in SUBSET Pods
    BY <1>0, <2>3 DEF ListEntries, NetfilterTypeOK
  <2>5. NetfilterTypeOK'
    BY <1>0, <2>1, <2>2, <2>3 DEF NetfilterTypeOK, CreateSet
  <2>6. SyncTypes'
    BY <1>0, <2>1, <2>2, <2>3, <2>4 DEF SyncTypes
  <2>7. /\ pc'[t] = "fill" /\ seen'[t] = <<n, ListEntries(n)>> /\ left'[t] \subseteq Held(held[t])
        /\ n \in Held(held[t]) /\ held'[t] = held[t]
    BY <1>0, <2>1, <2>2, <2>3 DEF SyncTypes, Progress, Goto
  <2>8. Own(t)'
    BY <2>3, <2>4, <2>7 DEF Own, Held
  <2>9. \A q \in Threads \ {t} : held'[q] = held[q] /\ left'[q] = left[q] /\ seen'[q] = seen[q]
    BY <1>0, <2>1, <2>2 DEF SyncTypes
  <2> QED
    BY <2>2, <2>5, <2>6, <2>8, <2>9, ProgressStep DEF Labels
<1>3. CASE FillIPSet(t)
  <2>1. PICK l \in {"save", "create"} : Progress(t, l)
    BY <1>3 DEF FillIPSet
  <2>2. /\ pc[t] = "fill" /\ seen' = [seen EXCEPT ![t] = Nothing]
        /\ UNCHANGED <<held, old, left, saved, basic, plcyChain, podChain, jump>>
    BY <1>3 DEF FillIPSet
  <2>3. /\ seen[t] \in Policies \X SUBSET Pods /\ seen[t][1] \in Held(held[t])
        /\ left[t] \subseteq Held(held[t])
    BY <2>2 DEF Local, SetsHeld, FillHeld
  <2>4. PICK n \in Policies, as \in SUBSET Pods, bs \in SUBSET Pods :
           ipset' = DelEntry(AddEntry(ipset, n, as), n, bs)
    <3>1. /\ seen[t][1] \in Policies /\ seen[t][2] \in SUBSET Pods
          /\ held[t][seen[t][1]] \in SUBSET Pods
      BY <1>0, <2>3 DEF SyncTypes, Tables, Held
    <3>2. ipset' = DelEntry(AddEntry(ipset, seen[t][1], held[t][seen[t][1]] \ seen[t][2]),
                            seen[t][1], seen[t][2] \ held[t][seen[t][1]])
      BY <1>3 DEF FillIPSet
    <3>3. /\ held[t][seen[t][1]] \ seen[t][2] \in SUBSET Pods
          /\ seen[t][2] \ held[t][seen[t][1]] \in SUBSET Pods
      BY <3>1
    <3> QED
      BY <3>1, <3>2, <3>3
  <2>5. ipset' \in [Policies -> {Nothing} \cup SUBSET Pods]
    <3>1. AddEntry(ipset, n, as) \in [Policies -> {Nothing} \cup SUBSET Pods]
      BY <1>0 DEF NetfilterTypeOK, AddEntry
    <3> QED
      BY <2>4, <3>1 DEF DelEntry
  <2>6. NetfilterTypeOK' /\ SyncTypes'
    BY <1>0, <2>2, <2>5 DEF NetfilterTypeOK, SyncTypes
  <2>7. Own(t)'
    <3>1. pc'[t] = l /\ left'[t] \subseteq Held(held'[t])
      BY <1>0, <2>1, <2>2, <2>3 DEF Progress, Goto
    <3> QED
      BY <2>1, <3>1 DEF Own, Held
  <2>8. \A q \in Threads \ {t} : held'[q] = held[q] /\ left'[q] = left[q] /\ seen'[q] = seen[q]
    BY <1>0, <2>2 DEF SyncTypes
  <2> QED
    BY <2>1, <2>2, <2>6, <2>7, <2>8, ProgressStep DEF Labels
<1>4. CASE SaveChains(t)
  <2>1. /\ pc[t] = "save" /\ saved' = [saved EXCEPT ![t] = plcyChain] /\ Progress(t, "restore")
        /\ UNCHANGED <<held, old, left, seen, kernel>>
    BY <1>4 DEF SaveChains, SaveInto
  <2>2. NetfilterTypeOK' /\ SyncTypes'
    BY <1>0, <2>1 DEF NetfilterTypeOK, SyncTypes, kernel
  <2>3. Own(t)'
    BY <2>1, OwnAtPhase DEF Parts, Progress
  <2> QED
    BY <2>1, <2>2, <2>3, ProgressStep DEF Labels
<1> QED
  BY <1>1, <1>2, <1>3, <1>4

\* The end of syncRules, and its failures.
LEMMA RestoreStep ==
  ASSUME IInv, NEW t \in Threads, RestoreChains(t) \/ SyncRulesFails(t)
  PROVE  IInv'
<1> USE DEF IInv
<1>0. Parts /\ SyncTypes /\ NetfilterTypeOK
  BY DEF Parts
<1>1. /\ UNCHANGED <<cluster, started, npEvents, podEvents, policies, todo, pod, want, basic, podChain, jump>>
      /\ Forget(t) /\ Advance(t) /\ pc[t] \in {"rules", "create", "save", "restore"}
  BY DEF RestoreChains, SyncRulesFails
<1>2. ClusterTypes' /\ EventTypes' /\ policies' \in Tables /\ PodTypes'
  BY <1>0, <1>1 DEF Parts, ClusterTypes, EventTypes, PodTypes, cluster
<1>3. ControlTypes' /\ \E l \in Phases \cup {"idle"} : Goto(t, l)
  BY <1>0, <1>1, AdvanceType DEF Parts
<1>4. SyncTypes' /\ \A q \in Threads \ {t} : held'[q] = held[q] /\ left'[q] = left[q] /\ seen'[q] = seen[q]
  BY <1>0, <1>1, ForgetType
<1>5. faults' \in 0..MaxFaults
  <2>1. CASE RestoreChains(t)
    BY <1>0, <2>1 DEF Parts, RestoreChains
  <2>2. CASE SyncRulesFails(t)
    BY <1>0, <2>2, FaultType DEF Parts, SyncRulesFails
  <2> QED
    BY <2>1, <2>2
<1>6. ASSUME NEW chains, CleanUpSets(t, chains)
      PROVE  ipset' \in [Policies -> {Nothing} \cup SUBSET Pods]
  BY <1>0, <1>6 DEF CleanUpSets, DestroySet, NetfilterTypeOK
<1>7. NetfilterTypeOK'
  <2>1. CASE RestoreChains(t)
    <3>1. PICK chains : /\ chains = Restored(Held(held[t]), saved[t] \ Held(held[t]))
                        /\ plcyChain' = chains /\ CleanUpSets(t, chains)
      BY <2>1 DEF RestoreChains
    <3>2. Held(held[t]) \in SUBSET Policies /\ saved[t] \in SUBSET Policies
      BY <1>0 DEF Held, SyncTypes
    <3>3. chains \in SUBSET Policies
      BY <1>0, <3>1, <3>2 DEF Restored, NetfilterTypeOK
    <3> QED
      BY <1>0, <1>1, <1>6, <3>1, <3>3 DEF NetfilterTypeOK
  <2>2. CASE SyncRulesFails(t)
    <3>1. UNCHANGED plcyChain /\ (UNCHANGED ipset \/ CleanUpSets(t, plcyChain))
      BY <2>2 DEF SyncRulesFails
    <3> QED
      BY <1>0, <1>1, <1>6, <3>1 DEF NetfilterTypeOK
  <2> QED
    BY <2>1, <2>2
<1>8. Own(t)' /\ Others(t)
  BY <1>0, <1>1, <1>3, <1>4, OwnAtPhase DEF Parts, Others
<1> QED
  BY <1>1, <1>2, <1>3, <1>4, <1>5, <1>7, <1>8, KeepsEvent, LocalStep DEF Parts

LEMMA FillFailsStep ==
  ASSUME IInv, NEW t \in Threads, FillIPSetFails(t)
  PROVE  IInv'
<1> USE DEF IInv
<1>0. Parts /\ SyncTypes /\ NetfilterTypeOK /\ ControlTypes
  BY DEF Parts
<1>1. /\ UNCHANGED <<cluster, started, npEvents, podEvents, policies, plan, held, old, left, saved,
                     todo, pod, want, kernel>>
      /\ pc[t] = "fill" /\ seen' = [seen EXCEPT ![t] = Nothing]
      /\ faults < MaxFaults /\ faults' = faults + 1
  BY DEF FillIPSetFails
<1>2. PICK l \in {"save", "create"} : Goto(t, l)
  BY DEF FillIPSetFails
<1>3. ClusterTypes' /\ EventTypes' /\ policies' \in Tables /\ PodTypes' /\ NetfilterTypeOK'
  BY <1>0, <1>1 DEF Parts, ClusterTypes, EventTypes, PodTypes, NetfilterTypeOK, cluster, kernel
<1>4. SyncTypes' /\ \A q \in Threads \ {t} : seen'[q] = seen[q]
  BY <1>0, <1>1 DEF SyncTypes
<1>5. ControlTypes' /\ pc'[t] = l /\ \A q \in Threads \ {t} : pc'[q] = pc[q]
  BY <1>0, <1>1, <1>2 DEF ControlTypes, Goto, Labels
<1>6. faults' \in 0..MaxFaults
  BY <1>0, <1>1, FaultType DEF Parts
<1>7. Own(t)'
  <2>1. left'[t] \subseteq Held(held'[t])
    BY <1>1 DEF Local, SetsHeld
  <2> QED
    BY <1>2, <1>5, <2>1 DEF Own, Held
<1>8. Others(t)
  BY <1>1, <1>4, <1>5 DEF Others
<1> QED
  BY <1>1, <1>3, <1>4, <1>5, <1>6, <1>7, <1>8, KeepsEvent, LocalStep DEF Parts

\* The steps for the chains of pods leave the rules of the policies alone.
LEMMA PodStep ==
  ASSUME IInv, NEW t \in Threads, pc[t] # "idle",
         UNCHANGED <<cluster, started, npEvents, podEvents, policies, syncing>>,
         ControlTypes', PodTypes', NetfilterTypeOK', faults' \in 0..MaxFaults,
         \A q \in Threads \ {t} : pod'[q] = pod[q],
         NEW l \in Phases \cup {"idle", "sync", "podRestore", "ensure", "unjump", "flush", "delete"},
         Goto(t, l), l \in {"podRestore", "ensure", "unjump", "flush", "delete"} => pod'[t] \in Pods
  PROVE  IInv'
<1> USE DEF IInv
<1>1. ClusterTypes' /\ EventTypes' /\ policies' \in Tables /\ SyncTypes'
  BY DEF Parts, ClusterTypes, EventTypes, SyncTypes, cluster, syncing
<1>2. pc'[t] = l /\ \A q \in Threads \ {t} : pc'[q] = pc[q]
  BY DEF Parts, ControlTypes, Goto
<1>3. Others(t)
  BY <1>2 DEF Others, syncing
<1>4. Own(t)'
  BY <1>2 DEF Own, Phases
<1> QED
  BY <1>1, <1>3, <1>4, KeepsEvent, LocalStep DEF Parts

LEMMA ListPodsStep ==
  ASSUME IInv, NEW t \in Threads, SyncPods(t) \/ SyncPodSkipped(t) \/ SyncPodChains(t)
  PROVE  IInv'
<1> USE DEF IInv
<1>0. Parts /\ PodTypes /\ NetfilterTypeOK /\ ControlTypes /\ ClusterTypes
  BY DEF Parts
<1>1. /\ UNCHANGED <<cluster, started, npEvents, podEvents, policies, syncing, kernel, faults>>
      /\ pc[t] \in {"pods", "sync"}
  BY DEF SyncPods, SyncPodSkipped, SyncPodChains
<1>2. NetfilterTypeOK' /\ faults' \in 0..MaxFaults
  BY <1>0, <1>1 DEF Parts, NetfilterTypeOK, kernel
<1>3. CASE SyncPods(t)
  <2>1. /\ todo' = [todo EXCEPT ![t] = {<<a, pods[a]>> : a \in {a \in Pods : pods[a] \in {"noip", "ip"}}}]
        /\ UNCHANGED <<pod, want>> /\ (Advance(t) \/ (Goto(t, "sync") /\ UNCHANGED plan))
    BY <1>3 DEF SyncPods
  <2>2. {<<a, pods[a]>> : a \in {a \in Pods : pods[a] \in {"noip", "ip"}}} \in SUBSET (Pods \X {"noip", "ip"})
    OBVIOUS
  <2>3. PodTypes'
    BY <1>0, <2>1, <2>2 DEF PodTypes
  <2>4. ControlTypes' /\ \E l \in Phases \cup {"idle", "sync"} : Goto(t, l)
    BY <1>0, <2>1, AdvanceType, GotoType DEF Labels
  <2>5. PICK l \in Phases \cup {"idle", "sync"} : Goto(t, l)
    BY <2>4
  <2>6. l \notin {"podRestore", "ensure", "unjump", "flush", "delete"}
    BY DEF Phases
  <2> QED
    BY <1>1, <1>2, <2>1, <2>3, <2>4, <2>5, <2>6, PodStep
<1>4. CASE SyncPodSkipped(t)
  <2>1. PICK obj \in todo[t] : todo' = [todo EXCEPT ![t] = todo[t] \ {obj}]
                               /\ (Advance(t) \/ UNCHANGED <<pc, plan>>)
    BY <1>4 DEF SyncPodSkipped
  <2>2. UNCHANGED <<pod, want>> /\ pc[t] = "sync"
    BY <1>4 DEF SyncPodSkipped
  <2>3. PodTypes'
    BY <1>0, <2>1, <2>2 DEF PodTypes
  <2>4. ControlTypes' /\ \E l \in Phases \cup {"idle", "sync"} : Goto(t, l)
    <3>1. CASE Advance(t)
      BY <1>0, <3>1, AdvanceType
    <3>2. CASE UNCHANGED <<pc, plan>>
      BY <1>0, <2>2, <3>2 DEF ControlTypes, Goto
    <3> QED
      BY <2>1, <3>1, <3>2
  <2>5. PICK l \in Phases \cup {"idle", "sync"} : Goto(t, l)
    BY <2>4
  <2>6. l \notin {"podRestore", "ensure", "unjump", "flush", "delete"}
    BY DEF Phases
  <2> QED
    BY <1>1, <1>2, <2>2, <2>3, <2>4, <2>5, <2>6, PodStep
<1>5. CASE SyncPodChains(t)
  <2>1. PICK obj \in todo[t] :
          /\ todo' = [todo EXCEPT ![t] = todo[t] \ {obj}]
          /\ pod' = [pod EXCEPT ![t] = obj[1]]
          /\ want' = [want EXCEPT ![t] = Matching(obj[1], policies)]
          /\ Goto(t, IF Matching(obj[1], policies) = {} THEN "unjump" ELSE "podRestore")
    BY <1>5 DEF SyncPodChains
  <2>2. obj[1] \in Pods /\ Matching(obj[1], policies) \in SUBSET Policies /\ UNCHANGED plan
    BY <1>0, <1>5 DEF PodTypes, Matching, SyncPodChains
  <2>3. PodTypes' /\ pod'[t] \in Pods /\ \A q \in Threads \ {t} : pod'[q] = pod[q]
    BY <1>0, <2>1, <2>2 DEF PodTypes
  <2>4. PICK l \in {"unjump", "podRestore"} : Goto(t, l)
    BY <2>1
  <2>5. ControlTypes'
    BY <1>0, <2>2, <2>4, GotoType DEF Labels
  <2> QED
    BY <1>1, <1>2, <2>3, <2>4, <2>5, PodStep
<1> QED
  BY <1>3, <1>4, <1>5

\* The steps that end the work on a pod.
LEMMA PodDoneStep ==
  ASSUME IInv, NEW t \in Threads, pc[t] # "idle", NextPod(t), NetfilterTypeOK',
         faults' \in 0..MaxFaults,
         UNCHANGED <<cluster, started, npEvents, podEvents, policies, syncing, todo>>
  PROVE  IInv'
<1>1. ControlTypes /\ PodTypes
  BY DEF IInv, Parts
<1>2. /\ ControlTypes' /\ PodTypes' /\ (\E l \in Phases \cup {"idle", "sync"} : Goto(t, l))
      /\ \A q \in Threads \ {t} : pod'[q] = pod[q]
  BY <1>1, NextPodType
<1>3. PICK l \in Phases \cup {"idle", "sync"} : Goto(t, l)
  BY <1>2
<1>4. l \notin {"podRestore", "ensure", "unjump", "flush", "delete"}
  BY DEF Phases
<1> QED
  BY <1>2, <1>3, <1>4, PodStep

\* The steps that go on with the same pod.
LEMMA PodGoesOnStep ==
  ASSUME IInv, NEW t \in Threads, pc[t] # "idle", NEW l \in {"ensure", "flush", "delete"}, Goto(t, l),
         UNCHANGED <<plan, pod, todo>>, want' \in [Threads -> SUBSET Policies], pod[t] \in Pods,
         NetfilterTypeOK', faults' \in 0..MaxFaults,
         UNCHANGED <<cluster, started, npEvents, podEvents, policies, syncing>>
  PROVE  IInv'
<1>1. ControlTypes'
  BY GotoType DEF IInv, Parts, Labels
<1>2. PodTypes'
  BY DEF IInv, Parts, PodTypes
<1> QED
  BY <1>1, <1>2, PodStep

LEMMA ChainStep ==
  ASSUME IInv, NEW t \in Threads,
         \/ RestorePodChain(t) \/ RestorePodChainFails(t) \/ AddPodRule(t)
         \/ DeletePodRule(t) \/ FlushPodChain(t) \/ DeletePodChain(t)
  PROVE  IInv'
<1>0. PodTypes /\ NetfilterTypeOK /\ faults \in 0..MaxFaults
  BY DEF IInv, Parts
<1>1. /\ UNCHANGED <<cluster, started, npEvents, podEvents, policies, syncing, todo, faults>>
      /\ pc[t] \in {"podRestore", "ensure", "unjump", "flush", "delete"}
  BY DEF RestorePodChain, RestorePodChainFails, AddPodRule, DeletePodRule, FlushPodChain,
         DeletePodChain, local, syncing
<1>2. pod[t] \in Pods /\ faults' \in 0..MaxFaults
  BY <1>0, <1>1 DEF IInv, Local, PodNamed
<1>3. want[t] \in SUBSET Policies /\ want \in [Threads -> SUBSET Policies]
  BY <1>0 DEF PodTypes
<1>4. CASE RestorePodChain(t)
  <2>1. NetfilterTypeOK'
    BY <1>0, <1>2, <1>3, <1>4 DEF RestorePodChain, RestorePod, EnsureChain, NetfilterTypeOK
  <2>2. want' \in [Threads -> SUBSET Policies] /\ Goto(t, "ensure") /\ UNCHANGED <<plan, pod>>
    BY <1>3, <1>4 DEF RestorePodChain
  <2> QED
    BY <1>1, <1>2, <2>1, <2>2, PodGoesOnStep
<1>5. CASE RestorePodChainFails(t)
  <2>1. NetfilterTypeOK' /\ NextPod(t)
    BY <1>0, <1>5 DEF RestorePodChainFails, EnsureChain, NetfilterTypeOK
  <2> QED
    BY <1>1, <1>2, <2>1, PodDoneStep
<1>6. CASE AddPodRule(t)
  <2>1. NetfilterTypeOK' /\ NextPod(t)
    BY <1>0, <1>2, <1>6 DEF AddPodRule, EnsureRule, NetfilterTypeOK
  <2> QED
    BY <1>1, <1>2, <2>1, PodDoneStep
<1>7. CASE DeletePodRule(t)
  <2>1. NetfilterTypeOK'
    BY <1>0, <1>7 DEF DeletePodRule, DeleteRule, NetfilterTypeOK
  <2>2. Goto(t, "flush") /\ UNCHANGED <<plan, pod, want>>
    BY <1>7 DEF DeletePodRule, local
  <2> QED
    BY <1>1, <1>2, <1>3, <2>1, <2>2, PodGoesOnStep
<1>8. CASE FlushPodChain(t)
  <2>1. NetfilterTypeOK'
    BY <1>0, <1>2, <1>8 DEF FlushPodChain, FlushChain, NetfilterTypeOK
  <2>2. CASE NextPod(t)
    BY <1>1, <1>2, <2>1, <2>2, PodDoneStep
  <2>3. CASE Goto(t, "delete") /\ UNCHANGED <<plan, pod, want>>
    BY <1>1, <1>2, <1>3, <2>1, <2>3, PodGoesOnStep
  <2> QED
    BY <1>8, <2>2, <2>3 DEF FlushPodChain
<1>9. CASE DeletePodChain(t)
  <2>1. NetfilterTypeOK' /\ NextPod(t)
    BY <1>0, <1>2, <1>9 DEF DeletePodChain, DeleteChain, NetfilterTypeOK
  <2> QED
    BY <1>1, <1>2, <2>1, PodDoneStep
<1> QED
  BY <1>4, <1>5, <1>6, <1>7, <1>8, <1>9

LEMMA PodFailsStep ==
  ASSUME IInv, NEW t \in Threads, SyncPodFails(t)
  PROVE  IInv'
<1>0. PodTypes /\ NetfilterTypeOK /\ faults \in 0..MaxFaults
  BY DEF IInv, Parts
<1>1. /\ UNCHANGED <<cluster, started, npEvents, podEvents, policies, syncing, todo, kernel>>
      /\ pc[t] \in {"podRestore", "ensure", "unjump", "flush", "delete"}
      /\ faults < MaxFaults /\ faults' = faults + 1
  BY DEF SyncPodFails
<1>2. pod[t] \in Pods /\ faults' \in 0..MaxFaults
  BY <1>0, <1>1, FaultType DEF IInv, Local, PodNamed
<1>3. NetfilterTypeOK'
  BY <1>0, <1>1 DEF NetfilterTypeOK, kernel
<1>4. want \in [Threads -> SUBSET Policies]
  BY <1>0 DEF PodTypes
<1>5. CASE NextPod(t)
  BY <1>1, <1>2, <1>3, <1>5, PodDoneStep
<1>6. ASSUME NEW l \in {"flush", "delete"}, Goto(t, l), UNCHANGED <<plan, pod, want>>
      PROVE  IInv'
  BY <1>1, <1>2, <1>3, <1>4, <1>6, PodGoesOnStep
<1> QED
  BY <1>5, <1>6 DEF SyncPodFails

\* Type correctness: whatever order the three goroutines run in, what they write
\* into the chains and sets are policies and pods.
THEOREM TypeCorrect == FairSpec => []TypeOK
<1>1. IInv /\ [Next]_vars => IInv'
  <2> SUFFICES ASSUME IInv, [Next]_vars PROVE IInv'
    OBVIOUS
  <2>1. ASSUME NEW t \in Threads, Step(t) PROVE IInv'
    BY <2>1, PoliciesStep, RulesStep, RestoreStep, FillFailsStep, ListPodsStep, ChainStep, PodFailsStep
    DEF Step
  <2>2. CASE UNCHANGED vars
    BY <2>2 DEF vars, IInv, Parts, ClusterTypes, EventTypes, ControlTypes, SyncTypes, PodTypes,
        NetfilterTypeOK, Local, SetsHeld, FillHeld, PodNamed, EventKept, Held
  <2> QED
    BY <2>1, <2>2, ClusterStep, StartStep, EntryStep DEF Next
<1>2. IInv => TypeOK
  BY PartsOfTypeOK DEF IInv
<1> QED
  BY <1>1, <1>2, InitIInv, PTL DEF FairSpec, Spec

=============================================================================
