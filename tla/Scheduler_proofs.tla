-------------------------- MODULE Scheduler_proofs --------------------------
(***************************************************************************)
(* TLAPS proofs about Scheduler, for any number of nodes, VMs and workers  *)
(* and any limits.                                                         *)
(***************************************************************************)
EXTENDS Scheduler, FiniteSetTheorems, WellFoundedInduction, TLAPS

(***************************************************************************)
(* The inductive invariant.  A cycle starts with an empty CycleState       *)
(* (Fresh); while PreScore waits, no node gets lost between the channel, a *)
(* goroutine and the CycleState (NoneLost), and a channel that is not      *)
(* empty has a goroutine reading it (ChannelServed).                       *)
(***************************************************************************)
Fresh ==
    /\ pc = "idle" => feasible = {} /\ toProcess = {} /\ drift = 0
    /\ pc \in {"idle", "filter", "preScore"} =>
          /\ \A w \in Workers : worker[w] = "off"
          /\ \A n \in Nodes : data[n] = None

NoneLost ==
    pc = "wait" /\ ~msg =>
        \A n \in feasible :
            \/ n \in toProcess
            \/ data[n] # None
            \/ \E w \in Workers : worker[w] = "busy" /\ job[w] = n

ChannelServed ==
    pc = "wait" /\ toProcess # {} => \E w \in Workers : worker[w] \in {"loop", "busy"}

\* NormalizeScore has seen these scores when it divides by zero, or returns
\* one that the framework refuses.
Refused ==
    /\ pc = "divZero" => \A n \in feasible : data[n] \in Int /\ data[n] <= 0
    /\ pc = "outOfRange" => \E n \in feasible : data[n] \in Int /\ data[n] < 0

CollectInv == TypeOK /\ Fresh /\ NoneLost /\ ChannelServed /\ CollectedAll /\ Refused

-----------------------------------------------------------------------------
LEMMA FaultType == faults \in 0..MaxFaults /\ Fault => faults' \in 0..MaxFaults
  BY SchedulerAssumption DEF Fault

\* A set of naturals has a least element, so that Min is in the set.
LEMMA MinType ==
  ASSUME NEW S \in SUBSET Nat, S # {}
  PROVE  Min(S) \in S
<1> DEFINE R == {p \in Nat \X Nat : p[1] < p[2]}
<1>1. IsWellFoundedOn(R, Nat)
  BY NatLessThanWellFounded DEF OpToRel
<1>2. PICK x \in S : \A y \in S : ~ (<<y, x>> \in R)
  <2> HIDE DEF R
  <2> QED
    BY <1>1, WFMin
<1>3. ASSUME NEW y \in S PROVE x <= y
  <2>1. y < x => <<y, x>> \in R
    OBVIOUS
  <2>2. ~ (y < x)
    BY <1>2, <2>1
  <2>3. x \in Nat /\ y \in Nat
    OBVIOUS
  <2> QED
    BY <2>2, <2>3
<1> QED
  BY <1>3 DEF Min

\* FindServer returns nil or a VM that exists.
LEMMA FoundType ==
  ASSUME TypeOK, NEW n \in Nodes
  PROVE  /\ FindServer(n) # None <=> FindServer(n) \in Servers
         /\ FindServer(n) \in Servers => nova[FindServer(n)] \in VMs /\ nova[FindServer(n)] # None
<1> DEFINE found == {s \in Servers : nova[s] # None /\ n \in nova[s].holds}
<1>1. FindServer(n) = IF found = {} THEN None ELSE Min(found)
  BY DEF FindServer
<1>2. None \notin Servers /\ found \in SUBSET Nat
  <2>1. Servers \subseteq Nat /\ None \notin Nat
    BY SchedulerAssumption
  <2>2. found \subseteq Servers
    OBVIOUS
  <2> HIDE DEF found
  <2> QED
    BY <2>1, <2>2
<1>3. found # {} => Min(found) \in found
  <2> HIDE DEF found
  <2> QED
    BY <1>2, MinType
<1>4. FindServer(n) # None => FindServer(n) \in found
  <2> HIDE DEF found
  <2> QED
    BY <1>1, <1>3
<1> QED
  BY <1>2, <1>4 DEF TypeOK

FoundOK == \A n \in Nodes : FindServer(n) \in Servers => nova[FindServer(n)] # None

LEMMA FoundHolds == TypeOK => FoundOK
  BY FoundType DEF FoundOK

\* Its answer depends on which VMs exist and on their addresses alone.
LEMMA SameServer ==
  ASSUME NEW n \in Nodes,
         \A s \in Servers : nova'[s] # None /\ n \in nova'[s].holds
                           <=> nova[s] # None /\ n \in nova[s].holds
  PROVE  FindServer(n)' = FindServer(n)
<1>1. {s \in Servers : nova'[s] # None /\ n \in nova'[s].holds}
         = {s \in Servers : nova[s] # None /\ n \in nova[s].holds}
  OBVIOUS
<1> QED
  BY <1>1 DEF FindServer

LEMMA InitCollect == Init => CollectInv
<1> SUFFICES ASSUME Init PROVE CollectInv
  OBVIOUS
<1>1. nova \in [Servers -> VMs \cup {None}]
  <2>1. [enis : 0..MAX_ENIS, ips : 0..MAX_IPS, holds : SUBSET Nodes] \subseteq VMs
    BY SchedulerAssumption DEF VMs
  <2> QED
    BY <2>1 DEF Init
<1>2. TypeOK
  <2>1. msg \in BOOLEAN /\ moved \in BOOLEAN
    BY DEF Init
  <2> QED
    BY <1>1, <2>1, SchedulerAssumption DEF Init, TypeOK
<1> QED
  BY <1>2 DEF Init, CollectInv, Fresh, NoneLost, ChannelServed, CollectedAll, Refused

LEMMA EndCycleCollect ==
  ASSUME CollectInv, EndCycle
  PROVE  CollectInv'
<1>1. TypeOK'
  <2>1. msg' \in BOOLEAN /\ moved' \in BOOLEAN
    BY DEF EndCycle
  <2> QED
    BY <2>1, SchedulerAssumption DEF CollectInv, TypeOK, EndCycle
<1> QED
  BY <1>1 DEF CollectInv, EndCycle, TypeOK, Fresh, NoneLost, ChannelServed, CollectedAll, Refused

LEMMA NovaCollect ==
  ASSUME CollectInv, Nova
  PROVE  CollectInv'
<1> USE DEF CollectInv
<1>1. UNCHANGED <<pc, cycle, group>> /\ (pc = "idle" => drift' = drift)
  BY DEF Nova, Grow, Shrink, ChangeAddresses, DeleteServer
<1>2. TypeOK'
  <2>0. Moved => moved' \in BOOLEAN
    <3>1. moved \in BOOLEAN
      BY DEF TypeOK
    <3> QED
      BY <3>1, Zenon DEF Moved
  <2>1. ASSUME NEW s \in Servers, DeleteServer(s) PROVE TypeOK'
    <3>1. moved' \in BOOLEAN
      BY <2>0, <2>1 DEF DeleteServer
    <3> QED
      BY <2>1, <3>1, FaultType DEF TypeOK, DeleteServer, cycle, group
  <2>2. ASSUME NEW s \in Servers, NEW f \in {"enis", "ips"}, Grow(s, f) PROVE TypeOK'
    <3>1. nova[s] \in VMs /\ [nova[s] EXCEPT ![f] = @ + 1] \in VMs
      BY <2>2 DEF TypeOK, Grow, VMs
    <3>2. nova' \in [Servers -> VMs \cup {None}]
      BY <2>2, <3>1 DEF TypeOK, Grow
    <3>3. changes' \in 0..MaxChanges /\ drift' \in 0..changes'
      BY <2>2, SchedulerAssumption DEF TypeOK, Grow, Change
    <3> QED
      BY <2>2, <3>2, <3>3 DEF TypeOK, Grow, cycle, group
  <2>3. ASSUME NEW s \in Servers, NEW f \in {"enis", "ips"}, Shrink(s, f) PROVE TypeOK'
    <3>1. nova[s] \in VMs /\ [nova[s] EXCEPT ![f] = @ - 1] \in VMs
      BY <2>3 DEF TypeOK, Shrink, VMs
    <3>2. nova' \in [Servers -> VMs \cup {None}]
      BY <2>3, <3>1 DEF TypeOK, Shrink
    <3>3. changes' \in 0..MaxChanges /\ drift' \in 0..changes'
      BY <2>3, SchedulerAssumption DEF TypeOK, Shrink, Change
    <3> QED
      BY <2>3, <3>2, <3>3 DEF TypeOK, Shrink, cycle, group
  <2>4. ASSUME NEW s \in Servers, ChangeAddresses(s) PROVE TypeOK'
    <3>1. PICK ns \in SUBSET Nodes : nova' = [nova EXCEPT ![s].holds = HomeOf(s) \cup ns]
      BY <2>4 DEF ChangeAddresses
    <3>2. HomeOf(s) \cup ns \in SUBSET Nodes
      BY DEF HomeOf
    <3>3. nova[s] \in VMs /\ [nova[s] EXCEPT !.holds = HomeOf(s) \cup ns] \in VMs
      BY <2>4, <3>2 DEF TypeOK, ChangeAddresses, VMs
    <3>4. nova' \in [Servers -> VMs \cup {None}]
      BY <3>1, <3>3 DEF TypeOK
    <3>5. changes' \in 0..MaxChanges /\ drift' \in 0..changes'
      BY <2>4, SchedulerAssumption DEF TypeOK, ChangeAddresses, Change
    <3>6. moved' \in BOOLEAN
      BY <2>0, <2>4 DEF ChangeAddresses
    <3> QED
      BY <2>4, <3>4, <3>5, <3>6 DEF TypeOK, ChangeAddresses, cycle, group
  <2> QED
    BY <2>1, <2>2, <2>3, <2>4 DEF Nova
<1> QED
  BY <1>1, <1>2 DEF cycle, group, Fresh, NoneLost, ChannelServed, CollectedAll, Refused

LEMMA PluginCollect ==
  ASSUME CollectInv, ScheduleOne \/ Plugin
  PROVE  CollectInv'
<1> USE DEF CollectInv
<1>1. CASE ScheduleOne
  <2>1. TypeOK'
    BY <1>1 DEF ScheduleOne, TypeOK, Fresh, group, env
  <2> QED
    BY <1>1, <2>1 DEF ScheduleOne, Fresh, NoneLost, ChannelServed, CollectedAll, Refused, group, env
<1>2. ASSUME NEW n \in Nodes, Filter(n) PROVE CollectInv'
  <2>1. TypeOK'
    BY <1>2 DEF Filter, TypeOK, group, env
  <2> QED
    BY <1>2, <2>1 DEF Filter, Fresh, NoneLost, ChannelServed, CollectedAll, Refused, group, env
<1>3. ASSUME NEW n \in Nodes, FilterFails(n) PROVE CollectInv'
  <2>1. TypeOK'
    BY <1>3, FaultType DEF FilterFails, TypeOK, group, env
  <2> QED
    BY <1>3, <2>1 DEF FilterFails, Fresh, NoneLost, ChannelServed, CollectedAll, Refused, group, env
<1>4. CASE NilServer
  BY <1>4 DEF NilServer, TypeOK, Fresh, NoneLost, ChannelServed, CollectedAll, Refused,
     cycle, group, env
<1>5. CASE FilterDone
  <2>1. CASE EndCycle
    BY <2>1, EndCycleCollect
  <2>2. CASE pc' = "preScore" /\ UNCHANGED <<cycle, group, env, faults>>
    BY <1>5, <2>2 DEF FilterDone, TypeOK, Fresh, NoneLost, ChannelServed, CollectedAll, Refused,
       cycle, group, env
  <2> QED
    BY <1>5, <2>1, <2>2 DEF FilterDone
<1>6. CASE PreScore
  <2>1. PICK started \in (SUBSET Workers) \ {{}} :
             worker' = [w \in Workers |-> IF w \in started THEN "loop" ELSE "off"]
    BY <1>6 DEF PreScore
  <2>2. TypeOK'
    BY <1>6, <2>1 DEF PreScore, TypeOK, cycle, env
  <2>3. NoneLost'
    BY <1>6 DEF PreScore, NoneLost, cycle
  <2>4. ChannelServed'
    <3>1. PICK w \in started : w \in Workers
      BY <2>1
    <3> QED
      BY <2>1, <3>1 DEF ChannelServed
  <2> QED
    BY <1>6, <2>2, <2>3, <2>4 DEF PreScore, Fresh, CollectedAll, Refused
<1>7. CASE Wait
  <2>1. CASE msg /\ EndCycle
    BY <2>1, EndCycleCollect
  <2>2. CASE ~msg /\ pc' = "score" /\ UNCHANGED <<cycle, group, env, faults>>
    <3>1. toProcess = {} /\ \A w \in Workers : worker[w] # "busy"
      BY <1>7 DEF Wait, ChannelServed
    <3>2. CollectedAll'
      BY <1>7, <2>2, <3>1 DEF Wait, NoneLost, CollectedAll, cycle, group
    <3> QED
      BY <2>2, <3>2 DEF TypeOK, Fresh, NoneLost, ChannelServed, Refused, cycle, group, env
  <2> QED
    BY <1>7, <2>1, <2>2 DEF Wait
<1>8. CASE NormalizeScore
  <2>1. CASE EndCycle
    BY <2>1, EndCycleCollect
  <2>2. CASE /\ pc' \in {"divZero", "outOfRange"}
             /\ UNCHANGED <<cycle, group, env, faults>>
    <3>1. \A n \in feasible : data[n] \in Int
      BY <1>8 DEF NormalizeScore, CollectedAll, TypeOK
    <3>2. Refused'
      BY <1>8, <2>2, <3>1 DEF NormalizeScore, EndCycle, Refused, cycle, group
    <3> QED
      BY <2>2, <3>2 DEF TypeOK, Fresh, NoneLost, ChannelServed, CollectedAll, cycle, group, env
  <2> QED
    BY <1>8, <2>1, <2>2 DEF NormalizeScore
<1>9. CASE Recover
  BY <1>9, EndCycleCollect DEF Recover
<1> QED
  BY <1>1, <1>2, <1>3, <1>4, <1>5, <1>6, <1>7, <1>8, <1>9 DEF Plugin

LEMMA GoroutineCollect ==
  ASSUME CollectInv, NEW w \in Workers, Goroutine(w)
  PROVE  CollectInv'
<1> USE DEF CollectInv
<1>0. pc = "wait" /\ pc' = "wait" /\ UNCHANGED <<cycle, env>>
  BY DEF Goroutine, Take, CollectNodeIntsAndIps, CollectFails, Done
<1>1. Fresh' /\ CollectedAll' /\ Refused'
  BY <1>0 DEF Fresh, CollectedAll, Refused
<1>2. CASE Take(w)
  <2>1. PICK n \in toProcess : job' = [job EXCEPT ![w] = n] /\ toProcess' = toProcess \ {n}
    BY <1>2 DEF Take
  <2>2. TypeOK'
    BY <1>2, <2>1 DEF Take, TypeOK, cycle, env
  <2>3. NoneLost' /\ ChannelServed'
    BY <1>2, <2>1 DEF Take, TypeOK, NoneLost, ChannelServed, cycle, env
  <2> QED
    BY <1>1, <2>2, <2>3
<1>3. CASE CollectNodeIntsAndIps(w)
  <2>0. job[w] \in Nodes /\ nova[FindServer(job[w])] \in VMs
    <3>1. job[w] \in Nodes
      BY <1>3 DEF CollectNodeIntsAndIps, TypeOK
    <3> QED
      BY <1>3, <3>1, FoundType DEF CollectNodeIntsAndIps
  <2>1. Score(nova[FindServer(job[w])]) \in Int
    BY <2>0, SchedulerAssumption DEF Score, VMs
  <2>2. TypeOK'
    BY <1>3, <2>0, <2>1 DEF CollectNodeIntsAndIps, TypeOK, cycle, env
  <2>3. NoneLost' /\ ChannelServed'
    BY <1>3, <2>0, <2>1, SchedulerAssumption DEF CollectNodeIntsAndIps, TypeOK, NoneLost,
       ChannelServed, cycle, env
  <2> QED
    BY <1>1, <2>2, <2>3
<1>4. CASE CollectFails(w)
  <2>1. TypeOK'
    BY <1>4, FaultType DEF CollectFails, TypeOK, cycle, env
  <2> QED
    BY <1>1, <1>4, <2>1 DEF CollectFails, TypeOK, NoneLost, ChannelServed, cycle
<1>5. CASE Done(w)
  <2>1. TypeOK'
    BY <1>5 DEF Done, TypeOK, cycle, env
  <2> QED
    BY <1>1, <1>5, <2>1 DEF Done, TypeOK, NoneLost, ChannelServed, cycle
<1> QED
  BY <1>2, <1>3, <1>4, <1>5 DEF Goroutine

LEMMA NextCollect == CollectInv /\ [Next]_vars => CollectInv'
<1>1. CASE UNCHANGED vars
  BY <1>1 DEF CollectInv, vars, TypeOK, Fresh, NoneLost, ChannelServed, CollectedAll, Refused
<1> QED
  BY <1>1, NovaCollect, PluginCollect, GoroutineCollect DEF Next

LEMMA CollectHolds == FairSpec => []CollectInv
  BY InitCollect, NextCollect, PTL DEF FairSpec

\* The type invariant of the scheduler plugin: among others, no node is in the
\* channel while a goroutine works on it, and no feasible node is still to filter.
THEOREM TypeCorrect == FairSpec => []TypeOK
<1>1. CollectInv => TypeOK
  BY DEF CollectInv
<1> QED
  BY <1>1, CollectHolds, PTL

\* wg.Wait returns only after the data of every feasible node is in the
\* CycleState, for any number of nodes shared by any number of goroutines.
THEOREM CollectedAllHolds == FairSpec => []CollectedAll
<1>1. CollectInv => CollectedAll
  BY DEF CollectInv
<1> QED
  BY <1>1, CollectHolds, PTL

-----------------------------------------------------------------------------
(***************************************************************************)
(* The scores.  While FindServer keeps its answers, every place the VM     *)
(* found for a node has more than Filter left room for, and every place    *)
(* missing from the score of the node, is one that was taken during the    *)
(* cycle, and no such place counts for two VMs: some h assigns each unit   *)
(* of drift to a VM that way.                                              *)
(***************************************************************************)
Taken(s) == nova[s].enis + nova[s].ips

Share(h, s) == {i \in DOMAIN h : h[i] = s}

Charged(h) ==
    \A n \in feasible :
        /\ FindServer(n) \in Servers
        /\ Taken(FindServer(n)) + 2
              <= MaxInstanceEnis + MaxInstanceIps + Cardinality(Share(h, FindServer(n)))
        /\ data[n] # None =>
              MAX_ENIS + MAX_IPS + 2
                 <= data[n] + MaxInstanceEnis + MaxInstanceIps
                      + Cardinality(Share(h, FindServer(n)))

DriftAccounted == ~moved => \E h \in [1..drift -> Servers] : Charged(h)

\* A VM's share of the drift is finite.
LEMMA ShareFinite ==
  ASSUME NEW d \in Nat, NEW h \in [1..d -> Servers], NEW n
  PROVE  IsFiniteSet(Share(h, n)) /\ Cardinality(Share(h, n)) \in Nat
<1>1. IsFiniteSet(1..d)
  BY FS_Interval
<1>2. Share(h, n) \in SUBSET (1..d)
  BY DEF Share
<1> QED
  BY <1>1, <1>2, FS_Subset, FS_CardinalityType

\* One more unit of drift, charged to m: its share grows by one, no other changes.
LEMMA ShareGrows ==
  ASSUME NEW d \in Nat, NEW h \in [1..d -> Servers], NEW m \in Servers
  PROVE  \E g \in [1..(d + 1) -> Servers] :
            /\ Cardinality(Share(g, m)) = Cardinality(Share(h, m)) + 1
            /\ \A n \in Servers \ {m} : Share(g, n) = Share(h, n)
<1> DEFINE g == [i \in 1..(d + 1) |-> IF i = d + 1 THEN m ELSE h[i]]
<1>1. g \in [1..(d + 1) -> Servers]
  OBVIOUS
<1>2. Share(g, m) = Share(h, m) \cup {d + 1}
  BY DEF Share
<1>3. d + 1 \notin Share(h, m)
  BY DEF Share
<1>4. IsFiniteSet(Share(h, m))
  BY ShareFinite
<1>5. Cardinality(Share(g, m)) = Cardinality(Share(h, m)) + 1
  <2> HIDE DEF g
  <2> QED
    BY <1>2, <1>3, <1>4, FS_AddElement
<1>6. \A n \in Servers \ {m} : Share(g, n) = Share(h, n)
  BY DEF Share
<1> HIDE DEF g
<1> QED
  BY <1>1, <1>5, <1>6

\* If each of the VMs F has two units of drift of its own, there are at least
\* twice as many units as VMs.
LEMMA TwoEach ==
  ASSUME NEW d \in Nat, NEW h \in [1..d -> Servers], NEW F \in SUBSET Servers, IsFiniteSet(F),
         \A n \in F : Cardinality(Share(h, n)) >= 2
  PROVE  d >= 2 * Cardinality(F)
<1> DEFINE First(n)  == CHOOSE i \in Share(h, n) : TRUE
           Second(n) == CHOOSE i \in Share(h, n) \ {First(n)} : TRUE
           f == [x \in F \X {1, 2} |-> IF x[2] = 1 THEN First(x[1]) ELSE Second(x[1])]
<1>1. ASSUME NEW n \in F
      PROVE  First(n) \in Share(h, n) /\ Second(n) \in Share(h, n) \ {First(n)}
  <2>1. IsFiniteSet(Share(h, n)) /\ Cardinality(Share(h, n)) \in Nat
    BY ShareFinite
  <2>2. Cardinality(Share(h, n)) >= 2
    OBVIOUS
  <2>3. Share(h, n) # {}
    BY <2>1, <2>2, FS_EmptySet
  <2>4. First(n) \in Share(h, n)
    BY <2>3
  <2>5. Share(h, n) \ {First(n)} # {}
    <3> HIDE DEF First
    <3>1. /\ IsFiniteSet(Share(h, n) \ {First(n)})
          /\ Cardinality(Share(h, n) \ {First(n)}) = Cardinality(Share(h, n)) - 1
      BY <2>1, <2>4, FS_RemoveElement
    <3> QED
      BY <2>1, <2>2, <3>1, FS_EmptySet
  <2> QED
    BY <2>4, <2>5
<1>2. ASSUME NEW n \in F
      PROVE  /\ First(n) \in 1..d /\ h[First(n)] = n
             /\ Second(n) \in 1..d /\ h[Second(n)] = n
             /\ First(n) # Second(n)
  <2> HIDE DEF First, Second
  <2> QED
    BY <1>1 DEF Share
<1>3. f \in Injection(F \X {1, 2}, 1..d)
  <2> HIDE DEF First, Second
  <2>1. f \in [F \X {1, 2} -> 1..d]
    BY <1>2
  <2>2. ASSUME NEW x \in F \X {1, 2}, NEW y \in F \X {1, 2}, f[x] = f[y]
        PROVE  x = y
    <3>1. x[1] = h[f[x]] /\ y[1] = h[f[y]]
      BY <1>2
    <3>2. x[1] = y[1] /\ x[2] = y[2]
      BY <1>2, <2>2, <3>1
    <3> QED
      BY <3>2
  <2> HIDE DEF f
  <2> QED
    BY <2>1, <2>2 DEF Injection, IsInjective
<1>4. IsFiniteSet(F) /\ IsFiniteSet({1, 2}) /\ Cardinality({1, 2}) = 2
  <2>1. {1} \cup {2} = {1, 2} /\ 2 \notin {1}
    OBVIOUS
  <2>2. IsFiniteSet({1}) /\ Cardinality({1}) = 1
    BY FS_Singleton
  <2>3. IsFiniteSet({1} \cup {2}) /\ Cardinality({1} \cup {2}) = 1 + 1
    BY <2>1, <2>2, FS_AddElement
  <2>4. 1 + 1 = 2
    OBVIOUS
  <2> QED
    BY <2>1, <2>3, <2>4, Zenon
<1>5. Cardinality(F \X {1, 2}) = Cardinality(F) * 2
  BY <1>4, FS_Product
<1>6. IsFiniteSet(1..d) /\ Cardinality(1..d) = d
  BY FS_Interval
<1>7. Cardinality(F \X {1, 2}) <= Cardinality(1..d)
  <2> HIDE DEF f
  <2> QED
    BY <1>3, <1>6, FS_Injection
<1>8. Cardinality(F) \in Nat
  BY <1>4, FS_CardinalityType
<1> QED
  BY <1>5, <1>6, <1>7, <1>8

LEMMA DriftType == TypeOK => drift \in Nat
  BY SchedulerAssumption DEF TypeOK

LEMMA TakenType ==
  ASSUME TypeOK, NEW s \in Servers, nova[s] # None
  PROVE  Taken(s) \in Nat
<1>1. nova[s] \in VMs
  BY DEF TypeOK
<1> QED
  BY <1>1 DEF VMs, Taken

LEMMA InitDrift == Init => DriftAccounted
<1> SUFFICES ASSUME Init PROVE DriftAccounted
  OBVIOUS
<1>1. [i \in 1..0 |-> None] \in [1..drift -> Servers]
  BY DEF Init
<1> QED
  BY <1>1 DEF Init, DriftAccounted, Charged

LEMMA EndCycleDrift == EndCycle => DriftAccounted'
<1> SUFFICES ASSUME EndCycle PROVE DriftAccounted'
  OBVIOUS
<1>1. [i \in 1..0 |-> None] \in [1..drift' -> Servers]
  BY DEF EndCycle
<1> QED
  BY <1>1 DEF EndCycle, DriftAccounted, Charged

\* A step that changes neither the feasible nodes nor what is compared.
LEMMA SameDrift ==
  ASSUME DriftAccounted, UNCHANGED <<feasible, nova, data, drift, moved>>
  PROVE  DriftAccounted'
BY DEF DriftAccounted, Charged, FindServer, Taken

\* Nova changes no answer of FindServer, and the VMs found have no more than before.
LEMMA NoGrowth ==
  ASSUME TypeOK, TypeOK', NEW h \in [1..drift -> Servers], Charged(h),
         UNCHANGED <<feasible, data>>,
         \A n \in Nodes : FindServer(n)' = FindServer(n),
         \A s \in Servers : nova'[s] # None => Taken(s)' <= Taken(s)
  PROVE  Charged(h)'
<1>1. {MaxInstanceEnis, MaxInstanceIps} \subseteq Nat
  BY SchedulerAssumption
<1>2. ASSUME NEW n \in feasible
      PROVE  /\ FindServer(n)' = FindServer(n) /\ FindServer(n) \in Servers
             /\ Taken(FindServer(n))' + 2
                  <= MaxInstanceEnis + MaxInstanceIps + Cardinality(Share(h, FindServer(n)))
  <2> DEFINE s == FindServer(n)
  <2>1. n \in Nodes
    BY DEF TypeOK
  <2>2. FindServer(n)' = s /\ s \in Servers
    BY <2>1 DEF Charged
  <2>3. nova[s] # None
    BY <2>1, <2>2, FoundType
  <2>4. nova'[s] # None
    <3>1. FoundOK'
      BY FoundHolds, PTL
    <3> QED
      BY <2>1, <2>2, <3>1 DEF FoundOK
  <2>5. Taken(s) + 2 <= MaxInstanceEnis + MaxInstanceIps + Cardinality(Share(h, s))
    BY DEF Charged
  <2>6. Taken(FindServer(n))' = nova'[s].enis + nova'[s].ips
    BY <2>2 DEF Taken
  <2> HIDE DEF s
  <2>7. Cardinality(Share(h, s)) \in Nat
    BY DriftType, ShareFinite
  <2>8. Taken(s) \in Nat
    BY <2>2, <2>3, TakenType
  <2>9. nova'[s].enis + nova'[s].ips \in Nat
    <3>1. nova'[s] \in VMs
      BY <2>2, <2>4 DEF TypeOK
    <3> QED
      BY <3>1 DEF VMs
  <2>10. nova'[s].enis + nova'[s].ips <= Taken(s)
    BY <2>2, <2>4 DEF Taken
  <2>11. Taken(FindServer(n))' + 2
            <= MaxInstanceEnis + MaxInstanceIps + Cardinality(Share(h, s))
    BY <1>1, <2>5, <2>6, <2>7, <2>8, <2>9, <2>10
  <2> QED
    BY <2>2, <2>11 DEF s
<1> QED
  BY <1>2 DEF Charged, Share

LEMMA LargerShare ==
  ASSUME NEW a \in Nat, NEW b \in Nat, NEW c \in Nat, NEW x \in Int, NEW k \in Nat, NEW l \in Nat,
         l >= k, a <= x + b + c + k
  PROVE  a <= x + b + c + l
  OBVIOUS

LEMMA GrowDrift ==
  ASSUME CollectInv, DriftAccounted, NEW t \in Servers, NEW f \in {"enis", "ips"}, Grow(t, f)
  PROVE  DriftAccounted'
<1> USE DEF CollectInv
<1> SUFFICES ASSUME ~moved
             PROVE  \E g \in [1..drift' -> Servers] : Charged(g)'
  BY DEF DriftAccounted, Grow
<1>0. PICK h \in [1..drift -> Servers] : Charged(h)
  BY DEF DriftAccounted
<1>a. drift \in Nat /\ \A s \in Servers : Cardinality(Share(h, s)) \in Nat
  BY DriftType, ShareFinite
<1>b. {MAX_ENIS, MAX_IPS, MaxInstanceEnis, MaxInstanceIps} \subseteq Nat
  BY SchedulerAssumption
<1>1. CASE pc = "idle"
  BY <1>0, <1>1 DEF Grow, Fresh, Charged, cycle
<1>2. CASE pc # "idle"
  <2>1. PICK g \in [1..(drift + 1) -> Servers] :
             /\ Cardinality(Share(g, t)) = Cardinality(Share(h, t)) + 1
             /\ \A s \in Servers \ {t} : Share(g, s) = Share(h, s)
    BY <1>a, ShareGrows
  <2>2. /\ drift' = drift + 1 /\ feasible' = feasible /\ data' = data
        /\ nova[t] \in VMs /\ nova[t] # None /\ nova' = [nova EXCEPT ![t][f] = @ + 1]
    BY <1>2 DEF Grow, cycle, group, TypeOK
  <2>3. /\ nova'[t] \in VMs /\ nova'[t] # None /\ nova'[t].holds = nova[t].holds
        /\ Taken(t)' = Taken(t) + 1
    <3>1. nova'[t] = [nova[t] EXCEPT ![f] = @ + 1]
      BY <2>2 DEF TypeOK
    <3>2. nova'[t] \in VMs /\ nova'[t].holds = nova[t].holds
          /\ nova'[t].enis + nova'[t].ips = nova[t].enis + nova[t].ips + 1
      BY <2>2, <3>1 DEF VMs
    <3>3. nova'[t] # None
      BY <3>2, SchedulerAssumption
    <3> QED
      BY <3>2, <3>3 DEF Taken
  <2>4. \A s \in Servers \ {t} : nova'[s] = nova[s]
    BY <2>2 DEF TypeOK
  <2>5. \A n \in Nodes : FindServer(n)' = FindServer(n)
    <3>1. \A s \in Servers : (nova'[s] # None <=> nova[s] # None) /\ nova'[s].holds = nova[s].holds
      BY <2>2, <2>3, <2>4
    <3> QED
      BY <3>1, SameServer
  <2>6. ASSUME NEW n \in feasible
        PROVE  /\ FindServer(n)' = FindServer(n) /\ FindServer(n) \in Servers
               /\ Taken(FindServer(n))' + 2
                    <= MaxInstanceEnis + MaxInstanceIps + Cardinality(Share(g, FindServer(n)))
               /\ data[n] # None =>
                    MAX_ENIS + MAX_IPS + 2
                       <= data[n] + MaxInstanceEnis + MaxInstanceIps
                            + Cardinality(Share(g, FindServer(n)))
    <3> DEFINE s == FindServer(n)
    <3>1. n \in Nodes
      BY DEF TypeOK
    <3>2. FindServer(n)' = s /\ s \in Servers
      BY <1>0, <2>5, <3>1 DEF Charged
    <3>3. nova[s] # None
      BY <3>1, <3>2, FoundType
    <3>4. Taken(s) + 2 <= MaxInstanceEnis + MaxInstanceIps + Cardinality(Share(h, s))
      BY <1>0 DEF Charged
    <3>5. data[n] # None =>
             MAX_ENIS + MAX_IPS + 2
                <= data[n] + MaxInstanceEnis + MaxInstanceIps + Cardinality(Share(h, s))
      BY <1>0 DEF Charged
    <3>6. Taken(FindServer(n))' = nova'[s].enis + nova'[s].ips
      BY <3>2 DEF Taken
    <3> HIDE DEF s
    <3>7. Taken(s) \in Nat /\ Cardinality(Share(h, s)) \in Nat
      BY <1>a, <3>2, <3>3, TakenType
    <3>8. \/ /\ nova'[s].enis + nova'[s].ips = Taken(s)
             /\ Cardinality(Share(g, s)) = Cardinality(Share(h, s))
          \/ /\ nova'[s].enis + nova'[s].ips = Taken(s) + 1
             /\ Cardinality(Share(g, s)) = Cardinality(Share(h, s)) + 1
      BY <2>1, <2>3, <2>4, <3>2 DEF Taken
    <3>9. nova'[s].enis + nova'[s].ips + 2
             <= MaxInstanceEnis + MaxInstanceIps + Cardinality(Share(g, s))
      BY <1>b, <3>4, <3>7, <3>8
    <3>10. data[n] # None =>
              MAX_ENIS + MAX_IPS + 2
                 <= data[n] + MaxInstanceEnis + MaxInstanceIps + Cardinality(Share(g, s))
      <4> SUFFICES ASSUME data[n] # None
                   PROVE  MAX_ENIS + MAX_IPS + 2
                            <= data[n] + MaxInstanceEnis + MaxInstanceIps + Cardinality(Share(g, s))
        OBVIOUS
      <4>1. data[n] \in Int
        BY <3>1 DEF TypeOK
      <4>2. /\ Cardinality(Share(g, s)) \in Nat
            /\ Cardinality(Share(g, s)) >= Cardinality(Share(h, s))
        BY <3>7, <3>8
      <4>a. MAX_ENIS + MAX_IPS + 2 \in Nat
        BY <1>b
      <4>3. MAX_ENIS + MAX_IPS + 2
               <= data[n] + MaxInstanceEnis + MaxInstanceIps + Cardinality(Share(h, s))
        BY <3>5
      <4> QED
        BY <1>b, <3>7, <4>1, <4>2, <4>a, <4>3, LargerShare
    <3> QED
      BY <3>2, <3>6, <3>9, <3>10 DEF s
  <2>7. Charged(g)'
    BY <2>2, <2>6 DEF Charged, Share
  <2>8. g \in [1..drift' -> Servers]
    BY <2>1, <2>2
  <2> QED
    BY <2>7, <2>8
<1> QED
  BY <1>1, <1>2

\* Nova takes places away, a VM or addresses: while no answer of FindServer
\* changes, that can only lower what is compared.
LEMMA NovaDrift ==
  ASSUME CollectInv, CollectInv', DriftAccounted, NEW t \in Servers,
         DeleteServer(t) \/ ChangeAddresses(t) \/ \E f \in {"enis", "ips"} : Shrink(t, f)
  PROVE  DriftAccounted'
<1> USE DEF CollectInv
<1> SUFFICES ASSUME ~moved'
             PROVE  \E g \in [1..drift' -> Servers] : Charged(g)'
  BY DEF DriftAccounted
<1>1. drift' = drift /\ feasible' = feasible /\ data' = data /\ pc' = pc
  BY DEF DeleteServer, ChangeAddresses, Shrink, cycle, group
<1>2. ~moved
  BY DEF DeleteServer, ChangeAddresses, Shrink, Moved
<1>3. PICK h \in [1..drift -> Servers] : Charged(h)
  BY <1>2 DEF DriftAccounted
<1>4. CASE pc = "idle"
  BY <1>1, <1>3, <1>4 DEF Fresh, Charged
<1>5. CASE pc # "idle"
  <2>1. \A s \in Servers : nova'[s] # None => Taken(s)' <= Taken(s)
    <3>1. ASSUME DeleteServer(t), NEW s \in Servers, nova'[s] # None
          PROVE  Taken(s)' <= Taken(s)
      <4>1. nova'[s] = nova[s]
        BY <3>1 DEF DeleteServer, TypeOK
      <4>2. Taken(s) \in Nat
        BY <3>1, <4>1, TakenType
      <4>3. Taken(s)' = Taken(s)
        BY <4>1 DEF Taken
      <4> QED
        BY <4>2, <4>3
    <3>2. ASSUME ChangeAddresses(t), NEW s \in Servers, nova'[s] # None
          PROVE  Taken(s)' <= Taken(s)
      <4>1. PICK ns : nova' = [nova EXCEPT ![t].holds = ns]
        BY <3>2 DEF ChangeAddresses
      <4>2. nova[t] \in VMs
        BY <3>2 DEF ChangeAddresses, TypeOK
      <4>3. nova[s] # None /\ nova'[s].enis = nova[s].enis /\ nova'[s].ips = nova[s].ips
        <5>1. CASE s = t
          BY <3>2, <4>1, <4>2, <5>1 DEF ChangeAddresses, TypeOK, VMs
        <5>2. CASE s # t
          BY <3>2, <4>1, <5>2 DEF TypeOK
        <5> QED
          BY <5>1, <5>2
      <4>4. Taken(s) \in Nat
        BY <4>3, TakenType
      <4> QED
        BY <4>3, <4>4 DEF Taken
    <3>3. ASSUME NEW f \in {"enis", "ips"}, Shrink(t, f), NEW s \in Servers, nova'[s] # None
          PROVE  Taken(s)' <= Taken(s)
      <4>1. nova' = [nova EXCEPT ![t][f] = @ - 1] /\ nova[t] \in VMs /\ nova[t] # None
        BY <3>3 DEF Shrink, TypeOK
      <4>2. CASE s = t
        <5>1. nova'[t] = [nova[t] EXCEPT ![f] = @ - 1]
          BY <4>1 DEF TypeOK
        <5> QED
          BY <4>1, <4>2, <5>1 DEF Taken, VMs
      <4>3. CASE s # t
        <5>1. nova'[s] = nova[s]
          BY <4>1, <4>3 DEF TypeOK
        <5>2. Taken(s) \in Nat
          BY <3>3, <5>1, TakenType
        <5> QED
          BY <5>1, <5>2 DEF Taken
      <4> QED
        BY <4>2, <4>3
    <3> QED
      BY <3>1, <3>2, <3>3
  <2>2. \A n \in Nodes : FindServer(n)' = FindServer(n)
    <3>1. CASE DeleteServer(t) \/ ChangeAddresses(t)
      BY <1>5, <3>1 DEF DeleteServer, ChangeAddresses, Moved
    <3>2. ASSUME NEW f \in {"enis", "ips"}, Shrink(t, f)
          PROVE  \A n \in Nodes : FindServer(n)' = FindServer(n)
      <4>1. nova' = [nova EXCEPT ![t][f] = @ - 1] /\ nova[t] \in VMs /\ nova[t] # None
        BY <3>2 DEF Shrink, TypeOK
      <4>2. nova'[t] = [nova[t] EXCEPT ![f] = @ - 1]
        BY <4>1 DEF TypeOK
      <4>3. nova'[t].holds = nova[t].holds
        BY <4>1, <4>2 DEF VMs
      <4>4. nova'[t] # None
        <5>1. nova'[t] \in VMs
          BY <3>2, <4>1, <4>2 DEF Shrink, VMs
        <5> QED
          BY <5>1, SchedulerAssumption
      <4>5. \A s \in Servers \ {t} : nova'[s] = nova[s]
        BY <4>1 DEF TypeOK
      <4>6. \A s \in Servers :
               (nova'[s] # None <=> nova[s] # None) /\ nova'[s].holds = nova[s].holds
        BY <4>1, <4>3, <4>4, <4>5
      <4> QED
        BY <4>6, SameServer
    <3> QED
      BY <3>1, <3>2
  <2>3. Charged(h)'
    BY <1>1, <1>3, <2>1, <2>2, NoGrowth
  <2> QED
    BY <1>1, <1>3, <2>3
<1> QED
  BY <1>4, <1>5

LEMMA NextDrift ==
  ASSUME CollectInv, CollectInv', DriftAccounted, [Next]_vars
  PROVE  DriftAccounted'
<1> USE DEF CollectInv
<1>b. {MAX_ENIS, MAX_IPS, MaxInstanceEnis, MaxInstanceIps} \subseteq Nat
  BY SchedulerAssumption
<1>1. CASE Nova
  BY <1>1, GrowDrift, NovaDrift DEF Nova
<1>4. ASSUME NEW n \in Nodes, Filter(n) PROVE DriftAccounted'
  <2> DEFINE s == FindServer(n)
  <2>1. data[n] = None
    BY <1>4 DEF Filter, Fresh
  <2>2. UNCHANGED <<nova, data, drift, moved>>
    BY <1>4 DEF Filter, group, env
  <2>3. CASE HasRoom(nova[s])
    <3> SUFFICES ASSUME ~moved
                 PROVE  \E g \in [1..drift' -> Servers] : Charged(g)'
      BY <2>2 DEF DriftAccounted
    <3>0. PICK h \in [1..drift -> Servers] : Charged(h)
      BY DEF DriftAccounted
    <3>1. s \in Servers /\ nova[s] \in VMs
      BY <1>4, FoundType DEF Filter
    <3>2. feasible' = feasible \cup {n}
      BY <1>4, <2>3 DEF Filter
    <3>3. \A m \in Nodes : FindServer(m)' = FindServer(m)
      BY <2>2 DEF FindServer
    <3>4. Taken(s) + 2 <= MaxInstanceEnis + MaxInstanceIps + Cardinality(Share(h, s))
      <4> HIDE DEF s
      <4>1. Cardinality(Share(h, s)) \in Nat
        BY DriftType, ShareFinite
      <4> QED
        BY <1>b, <2>3, <3>1, <4>1 DEF HasRoom, VMs, Taken
    <3>5. Charged(h)'
      <4>1. feasible \subseteq Nodes
        BY DEF TypeOK
      <4>2. \A m \in feasible : Taken(FindServer(m))' = Taken(FindServer(m))
        BY <2>2, <3>3, <4>1 DEF Taken
      <4>3. Taken(FindServer(n))' = Taken(s)
        BY <2>2, <3>3 DEF Taken
      <4> QED
        BY <2>1, <2>2, <3>0, <3>1, <3>2, <3>3, <3>4, <4>1, <4>2, <4>3 DEF Charged, Share
    <3> QED
      BY <2>2, <3>5
  <2>4. CASE ~HasRoom(nova[s])
    BY <1>4, <2>2, <2>4, SameDrift DEF Filter
  <2> QED
    BY <2>3, <2>4
<1>5. ASSUME NEW w \in Workers, CollectNodeIntsAndIps(w) PROVE DriftAccounted'
  <2> SUFFICES ASSUME ~moved
               PROVE  \E g \in [1..drift' -> Servers] : Charged(g)'
    BY <1>5 DEF DriftAccounted, CollectNodeIntsAndIps, env
  <2>0. PICK h \in [1..drift -> Servers] : Charged(h)
    BY DEF DriftAccounted
  <2> DEFINE n == job[w]
             s == FindServer(n)
  <2>1. n \in feasible /\ n \in Nodes
    BY <1>5 DEF CollectNodeIntsAndIps, TypeOK
  <2>2. s \in Servers /\ nova[s] \in VMs
    BY <1>5, <2>1, FoundType DEF CollectNodeIntsAndIps
  <2>3. UNCHANGED <<nova, feasible, drift>> /\ data' = [data EXCEPT ![n] = Score(nova[s])]
    BY <1>5 DEF CollectNodeIntsAndIps, cycle, env
  <2>4. \A m \in Nodes : FindServer(m)' = FindServer(m)
    BY <2>3 DEF FindServer
  <2>5. \A m \in feasible : Taken(FindServer(m))' = Taken(FindServer(m))
    BY <2>3, <2>4 DEF Taken, TypeOK
  <2>6. Taken(s) + 2 <= MaxInstanceEnis + MaxInstanceIps + Cardinality(Share(h, s))
    BY <2>0, <2>1 DEF Charged
  <2>7. MAX_ENIS + MAX_IPS + 2
           <= Score(nova[s]) + MaxInstanceEnis + MaxInstanceIps + Cardinality(Share(h, s))
    <3> HIDE DEF s
    <3>1. Cardinality(Share(h, s)) \in Nat /\ {nova[s].enis, nova[s].ips} \subseteq Nat
      BY <2>2, DriftType, ShareFinite DEF VMs
    <3>2. /\ Score(nova[s]) = (MAX_IPS - nova[s].enis) + (MAX_ENIS - nova[s].ips)
          /\ Taken(s) = nova[s].enis + nova[s].ips
      BY DEF Score, Taken
    <3>3. Taken(s) \in Nat /\ Score(nova[s]) = (MAX_ENIS + MAX_IPS) - Taken(s)
      <4> DEFINE e == nova[s].enis
                 i == nova[s].ips
      <4>1. e \in Nat /\ i \in Nat /\ MAX_ENIS \in Nat /\ MAX_IPS \in Nat
        BY <1>b, <3>1
      <4>2. Score(nova[s]) = (MAX_IPS - e) + (MAX_ENIS - i) /\ Taken(s) = e + i
        BY <3>2
      <4> HIDE DEF e, i
      <4> QED
        BY <4>1, <4>2
    <3> QED
      BY <1>b, <2>6, <3>1, <3>3
  <2>8. data'[n] = Score(nova[s]) /\ \A m \in feasible \ {n} : data'[m] = data[m]
    BY <2>1, <2>3 DEF TypeOK
  <2>9. Charged(h)'
    <3> HIDE DEF n
    <3>1. feasible \subseteq Nodes
      BY DEF TypeOK
    <3> QED
      BY <2>0, <2>3, <2>4, <2>5, <2>7, <2>8, <3>1 DEF Charged, Share
  <2> QED
    BY <2>3, <2>9
<1>6. CASE EndCycle
  BY <1>6, EndCycleDrift
<1>7. CASE UNCHANGED <<feasible, nova, data, drift, moved>>
  BY <1>7, SameDrift
<1>8. CASE ScheduleOne
  BY <1>7, <1>8 DEF ScheduleOne, group, env
<1>9. CASE Plugin
  <2>1. ASSUME NEW n \in Nodes, FilterFails(n) PROVE DriftAccounted'
    BY <1>7, <2>1 DEF FilterFails, group, env
  <2>2. CASE NilServer \/ FilterDone
    BY <1>6, <1>7, <2>2 DEF NilServer, FilterDone, cycle, group, env
  <2>3. CASE PreScore
    BY <1>7, <2>3 DEF PreScore, cycle, env
  <2>4. CASE Wait \/ NormalizeScore \/ Recover
    BY <1>6, <1>7, <2>4 DEF Wait, NormalizeScore, Recover, cycle, group, env
  <2> QED
    BY <1>4, <1>9, <2>1, <2>2, <2>3, <2>4 DEF Plugin
<1>10. ASSUME NEW w \in Workers, Take(w) \/ CollectFails(w) \/ Done(w) PROVE DriftAccounted'
  BY <1>7, <1>10 DEF Take, CollectFails, Done, cycle, env
<1>11. CASE UNCHANGED vars
  BY <1>7, <1>11 DEF vars
<1> QED
  BY <1>1, <1>5, <1>8, <1>9, <1>10, <1>11 DEF Next, Goroutine

\* Places used beyond two below the limits have been charged to the node.
LEMMA Surplus ==
  ASSUME NEW e \in Nat, NEW i \in Nat, NEW E \in Nat, NEW I \in Nat, NEW x \in Int, NEW k \in Nat,
         e <= E, i <= I, E + I + 2 <= x + e + i + k
  PROVE  k >= 2 - x
  OBVIOUS

LEMMA DriftGivesScores == CollectInv /\ DriftAccounted => ScoresValid
<1> DEFINE F == {FindServer(n) : n \in feasible}
<1> SUFFICES ASSUME CollectInv, DriftAccounted, ~moved,
                    MaxInstanceEnis <= MAX_ENIS, MaxInstanceIps <= MAX_IPS
             PROVE  /\ pc = "divZero" => drift >= 2 * Cardinality(F)
                    /\ pc = "outOfRange" => drift >= 3
  BY DEF ScoresValid
<1> USE DEF CollectInv
<1>0. PICK h \in [1..drift -> Servers] : Charged(h)
  BY DEF DriftAccounted
<1>a. drift \in Nat /\ \A s \in Servers : Cardinality(Share(h, s)) \in Nat
  BY DriftType, ShareFinite
<1>b. {MAX_ENIS, MAX_IPS, MaxInstanceEnis, MaxInstanceIps} \subseteq Nat
  BY SchedulerAssumption
<1>1. ASSUME NEW n \in feasible, data[n] \in Int
      PROVE  /\ FindServer(n) \in Servers /\ Cardinality(Share(h, FindServer(n))) \in Nat
             /\ Cardinality(Share(h, FindServer(n))) >= 2 - data[n]
  <2>1. data[n] # None
    BY <1>1, SchedulerAssumption
  <2>2. FindServer(n) \in Servers
    BY <1>0 DEF Charged
  <2>3. MAX_ENIS + MAX_IPS + 2
           <= data[n] + MaxInstanceEnis + MaxInstanceIps + Cardinality(Share(h, FindServer(n)))
    BY <1>0, <2>1 DEF Charged
  <2>4. Cardinality(Share(h, FindServer(n))) \in Nat
    BY <1>a, <2>2
  <2> QED
    BY <1>1, <1>b, <2>2, <2>3, <2>4, Surplus
<1>2. ASSUME pc = "divZero" PROVE drift >= 2 * Cardinality(F)
  <2>1. \A n \in feasible : Cardinality(Share(h, FindServer(n))) >= 2
    <3> SUFFICES ASSUME NEW n \in feasible PROVE Cardinality(Share(h, FindServer(n))) >= 2
      OBVIOUS
    <3>1. data[n] \in Int /\ data[n] <= 0
      BY <1>2 DEF Refused
    <3> QED
      BY <1>1, <3>1
  <2>2. F \in SUBSET Servers
    BY <1>0 DEF Charged
  <2>3. \A s \in F : Cardinality(Share(h, s)) >= 2
    BY <2>1
  <2>4. IsFiniteSet(F)
    <3> DEFINE f == [n \in feasible |-> FindServer(n)]
    <3>1. f \in Surjection(feasible, F)
      BY DEF Surjection
    <3>2. IsFiniteSet(feasible)
      BY SchedulerAssumption, FS_Subset DEF TypeOK
    <3> HIDE DEF f, F
    <3> QED
      BY <3>1, <3>2, FS_Surjection
  <2> HIDE DEF F
  <2> QED
    BY <1>a, <2>2, <2>3, <2>4, TwoEach
<1>3. ASSUME pc = "outOfRange" PROVE drift >= 3
  <2>1. PICK n \in feasible : data[n] \in Int /\ data[n] < 0
    BY <1>3 DEF Refused
  <2> DEFINE s == FindServer(n)
  <2>2. Cardinality(Share(h, s)) \in Nat /\ Cardinality(Share(h, s)) >= 3
    BY <1>1, <2>1
  <2>3. Cardinality(Share(h, s)) <= Cardinality(1..drift) /\ Cardinality(1..drift) = drift
    <3> HIDE DEF s
    <3>1. Share(h, s) \in SUBSET (1..drift)
      BY DEF Share
    <3>2. IsFiniteSet(1..drift) /\ Cardinality(1..drift) = drift
      BY <1>a, FS_Interval
    <3> QED
      BY <3>1, <3>2, FS_Subset
  <2> QED
    BY <1>a, <2>2, <2>3
<1> QED
  BY <1>2, <1>3

\* For any limits configured, and as long as FindServer gives each node the same
\* VM, NormalizeScore divides by zero, or returns a score the framework refuses,
\* only if the VMs it gave have grown that much since Filter.
THEOREM ScoresValidHolds == FairSpec => []ScoresValid
<1>1. CollectInv /\ CollectInv' /\ DriftAccounted /\ [Next]_vars => DriftAccounted'
  BY NextDrift
<1> QED
  BY <1>1, InitDrift, DriftGivesScores, CollectHolds, PTL DEF FairSpec

=============================================================================
