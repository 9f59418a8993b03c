----------------------- MODULE RouteController_proofs -----------------------
(***************************************************************************)
(* TLAPS proofs about RouteController, for any number of workers, pods,    *)
(* addresses, changes and faults.                                          *)
(***************************************************************************)
EXTENDS RouteController, FiniteSetTheorems, TLAPS

(***************************************************************************)
(* What the workqueue keeps: a queued item is dirty, waits once, and is    *)
(* not being processed.                                                    *)
(***************************************************************************)
Queues == [queue : Seq(Items), dirty : SUBSET Items, processing : SUBSET Items]

QueueOK(q) ==
    /\ \A i \in 1..Len(q.queue) : q.queue[i] \in q.dirty /\ q.queue[i] \notin q.processing
    /\ \A i, j \in 1..Len(q.queue) : q.queue[i] = q.queue[j] => i = j

LEMMA AppendOnce ==
  ASSUME NEW q \in Seq(Items), NEW x \in Items,
         \A i, j \in 1..Len(q) : q[i] = q[j] => i = j, \A i \in 1..Len(q) : q[i] # x
  PROVE  /\ Append(q, x) \in Seq(Items) /\ Len(Append(q, x)) = Len(q) + 1
         /\ \A i \in 1..Len(q) + 1 : Append(q, x)[i] = IF i = Len(q) + 1 THEN x ELSE q[i]
         /\ \A i, j \in 1..Len(q) + 1 : Append(q, x)[i] = Append(q, x)[j] => i = j
OBVIOUS

LEMMA AddKeeps ==
  ASSUME NEW q \in Queues, NEW x \in Items
  PROVE  /\ Add(q, x) \in Queues
         /\ Add(q, x).dirty = q.dirty \cup {x}
         /\ Add(q, x).processing = q.processing
         /\ QueueOK(q) => QueueOK(Add(q, x))
<1>1. CASE x \in q.dirty
  <2>1. Add(q, x) = q
    BY <1>1 DEF Add
  <2> QED
    BY <1>1, <2>1
<1>2. CASE x \notin q.dirty
  <2> DEFINE s == IF x \in q.processing THEN q.queue ELSE Append(q.queue, x)
  <2>1. q.queue \in Seq(Items) /\ s \in Seq(Items)
    BY DEF Queues
  <2>2. Add(q, x) = [q EXCEPT !.dirty = @ \cup {x}, !.queue = s]
    BY <1>2 DEF Add
  <2> HIDE DEF s
  <2>3. /\ Add(q, x) \in Queues /\ Add(q, x).dirty = q.dirty \cup {x}
        /\ Add(q, x).processing = q.processing /\ Add(q, x).queue = s
    BY <2>1, <2>2 DEF Queues
  <2>4. ASSUME QueueOK(q) PROVE QueueOK(Add(q, x))
    <3>1. CASE x \in q.processing
      BY <2>3, <2>4, <3>1 DEF QueueOK, s
    <3>2. CASE x \notin q.processing
      <4>1. s = Append(q.queue, x) /\ \A i \in 1..Len(q.queue) : q.queue[i] # x
        BY <1>2, <2>4, <3>2 DEF QueueOK, s
      <4>2. /\ Len(s) = Len(q.queue) + 1
            /\ \A i \in 1..Len(q.queue) + 1 : s[i] = IF i = Len(q.queue) + 1 THEN x ELSE q.queue[i]
            /\ \A i, j \in 1..Len(q.queue) + 1 : s[i] = s[j] => i = j
        BY <2>1, <2>4, <4>1, AppendOnce DEF QueueOK
      <4> QED
        BY <2>1, <2>3, <2>4, <3>2, <4>2 DEF QueueOK
    <3> QED
      BY <3>1, <3>2
  <2> QED
    BY <2>3, <2>4
<1> QED
  BY <1>1, <1>2

LEMMA GetKeeps ==
  ASSUME NEW q \in Queues, q.queue # <<>>
  PROVE  /\ Head(q.queue) \in Items
         /\ Get(q) \in Queues
         /\ Get(q).dirty = q.dirty \ {Head(q.queue)}
         /\ Get(q).processing = q.processing \cup {Head(q.queue)}
         /\ QueueOK(q) => QueueOK(Get(q)) /\ Head(q.queue) \notin q.processing
<1>1. q.queue \in Seq(Items) /\ Len(q.queue) \in Nat \ {0}
  BY DEF Queues
<1>2. /\ Head(q.queue) = q.queue[1] /\ Tail(q.queue) \in Seq(Items)
      /\ Len(Tail(q.queue)) = Len(q.queue) - 1
      /\ \A i \in 1..Len(q.queue) - 1 : Tail(q.queue)[i] = q.queue[i + 1]
  BY <1>1
<1>3. /\ Get(q) \in Queues /\ Get(q).queue = Tail(q.queue)
      /\ Get(q).dirty = q.dirty \ {Head(q.queue)}
      /\ Get(q).processing = q.processing \cup {Head(q.queue)}
  BY <1>1, <1>2 DEF Get, Queues
<1>4. ASSUME QueueOK(q) PROVE QueueOK(Get(q)) /\ Head(q.queue) \notin q.processing
  <2>1. 1 \in 1..Len(q.queue)
    BY <1>1
  <2>2. \A i \in 1..Len(q.queue) - 1 : i + 1 \in 1..Len(q.queue) /\ i + 1 # 1
    BY <1>1
  <2>3. \A i \in 1..Len(q.queue) - 1 : Tail(q.queue)[i] # Head(q.queue)
    BY <1>2, <1>4, <2>1, <2>2 DEF QueueOK
  <2>4. \A i, j \in 1..Len(q.queue) - 1 : Tail(q.queue)[i] = Tail(q.queue)[j] => i = j
    BY <1>1, <1>2, <1>4, <2>2 DEF QueueOK
  <2> QED
    BY <1>2, <1>3, <1>4, <2>1, <2>2, <2>3, <2>4 DEF QueueOK
<1> QED
  BY <1>1, <1>2, <1>3, <1>4

LEMMA DoneKeeps ==
  ASSUME NEW q \in Queues, NEW x \in Items
  PROVE  /\ Done(q, x) \in Queues
         /\ Done(q, x).dirty = q.dirty
         /\ Done(q, x).processing = q.processing \ {x}
         /\ QueueOK(q) /\ x \in q.processing => QueueOK(Done(q, x))
<1>1. /\ Done(q, x) \in Queues /\ Done(q, x).dirty = q.dirty
      /\ Done(q, x).processing = q.processing \ {x}
      /\ Done(q, x).queue = IF x \in q.dirty THEN Append(q.queue, x) ELSE q.queue
  <2> DEFINE s == IF x \in q.dirty THEN Append(q.queue, x) ELSE q.queue
  <2>1. s \in Seq(Items)
    BY DEF Queues
  <2>2. Done(q, x) = [q EXCEPT !.processing = @ \ {x}, !.queue = s]
    BY DEF Done
  <2> HIDE DEF s
  <2>3. /\ Done(q, x) \in Queues /\ Done(q, x).dirty = q.dirty
        /\ Done(q, x).processing = q.processing \ {x} /\ Done(q, x).queue = s
    BY <2>1, <2>2 DEF Queues
  <2> QED
    BY <2>3 DEF s
<1>2. ASSUME QueueOK(q), x \in q.processing PROVE QueueOK(Done(q, x))
  <2>1. CASE x \in q.dirty
    <3>1. q.queue \in Seq(Items) /\ \A i \in 1..Len(q.queue) : q.queue[i] # x
      BY <1>2 DEF QueueOK, Queues
    <3>2. /\ Len(Append(q.queue, x)) = Len(q.queue) + 1
          /\ \A i \in 1..Len(q.queue) + 1 :
                Append(q.queue, x)[i] = IF i = Len(q.queue) + 1 THEN x ELSE q.queue[i]
          /\ \A i, j \in 1..Len(q.queue) + 1 :
                Append(q.queue, x)[i] = Append(q.queue, x)[j] => i = j
      BY <1>2, <3>1, AppendOnce DEF QueueOK
    <3> QED
      BY <1>1, <1>2, <2>1, <3>2 DEF QueueOK
  <2>2. CASE x \notin q.dirty
    BY <1>1, <1>2, <2>2 DEF QueueOK
  <2> QED
    BY <2>1, <2>2
<1> QED
  BY <1>1, <1>2

-----------------------------------------------------------------------------
(***************************************************************************)
(* The inductive invariant for OneWorkerPerItem: what a worker has taken   *)
(* is marked as being processed, so that it cannot be queued again.        *)
(***************************************************************************)
Events == [kind : {"add", "update", "delete"}, pod : Pods, annotations : BOOLEAN]

WorkTypes ==
    /\ events \in Seq(Events)
    /\ wq \in Queues
    /\ pc \in [Workers -> {"get", "pod", "list", "update"}]
    /\ item \in [Workers -> Items \cup {NoItem}]
    /\ list \in [Workers -> [Pods -> Pod \cup {Absent}]]
    /\ version \in [Pods -> Nat] /\ \A p \in Pods : version[p] <= changes
    /\ listed \in [Workers -> Nat] /\ published \in Nat
    /\ pods \in [Pods -> Pod \cup {Absent}]
    /\ delayed \subseteq Items /\ routes \subseteq RouterCIDR
    /\ \A w \in Workers : pc[w] = "get" <=> item[w] = NoItem
    /\ changes \in Nat /\ faults \in Nat /\ restarts \in Nat
    /\ changes <= MaxChanges /\ faults + restarts <= MaxFaults

InHands == \A w \in Workers : item[w] # NoItem => item[w] \in wq.processing

IInv == WorkTypes /\ QueueOK(wq) /\ InHands /\ OneWorkerPerItem

LEMMA NoItemNew == NoItem \notin Items
  BY DEF NoItem, Items

LEMMA KeyType == \A p \in Pods : Key(p) \in Items /\ Object(p) \in Items
  BY DEF Key, Object, Items

LEMMA EmptyQueue ==
  LET q == [queue |-> <<>>, dirty |-> {}, processing |-> {}]
  IN  q \in Queues /\ QueueOK(q)
<1> DEFINE q == [queue |-> <<>>, dirty |-> {}, processing |-> {}]
<1>1. q \in Queues
  BY DEF Queues
<1>2. q.queue = <<>> /\ Len(q.queue) = 0
  OBVIOUS
<1>3. QueueOK(q)
  BY <1>2 DEF QueueOK
<1> QED
  BY <1>1, <1>3

LEMMA InitIInv == Init => IInv
<1> SUFFICES ASSUME Init PROVE IInv
  OBVIOUS
<1>1. wq \in Queues /\ QueueOK(wq)
  BY EmptyQueue DEF Init
<1>2. WorkTypes
  BY <1>1, RouteAssumption DEF Init, WorkTypes, Nothing
<1>3. InHands /\ OneWorkerPerItem
  BY DEF Init, InHands, OneWorkerPerItem
<1> QED
  BY <1>1, <1>2, <1>3 DEF IInv

LEMMA TypesGiveTypeOK == WorkTypes => TypeOK
<1> SUFFICES ASSUME WorkTypes PROVE TypeOK
  OBVIOUS
<1>1. \A i \in 1..Len(events) : events[i] \in Events
  BY DEF WorkTypes
<1>2. wq.queue \in Seq(Items) /\ wq.dirty \subseteq Items /\ wq.processing \subseteq Items
  BY DEF WorkTypes, Queues
<1>3. \A w \in Workers : (pc[w] = "get") = (item[w] = NoItem)
  BY DEF WorkTypes
<1>4. changes \in 0..MaxChanges /\ faults + restarts \in 0..MaxFaults
  BY RouteAssumption DEF WorkTypes
<1> QED
  BY <1>1, <1>2, <1>3, <1>4 DEF TypeOK, WorkTypes, Events

\* Every pod that parsePodsRoutes lets through has an address of the subnet.
LEMMA RoutesType == \A ps \in [Pods -> Pod \cup {Absent}] : parsePodsRoutes(ps) \subseteq RouterCIDR
  BY DEF parsePodsRoutes

LEMMA ClusterIInv ==
  ASSUME IInv, NEW p \in Pods, Cluster(p)
  PROVE  IInv'
<1>0. /\ WorkTypes /\ pods \in [Pods -> Pod \cup {Absent}]
  BY DEF IInv, WorkTypes
<1>1. PICK pod \in Pod \cup {Absent}, kind \in {"add", "update", "delete"}, stamp \in BOOLEAN :
           Change(p, pod, kind, stamp)
  <2>1. CASE PodCreated(p)
    <3>1. [ip |-> NoIP, deleting |-> FALSE] \in Pod
      BY DEF Pod
    <3> QED
      BY <2>1, <3>1 DEF PodCreated
  <2>2. CASE PodGetsIP(p)
    <3>1. PICK a \in IPs : Change(p, [pods[p] EXCEPT !.ip = a], "update", TRUE)
      BY <2>2 DEF PodGetsIP
    <3>2. [pods[p] EXCEPT !.ip = a] \in Pod
      BY <1>0, <2>2 DEF PodGetsIP, Pod
    <3> QED
      BY <3>1, <3>2
  <2>3. CASE PodTerminates(p)
    <3>1. pods[p] \in Pod
      BY <1>0, <2>3 DEF PodTerminates
    <3>2. [pods[p] EXCEPT !.deleting = TRUE] \in Pod
      BY <3>1 DEF Pod
    <3> QED
      BY <2>3, <3>2 DEF PodTerminates
  <2>4. CASE PodDeleted(p)
    <3>1. (pods[p].ip # NoIP) \in BOOLEAN
      OBVIOUS
    <3> QED
      BY <2>4, <3>1 DEF PodDeleted
  <2> QED
    BY <2>1, <2>2, <2>3, <2>4 DEF Cluster
<1>2. /\ changes < MaxChanges /\ changes' = changes + 1
      /\ pods' = [pods EXCEPT ![p] = pod]
      /\ version' = IF stamp THEN [version EXCEPT ![p] = changes + 1] ELSE version
      /\ UNCHANGED <<faults, restarts, wq, delayed, pc, item, list, routes, listed, published>>
  BY <1>1 DEF Change, bounds
<1>3. PICK differ \in BOOLEAN :
           events' = Append(events, [kind |-> kind, pod |-> p, annotations |-> differ])
  BY <1>1 DEF Change
<1>4. events' \in Seq(Events)
  <2>1. [kind |-> kind, pod |-> p, annotations |-> differ] \in Events
    BY DEF Events
  <2> QED
    BY <1>0, <1>3, <2>1 DEF WorkTypes
<1>5. WorkTypes'
  <2>1. version' \in [Pods -> Nat] /\ \A q \in Pods : version'[q] <= changes'
    BY <1>0, <1>2 DEF WorkTypes
  <2>2. pods' \in [Pods -> Pod \cup {Absent}]
    BY <1>0, <1>2
  <2>3. changes' \in Nat /\ changes' <= MaxChanges
    BY <1>0, <1>2, RouteAssumption DEF WorkTypes
  <2> QED
    BY <1>0, <1>2, <1>4, <2>1, <2>2, <2>3 DEF WorkTypes
<1>6. QueueOK(wq)' /\ InHands' /\ OneWorkerPerItem'
  BY <1>2 DEF IInv, QueueOK, InHands, OneWorkerPerItem
<1> QED
  BY <1>5, <1>6 DEF IInv

LEMMA DeliverIInv ==
  ASSUME IInv, Deliver
  PROVE  IInv'
<1>0. WorkTypes /\ events # <<>>
  BY DEF IInv, Deliver
<1>1. Head(events) \in Events /\ Tail(events) \in Seq(Events)
  BY <1>0 DEF WorkTypes
<1>2. Head(events).pod \in Pods
  BY <1>1 DEF Events
<1>3. /\ wq' \in Queues /\ QueueOK(wq') /\ wq'.processing = wq.processing
  <2>1. wq \in Queues /\ QueueOK(wq)
    BY DEF IInv, WorkTypes
  <2>2. wq' = wq \/ \E x \in Items : wq' = Add(wq, x)
    BY <1>2, KeyType DEF Deliver, add, update, delete
  <2> QED
    BY <2>1, <2>2, AddKeeps
<1>4. /\ events' = Tail(events)
      /\ UNCHANGED <<pods, changes, version, faults, restarts, delayed, pc, item, list, routes,
                     listed, published>>
  BY DEF Deliver, env, bounds
<1>5. WorkTypes'
  BY <1>0, <1>1, <1>3, <1>4 DEF WorkTypes
<1>6. QueueOK(wq)' /\ InHands' /\ OneWorkerPerItem'
  BY <1>3, <1>4 DEF IInv, InHands, OneWorkerPerItem, QueueOK
<1> QED
  BY <1>5, <1>6 DEF IInv

LEMMA BackOffIInv ==
  ASSUME IInv, NEW x \in Items, BackOffEnds(x)
  PROVE  IInv'
<1>1. /\ wq' \in Queues /\ QueueOK(wq') /\ wq'.processing = wq.processing
  BY AddKeeps DEF IInv, WorkTypes, BackOffEnds
<1>2. /\ delayed' \subseteq delayed
      /\ UNCHANGED <<events, pods, changes, version, faults, restarts, pc, item, list, routes,
                     listed, published>>
  BY DEF BackOffEnds, env, bounds
<1>3. WorkTypes'
  BY <1>1, <1>2 DEF IInv, WorkTypes
<1>4. QueueOK(wq)' /\ InHands' /\ OneWorkerPerItem'
  BY <1>1, <1>2 DEF IInv, InHands, OneWorkerPerItem, QueueOK
<1> QED
  BY <1>3, <1>4 DEF IInv

\* The end of a work item: the deferred Done.
LEMMA IdleIInv ==
  ASSUME IInv, NEW w \in Workers, pc[w] # "get", Idle(w), wq' = Done(wq, item[w]),
         delayed' \in {delayed, delayed \cup {item[w]}},
         UNCHANGED <<events, pods, changes, version, restarts>>,
         faults' \in Nat, faults' + restarts <= MaxFaults,
         routes' \subseteq RouterCIDR, published' \in Nat
  PROVE  IInv'
<1>0. item[w] \in Items /\ item[w] \in wq.processing /\ wq \in Queues /\ QueueOK(wq)
  BY DEF IInv, WorkTypes, InHands
<1>1. wq' \in Queues /\ QueueOK(wq') /\ wq'.processing = wq.processing \ {item[w]}
  BY <1>0, DoneKeeps
<1>2. WorkTypes'
  <2>1. Nothing \in [Pods -> Pod \cup {Absent}]
    BY DEF Nothing
  <2>2. \A v \in Workers : pc'[v] = "get" <=> item'[v] = NoItem
    BY DEF IInv, WorkTypes, Idle
  <2>3. pc' \in [Workers -> {"get", "pod", "list", "update"}] /\ item' \in [Workers -> Items \cup {NoItem}]
    BY DEF IInv, WorkTypes, Idle
  <2>4. list' \in [Workers -> [Pods -> Pod \cup {Absent}]] /\ listed' \in [Workers -> Nat]
    BY <2>1 DEF IInv, WorkTypes, Idle
  <2> QED
    BY <1>0, <1>1, <2>2, <2>3, <2>4 DEF IInv, WorkTypes
<1>3. InHands'
  <2>1. ASSUME NEW v \in Workers, item'[v] # NoItem PROVE item'[v] \in wq'.processing
    <3>1. v # w /\ item'[v] = item[v]
      BY <2>1 DEF Idle, IInv, WorkTypes
    <3>2. item[v] \in wq.processing /\ item[v] # item[w]
      BY <2>1, <3>1 DEF IInv, InHands, OneWorkerPerItem
    <3> QED
      BY <1>1, <3>1, <3>2
  <2> QED
    BY <2>1 DEF InHands
<1>4. OneWorkerPerItem'
  BY DEF Idle, IInv, WorkTypes, OneWorkerPerItem
<1>5. QueueOK(wq)'
  BY <1>1 DEF QueueOK
<1> QED
  BY <1>2, <1>3, <1>4, <1>5 DEF IInv

LEMMA WorkIInv ==
  ASSUME IInv, NEW w \in Workers, Work(w)
  PROVE  IInv'
<1>0. WorkTypes
  BY DEF IInv
<1>1. CASE processNextWorkItem(w)
  <2> DEFINE i == Head(wq.queue)
  <2>1. /\ wq \in Queues /\ QueueOK(wq) /\ wq.queue # <<>> /\ pc[w] = "get" /\ item[w] = NoItem
    BY <1>1 DEF processNextWorkItem, IInv, WorkTypes
  <2>2. /\ i \in Items /\ i \notin wq.processing /\ Get(wq) \in Queues /\ QueueOK(Get(wq))
        /\ Get(wq).processing = wq.processing \cup {i}
    BY <2>1, GetKeeps
  <2>3. UNCHANGED <<events, pods, changes, version, faults, restarts, delayed, list, routes,
                    listed, published>>
    BY <1>1 DEF processNextWorkItem, env, bounds
  <2>4. CASE i.type = "key"
    <3>1. /\ wq' = Get(wq) /\ item' = [item EXCEPT ![w] = i] /\ pc' = [pc EXCEPT ![w] = "pod"]
      BY <1>1, <2>4 DEF processNextWorkItem
    <3> HIDE DEF i
    <3>2. WorkTypes'
      <4>1. \A v \in Workers : pc'[v] = "get" <=> item'[v] = NoItem
        BY <1>0, <2>2, <3>1, NoItemNew DEF WorkTypes
      <4> QED
        BY <1>0, <2>2, <2>3, <3>1, <4>1 DEF WorkTypes
    <3>3. InHands'
      BY <1>0, <2>2, <3>1 DEF IInv, InHands, WorkTypes
    <3>4. OneWorkerPerItem'
      <4>1. \A v \in Workers : item[v] # NoItem => item[v] # i
        BY <2>2 DEF IInv, InHands
      <4> QED
        BY <1>0, <2>2, <3>1, <4>1, NoItemNew DEF IInv, OneWorkerPerItem, WorkTypes
    <3>5. QueueOK(wq)'
      BY <2>2, <3>1 DEF QueueOK
    <3> QED
      BY <3>2, <3>3, <3>4, <3>5 DEF IInv
  <2>5. CASE i.type # "key"
    <3>1. wq' = Done(Get(wq), i) /\ UNCHANGED <<item, pc>>
      BY <1>1, <2>5 DEF processNextWorkItem
    <3> HIDE DEF i
    <3>2. wq' \in Queues /\ QueueOK(wq') /\ wq'.processing = wq.processing
      <4> DEFINE q == Get(wq)
      <4>1. q \in Queues /\ QueueOK(q) /\ i \in Items /\ i \in q.processing
        BY <2>2
      <4> HIDE DEF q
      <4>2. /\ Done(q, i) \in Queues /\ QueueOK(Done(q, i))
            /\ Done(q, i).processing = q.processing \ {i}
        BY <4>1, DoneKeeps
      <4> QED
        BY <2>2, <3>1, <4>2 DEF q
    <3>3. WorkTypes'
      BY <1>0, <2>3, <3>1, <3>2 DEF WorkTypes
    <3>4. InHands' /\ OneWorkerPerItem' /\ QueueOK(wq)'
      BY <3>1, <3>2 DEF IInv, InHands, OneWorkerPerItem, QueueOK
    <3> QED
      BY <3>3, <3>4 DEF IInv
  <2> QED
    BY <2>4, <2>5
<1>2. ASSUME NEW l \in {"list", "update"}, pc[w] # "get", pc' = [pc EXCEPT ![w] = l],
             list' \in [Workers -> [Pods -> Pod \cup {Absent}]], listed' \in [Workers -> Nat],
             UNCHANGED <<events, pods, changes, version, faults, restarts, wq, delayed, item,
                         routes, published>>
      PROVE  IInv'
  <2>1. WorkTypes'
    BY <1>0, <1>2 DEF WorkTypes
  <2>2. InHands' /\ OneWorkerPerItem' /\ QueueOK(wq)'
    BY <1>2 DEF IInv, InHands, OneWorkerPerItem, QueueOK
  <2> QED
    BY <2>1, <2>2 DEF IInv
<1>3. CASE SyncGet(w)
  <2>1. /\ pc[w] = "pod" /\ UNCHANGED <<events, pods, changes, version, faults, restarts, routes, published>>
    BY <1>3 DEF SyncGet, env, bounds
  <2>2. CASE Requeue(w)
    BY <1>0, <2>1, <2>2, IdleIInv DEF Requeue, WorkTypes
  <2>3. CASE pc' = [pc EXCEPT ![w] = "list"] /\ UNCHANGED <<wq, delayed, item, list, listed>>
    BY <1>0, <1>2, <2>1, <2>3 DEF WorkTypes
  <2> QED
    BY <1>3, <2>2, <2>3 DEF SyncGet
<1>4. CASE SyncList(w)
  <2>1. /\ pc[w] = "list" /\ pc' = [pc EXCEPT ![w] = "update"]
        /\ UNCHANGED <<events, pods, changes, version, faults, restarts, wq, delayed, item,
                       routes, published>>
    BY <1>4 DEF SyncList, env, bounds
  <2>2. list' \in [Workers -> [Pods -> Pod \cup {Absent}]] /\ listed' \in [Workers -> Nat]
    BY <1>0, <1>4 DEF SyncList, WorkTypes
  <2> QED
    BY <1>2, <2>1, <2>2
<1>5. list[w] \in [Pods -> Pod \cup {Absent}] /\ listed[w] \in Nat
  BY <1>0 DEF WorkTypes
<1>6. CASE UpdateRoutes(w)
  <2>1. /\ pc[w] = "update" /\ wq' = Done(wq, item[w]) /\ Idle(w)
        /\ UNCHANGED <<events, pods, changes, version, faults, restarts, delayed>>
    BY <1>6 DEF UpdateRoutes, env, bounds
  <2>2. routes' \subseteq RouterCIDR /\ published' \in Nat
    BY <1>0, <1>5, <1>6, RoutesType DEF UpdateRoutes, WorkTypes
  <2> QED
    BY <1>0, <2>1, <2>2, IdleIInv DEF WorkTypes
<1>7. CASE UpdateRoutesFails(w)
  <2>1. /\ pc[w] = "update" /\ wq' = Done(wq, item[w]) /\ Idle(w)
        /\ delayed' = delayed \cup {item[w]}
        /\ UNCHANGED <<events, pods, changes, version, restarts, published>>
    BY <1>7 DEF UpdateRoutesFails, Requeue, env
  <2>2. routes' \subseteq RouterCIDR /\ published' \in Nat
    BY <1>0, <1>5, <1>7, <2>1, RoutesType DEF UpdateRoutesFails, WorkTypes
  <2>3. faults' \in Nat /\ faults' + restarts <= MaxFaults
    BY <1>0, <1>7, RouteAssumption DEF UpdateRoutesFails, WorkTypes
  <2> QED
    BY <2>1, <2>2, <2>3, IdleIInv
<1> QED
  BY <1>1, <1>3, <1>4, <1>6, <1>7 DEF Work

LEMMA SetToSeqsType ==
  ASSUME NEW S, IsFiniteSet(S), NEW s \in SetToSeqs(S)
  PROVE  Len(s) \in Nat /\ \A i \in 1..Len(s) : s[i] \in S
<1>1. Cardinality(S) \in Nat
  BY FS_CardinalityType
<1>2. s \in [1..Cardinality(S) -> S]
  BY DEF SetToSeqs
<1> QED
  BY <1>1, <1>2

LEMMA RestartIInv ==
  ASSUME IInv, Restart
  PROVE  IInv'
<1>1. wq' \in Queues /\ QueueOK(wq') /\ wq'.processing = {}
  BY EmptyQueue DEF Restart
<1>2. events' \in Seq(Events)
  <2> DEFINE S == {p \in Pods : pods[p] # Absent}
  <2>1. PICK alive \in SetToSeqs(S) :
           events' = [i \in 1..Len(alive) |->
                        [kind |-> "add", pod |-> alive[i], annotations |-> FALSE]]
    BY DEF Restart
  <2>2. IsFiniteSet(S) /\ S \subseteq Pods
    <3>1. S \in SUBSET Pods /\ IsFiniteSet(Pods)
      BY RouteAssumption
    <3> QED
      BY <3>1, FS_Subset
  <2>3. Len(alive) \in Nat /\ \A i \in 1..Len(alive) : alive[i] \in S
    <3> HIDE DEF S
    <3> QED
      BY <2>2, SetToSeqsType
  <2>4. Len(alive) \in Nat /\ \A i \in 1..Len(alive) : alive[i] \in Pods
    BY <2>2, <2>3
  <2>5. \A i \in 1..Len(alive) : [kind |-> "add", pod |-> alive[i], annotations |-> FALSE] \in Events
    BY <2>4 DEF Events
  <2> QED
    BY <2>1, <2>4, <2>5
<1>3. WorkTypes'
  <2>1. Nothing \in [Pods -> Pod \cup {Absent}]
    BY DEF Nothing
  <2>2. restarts' \in Nat /\ faults' + restarts' <= MaxFaults
    BY RouteAssumption DEF IInv, WorkTypes, Restart
  <2>3. UNCHANGED <<pods, changes, version, faults, routes, published>>
    BY DEF Restart, env
  <2>4. /\ pc' \in [Workers -> {"get", "pod", "list", "update"}]
        /\ item' \in [Workers -> Items \cup {NoItem}]
        /\ list' \in [Workers -> [Pods -> Pod \cup {Absent}]]
        /\ listed' \in [Workers -> Nat] /\ delayed' \subseteq Items
        /\ \A w \in Workers : pc'[w] = "get" <=> item'[w] = NoItem
    BY <2>1 DEF Restart
  <2> QED
    BY <1>1, <1>2, <2>2, <2>3, <2>4 DEF IInv, WorkTypes
<1>4. InHands' /\ OneWorkerPerItem'
  BY DEF Restart, InHands, OneWorkerPerItem
<1>5. QueueOK(wq)'
  BY <1>1 DEF QueueOK
<1> QED
  BY <1>3, <1>4, <1>5 DEF IInv

LEMMA NextIInv == IInv /\ [Next]_vars => IInv'
<1>1. IInv /\ UNCHANGED vars => IInv'
  BY DEF vars, IInv, WorkTypes, QueueOK, InHands, OneWorkerPerItem
<1> QED
  BY <1>1, ClusterIInv, DeliverIInv, BackOffIInv, WorkIInv, RestartIInv DEF Next

LEMMA IInvHolds == Spec => []IInv
  BY InitIInv, NextIInv, PTL DEF Spec

\* The type invariant of the route controller: among others, the router never
\* has a route for an address outside of its subnet.
THEOREM TypeCorrect == Spec => []TypeOK
<1>1. IInv => TypeOK
  BY TypesGiveTypeOK DEF IInv
<1> QED
  BY <1>1, IInvHolds, PTL

\* "we are never processing the same item simultaneously in two different
\* workers", for any number of workers and any sequence of events, retries and
\* restarts.
THEOREM OneWorkerPerItemHolds == Spec => []OneWorkerPerItem
<1>1. IInv => OneWorkerPerItem
  BY DEF IInv
<1> QED
  BY <1>1, IInvHolds, PTL

-----------------------------------------------------------------------------
(***************************************************************************)
(* The strengthening for NothingForgotten.  A change that gives a waiting  *)
(* pod its address is an update, which puts nothing on the queue: it is    *)
(* safe only because the key of a pod without an address is itself never   *)
(* lost, from the add event on, and not past the point where sync looks    *)
(* the pod up.                                                             *)
(***************************************************************************)
Waiting(p) ==
    \/ \E i \in 1..Len(events) : events[i].pod = p /\ events[i].kind # "update"
    \/ Key(p) \in wq.dirty \cup delayed

Fetched(p) == \E w \in Workers : item[w] = Key(p) /\ pc[w] = "pod"

Held(p) ==
    \E w \in Workers : item[w] = Key(p) /\ (pc[w] = "update" => listed[w] >= version[p])

PendingTracked == \A p \in Pods : Pending(p) /\ restarts = 0 => Waiting(p) \/ Fetched(p)

LEMMA NothingForgottenForm ==
  NothingForgotten <=>
    \A p \in Pods : version[p] > published /\ ~ Pending(p) /\ restarts = 0 => Waiting(p) \/ Held(p)
  BY DEF NothingForgotten, Waiting, Held

\* Keys of different pods differ, and a key is no object.
LEMMA KeyInjective ==
  \A p, q \in Pods : (Key(p) = Key(q) => p = q) /\ Key(p) # Object(q) /\ Key(p) # NoItem
  BY DEF Key, Object, NoItem

\* What one step must do for one pod.
Kept(p) ==
    restarts = 0 =>
        /\ Pending(p) => Waiting(p) \/ Fetched(p)
        /\ version[p] > published /\ ~ Pending(p) => Waiting(p) \/ Held(p)

LEMMA KeptForm == PendingTracked /\ NothingForgotten <=> \A p \in Pods : Kept(p)
  BY NothingForgottenForm DEF PendingTracked, Kept

\* Appending to the events loses none of them.
LEMMA WaitingAppend ==
  ASSUME IInv, NEW p \in Pods, NEW e \in Events, events' = Append(events, e), UNCHANGED <<wq, delayed>>
  PROVE  /\ Waiting(p) => Waiting(p)'
         /\ e.pod = p /\ e.kind # "update" => Waiting(p)'
<1>1. events \in Seq(Events)
  BY DEF IInv, WorkTypes
<1>2. /\ Len(events') = Len(events) + 1 /\ Len(events) \in Nat
      /\ \A i \in 1..Len(events) : events'[i] = events[i]
      /\ events'[Len(events) + 1] = e
  BY <1>1
<1>3. Len(events) + 1 \in 1..Len(events') /\ \A i \in 1..Len(events) : i \in 1..Len(events')
  BY <1>2
<1> QED
  BY <1>2, <1>3 DEF Waiting

LEMMA ClusterKept ==
  ASSUME IInv, NEW p \in Pods, Cluster(p), NEW q \in Pods, Kept(q)
  PROVE  Kept(q)'
<1>0. /\ pods \in [Pods -> Pod \cup {Absent}] /\ version \in [Pods -> Nat]
      /\ published \in Nat /\ changes \in Nat
  BY DEF IInv, WorkTypes
<1>1. ASSUME NEW pod, NEW kind \in {"add", "update", "delete"}, NEW stamp, Change(p, pod, kind, stamp)
      PROVE  /\ pods' = [pods EXCEPT ![p] = pod]
             /\ version' = IF stamp THEN [version EXCEPT ![p] = changes + 1] ELSE version
             /\ UNCHANGED <<restarts, pc, item, listed, published>>
             /\ Waiting(q) => Waiting(q)'
             /\ p = q /\ kind # "update" => Waiting(q)'
             /\ Fetched(q) => Fetched(q)' /\ Held(q)'
             /\ Held(q) /\ version'[q] = version[q] => Held(q)'
  <2>1. /\ pods' = [pods EXCEPT ![p] = pod]
        /\ version' = IF stamp THEN [version EXCEPT ![p] = changes + 1] ELSE version
        /\ UNCHANGED <<restarts, wq, delayed, pc, item, listed, published>>
    BY <1>1 DEF Change, bounds
  <2>2. PICK differ \in BOOLEAN :
           events' = Append(events, [kind |-> kind, pod |-> p, annotations |-> differ])
    BY <1>1 DEF Change
  <2>3. [kind |-> kind, pod |-> p, annotations |-> differ] \in Events
    BY DEF Events
  <2>4. /\ Waiting(q) => Waiting(q)'
        /\ p = q /\ kind # "update" => Waiting(q)'
    BY <2>1, <2>2, <2>3, WaitingAppend
  <2>5. /\ Fetched(q) => Fetched(q)' /\ Held(q)'
        /\ Held(q) /\ version'[q] = version[q] => Held(q)'
    BY <2>1 DEF Fetched, Held
  <2> QED
    BY <2>1, <2>4, <2>5
<1>2. CASE PodCreated(p)
  <2>1. Change(p, [ip |-> NoIP, deleting |-> FALSE], "add", FALSE)
    BY <1>2 DEF PodCreated
  <2> QED
    BY <1>0, <1>1, <2>1 DEF Kept, Pending
<1>3. CASE PodGetsIP(p)
  <2>1. /\ pods[p] # Absent /\ pods[p].ip = NoIP
    BY <1>3 DEF PodGetsIP
  <2>2. PICK a \in IPs : Change(p, [pods[p] EXCEPT !.ip = a], "update", TRUE)
    BY <1>3 DEF PodGetsIP
  <2>3. CASE q = p
    <3>1. Pending(q)
      BY <2>1, <2>3 DEF Pending
    <3>2. restarts = 0 => Waiting(q)' \/ Held(q)'
      BY <1>1, <2>2, <3>1 DEF Kept
    <3>3. ~ Pending(q)'
      <4>0. pods' = [pods EXCEPT ![p] = [pods[p] EXCEPT !.ip = a]]
        BY <1>1, <2>2
      <4>1. pods'[q] = [pods[p] EXCEPT !.ip = a]
        BY <1>0, <2>3, <4>0
      <4>2. pods[p] \in Pod
        BY <1>0, <2>1
      <4>3. pods'[q].ip = a
        BY <4>1, <4>2 DEF Pod
      <4>4. a # NoIP
        BY RouteAssumption
      <4> QED
        BY <4>3, <4>4 DEF Pending
    <3>4. UNCHANGED restarts
      BY <1>1, <2>2
    <3> QED
      BY <3>2, <3>3, <3>4 DEF Kept
  <2>4. CASE q # p
    BY <1>0, <1>1, <2>2, <2>4 DEF Kept, Pending
  <2> QED
    BY <2>3, <2>4
<1>4. CASE PodTerminates(p)
  <2>1. /\ pods[p] # Absent /\ Change(p, [pods[p] EXCEPT !.deleting = TRUE], "update", FALSE)
    BY <1>4 DEF PodTerminates
  <2>2. pods[p] \in Pod
    BY <1>0, <2>1
  <2>3. [pods[p] EXCEPT !.deleting = TRUE].ip = pods[p].ip
    BY <2>2 DEF Pod
  <2>4. pods'[q] = IF q = p THEN [pods[p] EXCEPT !.deleting = TRUE] ELSE pods[q]
    <3>1. pods' = [pods EXCEPT ![p] = [pods[p] EXCEPT !.deleting = TRUE]]
      BY <1>1, <2>1
    <3> QED
      BY <1>0, <3>1
  <2>5. Pending(q)' => Pending(q)
    BY <2>1, <2>3, <2>4 DEF Pending
  <2>6. /\ UNCHANGED <<restarts, published, version>>
        /\ Waiting(q) => Waiting(q)'
        /\ Fetched(q) => Fetched(q)' /\ Held(q)'
        /\ Held(q) => Held(q)'
    BY <1>1, <2>1
  <2> QED
    BY <2>5, <2>6 DEF Kept
<1>5. CASE PodDeleted(p)
  <2>1. Change(p, Absent, "delete", pods[p].ip # NoIP)
    BY <1>5 DEF PodDeleted
  <2> QED
    BY <1>0, <1>1, <2>1 DEF Kept, Pending
<1> QED
  BY <1>2, <1>3, <1>4, <1>5 DEF Cluster

\* A step that changes neither pods nor history keeps what it does not lose.
LEMMA SteadyKept ==
  ASSUME NEW p \in Pods, Kept(p), UNCHANGED <<pods, version, restarts>>,
         published' >= published, published \in Nat, published' \in Nat, version \in [Pods -> Nat],
         restarts = 0 /\ Waiting(p) => Waiting(p)' \/ (Fetched(p)' /\ Held(p)'),
         restarts = 0 /\ Fetched(p) /\ Pending(p) => Waiting(p)' \/ Fetched(p)',
         restarts = 0 /\ Held(p) /\ version[p] > published => Waiting(p)' \/ Held(p)' \/ version[p] <= published'
  PROVE  Kept(p)'
<1>1. Pending(p)' = Pending(p)
  BY DEF Pending
<1>2. version'[p] > published' => version[p] > published /\ ~ (version[p] <= published')
  <2>1. version[p] \in Nat
    OBVIOUS
  <2> QED
    BY <2>1
<1> QED
  BY <1>1, <1>2 DEF Kept

LEMMA DeliverKept ==
  ASSUME IInv, Deliver, NEW p \in Pods, Kept(p)
  PROVE  Kept(p)'
<1>0. /\ events \in Seq(Events) /\ events # <<>> /\ wq \in Queues
      /\ published \in Nat /\ version \in [Pods -> Nat]
  BY DEF IInv, WorkTypes, Deliver
<1>1. /\ events' = Tail(events)
      /\ UNCHANGED <<pods, version, restarts, delayed, pc, item, listed, published>>
  BY DEF Deliver, env, bounds
<1>2. Head(events) \in Events /\ Head(events).pod \in Pods
  <2>1. Head(events) \in Events
    BY <1>0
  <2> QED
    BY <2>1 DEF Events
<1>3. /\ Key(p) \in wq.dirty => Key(p) \in wq'.dirty
      /\ Head(events).pod = p /\ Head(events).kind # "update" => Key(p) \in wq'.dirty
  <2>1. Key(Head(events).pod) \in Items /\ Object(Head(events).pod) \in Items
    BY <1>2, KeyType
  <2>2. \/ wq' = wq /\ Head(events).kind = "update"
        \/ wq' = Add(wq, Object(Head(events).pod)) /\ Head(events).kind = "update"
        \/ wq' = Add(wq, Key(Head(events).pod))
    BY DEF Deliver, add, update, delete
  <2>3. \A x \in Items : Add(wq, x).dirty = wq.dirty \cup {x}
    BY <1>0, AddKeeps
  <2> QED
    BY <2>1, <2>2, <2>3
<1>4. Waiting(p) => Waiting(p)'
  <2>1. ASSUME NEW i \in 1..Len(events), events[i].pod = p, events[i].kind # "update"
        PROVE  Waiting(p)'
    <3>1. CASE i = 1
      <4>1. Head(events) = events[i]
        BY <1>0, <3>1
      <4> QED
        BY <1>3, <2>1, <4>1 DEF Waiting
    <3>2. CASE i # 1
      <4>1. i - 1 \in 1..Len(events') /\ events'[i - 1] = events[i]
        BY <1>0, <1>1, <3>2
      <4> QED
        BY <2>1, <4>1 DEF Waiting
    <3> QED
      BY <3>1, <3>2
  <2>2. ASSUME Key(p) \in wq.dirty \cup delayed PROVE Waiting(p)'
    BY <1>1, <1>3, <2>2 DEF Waiting
  <2> QED
    BY <2>1, <2>2 DEF Waiting
<1>5. (Fetched(p) => Fetched(p)') /\ (Held(p) => Held(p)')
  BY <1>1 DEF Fetched, Held
<1>6. published' >= published /\ published' \in Nat
  BY <1>0, <1>1
<1> QED
  BY <1>0, <1>1, <1>4, <1>5, <1>6, SteadyKept

LEMMA BackOffKept ==
  ASSUME IInv, NEW x \in Items, BackOffEnds(x), NEW p \in Pods, Kept(p)
  PROVE  Kept(p)'
<1>0. wq \in Queues /\ published \in Nat /\ version \in [Pods -> Nat]
  BY DEF IInv, WorkTypes
<1>1. /\ delayed' = delayed \ {x} /\ wq' = Add(wq, x)
      /\ UNCHANGED <<pods, version, restarts, events, pc, item, listed, published>>
  BY DEF BackOffEnds, env, bounds
<1>2. wq'.dirty = wq.dirty \cup {x}
  BY <1>0, <1>1, AddKeeps
<1>3. Waiting(p) => Waiting(p)'
  BY <1>1, <1>2 DEF Waiting
<1>4. (Fetched(p) => Fetched(p)') /\ (Held(p) => Held(p)')
  BY <1>1 DEF Fetched, Held
<1>5. published' >= published /\ published' \in Nat
  BY <1>0, <1>1
<1> QED
  BY <1>0, <1>1, <1>3, <1>4, <1>5, SteadyKept

\* Done does not touch what is dirty: an item that came again while it was being
\* processed goes back on the queue.
LEMMA WaitingDone ==
  ASSUME IInv, NEW w \in Workers, item[w] \in Items, wq' = Done(wq, item[w]),
         delayed \subseteq delayed', UNCHANGED events, NEW p \in Pods
  PROVE  Waiting(p) => Waiting(p)'
<1>1. wq \in Queues
  BY DEF IInv, WorkTypes
<1>2. wq'.dirty = wq.dirty
  BY <1>1, DoneKeeps
<1> QED
  BY <1>2 DEF Waiting

\* A worker that becomes idle takes its item with it and no other.
LEMMA OthersIdle ==
  ASSUME IInv, NEW w \in Workers, Idle(w), UNCHANGED version, NEW p \in Pods, item[w] # Key(p)
  PROVE  (Fetched(p) => Fetched(p)') /\ (Held(p) => Held(p)')
<1>1. \A v \in Workers : v # w => item'[v] = item[v] /\ pc'[v] = pc[v] /\ listed'[v] = listed[v]
  BY DEF Idle, IInv, WorkTypes
<1> QED
  BY <1>1 DEF Fetched, Held

LEMMA RequeueKept ==
  ASSUME IInv, NEW w \in Workers, pc[w] # "get", Requeue(w),
         UNCHANGED <<events, pods, version, restarts, published>>, NEW p \in Pods, Kept(p)
  PROVE  Kept(p)'
<1>0. /\ published \in Nat /\ version \in [Pods -> Nat] /\ item[w] \in Items
      /\ published' >= published /\ published' \in Nat
  BY DEF IInv, WorkTypes
<1>1. Waiting(p) => Waiting(p)'
  BY <1>0, WaitingDone DEF Requeue
<1>2. CASE item[w] = Key(p)
  <2>1. Waiting(p)'
    BY <1>2 DEF Waiting, Requeue
  <2> QED
    BY <1>0, <2>1, SteadyKept
<1>3. CASE item[w] # Key(p)
  <2>1. (Fetched(p) => Fetched(p)') /\ (Held(p) => Held(p)')
    BY <1>3, OthersIdle DEF Requeue
  <2> QED
    BY <1>0, <1>1, <2>1, SteadyKept
<1> QED
  BY <1>2, <1>3

LEMMA WorkKept ==
  ASSUME IInv, NEW w \in Workers, Work(w), NEW p \in Pods, Kept(p)
  PROVE  Kept(p)'
<1>0. /\ published \in Nat /\ version \in [Pods -> Nat] /\ version[p] \in Nat /\ changes \in Nat
      /\ version[p] <= changes /\ wq \in Queues /\ listed \in [Workers -> Nat]
      /\ pc \in [Workers -> {"get", "pod", "list", "update"}]
      /\ item \in [Workers -> Items \cup {NoItem}] /\ (pc[w] # "get" => item[w] \in Items)
  BY DEF IInv, WorkTypes
<1>1. CASE processNextWorkItem(w)
  <2> DEFINE i == Head(wq.queue)
  <2>1. /\ pc[w] = "get" /\ wq.queue # <<>> /\ item[w] = NoItem
        /\ UNCHANGED <<pods, version, restarts, events, delayed, listed, published>>
    BY <1>1 DEF processNextWorkItem, env, bounds, IInv, WorkTypes
  <2>2. i \in Items /\ Get(wq) \in Queues /\ Get(wq).dirty = wq.dirty \ {i}
    BY <1>0, <2>1, GetKeeps
  <2>3. published' >= published /\ published' \in Nat
    BY <1>0, <2>1
  <2>4. CASE i.type = "key"
    <3>1. /\ wq' = Get(wq) /\ item' = [item EXCEPT ![w] = i] /\ pc' = [pc EXCEPT ![w] = "pod"]
      BY <1>1, <2>4 DEF processNextWorkItem
    <3> HIDE DEF i
    <3>2. /\ item'[w] = i /\ pc'[w] = "pod"
          /\ \A v \in Workers : item[v] # NoItem => item'[v] = item[v] /\ pc'[v] = pc[v]
      BY <1>0, <2>1, <3>1
    <3>3. (Fetched(p) => Fetched(p)') /\ (Held(p) => Held(p)')
      BY <2>1, <3>2, KeyInjective DEF Fetched, Held
    <3>4. Waiting(p) => Waiting(p)' \/ (Fetched(p)' /\ Held(p)')
      BY <2>1, <2>2, <3>1, <3>2 DEF Waiting, Fetched, Held
    <3> QED
      BY <1>0, <2>1, <2>3, <3>3, <3>4, SteadyKept
  <2>5. CASE i.type # "key"
    <3>1. wq' = Done(Get(wq), i) /\ UNCHANGED <<item, pc>>
      BY <1>1, <2>5 DEF processNextWorkItem
    <3>2. Key(p) # i
      BY <2>5 DEF Key
    <3> HIDE DEF i
    <3>3. wq'.dirty = wq.dirty \ {i}
      BY <2>2, <3>1, DoneKeeps
    <3>4. Waiting(p) => Waiting(p)'
      BY <2>1, <3>2, <3>3 DEF Waiting
    <3>5. (Fetched(p) => Fetched(p)') /\ (Held(p) => Held(p)')
      BY <2>1, <3>1 DEF Fetched, Held
    <3> QED
      BY <1>0, <2>1, <2>3, <3>4, <3>5, SteadyKept
  <2> QED
    BY <2>4, <2>5
<1>2. CASE SyncGet(w)
  <2>1. /\ pc[w] = "pod" /\ UNCHANGED <<events, pods, version, restarts, published>>
    BY <1>2 DEF SyncGet, env, bounds
  <2>2. CASE Requeue(w)
    BY <2>1, <2>2, RequeueKept
  <2>3. CASE ~ Requeue(w)
    <3>1. /\ pc' = [pc EXCEPT ![w] = "list"] /\ UNCHANGED <<wq, delayed, item, listed>>
          /\ ~ (pods[item[w].pod] # Absent /\ pods[item[w].pod].ip = NoIP)
      BY <1>2, <2>3 DEF SyncGet
    <3>2. Waiting(p) => Waiting(p)'
      BY <2>1, <3>1 DEF Waiting
    <3>3. Pending(p) /\ Fetched(p) => Fetched(p)'
      <4>1. Pending(p) => item[w] # Key(p)
        BY <3>1 DEF Pending, Key
      <4> QED
        BY <1>0, <3>1, <4>1 DEF Fetched
    <3>4. Held(p) => Held(p)'
      BY <1>0, <2>1, <3>1 DEF Held
    <3>5. published' >= published /\ published' \in Nat
      BY <1>0, <2>1
    <3> QED
      BY <1>0, <2>1, <3>2, <3>3, <3>4, <3>5, SteadyKept
  <2> QED
    BY <2>2, <2>3
<1>3. CASE SyncList(w)
  <2>1. /\ pc[w] = "list" /\ pc' = [pc EXCEPT ![w] = "update"]
        /\ listed' = [listed EXCEPT ![w] = changes]
        /\ UNCHANGED <<events, pods, version, restarts, wq, delayed, item, published>>
    BY <1>3 DEF SyncList, env, bounds
  <2>2. Waiting(p) => Waiting(p)'
    BY <2>1 DEF Waiting
  <2>3. Fetched(p) => Fetched(p)'
    BY <1>0, <2>1 DEF Fetched
  <2>4. Held(p) => Held(p)'
    <3>1. ASSUME NEW v \in Workers, item[v] = Key(p), pc[v] = "update" => listed[v] >= version[p]
          PROVE  Held(p)'
      <4>1. CASE v = w
        <5>1. listed'[v] >= version'[p] /\ item'[v] = Key(p)
          BY <1>0, <2>1, <3>1, <4>1
        <5> QED
          BY <5>1 DEF Held
      <4>2. CASE v # w
        <5>1. listed'[v] = listed[v] /\ pc'[v] = pc[v] /\ item'[v] = item[v] /\ version' = version
          BY <1>0, <2>1, <4>2
        <5> QED
          BY <3>1, <5>1 DEF Held
      <4> QED
        BY <4>1, <4>2
    <3> QED
      BY <3>1 DEF Held
  <2>5. published' >= published /\ published' \in Nat
    BY <1>0, <2>1
  <2> QED
    BY <1>0, <2>1, <2>2, <2>3, <2>4, <2>5, SteadyKept
<1>4. CASE UpdateRoutes(w)
  <2>1. /\ pc[w] = "update" /\ wq' = Done(wq, item[w]) /\ Idle(w)
        /\ published' = IF listed[w] > published THEN listed[w] ELSE published
        /\ UNCHANGED <<events, pods, version, restarts, delayed>>
    BY <1>4 DEF UpdateRoutes, env, bounds
  <2>2. /\ published' \in Nat /\ published' >= published /\ published' >= listed[w]
    BY <1>0, <2>1
  <2>3. Waiting(p) => Waiting(p)'
    BY <1>0, <2>1, WaitingDone
  <2>4. CASE item[w] # Key(p)
    <3>1. (Fetched(p) => Fetched(p)') /\ (Held(p) => Held(p)')
      BY <2>1, <2>4, OthersIdle
    <3> QED
      BY <1>0, <2>1, <2>2, <2>3, <3>1, SteadyKept
  <2>5. CASE item[w] = Key(p)
    <3>1. \A v \in Workers : item[v] = Key(p) => v = w
      BY <2>5, KeyInjective DEF IInv, OneWorkerPerItem
    <3>2. ~ Fetched(p)
      BY <2>1, <3>1 DEF Fetched
    <3>3. Held(p) => listed[w] >= version[p]
      BY <2>1, <3>1 DEF Held
    <3>4. Held(p) => version[p] <= published'
      BY <1>0, <2>2, <3>3
    <3> QED
      BY <1>0, <2>1, <2>2, <2>3, <3>2, <3>4, SteadyKept
  <2> QED
    BY <2>4, <2>5
<1>5. CASE UpdateRoutesFails(w)
  BY <1>5, RequeueKept DEF UpdateRoutesFails, env
<1> QED
  BY <1>1, <1>2, <1>3, <1>4, <1>5 DEF Work

LEMMA NextKept == IInv /\ [Next]_vars => \A p \in Pods : Kept(p) => Kept(p)'
<1> SUFFICES ASSUME IInv, [Next]_vars, NEW p \in Pods, Kept(p) PROVE Kept(p)'
  OBVIOUS
<1>1. CASE UNCHANGED vars
  BY <1>1 DEF vars, Kept, Pending, Waiting, Fetched, Held
<1>2. CASE Restart
  <2>1. restarts' # 0
    BY <1>2 DEF Restart, IInv, WorkTypes
  <2> QED
    BY <2>1 DEF Kept
<1> QED
  BY <1>1, <1>2, ClusterKept, DeliverKept, BackOffKept, WorkKept DEF Next

\* No change that the routes depend on is forgotten, in any cluster and with
\* any number of workers: the argument needs that a key taken by a worker is in
\* no other hands (OneWorkerPerItem) and that a pod without an address stays in
\* the queue (PendingTracked).
THEOREM NothingForgottenHolds == Spec => []NothingForgotten
<1>1. Init => PendingTracked /\ NothingForgotten
  BY DEF Init, PendingTracked, NothingForgotten, Pending
<1>2. PendingTracked /\ NothingForgotten /\ IInv /\ [Next]_vars
         => (PendingTracked /\ NothingForgotten)'
  <2>1. (PendingTracked /\ NothingForgotten)' <=> \A p \in Pods : Kept(p)'
    BY DEF PendingTracked, NothingForgotten, Kept, Waiting, Fetched, Held, Pending
  <2> QED
    BY <2>1, KeptForm, NextKept
<1> QED
  BY <1>1, <1>2, IInvHolds, PTL DEF Spec

=============================================================================
