--------------------------- MODULE RouteController ---------------------------
(***************************************************************************)
(* veth-route-controller: pkg/controller/controller.go and                 *)
(* pkg/openstack/neutron/router/router.go.  Pod events put work on a rate  *)
(* limited queue; each worker takes an item, lists all pods and replaces   *)
(* the static routes of the Neutron router by one route per pod.           *)
(*                                                                         *)
(* External: the pod informer (a cache and an ordered stream of events),   *)
(* client-go's workqueue, and Neutron.                                     *)
(***************************************************************************)
EXTENDS Integers, SequencesExt

CONSTANTS
    Workers,      \* goroutines that Controller.Run starts
    Pods,
    IPs,
    RouterCIDR,   \* addresses of nr.subnet.CIDR
    Graceful,     \* whether pods get a deletion timestamp before they go
    NoIP, Absent, \* a pod without an address, no such pod
    MaxChanges,   \* bound on changes of pods
    MaxFaults     \* bound on router updates that fail and restarts of the controller

ASSUME RouteAssumption ==
    /\ IsFiniteSet(Pods) /\ RouterCIDR \subseteq IPs /\ NoIP \notin IPs
    /\ Graceful \in BOOLEAN
    /\ MaxChanges \in Nat /\ MaxFaults \in Nat

VARIABLES
    pods,      \* the informer's cache
    events,    \* notifications not yet handed to add, update and delete
    wq,        \* the workqueue: queue, dirty and processing
    delayed,   \* items AddRateLimited holds back
    pc, item, list,  \* of each worker: control point, obj, the pods it listed
    routes,    \* destinations of the router's static routes
    changes, faults, restarts,
    version,   \* history: version[p] numbers the last change of p that its
               \* route depends on
    listed,    \* history: number of changes when list[w] was read
    published  \* history: the newest list that has been written to the router

env == <<pods, changes, version>>
bounds == <<faults, restarts>>
vars == <<pods, events, wq, delayed, pc, item, list, routes, changes, faults, restarts,
          version, listed, published>>

Pod == [ip : IPs \cup {NoIP}, deleting : BOOLEAN]

\* A key is namespace/name, an object is a pointer to a pod.
Key(p)    == [type |-> "key", pod |-> p]
Object(p) == [type |-> "object", pod |-> p]
Items     == [type : {"key", "object"}, pod : Pods]
NoItem    == [type |-> "none"]

Nothing   == [p \in Pods |-> Absent]

TypeOK ==
    /\ pods \in [Pods -> Pod \cup {Absent}]
    /\ \A i \in 1..Len(events) :
          events[i] \in [kind : {"add", "update", "delete"}, pod : Pods, annotations : BOOLEAN]
    /\ wq.queue \in Seq(Items) /\ wq.dirty \subseteq Items /\ wq.processing \subseteq Items
    /\ delayed \subseteq Items
    /\ pc \in [Workers -> {"get", "pod", "list", "update"}]
    /\ \A w \in Workers : (pc[w] = "get") = (item[w] = NoItem)
    /\ routes \subseteq RouterCIDR
    /\ changes \in 0..MaxChanges /\ faults + restarts \in 0..MaxFaults

Init ==
    /\ pods = [p \in Pods |-> Absent]
    /\ events = <<>>
    /\ wq = [queue |-> <<>>, dirty |-> {}, processing |-> {}]
    /\ delayed = {}
    /\ pc = [w \in Workers |-> "get"]
    /\ item = [w \in Workers |-> NoItem]
    /\ list = [w \in Workers |-> Nothing]
    /\ routes = {}
    /\ changes = 0 /\ faults = 0 /\ restarts = 0
    /\ version = [p \in Pods |-> 0]
    /\ listed = [w \in Workers |-> 0]
    /\ published = 0

-----------------------------------------------------------------------------
(***************************************************************************)
(* The workqueue                                                           *)
(***************************************************************************)
Add(q, i) ==
    IF i \in q.dirty THEN q
    ELSE [q EXCEPT !.dirty = @ \cup {i},
                   !.queue = IF i \in q.processing THEN @ ELSE Append(@, i)]

Get(q) ==
    LET i == Head(q.queue) IN
    [queue |-> Tail(q.queue), dirty |-> q.dirty \ {i}, processing |-> q.processing \cup {i}]

Done(q, i) ==
    [q EXCEPT !.processing = @ \ {i},
              !.queue = IF i \in q.dirty THEN Append(@, i) ELSE @]

\* The back-off of AddRateLimited is over.
BackOffEnds(i) ==
    /\ i \in delayed
    /\ delayed' = delayed \ {i}
    /\ wq' = Add(wq, i)
    /\ UNCHANGED <<env, bounds, events, pc, item, list, routes, listed, published>>

-----------------------------------------------------------------------------
(***************************************************************************)
(* Pods come, get an address, begin to terminate and go.  The informer     *)
(* changes its cache and queues a notification.                            *)
(***************************************************************************)
Change(p, pod, kind, stamp) ==
    /\ changes < MaxChanges
    /\ changes' = changes + 1
    /\ pods' = [pods EXCEPT ![p] = pod]
    /\ version' = IF stamp THEN [version EXCEPT ![p] = changes + 1] ELSE version
    /\ \E differ \in BOOLEAN :
          /\ differ => kind = "update"
          /\ events' = Append(events, [kind |-> kind, pod |-> p, annotations |-> differ])
    /\ UNCHANGED <<bounds, wq, delayed, pc, item, list, routes, listed, published>>

PodCreated(p) ==
    pods[p] = Absent /\ Change(p, [ip |-> NoIP, deleting |-> FALSE], "add", FALSE)

PodGetsIP(p) ==
    /\ pods[p] # Absent /\ pods[p].ip = NoIP
    /\ \E a \in IPs : /\ \A q \in Pods : pods[q] # Absent => pods[q].ip # a
                      /\ Change(p, [pods[p] EXCEPT !.ip = a], "update", TRUE)

PodTerminates(p) ==
    /\ Graceful
    /\ pods[p] # Absent /\ ~ pods[p].deleting
    /\ Change(p, [pods[p] EXCEPT !.deleting = TRUE], "update", FALSE)

PodDeleted(p) ==
    /\ pods[p] # Absent /\ (Graceful => pods[p].deleting)
    /\ Change(p, Absent, "delete", pods[p].ip # NoIP)

Cluster(p) == PodCreated(p) \/ PodGetsIP(p) \/ PodTerminates(p) \/ PodDeleted(p)

-----------------------------------------------------------------------------
(***************************************************************************)
(* The event handlers.  update compares annotations only, and adds the new *)
(* object itself, not its key.                                             *)
(***************************************************************************)
add(e) == e.kind = "add" /\ wq' = Add(wq, Key(e.pod))

\* Mutant of delete: no handler for it.
deleteIgnored(e) == e.kind = "delete" /\ UNCHANGED wq

delete(e) == e.kind = "delete" /\ wq' = Add(wq, Key(e.pod))

update(e) ==
    /\ e.kind = "update"
    /\ wq' = IF e.annotations THEN Add(wq, Object(e.pod)) ELSE wq

Deliver ==
    /\ events # <<>>
    /\ add(Head(events)) \/ update(Head(events)) \/ delete(Head(events))
    /\ events' = Tail(events)
    /\ UNCHANGED <<env, bounds, delayed, pc, item, list, routes, listed, published>>

-----------------------------------------------------------------------------
(***************************************************************************)
(* The workers                                                             *)
(***************************************************************************)
\* Mutant of parsePodsRoutes: checkPodIP is not called.
parsePodsRoutesUnchecked(ps) ==
    {ps[p].ip : p \in {q \in Pods : ps[q] # Absent /\ ~ ps[q].deleting /\ ps[q].ip # NoIP}}

\* parsePodsRoutes and checkPodIP: one route for each pod that is not being
\* deleted and whose address is in the router's subnet.
parsePodsRoutes(ps) ==
    {ps[p].ip : p \in {q \in Pods : ps[q] # Absent /\ ~ ps[q].deleting /\ ps[q].ip \in RouterCIDR}}

Idle(w) ==
    /\ pc' = [pc EXCEPT ![w] = "get"]
    /\ item' = [item EXCEPT ![w] = NoItem]
    /\ list' = [list EXCEPT ![w] = Nothing]
    /\ listed' = [listed EXCEPT ![w] = 0]

\* Mutant of Requeue: no AddRateLimited.
RequeueDrops(w) ==
    /\ wq' = Done(wq, item[w])
    /\ Idle(w)
    /\ UNCHANGED delayed

\* AddRateLimited and the deferred Done.
Requeue(w) ==
    /\ delayed' = delayed \cup {item[w]}
    /\ wq' = Done(wq, item[w])
    /\ Idle(w)

\* Mutant of processNextWorkItem: Done is not deferred.
processNextWorkItemDoneEarly(w) ==
    /\ pc[w] = "get" /\ wq.queue # <<>>
    /\ LET i == Head(wq.queue) IN
       /\ wq' = Done(Get(wq), i)
       /\ IF i.type = "key"
          THEN item' = [item EXCEPT ![w] = i] /\ pc' = [pc EXCEPT ![w] = "pod"]
          ELSE UNCHANGED <<item, pc>>
    /\ UNCHANGED <<env, bounds, events, delayed, list, routes, listed, published>>

processNextWorkItem(w) ==
    /\ pc[w] = "get" /\ wq.queue # <<>>
    /\ LET i == Head(wq.queue) IN
       IF i.type = "key"
       THEN /\ wq' = Get(wq)
            /\ item' = [item EXCEPT ![w] = i]
            /\ pc' = [pc EXCEPT ![w] = "pod"]
       ELSE \* not a string: Forget and Done
            wq' = Done(Get(wq), i) /\ UNCHANGED <<item, pc>>
    /\ UNCHANGED <<env, bounds, events, delayed, list, routes, listed, published>>

\* sync: a pod that exists must have an address.
SyncGet(w) ==
    /\ pc[w] = "pod"
    /\ LET pod == pods[item[w].pod] IN
       IF pod # Absent /\ pod.ip = NoIP
       THEN Requeue(w)
       ELSE pc' = [pc EXCEPT ![w] = "list"] /\ UNCHANGED <<wq, delayed, item, list, listed>>
    /\ UNCHANGED <<env, bounds, events, routes, published>>

SyncList(w) ==
    /\ pc[w] = "list"
    /\ list' = [list EXCEPT ![w] = pods]
    /\ listed' = [listed EXCEPT ![w] = changes]
    /\ pc' = [pc EXCEPT ![w] = "update"]
    /\ UNCHANGED <<env, bounds, events, wq, delayed, item, routes, published>>

\* UpdateRoutes is atomic under nr.lock, but the list was read before.
UpdateRoutes(w) ==
    /\ pc[w] = "update"
    /\ routes' = parsePodsRoutes(list[w])
    /\ published' = IF listed[w] > published THEN listed[w] ELSE published
    /\ wq' = Done(wq, item[w])
    /\ Idle(w)
    /\ UNCHANGED <<env, bounds, events, delayed>>

\* routers.Update returns an error; Neutron may have carried it out or not.
UpdateRoutesFails(w) ==
    /\ pc[w] = "update"
    /\ faults + restarts < MaxFaults /\ faults' = faults + 1
    /\ routes' \in {routes, parsePodsRoutes(list[w])}
    /\ Requeue(w)
    /\ UNCHANGED <<env, restarts, events, published>>

Work(w) ==
    \/ processNextWorkItem(w)
    \/ SyncGet(w)
    \/ SyncList(w)
    \/ UpdateRoutes(w)
    \/ UpdateRoutesFails(w)

\* The controller dies and starts again (OnStoppedLeading calls os.Exit): the
\* queue is gone, and the new informer reports the pods that exist.
Restart ==
    /\ faults + restarts < MaxFaults /\ restarts' = restarts + 1
    /\ \E alive \in SetToSeqs({p \in Pods : pods[p] # Absent}) :
          events' = [i \in 1..Len(alive) |->
                        [kind |-> "add", pod |-> alive[i], annotations |-> FALSE]]
    /\ wq' = [queue |-> <<>>, dirty |-> {}, processing |-> {}]
    /\ delayed' = {}
    /\ pc' = [w \in Workers |-> "get"]
    /\ item' = [w \in Workers |-> NoItem]
    /\ list' = [w \in Workers |-> Nothing]
    /\ listed' = [w \in Workers |-> 0]
    /\ UNCHANGED <<env, faults, routes, published>>

Next ==
    \/ \E p \in Pods : Cluster(p)
    \/ Deliver
    \/ \E i \in Items : BackOffEnds(i)
    \/ \E w \in Workers : Work(w)
    \/ Restart

Spec == Init /\ [][Next]_vars

(***************************************************************************)
(* Fairness: notifications are delivered, back-offs end, workers run.      *)
(* Pods need not change and the controller need not restart.               *)
(***************************************************************************)
FairSpec ==
    /\ Spec
    /\ WF_vars(Deliver)
    /\ \A i \in Items : WF_vars(BackOffEnds(i))
    /\ \A w \in Workers : WF_vars(Work(w))

-----------------------------------------------------------------------------
\* "we are never processing the same item simultaneously in two different
\* workers" (controller.go): events, retries and restarts never put a pod into
\* the hands of two workers.
OneWorkerPerItem ==
    \A v, w \in Workers : v # w /\ item[v] # NoItem => item[v] # item[w]

\* A pod whose key sync turns down: it exists and has no address yet.
Pending(p) == pods[p] # Absent /\ pods[p].ip = NoIP

\* No change is forgotten: a pod that came up or went after the newest list on
\* the router is on its way through the informer, the queue, the back-off or a
\* worker that has not read the pods yet or has read them with the change.
NothingForgotten ==
    \A p \in Pods : version[p] > published /\ ~ Pending(p) /\ restarts = 0 =>
        \/ \E i \in 1..Len(events) : events[i].pod = p /\ events[i].kind # "update"
        \/ Key(p) \in wq.dirty \cup delayed
        \/ \E w \in Workers : item[w] = Key(p) /\ (pc[w] = "update" => listed[w] >= version[p])

\* Every change of the routes that are due (a pod gets its address, a pod with
\* an address goes) reaches the router in a list read after it, whatever fails
\* or restarts on the way, unless the pod's name is taken by a pod that has no
\* address yet; a restarted controller needs a pod with an address to start.
ChangesPublished ==
    \A p \in Pods : \A k \in 1..MaxChanges :
        version[p] = k
        ~> \/ published >= k
           \/ version[p] # k
           \/ Pending(p)
           \/ restarts > 0 /\ \A q \in Pods : pods[q] = Absent \/ Pending(q)

\* "syncHandler compares the actual state with the desired, and attempts to
\* converge the two" (controller.go): once the pods stop changing and all have
\* their addresses, the routes are those of the pods, for good.
Converges ==
    <>[](\A p \in Pods : ~ Pending(p)) => <>[](routes = parsePodsRoutes(pods))

\* "We expect strings to come off the workqueue" (controller.go).
QueueHoldsKeys == \A i \in 1..Len(wq.queue) : wq.queue[i].type = "key"

=============================================================================
