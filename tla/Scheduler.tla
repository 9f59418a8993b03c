----------------------------- MODULE Scheduler ------------------------------
(***************************************************************************)
(* The plugin Scheduling of meliodas-scheduler, pkg/scheduling: one cycle  *)
(* of the scheduling framework for one pod after the other.  Filter keeps  *)
(* the nodes whose VM has room, PreScore collects the free places of each  *)
(* in goroutines that share a channel and a CycleState, and NormalizeScore *)
(* scales the sums.  Each reads the counts of Nova anew, while plugins on  *)
(* the nodes attach and detach interfaces.                                 *)
(*                                                                         *)
(* The framework and Nova are external.                                    *)
(***************************************************************************)
EXTENDS Integers, FiniteSetsExt

CONSTANTS
    Nodes,            \* nodes of the cluster
    Servers,          \* VMs, numbered in the order in which Nova lists them
    Home,             \* Home[n]: the VM of node n
    Workers,          \* goroutines ParallelCollection may start (16 in the code)
    MAX_ENIS,         \* backend.MAX_ENIS
    MAX_IPS,          \* backend.MAX_IPS
    MaxInstanceEnis,  \* args.MaxInstanceEnis, MAX_ENIS unless configured
    MaxInstanceIps,   \* args.MaxInstanceIps, MAX_IPS unless configured
    MaxChanges,       \* bound on changes of interfaces, networks and addresses
    MaxFaults,        \* bound on failing calls of Nova
    None              \* no node, no server or no data

VMs == [enis : Nat, ips : Nat, holds : SUBSET Nodes]

ASSUME SchedulerAssumption ==
    /\ {MAX_ENIS, MAX_IPS, MaxInstanceEnis, MaxInstanceIps, MaxChanges, MaxFaults} \subseteq Nat
    /\ Servers \subseteq Nat /\ Home \in [Nodes -> Servers]
    /\ IsFiniteSet(Nodes) /\ IsFiniteSet(Workers) /\ Workers # {}
    /\ None \notin Nodes \cup Int \cup VMs

VARIABLES
    nova,       \* nova[s]: what VM s has attached, and the nodes whose address occurs in
                \* one of its addresses; None: there is no such VM any more
    pc,         \* where the scheduling cycle is
    todo,       \* nodes Filter has not been called for
    feasible,   \* nodes that have passed Filter
    toProcess,  \* the channel of ParallelCollection
    worker,     \* worker[w]: "off", "loop", "busy", or "done" after wg.Done
    job,        \* job[w]: the node it has taken from the channel
    data,       \* the CycleState: data[n], what CollectNodeIntsAndIps wrote for n
    msg,        \* some CollectNodeIntsAndIps returned an error
    drift,      \* interfaces and networks added since the cycle began
    moved,      \* since the cycle began, FindServer has changed its answer for a node
    changes, faults

cycle == <<todo, feasible>>
group == <<toProcess, worker, job, data, msg>>
env   == <<nova, drift, moved, changes>>
vars  == <<nova, pc, todo, feasible, toProcess, worker, job, data, msg, drift, moved, changes,
           faults>>

TypeOK ==
    /\ nova \in [Servers -> VMs \cup {None}]
    /\ pc \in {"idle", "filter", "preScore", "wait", "score", "divZero", "outOfRange", "nilServer"}
    /\ todo \in SUBSET Nodes /\ feasible \in SUBSET (Nodes \ todo)
    /\ toProcess \in SUBSET feasible
    /\ worker \in [Workers -> {"off", "loop", "busy", "done"}]
    /\ job \in [Workers -> Nodes \cup {None}]
    /\ \A w \in Workers : worker[w] = "busy" => job[w] \in feasible \ toProcess
    /\ data \in [Nodes -> Int \cup {None}]
    /\ msg \in BOOLEAN /\ moved \in BOOLEAN
    /\ changes \in 0..MaxChanges /\ drift \in 0..changes /\ faults \in 0..MaxFaults

\* The nodes whose address s has for good.
HomeOf(s) == {n \in Nodes : Home[n] = s}

\* No VM has more than the limits allow, whatever store its node uses, nor the
\* addresses of pods, which ChangeAddresses adds.
Init ==
    /\ nova \in [Servers -> [enis : 0..MAX_ENIS, ips : 0..MAX_IPS, holds : SUBSET Nodes]]
    /\ \A s \in Servers : nova[s].holds = HomeOf(s)
    /\ pc = "idle"
    /\ todo = {} /\ feasible = {} /\ toProcess = {}
    /\ worker = [w \in Workers |-> "off"]
    /\ job = [w \in Workers |-> None]
    /\ data = [n \in Nodes |-> None]
    /\ msg = FALSE
    /\ drift = 0 /\ moved = FALSE /\ changes = 0 /\ faults = 0

Fault == faults < MaxFaults /\ faults' = faults + 1

-----------------------------------------------------------------------------
(***************************************************************************)
(* Nova.  CountServerIntsAndEnis returns the interfaces of the server, and *)
(* as its "ips" the networks in server.Addresses.                          *)
(***************************************************************************)
Change == changes < MaxChanges /\ changes' = changes + 1

Grow(s, field) ==
    /\ nova[s] # None
    /\ Change
    /\ drift' = IF pc = "idle" THEN drift ELSE drift + 1
    /\ nova' = [nova EXCEPT ![s][field] = @ + 1]
    /\ UNCHANGED <<pc, cycle, group, moved, faults>>

Shrink(s, field) ==
    /\ nova[s] # None /\ nova[s][field] > 0
    /\ Change
    /\ nova' = [nova EXCEPT ![s][field] = @ - 1]
    /\ UNCHANGED <<pc, cycle, group, drift, moved, faults>>

\* FindServer: the first server in the list with an address that contains the
\* address of the node as a substring, which need not be the VM of the node:
\* 10.0.0.10 contains 10.0.0.1.
FindServer(n) ==
    LET found == {s \in Servers : nova[s] # None /\ n \in nova[s].holds} IN
    IF found = {} THEN None ELSE Min(found)

Moved ==
    moved' = IF pc = "idle" THEN moved
             ELSE moved \/ \E n \in Nodes : FindServer(n)' # FindServer(n)

\* Addresses come and go with the pods of the VM, and contain what they happen to.
ChangeAddresses(s) ==
    /\ nova[s] # None
    /\ Change
    /\ \E ns \in SUBSET Nodes : nova' = [nova EXCEPT ![s].holds = HomeOf(s) \cup ns]
    /\ Moved
    /\ UNCHANGED <<pc, cycle, group, drift, faults>>

\* The VM is deleted, the Node object is still there.
DeleteServer(s) ==
    /\ nova[s] # None
    /\ Fault
    /\ nova' = [nova EXCEPT ![s] = None]
    /\ Moved
    /\ UNCHANGED <<pc, cycle, group, drift, changes>>

-----------------------------------------------------------------------------
(***************************************************************************)
(* The framework starts a cycle with an empty CycleState and calls Filter  *)
(* for the nodes in parallel.  It scores only if there is a choice.        *)
(***************************************************************************)
ScheduleOne ==
    /\ pc = "idle"
    /\ pc' = "filter"
    /\ todo' = Nodes
    /\ UNCHANGED <<feasible, group, env, faults>>

\* The cycle is over: the pod is bound, or goes back to the queue.
EndCycle ==
    /\ pc' = "idle"
    /\ todo' = {} /\ feasible' = {} /\ toProcess' = {}
    /\ worker' = [w \in Workers |-> "off"]
    /\ job' = [w \in Workers |-> None]
    /\ data' = [n \in Nodes |-> None]
    /\ msg' = FALSE
    /\ drift' = 0 /\ moved' = FALSE
    /\ UNCHANGED <<nova, changes, faults>>

\* Mutant of HasRoom: off by one.
HasRoomLax(count) == count.enis <= MaxInstanceEnis /\ count.ips <= MaxInstanceIps

HasRoom(count) == count.enis < MaxInstanceEnis /\ count.ips < MaxInstanceIps

Filter(n) ==
    /\ pc = "filter" /\ n \in todo /\ FindServer(n) # None
    /\ todo' = todo \ {n}
    /\ feasible' = IF HasRoom(nova[FindServer(n)]) THEN feasible \cup {n} ELSE feasible
    /\ UNCHANGED <<pc, group, env, faults>>

\* The node has no internal IP, or Nova does not answer: unschedulable.
FilterFails(n) ==
    /\ pc = "filter" /\ n \in todo
    /\ Fault
    /\ todo' = todo \ {n}
    /\ UNCHANGED <<pc, feasible, group, env>>

\* FindServer returns nil without an error, and CountServerIntsAndEnis reads
\* the id of it: the scheduler dies.
NilServer ==
    /\ \/ pc = "filter" /\ \E n \in todo : FindServer(n) = None
       \/ pc = "wait" /\ \E w \in Workers : worker[w] = "busy" /\ FindServer(job[w]) = None
    /\ pc' = "nilServer"
    /\ UNCHANGED <<cycle, group, env, faults>>

FilterDone ==
    /\ pc = "filter" /\ todo = {}
    /\ IF Cardinality(feasible) > 1
       THEN pc' = "preScore" /\ UNCHANGED <<cycle, group, env, faults>>
       ELSE EndCycle

-----------------------------------------------------------------------------
(***************************************************************************)
(* PreScore: ParallelCollection without a context, so <-stop is never      *)
(* ready, and with 16 workers, fewer if there are fewer nodes; any smaller *)
(* number is tried here, so that workers have to take several nodes.       *)
(***************************************************************************)
PreScore ==
    /\ pc = "preScore"
    /\ pc' = "wait"
    /\ toProcess' = feasible
    /\ \E started \in (SUBSET Workers) \ {{}} :
          /\ Cardinality(started) <= Cardinality(feasible)
          /\ worker' = [w \in Workers |-> IF w \in started THEN "loop" ELSE "off"]
    /\ UNCHANGED <<cycle, job, data, msg, env, faults>>

\* Mutant of Take: a plain receive, which yields nil once the channel is closed
\* and empty.
TakeNil(w) ==
    /\ pc = "wait" /\ worker[w] = "loop"
    /\ IF toProcess = {}
       THEN job' = [job EXCEPT ![w] = None] /\ UNCHANGED toProcess
       ELSE \E n \in toProcess : job' = [job EXCEPT ![w] = n] /\ toProcess' = toProcess \ {n}
    /\ worker' = [worker EXCEPT ![w] = "busy"]
    /\ UNCHANGED <<pc, cycle, data, msg, env, faults>>

\* for node := range toProcess
Take(w) ==
    /\ pc = "wait" /\ worker[w] = "loop"
    /\ \E n \in toProcess : job' = [job EXCEPT ![w] = n] /\ toProcess' = toProcess \ {n}
    /\ worker' = [worker EXCEPT ![w] = "busy"]
    /\ UNCHANGED <<pc, cycle, data, msg, env, faults>>

\* The fields of Data are filled the other way round; only their sum is used.
Score(count) == (MAX_IPS - count.enis) + (MAX_ENIS - count.ips)

\* Nobody else writes the key of this node, so that the call of Nova and the
\* write under state.Lock are one step.
CollectNodeIntsAndIps(w) ==
    /\ pc = "wait" /\ worker[w] = "busy" /\ FindServer(job[w]) # None
    /\ data' = [data EXCEPT ![job[w]] = Score(nova[FindServer(job[w])])]
    /\ worker' = [worker EXCEPT ![w] = "loop"]
    /\ job' = [job EXCEPT ![w] = None]
    /\ UNCHANGED <<pc, cycle, toProcess, msg, env, faults>>

CollectFails(w) ==
    /\ pc = "wait" /\ worker[w] = "busy"
    /\ Fault
    /\ msg' = TRUE
    /\ worker' = [worker EXCEPT ![w] = "loop"]
    /\ job' = [job EXCEPT ![w] = None]
    /\ UNCHANGED <<pc, cycle, toProcess, data, env>>

\* Mutant of Done: the goroutine returns as it does for <-stop, without wg.Done.
DoneForgotten(w) ==
    /\ pc = "wait" /\ worker[w] = "loop" /\ toProcess = {}
    /\ worker' = [worker EXCEPT ![w] = "loop"]
    /\ UNCHANGED <<pc, cycle, toProcess, job, data, msg, env, faults>>

Done(w) ==
    /\ pc = "wait" /\ worker[w] = "loop" /\ toProcess = {}
    /\ worker' = [worker EXCEPT ![w] = "done"]
    /\ UNCHANGED <<pc, cycle, toProcess, job, data, msg, env, faults>>

\* Mutant of Wait: wg.Add(1) for all of the workers.
WaitOne ==
    /\ pc = "wait"
    /\ \E w \in Workers : worker[w] = "done"
    /\ IF msg THEN EndCycle
       ELSE pc' = "score" /\ UNCHANGED <<cycle, group, env, faults>>

\* wg.Wait.  An error from one node ends the cycle of the pod.
Wait ==
    /\ pc = "wait"
    /\ \A w \in Workers : worker[w] \in {"off", "done"}
    /\ IF msg THEN EndCycle
       ELSE pc' = "score" /\ UNCHANGED <<cycle, group, env, faults>>

-----------------------------------------------------------------------------
(***************************************************************************)
(* Score and NormalizeScore.  The highest score starts from 0 and divides  *)
(* the others; the framework refuses a negative score.                     *)
(***************************************************************************)
NormalizeScore ==
    /\ pc = "score"
    /\ IF \A n \in feasible : data[n] <= 0
       THEN pc' = "divZero" /\ UNCHANGED <<cycle, group, env, faults>>
       ELSE IF \E n \in feasible : data[n] < 0
       THEN pc' = "outOfRange" /\ UNCHANGED <<cycle, group, env, faults>>
       ELSE EndCycle

\* The framework reports the error, or the scheduler is started again.
Recover == pc \in {"divZero", "outOfRange", "nilServer"} /\ EndCycle

Plugin ==
    \/ \E n \in Nodes : Filter(n) \/ FilterFails(n)
    \/ NilServer \/ FilterDone \/ PreScore \/ Wait \/ NormalizeScore \/ Recover

Goroutine(w) == Take(w) \/ CollectNodeIntsAndIps(w) \/ CollectFails(w) \/ Done(w)

Nova ==
    \E s \in Servers :
        \/ DeleteServer(s) \/ ChangeAddresses(s)
        \/ \E field \in {"enis", "ips"} : Grow(s, field) \/ Shrink(s, field)

Next == ScheduleOne \/ Plugin \/ (\E w \in Workers : Goroutine(w)) \/ Nova

\* The Go scheduler runs every goroutine that is ready, and Nova answers.
FairSpec ==
    /\ Init /\ [][Next]_vars
    /\ WF_vars(Plugin)
    /\ \A w \in Workers : WF_vars(Goroutine(w))

-----------------------------------------------------------------------------
(***************************************************************************)
(* Properties                                                              *)
(***************************************************************************)
\* wg.Wait: when Score is called, every node that has passed Filter has its
\* data in the CycleState, however the goroutines shared the channel; score
\* would return an error for a missing key.
CollectedAll == pc = "score" => \A n \in feasible : data[n] # None

\* As long as FindServer gives each node the same VM throughout a cycle,
\* NormalizeScore divides by zero, and the framework refuses the scores, only
\* because those VMs have grown since Filter looked at them: every one of them by
\* two places, or one by three.  Several nodes may have been given one VM.
ScoresValid ==
    MaxInstanceEnis <= MAX_ENIS /\ MaxInstanceIps <= MAX_IPS /\ ~moved =>
        /\ pc = "divZero" => drift >= 2 * Cardinality({FindServer(n) : n \in feasible})
        /\ pc = "outOfRange" => drift >= 3

\* Every scheduling cycle ends: PreScore does not wait for ever for a goroutine
\* that has returned.
CycleEnds == pc # "idle" ~> pc = "idle"

=============================================================================
