--------------------------- MODULE NetworkPolicy ----------------------------
(***************************************************************************)
(* The network policy controller of one node, pkg/policy.  Three           *)
(* goroutines share the policies in memory, the ipsets and the iptables    *)
(* chains: the handler of policy events, the handler of pod events and the *)
(* periodic Run.  Only the assignment to p.policies is under the mutex.    *)
(*                                                                         *)
(* A policy is reduced to the pods it selects: one chain GLX-PLCY, one     *)
(* ipset for all of its tables, and one of GLX-INGRESS and GLX-EGRESS.     *)
(***************************************************************************)
EXTENDS Netfilter, Sequences, FiniteSets

CONSTANTS
    Selects,     \* Selects[n]: pods in the namespace of n that match its selector
    Starts,      \* what the cluster may be like when the controller is started, and
                 \* how much of the two bounds is then used up
    MaxChanges,  \* bound on changes of policies and pods in the cluster
    MaxFaults    \* bound on failing commands

ASSUME PolicyAssumption ==
    /\ IsFiniteSet(Policies)
    /\ Selects \in [Policies -> SUBSET Pods]
    /\ MaxChanges \in Nat /\ MaxFaults \in Nat
    /\ Starts \subseteq [nps : SUBSET Policies, pods : [Pods -> {"none", "noip", "ip"}],
                         changes : 0..MaxChanges, faults : 0..MaxFaults]

VARIABLES
    nps,        \* the network policies of the cluster, as policyLister lists them
    pods,       \* pods[a]: "none", "noip" (no PodIP yet), "ip" or "gone"
    started,    \* the pod informer has been started
    npEvents,   \* policy events the handler has not seen yet
    podEvents,  \* pod events the handler has not finished
    policies,   \* p.policies: for each policy in it, the pods in its tables
    pc,         \* pc[t]: where goroutine t is
    plan,       \* plan[t]: the phases it still has to go through
    held,       \* held[t]: its copy of p.policies
    old,        \* old[t]: what ListSets returned
    left,       \* left[t]: sets createIPSet has not come to yet
    seen,       \* seen[t]: the set it is at, and what ListEntries returned
    saved,      \* saved[t]: policy chains iptables-save found
    todo,       \* todo[t]: pod objects it still has to sync
    pod,        \* pod[t]: name of the pod it works on
    want,       \* want[t]: policies that match this pod
    changes, faults

cluster == <<nps, pods, changes>>
syncing == <<held, old, left, seen, saved>>
local   == <<held, old, left, seen, saved, todo, pod, want>>
vars == <<nps, pods, changes, started, npEvents, podEvents, policies, pc, plan, held, old,
          left, seen, saved, todo, pod, want, basic, plcyChain, podChain, jump, ipset, faults>>

Threads == {"policy", "pod", "run"}
Phases  == {"rules", "pods", "addIP", "delIP"}
Tables  == [Policies -> {Nothing} \cup SUBSET Pods]

TypeOK ==
    /\ nps \in SUBSET Policies
    /\ pods \in [Pods -> {"none", "noip", "ip", "gone"}]
    /\ started \in BOOLEAN
    /\ npEvents \in Seq({"add", "update", "delete"})
    /\ podEvents \in Seq({"update", "delete"} \X Pods \X {"noip", "ip"})
    /\ policies \in Tables
    /\ pc \in [Threads -> Phases \cup {"idle", "list", "store", "create", "fill", "save",
                 "restore", "sync", "podRestore", "ensure", "unjump", "flush", "delete"}]
    /\ plan \in [Threads -> Seq(Phases)]
    /\ held \in [Threads -> Tables]
    /\ old \in [Threads -> SUBSET Policies]
    /\ todo \in [Threads -> SUBSET (Pods \X {"noip", "ip"})]
    /\ pod \in [Threads -> Pods \cup {Nothing}]
    /\ want \in [Threads -> SUBSET Policies]
    /\ left \in [Threads -> SUBSET Policies]
    /\ seen \in [Threads -> {Nothing} \cup (Policies \X SUBSET Pods)]
    /\ saved \in [Threads -> SUBSET Policies]
    /\ NetfilterTypeOK
    /\ changes \in 0..MaxChanges /\ faults \in 0..MaxFaults

NoTables == [n \in Policies |-> Nothing]

\* The cluster may have pods and policies when the controller is started; the
\* informer announces each of the policies.
Init ==
    /\ \E start \in Starts :
          /\ nps = start.nps /\ pods = start.pods
          /\ changes = start.changes /\ faults = start.faults
    /\ npEvents = [i \in 1..Cardinality(nps) |-> "add"]
    /\ started = FALSE /\ podEvents = <<>>
    /\ policies = NoTables
    /\ pc = [t \in Threads |-> "idle"]
    /\ plan = [t \in Threads |-> <<>>]
    /\ held = [t \in Threads |-> NoTables]
    /\ old = [t \in Threads |-> {}]
    /\ todo = [t \in Threads |-> {}]
    /\ pod = [t \in Threads |-> Nothing]
    /\ want = [t \in Threads |-> {}]
    /\ left = [t \in Threads |-> {}]
    /\ seen = [t \in Threads |-> Nothing]
    /\ saved = [t \in Threads |-> {}]
    /\ NetfilterInit

Goto(t, l) == pc' = [pc EXCEPT ![t] = l]

\* On to the next phase, or back to waiting.
Advance(t) ==
    IF plan[t] = <<>> THEN Goto(t, "idle") /\ UNCHANGED plan
    ELSE Goto(t, Head(plan[t])) /\ plan' = [plan EXCEPT ![t] = Tail(@)]

\* On to the next pod, or the next phase after the last one.
NextPod(t) ==
    /\ pod' = [pod EXCEPT ![t] = Nothing]
    /\ want' = [want EXCEPT ![t] = {}]
    /\ IF todo[t] = {} THEN Advance(t) ELSE Goto(t, "sync") /\ UNCHANGED plan

Matching(a, tables) == {n \in Policies : tables[n] # Nothing /\ a \in Selects[n]}

-----------------------------------------------------------------------------
(***************************************************************************)
(* The cluster.  An informer updates its lister first and calls the        *)
(* handler later.                                                          *)
(***************************************************************************)
Change == changes < MaxChanges /\ changes' = changes + 1

PodEvent(e, a, status) ==
    podEvents' = IF started THEN Append(podEvents, <<e, a, status>>) ELSE podEvents

CreatePolicy(n) ==
    /\ Change /\ n \notin nps
    /\ nps' = nps \cup {n}
    /\ npEvents' = Append(npEvents, "add")
    /\ UNCHANGED <<pods, started, podEvents, policies, pc, plan, local, kernel, faults>>

RemovePolicy(n) ==
    /\ Change /\ n \in nps
    /\ nps' = nps \ {n}
    /\ npEvents' = Append(npEvents, "delete")
    /\ UNCHANGED <<pods, started, podEvents, policies, pc, plan, local, kernel, faults>>

\* The rules inside the chain of n change, not the pods it selects.
UpdatePolicy(n) ==
    /\ Change /\ n \in nps
    /\ npEvents' = Append(npEvents, "update")
    /\ UNCHANGED <<nps, pods, started, podEvents, policies, pc, plan, local, kernel, faults>>

\* A pod object lives once.  AddPod does nothing, so there is no event for it.
CreatePod(a) ==
    /\ Change /\ pods[a] = "none"
    /\ pods' = [pods EXCEPT ![a] = "noip"]
    /\ UNCHANGED <<nps, started, npEvents, podEvents, policies, pc, plan, local, kernel, faults>>

AssignIP(a) ==
    /\ Change /\ pods[a] = "noip"
    /\ pods' = [pods EXCEPT ![a] = "ip"]
    /\ PodEvent("update", a, "ip")
    /\ UNCHANGED <<nps, started, npEvents, policies, pc, plan, local, kernel, faults>>

RemovePod(a) ==
    /\ Change /\ pods[a] \in {"noip", "ip"}
    /\ pods' = [pods EXCEPT ![a] = "gone"]
    /\ PodEvent("delete", a, pods[a])
    /\ UNCHANGED <<nps, started, npEvents, policies, pc, plan, local, kernel, faults>>

-----------------------------------------------------------------------------
(***************************************************************************)
(* What starts a goroutine on its way.                                     *)
(***************************************************************************)
\* Mutant of Run: the chains of the pods are left to the handlers.
RunRules ==
    /\ pc["run"] = "idle"
    /\ Goto("run", "list")
    /\ plan' = [plan EXCEPT !["run"] = <<"rules">>]
    /\ UNCHANGED <<cluster, started, npEvents, podEvents, policies, local, kernel, faults>>

Run ==
    /\ pc["run"] = "idle"
    /\ Goto("run", "list")
    /\ plan' = [plan EXCEPT !["run"] = <<"rules", "pods">>]
    /\ UNCHANGED <<cluster, started, npEvents, podEvents, policies, local, kernel, faults>>

\* AddPolicy starts the pod informer; it and UpdatePolicy sync the rules first,
\* DeletePolicy the pods.
PolicyHandler ==
    /\ pc["policy"] = "idle" /\ npEvents # <<>>
    /\ npEvents' = Tail(npEvents)
    /\ Goto("policy", "list")
    /\ plan' = [plan EXCEPT !["policy"] =
                   IF Head(npEvents) = "delete" THEN <<"pods", "rules">> ELSE <<"rules", "pods">>]
    /\ started' = (started \/ Head(npEvents) = "add")
    /\ UNCHANGED <<cluster, podEvents, policies, local, kernel, faults>>

\* UpdatePod: SyncPodChains, then the entry in the ipsets; an update that is
\* modelled brings the PodIP.
UpdatePod ==
    /\ pc["pod"] = "idle" /\ podEvents # <<>> /\ Head(podEvents)[1] = "update"
    /\ todo' = [todo EXCEPT !["pod"] = {<<Head(podEvents)[2], Head(podEvents)[3]>>}]
    /\ plan' = [plan EXCEPT !["pod"] = <<"addIP">>]
    /\ Goto("pod", "sync")
    /\ UNCHANGED <<cluster, started, npEvents, podEvents, policies, syncing, pod, want, kernel,
                   faults>>

\* DeletePod: deletePodChains, then the entry in the ipsets.
DeletePod ==
    /\ pc["pod"] = "idle" /\ podEvents # <<>> /\ Head(podEvents)[1] = "delete"
    /\ pod' = [pod EXCEPT !["pod"] = Head(podEvents)[2]]
    /\ plan' = [plan EXCEPT !["pod"] = <<"delIP">>]
    /\ Goto("pod", "unjump")
    /\ UNCHANGED <<cluster, started, npEvents, podEvents, policies, syncing, todo, want, kernel,
                   faults>>

-----------------------------------------------------------------------------
(***************************************************************************)
(* syncNetworkPolices: the tables are filled from the pod lister, the      *)
(* result becomes p.policies some time later.                              *)
(***************************************************************************)
podSelectorToTable(n) == {a \in Selects[n] : pods[a] = "ip"}

policyResult(n) == IF n \in nps THEN podSelectorToTable(n) ELSE Nothing

ListPolicies(t) ==
    /\ pc[t] = "list"
    /\ held' = [held EXCEPT ![t] = [n \in Policies |-> policyResult(n)]]
    /\ started' = (started \/ nps # {})
    /\ Goto(t, "store")
    /\ UNCHANGED <<cluster, npEvents, podEvents, policies, plan, old, left, seen, saved, todo, pod,
                   want, kernel, faults>>

StorePolicies(t) ==
    /\ pc[t] = "store"
    /\ policies' = held[t]
    /\ held' = [held EXCEPT ![t] = NoTables]
    /\ Advance(t)
    /\ UNCHANGED <<cluster, started, npEvents, podEvents, old, left, seen, saved, todo, pod, want,
                   kernel, faults>>

-----------------------------------------------------------------------------
(***************************************************************************)
(* syncNetworkPolicyRules                                                  *)
(***************************************************************************)
Held(tables) == {n \in Policies : tables[n] # Nothing}

Progress(t, l) ==
    /\ Goto(t, l)
    /\ UNCHANGED <<cluster, started, npEvents, podEvents, policies, plan, todo, pod, want, faults>>

\* The copy of p.policies and ListSets.
SyncRules(t) ==
    /\ pc[t] = "rules"
    /\ held' = [held EXCEPT ![t] = policies]
    /\ old' = [old EXCEPT ![t] = ListSets]
    /\ left' = [left EXCEPT ![t] = Held(policies)]
    /\ Progress(t, IF Held(policies) = {} THEN "save" ELSE "create")
    /\ UNCHANGED <<seen, saved, kernel>>

\* createIPSet goes through the sets in any order: the set is created, ...
CreateIPSet(t) ==
    /\ pc[t] = "create"
    /\ \E n \in left[t] :
          /\ ipset' = CreateSet(ipset, n)
          /\ seen' = [seen EXCEPT ![t] = <<n, ListEntries(n)>>]
          /\ left' = [left EXCEPT ![t] = @ \ {n}]
    /\ Progress(t, "fill")
    /\ UNCHANGED <<held, old, saved, basic, plcyChain, podChain, jump>>

\* Mutant of FillIPSet: stale entries stay.
FillIPSetAdds(t) ==
    LET n == seen[t][1] IN
    /\ pc[t] = "fill"
    /\ ipset' = AddEntry(ipset, n, held[t][n] \ seen[t][2])
    /\ seen' = [seen EXCEPT ![t] = Nothing]
    /\ Progress(t, IF left[t] = {} THEN "save" ELSE "create")
    /\ UNCHANGED <<held, old, left, saved, basic, plcyChain, podChain, jump>>

\* ... entries ListEntries did not show are added, stale ones it did are deleted.
FillIPSet(t) ==
    LET n == seen[t][1] IN
    /\ pc[t] = "fill"
    /\ ipset' = DelEntry(AddEntry(ipset, n, held[t][n] \ seen[t][2]), n, seen[t][2] \ held[t][n])
    /\ seen' = [seen EXCEPT ![t] = Nothing]
    /\ Progress(t, IF left[t] = {} THEN "save" ELSE "create")
    /\ UNCHANGED <<held, old, left, saved, basic, plcyChain, podChain, jump>>

\* syncIptables: existingChains.
SaveChains(t) ==
    /\ pc[t] = "save"
    /\ saved' = [saved EXCEPT ![t] = SaveInto]
    /\ Progress(t, "restore")
    /\ UNCHANGED <<held, old, left, seen, kernel>>

\* The local variables of syncRules.
Forget(t) ==
    /\ held' = [held EXCEPT ![t] = NoTables]
    /\ old' = [old EXCEPT ![t] = {}]
    /\ left' = [left EXCEPT ![t] = {}]
    /\ seen' = [seen EXCEPT ![t] = Nothing]
    /\ saved' = [saved EXCEPT ![t] = {}]

\* The deferred function of syncRules destroys the sets of policies that are no
\* more, unless a chain refers to them; it runs after a failed restore too.
CleanUpSets(t, chains) == ipset' = DestroySet(ipset, old[t] \ Held(held[t]), chains)

\* writeRules and writeChains: the chains of the policies are written, other
\* chains that existed are deleted, in one restore.
RestoreChains(t) ==
    LET chains == Restored(Held(held[t]), saved[t] \ Held(held[t])) IN
    /\ pc[t] = "restore"
    /\ plcyChain' = chains
    /\ CleanUpSets(t, chains)
    /\ Forget(t)
    /\ Advance(t)
    /\ UNCHANGED <<cluster, started, npEvents, podEvents, policies, todo, pod, want, basic,
                   podChain, jump, faults>>

-----------------------------------------------------------------------------
(***************************************************************************)
(* syncPods and SyncPodChains.  The goroutines syncPods starts change      *)
(* different chains, so one after the other, in any order, stands for all  *)
(* of them.                                                                *)
(***************************************************************************)
\* Mutant of SyncPods: pods that were deleted are listed too.
SyncPodsAll(t) ==
    /\ pc[t] = "pods"
    /\ todo' = [todo EXCEPT ![t] = {<<a, pods[a]>> : a \in Pods}]
    /\ Goto(t, "sync")
    /\ UNCHANGED <<cluster, started, npEvents, podEvents, policies, plan, syncing, pod, want,
                   kernel, faults>>

SyncPods(t) ==
    LET list == {a \in Pods : pods[a] \in {"noip", "ip"}} IN
    /\ pc[t] = "pods"
    /\ todo' = [todo EXCEPT ![t] = {<<a, pods[a]>> : a \in list}]
    /\ IF list = {} THEN Advance(t) ELSE Goto(t, "sync") /\ UNCHANGED plan
    /\ UNCHANGED <<cluster, started, npEvents, podEvents, policies, syncing, pod, want, kernel,
                   faults>>

\* A matching pod without a PodIP: nothing to do yet.
SyncPodSkipped(t) ==
    /\ pc[t] = "sync"
    /\ \E obj \in todo[t] :
          /\ obj[2] = "noip" /\ Matching(obj[1], policies) # {}
          /\ todo' = [todo EXCEPT ![t] = @ \ {obj}]
          /\ IF todo[t] = {obj} THEN Advance(t) ELSE UNCHANGED <<pc, plan>>
    /\ UNCHANGED <<cluster, started, npEvents, podEvents, policies, syncing, pod, want, kernel,
                   faults>>

\* The copy of p.policies and filterMatchingPolicies decide what to do.
SyncPodChains(t) ==
    /\ pc[t] = "sync"
    /\ \E obj \in todo[t] :
          LET matching == Matching(obj[1], policies) IN
          /\ matching # {} => obj[2] = "ip"
          /\ todo' = [todo EXCEPT ![t] = @ \ {obj}]
          /\ pod' = [pod EXCEPT ![t] = obj[1]]
          /\ want' = [want EXCEPT ![t] = matching]
          /\ Goto(t, IF matching = {} THEN "unjump" ELSE "podRestore")
    /\ UNCHANGED <<cluster, started, npEvents, podEvents, policies, plan, syncing, kernel, faults>>

\* After ensureBasicChain the pod chain is written in one restore, which fails
\* unless all policy chains are there.
RestorePodChain(t) ==
    /\ pc[t] = "podRestore"
    /\ EnsureChain
    /\ RestorePod(pod[t], want[t])
    /\ want' = [want EXCEPT ![t] = {}]
    /\ Goto(t, "ensure")
    /\ UNCHANGED <<cluster, started, npEvents, podEvents, policies, plan, syncing, todo, pod,
                   plcyChain, jump, ipset, faults>>

RestorePodChainFails(t) ==
    /\ pc[t] = "podRestore"
    /\ EnsureChain
    /\ ~ want[t] \subseteq plcyChain
    /\ NextPod(t)
    /\ UNCHANGED <<cluster, started, npEvents, podEvents, policies, syncing, todo, plcyChain,
                   podChain, jump, ipset, faults>>

\* "this should be added after creating pod chain"; it fails if the chain has
\* been deleted meanwhile.
AddPodRule(t) ==
    /\ pc[t] = "ensure"
    /\ EnsureRule(pod[t])
    /\ NextPod(t)
    /\ UNCHANGED <<cluster, started, npEvents, podEvents, policies, syncing, todo, basic, plcyChain,
                   podChain, ipset, faults>>

\* deletePodChains: the rules that jump to the chain go first.
DeletePodRule(t) ==
    /\ pc[t] = "unjump"
    /\ DeleteRule(pod[t])
    /\ Goto(t, "flush")
    /\ UNCHANGED <<cluster, started, npEvents, podEvents, policies, plan, local, basic, plcyChain,
                   podChain, ipset, faults>>

\* It is done if there is no chain to flush.
FlushPodChain(t) ==
    /\ pc[t] = "flush"
    /\ FlushChain(pod[t])
    /\ IF podChain[pod[t]] = Nothing THEN NextPod(t)
       ELSE Goto(t, "delete") /\ UNCHANGED <<plan, pod, want>>
    /\ UNCHANGED <<cluster, started, npEvents, podEvents, policies, syncing, todo, basic, plcyChain,
                   jump, ipset, faults>>

\* The kernel keeps the chain if it has been written, or a rule jumps to it,
\* again.
DeletePodChain(t) ==
    /\ pc[t] = "delete"
    /\ DeleteChain(pod[t])
    /\ NextPod(t)
    /\ UNCHANGED <<cluster, started, npEvents, podEvents, policies, syncing, todo, basic, plcyChain,
                   jump, ipset, faults>>

\* SyncPodIPInIPSet: the entry is added to, or deleted from, the set of every
\* policy in memory that matches; a set that is not there is only a warning.
\* It is the last thing the handler does.
SyncPodIPInIPSet ==
    LET a       == Head(podEvents)[2]
        entry   == IF Head(podEvents)[3] = "ip" THEN {a} ELSE {}
        targets == Matching(a, policies) IN
    /\ pc["pod"] \in {"addIP", "delIP"}
    /\ ipset' = [n \in Policies |->
                    CASE n \notin targets   -> ipset[n]
                      [] pc["pod"] = "addIP" -> AddEntry(ipset, n, entry)[n]
                      [] OTHER               -> DelEntry(ipset, n, entry)[n]]
    /\ podEvents' = Tail(podEvents)
    /\ Goto("pod", "idle")
    /\ UNCHANGED <<cluster, started, npEvents, policies, plan, local, basic, plcyChain, podChain,
                   jump, faults>>

\* ListSets, CreateSet, iptables-save or iptables-restore fails while the rules
\* of the policies are synced; the deferred function runs after createIPSet only.
SyncRulesFails(t) ==
    /\ faults < MaxFaults /\ faults' = faults + 1
    /\ \/ pc[t] \in {"rules", "create"} /\ UNCHANGED ipset
       \/ pc[t] \in {"save", "restore"} /\ CleanUpSets(t, plcyChain)
    /\ Forget(t)
    /\ Advance(t)
    /\ UNCHANGED <<cluster, started, npEvents, podEvents, policies, todo, pod, want, basic,
                   plcyChain, podChain, jump>>

\* ListEntries or a change of the entries fails: only a warning.
FillIPSetFails(t) ==
    /\ pc[t] = "fill"
    /\ faults < MaxFaults /\ faults' = faults + 1
    /\ seen' = [seen EXCEPT ![t] = Nothing]
    /\ Goto(t, IF left[t] = {} THEN "save" ELSE "create")
    /\ UNCHANGED <<cluster, started, npEvents, podEvents, policies, plan, held, old, left, saved,
                   todo, pod, want, kernel>>

\* A command for the chain of a pod fails: an error before its rule is ensured,
\* only a warning while it is deleted.
SyncPodFails(t) ==
    /\ faults < MaxFaults /\ faults' = faults + 1
    /\ \/ pc[t] \in {"podRestore", "ensure", "delete"} /\ NextPod(t)
       \/ pc[t] = "unjump" /\ Goto(t, "flush") /\ UNCHANGED <<plan, pod, want>>
       \/ pc[t] = "flush" /\ Goto(t, "delete") /\ UNCHANGED <<plan, pod, want>>
    /\ UNCHANGED <<cluster, started, npEvents, podEvents, policies, syncing, todo, kernel>>

-----------------------------------------------------------------------------
ClusterChanges ==
    \/ \E n \in Policies : CreatePolicy(n) \/ UpdatePolicy(n) \/ RemovePolicy(n)
    \/ \E a \in Pods : CreatePod(a) \/ AssignIP(a) \/ RemovePod(a)

Step(t) ==
    \/ ListPolicies(t) \/ StorePolicies(t)
    \/ SyncRules(t) \/ CreateIPSet(t) \/ FillIPSet(t) \/ SaveChains(t) \/ RestoreChains(t)
    \/ SyncPods(t) \/ SyncPodSkipped(t) \/ SyncPodChains(t)
    \/ RestorePodChain(t) \/ RestorePodChainFails(t) \/ AddPodRule(t)
    \/ DeletePodRule(t) \/ FlushPodChain(t) \/ DeletePodChain(t)
    \/ SyncRulesFails(t) \/ FillIPSetFails(t) \/ SyncPodFails(t)

Next ==
    \/ ClusterChanges
    \/ Run \/ PolicyHandler \/ UpdatePod \/ DeletePod \/ SyncPodIPInIPSet
    \/ \E t \in Threads : Step(t)

Spec == Init /\ [][Next]_vars

\* wait.Until calls Run again and again.  Nothing is assumed of the handlers: an
\* informer may be late with its events for ever.
FairSpec ==
    /\ Spec
    /\ WF_vars(Run \/ Step("run"))

-----------------------------------------------------------------------------
(***************************************************************************)
(* Properties                                                              *)
(***************************************************************************)
Selecting(a) == {n \in nps : a \in Selects[n]}

\* The chain of a policy that selects a cannot be written, because the chain of
\* some pod jumps to a deleted policy, whose chain the same restore deletes.
Blocked(a) ==
    /\ ~ (Selecting(a) \subseteq plcyChain)
    /\ \E b \in Pods : podChain[b] # Nothing /\ podChain[b] \cap (plcyChain \ nps) # {}

\* "SyncPodChains ensures GLX-INGRESS/GLX-EGRESS/GLX-POD-XXXX iptable chains are
\* expected" (policy.go): once the cluster stops changing, traffic to a pod is
\* filtered by exactly the policies that select it, unless one of them is new and
\* Blocked by a deleted one, and traffic to a pod that none selects is not
\* filtered; whatever order the three goroutines ran in and whatever stale copy of
\* the policies one of them stored.
PodsConverge ==
    <>[] \A a \in Pods :
            /\ pods[a] = "ip" /\ Selecting(a) # {}
                  => (basic /\ a \in jump /\ podChain[a] = Selecting(a)) \/ Blocked(a)
            /\ pods[a] \in {"noip", "ip"} /\ Selecting(a) = {} => a \notin jump

\* "syncRules ensures ... ipsets including their entries are expected": once the
\* cluster stops changing, the set of a policy holds the addresses of the pods
\* it selects and no other, although UpdatePod and DeletePod change entries
\* while createIPSet is at work from an older list.
SetsConverge ==
    <>[] \A n \in nps : ipset[n] = {a \in Selects[n] : pods[a] = "ip"}

\* "syncRules ensures ... GLX-PLCY-XXXX iptables chain are expected" (policy.go):
\* when every event has been handled, no pod is left whose chain cannot be
\* written because the chain of a new policy is missing, while that one cannot
\* be written because the chain of the pod still jumps to a deleted policy.
NeverBlocked ==
    npEvents = <<>> /\ podEvents = <<>> /\ (\A t \in Threads : pc[t] = "idle") =>
        \A a \in Pods :
            pods[a] = "ip" /\ podChain[a] # Nothing =>
                \/ Selecting(a) \subseteq plcyChain
                \/ podChain[a] \cap (plcyChain \ nps) = {}

=============================================================================
