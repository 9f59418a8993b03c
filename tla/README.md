# TLA+ models of meliodas

meliodas is a set of CNI plugins and controllers that connect Kubernetes pods to
OpenStack networks. This directory holds TLA+ modules for its core, the TLC
configurations that check them, and TLAPS proofs. `PROJECT.json` maps every
definition to the lines it models and lists runs, mutants, findings, hazards and
theorems.

## 1. The system

| Part | State | Operations | Interacts with |
|---|---|---|---|
| **tcnp-ipam** (`cmd/tcnp-ipam`, `pkg/ipam`) | none in memory: one process for each CNI call. Persistent: Neutron ports, and in the modes mix and mix-route one file `dataDir/<ip>` for each address, with the container id in it; the flock `dataDir/lock` | `cmdAdd` → `IPAllocator.Get` → `Store.Reserve`; `cmdDel` → `Release` → `Store.ReleaseByID`, in four modes (mix, mix-route, eni, separate) | called by the other plugins (`ipam.ExecAdd/ExecDel`); Neutron and Nova over HTTP; other plugin processes through the lock, the files and the port |
| **host-device, ipvlan, veth-route, veth-host** (`cmd/*`) | links, addresses, routes and rules in the host's and the container's namespace | `cmdAdd`, `cmdDel` | tcnp-ipam, netlink, iptables |
| **veth-route-controller** (`pkg/controller`, `pkg/openstack/neutron/router`) | work queue, pod cache; the static routes of a Neutron router | informer handlers `add`, `update`, `delete`; `sync`; `UpdateRoutes` | API server, Neutron; two workers |
| **network-policy-controller** (`pkg/policy`, `pkg/utils/iptables`, `pkg/utils/ipset`) | list of policies; iptables chains and ipsets of the host | periodic `Run`, policy and pod handlers | API server, iptables, ipset |
| **meliodas-scheduler** (`pkg/scheduling`, `pkg/qos`) | none between cycles; a `CycleState` within one | `Less`, `Filter`, `PreScore`, `Score`, `NormalizeScore` | kube-scheduler framework, Nova |

What is hard in it, and what makes it correct:

* *tcnp-ipam*: concurrent processes that read, change and write back one list;
  crashes and failing calls between the write to Neutron and the write to disk;
  calls that fail after they have taken effect; DELs that are repeated. Correct
  means: an address in use stays on the port and belongs to one container, limits
  hold, nothing is lost without a fault, and a repeated DEL succeeds.
* *main plugins*: several resources set up in sequence, with roll-back in some of
  the error paths; a repeated DEL must get past what is already gone.
* *veth-route-controller*: events, back-offs, failures and restarts in any order;
  two workers that write the whole route table. Correct means: no change is
  forgotten, and the routes converge.
* *network-policy-controller*: a periodic synchronisation that runs beside event
  handlers over the same chains and sets.
* *scheduler*: counts that are read anew in each phase while the VMs change, a wait
  group, and a division whose divisor may be zero.

## 2. Modules

| Module | Models | Extends |
|---|---|---|
| `Ipam` | abstract: addresses granted to containers, addresses plumbed | |
| `HostPort` | what mix and mix-route share: runtime, lock, files, fixed IPs of the host port | |
| `MixStore` | `mix_store.go` | `HostPort` |
| `MixRouteStore` | `mix_route_store.go` | `HostPort` |
| `MixStore_proofs` | theorems about `MixStore` | `MixStore`, TLAPS |
| `MixStore_faults_proofs` | theorems about what faults cost in `MixStore` | `MixStore_proofs` |
| `StoreModes` | the choice between mix and mix-route, and fair scheduling over both | `MixStore`, instance of `MixRouteStore` |
| `StoreModes_proofs` | theorems about both modes | `StoreModes`, `MixStore_faults_proofs` |
| `NamedPort` | what eni and separate share: one Neutron port for each container, named after it | |
| `EniStore` | `eni_store.go` | `NamedPort` |
| `SeparateStore` | `separate_store.go` | `NamedPort` |
| `StoreFactory` | the choice of the mode, over both | `EniStore`, instance of `SeparateStore` |
| `RouteController` | `controller.go`, `router.go`, restarts from `main.go` | |
| `MainPlugin` | what the main plugins share: runtime, kernel, links, calls of the IPAM plugin | |
| `HostDevice` | `host-device.go` | `MainPlugin` |
| `Ipvlan` | `ipvlan.go` | `MainPlugin` |
| `VethRoute` | `veth-route.go` | `Ipvlan`, whose release it shares |
| `VethHost` | `veth-host.go`, chained after ipvlan | `Ipvlan` |
| `CniPlugins` | containers on networks of all four kinds on one node | `HostDevice`, `VethRoute`, `VethHost` |
| `Netfilter` | `iptables.go`, `ipset.go` and what the kernel makes of their commands | |
| `NetworkPolicy` | `policy.go`, `event.go` | `Netfilter` |
| `Scheduler` | `scheduling.go`, `parallel.go`, the counts from `neutron/utils.go` | |
| `StoreFactory_proofs`, `RouteController_proofs`, `CniPlugins_proofs`, `NetworkPolicy_proofs`, `Scheduler_proofs` | theorems about the module of the name | that module, TLAPS |
| `MC*` | instances for TLC | |

Definitions named as mutants (`LockIgnored`, `ReleaseGetStrict`, ...) are variants of
the definition after them with one plausible bug. Replacing the definition by its
mutant makes the property that `PROJECT.json` names fail; they are used nowhere
else.

### The IPAM stores

A plugin process is a slot of `Procs` with a control point `pc[p]`. One action is
one call to Neutron, Nova, the file system or the lock, with what the code does up
to the next one; so every place where another process can run, or this one can die,
is a state. `HostPort`: `port` is the union of the fixed IPs of all host ports
(subnets are disjoint), `files[a]` the content of `dataDir/a`, `seen[p]` the list a
process works from. In `MixStore` it is read under the lock (`CheckRoom`,
`ReleaseGet`), in `MixRouteStore` `removePort` uses the one from
`NewMixRouteStore`. `NamedPort`: `ports[q]` is the name of port q; the name is the
only record of the allocation. `SeparateStore` has no lock, because a mutex in a
process that handles one call excludes nobody.

*External parts.* Neutron answers from its state; `ports.Update` replaces the list;
a list entry without an address gets any free one, or is
refused because the ports of other machines use up the subnet. Nova refuses to attach a port
that is attached. The runtime runs one call for a container at a time, deletes
after a failed ADD, repeats a DEL until it succeeds and may send a DEL for
something already deleted; `EniStore` is also given ADDs repeated without a DEL,
because `Reserve` looks for the port first. A request of a process that dies takes
effect before the next process reads, or never.

*Faults*, at most `MaxFaults`: a process dies at any point; a call fails without
effect; a call fails after it took effect (`AddFixedIPLost`, `ReleaseUpdateLost`,
`CreatePortLost`, ...); a file cannot be read and is skipped (`WalkFilesSkips`).
`flock` itself does not fail: `IPAllocator` does not look at the error of `Lock`,
and on a local file there is none.

### The route controller

The informer is a cache (`pods`) and an ordered stream of `events`; the work queue
is client-go's (`queue`, `dirty`, `processing`), with a set of items that wait for
their back-off. A worker gets an item, looks up the pod, lists all pods and updates
the router: four steps, between which everything else can happen. `version`,
`listed` and `published` are history variables that number changes and lists. The
resync of the informer is no action: `update` ignores equal annotations.

### The main plugins

A call is identified by its container, and one action is one call to netlink,
iptables or the IPAM plugin. `where`, `name` and `alias` say where the interface of
the container is and what it is called; `conf` what has been set up for it; `dummy`
what has been done to the one `dummy0` of the host; `ipam` whether the IPAM plugin
keeps an address (for host-device: a port, so that the device comes with it and goes
with it, some time later). The stores above are one step here, which may fail and
keep the address all the same. The kernel moves a device back to the host when its
namespace ends, under any free name, and deletes virtual links with the namespace.
A sandbox is live, dead (the runtime still passes its path) or gone (it passes
none): the plugins treat these three cases differently. host-device finds its device
by MAC address, as its `cmdAdd` always does; networks have an IPAM plugin, and
veth-route networks have `ipMasq` set.

The fourth kind of network is a chain: ipvlan, whose result becomes the prevResult of
veth-host. `VethHost` adds the routing tables of the host (`table[t][d]` is the
container whose veth the route to d in table t leads to), the policy rules, and the
node port rule that all chains share. An ADD picks any table that no rule names, adds
its routes one by one in the order of their destinations, and only then the rule; a
refused route sends it to another table and leaves the routes it has added. cmdDel of
a chain runs veth-host first, which ignores its errors, and then ipvlan. Two settings
of the network make a difference and are constants: `ipMasq`, without which cmdDel of
veth-host does nothing, and the routes that each container is given.

### The network policy controller

`Netfilter` is the part of the kernel that the controller changes: the basic chains
with the rules that lead to them (`basic`), the chains of policies and pods, the rules
that jump to a pod's chain, and the ipsets. An operator is one command of the two
wrappers. `iptables-restore` does everything or nothing, and the kernel refuses to
delete a chain that is referred to or not empty, to destroy a set that a rule matches,
and to refer to what is not there.

Three goroutines (`Threads`) of `NetworkPolicy` work on it and on p.policies: the two
informer handlers and `Run`. `plan[t]` holds the phases of a call that are left. A
list of policies is made in one step and stored in another; `syncRules` copies
p.policies and lists the sets, creates and lists each set, fills it, saves the chains
and restores them, with the deferred destruction of sets: each a step. The chain of a
pod is restored and then jumped to, or its rule is deleted, the chain flushed and then
deleted. A command that adds or deletes several entries of one set is one step. A
policy is reduced to the pods it selects, one chain and one ipset, for one direction;
the ports and peers of a policy change entries of further sets in the same way. The
goroutines that `syncPods` starts work on different chains and are run one after the
other in any order. A pod object lives once. The lister is ahead of the handlers, as
informers are.

### The scheduler

`Scheduler` runs one cycle of the scheduling framework after the other. `nova[s]` is
what VM s has attached, and the set of nodes whose address occurs in one of its
addresses; the counts grow and shrink and addresses come and go at any time, and the VM
may be deleted. `FindServer` takes the first VM of Nova's list (VMs are numbered in its
order) that has the address of the node in one of its own: it looks for a substring, so
that 10.0.0.1 is found in 10.0.0.10, two nodes may be given one VM, and a node whose VM
is gone another one. Only the VM of a node (`Home`) is sure to have its address. A new
VM is not modelled: to `FindServer` it is a VM whose addresses change. The two
requests of `CountServerIntsAndEnis`, for the list and for the interfaces, are one
step. The eni store uses `FindServer` too, once and for its own machine; `EniStore`
takes it to find that machine. `moved` is a history variable: `FindServer` has changed
its answer for some node during the cycle. `Filter` is called for every node, `PreScore` starts goroutines that take
nodes from a closed channel and write what they count into the CycleState, `Wait` is
the wait group, and `NormalizeScore` stands for `Score` of every node and the
normalisation. The outcomes that go wrong are control points of their own: `divZero`,
`outOfRange` (the framework refuses a negative score) and `nilServer` (a panic).
`Recover` ends the cycle after each of them, so that `CycleEnds` does not exclude a
panic. The
framework (a fresh CycleState for each pod, scoring only if two nodes are left) and
Nova are external. `ParallelCollection` is called without a context, so that its
branch for `<-stop`, which returns without `wg.Done`, cannot be taken; the mutant
`DoneForgotten` shows what it would do.

## 3. Runs

| Run | Instance | Checks |
|---|---|---|
| `MixStore_safety` | 3 processes, 3 containers, 3 addresses + host, `MAX_IPS` 3, 2 faults, symmetry | all invariants of `HostPort`, `ReleaseOnlyOwn`, refinement of `Ipam` |
| `StoreModes_check` | both modes, 2 processes, 2 containers, 2 addresses + host, `MAX_IPS` 4 (the limit is never reached), 1 fault | `LeaseRecorded`, `ReleaseClears`, `EveryCallReturns`, `DelSettles` |
| `MixStore_two_networks` | 1 container on 2 networks, no fault | **violated**: `ReleaseClears` |
| `MixRouteStore_lost_update` | 2 processes, 2 containers, 2 addresses + host, no fault | **violated**: `ReleaseOnlyOwn` |
| `StoreFactory_check` | 2 processes, 2 containers, 2 ports, `MAX_ENIS` 1, 2 faults, both modes | `OnePortEach`, `NoOrphanPorts`, `LeaseNamed`, `LeaseAttached`, `EnisBounded`, `EniDelSucceeds` |
| `StoreFactory_separate` | 1 process, 1 container, 1 fault | **violated**: `SeparateDelSucceeds` |
| `RouteController_check` | 2 workers, 2 pods, an address inside and one outside the router's subnet, 4 changes, 1 fault or restart | `OneWorkerPerItem`, `NothingForgotten`, `ChangesPublished` |
| `RouteController_two_workers` | 2 workers, 2 pods, no fault | **violated**: `Converges` |
| `CniPlugins_check` | 2 containers on networks of every two kinds, 2 names for devices of the host, 2 tables, 2 destinations, 3 settings of the chain, 2 tries, 1 fault | `UpWired`, `DelClean`, `RetryFinds`, `OwnTable`, `AddUndisturbed`, `DelCompletes` |
| `NetworkPolicy_check` | 2 policies for 1 pod, 6 beginnings (the pod absent, without an address or running; no, one or both policies), 2 changes of the cluster, or 1 change and 1 fault | `PodsConverge`, `SetsConverge` |
| `NetworkPolicy_replace` | 2 policies for 1 pod, 2 changes, no fault, symmetry | **violated**: `NeverBlocked` |
| `Scheduler_check` | 2 nodes, 2 VMs, up to 2 goroutines, `MAX_ENIS` and `MAX_IPS` 1, 4 changes of the VMs, 1 fault | `CollectedAll`, `ScoresValid`, `CycleEnds` |

*Bounds.* The interesting cases of the stores need two processes at once, one
container that runs while another comes or goes, a third to use an address that
became free, and two faults (the second in the repeated DEL); a port that is full
and a subnet that is empty. The controller needs a whole life of a pod (created,
address, terminating, gone) and a second pod whose key is processed meanwhile.
The main plugins meet in `dummy0` and in the names of the host's devices, for which
two containers and two names are enough. For the tables of veth-host one needs two
containers whose routes are the same, and two whose routes overlap, and a table for
each; two tries stand for the ten of the code, so that an ADD that gives up happens.
The scheduler needs two nodes to choose from and changes enough to fill the VMs of both
after they passed `Filter`, or to give both nodes one VM and fill that. In
`NetworkPolicy_check` two policies select the pod, so that one can replace the other; a
pod that gets its address while a policy is created lets the pod handler write a chain
that `Run` flushes. Any two changes of policies but the removal of both meet while the
pod runs, so does each of them and the removal of the pod, and the address of a new pod meets the creation of a
policy; a policy is not updated or removed in the same behaviour in which a pod gets its
address, and a fault comes with one change only. Larger bounds take TLC too long.
Counters (`faults`, `changes`, `restarts`) are bounded in the guards by constants.

*Fairness.* A started process goes on (`WF` of its steps); a process that waits in
flock gets the lock if it is free again and again (`SF` of `Lock`; the kernel's
queue is first come, first served); the runtime repeats a DEL that is due (kubelet
does). The runtime kills a sandbox that it is tearing down and then stops passing its path
(`SF` of `Reap`, because a call for the container interrupts it). For the policy
controller only `Run` has to go on (`wait.Until`, every three minutes): the handlers
may be late for ever. The scheduler's goroutines run and Nova answers (`WF`), while nothing is assumed
of the VMs. Informer notifications are delivered to the route controller, back-offs end and workers run. Nothing
is assumed of ADDs, of changes of pods, of faults or restarts. Deadlock is checked
for the stores; the controller may really stop, when no pod changes any more.

What the properties show:

* The mix mode is right under crashes and failures: a running container keeps its
  address, nobody else gets it. A fault costs at most one address for good
  (`LeaksBounded`): the error paths of `Reserve` after `ports.Update` do not give the
  address back, and no DEL can find it. A file blocks its address for good only
  after two faults (`RecordBacked`).
* The mix-route mode does not keep the promise of `Ipam`: a DEL can take the address
  of a container that was added meanwhile off the port. `LeaseRecorded` still holds:
  the file (`O_EXCL`) keeps the address from being given to a second container.
  A repeated DEL succeeds in both modes, except for the containers that `DelSettles` names:
  in mix-route a DEL that died after `ports.Update` can never succeed (`removePort`
  returns an error for an address that is not on the port). So can a DEL whose address
  another one took off the port with its stale list, for which nothing needs to fail.
* eni and separate never leave a port behind after a DEL that succeeded. The limit
  of interfaces can be exceeded by one for each fault, when an ADD is repeated. In
  the separate mode a DEL for a port that is gone panics.
* The controller forgets no change, but with two workers an older list can be
  written over a newer one; and `update` queues an object, which the worker drops.
* The main plugins leave no address behind after a DEL that succeeded, and one kind of
  interface only: when `RenameLink` fails, or the plugin dies before it, `createIpvlan`
  leaves the link under its random name, where no DEL looks for it (`DelClean`); it goes
  with the namespace. A host-device DEL that moved the device out and then failed in the IPAM
  plugin cannot succeed while the namespace lives, because the repeated DEL looks for
  the device there; it succeeds after the sandbox is gone (`DelCompletes` needs
  `Reap`). Masquerading rules of veth-route stay when the namespace is gone first.
* veth-host finds the rule and the veth pair of a container only through its namespace
  and only with `ipMasq`: `DelClean` says when they stay. A rule that stays keeps its
  table out of use. Racing ADDs with the same routes get a table each (`OwnTable`): the
  kernel refuses the second at the first route. With different routes they need not
  collide at once, and a route of one can stay in the table of the other. Two first
  ADDs may both try to add the node port rule; the second then fails for no reason of
  its own, which is why `AddUndisturbed` does not speak of chains; no property forbids it.
* The policy controller converges from every interleaving of its goroutines, by `Run`
  alone, with one exception that `PodsConverge` names (`Blocked`). A policy that replaces
  another one for the same pod before the handlers run is never installed: each of the
  two restores waits for the other (`NetworkPolicy_replace`).
* The scheduler scores no node without data. As long as `FindServer` gives each node the
  same VM, `NormalizeScore` divides by zero only if every VM that it gave has grown by
  two places since `Filter`, and hands a negative score to the framework only if one has
  grown by three (`ScoresValid`). Nodes that were given one VM fill up together, by two
  places in all. There is no such guarantee if `FindServer` gives a node another VM in
  `PreScore` than in `Filter`, or if the limits are configured above `MAX_ENIS` and
  `MAX_IPS`.

## 4. Proofs

Every invariant and every action property that a run checks is also a theorem, and so
is the refinement: TLC shows it on the instance of the run, TLAPS for all values of
the constants that satisfy the assumption of the module (any number of processes,
containers, addresses, nodes, faults, ...).

| Module | Theorems |
|---|---|
| `MixStore_proofs` | `TypeCorrect`; `LeaseOnPortHolds`, `LeaseRecordedHolds`: an address in use is on its port, and its file names the container; `PortBoundedHolds`: never more than `MAX_IPS` fixed IPs, never without the host's; `ReleaseOnlyOwnHolds`: a release takes only its container's address off; `Implements`: `MixStore` implements `Ipam` |
| `MixStore_faults_proofs` | `LeaksBoundedHolds`, `RecordsBoundedHolds`, `RecordBackedHolds`: what a fault costs; `ReleaseClearsHolds` |
| `StoreModes_proofs` | `LeaseRecordedInBoth`, `ReleaseClearsInBoth`: what mix-route keeps as well |
| `StoreFactory_proofs` | `TypeCorrect`, `OnePortEachHolds`, `NoOrphanPortsHolds`, `LeaseNamedHolds`, `LeaseAttachedHolds`, `EnisBoundedHolds` |
| `RouteController_proofs` | `TypeCorrect`, `OneWorkerPerItemHolds`, `NothingForgottenHolds` |
| `CniPlugins_proofs` | `TypeCorrect`, `UpWiredHolds`, `DelCleanHolds`, `RetryFindsHolds`, `AddUndisturbedHolds`, `OwnTableHolds` |
| `NetworkPolicy_proofs` | `TypeCorrect` |
| `Scheduler_proofs` | `TypeCorrect`, `CollectedAllHolds`, `ScoresValidHolds` |

*Assumptions.* Apart from the shape of the constants: the value that stands for
"nothing" is none of the real ones (`None`, `Blank`); there are finitely many pods
(`RouteController`) and policies (`NetworkPolicy`), because the informers deliver one
event for each at the start. `LeaksBounded`, `RecordBacked` and `ReleaseClears` are
proved under `OneNetwork`: with two networks they are false, because a DEL takes the
first file with the id of the container whatever network its address is from (the run
`MixStore_two_networks`). `RecordsBounded` and everything else hold for any networks.

The arguments, and why the properties are not inductive by themselves:

* `MixStore`: `LeaseOnPort` alone is not inductive, because `ports.Update` writes back
  a list that was read earlier; one has to know that nobody changed the port in
  between. Hence the parts of `IInv`: `Control` (the process at a locked control point
  is the one that holds the lock; one call for a container; a container being deleted
  is not up), `Data` (`SeenFresh`: the list that the lock holder is about to write
  back is the list on the port; `Progress`: what the file of its address holds at each
  control point; `HostUnrecorded`: no file has the host's address) and `Leases` (the
  two properties). `BoundInv` adds, for `PortBounded`, that the port still has room
  between the check and the update. TLC has checked `IInv` and `BoundInv` as
  invariants on the instance of `MixStore_safety`.
* *What faults cost.* A step adds an address of nobody only with a fault (`LeakInv`). A
  container has no more files than networks and faults, and one fewer while its ADD
  has yet to write its file (`RecordInv`). `RecordBacked` is a matter of accounts
  (`PaidInv`): each file off the port is worth two, each other file one; the faults, one
  credit for each container that may have a file, and one for the removal in progress
  pay for them. A file moves off the port only in a release, and what remains to be
  paid when that release dies is the fault it died of.
* *Both modes.* Every step of mix-route is one of mix or one of four (`RouteSteps`);
  the files depend on the lock and on `O_EXCL` only (`FileInv`). For `ReleaseClears`,
  `CleanInv`: without a fault a container has one file at most, which has the address
  of its lease, and none before ADD wrote it; and `ListsInv`: what is written back is of
  the subnet. So the walk finds the address, and it is cut out of the list even if that is
  stale.
* `StoreFactory`: the name of a port is the only record. `PortInv` says at which control
  points there is no port of the name (`NoPortNow`) and that the port in hand has it
  (`PortInHand`); the lock is needed for the eni mode only (`AttachInv`), and
  `EnisBounded` counts named ports that are neither attached nor about to be: each
  was left by a fault.
* `RouteController`: `QueueOK` is the contract of client-go's queue (a queued item is
  dirty, is queued once and is not processed). The change that
  gives a waiting pod its address is an update, which queues nothing that the worker
  keeps; so `NothingForgotten` needs that the key of a pod without an address is never
  lost either, from the add event on (`PendingTracked`).
* `CniPlugins`: what a control point has set up for its container (`Local`) is kept by
  the container's own steps, and by those of others for one reason (`OthersKeep`): they
  share only things that grow. The exception is the routing tables. For `OwnTable`, a
  route in a table implies the first route of the same container in it (`FirstOwned`),
  which is why two containers with the same routes never share one.
* `NetworkPolicy`: that what is written has the right type depends on the copies that a
  goroutine made before (`SetsHeld`, `FillHeld`, `PodNamed`, `EventKept`).
* `Scheduler`: no feasible node gets lost between the channel, a goroutine and the
  CycleState (`NoneLost`), and a channel that is not empty is served
  (`ChannelServed`). For `ScoresValid`, while no answer of `FindServer` has changed, each
  place by which a VM grew during the cycle is charged to that VM, and no place to two
  (`DriftAccounted`); the VMs found for the feasible nodes, not the nodes, are counted.

Only model-checked: what must eventually happen (`EveryCallReturns`, `DelSettles`,
`EniDelSucceeds`, `ChangesPublished`, `DelCompletes`, `PodsConverge`, `SetsConverge`,
`CycleEnds`), which needs fairness and `ENABLED`, and is out of reach of the provers.

## 5. Not modelled, and the plan

Next, in this order:

1. A safety invariant of the policy controller, with its proof: whatever stale copies of
   p.policies and of pod objects its goroutines work from, a set holds only addresses of
   pods that its policy selects, and the chain of a pod jumps only to policies that
   select it.
2. The peers of a policy: sets that several policies fill, and `syncIngressInIPSet`,
   which reads `policy.ingressRule` even if `policyTypes` names only Egress.
3. Pods that come back under the same name, in the policy controller.

Left out because they hold no state and meet no other actor: the two orderings of the
scheduling queue (`Less` in `scheduling.go`, whose second key is made with the name of
the first pod, and in `queue_sort.go`), and the ranges of the IPAM configuration, which
are parsed and used by no store. A host-device network without an IPAM plugin is left
out because its ADD always ends in `printLink` of a nil link.

Left out for good: configuration parsing, credentials and HTTP clients, formatting of
results, leader election (client-go), signal handling, the
command lines that the iptables and ipset wrappers put together, their detection of
versions and the reload after a restart of firewalld.
