----------------------------- MODULE MainPlugin -----------------------------
(***************************************************************************)
(* What the CNI plugins host-device, ipvlan, veth-route and veth-host      *)
(* share: the container runtime that calls them, the kernel whose links    *)
(* they create, move and rename, and the IPAM plugin the main plugins run  *)
(* as a child process.                                                     *)
(*                                                                         *)
(* The runtime makes one call at a time for a container, so a call is      *)
(* identified by its container; calls for different containers interleave. *)
(* The IPAM plugin is tcnp-ipam: its own steps are the subject of MixStore,*)
(* MixRouteStore and StoreFactory, and one execution of it is one step     *)
(* here.                                                                   *)
(***************************************************************************)
EXTENDS Naturals

CONSTANTS
    Containers,  \* sandbox ids, each used for one ADD
    HostNames,   \* names the kernel gives to interfaces of the host
    IfName,      \* args.IfName
    TmpName,     \* the name RandomVethName returns
    NoName,      \* no link, or no alias
    MaxFaults    \* bound on crashes and failing calls in one behaviour

ASSUME PluginAssumption ==
    /\ MaxFaults \in Nat
    /\ IfName # TmpName
    /\ {IfName, TmpName, NoName} \cap HostNames = {}
    /\ NoName \notin {IfName, TmpName}

VARIABLES
    plugin,   \* plugin[c]: the main plugin of the network c is added to, or
              \*            "chain", ipvlan followed by veth-host
    pc,       \* pc[c]: where the call for c is
    att,      \* att[c]: what the runtime knows about c
    sandbox,  \* sandbox[c]: "live"; "dead", the path args.Netns leads nowhere;
              \*             "gone", the runtime passes the empty args.Netns
    ipam,     \* ipam[c]: the IPAM plugin keeps an address (a port) for c
    where,    \* where[c]: namespace of c's interface: "none", "host" or "cont"
    name,     \* name[c]: name of that interface
    alias,    \* alias[c]: its alias
    conf,     \* conf[c]: addresses, host route, masquerading and the veth pair of
              \*          veth-host set up for c
    dummy,    \* what has been done to dummy0 of the host
    faults    \* faults so far

link == <<where, name, alias>>
rest == <<plugin, faults>>
vars == <<plugin, pc, att, sandbox, ipam, where, name, alias, conf, dummy, faults>>

Kinds  == {"host-device", "ipvlan", "veth-route", "chain"}
Adding == {"execAdd", "getLink", "moveIn", "setName", "rollback", "linkAdd", "rename",
           "dummyAdd", "dummyUp", "addrList", "addrAdd", "setupVeth", "hostVeth",
           "masq", "configure", "print", "contVeth", "findTable", "addRoute", "chainMasq",
           "ruleList", "ruleAdd", "pass"}
Deleting == {"delStart", "lookup", "restore", "moveOut", "execDel", "delLink", "unmasq",
             "chainDel", "chainUnmasq", "ruleDel", "vethDel"}

MainTypeOK ==
    /\ plugin \in [Containers -> Kinds]
    /\ pc \in [Containers -> Adding \cup Deleting \cup {"idle"}]
    /\ att \in [Containers -> {"new", "adding", "up", "torn", "gone"}]
    /\ sandbox \in [Containers -> {"live", "dead", "gone"}]
    /\ ipam \in [Containers -> BOOLEAN]
    /\ where \in [Containers -> {"none", "host", "cont"}]
    /\ name \in [Containers -> HostNames \cup {IfName, TmpName, NoName}]
    /\ \A c \in Containers : where[c] = "host" => name[c] \in HostNames
    /\ alias \in [Containers -> HostNames \cup {NoName}]
    /\ conf \in [Containers -> SUBSET {"addr", "route", "masq", "veth"}]
    /\ dummy \in SUBSET {"link", "up", "addr"}
    /\ faults \in 0..MaxFaults

\* Containers of a chain have nothing in common with those of other networks,
\* so that they are looked at by themselves.
MainInit ==
    /\ \/ plugin \in [Containers -> Kinds \ {"chain"}]
       \/ plugin = [c \in Containers |-> "chain"]
    /\ pc = [c \in Containers |-> "idle"]
    /\ att = [c \in Containers |-> "new"]
    /\ sandbox = [c \in Containers |-> "live"]
    /\ ipam = [c \in Containers |-> FALSE]
    /\ where = [c \in Containers |-> "none"]
    /\ name = [c \in Containers |-> NoName]
    /\ alias = [c \in Containers |-> NoName]
    /\ conf = [c \in Containers |-> {}]
    /\ dummy = {}
    /\ faults = 0

Goto(c, l) == pc' = [pc EXCEPT ![c] = l]

\* A call of the kernel, of Neutron or of the IPAM plugin fails.
Fault == faults < MaxFaults /\ faults' = faults + 1

-----------------------------------------------------------------------------
(***************************************************************************)
(* The container runtime.  It deletes after a failed ADD, and repeats a    *)
(* DEL until it succeeds; a DEL may be repeated after that too.            *)
(***************************************************************************)
CmdAdd(c) ==
    /\ pc[c] = "idle" /\ att[c] = "new"
    /\ att' = [att EXCEPT ![c] = "adding"]
    /\ Goto(c, IF plugin[c] \in {"ipvlan", "chain"} THEN "linkAdd" ELSE "execAdd")
    /\ UNCHANGED <<sandbox, ipam, link, conf, dummy, rest>>

CmdDel(c) ==
    /\ pc[c] = "idle" /\ att[c] \in {"up", "torn", "gone"}
    /\ att' = [att EXCEPT ![c] = IF @ = "gone" THEN @ ELSE "torn"]
    /\ Goto(c, CASE plugin[c] = "host-device" -> "delStart"
                 [] plugin[c] = "chain"       -> "chainDel"
                 [] OTHER                     -> "execDel")
    /\ UNCHANGED <<sandbox, ipam, link, conf, dummy, rest>>

\* The call returns an error: a DEL is due.
Fails(c) ==
    /\ Goto(c, "idle")
    /\ att' = [att EXCEPT ![c] = IF @ = "gone" THEN @ ELSE "torn"]

\* A DEL returns success.
Deleted(c) ==
    /\ Goto(c, "idle")
    /\ att' = [att EXCEPT ![c] = "gone"]

\* types.PrintResult of the last plugin.
PrintResult(c) ==
    /\ pc[c] = IF plugin[c] = "chain" THEN "pass" ELSE "print"
    /\ Goto(c, "idle")
    /\ att' = [att EXCEPT ![c] = "up"]
    /\ UNCHANGED <<sandbox, ipam, link, conf, dummy, rest>>

\* The plugin process dies.
Crash(c) ==
    /\ pc[c] # "idle"
    /\ Fault
    /\ Fails(c)
    /\ UNCHANGED <<plugin, sandbox, ipam, link, conf, dummy>>

\* A runtime keeps the path of a namespace for a while after the last process
\* in it is gone, and passes no path after that.
Forget(c) ==
    /\ pc[c] = "idle" /\ sandbox[c] = "dead"
    /\ sandbox' = [sandbox EXCEPT ![c] = "gone"]
    /\ UNCHANGED <<pc, att, ipam, link, conf, dummy, rest>>

-----------------------------------------------------------------------------
(***************************************************************************)
(* The kernel.  A device of the host carries a name no other device of the *)
(* host has.                                                               *)
(***************************************************************************)
FreeNames(c) ==
    HostNames \ {name[d] : d \in {d \in Containers \ {c} : where[d] = "host"}}

\* The interface of c is deleted; kept is what does not go with it.
LinkGone(c, kept) ==
    /\ where' = [where EXCEPT ![c] = "none"]
    /\ name' = [name EXCEPT ![c] = NoName]
    /\ alias' = [alias EXCEPT ![c] = NoName]
    /\ conf' = [conf EXCEPT ![c] = @ \cap kept]

\* The last process in the namespace exits.  The kernel gives a device back to
\* the host, under a new name, and deletes virtual links with the namespace.
SandboxDies(c) ==
    /\ pc[c] = "idle" /\ sandbox[c] = "live" /\ att[c] \in {"up", "torn", "gone"}
    /\ sandbox' = [sandbox EXCEPT ![c] = "dead"]
    /\ att' = [att EXCEPT ![c] = IF @ = "gone" THEN @ ELSE "torn"]
    /\ IF where[c] = "cont" /\ plugin[c] = "host-device"
       THEN \E n \in FreeNames(c) :
               /\ where' = [where EXCEPT ![c] = "host"]
               /\ name' = [name EXCEPT ![c] = n]
               /\ conf' = [conf EXCEPT ![c] = {}]
               /\ UNCHANGED alias
       ELSE IF plugin[c] = "host-device" THEN UNCHANGED <<link, conf>>
       ELSE LinkGone(c, {"masq"})
    /\ UNCHANGED <<pc, ipam, dummy, rest>>

-----------------------------------------------------------------------------
(***************************************************************************)
(* ipam.ExecAdd, ipam.ExecDel and ipam.ConfigureIface.                     *)
(***************************************************************************)
ExecAdd(c, next) ==
    /\ pc[c] = "execAdd"
    /\ ipam' = [ipam EXCEPT ![c] = TRUE]
    /\ Goto(c, next)
    /\ UNCHANGED <<att, sandbox, link, conf, dummy, rest>>

\* The IPAM plugin reports an error; it may have kept an address all the same.
ExecAddFails(c) ==
    /\ pc[c] = "execAdd"
    /\ Fault
    /\ \E kept \in BOOLEAN : ipam' = [ipam EXCEPT ![c] = kept]
    /\ Fails(c)
    /\ UNCHANGED <<plugin, sandbox, link, conf, dummy>>

\* An ExecDel that reports an error may have released the address.
ExecDelFails(c) ==
    /\ pc[c] = "execDel"
    /\ Fault
    /\ \E released \in BOOLEAN : ipam' = [ipam EXCEPT ![c] = @ /\ ~ released]
    /\ Fails(c)
    /\ UNCHANGED <<plugin, sandbox, link, conf, dummy>>

ConfigureIface(c, next) ==
    /\ pc[c] = "configure"
    /\ conf' = [conf EXCEPT ![c] = @ \cup {"addr"}]
    /\ Goto(c, next)
    /\ UNCHANGED <<att, sandbox, ipam, link, dummy, rest>>

\* A step of the call that has no other effect fails, and the call with it.
StepFails(c, labels) ==
    /\ pc[c] \in labels
    /\ Fault
    /\ Fails(c)
    /\ UNCHANGED <<plugin, sandbox, ipam, link, conf, dummy>>

=============================================================================
