----------------------------- MODULE CniPlugins -----------------------------
(***************************************************************************)
(* The plugins of one node, for networks of different types at once.       *)
(***************************************************************************)
EXTENDS HostDevice, VethRoute, VethHost

allVars == <<vars, routing>>

TypeOK == MainTypeOK /\ VethHostTypeOK

\* What only veth-host reads varies where there is a chain.
Init ==
    /\ MainInit
    /\ VethHostInit
    /\ (\A c \in Containers : plugin[c] # "chain") =>
          [ipMasq |-> ipMasq, routes |-> routes] = CHOOSE cf \in ChainConfs : TRUE

Step(c) ==
    \/ /\ \/ HostDeviceStep(c)
          \/ IpvlanStep(c)
          \/ VethRouteStep(c)
          \/ ExecAddFails(c)
          \/ ExecDelFails(c)
          \/ PrintResult(c)
       /\ UNCHANGED routing
    \/ VethHostStep(c)

Runtime(c) == (CmdAdd(c) \/ CmdDel(c) \/ Forget(c)) /\ UNCHANGED routing

Device(c) == (Plug(c) \/ Unplug(c)) /\ UNCHANGED routing

Next == \E c \in Containers :
            Runtime(c) \/ Device(c) \/ Step(c) \/ ChainSandboxDies(c) \/ ChainCrash(c)

Spec == Init /\ [][Next]_allVars

(***************************************************************************)
(* A started plugin keeps running.  The runtime repeats a DEL that is due, *)
(* kills a sandbox it is tearing down, and stops passing the path of a     *)
(* namespace that is no more.                                              *)
(***************************************************************************)
RetryDel(c) == att[c] = "torn" /\ CmdDel(c) /\ UNCHANGED routing
Reap(c)     ==
    /\ att[c] = "torn"
    /\ ChainSandboxDies(c) \/ (Forget(c) /\ UNCHANGED routing)

FairSpec ==
    /\ Spec
    /\ \A c \in Containers :
          WF_allVars(Step(c)) /\ WF_allVars(RetryDel(c)) /\ SF_allVars(Reap(c))

-----------------------------------------------------------------------------
(***************************************************************************)
(* Properties                                                              *)
(***************************************************************************)
\* A container whose ADD succeeded stays connected until its DEL or the death
\* of its sandbox, whatever is called for other containers: its interface is in
\* its namespace under args.IfName and configured, its address is reserved, and
\* for veth-route dummy0 is complete although several ADDs set it up at once; a
\* chain has its veth pair, its policy rule, masquerading and the node port rule.
UpWired ==
    \A c \in Containers : att[c] = "up" =>
        /\ where[c] = "cont" /\ name[c] = IfName /\ ipam[c] /\ sandbox[c] = "live"
        /\ "addr" \in conf[c]
        /\ plugin[c] = "veth-route" =>
              {"route", "masq"} \subseteq conf[c] /\ dummy = {"link", "up", "addr"}
        /\ plugin[c] = "chain" =>
              /\ "veth" \in conf[c] /\ rule[c] # NoTable /\ nodePort
              /\ ipMasq => "masq" \in conf[c]

\* A DEL that reported success has released the address, whatever failed or
\* died in the calls before it ("ensure to execute ipam cmdDel", host-device.go),
\* and has left no interface in the namespace but one: createIpvlan deletes
\* nothing when the renaming fails, or the plugin dies before it, and DEL looks
\* for args.IfName alone, so that the link stays under its random name.
\* Masquerading rules survive only a fault or a namespace that was gone before
\* DEL could look up the link's addresses; so do the veth pair and the policy
\* rule of veth-host, whose errors are ignored and which cleans up nothing when
\* ipMasq is off.
DelClean ==
    \A c \in Containers : att[c] = "gone" =>
        /\ ~ ipam[c]
        /\ where[c] = "cont" =>
              faults > 0 /\ plugin[c] \in {"ipvlan", "chain"} /\ name[c] = TmpName
        /\ "masq" \in conf[c] => faults > 0 \/ sandbox[c] # "live"
        /\ "veth" \in conf[c] \/ rule[c] # NoTable =>
              faults > 0 \/ sandbox[c] # "live" \/ ~ ipMasq

\* addPolicyRules may "depend on netlink atomicity to win races for table slots":
\* the routes of a connected container are all in the table its rule names, and
\* a route of another container is among them only if the two were given
\* different routes, so that they need not collide.
OwnTable ==
    \A c \in Containers : rule[c] # NoTable /\ "veth" \in conf[c] =>
        \A d \in Dsts :
            /\ d \in routes[c] => table[rule[c]][d] = c
            /\ table[rule[c]][d] \in {c, NoDev} \cup {e \in Containers : routes[e] # routes[c]}

\* moveLinkOut sets the name back when the host refuses the device, "to make
\* sure that device can be found in retries": without a fault, a device that no
\* call is working on is either on the host or named args.IfName.
RetryFinds ==
    faults = 0 =>
        \A c \in Containers : pc[c] = "idle" /\ where[c] = "cont" => name[c] = IfName

\* An ADD of ipvlan or veth-route does not fail because of an ADD for another
\* container that is setting up the same dummy0.
AddUndisturbed ==
    [][\A c \in Containers : ReleasesFirst(c) /\ att[c] = "adding" /\ att'[c] = "torn"
          => faults' > 0]_allVars

\* A DEL that the runtime keeps repeating succeeds in the end: a device lost
\* between moveLinkOut and ExecDel, or taken away by the rollback of ADD, makes
\* DEL fail only as long as the namespace lives.
DelCompletes == \A c \in Containers : att[c] = "torn" ~> att[c] = "gone"

=============================================================================
