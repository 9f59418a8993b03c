-------------------------- MODULE CniPlugins_proofs --------------------------
(***************************************************************************)
(* TLAPS proofs about CniPlugins, for any number of containers, devices,   *)
(* tables and faults.                                                      *)
(*                                                                         *)
(* A call for one container touches the state of that container and three  *)
(* things that only grow (dummy0, the node port rule, the number of        *)
(* faults); so what holds of a container by itself (Local) is kept by its  *)
(* own steps, one by one, and by the steps of others for a single reason   *)
(* (OthersKeep).  Only the routing tables are shared otherwise; they are   *)
(* the subject of the last part.                                           *)
(***************************************************************************)
EXTENDS CniPlugins, TLAPS

\* The control points of cmdAdd and cmdDel of each plugin.
AddLabels(k) ==
    IF k = "host-device"
    THEN {"execAdd", "getLink", "moveIn", "setName", "configure", "print", "rollback"}
    ELSE IF k = "veth-route"
    THEN {"execAdd", "dummyAdd", "dummyUp", "addrList", "addrAdd", "setupVeth", "configure",
          "hostVeth", "masq", "print"}
    ELSE IF k = "ipvlan" THEN {"linkAdd", "rename", "execAdd", "configure", "print"}
    ELSE {"linkAdd", "rename", "execAdd", "configure", "print", "contVeth", "findTable",
          "addRoute", "chainMasq", "ruleList", "ruleAdd", "pass"}

DelLabels(k) ==
    IF k = "host-device" THEN {"delStart", "lookup", "restore", "moveOut", "execDel"}
    ELSE IF k = "veth-route" THEN {"execDel", "delLink", "unmasq"}
    ELSE IF k = "ipvlan" THEN {"execDel", "delLink"}
    ELSE {"chainDel", "chainUnmasq", "ruleDel", "vethDel", "execDel", "delLink"}

\* Where the call is and what the runtime knows go together, and the namespace
\* lives at least until the container is up.
Phase(c) ==
    /\ \/ pc[c] \in AddLabels(plugin[c]) /\ att[c] = "adding"
       \/ pc[c] \in DelLabels(plugin[c]) /\ att[c] \in {"torn", "gone"}
       \/ pc[c] = "idle" /\ att[c] \in {"new", "up", "torn", "gone"}
    /\ att[c] \in {"new", "adding", "up"} => sandbox[c] = "live"
    /\ sandbox[c] # "live" => where[c] # "cont"

\* The call has come to one of these control points, or is over.
At(c, labels) == att[c] = "up" \/ pc[c] \in labels

HostDeviceWired(c) ==
    plugin[c] = "host-device" =>
        /\ conf[c] \subseteq {"addr"}
        /\ att[c] = "new" \/ pc[c] \in {"execAdd", "getLink"} => where[c] # "cont"
        /\ At(c, {"getLink", "moveIn", "setName", "configure", "print"}) => ipam[c]
        /\ pc[c] = "moveIn" => where[c] = "host"
        /\ pc[c] = "setName" => where[c] = "cont" /\ name[c] \in HostNames
        /\ At(c, {"configure", "print"}) => where[c] = "cont" /\ name[c] = IfName
        /\ At(c, {"print"}) => "addr" \in conf[c]
        /\ pc[c] \in {"restore", "moveOut"} => where[c] = "cont" \/ (where[c] = "none" /\ ~ ipam[c])
        /\ pc[c] = "execDel" \/ att[c] = "gone" => where[c] # "cont"

VethRouteWired(c) ==
    plugin[c] = "veth-route" =>
        /\ conf[c] \subseteq {"addr", "route", "masq"}
        /\ where[c] = "cont" => name[c] = IfName
        /\ At(c, AddLabels("veth-route") \ {"execAdd"}) => ipam[c]
        /\ At(c, AddLabels("veth-route") \ {"execAdd", "dummyAdd"}) => "link" \in dummy
        /\ At(c, AddLabels("veth-route") \ {"execAdd", "dummyAdd", "dummyUp"}) => "up" \in dummy
        /\ At(c, {"setupVeth", "configure", "hostVeth", "masq", "print"}) => "addr" \in dummy
        /\ At(c, {"configure", "hostVeth", "masq", "print"}) => where[c] = "cont" /\ name[c] = IfName
        /\ At(c, {"hostVeth", "masq", "print"}) => "addr" \in conf[c]
        /\ At(c, {"masq", "print"}) => "route" \in conf[c]
        /\ At(c, {"print"}) => "masq" \in conf[c]

Chained == {"contVeth", "findTable", "addRoute", "chainMasq", "ruleList", "ruleAdd", "pass"}

IpvlanWired(c) ==
    plugin[c] \in {"ipvlan", "chain"} =>
        /\ plugin[c] = "ipvlan" => conf[c] \subseteq {"addr"}
        /\ where[c] = "cont" => name[c] \in {IfName, TmpName}
        /\ At(c, {"rename", "execAdd", "configure", "print"} \cup Chained) => where[c] = "cont"
        /\ At(c, {"execAdd", "configure", "print"} \cup Chained) => name[c] = IfName
        /\ At(c, {"configure", "print"} \cup Chained) => ipam[c]
        /\ At(c, {"print"} \cup Chained) => "addr" \in conf[c]

ChainWired(c) ==
    IF plugin[c] = "chain"
    THEN /\ At(c, Chained \ {"contVeth"}) => "veth" \in conf[c]
         /\ At(c, {"chainMasq", "ruleList", "ruleAdd", "pass"}) => rule[c] # NoTable
         /\ At(c, {"ruleList", "ruleAdd", "pass"}) /\ ipMasq => "masq" \in conf[c]
         /\ At(c, {"pass"}) => nodePort
         /\ pc[c] = "chainMasq" => ipMasq
         /\ pc[c] \in AddLabels("ipvlan") \cup {"contVeth", "findTable", "addRoute"} \/ att[c] = "new"
              => rule[c] = NoTable
         /\ pc[c] \in AddLabels("ipvlan") \/ att[c] = "new" => conf[c] \subseteq {"addr"}
    ELSE rule[c] = NoTable /\ "veth" \notin conf[c]

\* What DEL has done before it reports success.
Released(c) ==
    /\ pc[c] \in {"delLink", "unmasq"} \/ att[c] = "gone" => ~ ipam[c]
    /\ pc[c] = "unmasq" => where[c] = "none"
    /\ att[c] = "gone" => ~ (where[c] = "cont" /\ name[c] = IfName)

\* As long as nothing has failed and the namespace lives, whatever is left of
\* a container can be found from the address of args.IfName.
Traces(c) ==
    faults = 0 /\ sandbox[c] = "live" =>
        /\ plugin[c] = "veth-route" /\ "masq" \in conf[c] =>
              ("addr" \in conf[c] \/ pc[c] = "unmasq") /\ att[c] # "gone"
        /\ plugin[c] = "chain" /\ "masq" \in conf[c] =>
              /\ ipMasq /\ name[c] = IfName /\ "addr" \in conf[c] /\ att[c] # "gone"
              /\ pc[c] \notin {"ruleDel", "vethDel", "execDel", "delLink"}
        /\ plugin[c] = "chain" /\ ipMasq /\ ("veth" \in conf[c] \/ rule[c] # NoTable) =>
              /\ name[c] = IfName /\ "addr" \in conf[c] /\ att[c] # "gone"
              /\ pc[c] \notin {"execDel", "delLink"}
        /\ plugin[c] = "chain" /\ ipMasq /\ rule[c] # NoTable =>
              "veth" \in conf[c] /\ pc[c] # "vethDel"

\* A device is in the namespace under another name only inside of a call.
Named(c) ==
    faults = 0 /\ where[c] = "cont" /\ name[c] # IfName => pc[c] \in {"setName", "rename", "moveOut"}

Local(c) ==
    /\ Phase(c)
    /\ HostDeviceWired(c) /\ VethRouteWired(c) /\ IpvlanWired(c) /\ ChainWired(c)
    /\ Released(c) /\ Traces(c) /\ Named(c)

-----------------------------------------------------------------------------
(***************************************************************************)
(* Types                                                                   *)
(***************************************************************************)
CallTypes ==
    /\ plugin \in [Containers -> Kinds]
    /\ pc \in [Containers -> Adding \cup Deleting \cup {"idle"}]
    /\ att \in [Containers -> {"new", "adding", "up", "torn", "gone"}]
    /\ sandbox \in [Containers -> {"live", "dead", "gone"}]
    /\ ipam \in [Containers -> BOOLEAN]
    /\ dummy \in SUBSET {"link", "up", "addr"}
    /\ faults \in 0..MaxFaults

LinkTypes ==
    /\ where \in [Containers -> {"none", "host", "cont"}]
    /\ name \in [Containers -> HostNames \cup {IfName, TmpName, NoName}]
    /\ alias \in [Containers -> HostNames \cup {NoName}]
    /\ conf \in [Containers -> SUBSET {"addr", "route", "masq", "veth"}]

RoutingTypes ==
    /\ [ipMasq |-> ipMasq, routes |-> routes] \in ChainConfs
    /\ ipMasq \in BOOLEAN /\ routes \in [Containers -> SUBSET Dsts]
    /\ table \in [Tables -> [Dsts -> Containers \cup {NoDev}]]
    /\ nodePort \in BOOLEAN
    /\ rule \in [Containers -> Tables \cup {NoTable}]
    /\ slot \in [Containers -> Tables \cup {NoTable}]
    /\ left \in [Containers -> SUBSET Dsts]
    /\ tries \in [Containers -> 0..MaxTries]

Types == CallTypes /\ LinkTypes /\ RoutingTypes

\* The types of what a step of c may change about c.
TypesAt(c) ==
    /\ where[c] = "host" => name[c] \in HostNames
    /\ pc[c] = "addRoute" => slot[c] \in Tables
    /\ left[c] \subseteq routes[c]

\* A step for c changes nothing about other containers, and what containers
\* share only grows.
Only(c) ==
    /\ \A d \in Containers \ {c} :
          /\ pc'[d] = pc[d] /\ att'[d] = att[d] /\ sandbox'[d] = sandbox[d] /\ ipam'[d] = ipam[d]
          /\ where'[d] = where[d] /\ name'[d] = name[d] /\ conf'[d] = conf[d] /\ rule'[d] = rule[d]
          /\ slot'[d] = slot[d] /\ left'[d] = left[d]
    /\ UNCHANGED <<plugin, ipMasq, routes>>
    /\ dummy \subseteq dummy' /\ faults <= faults' /\ (nodePort => nodePort')

\* host-device: types, and nothing about other containers changes.
LEMMA HostDeviceTypes ==
  ASSUME Types, NEW c \in Containers, TypesAt(c), Local(c), HostDeviceStep(c), UNCHANGED routing
  PROVE  Types' /\ Only(c)
<1> USE DEF Types, CallTypes, LinkTypes, RoutingTypes, Only, Goto, Fails, Deleted, Fault,
   link, rest, routing
<1>0. plugin[c] = "host-device"
  BY DEF HostDeviceStep, IsHostDevice
<1>1. CASE ExecAdd(c, "getLink")
  BY <1>0, <1>1 DEF ExecAdd, Adding, Deleting
<1>2. CASE GetLink(c)
  BY <1>0, <1>2 DEF GetLink, Adding, Deleting
<1>3. CASE MoveLinkIn(c)
  BY <1>0, <1>3 DEF MoveLinkIn, Adding, Deleting
<1>4. CASE SetName(c)
  <2>1. name[c] \in HostNames
    BY <1>0, <1>4 DEF SetName, Local, HostDeviceWired
  <2> QED
    BY <1>4, <2>1 DEF SetName, Adding, Deleting
<1>5. CASE SetNameFails(c)
  <2>1. name[c] \in HostNames
    BY <1>0, <1>5 DEF SetNameFails, Local, HostDeviceWired
  <2> QED
    BY <1>5, <2>1, PluginAssumption DEF SetNameFails, Adding, Deleting
<1>6. CASE ConfigureIface(c, "print")
  BY <1>0, <1>6 DEF ConfigureIface, Adding, Deleting
<1>7. CASE AddStepFails(c)
  BY <1>0, PluginAssumption, <1>7 DEF AddStepFails, Adding, Deleting
<1>8. CASE Rollback(c)
  <2>1. CASE ipam' = [ipam EXCEPT ![c] = FALSE] /\ UNCHANGED faults
    BY <1>8, <2>1 DEF Rollback, Adding, Deleting
  <2>2. CASE Fault /\ UNCHANGED ipam
    BY <1>8, <2>2, PluginAssumption DEF Rollback, Adding, Deleting
  <2> QED
    BY <1>8, <2>1, <2>2 DEF Rollback
<1>9. CASE DelStart(c)
  <2>1. UNCHANGED <<sandbox, ipam, where, name, alias, conf, dummy, plugin, faults>>
    BY <1>9 DEF DelStart
  <2>2. PICK l \in {"execDel", "lookup", "idle"} : Goto(c, l)
    BY <1>9 DEF DelStart
  <2>3. att' = att \/ \E a \in {"torn", "gone"} : att' = [att EXCEPT ![c] = a]
    BY <1>9 DEF DelStart
  <2> QED
    BY <2>1, <2>2, <2>3 DEF Adding, Deleting
<1>10. CASE MoveLinkOut(c)
  <2>1. UNCHANGED <<sandbox, ipam, where, name, alias, dummy, plugin, faults>>
    BY <1>10 DEF MoveLinkOut
  <2>2. PICK l \in {"restore", "idle"} : Goto(c, l)
    BY <1>10 DEF MoveLinkOut
  <2>3. att' = att \/ \E a \in {"torn", "gone"} : att' = [att EXCEPT ![c] = a]
    BY <1>10 DEF MoveLinkOut
  <2>4. conf' = conf \/ conf' = [conf EXCEPT ![c] = {}]
    BY <1>10 DEF MoveLinkOut
  <2>5. /\ conf' \in [Containers -> SUBSET {"addr", "route", "masq", "veth"}]
        /\ \A d \in Containers \ {c} : conf'[d] = conf[d]
    BY <2>4
  <2>6. CallTypes'
    BY <2>1, <2>2, <2>3 DEF Adding, Deleting
  <2>7. LinkTypes' /\ RoutingTypes'
    BY <2>1, <2>5
  <2>8. Only(c)
    BY <2>1, <2>2, <2>3, <2>5
  <2> QED
    BY <2>6, <2>7, <2>8
<1>11. CASE RestoreName(c)
  BY <1>0, <1>11 DEF RestoreName, Adding, Deleting
<1>12. CASE SetHostNs(c)
  BY <1>0, <1>12 DEF SetHostNs, FreeNames, Adding, Deleting
<1>13. CASE SetHostNsFails(c)
  <2>1. /\ faults' \in 0..MaxFaults /\ faults <= faults'
        /\ name' = name \/ name' = [name EXCEPT ![c] = IfName]
    BY <1>13, PluginAssumption DEF SetHostNsFails, SetNsFdRefused
  <2> QED
    BY <1>13, <2>1 DEF SetHostNsFails, Adding, Deleting
<1>14. CASE ExecDelLast(c)
  BY <1>0, <1>14 DEF ExecDelLast, Adding, Deleting
<1>15. CASE StepFails(c, {"lookup", "restore", "print"})
  BY <1>0, PluginAssumption, <1>15 DEF StepFails, Adding, Deleting
<1> QED
  BY <1>1, <1>2, <1>3, <1>4, <1>5, <1>6, <1>7, <1>8, <1>9, <1>10, <1>11, <1>12, <1>13, <1>14,
     <1>15 DEF HostDeviceStep, IsHostDevice

\* host-device: what ADD has reached and DEL has undone.
LEMMA HostDeviceLocal ==
  ASSUME Types, NEW c \in Containers, TypesAt(c), Local(c), HostDeviceStep(c), UNCHANGED routing
  PROVE  TypesAt(c)' /\ Local(c)'
<1> USE DEF Types, CallTypes, LinkTypes, RoutingTypes, TypesAt, Local, Phase, At, AddLabels,
   DelLabels, HostDeviceWired, VethRouteWired, IpvlanWired, ChainWired, Chained, Released,
   Traces, Named, Goto, Fails, Deleted, Fault, link, rest, routing
<1>0. plugin[c] = "host-device"
  BY DEF HostDeviceStep, IsHostDevice
<1>1. CASE ExecAdd(c, "getLink")
  BY <1>0, PluginAssumption, <1>1 DEF ExecAdd
<1>2. CASE GetLink(c)
  BY <1>0, PluginAssumption, <1>2 DEF GetLink
<1>3. CASE MoveLinkIn(c)
  BY <1>0, PluginAssumption, <1>3 DEF MoveLinkIn
<1>4. CASE SetName(c)
  BY <1>0, PluginAssumption, <1>4 DEF SetName
<1>5. CASE SetNameFails(c)
  BY <1>0, PluginAssumption, <1>5 DEF SetNameFails
<1>6. CASE ConfigureIface(c, "print")
  BY <1>0, PluginAssumption, <1>6 DEF ConfigureIface
<1>7. CASE AddStepFails(c)
  BY <1>0, PluginAssumption, <1>7 DEF AddStepFails
<1>8. CASE Rollback(c)
  BY <1>0, PluginAssumption, <1>8 DEF Rollback
<1>9. CASE DelStart(c)
  BY <1>0, PluginAssumption, <1>9 DEF DelStart
<1>10. CASE MoveLinkOut(c)
  BY <1>0, PluginAssumption, <1>10 DEF MoveLinkOut
<1>11. CASE RestoreName(c)
  BY <1>0, PluginAssumption, <1>11 DEF RestoreName
<1>12. CASE SetHostNs(c)
  BY <1>0, PluginAssumption, <1>12 DEF SetHostNs, FreeNames
<1>13. CASE SetHostNsFails(c)
  BY <1>0, PluginAssumption, <1>13 DEF SetHostNsFails, SetNsFdRefused
<1>14. CASE ExecDelLast(c)
  BY <1>0, PluginAssumption, <1>14 DEF ExecDelLast
<1>15. CASE StepFails(c, {"lookup", "restore", "print"})
  BY <1>0, PluginAssumption, <1>15 DEF StepFails
<1> QED
  BY <1>1, <1>2, <1>3, <1>4, <1>5, <1>6, <1>7, <1>8, <1>9, <1>10, <1>11, <1>12, <1>13, <1>14,
     <1>15 DEF HostDeviceStep, IsHostDevice

\* ipvlan, alone or in a chain: types, and nothing about other containers changes.
LEMMA IpvlanTypes ==
  ASSUME Types, NEW c \in Containers, TypesAt(c), Local(c), IpvlanStep(c), UNCHANGED routing
  PROVE  Types' /\ Only(c)
<1> USE DEF Types, CallTypes, LinkTypes, RoutingTypes, Only, Goto, Fails, Deleted, Fault,
   link, rest, routing
<1>1. CASE CreateIpvlan(c)
  BY <1>1 DEF CreateIpvlan, Adding, Deleting
<1>2. CASE RenameLink(c)
  BY <1>2 DEF RenameLink, Adding, Deleting
<1>3. CASE ExecAdd(c, "configure")
  BY <1>3 DEF ExecAdd, Adding, Deleting
<1>4. CASE ConfigureIface(c, "print")
  BY <1>4 DEF ConfigureIface, Adding, Deleting
<1>5. CASE ExecDelFirst(c)
  <2>1. /\ ipam' = [ipam EXCEPT ![c] = FALSE]
        /\ UNCHANGED <<sandbox, link, conf, dummy, rest>>
    BY <1>5 DEF ExecDelFirst
  <2>2. PICK l \in {"idle", "delLink"} : Goto(c, l)
    BY <1>5 DEF ExecDelFirst
  <2>3. att' = att \/ \E a \in {"torn", "gone"} : att' = [att EXCEPT ![c] = a]
    BY <1>5 DEF ExecDelFirst
  <2> QED
    BY <2>1, <2>2, <2>3 DEF Adding, Deleting
<1>6. CASE DelLinkByName(c)
  <2>1. UNCHANGED <<sandbox, ipam, dummy, plugin, faults>>
    BY <1>6 DEF DelLinkByName
  <2>2. PICK l \in {"idle"} : Goto(c, l)
    BY <1>6 DEF DelLinkByName
  <2>3. att' = att \/ \E a \in {"torn", "gone"} : att' = [att EXCEPT ![c] = a]
    BY <1>6 DEF DelLinkByName
  <2>4. LinkGone(c, {"masq", "veth"}) \/ UNCHANGED <<where, name, alias, conf>>
    BY <1>6 DEF DelLinkByName
  <2>5. /\ LinkTypes'
        /\ \A d \in Containers \ {c} :
              where'[d] = where[d] /\ name'[d] = name[d] /\ conf'[d] = conf[d]
    <3>1. CASE LinkGone(c, {"masq", "veth"})
      BY <3>1 DEF LinkGone
    <3>2. CASE UNCHANGED <<where, name, alias, conf>>
      BY <3>2
    <3> QED
      BY <2>4, <3>1, <3>2
  <2>6. CallTypes'
    BY <2>1, <2>2, <2>3 DEF Adding, Deleting
  <2>7. LinkTypes' /\ RoutingTypes'
    BY <2>1, <2>5
  <2>8. Only(c)
    BY <2>1, <2>2, <2>3, <2>5
  <2> QED
    BY <2>6, <2>7, <2>8
<1>7. CASE StepFails(c, {"linkAdd", "rename", "configure", "print", "delLink"})
  BY PluginAssumption, <1>7 DEF StepFails, Adding, Deleting
<1> QED
  BY <1>1, <1>2, <1>3, <1>4, <1>5, <1>6, <1>7 DEF IpvlanStep

\* ipvlan: what ADD has reached and DEL has undone.
LEMMA IpvlanLocal ==
  ASSUME Types, NEW c \in Containers, TypesAt(c), Local(c), IpvlanStep(c), UNCHANGED routing
  PROVE  TypesAt(c)' /\ Local(c)'
<1> USE DEF Types, CallTypes, LinkTypes, RoutingTypes, TypesAt, Local, Phase, At, AddLabels,
   DelLabels, HostDeviceWired, VethRouteWired, IpvlanWired, ChainWired, Chained, Released,
   Traces, Named, Goto, Fails, Deleted, Fault, link, rest, routing
<1>0. plugin[c] \in {"ipvlan", "chain"}
  BY DEF IpvlanStep
<1>1. CASE CreateIpvlan(c)
  BY <1>0, PluginAssumption, <1>1 DEF CreateIpvlan
<1>2. CASE RenameLink(c)
  BY <1>0, PluginAssumption, <1>2 DEF RenameLink
<1>3. CASE ExecAdd(c, "configure")
  BY <1>0, PluginAssumption, <1>3 DEF ExecAdd
<1>4. CASE ConfigureIface(c, "print")
  BY <1>0, PluginAssumption, <1>4 DEF ConfigureIface
<1>5. CASE ExecDelFirst(c)
  BY <1>0, PluginAssumption, <1>5 DEF ExecDelFirst
<1>6. CASE DelLinkByName(c)
  BY <1>0, PluginAssumption, <1>6 DEF DelLinkByName, LinkGone
<1>7. CASE StepFails(c, {"linkAdd", "rename", "configure", "print", "delLink"})
  BY <1>0, PluginAssumption, <1>7 DEF StepFails
<1> QED
  BY <1>1, <1>2, <1>3, <1>4, <1>5, <1>6, <1>7 DEF IpvlanStep

\* veth-route: types, and what containers share only grows.
LEMMA VethRouteTypes ==
  ASSUME Types, NEW c \in Containers, TypesAt(c), Local(c), VethRouteStep(c), UNCHANGED routing
  PROVE  Types' /\ Only(c)
<1> USE DEF Types, CallTypes, LinkTypes, RoutingTypes, Only, Goto, Fails, Deleted, Fault,
   link, rest, routing
<1>1. CASE ExecAdd(c, "dummyAdd")
  BY <1>1 DEF ExecAdd, Adding, Deleting
<1>2. CASE EnsureDummy(c)
  BY <1>2 DEF EnsureDummy, Adding, Deleting
<1>3. CASE DummyUp(c)
  BY <1>3 DEF DummyUp, Adding, Deleting
<1>4. CASE EnsureAddr(c)
  BY <1>4 DEF EnsureAddr, Adding, Deleting
<1>5. CASE AddrAdd(c)
  BY <1>5 DEF AddrAdd, Adding, Deleting
<1>6. CASE SetupContainerVeth(c)
  BY <1>6 DEF SetupContainerVeth, Adding, Deleting
<1>7. CASE ConfigureIface(c, "hostVeth")
  BY <1>7 DEF ConfigureIface, Adding, Deleting
<1>8. CASE SetupHostVeth(c)
  BY <1>8 DEF SetupHostVeth, Adding, Deleting
<1>9. CASE SetupIPMasq(c)
  BY <1>9 DEF SetupIPMasq, Adding, Deleting
<1>10. CASE ExecDelFirst(c)
  <2>1. /\ ipam' = [ipam EXCEPT ![c] = FALSE]
        /\ UNCHANGED <<sandbox, link, conf, dummy, rest>>
    BY <1>10 DEF ExecDelFirst
  <2>2. PICK l \in {"idle", "delLink"} : Goto(c, l)
    BY <1>10 DEF ExecDelFirst
  <2>3. att' = att \/ \E a \in {"torn", "gone"} : att' = [att EXCEPT ![c] = a]
    BY <1>10 DEF ExecDelFirst
  <2> QED
    BY <2>1, <2>2, <2>3 DEF Adding, Deleting
<1>11. CASE DelLinkByNameAddr(c)
  BY <1>11 DEF DelLinkByNameAddr, LinkGone, Adding, Deleting
<1>12. CASE TeardownIPMasq(c)
  BY <1>12 DEF TeardownIPMasq, Adding, Deleting
<1>13. CASE StepFails(c, {"dummyAdd", "dummyUp", "addrList", "addrAdd", "setupVeth", "configure",
                          "hostVeth", "masq", "print", "delLink", "unmasq"})
  BY PluginAssumption, <1>13 DEF StepFails, Adding, Deleting
<1> QED
  BY <1>1, <1>2, <1>3, <1>4, <1>5, <1>6, <1>7, <1>8, <1>9, <1>10, <1>11, <1>12,
     <1>13 DEF VethRouteStep

\* veth-route: what ADD has reached, dummy0 included, and DEL has undone.
LEMMA VethRouteLocal ==
  ASSUME Types, NEW c \in Containers, TypesAt(c), Local(c), VethRouteStep(c), UNCHANGED routing
  PROVE  TypesAt(c)' /\ Local(c)'
<1> USE DEF Types, CallTypes, LinkTypes, RoutingTypes, TypesAt, Local, Phase, At, AddLabels,
   DelLabels, HostDeviceWired, VethRouteWired, IpvlanWired, ChainWired, Chained, Released,
   Traces, Named, Goto, Fails, Deleted, Fault, link, rest, routing
<1>0. plugin[c] = "veth-route"
  BY DEF VethRouteStep
<1>1. CASE ExecAdd(c, "dummyAdd")
  BY <1>0, PluginAssumption, <1>1 DEF ExecAdd
<1>2. CASE EnsureDummy(c)
  BY <1>0, PluginAssumption, <1>2 DEF EnsureDummy
<1>3. CASE DummyUp(c)
  BY <1>0, PluginAssumption, <1>3 DEF DummyUp
<1>4. CASE EnsureAddr(c)
  BY <1>0, PluginAssumption, <1>4 DEF EnsureAddr
<1>5. CASE AddrAdd(c)
  BY <1>0, PluginAssumption, <1>5 DEF AddrAdd
<1>6. CASE SetupContainerVeth(c)
  BY <1>0, PluginAssumption, <1>6 DEF SetupContainerVeth
<1>7. CASE ConfigureIface(c, "hostVeth")
  BY <1>0, PluginAssumption, <1>7 DEF ConfigureIface
<1>8. CASE SetupHostVeth(c)
  BY <1>0, PluginAssumption, <1>8 DEF SetupHostVeth
<1>9. CASE SetupIPMasq(c)
  BY <1>0, PluginAssumption, <1>9 DEF SetupIPMasq
<1>10. CASE ExecDelFirst(c)
  BY <1>0, PluginAssumption, <1>10 DEF ExecDelFirst
<1>11. CASE DelLinkByNameAddr(c)
  BY <1>0, PluginAssumption, <1>11 DEF DelLinkByNameAddr, LinkGone
<1>12. CASE TeardownIPMasq(c)
  BY <1>0, PluginAssumption, <1>12 DEF TeardownIPMasq
<1>13. CASE StepFails(c, {"dummyAdd", "dummyUp", "addrList", "addrAdd", "setupVeth", "configure",
                          "hostVeth", "masq", "print", "delLink", "unmasq"})
  BY <1>0, PluginAssumption, <1>13 DEF StepFails
<1> QED
  BY <1>1, <1>2, <1>3, <1>4, <1>5, <1>6, <1>7, <1>8, <1>9, <1>10, <1>11, <1>12,
     <1>13 DEF VethRouteStep

\* veth-host: types, and what containers share only grows.
LEMMA VethHostTypes ==
  ASSUME Types, NEW c \in Containers, TypesAt(c), Local(c), VethHostStep(c)
  PROVE  Types' /\ Only(c)
<1> USE DEF Types, CallTypes, LinkTypes, RoutingTypes, Only, Goto, Fails, Deleted, Fault,
   link, rest, routing
<1>1. CASE PrevResult(c)
  BY <1>1 DEF PrevResult, setup, local, main, Adding, Deleting
<1>2. CASE SetupVeth(c)
  BY <1>2 DEF SetupVeth, setup, local, main, Adding, Deleting
<1>3. CASE SetupVethFails(c)
  BY PluginAssumption, <1>3 DEF SetupVethFails, setup, local, main, Adding, Deleting
<1>4. CASE FindFreeTable(c)
  BY <1>4 DEF FindFreeTable, setup, local, main, FreeTables, Adding, Deleting
<1>5. CASE AddRoute(c)
  <2> DEFINE d == Min(left[c])
  <2>1. /\ slot[c] \in Tables /\ table' = [table EXCEPT ![slot[c]][d] = c]
        /\ left' = [left EXCEPT ![c] = @ \ {d}]
        /\ UNCHANGED <<pc, att, conf, sandbox, ipam, where, name, alias, dummy, plugin, faults,
                       ipMasq, routes, rule, nodePort, slot, tries>>
    BY <1>5 DEF AddRoute, TypesAt, setup, main
  <2> HIDE DEF d
  <2>2. table' \in [Tables -> [Dsts -> Containers \cup {NoDev}]]
    BY <2>1
  <2> QED
    BY <2>1, <2>2
<1>6. CASE Collision(c)
  <2>1. /\ UNCHANGED <<plugin, conf, sandbox, ipam, where, name, alias, dummy, ipMasq, routes, table,
                       rule, nodePort>>
        /\ faults' \in 0..MaxFaults /\ faults <= faults'
    BY <1>6, PluginAssumption DEF Collision, setup
  <2>2. PICK l \in {"findTable", "idle"} : Goto(c, l)
    BY <1>6 DEF Collision
  <2>3. att' = att \/ \E a \in {"torn", "gone"} : att' = [att EXCEPT ![c] = a]
    BY <1>6 DEF Collision
  <2>4. PICK k \in 0..MaxTries : /\ slot' = [slot EXCEPT ![c] = NoTable]
                                 /\ left' = [left EXCEPT ![c] = {}]
                                 /\ tries' = [tries EXCEPT ![c] = k]
    <3>1. 0 \in 0..MaxTries /\ tries[c] \in 0..MaxTries
      BY VethHostAssumption
    <3>2. CASE tries[c] + 1 < MaxTries
      <4>1. tries[c] + 1 \in 0..MaxTries
        BY <3>1, <3>2, VethHostAssumption
      <4> QED
        BY <1>6, <3>2, <4>1 DEF Collision
    <3>3. CASE ~ (tries[c] + 1 < MaxTries)
      BY <1>6, <3>1, <3>3 DEF Collision, Discard
    <3> QED
      BY <3>2, <3>3
  <2> QED
    BY <2>1, <2>2, <2>3, <2>4 DEF Adding, Deleting
<1>7. CASE AddPolicyRule(c)
  BY VethHostAssumption, <1>7 DEF AddPolicyRule, setup, local, main, Discard, Adding, Deleting
<1>8. CASE ChainIPMasq(c)
  BY <1>8 DEF ChainIPMasq, setup, local, main, Adding, Deleting
<1>9. CASE NodePortRuleList(c)
  BY <1>9 DEF NodePortRuleList, setup, local, main, Adding, Deleting
<1>10. CASE NodePortRuleAdd(c)
  <2>1. nodePort' = TRUE /\ UNCHANGED <<conf, main, setup, table, rule, local>>
    BY <1>10 DEF NodePortRuleAdd
  <2>2. PICK l \in {"idle", "pass"} : Goto(c, l)
    BY <1>10 DEF NodePortRuleAdd
  <2>3. att' = att \/ \E a \in {"torn", "gone"} : att' = [att EXCEPT ![c] = a]
    BY <1>10 DEF NodePortRuleAdd
  <2> QED
    BY <2>1, <2>2, <2>3 DEF setup, main, local, Adding, Deleting
<1>11. CASE ChainDel(c)
  BY <1>11 DEF ChainDel, setup, local, main, Adding, Deleting
<1>12. CASE ChainUnmasq(c)
  BY <1>12 DEF ChainUnmasq, setup, local, main, Adding, Deleting
<1>13. CASE RuleDel(c)
  BY <1>13 DEF RuleDel, setup, local, main, Adding, Deleting
<1>14. CASE VethLinkDel(c)
  BY <1>14 DEF VethLinkDel, setup, local, main, RoutesGone, Adding, Deleting
<1>15. CASE ChainAddFails(c)
  BY PluginAssumption, VethHostAssumption, <1>15 DEF ChainAddFails, setup, local, main,
     Discard, StepFails, Adding, Deleting
<1>16. CASE ChainDelFails(c)
  BY PluginAssumption, <1>16 DEF ChainDelFails, setup, local, main, Adding, Deleting
<1> QED
  BY <1>1, <1>2, <1>3, <1>4, <1>5, <1>6, <1>7, <1>8, <1>9, <1>10, <1>11, <1>12, <1>13, <1>14,
     <1>15, <1>16 DEF VethHostStep

\* veth-host: what ADD has reached and DEL has undone.
LEMMA VethHostLocal ==
  ASSUME Types, NEW c \in Containers, TypesAt(c), Local(c), VethHostStep(c)
  PROVE  TypesAt(c)' /\ Local(c)'
<1> USE DEF Types, CallTypes, LinkTypes, RoutingTypes, TypesAt, Local, Phase, At, AddLabels,
   DelLabels, HostDeviceWired, VethRouteWired, IpvlanWired, ChainWired, Chained, Released,
   Traces, Named, Goto, Fails, Deleted, Fault, link, rest, routing
<1>0. plugin[c] = "chain"
  BY DEF VethHostStep
<1>1. CASE PrevResult(c)
  BY <1>0, PluginAssumption, <1>1 DEF PrevResult, setup, local, main
<1>2. CASE SetupVeth(c)
  BY <1>0, PluginAssumption, <1>2 DEF SetupVeth, setup, local, main
<1>3. CASE SetupVethFails(c)
  BY <1>0, PluginAssumption, <1>3 DEF SetupVethFails, setup, local, main
<1>4. CASE FindFreeTable(c)
  BY <1>0, PluginAssumption, <1>4 DEF FindFreeTable, setup, local, main, FreeTables
<1>5. CASE AddRoute(c)
  BY <1>0, PluginAssumption, <1>5 DEF AddRoute, setup, local, main
<1>6. CASE Collision(c)
  BY <1>0, PluginAssumption, <1>6 DEF Collision, setup, local, main, Discard
<1>7. CASE AddPolicyRule(c)
  BY <1>0, VethHostAssumption, <1>7 DEF AddPolicyRule, setup, local, main, Discard
<1>8. CASE ChainIPMasq(c)
  BY <1>0, PluginAssumption, <1>8 DEF ChainIPMasq, setup, local, main
<1>9. CASE NodePortRuleList(c)
  BY <1>0, PluginAssumption, <1>9 DEF NodePortRuleList, setup, local, main
<1>10. CASE NodePortRuleAdd(c)
  BY <1>0, PluginAssumption, <1>10 DEF NodePortRuleAdd, setup, local, main
<1>11. CASE ChainDel(c)
  BY <1>0, PluginAssumption, <1>11 DEF ChainDel, setup, local, main
<1>12. CASE ChainUnmasq(c)
  BY <1>0, PluginAssumption, <1>12 DEF ChainUnmasq, setup, local, main
<1>13. CASE RuleDel(c)
  BY <1>0, PluginAssumption, <1>13 DEF RuleDel, setup, local, main
<1>14. CASE VethLinkDel(c)
  BY <1>0, PluginAssumption, <1>14 DEF VethLinkDel, setup, local, main, RoutesGone
<1>15. CASE ChainAddFails(c)
  BY <1>0, PluginAssumption, <1>15 DEF ChainAddFails, setup, local, main, Discard, StepFails
<1>16. CASE ChainDelFails(c)
  BY <1>0, PluginAssumption, <1>16 DEF ChainDelFails, setup, local, main
<1> QED
  BY <1>1, <1>2, <1>3, <1>4, <1>5, <1>6, <1>7, <1>8, <1>9, <1>10, <1>11, <1>12, <1>13, <1>14,
     <1>15, <1>16 DEF VethHostStep

\* What the plugins share: types, and nothing about other containers changes.
LEMMA CommonTypes ==
  ASSUME Types, NEW c \in Containers, TypesAt(c), Local(c),
         ExecAddFails(c) \/ ExecDelFails(c) \/ PrintResult(c), UNCHANGED routing
  PROVE  Types' /\ Only(c)
<1> USE DEF Types, CallTypes, LinkTypes, RoutingTypes, Only, Goto, Fails, Deleted, Fault,
   link, rest, routing
<1>1. CASE ExecAddFails(c)
  BY PluginAssumption, <1>1 DEF ExecAddFails, Adding, Deleting
<1>2. CASE ExecDelFails(c)
  BY PluginAssumption, <1>2 DEF ExecDelFails, Adding, Deleting
<1>3. CASE PrintResult(c)
  BY <1>3 DEF PrintResult, Adding, Deleting
<1> QED
  BY <1>1, <1>2, <1>3

\* What the plugins share: the IPAM plugin fails, and ADD reports success.
LEMMA CommonLocal ==
  ASSUME Types, NEW c \in Containers, TypesAt(c), Local(c),
         ExecAddFails(c) \/ ExecDelFails(c) \/ PrintResult(c), UNCHANGED routing
  PROVE  TypesAt(c)' /\ Local(c)'
<1> USE DEF Types, CallTypes, LinkTypes, RoutingTypes, TypesAt, Local, Phase, At, AddLabels,
   DelLabels, HostDeviceWired, VethRouteWired, IpvlanWired, ChainWired, Chained, Released,
   Traces, Named, Goto, Fails, Deleted, Fault, link, rest, routing
<1>1. CASE ExecAddFails(c)
  BY PluginAssumption, <1>1 DEF ExecAddFails
<1>2. CASE ExecDelFails(c)
  BY PluginAssumption, <1>2 DEF ExecDelFails
<1>3. CASE PrintResult(c)
  <2>1. plugin[c] \in Kinds /\ pc[c] = IF plugin[c] = "chain" THEN "pass" ELSE "print"
    BY <1>3 DEF PrintResult
  <2>2. CASE plugin[c] = "chain"
    BY <1>3, <2>1, <2>2 DEF PrintResult
  <2>3. CASE plugin[c] # "chain"
    BY <1>3, <2>1, <2>3 DEF PrintResult, Kinds
  <2> QED
    BY <2>2, <2>3
<1> QED
  BY <1>1, <1>2, <1>3

\* The runtime: types, and nothing about other containers changes.
LEMMA RuntimeTypes ==
  ASSUME Types, NEW c \in Containers, TypesAt(c), Local(c),
         CmdAdd(c) \/ CmdDel(c) \/ Forget(c), UNCHANGED routing
  PROVE  Types' /\ Only(c)
<1> USE DEF Types, CallTypes, LinkTypes, RoutingTypes, Only, Goto, Fails, Deleted, Fault,
   link, rest, routing
<1>1. CASE CmdAdd(c)
  BY <1>1 DEF CmdAdd, Adding, Deleting
<1>2. CASE CmdDel(c)
  BY <1>2 DEF CmdDel, Adding, Deleting
<1>3. CASE Forget(c)
  BY <1>3 DEF Forget
<1> QED
  BY <1>1, <1>2, <1>3

\* The runtime begins a call or forgets a namespace.
LEMMA RuntimeLocal ==
  ASSUME Types, NEW c \in Containers, TypesAt(c), Local(c),
         CmdAdd(c) \/ CmdDel(c) \/ Forget(c), UNCHANGED routing
  PROVE  TypesAt(c)' /\ Local(c)'
<1> USE DEF Types, CallTypes, LinkTypes, RoutingTypes, TypesAt, Local, Phase, At, AddLabels,
   DelLabels, HostDeviceWired, VethRouteWired, IpvlanWired, ChainWired, Chained, Released,
   Traces, Named, Goto, Fails, Deleted, Fault, link, rest, routing
<1>1. CASE CmdAdd(c)
  BY PluginAssumption, <1>1 DEF CmdAdd
<1>2. CASE CmdDel(c)
  BY PluginAssumption, <1>2 DEF CmdDel
<1>3. CASE Forget(c)
  BY PluginAssumption, <1>3 DEF Forget
<1> QED
  BY <1>1, <1>2, <1>3

\* The devices of the host: types, and nothing about other containers changes.
LEMMA DeviceTypes ==
  ASSUME Types, NEW c \in Containers, TypesAt(c), Local(c), Plug(c) \/ Unplug(c),
         UNCHANGED routing
  PROVE  Types' /\ Only(c)
<1> USE DEF Types, CallTypes, LinkTypes, RoutingTypes, Only, Goto, Fails, Deleted, Fault,
   link, rest, routing
<1>1. CASE Plug(c)
  BY <1>1 DEF Plug, IsHostDevice, FreeNames
<1>2. CASE Unplug(c)
  BY <1>2 DEF Unplug, IsHostDevice, LinkGone
<1> QED
  BY <1>1, <1>2

\* A device appears or disappears, in the middle of a call.
LEMMA DeviceLocal ==
  ASSUME Types, NEW c \in Containers, TypesAt(c), Local(c), Plug(c) \/ Unplug(c),
         UNCHANGED routing
  PROVE  TypesAt(c)' /\ Local(c)'
<1> USE DEF Types, CallTypes, LinkTypes, RoutingTypes, TypesAt, Local, Phase, At, AddLabels,
   DelLabels, HostDeviceWired, VethRouteWired, IpvlanWired, ChainWired, Chained, Released,
   Traces, Named, Goto, Fails, Deleted, Fault, link, rest, routing
<1>1. CASE Plug(c)
  BY PluginAssumption, <1>1 DEF Plug, IsHostDevice, FreeNames
<1>2. CASE Unplug(c)
  BY PluginAssumption, <1>2 DEF Unplug, IsHostDevice, LinkGone
<1> QED
  BY <1>1, <1>2

\* The namespace or the plugin dies: types, and nothing about other containers changes.
LEMMA DeathTypes ==
  ASSUME Types, NEW c \in Containers, TypesAt(c), Local(c), ChainSandboxDies(c) \/ ChainCrash(c)
  PROVE  Types' /\ Only(c)
<1> USE DEF Types, CallTypes, LinkTypes, RoutingTypes, Only, Goto, Fails, Deleted, Fault,
   link, rest, routing
<1>1. CASE ChainSandboxDies(c)
  <2>1. /\ sandbox' = [sandbox EXCEPT ![c] = "dead"]
        /\ att' = [att EXCEPT ![c] = IF @ = "gone" THEN @ ELSE "torn"]
        /\ UNCHANGED <<pc, ipam, dummy, plugin, faults, ipMasq, routes, rule, nodePort, slot,
                       left, tries>>
    BY <1>1 DEF ChainSandboxDies, SandboxDies, setup, local
  <2>2. table' \in [Tables -> [Dsts -> Containers \cup {NoDev}]]
    BY <1>1 DEF ChainSandboxDies, RoutesGone
  <2>3. CASE where[c] = "cont" /\ plugin[c] = "host-device"
    <3>1. PICK n \in HostNames : /\ where' = [where EXCEPT ![c] = "host"]
                                 /\ name' = [name EXCEPT ![c] = n]
                                 /\ conf' = [conf EXCEPT ![c] = {}]
                                 /\ UNCHANGED alias
      BY <1>1, <2>3 DEF ChainSandboxDies, SandboxDies, FreeNames
    <3> QED
      BY <2>1, <2>2, <3>1
  <2>4. CASE where[c] # "cont" /\ plugin[c] = "host-device"
    <3>1. UNCHANGED <<where, name, alias, conf>>
      BY <1>1, <2>4 DEF ChainSandboxDies, SandboxDies
    <3> QED
      BY <2>1, <2>2, <3>1
  <2>5. CASE plugin[c] # "host-device"
    <3>1. LinkGone(c, {"masq"})
      BY <1>1, <2>5 DEF ChainSandboxDies, SandboxDies
    <3> QED
      BY <2>1, <2>2, <3>1 DEF LinkGone
  <2> QED
    BY <2>3, <2>4, <2>5
<1>2. CASE ChainCrash(c)
  BY PluginAssumption, VethHostAssumption, <1>2 DEF ChainCrash, Crash, setup, Discard, Adding,
     Deleting
<1> QED
  BY <1>1, <1>2

\* The namespace or the plugin dies, at any control point.
LEMMA DeathLocal ==
  ASSUME Types, NEW c \in Containers, TypesAt(c), Local(c), ChainSandboxDies(c) \/ ChainCrash(c)
  PROVE  TypesAt(c)' /\ Local(c)'
<1> USE DEF Types, CallTypes, LinkTypes, RoutingTypes, TypesAt, Local, Phase, At, AddLabels,
   DelLabels, HostDeviceWired, VethRouteWired, IpvlanWired, ChainWired, Chained, Released,
   Traces, Named, Goto, Fails, Deleted, Fault, link, rest, routing
<1>1. CASE ChainSandboxDies(c)
  BY PluginAssumption, <1>1 DEF ChainSandboxDies, SandboxDies, LinkGone, FreeNames,
     RoutesGone, setup, local
<1>2. CASE ChainCrash(c)
  BY PluginAssumption, <1>2 DEF ChainCrash, Crash, setup, Discard
<1> QED
  BY <1>1, <1>2

-----------------------------------------------------------------------------
(***************************************************************************)
(* One step of one container, and what it means for the others.            *)
(***************************************************************************)
LocalInv == Types /\ \A c \in Containers : TypesAt(c) /\ Local(c)

StepOf(c) == Runtime(c) \/ Device(c) \/ Step(c) \/ ChainSandboxDies(c) \/ ChainCrash(c)

LEMMA StepKeeps ==
  ASSUME Types, NEW c \in Containers, TypesAt(c), Local(c), StepOf(c)
  PROVE  Types' /\ Only(c) /\ TypesAt(c)' /\ Local(c)'
<1>1. CASE Runtime(c)
  BY <1>1, RuntimeTypes, RuntimeLocal DEF Runtime
<1>2. CASE Device(c)
  BY <1>2, DeviceTypes, DeviceLocal DEF Device
<1>3. CASE Step(c)
  <2>1. CASE VethHostStep(c)
    BY <2>1, VethHostTypes, VethHostLocal
  <2>2. CASE HostDeviceStep(c) /\ UNCHANGED routing
    BY <2>2, HostDeviceTypes, HostDeviceLocal
  <2>3. CASE IpvlanStep(c) /\ UNCHANGED routing
    BY <2>3, IpvlanTypes, IpvlanLocal
  <2>4. CASE VethRouteStep(c) /\ UNCHANGED routing
    BY <2>4, VethRouteTypes, VethRouteLocal
  <2>5. CASE (ExecAddFails(c) \/ ExecDelFails(c) \/ PrintResult(c)) /\ UNCHANGED routing
    BY <2>5, CommonTypes, CommonLocal
  <2> QED
    BY <1>3, <2>1, <2>2, <2>3, <2>4, <2>5 DEF Step
<1>4. CASE ChainSandboxDies(c) \/ ChainCrash(c)
  BY <1>4, DeathTypes, DeathLocal
<1> QED
  BY <1>1, <1>2, <1>3, <1>4 DEF StepOf

LEMMA OthersKeep ==
  ASSUME Types, Types', NEW c \in Containers, Only(c), NEW d \in Containers, d # c,
         TypesAt(d), Local(d)
  PROVE  TypesAt(d)' /\ Local(d)'
<1>1. /\ pc'[d] = pc[d] /\ att'[d] = att[d] /\ sandbox'[d] = sandbox[d] /\ ipam'[d] = ipam[d]
      /\ where'[d] = where[d] /\ name'[d] = name[d] /\ conf'[d] = conf[d] /\ rule'[d] = rule[d]
      /\ slot'[d] = slot[d] /\ left'[d] = left[d]
      /\ plugin' = plugin /\ ipMasq' = ipMasq /\ routes' = routes
      /\ dummy \subseteq dummy' /\ (nodePort => nodePort')
  BY DEF Only
<1>2. faults' = 0 => faults = 0
  BY PluginAssumption DEF Only, Types, CallTypes
<1>3. TypesAt(d)' /\ Phase(d)' /\ HostDeviceWired(d)' /\ IpvlanWired(d)'
  BY <1>1 DEF TypesAt, Local, Phase, HostDeviceWired, IpvlanWired, At
<1>4. VethRouteWired(d)' /\ ChainWired(d)'
  BY <1>1 DEF Local, VethRouteWired, ChainWired, At
<1>5. Released(d)' /\ Traces(d)' /\ Named(d)'
  BY <1>1, <1>2 DEF Local, Released, Traces, Named
<1> QED
  BY <1>3, <1>4, <1>5 DEF Local

LEMMA NextSteps == Next <=> \E c \in Containers : StepOf(c)
  BY DEF Next, StepOf

LEMMA InitLocal == Init => LocalInv
<1> SUFFICES ASSUME Init PROVE LocalInv
  OBVIOUS
<1>1. Types
  <2>1. CallTypes /\ LinkTypes
    BY PluginAssumption DEF Init, MainInit, CallTypes, LinkTypes, Kinds
  <2>2. PICK cf \in ChainConfs : ipMasq = cf.ipMasq /\ routes = cf.routes
    BY DEF Init, VethHostInit
  <2>3. cf \in [ipMasq : BOOLEAN, routes : [Containers -> SUBSET Dsts]]
    BY VethHostAssumption
  <2>4. /\ [ipMasq |-> ipMasq, routes |-> routes] \in ChainConfs
        /\ ipMasq \in BOOLEAN /\ routes \in [Containers -> SUBSET Dsts]
    BY <2>2, <2>3
  <2>5. 0 \in 0..MaxTries
    BY VethHostAssumption
  <2>6. table \in [Tables -> [Dsts -> Containers \cup {NoDev}]]
    BY DEF Init, VethHostInit
  <2>7. RoutingTypes
    BY <2>4, <2>5, <2>6 DEF Init, VethHostInit, RoutingTypes
  <2> QED
    BY <2>1, <2>7 DEF Types
<1>2. ASSUME NEW c \in Containers PROVE TypesAt(c) /\ Local(c)
  <2>1. /\ pc[c] = "idle" /\ att[c] = "new" /\ sandbox[c] = "live" /\ where[c] = "none"
        /\ conf[c] = {} /\ rule[c] = NoTable /\ left[c] = {} /\ ~ ipam[c]
    BY DEF Init, MainInit, VethHostInit
  <2> QED
    BY <2>1, <1>1 DEF TypesAt, Local, Phase, At, AddLabels, DelLabels, HostDeviceWired,
       VethRouteWired, IpvlanWired, ChainWired, Chained, Released, Traces, Named
<1> QED
  BY <1>1, <1>2 DEF LocalInv

LEMMA NextLocal == LocalInv /\ [Next]_allVars => LocalInv'
<1> SUFFICES ASSUME LocalInv, [Next]_allVars PROVE LocalInv'
  OBVIOUS
<1>1. CASE UNCHANGED allVars
  <2>1. /\ UNCHANGED <<plugin, pc, att, sandbox, ipam, where, name, alias, conf, dummy, faults>>
        /\ UNCHANGED <<ipMasq, routes, table, rule, nodePort, slot, left, tries>>
    BY <1>1 DEF allVars, vars, routing
  <2>2. Types'
    BY <2>1 DEF LocalInv, Types, CallTypes, LinkTypes, RoutingTypes
  <2>3. ASSUME NEW c \in Containers PROVE TypesAt(c)' /\ Local(c)'
    <3>1. TypesAt(c) /\ Local(c)
      BY DEF LocalInv
    <3> QED
      BY <2>1, <3>1 DEF TypesAt, Local, Phase, At, HostDeviceWired, VethRouteWired, IpvlanWired,
         ChainWired, Released, Traces, Named
  <2> QED
    BY <2>2, <2>3 DEF LocalInv
<1>2. CASE Next
  <2>1. PICK c \in Containers : StepOf(c)
    BY <1>2, NextSteps
  <2>2. Types' /\ Only(c) /\ TypesAt(c)' /\ Local(c)'
    BY <2>1, StepKeeps DEF LocalInv
  <2>3. \A d \in Containers : d # c => TypesAt(d)' /\ Local(d)'
    BY <2>2, OthersKeep DEF LocalInv
  <2> QED
    BY <2>2, <2>3 DEF LocalInv
<1> QED
  BY <1>1, <1>2

LEMMA LocalHolds == Spec => []LocalInv
  BY InitLocal, NextLocal, PTL DEF Spec

-----------------------------------------------------------------------------
(***************************************************************************)
(* Theorems that need one container at a time                              *)
(***************************************************************************)
\* The type invariant of the plugins: among others, a device on the host never
\* keeps a name from inside a namespace, and the alias that DEL restores is a
\* name of the host.
THEOREM TypeCorrect == Spec => []TypeOK
<1>1. LocalInv => TypeOK
  <2> SUFFICES ASSUME LocalInv PROVE TypeOK
    OBVIOUS
  <2>1. MainTypeOK
    BY DEF LocalInv, Types, CallTypes, LinkTypes, TypesAt, MainTypeOK
  <2>2. VethHostTypeOK
    BY DEF LocalInv, Types, RoutingTypes, TypesAt, VethHostTypeOK
  <2> QED
    BY <2>1, <2>2 DEF TypeOK
<1> QED
  BY <1>1, LocalHolds, PTL

\* A container whose ADD succeeded stays connected until its DEL or the death
\* of its sandbox, in any mixture of networks and whatever fails or dies for
\* other containers.
THEOREM UpWiredHolds == Spec => []UpWired
<1>1. LocalInv => UpWired
  <2> SUFFICES ASSUME LocalInv, NEW c \in Containers, att[c] = "up"
               PROVE  /\ where[c] = "cont" /\ name[c] = IfName /\ ipam[c] /\ sandbox[c] = "live"
                      /\ "addr" \in conf[c]
                      /\ plugin[c] = "veth-route" =>
                            {"route", "masq"} \subseteq conf[c] /\ dummy = {"link", "up", "addr"}
                      /\ plugin[c] = "chain" =>
                            /\ "veth" \in conf[c] /\ rule[c] # NoTable /\ nodePort
                            /\ ipMasq => "masq" \in conf[c]
    BY DEF UpWired
  <2>1. Types /\ Local(c) /\ plugin[c] \in Kinds /\ dummy \in SUBSET {"link", "up", "addr"}
    BY DEF LocalInv, Types, CallTypes
  <2>2. sandbox[c] = "live"
    BY <2>1 DEF Local, Phase
  <2>3. where[c] = "cont" /\ name[c] = IfName /\ ipam[c] /\ "addr" \in conf[c]
    BY <2>1 DEF Local, At, HostDeviceWired, VethRouteWired, IpvlanWired, Kinds
  <2>4. plugin[c] = "veth-route" =>
           {"route", "masq"} \subseteq conf[c] /\ dummy = {"link", "up", "addr"}
    BY <2>1 DEF Local, At, VethRouteWired
  <2>5. plugin[c] = "chain" =>
           /\ "veth" \in conf[c] /\ rule[c] # NoTable /\ nodePort
           /\ ipMasq => "masq" \in conf[c]
    BY <2>1 DEF Local, At, ChainWired
  <2> QED
    BY <2>2, <2>3, <2>4, <2>5
<1> QED
  BY <1>1, LocalHolds, PTL

\* A DEL that reported success has released the address, and the only interface
\* it leaves is a link of ipvlan that a fault kept from being renamed; what else
\* it leaves is left after a fault, a dead namespace or, for veth-host, without
\* ipMasq.
THEOREM DelCleanHolds == Spec => []DelClean
<1>1. LocalInv => DelClean
  <2> SUFFICES ASSUME LocalInv, NEW c \in Containers, att[c] = "gone"
               PROVE  /\ ~ ipam[c]
                      /\ where[c] = "cont" =>
                            faults > 0 /\ plugin[c] \in {"ipvlan", "chain"} /\ name[c] = TmpName
                      /\ "masq" \in conf[c] => faults > 0 \/ sandbox[c] # "live"
                      /\ "veth" \in conf[c] \/ rule[c] # NoTable =>
                            faults > 0 \/ sandbox[c] # "live" \/ ~ ipMasq
    BY DEF DelClean
  <2>1. Local(c) /\ plugin[c] \in Kinds
    BY DEF LocalInv, Types, CallTypes
  <2>2. faults > 0 \/ faults = 0
    BY PluginAssumption DEF LocalInv, Types, CallTypes
  <2>3. ~ ipam[c] /\ ~ (where[c] = "cont" /\ name[c] = IfName)
    BY <2>1 DEF Local, Released
  <2>a. where[c] = "cont" =>
           faults > 0 /\ plugin[c] \in {"ipvlan", "chain"} /\ name[c] = TmpName
    <3> SUFFICES ASSUME where[c] = "cont"
                 PROVE  faults > 0 /\ plugin[c] \in {"ipvlan", "chain"} /\ name[c] = TmpName
      OBVIOUS
    <3>1. plugin[c] \in {"ipvlan", "chain"} /\ name[c] = TmpName /\ name[c] # IfName
      BY <2>1, <2>3 DEF Local, HostDeviceWired, VethRouteWired, IpvlanWired, Kinds
    <3>2. pc[c] \notin {"setName", "rename", "moveOut"}
      BY <2>1, <3>1 DEF Local, Phase, DelLabels
    <3> QED
      BY <2>1, <2>2, <3>1, <3>2 DEF Local, Named
  <2>4. "masq" \in conf[c] => plugin[c] \in {"veth-route", "chain"}
    BY <2>1 DEF Local, HostDeviceWired, IpvlanWired, Kinds
  <2>5. "veth" \in conf[c] \/ rule[c] # NoTable => plugin[c] = "chain"
    BY <2>1 DEF Local, ChainWired
  <2> QED
    BY <2>1, <2>2, <2>3, <2>a, <2>4, <2>5 DEF Local, Traces
<1> QED
  BY <1>1, LocalHolds, PTL

\* Without a fault, a retry of DEL finds the device under args.IfName or on the
\* host.
THEOREM RetryFindsHolds == Spec => []RetryFinds
<1>1. LocalInv => RetryFinds
  BY DEF LocalInv, Local, Named, RetryFinds
<1> QED
  BY <1>1, LocalHolds, PTL

\* A call that ends in an error without a fault is one of host-device or of a
\* chain, or a DEL.
LEMMA FailsByFault ==
  ASSUME Types, NEW c \in Containers, Local(c), StepOf(c), ReleasesFirst(c),
         att[c] = "adding", att'[c] = "torn"
  PROVE  faults' > 0
<1>0. /\ plugin[c] \in {"ipvlan", "veth-route"} /\ pc[c] \notin DelLabels(plugin[c]) /\ pc[c] # "idle"
      /\ att \in [Containers -> {"new", "adding", "up", "torn", "gone"}] /\ faults \in Nat
  BY DEF ReleasesFirst, Local, Phase, AddLabels, DelLabels, Types, CallTypes
<1>1. Fault => faults' > 0
  BY <1>0 DEF Fault
<1>2. UNCHANGED att => FALSE
  OBVIOUS
<1>3. CASE Runtime(c) \/ Device(c) \/ ChainSandboxDies(c)
  BY <1>0, <1>3 DEF Runtime, CmdAdd, CmdDel, Forget, Device, Plug, Unplug, ChainSandboxDies,
     SandboxDies
<1>4. CASE ChainCrash(c)
  BY <1>1, <1>4 DEF ChainCrash, Crash
<1>5. CASE VethHostStep(c) \/ HostDeviceStep(c)
  BY <1>0, <1>5 DEF VethHostStep, HostDeviceStep, IsHostDevice
<1>6. CASE ExecAddFails(c) \/ ExecDelFails(c)
  BY <1>1, <1>6 DEF ExecAddFails, ExecDelFails
<1>7. CASE PrintResult(c)
  BY <1>0, <1>7 DEF PrintResult
<1>8. CASE IpvlanStep(c)
  BY <1>0, <1>1, <1>8 DEF IpvlanStep, CreateIpvlan, RenameLink, ExecAdd, ConfigureIface,
     ExecDelFirst, DelLinkByName, StepFails, Deleted, DelLabels
<1>9. CASE VethRouteStep(c)
  BY <1>0, <1>1, <1>9 DEF VethRouteStep, ExecAdd, EnsureDummy, DummyUp, EnsureAddr, AddrAdd,
     SetupContainerVeth, ConfigureIface, SetupHostVeth, SetupIPMasq, ExecDelFirst,
     DelLinkByNameAddr, TeardownIPMasq, StepFails, Deleted, DelLabels
<1> QED
  BY <1>3, <1>4, <1>5, <1>6, <1>7, <1>8, <1>9 DEF StepOf, Step

\* ADDs that set up the same dummy0 do not make each other fail.
THEOREM AddUndisturbedHolds == Spec => AddUndisturbed
<1>1. LocalInv /\ [Next]_allVars =>
        [\A c \in Containers : ReleasesFirst(c) /\ att[c] = "adding" /\ att'[c] = "torn"
            => faults' > 0]_allVars
  <2> SUFFICES ASSUME LocalInv, Next, NEW d \in Containers, ReleasesFirst(d),
                      att[d] = "adding", att'[d] = "torn"
               PROVE  faults' > 0
    OBVIOUS
  <2>1. PICK c \in Containers : StepOf(c)
    BY NextSteps
  <2>2. Types /\ TypesAt(c) /\ Local(c)
    BY DEF LocalInv
  <2>3. Only(c)
    BY <2>1, <2>2, StepKeeps
  <2>4. d = c
    BY <2>3 DEF Only
  <2> QED
    BY <2>1, <2>2, <2>4, FailsByFault
<1> QED
  BY <1>1, LocalHolds, PTL DEF Spec, AddUndisturbed

-----------------------------------------------------------------------------
(***************************************************************************)
(* The routing tables.  A table is free for whoever looks as long as no    *)
(* rule names it, so that two containers may write into the same one; the  *)
(* kernel lets only one of them have the route to a destination.  OwnTable *)
(* holds because both begin with the smallest destination (FirstOwned) and *)
(* all routes of a container go at once.                                   *)
(***************************************************************************)
Slotted(c) ==
    pc[c] = "addRoute" =>
        /\ left[c] = routes[c] \/ Min(routes[c]) \in routes[c] \ left[c]
        /\ \A d \in routes[c] \ left[c] : table[slot[c]][d] = c

Ruled(c) ==
    rule[c] # NoTable /\ "veth" \in conf[c] =>
        /\ \A d \in routes[c] : table[rule[c]][d] = c
        /\ routes[c] # {} => Min(routes[c]) \in routes[c]

FirstOwned ==
    \A t \in Tables, d \in Dsts : table[t][d] # NoDev =>
        /\ routes[table[t][d]] # {} /\ Min(routes[table[t][d]]) \in Dsts
        /\ table[t][Min(routes[table[t][d]])] = table[t][d]

TableInv == (\A c \in Containers : Slotted(c) /\ Ruled(c)) /\ FirstOwned

\* A step that leaves the tables alone, and neither begins to write routes nor
\* adds a rule or a veth pair.
Quiet(c) ==
    /\ table' = table
    /\ pc'[c] # "addRoute"
    /\ rule'[c] # NoTable /\ "veth" \in conf'[c] => rule[c] = rule'[c] /\ "veth" \in conf[c]

\* The routes of c are deleted with its veth pair.
Unrouted(c) == RoutesGone(c) /\ pc'[c] # "addRoute" /\ "veth" \notin conf'[c]

LEMMA StepKinds ==
  ASSUME Types, NEW c \in Containers, Local(c), Local(c)', Only(c), StepOf(c)
  PROVE  Quiet(c) \/ Unrouted(c) \/ FindFreeTable(c) \/ AddRoute(c) \/ AddPolicyRule(c)
<1> USE DEF Goto, Fails, Deleted, Fault, routing
<1>0. /\ pc \in [Containers -> Adding \cup Deleting \cup {"idle"}] /\ plugin[c] \in Kinds
      /\ conf \in [Containers -> SUBSET {"addr", "route", "masq", "veth"}]
      /\ rule \in [Containers -> Tables \cup {NoTable}]
  BY DEF Types, CallTypes, LinkTypes, RoutingTypes
<1>1. CASE Runtime(c)
  BY <1>0, <1>1 DEF Runtime, CmdAdd, CmdDel, Forget, Quiet
<1>2. CASE Device(c)
  BY <1>0, <1>2 DEF Device, Plug, Unplug, IsHostDevice, Quiet, Local, Phase, ChainWired,
     AddLabels, DelLabels, LinkGone
<1>3. CASE ChainSandboxDies(c)
  BY <1>0, <1>3 DEF ChainSandboxDies, SandboxDies, LinkGone, Unrouted, Local, ChainWired
<1>4. CASE ChainCrash(c)
  BY <1>0, <1>4 DEF ChainCrash, Crash, Quiet
<1>5. CASE Step(c) /\ plugin[c] # "chain"
  <2>1. table' = table /\ rule' = rule /\ plugin' = plugin
    BY <1>5 DEF Step, VethHostStep, Only
  <2> QED
    BY <1>0, <1>5, <2>1 DEF Quiet, Local, Phase, ChainWired, AddLabels, DelLabels, Kinds
<1>6. CASE VethHostStep(c)
  <2> USE DEF setup, local, main, rest, link
  <2>1. CASE PrevResult(c) \/ NodePortRuleList(c) \/ NodePortRuleAdd(c) \/ ChainDel(c)
    BY <1>0, <2>1 DEF PrevResult, NodePortRuleList, NodePortRuleAdd, ChainDel, Quiet
  <2>2. CASE SetupVeth(c) \/ SetupVethFails(c)
    BY <1>0, <1>6, <2>2 DEF VethHostStep, SetupVeth, SetupVethFails, Quiet, Local, ChainWired
  <2>3. CASE Collision(c) \/ ChainAddFails(c) \/ ChainDelFails(c)
    BY <1>0, <2>3 DEF Collision, ChainAddFails, StepFails, ChainDelFails, Quiet
  <2>4. CASE ChainIPMasq(c) \/ ChainUnmasq(c)
    BY <1>0, <2>4 DEF ChainIPMasq, ChainUnmasq, Quiet
  <2>5. CASE RuleDel(c)
    BY <1>0, <2>5 DEF RuleDel, Quiet
  <2>6. CASE VethLinkDel(c)
    BY <1>0, <2>6 DEF VethLinkDel, Unrouted
  <2> QED
    BY <1>6, <2>1, <2>2, <2>3, <2>4, <2>5, <2>6 DEF VethHostStep
<1>7. CASE IpvlanStep(c) /\ UNCHANGED routing
  BY <1>0, <1>7 DEF IpvlanStep, CreateIpvlan, RenameLink, ExecAdd, ConfigureIface,
     ExecDelFirst, DelLinkByName, LinkGone, StepFails, Quiet
<1>8. CASE (ExecAddFails(c) \/ ExecDelFails(c) \/ PrintResult(c)) /\ UNCHANGED routing
  BY <1>0, <1>8 DEF ExecAddFails, ExecDelFails, PrintResult, Quiet
<1>9. CASE Step(c) /\ plugin[c] = "chain"
  BY <1>6, <1>7, <1>8, <1>9 DEF Step, HostDeviceStep, IsHostDevice, VethRouteStep
<1> QED
  BY <1>1, <1>2, <1>3, <1>4, <1>5, <1>9 DEF StepOf

LEMMA QuietTables ==
  ASSUME Types, TableInv, NEW c \in Containers, Only(c), Quiet(c)
  PROVE  TableInv'
<1>1. /\ table' = table /\ routes' = routes
      /\ \A d \in Containers : d # c => /\ pc'[d] = pc[d] /\ left'[d] = left[d] /\ slot'[d] = slot[d]
                                        /\ rule'[d] = rule[d] /\ conf'[d] = conf[d]
  BY DEF Only, Quiet
<1>2. \A d \in Containers : Slotted(d)' /\ Ruled(d)'
  BY <1>1 DEF TableInv, Slotted, Ruled, Quiet
<1>3. FirstOwned'
  BY <1>1 DEF TableInv, FirstOwned
<1> QED
  BY <1>2, <1>3 DEF TableInv

\* The routes of c go from every table; those of others stay.
LEMMA UnroutedTables ==
  ASSUME Types, \A d \in Containers : TypesAt(d), TableInv, NEW c \in Containers, Only(c), Unrouted(c)
  PROVE  TableInv'
<1>1. /\ routes' = routes
      /\ \A d \in Containers : d # c => /\ pc'[d] = pc[d] /\ left'[d] = left[d] /\ slot'[d] = slot[d]
                                        /\ rule'[d] = rule[d] /\ conf'[d] = conf[d]
      /\ pc'[c] # "addRoute" /\ "veth" \notin conf'[c]
  BY DEF Only, Unrouted
<1>2. /\ routes \in [Containers -> SUBSET Dsts] /\ table \in [Tables -> [Dsts -> Containers \cup {NoDev}]]
      /\ rule \in [Containers -> Tables \cup {NoTable}] /\ NoDev \notin Containers
  BY VethHostAssumption DEF Types, RoutingTypes
<1>3. \A t \in Tables, d \in Dsts : table'[t][d] = IF table[t][d] = c THEN NoDev ELSE table[t][d]
  BY DEF Unrouted, RoutesGone
<1>4. \A d \in Containers : Slotted(d)'
  <2> SUFFICES ASSUME NEW d \in Containers, pc'[d] = "addRoute" PROVE Slotted(d)'
    BY DEF Slotted
  <2>1. /\ d # c /\ pc[d] = "addRoute" /\ left'[d] = left[d] /\ slot'[d] = slot[d] /\ slot[d] \in Tables
    BY <1>1 DEF TypesAt
  <2>2. Slotted(d) /\ \A x \in routes[d] : x \in Dsts
    BY <1>2 DEF TableInv
  <2> QED
    BY <1>1, <1>3, <2>1, <2>2 DEF Slotted
<1>5. \A d \in Containers : Ruled(d)'
  <2> SUFFICES ASSUME NEW d \in Containers, rule'[d] # NoTable, "veth" \in conf'[d] PROVE Ruled(d)'
    BY DEF Ruled
  <2>1. /\ d # c /\ rule'[d] = rule[d] /\ conf'[d] = conf[d] /\ rule[d] \in Tables
    BY <1>1, <1>2
  <2>2. Ruled(d) /\ \A x \in routes[d] : x \in Dsts
    BY <1>2 DEF TableInv
  <2> QED
    BY <1>1, <1>3, <2>1, <2>2 DEF Ruled
<1>6. FirstOwned'
  <2> SUFFICES ASSUME NEW t \in Tables, NEW d \in Dsts, table'[t][d] # NoDev
               PROVE  /\ routes[table'[t][d]] # {} /\ Min(routes[table'[t][d]]) \in Dsts
                      /\ table'[t][Min(routes[table'[t][d]])] = table'[t][d]
    BY <1>1 DEF FirstOwned
  <2>1. table'[t][d] = table[t][d] /\ table[t][d] # c /\ table[t][d] # NoDev
    BY <1>3
  <2> DEFINE m == Min(routes[table[t][d]])
  <2>2. routes[table[t][d]] # {} /\ m \in Dsts /\ table[t][m] = table[t][d]
    BY <2>1 DEF TableInv, FirstOwned
  <2>3. table'[t][m] = table[t][m]
    <3> HIDE DEF m
    <3> QED
      BY <1>3, <2>1, <2>2
  <2> QED
    BY <2>1, <2>2, <2>3
<1> QED
  BY <1>4, <1>5, <1>6 DEF TableInv

LEMMA FindFreeTableTables ==
  ASSUME Types, TableInv, NEW c \in Containers, Only(c), FindFreeTable(c)
  PROVE  TableInv'
<1>1. /\ table' = table /\ routes' = routes /\ rule' = rule /\ conf' = conf
      /\ \A d \in Containers : d # c => /\ pc'[d] = pc[d] /\ left'[d] = left[d] /\ slot'[d] = slot[d]
      /\ left'[c] = routes[c]
  BY DEF Only, FindFreeTable, setup, Types, RoutingTypes
<1>2. \A d \in Containers : Slotted(d)' /\ Ruled(d)'
  BY <1>1 DEF TableInv, Slotted, Ruled
<1>3. FirstOwned'
  BY <1>1 DEF TableInv, FirstOwned
<1> QED
  BY <1>2, <1>3 DEF TableInv

LEMMA AddPolicyRuleTables ==
  ASSUME Types, TableInv, NEW c \in Containers, Only(c), AddPolicyRule(c)
  PROVE  TableInv'
<1>1. /\ table' = table /\ routes' = routes /\ conf' = conf
      /\ pc[c] = "addRoute" /\ left[c] = {} /\ rule'[c] = slot[c] /\ pc'[c] # "addRoute"
      /\ \A d \in Containers : d # c => /\ pc'[d] = pc[d] /\ left'[d] = left[d] /\ slot'[d] = slot[d]
                                        /\ rule'[d] = rule[d]
  BY DEF Only, AddPolicyRule, setup, Types, CallTypes, RoutingTypes, Goto
<1>2. Slotted(c)' /\ Ruled(c)'
  BY <1>1 DEF TableInv, Slotted, Ruled
<1>3. \A d \in Containers : d # c => Slotted(d)' /\ Ruled(d)'
  BY <1>1 DEF TableInv, Slotted, Ruled
<1>4. FirstOwned'
  BY <1>1 DEF TableInv, FirstOwned
<1> QED
  BY <1>2, <1>3, <1>4 DEF TableInv

\* A route is added only where there is none, so that no owned route changes
\* hands; and the first one a container adds to a table is its smallest.
LEMMA AddRouteTables ==
  ASSUME Types, \A d \in Containers : TypesAt(d), TableInv, NEW c \in Containers, Only(c), AddRoute(c)
  PROVE  TableInv'
<1> DEFINE m == Min(left[c])
           s == slot[c]
<1>1. /\ routes \in [Containers -> SUBSET Dsts] /\ table \in [Tables -> [Dsts -> Containers \cup {NoDev}]]
      /\ rule \in [Containers -> Tables \cup {NoTable}] /\ NoDev \notin Containers
      /\ left \in [Containers -> SUBSET Dsts]
  BY VethHostAssumption DEF Types, RoutingTypes
<1>2. /\ pc[c] = "addRoute" /\ left[c] # {} /\ s \in Tables /\ left[c] \subseteq routes[c]
      /\ table[s][m] = NoDev /\ table' = [table EXCEPT ![s][m] = c]
      /\ left' = [left EXCEPT ![c] = @ \ {m}]
      /\ UNCHANGED <<pc, conf, routes, rule, slot>>
  BY DEF AddRoute, TypesAt, setup
<1>3. left[c] = routes[c] \/ Min(routes[c]) \in routes[c] \ left[c]
  BY <1>2 DEF TableInv, Slotted
<1>4. left[c] = routes[c] => m = Min(routes[c])
  OBVIOUS
<1> HIDE DEF m, s
<1>5. \A t \in Tables, d \in Dsts :
         /\ table[t][d] # NoDev => table'[t][d] = table[t][d]
         /\ table'[t][d] # table[t][d] => t = s /\ d = m /\ table'[t][d] = c
  BY <1>1, <1>2
<1>6. m \in Dsts => table'[s][m] = c
  BY <1>1, <1>2
<1>7. \A d \in Containers : Slotted(d)'
  <2>1. ASSUME NEW d \in Containers, d # c PROVE Slotted(d)'
    <3>1. pc'[d] = pc[d] /\ left'[d] = left[d] /\ slot'[d] = slot[d] /\ routes' = routes
      BY <1>1, <1>2, <2>1
    <3>2. pc[d] = "addRoute" => slot[d] \in Tables
      BY DEF TypesAt
    <3>3. \A x \in routes[d] : x \in Dsts
      BY <1>1
    <3>4. Slotted(d)
      BY DEF TableInv
    <3> QED
      BY <1>1, <1>5, <3>1, <3>2, <3>3, <3>4 DEF Slotted
  <2>2. Slotted(c)'
    <3>1. left'[c] = left[c] \ {m} /\ slot'[c] = s /\ routes' = routes
      BY <1>1, <1>2 DEF s
    <3>2. \A d \in routes[c] \ left[c] : d \in Dsts /\ table[s][d] = c
      BY <1>1, <1>2 DEF TableInv, Slotted, s
    <3>3. \A d \in routes[c] \ left'[c] : table'[s][d] = c
      <4> SUFFICES ASSUME NEW d \in routes[c], d \notin left'[c] PROVE table'[s][d] = c
        OBVIOUS
      <4>1. CASE d = m
        BY <1>1, <1>6, <4>1
      <4>2. CASE d # m
        BY <1>1, <1>2, <1>5, <3>1, <3>2, <4>2
      <4> QED
        BY <4>1, <4>2
    <3>4. left'[c] = routes[c] \/ Min(routes[c]) \in routes[c] \ left'[c]
      BY <1>2, <1>3, <1>4, <3>1
    <3> QED
      BY <3>1, <3>3, <3>4 DEF Slotted
  <2> QED
    BY <2>1, <2>2
<1>8. \A d \in Containers : Ruled(d)'
  <2> SUFFICES ASSUME NEW d \in Containers, rule[d] # NoTable, "veth" \in conf[d] PROVE Ruled(d)'
    BY <1>2 DEF Ruled
  <2>1. rule[d] \in Tables /\ \A x \in routes[d] : x \in Dsts
    BY <1>1
  <2>2. Ruled(d)
    BY DEF TableInv
  <2> QED
    BY <1>1, <1>2, <1>5, <2>1, <2>2 DEF Ruled
<1>9. FirstOwned'
  <2> SUFFICES ASSUME NEW t \in Tables, NEW d \in Dsts, table'[t][d] # NoDev
               PROVE  /\ routes[table'[t][d]] # {} /\ Min(routes[table'[t][d]]) \in Dsts
                      /\ table'[t][Min(routes[table'[t][d]])] = table'[t][d]
    BY <1>2 DEF FirstOwned
  <2>1. CASE table'[t][d] = table[t][d]
    <3> DEFINE f == Min(routes[table[t][d]])
    <3>1. routes[table[t][d]] # {} /\ f \in Dsts /\ table[t][f] = table[t][d] /\ table[t][d] # NoDev
      BY <2>1 DEF TableInv, FirstOwned
    <3>2. table'[t][f] = table[t][f]
      <4> HIDE DEF f
      <4> QED
        BY <1>5, <3>1
    <3> QED
      BY <2>1, <3>1, <3>2
  <2>2. CASE table'[t][d] # table[t][d]
    <3>1. t = s /\ d = m /\ table'[t][d] = c
      BY <1>5, <2>2
    <3>2. routes[c] # {}
      BY <1>2
    <3>3. CASE left[c] = routes[c]
      BY <1>4, <3>1, <3>2, <3>3
    <3>4. CASE Min(routes[c]) \in routes[c] \ left[c]
      <4> DEFINE f == Min(routes[c])
      <4>1. f \in Dsts /\ table[s][f] = c
        BY <1>1, <1>2, <3>4 DEF TableInv, Slotted, s
      <4>2. table'[s][f] = c
        <5> HIDE DEF f
        <5> QED
          BY <1>1, <1>2, <1>5, <4>1
      <4> QED
        BY <3>1, <3>2, <4>1, <4>2
    <3> QED
      BY <1>3, <3>3, <3>4
  <2> QED
    BY <2>1, <2>2
<1> QED
  BY <1>7, <1>8, <1>9 DEF TableInv

LEMMA NextTables == LocalInv /\ TableInv /\ [Next]_allVars => TableInv'
<1> SUFFICES ASSUME LocalInv, TableInv, [Next]_allVars PROVE TableInv'
  OBVIOUS
<1>1. CASE UNCHANGED allVars
  BY <1>1 DEF allVars, vars, routing, TableInv, Slotted, Ruled, FirstOwned
<1>2. CASE Next
  <2>1. PICK c \in Containers : StepOf(c)
    BY <1>2, NextSteps
  <2>2. Types /\ TypesAt(c) /\ Local(c) /\ \A d \in Containers : TypesAt(d)
    BY DEF LocalInv
  <2>3. Only(c) /\ Local(c)'
    BY <2>1, <2>2, StepKeeps
  <2>4. Quiet(c) \/ Unrouted(c) \/ FindFreeTable(c) \/ AddRoute(c) \/ AddPolicyRule(c)
    BY <2>1, <2>2, <2>3, StepKinds
  <2> QED
    BY <2>2, <2>3, <2>4, QuietTables, UnroutedTables, FindFreeTableTables, AddRouteTables,
       AddPolicyRuleTables
<1> QED
  BY <1>1, <1>2

\* The routes of a connected container are all in the table its rule names, and
\* no container with the same routes has one there: for any number of ADDs that
\* race for tables, with any routes.
THEOREM OwnTableHolds == Spec => []OwnTable
<1>1. Init => TableInv
  BY DEF Init, MainInit, VethHostInit, TableInv, Slotted, Ruled, FirstOwned
<1>2. LocalInv /\ TableInv => OwnTable
  <2> SUFFICES ASSUME LocalInv, TableInv, NEW c \in Containers, rule[c] # NoTable, "veth" \in conf[c],
                      NEW d \in Dsts
               PROVE  /\ d \in routes[c] => table[rule[c]][d] = c
                      /\ table[rule[c]][d]
                            \in {c, NoDev} \cup {e \in Containers : routes[e] # routes[c]}
    BY DEF OwnTable
  <2>1. rule[c] \in Tables /\ table[rule[c]][d] \in Containers \cup {NoDev}
    BY DEF LocalInv, Types, RoutingTypes
  <2>2. /\ \A x \in routes[c] : table[rule[c]][x] = c
        /\ routes[c] # {} => Min(routes[c]) \in routes[c]
    BY DEF TableInv, Ruled
  <2>3. ASSUME NEW e \in Containers, table[rule[c]][d] = e, e # NoDev, routes[e] = routes[c]
        PROVE  e = c
    <3>1. routes[e] # {} /\ table[rule[c]][Min(routes[e])] = e
      BY <2>1, <2>3 DEF TableInv, FirstOwned
    <3> QED
      BY <2>2, <2>3, <3>1
  <2> QED
    BY <2>1, <2>2, <2>3
<1> QED
  BY <1>1, <1>2, LocalHolds, NextTables, PTL DEF Spec

=============================================================================
