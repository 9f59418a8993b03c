------------------------------ MODULE VethHost ------------------------------
(***************************************************************************)
(* The chained plugin cmd/veth-host.  It runs after ipvlan and connects    *)
(* the container to its host with a veth pair.  Traffic that comes in from *)
(* the veth goes by a routing table of its own: each ADD looks for a table *)
(* that no policy rule names, writes its routes into it and then adds the  *)
(* rule, while ADDs for other containers do the same.  Nothing is undone   *)
(* when a step fails, and cmdDel ignores every error.                      *)
(***************************************************************************)
EXTENDS Ipvlan, FiniteSetsExt

CONSTANTS
    Tables,      \* ids of routing tables from TableStart on, enough for all containers
    Dsts,        \* route destinations, numbered in the order of their strings
    ChainConfs,  \* values of ipMasq and routes below
    MaxTries,    \* how often addPolicyRules tries (10 in the code)
    NoTable,     \* no routing table
    NoDev        \* no route for a destination

ASSUME VethHostAssumption ==
    /\ Dsts \subseteq Nat
    /\ ChainConfs \subseteq [ipMasq : BOOLEAN, routes : [Containers -> SUBSET Dsts]]
    /\ MaxTries \in Nat \ {0}
    /\ Cardinality(Tables) >= Cardinality(Containers)
    /\ NoTable \notin Tables /\ NoDev \notin Containers

VARIABLES
    ipMasq,    \* conf.IPMasq of the chain
    routes,    \* routes[c]: result.Routes of the IPAM plugin for c
    table,     \* table[t][d]: the container whose veth the route to d in t leads to
    rule,      \* rule[c]: the table that the rule for the veth of c names
    nodePort,  \* there is a policy rule for marked node port traffic
    slot,      \* slot[c]: table variable of addPolicyRules
    left,      \* left[c]: routes still to be added to it
    tries      \* tries[c]: collisions so far

setup   == <<ipMasq, routes>>
local   == <<slot, left, tries>>
routing == <<ipMasq, routes, table, rule, nodePort, slot, left, tries>>

VethHostTypeOK ==
    /\ [ipMasq |-> ipMasq, routes |-> routes] \in ChainConfs
    /\ table \in [Tables -> [Dsts -> Containers \cup {NoDev}]]
    /\ rule \in [Containers -> Tables \cup {NoTable}]
    /\ nodePort \in BOOLEAN
    /\ slot \in [Containers -> Tables \cup {NoTable}]
    /\ \A c \in Containers : pc[c] = "addRoute" => slot[c] \in Tables
    /\ \A c \in Containers : left[c] \subseteq routes[c]
    /\ tries \in [Containers -> 0..MaxTries]

VethHostInit ==
    /\ \E cf \in ChainConfs : ipMasq = cf.ipMasq /\ routes = cf.routes
    /\ table = [t \in Tables |-> [d \in Dsts |-> NoDev]]
    /\ rule = [c \in Containers |-> NoTable]
    /\ nodePort = FALSE
    /\ slot = [c \in Containers |-> NoTable]
    /\ left = [c \in Containers |-> {}]
    /\ tries = [c \in Containers |-> 0]

\* The call ends or dies: its variables go with it.
Discard(c) ==
    /\ slot' = [slot EXCEPT ![c] = NoTable]
    /\ left' = [left EXCEPT ![c] = {}]
    /\ tries' = [tries EXCEPT ![c] = 0]

\* The kernel takes the routes of a link that is deleted out of every table.
\* The rules that name the link stay.
RoutesGone(c) ==
    table' = [t \in Tables |-> [d \in Dsts |-> IF table[t][d] = c THEN NoDev ELSE table[t][d]]]

main == <<sandbox, ipam, link, dummy, rest>>

-----------------------------------------------------------------------------
(***************************************************************************)
(* cmdAdd                                                                  *)
(***************************************************************************)
\* The result of ipvlan becomes the prevResult of veth-host.
PrevResult(c) ==
    /\ pc[c] = "print"
    /\ Goto(c, "contVeth")
    /\ UNCHANGED <<att, conf, main, routing>>

\* setupContainerVeth: the veth pair, the SNAT rule and the routes inside the
\* container; then the host's routes to the addresses of the pod.
SetupVeth(c) ==
    /\ pc[c] = "contVeth"
    /\ conf' = [conf EXCEPT ![c] = @ \cup {"veth"}]
    /\ Goto(c, "findTable")
    /\ UNCHANGED <<att, main, routing>>

\* It fails after ip.SetupVeth has created the pair.
SetupVethFails(c) ==
    /\ pc[c] = "contVeth"
    /\ Fault
    /\ conf' = [conf EXCEPT ![c] = @ \cup {"veth"}]
    /\ Fails(c)
    /\ UNCHANGED <<plugin, sandbox, ipam, link, dummy, routing>>

\* Ids that no rule names; a table may hold routes already.
FreeTables == Tables \ {rule[d] : d \in Containers}

\* findFreeTable: the first free id from a random one on.  There are 2^32.
FindFreeTable(c) ==
    /\ pc[c] = "findTable"
    /\ \E t \in FreeTables : slot' = [slot EXCEPT ![c] = t]
    /\ left' = [left EXCEPT ![c] = routes[c]]
    /\ Goto(c, "addRoute")
    /\ UNCHANGED <<att, conf, main, setup, table, rule, nodePort, tries>>

\* Mutant of AddRoute: netlink.RouteReplace.
AddRouteReplaces(c) ==
    LET d == Min(left[c]) IN
    /\ pc[c] = "addRoute" /\ left[c] # {}
    /\ table' = [table EXCEPT ![slot[c]][d] = c]
    /\ left' = [left EXCEPT ![c] = @ \ {d}]
    /\ UNCHANGED <<pc, att, conf, main, setup, rule, nodePort, slot, tries>>

\* netlink.RouteAdd, in the order of the destinations.
AddRoute(c) ==
    LET d == Min(left[c]) IN
    /\ pc[c] = "addRoute" /\ left[c] # {}
    /\ table[slot[c]][d] = NoDev
    /\ table' = [table EXCEPT ![slot[c]][d] = c]
    /\ left' = [left EXCEPT ![c] = @ \ {d}]
    /\ UNCHANGED <<pc, att, conf, main, setup, rule, nodePort, slot, tries>>

\* netlink.RouteAdd fails, because a route to this destination is in the table
\* (EEXIST) or otherwise: the routes already added stay, and another table is
\* tried.
Collision(c) ==
    /\ pc[c] = "addRoute" /\ left[c] # {}
    /\ \/ table[slot[c]][Min(left[c])] # NoDev /\ UNCHANGED faults
       \/ table[slot[c]][Min(left[c])] = NoDev /\ Fault
    /\ IF tries[c] + 1 < MaxTries
       THEN /\ Goto(c, "findTable")
            /\ slot' = [slot EXCEPT ![c] = NoTable]
            /\ left' = [left EXCEPT ![c] = {}]
            /\ tries' = [tries EXCEPT ![c] = @ + 1]
            /\ UNCHANGED att
       ELSE Fails(c) /\ Discard(c)
    /\ UNCHANGED <<plugin, conf, sandbox, ipam, link, dummy, setup, table, rule, nodePort>>

\* netlink.RuleAdd for traffic from the veth.
AddPolicyRule(c) ==
    /\ pc[c] = "addRoute" /\ left[c] = {}
    /\ rule' = [rule EXCEPT ![c] = slot[c]]
    /\ Discard(c)
    /\ Goto(c, IF ipMasq THEN "chainMasq" ELSE "ruleList")
    /\ UNCHANGED <<att, conf, main, setup, table, nodePort>>

ChainIPMasq(c) ==
    /\ pc[c] = "chainMasq"
    /\ conf' = [conf EXCEPT ![c] = @ \cup {"masq"}]
    /\ Goto(c, "ruleList")
    /\ UNCHANGED <<att, main, routing>>

\* setupNodePortRule: the rules of the mangle table, then RuleList.
NodePortRuleList(c) ==
    /\ pc[c] = "ruleList"
    /\ Goto(c, IF nodePort THEN "pass" ELSE "ruleAdd")
    /\ UNCHANGED <<att, conf, main, routing>>

\* RuleAdd fails (EEXIST) if another ADD has added the rule since RuleList.
NodePortRuleAdd(c) ==
    /\ pc[c] = "ruleAdd"
    /\ IF nodePort THEN Fails(c) ELSE Goto(c, "pass") /\ UNCHANGED att
    /\ nodePort' = TRUE
    /\ UNCHANGED <<conf, main, setup, table, rule, local>>

-----------------------------------------------------------------------------
(***************************************************************************)
(* cmdDel runs before that of ipvlan, and never fails.                     *)
(***************************************************************************)
\* The lookups inside the namespace.  Without a path, without a namespace, with
\* ipMasq off and without the addresses of args.IfName there is nothing to do.
ChainDel(c) ==
    /\ pc[c] = "chainDel"
    /\ Goto(c, IF sandbox[c] = "live" /\ ipMasq /\ name[c] = IfName /\ "addr" \in conf[c]
               THEN "chainUnmasq" ELSE "execDel")
    /\ UNCHANGED <<att, conf, main, routing>>

\* ip.TeardownIPMasq for every address, then the peer of veth0, if found.
ChainUnmasq(c) ==
    /\ pc[c] = "chainUnmasq"
    /\ conf' = [conf EXCEPT ![c] = @ \ {"masq"}]
    /\ Goto(c, IF "veth" \in conf[c] THEN "ruleDel" ELSE "execDel")
    /\ UNCHANGED <<att, main, routing>>

RuleDel(c) ==
    /\ pc[c] = "ruleDel"
    /\ rule' = [rule EXCEPT ![c] = NoTable]
    /\ Goto(c, "vethDel")
    /\ UNCHANGED <<att, conf, main, setup, table, nodePort, local>>

VethLinkDel(c) ==
    /\ pc[c] = "vethDel"
    /\ conf' = [conf EXCEPT ![c] = @ \ {"veth"}]
    /\ RoutesGone(c)
    /\ Goto(c, "execDel")
    /\ UNCHANGED <<att, main, setup, rule, nodePort, local>>

\* Errors of DEL are ignored: it goes on, or gives up when a link is not found.
ChainDelFails(c) ==
    /\ pc[c] \in {"chainDel", "chainUnmasq", "ruleDel", "vethDel"}
    /\ Fault
    /\ Goto(c, CASE pc[c] = "chainUnmasq" -> "ruleDel"
                 [] pc[c] = "ruleDel"     -> "vethDel"
                 [] OTHER                 -> "execDel")
    /\ UNCHANGED <<plugin, att, conf, sandbox, ipam, link, dummy, routing>>

-----------------------------------------------------------------------------
\* A step of cmdAdd that has no other effect fails.
ChainAddFails(c) ==
    /\ left[c] = {}
    /\ StepFails(c, {"contVeth", "findTable", "addRoute", "chainMasq", "ruleList", "ruleAdd",
                     "pass"})
    /\ Discard(c)
    /\ UNCHANGED <<setup, table, rule, nodePort>>

VethHostStep(c) ==
    /\ plugin[c] = "chain"
    /\ \/ PrevResult(c)
       \/ SetupVeth(c) \/ SetupVethFails(c)
       \/ FindFreeTable(c)
       \/ AddRoute(c) \/ Collision(c) \/ AddPolicyRule(c)
       \/ ChainIPMasq(c)
       \/ NodePortRuleList(c) \/ NodePortRuleAdd(c)
       \/ ChainDel(c) \/ ChainUnmasq(c) \/ RuleDel(c) \/ VethLinkDel(c)
       \/ ChainAddFails(c) \/ ChainDelFails(c)

\* The veth pair goes with the namespace, and the routes with the veth pair.
ChainSandboxDies(c) == SandboxDies(c) /\ RoutesGone(c) /\ UNCHANGED <<setup, rule, nodePort, local>>

ChainCrash(c) == Crash(c) /\ Discard(c) /\ UNCHANGED <<setup, table, rule, nodePort>>

=============================================================================
