----------------------------- MODULE Netfilter ------------------------------
(***************************************************************************)
(* The wrappers pkg/utils/iptables and pkg/utils/ipset, as far as          *)
(* pkg/policy uses them, over the part of the kernel that its commands     *)
(* change.  The runner of iptables holds its mutex during a command, check *)
(* included, and iptables-restore the lock of xtables: a command is one    *)
(* step.  The kernel refuses to delete a chain that holds rules or that a  *)
(* rule jumps to, to destroy a set that a rule matches, and to add a rule  *)
(* for a chain or a set that is not there; iptables-restore carries out    *)
(* all of its input or nothing.                                            *)
(***************************************************************************)
EXTENDS Naturals

CONSTANTS
    Policies,    \* names of network policies
    Pods,        \* names of pods of this node
    Nothing      \* no policy, chain or ipset

VARIABLES
    basic,      \* GLX-INGRESS and GLX-EGRESS are there, and FORWARD, INPUT and OUTPUT
                \* jump to them
    plcyChain,  \* policies that have a GLX-PLCY chain, whose rules match their ipset
    podChain,   \* podChain[a]: policies the GLX-POD chain of a jumps to before its
                \* DROP; {} is the flushed chain
    jump,       \* pods with a rule in GLX-INGRESS that jumps to their chain
    ipset       \* ipset[n]: entries of the ipset of n

kernel == <<basic, plcyChain, podChain, jump, ipset>>

NetfilterTypeOK ==
    /\ basic \in BOOLEAN
    /\ plcyChain \in SUBSET Policies
    /\ podChain \in [Pods -> {Nothing} \cup SUBSET Policies]
    /\ jump \in SUBSET Pods
    /\ ipset \in [Policies -> {Nothing} \cup SUBSET Pods]

NetfilterInit ==
    /\ basic = FALSE
    /\ plcyChain = {}
    /\ podChain = [a \in Pods |-> Nothing]
    /\ jump = {}
    /\ ipset = [n \in Policies |-> Nothing]

-----------------------------------------------------------------------------
(***************************************************************************)
(* ipset                                                                   *)
(***************************************************************************)
ListSets == {n \in Policies : ipset[n] # Nothing}

\* The commands map the sets s to the sets after them.  With -exist a set that
\* is there keeps its entries.
CreateSet(s, n) == [s EXCEPT ![n] = IF @ = Nothing THEN {} ELSE @]

ListEntries(n) == IF ipset[n] = Nothing THEN {} ELSE ipset[n]

\* An entry is added with -exist; it is an error if the set is not there.
AddEntry(s, n, as) == [s EXCEPT ![n] = IF @ = Nothing THEN @ ELSE @ \cup as]

DelEntry(s, n, as) == [s EXCEPT ![n] = IF @ = Nothing THEN @ ELSE @ \ as]

\* Sets that rules of one of these chains match stay.
DestroySet(s, sets, chains) == [n \in Policies |-> IF n \in sets \ chains THEN Nothing ELSE s[n]]

-----------------------------------------------------------------------------
(***************************************************************************)
(* iptables                                                                *)
(***************************************************************************)
\* The chains GetChainLines finds in the output of iptables-save.
SaveInto == plcyChain

\* restoreInternal with chains to write and chains to delete: whether it will
\* succeed, and what it does.
Restorable(write, delete) ==
    /\ write \subseteq ListSets
    /\ \A a \in Pods : podChain[a] # Nothing => podChain[a] \cap delete = {}

Restored(write, delete) ==
    IF Restorable(write, delete) THEN (plcyChain \cup write) \ delete ELSE plcyChain

RestorePod(a, ns) ==
    /\ ns \subseteq plcyChain
    /\ podChain' = [podChain EXCEPT ![a] = ns]

\* A chain that is there is no error for EnsureChain.
EnsureChain == basic' = TRUE

\* The rule for the chain of a pod is appended unless it is there; it is an error
\* if one of the two chains is not.
EnsureRule(a) == jump' = IF basic /\ podChain[a] # Nothing THEN jump \cup {a} ELSE jump

DeleteRule(a) == jump' = jump \ {a}

FlushChain(a) == podChain' = [podChain EXCEPT ![a] = IF @ = Nothing THEN @ ELSE {}]

DeleteChain(a) ==
    podChain' = [podChain EXCEPT ![a] = IF @ = {} /\ a \notin jump THEN Nothing ELSE @]

=============================================================================
