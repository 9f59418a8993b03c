-------------------------- MODULE MCNetworkPolicy ---------------------------
(***************************************************************************)
(* Instances of NetworkPolicy for TLC.                                     *)
(***************************************************************************)
EXTENDS NetworkPolicy, TLC

CONSTANTS n1, n2, a1

\* Every policy selects every pod.
SelectsAll == [n \in Policies |-> Pods]

Start(ns, status, used, failed) ==
    [nps |-> ns, pods |-> [a \in Pods |-> status], changes |-> used, faults |-> failed]

\* Two changes without a fault, of policies or of the pod, and one change with a
\* fault, around one or two policies and a pod in every state.
Beginnings ==
    {Start({n1}, "ip", 0, 1), Start({}, "noip", 0, 1), Start({n1}, "none", 0, 1),
     Start({n1}, "ip", 1, 0), Start({n1}, "noip", 1, 0), Start({n1, n2}, "ip", 1, 1)}

\* The pod runs already, and any policies are there.
Running == {Start(ns, "ip", 0, 0) : ns \in SUBSET Policies}

\* For runs without temporal properties.
PolicySymmetry == Permutations(Policies)

=============================================================================
