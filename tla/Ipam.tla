-------------------------------- MODULE Ipam --------------------------------
(***************************************************************************)
(* What an IPAM plugin promises the container runtime, whatever store is   *)
(* behind it: an address is granted to one container at a time, and it is  *)
(* plumbed (on a Neutron port, so that packets for it reach the host) from *)
(* the moment it is granted until the runtime asks for its release.        *)
(***************************************************************************)
CONSTANTS Containers, Networks, IPs, None

VARIABLES
    granted,   \* granted[c, n]: address c uses on n, or None
    plumbed    \* addresses the network delivers to this host

ipamVars == <<granted, plumbed>>

InUse == {granted[cn] : cn \in Containers \X Networks} \ {None}

IpamInit ==
    /\ granted = [cn \in Containers \X Networks |-> None]
    /\ plumbed \in SUBSET IPs

Grant(c, n, a) ==
    /\ granted[<<c, n>>] = None
    /\ a \in plumbed \ InUse
    /\ granted' = [granted EXCEPT ![<<c, n>>] = a]
    /\ UNCHANGED plumbed

\* The runtime takes a container off all of its networks.
Revoke(c) ==
    /\ granted' = [cn \in Containers \X Networks |->
                      IF cn[1] = c THEN None ELSE granted[cn]]
    /\ UNCHANGED plumbed

\* The plugin may add and remove addresses, but none that is in use.
Plumb ==
    /\ plumbed' \in SUBSET IPs
    /\ InUse \subseteq plumbed'
    /\ UNCHANGED granted

IpamNext ==
    \/ \E c \in Containers, n \in Networks, a \in IPs : Grant(c, n, a)
    \/ \E c \in Containers : Revoke(c)
    \/ Plumb

IpamSpec == IpamInit /\ [][IpamNext]_ipamVars

=============================================================================
