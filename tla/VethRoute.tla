----------------------------- MODULE VethRoute ------------------------------
(***************************************************************************)
(* The main plugin cmd/veth-route.  Every container sends its traffic to   *)
(* 169.254.1.1, an address of the host's dummy0: each ADD makes sure that  *)
(* dummy0 is there, and calls for different containers do so at the same   *)
(* time.  The network has ipMasq set.                                      *)
(***************************************************************************)
EXTENDS Ipvlan

\* Mutant of EnsureDummy: an interface that exists is taken to be ready.
EnsureDummyOnce(c) ==
    /\ pc[c] = "dummyAdd"
    /\ dummy' = dummy \cup {"link"}
    /\ Goto(c, IF "link" \in dummy THEN "addrList" ELSE "dummyUp")
    /\ UNCHANGED <<att, sandbox, ipam, link, conf, rest>>

\* ensureDummy: LinkAdd, where EEXIST is no error.
EnsureDummy(c) ==
    /\ pc[c] = "dummyAdd"
    /\ dummy' = dummy \cup {"link"}
    /\ Goto(c, "dummyUp")
    /\ UNCHANGED <<att, sandbox, ipam, link, conf, rest>>

\* LinkSetUp and SetPromiscOn.
DummyUp(c) ==
    /\ pc[c] = "dummyUp"
    /\ dummy' = dummy \cup {"up"}
    /\ Goto(c, "addrList")
    /\ UNCHANGED <<att, sandbox, ipam, link, conf, rest>>

\* ensureAddr: nothing to do if AddrList has the address.
EnsureAddr(c) ==
    /\ pc[c] = "addrList"
    /\ Goto(c, IF "addr" \in dummy THEN "setupVeth" ELSE "addrAdd")
    /\ UNCHANGED <<att, sandbox, ipam, link, conf, dummy, rest>>

\* Mutant of AddrAdd: the address was not in the list, so EEXIST is an error.
AddrAddStrict(c) ==
    /\ pc[c] = "addrAdd"
    /\ IF "addr" \in dummy THEN Fails(c) ELSE Goto(c, "setupVeth") /\ UNCHANGED att
    /\ dummy' = dummy \cup {"addr"}
    /\ UNCHANGED <<sandbox, ipam, link, conf, rest>>

\* Another ADD may have added the address by now: EEXIST is no error.
AddrAdd(c) ==
    /\ pc[c] = "addrAdd"
    /\ dummy' = dummy \cup {"addr"}
    /\ Goto(c, "setupVeth")
    /\ UNCHANGED <<att, sandbox, ipam, link, conf, rest>>

\* setupContainerVeth: ip.SetupVeth; ConfigureIface follows.
SetupContainerVeth(c) ==
    /\ pc[c] = "setupVeth"
    /\ where' = [where EXCEPT ![c] = "cont"]
    /\ name' = [name EXCEPT ![c] = IfName]
    /\ Goto(c, "configure")
    /\ UNCHANGED <<att, sandbox, ipam, alias, conf, dummy, rest>>

\* The routes of the container, and setupHostVeth.
SetupHostVeth(c) ==
    /\ pc[c] = "hostVeth"
    /\ conf' = [conf EXCEPT ![c] = @ \cup {"route"}]
    /\ Goto(c, "masq")
    /\ UNCHANGED <<att, sandbox, ipam, link, dummy, rest>>

SetupIPMasq(c) ==
    /\ pc[c] = "masq"
    /\ conf' = [conf EXCEPT ![c] = @ \cup {"masq"}]
    /\ Goto(c, "print")
    /\ UNCHANGED <<att, sandbox, ipam, link, dummy, rest>>

\* DelLinkByNameAddr returns the addresses the link had; with none, there is
\* no masquerading to take down.
DelLinkByNameAddr(c) ==
    /\ pc[c] = "delLink"
    /\ IF "addr" \in conf[c] THEN Goto(c, "unmasq") /\ UNCHANGED att ELSE Deleted(c)
    /\ LinkGone(c, {"masq"})
    /\ UNCHANGED <<sandbox, ipam, dummy, rest>>

TeardownIPMasq(c) ==
    /\ pc[c] = "unmasq"
    /\ conf' = [conf EXCEPT ![c] = {}]
    /\ Deleted(c)
    /\ UNCHANGED <<sandbox, ipam, link, dummy, rest>>

VethRouteStep(c) ==
    /\ plugin[c] = "veth-route"
    /\ \/ ExecAdd(c, "dummyAdd")
       \/ EnsureDummy(c)
       \/ DummyUp(c)
       \/ EnsureAddr(c)
       \/ AddrAdd(c)
       \/ SetupContainerVeth(c)
       \/ ConfigureIface(c, "hostVeth")
       \/ SetupHostVeth(c)
       \/ SetupIPMasq(c)
       \/ ExecDelFirst(c)
       \/ DelLinkByNameAddr(c)
       \/ TeardownIPMasq(c)
       \/ StepFails(c, {"dummyAdd", "dummyUp", "addrList", "addrAdd", "setupVeth", "configure",
                        "hostVeth", "masq", "print", "delLink", "unmasq"})

=============================================================================
