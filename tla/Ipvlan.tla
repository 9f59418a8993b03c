------------------------------- MODULE Ipvlan -------------------------------
(***************************************************************************)
(* The main plugin cmd/ipvlan.  The link is created first and the IPAM     *)
(* plugin runs after it; nothing is undone when a step fails.  It is also  *)
(* the first plugin of a chain with veth-host.                             *)
(***************************************************************************)
EXTENDS MainPlugin

\* Plugins whose cmdDel runs ExecDel before it deletes the link.
ReleasesFirst(c) == plugin[c] \in {"ipvlan", "veth-route"}

\* createIpvlan: the link appears in the namespace under a random name.
CreateIpvlan(c) ==
    /\ pc[c] = "linkAdd"
    /\ where' = [where EXCEPT ![c] = "cont"]
    /\ name' = [name EXCEPT ![c] = TmpName]
    /\ Goto(c, "rename")
    /\ UNCHANGED <<att, sandbox, ipam, alias, conf, dummy, rest>>

RenameLink(c) ==
    /\ pc[c] = "rename"
    /\ name' = [name EXCEPT ![c] = IfName]
    /\ Goto(c, "execAdd")
    /\ UNCHANGED <<att, sandbox, ipam, where, alias, conf, dummy, rest>>

\* Mutant of ExecDelFirst: the namespace is looked at first.
ExecDelSkipped(c) ==
    /\ pc[c] = "execDel"
    /\ IF sandbox[c] = "gone" THEN Deleted(c) /\ UNCHANGED ipam
       ELSE /\ ipam' = [ipam EXCEPT ![c] = FALSE]
            /\ IF sandbox[c] = "dead" THEN Fails(c)
               ELSE Goto(c, "delLink") /\ UNCHANGED att
    /\ UNCHANGED <<sandbox, link, conf, dummy, rest>>

\* The address is released whatever has become of the namespace.
ExecDelFirst(c) ==
    /\ pc[c] = "execDel"
    /\ ipam' = [ipam EXCEPT ![c] = FALSE]
    /\ IF sandbox[c] = "gone" THEN Deleted(c)
       ELSE IF sandbox[c] = "dead" THEN Fails(c)
       ELSE Goto(c, "delLink") /\ UNCHANGED att
    /\ UNCHANGED <<sandbox, link, conf, dummy, rest>>

\* DelLinkByName: a link that is not there is no error.
DelLinkByName(c) ==
    /\ pc[c] = "delLink"
    /\ IF name[c] = IfName THEN LinkGone(c, {"masq", "veth"}) ELSE UNCHANGED <<link, conf>>
    /\ Deleted(c)
    /\ UNCHANGED <<sandbox, ipam, dummy, rest>>

IpvlanStep(c) ==
    /\ plugin[c] \in {"ipvlan", "chain"}
    /\ \/ CreateIpvlan(c)
       \/ RenameLink(c)
       \/ ExecAdd(c, "configure")
       \/ ConfigureIface(c, "print")
       \/ ExecDelFirst(c)
       \/ DelLinkByName(c)
       \/ StepFails(c, {"linkAdd", "rename", "configure", "print", "delLink"})

=============================================================================
