----------------------------- MODULE HostDevice -----------------------------
(***************************************************************************)
(* The main plugin cmd/host-device: the elastic interface that the IPAM    *)
(* plugin attached to the node is moved into the namespace of the          *)
(* container.  The network has no "device", so the interface is found by   *)
(* the MAC address of the Neutron port named after the container.          *)
(***************************************************************************)
EXTENDS MainPlugin

IsHostDevice(c) == plugin[c] = "host-device"

\* The node notices the attached port some time after Nova has been told, and
\* loses the device some time after the port is deleted, wherever it is.
Plug(c) ==
    /\ IsHostDevice(c) /\ ipam[c] /\ where[c] = "none"
    /\ \E n \in FreeNames(c) :
          /\ where' = [where EXCEPT ![c] = "host"]
          /\ name' = [name EXCEPT ![c] = n]
    /\ UNCHANGED <<pc, att, sandbox, ipam, alias, conf, dummy, rest>>

Unplug(c) ==
    /\ IsHostDevice(c) /\ ~ ipam[c] /\ where[c] # "none"
    /\ LinkGone(c, {"masq"})
    /\ UNCHANGED <<pc, att, sandbox, ipam, dummy, rest>>

-----------------------------------------------------------------------------
(***************************************************************************)
(* cmdAdd.  An error after ExecAdd reaches the deferred function that runs *)
(* ExecDel, except for one of PrintResult: err is not assigned there.      *)
(***************************************************************************)
\* getLinkMacAddr and getLink: the device is not found until it is plugged.
GetLink(c) ==
    /\ pc[c] = "getLink"
    /\ Goto(c, IF where[c] = "host" THEN "moveIn" ELSE "rollback")
    /\ UNCHANGED <<att, sandbox, ipam, link, conf, dummy, rest>>

MoveLinkIn(c) ==
    /\ pc[c] = "moveIn"
    /\ where' = [where EXCEPT ![c] = "cont"]
    /\ Goto(c, "setName")
    /\ UNCHANGED <<att, sandbox, ipam, name, alias, conf, dummy, rest>>

\* Mutant of SetName: the alias is set after the renaming.
SetNameFirst(c) ==
    /\ pc[c] = "setName"
    /\ alias' = [alias EXCEPT ![c] = IfName]
    /\ name' = [name EXCEPT ![c] = IfName]
    /\ Goto(c, "configure")
    /\ UNCHANGED <<att, sandbox, ipam, where, conf, dummy, rest>>

\* The name the device had on the host is kept as its alias.
SetName(c) ==
    /\ pc[c] = "setName"
    /\ alias' = [alias EXCEPT ![c] = name[c]]
    /\ name' = [name EXCEPT ![c] = IfName]
    /\ Goto(c, "configure")
    /\ UNCHANGED <<att, sandbox, ipam, where, conf, dummy, rest>>

\* One of the calls after LinkSetAlias fails.
SetNameFails(c) ==
    /\ pc[c] = "setName"
    /\ Fault
    /\ alias' = [alias EXCEPT ![c] = name[c]]
    /\ \E n \in {name[c], IfName} : name' = [name EXCEPT ![c] = n]
    /\ Goto(c, "rollback")
    /\ UNCHANGED <<plugin, att, sandbox, ipam, where, conf, dummy>>

AddStepFails(c) ==
    /\ pc[c] \in {"getLink", "moveIn", "setName", "configure"}
    /\ Fault
    /\ Goto(c, "rollback")
    /\ UNCHANGED <<plugin, att, sandbox, ipam, link, conf, dummy>>

\* Nobody looks at the result of this ExecDel.
Rollback(c) ==
    /\ pc[c] = "rollback"
    /\ \/ ipam' = [ipam EXCEPT ![c] = FALSE] /\ UNCHANGED faults
       \/ Fault /\ UNCHANGED ipam
    /\ Fails(c)
    /\ UNCHANGED <<plugin, sandbox, link, conf, dummy>>

-----------------------------------------------------------------------------
(***************************************************************************)
(* cmdDel                                                                  *)
(***************************************************************************)
\* Mutant of DelStart: nothing to do without a namespace.
DelStartReturns(c) ==
    /\ pc[c] = "delStart"
    /\ IF sandbox[c] = "gone" THEN Deleted(c)
       ELSE IF sandbox[c] = "dead" THEN Fails(c)
       ELSE Goto(c, "lookup") /\ UNCHANGED att
    /\ UNCHANGED <<sandbox, ipam, link, conf, dummy, rest>>

\* Mutant of DelStart: the empty path is opened like any other.
DelStartOpens(c) ==
    /\ pc[c] = "delStart"
    /\ IF sandbox[c] = "live" THEN Goto(c, "lookup") /\ UNCHANGED att ELSE Fails(c)
    /\ UNCHANGED <<sandbox, ipam, link, conf, dummy, rest>>

\* No namespace: only ExecDel is left to do.  A namespace that cannot be
\* opened is an error.
DelStart(c) ==
    /\ pc[c] = "delStart"
    /\ IF sandbox[c] = "gone" THEN Goto(c, "execDel") /\ UNCHANGED att
       ELSE IF sandbox[c] = "dead" THEN Fails(c)
       ELSE Goto(c, "lookup") /\ UNCHANGED att
    /\ UNCHANGED <<sandbox, ipam, link, conf, dummy, rest>>

\* moveLinkOut: LinkByName, and the device is set down.
MoveLinkOut(c) ==
    /\ pc[c] = "lookup"
    /\ IF where[c] = "cont" /\ name[c] = IfName
       THEN /\ conf' = [conf EXCEPT ![c] = {}]
            /\ Goto(c, "restore")
            /\ UNCHANGED att
       ELSE Fails(c) /\ UNCHANGED conf
    /\ UNCHANGED <<sandbox, ipam, link, dummy, rest>>

RestoreName(c) ==
    /\ pc[c] = "restore"
    /\ name' = [name EXCEPT ![c] = alias[c]]
    /\ Goto(c, "moveOut")
    /\ UNCHANGED <<att, sandbox, ipam, where, alias, conf, dummy, rest>>

\* LinkSetNsFd into the namespace of the host.
SetHostNs(c) ==
    /\ pc[c] = "moveOut"
    /\ name[c] \in FreeNames(c)
    /\ where' = [where EXCEPT ![c] = "host"]
    /\ Goto(c, "execDel")
    /\ UNCHANGED <<att, sandbox, ipam, name, alias, conf, dummy, rest>>

\* The host has a device of that name by now, or the call fails for another
\* reason.
SetNsFdRefused(c) == (name[c] \notin FreeNames(c) /\ UNCHANGED faults) \/ Fault

\* Mutant of SetHostNsFails: the name is not set back.
SetHostNsGivesUp(c) ==
    /\ pc[c] = "moveOut"
    /\ SetNsFdRefused(c)
    /\ Fails(c)
    /\ UNCHANGED <<plugin, sandbox, ipam, link, conf, dummy>>

\* The deferred function sets the name back, and ignores an error.
SetHostNsFails(c) ==
    /\ pc[c] = "moveOut"
    /\ \/ /\ SetNsFdRefused(c)
          /\ name' = [name EXCEPT ![c] = IfName]
       \/ /\ name[c] \notin FreeNames(c) /\ Fault
          /\ UNCHANGED name
    /\ Fails(c)
    /\ UNCHANGED <<plugin, sandbox, ipam, where, alias, conf, dummy>>

ExecDelLast(c) ==
    /\ pc[c] = "execDel"
    /\ ipam' = [ipam EXCEPT ![c] = FALSE]
    /\ Deleted(c)
    /\ UNCHANGED <<sandbox, link, conf, dummy, rest>>

HostDeviceStep(c) ==
    /\ IsHostDevice(c)
    /\ \/ ExecAdd(c, "getLink")
       \/ GetLink(c)
       \/ MoveLinkIn(c)
       \/ SetName(c)
       \/ SetNameFails(c)
       \/ ConfigureIface(c, "print")
       \/ AddStepFails(c)
       \/ Rollback(c)
       \/ DelStart(c)
       \/ MoveLinkOut(c)
       \/ RestoreName(c)
       \/ SetHostNs(c)
       \/ SetHostNsFails(c)
       \/ ExecDelLast(c)
       \/ StepFails(c, {"lookup", "restore", "print"})

=============================================================================
