---------------------------- MODULE Interfaces ------------------------------
(***************************************************************************)
(* The choice of the interface, and what is made of its addresses: the     *)
(* subnet that counts as legitimate by default, and the sender of the ARP  *)
(* requests (iface.rs, cli.rs expected_or_local, arp.rs Spa, scan.rs       *)
(* validate_spa).  The system's interfaces change under the program, which *)
(* reads them once for the baseline and again when a scan starts.          *)
(*                                                                         *)
(* Of an interface's addresses the IPv4 ones matter, in their order; an    *)
(* address is represented by its subnet, one host of it being ours.        *)
(***************************************************************************)
EXTENDS Naturals, Sequences

CONSTANTS Names,      \* of interfaces: numbers, in the order of the selector
          Subnets,    \* where an interface may have an address
          ApipaNets,  \* those of them in 169.254/16
          Systems,    \* what datalink::interfaces() may return
          Fronts,     \* which front ends are looked at: "cli", "tui"
          None        \* for all kinds of Option

Interface == [name : Names, up : BOOLEAN, loopback : BOOLEAN, mac : BOOLEAN,
              v4 : Seq(Subnets)]

ASSUME InterfacesAssumption ==
    /\ Names \subseteq Nat
    /\ ApipaNets \subseteq Subnets
    /\ Systems \subseteq Seq(Interface)
    /\ \A sys \in Systems : \A i, j \in DOMAIN sys : sys[i].name = sys[j].name => i = j
    /\ Fronts \subseteq {"cli", "tui"}
    /\ None \notin Names \cup Subnets

Modes == {"Probe", "Local", "Dest", "Neighbor", "Fixed"}

VARIABLES
    system,      \* the interfaces of the machine
    front,       \* "cli" or "tui"
    iface,       \* what --iface says, or the form's selector: a name or None
    spa,         \* the sender mode
    explicit,    \* legitimate subnets are given by the user
    list,        \* tui: list_ifaces() as the program started
    pc,          \* "begin", "form", "start", "scan" or "failed"
    baseline,    \* the default for what is legitimate: a subnet or None
    local,       \* what the scan knows of its interface, or None
    asRead,      \* history: the machine as it was when the default was read
    unchanged    \* history: the scan found the machine as it was then

historyVars == <<asRead, unchanged>>
ifaceVars   == <<system, front, iface, spa, explicit, list, pc, baseline, local, historyVars>>

HasV4(i) == i.v4 # <<>>

(* The subnet of an interface is that of its first IPv4 address, unless it *)
(* is one the system gave itself (is_apipa_net).                           *)
SubnetOf(i) == IF HasV4(i) /\ Head(i.v4) \notin ApipaNets THEN Head(i.v4) ELSE None

LocalOf(i) == [name |-> i.name, ipv4 |-> IF HasV4(i) THEN Head(i.v4) ELSE None,
               net |-> SubnetOf(i)]

Foremost(ks) == CHOOSE k \in ks : \A j \in ks : k <= j
FirstOf(machine, ks) == IF ks = {} THEN None ELSE LocalOf(machine[Foremost(ks)])

(* iface::resolve.  By name; or else the first active interface with an    *)
(* IPv4 address, or the first active one.                                  *)
Named(machine, name)  == {k \in DOMAIN machine : machine[k].name = name /\ machine[k].mac}
Active(machine)       == {k \in DOMAIN machine : /\ machine[k].up /\ machine[k].mac
                                                 /\ ~machine[k].loopback}
ActiveWithV4(machine) == {k \in Active(machine) : HasV4(machine[k])}

Resolve(machine, name) ==
    FirstOf(machine, IF name # None THEN Named(machine, name)
                     ELSE IF ActiveWithV4(machine) # {} THEN ActiveWithV4(machine)
                     ELSE Active(machine))

(* iface::list_ifaces: the ones with a subnet stand first, then by name.   *)
Entry(i) == [name |-> i.name, net |-> SubnetOf(i)]

ListIfaces == {Entry(system[k]) : k \in {j \in DOMAIN system : ~system[j].loopback /\ system[j].mac}}

NotAfter(e, f) == IF (e.net = None) = (f.net = None) THEN e.name <= f.name ELSE e.net # None
Top(entries)   == CHOOSE e \in entries : \A f \in entries : NotAfter(e, f)

ListedAs(name) == CHOOSE e \in list : e.name = name

IfaceInit ==
    /\ system \in Systems
    /\ front \in Fronts
    /\ iface \in IF front = "cli" THEN Names \cup {None} ELSE {None}
    /\ spa \in Modes
    /\ explicit \in BOOLEAN
    /\ list = {}
    /\ pc = "begin"
    /\ baseline = None
    /\ local = None
    /\ asRead = <<>>
    /\ unchanged = FALSE

(* An interface goes up or down, an address comes or goes.                 *)
SystemChanges ==
    /\ pc # "failed"
    /\ system' \in Systems \ {system}
    /\ UNCHANGED <<front, iface, spa, explicit, list, pc, baseline, local, historyVars>>

-----------------------------------------------------------------------------
(* Fault: the default is not that of the interface named.                  *)
CliBaselineOfAny ==
    /\ pc = "begin" /\ front = "cli"
    /\ IF explicit THEN pc' = "start" /\ UNCHANGED <<baseline, asRead>>
       ELSE /\ asRead' = system
            /\ IF Resolve(system, None) = None THEN pc' = "failed" /\ UNCHANGED baseline
               ELSE pc' = "start" /\ baseline' = Resolve(system, None).net
    /\ UNCHANGED <<system, front, iface, spa, explicit, list, local, unchanged>>

(* main and expected_or_local: the baseline is the subnet of the interface *)
(* as it is found now; an interface that is not found ends the program.    *)
CliBaseline ==
    /\ pc = "begin" /\ front = "cli"
    /\ IF explicit THEN pc' = "start" /\ UNCHANGED <<baseline, asRead>>
       ELSE /\ asRead' = system
            /\ IF Resolve(system, iface) = None THEN pc' = "failed" /\ UNCHANGED baseline
               ELSE pc' = "start" /\ baseline' = Resolve(system, iface).net
    /\ UNCHANGED <<system, front, iface, spa, explicit, list, local, unchanged>>

(* App::new: the interfaces are listed, once.                              *)
TuiOpens ==
    /\ pc = "begin" /\ front = "tui"
    /\ list' = ListIfaces
    /\ iface' = IF list' = {} THEN None ELSE Top(list').name
    /\ pc' = "form"
    /\ asRead' = system
    /\ UNCHANGED <<system, front, spa, explicit, baseline, local, unchanged>>

(* The form: another interface, another sender.                            *)
TuiChooses ==
    /\ pc = "form"
    /\ \/ iface' \in {e.name : e \in list} /\ UNCHANGED <<spa, explicit>>
       \/ spa' \in Modes /\ UNCHANGED <<iface, explicit>>
       \/ explicit' \in BOOLEAN /\ UNCHANGED <<iface, spa>>
    /\ UNCHANGED <<system, front, list, pc, baseline, local, historyVars>>

(* finish_config, from what was listed.                                    *)
TuiLaunches ==
    /\ pc = "form"
    /\ baseline' = IF explicit \/ iface = None THEN None ELSE ListedAs(iface).net
    /\ pc' = "start"
    /\ UNCHANGED <<system, front, iface, spa, explicit, list, local, historyVars>>

(* validate_spa: our own address as the sender needs one.                  *)
ValidSpa(l) == spa = "Local" => l.ipv4 # None

(* ScanHandle::start: the interface is found again, and validate_spa looks *)
(* at the sender mode.  If it fails the command line ends, and the form is *)
(* there again.                                                            *)
Start ==
    /\ pc = "start"
    /\ LET l == Resolve(system, iface)
       IN IF l = None \/ ~ValidSpa(l)
          THEN /\ pc' = IF front = "cli" THEN "failed" ELSE "form"
               /\ UNCHANGED <<local, unchanged>>
          ELSE pc' = "scan" /\ local' = l /\ unchanged' = (system = asRead)
    /\ UNCHANGED <<system, front, iface, spa, explicit, list, baseline, asRead>>

(* The scan is over: the form is there again, the command line ends.       *)
ScanOver ==
    /\ pc = "scan"
    /\ pc' = IF front = "cli" THEN "failed" ELSE "form"
    /\ local' = None
    /\ baseline' = None
    /\ unchanged' = FALSE
    /\ UNCHANGED <<system, front, iface, spa, explicit, list, asRead>>

IfaceNext ==
    \/ SystemChanges \/ CliBaseline \/ TuiOpens \/ TuiChooses \/ TuiLaunches
    \/ Start \/ ScanOver
    \/ pc = "failed" /\ UNCHANGED ifaceVars

IfaceSpec == IfaceInit /\ [][IfaceNext]_ifaceVars

-----------------------------------------------------------------------------
(* Spa::for_target: the sender of the request for a target, here one of    *)
(* the kinds of address the choice tells apart.                            *)
SenderFor(target) ==
    CASE spa = "Probe"    -> "unspecified"
      [] spa = "Local"    -> IF local.ipv4 = None THEN "unspecified" ELSE "ours"
      [] spa = "Dest"     -> target
      [] spa = "Neighbor" -> IF target = "first" THEN "second" ELSE "first"
      [] spa = "Fixed"    -> "given"

Targets == {"first", "second", "another"}    \* .1, .2 and any other of a /24

(* Properties.                                                             *)
LocalType == [name : Names, ipv4 : Subnets \cup {None}, net : Subnets \cup {None}]

IfaceTypeOK ==
    /\ system \in Systems
    /\ front \in Fronts
    /\ iface \in Names \cup {None}
    /\ spa \in Modes
    /\ explicit \in BOOLEAN
    /\ list \subseteq [name : Names, net : Subnets \cup {None}]
    /\ pc \in {"begin", "form", "start", "scan", "failed"}
    /\ baseline \in Subnets \cup {None}
    /\ local \in IF pc = "scan" THEN LocalType ELSE {None}
    /\ asRead \in Systems \cup {<<>>}
    /\ unchanged \in BOOLEAN

(* arp.rs:83-84: a sender mode that names our own address never falls back *)
(* to 0.0.0.0, though the address may be lost at any time before a scan.   *)
LocalSenderIsOurs ==
    pc = "scan" => \A t \in Targets : SenderFor(t) = "unspecified" <=> spa = "Probe"

(* iface.rs:18 and 24: an address the system gave itself is neither a      *)
(* baseline nor a subnet to sweep, in either front end, whatever becomes   *)
(* of the interface.                                                       *)
NeverApipa ==
    /\ baseline \notin ApipaNets
    /\ local # None => local.net \notin ApipaNets

(* The packets leave by the interface the user named on the command line   *)
(* or sees in the form, or the scan fails, even if that one has gone since *)
(* and others are there.                                                   *)
RunsOnTheNamed ==
    pc = "scan" /\ iface # None => local.name = iface

(* cli.rs:20: legitimate is by default "the interface's own subnet".  The  *)
(* program reads the machine for it once, and finds the interface of the   *)
(* scan at a later reading.  The default of a scan on an interface the     *)
(* user named or sees is what that very interface had at the first         *)
(* reading; it is the subnet the scan finds there, with or without a name, *)
(* if nothing has changed in between.  (If something has, a scan without   *)
(* --iface may judge by the subnet of another interface.)                  *)
DefaultIsItsSubnet ==
    pc = "scan" /\ ~explicit =>
        /\ iface # None =>
              \E k \in DOMAIN asRead : /\ asRead[k].name = local.name
                                       /\ baseline = SubnetOf(asRead[k])
        /\ unchanged => baseline = local.net

(* A scan runs on the interface and with the sender it was asked to use,   *)
(* and judges by the default it was asked for, or does not run, whatever   *)
(* becomes of the interfaces.                                              *)
ScanAsAsked == RunsOnTheNamed /\ LocalSenderIsOurs /\ NeverApipa /\ DefaultIsItsSubnet
=============================================================================
