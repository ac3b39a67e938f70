------------------------------- MODULE Intake -------------------------------
(***************************************************************************)
(* Everything the program takes in besides live frames: the machine's      *)
(* interfaces, a server's lease file, the DHCP payload of a packet, the    *)
(* registry of vendors.  The four readers share no state, so what holds of *)
(* each alone holds of them together; `reader` says which is looked at,    *)
(* and the input of the others stays the plainest there is.                *)
(***************************************************************************)
EXTENDS DhcpOptions, LeaseFile, Interfaces, Vendor

CONSTANTS PlainPayload,   \* no option at all
          PlainSystem     \* any machine

ASSUME IntakeAssumption == PlainPayload \in Payloads /\ PlainSystem \in Systems

VARIABLE reader

vars == <<dhcpVars, leaseVars, ifaceVars, vendorVars, reader>>

DhcpPlain   == payload = PlainPayload
LeasePlain  == file = <<>>
IfacePlain  == /\ system = PlainSystem /\ front = (CHOOSE f \in Fronts : TRUE)
               /\ iface = None /\ spa = "Probe" /\ explicit = FALSE
VendorPlain == oui_file = <<>>

Init ==
    /\ \/ reader = "dhcp"       /\ LeasePlain /\ IfacePlain /\ VendorPlain
       \/ reader = "leases"     /\ DhcpPlain /\ IfacePlain /\ VendorPlain
       \/ reader = "interfaces" /\ DhcpPlain /\ LeasePlain /\ VendorPlain
       \/ reader = "vendors"    /\ DhcpPlain /\ LeasePlain /\ IfacePlain
    /\ DhcpInit /\ LeaseInit /\ IfaceInit /\ VendorInit

ReadPayload ==
    reader = "dhcp" /\ DhcpNext /\ UNCHANGED <<leaseVars, ifaceVars, vendorVars, reader>>

ReadLeases ==
    reader = "leases" /\ LeaseNext /\ UNCHANGED <<dhcpVars, ifaceVars, vendorVars, reader>>

ReadInterfaces ==
    reader = "interfaces" /\ IfaceNext /\ UNCHANGED <<dhcpVars, leaseVars, vendorVars, reader>>

ReadVendors ==
    reader = "vendors" /\ VendorNext /\ UNCHANGED <<dhcpVars, leaseVars, ifaceVars, reader>>

Next == ReadPayload \/ ReadLeases \/ ReadInterfaces \/ ReadVendors

(* The thread that parses a payload waits for nothing.                     *)
Spec == Init /\ [][Next]_vars /\ WF_vars(ReadPayload)
=============================================================================
