----------------------------- MODULE LeaseFile ------------------------------
(***************************************************************************)
(* The parsers of a DHCP server's lease file (dhcp.rs, parse_leases_file): *)
(* which of the two formats a file is taken for, and the loop over its     *)
(* lines, one line per step.  What comes out is merged into the inventory  *)
(* of a scan that starts (scan.rs, ScanHandle::start).                     *)
(*                                                                         *)
(* A line is what the parsers can tell of it.  Host names follow the MAC   *)
(* through both parsers and are left out.  Four words alone do not tell    *)
(* the formats apart: ISC's comments and times (`starts 4 2024/01/01       *)
(* 10:00:00;`) have them too, but no MAC for the second word; and no line  *)
(* of dnsmasq's begins with one of ISC's keywords.                         *)
(***************************************************************************)
EXTENDS Inventory, FiniteSets

CONSTANTS Files,      \* what the file may hold: sequences of lines
          Mangled,    \* a second word with a colon that is not a MAC
          Plain,      \* one without a colon
          NoMac

(* entry: at least four words, of which the second and the third matter.   *)
(* lease, hardware, close: what the ISC parser knows; it skips entries.    *)
(* other: a line of fewer words, as the binding state of a block; nobody   *)
(* reads it.                                                               *)
LeaseLine ==
    [type : {"entry"}, mac : Macs \cup {Mangled, Plain}, ip : Ips \cup {NoIp}]
      \cup [type : {"lease"}, ip : Ips \cup {NoIp}]
      \cup [type : {"hardware"}, mac : Macs \cup {NoMac}]
      \cup [type : {"close", "blank", "other"}]

ASSUME LeaseFileAssumption ==
    /\ Files \subseteq Seq(LeaseLine)
    /\ NoMac \notin Macs /\ {Mangled, Plain} \cap Macs = {}

VARIABLES
    file,
    phase,      \* "detect", "dnsmasq", "isc", "merge" or "over"
    at,         \* the line to be read next
    ip, mac,    \* parse_isc: what the block has told so far
    out,        \* the leases read, as <<MAC, IP>>
    inv         \* the inventory

parserVars == <<file, phase, at, ip, mac, out>>
leaseVars  == <<parserVars, inv>>

line == file[at]

LeaseInit ==
    /\ file \in Files
    /\ phase = "detect"
    /\ at = 1
    /\ ip = NoIp /\ mac = NoMac
    /\ out = <<>>
    /\ inv = NewInventory

(* parse_leases_file: the first line that is not blank decides.            *)
LooksDnsmasq ==
    \E k \in DOMAIN file :
        /\ file[k].type = "entry" /\ file[k].mac # Plain
        /\ \A j \in 1 .. k - 1 : file[j].type = "blank"

Detect ==
    /\ phase = "detect"
    /\ phase' = IF LooksDnsmasq THEN "dnsmasq" ELSE "isc"
    /\ UNCHANGED <<file, at, ip, mac, out, inv>>

Reading(parser) ==
    /\ phase = parser
    /\ at \in DOMAIN file
    /\ at' = at + 1
    /\ UNCHANGED <<file, phase, inv>>

(* One line of parse_dnsmasq.  A line that does not parse is skipped.      *)
DnsmasqLine ==
    /\ Reading("dnsmasq")
    /\ out' = IF line.type = "entry" /\ line.mac \in Macs /\ line.ip # NoIp
              THEN Append(out, <<line.mac, line.ip>>) ELSE out
    /\ UNCHANGED <<ip, mac>>

(* Fault: a block that is opened inherits from one that was cut short.     *)
OpenBlockInherits ==
    /\ Reading("isc")
    /\ line.type = "lease"
    /\ ip' = line.ip
    /\ UNCHANGED <<mac, out>>

(* The lines of parse_isc.  A block that is opened forgets what an earlier *)
(* one has told, whether that was closed or cut short.                     *)
OpenBlock ==
    /\ Reading("isc")
    /\ line.type = "lease"
    /\ ip' = line.ip
    /\ mac' = NoMac
    /\ UNCHANGED out

HardwareLine ==
    /\ Reading("isc")
    /\ line.type = "hardware"
    /\ mac' = line.mac
    /\ UNCHANGED <<ip, out>>

(* A brace alone on a line closes the block, whichever it closes.          *)
CloseBlock ==
    /\ Reading("isc")
    /\ line.type = "close"
    /\ out' = IF ip # NoIp /\ mac # NoMac THEN Append(out, <<mac, ip>>) ELSE out
    /\ ip' = NoIp
    /\ mac' = NoMac

OtherLine ==
    /\ Reading("isc")
    /\ line.type \notin {"lease", "hardware", "close"}
    /\ UNCHANGED <<ip, mac, out>>

EndOfFile ==
    /\ phase \in {"dnsmasq", "isc"}
    /\ at \notin DOMAIN file
    /\ phase' = "merge"
    /\ UNCHANGED <<file, at, ip, mac, out, inv>>

(* What out says of a MAC last: a later lease takes the place of an        *)
(* earlier one.                                                            *)
Listed(m) == {k \in DOMAIN out : out[k][1] = m}

LastListed(m) ==
    IF Listed(m) = {} THEN NoIp
    ELSE out[CHOOSE k \in Listed(m) : \A j \in Listed(m) : j <= k][2]

(* merge_lease_file, before capture starts.                                *)
Merge ==
    /\ phase = "merge"
    /\ inv' = MergeLeaseFile(inv, [m \in Macs |-> LastListed(m)])
    /\ phase' = "over"
    /\ UNCHANGED <<file, at, ip, mac, out>>

LeaseOver == phase = "over" /\ UNCHANGED leaseVars

LeaseFileStep == Detect \/ DnsmasqLine \/ OpenBlock \/ HardwareLine \/ CloseBlock \/ OtherLine
           \/ EndOfFile \/ Merge

LeaseNext == LeaseFileStep \/ LeaseOver

LeaseSpec == LeaseInit /\ [][LeaseNext]_leaseVars

-----------------------------------------------------------------------------
(* What a file says, without a parser.                                     *)

(* Block of the ISC format: opened at i, closed at k, and nothing opened   *)
(* or closed in between.                                                   *)
IsBlock(i, k) ==
    /\ i < k /\ file[i].type = "lease" /\ file[k].type = "close"
    /\ \A j \in i + 1 .. k - 1 : file[j].type \notin {"lease", "close"}

(* The MAC of a block: what its last hardware line says.                   *)
MacIn(i, k) ==
    LET said == {j \in i .. k : file[j].type = "hardware"}
    IN IF said = {} THEN NoMac
       ELSE file[CHOOSE j \in said : \A l \in said : l <= j].mac

IscSays(p) == \E i, k \in DOMAIN file : IsBlock(i, k) /\ p = <<MacIn(i, k), file[i].ip>>

DnsmasqSays(p) ==
    \E k \in DOMAIN file : file[k].type = "entry" /\ p = <<file[k].mac, file[k].ip>>

Pairs == {out[k] : k \in DOMAIN out}

(* All of one format: lines of four words and more are in either, those    *)
(* with a MAC for the second in dnsmasq's only.                            *)
IsIsc     == \A k \in DOMAIN file : file[k].type = "entry" => file[k].mac \notin Macs
IsDnsmasq == \A k \in DOMAIN file : file[k].type \in {"entry", "blank", "other"}

-----------------------------------------------------------------------------
(* Properties.                                                             *)
LeaseTypeOK ==
    /\ file \in Seq(LeaseLine)
    /\ phase \in {"detect", "dnsmasq", "isc", "merge", "over"}
    /\ at \in 1 .. Len(file) + 1
    /\ ip \in Ips \cup {NoIp}
    /\ mac \in Macs \cup {NoMac}
    /\ out \in Seq(Macs \X Ips)
    /\ inv \in InventoryType

(* No lease is put together from two: every pair is said by one line, or   *)
(* by one block, of the file, even if blocks are cut short, closed twice   *)
(* or mixed with lines that do not parse.                                  *)
NothingMadeUp == \A p \in Pairs : IscSays(p) \/ DnsmasqSays(p)

(* dhcp.rs:168: "dnsmasq or ISC dhcpd".  A file that is all of the format  *)
(* its first line is taken for is read to the end, and no lease in it is   *)
(* lost, whatever comments, times and lines that do not parse are between. *)
(* (That a first line with a colon in its second word means dnsmasq's      *)
(* format is the code's guess: a file for which it is wrong is lost.)      *)
NothingLost ==
    phase = "over" =>
        \A p \in Macs \X Ips :
            \/ IsIsc /\ ~LooksDnsmasq /\ IscSays(p)
            \/ IsDnsmasq /\ LooksDnsmasq /\ DnsmasqSays(p)
            => p \in Pairs

(* inventory.rs:157-158: after any file, "nobody holds a lease" included,  *)
(* the inventory is one that was told: it has a baseline, every MAC listed *)
(* is an orphan until the device is seen, and the last lease of it counts. *)
FileIsBaseline ==
    phase = "over" =>
        /\ inv.lease_file_loaded
        /\ {m \in Macs : inv.orphan_leases[m] # NoIp} = {p[1] : p \in Pairs}
        /\ \A m \in Macs : inv.orphan_leases[m] # NoIp => <<m, inv.orphan_leases[m]>> \in Pairs

(* A file is understood as it was written, and is a baseline.              *)
LeasesAsWritten == NothingMadeUp /\ NothingLost /\ FileIsBaseline
=============================================================================
