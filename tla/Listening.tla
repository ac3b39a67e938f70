----------------------------- MODULE Listening ------------------------------
(***************************************************************************)
(* The data path of one scan: `start` loads the lease file, frames are     *)
(* dissected into events, the collector applies the events to the          *)
(* inventory one at a time, and at any moment the front end may ask for    *)
(* the findings.  Composes Dissect, Inventory and Correlate.               *)
(*                                                                         *)
(* The history variables record what the frames said, independently of     *)
(* how the program digests them.                                           *)
(***************************************************************************)
EXTENDS Correlate

CONSTANTS Expected,    \* the addresses inside some expected subnet
          FrameSet,    \* the frames the network may deliver
          LeaseFiles,  \* the lease files that may be given
          NoFile,      \* no --leases-file
          MaxFrames    \* bound: frames received

LeaseFileType == [Macs -> Ips \cup {NoIp}]

ASSUME ListeningAssumption ==
    /\ Expected \subseteq Ips
    /\ FrameSet \subseteq ArpFrames \cup Ipv4Frames \cup Ipv6Frames
    /\ LeaseFiles \subseteq LeaseFileType
    /\ NoFile \notin LeaseFiles
    /\ MaxFrames \in Nat

VARIABLES
    stage,      \* "start" or "listening"
    inventory,
    chan,       \* events sent and not yet applied
    file,       \* history: the lease file of this scan, or NoFile
    claims,     \* history: <<mac, ip>> claimed in an ARP frame or granted
    used,       \* history: <<mac, ip>> seen as the source of IPv4 traffic
    lastWord,   \* history: per MAC, the last ACK not followed by a RELEASE
    received    \* history: number of frames (bounds the run)

vars == <<stage, inventory, chan, file, claims, used, lastWord, received>>

TypeOK ==
    /\ stage \in {"start", "listening"}
    /\ inventory \in InventoryType
    /\ chan \in Seq(EventType)
    /\ file \in LeaseFileType \cup {NoFile}
    /\ claims \subseteq Macs \X Ips
    /\ used \subseteq Macs \X Ips
    /\ lastWord \in LeaseFileType
    /\ received \in Nat

Init ==
    /\ stage = "start"
    /\ inventory = NewInventory
    /\ chan = <<>>
    /\ file = NoFile
    /\ claims = {} /\ used = {}
    /\ lastWord = [m \in Macs |-> NoIp]
    /\ received = 0

-----------------------------------------------------------------------------
(* What a frame says, frame by frame as the standards read it.             *)
Heard(f) == f.mac # LocalMac

ArpClaims(f) ==
    IF f.kind = "arp"
    THEN {f.sender_mac} \X ({IF f.sender_ip # Unspecified THEN f.sender_ip
                             ELSE f.target_ip} \ {Unspecified})
    ELSE {}

IsDhcp(f) == f.kind = "ipv4" /\ f.dhcp # NoDhcp

Grants(f) ==
    IF IsDhcp(f) /\ f.dhcp.msg_type = "Ack"
    THEN {f.dhcp.client_mac} \X ({f.dhcp.assigned} \ {NoIp})
    ELSE {}

Uses(f) == IF f.kind = "ipv4" THEN {f.mac} \X ({f.src_ip} \cap Ips) ELSE {}

LastWord(f) ==
    [m \in Macs |->
        IF \E g \in Grants(f) : g[1] = m THEN f.dhcp.assigned
        ELSE IF IsDhcp(f) /\ f.dhcp.msg_type = "Release" /\ f.dhcp.client_mac = m
             THEN NoIp
             ELSE lastWord[m]]

-----------------------------------------------------------------------------
(* `start`: an inventory, the lease file if one was given, the threads.    *)
Start(f) ==
    /\ stage = "start"
    /\ stage' = "listening"
    /\ file' = f
    /\ inventory' = IF f = NoFile THEN inventory ELSE MergeLeaseFile(inventory, f)
    /\ UNCHANGED <<chan, claims, used, lastWord, received>>

(* The rx thread dissects frame f.                                         *)
Receive(f) ==
    /\ stage = "listening"
    /\ received < MaxFrames
    /\ received' = received + 1
    /\ chan' = chan \o Dispatch(f)
    /\ IF Heard(f)
       THEN /\ claims' = claims \cup ArpClaims(f) \cup Grants(f)
            /\ used' = used \cup Uses(f)
            /\ lastWord' = LastWord(f)
       ELSE UNCHANGED <<claims, used, lastWord>>
    /\ UNCHANGED <<stage, inventory, file>>

(* The collector applies the oldest event.                                 *)
Collect ==
    /\ chan # <<>>
    /\ inventory' = Apply(inventory, Head(chan))
    /\ chan' = Tail(chan)
    /\ UNCHANGED <<stage, file, claims, used, lastWord, received>>

Next == \/ \E f \in LeaseFiles \cup {NoFile} : Start(f)
        \/ \E f \in FrameSet : Receive(f)
        \/ Collect

Spec == Init /\ [][Next]_vars

-----------------------------------------------------------------------------
(* Properties.  The ones about what the frames said hold whenever the      *)
(* collector has caught up.                                                *)
CaughtUp == chan = <<>>
Hosts    == inventory.known
Flags(m) == FlagsFor(inventory, m, Expected)

(* A host owns exactly what it claimed in ARP or was granted by DHCP:      *)
(* merely routing a packet proves nothing, and no claim is missed.         *)
OwnedIsClaimed ==
    CaughtUp => \A m \in Macs \ NotHosts :
                    inventory.hosts[m].owned = {ip \in Ips : <<m, ip>> \in claims}

(* A host's lease is the last word of the DHCP server about it.            *)
LeaseIsLastWord ==
    CaughtUp => \A m \in Macs \ NotHosts : inventory.hosts[m].lease = lastWord[m]

(* A leased address is one the host owns, and a host with a lease is one   *)
(* that was seen in DHCP.  (LEASE_MISMATCH relies on it: a lease the host  *)
(* did not own would be compared with addresses of another kind.)          *)
LeaseIsOwned ==
    \A m \in Macs : LET h == inventory.hosts[m]
                    IN h.lease # NoIp => /\ h.lease \in h.owned
                                         /\ h.tried_dhcp
                                         /\ "Dhcp" \in h.sources

(* DUPLICATE_IP accuses owners mutually: if it is reported against an      *)
(* owner of the address, every other MAC it names is a host that is        *)
(* reported with the same address and names the first.                     *)
DuplicatesMutual ==
    \A m \in Hosts : \A fl \in Flags(m) :
        (fl.code = "DUPLICATE_IP" /\ fl.ip \in inventory.hosts[m].owned) =>
            \A o \in fl.others :
                /\ o \in Hosts
                /\ \E g \in Flags(o) : /\ g.code = "DUPLICATE_IP"
                                       /\ g.ip = fl.ip
                                       /\ m \in g.others

(* L2_ONLY is reported exactly for the hosts that, in all they sent and    *)
(* all DHCP said of them, never revealed an IPv4 address.                  *)
L2OnlyIsSilent ==
    CaughtUp => \A m \in Hosts :
        "L2_ONLY" \in Codes(Flags(m)) <=> ~\E ip \in Ips : <<m, ip>> \in claims \cup used

(* A router is not accused of what it forwards: a host that claimed some   *)
(* address is reported only with addresses it claimed.                     *)
AccusedOf(fl) ==
    CASE fl.code = "OUTSIDE_SUBNET" -> fl.ips
      [] fl.code = "LEASE_MISMATCH" -> fl.in_use
      [] fl.code = "DUPLICATE_IP"   -> {fl.ip}
      [] OTHER                      -> {}

RouterNotAccused ==
    CaughtUp => \A m \in Hosts :
        LET own == {ip \in Ips : <<m, ip>> \in claims}
        IN own # {} => \A fl \in Flags(m) : AccusedOf(fl) \subseteq own

(* "I saw no lease" is evidence only against a complete picture: without a *)
(* lease file no host is reported with NO_LEASE, whatever ACKs were seen.  *)
NoLeaseNeedsFile ==
    file = NoFile => \A m \in Hosts : "NO_LEASE" \notin Codes(Flags(m))

(* src/README.md:81, 85: NO_LEASE means "alive, no lease", ORPHAN_LEASE a  *)
(* device with a lease that is "no longer present".  So no device is       *)
(* reported as both.                                                       *)
Reported(m) == UNION {f.flags : f \in {g \in Analyze(inventory, Expected) : g.mac = m}}

NotAliveAndGone ==
    \A m \in Macs : ~({"NO_LEASE", "ORPHAN_LEASE"} \subseteq Codes(Reported(m)))
=============================================================================
