------------------------------ MODULE Targets -------------------------------
(***************************************************************************)
(* scan::build_targets and scan::dedup_nets: from the configuration and    *)
(* the inventory to the list of networks to sweep, in wire order.          *)
(***************************************************************************)
EXTENDS Nets, Lists, SequencesExt

CONSTANTS ClassA,           \* 10.0.0.0/8
          ClassB,           \* 172.16.0.0/12
          ClassC,           \* 192.168.0.0/16
          ApipaNet,         \* 169.254.0.0/16
          FactoryDefaults   \* the sequence cli::FACTORY_DEFAULTS

ASSUME TargetsAssumption ==
    /\ {ClassA, ClassB, ClassC, ApipaNet} \subseteq Nets
    /\ FactoryDefaults \in Seq(Nets)

Scopes == {"None", "Auto", "Private16", "Rfc1918"}

(* What a scan is asked to sweep.  `identities` are the identity addresses *)
(* of the hosts heard so far, in the order of the inventory.               *)
RequestType == [scope : Scopes, expected : Seq(Nets), extra : Seq(Nets),
                excluded : SUBSET Nets, identities : Seq(Addresses)]

ScopeNets(r) ==
    CASE r.scope = "None"      -> <<>>
      [] r.scope = "Auto"      -> r.expected
             \o [i \in DOMAIN r.identities |-> Trunc(r.identities[i], BlockLen)]
             \o FactoryDefaults
      [] r.scope = "Private16" -> <<ClassC>>
      [] r.scope = "Rfc1918"   -> <<ClassC, ClassB, ClassA>>

(* The user's ranges first, then the scope; the ignored ranges and APIPA   *)
(* are removed after the list is complete.                                 *)
Requested(r) == r.extra \o ScopeNets(r)

IsApipaNet(n) == n.base \in NetAddrs(ApipaNet)

Retained(nets, excluded) ==
    Only(nets, {n \in Nets : ~Covered(n, excluded) /\ ~IsApipaNet(n)})

(* One turn of the loop of dedup_nets: n is skipped if a kept network      *)
(* contains it; otherwise it goes to the end and what it contains goes.    *)
DedupStep(kept, n) ==
    IF \E i \in DOMAIN kept : NetContains(kept[i], n) THEN kept
    ELSE Append(Only(kept, {k \in Nets : ~NetContains(n, k)}), n)

DedupNets(nets) ==
    LET kept[i \in 0 .. Len(nets)] ==
          IF i = 0 THEN <<>> ELSE DedupStep(kept[i - 1], nets[i])
    IN kept[Len(nets)]

BuildTargets(r) == DedupNets(Retained(Requested(r), r.excluded))
=============================================================================
