------------------------------ MODULE TuiTable ------------------------------
(***************************************************************************)
(* The table of results of the interactive front end: the findings it      *)
(* holds, the rows of them that are visible, the selected one, and the     *)
(* keys that act on it (tui/app.rs, handle_results_key), while the scan's  *)
(* collector goes on filling the inventory behind it.  The turns of the    *)
(* event loop are kept: draw, perhaps refresh, then a key.                 *)
(*                                                                         *)
(* A filter is represented by what it matches; vendor and host name count  *)
(* as part of the MAC.  A network is the set of its addresses.             *)
(***************************************************************************)
EXTENDS Correlate, Lists, FiniteSets, Functions

CONSTANTS Events,      \* what the collector may apply
          LeaseFile,   \* the lease file of every scan; NoIp for a MAC not in it
          Baseline,    \* the addresses the form's own rows call legitimate
          Queries,     \* what a filter text may match
          NoFilter,    \* filter: None
          Nobody,      \* no row
          MaxEvents, MaxScans    \* bounds

CONSTANT Net24(_)    \* the addresses of the /24 around an address

(* MACs and addresses are numbers here: their order is the table's.        *)
ASSUME TableAssumption ==
    /\ Events \subseteq EventType
    /\ LeaseFile \in [Macs -> Ips \cup {NoIp}]
    /\ Baseline \subseteq Ips
    /\ Queries \subseteq SUBSET (Macs \cup Ips)
    /\ NoFilter \notin Queries
    /\ Macs \cup Ips \subseteq Nat
    /\ IsFiniteSet(Macs)
    /\ \A ip \in Ips : Net24(ip) \subseteq Ips

VARIABLES
    inv,         \* the inventory of the scan
    handle,      \* "none", "running" or "over"
    expected,    \* what the scan was told is legitimate
    findings, result_idx, only_flagged, filter, filtering, session_whitelist,
    turn,        \* of the event loop: "draw", "refresh" or "key"
    drawn,       \* history: the row last drawn as selected, or Nobody
    refreshed,   \* history: the table was refreshed since
    target,      \* history: the row the last key acted on, or Nobody
    events, scans    \* history: counts (bound the run)

tableVars == <<findings, result_idx, only_flagged, filter, filtering, session_whitelist>>
scanVars  == <<inv, handle, expected, events, scans>>
loopVars  == <<turn, drawn, refreshed, target>>
vars      == <<tableVars, scanVars, loopVars>>

-----------------------------------------------------------------------------
(* The order of analyze: worst first, then by MAC; of one MAC the host     *)
(* before the orphan, because the sort is stable.                          *)
Before(f, g) ==
    \/ Severity(f.flags) > Severity(g.flags)
    \/ /\ Severity(f.flags) = Severity(g.flags)
       /\ \/ f.mac < g.mac
          \/ f.mac = g.mac /\ "ORPHAN_LEASE" \in Codes(g.flags) \ Codes(f.flags)

Sorted(fs) ==
    [k \in 1..Cardinality(fs) |->
        CHOOSE f \in fs : Cardinality({g \in fs : Before(g, f)}) = k - 1]

Report(legitimate) == Sorted(Analyze(inv, legitimate))

(* visible_indices: the findings only_flagged and the filter let through.  *)
Passes(f) ==
    /\ only_flagged => f.flags # {}
    /\ filter # NoFilter => ({f.mac} \cup f.ipv4) \cap filter # {}

VisibleOf(fs) == Only(fs, {f \in Range(fs) : Passes(f)})

Visible == VisibleOf(findings)

(* Fault: the index is taken into the findings, not into what is visible.  *)
SelectedUnfiltered ==
    IF result_idx + 1 \in DOMAIN findings THEN findings[result_idx + 1] ELSE Nobody

Selected ==
    IF result_idx + 1 \in DOMAIN Visible THEN Visible[result_idx + 1] ELSE Nobody

(* What the drawing shows as selected: the row at result_idx.              *)
Highlighted ==
    IF result_idx + 1 \in DOMAIN Visible THEN Visible[result_idx + 1] ELSE Nobody

Init ==
    /\ inv = NewInventory
    /\ handle = "none"
    /\ expected = {}
    /\ findings = <<>>
    /\ result_idx = 0
    /\ only_flagged \in BOOLEAN
    /\ filter = NoFilter
    /\ filtering = FALSE
    /\ session_whitelist = {}
    /\ turn = "draw" /\ drawn = Nobody /\ refreshed = FALSE /\ target = Nobody
    /\ events = 0 /\ scans = 0

-----------------------------------------------------------------------------
(* The collector, at any time while a scan has a handle.                   *)
Collect ==
    /\ handle # "none"
    /\ events < MaxEvents
    /\ \E ev \in Events : inv' = Apply(inv, ev)
    /\ events' = events + 1
    /\ UNCHANGED <<handle, expected, scans, tableVars, loopVars>>

(* Fault: the table goes with the driver.                                  *)
DriverEndsDrops ==
    /\ handle = "running"
    /\ handle' = "over"
    /\ findings' = <<>>
    /\ UNCHANGED <<inv, expected, events, scans, loopVars,
                   result_idx, only_flagged, filter, filtering, session_whitelist>>

(* The driver ends and capture goes on.  After Esc it ends because STOP is *)
(* raised, and the capture thread ends too: that events may still come     *)
(* then is more than the code allows.                                      *)
DriverEnds ==
    /\ handle = "running"
    /\ handle' = "over"
    /\ UNCHANGED <<inv, expected, events, scans, tableVars, loopVars>>

(* terminal.draw.                                                          *)
Draw ==
    /\ turn = "draw"
    /\ turn' = "refresh"
    /\ drawn' = Highlighted
    /\ refreshed' = FALSE
    /\ target' = Nobody
    /\ UNCHANGED <<scanVars, tableVars>>

(* Fault: the index is left where it was.                                  *)
RefreshUnclamped ==
    /\ turn = "refresh"
    /\ turn' = "key"
    /\ IF handle = "none" THEN UNCHANGED <<findings, result_idx, refreshed>>
       ELSE findings' = Report(expected) /\ refreshed' = TRUE /\ UNCHANGED result_idx
    /\ UNCHANGED <<only_flagged, filter, filtering, session_whitelist, drawn, target, scanVars>>

(* refresh_findings: the table is recomputed from the inventory, and the   *)
(* index brought back to the last visible row.                             *)
Refresh ==
    /\ turn = "refresh"
    /\ turn' = "key"
    /\ handle # "none"
    /\ findings' = Report(expected)
    /\ LET n == Len(VisibleOf(findings'))
       IN result_idx' = IF result_idx >= n /\ n > 0 THEN n - 1 ELSE result_idx
    /\ refreshed' = TRUE
    /\ UNCHANGED <<only_flagged, filter, filtering, session_whitelist, drawn, target, scanVars>>

(* Not yet 250 ms, or no scan.                                             *)
NoRefresh ==
    /\ turn = "refresh"
    /\ turn' = "key"
    /\ UNCHANGED <<tableVars, scanVars, drawn, refreshed, target>>

-----------------------------------------------------------------------------
(* The keys, one per turn of the loop.                                     *)
Pressed(ready) ==
    /\ turn = "key"
    /\ ready
    /\ turn' = "draw"
    /\ UNCHANGED <<drawn, refreshed>>

NoKey == Pressed(TRUE) /\ UNCHANGED <<tableVars, scanVars, target>>

(* Down stops at the last visible row, Up at the first.                    *)
MoveKey ==
    /\ Pressed(~filtering)
    /\ LET n == Len(Visible)
       IN \/ n > 0 /\ result_idx' = IF result_idx + 1 < n THEN result_idx + 1 ELSE n - 1
          \/ result_idx > 0 /\ result_idx' = result_idx - 1
    /\ UNCHANGED <<findings, only_flagged, filter, filtering, session_whitelist, scanVars, target>>

FlaggedKey ==
    /\ Pressed(~filtering)
    /\ only_flagged' = ~only_flagged
    /\ result_idx' = 0
    /\ UNCHANGED <<findings, filter, filtering, session_whitelist, scanVars, target>>

(* /, and then text: a character narrows what matches, Backspace widens    *)
(* it; taking back the last character takes the filter away, Enter and Esc *)
(* leave it.                                                               *)
FilterKey ==
    /\ \/ /\ Pressed(~filtering)
          /\ filtering' = TRUE
          /\ filter' = IF filter = NoFilter THEN Macs \cup Ips ELSE filter
       \/ /\ Pressed(filtering)
          /\ \/ filtering' = FALSE /\ UNCHANGED filter
             \/ filtering' = FALSE /\ filter' = NoFilter
             \/ /\ UNCHANGED filtering
                /\ filter' \in {q \in Queries : q \subseteq filter \/ filter \subseteq q}
    /\ UNCHANGED <<findings, result_idx, only_flagged, session_whitelist, scanVars, target>>

FirstIp(f) == CHOOSE ip \in f.ipv4 : \A other \in f.ipv4 : ip <= other

(* Fault: only the network just marked is added to what is expected.       *)
WhitelistKeyForgets ==
    /\ Pressed(~filtering)
    /\ Selected # Nobody /\ Selected.ipv4 # {}
    /\ target' = Selected
    /\ session_whitelist' = session_whitelist \cup Net24(FirstIp(Selected))
    /\ findings' = IF handle = "none" THEN findings
                   ELSE Report(expected \cup Net24(FirstIp(Selected)))
    /\ UNCHANGED <<result_idx, only_flagged, filter, filtering, scanVars>>

(* w: the /24 of the first address of the selected device is added to the  *)
(* whitelist, and the table recomputed with it (reapply_whitelist).        *)
WhitelistKey ==
    /\ Pressed(~filtering)
    /\ Selected # Nobody /\ Selected.ipv4 # {}
    /\ target' = Selected
    /\ session_whitelist' = session_whitelist \cup Net24(FirstIp(Selected))
    /\ findings' = IF handle = "none" THEN findings
                   ELSE Report(expected \cup session_whitelist')
    /\ UNCHANGED <<result_idx, only_flagged, filter, filtering, scanVars>>

(* y and p: the MAC is copied, the first address is pinged.                *)
ActKey ==
    /\ Pressed(~filtering)
    /\ Selected # Nobody
    /\ target' = Selected
    /\ UNCHANGED <<tableVars, scanVars>>

(* r or Enter while no scan runs.  A new scan begins with the lease file   *)
(* loaded, an empty table, and the whitelist among what is expected        *)
(* (finish_config); if it cannot start, the old handle is gone all the     *)
(* same and the table stays as it was.                                     *)
LaunchKey ==
    /\ Pressed(~filtering)
    /\ handle # "running"
    /\ scans < MaxScans
    /\ scans' = scans + 1
    /\ \/ /\ handle' = "running"
          /\ inv' = MergeLeaseFile(NewInventory, LeaseFile)
          /\ expected' = Baseline \cup session_whitelist
          /\ findings' = <<>> /\ result_idx' = 0
       \/ /\ handle' = "none"
          /\ inv' = NewInventory
          /\ UNCHANGED <<expected, findings, result_idx>>
    /\ UNCHANGED <<only_flagged, filter, filtering, session_whitelist, events, target>>

Keys == NoKey \/ MoveKey \/ FlaggedKey \/ FilterKey \/ WhitelistKey \/ ActKey \/ LaunchKey

Loop == Draw \/ Refresh \/ NoRefresh \/ Keys

Next == Collect \/ DriverEnds \/ Loop

SafetySpec == Init /\ [][Next]_vars

(* The loop never stops turning: poll waits 100 ms for a key.  While there *)
(* is a scan, 250 ms pass again and again, and the table is refreshed.     *)
Spec == SafetySpec /\ WF_vars(Loop) /\ SF_vars(Refresh)

-----------------------------------------------------------------------------
(* Properties.                                                             *)
FlagType ==
    [code : {"OUTSIDE_SUBNET"}, ips : SUBSET Ips]
       \cup [code : {"L2_ONLY", "APIPA", "NO_LEASE"}]
       \cup [code : {"LEASE_MISMATCH"}, lease : Ips, in_use : SUBSET Ips]
       \cup [code : {"DUPLICATE_IP"}, ip : Ips, others : SUBSET Macs]
       \cup [code : {"ORPHAN_LEASE"}, ip : Ips]

FindingType == [mac : Macs, ipv4 : SUBSET Ips, flags : SUBSET FlagType]

TypeOK ==
    /\ findings \in Seq(FindingType)
    /\ inv \in InventoryType
    /\ handle \in {"none", "running", "over"}
    /\ expected \subseteq Ips
    /\ result_idx \in Nat
    /\ only_flagged \in BOOLEAN
    /\ filter \in Queries \cup {NoFilter, Macs \cup Ips}
    /\ filtering \in BOOLEAN
    /\ session_whitelist \subseteq Ips
    /\ turn \in {"draw", "refresh", "key"}

(* A key acts on the row that is drawn as selected, unless a refresh came  *)
(* between the drawing and the key: then, and only then, it may be another.*)
(* (With the types, by which an index never runs below 0.)                 *)
KeyHitsHighlighted ==
    /\ TypeOK
    /\ (target # Nobody /\ ~refreshed) => target = drawn

(* src/src/tui/app.rs:432: a network marked as known is applied to the     *)
(* current findings "so it disappears at once": what the key leaves in the *)
(* table reports nothing outside the subnet for an address in any network  *)
(* marked so far.  (What the next refresh does is StaysKnown.)             *)
Accused == UNION {UNION {fl.ips : fl \in {g \in findings[i].flags : g.code = "OUTSIDE_SUBNET"}} :
                     i \in DOMAIN findings}

MarkedDisappears ==
    [][session_whitelist' # session_whitelist /\ handle # "none"
          => Accused' \cap session_whitelist' = {}]_vars

(* src/README.md:139-140: the whitelist lives "in the session".  So until  *)
(* the session ends a network marked as known stays known.                 *)
StaysKnown ==
    [][Accused' \cap session_whitelist \subseteq Accused]_vars

(* The rows a scan has reported stay until the next one is started.        *)
RowMacs == {findings[i].mac : i \in DOMAIN findings}

RowsStay == [][scans' = scans => RowMacs \subseteq RowMacs']_vars

(* The cursor does not stay lost: a filter or the whitelist may leave the  *)
(* index beyond the last visible row, but as long as there is a scan a row *)
(* is selected again and again, if any is visible.                         *)
Lost == Visible # <<>> /\ Selected = Nobody

CursorReturns == []<>(~Lost \/ handle = "none")
=============================================================================
