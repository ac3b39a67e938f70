------------------------------ MODULE TuiForm -------------------------------
(***************************************************************************)
(* The form of the interactive front end: its rows and fields, the keys    *)
(* that move through it and change it (tui/mod.rs), and how it becomes the *)
(* configuration of a scan (App::build_config, build_config_single and     *)
(* finish_config).  Composed with Targets, which says what is swept then:  *)
(* the driver makes its list when it comes to sweep, from the              *)
(* configuration and from the hosts it has heard until then.               *)
(*                                                                         *)
(* A row's text is a network, blank, or something that does not parse.     *)
(* Of the advanced fields only the sender mode can refuse a scan: it is    *)
(* represented by whether it parses; the numbers and the file name pass    *)
(* through to the scan and are left out, their rows in the form are not.   *)
(***************************************************************************)
EXTENDS Targets

CONSTANTS Ifaces,    \* the subnets of list_ifaces(), in the order of the list
          NoNet,     \* an interface without a subnet
          CliRows,   \* the rows the command line may ask for
          Typed,     \* what may be typed into a row
          Blank, Garbage,
          Heard,     \* identity addresses the hosts heard before a sweep may have
          MaxRows    \* bound: rows of the form

Kinds == {"Expected", "Target", "Ignored"}
Row   == [text : Nets \cup {Blank, Garbage}, kind : Kinds]

ASSUME FormAssumption ==
    /\ Ifaces \in Seq(Nets \cup {NoNet})
    /\ CliRows \subseteq {rows \in Seq(Row) : Len(rows) <= MaxRows}
    /\ Typed \subseteq Nets \cup {Blank, Garbage}
    /\ Heard \subseteq Seq(Addresses)
    /\ {NoNet, Blank, Garbage} \cap Nets = {}
    /\ MaxRows \in Nat \ {0}

VARIABLES
    iface_idx,       \* from 0
    scope,
    ranges,          \* the rows
    advanced_open,
    spa_ok,          \* the text of the sender mode parses
    form_focus,
    editing,         \* an edit buffer is open
    running,         \* App::is_running
    session_whitelist,
    fired,           \* history: row of the last single sweep, 0 for a full one
    request          \* history: the ScanConfig of the scan that runs, or <<>>

formVars == <<ranges, iface_idx, scope, advanced_open, spa_ok, form_focus, editing>>
runVars  == <<running, fired, request>>
vars     == <<formVars, runVars, session_whitelist>>

Fields == {"Interface", "Scope", "AdvancedToggle", "AdvSpa", "AdvRate", "AdvSettle",
           "AdvPasses", "AdvNoIpv6", "AdvLeases", "AdvPassive"}

At(field) == <<field, 0>>
AtRow(i)  == <<"Range", i>>

ScopeOrder == <<"Auto", "Rfc1918", "Private16", "None">>
KindOrder  == <<"Expected", "Target", "Ignored">>

(* The element k places further in a cyclic order; the first if x is none. *)
Turn(order, x, k) ==
    LET here == IF x \in Range(order) THEN CHOOSE i \in DOMAIN order : order[i] = x ELSE 1
    IN order[((here - 1 + k) % Len(order)) + 1]

(* One to the right, or one to the left, in an order of n.                 *)
Steps(n) == {1, n - 1}

NewRow(net) == [text |-> net, kind |-> "Expected"]

IfaceNet(k) == IF k + 1 \in DOMAIN Ifaces THEN Ifaces[k + 1] ELSE NoNet

-----------------------------------------------------------------------------
(* App::new and apply_cli: the subnet of the first interface is suggested, *)
(* --iface chooses another, the rows of the command line replace it.       *)
Init ==
    /\ iface_idx \in 0 .. IF Ifaces = <<>> THEN 0 ELSE Len(Ifaces) - 1
    /\ scope \in Scopes
    /\ \E rows \in CliRows :
          ranges = IF rows # <<>> THEN rows
                   ELSE IF IfaceNet(0) = NoNet THEN <<>> ELSE <<NewRow(IfaceNet(0))>>
    /\ advanced_open = FALSE
    /\ spa_ok \in BOOLEAN
    /\ form_focus = At("Interface")
    /\ editing = FALSE
    /\ running = FALSE
    /\ session_whitelist = <<>>
    /\ fired = 0
    /\ request = <<>>

(* form_items: what the cursor can be on, from top to bottom.              *)
DrawerItems == <<At("AdvSpa"), At("AdvRate"), At("AdvSettle"), At("AdvPasses"),
                 At("AdvNoIpv6"), At("AdvLeases"), At("AdvPassive")>>

FormItems ==
    <<At("Interface"), At("Scope")>> \o [i \in DOMAIN ranges |-> AtRow(i)]
       \o <<At("AdvancedToggle")>> \o (IF advanced_open THEN DrawerItems ELSE <<>>)

OnRow == form_focus \in {AtRow(i) : i \in 1..MaxRows}
Focused == form_focus[2]    \* the row, if OnRow

(* handle_form_key: the form is locked while a scan runs, and while a text *)
(* is edited every key goes to the text.                                   *)
FormKeys == ~running /\ ~editing

Cursor(items) ==
    IF form_focus \in Range(items)
    THEN CHOOSE i \in DOMAIN items : items[i] = form_focus
    ELSE 1

Move ==
    /\ FormKeys
    /\ LET cur == Cursor(FormItems)
       IN \/ cur < Len(FormItems) /\ form_focus' = FormItems[cur + 1]
          \/ cur > 1 /\ form_focus' = FormItems[cur - 1]
    /\ UNCHANGED <<ranges, iface_idx, scope, advanced_open, spa_ok, editing,
                   runVars, session_whitelist>>

(* a: a blank row under the cursor's, opened for editing.                  *)
AddRange ==
    /\ FormKeys
    /\ Len(ranges) < MaxRows
    /\ LET at == IF OnRow THEN Focused + 1 ELSE Len(ranges) + 1
       IN /\ ranges' = InsertAt(ranges, at, NewRow(Blank))
          /\ form_focus' = AtRow(at)
    /\ editing' = TRUE
    /\ UNCHANGED <<iface_idx, scope, advanced_open, spa_ok, runVars, session_whitelist>>

(* Fault: the cursor stays where it was.                                   *)
DeleteRangeStays ==
    /\ FormKeys
    /\ OnRow
    /\ ranges' = RemoveAt(ranges, Focused)
    /\ UNCHANGED <<form_focus, iface_idx, scope, advanced_open, spa_ok, editing,
                   runVars, session_whitelist>>

(* d: the row goes, and the cursor to the one that takes its place.        *)
DeleteRange ==
    /\ FormKeys
    /\ OnRow
    /\ ranges' = RemoveAt(ranges, Focused)
    /\ form_focus' = IF Len(ranges) = 1 THEN At("Scope")
                     ELSE AtRow(IF Focused < Len(ranges) THEN Focused ELSE Len(ranges) - 1)
    /\ UNCHANGED <<iface_idx, scope, advanced_open, spa_ok, editing,
                   runVars, session_whitelist>>

SetKind(k) ==
    /\ OnRow
    /\ ranges' = [ranges EXCEPT ![Focused].kind = Turn(KindOrder, @, k)]
    /\ UNCHANGED <<iface_idx, scope, advanced_open, spa_ok, form_focus, editing,
                   runVars, session_whitelist>>

ToggleDrawer ==
    /\ form_focus = At("AdvancedToggle")
    /\ advanced_open' = ~advanced_open
    /\ UNCHANGED <<ranges, iface_idx, scope, spa_ok, form_focus, editing,
                   runVars, session_whitelist>>

(* cycle_focused on the interface: if there is at most one row, the subnet *)
(* of the new interface is suggested in its place.                         *)
CycleInterface(k) ==
    LET n    == IF Ifaces = <<>> THEN 1 ELSE Len(Ifaces)
        next == (iface_idx + k) % n
        net  == IfaceNet(next)
    IN /\ form_focus = At("Interface")
       /\ k \in Steps(n)
       /\ iface_idx' = next
       /\ ranges' = IF net # NoNet /\ Len(ranges) < 2 THEN <<NewRow(net)>> ELSE ranges
       /\ UNCHANGED <<scope, advanced_open, spa_ok, form_focus, editing,
                      runVars, session_whitelist>>

CycleScope(k) ==
    /\ form_focus = At("Scope")
    /\ scope' = Turn(ScopeOrder, scope, k)
    /\ UNCHANGED <<ranges, iface_idx, advanced_open, spa_ok, form_focus, editing,
                   runVars, session_whitelist>>

CycleSpa ==
    /\ form_focus = At("AdvSpa")
    /\ spa_ok' = TRUE
    /\ UNCHANGED <<ranges, iface_idx, scope, advanced_open, form_focus, editing,
                   runVars, session_whitelist>>

(* h/l, Space (toggle_focused) and Enter where it does not open an editor  *)
(* (activate_focused).  On AdvNoIpv6 a switch flips that is not modelled.  *)
Change ==
    /\ FormKeys
    /\ \/ \E k \in Steps(3) : SetKind(k)
       \/ ToggleDrawer
       \/ \E k \in 0 .. Len(Ifaces) + 1 : CycleInterface(k)
       \/ \E k \in Steps(4) : CycleScope(k)
       \/ CycleSpa

(* Enter on a text: activate_focused opens the editor.                     *)
OpenEditor ==
    /\ FormKeys
    /\ OnRow \/ form_focus \in {At(f) : f \in {"AdvSpa", "AdvRate", "AdvSettle",
                                               "AdvPasses", "AdvLeases", "AdvPassive"}}
    /\ editing' = TRUE
    /\ UNCHANGED <<ranges, iface_idx, scope, advanced_open, spa_ok, form_focus,
                   runVars, session_whitelist>>

(* Esc gives the edit up; Enter commits it (commit_edit) to the field that *)
(* has the focus, if it is still there.                                    *)
CloseEditor ==
    /\ editing
    /\ editing' = FALSE
    /\ \/ UNCHANGED <<ranges, spa_ok>>
       \/ /\ OnRow /\ Focused \in DOMAIN ranges
          /\ \E text \in Typed : ranges' = [ranges EXCEPT ![Focused].text = text]
          /\ UNCHANGED spa_ok
       \/ /\ form_focus = At("AdvSpa")
          /\ spa_ok' \in BOOLEAN
          /\ UNCHANGED ranges
    /\ UNCHANGED <<iface_idx, scope, advanced_open, form_focus, runVars, session_whitelist>>

-----------------------------------------------------------------------------
(* From the form to a configuration.                                       *)
ScanConfig == [scope : Scopes, expected : Seq(Nets), extra : Seq(Nets),
               excluded : SUBSET Nets]

Parsed(row) == row.text \notin {Blank, Garbage}

NetsOf(rows, kind) ==
    LET chosen == Only(rows, {r \in Range(rows) : Parsed(r) /\ r.kind = kind})
    IN [i \in DOMAIN chosen |-> chosen[i].text]

(* Fault: an ignored range is only called legitimate.                      *)
FinishConfigSweepsIgnored(swept, normal, ignored, sc) ==
    LET judged == normal \o ignored \o session_whitelist
        net    == IfaceNet(iface_idx)
    IN [scope    |-> sc,
        expected |-> IF judged # <<>> THEN judged ELSE IF net # NoNet THEN <<net>> ELSE <<>>,
        extra    |-> swept,
        excluded |-> {}]

(* finish_config.  Legitimate are the networks, the ignored ranges and the *)
(* session's whitelist; if there are none, the subnet of the interface.    *)
FinishConfig(swept, normal, ignored, sc) ==
    LET judged == normal \o ignored \o session_whitelist
        net    == IfaceNet(iface_idx)
    IN [scope    |-> sc,
        expected |-> IF judged # <<>> THEN judged ELSE IF net # NoNet THEN <<net>> ELSE <<>>,
        extra    |-> swept,
        excluded |-> Range(ignored)]

BuildConfig ==
    LET normal == NetsOf(ranges, "Expected")
    IN FinishConfig(NetsOf(ranges, "Target") \o normal, normal, NetsOf(ranges, "Ignored"), scope)

(* Fault: the scope of the form applies to a single sweep too.             *)
BuildConfigSingleScoped(idx) ==
    LET others == RemoveAt(ranges, idx)
    IN FinishConfig(<<ranges[idx].text>>, NetsOf(others, "Expected"),
                    NetsOf(others, "Ignored"), scope)

(* build_config_single: only the row idx is swept, whatever its role; the  *)
(* other rows say what is legitimate and what is left alone.               *)
BuildConfigSingle(idx) ==
    LET others == RemoveAt(ranges, idx)
    IN FinishConfig(<<ranges[idx].text>>, NetsOf(others, "Expected"),
                    NetsOf(others, "Ignored"), "None")

Launch(row, config) ==
    /\ ~running
    /\ running' = TRUE
    /\ fired' = row
    /\ request' = config
    /\ UNCHANGED <<formVars, session_whitelist>>

(* r, or Enter among the results: start_scan.                              *)
Run ==
    /\ ~editing
    /\ \A i \in DOMAIN ranges : ranges[i].text # Garbage
    /\ spa_ok
    /\ Launch(0, BuildConfig)

(* s: scan_single.                                                         *)
SweepFocused ==
    /\ FormKeys
    /\ OnRow /\ Focused \in DOMAIN ranges /\ Parsed(ranges[Focused])
    /\ spa_ok
    /\ Launch(Focused, BuildConfigSingle(Focused))

(* The scan ends, or is cancelled.                                         *)
ScanEnds ==
    /\ running
    /\ running' = FALSE
    /\ fired' = 0
    /\ request' = <<>>
    /\ UNCHANGED <<formVars, session_whitelist>>

(* w: whitelist_selected, for a device in net (at any time there are       *)
(* results; a table outlives its scan).                                    *)
Whitelist(net) ==
    /\ ~editing
    /\ session_whitelist' = IF Contains(session_whitelist, net) THEN session_whitelist
                            ELSE Append(session_whitelist, net)
    /\ UNCHANGED <<formVars, runVars>>

Next == \/ Move \/ AddRange \/ DeleteRange \/ Change \/ OpenEditor \/ CloseEditor
        \/ Run \/ SweepFocused \/ ScanEnds
        \/ \E net \in Typed \cap Nets : Whitelist(net)

Spec == Init /\ [][Next]_vars

-----------------------------------------------------------------------------
(* Properties.                                                             *)
TypeOK ==
    /\ iface_idx \in 0 .. IF Ifaces = <<>> THEN 0 ELSE Len(Ifaces) - 1
    /\ scope \in Scopes
    /\ ranges \in Seq(Row)
    /\ advanced_open \in BOOLEAN
    /\ spa_ok \in BOOLEAN
    /\ form_focus \in {At(f) : f \in Fields} \cup {AtRow(i) : i \in 1..MaxRows}
    /\ editing \in BOOLEAN
    /\ running \in BOOLEAN
    /\ session_whitelist \in Seq(Nets)
    /\ fired \in Nat

(* The cursor is on something that is there: `d` never removes a row that  *)
(* does not exist (Vec::remove would panic with the terminal in raw mode), *)
(* an edit is never committed to nothing, and the drawer never closes over *)
(* the cursor.                                                             *)
FocusValid == form_focus \in Range(FormItems)

(* What the driver sweeps by, once the hosts of `heard` have been heard.   *)
SweepRequest(config, heard) ==
    [scope |-> config.scope, expected |-> config.expected, extra |-> config.extra,
     excluded |-> config.excluded, identities |-> heard]

(* Every address a scan with this configuration may probe, whatever it has *)
(* heard before it sweeps.                                                 *)
Wire(config) ==
    LET swept  == UNION {Range(BuildTargets(SweepRequest(config, heard))) : heard \in Heard}
        blocks == UNION {Range(Slash24Blocks(n)) : n \in swept}
    IN UNION {BlockAddrs(b, config.excluded) : b \in blocks}

(* src/README.md:113: an ignored range receives "not a single packet",     *)
(* whatever the scope, the other rows and the hosts heard (whose /24s the  *)
(* scope Auto adds), unless it is the very row the user sweeps with `s`.   *)
IgnoredRowsSilent ==
    running => \A i \in DOMAIN ranges \ {fired} :
        (Parsed(ranges[i]) /\ ranges[i].kind = "Ignored") =>
            NetAddrs(ranges[i].text) \cap Wire(request) = {}

(* src/README.md:124: `s` sweeps "only that range, now", whatever the      *)
(* scope, the other rows and the hosts heard.                              *)
SingleIsAlone ==
    running /\ fired # 0 => Wire(request) \subseteq NetAddrs(ranges[fired].text)
=============================================================================
