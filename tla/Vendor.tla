------------------------------- MODULE Vendor -------------------------------
(***************************************************************************)
(* The vendor of a hardware address (oui.rs, OuiDb): the table that load   *)
(* fills, from what is built in and then line by line from a file, and the *)
(* lookup by the longest prefix.                                           *)
(*                                                                         *)
(* A MAC and a prefix are sequences of digits.  A line of the file is a    *)
(* prefix and a vendor; comments and lines without a tab are left out, as  *)
(* the code skips them.                                                    *)
(***************************************************************************)
EXTENDS Naturals, Sequences, FiniteSets, SequencesExt

CONSTANTS MacDigits,  \* 12
          Digits,
          Addresses,  \* addresses to look up
          Ouis,       \* any length: the file is not checked
          Vendors,
          Builtin,    \* a sequence of lines
          OuiFiles,   \* what the file may hold: sequences of lines
          NoVendor

OuiLine == [prefix : Ouis, vendor : Vendors]

ASSUME VendorAssumption ==
    /\ MacDigits \in Nat
    /\ Addresses \subseteq [1 .. MacDigits -> Digits]
    /\ Ouis \subseteq Seq(Digits)
    /\ Builtin \in Seq(OuiLine)
    /\ \A i, j \in DOMAIN Builtin : i # j => Builtin[i].prefix # Builtin[j].prefix
    /\ OuiFiles \subseteq Seq(OuiLine)
    /\ NoVendor \notin Vendors

VARIABLES
    oui_file,
    oui_at,    \* the line of Builtin \o oui_file to be inserted next
    table,     \* by_len: prefix to vendor, NoVendor where there is no key
    lens       \* the lengths in the table, longest first, once it is loaded

vendorVars == <<oui_file, oui_at, table, lens>>

VendorInit ==
    /\ oui_file \in OuiFiles
    /\ oui_at = 1
    /\ table = [p \in Ouis |-> NoVendor]
    /\ lens = <<>>

OuiLines == Builtin \o oui_file
FromFile == oui_at > Len(Builtin)

(* What is built in replaces what was there.                               *)
InsertBuiltin ==
    /\ oui_at \in DOMAIN OuiLines /\ ~FromFile
    /\ table' = [table EXCEPT ![OuiLines[oui_at].prefix] = OuiLines[oui_at].vendor]
    /\ oui_at' = oui_at + 1
    /\ UNCHANGED <<oui_file, lens>>

(* Fault: a line replaces what was there.                                  *)
InsertReplaces ==
    /\ oui_at \in DOMAIN OuiLines /\ FromFile
    /\ table' = [table EXCEPT ![OuiLines[oui_at].prefix] = OuiLines[oui_at].vendor]
    /\ oui_at' = oui_at + 1
    /\ UNCHANGED <<oui_file, lens>>

(* A line of the file counts only if its prefix is new.                    *)
InsertLine ==
    /\ oui_at \in DOMAIN OuiLines /\ FromFile
    /\ table' = [table EXCEPT ![OuiLines[oui_at].prefix] = IF @ = NoVendor THEN OuiLines[oui_at].vendor ELSE @]
    /\ oui_at' = oui_at + 1
    /\ UNCHANGED <<oui_file, lens>>

(* The lengths that occur, each once, the longest first.                   *)
Lengths == {Len(p) : p \in {q \in Ouis : table[q] # NoVendor}}

Falling(s) == \A i, j \in DOMAIN s : i < j => s[i] > s[j]

SortLengths ==
    /\ oui_at = Len(OuiLines) + 1 /\ lens = <<>>
    /\ \E n \in 0 .. Len(OuiLines) :
          lens' \in {s \in [1 .. n -> Lengths] : Range(s) = Lengths /\ Falling(s)}
    /\ UNCHANGED <<oui_file, oui_at, table>>

Loaded == lens # <<>> /\ UNCHANGED vendorVars

VendorNext == InsertBuiltin \/ InsertLine \/ SortLengths \/ Loaded

VendorSpec == VendorInit /\ [][VendorNext]_vendorVars

(* OuiDb::lookup: the lengths in their order, but those longer than a MAC. *)
Lookup(mac) ==
    LET Opening(i) == SubSeq(mac, 1, lens[i])
        hits == {i \in DOMAIN lens : /\ lens[i] <= MacDigits
                                     /\ Opening(i) \in Ouis /\ table[Opening(i)] # NoVendor}
    IN IF hits = {} THEN NoVendor
       ELSE table[Opening(CHOOSE i \in hits : \A j \in hits : i <= j)]

-----------------------------------------------------------------------------
(* Properties.                                                             *)
VendorTypeOK ==
    /\ oui_file \in OuiFiles
    /\ oui_at \in 1 .. Len(OuiLines) + 1
    /\ table \in [Ouis -> Vendors \cup {NoVendor}]
    /\ Falling(lens)

(* oui.rs:58: the file never displaces what is built in, and a prefix that *)
(* occurs twice in it belongs to the first.                                *)
FirstSays(p) ==
    LET k == CHOOSE k \in DOMAIN OuiLines : OuiLines[k].prefix = p
                        /\ \A j \in 1 .. k - 1 : OuiLines[j].prefix # p
    IN OuiLines[k].vendor

(* oui.rs:27: the longest prefix that fits a MAC names its vendor; a MAC   *)
(* that none fits has none, whatever lengths the file holds.               *)
Fitting(mac) == {k \in DOMAIN OuiLines : IsPrefix(OuiLines[k].prefix, mac)}

LongestNames ==
    /\ VendorTypeOK
    /\ lens # <<>> => \A mac \in Addresses :
        Lookup(mac) = IF Fitting(mac) = {} THEN NoVendor
                      ELSE LET k == CHOOSE k \in Fitting(mac) : \A j \in Fitting(mac) :
                                        Len(OuiLines[j].prefix) <= Len(OuiLines[k].prefix)
                           IN FirstSays(OuiLines[k].prefix)
=============================================================================
