--------------------------- MODULE TuiForm_proofs ---------------------------
(***************************************************************************)
(* The form, for any interfaces, any rows and any order of keys: its       *)
(* cursor is always on something that is there; the scan it starts sends   *)
(* nothing into a row that is to be ignored, and the sweep of one row      *)
(* nothing beside that row.                                                *)
(***************************************************************************)
EXTENDS TuiForm, Targets_proofs

(* Types, and the rows there is room for.                                  *)
FormInv ==
    /\ TypeOK
    /\ Len(ranges) <= MaxRows
    /\ FocusValid

(* The things the cursor can be on.                                        *)
Fixed   == {At("Interface"), At("Scope"), At("AdvancedToggle")}
Rows    == {AtRow(i) : i \in DOMAIN ranges}
Drawer  == {At(f) : f \in {"AdvSpa", "AdvRate", "AdvSettle", "AdvPasses", "AdvNoIpv6",
                           "AdvLeases", "AdvPassive"}}
Reachable == Fixed \cup Rows \cup (IF advanced_open THEN Drawer ELSE {})

-----------------------------------------------------------------------------
(* The elements of two sequences put together are those of both.           *)
LEMMA RangeOfBoth ==
    ASSUME NEW S, NEW a \in Seq(S), NEW b \in Seq(S)
    PROVE  /\ a \o b \in Seq(S) /\ Len(a \o b) = Len(a) + Len(b)
           /\ Range(a \o b) = Range(a) \cup Range(b)
<1> DEFINE c == a \o b
<1>1. /\ c \in Seq(S) /\ DOMAIN c = 1 .. Len(a) + Len(b) /\ Len(c) = Len(a) + Len(b)
      /\ DOMAIN a = 1 .. Len(a) /\ DOMAIN b = 1 .. Len(b) /\ Len(a) \in Nat /\ Len(b) \in Nat
      /\ \A k \in 1 .. Len(a) : c[k] = a[k]
      /\ \A k \in 1 .. Len(b) : c[Len(a) + k] = b[k]
  OBVIOUS
<1> HIDE DEF c
<1>2. \A k \in DOMAIN c : k \in DOMAIN a \/ k - Len(a) \in DOMAIN b
  BY <1>1
<1>3. \A k \in DOMAIN c : k \notin DOMAIN a => c[k] = b[k - Len(a)]
  <2> SUFFICES ASSUME NEW k \in DOMAIN c, k \notin DOMAIN a PROVE c[k] = b[k - Len(a)]
    OBVIOUS
  <2>1. k - Len(a) \in 1 .. Len(b) /\ Len(a) + (k - Len(a)) = k
    BY <1>1, <1>2
  <2> QED
    BY <1>1, <2>1
<1>4. Range(c) \subseteq Range(a) \cup Range(b)
  <2> SUFFICES ASSUME NEW k \in DOMAIN c PROVE c[k] \in Range(a) \cup Range(b)
    BY DEF Range
  <2>1. CASE k \in DOMAIN a
    BY <1>1, <2>1 DEF Range
  <2>2. CASE k \notin DOMAIN a
    BY <1>2, <1>3, <2>2 DEF Range
  <2> QED
    BY <2>1, <2>2
<1>5. Range(a) \subseteq Range(c) /\ Range(b) \subseteq Range(c)
  <2>1. \A k \in DOMAIN a : a[k] \in Range(c)
    BY <1>1 DEF Range
  <2>2. \A k \in DOMAIN b : b[k] \in Range(c)
    <3> SUFFICES ASSUME NEW k \in DOMAIN b PROVE b[k] \in Range(c)
      OBVIOUS
    <3>1. Len(a) + k \in DOMAIN c /\ c[Len(a) + k] = b[k]
      BY <1>1
    <3> QED
      BY <3>1 DEF Range
  <2> QED
    BY <2>1, <2>2 DEF Range
<1> QED
  BY <1>1, <1>4, <1>5 DEF c

(* Inserting and removing an element.                                      *)
LEMMA Inserted ==
    ASSUME NEW S, NEW s \in Seq(S), NEW i \in 1 .. Len(s) + 1, NEW e \in S
    PROVE  InsertAt(s, i, e) \in Seq(S) /\ Len(InsertAt(s, i, e)) = Len(s) + 1
<1> DEFINE front == SubSeq(s, 1, i - 1)
           back  == SubSeq(s, i, Len(s))
           one   == <<e>>
           begun == front \o one
<1>1. front \in Seq(S) /\ Len(front) = i - 1
  OBVIOUS
<1>2. back \in Seq(S) /\ Len(back) = Len(s) - i + 1
  OBVIOUS
<1>3. one \in Seq(S) /\ Len(one) = 1
  OBVIOUS
<1>4. InsertAt(s, i, e) = begun \o back
  BY DEF InsertAt
<1> HIDE DEF front, back, one
<1>5. begun \in Seq(S) /\ Len(begun) = Len(front) + Len(one)
  BY <1>1, <1>3, RangeOfBoth
<1> HIDE DEF begun
<1>6. begun \o back \in Seq(S) /\ Len(begun \o back) = Len(begun) + Len(back)
  BY <1>2, <1>5, RangeOfBoth
<1>7. Len(begun) + Len(back) = Len(s) + 1
  BY <1>1, <1>2, <1>3, <1>5
<1> QED
  BY <1>4, <1>6, <1>7

(* A list with one element removed.                                        *)
LEMMA Removed ==
    ASSUME NEW S, NEW s \in Seq(S), NEW i \in 1 .. Len(s)
    PROVE  RemoveAt(s, i) \in Seq(S) /\ Len(RemoveAt(s, i)) = Len(s) - 1
<1> DEFINE front == SubSeq(s, 1, i - 1)
           back  == SubSeq(s, i + 1, Len(s))
<1>1. front \in Seq(S) /\ Len(front) = i - 1
  OBVIOUS
<1>2. back \in Seq(S) /\ Len(back) = Len(s) - i
  OBVIOUS
<1>3. RemoveAt(s, i) = front \o back
  BY DEF RemoveAt
<1> HIDE DEF front, back
<1> QED
  BY <1>1, <1>2, <1>3, RangeOfBoth

(* What form_items lists.                                                  *)
Items == {At(f) : f \in Fields} \cup {AtRow(i) : i \in Nat}

(* form_items lists what the cursor can be on, and nothing else.           *)
LEMMA ItemsAre ==
    ASSUME ranges \in Seq(Row)
    PROVE  FormItems \in Seq(Items) /\ Range(FormItems) = Reachable
<1> DEFINE a == <<At("Interface"), At("Scope")>>
           b == [i \in DOMAIN ranges |-> AtRow(i)]
           c == <<At("AdvancedToggle")>>
           e == IF advanced_open THEN DrawerItems ELSE <<>>
<1>0. \A f \in Fields : At(f) \in Items
  BY DEF Items
<1>1. a \in Seq(Items) /\ Range(a) = {At("Interface"), At("Scope")}
  <2>1. At("Interface") \in Items /\ At("Scope") \in Items
    BY <1>0 DEF Fields
  <2>2. a \in Seq(Items) /\ DOMAIN a = {1, 2} /\ a[1] = At("Interface") /\ a[2] = At("Scope")
    BY <2>1
  <2> HIDE DEF a
  <2> QED
    BY <2>2 DEF Range
<1>2. b \in Seq(Items) /\ Range(b) = Rows
  <2>1. DOMAIN ranges = 1 .. Len(ranges) /\ Len(ranges) \in Nat
    OBVIOUS
  <2>2. \A i \in 1 .. Len(ranges) : AtRow(i) \in Items
    BY <2>1 DEF Items
  <2>3. b \in Seq(Items) /\ DOMAIN b = DOMAIN ranges
    BY <2>1, <2>2
  <2> QED
    BY <2>3 DEF Range, Rows
<1>3. c \in Seq(Items) /\ Range(c) = {At("AdvancedToggle")}
  <2>1. At("AdvancedToggle") \in Items
    BY <1>0 DEF Fields
  <2>2. c \in Seq(Items) /\ DOMAIN c = {1} /\ c[1] = At("AdvancedToggle")
    BY <2>1
  <2> HIDE DEF c
  <2> QED
    BY <2>2 DEF Range
<1>4. e \in Seq(Items) /\ Range(e) = IF advanced_open THEN Drawer ELSE {}
  <2>1. CASE advanced_open
    <3>1. \A x \in Drawer : x \in Items
      BY <1>0 DEF Drawer, Fields
    <3>2. /\ DOMAIN e = 1 .. 7 /\ e[1] = At("AdvSpa") /\ e[2] = At("AdvRate")
          /\ e[3] = At("AdvSettle") /\ e[4] = At("AdvPasses") /\ e[5] = At("AdvNoIpv6")
          /\ e[6] = At("AdvLeases") /\ e[7] = At("AdvPassive") /\ e = [i \in 1 .. 7 |-> e[i]]
      BY <2>1 DEF DrawerItems
    <3>3. \A i : i \in 1 .. 7 <=> i \in {1, 2, 3, 4, 5, 6, 7}
      OBVIOUS
    <3> HIDE DEF e
    <3>4. Range(e) = Drawer
      BY <3>2, <3>3 DEF Range, Drawer
    <3>5. \A i \in 1 .. 7 : e[i] \in Items
      BY <3>1, <3>2, <3>4 DEF Range
    <3> QED
      BY <2>1, <3>2, <3>4, <3>5
  <2>2. CASE ~advanced_open
    BY <2>2 DEF Range
  <2> QED
    BY <2>1, <2>2
<1> DEFINE ab == a \o b
           abc == ab \o c
           all == abc \o e
<1>5. FormItems = all
  BY DEF FormItems
<1> HIDE DEF a, b, c, e
<1>6. ab \in Seq(Items) /\ Range(ab) = Range(a) \cup Range(b)
  BY <1>1, <1>2, RangeOfBoth
<1> HIDE DEF ab
<1>7. abc \in Seq(Items) /\ Range(abc) = Range(ab) \cup Range(c)
  BY <1>3, <1>6, RangeOfBoth
<1> HIDE DEF abc
<1>8. all \in Seq(Items) /\ Range(all) = Range(abc) \cup Range(e)
  BY <1>4, <1>7, RangeOfBoth
<1> HIDE DEF all
<1> QED
  BY <1>1, <1>2, <1>3, <1>4, <1>5, <1>6, <1>7, <1>8 DEF Reachable, Fixed

(* The cursor is on something that is there iff it is on one of these.     *)
FocusFact == ranges \in Seq(Row) => (FocusValid <=> form_focus \in Reachable)

(* So the test of clamp_focus asks of the cursor whether it is reachable,  *)
LEMMA FocusMeans == FocusFact
  BY ItemsAre DEF FocusFact, FocusValid

(* before a step and after it.                                             *)
LEMMA FocusMeansNext == FocusFact'
  BY FocusMeans, PTL

(* On a row, the row is there.                                             *)
LEMMA RowIsThere ==
    ASSUME FormInv, OnRow
    PROVE  /\ Focused \in 1 .. Len(ranges) /\ DOMAIN ranges = 1 .. Len(ranges)
           /\ form_focus = AtRow(Focused)
<1>1. PICK i \in 1 .. MaxRows : form_focus = AtRow(i)
  BY DEF OnRow
<1>2. Focused = i
  BY <1>1 DEF Focused, AtRow
<1>3. form_focus \in Reachable /\ ranges \in Seq(Row)
  BY FocusMeans DEF FocusFact, FormInv, TypeOK
<1>4. form_focus \notin Fixed /\ form_focus \notin Drawer
  BY <1>1 DEF AtRow, At, Fixed, Drawer
<1>5. form_focus \in Rows
  BY <1>3, <1>4 DEF Reachable
<1>6. PICK j \in DOMAIN ranges : form_focus = AtRow(j)
  BY <1>5 DEF Rows
<1>7. i = j
  BY <1>1, <1>6 DEF AtRow
<1> QED
  BY <1>1, <1>2, <1>3, <1>6, <1>7

(* The rows and the drawer as they are, and the cursor where it is.        *)
LEMMA FocusStays ==
    ASSUME FormInv, DOMAIN ranges' = DOMAIN ranges, ranges' \in Seq(Row),
           form_focus' = form_focus, advanced_open' = advanced_open
    PROVE  FocusValid'
<1>1. form_focus \in Reachable
  BY FocusMeans DEF FocusFact, FormInv, TypeOK
<1>2. Reachable' = Reachable
  BY DEF Reachable, Rows
<1> QED
  BY <1>1, <1>2, FocusMeansNext DEF FocusFact

(* A cursor position and the type of the focus.                            *)
Places == {At(f) : f \in Fields} \cup {AtRow(i) : i \in 1 .. MaxRows}

TypeFact ==
    ranges \in Seq(Row) /\ Len(ranges) <= MaxRows /\ form_focus \in Reachable
       => form_focus \in Places

(* Whatever is reachable is a place of the form,                           *)
LEMMA FocusType == TypeFact
<1> SUFFICES ASSUME ranges \in Seq(Row), Len(ranges) <= MaxRows, form_focus \in Reachable
             PROVE  form_focus \in Places
  BY DEF TypeFact
<1>1. \A i \in DOMAIN ranges : i \in 1 .. MaxRows
  BY FormAssumption
<1>2. \A x \in Fixed \cup Drawer : x \in {At(f) : f \in Fields}
  BY DEF Fixed, Drawer, Fields
<1> QED
  BY <1>1, <1>2 DEF Reachable, Rows, Places

(* before a step and after it.                                             *)
LEMMA FocusTypeNext == TypeFact'
  BY FocusType, PTL

(* What a step has to keep: the types, the room, and the cursor on something. *)
Rest == /\ iface_idx \in 0 .. IF Ifaces = <<>> THEN 0 ELSE Len(Ifaces) - 1
        /\ scope \in Scopes /\ advanced_open \in BOOLEAN /\ spa_ok \in BOOLEAN
        /\ editing \in BOOLEAN /\ running \in BOOLEAN /\ fired \in Nat
        /\ session_whitelist \in Seq(Nets)

(* A step that ends with the cursor on something is in order.              *)
LEMMA Settled ==
    ASSUME Rest', ranges' \in Seq(Row), Len(ranges') <= MaxRows, form_focus' \in Reachable'
    PROVE  FormInv'
<1>1. form_focus' \in Places' /\ FocusValid'
  BY FocusMeansNext, FocusTypeNext DEF FocusFact, TypeFact
<1> QED
  BY <1>1 DEF FormInv, TypeOK, Rest, Places

(* At first the cursor is on the interface.                                *)
THEOREM FormInit == Init => FormInv
<1> SUFFICES ASSUME Init PROVE FormInv
  OBVIOUS
<1>1. ranges \in Seq(Row) /\ Len(ranges) <= MaxRows
  <2>1. PICK rows \in CliRows :
           ranges = IF rows # <<>> THEN rows
                    ELSE IF IfaceNet(0) = NoNet THEN <<>> ELSE <<NewRow(IfaceNet(0))>>
    BY DEF Init
  <2>2. CASE rows # <<>>
    BY <2>1, <2>2, FormAssumption
  <2>3. CASE rows = <<>> /\ IfaceNet(0) = NoNet
    BY <2>1, <2>3, FormAssumption
  <2>4. CASE rows = <<>> /\ IfaceNet(0) # NoNet
    <3>1. IfaceNet(0) \in Nets
      BY <2>4, FormAssumption DEF IfaceNet
    <3>2. NewRow(IfaceNet(0)) \in Row
      BY <3>1 DEF NewRow, Row, Kinds
    <3> QED
      BY <2>1, <2>4, <3>2, FormAssumption
  <2> QED
    BY <2>2, <2>3, <2>4
<1>2. form_focus = At("Interface")
  BY DEF Init
<1>3. form_focus \in Reachable
  BY <1>2 DEF Reachable, Fixed
<1>4. form_focus \in Places
  BY <1>1, <1>3, FocusType DEF TypeFact
<1>5. Rest
  <2>1. spa_ok \in BOOLEAN /\ advanced_open \in BOOLEAN /\ editing \in BOOLEAN /\ running \in BOOLEAN
    BY Zenon DEF Init
  <2>2. scope \in Scopes /\ iface_idx \in 0 .. IF Ifaces = <<>> THEN 0 ELSE Len(Ifaces) - 1
    BY Zenon DEF Init
  <2>3. fired \in Nat /\ session_whitelist \in Seq(Nets)
    BY DEF Init
  <2> QED
    BY <2>1, <2>2, <2>3 DEF Rest
<1>6. TypeOK
  BY <1>1, <1>4, <1>5 DEF TypeOK, Places, Rest
<1> QED
  BY <1>1, <1>3, <1>6, FocusMeans DEF FormInv, FocusFact

-----------------------------------------------------------------------------
(* The keys, one by one.                                                   *)
LEMMA MoveStep == FormInv /\ Move => FormInv'
<1> SUFFICES ASSUME FormInv, Move PROVE FormInv'
  OBVIOUS
<1>1. /\ ranges' = ranges /\ advanced_open' = advanced_open
      /\ iface_idx' = iface_idx /\ scope' = scope /\ spa_ok' = spa_ok /\ editing' = editing
      /\ running' = running /\ fired' = fired /\ session_whitelist' = session_whitelist
  BY DEF Move, runVars
<1>2. ranges \in Seq(Row) /\ FormItems \in Seq(Items) /\ Range(FormItems) = Reachable
  BY ItemsAre DEF FormInv, TypeOK
<1>3. form_focus' \in Range(FormItems)
  <2> DEFINE cur == Cursor(FormItems)
  <2>1. cur \in DOMAIN FormItems
    <3>1. form_focus \in Range(FormItems)
      BY DEF FormInv, FocusValid
    <3>2. \E i \in DOMAIN FormItems : FormItems[i] = form_focus
      BY <3>1 DEF Range
    <3> QED
      BY <3>1, <3>2 DEF Cursor
  <2>2. \/ cur < Len(FormItems) /\ form_focus' = FormItems[cur + 1]
        \/ cur > 1 /\ form_focus' = FormItems[cur - 1]
    BY DEF Move
  <2> HIDE DEF cur
  <2>3. CASE cur < Len(FormItems) /\ form_focus' = FormItems[cur + 1]
    <3>1. cur + 1 \in DOMAIN FormItems
      BY <1>2, <2>1, <2>3
    <3> QED
      BY <2>3, <3>1 DEF Range
  <2>4. CASE cur > 1 /\ form_focus' = FormItems[cur - 1]
    <3>1. cur - 1 \in DOMAIN FormItems
      BY <1>2, <2>1, <2>4
    <3> QED
      BY <2>4, <3>1 DEF Range
  <2> QED
    BY <2>2, <2>3, <2>4
<1>4. form_focus' \in Reachable'
  BY <1>1, <1>2, <1>3 DEF Reachable, Rows
<1>5. ranges' \in Seq(Row) /\ Len(ranges') <= MaxRows /\ Rest'
  BY <1>1 DEF FormInv, TypeOK, Rest
<1> QED
  BY <1>1, <1>4, <1>5, Settled

(* What holds of the form before a step, in the terms of the steps.        *)
LEMMA Known ==
    ASSUME FormInv
    PROVE  /\ Rest /\ ranges \in Seq(Row) /\ Len(ranges) <= MaxRows
           /\ Len(ranges) \in Nat /\ DOMAIN ranges = 1 .. Len(ranges)
           /\ form_focus \in Reachable
  BY FocusMeans DEF FormInv, TypeOK, Rest, FocusFact

(* A step that leaves the rows, the drawer and the cursor alone.           *)
LEMMA FormUntouched ==
    ASSUME FormInv, Rest', ranges' = ranges, form_focus' = form_focus,
           advanced_open' = advanced_open
    PROVE  FormInv'
<1>1. Reachable' = Reachable
  BY DEF Reachable, Rows
<1> QED
  BY <1>1, Known, Settled

LEMMA AddRangeStep == FormInv /\ AddRange => FormInv'
<1> SUFFICES ASSUME FormInv, AddRange PROVE FormInv'
  OBVIOUS
<1> DEFINE at == IF OnRow THEN Focused + 1 ELSE Len(ranges) + 1
<1>1. /\ ranges' = InsertAt(ranges, at, NewRow(Blank)) /\ form_focus' = AtRow(at)
      /\ Len(ranges) < MaxRows /\ MaxRows \in Nat
  BY FormAssumption DEF AddRange
<1>2. Rest'
  BY Known DEF AddRange, Rest, runVars
<1>3. at \in 1 .. Len(ranges) + 1
  BY RowIsThere, Known
<1>4. NewRow(Blank) \in Row
  BY DEF NewRow, Row, Kinds
<1> HIDE DEF at
<1>5. ranges' \in Seq(Row) /\ Len(ranges') = Len(ranges) + 1
  BY <1>1, <1>3, <1>4, Known, Inserted
<1>6. at \in DOMAIN ranges' /\ Len(ranges') <= MaxRows
  BY <1>1, <1>3, <1>5, Known
<1>7. form_focus' \in Reachable'
  BY <1>1, <1>6 DEF Reachable, Rows
<1> QED
  BY <1>2, <1>5, <1>6, <1>7, Settled

LEMMA DeleteRangeStep == FormInv /\ DeleteRange => FormInv'
<1> SUFFICES ASSUME FormInv, DeleteRange PROVE FormInv'
  OBVIOUS
<1> DEFINE at == IF Focused < Len(ranges) THEN Focused ELSE Len(ranges) - 1
<1>1. /\ OnRow /\ ranges' = RemoveAt(ranges, Focused)
      /\ form_focus' = IF Len(ranges) = 1 THEN At("Scope") ELSE AtRow(at)
  BY DEF DeleteRange
<1>2. Rest'
  BY Known DEF DeleteRange, Rest, runVars
<1>3. Focused \in 1 .. Len(ranges)
  BY <1>1, RowIsThere
<1>4. ranges' \in Seq(Row) /\ Len(ranges') = Len(ranges) - 1
  BY <1>1, <1>3, Known, Removed
<1>5. Len(ranges') <= MaxRows
  BY <1>4, Known, FormAssumption
<1>6. form_focus' \in Reachable'
  <2>1. CASE Len(ranges) = 1
    BY <1>1, <2>1 DEF Reachable, Fixed
  <2>2. CASE Len(ranges) # 1
    <3>1. at \in 1 .. Len(ranges) - 1
      BY <1>3, <2>2, Known
    <3> HIDE DEF at
    <3>2. at \in DOMAIN ranges'
      BY <1>4, <3>1
    <3> QED
      BY <1>1, <2>2, <3>2 DEF Reachable, Rows
  <2> QED
    BY <2>1, <2>2
<1> QED
  BY <1>2, <1>4, <1>5, <1>6, Settled

(* The element of an order that Turn chooses is one of the order.          *)
LEMMA Turned ==
    ASSUME NEW order, NEW S, order \in Seq(S), Len(order) # 0, NEW x, NEW k \in Nat
    PROVE  Turn(order, x, k) \in S
<1> DEFINE here == IF x \in Range(order) THEN CHOOSE i \in DOMAIN order : order[i] = x ELSE 1
           n == Len(order)
<1>1. DOMAIN order = 1 .. n /\ n \in Nat \ {0} /\ \A i \in 1 .. n : order[i] \in S
  OBVIOUS
<1>2. here \in 1 .. n
  <2>1. CASE x \in Range(order)
    <3>1. \E i \in DOMAIN order : order[i] = x
      BY <2>1 DEF Range
    <3> QED
      BY <1>1, <2>1, <3>1
  <2>2. CASE x \notin Range(order)
    BY <1>1, <2>2
  <2> QED
    BY <2>1, <2>2
<1>3. Turn(order, x, k) = order[((here - 1 + k) % n) + 1]
  BY DEF Turn
<1> HIDE DEF here, n
<1>4. (here - 1 + k) % n \in 0 .. n - 1
  <2>1. here - 1 + k \in Nat
    BY <1>1, <1>2
  <2> QED
    BY <1>1, <2>1
<1> QED
  BY <1>1, <1>3, <1>4

LEMMA SetKindStep ==
    ASSUME FormInv, NEW k \in Nat, SetKind(k)
    PROVE  FormInv'
<1>1. OnRow /\ Focused \in DOMAIN ranges
  BY RowIsThere DEF SetKind
<1>2. /\ ranges' = [ranges EXCEPT ![Focused].kind = Turn(KindOrder, @, k)]
      /\ form_focus' = form_focus /\ advanced_open' = advanced_open
  BY DEF SetKind
<1>3. KindOrder \in Seq(Kinds) /\ Len(KindOrder) # 0
  BY DEF KindOrder, Kinds
<1>4. \A x : Turn(KindOrder, x, k) \in Kinds
  BY <1>3, Turned
<1>5. ranges[Focused] \in Row
  BY <1>1, Known
<1>6. [ranges[Focused] EXCEPT !.kind = Turn(KindOrder, @, k)] \in Row
  BY <1>4, <1>5 DEF Row
<1>7. ranges' \in Seq(Row) /\ DOMAIN ranges' = DOMAIN ranges /\ Len(ranges') = Len(ranges)
  BY <1>1, <1>2, <1>6, Known
<1>8. Rest'
  BY Known DEF SetKind, Rest, runVars
<1>9. Reachable' = Reachable
  BY <1>2, <1>7 DEF Reachable, Rows
<1> QED
  BY <1>2, <1>7, <1>8, <1>9, Known, Settled

LEMMA ToggleDrawerStep == FormInv /\ ToggleDrawer => FormInv'
<1> SUFFICES ASSUME FormInv, ToggleDrawer PROVE FormInv'
  OBVIOUS
<1>1. form_focus' = At("AdvancedToggle") /\ ranges' = ranges
  BY DEF ToggleDrawer
<1>2. form_focus' \in Reachable'
  BY <1>1 DEF Reachable, Fixed
<1>3. Rest'
  BY Known DEF ToggleDrawer, Rest, runVars
<1> QED
  BY <1>1, <1>2, <1>3, Known, Settled

LEMMA CycleInterfaceStep ==
    ASSUME FormInv, NEW k \in Nat, CycleInterface(k)
    PROVE  FormInv'
<1> DEFINE n    == IF Ifaces = <<>> THEN 1 ELSE Len(Ifaces)
           next == (iface_idx + k) % n
           net  == IfaceNet(next)
<1>1. /\ form_focus' = At("Interface") /\ iface_idx' = next
      /\ ranges' = IF net # NoNet /\ Len(ranges) < 2 THEN <<NewRow(net)>> ELSE ranges
  BY DEF CycleInterface
<1>2. n \in Nat \ {0} /\ iface_idx \in Nat
  BY Known, FormAssumption DEF Rest
<1>3. next \in 0 .. n - 1
  <2> HIDE DEF n
  <2>1. iface_idx + k \in Nat
    BY <1>2
  <2> QED
    BY <1>2, <2>1
<1>4. Rest'
  <2>1. iface_idx' \in 0 .. IF Ifaces = <<>> THEN 0 ELSE Len(Ifaces) - 1
    BY <1>1, <1>3
  <2> QED
    BY <2>1, Known DEF CycleInterface, Rest, runVars
<1>5. net # NoNet => NewRow(net) \in Row
  <2>1. net # NoNet => net \in Nets
    BY FormAssumption DEF IfaceNet
  <2> HIDE DEF net
  <2> QED
    BY <2>1 DEF NewRow, Row, Kinds
<1> HIDE DEF net
<1>6. ranges' \in Seq(Row) /\ Len(ranges') <= MaxRows
  BY <1>1, <1>5, Known, FormAssumption
<1>7. form_focus' \in Reachable'
  BY <1>1 DEF Reachable, Fixed
<1> QED
  BY <1>4, <1>6, <1>7, Settled

LEMMA CycleScopeStep ==
    ASSUME FormInv, NEW k \in Nat, CycleScope(k)
    PROVE  FormInv'
<1>1. ScopeOrder \in Seq(Scopes) /\ Len(ScopeOrder) # 0
  BY DEF ScopeOrder, Scopes
<1>2. Turn(ScopeOrder, scope, k) \in Scopes
  BY <1>1, Turned
<1>3. Rest'
  BY <1>2, Known DEF CycleScope, Rest, runVars
<1> QED
  BY <1>3, FormUntouched DEF CycleScope

LEMMA ChangeStep == FormInv /\ Change => FormInv'
<1> SUFFICES ASSUME FormInv, Change PROVE FormInv'
  OBVIOUS
<1>1. CASE \E k \in Steps(3) : SetKind(k)
  <2>1. PICK k \in Steps(3) : SetKind(k)
    BY <1>1
  <2>2. k \in Nat
    BY DEF Steps
  <2> QED
    BY <2>1, <2>2, SetKindStep
<1>2. CASE ToggleDrawer
  BY <1>2, ToggleDrawerStep
<1>3. CASE \E k \in 0 .. Len(Ifaces) + 1 : CycleInterface(k)
  <2>1. PICK k \in 0 .. Len(Ifaces) + 1 : CycleInterface(k)
    BY <1>3
  <2>2. k \in Nat
    OBVIOUS
  <2> QED
    BY <2>1, <2>2, CycleInterfaceStep
<1>4. CASE \E k \in Steps(4) : CycleScope(k)
  <2>1. PICK k \in Steps(4) : CycleScope(k)
    BY <1>4
  <2>2. k \in Nat
    BY DEF Steps
  <2> QED
    BY <2>1, <2>2, CycleScopeStep
<1>5. CASE CycleSpa
  <2>1. Rest'
    BY <1>5, Known DEF CycleSpa, Rest, runVars
  <2> QED
    BY <1>5, <2>1, FormUntouched DEF CycleSpa
<1> QED
  BY <1>1, <1>2, <1>3, <1>4, <1>5 DEF Change

LEMMA CloseEditorStep == FormInv /\ CloseEditor => FormInv'
<1> SUFFICES ASSUME FormInv, CloseEditor PROVE FormInv'
  OBVIOUS
<1>1. form_focus' = form_focus /\ advanced_open' = advanced_open
  BY DEF CloseEditor
<1>2. Rest'
  BY Known DEF CloseEditor, Rest, runVars
<1>3. CASE ranges' = ranges
  BY <1>1, <1>2, <1>3, FormUntouched
<1>4. CASE /\ OnRow /\ Focused \in DOMAIN ranges
           /\ \E text \in Typed : ranges' = [ranges EXCEPT ![Focused].text = text]
  <2>1. PICK text \in Typed : ranges' = [ranges EXCEPT ![Focused].text = text]
    BY <1>4
  <2>2. [ranges[Focused] EXCEPT !.text = text] \in Row
    <3>1. ranges[Focused] \in Row /\ text \in Nets \cup {Blank, Garbage}
      BY <1>4, Known, FormAssumption
    <3> QED
      BY <3>1 DEF Row
  <2>3. ranges' \in Seq(Row) /\ DOMAIN ranges' = DOMAIN ranges /\ Len(ranges') = Len(ranges)
    BY <1>4, <2>1, <2>2, Known
  <2>4. Reachable' = Reachable
    BY <1>1, <2>3 DEF Reachable, Rows
  <2> QED
    BY <1>1, <1>2, <2>3, <2>4, Known, Settled
<1> QED
  BY <1>3, <1>4 DEF CloseEditor

(* What fires a scan, ends it or marks a device leaves the form alone.     *)
LEMMA OtherSteps ==
    ASSUME FormInv,
           \/ OpenEditor \/ Run \/ SweepFocused \/ ScanEnds
           \/ \E net \in Typed \cap Nets : Whitelist(net)
           \/ UNCHANGED vars
    PROVE  FormInv'
<1>1. CASE OpenEditor
  <2>1. Rest'
    BY <1>1, Known DEF OpenEditor, Rest, runVars
  <2> QED
    BY <1>1, <2>1, FormUntouched DEF OpenEditor
<1>2. CASE Run
  <2>1. Rest'
    BY <1>2, Known DEF Run, Launch, Rest, formVars
  <2> QED
    BY <1>2, <2>1, FormUntouched DEF Run, Launch, formVars
<1>3. CASE SweepFocused
  <2>1. Focused \in Nat
    BY <1>3, RowIsThere, Known DEF SweepFocused
  <2>2. Rest'
    BY <1>3, <2>1, Known DEF SweepFocused, Launch, Rest, formVars
  <2> QED
    BY <1>3, <2>2, FormUntouched DEF SweepFocused, Launch, formVars
<1>4. CASE ScanEnds
  <2>1. Rest'
    BY <1>4, Known DEF ScanEnds, Rest, formVars
  <2> QED
    BY <1>4, <2>1, FormUntouched DEF ScanEnds, formVars
<1>5. CASE \E net \in Typed \cap Nets : Whitelist(net)
  <2>1. PICK net \in Typed \cap Nets : Whitelist(net)
    BY <1>5
  <2>2. session_whitelist' \in Seq(Nets)
    BY <2>1, Known DEF Whitelist, Rest
  <2>3. Rest'
    BY <2>1, <2>2, Known DEF Whitelist, Rest, formVars, runVars
  <2> QED
    BY <2>1, <2>3, FormUntouched DEF Whitelist, formVars
<1>6. CASE UNCHANGED vars
  <2>1. Rest'
    BY <1>6, Known DEF vars, formVars, runVars, Rest
  <2> QED
    BY <1>6, <2>1, FormUntouched DEF vars, formVars
<1> QED
  BY <1>1, <1>2, <1>3, <1>4, <1>5, <1>6

-----------------------------------------------------------------------------
(* No key takes the cursor off what is there, and none fills the form past *)
(* its room.                                                               *)
THEOREM FormStep == FormInv /\ [Next]_vars => FormInv'
  BY MoveStep, AddRangeStep, DeleteRangeStep, ChangeStep, CloseEditorStep, OtherSteps DEF Next

(* The form's types, its room and its cursor, along every run.             *)
THEOREM FormInvariant == Spec => []FormInv
  BY FormInit, FormStep, PTL DEF Spec

(* Types of the form's state.                                              *)
THEOREM FormTypeCorrect == Spec => []TypeOK
<1>1. FormInv => TypeOK
  BY DEF FormInv
<1> QED
  BY <1>1, FormInvariant, PTL

(* Whatever keys come, the cursor is on a field or a row that is there:    *)
(* `d`, which removes the row of the cursor without asking whether there   *)
(* is one (tui/mod.rs), never removes past the end.                        *)
THEOREM FocusValidHolds == Spec => []FocusValid
<1>1. FormInv => FocusValid
  BY DEF FormInv
<1> QED
  BY <1>1, FormInvariant, PTL

-----------------------------------------------------------------------------
(* What a scan is given.                                                   *)

(* Networks of the rows of a kind.                                         *)
LEMMA NetsOfIs ==
    ASSUME NEW rows \in Seq(Row), NEW kind \in Kinds
    PROVE  /\ NetsOf(rows, kind) \in Seq(Nets)
           /\ \A r \in Range(rows) : Parsed(r) /\ r.kind = kind =>
                 r.text \in Range(NetsOf(rows, kind))
<1> DEFINE S == {r \in Range(rows) : Parsed(r) /\ r.kind = kind}
           chosen == Only(rows, S)
           texts == [i \in DOMAIN chosen |-> chosen[i].text]
<1>1. chosen \in Seq(Row) /\ Range(chosen) = Range(rows) \cap S
  <2> HIDE DEF S
  <2> QED
    BY OnlyIs
<1>2. NetsOf(rows, kind) = texts
  BY DEF NetsOf
<1> HIDE DEF chosen
<1>3. DOMAIN chosen = 1 .. Len(chosen) /\ Len(chosen) \in Nat
  BY <1>1
<1>4. \A i \in DOMAIN chosen : chosen[i] \in Row /\ chosen[i] \in S
  BY <1>1 DEF Range
<1>5. \A r \in Row : Parsed(r) => r.text \in Nets
  BY DEF Parsed, Row
<1>6. \A i \in DOMAIN chosen : chosen[i].text \in Nets
  BY <1>4, <1>5
<1>7. texts \in Seq(Nets)
  BY <1>3, <1>6
<1>8. ASSUME NEW r \in Range(rows), Parsed(r), r.kind = kind PROVE r.text \in Range(texts)
  <2>1. r \in Range(chosen)
    BY <1>1, <1>8
  <2>2. PICK i \in DOMAIN chosen : chosen[i] = r
    BY <2>1 DEF Range
  <2>3. i \in DOMAIN texts /\ texts[i] = r.text
    BY <2>2
  <2> HIDE DEF texts
  <2> QED
    BY <2>3 DEF Range
<1> HIDE DEF texts
<1> QED
  BY <1>2, <1>7, <1>8

(* A configuration, whatever it is made from.                              *)
LEMMA ConfigIs ==
    ASSUME FormInv, NEW swept \in Seq(Nets), NEW normal \in Seq(Nets),
           NEW ignored \in Seq(Nets), NEW sc \in Scopes
    PROVE  /\ FinishConfig(swept, normal, ignored, sc) \in ScanConfig
           /\ FinishConfig(swept, normal, ignored, sc).excluded = Range(ignored)
           /\ FinishConfig(swept, normal, ignored, sc).extra = swept
           /\ FinishConfig(swept, normal, ignored, sc).scope = sc
<1> DEFINE judged == normal \o ignored \o session_whitelist
           net == IfaceNet(iface_idx)
           given == IF judged # <<>> THEN judged ELSE IF net # NoNet THEN <<net>> ELSE <<>>
<1>1. judged \in Seq(Nets)
  BY DEF FormInv, TypeOK
<1>2. net \in Nets \cup {NoNet}
  BY FormAssumption DEF IfaceNet
<1> HIDE DEF judged, net
<1>3. given \in Seq(Nets)
  BY <1>1, <1>2
<1>4. Range(ignored) \in SUBSET Nets
  BY DEF Range
<1>5. FinishConfig(swept, normal, ignored, sc) =
         [scope |-> sc, expected |-> given, extra |-> swept, excluded |-> Range(ignored)]
  BY DEF FinishConfig, judged, net
<1> HIDE DEF given
<1> QED
  BY <1>3, <1>4, <1>5 DEF ScanConfig

(* The other rows are there when one has been removed.                     *)
LEMMA RemovedKeeps ==
    ASSUME NEW S, NEW s \in Seq(S), NEW i \in 1 .. Len(s), NEW j \in 1 .. Len(s), j # i
    PROVE  s[j] \in Range(RemoveAt(s, i))
<1> DEFINE front == SubSeq(s, 1, i - 1)
           back  == SubSeq(s, i + 1, Len(s))
<1>1. /\ front \in Seq(S) /\ back \in Seq(S)
      /\ DOMAIN front = 1 .. i - 1 /\ DOMAIN back = 1 .. Len(s) - i
      /\ \A k \in 1 .. i - 1 : front[k] = s[k]
      /\ \A k \in 1 .. Len(s) - i : back[k] = s[k + i]
  OBVIOUS
<1>2. RemoveAt(s, i) = front \o back
  BY DEF RemoveAt
<1> HIDE DEF front, back
<1>3. Range(RemoveAt(s, i)) = Range(front) \cup Range(back)
  BY <1>1, <1>2, RangeOfBoth
<1>4. CASE j < i
  <2>1. j \in DOMAIN front /\ front[j] = s[j]
    BY <1>1, <1>4
  <2> QED
    BY <1>3, <2>1 DEF Range
<1>5. CASE j > i
  <2>1. j - i \in 1 .. Len(s) - i /\ (j - i) + i = j
    BY <1>5
  <2>2. j - i \in DOMAIN back /\ back[j - i] = s[j]
    BY <1>1, <2>1
  <2> QED
    BY <1>3, <2>2 DEF Range
<1> QED
  BY <1>4, <1>5

(* While a scan runs no text is edited, and its request is the one the     *)
(* rows of the form ask for: each other row that is to be ignored is       *)
(* excluded, and for one row alone nothing but that row is to be swept.    *)
RequestIs ==
    /\ ~editing
    /\ request \in ScanConfig
    /\ \A i \in DOMAIN ranges \ {fired} :
          Parsed(ranges[i]) /\ ranges[i].kind = "Ignored" => ranges[i].text \in request.excluded
    /\ fired # 0 => /\ fired \in DOMAIN ranges
                    /\ ranges[fired].text \in Nets
                    /\ request.scope = "None"
                    /\ request.extra = <<ranges[fired].text>>

LockInv == running => RequestIs

(* Enter fires what the form shows.                                        *)
LEMMA RunStep == FormInv /\ LockInv /\ Run => LockInv'
<1> SUFFICES ASSUME FormInv, Run PROVE RequestIs'
  BY DEF LockInv
<1>1. /\ UNCHANGED <<formVars, session_whitelist>> /\ ~editing /\ fired' = 0
      /\ request' = BuildConfig
  BY DEF Run, Launch
<1>2. ranges' = ranges /\ editing' = editing
  BY <1>1 DEF formVars
<1>3. ranges \in Seq(Row) /\ scope \in Scopes
  BY DEF FormInv, TypeOK
<1> DEFINE normal == NetsOf(ranges, "Expected")
           target == NetsOf(ranges, "Target")
           ignored == NetsOf(ranges, "Ignored")
           swept == target \o normal
<1>4. /\ normal \in Seq(Nets) /\ target \in Seq(Nets) /\ ignored \in Seq(Nets)
      /\ \A r \in Range(ranges) : Parsed(r) /\ r.kind = "Ignored" => r.text \in Range(ignored)
  BY <1>3, NetsOfIs DEF Kinds
<1>5. request' = FinishConfig(swept, normal, ignored, scope)
  BY <1>1 DEF BuildConfig
<1> HIDE DEF normal, target, ignored
<1>6. swept \in Seq(Nets)
  BY <1>4
<1> HIDE DEF swept
<1>7. request' \in ScanConfig /\ request'.excluded = Range(ignored)
  BY <1>3, <1>4, <1>5, <1>6, ConfigIs
<1>8. \A i \in DOMAIN ranges : ranges[i] \in Range(ranges)
  BY DEF Range
<1> QED
  BY <1>1, <1>2, <1>4, <1>7, <1>8 DEF RequestIs, Parsed

(* s fires the row the cursor is on, and its text is a network.            *)
LEMMA SweepFocusedStep == FormInv /\ LockInv /\ SweepFocused => LockInv'
<1> SUFFICES ASSUME FormInv, SweepFocused PROVE RequestIs'
  BY DEF LockInv
<1> DEFINE idx == Focused
           others == RemoveAt(ranges, idx)
           normal == NetsOf(others, "Expected")
           ignored == NetsOf(others, "Ignored")
           swept == <<ranges[idx].text>>
<1>1. /\ UNCHANGED <<formVars, session_whitelist>> /\ ~editing /\ fired' = idx
      /\ request' = FinishConfig(swept, normal, ignored, "None")
      /\ idx \in DOMAIN ranges /\ Parsed(ranges[idx])
  BY DEF SweepFocused, Launch, FormKeys, BuildConfigSingle
<1>2. ranges' = ranges /\ editing' = editing
  BY <1>1 DEF formVars
<1> HIDE DEF idx
<1>3. ranges \in Seq(Row) /\ DOMAIN ranges = 1 .. Len(ranges)
  BY DEF FormInv, TypeOK
<1>4. others \in Seq(Row)
  BY <1>1, <1>3, Removed
<1>5. \A i \in DOMAIN ranges \ {idx} : ranges[i] \in Range(others)
  BY <1>1, <1>3, RemovedKeeps
<1> HIDE DEF others
<1>6. /\ normal \in Seq(Nets) /\ ignored \in Seq(Nets)
      /\ \A r \in Range(others) : Parsed(r) /\ r.kind = "Ignored" => r.text \in Range(ignored)
  BY <1>4, NetsOfIs DEF Kinds
<1>7. ranges[idx].text \in Nets
  <2>1. ranges[idx] \in Row
    BY <1>1, <1>3
  <2> QED
    BY <1>1, <2>1 DEF Parsed, Row
<1>8. swept \in Seq(Nets) /\ "None" \in Scopes
  BY <1>7 DEF Scopes
<1> HIDE DEF normal, ignored
<1>9. /\ request' \in ScanConfig /\ request'.excluded = Range(ignored)
      /\ request'.extra = swept /\ request'.scope = "None"
  <2> HIDE DEF swept
  <2> QED
    BY <1>1, <1>6, <1>8, ConfigIs
<1>10. idx \in Nat
  BY <1>1, <1>3
<1> QED
  BY <1>1, <1>2, <1>5, <1>6, <1>7, <1>9, <1>10 DEF RequestIs, Parsed

(* Nothing else changes the form, or the request, while a scan runs.       *)
LEMMA LockStep == FormInv /\ LockInv /\ [Next]_vars => LockInv'
<1> SUFFICES ASSUME FormInv, LockInv, [Next]_vars PROVE LockInv'
  OBVIOUS
<1>1. CASE Run
  BY <1>1, RunStep
<1>2. CASE SweepFocused
  BY <1>2, SweepFocusedStep
<1>3. CASE ScanEnds
  BY <1>3 DEF ScanEnds, LockInv
<1>4. CASE Move \/ AddRange \/ DeleteRange \/ Change \/ OpenEditor
  <2>1. ~running /\ running' = running
    BY <1>4 DEF Move, AddRange, DeleteRange, Change, OpenEditor, FormKeys, runVars, SetKind,
                ToggleDrawer, CycleInterface, CycleScope, CycleSpa
  <2> QED
    BY <2>1 DEF LockInv
<1>5. CASE CloseEditor
  <2>1. editing /\ running' = running
    BY <1>5 DEF CloseEditor, runVars
  <2> QED
    BY <2>1 DEF LockInv, RequestIs
<1>6. CASE UNCHANGED vars \/ \E net \in Typed \cap Nets : Whitelist(net)
  <2>1. UNCHANGED <<formVars, runVars>>
    BY <1>6 DEF vars, Whitelist
  <2>2. /\ running' = running /\ editing' = editing /\ request' = request
        /\ ranges' = ranges /\ fired' = fired
    BY <2>1 DEF formVars, runVars
  <2> QED
    BY <2>2 DEF LockInv, RequestIs, Parsed
<1> QED
  BY <1>1, <1>2, <1>3, <1>4, <1>5, <1>6 DEF Next

(* Along every run, a running scan excludes what its form ignores, and the *)
(* scan of one row asks for no other.                                      *)
THEOREM LockInvariant == Spec => [](FormInv /\ LockInv)
<1>1. Init => LockInv
  BY DEF Init, LockInv
<1> QED
  BY <1>1, FormInit, FormStep, LockStep, PTL DEF Spec

(* A configuration and any hosts heard make a request of Targets.          *)
LEMMA SweepRequestIs ==
    ASSUME NEW c \in ScanConfig, NEW heard \in Heard
    PROVE  SweepRequest(c, heard) \in RequestType
  BY FormAssumption DEF SweepRequest, ScanConfig, RequestType

(* What is on the wire for a configuration: addresses of what was          *)
(* requested, for some hosts heard, and none in a range that is excluded.  *)
LEMMA WireIs ==
    ASSUME NEW c \in ScanConfig, NEW a \in Wire(c)
    PROVE  /\ \E heard \in Heard :
                 \E n \in Range(Requested(SweepRequest(c, heard))) : a \in NetAddrs(n)
           /\ \A x \in c.excluded : a \notin NetAddrs(x)
<1>1. PICK heard \in Heard :
         \E n \in Range(BuildTargets(SweepRequest(c, heard))) :
            \E b \in Range(Slash24Blocks(n)) : a \in BlockAddrs(b, c.excluded)
  BY DEF Wire
<1> DEFINE q == SweepRequest(c, heard)
<1>2. PICK n \in Range(BuildTargets(q)) :
         \E b \in Range(Slash24Blocks(n)) : a \in BlockAddrs(b, c.excluded)
  BY <1>1
<1>3. PICK b \in Range(Slash24Blocks(n)) : a \in BlockAddrs(b, c.excluded)
  BY <1>2
<1>4. q \in RequestType /\ q.excluded = c.excluded
  BY SweepRequestIs DEF SweepRequest
<1> HIDE DEF q
<1>5. q.excluded \in SUBSET Nets /\ Requested(q) \in Seq(Nets)
  BY <1>4, RequestedIs
<1>6. n \in Range(Requested(q))
  <2>1. PICK i \in DOMAIN BuildTargets(q) : n = BuildTargets(q)[i]
    BY <1>2 DEF Range
  <2> QED
    BY <1>4, <2>1, TargetsAre
<1>7. n \in Nets
  BY <1>5, <1>6 DEF Range
<1>8. b \in Nets /\ NetAddrs(b) \subseteq NetAddrs(n)
  <2> DEFINE s == Slash24Blocks(n)
  <2>1. s \in Seq(Nets) /\ \A i \in DOMAIN s : NetAddrs(s[i]) \subseteq NetAddrs(n)
    BY <1>7, BlocksAre
  <2>2. b \in Range(s)
    BY <1>3
  <2> HIDE DEF s
  <2> QED
    BY <2>1, <2>2 DEF Range
<1>9. a \in Survivors(b, q.excluded) /\ a \in ProbeAddrs(b)
  BY <1>4, <1>5, <1>8, <1>3, BlockAddrsAre
<1>10. a \in NetAddrs(n)
  BY <1>8, <1>9, ProbesAre
<1> QED
  BY <1>4, <1>6, <1>9, <1>10 DEF Survivors, q

(* src/README.md:113: whatever the rows, the scope, the interfaces, the    *)
(* keys and the hosts heard, a scan sends nothing into a row of the form   *)
(* that is to be ignored, unless it is the row that is swept.              *)
THEOREM IgnoredRowsSilentHolds == Spec => []IgnoredRowsSilent
<1>1. LockInv => IgnoredRowsSilent
  <2> SUFFICES ASSUME LockInv, running, NEW i \in DOMAIN ranges \ {fired},
                      Parsed(ranges[i]), ranges[i].kind = "Ignored",
                      NEW a \in NetAddrs(ranges[i].text), a \in Wire(request)
               PROVE  FALSE
    BY DEF IgnoredRowsSilent
  <2>1. request \in ScanConfig /\ ranges[i].text \in request.excluded
    BY DEF LockInv, RequestIs
  <2> QED
    BY <2>1, WireIs
<1> QED
  BY <1>1, LockInvariant, PTL

(* src/README.md:124: the sweep of one row stays in that row, at any place *)
(* of the address space, whatever the scope, the other rows and the hosts  *)
(* heard.                                                                  *)
THEOREM SingleIsAloneHolds == Spec => []SingleIsAlone
<1>1. LockInv => SingleIsAlone
  <2> SUFFICES ASSUME LockInv, running, fired # 0, NEW a \in Wire(request)
               PROVE  a \in NetAddrs(ranges[fired].text)
    BY DEF SingleIsAlone
  <2> DEFINE text == ranges[fired].text
             alone == <<text>>
  <2>1. request \in ScanConfig /\ text \in Nets /\ request.scope = "None" /\ request.extra = alone
    BY DEF LockInv, RequestIs
  <2>2. alone \in Seq(Nets) /\ alone \o <<>> = alone
    BY <2>1
  <2>3. Range(alone) = {text}
    <3>1. DOMAIN alone = {1} /\ alone[1] = text
      OBVIOUS
    <3> HIDE DEF alone
    <3> QED
      BY <3>1 DEF Range
  <2> HIDE DEF alone, text
  <2>4. \A heard \in Heard : Requested(SweepRequest(request, heard)) = alone
    BY <2>1, <2>2 DEF Requested, ScopeNets, SweepRequest
  <2>5. a \in NetAddrs(text)
    BY <2>1, <2>3, <2>4, WireIs
  <2> QED
    BY <2>5 DEF text
<1> QED
  BY <1>1, LockInvariant, PTL
=============================================================================
