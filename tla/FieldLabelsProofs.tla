---------------------------- MODULE FieldLabelsProofs ----------------------------
(***************************************************************************)
(* Proofs about FieldLabels, for any segments and fields and whichever     *)
(* fields apply to a segment.                                              *)
(***************************************************************************)
EXTENDS FieldLabels, WellFoundedInduction, TLAPS

(* First and Last are where they look for them, among positions. *)
LEMMA FirstExists ==
  ASSUME NEW k \in Nat, NEW S \in SUBSET (1..k), S # {}
  PROVE  First(S) \in S /\ \A n \in S : First(S) <= n
<1> DEFINE R == {q \in Nat \X Nat : q[1] < q[2]}
<1>1. IsWellFoundedOn(R, Nat) /\ S \in SUBSET Nat
  BY NatLessThanWellFounded DEF OpToRel
<1>2. PICK x \in S : \A y \in S : ~(<<y, x>> \in R)
  BY <1>1, WFMin
<1>3. ASSUME NEW y \in S PROVE x <= y
  <2>1. y \in Nat /\ x \in Nat
    BY <1>1
  <2>2. y < x => <<y, x>> \in R
    BY <2>1
  <2>3. QED
    BY <1>2, <2>1, <2>2
<1>4. QED
  BY <1>3 DEF First

LEMMA LastExists ==
  ASSUME NEW k \in Nat, NEW S \in SUBSET (1..k), S # {}
  PROVE  Last(S) \in S
<1> DEFINE T == {n \in 1..k : k + 1 - n \in S}
           x == First(T)
<1>1. T # {}
  <2>1. PICK n \in S : n \in 1..k
    OBVIOUS
  <2>2. k + 1 - n \in 1..k /\ k + 1 - (k + 1 - n) = n
    BY <2>1
  <2>3. k + 1 - n \in T
    BY <2>2
  <2>4. QED
    BY <2>3
<1>2. T \in SUBSET (1..k)
  OBVIOUS
<1>3. x \in T /\ \A y \in T : x <= y
  BY <1>1, <1>2, FirstExists
<1> HIDE DEF x
<1>4. ASSUME NEW n \in S PROVE n <= k + 1 - x
  <2>1. n \in 1..k /\ k + 1 - n \in 1..k /\ k + 1 - (k + 1 - n) = n
    OBVIOUS
  <2>2. k + 1 - n \in T
    BY <2>1
  <2>3. x <= k + 1 - n /\ x \in 1..k
    BY <1>3, <2>2
  <2>4. QED
    BY <2>1, <2>3
<1>5. k + 1 - x \in S /\ x \in 1..k
  BY <1>3
<1>6. \A n \in S : k + 1 - x >= n
  BY <1>4, <1>5
<1>7. QED
  BY <1>5, <1>6 DEF Last

(* Whatever the covet is, the next one is an item of the menu. *)
LEMMA MoveCovetInMenu ==
  ASSUME TypeOK, NEW down \in BOOLEAN, MoveCovet(down)
  PROVE  menu # NoSegment /\ covet' \in Applies[menu] /\ covet' \in Field
<1>1. MenuItems \in SUBSET (1..Len(DocFields)) /\ Len(DocFields) \in Nat /\ MenuItems # {}
  BY LabelAssumption DEF MenuItems, MoveCovet
<1>2. First(MenuItems) \in MenuItems /\ Last(MenuItems) \in MenuItems
  BY <1>1, FirstExists, LastExists
<1>3. ASSUME NEW n PROVE Neighbour(n, down) \in MenuItems
  <2> DEFINE ahead == {m \in MenuItems : IF down THEN m > n ELSE m < n}
  <2>1. CASE ahead = {}
    BY <1>2, <2>1 DEF Neighbour
  <2>2. CASE ahead # {}
    <3>1. ahead \in SUBSET (1..Len(DocFields))
      BY <1>1
    <3>2. First(ahead) \in ahead /\ Last(ahead) \in ahead
      BY <1>1, <2>2, <3>1, FirstExists, LastExists
    <3>3. QED
      BY <2>2, <3>2 DEF Neighbour
  <2>3. QED
    BY <2>1, <2>2
<1>4. \E n \in MenuItems : covet' = DocFields[n]
  BY <1>2, <1>3 DEF MoveCovet
<1>5. QED
  BY <1>4, LabelAssumption DEF MenuItems, TypeOK

(* The effect of a click on a field: the three cases differ in what becomes *)
(* of the labels, never in which field and segment they are about.          *)
LEMMA ClickFieldEffect ==
  ASSUME TypeOK, NEW f \in Field, ClickField(f)
  PROVE  /\ menu \in Segment
         /\ \/ label' = LabelOnly(menu, f) /\ asked' = [asked EXCEPT ![f] = menu]
            \/ label[menu] = f /\ label' = [label EXCEPT ![menu] = NoField]
               /\ asked' = [asked EXCEPT ![f] = NoSegment]
         /\ targetId' = [targetId EXCEPT ![f] = menu]
BY DEF ClickField, NewLabel, ToggleOff, Relabel, UpdateBackend, TypeOK

LEMMA TypeStep == TypeOK /\ [Next]_vars => TypeOK'
<1> SUFFICES ASSUME TypeOK, [Next]_vars PROVE TypeOK'
  OBVIOUS
<1> USE LabelAssumption DEF TypeOK
<1>1. ASSUME NEW s \in Segment, ClickSegment(s) \/ ClickLabel(s) PROVE TypeOK'
  BY <1>1 DEF ClickSegment, ClickLabel, MenuAfterClick
<1>2. ASSUME NEW f \in Field, ClickField(f) PROVE TypeOK'
  <2>1. menu \in Segment /\ targetId' = [targetId EXCEPT ![f] = menu]
    BY <1>2, ClickFieldEffect
  <2>2. label' \in [Segment -> Field \cup {NoField}]
        /\ asked' \in [Field -> Segment \cup {NoSegment}]
    <3>1. CASE label' = LabelOnly(menu, f) /\ asked' = [asked EXCEPT ![f] = menu]
      BY <2>1, <3>1 DEF LabelOnly
    <3>2. CASE /\ label' = [label EXCEPT ![menu] = NoField]
               /\ asked' = [asked EXCEPT ![f] = NoSegment]
      BY <2>1, <3>2
    <3>3. QED
      BY <1>2, <3>1, <3>2, ClickFieldEffect
  <2>3. menu' = NoSegment /\ covet' = NoField
    BY <1>2 DEF ClickField, MenuAfterClick
  <2>4. QED
    BY <2>1, <2>2, <2>3
<1>3. ASSUME NEW f \in Field, HoverField(f) PROVE TypeOK'
  BY <1>3 DEF HoverField
<1>4. ASSUME NEW down \in BOOLEAN, MoveCovet(down) PROVE TypeOK'
  <2>1. menu # NoSegment /\ covet' \in Applies[menu] /\ covet' \in Field
    BY <1>4, MoveCovetInMenu
  <2>2. UNCHANGED <<label, menu, targetId, asked>>
    BY <1>4 DEF MoveCovet
  <2>3. QED
    BY <2>1, <2>2
<1>5. CASE CloseMenu
  BY <1>5 DEF CloseMenu
<1>6. CASE UNCHANGED vars
  BY <1>6 DEF vars
<1>7. QED
  BY <1>1, <1>2, <1>3, <1>4, <1>5, <1>6 DEF Next

(* The keys and the mouse move the covet only among the items of the menu   *)
(* that is open, and it goes with the menu.                                 *)
THEOREM FieldLabelsTypeOK == Spec => []TypeOK
<1>1. Init => TypeOK
  BY LabelAssumption DEF Init, TypeOK
<1>2. QED
  BY <1>1, TypeStep, PTL DEF Spec

(* A field labels at most one segment, the one updateBackend was last called *)
(* with for it.                                                              *)
THEOREM FieldLabelsAsked == Spec => []LabelsAsked
<1>1. Init => LabelsAsked
  BY DEF Init, LabelsAsked
<1>2. TypeOK /\ LabelsAsked /\ [Next]_vars => LabelsAsked'
  <2> SUFFICES ASSUME TypeOK, LabelsAsked, [Next]_vars PROVE LabelsAsked'
    OBVIOUS
  <2>1. ASSUME NEW f \in Field, ClickField(f) PROVE LabelsAsked'
    <3>1. /\ menu \in Segment
          /\ label \in [Segment -> Field \cup {NoField}]
          /\ targetId' = [targetId EXCEPT ![f] = menu]
          /\ asked \in [Field -> Segment \cup {NoSegment}]
          /\ targetId \in [Field -> Segment \cup {NoSegment}]
      BY <2>1, ClickFieldEffect DEF TypeOK
    <3>2. CASE label' = LabelOnly(menu, f) /\ asked' = [asked EXCEPT ![f] = menu]
      BY <3>1, <3>2, LabelAssumption DEF LabelsAsked, LabelOnly
    <3>3. CASE /\ label[menu] = f
               /\ label' = [label EXCEPT ![menu] = NoField]
               /\ asked' = [asked EXCEPT ![f] = NoSegment]
      BY <3>1, <3>3, LabelAssumption DEF LabelsAsked
    <3>4. QED
      BY <2>1, <3>2, <3>3, ClickFieldEffect
  <2>2. ASSUME UNCHANGED <<label, targetId, asked>> PROVE LabelsAsked'
    BY <2>2 DEF LabelsAsked
  <2>3. QED
    BY <2>1, <2>2 DEF Next, ClickSegment, ClickLabel, HoverField, MoveCovet, CloseMenu, vars
<1>3. QED
  BY <1>1, <1>2, FieldLabelsTypeOK, PTL DEF Spec
=============================================================================
