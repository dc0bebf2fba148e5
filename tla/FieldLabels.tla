------------------------------ MODULE FieldLabels ------------------------------
(***************************************************************************)
(* org.plcore.web.docstore, singleDocumentView.js: the user labels         *)
(* segments of a document's page image with the fields of its record.      *)
(*                                                                         *)
(* A click on a segment opens a menu of the fields that apply to it; a     *)
(* click on a field moves the field's label to the segment and then calls  *)
(* the page's updateBackend.  That call is where the module ends: the only *)
(* updateBackend there is (singleDocumentView.html) calls sendMessage,     *)
(* which nothing defines, so it throws and no message leaves the page.  It *)
(* is the last thing a click on a field does, so nothing else is lost.     *)
(*                                                                         *)
(* The menu is a child of the segment it was opened for, so that clicks on *)
(* the menu reach the handler of the segment too, and all clicks reach the *)
(* window's.                                                               *)
(***************************************************************************)
EXTENDS Integers, Sequences

CONSTANTS
  Segment,    \* the segments of class dropbtn
  Field,      \* the keys of docFields
  DocFields,  \* their order
  Applies,    \* isApplicableDocField: the fields for each segment's type
  NoSegment, NoField

ASSUME LabelAssumption ==
  /\ NoSegment \notin Segment /\ NoField \notin Field
  /\ DocFields \in Seq(Field)
  /\ \A f \in Field : \E n \in DOMAIN DocFields : DocFields[n] = f
  /\ \A m, n \in DOMAIN DocFields : DocFields[m] = DocFields[n] => m = n
  /\ Applies \in [Segment -> SUBSET Field]

VARIABLES
  label,     \* the span in each segment, by the field in its id
  menu,      \* the segment for which the menu is open (triggeringElement)
  covet,     \* the menu item with class "covet"
  targetId,  \* docField.targetId, NoSegment for ""
  asked      \* the segment of which updateBackend was last called, per field

vars == <<label, menu, covet, targetId, asked>>

TypeOK ==
  /\ label \in [Segment -> Field \cup {NoField}]
  /\ menu \in Segment \cup {NoSegment}
  /\ covet \in Field \cup {NoField}
  /\ targetId \in [Field -> Segment \cup {NoSegment}]
  /\ asked \in [Field -> Segment \cup {NoSegment}]
  /\ covet # NoField => menu # NoSegment /\ covet \in Applies[menu]

Init ==
  /\ label = [s \in Segment |-> NoField]
  /\ menu = NoSegment
  /\ covet = NoField
  /\ targetId = [f \in Field |-> NoSegment]
  /\ asked = [f \in Field |-> NoSegment]

------------------------------------------------------------------------------
(* myFunction, the handler of segment s: closes the menu, and opens it for  *)
(* s unless it was open there.                                              *)
MenuAfterClick(s) == IF menu = s THEN NoSegment ELSE s

SlipClickSegment(s) ==
  /\ menu' = MenuAfterClick(s)
  /\ UNCHANGED <<label, covet, targetId, asked>>

ClickSegment(s) ==
  /\ menu' = MenuAfterClick(s)
  /\ covet' = NoField
  /\ UNCHANGED <<label, targetId, asked>>

(* A click on the label is not on the dropbtn itself: the handler of the    *)
(* segment opens a menu, if at all, that the window's listener closes.      *)
ClickLabel(s) ==
  /\ label[s] # NoField
  /\ menu' = NoSegment
  /\ covet' = NoField
  /\ UNCHANGED <<label, targetId, asked>>

(* The window's listener on a click elsewhere, or the segment's on a click  *)
(* on the menu beside its items.                                            *)
CloseMenu ==
  /\ menu # NoSegment
  /\ menu' = NoSegment
  /\ covet' = NoField
  /\ UNCHANGED <<label, targetId, asked>>

------------------------------------------------------------------------------
(* The onclick of a menu item, by what the segment is labelled with.        *)

(* Remove any existing segment label defined elsewhere. *)
LabelOnly(s, f) ==
  [r \in Segment |-> IF r = s THEN f
                     ELSE IF label[r] = f THEN NoField ELSE label[r]]

(* updateBackend(itemPath, data-value or null), the last call of each branch. *)
UpdateBackend(f, s) == asked' = [asked EXCEPT ![f] = s]

NewLabel(s, f) ==
  /\ label[s] = NoField
  /\ label' = LabelOnly(s, f)
  /\ UpdateBackend(f, s)

ToggleOff(s, f) ==
  /\ label[s] = f
  /\ label' = [label EXCEPT ![s] = NoField]
  /\ UpdateBackend(f, NoSegment)

SlipRelabel(s, f) ==
  /\ label[s] \notin {NoField, f}
  /\ label' = LabelOnly(s, f)
  /\ UNCHANGED asked

(* updateBackend is not called for the field that lost its segment. *)
Relabel(s, f) ==
  /\ label[s] \notin {NoField, f}
  /\ label' = LabelOnly(s, f)
  /\ UpdateBackend(f, s)

(* targetId is set whatever becomes of the label; then the click reaches    *)
(* the handler of the segment, which closes the menu.                       *)
ClickField(f) ==
  /\ menu # NoSegment
  /\ f \in Applies[menu]
  /\ NewLabel(menu, f) \/ ToggleOff(menu, f) \/ Relabel(menu, f)
  /\ targetId' = [targetId EXCEPT ![f] = menu]
  /\ menu' = MenuAfterClick(menu)
  /\ covet' = NoField

------------------------------------------------------------------------------
(* The items of the menu, in the order of docFields, as positions. *)
MenuItems == {n \in DOMAIN DocFields : menu # NoSegment /\ DocFields[n] \in Applies[menu]}

First(S) == CHOOSE n \in S : \A m \in S : n <= m
Last(S)  == CHOOSE n \in S : \A m \in S : n >= m

(* Up and Down move covet around the items; the first time to an end.  In   *)
(* an empty menu the handler throws.                                        *)
Neighbour(n, down) ==
  LET ahead == {m \in MenuItems : IF down THEN m > n ELSE m < n}
  IN  IF ahead = {} THEN IF down THEN First(MenuItems) ELSE Last(MenuItems)
      ELSE IF down THEN First(ahead) ELSE Last(ahead)

MoveCovet(down) ==
  /\ MenuItems # {}
  /\ covet' = DocFields[
       IF covet = NoField
       THEN IF down THEN First(MenuItems) ELSE Last(MenuItems)
       ELSE Neighbour(CHOOSE n \in MenuItems : DocFields[n] = covet, down)]
  /\ UNCHANGED <<label, menu, targetId, asked>>

(* onmouseover of a menu item. *)
HoverField(f) ==
  /\ menu # NoSegment
  /\ f \in Applies[menu]
  /\ covet' = f
  /\ UNCHANGED <<label, menu, targetId, asked>>

Next ==
  \/ \E s \in Segment : ClickSegment(s) \/ ClickLabel(s)
  \/ \E f \in Field : ClickField(f) \/ HoverField(f)
  \/ \E down \in BOOLEAN : MoveCovet(down)
  \/ CloseMenu

Spec == Init /\ [][Next]_vars

------------------------------------------------------------------------------
(* The page calls updateBackend in step with its labels: the last call for a *)
(* field that labels a segment was about this segment, and its targetId names *)
(* it too.  So a field labels one segment, however labels were moved,         *)
(* replaced and taken off.                                                    *)
LabelsAsked ==
  \A s \in Segment : label[s] # NoField =>
    asked[label[s]] = s /\ targetId[label[s]] = s
=============================================================================
