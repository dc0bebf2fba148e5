------------------------------ MODULE SearchInput ------------------------------
(***************************************************************************)
(* org.plcore.web.global, searchInput.js: text fields with a drop-down     *)
(* list of descriptions.  Typing narrows the list; the value that the form *)
(* submits is kept in a second, shadow field.                              *)
(*                                                                         *)
(* A page has several search inputs.  The browser calls a handler for      *)
(* each key, click and move of the focus, one at a time; the lists arrive  *)
(* from the server in between.  Texts are abstract: what matters of them   *)
(* is which labels contain them, ignoring case (Within), and which label   *)
(* they equal.                                                             *)
(***************************************************************************)
EXTENDS Integers, FiniteSets, Sequences

CONSTANTS
  Input,    \* the search inputs, numbered in document order
  Item,     \* the list items, known by their data-value
  Text,     \* what the visible field can hold
  NoText,   \* the empty text
  NoValue,  \* an empty shadow field
  Label,    \* the text of each item
  Within,   \* the items whose label contains a text
  Lists     \* the lists that the server sends to each search input

ASSUME SearchAssumption ==
  /\ Input \subseteq Nat \ {0} /\ Input # {}
  /\ NoText \in Text
  /\ NoValue \notin Item
  /\ Label \in [Item -> Text \ {NoText}]
  /\ Within \in [Text -> SUBSET Item]
  /\ \A i \in Item : i \in Within[Label[i]]
  /\ Lists \in [Input -> SUBSET Seq(Item)]

(* No item is in a list twice; two items may have the same description. *)
ASSUME ItemsDiffer ==
  \A s \in Input : \A l \in Lists[s] : \A m, n \in DOMAIN l : l[m] = l[n] => m = n

VARIABLES
  input,   \* the elements of each search input, see Control
  active,  \* search inputs with class "active": their list may be displayed
  focus    \* the focused element

vars == <<input, active, focus>>

(* The focusable elements of the search inputs, any other one, and none. *)
Part    == {"visible", "button", "shadow"}
Other   == <<0, "other">>
Nothing == <<0, "nothing">>
Focus   == (Input \X Part) \cup {Other, Nothing}

(* showing: class allShowing, someShowing or neither; shown and highlight:  *)
(* items with these classes; status: the class of the visible field; button:*)
(* what the up/down button offers, "fixed" if it is disabled.               *)
Control ==
  [text : Text, shadow : Item \cup {NoValue},
   status : {"none", "required", "incomplete", "error"},
   list : Seq(Item), shown : SUBSET Item, highlight : SUBSET Item,
   showing : {"none", "some", "all"},
   button : {"show all", "hide all", "filter", "fixed"}]

TypeOK ==
  /\ input \in [Input -> Control]
  /\ active \subseteq Input
  /\ focus \in Focus

Init ==
  /\ input = [s \in Input |->
       [text |-> NoText, shadow |-> NoValue, status |-> "none", list |-> <<>>,
        shown |-> {}, highlight |-> {}, showing |-> "none", button |-> "show all"]]
  /\ active = {}
  /\ focus = Nothing

ItemsOf(c) == {c.list[n] : n \in DOMAIN c.list}

(* The items that the classes of the drop-down list offer for display.     *)
Offered(c) ==
  CASE c.showing = "all"  -> ItemsOf(c)
    [] c.showing = "some" -> c.shown
    [] OTHER              -> {}

(* The list of an input without class active displays none of them.        *)
Displayed(s) == IF s \in active THEN Offered(input[s]) ELSE {}

Checked(c) == c.button # "show all"

Matches(c) == ItemsOf(c) \cap Within[c.text]
Exact(c)   == {i \in ItemsOf(c) : Label[i] = c.text}

First(S) == CHOOSE n \in S : \A m \in S : n <= m

(* exactMatch: of several items with this description the first one.       *)
FirstExact(c) == c.list[First({n \in DOMAIN c.list : Label[c.list[n]] = c.text})]

------------------------------------------------------------------------------
(* The parts that the handlers share, each from one state of the control to *)
(* the next.                                                                *)

ShownCount(c) == Cardinality(c.shown)

SetToggleButton(c, checked) ==
  [c EXCEPT !.button =
     CASE checked /\ ShownCount(c) = 0               -> "hide all"
       [] checked /\ ShownCount(c) # 0               -> "filter"
       [] ~checked /\ ShownCount(c) = Len(c.list)    -> "fixed"
       [] ~checked /\ ShownCount(c) # Len(c.list)    -> "show all"]

SlipClearDropList(c) == [c EXCEPT !.shown = {}, !.highlight = {}]

ClearDropList(c) ==
  [c EXCEPT !.shown = {}, !.highlight = {}, !.showing = "none"]

FilterEmpty(c) ==
  [SetToggleButton(ClearDropList(c), FALSE) EXCEPT
     !.status = "required", !.shadow = NoValue]

SlipFilterExact(c) ==
  [SetToggleButton(ClearDropList(c), FALSE) EXCEPT
     !.status = "none", !.shadow = NoValue]

FilterExact(c) ==
  [SetToggleButton(ClearDropList(c), FALSE) EXCEPT
     !.status = "none", !.shadow = FirstExact(c)]

(* The list narrowed to the matches; no other item stays highlighted. *)
SlipNarrow(c) ==
  [c EXCEPT !.shown = Matches(c),
            !.showing = IF Matches(c) = ItemsOf(c) THEN "all" ELSE "some"]

Narrow(c) ==
  [c EXCEPT !.shown = Matches(c), !.highlight = @ \cap Matches(c),
            !.showing = IF Matches(c) = ItemsOf(c) THEN "all" ELSE "some"]

NoMatch(c) == [ClearDropList(c) EXCEPT !.status = "error", !.shadow = NoValue]

OneMatch(c) ==
  [Narrow(c) EXCEPT !.status = "none", !.shadow = CHOOSE i \in Matches(c) : TRUE]

SlipManyMatches(c) == [Narrow(c) EXCEPT !.status = "incomplete"]

ManyMatches(c) == [Narrow(c) EXCEPT !.status = "incomplete", !.shadow = NoValue]

FilterPartial(c) ==
  SetToggleButton(CASE Matches(c) = {}              -> NoMatch(c)
                    [] Cardinality(Matches(c)) = 1 -> OneMatch(c)
                    [] Cardinality(Matches(c)) > 1 -> ManyMatches(c), FALSE)

FilterItems(c) ==
  CASE c.text = NoText                      -> FilterEmpty(c)
    [] c.text # NoText /\ Exact(c) # {}     -> FilterExact(c)
    [] c.text # NoText /\ Exact(c) = {}     -> FilterPartial(c)

ToggleItemList(c) ==
  IF Checked(c)
  THEN FilterItems(c)
  ELSE SetToggleButton([c EXCEPT !.showing = "all"], TRUE)

(* Up and Down: from the highlighted item to the next one displayed in the  *)
(* direction of the key, or to none; from none to the last or the first.    *)
MoveHighlight(c, down) ==
  LET at(i) == CHOOSE n \in DOMAIN c.list : c.list[n] = i
      seen == {n \in DOMAIN c.list : c.showing = "all" \/ c.list[n] \in c.shown}
      from == {at(i) : i \in c.highlight}
      ahead == {n \in seen : \A m \in from : IF down THEN n > m ELSE n < m}
      next == {n \in ahead : \A m \in ahead : IF down THEN n <= m ELSE n >= m}
  IN  [c EXCEPT !.highlight = {c.list[n] : n \in next}]

(* The field takes over an item: its text and its value. *)
SlipTakeItem(c, i) == [c EXCEPT !.text = Label[i], !.status = "none", !.shadow = Label[i]]

TakeItem(c, i) == [c EXCEPT !.text = Label[i], !.status = "none", !.shadow = i]

(* Tab and Enter take the highlighted item or the only match. *)
Commit(c) ==
  LET taken ==
        IF c.highlight # {} THEN TakeItem(c, CHOOSE i \in c.highlight : TRUE)
        ELSE IF Cardinality(Matches(c)) = 1
             THEN TakeItem(c, CHOOSE i \in Matches(c) : TRUE)
             ELSE [c EXCEPT !.shadow = NoValue]
  IN  SetToggleButton(ClearDropList(taken), FALSE)

(* document.querySelector finds the first in document order. *)
WithoutFirst(A) == {s \in A : \E r \in A : r < s}

(* The listener of all clicks that bubble up to the window: hit tells that  *)
(* the click is on the field, button or drop-down list of an active input.  *)
OutsideClick(A, hit) == IF hit THEN A ELSE WithoutFirst(A)

------------------------------------------------------------------------------
(* The user types: oninput, filterItems2. *)
Type(s, t) ==
  /\ focus = <<s, "visible">>
  /\ t # input[s].text
  /\ input' = [input EXCEPT ![s] = FilterItems([@ EXCEPT !.text = t])]
  /\ UNCHANGED <<active, focus>>

(* onblur, deactivateSearchInput: the focus goes from `focus' to f.  An     *)
(* input stays active if the focus stays within it or goes to no element.   *)
DeactivateSearchInput(f) ==
  {s \in active : /\ focus \in {<<s, "visible">>, <<s, "button">>}
                  /\ f # Nothing
                  /\ f \notin {<<s, p>> : p \in Part}}

(* onfocus, activateSearchInput: of an old active input, it is the new one  *)
(* that loses the class, just before it gets it.                            *)
ActivateSearchInput(A, s) == (IF A # {} THEN A \ {s} ELSE A) \cup {s}

(* The focus moves by mouse, Shift-Tab or a switch of windows. *)
MoveFocus(f) ==
  /\ f # focus
  /\ \A s \in Input : f = <<s, "button">> => input[s].button # "fixed"
  /\ focus' = f
  /\ LET left == active \ DeactivateSearchInput(f)
         entered == {s \in Input : f = <<s, "visible">>}
     IN  /\ active' = IF entered = {} THEN left
                      ELSE ActivateSearchInput(left, CHOOSE s \in entered : TRUE)
         /\ input' = [s \in Input |-> IF s \in entered THEN FilterItems(input[s])
                                      ELSE input[s]]

(* onkeydown, menuKeyHandler. *)
CloseKey(s) ==
  /\ focus = <<s, "visible">>
  /\ Checked(input[s])
  /\ input' = [input EXCEPT ![s] = ToggleItemList(@)]
  /\ UNCHANGED <<active, focus>>

OpenKey(s) ==
  /\ focus = <<s, "visible">>
  /\ ~Checked(input[s])
  /\ input' = [input EXCEPT ![s] = ToggleItemList(@)]
  /\ UNCHANGED <<active, focus>>

(* Up and Down, and Right where the list is open. *)
MoveKey(s, down) ==
  /\ focus = <<s, "visible">>
  /\ input' = [input EXCEPT ![s] = MoveHighlight(@, down)]
  /\ UNCHANGED <<active, focus>>

(* Enter, and Tab, which also moves the focus on to the shadow field. *)
CommitKey(s, key) ==
  /\ focus = <<s, "visible">>
  /\ input' = [input EXCEPT ![s] = Commit(@)]
  /\ active' = WithoutFirst(active)
  /\ focus' = IF key = "tab" THEN <<s, "shadow">> ELSE focus

(* onclick of the up/down button, which stops the propagation. *)
ClickButton(s) ==
  /\ focus = <<s, "button">>
  /\ input[s].button # "fixed"
  /\ input' = [input EXCEPT ![s] = ToggleItemList(@)]
  /\ UNCHANGED <<active, focus>>

(* onclick of a displayed item, selectItem.  Pressing the mouse has taken   *)
(* the focus away.                                                          *)
ClickItem(s, i) ==
  /\ i \in Displayed(s)
  /\ focus = Nothing
  /\ input' = [input EXCEPT ![s] =
       [SetToggleButton(ClearDropList(@), FALSE) EXCEPT
          !.text = Label[i], !.status = "none", !.shadow = i]]
  /\ active' = OutsideClick(active \ {s}, FALSE)
  /\ UNCHANGED focus

(* Clicks that only the window's listener hears: on the visible field or on *)
(* the list itself (a press on one item released on another), or outside.   *)
ClickField(s) ==
  /\ focus = <<s, "visible">>
  /\ active' = OutsideClick(active, s \in active)
  /\ UNCHANGED <<input, focus>>

ClickList(s) ==
  /\ Displayed(s) # {}
  /\ focus = Nothing
  /\ active' = OutsideClick(active, TRUE)
  /\ UNCHANGED <<input, focus>>

ClickElsewhere ==
  /\ focus \in {Nothing, Other}
  /\ active' = OutsideClick(active, FALSE)
  /\ UNCHANGED <<input, focus>>

(* The server sends the children of the drop-down list; the wschange event  *)
(* only measures them again.                                                *)
ReceiveList(s, l) ==
  /\ l # input[s].list
  /\ input' = [input EXCEPT ![s].list = l, ![s].shown = {}, ![s].highlight = {}]
  /\ UNCHANGED <<active, focus>>

Next ==
  \/ \E s \in Input :
       \/ \E t \in Text : Type(s, t)
       \/ CloseKey(s) \/ OpenKey(s)
       \/ \E down \in BOOLEAN : MoveKey(s, down)
       \/ \E key \in {"tab", "enter"} : CommitKey(s, key)
       \/ ClickButton(s) \/ ClickField(s) \/ ClickList(s)
       \/ \E i \in Item : ClickItem(s, i)
       \/ \E l \in Lists[s] : ReceiveList(s, l)
  \/ \E f \in Focus : MoveFocus(f)
  \/ ClickElsewhere

Spec == Init /\ [][Next]_vars

------------------------------------------------------------------------------
(* At most one item is highlighted, and while its input is active it is one *)
(* that the list displays, so that Enter takes an item the user sees,       *)
(* whatever was typed, narrowed or received since it was highlighted.  It   *)
(* is otherwise with an input that is not active: Enter leaves the focus    *)
(* there, and the keys still move, and Enter takes, a highlight in a list   *)
(* that is not displayed.                                                   *)
HighlightDisplayed ==
  \A s \in Input : /\ Cardinality(input[s].highlight) <= 1
                   /\ s \in active => input[s].highlight \subseteq Displayed(s)

(* What the form submits agrees with what the user sees: an input shown as  *)
(* wrong submits nothing, any other submits nothing or an item whose        *)
(* description contains the text, although text, shadow field and status    *)
(* change in different handlers.                                            *)
SubmitsWhatIsSeen ==
  \A s \in Input : input[s].shadow # NoValue =>
     /\ input[s].status = "none"
     /\ input[s].shadow \in Within[input[s].text]

(* The up/down button offers to hide or to filter only an open list, and to *)
(* open it only while not all of it is displayed.                           *)
ButtonFitsList ==
  \A s \in Input : /\ input[s].button \in {"hide all", "filter"} => input[s].showing = "all"
                   /\ input[s].button = "show all" => input[s].showing # "all"

(* While the list offers the value for the text, as the item it is the      *)
(* label of or the only one it is within, no key, click or focus swaps the  *)
(* value for one with another description.  It does get swapped for one     *)
(* with the same: the second of two equal descriptions, clicked, becomes    *)
(* the first when the field is filtered again.  And it may be lost, where   *)
(* the text is within several labels: Tab and Enter take no account of an   *)
(* exact match.                                                             *)
ChoiceKept ==
  [][\A s \in Input :
       LET c == input[s]
           d == input'[s]
       IN  c.text = d.text /\ c.list = d.list
             /\ (c.shadow \in Exact(c) \/ Matches(c) = {c.shadow})
             => \/ d.shadow = c.shadow
                \/ d.shadow \in Item /\ Label[d.shadow] = Label[c.shadow]
                \/ d.shadow = NoValue /\ Cardinality(Matches(c)) # 1]_vars

(* "Close the drop down if the user clicks outside of it": no drop-down     *)
(* list stays open after a click elsewhere on the page.                     *)
ClosedByOutsideClick ==
  [][ClickElsewhere => \A s \in Input : Displayed(s)' = {}]_vars
=============================================================================
