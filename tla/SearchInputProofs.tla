---------------------------- MODULE SearchInputProofs ----------------------------
(***************************************************************************)
(* Proofs about SearchInput, for any inputs, items, texts and lists.       *)
(*                                                                         *)
(* What the handlers share goes from one state of a control to the next,   *)
(* so the invariant is about one control: its menu, its value, its button. *)
(***************************************************************************)
EXTENDS SearchInput, FiniteSetTheorems, WellFoundedInduction, TLAPS

(* The items narrowed to and highlighted are items of the list, which has   *)
(* each once; nothing is left of a narrowing when the list closes.          *)
MenuOK(c) ==
  /\ c \in Control
  /\ \A m, n \in DOMAIN c.list : c.list[m] = c.list[n] => m = n
  /\ c.shown \subseteq ItemsOf(c)
  /\ c.showing = "none" => c.shown = {}
  /\ c.highlight \subseteq Offered(c)
  /\ \A i, j \in c.highlight : i = j

ValueOK(c) ==
  c.shadow # NoValue =>
    /\ c.status = "none"
    /\ c.shadow \in Within[c.text]
    /\ c.text # NoText

ButtonOK(c) ==
  /\ c.button \in {"hide all", "filter"} => c.showing = "all"
  /\ c.button = "show all" => c.showing # "all"

ControlOK(c) == MenuOK(c) /\ ValueOK(c) /\ ButtonOK(c)

(* What ChoiceKept says of a control. *)
Kept(c, d) ==
  c.text = d.text /\ c.list = d.list
    /\ (c.shadow \in Exact(c) \/ Matches(c) = {c.shadow})
    => \/ d.shadow = c.shadow
       \/ d.shadow \in Item /\ Label[d.shadow] = Label[c.shadow]
       \/ d.shadow = NoValue /\ Cardinality(Matches(c)) # 1

SearchInv ==
  /\ \A s \in Input : ControlOK(input[s])
  /\ TypeOK

------------------------------------------------------------------------------
(* A list without repetitions is as long as the set of its items is large. *)
LEMMA ItemsCounted ==
  ASSUME NEW c, MenuOK(c)
  PROVE  /\ IsFiniteSet(ItemsOf(c)) /\ ItemsOf(c) \subseteq Item
         /\ Cardinality(ItemsOf(c)) = Len(c.list)
<1> DEFINE k == Len(c.list)
           f == [n \in 1..k |-> c.list[n]]
<1>1. c.list \in Seq(Item) /\ k \in Nat /\ DOMAIN c.list = 1..k
  <2>1. c.list \in Seq(Item)
    BY DEF MenuOK, Control
  <2>2. QED
    BY <2>1
<1>2. IsFiniteSet(1..k) /\ Cardinality(1..k) = k
  BY <1>1, FS_Interval
<1>3. f \in Surjection(1..k, ItemsOf(c)) /\ f \in Injection(1..k, ItemsOf(c))
  <2>1. \A m, n \in 1..k : f[m] = f[n] => m = n
    BY <1>1 DEF MenuOK
  <2>2. f \in [1..k -> ItemsOf(c)] /\ \A i \in ItemsOf(c) : \E n \in 1..k : f[n] = i
    BY <1>1 DEF ItemsOf
  <2>3. QED
    BY <2>1, <2>2 DEF Surjection, Injection, IsInjective
<1>4. QED
  BY <1>1, <1>2, <1>3, FS_Surjection DEF ItemsOf

(* The matches can be counted, and one that is the only one is found. *)
LEMMA MatchesCounted ==
  ASSUME NEW c, MenuOK(c)
  PROVE  /\ Matches(c) \subseteq ItemsOf(c) /\ Matches(c) \subseteq Item
         /\ IsFiniteSet(Matches(c))
         /\ Cardinality(Matches(c)) \in Nat
         /\ Cardinality(Matches(c)) = 0 <=> Matches(c) = {}
         /\ Cardinality(Matches(c)) = 1 <=> \E i : Matches(c) = {i}
<1>1. Matches(c) \subseteq ItemsOf(c)
  BY DEF Matches
<1>2. IsFiniteSet(Matches(c))
  BY <1>1, ItemsCounted, FS_Subset
<1>3. QED
  BY <1>1, <1>2, ItemsCounted, FS_CardinalityType, FS_EmptySet, FS_Singleton

LEMMA ExactMatches ==
  ASSUME NEW c, MenuOK(c)
  PROVE  /\ Exact(c) \subseteq Matches(c) /\ Exact(c) \subseteq Item
         /\ \A i, j \in Exact(c) : Label[i] = Label[j]
         /\ Exact(c) # {} => c.text # NoText
  BY ItemsCounted, SearchAssumption DEF Exact, Matches

LEMMA FirstExists ==
  ASSUME NEW S \in SUBSET Nat, S # {}
  PROVE  First(S) \in S
<1> DEFINE R == {q \in Nat \X Nat : q[1] < q[2]}
<1>1. IsWellFoundedOn(R, Nat)
  BY NatLessThanWellFounded DEF OpToRel
<1>2. PICK n \in S : \A m \in S : ~(<<m, n>> \in R)
  BY <1>1, WFMin
<1>3. ASSUME NEW m \in S PROVE n <= m
  <2>1. m \in Nat /\ n \in Nat
    OBVIOUS
  <2>2. m < n => <<m, n>> \in R
    BY <2>1
  <2>3. QED
    BY <1>2, <2>1, <2>2
<1>4. QED
  BY <1>3 DEF First

(* The first item with the text as its description is one with it. *)
LEMMA FirstExactIsExact ==
  ASSUME NEW c, MenuOK(c), Exact(c) # {}
  PROVE  FirstExact(c) \in Exact(c)
<1> DEFINE S == {n \in DOMAIN c.list : Label[c.list[n]] = c.text}
<1>1. S \in SUBSET Nat
  <2>1. c.list \in Seq(Item)
    BY DEF MenuOK, Control
  <2>2. QED
    BY <2>1
<1>2. S # {}
  BY DEF Exact, ItemsOf
<1>3. First(S) \in S
  BY <1>1, <1>2, FirstExists
<1>4. FirstExact(c) = c.list[First(S)]
  BY DEF FirstExact
<1>5. QED
  BY <1>3, <1>4 DEF Exact, ItemsOf

(* MenuOK is about the list and what is marked of it. *)
LEMMA SameMenu ==
  ASSUME NEW c, MenuOK(c), NEW d \in Control,
         d.list = c.list, d.shown = c.shown, d.highlight = c.highlight,
         d.showing = c.showing
  PROVE  MenuOK(d) /\ ItemsOf(d) = ItemsOf(c) /\ Offered(d) = Offered(c)
<1>1. ItemsOf(d) = ItemsOf(c)
  BY DEF ItemsOf
<1>2. Offered(d) = Offered(c)
  BY <1>1 DEF Offered
<1>3. QED
  BY <1>1, <1>2 DEF MenuOK

(* The button fits the list it was set for, and nothing else changes. *)
LEMMA ToggleButtonFits ==
  ASSUME NEW c, MenuOK(c), NEW checked \in BOOLEAN,
         IF checked THEN c.showing = "all"
         ELSE c.showing = "all" => c.shown = ItemsOf(c)
  PROVE  LET d == SetToggleButton(c, checked)
         IN  /\ MenuOK(d) /\ ButtonOK(d)
             /\ d.text = c.text /\ d.list = c.list
             /\ d.shadow = c.shadow /\ d.status = c.status
<1> DEFINE d == SetToggleButton(c, checked)
<1>1. c.shown \subseteq ItemsOf(c) /\ ShownCount(c) \in Nat /\ Len(c.list) \in Nat
  <2>1. c.shown \subseteq ItemsOf(c) /\ c.list \in Seq(Item)
    BY DEF MenuOK, Control
  <2>2. IsFiniteSet(c.shown)
    BY <2>1, ItemsCounted, FS_Subset
  <2>3. QED
    BY <2>1, <2>2, FS_CardinalityType DEF ShownCount
<1>2. PICK b \in {"show all", "hide all", "filter", "fixed"} :
        /\ d = [c EXCEPT !.button = b]
        /\ b \in {"hide all", "filter"} => checked
        /\ b = "show all" => ~checked /\ ShownCount(c) # Len(c.list)
  <2>1. CASE checked /\ ShownCount(c) = 0
    BY <2>1 DEF SetToggleButton
  <2>2. CASE checked /\ ShownCount(c) # 0
    BY <2>2 DEF SetToggleButton
  <2>3. CASE ~checked /\ ShownCount(c) = Len(c.list)
    BY <2>3 DEF SetToggleButton
  <2>4. CASE ~checked /\ ShownCount(c) # Len(c.list)
    BY <2>4 DEF SetToggleButton
  <2>5. QED
    BY <2>1, <2>2, <2>3, <2>4
<1> HIDE DEF d
<1>3. /\ d \in Control /\ d.button = b
      /\ d.text = c.text /\ d.list = c.list /\ d.shown = c.shown
      /\ d.highlight = c.highlight /\ d.showing = c.showing
      /\ d.shadow = c.shadow /\ d.status = c.status
  BY <1>2 DEF MenuOK, Control
<1>4. MenuOK(d)
  BY <1>3, SameMenu
<1>5. ButtonOK(d)
  <2>1. c.showing = "all" /\ ~checked => ShownCount(c) = Len(c.list)
    BY ItemsCounted DEF ShownCount
  <2>2. QED
    BY <1>2, <1>3, <2>1 DEF ButtonOK
<1>6. QED
  BY <1>3, <1>4, <1>5 DEF d

LEMMA ClearedMenu ==
  ASSUME NEW c, MenuOK(c)
  PROVE  LET d == ClearDropList(c)
         IN  /\ MenuOK(d) /\ d.showing = "none"
             /\ d.text = c.text /\ d.list = c.list
             /\ d.shadow = c.shadow /\ d.status = c.status
  BY DEF MenuOK, ClearDropList, Control, ItemsOf, Offered

LEMMA NarrowedMenu ==
  ASSUME NEW c, MenuOK(c)
  PROVE  LET d == Narrow(c)
         IN  /\ MenuOK(d)
             /\ d.showing = "all" => d.shown = ItemsOf(d)
             /\ d.text = c.text /\ d.list = c.list
             /\ d.shadow = c.shadow /\ d.status = c.status
<1> DEFINE d == Narrow(c)
<1>1. PICK w \in {"all", "some"} :
        /\ d = [c EXCEPT !.shown = Matches(c), !.highlight = c.highlight \cap Matches(c),
                         !.showing = w]
        /\ w = "all" => Matches(c) = ItemsOf(c)
  BY DEF Narrow, MenuOK, Control
<1> HIDE DEF d
<1>2. /\ d \in Control /\ d.shown = Matches(c) /\ d.showing = w
      /\ d.highlight = c.highlight \cap Matches(c)
      /\ d.text = c.text /\ d.list = c.list
      /\ d.shadow = c.shadow /\ d.status = c.status
  BY <1>1, MatchesCounted DEF MenuOK, Control
<1>3. ItemsOf(d) = ItemsOf(c) /\ Matches(c) \subseteq ItemsOf(d)
  BY <1>2, MatchesCounted DEF ItemsOf
<1>4. Offered(d) = Matches(c)
  BY <1>1, <1>2, <1>3 DEF Offered
<1>5. MenuOK(d)
  BY <1>1, <1>2, <1>3, <1>4 DEF MenuOK
<1>6. QED
  BY <1>1, <1>2, <1>3, <1>5 DEF d

(* d is c with another text, value or status: its list, what is marked of   *)
(* it and its button are the same.                                          *)
SameList(c, d) ==
  /\ d \in Control
  /\ d.list = c.list /\ d.shown = c.shown /\ d.highlight = c.highlight
  /\ d.showing = c.showing /\ d.button = c.button

LEMMA ValueSet ==
  ASSUME NEW c, MenuOK(c), NEW d, SameList(c, d)
  PROVE  MenuOK(d) /\ (ButtonOK(c) => ButtonOK(d)) /\ ItemsOf(d) = ItemsOf(c)
  BY SameMenu DEF SameList, ButtonOK

------------------------------------------------------------------------------
(* Whatever was typed, filtering leaves a control in order, and does not    *)
(* swap the value of a text that stays the same.                            *)
LEMMA FilterItemsOK ==
  ASSUME NEW c, MenuOK(c)
  PROVE  LET d == FilterItems(c)
         IN  /\ ControlOK(d) /\ d.text = c.text /\ d.list = c.list
             /\ ValueOK(c) => Kept(c, d)
<1> DEFINE d == FilterItems(c)
           e == SetToggleButton(ClearDropList(c), FALSE)
<1>1. /\ MenuOK(e) /\ ButtonOK(e) /\ e.text = c.text /\ e.list = c.list
      /\ e.text \in Text
  <2> DEFINE g == ClearDropList(c)
  <2>1. MenuOK(g) /\ g.showing = "none" /\ g.text = c.text /\ g.list = c.list
    BY ClearedMenu
  <2>2. c.text \in Text
    BY DEF MenuOK, Control
  <2> HIDE DEF g
  <2>3. LET x == SetToggleButton(g, FALSE)
        IN MenuOK(x) /\ ButtonOK(x) /\ x.text = g.text /\ x.list = g.list
    BY <2>1, ToggleButtonFits
  <2>4. QED
    BY <2>1, <2>2, <2>3 DEF g
<1>2. CASE c.text = NoText
  <2>1. d = [e EXCEPT !.status = "required", !.shadow = NoValue]
    BY <1>2 DEF FilterItems, FilterEmpty
  <2> HIDE DEF d, e
  <2>2. SameList(e, d) /\ d.text = e.text /\ d.shadow = NoValue
    BY <1>1, <2>1 DEF SameList, MenuOK, Control
  <2>3. MenuOK(d) /\ ButtonOK(d) /\ d.list = e.list
    BY <1>1, <2>2, ValueSet DEF SameList
  <2>4. ValueOK(c) => Kept(c, d)
    BY <1>2, <2>2, ExactMatches, MatchesCounted, SearchAssumption DEF Kept, ValueOK
  <2>5. QED
    BY <1>1, <2>2, <2>3, <2>4 DEF ControlOK, ValueOK, d
<1>3. CASE c.text # NoText /\ Exact(c) # {}
  <2> DEFINE i == FirstExact(c)
  <2>1. d = [e EXCEPT !.status = "none", !.shadow = i]
    BY <1>3 DEF FilterItems, FilterExact
  <2>2. i \in Exact(c) /\ i \in Item /\ i \in Within[c.text]
    <3>1. i \in Exact(c)
      BY <1>3, FirstExactIsExact
    <3>2. QED
      BY <3>1, ExactMatches DEF Matches
  <2> HIDE DEF d, e, i
  <2>3. SameList(e, d) /\ d.text = e.text /\ d.shadow = i /\ d.status = "none"
    BY <1>1, <2>1, <2>2 DEF SameList, MenuOK, Control
  <2>4. MenuOK(d) /\ ButtonOK(d) /\ d.list = e.list
    BY <1>1, <2>3, ValueSet DEF SameList
  <2>5. Kept(c, d)
    BY <2>2, <2>3, ExactMatches, MatchesCounted DEF Kept
  <2>6. QED
    BY <1>1, <1>3, <2>2, <2>3, <2>4, <2>5 DEF ControlOK, ValueOK, d
<1>4. CASE c.text # NoText /\ Exact(c) = {}
  <2>1. d = FilterPartial(c)
    BY <1>4 DEF FilterItems
  <2>2. PICK f :
          /\ d = SetToggleButton(f, FALSE)
          /\ MenuOK(f) /\ f.text = c.text /\ f.list = c.list
          /\ f.showing = "all" => f.shown = ItemsOf(f)
          /\ ValueOK(f)
          /\ \A i : Matches(c) = {i} => f.shadow = i
    <3>1. CASE Matches(c) = {}
      <4> DEFINE g == ClearDropList(c)
                 f == NoMatch(c)
      <4>1. MenuOK(g) /\ g.showing = "none" /\ g.text = c.text /\ g.list = c.list
        BY ClearedMenu
      <4>2. f = [g EXCEPT !.status = "error", !.shadow = NoValue]
        BY DEF NoMatch
      <4>3. d = SetToggleButton(f, FALSE)
        <5>1. ~(Cardinality(Matches(c)) = 1) /\ ~(Cardinality(Matches(c)) > 1)
          BY <3>1, MatchesCounted
        <5>2. (CASE Matches(c) = {}              -> f
                 [] Cardinality(Matches(c)) = 1 -> OneMatch(c)
                 [] Cardinality(Matches(c)) > 1 -> ManyMatches(c)) = f
          BY <3>1, <5>1
        <5>3. QED
          BY <2>1, <5>2 DEF FilterPartial
      <4> HIDE DEF f, g
      <4>4. SameList(g, f) /\ f.text = g.text /\ f.shadow = NoValue
        BY <4>1, <4>2 DEF SameList, MenuOK, Control
      <4>5. /\ MenuOK(f) /\ f.text = c.text /\ f.list = c.list
            /\ f.showing = "none" /\ f.shadow = NoValue
        BY <4>1, <4>4, ValueSet DEF SameList
      <4>6. QED
        BY <3>1, <4>3, <4>5 DEF ValueOK
    <3>2. CASE Cardinality(Matches(c)) = 1
      <4> DEFINE g == Narrow(c)
                 i == CHOOSE x \in Matches(c) : TRUE
                 f == OneMatch(c)
      <4>1. /\ MenuOK(g) /\ g.text = c.text /\ g.list = c.list
            /\ g.showing = "all" => g.shown = ItemsOf(g)
        BY NarrowedMenu
      <4>2. Matches(c) = {i} /\ i \in Item /\ i \in Within[c.text] /\ Matches(c) # {}
        BY <3>2, MatchesCounted DEF Matches
      <4>3. f = [g EXCEPT !.status = "none", !.shadow = i]
        BY DEF OneMatch
      <4>4. d = SetToggleButton(f, FALSE)
        BY <2>1, <3>2, <4>2 DEF FilterPartial
      <4> HIDE DEF f, g, i
      <4>5. SameList(g, f) /\ f.text = g.text /\ f.shadow = i /\ f.status = "none"
        BY <4>1, <4>2, <4>3 DEF SameList, MenuOK, Control
      <4>6. /\ MenuOK(f) /\ f.text = c.text /\ f.list = c.list
            /\ f.showing = "all" => f.shown = ItemsOf(f)
        BY <4>1, <4>5, ValueSet DEF SameList
      <4>7. ValueOK(f) /\ \A x : Matches(c) = {x} => f.shadow = x
        BY <1>4, <4>2, <4>5, <4>6 DEF ValueOK
      <4>8. QED
        BY <4>4, <4>6, <4>7
    <3>3. CASE Cardinality(Matches(c)) > 1
      <4> DEFINE g == Narrow(c)
                 f == ManyMatches(c)
      <4>1. /\ MenuOK(g) /\ g.text = c.text /\ g.list = c.list
            /\ g.showing = "all" => g.shown = ItemsOf(g)
        BY NarrowedMenu
      <4>2. f = [g EXCEPT !.status = "incomplete", !.shadow = NoValue]
        BY DEF ManyMatches
      <4>3. Matches(c) # {} /\ Cardinality(Matches(c)) # 1 /\ Cardinality(Matches(c)) \in Nat
        BY <3>3, MatchesCounted
      <4>4. d = SetToggleButton(f, FALSE)
        BY <2>1, <3>3, <4>3 DEF FilterPartial
      <4> HIDE DEF f, g
      <4>5. SameList(g, f) /\ f.text = g.text /\ f.shadow = NoValue
        BY <4>1, <4>2 DEF SameList, MenuOK, Control
      <4>6. /\ MenuOK(f) /\ f.text = c.text /\ f.list = c.list
            /\ f.showing = "all" => f.shown = ItemsOf(f)
        BY <4>1, <4>5, ValueSet DEF SameList
      <4>7. ValueOK(f) /\ \A x : Matches(c) # {x}
        BY <4>3, <4>5, MatchesCounted DEF ValueOK
      <4>8. QED
        BY <4>4, <4>6, <4>7
    <3>4. Matches(c) = {} \/ Cardinality(Matches(c)) = 1 \/ Cardinality(Matches(c)) > 1
      BY MatchesCounted
    <3>5. QED
      BY <3>1, <3>2, <3>3, <3>4
  <2> HIDE DEF d
  <2>3. /\ MenuOK(d) /\ ButtonOK(d) /\ d.text = f.text /\ d.list = f.list
        /\ d.shadow = f.shadow /\ d.status = f.status
    BY <2>2, ToggleButtonFits
  <2>4. Kept(c, d)
    BY <1>4, <2>2, <2>3 DEF Kept
  <2>5. QED
    BY <2>2, <2>3, <2>4 DEF ControlOK, ValueOK, d
<1>5. QED
  BY <1>2, <1>3, <1>4

LEMMA ToggleItemListOK ==
  ASSUME NEW c, ControlOK(c)
  PROVE  ControlOK(ToggleItemList(c)) /\ Kept(c, ToggleItemList(c))
<1>1. CASE Checked(c)
  BY <1>1, FilterItemsOK DEF ToggleItemList, ControlOK
<1>2. CASE ~Checked(c)
  <2> DEFINE e == [c EXCEPT !.showing = "all"]
             d == SetToggleButton(e, TRUE)
  <2>1. /\ e \in Control /\ e.list = c.list /\ e.shown = c.shown /\ e.showing = "all"
        /\ e.highlight = c.highlight /\ e.text = c.text /\ e.shadow = c.shadow
        /\ e.status = c.status
    BY DEF ControlOK, MenuOK, Control
  <2>2. c.highlight \subseteq ItemsOf(c)
    BY DEF ControlOK, MenuOK, Offered
  <2> HIDE DEF e
  <2>3. ItemsOf(e) = ItemsOf(c) /\ Offered(e) = ItemsOf(c)
    BY <2>1 DEF ItemsOf, Offered
  <2>4. MenuOK(e)
    BY <2>1, <2>2, <2>3 DEF ControlOK, MenuOK
  <2>5. /\ MenuOK(d) /\ ButtonOK(d) /\ d.text = c.text /\ d.list = c.list
        /\ d.shadow = c.shadow /\ d.status = c.status
    BY <2>1, <2>4, ToggleButtonFits
  <2> HIDE DEF d
  <2>6. ControlOK(d) /\ Kept(c, d)
    BY <2>5 DEF ControlOK, ValueOK, Kept
  <2>7. QED
    BY <1>2, <2>6 DEF ToggleItemList, d, e
<1>3. QED
  BY <1>1, <1>2

(* Up and Down go to one item of those displayed, or to none. *)
LEMMA MoveHighlightOK ==
  ASSUME NEW c, ControlOK(c), NEW down \in BOOLEAN
  PROVE  ControlOK(MoveHighlight(c, down)) /\ Kept(c, MoveHighlight(c, down))
<1> DEFINE at(i) == CHOOSE n \in DOMAIN c.list : c.list[n] = i
           seen == {n \in DOMAIN c.list : c.showing = "all" \/ c.list[n] \in c.shown}
           from == {at(i) : i \in c.highlight}
           ahead == {n \in seen : \A m \in from : IF down THEN n > m ELSE n < m}
           next == {n \in ahead : \A m \in ahead : IF down THEN n <= m ELSE n >= m}
           H == {c.list[n] : n \in next}
           d == MoveHighlight(c, down)
<1>1. d = [c EXCEPT !.highlight = H]
  BY DEF MoveHighlight
<1>2. next \subseteq seen /\ seen \subseteq DOMAIN c.list
  OBVIOUS
<1>3. \A m, n \in next : m = n
  <2>1. \A m, n \in next : IF down THEN n <= m /\ m <= n ELSE n >= m /\ m >= n
    OBVIOUS
  <2>2. c.list \in Seq(Item)
    BY DEF ControlOK, MenuOK, Control
  <2>3. next \subseteq Nat
    BY <1>2, <2>2
  <2> HIDE DEF next
  <2>4. QED
    BY <2>1, <2>3
<1>4. \A n \in next : c.list[n] \in Offered(c)
  <2>1. c.showing \in {"none", "some", "all"} /\ (c.showing = "none" => c.shown = {})
    BY DEF ControlOK, MenuOK, Control
  <2>2. CASE c.showing = "all"
    BY <1>2, <2>2 DEF Offered, ItemsOf
  <2>3. CASE c.showing = "some"
    <3>1. \A n \in seen : c.list[n] \in c.shown
      BY <2>3
    <3>2. QED
      BY <1>2, <2>3, <3>1 DEF Offered
  <2>4. CASE c.showing = "none"
    <3>1. seen = {}
      BY <2>1, <2>4
    <3>2. QED
      BY <1>2, <3>1
  <2>5. QED
    BY <2>1, <2>2, <2>3, <2>4
<1> HIDE DEF next
<1>5. H \subseteq Offered(c) /\ \A i, j \in H : i = j
  BY <1>3, <1>4
<1>6. Offered(c) \subseteq Item
  <2>1. c.shown \subseteq Item /\ ItemsOf(c) \subseteq Item
    BY ItemsCounted DEF ControlOK, MenuOK, Control
  <2>2. QED
    BY <2>1 DEF Offered
<1> HIDE DEF H, d
<1>7. /\ d \in Control /\ d.highlight = H
      /\ d.list = c.list /\ d.shown = c.shown /\ d.showing = c.showing /\ d.button = c.button
      /\ d.text = c.text /\ d.shadow = c.shadow /\ d.status = c.status
  BY <1>1, <1>5, <1>6 DEF ControlOK, MenuOK, Control
<1>8. ItemsOf(d) = ItemsOf(c) /\ Offered(d) = Offered(c)
  <2>1. ItemsOf(d) = ItemsOf(c)
    BY <1>7 DEF ItemsOf
  <2>2. QED
    BY <1>7, <2>1 DEF Offered
<1>9. ControlOK(d) /\ Kept(c, d)
  BY <1>5, <1>7, <1>8 DEF ControlOK, MenuOK, ValueOK, ButtonOK, Kept
<1>10. QED
  BY <1>9 DEF d

(* A control that has taken over an item, or given up its value, and then   *)
(* closes its list.                                                         *)
LEMMA ClosedOK ==
  ASSUME NEW c, MenuOK(c), NEW e \in Control, SameList(c, e), ValueOK(e)
  PROVE  LET d == SetToggleButton(ClearDropList(e), FALSE)
         IN  ControlOK(d) /\ d.text = e.text /\ d.list = c.list /\ d.shadow = e.shadow
<1> DEFINE g == ClearDropList(e)
           d == SetToggleButton(g, FALSE)
<1>1. MenuOK(e) /\ e.list = c.list
  BY ValueSet DEF SameList
<1>2. /\ MenuOK(g) /\ g.showing = "none" /\ g.text = e.text /\ g.list = e.list
      /\ g.shadow = e.shadow /\ g.status = e.status
  BY <1>1, ClearedMenu
<1> HIDE DEF g
<1>3. /\ MenuOK(d) /\ ButtonOK(d) /\ d.text = g.text /\ d.list = g.list
      /\ d.shadow = g.shadow /\ d.status = g.status
  BY <1>2, ToggleButtonFits
<1> HIDE DEF d
<1>4. ControlOK(d)
  BY <1>2, <1>3 DEF ControlOK, ValueOK
<1>5. QED
  BY <1>1, <1>2, <1>3, <1>4 DEF d, g

LEMMA TakeItemOK ==
  ASSUME NEW c, MenuOK(c), NEW i \in Item
  PROVE  LET e == TakeItem(c, i)
         IN  /\ e \in Control /\ SameList(c, e) /\ ValueOK(e)
             /\ e.text = Label[i] /\ e.shadow = i
<1> DEFINE e == TakeItem(c, i)
<1>1. Label[i] \in Text /\ Label[i] # NoText /\ i \in Within[Label[i]]
  BY SearchAssumption
<1>2. e = [c EXCEPT !.text = Label[i], !.status = "none", !.shadow = i]
  BY DEF TakeItem
<1> HIDE DEF e
<1>3. /\ e \in Control /\ SameList(c, e)
      /\ e.text = Label[i] /\ e.shadow = i /\ e.status = "none"
  BY <1>1, <1>2 DEF SameList, MenuOK, Control
<1>4. QED
  BY <1>1, <1>3 DEF ValueOK, e

(* Taking over a listed item of the same text takes over the same item. *)
LEMMA SameItem ==
  ASSUME NEW c, MenuOK(c), NEW i \in ItemsOf(c), NEW d, d.text = Label[i], d.shadow = i
  PROVE  Kept(c, d)
<1>1. ASSUME c.text = d.text PROVE i \in Exact(c) /\ Exact(c) \subseteq Matches(c)
  BY <1>1, ExactMatches DEF Exact
<1>2. QED
  BY <1>1, ExactMatches DEF Kept

LEMMA CommitOK ==
  ASSUME NEW c, ControlOK(c)
  PROVE  ControlOK(Commit(c)) /\ Kept(c, Commit(c))
<1> DEFINE d == Commit(c)
<1>1. MenuOK(c) /\ c.highlight \subseteq ItemsOf(c) /\ ItemsOf(c) \subseteq Item
  <2>1. MenuOK(c)
    BY DEF ControlOK
  <2>2. Offered(c) \subseteq ItemsOf(c)
    BY <2>1 DEF MenuOK, Offered
  <2>3. QED
    BY <2>1, <2>2, ItemsCounted DEF MenuOK
<1>2. ASSUME NEW i \in ItemsOf(c), d = SetToggleButton(ClearDropList(TakeItem(c, i)), FALSE)
      PROVE  ControlOK(d) /\ Kept(c, d)
  <2> DEFINE e == TakeItem(c, i)
  <2>1. /\ e \in Control /\ SameList(c, e) /\ ValueOK(e)
        /\ e.text = Label[i] /\ e.shadow = i
    BY <1>1, TakeItemOK
  <2>2. d = SetToggleButton(ClearDropList(e), FALSE)
    BY <1>2
  <2> HIDE DEF d, e
  <2>3. ControlOK(d) /\ d.text = Label[i] /\ d.shadow = i
    BY <1>1, <2>1, <2>2, ClosedOK
  <2>4. QED
    BY <1>1, <2>3, SameItem
<1>3. CASE c.highlight # {}
  <2> DEFINE i == CHOOSE x \in c.highlight : TRUE
  <2>1. i \in ItemsOf(c)
    BY <1>1, <1>3
  <2>2. d = SetToggleButton(ClearDropList(TakeItem(c, i)), FALSE)
    BY <1>3 DEF Commit
  <2> HIDE DEF i, d
  <2>3. QED
    BY <1>2, <2>1, <2>2 DEF d
<1>4. CASE c.highlight = {} /\ Cardinality(Matches(c)) = 1
  <2> DEFINE i == CHOOSE x \in Matches(c) : TRUE
  <2>1. i \in ItemsOf(c)
    BY <1>1, <1>4, MatchesCounted
  <2>2. d = SetToggleButton(ClearDropList(TakeItem(c, i)), FALSE)
    BY <1>4 DEF Commit
  <2> HIDE DEF i, d
  <2>3. QED
    BY <1>2, <2>1, <2>2 DEF d
<1>5. CASE c.highlight = {} /\ Cardinality(Matches(c)) # 1
  <2> DEFINE e == [c EXCEPT !.shadow = NoValue]
  <2>1. d = SetToggleButton(ClearDropList(e), FALSE)
    BY <1>5 DEF Commit
  <2>2. e \in Control /\ SameList(c, e) /\ e.shadow = NoValue
    BY <1>1 DEF SameList, MenuOK, Control
  <2>3. ValueOK(e)
    BY <2>2 DEF ValueOK
  <2> HIDE DEF d, e
  <2>4. ControlOK(d) /\ d.shadow = NoValue
    BY <1>1, <2>1, <2>2, <2>3, ClosedOK
  <2>5. QED
    BY <1>5, <2>4 DEF Kept, d
<1>6. QED
  BY <1>3, <1>4, <1>5

(* A click takes over any displayed item, and closes the list. *)
LEMMA ClickedItemOK ==
  ASSUME NEW c, ControlOK(c), NEW i \in Offered(c)
  PROVE  LET d == [SetToggleButton(ClearDropList(c), FALSE) EXCEPT
                     !.text = Label[i], !.status = "none", !.shadow = i]
         IN  ControlOK(d) /\ Kept(c, d)
<1> DEFINE g == ClearDropList(c)
           e == SetToggleButton(g, FALSE)
           d == [e EXCEPT !.text = Label[i], !.status = "none", !.shadow = i]
<1>1. MenuOK(c) /\ i \in ItemsOf(c) /\ i \in Item
  <2>1. MenuOK(c)
    BY DEF ControlOK
  <2>2. QED
    BY <2>1, ItemsCounted DEF MenuOK, Offered
<1>2. MenuOK(g) /\ g.showing = "none" /\ g.list = c.list
  BY <1>1, ClearedMenu
<1> HIDE DEF g
<1>3. MenuOK(e) /\ ButtonOK(e) /\ e.list = c.list
  BY <1>2, ToggleButtonFits
<1> HIDE DEF e
<1>4. d = TakeItem(e, i)
  BY DEF TakeItem
<1> HIDE DEF d
<1>5. SameList(e, d) /\ ValueOK(d) /\ d.text = Label[i] /\ d.shadow = i
  BY <1>1, <1>3, <1>4, TakeItemOK
<1>6. ControlOK(d)
  BY <1>3, <1>5, ValueSet DEF ControlOK
<1>7. Kept(c, d)
  BY <1>1, <1>5, SameItem
<1>8. QED
  BY <1>6, <1>7 DEF d, e, g

(* A list that arrives takes the marks of the former one away. *)
LEMMA ReceivedListOK ==
  ASSUME NEW c, ControlOK(c), NEW s \in Input, NEW l \in Lists[s], l # c.list
  PROVE  LET d == [c EXCEPT !.list = l, !.shown = {}, !.highlight = {}]
         IN  ControlOK(d) /\ Kept(c, d)
<1> DEFINE d == [c EXCEPT !.list = l, !.shown = {}, !.highlight = {}]
<1>1. l \in Seq(Item) /\ \A m, n \in DOMAIN l : l[m] = l[n] => m = n
  BY SearchAssumption, ItemsDiffer
<1>2. /\ d \in Control /\ d.list = l /\ d.shown = {} /\ d.highlight = {}
      /\ d.showing = c.showing /\ d.button = c.button
      /\ d.text = c.text /\ d.shadow = c.shadow /\ d.status = c.status
  BY <1>1 DEF ControlOK, MenuOK, Control
<1> HIDE DEF d
<1>3. ControlOK(d) /\ Kept(c, d)
  BY <1>1, <1>2 DEF ControlOK, MenuOK, ValueOK, ButtonOK, Kept
<1>4. QED
  BY <1>3 DEF d

(* Typing changes the text first. *)
LEMMA TypedOK ==
  ASSUME NEW c, ControlOK(c), NEW t \in Text, t # c.text
  PROVE  LET d == FilterItems([c EXCEPT !.text = t])
         IN  ControlOK(d) /\ Kept(c, d)
<1> DEFINE e == [c EXCEPT !.text = t]
           d == FilterItems(e)
<1>1. SameList(c, e) /\ e.text = t
  BY DEF SameList, ControlOK, MenuOK, Control
<1> HIDE DEF e
<1>2. MenuOK(e)
  BY <1>1, ValueSet DEF ControlOK
<1>3. ControlOK(d) /\ d.text = t
  BY <1>1, <1>2, FilterItemsOK
<1> HIDE DEF d
<1>4. ControlOK(d) /\ Kept(c, d)
  BY <1>3 DEF Kept
<1>5. QED
  BY <1>4 DEF d, e

------------------------------------------------------------------------------
LEMMA SearchInitInv == Init => SearchInv
<1> SUFFICES ASSUME Init PROVE SearchInv
  OBVIOUS
<1>1. ASSUME NEW s \in Input
      PROVE  ControlOK(input[s]) /\ input[s] \in Control
  <2> DEFINE c == input[s]
             e == <<>>
  <2>1. c = [text |-> NoText, shadow |-> NoValue, status |-> "none", list |-> e,
             shown |-> {}, highlight |-> {}, showing |-> "none", button |-> "show all"]
    BY DEF Init
  <2>2. e \in Seq(Item) /\ DOMAIN e = {} /\ NoText \in Text
    BY SearchAssumption
  <2> HIDE DEF c, e
  <2>3. c \in Control
    BY <2>1, <2>2 DEF Control
  <2>4. /\ c.list = e /\ c.shown = {} /\ c.highlight = {} /\ c.showing = "none"
        /\ c.shadow = NoValue /\ c.button = "show all"
    BY <2>1
  <2>5. ControlOK(c)
    BY <2>2, <2>3, <2>4 DEF ControlOK, MenuOK, ValueOK, ButtonOK
  <2>6. QED
    BY <2>3, <2>5 DEF c
<1>2. TypeOK
  <2>1. input \in [Input -> Control]
    BY <1>1 DEF Init
  <2>2. QED
    BY <2>1 DEF Init, TypeOK, Focus
<1>3. QED
  BY <1>1, <1>2 DEF SearchInv

(* A step that changes one control. *)
LEMMA OneControl ==
  ASSUME SearchInv, NEW s \in Input, NEW d, ControlOK(d), Kept(input[s], d),
         input' = [input EXCEPT ![s] = d]
  PROVE  /\ input' \in [Input -> Control]
         /\ \A r \in Input : ControlOK(input'[r]) /\ Kept(input[r], input'[r])
<1>1. input \in [Input -> Control] /\ d \in Control
  BY DEF SearchInv, TypeOK, ControlOK, MenuOK
<1>2. ASSUME NEW r \in Input PROVE ControlOK(input'[r]) /\ Kept(input[r], input'[r])
  <2>1. CASE r = s
    BY <1>1, <2>1
  <2>2. CASE r # s
    <3>1. input'[r] = input[r]
      BY <1>1, <2>2
    <3>2. QED
      BY <3>1 DEF SearchInv, Kept
  <2>3. QED
    BY <2>1, <2>2
<1>3. QED
  BY <1>1, <1>2

(* Each handler leaves every control in order and keeps its value. *)
LEMMA SearchStep ==
  ASSUME SearchInv, [Next]_vars
  PROVE  /\ input' \in [Input -> Control]
         /\ \A r \in Input : ControlOK(input'[r]) /\ Kept(input[r], input'[r])
         /\ active' \subseteq Input /\ focus' \in Focus
<1> USE DEF SearchInv
<1>1. /\ \A s \in Input : ControlOK(input[s])
      /\ input \in [Input -> Control] /\ active \subseteq Input /\ focus \in Focus
  BY DEF TypeOK
<1>2. ASSUME input' = input
      PROVE  /\ input' \in [Input -> Control]
             /\ \A r \in Input : ControlOK(input'[r]) /\ Kept(input[r], input'[r])
  BY <1>1, <1>2 DEF Kept
<1>3. ASSUME NEW s \in Input, NEW t \in Text, Type(s, t)
      PROVE  /\ input' \in [Input -> Control]
             /\ \A r \in Input : ControlOK(input'[r]) /\ Kept(input[r], input'[r])
             /\ active' \subseteq Input /\ focus' \in Focus
  <2>1. input' = [input EXCEPT ![s] = FilterItems([input[s] EXCEPT !.text = t])]
          /\ t # input[s].text
    BY <1>3 DEF Type
  <2>2. QED
    BY <1>1, <1>3, <2>1, TypedOK, OneControl DEF Type
<1>4. ASSUME NEW s \in Input, CloseKey(s) \/ OpenKey(s) \/ ClickButton(s)
      PROVE  /\ input' \in [Input -> Control]
             /\ \A r \in Input : ControlOK(input'[r]) /\ Kept(input[r], input'[r])
             /\ active' \subseteq Input /\ focus' \in Focus
  <2>1. /\ input' = [input EXCEPT ![s] = ToggleItemList(input[s])]
        /\ active' = active /\ focus' = focus
    BY <1>4 DEF CloseKey, OpenKey, ClickButton
  <2>2. QED
    BY <1>1, <2>1, ToggleItemListOK, OneControl
<1>5. ASSUME NEW s \in Input, NEW down \in BOOLEAN, MoveKey(s, down)
      PROVE  /\ input' \in [Input -> Control]
             /\ \A r \in Input : ControlOK(input'[r]) /\ Kept(input[r], input'[r])
             /\ active' \subseteq Input /\ focus' \in Focus
  <2>1. /\ input' = [input EXCEPT ![s] = MoveHighlight(input[s], down)]
        /\ active' = active /\ focus' = focus
    BY <1>5 DEF MoveKey
  <2>2. QED
    BY <1>1, <2>1, MoveHighlightOK, OneControl
<1>6. ASSUME NEW s \in Input, NEW key, CommitKey(s, key)
      PROVE  /\ input' \in [Input -> Control]
             /\ \A r \in Input : ControlOK(input'[r]) /\ Kept(input[r], input'[r])
             /\ active' \subseteq Input /\ focus' \in Focus
  <2>1. input' = [input EXCEPT ![s] = Commit(input[s])]
    BY <1>6 DEF CommitKey
  <2>2. active' \subseteq Input /\ focus' \in Focus
    BY <1>1, <1>6 DEF CommitKey, WithoutFirst, Focus, Part
  <2>3. QED
    BY <1>1, <2>1, <2>2, CommitOK, OneControl
<1>7. ASSUME NEW s \in Input, NEW i \in Item, ClickItem(s, i)
      PROVE  /\ input' \in [Input -> Control]
             /\ \A r \in Input : ControlOK(input'[r]) /\ Kept(input[r], input'[r])
             /\ active' \subseteq Input /\ focus' \in Focus
  <2> DEFINE d == [SetToggleButton(ClearDropList(input[s]), FALSE) EXCEPT
                     !.text = Label[i], !.status = "none", !.shadow = i]
  <2>1. input' = [input EXCEPT ![s] = d] /\ i \in Offered(input[s])
    BY <1>7 DEF ClickItem, Displayed
  <2>2. active' \subseteq Input /\ focus' \in Focus
    BY <1>1, <1>7 DEF ClickItem, OutsideClick, WithoutFirst
  <2>3. ControlOK(d) /\ Kept(input[s], d)
    BY <1>1, <2>1, ClickedItemOK
  <2> HIDE DEF d
  <2>4. QED
    BY <2>1, <2>2, <2>3, OneControl
<1>8. ASSUME NEW s \in Input, NEW l \in Lists[s], ReceiveList(s, l)
      PROVE  /\ input' \in [Input -> Control]
             /\ \A r \in Input : ControlOK(input'[r]) /\ Kept(input[r], input'[r])
             /\ active' \subseteq Input /\ focus' \in Focus
  <2> DEFINE d == [input[s] EXCEPT !.list = l, !.shown = {}, !.highlight = {}]
  <2>1. /\ input' = [input EXCEPT ![s] = d] /\ l # input[s].list
        /\ active' = active /\ focus' = focus
    BY <1>1, <1>8 DEF ReceiveList
  <2>2. ControlOK(d) /\ Kept(input[s], d)
    BY <1>1, <2>1, ReceivedListOK
  <2> HIDE DEF d
  <2>3. QED
    BY <1>1, <2>1, <2>2, OneControl
<1>9. ASSUME NEW f \in Focus, MoveFocus(f)
      PROVE  /\ input' \in [Input -> Control]
             /\ \A r \in Input : ControlOK(input'[r]) /\ Kept(input[r], input'[r])
             /\ active' \subseteq Input /\ focus' \in Focus
  <2> DEFINE entered == {s \in Input : f = <<s, "visible">>}
  <2>1. /\ focus' = f
        /\ input' = [s \in Input |-> IF s \in entered THEN FilterItems(input[s]) ELSE input[s]]
    BY <1>9 DEF MoveFocus
  <2>2. active' \subseteq Input
    <3> DEFINE left == active \ DeactivateSearchInput(f)
               x == CHOOSE s \in entered : TRUE
    <3>1. active' = IF entered = {} THEN left ELSE ActivateSearchInput(left, x)
      BY <1>9 DEF MoveFocus
    <3>2. entered # {} => x \in Input
      OBVIOUS
    <3> HIDE DEF x, entered
    <3>3. QED
      BY <1>1, <3>1, <3>2 DEF ActivateSearchInput
  <2> HIDE DEF entered
  <2>3. ASSUME NEW r \in Input
        PROVE  ControlOK(input'[r]) /\ Kept(input[r], input'[r])
    <3>1. CASE r \in entered
      <4>1. input'[r] = FilterItems(input[r]) /\ MenuOK(input[r]) /\ ValueOK(input[r])
        BY <1>1, <2>1, <3>1 DEF ControlOK
      <4>2. QED
        BY <4>1, FilterItemsOK
    <3>2. CASE r \notin entered
      <4>1. input'[r] = input[r]
        BY <2>1, <3>2
      <4>2. QED
        BY <1>1, <4>1 DEF Kept
    <3>3. QED
      BY <3>1, <3>2
  <2>4. \A r \in Input : input'[r] \in Control
    BY <2>3 DEF ControlOK, MenuOK
  <2>5. input' \in [Input -> Control]
    BY <2>1, <2>4
  <2>6. QED
    BY <2>1, <2>2, <2>3, <2>5
<1>10. ASSUME \/ \E s \in Input : ClickField(s) \/ ClickList(s)
              \/ ClickElsewhere
              \/ UNCHANGED vars
       PROVE  input' = input /\ active' \subseteq Input /\ focus' \in Focus
  BY <1>1, <1>10
     DEF ClickField, ClickList, ClickElsewhere, OutsideClick, WithoutFirst, vars
<1>11. QED
  BY <1>2, <1>3, <1>4, <1>5, <1>6, <1>7, <1>8, <1>9, <1>10 DEF Next

LEMMA SearchStepInv == SearchInv /\ [Next]_vars => SearchInv'
  BY SearchStep DEF SearchInv, TypeOK

(* Text, value, list, menu, button and focus keep their types. *)
THEOREM SearchTypeOK == Spec => []TypeOK
<1>1. SearchInv => TypeOK
  BY DEF SearchInv
<1>2. QED
  BY <1>1, SearchInitInv, SearchStepInv, PTL DEF Spec

(* While an input is active, Enter takes an item the user sees: the keys    *)
(* that move the highlight, a list that narrows, closes or is replaced      *)
(* leave none but a displayed one.                                          *)
THEOREM SearchHighlight == Spec => []HighlightDisplayed
<1>1. ASSUME SearchInv PROVE HighlightDisplayed
  <2>1. ASSUME NEW s \in Input
        PROVE  /\ Cardinality(input[s].highlight) <= 1
               /\ s \in active => input[s].highlight \subseteq Displayed(s)
    <3> DEFINE H == input[s].highlight
    <3>1. H \subseteq Offered(input[s]) /\ \A i, j \in H : i = j
      BY <1>1 DEF SearchInv, ControlOK, MenuOK
    <3>2. CASE H = {}
      BY <3>2, FS_EmptySet
    <3>3. CASE H # {}
      <4>1. PICK i : H = {i}
        BY <3>1, <3>3
      <4>2. Cardinality(H) = 1
        BY <4>1, FS_Singleton
      <4>3. QED
        BY <3>1, <4>2 DEF Displayed
    <3>4. QED
      BY <3>2, <3>3
  <2>2. QED
    BY <2>1 DEF HighlightDisplayed
<1>2. QED
  BY <1>1, SearchInitInv, SearchStepInv, PTL DEF Spec

(* Text, shadow field and status agree, whichever handler came last. *)
THEOREM SearchSubmits == Spec => []SubmitsWhatIsSeen
<1>1. SearchInv => SubmitsWhatIsSeen
  BY DEF SearchInv, ControlOK, ValueOK, SubmitsWhatIsSeen
<1>2. QED
  BY <1>1, SearchInitInv, SearchStepInv, PTL DEF Spec

(* The button fits the list: counting what is narrowed to tells whether all *)
(* of a list is displayed, as no item is in it twice.                       *)
THEOREM SearchButton == Spec => []ButtonFitsList
<1>1. SearchInv => ButtonFitsList
  BY DEF SearchInv, ControlOK, ButtonOK, ButtonFitsList
<1>2. QED
  BY <1>1, SearchInitInv, SearchStepInv, PTL DEF Spec

(* No handler swaps the value the list offers for the text for one with     *)
(* another description.                                                     *)
THEOREM SearchChoiceKept == Spec => ChoiceKept
<1> DEFINE A == \A s \in Input :
                  LET c == input[s]
                      d == input'[s]
                  IN  c.text = d.text /\ c.list = d.list
                        /\ (c.shadow \in Exact(c) \/ Matches(c) = {c.shadow})
                        => \/ d.shadow = c.shadow
                           \/ d.shadow \in Item /\ Label[d.shadow] = Label[c.shadow]
                           \/ d.shadow = NoValue /\ Cardinality(Matches(c)) # 1
<1>1. SearchInv /\ [Next]_vars => A
  BY SearchStep DEF Kept
<1>2. QED
  BY <1>1, SearchInitInv, SearchStepInv, PTL DEF Spec, ChoiceKept
=============================================================================
