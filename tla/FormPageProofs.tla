----------------------------- MODULE FormPageProofs -----------------------------
(***************************************************************************)
(* Proofs about FormPage, for any items, orders, texts, actions and states *)
(* and any bounds.                                                         *)
(***************************************************************************)
EXTENDS FormPage, StateMachineProofs, FiniteSetTheorems, WellFoundedInduction

LEMMA Inserted ==
  ASSUME NEW T, NEW s \in Seq(T), NEW e \in T, NEW p \in 1..(Len(s) + 1)
  PROVE  /\ InsertAt(s, p, e) \in Seq(T)
         /\ Len(InsertAt(s, p, e)) = Len(s) + 1
         /\ \A n \in 1..(Len(s) + 1) :
              InsertAt(s, p, e)[n] = IF n < p THEN s[n] ELSE IF n = p THEN e ELSE s[n - 1]
<1> DEFINE u == SubSeq(s, 1, p - 1)
           v == SubSeq(s, p, Len(s))
<1>1. Len(s) \in Nat /\ p \in Nat /\ p - 1 \in 0..Len(s)
  OBVIOUS
<1>2. u \in Seq(T) /\ Len(u) = p - 1 /\ \A n \in 1..(p - 1) : u[n] = s[n]
  BY <1>1
<1>3. v \in Seq(T) /\ Len(v) = Len(s) - p + 1 /\ \A n \in 1..(Len(s) - p + 1) : v[n] = s[p + n - 1]
  BY <1>1
<1> HIDE DEF u, v
<1> DEFINE w == Append(u, e)
<1>4. w \in Seq(T) /\ Len(w) = p /\ w[p] = e /\ \A n \in 1..(p - 1) : w[n] = u[n]
  BY <1>1, <1>2
<1>9. w = u \o <<e>>
  BY <1>2
<1> HIDE DEF w
<1>5. w \o v \in Seq(T) /\ Len(w \o v) = Len(s) + 1
      /\ \A n \in 1..(Len(s) + 1) : (w \o v)[n] = IF n <= p THEN w[n] ELSE v[n - p]
  <2>1. /\ w \o v \in Seq(T) /\ Len(w \o v) = Len(w) + Len(v)
        /\ \A n \in 1..(Len(w) + Len(v)) : (w \o v)[n] = IF n <= Len(w) THEN w[n] ELSE v[n - Len(w)]
    BY <1>3, <1>4, ConcatProperties
  <2>2. Len(w) + Len(v) = Len(s) + 1
    BY <1>1, <1>3, <1>4
  <2>3. QED
    BY <1>4, <2>1, <2>2
<1>6. InsertAt(s, p, e) = w \o v
  BY <1>9 DEF InsertAt, u, v
<1>7. ASSUME NEW n \in 1..(Len(s) + 1)
      PROVE  (w \o v)[n] = IF n < p THEN s[n] ELSE IF n = p THEN e ELSE s[n - 1]
  <2>1. CASE n <= p
    <3>1. (w \o v)[n] = w[n]
      BY <1>5, <2>1
    <3>2. n = p \/ n \in 1..(p - 1)
      BY <1>1, <2>1
    <3>3. QED
      BY <1>1, <1>2, <1>4, <3>1, <3>2
  <2>2. CASE n > p
    <3>1. n - p \in 1..(Len(s) - p + 1) /\ p + (n - p) - 1 = n - 1
      BY <1>1, <2>2
    <3>2. QED
      BY <1>1, <1>3, <1>5, <2>2, <3>1
  <2>3. n <= p \/ n > p
    BY <1>1
  <2>4. QED
    BY <2>1, <2>2, <2>3
<1>8. QED
  BY <1>5, <1>6, <1>7

USE FormAssumption

(* Every step of the form leaves its state machine alone or is a step of it. *)
LEMMA FormMachine == [Next]_vars => [MachineNext]_machineVars
<1> SUFFICES ASSUME [Next]_vars PROVE [MachineNext]_machineVars
  OBVIOUS
<1> USE DEF machineVars
<1>1. CASE OpenWebSocket \/ CloseWebSocket
  BY <1>1 DEF OpenWebSocket, CloseWebSocket
<1>2. CASE StartMachine \/ AdvanceMachine \/ AnswerCall \/ EndCall
  BY <1>2 DEF StartMachine, AdvanceMachine, AnswerCall, EndCall, OnServer, Advance, Answer,
              MachineNext
<1>3. ASSUME NEW k \in 1..Listeners, TellListener(k) PROVE MachineNext
  BY <1>3 DEF TellListener, OnServer, MachineNext
<1>4. ASSUME NEW i \in Item, ItemStep(i) PROVE UNCHANGED machineVars
  BY <1>4 DEF ItemStep, AddItem, RemoveItem, RenderItem, SetItemValue, NoteValidationError,
              ClearValidationError, ChangeMode, OnItems
<1>5. CASE Receive
  <2>1. ASSUME NEW x, InvokeAction(x) PROVE \E a \in Action : InvokeAction(a)
    BY <2>1, StateMachineAssumption DEF InvokeAction
  <2>2. QED
    BY <1>5, <2>1 DEF Receive, MachineNext
<1>6. CASE Deliver
  BY <1>6 DEF Deliver
<1>7. ASSUME NEW n \in 1..Cardinality(Item), Type(n) PROVE UNCHANGED machineVars
  BY <1>7 DEF Type
<1>8. ASSUME NEW a \in Action, Click(a) PROVE UNCHANGED machineVars
  BY <1>8 DEF Click
<1>9. ASSUME NEW i \in Item, TypeLoose(i) PROVE UNCHANGED machineVars
  BY <1>9 DEF TypeLoose
<1>10. CASE UNCHANGED vars
  BY <1>10 DEF vars
<1>11. QED
  BY <1>1, <1>2, <1>3, <1>4, <1>5, <1>6, <1>7, <1>8, <1>9, <1>10 DEF Next

LEMMA RowEdits ==
  ASSUME NEW r \in Row
  PROVE  /\ \A t \in Text : /\ [r EXCEPT !.value = t] \in Row
                           /\ [r EXCEPT !.value = t].item = r.item
                           /\ [r EXCEPT !.value = t].cells = r.cells
         /\ \A on \in BOOLEAN : /\ [r EXCEPT !.status = on] \in Row
                               /\ [r EXCEPT !.status = on].item = r.item
                               /\ [r EXCEPT !.status = on].cells = r.cells
         /\ \A m \in Mode : /\ [r EXCEPT !.mode = m] \in Row
                           /\ [r EXCEPT !.mode = m].item = r.item
                           /\ [r EXCEPT !.mode = m].cells = r.cells
BY DEF Row, Mode

(* FirstInStep, of the form: the page's listener is told of every change of *)
(* the actions, whatever listeners change the state in between.             *)
THEOREM FormFirstInStep == Spec => []FirstInStep
<1>1. Init => MachineInv
  BY MachineInitInv DEF Init
<1>2. MachineInv /\ [Next]_vars => MachineInv'
  BY FormMachine, MachineStepInv
<1>3. MachineInv => FirstInStep
  BY MachineInvInStep
<1>4. QED
  BY <1>1, <1>2, <1>3, PTL DEF Spec

------------------------------------------------------------------------------
(* What is sent.                                                            *)

LEMMA SetToSeqType ==
  ASSUME NEW T, NEW S \in SUBSET T, IsFiniteSet(S)
  PROVE  SetToSeq(S) \in Seq(T)
<1>1. Cardinality(S) \in Nat /\ ExistsBijection(1..Cardinality(S), S)
  BY FS_CardinalityType
<1>2. \E f \in [1..Cardinality(S) -> S] : IsInjective(f)
  BY <1>1 DEF ExistsBijection, Bijection, Injection
<1>3. SetToSeq(S) \in [1..Cardinality(S) -> S]
  BY <1>2 DEF SetToSeq
<1>4. QED
  BY <1>1, <1>3

LEMMA NoModelType ==
  NoModel.source \in Text /\ NoModel.errors = {} /\ NoModel.mode \in Mode /\ Blank \in Text
BY DEF NoModel, Mode

LEMMA ItemCallType ==
  ASSUME NEW i \in Item
  PROVE  /\ \A c \in {"deleteNodes", "noteError", "clearError"} : OfItem(c, i) \in ItemCall
         /\ \A t \in Text : SetValue(i, t) \in ItemCall
         /\ \A c \in {"syncChildren", "replaceNode"}, m \in Mode : Render(c, i, m) \in ItemCall
         /\ \A m \in Mode : [call |-> "setEntryMode", item |-> i, mode |-> m] \in ItemCall
BY DEF ItemCall, OfItem, SetValue, Render

LEMMA ClearedType == \A i \in Item : Cleared(i) \in Seq(ItemCall)
BY ItemCallType DEF Cleared

LEMMA ClearedOthersType == \A i \in Item : ClearedOthers(i) \in Seq(ItemCall)
<1> SUFFICES ASSUME NEW i \in Item PROVE ClearedOthers(i) \in Seq(ItemCall)
  OBVIOUS
<1> DEFINE J == {k \in Item \ {i} : Clears(k)}
<1>1. IsFiniteSet(J)
  BY FS_Subset
<1>2. IsFiniteSet({OfItem("clearError", j) : j \in J})
  <2> DEFINE f == [j \in J |-> OfItem("clearError", j)]
  <2>1. f \in Surjection(J, {OfItem("clearError", j) : j \in J})
    BY DEF Surjection
  <2>2. QED
    BY <1>1, <2>1, FS_Surjection DEF ExistsSurjection
<1>3. {OfItem("clearError", j) : j \in J} \in SUBSET ItemCall
  BY ItemCallType
<1>4. QED
  BY <1>2, <1>3, SetToSeqType DEF ClearedOthers

(* The server's items: what an operation on them does to their types, and   *)
(* that it sends calls about items only.                                    *)
ItemTypeOK ==
  /\ built \subseteq Item
  /\ source \in [Item -> Text]
  /\ errors \in [Item -> SUBSET Source]
  /\ mode \in [Item -> Mode]
  /\ again \subseteq built

SendsItemCalls == \E ms \in Seq(ItemCall) : Send(ms)

LEMMA SetSourceSends ==
  ASSUME ItemTypeOK, NEW i \in Item, NEW t \in Text, SetSource(i, t)
  PROVE  ItemTypeOK' /\ SendsItemCalls
<1>1. ItemTypeOK'
  <2>1. CASE t \in BadText
    <3>1. NoteConversionError(i) /\ "conversion" \in Source
      BY <2>1 DEF SetSource, Source
    <3>2. errors' \in [Item -> SUBSET Source]
      BY <3>1 DEF ItemTypeOK, NoteConversionError
    <3>3. QED
      BY <3>2 DEF ItemTypeOK, SetSource
  <2>2. CASE t \notin BadText
    BY <2>2 DEF ItemTypeOK, SetSource
  <2>3. QED
    BY <2>1, <2>2 DEF ItemTypeOK, SetSource
<1>2. (IF t = source[i] THEN <<>> ELSE <<SetValue(i, t)>>) \in Seq(ItemCall)
  BY ItemCallType
<1>3. (IF t \in BadText THEN Append(ClearedOthers(i), OfItem("noteError", i))
                        ELSE Cleared(i)) \in Seq(ItemCall)
  BY ItemCallType, ClearedType, ClearedOthersType
<1> DEFINE ms == (IF t = source[i] THEN <<>> ELSE <<SetValue(i, t)>>)
                   \o (IF t \in BadText THEN Append(ClearedOthers(i), OfItem("noteError", i))
                                         ELSE Cleared(i))
<1>4. ms \in Seq(ItemCall)
  BY <1>2, <1>3
<1>5. Send(ms)
  BY DEF SetSource
<1>6. QED
  BY <1>1, <1>4, <1>5 DEF SendsItemCalls

LEMMA ItemStepSends ==
  ASSUME ItemTypeOK, edits \in 0..MaxEdits, NEW i \in Item, ItemStep(i)
  PROVE  /\ ItemTypeOK' /\ SendsItemCalls /\ edits' \in 0..MaxEdits
         /\ link = "OPEN" /\ UNCHANGED <<machineVars, link, toServer, pageVars>>
<1>1. /\ edits' \in 0..MaxEdits /\ link = "OPEN"
      /\ UNCHANGED <<machineVars, link, toServer, pageVars>>
  BY DEF ItemStep, AddItem, RemoveItem, RenderItem, SetItemValue, NoteValidationError,
         ClearValidationError, ChangeMode, OnItems, Edit
<1>2. ASSUME NEW m \in ItemCall, Send(<<m>>) PROVE SendsItemCalls
  <2>1. <<m>> \in Seq(ItemCall)
    OBVIOUS
  <2>2. QED
    BY <1>2, <2>1 DEF SendsItemCalls
<1>3. CASE AddItem(i)
  <2>1. PICK m \in Mode : /\ mode' = [mode EXCEPT ![i] = m]
                          /\ Send(<<Render("syncChildren", i, m)>>)
    BY <1>3 DEF AddItem, OnItems
  <2>2. ItemTypeOK'
    BY <1>3, <2>1, NoModelType DEF AddItem, OnItems, ItemTypeOK
  <2>3. QED
    BY <1>1, <1>2, <2>1, <2>2, ItemCallType
<1>4. CASE RemoveItem(i)
  BY <1>1, <1>2, <1>4, ItemCallType, NoModelType DEF RemoveItem, OnItems, ItemTypeOK
<1>5. CASE RenderItem(i)
  BY <1>1, <1>2, <1>5, ItemCallType DEF RenderItem, OnItems, ItemTypeOK, itemVars
<1>6. CASE SetItemValue(i)
  BY <1>1, <1>6, SetSourceSends DEF SetItemValue, OnItems
<1>7. CASE NoteValidationError(i)
  BY <1>1, <1>2, <1>7, ItemCallType DEF NoteValidationError, OnItems, ItemTypeOK, Source
<1>8. CASE ClearValidationError(i)
  BY <1>1, <1>8, ClearedType DEF ClearValidationError, OnItems, ItemTypeOK, SendsItemCalls
<1>9. CASE ChangeMode(i)
  <2>1. PICK m \in Mode \ {mode[i]} :
         /\ mode' = [mode EXCEPT ![i] = m]
         /\ Send(<<[call |-> "setEntryMode", item |-> i, mode |-> m]>>)
    BY <1>9 DEF ChangeMode, OnItems
  <2>2. ItemTypeOK'
    BY <1>9, <2>1 DEF ChangeMode, OnItems, ItemTypeOK
  <2>3. QED
    BY <1>1, <1>2, <2>1, <2>2, ItemCallType
<1>10. QED
  BY <1>3, <1>4, <1>5, <1>6, <1>7, <1>8, <1>9 DEF ItemStep

------------------------------------------------------------------------------
(* Orders compare as strings do.                                            *)

LEMMA NatMinimum ==
  ASSUME NEW T \in SUBSET Nat, T # {}
  PROVE  \E x \in T : \A y \in T : x <= y
<1> DEFINE R == {q \in Nat \X Nat : q[1] < q[2]}
<1>1. IsWellFoundedOn(R, Nat)
  BY NatLessThanWellFounded DEF OpToRel
<1>2. PICK x \in T : \A y \in T : ~(<<y, x>> \in R)
  BY <1>1, WFMin
<1>3. ASSUME NEW y \in T PROVE x <= y
  <2>1. y \in Nat /\ x \in Nat
    OBVIOUS
  <2>2. y < x => <<y, x>> \in R
    BY <2>1
  <2>3. QED
    BY <1>2, <2>1, <2>2
<1>4. QED
  BY <1>3

Digits == Seq(0..9)

(* What After says, of lengths and of digits as functions of a position.    *)
Later(la, a, lb, b) ==
  \E n \in 1..la : /\ n <= lb + 1
                   /\ \A m \in 1..(n - 1) : a[m] = b[m]
                   /\ n <= lb => a[n] > b[n]

LEMMA AfterIsLater ==
  \A a, b \in Digits : After(a, b) <=> Later(Len(a), a, Len(b), b)
<1> TAKE a, b \in Digits
<1>1. DOMAIN a = 1..Len(a)
  BY DEF Digits
<1>2. After(a, b) <=> \E n \in 1..Len(a) : /\ n <= Len(b) + 1
                                           /\ \A m \in 1..(n - 1) : a[m] = b[m]
                                           /\ n <= Len(b) => a[n] > b[n]
  BY <1>1, Zenon DEF After
<1>3. QED
  BY <1>2, Zenon DEF Later

LEMMA LaterTransitive ==
  ASSUME NEW la \in Nat, NEW lb \in Nat, NEW lc \in Nat,
         NEW a \in [1..la -> 0..9], NEW b \in [1..lb -> 0..9], NEW c \in [1..lc -> 0..9],
         Later(la, a, lb, b), Later(lb, b, lc, c)
  PROVE  Later(la, a, lc, c)
<1>1. PICK m \in 1..la : /\ m <= lb + 1 /\ \A k \in 1..(m - 1) : a[k] = b[k]
                         /\ m <= lb => a[m] > b[m]
  BY DEF Later
<1>2. PICK n \in 1..lb : /\ n <= lc + 1 /\ \A k \in 1..(n - 1) : b[k] = c[k]
                         /\ n <= lc => b[n] > c[n]
  BY DEF Later
<1>3. CASE m < n
  <2>1. m <= lc + 1 /\ m <= lb /\ m \in 1..(n - 1)
    BY <1>1, <1>2, <1>3
  <2>2. \A k \in 1..(m - 1) : a[k] = c[k]
    BY <1>1, <1>2, <1>3
  <2>3. a[m] > b[m] /\ b[m] = c[m]
    BY <1>1, <1>2, <2>1
  <2>4. QED
    BY <2>1, <2>2, <2>3 DEF Later
<1>4. CASE m >= n
  <2>1. n \in 1..la /\ n <= lc + 1
    BY <1>1, <1>2, <1>4
  <2>2. \A k \in 1..(n - 1) : a[k] = c[k]
    BY <1>1, <1>2, <1>4
  <2>3. n <= lb /\ a[n] \in 0..9 /\ b[n] \in 0..9
    BY <2>1
  <2>4. a[n] >= b[n]
    BY <1>1, <1>4, <2>3
  <2>5. ASSUME n <= lc PROVE a[n] > c[n]
    <3>1. b[n] > c[n] /\ c[n] \in 0..9
      BY <1>2, <2>5
    <3>2. QED
      BY <2>3, <2>4, <3>1
  <2>6. QED
    BY <2>1, <2>2, <2>5 DEF Later
<1>5. QED
  BY <1>3, <1>4

LEMMA LaterTotal ==
  ASSUME NEW la \in Nat, NEW lb \in Nat,
         NEW a \in [1..la -> 0..9], NEW b \in [1..lb -> 0..9], a # b
  PROVE  Later(la, a, lb, b) \/ Later(lb, b, la, a)
<1> DEFINE T == {n \in Nat \ {0} : n > la \/ n > lb \/ a[n] # b[n]}
<1>1. la + 1 \in T /\ lb + 1 \in T
  OBVIOUS
<1>2. PICK n \in T : \A m \in T : n <= m
  BY <1>1, NatMinimum
<1>3. \A m \in 1..(n - 1) : m <= la /\ m <= lb /\ a[m] = b[m]
  BY <1>2
<1>4. n \in Nat \ {0} /\ n <= la + 1 /\ n <= lb + 1
  BY <1>2, <1>1
<1>5. CASE n <= la /\ n <= lb
  <2>1. a[n] # b[n] /\ a[n] \in 0..9 /\ b[n] \in 0..9
    BY <1>4, <1>5
  <2>2. a[n] > b[n] \/ b[n] > a[n]
    BY <2>1
  <2>3. QED
    BY <1>3, <1>4, <1>5, <2>2 DEF Later
<1>6. CASE n <= la /\ n > lb
  <2>1. n \in 1..la /\ n <= lb + 1 /\ ~(n <= lb)
    BY <1>4, <1>6
  <2>2. QED
    BY <1>3, <2>1 DEF Later
<1>7. CASE n > la /\ n <= lb
  <2>1. n \in 1..lb /\ n <= la + 1 /\ ~(n <= la)
    BY <1>4, <1>7
  <2>2. QED
    BY <1>3, <2>1 DEF Later
<1>8. CASE n > la /\ n > lb
  <2>1. la = lb /\ n - 1 = la
    BY <1>4, <1>8
  <2>2. \A m \in 1..la : a[m] = b[m]
    BY <1>3, <2>1
  <2>3. QED
    BY <2>1, <2>2
<1>9. QED
  BY <1>4, <1>5, <1>6, <1>7, <1>8

LEMMA AfterOrders ==
  /\ \A a, b, c \in Digits : After(a, b) /\ After(b, c) => After(a, c)
  /\ \A a, b \in Digits : a # b => After(a, b) \/ After(b, a)
<1>1. ASSUME NEW a \in Digits PROVE Len(a) \in Nat /\ a \in [1..Len(a) -> 0..9]
  BY DEF Digits
<1>2. QED
  BY <1>1, AfterIsLater, LaterTransitive, LaterTotal

------------------------------------------------------------------------------
(* The rows of the form.                                                    *)

LEMMA Removed ==
  ASSUME NEW T, NEW s \in Seq(T), NEW p \in 1..Len(s)
  PROVE  /\ RemoveAt(s, p) \in Seq(T)
         /\ Len(RemoveAt(s, p)) = Len(s) - 1
         /\ \A n \in 1..(Len(s) - 1) : RemoveAt(s, p)[n] = IF n < p THEN s[n] ELSE s[n + 1]
<1> DEFINE u == SubSeq(s, 1, p - 1)
           v == SubSeq(s, p + 1, Len(s))
<1>1. Len(s) \in Nat /\ p \in Nat /\ p - 1 \in 0..Len(s) /\ p <= Len(s)
  OBVIOUS
<1>2. u \in Seq(T) /\ Len(u) = p - 1 /\ \A n \in 1..(p - 1) : u[n] = s[n]
  BY <1>1
<1>3. v \in Seq(T) /\ Len(v) = Len(s) - p /\ \A n \in 1..(Len(s) - p) : v[n] = s[p + n]
  BY <1>1
<1>4. RemoveAt(s, p) = u \o v
  BY DEF RemoveAt
<1> HIDE DEF u, v
<1>5. u \o v \in Seq(T) /\ Len(u \o v) = Len(s) - 1
      /\ \A n \in 1..(Len(s) - 1) : (u \o v)[n] = IF n <= p - 1 THEN u[n] ELSE v[n - (p - 1)]
  <2>1. /\ u \o v \in Seq(T) /\ Len(u \o v) = Len(u) + Len(v)
        /\ \A n \in 1..(Len(u) + Len(v)) : (u \o v)[n] = IF n <= Len(u) THEN u[n] ELSE v[n - Len(u)]
    <3>1. u \in Seq(T) /\ v \in Seq(T)
      BY <1>2, <1>3
    <3>2. QED
      BY <3>1, ConcatProperties
  <2>2. Len(u) + Len(v) = Len(s) - 1
    BY <1>1, <1>2, <1>3
  <2>3. QED
    BY <1>2, <2>1, <2>2
<1>6. ASSUME NEW n \in 1..(Len(s) - 1)
      PROVE  (u \o v)[n] = IF n < p THEN s[n] ELSE s[n + 1]
  <2>1. CASE n < p
    BY <1>1, <1>2, <1>5, <2>1
  <2>2. CASE n >= p
    <3>1. n - (p - 1) \in 1..(Len(s) - p) /\ p + (n - (p - 1)) = n + 1
      BY <1>1, <2>2
    <3>2. QED
      BY <1>1, <1>3, <1>5, <2>2, <3>1
  <2>3. n < p \/ n >= p
    BY <1>1
  <2>4. QED
    BY <2>1, <2>2, <2>3
<1>7. QED
  BY <1>4, <1>5, <1>6

(* An item has one row, and rows are in order. *)
Unique(s) == \A m, n \in DOMAIN s : s[m].item = s[n].item => m = n

InOrder(s) ==
  \A m, n \in DOMAIN s : m < n => After(Order[s[n].item], Order[s[m].item])

RowsOK(s) == s \in Seq(Row) /\ Unique(s) /\ InOrder(s)

LEMMA OrderIsDigits == \A i \in Item : Order[i] \in Digits
BY DEF Digits

LEMMA RowOrders ==
  ASSUME NEW s, RowsOK(s), NEW n \in DOMAIN s
  PROVE  s[n] \in Row /\ s[n].item \in Item /\ Order[s[n].item] \in Digits
<1>1. s[n] \in Row
  BY DEF RowsOK
<1>2. s[n].item \in Item
  BY <1>1 DEF Row
<1>3. QED
  BY <1>1, <1>2, OrderIsDigits

LEMMA RemoveKeeps ==
  ASSUME NEW s, RowsOK(s), NEW p \in DOMAIN s
  PROVE  /\ RowsOK(RemoveAt(s, p))
         /\ \A n \in DOMAIN RemoveAt(s, p) : RemoveAt(s, p)[n].item # s[p].item
<1> DEFINE r == RemoveAt(s, p)
           old(n) == IF n < p THEN n ELSE n + 1
<1>1. s \in Seq(Row) /\ p \in 1..Len(s) /\ Len(s) \in Nat
  BY DEF RowsOK
<1>2. r \in Seq(Row) /\ Len(r) = Len(s) - 1
      /\ \A n \in 1..(Len(s) - 1) : r[n] = IF n < p THEN s[n] ELSE s[n + 1]
  BY <1>1, Removed
<1> HIDE DEF r
<1>3. DOMAIN r = 1..(Len(s) - 1) /\ DOMAIN s = 1..Len(s)
  BY <1>1, <1>2
<1>4. \A n \in DOMAIN r : r[n] = s[old(n)] /\ old(n) \in DOMAIN s /\ old(n) # p
  BY <1>1, <1>2, <1>3
<1>5. \A m, n \in DOMAIN r : /\ old(m) = old(n) => m = n
                             /\ m < n => old(m) < old(n)
  BY <1>1, <1>3
<1> HIDE DEF old
<1>6. Unique(r) /\ InOrder(r)
  BY <1>4, <1>5 DEF RowsOK, Unique, InOrder
<1>7. \A n \in DOMAIN r : r[n].item # s[p].item
  BY <1>4 DEF RowsOK, Unique
<1>8. QED
  BY <1>2, <1>6, <1>7 DEF RowsOK, r

(* A row goes in where it comes after those before and before those after.  *)
LEMMA InsertKeeps ==
  ASSUME NEW s, RowsOK(s), NEW e \in Row, NEW p \in 1..(Len(s) + 1),
         \A n \in DOMAIN s : s[n].item # e.item,
         \A n \in DOMAIN s :
           IF n < p THEN After(Order[e.item], Order[s[n].item])
                    ELSE After(Order[s[n].item], Order[e.item])
  PROVE  RowsOK(InsertAt(s, p, e))
<1> DEFINE r == InsertAt(s, p, e)
           old(n) == IF n < p THEN n ELSE n - 1
<1>1. s \in Seq(Row) /\ Len(s) \in Nat /\ p \in Nat
  BY DEF RowsOK
<1>2. r \in Seq(Row) /\ Len(r) = Len(s) + 1
      /\ \A n \in 1..(Len(s) + 1) : r[n] = IF n < p THEN s[n] ELSE IF n = p THEN e ELSE s[n - 1]
  BY <1>1, Inserted
<1> HIDE DEF r
<1>3. DOMAIN r = 1..(Len(s) + 1) /\ DOMAIN s = 1..Len(s)
  BY <1>1, <1>2
<1>4. \A n \in DOMAIN r \ {p} : r[n] = s[old(n)] /\ old(n) \in DOMAIN s
  BY <1>1, <1>2, <1>3
<1>5. r[p] = e
  BY <1>2
<1>6. \A m, n \in DOMAIN r \ {p} : /\ old(m) = old(n) => m = n
                                   /\ m < n => old(m) < old(n)
  BY <1>1, <1>3
<1>7. \A n \in DOMAIN r \ {p} : (n < p => old(n) < p) /\ (n > p => ~(old(n) < p))
  BY <1>1, <1>3
<1>8. \A n \in DOMAIN r \ {p} : n < p \/ n > p
  BY <1>1, <1>3
<1> HIDE DEF old
<1>9. Unique(r)
  BY <1>4, <1>5, <1>6 DEF RowsOK, Unique
<1>10. InOrder(r)
  <2> SUFFICES ASSUME NEW m \in DOMAIN r, NEW n \in DOMAIN r, m < n
               PROVE  After(Order[r[n].item], Order[r[m].item])
    BY DEF InOrder
  <2>1. CASE m # p /\ n # p
    BY <1>4, <1>6, <2>1 DEF RowsOK, InOrder
  <2>2. CASE m = p
    <3>1. n # p /\ n > p
      BY <1>1, <1>3, <2>2
    <3>2. ~(old(n) < p) /\ r[n] = s[old(n)] /\ old(n) \in DOMAIN s
      BY <1>4, <1>7, <3>1
    <3>3. QED
      BY <1>5, <2>2, <3>2
  <2>3. CASE n = p
    <3>1. m # p /\ m < p
      BY <1>1, <1>3, <2>3
    <3>2. old(m) < p /\ r[m] = s[old(m)] /\ old(m) \in DOMAIN s
      BY <1>4, <1>7, <3>1
    <3>3. QED
      BY <1>5, <2>3, <3>2
  <2>4. QED
    BY <2>1, <2>2, <2>3
<1>11. QED
  BY <1>2, <1>9, <1>10 DEF RowsOK, r

(* The edits of rows that keep their item. *)
LEMMA EditKeeps ==
  ASSUME NEW s, RowsOK(s), NEW r, r = [n \in DOMAIN s |-> r[n]],
         \A n \in DOMAIN s : r[n] \in Row /\ r[n].item = s[n].item
  PROVE  RowsOK(r)
<1>1. s \in Seq(Row) /\ Len(s) \in Nat /\ DOMAIN s = 1..Len(s)
  BY DEF RowsOK
<1>2. DOMAIN r = DOMAIN s
  OBVIOUS
<1>3. r \in Seq(Row)
  <2>1. r \in [1..Len(s) -> Row]
    BY <1>1
  <2>2. QED
    BY <1>1, <2>1
<1>4. Unique(r)
  BY <1>2 DEF RowsOK, Unique
<1>5. InOrder(r)
  BY <1>2 DEF RowsOK, InOrder
<1>6. QED
  BY <1>3, <1>4, <1>5 DEF RowsOK

LEMMA RenderedRowType ==
  ASSUME NEW m \in ItemCall, m.call \in {"syncChildren", "replaceNode"}
  PROVE  /\ m.item \in Item
         /\ \A q \in Mode, w \in BOOLEAN : RowFor(m, q, w) \in Row /\ RowFor(m, q, w).item = m.item
         /\ RenderedRow(m) \in Row /\ RenderedRow(m).item = m.item
<1>1. m.item \in Item /\ m.value \in Text /\ m.mode \in Mode
  BY DEF ItemCall
<1>2. QED
  BY <1>1 DEF Row, RowFor, RenderedRow

LEMMA AddChildrenKeeps ==
  ASSUME RowsOK(rows), NEW m \in ItemCall, m.call = "syncChildren",
         RowsOf(m.item) = {}, AddChildren(m)
  PROVE  RowsOK(rows')
<1> DEFINE o == Order[m.item]
           e == RenderedRow(m)
           later == {n \in DOMAIN rows : After(Order[rows[n].item], o)}
           place == CHOOSE n \in later \cup {Len(rows) + 1} :
                      \A k \in later \cup {Len(rows) + 1} : n <= k
<1>1. e \in Row /\ e.item = m.item /\ m.item \in Item
  BY RenderedRowType
<1>2. o \in Digits
  BY <1>1, OrderIsDigits
<1>3. DOMAIN rows = 1..Len(rows) /\ Len(rows) \in Nat
  BY DEF RowsOK
<1>4. \E n \in later \cup {Len(rows) + 1} : \A k \in later \cup {Len(rows) + 1} : n <= k
  <2>1. later \cup {Len(rows) + 1} \in SUBSET Nat
    BY <1>3
  <2>2. QED
    BY <2>1, NatMinimum
<1> DEFINE p == place
<1>5. p \in later \cup {Len(rows) + 1} /\ \A k \in later \cup {Len(rows) + 1} : p <= k
  BY <1>4
<1>6. rows' = InsertAt(rows, p, e)
  BY DEF AddChildren
<1> HIDE DEF p, e, o
<1>7. p \in 1..(Len(rows) + 1)
  BY <1>3, <1>5
<1>8. \A n \in DOMAIN rows : rows[n].item # e.item
  BY <1>1 DEF RowsOf
<1>9. ASSUME NEW n \in DOMAIN rows
      PROVE  IF n < p THEN After(Order[e.item], Order[rows[n].item])
                      ELSE After(Order[rows[n].item], Order[e.item])
  <2>1. Order[rows[n].item] \in Digits /\ rows[n].item \in Item
    BY <1>9, RowOrders
  <2>2. Order[rows[n].item] # o /\ Order[e.item] = o
    BY <1>1, <1>8, <2>1 DEF o
  <2>3. CASE n < p
    <3>1. n \notin later
      BY <1>3, <1>5, <1>7, <2>3
    <3>2. After(o, Order[rows[n].item])
      BY <1>2, <2>1, <2>2, <3>1, AfterOrders
    <3>3. QED
      BY <2>2, <2>3, <3>2
  <2>4. CASE ~(n < p)
    <3>1. p \in later /\ p <= n
      BY <1>3, <1>5, <2>4
    <3>2. p \in DOMAIN rows /\ After(Order[rows[p].item], o)
      BY <3>1
    <3>3. Order[rows[p].item] \in Digits
      BY <3>2, RowOrders
    <3>4. n = p \/ After(Order[rows[n].item], Order[rows[p].item])
      BY <1>3, <1>9, <3>1, <3>2 DEF RowsOK, InOrder
    <3>5. After(Order[rows[n].item], o)
      BY <1>2, <2>1, <3>2, <3>3, <3>4, AfterOrders
    <3>6. QED
      BY <2>2, <2>4, <3>5
  <2>5. QED
    BY <2>3, <2>4
<1>10. RowsOK(InsertAt(rows, p, e))
  BY <1>1, <1>7, <1>8, <1>9, InsertKeeps
<1>11. QED
  BY <1>6, <1>10

LEMMA WithoutKeeps ==
  ASSUME RowsOK(rows), NEW i
  PROVE  RowsOK(Without(i)) /\ \A n \in DOMAIN Without(i) : Without(i)[n].item # i
<1>1. CASE RowsOf(i) = {}
  BY <1>1 DEF Without, RowsOf
<1>2. CASE RowsOf(i) # {}
  <2> DEFINE p == CHOOSE n \in RowsOf(i) : TRUE
  <2>1. p \in RowsOf(i)
    BY <1>2
  <2>2. Without(i) = RemoveAt(rows, p)
    BY <1>2 DEF Without
  <2> HIDE DEF p
  <2>3. p \in DOMAIN rows /\ rows[p].item = i
    BY <2>1 DEF RowsOf
  <2>4. QED
    BY <2>2, <2>3, RemoveKeeps
<1>3. QED
  BY <1>1, <1>2

PageTypeOK ==
  /\ loose \subseteq Item
  /\ hidden \subseteq Action \ AlwaysShown
  /\ disabled \subseteq Action

(* What the page does with a call keeps the rows and buttons as they are to *)
(* be.                                                                      *)
LEMMA OnMessageKeeps ==
  ASSUME RowsOK(rows), PageTypeOK, NEW m \in ToPage, OnMessage(m)
  PROVE  RowsOK(rows') /\ PageTypeOK'
<1>1. CASE m.call = "changeAction"
  <2>1. m.name \in Action /\ UNCHANGED <<rows, loose>> /\ ChangeActionButtons(m)
    BY <1>1 DEF OnMessage, ToPage, ButtonCall, ItemCall
  <2>2. QED
    BY <2>1 DEF PageTypeOK, ChangeActionButtons
<1>2. ASSUME m.call # "changeAction" PROVE m \in ItemCall /\ m.item \in Item
  BY <1>2 DEF ToPage, ButtonCall, ItemCall
<1>3. CASE m.call = "syncChildren" /\ RowsOf(m.item) = {}
  <2>1. AddChildren(m) /\ UNCHANGED <<loose, hidden, disabled>> /\ m \in ItemCall
    BY <1>2, <1>3 DEF OnMessage, SyncChildren
  <2>2. QED
    BY <1>3, <2>1, AddChildrenKeeps DEF PageTypeOK
<1>4. CASE m.call = "syncChildren" /\ RowsOf(m.item) # {}
  <2>1. ReplaceChildren(m) /\ UNCHANGED <<loose, hidden, disabled>> /\ m \in ItemCall
    BY <1>2, <1>4 DEF OnMessage, SyncChildren
  <2> DEFINE new(r) == RowFor(m, r.mode, FALSE)
  <2>2. rows' = [n \in DOMAIN rows |-> IF n \in RowsOf(m.item) THEN new(rows[n]) ELSE rows[n]]
    BY <2>1 DEF ReplaceChildren, Becomes
  <2>3. ASSUME NEW n \in RowsOf(m.item)
        PROVE  n \in DOMAIN rows /\ new(rows[n]) \in Row /\ new(rows[n]).item = rows[n].item
    <3>1. n \in DOMAIN rows /\ rows[n].item = m.item
      BY DEF RowsOf
    <3>2. rows[n].mode \in Mode
      BY <3>1, RowOrders DEF Row
    <3>3. QED
      BY <1>4, <2>1, <3>1, <3>2, RenderedRowType
  <2> HIDE DEF new
  <2>4. rows' = [n \in DOMAIN rows |-> rows'[n]]
    BY <2>2
  <2>5. \A n \in DOMAIN rows : rows'[n] \in Row /\ rows'[n].item = rows[n].item
    BY <2>2, <2>3, RowOrders
  <2>6. RowsOK(rows')
    BY <2>4, <2>5, EditKeeps
  <2>7. QED
    BY <2>1, <2>6 DEF PageTypeOK
<1>5. CASE m.call = "replaceNode"
  <2>1. ReplaceNode(m) /\ UNCHANGED <<hidden, disabled>> /\ m.item \in Item
    BY <1>2, <1>5 DEF OnMessage
  <2>2. RowsOK(rows')
    BY <2>1, WithoutKeeps DEF ReplaceNode
  <2>3. QED
    BY <2>1, <2>2 DEF PageTypeOK, ReplaceNode
<1>6. CASE m.call = "deleteNodes"
  BY <1>6, WithoutKeeps DEF OnMessage, PageTypeOK
<1>7. ASSUME NEW on \in BOOLEAN, ShowStatus(m.item, on), UNCHANGED <<loose, hidden>>
      PROVE  RowsOK(rows') /\ PageTypeOK'
  <2>1. rows' = [n \in DOMAIN rows |->
                   IF n \in Whole(m.item) THEN [rows[n] EXCEPT !.status = on] ELSE rows[n]]
    BY <1>7 DEF ShowStatus, Becomes
  <2>2. rows' = [n \in DOMAIN rows |-> rows'[n]]
    BY <2>1
  <2>3. \A n \in DOMAIN rows : rows'[n] \in Row /\ rows'[n].item = rows[n].item
    BY <2>1, RowOrders, RowEdits
  <2>4. RowsOK(rows')
    BY <2>2, <2>3, EditKeeps
  <2>5. QED
    BY <1>7, <2>4 DEF PageTypeOK, ShowStatus, AdjustButton
<1>8. CASE m.call = "noteError" \/ m.call = "clearError"
  BY <1>7, <1>8 DEF OnMessage
<1>9. CASE m.call = "setValue"
  <2>1. m.value \in Text
    BY <1>2, <1>9 DEF ItemCall
  <2>2. rows' = [n \in DOMAIN rows |->
                   IF n \in Whole(m.item) THEN [rows[n] EXCEPT !.value = m.value] ELSE rows[n]]
    BY <1>9 DEF OnMessage, Becomes
  <2>3. rows' = [n \in DOMAIN rows |-> rows'[n]]
    BY <2>2
  <2>4. \A n \in DOMAIN rows : rows'[n] \in Row /\ rows'[n].item = rows[n].item
    BY <2>1, <2>2, RowOrders, RowEdits
  <2>5. QED
    BY <1>9, <2>3, <2>4, EditKeeps DEF OnMessage, PageTypeOK
<1>10. CASE m.call = "setEntryMode"
  <2>1. m.mode \in Mode
    BY <1>2, <1>10 DEF ItemCall
  <2>2. rows' = [n \in DOMAIN rows |->
                   IF n \in Whole(m.item) THEN [rows[n] EXCEPT !.mode = m.mode] ELSE rows[n]]
    BY <1>10 DEF OnMessage, Becomes
  <2>3. rows' = [n \in DOMAIN rows |-> rows'[n]]
    BY <2>2
  <2>4. \A n \in DOMAIN rows : rows'[n] \in Row /\ rows'[n].item = rows[n].item
    BY <2>1, <2>2, RowOrders, RowEdits
  <2>5. QED
    BY <1>10, <2>3, <2>4, EditKeeps DEF OnMessage, PageTypeOK
<1>11. QED
  BY <1>1, <1>3, <1>4, <1>5, <1>6, <1>8, <1>9, <1>10 DEF OnMessage

------------------------------------------------------------------------------
(* The inductive invariant.                                                 *)
FormInv ==
  /\ MachineInv /\ ItemTypeOK /\ PageTypeOK /\ RowsOK(rows)
  /\ link \in {"CONNECTING", "OPEN", "CLOSED"}
  /\ link = "CONNECTING" => again = {}
  /\ toPage \in Seq(ToPage)
  /\ toServer \in Seq(ToServer)
  /\ edits \in 0..MaxEdits

LEMMA FormInitInv == Init => FormInv
<1> SUFFICES ASSUME Init PROVE FormInv
  OBVIOUS
<1>1. MachineInv
  BY MachineInitInv DEF Init
<1>2. ItemTypeOK
  BY NoModelType DEF Init, ItemTypeOK
<1>3. RowsOK(rows)
  BY DEF Init, RowsOK, Unique, InOrder
<1>4. QED
  BY <1>1, <1>2, <1>3 DEF Init, FormInv, PageTypeOK

LEMMA SendType ==
  ASSUME toPage \in Seq(ToPage), NEW ms, ms \in Seq(ItemCall) \cup Seq(ButtonCall), Send(ms)
  PROVE  toPage' \in Seq(ToPage)
<1>1. ms \in Seq(ToPage)
  BY DEF ToPage
<1>2. toPage \o ms \in Seq(ToPage)
  BY <1>1
<1>3. QED
  BY <1>2 DEF Send

LEMMA OpenKeeps ==
  ASSUME FormInv, OpenWebSocket
  PROVE  ItemTypeOK' /\ toPage' \in Seq(ToPage) /\ toPage' \in Seq(ItemCall)
<1>1. built' \subseteq Item
  BY DEF OpenWebSocket
<1> DEFINE rendered == {Render("syncChildren", i, mode[i]) : i \in built'}
<1>2. IsFiniteSet(built')
  BY <1>1, FS_Subset
<1>3. IsFiniteSet(rendered)
  <2> DEFINE f == [i \in built' |-> Render("syncChildren", i, mode[i])]
  <2>1. f \in Surjection(built', rendered)
    BY DEF Surjection
  <2>2. QED
    BY <1>2, <2>1, FS_Surjection DEF ExistsSurjection
<1>4. rendered \in SUBSET ItemCall
  BY <1>1, ItemCallType DEF FormInv, ItemTypeOK
<1>5. toPage' \in Seq(ItemCall)
  BY <1>3, <1>4, SetToSeqType DEF OpenWebSocket
<1>6. toPage' \in Seq(ToPage)
  BY <1>5 DEF ToPage
<1>7. ItemTypeOK'
  BY <1>1 DEF FormInv, ItemTypeOK, OpenWebSocket
<1>8. QED
  BY <1>5, <1>6, <1>7

LEMMA ReceiveKeeps ==
  ASSUME FormInv, Receive
  PROVE  ItemTypeOK' /\ toPage' \in Seq(ToPage) /\ toServer' \in Seq(ToServer)
<1> DEFINE m == Head(toServer)
<1>1. toServer # <<>> /\ toServer \in Seq(ToServer)
  BY DEF Receive, FormInv
<1>2. m \in ToServer /\ Tail(toServer) \in Seq(ToServer)
  BY <1>1
<1>3. CASE m.command = "input" /\ m.item \in built
  <2>1. m.item \in Item /\ m.value \in Text
    BY <1>2, <1>3 DEF ToServer
  <2>2. SetSource(m.item, m.value)
    BY <1>3 DEF Receive
  <2>3. QED
    BY <1>2, <2>1, <2>2, SetSourceSends, SendType DEF SendsItemCalls, FormInv, Receive
<1>4. CASE ~(m.command = "input" /\ m.item \in built)
  BY <1>2, <1>4 DEF Receive, FormInv, itemVars, ItemTypeOK
<1>5. QED
  BY <1>3, <1>4

LEMMA TypeKeeps ==
  ASSUME FormInv, NEW n \in 1..Cardinality(Item), Type(n)
  PROVE  RowsOK(rows') /\ toServer' \in Seq(ToServer)
<1>1. n \in DOMAIN rows /\ RowsOK(rows)
  BY DEF Type, FormInv
<1>2. PICK t \in Text : /\ rows' = [rows EXCEPT ![n].value = t]
                        /\ SendServer([command |-> "input", item |-> rows[n].item, value |-> t])
  BY DEF Type
<1>3. RowsOK(rows')
  <2>1. rows' = [k \in DOMAIN rows |-> IF k = n THEN [rows[k] EXCEPT !.value = t] ELSE rows[k]]
    BY <1>1, <1>2 DEF RowsOK
  <2>2. rows' = [k \in DOMAIN rows |-> rows'[k]]
    BY <2>1
  <2>3. \A k \in DOMAIN rows : rows'[k] \in Row /\ rows'[k].item = rows[k].item
    BY <1>1, <2>1, RowOrders, RowEdits
  <2>4. QED
    BY <1>1, <2>2, <2>3, EditKeeps
<1>4. [command |-> "input", item |-> rows[n].item, value |-> t] \in ToServer
  BY <1>1, <1>2, RowOrders DEF ToServer
<1>5. QED
  BY <1>2, <1>3, <1>4 DEF SendServer, FormInv

LEMMA FormStepInv == FormInv /\ [Next]_vars => FormInv'
<1> SUFFICES ASSUME FormInv, [Next]_vars PROVE FormInv'
  OBVIOUS
<1>0. MachineInv'
  BY FormMachine, MachineStepInv DEF FormInv
<1> USE DEF FormInv
<1>1. CASE OpenWebSocket
  BY <1>0, <1>1, OpenKeeps DEF OpenWebSocket, pageVars, PageTypeOK
<1>2. CASE CloseWebSocket
  BY <1>0, <1>2 DEF CloseWebSocket, itemVars, pageVars, ItemTypeOK, PageTypeOK
<1>3. ASSUME NEW A, OnServer(A), toPage' \in Seq(ToPage) PROVE FormInv'
  BY <1>0, <1>3 DEF OnServer, itemVars, pageVars, ItemTypeOK, PageTypeOK
<1>4. CASE StartMachine \/ AdvanceMachine \/ AnswerCall \/ EndCall
  BY <1>3, <1>4 DEF StartMachine, AdvanceMachine, AnswerCall, EndCall, OnServer
<1>5. ASSUME NEW k \in 1..Listeners, TellListener(k) PROVE FormInv'
  <2>1. /\ UNCHANGED <<itemVars, link, toServer, pageVars, edits>>
        /\ \E n \in 1..(2 * Count) : IF k = 1 THEN Send(<<ChangeAction(ActionAt(n), n > Count)>>)
                                             ELSE UNCHANGED toPage
    BY <1>5 DEF TellListener, OnServer
  <2>2. ASSUME NEW n \in 1..(2 * Count) PROVE <<ChangeAction(ActionAt(n), n > Count)>> \in Seq(ButtonCall)
    <3>1. ActionAt(n) \in Action
      BY ActionAtType
    <3>2. QED
      BY <3>1 DEF ChangeAction, ButtonCall
  <2>3. toPage' \in Seq(ToPage)
    BY <2>1, <2>2, SendType
  <2>4. QED
    BY <1>0, <2>1, <2>3 DEF itemVars, pageVars, ItemTypeOK, PageTypeOK
<1>6. ASSUME NEW i \in Item, ItemStep(i) PROVE FormInv'
  <2>1. /\ ItemTypeOK' /\ SendsItemCalls /\ edits' \in 0..MaxEdits
        /\ link = "OPEN" /\ UNCHANGED <<link, toServer, pageVars>>
    BY <1>6, ItemStepSends
  <2>2. toPage' \in Seq(ToPage)
    BY <2>1, SendType DEF SendsItemCalls
  <2>3. QED
    BY <1>0, <2>1, <2>2 DEF pageVars, PageTypeOK
<1>7. CASE Receive
  <2>1. ItemTypeOK' /\ toPage' \in Seq(ToPage) /\ toServer' \in Seq(ToServer)
    BY <1>7, ReceiveKeeps
  <2>2. UNCHANGED <<link, pageVars, edits, again>>
    BY <1>7 DEF Receive, SetSource, itemVars
  <2>3. QED
    BY <1>0, <2>1, <2>2 DEF pageVars, PageTypeOK
<1>8. CASE Deliver
  <2>1. Head(toPage) \in ToPage /\ toPage' \in Seq(ToPage) /\ OnMessage(Head(toPage))
    BY <1>8 DEF Deliver
  <2>2. QED
    BY <1>0, <1>8, <2>1, OnMessageKeeps DEF Deliver, itemVars, ItemTypeOK
<1>9. ASSUME NEW n \in 1..Cardinality(Item), Type(n) PROVE FormInv'
  <2>1. /\ edits' \in 0..MaxEdits
        /\ UNCHANGED <<machineVars, itemVars, link, toPage, loose, hidden, disabled>>
    BY <1>9 DEF Type, Edit
  <2>2. RowsOK(rows') /\ toServer' \in Seq(ToServer)
    BY <1>9, TypeKeeps
  <2>3. QED
    BY <1>0, <2>1, <2>2 DEF itemVars, ItemTypeOK, PageTypeOK
<1>10. ASSUME NEW a \in Action, Click(a) PROVE FormInv'
  <2>1. [command |-> "click", name |-> a] \in ToServer
    BY DEF ToServer
  <2>2. toServer' \in Seq(ToServer)
    BY <1>10, <2>1 DEF Click, SendServer
  <2>3. QED
    BY <1>0, <1>10, <2>2 DEF Click, Edit, itemVars, pageVars, ItemTypeOK, PageTypeOK
<1>11. ASSUME NEW i \in Item, TypeLoose(i) PROVE FormInv'
  <2>1. PICK t \in Text : SendServer([command |-> "input", item |-> i, value |-> t])
    BY <1>11 DEF TypeLoose
  <2>2. [command |-> "input", item |-> i, value |-> t] \in ToServer
    BY DEF ToServer
  <2>3. toServer' \in Seq(ToServer)
    BY <2>1, <2>2 DEF SendServer
  <2>4. QED
    BY <1>0, <1>11, <2>3 DEF TypeLoose, Edit, itemVars, pageVars, ItemTypeOK, PageTypeOK
<1>12. CASE UNCHANGED vars
  BY <1>0, <1>12 DEF vars, itemVars, pageVars, ItemTypeOK, PageTypeOK
<1>13. QED
  BY <1>1, <1>2, <1>4, <1>5, <1>6, <1>7, <1>8, <1>9, <1>10, <1>11, <1>12 DEF Next

(* Everything on either side and under way keeps its type. *)
THEOREM FormTypeOK == Spec => []TypeOK
<1>1. FormInv => TypeOK
  BY DEF FormInv, TypeOK, MachineInv, ItemTypeOK, PageTypeOK, RowsOK
<1>2. QED
  BY <1>1, FormInitInv, FormStepInv, PTL DEF Spec

(* Rows are in the order of data-order, whatever was added, rendered again  *)
(* and deleted before: addChildren finds the right place for every new one. *)
THEOREM FormRowsInOrder == Spec => []RowsInOrder
<1>1. FormInv => RowsInOrder
  BY DEF FormInv, RowsOK, InOrder, RowsInOrder
<1>2. QED
  BY <1>1, FormInitInv, FormStepInv, PTL DEF Spec

------------------------------------------------------------------------------
(* Buttons: the last call under way about an action says what the page's    *)
(* listener was last told of it; when there is none the button shows it.    *)
For(s, a) == {n \in DOMAIN s : s[n] \in ButtonCall /\ s[n].name = a}

Shows(a) ==
  heard[1][a] # "unknown" =>
    /\ a \in hidden <=> heard[1][a] = "withdrawn" /\ a \notin AlwaysShown
    /\ a # FirstButton => (a \in disabled <=> heard[1][a] = "withdrawn")

Says(s, a, h) ==
  \A n \in For(s, a) : (\A m \in For(s, a) : m <= n) =>
    h = IF s[n].available THEN "available" ELSE "withdrawn"

ButtonsInv ==
  /\ link = "CONNECTING" => \A a \in Action : heard[1][a] = "unknown"
  /\ link # "OPEN" => toPage = <<>>
  /\ link # "CLOSED" =>
       \A a \in Action : Says(toPage, a, heard[1][a]) /\ (For(toPage, a) = {} => Shows(a))

LEMMA ItemCallIsNoButtonCall ==
  /\ \A m \in ItemCall : m \notin ButtonCall /\ m.call # "changeAction"
  /\ \A m \in ButtonCall : m.call = "changeAction" /\ m.name \in Action /\ m.available \in BOOLEAN
  /\ \A m \in ToPage : m \in ItemCall \/ m \in ButtonCall
<1>1. \A m \in ItemCall : m.call # "changeAction"
  BY DEF ItemCall
<1>2. \A m \in ButtonCall : m.call = "changeAction" /\ m.name \in Action /\ m.available \in BOOLEAN
  BY DEF ButtonCall
<1>3. QED
  BY <1>1, <1>2 DEF ToPage

LEMMA ForItemCalls ==
  ASSUME NEW s \in Seq(ToPage), NEW ms \in Seq(ItemCall), NEW a \in Action, NEW h
  PROVE  For(s \o ms, a) = For(s, a) /\ (Says(s, a, h) => Says(s \o ms, a, h))
<1>1. ms \in Seq(ToPage)
  BY DEF ToPage
<1>2. /\ Len(s \o ms) = Len(s) + Len(ms) /\ s \o ms \in Seq(ToPage)
      /\ \A n \in 1..(Len(s) + Len(ms)) : (s \o ms)[n] = IF n <= Len(s) THEN s[n] ELSE ms[n - Len(s)]
  BY <1>1, ConcatProperties
<1>3. /\ DOMAIN s = 1..Len(s) /\ DOMAIN (s \o ms) = 1..(Len(s) + Len(ms))
      /\ Len(s) \in Nat /\ Len(ms) \in Nat
  BY <1>2
<1>4. \A n \in DOMAIN s : n \in DOMAIN (s \o ms) /\ (s \o ms)[n] = s[n]
  BY <1>2, <1>3
<1>5. ASSUME NEW n \in DOMAIN (s \o ms), n \notin DOMAIN s PROVE (s \o ms)[n] \notin ButtonCall
  <2>1. n - Len(s) \in 1..Len(ms) /\ (s \o ms)[n] = ms[n - Len(s)]
    BY <1>2, <1>3, <1>5
  <2>2. ms[n - Len(s)] \in ItemCall
    BY <2>1
  <2>3. QED
    BY <2>1, <2>2, ItemCallIsNoButtonCall
<1>6. For(s \o ms, a) = For(s, a)
  BY <1>4, <1>5 DEF For
<1>7. \A n \in For(s, a) : (s \o ms)[n] = s[n]
  BY <1>4 DEF For
<1>8. QED
  BY <1>6, <1>7 DEF Says

LEMMA ForAppend ==
  ASSUME NEW s \in Seq(ToPage), NEW e \in ButtonCall, NEW a \in Action, a # e.name, NEW h
  PROVE  For(Append(s, e), a) = For(s, a) /\ (Says(s, a, h) => Says(Append(s, e), a, h))
<1>1. /\ DOMAIN s = 1..Len(s) /\ DOMAIN Append(s, e) = 1..(Len(s) + 1) /\ Len(s) \in Nat
      /\ Append(s, e)[Len(s) + 1] = e /\ \A n \in 1..Len(s) : Append(s, e)[n] = s[n]
  BY DEF ToPage
<1>2. \A n \in DOMAIN Append(s, e) : n \in DOMAIN s \/ n = Len(s) + 1
  BY <1>1
<1>3. For(Append(s, e), a) = For(s, a)
  BY <1>1, <1>2 DEF For
<1>4. \A n \in For(s, a) : Append(s, e)[n] = s[n]
  BY <1>1 DEF For
<1>5. QED
  BY <1>3, <1>4 DEF Says

LEMMA ForAppended ==
  ASSUME NEW s \in Seq(ToPage), NEW e \in ButtonCall,
         NEW h, h = IF e.available THEN "available" ELSE "withdrawn"
  PROVE  For(Append(s, e), e.name) # {} /\ Says(Append(s, e), e.name, h)
<1> DEFINE r == Append(s, e)
<1>1. DOMAIN r = 1..(Len(s) + 1) /\ Len(s) \in Nat /\ r[Len(s) + 1] = e
  BY DEF ToPage
<1> HIDE DEF r
<1>2. Len(s) + 1 \in For(r, e.name) /\ \A n \in For(r, e.name) : n \in 1..(Len(s) + 1)
  BY <1>1 DEF For
<1>3. ASSUME NEW n \in For(r, e.name), \A m \in For(r, e.name) : m <= n PROVE r[n] = e
  BY <1>1, <1>2, <1>3
<1>4. For(r, e.name) # {} /\ Says(r, e.name, h)
  BY <1>2, <1>3 DEF Says
<1>5. QED
  BY <1>4 DEF r

LEMMA ForTail ==
  ASSUME NEW s \in Seq(ToPage), s # <<>>, NEW a \in Action, NEW h, Says(s, a, h)
  PROVE  /\ Says(Tail(s), a, h)
         /\ For(s, a) = {} => For(Tail(s), a) = {}
         /\ For(Tail(s), a) = {} /\ For(s, a) # {} =>
              /\ Head(s) \in ButtonCall /\ Head(s).name = a
              /\ h = IF Head(s).available THEN "available" ELSE "withdrawn"
<1> DEFINE r == Tail(s)
<1>1. /\ DOMAIN s = 1..Len(s) /\ DOMAIN r = 1..(Len(s) - 1) /\ Len(s) \in Nat \ {0}
      /\ Head(s) = s[1] /\ \A n \in 1..(Len(s) - 1) : r[n] = s[n + 1]
  BY DEF ToPage
<1> HIDE DEF r
<1>2. \A n \in DOMAIN r : n \in Int /\ n + 1 \in DOMAIN s /\ r[n] = s[n + 1]
  BY <1>1
<1>3. \A n \in DOMAIN s : n \in Int /\ (n = 1 \/ n - 1 \in DOMAIN r)
  BY <1>1
<1>4. \A n \in For(r, a) : n \in Int /\ n + 1 \in For(s, a)
  BY <1>2 DEF For
<1>5. ASSUME NEW n \in For(s, a), n # 1 PROVE n - 1 \in For(r, a) /\ n \in Int
  <2>1. n \in DOMAIN s /\ n \in Int /\ n - 1 \in DOMAIN r
    BY <1>3, <1>5 DEF For
  <2>2. r[n - 1] = s[(n - 1) + 1] /\ (n - 1) + 1 = n
    BY <1>2, <2>1
  <2>3. QED
    BY <2>1, <2>2 DEF For
<1>6. Says(r, a, h)
  <2> SUFFICES ASSUME NEW n \in For(r, a), \A m \in For(r, a) : m <= n
               PROVE  h = IF r[n].available THEN "available" ELSE "withdrawn"
    BY DEF Says
  <2>1. n + 1 \in For(s, a) /\ n \in Int /\ n >= 1 /\ r[n] = s[n + 1]
    BY <1>1, <1>2, <1>4 DEF For
  <2>2. ASSUME NEW m \in For(s, a) PROVE m <= n + 1
    <3>1. CASE m = 1
      BY <2>1, <3>1
    <3>2. CASE m # 1
      BY <1>5, <2>1, <3>2
    <3>3. QED
      BY <3>1, <3>2
  <2>3. QED
    BY <2>1, <2>2 DEF Says
<1>7. ASSUME For(r, a) = {}, For(s, a) # {}
      PROVE  /\ s[1] \in ButtonCall /\ s[1].name = a
             /\ h = IF s[1].available THEN "available" ELSE "withdrawn"
  <2>1. \A n \in For(s, a) : n = 1
    BY <1>5, <1>7
  <2>2. 1 \in For(s, a)
    BY <1>7, <2>1
  <2>3. QED
    BY <2>1, <2>2 DEF Says, For
<1>8. QED
  BY <1>1, <1>4, <1>6, <1>7 DEF r

(* Calls about items, and steps that send none, leave the buttons alone.    *)
LEMMA SendItemCallsButtons ==
  ASSUME FormInv, ButtonsInv, SendsItemCalls, UNCHANGED <<heard, link, hidden, disabled>>
  PROVE  ButtonsInv'
<1>1. PICK ms \in Seq(ItemCall) : Send(ms)
  BY DEF SendsItemCalls
<1>2. CASE link = "OPEN"
  <2>1. toPage' = toPage \o ms /\ toPage \in Seq(ToPage)
    BY <1>1, <1>2 DEF Send, FormInv
  <2>2. ASSUME NEW a \in Action
        PROVE  Says(toPage', a, heard'[1][a]) /\ (For(toPage', a) = {} => Shows(a)')
    <3>1. For(toPage', a) = For(toPage, a) /\ (Says(toPage, a, heard[1][a]) => Says(toPage', a, heard[1][a]))
      BY <2>1, ForItemCalls
    <3>2. heard'[1][a] = heard[1][a]
      OBVIOUS
    <3>3. Shows(a)' <=> Shows(a)
      BY DEF Shows
    <3>4. QED
      BY <1>2, <3>1, <3>2, <3>3 DEF ButtonsInv
  <2>3. QED
    BY <1>2, <2>2 DEF ButtonsInv
<1>3. CASE link # "OPEN"
  <2>1. UNCHANGED toPage
    BY <1>1, <1>3 DEF Send
  <2>2. QED
    BY <2>1 DEF ButtonsInv, Says, Shows
<1>4. QED
  BY <1>2, <1>3

LEMMA TellButtons ==
  ASSUME FormInv, ButtonsInv, NEW k \in 1..Listeners, TellListener(k)
  PROVE  ButtonsInv'
<1>1. PICK n \in 1..(2 * Count) :
        /\ TellAt(k, n)
        /\ IF k = 1 THEN Send(<<ChangeAction(ActionAt(n), n > Count)>>) ELSE UNCHANGED toPage
  BY DEF TellListener, OnServer
<1>2. link = "OPEN" /\ UNCHANGED <<link, hidden, disabled>>
  BY DEF TellListener, OnServer, pageVars
<1>3. heard' = [heard EXCEPT ![k][ActionAt(n)] = IF n <= Count THEN "withdrawn" ELSE "available"]
      /\ heard \in [1..Listeners -> [Action -> {"unknown", "available", "withdrawn"}]]
      /\ 1 \in 1..Listeners
  BY <1>1, StateMachineAssumption DEF TellAt, FormInv, MachineInv, MachineTypeOK
<1>4. CASE k # 1
  <2>1. heard'[1] = heard[1] /\ UNCHANGED toPage
    BY <1>1, <1>3, <1>4
  <2>2. QED
    BY <1>2, <2>1 DEF ButtonsInv, Says, Shows
<1>5. CASE k = 1
  <2> DEFINE e == ChangeAction(ActionAt(n), n > Count)
  <2>1. ActionAt(n) \in Action /\ Count \in Nat
    BY ActionAtType, CountNat
  <2>2. e \in ButtonCall /\ e.name = ActionAt(n) /\ e.available = (n > Count)
    BY <2>1 DEF ChangeAction, ButtonCall
  <2> HIDE DEF e
  <2>3. toPage' = Append(toPage, e) /\ toPage \in Seq(ToPage)
    <3>1. toPage' = toPage \o <<e>> /\ toPage \in Seq(ToPage)
      BY <1>1, <1>2, <1>5 DEF Send, FormInv, e
    <3>2. toPage \o <<e>> = Append(toPage, e)
      BY <3>1
    <3>3. QED
      BY <3>1, <3>2
  <2>4. heard'[1][ActionAt(n)] = IF e.available THEN "available" ELSE "withdrawn"
    <3>1. heard'[1][ActionAt(n)] = IF n <= Count THEN "withdrawn" ELSE "available"
      BY <1>3, <1>5, <2>1
    <3>2. n > Count <=> ~(n <= Count)
      BY <2>1
    <3>3. e.available <=> n > Count
      BY <2>2
    <3>4. QED
      BY <3>1, <3>2, <3>3
  <2>5. \A a \in Action : a # ActionAt(n) => heard'[1][a] = heard[1][a]
    BY <1>3, <1>5, <2>1
  <2>6. ASSUME NEW a \in Action
        PROVE  Says(toPage', a, heard'[1][a]) /\ (For(toPage', a) = {} => Shows(a)')
    <3>1. CASE a = ActionAt(n)
      <4>1. For(toPage', a) # {} /\ Says(toPage', a, heard'[1][a])
        BY <2>2, <2>3, <2>4, <3>1, ForAppended
      <4>2. QED
        BY <4>1
    <3>2. CASE a # ActionAt(n)
      <4>1. For(toPage', a) = For(toPage, a) /\ (Says(toPage, a, heard[1][a]) => Says(toPage', a, heard[1][a]))
        BY <2>2, <2>3, <3>2, ForAppend
      <4>2. heard'[1][a] = heard[1][a]
        BY <2>5, <3>2
      <4>3. Shows(a)' <=> Shows(a)
        BY <1>2, <2>5, <3>2 DEF Shows
      <4>4. QED
        BY <1>2, <4>1, <4>2, <4>3 DEF ButtonsInv
    <3>3. QED
      BY <3>1, <3>2
  <2>7. QED
    BY <1>2, <2>6 DEF ButtonsInv
<1>6. QED
  BY <1>4, <1>5

LEMMA DeliverButtons == ASSUME FormInv, ButtonsInv, Deliver PROVE ButtonsInv'
<1> DEFINE h == Head(toPage)
<1>1. /\ toPage # <<>> /\ toPage \in Seq(ToPage) /\ toPage' = Tail(toPage) /\ h \in ToPage
      /\ OnMessage(h) /\ UNCHANGED <<heard, link>>
  BY DEF Deliver, FormInv, machineVars
<1>2. link = "OPEN"
  BY <1>1 DEF ButtonsInv
<1>3. ASSUME h \notin ButtonCall, NEW a \in Action PROVE Shows(a)' <=> Shows(a)
  <2>1. h.call # "changeAction"
    BY <1>1, <1>3, ItemCallIsNoButtonCall
  <2>2. UNCHANGED hidden
    BY <1>1, <2>1 DEF OnMessage
  <2>3. a # FirstButton => (a \in disabled' <=> a \in disabled)
    BY <1>1, <2>1 DEF OnMessage, ShowStatus, AdjustButton
  <2>4. QED
    BY <1>1, <2>2, <2>3 DEF Shows
<1>4. ASSUME h \in ButtonCall
      PROVE  /\ h.name \in Action /\ h.available \in BOOLEAN
             /\ ChangeActionButtons(h)
  BY <1>1, <1>4, ItemCallIsNoButtonCall DEF OnMessage
<1>5. ASSUME h \in ButtonCall, NEW a \in Action, a # h.name PROVE Shows(a)' <=> Shows(a)
  BY <1>1, <1>4, <1>5 DEF Shows, ChangeActionButtons
<1>6. ASSUME h \in ButtonCall, NEW a \in Action, h.name = a,
             heard[1][a] = IF h.available THEN "available" ELSE "withdrawn"
      PROVE  Shows(a)'
  <2>1. heard'[1][a] = heard[1][a] /\ hidden \subseteq Action \ AlwaysShown
    BY <1>1 DEF FormInv, PageTypeOK
  <2>2. CASE h.available
    BY <1>4, <1>6, <2>1, <2>2 DEF Shows, ChangeActionButtons
  <2>3. CASE ~h.available
    BY <1>4, <1>6, <2>1, <2>3 DEF Shows, ChangeActionButtons
  <2>4. QED
    BY <2>2, <2>3
<1>7. ASSUME NEW a \in Action
      PROVE  Says(toPage', a, heard'[1][a]) /\ (For(toPage', a) = {} => Shows(a)')
  <2>1. /\ Says(toPage', a, heard[1][a])
        /\ For(toPage, a) = {} => For(toPage', a) = {}
        /\ For(toPage', a) = {} /\ For(toPage, a) # {} =>
             /\ h \in ButtonCall /\ h.name = a
             /\ heard[1][a] = IF h.available THEN "available" ELSE "withdrawn"
    BY <1>1, <1>2, ForTail DEF ButtonsInv
  <2>2. Says(toPage', a, heard'[1][a])
    BY <1>1, <2>1
  <2>3. ASSUME For(toPage', a) = {} PROVE Shows(a)'
    <3>1. CASE For(toPage, a) # {}
      BY <1>6, <2>1, <2>3, <3>1
    <3>2. CASE For(toPage, a) = {}
      <4>1. Shows(a)
        BY <1>2, <3>2 DEF ButtonsInv
      <4>2. h \in ButtonCall => a # h.name
        <5>1. 1 \in DOMAIN toPage /\ h = toPage[1]
          BY <1>1
        <5>2. QED
          BY <3>2, <5>1 DEF For
      <4>3. QED
        BY <1>3, <1>5, <4>1, <4>2
    <3>3. QED
      BY <3>1, <3>2
  <2>4. QED
    BY <2>2, <2>3
<1>8. QED
  BY <1>1, <1>2, <1>7 DEF ButtonsInv

LEMMA ButtonsStepInv == FormInv /\ ButtonsInv /\ [Next]_vars => ButtonsInv'
<1> SUFFICES ASSUME FormInv, ButtonsInv, [Next]_vars PROVE ButtonsInv'
  OBVIOUS
<1>1. ASSUME UNCHANGED <<heard, link, toPage, hidden, disabled>> PROVE ButtonsInv'
  BY <1>1 DEF ButtonsInv, Says, Shows
<1>2. CASE OpenWebSocket
  <2>1. /\ link = "CONNECTING" /\ link' = "OPEN" /\ UNCHANGED heard
        /\ \A a \in Action : heard[1][a] = "unknown"
    BY <1>2 DEF OpenWebSocket, machineVars, ButtonsInv
  <2>2. toPage' \in Seq(ItemCall)
    BY <1>2, OpenKeeps
  <2>3. ASSUME NEW a \in Action PROVE For(toPage', a) = {}
    BY <2>2, ItemCallIsNoButtonCall DEF For
  <2>4. QED
    BY <2>1, <2>3 DEF ButtonsInv, Says, Shows
<1>3. CASE CloseWebSocket
  BY <1>3 DEF CloseWebSocket, ButtonsInv
<1>4. ASSUME NEW A, OnServer(A), UNCHANGED <<heard, toPage>> PROVE ButtonsInv'
  BY <1>1, <1>4 DEF OnServer, pageVars
<1>5. CASE StartMachine \/ AdvanceMachine \/ AnswerCall \/ EndCall
  BY <1>4, <1>5 DEF StartMachine, AdvanceMachine, AnswerCall, EndCall, OnServer, Start, Advance,
                    Answer, Transition, SetState, Enter, Told, Return
<1>6. ASSUME NEW k \in 1..Listeners, TellListener(k) PROVE ButtonsInv'
  BY <1>6, TellButtons
<1>7. ASSUME NEW i \in Item, ItemStep(i) PROVE ButtonsInv'
  <2>1. SendsItemCalls /\ UNCHANGED <<machineVars, link, pageVars>>
    BY <1>7, ItemStepSends DEF FormInv
  <2>2. QED
    BY <2>1, SendItemCallsButtons DEF machineVars, pageVars
<1>8. CASE Receive
  <2> DEFINE m == Head(toServer)
  <2>1. m \in ToServer /\ UNCHANGED <<link, pageVars>>
    BY <1>8 DEF Receive, FormInv
  <2>2. CASE m.command = "input" /\ m.item \in built
    <3>1. m.item \in Item /\ m.value \in Text
      BY <2>1, <2>2 DEF ToServer
    <3>2. SetSource(m.item, m.value) /\ UNCHANGED machineVars
      BY <1>8, <2>2 DEF Receive
    <3>3. SendsItemCalls
      BY <3>1, <3>2, SetSourceSends DEF FormInv
    <3>4. QED
      BY <2>1, <3>2, <3>3, SendItemCallsButtons DEF machineVars, pageVars
  <2>3. CASE ~(m.command = "input" /\ m.item \in built)
    <3>1. UNCHANGED <<heard, toPage>>
      BY <1>8, <2>1, <2>3 DEF Receive, machineVars, InvokeAction, SetState, Enter
    <3>2. QED
      BY <1>1, <2>1, <3>1 DEF pageVars
  <2>4. QED
    BY <2>2, <2>3
<1>9. CASE Deliver
  BY <1>9, DeliverButtons
<1>10. ASSUME NEW n \in 1..Cardinality(Item), Type(n) PROVE ButtonsInv'
  BY <1>1, <1>10 DEF Type, machineVars
<1>11. ASSUME NEW a \in Action, Click(a) PROVE ButtonsInv'
  BY <1>1, <1>11 DEF Click, machineVars, pageVars
<1>12. ASSUME NEW i \in Item, TypeLoose(i) PROVE ButtonsInv'
  BY <1>1, <1>12 DEF TypeLoose, machineVars, pageVars
<1>13. CASE UNCHANGED vars
  BY <1>1, <1>13 DEF vars, machineVars, pageVars
<1>14. QED
  BY <1>2, <1>3, <1>5, <1>6, <1>7, <1>8, <1>9, <1>10, <1>11, <1>12, <1>13 DEF Next

(* The buttons of the page agree with the actions the server's state offers *)
(* once nothing is under way and no call of the machine is in progress.     *)
THEOREM FormButtonsInStep == Spec => []ButtonsInStep
<1>1. Init => ButtonsInv
  <2>1. Init => \A a \in Action : heard[1][a] = "unknown"
    BY StateMachineAssumption DEF Init, MachineInit
  <2>2. QED
    BY <2>1 DEF Init, ButtonsInv, Says, Shows, For
<1>2. FormInv /\ ButtonsInv => ButtonsInStep
  <2> SUFFICES ASSUME FormInv, ButtonsInv, Settled, calls = <<>>, state # NoState,
                      NEW a \in Action
               PROVE  /\ a \in hidden <=> a \notin available \cup AlwaysShown
                      /\ a # FirstButton => (a \in disabled <=> a \notin available)
    BY DEF ButtonsInStep
  <2>1. heard[1][a] = IF a \in available THEN "available" ELSE "withdrawn"
    BY MachineInvInStep DEF FormInv, FirstInStep, InStep
  <2>2. For(toPage, a) = {}
    BY DEF Settled, For
  <2>3. Shows(a)
    BY <2>2 DEF ButtonsInv, Settled
  <2>4. QED
    BY <2>1, <2>3 DEF Shows
<1>3. FormInv /\ ButtonsInv /\ [Next]_vars => FormInv' /\ ButtonsInv'
  BY FormStepInv, ButtonsStepInv
<1>4. QED
  BY <1>1, <1>2, <1>3, FormInitInv, PTL DEF Spec

------------------------------------------------------------------------------
(* The last element of a sequence that is in a set.                         *)
Among(s, C) == {n \in DOMAIN s : s[n] \in C}

LastIn(s, C, D) == \A n \in Among(s, C) : (\A m \in Among(s, C) : m <= n) => s[n] \in D

LEMMA Concatenated ==
  ASSUME NEW T, NEW s \in Seq(T), NEW r \in Seq(T)
  PROVE  /\ Len(s) \in Nat /\ Len(r) \in Nat /\ s \o r \in Seq(T)
         /\ DOMAIN s = 1..Len(s) /\ DOMAIN r = 1..Len(r)
         /\ Len(s \o r) = Len(s) + Len(r) /\ DOMAIN (s \o r) = 1..(Len(s) + Len(r))
         /\ \A n \in 1..Len(s) : (s \o r)[n] = s[n]
         /\ \A n \in 1..Len(r) : Len(s) + n \in DOMAIN (s \o r) /\ (s \o r)[Len(s) + n] = r[n]
         /\ \A n \in DOMAIN (s \o r) : n \in DOMAIN s \/ n - Len(s) \in DOMAIN r
<1>1. /\ Len(s \o r) = Len(s) + Len(r) /\ s \o r \in Seq(T)
      /\ \A n \in 1..(Len(s) + Len(r)) : (s \o r)[n] = IF n <= Len(s) THEN s[n] ELSE r[n - Len(s)]
  BY ConcatProperties
<1> DEFINE w == s \o r
<1>2. w \in Seq(T) /\ Len(w) = Len(s) + Len(r) /\ Len(s) \in Nat /\ Len(r) \in Nat
  BY <1>1
<1>3. \A n \in 1..(Len(s) + Len(r)) : w[n] = IF n <= Len(s) THEN s[n] ELSE r[n - Len(s)]
  BY <1>1
<1> HIDE DEF w
<1>4. DOMAIN w = 1..(Len(s) + Len(r)) /\ DOMAIN s = 1..Len(s) /\ DOMAIN r = 1..Len(r)
  BY <1>2
<1>5. \A n \in 1..Len(r) : Len(s) + n \in DOMAIN w /\ w[Len(s) + n] = r[n]
  <2> TAKE n \in 1..Len(r)
  <2>1. Len(s) + n \in 1..(Len(s) + Len(r)) /\ ~(Len(s) + n <= Len(s)) /\ (Len(s) + n) - Len(s) = n
    BY <1>2
  <2>2. QED
    BY <1>3, <1>4, <2>1
<1>6. \A n \in 1..Len(s) : w[n] = s[n]
  BY <1>2, <1>3
<1>7. \A n \in DOMAIN w : n \in DOMAIN s \/ n - Len(s) \in DOMAIN r
  BY <1>2, <1>4
<1>8. QED
  BY <1>2, <1>4, <1>5, <1>6, <1>7 DEF w

LEMMA LastOfConcat ==
  ASSUME NEW T, NEW s \in Seq(T), NEW r \in Seq(T), NEW C, NEW D
  PROVE  /\ Among(s \o r, C) = {} <=> Among(s, C) = {} /\ Among(r, C) = {}
         /\ Among(r, C) = {} /\ LastIn(s, C, D) => LastIn(s \o r, C, D)
         /\ Among(r, C) # {} /\ LastIn(r, C, D) => LastIn(s \o r, C, D)
<1> DEFINE w == s \o r
<1>1. /\ Len(s) \in Nat /\ Len(r) \in Nat
      /\ DOMAIN s = 1..Len(s) /\ DOMAIN r = 1..Len(r) /\ DOMAIN w = 1..(Len(s) + Len(r))
      /\ \A n \in 1..Len(s) : w[n] = s[n]
      /\ \A n \in 1..Len(r) : Len(s) + n \in DOMAIN w /\ w[Len(s) + n] = r[n]
      /\ \A n \in DOMAIN w : n \in DOMAIN s \/ n - Len(s) \in DOMAIN r
  BY Concatenated
<1> HIDE DEF w
<1>2. \A n \in Among(s, C) : n \in Among(w, C) /\ w[n] = s[n] /\ n \in 1..Len(s)
  BY <1>1 DEF Among
<1>3. \A n \in Among(r, C) : Len(s) + n \in Among(w, C) /\ n \in 1..Len(r)
  BY <1>1 DEF Among
<1>4. ASSUME NEW n \in Among(w, C)
      PROVE  /\ n \in Int
             /\ n \in Among(s, C) \/ (n - Len(s) \in Among(r, C) /\ w[n] = r[n - Len(s)])
  <2>1. n \in DOMAIN w /\ w[n] \in C /\ n \in Int
    BY <1>1 DEF Among
  <2>2. CASE n \in DOMAIN s
    BY <1>1, <2>1, <2>2 DEF Among
  <2>3. CASE n - Len(s) \in DOMAIN r
    <3>1. Len(s) + (n - Len(s)) = n
      BY <1>1, <2>1
    <3>2. w[n] = r[n - Len(s)]
      BY <1>1, <2>3, <3>1
    <3>3. QED
      BY <2>1, <2>3, <3>2 DEF Among
  <2>4. QED
    BY <1>1, <2>1, <2>2, <2>3
<1>5. Among(w, C) = {} <=> Among(s, C) = {} /\ Among(r, C) = {}
  BY <1>2, <1>3, <1>4
<1>6. ASSUME Among(r, C) = {}, LastIn(s, C, D) PROVE LastIn(w, C, D)
  <2>1. Among(w, C) = Among(s, C) /\ \A n \in Among(s, C) : w[n] = s[n]
    BY <1>2, <1>4, <1>6
  <2>2. QED
    BY <1>6, <2>1 DEF LastIn
<1>7. ASSUME Among(r, C) # {}, LastIn(r, C, D) PROVE LastIn(w, C, D)
  <2> SUFFICES ASSUME NEW n \in Among(w, C), \A m \in Among(w, C) : m <= n PROVE w[n] \in D
    BY DEF LastIn
  <2>1. PICK k \in Among(r, C) : TRUE
    BY <1>7
  <2>2. Len(s) + k <= n /\ k >= 1 /\ k \in Int /\ n \in Int
    BY <1>1, <1>3, <1>4, <2>1
  <2>3. n \notin Among(s, C)
    BY <1>1, <1>2, <2>2
  <2>4. n - Len(s) \in Among(r, C) /\ w[n] = r[n - Len(s)]
    BY <1>4, <2>3
  <2>5. ASSUME NEW m \in Among(r, C) PROVE m <= n - Len(s)
    BY <1>1, <1>3, <2>2
  <2>6. QED
    BY <1>7, <2>4, <2>5 DEF LastIn
<1>8. QED
  BY <1>5, <1>6, <1>7 DEF w

LEMMA Rest ==
  ASSUME NEW T, NEW s \in Seq(T), s # <<>>
  PROVE  /\ Len(s) \in Nat \ {0} /\ DOMAIN s = 1..Len(s)
         /\ DOMAIN Tail(s) = 1..(Len(s) - 1) /\ Len(Tail(s)) = Len(s) - 1
         /\ Head(s) = s[1] /\ Head(s) \in T
         /\ \A n \in 1..(Len(s) - 1) : Tail(s)[n] = s[n + 1]
OBVIOUS

LEMMA LastOfTail ==
  ASSUME NEW T, NEW s \in Seq(T), s # <<>>, NEW C, NEW D
  PROVE  /\ LastIn(s, C, D) => LastIn(Tail(s), C, D)
         /\ Among(s, C) = {} <=> Head(s) \notin C /\ Among(Tail(s), C) = {}
         /\ LastIn(s, C, D) /\ Among(Tail(s), C) = {} /\ Head(s) \in C => Head(s) \in D
<1> DEFINE r == Tail(s)
<1>1. /\ Len(s) \in Nat \ {0} /\ DOMAIN s = 1..Len(s) /\ DOMAIN r = 1..(Len(s) - 1)
      /\ Head(s) = s[1] /\ \A n \in 1..(Len(s) - 1) : r[n] = s[n + 1]
  BY Rest
<1> HIDE DEF r
<1>2. \A n \in Among(r, C) : n \in Int /\ n >= 1 /\ n + 1 \in Among(s, C) /\ r[n] = s[n + 1]
  BY <1>1 DEF Among
<1>3. ASSUME NEW n \in Among(s, C), n # 1 PROVE n \in Int /\ n - 1 \in Among(r, C)
  <2>1. n \in DOMAIN s /\ s[n] \in C /\ n \in Int
    BY <1>1 DEF Among
  <2>2. n - 1 \in 1..(Len(s) - 1) /\ (n - 1) + 1 = n
    BY <1>1, <1>3, <2>1
  <2>3. QED
    BY <1>1, <2>1, <2>2 DEF Among
<1>4. 1 \in Among(s, C) <=> Head(s) \in C
  BY <1>1 DEF Among
<1>5. ASSUME LastIn(s, C, D) PROVE LastIn(r, C, D)
  <2> SUFFICES ASSUME NEW n \in Among(r, C), \A m \in Among(r, C) : m <= n PROVE r[n] \in D
    BY DEF LastIn
  <2>1. n \in Int /\ n >= 1 /\ n + 1 \in Among(s, C) /\ r[n] = s[n + 1]
    BY <1>2
  <2>2. ASSUME NEW m \in Among(s, C) PROVE m <= n + 1
    <3>1. CASE m = 1
      BY <2>1, <3>1
    <3>2. CASE m # 1
      BY <1>3, <2>1, <3>2
    <3>3. QED
      BY <3>1, <3>2
  <2>3. QED
    BY <1>5, <2>1, <2>2 DEF LastIn
<1>6. Among(s, C) = {} <=> Head(s) \notin C /\ Among(r, C) = {}
  BY <1>2, <1>3, <1>4
<1>7. ASSUME LastIn(s, C, D), Among(r, C) = {}, Head(s) \in C PROVE Head(s) \in D
  <2>1. \A n \in Among(s, C) : n = 1
    BY <1>3, <1>7
  <2>2. 1 \in Among(s, C)
    BY <1>4, <1>7
  <2>3. QED
    BY <1>1, <1>7, <2>1, <2>2 DEF LastIn
<1>8. QED
  BY <1>5, <1>6, <1>7 DEF r

LEMMA SetToSeqRange ==
  ASSUME NEW S, IsFiniteSet(S)
  PROVE  /\ SetToSeq(S) \in Seq(S)
         /\ \A x \in S : \E n \in DOMAIN SetToSeq(S) : SetToSeq(S)[n] = x
         /\ \A m, n \in DOMAIN SetToSeq(S) : SetToSeq(S)[m] = SetToSeq(S)[n] => m = n
<1> DEFINE N == 1..Cardinality(S)
           f == SetToSeq(S)
<1>1. Cardinality(S) \in Nat /\ ExistsBijection(N, S)
  BY FS_CardinalityType
<1>2. \E g \in [N -> S] : IsInjective(g)
  BY <1>1 DEF ExistsBijection, Bijection, Injection
<1>3. f \in [N -> S] /\ IsInjective(f)
  BY <1>2 DEF SetToSeq
<1> HIDE DEF f
<1>4. f \in Injection(N, S)
  BY <1>3 DEF Injection
<1>5. Cardinality(N) = Cardinality(S)
  BY <1>1, FS_Interval
<1>6. f \in Surjection(N, S)
  BY <1>4, <1>5, FS_Injection
<1>7. \A x \in S : \E n \in N : f[n] = x
  BY <1>6 DEF Surjection
<1>8. f \in Seq(S)
  BY <1>1, <1>3
<1>9. DOMAIN f = N
  BY <1>3
<1>10. \A m, n \in DOMAIN f : f[m] = f[n] => m = n
  BY <1>3 DEF IsInjective
<1>11. QED
  BY <1>7, <1>8, <1>9, <1>10 DEF f

------------------------------------------------------------------------------
(* What a call about an item does to how the page shows it.                 *)
Gone    == "GONE"
Torn    == "TORN"
NoRow   == [mode |-> Gone, status |-> FALSE]
TornRow == [mode |-> Torn, status |-> FALSE]
Bare    == {NoRow, TornRow}
Looks   == [mode : Mode \cup {Gone, Torn}, status : BOOLEAN]

Effect(m, v) ==
  IF m.call \in {"deleteNodes", "replaceNode"} THEN NoRow
  ELSE IF m.call = "syncChildren"
       THEN IF v = NoRow THEN [mode |-> m.mode, status |-> FALSE] ELSE TornRow
  ELSE IF v \in Bare THEN v
  ELSE [mode   |-> IF m.call = "setEntryMode" THEN m.mode ELSE v.mode,
        status |-> IF m.call \in {"setValue", "setEntryMode"} THEN v.status
                                                              ELSE m.call = "noteError"]

Calls(i) == {m \in ItemCall : m.item = i}

(* The calls about i in s, in their order, lead from look u to look w.      *)
Leads(s, i, u, w) ==
  \E f \in [0..Len(s) -> Looks] :
    /\ f[0] = u /\ f[Len(s)] = w
    /\ \A n \in 1..Len(s) : f[n] = IF s[n] \in Calls(i) THEN Effect(s[n], f[n - 1]) ELSE f[n - 1]

LEMMA LookTypes ==
  /\ NoRow \in Looks /\ TornRow \in Looks /\ NoRow # TornRow
  /\ NoRow \in Bare /\ TornRow \in Bare /\ \A v \in Bare : v = NoRow \/ v = TornRow
  /\ \A x \in Mode, on \in BOOLEAN :
       /\ [mode |-> x, status |-> on] \in Looks /\ [mode |-> x, status |-> on] \notin Bare
       /\ [mode |-> x, status |-> on].mode = x
       /\ [mode |-> x, status |-> on].status = on
  /\ \A v \in Looks : /\ v = [mode |-> v.mode, status |-> v.status]
                      /\ v.mode \in Mode \cup {Gone, Torn} /\ v.status \in BOOLEAN
<1>1. Gone \notin Mode /\ Torn \notin Mode /\ Gone # Torn
  BY DEF Mode, Gone, Torn
<1>2. NoRow.mode = Gone /\ TornRow.mode = Torn /\ NoRow \in Looks /\ TornRow \in Looks
  BY DEF NoRow, TornRow, Looks
<1>3. ASSUME NEW x \in Mode, NEW on \in BOOLEAN
      PROVE  /\ [mode |-> x, status |-> on] \in Looks
             /\ [mode |-> x, status |-> on].mode = x
             /\ [mode |-> x, status |-> on].status = on
  BY DEF Looks
<1>4. QED
  BY <1>1, <1>2, <1>3 DEF Bare, Looks

LEMMA EffectType ==
  ASSUME NEW m \in ItemCall, NEW v \in Looks
  PROVE  Effect(m, v) \in Looks
<1>1. m.call \in {"syncChildren", "setEntryMode"} => m.mode \in Mode
  BY DEF ItemCall
<1>2. CASE m.call \in {"deleteNodes", "replaceNode"}
  BY <1>2, LookTypes DEF Effect
<1>3. CASE m.call = "syncChildren"
  BY <1>1, <1>3, LookTypes DEF Effect
<1>4. CASE m.call \notin {"deleteNodes", "replaceNode", "syncChildren"} /\ v \in Bare
  BY <1>4 DEF Effect
<1>5. CASE m.call \notin {"deleteNodes", "replaceNode", "syncChildren"} /\ v \notin Bare
  <2> DEFINE x == IF m.call = "setEntryMode" THEN m.mode ELSE v.mode
             on == IF m.call \in {"setValue", "setEntryMode"} THEN v.status ELSE m.call = "noteError"
  <2>1. x \in Mode \cup {Gone, Torn} /\ on \in BOOLEAN
    BY <1>1, LookTypes
  <2>2. Effect(m, v) = [mode |-> x, status |-> on]
    BY <1>5 DEF Effect
  <2> HIDE DEF x, on
  <2>3. QED
    BY <2>1, <2>2 DEF Looks
<1>6. QED
  BY <1>2, <1>3, <1>4, <1>5

(* Whatever is under way leads somewhere. *)
LEMMA LeadsSomewhere ==
  ASSUME NEW s \in Seq(ToPage), NEW i, NEW u \in Looks
  PROVE  \E w \in Looks : Leads(s, i, u, w)
<1> DEFINE Follows(f, n) ==
             \A k \in 1..n : f[k] = IF s[k] \in Calls(i) THEN Effect(s[k], f[k - 1]) ELSE f[k - 1]
           Reached(n) == \E f \in [0..n -> Looks] : f[0] = u /\ Follows(f, n)
           T == {n \in 0..Len(s) : ~Reached(n)}
<1>1. Len(s) \in Nat
  OBVIOUS
<1>2. Reached(0)
  <2> DEFINE f == [n \in 0..0 |-> u]
  <2>1. f \in [0..0 -> Looks] /\ f[0] = u /\ \A k \in 1..0 : FALSE
    OBVIOUS
  <2> HIDE DEF f
  <2>2. QED
    BY <2>1
<1>3. ASSUME NEW n \in 1..Len(s), Reached(n - 1) PROVE Reached(n)
  <2>1. PICK f \in [0..(n - 1) -> Looks] : f[0] = u /\ Follows(f, n - 1)
    BY <1>3
  <2> DEFINE v == IF s[n] \in Calls(i) THEN Effect(s[n], f[n - 1]) ELSE f[n - 1]
             g == [k \in 0..n |-> IF k = n THEN v ELSE f[k]]
  <2>2. n - 1 \in 0..(n - 1) /\ f[n - 1] \in Looks
    BY <1>1
  <2>3. v \in Looks
    BY <2>2, EffectType DEF Calls
  <2> HIDE DEF v
  <2>4. \A k \in 0..n : k # n => k \in 0..(n - 1)
    BY <1>1
  <2>5. g \in [0..n -> Looks]
    BY <2>3, <2>4
  <2>6. /\ 0 \in 0..n /\ n # 0 /\ n \in 0..n
        /\ \A k \in 1..n : /\ k \in 0..n /\ k - 1 \in 0..n /\ k - 1 # n
                           /\ k # n => k \in 1..(n - 1)
    BY <1>1
  <2>7. g[0] = u /\ g[n] = v /\ \A k \in 1..n : g[k - 1] = f[k - 1] /\ (k # n => g[k] = f[k])
    BY <2>1, <2>6
  <2>8. ASSUME NEW k \in 1..n
        PROVE  g[k] = IF s[k] \in Calls(i) THEN Effect(s[k], g[k - 1]) ELSE g[k - 1]
    <3>1. CASE k = n
      BY <2>7, <3>1 DEF v
    <3>2. CASE k # n
      BY <2>1, <2>6, <2>7, <3>2
    <3>3. QED
      BY <3>1, <3>2
  <2> HIDE DEF g
  <2>9. QED
    BY <2>5, <2>7, <2>8
<1> HIDE DEF Reached
<1>4. T = {}
  <2> SUFFICES ASSUME T # {} PROVE FALSE
    OBVIOUS
  <2>1. T \in SUBSET Nat
    BY <1>1
  <2>2. PICK n \in T : \A k \in T : n <= k
    BY <2>1, NatMinimum
  <2>3. n \in 1..Len(s) /\ n - 1 \in 0..Len(s)
    BY <1>1, <1>2, <2>2
  <2>4. Reached(n - 1)
    BY <2>2, <2>3
  <2>5. QED
    BY <1>3, <2>2, <2>3, <2>4
<1>5. Reached(Len(s))
  BY <1>1, <1>4
<1> USE DEF Reached
<1>6. PICK f \in [0..Len(s) -> Looks] : f[0] = u /\ Follows(f, Len(s))
  BY <1>5
<1>7. f[Len(s)] \in Looks
  BY <1>1
<1>8. Leads(s, i, u, f[Len(s)])
  BY <1>6 DEF Leads
<1>9. QED
  BY <1>7, <1>8

LEMMA LeadsNowhere ==
  ASSUME NEW i, NEW u \in Looks, NEW w
  PROVE  Leads(<<>>, i, u, w) <=> u = w
<1> DEFINE e == <<>>
<1>1. Len(e) = 0
  OBVIOUS
<1> HIDE DEF e
<1>2. ASSUME Leads(e, i, u, w) PROVE u = w
  BY <1>1, <1>2 DEF Leads
<1>3. ASSUME u = w PROVE Leads(e, i, u, w)
  <2> DEFINE f == [n \in 0..0 |-> u]
  <2>1. f \in [0..Len(e) -> Looks] /\ f[0] = u /\ f[Len(e)] = w
    BY <1>1, <1>3
  <2>2. 1..Len(e) = {}
    BY <1>1
  <2>3. QED
    BY <2>1, <2>2 DEF Leads
<1>4. QED
  BY <1>2, <1>3 DEF e

(* Calls about i that all say the same: one, or what saying again does not  *)
(* change.                                                                  *)
LEMMA LeadsSame ==
  ASSUME NEW s \in Seq(ToPage), NEW i, NEW u \in Looks, NEW e \in ItemCall,
         \A n \in Among(s, Calls(i)) : s[n] = e,
         \/ Effect(e, Effect(e, u)) = Effect(e, u)
         \/ \A m, n \in Among(s, Calls(i)) : m = n
  PROVE  Leads(s, i, u, IF Among(s, Calls(i)) = {} THEN u ELSE Effect(e, u))
<1> DEFINE K == Among(s, Calls(i))
           f == [n \in 0..Len(s) |-> IF \E k \in K : k <= n THEN Effect(e, u) ELSE u]
<1>1. Len(s) \in Nat /\ DOMAIN s = 1..Len(s)
  OBVIOUS
<1>2. Effect(e, u) \in Looks
  BY EffectType
<1>3. f \in [0..Len(s) -> Looks]
  BY <1>2
<1>4. \A k \in K : k \in 1..Len(s)
  BY <1>1 DEF Among
<1>5. f[0] = u
  BY <1>1, <1>4
<1>6. f[Len(s)] = IF K = {} THEN u ELSE Effect(e, u)
  BY <1>1, <1>4
<1>7. ASSUME NEW n \in 1..Len(s)
      PROVE  f[n] = IF s[n] \in Calls(i) THEN Effect(s[n], f[n - 1]) ELSE f[n - 1]
  <2>1. n \in 0..Len(s) /\ n - 1 \in 0..Len(s) /\ n \in DOMAIN s
    BY <1>1
  <2>2. CASE n \in K
    <3>1. s[n] = e /\ s[n] \in Calls(i)
      BY <2>2 DEF Among
    <3>2. f[n] = Effect(e, u)
      BY <2>1, <2>2
    <3>3. f[n - 1] \in {u, Effect(e, u)}
      BY <2>1
    <3>4. CASE Effect(e, Effect(e, u)) = Effect(e, u)
      BY <3>1, <3>2, <3>3, <3>4
    <3>5. CASE \A k \in K : k = n
      <4>1. f[n - 1] = u
        BY <2>1, <3>5
      <4>2. QED
        BY <3>1, <3>2, <4>1
    <3>6. QED
      BY <2>2, <3>4, <3>5
  <2>3. CASE n \notin K
    <3>1. s[n] \notin Calls(i)
      BY <2>1, <2>3 DEF Among
    <3>2. (\E k \in K : k <= n) <=> (\E k \in K : k <= n - 1)
      BY <1>4, <2>3
    <3>3. f[n] = f[n - 1]
      BY <2>1, <3>2
    <3>4. QED
      BY <3>1, <3>3
  <2>4. QED
    BY <2>2, <2>3
<1> HIDE DEF f
<1>8. QED
  BY <1>3, <1>5, <1>6, <1>7 DEF Leads

LEMMA LeadsConcat ==
  ASSUME NEW s \in Seq(ToPage), NEW r \in Seq(ToPage), NEW i, NEW u, NEW v, NEW w,
         Leads(s, i, u, v), Leads(r, i, v, w)
  PROVE  Leads(s \o r, i, u, w)
<1> DEFINE c == s \o r
<1>1. /\ Len(s) \in Nat /\ Len(r) \in Nat /\ Len(c) = Len(s) + Len(r)
      /\ \A n \in 1..Len(s) : c[n] = s[n]
      /\ \A n \in 1..Len(r) : c[Len(s) + n] = r[n]
  BY Concatenated
<1> HIDE DEF c
<1>2. PICK f \in [0..Len(s) -> Looks] :
    /\ f[0] = u /\ f[Len(s)] = v
    /\ \A n \in 1..Len(s) : f[n] = IF s[n] \in Calls(i) THEN Effect(s[n], f[n - 1]) ELSE f[n - 1]
  BY DEF Leads
<1>3. PICK g \in [0..Len(r) -> Looks] :
    /\ g[0] = v /\ g[Len(r)] = w
    /\ \A n \in 1..Len(r) : g[n] = IF r[n] \in Calls(i) THEN Effect(r[n], g[n - 1]) ELSE g[n - 1]
  BY DEF Leads
<1> DEFINE h == [n \in 0..Len(c) |-> IF n <= Len(s) THEN f[n] ELSE g[n - Len(s)]]
<1>4. h \in [0..Len(c) -> Looks]
  BY <1>1
<1>5. h[0] = u /\ h[Len(c)] = w
  <2>1. 0 \in 0..Len(c) /\ 0 <= Len(s) /\ Len(c) \in 0..Len(c)
    BY <1>1
  <2>2. h[0] = f[0]
    BY <2>1
  <2>3. CASE Len(r) = 0
    <3>1. Len(c) <= Len(s) /\ Len(c) = Len(s)
      BY <1>1, <2>3
    <3>2. h[Len(c)] = f[Len(s)]
      BY <2>1, <3>1
    <3>3. QED
      BY <1>2, <1>3, <2>2, <2>3, <3>2
  <2>4. CASE Len(r) # 0
    <3>1. ~(Len(c) <= Len(s)) /\ Len(c) - Len(s) = Len(r)
      BY <1>1, <2>4
    <3>2. h[Len(c)] = g[Len(r)]
      BY <2>1, <3>1
    <3>3. QED
      BY <1>2, <1>3, <2>2, <3>2
  <2>5. QED
    BY <2>3, <2>4
<1>6. ASSUME NEW n \in 1..Len(c)
      PROVE  h[n] = IF c[n] \in Calls(i) THEN Effect(c[n], h[n - 1]) ELSE h[n - 1]
  <2>1. CASE n <= Len(s)
    <3>1. n \in 1..Len(s) /\ n \in 0..Len(c) /\ n - 1 \in 0..Len(c) /\ n - 1 <= Len(s)
      BY <1>1, <2>1
    <3>2. c[n] = s[n]
      BY <1>1, <3>1
    <3>3. h[n] = f[n] /\ h[n - 1] = f[n - 1]
      BY <2>1, <3>1
    <3>4. QED
      BY <1>2, <3>1, <3>2, <3>3
  <2>2. CASE ~(n <= Len(s))
    <3> DEFINE k == n - Len(s)
    <3>1. k \in 1..Len(r) /\ Len(s) + k = n /\ n \in 0..Len(c) /\ n - 1 \in 0..Len(c)
      BY <1>1, <2>2
    <3>2. h[n] = g[k] /\ c[n] = r[k]
      BY <1>1, <2>2, <3>1
    <3>3. h[n - 1] = g[k - 1]
      <4>1. CASE k = 1
        <5>1. n - 1 = Len(s) /\ k - 1 = 0
          BY <1>1, <4>1
        <5>2. h[n - 1] = f[Len(s)]
          BY <1>1, <3>1, <5>1
        <5>3. QED
          BY <1>2, <1>3, <5>1, <5>2
      <4>2. CASE k # 1
        <5>0. n \in Int /\ Len(s) \in Int /\ k \in Int /\ k >= 1 /\ k # 1 /\ n = Len(s) + k
          BY <1>1, <3>1, <4>2
        <5> HIDE DEF k, h, c
        <5>1. ~(n - 1 <= Len(s)) /\ (n - 1) - Len(s) = k - 1
          BY <5>0
        <5> USE DEF h
        <5>2. QED
          BY <3>1, <5>1
      <4>3. QED
        BY <4>1, <4>2
    <3> HIDE DEF h, k
    <3>4. QED
      BY <1>3, <3>1, <3>2, <3>3
  <2>3. QED
    BY <2>1, <2>2
<1> HIDE DEF h
<1>7. QED
  BY <1>4, <1>5, <1>6 DEF Leads, c

LEMMA LeadsTail ==
  ASSUME NEW s \in Seq(ToPage), s # <<>>, NEW i, NEW u, NEW w, Leads(s, i, u, w)
  PROVE  Leads(Tail(s), i, IF Head(s) \in Calls(i) THEN Effect(Head(s), u) ELSE u, w)
<1> DEFINE r == Tail(s)
<1>1. /\ Len(s) \in Nat \ {0} /\ Len(r) = Len(s) - 1 /\ Head(s) = s[1]
      /\ \A n \in 1..(Len(s) - 1) : r[n] = s[n + 1]
  BY Rest
<1> HIDE DEF r
<1>2. PICK f \in [0..Len(s) -> Looks] :
    /\ f[0] = u /\ f[Len(s)] = w
    /\ \A n \in 1..Len(s) : f[n] = IF s[n] \in Calls(i) THEN Effect(s[n], f[n - 1]) ELSE f[n - 1]
  BY DEF Leads
<1> DEFINE g == [n \in 0..Len(r) |-> f[n + 1]]
<1>3. g \in [0..Len(r) -> Looks]
  BY <1>1
<1>4. g[0] = IF s[1] \in Calls(i) THEN Effect(s[1], u) ELSE u
  <2>1. 1 \in 1..Len(s) /\ 1 - 1 = 0 /\ g[0] = f[1]
    BY <1>1
  <2>2. QED
    BY <1>2, <2>1
<1>5. g[Len(r)] = w
  BY <1>1, <1>2
<1>6. ASSUME NEW n \in 1..Len(r)
      PROVE  g[n] = IF r[n] \in Calls(i) THEN Effect(r[n], g[n - 1]) ELSE g[n - 1]
  <2>1. n + 1 \in 1..Len(s) /\ (n + 1) - 1 = n /\ g[n] = f[n + 1] /\ g[n - 1] = f[n] /\ r[n] = s[n + 1]
    BY <1>1
  <2>2. QED
    BY <1>2, <2>1
<1> HIDE DEF g
<1>7. QED
  BY <1>1, <1>3, <1>4, <1>5, <1>6 DEF Leads, r

(* One call. *)
LEMMA LeadsOne ==
  ASSUME NEW i, NEW u \in Looks, NEW m \in ItemCall
  PROVE  Leads(<<m>>, i, u, IF m \in Calls(i) THEN Effect(m, u) ELSE u)
<1> DEFINE s == <<m>>
           w == IF m \in Calls(i) THEN Effect(m, u) ELSE u
           f == [n \in 0..1 |-> IF n = 0 THEN u ELSE w]
<1>1. Len(s) = 1 /\ s[1] = m
  OBVIOUS
<1>2. w \in Looks
  BY EffectType
<1> HIDE DEF s
<1>3. f \in [0..1 -> Looks] /\ f[0] = u /\ f[1] = w
  BY <1>2
<1>4. f[1] = IF s[1] \in Calls(i) THEN Effect(s[1], f[0]) ELSE f[0]
  BY <1>1, <1>3
<1> HIDE DEF f
<1>5. \A n \in 1..1 : n = 1 /\ n - 1 = 0
  OBVIOUS
<1>6. QED
  BY <1>1, <1>3, <1>4, <1>5 DEF Leads, s

(* What is about other items leaves an item as it is. *)
LEMMA LeadsAway ==
  ASSUME NEW s \in Seq(ToPage), NEW i \in Item, NEW u \in Looks, Among(s, Calls(i)) = {}
  PROVE  Leads(s, i, u, u)
<1> DEFINE e == OfItem("deleteNodes", i)
<1>1. e \in ItemCall /\ e.call = "deleteNodes"
  BY ItemCallType DEF OfItem
<1> HIDE DEF e
<1>2. Effect(e, u) = NoRow /\ Effect(e, Effect(e, u)) = NoRow
  BY <1>1 DEF Effect
<1>3. QED
  BY <1>1, <1>2, LeadsSame

------------------------------------------------------------------------------
(* The rows of an item, and how it looks.                                   *)
Shown(s, i) == {s[n] : n \in {k \in DOMAIN s : s[k].item = i}}

LookOf(r) == IF r.cells THEN [mode |-> r.mode, status |-> r.status] ELSE TornRow

Look(s, i) == IF Shown(s, i) = {} THEN NoRow ELSE LookOf(CHOOSE r \in Shown(s, i) : TRUE)

LEMMA LookIsOfRow ==
  ASSUME NEW s, RowsOK(s), NEW i
  PROVE  /\ Look(s, i) \in Looks /\ (Look(s, i) = NoRow <=> Shown(s, i) = {})
         /\ \A r \in Shown(s, i) : /\ r \in Row /\ r.item = i /\ Look(s, i) = LookOf(r)
                                   /\ Shown(s, i) = {r}
<1>1. ASSUME NEW r \in Shown(s, i)
      PROVE  r \in Row /\ r.item = i /\ Shown(s, i) = {r}
  <2>1. PICK n \in DOMAIN s : s[n].item = i /\ r = s[n]
    BY DEF Shown
  <2>2. \A k \in DOMAIN s : s[k].item = i => k = n
    BY <2>1 DEF RowsOK, Unique
  <2>3. Shown(s, i) = {s[n]}
    BY <2>1, <2>2 DEF Shown
  <2>4. QED
    BY <2>1, <2>3, RowOrders
<1>2. ASSUME NEW r \in Row PROVE LookOf(r) \in Looks /\ LookOf(r) # NoRow
  <2>1. r.mode \in Mode /\ r.status \in BOOLEAN
    BY DEF Row
  <2>2. CASE r.cells
    BY <2>1, <2>2, LookTypes DEF LookOf
  <2>3. CASE ~r.cells
    BY <2>3, LookTypes DEF LookOf
  <2>4. QED
    BY <2>2, <2>3
<1>3. ASSUME NEW r \in Shown(s, i) PROVE Look(s, i) = LookOf(r)
  <2>1. Shown(s, i) = {r}
    BY <1>1
  <2>2. (CHOOSE q \in Shown(s, i) : TRUE) = r
    BY <2>1
  <2>3. QED
    BY <2>1, <2>2 DEF Look
<1>4. CASE Shown(s, i) = {}
  BY <1>4, LookTypes DEF Look
<1>5. CASE Shown(s, i) # {}
  <2>1. PICK r \in Shown(s, i) : TRUE
    BY <1>5
  <2>2. QED
    BY <1>1, <1>2, <1>3, <1>5, <2>1
<1>6. QED
  BY <1>4, <1>5, <1>1, <1>3

LEMMA ShownInserted ==
  ASSUME NEW s \in Seq(Row), NEW e \in Row, NEW p \in 1..(Len(s) + 1), NEW j
  PROVE  Shown(InsertAt(s, p, e), j) = IF e.item = j THEN Shown(s, j) \cup {e} ELSE Shown(s, j)
<1> DEFINE r == InsertAt(s, p, e)
<1>1. r \in Seq(Row) /\ Len(r) = Len(s) + 1 /\ Len(s) \in Nat /\ p \in Nat
      /\ \A n \in 1..(Len(s) + 1) : r[n] = IF n < p THEN s[n] ELSE IF n = p THEN e ELSE s[n - 1]
  BY Inserted
<1> HIDE DEF r
<1>2. DOMAIN r = 1..(Len(s) + 1) /\ DOMAIN s = 1..Len(s)
  BY <1>1
<1>3. \A n \in DOMAIN r : r[n] = e \/ \E k \in DOMAIN s : r[n] = s[k]
  <2> TAKE n \in DOMAIN r
  <2>1. CASE n < p
    BY <1>1, <1>2, <2>1
  <2>2. CASE n = p
    BY <1>1, <1>2, <2>2
  <2>3. CASE n > p
    <3>1. n - 1 \in DOMAIN s /\ r[n] = s[n - 1]
      BY <1>1, <1>2, <2>3
    <3>2. QED
      BY <3>1
  <2>4. QED
    BY <1>1, <1>2, <2>1, <2>2, <2>3
<1>4. p \in DOMAIN r /\ r[p] = e
  BY <1>1, <1>2
<1>5. \A k \in DOMAIN s : \E n \in DOMAIN r : r[n] = s[k]
  <2> TAKE k \in DOMAIN s
  <2>1. CASE k < p
    <3>1. k \in DOMAIN r /\ r[k] = s[k]
      BY <1>1, <1>2, <2>1
    <3>2. QED
      BY <3>1
  <2>2. CASE ~(k < p)
    <3>1. k + 1 \in DOMAIN r /\ r[k + 1] = s[k]
      BY <1>1, <1>2, <2>2
    <3>2. QED
      BY <3>1
  <2>3. QED
    BY <2>1, <2>2
<1>6. \A x : x \in Shown(r, j) <=> \E n \in DOMAIN r : r[n].item = j /\ x = r[n]
  BY DEF Shown
<1>7. \A x : x \in Shown(s, j) <=> \E n \in DOMAIN s : s[n].item = j /\ x = s[n]
  BY DEF Shown
<1>8. \A x : x \in Shown(r, j) <=> x \in Shown(s, j) \/ (x = e /\ e.item = j)
  BY <1>3, <1>4, <1>5, <1>6, <1>7
<1>9. CASE e.item = j
  <2>1. Shown(r, j) = Shown(s, j) \cup {e}
    BY <1>8, <1>9
  <2>2. QED
    BY <1>9, <2>1 DEF r
<1>10. CASE e.item # j
  <2>1. Shown(r, j) = Shown(s, j)
    BY <1>8, <1>10
  <2>2. QED
    BY <1>10, <2>1 DEF r
<1>11. QED
  BY <1>9, <1>10

LEMMA ShownWithout ==
  ASSUME RowsOK(rows), NEW i, NEW j
  PROVE  Shown(Without(i), j) = IF j = i THEN {} ELSE Shown(rows, j)
<1>1. \A n \in DOMAIN Without(i) : Without(i)[n].item # i
  BY WithoutKeeps
<1>2. CASE RowsOf(i) = {}
  <2>1. Without(i) = rows
    BY <1>2 DEF Without
  <2>2. QED
    BY <1>1, <2>1 DEF Shown
<1>3. CASE RowsOf(i) # {}
  <2> DEFINE p == CHOOSE n \in RowsOf(i) : TRUE
             r == Without(i)
  <2>1. p \in RowsOf(i) /\ r = RemoveAt(rows, p)
    BY <1>3 DEF Without
  <2> HIDE DEF p
  <2>2. p \in 1..Len(rows) /\ rows \in Seq(Row) /\ Len(rows) \in Nat /\ DOMAIN rows = 1..Len(rows)
    BY <2>1 DEF RowsOf, RowsOK
  <2>3. /\ r \in Seq(Row) /\ Len(r) = Len(rows) - 1
        /\ \A n \in 1..(Len(rows) - 1) : r[n] = IF n < p THEN rows[n] ELSE rows[n + 1]
    <3>1. /\ RemoveAt(rows, p) \in Seq(Row) /\ Len(RemoveAt(rows, p)) = Len(rows) - 1
          /\ \A n \in 1..(Len(rows) - 1) :
               RemoveAt(rows, p)[n] = IF n < p THEN rows[n] ELSE rows[n + 1]
      BY <2>2, Removed
    <3> HIDE DEF r
    <3>2. QED
      BY <2>1, <3>1
  <2>4. \A n \in DOMAIN r : r[n].item # i
    BY <1>1
  <2> HIDE DEF r
  <2>5. DOMAIN r = 1..(Len(rows) - 1)
    BY <2>2, <2>3
  <2>6. \A n \in DOMAIN r : \E k \in DOMAIN rows : r[n] = rows[k]
    <3> TAKE n \in DOMAIN r
    <3>1. n \in DOMAIN rows /\ n + 1 \in DOMAIN rows
      BY <2>2, <2>5
    <3>2. QED
      BY <2>3, <2>5, <3>1
  <2>7. ASSUME NEW k \in DOMAIN rows, k # p PROVE \E n \in DOMAIN r : r[n] = rows[k]
    <3>1. CASE k < p
      <4>1. k \in DOMAIN r /\ r[k] = rows[k]
        BY <2>2, <2>3, <2>5, <3>1
      <4>2. QED
        BY <4>1
    <3>2. CASE k > p
      <4>1. k - 1 \in DOMAIN r /\ r[k - 1] = rows[k]
        BY <2>2, <2>3, <2>5, <3>2
      <4>2. QED
        BY <4>1
    <3>3. QED
      BY <2>2, <2>7, <3>1, <3>2
  <2>8. rows[p].item = i
    BY <2>1 DEF RowsOf
  <2>9. \A x : x \in Shown(r, j) <=> \E n \in DOMAIN r : r[n].item = j /\ x = r[n]
    BY DEF Shown
  <2>10. \A x : x \in Shown(rows, j) <=> \E n \in DOMAIN rows : rows[n].item = j /\ x = rows[n]
    BY DEF Shown
  <2>11. \A x : x \in Shown(r, j) <=> x \in Shown(rows, j) /\ j # i
    BY <2>4, <2>6, <2>7, <2>8, <2>9, <2>10
  <2>12. QED
    BY <2>11 DEF r
<1>4. QED
  BY <1>2, <1>3

LEMMA ShownBecomes ==
  ASSUME NEW i, NEW new, \A n \in RowsOf(i) : new[n].item = i,
         rows' = [n \in DOMAIN rows |-> IF n \in RowsOf(i) THEN new[n] ELSE rows[n]], NEW j
  PROVE  Shown(rows', j) = IF j = i THEN {new[n] : n \in RowsOf(i)} ELSE Shown(rows, j)
<1>1. \A n : n \in RowsOf(i) <=> n \in DOMAIN rows /\ rows[n].item = i
  BY DEF RowsOf
<1>2. DOMAIN rows' = DOMAIN rows
  OBVIOUS
<1>3. \A n \in DOMAIN rows : rows'[n] = IF n \in RowsOf(i) THEN new[n] ELSE rows[n]
  OBVIOUS
<1>4. \A x : x \in Shown(rows', j) <=> \E n \in DOMAIN rows' : rows'[n].item = j /\ x = rows'[n]
  BY DEF Shown
<1>5. \A x : x \in Shown(rows, j) <=> \E n \in DOMAIN rows : rows[n].item = j /\ x = rows[n]
  BY DEF Shown
<1>6. CASE j = i
  <2>1. \A n \in DOMAIN rows : rows'[n].item = i <=> n \in RowsOf(i)
    BY <1>1, <1>3
  <2>2. \A x : x \in Shown(rows', j) <=> \E n \in RowsOf(i) : x = new[n]
    BY <1>1, <1>2, <1>3, <1>4, <1>6, <2>1
  <2>3. QED
    BY <1>6, <2>2
<1>7. CASE j # i
  <2>1. \A n \in DOMAIN rows : rows'[n].item = j => n \notin RowsOf(i)
    BY <1>3, <1>7
  <2>2. \A n \in DOMAIN rows : rows[n].item = j => n \notin RowsOf(i)
    BY <1>1, <1>7
  <2>3. \A x : x \in Shown(rows', j) <=> x \in Shown(rows, j)
    BY <1>2, <1>3, <1>4, <1>5, <2>1, <2>2
  <2>4. QED
    BY <1>7, <2>3
<1>8. QED
  BY <1>6, <1>7

LEMMA RowsOfShown ==
  ASSUME RowsOK(rows), NEW i, NEW n \in RowsOf(i)
  PROVE  RowsOf(i) = {n} /\ rows[n] \in Shown(rows, i) /\ rows[n] \in Row /\ rows[n].item = i
BY RowOrders DEF RowsOf, Shown, RowsOK, Unique

LEMMA NoRowsShown == \A i : RowsOf(i) = {} <=> Shown(rows, i) = {}
BY DEF RowsOf, Shown

------------------------------------------------------------------------------
(* What a call delivered to the page does to how its item looks.            *)
Carriers(i) == {m \in ItemCall : m.call \in {"setValue", "syncChildren"} /\ m.item = i}

LEMMA EffectOnRow ==
  ASSUME NEW m \in ItemCall, NEW r \in Row, r.cells
  PROVE  /\ m.call = "noteError" => Effect(m, LookOf(r)) = [mode |-> r.mode, status |-> TRUE]
         /\ m.call = "clearError" => Effect(m, LookOf(r)) = [mode |-> r.mode, status |-> FALSE]
         /\ m.call = "setValue" => Effect(m, LookOf(r)) = [mode |-> r.mode, status |-> r.status]
         /\ m.call = "setEntryMode" => Effect(m, LookOf(r)) = [mode |-> m.mode, status |-> r.status]
<1>1. r.mode \in Mode /\ r.status \in BOOLEAN
  BY DEF Row
<1> DEFINE v == LookOf(r)
<1>2. v \notin Bare /\ v.mode = r.mode /\ v.status = r.status
  BY <1>1, LookTypes DEF LookOf
<1> HIDE DEF v
<1>3. /\ m.call = "noteError" => Effect(m, v) = [mode |-> r.mode, status |-> TRUE]
      /\ m.call = "clearError" => Effect(m, v) = [mode |-> r.mode, status |-> FALSE]
  BY <1>2 DEF Effect
<1>4. /\ m.call = "setValue" => Effect(m, v) = [mode |-> r.mode, status |-> r.status]
      /\ m.call = "setEntryMode" => Effect(m, v) = [mode |-> m.mode, status |-> r.status]
  BY <1>2 DEF Effect
<1>5. QED
  BY <1>3, <1>4 DEF v

LEMMA EffectOnNoRow ==
  ASSUME NEW m \in ItemCall
  PROVE  Effect(m, NoRow) = IF m.call = "syncChildren" THEN [mode |-> m.mode, status |-> FALSE]
                                                       ELSE NoRow
BY LookTypes DEF Effect

LEMMA RowChanges ==
  ASSUME NEW r \in Row, r.cells, NEW q
  PROVE  /\ \A t \in Text : q = [r EXCEPT !.value = t] =>
              q.item = r.item /\ q.value = t /\ LookOf(q) = [mode |-> r.mode, status |-> r.status]
         /\ \A on \in BOOLEAN : q = [r EXCEPT !.status = on] =>
              q.item = r.item /\ q.value = r.value /\ LookOf(q) = [mode |-> r.mode, status |-> on]
         /\ \A x \in Mode : q = [r EXCEPT !.mode = x] =>
              q.item = r.item /\ q.value = r.value /\ LookOf(q) = [mode |-> x, status |-> r.status]
BY DEF Row, LookOf

LEMMA RenderedRowLooks ==
  ASSUME NEW m \in ItemCall, m.call = "syncChildren", NEW q
  PROVE  /\ q = RenderedRow(m) => /\ q \in Row /\ q.item = m.item /\ q.value = m.value
                                  /\ LookOf(q) = [mode |-> m.mode, status |-> FALSE]
         /\ \A x \in Mode : q = RowFor(m, x, FALSE) =>
              q.item = m.item /\ ~q.cells /\ LookOf(q) = TornRow
<1>1. ASSUME q = RenderedRow(m)
      PROVE  /\ q \in Row /\ q.item = m.item /\ q.value = m.value
             /\ LookOf(q) = [mode |-> m.mode, status |-> FALSE]
  <2>1. q \in Row /\ q.item = m.item
    BY <1>1, RenderedRowType
  <2>2. q.value = m.value /\ q.mode = m.mode /\ q.status = FALSE /\ q.cells = TRUE
    BY <1>1 DEF RenderedRow, RowFor
  <2>3. QED
    BY <2>1, <2>2 DEF LookOf
<1>2. ASSUME NEW x \in Mode, q = RowFor(m, x, FALSE)
      PROVE  q.item = m.item /\ ~q.cells /\ LookOf(q) = TornRow
  <2>1. q.item = m.item /\ q.cells = FALSE
    BY <1>2 DEF RowFor
  <2>2. QED
    BY <2>1 DEF LookOf
<1>3. QED
  BY <1>1, <1>2

RowsBecome(m, new) ==
  /\ m \in ItemCall
  /\ RowsOf(m.item) = {} => Effect(m, NoRow) = NoRow
  /\ \A n \in RowsOf(m.item) :
       new[n].item = m.item /\ LookOf(new[n]) = Effect(m, LookOf(rows[n]))
  /\ rows' = [n \in DOMAIN rows |-> IF n \in RowsOf(m.item) THEN new[n] ELSE rows[n]]

LEMMA BecomesLooks ==
  ASSUME RowsOK(rows), RowsOK(rows'), NEW m, NEW new, RowsBecome(m, new)
  PROVE  /\ Look(rows', m.item) = Effect(m, Look(rows, m.item))
         /\ \A j : j # m.item => Shown(rows', j) = Shown(rows, j)
         /\ \A r \in Shown(rows', m.item) :
              \E n \in RowsOf(m.item) : r = new[n] /\ rows[n] \in Shown(rows, m.item)
<1> DEFINE i == m.item
<1>0. /\ RowsOf(i) = {} => Effect(m, NoRow) = NoRow
      /\ \A n \in RowsOf(i) : new[n].item = i /\ LookOf(new[n]) = Effect(m, LookOf(rows[n]))
      /\ rows' = [n \in DOMAIN rows |-> IF n \in RowsOf(i) THEN new[n] ELSE rows[n]]
  BY DEF RowsBecome
<1> HIDE DEF i
<1>1. \A j : Shown(rows', j) = IF j = i THEN {new[n] : n \in RowsOf(i)} ELSE Shown(rows, j)
  BY <1>0, ShownBecomes
<1>2. CASE RowsOf(i) = {}
  <2>1. Shown(rows', i) = {} /\ Shown(rows, i) = {}
    BY <1>1, <1>2, NoRowsShown
  <2>2. Look(rows', i) = NoRow /\ Look(rows, i) = NoRow
    BY <2>1 DEF Look
  <2>3. QED
    BY <1>0, <1>1, <1>2, <2>1, <2>2 DEF i
<1>3. CASE RowsOf(i) # {}
  <2>1. PICK n \in RowsOf(i) : TRUE
    BY <1>3
  <2>2. RowsOf(i) = {n} /\ rows[n] \in Shown(rows, i)
    BY RowsOfShown
  <2>3. Look(rows, i) = LookOf(rows[n])
    BY <2>2, LookIsOfRow
  <2>4. Shown(rows', i) = {new[n]}
    BY <1>1, <2>2
  <2>5. Look(rows', i) = LookOf(new[n])
    BY <2>4, LookIsOfRow
  <2>6. QED
    BY <1>0, <1>1, <2>1, <2>2, <2>3, <2>4, <2>5 DEF i
<1>4. QED
  BY <1>2, <1>3

LEMMA LookFollowsShown == \A s, r, i : Shown(s, i) = Shown(r, i) => Look(s, i) = Look(r, i)
BY DEF Look

LEMMA AddChildrenInserts ==
  ASSUME RowsOK(rows), NEW m, AddChildren(m)
  PROVE  \E p \in 1..(Len(rows) + 1) : rows' = InsertAt(rows, p, RenderedRow(m))
<1> DEFINE later == {n \in DOMAIN rows : After(Order[rows[n].item], Order[m.item])}
           p == CHOOSE n \in later \cup {Len(rows) + 1} :
                  \A k \in later \cup {Len(rows) + 1} : n <= k
<1>1. DOMAIN rows = 1..Len(rows) /\ Len(rows) \in Nat
  BY DEF RowsOK
<1>2. later \cup {Len(rows) + 1} \in SUBSET Nat
  BY <1>1
<1>3. p \in later \cup {Len(rows) + 1}
  BY <1>2, NatMinimum
<1>4. rows' = InsertAt(rows, p, RenderedRow(m))
  BY DEF AddChildren
<1> HIDE DEF p
<1>5. p \in 1..(Len(rows) + 1)
  BY <1>1, <1>3
<1>6. QED
  BY <1>4, <1>5

LEMMA DeliverLooks ==
  ASSUME RowsOK(rows), PageTypeOK, NEW m \in ItemCall, OnMessage(m)
  PROVE  /\ Look(rows', m.item) = Effect(m, Look(rows, m.item))
         /\ \A j : j # m.item => Shown(rows', j) = Shown(rows, j)
         /\ m \in Carriers(m.item) => \A r \in Shown(rows', m.item) : r.cells => r.value = m.value
         /\ m \notin Carriers(m.item) =>
              \A r \in Shown(rows', m.item) :
                r.cells => \E q \in Shown(rows, m.item) : q.cells /\ r.value = q.value
<1> DEFINE i == m.item
           Carried == m \in Carriers(i) => \A r \in Shown(rows', i) : r.cells => r.value = m.value
           Kept == m \notin Carriers(i) =>
                     \A r \in Shown(rows', i) :
                       r.cells => \E q \in Shown(rows, i) : q.cells /\ r.value = q.value
           Others == \A j : j # i => Shown(rows', j) = Shown(rows, j)
           Looked == Look(rows', i) = Effect(m, Look(rows, i))
<1>0. m \in ToPage /\ m.call # "changeAction"
  BY ItemCallIsNoButtonCall DEF ToPage
<1>1. RowsOK(rows')
  BY <1>0, OnMessageKeeps
<1>2. m \in Carriers(i) <=> m.call \in {"setValue", "syncChildren"}
  BY DEF Carriers
<1>3. \A n \in RowsOf(i) : /\ rows[n] \in Row /\ rows[n].item = i /\ rows[n] \in Shown(rows, i)
                           /\ rows[n].mode \in Mode
  <2> TAKE n \in RowsOf(i)
  <2>1. rows[n] \in Row /\ rows[n].item = i /\ rows[n] \in Shown(rows, i) /\ n \in DOMAIN rows
    BY RowsOfShown DEF RowsOf
  <2>2. rows[n].mode \in Mode
    BY <2>1 DEF Row
  <2>3. QED
    BY <2>1, <2>2
<1>4. CASE m.call = "syncChildren" /\ RowsOf(i) = {}
  <2> DEFINE e == RenderedRow(m)
  <2>1. PICK p \in 1..(Len(rows) + 1) : rows' = InsertAt(rows, p, e)
    BY <1>0, <1>4, AddChildrenInserts DEF OnMessage, SyncChildren
  <2>2. e \in Row /\ e.item = i /\ e.value = m.value
        /\ LookOf(e) = [mode |-> m.mode, status |-> FALSE]
    BY <1>4, RenderedRowLooks
  <2> HIDE DEF e
  <2>3. \A j : Shown(rows', j) = IF e.item = j THEN Shown(rows, j) \cup {e} ELSE Shown(rows, j)
    BY <2>1, <2>2, ShownInserted DEF RowsOK
  <2>4. Shown(rows, i) = {} /\ Look(rows, i) = NoRow
    BY <1>4, NoRowsShown DEF Look
  <2>5. Shown(rows', i) = {e}
    BY <2>2, <2>3, <2>4
  <2>6. Look(rows', i) = [mode |-> m.mode, status |-> FALSE]
    BY <1>1, <2>2, <2>5, LookIsOfRow
  <2>7. Looked
    BY <1>4, <2>4, <2>6, EffectOnNoRow
  <2>8. Others /\ Carried /\ Kept
    BY <1>2, <1>4, <2>2, <2>3, <2>5
  <2>9. QED
    BY <2>7, <2>8
<1>5. CASE m.call = "syncChildren" /\ RowsOf(i) # {}
  <2> DEFINE new == [n \in RowsOf(i) |-> RowFor(m, rows[n].mode, FALSE)]
  <2>1. rows' = [n \in DOMAIN rows |-> IF n \in RowsOf(i) THEN new[n] ELSE rows[n]]
    BY <1>0, <1>5 DEF OnMessage, SyncChildren, ReplaceChildren, Becomes
  <2>2. ASSUME NEW n \in RowsOf(i) PROVE new[n].item = i /\ ~new[n].cells /\ LookOf(new[n]) = TornRow
    <3>1. new[n] = RowFor(m, rows[n].mode, FALSE) /\ rows[n].mode \in Mode
      BY <1>3
    <3> HIDE DEF new
    <3>2. QED
      BY <1>5, <3>1, RenderedRowLooks
  <2> HIDE DEF new
  <2>3. ASSUME NEW n \in RowsOf(i)
        PROVE  new[n].item = i /\ LookOf(new[n]) = Effect(m, LookOf(rows[n]))
    <3>1. LookOf(rows[n]) # NoRow
      BY <1>3, LookIsOfRow
    <3>2. Effect(m, LookOf(rows[n])) = TornRow
      BY <1>5, <3>1 DEF Effect
    <3>3. QED
      BY <2>2, <3>2
  <2>4. Looked /\ Others /\ \A r \in Shown(rows', i) : \E n \in RowsOf(i) : r = new[n]
    <3>1. RowsBecome(m, new)
      BY <1>5, <2>1, <2>3 DEF RowsBecome
    <3>2. /\ Looked /\ Others
          /\ \A r \in Shown(rows', i) : \E n \in RowsOf(i) : r = new[n] /\ rows[n] \in Shown(rows, i)
      BY <1>1, <3>1, BecomesLooks
    <3>3. QED
      BY <3>2
  <2>5. Carried /\ Kept
    BY <1>2, <1>5, <2>2, <2>4
  <2>6. QED
    BY <2>4, <2>5
<1>6. CASE m.call \in {"deleteNodes", "replaceNode"}
  <2>1. rows' = Without(i)
    BY <1>0, <1>6 DEF OnMessage, ReplaceNode
  <2>2. Shown(rows', i) = {} /\ Others
    BY <2>1, ShownWithout
  <2>3. Look(rows', i) = NoRow
    BY <2>2 DEF Look
  <2>4. Effect(m, Look(rows, i)) = NoRow
    BY <1>6 DEF Effect
  <2>5. Carried /\ Kept
    BY <2>2
  <2>6. QED
    BY <2>2, <2>3, <2>4, <2>5
<1>7. ASSUME Whole(i) = {}, m.call \in {"noteError", "clearError", "setValue", "setEntryMode"}
      PROVE  Looked /\ Others /\ Carried /\ Kept
  <2>1. rows' = rows
    <3>1. rows' = [n \in DOMAIN rows |-> rows[n]]
      BY <1>0, <1>7 DEF OnMessage, ShowStatus, Becomes
    <3>2. QED
      BY <3>1 DEF RowsOK
  <2>2. \A r \in Shown(rows, i) : ~r.cells
    BY <1>7 DEF Shown, Whole, RowsOf
  <2>3. Look(rows, i) \in Bare
    <3>1. CASE Shown(rows, i) = {}
      BY <3>1, LookTypes DEF Look
    <3>2. CASE Shown(rows, i) # {}
      <4>1. PICK r \in Shown(rows, i) : TRUE
        BY <3>2
      <4>2. Look(rows, i) = LookOf(r)
        BY <4>1, LookIsOfRow
      <4>3. QED
        BY <2>2, <4>1, <4>2, LookTypes DEF LookOf
    <3>3. QED
      BY <3>1, <3>2
  <2>4. Looked
    BY <1>7, <2>1, <2>3 DEF Effect
  <2>5. QED
    BY <2>1, <2>2, <2>4
<1>8. ASSUME Whole(i) # {}
      PROVE  Whole(i) = RowsOf(i) /\ \A n \in RowsOf(i) : rows[n].cells
  <2>1. PICK n \in RowsOf(i) : rows[n].cells
    BY <1>8 DEF Whole
  <2>2. RowsOf(i) = {n}
    BY <2>1, RowsOfShown
  <2>3. QED
    BY <2>1, <2>2 DEF Whole
<1>9. ASSUME NEW on \in BOOLEAN, Whole(i) # {}, m.call = IF on THEN "noteError" ELSE "clearError", ShowStatus(i, on)
      PROVE  Looked /\ Others /\ Carried /\ Kept
  <2> DEFINE new == [n \in RowsOf(i) |-> [rows[n] EXCEPT !.status = on]]
  <2>1. rows' = [n \in DOMAIN rows |-> IF n \in RowsOf(i) THEN new[n] ELSE rows[n]]
    BY <1>8, <1>9 DEF ShowStatus, Becomes
  <2>2. ASSUME NEW n \in RowsOf(i)
        PROVE  /\ new[n].item = i /\ new[n].value = rows[n].value
               /\ LookOf(new[n]) = [mode |-> rows[n].mode, status |-> on]
    <3>1. new[n] = [rows[n] EXCEPT !.status = on]
      OBVIOUS
    <3>2. rows[n] \in Row /\ rows[n].item = i /\ rows[n].cells
      BY <1>3, <1>8, <1>9
    <3> HIDE DEF new
    <3>3. QED
      BY <3>1, <3>2, RowChanges
  <2> HIDE DEF new
  <2>3. ASSUME NEW n \in RowsOf(i)
        PROVE  new[n].item = i /\ LookOf(new[n]) = Effect(m, LookOf(rows[n]))
    <3>1. rows[n] \in Row /\ rows[n].cells
      BY <1>3, <1>8, <1>9
    <3>2. Effect(m, LookOf(rows[n])) = [mode |-> rows[n].mode, status |-> on]
      <4>1. CASE on = TRUE
        BY <1>9, <3>1, <4>1, EffectOnRow
      <4>2. CASE on = FALSE
        BY <1>9, <3>1, <4>2, EffectOnRow
      <4>3. QED
        BY <4>1, <4>2
    <3>3. QED
      BY <2>2, <3>2
  <2>4. /\ Looked /\ Others
        /\ \A r \in Shown(rows', i) : \E n \in RowsOf(i) : r = new[n] /\ rows[n] \in Shown(rows, i)
    <3>1. Effect(m, NoRow) = NoRow
      BY <1>9, EffectOnNoRow
    <3>2. RowsBecome(m, new)
      BY <2>1, <2>3, <3>1 DEF RowsBecome
    <3>3. QED
      BY <1>1, <3>2, BecomesLooks
  <2>5. Carried /\ Kept
    <3>1. m \notin Carriers(i)
      BY <1>2, <1>9
    <3>2. ASSUME NEW r \in Shown(rows', i) PROVE \E q \in Shown(rows, i) : q.cells /\ r.value = q.value
      <4>1. PICK n \in RowsOf(i) : r = new[n] /\ rows[n] \in Shown(rows, i) /\ rows[n].cells
        BY <1>8, <1>9, <2>4
      <4>2. r.value = rows[n].value
        BY <2>2, <4>1
      <4>3. QED
        BY <4>1, <4>2
    <3>3. QED
      BY <3>1, <3>2
  <2>6. QED
    BY <2>4, <2>5
<1>10. CASE Whole(i) # {} /\ m.call \in {"noteError", "clearError"}
  BY <1>0, <1>9, <1>10 DEF OnMessage
<1>11. CASE Whole(i) # {} /\ m.call = "setValue"
  <2> DEFINE new == [n \in RowsOf(i) |-> [rows[n] EXCEPT !.value = m.value]]
  <2>1. rows' = [n \in DOMAIN rows |-> IF n \in RowsOf(i) THEN new[n] ELSE rows[n]]
    BY <1>0, <1>8, <1>11 DEF OnMessage, Becomes
  <2>2. m.value \in Text
    BY <1>11 DEF ItemCall
  <2>3. ASSUME NEW n \in RowsOf(i)
        PROVE  /\ new[n].item = i /\ new[n].value = m.value
               /\ LookOf(new[n]) = [mode |-> rows[n].mode, status |-> rows[n].status]
    <3>1. new[n] = [rows[n] EXCEPT !.value = m.value]
      OBVIOUS
    <3>2. rows[n] \in Row /\ rows[n].item = i /\ rows[n].cells
      BY <1>3, <1>8, <1>11
    <3> HIDE DEF new
    <3>3. QED
      BY <2>2, <3>1, <3>2, RowChanges
  <2> HIDE DEF new
  <2>4. ASSUME NEW n \in RowsOf(i)
        PROVE  new[n].item = i /\ LookOf(new[n]) = Effect(m, LookOf(rows[n]))
    <3>1. rows[n] \in Row /\ rows[n].cells
      BY <1>3, <1>8, <1>11
    <3>2. Effect(m, LookOf(rows[n])) = [mode |-> rows[n].mode, status |-> rows[n].status]
      BY <1>11, <3>1, EffectOnRow
    <3>3. QED
      BY <2>3, <3>2
  <2>5. /\ Looked /\ Others
        /\ \A r \in Shown(rows', i) : \E n \in RowsOf(i) : r = new[n] /\ rows[n] \in Shown(rows, i)
    <3>1. Effect(m, NoRow) = NoRow
      BY <1>11, EffectOnNoRow
    <3>2. RowsBecome(m, new)
      BY <2>1, <2>4, <3>1 DEF RowsBecome
    <3>3. QED
      BY <1>1, <3>2, BecomesLooks
  <2>6. Carried /\ Kept
    <3>1. m \in Carriers(i)
      BY <1>2, <1>11
    <3>2. ASSUME NEW r \in Shown(rows', i) PROVE r.value = m.value
      <4>1. PICK n \in RowsOf(i) : r = new[n]
        BY <2>5
      <4>2. QED
        BY <2>3, <4>1
    <3>3. QED
      BY <3>1, <3>2
  <2>7. QED
    BY <2>5, <2>6
<1>12. CASE Whole(i) # {} /\ m.call = "setEntryMode"
  <2> DEFINE new == [n \in RowsOf(i) |-> [rows[n] EXCEPT !.mode = m.mode]]
  <2>1. rows' = [n \in DOMAIN rows |-> IF n \in RowsOf(i) THEN new[n] ELSE rows[n]]
    BY <1>0, <1>8, <1>12 DEF OnMessage, Becomes
  <2>2. m.mode \in Mode
    BY <1>12 DEF ItemCall
  <2>3. ASSUME NEW n \in RowsOf(i)
        PROVE  /\ new[n].item = i /\ new[n].value = rows[n].value
               /\ LookOf(new[n]) = [mode |-> m.mode, status |-> rows[n].status]
    <3>1. new[n] = [rows[n] EXCEPT !.mode = m.mode]
      OBVIOUS
    <3>2. rows[n] \in Row /\ rows[n].item = i /\ rows[n].cells
      BY <1>3, <1>8, <1>12
    <3> HIDE DEF new
    <3>3. QED
      BY <2>2, <3>1, <3>2, RowChanges
  <2> HIDE DEF new
  <2>4. ASSUME NEW n \in RowsOf(i)
        PROVE  new[n].item = i /\ LookOf(new[n]) = Effect(m, LookOf(rows[n]))
    <3>1. rows[n] \in Row /\ rows[n].cells
      BY <1>3, <1>8, <1>12
    <3>2. Effect(m, LookOf(rows[n])) = [mode |-> m.mode, status |-> rows[n].status]
      BY <1>12, <3>1, EffectOnRow
    <3>3. QED
      BY <2>3, <3>2
  <2>5. /\ Looked /\ Others
        /\ \A r \in Shown(rows', i) : \E n \in RowsOf(i) : r = new[n] /\ rows[n] \in Shown(rows, i)
    <3>1. Effect(m, NoRow) = NoRow
      BY <1>12, EffectOnNoRow
    <3>2. RowsBecome(m, new)
      BY <2>1, <2>4, <3>1 DEF RowsBecome
    <3>3. QED
      BY <1>1, <3>2, BecomesLooks
  <2>6. Carried /\ Kept
    <3>1. m \notin Carriers(i)
      BY <1>2, <1>12
    <3>2. ASSUME NEW r \in Shown(rows', i) PROVE \E q \in Shown(rows, i) : q.cells /\ r.value = q.value
      <4>1. PICK n \in RowsOf(i) : r = new[n] /\ rows[n] \in Shown(rows, i) /\ rows[n].cells
        BY <1>8, <1>12, <2>5
      <4>2. r.value = rows[n].value
        BY <2>3, <4>1
      <4>3. QED
        BY <4>1, <4>2
    <3>3. QED
      BY <3>1, <3>2
  <2>7. QED
    BY <2>5, <2>6
<1>13. QED
  BY <1>0, <1>4, <1>5, <1>6, <1>7, <1>10, <1>11, <1>12 DEF OnMessage

------------------------------------------------------------------------------
(* What the server sends leads the page from how its items looked before    *)
(* the step to how they look after it, and carries the text of each that    *)
(* has another.                                                             *)
ServerLook(i) ==
  IF i \in built THEN [mode |-> mode[i], status |-> errors[i] # {}] ELSE NoRow

Carrying(i, t) == {m \in Carriers(i) : m.value = t}

Carried(ms, j) ==
  j \in built' =>
    IF Among(ms, Carriers(j)) = {} THEN j \in built /\ source'[j] = source[j]
                                   ELSE LastIn(ms, Carriers(j), Carrying(j, source'[j]))

Followed(ms, j) == Leads(ms, j, ServerLook(j), ServerLook(j)') /\ Carried(ms, j)

LEMMA ServerLookType ==
  ASSUME ItemTypeOK, NEW i \in Item PROVE ServerLook(i) \in Looks
<1>1. mode[i] \in Mode /\ (errors[i] # {}) \in BOOLEAN
  BY DEF ItemTypeOK
<1>2. QED
  BY <1>1, LookTypes DEF ServerLook

LEMMA CallsArePageCalls == \A ms \in Seq(ItemCall) : ms \in Seq(ToPage)
BY DEF ToPage

LEMMA OneCallAmong ==
  ASSUME NEW m, NEW C, NEW D
  PROVE  /\ Among(<<m>>, C) = {} <=> m \notin C
         /\ LastIn(<<m>>, C, D) <=> (m \in C => m \in D)
<1> DEFINE s == <<m>>
<1>1. DOMAIN s = {1} /\ s[1] = m
  OBVIOUS
<1> HIDE DEF s
<1>2. Among(s, C) = IF m \in C THEN {1} ELSE {}
  BY <1>1 DEF Among
<1>3. LastIn(s, C, D) <=> (m \in C => m \in D)
  BY <1>1, <1>2 DEF LastIn
<1>4. QED
  BY <1>2, <1>3 DEF s

LEMMA NoCallAmong == \A C : Among(<<>>, C) = {}
BY DEF Among

(* A single call. *)
LEMMA OneCallFollows ==
  ASSUME ItemTypeOK, NEW m \in ItemCall, NEW j \in Item,
         m.item # j => /\ ServerLook(j)' = ServerLook(j)
                       /\ j \in built' => j \in built /\ source'[j] = source[j],
         m.item = j => /\ ServerLook(j)' = Effect(m, ServerLook(j))
                       /\ j \in built' => IF m \in Carriers(j) THEN m.value = source'[j]
                                          ELSE j \in built /\ source'[j] = source[j]
  PROVE  Followed(<<m>>, j)
<1>1. Leads(<<m>>, j, ServerLook(j), IF m \in Calls(j) THEN Effect(m, ServerLook(j)) ELSE ServerLook(j))
  BY ServerLookType, LeadsOne
<1>2. m \in Calls(j) <=> m.item = j
  BY DEF Calls
<1>3. Leads(<<m>>, j, ServerLook(j), ServerLook(j)')
  BY <1>1, <1>2
<1>4. m \in Carriers(j) => m.item = j
  BY DEF Carriers
<1>5. Carried(<<m>>, j)
  <2> SUFFICES ASSUME j \in built'
               PROVE  IF Among(<<m>>, Carriers(j)) = {} THEN j \in built /\ source'[j] = source[j]
                      ELSE LastIn(<<m>>, Carriers(j), Carrying(j, source'[j]))
    BY DEF Carried
  <2>1. CASE m \in Carriers(j)
    <3>1. m \in Carrying(j, source'[j])
      BY <1>4, <2>1 DEF Carrying
    <3>2. QED
      BY <2>1, <3>1, OneCallAmong
  <2>2. CASE m \notin Carriers(j)
    BY <2>2, OneCallAmong
  <2>3. QED
    BY <2>1, <2>2
<1>6. QED
  BY <1>3, <1>5 DEF Followed

LEMMA NoCallFollows ==
  ASSUME ItemTypeOK, NEW j \in Item, ServerLook(j)' = ServerLook(j),
         j \in built' => j \in built /\ source'[j] = source[j]
  PROVE  Followed(<<>>, j)
<1>1. Leads(<<>>, j, ServerLook(j), ServerLook(j)')
  BY ServerLookType, LeadsNowhere
<1>2. QED
  BY <1>1, NoCallAmong DEF Followed, Carried

(* Cleared(i), for an item that can only lose errors. *)
LEMMA ClearedLeads ==
  ASSUME ItemTypeOK, NEW i \in built, errors[i] = {} => errors'[i] = {}
  PROVE  /\ Leads(Cleared(i), i, ServerLook(i), [mode |-> mode[i], status |-> errors'[i] # {}])
         /\ \A j \in Item \ {i} : Leads(Cleared(i), j, ServerLook(j), ServerLook(j))
         /\ \A j : Among(Cleared(i), Carriers(j)) = {}
<1> DEFINE e == OfItem("clearError", i)
           w == [mode |-> mode[i], status |-> errors'[i] # {}]
<1>1. i \in Item /\ e \in ItemCall /\ e.call = "clearError" /\ e.item = i
  BY ItemCallType DEF ItemTypeOK, OfItem
<1> HIDE DEF e
<1>2. ServerLook(i) = [mode |-> mode[i], status |-> errors[i] # {}] /\ mode[i] \in Mode
  BY <1>1 DEF ServerLook, ItemTypeOK
<1>3. CASE Clears(i)
  <2>1. Cleared(i) = <<e>>
    BY <1>3 DEF Cleared, e
  <2>2. ServerLook(i) \notin Bare /\ ServerLook(i).mode = mode[i]
    BY <1>2, LookTypes
  <2>3. Effect(e, ServerLook(i)) = [mode |-> mode[i], status |-> FALSE]
    BY <1>1, <2>2 DEF Effect
  <2>4. w = [mode |-> mode[i], status |-> FALSE]
    <3>1. (errors'[i] # {}) = FALSE
      BY <1>3 DEF Clears
    <3>2. QED
      BY <3>1
  <2>5. Leads(<<e>>, i, ServerLook(i), w)
    <3>1. e \in Calls(i) /\ ServerLook(i) \in Looks
      BY <1>1, ServerLookType DEF Calls
    <3>2. Leads(<<e>>, i, ServerLook(i), Effect(e, ServerLook(i)))
      BY <1>1, <3>1, LeadsOne
    <3>3. QED
      BY <2>3, <2>4, <3>2
  <2>6. ASSUME NEW j \in Item \ {i} PROVE Leads(<<e>>, j, ServerLook(j), ServerLook(j))
    <3>1. e \notin Calls(j)
      BY <1>1 DEF Calls
    <3>2. QED
      BY <1>1, <3>1, ServerLookType, LeadsOne
  <2>7. \A j : Among(<<e>>, Carriers(j)) = {}
    BY <1>1, OneCallAmong DEF Carriers
  <2>8. QED
    BY <2>1, <2>5, <2>6, <2>7
<1>4. CASE ~Clears(i)
  <2>1. Cleared(i) = <<>>
    BY <1>4 DEF Cleared
  <2>2. (errors'[i] # {}) = (errors[i] # {})
    BY <1>4 DEF Clears
  <2>3. w = ServerLook(i)
    BY <1>2, <2>2
  <2>4. \A j \in Item : Leads(<<>>, j, ServerLook(j), ServerLook(j))
    BY ServerLookType, LeadsNowhere
  <2>5. QED
    BY <1>1, <2>1, <2>3, <2>4, NoCallAmong
<1>5. QED
  BY <1>3, <1>4

(* ClearedOthers(i): a call for each other item that has no error left. *)
LEMMA ClearedOthersLeads ==
  ASSUME ItemTypeOK, NEW i \in Item, UNCHANGED <<built, mode>>,
         \A j \in Item \ {i} : /\ errors[j] = {} => errors'[j] = {}
                               /\ j \notin built => errors'[j] = errors[j]
  PROVE  /\ Leads(ClearedOthers(i), i, ServerLook(i), ServerLook(i))
         /\ \A j \in Item \ {i} : Leads(ClearedOthers(i), j, ServerLook(j), ServerLook(j)')
         /\ \A j : Among(ClearedOthers(i), Carriers(j)) = {}
<1> DEFINE J == {k \in Item \ {i} : Clears(k)}
           S == {OfItem("clearError", j) : j \in J}
           s == ClearedOthers(i)
<1>1. IsFiniteSet(J)
  BY FS_Subset
<1>2. IsFiniteSet(S)
  <2> DEFINE f == [j \in J |-> OfItem("clearError", j)]
  <2>1. f \in Surjection(J, S)
    BY DEF Surjection
  <2>2. QED
    BY <1>1, <2>1, FS_Surjection DEF ExistsSurjection
<1>3. s = SetToSeq(S)
  BY DEF ClearedOthers
<1>4. /\ \A n \in DOMAIN s : s[n] \in S
      /\ \A x \in S : \E n \in DOMAIN s : s[n] = x
  <2>1. SetToSeq(S) \in Seq(S) /\ \A x \in S : \E n \in DOMAIN SetToSeq(S) : SetToSeq(S)[n] = x
    BY <1>2, SetToSeqRange
  <2> HIDE DEF S, s
  <2>2. QED
    BY <1>3, <2>1
<1>5. s \in Seq(ToPage)
  BY ClearedOthersType, CallsArePageCalls
<1>6. \A x \in S : \E j \in J : x = OfItem("clearError", j)
  OBVIOUS
<1>7. \A j \in J : OfItem("clearError", j) \in S
  OBVIOUS
<1>8. \A j \in Item : /\ OfItem("clearError", j) \in ItemCall
                      /\ OfItem("clearError", j).call = "clearError"
                      /\ OfItem("clearError", j).item = j
  BY ItemCallType DEF OfItem
<1> HIDE DEF S, s
<1>9. \A n \in DOMAIN s : \E j \in J : s[n] = OfItem("clearError", j)
  BY <1>4, <1>6
<1>10. \A j : Among(s, Carriers(j)) = {}
  BY <1>8, <1>9 DEF Among, Carriers
<1>11. Leads(s, i, ServerLook(i), ServerLook(i))
  <2>1. Among(s, Calls(i)) = {}
    BY <1>8, <1>9 DEF Among, Calls
  <2>2. QED
    BY <1>5, <2>1, ServerLookType, LeadsAway
<1>12. ASSUME NEW j \in Item \ {i} PROVE Leads(s, j, ServerLook(j), ServerLook(j)')
  <2>1. CASE Clears(j)
    <3> DEFINE e == OfItem("clearError", j)
    <3>1. e \in ItemCall /\ e.call = "clearError" /\ e.item = j
      BY <1>8
    <3>2. \A n \in Among(s, Calls(j)) : s[n] = e
      BY <1>8, <1>9 DEF Among, Calls
    <3>3. Among(s, Calls(j)) # {}
      <4>1. e \in S
        BY <1>7, <2>1
      <4>2. PICK n \in DOMAIN s : s[n] = e
        BY <1>4, <4>1
      <4>3. QED
        BY <3>1, <4>2 DEF Among, Calls
    <3> HIDE DEF e
    <3>4. j \in built /\ mode[j] \in Mode
      BY <2>1 DEF Clears, ItemTypeOK
    <3>5. ServerLook(j) \notin Bare /\ ServerLook(j).mode = mode[j]
      BY <3>4, LookTypes DEF ServerLook
    <3>6. Effect(e, ServerLook(j)) = [mode |-> mode[j], status |-> FALSE]
      BY <3>1, <3>5 DEF Effect
    <3>7. Effect(e, Effect(e, ServerLook(j))) = [mode |-> mode[j], status |-> FALSE]
      <4> DEFINE v == [mode |-> mode[j], status |-> FALSE]
      <4>1. v \notin Bare /\ v.mode = mode[j]
        BY <3>4, LookTypes
      <4> HIDE DEF v
      <4>2. Effect(e, v) = [mode |-> mode[j], status |-> FALSE]
        BY <3>1, <4>1 DEF Effect
      <4>3. QED
        BY <3>6, <4>2 DEF v
    <3>8. ServerLook(j)' = [mode |-> mode[j], status |-> FALSE]
      <4>1. (errors'[j] # {}) = FALSE
        BY <2>1 DEF Clears
      <4>2. QED
        BY <3>4, <4>1 DEF ServerLook
    <3>9. QED
      <4>1. Effect(e, Effect(e, ServerLook(j))) = Effect(e, ServerLook(j)) /\ ServerLook(j) \in Looks
        BY <3>6, <3>7, ServerLookType
      <4>2. Leads(s, j, ServerLook(j), IF Among(s, Calls(j)) = {} THEN ServerLook(j)
                                                               ELSE Effect(e, ServerLook(j)))
        BY <1>5, <3>1, <3>2, <4>1, LeadsSame
      <4>3. QED
        BY <3>3, <3>6, <3>8, <4>2
  <2>2. CASE ~Clears(j)
    <3>1. Among(s, Calls(j)) = {}
      BY <1>8, <1>9, <2>2 DEF Among, Calls
    <3>2. (errors'[j] # {}) = (errors[j] # {})
      BY <2>2 DEF Clears
    <3>3. ServerLook(j)' = ServerLook(j)
      BY <3>2 DEF ServerLook
    <3>4. QED
      BY <1>5, <3>1, <3>3, ServerLookType, LeadsAway
  <2>3. QED
    BY <2>1, <2>2
<1>13. QED
  BY <1>10, <1>11, <1>12 DEF s

LEMMA SetSourceErrors ==
  ASSUME ItemTypeOK, NEW i \in built, NEW t \in Text, SetSource(i, t)
  PROVE  /\ t \in BadText => /\ errors'[i] # {}
                             /\ \A j \in Item \ {i} : /\ errors[j] = {} => errors'[j] = {}
                                                      /\ j \notin built => errors'[j] = errors[j]
         /\ t \notin BadText => /\ errors[i] = {} => errors'[i] = {}
                                /\ \A j \in Item \ {i} : errors'[j] = errors[j]
<1>1. i \in Item /\ errors \in [Item -> SUBSET Source]
  BY DEF ItemTypeOK
<1>2. ASSUME t \in BadText
      PROVE  /\ errors'[i] # {}
             /\ \A j \in Item \ {i} : /\ errors[j] = {} => errors'[j] = {}
                                      /\ j \notin built => errors'[j] = errors[j]
  <2>1. NoteConversionError(i)
    BY <1>2 DEF SetSource
  <2>2. "conversion" \in errors'[i]
    BY <1>1, <2>1 DEF NoteConversionError
  <2>3. ASSUME NEW j \in Item \ {i}
        PROVE  errors'[j] = IF j \in built /\ "validation" \in errors[i]
                            THEN errors[j] \ {"validation"} ELSE errors[j]
    BY <2>1, <2>3 DEF NoteConversionError
  <2>4. QED
    BY <2>2, <2>3
<1>3. ASSUME t \notin BadText
      PROVE  /\ errors[i] = {} => errors'[i] = {}
             /\ \A j \in Item \ {i} : errors'[j] = errors[j]
  <2>1. errors' = [errors EXCEPT ![i] = @ \ {"conversion"}]
    BY <1>3 DEF SetSource
  <2>2. QED
    BY <1>1, <2>1
<1>4. QED
  BY <1>2, <1>3

(* The server's last word on a text is the page's, unless it is the text    *)
(* the item has anyway: then nothing is sent.                               *)
LEMMA SetSourceFollows ==
  ASSUME ItemTypeOK, NEW i \in built, NEW t \in Text, SetSource(i, t)
  PROVE  \E ms \in Seq(ItemCall) : Send(ms) /\ \A j \in Item : Followed(ms, j)
<1> DEFINE p == IF t = source[i] THEN <<>> ELSE <<SetValue(i, t)>>
           q == IF t \in BadText THEN Append(ClearedOthers(i), OfItem("noteError", i))
                                 ELSE Cleared(i)
<1>1. /\ i \in Item /\ source' = [source EXCEPT ![i] = t] /\ UNCHANGED <<built, mode>>
      /\ source \in [Item -> Text] /\ mode[i] \in Mode
  BY DEF ItemTypeOK, SetSource
<1>2. Send(p \o q)
  BY DEF SetSource
<1>3. p \in Seq(ItemCall) /\ q \in Seq(ItemCall)
  BY <1>1, ItemCallType, ClearedType, ClearedOthersType
<1>4. ASSUME NEW j \in Item
      PROVE  /\ Leads(p, j, ServerLook(j), ServerLook(j))
             /\ Among(p, Carriers(j)) = {} => source'[j] = source[j]
             /\ LastIn(p, Carriers(j), Carrying(j, source'[j]))
  <2>1. ServerLook(j) \in Looks
    BY ServerLookType
  <2>2. CASE t = source[i]
    <3>1. p = <<>> /\ source'[j] = source[j]
      BY <1>1, <2>2
    <3>2. Among(<<>>, Carriers(j)) = {}
      BY NoCallAmong
    <3>3. QED
      BY <2>1, <3>1, <3>2, LeadsNowhere DEF LastIn
  <2>3. CASE t # source[i]
    <3> DEFINE e == SetValue(i, t)
    <3>1. p = <<e>>
      BY <2>3
    <3>2. e \in ItemCall /\ e.call = "setValue" /\ e.item = i /\ e.value = t
      BY <1>1, ItemCallType DEF SetValue
    <3> HIDE DEF e, p
    <3>3. Effect(e, ServerLook(j)) = ServerLook(j)
      <4> DEFINE v == ServerLook(j)
      <4>1. v \in Looks /\ v = [mode |-> v.mode, status |-> v.status]
        BY <2>1, LookTypes
      <4> HIDE DEF v
      <4>2. Effect(e, v) = v
        BY <3>2, <4>1 DEF Effect
      <4>3. QED
        BY <4>2 DEF v
    <3>4. Leads(<<e>>, j, ServerLook(j), ServerLook(j))
      <4>1. Leads(<<e>>, j, ServerLook(j), IF e \in Calls(j) THEN Effect(e, ServerLook(j))
                                                             ELSE ServerLook(j))
        BY <2>1, <3>2, LeadsOne
      <4>2. QED
        BY <3>3, <4>1
    <3>5. CASE j = i
      <4>1. e \in Carriers(j) /\ e \in Carrying(j, source'[j])
        BY <1>1, <3>2, <3>5 DEF Carriers, Carrying
      <4>2. QED
        BY <3>1, <3>4, <4>1, OneCallAmong
    <3>6. CASE j # i
      <4>1. e \notin Carriers(j) /\ source'[j] = source[j]
        BY <1>1, <3>2, <3>6 DEF Carriers
      <4>2. QED
        BY <3>1, <3>4, <4>1, OneCallAmong
    <3>7. QED
      BY <3>5, <3>6
  <2>4. QED
    BY <2>2, <2>3
<1>5. ASSUME NEW j \in Item
      PROVE  Leads(q, j, ServerLook(j), ServerLook(j)') /\ Among(q, Carriers(j)) = {}
  <2>1. CASE t \in BadText
    <3> DEFINE e == OfItem("noteError", i)
               s == ClearedOthers(i)
    <3>1. e \in ItemCall /\ e.call = "noteError" /\ e.item = i
      BY <1>1, ItemCallType DEF OfItem
    <3>2. q = s \o <<e>> /\ s \in Seq(ToPage) /\ <<e>> \in Seq(ToPage)
      <4>1. s \in Seq(ToPage) /\ q = Append(s, e)
        BY <1>1, <2>1, ClearedOthersType, CallsArePageCalls
      <4>2. e \in ToPage
        BY <3>1 DEF ToPage
      <4> HIDE DEF s, e, q
      <4>3. Append(s, e) = s \o <<e>>
        BY <4>1, <4>2
      <4>4. <<e>> \in Seq(ToPage)
        BY <4>2
      <4>5. QED
        BY <4>1, <4>3, <4>4
    <3>3. /\ Leads(s, i, ServerLook(i), ServerLook(i))
          /\ \A k \in Item \ {i} : Leads(s, k, ServerLook(k), ServerLook(k)')
          /\ Among(s, Carriers(j)) = {}
      BY <1>1, <2>1, SetSourceErrors, ClearedOthersLeads
    <3> HIDE DEF s, e, q
    <3>4. Among(<<e>>, Carriers(j)) = {}
      BY <3>1, OneCallAmong DEF Carriers
    <3>5. Among(q, Carriers(j)) = {}
      BY <3>2, <3>3, <3>4, LastOfConcat
    <3>6. Leads(<<e>>, j, IF j = i THEN ServerLook(j) ELSE ServerLook(j)', ServerLook(j)')
      <4>1. CASE j = i
        <5>1. /\ ServerLook(i) = [mode |-> mode[i], status |-> errors[i] # {}]
              /\ ServerLook(i) \notin Bare /\ ServerLook(i).mode = mode[i] /\ ServerLook(i) \in Looks
          <6>1. ServerLook(i) = [mode |-> mode[i], status |-> errors[i] # {}]
            BY DEF ServerLook
          <6>2. ServerLook(i).mode = mode[i] /\ ServerLook(i) \in Looks
            BY <1>1, <6>1, ServerLookType
          <6>3. QED
            BY <1>1, <6>1, <6>2, LookTypes
        <5>2. Effect(e, ServerLook(i)) = [mode |-> mode[i], status |-> TRUE]
          BY <3>1, <5>1 DEF Effect
        <5>3. ServerLook(i)' = [mode |-> mode[i], status |-> TRUE]
          <6>1. (errors'[i] # {}) = TRUE
            BY <2>1, SetSourceErrors
          <6>2. QED
            BY <1>1, <6>1 DEF ServerLook
        <5>4. e \in Calls(i)
          BY <3>1 DEF Calls
        <5>5. Leads(<<e>>, i, ServerLook(i), Effect(e, ServerLook(i)))
          BY <3>1, <5>1, <5>4, LeadsOne
        <5>6. QED
          BY <4>1, <5>2, <5>3, <5>5
      <4>2. CASE j # i
        <5>1. e \notin Calls(j)
          BY <3>1, <4>2 DEF Calls
        <5>2. ServerLook(j)' \in Looks
          <6>1. ItemTypeOK'
            BY <1>1, SetSourceSends
          <6>2. mode'[j] \in Mode /\ (errors'[j] # {}) \in BOOLEAN
            BY <6>1 DEF ItemTypeOK
          <6>3. QED
            BY <6>2, LookTypes DEF ServerLook
        <5>3. QED
          BY <3>1, <4>2, <5>1, <5>2, LeadsOne
      <4>3. QED
        BY <4>1, <4>2
    <3>7. Leads(s, j, ServerLook(j), IF j = i THEN ServerLook(j) ELSE ServerLook(j)')
      BY <3>3
    <3>8. Leads(s \o <<e>>, j, ServerLook(j), ServerLook(j)')
      BY <3>2, <3>6, <3>7, LeadsConcat
    <3>9. QED
      BY <3>2, <3>5, <3>8
  <2>2. CASE t \notin BadText
    <3>1. q = Cleared(i)
      BY <2>2
    <3>2. /\ Leads(Cleared(i), i, ServerLook(i), [mode |-> mode[i], status |-> errors'[i] # {}])
          /\ \A k \in Item \ {i} : Leads(Cleared(i), k, ServerLook(k), ServerLook(k))
          /\ Among(Cleared(i), Carriers(j)) = {}
      BY <1>1, <2>2, SetSourceErrors, ClearedLeads
    <3>3. j # i => ServerLook(j)' = ServerLook(j)
      BY <1>1, <2>2, SetSourceErrors DEF ServerLook
    <3>4. ServerLook(i)' = [mode |-> mode[i], status |-> errors'[i] # {}]
      BY <1>1 DEF ServerLook
    <3>5. QED
      BY <3>1, <3>2, <3>3, <3>4
  <2>3. QED
    BY <2>1, <2>2
<1> HIDE DEF p, q
<1>6. p \o q \in Seq(ItemCall) /\ p \in Seq(ToPage) /\ q \in Seq(ToPage)
  BY <1>3, CallsArePageCalls
<1>7. ASSUME NEW j \in Item PROVE Followed(p \o q, j)
  <2>1. Leads(p \o q, j, ServerLook(j), ServerLook(j)')
    BY <1>4, <1>5, <1>6, LeadsConcat
  <2>2. /\ Among(p \o q, Carriers(j)) = {} => Among(p, Carriers(j)) = {}
        /\ LastIn(p \o q, Carriers(j), Carrying(j, source'[j]))
    BY <1>4, <1>5, <1>6, LastOfConcat
  <2>3. Carried(p \o q, j)
    BY <1>1, <1>4, <2>2 DEF Carried
  <2>4. QED
    BY <2>1, <2>3 DEF Followed
<1>8. QED
  BY <1>2, <1>6, <1>7

(* A step that sends one call about its item and leaves the others alone. *)
LEMMA ItemCallFollows ==
  ASSUME ItemTypeOK, NEW i \in Item, NEW m \in ItemCall, m.item = i, Send(<<m>>),
         \A j \in Item \ {i} : /\ j \in built' <=> j \in built
                               /\ source'[j] = source[j] /\ mode'[j] = mode[j]
                               /\ errors'[j] = errors[j],
         ServerLook(i)' = Effect(m, ServerLook(i)),
         i \in built' => IF m \in Carriers(i) THEN m.value = source'[i]
                         ELSE i \in built /\ source'[i] = source[i]
  PROVE  \E ms \in Seq(ItemCall) : Send(ms) /\ \A j \in Item : Followed(ms, j)
<1>1. ASSUME NEW j \in Item \ {i} PROVE ServerLook(j)' = ServerLook(j)
  BY DEF ServerLook
<1>2. ASSUME NEW j \in Item PROVE Followed(<<m>>, j)
  <2>1. CASE j = i
    BY <2>1, OneCallFollows
  <2>2. CASE j # i
    BY <1>1, <2>2, OneCallFollows
  <2>3. QED
    BY <2>1, <2>2
<1>3. <<m>> \in Seq(ItemCall)
  OBVIOUS
<1>4. QED
  BY <1>2, <1>3

LEMMA BuiltLook ==
  ASSUME ItemTypeOK, NEW i \in built
  PROVE  /\ i \in Item /\ mode[i] \in Mode /\ ServerLook(i) \in Looks
         /\ ServerLook(i) = [mode |-> mode[i], status |-> errors[i] # {}]
         /\ ServerLook(i) \notin Bare /\ ServerLook(i).mode = mode[i]
         /\ ServerLook(i).status = (errors[i] # {})
<1>1. i \in Item /\ mode[i] \in Mode /\ (errors[i] # {}) \in BOOLEAN
  BY DEF ItemTypeOK
<1>2. ServerLook(i) = [mode |-> mode[i], status |-> errors[i] # {}]
  BY DEF ServerLook
<1>3. ServerLook(i) \in Looks /\ ServerLook(i).mode = mode[i]
  BY <1>1, <1>2, ServerLookType
<1>4. ServerLook(i) \notin Bare /\ ServerLook(i).status = (errors[i] # {})
  BY <1>1, <1>2, LookTypes
<1>5. QED
  BY <1>1, <1>2, <1>3, <1>4

LEMMA RenderCalls ==
  ASSUME NEW i \in Item, NEW x \in Mode, NEW c \in {"syncChildren", "replaceNode"},
         NEW m, m = Render(c, i, x)
  PROVE  m \in ItemCall /\ m.item = i /\ m.call = c /\ m.value = Blank /\ m.mode = x
<1>1. m \in ItemCall
  BY ItemCallType
<1>2. m.item = i /\ m.call = c /\ m.value = Blank /\ m.mode = x
  BY DEF Render
<1>3. QED
  BY <1>1, <1>2

LEMMA AddItemFollows ==
  ASSUME ItemTypeOK, NEW i \in Item, AddItem(i)
  PROVE  \E ms \in Seq(ItemCall) : Send(ms) /\ \A j \in Item : Followed(ms, j)
<1>1. PICK x \in Mode : /\ mode' = [mode EXCEPT ![i] = x]
                        /\ Send(<<Render("syncChildren", i, x)>>)
  BY DEF AddItem, OnItems
<1>2. /\ i \notin built /\ built' = built \cup {i}
      /\ source' = [source EXCEPT ![i] = Blank] /\ errors' = [errors EXCEPT ![i] = {}]
  BY DEF AddItem, OnItems, NoModel
<1> DEFINE m == Render("syncChildren", i, x)
<1>3. /\ m \in ItemCall /\ m.item = i /\ m.call = "syncChildren"
      /\ m.value = Blank /\ m.mode = x
  BY RenderCalls
<1> HIDE DEF m
<1>4. ServerLook(i) = NoRow /\ ServerLook(i)' = [mode |-> x, status |-> FALSE]
  <2>1. i \in built' /\ mode'[i] = x /\ (errors'[i] # {}) = FALSE
    BY <1>1, <1>2 DEF ItemTypeOK
  <2>2. ServerLook(i) = NoRow
    BY <1>2 DEF ServerLook
  <2>3. QED
    BY <2>1, <2>2 DEF ServerLook
<1>5. ServerLook(i)' = Effect(m, ServerLook(i))
  BY <1>3, <1>4, EffectOnNoRow
<1>6. \A j \in Item \ {i} : /\ j \in built' <=> j \in built
                            /\ source'[j] = source[j] /\ mode'[j] = mode[j]
                            /\ errors'[j] = errors[j]
  BY <1>1, <1>2 DEF ItemTypeOK
<1>7. m.value = source'[i] /\ m \in Carriers(i)
  BY <1>2, <1>3 DEF ItemTypeOK, Carriers
<1>8. Send(<<m>>)
  BY <1>1 DEF m
<1>9. QED
  BY <1>3, <1>5, <1>6, <1>7, <1>8, ItemCallFollows

(* Sent is followed by each item but those that are rendered again; one     *)
(* that is removed is gone from the page, whatever it looked like.          *)
Sent(ms) ==
  /\ Send(ms)
  /\ \A j \in Item : j \notin again /\ j \notin again' => Followed(ms, j)
  /\ \A j \in again : j \notin again' =>
       j \notin built' /\ \A u \in Looks : Leads(ms, j, u, ServerLook(j)')

LEMMA RemoveItemFollows ==
  ASSUME ItemTypeOK, NEW i \in Item, RemoveItem(i)
  PROVE  \E ms \in Seq(ItemCall) : Sent(ms)
<1> DEFINE m == OfItem("deleteNodes", i)
<1>1. m \in ItemCall /\ m.item = i /\ m.call = "deleteNodes" /\ Send(<<m>>)
  BY ItemCallType DEF OfItem, RemoveItem, OnItems
<1> HIDE DEF m
<1>2. i \notin built' /\ ServerLook(i)' = NoRow /\ \A u : Effect(m, u) = NoRow
  BY <1>1 DEF RemoveItem, OnItems, ServerLook, Effect
<1>3. \A j \in Item \ {i} : /\ j \in built' <=> j \in built
                            /\ source'[j] = source[j] /\ mode'[j] = mode[j]
                            /\ errors'[j] = errors[j]
  BY DEF RemoveItem, OnItems, ItemTypeOK
<1>4. again' = again \ {i}
  BY DEF RemoveItem, OnItems
<1>5. ASSUME NEW j \in Item PROVE Followed(<<m>>, j)
  <2>1. CASE j = i
    BY <1>1, <1>2, <2>1, OneCallFollows
  <2>2. CASE j # i
    <3>1. ServerLook(j)' = ServerLook(j)
      BY <1>3, <2>2 DEF ServerLook
    <3>2. QED
      BY <1>1, <1>3, <2>2, <3>1, OneCallFollows
  <2>3. QED
    BY <2>1, <2>2
<1>6. ASSUME NEW u \in Looks PROVE Leads(<<m>>, i, u, ServerLook(i)')
  <2>1. m \in Calls(i)
    BY <1>1 DEF Calls
  <2>2. Leads(<<m>>, i, u, Effect(m, u))
    BY <1>1, <2>1, LeadsOne
  <2>3. QED
    BY <1>2, <2>2
<1>7. Sent(<<m>>)
  BY <1>1, <1>2, <1>4, <1>5, <1>6 DEF Sent
<1>8. <<m>> \in Seq(ItemCall)
  BY <1>1
<1>9. QED
  BY <1>7, <1>8

LEMMA RenderItemFollows ==
  ASSUME ItemTypeOK, NEW i \in Item, RenderItem(i)
  PROVE  \E ms \in Seq(ItemCall) : Sent(ms)
<1>1. i \in built /\ again' = again \cup {i} /\ UNCHANGED <<built, source, errors, mode>>
  BY DEF RenderItem, OnItems
<1>2. PICK c \in {"syncChildren", "replaceNode"} : Send(<<Render(c, i, mode[i])>>)
  BY DEF RenderItem, OnItems
<1> DEFINE m == Render(c, i, mode[i])
<1>3. mode[i] \in Mode
  BY DEF ItemTypeOK
<1>4. m \in ItemCall /\ m.item = i
  BY <1>3, RenderCalls
<1>5. Send(<<m>>)
  BY <1>2
<1> HIDE DEF m
<1>6. ASSUME NEW j \in Item, j # i PROVE Followed(<<m>>, j)
  <2>1. ServerLook(j)' = ServerLook(j)
    BY <1>1 DEF ServerLook
  <2>2. QED
    BY <1>1, <1>4, <1>6, <2>1, OneCallFollows
<1>7. Sent(<<m>>)
  BY <1>1, <1>5, <1>6 DEF Sent
<1>8. <<m>> \in Seq(ItemCall)
  BY <1>4
<1>9. QED
  BY <1>7, <1>8

LEMMA NoteValidationErrorFollows ==
  ASSUME ItemTypeOK, NEW i \in Item, NoteValidationError(i)
  PROVE  \E ms \in Seq(ItemCall) : Send(ms) /\ \A j \in Item : Followed(ms, j)
<1> DEFINE m == OfItem("noteError", i)
<1>1. /\ i \in built /\ errors' = [errors EXCEPT ![i] = @ \cup {"validation"}]
      /\ Send(<<m>>) /\ UNCHANGED <<built, source, mode>>
  BY DEF NoteValidationError, OnItems
<1>2. m \in ItemCall /\ m.item = i /\ m.call = "noteError" /\ m \notin Carriers(i)
  BY ItemCallType DEF OfItem, Carriers
<1> HIDE DEF m
<1>3. (errors'[i] # {}) = TRUE /\ \A j \in Item \ {i} : errors'[j] = errors[j]
  BY <1>1 DEF ItemTypeOK
<1>4. ServerLook(i)' = [mode |-> mode[i], status |-> TRUE]
  BY <1>1, <1>3 DEF ServerLook
<1>5. Effect(m, ServerLook(i)) = [mode |-> mode[i], status |-> TRUE]
  <2>1. ServerLook(i) \notin Bare /\ ServerLook(i).mode = mode[i]
    BY <1>1, BuiltLook
  <2>2. QED
    BY <1>2, <2>1 DEF Effect
<1>6. QED
  BY <1>1, <1>2, <1>3, <1>4, <1>5, ItemCallFollows

LEMMA ClearValidationErrorFollows ==
  ASSUME ItemTypeOK, NEW i \in Item, ClearValidationError(i)
  PROVE  \E ms \in Seq(ItemCall) : Send(ms) /\ \A j \in Item : Followed(ms, j)
<1>1. /\ i \in built /\ "validation" \in errors[i]
      /\ errors' = [errors EXCEPT ![i] = @ \ {"validation"}]
      /\ Send(Cleared(i)) /\ UNCHANGED <<built, source, mode>>
  BY DEF ClearValidationError, OnItems
<1>2. /\ Leads(Cleared(i), i, ServerLook(i), [mode |-> mode[i], status |-> errors'[i] # {}])
      /\ \A j \in Item \ {i} : Leads(Cleared(i), j, ServerLook(j), ServerLook(j))
      /\ \A j : Among(Cleared(i), Carriers(j)) = {}
  BY <1>1, ClearedLeads
<1>3. ASSUME NEW j \in Item PROVE Followed(Cleared(i), j)
  <2>1. Carried(Cleared(i), j)
    BY <1>1, <1>2 DEF Carried
  <2>2. CASE j = i
    <3>1. ServerLook(i)' = [mode |-> mode[i], status |-> errors'[i] # {}]
      BY <1>1 DEF ServerLook
    <3>2. QED
      BY <1>2, <2>1, <2>2, <3>1 DEF Followed
  <2>3. CASE j # i
    <3>1. errors'[j] = errors[j]
      BY <1>1, <2>3 DEF ItemTypeOK
    <3>2. ServerLook(j)' = ServerLook(j)
      BY <1>1, <3>1 DEF ServerLook
    <3>3. QED
      BY <1>2, <2>1, <2>3, <3>2 DEF Followed
  <2>4. QED
    BY <2>2, <2>3
<1>4. QED
  BY <1>1, <1>3, ClearedType

LEMMA ChangeModeFollows ==
  ASSUME ItemTypeOK, NEW i \in Item, ChangeMode(i)
  PROVE  \E ms \in Seq(ItemCall) : Send(ms) /\ \A j \in Item : Followed(ms, j)
<1>1. i \in built /\ UNCHANGED <<built, source, errors>>
  BY DEF ChangeMode, OnItems
<1>2. PICK x \in Mode : /\ mode' = [mode EXCEPT ![i] = x]
                        /\ Send(<<[call |-> "setEntryMode", item |-> i, mode |-> x]>>)
  BY DEF ChangeMode, OnItems
<1> DEFINE m == [call |-> "setEntryMode", item |-> i, mode |-> x]
<1>3. /\ m \in ItemCall /\ m.call = "setEntryMode" /\ m.item = i /\ m.mode = x
      /\ m \notin Carriers(i) /\ Send(<<m>>)
  BY <1>2, ItemCallType DEF Carriers
<1> HIDE DEF m
<1>4. \A j \in Item \ {i} : mode'[j] = mode[j]
  BY <1>2 DEF ItemTypeOK
<1>5. ServerLook(i)' = [mode |-> x, status |-> errors[i] # {}]
  <2>1. i \in built' /\ mode'[i] = x
    BY <1>1, <1>2 DEF ItemTypeOK
  <2>2. QED
    BY <1>1, <2>1 DEF ServerLook
<1>6. Effect(m, ServerLook(i)) = [mode |-> x, status |-> errors[i] # {}]
  <2>1. ServerLook(i) \notin Bare /\ ServerLook(i).status = (errors[i] # {})
    BY <1>1, BuiltLook
  <2>2. QED
    BY <1>3, <2>1 DEF Effect
<1>7. QED
  BY <1>1, <1>3, <1>4, <1>5, <1>6, ItemCallFollows

LEMMA ItemStepFollows ==
  ASSUME ItemTypeOK, NEW i \in Item, ItemStep(i)
  PROVE  \E ms \in Seq(ItemCall) : Sent(ms)
<1>1. CASE SetItemValue(i)
  <2>1. i \in built
    BY <1>1 DEF SetItemValue
  <2>2. PICK t \in Text : SetSource(i, t)
    BY <1>1 DEF SetItemValue, OnItems
  <2>3. again' = again
    BY <2>2 DEF SetSource
  <2>4. QED
    BY <2>1, <2>2, <2>3, SetSourceFollows DEF Sent
<1>2. CASE AddItem(i) \/ NoteValidationError(i) \/ ClearValidationError(i) \/ ChangeMode(i)
  <2>1. again' = again
    BY <1>2 DEF AddItem, NoteValidationError, ClearValidationError, ChangeMode, OnItems
  <2>2. \E ms \in Seq(ItemCall) : Send(ms) /\ \A j \in Item : Followed(ms, j)
    BY <1>2, AddItemFollows, NoteValidationErrorFollows, ClearValidationErrorFollows,
       ChangeModeFollows
  <2>3. QED
    BY <2>1, <2>2 DEF Sent
<1>3. QED
  BY <1>1, <1>2, RemoveItemFollows, RenderItemFollows DEF ItemStep

------------------------------------------------------------------------------
(* The inductive invariant, for the items not rendered again: the calls     *)
(* under way lead the page from what it shows to what the server holds; the *)
(* last that carries a text carries the server's, and where none does, the  *)
(* page shows the server's or a text other than the server's is under way   *)
(* to it.                                                                   *)
Inputs(i) == {m \in ToServer : m.command = "input" /\ m.item = i}

Pending(i) == \E n \in DOMAIN toServer : toServer[n] \in Inputs(i) /\ toServer[n].value # source[i]

TextInv(i) ==
  /\ LastIn(toPage, Carriers(i), Carrying(i, source[i]))
  /\ Among(toPage, Carriers(i)) = {} =>
       \A r \in Shown(rows, i) : r.cells /\ r.value # source[i] => Pending(i)

FollowInv ==
  /\ link = "CONNECTING" =>
       rows = <<>> /\ built = {} /\ \A i \in Item : errors[i] = {} /\ source[i] = Blank
  /\ link # "OPEN" => toPage = <<>>
  /\ link = "OPEN" =>
       /\ \A i \in Item : i \notin again => Leads(toPage, i, Look(rows, i), ServerLook(i))
       /\ \A i \in built : i \notin again => TextInv(i)

(* Messages the server sends, with what it makes of them. *)
LEMMA SendFollows ==
  ASSUME FormInv, FollowInv, link = "OPEN", link' = "OPEN", rows' = rows,
         NEW ms \in Seq(ItemCall), Sent(ms), built' \subseteq Item,
         \A j \in built' : source'[j] = source[j] /\ Pending(j) => Pending(j)'
  PROVE  FollowInv'
<1>1. toPage' = toPage \o ms /\ toPage \in Seq(ToPage) /\ ms \in Seq(ToPage)
  BY CallsArePageCalls DEF Sent, Send, FormInv
<1>2. ASSUME NEW i \in Item, i \notin again' PROVE Leads(toPage', i, Look(rows', i), ServerLook(i)')
  <2>1. \E v \in Looks : Leads(toPage, i, Look(rows, i), v) /\ Leads(ms, i, v, ServerLook(i)')
    <3>1. CASE i \in again
      <4>1. Look(rows, i) \in Looks
        BY LookIsOfRow DEF FormInv
      <4>2. PICK v \in Looks : Leads(toPage, i, Look(rows, i), v)
        BY <1>1, <4>1, LeadsSomewhere
      <4>3. Leads(ms, i, v, ServerLook(i)')
        BY <1>2, <3>1 DEF Sent
      <4>4. QED
        BY <4>2, <4>3
    <3>2. CASE i \notin again
      <4>1. Followed(ms, i)
        BY <1>2, <3>2 DEF Sent
      <4>2. Leads(toPage, i, Look(rows, i), ServerLook(i)) /\ Leads(ms, i, ServerLook(i), ServerLook(i)')
        BY <3>2, <4>1 DEF FollowInv, Followed
      <4>3. ServerLook(i) \in Looks
        BY ServerLookType DEF FormInv
      <4>4. QED
        BY <4>2, <4>3
    <3>3. QED
      BY <3>1, <3>2
  <2>2. PICK v \in Looks : Leads(toPage, i, Look(rows, i), v) /\ Leads(ms, i, v, ServerLook(i)')
    BY <2>1
  <2>3. Leads(toPage \o ms, i, Look(rows, i), ServerLook(i)')
    BY <1>1, <2>2, LeadsConcat
  <2>4. QED
    BY <1>1, <2>3
<1>3. ASSUME NEW i \in Item, i \in built', i \notin again' PROVE TextInv(i)'
  <2>1. i \notin again /\ Followed(ms, i)
    BY <1>3 DEF Sent
  <2>2. IF Among(ms, Carriers(i)) = {} THEN i \in built /\ source'[i] = source[i]
        ELSE LastIn(ms, Carriers(i), Carrying(i, source'[i]))
    BY <1>3, <2>1 DEF Followed, Carried
  <2>3. CASE Among(ms, Carriers(i)) = {}
    <3>1. i \in built /\ source'[i] = source[i] /\ TextInv(i)
      BY <2>1, <2>2, <2>3 DEF FollowInv
    <3>2. LastIn(toPage', Carriers(i), Carrying(i, source'[i]))
      BY <1>1, <2>3, <3>1, LastOfConcat DEF TextInv
    <3>3. ASSUME Among(toPage', Carriers(i)) = {}, NEW r \in Shown(rows', i),
                 r.cells, r.value # source'[i]
          PROVE  Pending(i)'
      <4>1. Among(toPage, Carriers(i)) = {} /\ r \in Shown(rows, i)
        BY <1>1, <3>3, LastOfConcat
      <4>2. Pending(i)
        BY <3>1, <3>3, <4>1 DEF TextInv
      <4>3. QED
        BY <1>3, <3>1, <4>2
    <3>4. QED
      BY <3>2, <3>3 DEF TextInv
  <2>4. CASE Among(ms, Carriers(i)) # {}
    <3>1. /\ LastIn(toPage', Carriers(i), Carrying(i, source'[i]))
          /\ Among(toPage', Carriers(i)) # {}
      BY <1>1, <2>2, <2>4, LastOfConcat
    <3>2. QED
      BY <3>1 DEF TextInv
  <2>5. QED
    BY <2>3, <2>4
<1>4. QED
  BY <1>2, <1>3 DEF FollowInv

(* Nothing of the items, their rows and what is under way about them moves, *)
(* but that the page may send the server more.                              *)
LEMMA FollowUnchanged ==
  ASSUME FollowInv, UNCHANGED <<itemVars, link, toPage, rows>>,
         \A i \in built : Pending(i) => Pending(i)'
  PROVE  FollowInv'
<1>1. UNCHANGED <<built, source, errors, mode, again>>
  BY DEF itemVars
<1>2. \A i \in Item : ServerLook(i)' = ServerLook(i)
  BY <1>1 DEF ServerLook
<1>3. \A i \in built : TextInv(i) => TextInv(i)'
  BY <1>1 DEF TextInv
<1>4. QED
  BY <1>1, <1>2, <1>3 DEF FollowInv

LEMMA PendingKept ==
  ASSUME FormInv, UNCHANGED source,
         toServer' = toServer \/ \E m : toServer' = Append(toServer, m)
  PROVE  \A i : Pending(i) => Pending(i)'
<1>1. CASE toServer' = toServer
  BY <1>1 DEF Pending
<1>2. CASE \E m : toServer' = Append(toServer, m)
  <2>1. PICK m : toServer' = Append(toServer, m)
    BY <1>2
  <2>2. toServer \in Seq(ToServer)
    BY DEF FormInv
  <2>3. \A n \in DOMAIN toServer : n \in DOMAIN toServer' /\ toServer'[n] = toServer[n]
    BY <2>1, <2>2
  <2>4. QED
    BY <2>3 DEF Pending
<1>3. QED
  BY <1>1, <1>2

LEMMA OpenFollows ==
  ASSUME FormInv, FollowInv, OpenWebSocket
  PROVE  FollowInv'
<1> DEFINE S == {Render("syncChildren", i, mode[i]) : i \in built'}
           s == toPage'
<1>1. /\ link' = "OPEN" /\ built' \in {{}, Item} /\ s = SetToSeq(S)
      /\ UNCHANGED <<source, errors, mode, toServer, rows>>
      /\ rows = <<>> /\ built = {} /\ \A i \in Item : errors[i] = {} /\ source[i] = Blank
  BY DEF OpenWebSocket, pageVars, FollowInv
<1>2. s \in Seq(ToPage) /\ ItemTypeOK /\ ItemTypeOK'
  BY OpenKeeps DEF FormInv
<1>3. IsFiniteSet(S)
  <2> DEFINE f == [i \in built' |-> Render("syncChildren", i, mode[i])]
  <2>1. f \in Surjection(built', S)
    BY DEF Surjection
  <2>2. IsFiniteSet(built')
    BY <1>1, FS_EmptySet
  <2>3. QED
    BY <2>1, <2>2, FS_Surjection DEF ExistsSurjection
<1>4. /\ \A n \in DOMAIN s : s[n] \in S
      /\ \A x \in S : \E n \in DOMAIN s : s[n] = x
      /\ \A m, n \in DOMAIN s : s[m] = s[n] => m = n
  <2>1. /\ SetToSeq(S) \in Seq(S) /\ \A x \in S : \E n \in DOMAIN SetToSeq(S) : SetToSeq(S)[n] = x
        /\ \A m, n \in DOMAIN SetToSeq(S) : SetToSeq(S)[m] = SetToSeq(S)[n] => m = n
    BY <1>3, SetToSeqRange
  <2> HIDE DEF S, s
  <2>2. QED
    BY <1>1, <2>1
<1>5. \A x \in S : \E i \in built' : x = Render("syncChildren", i, mode[i])
  OBVIOUS
<1>6. \A i \in built' : Render("syncChildren", i, mode[i]) \in S
  OBVIOUS
<1> DEFINE e(i) == Render("syncChildren", i, mode[i])
<1>7. ASSUME NEW i \in Item
      PROVE  /\ e(i) \in ItemCall /\ e(i).item = i /\ e(i).call = "syncChildren"
             /\ e(i).value = source[i] /\ e(i).mode = mode[i] /\ e(i) \in Carriers(i)
             /\ mode[i] \in Mode
  <2>1. source[i] = Blank /\ mode[i] \in Mode
    BY <1>1, <1>2 DEF ItemTypeOK
  <2>2. e(i) \in ItemCall /\ e(i).item = i /\ e(i).call = "syncChildren"
        /\ e(i).value = Blank /\ e(i).mode = mode[i]
    BY <2>1, RenderCalls
  <2> HIDE DEF e
  <2>3. QED
    BY <2>1, <2>2 DEF Carriers
<1>8. \A n \in DOMAIN s : \E i \in built' : s[n] = e(i)
  BY <1>4, <1>5
<1>9. \A i \in built' : \E n \in DOMAIN s : s[n] = e(i)
  BY <1>4, <1>6
<1>10. built' \subseteq Item
  BY <1>1
<1> HIDE DEF S, s, e
<1>11. ASSUME NEW i \in Item PROVE Leads(s, i, Look(rows, i), ServerLook(i)')
  <2>1. Look(rows, i) = NoRow
    BY <1>1 DEF Look, Shown
  <2>2. NoRow \in Looks
    BY LookTypes
  <2>3. CASE i \in built'
    <3>1. \A n \in Among(s, Calls(i)) : s[n] = e(i)
      BY <1>7, <1>8, <1>10 DEF Among, Calls
    <3>2. Among(s, Calls(i)) # {}
      BY <1>7, <1>9, <2>3 DEF Among, Calls
    <3> DEFINE v == [mode |-> mode[i], status |-> FALSE]
    <3>3. Effect(e(i), NoRow) = v
      BY <1>7, EffectOnNoRow
    <3>4. \A m, n \in Among(s, Calls(i)) : m = n
      BY <1>4, <3>1 DEF Among
    <3>6. ServerLook(i)' = v
      <4>1. (errors'[i] # {}) = FALSE /\ mode'[i] = mode[i]
        BY <1>1
      <4>2. QED
        BY <2>3, <4>1 DEF ServerLook
    <3> HIDE DEF v
    <3>8. Leads(s, i, NoRow, IF Among(s, Calls(i)) = {} THEN NoRow ELSE Effect(e(i), NoRow))
      BY <1>2, <1>7, <2>2, <3>1, <3>4, LeadsSame
    <3>9. QED
      BY <2>1, <3>2, <3>3, <3>6, <3>8
  <2>4. CASE i \notin built'
    <3>1. Among(s, Calls(i)) = {}
      BY <1>7, <1>8, <1>10, <2>4 DEF Among, Calls
    <3>2. ServerLook(i)' = NoRow
      BY <2>4 DEF ServerLook
    <3>3. QED
      BY <1>2, <2>1, <2>2, <3>1, <3>2, LeadsAway
  <2>5. QED
    BY <2>3, <2>4
<1>12. ASSUME NEW i \in Item, i \in built' PROVE TextInv(i)'
  <2>1. \A n \in Among(s, Carriers(i)) : s[n] = e(i)
    BY <1>7, <1>8, <1>10 DEF Among, Carriers
  <2>2. Among(s, Carriers(i)) # {}
    BY <1>7, <1>9, <1>12 DEF Among
  <2>3. e(i) \in Carrying(i, source'[i])
    BY <1>1, <1>7 DEF Carrying
  <2>4. LastIn(s, Carriers(i), Carrying(i, source'[i]))
    BY <2>1, <2>3 DEF LastIn
  <2>5. QED
    BY <2>2, <2>4 DEF TextInv, s
<1>13. \A i \in Item : Leads(toPage', i, Look(rows', i), ServerLook(i)')
  BY <1>1, <1>11 DEF s
<1>14. QED
  BY <1>1, <1>10, <1>12, <1>13 DEF FollowInv

LEMMA TellFollows ==
  ASSUME FormInv, FollowInv, NEW k \in 1..Listeners, TellListener(k)
  PROVE  FollowInv'
<1>1. PICK n \in 1..(2 * Count) :
        IF k = 1 THEN Send(<<ChangeAction(ActionAt(n), n > Count)>>) ELSE UNCHANGED toPage
  BY DEF TellListener, OnServer
<1>2. link = "OPEN" /\ UNCHANGED <<itemVars, link, toServer, rows>>
  BY DEF TellListener, OnServer, pageVars
<1>3. CASE k # 1
  <2>1. \A i : Pending(i) => Pending(i)'
    BY <1>2 DEF Pending, itemVars
  <2>2. QED
    BY <1>1, <1>2, <1>3, <2>1, FollowUnchanged
<1>4. CASE k = 1
  <2> DEFINE e == ChangeAction(ActionAt(n), n > Count)
  <2>1. e \in ButtonCall
    <3>1. ActionAt(n) \in Action
      BY ActionAtType
    <3>2. QED
      BY <3>1 DEF ChangeAction, ButtonCall
  <2>2. toPage' = toPage \o <<e>>
    BY <1>1, <1>2, <1>4 DEF Send
  <2> HIDE DEF e
  <2>3. toPage \in Seq(ToPage) /\ <<e>> \in Seq(ToPage) /\ e \notin ItemCall
    BY <2>1, ItemCallIsNoButtonCall DEF FormInv, ToPage
  <2>4. \A i : Among(<<e>>, Calls(i)) = {} /\ Among(<<e>>, Carriers(i)) = {}
    BY <2>3, OneCallAmong DEF Calls, Carriers
  <2>5. UNCHANGED <<built, source, errors, mode, again>>
    BY <1>2 DEF itemVars
  <2>6. ASSUME NEW i \in Item, i \notin again PROVE Leads(toPage', i, Look(rows', i), ServerLook(i)')
    <3>1. ServerLook(i) \in Looks /\ Leads(toPage, i, Look(rows, i), ServerLook(i))
      BY <1>2, <2>6, ServerLookType DEF FormInv, FollowInv
    <3>2. Leads(<<e>>, i, ServerLook(i), ServerLook(i))
      BY <2>3, <2>4, <3>1, LeadsAway
    <3>3. ServerLook(i)' = ServerLook(i)
      BY <2>5 DEF ServerLook
    <3>4. Leads(toPage \o <<e>>, i, Look(rows, i), ServerLook(i))
      BY <2>3, <3>1, <3>2, LeadsConcat
    <3>5. QED
      BY <1>2, <2>2, <3>3, <3>4
  <2>7. ASSUME NEW i \in built, i \notin again PROVE TextInv(i)'
    <3>1. TextInv(i)
      BY <1>2, <2>7 DEF FollowInv
    <3>2. /\ Among(toPage', Carriers(i)) = {} <=> Among(toPage, Carriers(i)) = {}
          /\ LastIn(toPage', Carriers(i), Carrying(i, source[i]))
      BY <2>2, <2>3, <2>4, <3>1, LastOfConcat DEF TextInv
    <3>3. Pending(i)' <=> Pending(i)
      BY <1>2, <2>5 DEF Pending
    <3>4. QED
      BY <1>2, <2>5, <3>1, <3>2, <3>3 DEF TextInv
  <2>8. QED
    BY <1>2, <2>5, <2>6, <2>7 DEF FollowInv
<1>5. QED
  BY <1>3, <1>4

LEMMA DeliverFollows ==
  ASSUME FormInv, FollowInv, Deliver
  PROVE  FollowInv'
<1> DEFINE m == Head(toPage)
<1>1. /\ toPage \in Seq(ToPage) /\ toPage # <<>> /\ toPage' = Tail(toPage) /\ m \in ToPage
      /\ OnMessage(m) /\ UNCHANGED <<built, source, errors, mode, again, link, toServer>>
  BY DEF Deliver, FormInv, itemVars
<1>2. link = "OPEN"
  BY <1>1 DEF FollowInv
<1>3. \A i \in Item : ServerLook(i)' = ServerLook(i)
  BY <1>1 DEF ServerLook
<1>4. ASSUME NEW i \in Item
      PROVE  /\ Look(rows', i) = IF m \in Calls(i) THEN Effect(m, Look(rows, i)) ELSE Look(rows, i)
             /\ m \in Carriers(i) => \A r \in Shown(rows', i) : r.cells => r.value = m.value
             /\ m \notin Carriers(i) =>
                  \A r \in Shown(rows', i) :
                    r.cells => \E q \in Shown(rows, i) : q.cells /\ r.value = q.value
  <2>1. CASE m \in ButtonCall
    <3>1. m \notin Calls(i) /\ m \notin Carriers(i) /\ m.call = "changeAction"
      BY <2>1, ItemCallIsNoButtonCall DEF Calls, Carriers
    <3>2. rows' = rows
      BY <1>1, <3>1 DEF OnMessage
    <3>3. QED
      BY <3>1, <3>2
  <2>2. CASE m \in ItemCall
    <3> HIDE DEF m
    <3>1. /\ Look(rows', m.item) = Effect(m, Look(rows, m.item))
          /\ \A j : j # m.item => Shown(rows', j) = Shown(rows, j)
          /\ m \in Carriers(m.item) =>
               \A r \in Shown(rows', m.item) : r.cells => r.value = m.value
          /\ m \notin Carriers(m.item) =>
               \A r \in Shown(rows', m.item) :
                 r.cells => \E q \in Shown(rows, m.item) : q.cells /\ r.value = q.value
      BY <1>1, <2>2, DeliverLooks DEF FormInv
    <3>2. CASE m.item = i
      <4>1. m \in Calls(i)
        BY <2>2, <3>2 DEF Calls
      <4>2. QED
        BY <3>1, <3>2, <4>1
    <3>3. CASE m.item # i
      <4>1. m \notin Calls(i) /\ m \notin Carriers(i)
        BY <3>3 DEF Calls, Carriers
      <4>2. Shown(rows', i) = Shown(rows, i)
        BY <3>1, <3>3
      <4>3. Look(rows', i) = Look(rows, i)
        BY <4>2, LookFollowsShown
      <4>4. QED
        BY <4>1, <4>2, <4>3
    <3>4. QED
      BY <3>2, <3>3
  <2>3. QED
    BY <1>1, <2>1, <2>2, ItemCallIsNoButtonCall
<1> HIDE DEF m
<1>5. m = Head(toPage)
  BY DEF m
<1>6. ASSUME NEW i \in Item, i \notin again PROVE Leads(toPage', i, Look(rows', i), ServerLook(i)')
  <2>1. Leads(toPage, i, Look(rows, i), ServerLook(i))
    BY <1>2, <1>6 DEF FollowInv
  <2>2. Leads(Tail(toPage), i, IF Head(toPage) \in Calls(i) THEN Effect(Head(toPage), Look(rows, i))
                                                          ELSE Look(rows, i), ServerLook(i))
    BY <1>1, <2>1, LeadsTail
  <2>3. QED
    BY <1>1, <1>3, <1>4, <1>5, <2>2
<1>7. ASSUME NEW i \in built, i \notin again PROVE TextInv(i)'
  <2>1. i \in Item /\ TextInv(i)
    BY <1>2, <1>7 DEF FormInv, ItemTypeOK, FollowInv
  <2>2. LastIn(toPage', Carriers(i), Carrying(i, source'[i]))
    BY <1>1, <2>1, LastOfTail DEF TextInv
  <2>3. ASSUME Among(toPage', Carriers(i)) = {}, NEW r \in Shown(rows', i),
               r.cells, r.value # source'[i]
        PROVE  Pending(i)'
    <3>1. m \notin Carriers(i)
      <4> SUFFICES ASSUME m \in Carriers(i) PROVE FALSE
        OBVIOUS
      <4>1. m \in Carrying(i, source[i])
        BY <1>1, <1>5, <2>1, <2>3, LastOfTail DEF TextInv
      <4>2. r.value = m.value
        BY <1>4, <2>1, <2>3
      <4>3. QED
        BY <1>1, <2>3, <4>1, <4>2 DEF Carrying
    <3>2. Among(toPage, Carriers(i)) = {}
      BY <1>1, <1>5, <2>3, <3>1, LastOfTail
    <3>3. PICK q \in Shown(rows, i) : q.cells /\ r.value = q.value
      BY <1>4, <2>1, <2>3, <3>1
    <3>4. Pending(i)
      BY <1>1, <2>1, <2>3, <3>2, <3>3 DEF TextInv
    <3>5. QED
      BY <1>1, <3>4 DEF Pending
  <2>4. QED
    BY <2>2, <2>3 DEF TextInv
<1>8. QED
  BY <1>1, <1>2, <1>6, <1>7 DEF FollowInv

LEMMA TypeFollows ==
  ASSUME FormInv, FollowInv, NEW n \in 1..Cardinality(Item), Type(n)
  PROVE  FollowInv'
<1> DEFINE i == rows[n].item
<1>1. PICK t \in Text : /\ rows' = [rows EXCEPT ![n].value = t]
                        /\ SendServer([command |-> "input", item |-> rows[n].item, value |-> t])
  BY DEF Type
<1>2. n \in DOMAIN rows /\ UNCHANGED <<built, source, errors, mode, again, link, toPage>> /\ RowsOK(rows)
  BY DEF Type, itemVars, FormInv
<1>3. CASE link # "OPEN"
  <2>1. link # "CONNECTING"
    <3>1. DOMAIN <<>> = {}
      OBVIOUS
    <3>2. QED
      BY <1>2, <3>1 DEF FollowInv
  <2>2. QED
    BY <1>2, <1>3, <2>1 DEF FollowInv
<1>4. CASE link = "OPEN"
  <2> DEFINE e == [command |-> "input", item |-> i, value |-> t]
             new == [k \in RowsOf(i) |-> [rows[k] EXCEPT !.value = t]]
  <2>1. n \in RowsOf(i)
    BY <1>2 DEF RowsOf
  <2>2. RowsOf(i) = {n} /\ rows[n] \in Shown(rows, i) /\ rows[n] \in Row /\ i \in Item
    BY <1>2, <2>1, RowsOfShown, RowOrders
  <2>3. rows' = [k \in DOMAIN rows |-> IF k \in RowsOf(i) THEN new[k] ELSE rows[k]]
    <3>1. rows' = [k \in DOMAIN rows |-> IF k = n THEN [rows[k] EXCEPT !.value = t] ELSE rows[k]]
      BY <1>1, <1>2 DEF RowsOK
    <3>2. \A k : k \in RowsOf(i) <=> k = n
      BY <2>2
    <3>3. new[n] = [rows[n] EXCEPT !.value = t]
      BY <2>1
    <3> HIDE DEF new, i
    <3>4. QED
      BY <3>1, <3>2, <3>3
  <2>4. new[n] = [rows[n] EXCEPT !.value = t]
    BY <2>1
  <2>5. e \in ToServer /\ e.item = i /\ e.command = "input" /\ e.value = t
    BY <2>2 DEF ToServer
  <2>6. toServer' = Append(toServer, e) /\ toServer \in Seq(ToServer)
    BY <1>1, <1>4 DEF SendServer, FormInv
  <2> HIDE DEF new, e, i
  <2>7. new[n].item = i /\ new[n].value = t /\ LookOf(new[n]) = LookOf(rows[n])
    <3>1. rows[n].item = i
      BY DEF i
    <3>2. QED
      BY <2>2, <2>4, <3>1, RowChanges DEF LookOf
  <2>8. \A j : Shown(rows', j) = IF j = i THEN {new[k] : k \in RowsOf(i)} ELSE Shown(rows, j)
    <3>1. \A k \in RowsOf(i) : new[k].item = i
      BY <2>2, <2>7
    <3>2. QED
      BY <2>3, <3>1, ShownBecomes
  <2>9. Shown(rows', i) = {new[n]}
    BY <2>2, <2>8
  <2>10. RowsOK(rows')
    BY TypeKeeps
  <2>11. \A j : Look(rows', j) = Look(rows, j)
    <3> TAKE j
    <3>1. CASE j = i
      <4>1. Look(rows', i) = LookOf(new[n])
        BY <2>9, <2>10, LookIsOfRow
      <4>2. Look(rows, i) = LookOf(rows[n])
        BY <1>2, <2>2, LookIsOfRow
      <4>3. QED
        BY <2>7, <3>1, <4>1, <4>2
    <3>2. CASE j # i
      BY <2>8, <3>2, LookFollowsShown
    <3>3. QED
      BY <3>1, <3>2
  <2>12. \A j \in Item : ServerLook(j)' = ServerLook(j)
    BY <1>2 DEF ServerLook
  <2>13. \A j \in Item : j \notin again => Leads(toPage', j, Look(rows', j), ServerLook(j)')
    BY <1>2, <1>4, <2>11, <2>12 DEF FollowInv
  <2>14. \A j : Pending(j) => Pending(j)'
    BY <1>2, <2>6, PendingKept
  <2>15. ASSUME NEW j \in built, j \notin again PROVE TextInv(j)'
    <3>1. TextInv(j)
      BY <1>4, <2>15 DEF FollowInv
    <3>2. ASSUME Among(toPage, Carriers(j)) = {}, NEW r \in Shown(rows', j),
                 r.cells, r.value # source[j]
          PROVE  Pending(j)'
      <4>1. CASE j = i
        <5>1. r.value = t
          BY <2>7, <2>9, <4>1
        <5>2. e \in Inputs(j) /\ e.value # source[j]
          BY <2>5, <3>2, <4>1, <5>1 DEF Inputs
        <5>3. Len(toServer') \in DOMAIN toServer' /\ toServer'[Len(toServer')] = e
          BY <2>5, <2>6
        <5>4. QED
          BY <1>2, <5>2, <5>3 DEF Pending
      <4>2. CASE j # i
        BY <2>8, <2>14, <3>1, <3>2, <4>2 DEF TextInv
      <4>3. QED
        BY <4>1, <4>2
    <3>3. QED
      BY <1>2, <3>1, <3>2 DEF TextInv
  <2>16. QED
    BY <1>2, <1>4, <2>13, <2>15 DEF FollowInv
<1>5. QED
  BY <1>3, <1>4

LEMMA ReceiveFollows ==
  ASSUME FormInv, FollowInv, Receive
  PROVE  FollowInv'
<1> DEFINE h == Head(toServer)
<1>1. /\ toServer # <<>> /\ toServer \in Seq(ToServer) /\ toServer' = Tail(toServer) /\ h \in ToServer
      /\ UNCHANGED <<link, rows>> /\ ItemTypeOK
  BY DEF Receive, FormInv, pageVars
<1>2. ASSUME NEW j, Pending(j), source'[j] = source[j], h \in Inputs(j) => h.value = source[j]
      PROVE  Pending(j)'
  <2>1. PICK n \in DOMAIN toServer : toServer[n] \in Inputs(j) /\ toServer[n].value # source[j]
    BY <1>2 DEF Pending
  <2>2. /\ Len(toServer) \in Nat /\ DOMAIN toServer = 1..Len(toServer) /\ h = toServer[1]
        /\ DOMAIN toServer' = 1..(Len(toServer) - 1)
        /\ \A k \in 1..(Len(toServer) - 1) : toServer'[k] = toServer[k + 1]
    BY <1>1, Rest
  <2> HIDE DEF h
  <2>3. n # 1
    BY <1>2, <2>1, <2>2
  <2>4. n - 1 \in 1..(Len(toServer) - 1) /\ (n - 1) + 1 = n
    BY <2>1, <2>2, <2>3
  <2>5. toServer'[n - 1] = toServer[n]
    BY <2>2, <2>4
  <2>6. QED
    BY <1>2, <2>1, <2>2, <2>4, <2>5 DEF Pending
<1>3. CASE h.command = "input" /\ h.item \in built
  <2>1. /\ h.item \in built /\ h.value \in Text /\ SetSource(h.item, h.value)
    BY <1>1, <1>3 DEF Receive, ToServer
  <2>2. link # "CONNECTING"
    BY <2>1 DEF FollowInv
  <2>3. PICK ms \in Seq(ItemCall) : Send(ms) /\ \A j \in Item : Followed(ms, j)
    <3> HIDE DEF h
    <3>1. QED
      BY <1>1, <2>1, SetSourceFollows
  <2>4. CASE link = "OPEN"
    <3>1. /\ built' = built /\ again' = again /\ built \subseteq Item
          /\ source' = [source EXCEPT ![h.item] = h.value] /\ source \in [Item -> Text]
      BY <1>1, <2>1 DEF SetSource, ItemTypeOK
    <3>2. \A j \in Item : h \in Inputs(j) => h.value = source'[j]
      BY <1>1, <3>1 DEF Inputs
    <3>3. \A j \in built' : source'[j] = source[j] /\ Pending(j) => Pending(j)'
      BY <1>2, <3>1, <3>2
    <3>4. Sent(ms)
      BY <2>3, <3>1 DEF Sent
    <3> HIDE DEF h
    <3>5. QED
      BY <1>1, <2>3, <2>4, <3>1, <3>3, <3>4, SendFollows
  <2>5. CASE link # "OPEN"
    BY <1>1, <2>2, <2>3, <2>5 DEF FollowInv, Send
  <2>6. QED
    BY <2>4, <2>5
<1>4. CASE ~(h.command = "input" /\ h.item \in built)
  <2>1. UNCHANGED <<built, source, errors, mode, again, toPage>>
    BY <1>1, <1>4 DEF Receive, itemVars
  <2>2. ASSUME NEW j \in built PROVE h \notin Inputs(j)
    BY <1>4 DEF Inputs
  <2>3. \A j \in built : Pending(j) => Pending(j)'
    BY <1>2, <2>1, <2>2
  <2>4. QED
    BY <1>1, <2>1, <2>3, FollowUnchanged DEF itemVars
<1>5. QED
  BY <1>3, <1>4

LEMMA FollowStepInv == FormInv /\ FollowInv /\ [Next]_vars => FollowInv'
<1> SUFFICES ASSUME FormInv, FollowInv, [Next]_vars PROVE FollowInv'
  OBVIOUS
<1>0. ASSUME UNCHANGED <<itemVars, link, toPage, rows>>,
             toServer' = toServer \/ \E m : toServer' = Append(toServer, m)
      PROVE  FollowInv'
  <2>1. source' = source
    BY <1>0 DEF itemVars
  <2>2. QED
    BY <1>0, <2>1, FollowUnchanged, PendingKept
<1>1. CASE OpenWebSocket
  BY <1>1, OpenFollows
<1>2. CASE CloseWebSocket
  BY <1>2 DEF CloseWebSocket, FollowInv
<1>3. ASSUME NEW A, OnServer(A), UNCHANGED toPage PROVE FollowInv'
  BY <1>0, <1>3 DEF OnServer, pageVars
<1>4. CASE StartMachine \/ AdvanceMachine \/ AnswerCall \/ EndCall
  BY <1>3, <1>4 DEF StartMachine, AdvanceMachine, AnswerCall, EndCall, OnServer
<1>5. ASSUME NEW k \in 1..Listeners, TellListener(k) PROVE FollowInv'
  BY <1>5, TellFollows
<1>6. ASSUME NEW i \in Item, ItemStep(i) PROVE FollowInv'
  <2>1. /\ link = "OPEN" /\ link' = "OPEN" /\ rows' = rows /\ toServer' = toServer
        /\ built' \subseteq Item
    BY <1>6, ItemStepSends DEF FormInv, pageVars, ItemTypeOK
  <2>2. PICK ms \in Seq(ItemCall) : Sent(ms)
    BY <1>6, ItemStepFollows DEF FormInv
  <2>3. \A j \in built' : source'[j] = source[j] /\ Pending(j) => Pending(j)'
    BY <2>1 DEF Pending
  <2>4. QED
    BY <2>1, <2>2, <2>3, SendFollows
<1>7. CASE Receive
  BY <1>7, ReceiveFollows
<1>8. CASE Deliver
  BY <1>8, DeliverFollows
<1>9. ASSUME NEW n \in 1..Cardinality(Item), Type(n) PROVE FollowInv'
  BY <1>9, TypeFollows
<1>10. ASSUME NEW a \in Action, Click(a) PROVE FollowInv'
  BY <1>0, <1>10 DEF Click, SendServer, pageVars
<1>11. ASSUME NEW i \in Item, TypeLoose(i) PROVE FollowInv'
  BY <1>0, <1>11 DEF TypeLoose, SendServer, pageVars
<1>12. CASE UNCHANGED vars
  BY <1>0, <1>12 DEF vars, pageVars
<1>13. QED
  BY <1>1, <1>2, <1>4, <1>5, <1>6, <1>7, <1>8, <1>9, <1>10, <1>11, <1>12 DEF Next

(* RowsInStep: whatever the user typed and the server changed meanwhile,    *)
(* once nothing is under way the page has one row for each item that was    *)
(* not rendered again since it was added, and it shows the item's text, its *)
(* mode and whether it is in error.                                         *)
THEOREM FormRowsInStep == Spec => []RowsInStep
<1>1. Init => FollowInv
  BY NoModelType DEF Init, FollowInv, NoModel
<1>2. FormInv /\ FollowInv => RowsInStep
  <2> SUFFICES ASSUME FormInv, FollowInv, Settled, NEW i \in Item, i \notin again
               PROVE  /\ Cardinality(RowsOf(i)) = IF i \in built THEN 1 ELSE 0
                      /\ \A n \in RowsOf(i) : /\ rows[n].value = source[i]
                                              /\ rows[n].mode = mode[i]
                                              /\ rows[n].status <=> errors[i] # {}
    BY DEF RowsInStep
  <2>1. link = "OPEN" /\ toPage = <<>> /\ toServer = <<>> /\ RowsOK(rows) /\ ItemTypeOK
    BY DEF Settled, FormInv
  <2>2. Look(rows, i) = ServerLook(i)
    <3>1. Leads(<<>>, i, Look(rows, i), ServerLook(i)) /\ Look(rows, i) \in Looks
      BY <2>1, LookIsOfRow DEF FollowInv
    <3>2. QED
      BY <3>1, LeadsNowhere
  <2>3. CASE i \in built
    <3>1. ServerLook(i) \notin Bare
      BY <2>1, <2>3, BuiltLook
    <3>2. Shown(rows, i) # {}
      BY <2>2, <3>1, LookTypes DEF Look
    <3>3. PICK n \in RowsOf(i) : TRUE
      BY <3>2, NoRowsShown
    <3>4. RowsOf(i) = {n} /\ rows[n] \in Shown(rows, i) /\ rows[n] \in Row
      BY <2>1, RowsOfShown
    <3>5. LookOf(rows[n]) = ServerLook(i)
      BY <2>1, <2>2, <3>4, LookIsOfRow
    <3>6. rows[n].cells /\ LookOf(rows[n]) = [mode |-> rows[n].mode, status |-> rows[n].status]
      BY <3>1, <3>5, LookTypes DEF LookOf
    <3>7. rows[n].mode \in Mode /\ rows[n].status \in BOOLEAN
      BY <3>4 DEF Row
    <3>8. rows[n].mode = mode[i] /\ (rows[n].status <=> errors[i] # {})
      <4>1. ServerLook(i).mode = mode[i] /\ ServerLook(i).status = (errors[i] # {})
        BY <2>1, <2>3, BuiltLook
      <4>2. LookOf(rows[n]).mode = rows[n].mode /\ LookOf(rows[n]).status = rows[n].status
        BY <3>6, <3>7, LookTypes
      <4>3. QED
        BY <3>5, <3>7, <4>1, <4>2
    <3>9. rows[n].value = source[i]
      <4>1. TextInv(i) /\ Among(toPage, Carriers(i)) = {}
        BY <2>1, <2>3, NoCallAmong DEF FollowInv
      <4>2. ~Pending(i)
        BY <2>1 DEF Pending
      <4>3. QED
        BY <3>4, <3>6, <4>1, <4>2 DEF TextInv
    <3>10. Cardinality(RowsOf(i)) = 1
      BY <3>4, FS_Singleton
    <3>11. QED
      BY <2>3, <3>4, <3>8, <3>9, <3>10
  <2>4. CASE i \notin built
    <3>1. Look(rows, i) = NoRow
      BY <2>2, <2>4 DEF ServerLook
    <3>2. RowsOf(i) = {}
      BY <2>1, <3>1, LookIsOfRow, NoRowsShown
    <3>3. QED
      BY <2>4, <3>2, FS_EmptySet
  <2>5. QED
    BY <2>3, <2>4
<1>3. FormInv /\ FollowInv /\ [Next]_vars => FormInv' /\ FollowInv'
  BY FormStepInv, FollowStepInv
<1>4. QED
  BY <1>1, <1>2, <1>3, FormInitInv, PTL DEF Spec
=============================================================================
