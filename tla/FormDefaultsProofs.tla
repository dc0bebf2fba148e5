-------------------------- MODULE FormDefaultsProofs --------------------------
(***************************************************************************)
(* Proofs about FormDefaults, for any fields, values, default providers    *)
(* and listeners.                                                          *)
(*                                                                         *)
(* The invariants say what each property of the form at rest means while   *)
(* calls are in progress: what does not hold now, a call on the stack will *)
(* make true.  The stack is reasoned about as the set of its calls,        *)
(* Frames, and the innermost one: the order of the others never matters.   *)
(***************************************************************************)
EXTENDS FormDefaults, SequenceTheorems, TLAPS

Frames(s) == {s[k] : k \in 1..Len(s)}

(* A field holds what its model shows, or the instance just set holds it,   *)
(* and the call that will set it in the model is to be made or made.        *)
FieldFollows(i) ==
  \/ inError[i]
  \/ field[i] = value[i]
  \/ \E f \in Frames(stack) :
       \/ f.at = "sync" /\ i \in f.todo
       \/ f.at = "setValue" /\ f.item = i /\ f.value = field[i]

ShownInv == \A i \in built : FieldFollows(i)

(* Listeners know whether the item equals its default, or are being told of *)
(* a change of its value, after which equality is tested.                   *)
EqualityFollows(i) ==
  \/ valueEqual[i] = ValueTest(i)
  \/ \E f \in Frames(stack) : f.at = "changed" /\ f.item = i

EqualityInv == \A i \in built : EqualityFollows(i)

(* What the application calls runs at once, as does a default being set:    *)
(* only other calls wait below the innermost one.                           *)
WaitingCalls == {"setValue", "changed", "sync", "defaults", "give"}

StackInv == stack # <<>> => \A f \in Frames(Below) : f.at \in WaitingCalls

Syncing(calls_) == \E f \in calls_ : f.at = "sync"

(* A default computed and yet to be set is the one the fields give, unless  *)
(* its provider was overtaken.                                              *)
GiveInv ==
  \A f \in Frames(stack) : f.at = "give" /\ f.todo # {} =>
    f.value = DefaultOf[f.provider][field] \/ f.provider \in overtaken

(* A default about to be set for an item with a provider is the provider's, *)
(* unless it was overtaken, or an instance is being set and all providers   *)
(* run again at its end.                                                    *)
DefaultInv ==
  In("setDefault") =>
    \A p \in Provider : Top.item \in AppliesTo[p] =>
      \/ Top.value = DefaultOf[p][field]
      \/ p \in overtaken
      \/ Syncing(Frames(Below))

(* An error in validationErrors is one of the item too.                     *)
NotedInv == \A i \in noted : inError[i]

(* The default that p computes for t is up to date or will be set again.    *)
ProviderPending(p, t, f) ==
  \/ f.at = "sync"
  \/ f.at \in {"defaults", "changed"} /\ p \in f.todo
  \/ f.at = "give" /\ f.provider = p /\ t \in f.todo
  \/ f.at = "setDefault" /\ f.item = t

DefaultFollows(p, t) ==
  t \in built /\ p \notin overtaken /\ (\A i \in DependsOn[p] : ~inError[i]) =>
    \/ deflt[t] = DefaultOf[p][field]
    \/ \E f \in Frames(stack) : ProviderPending(p, t, f)

ComputedInv == \A p \in Provider : \A t \in AppliesTo[p] : DefaultFollows(p, t)

(* The value of an item without one of its own is its default, also in the  *)
(* middle of calls, and is compared with it.                                *)
OwnInv == \A i \in built \ own : basis[i] = "DEFAULT" /\ value[i] = deflt[i]

SourceInv == In("setSource") => Top.item \in own

-----------------------------------------------------------------------------
StackIs(below, top) ==
  /\ stack' \in Seq(Frame)
  /\ stack' # <<>>
  /\ Frames(stack') = below \cup {top}
  /\ Frames(Below') = below
  /\ Top' = top

Popped ==
  /\ stack' \in Seq(Frame)
  /\ Frames(stack') = Frames(Below)
  /\ stack' # <<>> => /\ Frames(Below') \subseteq Frames(Below)
                      /\ Top' \in Frames(Below)

LEMMA FramesTop ==
  ASSUME NEW s \in Seq(Frame), s # <<>>
  PROVE  /\ SubSeq(s, 1, Len(s) - 1) \in Seq(Frame)
         /\ s[Len(s)] \in Frame
         /\ Frames(s) = Frames(SubSeq(s, 1, Len(s) - 1)) \cup {s[Len(s)]}
<1>1. Len(s) \in Nat /\ Len(s) > 0 /\ s[Len(s)] \in Frame
  OBVIOUS
<1>2. PICK n \in Nat : n = Len(s) - 1
  BY <1>1
<1> DEFINE b == SubSeq(s, 1, n)
<1>3. \A k \in 1..n : s[k] \in Frame
  BY <1>1, <1>2
<1>4. /\ b \in Seq(Frame)
      /\ Len(b) = IF 1 <= n THEN n - 1 + 1 ELSE 0
      /\ \A k \in 1..(n - 1 + 1) : b[k] = s[1 + k - 1]
  BY <1>2, <1>3, SubSeqProperties
<1> HIDE DEF b
<1>5. Len(b) = n /\ \A k \in 1..n : b[k] = s[k]
  BY <1>2, <1>4
<1>6. 1..Len(s) = 1..n \cup {Len(s)}
  BY <1>1, <1>2
<1>7. Frames(s) = Frames(b) \cup {s[Len(s)]}
  BY <1>5, <1>6 DEF Frames
<1>8. QED
  BY <1>1, <1>2, <1>4, <1>7 DEF b

LEMMA FramesAppend ==
  ASSUME NEW s \in Seq(Frame), NEW f \in Frame
  PROVE  /\ Append(s, f) \in Seq(Frame)
         /\ Append(s, f) # <<>>
         /\ Frames(Append(s, f)) = Frames(s) \cup {f}
         /\ SubSeq(Append(s, f), 1, Len(Append(s, f)) - 1) = s
         /\ Append(s, f)[Len(Append(s, f))] = f
<1> DEFINE t == Append(s, f)
<1>1. /\ t \in Seq(Frame) /\ Len(t) = Len(s) + 1 /\ t[Len(s) + 1] = f
      /\ \A k \in 1..Len(s) : t[k] = s[k]
  OBVIOUS
<1>2. /\ Len(s) \in Nat
      /\ 1..(Len(s) + 1) = 1..Len(s) \cup {Len(s) + 1}
  OBVIOUS
<1>3. SubSeq(t, 1, Len(t) - 1) = s
  OBVIOUS
<1> HIDE DEF t
<1>4. Frames(t) = Frames(s) \cup {f}
  BY <1>1, <1>2 DEF Frames
<1>5. t # <<>>
  BY <1>1, <1>2
<1>6. QED
  BY <1>1, <1>2, <1>3, <1>4, <1>5 DEF t

LEMMA FramesIn == ASSUME NEW s \in Seq(Frame) PROVE Frames(s) \subseteq Frame
BY DEF Frames

LEMMA FramesEmpty == Frames(<<>>) = {} /\ <<>> \in Seq(Frame)
BY DEF Frames

LEMMA PushStack ==
  ASSUME NEW s \in Seq(Frame), NEW f \in Frame, stack' = Append(s, f)
  PROVE  StackIs(Frames(s), f)
BY FramesAppend DEF StackIs, Top, Below

LEMMA PopStack ==
  ASSUME stack \in Seq(Frame), stack # <<>>, stack' = Below
  PROVE  Popped
<1>1. Below \in Seq(Frame)
  BY FramesTop DEF Below
<1>2. stack' # <<>> =>
        /\ Frames(Below') \subseteq Frames(Below)
        /\ Top' \in Frames(Below)
  <2> SUFFICES ASSUME stack' # <<>>
               PROVE  /\ Frames(Below') \subseteq Frames(Below)
                      /\ Top' \in Frames(Below)
    OBVIOUS
  <2>1. Below' = SubSeq(stack', 1, Len(stack') - 1) /\ Top' = stack'[Len(stack')]
    BY DEF Below, Top
  <2>2. Frames(stack') = Frames(Below') \cup {Top'}
    BY <1>1, <2>1, FramesTop
  <2>3. QED
    BY <2>2
<1>3. QED
  BY <1>1, <1>2 DEF Popped

(* What a call in progress is, by its place. *)
LEMMA FrameFields ==
  ASSUME NEW f \in Frame
  PROVE  /\ f.at \in {"setValue", "setDefault"} => f.item \in Item /\ f.value \in Value
         /\ f.at = "setSource" => f.item \in Item /\ f.source \in Source
         /\ f.at = "changed" => f.item \in Item /\ f.todo \subseteq Provider
         /\ f.at = "sync" => f.todo \subseteq Item /\ f.fieldDefault \in BOOLEAN
         /\ f.at = "defaults" => f.todo \subseteq Provider
         /\ f.at = "give" => /\ f.provider \in Provider /\ f.value \in Value
                             /\ f.todo \subseteq Item
BY DEF Frame

USE FormAssumption

LEMMA NewFrames ==
  /\ \A i \in Item, v \in Value : SetTo(i, v) \in Frame /\ DefaultTo(i, v) \in Frame
  /\ \A i \in Item, s \in Source : SourceTo(i, s) \in Frame
  /\ \A i \in Item : Changed(i) \in Frame
  /\ \A ps \in SUBSET Provider : Defaults(ps) \in Frame
  /\ \A items \in SUBSET Item, fd \in BOOLEAN : Sync(items, fd) \in Frame
  /\ TypeOK => \A p \in Provider : Give(p) \in Frame
<1>1. ASSUME TypeOK, NEW p \in Provider PROVE Give(p) \in Frame
  <2>1. DefaultOf[p][field] \in Value /\ AppliesTo[p] \cap built \in SUBSET Item
    BY <1>1 DEF TypeOK, Instance
  <2>2. QED
    BY <2>1 DEF Frame, Give
<1>2. QED
  BY <1>1 DEF Frame, SetTo, DefaultTo, SourceTo, Changed, Defaults, Sync

(* The calls in progress as a set: the innermost one and those below.       *)
LEMMA TopType ==
  ASSUME TypeOK, stack # <<>>
  PROVE  /\ Below \in Seq(Frame)
         /\ Top \in Frame
         /\ Frames(stack) = Frames(Below) \cup {Top}
         /\ \A f \in Frames(stack) :
              /\ f.at \in {"setValue", "setDefault", "setSource", "changed"} => f.item \in built
              /\ f.at = "give" => f.todo \subseteq AppliesTo[f.provider] \cap built
BY FramesTop DEF TypeOK, Top, Below, Frames

-----------------------------------------------------------------------------
(* What each step leaves in progress.                                       *)
Less(x) == [Top EXCEPT !.todo = @ \ {x}]

LEMMA LessType ==
  ASSUME TypeOK, stack # <<>>, Top.at \in {"changed", "sync", "defaults", "give"}, NEW x
  PROVE  /\ Less(x) \in Frame
         /\ Less(x).at = Top.at
         /\ Less(x).todo = Top.todo \ {x}
         /\ Top.at = "changed" => Less(x).item = Top.item
         /\ Top.at = "give" => Less(x).provider = Top.provider /\ Less(x).value = Top.value
<1> DEFINE f == Top
<1>1. f \in Frame /\ Less(x) = [f EXCEPT !.todo = f.todo \ {x}]
  BY TopType DEF Less
<1> HIDE DEF f
<1>2. CASE f \in [at : {"changed"}, item : Item, todo : SUBSET Provider]
  BY <1>1, <1>2 DEF Frame, f
<1>3. CASE f \in [at : {"sync"}, todo : SUBSET Item, fieldDefault : BOOLEAN]
  BY <1>1, <1>3 DEF Frame, f
<1>4. CASE f \in [at : {"defaults"}, todo : SUBSET Provider]
  BY <1>1, <1>4 DEF Frame, f
<1>5. CASE f \in [at : {"give"}, provider : Provider, value : Value, todo : SUBSET Item]
  BY <1>1, <1>5 DEF Frame, f
<1>6. QED
  BY <1>1, <1>2, <1>3, <1>4, <1>5 DEF Frame, f

LEMMA CallStack ==
  ASSUME TypeOK, NEW f \in Frame, Call(f)
  PROVE  /\ StackIs(Frames(stack), f)
         /\ stack = <<>> \/ Top.at = "changed"
BY PushStack DEF TypeOK, Call, In

LEMMA PopTop == ASSUME TypeOK, stack # <<>>, stack' = Below PROVE Popped
BY PopStack DEF TypeOK

LEMMA AcceptStack ==
  ASSUME TypeOK, stack # <<>>, NEW i \in Item, NEW v \in Value, Accept(i, v)
  PROVE  IF inError[i] \/ v # value[i] THEN StackIs(Frames(Below), Changed(i)) ELSE Popped
<1>1. CASE inError[i] \/ v # value[i]
  <2>1. stack' = Append(Below, Changed(i))
    BY <1>1 DEF Accept, SetRawValue
  <2>2. QED
    BY <1>1, <2>1, TopType, NewFrames, PushStack
<1>2. CASE ~(inError[i] \/ v # value[i])
  BY <1>2, PopTop DEF Accept, SetRawValue
<1>3. QED
  BY <1>1, <1>2

LEMMA ProviderStack ==
  ASSUME TypeOK, stack # <<>>, Top.at \in {"changed", "defaults"},
         NEW p \in Provider, RunProvider(p)
  PROVE  StackIs(Frames(Below) \cup {Less(p)}, Give(p))
<1> DEFINE f == Less(p)
           d == Give(p)
<1>1. f \in Frame /\ Below \in Seq(Frame)
  BY TopType, LessType
<1>2. d \in Frame
  BY NewFrames
<1>3. stack' = Append(Append(Below, f), d)
  BY DEF RunProvider, Without, Less
<1> HIDE DEF f, d
<1>4. Append(Below, f) \in Seq(Frame) /\ Frames(Append(Below, f)) = Frames(Below) \cup {f}
  BY <1>1, FramesAppend
<1>5. StackIs(Frames(Append(Below, f)), d)
  BY <1>2, <1>3, <1>4, PushStack
<1>6. QED
  BY <1>4, <1>5 DEF f, d

LEMMA GiveStack ==
  ASSUME TypeOK, NEW i \in Item, GiveDefault(i)
  PROVE  /\ stack # <<>> /\ Top.at = "give" /\ i \in Top.todo
         /\ StackIs(Frames(Below) \cup {Less(i)}, DefaultTo(i, Top.value))
         /\ UNCHANGED <<field, built, value, source, inError, noted, deflt, basis,
                        valueEqual, sourceEqual, own, overtaken>>
<1> DEFINE f == Less(i)
           d == DefaultTo(i, Top.value)
<1>1. stack # <<>> /\ Top.at = "give" /\ i \in Top.todo
  BY DEF GiveDefault, In
<1>2. f \in Frame /\ Below \in Seq(Frame) /\ Top \in Frame
  BY <1>1, TopType, LessType
<1>3. d \in Frame
  <2>1. Top.value \in Value
    BY <1>1, <1>2, FrameFields
  <2>2. QED
    BY <2>1, NewFrames
<1>4. stack' = Append(Append(Below, f), d)
  BY DEF GiveDefault, Without, Less
<1> HIDE DEF f, d
<1>5. Append(Below, f) \in Seq(Frame) /\ Frames(Append(Below, f)) = Frames(Below) \cup {f}
  BY <1>2, FramesAppend
<1>6. StackIs(Frames(Append(Below, f)), d)
  BY <1>3, <1>4, <1>5, PushStack
<1>7. QED
  BY <1>1, <1>5, <1>6 DEF GiveDefault, itemVars, f, d

LEMMA SyncStack ==
  ASSUME TypeOK, In("sync"), NEW i \in Item, stack' = SyncFrames(i)
  PROVE  LET set == SetTo(i, field[i])
         IN  IF Top.fieldDefault
               THEN StackIs(Frames(Below) \cup {Less(i), set}, DefaultTo(i, field[i]))
               ELSE StackIs(Frames(Below) \cup {Less(i)}, set)
<1> DEFINE f == Less(i)
           set == SetTo(i, field[i])
           d == DefaultTo(i, field[i])
           b == Append(Below, f)
<1>1. stack # <<>> /\ Top.at = "sync"
  BY DEF In
<1>2. f \in Frame /\ Below \in Seq(Frame)
  BY <1>1, TopType, LessType
<1>3. field[i] \in Value
  BY DEF TypeOK, Instance
<1>4. set \in Frame /\ d \in Frame
  BY <1>3, NewFrames
<1>5. SyncFrames(i) = IF Top.fieldDefault THEN Append(Append(b, set), d) ELSE Append(b, set)
  BY DEF SyncFrames, Without, Less
<1> HIDE DEF f, set, d
<1>6. b \in Seq(Frame) /\ Frames(b) = Frames(Below) \cup {f}
  BY <1>2, FramesAppend
<1> HIDE DEF b
<1>7. Append(b, set) \in Seq(Frame) /\ Frames(Append(b, set)) = Frames(b) \cup {set}
  BY <1>4, <1>6, FramesAppend
<1>8. CASE Top.fieldDefault
  <2>1. stack' = Append(Append(b, set), d)
    BY <1>5, <1>8
  <2>2. StackIs(Frames(Append(b, set)), d)
    BY <2>1, <1>4, <1>7, PushStack
  <2>3. Frames(Append(b, set)) = Frames(Below) \cup {f, set}
    BY <1>6, <1>7
  <2>4. StackIs(Frames(Below) \cup {f, set}, d)
    BY <2>2, <2>3
  <2>5. QED
    BY <1>8, <2>4 DEF f, set, d
<1>9. CASE ~Top.fieldDefault
  <2>1. stack' = Append(b, set)
    BY <1>5, <1>9
  <2>2. StackIs(Frames(Below) \cup {f}, set)
    BY <2>1, <1>4, <1>6, PushStack
  <2>3. QED
    BY <1>9, <2>2 DEF f, set
<1>10. QED
  BY <1>8, <1>9

LEMMA SyncValueStack ==
  ASSUME TypeOK, NEW instance \in Instance, NEW fd \in BOOLEAN, SyncValue(instance, fd)
  PROVE  StackIs({}, Sync(Item, fd))
<1> DEFINE f == Sync(Item, fd)
           e == <<>>
<1>1. f \in Frame
  BY NewFrames
<1>2. e \in Seq(Frame) /\ Frames(e) = {}
  BY FramesEmpty
<1>3. stack' = Append(e, f)
  BY DEF SyncValue
<1> HIDE DEF e, f
<1>4. QED
  BY <1>1, <1>2, <1>3, PushStack DEF f

LEMMA SyncDoneStack == ASSUME TypeOK, SyncDone PROVE StackIs(Frames(Below), Defaults(Provider))
BY TopType, NewFrames, PushStack DEF SyncDone, In

-----------------------------------------------------------------------------
(* Types: every call in progress is about an item that has a model.         *)
ItemsOK ==
  /\ field \in Instance
  /\ built \subseteq Item
  /\ value \in [Item -> Value]
  /\ source \in [Item -> Source]
  /\ inError \in [Item -> BOOLEAN]
  /\ noted \subseteq Item
  /\ deflt \in [Item -> Value]
  /\ basis \in [Item -> {"NONE", "DEFAULT"}]
  /\ valueEqual \in [Item -> BOOLEAN]
  /\ sourceEqual \in [Item -> BOOLEAN]
  /\ calls \in 0..MaxCalls
  /\ own \subseteq Item
  /\ given \in SUBSET Settable
  /\ overtaken \subseteq Provider

AboutBuilt(frames, items) ==
  \A f \in frames :
    /\ f.at \in {"setValue", "setDefault", "setSource", "changed"} => f.item \in items
    /\ f.at = "give" => f.todo \subseteq AppliesTo[f.provider] \cap items

StackOK == stack \in Seq(Frame) /\ AboutBuilt(Frames(stack), built)

LEMMA TypeParts == TypeOK <=> ItemsOK /\ StackOK
BY DEF TypeOK, ItemsOK, StackOK, AboutBuilt, Frames

LEMMA TypePartsNext == TypeOK' <=> ItemsOK' /\ StackOK'
BY TypeParts, PTL

LEMMA FrameKinds ==
  /\ \A i, v : /\ SetTo(i, v).at = "setValue" /\ SetTo(i, v).item = i
               /\ SetTo(i, v).value = v
  /\ \A i, v : /\ DefaultTo(i, v).at = "setDefault" /\ DefaultTo(i, v).item = i
               /\ DefaultTo(i, v).value = v
  /\ \A i, s : /\ SourceTo(i, s).at = "setSource" /\ SourceTo(i, s).item = i
               /\ SourceTo(i, s).source = s
  /\ \A i : /\ Changed(i).at = "changed" /\ Changed(i).item = i
            /\ Changed(i).todo = {p \in Provider : i \in DependsOn[p]}
  /\ \A items, fd : /\ Sync(items, fd).at = "sync" /\ Sync(items, fd).todo = items
                    /\ Sync(items, fd).fieldDefault = fd
  /\ \A ps : Defaults(ps).at = "defaults" /\ Defaults(ps).todo = ps
  /\ \A p : /\ Give(p).at = "give" /\ Give(p).provider = p
            /\ Give(p).value = DefaultOf[p][field] /\ Give(p).todo = AppliesTo[p] \cap built
BY DEF SetTo, DefaultTo, SourceTo, Changed, Sync, Defaults, Give

(* A stack keeps its type if what is put on it is about items with a model. *)
LEMMA StackStays ==
  ASSUME TypeOK, built \subseteq built',
         \/ stack' = stack
         \/ Popped
         \/ \E below, top : StackIs(below, top) /\ AboutBuilt(below \cup {top}, built')
  PROVE  StackOK'
<1>1. stack \in Seq(Frame) /\ AboutBuilt(Frames(stack), built)
  BY TypeParts DEF StackOK
<1>2. AboutBuilt(Frames(stack), built')
  BY <1>1 DEF AboutBuilt
<1>3. CASE stack' = stack
  BY <1>1, <1>2, <1>3 DEF StackOK
<1>4. CASE Popped
  <2>1. Frames(Below) \subseteq Frames(stack)
    <3>1. CASE stack = <<>>
      <4>1. Below = <<>>
        BY <3>1 DEF Below
      <4>2. QED
        BY <4>1, FramesEmpty
    <3>2. CASE stack # <<>>
      BY <3>2, TopType
    <3>3. QED
      BY <3>1, <3>2
  <2>2. QED
    BY <1>2, <1>4, <2>1 DEF Popped, StackOK, AboutBuilt
<1>5. ASSUME NEW below, NEW top, StackIs(below, top), AboutBuilt(below \cup {top}, built')
      PROVE  StackOK'
  BY <1>5 DEF StackIs, StackOK
<1>6. QED
  BY <1>3, <1>4, <1>5

LEMMA WaitingBuilt ==
  ASSUME TypeOK, stack # <<>>
  PROVE  AboutBuilt(Frames(Below), built) /\ AboutBuilt({Top}, built)
BY TopType DEF AboutBuilt

LEMMA AcceptType ==
  ASSUME TypeOK, stack # <<>>, NEW i \in built, NEW v \in Value, Accept(i, v),
         deflt' \in [Item -> Value], UNCHANGED built
  PROVE  /\ field' \in Instance
         /\ value' \in [Item -> Value]
         /\ inError' \in [Item -> BOOLEAN]
         /\ noted' \subseteq Item
         /\ valueEqual' \in [Item -> BOOLEAN]
         /\ overtaken' \subseteq Provider
         /\ StackOK'
<1>1. i \in Item
  BY DEF TypeOK
<1>2. StackOK'
  <2>1. Changed(i).at = "changed" /\ Changed(i).item = i
    BY FrameKinds
  <2>2. AboutBuilt({Changed(i)}, built') /\ AboutBuilt(Frames(Below), built')
    BY <2>1, WaitingBuilt DEF AboutBuilt
  <2>5. AboutBuilt(Frames(Below) \cup {Changed(i)}, built')
    BY <2>2 DEF AboutBuilt
  <2>3. Popped \/ StackIs(Frames(Below), Changed(i))
    BY <1>1, AcceptStack
  <2>4. QED
    BY <2>3, <2>5, StackStays
<1>3. field' \in Instance /\ value' \in [Item -> Value]
  <2>1. field \in [Item -> Value] /\ value \in [Item -> Value]
    BY DEF TypeOK, Instance
  <2>2. /\ field' = field \/ field' = [field EXCEPT ![i] = v]
        /\ value' = value \/ value' = [value EXCEPT ![i] = v]
    BY DEF Accept, SetRawValue
  <2>3. field' \in [Item -> Value]
    BY <1>1, <2>1, <2>2
  <2>4. value' \in [Item -> Value]
    BY <1>1, <2>1, <2>2
  <2>5. QED
    BY <2>3, <2>4 DEF Instance
<1>4. inError' \in [Item -> BOOLEAN] /\ noted' \subseteq Item
  BY <1>1 DEF TypeOK, Accept, SetRawValue
<1>5. valueEqual' \in [Item -> BOOLEAN]
  <2>1. valueEqual \in [Item -> BOOLEAN]
    BY DEF TypeOK
  <2>2. \/ valueEqual' = valueEqual
        \/ valueEqual' = [valueEqual EXCEPT ![i] = (basis[i] = "NONE" \/ v = deflt'[i])]
    BY DEF Accept, TestNow
  <2>3. QED
    BY <2>1, <2>2
<1>6. overtaken' \subseteq Provider
  BY DEF TypeOK, Accept, SetRawValue, Giving
<1>7. QED
  BY <1>2, <1>3, <1>4, <1>5, <1>6

LEMMA RejectType ==
  ASSUME TypeOK, stack # <<>>, NEW i \in built, Reject(i), UNCHANGED built
  PROVE  /\ field' \in Instance
         /\ value' \in [Item -> Value]
         /\ inError' \in [Item -> BOOLEAN]
         /\ noted' \subseteq Item
         /\ valueEqual' \in [Item -> BOOLEAN]
         /\ overtaken' \subseteq Provider
         /\ StackOK'
BY PopTop, StackStays DEF TypeOK, Instance, Reject

LEMMA ProviderType ==
  ASSUME TypeOK, stack # <<>>, Top.at \in {"changed", "defaults"},
         NEW p \in Provider, RunProvider(p), UNCHANGED built
  PROVE  StackOK'
<1> DEFINE d == Give(p)
<1>1. AboutBuilt(Frames(Below) \cup {Less(p)}, built')
  BY WaitingBuilt, LessType DEF AboutBuilt
<1>2. AboutBuilt({d}, built')
  BY FrameKinds DEF AboutBuilt
<1>3. StackIs(Frames(Below) \cup {Less(p)}, d)
  BY ProviderStack
<1> HIDE DEF d
<1>4. AboutBuilt((Frames(Below) \cup {Less(p)}) \cup {d}, built')
  BY <1>1, <1>2 DEF AboutBuilt
<1>5. QED
  BY <1>3, <1>4, StackStays

LEMMA GiveType ==
  ASSUME TypeOK, NEW i \in Item, GiveDefault(i)
  PROVE  StackOK'
<1> DEFINE d == DefaultTo(i, Top.value)
<1>1. /\ stack # <<>> /\ Top.at = "give" /\ i \in Top.todo /\ UNCHANGED built
      /\ StackIs(Frames(Below) \cup {Less(i)}, d)
  BY GiveStack
<1>2. AboutBuilt(Frames(Below), built') /\ AboutBuilt({Top}, built')
  BY <1>1, WaitingBuilt DEF AboutBuilt
<1>3. AboutBuilt({Less(i)}, built')
  BY <1>1, <1>2, LessType DEF AboutBuilt
<1>4. AboutBuilt({d}, built')
  BY <1>1, <1>2, FrameKinds DEF AboutBuilt
<1> HIDE DEF d
<1>5. AboutBuilt((Frames(Below) \cup {Less(i)}) \cup {d}, built')
  BY <1>2, <1>3, <1>4 DEF AboutBuilt
<1>6. QED
  BY <1>1, <1>5, StackStays

LEMMA SyncType ==
  ASSUME TypeOK, In("sync"), NEW i \in Item, i \in built', built \subseteq built',
         stack' = SyncFrames(i)
  PROVE  StackOK'
<1> DEFINE set == SetTo(i, field[i])
           d == DefaultTo(i, field[i])
<1>1. AboutBuilt(Frames(Below) \cup {Less(i)}, built')
  BY WaitingBuilt, LessType DEF AboutBuilt, In
<1>2. AboutBuilt({set, d}, built')
  BY FrameKinds DEF AboutBuilt
<1>3. StackIs(Frames(Below) \cup {Less(i), set}, d) \/ StackIs(Frames(Below) \cup {Less(i)}, set)
  BY SyncStack
<1> HIDE DEF set, d
<1>4. /\ AboutBuilt((Frames(Below) \cup {Less(i), set}) \cup {d}, built')
      /\ AboutBuilt((Frames(Below) \cup {Less(i)}) \cup {set}, built')
  BY <1>1, <1>2 DEF AboutBuilt
<1>5. QED
  BY <1>3, <1>4, StackStays


LEMMA CallType ==
  ASSUME TypeOK, NEW f \in Frame, Call(f), f.item \in built, f.at # "give",
         own' \subseteq Item
  PROVE  TypeOK'
<1>1. StackIs(Frames(stack), f)
  BY CallStack
<1>2. AboutBuilt(Frames(stack) \cup {f}, built')
  BY TypeParts DEF StackOK, AboutBuilt, Call
<1>3. StackOK'
  BY <1>1, <1>2, StackStays DEF Call
<1>4. calls' \in 0..MaxCalls
  BY DEF TypeOK, Call
<1>5. ItemsOK'
  BY <1>4 DEF TypeOK, ItemsOK, Call, itemVars
<1>6. QED
  BY <1>3, <1>5, TypePartsNext

LEMMA ApplicationType == TypeOK /\ Application => TypeOK'
<1> SUFFICES ASSUME TypeOK, Application PROVE TypeOK'
  OBVIOUS
<1> USE DEF ItemsOK
<1>1. ASSUME NEW i \in Item, CallSetValue(i) PROVE TypeOK'
  <2>1. PICK v \in Value : Call(SetTo(i, v))
    BY <1>1 DEF CallSetValue
  <2>2. i \in built /\ own' \subseteq Item
    BY <1>1 DEF CallSetValue, TypeOK
  <2>3. SetTo(i, v) \in Frame /\ SetTo(i, v).item \in built /\ SetTo(i, v).at # "give"
    BY <2>2, FrameKinds, NewFrames
  <2>4. QED
    BY <2>1, <2>2, <2>3, CallType
<1>2. ASSUME NEW i \in Item, CallSetSource(i) PROVE TypeOK'
  <2>1. PICK s \in Source : Call(SourceTo(i, s))
    BY <1>2 DEF CallSetSource
  <2>2. i \in built /\ own' \subseteq Item
    BY <1>2 DEF CallSetSource, TypeOK
  <2>3. SourceTo(i, s) \in Frame /\ SourceTo(i, s).item \in built /\ SourceTo(i, s).at # "give"
    BY <2>2, FrameKinds, NewFrames
  <2>4. QED
    BY <2>1, <2>2, <2>3, CallType
<1>3. ASSUME NEW i \in Item, CallSetDefault(i) PROVE TypeOK'
  <2>1. PICK v \in Value : Call(DefaultTo(i, v))
    BY <1>3 DEF CallSetDefault
  <2>2. i \in built /\ own' \subseteq Item
    BY <1>3 DEF CallSetDefault, TypeOK
  <2>3. DefaultTo(i, v) \in Frame /\ DefaultTo(i, v).item \in built /\ DefaultTo(i, v).at # "give"
    BY <2>2, FrameKinds, NewFrames
  <2>4. QED
    BY <2>1, <2>2, <2>3, CallType
<1>4. ASSUME NEW i \in Item, NEW b \in {"NONE", "DEFAULT"}, SetComparisonBasis(i, b)
      PROVE  TypeOK'
  <2>1. StackOK'
    BY <1>4, StackStays DEF SetComparisonBasis
  <2>2. sourceEqual' \in [Item -> BOOLEAN]
    <3>1. SourceTest(source[i], deflt[i], b) \in BOOLEAN
      BY DEF SourceTest
    <3>2. QED
      BY <1>4, <3>1 DEF TypeOK, SetComparisonBasis
  <2>3. valueEqual' \in [Item -> BOOLEAN]
    BY <1>4 DEF TypeOK, SetComparisonBasis
  <2>4. calls' \in 0..MaxCalls
    BY <1>4 DEF TypeOK, SetComparisonBasis
  <2>5. ItemsOK'
    BY <1>4, <2>2, <2>3, <2>4 DEF TypeOK, SetComparisonBasis
  <2>6. QED
    BY <2>1, <2>5, TypePartsNext
<1>5. ASSUME NEW instance \in Instance, NEW fd \in BOOLEAN, SyncValue(instance, fd),
             given' \in SUBSET Settable
      PROVE  TypeOK'
  <2>1. StackOK'
    <3>1. StackIs({}, Sync(Item, fd))
      BY <1>5, SyncValueStack
    <3>2. AboutBuilt({} \cup {Sync(Item, fd)}, built')
      BY FrameKinds DEF AboutBuilt
    <3>3. QED
      BY <1>5, <3>1, <3>2, StackStays DEF SyncValue
  <2>2. calls' \in 0..MaxCalls /\ field' \in Instance
    BY <1>5 DEF TypeOK, SyncValue, Instance
  <2>3. ItemsOK'
    BY <1>5, <2>2 DEF TypeOK, SyncValue, itemVars
  <2>4. QED
    BY <2>1, <2>3, TypePartsNext
<1>6. CASE ClearInstance
  <2>1. stack' = <<>>
    BY <1>6 DEF ClearInstance
  <2>2. StackOK'
    BY <2>1, FramesEmpty DEF StackOK, AboutBuilt
  <2>3. calls' \in 0..MaxCalls
    BY <1>6 DEF TypeOK, ClearInstance
  <2>4. ItemsOK'
    BY <1>6, <2>3 DEF TypeOK, ClearInstance, itemVars
  <2>5. QED
    BY <2>2, <2>4, TypePartsNext
<1>7. CASE SetNew
  <2>1. NewInstance \in Instance /\ SyncValue(NewInstance, TRUE) /\ given' \in SUBSET Settable
    BY <1>7 DEF SetNew, Instance
  <2>2. QED
    BY <1>5, <2>1
<1>8. ASSUME NEW instance \in Settable, SetInstance(instance) \/ SyncMember(instance)
      PROVE  TypeOK'
  <2>1. /\ instance \in Instance /\ given' \in SUBSET Settable
        /\ \E fd \in BOOLEAN : SyncValue(instance, fd)
    BY <1>8 DEF SetInstance, SyncMember, Instance
  <2>2. QED
    BY <1>5, <2>1
<1>9. QED
  BY <1>1, <1>2, <1>3, <1>4, <1>6, <1>7, <1>8 DEF Application

LEMMA ShowType ==
  ASSUME TypeOK, NEW i \in Item, NEW s \in Source, Show(i, s)
  PROVE  source' \in [Item -> Source] /\ sourceEqual' \in [Item -> BOOLEAN]
<1>1. SourceTest(s, deflt[i], basis[i]) \in BOOLEAN
  BY DEF SourceTest
<1>2. QED
  BY <1>1 DEF TypeOK, Show

LEMMA TestType ==
  ASSUME TypeOK, NEW i \in built, NEW v \in Value, TestDefault(i, v)
  PROVE  valueEqual' \in [Item -> BOOLEAN]
BY DEF TypeOK, TestDefault

(* What the call on top is about, when it runs. *)
LEMMA RunningCall ==
  ASSUME TypeOK
  PROVE  /\ In("setValue") => Top.item \in built /\ Top.value \in Value
         /\ In("setDefault") => Top.item \in built /\ Top.value \in Value
         /\ In("setSource") => Top.item \in built /\ Top.source \in Source
         /\ In("changed") => Top.item \in built /\ Top.todo \subseteq Provider
         /\ built \subseteq Item
BY TopType, FrameFields DEF In, TypeOK

LEMMA ModelType == TypeOK /\ Model => TypeOK'
<1> SUFFICES ASSUME TypeOK, Model PROVE TypeOK'
  OBVIOUS
<1> USE DEF ItemsOK
<1>1. CASE SetValue
  <2>1. Top.item \in built /\ Top.item \in Item /\ Top.value \in Value /\ stack # <<>>
    BY <1>1, RunningCall DEF SetValue, In
  <2>2. source' \in [Item -> Source] /\ sourceEqual' \in [Item -> BOOLEAN]
    BY <1>1, <2>1, ShowType DEF SetValue
  <2>3. deflt' \in [Item -> Value] /\ own' \subseteq Item
    BY <1>1, <2>1 DEF SetValue, TypeOK
  <2>4. Accept(Top.item, Top.value) \/ Reject(Top.item)
    BY <1>1 DEF SetValue
  <2>5. /\ field' \in Instance /\ value' \in [Item -> Value] /\ inError' \in [Item -> BOOLEAN]
        /\ noted' \subseteq Item /\ valueEqual' \in [Item -> BOOLEAN] /\ StackOK'
          /\ overtaken' \subseteq Provider
    BY <1>1, <2>1, <2>3, <2>4, AcceptType, RejectType DEF SetValue
  <2>6. QED
    BY <1>1, <2>2, <2>3, <2>5, TypePartsNext DEF SetValue, TypeOK
<1>2. CASE SetValueFromSource
  <2>1. Top.item \in built /\ Top.item \in Item /\ Top.source \in Source /\ stack # <<>>
    BY <1>2, RunningCall DEF SetValueFromSource, In
  <2>2. source' \in [Item -> Source] /\ sourceEqual' \in [Item -> BOOLEAN]
    BY <1>2, <2>1, ShowType DEF SetValueFromSource
  <2>3. deflt' \in [Item -> Value]
    BY <1>2 DEF SetValueFromSource, TypeOK
  <2>4. \/ Parse[Top.source] \in Value /\ Accept(Top.item, Parse[Top.source])
        \/ Reject(Top.item)
    BY <1>2, <2>1 DEF SetValueFromSource
  <2>5. /\ field' \in Instance /\ value' \in [Item -> Value] /\ inError' \in [Item -> BOOLEAN]
        /\ noted' \subseteq Item /\ valueEqual' \in [Item -> BOOLEAN] /\ StackOK'
          /\ overtaken' \subseteq Provider
    BY <1>2, <2>1, <2>3, <2>4, AcceptType, RejectType DEF SetValueFromSource
  <2>6. QED
    BY <1>2, <2>2, <2>3, <2>5, TypePartsNext DEF SetValueFromSource, TypeOK
<1>3. CASE SetDefaultValue
  <2>1. Top.item \in built /\ Top.item \in Item /\ Top.value \in Value /\ stack # <<>>
    BY <1>3, RunningCall DEF SetDefaultValue, In
  <2>2. deflt' \in [Item -> Value]
    BY <1>3, <2>1 DEF SetDefaultValue, TypeOK
  <2>3. CASE DefaultShows(Top.item)
    <3>1. Accept(Top.item, Top.value) /\ UNCHANGED <<source, sourceEqual, built>>
      BY <1>3, <2>3 DEF SetDefaultValue
    <3>2. /\ field' \in Instance /\ value' \in [Item -> Value] /\ inError' \in [Item -> BOOLEAN]
          /\ noted' \subseteq Item /\ valueEqual' \in [Item -> BOOLEAN] /\ StackOK'
          /\ overtaken' \subseteq Provider
      BY <2>1, <2>2, <3>1, AcceptType
    <3>3. QED
      BY <1>3, <2>2, <3>1, <3>2, TypePartsNext DEF SetDefaultValue, TypeOK
  <2>4. CASE ~DefaultShows(Top.item)
    <3>1. StackOK'
      BY <1>3, <2>1, <2>4, PopTop, StackStays DEF SetDefaultValue
    <3>2. valueEqual' \in [Item -> BOOLEAN]
      BY <1>3, <2>1, <2>4, TestType DEF SetDefaultValue
    <3>3. sourceEqual' \in [Item -> BOOLEAN]
      <4>1. sourceEqual \in [Item -> BOOLEAN]
        BY DEF TypeOK
      <4>2. \/ sourceEqual' = sourceEqual
            \/ sourceEqual' = [sourceEqual EXCEPT ![Top.item] =
                                 (source[Top.item] = Text[Top.value])]
        <5>1. sourceEqual' = [sourceEqual EXCEPT ![Top.item] =
                 IF basis[Top.item] = "NONE" THEN sourceEqual[Top.item]
                 ELSE (source[Top.item] = Text[Top.value])]
          BY <1>3, <2>4 DEF SetDefaultValue
        <5>2. QED
          BY <4>1, <5>1
      <4>3. QED
        BY <4>1, <4>2
    <3>4. QED
      BY <1>3, <2>2, <2>4, <3>1, <3>2, <3>3, TypePartsNext DEF SetDefaultValue, TypeOK
  <2>5. QED
    BY <2>3, <2>4
<1>4. ASSUME NEW p \in Provider, HandleChange(p) \/ RunDefault(p) PROVE TypeOK'
  <2>1. /\ stack # <<>> /\ Top.at \in {"changed", "defaults"}
        /\ RunProvider(p) \/ stack' = Without(p)
        /\ overtaken' \subseteq Provider
        /\ UNCHANGED <<field, built, itemVars, calls, own, given>>
    BY <1>4 DEF HandleChange, RunDefault, RunProvider, In, TypeOK
  <2>2. CASE RunProvider(p)
    <3>1. StackOK'
      BY <2>1, <2>2, ProviderType
    <3>2. QED
      BY <2>1, <3>1, TypePartsNext DEF TypeOK, itemVars
  <2>3. CASE stack' = Without(p)
    <3>1. StackIs(Frames(Below), Less(p))
      BY <2>1, <2>3, TopType, LessType, PushStack DEF Without, Less
    <3>2. AboutBuilt(Frames(Below) \cup {Less(p)}, built')
      BY <2>1, WaitingBuilt, LessType DEF AboutBuilt
    <3>3. StackOK'
      BY <2>1, <3>1, <3>2, StackStays
    <3>4. QED
      BY <2>1, <3>3, TypePartsNext DEF TypeOK, itemVars
  <2>4. QED
    BY <2>1, <2>2, <2>3
<1>5. CASE ChangeTold
  <2>1. Top.item \in built /\ Top.item \in Item /\ stack # <<>>
    BY <1>5, RunningCall DEF ChangeTold, In
  <2>2. StackOK'
    BY <1>5, <2>1, PopTop, StackStays DEF ChangeTold
  <2>3. valueEqual' \in [Item -> BOOLEAN]
    <3>1. ValueTest(Top.item) \in BOOLEAN
      BY DEF ValueTest
    <3>2. QED
      BY <1>5, <2>1, <3>1 DEF ChangeTold, TypeOK
  <2>4. QED
    BY <1>5, <2>2, <2>3, TypePartsNext DEF ChangeTold, TypeOK
<1>6. ASSUME NEW i \in Item, BuildItem(i) PROVE TypeOK'
  <2>1. StackOK'
    BY <1>6, SyncType DEF BuildItem
  <2>2. ItemsOK'
    BY <1>6 DEF BuildItem, TypeOK
  <2>3. QED
    BY <2>1, <2>2, TypePartsNext
<1>7. ASSUME NEW i \in Item, SyncItem(i) PROVE TypeOK'
  <2>1. StackOK'
    BY <1>7, SyncType DEF SyncItem
  <2>2. ItemsOK'
    BY <1>7 DEF SyncItem, TypeOK, itemVars
  <2>3. QED
    BY <2>1, <2>2, TypePartsNext
<1>8. CASE SyncDone
  <2>1. AboutBuilt(Frames(Below) \cup {Defaults(Provider)}, built')
    BY <1>8, WaitingBuilt, FrameKinds DEF AboutBuilt, SyncDone, In
  <2>2. StackOK'
    BY <1>8, <2>1, SyncDoneStack, StackStays DEF SyncDone
  <2>3. QED
    BY <1>8, <2>2, TypePartsNext DEF SyncDone, TypeOK, itemVars
<1>9. CASE DefaultsDone
  <2>1. StackOK'
    BY <1>9, PopTop, StackStays DEF DefaultsDone, In
  <2>2. QED
    BY <1>9, <2>1, TypePartsNext DEF DefaultsDone, TypeOK, itemVars
<1>10. ASSUME NEW i \in Item, GiveDefault(i) PROVE TypeOK'
  <2>1. StackOK'
    BY <1>10, GiveType
  <2>2. QED
    BY <1>10, <2>1, TypePartsNext DEF GiveDefault, TypeOK, itemVars
<1>11. CASE GiveDone
  <2>1. StackOK'
    BY <1>11, PopTop, StackStays DEF GiveDone, In
  <2>2. QED
    BY <1>11, <2>1, TypePartsNext DEF GiveDone, TypeOK, itemVars
<1>12. QED
  BY <1>1, <1>2, <1>3, <1>4, <1>5, <1>6, <1>7, <1>8, <1>9, <1>10, <1>11 DEF Model

LEMMA InitType == Init => TypeOK
<1> SUFFICES ASSUME Init PROVE TypeOK
  OBVIOUS
<1>1. StackOK
  BY FramesEmpty DEF Init, StackOK, AboutBuilt
<1>2. ItemsOK
  BY DEF Init, ItemsOK, Instance
<1>3. QED
  BY <1>1, <1>2, TypeParts

LEMMA NextType == TypeOK /\ [Next]_vars => TypeOK'
<1>1. TypeOK /\ UNCHANGED vars => TypeOK'
  BY DEF vars, itemVars, TypeOK
<1>2. QED
  BY <1>1, ApplicationType, ModelType DEF Next

(* Models, instance and calls in progress keep their types, and every call  *)
(* is about an item that has a model, for any fields, providers and         *)
(* listeners that call the model again.                                     *)
THEOREM DefaultsTypeOK == Spec => []TypeOK
BY InitType, NextType, PTL DEF Spec

-----------------------------------------------------------------------------
(* What setRawValue and a rejected value do to the item and to the others.  *)
Spared(i) ==
  \A j \in Item \ {i} :
    /\ field'[j] = field[j] /\ value'[j] = value[j]
    /\ inError'[j] = inError[j] /\ valueEqual'[j] = valueEqual[j]
    /\ j \in noted' <=> j \in noted

LEMMA AcceptFacts ==
  ASSUME TypeOK, stack # <<>>, NEW i \in built, NEW v \in Value, Accept(i, v)
  PROVE  /\ Spared(i)
         /\ value'[i] = v /\ ~inError'[i] /\ i \notin noted'
         /\ Frames(Below) \subseteq Frames(stack') /\ overtaken \subseteq overtaken'
         /\ \/ field'[i] = v /\ Changed(i) \in Frames(stack')
            \/ /\ ~inError[i] /\ v = value[i] /\ field' = field
               /\ valueEqual'[i] = (basis[i] = "NONE" \/ v = deflt'[i])
<1>1. i \in Item
  BY DEF TypeOK
<1>2. CASE inError[i] \/ v # value[i]
  <2>1. /\ value' = [value EXCEPT ![i] = v] /\ field' = [field EXCEPT ![i] = v]
        /\ inError' = [inError EXCEPT ![i] = FALSE] /\ noted' = noted \ {i}
        /\ valueEqual' = valueEqual /\ overtaken \subseteq overtaken'
    BY <1>2 DEF Accept, SetRawValue, TestNow
  <2>2. StackIs(Frames(Below), Changed(i))
    BY <1>1, <1>2, AcceptStack
  <2>3. Spared(i)
    BY <1>1, <2>1 DEF TypeOK, Instance, Spared
  <2>4. QED
    BY <1>1, <2>1, <2>2, <2>3 DEF TypeOK, Instance, StackIs
<1>3. CASE ~(inError[i] \/ v # value[i])
  <2>1. /\ value' = value /\ field' = field
        /\ inError' = [inError EXCEPT ![i] = FALSE] /\ noted' = noted \ {i}
        /\ valueEqual' = [valueEqual EXCEPT ![i] = (basis[i] = "NONE" \/ v = deflt'[i])]
        /\ overtaken' = overtaken
    BY <1>3 DEF Accept, SetRawValue, TestNow
  <2>2. Popped
    BY <1>1, <1>3, AcceptStack
  <2>3. Spared(i)
    BY <1>1, <2>1 DEF TypeOK, Instance, Spared
  <2>4. QED
    BY <1>1, <1>3, <2>1, <2>2, <2>3 DEF TypeOK, Instance, Popped
<1>4. QED
  BY <1>2, <1>3

LEMMA RejectFacts ==
  ASSUME TypeOK, stack # <<>>, NEW i \in built, Reject(i)
  PROVE  /\ Spared(i)
         /\ field' = field /\ value' = value /\ inError'[i] /\ i \in noted'
         /\ valueEqual'[i] = TRUE
         /\ Frames(stack') = Frames(Below) /\ overtaken' = overtaken
BY PopTop DEF TypeOK, Reject, Spared, Popped

(* A step of the model takes at most the innermost call off the stack, and  *)
(* the application takes none off but the instance it sets.                 *)
LEMMA WithoutStack ==
  ASSUME TypeOK, stack # <<>>, Top.at \in {"changed", "sync", "defaults"}, NEW x,
         stack' = Without(x)
  PROVE  StackIs(Frames(Below), Less(x))
BY TopType, LessType, PushStack DEF Without, Less

ModelRuns(p) == HandleChange(p) \/ RunDefault(p)

LEMMA RunStack ==
  ASSUME TypeOK, NEW p \in Provider, ModelRuns(p)
  PROVE  /\ stack # <<>> /\ Top.at \in {"changed", "defaults"}
         /\ UNCHANGED <<field, built, value, source, inError, noted, deflt, basis,
                        valueEqual, sourceEqual, own>>
         /\ \/ /\ StackIs(Frames(Below) \cup {Less(p)}, Give(p))
               /\ overtaken' = overtaken \ ({p} \ Giving(stack))
            \/ StackIs(Frames(Below), Less(p)) /\ overtaken' = overtaken
<1>1. /\ stack # <<>> /\ Top.at \in {"changed", "defaults"}
      /\ UNCHANGED <<field, built, itemVars, calls, own, given>>
      /\ RunProvider(p) \/ (stack' = Without(p) /\ overtaken' = overtaken)
  <2>1. CASE HandleChange(p)
    BY <2>1 DEF HandleChange, In
  <2>2. CASE RunDefault(p)
    BY <2>2 DEF RunDefault, In
  <2>3. QED
    BY <2>1, <2>2 DEF ModelRuns
<1>2. CASE RunProvider(p)
  <2>1. overtaken' = overtaken \ ({p} \ Giving(stack))
    BY <1>2 DEF RunProvider
  <2>2. StackIs(Frames(Below) \cup {Less(p)}, Give(p))
    BY <1>1, <1>2, ProviderStack
  <2>3. QED
    BY <1>1, <2>1, <2>2 DEF itemVars
<1>3. CASE stack' = Without(p) /\ overtaken' = overtaken
  BY <1>1, <1>3, WithoutStack DEF itemVars
<1>4. QED
  BY <1>1, <1>2, <1>3

SyncSteps(i) == BuildItem(i) \/ SyncItem(i)

LEMMA SyncStepStack ==
  ASSUME TypeOK, NEW i \in Item, SyncSteps(i)
  PROVE  /\ In("sync") /\ i \in Top.todo
         /\ UNCHANGED <<field, calls, given, overtaken>> /\ built' = built \cup {i}
         /\ \/ StackIs(Frames(Below) \cup {Less(i), SetTo(i, field[i])}, DefaultTo(i, field[i]))
            \/ StackIs(Frames(Below) \cup {Less(i)}, SetTo(i, field[i]))
<1>1. In("sync") /\ stack' = SyncFrames(i) /\ i \in Top.todo
  BY DEF SyncSteps, BuildItem, SyncItem
<1>2. \/ StackIs(Frames(Below) \cup {Less(i), SetTo(i, field[i])}, DefaultTo(i, field[i]))
      \/ StackIs(Frames(Below) \cup {Less(i)}, SetTo(i, field[i]))
  BY <1>1, SyncStack
<1>3. UNCHANGED <<field, calls, given, overtaken>> /\ built' = built \cup {i}
  BY DEF SyncSteps, BuildItem, SyncItem
<1>4. QED
  BY <1>1, <1>2, <1>3

(* A call of the application, or one of a listener of it.                   *)
LEMMA CallFacts ==
  ASSUME TypeOK, NEW i \in Item,
         CallSetValue(i) \/ CallSetSource(i) \/ CallSetDefault(i)
  PROVE  /\ UNCHANGED <<field, built, value, source, inError, noted, deflt, basis,
                        valueEqual, sourceEqual, overtaken>>
         /\ own \subseteq own'
         /\ i \in built
         /\ \E f \in Frame :
              /\ StackIs(Frames(stack), f) /\ f.item = i
              /\ f.at \in {"setValue", "setSource", "setDefault"}
              /\ f.at = "setSource" => i \in own'
              /\ f.at = "setDefault" => \A p \in Provider : i \notin AppliesTo[p]
         /\ stack = <<>> \/ Top.at = "changed"
<1>1. CASE CallSetValue(i)
  <2>1. PICK v \in Value : Call(SetTo(i, v))
    BY <1>1 DEF CallSetValue
  <2>2. SetTo(i, v) \in Frame
    BY NewFrames
  <2>3. /\ StackIs(Frames(stack), SetTo(i, v))
        /\ stack = <<>> \/ Top.at = "changed"
    BY <2>1, <2>2, CallStack
  <2>4. SetTo(i, v).at = "setValue" /\ SetTo(i, v).item = i
    BY FrameKinds
  <2>5. QED
    BY <1>1, <2>1, <2>2, <2>3, <2>4 DEF CallSetValue, Call, itemVars
<1>2. CASE CallSetSource(i)
  <2>1. PICK s \in Source : Call(SourceTo(i, s))
    BY <1>2 DEF CallSetSource
  <2>2. SourceTo(i, s) \in Frame
    BY NewFrames
  <2>3. /\ StackIs(Frames(stack), SourceTo(i, s))
        /\ stack = <<>> \/ Top.at = "changed"
    BY <2>1, <2>2, CallStack
  <2>4. SourceTo(i, s).at = "setSource" /\ SourceTo(i, s).item = i
    BY FrameKinds
  <2>5. QED
    BY <1>2, <2>1, <2>2, <2>3, <2>4 DEF CallSetSource, Call, itemVars
<1>3. CASE CallSetDefault(i)
  <2>1. PICK v \in Value : Call(DefaultTo(i, v))
    BY <1>3 DEF CallSetDefault
  <2>2. DefaultTo(i, v) \in Frame
    BY NewFrames
  <2>3. /\ StackIs(Frames(stack), DefaultTo(i, v))
        /\ stack = <<>> \/ Top.at = "changed"
    BY <2>1, <2>2, CallStack
  <2>4. DefaultTo(i, v).at = "setDefault" /\ DefaultTo(i, v).item = i
    BY FrameKinds
  <2>5. QED
    BY <1>3, <2>1, <2>2, <2>3, <2>4 DEF CallSetDefault, Call, itemVars
<1>4. QED
  BY <1>1, <1>2, <1>3

(* Every step, by what it runs.                                             *)
LEMMA DefaultsSteps ==
  ASSUME [Next]_vars
  PROVE  \/ \E i \in Item : CallSetValue(i) \/ CallSetSource(i) \/ CallSetDefault(i)
         \/ \E i \in Item, b \in {"NONE", "DEFAULT"} : SetComparisonBasis(i, b)
         \/ \E instance \in Instance, fd \in BOOLEAN : SyncValue(instance, fd)
         \/ ClearInstance
         \/ SetValue \/ SetValueFromSource \/ SetDefaultValue
         \/ \E p \in Provider : ModelRuns(p)
         \/ ChangeTold
         \/ \E i \in Item : SyncSteps(i)
         \/ \E i \in Item : GiveDefault(i)
         \/ SyncDone \/ DefaultsDone \/ GiveDone
         \/ UNCHANGED vars
<1>1. NewInstance \in Instance /\ Settable \subseteq Instance
  BY FormAssumption DEF Instance
<1>4. (~Embedded) \in BOOLEAN
  OBVIOUS
<1>2. ASSUME \/ \E instance \in Settable : SetInstance(instance) \/ SyncMember(instance)
             \/ SetNew
      PROVE  \E instance \in Instance, fd \in BOOLEAN : SyncValue(instance, fd)
  BY <1>1, <1>2, <1>4 DEF SetInstance, SyncMember, SetNew
<1>3. QED
  BY <1>2 DEF Next, Application, Model, ModelRuns, SyncSteps

-----------------------------------------------------------------------------
(* The instance holds what the models hold.                                 *)

(* An item left alone by a step goes on following its field, if the calls   *)
(* it waits for stay on the stack.                                          *)
LEMMA StillFollows ==
  ASSUME NEW i, FieldFollows(i),
         inError'[i] = inError[i], field'[i] = field[i], value'[i] = value[i],
         \A f \in Frames(stack) :
           (\/ f.at = "sync" /\ i \in f.todo
            \/ f.at = "setValue" /\ f.item = i) => f \in Frames(stack')
  PROVE  FieldFollows(i)'
BY DEF FieldFollows

LEMMA AcceptShows ==
  ASSUME TypeOK, ShownInv, stack # <<>>, NEW i \in built, NEW v \in Value, Accept(i, v),
         UNCHANGED built, Top.at \in {"setValue", "setSource", "setDefault"}, Top.item = i,
         Top.at = "setValue" => Top.value = v
  PROVE  ShownInv'
<1> SUFFICES ASSUME NEW j \in built PROVE FieldFollows(j)'
  BY DEF ShownInv
<1>1. FieldFollows(j) /\ j \in Item
  BY DEF ShownInv, TypeOK
<1>2. Frames(stack) = Frames(Below) \cup {Top} /\ Frames(Below) \subseteq Frames(stack')
  BY TopType, AcceptFacts
<1>3. CASE j # i
  <2>1. inError'[j] = inError[j] /\ field'[j] = field[j] /\ value'[j] = value[j]
    BY <1>1, <1>3, AcceptFacts DEF Spared
  <2>2. \A f \in Frames(stack) :
          (\/ f.at = "sync" /\ j \in f.todo
           \/ f.at = "setValue" /\ f.item = j) => f \in Frames(stack')
    BY <1>2, <1>3
  <2>3. QED
    BY <1>1, <2>1, <2>2, StillFollows
<1>4. CASE j = i
  <2>1. value'[i] = v
    BY AcceptFacts
  <2>2. CASE field'[i] = v
    BY <1>4, <2>1, <2>2 DEF FieldFollows
  <2>3. CASE ~inError[i] /\ v = value[i] /\ field' = field
    <3>1. CASE field[i] = value[i]
      BY <1>4, <2>1, <2>3, <3>1 DEF FieldFollows
    <3>2. ASSUME NEW f \in Frames(stack),
                 \/ f.at = "sync" /\ i \in f.todo
                 \/ f.at = "setValue" /\ f.item = i /\ f.value = field[i]
          PROVE  FieldFollows(j)'
      <4>1. CASE f = Top
        BY <1>4, <2>1, <2>3, <3>2, <4>1 DEF FieldFollows
      <4>2. CASE f # Top
        BY <1>2, <1>4, <2>3, <3>2, <4>2 DEF FieldFollows
      <4>3. QED
        BY <4>1, <4>2
    <3>3. QED
      BY <1>1, <1>4, <2>3, <3>1, <3>2 DEF FieldFollows
  <2>4. QED
    BY <2>2, <2>3, AcceptFacts
<1>5. QED
  BY <1>3, <1>4

LEMMA RejectShows ==
  ASSUME TypeOK, ShownInv, stack # <<>>, NEW i \in built, Reject(i), UNCHANGED built,
         Top.at \in {"setValue", "setSource"}, Top.item = i
  PROVE  ShownInv'
<1> SUFFICES ASSUME NEW j \in built PROVE FieldFollows(j)'
  BY DEF ShownInv
<1>1. FieldFollows(j) /\ j \in Item
  BY DEF ShownInv, TypeOK
<1>2. CASE j = i
  BY <1>2, RejectFacts DEF FieldFollows
<1>3. CASE j # i
  <2>1. inError'[j] = inError[j] /\ field'[j] = field[j] /\ value'[j] = value[j]
    BY <1>1, <1>3, RejectFacts DEF Spared
  <2>2. Frames(stack) = Frames(stack') \cup {Top}
    BY TopType, RejectFacts
  <2>3. \A f \in Frames(stack) :
          (\/ f.at = "sync" /\ j \in f.todo
           \/ f.at = "setValue" /\ f.item = j) => f \in Frames(stack')
    BY <1>3, <2>2
  <2>4. QED
    BY <1>1, <2>1, <2>3, StillFollows
<1>4. QED
  BY <1>2, <1>3

LEMMA NextShown == TypeOK /\ ShownInv /\ [Next]_vars => ShownInv'
<1> SUFFICES ASSUME TypeOK, ShownInv, [Next]_vars PROVE ShownInv'
  OBVIOUS
<1>1. ASSUME NEW i \in Item, CallSetValue(i) \/ CallSetSource(i) \/ CallSetDefault(i)
      PROVE  ShownInv'
  <2>1. Frames(stack) \subseteq Frames(stack')
    BY <1>1, CallFacts DEF StackIs
  <2>2. UNCHANGED <<field, built, value, inError>>
    BY <1>1, CallFacts
  <2>3. QED
    BY <2>1, <2>2 DEF ShownInv, FieldFollows
<1>2. ASSUME NEW i \in Item, NEW b \in {"NONE", "DEFAULT"}, SetComparisonBasis(i, b)
      PROVE  ShownInv'
  BY <1>2 DEF SetComparisonBasis, ShownInv, FieldFollows
<1>3. ASSUME NEW instance \in Instance, NEW fd \in BOOLEAN, SyncValue(instance, fd)
      PROVE  ShownInv'
  <2>1. Sync(Item, fd) \in Frames(stack')
    BY <1>3, SyncValueStack DEF StackIs
  <2>2. built' \subseteq Item
    BY <1>3 DEF TypeOK, SyncValue
  <2>3. QED
    BY <2>1, <2>2, FrameKinds DEF ShownInv, FieldFollows
<1>4. CASE ClearInstance
  BY <1>4 DEF ClearInstance, ShownInv
<1>5. CASE SetValue
  BY <1>5, RunningCall, AcceptShows, RejectShows DEF SetValue, In
<1>6. CASE SetValueFromSource
  <2>1. /\ Top.item \in built /\ Top.source \in Source /\ Top.at = "setSource"
        /\ stack # <<>> /\ UNCHANGED built
    BY <1>6, RunningCall DEF SetValueFromSource, In
  <2>2. \/ Parse[Top.source] \in Value /\ Accept(Top.item, Parse[Top.source])
        \/ Reject(Top.item)
    BY <1>6, <2>1 DEF SetValueFromSource
  <2>3. QED
    BY <2>1, <2>2, AcceptShows, RejectShows
<1>7. CASE SetDefaultValue
  <2>1. /\ Top.item \in built /\ Top.value \in Value /\ Top.at = "setDefault"
        /\ stack # <<>> /\ UNCHANGED built
    BY <1>7, RunningCall DEF SetDefaultValue, In
  <2>2. CASE Accept(Top.item, Top.value)
    BY <2>1, <2>2, AcceptShows
  <2>3. CASE ~Accept(Top.item, Top.value)
    <3>1. stack' = Below /\ UNCHANGED <<field, value, inError>>
      BY <1>7, <2>3 DEF SetDefaultValue
    <3>2. Frames(stack) = Frames(stack') \cup {Top}
      BY <2>1, <3>1, TopType, PopTop DEF Popped
    <3>3. QED
      BY <2>1, <3>1, <3>2 DEF ShownInv, FieldFollows
  <2>4. QED
    BY <2>2, <2>3
<1>8. ASSUME NEW p \in Provider, ModelRuns(p) PROVE ShownInv'
  <2>1. /\ Frames(stack) = Frames(Below) \cup {Top}
        /\ Top.at \in {"changed", "defaults"}
        /\ UNCHANGED <<field, built, value, inError>>
    BY <1>8, RunStack, TopType
  <2>2. Frames(Below) \subseteq Frames(stack')
    BY <1>8, RunStack DEF StackIs
  <2>3. QED
    BY <2>1, <2>2 DEF ShownInv, FieldFollows
<1>9. CASE ChangeTold
  <2>1. /\ stack # <<>> /\ Top.at = "changed" /\ stack' = Below
        /\ UNCHANGED <<field, built, value, inError>>
    BY <1>9 DEF ChangeTold, In
  <2>2. Frames(stack) = Frames(stack') \cup {Top}
    BY <2>1, TopType
  <2>3. QED
    BY <2>1, <2>2 DEF ShownInv, FieldFollows
<1>10. ASSUME NEW i \in Item, SyncSteps(i) PROVE ShownInv'
  <2>1. /\ stack # <<>> /\ Top.at = "sync" /\ i \in Top.todo
        /\ UNCHANGED field /\ built' = built \cup {i}
    BY <1>10, SyncStepStack DEF In
  <2>2. Frames(Below) \cup {Less(i), SetTo(i, field[i])} \subseteq Frames(stack')
    BY <1>10, SyncStepStack DEF StackIs
  <2>3. Less(i).at = "sync" /\ Less(i).todo = Top.todo \ {i}
    BY <2>1, LessType
  <2>4. SetTo(i, field'[i]) \in Frames(stack')
    BY <2>1, <2>2
  <2>5. FieldFollows(i)'
    <3> DEFINE f == SetTo(i, field'[i])
    <3>1. f \in Frames(stack') /\ f.at = "setValue" /\ f.item = i /\ f.value = field'[i]
      BY <2>4, FrameKinds
    <3> HIDE DEF f
    <3>2. QED
      BY <3>1 DEF FieldFollows
  <2>6. ASSUME NEW j \in built, j # i PROVE FieldFollows(j)'
    <3>1. inError'[j] = inError[j] /\ value'[j] = value[j]
      BY <1>10, <2>6 DEF SyncSteps, BuildItem, SyncItem, itemVars, TypeOK
    <3>2. FieldFollows(j)
      BY DEF ShownInv
    <3>3. Frames(stack) = Frames(Below) \cup {Top}
      BY <2>1, TopType
    <3>4. CASE inError[j] \/ field[j] = value[j]
      BY <2>1, <3>1, <3>4 DEF FieldFollows
    <3>5. ASSUME NEW f \in Frames(stack),
                 \/ f.at = "sync" /\ j \in f.todo
                 \/ f.at = "setValue" /\ f.item = j /\ f.value = field[j]
          PROVE  FieldFollows(j)'
      <4>1. CASE f = Top
        BY <2>1, <2>2, <2>3, <2>6, <3>5, <4>1 DEF FieldFollows
      <4>2. CASE f # Top
        BY <2>1, <2>2, <3>3, <3>5, <4>2 DEF FieldFollows
      <4>3. QED
        BY <4>1, <4>2
    <3>6. QED
      BY <3>2, <3>4, <3>5 DEF FieldFollows
  <2>7. QED
    BY <2>1, <2>5, <2>6 DEF ShownInv
<1>11. CASE SyncDone \/ DefaultsDone \/ GiveDone
  <2>1. /\ stack # <<>> /\ Top.at \in {"sync", "defaults", "give"} /\ Top.todo = {}
        /\ UNCHANGED <<field, built, value, inError>>
    BY <1>11 DEF SyncDone, DefaultsDone, GiveDone, In, itemVars
  <2>2. Frames(stack) = Frames(Below) \cup {Top}
    BY <2>1, TopType
  <2>3. Frames(Below) \subseteq Frames(stack')
    <3>1. CASE SyncDone
      BY <3>1, SyncDoneStack DEF StackIs
    <3>2. CASE DefaultsDone \/ GiveDone
      BY <3>2 DEF DefaultsDone, GiveDone
    <3>3. QED
      BY <1>11, <3>1, <3>2
  <2>4. QED
    BY <2>1, <2>2, <2>3 DEF ShownInv, FieldFollows
<1>12. CASE UNCHANGED vars
  BY <1>12 DEF vars, itemVars, ShownInv, FieldFollows
<1>13. ASSUME NEW i \in Item, GiveDefault(i) PROVE ShownInv'
  <2>1. /\ Frames(stack) = Frames(Below) \cup {Top} /\ Top.at = "give"
        /\ UNCHANGED <<field, built, value, inError>>
    BY <1>13, GiveStack, TopType
  <2>2. Frames(Below) \subseteq Frames(stack')
    BY <1>13, GiveStack DEF StackIs
  <2>3. QED
    BY <2>1, <2>2 DEF ShownInv, FieldFollows
<1>14. QED
  BY <1>1, <1>2, <1>3, <1>4, <1>5, <1>6, <1>7, <1>8, <1>9, <1>10, <1>11, <1>12, <1>13,
     DefaultsSteps

(* Between calls, the instance holds the current value of each item without *)
(* error, whatever handlers and listeners changed in the middle of setting  *)
(* it.                                                                      *)
THEOREM DefaultsFieldHoldsValue == Spec => []FieldHoldsValue
<1>1. Init => ShownInv
  BY DEF Init, ShownInv
<1>2. ShownInv => FieldHoldsValue
  <2> SUFFICES ASSUME ShownInv, AtRest, NEW i \in built, ~inError[i] PROVE field[i] = value[i]
    BY DEF FieldHoldsValue
  <2>1. Frames(stack) = {}
    BY FramesEmpty DEF AtRest
  <2>2. QED
    BY <2>1 DEF ShownInv, FieldFollows
<1>3. QED
  BY <1>1, <1>2, NextShown, DefaultsTypeOK, PTL DEF Spec

-----------------------------------------------------------------------------
(* Listeners know whether an item equals its default.                       *)
LEMMA StillKnown ==
  ASSUME NEW i, EqualityFollows(i),
         valueEqual'[i] = valueEqual[i], inError'[i] = inError[i], value'[i] = value[i],
         deflt'[i] = deflt[i], basis'[i] = basis[i], i \in noted' <=> i \in noted,
         \A f \in Frames(stack) : f.at = "changed" /\ f.item = i => f \in Frames(stack')
  PROVE  EqualityFollows(i)'
BY DEF EqualityFollows, ValueTest

LEMMA AcceptTells ==
  ASSUME TypeOK, EqualityInv, stack # <<>>, NEW i \in built, NEW v \in Value, Accept(i, v),
         UNCHANGED <<built, basis>>, Top.at # "changed",
         \A j \in Item \ {i} : deflt'[j] = deflt[j]
  PROVE  EqualityInv'
<1> SUFFICES ASSUME NEW j \in built PROVE EqualityFollows(j)'
  BY DEF EqualityInv
<1>1. EqualityFollows(j) /\ j \in Item
  BY DEF EqualityInv, TypeOK
<1>2. CASE j # i
  <2>1. /\ valueEqual'[j] = valueEqual[j] /\ inError'[j] = inError[j] /\ value'[j] = value[j]
        /\ deflt'[j] = deflt[j] /\ basis'[j] = basis[j] /\ (j \in noted' <=> j \in noted)
    BY <1>1, <1>2, AcceptFacts DEF Spared
  <2>2. \A f \in Frames(stack) : f.at = "changed" /\ f.item = j => f \in Frames(stack')
    BY TopType, AcceptFacts
  <2>3. QED
    BY <1>1, <2>1, <2>2, StillKnown
<1>3. CASE j = i
  <2>1. value'[i] = v /\ ~inError'[i] /\ i \notin noted'
    BY AcceptFacts
  <2>2. CASE Changed(i) \in Frames(stack')
    <3> DEFINE f == Changed(i)
    <3>1. f \in Frames(stack') /\ f.at = "changed" /\ f.item = i
      BY <2>2, FrameKinds
    <3> HIDE DEF f
    <3>2. QED
      BY <1>3, <3>1 DEF EqualityFollows
  <2>3. CASE valueEqual'[i] = (basis[i] = "NONE" \/ v = deflt'[i])
    BY <1>3, <2>1, <2>3 DEF EqualityFollows, ValueTest
  <2>4. QED
    BY <2>2, <2>3, AcceptFacts
<1>4. QED
  BY <1>2, <1>3

LEMMA RejectTells ==
  ASSUME TypeOK, EqualityInv, stack # <<>>, NEW i \in built, Reject(i),
         UNCHANGED <<built, basis, deflt>>, Top.at # "changed"
  PROVE  EqualityInv'
<1> SUFFICES ASSUME NEW j \in built PROVE EqualityFollows(j)'
  BY DEF EqualityInv
<1>1. EqualityFollows(j) /\ j \in Item
  BY DEF EqualityInv, TypeOK
<1>2. CASE j = i
  <2>1. valueEqual'[i] = TRUE /\ i \in noted'
    BY RejectFacts
  <2>2. QED
    BY <1>2, <2>1 DEF EqualityFollows, ValueTest
<1>3. CASE j # i
  <2>1. /\ valueEqual'[j] = valueEqual[j] /\ inError'[j] = inError[j] /\ value'[j] = value[j]
        /\ (j \in noted' <=> j \in noted)
    BY <1>1, <1>3, RejectFacts DEF Spared
  <2>2. \A f \in Frames(stack) : f.at = "changed" /\ f.item = j => f \in Frames(stack')
    BY TopType, RejectFacts
  <2>3. QED
    BY <1>1, <2>1, <2>2, StillKnown
<1>4. QED
  BY <1>2, <1>3

LEMMA NextEquality == TypeOK /\ EqualityInv /\ [Next]_vars => EqualityInv'
<1> SUFFICES ASSUME TypeOK, EqualityInv, [Next]_vars PROVE EqualityInv'
  OBVIOUS
<1>1. ASSUME NEW i \in Item, CallSetValue(i) \/ CallSetSource(i) \/ CallSetDefault(i)
      PROVE  EqualityInv'
  <2>1. Frames(stack) \subseteq Frames(stack')
    BY <1>1, CallFacts DEF StackIs
  <2>2. UNCHANGED <<built, value, inError, noted, deflt, basis, valueEqual>>
    BY <1>1, CallFacts
  <2>3. QED
    BY <2>1, <2>2 DEF EqualityInv, EqualityFollows, ValueTest
<1>2. ASSUME NEW i \in Item, NEW b \in {"NONE", "DEFAULT"}, SetComparisonBasis(i, b)
      PROVE  EqualityInv'
  <2>1. UNCHANGED <<built, value, inError, noted, deflt, stack>>
    BY <1>2 DEF SetComparisonBasis
  <2>2. ASSUME NEW j \in built PROVE EqualityFollows(j)'
    <3>1. EqualityFollows(j) /\ j \in Item
      BY DEF EqualityInv, TypeOK
    <3>2. CASE j = i
      <4>1. /\ basis'[i] = b
            /\ valueEqual'[i] = (i \in noted \/ inError[i] \/ b = "NONE" \/ value[i] = deflt[i])
        BY <1>2 DEF SetComparisonBasis, TypeOK
      <4>2. QED
        BY <2>1, <3>2, <4>1 DEF EqualityFollows, ValueTest
    <3>3. CASE j # i
      <4>1. basis'[j] = basis[j] /\ valueEqual'[j] = valueEqual[j]
        BY <1>2, <3>1, <3>3 DEF SetComparisonBasis, TypeOK
      <4>2. QED
        BY <2>1, <3>1, <4>1, StillKnown
    <3>4. QED
      BY <3>2, <3>3
  <2>3. QED
    BY <2>1, <2>2 DEF EqualityInv
<1>3. ASSUME NEW instance \in Instance, NEW fd \in BOOLEAN, SyncValue(instance, fd)
      PROVE  EqualityInv'
  <2>1. UNCHANGED <<built, value, inError, noted, deflt, basis, valueEqual>>
    BY <1>3 DEF SyncValue, itemVars
  <2>2. Frames(stack) = {}
    BY <1>3, FramesEmpty DEF SyncValue
  <2>3. QED
    BY <2>1, <2>2 DEF EqualityInv, EqualityFollows, ValueTest
<1>4. CASE ClearInstance
  BY <1>4 DEF ClearInstance, EqualityInv
<1>5. CASE SetValue
  <2>1. /\ Top.item \in built /\ Top.value \in Value /\ Top.at # "changed"
        /\ stack # <<>> /\ UNCHANGED <<built, basis, deflt>>
    BY <1>5, RunningCall DEF SetValue, In
  <2>2. Accept(Top.item, Top.value) \/ Reject(Top.item)
    BY <1>5 DEF SetValue
  <2>3. QED
    BY <2>1, <2>2, AcceptTells, RejectTells
<1>6. CASE SetValueFromSource
  <2>1. /\ Top.item \in built /\ Top.source \in Source /\ Top.at # "changed"
        /\ stack # <<>> /\ UNCHANGED <<built, basis, deflt>>
    BY <1>6, RunningCall DEF SetValueFromSource, In
  <2>2. \/ Parse[Top.source] \in Value /\ Accept(Top.item, Parse[Top.source])
        \/ Reject(Top.item)
    BY <1>6, <2>1 DEF SetValueFromSource
  <2>3. QED
    BY <2>1, <2>2, AcceptTells, RejectTells
<1>7. CASE SetDefaultValue
  <2>1. /\ Top.item \in built /\ Top.value \in Value /\ Top.at # "changed"
        /\ stack # <<>> /\ UNCHANGED <<built, basis>>
        /\ deflt' = [deflt EXCEPT ![Top.item] = Top.value]
    BY <1>7, RunningCall DEF SetDefaultValue, In
  <2>2. \A j \in Item \ {Top.item} : deflt'[j] = deflt[j]
    BY <2>1 DEF TypeOK
  <2>3. CASE DefaultShows(Top.item)
    <3>1. Accept(Top.item, Top.value)
      BY <1>7, <2>3 DEF SetDefaultValue
    <3>2. QED
      BY <2>1, <2>2, <3>1, AcceptTells
  <2>4. CASE ~DefaultShows(Top.item)
    <3>1. /\ stack' = Below /\ TestDefault(Top.item, Top.value)
          /\ UNCHANGED <<value, inError, noted>>
      BY <1>7, <2>4 DEF SetDefaultValue
    <3>2. \A f \in Frames(stack) : f.at = "changed" => f \in Frames(stack')
      BY <2>1, <3>1, TopType
    <3>3. ASSUME NEW j \in built PROVE EqualityFollows(j)'
      <4>1. EqualityFollows(j) /\ j \in Item
        BY DEF EqualityInv, TypeOK
      <4>2. CASE j # Top.item
        <5>1. valueEqual'[j] = valueEqual[j]
          BY <3>1, <4>1, <4>2 DEF TestDefault, TypeOK
        <5>2. QED
          BY <2>1, <2>2, <3>1, <3>2, <4>1, <4>2, <5>1, StillKnown
      <4>3. CASE j = Top.item /\ (basis[j] = "NONE" \/ j \in noted)
        <5>1. valueEqual'[j] = valueEqual[j]
          BY <3>1, <4>3 DEF TestDefault
        <5>2. ValueTest(j) /\ ValueTest(j)'
          BY <2>1, <3>1, <4>3 DEF ValueTest
        <5>3. CASE valueEqual[j] = ValueTest(j)
          BY <5>1, <5>2, <5>3 DEF EqualityFollows
        <5>4. CASE \E f \in Frames(stack) : f.at = "changed" /\ f.item = j
          BY <3>2, <5>4 DEF EqualityFollows
        <5>5. QED
          BY <4>1, <5>3, <5>4 DEF EqualityFollows
      <4>4. CASE j = Top.item /\ ~(basis[j] = "NONE" \/ j \in noted)
        <5>1. valueEqual'[j] = (inError[j] \/ value[j] = Top.value)
          BY <3>1, <4>1, <4>4 DEF TestDefault, TypeOK
        <5>2. deflt'[j] = Top.value
          BY <2>1, <4>1, <4>4 DEF TypeOK
        <5>3. QED
          BY <2>1, <3>1, <4>4, <5>1, <5>2 DEF EqualityFollows, ValueTest
      <4>5. QED
        BY <4>2, <4>3, <4>4
    <3>4. QED
      BY <2>1, <3>3 DEF EqualityInv
  <2>5. QED
    BY <2>3, <2>4
<1>8. ASSUME NEW p \in Provider, ModelRuns(p) PROVE EqualityInv'
  <2>1. UNCHANGED <<built, value, inError, noted, deflt, basis, valueEqual>>
    BY <1>8, RunStack
  <2>2. Frames(Below) \cup {Less(p)} \subseteq Frames(stack')
    BY <1>8, RunStack DEF StackIs
  <2>3. /\ Frames(stack) = Frames(Below) \cup {Top}
        /\ Less(p).at = Top.at /\ (Top.at = "changed" => Less(p).item = Top.item)
    BY <1>8, RunStack, TopType, LessType
  <2>4. QED
    BY <2>1, <2>2, <2>3 DEF EqualityInv, EqualityFollows, ValueTest
<1>9. CASE ChangeTold
  <2>1. /\ Top.item \in built /\ stack # <<>> /\ stack' = Below
        /\ UNCHANGED <<built, value, inError, noted, deflt, basis>>
        /\ valueEqual' = [valueEqual EXCEPT ![Top.item] = ValueTest(Top.item)]
    BY <1>9, RunningCall DEF ChangeTold, In
  <2>2. Frames(stack) = Frames(stack') \cup {Top}
    BY <2>1, TopType
  <2>3. ASSUME NEW j \in built PROVE EqualityFollows(j)'
    <3>1. EqualityFollows(j) /\ j \in Item
      BY DEF EqualityInv, TypeOK
    <3>2. CASE j = Top.item
      <4>1. valueEqual'[j] = ValueTest(j)
        BY <2>1, <3>1, <3>2 DEF TypeOK
      <4>2. ValueTest(j)' = ValueTest(j)
        BY <2>1 DEF ValueTest
      <4>3. QED
        BY <4>1, <4>2 DEF EqualityFollows
    <3>3. CASE j # Top.item
      <4>1. valueEqual'[j] = valueEqual[j]
        BY <2>1, <3>1, <3>3 DEF TypeOK
      <4>2. \A f \in Frames(stack) : f.at = "changed" /\ f.item = j => f \in Frames(stack')
        BY <2>2, <3>3
      <4>3. QED
        BY <2>1, <3>1, <4>1, <4>2, StillKnown
    <3>4. QED
      BY <3>2, <3>3
  <2>4. QED
    BY <2>1, <2>3 DEF EqualityInv
<1>10. ASSUME NEW i \in Item, SyncSteps(i) PROVE EqualityInv'
  <2>1. stack # <<>> /\ Top.at = "sync" /\ built' = built \cup {i}
    BY <1>10, SyncStepStack DEF In
  <2>2. \A f \in Frames(stack) : f.at = "changed" => f \in Frames(stack')
    <3>1. Frames(Below) \subseteq Frames(stack')
      BY <1>10, SyncStepStack DEF StackIs
    <3>2. QED
      BY <2>1, <3>1, TopType
  <2>3. CASE SyncItem(i)
    <3>1. UNCHANGED <<built, value, inError, noted, deflt, basis, valueEqual>>
      BY <2>3 DEF SyncItem, itemVars
    <3>2. QED
      BY <2>2, <3>1 DEF EqualityInv, EqualityFollows, ValueTest
  <2>4. CASE BuildItem(i)
    <3>1. valueEqual'[i] = TRUE /\ inError'[i]
      BY <2>4 DEF BuildItem, TypeOK
    <3>2. EqualityFollows(i)'
      BY <3>1 DEF EqualityFollows, ValueTest
    <3>3. ASSUME NEW j \in built, j # i PROVE EqualityFollows(j)'
      <4>1. EqualityFollows(j)
        BY DEF EqualityInv
      <4>2. /\ valueEqual'[j] = valueEqual[j] /\ inError'[j] = inError[j]
            /\ value'[j] = value[j] /\ deflt'[j] = deflt[j] /\ basis'[j] = basis[j]
            /\ (j \in noted' <=> j \in noted)
        BY <2>4, <3>3 DEF BuildItem, TypeOK
      <4>3. QED
        BY <2>2, <4>1, <4>2, StillKnown
    <3>4. QED
      BY <2>1, <3>2, <3>3 DEF EqualityInv
  <2>5. QED
    BY <1>10, <2>3, <2>4 DEF SyncSteps
<1>11. CASE SyncDone \/ DefaultsDone \/ GiveDone
  <2>1. /\ stack # <<>> /\ Top.at \in {"sync", "defaults", "give"}
        /\ UNCHANGED <<built, value, inError, noted, deflt, basis, valueEqual>>
    BY <1>11 DEF SyncDone, DefaultsDone, GiveDone, In, itemVars
  <2>2. Frames(stack) = Frames(Below) \cup {Top}
    BY <2>1, TopType
  <2>3. Frames(Below) \subseteq Frames(stack')
    <3>1. CASE SyncDone
      BY <3>1, SyncDoneStack DEF StackIs
    <3>2. CASE DefaultsDone \/ GiveDone
      BY <3>2 DEF DefaultsDone, GiveDone
    <3>3. QED
      BY <1>11, <3>1, <3>2
  <2>4. QED
    BY <2>1, <2>2, <2>3 DEF EqualityInv, EqualityFollows, ValueTest
<1>12. CASE UNCHANGED vars
  BY <1>12 DEF vars, itemVars, EqualityInv, EqualityFollows, ValueTest
<1>13. ASSUME NEW i \in Item, GiveDefault(i) PROVE EqualityInv'
  <2>1. /\ Frames(stack) = Frames(Below) \cup {Top} /\ Top.at = "give"
        /\ UNCHANGED <<built, value, inError, noted, deflt, basis, valueEqual>>
    BY <1>13, GiveStack, TopType
  <2>2. Frames(Below) \subseteq Frames(stack')
    BY <1>13, GiveStack DEF StackIs
  <2>3. QED
    BY <2>1, <2>2 DEF EqualityInv, EqualityFollows, ValueTest
<1>14. QED
  BY <1>1, <1>2, <1>3, <1>4, <1>5, <1>6, <1>7, <1>8, <1>9, <1>10, <1>11, <1>12, <1>13,
     DefaultsSteps

(* Between calls, what the listeners were last told of an item's equality   *)
(* with its default is so: the test that setRawValue makes only after the   *)
(* listeners of the value looks at what they left.                          *)
THEOREM DefaultsEqualityTold == Spec => []ValueEqualityTold
<1>1. Init => EqualityInv
  BY DEF Init, EqualityInv
<1>2. EqualityInv => ValueEqualityTold
  <2> SUFFICES ASSUME EqualityInv, AtRest, NEW i \in built PROVE valueEqual[i] = ValueTest(i)
    BY DEF ValueEqualityTold
  <2>1. Frames(stack) = {}
    BY FramesEmpty DEF AtRest
  <2>2. QED
    BY <2>1 DEF EqualityInv, EqualityFollows
<1>3. QED
  BY <1>1, <1>2, NextEquality, DefaultsTypeOK, PTL DEF Spec

-----------------------------------------------------------------------------
(* A default computed and yet to be set is the one the fields give.         *)
LEMMA GivingFrames ==
  ASSUME NEW f, NEW s, f \in Frames(s), f.at = "give", f.todo # {}, f.provider \in Provider
  PROVE  f.provider \in Giving(s)
BY DEF Frames, Giving

(* It remains so if fewer of them wait.                                     *)
LEMMA StillGiven ==
  ASSUME GiveInv, UNCHANGED <<field, overtaken>>,
         \A f \in Frames(stack') : f.at = "give" => f \in Frames(stack)
  PROVE  GiveInv'
BY DEF GiveInv

LEMMA SameDefault ==
  ASSUME NEW p \in Provider, NEW f \in [Item -> Value], NEW g \in [Item -> Value],
         \A i \in DependsOn[p] : f[i] = g[i]
  PROVE  DefaultOf[p][f] = DefaultOf[p][g]
BY ProviderAssumption

LEMMA AcceptGives ==
  ASSUME TypeOK, TypeOK', GiveInv, stack # <<>>, NEW i \in built, NEW v \in Value, Accept(i, v)
  PROVE  GiveInv'
<1> SUFFICES ASSUME NEW f \in Frames(stack'), f.at = "give", f.todo # {}
             PROVE  f.value = DefaultOf[f.provider][field'] \/ f.provider \in overtaken'
  BY DEF GiveInv
<1>1. i \in Item
  BY DEF TypeOK
<1>2. f \in Frames(Below)
  <2>1. Changed(i).at # "give"
    BY FrameKinds
  <2>2. QED
    BY <1>1, <2>1, AcceptStack DEF StackIs, Popped
<1>3. f \in Frames(stack) /\ f \in Frame
  BY <1>2, TopType, FramesIn DEF TypeOK
<1>4. f.provider \in Provider
  BY <1>3, FrameFields
<1>5. f.value = DefaultOf[f.provider][field] \/ f.provider \in overtaken'
  BY <1>3, AcceptFacts DEF GiveInv
<1>6. CASE field' = field
  BY <1>5, <1>6
<1>7. CASE i \notin DependsOn[f.provider]
  <2>1. \A j \in DependsOn[f.provider] : field'[j] = field[j]
    <3>1. DependsOn[f.provider] \subseteq Item
      BY <1>4
    <3>2. QED
      BY <1>7, <3>1, AcceptFacts DEF Spared
  <2>2. field \in [Item -> Value] /\ field' \in [Item -> Value]
    BY DEF TypeOK, Instance
  <2>3. DefaultOf[f.provider][field'] = DefaultOf[f.provider][field]
    BY <1>4, <2>1, <2>2, SameDefault
  <2>4. QED
    BY <1>5, <2>3
<1>8. CASE field' # field /\ i \in DependsOn[f.provider]
  <2>1. overtaken' = overtaken \cup {p \in Giving(Below) : i \in DependsOn[p]}
    BY <1>8 DEF Accept, SetRawValue
  <2>2. f.provider \in Giving(Below)
    BY <1>2, <1>4, GivingFrames
  <2>3. QED
    BY <1>8, <2>1, <2>2
<1>9. QED
  BY <1>6, <1>7, <1>8

LEMMA NextGive == TypeOK /\ TypeOK' /\ GiveInv /\ [Next]_vars => GiveInv'
<1> SUFFICES ASSUME TypeOK, TypeOK', GiveInv, [Next]_vars PROVE GiveInv'
  OBVIOUS
<1>1. ASSUME NEW i \in Item, CallSetValue(i) \/ CallSetSource(i) \/ CallSetDefault(i)
      PROVE  GiveInv'
  <2>1. PICK f \in Frame : StackIs(Frames(stack), f) /\ f.at # "give"
    BY <1>1, CallFacts
  <2>2. UNCHANGED <<field, overtaken>>
    BY <1>1, CallFacts
  <2>3. QED
    BY <2>1, <2>2, StillGiven DEF StackIs
<1>2. ASSUME NEW i \in Item, NEW b \in {"NONE", "DEFAULT"}, SetComparisonBasis(i, b)
      PROVE  GiveInv'
  BY <1>2, StillGiven DEF SetComparisonBasis
<1>3. ASSUME NEW instance \in Instance, NEW fd \in BOOLEAN, SyncValue(instance, fd)
      PROVE  GiveInv'
  <2>1. Frames(stack') = {Sync(Item, fd)} /\ Sync(Item, fd).at = "sync"
    BY <1>3, SyncValueStack, FrameKinds DEF StackIs
  <2>2. QED
    BY <2>1 DEF GiveInv
<1>4. CASE ClearInstance
  BY <1>4, FramesEmpty DEF ClearInstance, GiveInv
<1>5. ASSUME NEW i \in built, Reject(i), stack # <<>> PROVE GiveInv'
  <2>1. Frames(stack') \subseteq Frames(stack) /\ UNCHANGED <<field, overtaken>>
    BY <1>5, RejectFacts, TopType
  <2>2. QED
    BY <2>1, StillGiven
<1>6. CASE SetValue
  BY <1>5, <1>6, RunningCall, AcceptGives DEF SetValue, In
<1>7. CASE SetValueFromSource
  <2>1. Top.item \in built /\ Top.source \in Source /\ stack # <<>>
    BY <1>7, RunningCall DEF SetValueFromSource, In
  <2>2. \/ Parse[Top.source] \in Value /\ Accept(Top.item, Parse[Top.source])
        \/ Reject(Top.item)
    BY <1>7, <2>1 DEF SetValueFromSource
  <2>3. QED
    BY <1>5, <2>1, <2>2, AcceptGives
<1>8. CASE SetDefaultValue
  <2>1. Top.item \in built /\ Top.value \in Value /\ stack # <<>>
    BY <1>8, RunningCall DEF SetDefaultValue, In
  <2>2. CASE Accept(Top.item, Top.value)
    BY <2>1, <2>2, AcceptGives
  <2>3. CASE ~Accept(Top.item, Top.value)
    <3>1. stack' = Below /\ UNCHANGED <<field, overtaken>>
      BY <1>8, <2>3 DEF SetDefaultValue
    <3>2. Frames(stack') \subseteq Frames(stack)
      BY <2>1, <3>1, TopType
    <3>3. QED
      BY <3>1, <3>2, StillGiven
  <2>4. QED
    BY <2>2, <2>3
<1>9. ASSUME NEW p \in Provider, ModelRuns(p) PROVE GiveInv'
  <2>1. /\ stack # <<>> /\ field' = field /\ Less(p).at # "give"
        /\ Frames(Below) \subseteq Frames(stack)
    BY <1>9, RunStack, LessType, TopType
  <2>5. \A f \in Frames(Below) \cup {Less(p)} : f.at = "give" => f \in Frames(stack)
    BY <2>1
  <2>2. CASE StackIs(Frames(Below), Less(p)) /\ overtaken' = overtaken
    BY <2>1, <2>2, StillGiven DEF StackIs
  <2>3. CASE /\ StackIs(Frames(Below) \cup {Less(p)}, Give(p))
             /\ overtaken' = overtaken \ ({p} \ Giving(stack))
    <3>1. ASSUME NEW f \in Frames(stack'), f.at = "give", f.todo # {}
          PROVE  f.value = DefaultOf[f.provider][field'] \/ f.provider \in overtaken'
      <4>1. CASE f = Give(p)
        BY <2>1, <4>1, FrameKinds
      <4>2. CASE f # Give(p)
        <5>1. f \in Frames(stack) /\ f \in Frame
          BY <2>1, <2>3, <2>5, <3>1, <4>2, FramesIn DEF StackIs, TypeOK
        <5>2. f.provider \in Giving(stack)
          BY <3>1, <5>1, FrameFields, GivingFrames
        <5>3. QED
          BY <2>1, <2>3, <3>1, <5>1, <5>2 DEF GiveInv
      <4>3. QED
        BY <4>1, <4>2
    <3>2. QED
      BY <3>1 DEF GiveInv
  <2>4. QED
    BY <1>9, <2>2, <2>3, RunStack
<1>10. ASSUME NEW i \in Item, GiveDefault(i) PROVE GiveInv'
  <2> DEFINE d == DefaultTo(i, Top.value)
  <2>1. /\ stack # <<>> /\ Top.at = "give" /\ i \in Top.todo
        /\ StackIs(Frames(Below) \cup {Less(i)}, d)
        /\ UNCHANGED <<field, overtaken>>
    BY <1>10, GiveStack
  <2>2. d.at # "give"
    BY FrameKinds
  <2> HIDE DEF d
  <2>3. Less(i).provider = Top.provider /\ Less(i).value = Top.value
    BY <2>1, LessType
  <2>4. Frames(stack) = Frames(Below) \cup {Top}
    BY <2>1, TopType
  <2>5. Top.value = DefaultOf[Top.provider][field] \/ Top.provider \in overtaken
    BY <2>1, <2>4 DEF GiveInv
  <2>6. ASSUME NEW f \in Frames(stack'), f.at = "give", f.todo # {}
        PROVE  f.value = DefaultOf[f.provider][field'] \/ f.provider \in overtaken'
    <3>1. CASE f = Less(i)
      BY <2>1, <2>3, <2>5, <3>1
    <3>2. CASE f \in Frames(Below)
      BY <2>1, <2>4, <2>6, <3>2 DEF GiveInv
    <3>3. QED
      BY <2>1, <2>2, <2>6, <3>1, <3>2 DEF StackIs
  <2>7. QED
    BY <2>6 DEF GiveInv
<1>11. CASE ChangeTold \/ DefaultsDone \/ GiveDone
  <2>1. stack # <<>> /\ stack' = Below /\ UNCHANGED <<field, overtaken>>
    BY <1>11 DEF ChangeTold, DefaultsDone, GiveDone, In
  <2>2. QED
    BY <2>1, TopType, StillGiven
<1>12. ASSUME NEW i \in Item, SyncSteps(i) PROVE GiveInv'
  <2>1. stack # <<>> /\ Top.at = "sync" /\ UNCHANGED <<field, overtaken>>
    BY <1>12, SyncStepStack DEF In
  <2>2. /\ Less(i).at = "sync" /\ SetTo(i, field[i]).at = "setValue"
        /\ DefaultTo(i, field[i]).at = "setDefault" /\ Frames(Below) \subseteq Frames(stack)
    BY <2>1, LessType, FrameKinds, TopType
  <2>3. \A f \in Frames(stack') : f.at = "give" => f \in Frames(stack)
    BY <1>12, <2>2, SyncStepStack DEF StackIs
  <2>4. QED
    BY <2>1, <2>3, StillGiven
<1>13. CASE SyncDone
  <2>1. /\ stack # <<>> /\ UNCHANGED <<field, overtaken>>
        /\ Defaults(Provider).at = "defaults"
    BY <1>13, FrameKinds DEF SyncDone, In
  <2>2. \A f \in Frames(stack') : f.at = "give" => f \in Frames(stack)
    BY <1>13, <2>1, SyncDoneStack, TopType DEF StackIs
  <2>3. QED
    BY <2>1, <2>2, StillGiven
<1>14. CASE UNCHANGED vars
  BY <1>14, StillGiven DEF vars
<1>15. QED
  BY <1>1, <1>2, <1>3, <1>4, <1>6, <1>7, <1>8, <1>9, <1>10, <1>11, <1>12, <1>13, <1>14,
     DefaultsSteps

LEMMA DefaultsGiveInv == Spec => []GiveInv
<1>1. Init => GiveInv
  BY FramesEmpty DEF Init, GiveInv
<1>2. QED
  BY <1>1, NextGive, DefaultsTypeOK, PTL DEF Spec

-----------------------------------------------------------------------------
(* Which calls wait and which run at once.                                  *)
CallsInv == StackInv /\ DefaultInv /\ SourceInv

LEMMA PushedCalls ==
  ASSUME NEW below, NEW top, StackIs(below, top), \A f \in below : f.at \in WaitingCalls,
         top.at \notin {"setDefault", "setSource"}
  PROVE  CallsInv'
BY DEF StackIs, CallsInv, StackInv, DefaultInv, SourceInv, In

LEMMA PoppedCalls ==
  ASSUME TypeOK, CallsInv, stack # <<>>, Popped
  PROVE  CallsInv'
BY DEF Popped, CallsInv, StackInv, DefaultInv, SourceInv, In, WaitingCalls

LEMMA AcceptCalls ==
  ASSUME TypeOK, CallsInv, stack # <<>>, NEW i \in built, NEW v \in Value, Accept(i, v)
  PROVE  CallsInv'
<1>1. StackIs(Frames(Below), Changed(i)) \/ Popped
  BY AcceptStack DEF TypeOK
<1>2. \A f \in Frames(Below) : f.at \in WaitingCalls
  BY DEF CallsInv, StackInv
<1>3. Changed(i).at \notin {"setDefault", "setSource"}
  BY FrameKinds
<1>4. QED
  BY <1>1, <1>2, <1>3, PushedCalls, PoppedCalls

LEMMA NextCalls == TypeOK /\ GiveInv /\ CallsInv /\ [Next]_vars => CallsInv'
<1> SUFFICES ASSUME TypeOK, GiveInv, CallsInv, [Next]_vars PROVE CallsInv'
  OBVIOUS
<1>0. stack # <<>> => \A f \in Frames(Below) : f.at \in WaitingCalls
  BY DEF CallsInv, StackInv
<1>1. ASSUME NEW i \in Item, CallSetValue(i) \/ CallSetSource(i) \/ CallSetDefault(i)
      PROVE  CallsInv'
  <2>1. PICK f \in Frame :
          /\ StackIs(Frames(stack), f) /\ f.item = i
          /\ f.at \in {"setValue", "setSource", "setDefault"}
          /\ f.at = "setSource" => i \in own'
          /\ f.at = "setDefault" => \A p \in Provider : i \notin AppliesTo[p]
    BY <1>1, CallFacts
  <2>2. \A g \in Frames(stack) : g.at \in WaitingCalls
    <3>1. CASE stack = <<>>
      BY <3>1, FramesEmpty
    <3>2. CASE stack # <<>>
      BY <1>0, <1>1, <3>2, CallFacts, TopType DEF WaitingCalls
    <3>3. QED
      BY <3>1, <3>2
  <2>3. QED
    BY <2>1, <2>2 DEF StackIs, CallsInv, StackInv, DefaultInv, SourceInv, In
<1>2. ASSUME NEW i \in Item, NEW b \in {"NONE", "DEFAULT"}, SetComparisonBasis(i, b)
      PROVE  CallsInv'
  <2>1. stack' = stack /\ (stack = <<>> \/ Top.at = "changed")
    BY <1>2 DEF SetComparisonBasis, In
  <2>2. Below' = Below /\ Top' = Top
    BY <2>1 DEF Below, Top
  <2>3. QED
    BY <1>0, <2>1, <2>2 DEF CallsInv, StackInv, DefaultInv, SourceInv, In
<1>3. ASSUME NEW instance \in Instance, NEW fd \in BOOLEAN, SyncValue(instance, fd)
      PROVE  CallsInv'
  <2>1. Sync(Item, fd).at = "sync"
    BY FrameKinds
  <2>2. StackIs({}, Sync(Item, fd))
    BY <1>3, SyncValueStack
  <2>3. QED
    BY <2>1, <2>2, PushedCalls
<1>4. CASE ClearInstance
  BY <1>4 DEF ClearInstance, CallsInv, StackInv, DefaultInv, SourceInv, In
<1>5. CASE SetValue
  <2>1. Top.item \in built /\ Top.value \in Value /\ stack # <<>>
    BY <1>5, RunningCall DEF SetValue, In
  <2>2. CASE Accept(Top.item, Top.value)
    BY <2>1, <2>2, AcceptCalls
  <2>3. CASE Reject(Top.item)
    BY <2>1, <2>3, PopTop, PoppedCalls DEF Reject
  <2>4. QED
    BY <1>5, <2>2, <2>3 DEF SetValue
<1>6. CASE SetValueFromSource
  <2>1. Top.item \in built /\ Top.source \in Source /\ stack # <<>>
    BY <1>6, RunningCall DEF SetValueFromSource, In
  <2>2. \/ Parse[Top.source] \in Value /\ Accept(Top.item, Parse[Top.source])
        \/ Reject(Top.item)
    BY <1>6, <2>1 DEF SetValueFromSource
  <2>3. CASE Reject(Top.item)
    BY <2>1, <2>3, PopTop, PoppedCalls DEF Reject
  <2>4. QED
    BY <2>1, <2>2, <2>3, AcceptCalls
<1>7. CASE SetDefaultValue
  <2>1. Top.item \in built /\ Top.value \in Value /\ stack # <<>>
    BY <1>7, RunningCall DEF SetDefaultValue, In
  <2>2. Accept(Top.item, Top.value) \/ stack' = Below
    BY <1>7 DEF SetDefaultValue
  <2>3. QED
    BY <2>1, <2>2, PopTop, PoppedCalls, AcceptCalls
<1>8. ASSUME NEW p \in Provider, ModelRuns(p) PROVE CallsInv'
  <2>1. stack # <<>> /\ Top.at \in {"changed", "defaults"} /\ field' = field
    BY <1>8, RunStack
  <2>2. Less(p).at \in WaitingCalls \ {"setDefault", "setSource"}
    BY <2>1, LessType DEF WaitingCalls
  <2>3. CASE StackIs(Frames(Below), Less(p))
    BY <1>0, <2>1, <2>2, <2>3, PushedCalls
  <2>4. CASE StackIs(Frames(Below) \cup {Less(p)}, Give(p))
    BY <1>0, <2>1, <2>2, <2>4, FrameKinds, PushedCalls
  <2>5. QED
    BY <1>8, <2>3, <2>4, RunStack
<1>9. CASE ChangeTold \/ DefaultsDone \/ GiveDone
  BY <1>9, PopTop, PoppedCalls DEF ChangeTold, DefaultsDone, GiveDone, In
<1>10. ASSUME NEW i \in Item, SyncSteps(i) PROVE CallsInv'
  <2>1. stack # <<>> /\ Top.at = "sync"
    BY <1>10, SyncStepStack DEF In
  <2>2. Less(i).at = "sync"
    BY <2>1, LessType
  <2>3. SetTo(i, field[i]).at = "setValue" /\ DefaultTo(i, field[i]).at = "setDefault"
    BY FrameKinds
  <2> DEFINE set == SetTo(i, field[i])
             d == DefaultTo(i, field[i])
  <2>4. CASE StackIs(Frames(Below) \cup {Less(i)}, SetTo(i, field[i]))
    BY <1>0, <2>1, <2>2, <2>3, <2>4, PushedCalls DEF WaitingCalls
  <2>5. CASE StackIs(Frames(Below) \cup {Less(i), set}, d)
    <3>1. set.at = "setValue" /\ d.at = "setDefault"
      BY <2>3
    <3> HIDE DEF set, d
    <3>2. StackInv' /\ SourceInv'
      BY <1>0, <2>1, <2>2, <2>5, <3>1 DEF StackIs, StackInv, SourceInv, In, WaitingCalls
    <3>3. Syncing(Frames(Below'))
      BY <2>2, <2>5 DEF StackIs, Syncing
    <3>4. DefaultInv'
      BY <3>3 DEF DefaultInv
    <3>5. QED
      BY <3>2, <3>4 DEF CallsInv
  <2>6. QED
    BY <1>10, <2>4, <2>5, SyncStepStack
<1>11. CASE SyncDone
  <2>1. Defaults(Provider).at = "defaults"
    BY FrameKinds
  <2>2. QED
    BY <1>0, <1>11, <2>1, SyncDoneStack, PushedCalls DEF SyncDone, In
<1>12. ASSUME NEW i \in Item, GiveDefault(i) PROVE CallsInv'
  <2> DEFINE d == DefaultTo(i, Top.value)
  <2>1. /\ stack # <<>> /\ Top.at = "give" /\ i \in Top.todo
        /\ StackIs(Frames(Below) \cup {Less(i)}, d)
        /\ UNCHANGED <<field, overtaken>>
    BY <1>12, GiveStack
  <2>2. d.at = "setDefault" /\ d.item = i /\ d.value = Top.value
    BY FrameKinds
  <2> HIDE DEF d
  <2>3. Less(i).at = "give"
    BY <2>1, LessType
  <2>4. StackInv' /\ SourceInv'
    BY <1>0, <2>1, <2>2, <2>3 DEF StackIs, StackInv, SourceInv, In, WaitingCalls
  <2>5. Top \in Frames(stack) /\ Top \in Frame
    BY <2>1, TopType
  <2>6. Top.provider \in Provider /\ i \in AppliesTo[Top.provider]
    BY <2>1, <2>5, TopType, FrameFields
  <2>7. Top.value = DefaultOf[Top.provider][field] \/ Top.provider \in overtaken
    BY <2>1, <2>5 DEF GiveInv
  <2>8. \A q \in Provider : i \in AppliesTo[q] => q = Top.provider
    BY <2>6, ProviderAssumption
  <2>9. DefaultInv'
    BY <2>1, <2>2, <2>7, <2>8 DEF DefaultInv, StackIs
  <2>10. QED
    BY <2>4, <2>9 DEF CallsInv
<1>13. CASE UNCHANGED vars
  <2>1. stack' = stack /\ UNCHANGED <<field, own, overtaken>>
    BY <1>13 DEF vars
  <2>2. Below' = Below /\ Top' = Top
    BY <2>1 DEF Below, Top
  <2>3. QED
    BY <2>1, <2>2 DEF CallsInv, StackInv, DefaultInv, SourceInv, In
<1>14. QED
  BY <1>1, <1>2, <1>3, <1>4, <1>5, <1>6, <1>7, <1>8, <1>9, <1>10, <1>11, <1>12, <1>13,
     DefaultsSteps

LEMMA DefaultsCallsInv == Spec => []CallsInv
<1>1. Init => CallsInv
  BY DEF Init, CallsInv, StackInv, DefaultInv, SourceInv, In
<1>2. QED
  BY <1>1, NextCalls, DefaultsGiveInv, DefaultsTypeOK, PTL DEF Spec

-----------------------------------------------------------------------------
(* An item without a value of its own shows its default.                    *)
LEMMA NextOwn == TypeOK /\ SourceInv /\ OwnInv /\ [Next]_vars => OwnInv'
<1> SUFFICES ASSUME TypeOK, SourceInv, OwnInv, [Next]_vars PROVE OwnInv'
  OBVIOUS
<1>1. ASSUME NEW i \in Item, CallSetValue(i) \/ CallSetSource(i) \/ CallSetDefault(i)
      PROVE  OwnInv'
  <2>1. UNCHANGED <<built, value, deflt, basis>> /\ own \subseteq own'
    BY <1>1, CallFacts
  <2>2. QED
    BY <2>1 DEF OwnInv
<1>2. ASSUME NEW i \in Item, NEW b \in {"NONE", "DEFAULT"}, SetComparisonBasis(i, b)
      PROVE  OwnInv'
  BY <1>2 DEF SetComparisonBasis, OwnInv, TypeOK
<1>3. ASSUME NEW instance \in Instance, NEW fd \in BOOLEAN, SyncValue(instance, fd)
      PROVE  OwnInv'
  BY <1>3 DEF SyncValue, itemVars, OwnInv
<1>4. CASE ClearInstance
  BY <1>4 DEF ClearInstance, OwnInv
<1>5. CASE SetValue
  <2>1. /\ Top.item \in built /\ Top.value \in Value /\ stack # <<>>
        /\ UNCHANGED <<built, basis, deflt>>
    BY <1>5, RunningCall DEF SetValue, In
  <2>2. \A j \in Item \ {Top.item} : value'[j] = value[j]
    BY <1>5, <2>1, AcceptFacts, RejectFacts DEF SetValue, Spared
  <2>3. CASE /\ Top.value \in Valid /\ Top.value = deflt[Top.item]
             /\ basis[Top.item] = "DEFAULT"
    <3>1. own' = own \ {Top.item}
      BY <1>5, <2>3 DEF SetValue
    <3>2. value'[Top.item] = Top.value
      BY <1>5, <2>1, <2>3, AcceptFacts DEF SetValue
    <3>3. QED
      BY <2>1, <2>2, <2>3, <3>1, <3>2 DEF OwnInv, TypeOK
  <2>4. CASE ~(/\ Top.value \in Valid /\ Top.value = deflt[Top.item]
               /\ basis[Top.item] = "DEFAULT")
    <3>1. own' = own \cup {Top.item}
      BY <1>5, <2>4 DEF SetValue
    <3>2. QED
      BY <2>1, <2>2, <3>1 DEF OwnInv, TypeOK
  <2>5. QED
    BY <2>3, <2>4
<1>6. CASE SetValueFromSource
  <2>1. /\ Top.item \in built /\ Top.source \in Source /\ stack # <<>>
        /\ UNCHANGED <<built, basis, deflt, own>>
    BY <1>6, RunningCall DEF SetValueFromSource, In
  <2>2. \/ Parse[Top.source] \in Value /\ Accept(Top.item, Parse[Top.source])
        \/ Reject(Top.item)
    BY <1>6, <2>1 DEF SetValueFromSource
  <2>3. \A j \in Item \ {Top.item} : value'[j] = value[j]
    BY <2>1, <2>2, AcceptFacts, RejectFacts DEF Spared
  <2>4. Top.item \in own
    BY <1>6 DEF SourceInv, SetValueFromSource
  <2>5. QED
    BY <2>1, <2>3, <2>4 DEF OwnInv, TypeOK
<1>7. CASE SetDefaultValue
  <2>1. /\ Top.item \in built /\ Top.value \in Value /\ stack # <<>>
        /\ UNCHANGED <<built, basis, own>>
        /\ deflt' = [deflt EXCEPT ![Top.item] = Top.value]
    BY <1>7, RunningCall DEF SetDefaultValue, In
  <2>2. deflt'[Top.item] = Top.value /\ \A j \in Item \ {Top.item} : deflt'[j] = deflt[j]
    BY <2>1 DEF TypeOK
  <2>3. CASE DefaultShows(Top.item)
    <3>1. Accept(Top.item, Top.value)
      BY <1>7, <2>3 DEF SetDefaultValue
    <3>2. value'[Top.item] = Top.value /\ \A j \in Item \ {Top.item} : value'[j] = value[j]
      BY <2>1, <3>1, AcceptFacts DEF Spared
    <3>3. basis[Top.item] = "DEFAULT"
      BY <2>3 DEF DefaultShows
    <3>4. QED
      BY <2>1, <2>2, <3>2, <3>3 DEF OwnInv, TypeOK
  <2>4. CASE ~DefaultShows(Top.item)
    <3>1. value' = value
      BY <1>7, <2>4 DEF SetDefaultValue
    <3>2. Top.item \in own
      BY <2>1, <2>4 DEF OwnInv, DefaultShows
    <3>3. QED
      BY <2>1, <2>2, <3>1, <3>2 DEF OwnInv, TypeOK
  <2>5. QED
    BY <2>3, <2>4
<1>8. ASSUME NEW p \in Provider, ModelRuns(p) PROVE OwnInv'
  BY <1>8, RunStack DEF OwnInv
<1>9. CASE ChangeTold \/ SyncDone \/ DefaultsDone \/ GiveDone
  BY <1>9 DEF ChangeTold, SyncDone, DefaultsDone, GiveDone, itemVars, OwnInv
<1>10. ASSUME NEW i \in Item, BuildItem(i) \/ SyncItem(i) PROVE OwnInv'
  BY <1>10 DEF BuildItem, SyncItem, itemVars, OwnInv, TypeOK
<1>11. ASSUME NEW i \in Item, GiveDefault(i) PROVE OwnInv'
  BY <1>11, GiveStack DEF OwnInv
<1>12. CASE UNCHANGED vars
  BY <1>12 DEF vars, itemVars, OwnInv
<1>13. QED
  BY <1>1, <1>2, <1>3, <1>4, <1>5, <1>6, <1>7, <1>8, <1>9, <1>10, <1>11, <1>12, DefaultsSteps
  DEF SyncSteps

LEMMA DefaultsOwnInv == Spec => []OwnInv
<1>1. Init => OwnInv
  BY DEF Init, OwnInv
<1>2. CallsInv => SourceInv
  BY DEF CallsInv
<1>3. QED
  BY <1>1, <1>2, NextOwn, DefaultsCallsInv, DefaultsTypeOK, PTL DEF Spec

-----------------------------------------------------------------------------
(* Defaults follow the fields they are computed from.                       *)
LEMMA NextNoted == TypeOK /\ NotedInv /\ [Next]_vars => NotedInv'
<1> SUFFICES ASSUME TypeOK, NotedInv, [Next]_vars PROVE NotedInv'
  OBVIOUS
<1> USE DEF NotedInv
<1>1. ASSUME NEW i \in Item, CallSetValue(i) \/ CallSetSource(i) \/ CallSetDefault(i)
      PROVE  NotedInv'
  BY <1>1, CallFacts
<1>2. ASSUME NEW i \in Item, NEW b \in {"NONE", "DEFAULT"}, SetComparisonBasis(i, b)
      PROVE  NotedInv'
  BY <1>2 DEF SetComparisonBasis
<1>3. ASSUME NEW instance \in Instance, NEW fd \in BOOLEAN, SyncValue(instance, fd)
      PROVE  NotedInv'
  BY <1>3 DEF SyncValue, itemVars
<1>4. ASSUME NEW i \in built, NEW v \in Value, Accept(i, v) PROVE NotedInv'
  BY <1>4 DEF Accept, SetRawValue, TypeOK
<1>5. ASSUME NEW i \in built, Reject(i) PROVE NotedInv'
  BY <1>5 DEF Reject, TypeOK
<1>6. CASE SetValue
  BY <1>4, <1>5, <1>6, RunningCall DEF SetValue
<1>7. CASE SetValueFromSource
  <2>1. Top.item \in built /\ Top.source \in Source
    BY <1>7, RunningCall DEF SetValueFromSource
  <2>2. \/ Parse[Top.source] \in Value /\ Accept(Top.item, Parse[Top.source])
        \/ Reject(Top.item)
    BY <1>7, <2>1 DEF SetValueFromSource
  <2>3. QED
    BY <1>4, <1>5, <2>1, <2>2
<1>8. CASE SetDefaultValue
  <2>1. Top.item \in built /\ Top.value \in Value
    BY <1>8, RunningCall DEF SetDefaultValue
  <2>2. Accept(Top.item, Top.value) \/ UNCHANGED <<inError, noted>>
    BY <1>8 DEF SetDefaultValue
  <2>3. QED
    BY <1>4, <2>1, <2>2
<1>9. ASSUME NEW p \in Provider, ModelRuns(p) PROVE NotedInv'
  BY <1>9, RunStack
<1>10. ASSUME NEW i \in Item, BuildItem(i) PROVE NotedInv'
  BY <1>10 DEF BuildItem, TypeOK
<1>11. CASE \/ ClearInstance \/ ChangeTold \/ SyncDone \/ DefaultsDone \/ GiveDone
            \/ UNCHANGED vars
  BY <1>11 DEF ClearInstance, ChangeTold, SyncDone, DefaultsDone, GiveDone, vars, itemVars
<1>12. ASSUME NEW i \in Item, SyncItem(i) \/ GiveDefault(i) PROVE NotedInv'
  BY <1>12 DEF SyncItem, GiveDefault, itemVars
<1>13. QED
  BY <1>1, <1>2, <1>3, <1>6, <1>7, <1>8, <1>9, <1>10, <1>11, <1>12, DefaultsSteps
  DEF SyncSteps

(* t's default is as the fields stood before the step, or one of the calls  *)
(* below the innermost one will have p compute it.                          *)
SettledBefore(p, t) ==
  t \in built /\ p \notin overtaken /\ (\A i \in DependsOn[p] : ~inError[i]) =>
    \/ deflt'[t] = DefaultOf[p][field]
    \/ \E f \in Frames(Below) : ProviderPending(p, t, f)

FieldsStay(p) ==
  \A i \in DependsOn[p] : ~inError'[i] => ~inError[i] /\ field'[i] = field[i]

LEMMA StillComputed ==
  ASSUME TypeOK, TypeOK', NEW p \in Provider, NEW t \in AppliesTo[p],
         UNCHANGED built, SettledBefore(p, t),
         Frames(Below) \subseteq Frames(stack'), FieldsStay(p), overtaken \subseteq overtaken'
  PROVE  DefaultFollows(p, t)'
<1> SUFFICES ASSUME t \in built', p \notin overtaken', \A i \in DependsOn[p] : ~inError'[i]
             PROVE  \/ deflt'[t] = DefaultOf[p][field']
                    \/ \E f \in Frames(stack') : ProviderPending(p, t, f)
  BY DEF DefaultFollows
<1>1. field \in [Item -> Value] /\ field' \in [Item -> Value]
  BY DEF TypeOK, Instance
<1>2. \A i \in DependsOn[p] : ~inError[i] /\ field'[i] = field[i]
  BY DEF FieldsStay
<1>3. DefaultOf[p][field] = DefaultOf[p][field']
  BY <1>1, <1>2, SameDefault
<1>4. CASE deflt'[t] = DefaultOf[p][field]
  BY <1>3, <1>4
<1>5. CASE \E f \in Frames(Below) : ProviderPending(p, t, f)
  BY <1>5
<1>6. QED
  BY <1>2, <1>4, <1>5 DEF SettledBefore

LEMMA AcceptComputes ==
  ASSUME TypeOK, TypeOK', NEW p \in Provider, NEW t \in AppliesTo[p],
         UNCHANGED built, SettledBefore(p, t),
         stack # <<>>, NEW i \in built, NEW v \in Value, Accept(i, v)
  PROVE  DefaultFollows(p, t)'
<1>1. DependsOn[p] \subseteq Item /\ i \in Item
  BY DEF TypeOK
<1>2. CASE i \in DependsOn[p] /\ Changed(i) \in Frames(stack')
  <2> DEFINE f == Changed(i)
  <2>1. f \in Frames(stack') /\ f.at = "changed" /\ p \in f.todo
    BY <1>2, FrameKinds
  <2> HIDE DEF f
  <2>2. QED
    BY <2>1 DEF DefaultFollows, ProviderPending
<1>3. CASE i \notin DependsOn[p]
  <2>1. FieldsStay(p)
    BY <1>1, <1>3, AcceptFacts DEF FieldsStay, Spared
  <2>2. QED
    BY <2>1, AcceptFacts, StillComputed
<1>4. CASE ~inError[i] /\ field' = field
  <2>1. FieldsStay(p)
    BY <1>1, <1>4, AcceptFacts DEF FieldsStay, Spared
  <2>2. QED
    BY <2>1, AcceptFacts, StillComputed
<1>5. QED
  BY <1>2, <1>3, <1>4, AcceptFacts

LEMMA RejectComputes ==
  ASSUME TypeOK, TypeOK', NEW p \in Provider, NEW t \in AppliesTo[p],
         UNCHANGED built, SettledBefore(p, t),
         stack # <<>>, NEW i \in built, Reject(i)
  PROVE  DefaultFollows(p, t)'
<1>1. DependsOn[p] \subseteq Item
  OBVIOUS
<1>2. FieldsStay(p)
  BY <1>1, RejectFacts DEF FieldsStay, Spared
<1>3. QED
  BY <1>2, RejectFacts, StillComputed

LEMMA SettledBelow ==
  ASSUME TypeOK, NEW p \in Provider, NEW t \in AppliesTo[p], DefaultFollows(p, t),
         stack # <<>>, deflt'[t] = deflt[t], ~ProviderPending(p, t, Top)
  PROVE  SettledBefore(p, t)
BY TopType DEF DefaultFollows, SettledBefore

LEMMA NextComputed ==
  TypeOK /\ TypeOK' /\ CallsInv /\ NotedInv /\ ComputedInv /\ [Next]_vars => ComputedInv'
<1> SUFFICES ASSUME TypeOK, TypeOK', CallsInv, NotedInv, ComputedInv, [Next]_vars,
                    NEW p \in Provider, NEW t \in AppliesTo[p]
             PROVE  DefaultFollows(p, t)'
  BY DEF ComputedInv
<1>0. DefaultFollows(p, t) /\ t \in Item
  BY DEF ComputedInv
<1>1. ASSUME NEW i \in Item, CallSetValue(i) \/ CallSetSource(i) \/ CallSetDefault(i)
      PROVE  DefaultFollows(p, t)'
  <2>1. UNCHANGED <<built, inError, deflt, field, overtaken>>
    BY <1>1, CallFacts
  <2>2. Frames(stack) \subseteq Frames(stack')
    BY <1>1, CallFacts DEF StackIs
  <2>3. QED
    BY <1>0, <2>1, <2>2 DEF DefaultFollows
<1>2. ASSUME NEW i \in Item, NEW b \in {"NONE", "DEFAULT"}, SetComparisonBasis(i, b)
      PROVE  DefaultFollows(p, t)'
  BY <1>0, <1>2 DEF SetComparisonBasis, DefaultFollows
<1>3. ASSUME NEW instance \in Instance, NEW fd \in BOOLEAN, SyncValue(instance, fd)
      PROVE  DefaultFollows(p, t)'
  <2> DEFINE f == Sync(Item, fd)
  <2>1. f \in Frames(stack') /\ f.at = "sync"
    BY <1>3, SyncValueStack, FrameKinds DEF StackIs
  <2> HIDE DEF f
  <2>2. QED
    BY <2>1 DEF DefaultFollows, ProviderPending
<1>4. CASE ClearInstance
  BY <1>4 DEF ClearInstance, DefaultFollows
<1>5. CASE SetValue
  <2>1. /\ Top.item \in built /\ Top.value \in Value /\ Top.at = "setValue"
        /\ stack # <<>> /\ UNCHANGED <<built, deflt>>
    BY <1>5, RunningCall DEF SetValue, In
  <2>2. SettledBefore(p, t)
    BY <1>0, <2>1, SettledBelow DEF ProviderPending
  <2>3. Accept(Top.item, Top.value) \/ Reject(Top.item)
    BY <1>5 DEF SetValue
  <2>4. QED
    BY <2>1, <2>2, <2>3, AcceptComputes, RejectComputes
<1>6. CASE SetValueFromSource
  <2>1. /\ Top.item \in built /\ Top.source \in Source /\ Top.at = "setSource"
        /\ stack # <<>> /\ UNCHANGED <<built, deflt>>
    BY <1>6, RunningCall DEF SetValueFromSource, In
  <2>2. SettledBefore(p, t)
    BY <1>0, <2>1, SettledBelow DEF ProviderPending
  <2>3. \/ Parse[Top.source] \in Value /\ Accept(Top.item, Parse[Top.source])
        \/ Reject(Top.item)
    BY <1>6, <2>1 DEF SetValueFromSource
  <2>4. QED
    BY <2>1, <2>2, <2>3, AcceptComputes, RejectComputes
<1>7. CASE SetDefaultValue
  <2>1. /\ Top.item \in built /\ Top.value \in Value /\ In("setDefault") /\ stack # <<>>
        /\ Top.at = "setDefault" /\ UNCHANGED built
        /\ deflt' = [deflt EXCEPT ![Top.item] = Top.value]
    BY <1>7, RunningCall DEF SetDefaultValue, In
  <2>2. SettledBefore(p, t)
    <3>1. CASE t = Top.item
      <4>1. deflt'[t] = Top.value
        BY <1>0, <2>1, <3>1 DEF TypeOK
      <4>2. \/ Top.value = DefaultOf[p][field]
            \/ p \in overtaken
            \/ Syncing(Frames(Below))
        BY <2>1, <3>1 DEF CallsInv, DefaultInv
      <4>3. QED
        BY <4>1, <4>2 DEF SettledBefore, Syncing, ProviderPending
    <3>2. CASE t # Top.item
      <4>1. deflt'[t] = deflt[t]
        BY <1>0, <2>1, <3>2 DEF TypeOK
      <4>2. ~ProviderPending(p, t, Top)
        BY <2>1, <3>2 DEF ProviderPending
      <4>3. QED
        BY <1>0, <2>1, <4>1, <4>2, SettledBelow
    <3>3. QED
      BY <3>1, <3>2
  <2>3. CASE Accept(Top.item, Top.value)
    BY <2>1, <2>2, <2>3, AcceptComputes
  <2>4. CASE ~Accept(Top.item, Top.value)
    <3>1. stack' = Below /\ UNCHANGED <<field, inError, overtaken>>
      BY <1>7, <2>4 DEF SetDefaultValue
    <3>2. FieldsStay(p)
      BY <3>1 DEF FieldsStay
    <3>3. QED
      BY <2>1, <2>2, <3>1, <3>2, StillComputed
  <2>5. QED
    BY <2>3, <2>4
<1>8. ASSUME NEW q \in Provider, ModelRuns(q) PROVE DefaultFollows(p, t)'
  <2>1. /\ stack # <<>> /\ Top.at \in {"changed", "defaults"}
        /\ UNCHANGED <<field, built, inError, noted, deflt>>
    BY <1>8, RunStack
  <2>2. CASE p # q
    <3>1. /\ Frames(Below) \cup {Less(q)} \subseteq Frames(stack')
          /\ p \in overtaken => p \in overtaken'
      BY <1>8, <2>2, RunStack DEF StackIs
    <3>2. Less(q).at = Top.at /\ Less(q).todo = Top.todo \ {q}
      BY <2>1, LessType
    <3>3. ProviderPending(p, t, Top) => ProviderPending(p, t, Less(q))
      BY <2>1, <2>2, <3>2 DEF ProviderPending
    <3>4. Frames(stack) = Frames(Below) \cup {Top}
      BY <2>1, TopType
    <3>5. QED
      BY <1>0, <2>1, <3>1, <3>3, <3>4 DEF DefaultFollows
  <2>3. CASE p = q /\ t \notin built
    BY <2>1, <2>3 DEF DefaultFollows
  <2>4. CASE p = q /\ t \in built /\ RunProvider(p)
    <3> DEFINE d == Give(p)
    <3>1. d \in Frames(stack')
      BY <2>1, <2>4, ProviderStack DEF StackIs
    <3>2. d.at = "give" /\ d.provider = p /\ t \in d.todo
      BY <2>4, FrameKinds
    <3> HIDE DEF d
    <3>3. QED
      BY <3>1, <3>2 DEF DefaultFollows, ProviderPending
  <2>5. CASE p = q /\ ~RunProvider(p)
    <3>1. DependsOn[p] \cap noted # {}
      BY <1>8, <2>5 DEF ModelRuns, HandleChange, RunDefault
    <3>2. \E i \in DependsOn[p] : inError[i]
      BY <3>1 DEF NotedInv
    <3>3. QED
      BY <2>1, <3>2 DEF DefaultFollows
  <2>6. QED
    BY <2>2, <2>3, <2>4, <2>5
<1>9. CASE ChangeTold \/ DefaultsDone \/ GiveDone
  <2>1. /\ stack # <<>> /\ Top.at \in {"changed", "defaults", "give"} /\ Top.todo = {}
        /\ stack' = Below /\ UNCHANGED <<field, built, inError, deflt, overtaken>>
    BY <1>9 DEF ChangeTold, DefaultsDone, GiveDone, In, itemVars
  <2>2. ~ProviderPending(p, t, Top)
    BY <2>1 DEF ProviderPending
  <2>3. FieldsStay(p) /\ SettledBefore(p, t)
    BY <1>0, <2>1, <2>2, SettledBelow DEF FieldsStay
  <2>4. QED
    BY <2>1, <2>3, StillComputed
<1>10. ASSUME NEW i \in Item, SyncSteps(i) PROVE DefaultFollows(p, t)'
  <2>1. stack # <<>> /\ Top.at = "sync"
    BY <1>10, SyncStepStack DEF In
  <2>2. Less(i) \in Frames(stack')
    BY <1>10, SyncStepStack DEF StackIs
  <2>3. Less(i).at = "sync"
    BY <2>1, LessType
  <2>4. QED
    BY <2>2, <2>3 DEF DefaultFollows, ProviderPending
<1>11. CASE SyncDone
  <2> DEFINE f == Defaults(Provider)
  <2>1. f \in Frames(stack') /\ f.at = "defaults" /\ p \in f.todo
    BY <1>11, SyncDoneStack, FrameKinds DEF StackIs
  <2> HIDE DEF f
  <2>2. QED
    BY <2>1 DEF DefaultFollows, ProviderPending
<1>12. ASSUME NEW i \in Item, GiveDefault(i) PROVE DefaultFollows(p, t)'
  <2> DEFINE d == DefaultTo(i, Top.value)
  <2>1. /\ stack # <<>> /\ Top.at = "give"
        /\ Frames(Below) \cup {Less(i), d} \subseteq Frames(stack')
        /\ UNCHANGED <<field, built, inError, deflt, overtaken>>
    BY <1>12, GiveStack DEF StackIs
  <2>2. d.at = "setDefault" /\ d.item = i
    BY FrameKinds
  <2> HIDE DEF d
  <2>3. /\ Less(i).at = "give" /\ Less(i).todo = Top.todo \ {i}
        /\ Less(i).provider = Top.provider
    BY <2>1, LessType
  <2>4. ProviderPending(p, t, Top) => ProviderPending(p, t, d) \/ ProviderPending(p, t, Less(i))
    BY <2>1, <2>2, <2>3 DEF ProviderPending
  <2>5. Frames(stack) = Frames(Below) \cup {Top}
    BY <2>1, TopType
  <2>6. QED
    BY <1>0, <2>1, <2>4, <2>5 DEF DefaultFollows
<1>13. CASE UNCHANGED vars
  BY <1>0, <1>13 DEF vars, itemVars, DefaultFollows
<1>14. QED
  BY <1>1, <1>2, <1>3, <1>4, <1>5, <1>6, <1>7, <1>8, <1>9, <1>10, <1>11, <1>12, <1>13,
     DefaultsSteps

(* Between calls, every default that a provider computes is computed from   *)
(* the fields as they are, on each of the items it serves, and every item   *)
(* without a value of its own shows its default, for any providers, ones    *)
(* that depend on each other in a circle included, and listeners that       *)
(* change items while they are told.  Not covered are the providers whose   *)
(* fields changed while they set a default they had computed before: the    *)
(* code may leave the old one on the rest of their items.                   *)
THEOREM DefaultsComputedFieldsFollow == Spec => []ComputedFieldsFollow
<1>1. Init => NotedInv /\ ComputedInv
  BY DEF Init, NotedInv, ComputedInv, DefaultFollows
<1>2. ComputedInv /\ OwnInv => ComputedFieldsFollow
  <2> SUFFICES ASSUME ComputedInv, OwnInv, AtRest PROVE ComputedFieldsFollow
    BY DEF ComputedFieldsFollow
  <2>1. Frames(stack) = {}
    BY FramesEmpty DEF AtRest
  <2>2. \A p \in Provider \ overtaken : \A t \in AppliesTo[p] \cap built :
          (\A i \in DependsOn[p] : ~inError[i]) => deflt[t] = DefaultOf[p][field]
    BY <2>1 DEF ComputedInv, DefaultFollows
  <2>3. QED
    BY <2>2 DEF OwnInv, ComputedFieldsFollow
<1>3. QED
  BY <1>1, <1>2, NextNoted, NextComputed, DefaultsCallsInv, DefaultsOwnInv, DefaultsTypeOK, PTL
  DEF Spec

=============================================================================
