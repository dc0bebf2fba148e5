----------------------------- MODULE FormDefaults -----------------------------
(***************************************************************************)
(* org.plcore.userio.model: the items of an entity or embedded model       *)
(* (ItemModel), and the default providers that the model runs for them     *)
(* (NameMappedModel).                                                      *)
(*                                                                         *)
(* A change of a value calls the listeners of the item: the handlers that  *)
(* compute the default of other items from it, whose values may change and *)
(* call listeners in turn, and listeners of the application, which may     *)
(* call the model.  `stack' holds the calls in progress, the innermost     *)
(* last; a call is put there when it is made and taken off by the action   *)
(* that runs it up to the next point where a value change is told.         *)
(***************************************************************************)
EXTENDS Integers, Sequences

CONSTANTS
  Item,        \* the fields of the entity
  Value,       \* what a field can hold
  Null,        \* no value
  Valid,       \* the values the items' type accepts
  Source,      \* what a user can type
  Text,        \* toEntrySource: how each value is shown
  Parse,       \* createFromString: the value of each source, or Bad
  Bad,
  Provider,    \* the default providers of the plan
  AppliesTo,   \* the items each serves
  DependsOn,   \* the items it computes the default from
  DefaultOf,   \* getDefaultValue(instance)
  Embedded,    \* whether the model is an EmbeddedModel, or an EntityModel
  NewInstance, \* what the class's constructor makes
  Settable,    \* the instances the application sets
  Nested,      \* whether some listener of the application answers a value
               \* change with a call of the model
  MaxCalls     \* bound: calls by the application and its listeners

ASSUME FormAssumption ==
  /\ Null \in Value
  /\ Valid \subseteq Value
  /\ Text \in [Value -> Source]
  /\ Parse \in [Source -> Valid \cup {Bad}]
  /\ AppliesTo \in [Provider -> SUBSET Item]
  /\ DependsOn \in [Provider -> SUBSET Item]
  /\ DefaultOf \in [Provider -> [[Item -> Value] -> Value]]
  /\ Embedded \in BOOLEAN
  /\ NewInstance \in [Item -> Value]
  /\ Settable \subseteq [Item -> Value]
  /\ Nested \in BOOLEAN
  /\ MaxCalls \in Nat

(* A provider reads the fields it depends on and no other, and no two serve *)
(* the same item.                                                           *)
ASSUME ProviderAssumption ==
  /\ \A p \in Provider : \A f, g \in [Item -> Value] :
       (\A i \in DependsOn[p] : f[i] = g[i]) => DefaultOf[p][f] = DefaultOf[p][g]
  /\ \A p, q \in Provider : AppliesTo[p] \cap AppliesTo[q] # {} => p = q

VARIABLES
  field,       \* the fields of the instance the model refers to
  built,       \* items that have a model
  value,       \* currentValue
  source,      \* currentSource
  inError,     \* currentValueInError
  noted,       \* items with an error in validationErrors
  deflt,       \* defaultValue
  basis,       \* comparisonBasis
  valueEqual,  \* isComparedValueEqual, as the listeners were told
  sourceEqual, \* isComparedSourceEqual, as the listeners were told
  stack,       \* calls in progress
  calls,       \* bounded counter
  own,         \* history: items given a value of their own, not the default
  given,       \* history: {the instance just set}, {} once something else is called
  overtaken    \* history: providers that were run again, or are about to be, while
               \* they had computed a default and not yet set it on each target

itemVars == <<value, source, inError, noted, deflt, basis, valueEqual, sourceEqual>>
vars == <<field, built, itemVars, stack, calls, own, given, overtaken>>

Instance == [Item -> Value]

Frame ==
  [at : {"setValue", "setDefault"}, item : Item, value : Value]
    \cup [at : {"setSource"}, item : Item, source : Source]
    \cup [at : {"changed"}, item : Item, todo : SUBSET Provider]
    \cup [at : {"sync"}, todo : SUBSET Item, fieldDefault : BOOLEAN]
    \cup [at : {"defaults"}, todo : SUBSET Provider]
    \cup [at : {"give"}, provider : Provider, value : Value, todo : SUBSET Item]

TypeOK ==
  /\ field \in Instance
  /\ built \subseteq Item
  /\ value \in [Item -> Value]
  /\ source \in [Item -> Source]
  /\ inError \in [Item -> BOOLEAN]
  /\ noted \subseteq Item
  /\ deflt \in [Item -> Value]
  /\ basis \in [Item -> {"NONE", "DEFAULT"}]
  /\ valueEqual \in [Item -> BOOLEAN]
  /\ sourceEqual \in [Item -> BOOLEAN]
  /\ stack \in Seq(Frame)
  /\ \A k \in 1..Len(stack) :
       stack[k].at \in {"setValue", "setDefault", "setSource", "changed"} =>
         stack[k].item \in built
  /\ \A k \in 1..Len(stack) :
       stack[k].at = "give" => stack[k].todo \subseteq AppliesTo[stack[k].provider] \cap built
  /\ calls \in 0..MaxCalls
  /\ own \subseteq Item
  /\ given \in SUBSET Settable
  /\ overtaken \subseteq Provider

Init ==
  /\ field = [i \in Item |-> Null]
  /\ built = {}
  /\ value = [i \in Item |-> Null]
  /\ source = [i \in Item |-> Text[Null]]
  /\ inError = [i \in Item |-> TRUE]
  /\ noted = {}
  /\ deflt = [i \in Item |-> Null]
  /\ basis = [i \in Item |-> "DEFAULT"]
  /\ valueEqual = [i \in Item |-> TRUE]
  /\ sourceEqual = [i \in Item |-> TRUE]
  /\ stack = <<>>
  /\ calls = 0
  /\ own = {}
  /\ given = {}
  /\ overtaken = {}

-----------------------------------------------------------------------------
Top    == stack[Len(stack)]
Below  == SubSeq(stack, 1, Len(stack) - 1)
In(at) == stack # <<>> /\ Top.at = at

SetTo(i, v)     == [at |-> "setValue", item |-> i, value |-> v]
DefaultTo(i, v) == [at |-> "setDefault", item |-> i, value |-> v]
SourceTo(i, s)  == [at |-> "setSource", item |-> i, source |-> s]
Changed(i)      == [at |-> "changed", item |-> i,
                    todo |-> {p \in Provider : i \in DependsOn[p]}]
Sync(items, fd) == [at |-> "sync", todo |-> items, fieldDefault |-> fd]
Defaults(ps)    == [at |-> "defaults", todo |-> ps]
Give(p)         == [at |-> "give", provider |-> p, value |-> DefaultOf[p][field],
                    todo |-> AppliesTo[p] \cap built]
Without(x)      == Append(Below, [Top EXCEPT !.todo = @ \ {x}])

(* The providers with a default computed that some target has yet to be set. *)
Giving(frames) ==
  {p \in Provider : \E k \in 1..Len(frames) :
     frames[k].at = "give" /\ frames[k].provider = p /\ frames[k].todo # {}}

(* What testAndFireValueEqualityChange and its sibling for the source find.  *)
ValueTest(i) ==
  i \in noted \/ inError[i] \/ basis[i] = "NONE" \/ value[i] = deflt[i]
SourceTest(s, d, b) == b = "NONE" \/ s = Text[d]

(* Calls by the application, between other calls or from a listener.        *)
Call(frame) ==
  /\ stack = <<>> \/ (Nested /\ In("changed"))
  /\ calls < MaxCalls
  /\ calls' = calls + 1
  /\ stack' = Append(stack, frame)
  /\ given' = {}
  /\ UNCHANGED <<field, built, itemVars, overtaken>>

CallSetValue(i) ==
  /\ i \in built
  /\ \E v \in Value : Call(SetTo(i, v))
  /\ own' = own \cup {i}

CallSetSource(i) ==
  /\ i \in built
  /\ \E s \in Source : Call(SourceTo(i, s))
  /\ own' = own \cup {i}

(* The application sets the default of items that no provider serves.       *)
CallSetDefault(i) ==
  /\ i \in built
  /\ \A p \in Provider : i \notin AppliesTo[p]
  /\ \E v \in Value : Call(DefaultTo(i, v))
  /\ UNCHANGED own

SetComparisonBasis(i, b) ==
  /\ stack = <<>> \/ (Nested /\ In("changed"))
  /\ calls < MaxCalls
  /\ i \in built
  /\ b # basis[i]
  /\ basis' = [basis EXCEPT ![i] = b]
  /\ sourceEqual' = [sourceEqual EXCEPT ![i] = SourceTest(source[i], deflt[i], b)]
  /\ valueEqual' = [valueEqual EXCEPT ![i] =
                      i \in noted \/ inError[i] \/ b = "NONE" \/ value[i] = deflt[i]]
  /\ calls' = calls + 1
  /\ own' = own \cup {i}
  /\ given' = {}
  /\ UNCHANGED <<field, built, value, source, inError, noted, deflt, stack, overtaken>>

-----------------------------------------------------------------------------
(* setRawValue: the old error goes; a value that is another, or that         *)
(* replaces one in error, is stored and told.  Equality is tested last.      *)
SetRawValue(i, v, rest) ==
  /\ noted' = noted \ {i}
  /\ inError' = [inError EXCEPT ![i] = FALSE]
  /\ IF inError[i] \/ v # value[i]
       THEN /\ value' = [value EXCEPT ![i] = v]
            /\ field' = [field EXCEPT ![i] = v]
            /\ stack' = Append(rest, Changed(i))
            /\ overtaken' = overtaken \cup {p \in Giving(rest) : i \in DependsOn[p]}
       ELSE /\ UNCHANGED <<value, field, overtaken>>
            /\ stack' = rest

SlipReject(i) ==  \* the former value is taken to be still valid
  /\ noted' = noted \cup {i}
  /\ valueEqual' = [valueEqual EXCEPT ![i] = TRUE]
  /\ stack' = Below
  /\ UNCHANGED <<value, field, inError, overtaken>>

(* A value or source that is not valid leaves the former value in place.     *)
Reject(i) ==
  /\ noted' = noted \cup {i}
  /\ inError' = [inError EXCEPT ![i] = TRUE]
  /\ valueEqual' = [valueEqual EXCEPT ![i] = TRUE]
  /\ stack' = Below
  /\ UNCHANGED <<value, field, overtaken>>

Show(i, s) ==
  /\ source' = [source EXCEPT ![i] = s]
  /\ sourceEqual' = [sourceEqual EXCEPT ![i] = SourceTest(s, deflt[i], basis[i])]

TestNow(i, v) ==
  valueEqual' = IF inError[i] \/ v # value[i] THEN valueEqual
                ELSE [valueEqual EXCEPT ![i] = basis[i] = "NONE" \/ v = deflt'[i]]

Accept(i, v) ==
  /\ SetRawValue(i, v, Below)
  /\ TestNow(i, v)

(* A value that equals the default counts as following it.                  *)
SetValue ==
  /\ In("setValue")
  /\ Show(Top.item, Text[Top.value])
  /\ UNCHANGED deflt
  /\ IF Top.value \in Valid THEN Accept(Top.item, Top.value) ELSE Reject(Top.item)
  /\ own' = IF /\ Top.value \in Valid /\ Top.value = deflt[Top.item]
               /\ basis[Top.item] = "DEFAULT"
            THEN own \ {Top.item} ELSE own \cup {Top.item}
  /\ UNCHANGED <<built, basis, calls, given>>

SetValueFromSource ==
  /\ In("setSource")
  /\ Show(Top.item, Top.source)
  /\ UNCHANGED deflt
  /\ IF Parse[Top.source] # Bad THEN Accept(Top.item, Parse[Top.source]) ELSE Reject(Top.item)
  /\ UNCHANGED <<built, basis, calls, own, given>>

SlipTestDefault(i, d) ==  \* the value is the same, so nothing is told
  UNCHANGED valueEqual

TestDefault(i, d) ==
  valueEqual' = IF basis[i] = "NONE" \/ i \in noted THEN valueEqual
                ELSE [valueEqual EXCEPT ![i] = inError[i] \/ value[i] = d]

DefaultShows(i) == basis[i] = "DEFAULT" /\ deflt[i] = value[i]

SlipDefaultShows(i) ==  \* a default never moves a value already set
  basis[i] = "DEFAULT" /\ deflt[i] = value[i] /\ value[i] = Null

(* A value that shows the default moves with it; its source does not.       *)
SetDefaultValue ==
  /\ In("setDefault")
  /\ deflt' = [deflt EXCEPT ![Top.item] = Top.value]
  /\ IF DefaultShows(Top.item)
       THEN Accept(Top.item, Top.value) /\ UNCHANGED <<source, sourceEqual>>
       ELSE /\ stack' = Below
            /\ sourceEqual' = [sourceEqual EXCEPT ![Top.item] =
                 IF basis[Top.item] = "NONE" THEN @ ELSE source[Top.item] = Text[Top.value]]
            /\ TestDefault(Top.item, Top.value)
            /\ UNCHANGED <<field, value, source, inError, noted, overtaken>>
  /\ UNCHANGED <<built, basis, calls, own, given>>

-----------------------------------------------------------------------------
(* The listeners of a value change: each handler computes a default from    *)
(* the instance as it is by then, once, and sets it on each of the items it *)
(* serves that have a model, whose listeners are told in between.           *)
SlipRunProvider(p) ==  \* the items are taken to have a model
  /\ stack' = Append(Without(p), [Give(p) EXCEPT !.todo = AppliesTo[p]])
  /\ overtaken' = overtaken \ ({p} \ Giving(stack))

RunProvider(p) ==
  /\ stack' = Append(Without(p), Give(p))
  /\ overtaken' = overtaken \ ({p} \ Giving(stack))

GiveDefault(i) ==
  /\ In("give")
  /\ i \in Top.todo
  /\ stack' = Append(Without(i), DefaultTo(i, Top.value))
  /\ UNCHANGED <<field, built, itemVars, calls, own, given, overtaken>>

GiveDone ==
  /\ In("give")
  /\ Top.todo = {}
  /\ stack' = Below
  /\ UNCHANGED <<field, built, itemVars, calls, own, given, overtaken>>

HandleChange(p) ==
  /\ In("changed")
  /\ p \in Top.todo
  /\ RunProvider(p)
  /\ UNCHANGED <<field, built, itemVars, calls, own, given>>

ChangeTold ==
  /\ In("changed")
  /\ Top.todo = {}
  /\ valueEqual' = [valueEqual EXCEPT ![Top.item] = ValueTest(Top.item)]
  /\ stack' = Below
  /\ UNCHANGED <<field, built, value, source, inError, noted, deflt, basis,
                 sourceEqual, calls, own, given, overtaken>>

(* syncValue: it visits the items one by one and then runs every provider    *)
(* whose items are free of error.                                            *)
SyncValue(instance, fieldDefault) ==
  /\ stack = <<>>
  /\ calls < MaxCalls
  /\ calls' = calls + 1
  /\ field' = instance
  /\ stack' = <<Sync(Item, fieldDefault)>>
  /\ UNCHANGED <<built, itemVars, own, overtaken>>

SetNew ==
  /\ SyncValue(NewInstance, TRUE)
  /\ given' = {}

(* setValue of an entity model counts the instance's values as defaults too, *)
(* that of an embedded model does not.                                       *)
SetInstance(instance) ==
  /\ SyncValue(instance, ~Embedded)
  /\ given' = {instance}

(* setValue or setNew of the entity model that an embedded one is in.        *)
SyncMember(instance) ==
  /\ Embedded
  /\ SyncValue(instance, TRUE)
  /\ given' = {}

ClearInstance ==
  /\ stack = <<>>
  /\ built # {}
  /\ calls < MaxCalls
  /\ calls' = calls + 1
  /\ built' = {}
  /\ given' = {}
  /\ UNCHANGED <<field, itemVars, stack, own, overtaken>>

SyncFrames(i) ==
  LET set == Append(Without(i), SetTo(i, field[i]))
  IN  IF Top.fieldDefault THEN Append(set, DefaultTo(i, field[i])) ELSE set

(* A new model starts with no value, which counts as an error.               *)
BuildItem(i) ==
  /\ In("sync")
  /\ i \in Top.todo \ built
  /\ built' = built \cup {i}
  /\ value' = [value EXCEPT ![i] = Null]
  /\ source' = [source EXCEPT ![i] = Text[Null]]
  /\ inError' = [inError EXCEPT ![i] = TRUE]
  /\ noted' = noted \ {i}
  /\ deflt' = [deflt EXCEPT ![i] = Null]
  /\ basis' = [basis EXCEPT ![i] = "DEFAULT"]
  /\ valueEqual' = [valueEqual EXCEPT ![i] = TRUE]
  /\ sourceEqual' = [sourceEqual EXCEPT ![i] = TRUE]
  /\ own' = own \ {i}
  /\ stack' = SyncFrames(i)
  /\ UNCHANGED <<field, calls, given, overtaken>>

SyncItem(i) ==
  /\ In("sync")
  /\ i \in Top.todo \cap built
  /\ stack' = SyncFrames(i)
  /\ UNCHANGED <<field, built, itemVars, calls, own, given, overtaken>>

SyncDone ==
  /\ In("sync")
  /\ Top.todo = {}
  /\ stack' = Append(Below, Defaults(Provider))
  /\ UNCHANGED <<field, built, itemVars, calls, own, given, overtaken>>

SlipRunDefault(p) ==  \* a provider of items that have a default is not asked
  /\ In("defaults")
  /\ p \in Top.todo
  /\ IF \A i \in AppliesTo[p] : deflt[i] = Null THEN RunProvider(p)
     ELSE stack' = Without(p) /\ UNCHANGED overtaken
  /\ UNCHANGED <<field, built, itemVars, calls, own, given>>

RunDefault(p) ==
  /\ In("defaults")
  /\ p \in Top.todo
  /\ IF DependsOn[p] \cap noted = {} THEN RunProvider(p)
     ELSE stack' = Without(p) /\ UNCHANGED overtaken
  /\ UNCHANGED <<field, built, itemVars, calls, own, given>>

DefaultsDone ==
  /\ In("defaults")
  /\ Top.todo = {}
  /\ stack' = Below
  /\ UNCHANGED <<field, built, itemVars, calls, own, given, overtaken>>

Application ==
  \/ \E i \in Item : CallSetValue(i) \/ CallSetSource(i) \/ CallSetDefault(i)
                       \/ \E b \in {"NONE", "DEFAULT"} : SetComparisonBasis(i, b)
  \/ \E instance \in Settable : SetInstance(instance) \/ SyncMember(instance)
  \/ SetNew \/ ClearInstance

Model ==
  \/ SetValue \/ SetValueFromSource \/ SetDefaultValue
  \/ \E p \in Provider : HandleChange(p) \/ RunDefault(p)
  \/ ChangeTold
  \/ \E i \in Item : BuildItem(i) \/ SyncItem(i) \/ GiveDefault(i)
  \/ GiveDone \/ SyncDone \/ DefaultsDone

Next == Application \/ Model

Spec == Init /\ [][Next]_vars

-----------------------------------------------------------------------------
AtRest == stack = <<>>

(* Between calls, the instance holds the current value of each item that is *)
(* not in error, also after handlers and listeners changed items in the      *)
(* middle of other changes.  What the form shows may be another matter: the  *)
(* source of an item stays behind when a default moves its value.            *)
FieldHoldsValue ==
  AtRest => \A i \in built : ~inError[i] => field[i] = value[i]

(* Between calls, a default that depends on other items is the one its       *)
(* provider computes from them, on each item it serves, unless one of them   *)
(* is in error or changed while the provider was setting a default it had    *)
(* computed before; and the value of an item that was given none of its own  *)
(* is its default.                                                           *)
ComputedFieldsFollow ==
  AtRest =>
    /\ \A p \in Provider \ overtaken : \A t \in AppliesTo[p] \cap built :
         (\A i \in DependsOn[p] : ~inError[i]) => deflt[t] = DefaultOf[p][field]
    /\ \A i \in built \ own : value[i] = deflt[i]

(* Between calls the listeners know whether an item equals its default: the  *)
(* last they were told is so, whatever changed since.                        *)
ValueEqualityTold == AtRest => \A i \in built : valueEqual[i] = ValueTest(i)

(* EntityDefaults.java:142: an instance that was given to setValue of an     *)
(* entity model keeps the values it came with, those that its type accepts.  *)
AssignedValuesKept ==
  AtRest => \A instance \in given : \A i \in Item :
              instance[i] \in Valid => field[i] = instance[i]
=============================================================================
