------------------------------ MODULE StateMachine ------------------------------
(***************************************************************************)
(* org.plcore.state, StateMachine: the actions available in each state of  *)
(* a form, and the listeners that are told when one becomes available or   *)
(* ceases to be.                                                           *)
(*                                                                         *)
(* A listener may change the state while it is told of a change.  `calls'  *)
(* holds the calls of start and setState in progress, the innermost last;  *)
(* each goes through the actions twice, first telling of those withdrawn,  *)
(* then of those offered, and looks at availableActions, which the calls   *)
(* within it change, as it goes.                                           *)
(***************************************************************************)
EXTENDS Integers, Sequences

CONSTANTS
  State,        \* IState
  NoState,      \* before start
  Action,       \* IAction
  Actions,      \* findActions: the actions in the order they are told of
  Transitions,  \* addTransition: records of from, action, to
  StartStates,  \* what startFunction may return
  Advances,     \* pairs of states: the calls of transition
  Listeners,    \* the number of listeners, told in the order they were added
  Answering,    \* those that change the state when told
  MaxCalls      \* bound: changes of state

ASSUME StateMachineAssumption ==
  /\ NoState \notin State
  /\ Actions \in Seq(Action)
  /\ \A a \in Action : \E n \in DOMAIN Actions : Actions[n] = a
  /\ \A m, n \in DOMAIN Actions : Actions[m] = Actions[n] => m = n
  /\ Transitions \subseteq [from : State, action : Action, to : State]
  /\ StartStates \subseteq State
  /\ Advances \subseteq State \X State
  /\ Listeners \in Nat \ {0}
  /\ Answering \subseteq 1..Listeners
  /\ MaxCalls \in Nat

VARIABLES
  state,
  available,  \* the actions marked in availableActions
  heard,      \* what each listener was last told of each action
  calls,      \* calls in progress
  changes     \* bounded counter

machineVars == <<state, available, heard, calls, changes>>

Count == Len(Actions)

(* at: the position in both loops, the second after the first; told: the    *)
(* listeners already told of the change at this position; mayGo, mayCome:   *)
(* the actions a call takes for possibly withdrawn and offered.             *)
Call == [at : 1..(2 * Count + 1), told : 0..Listeners,
         mayGo : SUBSET Action, mayCome : SUBSET Action]

MachineTypeOK ==
  /\ state \in State \cup {NoState}
  /\ available \subseteq Action
  /\ heard \in [1..Listeners -> [Action -> {"unknown", "available", "withdrawn"}]]
  /\ calls \in Seq(Call)
  /\ changes \in 0..MaxCalls

MachineInit ==
  /\ state = NoState
  /\ available = {}
  /\ heard = [k \in 1..Listeners |-> [a \in Action |-> "unknown"]]
  /\ calls = <<>>
  /\ changes = 0

AvailableIn(s) == {t.action : t \in {u \in Transitions : u.from = s}}

Enter(s, go, come) ==
  /\ state' = s
  /\ available' = AvailableIn(s)
  /\ calls' = Append(calls, [at |-> 1, told |-> 0, mayGo |-> go, mayCome |-> come])
  /\ UNCHANGED heard

(* start tells of every action. *)
Start ==
  /\ state = NoState
  /\ \E s \in StartStates : Enter(s, Action, Action)
  /\ UNCHANGED changes

(* setState, in a call by the application or within one by a listener. *)
SlipSetState(s) ==
  /\ changes < MaxCalls
  /\ changes' = changes + 1
  /\ Enter(s, AvailableIn(s), Action \ AvailableIn(s))

SetState(s) ==
  /\ changes < MaxCalls
  /\ changes' = changes + 1
  /\ Enter(s, available, Action \ available)

(* invokeAction; with no transition for the action and state it throws.     *)
Invokable(a) == \E t \in Transitions : t.from = state /\ t.action = a

InvokeAction(a) ==
  \E t \in Transitions : t.from = state /\ t.action = a /\ SetState(t.to)

Transition ==
  \E p \in Advances : p[1] = state /\ SetState(p[2])

------------------------------------------------------------------------------
Current == calls[Len(calls)]
Moved(c, n, k) == [at |-> n, told |-> k, mayGo |-> c.mayGo, mayCome |-> c.mayCome]
MoveCurrent(n, k) == calls' = [calls EXCEPT ![Len(calls)] = Moved(Current, n, k)]

ActionAt(n) == Actions[IF n <= Count THEN n ELSE n - Count]

(* Whether the call has something to tell at position n of its loops. *)
Fires(c, n) ==
  IF n <= Count THEN ActionAt(n) \in c.mayGo \ available
                ELSE ActionAt(n) \in c.mayCome \cap available

Firing(c) == {n \in c.at..(2 * Count) : Fires(c, n)}

(* fireActionChanged: listener k is told, the first one of the next change  *)
(* that the loops meet, the others of the same one.                         *)
TellAt(k, n) ==
  /\ calls # <<>>
  /\ Current.told = k - 1
  /\ IF k = 1 THEN n \in Firing(Current) /\ \A m \in Firing(Current) : n <= m
              ELSE n = Current.at
  /\ heard' = [heard EXCEPT ![k][ActionAt(n)] =
                  IF n <= Count THEN "withdrawn" ELSE "available"]
  /\ MoveCurrent(n, k)
  /\ UNCHANGED <<state, available, changes>>

(* While listener k is being told, it may change the state. *)
Answer ==
  /\ calls # <<>>
  /\ Current.told \in Answering
  /\ Transition

(* All listeners were told: on to the next position. *)
Told ==
  /\ calls # <<>>
  /\ Current.told = Listeners
  /\ MoveCurrent(Current.at + 1, 0)
  /\ UNCHANGED <<state, available, heard, changes>>

Return ==
  /\ calls # <<>>
  /\ Current.told = 0 /\ Firing(Current) = {}
  /\ calls' = SubSeq(calls, 1, Len(calls) - 1)
  /\ UNCHANGED <<state, available, heard, changes>>

Advance == calls = <<>> /\ Transition

MachineNext ==
  \/ Start \/ Transition \/ Told \/ Return
  \/ \E a \in Action : InvokeAction(a)
  \/ \E k \in 1..Listeners, n \in 1..(2 * Count) : TellAt(k, n)

------------------------------------------------------------------------------
(* When no call is in progress, listener k was last told of each action     *)
(* what holds now.  The order of the two loops and of nested calls decides  *)
(* whether it does.                                                         *)
InStep(k) ==
  \A a \in Action : heard[k][a] = IF a \in available THEN "available" ELSE "withdrawn"

(* The first listener is in step, whichever listeners change the state from *)
(* within a call; later listeners need not be, as a nested call tells them  *)
(* before the outer one does.                                               *)
FirstInStep == calls = <<>> /\ state # NoState => InStep(1)
=============================================================================
