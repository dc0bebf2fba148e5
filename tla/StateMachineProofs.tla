--------------------------- MODULE StateMachineProofs ---------------------------
(***************************************************************************)
(* Proofs about StateMachine, for any states, actions and transitions, any *)
(* number of listeners and whichever of them change the state when told.   *)
(***************************************************************************)
EXTENDS StateMachine, SequenceTheorems, TLAPS

USE StateMachineAssumption

LEMMA CountNat == Count \in Nat /\ DOMAIN Actions = 1..Count
BY DEF Count

(* Each position of the two loops stands for an action. *)
LEMMA ActionAtType ==
  ASSUME NEW n \in 1..(2 * Count)
  PROVE  ActionAt(n) \in Action
<1>1. (IF n <= Count THEN n ELSE n - Count) \in 1..Count
  BY CountNat
<1>2. QED
  BY <1>1, CountNat DEF ActionAt

(* An action has one position in each loop. *)
LEMMA OnePosition ==
  ASSUME NEW m \in 1..(2 * Count), NEW n \in 1..(2 * Count),
         ActionAt(m) = ActionAt(n), m # n
  PROVE  m <= Count <=> ~(n <= Count)
<1> DEFINE p == IF m <= Count THEN m ELSE m - Count
           q == IF n <= Count THEN n ELSE n - Count
<1>1. p \in 1..Count /\ q \in 1..Count
  BY CountNat
<1>2. Actions[p] = Actions[q]
  BY DEF ActionAt
<1>3. p = q
  BY <1>1, <1>2, CountNat
<1>4. QED
  BY <1>3, CountNat

------------------------------------------------------------------------------
(* What a call in progress still has to look at.                            *)
Ahead(c, n) == IF c.told = 0 THEN c.at <= n ELSE c.at < n
Owes(c, n)  == Ahead(c, n) /\ ActionAt(n) \in IF n <= Count THEN c.mayGo ELSE c.mayCome

(* Position n is of a change that listener 1 does not know of. *)
Unheard(n) ==
  IF n <= Count THEN ActionAt(n) \notin available /\ heard[1][ActionAt(n)] # "withdrawn"
                ELSE ActionAt(n) \in available /\ heard[1][ActionAt(n)] # "available"

PositionsOK ==
  /\ state = NoState => calls = <<>>
  /\ \A d \in DOMAIN calls : calls[d].told > 0 => calls[d].at <= 2 * Count

(* Whatever listener 1 does not know, some call in progress will tell it:   *)
(* the innermost, or one that goes on when those within it have returned.   *)
Covered ==
  state # NoState =>
    \A n \in 1..(2 * Count) :
      Unheard(n) => \E d \in DOMAIN calls : Owes(calls[d], n)

MachineInv == MachineTypeOK /\ PositionsOK /\ Covered

------------------------------------------------------------------------------
LEMMA AvailableInType == ASSUME NEW s PROVE AvailableIn(s) \subseteq Action
BY DEF AvailableIn

LEMMA CurrentType ==
  ASSUME MachineTypeOK, calls # <<>>
  PROVE  /\ Len(calls) \in Nat \ {0} /\ DOMAIN calls = 1..Len(calls)
         /\ Current \in Call
BY DEF MachineTypeOK, Current

(* A change of the current call leaves the others as they are.              *)
LEMMA MoveCurrentType ==
  ASSUME MachineTypeOK, calls # <<>>, NEW n, NEW k, MoveCurrent(n, k),
         Moved(Current, n, k) \in Call
  PROVE  /\ calls' \in Seq(Call) /\ DOMAIN calls' = DOMAIN calls
         /\ calls'[Len(calls)] = Moved(Current, n, k)
         /\ \A d \in DOMAIN calls : d # Len(calls) => calls'[d] = calls[d]
BY CurrentType DEF MachineTypeOK, MoveCurrent

LEMMA FiringType ==
  ASSUME NEW c \in Call, NEW n \in Firing(c)
  PROVE  n \in 1..(2 * Count) /\ n >= c.at
BY CountNat DEF Firing, Call

(* A position that listener 1 has not heard of, ahead in a call that owes   *)
(* it, fires there.                                                         *)
LEMMA OwedFires ==
  ASSUME NEW c \in Call, NEW n \in 1..(2 * Count),
         Unheard(n), Owes(c, n), c.told = 0
  PROVE  n \in Firing(c)
<1>1. n \in c.at..(2 * Count)
  BY CountNat DEF Owes, Ahead, Call
<1>2. Fires(c, n)
  BY DEF Fires, Unheard, Owes
<1>3. QED
  BY <1>1, <1>2 DEF Firing

------------------------------------------------------------------------------
THEOREM MachineInitInv == MachineInit => MachineInv
<1> SUFFICES ASSUME MachineInit PROVE MachineInv
  OBVIOUS
<1>1. MachineTypeOK
  BY DEF MachineInit, MachineTypeOK
<1>2. PositionsOK
  BY DEF MachineInit, PositionsOK
<1>3. Covered
  BY DEF MachineInit, Covered
<1>4. QED
  BY <1>1, <1>2, <1>3 DEF MachineInv

(* A new call owes whatever its change of the state leaves untold, and the  *)
(* calls around it still owe the rest.                                      *)
LEMMA EnterInv ==
  ASSUME MachineInv, NEW s \in State, NEW go \in SUBSET Action, NEW come \in SUBSET Action,
         Enter(s, go, come), changes' \in 0..MaxCalls,
         \/ state = NoState /\ go = Action /\ come = Action
         \/ state # NoState /\ go = available /\ come = Action \ available
  PROVE  MachineInv'
<1> DEFINE c == [at |-> 1, told |-> 0, mayGo |-> go, mayCome |-> come]
<1>1. c \in Call /\ c.told = 0
  BY CountNat DEF Call
<1>2. /\ Len(calls) \in Nat /\ DOMAIN calls = 1..Len(calls) /\ calls' \in Seq(Call)
      /\ DOMAIN calls' = 1..(Len(calls) + 1) /\ calls'[Len(calls) + 1] = c
      /\ \A d \in DOMAIN calls : calls'[d] = calls[d]
  <2>1. calls \in Seq(Call) /\ calls' = Append(calls, c)
    BY DEF MachineInv, MachineTypeOK, Enter
  <2>2. QED
    BY <1>1, <2>1
<1>3. MachineTypeOK'
  BY <1>2, AvailableInType DEF MachineInv, MachineTypeOK, Enter
<1>4. PositionsOK'
  BY <1>1, <1>2 DEF MachineInv, PositionsOK, Enter
<1>5. Covered'
  <2> SUFFICES ASSUME NEW n \in 1..(2 * Count), Unheard(n)'
               PROVE  \E d \in DOMAIN calls' : Owes(calls'[d], n)
    BY DEF Covered, Owes, Ahead, ActionAt, Count
  <2>1. ActionAt(n) \in Action
    BY ActionAtType
  <2>2. CASE ActionAt(n) \in IF n <= Count THEN go ELSE come
    <3>1. Ahead(c, n)
      BY DEF Ahead
    <3>2. Owes(calls'[Len(calls) + 1], n)
      BY <1>2, <2>2, <3>1 DEF Owes
    <3>3. QED
      BY <1>2, <3>2
  <2>3. CASE ActionAt(n) \notin IF n <= Count THEN go ELSE come
    <3>1. state # NoState /\ Unheard(n)
      BY <2>1, <2>3 DEF Unheard, Enter, ActionAt, Count
    <3>2. PICK d \in DOMAIN calls : Owes(calls[d], n)
      BY <3>1 DEF MachineInv, Covered
    <3>3. QED
      BY <1>2, <3>2
  <2>4. QED
    BY <2>2, <2>3
<1>6. QED
  BY <1>3, <1>4, <1>5 DEF MachineInv

(* The innermost call goes on without passing anything it owes.             *)
LEMMA ToldInv == MachineInv /\ Told => MachineInv'
<1> SUFFICES ASSUME MachineInv, Told PROVE MachineInv'
  OBVIOUS
<1> DEFINE c == Moved(Current, Current.at + 1, 0)
<1>1. /\ MachineTypeOK /\ calls # <<>> /\ Len(calls) \in DOMAIN calls /\ Current \in Call
      /\ Current.told = Listeners /\ Current.at <= 2 * Count /\ calls[Len(calls)] = Current
  BY CurrentType DEF MachineInv, Told, PositionsOK, Current
<1>2. c \in Call /\ c.told = 0 /\ c.at = Current.at + 1
      /\ c.mayGo = Current.mayGo /\ c.mayCome = Current.mayCome
  BY <1>1, CountNat DEF Call, Moved
<1>3. MoveCurrent(Current.at + 1, 0)
  BY DEF Told
<1>4. /\ calls' \in Seq(Call) /\ DOMAIN calls' = DOMAIN calls
      /\ calls'[Len(calls)] = c /\ Len(calls) \in DOMAIN calls
      /\ \A d \in DOMAIN calls : d # Len(calls) => calls'[d] = calls[d]
  BY <1>1, <1>2, <1>3, MoveCurrentType
<1>5. MachineTypeOK'
  BY <1>4 DEF MachineInv, MachineTypeOK, Told
<1>6. PositionsOK'
  BY <1>1, <1>2, <1>4 DEF MachineInv, PositionsOK, Told
<1>7. Covered'
  <2> SUFFICES ASSUME state # NoState, NEW n \in 1..(2 * Count), Unheard(n)
               PROVE  \E d \in DOMAIN calls' : Owes(calls'[d], n)
    BY DEF Covered, Owes, Ahead, ActionAt, Count, Unheard, Told
  <2>1. PICK d \in DOMAIN calls : Owes(calls[d], n)
    BY DEF MachineInv, Covered
  <2>2. CASE d # Len(calls)
    BY <1>4, <2>1, <2>2
  <2>3. CASE d = Len(calls)
    <3>1. Ahead(c, n)
      BY <1>1, <1>2, <2>1, <2>3, CountNat DEF Owes, Ahead, Call
    <3>2. Owes(c, n)
      BY <1>1, <1>2, <2>1, <2>3, <3>1 DEF Owes
    <3>3. QED
      BY <1>4, <3>2
  <2>4. QED
    BY <2>2, <2>3
<1>8. QED
  BY <1>5, <1>6, <1>7 DEF MachineInv

(* A call that returns owes nothing: it would fire.                         *)
LEMMA ReturnInv == MachineInv /\ Return => MachineInv'
<1> SUFFICES ASSUME MachineInv, Return PROVE MachineInv'
  OBVIOUS
<1>1. /\ MachineTypeOK /\ calls # <<>> /\ Len(calls) \in DOMAIN calls /\ Current \in Call
      /\ Current.told = 0 /\ Firing(Current) = {} /\ calls[Len(calls)] = Current
      /\ Len(calls) \in Nat \ {0} /\ DOMAIN calls = 1..Len(calls)
  BY CurrentType DEF MachineInv, Return, Current
<1>2. /\ calls' \in Seq(Call) /\ DOMAIN calls' = 1..(Len(calls) - 1)
      /\ \A d \in DOMAIN calls' : calls'[d] = calls[d]
  BY <1>1 DEF MachineTypeOK, Return
<1>3. MachineTypeOK'
  BY <1>2 DEF MachineInv, MachineTypeOK, Return
<1>4. PositionsOK'
  BY <1>1, <1>2 DEF MachineInv, PositionsOK, Return
<1>5. Covered'
  <2> SUFFICES ASSUME state # NoState, NEW n \in 1..(2 * Count), Unheard(n)
               PROVE  \E d \in DOMAIN calls' : Owes(calls'[d], n)
    BY DEF Covered, Owes, Ahead, ActionAt, Count, Unheard, Return
  <2>1. PICK d \in DOMAIN calls : Owes(calls[d], n)
    BY DEF MachineInv, Covered
  <2>2. d # Len(calls)
    BY <1>1, <2>1, OwedFires
  <2>3. QED
    BY <1>1, <1>2, <2>1, <2>2
<1>6. QED
  BY <1>3, <1>4, <1>5 DEF MachineInv

(* Telling the first listener passes over nothing that fires; telling the   *)
(* others does not move on.                                                 *)
LEMMA TellInv ==
  ASSUME MachineInv, NEW k \in 1..Listeners, NEW p \in 1..(2 * Count), TellAt(k, p)
  PROVE  MachineInv'
<1> DEFINE c == Moved(Current, p, k)
           a == ActionAt(p)
<1>1. /\ MachineTypeOK /\ calls # <<>> /\ Len(calls) \in DOMAIN calls /\ Current \in Call
      /\ Current.told = k - 1 /\ calls[Len(calls)] = Current /\ a \in Action
      /\ k \in Nat \ {0} /\ p \in Nat /\ p <= 2 * Count
  BY CurrentType, ActionAtType, CountNat DEF MachineInv, TellAt, Current
<1>2. /\ c \in Call /\ c.told = k /\ c.at = p
      /\ c.mayGo = Current.mayGo /\ c.mayCome = Current.mayCome
  BY <1>1, CountNat DEF Call, Moved
<1>3. MoveCurrent(p, k)
  BY DEF TellAt
<1>4. /\ calls' \in Seq(Call) /\ DOMAIN calls' = DOMAIN calls
      /\ calls'[Len(calls)] = c /\ Len(calls) \in DOMAIN calls
      /\ \A d \in DOMAIN calls : d # Len(calls) => calls'[d] = calls[d]
  BY <1>1, <1>2, <1>3, MoveCurrentType
<1>5. heard' \in [1..Listeners -> [Action -> {"unknown", "available", "withdrawn"}]]
  BY <1>1 DEF MachineTypeOK, TellAt
<1>6. MachineTypeOK'
  BY <1>4, <1>5 DEF MachineInv, MachineTypeOK, TellAt
<1>7. PositionsOK'
  BY <1>1, <1>2, <1>4 DEF MachineInv, PositionsOK, TellAt
<1>8. Covered'
  <2> SUFFICES ASSUME state # NoState, NEW n \in 1..(2 * Count), Unheard(n)'
               PROVE  \E d \in DOMAIN calls' : Owes(calls'[d], n)
    BY DEF Covered, Owes, Ahead, ActionAt, Count, TellAt
  <2>1. ActionAt(n) \in Action
    BY ActionAtType
  <2>2. Unheard(n) /\ (k = 1 => n # p)
    <3>1. CASE k # 1
      BY <1>1, <2>1, <3>1 DEF Unheard, TellAt, ActionAt, Count, MachineTypeOK
    <3>2. CASE k = 1 /\ ActionAt(n) # a
      BY <1>1, <2>1, <3>2 DEF Unheard, TellAt, ActionAt, Count, MachineTypeOK
    <3>3. CASE k = 1 /\ ActionAt(n) = a
      <4>1. p \in Firing(Current)
        BY <3>3 DEF TellAt
      <4>2. a \in available <=> ~(p <= Count)
        BY <4>1 DEF Firing, Fires
      <4>3. heard'[1][a] = IF p <= Count THEN "withdrawn" ELSE "available"
        BY <1>1, <3>3 DEF TellAt, MachineTypeOK
      <4>4. ~Unheard(n)'
        BY <3>3, <4>2, <4>3, OnePosition DEF Unheard, TellAt, ActionAt, Count
      <4>5. QED
        BY <4>4
    <3>4. QED
      BY <3>1, <3>2, <3>3
  <2>3. PICK d \in DOMAIN calls : Owes(calls[d], n)
    BY <2>2 DEF MachineInv, Covered
  <2>4. CASE d # Len(calls)
    BY <1>4, <2>3, <2>4
  <2>5. CASE d = Len(calls)
    <3>1. Owes(Current, n)
      BY <1>1, <2>3, <2>5
    <3>2. Ahead(c, n)
      <4>1. CASE k = 1
        <5>1. n \in Firing(Current)
          BY <1>1, <2>2, <3>1, <4>1, OwedFires
        <5>2. p <= n /\ n # p
          BY <2>2, <4>1, <5>1 DEF TellAt
        <5>3. QED
          BY <1>1, <1>2, <4>1, <5>2 DEF Ahead
      <4>2. CASE k # 1
        <5>1. p = Current.at
          BY <4>2 DEF TellAt
        <5>2. QED
          BY <1>1, <1>2, <3>1, <4>2, <5>1 DEF Owes, Ahead
      <4>3. QED
        BY <4>1, <4>2
    <3>3. Owes(c, n)
      BY <1>2, <3>1, <3>2 DEF Owes
    <3>4. QED
      BY <1>4, <3>3
  <2>6. QED
    BY <2>4, <2>5
<1>9. QED
  BY <1>6, <1>7, <1>8 DEF MachineInv

------------------------------------------------------------------------------
LEMMA SetStateInv ==
  ASSUME MachineInv, NEW s \in State, state # NoState, SetState(s)
  PROVE  MachineInv'
<1>1. available \in SUBSET Action /\ Action \ available \in SUBSET Action
  BY DEF MachineInv, MachineTypeOK
<1>2. changes' \in 0..MaxCalls
  BY DEF MachineInv, MachineTypeOK, SetState
<1>3. Enter(s, available, Action \ available)
  BY DEF SetState
<1>4. QED
  BY <1>1, <1>2, <1>3, EnterInv

(* Every step of the state machine keeps the invariant. *)
THEOREM MachineStepInv == MachineInv /\ [MachineNext]_machineVars => MachineInv'
<1> SUFFICES ASSUME MachineInv, [MachineNext]_machineVars PROVE MachineInv'
  OBVIOUS
<1>1. CASE Start
  <2>1. PICK s \in StartStates : Enter(s, Action, Action)
    BY <1>1 DEF Start
  <2>2. changes' \in 0..MaxCalls /\ s \in State /\ state = NoState
    BY <1>1 DEF Start, MachineInv, MachineTypeOK
  <2>3. QED
    BY <2>1, <2>2, EnterInv
<1>2. CASE Transition
  <2>1. PICK q \in Advances : q[1] = state /\ SetState(q[2])
    BY <1>2 DEF Transition
  <2>2. q[2] \in State /\ state # NoState
    BY <2>1
  <2>3. QED
    BY <2>1, <2>2, SetStateInv
<1>3. CASE Told
  BY <1>3, ToldInv
<1>4. CASE Return
  BY <1>4, ReturnInv
<1>5. ASSUME NEW a \in Action, InvokeAction(a) PROVE MachineInv'
  <2>1. PICK t \in Transitions : t.from = state /\ t.action = a /\ SetState(t.to)
    BY <1>5 DEF InvokeAction
  <2>2. t.to \in State /\ state # NoState
    BY <2>1
  <2>3. QED
    BY <2>1, <2>2, SetStateInv
<1>6. ASSUME NEW k \in 1..Listeners, NEW n \in 1..(2 * Count), TellAt(k, n) PROVE MachineInv'
  BY <1>6, TellInv
<1>7. CASE UNCHANGED machineVars
  BY <1>7 DEF MachineInv, MachineTypeOK, PositionsOK, Covered, Unheard, Owes, Ahead,
              ActionAt, Count, Call, machineVars
<1>8. QED
  BY <1>1, <1>2, <1>3, <1>4, <1>5, <1>6, <1>7 DEF MachineNext

(* With no call in progress, none owes anything: listener 1 is in step. *)
THEOREM MachineInvInStep == MachineInv => FirstInStep
<1> SUFFICES ASSUME MachineInv, calls = <<>>, state # NoState, NEW a \in Action
             PROVE  heard[1][a] = IF a \in available THEN "available" ELSE "withdrawn"
  BY DEF FirstInStep, InStep
<1>1. \A n \in 1..(2 * Count) : ~Unheard(n)
  BY DEF MachineInv, Covered
<1>2. PICK n \in 1..Count : Actions[n] = a
  BY CountNat
<1>3. /\ n \in 1..(2 * Count) /\ n <= Count /\ ActionAt(n) = a
      /\ Count + n \in 1..(2 * Count) /\ ~(Count + n <= Count) /\ ActionAt(Count + n) = a
  BY <1>2, CountNat DEF ActionAt
<1>4. QED
  BY <1>1, <1>3 DEF Unheard
=============================================================================
