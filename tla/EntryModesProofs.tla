--------------------------- MODULE EntryModesProofs ---------------------------
(***************************************************************************)
(* Proofs about EntryModes, for any tree of plans, any number of nodes and *)
(* calls, and listeners that answer every event but those of a node still  *)
(* being built.                                                            *)
(***************************************************************************)
EXTENDS EntryModes, SequenceTheorems, TLAPS

USE TreeAssumption

-----------------------------------------------------------------------------
(* The stack of calls. *)

LEMMA PushFrame ==
  ASSUME NEW s \in Seq(Frame), NEW f \in Frame
  PROVE  /\ Append(s, f) \in Seq(Frame)
         /\ Len(Append(s, f)) = Len(s) + 1
         /\ \A k \in 1..Len(s) : Append(s, f)[k] = s[k]
         /\ Append(s, f)[Len(s) + 1] = f
OBVIOUS

LEMMA PopFrame ==
  ASSUME NEW s \in Seq(Frame), s # <<>>
  PROVE  /\ Len(s) \in Nat /\ Len(s) > 0
         /\ SubSeq(s, 1, Len(s) - 1) \in Seq(Frame)
         /\ Len(SubSeq(s, 1, Len(s) - 1)) = Len(s) - 1
         /\ \A k \in 1..(Len(s) - 1) : SubSeq(s, 1, Len(s) - 1)[k] = s[k]
         /\ s[Len(s)] \in Frame
<1>1. Len(s) \in Nat /\ Len(s) > 0
  BY EmptySeq
<1>2. s[Len(s)] \in Frame
  BY <1>1
<1>3. PICK n \in Nat : n = Len(s) - 1
  BY <1>1
<1>4. \A k \in 1..n : s[k] \in Frame
  BY <1>1, <1>3
<1>5. /\ SubSeq(s, 1, n) \in Seq(Frame)
      /\ Len(SubSeq(s, 1, n)) = IF 1 <= n THEN n - 1 + 1 ELSE 0
      /\ \A k \in 1..(n - 1 + 1) : SubSeq(s, 1, n)[k] = s[1 + k - 1]
  BY <1>3, <1>4, SubSeqProperties
<1>6. Len(SubSeq(s, 1, n)) = n /\ \A k \in 1..n : SubSeq(s, 1, n)[k] = s[k]
  BY <1>3, <1>5
<1>7. QED
  BY <1>1, <1>2, <1>3, <1>5, <1>6

LEMMA FrameType ==
  ASSUME NEW at \in {"fire", "update", "put", "added", "removed", "sync", "clear"},
         NEW n \in Node, NEW todo \in SUBSET (Node \cup Names)
  PROVE  /\ Call(at, n, todo) \in Frame
         /\ Call(at, n, todo).at = at
         /\ Call(at, n, todo).node = n
         /\ Call(at, n, todo).todo = todo
BY DEF Call, Frame

-----------------------------------------------------------------------------
(* Effective modes: the code's table gives the stricter of the two modes.  *)

LEMMA EffectiveType ==
  ASSUME NEW p \in EffectiveMode, NEW m \in EntryMode
  PROVE  GetEffective(p, m) \in EffectiveMode /\ ToEffective(m) \in EffectiveMode
BY DEF GetEffective, ToEffective, EffectiveMode, EntryMode

(* EffectiveEntryMode.getEffective never returns less than either demands. *)
THEOREM EffectiveIsStricter ==
  ASSUME NEW p \in EffectiveMode, NEW m \in EntryMode, NEW r \in EffectiveMode
  PROVE  r = GetEffective(p, m)
           <=> Rank(r) = IF Rank(m) > Rank(p) THEN Rank(m) ELSE Rank(p)
<1>1. CASE p = "ENABLED"
  BY <1>1 DEF GetEffective, ToEffective, EffectiveMode, EntryMode, Rank
<1>2. CASE p = "DISABLED"
  BY <1>2 DEF GetEffective, ToEffective, EffectiveMode, EntryMode, Rank
<1>3. CASE p = "VIEW"
  BY <1>3 DEF GetEffective, ToEffective, EffectiveMode, EntryMode, Rank
<1>4. CASE p = "HIDDEN"
  BY <1>4 DEF GetEffective, ToEffective, EffectiveMode, EntryMode, Rank
<1>5. QED
  BY <1>1, <1>2, <1>3, <1>4 DEF EffectiveMode

LEMMA RootMode ==
  ASSUME NEW m \in EntryMode
  PROVE  /\ GetEffective(ToEffective(m), m) = ToEffective(m)
         /\ ToEffective(m) \in EffectiveMode
         /\ Rank(ToEffective(m)) = Rank(m)
BY DEF GetEffective, ToEffective, EffectiveMode, EntryMode, Rank

-----------------------------------------------------------------------------
(* Type correctness. *)

FrameOK(f, nodes) ==
  /\ f \in Frame
  /\ f.node \in nodes
  /\ f.at \in {"put", "added"} => f.node # Root
  /\ f.at \in {"sync", "clear"} => f.node \in Container
  /\ f.at = "update" => f.todo \subseteq nodes \ {Root}

StackOK(s, nodes) == s \in Seq(Frame) /\ \A k \in 1..Len(s) : FrameOK(s[k], nodes)

LEMMA PushOK ==
  ASSUME NEW nodes, NEW s, StackOK(s, nodes), NEW f, FrameOK(f, nodes)
  PROVE  StackOK(Append(s, f), nodes)
BY PushFrame DEF StackOK, FrameOK

LEMMA PopOK ==
  ASSUME NEW nodes, NEW s, StackOK(s, nodes), s # <<>>
  PROVE  /\ StackOK(SubSeq(s, 1, Len(s) - 1), nodes)
         /\ FrameOK(s[Len(s)], nodes)
BY PopFrame DEF StackOK

LEMMA MoreNodesOK ==
  ASSUME NEW nodes, NEW more, nodes \subseteq more, NEW s, StackOK(s, nodes)
  PROVE  StackOK(s, more)
BY DEF StackOK, FrameOK

LEMMA TypeStack == TypeOK => StackOK(stack, made)
BY DEF TypeOK, StackOK, FrameOK

(* The loop of the innermost call goes on without x. *)
LEMMA RestOK ==
  ASSUME StackOK(stack, made), stack # <<>>, NEW x
  PROVE  StackOK(Rest(x), made)
<1>1. StackOK(Below, made) /\ FrameOK(Top, made)
  BY PopOK DEF Below, Top
<1>2. FrameOK(Call(Top.at, Top.node, Top.todo \ {x}), made)
  BY <1>1, FrameType DEF FrameOK, Frame
<1>3. QED
  BY <1>1, <1>2, PushOK DEF Rest

LEMMA NamesOfMembers ==
  ASSUME NEW n \in Node
  PROVE  MemberNames(n) \subseteq Names
BY DEF MemberNames, Names

LEMMA SyncMemberOK ==
  ASSUME NEW s, StackOK(s, made), NEW c \in made, made \subseteq Node, SyncMember(c, s)
  PROVE  StackOK(stack', made)
<1>1. ASSUME c \in Container, NEW at \in {"sync", "clear"}
      PROVE  FrameOK(Call(at, c, MemberNames(c)), made)
  BY <1>1, NamesOfMembers, FrameType DEF FrameOK
<1>2. CASE stack' = s
  BY <1>2
<1>3. CASE c \in Container /\ \E at \in {"sync", "clear"} :
             stack' = Append(s, Call(at, c, MemberNames(c)))
  <2>1. PICK at \in {"sync", "clear"} : stack' = Append(s, Call(at, c, MemberNames(c)))
    BY <1>3
  <2>2. QED
    BY <1>1, <1>3, <2>1, PushOK
<1>4. QED
  BY <1>2, <1>3 DEF SyncMember

LEMMA UpdateOK ==
  ASSUME NEW nodes, NEW s, StackOK(s, nodes), NEW n \in nodes, nodes \subseteq Node,
         NEW m \in EffectiveMode, Update(n, m, s), eff \in [Node -> EffectiveMode]
  PROVE  StackOK(stack', nodes) /\ eff' \in [Node -> EffectiveMode]
<1>1. FrameOK(Call("fire", n, {}), nodes)
  BY FrameType DEF FrameOK
<1>2. QED
  BY <1>1, PushOK DEF Update

LEMMA InitType == Init => TypeOK
<1> SUFFICES ASSUME Init PROVE TypeOK
  OBVIOUS
<1>1. stack \in Seq(Frame) /\ Len(stack) = 0
  BY DEF Init
<1>2. QED
  BY <1>1 DEF Init, TypeOK, EntryMode, EffectiveMode

LEMMA NextType == TypeOK /\ [Next]_vars => TypeOK'
<1> SUFFICES ASSUME TypeOK, [Next]_vars PROVE TypeOK'
  OBVIOUS
<1>0. StackOK(stack, made)
  BY TypeStack
<1>t. ASSUME made' \subseteq Node, Root \in made', member' \subseteq made' \ {Root},
             mode' \in [Node -> EntryMode], eff' \in [Node -> EffectiveMode],
             StackOK(stack', made'), calls' \in 0..MaxCalls
      PROVE  TypeOK'
  BY <1>t DEF TypeOK, StackOK, FrameOK
<1>c. ASSUME UserCall PROVE calls' \in 0..MaxCalls
  BY <1>c DEF UserCall, TypeOK
<1>b. ASSUME stack # <<>>
      PROVE  StackOK(Below, made) /\ FrameOK(Top, made)
  BY <1>0, <1>b, PopOK DEF Below, Top
<1>1. ASSUME NEW n \in Node, SetValue(n) PROVE TypeOK'
  <2>1. FrameOK(Call("sync", n, MemberNames(n)), made) /\ FrameOK(Call("clear", n, MemberNames(n)), made)
    BY <1>1, NamesOfMembers, FrameType DEF SetValue, FrameOK
  <2>2. StackOK(stack', made')
    BY <1>0, <1>1, <2>1, PushOK DEF SetValue
  <2>3. QED
    BY <1>1, <1>c, <1>t, <2>2 DEF SetValue, TypeOK
<1>2. ASSUME NEW n \in Node, NEW m \in UserModes, SetEntryMode(n, m) PROVE TypeOK'
  <2>1. GetEffective(IF n = Root THEN ToEffective(m) ELSE eff[Parent[n]], m) \in EffectiveMode
    BY EffectiveType, RootMode DEF TypeOK
  <2>2. StackOK(stack', made) /\ eff' \in [Node -> EffectiveMode]
    BY <1>0, <1>2, <2>1, UpdateOK DEF SetEntryMode, TypeOK
  <2>3. QED
    BY <1>2, <1>c, <1>t, <2>2 DEF SetEntryMode, TypeOK
<1>3. ASSUME NEW c \in Node, UpdateChild(c) PROVE TypeOK'
  <2>1. c \in made /\ Top.node \in Node /\ stack # <<>>
    BY <1>3, <1>b DEF UpdateChild, In, FrameOK, TypeOK
  <2>2. GetEffective(eff[Top.node], mode[c]) \in EffectiveMode
    BY <2>1, EffectiveType DEF TypeOK
  <2>3. StackOK(stack', made) /\ eff' \in [Node -> EffectiveMode]
    BY <1>0, <1>3, <2>1, <2>2, RestOK, UpdateOK DEF UpdateChild, TypeOK
  <2>4. QED
    BY <1>3, <1>t, <2>3 DEF UpdateChild, TypeOK
<1>4. ASSUME NEW c \in Node, SyncOldMember(c) PROVE TypeOK'
  <2>1. StackOK(Rest(Name[c]), made) /\ c \in made
    BY <1>0, <1>4, RestOK DEF SyncOldMember, In, Children, TypeOK
  <2>2. StackOK(stack', made)
    BY <1>4, <2>1, SyncMemberOK DEF SyncOldMember, TypeOK
  <2>3. QED
    BY <1>4, <1>t, <2>2 DEF SyncOldMember, TypeOK
<1>5. ASSUME NEW c \in Node, BuildMember(c) PROVE TypeOK'
  <2>1. stack # <<>> /\ Parent[c] = Top.node /\ made' = made \cup {c} /\ c \notin made
    BY <1>5 DEF BuildMember, In
  <2>2. c # Root /\ c \in made' /\ made' \subseteq Node
    BY <2>1 DEF TypeOK
  <2>3. StackOK(Rest(Name[c]), made')
    BY <1>0, <2>1, RestOK, MoreNodesOK
  <2>4. FrameOK(Call("put", c, {}), made')
    BY <2>2, FrameType DEF FrameOK
  <2>5. StackOK(Append(Rest(Name[c]), Call("put", c, {})), made')
    BY <2>3, <2>4, PushOK
  <2>6. GetEffective(eff[Parent[c]], PlanMode[c]) \in EffectiveMode
    BY <2>2, EffectiveType DEF TypeOK
  <2>7. StackOK(stack', made') /\ eff' \in [Node -> EffectiveMode]
    BY <1>5, <2>2, <2>5, <2>6, UpdateOK DEF BuildMember, TypeOK
  <2>8. QED
    BY <1>5, <1>t, <2>2, <2>7 DEF BuildMember, TypeOK
<1>6. ASSUME NEW c \in Node, RemoveMember(c) PROVE TypeOK'
  <2>1. StackOK(Rest(Name[c]), made) /\ c \in made
    BY <1>0, <1>6, RestOK DEF RemoveMember, In, Children, TypeOK
  <2>2. FrameOK(Call("removed", c, {}), made)
    BY <2>1, FrameType DEF FrameOK
  <2>3. StackOK(stack', made)
    BY <1>6, <2>1, <2>2, PushOK DEF RemoveMember
  <2>4. QED
    BY <1>6, <1>t, <2>3 DEF RemoveMember, TypeOK
<1>7. CASE ListenersReturn
  <2>1. StackOK(Below, made) /\ Top.node \in made
    BY <1>7, <1>b DEF ListenersReturn, In, FrameOK
  <2>2. Children(Top.node) \subseteq made \ {Root}
    BY DEF Children, TypeOK
  <2>3. FrameOK(Call("update", Top.node, Children(Top.node)), made)
    BY <2>1, <2>2, FrameType DEF FrameOK, TypeOK
  <2>4. StackOK(stack', made)
    BY <1>7, <2>1, <2>3, PushOK DEF ListenersReturn
  <2>5. QED
    BY <1>7, <1>t, <2>4 DEF ListenersReturn, TypeOK
<1>8. CASE PutMember
  <2>1. StackOK(Below, made) /\ Top.node \in made /\ Top.node # Root
    BY <1>8, <1>b DEF PutMember, In, FrameOK
  <2>2. FrameOK(Call("added", Top.node, {}), made)
    BY <2>1, FrameType DEF FrameOK, TypeOK
  <2>3. StackOK(stack', made)
    BY <1>8, <2>1, <2>2, PushOK DEF PutMember
  <2>4. QED
    BY <1>8, <1>t, <2>1, <2>3 DEF PutMember, TypeOK
<1>9. CASE AddedMember
  <2>1. StackOK(Below, made) /\ Top.node \in made
    BY <1>9, <1>b DEF AddedMember, In, FrameOK
  <2>2. StackOK(stack', made)
    BY <1>9, <2>1, SyncMemberOK DEF AddedMember, TypeOK
  <2>3. QED
    BY <1>9, <1>t, <2>2 DEF AddedMember, TypeOK
<1>10. CASE Return
  <2>1. StackOK(stack', made)
    BY <1>10, <1>b DEF Return, In
  <2>2. QED
    BY <1>10, <1>t, <2>1 DEF Return, TypeOK
<1>11. CASE UNCHANGED vars
  BY <1>11 DEF vars, TypeOK
<1>12. QED
  BY <1>1, <1>2, <1>3, <1>4, <1>5, <1>6, <1>7, <1>8, <1>9, <1>10, <1>11 DEF Next

(* Every reachable tree of nodes and stack of calls is well typed. *)
THEOREM TypeCorrect == Spec => []TypeOK
BY InitType, NextType, PTL DEF Spec

-----------------------------------------------------------------------------
(* Inheritance.  The invariant says of a node being built, which is not yet *)
(* in the members map, that it has its parent's mode and that no call but   *)
(* its own mode event is in progress.                                       *)

Follows(c) == eff[c] = GetEffective(eff[Parent[c]], mode[c])

RootEffective == eff[Root] = ToEffective(mode[Root])
ParentsMade   == \A c \in made \ {Root} : Parent[c] \in made
MembersFollow == \A c \in member : Follows(c) \/ Pending(c)

UpdatesChildren ==
  \A k \in 1..Len(stack) :
    stack[k].at = "update" => \A c \in stack[k].todo : Parent[c] = stack[k].node

PutIsInnermost ==
  \A k \in 1..Len(stack) : stack[k].at = "put" =>
    /\ Follows(stack[k].node)
    /\ stack[k].todo = {}
    /\ \A d \in member : d # stack[k].node /\ Parent[d] # stack[k].node
    /\ \/ k = Len(stack)
       \/ /\ k = Len(stack) - 1
          /\ Top.node = stack[k].node
          /\ Top.at = "fire" \/ (Top.at = "update" /\ Top.todo = {})

IInv ==
  /\ RootEffective
  /\ ParentsMade
  /\ MembersFollow
  /\ UpdatesChildren
  /\ PutIsInnermost

NoPut == \A k \in 1..Len(stack) : stack[k].at # "put"

LEMMA BelowShape ==
  ASSUME TypeOK, stack # <<>>
  PROVE  /\ Len(stack) \in Nat /\ Len(stack) > 0
         /\ Below \in Seq(Frame)
         /\ Len(Below) = Len(stack) - 1
         /\ \A k \in 1..(Len(stack) - 1) : Below[k] = stack[k]
         /\ Top \in Frame /\ Top.node \in made
         /\ Len(stack) \in 1..Len(stack)
         /\ Top = stack[Len(stack)]
<1>1. Len(stack) \in Nat /\ Len(stack) > 0
  BY PopFrame DEF TypeOK
<1>2. QED
  BY <1>1, PopFrame DEF TypeOK, Below, Top

LEMMA RestShape ==
  ASSUME TypeOK, stack # <<>>, NEW x
  PROVE  /\ Rest(x) \in Seq(Frame)
         /\ Len(Rest(x)) = Len(stack)
         /\ \A k \in 1..(Len(stack) - 1) : Rest(x)[k] = stack[k]
         /\ Rest(x)[Len(stack)].at = Top.at
         /\ Rest(x)[Len(stack)].node = Top.node
         /\ Rest(x)[Len(stack)].todo = Top.todo \ {x}
<1> DEFINE f == Call(Top.at, Top.node, Top.todo \ {x})
<1>1. f \in Frame /\ f.at = Top.at /\ f.node = Top.node /\ f.todo = Top.todo \ {x}
  BY BelowShape, FrameType DEF Frame
<1> HIDE DEF f
<1>2. Rest(x) = Append(Below, f)
  BY DEF Rest, f
<1>3. QED
  BY <1>1, <1>2, BelowShape, PushFrame

LEMMA UpdateShape ==
  ASSUME NEW s \in Seq(Frame), NEW n \in Node, NEW m, Update(n, m, s)
  PROVE  /\ stack' \in Seq(Frame)
         /\ \A k \in 1..Len(s) : stack'[k] = s[k]
         /\ \/ m = eff[n] /\ stack' = s
            \/ /\ m # eff[n]
               /\ Len(stack') = Len(s) + 1
               /\ stack'[Len(s) + 1].at = "fire"
               /\ stack'[Len(s) + 1].node = n
<1>1. Call("fire", n, {}) \in Frame /\ Call("fire", n, {}).at = "fire" /\ Call("fire", n, {}).node = n
  BY FrameType
<1>2. QED
  BY <1>1, PushFrame DEF Update

(* A listener is never called while a node is being built. *)
LEMMA CallableNoPut ==
  ASSUME TypeOK, PutIsInnermost, "built" \notin ReactsTo, Callable
  PROVE  NoPut
<1>1. CASE stack = <<>>
  BY <1>1 DEF NoPut
<1>2. CASE In("fire")
  <2>1. ASSUME NEW k \in 1..Len(stack), stack[k].at = "put" PROVE FALSE
    <3>1. stack # <<>> /\ Top.at = "fire"
      BY <1>2 DEF In
    <3>2. k # Len(stack)
      BY <2>1, <3>1, BelowShape
    <3>3. stack[k].node = Top.node /\ stack[k].todo = {} /\ stack[k] \in Frame
      BY <2>1, <3>2 DEF PutIsInnermost, TypeOK
    <3>4. stack[k] = Call("put", Top.node, {})
      BY <2>1, <3>3 DEF Frame, Call
    <3>5. QED
      BY <1>2, <3>1, <3>4 DEF Callable, In
  <2>2. QED
    BY <2>1 DEF NoPut
<1>3. CASE In("added") \/ In("removed")
  BY <1>3, BelowShape DEF In, PutIsInnermost, NoPut
<1>4. QED
  BY <1>1, <1>2, <1>3 DEF Callable

LEMMA TopNoPut ==
  ASSUME TypeOK, PutIsInnermost, stack # <<>>,
         Top.at \in {"added", "removed", "sync", "clear"} \/ (Top.at = "update" /\ Top.todo # {})
  PROVE  NoPut
BY BelowShape DEF PutIsInnermost, NoPut

LEMMA NoPutIsEnough == NoPut => PutIsInnermost
BY DEF NoPut, PutIsInnermost

(* A call that is still in progress is still pending. *)
LEMMA PendingKept ==
  ASSUME NEW c, NEW k \in 1..Len(stack), k \in 1..Len(stack'), stack'[k] = stack[k],
         stack[k].node = Parent[c],
         stack[k].at = "fire" \/ (stack[k].at = "update" /\ c \in stack[k].todo)
  PROVE  Pending(c)'
BY DEF Pending

(* Steps that only start and end calls that give no node a mode. *)
LEMMA StructureStep ==
  ASSUME TypeOK, IInv, NEW n \in Nat, Len(stack') \in Nat,
         n <= Len(stack), n <= Len(stack'),
         \A k \in 1..n : stack'[k] = stack[k],
         \A k \in (n+1)..Len(stack) :
            stack[k].at # "fire" /\ (stack[k].at = "update" => stack[k].todo = {}),
         \A k \in (n+1)..Len(stack') : stack'[k].at \in {"sync", "clear", "removed", "added"},
         made' = made, eff' = eff, mode' = mode, member' \subseteq member
  PROVE  /\ RootEffective' /\ ParentsMade' /\ MembersFollow' /\ UpdatesChildren'
         /\ (\A k \in 1..n : stack[k].at # "put") => PutIsInnermost'
<1>0. Len(stack) \in Nat
  BY DEF TypeOK
<1>1. RootEffective' /\ ParentsMade'
  BY DEF IInv, RootEffective, ParentsMade
<1>2. MembersFollow'
  <2>1. SUFFICES ASSUME NEW c \in member PROVE Follows(c)' \/ Pending(c)'
    BY DEF MembersFollow
  <2>2. CASE Follows(c)
    BY <2>2 DEF Follows
  <2>3. CASE Pending(c)
    <3>1. PICK k \in 1..Len(stack) :
            /\ stack[k].node = Parent[c]
            /\ stack[k].at = "fire" \/ (stack[k].at = "update" /\ c \in stack[k].todo)
      BY <2>3 DEF Pending
    <3>2. k \in 1..n
      BY <1>0, <3>1
    <3>3. k \in 1..Len(stack') /\ stack'[k] = stack[k]
      BY <3>2
    <3>4. QED
      BY <3>1, <3>3, PendingKept
  <2>4. QED
    BY <2>2, <2>3 DEF IInv, MembersFollow
<1>3. UpdatesChildren'
  <2>1. SUFFICES ASSUME NEW k \in 1..Len(stack'), stack'[k].at = "update", NEW c \in stack'[k].todo
                 PROVE  Parent[c] = stack'[k].node
    BY DEF UpdatesChildren
  <2>2. k \in 1..n
    BY <2>1
  <2>3. k \in 1..Len(stack) /\ stack'[k] = stack[k]
    BY <1>0, <2>2
  <2>4. QED
    BY <2>1, <2>3 DEF IInv, UpdatesChildren
<1>4. ASSUME \A k \in 1..n : stack[k].at # "put"
      PROVE  PutIsInnermost'
  <2>1. ASSUME NEW k \in 1..Len(stack') PROVE stack'[k].at # "put"
    <3>1. k \in 1..n \/ k \in (n+1)..Len(stack')
      OBVIOUS
    <3>2. QED
      BY <1>4, <3>1
  <2>2. QED
    BY <2>1 DEF PutIsInnermost
<1>5. QED
  BY <1>1, <1>2, <1>3, <1>4

(* What a frame that SyncMember pushes looks like. *)
LEMMA SyncMemberShape ==
  ASSUME NEW s \in Seq(Frame), NEW c \in Node, SyncMember(c, s)
  PROVE  /\ stack' \in Seq(Frame)
         /\ Len(stack') \in {Len(s), Len(s) + 1}
         /\ \A k \in 1..Len(s) : stack'[k] = s[k]
         /\ Len(stack') = Len(s) + 1 => stack'[Len(s) + 1].at \in {"sync", "clear"}
<1>1. CASE stack' = s
  BY <1>1
<1>2. CASE c \in Container /\ \E at \in {"sync", "clear"} :
             stack' = Append(s, Call(at, c, MemberNames(c)))
  <2>1. PICK at \in {"sync", "clear"} : stack' = Append(s, Call(at, c, MemberNames(c)))
    BY <1>2
  <2>2. Call(at, c, MemberNames(c)) \in Frame /\ Call(at, c, MemberNames(c)).at = at
    BY FrameType, NamesOfMembers
  <2>3. QED
    BY <2>1, <2>2, PushFrame
<1>3. QED
  BY <1>1, <1>2 DEF SyncMember

LEMMA SetValueInherit ==
  ASSUME TypeOK, IInv, "built" \notin ReactsTo, NEW n \in Node, SetValue(n)
  PROVE  IInv'
<1>1. NoPut
  BY CallableNoPut DEF SetValue, UserCall, IInv
<1>2. PICK at \in {"sync", "clear"} : stack' = Append(stack, Call(at, n, MemberNames(n)))
  BY DEF SetValue
<1>3. Call(at, n, MemberNames(n)) \in Frame /\ Call(at, n, MemberNames(n)).at = at
  BY FrameType, NamesOfMembers
<1>4. /\ Len(stack') = Len(stack) + 1
      /\ \A k \in 1..Len(stack) : stack'[k] = stack[k]
      /\ stack'[Len(stack) + 1].at \in {"sync", "clear"}
      /\ Len(stack) \in Nat
  BY <1>2, <1>3, PushFrame DEF TypeOK
<1>5. \A k \in (Len(stack) + 1)..Len(stack') : stack'[k].at \in {"sync", "clear", "removed", "added"}
  BY <1>4
<1>6. QED
  BY <1>1, <1>4, <1>5, StructureStep DEF SetValue, NoPut, IInv

(* A loop over members ends a round: the innermost frame is replaced. *)
LEMMA ReplaceStep ==
  ASSUME TypeOK, IInv, stack # <<>>,
         \/ Top.at \in {"sync", "clear", "added", "removed"}
         \/ Top.at = "update" /\ Top.todo = {},
         Len(stack') \in Nat, Len(stack') >= Len(stack) - 1,
         \A k \in 1..(Len(stack) - 1) : stack'[k] = stack[k],
         \A k \in Len(stack)..Len(stack') : stack'[k].at \in {"sync", "clear", "removed", "added"},
         made' = made, eff' = eff, mode' = mode, member' \subseteq member
  PROVE  /\ RootEffective' /\ ParentsMade' /\ MembersFollow' /\ UpdatesChildren'
         /\ (\A k \in 1..(Len(stack) - 1) : stack[k].at # "put") => PutIsInnermost'
<1> DEFINE n == Len(stack) - 1
<1>1. n \in Nat /\ n + 1 = Len(stack) /\ n <= Len(stack) /\ n <= Len(stack')
  BY BelowShape
<1>2. \A k \in (n+1)..Len(stack) :
        stack[k].at # "fire" /\ (stack[k].at = "update" => stack[k].todo = {})
  BY <1>1, BelowShape
<1>3. /\ \A k \in (n+1)..Len(stack') : stack'[k].at \in {"sync", "clear", "removed", "added"}
      /\ \A k \in 1..n : stack'[k] = stack[k]
  BY <1>1
<1> HIDE DEF n
<1>4. /\ RootEffective' /\ ParentsMade' /\ MembersFollow' /\ UpdatesChildren'
      /\ (\A k \in 1..n : stack[k].at # "put") => PutIsInnermost'
  BY <1>1, <1>2, <1>3, StructureStep
<1>5. QED
  BY <1>4 DEF n

LEMMA LoopInherit ==
  ASSUME TypeOK, IInv,
         (\E c \in Node : SyncOldMember(c) \/ RemoveMember(c)) \/ AddedMember
  PROVE  IInv'
<1>1. stack # <<>> /\ Top.at \in {"sync", "clear", "added"}
  BY DEF SyncOldMember, RemoveMember, AddedMember, In
<1>2. NoPut
  BY <1>1, TopNoPut DEF IInv
<1>3. Len(stack) \in Nat \ {0}
  BY <1>1, BelowShape
<1>4. /\ Len(stack') \in Nat /\ Len(stack') >= Len(stack) - 1
      /\ \A k \in 1..(Len(stack) - 1) : stack'[k] = stack[k]
      /\ \A k \in Len(stack)..Len(stack') : stack'[k].at \in {"sync", "clear", "removed", "added"}
  <2>1. ASSUME NEW c \in Node, SyncOldMember(c) PROVE <1>4!1 /\ <1>4!2 /\ <1>4!3
    BY <2>1, <1>1, <1>3, RestShape, SyncMemberShape DEF SyncOldMember
  <2>2. ASSUME NEW c \in Node, RemoveMember(c) PROVE <1>4!1 /\ <1>4!2 /\ <1>4!3
    <3>1. Call("removed", c, {}) \in Frame /\ Call("removed", c, {}).at = "removed"
      BY FrameType
    <3>2. QED
      BY <2>2, <1>1, <1>3, <3>1, RestShape, PushFrame DEF RemoveMember
  <2>3. CASE AddedMember
    BY <2>3, <1>1, <1>3, BelowShape, SyncMemberShape DEF AddedMember, TypeOK
  <2>4. QED
    BY <2>1, <2>2, <2>3
<1>5. made' = made /\ eff' = eff /\ mode' = mode /\ member' \subseteq member
  BY DEF SyncOldMember, RemoveMember, AddedMember
<1>6. QED
  BY <1>1, <1>2, <1>3, <1>4, <1>5, ReplaceStep DEF NoPut, IInv

LEMMA ReturnInherit ==
  ASSUME TypeOK, IInv, Return
  PROVE  IInv'
<1>1. stack # <<>> /\ (Top.at \in {"sync", "clear", "removed"} \/ (Top.at = "update" /\ Top.todo = {}))
  BY DEF Return, In
<1>2. /\ Len(stack) \in Nat \ {0}
      /\ Len(stack') = Len(stack) - 1
      /\ \A k \in 1..(Len(stack) - 1) : stack'[k] = stack[k]
  BY <1>1, BelowShape DEF Return
<1>3. made' = made /\ eff' = eff /\ mode' = mode /\ member' = member
  BY DEF Return
<1>4. RootEffective' /\ ParentsMade' /\ MembersFollow' /\ UpdatesChildren'
  BY <1>1, <1>2, <1>3, ReplaceStep
<1>5. PutIsInnermost'
  <2>1. ASSUME NEW k \in 1..Len(stack'), stack'[k].at = "put"
        PROVE  /\ eff[stack[k].node] = GetEffective(eff[Parent[stack[k].node]], mode[stack[k].node])
               /\ stack'[k] = stack[k] /\ stack[k].todo = {} /\ k = Len(stack')
               /\ \A d \in member : d # stack[k].node /\ Parent[d] # stack[k].node
    <3>1. stack'[k] = stack[k] /\ k \in 1..Len(stack) /\ k # Len(stack)
      BY <1>2
    <3>2. QED
      BY <1>2, <2>1, <3>1 DEF IInv, PutIsInnermost, Follows
  <2>2. QED
    BY <1>3, <2>1 DEF PutIsInnermost, Follows
<1>6. QED
  BY <1>4, <1>5 DEF IInv

-----------------------------------------------------------------------------
(* The steps that give a node a mode. *)

PendingIn(s, c) ==
  \E k \in 1..Len(s) :
    /\ s[k].node = Parent[c]
    /\ s[k].at = "fire" \/ (s[k].at = "update" /\ c \in s[k].todo)

LEMMA PendingIsPendingIn ==
  ASSUME NEW c
  PROVE  Pending(c) <=> PendingIn(stack, c)
BY DEF Pending, PendingIn

(* A new mode of n follows n's parent, and n's members are pending. *)
LEMMA UpdateMembers ==
  ASSUME TypeOK, MembersFollow, NEW s \in Seq(Frame), NEW n \in Node, NEW m, Update(n, m, s),
         member' = member,
         \A d \in Node \ {n} : mode'[d] = mode[d],
         n \in member => m = GetEffective(eff[Parent[n]], mode'[n]),
         \A c \in member \ {n} : Pending(c) => PendingIn(s, c)
  PROVE  MembersFollow'
<1>1. SUFFICES ASSUME NEW c \in member PROVE Follows(c)' \/ Pending(c)'
  BY DEF MembersFollow
<1>2. c \in Node \ {Root} /\ Parent[c] \in Node /\ Parent[c] # c
  BY DEF TypeOK
<1>3. eff' = [eff EXCEPT ![n] = m] /\ eff \in [Node -> EffectiveMode] /\ Len(s) \in Nat
  BY DEF Update, TypeOK
<1>4. CASE c = n
  BY <1>2, <1>3, <1>4 DEF Follows
<1>5. ASSUME c # n, PendingIn(s, c) PROVE Pending(c)'
  <2>1. PICK k \in 1..Len(s) : /\ s[k].node = Parent[c]
                               /\ s[k].at = "fire" \/ (s[k].at = "update" /\ c \in s[k].todo)
    BY <1>5 DEF PendingIn
  <2>2. k \in 1..Len(stack') /\ stack'[k] = s[k]
    BY <1>3, UpdateShape
  <2>3. QED
    BY <2>1, <2>2 DEF Pending
<1>6. ASSUME c # n, Parent[c] = n, m # eff[n] PROVE Pending(c)'
  <2>1. /\ Len(s) + 1 \in 1..Len(stack')
        /\ stack'[Len(s) + 1].at = "fire" /\ stack'[Len(s) + 1].node = n
    BY <1>3, <1>6, UpdateShape
  <2>2. QED
    BY <1>6, <2>1 DEF Pending
<1>7. ASSUME c # n, Parent[c] # n \/ m = eff[n], Follows(c) PROVE Follows(c)'
  BY <1>2, <1>3, <1>7 DEF Follows
<1>8. QED
  BY <1>4, <1>5, <1>6, <1>7 DEF MembersFollow

LEMMA SetEntryModeInherit ==
  ASSUME TypeOK, IInv, "built" \notin ReactsTo, NEW n \in Node, NEW m \in UserModes, SetEntryMode(n, m)
  PROVE  IInv'
<1> DEFINE new == GetEffective(IF n = Root THEN ToEffective(m) ELSE eff[Parent[n]], m)
<1>1. NoPut
  BY CallableNoPut DEF SetEntryMode, UserCall, IInv
<1>2. /\ mode' = [mode EXCEPT ![n] = m] /\ Update(n, new, stack)
      /\ made' = made /\ member' = member /\ stack \in Seq(Frame) /\ Len(stack) \in Nat
      /\ mode \in [Node -> EntryMode] /\ eff \in [Node -> EffectiveMode] /\ m \in EntryMode
  BY DEF SetEntryMode, TypeOK
<1>3. /\ \A k \in 1..Len(stack) : stack'[k] = stack[k]
      /\ \A k \in 1..Len(stack') : k \in 1..Len(stack) \/ stack'[k].at = "fire"
  BY <1>2, UpdateShape
<1>4. MembersFollow'
  <2>1. n \in member => new = GetEffective(eff[Parent[n]], mode'[n])
    BY <1>2 DEF TypeOK
  <2>2. QED
    BY <1>2, <2>1, PendingIsPendingIn, UpdateMembers DEF IInv
<1>5. RootEffective'
  BY <1>2, RootMode DEF Update, IInv, RootEffective
<1>6. ParentsMade' /\ UpdatesChildren'
  BY <1>2, <1>3 DEF IInv, ParentsMade, UpdatesChildren
<1>7. PutIsInnermost'
  BY <1>1, <1>3 DEF NoPut, PutIsInnermost
<1>8. QED
  BY <1>4, <1>5, <1>6, <1>7 DEF IInv

LEMMA UpdateChildInherit ==
  ASSUME TypeOK, IInv, NEW c \in Node, UpdateChild(c)
  PROVE  IInv'
<1>1. /\ stack # <<>> /\ Top.at = "update" /\ c \in Top.todo
      /\ made' = made /\ member' = member /\ mode' = mode
      /\ Update(c, GetEffective(eff[Top.node], mode[c]), Rest(c))
  BY DEF UpdateChild, In
<1>2. NoPut
  BY <1>1, TopNoPut DEF IInv
<1>3. /\ Len(stack) \in 1..Len(stack) /\ Len(stack) \in Nat /\ Top = stack[Len(stack)]
  BY <1>1, BelowShape
<1>4. Parent[c] = Top.node /\ c # Root
  BY <1>1, <1>3 DEF IInv, UpdatesChildren, TypeOK
<1>5. /\ Rest(c) \in Seq(Frame) /\ Len(Rest(c)) = Len(stack)
      /\ \A k \in 1..(Len(stack) - 1) : Rest(c)[k] = stack[k]
      /\ Rest(c)[Len(stack)].at = "update" /\ Rest(c)[Len(stack)].node = Top.node
      /\ Rest(c)[Len(stack)].todo = Top.todo \ {c}
  BY <1>1, RestShape
<1>6. /\ \A k \in 1..Len(stack) : stack'[k] = Rest(c)[k]
      /\ \A k \in 1..Len(stack') : k \in 1..Len(stack) \/ stack'[k].at = "fire"
  BY <1>1, <1>3, <1>5, UpdateShape
<1>7. ASSUME NEW d \in member \ {c}, Pending(d) PROVE PendingIn(Rest(c), d)
  <2>1. PICK k \in 1..Len(stack) : /\ stack[k].node = Parent[d]
                                   /\ stack[k].at = "fire" \/ (stack[k].at = "update" /\ d \in stack[k].todo)
    BY <1>7 DEF Pending
  <2>2. CASE k = Len(stack)
    BY <1>1, <1>3, <1>5, <1>7, <2>1, <2>2 DEF PendingIn
  <2>3. CASE k # Len(stack)
    BY <1>3, <1>5, <2>1, <2>3 DEF PendingIn
  <2>4. QED
    BY <2>2, <2>3
<1>8. MembersFollow'
  BY <1>1, <1>4, <1>5, <1>7, UpdateMembers DEF IInv
<1>9. RootEffective' /\ ParentsMade'
  BY <1>1, <1>4 DEF Update, IInv, RootEffective, ParentsMade, TypeOK
<1>10. ASSUME NEW k \in 1..Len(stack')
       PROVE  /\ stack'[k].at # "put"
              /\ stack'[k].at = "update" => \A d \in stack'[k].todo : Parent[d] = stack'[k].node
  <2>1. CASE stack'[k].at = "fire"
    BY <2>1
  <2>2. CASE k = Len(stack)
    BY <1>1, <1>3, <1>5, <1>6, <2>2 DEF IInv, UpdatesChildren
  <2>3. CASE k \in 1..(Len(stack) - 1)
    BY <1>2, <1>3, <1>5, <1>6, <2>3 DEF IInv, UpdatesChildren, NoPut
  <2>4. QED
    BY <1>3, <1>6, <2>1, <2>2, <2>3
<1>11. QED
  BY <1>8, <1>9, <1>10 DEF IInv, UpdatesChildren, PutIsInnermost

LEMMA BuildMemberInherit ==
  ASSUME TypeOK, IInv, NEW c \in Node, BuildMember(c)
  PROVE  IInv'
<1> DEFINE s == Append(Rest(Name[c]), Call("put", c, {}))
<1> DEFINE new == GetEffective(eff[Parent[c]], PlanMode[c])
<1>1. /\ stack # <<>> /\ Top.at = "sync" /\ Parent[c] = Top.node /\ c \notin made
      /\ made' = made \cup {c} /\ member' = member /\ mode' = [mode EXCEPT ![c] = PlanMode[c]]
      /\ Update(c, new, s)
  BY DEF BuildMember, In
<1>2. c # Root /\ Parent[c] \in made /\ Parent[c] # c /\ c \notin member
  BY <1>1, BelowShape DEF TypeOK
<1>3. NoPut /\ Len(stack) \in Nat \ {0} /\ Top = stack[Len(stack)]
  BY <1>1, TopNoPut, BelowShape DEF IInv
<1>4. /\ Rest(Name[c]) \in Seq(Frame) /\ Len(Rest(Name[c])) = Len(stack)
      /\ \A k \in 1..(Len(stack) - 1) : Rest(Name[c])[k] = stack[k]
      /\ Rest(Name[c])[Len(stack)].at = "sync"
  BY <1>1, RestShape
<1>5. /\ Call("put", c, {}) \in Frame /\ Call("put", c, {}).at = "put"
      /\ Call("put", c, {}).node = c /\ Call("put", c, {}).todo = {}
  BY FrameType
<1>6. /\ s \in Seq(Frame) /\ Len(s) = Len(stack) + 1
      /\ \A k \in 1..(Len(stack) - 1) : s[k] = stack[k]
      /\ s[Len(stack)].at = "sync"
      /\ s[Len(stack) + 1] = Call("put", c, {})
  BY <1>3, <1>4, <1>5, PushFrame
<1> HIDE DEF s, new
<1>7. /\ \A k \in 1..Len(s) : stack'[k] = s[k]
      /\ \/ Len(stack') = Len(s)
         \/ /\ Len(stack') = Len(s) + 1
            /\ stack'[Len(stack')].at = "fire" /\ stack'[Len(stack')].node = c
  BY <1>1, <1>6, UpdateShape
<1>8. ASSUME NEW d \in member, Pending(d) PROVE PendingIn(s, d)
  <2>1. PICK k \in 1..Len(stack) : /\ stack[k].node = Parent[d]
                                   /\ stack[k].at = "fire" \/ (stack[k].at = "update" /\ d \in stack[k].todo)
    BY <1>8 DEF Pending
  <2>2. k # Len(stack)
    BY <1>1, <1>3, <2>1
  <2>3. s[k] = stack[k] /\ k \in 1..Len(s)
    BY <1>3, <1>6, <2>2
  <2>4. QED
    BY <2>1, <2>3 DEF PendingIn
<1>9. MembersFollow'
  <2>1. \A d \in Node \ {c} : mode'[d] = mode[d]
    BY <1>1 DEF TypeOK
  <2>2. QED
    BY <1>1, <1>2, <1>6, <1>8, <2>1, UpdateMembers DEF IInv, new
<1>10. RootEffective' /\ ParentsMade'
  BY <1>1, <1>2 DEF Update, IInv, RootEffective, ParentsMade, TypeOK
<1>11. ASSUME NEW k \in 1..Len(stack')
       PROVE  \/ k \in 1..(Len(stack) - 1) /\ stack'[k] = stack[k]
              \/ stack'[k].at \in {"sync", "fire"}
              \/ k = Len(stack) + 1 /\ stack'[k] = Call("put", c, {})
  BY <1>3, <1>6, <1>7
<1>12. UpdatesChildren'
  BY <1>3, <1>5, <1>11 DEF IInv, UpdatesChildren
<1>13. PutIsInnermost'
  <2>1. ASSUME NEW k \in 1..Len(stack'), stack'[k].at = "put"
        PROVE  /\ k = Len(stack) + 1 /\ stack'[k].node = c /\ stack'[k].todo = {}
    BY <1>3, <1>5, <1>11, <2>1 DEF NoPut
  <2>2. eff'[c] = GetEffective(eff'[Parent[c]], mode'[c])
    BY <1>1, <1>2 DEF Update, TypeOK, new
  <2>3. \A d \in member : d # c /\ Parent[d] # c
    BY <1>1, <1>2 DEF IInv, ParentsMade, TypeOK
  <2>4. \/ Len(stack') = Len(stack) + 1
        \/ /\ Len(stack') = Len(stack) + 2
           /\ stack'[Len(stack')].node = c /\ stack'[Len(stack')].at = "fire"
    BY <1>3, <1>6, <1>7
  <2>5. QED
    BY <1>1, <1>3, <2>1, <2>2, <2>3, <2>4 DEF PutIsInnermost, Follows, Top
<1>14. QED
  BY <1>9, <1>10, <1>12, <1>13 DEF IInv

LEMMA PutMemberInherit ==
  ASSUME TypeOK, IInv, PutMember
  PROVE  IInv'
<1>1. /\ stack # <<>> /\ Top.at = "put" /\ made' = made /\ mode' = mode /\ eff' = eff
      /\ member' \subseteq member \cup {Top.node}
      /\ stack' = Append(Below, Call("added", Top.node, {}))
  BY DEF PutMember, In
<1>2. /\ Len(stack) \in Nat \ {0} /\ Top = stack[Len(stack)] /\ Top.node \in Node
      /\ Len(stack) \in 1..Len(stack)
  BY <1>1, BelowShape DEF TypeOK
<1>3. /\ Len(stack') = Len(stack)
      /\ \A k \in 1..(Len(stack) - 1) : stack'[k] = stack[k]
      /\ stack'[Len(stack)].at = "added"
  <2>1. Call("added", Top.node, {}) \in Frame /\ Call("added", Top.node, {}).at = "added"
    BY <1>2, FrameType
  <2>2. QED
    BY <1>1, <1>2, <2>1, BelowShape, PushFrame
<1>4. Follows(Top.node)
  BY <1>1, <1>2 DEF IInv, PutIsInnermost
<1>5. \A k \in 1..(Len(stack) - 1) : stack[k].at # "put"
  BY <1>1, <1>2 DEF IInv, PutIsInnermost
<1>6. MembersFollow'
  <2>1. ASSUME NEW c \in member, Pending(c) PROVE Pending(c)'
    <3>1. PICK k \in 1..Len(stack) : /\ stack[k].node = Parent[c]
                                     /\ stack[k].at = "fire" \/ (stack[k].at = "update" /\ c \in stack[k].todo)
      BY <2>1 DEF Pending
    <3>2. k # Len(stack)
      BY <1>1, <1>2, <3>1
    <3>3. k \in 1..Len(stack') /\ stack'[k] = stack[k]
      BY <1>2, <1>3, <3>2
    <3>4. QED
      BY <3>1, <3>3, PendingKept
  <2>2. \A c \in member \cup {Top.node} : Follows(c) \/ Pending(c)'
    BY <1>4, <2>1 DEF IInv, MembersFollow
  <2>3. \A c : Follows(c) => (eff'[c] = GetEffective(eff'[Parent[c]], mode'[c]))
    BY <1>1 DEF Follows
  <2>4. QED
    BY <1>1, <2>2, <2>3 DEF MembersFollow, Follows
<1>7. ASSUME NEW k \in 1..Len(stack')
      PROVE  stack'[k].at = "added" \/ (k \in 1..(Len(stack) - 1) /\ stack'[k] = stack[k])
  BY <1>2, <1>3
<1>8. UpdatesChildren' /\ PutIsInnermost'
  BY <1>2, <1>5, <1>7 DEF IInv, UpdatesChildren, PutIsInnermost
<1>9. RootEffective' /\ ParentsMade'
  BY <1>1 DEF IInv, RootEffective, ParentsMade
<1>10. QED
  BY <1>6, <1>8, <1>9 DEF IInv

LEMMA ListenersReturnInherit ==
  ASSUME TypeOK, IInv, ListenersReturn
  PROVE  IInv'
<1> DEFINE f == Call("update", Top.node, Children(Top.node))
<1>1. /\ stack # <<>> /\ Top.at = "fire" /\ stack' = Append(Below, f)
      /\ made' = made /\ member' = member /\ mode' = mode /\ eff' = eff
  BY DEF ListenersReturn, In
<1>2. /\ Len(stack) \in Nat \ {0} /\ Top = stack[Len(stack)] /\ Top.node \in Node
      /\ Len(stack) \in 1..Len(stack)
  BY <1>1, BelowShape DEF TypeOK
<1>3. f \in Frame /\ f.at = "update" /\ f.node = Top.node /\ f.todo = Children(Top.node)
  <2>1. Children(Top.node) \in SUBSET (Node \cup Names)
    BY DEF Children, TypeOK
  <2>2. QED
    BY <1>2, <2>1, FrameType
<1> HIDE DEF f
<1>4. /\ Len(stack') = Len(stack)
      /\ \A k \in 1..(Len(stack) - 1) : stack'[k] = stack[k]
      /\ stack'[Len(stack)] = f
  BY <1>1, <1>2, <1>3, BelowShape, PushFrame
<1>5. MembersFollow'
  <2>1. ASSUME NEW c \in member, Pending(c) PROVE Pending(c)'
    <3>1. PICK k \in 1..Len(stack) : /\ stack[k].node = Parent[c]
                                     /\ stack[k].at = "fire" \/ (stack[k].at = "update" /\ c \in stack[k].todo)
      BY <2>1 DEF Pending
    <3>2. CASE k # Len(stack)
      <4>1. k \in 1..Len(stack') /\ stack'[k] = stack[k]
        BY <1>2, <1>4, <3>2
      <4>2. QED
        BY <3>1, <4>1, PendingKept
    <3>3. CASE k = Len(stack)
      <4>1. c \in f.todo /\ f.node = Parent[c]
        BY <1>2, <1>3, <3>1, <3>3 DEF Children
      <4>2. QED
        BY <1>2, <1>3, <1>4, <4>1 DEF Pending
    <3>4. QED
      BY <3>2, <3>3
  <2>2. \A c \in member : Follows(c) => (eff'[c] = GetEffective(eff'[Parent[c]], mode'[c]))
    BY <1>1 DEF Follows
  <2>3. QED
    BY <1>1, <2>1, <2>2 DEF IInv, MembersFollow, Follows
<1>6. ASSUME NEW k \in 1..Len(stack')
      PROVE  (k = Len(stack) /\ stack'[k] = f) \/ (k \in 1..(Len(stack) - 1) /\ stack'[k] = stack[k])
  BY <1>2, <1>4
<1>7. UpdatesChildren'
  BY <1>2, <1>3, <1>6 DEF IInv, UpdatesChildren, Children
<1>8. PutIsInnermost'
  <2>1. ASSUME NEW k \in 1..Len(stack'), stack'[k].at = "put"
        PROVE  /\ eff[stack[k].node] = GetEffective(eff[Parent[stack[k].node]], mode[stack[k].node])
               /\ stack'[k] = stack[k] /\ stack[k].todo = {} /\ k = Len(stack') - 1
               /\ \A d \in member : d # stack[k].node /\ Parent[d] # stack[k].node
               /\ f.node = stack[k].node /\ f.todo = {}
    <3>1. k \in 1..(Len(stack) - 1) /\ stack'[k] = stack[k]
      BY <1>3, <1>6, <2>1
    <3>2. QED
      BY <1>2, <1>3, <1>4, <2>1, <3>1 DEF IInv, PutIsInnermost, Follows, Children
  <2>2. QED
    BY <1>1, <1>2, <1>3, <1>4, <2>1 DEF PutIsInnermost, Follows, Top
<1>9. RootEffective' /\ ParentsMade'
  BY <1>1 DEF IInv, RootEffective, ParentsMade
<1>10. QED
  BY <1>5, <1>7, <1>8, <1>9 DEF IInv

-----------------------------------------------------------------------------
LEMMA InitInherit == Init => IInv
<1> SUFFICES ASSUME Init PROVE IInv
  OBVIOUS
<1>1. Len(stack) = 0
  BY DEF Init
<1>2. RootEffective
  BY DEF Init, RootEffective, ToEffective
<1>3. QED
  BY <1>1, <1>2 DEF Init, IInv, ParentsMade, MembersFollow, UpdatesChildren, PutIsInnermost

LEMMA StutterInherit ==
  ASSUME IInv, UNCHANGED vars
  PROVE  IInv'
BY DEF vars, IInv, RootEffective, ParentsMade, MembersFollow, UpdatesChildren,
       PutIsInnermost, Follows, Pending, Top

LEMMA NextInherit ==
  ASSUME "built" \notin ReactsTo
  PROVE  TypeOK /\ IInv /\ [Next]_vars => IInv'
<1> SUFFICES ASSUME TypeOK, IInv, [Next]_vars PROVE IInv'
  OBVIOUS
<1>1. ASSUME NEW n \in Node, SetValue(n) PROVE IInv'
  BY <1>1, SetValueInherit
<1>2. ASSUME NEW n \in Node, NEW m \in UserModes, SetEntryMode(n, m) PROVE IInv'
  BY <1>2, SetEntryModeInherit
<1>3. ASSUME NEW c \in Node, UpdateChild(c) PROVE IInv'
  BY <1>3, UpdateChildInherit
<1>4. ASSUME NEW c \in Node, SyncOldMember(c) \/ RemoveMember(c) PROVE IInv'
  BY <1>4, LoopInherit
<1>5. ASSUME NEW c \in Node, BuildMember(c) PROVE IInv'
  BY <1>5, BuildMemberInherit
<1>6. CASE ListenersReturn
  BY <1>6, ListenersReturnInherit
<1>7. CASE PutMember
  BY <1>7, PutMemberInherit
<1>8. CASE AddedMember
  BY <1>8, LoopInherit
<1>9. CASE Return
  BY <1>9, ReturnInherit
<1>10. CASE UNCHANGED vars
  BY <1>10, StutterInherit
<1>11. QED
  BY <1>1, <1>2, <1>3, <1>4, <1>5, <1>6, <1>7, <1>8, <1>9, <1>10 DEF Next

(* The code's own terms and EntryMode's ranking say the same. *)
LEMMA IInvMeaning == TypeOK /\ IInv => MembersInherit
<1> SUFFICES ASSUME TypeOK, IInv PROVE MembersInherit
  OBVIOUS
<1>1. RootFollowsMode
  BY RootMode DEF IInv, RootEffective, RootFollowsMode, TypeOK
<1>2. ASSUME NEW c \in member PROVE Inherits(c) \/ Pending(c)
  <2>1. c \in Node /\ Parent[c] \in Node
    BY DEF TypeOK
  <2>2. eff[c] \in EffectiveMode /\ eff[Parent[c]] \in EffectiveMode /\ mode[c] \in EntryMode
    BY <2>1 DEF TypeOK
  <2>3. Follows(c) => Inherits(c)
    BY <2>2, EffectiveIsStricter DEF Follows, Inherits
  <2>4. QED
    BY <2>3 DEF IInv, MembersFollow
<1>3. QED
  BY <1>1, <1>2 DEF MembersInherit

(* Whatever listeners call when told of a mode, of a member added or of one *)
(* removed, each member has the mode its parent's and its own demand, or a  *)
(* call in progress will give it.  The assumption leaves out what listeners *)
(* call when told of a node that is still being built, of which the code    *)
(* tells them as well (NodeModel.java:74 and 151).                          *)
THEOREM InheritanceCorrect ==
  ASSUME "built" \notin ReactsTo
  PROVE  Spec => []MembersInherit
<1>1. Init => TypeOK /\ IInv
  BY InitType, InitInherit
<1>2. TypeOK /\ IInv /\ [Next]_vars => (TypeOK /\ IInv)'
  BY NextType, NextInherit
<1>3. TypeOK /\ IInv => MembersInherit
  BY IInvMeaning
<1>4. QED
  BY <1>1, <1>2, <1>3, PTL DEF Spec
=============================================================================
