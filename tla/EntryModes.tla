------------------------------ MODULE EntryModes ------------------------------
(***************************************************************************)
(* org.plcore.userio.model: the tree of node models of a data entry form   *)
(* and the effective entry mode of each node.                              *)
(*                                                                         *)
(* The code is single-threaded, but it calls listeners in the middle of    *)
(* its work, and a listener may call the model again.  `stack' holds the   *)
(* calls that have not returned: a frame names the method it is in (`at'), *)
(* the node it works on and what its loop has still to visit.  Between two *)
(* callbacks the code runs undisturbed, so an action is the stretch of     *)
(* code from one point where others may act to the next.                   *)
(***************************************************************************)
EXTENDS Integers, Sequences

CONSTANTS
  Node,        \* node models, those not yet built included
  Root,        \* the entity model
  Container,   \* the name-mapped models among them
  Parent,      \* the container a node is built for
  Name,        \* the plan's name of a node within its parent
  PlanMode,    \* the entry mode its plan gives it
  UserModes,   \* the modes that users of the model set
  ReactsTo,    \* events some listener answers with a call of the model:
               \* "mode", "built" (a mode event of a node being built),
               \* "added", "removed"
  MaxCalls     \* bound: calls of the model by its users and listeners

EntryMode     == {"UNSPECIFIED", "ENABLED", "DISABLED", "VIEW", "HIDDEN"}
EffectiveMode == {"ENABLED", "DISABLED", "VIEW", "HIDDEN"}
Names         == {Name[n] : n \in Node}

ASSUME TreeAssumption ==
  /\ Root \in Container
  /\ Container \subseteq Node
  /\ Parent \in [Node \ {Root} -> Container]
  /\ \A n \in Node \ {Root} : Parent[n] # n
  /\ PlanMode \in [Node -> EntryMode]
  /\ UserModes \subseteq EntryMode
  /\ MaxCalls \in Nat

VARIABLES
  made,     \* nodes built so far
  member,   \* nodes in the members map of their parent
  mode,     \* entryMode
  eff,      \* effectiveEntryMode
  stack,    \* calls in progress, the innermost last
  calls     \* bounded counter

vars == <<made, member, mode, eff, stack, calls>>

Frame == [at : {"fire", "update", "put", "added", "removed", "sync", "clear"},
          node : Node, todo : SUBSET (Node \cup Names)]

TypeOK ==
  /\ made \subseteq Node /\ Root \in made
  /\ member \subseteq made \ {Root}
  /\ mode \in [Node -> EntryMode]
  /\ eff \in [Node -> EffectiveMode]
  /\ stack \in Seq(Frame)
  /\ \A i \in 1..Len(stack) :
       /\ stack[i].node \in made
       /\ stack[i].at \in {"put", "added"} => stack[i].node # Root
       /\ stack[i].at \in {"sync", "clear"} => stack[i].node \in Container
       /\ stack[i].at = "update" => stack[i].todo \subseteq made \ {Root}
  /\ calls \in 0..MaxCalls

Init ==
  /\ made = {Root}
  /\ member = {}
  /\ mode = [n \in Node |-> "UNSPECIFIED"]
  /\ eff = [n \in Node |-> "ENABLED"]
  /\ stack = <<>>
  /\ calls = 0

-----------------------------------------------------------------------------
Call(at, n, todo) == [at |-> at, node |-> n, todo |-> todo]
Top     == stack[Len(stack)]
Below   == SubSeq(stack, 1, Len(stack) - 1)
In(at)  == stack # <<>> /\ Top.at = at
Rest(x) == Append(Below, Call(Top.at, Top.node, Top.todo \ {x}))

Children(n)    == {c \in member : Parent[c] = n}
MemberNames(n) == {Name[c] : c \in {d \in Node \ {Root} : Parent[d] = n}}

ToEffective(m) == IF m = "UNSPECIFIED" THEN "ENABLED" ELSE m

SlipGetEffective(parentMode, m) ==  \* a view-only field of a disabled form
  CASE parentMode = "ENABLED"  -> ToEffective(m)
    [] parentMode = "DISABLED" -> IF m = "HIDDEN" THEN m ELSE "DISABLED"
    [] parentMode = "VIEW"     -> IF m = "HIDDEN" THEN m ELSE "VIEW"
    [] OTHER                   -> "HIDDEN"

GetEffective(parentMode, m) ==
  CASE parentMode = "ENABLED"  -> ToEffective(m)
    [] parentMode = "DISABLED" -> IF m \in {"HIDDEN", "VIEW"} THEN m ELSE "DISABLED"
    [] parentMode = "VIEW"     -> IF m = "HIDDEN" THEN m ELSE "VIEW"
    [] OTHER                   -> "HIDDEN"

(* A caller is a user while no call is in progress, or a listener.          *)
Callable ==
  \/ stack = <<>>
  \/ In("fire") /\ IF \E i \in 1..Len(stack) : stack[i] = Call("put", Top.node, {})
                     THEN "built" \in ReactsTo ELSE "mode" \in ReactsTo
  \/ In("added") /\ "added" \in ReactsTo
  \/ In("removed") /\ "removed" \in ReactsTo

UserCall == Callable /\ calls < MaxCalls /\ calls' = calls + 1

(* Node n gets a new mode; the listeners are called only if it is another.  *)
Update(n, newMode, rest) ==
  /\ eff' = [eff EXCEPT ![n] = newMode]
  /\ stack' = IF newMode = eff[n] THEN rest ELSE Append(rest, Call("fire", n, {}))

SetEntryMode(n, m) ==
  /\ UserCall
  /\ n \in made
  /\ mode' = [mode EXCEPT ![n] = m]
  /\ Update(n, GetEffective(IF n = Root THEN ToEffective(m) ELSE eff[Parent[n]], m), stack)
  /\ UNCHANGED <<made, member>>

(* Once the listeners of the node and of its ancestors have returned, the   *)
(* new mode, as it is by then, goes to each node that is now a child.       *)
ListenersReturn ==
  /\ In("fire")
  /\ stack' = Append(Below, Call("update", Top.node, Children(Top.node)))
  /\ UNCHANGED <<made, member, mode, eff, calls>>

UpdateChild(c) ==
  /\ In("update")
  /\ c \in Top.todo
  /\ Update(c, GetEffective(eff[Top.node], mode[c]), Rest(c))
  /\ UNCHANGED <<made, member, mode, calls>>

-----------------------------------------------------------------------------
(* setValue and syncValue: a null value clears the members map, any other   *)
(* value builds the members that are missing and then goes to each of them. *)

SlipSetValue(n) ==  \* an item is given members
  /\ UserCall
  /\ n \in made
  /\ \E at \in {"sync", "clear"} : stack' = Append(stack, Call(at, n, MemberNames(n)))
  /\ UNCHANGED <<made, member, mode, eff>>

SetValue(n) ==
  /\ UserCall
  /\ n \in made \cap Container
  /\ \E at \in {"sync", "clear"} : stack' = Append(stack, Call(at, n, MemberNames(n)))
  /\ UNCHANGED <<made, member, mode, eff>>

(* The new value of a member: not visited when its plan is view-only or it  *)
(* is an item, otherwise null or not null.                                  *)
SyncMember(c, rest) ==
  \/ stack' = rest
  \/ /\ c \in Container
     /\ \E at \in {"sync", "clear"} : stack' = Append(rest, Call(at, c, MemberNames(c)))

SyncOldMember(c) ==
  /\ In("sync")
  /\ c \in Children(Top.node) /\ Name[c] \in Top.todo
  /\ SyncMember(c, Rest(Name[c]))
  /\ UNCHANGED <<made, member, mode, eff, calls>>

(* buildNodeModel gives the new node its parent and its plan's mode while   *)
(* it is not yet in the members map.                                        *)
BuildMember(c) ==
  /\ In("sync")
  /\ c \in Node \ made
  /\ Parent[c] = Top.node /\ Name[c] \in Top.todo
  /\ \A d \in Children(Top.node) : Name[d] # Name[c]
  /\ made' = made \cup {c}
  /\ mode' = [mode EXCEPT ![c] = PlanMode[c]]
  /\ Update(c, GetEffective(eff[Parent[c]], PlanMode[c]),
            Append(Rest(Name[c]), Call("put", c, {})))
  /\ UNCHANGED <<member, calls>>

PutMember ==
  /\ In("put")
  /\ member' = {d \in member : Parent[d] # Parent[Top.node] \/ Name[d] # Name[Top.node]}
                  \cup {Top.node}
  /\ stack' = Append(Below, Call("added", Top.node, {}))
  /\ UNCHANGED <<made, mode, eff, calls>>

AddedMember ==
  /\ In("added")
  /\ SyncMember(Top.node, Below)
  /\ UNCHANGED <<made, member, mode, eff, calls>>

RemoveMember(c) ==
  /\ In("clear")
  /\ c \in Children(Top.node) /\ Name[c] \in Top.todo
  /\ member' = member \ {c}
  /\ stack' = Append(Rest(Name[c]), Call("removed", c, {}))
  /\ UNCHANGED <<made, mode, eff, calls>>

(* A loop ends when nothing it has still to visit is left.                  *)
Return ==
  /\ \/ In("update") /\ Top.todo = {}
     \/ In("sync") /\ Top.todo = {}
     \/ In("clear") /\ \A c \in Children(Top.node) : Name[c] \notin Top.todo
     \/ In("removed")
  /\ stack' = Below
  /\ UNCHANGED <<made, member, mode, eff, calls>>

Next ==
  \/ \E n \in Node : SetValue(n) \/ \E m \in UserModes : SetEntryMode(n, m)
  \/ \E c \in Node : UpdateChild(c) \/ SyncOldMember(c) \/ BuildMember(c) \/ RemoveMember(c)
  \/ ListenersReturn \/ PutMember \/ AddedMember \/ Return

Spec == Init /\ [][Next]_vars

-----------------------------------------------------------------------------
Rank(m) ==
  CASE m = "DISABLED" -> 1 [] m = "VIEW" -> 2 [] m = "HIDDEN" -> 3 [] OTHER -> 0

(* EntryMode's ranking: a node is as restricted as its parent and its own   *)
(* mode demand, and no more.                                                *)
Inherits(c) ==
  Rank(eff[c]) = IF Rank(mode[c]) > Rank(eff[Parent[c]]) THEN Rank(mode[c])
                 ELSE Rank(eff[Parent[c]])

RootFollowsMode == Rank(eff[Root]) = Rank(mode[Root])

(* A call in progress will still give c the mode of its parent.             *)
Pending(c) ==
  \E i \in 1..Len(stack) :
    /\ stack[i].node = Parent[c]
    /\ \/ stack[i].at = "fire"
       \/ stack[i].at = "update" /\ c \in stack[i].todo

(* At any moment each member of the tree inherits, or a call in progress    *)
(* will see to it, whatever listeners of nodes of the tree call meanwhile;   *)
(* what listeners of nodes that are still being built (ReactsTo "built")     *)
(* would call is not covered, although the code tells those too.             *)
MembersInherit ==
  /\ RootFollowsMode
  /\ \A c \in member : Inherits(c) \/ Pending(c)
=============================================================================
