------------------------------- MODULE FormPage -------------------------------
(***************************************************************************)
(* The entry form of a web page (domEdit.js, ws.js), the items and the     *)
(* state machine it shows (ItemModel, StateMachine), and the WebSocket     *)
(* between them.                                                           *)
(*                                                                         *)
(* The server tells the page of every change with the calls domEdit.js     *)
(* answers, and the page tells the server what the user types and clicks;  *)
(* both sides go on while messages are under way, in order each way.  The  *)
(* server's listener, which turns an event of the models into the call of  *)
(* the same meaning, is not in the repository: listener 1 of the machine   *)
(* and the one listener of every item are taken to be it.                  *)
(***************************************************************************)
EXTENDS StateMachine, FiniteSets, SequencesExt

CONSTANTS
  Item,         \* items of the form
  Order,        \* the data-order of each, as digits
  Text,         \* what can be in an input field
  BadText,      \* those that do not convert to a value
  Blank,        \* what a field starts with
  FirstButton,  \* the first button.action of the form, START_ADD
  AlwaysShown,  \* buttons with data-show="always"
  MaxEdits      \* bound: what the application and the user do

Mode   == {"HIDDEN", "VIEW", "ENABLED", "DISABLED"}
Source == {"conversion", "validation"}

ASSUME FormAssumption ==
  /\ IsFiniteSet(Item)
  /\ Order \in [Item -> Seq(0..9)]
  /\ \A i, j \in Item : Order[i] = Order[j] => i = j
  /\ BadText \subseteq Text
  /\ Blank \in Text \ BadText
  /\ FirstButton \in AlwaysShown
  /\ AlwaysShown \subseteq Action
  /\ MaxEdits \in Nat

VARIABLES
  built,     \* items that have a model
  source,    \* currentSource of each
  errors,    \* the sources in validationErrors of each
  mode,      \* effective entry mode of each
  again,     \* history: items rendered again since they were added
  link,      \* readyState
  toPage,    \* messages under way
  toServer,
  rows,      \* the rows of the form that show an item
  loose,     \* items with an input field for entry outside any row
  hidden,    \* buttons with class hidden
  disabled,  \* buttons that are disabled
  edits      \* bounded counter

itemVars == <<built, source, errors, mode, again>>
pageVars == <<rows, loose, hidden, disabled>>
vars == <<machineVars, itemVars, link, toPage, toServer, pageVars, edits>>

Row == [item : Item, value : Text, status : BOOLEAN, mode : Mode, readonly : BOOLEAN,
        cells : BOOLEAN]  \* whether it has a td.input

ButtonCall == [call : {"changeAction"}, name : Action, available : BOOLEAN]

ItemCall ==
  [call : {"syncChildren", "replaceNode"}, item : Item, value : Text, mode : Mode]
    \cup [call : {"deleteNodes", "noteError", "clearError"}, item : Item]
    \cup [call : {"setValue"}, item : Item, value : Text]
    \cup [call : {"setEntryMode"}, item : Item, mode : Mode]

ToPage == ButtonCall \cup ItemCall

(* StringType.html gives the input field no value. *)
OfItem(c, i)    == [call |-> c, item |-> i]
Render(c, i, m) == [call |-> c, item |-> i, value |-> Blank, mode |-> m]
SetValue(i, t)  == [call |-> "setValue", item |-> i, value |-> t]

ToServer == [command : {"click"}, name : Action]
              \cup [command : {"input"}, item : Item, value : Text]

TypeOK ==
  /\ MachineTypeOK
  /\ built \subseteq Item
  /\ source \in [Item -> Text]
  /\ errors \in [Item -> SUBSET Source]
  /\ mode \in [Item -> Mode]
  /\ again \subseteq built
  /\ link \in {"CONNECTING", "OPEN", "CLOSED"}
  /\ toPage \in Seq(ToPage)
  /\ toServer \in Seq(ToServer)
  /\ rows \in Seq(Row)
  /\ loose \subseteq Item
  /\ hidden \subseteq Action \ AlwaysShown
  /\ disabled \subseteq Action
  /\ edits \in 0..MaxEdits

(* What an item starts with, and what stands for one without a model. *)
NoModel == [source |-> Blank, errors |-> {}, mode |-> "ENABLED"]

(* The page as the template renders it, without items. *)
Init ==
  /\ MachineInit
  /\ built = {}
  /\ source = [i \in Item |-> NoModel.source]
  /\ errors = [i \in Item |-> NoModel.errors]
  /\ mode = [i \in Item |-> NoModel.mode]
  /\ again = {}
  /\ link = "CONNECTING"
  /\ toPage = <<>> /\ toServer = <<>>
  /\ rows = <<>> /\ loose = {}
  /\ hidden = Action \ AlwaysShown
  /\ disabled = {}
  /\ edits = 0

Edit == edits < MaxEdits /\ edits' = edits + 1

------------------------------------------------------------------------------
(* The WebSocket: what is sent while it is not open goes nowhere, and what  *)
(* is under way when it closes is lost.                                     *)
Send(messages) == toPage' = IF link = "OPEN" THEN toPage \o messages ELSE toPage
SendServer(message) ==
  toServer' = IF link = "OPEN" THEN Append(toServer, message) ELSE toServer

(* The session starts with the items the form has from the start. *)
OpenWebSocket ==
  /\ link = "CONNECTING"
  /\ link' = "OPEN"
  /\ built' \in {{}, Item}
  /\ toPage' = SetToSeq({Render("syncChildren", i, mode[i]) : i \in built'})
  /\ UNCHANGED <<machineVars, source, errors, mode, again, toServer, pageVars, edits>>

CloseWebSocket ==
  /\ link = "OPEN"
  /\ link' = "CLOSED"
  /\ toPage' = <<>> /\ toServer' = <<>>
  /\ UNCHANGED <<machineVars, itemVars, pageVars, edits>>

------------------------------------------------------------------------------
(* The server's state machine, which lives while the session is open. *)
OnServer(A) == link = "OPEN" /\ A /\ UNCHANGED <<itemVars, link, toServer, pageVars, edits>>

StartMachine == OnServer(Start /\ UNCHANGED toPage)
AdvanceMachine == OnServer(Advance /\ UNCHANGED toPage)
AnswerCall == OnServer(Answer /\ UNCHANGED toPage)
EndCall == OnServer((Told \/ Return) /\ UNCHANGED toPage)

ChangeAction(a, on) == [call |-> "changeAction", name |-> a, available |-> on]

TellListener(k) ==
  \E n \in 1..(2 * Count) :
    OnServer(/\ TellAt(k, n)
             /\ IF k = 1 THEN Send(<<ChangeAction(ActionAt(n), n > Count)>>)
                         ELSE UNCHANGED toPage)

------------------------------------------------------------------------------
(* The server's items. *)
(* The items live while the session is open. *)
OnItems(A) ==
  link = "OPEN" /\ Edit /\ A /\ UNCHANGED <<machineVars, link, toServer, pageVars>>

(* A new model: no value, and no error of one that had its place is left. *)
AddItem(i) ==
  OnItems(
    /\ i \notin built
    /\ built' = built \cup {i}
    /\ source' = [source EXCEPT ![i] = NoModel.source]
    /\ errors' = [errors EXCEPT ![i] = NoModel.errors]
    /\ \E m \in Mode :
         /\ mode' = [mode EXCEPT ![i] = m]
         /\ Send(<<Render("syncChildren", i, m)>>)
    /\ UNCHANGED again)

(* removeItemEventListener asks clearError for the errors, not for their    *)
(* sources, which finds none of them and tells nobody.                      *)
RemoveItem(i) ==
  OnItems(
    /\ i \in built
    /\ built' = built \ {i}
    /\ source' = [source EXCEPT ![i] = NoModel.source]
    /\ errors' = [errors EXCEPT ![i] = NoModel.errors]
    /\ mode' = [mode EXCEPT ![i] = NoModel.mode]
    /\ again' = again \ {i}
    /\ Send(<<OfItem("deleteNodes", i)>>))

RenderItem(i) ==
  OnItems(
    /\ i \in built
    /\ again' = again \cup {i}
    /\ UNCHANGED <<built, source, errors, mode>>
    /\ \E c \in {"syncChildren", "replaceNode"} : Send(<<Render(c, i, mode[i])>>))

Clears(i)  == errors[i] # {} /\ errors'[i] = {}
Cleared(i) == IF Clears(i) THEN <<OfItem("clearError", i)>> ELSE <<>>

(* noteConversionError: the validation error of i goes, with those of the   *)
(* same method on the other items; they are told when they have none left.  *)
NoteConversionError(i) ==
  errors' = [j \in Item |->
    LET left == IF j \in built /\ "validation" \in errors[i]
                THEN errors[j] \ {"validation"} ELSE errors[j]
    IN IF j = i THEN left \cup {"conversion"} ELSE left]

ClearedOthers(i) ==
  SetToSeq({OfItem("clearError", j) : j \in {k \in Item \ {i} : Clears(k)}})

SlipSetSource(i, t) ==
  /\ source' = [source EXCEPT ![i] = t]
  /\ UNCHANGED <<built, mode, again>>
  /\ IF t \in BadText THEN NoteConversionError(i)
                      ELSE errors' = [errors EXCEPT ![i] = @ \ {"conversion"}]
  /\ Send((IF t = source[i] THEN <<>> ELSE <<SetValue(i, t)>>)
            \o (IF t \in BadText THEN <<OfItem("noteError", i)>> ELSE Cleared(i)))

(* setValueFromSource and, for a text that converts, setValue. *)
SetSource(i, t) ==
  /\ source' = [source EXCEPT ![i] = t]
  /\ UNCHANGED <<built, mode, again>>
  /\ IF t \in BadText THEN NoteConversionError(i)
                      ELSE errors' = [errors EXCEPT ![i] = @ \ {"conversion"}]
  /\ Send((IF t = source[i] THEN <<>> ELSE <<SetValue(i, t)>>)
            \o (IF t \in BadText THEN Append(ClearedOthers(i), OfItem("noteError", i))
                                 ELSE Cleared(i)))

SetItemValue(i) ==
  i \in built /\ OnItems(\E t \in Text \ BadText : SetSource(i, t))

(* Validation is not done while a text does not convert. *)
NoteValidationError(i) ==
  OnItems(
    /\ i \in built /\ "conversion" \notin errors[i]
    /\ errors' = [errors EXCEPT ![i] = @ \cup {"validation"}]
    /\ Send(<<OfItem("noteError", i)>>)
    /\ UNCHANGED <<built, source, mode, again>>)

ClearValidationError(i) ==
  OnItems(
    /\ i \in built /\ "validation" \in errors[i]
    /\ errors' = [errors EXCEPT ![i] = @ \ {"validation"}]
    /\ Send(Cleared(i))
    /\ UNCHANGED <<built, source, mode, again>>)

(* The effective mode of the item's node.  An item that is hidden keeps its  *)
(* errors: the listener that would clear them is not registered.            *)
ChangeMode(i) ==
  OnItems(
    /\ i \in built
    /\ \E m \in Mode \ {mode[i]} :
         /\ mode' = [mode EXCEPT ![i] = m]
         /\ Send(<<[call |-> "setEntryMode", item |-> i, mode |-> m]>>)
    /\ UNCHANGED <<built, source, errors, again>>)

(* doRequest: a click on an action with no transition throws, and input for *)
(* an item that is gone finds none.                                         *)
Receive ==
  /\ calls = <<>> /\ toServer # <<>>
  /\ toServer' = Tail(toServer)
  /\ LET m == Head(toServer)
     IN \/ /\ m.command = "click" /\ InvokeAction(m.name)
           /\ UNCHANGED <<itemVars, toPage>>
        \/ /\ m.command = "click" /\ ~Invokable(m.name)
           /\ UNCHANGED <<machineVars, itemVars, toPage>>
        \/ /\ m.command = "input" /\ m.item \in built
           /\ SetSource(m.item, m.value)
           /\ UNCHANGED machineVars
        \/ /\ m.command = "input" /\ m.item \notin built
           /\ UNCHANGED <<machineVars, itemVars, toPage>>
  /\ UNCHANGED <<link, pageVars, edits>>

------------------------------------------------------------------------------
(* The page. *)
RowsOf(i) == {n \in DOMAIN rows : rows[n].item = i}

(* The ids of rows differ, so that an item has at most one. *)
Without(i) ==
  IF RowsOf(i) = {} THEN rows ELSE RemoveAt(rows, CHOOSE n \in RowsOf(i) : TRUE)

Becomes(S, r(_)) ==
  rows' = [n \in DOMAIN rows |-> IF n \in S THEN r(rows[n]) ELSE rows[n]]

(* data-order and the order of a call are compared as strings. *)
After(a, b) ==
  \E n \in DOMAIN a :
    /\ n <= Len(b) + 1
    /\ \A m \in 1..(n - 1) : a[m] = b[m]
    /\ n <= Len(b) => a[n] > b[n]

(* A row with a newly rendered field, with the class of a mode. *)
RowFor(m, class, whole) ==
  [item |-> m.item, value |-> m.value, status |-> FALSE, mode |-> class,
   readonly |-> m.mode \in {"VIEW", "DISABLED"}, cells |-> whole]

RenderedRow(m) == RowFor(m, m.mode, TRUE)

SlipAddChildren(m) == rows' = Append(rows, RenderedRow(m))

(* Before the first row that comes after; at the end when none does. *)
AddChildren(m) ==
  LET later == {n \in DOMAIN rows : After(Order[rows[n].item], Order[m.item])}
      place == CHOOSE n \in later \cup {Len(rows) + 1} :
                 \A k \in later \cup {Len(rows) + 1} : n <= k
  IN rows' = InsertAt(rows, place, RenderedRow(m))

(* The row is parsed in a div, where its tr, th and td are dropped: the      *)
(* former row keeps its class and place and gets an input field with no     *)
(* td.input around it.                                                      *)
ReplaceChildren(m) ==
  Becomes(RowsOf(m.item), LAMBDA r : RowFor(m, r.mode, FALSE))

SyncChildren(m) == IF RowsOf(m.item) = {} THEN AddChildren(m) ELSE ReplaceChildren(m)

(* Likewise: the former row goes, and what is appended is no row. *)
ReplaceNode(m) ==
  /\ rows' = Without(m.item)
  /\ loose' = IF RowsOf(m.item) # {} /\ m.mode \notin {"VIEW", "DISABLED"}
              THEN loose \cup {m.item} ELSE loose

SlipChangeActionButtons(m) ==
  /\ disabled' = IF m.available THEN disabled \ {m.name} ELSE disabled \cup {m.name}
  /\ hidden' = IF m.available \/ m.name \in AlwaysShown THEN hidden ELSE hidden \cup {m.name}

SlipAlwaysShown(m) ==
  IF m.available
  THEN disabled' = disabled \ {m.name} /\ hidden' = hidden \ {m.name}
  ELSE disabled' = disabled \cup {m.name} /\ hidden' = hidden \cup {m.name}

ChangeActionButtons(m) ==
  IF m.available
  THEN disabled' = disabled \ {m.name} /\ hidden' = hidden \ {m.name}
  ELSE /\ disabled' = disabled \cup {m.name}
       /\ hidden' = IF m.name \in AlwaysShown THEN hidden ELSE hidden \cup {m.name}

(* adjustButton: the first action button of the form is disabled while an   *)
(* item shows an error.                                                     *)
AdjustButton ==
  disabled' = IF \E n \in DOMAIN rows' : rows'[n].status
              THEN disabled \cup {FirstButton} ELSE disabled \ {FirstButton}

(* setValue, noteError, clearError and setEntryMode throw, and do nothing,   *)
(* when the row has no td.input, and all but setEntryMode when there is none. *)
Whole(i) == {n \in RowsOf(i) : rows[n].cells}

ShowStatus(i, on) ==
  /\ Becomes(Whole(i), LAMBDA r : [r EXCEPT !.status = on])
  /\ IF Whole(i) = {} THEN UNCHANGED disabled ELSE AdjustButton

(* onmessage: the call a message names, with its arguments. *)
OnMessage(m) ==
  \/ m.call = "changeAction" /\ ChangeActionButtons(m) /\ UNCHANGED <<rows, loose>>
  \/ m.call = "syncChildren" /\ SyncChildren(m) /\ UNCHANGED <<loose, hidden, disabled>>
  \/ m.call = "replaceNode" /\ ReplaceNode(m) /\ UNCHANGED <<hidden, disabled>>
  \/ m.call = "deleteNodes" /\ rows' = Without(m.item) /\ UNCHANGED <<loose, hidden, disabled>>
  \/ m.call = "noteError" /\ ShowStatus(m.item, TRUE) /\ UNCHANGED <<loose, hidden>>
  \/ m.call = "clearError" /\ ShowStatus(m.item, FALSE) /\ UNCHANGED <<loose, hidden>>
  \/ /\ m.call = "setValue"
     /\ Becomes(Whole(m.item), LAMBDA r : [r EXCEPT !.value = m.value])
     /\ UNCHANGED <<loose, hidden, disabled>>
  \/ /\ m.call = "setEntryMode"
     /\ Becomes(Whole(m.item), LAMBDA r : [r EXCEPT !.mode = m.mode])
     /\ UNCHANGED <<loose, hidden, disabled>>

Deliver ==
  /\ toPage # <<>>
  /\ toPage' = Tail(toPage)
  /\ OnMessage(Head(toPage))
  /\ UNCHANGED <<machineVars, itemVars, link, toServer, edits>>

(* The user types in a row that shows and whose field was rendered for      *)
(* entry: setEntryMode changes classes, not the attributes of the field.    *)
Type(n) ==
  /\ Edit
  /\ n \in DOMAIN rows /\ rows[n].mode # "HIDDEN" /\ ~rows[n].readonly
  /\ \E t \in Text \ {rows[n].value} :
       /\ rows' = [rows EXCEPT ![n].value = t]
       /\ SendServer([command |-> "input", item |-> rows[n].item, value |-> t])
  /\ UNCHANGED <<machineVars, itemVars, link, toPage, loose, hidden, disabled>>

(* The field that replaceNode left behind sends what is typed too. *)
TypeLoose(i) ==
  /\ Edit
  /\ i \in loose
  /\ \E t \in Text : SendServer([command |-> "input", item |-> i, value |-> t])
  /\ UNCHANGED <<machineVars, itemVars, link, toPage, pageVars>>

Click(a) ==
  /\ Edit
  /\ a \notin hidden \cup disabled
  /\ SendServer([command |-> "click", name |-> a])
  /\ UNCHANGED <<machineVars, itemVars, link, toPage, pageVars>>

------------------------------------------------------------------------------
ItemStep(i) ==
  \/ AddItem(i) \/ RemoveItem(i) \/ RenderItem(i) \/ SetItemValue(i)
  \/ NoteValidationError(i) \/ ClearValidationError(i) \/ ChangeMode(i)

Next ==
  \/ OpenWebSocket \/ CloseWebSocket
  \/ StartMachine \/ AdvanceMachine \/ AnswerCall \/ EndCall
  \/ \E k \in 1..Listeners : TellListener(k)
  \/ \E i \in Item : ItemStep(i) \/ TypeLoose(i)
  \/ Receive \/ Deliver
  \/ \E n \in 1..Cardinality(Item) : Type(n)
  \/ \E a \in Action : Click(a)

Spec == Init /\ [][Next]_vars

------------------------------------------------------------------------------
Settled == link = "OPEN" /\ toPage = <<>> /\ toServer = <<>>

(* Whatever the user typed and the server changed meanwhile, once nothing   *)
(* is under way the page has one row for each item, which shows its text,   *)
(* its mode and whether it is in error, but for the items that were         *)
(* rendered again, of which the page loses the row or its cells.  Texts     *)
(* cross: the server's last word must reach the page, and the page's last   *)
(* must reach the server.                                                   *)
RowsInStep ==
  Settled =>
    \A i \in Item \ again :
      /\ Cardinality(RowsOf(i)) = IF i \in built THEN 1 ELSE 0
      /\ \A n \in RowsOf(i) : /\ rows[n].value = source[i]
                              /\ rows[n].mode = mode[i]
                              /\ rows[n].status <=> errors[i] # {}

(* Once nothing is under way and the server is in no call, the buttons of   *)
(* the actions the state offers are shown, the others are not, and but for  *)
(* the first button, which errors disable too, they are enabled or not      *)
(* accordingly.                                                             *)
ButtonsInStep ==
  Settled /\ calls = <<>> /\ state # NoState =>
    \A a \in Action :
      /\ a \in hidden <=> a \notin available \cup AlwaysShown
      /\ a # FirstButton => (a \in disabled <=> a \notin available)

(* Rows that were added in any order are in the order of data-order, as     *)
(* strings: item 10 comes before item 2.                                    *)
RowsInOrder ==
  \A m, n \in DOMAIN rows : m < n => After(Order[rows[n].item], Order[rows[m].item])
=============================================================================
