# Formal model of plcore

plcore is a collection of OSGi bundles, written in Java, for data entry forms,
documents and reports.  The modules of this directory describe its stateful core
in TLA+, from the directory watcher and the form models of the server to the
scripts of its web pages: TLC checks them on small instances and TLAPS proves
the central facts for every size.

## 1. Inventory of the system

Each component is a bundle (or a few classes of one); vendored code (pdf.js,
JavaCC output, Tesseract wrappers) is left aside.

| Component | State it keeps | Operations | Hard behaviour | What makes it correct |
|---|---|---|---|---|
| `core/nio/DirectoryWatcher` | `waitList`, the Timer's queue, the WatchKey's events | `registerDirectory`, `queueExistingFiles`, `start`, `WaitStableTask.run`, `close` | three threads; events merged or lost; a throwing processor ends a thread | each waiting file has exactly one check; a noticed file is handed over once per wait, when stable |
| `inbox` (`InboxWatchService`, `InboxSeen`) | one record of file name and digest per file | the processor for EXISTING, CREATE, MODIFY, DELETE | runs on two threads over unlocked stores; the JVM may end between any two calls | a recorded file has its document; no recorded digest is imported again; the last content gets recorded |
| `docstore/DocumentStore` | `source/`, `thumbs/`, page images, `SourceDocument` records | `importDocument` (path, URL, stream), `removeDocument`, `process`, `unprocess` | files and records change in separate steps | each record has its source, stored under its own digest |
| `core/nio/SafeOutputStream`, `SafeWriter` | a `.part` file and a `committed` flag | open, write, `commit`, `close` | a crash at any step; two writers of one target share the `.part` file | the target is never partly written |
| `dao`, `dao.berkeley` | entity records with version time and life, secondary indexes | `add`, `update`, `remove`, `getBy*`, `TransactionSet` | read, compare and write are separate calls; the transaction is not passed to the store | optimistic version check; an event for each committed change |
| `userio.model` | tree of containers and items; entry modes; per item: value, source, default, reference, errors | `setValue*`, `setEntryMode`, validations, events | listeners and handlers re-enter the model | effective mode follows from the parents; the event contract of `ItemEventListener` |
| `core/util` collections (`FastAccessList`, `UniformEventListenerList`, `FastListMap`, `SimpleCache`, ...) | arrays that are replaced on change; map and timer | add, remove, iterate; get, put, cleanup, close | iterators during change; timer cancel against reschedule | the list read is one that was; no live entry is closed |
| `lucene`, `docstore.lucerne` | index writer, reader, pending commit | `add`, `commit` after a delay, `search`, `close` | delayed commit against close and further writes | what was added is searchable after the delay |
| `state/StateMachine` | current state, available actions | `start`, `transition`, `invokeAction`, listeners | a listener that transitions again while it is told | who is told last is told what holds |
| `web.global/searchInput.js` | per input: text, shadow value, status, list, narrowing, highlight, button; the active inputs | handlers of typing, keys, clicks, focus, the list's arrival | each piece is changed by other handlers, in any order | what is submitted is what is seen; a list open only where the user is |
| `web.docstore/singleDocumentView.js` | labels of segments, the menu and its covet, `targetId` of fields | click on a segment, on a field, arrow keys | handlers nested by bubbling; label, field and backend call one by one | a field labels one segment, the one the backend was last called with |
| `web.global/domEdit.js`, `ws.js`, `templates` | rows, values, errors and buttons of a form; the WebSocket | the calls a server makes of the page; `sendInput`, `sendClick` | messages under way both ways, lost when the socket closes | with nothing under way, the page shows what the server holds |
| `osgi` (`MultipleReferenceList`, `DynamicConfigurer`) | copy-on-write list; deferred candidates | add, remove, set, iterate; `addCandidate`, `activate` | bind and unbind from other threads | iterators see a snapshot; no candidate is lost |
| `http` (WebSocket callbacks, `UndertowService`) | open channels and sessions | connect, close, `closeAllSessions` | the last close against the next open | resources are open exactly while a channel is |
| `type`, `userio.plan` | registry of types, plans built by reflection | parse, validate, format; build plans | recursive plans, cached before complete | pure conversions |
| `core/math`, `core/time`, `core/value` | immutable values | decimal and date arithmetic, date parsing | overflow, rounding, month ends | agreement with their definitions |
| `docstore` segments (`SparseIntArray`, `srcdoc`) | sorted arrays, dictionaries | binary search, insert, merge | boundaries | sorted, no duplicate key |
| `sql*` | connection, `active` flag | begin, commit, rollback, close | close inside a transaction | a transaction ends once |
| `weka`, `template`, `web.*`, `data.asx200`, tests | classifier wrappers, templates, servlets | pure calls and I/O | none of its own | - |

Interactions: the operating system tells a WatchKey of changes; the watch thread
and the timer thread of a `DirectoryWatcher` call the inbox's processor; it reads
and writes `InboxSeen` through a `DataAccessObject` and calls the
`DocumentStore`, which copies through a `SafeOutputStream`, adds a
`SourceDocument` through another `DataAccessObject` and posts events; the Lucene
bundles index what the events announce.  Forms are built from plans by
`ModelFactory`; controls and the WebSocket sessions listen to the model.  A web page
sends what the user types and clicks through `ws.js`; a session's callback
(`AbstractWebSocketConnectionCallback`) takes it in, items and the state machine
change, and their events come back as the calls `domEdit.js` answers.

## 2. Plan

Done so far:

1. **Inbox pipeline**: `DirectoryWatcher` with `SettleQueue` (abstract) and
   `DirectoryWatcherProofs`; `InboxWatch` with `DocumentInbox` (abstract) and
   `InboxWatchProofs`.
2. **Forms**: `EntryModes` (tree of effective modes) with `EntryModesProofs`;
   `FormDefaults` (values, defaults and their handlers) with `FormDefaultsProofs`.
3. **Web pages**: `SearchInput`, `FieldLabels`, `StateMachine`, and `FormPage`, which
   composes the state machine, the items, the WebSocket and the page, each with a
   module of proofs.

To come, in this order:

4. **More proofs**: every invariant and action property of a passing run is a theorem now.
   Worth stating next: `InboxIsUpToDate` for overflows that a later change of the file
   makes good.
5. **Persistence**: `SafeOutput` (two writers of one target and a crash),
   `DataAccess` (optimistic versions, transaction sets and events), shown to
   implement an abstract versioned store.
6. **Shared structures**: `SimpleCache` (cleanup against renewal and close),
   `WebSocketSessions` (the last close against the next open), `SearchIndex` (delayed
   commit against close), the copy-on-write lists.
7. **Forms, continued**: reference values in `FormDefaults`; list models.
8. **Algorithms**: `SparseIntArray`, date periods and decimals as functions checked
   against definitions.

## 3. The modules and the code

### DirectoryWatcher and SettleQueue

`DirectoryWatcher` has one action for each stretch of code between two accesses
to state that another thread can change.  Its actors:

| Actor | Code | State | Actions |
|---|---|---|---|
| users | the file system | `file`, `changes` | `UserChange` |
| the JDK's WatchKey (external) | merging and overflow of events | `events` | `Signal`, `Merged` |
| activating thread | `registerDirectory`, `queueExistingFiles`, `close` | `service`, `scan` | `Activate`, `OpenDirectory`, `ScanFile`, `ScanDone`, `Close` |
| watch thread | `start` | `watchPc`, `batch` | `WatchTake`, `WatchOverflow`, `WatchQueue`, `WatchDelete`, `WatchReturn`, `WatchThrow`, `WatchReset` |
| timer thread | `WaitStableTask.run` | `timerPc`, `timerTask` | `RunTask`, `DropGoneFile`, `ProcessFile`, `TimerReturn`, `TimerThrow` |
| the JVM | its end | everything but `file` | `Restart` |

`queueFile` is one critical section on `waitList` (`QueueFile`); on a Timer whose
thread has died, `schedule` throws after the path was added (`QueueFileThrows`).
`RunTask` reads the length outside the lock, `StopWaiting` is the critical section
that follows.  Timer tasks have equal delays but no order is assumed among them.

`SettleQueue` is what a processor may rely on: a file is handed over only after it
was noticed and waited for, one call per wait, calls never overlap, and none comes
after one failed.  `ImplementsSettleQueue` instantiates it with
`waiting` = `waitList` without what nobody will look at, `processing` = the file of
the timer's call and `halted` = the timer is dead.

### InboxWatch

Extends `DirectoryWatcher` with the processor of `InboxWatchService`.  `job` is the
timer thread's call for EXISTING, CREATE and MODIFY, `deletion` the watch thread's
call for DELETE; each step is one access to the unlocked stores `seen` (InboxSeen
records), `source` and `part` (the files of the document store) and `docs`
(SourceDocument records).  `firstDigestForFile`, `conditionallyUnprocess` and
`conditionallyProcess` are thereby split where the other thread can come between, and so is
`completeImport`: `ParseSource` reads the stored source, `CatalogDocument` adds the
`SourceDocument` whatever became of the source meanwhile.
`InboxRestart` ends the JVM and keeps the stores.

`DocumentInbox` is what the inbox promises of files and documents without threads, events
and waiting: a file is taken in with one content it had, and that content is stored, read
back, cataloged and recorded in this order, stored and cataloged only while no file is
recorded with it.  `ImplementsDocumentInbox` instantiates it with `taken` = the file of the
timer's call once its digest is computed, `digest` = `job.digest`, `parsed` = the stored
source was read and its document is about to be added, `stored` = the digests with a file in
`source`, `cataloged` = `docs` and `recorded` = `seen`; looking up records, copying and the
watch thread's reads are stutters, a restart is `Release`.  A source may go at any time
there, also between `Parse` and `Catalog`, because the DELETE branch removes it without
regard to what the timer thread is doing.

Abstractions: one directory, one extension (files without an extension, which
`importDocument` refuses, and unsupported types are sets of files); a digest is the
content it was computed from, read in one step; a record's put or get is atomic;
thumbnails, page images and logging are left out; `dao.add` does not fail, and the
component is not activated twice in one JVM.

### EntryModes

Form models are single-threaded but call listeners in the middle of their work, and
listeners call back.  `stack` holds the calls in progress; an action runs the
innermost one up to the next callback.  `made`, `member`, `mode` and `eff` are the
nodes built, the members maps, `entryMode` and `effectiveEntryMode`.  `fire` frames
are listeners being called, `update` the loop over the children in
`updateEffectiveEntryMode`, `sync` and `clear` the two loops of
`NameMappedModel.syncValue`, `put` and `added` the steps of building a member.
`ReactsTo` names the events that a listener answers with calls of the model; in the run and
in the theorem these are all but the events of nodes that are still being built, which the
code fires as well (`NodeModel.java:74`, `151`; what that leads to is told in section 5).
Abstractions: the order of members is left open, and so is which members are
view-only and which new values are null; a node name of which the members map is
cleared can be built again as another node object (two per name in the instance).

### FormDefaults

The values of items and the default providers: `ItemModel` with the handlers and
`runRuntimeDefaults` of `NameMappedModel`.  Again `stack` holds the calls; `SetTo`,
`DefaultTo` and `SourceTo` are calls about to run, `Changed` a value change being
told, `Sync` and `Defaults` the loops over members and providers, and `Give` a provider's
loop over the items it serves: the default is computed once, from the instance as it is when
the handler runs (`RunProvider`), and set on one item after the other (`GiveDefault`), whose
listeners are told in between.  Four calls fill a model: `SetNew`, `SetInstance` (of an entity
model, which counts the instance's values as defaults too, or of an embedded one, which does
not, by the constant `Embedded`), `SyncMember` (an embedded model is filled by the entity it
is in) and `ClearInstance`.

| TLA+ | Code |
|---|---|
| `field` | the fields of the instance, through `ClassValueReference` |
| `value`, `source`, `inError` | `currentValue`, `currentSource`, `currentValueInError` |
| `noted` | `validationErrors` is not empty |
| `deflt`, `basis` | `defaultValue` (and `defaultSource`), `comparisonBasis` |
| `valueEqual`, `sourceEqual` | `isComparedValueEqual`, `isComparedSourceEqual` |
| `own`, `given` | history: items with a value of their own; the instance last set |
| `overtaken` | history: providers run again while they had a default computed and not yet set on each item |

Abstractions: of the application's listeners only those of value changes call the
model; no two providers serve the same item; items are neither view-only nor HIDDEN; the
order of providers, handlers and members is left open; instances are set between calls, never from a listener;
the application sets defaults only where no provider does.  Reference values, errors
of validation methods and the `setValueFrom...` conveniences are left out.

### SearchInput

One record per search input holds what the script keeps in the DOM: `text` (the visible
field), `shadow` (the field that is submitted), `status` (its class), `list`, `shown` and
`highlight` (classes of list items), `showing` (class of the list), `button`.  `active`
and `focus` belong to the page.  What handlers share (`SetToggleButton`,
`ClearDropList`, `FilterItems`, ...) are operators from one record to the next, named as
in the script; each handler of a key, a click, the focus or the list's arrival is an
action.  A click on an element also reaches the window's listener (`OutsideClick`).

Abstractions: a text is known by the labels that contain it (`Within`) and those it equals;
no item is in a list twice (`ItemsDiffer`), but two may have the same description; sizes and
positions are layout.  A list that arrives has items without classes; the `wschange` event
only measures them.  A list is displayed only in an input of class `active`
(`searchInput.css:87-101`), which `Displayed` follows.  Enter takes that class away and leaves
the focus (`searchInput.js:410-413`), so that the keys still move, and Enter takes, a
highlight in a list nobody sees: `HighlightDisplayed` speaks of active inputs.

### FieldLabels

`label`, `menu`, `covet` are the span in each segment, the segment whose menu is open and
the highlighted menu item; `targetId` is what `docFields` knows, `asked` with which segment
`updateBackend` was last called for each field.  A click on a menu item first reaches the
item, then the segment, then the window, as one action (`ClickField`).  Which fields apply to
a segment (`isApplicableDocField`) is the constant `Applies`; places and opacity are left out.

The module ends at the call of `updateBackend`.  The only one there is
(`singleDocumentView.html:43-47`) calls `sendMessage`, which nothing defines (`ws.js:96-104` is
commented out): it throws after label and `targetId` were set, and no message leaves the page.
The call is the last thing the item's handler does, and the handlers of the segment and the
window run all the same, so nothing else depends on it.  If it sent as `sendInput` does, it
would drop what it has to say while the socket is not open.

### StateMachine and FormPage

`StateMachine` has `calls`, the stack of `start` and `setState` in progress: each goes
twice through the actions, first telling listeners of those withdrawn, then of those
offered (`TellAt` is one listener told of one action), and any listener in `Answering`
may change the state before it returns (`Answer`).  `availableActions` is changed by the
calls within while the outer loop goes on (`mayGo` and `mayCome` are the two sets it
computed when it began).  `heard` is history: what each listener was last told.

`FormPage` extends it with the rest of a form:

| Part | Code | State | Actions |
|---|---|---|---|
| state machine | `StateMachine` | `machineVars` | `StartMachine`, `AdvanceMachine`, `AnswerCall`, `TellListener`, `EndCall` |
| items of the server | `ItemModel`, `NodeModel` | `built`, `source`, `errors`, `mode`, history `again` | `AddItem`, `RemoveItem`, `RenderItem`, `SetItemValue`, `NoteValidationError`, `ClearValidationError`, `ChangeMode` |
| session | `AbstractWebSocketConnectionCallback`, `WebSocketSession.send` | `toServer` | `Receive`, `Send` in every action of the server |
| WebSocket | `ws.js`, the browser | `link`, `toPage`, `toServer` | `OpenWebSocket`, `CloseWebSocket`, `Deliver` |
| page | `domEdit.js`, templates | `rows`, `loose`, `hidden`, `disabled` | `OnMessage` in `Deliver` |
| user | `ws.js` | - | `Type`, `TypeLoose`, `Click` |

The server code that turns an event of the models into the call of the same name is not in
the repository; listener 1 of the machine and the one listener of each item are taken to
be it (external in the map).  Further listeners of the machine are the application's.
Messages of each direction arrive in order, until the socket closes, and then not at all.

A row is a `tr` (`ItemModel.html:1-13`), and only `addChildren` parses it in an element of the
container's kind.  `replaceNode` and `replaceChildren` (`domEdit.js:52-57`, `82-87`) parse the html
in a `div`, where the parser drops `tr`, `th` and `td`.  So `ReplaceNode` loses the row and leaves
its input field behind in the container (`loose`; it still sends what is typed), and
`ReplaceChildren` keeps the old `tr` around a field without `td.input` (`cells` is FALSE).
Later calls of `setValue`, `noteError`, `clearError` and `setEntryMode` for such an item find no
`td.input` and throw.  The comment at `domEdit.js:42-43` says the html is added in the node's
place; `again` keeps the items this has happened to, and `RowsInStep` speaks of the others.

An item that becomes HIDDEN keeps its errors and no `clearError` is sent:
`ItemModel.effectiveModeChanged` (605-641) would clear them, but its registration
(`ItemModel.java:58`) is commented out.

Abstractions: one validation method covers all items of a form, a session handles one
request at a time (`synchronized (channels)` around the loop), ids of items differ, orders are
sequences of digits compared as strings as `addChildren` does, texts either convert or not.
`domEdit.js` exports a name,
`changeOption`, that it does not declare, so it does not load as a module as it stands;
its functions are modelled as they are written.

Definitions named `Slip...` are used by no specification: each is a plausible slip
in the code of the definition it is named after and shows that a property notices.

## 4. What the runs check

| Run | Properties | Instance | Distinct states |
|---|---|---|---|
| `watcher` | `TypeOK`, `WaitListInv`, `ImplementsSettleQueue`, `WaitingFilesSettle`, `EventsAreTaken` | 2 files, 3 changes, 1 restart, key of 2 events | 308 k |
| `inbox_safety` | `InboxTypeOK`, `SeenIsCataloged`, `SourceIsWhole`, `InboxIsUpToDate`, `NoSecondImport`, `ImplementsDocumentInbox` | 3 files (1 deletable, 1 without extension), 2 changes, 1 restart | 7.8 M |
| `inbox_live` | `InboxCatchesUp` | 2 files, 2 changes, 1 restart | 0.9 M |
| `modes_safety` | `TypeOK`, `MembersInherit` | 6 nodes, 4 calls | 0.8 M |
| `defaults_safety` | `TypeOK`, `FieldHoldsValue`, `ComputedFieldsFollow`, `ValueEqualityTold` | 4 items of an embedded model, 2 providers of which one serves two items, 3 calls | 8.2 M |
| `search` | `TypeOK`, `HighlightDisplayed`, `SubmitsWhatIsSeen`, `ButtonFitsList`, `ChoiceKept` | 2 inputs, 4 items, 6 texts, 5 lists with the empty one | 230 k |
| `labels` | `TypeOK`, `LabelsAsked` | 4 segments, 4 fields | 10 k |
| `form` | `TypeOK`, `FirstInStep`, `ButtonsInStep`, `RowsInStep`, `RowsInOrder` | 2 items, 2 actions, 3 states, 2 listeners, 3 edits, 3 changes of state | 2.2 M |

Four runs look for what a comment, a document or a test says and the code does not do:

| Run | Property | What TLC finds |
|---|---|---|
| `watcher_gone_file` | `DroppedFilesAreGone` | a file back between the timer's look and its removal from `waitList` is dropped as gone, its CREATE ignored |
| `inbox_kept` | `SeenHasSource` | the watch thread looks for a record of a digest and finds none, the timer thread takes in and records another file with that digest, and the watch thread then removes the source |
| `defaults_assigned` | `AssignedValuesKept` | `setValue` of an entity with valid values in all fields makes each value its item's default, and a provider's default set after that moves the value |
| `search_outside_click` | `ClosedByOutsideClick` | with two inputs active, a click elsewhere leaves the second one's list open |

Known beyond these: a file that changes between digest and copy is stored under its former
digest; a default that moves a value leaves its source, which is what the form shows, behind
(`ItemModel.java:309`; so `FieldHoldsValue` speaks of the current value, not of what is shown);
a listener of the first item a provider serves can change a field the default was computed
from, and the later items then keep the default computed before, although the comment at
`NameMappedModel.java:93-95` says the handlers keep defaults up to date (`overtaken`); of two
equal descriptions, the second one clicked becomes the first when the field is filtered again
(`exactMatch`, `searchInput.js:143-150`).

Some properties excuse what they cannot ask for.  While calls on the processor never
overlap, a source is never removed at all: `conditionallyUnprocess` finds the very record that
is about to be replaced or removed (`InboxWatchService.java:96-99`, `122`), so that a source whose
last file went stays; `inbox_kept` needs the overlap.  A dead timer or watch thread is excused in
`WaitListInv`, `ImplementsSettleQueue`, `WaitingFilesSettle`, `EventsAreTaken`, `InboxIsUpToDate`
and `InboxCatchesUp`: that a thrown exception ends the thread is in the model, that files wait
in vain from then on is no violation.  `ButtonsInStep` leaves out whether the first button is
disabled, because `adjustButton` enables it when the last error goes, whatever the state offers.

**Bounds.** `MaxChanges` 3 is enough for each ordering of two events around the steps of
one check (create, change, delete); the watcher's key holds 2 events, so it overflows
and merges; in the inbox it holds 4, so that no event is lost, because the code
promises nothing for lost ones.  Files share two contents of equal length, the case
where a check of lengths sees nothing and files meet in one digest; the third file of
`inbox_safety` has no extension.  Its two changes, on files that may be there from the start
and beside a restart, are a deletion against an import, or a change during one.  One restart meets every point of an import.  In
`EntryModes` four calls are a call, two from within listeners and one after; the inner
container can be built twice.  In `FormDefaults` three calls are an instance, a call and
one from within it; one provider serves b and c, and that of d depends on the provided b, so
that handlers chain and can overtake.
In `search` one description is within another, two items have the same one, texts match none, one, several or exactly one
of them, and lists come and go; there are no counters, the state space is complete, as in
`labels`, whose last segment has no field that applies.  In `form` three edits are an item
added, one changed by the server and one typed in, in any order; one item has order 2 and
one 10; three changes of state are a click, a change from within the call it makes, and one
from within that.
The two contents are interchangeable (`Permutations`) in the safety runs of the inbox
only; liveness runs use no symmetry.

**Deadlock.** `CHECK_DEADLOCK FALSE` everywhere: users and callers stop when their
bounded counters are used up, and a system with nothing to do rests.

**Fairness.** Weak fairness for each thread of the program as a whole (the activating
thread once activated, the watch thread, the timer thread), which is what a JVM's
scheduler gives a runnable thread.  Users, activation, close and the end of the JVM owe
nothing.  A call of the processor is assumed to end.  The modules of forms and pages have
safety properties only: their calls end by themselves, and `RowsInStep` and
`ButtonsInStep` say how things stand when they have.

## 5. What is proved

TLAPS checks these for any values of the constants that meet the assumptions
`WatcherAssumption`, `InboxAssumption`, `TreeAssumption`, `StateMachineAssumption`,
`FormAssumption` (of `FormPage`, and of `FormDefaults` with `ProviderAssumption`),
`SearchAssumption` (with `ItemsDiffer`) and `LabelAssumption`.  They state
every invariant and action property of the passing runs.

* `DirectoryWatcherProofs!TypeCorrect`: `TypeOK` is inductive as it stands.
* `WaitListCorrect`: `WaitListInv` (while the timer lives, `waitList` is exactly the files
  with a scheduled or just passed check, one each) is inductive relative to `TypeOK`.
* `WatcherIsSettleQueue`: every step maps to a step of `SettleQueue` or a stutter; the
  invariant is needed where a hand-over must find its file waiting.
* `InboxIsWatcher` (`InboxWatchProofs`): a step of the inbox is a step of the watcher or
  leaves it alone, so that the watcher's theorems hold of the inbox.
* `InboxTypeCorrect`: `TypeInv` adds that nothing runs or waits before activation and what
  `process()` knows at each of its steps (`JobOK`): the digest that is imported is the one
  computed of the file at hand.
* `RecordedFilesAreCataloged`, `StoredSourcesAreWhole`, `NoDigestIsImportedTwice`: all from
  `StoreInv`, which says what the timer thread relies on between two calls on the stores:
  what it will record has its document (`CatalogedBeforeRecord`), what it moves is whole
  (`MovesWholeCopy`), and what it imports is in no record (`ImportsUnseen`).  The last holds
  because the watch thread removes records and never adds one; it is about the call of
  `importDocument`, whether or not source and document are there already.
* `InboxIsDocumentInbox`: every step maps to a step of `DocumentInbox` or a stutter.
  `StoreInv` is needed where a source is stored or a document added for a digest that no
  record may hold, and where a record is written that must have its document.  A document is
  added after its source was read (`Parse`), not while it is there.
* `RecordedFilesHaveSource`: in every behaviour in which the two threads' calls of the
  processor never overlap (`[]Apart`), whatever is deleted and wherever the JVM ends; where they
  overlap the property is false (`inbox_kept`).  `SourceInv` says why: each thread finds in its
  own record the digest it looks up (`PriorIsSeen`, `DeletedIsSeen`), so that neither comes to
  unprocess one.
* `RestMeansUpToDate`: `InboxIsUpToDate` in every behaviour without an OVERFLOW, for which the
  code promises nothing.  `InboxIsUpToDate` speaks of rest only.
  `NothingForgotten` says of every other state where the last change of a kept file is:
  announced, waiting, to be scanned, being processed with its present digest, or recorded.
  It needs that waiting kept files exist, or the timer would drop them (`ExistInv`), that no
  event is lost between two batches and that scanning is over once the service is active
  (`PlaceInv`).
* `EntryModesProofs!TypeCorrect`: the stack's frames stay well typed.
* `EffectiveIsStricter`: the table of `EffectiveEntryMode` is the stricter of two modes.
* `InheritanceCorrect`: `MembersInherit` is not inductive.  The
  invariant `IInv` adds that the root's mode is its own (`RootEffective`), parents are made
  before children (`ParentsMade`), members inherit by the code's table or wait for it
  (`MembersFollow`), update loops visit children only (`UpdatesChildren`), and a node being
  put in the map has no call of the model above it but its own mode event
  (`PutIsInnermost`).  The last is false if a listener answers the mode event of a node
  being built: `syncValue` builds a member, which fires its mode event, before it puts it
  into the members map, so a new mode that the listener gives the container does not
  reach the new member.  The theorem therefore assumes `"built" \notin ReactsTo`, and
  `modes_safety` makes the same choice.
* `DefaultsTypeOK` (`FormDefaultsProofs`): each call in progress is about an item that has a
  model, although instances are cleared and items built again.
* `DefaultsFieldHoldsValue`: while calls are in progress, a field and the current value of its
  item may differ, but then `syncValue` has still to visit the item or its `setValue` is on the
  stack with the field's value (`ShownInv`).  It is about the value of an item not in error;
  the source, which the form shows, is another matter (section 4).
* `DefaultsEqualityTold`: an item whose listeners were told something else is one whose
  value change is being told, and equality is tested after that (`EqualityInv`).
* `DefaultsComputedFieldsFollow`: a default that is not the provider's is one that a call on
  the stack will set (`ComputedInv`), for each of the items a provider serves.  This needs that
  a default computed and still to be set on some items is the one the fields give, unless its
  provider was overtaken (`GiveInv`), and the same of a default about to be set, unless an
  instance is being set and every provider runs again (`DefaultInv`), because such a call never
  waits below another (`StackInv`); and that an item noted in error is in error (`NotedInv`),
  because providers are skipped for the first and the property speaks of the second.  `OwnInv`
  holds in the middle of calls too.  Providers may depend on each other in a circle: the
  theorem then speaks of the cases that come to rest.  Overtaken providers are left out of the
  property, and had to be: their later items do keep a stale default.
* `FormFirstInStep` (`FormPageProofs`, on `StateMachineProofs`): a change that listener 1
  was not told of is still ahead of some call in progress (`Covered`): the innermost call,
  or an outer one that goes on when those within it have returned.  For a later listener
  this is false, as an outer call tells it a stale change last; that is why the page's
  listener has to be the first.
* `FormTypeOK`, `FormRowsInOrder`: from `FormInv`, which adds to the types that rows are of
  different items and in the order of `After`.  `AfterOrders` shows that the comparison of
  `addChildren` orders different digit sequences totally, so that the first later row is
  the one place for a new one.
* `FormButtonsInStep`: `ButtonsInv` says, per action, that the last call under way about it
  says what listener 1 was last told, and that with none under way the button shows it.
  With `FormFirstInStep` nothing under way and no call in progress mean that the
  buttons show the state.
* `FormRowsInStep`: `RowsInStep` speaks of a form with nothing under way and of items not rendered
  again since they were added.  `FollowInv` says, per such item, that the calls under way lead
  the page from what its row looks like (no row, a torn one, or mode and status) to what the
  server holds (`Leads`, a chain of the calls' effects); that the last call under way with a
  text carries the server's, and that with none the row shows the server's text or its own
  last one is under way to the server (`TextInv`, `Pending`).  It is preserved because every
  change of an item sends a call with that effect, because messages arrive in order, and
  because a row that is new is sent whole.  A torn row that a former item of the same id left
  is no exception: its deletion is on the way before the new row is.  While the link is being
  opened nothing is built.
* `SearchTypeOK`, `SearchHighlight`, `SearchSubmits`, `SearchButton`, `SearchChoiceKept`
  (`SearchInputProofs`): the invariant is about one control, in three parts.  `MenuOK`: what
  is narrowed to and highlighted is of the list, nothing is narrowed while it is closed;
  `ValueOK`: a value fits text and status; `ButtonOK`.  Each shared operator keeps them.
  `SearchHighlight` is about lists that are displayed, in active inputs.  `SearchButton` needs
  lists without repetitions, because the script compares counts.  `SearchChoiceKept` allows
  equal descriptions, and says that the value is then swapped for one of the same description
  at most.
* `FieldLabelsTypeOK`, `FieldLabelsAsked`: inductive as they stand; the covet needs that
  `First` and `Last` find a position of a non-empty menu.

Only model-checked: liveness (`WaitingFilesSettle`, `EventsAreTaken`, `InboxCatchesUp`), which
is out of the prover's reach, the counterexamples of the four runs that find one, and
every bounded instance's mutants.  The inductive invariants above were checked by TLC on
the instances of the runs before they were proved.

## 6. What is not modelled

98 % of the repository's lines of JavaScript are `pdf.js` and `pdf.worker.js`, Mozilla's
viewer as it is distributed, vendored code that this project leaves aside; the scripts the
project owns are some 1200 lines, and those with state are modelled.  What is left of
them is layout, titles and two sample pages.

The components without a module in the plan are I/O, wrappers of third-party code or
sequential conversions: HTTP server set-up, servlets and templates as such, classifiers,
SQL connections, sample data, plan building by reflection.  Those with a place in the plan
are listed in section 2.  Of the modelled ones, imports from URLs and streams, page images
and thumbnails, text output (`SafeWriter`), the DAO's versions and events, and the channels
of several WebSocket sessions are missing.
