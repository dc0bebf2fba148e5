--------------------------- MODULE DirectoryWatcher ---------------------------
(***************************************************************************)
(* org.plcore.nio.DirectoryWatcher: watches a directory and hands each new *)
(* or changed file to an IProcessor once its length is stable.             *)
(*                                                                         *)
(* Four actors interleave: users who change files, the activating thread   *)
(* (registerDirectory, queueExistingFiles, close), the watch thread        *)
(* (start) and the single thread of the java.util.Timer (WaitStableTask).  *)
(* The processor is left open here: a call returns or throws.  Each action *)
(* makes at most one access to state another thread can change.            *)
(***************************************************************************)
EXTENDS Integers, Sequences

CONSTANTS
  Path,         \* the files of the one watched directory
  Matching,     \* those whose name the pattern finds
  Deletable,    \* those the users may delete
  Content,      \* what a file can contain
  Size,         \* the length of each content
  None,         \* no file, no task
  QueueLimit,   \* events a WatchKey holds before it overflows
  MaxChanges,   \* bound: changes the users make
  MaxRestarts   \* bound: ends of the JVM

Length == {-1} \cup {Size[c] : c \in Content}
Task   == [path : Path, last : Length]
Event  == [kind : {"CREATE", "MODIFY", "DELETE"}, path : Path]
            \cup {[kind |-> "OVERFLOW"]}

ASSUME WatcherAssumption ==
  /\ Matching \subseteq Path
  /\ Deletable \subseteq Path
  /\ Size \in [Content -> Nat]
  /\ None \notin Content
  /\ None \notin Path
  /\ None \notin Task
  /\ QueueLimit \in Nat \ {0}
  /\ MaxChanges \in Nat
  /\ MaxRestarts \in Nat

VARIABLES
  file,       \* content of each file, None when there is no such file
  events,     \* the WatchKey: events not yet polled
  service,    \* progress of the activating thread
  scan,       \* files queueExistingFiles has still to visit
  watchPc,    \* where the watch thread is in start()
  batch,      \* events it polled and has not finished
  waitList,   \* the list of that name
  tasks,      \* WaitStableTasks scheduled on the timer
  timerPc,    \* where the timer thread is in WaitStableTask.run()
  timerTask,  \* the task it runs
  changes, restarts   \* the bounded counters

userVars  == <<file, changes>>
keyVars   == <<events>>
adminVars == <<service, scan, restarts>>
watchVars == <<watchPc, batch>>
timerVars == <<timerPc, timerTask>>
queueVars == <<waitList, tasks>>

vars == <<file, events, service, scan, watchPc, batch, waitList, tasks,
          timerPc, timerTask, changes, restarts>>

TypeOK ==
  /\ file \in [Path -> Content \cup {None}]
  /\ events \in Seq(Event)
  /\ service \in {"down", "starting", "scanning", "active", "failed", "closed"}
  /\ scan \subseteq Path
  /\ watchPc \in {"off", "take", "drain", "process", "ended", "dead"}
  /\ batch \in Seq(Event)
  /\ (watchPc = "process" => batch # <<>> /\ Head(batch).kind = "DELETE")
  /\ waitList \subseteq Path
  /\ tasks \subseteq Task
  /\ timerPc \in {"idle", "settled", "process", "dead"}
  /\ timerTask \in Task \cup {None}
  /\ (timerTask = None <=> timerPc \in {"idle", "dead"})
  /\ changes \in 0..MaxChanges
  /\ restarts \in 0..MaxRestarts

Init ==
  /\ file \in [Path -> Content \cup {None}]
  /\ events = <<>>
  /\ service = "down"
  /\ scan = {}
  /\ watchPc = "off"
  /\ batch = <<>>
  /\ waitList = {}
  /\ tasks = {}
  /\ timerPc = "idle"
  /\ timerTask = None
  /\ changes = 0
  /\ restarts = 0

-----------------------------------------------------------------------------
(* The WatchKey of the JDK: it merges a repeated event, merges a MODIFY     *)
(* with a MODIFY of the same file that no other event of that file follows, *)
(* and gives up all its events for one OVERFLOW when it is full.            *)

Merged(kind, p) ==
  /\ events # <<>>
  /\ \/ events[Len(events)].kind = "OVERFLOW"
     \/ events[Len(events)] = [kind |-> kind, path |-> p]
     \/ /\ kind = "MODIFY"
        /\ \E i \in 1..Len(events) :
             /\ events[i] = [kind |-> "MODIFY", path |-> p]
             /\ \A j \in (i+1)..Len(events) : events[j].path # p

Watched == service \in {"starting", "scanning", "active", "failed"}

Signal(kind, p) ==
  events' = IF ~Watched \/ Merged(kind, p) THEN events
            ELSE IF Len(events) >= QueueLimit THEN <<[kind |-> "OVERFLOW"]>>
            ELSE Append(events, [kind |-> kind, path |-> p])

(* Users change the directory at any time, also while the program is down. *)

CreateFile(p) ==
  /\ file[p] = None
  /\ \E c \in Content : file' = [file EXCEPT ![p] = c]
  /\ Signal("CREATE", p)

WriteFile(p) ==
  /\ file[p] # None
  /\ \E c \in Content \ {file[p]} : file' = [file EXCEPT ![p] = c]
  /\ Signal("MODIFY", p)

DeleteFile(p) ==
  /\ p \in Deletable
  /\ file[p] # None
  /\ file' = [file EXCEPT ![p] = None]
  /\ Signal("DELETE", p)

UserChange(p) ==
  /\ changes < MaxChanges
  /\ changes' = changes + 1
  /\ CreateFile(p) \/ WriteFile(p) \/ DeleteFile(p)
  /\ UNCHANGED <<adminVars, watchVars, timerVars, queueVars>>

-----------------------------------------------------------------------------
FileSize(p) == IF file[p] = None THEN -1 ELSE Size[file[p]]

Ignored(p) == p \notin Matching \/ p \in waitList

(* queueFile: one critical section on waitList.  A timer whose thread died *)
(* refuses the task with an IllegalStateException, after the add.          *)
QueueFile(p) ==
  \/ Ignored(p) /\ UNCHANGED queueVars
  \/ /\ ~Ignored(p)
     /\ timerPc # "dead"
     /\ waitList' = waitList \cup {p}
     /\ tasks' = tasks \cup {[path |-> p, last |-> FileSize(p)]}

QueueFileThrows(p) ==
  /\ ~Ignored(p)
  /\ timerPc = "dead"
  /\ waitList' = waitList \cup {p}
  /\ UNCHANGED tasks

-----------------------------------------------------------------------------
(* The activating thread: a new DirectoryWatcher, registerDirectory and the *)
(* start of the watch thread; then queueExistingFiles, file by file.        *)

Activate ==
  /\ service = "down"
  /\ service' = "starting"
  /\ watchPc' = "take"
  /\ UNCHANGED <<userVars, keyVars, scan, restarts, batch, timerVars, queueVars>>

OpenDirectory ==
  /\ service = "starting"
  /\ service' = "scanning"
  /\ scan' = {p \in Path : file[p] # None}
  /\ UNCHANGED <<userVars, keyVars, restarts, watchVars, timerVars, queueVars>>

ScanFile(p) ==
  /\ service = "scanning"
  /\ p \in scan
  /\ \/ /\ file[p] = None
        /\ scan' = scan \ {p}
        /\ UNCHANGED <<queueVars, service>>
     \/ /\ file[p] # None
        /\ QueueFile(p)
        /\ scan' = scan \ {p}
        /\ UNCHANGED service
     \/ /\ file[p] # None
        /\ QueueFileThrows(p)
        /\ scan' = {}
        /\ service' = "failed"
  /\ UNCHANGED <<userVars, keyVars, restarts, watchVars, timerVars>>

ScanDone ==
  /\ service = "scanning"
  /\ scan = {}
  /\ service' = "active"
  /\ UNCHANGED <<userVars, keyVars, scan, restarts, watchVars, timerVars, queueVars>>

(* close() closes the watch service only: the timer keeps its tasks. *)
Close ==
  /\ service = "active"
  /\ service' = "closed"
  /\ events' = <<>>
  /\ UNCHANGED <<userVars, scan, restarts, watchVars, timerVars, queueVars>>

(* The JVM ends: every thread and everything in memory is gone. *)
Restart ==
  /\ service # "down"
  /\ restarts < MaxRestarts
  /\ restarts' = restarts + 1
  /\ service' = "down"
  /\ scan' = {}
  /\ events' = <<>>
  /\ watchPc' = "off"
  /\ batch' = <<>>
  /\ waitList' = {}
  /\ tasks' = {}
  /\ timerPc' = "idle"
  /\ timerTask' = None
  /\ UNCHANGED userVars

-----------------------------------------------------------------------------
(* The watch thread: start(). *)

WatchTake ==
  /\ watchPc = "take"
  /\ \/ /\ service # "closed"
        /\ events # <<>>
        /\ batch' = events
        /\ events' = <<>>
        /\ watchPc' = "drain"
     \/ /\ service = "closed"
        /\ watchPc' = "ended"
        /\ UNCHANGED <<batch, events>>
  /\ UNCHANGED <<userVars, adminVars, timerVars, queueVars>>

WatchOverflow ==
  /\ watchPc = "drain"
  /\ batch # <<>>
  /\ Head(batch).kind = "OVERFLOW"
  /\ batch' = Tail(batch)
  /\ UNCHANGED <<userVars, keyVars, adminVars, watchPc, timerVars, queueVars>>

\* ENTRY_MODIFY is taken for a repetition of ENTRY_CREATE
SlipWatchQueue ==
  /\ watchPc = "drain"
  /\ batch # <<>>
  /\ \/ /\ Head(batch).kind = "CREATE"
        /\ QueueFile(Head(batch).path)
     \/ /\ Head(batch).kind = "MODIFY"
        /\ UNCHANGED queueVars
  /\ batch' = Tail(batch)
  /\ UNCHANGED <<userVars, keyVars, adminVars, watchPc, timerVars>>

WatchQueue ==
  /\ watchPc = "drain"
  /\ batch # <<>>
  /\ Head(batch).kind \in {"CREATE", "MODIFY"}
  /\ \/ /\ QueueFile(Head(batch).path)
        /\ batch' = Tail(batch)
        /\ UNCHANGED watchPc
     \/ /\ QueueFileThrows(Head(batch).path)
        /\ watchPc' = "dead"
        /\ batch' = <<>>
  /\ UNCHANGED <<userVars, keyVars, adminVars, timerVars>>

\* every event is dispatched to the processor
SlipWatchDelete ==
  /\ watchPc = "drain"
  /\ batch # <<>>
  /\ watchPc' = "process"
  /\ UNCHANGED <<userVars, keyVars, adminVars, batch, timerVars, queueVars>>

(* A deletion goes to the processor at once, whatever the pattern says. *)
WatchDelete ==
  /\ watchPc = "drain"
  /\ batch # <<>>
  /\ Head(batch).kind = "DELETE"
  /\ watchPc' = "process"
  /\ UNCHANGED <<userVars, keyVars, adminVars, batch, timerVars, queueVars>>

WatchReturn ==
  /\ watchPc = "process"
  /\ watchPc' = "drain"
  /\ batch' = Tail(batch)
  /\ UNCHANGED <<userVars, keyVars, adminVars, timerVars, queueVars>>

WatchThrow ==
  /\ watchPc = "process"
  /\ watchPc' = "dead"
  /\ batch' = <<>>
  /\ UNCHANGED <<userVars, keyVars, adminVars, timerVars, queueVars>>

\* key.reset() is forgotten: the key never signals again
SlipWatchReset ==
  /\ watchPc = "drain"
  /\ batch = <<>>
  /\ service = "closed"
  /\ watchPc' = "ended"
  /\ UNCHANGED <<userVars, keyVars, adminVars, batch, timerVars, queueVars>>

WatchReset ==
  /\ watchPc = "drain"
  /\ batch = <<>>
  /\ watchPc' = IF service = "closed" THEN "ended" ELSE "take"
  /\ UNCHANGED <<userVars, keyVars, adminVars, batch, timerVars, queueVars>>

-----------------------------------------------------------------------------
(* The timer thread: WaitStableTask.run(). *)

(* Slips a change to this code could make.  No specification uses them: each *)
(* stands in for the definition it is named after, to see that some property *)
(* notices.                                                                  *)

\* one look is enough, so a growing file is not looked at again
SlipRunTask ==
  /\ timerPc = "idle"
  /\ \E t \in tasks :
       /\ tasks' = tasks \ {t}
       /\ IF FileSize(t.path) = t.last
          THEN timerPc' = "settled" /\ timerTask' = t
          ELSE UNCHANGED timerVars
  /\ UNCHANGED <<userVars, keyVars, adminVars, watchVars, waitList>>

\* waitList keeps a file that was handed over
SlipStopWaiting == UNCHANGED waitList

(* Compare the length with that of the last look.  A file still growing is *)
(* looked at again later and stays in waitList.                            *)
RunTask ==
  /\ timerPc = "idle"
  /\ \E t \in tasks :
       \/ /\ FileSize(t.path) = t.last
          /\ timerPc' = "settled"
          /\ timerTask' = t
          /\ tasks' = tasks \ {t}
       \/ /\ FileSize(t.path) # t.last
          /\ tasks' = (tasks \ {t})
                        \cup {[path |-> t.path, last |-> FileSize(t.path)]}
          /\ UNCHANGED timerVars
  /\ UNCHANGED <<userVars, keyVars, adminVars, watchVars, waitList>>

(* The second critical section on waitList, before the processor is called. *)
StopWaiting == waitList' = waitList \ {timerTask.path}

DropGoneFile ==
  /\ timerPc = "settled"
  /\ timerTask.last = -1
  /\ StopWaiting
  /\ timerPc' = "idle"
  /\ timerTask' = None
  /\ UNCHANGED <<userVars, keyVars, adminVars, watchVars, tasks>>

ProcessFile ==
  /\ timerPc = "settled"
  /\ timerTask.last # -1
  /\ StopWaiting
  /\ timerPc' = "process"
  /\ UNCHANGED <<userVars, keyVars, adminVars, watchVars, timerTask, tasks>>

TimerReturn ==
  /\ timerPc = "process"
  /\ timerPc' = "idle"
  /\ timerTask' = None
  /\ UNCHANGED <<userVars, keyVars, adminVars, watchVars, queueVars>>

(* A task that throws ends the timer's thread and clears its queue. *)
TimerThrow ==
  /\ timerPc = "process"
  /\ timerPc' = "dead"
  /\ timerTask' = None
  /\ tasks' = {}
  /\ UNCHANGED <<userVars, keyVars, adminVars, watchVars, waitList>>

-----------------------------------------------------------------------------
(* Actions that do not end a call of the processor. *)
Admin == OpenDirectory \/ ScanDone \/ \E p \in Path : ScanFile(p)
Watch == WatchTake \/ WatchOverflow \/ WatchQueue \/ WatchDelete \/ WatchReset
Timer == RunTask \/ DropGoneFile \/ ProcessFile

Next ==
  \/ \E p \in Path : UserChange(p)
  \/ Activate
  \/ Admin
  \/ Close
  \/ Restart
  \/ Watch
  \/ WatchReturn
  \/ WatchThrow
  \/ Timer
  \/ TimerReturn
  \/ TimerThrow

Spec == Init /\ [][Next]_vars

(* The scheduler runs each thread, and a call of the processor ends.  Users *)
(* owe nothing, nor do activation, close and the end of the JVM.            *)
Fairness ==
  /\ WF_vars(Admin)
  /\ WF_vars(Watch \/ WatchReturn \/ WatchThrow)
  /\ WF_vars(Timer \/ TimerReturn \/ TimerThrow)

FairSpec == Spec /\ Fairness

-----------------------------------------------------------------------------
(* The heart of the class: while the timer lives, a file is in waitList     *)
(* exactly while one check of it is scheduled or has just succeeded.  A     *)
(* second check would process a file twice at once; none would leave the    *)
(* file in waitList for ever, so that every later event of it is ignored.   *)
Pending(p) ==
  \/ \E t \in tasks : t.path = p
  \/ timerPc = "settled" /\ timerTask.path = p

TasksAreWaiting   == \A t \in tasks : t.path \in waitList
OneTaskPerFile    == \A t, u \in tasks : t.path = u.path => t = u
SettledIsWaiting  ==
  timerPc = "settled" =>
    /\ timerTask.path \in waitList
    /\ \A t \in tasks : t.path # timerTask.path
WaitingIsPending  == timerPc # "dead" => \A p \in waitList : Pending(p)

WaitListInv ==
  /\ TasksAreWaiting
  /\ OneTaskPerFile
  /\ SettledIsWaiting
  /\ WaitingIsPending

(* Whatever the watcher does for settled files, it does as SettleQueue says. *)
Queue == INSTANCE SettleQueue WITH
  waiting <- waitList,
  processing <- IF timerPc = "process" THEN timerTask.path ELSE None,
  halted <- timerPc = "dead"

ImplementsSettleQueue == Queue!Spec

(* A file that waits is handed over, or dropped, unless the timer died or   *)
(* the JVM ended: growth stops when the users do.                           *)
WaitingFilesSettle ==
  \A p \in Path : p \in waitList ~> (p \notin waitList \/ timerPc = "dead")

(* Events reach the watch thread, unless it ended: the key is reset after   *)
(* every batch.                                                             *)
EventsAreTaken ==
  events # <<>> ~> (events = <<>> \/ watchPc \in {"dead", "ended"})

(* "Do nothing.  The file has gone": as long as the directory is watched, a  *)
(* file the timer drops is not there, or its return is still to be announced *)
(* to the watch thread.                                                      *)
Announced(p) ==
  LET tells(s) == \E i \in 1..Len(s) :
                    s[i].kind \in {"CREATE", "MODIFY"} /\ s[i].path = p
  IN  tells(events) \/ tells(batch)

DroppedFilesAreGone ==
  [][DropGoneFile /\ service = "active" /\ watchPc \in {"take", "drain"} =>
       file[timerTask.path] = None \/ Announced(timerTask.path)]_vars
=============================================================================
