------------------------ MODULE DirectoryWatcherProofs ------------------------
(***************************************************************************)
(* Proofs about DirectoryWatcher, for any set of files, any contents, any  *)
(* event limit and any bound on changes and restarts.                      *)
(***************************************************************************)
EXTENDS DirectoryWatcher, SequenceTheorems, TLAPS

USE WatcherAssumption

(* The length of a file, or -1, is always one a task can remember. *)
LEMMA FileSizeInLength ==
  ASSUME TypeOK, NEW p \in Path
  PROVE  FileSize(p) \in Length
BY DEF TypeOK, FileSize, Length

LEMMA EmptyBatch == <<>> \in Seq(Event)
OBVIOUS

(* Queueing a file keeps the types of waitList and tasks. *)
LEMMA QueueFileType ==
  ASSUME TypeOK, NEW p \in Path, QueueFile(p) \/ QueueFileThrows(p)
  PROVE  waitList' \subseteq Path /\ tasks' \subseteq Task
<1>1. FileSize(p) \in Length
  BY FileSizeInLength
<1>2. [path |-> p, last |-> FileSize(p)] \in Task
  BY <1>1 DEF Task
<1>3. QED
  BY <1>2 DEF TypeOK, QueueFile, QueueFileThrows, queueVars

(* The WatchKey holds events of the directory only. *)
LEMMA SignalType ==
  ASSUME TypeOK, NEW p \in Path, NEW kind \in {"CREATE", "MODIFY", "DELETE"},
         Signal(kind, p)
  PROVE  events' \in Seq(Event)
<1>1. [kind |-> kind, path |-> p] \in Event /\ [kind |-> "OVERFLOW"] \in Event
  BY DEF Event
<1>2. <<[kind |-> "OVERFLOW"]>> \in Seq(Event)
  BY <1>1
<1>3. Append(events, [kind |-> kind, path |-> p]) \in Seq(Event)
  BY <1>1 DEF TypeOK
<1>4. QED
  BY <1>2, <1>3 DEF TypeOK, Signal

(* Type correctness: every variable keeps its type. *)
LEMMA InitType == Init => TypeOK
BY DEF Init, TypeOK

LEMMA NextType == TypeOK /\ [Next]_vars => TypeOK'
<1> SUFFICES ASSUME TypeOK, [Next]_vars PROVE TypeOK'
  OBVIOUS
<1> USE DEF userVars, keyVars, adminVars, watchVars, timerVars, queueVars
<1>1. ASSUME NEW p \in Path, UserChange(p) PROVE TypeOK'
  <2>1. events' \in Seq(Event)
    BY <1>1, SignalType DEF UserChange, CreateFile, WriteFile, DeleteFile
  <2>2. file' \in [Path -> Content \cup {None}]
    BY <1>1 DEF UserChange, CreateFile, WriteFile, DeleteFile, TypeOK
  <2>3. changes' \in 0..MaxChanges
    BY <1>1 DEF UserChange, TypeOK
  <2>4. QED
    BY <1>1, <2>1, <2>2, <2>3 DEF UserChange, TypeOK
<1>2. CASE Activate
  BY <1>2 DEF Activate, TypeOK
<1>3. CASE OpenDirectory
  BY <1>3 DEF OpenDirectory, TypeOK
<1>4. CASE ScanDone
  BY <1>4 DEF ScanDone, TypeOK
<1>5. ASSUME NEW p \in Path, ScanFile(p) PROVE TypeOK'
  <2>1. waitList' \subseteq Path /\ tasks' \subseteq Task
    BY <1>5, QueueFileType DEF ScanFile, TypeOK
  <2>2. scan' \subseteq Path /\ service' \in {"scanning", "failed"}
    BY <1>5 DEF ScanFile, TypeOK
  <2>3. QED
    BY <1>5, <2>1, <2>2 DEF ScanFile, TypeOK
<1>6. CASE Close
  BY <1>6 DEF Close, TypeOK
<1>7. CASE Restart
  BY <1>7 DEF Restart, TypeOK
<1>8. CASE WatchTake
  <2>1. batch' \in Seq(Event) /\ events' \in Seq(Event)
    BY <1>8, EmptyBatch DEF WatchTake, TypeOK
  <2>2. watchPc' \in {"drain", "ended"}
    BY <1>8 DEF WatchTake
  <2>3. QED
    BY <1>8, <2>1, <2>2 DEF WatchTake, TypeOK
<1>9. CASE WatchOverflow
  BY <1>9 DEF WatchOverflow, TypeOK
<1>10. CASE WatchQueue
  <2>1. Head(batch) \in Event /\ Tail(batch) \in Seq(Event)
    BY <1>10 DEF WatchQueue, TypeOK
  <2>2. Head(batch).path \in Path
    BY <1>10, <2>1 DEF WatchQueue, Event
  <2>3. waitList' \subseteq Path /\ tasks' \subseteq Task
    BY <1>10, <2>2, QueueFileType DEF WatchQueue
  <2>4. batch' \in Seq(Event) /\ watchPc' \in {"drain", "dead"}
    BY <1>10, <2>1, EmptyBatch DEF WatchQueue
  <2>5. QED
    BY <1>10, <2>3, <2>4 DEF WatchQueue, TypeOK
<1>11. CASE WatchDelete
  BY <1>11 DEF WatchDelete, TypeOK
<1>12. CASE WatchReset
  BY <1>12 DEF WatchReset, TypeOK
<1>13. CASE WatchReturn
  BY <1>13 DEF WatchReturn, TypeOK
<1>14. CASE WatchThrow
  BY <1>14 DEF WatchThrow, TypeOK
<1>15. CASE RunTask
  <2>1. PICK t \in tasks :
          \/ /\ FileSize(t.path) = t.last
             /\ timerPc' = "settled"
             /\ timerTask' = t
             /\ tasks' = tasks \ {t}
          \/ /\ FileSize(t.path) # t.last
             /\ tasks' = (tasks \ {t})
                           \cup {[path |-> t.path, last |-> FileSize(t.path)]}
             /\ UNCHANGED timerVars
    BY <1>15 DEF RunTask
  <2>2. t \in Task /\ t.path \in Path
    BY DEF TypeOK, Task
  <2>3. [path |-> t.path, last |-> FileSize(t.path)] \in Task
    BY <2>2, FileSizeInLength DEF Task
  <2>4. tasks' \subseteq Task
    BY <2>1, <2>3 DEF TypeOK
  <2>5. t # None
    BY <2>2 DEF Task
  <2>6. QED
    BY <1>15, <2>1, <2>2, <2>4, <2>5 DEF RunTask, TypeOK
<1>16. CASE DropGoneFile
  BY <1>16 DEF DropGoneFile, StopWaiting, TypeOK
<1>17. CASE ProcessFile
  BY <1>17 DEF ProcessFile, StopWaiting, TypeOK
<1>18. CASE TimerReturn
  BY <1>18 DEF TimerReturn, TypeOK
<1>19. CASE TimerThrow
  BY <1>19 DEF TimerThrow, TypeOK
<1>20. CASE UNCHANGED vars
  BY <1>20 DEF vars, TypeOK
<1>21. QED
  BY <1>1, <1>2, <1>3, <1>4, <1>5, <1>6, <1>7, <1>8, <1>9, <1>10, <1>11,
     <1>12, <1>13, <1>14, <1>15, <1>16, <1>17, <1>18, <1>19, <1>20
  DEF Next, Admin, Watch, Timer

(* DirectoryWatcher keeps its type: DirectoryWatcher.java's fields and the   *)
(* positions of its threads only take the values TypeOK lists.               *)
THEOREM TypeCorrect == Spec => []TypeOK
<1>1. QED
  BY InitType, NextType, PTL DEF Spec

-----------------------------------------------------------------------------
(* Queueing a file adds the one task of a file that had none. *)
LEMMA QueueFileKeepsWaitList ==
  ASSUME TypeOK, WaitListInv, NEW p \in Path,
         QueueFile(p) \/ QueueFileThrows(p),
         UNCHANGED timerVars
  PROVE  WaitListInv'
<1> USE DEF timerVars
<1>1. CASE Ignored(p) /\ UNCHANGED queueVars
  BY <1>1 DEF queueVars, WaitListInv, TasksAreWaiting, OneTaskPerFile,
              SettledIsWaiting, WaitingIsPending, Pending
<1>2. CASE QueueFileThrows(p)
  BY <1>2 DEF QueueFileThrows, WaitListInv, TasksAreWaiting, OneTaskPerFile,
              SettledIsWaiting, WaitingIsPending, Pending
<1>3. ASSUME ~Ignored(p), timerPc # "dead",
             waitList' = waitList \cup {p},
             tasks' = tasks \cup {[path |-> p, last |-> FileSize(p)]}
      PROVE  WaitListInv'
  <2> DEFINE new == [path |-> p, last |-> FileSize(p)]
  <2>1. p \notin waitList
    BY <1>3 DEF Ignored
  <2>2. \A t \in tasks : t.path # p
    BY <2>1 DEF WaitListInv, TasksAreWaiting
  <2>3. new.path = p /\ tasks' = tasks \cup {new}
    BY <1>3
  <2> HIDE DEF new
  <2>4. TasksAreWaiting'
    BY <1>3, <2>3 DEF WaitListInv, TasksAreWaiting
  <2>5. OneTaskPerFile'
    BY <2>2, <2>3 DEF WaitListInv, OneTaskPerFile
  <2>6. SettledIsWaiting'
    BY <1>3, <2>1, <2>3 DEF WaitListInv, SettledIsWaiting
  <2>7. WaitingIsPending'
    BY <1>3, <2>3 DEF WaitListInv, WaitingIsPending, Pending
  <2>8. QED
    BY <2>4, <2>5, <2>6, <2>7 DEF WaitListInv
<1>4. QED
  BY <1>1, <1>2, <1>3 DEF QueueFile

(* A step that touches neither the queue nor the timer keeps WaitListInv. *)
LEMMA OtherStepKeepsWaitList ==
  ASSUME WaitListInv, UNCHANGED <<queueVars, timerVars>>
  PROVE  WaitListInv'
BY DEF queueVars, timerVars, WaitListInv, TasksAreWaiting, OneTaskPerFile,
       SettledIsWaiting, WaitingIsPending, Pending

LEMMA NextKeepsWaitList == TypeOK /\ WaitListInv /\ [Next]_vars => WaitListInv'
<1> SUFFICES ASSUME TypeOK, WaitListInv, [Next]_vars PROVE WaitListInv'
  OBVIOUS
<1>1. ASSUME NEW p \in Path, UserChange(p) PROVE WaitListInv'
  BY <1>1, OtherStepKeepsWaitList DEF UserChange
<1>2. CASE Activate \/ OpenDirectory \/ ScanDone \/ Close
  BY <1>2, OtherStepKeepsWaitList DEF Activate, OpenDirectory, ScanDone, Close
<1>3. ASSUME NEW p \in Path, ScanFile(p) PROVE WaitListInv'
  <2>1. CASE UNCHANGED queueVars
    BY <1>3, <2>1, OtherStepKeepsWaitList DEF ScanFile
  <2>2. CASE QueueFile(p) \/ QueueFileThrows(p)
    BY <1>3, <2>2, QueueFileKeepsWaitList DEF ScanFile
  <2>3. QED
    BY <1>3, <2>1, <2>2 DEF ScanFile
<1>4. CASE Restart
  BY <1>4 DEF Restart, WaitListInv, TasksAreWaiting, OneTaskPerFile,
              SettledIsWaiting, WaitingIsPending
<1>5. CASE WatchTake \/ WatchOverflow \/ WatchDelete \/ WatchReset
           \/ WatchReturn \/ WatchThrow
  BY <1>5, OtherStepKeepsWaitList
  DEF WatchTake, WatchOverflow, WatchDelete, WatchReset, WatchReturn, WatchThrow
<1>6. CASE WatchQueue
  <2>1. Head(batch) \in Event
    BY <1>6 DEF WatchQueue, TypeOK
  <2>2. Head(batch).path \in Path
    BY <1>6, <2>1 DEF WatchQueue, Event
  <2>3. QED
    BY <1>6, <2>2, QueueFileKeepsWaitList DEF WatchQueue
<1>7. CASE RunTask
  <2> USE DEF WaitListInv, TasksAreWaiting, OneTaskPerFile, SettledIsWaiting,
              WaitingIsPending, Pending
  <2>1. timerPc = "idle" /\ waitList' = waitList
    BY <1>7 DEF RunTask
  <2>2. ASSUME NEW t \in tasks, timerPc' = "settled", timerTask' = t,
               tasks' = tasks \ {t}
        PROVE  WaitListInv'
    BY <2>1, <2>2
  <2>3. ASSUME NEW t \in tasks, UNCHANGED timerVars,
               tasks' = (tasks \ {t})
                          \cup {[path |-> t.path, last |-> FileSize(t.path)]}
        PROVE  WaitListInv'
    <3> DEFINE again == [path |-> t.path, last |-> FileSize(t.path)]
    <3>1. again.path = t.path /\ tasks' = (tasks \ {t}) \cup {again}
      BY <2>3
    <3> HIDE DEF again
    <3>2. TasksAreWaiting' /\ OneTaskPerFile'
      BY <2>1, <3>1
    <3>3. SettledIsWaiting' /\ WaitingIsPending'
      BY <2>1, <2>3, <3>1 DEF timerVars
    <3>4. QED
      BY <3>2, <3>3
  <2>4. QED
    BY <1>7, <2>2, <2>3 DEF RunTask
<1>8. CASE DropGoneFile \/ ProcessFile
  <2>1. /\ timerPc = "settled"
        /\ timerPc' \in {"idle", "process"}
        /\ waitList' = waitList \ {timerTask.path}
        /\ tasks' = tasks
    BY <1>8 DEF DropGoneFile, ProcessFile, StopWaiting
  <2>2. QED
    BY <2>1 DEF WaitListInv, TasksAreWaiting, OneTaskPerFile, SettledIsWaiting,
                WaitingIsPending, Pending
<1>9. CASE TimerReturn
  BY <1>9 DEF TimerReturn, queueVars, WaitListInv, TasksAreWaiting,
              OneTaskPerFile, SettledIsWaiting, WaitingIsPending, Pending
<1>10. CASE TimerThrow
  BY <1>10 DEF TimerThrow, WaitListInv, TasksAreWaiting, OneTaskPerFile,
               SettledIsWaiting, WaitingIsPending
<1>11. CASE UNCHANGED vars
  BY <1>11, OtherStepKeepsWaitList DEF vars, queueVars, timerVars
<1>12. QED
  BY <1>1, <1>2, <1>3, <1>4, <1>5, <1>6, <1>7, <1>8, <1>9, <1>10, <1>11
  DEF Next, Admin, Watch, Timer

(* waitList and the timer agree in every state: while the timer lives, each  *)
(* waiting file has exactly one check scheduled or just passed.  queueFile   *)
(* and WaitStableTask.run keep it with two separate critical sections.       *)
THEOREM WaitListCorrect == Spec => []WaitListInv
<1>1. Init => WaitListInv
  BY DEF Init, WaitListInv, TasksAreWaiting, OneTaskPerFile, SettledIsWaiting,
         WaitingIsPending
<1>2. QED
  BY <1>1, NextKeepsWaitList, TypeCorrect, PTL DEF Spec

-----------------------------------------------------------------------------
(* Queueing a file is a Notice, or nothing. *)
LEMMA QueueFileIsNotice ==
  ASSUME NEW p \in Path, QueueFile(p) \/ QueueFileThrows(p),
         UNCHANGED timerVars
  PROVE  [Queue!Next]_(Queue!vars)
<1> USE DEF timerVars, queueVars, Queue!vars
<1>1. CASE Ignored(p) /\ UNCHANGED queueVars
  BY <1>1
<1>2. CASE ~Ignored(p) /\ waitList' = waitList \cup {p}
  BY <1>2 DEF Ignored, Queue!Next, Queue!Notice
<1>3. QED
  BY <1>1, <1>2 DEF QueueFile, QueueFileThrows

LEMMA OtherStepIsStutter ==
  ASSUME UNCHANGED <<waitList, timerVars>>
  PROVE  UNCHANGED Queue!vars
BY DEF timerVars, Queue!vars

(* Outside a call the processor has no file; inside it has one of the       *)
(* directory.                                                               *)
LEMMA InCallType ==
  ASSUME TypeOK, timerPc \in {"settled", "process"}
  PROVE  timerTask.path \in Path /\ timerTask.path # None
<1>1. timerTask \in Task
  BY DEF TypeOK
<1>2. timerTask.path \in Path
  BY <1>1 DEF Task
<1>3. QED
  BY <1>2

LEMMA NextIsQueueNext ==
  TypeOK /\ WaitListInv /\ [Next]_vars => [Queue!Next]_(Queue!vars)
<1> SUFFICES ASSUME TypeOK, WaitListInv, [Next]_vars
             PROVE  [Queue!Next]_(Queue!vars)
  OBVIOUS
<1>1. ASSUME NEW p \in Path, UserChange(p) PROVE UNCHANGED Queue!vars
  BY <1>1, OtherStepIsStutter DEF UserChange, queueVars
<1>2. CASE Activate \/ OpenDirectory \/ ScanDone \/ Close
  BY <1>2, OtherStepIsStutter
  DEF Activate, OpenDirectory, ScanDone, Close, queueVars
<1>3. ASSUME NEW p \in Path, ScanFile(p) PROVE [Queue!Next]_(Queue!vars)
  <2>1. CASE UNCHANGED queueVars
    BY <1>3, <2>1, OtherStepIsStutter DEF ScanFile, queueVars
  <2>2. CASE QueueFile(p) \/ QueueFileThrows(p)
    BY <1>3, <2>2, QueueFileIsNotice DEF ScanFile
  <2>3. QED
    BY <1>3, <2>1, <2>2 DEF ScanFile
<1>4. CASE Restart
  BY <1>4 DEF Restart, Queue!Next, Queue!Restart
<1>5. CASE WatchTake \/ WatchOverflow \/ WatchDelete \/ WatchReset
           \/ WatchReturn \/ WatchThrow
  BY <1>5, OtherStepIsStutter
  DEF WatchTake, WatchOverflow, WatchDelete, WatchReset, WatchReturn,
      WatchThrow, queueVars
<1>6. CASE WatchQueue
  <2>1. Head(batch) \in Event
    BY <1>6 DEF WatchQueue, TypeOK
  <2>2. Head(batch).path \in Path
    BY <1>6, <2>1 DEF WatchQueue, Event
  <2>3. QED
    BY <1>6, <2>2, QueueFileIsNotice DEF WatchQueue
<1>7. CASE RunTask
  BY <1>7 DEF RunTask, timerVars, Queue!vars
<1>8. CASE DropGoneFile
  <2>1. timerTask.path \in Path /\ timerTask.path \in waitList
    BY <1>8, InCallType DEF DropGoneFile, WaitListInv, SettledIsWaiting
  <2>2. Queue!Forget(timerTask.path)
    BY <1>8, <2>1 DEF DropGoneFile, StopWaiting, Queue!Forget
  <2>3. QED
    BY <2>1, <2>2 DEF Queue!Next
<1>9. CASE ProcessFile
  <2>1. timerTask.path \in Path /\ timerTask.path \in waitList
    BY <1>9, InCallType DEF ProcessFile, WaitListInv, SettledIsWaiting
  <2>2. Queue!HandOver(timerTask.path)
    BY <1>9, <2>1 DEF ProcessFile, StopWaiting, Queue!HandOver
  <2>3. QED
    BY <2>1, <2>2 DEF Queue!Next
<1>10. CASE TimerReturn
  <2>1. timerTask.path # None
    BY <1>10, InCallType DEF TimerReturn
  <2>2. QED
    BY <1>10, <2>1 DEF TimerReturn, queueVars, Queue!Next, Queue!Done
<1>11. CASE TimerThrow
  <2>1. timerTask.path # None
    BY <1>11, InCallType DEF TimerThrow
  <2>2. QED
    BY <1>11, <2>1 DEF TimerThrow, Queue!Next, Queue!Fail
<1>12. CASE UNCHANGED vars
  BY <1>12, OtherStepIsStutter DEF vars, timerVars
<1>13. QED
  BY <1>1, <1>2, <1>3, <1>4, <1>5, <1>6, <1>7, <1>8, <1>9, <1>10, <1>11, <1>12
  DEF Next, Admin, Watch, Timer

(* DirectoryWatcher implements SettleQueue: start(), queueFile() and         *)
(* WaitStableTask.run() together hand each noticed file over at most once    *)
(* per wait, one at a time, and not at all after a failure.                  *)
THEOREM WatcherIsSettleQueue == Spec => ImplementsSettleQueue
<1>1. Init => Queue!Init
  BY DEF Init, Queue!Init
<1>2. QED
  BY <1>1, NextIsQueueNext, TypeCorrect, WaitListCorrect, PTL
  DEF Spec, ImplementsSettleQueue, Queue!Spec
=============================================================================
