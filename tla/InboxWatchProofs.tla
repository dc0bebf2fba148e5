--------------------------- MODULE InboxWatchProofs ---------------------------
(***************************************************************************)
(* Proofs about InboxWatch, for any set of files, any contents, any event  *)
(* limit and any bound on changes and restarts: the two threads of the     *)
(* inbox, the users and the end of the JVM interleave freely.              *)
(***************************************************************************)
EXTENDS InboxWatch, DirectoryWatcherProofs

USE InboxAssumption DEF Digest

(* Every step of the inbox is a step of the watcher it is built on. *)
LEMMA InboxStepIsWatcherStep == [InboxNext]_allVars => [Next]_vars
<1> SUFFICES ASSUME [InboxNext]_allVars PROVE [Next]_vars
  OBVIOUS
<1>1. CASE ProcessSettled
  BY <1>1 DEF ProcessSettled, ComputeDigest, LookUpSeen, FirstDigest, CheckPrior,
     UnprocessPrior, BeginImport, CopySource, MoveSource, ParseSource, CatalogDocument,
     RecordSeen, Goto, Return, Throw, Next
<1>2. CASE ProcessDelete
  BY <1>2 DEF ProcessDelete, FindSeen, CheckDeleted, UnprocessDeleted,
     ForgetSeen, Next
<1>3. CASE InboxRestart
  BY <1>3 DEF InboxRestart, Next
<1>4. QED
  BY <1>1, <1>2, <1>3 DEF InboxNext, Next, allVars

(* While the JVM is down, or the component not activated, no thread runs *)
(* and nothing waits.                                                    *)
NotStarted ==
  service = "down" =>
    /\ watchPc = "off"
    /\ batch = <<>>
    /\ events = <<>>
    /\ waitList = {}
    /\ tasks = {}
    /\ timerPc = "idle"

LEMMA NextNotStarted == TypeOK /\ NotStarted /\ [Next]_vars => NotStarted'
<1> SUFFICES ASSUME TypeOK, NotStarted, [Next]_vars, service' = "down"
             PROVE  NotStarted'
  BY DEF NotStarted
<1> USE DEF NotStarted, userVars, keyVars, adminVars, watchVars, timerVars,
            queueVars
<1>1. ASSUME NEW p \in Path, UserChange(p) PROVE NotStarted'
  BY <1>1 DEF UserChange, CreateFile, WriteFile, DeleteFile, Signal, Watched
<1>2. CASE Restart
  BY <1>2 DEF Restart
<1>3. CASE Activate \/ Admin \/ Close
  BY <1>3 DEF Activate, Admin, OpenDirectory, ScanDone, ScanFile, Close
<1>4. CASE Watch \/ WatchReturn \/ WatchThrow
  BY <1>4 DEF Watch, WatchTake, WatchOverflow, WatchQueue, WatchDelete,
     WatchReset, WatchReturn, WatchThrow
<1>5. CASE Timer \/ TimerReturn \/ TimerThrow
  BY <1>5 DEF Timer, RunTask, DropGoneFile, ProcessFile, TimerReturn, TimerThrow
<1>6. CASE UNCHANGED vars
  BY <1>6 DEF vars
<1>7. QED
  BY <1>1, <1>2, <1>3, <1>4, <1>5, <1>6 DEF Next

(* The stores and the two calls change only in a call or with the JVM, and *)
(* nobody else ends a call.                                                *)
Quiet ==
  /\ UNCHANGED inboxVars
  /\ timerPc = "process" => UNCHANGED timerVars
  /\ watchPc = "process" => UNCHANGED watchVars

LEMMA InboxSteps ==
  ASSUME NotStarted, [InboxNext]_allVars
  PROVE  Quiet \/ ProcessSettled \/ ProcessDelete \/ InboxRestart
<1> USE DEF Quiet, timerVars, watchVars
<1>1. ASSUME NEW p \in Path, UserChange(p), UNCHANGED inboxVars PROVE Quiet
  BY <1>1 DEF UserChange
<1>2. CASE (Activate \/ Close) /\ UNCHANGED inboxVars
  BY <1>2 DEF Activate, Close, NotStarted
<1>3. CASE Admin /\ UNCHANGED inboxVars
  BY <1>3 DEF Admin, OpenDirectory, ScanDone, ScanFile
<1>4. CASE Watch /\ UNCHANGED inboxVars
  BY <1>4 DEF Watch, WatchTake, WatchOverflow, WatchQueue, WatchDelete, WatchReset
<1>5. CASE Timer /\ UNCHANGED inboxVars
  BY <1>5 DEF Timer, RunTask, DropGoneFile, ProcessFile
<1>6. CASE UNCHANGED allVars
  BY <1>6 DEF allVars, vars
<1>7. QED
  BY <1>1, <1>2, <1>3, <1>4, <1>5, <1>6 DEF InboxNext

(* The file of a call on the timer thread, and that of a deletion. *)
LEMMA CallPath ==
  ASSUME TypeOK, timerPc = "process"
  PROVE  timerTask.path \in Path
BY DEF TypeOK, Task

LEMMA DeletedPath ==
  ASSUME TypeOK, watchPc = "process"
  PROVE  Deleted \in Path
<1>1. batch \in Seq(Event) /\ batch # <<>> /\ Head(batch).kind = "DELETE"
  BY DEF TypeOK
<1>2. Head(batch) \in Event
  BY <1>1
<1>3. QED
  BY <1>1, <1>2 DEF Event, Deleted

-----------------------------------------------------------------------------
(* What process() knows at each of its steps on the timer thread: a digest  *)
(* that is imported is the one of the file at hand.                         *)
FirstIsDigest == job.first \in {None, job.digest}

ImportHasFirst ==
  Importing => job.first # None

DigestIsComputed == job.pc # "digest" => job.digest # None

CallsBeginFresh ==
  /\ job.pc = "digest" => job = NoJob
  /\ deletion.pc = "find" => deletion = NoDeletion

JobOK == FirstIsDigest /\ ImportHasFirst /\ DigestIsComputed /\ CallsBeginFresh

TypeInv == InboxTypeOK /\ NotStarted /\ JobOK

LEMMA InboxInitType == InboxInit => TypeInv
<1> SUFFICES ASSUME InboxInit PROVE TypeInv
  OBVIOUS
<1>1. TypeOK
  BY InitType DEF InboxInit
<1>2. QED
  BY <1>1 DEF InboxInit, Init, NoJob, NoDeletion, TypeInv, InboxTypeOK, JobOK,
     FirstIsDigest, ImportHasFirst, DigestIsComputed, CallsBeginFresh, NotStarted,
     Importing

LEMMA InboxNextType == TypeInv /\ [InboxNext]_allVars => TypeInv'
<1> SUFFICES ASSUME TypeInv, [InboxNext]_allVars PROVE TypeInv'
  OBVIOUS
<1> USE DEF TypeInv, InboxTypeOK, JobOK, FirstIsDigest, ImportHasFirst,
            DigestIsComputed, CallsBeginFresh, NoJob, NoDeletion, storeVars, Importing
<1>1. TypeOK' /\ NotStarted'
  BY InboxStepIsWatcherStep, NextType, NextNotStarted
<1>2. CASE Quiet
  BY <1>1, <1>2 DEF Quiet, inboxVars, timerVars, watchVars
<1>3. CASE ProcessSettled
  <2>1. timerPc = "process" /\ timerTask.path \in Path
    BY <1>3, CallPath DEF ProcessSettled, ComputeDigest, LookUpSeen,
       FirstDigest, CheckPrior, UnprocessPrior, BeginImport, CopySource,
       MoveSource, ParseSource, CatalogDocument, RecordSeen, Call
  <2>2. UNCHANGED <<watchPc, deletion>>
    BY <1>3 DEF ProcessSettled, ComputeDigest, LookUpSeen, FirstDigest,
       CheckPrior, UnprocessPrior, BeginImport, CopySource, MoveSource, ParseSource,
       CatalogDocument, RecordSeen, Goto, Return, Throw, TimerReturn,
       TimerThrow, watchVars, vars
  <2> USE DEF Call, Goto, Return, Throw, TimerReturn, TimerThrow, vars
  <2>3. CASE ComputeDigest
    <3>1. file[timerTask.path] \in Content \cup {None}
      BY <2>1 DEF TypeOK
    <3>2. UNCHANGED storeVars
      BY <2>3 DEF ComputeDigest
    <3>3. CASE Throw
      BY <1>1, <2>2, <3>2, <3>3
    <3>4. CASE job' = [job EXCEPT !.pc = "lookup", !.digest = file[timerTask.path]]
               /\ timerPc' = timerPc /\ file[timerTask.path] # None
      <4>1. job = NoJob
        BY <2>3 DEF ComputeDigest
      <4>2. job' = [pc |-> "lookup", digest |-> file[timerTask.path],
                    prior |-> None, first |-> None]
        BY <3>4, <4>1
      <4>3. /\ job'.pc = "lookup" /\ job'.digest = file[timerTask.path]
            /\ job'.prior = None /\ job'.first = None
        BY ONLY <4>2
      <4>4. JobOK'
        BY <2>2, <3>4, <4>3
      <4>5. QED
        BY <1>1, <2>1, <2>2, <3>1, <3>2, <3>4, <4>2, <4>4
    <3>5. QED
      BY <2>3, <3>3, <3>4 DEF ComputeDigest
  <2>4. CASE LookUpSeen
    <3>1. seen[timerTask.path] \in Content \cup {None}
      BY <2>1 DEF TypeOK
    <3>2. UNCHANGED storeVars
      BY <2>4 DEF LookUpSeen
    <3>3. CASE Return
      BY <1>1, <2>2, <3>2, <3>3
    <3>4. CASE job' = [job EXCEPT !.pc = "first", !.prior = seen[timerTask.path]]
               /\ timerPc' = timerPc
      BY <1>1, <2>1, <2>2, <2>4, <3>1, <3>2, <3>4 DEF LookUpSeen
    <3>5. QED
      BY <2>4, <3>3, <3>4 DEF LookUpSeen
  <2>5. CASE FirstDigest
    BY <1>1, <2>1, <2>2, <2>5 DEF FirstDigest, NextAfterFirst, AfterUnprocess
  <2>6. CASE CheckPrior
    BY <1>1, <2>1, <2>2, <2>6 DEF CheckPrior, AfterUnprocess
  <2>7. CASE UnprocessPrior
    BY <1>1, <2>1, <2>2, <2>7 DEF UnprocessPrior, AfterUnprocess
  <2>8. CASE BeginImport
    BY <1>1, <2>1, <2>2, <2>8 DEF BeginImport
  <2>9. CASE CopySource
    <3>1. file[timerTask.path] \in Content \cup {None}
      BY <2>1 DEF TypeOK
    <3>2. QED
      BY <1>1, <2>1, <2>2, <2>9, <3>1 DEF CopySource
  <2>10. CASE MoveSource
    BY <1>1, <2>1, <2>2, <2>10 DEF MoveSource
  <2>11. CASE ParseSource
    BY <1>1, <2>1, <2>2, <2>11 DEF ParseSource
  <2>12. CASE CatalogDocument
    BY <1>1, <2>1, <2>2, <2>12 DEF CatalogDocument
  <2>13. CASE RecordSeen
    BY <1>1, <2>1, <2>2, <2>13 DEF RecordSeen
  <2>14. QED
    BY <1>3, <2>3, <2>4, <2>5, <2>6, <2>7, <2>8, <2>9, <2>10, <2>11, <2>12, <2>13
    DEF ProcessSettled
<1>4. CASE ProcessDelete
  <2>1. watchPc = "process" /\ Deleted \in Path
    BY <1>4, DeletedPath DEF ProcessDelete, FindSeen, CheckDeleted,
       UnprocessDeleted, ForgetSeen, DeleteCall
  <2>2. UNCHANGED <<timerPc, job, part, docs>>
    BY <1>4 DEF ProcessDelete, FindSeen, CheckDeleted, UnprocessDeleted,
       ForgetSeen, WatchReturn, WatchThrow, timerVars, vars
  <2> USE DEF DeleteCall, WatchReturn, WatchThrow, vars
  <2>3. CASE FindSeen
    <3>1. seen[Deleted] \in Content \cup {None}
      BY <2>1
    <3>2. UNCHANGED seen /\ UNCHANGED source
      BY <2>3 DEF FindSeen
    <3>3. CASE WatchThrow /\ deletion' = deletion
      BY <1>1, <2>1, <2>2, <2>3, <3>2, <3>3 DEF FindSeen
    <3>4. CASE deletion' = [pc |-> "orphan", digest |-> seen[Deleted]]
               /\ watchPc' = watchPc
      BY <1>1, <2>1, <2>2, <3>1, <3>2, <3>4
    <3>5. QED
      BY <2>3, <3>3, <3>4 DEF FindSeen
  <2>4. CASE CheckDeleted
    BY <1>1, <2>1, <2>2, <2>4 DEF CheckDeleted
  <2>5. CASE UnprocessDeleted
    BY <1>1, <2>1, <2>2, <2>5 DEF UnprocessDeleted
  <2>6. CASE ForgetSeen
    BY <1>1, <2>1, <2>2, <2>6 DEF ForgetSeen
  <2>7. QED
    BY <1>4, <2>3, <2>4, <2>5, <2>6 DEF ProcessDelete
<1>5. CASE InboxRestart
  BY <1>1, <1>5 DEF InboxRestart, Restart
<1>6. QED
  BY <1>2, <1>3, <1>4, <1>5, InboxSteps

(* The inbox keeps its type: the stores hold digests and contents, and both *)
(* calls of process() are fresh whenever their thread is outside of them.   *)
THEOREM InboxTypeCorrect == InboxSpec => []InboxTypeOK
<1>1. InboxSpec => []TypeInv
  BY InboxInitType, InboxNextType, PTL DEF InboxSpec
<1>2. TypeInv => InboxTypeOK
  BY DEF TypeInv
<1>3. QED
  BY <1>1, <1>2, PTL

LEMMA InboxTypeInv == InboxSpec => []TypeInv
BY InboxInitType, InboxNextType, PTL DEF InboxSpec

(* The inbox is a use of the watcher: whatever holds of DirectoryWatcher     *)
(* with any processor holds of it with the one of InboxWatchService.         *)
THEOREM InboxIsWatcher == InboxSpec => Spec
<1>1. InboxInit => Init
  BY DEF InboxInit
<1>2. QED
  BY <1>1, InboxStepIsWatcherStep, PTL DEF InboxSpec, Spec

-----------------------------------------------------------------------------
(* Between two calls on the stores the timer thread relies on what it read   *)
(* or wrote before: the digest to be recorded has its SourceDocument, what   *)
(* is moved is a whole copy, and a digest being imported is in no InboxSeen  *)
(* record, for only this thread adds one.                                    *)
CatalogedBeforeRecord ==
  /\ job.pc = "record" => job.digest \in docs
  /\ job.pc \in {"orphan", "unprocess"} /\ job.first = None => job.digest \in docs

MovesWholeCopy == job.pc = "move" => part[job.first] \in Content

ImportsUnseen ==
  /\ Importing => ~HasDigest(job.first)
  /\ job.pc \in {"orphan", "unprocess"} /\ job.first # None => ~HasDigest(job.first)

StoreInv ==
  /\ SeenIsCataloged /\ CatalogedBeforeRecord
  /\ SourceIsWhole /\ MovesWholeCopy
  /\ ImportsUnseen

LEMMA InboxInitStore == InboxInit => StoreInv
BY DEF InboxInit, Init, NoJob, StoreInv, SeenIsCataloged, CatalogedBeforeRecord,
   SourceIsWhole, MovesWholeCopy, ImportsUnseen, Importing

LEMMA InboxNextStore == TypeInv /\ StoreInv /\ [InboxNext]_allVars => StoreInv'
<1> SUFFICES ASSUME TypeInv, StoreInv, [InboxNext]_allVars PROVE StoreInv'
  OBVIOUS
<1> USE DEF StoreInv, SeenIsCataloged, CatalogedBeforeRecord, SourceIsWhole,
            MovesWholeCopy, ImportsUnseen, HasDigest, storeVars, Importing
<1>1. NotStarted /\ InboxTypeOK
  BY DEF TypeInv
<1>2. CASE Quiet
  BY <1>2 DEF Quiet, inboxVars
<1>3. CASE ProcessSettled
  <2>1. TypeOK /\ timerPc = "process" /\ timerTask.path \in Path
    BY <1>1, <1>3, CallPath DEF InboxTypeOK, ProcessSettled, ComputeDigest,
       LookUpSeen, FirstDigest, CheckPrior, UnprocessPrior, BeginImport,
       CopySource, MoveSource, ParseSource, CatalogDocument, RecordSeen, Call
  <2>2. /\ job \in [pc : {"digest", "lookup", "first", "orphan", "unprocess",
                        "import", "copy", "move", "parse", "catalog", "record"},
                  digest : Digest \cup {None}, prior : Digest \cup {None},
                  first : Digest \cup {None}]
        /\ seen \in [Path -> Digest \cup {None}]
        /\ source \in [Digest -> Content \cup {None, Partial}]
        /\ part \in [Digest -> Content \cup {None, Partial}]
    BY <1>1 DEF InboxTypeOK
  <2>3. job.pc # "digest" => job.digest # None
    BY DEF TypeInv, JobOK, DigestIsComputed
  <2>4. job.first \in {None, job.digest}
    BY DEF TypeInv, JobOK, FirstIsDigest
  <2>5. Importing => job.first # None
    BY DEF TypeInv, JobOK, ImportHasFirst
  <2> USE DEF Call, Goto
  <2>6. CASE job' = NoJob /\ UNCHANGED <<seen, source, docs>>
    BY <2>6 DEF NoJob
  <2>7. CASE ComputeDigest
    <3>1. job' = NoJob \/ job'.pc = "lookup"
      BY <2>2, <2>7 DEF ComputeDigest, Throw
    <3>2. QED
      BY <2>6, <2>7, <3>1 DEF ComputeDigest
  <2>8. CASE LookUpSeen
    <3>1. job' = NoJob \/ job'.pc = "first"
      BY <2>2, <2>8 DEF LookUpSeen, Return
    <3>2. QED
      BY <2>6, <2>8, <3>1 DEF LookUpSeen
  <2>9. CASE FirstDigest
    BY <2>2, <2>3, <2>9 DEF FirstDigest, NextAfterFirst, AfterUnprocess
  <2>10. CASE CheckPrior
    BY <2>2, <2>10 DEF CheckPrior, AfterUnprocess
  <2>11. CASE UnprocessPrior
    BY <2>2, <2>11 DEF UnprocessPrior, AfterUnprocess
  <2>12. CASE BeginImport
    BY <2>2, <2>4, <2>5, <2>6, <2>12 DEF BeginImport, Throw
  <2>13. CASE CopySource
    <3>1. file[timerTask.path] \in Content \cup {None} /\ job.first \in Digest
      BY <2>1, <2>2, <2>5, <2>13 DEF CopySource, TypeOK
    <3>2. CASE Throw
      BY <2>6, <2>13, <3>2 DEF CopySource, Throw
    <3>3. CASE Goto("move") /\ file[timerTask.path] # None
                /\ part' = [part EXCEPT ![job.first] = file[timerTask.path]]
      BY <2>2, <2>13, <3>1, <3>3 DEF CopySource
    <3>4. QED
      BY <2>13, <3>2, <3>3 DEF CopySource
  <2>14. CASE MoveSource
    BY <2>2, <2>5, <2>14 DEF MoveSource
  <2>15. CASE ParseSource
    BY <2>2, <2>4, <2>5, <2>6, <2>15 DEF ParseSource, Throw
  <2>16. CASE CatalogDocument
    <3>1. job.first \in Digest /\ job.first = job.digest
      BY <2>2, <2>4, <2>5, <2>16 DEF CatalogDocument
    <3>2. QED
      BY <2>2, <2>16, <3>1 DEF CatalogDocument
  <2>17. CASE RecordSeen
    <3>1. job.digest \in docs /\ job' = NoJob
      BY <2>17 DEF RecordSeen, Return
    <3>2. \A p \in Path : seen'[p] \in {seen[p], job.digest}
      BY <2>1, <2>2, <2>17 DEF RecordSeen
    <3>3. QED
      BY <2>17, <3>1, <3>2 DEF RecordSeen, NoJob
  <2>18. QED
    BY <1>3, <2>7, <2>8, <2>9, <2>10, <2>11, <2>12, <2>13, <2>14, <2>15, <2>16, <2>17
    DEF ProcessSettled
<1>4. CASE ProcessDelete
  <2>1. TypeOK /\ watchPc = "process" /\ Deleted \in Path
    BY <1>1, <1>4, DeletedPath DEF InboxTypeOK, ProcessDelete, FindSeen,
       CheckDeleted, UnprocessDeleted, ForgetSeen, DeleteCall
  <2>2. UNCHANGED <<job, part, docs>>
    BY <1>4 DEF ProcessDelete, FindSeen, CheckDeleted, UnprocessDeleted,
       ForgetSeen
  <2>3. CASE FindSeen \/ CheckDeleted
    BY <2>2, <2>3 DEF FindSeen, CheckDeleted
  <2>4. CASE UnprocessDeleted
    BY <2>2, <2>4 DEF UnprocessDeleted
  <2>5. CASE ForgetSeen
    <3>1. \A q \in Path : seen'[q] \in {seen[q], None}
      BY <1>1, <2>1, <2>5 DEF ForgetSeen, InboxTypeOK
    <3>2. UNCHANGED <<job, source, part, docs>>
      BY <2>2, <2>5 DEF ForgetSeen
    <3>3. Importing => job.first # None
      BY DEF TypeInv, JobOK, ImportHasFirst
    <3>4. QED
      BY <3>1, <3>2, <3>3
  <2>6. QED
    BY <1>4, <2>3, <2>4, <2>5 DEF ProcessDelete
<1>5. CASE InboxRestart
  BY <1>5 DEF InboxRestart, NoJob
<1>6. QED
  BY <1>1, <1>2, <1>3, <1>4, <1>5, InboxSteps

LEMMA InboxStoreInv == InboxSpec => []StoreInv
BY InboxInitStore, InboxNextStore, InboxTypeInv, PTL DEF InboxSpec

(* A file recorded as seen has its SourceDocument, wherever the JVM ended:  *)
(* importFile adds the document first, and a digest found in another record *)
(* keeps its document, for nothing removes one.                             *)
THEOREM RecordedFilesAreCataloged == InboxSpec => []SeenIsCataloged
<1>1. StoreInv => SeenIsCataloged
  BY DEF StoreInv
<1>2. QED
  BY <1>1, InboxStoreInv, PTL

(* What is stored under a digest is never half a file: SafeOutputStream      *)
(* moves its .part file only after the copy was committed.                   *)
THEOREM StoredSourcesAreWhole == InboxSpec => []SourceIsWhole
<1>1. StoreInv => SourceIsWhole
  BY DEF StoreInv
<1>2. QED
  BY <1>1, InboxStoreInv, PTL

(* No import starts for a digest that an InboxSeen record holds, and none   *)
(* gets one before it ends: the only thread that adds records is importing. *)
THEOREM NoDigestIsImportedTwice == InboxSpec => []NoSecondImport
<1>1. StoreInv => NoSecondImport
  BY DEF StoreInv, ImportsUnseen, NoSecondImport
<1>2. QED
  BY <1>1, InboxStoreInv, PTL

-----------------------------------------------------------------------------
(* The inbox implements DocumentInbox: what a thread keeps between two calls *)
(* on the stores is hidden, and so are the steps that change nothing else.   *)
LEMMA UserSteps ==
  ASSUME [InboxNext]_allVars, file' # file
  PROVE  \E p \in Path, c \in Content \cup {None} : file' = [file EXCEPT ![p] = c]
<1>1. ASSUME NEW p \in Path, UserChange(p)
      PROVE  \E c \in Content \cup {None} : file' = [file EXCEPT ![p] = c]
  BY <1>1 DEF UserChange, CreateFile, WriteFile, DeleteFile
<1>2. CASE (Activate \/ Admin \/ Close \/ Watch \/ Timer) /\ UNCHANGED inboxVars
  BY <1>2 DEF Activate, Close, Admin, OpenDirectory, ScanDone, ScanFile, Watch, WatchTake,
     WatchOverflow, WatchQueue, WatchDelete, WatchReset, Timer, RunTask, DropGoneFile,
     ProcessFile, userVars
<1>3. CASE ProcessSettled
  BY <1>3 DEF ProcessSettled, ComputeDigest, LookUpSeen, FirstDigest, CheckPrior,
     UnprocessPrior, BeginImport, CopySource, MoveSource, ParseSource, CatalogDocument, RecordSeen,
     Goto, Return, Throw, TimerReturn, TimerThrow, userVars, vars
<1>4. CASE ProcessDelete
  BY <1>4 DEF ProcessDelete, FindSeen, CheckDeleted, UnprocessDeleted, ForgetSeen,
     WatchThrow, WatchReturn, userVars, vars
<1>5. CASE InboxRestart \/ UNCHANGED allVars
  BY <1>5 DEF InboxRestart, Restart, userVars, allVars, vars
<1>6. QED
  BY <1>1, <1>2, <1>3, <1>4, <1>5 DEF InboxNext

(* A file is taken in from the time its digest is computed. *)
LEMMA NotTaken ==
  ASSUME InboxTypeOK, timerPc # "process"
  PROVE  job.pc = "digest"
BY DEF InboxTypeOK, NoJob

LEMMA HiddenStep ==
  ASSUME UNCHANGED <<file, source, docs, seen, timerTask, timerPc>>,
         job'.digest = job.digest, job.pc # "digest", job'.pc # "digest",
         job.pc # "catalog", job'.pc # "catalog"
  PROVE  UNCHANGED Intake!vars
BY DEF Intake!vars

LEMMA EndOfCall ==
  ASSUME UNCHANGED <<file, source, docs, seen>>, job' = NoJob
  PROVE  Intake!Release
BY DEF Intake!Release, NoJob

LEMMA QuietIntake ==
  ASSUME TypeInv, Quiet, [InboxNext]_allVars
  PROVE  [Intake!Next]_(Intake!vars)
<1>1. UNCHANGED <<source, docs, seen, job>>
  BY DEF Quiet, inboxVars
<1>2. LET taken == IF timerPc = "process" /\ job.pc # "digest" THEN timerTask.path ELSE None
      IN  taken' = taken
  <2>1. CASE timerPc = "process"
    BY <1>1, <2>1 DEF Quiet, timerVars
  <2>2. CASE timerPc # "process"
    BY <1>1, <2>2, NotTaken DEF TypeInv
  <2>3. QED
    BY <2>1, <2>2
<1>3. CASE file' = file
  BY <1>1, <1>2, <1>3 DEF Intake!vars
<1>4. CASE file' # file
  <2>1. PICK p \in Path : \E c \in Content \cup {None} : file' = [file EXCEPT ![p] = c]
    BY <1>4, UserSteps
  <2>2. Intake!Change(p)
    BY <1>1, <1>2, <2>1 DEF Intake!Change
  <2>3. QED
    BY <2>2 DEF Intake!Next
<1>5. QED
  BY <1>3, <1>4

LEMMA SettledIntake ==
  ASSUME TypeInv, StoreInv, ProcessSettled
  PROVE  [Intake!Next]_(Intake!vars)
<1>1. /\ InboxTypeOK /\ TypeOK /\ timerPc = "process"
      /\ timerTask.path \in Path /\ timerTask.path # None
  BY CallPath, WatcherAssumption DEF TypeInv, InboxTypeOK, ProcessSettled, ComputeDigest,
     LookUpSeen, FirstDigest, CheckPrior, UnprocessPrior, BeginImport, CopySource,
     MoveSource, ParseSource, CatalogDocument, RecordSeen, Call
<1>2. /\ job \in [pc : {"digest", "lookup", "first", "orphan", "unprocess",
                        "import", "copy", "move", "parse", "catalog", "record"},
                  digest : Digest \cup {None}, prior : Digest \cup {None},
                  first : Digest \cup {None}]
      /\ source \in [Digest -> Content \cup {None, Partial}]
  BY <1>1 DEF InboxTypeOK
<1>3. /\ job.pc # "digest" => job.digest # None
      /\ job.first \in {None, job.digest}
      /\ Importing => job.first # None
  BY DEF TypeInv, JobOK, DigestIsComputed, FirstIsDigest, ImportHasFirst
<1>4. ASSUME job.pc \in {"move", "catalog"} PROVE Intake!Unrecorded(job.digest)
  <2>1. ~HasDigest(job.first) /\ job.first = job.digest
    BY <1>3, <1>4 DEF StoreInv, ImportsUnseen, Importing
  <2>2. QED
    BY <2>1 DEF HasDigest, Intake!Unrecorded
<1> USE DEF Call, Goto, storeVars
<1>5. CASE ComputeDigest
  <2>1. CASE Throw
    <3>1. Intake!Release
      BY <1>5, <2>1, EndOfCall DEF ComputeDigest, Throw, TimerThrow, userVars
    <3>2. QED
      BY <3>1 DEF Intake!Next
  <2>2. CASE ~Throw
    <3>1. /\ file[timerTask.path] # None /\ UNCHANGED vars /\ job.pc = "digest"
          /\ job' = [job EXCEPT !.pc = "lookup", !.digest = file[timerTask.path]]
          /\ UNCHANGED <<source, docs, seen>>
      BY <1>5, <2>2 DEF ComputeDigest
    <3>2. job'.pc = "lookup" /\ job'.digest = file[timerTask.path]
      BY <1>2, <3>1
    <3>3. Intake!Take(timerTask.path)
      BY <1>1, <3>1, <3>2 DEF Intake!Take, vars
    <3>4. QED
      BY <1>1, <3>3 DEF Intake!Next
  <2>3. QED
    BY <2>1, <2>2
<1>6. ASSUME job' = NoJob, UNCHANGED <<file, source, docs, seen>>
      PROVE  [Intake!Next]_(Intake!vars)
  BY <1>6, EndOfCall DEF Intake!Next
<1>7. ASSUME UNCHANGED <<vars, source, docs, seen>>, job'.digest = job.digest,
             job.pc # "digest", job'.pc # "digest",
             job.pc # "catalog", job'.pc # "catalog"
      PROVE  [Intake!Next]_(Intake!vars)
  BY <1>7, HiddenStep DEF vars
<1>8. CASE LookUpSeen
  <2>1. CASE Return
    BY <1>6, <1>8, <2>1 DEF LookUpSeen, Return, TimerReturn, userVars
  <2>2. CASE ~Return
    <3>1. /\ UNCHANGED <<vars, source, docs, seen>> /\ job.pc = "lookup"
          /\ job' = [job EXCEPT !.pc = "first", !.prior = seen[timerTask.path]]
      BY <1>8, <2>2 DEF LookUpSeen
    <3>2. job'.digest = job.digest /\ job'.pc = "first"
      BY <1>2, <3>1
    <3>3. QED
      BY <1>7, <3>1, <3>2
  <2>3. QED
    BY <2>1, <2>2
<1>9. CASE FirstDigest
  <2>1. job'.digest = job.digest /\ job'.pc \notin {"digest", "catalog"} /\ job.pc = "first"
    BY <1>2, <1>9 DEF FirstDigest, NextAfterFirst, AfterUnprocess
  <2>2. QED
    BY <1>7, <1>9, <2>1 DEF FirstDigest
<1>10. CASE CheckPrior
  <2>1. job'.digest = job.digest /\ job'.pc \notin {"digest", "catalog"} /\ job.pc = "orphan"
    BY <1>2, <1>10 DEF CheckPrior, AfterUnprocess
  <2>2. QED
    BY <1>7, <1>10, <2>1 DEF CheckPrior
<1>11. CASE UnprocessPrior
  <2>1. /\ job'.digest = job.digest /\ job'.pc \notin {"digest", "catalog"} /\ job.pc = "unprocess"
        /\ UNCHANGED <<vars, docs, seen>>
        /\ source' = [source EXCEPT ![job.prior] = None]
    BY <1>2, <1>11 DEF UnprocessPrior, AfterUnprocess
  <2>2. CASE job.prior \in Content
    <3>1. PICK c \in Content : c = job.prior
      BY <2>2
    <3>2. Intake!Unstore(c)
      BY <1>2, <2>1, <3>1 DEF Intake!Unstore, vars
    <3>3. QED
      BY <3>2 DEF Intake!Next
  <2>3. CASE job.prior \notin Content
    <3>1. source' = source
      BY <1>2, <2>1, <2>3
    <3>2. QED
      BY <1>7, <2>1, <3>1
  <2>4. QED
    BY <2>2, <2>3
<1>12. CASE BeginImport
  <2>1. CASE Throw
    BY <1>6, <1>12, <2>1 DEF BeginImport, Throw, TimerThrow, userVars
  <2>2. CASE ~Throw
    <3>1. /\ job'.digest = job.digest /\ job'.pc \notin {"digest", "catalog"} /\ job.pc = "import"
          /\ UNCHANGED vars
      BY <1>2, <1>12, <2>2 DEF BeginImport
    <3>2. QED
      BY <1>7, <1>12, <3>1 DEF BeginImport
  <2>3. QED
    BY <2>1, <2>2
<1>13. CASE CopySource
  <2>1. CASE Throw
    BY <1>6, <1>13, <2>1 DEF CopySource, Throw, TimerThrow, userVars
  <2>2. CASE ~Throw
    <3>1. /\ job'.digest = job.digest /\ job'.pc \notin {"digest", "catalog"} /\ job.pc = "copy"
          /\ UNCHANGED vars
      BY <1>2, <1>13, <2>2 DEF CopySource
    <3>2. QED
      BY <1>7, <1>13, <3>1 DEF CopySource
  <2>3. QED
    BY <2>1, <2>2
<1>14. CASE MoveSource
  <2>1. /\ job'.digest = job.digest /\ job'.pc = "parse" /\ job.pc = "move"
        /\ UNCHANGED <<vars, docs, seen>>
        /\ source' = [source EXCEPT ![job.digest] = part[job.first]]
    BY <1>2, <1>3, <1>14 DEF MoveSource, Importing
  <2>2. part[job.first] # None /\ job.digest \in Digest
    BY <1>2, <1>3, <2>1, WatcherAssumption DEF StoreInv, MovesWholeCopy
  <2>3. {d \in Digest : source'[d] # None} = {d \in Digest : source[d] # None} \cup {job.digest}
    BY <1>2, <2>1, <2>2
  <2>4. Intake!Store
    BY <1>1, <1>4, <2>1, <2>3 DEF Intake!Store, vars
  <2>5. QED
    BY <2>4 DEF Intake!Next
<1>15. CASE ParseSource
  <2>1. CASE Throw
    BY <1>6, <1>15, <2>1 DEF ParseSource, Throw, TimerThrow, userVars
  <2>2. CASE ~Throw
    <3>1. /\ job'.digest = job.digest /\ job'.pc = "catalog" /\ job.pc = "parse"
          /\ UNCHANGED <<vars, source, docs, seen>> /\ source[job.first] # None
      BY <1>2, <1>15, <2>2 DEF ParseSource
    <3>2. job.digest \in {d \in Digest : source[d] # None}
      BY <1>2, <1>3, <3>1 DEF Importing
    <3>3. Intake!Parse
      BY <1>1, <3>1, <3>2 DEF Intake!Parse, vars
    <3>4. QED
      BY <3>3 DEF Intake!Next
  <2>3. QED
    BY <2>1, <2>2
<1>16. CASE CatalogDocument
  <2>1. /\ job'.digest = job.digest /\ job'.pc = "record" /\ job.pc = "catalog"
        /\ UNCHANGED <<vars, source, seen>> /\ docs' = docs \cup {job.digest}
    BY <1>2, <1>3, <1>16 DEF CatalogDocument, Importing
  <2>2. Intake!Catalog
    BY <1>1, <1>4, <2>1 DEF Intake!Catalog, vars
  <2>3. QED
    BY <2>2 DEF Intake!Next
<1>17. CASE RecordSeen
  <2>1. /\ job.pc = "record" /\ job' = NoJob /\ UNCHANGED <<file, source, docs>>
        /\ seen' = [seen EXCEPT ![timerTask.path] = job.digest]
    BY <1>17 DEF RecordSeen, Return, TimerReturn, userVars
  <2>2. job.digest \in docs
    BY <2>1 DEF StoreInv, CatalogedBeforeRecord
  <2>3. Intake!Record
    BY <1>1, <2>1, <2>2 DEF Intake!Record, NoJob
  <2>4. QED
    BY <2>3 DEF Intake!Next
<1>18. QED
  BY <1>5, <1>8, <1>9, <1>10, <1>11, <1>12, <1>13, <1>14, <1>15, <1>16, <1>17
  DEF ProcessSettled

LEMMA DeleteIntake ==
  ASSUME TypeInv, ProcessDelete
  PROVE  [Intake!Next]_(Intake!vars)
<1>1. InboxTypeOK /\ TypeOK /\ watchPc = "process" /\ Deleted \in Path
  BY DeletedPath DEF TypeInv, InboxTypeOK, ProcessDelete, FindSeen, CheckDeleted,
     UnprocessDeleted, ForgetSeen, DeleteCall
<1>2. UNCHANGED <<file, timerPc, timerTask, job, docs>>
  BY DEF ProcessDelete, FindSeen, CheckDeleted, UnprocessDeleted, ForgetSeen,
     WatchThrow, WatchReturn, userVars, timerVars, vars, storeVars
<1>3. CASE FindSeen \/ CheckDeleted
  BY <1>2, <1>3 DEF FindSeen, CheckDeleted, storeVars, Intake!vars
<1>4. CASE UnprocessDeleted
  <2>1. source' = [source EXCEPT ![deletion.digest] = None] /\ seen' = seen
    BY <1>4 DEF UnprocessDeleted
  <2>2. source \in [Digest -> Content \cup {None, Partial}]
    BY <1>1 DEF InboxTypeOK
  <2>3. CASE deletion.digest \in Content
    <3>1. PICK c \in Content : c = deletion.digest
      BY <2>3
    <3>2. Intake!Unstore(c)
      BY <1>2, <2>1, <2>2, <3>1 DEF Intake!Unstore
    <3>3. QED
      BY <3>2 DEF Intake!Next
  <2>4. CASE deletion.digest \notin Content
    <3>1. source' = source
      BY <2>1, <2>2, <2>4
    <3>2. QED
      BY <1>2, <2>1, <3>1 DEF Intake!vars
  <2>5. QED
    BY <2>3, <2>4
<1>5. CASE ForgetSeen
  <2>1. seen' = [seen EXCEPT ![Deleted] = None] /\ source' = source
    BY <1>5 DEF ForgetSeen
  <2>2. Intake!Forget(Deleted)
    BY <1>2, <2>1 DEF Intake!Forget
  <2>3. QED
    BY <1>1, <2>2 DEF Intake!Next
<1>6. QED
  BY <1>3, <1>4, <1>5 DEF ProcessDelete

(* Whatever the two threads do, and wherever the JVM ends, files are taken   *)
(* in one at a time with one content they had, and stored, cataloged and     *)
(* recorded in that order and with that content, which nothing records yet   *)
(* while it is stored or cataloged.                                          *)
THEOREM InboxIsDocumentInbox == InboxSpec => ImplementsDocumentInbox
<1>1. InboxInit => Intake!Init
  BY DEF InboxInit, Init, NoJob, Intake!Init
<1>2. TypeInv /\ StoreInv /\ [InboxNext]_allVars => [Intake!Next]_(Intake!vars)
  <2> SUFFICES ASSUME TypeInv, StoreInv, [InboxNext]_allVars
               PROVE  [Intake!Next]_(Intake!vars)
    OBVIOUS
  <2>1. CASE InboxRestart
    <3>1. Intake!Release
      BY <2>1, EndOfCall DEF InboxRestart, Restart, storeVars, userVars
    <3>2. QED
      BY <3>1 DEF Intake!Next
  <2>2. NotStarted
    BY DEF TypeInv
  <2>3. QED
    BY <2>1, <2>2, QuietIntake, SettledIntake, DeleteIntake, InboxSteps
<1>3. QED
  BY <1>1, <1>2, InboxTypeInv, InboxStoreInv, PTL
  DEF InboxSpec, ImplementsDocumentInbox, Intake!Spec

-----------------------------------------------------------------------------
(* Only files that users may delete are announced as deleted.             *)
HonestEvent == {e \in Event : e.kind = "DELETE" => e.path \in Deletable}

EventsAreHonest == events \in Seq(HonestEvent) /\ batch \in Seq(HonestEvent)

LEMMA NextHonest == TypeOK /\ EventsAreHonest /\ [Next]_vars => EventsAreHonest'
<1> SUFFICES ASSUME TypeOK, EventsAreHonest, [Next]_vars
             PROVE  EventsAreHonest'
  OBVIOUS
<1> USE DEF EventsAreHonest, userVars, keyVars, adminVars, watchVars, timerVars,
            queueVars
<1>1. <<>> \in Seq(HonestEvent)
  OBVIOUS
<1>2. ASSUME NEW p \in Path, UserChange(p) PROVE EventsAreHonest'
  <2>1. ASSUME NEW kind \in {"CREATE", "MODIFY", "DELETE"}, Signal(kind, p),
               kind = "DELETE" => p \in Deletable
        PROVE  events' \in Seq(HonestEvent)
    <3>1. [kind |-> kind, path |-> p] \in HonestEvent
      BY <2>1 DEF HonestEvent, Event
    <3>2. [kind |-> "OVERFLOW"] \in HonestEvent
      BY DEF HonestEvent, Event
    <3>3. <<[kind |-> "OVERFLOW"]>> \in Seq(HonestEvent)
      BY <3>2
    <3>4. Append(events, [kind |-> kind, path |-> p]) \in Seq(HonestEvent)
      BY <3>1
    <3>5. QED
      BY <2>1, <3>3, <3>4 DEF Signal
  <2>2. events' \in Seq(HonestEvent)
    BY <1>2, <2>1 DEF UserChange, CreateFile, WriteFile, DeleteFile
  <2>3. QED
    BY <1>2, <2>2 DEF UserChange
<1>3. CASE Restart
  BY <1>1, <1>3 DEF Restart
<1>4. CASE Activate \/ Admin \/ Close
  BY <1>1, <1>4 DEF Activate, Admin, OpenDirectory, ScanDone, ScanFile, Close
<1>5. CASE Watch \/ WatchReturn \/ WatchThrow
  <2>1. watchPc = "process" => batch # <<>>
    BY DEF TypeOK
  <2>2. batch # <<>> => Tail(batch) \in Seq(HonestEvent)
    OBVIOUS
  <2>3. QED
    BY <1>1, <1>5, <2>1, <2>2 DEF Watch, WatchTake, WatchOverflow, WatchQueue,
       WatchDelete, WatchReset, WatchReturn, WatchThrow
<1>6. CASE Timer \/ TimerReturn \/ TimerThrow
  BY <1>6 DEF Timer, RunTask, DropGoneFile, ProcessFile, TimerReturn, TimerThrow
<1>7. CASE UNCHANGED vars
  BY <1>7 DEF vars
<1>8. QED
  BY <1>2, <1>3, <1>4, <1>5, <1>6, <1>7 DEF Next

LEMMA InboxHonest == InboxSpec => []EventsAreHonest
<1>1. InboxInit => EventsAreHonest
  <2>1. <<>> \in Seq(HonestEvent)
    OBVIOUS
  <2>2. QED
    BY <2>1 DEF InboxInit, Init, EventsAreHonest
<1>2. TypeInv => TypeOK
  BY DEF TypeInv, InboxTypeOK
<1>3. QED
  BY <1>1, <1>2, NextHonest, InboxStepIsWatcherStep, InboxTypeInv, PTL
  DEF InboxSpec

(* While the two threads do not process at once, each finds in its record    *)
(* the digest it looks up: the record of a file that changed or went is      *)
(* replaced or removed only after the look-up.                               *)
Apart == ~(timerPc = "process" /\ watchPc = "process")

PriorIsSeen ==
  /\ job.pc \in {"first", "orphan"} => seen[timerTask.path] = job.prior
  /\ job.pc # "unprocess"

DeletedIsSeen ==
  /\ deletion.pc = "orphan" => seen[Deleted] = deletion.digest
  /\ deletion.pc # "unprocess"

SourceInv ==
  /\ PriorIsSeen
  /\ DeletedIsSeen
  /\ \A d \in docs : source[d] # None
  /\ job.pc = "catalog" => source[job.first] # None

LEMMA InboxNextSource ==
  TypeInv /\ StoreInv /\ SourceInv /\ Apart /\ [InboxNext]_allVars => SourceInv'
<1> SUFFICES ASSUME TypeInv, StoreInv, SourceInv, Apart, [InboxNext]_allVars
             PROVE  SourceInv'
  OBVIOUS
<1> USE DEF SourceInv, PriorIsSeen, DeletedIsSeen, storeVars
<1>1. NotStarted /\ InboxTypeOK /\ TypeOK
  BY DEF TypeInv, InboxTypeOK
<1>2. CASE Quiet
  <2>1. /\ job.pc # "digest" => timerPc = "process"
        /\ deletion.pc # "find" => watchPc = "process"
    BY <1>1 DEF InboxTypeOK, NoJob, NoDeletion
  <2>2. QED
    BY <1>2, <2>1 DEF Quiet, inboxVars, timerVars, watchVars, Deleted
<1>3. CASE ProcessSettled
  <2>1. timerPc = "process" /\ timerTask.path \in Path
    BY <1>1, <1>3, CallPath DEF ProcessSettled, ComputeDigest, LookUpSeen,
       FirstDigest, CheckPrior, UnprocessPrior, BeginImport, CopySource,
       MoveSource, ParseSource, CatalogDocument, RecordSeen, Call
  <2>2. /\ job \in [pc : {"digest", "lookup", "first", "orphan", "unprocess",
                        "import", "copy", "move", "parse", "catalog", "record"},
                  digest : Digest \cup {None}, prior : Digest \cup {None},
                  first : Digest \cup {None}]
        /\ seen \in [Path -> Digest \cup {None}]
        /\ source \in [Digest -> Content \cup {None, Partial}]
    BY <1>1 DEF InboxTypeOK
  <2>3. deletion = NoDeletion /\ deletion' = NoDeletion
    <3>1. watchPc # "process"
      BY <2>1 DEF Apart
    <3>2. deletion = NoDeletion
      BY <1>1, <3>1 DEF InboxTypeOK
    <3>3. QED
      BY <1>3, <3>2 DEF ProcessSettled, ComputeDigest, LookUpSeen,
         FirstDigest, CheckPrior, UnprocessPrior, BeginImport, CopySource,
         MoveSource, ParseSource, CatalogDocument, RecordSeen
  <2>4. deletion'.pc = "find"
    BY <2>3 DEF NoDeletion
  <2> USE DEF Call, Goto
  <2>5. CASE job' = NoJob /\ UNCHANGED <<source, docs>>
    BY <2>4, <2>5 DEF NoJob
  <2>6. CASE ComputeDigest
    <3>1. job' = NoJob \/ job'.pc = "lookup"
      BY <2>2, <2>6 DEF ComputeDigest, Throw
    <3>2. QED
      BY <2>4, <2>5, <2>6, <3>1 DEF ComputeDigest
  <2>7. CASE LookUpSeen
    <3>1. \/ job' = NoJob
          \/ /\ job'.pc = "first" /\ job'.prior = seen[timerTask.path]
             /\ timerTask' = timerTask
      BY <2>2, <2>7 DEF LookUpSeen, Return, vars
    <3>2. QED
      BY <2>4, <2>5, <2>7, <3>1 DEF LookUpSeen
  <2>8. CASE FirstDigest
    BY <2>2, <2>4, <2>8 DEF FirstDigest, NextAfterFirst, AfterUnprocess, vars
  <2>9. CASE CheckPrior
    <3>1. HasDigest(job.prior)
      BY <2>1, <2>9 DEF CheckPrior, HasDigest
    <3>2. QED
      BY <2>2, <2>4, <2>9, <3>1 DEF CheckPrior, AfterUnprocess
  <2>10. CASE UnprocessPrior
    BY <2>10 DEF UnprocessPrior
  <2>11. CASE BeginImport
    BY <2>2, <2>4, <2>5, <2>11 DEF BeginImport, Throw
  <2>12. CASE CopySource
    BY <2>2, <2>4, <2>5, <2>12 DEF CopySource, Throw
  <2>13. CASE MoveSource
    <3>1. part[job.first] \in Content
      BY <2>13 DEF MoveSource, StoreInv, MovesWholeCopy
    <3>2. QED
      BY <2>2, <2>4, <2>13, <3>1, WatcherAssumption DEF MoveSource
  <2>14. CASE ParseSource
    BY <2>2, <2>4, <2>5, <2>14 DEF ParseSource, Throw
  <2>15. CASE CatalogDocument
    BY <2>2, <2>4, <2>15 DEF CatalogDocument
  <2>16. CASE RecordSeen
    BY <2>5, <2>16 DEF RecordSeen, Return
  <2>17. QED
    BY <1>3, <2>6, <2>7, <2>8, <2>9, <2>10, <2>11, <2>12, <2>13, <2>14, <2>15, <2>16
    DEF ProcessSettled
<1>4. CASE ProcessDelete
  <2>1. watchPc = "process" /\ Deleted \in Path
    BY <1>1, <1>4, DeletedPath DEF ProcessDelete, FindSeen, CheckDeleted,
       UnprocessDeleted, ForgetSeen, DeleteCall
  <2>2. job = NoJob /\ job' = NoJob
    <3>1. timerPc # "process"
      BY <2>1 DEF Apart
    <3>2. job = NoJob
      BY <1>1, <3>1 DEF InboxTypeOK
    <3>3. QED
      BY <1>4, <3>2 DEF ProcessDelete, FindSeen, CheckDeleted, UnprocessDeleted,
         ForgetSeen
  <2>3. job'.pc = "digest"
    BY <2>2 DEF NoJob
  <2>4. deletion \in [pc : {"find", "orphan", "unprocess", "forget"},
                      digest : Digest \cup {None}]
    BY <1>1 DEF InboxTypeOK
  <2> USE DEF DeleteCall
  <2>5. CASE FindSeen
    <3>1. CASE deletion' = deletion
      BY <2>3, <2>5, <3>1 DEF FindSeen
    <3>2. CASE /\ deletion' = [pc |-> "orphan", digest |-> seen[Deleted]]
               /\ UNCHANGED vars
      BY <2>3, <2>5, <3>2 DEF FindSeen, Deleted, vars
    <3>3. QED
      BY <2>5, <3>1, <3>2 DEF FindSeen
  <2>6. CASE CheckDeleted
    <3>1. HasDigest(deletion.digest)
      BY <2>1, <2>6 DEF CheckDeleted, HasDigest
    <3>2. QED
      BY <2>3, <2>4, <2>6, <3>1 DEF CheckDeleted
  <2>7. CASE UnprocessDeleted
    BY <2>7 DEF UnprocessDeleted
  <2>8. CASE ForgetSeen
    BY <2>3, <2>8 DEF ForgetSeen, NoDeletion
  <2>9. QED
    BY <1>4, <2>5, <2>6, <2>7, <2>8 DEF ProcessDelete
<1>5. CASE InboxRestart
  BY <1>5 DEF InboxRestart, NoJob, NoDeletion
<1>6. QED
  BY <1>1, <1>2, <1>3, <1>4, <1>5, InboxSteps

(* "A copy of the source document" goes missing only where a DELETE is       *)
(* processed while the timer thread processes a settled file: as long as     *)
(* the two calls never overlap, each recorded file has its source, whatever  *)
(* users create, change and delete, and wherever the JVM ends.               *)
THEOREM RecordedFilesHaveSource == InboxSpec /\ []Apart => []SeenHasSource
<1>1. InboxInit => SourceInv
  BY DEF InboxInit, NoJob, NoDeletion, SourceInv, PriorIsSeen, DeletedIsSeen
<1>2. StoreInv /\ SourceInv => SeenHasSource
  BY DEF StoreInv, SourceInv, SeenIsCataloged, SeenHasSource
<1>3. QED
  BY <1>1, <1>2, InboxNextSource, InboxTypeInv, InboxStoreInv, PTL DEF InboxSpec

-----------------------------------------------------------------------------
(* The inbox is up to date at rest because a kept file is never forgotten:   *)
(* as long as the threads live and the WatchKey did not overflow, a change   *)
(* of the file is still announced, or the file waits, or has still to be     *)
(* scanned, or is being processed with its present digest, or is recorded    *)
(* with it.                                                                  *)
NoOverflow == \A i \in 1..Len(events) : events[i].kind # "OVERFLOW"

Alive ==
  /\ service \notin {"failed", "closed"}
  /\ watchPc \notin {"ended", "dead"}
  /\ timerPc # "dead"

Processing(p) == timerPc = "process" /\ timerTask.path = p

Current(p) ==
  IF Processing(p) THEN job.pc = "digest" \/ job.digest = file[p]
  ELSE seen[p] = file[p]

Remembered(p) ==
  \/ Announced(p)
  \/ p \in waitList
  \/ p \in scan
  \/ service \in {"down", "starting"}
  \/ Current(p)

NothingForgotten ==
  Alive => \A p \in Kept : file[p] # None => Remembered(p)

(* What is announced or waits exists, so the timer never drops a kept file. *)
KnownEvent ==
  {e \in HonestEvent :
     e.kind \in {"CREATE", "MODIFY"} /\ e.path \in Kept => file[e.path] # None}

AnnouncedExist == events \in Seq(KnownEvent) /\ batch \in Seq(KnownEvent)

WaitingExist ==
  /\ \A p \in waitList \cap Kept : file[p] # None
  /\ \A t \in tasks : t.path \in Kept => t.last # -1
  /\ timerPc = "settled" /\ timerTask.path \in Kept => timerTask.last # -1

(* Outside a batch nothing is polled, and only the scan has files to visit. *)
BetweenBatches == watchPc \in {"off", "take"} => batch = <<>>
ScanningOnly   == scan # {} => service = "scanning"

ExistInv == WaitListInv /\ AnnouncedExist /\ WaitingExist
PlaceInv == BetweenBatches /\ ScanningOnly

LEMMA NextPlace == TypeOK /\ NotStarted /\ PlaceInv /\ [Next]_vars => PlaceInv'
<1> SUFFICES ASSUME TypeOK, NotStarted, PlaceInv, [Next]_vars PROVE PlaceInv'
  OBVIOUS
<1> USE DEF PlaceInv, BetweenBatches, ScanningOnly, userVars, keyVars, adminVars,
            watchVars, timerVars, queueVars
<1>1. CASE Restart
  BY <1>1 DEF Restart
<1>2. CASE Activate
  BY <1>2 DEF Activate, NotStarted
<1>3. CASE Admin \/ Close
  BY <1>3 DEF Admin, OpenDirectory, ScanDone, ScanFile, Close
<1>4. CASE Watch \/ WatchReturn \/ WatchThrow
  BY <1>4 DEF Watch, WatchTake, WatchOverflow, WatchQueue, WatchDelete,
     WatchReset, WatchReturn, WatchThrow
<1>5. CASE \/ \E p \in Path : UserChange(p)
           \/ Timer \/ TimerReturn \/ TimerThrow \/ UNCHANGED vars
  BY <1>5 DEF UserChange, Timer, RunTask, DropGoneFile, ProcessFile,
     TimerReturn, TimerThrow, vars
<1>6. QED
  BY <1>1, <1>2, <1>3, <1>4, <1>5 DEF Next

(* Nobody deletes a kept file, so it and what is known of it stay. *)
LEMMA KeptStays ==
  ASSUME TypeOK, [Next]_vars, NEW p \in Kept, file[p] # None
  PROVE  file'[p] # None
<1> USE DEF userVars
<1>1. ASSUME NEW q \in Path, UserChange(q) PROVE file'[p] # None
  <2>1. p \in Path /\ p \notin Deletable
    BY WatcherAssumption DEF Kept
  <2>2. QED
    BY <1>1, <2>1, WatcherAssumption
    DEF UserChange, CreateFile, WriteFile, DeleteFile, TypeOK
<1>2. CASE file' = file
  BY <1>2
<1>3. QED
  BY <1>1, <1>2 DEF Next, vars, Activate, Admin, OpenDirectory, ScanDone,
     ScanFile, Close, Restart, Watch, WatchTake, WatchOverflow, WatchQueue,
     WatchDelete, WatchReset, WatchReturn, WatchThrow, Timer, RunTask,
     DropGoneFile, ProcessFile, TimerReturn, TimerThrow

LEMMA KnownStays ==
  ASSUME TypeOK, [Next]_vars, NEW s \in Seq(KnownEvent)
  PROVE  s \in Seq(KnownEvent')
<1>1. KnownEvent \subseteq KnownEvent'
  BY KeptStays DEF KnownEvent
<1>2. QED
  BY <1>1

(* A file is announced as created or changed only while it exists. *)
LEMMA SignalKnown ==
  ASSUME TypeOK, [Next]_vars, AnnouncedExist, NEW p \in Path,
         NEW kind \in {"CREATE", "MODIFY", "DELETE"}, Signal(kind, p),
         kind = "DELETE" => p \in Deletable,
         kind # "DELETE" => file'[p] # None
  PROVE  events' \in Seq(KnownEvent')
<1> DEFINE Known == KnownEvent'
<1>1. [kind |-> kind, path |-> p] \in Known
  BY DEF KnownEvent, HonestEvent, Event
<1>2. [kind |-> "OVERFLOW"] \in Known
  BY DEF KnownEvent, HonestEvent, Event
<1>3. events \in Seq(Known)
  BY KnownStays DEF AnnouncedExist
<1> HIDE DEF Known
<1>4. Append(events, [kind |-> kind, path |-> p]) \in Seq(Known)
  BY <1>1, <1>3
<1>5. <<[kind |-> "OVERFLOW"]>> \in Seq(Known)
  BY <1>2
<1>6. events' \in Seq(Known)
  BY <1>3, <1>4, <1>5 DEF Signal
<1>7. QED
  BY <1>6 DEF Known

LEMMA NextAnnounced ==
  TypeOK /\ AnnouncedExist /\ [Next]_vars => AnnouncedExist'
<1> SUFFICES ASSUME TypeOK, AnnouncedExist, [Next]_vars
             PROVE  AnnouncedExist'
  OBVIOUS
<1> USE DEF userVars, keyVars, adminVars, watchVars, timerVars, queueVars
<1> DEFINE Known == KnownEvent'
<1>1. AnnouncedExist' <=> events' \in Seq(Known) /\ batch' \in Seq(Known)
  BY DEF AnnouncedExist
<1>2. events \in Seq(Known) /\ batch \in Seq(Known)
  BY KnownStays DEF AnnouncedExist
<1>3. ASSUME NEW p \in Path, UserChange(p) PROVE events' \in Seq(Known)
  <2>1. CASE CreateFile(p)
    <3>1. file'[p] # None
      BY <2>1, WatcherAssumption DEF CreateFile, TypeOK
    <3>2. QED
      BY <2>1, <3>1, SignalKnown DEF CreateFile
  <2>2. CASE WriteFile(p)
    <3>1. file'[p] # None
      BY <2>2, WatcherAssumption DEF WriteFile, TypeOK
    <3>2. QED
      BY <2>2, <3>1, SignalKnown DEF WriteFile
  <2>3. CASE DeleteFile(p)
    BY <2>3, SignalKnown DEF DeleteFile
  <2>4. QED
    BY <1>3, <2>1, <2>2, <2>3 DEF UserChange
<1> HIDE DEF Known
<1>4. <<>> \in Seq(Known)
  OBVIOUS
<1>5. batch # <<>> => Tail(batch) \in Seq(Known)
  BY <1>2
<1>6. watchPc = "process" => batch # <<>>
  BY DEF TypeOK
<1>7. ASSUME NEW p \in Path, UserChange(p) PROVE AnnouncedExist'
  BY <1>1, <1>2, <1>3, <1>7 DEF UserChange
<1>8. CASE Restart
  BY <1>1, <1>4, <1>8 DEF Restart
<1>9. CASE Activate \/ Admin \/ Close
  BY <1>1, <1>2, <1>4, <1>9 DEF Activate, Admin, OpenDirectory, ScanDone,
     ScanFile, Close
<1>10. CASE Watch \/ WatchReturn \/ WatchThrow
  BY <1>1, <1>2, <1>4, <1>5, <1>6, <1>10 DEF Watch, WatchTake, WatchOverflow,
     WatchQueue, WatchDelete, WatchReset, WatchReturn, WatchThrow
<1>11. CASE Timer \/ TimerReturn \/ TimerThrow
  BY <1>1, <1>2, <1>11 DEF Timer, RunTask, DropGoneFile, ProcessFile,
     TimerReturn, TimerThrow
<1>12. CASE UNCHANGED vars
  BY <1>1, <1>2, <1>12 DEF vars
<1>13. QED
  BY <1>7, <1>8, <1>9, <1>10, <1>11, <1>12 DEF Next

(* The length of a file that exists is not the one of a missing file. *)
LEMMA ExistingSize ==
  ASSUME TypeOK, NEW p \in Path, file[p] # None
  PROVE  FileSize(p) # -1
<1>1. file[p] \in Content
  BY DEF TypeOK
<1>2. Size[file[p]] \in Nat
  BY <1>1, WatcherAssumption
<1>3. QED
  BY <1>2 DEF FileSize

(* Queueing a file that exists, if it is a kept one. *)
LEMMA QueueFileWaitingExist ==
  ASSUME TypeOK, WaitingExist, NEW p \in Path,
         QueueFile(p) \/ QueueFileThrows(p),
         p \in Kept => file[p] # None,
         UNCHANGED <<file, timerVars>>
  PROVE  WaitingExist'
<1> USE DEF WaitingExist, timerVars
<1>1. CASE UNCHANGED queueVars
  BY <1>1 DEF queueVars
<1>2. CASE QueueFileThrows(p)
  BY <1>2 DEF QueueFileThrows
<1>3. CASE /\ waitList' = waitList \cup {p}
           /\ tasks' = tasks \cup {[path |-> p, last |-> FileSize(p)]}
  <2> DEFINE new == [path |-> p, last |-> FileSize(p)]
  <2>1. new.path = p /\ new.last = FileSize(p) /\ tasks' = tasks \cup {new}
    BY <1>3
  <2> HIDE DEF new
  <2>2. new.path \in Kept => new.last # -1
    BY <2>1, ExistingSize
  <2>3. QED
    BY <1>3, <2>1, <2>2
<1>4. QED
  BY <1>1, <1>2, <1>3 DEF QueueFile

LEMMA NextWaitingExist ==
  TypeOK /\ WaitListInv /\ AnnouncedExist /\ WaitingExist /\ [Next]_vars
    => WaitingExist'
<1> SUFFICES ASSUME TypeOK, WaitListInv, AnnouncedExist, WaitingExist,
                    [Next]_vars
             PROVE  WaitingExist'
  OBVIOUS
<1> USE DEF userVars, keyVars, adminVars, watchVars, timerVars, queueVars
<1>1. CASE UNCHANGED <<waitList, tasks, timerPc, timerTask>>
  BY <1>1, KeptStays DEF WaitingExist
<1>2. CASE \/ \E p \in Path : UserChange(p)
           \/ Activate \/ OpenDirectory \/ ScanDone \/ Close
           \/ WatchTake \/ WatchOverflow \/ WatchDelete \/ WatchReset
           \/ WatchReturn \/ WatchThrow \/ UNCHANGED vars
  BY <1>1, <1>2 DEF UserChange, Activate, OpenDirectory, ScanDone, Close,
     WatchTake, WatchOverflow, WatchDelete, WatchReset, WatchReturn,
     WatchThrow, vars
<1>3. ASSUME NEW p \in Path, ScanFile(p) PROVE WaitingExist'
  <2>1. CASE UNCHANGED queueVars
    BY <1>1, <1>3, <2>1 DEF ScanFile
  <2>2. CASE file[p] # None /\ (QueueFile(p) \/ QueueFileThrows(p))
    BY <1>3, <2>2, QueueFileWaitingExist DEF ScanFile
  <2>3. QED
    BY <1>3, <2>1, <2>2 DEF ScanFile
<1>4. CASE Restart
  BY <1>4 DEF Restart, WaitingExist
<1>5. CASE WatchQueue
  <2>1. Head(batch) \in KnownEvent
    BY <1>5 DEF WatchQueue, AnnouncedExist
  <2>2. /\ Head(batch).path \in Path
        /\ Head(batch).path \in Kept => file[Head(batch).path] # None
    BY <1>5, <2>1 DEF WatchQueue, KnownEvent, HonestEvent, Event
  <2>3. QED
    BY <1>5, <2>2, QueueFileWaitingExist DEF WatchQueue
<1>6. CASE RunTask
  <2>1. timerPc = "idle" /\ waitList' = waitList /\ file' = file
    BY <1>6 DEF RunTask
  <2>2. ASSUME NEW t \in tasks, timerPc' = "settled", timerTask' = t,
               tasks' = tasks \ {t}
        PROVE  WaitingExist'
    BY <2>1, <2>2 DEF WaitingExist
  <2>3. ASSUME NEW t \in tasks, UNCHANGED timerVars,
               tasks' = (tasks \ {t})
                          \cup {[path |-> t.path, last |-> FileSize(t.path)]}
        PROVE  WaitingExist'
    <3> DEFINE again == [path |-> t.path, last |-> FileSize(t.path)]
    <3>1. /\ again.path = t.path /\ again.last = FileSize(t.path)
          /\ tasks' = (tasks \ {t}) \cup {again}
      BY <2>3
    <3> HIDE DEF again
    <3>2. t.path \in Path /\ t.path \in waitList
      BY DEF TypeOK, Task, WaitListInv, TasksAreWaiting
    <3>3. t.path \in Kept => again.last # -1
      BY <3>1, <3>2, ExistingSize DEF WaitingExist
    <3>4. QED
      BY <2>1, <2>3, <3>1, <3>3 DEF WaitingExist
  <2>4. QED
    BY <1>6, <2>2, <2>3 DEF RunTask
<1>7. CASE DropGoneFile \/ ProcessFile \/ TimerReturn \/ TimerThrow
  BY <1>7 DEF DropGoneFile, ProcessFile, TimerReturn, TimerThrow, StopWaiting,
     WaitingExist
<1>8. QED
  BY <1>2, <1>3, <1>4, <1>5, <1>6, <1>7 DEF Next, Admin, Watch, Timer

LEMMA NextExist == TypeOK /\ ExistInv /\ [Next]_vars => ExistInv'
BY NextKeepsWaitList, NextAnnounced, NextWaitingExist DEF ExistInv

-----------------------------------------------------------------------------
(* What a sequence of events announces. *)
TellsOf(e, p) == e.kind \in {"CREATE", "MODIFY"} /\ e.path = p
Tells(s, p)   == \E i \in 1..Len(s) : TellsOf(s[i], p)

LEMMA AnnouncedTells ==
  ASSUME NEW p
  PROVE  Announced(p) <=> Tells(events, p) \/ Tells(batch, p)
BY DEF Announced, Tells, TellsOf

LEMMA EmptyTells == \A p : ~Tells(<<>>, p)
BY DEF Tells

LEMMA TellsAppend ==
  ASSUME NEW s \in Seq(Event), NEW e \in Event, NEW p,
         Tells(s, p) \/ TellsOf(e, p)
  PROVE  Tells(Append(s, e), p)
<1>1. /\ Append(s, e) \in Seq(Event) /\ Len(Append(s, e)) = Len(s) + 1
      /\ \A i \in 1..Len(s) : Append(s, e)[i] = s[i]
      /\ Append(s, e)[Len(s) + 1] = e
  OBVIOUS
<1>2. CASE Tells(s, p)
  BY <1>1, <1>2 DEF Tells
<1>3. CASE TellsOf(e, p)
  BY <1>1, <1>3 DEF Tells
<1>4. QED
  BY <1>2, <1>3

LEMMA TellsTail ==
  ASSUME NEW s \in Seq(Event), s # <<>>, NEW p, Tells(s, p)
  PROVE  TellsOf(Head(s), p) \/ Tells(Tail(s), p)
<1>1. PICK i \in 1..Len(s) : TellsOf(s[i], p)
  BY DEF Tells
<1>2. CASE i = 1
  BY <1>1, <1>2
<1>3. CASE i > 1
  <2>1. i - 1 \in 1..Len(Tail(s)) /\ Tail(s)[i - 1] = s[i]
    BY <1>3
  <2>2. QED
    BY <1>1, <2>1 DEF Tells
<1>4. QED
  BY <1>2, <1>3

(* A change of a watched file is announced, unless the key overflows. *)
LEMMA SignalTells ==
  ASSUME TypeOK, NoOverflow, NoOverflow', Watched,
         NEW p \in Path, NEW kind \in {"CREATE", "MODIFY"}, Signal(kind, p)
  PROVE  Tells(events', p)
<1> DEFINE e == [kind |-> kind, path |-> p]
<1>1. e \in Event /\ TellsOf(e, p)
  BY DEF Event, TellsOf
<1>2. CASE Merged(kind, p)
  <2>1. Len(events) \in 1..Len(events)
    BY <1>2 DEF Merged, TypeOK
  <2>2. \E i \in 1..Len(events) : events[i] = e
    BY <1>2, <2>1 DEF Merged, NoOverflow
  <2>3. QED
    BY <1>1, <1>2, <2>2 DEF Signal, Tells
<1>3. CASE events' = <<[kind |-> "OVERFLOW"]>>
  BY <1>3 DEF NoOverflow
<1>4. CASE events' = Append(events, e)
  BY <1>1, <1>4, TellsAppend DEF TypeOK
<1>5. QED
  BY <1>2, <1>3, <1>4 DEF Signal

(* Nor is an announcement lost in the key, unless it overflows. *)
LEMMA SignalKeeps ==
  ASSUME TypeOK, NoOverflow', NEW q \in Path,
         NEW kind \in {"CREATE", "MODIFY", "DELETE"}, Signal(kind, q),
         NEW p, Tells(events, p)
  PROVE  Tells(events', p)
<1>1. [kind |-> kind, path |-> q] \in Event
  BY DEF Event
<1>2. CASE events' = <<[kind |-> "OVERFLOW"]>>
  BY <1>2 DEF NoOverflow
<1>3. CASE events' = Append(events, [kind |-> kind, path |-> q])
  BY <1>1, <1>3, TellsAppend DEF TypeOK
<1>4. QED
  BY <1>2, <1>3 DEF Signal

(* A thread that is gone is back only after a restart. *)
LEMMA AliveBefore ==
  ASSUME TypeOK, NotStarted, [Next]_vars, Alive',
         service' \notin {"down", "starting"}
  PROVE  Alive
<1> USE DEF Alive, userVars, keyVars, adminVars, watchVars, timerVars, queueVars
<1>1. CASE \/ \E p \in Path : UserChange(p)
           \/ UNCHANGED vars
  BY <1>1 DEF UserChange, vars
<1>2. CASE Activate \/ Restart \/ Close \/ Admin
  BY <1>2 DEF Activate, Restart, Close, Admin, OpenDirectory, ScanDone, ScanFile
<1>3. CASE Watch \/ WatchReturn \/ WatchThrow
  BY <1>3 DEF Watch, WatchTake, WatchOverflow, WatchQueue, WatchDelete,
     WatchReset, WatchReturn, WatchThrow
<1>4. CASE Timer \/ TimerReturn \/ TimerThrow
  BY <1>4 DEF Timer, RunTask, DropGoneFile, ProcessFile, TimerReturn, TimerThrow
<1>5. QED
  BY <1>1, <1>2, <1>3, <1>4 DEF Next

(* Where the change of a file is, once the directory is being watched. *)
LEMMA RememberedWhere ==
  ASSUME NEW p
  PROVE  /\ Remembered(p) <=>
               \/ Tells(events, p) \/ Tells(batch, p)
               \/ p \in waitList \/ p \in scan
               \/ service \in {"down", "starting"}
               \/ Current(p)
         /\ Remembered(p)' <=>
               \/ Tells(events', p) \/ Tells(batch', p)
               \/ p \in waitList' \/ p \in scan'
               \/ service' \in {"down", "starting"}
               \/ Current(p)'
BY DEF Remembered, Announced, Tells, TellsOf

(* Queueing a kept file keeps it waiting, or kills the thread that tried. *)
LEMMA QueueRemembers ==
  ASSUME NEW q, QueueFile(q) \/ QueueFileThrows(q)
  PROVE  /\ waitList \subseteq waitList'
         /\ q \in Matching => q \in waitList'
BY DEF QueueFile, QueueFileThrows, Ignored, queueVars

LEMMA UserRemembers ==
  ASSUME TypeOK, NoOverflow, NoOverflow', Alive,
         NEW q \in Path, UserChange(q), UNCHANGED inboxVars,
         NEW p \in Kept, file[p] # None => Remembered(p), file'[p] # None
  PROVE  Remembered(p)'
<1> USE DEF UserChange, adminVars, watchVars, timerVars, queueVars
<1>1. p \in Path /\ p \notin Deletable
  BY WatcherAssumption DEF Kept
<1>2. CASE service \in {"down", "starting"}
  BY <1>2, RememberedWhere
<1>3. CASE q = p /\ service \notin {"down", "starting"}
  <2>1. Watched
    BY <1>3 DEF Alive, Watched, TypeOK
  <2>2. Tells(events', p)
    BY <1>1, <1>3, <2>1, SignalTells DEF CreateFile, WriteFile, DeleteFile
  <2>3. QED
    BY <2>2, RememberedWhere
<1>4. CASE q # p
  <2>1. file'[p] = file[p]
    BY <1>1, <1>4 DEF CreateFile, WriteFile, DeleteFile, TypeOK
  <2>2. Tells(events, p) => Tells(events', p)
    BY SignalKeeps DEF CreateFile, WriteFile, DeleteFile
  <2>3. Current(p) => Current(p)'
    BY <2>1 DEF Current, Processing, inboxVars
  <2>4. QED
    BY <2>1, <2>2, <2>3, RememberedWhere
<1>5. QED
  BY <1>2, <1>3, <1>4

LEMMA AdminRemembers ==
  ASSUME TypeOK, Admin, UNCHANGED inboxVars, Alive',
         NEW p \in Kept, file[p] # None, Remembered(p)
  PROVE  Remembered(p)'
<1> USE DEF userVars, keyVars, watchVars, timerVars, queueVars
<1>1. p \in Path /\ p \in Matching
  BY WatcherAssumption DEF Kept
<1>2. UNCHANGED <<events, batch>> /\ (Current(p) => Current(p)')
  BY DEF Admin, OpenDirectory, ScanDone, ScanFile, Current, Processing, inboxVars
<1>3. CASE OpenDirectory
  BY <1>1, <1>3, RememberedWhere DEF OpenDirectory
<1>4. CASE ScanDone
  BY <1>2, <1>4, RememberedWhere DEF ScanDone
<1>5. ASSUME NEW q \in Path, ScanFile(q) PROVE Remembered(p)'
  <2>1. CASE q = p
    <3>1. QueueFile(p) \/ QueueFileThrows(p)
      BY <1>5, <2>1 DEF ScanFile
    <3>2. QED
      BY <1>1, <3>1, QueueRemembers, RememberedWhere
  <2>2. CASE q # p
    <3>1. service' = service /\ scan' = scan \ {q}
      BY <1>5 DEF ScanFile, Alive
    <3>2. waitList \subseteq waitList'
      BY <1>5, QueueRemembers DEF ScanFile
    <3>3. QED
      BY <1>2, <2>2, <3>1, <3>2, RememberedWhere
  <2>3. QED
    BY <2>1, <2>2
<1>6. QED
  BY <1>3, <1>4, <1>5 DEF Admin

LEMMA WatchRemembers ==
  ASSUME TypeOK, BetweenBatches, Watch, UNCHANGED inboxVars, Alive',
         NEW p \in Kept, file[p] # None, Remembered(p)
  PROVE  Remembered(p)'
<1> USE DEF userVars, keyVars, adminVars, watchVars, timerVars, queueVars
<1>1. p \in Path /\ p \in Matching
  BY WatcherAssumption DEF Kept
<1>2. UNCHANGED <<service, scan>> /\ (Current(p) => Current(p)')
  BY DEF Watch, WatchTake, WatchOverflow, WatchQueue, WatchDelete, WatchReset,
     Current, Processing, inboxVars
<1>3. CASE WatchTake
  <2>1. ~Tells(batch, p)
    BY <1>3, EmptyTells DEF WatchTake, BetweenBatches
  <2>2. QED
    BY <1>2, <1>3, <2>1, RememberedWhere DEF WatchTake, Alive
<1>4. CASE WatchOverflow
  <2>1. batch \in Seq(Event) /\ ~TellsOf(Head(batch), p)
    BY <1>4 DEF WatchOverflow, TypeOK, TellsOf
  <2>2. Tells(batch, p) => Tells(batch', p)
    BY <1>4, <2>1, TellsTail DEF WatchOverflow
  <2>3. QED
    BY <1>2, <1>4, <2>2, RememberedWhere DEF WatchOverflow
<1>5. CASE WatchQueue
  <2>1. /\ QueueFile(Head(batch).path) /\ batch' = Tail(batch)
        /\ batch \in Seq(Event) /\ batch # <<>>
    BY <1>5 DEF WatchQueue, Alive, TypeOK
  <2>2. waitList \subseteq waitList' /\ (TellsOf(Head(batch), p) => p \in waitList')
    BY <1>1, <2>1, QueueRemembers DEF TellsOf
  <2>3. Tells(batch, p) => Tells(batch', p) \/ p \in waitList'
    BY <2>1, <2>2, TellsTail
  <2>4. QED
    BY <1>2, <1>5, <2>2, <2>3, RememberedWhere DEF WatchQueue
<1>6. CASE WatchDelete \/ WatchReset
  BY <1>2, <1>6, RememberedWhere DEF WatchDelete, WatchReset
<1>7. QED
  BY <1>3, <1>4, <1>5, <1>6 DEF Watch

LEMMA TimerRemembers ==
  ASSUME InboxTypeOK, WaitingExist, Timer, UNCHANGED inboxVars,
         NEW p \in Kept, file[p] # None, Remembered(p)
  PROVE  Remembered(p)'
<1> USE DEF userVars, keyVars, adminVars, watchVars, timerVars
<1>1. UNCHANGED <<file, events, batch, scan, service>>
  BY DEF Timer, RunTask, DropGoneFile, ProcessFile
<1>2. job.pc = "digest"
  BY DEF InboxTypeOK, NoJob, Timer, RunTask, DropGoneFile, ProcessFile
<1>3. Current(p) => Current(p)'
  BY <1>1, <1>2 DEF Timer, RunTask, DropGoneFile, ProcessFile, Current, Processing,
     inboxVars
<1>4. CASE RunTask
  BY <1>1, <1>3, <1>4, RememberedWhere DEF RunTask
<1>5. CASE DropGoneFile
  <2>1. timerTask.path # p
    BY <1>5 DEF DropGoneFile, WaitingExist
  <2>2. QED
    BY <1>1, <1>3, <1>5, <2>1, RememberedWhere DEF DropGoneFile, StopWaiting
<1>6. CASE ProcessFile
  <2>1. timerTask.path = p => Current(p)'
    BY <1>2, <1>6 DEF ProcessFile, Current, Processing, inboxVars
  <2>2. timerTask.path # p => (p \in waitList => p \in waitList')
    BY <1>6 DEF ProcessFile, StopWaiting
  <2>3. QED
    BY <1>1, <1>3, <2>1, <2>2, RememberedWhere
<1>7. QED
  BY <1>4, <1>5, <1>6 DEF Timer

(* The timer thread's call records the digest it computed, or dies. *)
LEMMA CallRemembers ==
  ASSUME TypeInv, ProcessSettled, Alive',
         NEW p \in Kept, file[p] # None, Remembered(p)
  PROVE  Remembered(p)'
<1>1. TypeOK /\ InboxTypeOK
  BY DEF TypeInv, InboxTypeOK
<1>2. p \in Path
  BY WatcherAssumption DEF Kept
<1>3. timerPc = "process" /\ timerTask.path \in Path
  BY <1>1, CallPath DEF ProcessSettled, ComputeDigest, LookUpSeen,
     FirstDigest, CheckPrior, UnprocessPrior, BeginImport, CopySource,
     MoveSource, ParseSource, CatalogDocument, RecordSeen, Call
<1>4. /\ UNCHANGED <<file, events, batch, waitList, scan, service>>
      /\ \/ UNCHANGED <<timerPc, timerTask>>
         \/ timerPc' = "idle"
  BY DEF ProcessSettled, ComputeDigest, LookUpSeen, FirstDigest, CheckPrior,
     UnprocessPrior, BeginImport, CopySource, MoveSource, ParseSource, CatalogDocument,
     RecordSeen, Goto, Return, Throw, TimerReturn, TimerThrow, Alive, vars,
     userVars, keyVars, adminVars, watchVars, timerVars, queueVars
<1>5. CASE timerTask.path # p
  <2>1. seen'[p] = seen[p]
    BY <1>1, <1>2, <1>5 DEF ProcessSettled, ComputeDigest, LookUpSeen,
       FirstDigest, CheckPrior, UnprocessPrior, BeginImport, CopySource,
       MoveSource, ParseSource, CatalogDocument, RecordSeen, storeVars, InboxTypeOK
  <2>2. Current(p) => Current(p)'
    BY <1>4, <1>5, <2>1 DEF Current, Processing
  <2>3. QED
    BY <1>4, <2>2, RememberedWhere
<1>6. CASE timerTask.path = p
  <2>1. job \in [pc : {"digest", "lookup", "first", "orphan", "unprocess",
                      "import", "copy", "move", "parse", "catalog", "record"},
                digest : Digest \cup {None}, prior : Digest \cup {None},
                first : Digest \cup {None}]
    BY <1>1 DEF InboxTypeOK
  <2> USE DEF Call, Goto, Return, Throw, TimerReturn, TimerThrow, Alive, vars
  <2>2. ASSUME job.pc # "digest", job.digest = file[p] PROVE Current(p)'
    <3>1. CASE LookUpSeen
      BY <1>3, <1>4, <1>6, <2>1, <2>2, <3>1
      DEF LookUpSeen, Current, Processing, storeVars
    <3>2. CASE FirstDigest \/ CheckPrior \/ UnprocessPrior \/ BeginImport
               \/ CopySource \/ MoveSource \/ ParseSource \/ CatalogDocument
      <4>1. timerPc' = timerPc /\ job'.digest = job.digest
        BY <2>1, <3>2 DEF FirstDigest, CheckPrior, UnprocessPrior, BeginImport,
           CopySource, MoveSource, ParseSource, CatalogDocument
      <4>2. QED
        BY <1>3, <1>4, <1>6, <2>2, <4>1 DEF Current, Processing
    <3>3. CASE RecordSeen
      BY <1>1, <1>2, <1>4, <1>6, <2>2, <3>3
      DEF RecordSeen, Current, Processing, InboxTypeOK
    <3>4. QED
      BY <2>2, <3>1, <3>2, <3>3 DEF ProcessSettled, ComputeDigest
  <2>3. ASSUME job.pc = "digest" PROVE Current(p)'
    <3>1. ComputeDigest
      BY <2>3 DEF ProcessSettled, LookUpSeen, FirstDigest, CheckPrior,
         UnprocessPrior, BeginImport, CopySource, MoveSource, ParseSource, CatalogDocument,
         RecordSeen
    <3>2. job'.digest = file[p] /\ timerPc' = timerPc
      BY <1>6, <2>1, <3>1 DEF ComputeDigest
    <3>3. QED
      BY <1>3, <1>4, <1>6, <3>2 DEF Current, Processing
  <2>4. Current(p) => Current(p)'
    BY <1>3, <1>6, <2>2, <2>3 DEF Current, Processing
  <2>5. QED
    BY <1>4, <2>4, RememberedWhere
<1>7. QED
  BY <1>5, <1>6

(* A deletion forgets only the file that was announced as deleted. *)
LEMMA DeletionRemembers ==
  ASSUME TypeInv, EventsAreHonest, ProcessDelete, Alive',
         NEW p \in Kept, file[p] # None, Remembered(p)
  PROVE  Remembered(p)'
<1>1. TypeOK /\ InboxTypeOK
  BY DEF TypeInv, InboxTypeOK
<1>2. /\ watchPc = "process" /\ batch \in Seq(Event)
      /\ batch # <<>> /\ Head(batch).kind = "DELETE"
  BY <1>1 DEF ProcessDelete, FindSeen, CheckDeleted, UnprocessDeleted,
     ForgetSeen, DeleteCall, TypeOK
<1>3. Deleted \in Deletable
  BY <1>2 DEF EventsAreHonest, HonestEvent, Deleted
<1>4. p \in Path /\ p # Deleted
  BY <1>3, WatcherAssumption DEF Kept
<1>5. /\ UNCHANGED <<file, events, waitList, scan, service, timerPc, timerTask, job>>
      /\ batch' \in {batch, Tail(batch)}
  BY DEF ProcessDelete, FindSeen, CheckDeleted, UnprocessDeleted, ForgetSeen,
     WatchReturn, WatchThrow, Alive, vars,
     userVars, keyVars, adminVars, timerVars, queueVars
<1>6. seen'[p] = seen[p]
  BY <1>1, <1>4 DEF ProcessDelete, FindSeen, CheckDeleted, UnprocessDeleted,
     ForgetSeen, storeVars, InboxTypeOK
<1>7. Current(p) => Current(p)'
  BY <1>5, <1>6 DEF Current, Processing
<1>8. Tells(batch, p) => Tells(batch', p)
  BY <1>2, <1>5, TellsTail DEF TellsOf
<1>9. QED
  BY <1>5, <1>7, <1>8, RememberedWhere

LEMMA InboxNextForgotten ==
  /\ TypeInv /\ EventsAreHonest /\ ExistInv /\ PlaceInv /\ NothingForgotten
  /\ NoOverflow /\ NoOverflow'
  /\ [InboxNext]_allVars
  => NothingForgotten'
<1> SUFFICES ASSUME TypeInv, EventsAreHonest, ExistInv, PlaceInv,
                    NothingForgotten, NoOverflow, NoOverflow',
                    [InboxNext]_allVars, Alive',
                    NEW p \in Kept, file'[p] # None,
                    service' \notin {"down", "starting"}
             PROVE  Remembered(p)'
  BY DEF NothingForgotten, Remembered
<1>1. TypeOK /\ InboxTypeOK /\ NotStarted
  BY DEF TypeInv, InboxTypeOK
<1>2. Alive
  BY <1>1, InboxStepIsWatcherStep, AliveBefore
<1>3. file[p] # None => Remembered(p)
  BY <1>2 DEF NothingForgotten
<1>4. ASSUME NEW q \in Path, UserChange(q), UNCHANGED inboxVars
      PROVE  Remembered(p)'
  BY <1>1, <1>2, <1>3, <1>4, UserRemembers
<1>5. CASE Activate \/ Close \/ InboxRestart
  BY <1>5 DEF Activate, Close, InboxRestart, Restart, Alive
<1>6. CASE Admin /\ UNCHANGED inboxVars
  <2>1. file' = file
    BY <1>6 DEF Admin, OpenDirectory, ScanDone, ScanFile, userVars
  <2>2. QED
    BY <1>1, <1>3, <1>6, <2>1, AdminRemembers
<1>7. CASE Watch /\ UNCHANGED inboxVars
  <2>1. file' = file
    BY <1>7 DEF Watch, WatchTake, WatchOverflow, WatchQueue, WatchDelete,
       WatchReset, userVars
  <2>2. QED
    BY <1>1, <1>3, <1>7, <2>1, WatchRemembers DEF PlaceInv
<1>8. CASE Timer /\ UNCHANGED inboxVars
  <2>1. file' = file
    BY <1>8 DEF Timer, RunTask, DropGoneFile, ProcessFile, userVars
  <2>2. QED
    BY <1>1, <1>3, <1>8, <2>1, TimerRemembers DEF ExistInv
<1>9. CASE ProcessSettled
  <2>1. file' = file
    BY <1>9 DEF ProcessSettled, ComputeDigest, LookUpSeen, FirstDigest, CheckPrior,
       UnprocessPrior, BeginImport, CopySource, MoveSource, ParseSource, CatalogDocument,
       RecordSeen, Goto, Return, Throw, TimerReturn, TimerThrow, vars, userVars
  <2>2. QED
    BY <1>3, <1>9, <2>1, CallRemembers
<1>10. CASE ProcessDelete
  <2>1. file' = file
    BY <1>10 DEF ProcessDelete, FindSeen, CheckDeleted, UnprocessDeleted,
       ForgetSeen, WatchReturn, WatchThrow, vars, userVars
  <2>2. QED
    BY <1>3, <1>10, <2>1, DeletionRemembers
<1>11. CASE UNCHANGED allVars
  BY <1>3, <1>11, RememberedWhere
  DEF allVars, inboxVars, vars, Current, Processing
<1>12. QED
  BY <1>4, <1>5, <1>6, <1>7, <1>8, <1>9, <1>10, <1>11 DEF InboxNext

(* Where nothing is on its way, what is remembered is what is recorded. *)
LEMMA RestIsUpToDate ==
  TypeInv /\ ExistInv /\ PlaceInv /\ NothingForgotten => InboxIsUpToDate
<1> SUFFICES ASSUME TypeInv, ExistInv, PlaceInv, NothingForgotten, AtRest,
                    NEW p \in Kept, file[p] # None
             PROVE  seen[p] = file[p]
  BY DEF InboxIsUpToDate
<1>1. Alive /\ service = "active"
  BY DEF AtRest, Healthy, Alive
<1>2. Remembered(p)
  BY <1>1 DEF NothingForgotten
<1>3. ~Tells(events, p) /\ ~Tells(batch, p)
  BY EmptyTells DEF AtRest, PlaceInv, BetweenBatches
<1>4. p \notin waitList
  BY DEF AtRest, ExistInv, WaitListInv, WaitingIsPending, Pending
<1>5. p \notin scan
  BY <1>1 DEF PlaceInv, ScanningOnly
<1>6. Current(p)
  BY <1>1, <1>2, <1>3, <1>4, <1>5, RememberedWhere
<1>7. QED
  BY <1>6 DEF AtRest, Current, Processing

LEMMA InboxExistPlace == InboxSpec => [](ExistInv /\ PlaceInv)
<1>1. InboxInit => ExistInv /\ PlaceInv
  <2>1. <<>> \in Seq(KnownEvent)
    OBVIOUS
  <2>2. QED
    BY <2>1 DEF InboxInit, Init, ExistInv, WaitListInv, TasksAreWaiting,
       OneTaskPerFile, SettledIsWaiting, WaitingIsPending, AnnouncedExist,
       WaitingExist, PlaceInv, BetweenBatches, ScanningOnly
<1>2. TypeInv => TypeOK /\ NotStarted
  BY DEF TypeInv, InboxTypeOK
<1>3. QED
  BY <1>1, <1>2, NextExist, NextPlace, InboxStepIsWatcherStep, InboxTypeInv, PTL
  DEF InboxSpec

(* As long as the WatchKey does not overflow, the inbox is up to date       *)
(* whenever it is at rest: whatever the order in which files change, events *)
(* are polled, tasks run and calls of process() end, no change is missed.   *)
THEOREM RestMeansUpToDate == InboxSpec /\ []NoOverflow => []InboxIsUpToDate
<1>1. InboxInit => NothingForgotten
  BY DEF InboxInit, Init, NothingForgotten, Remembered
<1>2. QED
  BY <1>1, InboxNextForgotten, RestIsUpToDate, InboxTypeInv, InboxHonest,
     InboxExistPlace, PTL DEF InboxSpec

=============================================================================
