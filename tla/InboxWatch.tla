------------------------------ MODULE InboxWatch ------------------------------
(***************************************************************************)
(* The inbox: an InboxWatchService that feeds a DocumentStore from a       *)
(* DirectoryWatcher.  Its IProcessor runs on two threads, the timer thread *)
(* for settled files and the watch thread for deletions; they share the    *)
(* InboxSeen records, the source directory of the document store and the   *)
(* SourceDocument records, and nothing orders their steps.  Each step here *)
(* is one call on a shared store; what a thread keeps between two calls is *)
(* in job and deletion, and is lost with the JVM.                          *)
(*                                                                         *)
(* The digest of a file stands for its content (MD5 does not collide       *)
(* here), so a digest is a member of Content.                              *)
(***************************************************************************)
EXTENDS DirectoryWatcher

CONSTANTS
  Partial,      \* what a file holds while it is being written
  NoExtension,  \* files whose name has no extension
  Unsupported   \* files whose type completeImport rejects

ASSUME InboxAssumption ==
  /\ Partial \notin Content
  /\ Partial # None
  /\ NoExtension \subseteq Path
  /\ Unsupported \subseteq Path

VARIABLES
  seen,      \* InboxSeen: digest recorded for each file name, None if absent
  source,    \* source directory: what is stored under each digest
  part,      \* the .part file of each digest
  docs,      \* digests that have a SourceDocument record
  job,       \* the timer thread's call of process()
  deletion   \* the watch thread's call of process() for a DELETE

storeVars == <<seen, source, part, docs>>
inboxVars == <<seen, source, part, docs, job, deletion>>
allVars   == <<vars, inboxVars>>

Digest == Content

NoJob      == [pc |-> "digest", digest |-> None, prior |-> None, first |-> None]
NoDeletion == [pc |-> "find", digest |-> None]

InboxTypeOK ==
  /\ TypeOK
  /\ seen \in [Path -> Digest \cup {None}]
  /\ source \in [Digest -> Content \cup {None, Partial}]
  /\ part \in [Digest -> Content \cup {None, Partial}]
  /\ docs \subseteq Digest
  /\ job \in [pc : {"digest", "lookup", "first", "orphan", "unprocess",
                    "import", "copy", "move", "parse", "catalog", "record"},
              digest : Digest \cup {None}, prior : Digest \cup {None},
              first : Digest \cup {None}]
  /\ deletion \in [pc : {"find", "orphan", "unprocess", "forget"},
                   digest : Digest \cup {None}]
  /\ (timerPc # "process" => job = NoJob)
  /\ (watchPc # "process" => deletion = NoDeletion)

(* The stores start empty; files may be in the directory already. *)
InboxInit ==
  /\ Init
  /\ seen = [p \in Path |-> None]
  /\ source = [d \in Digest |-> None]
  /\ part = [d \in Digest |-> None]
  /\ docs = {}
  /\ job = NoJob
  /\ deletion = NoDeletion

HasDigest(d) == \E q \in Path : seen[q] = d   \* dao.getByIndex("digest", d)

-----------------------------------------------------------------------------
(* EXISTING, CREATE and MODIFY, on the timer thread. *)

Call(pc) == timerPc = "process" /\ job.pc = pc

Goto(pc) ==
  /\ job' = [job EXCEPT !.pc = pc]
  /\ UNCHANGED vars

Return == TimerReturn /\ job' = NoJob
Throw  == TimerThrow /\ job' = NoJob

(* getFileDigest opens the file again: it may be gone by now. *)
ComputeDigest ==
  /\ Call("digest")
  /\ \/ file[timerTask.path] = None /\ Throw
     \/ /\ file[timerTask.path] # None
        /\ job' = [job EXCEPT !.pc = "lookup", !.digest = file[timerTask.path]]
        /\ UNCHANGED vars
  /\ UNCHANGED <<storeVars, deletion>>

\* slip: a file is known by its name, its digest is not compared
SlipLookUpSeen ==
  /\ Call("lookup")
  /\ \/ seen[timerTask.path] # None /\ Return
     \/ /\ seen[timerTask.path] = None
        /\ job' = [job EXCEPT !.pc = "first"]
        /\ UNCHANGED vars
  /\ UNCHANGED <<storeVars, deletion>>

LookUpSeen ==
  /\ Call("lookup")
  /\ \/ seen[timerTask.path] = job.digest /\ Return
     \/ /\ seen[timerTask.path] # job.digest
        /\ job' = [job EXCEPT !.pc = "first", !.prior = seen[timerTask.path]]
        /\ UNCHANGED vars
  /\ UNCHANGED <<storeVars, deletion>>

AfterUnprocess(first) == IF first = None THEN "record" ELSE "import"

NextAfterFirst(first) ==
  IF job.prior # None THEN "orphan" ELSE AfterUnprocess(first)

\* slip: a digest whose source is stored is taken for imported
SlipFirstDigest ==
  /\ Call("first")
  /\ LET first == IF source[job.digest] # None THEN None ELSE job.digest
     IN  job' = [job EXCEPT !.first = first, !.pc = NextAfterFirst(first)]
  /\ UNCHANGED <<vars, storeVars, deletion>>

\* slip: every file is imported, whatever its digest
SlipEveryDigest ==
  /\ Call("first")
  /\ job' = [job EXCEPT !.first = job.digest, !.pc = NextAfterFirst(job.digest)]
  /\ UNCHANGED <<vars, storeVars, deletion>>

FirstDigest ==
  /\ Call("first")
  /\ LET first == IF HasDigest(job.digest) THEN None ELSE job.digest
     IN  job' = [job EXCEPT !.first = first, !.pc = NextAfterFirst(first)]
  /\ UNCHANGED <<vars, storeVars, deletion>>

(* conditionallyUnprocess(path, priorDigest) *)
CheckPrior ==
  /\ Call("orphan")
  /\ Goto(IF HasDigest(job.prior) THEN AfterUnprocess(job.first)
          ELSE "unprocess")
  /\ UNCHANGED <<storeVars, deletion>>

UnprocessPrior ==
  /\ Call("unprocess")
  /\ source' = [source EXCEPT ![job.prior] = None]
  /\ Goto(AfterUnprocess(job.first))
  /\ UNCHANGED <<seen, part, docs, deletion>>

\* slip: the source is written in place, without a .part file
SlipBeginImport ==
  /\ Call("import")
  /\ source' = [source EXCEPT ![job.first] = Partial]
  /\ Goto("copy")
  /\ UNCHANGED <<seen, part, docs, deletion>>

(* DocumentStore.importDocument: a source already there is not copied. *)
BeginImport ==
  /\ Call("import")
  /\ \/ timerTask.path \in NoExtension /\ Throw /\ UNCHANGED part
     \/ /\ timerTask.path \notin NoExtension
        /\ source[job.first] # None
        /\ Goto("parse")
        /\ UNCHANGED part
     \/ /\ timerTask.path \notin NoExtension
        /\ source[job.first] = None
        /\ part' = [part EXCEPT ![job.first] = Partial]
        /\ Goto("copy")
  /\ UNCHANGED <<seen, source, docs, deletion>>

(* Files.copy reads the file once more; SafeOutputStream.close deletes the *)
(* .part file of a copy that failed.                                       *)
CopySource ==
  /\ Call("copy")
  /\ \/ /\ file[timerTask.path] = None
        /\ part' = [part EXCEPT ![job.first] = None]
        /\ Throw
     \/ /\ file[timerTask.path] # None
        /\ part' = [part EXCEPT ![job.first] = file[timerTask.path]]
        /\ Goto("move")
  /\ UNCHANGED <<seen, source, docs, deletion>>

(* commit(), then the atomic move of close(). *)
MoveSource ==
  /\ Call("move")
  /\ source' = [source EXCEPT ![job.first] = part[job.first]]
  /\ part' = [part EXCEPT ![job.first] = None]
  /\ Goto("parse")
  /\ UNCHANGED <<seen, docs, deletion>>

(* completeImport reads what is stored under the digest. *)
ParseSource ==
  /\ Call("parse")
  /\ \/ (timerTask.path \in Unsupported \/ source[job.first] = None) /\ Throw
     \/ /\ timerTask.path \notin Unsupported
        /\ source[job.first] # None
        /\ Goto("catalog")
  /\ UNCHANGED <<storeVars, deletion>>

(* It adds the SourceDocument whatever became of the source meanwhile. *)
CatalogDocument ==
  /\ Call("catalog")
  /\ docs' = docs \cup {job.first}
  /\ Goto("record")
  /\ UNCHANGED <<seen, source, part, deletion>>

\* slip: the digest is computed again, of the file as it is by now
SlipRecordSeen ==
  /\ Call("record")
  /\ seen' = [seen EXCEPT ![timerTask.path] = file[timerTask.path]]
  /\ Return
  /\ UNCHANGED <<source, part, docs, deletion>>

(* dao.add of a new InboxSeen or dao.update of the one read: both end in a *)
(* put, InboxSeen having no versionTime to compare.                        *)
RecordSeen ==
  /\ Call("record")
  /\ seen' = [seen EXCEPT ![timerTask.path] = job.digest]
  /\ Return
  /\ UNCHANGED <<source, part, docs, deletion>>

-----------------------------------------------------------------------------
(* DELETE, on the watch thread. *)

DeleteCall(pc) == watchPc = "process" /\ deletion.pc = pc
Deleted == Head(batch).path

(* "No 'seen' record for deletion of" is an exception. *)
FindSeen ==
  /\ DeleteCall("find")
  /\ \/ seen[Deleted] = None /\ WatchThrow /\ UNCHANGED deletion
     \/ /\ seen[Deleted] # None
        /\ deletion' = [pc |-> "orphan", digest |-> seen[Deleted]]
        /\ UNCHANGED vars
  /\ UNCHANGED <<storeVars, job>>

CheckDeleted ==
  /\ DeleteCall("orphan")
  /\ deletion' = [deletion EXCEPT
                    !.pc = IF HasDigest(deletion.digest) THEN "forget"
                           ELSE "unprocess"]
  /\ UNCHANGED <<vars, storeVars, job>>

UnprocessDeleted ==
  /\ DeleteCall("unprocess")
  /\ source' = [source EXCEPT ![deletion.digest] = None]
  /\ deletion' = [deletion EXCEPT !.pc = "forget"]
  /\ UNCHANGED <<vars, seen, part, docs, job>>

ForgetSeen ==
  /\ DeleteCall("forget")
  /\ seen' = [seen EXCEPT ![Deleted] = None]
  /\ deletion' = NoDeletion
  /\ WatchReturn
  /\ UNCHANGED <<source, part, docs, job>>

-----------------------------------------------------------------------------
ProcessSettled ==
  ComputeDigest \/ LookUpSeen \/ FirstDigest \/ CheckPrior \/ UnprocessPrior
  \/ BeginImport \/ CopySource \/ MoveSource \/ ParseSource \/ CatalogDocument
  \/ RecordSeen

ProcessDelete == FindSeen \/ CheckDeleted \/ UnprocessDeleted \/ ForgetSeen

(* The stores survive the end of the JVM, a half-written .part included. *)
InboxRestart ==
  /\ Restart
  /\ job' = NoJob
  /\ deletion' = NoDeletion
  /\ UNCHANGED storeVars

InboxNext ==
  \/ \E p \in Path : UserChange(p) /\ UNCHANGED inboxVars
  \/ Activate /\ UNCHANGED inboxVars
  \/ Admin /\ UNCHANGED inboxVars
  \/ Close /\ UNCHANGED inboxVars
  \/ Watch /\ UNCHANGED inboxVars
  \/ Timer /\ UNCHANGED inboxVars
  \/ ProcessSettled
  \/ ProcessDelete
  \/ InboxRestart

InboxSpec == InboxInit /\ [][InboxNext]_allVars

InboxFairness ==
  /\ WF_allVars(Admin /\ UNCHANGED inboxVars)
  /\ WF_allVars((Watch /\ UNCHANGED inboxVars) \/ ProcessDelete)
  /\ WF_allVars((Timer /\ UNCHANGED inboxVars) \/ ProcessSettled)

InboxFairSpec == InboxSpec /\ InboxFairness

-----------------------------------------------------------------------------
(* A file recorded as seen has its document: the SourceDocument is added    *)
(* before the InboxSeen record, and a file skipped because another one has  *)
(* its digest relies on that one's document.  A JVM that ends anywhere in   *)
(* between may import twice but never skips a file that was not imported.   *)
SeenIsCataloged == \A p \in Path : seen[p] # None => seen[p] \in docs

(* No source file is ever half-written, wherever a copy is cut off. *)
SourceIsWhole == \A d \in Digest : source[d] # Partial

Importing == job.pc \in {"import", "copy", "move", "parse", "catalog"}

(* While importDocument runs, no InboxSeen record holds the digest that is  *)
(* imported, whoever adds and removes records since it was looked for: a    *)
(* digest that is recorded is not imported again, whether or not its source *)
(* and its document are there already.                                      *)
NoSecondImport == Importing => ~HasDigest(job.first)

Healthy ==
  /\ service = "active"
  /\ watchPc \notin {"ended", "dead"}
  /\ timerPc # "dead"

AtRest ==
  /\ Healthy
  /\ events = <<>>
  /\ watchPc = "take"
  /\ tasks = {}
  /\ timerPc = "idle"

Kept == Matching \ Deletable

(* When the pipeline is at rest, every file that users may change but do    *)
(* not delete is recorded with the content it has: no change slipped        *)
(* between two looks of the two threads.                                    *)
InboxIsUpToDate ==
  AtRest => \A p \in Kept : file[p] # None => seen[p] = file[p]

(* The same as a promise: once a kept file stops changing and the threads   *)
(* live on, its last content gets recorded and stays so.                    *)
InboxCatchesUp ==
  \A p \in Kept, c \in Content :
    <>[](Healthy /\ file[p] = c) => <>[](seen[p] = c)

(* Seen from outside, with what a thread keeps between two calls hidden, the *)
(* two threads take in, store, catalog, record and forget files as           *)
(* DocumentInbox says.                                                       *)
Intake == INSTANCE DocumentInbox WITH
  taken <- IF timerPc = "process" /\ job.pc # "digest" THEN timerTask.path ELSE None,
  digest <- job.digest,
  parsed <- job.pc = "catalog",
  stored <- {d \in Digest : source[d] # None},
  cataloged <- docs,
  recorded <- seen

ImplementsDocumentInbox == Intake!Spec

(* "A copy of the source document" is in the store for each recorded file.  *)
(* It is lost where the watch thread finds no record of a digest, the timer *)
(* thread takes a file with that digest in, and the source goes then.       *)
SeenHasSource == \A p \in Path : seen[p] # None => source[seen[p]] # None
=============================================================================
