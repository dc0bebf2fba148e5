----------------------------- MODULE DocumentInbox -----------------------------
(***************************************************************************)
(* What the inbox promises about the files put in it and the documents it  *)
(* makes of them, whatever its two threads do in which order and wherever  *)
(* the JVM ends:                                                           *)
(*                                                                         *)
(*   - files are taken in one at a time, each with one content it had;     *)
(*   - a source is stored, and a document cataloged, for the content taken *)
(*     in only, never for one that is recorded, and a document only once   *)
(*     its stored source was read, though the source may have gone again;  *)
(*   - a file is recorded with the content it was taken in with, once that *)
(*     has a document, and with nothing else;                              *)
(*   - documents stay.                                                     *)
(*                                                                         *)
(* It does not promise that a source stays: one whose file is deleted goes *)
(* without regard to a file being recorded with the same content.          *)
(***************************************************************************)
CONSTANTS Path,     \* the files of the inbox
          Content,  \* what a file can hold
          None      \* no file, no content

VARIABLES file,       \* what users put into the inbox
          taken,      \* the file being taken in, or None
          digest,     \* the content it is taken in with, or None
          parsed,     \* its stored source has been read for its document
          stored,     \* contents whose source is in the document store
          cataloged,  \* contents that have a document
          recorded    \* the content each file is recorded with, or None

vars == <<file, taken, digest, parsed, stored, cataloged, recorded>>

Init ==
  /\ file \in [Path -> Content \cup {None}]
  /\ taken = None
  /\ digest = None
  /\ parsed = FALSE
  /\ stored = {}
  /\ cataloged = {}
  /\ recorded = [p \in Path |-> None]

Unrecorded(c) == \A p \in Path : recorded[p] # c

Change(p) ==
  /\ \E c \in Content \cup {None} : file' = [file EXCEPT ![p] = c]
  /\ UNCHANGED <<taken, digest, parsed, stored, cataloged, recorded>>

Take(p) ==
  /\ taken = None
  /\ file[p] # None
  /\ taken' = p
  /\ digest' = file[p]
  /\ UNCHANGED <<file, parsed, stored, cataloged, recorded>>

(* The file is recorded already, cannot be imported, or the JVM ends. *)
Release ==
  /\ taken' = None
  /\ digest' = None
  /\ parsed' = FALSE
  /\ UNCHANGED <<file, stored, cataloged, recorded>>

Store ==
  /\ taken # None
  /\ Unrecorded(digest)
  /\ stored' = stored \cup {digest}
  /\ UNCHANGED <<file, taken, digest, parsed, cataloged, recorded>>

Parse ==
  /\ taken # None
  /\ digest \in stored
  /\ parsed' = TRUE
  /\ UNCHANGED <<file, taken, digest, stored, cataloged, recorded>>

Catalog ==
  /\ taken # None
  /\ parsed
  /\ Unrecorded(digest)
  /\ cataloged' = cataloged \cup {digest}
  /\ parsed' = FALSE
  /\ UNCHANGED <<file, taken, digest, stored, recorded>>

Record ==
  /\ taken # None
  /\ digest \in cataloged
  /\ recorded' = [recorded EXCEPT ![taken] = digest]
  /\ taken' = None
  /\ digest' = None
  /\ UNCHANGED <<file, parsed, stored, cataloged>>

Unstore(c) ==
  /\ stored' = stored \ {c}
  /\ UNCHANGED <<file, taken, digest, parsed, cataloged, recorded>>

Forget(p) ==
  /\ recorded' = [recorded EXCEPT ![p] = None]
  /\ UNCHANGED <<file, taken, digest, parsed, stored, cataloged>>

Next ==
  \/ \E p \in Path : Change(p) \/ Take(p) \/ Forget(p)
  \/ \E c \in Content : Unstore(c)
  \/ Release
  \/ Store
  \/ Parse
  \/ Catalog
  \/ Record

Spec == Init /\ [][Next]_vars
=============================================================================
