----------------------------- MODULE SettleQueue -----------------------------
(***************************************************************************)
(* What a DirectoryWatcher promises to the IProcessor it is given,         *)
(* whatever the interleaving of its watch thread and its timer thread:     *)
(*                                                                         *)
(*   - a file is handed over only after it was noticed and waited for,     *)
(*     and one wait pays for at most one call;                             *)
(*   - a file may be noticed again while it is being processed, so that a  *)
(*     change made meanwhile is not forgotten;                             *)
(*   - calls made for settled files never overlap;                         *)
(*   - after a call failed no file is handed over until a restart.         *)
(***************************************************************************)
CONSTANTS Path,   \* the files of the watched directory
          None    \* no file is being processed

VARIABLES waiting,     \* files noticed and not yet settled
          processing,  \* the file the processor works on, or None
          halted       \* a call failed: no more calls

vars == <<waiting, processing, halted>>

TypeOK ==
  /\ waiting \subseteq Path
  /\ processing \in Path \cup {None}
  /\ halted \in BOOLEAN

Init ==
  /\ waiting = {}
  /\ processing = None
  /\ halted = FALSE

Notice(p) ==
  /\ p \notin waiting
  /\ waiting' = waiting \cup {p}
  /\ UNCHANGED <<processing, halted>>

HandOver(p) ==
  /\ p \in waiting
  /\ processing = None
  /\ ~halted
  /\ waiting' = waiting \ {p}
  /\ processing' = p
  /\ UNCHANGED halted

Forget(p) ==
  /\ p \in waiting
  /\ ~halted
  /\ waiting' = waiting \ {p}
  /\ UNCHANGED <<processing, halted>>

Done ==
  /\ processing # None
  /\ processing' = None
  /\ UNCHANGED <<waiting, halted>>

Fail ==
  /\ processing # None
  /\ processing' = None
  /\ halted' = TRUE
  /\ UNCHANGED waiting

Restart ==
  /\ waiting' = {}
  /\ processing' = None
  /\ halted' = FALSE

Next ==
  \/ \E p \in Path : Notice(p) \/ HandOver(p) \/ Forget(p)
  \/ Done
  \/ Fail
  \/ Restart

Spec == Init /\ [][Next]_vars
=============================================================================
