----------------------------- MODULE MCInboxWatch -----------------------------
(* Small instances of InboxWatch for TLC. *)
EXTENDS InboxWatch, TLC

CONSTANTS p1, p2, p3, c1, c2

TwoFiles == {p1, p2}
ThreeFiles == {p1, p2, p3}
Files1 == {p1}
Files3 == {p3}
None_ == {}

\* c1 and c2 have the same length: a change from one to the other shows
\* only in the digest
TwoContents == {c1, c2}
Interchangeable == Permutations(TwoContents)
SameSize == [c \in TwoContents |-> 1]
=============================================================================
