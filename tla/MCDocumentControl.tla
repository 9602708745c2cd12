--------------------------- MODULE MCDocumentControl ---------------------------
(***************************************************************************)
(* Instances of DocumentControlHistory for TLC.                            *)
(***************************************************************************)
EXTENDS DocumentControlHistory, TLC

CONSTANTS r1, r2, n1, c1, c2, p1, p2

TwoReviewers == {r1, r2}
OneName      == {n1}
TwoContents  == {c1, c2}
TwoProcs     == {p1, p2}

Symmetry == Permutations(Reviewers) \cup Permutations(Contents) \cup Permutations(Procs)

=============================================================================
