--------------------------- MODULE MCIndexEngine ---------------------------
(* Instances of IndexEngine: the histories of the files.                   *)
EXTENDS IndexEngine, TLC

CONSTANTS p1, p2, hA, hB, hC

\* One file, whose contents never come back: saved twice, or deleted and
\* written anew.
Saves == [p \in Paths |-> <<hA, hB, hC>>]
Rewritten == [p \in Paths |-> <<hA, NoHash, hB>>]

\* One file, saved once more.
Resaved == [p \in Paths |-> <<hA, hB>>]

\* A file that is deleted and restored, as a branch switch does.
Restored == [p \in Paths |-> <<hA, NoHash, hA>>]

\* Two files; one is deleted.
TwoFiles == (p1 :> <<hA, NoHash>>) @@ (p2 :> <<hA, hB>>)
=============================================================================
