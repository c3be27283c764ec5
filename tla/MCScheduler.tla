----------------------------- MODULE MCScheduler -----------------------------
(* Instances of Scheduler: which intent is of which path and repository.   *)
EXTENDS Scheduler, TLC

CONSTANTS a1, a2, b, c, run

\* Three repositories of one path each; the path of the first has two intents.
Repository == (a1 :> 1) @@ (a2 :> 1) @@ (b :> 2) @@ (c :> 3)
Path == (a1 :> "a") @@ (a2 :> "a") @@ (b :> "b") @@ (c :> "c")
=============================================================================
