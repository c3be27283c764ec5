---------------------------- MODULE MCWatchManager ----------------------------
(***************************************************************************)
(* Two instances of WatchManager in one: a worktree that is registered     *)
(* once and disturbed without end, and one whose registrations race while  *)
(* it is disturbed MaxDisturbances times.                                  *)
(***************************************************************************)
EXTENDS WatchManager

CONSTANTS First, MaxDisturbances

VARIABLE left

Endless == MaxDisturbances + 1

MCInit ==
    /\ WatchInit
    /\ left \in {MaxDisturbances, Endless}

MCNext ==
    /\ \/ Disturbance /\ left # 0 /\ left' = IF left = Endless THEN left ELSE left - 1
       \/ Work /\ UNCHANGED left
    /\ left = Endless => \A c \in Calls \ {First} : UNCHANGED call[c]

MCSpec == MCInit /\ [][MCNext]_<<vars, left>> /\ WatchFairness
=============================================================================
