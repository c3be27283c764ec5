---------------------------- MODULE MonotoneView ----------------------------
(***************************************************************************)
(* What searching a worktree promises, with no queue, worker or daemon: a  *)
(* path is shown in a version it really had, never one of the future, and  *)
(* once a version was shown no older one comes back, except that the view  *)
(* as a whole may be wiped and built anew for another fingerprint.         *)
(***************************************************************************)
EXTENDS Naturals

CONSTANTS Paths

VARIABLES
    saved,     \* the version of each path on disk, counted from 1
    shown    \* the version the view shows, 0 before the first

viewVars == <<saved, shown>>

ViewInit == /\ saved = [p \in Paths |-> 1]
            /\ shown = [p \in Paths |-> 0]

ViewEdit(p) == /\ saved' = [saved EXCEPT ![p] = @ + 1]
               /\ UNCHANGED shown

ViewShow(p) == /\ \E v \in (shown[p] + 1)..saved[p] : shown' = [shown EXCEPT ![p] = v]
               /\ UNCHANGED saved

ViewWipe == /\ shown' = [p \in Paths |-> 0]
            /\ UNCHANGED saved

ViewNext == \/ \E p \in Paths : ViewEdit(p) \/ ViewShow(p)
            \/ ViewWipe

ViewSpec == ViewInit /\ [][ViewNext]_viewVars
=============================================================================
