--------------------------- MODULE MCProjectWatch ---------------------------
(* Instances of ProjectWatch: the setups, and what the environment may do   *)
(* in each.                                                                 *)
EXTENDS ProjectWatch

CONSTANTS a, b

AtMost(edits, stops, faults, contents) ==
    [edits |-> edits, stops |-> stops, faults |-> faults, contents |-> contents]

\* One project with a sequential and with a batching embedder, and a project
\* of a workspace, without the graph; the graph in both kinds of project.
AllSetups == {s \in [shared : BOOLEAN, batched : BOOLEAN, rpg : BOOLEAN] :
                 s.batched => ~s.shared /\ ~s.rpg}

\* The graph multiplies the states, so there the files hold less.
SomeOfEach == [s \in AllSetups |->
    CASE s.rpg /\ ~s.shared -> AtMost(2, 0, 1, {a})
      [] s.rpg /\ s.shared -> AtMost(1, 1, 1, {a})
      [] ~s.rpg /\ (s.batched \/ s.shared) -> AtMost(2, 1, 1, {a, Blank})
      [] OTHER -> AtMost(2, 1, 1, Contents)]
=============================================================================
