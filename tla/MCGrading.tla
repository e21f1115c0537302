----------------------------- MODULE MCGrading -----------------------------
(***************************************************************************)
(* Two graders on one file of grades, each with its own slice of the two   *)
(* questions (`eval grade --offset --limit').                              *)
(***************************************************************************)
EXTENDS Grading

g1 == "g1"
g2 == "g2"

Slices == [g \in {g1, g2} |-> [offset |-> IF g = g1 THEN 0 ELSE 1, limit |-> 1]]

=============================================================================
