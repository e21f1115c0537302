------------------------------ MODULE MCBundles ------------------------------
(* TLC instance of Evidence: an attempt that is lost, resumed and closed. *)
EXTENDS Evidence, TLC

\* 1, run 1 was lost; 2, run 2 committed; 3, closed.
LostThenCommitted == <<{1}, {1, 2}, {1, 2}>>
Artifacts         == <<{}, {"a"}, {"a"}>>

\* Processes are compared, never ordered.
Interchangeable == Permutations(Bundlers)

\* A bound: a gap is not combined with what else may be found.
GapAlone == world.gapped # {} => world.spoiled = {} /\ ~world.locked

\* A bound: what is done to one bundle concerns no other, so one is changed.
OneChanged == \A p, q \in Bundlers : p # q => "nothing" \in {tampered[p], tampered[q]}

=============================================================================
