------------------------------ MODULE MCEngine ------------------------------
(* TLC instances of Engine. *)
EXTENDS Engine

\* One artifact: committed and read back, or absent.
SomeCommits == [Required -> {"verified", "missing"}]
GoodCommit == [Required -> {"verified"}]

\* The inputs are not what they were at first.
Changed == \E t \in Tasks : inputs[t] # CHOOSE h \in Hashes : TRUE

\* Bounds: inputs change only once they were admitted and where nothing was
\* killed; a third command only where nothing was killed, cancelled or judged
\* anything but a success and the inputs are what they were.
ThirdUndisturbed ==
    /\ Changed => Created(ledger) # {} /\ crashes = 0
    /\ commands = 3 =>
        /\ crashes = 0 /\ flags = {} /\ ~Changed
        /\ \A i \in AnyOfKind(ledger, "terminal") : ledger[i].body.outcome = "success"
=============================================================================
