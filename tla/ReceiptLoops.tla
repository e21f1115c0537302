----------------------------- MODULE ReceiptLoops -----------------------------
(***************************************************************************)
(* rein-core reads its log in single passes that carry an accumulator.     *)
(* Receipts and Adjudication state the same judgements position by         *)
(* position; here are the passes as written, over logs that anybody with   *)
(* log.append could have produced, and the claim that the two agree.       *)
(***************************************************************************)
EXTENDS Adjudication, SequencesExt, TLC

CONSTANTS
    Pool,        \* attempt names receipts may carry
    Alphabet,    \* bodies that may be appended
    MaxLength    \* bound: receipts in the log

VARIABLE log

Pass(l, Op(_, _), init) == FoldLeft(Op, init, l)

-----------------------------------------------------------------------------
(* state.rs, fence.rs *)

\* resolve_state: does the creation exist yet, the state so far, and whether
\* an early return has happened.
ResolvePass(l, a) ==
    LET see(acc, e) ==
            IF acc.corrupt \/ e.attempt # a THEN acc
            ELSE IF e.body.kind = "attempt_created"
            THEN IF acc.exists THEN [acc EXCEPT !.corrupt = TRUE]
                 ELSE [acc EXCEPT !.exists = TRUE]
            ELSE IF e.body.kind = "transition"
            THEN IF ~acc.exists \/ e.body.from # acc.state
                 THEN [acc EXCEPT !.corrupt = TRUE]
                 ELSE [acc EXCEPT !.state = e.body.to]
            ELSE acc
        end == Pass(l, see, [exists |-> FALSE, state |-> "created", corrupt |-> FALSE])
    IN  IF end.corrupt THEN "corrupt_chain"
        ELSE IF ~end.exists THEN "unknown_attempt"
        ELSE end.state

\* current_generation; an attempt without a fence receipt has none.
GenerationPass(l, a) ==
    Pass(l, LAMBDA g, e : IF e.attempt = a /\ e.body.kind = "fence_generation"
                          THEN e.body.generation ELSE g, 0)

-----------------------------------------------------------------------------
(* classify.rs: one pass to gather, then the precedence over what was found *)

Nothing == [abort |-> "none", step |-> FALSE, run |-> FALSE, quarantined |-> FALSE,
            committed |-> FALSE, commit |-> <<>>, validations |-> <<>>]

\* The first abort stands (get_or_insert), the last commit and the last
\* verdict of a validator over an artifact do (assignment, map insertion).
Gather(l, a) ==
    LET see(acc, e) ==
        LET b == e.body
        IN  IF e.attempt # a THEN acc
            ELSE CASE b.kind = "abort_cause" ->
                        [acc EXCEPT !.abort = IF @ = "none" THEN b.abort ELSE @]
                   [] b.kind = "budget" /\ b.verdict = "exceeded" ->
                        IF b.scope = "step" THEN [acc EXCEPT !.step = TRUE]
                        ELSE [acc EXCEPT !.run = TRUE]
                   [] b.kind = "quarantine" -> [acc EXCEPT !.quarantined = TRUE]
                   [] b.kind = "commit" ->
                        [acc EXCEPT !.committed = TRUE, !.commit = b.artifacts]
                   [] b.kind = "validation" ->
                        [acc EXCEPT !.validations =
                            (<<b.artifact, b.validator>> :> b.verdict) @@ @]
                   [] OTHER -> acc
    IN  Pass(l, see, Nothing)

\* Count the required artifacts whose standing commit record is verified and
\* for which no mandatory validator lacks a passing verdict.
Adjudge(g) ==
    LET passed(n, v) == /\ <<n, v>> \in DOMAIN g.validations
                        /\ g.validations[<<n, v>>] = "passed"
        ok(n) == /\ n \in DOMAIN g.commit /\ g.commit[n] = "verified"
                 /\ \A v \in Validators : passed(n, v)
        valid == FoldSet(LAMBDA n, count : IF ok(n) THEN count + 1 ELSE count, 0, Required)
    IN  IF g.abort # "none" THEN AbortOutcome(g.abort)
        ELSE IF g.step THEN "timed_out"
        ELSE IF g.run THEN "budget_exhausted"
        ELSE IF g.quarantined THEN "failure"
        ELSE IF ~g.committed THEN "insufficient"
        ELSE IF valid = Cardinality(Required) THEN "success"
        ELSE IF valid > 0 THEN "partial_success"
        ELSE "artifact_invalid"

\* Mutant of ClassifyPass: the log is read newest first.
ClassifyNewestFirst(l, a) == Adjudge(Gather(Reverse(l), a))

ClassifyPass(l, a) == Adjudge(Gather(l, a))

-----------------------------------------------------------------------------
(* idempotency.rs, selection.rs *)

\* max_generation over the creation receipts of one task and hash.
MaxGenerationPass(l, t, h) ==
    Pass(l, LAMBDA g, e :
            IF /\ e.body.kind = "attempt_created" /\ e.body.task = t /\ e.body.hash = h
               /\ e.body.generation > g
            THEN e.body.generation ELSE g, 0)

\* latest_selection: every matching receipt overwrites what was found before.
SatisfiedPass(l, t) ==
    Pass(l, LAMBDA found, e :
            IF e.body.kind = "selection" /\ e.body.task = t
            THEN e.body.satisfied ELSE found, FALSE)

-----------------------------------------------------------------------------

Init == log = <<>>

AppendReceipt(a, b) ==
    /\ Len(log) < MaxLength
    /\ log' = Append(log, [id |-> Len(log) + 1, attempt |-> a, body |-> b])

Next == \E a \in Pool, b \in Alphabet : AppendReceipt(a, b)

Spec == Init /\ [][Next]_log

-----------------------------------------------------------------------------

\* resolve_state accepts exactly the chains that begin with their one
\* creation receipt and link up, and returns where they end; it reports the
\* same error for the others (state.rs:239), and the latest fence receipt is
\* the generation in force (fence.rs:21).
StatePassesAgree ==
    \A a \in Pool : /\ ResolvePass(log, a) = ResolveState(log, a)
                    /\ GenerationPass(log, a) = CurrentGeneration(log, a)

\* classify: whatever the order in which evidence arrived, first abort, last
\* commit and last verdict per validator decide, in the documented precedence.
ClassifyPassAgrees == \A a \in Pool : ClassifyPass(log, a) = Classify(log, a)

\* max_generation is the largest generation on record, in whatever order the
\* requests were recorded, so generation + 1 is a fresh idempotency key.
RetryKeyIsFresh ==
    \A t \in Tasks, h \in Hashes :
        /\ MaxGenerationPass(log, t, h) = MaxGeneration(log, t, h)
        /\ WithKey(log, t, h, MaxGenerationPass(log, t, h) + 1) = {}

\* task_satisfied follows the last selection receipt of the task.
SelectionPassAgrees == \A t \in Tasks : SatisfiedPass(log, t) = TaskSatisfied(log, t)

=============================================================================
