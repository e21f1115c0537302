----------------------------- MODULE Adjudication -----------------------------
(***************************************************************************)
(* The three judgements rein-core derives from a log: whether a request    *)
(* becomes an attempt (idempotency.rs), what an attempt's receipts amount  *)
(* to (classify.rs), and which attempt satisfies a task (selection.rs).    *)
(***************************************************************************)
EXTENDS Receipts

-----------------------------------------------------------------------------
(* idempotency.rs: admit *)

Created(l) == AnyOfKind(l, "attempt_created")

\* The attempts whose creation is on record.
CreatedIn(l) == {l[i].attempt : i \in Created(l)}

\* Creation receipts under the key <task>/context:<hash>/gen:<n>.
WithKey(l, t, h, g) ==
    {i \in Created(l) : /\ l[i].body.task = t
                        /\ l[i].body.hash = h
                        /\ l[i].body.generation = g}

MaxGeneration(l, t, h) ==
    LET gens == {l[i].body.generation :
                    i \in {c \in Created(l) : /\ l[c].body.task = t
                                              /\ l[c].body.hash = h}}
    IN  IF gens = {} THEN 0 ELSE Latest(gens)

\* Mutant of Refusal: the semantic hash of a fresh request is not compared.
RefusalWithoutHash(l, t, h, of) ==
    IF of = NoAttempt THEN "none"
    ELSE IF Births(l, of) = {} THEN "unknown_prior_attempt"
    ELSE IF l[Earliest(Births(l, of))].body.task # t THEN "task_mismatch"
    ELSE "none"

\* Why a request is turned away, or "none".  `of' is the attempt a retry
\* repeats, NoAttempt for a fresh request.
Refusal(l, t, h, of) ==
    LET sameTask == {c \in Created(l) : l[c].body.task = t}
        prior    == Births(l, of)
    IN  IF of = NoAttempt
        THEN IF \E c \in sameTask : l[c].body.hash # h
             THEN "semantic_change_rejected" ELSE "none"
        ELSE IF prior = {} THEN "unknown_prior_attempt"
             ELSE LET b == l[Earliest(prior)].body
                  IN  IF b.task # t THEN "task_mismatch"
                      ELSE IF b.hash # h THEN "semantic_change_rejected"
                      ELSE "none"

RequestGeneration(l, t, h, of) ==
    IF of = NoAttempt THEN 1 ELSE MaxGeneration(l, t, h) + 1

\* Mutant of Original: duplicate deliveries are not recognised.
NoOriginal(l, t, h, g) == NoAttempt

\* The attempt an earlier delivery of the same request created, if any.
Original(l, t, h, g) ==
    IF WithKey(l, t, h, g) = {} THEN NoAttempt
    ELSE l[Earliest(WithKey(l, t, h, g))].attempt

\* One task, one semantic hash, one attempt per request generation: what the
\* keys are for.
OneAttemptPerKey(l) ==
    \A i, j \in Created(l) :
        l[i].body.task = l[j].body.task =>
            /\ l[i].body.hash = l[j].body.hash
            /\ i # j => l[i].body.generation # l[j].body.generation

-----------------------------------------------------------------------------
(* classify.rs: precedence abort > step breach > run breach > quarantine > *)
(* commit and validation; anything less is refused as "insufficient".      *)

AbortOutcome(k) == CASE k = "admission_denied" -> "policy_denied"
                     [] k = "cancelled"        -> "cancelled"
                     [] k = "budget_denied"    -> "budget_exhausted"

Exceeded(l, a, scopes) ==
    {i \in OfKind(l, a, "budget") : /\ l[i].body.verdict = "exceeded"
                                    /\ l[i].body.scope \in scopes}

\* The commit receipt that stands is the latest one.
CommitVerdict(l, a, n) ==
    LET recs == l[Latest(OfKind(l, a, "commit"))].body.artifacts
    IN  IF n \in DOMAIN recs THEN recs[n] ELSE "missing"

\* The latest verdict of validator v over artifact n is a pass.
Passed(l, a, n, v) ==
    LET over == {i \in OfKind(l, a, "validation") :
                    l[i].body.artifact = n /\ l[i].body.validator = v}
    IN  over # {} /\ l[Latest(over)].body.verdict = "passed"

ValidArtifacts(l, a) ==
    {n \in Required : /\ CommitVerdict(l, a, n) = "verified"
                      /\ \A v \in Validators : Passed(l, a, n, v)}

\* Mutant of Classify: what was committed outranks what was aborted.
ClassifyCommitFirst(l, a) ==
    LET aborts == OfKind(l, a, "abort_cause")
    IN  IF OfKind(l, a, "commit") # {}
        THEN IF ValidArtifacts(l, a) = Required THEN "success" ELSE "artifact_invalid"
        ELSE IF aborts # {} THEN AbortOutcome(l[Earliest(aborts)].body.abort)
        ELSE "insufficient"

Classify(l, a) ==
    LET aborts == OfKind(l, a, "abort_cause")
        valid  == ValidArtifacts(l, a)
    IN  IF aborts # {}
        THEN AbortOutcome(l[Earliest(aborts)].body.abort)
        ELSE IF Exceeded(l, a, {"step"}) # {} THEN "timed_out"
        ELSE IF Exceeded(l, a, {"run", "reserve"}) # {} THEN "budget_exhausted"
        ELSE IF OfKind(l, a, "quarantine") # {} THEN "failure"
        ELSE IF OfKind(l, a, "commit") = {} THEN "insufficient"
        ELSE IF valid = Required THEN "success"
        ELSE IF valid # {} THEN "partial_success"
        ELSE "artifact_invalid"

-----------------------------------------------------------------------------
(* selection.rs: first-valid-deterministic@1 *)

Succeeded(l, a) ==
    \E i \in OfKind(l, a, "terminal") : l[i].body.outcome = "success"

Quarantined(l, a) == OfKind(l, a, "quarantine") # {}

\* Mutant of Selectable: only the most recent attempt counts.
LatestSucceeded(l, candidates) ==
    {a \in candidates : Succeeded(l, a) /\ \A c \in candidates : c <= a}

Selectable(l, candidates) ==
    {a \in candidates : Succeeded(l, a) /\ ~Quarantined(l, a)}

\* Candidates are tried in id order; a selection is recorded in every case,
\* under the selected attempt or, for want of one, under the first candidate.
Select(l, t, candidates) ==
    IF Selectable(l, candidates) = {}
    THEN [under |-> Earliest(candidates), body |-> Selection(t, NoAttempt, FALSE)]
    ELSE LET a == Earliest(Selectable(l, candidates))
         IN  [under |-> a, body |-> Selection(t, a, TRUE)]

\* The latest selection receipt decides, whatever came before it.
Selections(l, t) == {i \in AnyOfKind(l, "selection") : l[i].body.task = t}

TaskSatisfied(l, t) ==
    Selections(l, t) # {} /\ l[Latest(Selections(l, t))].body.satisfied

SelectedFor(l, t) == l[Latest(Selections(l, t))].body.selected

=============================================================================
