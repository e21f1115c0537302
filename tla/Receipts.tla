------------------------------ MODULE Receipts ------------------------------
(***************************************************************************)
(* The pure half of rein-core: what the harness reads out of the           *)
(* append-only receipt ledger, and what it may append next.                *)
(*                                                                         *)
(* A log is a sequence of receipts [id, attempt, body] (ReceiptEnvelope).  *)
(* Attempts and receipts are named by the one counter that mints every     *)
(* identifier (IdGen), so both are natural numbers here.  Timestamps,      *)
(* reason texts and supporting-receipt lists carry no control and are left *)
(* out.  Nothing in this module has state: Lifecycle and Engine do.        *)
(***************************************************************************)
EXTENDS Naturals, Sequences, FiniteSets

CONSTANTS
    Tasks,        \* task references
    Hashes,       \* semantic context hashes a pack can have
    Required,     \* names of the contract's required artifacts
    Validators    \* the contract's mandatory validators

ASSUME ContractAssumption ==
    /\ Required # {}                    \* ContextPack::validate
    /\ IsFiniteSet(Required) /\ IsFiniteSet(Validators)

-----------------------------------------------------------------------------
(* Vocabulary. *)

States == {"created", "admitted", "preparing", "running", "commit_pending",
           "validating", "classifying", "terminal", "closed",
           "recovery_pending"}

\* Mutant of PreRun: a run that started may still be aborted on paper.
PreRunAndRunning == {"created", "admitted", "preparing", "running"}

PreRun == {"created", "admitted", "preparing"}

Aborts == {"admission_denied", "cancelled", "budget_denied"}

NoAttempt == 0     \* the mint starts at 1

Outcomes == {"success", "partial_success", "failure", "cancelled",
             "timed_out", "budget_exhausted", "policy_denied", "lease_lost",
             "artifact_invalid", "unknown"}

CommitVerdicts == {"verified", "readback_mismatch", "missing"}

ValidatorVerdicts == {"passed", "failed", "quarantined"}

-----------------------------------------------------------------------------
(* Receipt bodies. *)

AttemptCreated(t, h, g) ==
    [kind |-> "attempt_created", task |-> t, hash |-> h, generation |-> g]

Transition(from, to, cause, ref) ==
    [kind |-> "transition", from |-> from, to |-> to,
     cause |-> cause, ref |-> ref]

FenceGeneration(g) == [kind |-> "fence_generation", generation |-> g]
AbortCause(k)      == [kind |-> "abort_cause", abort |-> k]
Capture(r)         == [kind |-> "capture", run |-> r]
Environment        == [kind |-> "environment"]
Exception          == [kind |-> "exception"]
Budget(s, v)       == [kind |-> "budget", scope |-> s, verdict |-> v]
Commit(g, recs)    == [kind |-> "commit", generation |-> g, artifacts |-> recs]
Validation(n, v, verdict) ==
    [kind |-> "validation", artifact |-> n, validator |-> v, verdict |-> verdict]
Quarantine(n, v)   == [kind |-> "quarantine", artifact |-> n, validator |-> v]
Terminal(o)        == [kind |-> "terminal", outcome |-> o]
Selection(t, a, sat) ==
    [kind |-> "selection", task |-> t, selected |-> a, satisfied |-> sat]

Causes == {"advance", "abort", "recovery_entered", "recovery_resume",
           "classification_complete", "close"}

\* ReceiptBody, ReceiptEnvelope: what a log may hold.
Bodies ==
    [kind : {"attempt_created"}, task : Tasks, hash : Hashes, generation : Nat]
    \union [kind : {"transition"}, from : States, to : States,
            cause : Causes, ref : Nat]
    \union [kind : {"fence_generation"}, generation : Nat]
    \union [kind : {"abort_cause"}, abort : Aborts]
    \union [kind : {"capture"}, run : Nat]
    \union [kind : {"environment", "exception"}]
    \union [kind : {"budget"}, scope : {"step", "run", "reserve"},
            verdict : {"reserved", "exceeded"}]
    \union [kind : {"commit"}, generation : Nat,
            artifacts : [Required -> CommitVerdicts]]
    \union [kind : {"validation"}, artifact : Required, validator : Validators,
            verdict : ValidatorVerdicts]
    \union [kind : {"quarantine"}, artifact : Required, validator : Validators]
    \union [kind : {"terminal"}, outcome : Outcomes]
    \union [kind : {"selection"}, task : Tasks, selected : Nat, satisfied : BOOLEAN]

Envelopes == [id : Nat, attempt : Nat, body : Bodies]

\* ReceiptLog::append, once per body: consecutive ids from the mint at n.
Stamp(n, a, bodies) ==
    [k \in 1..Len(bodies) |-> [id |-> n + k, attempt |-> a, body |-> bodies[k]]]

-----------------------------------------------------------------------------
(* Reading a log. *)

Earliest(S) == CHOOSE i \in S : \A j \in S : i <= j
Latest(S)   == CHOOSE i \in S : \A j \in S : j <= i

Ids(l)          == {l[i].id : i \in DOMAIN l}
OfKind(l, a, k) == {i \in DOMAIN l : l[i].attempt = a /\ l[i].body.kind = k}
AnyOfKind(l, k) == {i \in DOMAIN l : l[i].body.kind = k}

\* ReceiptLog::get, restricted to one attempt and kind.
Holds(l, a, k, id) == \E i \in OfKind(l, a, k) : l[i].id = id

-----------------------------------------------------------------------------
(* state.rs: the state of an attempt is a fold over its receipts.          *)
(* resolve_state accumulates `state' through the transitions and refuses a *)
(* chain that does not link up; stated here position by position.          *)

Moves(l, a) == OfKind(l, a, "transition")

StateBefore(l, a, i) ==
    LET earlier == {j \in Moves(l, a) : j < i}
    IN  IF earlier = {} THEN "created" ELSE l[Latest(earlier)].body.to

StateOf(l, a) ==
    IF Moves(l, a) = {} THEN "created" ELSE l[Latest(Moves(l, a))].body.to

Births(l, a) == OfKind(l, a, "attempt_created")

ChainLinks(l, a) ==
    /\ \A i, j \in Births(l, a) : i = j
    /\ \A m \in Moves(l, a) : \E b \in Births(l, a) : b < m
    /\ \A m \in Moves(l, a) : l[m].body.from = StateBefore(l, a, m)

ResolveState(l, a) ==
    IF ~ChainLinks(l, a) THEN "corrupt_chain"
    ELSE IF Births(l, a) = {} THEN "unknown_attempt"
    ELSE StateOf(l, a)

\* The edges an Advance may walk.
Pipeline == {<<"created", "admitted">>, <<"admitted", "preparing">>,
             <<"preparing", "running">>, <<"running", "commit_pending">>,
             <<"commit_pending", "validating">>,
             <<"validating", "classifying">>}

\* Mutant of TerminalReceipt: any receipt of the attempt will do.
AnyReceiptWillDo(l, a, ref, os) ==
    \E i \in DOMAIN l : l[i].attempt = a /\ l[i].id = ref

\* The named terminal receipt exists for this attempt, with an outcome in os.
TerminalReceipt(l, a, ref, os) ==
    \E i \in OfKind(l, a, "terminal") : l[i].id = ref /\ l[i].body.outcome \in os

\* apply_transition's legality match.  The abort arm looks the cause receipt
\* up by id alone; the others also require it to belong to the attempt.
LegalTransition(l, a, to, cause, ref) ==
    LET from == ResolveState(l, a)
    IN  \/ cause = "advance" /\ <<from, to>> \in Pipeline
        \/ cause = "close" /\ from = "terminal" /\ to = "closed"
        \/ cause = "recovery_entered" /\ from = "running" /\ to = "recovery_pending"
        \/ /\ cause = "abort" /\ from \in PreRun /\ to = "classifying"
           /\ \E i \in AnyOfKind(l, "abort_cause") : l[i].id = ref
        \/ /\ cause = "recovery_resume"
           /\ from = "recovery_pending" /\ to = "preparing"
           /\ Holds(l, a, "fence_generation", ref)
        \/ /\ cause = "classification_complete"
           /\ from = "classifying" /\ to = "terminal"
           /\ TerminalReceipt(l, a, ref, Outcomes)
        \/ /\ cause = "classification_complete"
           /\ from = "recovery_pending" /\ to = "terminal"
           /\ TerminalReceipt(l, a, ref,
                IF OfKind(l, a, "exception") # {} THEN Outcomes ELSE {"unknown"})

\* Mutant of MoveTo: `from' read off the wrong end of the last transition.
MoveFromWrongEnd(l, a, to, cause, ref) ==
    Transition(IF Moves(l, a) = {} THEN "created"
               ELSE l[Latest(Moves(l, a))].body.from, to, cause, ref)

\* The transition receipt apply_transition appends: `from' is the resolved state.
MoveTo(l, a, to, cause, ref) == Transition(ResolveState(l, a), to, cause, ref)

-----------------------------------------------------------------------------
(* fence.rs *)

Fences(l, a) == OfKind(l, a, "fence_generation")

\* Mutant of CurrentGeneration: the first fence receipt instead of the last.
FirstGeneration(l, a) ==
    IF Fences(l, a) = {} THEN 0 ELSE l[Earliest(Fences(l, a))].body.generation

CurrentGeneration(l, a) ==
    IF Fences(l, a) = {} THEN 0 ELSE l[Latest(Fences(l, a))].body.generation

\* Mutant of GuardCommit: the presented generation is not compared.
GuardExistsOnly(l, a, presented) == Fences(l, a) # {}

\* guard_commit: refused without a fence receipt or under another generation.
GuardCommit(l, a, presented) ==
    Fences(l, a) # {} /\ presented = CurrentGeneration(l, a)

=============================================================================
