------------------------------ MODULE Lifecycle ------------------------------
(***************************************************************************)
(* rein-core as a library: one in-memory ReceiptLog, and a caller that     *)
(* invokes the library's appending functions in any order it likes.        *)
(*                                                                         *)
(* The claim of state.rs is structural: whatever the caller does, there is *)
(* no way into `terminal' but a receipt, no way out of recovery but a new  *)
(* generation or `unknown'.  So nothing here follows the engine's order;   *)
(* the only discipline is the guards of the functions themselves and that  *)
(* a terminal receipt holds a Classification, which classify and           *)
(* close_as_unknown alone produce, for an attempt in whatever state.       *)
(***************************************************************************)
EXTENDS Adjudication

CONSTANTS
    AbortKinds,      \* abort causes the caller uses, a subset of Aborts
    CommitRecords,   \* per-artifact verdict records a commit may carry
    Evidence         \* other bodies the caller may append with log.append

ASSUME CallerAssumption ==
    /\ AbortKinds \subseteq Aborts
    /\ CommitRecords \subseteq [Required -> CommitVerdicts]
    /\ Evidence \subseteq {b \in Bodies : b.kind \in
           {"validation", "quarantine", "budget", "abort_cause", "exception", "capture"}}

VARIABLES
    log,      \* the ReceiptLog
    issued    \* IdGen: how many identifiers have been minted

vars == <<log, issued>>

Attempts == {log[i].attempt : i \in Created(log)}

\* Mutant of Append_: the mint is not advanced.
AppendOnly(a, bodies) ==
    log' = log \o Stamp(issued, a, bodies) /\ UNCHANGED issued

\* Append the bodies to attempt a, minting their ids in order.
Append_(a, bodies) ==
    /\ log' = log \o Stamp(issued, a, bodies)
    /\ issued' = issued + Len(bodies)

-----------------------------------------------------------------------------
(* Actions: one per library function that appends. *)

\* admit: a refused request or a duplicate leaves the log as it is.
Admit(t, h, of) ==
    LET a == issued + 1
        g == RequestGeneration(log, t, h, of)
    IN  /\ Refusal(log, t, h, of) = "none"
        /\ Original(log, t, h, g) = NoAttempt
        /\ log' = log \o Stamp(a, a, <<AttemptCreated(t, h, g), FenceGeneration(1)>>)
        /\ issued' = issued + 3

ApplyTransition(a, to, cause, ref) ==
    /\ LegalTransition(log, a, to, cause, ref)
    /\ Append_(a, <<MoveTo(log, a, to, cause, ref)>>)

Advance(a) == \E to \in States : ApplyTransition(a, to, "advance", 0)

\* Causes that name a receipt: whichever the caller names.
AbortOn(a) ==
    \E ref \in Ids(log) : ApplyTransition(a, "classifying", "abort", ref)

ResumeUnder(a) ==
    \E ref \in Ids(log) : ApplyTransition(a, "preparing", "recovery_resume", ref)

CompleteClassification(a) ==
    \E ref \in Ids(log) :
        ApplyTransition(a, "terminal", "classification_complete", ref)

EnterRecovery(a) == ApplyTransition(a, "recovery_pending", "recovery_entered", 0)

Close(a) == ApplyTransition(a, "closed", "close", 0)

\* abort_to_classifying: the cause receipt and the transition naming it.
AbortToClassifying(a, k) ==
    /\ ResolveState(log, a) \in PreRun
    /\ Append_(a, <<AbortCause(k),
                    MoveTo(log, a, "classifying", "abort", issued + 1)>>)

\* issue_next_generation.
IssueNextGeneration(a) ==
    /\ Fences(log, a) # {}
    /\ Append_(a, <<FenceGeneration(CurrentGeneration(log, a) + 1)>>)

\* resume_commit_new_generation: checked first, so a refusal appends nothing.
ResumeCommit(a) ==
    /\ ResolveState(log, a) = "recovery_pending"
    /\ Fences(log, a) # {}
    /\ Append_(a, <<FenceGeneration(CurrentGeneration(log, a) + 1),
                    MoveTo(log, a, "preparing", "recovery_resume", issued + 1)>>)

\* close_attempt_as_unknown.
CloseAsUnknown(a) ==
    /\ ResolveState(log, a) = "recovery_pending"
    /\ Append_(a, <<Terminal("unknown"),
                    MoveTo(log, a, "terminal", "classification_complete", issued + 1)>>)

\* classify, its verdict appended as a terminal receipt.  Neither looks at the
\* state: a verdict may be on record before the attempt runs.
RecordClassification(a) ==
    /\ Classify(log, a) # "insufficient"
    /\ Append_(a, <<Terminal(Classify(log, a))>>)

\* close_as_unknown's Classification, appended likewise.
RecordUnknown(a) == Append_(a, <<Terminal("unknown")>>)

\* A commit presented under generation g, behind the fence.
CommitUnder(a, g, recs) ==
    /\ GuardCommit(log, a, g)
    /\ Append_(a, <<Commit(g, recs)>>)

RecordEvidence(a, b) == Append_(a, <<b>>)

SelectAndRecord(t) ==
    LET candidates == {log[i].attempt : i \in {c \in Created(log) : log[c].body.task = t}}
    IN  /\ candidates # {}
        /\ LET s == Select(log, t, candidates)
           IN  Append_(s.under, <<s.body>>)

Init == log = <<>> /\ issued = 0

AttemptStep(a) ==
    \/ Advance(a) \/ AbortOn(a) \/ ResumeUnder(a) \/ CompleteClassification(a)
    \/ EnterRecovery(a) \/ Close(a)
    \/ \E k \in AbortKinds : AbortToClassifying(a, k)
    \/ IssueNextGeneration(a) \/ ResumeCommit(a) \/ CloseAsUnknown(a)
    \/ RecordClassification(a) \/ RecordUnknown(a)
    \/ \E g \in 1..issued, recs \in CommitRecords : CommitUnder(a, g, recs)
    \/ \E b \in Evidence : RecordEvidence(a, b)

Next ==
    \/ \E t \in Tasks, h \in Hashes, of \in Attempts \union {NoAttempt} : Admit(t, h, of)
    \/ \E a \in Attempts : AttemptStep(a)
    \/ \E t \in Tasks : SelectAndRecord(t)

Spec == Init /\ [][Next]_vars

-----------------------------------------------------------------------------
(* Properties. *)

\* The log holds envelopes, and no number in it has run ahead of the mint:
\* neither ids nor attempts, nor the request generations, one per attempt.
TypeOK ==
    /\ issued \in Nat
    /\ log \in Seq(Envelopes)
    /\ \A i \in DOMAIN log :
          /\ log[i].id \in 1..issued /\ log[i].attempt \in 1..issued
          /\ i \in Created(log) => log[i].body.generation \in 1..issued

\* Whatever the caller does, every attempt that has a receipt still resolves:
\* its chain starts at its one creation receipt and links up (invariant 22;
\* resolve_state never reports CorruptChain or UnknownAttempt).
ChainIntact ==
    \A a \in {log[i].attempt : i \in DOMAIN log} : ResolveState(log, a) \in States

\* An attempt's transition into terminal names a terminal receipt of the same
\* attempt that was there before it.
Earned(l, a) ==
    \E m \in Moves(l, a), i \in OfKind(l, a, "terminal") :
        i < m /\ l[m].body.to = "terminal" /\ l[m].body.ref = l[i].id

\* No path implies a verdict (state.rs:10-14): an attempt in terminal or
\* closed got there by a verdict on record.
TerminalEarned ==
    \A a \in Attempts : StateOf(log, a) \in {"terminal", "closed"} => Earned(log, a)

\* There is no force-success (invariant 5): an attempt leaves recovery_pending for
\* terminal on an `unknown' of its own, or else with an exception authorized
\* before, whatever verdicts are on record from before it was lost.
NoForcedSuccess(l, a) ==
    \A m \in Moves(l, a) :
        l[m].body.from = "recovery_pending" /\ l[m].body.to = "terminal" =>
            \E i \in OfKind(l, a, "terminal") :
                /\ i < m /\ l[m].body.ref = l[i].id
                /\ \/ l[i].body.outcome = "unknown"
                   \/ \E x \in OfKind(l, a, "exception") : x < m

\* From its first abort cause on, an attempt is judged by that, or unknown,
\* whatever it committed and whatever else reaches the log, in any order (O2).
AbortDecides(l, a) ==
    LET causes == OfKind(l, a, "abort_cause")
    IN  \A k \in causes, i \in OfKind(l, a, "terminal") :
            k < i => l[i].body.outcome \in
                        {"unknown", AbortOutcome(l[Earliest(causes)].body.abort)}

\* Old generations may not commit (invariant 24): a commit receipt carries
\* the generation of the latest fence receipt before it, and generations
\* only grow along an attempt's receipts, whoever issued them.
NoStaleCommit(l, a) ==
    /\ \A c \in OfKind(l, a, "commit"), f \in Fences(l, a) :
            f < c => l[f].body.generation <= l[c].body.generation
    /\ \A f, g \in Fences(l, a) :
            f < g => l[f].body.generation < l[g].body.generation

\* No way out of recovery, no verdict and no commit against the evidence.
EvidenceRules ==
    \A a \in Attempts :
        NoForcedSuccess(log, a) /\ AbortDecides(log, a) /\ NoStaleCommit(log, a)

\* Idempotency (invariants 6 and 23): one attempt per key, and all attempts
\* of a task were admitted under one semantic hash.
RequestsIdempotent == OneAttemptPerKey(log)

\* The diagram at the top of state.rs.
Drawn == {<<"created", "admitted">>, <<"admitted", "preparing">>,
          <<"preparing", "running">>, <<"running", "commit_pending">>,
          <<"commit_pending", "validating">>, <<"validating", "classifying">>,
          <<"classifying", "terminal">>, <<"terminal", "closed">>,
          <<"created", "classifying">>, <<"admitted", "classifying">>,
          <<"preparing", "classifying">>, <<"running", "recovery_pending">>,
          <<"recovery_pending", "preparing">>, <<"recovery_pending", "terminal">>}

\* A step moves an attempt along a drawn edge or leaves it where it is; in
\* particular closed is final and terminal leads only to closed.
OnlyDrawnEdges ==
    [][\A a \in Attempts :
          \/ StateOf(log', a) = StateOf(log, a)
          \/ <<StateOf(log, a), StateOf(log', a)>> \in Drawn]_vars

-----------------------------------------------------------------------------
(* What the documentation says, and the code does not keep. *)

\* state.rs: an abort into classifying has its cause receipt appended in the
\* same call, so an aborted attempt has a cause of its own.
AbortHasOwnCause ==
    \A a \in Attempts : \A m \in Moves(log, a) :
        log[m].body.cause = "abort" => OfKind(log, a, "abort_cause") # {}

=============================================================================
