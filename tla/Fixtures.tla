------------------------------- MODULE Fixtures -------------------------------
(***************************************************************************)
(* The ten fixture hands (fakes.rs), each a function of the contract, and  *)
(* what the pipeline of one run makes of what a hand hands back: the       *)
(* events through HandEvents' ledger and budget, the staged bytes through  *)
(* commit and the built-in validators, the receipts through Classify.      *)
(* Bytes are named by where they come from, and a digest by its bytes.     *)
(***************************************************************************)
EXTENDS Adjudication, SequencesExt, FiniteSetsExt

CONSTANT Limit      \* per_step_timeout_ms

VARIABLES
    contract,    \* per artifact: its name ends in .json; it is declared
                 \* application/json; its min_bytes exceed the fixture's bytes
    registered   \* the fixture's secret is known to the redactor

pinned == <<contract, registered>>

Absent == <<"absent", 0>>
Secret == <<"secret", 0>>
Wished == <<"wished", 0>>

First == Min(Required)

\* deterministic_artifact_bytes: the generation is stripped from the key.
DeterministicBytes(n, generation) == <<"deterministic", n>>

-----------------------------------------------------------------------------
(* The fixtures.  What a hand yields: [staged, claimed, events]. *)

Ev(kind, step, at) == [kind |-> kind, step |-> step, at |-> at]
Activity(at)       == Ev("activity", 0, at)
Completed(at)      == Ev("completed", 0, at)

\* EventBuilder numbers them; one ArtifactDeclared per claim.
Numbered(evs) == [i \in DOMAIN evs |-> [seq |-> i - 1, event |-> evs[i]]]
Declared(claimed, at) ==
    [i \in 1..Cardinality({n \in Required : claimed[n] # Absent}) |-> Activity(at)]

StageAll(g) == [n \in Required |-> DeterministicBytes(n, g)]
Nothing     == [n \in Required |-> Absent]

Yields(staged, claimed, evs) ==
    [staged |-> staged, claimed |-> claimed, events |-> Numbered(evs)]

DeterministicA(g) ==
    Yields(StageAll(g), StageAll(g),
           <<Activity(0), Ev("step_started", 1, 1)>> \o Declared(StageAll(g), 2)
           \o <<Ev("step_completed", 1, 3), Activity(4), Completed(5)>>)

DeterministicB(g) ==
    Yields(StageAll(g), StageAll(g),
           <<Activity(0), Ev("step_started", 1, 7), Activity(9),
             Ev("step_completed", 1, 11), Ev("step_started", 2, 12)>>
           \o Declared(StageAll(g), 13)
           \o <<Ev("step_completed", 2, 14), Completed(15)>>)

Exit0Empty(g) == Yields(Nothing, Nothing, <<Activity(0), Activity(1), Completed(2)>>)

HashMismatch(g) ==
    LET claimed == [n \in Required |-> Wished]
    IN  Yields(StageAll(g), claimed,
               <<Activity(0)>> \o Declared(claimed, 1) \o <<Completed(2)>>)

DuplicateCallback(g) ==
    LET once == Yields(StageAll(g), StageAll(g),
                       <<Activity(0)>> \o Declared(StageAll(g), 1) \o <<Completed(2)>>)
    IN  [once EXCEPT !.events = Append(@, Last(@))]

TimeoutFake(g) ==
    Yields(Nothing, Nothing,
           <<Activity(0), Ev("step_started", 1, 1),
             Ev("step_completed", 1, Limit + 2), Completed(Limit + 3)>>)

SecretLeak(g) ==
    LET staged == [StageAll(g) EXCEPT ![First] = Secret]
    IN  Yields(staged, staged, <<Activity(0), Activity(1), Completed(2)>>)

PartialOutput(g) ==
    LET staged == [Nothing EXCEPT ![First] = DeterministicBytes(First, g)]
    IN  Yields(staged, staged,
               <<Activity(0)>> \o Declared(staged, 1) \o <<Completed(2)>>)

UnknownAfterDisconnect(g) ==
    Yields(Nothing, Nothing,
           <<Activity(0), Ev("step_started", 1, 1), Ev("disconnected", 0, 2)>>)

\* The chunks are Utf8Decoder's business; here one stands for all.
CjkSplitter(g) ==
    Yields(StageAll(g), StageAll(g),
           <<Activity(0), Activity(1)>> \o Declared(StageAll(g), 2) \o <<Completed(3)>>)

Selectors == {"deterministic-a", "deterministic-b", "exit0-empty", "hash-mismatch",
              "duplicate-callback", "timeout", "secret-leak", "partial-output",
              "unknown-after-disconnect", "cjk-splitter"}

\* HandRegistry::get and FixtureHand::run.
Run(hand, g) ==
    CASE hand = "deterministic-a"          -> DeterministicA(g)
      [] hand = "deterministic-b"          -> DeterministicB(g)
      [] hand = "exit0-empty"              -> Exit0Empty(g)
      [] hand = "hash-mismatch"            -> HashMismatch(g)
      [] hand = "duplicate-callback"       -> DuplicateCallback(g)
      [] hand = "timeout"                  -> TimeoutFake(g)
      [] hand = "secret-leak"              -> SecretLeak(g)
      [] hand = "partial-output"           -> PartialOutput(g)
      [] hand = "unknown-after-disconnect" -> UnknownAfterDisconnect(g)
      [] hand = "cjk-splitter"             -> CjkSplitter(g)

-----------------------------------------------------------------------------
(* One run through the pipeline. *)

\* HandEvents with this run's ledger; its state is not used.
Hand == INSTANCE HandEvents WITH
    Steps <- {1, 2}, Times <- 0..(Limit + 20), MaxEvents <- 0, MaxDeliveries <- 0,
    emitted <- <<>>, delivered <- {}, ledger <- <<>>, surfaced <- {},
    conflict <- FALSE, phase <- "closed"

\* EventLedger: the first event of every number stands.
Ledger(evs) ==
    [n \in {evs[i].seq : i \in DOMAIN evs} |->
        evs[Earliest({i \in DOMAIN evs : evs[i].seq = n})].event]

Conflicting(evs) == \E i \in DOMAIN evs : evs[i].event # Ledger(evs)[evs[i].seq]

Heard(out) == Hand!Report(Hand!InOrder(Ledger(out.events)), Conflicting(out.events))

\* evaluate_artifact_commit; an object that reads back at all reads back as
\* staged.
CommitVerdictOf(claimed, staged) ==
    IF staged = Absent THEN "missing"
    ELSE IF claimed \in {Absent, staged} THEN "verified" ELSE "readback_mismatch"

WellFormed(n, bytes) ==
    IF \/ contract[n].demanding
       \/ contract[n].json /\ ~(contract[n].suffixed /\ bytes # Secret)
    THEN "failed" ELSE "passed"

\* Mutant of SecretScan: a hit fails the artifact instead of withholding it.
SecretScanFails(bytes) == IF registered /\ bytes = Secret THEN "failed" ELSE "passed"

SecretScan(bytes) == IF registered /\ bytes = Secret THEN "quarantined" ELSE "passed"

\* ValidatorRegistry::run: one that is not installed fails.
ValidatorRun(v, n, bytes) ==
    CASE v = "artifact-wellformed" -> WellFormed(n, bytes)
      [] v = "secret-scan"         -> SecretScan(bytes)
      [] OTHER                     -> "failed"

Judged(n, v, bytes) ==
    LET verdict == ValidatorRun(v, n, bytes)
    IN  <<Validation(n, v, verdict)>> \o
        (IF verdict = "quarantined" THEN <<Quarantine(n, v)>> ELSE <<>>)

\* The commit receipt and the validation receipts over what was verified.
Committed(out, fence) ==
    LET recs == [n \in Required |-> CommitVerdictOf(out.claimed[n], out.staged[n])]
        over == {n \in Required : recs[n] = "verified"}
        judge(acc, n) == acc \o FlattenSeq([i \in 1..Cardinality(Validators) |->
                            Judged(n, SetToSeq(Validators)[i], out.staged[n])])
    IN  <<Commit(fence, recs)>> \o FoldLeft(judge, <<>>, SetToSeq(over))

\* Capture, the step charged, a cancel seen during the run; then, unless the
\* run was lost, the commit and its validation.
Evidence(out, cancelled, fence) ==
    <<Capture(fence)>>
    \o (IF Heard(out).breach # 0 THEN <<Budget("step", "exceeded")>> ELSE <<>>)
    \o (IF cancelled THEN <<AbortCause("cancelled")>> ELSE <<>>)
    \o (IF Heard(out).lost THEN <<>> ELSE Committed(out, fence))

\* The bodies as the receipts of attempt 1.
AsLog(bodies) == Stamp(0, 1, bodies)
Verdict(bodies) == Classify(AsLog(bodies), 1)

=============================================================================
