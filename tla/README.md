# Rein, specified

Rein runs *attempts* at *tasks* with untrusted workers ("hands") and believes
nothing it has no receipt for. Its state is an append-only ledger of receipts;
an attempt's state, its verdict and a task's satisfaction are all read out of
that ledger. Around the ledger stand a content-addressed store, plans, packs of
pinned captures, evidence bundles, finance hands with validators, and an
evaluation that drives many attempts. This directory holds TLA+ models of that
machinery, the TLC instances that check them, and TLAPS proofs about the ledger,
the engine, plans, the stores, bundles and the evaluation.
Source paths below are relative to `src/crates/`.

Tools: `tlc -config X.cfg M` for a run of `PROJECT.json`, `tlapm M.tla` for
`LogLemmas`, `Lifecycle_proofs`, `Engine_proofs`, `Engine_books`, `Plan_proofs`,
`Store_proofs`, `Evaluation_proofs` and `Evidence_proofs`.

## 1. Inventory

| Component | State | Operations | Interacts through | Must be true |
|---|---|---|---|---|
| Receipt ledger, state machine (`rein-core` `receipts state fence recovery`) | a `ReceiptLog`, an `IdGen` | append, `apply_transition`, `abort_to_classifying`, `enter_recovery`, `resume_commit_new_generation`, `close_attempt_as_unknown`, `guard_commit` | called by the engine; no I/O | chains resolve; only drawn edges; terminal only with a verdict of one's own; `unknown` only explicitly; no commit under an old generation |
| Admission (`idempotency`) | the same log | `admit` fresh / retry / duplicate | engine | one attempt per key, one semantic hash per task |
| Classification, selection (`classify selection outcome`) | none | `classify`, `select_and_record`, `task_satisfied` | engine, CLI | the documented precedence; satisfied means evidence; satisfaction is not lost |
| Engine (`rein-runtime/engine.rs`) | per command: copy of the log, sync position, mint, attempt, run | run, retry, resume, close, cancel | store, hands, CAS, cancel file | every attempt settles; a crash leaves a consistent store; a cancel sticks; no hand after a verdict |
| Store (`store.rs`) | SQLite: receipts, id mark, packs, attempts, runs, events, captures, epochs, plans, tasks | one transaction per call | all commands, several processes | join keys resolve; ids are fresh; frozen rows do not change |
| Recovery queue (`recovery_queue.rs`) | none (reads) | list anomalies and actions | CLI, TUI | nobody unseen; what is shown can be acted on |
| Hand protocol (`hand.rs`, `capture.rs`) | event ledger of a run; decoder tail | ingest, gaps, step breach; feed, finish | engine | first event of a number stands; delivery order and chunking do not matter |
| Missions, epochs, plans, tasks (`entities.rs`, `store.rs`, `cmds.rs`) | one row each; a pack per freeze | open, seal, apply, add, freeze; validate; `plan run`, `task ready` | engine, CLI | a pack's epoch was sealed and stays; plans are acyclic; every ready node is tried, once |
| CAS (`cas.rs`) | objects by digest | put, `read_verified` | engine, captures | an object is whole; what was stored reads back |
| Fixture hands (`fakes.rs`) | none | ten hands, functions of the contract | engine, replay | the failure matrix; digests agree across hands |
| Evidence, replay (`evidence.rs`, `replay.rs`) | a staging directory; bundle files | bundle, verify, replay | CLI, store, CAS | what verifies is whole and of one ledger; replay differs only where something is wrong |
| Captures (`rein-finance` `capture.rs`, `fmp.rs`) | capture rows, objects, a clock | pull, transcripts, fetch, search, pin | store, CAS, engine | rows have bytes; cutoffs and caps hold; what was admissible stays so |
| Finance hands, validators (`hands schemas compute ops validators`) | none | research, valuation, verify, settle, monitor; ten validators | engine, CAS, capture index | a hand meets its own contract; what passes is cited, dated and recomputed |
| Skills (`skills.rs`) | drafts, files in force | new, validate, promote | engine | what is in force passed the gate; a retry keeps its method |
| Evaluation (`eval.rs`, `cmds.rs`) | files of questions, answers, grades | answers, grade, score, rank | engine, judge | nothing is asked or graded twice; grades are of the answers |
| CLI, TUI (`rein`) | none / screen stack | one function per command | everything | exit codes mean what they say |

What is hard here: a process may die between any two storage accesses; the
ledger exists in the store and in each command's memory; commands of several
processes share the store, a staging directory and files without a lock;
commands are repeated, retried and resumed; evidence is sticky, so what a lost
run recorded still counts after it is resumed; files are truncated and then
written; names (tasks, plans, playbooks) are upserted under attempts that were
frozen from them; and a validator judges what a hand says of itself. `hazards`
in `PROJECT.json` lists each at its line.

## 2. Modules

```
Receipts        vocabulary of receipts; reading a log: states, fences, legal edges
  Adjudication  admit, classify, select, as functions of a log
    Lifecycle        rein-core alone: a caller in any order      MCLifecycle
      Lifecycle_proofs   its theorems        (LogLemmas: the lemmas about logs)
    Engine           commands, memory, store, crashes            MCEngine
      AttemptContract    what that amounts to (INSTANCE, refinement)
      Engine_proofs      its theorems for any number of commands at once
        Engine_books     those for one at a time, the refinement and the queue
                         among them
      RecoveryConsole    the queue and a clock over Engine       MCCommands
    ReceiptLoops     the accumulating passes as written          MCAlgorithms
    Fixtures         the ten fixture hands through the pipeline
      Replay         attempts by them, and strict replay         MCAlgorithms
HandEvents      events of a run: ledger, gaps, conflict, budget  MCAlgorithms
Utf8Decoder     captured output in chunks                        MCAlgorithms
Cas             one object, many writers                         MCStore
Catalog         missions, epochs, plans, tasks, packs            MCStore
Captures        the capture index, the gate, the clock           MCStore
  Store_proofs       theorems of MCStore, for all its constants
PlanGraph       Plan::validate                                   MCPlans
PlanRun         plan run, task ready                             MCPlans
  Plan_proofs        theorems of MCPlans, for all its constants
Evidence        bundling, tampering, verifying                   MCBundles
  Evidence_proofs    its theorems, for any history and any processes
Research, Valuation, OpsTasks   finance hands and validators     MCFinance
Skills, Grading, Ranking        the loop around the hands        MCEvaluation, MCGrading
  Evaluation_proofs  theorems of MCEvaluation, for all its constants
```

`MCEngine`, `MCGrading` and `MCBundles` are instances of one module.
The other MC modules are sums: a variable `part` says which component a
behaviour belongs to, each component is an `INSTANCE` with its constants, and the
variables of the others stay 0 (the parts of `MCLifecycle` and of `MCCommands` are
one component with different constants). Parts never
interact; they share a run because they are instances of one question.
Where components do interact, one module models both ends (`RecoveryConsole`
over `Engine`, `Replay` over `Fixtures` over `Adjudication`, `Captures` and
`Catalog` down to the freezing of a pack, `Grading` down to admission).

**Receipts, Adjudication.** A log is a sequence of `[id, attempt, body]`. The
code folds over it with accumulators; these modules say what the folds compute
(for instance `StateOf`, the target of the last transition, and `ChainLinks`,
that each transition starts where the one before it ended). `ReceiptLoops`
shows the two to be the same. Ids are numbers of one counter, as in `IdGen`;
timestamps, reason texts, supporting lists, digests are left out. A pack is its
semantic hash, a member of `Hashes`. `WithinBudget` and `Denied` budget
verdicts and admission receipts have no reader in `classify` or `resolve_state`
and no writer in the engine, and are left out of `Bodies`.

**Lifecycle.** State `log`, `issued`. One action per appending function of
rein-core; the caller may invoke them in any order for any attempt in whatever
state and append any other evidence directly. So `apply_transition` may be given
a cause that names any receipt on record (`AbortOn`, `ResumeUnder`,
`CompleteClassification`), `issue_next_generation` may be called on its own, and
`classify`, which looks at receipts and not at the state, may be asked for a
verdict before the attempt has run or while it is lost. Two disciplines are
assumed of the caller: a terminal receipt holds what `classify` or
`close_as_unknown` returned, the only makers of a `Classification`, and a direct
append of evidence carries no transition, creation, fence or selection.

**Engine.** A *session* is one running command with its memory (`sess[s]`): the
log it loaded, how much of it is persisted, its mint, what it works on and a
program counter. One action is one access to shared state with the local
computation around it: `AdmitRequest` loads the ledger and admits, `PutPack`
and `InsertAttempt` write rows, `PersistReceipts` and `SaveIds` are the two
transactions of `sync`, `EnterRunning` looks at the cancel file and writes the
run row, and so on down `pipeline_from_preparing`. Between any two, `Crash` may
drop the session's memory. A failed call (`Fail`) ends the command with what it
had in memory lost; an I/O error anywhere has the same effect on the store as a
crash there, so no separate action is given to it. `HandModes` is what a hand
may do: not be registered, fail hard, complete, overrun a step, or be lost
(disconnected or in conflict). Committing yields any verdict per artifact and
validating any verdict per validator. `ChangeInputs` stands for whatever makes
`build_pack` produce another hash: a pinned capture, a new epoch, an edited
skill.

**AttemptContract.** The promise without receipts: an admitted attempt is open
until judged once; it may be lost, then resumed or given up as unknown; a task
is satisfied by choosing one successful attempt of its own, and stays satisfied,
though the choice may still move to an earlier attempt (one that was lost and
retried may be resumed when the retry has been chosen). `Engine`
implements it under the mapping at `Contract` (phases read out of the ledger).

**RecoveryConsole.** Engine with a clock. A command reads the clock when it
begins a stage and stamps every receipt of the stage with that (`at`, `Looks`);
`last` is the latest stamp per attempt, and `Shown` is `recovery_queue`: who is
in recovery, or silent in the pipeline for longer than the tolerance.

**ReceiptLoops.** Grows logs receipt by receipt, including ones the guards
would never write, and compares each pass with its declarative definition.

**HandEvents.** A hand emits numbered events, a delivery is any list of them,
repeated, reordered, skipping, or contradicting (`DeliverWrong`). `Accept` and
`Ingest` are `EventLedger::ingest`; `Breach` is `per_step_breach`, one pass over
the ledger in numeric order; `Report` is what the engine concludes.

**Utf8Decoder.** A byte is its class (what `from_utf8` tells apart: the lead's
width, the low and high continuations that an E0 lead distinguishes, never
valid). `Feed` and `Finish` are the methods; the reference is the decoding of
everything fed as one piece.

**Cas.** One digest. `Look`, `Create`, `Write` (block by block), `Rename` are the
system calls of `put`; a writer that has created a file keeps writing to it
though another renames it away or truncates it, as file descriptors do.

**Catalog.** One action per statement of the commands `mission`, `epoch`, `plan
apply`, `task add` and of the freezing of a pack, between any two of which a
command may be killed. What a freeze reads (the task's pins, the plan, the last
epoch by name) is what `build_pack` reads.

**PlanGraph.** The iterative depth-first search of `validate_acyclic`, one action
per turn of its loop, over every plan up to the bound. **PlanRun.** `Sweep`
computes the pending list once per pass from the ledger; `Execute` takes its next
node through one run of the engine, seen as what it leaves of the node (done,
failed, lost, duplicate) and what it answers; the operator may kill it, change a
node's inputs, or repair.

**Fixtures, Replay.** Each fixture is a function from a contract to events,
staged bytes and claims; `Run` takes those through the event ledger, commit, the
two built-in validators and `Classify` of Adjudication. Bytes are named by where
they come from and a digest is its bytes. `Replay` keeps attempts of one task
under one stored pack (retries with another hand, cancels, lost runs resumed or
closed), lets objects rot, and states `replay_attempt --strict` as `Matches`.

**Evidence.** Processes bundle one attempt whose ledger grows, through the
one staging directory named after it. The history of that ledger is a constant:
which runs have events, and which artifacts a verified commit, by each version. A
file's content is the version it was written from. Each step of `bundle_attempt`
is an action, the tar walk two; a finished bundle is then changed once: a file
or an entry alone (`Flip`, `FlipEntry`, `Drop`), or both alike, taken out
(`Unlist`) or rewritten (`Rewrite`: to bytes that parse as another version would,
or to bytes that do not). The index is in the bundle it indexes, so a file changed
alike with its entry hashes as listed; what is then left to verification is what
`Green`, which is `verify_bundle` finding nothing, asks besides the index.

**Captures.** Commands are processes; each request, object put, count and insert
is a step, the clock moves between them. Admissibility, the gate, the per-host
cap, the order of transcripts, pins and their freezing are as in the code;
whether an answer's own timestamp can be used is a property of the answer.

**Research, Valuation, OpsTasks.** A hand works on the pins of a pack and stages
an artifact, whose bytes the validators read again from a store in which objects
may have rotted. `Research` is staged: plan, sections, synthesis, with what the
model answers taken from small sets (citations in and out of range, claims dated
past the cutoff, unreadable JSON). `Valuation` fills slots by name from the
pinned captures in their order; a computed figure is the record of what it was
computed from, so that recomputation by the validator compares sources. Its
rates are integers in thousandths, which is enough for the guards (a rate of
one, growth not below discount); no floating-point arithmetic is modelled.
`OpsTasks` has the three tasks of `finance:ops`, by their own hand and by another.

**Skills.** A text is what the gate and the engine see of it. `Promote` reads and
judges the draft, `Truncate` and `Write` are the two halves of `fs::write`; `Run`
and `Retry` are what the engine takes of a skill.

**Grading, Ranking.** Batches ask each question as an attempt, answer it from the
attempt its task selected, and write the answers; graders read the grades once,
judge what is missing and rewrite the whole file after every grade. Writes are two
steps and anyone may be killed between them. Of the engine this module has what
one of its commands leaves of a question's attempts and of the selection
(`Leaves`), in one step per command: `Engine` has the steps in between. A new
attempt is left stuck (an error, or a kill), lost, failed or satisfied; a kill
after it closed leaves it unselected. The operator meanwhile resumes lost
attempts, closes them, and retries any, lost ones and succeeded ones too, as
`Engine::retry` asks nothing of the state. A question worded anew is refused by
admission if it has attempts.
`Ranking` reads the settlements on record, which are any committed artifacts of
that name, whatever verdict their attempts got and whoever staged them, with any
rows; a valuation is its `Maker`'s, the hand of its last run when the ranking is
made. It places a hand behind those with a higher score, or an equal one and an
earlier name: scores are compared as fractions, by products. So a hand that the
market contradicted can come first, if what is on record says otherwise; the
properties are about how the record is read.


## 3. Runs

| Run | Asks | Bounds, and why they are enough | Distinct states |
|---|---|---|---|
| `MCLifecycle` | chains, verdicts earned, evidence rules, idempotency, drawn edges of rein-core alone | part *one*: 1 attempt, 10 receipts (through recovery into terminal on an exception, or on to a second generation and its commit), 3 of them beside those that admit and move it (an abort, a commit and a verdict in any order); part *several*: 3 attempts, 2 tasks, 2 hashes, 8 receipts, 2 beside (a duplicate, a changed hash, a retry of a retry; one attempt tries to move on what another has on record) | 196 k |
| `MCEngine` | the store after any command, cut anywhere; idempotency; the refinement | 1 session, 3 commands, 2 hashes, 1 kill, 1 cancel, a hand that errs, completes, overruns a step or is lost, outputs there or missing: a first command cut anywhere, then any second one over what it left; a third, and inputs that change, where nothing was killed (`ThirdUndisturbed`; the third also only without a cancel and where every verdict was a success, which is what two attempts of one task to choose between take) | 57 k |
| `MCCommands` | the queue; what survives two commands at once; inputs that change | *queue*: 2 commands, 1 kill, 1 cancel, clock 0..2 with a tolerance of 1, so that every stage can be young or stale; *at once*: 2 sessions, 2 commands, 2 hashes, 1 kill; *two*: 2 tasks, 2 hashes, missing hands | 461 k |
| `MCLive` | every attempt settles, every success is adjudicated | 1 session, 2 commands, 1 cancel, 2 hashes so that inputs may change in between, hands that err, complete or are lost, commits that verify, any validation, no kill | 8 k |
| `MCPlans` | verdict and end of `validate`; `plan run` tries each node once, in order, and ends | every list of up to 3 nodes with up to 2 dependencies out of 4 names (duplicate, unknown, on itself, cycles of 1 to 3; acyclic ones can be done in some order, cyclic ones cannot); every acyclic graph of 3 tasks, 2 runs, 2 mishaps | 1.8 M |
| `MCAlgorithms` | the passes, the decoder and the event ledger against their references; the failure matrix and replay | all logs up to 4 of 9 bodies and 5 of 13: each accumulator is set, overwritten and read after both; 5 bytes in chunks up to 3 (the longest character is 4); 3 events, 4 deliveries; a run and its retry by all ten fixtures, 2 artifacts, 1 spoiled object | 2.7 M |
| `MCStore` | objects whole, rows resolve, pulls honest, nothing taken back | 3 writers of 3 blocks, 4 puts, or 1 with 3 kills; 5 catalogue commands over 2 epochs, plans, tasks with 1 kill; 3 capture commands, clock 0..1, cap 1, limit 1 | 1.7 M |
| `MCBundles` | what is true of a bundle that verifies, that a change of one side shows, that what nobody disturbed verifies | 2 processes; 3 versions of the ledger (run 1 lost, run 2 committed, closed), so that receipts, events and artifacts can each be of another; any spoiled object, or a gap (`GapAlone`); afterwards 1 change of 1 bundle (`OneChanged`) to any file, entry or both | 3.9 M |
| `MCFinance` | hands against their own contracts; what passes is backed | *research*: 2 digests, 2 pins, a plan of 0, 1, 6 or 20 sections against a cap of 6; *computed*: 3 of 13 captures; *modelled*: 2 pins, answers with holes, of every basis, duplicate and missing slots; *own*, *others*: 3 and 2 of 11 files | 1.1 M |
| `MCEvaluation` | what is in force; batches; grading; the ranking | 2 names and 2 attempts, or 1 name and every kind of draft; 2 questions, 3 sessions, 2 attempts, 1 mishap (`OneTroubled`: one question has two attempts in any states, the other one that was closed): enough for lost, retried, answered, graded, resumed; 3 valuations by 2 hands, 2 settlements of up to 2 rows | 2.3 M |

`CHECK_DEADLOCK FALSE` everywhere: commands, receipts, attempts, events are
bounded, and a harness nobody types a command into does stop. Lifecycle's bounds
are `MaxReceipts` and `MaxRequests` in `PartsNext` and the constraint `Bounded`;
elsewhere they are constants named `Max…`, given in the `.cfg` of
`MCEngine`, `MCCommands` (its part *queue*), `MCPlans`, `MCStore`, `MCEvaluation`
and `MCBundles` and in the `INSTANCE … WITH` of the others. The contracts that `Replay` starts with are
bounded by its `Init`, the worlds of `Evidence` by the constraints `GapAlone` and
`OneChanged`, the attempts of `Grading` by `OneTroubled` in `MCEvaluation`. Symmetry is used
where values are only compared: tasks and hashes in `MCLifecycle`, bundling
processes in `MCBundles`; neither checks liveness.

Invariants of a run that name several parts, or several facts (`LedgerSound`,
`EvidenceRules`), are conjunctions of named invariants of the component, each
with its own comment there.

**Fairness.** `FairSpec` of Engine has weak fairness on `Work(s)`: a running
command takes its next step, the code being straight-line. It includes that a
hand's `run` returns or errs; the code calls it synchronously with no timeout of
its own (a step budget is charged afterwards, from the events), so a hand that
hangs hangs the command and nothing about liveness can be said. No fairness on
commands, cancels or kills. An operator is obliged to nothing: `recovery_pending`
counts as settled. With kills, or with an unregistered hand, an attempt stays
where it was. `MCPlans` has weak fairness on the loop of `validate_acyclic`, and
on `Work` of a plan run, which is a loop over engine calls; not on killing it,
starting it again, or changing inputs. No other run states liveness.

### Disagreements with the documentation

Two runs expect a violation, the ones in which something paid for or promised to
a script is lost:

* `MCExitCode`: "exit 0 ⇔ a verified TaskSelectionReceipt exists"
  (`src/README.md:26`). A kill between closing (`rein-runtime/src/engine.rs:712`)
  and selecting (`:717`), then the same command: it is a duplicate, selects
  nothing, and `wait_exit` falls back to the outcome's code, which is 0 for
  success (`rein/src/cmds.rs:1055`).
* `MCSlices`: "an existing grades file is prior work, never re-judged"
  (`rein/src/cmds.rs:1991`). Two graders, each with its own slice, rewrite one
  file from what each read when it began; the later write drops the other's.

The modules state more sentences that the code does not keep, each under the
heading *What the documentation says, and the code does not keep*, with its
source in the comment. They are not runs; to see a counterexample add
`part = "x" => Instance!Property` to the MC module named here and check it as an
invariant (the ones of Lifecycle, Engine, RecoveryConsole and Evidence directly, in
`MCLifecycle`, `MCEngine`, `MCCommands` and `MCBundles`). Those with a prime, *of every
step* (`PlanImmutable`, `SealedRefuse`, `RerunRetries`, `AnswersTheQuestion`,
`NothingWonByLosing`), are checked as a `PROPERTY` instead, for instance
`[][part = "ranked" => Ranking!NothingWonByLosing]_<<part, record>>`.

| Property | Where refuted | What happens |
|---|---|---|
| `AbortHasOwnCause` | `MCLifecycle` | the abort edge takes any abort receipt on record, another attempt's too (`state.rs:164`) |
| `PreRunMeansNoHand` | `MCEngine` | `running` is first synced when the hand has returned (`engine.rs:558`), so a kill while it works leaves `preparing`, of which the queue says "the worker died BEFORE the hand started" |
| `EveryReceiptResolves` | `MCEngine`, with 2 tasks and 4 commands | a kill after `insert_attempt` leaves a row without a creation receipt, a candidate all the same; an adjudication with nothing to select is filed under it (`engine.rs:717`) |
| `NoLimbo` | `MCEngine`, with a hand that is not registered | an unregistered selector (`engine.rs:445`) returns before the handling that puts attempts into recovery |
| `MintedIdsFresh` | `MCEngine` | receipts and rows are written before the id mark (`engine.rs:808`); unique keys catch the collision and the next command fails |
| `NextActivityCharged` | `MCAlgorithms`, `Events` | a step started over an open one replaces it unjudged (`hand.rs:186`) |
| `PutIdempotent` | `MCStore`, `Cas` | two processes stage under one name (`cas.rs:67`); the second rename fails |
| `OfferedActionsLegal` | `MCCommands` | resume and close are offered to stale attempts that refuse them (`recovery_queue.rs:135`) |
| `StaleMeansDead` | `MCCommands` | a hand slower than the tolerance is reported dead (`recovery_queue.rs:123`) |
| `SealedRefuse` | `MCStore`, `Cat`, with two sessions | `put_epoch` looks and then upserts (`store.rs:433`) |
| `PlanImmutable` | `MCStore`, `Cat` | `put_plan` upserts (`store.rs:474`) |
| `OneMeaningPerTask` | `MCStore`, `Cat` | `put_task` upserts under the same ref (`store.rs:499`) |
| `SealedSuffices` | `MCStore`, `Cat` | `latest_epoch` takes the last by name, sealed or not (`engine.rs:232`) |
| `SuccessReplays` | `MCAlgorithms`, `Replayed` | a retry with another hand replays with the hand of the stored pack (`replay.rs:108`) |
| `ClosedReplays` | `MCAlgorithms`, `Replayed` | a cancelled attempt closed as unknown is reported as a difference (`replay.rs:178`) |
| `GapIsNotCorruption` | `MCBundles` | a gap fails the verification (`evidence.rs:336`) |
| `InputsCarried` | `MCBundles` | an unreadable input is skipped and never missed (`evidence.rs:128`) |
| `CommittedTrue` | `MCBundles` | of a committed artifact only the name is looked up in the index (`evidence.rs:297`), so one rewritten with its entry passes |
| `EventsChecked` | `MCBundles` | events taken out with their entry are not asked for (`evidence.rs:313`) |
| `GateFirst` | `MCStore`, `Cap` | `data fetch` downloads before the gate, `data search` never asks it (`cmds.rs:1516`) |
| `AdmissibleWasThere` | `MCStore`, `Cap` | one reading of the clock stamps every later response (`cmds.rs:1401`) |
| `PinnedAdmissible` | `MCStore`, `Cap` | any digest of the index is frozen into a pack (`engine.rs:949`) |
| `NotesNeverCollide` | `MCStore`, `Cap` | two cadences with the same bytes share the first row (`store.rs:663`) |
| `EvidenceResolves` | `MCFinance`, `Studied` | only the numbers in `dossier.md` are checked (`validators.rs:551`) |
| `FactsWithinCutoff` | `MCFinance`, `Studied` | a time that does not parse is dropped and the claim passes (`hands.rs:306`) |
| `ShownWithinCutoff` | `MCFinance`, `Studied` | an uncited late capture was shown to the model all the same (`validators.rs:453`) |
| `ScheduleWhole` | `MCFinance`, `Modelled` | a year after a hole is dropped in silence (`schemas.rs:258`) |
| `ConsumedWithinCutoff` | `MCFinance`, `Computed` | late pins change figures without being any slot's basis (`hands.rs:449`) |
| `SharesFromOneCapture` | `MCFinance`, `Computed` | market cap and price may come from two captures (`hands.rs:566`) |
| `PinOverrides` | `MCFinance`, `Computed` | only the first growth capture is read, so the rate of a second is not (`hands.rs:392`) |
| `AsOfInjected` | `MCFinance`, `Computed` | the as-of day is a constant (`hands.rs:722`) |
| `VerdictPerClaim` | `MCFinance`, `Others` | rows about other claims stand in for those under test (`ops.rs:96`) |
| `ChallengerOnRecord` | `MCFinance`, `Own` | an unrecorded producer differs from any challenger (`hands.rs:1482`) |
| `DueAllSettled` | `MCFinance`, `Others` | the due count is the one the artifact declares (`validators.rs:153`) |
| `FlatDecidesAlike` | `MCFinance`, `Own` | the sign of 0.0 is 1, so an unmoved price decides (`ops.rs:201`) |
| `WholeMethod` | `MCEvaluation`, `Skills` | `promote` truncates the file in force and then writes it (`cmds.rs:1893`) |
| `HintFindsDraft` | `MCEvaluation`, `Skills` | a name with a slash is not looked for under the project (`cmds.rs:1737`) |
| `ProvenanceRides` | `MCEvaluation`, `Skills` | a mention of `distilled_from:` suppresses it (`cmds.rs:1841`) |
| `OneSentence` | `MCEvaluation`, `Skills` | one inner full stop is let through (`skills.rs:200`) |
| `LengthInCharacters` | `MCEvaluation`, `Skills` | bytes are counted (`skills.rs:190`) |
| `UnknownAttachesNothing` | `MCEvaluation`, `Skills`, with an ungated text in `Copied` | an unknown validator is attached and fails the artifact (`engine.rs:212`) |
| `InterruptLosesNothing` | `MCEvaluation`, `Grading` | the grades file is truncated in place; a kill there loses it (`cmds.rs:2051`) |
| `ScoreOverAll` | `MCEvaluation`, `Grading` | the score divides by the graded questions only (`eval.rs:188`) |
| `RerunRetries` | `MCEvaluation`, `Grading` | a rerun gets the failed attempt as a duplicate (`engine.rs:278`) |
| `AnsweredIsSkipped` | `MCEvaluation`, `Grading` | a lost attempt, retried with success and then resumed, is selected before its retry (`selection.rs:78`), so the next batch writes another answer |
| `GradeIsOfTheAnswer` | `MCEvaluation`, `Grading` | the grade of the answer that gave way so stays (`cmds.rs:2024`) |
| `AnswersTheQuestion` | `MCEvaluation`, `Grading` | a reworded question gets the old text's answer (`cmds.rs:2245`) |
| `SettledOnce` | `MCEvaluation`, `Ranking` | a valuation in two settlements, or twice in one, counts twice, with either verdict (`eval.rs:281`) |
| `NothingWonByLosing` | `MCEvaluation`, `Ranking` | of two hands without a score the one that is contradicted comes first, as a score of 0 is above none (`eval.rs:331`) |

`HostCapHolds`, which `MCStore` checks for one process at a time, is refuted with
two (`capture.rs:272`: count and insert are separate statements), and
`RequestsIdempotent`, which `MCEngine` checks for one command after another, with
two at once.

Of verdicts recorded early the ledger keeps less than one might expect. A success
that `classify` gave before an abort was recorded may still be the one that the
transition into terminal names, since that asks only for a terminal receipt of the
attempt (`state.rs:217-235`); `EvidenceRules` says what a verdict recorded *after*
the abort must be.

### Concurrent commands

The lease service is deferred (`fence.rs:1-3`) and commands take no lock. With
three commands and two sessions TLC refutes the parts of `LedgerSound`
(`LedgerResolves`, `OneVerdict`, `SatisfiedByEvidence`), `OneRunPerGeneration`
and the contract: two `recover` or `retry` commands overlapping on one attempt
work on stale copies, and their receipts interleave when the mints happen not to
collide. These are therefore claimed for one session at a time. The part *at
once* of `MCCommands` claims what is left: join keys and the queue.
Idempotency is not: `receipts` has no unique idempotency key, so two overlapping
first requests for one task are told from two attempts only by minting the same
ids, of which the second insert fails. Once their mints are apart, as when one of
them began before commands on another task saved the mark again, both are
admitted, two attempts under one key (`RequestsIdempotent` refuted with 2
sessions, 2 tasks and 5 commands).

## 4. Proofs

Thirty-three theorems, each for every value of the constants of its module.

### The ledger

Six about `Lifecycle!Spec`: any tasks, hashes, contracts, any number of attempts
and receipts. All are in `Lifecycle_proofs`.

| Theorem | States |
|---|---|
| `TypeCorrect` | `Spec => []TypeOK` |
| `ChainsResolve` | `Spec => []ChainIntact` |
| `EdgesDrawn` | `Spec => OnlyDrawnEdges` |
| `VerdictsEarned` | `Spec => []TerminalEarned` |
| `OneAttemptEach` | `Spec => []RequestsIdempotent` |
| `RulesHold` | `Spec => []EvidenceRules` |

Together they are the six properties `MCLifecycle` checks. Assumptions:
`ContractAssumption` (a contract requires something and is finite) and
`CallerAssumption` (what the caller appends has the type it should); TLC
evaluates both in `MCLifecycle`.

The inductive invariant of the first five is `IInv == TypeOK /\ ChainIntact`.
Neither half is inductive alone: that a new attempt's chain is empty needs every
attempt in the log to have been minted, and that a transition receipt is a legal
body needs the state it starts from to resolve. Each action is shown to be a
`GoodStep`: the log stays sound, attempts move along drawn edges, what was earned
stays earned and whoever enters terminal earns it, and requests told apart stay
apart. All actions but `Admit` reduce to one of three shapes (`PlainStep`: a
receipt that moves nobody; `TransitionStep`; `EvidencedStep`: a receipt and the
transition it is evidence for). The two theorems about verdicts and requests need
one further conjunct each, `TerminalEarned` and `RequestsIdempotent`, over `IInv`.

`RulesHold` speaks of what is *before* a receipt (an exception or an `unknown`
before the way out of recovery, the first abort cause before a verdict, a fence
before a commit), so what is on record stays right and an appended receipt can
break a rule only itself. `RulesInv == IInv /\ AllRules(log)` is therefore
inductive without a word about states, which is as well, since the caller may
record verdicts and aborts in any of them. `Follows` is what one receipt must
respect: not `AgainstAbort` (a verdict against the first abort cause), not `Forced`
(out of recovery with neither) and not `Overtaken` (a fence not above the others, a
commit below one). `RulesAppend` lifts that to the log, by one lemma per rule, and
one lemma per action (`TransitionKeeps`, `AbortKeeps`, `IssueKeeps`, `ResumeKeeps`,
`VerdictKeeps`, …) shows that what it appends follows; of actions that append two
receipts each follows what is before it (`TwoAppended`).

### The engine

Eight about `Engine!Spec`: any tasks, hashes, contracts, hands, any number of
commands, kills and cancels, one after the other or (the first two) at once. One
about `RecoveryConsole!ConsoleSpec`, which is that beside a clock.

| Theorem | States | Supposing | Module |
|---|---|---|---|
| `TypeCorrect` | `Spec => []TypeOK` | | `Engine_proofs` |
| `KeysResolve` | `Spec => []JoinKeysResolve` | | |
| `SoundLedger` | `Spec => []LedgerSound` | `OneAtATime` | `Engine_books` |
| `RunsFenced` | `Spec => []OneRunPerGeneration` | `OneAtATime` | |
| `RequestsOnce` | `Spec => []RequestsIdempotent` | `OneAtATime` | |
| `CancelIsFinal` | `Spec => []CancelSticks` | `OneAtATime` | |
| `NoHandStarts` | `Spec => NoHandAfterAbort` | `OneAtATime` | |
| `ContractKept` | `Spec => ImplementsContract` | `OneAtATime` | |
| `QueueIsRight` | `ConsoleSpec => []QueueRight` | `OneAtATime` | |

These are all the properties of `MCEngine` and `MCCommands`. `EngineAssumption`
(commits and hands are of the kinds the code knows, the bounds are numbers) and
`ConsoleAssumption` (so are the tolerance and the bound of the clock)
are what the code justifies of the constants; TLC evaluates them in
`MCEngine` and `MCCommands`. `OneAtATime` says there is one session: section 3 has what two
commands on stale copies of one ledger do. One session still runs any number of
commands, each of which may be killed anywhere and followed by any other.

* `TruthInv`, for any number of sessions: what a command holds in memory is
  *backed*. A creation receipt has its row and pack, a capture its run, its
  started hand and its events, an adjudication the row it is filed under. The
  difficulty is that a command admits in memory first (`Admitting`): until the
  rows are in, its log is a backed log and an `Admission` that is not. Tables only
  grow, so that what is backed stays so whoever steps (`BackedGrows`,
  `TruthfulGrows`); every appending operator of the engine keeps a backed log
  backed (`PutIs`, `GoIs`, …).
* `BooksInv`, for one: the tables are in order (`World`), and so is what the
  command holds against them (`Held`). That `LedgerSound` holds of the store
  follows from `InOrder`, which is stronger than it in the places where a step
  could otherwise break it. `Filed`: there is at most one commit, under the
  current generation, only in the states from commit on, and no validation before
  it; without this the success that `classify` reads out of a resumed attempt
  could stand on the commit of the generation before. `Rest`: a verdict and the
  states after it go together *between* steps, though not between the receipts of
  one step. And no run is ahead of the fence, which is what makes `RunsFenced`
  inductive: the row of a run is inserted before its receipts are synced, so the
  generation on record may be that of a run whose command was killed. Every
  attempt created has a fence (`Guarded`): true between the steps, not between the
  two receipts of an admission.
* `Held` says how far memory may be ahead: the log extends the store's; an attempt
  in the pipeline is created; before its hand runs the current generation has no
  run yet (`Unrun`); while the hand is awaited the log is at `running` with no
  abort recorded, which is all that `NoHandStarts` needs.
* `LogLemmas` says what must be true of receipts for the books to stay in order
  when they are appended, kind by kind (`GrownMove`, `GrownNotes`, `GrownFence`,
  `FiledVerdict`, `ClassifyProven`, `BookCreate`, `BookSelect`).
  In `Engine_books` there is one lemma per action, from `PersistBooks` to
  `ResumeBooks`; `Alone` and `SyncBooks` reduce each to what it wrote.
* `ContractKept` is the refinement, step by step. Only `PersistReceipts` writes
  the ledger (`OnlySyncs`), so a step of the contract is a sync, whose receipts a
  whole stage of the command has put together. `Pledge` is the promise that they
  amount to one step of the contract or to none; a command waiting to sync
  holds a pledge, and one that has receipts in memory at any other point has
  `Kept` everything so far (both are conjuncts of `Held`). An admission keeps it
  by `NewPledge`, an adjudication by `SelectPledge` (the attempt a task rests on
  stays selectable, so the choice can only move to an earlier one), everything
  else by `GrownPledge`: an attempt that is judged is judged `unknown` exactly if
  it was in recovery (`LossMarked`). `PledgeSteps` turns a pledge into an action
  of the contract.
* `QueueIsRight` adds the clock (`ClockInv`): no stage began and no receipt was
  stamped later than now, and every attempt the ledger knows has a stamp, since
  the one sync that brings its first receipt stamps it. So a pipeline state is
  silent for longer than the tolerance once that much has passed. The queue walks
  the attempt rows, so that nobody is missed takes a row under every receipt
  (`KnownRows`): under those of a created attempt by its creation, under the
  adjudication of one that a kill kept from being created by `TruthInv`. What an
  attempt in recovery needs to be acted on is its creation, which the row must
  not contradict (`Refusal`), its pack and its fence.

### Plans

Three about `MCPlans!Spec`, any of whose behaviours is one of `PlanGraph` or one
of `PlanRun`, for any names, bounds and plans; TLC evaluates the assumption
`Numbered` (tasks are numbers, in the order of their refs) in `MCPlans`. All are
in `Plan_proofs`.

| Theorem | States |
|---|---|
| `VerdictsRight` | `Spec => []VerdictRight` |
| `NodesTriedOnce` | `Spec => []EachNodeTriedOnce` |
| `InOrder` | `Spec => DependenciesFirst` |

* `VerdictRight` says what a cycle is without induction: a task is `OnCycle` if it
  is in every set of tasks that holds its dependencies and those of its members;
  a plan is `Feasible` if of any tasks left one waits for no other. That the
  search's own bookkeeping decides both needs `Searching`: the stack is a path
  without repetitions and its nodes are what is marked (`Path`); what a node on
  it was already asked for is done or is the next node (`Asked`); what is done is
  closed under dependencies and on no cycle, and can be done in some order (`Cleared`).
  `PathCloses`: a dependency back onto the path puts its target into every closed
  set, by the least node of the path outside one, and the rest of the path from
  there on waits for itself. `ClearedGrows`: a node that finishes has only done
  dependencies, and what was done before is a closed set without it.
* `RunInv`: whatever is listed was ready when the list was drawn up, and
  satisfaction is never taken back (`Listed`), which is all `InOrder` needs. A
  sweep that has made no progress so far has won nothing since its list was drawn
  up, and all of the list that is behind it has had its attempt (`Behind`); so at
  the end of such a sweep nothing it could see is untried. The attempts created for
  a task are one if it has a fresh attempt and none if not (`Counted`), whatever
  was killed.

### The stores

Seven about `MCStore!Spec`, any of whose behaviours is one of `Cas` (its writers
together, or one alone and killed), of `Catalog` or of `Captures`, for any
numbers of writers, blocks, names, commands and kills. All are in `Store_proofs`.

| Theorem | States | Supposing |
|---|---|---|
| `ObjectsStayWhole` | `Spec => []ObjectsWhole` | |
| `RowsNameWhatIsThere` | `Spec => []RowsResolve` | `OneCommand` |
| `PullsStayHonest` | `Spec => []PullsHonest` | `OnePull` |
| `SettledStays` | `Spec => NothingTakenBack` | |
| `TasksHavePlans` | `Cat!RowsResolve` always | |
| `RowsHaveBytes` | `Cap!RowsBacked` always | |
| `PullsSayWhatTheyDid` | `Cap!ExitZeroCaptured` and `Cap!LatestCalls` always | |

The first four are the properties `MCStore` checks; the last three are what is
left of them with any number of commands at one time. `OneCommand` and `OnePull`
are needed for the rest, as the code takes no lock: a seal comes between another
command's look at the epoch and its write, two fetches count before either
inserts. The assumptions on the constants are `Written` (an object has a block,
and the writer left alone is a writer), `Named` (the filler "none" is no task,
names of epochs have an order) and `Listed` (a pull asks for something; the cap
and the limit are numbers); TLC evaluates them in `MCStore`.

* `WholeInv`: while its writers are at work an object is not whole, so the
  invariant says what is true instead: a file with a name is whole or *attended*,
  a writer that truncated it is still at it and behind that writer nothing is
  missing. The last to have truncated is such a writer. Two of them may be at the
  same file; the one that is behind may fail to rename, the other's bytes are then
  in place. `AloneInv` needs no such notion: what is placed is whole, and only the
  staging file is ever partial.
* `PlanInv` adds to the resolving of tasks that an apply with tasks left to write
  has its plan in place, and no command removes a plan. `EpochInv` adds that an
  epoch about to be written, seen unsealed, is unsealed still; what is sealed is
  then never written over.
* `BackedInv` adds to the backing of rows that what a pull holds it has put in the
  store; `CapInv` that whoever passed the gate finds the cap not yet reached.
  `Cap!StaysAdmissible` needs no more than `BackedInv`: the first row of a digest
  stays.
* `HonestInv` is what makes exit 0 mean something: a pull with nothing left to ask
  for has captured something, was denied or failed, and what it counts is on
  record. For transcripts it says how far into which index the pull is, and at
  which places of it the calls stand that it keeps (`Cap!KeptAt`); `PassedOver` and
  `KeptBehind` take that one call further, for a call that is skipped and for one
  that is kept.

### The loop around the hands

Six about `MCEvaluation!Spec`, any of whose behaviours is one of `Skills`, of
`Grading` or of `Ranking`, for any texts, names, questions, graders, valuations
and bounds. All are in `Evaluation_proofs`.

| Theorem | States | Supposing |
|---|---|---|
| `InForceIsGated` | `Spec => []InForceGated` | |
| `MethodIsKept` | `Spec => []MethodKept` | |
| `QuestionsAskedOnce` | `Spec => []AskedOnce` | |
| `GradesAreOfAnswers` | `Grading!GradeIsOfAnswer` always | |
| `GradesStandByOne` | `Spec => []GradesStand` | `OneGrader` |
| `RankingFollowsRecord` | `Spec => RankFollowsRecord` | |

All but the fourth are the properties `MCEvaluation` checks. The parts of that
run are cut out of their components (ordinary drafts only, one name, no grader,
one question in trouble); each theorem is about the component's own specification as well,
where drafts of every kind, runs and retries, graders and batches all meet.
`GradesAreOfAnswers` is what is left of `GradesStand` with any number of graders:
two that overlap drop tiers, as `MCSlices` shows, but never keep one of an answer
that the one on file did not take the place of. The assumptions are `Gated` (what `init` and a copy put in force passes
the gate, as the test `every_bundled_skill_passes_its_own_gate` of
`rein-finance/src/skills.rs` has it) and `Numbered` (types of the numbers);
TLC evaluates both in `MCEvaluation`.

* `SkillsInv`: a promotion holds the text it has judged, and not the name of a
  draft that may be edited before it is written; so in force is nothing, a torn
  file, or a text that passed. A torn file does not parse and so names no
  validator, which is what keeps `Judgeable` between the two halves of a write.
  A retry's pack is its origin's, and whoever was answered was asked with that.
* `LedgerInv`, of each question's attempts. `FirstAsked`: an attempt a batch asked
  for is the first, as a batch asks only where admission finds none, of the present
  wording or another. `Stands`: the selected attempt succeeded, and whichever before it
  succeeded was resumed. The selection takes the *earliest* success, so an answer
  can give way, and only so: what did not succeed when another was selected succeeds
  later only by being lost and resumed. `Selecting` shows this of every command
  of the engine, for attempts that come `After` others (what succeeded stays so, what
  succeeds anew is new or resumed), and `Gives` is the relation between the answers.
  The steps are split into those of batches (`Asking`), of operators (`Operating`)
  and of graders (`Judging`).
* `BatchInv` and `GraderInv`: at every moment there are up to five copies of an
  answer (what a batch has gathered, the file of answers, what was once given,
  what a grader read, what was judged). `Gives` is transitive (`GivesOn`) and survives
  every step (`GivesAfter`), so it is enough that each copy is `Older` than the file,
  the batch and the choice; domains of later copies lie in the earlier ones.
* `KeptInv`, for one grader: every tier on record is in what the grader holds and
  in the file when it is whole. The file may be torn by a kill, and a grader
  that starts over a torn file is refused.
* `RankingInv` says only that settlements have rows; the rest is arithmetic.
  A hand that is ahead of another is ahead of whomever that one is ahead of
  (`AheadThrough`, by `Fractions`), so those before it are a proper part of those
  before the other, and fewer: places go as `Before` does (`Placed`). `RowsMore`: a
  settlement adds its rows and takes none away, so of a hand it does not
  contradict the share of confirmed rows does not fall, and of one it does not
  confirm it does not rise (`SharesMove`).

### Bundles

Two about `Evidence!Spec`: any number of processes on one staging directory, any
history of the attempt, any inputs, any objects spoiled, any one change to a
finished bundle. Both are in `Evidence_proofs`, and they are the properties
`MCBundles` checks.

| Theorem | States |
|---|---|
| `GreenSound` | `Spec => []GreenIsSound` |
| `AloneIsGreen` | `Spec => []AloneVerifies` |

The assumption is `History`, which TLC evaluates in `MCBundles`: a ledger only
grows, and artifacts and inputs are not named like the files of the bundle itself
(they are in directories of their own).

* Nothing can be said of the *files* in the staging directory: another process
  may have removed it, or overwritten any of them. What can be said is of every
  index: whoever wrote one had gone through its own assembly to the end, so it is
  `Complete`, with receipts and manifest of one version of the ledger, events of
  that version or a later one, and the artifacts committed by then. `EvidenceInv`
  has this of an index wherever it may be found: in the directory, in half a tar,
  in a bundle (`Bundled`). `Assembled` is the same for an index under way: what is
  in it after each step.
* A bundle that verifies holds exactly what its index says, which makes
  `GreenIsWhole` a fact about a complete index. The tar may take the index of one
  process and the files of another; it is the comparison, not the walk, that
  decides. `GreenIsWhole` leaves out bundles in which a file and its entry were
  changed alike, of which it is false; `CommittedCarried`, of any change, needs
  no more than that a committed artifact's name is looked up.
* `Bundled` says of a bundle changed on one side that it is red at the file or entry
  that was changed, since no file and no index holds `Tampered` before.
* `Undisturbed` is for a process alone: directory and index agree (`Sees`), and the
  two halves of its walk are of the one directory (`Took`). `alone` is taken back
  as soon as another is inside, so an interleaved step has nothing to show there.
* `MoveKeeps` reduces each step to what it wrote.

Model-checked only: every property of the modules not named above, and the queue
with two commands at once. Out of the
prover's reach: liveness (`AdmittedSettles`, `SuccessSatisfies`, `Ends`:
fairness and `ENABLED`), and the agreement of recursive passes with their
references for logs of every length (induction over sequences).

## 5. Not modelled, and the plan

Not modelled, and why:

* Terminal UI: navigation and drawing. What it changes it changes through the
  commands modelled in Engine; what it shows is `Shown` of `RecoveryConsole`.
* Argument parsing, output, listings, `doctor`, result axes: they read and
  report, nothing reads them back. Of `wait_exit` only `task-satisfied` is in
  Engine.
* Canonical JSON, hashing, redaction, time formatting, ids as text: data. A hash
  is an injective value, a timestamp a number, an id a number. Ids past 999999,
  which sort wrongly as text, are therefore out of reach.
* Floating-point results of the valuation (what is refused and what a figure is
  computed from is modelled), and `compute/{comps,wacc,odds}.rs`, `harsher`,
  `direct_score`, `claim_admissible`: called by tests only.
* Scoring of texts, the bootstrap interval, publishing to a hub over HTTP, the
  reasons file, the placeholder answer of the answer task, the bridge's
  completeness, wording of prompts and memos.
* Input mounting and the workspace's paths: no state beyond files already
  modelled.

Worth doing next, in this order:

1. Engine: an overrun step on a run that is also lost; the other assertions of
   `wait_exit`; a third session with two tasks.
2. Proofs about the rest: replay (its runs are folds over sequences of events), the validators (`MCFinance`).
