------------------------------- MODULE Engine -------------------------------
(***************************************************************************)
(* rein-runtime: commands of the harness executing attempts against one    *)
(* SQLite store.                                                           *)
(*                                                                         *)
(* A session is one running command (`rein run', `attempt retry',          *)
(* `attempt recover', `attempt close').  It works on an in-memory copy of  *)
(* the ledger and on an in-memory id mint, and writes them back at its     *)
(* sync points: first the new receipts in one transaction, then, in        *)
(* another, the high-water mark of the mint.  One action is one access to  *)
(* shared state (a transaction, a row, the cancel file, the hand) with the *)
(* local computation around it; a crash may fall between any two.          *)
(***************************************************************************)
EXTENDS Adjudication, SequencesExt

CONSTANTS
    Sessions,       \* commands that may be running at the same time
    CommitRecords,  \* what committing one run's outputs may yield
    HandModes,      \* what a hand may do; see HandStarts and HandReturns
    MaxCommands,    \* bound: commands started
    MaxCrashes,     \* bound: sessions killed
    MaxCancels      \* bound: cancel requests

ASSUME EngineAssumption ==
    /\ Tasks # {} /\ Hashes # {}
    /\ CommitRecords \subseteq [Required -> CommitVerdicts]
    /\ HandModes \subseteq {"unregistered", "error", "completed", "breached", "lost"}
    /\ MaxCommands \in Nat /\ MaxCrashes \in Nat /\ MaxCancels \in Nat

VARIABLES
    ledger,     \* table receipts, in seq order
    saved,      \* meta.ids_issued
    packs,      \* table packs:    [id, task, hash]
    attempts,   \* table attempts: [attempt, task, pack, hash, generation]
    runs,       \* table runs:     [run, attempt, generation]
    events,     \* runs whose events are in table events
    flags,      \* attempts with a cancel-requested file
    inputs,     \* the hash a fresh pack of each task would have
    sess,       \* per session: its program counter and memory
    started,    \* history: runs whose hand was invoked
    commands,   \* commands started so far
    crashes     \* sessions killed so far

store    == <<ledger, saved, packs, attempts, runs, events>>
outside  == <<flags, inputs>>
counters == <<commands, crashes>>
vars     == <<store, outside, sess, started, counters>>

-----------------------------------------------------------------------------
(* Session memory. *)

Blank ==
    [pc |-> "idle",       \* next step
     then |-> "idle",     \* where to go once a sync is through
     log |-> <<>>,        \* ReceiptLog: loaded at some moment, extended since
     persisted |-> 0,     \* how much of it is in the ledger
     ids |-> 0,           \* IdGen
     task |-> CHOOSE t \in Tasks : TRUE,
     hash |-> CHOOSE h \in Hashes : TRUE,
     pack |-> 0,          \* context pack id
     of |-> NoAttempt,    \* the attempt a retry repeats
     att |-> NoAttempt,   \* the attempt being worked on
     generation |-> 0,    \* request generation
     run |-> 0, fence |-> 0,
     lost |-> FALSE,      \* disconnected or conflicting event stream
     waits |-> FALSE,     \* `--wait --require task-satisfied'
     exit |-> "none"]     \* how the last command ended

\* The log and the mint as one value while a step appends to them; ok turns
\* FALSE when apply_transition refuses an edge.
Writer(s) == [log |-> sess[s].log, n |-> sess[s].ids, ok |-> TRUE]

\* F applied to the value of w.  (The same as F(w); bound this way because TLC
\* would otherwise evaluate w again for every use of it under ENABLED.)
With(w, F(_)) == CHOOSE y \in {F(x) : x \in {w}} : TRUE

Put(w, a, body) ==
    With(w, LAMBDA x :
        [x EXCEPT !.log = Append(@, [id |-> x.n + 1, attempt |-> a, body |-> body]),
                  !.n = @ + 1])

Go(w, a, to, cause, ref) ==
    With(w, LAMBDA x :
        IF x.ok /\ LegalTransition(x.log, a, to, cause, ref)
        THEN Put(x, a, MoveTo(x.log, a, to, cause, ref))
        ELSE [x EXCEPT !.ok = FALSE])

Walk(w, a, to) == Go(w, a, to, "advance", 0)

\* abort_to_classifying
AbortTo(w, a) ==
    With(Put(w, a, AbortCause("cancelled")),
         LAMBDA x : Go(x, a, "classifying", "abort", x.n))

\* Mutant of Conclude: the verdict is recorded and the attempt left in
\* classifying.
ConcludeHalfway(w, a) == With(w, LAMBDA x : Put(x, a, Terminal(Classify(x.log, a))))

\* Classify, record the verdict, terminal, closed: the tail finish_aborted
\* and the pipeline share.
Conclude(w, a) ==
    LET record(x) == Put(x, a, Terminal(Classify(x.log, a)))
        finish(x) == Go(Go(x, a, "terminal", "classification_complete", x.n),
                        a, "closed", "close", 0)
    IN  With(w, LAMBDA x : IF Classify(x.log, a) = "insufficient"
                           THEN [x EXCEPT !.ok = FALSE]
                           ELSE With(record(x), finish))

Step(s, to)  == sess' = [sess EXCEPT ![s].pc = to]
Fail(s)      == sess' = [sess EXCEPT ![s] = [Blank EXCEPT !.exit = "error"]]

\* Adopt what a step appended and sync it, continuing at `then'.
Sync(s, m, w, then) ==
    \E x \in {w} :
        IF x.ok
        THEN sess' = [sess EXCEPT ![s] = [m EXCEPT !.log = x.log, !.ids = x.n,
                                                   !.pc = "persist", !.then = then]]
        ELSE Fail(s)

-----------------------------------------------------------------------------
(* sync: two transactions. *)

Unsynced(s) ==
    SubSeq(sess[s].log, sess[s].persisted + 1, Len(sess[s].log))

\* persist_receipts_from: all or nothing; receipt_id is UNIQUE.
PersistReceipts(s) ==
    /\ sess[s].pc = "persist"
    /\ IF Ids(Unsynced(s)) \intersect Ids(ledger) # {}
       THEN Fail(s) /\ UNCHANGED ledger
       ELSE /\ ledger' = ledger \o Unsynced(s)
            /\ sess' = [sess EXCEPT ![s].pc = "save",
                                    ![s].persisted = Len(sess[s].log)]
    /\ UNCHANGED <<saved, packs, attempts, runs, events, outside, started, counters>>

\* save_id_gen: the last writer wins.
SaveIds(s) ==
    /\ sess[s].pc = "save"
    /\ saved' = sess[s].ids
    /\ Step(s, sess[s].then)
    /\ UNCHANGED <<ledger, packs, attempts, runs, events, outside, started, counters>>

-----------------------------------------------------------------------------
(* run_task *)

\* The mint is resumed from the saved mark and build_pack mints a pack id.
StartRun(s, t) ==
    /\ sess[s].pc = "idle" /\ commands < MaxCommands
    /\ sess' = [sess EXCEPT ![s] = [Blank EXCEPT
                    !.pc = "admit", !.waits = TRUE, !.task = t,
                    !.hash = inputs[t], !.ids = saved + 1, !.pack = saved + 1]]
    /\ commands' = commands + 1
    /\ UNCHANGED <<store, outside, started, crashes>>

\* A retry mints that id too, then binds the prior attempt's stored pack.
StartRetry(s, prior) ==
    /\ sess[s].pc = "idle" /\ commands < MaxCommands
    /\ sess' = [sess EXCEPT ![s] = [Blank EXCEPT
                    !.pc = "admit", !.of = prior.attempt, !.task = prior.task,
                    !.hash = prior.hash, !.ids = saved + 1, !.pack = prior.pack]]
    /\ commands' = commands + 1
    /\ UNCHANGED <<store, outside, started, crashes>>

\* load_full_log, then admit.
AdmitRequest(s) ==
    LET m == sess[s]
        g == RequestGeneration(ledger, m.task, m.hash, m.of)
        a == m.ids + 1
        original == Original(ledger, m.task, m.hash, g)
        loaded == [m EXCEPT !.log = ledger, !.persisted = Len(ledger)]
    IN  /\ m.pc = "admit"
        /\ IF Refusal(ledger, m.task, m.hash, m.of) # "none" THEN Fail(s)
           ELSE IF original # NoAttempt
           THEN sess' = [sess EXCEPT ![s] = [loaded EXCEPT
                            !.att = original, !.pc = "persist", !.then = "return"]]
           ELSE sess' = [sess EXCEPT ![s] = [loaded EXCEPT
                            !.att = a, !.generation = g, !.pc = "put_pack",
                            !.log = @ \o Stamp(a, a,
                                <<AttemptCreated(m.task, m.hash, g), FenceGeneration(1)>>),
                            !.ids = @ + 3]]
        /\ UNCHANGED <<store, outside, started, counters>>

\* Packs are frozen: the same content under the same id is accepted, other
\* content refused.
PutPack(s) ==
    LET m == sess[s]
        row == [id |-> m.pack, task |-> m.task, hash |-> m.hash]
    IN  /\ m.pc = "put_pack"
        /\ IF \E p \in packs : p.id = m.pack /\ p # row
           THEN Fail(s) /\ UNCHANGED packs
           ELSE packs' = packs \union {row} /\ Step(s, "insert_attempt")
        /\ UNCHANGED <<ledger, saved, attempts, runs, events, outside, started, counters>>

InsertAttempt(s) ==
    LET m == sess[s]
    IN  /\ m.pc = "insert_attempt"
        /\ IF \E r \in attempts : r.attempt = m.att
           THEN Fail(s) /\ UNCHANGED attempts
           ELSE /\ attempts' = attempts \union
                     {[attempt |-> m.att, task |-> m.task, pack |-> m.pack,
                       hash |-> m.hash, generation |-> m.generation]}
                /\ Sync(s, m, Put(Writer(s), m.att, Budget("reserve", "reserved")),
                        "preflight")
        /\ UNCHANGED <<ledger, saved, packs, runs, events, outside, started, counters>>

\* Admitted; the cancel file is looked at once before preparation.
Preflight(s) ==
    LET m == sess[s]
        w == Walk(Writer(s), m.att, "admitted")
        go == Walk(w, m.att, "preparing")
    IN  /\ m.pc = "preflight"
        /\ IF m.att \in flags
           THEN Sync(s, m, Conclude(AbortTo(w, m.att), m.att), "return")
           ELSE IF go.ok
           THEN sess' = [sess EXCEPT ![s] = [m EXCEPT !.pc = "prepare",
                                                      !.log = go.log, !.ids = go.n]]
           ELSE Fail(s)
        /\ UNCHANGED <<store, outside, started, counters>>

-----------------------------------------------------------------------------
(* pipeline_from_preparing *)

Prepare(s) ==
    /\ sess[s].pc = "prepare"
    /\ Sync(s, sess[s], Put(Writer(s), sess[s].att, Environment), "prerun")
    /\ UNCHANGED <<store, outside, started, counters>>

\* Mutant of EnterRunning: no second look at the cancel file.
EnterRunningUnchecked(s) ==
    LET m == sess[s]
        w == Walk(Writer(s), m.att, "running")
        g == CurrentGeneration(w.log, m.att)
    IN  /\ m.pc = "prerun" /\ w.ok
        /\ runs' = runs \union {[run |-> w.n + 1, attempt |-> m.att, generation |-> g]}
        /\ sess' = [sess EXCEPT ![s] = [m EXCEPT !.pc = "hand", !.log = w.log,
                        !.ids = w.n + 2, !.run = w.n + 1, !.fence = g]]
        /\ UNCHANGED <<ledger, saved, packs, attempts, events, outside, started, counters>>

\* The cancel file again; then `running' in memory only, and the run row.
\* The run id and a trace id are minted.
EnterRunning(s) ==
    LET m == sess[s]
        w == Walk(Writer(s), m.att, "running")
        run == w.n + 1
        g == CurrentGeneration(w.log, m.att)
    IN  /\ m.pc = "prerun"
        /\ IF m.att \in flags
           THEN /\ Sync(s, m, Conclude(AbortTo(Writer(s), m.att), m.att), "return")
                /\ UNCHANGED runs
           ELSE IF ~w.ok \/ \E r \in runs : r.run = run
           THEN Fail(s) /\ UNCHANGED runs
           ELSE /\ runs' = runs \union
                     {[run |-> run, attempt |-> m.att, generation |-> g]}
                /\ sess' = [sess EXCEPT ![s] = [m EXCEPT !.pc = "hand", !.log = w.log,
                                !.ids = run + 1, !.run = run, !.fence = g]]
        /\ UNCHANGED <<ledger, saved, packs, attempts, events, outside, started, counters>>

\* HandRegistry::get: an unknown selector ends the command on the spot.
HandStarts(s) ==
    /\ sess[s].pc = "hand"
    /\ \/ /\ "unregistered" \in HandModes
          /\ Fail(s) /\ UNCHANGED started
       \/ /\ HandModes \ {"unregistered"} # {}
          /\ started' = started \union {sess[s].run}
          /\ Step(s, "hand_runs")
    /\ UNCHANGED <<store, outside, counters>>

\* Mutant of HandErrs: the error surfaces and the attempt stays in running.
HandErrsInLimbo(s) ==
    /\ sess[s].pc = "hand_runs" /\ "error" \in HandModes
    /\ Fail(s)
    /\ UNCHANGED <<store, outside, started, counters>>

\* A hard error enters recovery, is synced and surfaces.
HandErrs(s) ==
    /\ sess[s].pc = "hand_runs" /\ "error" \in HandModes
    /\ Sync(s, sess[s], Go(Writer(s), sess[s].att, "recovery_pending",
                           "recovery_entered", 0), "errored")
    /\ UNCHANGED <<store, outside, started, counters>>

\* Mutant of HandReturns: the capture is recorded, the events are not.
HandReturnsUnheard(s) ==
    /\ sess[s].pc = "hand_runs"
    /\ \E mode \in HandModes \ {"unregistered", "error"} :
         Sync(s, [sess[s] EXCEPT !.lost = (mode = "lost")],
              Put(Writer(s), sess[s].att, Capture(sess[s].run)), "observe")
    /\ UNCHANGED <<store, outside, started, counters>>

\* The hand reports: its events are persisted, the capture recorded, and a
\* per-step breach charged.  "lost" is a disconnect without completion or a
\* conflicting event stream.
HandReturns(s) ==
    LET m == sess[s]
        w == Put(Writer(s), m.att, Capture(m.run))
    IN  /\ m.pc = "hand_runs"
        /\ \E mode \in HandModes \ {"unregistered", "error"} :
             Sync(s, [m EXCEPT !.lost = (mode = "lost")],
                  IF mode = "breached"
                  THEN Put(w, m.att, Budget("step", "exceeded")) ELSE w,
                  "observe")
        /\ events' = events \union {m.run}
        /\ UNCHANGED <<ledger, saved, packs, attempts, runs, outside, started, counters>>

\* A cancel seen now is recorded and the pipeline goes on; a lost run enters
\* recovery; otherwise the outputs are committed behind the fence.
ObserveAndCommit(s) ==
    LET m == sess[s]
        w == IF m.att \in flags
             THEN Put(Writer(s), m.att, AbortCause("cancelled")) ELSE Writer(s)
        c == Walk(w, m.att, "commit_pending")
    IN  /\ m.pc = "observe"
        /\ IF m.lost
           THEN Sync(s, m, Go(w, m.att, "recovery_pending", "recovery_entered", 0),
                     "return")
           ELSE IF ~GuardCommit(c.log, m.att, m.fence) THEN Fail(s)
           ELSE \E recs \in CommitRecords :
                  Sync(s, m, Put(c, m.att, Commit(m.fence, recs)), "validate")
        /\ UNCHANGED <<store, outside, started, counters>>

\* Validation receipts for the verified artifacts of the commit just made, each
\* quarantine verdict followed by its quarantine receipt.
Rulings(verdict) ==
    UNION {{Validation(n, v, verdict[n][v])} \union
           {Quarantine(n, v) : q \in {verdict[n][v]} \intersect {"quarantined"}} :
              n \in DOMAIN verdict, v \in Validators}

\* They come in the order in which the contract lists artifacts and validators.
Listed(bodies) ==
    \A k \in DOMAIN bodies : bodies[k].kind = "quarantine" =>
        k > 1 /\ bodies[k - 1] =
                    Validation(bodies[k].artifact, bodies[k].validator, "quarantined")

Validate(s) ==
    LET m == sess[s]
        w == Walk(Writer(s), m.att, "validating")
        verified == {n \in Required : CommitVerdict(m.log, m.att, n) = "verified"}
    IN  /\ m.pc = "validate"
        /\ \E verdict \in [verified -> [Validators -> ValidatorVerdicts]] :
             \E bodies \in SetToSeqs(Rulings(verdict)) :
                /\ Listed(bodies)
                /\ Sync(s, m, [w EXCEPT !.log = @ \o Stamp(w.n, m.att, bodies),
                                        !.n = @ + Len(bodies)], "classify")
        /\ UNCHANGED <<store, outside, started, counters>>

\* Mutant of ClassifyAndClose: the command ends without adjudicating the task.
ClassifyWithoutSelecting(s) ==
    /\ sess[s].pc = "classify"
    /\ Sync(s, sess[s], Conclude(Walk(Writer(s), sess[s].att, "classifying"),
                                 sess[s].att), "return")
    /\ UNCHANGED <<store, outside, started, counters>>

ClassifyAndClose(s) ==
    /\ sess[s].pc = "classify"
    /\ Sync(s, sess[s], Conclude(Walk(Writer(s), sess[s].att, "classifying"),
                                 sess[s].att), "select")
    /\ UNCHANGED <<store, outside, started, counters>>

\* attempts_for_task is read from the store, their receipts from memory.
SelectForTask(s) ==
    LET m == sess[s]
        sel == Select(m.log, m.task,
                      {r.attempt : r \in {x \in attempts : x.task = m.task}})
    IN  /\ m.pc = "select"
        /\ Sync(s, m, Put(Writer(s), sel.under, sel.body), "return")
        /\ UNCHANGED <<store, outside, started, counters>>

-----------------------------------------------------------------------------
(* Recovery actions: the log is loaded first, the mint after it. *)

StartClose(s, row) ==
    /\ sess[s].pc = "idle" /\ commands < MaxCommands
    /\ sess' = [sess EXCEPT ![s] = [Blank EXCEPT
                    !.pc = "close", !.att = row.attempt, !.task = row.task,
                    !.log = ledger, !.persisted = Len(ledger)]]
    /\ commands' = commands + 1
    /\ UNCHANGED <<store, outside, started, crashes>>

CloseAsUnknown(s) ==
    LET m == sess[s]
        w == Put([log |-> m.log, n |-> saved, ok |-> TRUE], m.att, Terminal("unknown"))
    IN  /\ m.pc = "close"
        /\ IF ResolveState(m.log, m.att) # "recovery_pending" THEN Fail(s)
           ELSE Sync(s, m, Go(w, m.att, "terminal", "classification_complete", w.n),
                     "return")
        /\ UNCHANGED <<store, outside, started, counters>>

StartResume(s, row) ==
    /\ sess[s].pc = "idle" /\ commands < MaxCommands
    /\ sess' = [sess EXCEPT ![s] = [Blank EXCEPT
                    !.pc = "resume", !.att = row.attempt, !.task = row.task,
                    !.hash = row.hash, !.pack = row.pack,
                    !.generation = row.generation,
                    !.log = ledger, !.persisted = Len(ledger)]]
    /\ commands' = commands + 1
    /\ UNCHANGED <<store, outside, started, crashes>>

\* A new fence generation, then the pipeline again on the same attempt.
ResumeAttempt(s) ==
    LET m == sess[s]
        w == Put([log |-> m.log, n |-> saved, ok |-> TRUE], m.att,
                 FenceGeneration(CurrentGeneration(m.log, m.att) + 1))
    IN  /\ m.pc = "resume"
        /\ IF \/ ResolveState(m.log, m.att) # "recovery_pending"
              \/ Fences(m.log, m.att) = {}
           THEN Fail(s)
           ELSE Sync(s, m, Go(w, m.att, "preparing", "recovery_resume", w.n), "prepare")
        /\ UNCHANGED <<store, outside, started, counters>>

-----------------------------------------------------------------------------
(* The end of a command. *)

\* report_for's outcome: the last terminal receipt of the attempt.
Outcome(l, a) ==
    IF OfKind(l, a, "terminal") = {} THEN "none"
    ELSE l[Latest(OfKind(l, a, "terminal"))].body.outcome

\* Mutant of WaitExit: the outcome passes through as if it were an exit code.
OutcomeAsExit(satisfied, outcome) == IF satisfied THEN "zero" ELSE outcome

\* wait_exit for `--require task-satisfied': 0 for a satisfied task, else the
\* outcome's own code, which is 0 for success.
WaitExit(satisfied, outcome) ==
    IF satisfied \/ outcome = "success" THEN "zero" ELSE "nonzero"

Return(s) ==
    LET m == sess[s]
    IN  /\ m.pc = "return"
        /\ sess' = [sess EXCEPT ![s] = [Blank EXCEPT !.task = m.task,
                        !.exit = IF m.waits
                                 THEN WaitExit(TaskSatisfied(m.log, m.task),
                                               Outcome(m.log, m.att))
                                 ELSE "none"]]
        /\ UNCHANGED <<store, outside, started, counters>>

ReturnError(s) ==
    /\ sess[s].pc = "errored"
    /\ Fail(s)
    /\ UNCHANGED <<store, outside, started, counters>>

-----------------------------------------------------------------------------
(* The world around the sessions. *)

\* request_cancel: the file is created and never removed.
RequestCancel(r) ==
    /\ r.attempt \notin flags /\ Cardinality(flags) < MaxCancels
    /\ flags' = flags \union {r.attempt}
    /\ UNCHANGED <<store, inputs, sess, started, counters>>

\* A pinned capture or a new epoch changes what a fresh pack would hash to.
ChangeInputs(t, h) ==
    /\ inputs[t] # h
    /\ inputs' = [inputs EXCEPT ![t] = h]
    /\ UNCHANGED <<store, flags, sess, started, counters>>

\* The process dies: everything not yet in the store is gone.
Crash(s) ==
    /\ sess[s].pc # "idle" /\ crashes < MaxCrashes
    /\ sess' = [sess EXCEPT ![s] = Blank]
    /\ crashes' = crashes + 1
    /\ UNCHANGED <<store, outside, started, commands>>

-----------------------------------------------------------------------------

Init ==
    /\ ledger = <<>> /\ saved = 0
    /\ packs = {} /\ attempts = {} /\ runs = {} /\ events = {}
    /\ flags = {}
    /\ inputs = [t \in Tasks |-> CHOOSE h \in Hashes : TRUE]
    /\ sess = [s \in Sessions |-> Blank]
    /\ started = {} /\ commands = 0 /\ crashes = 0

\* One step of a running command.
Work(s) ==
    \/ PersistReceipts(s) \/ SaveIds(s)
    \/ AdmitRequest(s) \/ PutPack(s) \/ InsertAttempt(s) \/ Preflight(s)
    \/ Prepare(s) \/ EnterRunning(s)
    \/ HandStarts(s) \/ HandErrs(s) \/ HandReturns(s)
    \/ ObserveAndCommit(s) \/ Validate(s) \/ ClassifyAndClose(s) \/ SelectForTask(s)
    \/ CloseAsUnknown(s) \/ ResumeAttempt(s)
    \/ Return(s) \/ ReturnError(s)

\* What an operator may type.
Command(s) ==
    \/ \E t \in Tasks : StartRun(s, t)
    \/ \E r \in attempts : StartRetry(s, r) \/ StartClose(s, r) \/ StartResume(s, r)

Next ==
    \/ \E s \in Sessions : Work(s) \/ Command(s) \/ Crash(s)
    \/ \E r \in attempts : RequestCancel(r)
    \/ \E t \in Tasks, h \in Hashes : ChangeInputs(t, h)

Spec == Init /\ [][Next]_vars

\* A running command keeps running until it ends or dies; nobody is obliged
\* to type one.
FairSpec == Spec /\ \A s \in Sessions : WF_vars(Work(s))

-----------------------------------------------------------------------------
(* Properties of the store. *)

\* Every attempt a receipt is about, and those whose creation is on record.
KnownAttempts == {ledger[i].attempt : i \in DOMAIN ledger}

CreatedAttempts == CreatedIn(ledger)

Rows(a) == {r \in attempts : r.attempt = a}

TypeOK ==
    /\ ledger \in Seq(Envelopes) /\ saved \in Nat
    /\ packs \subseteq [id : Nat, task : Tasks, hash : Hashes]
    /\ attempts \subseteq [attempt : Nat, task : Tasks, pack : Nat,
                           hash : Hashes, generation : Nat]
    /\ runs \subseteq [run : Nat, attempt : Nat, generation : Nat]
    /\ events \subseteq Nat /\ started \subseteq Nat /\ flags \subseteq Nat
    /\ inputs \in [Tasks -> Hashes]
    /\ \A s \in Sessions :
          /\ sess[s].log \in Seq(Envelopes)
          /\ sess[s].persisted \in 0..Len(sess[s].log)
          /\ sess[s].exit \in {"none", "zero", "nonzero", "error"}

\* Wherever a command was killed, and whatever was resumed, retried or
\* closed since, every attempt in the ledger resolves (invariant 22).  One whose
\* creation a kill kept out of it has no receipts, save that the adjudication
\* of a task with nothing to select may be filed under it.
LedgerResolves ==
    LET created == CreatedAttempts
    IN  /\ \A a \in created : ResolveState(ledger, a) \in States
        /\ \A i \in DOMAIN ledger :
              \/ ledger[i].attempt \in created
              \/ ledger[i].body.kind = "selection" /\ ~ledger[i].body.satisfied

\* An attempt is judged at most once, and only a judged attempt is terminal
\* or closed: no resume, close or restart produces a second verdict.
OneVerdict ==
    \A a \in CreatedAttempts :
        /\ Cardinality(OfKind(ledger, a, "terminal")) <= 1
        /\ StateOf(ledger, a) \in {"terminal", "closed"}
              <=> OfKind(ledger, a, "terminal") # {}

\* What stands behind a satisfied task (invariants 3 and 4): the selected
\* attempt is closed with success, committed under its current generation,
\* every required artifact read back and passed by every validator, nothing
\* aborted, breached or withheld.
SatisfiedByEvidence ==
    \A t \in Tasks : TaskSatisfied(ledger, t) =>
        LET a == SelectedFor(ledger, t)
            c == OfKind(ledger, a, "commit")
        IN  /\ StateOf(ledger, a) = "closed" /\ Outcome(ledger, a) = "success"
            /\ c # {} /\ ledger[Latest(c)].body.generation = CurrentGeneration(ledger, a)
            /\ \A n \in Required :
                  /\ ledger[Latest(c)].body.artifacts[n] = "verified"
                  /\ \A v \in Validators : \E i \in OfKind(ledger, a, "validation") :
                        /\ i > Latest(c)
                        /\ ledger[i].body = Validation(n, v, "passed")
            /\ \A k \in {"abort_cause", "quarantine"} : OfKind(ledger, a, k) = {}
            /\ Exceeded(ledger, a, {"step", "run", "reserve"}) = {}

\* What a kill at any storage boundary leaves of the ledger is still sound.
LedgerSound == LedgerResolves /\ OneVerdict /\ SatisfiedByEvidence

\* Join keys resolve across the tables (invariant 9), however a command
\* ended: an attempt's creation receipt has its row and its stored pack, and
\* a capture names a run whose row, hand and events are on record for the
\* same attempt.
JoinKeysResolve ==
    /\ \A i \in Created(ledger) :
          LET b == ledger[i].body
          IN  \E r \in Rows(ledger[i].attempt) :
                /\ r.task = b.task /\ r.hash = b.hash /\ r.generation = b.generation
                /\ [id |-> r.pack, task |-> b.task, hash |-> b.hash] \in packs
    /\ \A i \in AnyOfKind(ledger, "capture") :
          /\ ledger[i].body.run \in events \intersect started
          /\ \E r \in runs : r.run = ledger[i].body.run /\ r.attempt = ledger[i].attempt

\* One task, one semantic hash, one attempt per request generation
\* (invariants 6 and 23), over everything commands wrote one after another.
\* (Two at once that admit the same fresh request are told apart by nothing but
\* the ids they mint, and those differ once the mark moved in between.)
RequestsIdempotent == OneAttemptPerKey(ledger)

\* Every run of an attempt has a generation of its own (invariant 24).
OneRunPerGeneration ==
    \A r, q \in runs :
        r.attempt = q.attempt /\ r.generation = q.generation => r = q

\* A cancel the engine recorded is never overridden: such an attempt ends
\* cancelled, or unknown if it was lost as well.
CancelSticks ==
    \A a \in CreatedAttempts :
        OfKind(ledger, a, "abort_cause") # {} =>
            Outcome(ledger, a) \in {"none", "cancelled", "unknown"}

-----------------------------------------------------------------------------
(* Action properties. *)

\* No hand is invoked for an attempt that was judged, or whose cancellation
\* was recorded: a run that was both cancelled and lost may be resumed, but
\* what it resumes into is the abort, never another hand.
NoHandAfterAbort ==
    [][\A r \in runs : r.run \in started' \ started =>
          /\ OfKind(ledger, r.attempt, "terminal") = {}
          /\ OfKind(ledger, r.attempt, "abort_cause") = {}]_started

\* A log, seen as what was promised of attempts and tasks.
Phase(l, a) ==
    LET state == StateOf(l, a)
    IN  CASE state \in {"terminal", "closed"}  -> Outcome(l, a)
          [] state = "recovery_pending"        -> "lost"
          [] OTHER                             -> "open"

Owner(l, a) == l[Earliest(Births(l, a))].body.task

Phases(l) == [a \in CreatedIn(l) |-> Phase(l, a)]
Owners(l) == [a \in CreatedIn(l) |-> Owner(l, a)]
Chosen(l) ==
    [t \in Tasks |-> IF TaskSatisfied(l, t) THEN SelectedFor(l, t) ELSE NoAttempt]

Contract == INSTANCE AttemptContract WITH
    Judgements <- Outcomes,
    phase <- Phases(ledger), owner <- Owners(ledger), chosen <- Chosen(ledger)

\* Commands, syncs, restarts and recoveries amount to the contract: each
\* transaction on the ledger is one of its steps or changes nothing it sees.
ImplementsContract == Contract!Spec

-----------------------------------------------------------------------------
(* Liveness. *)

Settled(a) == StateOf(ledger, a) \in {"closed", "terminal", "recovery_pending"}

Busy(a) == \E s \in Sessions : sess[s].att = a /\ sess[s].pc # "idle"

Admitted(t, h, g) == WithKey(ledger, t, h, g) # {}
AdmittedAndSettled(t, h, g) == Admitted(t, h, g) /\ Settled(Original(ledger, t, h, g))

HasSuccess(t) ==
    \E a \in CreatedAttempts :
        Outcome(ledger, a) = "success" /\ \E r \in Rows(a) : r.task = t

\* Every admitted request's attempt ends closed or in the recovery queue: the
\* engine leaves no attempt behind while its process lives.
AdmittedSettles ==
    \A t \in Tasks, h \in Hashes, g \in 1..MaxCommands :
        Admitted(t, h, g) ~> AdmittedAndSettled(t, h, g)

\* A success is adjudicated: its task becomes satisfied.
SuccessSatisfies ==
    \A t \in Tasks : HasSuccess(t) ~> TaskSatisfied(ledger, t)

-----------------------------------------------------------------------------
(* What the documentation says, and the code does not keep. *)

\* README: exit 0 <=> a verified TaskSelectionReceipt exists.
ExitZeroMeansSelected ==
    \A s \in Sessions :
        sess[s].exit = "zero" => TaskSatisfied(ledger, sess[s].task)

\* recovery_queue: in a pre-run state no hand ever started.
PreRunMeansNoHand ==
    \A r \in runs :
        /\ StateOf(ledger, r.attempt) \in PreRun
        /\ r.generation = CurrentGeneration(ledger, r.attempt)
        /\ ~Busy(r.attempt)
        => r.run \notin started

\* engine.rs: no attempt is ever in limbo; with no process killed, an attempt
\* nobody works on is closed or in the recovery queue.
NoLimbo ==
    crashes = 0 => \A a \in CreatedAttempts : Busy(a) \/ Settled(a)

\* INVARIANTS.md 9 and 22: every receipt's attempt resolves from the ledger.
EveryReceiptResolves ==
    \A a \in KnownAttempts : ResolveState(ledger, a) \in States

\* store.rs: ids never collide across sessions.
MintedIdsFresh ==
    \A s \in Sessions :
        /\ sess[s].pc = "persist" => Ids(Unsynced(s)) \intersect Ids(ledger) = {}
        /\ sess[s].pc = "insert_attempt" => Rows(sess[s].att) = {}

=============================================================================
