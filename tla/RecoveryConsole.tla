--------------------------- MODULE RecoveryConsole ---------------------------
(***************************************************************************)
(* The queue of the recovery console, beside running commands and a clock. *)
(* The queue is computed from the store: who is in recovery, and who has   *)
(* been silent for longer than the tolerance.  A command reads the clock   *)
(* when it begins a stage and stamps every receipt of the stage with that. *)
(***************************************************************************)
EXTENDS Engine

CONSTANTS
    Tolerance,   \* stale_after_ms
    MaxTime      \* bound: readings of the clock

ASSUME ConsoleAssumption == Tolerance \in Nat /\ MaxTime \in Nat

VARIABLES
    now,     \* the clock
    at,      \* per session: the clock as the stage it is in began
    last     \* per attempt with receipts in the ledger: the latest stamp

consoleVars == <<vars, now, at, last>>

-----------------------------------------------------------------------------
(* recovery_queue *)

\* States of the pipeline, before and after the hand, shown when stale.
Silent == PreRun \union {"running", "commit_pending", "validating", "classifying"}

\* Mutant of Shown: the states before the hand are not looked at.
ShownOnceRunning(time) ==
    {a \in {r.attempt : r \in attempts} :
        LET state == ResolveState(ledger, a)
        IN  \/ state \notin States \/ state = "recovery_pending"
            \/ state \in Silent \ PreRun /\ time - last[a] > Tolerance}

\* The attempts the queue shows at a time: an unresolvable chain, an attempt
\* in recovery, a stage silent for longer than the tolerance.
Shown(time) ==
    {a \in {r.attempt : r \in attempts} :
        LET state == ResolveState(ledger, a)
        IN  \/ state \notin States
            \/ state = "recovery_pending"
            \/ state \in Silent /\ time - last[a] > Tolerance}

-----------------------------------------------------------------------------
ConsoleInit == Init /\ now = 0 /\ at = [s \in Sessions |-> 0] /\ last = <<>>

Tick ==
    /\ now < MaxTime /\ now' = now + 1
    /\ UNCHANGED <<vars, at, last>>

\* The stages that begin with a look at the clock: run_task, the pipeline,
\* finish_aborted, a hand that failed, close_as_unknown and resume_attempt.
Looks(s) ==
    \/ sess[s].pc \in {"admit", "prepare", "close", "resume"}
    \/ sess[s].pc \in {"preflight", "prerun"} /\ sess[s].att \in flags
    \/ sess[s].pc = "hand_runs" /\ sess'[s].then = "errored"

\* A step of a command stamps what it persists; every other step is Engine's.
Stamped(s) ==
    /\ at' = [at EXCEPT ![s] = IF Looks(s) THEN now ELSE @]
    /\ last' = IF ledger' = ledger THEN last
               ELSE [a \in {ledger'[i].attempt : i \in DOMAIN ledger'} |->
                       IF a \in {r.attempt : r \in Range(Unsynced(s))} THEN at[s]
                       ELSE last[a]]
    /\ UNCHANGED now

ConsoleNext ==
    \/ \E s \in Sessions : (Work(s) \/ Command(s) \/ Crash(s)) /\ Stamped(s)
    \/ /\ \/ \E r \in attempts : RequestCancel(r)
          \/ \E t \in Tasks, h \in Hashes : ChangeInputs(t, h)
       /\ UNCHANGED <<now, at, last>>
    \/ Tick

ConsoleSpec == ConsoleInit /\ [][ConsoleNext]_consoleVars

-----------------------------------------------------------------------------
Judged(a) == ResolveState(ledger, a) \in {"terminal", "closed"}

\* No attempt is in limbo unseen: wherever commands were killed or failed, an
\* attempt of the store without a verdict that nobody works on is shown at the
\* latest when the tolerance has passed.
NobodyUnseen ==
    \A a \in {r.attempt : r \in attempts} \union KnownAttempts :
        Busy(a) \/ Judged(a) \/ a \in Shown(now + Tolerance + 1)

\* An attempt with a verdict is never shown, and one that is shown because it
\* is in recovery can be acted on in all three ways: resumed, closed, retried.
RecoveryActionable ==
    \A a \in Shown(now) :
        /\ ~Judged(a)
        /\ ResolveState(ledger, a) = "recovery_pending" =>
              /\ Fences(ledger, a) # {}
              /\ \E r \in Rows(a) : /\ Refusal(ledger, r.task, r.hash, a) = "none"
                                    /\ \E p \in packs : p.id = r.pack

\* The queue shows who needs it, at the latest when the tolerance has passed and
\* wherever commands were killed, never an attempt with a verdict, and in
\* recovery only one that can be resumed, closed and retried.
QueueRight == NobodyUnseen /\ RecoveryActionable

-----------------------------------------------------------------------------
(* What the documentation says, and the code does not keep. *)

\* What the queue says: three safe actions, always.  Resuming and closing are
\* legal from recovery_pending only.
OfferedActionsLegal ==
    \A a \in Shown(now) : Busy(a) \/ ResolveState(ledger, a) = "recovery_pending"

\* What the queue says of an attempt it calls stale before running: the worker
\* died.
StaleMeansDead ==
    \A a \in Shown(now) :
        ResolveState(ledger, a) \in PreRun => ~Busy(a)

=============================================================================
