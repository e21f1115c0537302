------------------------------- MODULE PlanRun -------------------------------
(***************************************************************************)
(* `rein plan run' and `rein task ready' (cmds.rs): the sweep over a       *)
(* plan's nodes.  The engine is seen as what one run_task does to a task   *)
(* and answers; Engine has its inside.  The ledger is the set of satisfied *)
(* tasks and the state of each task's fresh attempt.                       *)
(***************************************************************************)
EXTENDS Naturals

CONSTANTS
    Tasks,      \* numbers: the nodes of the plan, in order of declaration
    MaxRuns,    \* bound: plan runs started
    MaxMishaps  \* bound: kills, and changes of a task's inputs, together

VARIABLES
    deps,       \* Plan.nodes[].depends_on: an acyclic relation
    rows,       \* tasks with a row in table tasks
    fresh,      \* the task's fresh attempt: "none" if it has none yet
    satisfied,  \* tasks whose last selection receipt is satisfied
    changed,    \* tasks whose pack would no longer hash as their attempt's
    cmd,        \* the plan run at work
    tries,      \* history: fresh attempts created for each task
    runs, mishaps

ledger == <<fresh, satisfied>>
world  == <<deps, rows, changed>>
vars   == <<world, ledger, cmd, tries, runs, mishaps>>

Settled == {"failed", "lost", "succeeded"}

Idle == [pc |-> "idle", pending |-> {}, progressed |-> FALSE,
         seen |-> {}, won |-> {}, exit |-> "none"]

\* Mutant of Pending: a node is taken up with any of its dependencies done.
PendingAnyDependency(done) ==
    {t \in Tasks \ done : deps[t] = {} \/ deps[t] \intersect done # {}}

\* Nodes not satisfied whose dependencies all are.
Pending(done) == {t \in Tasks \ done : deps[t] \subseteq done}

\* What Plan::validate let through: every set of tasks holds one that needs
\* no other of the set.
Acyclic(d) == \A S \in (SUBSET Tasks) \ {{}} : \E t \in S : d[t] \intersect S = {}

Init ==
    /\ deps \in {d \in [Tasks -> SUBSET Tasks] : Acyclic(d)}
    /\ rows \in SUBSET Tasks
    /\ fresh = [t \in Tasks |-> "none"] /\ satisfied = {} /\ changed = {}
    /\ cmd = Idle /\ tries = [t \in Tasks |-> 0] /\ runs = 0 /\ mishaps = 0

-----------------------------------------------------------------------------
(* plan_run *)

Start ==
    /\ cmd.pc = "idle" /\ runs < MaxRuns
    /\ cmd' = [Idle EXCEPT !.pc = "sweep", !.progressed = TRUE]
    /\ runs' = runs + 1
    /\ UNCHANGED <<world, ledger, tries, mishaps>>

\* while progressed: load the log, list what is pending.
Sweep ==
    /\ cmd.pc = "sweep"
    /\ cmd' = IF ~cmd.progressed
              THEN [cmd EXCEPT !.pc = "idle", !.exit = "clean"]
              ELSE [cmd EXCEPT !.pc = "node", !.progressed = FALSE,
                               !.seen = satisfied, !.pending = Pending(satisfied)]
    /\ UNCHANGED <<world, ledger, tries, runs, mishaps>>

\* They are taken up in order of declaration.
Now == CHOOSE t \in cmd.pending : \A u \in cmd.pending : t <= u

\* Mutant of Reported: any report counts as progress.
ReportedAnyway(c, t, ok) ==
    [c EXCEPT !.pc = "node", !.pending = @ \ {t}, !.progressed = TRUE,
              !.won = IF ok THEN @ \union {t} ELSE @]

\* A report came back: the node is behind us, and is progress if it says the
\* task is satisfied.
Reported(c, t, ok) ==
    [c EXCEPT !.pc = "node", !.pending = @ \ {t}, !.progressed = @ \/ ok,
              !.won = IF ok THEN @ \union {t} ELSE @]

\* `?': the first error ends the command, whatever is still pending.
Aborted(c) == [c EXCEPT !.pc = "idle", !.pending = {}, !.exit = "error"]

SweepEnds ==
    /\ cmd.pc = "node" /\ cmd.pending = {}
    /\ cmd' = [cmd EXCEPT !.pc = "sweep"]
    /\ UNCHANGED <<world, ledger, tries, runs, mishaps>>

\* Mutant of Deliver: an attempt in recovery is not taken for the original.
DeliverForgetsLost ==
    /\ cmd.pc = "node" /\ cmd.pending # {}
    /\ Now \in rows \ changed
    /\ IF fresh[Now] \in {"none", "lost"}
       THEN /\ fresh' = [fresh EXCEPT ![Now] = "open"]
            /\ tries' = [tries EXCEPT ![Now] = @ + 1]
            /\ cmd' = [cmd EXCEPT !.pc = "hand"]
       ELSE /\ cmd' = Reported(cmd, Now, Now \in satisfied)
            /\ UNCHANGED <<fresh, tries>>
    /\ UNCHANGED <<world, satisfied, runs, mishaps>>

\* run_task up to admission: a task without a row, or whose semantic hash
\* changed since its attempt, is an error; a second delivery reports on the
\* original; the first creates the attempt.
Deliver ==
    /\ cmd.pc = "node" /\ cmd.pending # {}
    /\ IF Now \notin rows \/ (Now \in changed /\ fresh[Now] # "none")
       THEN cmd' = Aborted(cmd) /\ UNCHANGED <<fresh, tries>>
       ELSE IF fresh[Now] # "none"
       THEN cmd' = Reported(cmd, Now, Now \in satisfied) /\ UNCHANGED <<fresh, tries>>
       ELSE /\ fresh' = [fresh EXCEPT ![Now] = "open"]
            /\ tries' = [tries EXCEPT ![Now] = @ + 1]
            /\ cmd' = [cmd EXCEPT !.pc = "hand"]
    /\ UNCHANGED <<world, satisfied, runs, mishaps>>

\* The rest of run_task: a report, unless the hand failed hard, which leaves
\* the attempt in recovery and ends the command.
Execute ==
    /\ cmd.pc = "hand"
    /\ \/ \E end \in Settled :
            /\ fresh' = [fresh EXCEPT ![Now] = end]
            /\ satisfied' = IF end = "succeeded" THEN satisfied \union {Now} ELSE satisfied
            /\ cmd' = Reported(cmd, Now, Now \in satisfied')
       \/ /\ fresh' = [fresh EXCEPT ![Now] = "lost"]
          /\ cmd' = Aborted(cmd) /\ UNCHANGED satisfied
    /\ UNCHANGED <<world, tries, runs, mishaps>>

-----------------------------------------------------------------------------
(* Around it. *)

\* `attempt retry' or `attempt recover' in another terminal, succeeding.
Repair(t) ==
    /\ fresh[t] # "none" /\ t \notin satisfied
    /\ satisfied' = satisfied \union {t}
    /\ UNCHANGED <<world, fresh, cmd, tries, runs, mishaps>>

\* `task add' gives a node that has none its row.
AddRow(t) ==
    /\ t \notin rows /\ rows' = rows \union {t}
    /\ UNCHANGED <<deps, changed, ledger, cmd, tries, runs, mishaps>>

ChangeInputs(t) ==
    /\ mishaps < MaxMishaps /\ t \notin changed
    /\ fresh[t] # "none"
    /\ changed' = changed \union {t}
    /\ mishaps' = mishaps + 1
    /\ UNCHANGED <<deps, rows, ledger, cmd, tries, runs>>

\* The process dies; an attempt under way stays where it is.
Kill ==
    /\ cmd.pc # "idle" /\ mishaps < MaxMishaps
    /\ cmd' = [Idle EXCEPT !.exit = "killed"]
    /\ mishaps' = mishaps + 1
    /\ UNCHANGED <<world, ledger, tries, runs>>

Work == Sweep \/ SweepEnds \/ Deliver \/ Execute

Next == \/ Start \/ Work \/ Kill
        \/ \E t \in Tasks : Repair(t) \/ AddRow(t) \/ ChangeInputs(t)

Spec == Init /\ [][Next]_vars /\ WF_vars(Work)

-----------------------------------------------------------------------------
\* An attempt is created only for a task all of whose dependencies are
\* satisfied, though the list it comes from was drawn up before the nodes
\* ahead of it ran.
Ordered == \A t \in Tasks : tries'[t] > tries[t] => deps[t] \subseteq satisfied
DependenciesFirst == [][Ordered]_vars

\* A command that ends cleanly left nothing it could have done: a task whose
\* dependencies it saw or made satisfied is satisfied or has had its attempt.
\* This is what the repeated sweep is for.
NothingReadyUntried ==
    cmd.pc = "idle" /\ cmd.exit = "clean" =>
        \A t \in Tasks \ satisfied :
            deps[t] \subseteq cmd.seen \union cmd.won => fresh[t] # "none"

\* However often the plan is run, and whatever ended the runs before, a node
\* costs one fresh attempt: repeating a plan run re-requests failed, lost and
\* killed nodes without running them again.
OneAttemptPerNode == \A t \in Tasks : tries[t] <= 1

\* Every plan run ends: a sweep is repeated only after a task became
\* satisfied, so failed nodes answered as duplicates cannot keep it going.
Running == cmd.pc # "idle"
=============================================================================
