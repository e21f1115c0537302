------------------------------- MODULE Catalog -------------------------------
(***************************************************************************)
(* The mutable records beside the ledger: missions, epochs, plans and      *)
(* tasks (store.rs), the commands that write them (cmds.rs) and the frozen *)
(* pack a run draws from them (Engine::build_pack).  A session is one such *)
(* command; one action is one statement on the database.                   *)
(***************************************************************************)
EXTENDS Naturals, Sequences, FiniteSets

CONSTANTS
    Sessions,
    Missions,
    EpochNames,     \* numbers, in the order of the refs
    Cutoffs,        \* what an epoch fixes
    PlanNames, Tasks,
    Pins,           \* a task's pinned inputs; plan apply pins NoPins
    NoPins,
    MaxCommands,    \* bound: commands started
    MaxCrashes      \* bound: commands killed

VARIABLES
    missions,   \* name -> "none", "open" or "closed"
    epochs,     \* name -> [sealed, cutoff], or NoEpoch
    plans,      \* name -> the set of its nodes, or NoPlan
    tasks,      \* name -> [plan, pins], or NoTask
    cmd,        \* per session: the command at work
    packs,      \* history: what was frozen, [task, epoch, cutoff, pins]
    refused,    \* history: freezes refused while a sealed epoch existed
    strays,     \* history: tasks added under a plan that did not exist
    commands, crashes

tables == <<missions, epochs, plans, tasks>>
past   == <<packs, refused, strays>>
vars   == <<tables, cmd, past, commands, crashes>>

NoEpoch == [sealed |-> FALSE, cutoff |-> "none"]
NoPlan  == {"none"}
NoTask  == [plan |-> "none", pins |-> NoPins]
Idle    == [pc |-> "idle"]

Begin(s, c) ==
    /\ cmd[s].pc = "idle" /\ commands < MaxCommands
    /\ cmd' = [cmd EXCEPT ![s] = c]
    /\ commands' = commands + 1

Become(s, c) == cmd' = [cmd EXCEPT ![s] = c] /\ UNCHANGED <<commands, crashes>>

-----------------------------------------------------------------------------
(* mission create, mission close *)

\* put_mission: creating it again replaces the body, not the status.
CreateMission(s, m) ==
    /\ Begin(s, Idle)
    /\ missions' = [missions EXCEPT ![m] = IF @ = "none" THEN "open" ELSE @]
    /\ UNCHANGED <<epochs, plans, tasks, past, crashes>>

CloseMission(s, m) ==
    /\ Begin(s, Idle)
    /\ missions' = [missions EXCEPT ![m] = IF @ = "none" THEN @ ELSE "closed"]
    /\ UNCHANGED <<epochs, plans, tasks, past, crashes>>

-----------------------------------------------------------------------------
(* epoch open, epoch seal: put_epoch looks at the row, then writes it.  No  *)
(* command asks whether the epoch's mission exists or is closed.            *)

OpenEpoch(s, e, cutoff, seal) ==
    /\ Begin(s, [pc |-> "look", name |-> e, row |-> [sealed |-> seal, cutoff |-> cutoff]])
    /\ UNCHANGED <<tables, past, crashes>>

\* epoch_seal reads the epoch, sets its flag and puts it.
SealEpoch(s, e) ==
    /\ IF epochs[e] = NoEpoch \/ epochs[e].sealed
       THEN Begin(s, Idle)
       ELSE Begin(s, [pc |-> "look", name |-> e, row |-> [epochs[e] EXCEPT !.sealed = TRUE]])
    /\ UNCHANGED <<tables, past, crashes>>

\* SELECT sealed: a sealed epoch is refused.
LookEpoch(s) ==
    /\ cmd[s].pc = "look"
    /\ Become(s, IF epochs[cmd[s].name].sealed THEN Idle
                 ELSE [cmd[s] EXCEPT !.pc = "write"])
    /\ UNCHANGED <<tables, past>>

\* INSERT .. ON CONFLICT DO UPDATE.
WriteEpoch(s) ==
    /\ cmd[s].pc = "write"
    /\ epochs' = [epochs EXCEPT ![cmd[s].name] = cmd[s].row]
    /\ Become(s, Idle)
    /\ UNCHANGED <<missions, plans, tasks, past>>

-----------------------------------------------------------------------------
(* plan apply, task add *)

\* put_plan: a plan of that name is replaced.
ApplyPlan(s, p, nodes) ==
    /\ Begin(s, [pc |-> "rows", plan |-> p, left |-> nodes])
    /\ plans' = [plans EXCEPT ![p] = nodes]
    /\ UNCHANGED <<missions, epochs, tasks, past, crashes>>

\* put_task for one node after the other, whatever row was there; the pins
\* are always empty.
PutRow(s) ==
    /\ cmd[s].pc = "rows"
    /\ IF cmd[s].left = {} THEN Become(s, Idle) /\ UNCHANGED <<tasks, strays>>
       ELSE \E t \in cmd[s].left :
              /\ tasks' = [tasks EXCEPT ![t] = [plan |-> cmd[s].plan, pins |-> NoPins]]
              /\ strays' = strays \ {t}
              /\ Become(s, [cmd[s] EXCEPT !.left = @ \ {t}])
    /\ UNCHANGED <<missions, epochs, plans, packs, refused>>

\* task_add: one upsert; the plan is not looked up.
AddTask(s, t, p, pins) ==
    /\ Begin(s, Idle)
    /\ tasks' = [tasks EXCEPT ![t] = [plan |-> p, pins |-> pins]]
    /\ strays' = IF plans[p] = NoPlan THEN strays \union {t} ELSE strays \ {t}
    /\ UNCHANGED <<missions, epochs, plans, packs, refused, crashes>>

-----------------------------------------------------------------------------
(* build_pack: the task, its plan, the epochs, one SELECT after another. *)

Freeze(s, t) ==
    /\ IF tasks[t] = NoTask THEN Begin(s, Idle)
       ELSE Begin(s, [pc |-> "plan", task |-> t, row |-> tasks[t]])
    /\ UNCHANGED <<tables, past, crashes>>

FreezePlan(s) ==
    /\ cmd[s].pc = "plan"
    /\ Become(s, IF plans[cmd[s].row.plan] = NoPlan THEN Idle
                 ELSE [cmd[s] EXCEPT !.pc = "epoch"])
    /\ UNCHANGED <<tables, past>>

\* latest_epoch: the last by name, of all there are.
LastEpoch == LET known == {e \in EpochNames : epochs[e] # NoEpoch}
             IN  IF known = {} THEN 0 ELSE CHOOSE e \in known : \A f \in known : f <= e

SomeSealed == \E e \in EpochNames : epochs[e].sealed

FreezeEpoch(s) ==
    /\ cmd[s].pc = "epoch"
    /\ IF LastEpoch # 0 /\ epochs[LastEpoch].sealed
       THEN /\ packs' = packs \union {[task |-> cmd[s].task, epoch |-> LastEpoch,
                           cutoff |-> epochs[LastEpoch].cutoff, pins |-> cmd[s].row.pins]}
            /\ UNCHANGED refused
       ELSE /\ refused' = (refused \/ SomeSealed)
            /\ UNCHANGED packs
    /\ Become(s, Idle)
    /\ UNCHANGED <<tables, strays>>

-----------------------------------------------------------------------------
Init ==
    /\ missions = [m \in Missions |-> "none"]
    /\ epochs = [e \in EpochNames |-> NoEpoch]
    /\ plans = [p \in PlanNames |-> NoPlan]
    /\ tasks = [t \in Tasks |-> NoTask]
    /\ cmd = [s \in Sessions |-> Idle]
    /\ packs = {} /\ refused = FALSE /\ strays = {}
    /\ commands = 0 /\ crashes = 0

Kill(s) ==
    /\ cmd[s].pc # "idle" /\ crashes < MaxCrashes
    /\ cmd' = [cmd EXCEPT ![s] = Idle]
    /\ crashes' = crashes + 1
    /\ UNCHANGED <<tables, past, commands>>

Next == \E s \in Sessions :
    \/ \E m \in Missions : CreateMission(s, m) \/ CloseMission(s, m)
    \/ \E e \in EpochNames : SealEpoch(s, e)
    \/ \E e \in EpochNames, c \in Cutoffs, b \in BOOLEAN : OpenEpoch(s, e, c, b)
    \/ LookEpoch(s) \/ WriteEpoch(s)
    \/ \E p \in PlanNames, nodes \in SUBSET Tasks : ApplyPlan(s, p, nodes)
    \/ PutRow(s)
    \/ \E t \in Tasks, p \in PlanNames, pins \in Pins : AddTask(s, t, p, pins)
    \/ \E t \in Tasks : Freeze(s, t)
    \/ FreezePlan(s) \/ FreezeEpoch(s)
    \/ Kill(s)

Spec == Init /\ [][Next]_vars

-----------------------------------------------------------------------------
\* Closing a mission is final: creating it again does not reopen it.
Closed == \A m \in Missions : missions[m] = "closed" => missions'[m] = "closed"
\* Whatever was frozen, its epoch still reads as it did: sealed, with the same
\* cutoff.  Every point-in-time check of a pack rests on this.
PackEpochStands ==
    \A k \in packs : epochs[k.epoch] = [sealed |-> TRUE, cutoff |-> k.cutoff]

\* A plan apply killed anywhere leaves no task under a plan that is not
\* there, which would make `task ready' fail for every task; only a `task
\* add' that names an absent plan does that.
RowsResolve ==
    \A t \in Tasks : tasks[t] # NoTask /\ plans[tasks[t].plan] = NoPlan => t \in strays

-----------------------------------------------------------------------------
(* What the documentation says, and the code does not keep. *)

\* store.rs: sealed epochs refuse mutation; with two commands at once (of every step).
SealedRefuse ==
    \A e \in EpochNames : epochs[e].sealed => epochs'[e] = epochs[e]

\* entities.rs: a plan is immutable (of every step).
PlanImmutable ==
    \A p \in PlanNames : plans[p] # NoPlan => plans'[p] = plans[p]

\* entities.rs: a semantic change of a task is a new version; two packs of
\* one task ref under one epoch pin the same inputs.
OneMeaningPerTask ==
    \A k, l \in packs : k.task = l.task /\ k.epoch = l.epoch => k.pins = l.pins

\* engine.rs: the epoch of a pack is the latest sealed one; a run is not
\* refused for want of a seal while a sealed epoch is there.
SealedSuffices == ~refused

=============================================================================
