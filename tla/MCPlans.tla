------------------------------- MODULE MCPlans -------------------------------
(***************************************************************************)
(* TLC instances of what is done with a plan: PlanGraph, its validation,   *)
(* over every small graph, and PlanRun, its execution, over every acyclic  *)
(* one.  A behaviour is one of one part; the variables of the other stay   *)
(* empty.                                                                  *)
(***************************************************************************)
EXTENDS Naturals

CONSTANTS Names, MaxNodes, MaxDeps,        \* of PlanGraph
          NodeTasks,                       \* Tasks of PlanRun
          MaxRuns, MaxMishaps              \* of PlanRun

ASSUME Numbered == Names \union NodeTasks \subseteq Nat /\ MaxDeps \in Nat

VARIABLES part,
          plan, stack, in_stack, done, verdict,
          deps, rows, fresh, satisfied, changed, cmd, tries, runs, mishaps

graph == <<plan, stack, in_stack, done, verdict>>
run   == <<deps, rows, fresh, satisfied, changed, cmd, tries, runs, mishaps>>

Graph == INSTANCE PlanGraph

Run == INSTANCE PlanRun WITH Tasks <- NodeTasks

Init ==
    \/ /\ part = "graph" /\ Graph!Init
       /\ deps = 0 /\ rows = 0 /\ fresh = 0 /\ satisfied = 0 /\ changed = 0
       /\ cmd = 0 /\ tries = 0 /\ runs = 0 /\ mishaps = 0
    \/ /\ part = "run" /\ Run!Init
       /\ plan = 0 /\ stack = 0 /\ in_stack = 0 /\ done = 0 /\ verdict = 0

Next ==
    /\ UNCHANGED part
    /\ \/ part = "graph" /\ Graph!Next /\ UNCHANGED run
       \/ part = "run" /\ Run!Next /\ UNCHANGED graph

\* validate is a loop, and a plan run does its next step, as long as nobody
\* kills it.
Spec == /\ Init /\ [][Next]_<<part, graph, run>>
        /\ WF_graph(part = "graph" /\ Graph!Next)
        /\ WF_run(part = "run" /\ Run!Work)

-----------------------------------------------------------------------------
\* validate_acyclic reports a cycle only where there is one, and acyclic only
\* for a plan whose tasks can be done in some order.
VerdictRight == part = "graph" => Graph!VerdictRight /\ Graph!PathIsStack

\* A plan run that ends cleanly left no task untried whose dependencies it saw
\* or made satisfied; and however often the plan is run, and whatever ended the
\* runs before, a node costs one fresh attempt.
EachNodeTriedOnce == part = "run" => Run!NothingReadyUntried /\ Run!OneAttemptPerNode

\* No attempt begins before the dependencies of its task are satisfied, though
\* the list it comes from was drawn up before the nodes ahead of it ran.
DependenciesFirst == [][part = "run" => Run!Ordered]_run

\* The search ends, on cyclic plans too; and so does every plan run, failed
\* nodes answered as duplicates or not.
Ends == /\ (part = "graph") ~> (part = "graph" /\ Graph!Answered)
        /\ (part = "run" /\ Run!Running) ~> (part = "run" /\ ~Run!Running)

=============================================================================
