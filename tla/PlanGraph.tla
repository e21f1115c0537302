------------------------------ MODULE PlanGraph ------------------------------
(***************************************************************************)
(* Plan::validate: nodes declared once, dependencies that are nodes, and   *)
(* no dependency cycle, by an iterative depth-first search with an index   *)
(* into each node's dependencies.  Tasks are numbers, in the order of      *)
(* their refs.                                                             *)
(***************************************************************************)
EXTENDS Naturals, Sequences

CONSTANTS
    Names,      \* task refs a plan file may use
    MaxNodes,   \* bound: nodes of a plan
    MaxDeps     \* bound: dependencies of a node

VARIABLES
    plan,      \* Plan.nodes: a sequence of [task, deps], deps a sequence
    stack,     \* pairs <<node, index of the next dependency>>
    in_stack, done,
    verdict    \* [kind, task]: what validate returns, "none" until it does

vars == <<plan, stack, in_stack, done, verdict>>

BoundedSeq(S, n) == UNION {[1..k -> S] : k \in 0..n}

Nodes == [task : Names, deps : BoundedSeq(Names, MaxDeps)]
NoTask == 0
Open == [kind |-> "none", task |-> NoTask]

Tasks(p)   == {p[i].task : i \in DOMAIN p}
Deps(p, t) == p[CHOOSE i \in DOMAIN p : p[i].task = t].deps
DepSet(p, t) == {Deps(p, t)[k] : k \in DOMAIN Deps(p, t)}

\* The two passes before the search: the first node declared twice; else the
\* first dependency, in order of declaration, that is no node.
Twice(p) == {i \in DOMAIN p : \E k \in 1..(i - 1) : p[k].task = p[i].task}
Dangling(p) == {d \in (DOMAIN p) \X (1..MaxDeps) :
                   d[2] \in DOMAIN p[d[1]].deps /\ p[d[1]].deps[d[2]] \notin Tasks(p)}

First(S) == CHOOSE i \in S : \A k \in S : i <= k

Declared(p) ==
    IF Twice(p) # {} THEN [kind |-> "duplicate", task |-> p[First(Twice(p))].task]
    ELSE IF Dangling(p) # {}
    THEN LET i == First({d[1] : d \in Dangling(p)})
             k == First({d[2] : d \in {e \in Dangling(p) : e[1] = i}})
         IN  [kind |-> "unknown_dependency", task |-> p[i].deps[k]]
    ELSE Open

-----------------------------------------------------------------------------
Init ==
    /\ plan \in BoundedSeq(Nodes, MaxNodes)
    /\ verdict = Declared(plan)
    /\ stack = <<>> /\ in_stack = {} /\ done = {}

\* The next start, in order of refs, once the stack is empty.
Start ==
    /\ verdict = Open /\ stack = <<>>
    /\ LET left == Tasks(plan) \ done
       IN  IF left = {}
           THEN verdict' = [Open EXCEPT !.kind = "acyclic"] /\ UNCHANGED <<stack, in_stack>>
           ELSE /\ stack' = <<<<First(left), 1>>>>
                /\ in_stack' = in_stack \union {First(left)}
                /\ UNCHANGED verdict
    /\ UNCHANGED <<plan, done>>

Top  == stack[Len(stack)]
Rest == SubSeq(stack, 1, Len(stack) - 1)

\* Mutant of Descend: a node that is done counts as being on the path.
DescendDoneIsCycle ==
    /\ verdict = Open /\ stack # <<>> /\ Top[2] <= Len(Deps(plan, Top[1]))
    /\ LET next == Deps(plan, Top[1])[Top[2]]
           again == Append(Rest, <<Top[1], Top[2] + 1>>)
       IN  IF next \in in_stack \union done
           THEN verdict' = [kind |-> "cycle", task |-> next] /\ UNCHANGED <<stack, in_stack>>
           ELSE /\ in_stack' = in_stack \union {next}
                /\ stack' = Append(again, <<next, 1>>) /\ UNCHANGED verdict
    /\ UNCHANGED <<plan, done>>

\* Look at the top node's next dependency.
Descend ==
    /\ verdict = Open /\ stack # <<>> /\ Top[2] <= Len(Deps(plan, Top[1]))
    /\ LET next  == Deps(plan, Top[1])[Top[2]]
           again == Append(Rest, <<Top[1], Top[2] + 1>>)
       IN  IF next \in in_stack
           THEN verdict' = [kind |-> "cycle", task |-> next]
                /\ UNCHANGED <<stack, in_stack>>
           ELSE /\ in_stack' = IF next \in done THEN in_stack ELSE in_stack \union {next}
                /\ stack' = IF next \in done THEN again ELSE Append(again, <<next, 1>>)
                /\ UNCHANGED verdict
    /\ UNCHANGED <<plan, done>>

\* All its dependencies are done, and so is the node.
Finish ==
    /\ verdict = Open /\ stack # <<>> /\ Top[2] > Len(Deps(plan, Top[1]))
    /\ stack' = Rest
    /\ in_stack' = in_stack \ {Top[1]}
    /\ done' = done \union {Top[1]}
    /\ UNCHANGED <<plan, verdict>>

Next == Start \/ Descend \/ Finish

Spec == Init /\ [][Next]_vars /\ WF_vars(Next)

-----------------------------------------------------------------------------
\* Sets of tasks that hold what t depends on, and what each of their own does.
Closed(p, t) ==
    {S \in SUBSET Tasks(p) : DepSet(p, t) \subseteq S /\ \A u \in S : DepSet(p, u) \subseteq S}

\* A task on a cycle is reached from itself by its dependencies.
OnCycle(p, t) == \A S \in Closed(p, t) : t \in S

\* The tasks can be done in some order: any of them that are left hold one that
\* waits for no other of them.
Feasible(p) ==
    \A S \in (SUBSET Tasks(p)) \ {{}} : \E t \in S : DepSet(p, t) \intersect S = {}

\* The search never leaves its path: what it takes for a cycle is one, and it
\* reports acyclic only for a plan without one, whose tasks can be done in some
\* order.
VerdictRight ==
    /\ verdict.kind = "cycle"   => OnCycle(plan, verdict.task) /\ ~Feasible(plan)
    /\ verdict.kind = "acyclic" => Feasible(plan) /\ \A t \in Tasks(plan) : ~OnCycle(plan, t)

\* What is marked as on the path is exactly what is on the stack, each of its
\* nodes a dependency of the one below, and what is done has only done
\* dependencies, so none of it can be on a cycle.
PathIsStack ==
    verdict = Open =>
        /\ in_stack = {stack[i][1] : i \in DOMAIN stack}
        /\ \A i \in DOMAIN stack : i > 1 => stack[i][1] \in DepSet(plan, stack[i - 1][1])
        /\ \A t \in done : DepSet(plan, t) \subseteq done
        /\ in_stack \intersect done = {}

\* The search ends, on cyclic plans too.
Answered == verdict # Open

=============================================================================
