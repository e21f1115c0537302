----------------------------- MODULE Plan_proofs -----------------------------
(***************************************************************************)
(* What a plan is promised, for plans of any size: the verdict of its      *)
(* validation is right, and its runs, however many of them and however     *)
(* they end, try every node that is ready, once, after its dependencies.   *)
(***************************************************************************)
EXTENDS MCPlans, SequenceTheorems, WellFoundedInduction, TLAPS

\* A nonempty set of naturals has a least element.
LEMMA LeastExists ==
    ASSUME NEW S \in SUBSET Nat, S # {}
    PROVE  \E i \in S : \A j \in S : i <= j
<1>1. PICK x \in S : \A y \in S : ~(<<y, x>> \in OpToRel(<, Nat))
  BY WFMin, NatLessThanWellFounded, Zenon
<1>2. ASSUME NEW y \in S PROVE ~(y < x)
  <2>1. y \in Nat /\ x \in Nat
    OBVIOUS
  <2>2. y < x => <<y, x>> \in OpToRel(<, Nat)
    BY <2>1, Zenon DEF OpToRel
  <2> QED BY <2>2, <1>1, Zenon
<1>3. \A y \in S : x <= y
  BY <1>2
<1> QED BY <1>3

-----------------------------------------------------------------------------
(* The run of a plan. *)

Exits == {"none", "clean", "error", "killed"}

Commands == [pc : {"idle", "sweep", "node", "hand"}, pending : SUBSET NodeTasks,
             progressed : BOOLEAN, seen : SUBSET NodeTasks, won : SUBSET NodeTasks,
             exit : Exits]

RunTypes ==
    /\ deps \in [NodeTasks -> SUBSET NodeTasks] /\ rows \in SUBSET NodeTasks
    /\ fresh \in [NodeTasks -> {"none", "open"} \union Run!Settled]
    /\ satisfied \in SUBSET NodeTasks /\ changed \in SUBSET NodeTasks
    /\ cmd \in Commands /\ tries \in [NodeTasks -> Nat]

\* A task was tried once if it has its fresh attempt, and never if it has none.
Counted == \A t \in NodeTasks : tries[t] = IF fresh[t] = "none" THEN 0 ELSE 1

\* What is listed was ready when it was listed, and satisfied is for ever.
Listed ==
    /\ \A t \in cmd.pending : deps[t] \subseteq satisfied
    /\ cmd.seen \union cmd.won \subseteq satisfied
    /\ cmd.pc \in {"idle", "sweep"} => cmd.pending = {}
    /\ cmd.pc = "hand" => cmd.pending # {} /\ fresh[Run!Now] # "none"

\* A sweep without progress won nothing since its list was drawn up, and has
\* had everything of that list that is no longer on it.
Behind ==
    cmd.pc # "idle" /\ ~cmd.progressed =>
        /\ cmd.won \subseteq cmd.seen
        /\ \A t \in Run!Pending(cmd.seen) \ cmd.pending : fresh[t] # "none"

RunInv == RunTypes /\ Counted /\ Listed /\ Behind /\ Run!NothingReadyUntried

\* The node at work is on the list.
LEMMA NowListed ==
    ASSUME RunTypes, cmd.pending # {}
    PROVE  Run!Now \in cmd.pending
<1>1. cmd.pending \in SUBSET Nat
  BY Numbered DEF RunTypes, Commands
<1>2. \E t \in cmd.pending : \A u \in cmd.pending : t <= u
  BY <1>1, LeastExists
<1> QED BY <1>2 DEF Run!Now

LEMMA RunInit == Run!Init => RunInv
BY DEF Run!Init, RunInv, RunTypes, Counted, Listed, Behind, Run!NothingReadyUntried,
       Run!Idle, Commands, Exits


\* A record of type Commands is known by its fields.
LEMMA ReportFields ==
    ASSUME NEW c \in Commands, NEW t \in NodeTasks, NEW ok \in BOOLEAN
    PROVE  /\ Run!Reported(c, t, ok) \in Commands
           /\ Run!Reported(c, t, ok).pc = "node"
           /\ Run!Reported(c, t, ok).pending = c.pending \ {t}
           /\ Run!Reported(c, t, ok).progressed = (c.progressed \/ ok)
           /\ Run!Reported(c, t, ok).seen = c.seen
           /\ Run!Reported(c, t, ok).won = IF ok THEN c.won \union {t} ELSE c.won
           /\ Run!Reported(c, t, ok).exit = c.exit
BY DEF Commands, Run!Reported

LEMMA AbortFields ==
    ASSUME NEW c \in Commands
    PROVE  /\ Run!Aborted(c) \in Commands
           /\ Run!Aborted(c).pc = "idle"
           /\ Run!Aborted(c).pending = {}
           /\ Run!Aborted(c).seen = c.seen
           /\ Run!Aborted(c).won = c.won
           /\ Run!Aborted(c).exit = "error"
BY DEF Commands, Exits, Run!Aborted

LEMMA StartKeeps == RunInv /\ Run!Start => RunInv'
BY DEF RunInv, RunTypes, Counted, Listed, Behind, Run!NothingReadyUntried, Run!Start,
       Run!Idle, Run!world, Run!ledger, Commands, Exits, Run!Pending

LEMMA SweepKeeps == RunInv /\ Run!Sweep => RunInv'
<1> SUFFICES ASSUME RunInv, Run!Sweep PROVE RunInv'
  OBVIOUS
<1>0. /\ cmd \in Commands /\ cmd.pc = "sweep" /\ UNCHANGED <<deps, rows, changed, fresh, satisfied, tries>>
      /\ satisfied \in SUBSET NodeTasks
  BY DEF RunInv, RunTypes, Run!Sweep, Run!world, Run!ledger
<1>1. CASE cmd.progressed
  <2>1. /\ cmd'.pc = "node" /\ cmd'.progressed = FALSE /\ cmd'.seen = satisfied
        /\ cmd'.pending = Run!Pending(satisfied) /\ cmd'.won = cmd.won /\ cmd'.exit = cmd.exit
        /\ cmd' \in Commands
    BY <1>0, <1>1 DEF Run!Sweep, Commands, Run!Pending
  <2>2. (Run!Pending(cmd.seen) \ cmd.pending)' = {}
    BY <2>1, <1>0 DEF Run!Pending
  <2> QED BY <1>0, <2>1, <2>2 DEF RunInv, RunTypes, Counted, Listed, Behind,
                                  Run!NothingReadyUntried, Run!Pending
<1>2. CASE ~cmd.progressed
  <2>1. /\ cmd'.pc = "idle" /\ cmd'.pending = {} /\ cmd'.seen = cmd.seen
        /\ cmd'.won = cmd.won /\ cmd'.exit = "clean" /\ cmd' \in Commands
    BY <1>0, <1>2 DEF Run!Sweep, Commands, Exits, RunInv, Listed
  <2>2. cmd.won \subseteq cmd.seen /\ cmd.seen \subseteq satisfied
        /\ \A t \in Run!Pending(cmd.seen) : fresh[t] # "none"
    BY <1>0, <1>2 DEF RunInv, Behind, Listed
  <2>3. Run!NothingReadyUntried'
    BY <2>1, <2>2, <1>0 DEF Run!NothingReadyUntried, Run!Pending
  <2> QED BY <1>0, <2>1, <2>3 DEF RunInv, RunTypes, Counted, Listed, Behind
<1> QED BY <1>1, <1>2

LEMMA SweepEndsKeeps == RunInv /\ Run!SweepEnds => RunInv'
BY DEF RunInv, RunTypes, Counted, Listed, Behind, Run!NothingReadyUntried, Run!SweepEnds,
       Run!world, Run!ledger, Commands, Exits, Run!Pending

\* A report on the node at work, which has had its attempt.
LEMMA ReportKeeps ==
    ASSUME RunInv, NEW ok \in BOOLEAN, cmd.pc \in {"node", "hand"}, cmd.pending # {},
           RunTypes', Counted',
           UNCHANGED deps, satisfied \subseteq satisfied',
           \A t \in NodeTasks : fresh[t] # "none" => fresh'[t] # "none",
           fresh'[Run!Now] # "none", ok => Run!Now \in satisfied',
           cmd' = Run!Reported(cmd, Run!Now, ok)
    PROVE  RunInv'
<1>1. cmd \in Commands /\ Run!Now \in cmd.pending /\ Run!Now \in NodeTasks
  BY NowListed DEF RunInv, RunTypes, Commands
<1>0. /\ cmd'.pc = "node" /\ cmd'.pending = cmd.pending \ {Run!Now}
      /\ cmd'.progressed = (cmd.progressed \/ ok) /\ cmd'.seen = cmd.seen
      /\ cmd'.won = IF ok THEN cmd.won \union {Run!Now} ELSE cmd.won
  BY <1>1, ReportFields
<1>2. Listed'
  <2>1. cmd.pending \subseteq NodeTasks /\ \A t \in cmd.pending : deps[t] \subseteq satisfied
        /\ cmd.seen \union cmd.won \subseteq satisfied
    BY DEF RunInv, Listed, RunTypes, Commands
  <2> QED BY <1>0, <2>1 DEF Listed
<1>3. Behind'
  <2> SUFFICES ASSUME ~cmd'.progressed PROVE Behind'
    BY DEF Behind
  <2>1. ~cmd.progressed /\ ~ok
    BY <1>0
  <2>2. cmd'.won = cmd.won /\ cmd'.seen = cmd.seen /\ cmd'.pending = cmd.pending \ {Run!Now}
    BY <1>0, <2>1
  <2>3. Run!Pending(cmd.seen)' = Run!Pending(cmd.seen)
    BY <2>2 DEF Run!Pending
  <2>4. cmd.won \subseteq cmd.seen
        /\ \A t \in Run!Pending(cmd.seen) \ cmd.pending : fresh[t] # "none"
    BY <2>1 DEF RunInv, Behind
  <2>5. Run!Pending(cmd.seen) \subseteq NodeTasks
    BY DEF Run!Pending
  <2> QED BY <2>2, <2>3, <2>4, <2>5 DEF Behind
<1>4. Run!NothingReadyUntried'
  BY <1>0 DEF Run!NothingReadyUntried
<1> QED BY <1>2, <1>3, <1>4 DEF RunInv

\* The first error ends the command.
LEMMA AbortKeeps ==
    ASSUME RunInv, RunTypes', Counted', UNCHANGED <<deps, satisfied>>,
           cmd' = Run!Aborted(cmd)
    PROVE  RunInv'
<1>1. /\ cmd'.pc = "idle" /\ cmd'.pending = {} /\ cmd'.exit = "error"
      /\ cmd'.seen = cmd.seen /\ cmd'.won = cmd.won
  BY DEF RunInv, RunTypes, Commands, Run!Aborted
<1> QED BY <1>1 DEF RunInv, Listed, Behind, Run!NothingReadyUntried

LEMMA DeliverKeeps == RunInv /\ Run!Deliver => RunInv'
<1> SUFFICES ASSUME RunInv, Run!Deliver PROVE RunInv'
  OBVIOUS
<1>0. /\ RunTypes /\ Counted /\ cmd.pc = "node" /\ cmd.pending # {}
      /\ Run!Now \in cmd.pending /\ Run!Now \in NodeTasks /\ cmd \in Commands
      /\ UNCHANGED <<deps, rows, changed, satisfied>>
  BY NowListed DEF RunInv, RunTypes, Commands, Run!Deliver, Run!world
<1>1. CASE /\ cmd' = Run!Aborted(cmd) /\ UNCHANGED <<fresh, tries>>
  <2>1. cmd' \in Commands
    BY <1>0, <1>1, AbortFields
  <2>2. RunTypes' /\ Counted'
    BY <1>0, <1>1, <2>1 DEF RunTypes, Counted
  <2> QED BY <1>0, <1>1, <2>2, AbortKeeps
<1>2. CASE /\ fresh[Run!Now] # "none" /\ UNCHANGED <<fresh, tries>>
           /\ cmd' = Run!Reported(cmd, Run!Now, Run!Now \in satisfied)
  <2>1. (Run!Now \in satisfied) \in BOOLEAN
    OBVIOUS
  <2>2. cmd' \in Commands
    BY <1>0, <1>2, <2>1, ReportFields
  <2>3. RunTypes' /\ Counted'
    BY <1>0, <1>2, <2>2 DEF RunTypes, Counted
  <2> QED BY <1>0, <1>2, <2>1, <2>3, ReportKeeps
<1>3. CASE /\ fresh[Run!Now] = "none"
           /\ fresh' = [fresh EXCEPT ![Run!Now] = "open"]
           /\ tries' = [tries EXCEPT ![Run!Now] = @ + 1]
           /\ cmd' = [cmd EXCEPT !.pc = "hand"]
  <2>1. /\ cmd'.pc = "hand" /\ cmd'.pending = cmd.pending /\ cmd'.seen = cmd.seen
        /\ cmd'.won = cmd.won /\ cmd'.progressed = cmd.progressed /\ cmd' \in Commands
    BY <1>0, <1>3 DEF Commands
  <2>2. Run!Now' = Run!Now
    BY <2>1 DEF Run!Now
  <2>3. RunTypes' /\ Counted'
    BY <1>0, <1>3, <2>1 DEF RunTypes, Counted
  <2>4. Run!Pending(cmd.seen)' = Run!Pending(cmd.seen) /\ Run!Pending(cmd.seen) \subseteq NodeTasks
    BY <1>0, <2>1 DEF Run!Pending
  <2>5. \A t \in NodeTasks : fresh[t] # "none" => fresh'[t] # "none"
    BY <1>0, <1>3 DEF RunTypes
  <2>6. Listed'
    BY <1>0, <1>3, <2>1, <2>2 DEF RunInv, Listed, RunTypes
  <2>7. Behind'
    BY <1>0, <2>1, <2>4, <2>5 DEF RunInv, Behind
  <2> QED BY <2>1, <2>3, <2>6, <2>7 DEF RunInv, Run!NothingReadyUntried
<1> QED BY <1>1, <1>2, <1>3 DEF Run!Deliver

LEMMA ExecuteKeeps == RunInv /\ Run!Execute => RunInv'
<1> SUFFICES ASSUME RunInv, Run!Execute PROVE RunInv'
  OBVIOUS
<1>0. /\ RunTypes /\ Counted /\ cmd.pc = "hand" /\ cmd.pending # {}
      /\ Run!Now \in cmd.pending /\ Run!Now \in NodeTasks /\ cmd \in Commands
      /\ fresh[Run!Now] # "none"
      /\ UNCHANGED <<deps, rows, changed, tries>>
  BY NowListed DEF RunInv, RunTypes, Listed, Commands, Run!Execute, Run!world
<1>1. ASSUME NEW end \in Run!Settled, fresh' = [fresh EXCEPT ![Run!Now] = end],
             satisfied' = IF end = "succeeded" THEN satisfied \union {Run!Now} ELSE satisfied,
             cmd' = Run!Reported(cmd, Run!Now, Run!Now \in satisfied')
      PROVE  RunInv'
  <2>0. (Run!Now \in satisfied') \in BOOLEAN
    OBVIOUS
  <2>4. cmd' \in Commands
    BY <1>0, <1>1, <2>0, ReportFields
  <2>1. RunTypes' /\ Counted' /\ satisfied \subseteq satisfied'
    BY <1>0, <1>1, <2>4 DEF RunTypes, Counted, Run!Settled
  <2>2. \A t \in NodeTasks : fresh[t] # "none" => fresh'[t] # "none"
    BY <1>0, <1>1 DEF RunTypes, Run!Settled
  <2>3. fresh'[Run!Now] # "none"
    BY <1>0, <1>1 DEF RunTypes, Run!Settled
  <2> QED BY <1>0, <1>1, <2>0, <2>1, <2>2, <2>3, ReportKeeps
<1>2. ASSUME fresh' = [fresh EXCEPT ![Run!Now] = "lost"], cmd' = Run!Aborted(cmd),
             UNCHANGED satisfied
      PROVE  RunInv'
  <2>1. cmd' \in Commands
    BY <1>0, <1>2, AbortFields
  <2>2. RunTypes' /\ Counted'
    BY <1>0, <1>2, <2>1 DEF RunTypes, Counted, Run!Settled
  <2> QED BY <1>0, <1>2, <2>2, AbortKeeps
<1> QED BY <1>1, <1>2 DEF Run!Execute

\* What happens around the command: tasks become satisfied, have rows and
\* change; no attempt is made or taken back.
LEMMA AroundKeeps ==
    ASSUME RunInv, NEW t \in NodeTasks, Run!Repair(t) \/ Run!AddRow(t) \/ Run!ChangeInputs(t)
    PROVE  RunInv'
<1>1. /\ UNCHANGED <<deps, fresh, cmd, tries>> /\ satisfied \subseteq satisfied' /\ RunTypes'
  BY DEF RunInv, RunTypes, Run!Repair, Run!AddRow, Run!ChangeInputs, Run!world, Run!ledger
<1>2. Run!Now' = Run!Now /\ Run!Pending(cmd.seen)' = Run!Pending(cmd.seen)
  BY <1>1 DEF Run!Now, Run!Pending
<1>3. Counted' /\ Listed' /\ Behind'
  BY <1>1, <1>2 DEF RunInv, Counted, Listed, Behind
<1>4. Run!NothingReadyUntried'
  BY <1>1 DEF RunInv, Run!NothingReadyUntried
<1> QED BY <1>1, <1>3, <1>4 DEF RunInv

LEMMA KillKeeps == RunInv /\ Run!Kill => RunInv'
<1> SUFFICES ASSUME RunInv, Run!Kill PROVE RunInv'
  OBVIOUS
<1>1. /\ cmd'.pc = "idle" /\ cmd'.pending = {} /\ cmd'.exit = "killed"
      /\ cmd'.seen = {} /\ cmd'.won = {} /\ cmd' \in Commands
      /\ UNCHANGED <<deps, rows, changed, fresh, satisfied, tries>>
  BY DEF Run!Kill, Run!Idle, Run!world, Run!ledger, Commands, Exits
<1>2. RunTypes' /\ Counted' /\ Listed'
  BY <1>1 DEF RunInv, RunTypes, Counted, Listed
<1> QED BY <1>1, <1>2 DEF RunInv, Behind, Run!NothingReadyUntried

LEMMA RunKept == RunInv /\ [Run!Next]_run => RunInv'
<1>1. ASSUME RunInv, UNCHANGED run PROVE RunInv'
  BY <1>1 DEF RunInv, RunTypes, Counted, Listed, Behind, Run!NothingReadyUntried, run,
              Run!Now, Run!Pending
<1> QED BY <1>1, StartKeeps, SweepKeeps, SweepEndsKeeps, DeliverKeeps, ExecuteKeeps, KillKeeps,
           AroundKeeps DEF Run!Next, Run!Work

-----------------------------------------------------------------------------
(* The validation of a plan. *)

\* What the two passes before the search leave: dependencies are nodes.
WellFormed ==
    /\ plan \in Graph!BoundedSeq(Graph!Nodes, MaxNodes)
    /\ Graph!Dangling(plan) = {}

\* The path: nodes, each once, each a dependency of the one below it, with the
\* index of the next dependency to look at.
Path ==
    /\ stack \in Seq(Graph!Tasks(plan) \X (Nat \ {0}))
    /\ in_stack = {stack[i][1] : i \in DOMAIN stack}
    /\ \A i, j \in DOMAIN stack : stack[i][1] = stack[j][1] => i = j
    /\ \A i \in DOMAIN stack : i > 1 => stack[i][1] \in Graph!DepSet(plan, stack[i - 1][1])

\* The dependencies a node was asked for are done, but for the one that is the
\* next node of the path.
Asked ==
    \A i \in DOMAIN stack :
        \A k \in 1..(stack[i][2] - 1) :
            k \in DOMAIN Graph!Deps(plan, stack[i][1]) =>
                \/ Graph!Deps(plan, stack[i][1])[k] \in done
                \/ /\ i + 1 \in DOMAIN stack
                   /\ Graph!Deps(plan, stack[i][1])[k] = stack[i + 1][1]

\* What is done is closed under dependencies, off the path, on no cycle, and
\* can be done in some order.
Cleared(D) ==
    /\ D \subseteq Graph!Tasks(plan)
    /\ \A t \in D : Graph!DepSet(plan, t) \subseteq D
    /\ \A t \in D : ~Graph!OnCycle(plan, t)
    /\ \A S \in (SUBSET D) \ {{}} : \E t \in S : Graph!DepSet(plan, t) \intersect S = {}

Searching == Path /\ Asked /\ Cleared(done) /\ in_stack \intersect done = {}

GraphInv ==
    \/ verdict.kind \in {"duplicate", "unknown_dependency"}
    \/ WellFormed /\ verdict = Graph!Open /\ Searching
    \/ verdict # Graph!Open /\ verdict.kind \in {"cycle", "acyclic"} /\ Graph!VerdictRight

\* The dependencies of a node are nodes.
LEMMA DepsAreNodes ==
    ASSUME WellFormed, NEW t \in Graph!Tasks(plan)
    PROVE  /\ Graph!Deps(plan, t) \in Seq(Graph!Tasks(plan))
           /\ Graph!DepSet(plan, t) \subseteq Graph!Tasks(plan)
<1>1. PICK n \in 0..MaxNodes : plan \in [1..n -> Graph!Nodes]
  BY DEF WellFormed, Graph!BoundedSeq
<1>2. PICK i \in DOMAIN plan : Graph!Deps(plan, t) = plan[i].deps
  <2>1. \E i \in DOMAIN plan : plan[i].task = t
    BY DEF Graph!Tasks
  <2> QED BY <2>1 DEF Graph!Deps
<1>3. plan[i] \in Graph!Nodes
  BY <1>1
<1>4. PICK k \in 0..MaxDeps : plan[i].deps \in [1..k -> Names]
  BY <1>3 DEF Graph!Nodes, Graph!BoundedSeq
<1>5. ASSUME NEW j \in 1..k PROVE plan[i].deps[j] \in Graph!Tasks(plan)
  <2>1. <<i, j>> \in (DOMAIN plan) \X (1..MaxDeps)
    BY <1>4, <1>5, Numbered
  <2>2. <<i, j>>[1] = i /\ <<i, j>>[2] = j
    OBVIOUS
  <2>3. j \in DOMAIN plan[i].deps
    BY <1>4
  <2> QED BY <2>1, <2>2, <2>3 DEF WellFormed, Graph!Dangling
<1>6. plan[i].deps \in [1..k -> Graph!Tasks(plan)] /\ k \in Nat
  BY <1>4, <1>5, Numbered
<1>7. Graph!Deps(plan, t) \in Seq(Graph!Tasks(plan))
  BY <1>2, <1>6
<1>8. \A j \in DOMAIN Graph!Deps(plan, t) : Graph!Deps(plan, t)[j] \in Graph!Tasks(plan)
  BY <1>2, <1>6
<1> QED BY <1>7, <1>8 DEF Graph!DepSet

LEMMA NodesAreNumbers == WellFormed => Graph!Tasks(plan) \in SUBSET Nat
<1> SUFFICES ASSUME WellFormed PROVE Graph!Tasks(plan) \in SUBSET Nat
  OBVIOUS
<1>1. PICK n \in 0..MaxNodes : plan \in [1..n -> Graph!Nodes]
  BY DEF WellFormed, Graph!BoundedSeq
<1> QED BY <1>1, Numbered DEF Graph!Tasks, Graph!Nodes

\* Closing the path on one of its nodes is a cycle.
LEMMA PathCloses ==
    ASSUME WellFormed, Path, stack # <<>>, NEW k \in DOMAIN stack,
           stack[k][1] \in Graph!DepSet(plan, stack[Len(stack)][1])
    PROVE  Graph!OnCycle(plan, stack[k][1]) /\ ~Graph!Feasible(plan)
<1> DEFINE n == Len(stack)
           N(i) == stack[i][1]
<1>1. n \in Nat /\ DOMAIN stack = 1..n /\ k \in 1..n /\ \A i \in 1..n : N(i) \in Graph!Tasks(plan)
  BY DEF Path
<1>2. \A i \in 2..n : N(i) \in Graph!DepSet(plan, N(i - 1))
  <2> TAKE i \in 2..n
  <2>1. i \in DOMAIN stack /\ i > 1
    BY <1>1
  <2> QED BY <2>1 DEF Path
<1>3. N(k) \in Graph!DepSet(plan, N(n))
  OBVIOUS
<1> HIDE DEF n, N
<1>4. ASSUME NEW S \in Graph!Closed(plan, N(k)), N(k) \notin S PROVE FALSE
  <2>1. /\ \A t \in Graph!DepSet(plan, N(k)) : t \in S
        /\ \A u \in S : Graph!DepSet(plan, u) \subseteq S
    BY DEF Graph!Closed
  <2> DEFINE T == {i \in (k + 1)..n : N(i) \notin S}
  <2>2. CASE T = {}
    <3>1. n = k \/ N(n) \in S
      BY <1>1, <2>2
    <3> QED BY <3>1, <1>3, <1>4, <2>1
  <2>3. CASE T # {}
    <3>1. T \in SUBSET Nat
      BY <1>1
    <3>2. PICK i \in T : \A j \in T : i <= j
      <4> HIDE DEF T
      <4> QED BY <3>1, <2>3, LeastExists
    <3>3. i \in 2..n /\ i \in (k + 1)..n /\ N(i) \notin S
      BY <1>1, <3>2
    <3>4. i - 1 = k \/ N(i - 1) \in S
      BY <1>1, <3>2, <3>3
    <3> QED BY <1>2, <2>1, <3>3, <3>4
  <2> QED BY <2>2, <2>3
<1>5. ~Graph!Feasible(plan)
  <2> DEFINE S == {N(i) : i \in k..n}
  <2>1. S \in (SUBSET Graph!Tasks(plan)) \ {{}}
    BY <1>1
  <2>2. ASSUME NEW i \in k..n PROVE Graph!DepSet(plan, N(i)) \intersect S # {}
    <3>1. CASE i = n
      <4>1. N(k) \in S
        BY <1>1
      <4> QED BY <4>1, <3>1, <1>3
    <3>2. CASE i < n
      <4>1. i + 1 \in 2..n /\ (i + 1) - 1 = i /\ i + 1 \in k..n
        BY <1>1, <3>2
      <4>2. N(i + 1) \in Graph!DepSet(plan, N(i)) /\ N(i + 1) \in S
        BY <4>1, <1>2
      <4> QED BY <4>2
    <3> QED BY <1>1, <3>1, <3>2
  <2>3. \A t \in S : Graph!DepSet(plan, t) \intersect S # {}
    BY <2>2
  <2> QED BY <2>1, <2>3 DEF Graph!Feasible
<1> QED BY <1>4, <1>5 DEF Graph!OnCycle, N

\* A node all of whose dependencies are done can be added to what is done.
LEMMA ClearedGrows ==
    ASSUME NEW D, Cleared(D), NEW t \in Graph!Tasks(plan), t \notin D,
           Graph!DepSet(plan, t) \subseteq D
    PROVE  Cleared(D \union {t})
<1>1. ~Graph!OnCycle(plan, t)
  <2>1. D \in Graph!Closed(plan, t)
    BY DEF Cleared, Graph!Closed
  <2> QED BY <2>1 DEF Graph!OnCycle
<1>2. ASSUME NEW S \in (SUBSET (D \union {t})) \ {{}}
      PROVE  \E u \in S : Graph!DepSet(plan, u) \intersect S = {}
  <2>1. CASE S \intersect D = {}
    <3>1. S = {t}
      BY <2>1
    <3> QED BY <3>1
  <2>2. CASE S \intersect D # {}
    <3>1. PICK u \in S \intersect D : Graph!DepSet(plan, u) \intersect (S \intersect D) = {}
      BY <2>2 DEF Cleared
    <3>2. Graph!DepSet(plan, u) \subseteq D
      BY DEF Cleared
    <3> QED BY <3>1, <3>2
  <2> QED BY <2>1, <2>2
<1> QED BY <1>1, <1>2 DEF Cleared

LEMMA Pushed ==
    ASSUME NEW T, NEW s \in Seq(T), NEW e \in T
    PROVE  /\ Append(s, e) \in Seq(T)
           /\ DOMAIN Append(s, e) = 1..(Len(s) + 1) /\ Len(Append(s, e)) = Len(s) + 1
           /\ \A i \in 1..Len(s) : Append(s, e)[i] = s[i]
           /\ Append(s, e)[Len(s) + 1] = e
OBVIOUS

LEMMA Popped ==
    ASSUME NEW T, NEW s \in Seq(T), s # <<>>
    PROVE  /\ SubSeq(s, 1, Len(s) - 1) \in Seq(T)
           /\ DOMAIN SubSeq(s, 1, Len(s) - 1) = 1..(Len(s) - 1)
           /\ Len(SubSeq(s, 1, Len(s) - 1)) = Len(s) - 1
           /\ \A i \in 1..(Len(s) - 1) : SubSeq(s, 1, Len(s) - 1)[i] = s[i]
           /\ Len(s) \in Nat \ {0}
<1>1. Len(s) \in Nat \ {0} /\ \A i \in 1..(Len(s) - 1) : s[i] \in T
  OBVIOUS
<1> DEFINE m == Len(s) - 1
           r == SubSeq(s, 1, m)
<1>2. m \in Nat /\ m \in Int /\ 1 \in Int /\ m - 1 + 1 = m /\ (1 <= m \/ m = 0)
  <2> DEFINE l == Len(s)
  <2>1. l \in Nat \ {0}
    BY <1>1
  <2> HIDE DEF l
  <2>2. l - 1 \in Nat /\ (l - 1) - 1 + 1 = l - 1 /\ (1 <= l - 1 \/ l - 1 = 0)
    BY <2>1
  <2> QED BY <2>2 DEF l
<1>3. \A i \in 1..m : s[i] \in T
  BY <1>1
<1>4. /\ r \in Seq(T) /\ Len(r) = IF 1 <= m THEN m - 1 + 1 ELSE 0
      /\ \A i \in 1..(m - 1 + 1) : r[i] = s[1 + i - 1]
  <2> HIDE DEF m
  <2> QED BY <1>2, <1>3, SubSeqProperties
<1>5. Len(r) = m /\ \A i \in 1..m : r[i] = s[i]
  <2> HIDE DEF m, r
  <2> QED BY <1>2, <1>4
<1>6. DOMAIN r = 1..Len(r)
  <2> HIDE DEF r
  <2> QED BY <1>4, LenProperties
<1> QED BY <1>1, <1>4, <1>5, <1>6

LEMMA GraphInit == Graph!Init => GraphInv
<1> SUFFICES ASSUME Graph!Init, verdict.kind \notin {"duplicate", "unknown_dependency"}
             PROVE  WellFormed /\ verdict = Graph!Open /\ Searching
  BY DEF GraphInv
<1>1. WellFormed /\ verdict = Graph!Open
  BY DEF Graph!Init, Graph!Declared, WellFormed
<1>2. stack = <<>> /\ in_stack = {} /\ done = {}
  BY DEF Graph!Init
<1>3. Path /\ Asked
  BY <1>2 DEF Path, Asked
<1>4. Cleared(done)
  BY <1>2 DEF Cleared
<1> QED BY <1>1, <1>2, <1>3, <1>4 DEF Searching

\* Path and Asked after the search began a node: on an empty stack, or on the
\* dependency the top node asked for.
LEMMA BeginKeeps == GraphInv /\ Graph!Start => GraphInv'
<1> SUFFICES ASSUME GraphInv, Graph!Start PROVE GraphInv'
  OBVIOUS
<1>0. /\ WellFormed /\ verdict = Graph!Open /\ Searching /\ stack = <<>> /\ UNCHANGED <<plan, done>>
  BY DEF GraphInv, Graph!Start, Graph!Open
<1> DEFINE left == Graph!Tasks(plan) \ done
<1>1. CASE left = {}
  <2>1. verdict' = [kind |-> "acyclic", task |-> Graph!NoTask]
    BY <1>1 DEF Graph!Start, Graph!Open
  <2>2. done = Graph!Tasks(plan) /\ Cleared(done)
    BY <1>0, <1>1 DEF Searching, Cleared
  <2>3. Graph!Feasible(plan) /\ \A t \in Graph!Tasks(plan) : ~Graph!OnCycle(plan, t)
    BY <2>2 DEF Cleared, Graph!Feasible
  <2> QED BY <1>0, <2>1, <2>3 DEF GraphInv, Graph!VerdictRight, Graph!Open
<1>2. CASE left # {}
  <2> DEFINE t == Graph!First(left)
  <2>1. t \in left
    <3>1. left \in SUBSET Nat
      BY <1>0, NodesAreNumbers
    <3>2. \E i \in left : \A k \in left : i <= k
      <4> HIDE DEF left
      <4> QED BY <1>2, <3>1, LeastExists
    <3> QED BY <3>2 DEF Graph!First
  <2>2. stack' = <<<<t, 1>>>> /\ in_stack' = in_stack \union {t} /\ UNCHANGED verdict
    BY <1>2 DEF Graph!Start
  <2> HIDE DEF t
  <2>3. in_stack = {}
    BY <1>0 DEF Searching, Path
  <2>4. Path' /\ Asked'
    BY <1>0, <2>1, <2>2, <2>3 DEF Path, Asked
  <2>5. Cleared(done)' /\ (in_stack \intersect done)' = {} /\ WellFormed'
    BY <1>0, <2>1, <2>2, <2>3 DEF Searching, Cleared, WellFormed
  <2> QED BY <1>0, <2>2, <2>4, <2>5 DEF GraphInv, Searching
<1> QED BY <1>1, <1>2

LEMMA FinishKeeps == GraphInv /\ Graph!Finish => GraphInv'
<1> SUFFICES ASSUME GraphInv, Graph!Finish PROVE GraphInv'
  OBVIOUS
<1> DEFINE n == Len(stack)
           t == stack[n][1]
           T == Graph!Tasks(plan) \X (Nat \ {0})
<1>0. /\ WellFormed /\ verdict = Graph!Open /\ Searching /\ stack # <<>> /\ UNCHANGED <<plan, verdict>>
      /\ stack[n][2] > Len(Graph!Deps(plan, t))
      /\ stack' = SubSeq(stack, 1, n - 1) /\ in_stack' = in_stack \ {t} /\ done' = done \union {t}
  BY DEF GraphInv, Graph!Finish, Graph!Open, Graph!Top, Graph!Rest
<1>1. /\ stack \in Seq(T) /\ n \in Nat \ {0} /\ DOMAIN stack = 1..n /\ stack[n] \in T
      /\ stack' \in Seq(T) /\ DOMAIN stack' = 1..(n - 1) /\ \A i \in 1..(n - 1) : stack'[i] = stack[i]
  <2>1. stack \in Seq(T)
    BY <1>0 DEF Searching, Path
  <2> HIDE DEF T
  <2>2. n \in Nat \ {0} /\ DOMAIN stack = 1..n /\ stack[n] \in T
    BY <2>1, <1>0
  <2> QED BY <2>1, <2>2, <1>0, Popped
<1>2. t \in Graph!Tasks(plan) /\ t \in in_stack /\ t \notin done
  <2>1. n \in DOMAIN stack /\ t \in Graph!Tasks(plan)
    BY <1>1
  <2>2. in_stack = {stack[i][1] : i \in DOMAIN stack} /\ in_stack \intersect done = {}
    BY <1>0 DEF Searching, Path
  <2> QED BY <2>1, <2>2
<1>3. Graph!DepSet(plan, t) \subseteq done
  <2>1. Graph!Deps(plan, t) \in Seq(Graph!Tasks(plan))
    BY <1>0, <1>2, DepsAreNodes
  <2>2. ASSUME NEW k \in DOMAIN Graph!Deps(plan, t) PROVE Graph!Deps(plan, t)[k] \in done
    <3>1. k \in 1..(stack[n][2] - 1)
      BY <1>0, <1>1, <2>1
    <3>2. n \in DOMAIN stack /\ n + 1 \notin DOMAIN stack
      BY <1>1
    <3> QED BY <1>0, <3>1, <3>2 DEF Searching, Asked
  <2> QED BY <2>2 DEF Graph!DepSet
<1> HIDE DEF n, t, T
<1>4. Cleared(done)'
  <2>1. Cleared(done \union {t})
    BY <1>0, <1>2, <1>3, ClearedGrows DEF Searching
  <2> QED BY <2>1, <1>0 DEF Cleared
<1>5. Path'
  <2>1. (stack \in Seq(Graph!Tasks(plan) \X (Nat \ {0})))'
    BY <1>0, <1>1 DEF T
  <2>2. in_stack' = {stack'[i][1] : i \in DOMAIN stack'}
    <3>1. in_stack = {stack[i][1] : i \in 1..n}
      BY <1>0, <1>1 DEF Searching, Path
    <3>2. ASSUME NEW i \in 1..(n - 1) PROVE stack[i][1] # t
      <4>1. i \in DOMAIN stack /\ n \in DOMAIN stack /\ i # n
        BY <1>1
      <4> QED BY <1>0, <4>1 DEF Searching, Path, t
    <3>3. in_stack \ {t} = {stack[i][1] : i \in 1..(n - 1)}
      <4>1. \A i \in 1..n : i \in 1..(n - 1) \/ i = n
        BY <1>1
      <4>2. 1..(n - 1) \subseteq 1..n
        BY <1>1
      <4>3. ASSUME NEW x \in in_stack \ {t} PROVE x \in {stack[i][1] : i \in 1..(n - 1)}
        <5>1. PICK i \in 1..n : x = stack[i][1]
          BY <3>1
        <5>2. i # n
          BY <4>3, <5>1 DEF t
        <5> QED BY <4>1, <5>1, <5>2
      <4>4. ASSUME NEW i \in 1..(n - 1) PROVE stack[i][1] \in in_stack \ {t}
        BY <3>1, <3>2, <4>2
      <4> QED BY <4>3, <4>4
    <3>4. DOMAIN stack' = 1..(n - 1) /\ in_stack' = in_stack \ {t}
          /\ \A i \in 1..(n - 1) : stack'[i] = stack[i]
      BY <1>0, <1>1
    <3> QED BY <3>3, <3>4
  <2>3. \A i, j \in DOMAIN stack' : stack'[i][1] = stack'[j][1] => i = j
    BY <1>0, <1>1 DEF Searching, Path
  <2>4. \A i \in DOMAIN stack' : i > 1 => stack'[i][1] \in Graph!DepSet(plan, stack'[i - 1][1])
    <3> TAKE i \in DOMAIN stack'
    <3> HAVE i > 1
    <3>1. i \in 1..(n - 1) /\ i - 1 \in 1..(n - 1) /\ i \in DOMAIN stack
      BY <1>1
    <3> QED BY <1>0, <1>1, <3>1 DEF Searching, Path
  <2> QED BY <1>0, <2>1, <2>2, <2>3, <2>4 DEF Path
<1>6. Asked'
  <2> SUFFICES ASSUME NEW i \in 1..(n - 1), NEW k \in 1..(stack[i][2] - 1),
                      k \in DOMAIN Graph!Deps(plan, stack[i][1])
               PROVE  \/ Graph!Deps(plan, stack[i][1])[k] \in done'
                      \/ /\ i + 1 \in 1..(n - 1)
                         /\ Graph!Deps(plan, stack[i][1])[k] = stack'[i + 1][1]
    BY <1>0, <1>1 DEF Asked
  <2>1. \/ Graph!Deps(plan, stack[i][1])[k] \in done
        \/ /\ i + 1 \in 1..n
           /\ Graph!Deps(plan, stack[i][1])[k] = stack[i + 1][1]
    <3>1. i \in DOMAIN stack
      BY <1>1
    <3> QED BY <1>0, <1>1, <3>1 DEF Searching, Asked
  <2>2. CASE i + 1 = n
    BY <1>0, <2>1, <2>2 DEF t
  <2>3. CASE i + 1 # n
    BY <1>0, <1>1, <2>1, <2>3
  <2> QED BY <2>2, <2>3
<1>7. (in_stack \intersect done)' = {} /\ WellFormed'
  BY <1>0 DEF Searching, WellFormed
<1> QED BY <1>0, <1>4, <1>5, <1>6, <1>7 DEF GraphInv, Searching

LEMMA DescendKeeps == GraphInv /\ Graph!Descend => GraphInv'
<1> SUFFICES ASSUME GraphInv, Graph!Descend PROVE GraphInv'
  OBVIOUS
<1> DEFINE n == Len(stack)
           t == stack[n][1]
           k == stack[n][2]
           next == Graph!Deps(plan, t)[k]
           again == Append(SubSeq(stack, 1, n - 1), <<t, k + 1>>)
           T == Graph!Tasks(plan) \X (Nat \ {0})
<1>0. /\ WellFormed /\ verdict = Graph!Open /\ Searching /\ stack # <<>> /\ UNCHANGED <<plan, done>>
      /\ k <= Len(Graph!Deps(plan, t))
      /\ IF next \in in_stack
         THEN verdict' = [kind |-> "cycle", task |-> next] /\ UNCHANGED <<stack, in_stack>>
         ELSE /\ in_stack' = IF next \in done THEN in_stack ELSE in_stack \union {next}
              /\ stack' = IF next \in done THEN again ELSE Append(again, <<next, 1>>)
              /\ UNCHANGED verdict
  BY DEF GraphInv, Graph!Descend, Graph!Open, Graph!Top, Graph!Rest
<1>1. stack \in Seq(T) /\ n \in Nat \ {0} /\ DOMAIN stack = 1..n /\ stack[n] \in T
  <2>1. stack \in Seq(T)
    BY <1>0 DEF Searching, Path
  <2> HIDE DEF T
  <2> QED BY <2>1, <1>0
<1>2. t \in Graph!Tasks(plan) /\ k \in Nat \ {0} /\ n \in DOMAIN stack
  BY <1>1
<1>3. k \in DOMAIN Graph!Deps(plan, t) /\ next \in Graph!DepSet(plan, t) /\ next \in Graph!Tasks(plan)
  <2>1. Graph!Deps(plan, t) \in Seq(Graph!Tasks(plan))
    BY <1>0, <1>2, DepsAreNodes
  <2>2. k \in DOMAIN Graph!Deps(plan, t)
    BY <1>0, <1>2, <2>1
  <2> QED BY <2>1, <2>2 DEF Graph!DepSet
<1>4. CASE next \in in_stack
  <2>1. PICK j \in DOMAIN stack : next = stack[j][1]
    BY <1>0, <1>4 DEF Searching, Path
  <2>2. Graph!OnCycle(plan, next) /\ ~Graph!Feasible(plan)
    BY <1>0, <1>3, <2>1, PathCloses DEF Searching
  <2>3. verdict' = [kind |-> "cycle", task |-> next] /\ plan' = plan
    BY <1>0, <1>4
  <2> HIDE DEF next
  <2> QED BY <2>2, <2>3 DEF GraphInv, Graph!VerdictRight, Graph!Open
<1>5. CASE next \notin in_stack
  <2>1. /\ again \in Seq(T) /\ Len(again) = n
        /\ \A i \in 1..(n - 1) : again[i] = stack[i]
        /\ again[n] = <<t, k + 1>>
    <3> DEFINE rest == SubSeq(stack, 1, n - 1)
               e == <<t, k + 1>>
    <3>1. e \in T
      BY <1>2
    <3>2. rest \in Seq(T) /\ Len(rest) = n - 1 /\ \A i \in 1..(n - 1) : rest[i] = stack[i]
      <4> HIDE DEF T
      <4> QED BY <1>0, <1>1, Popped
    <3> HIDE DEF T, rest, e
    <3>3. /\ Append(rest, e) \in Seq(T) /\ Len(Append(rest, e)) = n - 1 + 1
          /\ \A i \in 1..(n - 1) : Append(rest, e)[i] = rest[i]
          /\ Append(rest, e)[n - 1 + 1] = e
      BY <3>1, <3>2, Pushed
    <3>4. n - 1 + 1 = n
      BY <1>1
    <3> QED BY <3>2, <3>3, <3>4 DEF rest, e
  <2>2. /\ stack' \in Seq(T) /\ UNCHANGED verdict
        /\ \A i \in 1..n : stack'[i][1] = stack[i][1]
        /\ \A i \in 1..(n - 1) : stack'[i][2] = stack[i][2]
        /\ stack'[n][2] = k + 1
        /\ IF next \in done
           THEN DOMAIN stack' = 1..n /\ in_stack' = in_stack
           ELSE /\ DOMAIN stack' = 1..(n + 1) /\ in_stack' = in_stack \union {next}
                /\ stack'[n + 1] = <<next, 1>>
    <3> HIDE DEF again
    <3>0. \A i \in 1..n : i = n \/ i \in 1..(n - 1)
      <4>1. n \in Nat
        BY <1>1
      <4> HIDE DEF n
      <4> QED BY <4>1
    <3>1. ASSUME NEW i \in 1..n PROVE again[i][1] = stack[i][1]
      <4>1. CASE i = n
        <5>1. again[n][1] = t
          BY <2>1
        <5> QED BY <4>1, <5>1
      <4>2. CASE i \in 1..(n - 1)
        BY <2>1, <4>2
      <4> QED BY <3>0, <4>1, <4>2
    <3>2. \A i \in 1..(n - 1) : again[i][2] = stack[i][2]
      BY <2>1
    <3>3. again[n][2] = k + 1
      BY <2>1
    <3>4. CASE next \in done
      <4>1. stack' = again /\ DOMAIN again = 1..n
        <5> HIDE DEF T
        <5> QED BY <1>0, <1>5, <2>1, <3>4
      <4> QED BY <1>0, <1>5, <2>1, <3>1, <3>2, <3>3, <3>4, <4>1
    <3>5. CASE next \notin done
      <4> DEFINE e == <<next, 1>>
      <4>1. e \in T
        BY <1>3
      <4> HIDE DEF T, e
      <4>2. /\ Append(again, e) \in Seq(T) /\ DOMAIN Append(again, e) = 1..(n + 1)
            /\ \A i \in 1..n : Append(again, e)[i] = again[i]
            /\ Append(again, e)[n + 1] = e
        BY <2>1, <4>1, Pushed
      <4>3. stack' = Append(again, e) /\ UNCHANGED verdict /\ in_stack' = in_stack \union {next}
        BY <1>0, <1>5, <3>5 DEF e
      <4>4. n \in 1..n /\ 1..(n - 1) \subseteq 1..n
        BY <1>1
      <4>5. stack'[n + 1] = <<next, 1>>
        BY <4>2, <4>3 DEF e
      <4>6. \A i \in 1..n : stack'[i] = again[i]
        BY <4>2, <4>3
      <4>7. stack'[n][2] = k + 1 /\ \A i \in 1..(n - 1) : stack'[i][2] = stack[i][2]
        BY <3>2, <3>3, <4>4, <4>6
      <4> QED BY <3>1, <3>5, <4>2, <4>3, <4>5, <4>6, <4>7
    <3> QED BY <3>4, <3>5
  <2> HIDE DEF n, t, k, next, again, T
  <2>0. n \in Nat \ {0} /\ DOMAIN stack = 1..n
    BY <1>1
  <2>6. 1..n \subseteq DOMAIN stack'
        /\ (next \notin done => n + 1 \in DOMAIN stack')
        /\ \A i \in DOMAIN stack' : i \in 1..n \/ (i = n + 1 /\ next \notin done)
    <3>1. DOMAIN stack' = IF next \in done THEN 1..n ELSE 1..(n + 1)
      BY <2>2
    <3> QED BY <2>0, <3>1
  <2>3. Path'
    <3>1. (stack \in Seq(Graph!Tasks(plan) \X (Nat \ {0})))'
      BY <1>0, <2>2 DEF T
    <3>2. in_stack' = {stack'[i][1] : i \in DOMAIN stack'}
      <4>1. in_stack = {stack[i][1] : i \in 1..n}
        BY <1>0, <1>1 DEF Searching, Path
      <4>2. next \notin done => stack'[n + 1][1] = next
        BY <2>2
      <4> QED BY <2>2, <2>6, <4>1, <4>2
    <3>3. ASSUME NEW i \in DOMAIN stack', NEW j \in DOMAIN stack', stack'[i][1] = stack'[j][1]
          PROVE  i = j
      <4>0. in_stack = {stack[m][1] : m \in 1..n}
        BY <1>0, <2>0 DEF Searching, Path
      <4>1. \A m \in 1..n : stack'[m][1] \in in_stack
        BY <2>2, <4>0
      <4>2. CASE i \in 1..n /\ j \in 1..n
        <5>1. stack[i][1] = stack[j][1] /\ i \in DOMAIN stack /\ j \in DOMAIN stack
          BY <2>0, <2>2, <3>3, <4>2
        <5> QED BY <1>0, <5>1 DEF Searching, Path
      <4>3. CASE i \notin 1..n \/ j \notin 1..n
        <5>1. (i \in 1..n \/ i = n + 1) /\ (j \in 1..n \/ j = n + 1) /\ next \notin done
          BY <2>6, <4>3
        <5>2. stack'[n + 1][1] = next
          BY <2>2, <5>1
        <5> QED BY <1>5, <3>3, <4>1, <4>3, <5>1, <5>2
      <4> QED BY <4>2, <4>3
    <3>4. ASSUME NEW i \in DOMAIN stack', i > 1
          PROVE  stack'[i][1] \in Graph!DepSet(plan, stack'[i - 1][1])
      <4>1. CASE i \in 1..n
        <5>1. i \in DOMAIN stack /\ i - 1 \in 1..n
          BY <1>1, <3>4, <4>1
        <5> QED BY <1>0, <2>2, <3>4, <4>1, <5>1 DEF Searching, Path
      <4>2. CASE i \notin 1..n
        <5>1. i = n + 1 /\ stack'[n + 1] = <<next, 1>> /\ i - 1 = n
          BY <1>1, <2>2, <4>2
        <5>2. stack'[i][1] = next /\ stack'[i - 1][1] = t
          BY <1>1, <2>2, <5>1 DEF t
        <5> QED BY <1>3, <5>2
      <4> QED BY <4>1, <4>2
    <3> QED BY <1>0, <3>1, <3>2, <3>3, <3>4 DEF Path
  <2>4. Asked'
    <3> SUFFICES ASSUME NEW i \in DOMAIN stack', NEW q \in 1..(stack'[i][2] - 1),
                        q \in DOMAIN Graph!Deps(plan, stack'[i][1])
                 PROVE  \/ Graph!Deps(plan, stack'[i][1])[q] \in done
                        \/ /\ i + 1 \in DOMAIN stack'
                           /\ Graph!Deps(plan, stack'[i][1])[q] = stack'[i + 1][1]
      BY <1>0 DEF Asked
    <3>1. CASE i \in 1..(n - 1)
      <4>0. i \in 1..n /\ i + 1 \in 1..n
        BY <2>0, <3>1
      <4>1. i \in DOMAIN stack /\ i \in 1..n /\ i + 1 \in 1..n /\ i + 1 \in DOMAIN stack'
        BY <2>0, <2>6, <4>0
      <4>2. stack'[i][1] = stack[i][1] /\ stack'[i][2] = stack[i][2] /\ stack'[i + 1][1] = stack[i + 1][1]
        BY <2>2, <3>1, <4>1
      <4> QED BY <1>0, <4>1, <4>2 DEF Searching, Asked
    <3>2. CASE i = n
      <4>1. stack'[n][1] = t /\ q \in 1..k
        BY <1>1, <1>2, <2>2, <3>2 DEF t
      <4>2. CASE q = k
        <5>1. Graph!Deps(plan, stack'[i][1])[q] = next
          BY <3>2, <4>1, <4>2 DEF next
        <5>2. CASE next \notin done
          <6>1. i + 1 \in DOMAIN stack' /\ stack'[i + 1] = <<next, 1>>
            BY <1>1, <2>2, <3>2, <5>2
          <6> QED BY <5>1, <6>1
        <5> QED BY <5>1, <5>2
      <4>3. CASE q # k
        <5>1. q \in 1..(stack[n][2] - 1) /\ n + 1 \notin DOMAIN stack
          BY <1>1, <1>2, <4>1, <4>3 DEF k
        <5> QED BY <1>0, <1>2, <3>2, <4>1, <5>1 DEF Searching, Asked, t
      <4> QED BY <4>2, <4>3
    <3>3. CASE i \notin 1..n
      <4>1. i = n + 1 /\ stack'[i] = <<next, 1>>
        BY <1>1, <2>2, <3>3
      <4> QED BY <4>1
    <3> QED BY <2>0, <3>1, <3>2, <3>3
  <2>5. Cleared(done)' /\ (in_stack \intersect done)' = {} /\ WellFormed'
    BY <1>0, <2>2 DEF Searching, Cleared, WellFormed
  <2> QED BY <1>0, <2>2, <2>3, <2>4, <2>5 DEF GraphInv, Searching
<1> QED BY <1>4, <1>5

LEMMA GraphKept == GraphInv /\ [Graph!Next]_graph => GraphInv'
<1>1. ASSUME GraphInv, UNCHANGED graph PROVE GraphInv'
  BY <1>1 DEF GraphInv, graph, WellFormed, Searching, Path, Asked, Cleared, Graph!VerdictRight
<1> QED BY <1>1, BeginKeeps, DescendKeeps, FinishKeeps DEF Graph!Next

LEMMA GraphRight == GraphInv => Graph!VerdictRight /\ Graph!PathIsStack
BY DEF GraphInv, Graph!VerdictRight, Graph!PathIsStack, Searching, Path, Cleared, Graph!Open

-----------------------------------------------------------------------------
(* The two parts together. *)

PlansInv ==
    \/ part = "graph" /\ GraphInv
    \/ part = "run" /\ RunInv

LEMMA PlansInvariant == Spec => []PlansInv
<1>1. Init => PlansInv
  BY GraphInit, RunInit DEF Init, PlansInv
<1>2. PlansInv /\ [Next]_<<part, graph, run>> => PlansInv'
  <2> SUFFICES ASSUME PlansInv, [Next]_<<part, graph, run>> PROVE PlansInv'
    OBVIOUS
  <2>1. part' = part /\ (part = "graph" => [Graph!Next]_graph) /\ (part = "run" => [Run!Next]_run)
    BY DEF Next
  <2> QED BY <2>1, GraphKept, RunKept DEF PlansInv
<1> QED BY <1>1, <1>2, PTL DEF Spec

\* The verdict of Plan::validate is right for plans of every size: a cycle is
\* reported only where a task depends on itself, and acyclic only for a plan
\* whose tasks can be done in some order.
THEOREM VerdictsRight == Spec => []VerdictRight
<1>1. PlansInv => VerdictRight
  BY GraphRight DEF PlansInv, VerdictRight
<1> QED BY <1>1, PlansInvariant, PTL

\* However often a plan is run, killed and repaired around, a node costs one
\* fresh attempt, and a command that ended cleanly left none untried that it
\* saw ready.
THEOREM NodesTriedOnce == Spec => []EachNodeTriedOnce
<1>1. PlansInv => EachNodeTriedOnce
  <2> SUFFICES ASSUME PlansInv, part = "run"
               PROVE  Run!NothingReadyUntried /\ Run!OneAttemptPerNode
    BY DEF EachNodeTriedOnce
  <2>1. RunInv
    BY DEF PlansInv
  <2>2. Run!OneAttemptPerNode
    BY <2>1 DEF RunInv, Counted, Run!OneAttemptPerNode
  <2> QED BY <2>1, <2>2 DEF RunInv
<1> QED BY <1>1, PlansInvariant, PTL

LEMMA TriesAreOrdered == RunInv /\ [Run!Next]_run => Run!Ordered
<1> SUFFICES ASSUME RunInv, [Run!Next]_run, NEW t \in NodeTasks, tries'[t] > tries[t]
             PROVE  deps[t] \subseteq satisfied
  BY DEF Run!Ordered
<1>1. tries \in [NodeTasks -> Nat]
  BY DEF RunInv, RunTypes
<1>2. tries' # tries
  BY <1>1
<1>3. Run!Deliver
  <2>1. CASE UNCHANGED run
    BY <1>2, <2>1 DEF run
  <2>2. CASE Run!Start \/ Run!Sweep \/ Run!SweepEnds \/ Run!Execute \/ Run!Kill
    BY <1>2, <2>2 DEF Run!Start, Run!Sweep, Run!SweepEnds, Run!Execute, Run!Kill
  <2>3. CASE \E u \in NodeTasks : Run!Repair(u) \/ Run!AddRow(u) \/ Run!ChangeInputs(u)
    BY <1>2, <2>3 DEF Run!Repair, Run!AddRow, Run!ChangeInputs
  <2> QED BY <2>1, <2>2, <2>3 DEF Run!Next, Run!Work
<1>4. cmd.pending # {} /\ tries' = [tries EXCEPT ![Run!Now] = @ + 1]
  BY <1>2, <1>3 DEF Run!Deliver
<1>5. Run!Now \in cmd.pending
  BY <1>4, NowListed DEF RunInv
<1>6. t = Run!Now
  BY <1>1, <1>4
<1> QED BY <1>5, <1>6 DEF RunInv, Listed

\* No step begins an attempt of a task whose dependencies are not satisfied.
THEOREM InOrder == Spec => DependenciesFirst
<1>1. PlansInv /\ [Next]_<<part, graph, run>> => [part = "run" => Run!Ordered]_run
  <2> SUFFICES ASSUME PlansInv, [Next]_<<part, graph, run>>, part = "run"
               PROVE  Run!Ordered \/ UNCHANGED run
    OBVIOUS
  <2>1. RunInv /\ [Run!Next]_run
    BY DEF PlansInv, Next
  <2> QED BY <2>1, TriesAreOrdered
<1> QED BY <1>1, PlansInvariant, PTL DEF Spec, DependenciesFirst

=============================================================================
