------------------------------ MODULE Engine_books ------------------------------
(***************************************************************************)
(* What is proved of Engine when one command runs at a time: whatever is   *)
(* killed, resumed, retried or closed, the books of the ledger are in      *)
(* order, no hand is invoked that should not be, and the recovery queue    *)
(* shows who needs it.                                                     *)
(***************************************************************************)
EXTENDS Engine_proofs, RecoveryConsole

\* The hypothesis of every theorem here: the code takes no lock, and two
\* commands that overlap on one attempt do break what follows.
OneAtATime == \A s, r \in Sessions : s = r

-----------------------------------------------------------------------------
(* What a log promises of attempts and tasks, while it grows. *)

\* Nothing that was promised changes.
Kept(l, r) == Phases(r) = Phases(l) /\ Owners(r) = Owners(l) /\ Chosen(r) = Chosen(l)

\* How the phase of one attempt may change.
Turn(p, q) ==
    \/ p = q
    \/ <<p, q>> \in {<<"open", "lost">>, <<"lost", "open">>, <<"lost", "unknown">>}
    \/ p = "open" /\ q \in Outcomes \ {"unknown"}

\* One attempt is admitted, or turns, or is chosen for its task.
Admits(l, r, a) ==
    /\ a \in Nat /\ a > 0 /\ a \notin DOMAIN Phases(l)
    /\ Phases(r) = Contract!With(Phases(l), a, "open")
    /\ Owners(r) = Contract!With(Owners(l), a, Owners(r)[a])
    /\ Chosen(r) = Chosen(l)

Turns(l, r, a) ==
    /\ a \in DOMAIN Phases(l) /\ Turn(Phases(l)[a], Phases(r)[a])
    /\ Phases(r) = [Phases(l) EXCEPT ![a] = Phases(r)[a]]
    /\ Owners(r) = Owners(l) /\ Chosen(r) = Chosen(l)

Chooses(l, r, a) ==
    /\ a \in DOMAIN Phases(l) /\ Phases(l)[a] = "success"
    /\ Chosen(l)[Owners(l)[a]] = 0 \/ a < Chosen(l)[Owners(l)[a]]
    /\ Chosen(r) = [Chosen(l) EXCEPT ![Owners(l)[a]] = a]
    /\ Phases(r) = Phases(l) /\ Owners(r) = Owners(l)

\* The next log keeps the contract: it changes nothing, or takes one step.
Pledge(l, r) ==
    Kept(l, r) \/ \E a : Admits(l, r, a) \/ Turns(l, r, a) \/ Chooses(l, r, a)

\* A promise is as good if it was made of a log that promised the same.
LEMMA KeptPledge ==
    ASSUME NEW l, NEW q, NEW r, Kept(l, q), Pledge(q, r)
    PROVE  Pledge(l, r)
<1>1. Phases(q) = Phases(l) /\ Owners(q) = Owners(l) /\ Chosen(q) = Chosen(l)
  BY DEF Kept
<1>2. CASE Kept(q, r)
  BY <1>1, <1>2 DEF Kept, Pledge
<1>3. ASSUME NEW a, Admits(q, r, a) PROVE Admits(l, r, a)
  BY <1>1, <1>3, Zenon DEF Admits
<1>4. ASSUME NEW a, Turns(q, r, a) PROVE Turns(l, r, a)
  BY <1>1, <1>4, Zenon DEF Turns
<1>5. ASSUME NEW a, Chooses(q, r, a) PROVE Chooses(l, r, a)
  BY <1>1, <1>5, Zenon DEF Chooses
<1> QED BY <1>2, <1>3, <1>4, <1>5 DEF Pledge

\* The three readings of a phase.
LEMMA PhaseIs ==
    ASSUME NEW l, NEW a
    PROVE  /\ StateOf(l, a) \in Over => Phase(l, a) = Outcome(l, a)
           /\ StateOf(l, a) = "recovery_pending" => Phase(l, a) = "lost"
           /\ StateOf(l, a) \notin Over \union {"recovery_pending"} => Phase(l, a) = "open"
BY DEF Phase, Over

\* The only entry of a set whose entries are all the same.
LEMMA OnlyLatest ==
    ASSUME NEW l \in Seq(Envelopes), NEW a, NEW k, NEW i \in OfKind(l, a, k),
           \A j \in OfKind(l, a, k) : i = j
    PROVE  Latest(OfKind(l, a, k)) = i
<1>1. OfKind(l, a, k) \in SUBSET (1..Len(l)) /\ Len(l) \in Nat
  BY OfKindMember
<1>2. Latest(OfKind(l, a, k)) \in OfKind(l, a, k)
  BY <1>1, LatestIn
<1> QED BY <1>2

\* The outcome of an attempt that was judged.
LEMMA OutcomeIs ==
    ASSUME NEW l \in Seq(Envelopes), NEW a, Filed(l, a), NEW i \in OfKind(l, a, "terminal")
    PROVE  Outcome(l, a) = l[i].body.outcome /\ Outcome(l, a) \in Outcomes
<1>1. \A j \in OfKind(l, a, "terminal") : i = j
  BY DEF Filed, VerdictEarned
<1>2. Latest(OfKind(l, a, "terminal")) = i
  BY <1>1, OnlyLatest
<1>3. Outcome(l, a) = l[i].body.outcome
  BY <1>2 DEF Outcome
<1>4. l[i].body \in Bodies /\ l[i].body.kind = "terminal"
  BY OfKindMember
<1>5. \A b \in Bodies : b.kind = "terminal" => b.outcome \in Outcomes
  BY DEF Bodies
<1> QED BY <1>3, <1>4, <1>5

\* Whoever is judged from now on is judged unknown exactly if he was lost.
LossMarked(l, r, a) ==
    StateOf(l, a) \notin Over /\ StateOf(r, a) \in Over =>
        (Outcome(r, a) = "unknown" <=> StateOf(l, a) = "recovery_pending")

LEMMA TurnRight ==
    ASSUME NEW l \in Seq(Envelopes), NEW r \in Seq(Envelopes), NEW a, Extends(l, r),
           Rest(l, a), Filed(r, a), Filed(l, a), Rest(r, a), LossMarked(l, r, a)
    PROVE  Turn(Phase(l, a), Phase(r, a))
<1>1. CASE StateOf(l, a) \in Over
  <2>1. PICK i \in OfKind(l, a, "terminal") : TRUE
    BY <1>1 DEF Rest
  <2>2. i \in OfKind(r, a, "terminal") /\ r[i] = l[i]
    BY ExtendsKeep
  <2>3. Outcome(r, a) = Outcome(l, a)
    BY <2>1, <2>2, OutcomeIs
  <2>4. StateOf(r, a) \in Over
    BY <2>2 DEF Rest
  <2> QED BY <1>1, <2>3, <2>4, PhaseIs DEF Turn
<1>2. CASE StateOf(l, a) \notin Over /\ StateOf(r, a) \notin Over
  <2>1. Phase(l, a) \in {"open", "lost"} /\ Phase(r, a) \in {"open", "lost"}
    BY <1>2, PhaseIs
  <2> QED BY <2>1 DEF Turn
<1>3. CASE StateOf(l, a) \notin Over /\ StateOf(r, a) \in Over
  <2>1. PICK i \in OfKind(r, a, "terminal") : TRUE
    BY <1>3 DEF Rest
  <2>2. Phase(r, a) = Outcome(r, a) /\ Phase(r, a) \in Outcomes
    BY <1>3, <2>1, OutcomeIs, PhaseIs
  <2>3. Phase(r, a) = "unknown" <=> StateOf(l, a) = "recovery_pending"
    BY <1>3, <2>2 DEF LossMarked
  <2>4. CASE StateOf(l, a) = "recovery_pending"
    BY <2>3, <2>4, PhaseIs DEF Turn
  <2>5. CASE StateOf(l, a) # "recovery_pending"
    <3>1. Phase(l, a) = "open"
      BY <1>3, <2>5, PhaseIs
    <3> QED BY <2>2, <2>3, <2>5, <3>1 DEF Turn
  <2> QED BY <2>4, <2>5
<1> QED BY <1>1, <1>2, <1>3

\* The readings of what got no receipt they depend on.
LEMMA PhaseKept ==
    ASSUME NEW l \in Seq(Envelopes), NEW r \in Seq(Envelopes), Extends(l, r), NEW x,
           OfKind(r, x, "transition") = OfKind(l, x, "transition"),
           OfKind(r, x, "terminal") = OfKind(l, x, "terminal")
    PROVE  Phase(r, x) = Phase(l, x)
<1> DEFINE T == OfKind(l, x, "terminal")
<1>1. StateOf(r, x) = StateOf(l, x)
  BY StateKept
<1>2. Outcome(r, x) = Outcome(l, x)
  <2>1. CASE T = {}
    BY <2>1 DEF Outcome
  <2>2. CASE T # {}
    <3>1. T \in SUBSET (1..Len(l)) /\ Len(l) \in Nat
      BY OfKindMember
    <3>2. Latest(T) \in T
      <4> HIDE DEF T
      <4> QED BY <2>2, <3>1, LatestIn
    <3>3. r[Latest(T)] = l[Latest(T)]
      BY <3>2, ExtendsKeep
    <3> QED BY <2>2, <3>3 DEF Outcome
  <2> QED BY <2>1, <2>2
<1> QED BY <1>1, <1>2 DEF Phase

LEMMA OwnerKept ==
    ASSUME NEW l \in Seq(Envelopes), NEW r \in Seq(Envelopes), Extends(l, r), NEW x \in CreatedIn(l),
           OfKind(r, x, "attempt_created") = OfKind(l, x, "attempt_created")
    PROVE  Owner(r, x) = Owner(l, x)
<1> DEFINE B == Births(l, x)
<1>1. B # {} /\ B \in SUBSET Nat /\ Births(r, x) = B
  BY CreatedInIs, OfKindMember DEF Births
<1>2. Earliest(B) \in B
  <2> HIDE DEF B
  <2> QED BY <1>1, EarliestIn
<1>3. r[Earliest(B)] = l[Earliest(B)]
  BY <1>2, ExtendsKeep DEF Births
<1> QED BY <1>1, <1>3 DEF Owner

LEMMA ChosenKept ==
    ASSUME NEW l \in Seq(Envelopes), NEW r \in Seq(Envelopes), Extends(l, r), NEW t,
           Selections(r, t) = Selections(l, t)
    PROVE  /\ TaskSatisfied(r, t) <=> TaskSatisfied(l, t)
           /\ TaskSatisfied(l, t) => SelectedFor(r, t) = SelectedFor(l, t)
<1> DEFINE S == Selections(l, t)
<1>1. CASE S = {}
  BY <1>1 DEF TaskSatisfied
<1>2. CASE S # {}
  <2>1. S \in SUBSET (1..Len(l)) /\ Len(l) \in Nat
    BY DEF Selections, AnyOfKind
  <2>2. Latest(S) \in 1..Len(l)
    <3> HIDE DEF S
    <3> QED BY <1>2, <2>1, LatestIn
  <2>3. r[Latest(S)] = l[Latest(S)]
    BY <2>2 DEF Extends
  <2> QED BY <2>3 DEF TaskSatisfied, SelectedFor
<1> QED BY <1>1, <1>2

LEMMA SelectionsKept ==
    ASSUME NEW l \in Seq(Envelopes), NEW r \in Seq(Envelopes), Extends(l, r), NEW t,
           AnyOfKind(r, "selection") = AnyOfKind(l, "selection")
    PROVE  Selections(r, t) = Selections(l, t)
<1>1. \A i \in AnyOfKind(l, "selection") : r[i] = l[i]
  BY DEF AnyOfKind, Extends
<1> QED BY <1>1 DEF Selections

LEMMA AllChosenKept ==
    ASSUME NEW l \in Seq(Envelopes), NEW r \in Seq(Envelopes), Extends(l, r),
           AnyOfKind(r, "selection") = AnyOfKind(l, "selection")
    PROVE  Chosen(r) = Chosen(l)
<1>1. ASSUME NEW t \in Tasks
      PROVE  (IF TaskSatisfied(r, t) THEN SelectedFor(r, t) ELSE NoAttempt) =
             (IF TaskSatisfied(l, t) THEN SelectedFor(l, t) ELSE NoAttempt)
  <2>1. Selections(r, t) = Selections(l, t)
    BY SelectionsKept
  <2> QED BY <2>1, ChosenKept
<1> QED BY <1>1 DEF Chosen

\* Receipts of a created attempt change no promise but the phase of this attempt.
LEMMA GrownTurns ==
    ASSUME NEW l \in Seq(Envelopes), NEW r, NEW a, NEW K \in SUBSET Entries, Grown(l, r, a, K)
    PROVE  /\ Phases(r) = [Phases(l) EXCEPT ![a] = Phase(r, a)] /\ a \in CreatedIn(l)
           /\ Owners(r) = Owners(l) /\ Chosen(r) = Chosen(l)
<1>1. /\ r \in Seq(Envelopes) /\ CreatedIn(r) = CreatedIn(l) /\ a \in CreatedIn(l)
      /\ Adds(l, r, a, K)
  BY DEF Grown, Book
<1>2. "attempt_created" \notin K /\ "selection" \notin K
  BY DEF Entries
<1>3. /\ Extends(l, r)
      /\ \A x, k : x # a \/ k \notin K => OfKind(r, x, k) = OfKind(l, x, k)
      /\ AnyOfKind(r, "selection") = AnyOfKind(l, "selection")
  BY <1>1, <1>2, AddsKeep
<1>4. Chosen(r) = Chosen(l)
  BY <1>1, <1>3, AllChosenKept
<1>5. ASSUME NEW x \in CreatedIn(l) PROVE Owner(r, x) = Owner(l, x)
  BY <1>1, <1>2, <1>3, OwnerKept
<1>6. ASSUME NEW x \in CreatedIn(l), x # a PROVE Phase(r, x) = Phase(l, x)
  BY <1>1, <1>3, <1>6, PhaseKept
<1>7. Owners(r) = Owners(l)
  BY <1>1, <1>5 DEF Owners
<1>8. Phases(r) = [Phases(l) EXCEPT ![a] = Phase(r, a)]
  <2>1. /\ Phases(l) = [x \in CreatedIn(l) |-> Phase(l, x)]
        /\ Phases(r) = [x \in CreatedIn(l) |-> Phase(r, x)]
    BY <1>1 DEF Phases
  <2> QED BY <1>1, <1>6, <2>1
<1> QED BY <1>1, <1>4, <1>7, <1>8

LEMMA GrownPledge ==
    ASSUME NEW l \in Seq(Envelopes), NEW r, NEW a, NEW K \in SUBSET Entries, Grown(l, r, a, K),
           Filed(l, a), Rest(l, a), Rest(r, a), LossMarked(l, r, a)
    PROVE  Pledge(l, r)
<1>1. /\ r \in Seq(Envelopes) /\ Extends(l, r) /\ Filed(r, a) /\ a \in CreatedIn(r)
      /\ CreatedIn(r) = CreatedIn(l)
  BY DEF Grown, Book, Adds
<1>2. Turn(Phase(l, a), Phase(r, a))
  BY <1>1, TurnRight
<1>3. /\ Phases(l)[a] = Phase(l, a) /\ Phases(r)[a] = Phase(r, a)
      /\ DOMAIN Phases(l) = CreatedIn(l)
  BY <1>1 DEF Phases
<1>4. /\ Phases(r) = [Phases(l) EXCEPT ![a] = Phase(r, a)]
      /\ Owners(r) = Owners(l) /\ Chosen(r) = Chosen(l)
  BY GrownTurns
<1>5. Turns(l, r, a)
  BY <1>1, <1>2, <1>3, <1>4, Zenon DEF Turns
<1> QED BY <1>5 DEF Pledge

\* While an attempt is open, everything is kept.
LEMMA SteadyKept ==
    ASSUME NEW l \in Seq(Envelopes), NEW r, NEW a, NEW K \in SUBSET Entries, Grown(l, r, a, K),
           StateOf(l, a) \notin Over \union {"recovery_pending"},
           StateOf(r, a) \notin Over \union {"recovery_pending"}
    PROVE  Kept(l, r)
<1>1. /\ Phases(r) = [Phases(l) EXCEPT ![a] = Phase(r, a)] /\ a \in CreatedIn(l)
      /\ Owners(r) = Owners(l) /\ Chosen(r) = Chosen(l)
  BY GrownTurns
<1>2. Phases(l) = [x \in CreatedIn(l) |-> Phase(l, x)]
  BY DEF Phases
<1>3. Phase(r, a) = Phase(l, a)
  BY PhaseIs
<1> QED BY <1>1, <1>2, <1>3 DEF Kept

-----------------------------------------------------------------------------
(* The invariant. *)

\* What the tables hold between two transactions.
World(L, R, A) ==
    /\ InOrder(L, R)
    /\ \A r, q \in A : r.attempt = q.attempt => r = q
    /\ \A r, q \in R : r.run = q.run => r = q
    /\ \A r, q \in R : r.attempt = q.attempt /\ r.generation = q.generation => r = q
    /\ \A r \in R : \E q \in A : q.attempt = r.attempt

\* No attempt was created under this key, nor for this task with another hash.
Unclaimed(l, t, h, g) ==
    \A i \in Created(l) : l[i].body.task = t =>
        l[i].body.hash = h /\ l[i].body.generation # g

\* Where a session has more in memory than in the store.
Ahead == {"persist", "put_pack", "insert_attempt", "prepare", "hand", "hand_runs"}

\* Where the attempt it works on is created, and where it has no run yet in the
\* generation that is current.
Pipelined == {"preflight", "prepare", "prerun", "hand", "hand_runs", "observe", "validate",
              "classify"}
Unrun == {"preflight", "prepare", "prerun"}

\* What a session holds in memory, against the ledger L and the runs R.
Held(m, L, R) ==
    /\ m.persisted = Len(L) /\ Extends(L, m.log)
    /\ m.pc \in Admitting =>
          /\ m.log = L \o Admission(m) /\ m.att # NoAttempt
          /\ Unclaimed(L, m.task, m.hash, m.generation)
    /\ m.pc \notin Admitting => InOrder(m.log, R)
    /\ m.pc \notin Ahead => m.log = L
    /\ At(m) \in Pipelined => m.att \in CreatedIn(m.log)
    /\ At(m) \in Unrun =>
          \A r \in R : r.attempt = m.att => r.generation < CurrentGeneration(m.log, m.att)
    /\ m.pc \in {"hand", "hand_runs"} =>
          StateOf(m.log, m.att) = "running" /\ OfKind(m.log, m.att, "abort_cause") = {}
    /\ m.pc \in {"prepare", "hand", "hand_runs"} => Kept(L, m.log)
    /\ m.pc = "persist" => Pledge(L, m.log)

BooksInv ==
    /\ World(ledger, runs, attempts)
    /\ \A s \in Sessions : sess[s].pc \notin {"idle", "admit"} => Held(sess[s], ledger, runs)

-----------------------------------------------------------------------------
(* What the appending operators do to books. *)

Pen == Writers(Envelopes, 0)

\* All that is written of an attempt but its creation and its fences.
Running == Entries \ {"fence_generation"}

LEMMA PenOf ==
    ASSUME NEW k \in Nat, NEW w \in Writers(Backed, k)
    PROVE  w \in Pen /\ w.log \in Seq(Envelopes) /\ w.log \in Seq(Backed) /\ w.n \in Nat
<1>1. w.log \in Seq(Backed) /\ w.log \in Seq(Envelopes)
  BY PlainBacked, SeqMono DEF Writers
<1> QED BY <1>1 DEF Writers, Pen

\* x is w with one receipt more, of attempt a.
Wrote(w, x, a, body) ==
    /\ x \in Pen /\ x.ok = w.ok /\ x.n \in Nat /\ w.log \in Seq(Envelopes)
    /\ \E e \in Envelopes : e.attempt = a /\ e.body = body /\ x.log = Append(w.log, e)
    /\ \A k : k # body.kind => OfKind(x.log, a, k) = OfKind(w.log, a, k)

LEMMA PutGrows ==
    ASSUME NEW w \in Pen, NEW a \in Nat, NEW body \in Bodies
    PROVE  Wrote(w, Put(w, a, body), a, body)
<1> DEFINE e == Receipt(w.n + 1, a, body)
           x == Put(w, a, body)
<1>1. w.n \in Nat /\ w.n + 1 \in Nat /\ w.log \in Seq(Envelopes)
  BY DEF Pen, Writers
<1>2. e \in Envelopes /\ e.attempt = a /\ e.body = body
  BY <1>1, EnvelopeOf DEF Receipt
<1>3. x \in Pen /\ x.log = Append(w.log, e) /\ x.ok = w.ok /\ x.n = w.n + 1
  <2> HIDE DEF e
  <2>1. Receipt(w.n + 1, a, body) \in Envelopes
    BY <1>2 DEF e
  <2> QED BY <2>1, PutIs DEF Pen, e
<1> HIDE DEF e, x
<1>4. \A k : k # body.kind => OfKind(x.log, a, k) = OfKind(w.log, a, k)
  BY <1>1, <1>2, <1>3, OthersKept
<1>5. Wrote(w, x, a, body)
  BY <1>1, <1>2, <1>3, <1>4 DEF Wrote
<1> QED BY <1>5 DEF x

\* x is w and a transition of attempt a to a state there is an edge to.
Walked(w, x, a, to) ==
    /\ w.ok /\ w.log \in Seq(Envelopes) /\ a \in CreatedIn(w.log)
    /\ <<StateOf(w.log, a), to>> \in Edges
    /\ \E e \in Envelopes :
          /\ e.attempt = a /\ e.body.kind = "transition"
          /\ e.body.from = ResolveState(w.log, a) /\ e.body.to = to
          /\ ResolveState(w.log, a) = StateOf(w.log, a)
          /\ x.log = Append(w.log, e)
    /\ \A k : k # "transition" => OfKind(x.log, a, k) = OfKind(w.log, a, k)

\* An edge that was walked was legal, and is the last of the log.
LEMMA GoFrom ==
    ASSUME NEW w \in Pen, NEW a \in Nat, NEW to \in States, NEW cause \in Causes, NEW ref \in Nat
    PROVE  /\ Go(w, a, to, cause, ref) \in Pen
           /\ Go(w, a, to, cause, ref).n \in Nat
           /\ Go(w, a, to, cause, ref).ok => Walked(w, Go(w, a, to, cause, ref), a, to)
<1> DEFINE b == MoveTo(w.log, a, to, cause, ref)
           x == Go(w, a, to, cause, ref)
<1>1. Plain \subseteq Envelopes /\ Envelopes \subseteq Envelopes /\ 0 \in Nat
  BY DEF Plain
<1>2. /\ x \in Pen
      /\ x.ok => w.ok /\ LegalTransition(w.log, a, to, cause, ref) /\ x = Put(w, a, b)
  BY <1>1, GoWrites DEF Pen
<1>3. ASSUME x.ok
      PROVE  Walked(w, x, a, to)
  <2>1. LegalTransition(w.log, a, to, cause, ref) /\ x = Put(w, a, b) /\ w.ok
    BY <1>2, <1>3
  <2>2. /\ ResolveState(w.log, a) \in States
        /\ <<ResolveState(w.log, a), to>> \in Edges
        /\ b \in Bodies /\ b.kind = "transition"
    BY <2>1, LegalFrom DEF Edges
  <2>3. b.from = ResolveState(w.log, a) /\ b.to = to
    BY DEF MoveTo, Transition
  <2> HIDE DEF b, x
  <2>4. Wrote(w, x, a, b)
    BY <2>1, <2>2, PutGrows
  <2>5. ResolveState(w.log, a) = StateOf(w.log, a) /\ Births(w.log, a) # {}
    BY <2>2, ResolvedAttempt DEF ResolveState
  <2>6. w.log \in Seq(Envelopes) /\ a \in CreatedIn(w.log)
    BY <2>4, <2>5, CreatedInIs DEF Wrote
  <2> QED BY <2>1, <2>2, <2>3, <2>4, <2>5, <2>6 DEF Wrote, Walked
<1>4. x.n \in Nat
  BY <1>2 DEF Pen, Writers
<1> QED BY <1>2, <1>3, <1>4

\* The books after it.
LEMMA WalkedGrows ==
    ASSUME NEW w, NEW x, NEW a, NEW to, Walked(w, x, a, to),
           NEW l \in Seq(Envelopes), NEW K \in SUBSET Entries, "transition" \in K,
           Grown(l, w.log, a, K)
    PROVE  Grown(l, x.log, a, K) /\ StateOf(x.log, a) = to
<1>1. PICK e \in Envelopes :
         /\ e.attempt = a /\ e.body.kind = "transition"
         /\ e.body.from = ResolveState(w.log, a) /\ e.body.to = to
         /\ ResolveState(w.log, a) = StateOf(w.log, a)
         /\ x.log = Append(w.log, e)
  BY DEF Walked
<1>2. <<e.body.from, e.body.to>> \in Edges
  BY <1>1 DEF Walked
<1>3. Grown(l, Append(w.log, e), a, K) /\ StateOf(Append(w.log, e), a) = e.body.to
  BY <1>1, <1>2, GrownMove
<1> QED BY <1>1, <1>3

\* Every abort cause of the attempt is a cancel.
OnlyCancelled(l, a) == \A i \in OfKind(l, a, "abort_cause") : l[i].body.abort = "cancelled"

LEMMA BackedAborts ==
    ASSUME NEW l \in Seq(Backed), NEW a
    PROVE  OnlyCancelled(l, a)
<1>1. \A i \in DOMAIN l : l[i] \in Backed
  OBVIOUS
<1> QED BY <1>1, Zenon DEF OnlyCancelled, OfKind, Backed

\* An attempt that is under way and was not judged is at rest.
LEMMA RestOpen ==
    ASSUME NEW l, NEW a, OfKind(l, a, "terminal") = {}, StateOf(l, a) \notin Over,
           StateOf(l, a) # "commit_pending"
    PROVE  Rest(l, a)
BY DEF Rest, Succeeded

\* Judging and closing an attempt that was not judged before.
LEMMA ConcludeGrows ==
    ASSUME NEW w \in Pen, NEW a \in Nat, NEW l \in Seq(Envelopes), NEW K \in SUBSET Entries,
           "transition" \in K, "terminal" \in K, Grown(l, w.log, a, K),
           OfKind(w.log, a, "terminal") = {}, OnlyCancelled(w.log, a), Conclude(w, a).ok
    PROVE  /\ Grown(l, Conclude(w, a).log, a, K)
           /\ StateOf(Conclude(w, a).log, a) = "closed"
           /\ Outcome(Conclude(w, a).log, a) # "unknown"
           /\ OfKind(Conclude(w, a).log, a, "terminal") # {}
<1> DEFINE v == Classify(w.log, a)
           x == Put(w, a, Terminal(v))
           y == Go(x, a, "terminal", "classification_complete", x.n)
           z == Go(y, a, "closed", "close", 0)
<1>1. w.log \in Seq(Envelopes) /\ Filed(w.log, a)
  BY DEF Grown, Book
<1>2. v # "insufficient" /\ Conclude(w, a) = z /\ z.ok
  <2>1. Conclude(w, a) = IF v = "insufficient" THEN [w EXCEPT !.ok = FALSE] ELSE z
    BY ConcludeIs
  <2>2. [w EXCEPT !.ok = FALSE].ok = FALSE
    BY DEF Pen, Writers
  <2> HIDE DEF z, v
  <2> QED BY <2>1, <2>2
<1>3. v \in Outcomes
  BY <1>1, <1>2, ClassifyType
<1>4. v = "success" => Proven(w.log, a)
  BY <1>1, ClassifyProven
<1>5. /\ OfKind(w.log, a, "abort_cause") # {} => v \in {"cancelled", "unknown"}
      /\ v # "unknown"
  <2>1. CASE OfKind(w.log, a, "abort_cause") # {}
    BY <1>1, <2>1, ClassifyCancelled DEF OnlyCancelled
  <2>2. CASE OfKind(w.log, a, "abort_cause") = {}
    BY <2>2 DEF Classify
  <2> QED BY <2>1, <2>2
<1> HIDE DEF v
<1>6. Terminal(v) \in Bodies /\ Terminal(v).kind = "terminal" /\ Terminal(v).outcome = v
  BY <1>3, BodyConstructors DEF Terminal
<1>7. Wrote(w, x, a, Terminal(v))
  BY <1>6, PutGrows
<1> HIDE DEF x
<1>8. PICK e \in Envelopes :
         e.attempt = a /\ e.body = Terminal(v) /\ x.log = Append(w.log, e)
  BY <1>7 DEF Wrote
<1>9. Filed(Append(w.log, e), a)
  BY <1>1, <1>4, <1>5, <1>6, <1>8, FiledVerdict
<1>10. /\ Grown(l, x.log, a, K)
       /\ Len(w.log) + 1 \in OfKind(x.log, a, "terminal")
  <2>1. Grown(l, Append(w.log, e), a, K)
    BY <1>6, <1>8, <1>9, GrownOne
  <2>2. Len(w.log) + 1 \in OfKind(Append(w.log, e), a, "terminal")
    BY <1>1, <1>6, <1>8, NewestOfKind
  <2> QED BY <1>8, <2>1, <2>2
<1>11. x \in Pen /\ x.n \in Nat
  BY <1>7 DEF Wrote
<1>12. /\ y \in Pen /\ (y.ok => Walked(x, y, a, "terminal"))
  BY <1>11, GoFrom DEF States, Causes
<1> HIDE DEF y
<1>13. z.ok => Walked(y, z, a, "closed")
  BY <1>12, GoFrom DEF States, Causes
<1> HIDE DEF z
<1>14. Walked(y, z, a, "closed") /\ Walked(x, y, a, "terminal")
  BY <1>2, <1>12, <1>13 DEF Walked
<1>15. Grown(l, y.log, a, K)
  BY <1>10, <1>14, WalkedGrows
<1>16. Grown(l, z.log, a, K) /\ StateOf(z.log, a) = "closed"
  BY <1>14, <1>15, WalkedGrows
<1>17. OfKind(z.log, a, "terminal") = OfKind(x.log, a, "terminal")
  BY <1>14 DEF Walked
<1>18. z.log[Len(w.log) + 1] = e
  <2>1. PICK f \in Envelopes, g \in Envelopes : y.log = Append(x.log, f) /\ z.log = Append(y.log, g)
    BY <1>14 DEF Walked
  <2> QED BY <1>1, <1>8, <2>1
<1>19. Outcome(z.log, a) = v
  <2>1. Filed(z.log, a) /\ z.log \in Seq(Envelopes)
    BY <1>16 DEF Grown, Book
  <2> QED BY <1>6, <1>8, <1>10, <1>17, <1>18, <2>1, OutcomeIs
<1> QED BY <1>2, <1>5, <1>10, <1>16, <1>17, <1>19

\* Cancelling an attempt that was not judged.
LEMMA AbortToGrows ==
    ASSUME NEW w \in Pen, NEW a \in Nat, NEW l \in Seq(Envelopes), NEW K \in SUBSET Entries,
           "transition" \in K, "abort_cause" \in K, Grown(l, w.log, a, K),
           OfKind(w.log, a, "terminal") = {}, AbortTo(w, a).ok
    PROVE  /\ AbortTo(w, a) \in Pen
           /\ Grown(l, AbortTo(w, a).log, a, K)
           /\ OfKind(AbortTo(w, a).log, a, "terminal") = {}
<1> DEFINE b == AbortCause("cancelled")
           x == Put(w, a, b)
           z == Go(x, a, "classifying", "abort", x.n)
<1>1. AbortTo(w, a) = z
  BY AbortToIs
<1>2. b \in Bodies /\ b.kind = "abort_cause"
  BY BodyConstructors DEF AbortCause, Aborts
<1> HIDE DEF b
<1>3. Wrote(w, x, a, b)
  BY <1>2, PutGrows
<1> HIDE DEF x
<1>4. PICK e \in Envelopes : e.attempt = a /\ e.body = b /\ x.log = Append(w.log, e)
  BY <1>3 DEF Wrote
<1>5. x \in Pen /\ x.n \in Nat /\ w.log \in Seq(Envelopes)
      /\ OfKind(x.log, a, "terminal") = {}
  BY <1>2, <1>3 DEF Wrote
<1>6. Grown(l, x.log, a, K)
  <2>1. Append(w.log, e) \in Seq(Envelopes)
    BY <1>5, AppendFacts
  <2>2. Adds(w.log, Append(w.log, e), a, {"abort_cause"})
    <3>1. Adds(w.log, w.log, a, {"abort_cause"})
      BY <1>5, AddsNone
    <3> QED BY <1>2, <1>4, <1>5, <3>1, AddsOne
  <2> QED BY <1>4, <2>1, <2>2, GrownNotes
<1>7. z \in Pen /\ (z.ok => Walked(x, z, a, "classifying"))
  BY <1>5, GoFrom DEF States, Causes
<1> HIDE DEF z
<1>8. Walked(x, z, a, "classifying")
  BY <1>1, <1>7
<1>9. Grown(l, z.log, a, K)
  BY <1>6, <1>8, WalkedGrows
<1>10. OfKind(z.log, a, "terminal") = OfKind(x.log, a, "terminal")
  BY <1>8 DEF Walked
<1> QED BY <1>1, <1>5, <1>7, <1>9, <1>10

\* What one command has done to its attempt, and the generation it stays in.
LEMMA GrownEnd ==
    ASSUME NEW l, NEW r, NEW a, NEW K \in SUBSET Running, NEW R, Grown(l, r, a, K),
           InOrder(l, R), Rest(r, a)
    PROVE  /\ InOrder(r, R) /\ r \in Seq(Envelopes) /\ Extends(l, r) /\ a \in CreatedIn(r)
           /\ CurrentGeneration(r, a) = CurrentGeneration(l, a)
<1>1. "fence_generation" \notin K
  BY DEF Running
<1>2. InOrder(r, R)
  BY <1>1, OrderGrown
<1>3. l \in Seq(Envelopes) /\ r \in Seq(Envelopes) /\ Adds(l, r, a, K) /\ a \in CreatedIn(r)
  BY DEF InOrder, Grown, Book
<1>4. Extends(l, r) /\ OfKind(r, a, "fence_generation") = OfKind(l, a, "fence_generation")
  BY <1>1, <1>3, AddsKeep
<1>5. CurrentGeneration(r, a) = CurrentGeneration(l, a)
  BY <1>3, <1>4, GenerationKept
<1> QED BY <1>2, <1>3, <1>4, <1>5

-----------------------------------------------------------------------------
(* What a step does to the invariant. *)

\* With one command at a time, nobody else's memory goes stale.
LEMMA Alone ==
    ASSUME OneAtATime, TruthInv, NEW s \in Sessions, NEW m, sess' = [sess EXCEPT ![s] = m],
           World(ledger', runs', attempts'),
           m.pc \notin {"idle", "admit"} => Held(m, ledger', runs')
    PROVE  BooksInv'
<1>1. sess'[s] = m
  BY DEF TruthInv
<1>2. \A r \in Sessions : sess'[r] = m
  BY <1>1 DEF OneAtATime
<1> QED BY <1>2 DEF BooksInv

LEMMA FailBooks ==
    ASSUME OneAtATime, TruthInv, NEW s \in Sessions, Fail(s), World(ledger', runs', attempts')
    PROVE  BooksInv'
<1> DEFINE m == [Blank EXCEPT !.exit = "error"]
<1>1. sess' = [sess EXCEPT ![s] = m]
  BY DEF Fail
<1>2. m.pc = "idle"
  BY DEF Blank
<1> HIDE DEF m
<1> QED BY <1>1, <1>2, Alone

\* The world, while no table changes that it is about.
LEMMA WorldRests ==
    ASSUME BooksInv, UNCHANGED <<ledger, runs, attempts>>
    PROVE  World(ledger', runs', attempts')
BY DEF BooksInv

\* A step that ends in a sync: what it wrote has to be in order.
LEMMA SyncBooks ==
    ASSUME OneAtATime, TruthInv, NEW s \in Sessions, NEW m \in Memory, NEW w,
           NEW then \in Continuations, Sync(s, m, w, then), World(ledger', runs', attempts'),
           m.persisted = Len(ledger'),
           w.ok => /\ InOrder(w.log, runs') /\ Extends(ledger', w.log)
                   /\ Pledge(ledger', w.log)
                   /\ then \in Pipelined => m.att \in CreatedIn(w.log)
                   /\ then \in Unrun => \A r \in runs' : r.attempt = m.att =>
                         r.generation < CurrentGeneration(w.log, m.att)
    PROVE  BooksInv'
<1>1. CASE Fail(s)
  BY <1>1, FailBooks
<1>2. CASE /\ w.ok
           /\ sess' = [sess EXCEPT ![s] = [m EXCEPT !.log = w.log, !.ids = w.n,
                                                    !.pc = "persist", !.then = then]]
  <2> DEFINE n == [m EXCEPT !.log = w.log, !.ids = w.n, !.pc = "persist", !.then = then]
  <2>1. /\ n.pc = "persist" /\ n.then = then /\ n.log = w.log
        /\ n.persisted = m.persisted /\ n.att = m.att
    BY DEF Memory
  <2>2. sess' = [sess EXCEPT ![s] = n]
    BY <1>2
  <2> HIDE DEF n
  <2>3. At(n) = then
    BY <2>1 DEF At
  <2>4. Held(n, ledger', runs')
    BY <1>2, <2>1, <2>3 DEF Held, Admitting, Ahead
  <2> QED BY <2>2, <2>4, Alone
<1> QED BY <1>1, <1>2, SyncIs

\* Where a command stands that is past its admission and not waiting for a sync.
LEMMA Standing ==
    ASSUME TruthInv, BooksInv, NEW s \in Sessions,
           sess[s].pc \in (Working \union {"return", "errored", "persist", "save"})
    PROVE  /\ sess[s] \in Memory /\ sess[s].att \in Nat /\ sess[s].task \in Tasks
           /\ sess[s].persisted = Len(ledger) /\ Extends(ledger, sess[s].log)
           /\ InOrder(sess[s].log, runs)
           /\ sess[s].pc \notin Ahead => sess[s].log = ledger
           /\ sess[s].log \in Seq(Backed) /\ sess[s].log \in Seq(Envelopes)
           /\ ledger \in Seq(Envelopes)
           /\ At(sess[s]) \in Pipelined => sess[s].att \in CreatedIn(sess[s].log)
           /\ At(sess[s]) \in Unrun => \A r \in runs : r.attempt = sess[s].att =>
                 r.generation < CurrentGeneration(sess[s].log, sess[s].att)
           /\ sess[s].pc \in {"hand", "hand_runs"} =>
                 /\ StateOf(sess[s].log, sess[s].att) = "running"
                 /\ OfKind(sess[s].log, sess[s].att, "abort_cause") = {}
           /\ sess[s].pc \in Working => Kept(ledger, sess[s].log)
           /\ sess[s].pc \notin {"persist", "save"} => At(sess[s]) = sess[s].pc
           /\ Writer(s) \in Pen /\ Writer(s).log = sess[s].log /\ Writer(s).ok
           /\ sess[s].pc \in Working =>
                 \E r \in attempts : r.attempt = sess[s].att /\ r.task = sess[s].task
<1>1. sess[s].pc \notin Admitting /\ sess[s].pc \notin {"idle", "admit"}
  BY DEF Admitting, Working
<1>2. Held(sess[s], ledger, runs)
  BY <1>1 DEF BooksInv
<1>3. /\ sess[s] \in Memory /\ sess[s].log \in Seq(Backed) /\ sess[s].log \in Seq(Envelopes)
      /\ Writer(s) \in Writers(Backed, sess[s].persisted)
      /\ Writer(s).log = sess[s].log /\ Writer(s).ok
      /\ sess[s].pc \in Working =>
            \E r \in attempts : r.attempt = sess[s].att /\ r.task = sess[s].task
  BY <1>1, Begin
<1>4. sess[s].att \in Nat /\ sess[s].task \in Tasks /\ sess[s].persisted \in Nat
  BY <1>3 DEF Memory
<1>5. Writer(s) \in Pen
  BY <1>3, <1>4, PenOf
<1>6. ledger \in Seq(Envelopes)
  BY DEF BooksInv, World, InOrder, Book
<1>7. sess[s].pc \notin {"persist", "save"} => At(sess[s]) = sess[s].pc
  BY DEF At
<1>8. sess[s].pc \in Working => Kept(ledger, sess[s].log)
  <2>1. CASE sess[s].pc \in {"prepare", "hand", "hand_runs"}
    BY <1>2, <2>1 DEF Held
  <2>2. CASE sess[s].pc \notin Ahead
    BY <1>2, <2>2 DEF Held, Kept
  <2> QED BY <2>1, <2>2 DEF Working, Ahead
<1> QED BY <1>1, <1>2, <1>3, <1>4, <1>5, <1>6, <1>7, <1>8 DEF Held

-----------------------------------------------------------------------------
(* Syncs, and the commands themselves. *)

LEMMA PersistBooks ==
    ASSUME OneAtATime, TruthInv, BooksInv, NEW s \in Sessions, PersistReceipts(s)
    PROVE  BooksInv'
<1>1. sess[s].pc = "persist" /\ UNCHANGED <<runs, attempts>>
  BY DEF PersistReceipts
<1> DEFINE m == sess[s]
<1>2. /\ m \in Memory /\ m.persisted = Len(ledger) /\ Extends(ledger, m.log)
      /\ InOrder(m.log, runs) /\ m.log \in Seq(Envelopes) /\ ledger \in Seq(Envelopes)
      /\ At(m) \in Pipelined => m.att \in CreatedIn(m.log)
      /\ At(m) \in Unrun => \A r \in runs : r.attempt = m.att =>
            r.generation < CurrentGeneration(m.log, m.att)
  BY <1>1, Standing
<1>3. CASE Fail(s) /\ UNCHANGED ledger
  BY <1>1, <1>3, WorldRests, FailBooks
<1>4. CASE /\ ledger' = ledger \o Unsynced(s)
           /\ sess' = [sess EXCEPT ![s].pc = "save", ![s].persisted = Len(sess[s].log)]
  <2> DEFINE n == [m EXCEPT !.pc = "save", !.persisted = Len(m.log)]
  <2>1. ledger' = m.log
    <3> HIDE DEF m
    <3>1. \A p, q \in Seq(Envelopes) : Len(p) <= Len(q) /\ (\A i \in 1..Len(p) : q[i] = p[i])
             => p \o SubSeq(q, Len(p) + 1, Len(q)) = q
      OBVIOUS
    <3>2. ledger \o SubSeq(m.log, Len(ledger) + 1, Len(m.log)) = m.log
      BY <1>2, <3>1 DEF Extends
    <3> QED BY <1>2, <1>4, <3>2 DEF Unsynced, m
  <2>2. sess' = [sess EXCEPT ![s] = n]
    BY <1>4 DEF TruthInv
  <2>3. /\ n.pc = "save" /\ n.persisted = Len(m.log) /\ n.log = m.log
        /\ n.then = m.then /\ n.att = m.att
    BY <1>2 DEF Memory
  <2> HIDE DEF n, m
  <2>4. At(n) = At(m)
    BY <1>1, <2>3 DEF At, m
  <2>5. World(ledger', runs', attempts')
    BY <1>1, <1>2, <2>1 DEF BooksInv, World
  <2>6. Extends(m.log, m.log)
    BY <1>2 DEF Extends
  <2>7. Held(n, ledger', runs')
    BY <1>1, <1>2, <2>1, <2>3, <2>4, <2>6 DEF Held, Admitting, Ahead
  <2> QED BY <2>2, <2>5, <2>7, Alone
<1> QED BY <1>1, <1>3, <1>4 DEF PersistReceipts

LEMMA SaveBooks ==
    ASSUME OneAtATime, TruthInv, BooksInv, NEW s \in Sessions, SaveIds(s)
    PROVE  BooksInv'
<1>1. /\ sess[s].pc = "save" /\ UNCHANGED <<ledger, runs, attempts>>
      /\ sess' = [sess EXCEPT ![s].pc = sess[s].then]
  BY DEF SaveIds, Step
<1> DEFINE m == sess[s]
           n == [m EXCEPT !.pc = m.then]
<1>2. /\ m \in Memory /\ m.persisted = Len(ledger) /\ Extends(ledger, m.log)
      /\ InOrder(m.log, runs) /\ m.log = ledger
      /\ At(m) \in Pipelined => m.att \in CreatedIn(m.log)
      /\ At(m) \in Unrun => \A r \in runs : r.attempt = m.att =>
            r.generation < CurrentGeneration(m.log, m.att)
  BY <1>1, Standing DEF Ahead
<1>3. m.then \in Continuations
  BY <1>1 DEF TruthInv, Truthful
<1>4. sess' = [sess EXCEPT ![s] = n]
  BY <1>1 DEF TruthInv
<1>5. /\ n.pc = m.then /\ n.persisted = m.persisted /\ n.log = m.log /\ n.att = m.att
  BY <1>2 DEF Memory
<1> HIDE DEF n
<1>6. At(n) = At(m)
  BY <1>1, <1>3, <1>5 DEF At, Continuations
<1>7. World(ledger', runs', attempts')
  BY <1>1, WorldRests
<1>8. Held(n, ledger', runs')
  <2>1. n.pc \notin Admitting /\ n.pc \notin {"hand", "hand_runs", "persist"}
    BY <1>3, <1>5 DEF Admitting, Continuations
  <2>2. Kept(ledger', n.log)
    BY <1>1, <1>2, <1>5 DEF Kept
  <2> HIDE DEF m
  <2> QED BY <1>1, <1>2, <1>5, <1>6, <2>1, <2>2 DEF Held
<1> QED BY <1>4, <1>7, <1>8, Alone

\* A command that starts reads what there is.
LEMMA CommandBooks ==
    ASSUME OneAtATime, TruthInv, BooksInv, NEW s \in Sessions, Command(s)
    PROVE  BooksInv'
<1>1. World(ledger', runs', attempts')
  <2>1. UNCHANGED <<ledger, runs, attempts>>
    BY DEF Command, StartRun, StartRetry, StartClose, StartResume, store
  <2> QED BY <2>1, WorldRests
<1>2. ASSUME NEW t \in Tasks, StartRun(s, t) PROVE BooksInv'
  <2> DEFINE m == [Blank EXCEPT !.pc = "admit", !.waits = TRUE, !.task = t,
                       !.hash = inputs[t], !.ids = saved + 1, !.pack = saved + 1]
  <2>1. sess' = [sess EXCEPT ![s] = m]
    BY <1>2 DEF StartRun
  <2>2. m.pc = "admit"
    BY DEF Blank
  <2> HIDE DEF m
  <2> QED BY <1>1, <2>1, <2>2, Alone
<1>3. ASSUME NEW r \in attempts, StartRetry(s, r) PROVE BooksInv'
  <2> DEFINE m == [Blank EXCEPT !.pc = "admit", !.of = r.attempt, !.task = r.task,
                       !.hash = r.hash, !.ids = saved + 1, !.pack = r.pack]
  <2>1. sess' = [sess EXCEPT ![s] = m]
    BY <1>3 DEF StartRetry
  <2>2. m.pc = "admit"
    BY DEF Blank
  <2> HIDE DEF m
  <2> QED BY <1>1, <2>1, <2>2, Alone
<1>4. ASSUME NEW m, sess' = [sess EXCEPT ![s] = m], m.pc \in {"close", "resume"},
             m.log = ledger, m.persisted = Len(ledger), UNCHANGED <<ledger, runs>>
      PROVE  BooksInv'
  <2>1. Extends(ledger, ledger) /\ InOrder(ledger, runs)
    BY DEF BooksInv, World, InOrder, Book, Extends
  <2>2. At(m) = m.pc
    BY <1>4 DEF At
  <2>3. Held(m, ledger', runs')
    BY <1>4, <2>1, <2>2 DEF Held, Admitting, Ahead, Pipelined, Unrun
  <2> QED BY <1>1, <1>4, <2>3, Alone
<1>5. ASSUME NEW r \in attempts, StartClose(s, r) PROVE BooksInv'
  <2> DEFINE m == [Blank EXCEPT !.pc = "close", !.att = r.attempt, !.task = r.task,
                       !.log = ledger, !.persisted = Len(ledger)]
  <2>1. sess' = [sess EXCEPT ![s] = m] /\ UNCHANGED <<ledger, runs>>
    BY <1>5 DEF StartClose, store
  <2>2. m.pc = "close" /\ m.log = ledger /\ m.persisted = Len(ledger)
    BY DEF Blank
  <2> HIDE DEF m
  <2> QED BY <1>4, <2>1, <2>2
<1>6. ASSUME NEW r \in attempts, StartResume(s, r) PROVE BooksInv'
  <2> DEFINE m == [Blank EXCEPT !.pc = "resume", !.att = r.attempt, !.task = r.task,
                       !.hash = r.hash, !.pack = r.pack, !.generation = r.generation,
                       !.log = ledger, !.persisted = Len(ledger)]
  <2>1. sess' = [sess EXCEPT ![s] = m] /\ UNCHANGED <<ledger, runs>>
    BY <1>6 DEF StartResume, store
  <2>2. m.pc = "resume" /\ m.log = ledger /\ m.persisted = Len(ledger)
    BY DEF Blank
  <2> HIDE DEF m
  <2> QED BY <1>4, <2>1, <2>2
<1> QED BY <1>2, <1>3, <1>5, <1>6 DEF Command

LEMMA EndBooks ==
    ASSUME OneAtATime, TruthInv, BooksInv, NEW s \in Sessions,
           Return(s) \/ ReturnError(s) \/ Crash(s)
    PROVE  BooksInv'
<1>1. World(ledger', runs', attempts')
  <2>1. UNCHANGED <<ledger, runs, attempts>>
    BY DEF Return, ReturnError, Crash, store
  <2> QED BY <2>1, WorldRests
<1>2. CASE Return(s)
  <2> DEFINE m == [Blank EXCEPT !.task = sess[s].task,
                       !.exit = IF sess[s].waits
                                THEN WaitExit(TaskSatisfied(sess[s].log, sess[s].task),
                                              Outcome(sess[s].log, sess[s].att))
                                ELSE "none"]
  <2>1. sess' = [sess EXCEPT ![s] = m]
    BY <1>2 DEF Return
  <2>2. m.pc = "idle"
    BY DEF Blank
  <2> HIDE DEF m
  <2> QED BY <1>1, <2>1, <2>2, Alone
<1>3. CASE ReturnError(s)
  BY <1>1, <1>3, FailBooks DEF ReturnError
<1>4. CASE Crash(s)
  <2>1. sess' = [sess EXCEPT ![s] = Blank]
    BY <1>4 DEF Crash
  <2>2. Blank.pc = "idle"
    BY DEF Blank
  <2> QED BY <1>1, <2>1, <2>2, Alone
<1> QED BY <1>2, <1>3, <1>4

-----------------------------------------------------------------------------
(* Admission. *)

LEMMA AdmitBooks ==
    ASSUME OneAtATime, TruthInv, BooksInv, NEW s \in Sessions, AdmitRequest(s)
    PROVE  BooksInv'
<1> DEFINE m == sess[s]
           g == RequestGeneration(ledger, m.task, m.hash, m.of)
           a == m.ids + 1
           original == Original(ledger, m.task, m.hash, g)
           x == [m EXCEPT !.log = ledger, !.persisted = Len(ledger)]
           y == [x EXCEPT !.att = original, !.pc = "persist", !.then = "return"]
           bodies == <<AttemptCreated(m.task, m.hash, g), FenceGeneration(1)>>
           z == [x EXCEPT !.att = a, !.generation = g, !.pc = "put_pack",
                          !.log = @ \o Stamp(a, a, bodies), !.ids = @ + 3]
<1>1. /\ m.pc = "admit" /\ UNCHANGED <<ledger, runs, attempts>>
      /\ \/ Fail(s)
         \/ sess' = [sess EXCEPT ![s] = y]
         \/ /\ sess' = [sess EXCEPT ![s] = z]
            /\ Refusal(ledger, m.task, m.hash, m.of) = "none" /\ original = NoAttempt
  BY DEF AdmitRequest, store
<1>2. m \in Memory
  BY DEF TruthInv, Truthful
<1>3. World(ledger', runs', attempts')
  BY <1>1, WorldRests
<1>4. /\ ledger \in Seq(Envelopes) /\ Book(ledger) /\ InOrder(ledger, runs)
      /\ Extends(ledger, ledger) /\ Pledge(ledger, ledger)
  BY DEF BooksInv, World, InOrder, Book, Extends, Pledge, Kept
<1>5. CASE Fail(s)
  BY <1>3, <1>5, FailBooks
<1>6. CASE sess' = [sess EXCEPT ![s] = y]
  <2>1. y.pc = "persist" /\ y.then = "return" /\ y.log = ledger /\ y.persisted = Len(ledger)
    <3> HIDE DEF original
    <3> QED BY <1>2 DEF Memory
  <2> HIDE DEF y
  <2>2. At(y) = "return"
    BY <2>1 DEF At
  <2>3. Held(y, ledger', runs')
    BY <1>1, <1>4, <2>1, <2>2 DEF Held, Admitting, Ahead, Pipelined, Unrun
  <2> QED BY <1>3, <1>6, <2>3, Alone
<1>7. CASE /\ sess' = [sess EXCEPT ![s] = z]
           /\ Refusal(ledger, m.task, m.hash, m.of) = "none" /\ original = NoAttempt
  <2>1. /\ z.pc = "put_pack" /\ z.log = ledger \o Stamp(a, a, bodies)
        /\ z.persisted = Len(ledger) /\ z.att = a /\ z.generation = g
        /\ z.task = m.task /\ z.hash = m.hash
    <3>1. /\ z.pc = "put_pack" /\ z.log = ledger \o Stamp(a, a, bodies)
          /\ z.persisted = Len(ledger) /\ z.att = a
      <4> HIDE DEF g, bodies
      <4> QED BY <1>2 DEF Memory
    <3>2. z.generation = g /\ z.task = m.task /\ z.hash = m.hash
      <4> HIDE DEF g, bodies
      <4> QED BY <1>2 DEF Memory
    <3> QED BY <3>1, <3>2, Zenon
  <2>2. a \in Nat /\ a # NoAttempt /\ m.task \in Tasks /\ m.hash \in Hashes
    BY <1>2, SMTT(20) DEF Memory, NoAttempt
  <2>3. g \in Nat
    BY <1>4, RequestNat
  <2> HIDE DEF z
  <2>4. z.log = ledger \o Admission(z)
    BY <2>1 DEF Admission
  <2>5. Unclaimed(ledger, z.task, z.hash, z.generation)
    <3>1. \A i \in Created(ledger) : ledger[i].attempt # NoAttempt
      BY <1>4 DEF Book, Resolves, CreatedIn
    <3>2. OneAttemptPerKey(ledger)
      BY <1>4 DEF Book
    <3> QED BY <1>4, <1>7, <2>1, <3>1, <3>2, AdmittedKey DEF Unclaimed
  <2>6. Extends(ledger, z.log)
    <3> DEFINE b == AttemptCreated(m.task, m.hash, g)
               f == FenceGeneration(1)
    <3>1. b \in Bodies /\ f \in Bodies
      BY <2>2, <2>3, BodyConstructors
    <3>2. bodies = <<b, f>>
      OBVIOUS
    <3> HIDE DEF a, b, f, bodies
    <3> DEFINE p == Receipt(a + 1, a, b)
               q == Receipt(a + 2, a, f)
    <3>3. ledger \o Stamp(a, a, bodies) = Append(Append(ledger, p), q)
      BY <1>4, <2>2, <3>1, <3>2, StampTwo DEF Receipt
    <3>4. p \in Envelopes /\ q \in Envelopes
      BY <2>2, <3>1, EnvelopeOf DEF Receipt
    <3> HIDE DEF p, q
    <3>5. Extends(ledger, Append(Append(ledger, p), q))
      BY <1>4, <3>4 DEF Extends
    <3> QED BY <2>1, <3>3, <3>5
  <2>7. At(z) = "put_pack"
    BY <2>1 DEF At
  <2>8. Held(z, ledger', runs')
    <3> HIDE DEF a
    <3> QED BY <1>1, <2>1, <2>2, <2>4, <2>5, <2>6, <2>7
            DEF Held, Admitting, Ahead, Pipelined, Unrun
  <2> QED BY <1>3, <1>7, <2>8, Alone
<1> QED BY <1>1, <1>5, <1>6, <1>7

LEMMA PutPackBooks ==
    ASSUME OneAtATime, TruthInv, BooksInv, NEW s \in Sessions, PutPack(s)
    PROVE  BooksInv'
<1> DEFINE m == sess[s]
           n == [m EXCEPT !.pc = "insert_attempt"]
<1>1. /\ m.pc = "put_pack" /\ UNCHANGED <<ledger, runs, attempts>>
      /\ Fail(s) \/ sess' = [sess EXCEPT ![s].pc = "insert_attempt"]
  BY DEF PutPack, Step
<1>2. m \in Memory /\ Held(m, ledger, runs)
  BY <1>1 DEF TruthInv, Truthful, BooksInv
<1>3. World(ledger', runs', attempts')
  BY <1>1, WorldRests
<1>4. CASE Fail(s)
  BY <1>3, <1>4, FailBooks
<1>5. CASE sess' = [sess EXCEPT ![s].pc = "insert_attempt"]
  <2>1. sess' = [sess EXCEPT ![s] = n]
    BY <1>5 DEF TruthInv
  <2>2. /\ n.pc = "insert_attempt" /\ n.log = m.log /\ n.persisted = m.persisted
        /\ n.att = m.att /\ n.task = m.task /\ n.hash = m.hash /\ n.generation = m.generation
    BY <1>2 DEF Memory
  <2> HIDE DEF n, m
  <2>3. At(n) = "insert_attempt" /\ Admission(n) = Admission(m)
    BY <2>2 DEF At, Admission
  <2>4. Held(n, ledger', runs')
    BY <1>1, <1>2, <2>2, <2>3 DEF Held, Admitting, Ahead, Pipelined, Unrun
  <2> QED BY <1>3, <2>1, <2>4, Alone
<1> QED BY <1>1, <1>4, <1>5

\* The receipts of an attempt that was not there admit it, and nothing else.
LEMMA NewPledge ==
    ASSUME NEW l \in Seq(Envelopes), NEW r \in Seq(Envelopes), NEW a \in Nat, a # NoAttempt,
           NEW K, "selection" \notin K, Adds(l, r, a, K), a \notin CreatedIn(l),
           CreatedIn(r) = CreatedIn(l) \union {a}, StateOf(r, a) = "created"
    PROVE  Pledge(l, r)
<1>1. /\ Extends(l, r)
      /\ \A x, k : x # a => OfKind(r, x, k) = OfKind(l, x, k)
      /\ AnyOfKind(r, "selection") = AnyOfKind(l, "selection")
  BY AddsKeep
<1>2. ASSUME NEW x \in CreatedIn(l) PROVE Phase(r, x) = Phase(l, x) /\ Owner(r, x) = Owner(l, x)
  <2>1. \A k : OfKind(r, x, k) = OfKind(l, x, k)
    BY <1>1
  <2> QED BY <1>1, <2>1, PhaseKept, OwnerKept
<1>3. Phase(r, a) = "open"
  BY PhaseIs DEF Over
<1>4. Phases(r) = Contract!With(Phases(l), a, "open")
  BY <1>2, <1>3 DEF Phases, Contract!With
<1>5. Owners(r)[a] = Owner(r, a)
  BY DEF Owners
<1>6. Owners(r) = Contract!With(Owners(l), a, Owners(r)[a])
  BY <1>2, <1>5 DEF Owners, Contract!With
<1>7. Chosen(r) = Chosen(l)
  BY <1>1, AllChosenKept
<1>8. a > 0 /\ a \notin DOMAIN Phases(l)
  BY DEF NoAttempt, Phases
<1>9. Admits(l, r, a)
  BY <1>4, <1>6, <1>7, <1>8 DEF Admits
<1> QED BY <1>9 DEF Pledge

\* Creation, first fence and reservation: the books of a new attempt.
LEMMA Opening ==
    ASSUME NEW l, NEW R, InOrder(l, R), NEW a \in Nat, a \notin CreatedIn(l), a # NoAttempt,
           NEW e \in Envelopes, e.attempt = a, e.body.kind = "attempt_created",
           \A i \in Created(l) : l[i].body.task = e.body.task =>
              l[i].body.hash = e.body.hash /\ l[i].body.generation # e.body.generation,
           NEW f \in Envelopes, f.attempt = a, f.body.kind = "fence_generation",
           NEW p \in Envelopes, p.attempt = a, p.body.kind = "budget",
           \A r \in R : r.attempt # a
    PROVE  LET r == Append(Append(Append(l, e), f), p)
           IN  InOrder(r, R) /\ Extends(l, r) /\ a \in CreatedIn(r) /\ Pledge(l, r)
<1> DEFINE x == Append(l, e)
           K == {"attempt_created", "fence_generation", "budget"}
           y == Append(x, f)
           z == Append(y, p)
<1>1. Book(l) /\ l \in Seq(Envelopes)
  BY DEF InOrder, Book
<1>2. /\ Book(x) /\ CreatedIn(x) = CreatedIn(l) \union {a}
      /\ StateOf(x, a) = "created"
      /\ \A k : k \notin {"attempt_created", "selection"} => OfKind(x, a, k) = {}
  <2>1. /\ Book(x) /\ CreatedIn(x) = CreatedIn(l) \union {e.attempt}
        /\ StateOf(x, e.attempt) = "created"
        /\ \A k : k \notin {"attempt_created", "selection"} => OfKind(x, e.attempt, k) = {}
    BY <1>1, BookCreate
  <2> QED BY <2>1
<1>3. /\ x \in Seq(Envelopes) /\ y \in Seq(Envelopes) /\ z \in Seq(Envelopes)
      /\ Extends(l, x) /\ Extends(l, z)
  BY <1>1 DEF Extends
<1>4. ASSUME NEW q, NEW k, k # "attempt_created" \/ q # a
      PROVE  OfKind(x, q, k) = OfKind(l, q, k)
  BY <1>1, <1>4, OfKindAppend
<1>5. Adds(l, z, a, K)
  <2>1. e.body.kind \in K /\ f.body.kind \in K /\ p.body.kind \in K
    OBVIOUS
  <2> HIDE DEF K
  <2>2. Adds(l, x, a, K)
    BY <1>1, <1>3, <2>1, AddsNone, AddsOne
  <2> HIDE DEF x
  <2>3. Adds(l, y, a, K)
    BY <1>1, <1>3, <2>1, <2>2, AddsOne
  <2> HIDE DEF y
  <2> QED BY <1>1, <1>3, <2>1, <2>3, AddsOne
<1> HIDE DEF x
<1>6. ASSUME NEW q, NEW k, q # a
      PROVE  OfKind(y, q, k) = OfKind(l, q, k)
  <2>1. OfKind(y, q, k) = OfKind(x, q, k)
    BY <1>3, <1>6, OfKindAppend
  <2> QED BY <1>4, <1>6, <2>1
<1>7. Grown(x, x, a, Entries)
  BY <1>2, GrownNone
<1>8. /\ Grown(x, y, a, Entries) /\ StateOf(y, a) = "created" /\ Extends(l, y)
      /\ Len(x) + 1 \in Fences(y, a)
  <2>1. Grown(x, y, a, Entries) /\ StateOf(y, a) = "created"
    BY <1>2, <1>3, <1>7, GrownFence DEF Entries
  <2>2. Extends(x, y) /\ Len(x) + 1 \in Fences(y, a)
    BY <1>3, NewestOfKind DEF Extends, Fences
  <2> QED BY <1>1, <1>3, <2>1, <2>2, ExtendsTwice
<1>9. OfKind(y, a, "terminal") = {} /\ OfKind(z, a, "terminal") = {}
  <2>1. OfKind(y, a, "terminal") = OfKind(x, a, "terminal")
    BY <1>3, OfKindAppend
  <2> HIDE DEF y
  <2>2. OfKind(z, a, "terminal") = OfKind(y, a, "terminal")
    BY <1>3, OfKindAppend
  <2> QED BY <1>2, <2>1, <2>2
<1> HIDE DEF y
<1>10. InOrder(y, R)
  <2>1. ASSUME NEW q PROVE Rest(y, q)
    <3>1. CASE q = a
      BY <1>8, <1>9, <3>1, RestOpen DEF Over
    <3>2. CASE q # a
      <4>1. Rest(l, q)
        BY DEF InOrder
      <4> QED BY <1>1, <1>3, <1>6, <1>8, <3>2, <4>1, RestKept
    <3> QED BY <3>1, <3>2
  <2>2. ASSUME NEW r \in R PROVE r.generation <= CurrentGeneration(y, r.attempt)
    <3>1. CurrentGeneration(y, r.attempt) = CurrentGeneration(l, r.attempt)
      BY <1>1, <1>3, <1>6, <1>8, GenerationKept
    <3> QED BY <3>1 DEF InOrder
  <2>3. ASSUME NEW q \in CreatedIn(y) PROVE Fences(y, q) # {}
    <3>1. CASE q = a
      BY <1>8, <3>1
    <3>2. CASE q # a
      <4>1. q \in CreatedIn(l)
        BY <1>2, <1>8, <3>2 DEF Grown
      <4>2. Fences(l, q) # {} /\ Fences(y, q) = Fences(l, q)
        BY <1>6, <3>2, <4>1 DEF InOrder, Guarded, Fences
      <4> QED BY <4>2
    <3> QED BY <3>1, <3>2
  <2> QED BY <1>8, <2>1, <2>2, <2>3 DEF InOrder, Guarded, Grown
<1>11. Grown(y, z, a, Entries) /\ StateOf(z, a) = "created"
  <2>1. Adds(y, z, a, {"budget"})
    BY <1>3, AddsNone, AddsOne
  <2>2. /\ {"budget"} \subseteq Entries
        /\ {"budget"} \in SUBSET {"abort_cause", "capture", "environment", "budget", "quarantine"}
    BY DEF Entries
  <2>3. Grown(y, y, a, Entries)
    BY <1>8, GrownNone DEF Grown
  <2> HIDE DEF z
  <2> QED BY <1>3, <1>8, <1>9, <2>1, <2>2, <2>3, GrownNotes
<1> HIDE DEF z
<1>12. Rest(z, a)
  BY <1>9, <1>11, RestOpen DEF Over
<1>13. InOrder(z, R)
  BY <1>11, <1>12, <1>10, OrderGrown
<1>14. a \in CreatedIn(z) /\ CreatedIn(z) = CreatedIn(l) \union {a}
  BY <1>2, <1>8, <1>11 DEF Grown
<1>15. Pledge(l, z)
  <2>1. "selection" \notin K
    OBVIOUS
  <2> HIDE DEF K
  <2> QED BY <1>1, <1>3, <1>11, <1>14, <1>5, <2>1, NewPledge
<1> QED BY <1>3, <1>13, <1>14, <1>15 DEF x, y, z

LEMMA InsertBooks ==
    ASSUME OneAtATime, TruthInv, BooksInv, NEW s \in Sessions, InsertAttempt(s)
    PROVE  BooksInv'
<1> DEFINE m == sess[s]
           row == [attempt |-> m.att, task |-> m.task, pack |-> m.pack,
                   hash |-> m.hash, generation |-> m.generation]
           b == Budget("reserve", "reserved")
           w == Put(Writer(s), m.att, b)
<1>1. /\ m.pc = "insert_attempt" /\ UNCHANGED <<ledger, runs>>
      /\ \/ Fail(s) /\ UNCHANGED attempts
         \/ /\ \A r \in attempts : r.attempt # m.att
            /\ attempts' = attempts \union {row}
            /\ Sync(s, m, w, "preflight")
  BY DEF InsertAttempt
<1>2. m \in Memory /\ Held(m, ledger, runs)
  BY <1>1 DEF TruthInv, Truthful, BooksInv
<1>3. CASE Fail(s) /\ UNCHANGED attempts
  BY <1>1, <1>3, WorldRests, FailBooks
<1>4. CASE /\ \A r \in attempts : r.attempt # m.att
           /\ attempts' = attempts \union {row}
           /\ Sync(s, m, w, "preflight")
  <2>1. World(ledger', runs', attempts')
    <3>1. row.attempt = m.att
      OBVIOUS
    <3> HIDE DEF row
    <3>2. \A r, q \in attempts' : r.attempt = q.attempt => r = q
      BY <1>4, <3>1 DEF BooksInv, World
    <3>3. \A r \in runs' : \E q \in attempts' : q.attempt = r.attempt
      BY <1>1, <1>4 DEF BooksInv, World
    <3> QED BY <1>1, <3>2, <3>3 DEF BooksInv, World
  <2>2. /\ m.att \in Nat /\ m.att # NoAttempt /\ m.log = ledger \o Admission(m)
        /\ Unclaimed(ledger, m.task, m.hash, m.generation) /\ m.persisted = Len(ledger)
        /\ m.task \in Tasks /\ m.hash \in Hashes /\ m.generation \in Nat /\ m.ids \in Nat
    BY <1>1, <1>2 DEF Memory, Held, Admitting
  <2>3. InOrder(ledger, runs) /\ ledger \in Seq(Envelopes) /\ ledger \in Seq(Backed)
    BY DEF BooksInv, World, InOrder, Book, TruthInv
  <2>4. m.att \notin CreatedIn(ledger)
    <3>1. ASSUME NEW i \in Created(ledger) PROVE ledger[i].attempt # m.att
      <4>1. i \in DOMAIN ledger /\ ledger[i].body.kind = "attempt_created"
        BY DEF Created, AnyOfKind
      <4>2. ledger[i] \in Backed
        BY <2>3, <4>1
      <4>3. Rows(ledger[i].attempt) # {}
        BY <4>1, <4>2 DEF Backed
      <4> QED BY <1>4, <4>3 DEF Rows
    <3> QED BY <3>1 DEF CreatedIn
  <2>5. \A r \in runs : r.attempt # m.att
    BY <1>4 DEF BooksInv, World
  <2> DEFINE c == AttemptCreated(m.task, m.hash, m.generation)
             g == FenceGeneration(1)
             e == Receipt(m.att + 1, m.att, c)
             f == Receipt(m.att + 2, m.att, g)
             p == Receipt(m.ids + 1, m.att, b)
             l == Append(Append(ledger, e), f)
  <2>6. /\ c \in Bodies /\ g \in Bodies /\ b \in Bodies
        /\ c.kind = "attempt_created" /\ g.kind = "fence_generation" /\ b.kind = "budget"
        /\ c.task = m.task /\ c.hash = m.hash /\ c.generation = m.generation
    <3>1. c \in Bodies /\ g \in Bodies
      BY <2>2, BodyConstructors
    <3>2. b \in Bodies
      BY DEF Budget, Bodies
    <3> QED BY <3>1, <3>2 DEF AttemptCreated, FenceGeneration, Budget
  <2>7. m.log = l
    <3>1. Admission(m) = Stamp(m.att, m.att, <<c, g>>)
      BY DEF Admission
    <3> HIDE DEF c, g, m
    <3>2. ledger \o Stamp(m.att, m.att, <<c, g>>) =
             Append(Append(ledger, [id |-> m.att + 1, attempt |-> m.att, body |-> c]),
                    [id |-> m.att + 2, attempt |-> m.att, body |-> g])
      <4>1. m.att \in Nat /\ ledger \in Seq(Envelopes) /\ c \in Bodies /\ g \in Bodies
        BY <2>2, <2>3, <2>6
      <4> QED BY <4>1, StampTwo, Zenon
    <3> QED BY <2>2, <3>1, <3>2 DEF Receipt
  <2> HIDE DEF c, g, b
  <2>8. /\ e \in Envelopes /\ e.attempt = m.att /\ e.body = c
        /\ f \in Envelopes /\ f.attempt = m.att /\ f.body = g
        /\ p \in Envelopes /\ p.attempt = m.att /\ p.body = b
    <3>1. m.att + 1 \in Nat /\ m.att + 2 \in Nat /\ m.ids + 1 \in Nat
      BY <2>2
    <3> HIDE DEF m
    <3>2. /\ [id |-> m.att + 1, attempt |-> m.att, body |-> c] \in Envelopes
          /\ [id |-> m.att + 2, attempt |-> m.att, body |-> g] \in Envelopes
          /\ [id |-> m.ids + 1, attempt |-> m.att, body |-> b] \in Envelopes
      <4>1. c \in Bodies /\ g \in Bodies /\ b \in Bodies
        BY <2>6
      <4> QED BY <2>2, <3>1, <4>1, EnvelopeOf, Zenon
    <3> QED BY <3>2 DEF Receipt
  <2>9. l \in Seq(Envelopes)
    <3> HIDE DEF e, f
    <3> QED BY <2>3, <2>8
  <2>10. w.log = Append(l, p)
    <3>1. Writer(s) \in Pen /\ Writer(s).log = l /\ Writer(s).n = m.ids
      BY <1>2, <2>2, <2>7, <2>9, SMTT(20) DEF Writer, Pen, Writers, Memory
    <3> HIDE DEF l
    <3>2. Receipt(Writer(s).n + 1, m.att, b) \in Envelopes
      BY <2>8, <3>1
    <3> QED BY <3>1, <3>2, PutIs DEF Pen
  <2> HIDE DEF e, f, p, w
  <2>11. /\ InOrder(Append(l, p), runs) /\ Extends(ledger, Append(l, p))
         /\ m.att \in CreatedIn(Append(l, p)) /\ Pledge(ledger, Append(l, p))
    <3>1. \A i \in Created(ledger) : ledger[i].body.task = e.body.task =>
             ledger[i].body.hash = e.body.hash /\ ledger[i].body.generation # e.body.generation
      BY <2>2, <2>6, <2>8 DEF Unclaimed
    <3> QED BY <2>2, <2>3, <2>4, <2>5, <2>6, <2>8, <3>1, Opening
  <2> HIDE DEF l
  <2>12. "preflight" \in Continuations
    BY DEF Continuations
  <2> HIDE DEF m
  <2> QED BY <1>1, <1>2, <1>4, <2>1, <2>2, <2>5, <2>10, <2>11, <2>12, SyncBooks
<1> QED BY <1>1, <1>3, <1>4

-----------------------------------------------------------------------------
(* The pipeline. *)

LEMMA WroteState ==
    ASSUME NEW w, NEW x, NEW a, NEW body, Wrote(w, x, a, body), body.kind # "transition"
    PROVE  StateOf(x.log, a) = StateOf(w.log, a)
<1>1. PICK e \in Envelopes : e.attempt = a /\ e.body = body /\ x.log = Append(w.log, e)
  BY DEF Wrote
<1>2. StateOf(Append(w.log, e), a) = StateOf(w.log, a)
  BY <1>1, StateOfAppend DEF Wrote
<1> QED BY <1>1, <1>2

\* A verdict follows nothing that was refused, nor does an abort, and an abort
\* nothing that is over.
LEMMA ConcludeFrom ==
    ASSUME NEW w \in Pen, NEW a \in Nat, Conclude(w, a).ok
    PROVE  w.ok
<1> DEFINE v == Classify(w.log, a)
           x == Put(w, a, Terminal(v))
           y == Go(x, a, "terminal", "classification_complete", x.n)
           z == Go(y, a, "closed", "close", 0)
<1>1. v # "insufficient" /\ z.ok
  <2>1. Conclude(w, a) = IF v = "insufficient" THEN [w EXCEPT !.ok = FALSE] ELSE z
    BY ConcludeIs
  <2>2. [w EXCEPT !.ok = FALSE].ok = FALSE
    BY DEF Pen, Writers
  <2> HIDE DEF z, v
  <2> QED BY <2>1, <2>2
<1>2. v \in Outcomes
  BY <1>1, ClassifyType DEF Pen, Writers
<1> HIDE DEF v
<1>3. Wrote(w, x, a, Terminal(v))
  BY <1>2, BodyConstructors, PutGrows
<1> HIDE DEF x
<1>4. x \in Pen /\ x.n \in Nat /\ x.ok = w.ok
  BY <1>3 DEF Wrote
<1>5. y \in Pen /\ (y.ok => Walked(x, y, a, "terminal"))
  BY <1>4, GoFrom DEF States, Causes
<1> HIDE DEF y
<1>6. z.ok => Walked(y, z, a, "closed")
  BY <1>5, GoFrom DEF States, Causes
<1> HIDE DEF z
<1> QED BY <1>1, <1>4, <1>5, <1>6 DEF Walked

LEMMA AbortToFrom ==
    ASSUME NEW w \in Pen, NEW a \in Nat
    PROVE  /\ AbortTo(w, a) \in Pen
           /\ AbortTo(w, a).ok =>
                 w.ok /\ StateOf(w.log, a) \notin Over \union {"recovery_pending"}
<1> DEFINE b == AbortCause("cancelled")
           x == Put(w, a, b)
           z == Go(x, a, "classifying", "abort", x.n)
<1>1. AbortTo(w, a) = z
  BY AbortToIs
<1>2. b \in Bodies /\ b.kind = "abort_cause"
  BY BodyConstructors DEF AbortCause, Aborts
<1> HIDE DEF b
<1>3. Wrote(w, x, a, b)
  BY <1>2, PutGrows
<1> HIDE DEF x
<1>4. x \in Pen /\ x.n \in Nat /\ x.ok = w.ok /\ StateOf(x.log, a) = StateOf(w.log, a)
  <2>1. x \in Pen /\ x.n \in Nat /\ x.ok = w.ok
    BY <1>3 DEF Wrote
  <2>2. b.kind # "transition"
    BY <1>2
  <2>3. StateOf(x.log, a) = StateOf(w.log, a)
    BY <1>3, <2>2, WroteState, Zenon
  <2> QED BY <2>1, <2>3
<1>5. z \in Pen /\ (z.ok => Walked(x, z, a, "classifying"))
  BY <1>4, GoFrom DEF States, Causes
<1> HIDE DEF z
<1>6. \A st : <<st, "classifying">> \in Edges => st \notin Over \union {"recovery_pending"}
  BY DEF Edges, Pipeline, Over
<1> QED BY <1>1, <1>4, <1>5, <1>6 DEF Walked

\* A cancelled command judges and closes its attempt.
LEMMA CancelBooks ==
    ASSUME OneAtATime, TruthInv, BooksInv, UNCHANGED <<ledger, runs, attempts>>,
           NEW s \in Sessions, sess[s].pc \in {"preflight", "prerun"}, sess[s].att \in flags,
           NEW w \in Writers(Backed, sess[s].persisted),
           w.ok => /\ Grown(sess[s].log, w.log, sess[s].att, Running)
                   /\ StateOf(w.log, sess[s].att) \notin Over \union {"recovery_pending"} =>
                         /\ OfKind(w.log, sess[s].att, "terminal") = {}
                         /\ StateOf(sess[s].log, sess[s].att) # "recovery_pending",
           Sync(s, sess[s], Conclude(AbortTo(w, sess[s].att), sess[s].att), "return")
    PROVE  BooksInv'
<1> DEFINE m == sess[s]
           a == m.att
           y == AbortTo(w, a)
           z == Conclude(y, a)
<1>1. /\ m \in Memory /\ a \in Nat /\ m.persisted = Len(ledger) /\ m.log = ledger
      /\ InOrder(ledger, runs) /\ ledger \in Seq(Envelopes) /\ m.persisted \in Nat
  BY Standing DEF Working, Ahead, Memory
<1>2. w \in Pen
  BY <1>1, PenOf
<1>3. /\ y \in Pen
      /\ y.ok => w.ok /\ StateOf(w.log, a) \notin Over \union {"recovery_pending"}
  BY <1>1, <1>2, AbortToFrom
<1>4. y \in Writers(Backed, m.persisted)
  <2>1. \A n \in Nat : Receipt(n, a, AbortCause("cancelled")) \in Backed
    BY <1>1, CancelBacked
  <2> QED BY <1>1, <2>1, PlainBacked, AbortToWrites
<1>5. z.ok => y.ok
  BY <1>1, <1>3, ConcludeFrom
<1>6. ASSUME z.ok
      PROVE  InOrder(z.log, runs) /\ Extends(ledger, z.log) /\ Pledge(ledger, z.log)
  <2>1. /\ y.ok /\ w.ok /\ Grown(ledger, w.log, a, Running) /\ OfKind(w.log, a, "terminal") = {}
        /\ StateOf(ledger, a) # "recovery_pending"
    BY <1>1, <1>3, <1>5, <1>6
  <2>2. Running \in SUBSET Entries /\ {"transition", "abort_cause", "terminal"} \subseteq Running
    BY DEF Running, Entries
  <2>3. Grown(ledger, y.log, a, Running) /\ OfKind(y.log, a, "terminal") = {}
    BY <1>1, <1>2, <2>1, <2>2, AbortToGrows
  <2>4. OnlyCancelled(y.log, a)
    BY <1>4, BackedAborts DEF Writers
  <2> HIDE DEF y
  <2>5. /\ Grown(ledger, z.log, a, Running) /\ StateOf(z.log, a) = "closed"
        /\ OfKind(z.log, a, "terminal") # {} /\ Outcome(z.log, a) # "unknown"
    BY <1>1, <1>3, <1>6, <2>2, <2>3, <2>4, ConcludeGrows
  <2> HIDE DEF z
  <2>6. Rest(z.log, a)
    BY <2>5 DEF Rest, Over
  <2>7. Filed(ledger, a) /\ Rest(ledger, a)
    BY <1>1 DEF InOrder, Book
  <2>8. Pledge(ledger, z.log)
    BY <1>1, <2>1, <2>2, <2>5, <2>6, <2>7, GrownPledge DEF LossMarked
  <2> QED BY <1>1, <2>2, <2>5, <2>6, <2>8, GrownEnd
<1> HIDE DEF z
<1>7. World(ledger', runs', attempts')
  BY WorldRests
<1>8. "return" \in Continuations /\ "return" \notin Pipelined /\ "return" \notin Unrun
  BY DEF Continuations, Pipelined, Unrun
<1>9. Sync(s, m, z, "return")
  BY DEF z
<1> HIDE DEF m
<1> QED BY <1>1, <1>6, <1>7, <1>8, <1>9, SyncBooks

LEMMA WalkFrom ==
    ASSUME NEW w \in Pen, NEW a \in Nat, NEW to \in States
    PROVE  /\ Walk(w, a, to) \in Pen
           /\ Walk(w, a, to).ok => Walked(w, Walk(w, a, to), a, to)
BY GoFrom DEF Walk, Causes

\* An edge other than the last leaves from where nothing was judged.
LEMMA WalkedOpen ==
    ASSUME NEW w, NEW x, NEW a, NEW to, Walked(w, x, a, to), to # "closed", Rest(w.log, a)
    PROVE  OfKind(w.log, a, "terminal") = {} /\ OfKind(x.log, a, "terminal") = {}
<1>1. \A st : <<st, to>> \in Edges => st \notin Over
  BY DEF Edges, Pipeline, Over
<1>2. StateOf(w.log, a) \notin Over
  BY <1>1 DEF Walked
<1> QED BY <1>2 DEF Walked, Rest

LEMMA PreflightBooks ==
    ASSUME OneAtATime, TruthInv, BooksInv, NEW s \in Sessions, Preflight(s)
    PROVE  BooksInv'
<1> DEFINE m == sess[s]
           w == Walk(Writer(s), m.att, "admitted")
           go == Walk(w, m.att, "preparing")
           n == [m EXCEPT !.pc = "prepare", !.log = go.log, !.ids = go.n]
<1>1. /\ m.pc = "preflight" /\ UNCHANGED <<ledger, runs, attempts>>
      /\ \/ m.att \in flags /\ Sync(s, m, Conclude(AbortTo(w, m.att), m.att), "return")
         \/ go.ok /\ sess' = [sess EXCEPT ![s] = n]
         \/ Fail(s)
  BY DEF Preflight, store
<1>2. /\ m \in Memory /\ m.att \in Nat /\ m.persisted = Len(ledger) /\ m.log = ledger
      /\ InOrder(m.log, runs) /\ m.log \in Seq(Envelopes) /\ m.att \in CreatedIn(m.log)
      /\ \A r \in runs : r.attempt = m.att => r.generation < CurrentGeneration(m.log, m.att)
      /\ Writer(s) \in Pen /\ Writer(s).log = m.log
  BY <1>1, Standing DEF Working, Ahead, Pipelined, Unrun
<1>3. Rest(m.log, m.att) /\ Book(m.log)
  BY <1>2 DEF InOrder
<1>4. Running \in SUBSET Entries /\ "transition" \in Running
  BY DEF Running, Entries
<1>5. World(ledger', runs', attempts')
  BY <1>1, WorldRests
<1>6. w \in Pen /\ (w.ok => Walked(Writer(s), w, m.att, "admitted"))
  BY <1>2, WalkFrom DEF States
<1>7. w.ok => /\ Grown(m.log, w.log, m.att, Running) /\ OfKind(w.log, m.att, "terminal") = {}
              /\ StateOf(m.log, m.att) = "created"
  <2>1. Grown(m.log, m.log, m.att, Running)
    BY <1>2, <1>3, GrownNone
  <2>2. \A st : <<st, "admitted">> \in Edges => st = "created"
    BY DEF Edges, Pipeline
  <2>3. w.ok => StateOf(m.log, m.att) = "created"
    BY <1>2, <1>6, <2>2 DEF Walked
  <2>4. w.ok => Grown(m.log, w.log, m.att, Running)
    <3> HIDE DEF w, m
    <3> QED BY <1>2, <1>3, <1>4, <1>6, <2>1, WalkedGrows
  <2>5. w.ok => OfKind(w.log, m.att, "terminal") = {}
    <3> HIDE DEF w, m
    <3> QED BY <1>2, <1>3, <1>4, <1>6, WalkedOpen
  <2> QED BY <2>3, <2>4, <2>5
<1>8. CASE m.att \in flags /\ Sync(s, m, Conclude(AbortTo(w, m.att), m.att), "return")
  <2>1. w \in Writers(Backed, m.persisted)
    <3>1. Writer(s) \in Writers(Backed, m.persisted) /\ m.persisted \in Nat
      BY <1>1, <1>2, Begin DEF Admitting
    <3> QED BY <1>2, <3>1, WalkWrites DEF States
  <2> HIDE DEF w
  <2> QED BY <1>1, <1>7, <1>8, <2>1, CancelBooks
<1>9. CASE go.ok /\ sess' = [sess EXCEPT ![s] = n]
  <2> HIDE DEF w
  <2>1. go.ok => Walked(w, go, m.att, "preparing")
    BY <1>2, <1>6, WalkFrom DEF States
  <2>2. Walked(w, go, m.att, "preparing")
    BY <1>9, <2>1
  <2> HIDE DEF go
  <2>3. w.ok
    BY <2>2 DEF Walked
  <2>4. /\ Grown(m.log, go.log, m.att, Running) /\ StateOf(go.log, m.att) = "preparing"
        /\ OfKind(go.log, m.att, "terminal") = {}
    <3>1. Grown(m.log, go.log, m.att, Running) /\ StateOf(go.log, m.att) = "preparing"
      BY <1>2, <1>4, <1>7, <2>2, <2>3, WalkedGrows
    <3> QED BY <1>7, <2>2, <2>3, <3>1 DEF Walked
  <2>5. Rest(go.log, m.att)
    BY <2>4, RestOpen DEF Over
  <2>6. /\ InOrder(go.log, runs) /\ Extends(m.log, go.log) /\ m.att \in CreatedIn(go.log)
        /\ CurrentGeneration(go.log, m.att) = CurrentGeneration(m.log, m.att)
        /\ Kept(m.log, go.log)
    <3>1. Kept(m.log, go.log)
      BY <1>2, <1>4, <1>7, <2>3, <2>4, SteadyKept DEF Over
    <3> QED BY <1>2, <1>4, <2>4, <2>5, <3>1, GrownEnd
  <2>7. /\ n.pc = "prepare" /\ n.log = go.log /\ n.persisted = m.persisted /\ n.att = m.att
    BY <1>2 DEF Memory
  <2> HIDE DEF n, m
  <2>8. At(n) = "prepare"
    BY <2>7 DEF At
  <2>9. Held(n, ledger', runs')
    BY <1>1, <1>2, <2>6, <2>7, <2>8 DEF Held, Admitting, Ahead, Pipelined, Unrun
  <2> QED BY <1>5, <1>9, <2>9, Alone
<1> QED BY <1>1, <1>5, <1>8, <1>9, FailBooks

LEMMA PrepareBooks ==
    ASSUME OneAtATime, TruthInv, BooksInv, NEW s \in Sessions, Prepare(s)
    PROVE  BooksInv'
<1> DEFINE m == sess[s]
           w == Put(Writer(s), m.att, Environment)
<1>1. /\ m.pc = "prepare" /\ UNCHANGED <<ledger, runs, attempts>> /\ Sync(s, m, w, "prerun")
  BY DEF Prepare, store
<1>2. /\ m \in Memory /\ m.att \in Nat /\ m.persisted = Len(ledger) /\ Extends(ledger, m.log)
      /\ InOrder(m.log, runs) /\ m.log \in Seq(Envelopes) /\ m.att \in CreatedIn(m.log)
      /\ ledger \in Seq(Envelopes) /\ Kept(ledger, m.log)
      /\ \A r \in runs : r.attempt = m.att => r.generation < CurrentGeneration(m.log, m.att)
      /\ Writer(s) \in Pen /\ Writer(s).log = m.log
  BY <1>1, Standing DEF Working, Pipelined, Unrun
<1>3. Rest(m.log, m.att) /\ Book(m.log)
  BY <1>2 DEF InOrder
<1>4. Environment \in Bodies /\ Environment.kind = "environment"
  BY DEF Environment, Bodies
<1>5. Wrote(Writer(s), w, m.att, Environment)
  BY <1>2, <1>4, PutGrows
<1> HIDE DEF w
<1>6. PICK e \in Envelopes :
         e.attempt = m.att /\ e.body = Environment /\ w.log = Append(m.log, e)
  BY <1>2, <1>5 DEF Wrote
<1>7. /\ \A k : k # "environment" => OfKind(w.log, m.att, k) = OfKind(m.log, m.att, k)
      /\ StateOf(w.log, m.att) = StateOf(m.log, m.att)
  <2>1. Environment.kind # "transition"
    BY <1>4
  <2>2. StateOf(w.log, m.att) = StateOf(Writer(s).log, m.att)
    <3> HIDE DEF m
    <3> QED BY <1>5, <2>1, WroteState
  <2>3. \A k : k # "environment" => OfKind(w.log, m.att, k) = OfKind(Writer(s).log, m.att, k)
    BY <1>4, <1>5, Zenon DEF Wrote
  <2> QED BY <1>2, <2>2, <2>3
<1>8. w.log \in Seq(Envelopes) /\ Extends(m.log, w.log)
  BY <1>2, <1>6 DEF Extends
<1>9. Filed(w.log, m.att)
  <2>1. \A k \in FiledKinds : OfKind(w.log, m.att, k) = OfKind(m.log, m.att, k)
    BY <1>7 DEF FiledKinds
  <2>2. Filed(m.log, m.att)
    BY <1>3 DEF Book
  <2>3. OfKind(m.log, m.att, "commit") # {} => StateOf(w.log, m.att) \in Committed
    BY <1>7, <2>2 DEF Filed, OneCommit
  <2> QED BY <1>2, <1>8, <2>1, <2>2, <2>3, FiledKept
<1>10. Running \in SUBSET Entries /\ "environment" \in Running
  BY DEF Running, Entries
<1>11. Grown(m.log, w.log, m.att, Running)
  <2>1. Grown(m.log, m.log, m.att, Running)
    BY <1>2, <1>3, GrownNone
  <2> HIDE DEF m
  <2> QED BY <1>2, <1>4, <1>6, <1>9, <1>10, <2>1, GrownOne
<1>12. Rest(w.log, m.att)
  BY <1>2, <1>3, <1>7, <1>8, RestKept
<1>13. /\ InOrder(w.log, runs) /\ m.att \in CreatedIn(w.log) /\ Extends(ledger, w.log)
       /\ CurrentGeneration(w.log, m.att) = CurrentGeneration(m.log, m.att)
  BY <1>2, <1>8, <1>10, <1>11, <1>12, GrownEnd, ExtendsTwice
<1>14. World(ledger', runs', attempts') /\ "prerun" \in Continuations
  BY <1>1, WorldRests DEF Continuations
<1>15. Pledge(ledger, w.log)
  <2>1. Filed(m.log, m.att)
    BY <1>3 DEF Book
  <2> HIDE DEF m
  <2>2. Pledge(m.log, w.log)
    BY <1>2, <1>3, <1>7, <1>10, <1>11, <1>12, <2>1, GrownPledge DEF LossMarked
  <2> QED BY <1>2, <2>2, KeptPledge
<1> HIDE DEF m
<1> QED BY <1>1, <1>2, <1>13, <1>14, <1>15, SyncBooks

\* The run of a generation that had none.
LEMMA EnterBooks ==
    ASSUME OneAtATime, TruthInv, BooksInv, NEW s \in Sessions, EnterRunning(s)
    PROVE  BooksInv'
<1> DEFINE m == sess[s]
           w == Walk(Writer(s), m.att, "running")
           run == w.n + 1
           g == CurrentGeneration(w.log, m.att)
           row == [run |-> run, attempt |-> m.att, generation |-> g]
           n == [m EXCEPT !.pc = "hand", !.log = w.log, !.ids = run + 1,
                          !.run = run, !.fence = g]
<1>1. /\ m.pc = "prerun" /\ UNCHANGED <<ledger, attempts>>
      /\ \/ /\ m.att \in flags /\ UNCHANGED runs
            /\ Sync(s, m, Conclude(AbortTo(Writer(s), m.att), m.att), "return")
         \/ Fail(s) /\ UNCHANGED runs
         \/ /\ m.att \notin flags /\ w.ok /\ \A r \in runs : r.run # run
            /\ runs' = runs \union {row} /\ sess' = [sess EXCEPT ![s] = n]
  BY DEF EnterRunning
<1>2. /\ m \in Memory /\ m.att \in Nat /\ m.persisted = Len(ledger) /\ m.log = ledger
      /\ InOrder(m.log, runs) /\ m.log \in Seq(Envelopes) /\ m.att \in CreatedIn(m.log)
      /\ m.log \in Seq(Backed)
      /\ \A r \in runs : r.attempt = m.att => r.generation < CurrentGeneration(m.log, m.att)
      /\ Writer(s) \in Pen /\ Writer(s).log = m.log
      /\ \E q \in attempts : q.attempt = m.att
  BY <1>1, Standing DEF Working, Ahead, Pipelined, Unrun
<1>3. Rest(m.log, m.att) /\ Book(m.log)
  BY <1>2 DEF InOrder
<1>4. Running \in SUBSET Entries /\ "transition" \in Running
  BY DEF Running, Entries
<1>5. Grown(m.log, m.log, m.att, Running)
  BY <1>2, <1>3, GrownNone
<1>6. CASE /\ m.att \in flags /\ UNCHANGED runs
           /\ Sync(s, m, Conclude(AbortTo(Writer(s), m.att), m.att), "return")
  <2>1. Writer(s) \in Writers(Backed, m.persisted)
    BY <1>1, Begin DEF Admitting
  <2>2. StateOf(m.log, m.att) \notin Over \union {"recovery_pending"} =>
           /\ OfKind(m.log, m.att, "terminal") = {}
           /\ StateOf(m.log, m.att) # "recovery_pending"
    BY <1>3 DEF Rest
  <2> QED BY <1>1, <1>2, <1>5, <1>6, <2>1, <2>2, CancelBooks
<1>7. CASE Fail(s) /\ UNCHANGED runs
  BY <1>1, <1>7, WorldRests, FailBooks
<1>8. CASE /\ m.att \notin flags /\ w.ok /\ \A r \in runs : r.run # run
           /\ runs' = runs \union {row} /\ sess' = [sess EXCEPT ![s] = n]
  <2>1. Walked(Writer(s), w, m.att, "running")
    BY <1>2, <1>8, WalkFrom DEF States
  <2>2. row.run = run /\ row.attempt = m.att /\ row.generation = g
    OBVIOUS
  <2>3. /\ n.pc = "hand" /\ n.log = w.log /\ n.persisted = m.persisted /\ n.att = m.att
    BY <1>2 DEF Memory
  <2>4. runs' = runs \union {row} /\ sess' = [sess EXCEPT ![s] = n]
    BY <1>8
  <2>5. \A r \in runs : r.run # run
    BY <1>8
  <2> HIDE DEF w, run, row, n, m
  <2>6. /\ Grown(m.log, w.log, m.att, Running) /\ StateOf(w.log, m.att) = "running"
        /\ OfKind(w.log, m.att, "terminal") = {}
        /\ OfKind(w.log, m.att, "abort_cause") = OfKind(m.log, m.att, "abort_cause")
    <3>1. Grown(m.log, w.log, m.att, Running) /\ StateOf(w.log, m.att) = "running"
      BY <1>2, <1>4, <1>5, <2>1, WalkedGrows
    <3>2. OfKind(w.log, m.att, "terminal") = {}
      BY <1>2, <1>3, <2>1, WalkedOpen
    <3> QED BY <1>2, <2>1, <3>1, <3>2 DEF Walked
  <2>7. Rest(w.log, m.att)
    BY <2>6, RestOpen DEF Over
  <2>8. /\ InOrder(w.log, runs) /\ Extends(m.log, w.log) /\ m.att \in CreatedIn(w.log)
        /\ g = CurrentGeneration(m.log, m.att)
    BY <1>2, <1>4, <2>6, <2>7, GrownEnd DEF g
  <2>9. g \in Nat
    BY <1>2, <2>8, FenceType
  <2>10. InOrder(ledger, runs') /\ InOrder(w.log, runs')
    <3>1. g <= CurrentGeneration(m.log, m.att) /\ g <= CurrentGeneration(w.log, m.att)
      BY <2>8, <2>9 DEF g
    <3> HIDE DEF g
    <3> QED BY <1>2, <2>2, <2>4, <2>8, <3>1 DEF InOrder
  <2>11. World(ledger', runs', attempts')
    <3> HIDE DEF g
    <3>1. /\ \A r, q \in attempts : r.attempt = q.attempt => r = q
          /\ \A r, q \in runs : r.run = q.run => r = q
          /\ \A r, q \in runs : r.attempt = q.attempt /\ r.generation = q.generation => r = q
          /\ \A r \in runs : \E q \in attempts : q.attempt = r.attempt
      BY DEF BooksInv, World
    <3>2. \A r, q \in runs' : r.run = q.run => r = q
      BY <2>2, <2>4, <2>5, <3>1
    <3>3. \A r \in runs : r.attempt = m.att => r.generation # g
      <4>1. ASSUME NEW r \in runs, r.attempt = m.att PROVE r.generation # g
        <5>1. r.generation < g
          BY <1>2, <2>8, <4>1
        <5>2. r.generation \in Nat
          BY DEF TruthInv, Tables
        <5> QED BY <2>9, <5>1, <5>2
      <4> QED BY <4>1
    <3>4. \A r, q \in runs' :
             r.attempt = q.attempt /\ r.generation = q.generation => r = q
      BY <2>2, <2>4, <3>1, <3>3
    <3>5. \A r \in runs' : \E q \in attempts : q.attempt = r.attempt
      BY <1>2, <2>2, <2>4, <3>1
    <3> QED BY <1>1, <2>10, <3>1, <3>2, <3>4, <3>5 DEF World, m
  <2>12. OfKind(m.log, m.att, "abort_cause") = {}
    <3>1. m.att \notin flags
      BY <1>8 DEF m
    <3>2. \A i \in DOMAIN m.log : m.log[i] \in Backed
      BY <1>2
    <3> QED BY <3>1, <3>2, Zenon DEF OfKind, Backed
  <2>13. At(n) = "hand" /\ Kept(m.log, w.log)
    <3>1. \A st : <<st, "running">> \in Edges => st \notin Over \union {"recovery_pending"}
      BY DEF Edges, Pipeline, Over
    <3>2. StateOf(m.log, m.att) \notin Over \union {"recovery_pending"}
      BY <1>2, <2>1, <3>1 DEF Walked
    <3>3. Kept(m.log, w.log)
      BY <1>2, <1>4, <2>6, <3>2, SteadyKept DEF Over
    <3> QED BY <2>3, <3>3 DEF At
  <2>14. Held(n, ledger', runs')
    BY <1>1, <1>2, <2>3, <2>6, <2>8, <2>10, <2>12, <2>13
       DEF Held, Admitting, Ahead, Pipelined, Unrun
  <2> QED BY <2>4, <2>11, <2>14, Alone
<1> QED BY <1>1, <1>6, <1>7, <1>8

\* A step that grows the books of its attempt within the generation that is
\* current, and syncs.
LEMMA GrowBooks ==
    ASSUME OneAtATime, TruthInv, BooksInv, UNCHANGED <<ledger, runs, attempts>>,
           NEW s \in Sessions, sess[s].pc \in Working,
           NEW m \in Memory, m.persisted = sess[s].persisted, m.att = sess[s].att,
           NEW x, NEW then \in Continuations \ Unrun, Sync(s, m, x, then),
           x.ok => /\ Grown(sess[s].log, x.log, m.att, Running) /\ Rest(x.log, m.att)
                   /\ LossMarked(sess[s].log, x.log, m.att)
    PROVE  BooksInv'
<1> DEFINE l == sess[s].log
<1>1. /\ sess[s].persisted = Len(ledger) /\ Extends(ledger, l) /\ InOrder(l, runs)
      /\ l \in Seq(Envelopes) /\ ledger \in Seq(Envelopes) /\ Kept(ledger, l)
  BY Standing
<1>2. Running \in SUBSET Running
  OBVIOUS
<1> HIDE DEF l
<1>3. ASSUME x.ok
      PROVE  /\ InOrder(x.log, runs) /\ Extends(ledger, x.log) /\ m.att \in CreatedIn(x.log)
             /\ Pledge(ledger, x.log)
  <2>1. Grown(l, x.log, m.att, Running) /\ Rest(x.log, m.att) /\ LossMarked(l, x.log, m.att)
    BY <1>3 DEF l
  <2>2. /\ InOrder(x.log, runs) /\ x.log \in Seq(Envelopes) /\ Extends(l, x.log)
        /\ m.att \in CreatedIn(x.log)
    BY <1>1, <1>2, <2>1, GrownEnd
  <2>3. Filed(l, m.att) /\ Rest(l, m.att) /\ Running \in SUBSET Entries
    BY <1>1 DEF InOrder, Book, Running
  <2>4. Pledge(l, x.log)
    BY <1>1, <2>1, <2>3, GrownPledge
  <2>5. Pledge(ledger, x.log)
    BY <1>1, <2>4, KeptPledge
  <2> QED BY <1>1, <2>2, <2>5, ExtendsTwice
<1>4. World(ledger', runs', attempts')
  BY WorldRests
<1> QED BY <1>1, <1>3, <1>4, SyncBooks

\* The attempt a command works on, with its books before the step.
LEMMA Attending ==
    ASSUME TruthInv, BooksInv, NEW s \in Sessions, sess[s].pc \in Pipelined
    PROVE  /\ sess[s].pc \in Working /\ sess[s] \in Memory /\ sess[s].att \in Nat
           /\ sess[s].log \in Seq(Envelopes) /\ sess[s].log \in Seq(Backed)
           /\ Writer(s) \in Pen /\ Writer(s).log = sess[s].log /\ Writer(s).ok
           /\ Rest(sess[s].log, sess[s].att) /\ Filed(sess[s].log, sess[s].att)
           /\ Grown(sess[s].log, sess[s].log, sess[s].att, Running)
           /\ Running \in SUBSET Entries
<1>1. sess[s].pc \in Working /\ sess[s].pc \notin {"persist", "save"}
  BY DEF Pipelined, Working
<1>2. /\ sess[s] \in Memory /\ sess[s].att \in Nat
      /\ sess[s].log \in Seq(Envelopes) /\ sess[s].log \in Seq(Backed)
      /\ Writer(s) \in Pen /\ Writer(s).log = sess[s].log /\ Writer(s).ok
      /\ InOrder(sess[s].log, runs) /\ sess[s].att \in CreatedIn(sess[s].log)
  BY <1>1, Standing
<1>3. Rest(sess[s].log, sess[s].att) /\ Book(sess[s].log)
  BY <1>2 DEF InOrder
<1>4. Filed(sess[s].log, sess[s].att) /\ Grown(sess[s].log, sess[s].log, sess[s].att, Running)
  BY <1>2, <1>3, GrownNone DEF Book
<1> QED BY <1>1, <1>2, <1>3, <1>4 DEF Running

LEMMA HandStartsBooks ==
    ASSUME OneAtATime, TruthInv, BooksInv, NEW s \in Sessions, HandStarts(s)
    PROVE  BooksInv'
<1> DEFINE m == sess[s]
           n == [m EXCEPT !.pc = "hand_runs"]
<1>1. /\ m.pc = "hand" /\ UNCHANGED <<ledger, runs, attempts>>
      /\ Fail(s) \/ sess' = [sess EXCEPT ![s].pc = "hand_runs"]
  BY DEF HandStarts, Step, store
<1>2. m \in Memory /\ Held(m, ledger, runs)
  BY <1>1 DEF TruthInv, Truthful, BooksInv
<1>3. World(ledger', runs', attempts')
  BY <1>1, WorldRests
<1>4. CASE Fail(s)
  BY <1>3, <1>4, FailBooks
<1>5. CASE sess' = [sess EXCEPT ![s].pc = "hand_runs"]
  <2>1. sess' = [sess EXCEPT ![s] = n]
    BY <1>5 DEF TruthInv
  <2>2. /\ n.pc = "hand_runs" /\ n.log = m.log /\ n.persisted = m.persisted /\ n.att = m.att
    BY <1>2 DEF Memory
  <2> HIDE DEF n, m
  <2>3. At(n) = "hand_runs" /\ At(m) = "hand"
    BY <1>1, <2>2 DEF At
  <2>4. Held(n, ledger', runs')
    BY <1>1, <1>2, <2>2, <2>3 DEF Held, Admitting, Ahead, Pipelined, Unrun
  <2> QED BY <1>3, <2>1, <2>4, Alone
<1> QED BY <1>1, <1>4, <1>5

\* A step that walks one edge from where nothing was judged.
LEMMA EdgeGrows ==
    ASSUME NEW l \in Seq(Envelopes), NEW a, NEW w, NEW x, NEW to,
           Walked(w, x, a, to), to \notin {"closed", "terminal", "commit_pending"},
           Grown(l, w.log, a, Running), Rest(w.log, a)
    PROVE  Grown(l, x.log, a, Running) /\ Rest(x.log, a) /\ StateOf(x.log, a) \notin Over
<1>1. Running \in SUBSET Entries /\ "transition" \in Running
  BY DEF Running, Entries
<1>2. Grown(l, x.log, a, Running) /\ StateOf(x.log, a) = to
  BY <1>1, WalkedGrows
<1>3. OfKind(x.log, a, "terminal") = {}
  BY WalkedOpen
<1> QED BY <1>2, <1>3, RestOpen DEF Over

LEMMA HandErrsBooks ==
    ASSUME OneAtATime, TruthInv, BooksInv, NEW s \in Sessions, HandErrs(s)
    PROVE  BooksInv'
<1> DEFINE m == sess[s]
           x == Go(Writer(s), m.att, "recovery_pending", "recovery_entered", 0)
<1>1. /\ m.pc = "hand_runs" /\ UNCHANGED <<ledger, runs, attempts>> /\ Sync(s, m, x, "errored")
  BY DEF HandErrs, store
<1>2. /\ m \in Memory /\ m.att \in Nat /\ m.log \in Seq(Envelopes) /\ m.pc \in Working
      /\ Writer(s) \in Pen /\ Writer(s).log = m.log /\ Rest(m.log, m.att)
      /\ Grown(m.log, m.log, m.att, Running)
  BY <1>1, Attending DEF Pipelined
<1>3. x.ok => Walked(Writer(s), x, m.att, "recovery_pending")
  BY <1>2, GoFrom DEF States, Causes
<1> HIDE DEF x
<1>4. x.ok => /\ Grown(m.log, x.log, m.att, Running) /\ Rest(x.log, m.att)
              /\ LossMarked(m.log, x.log, m.att)
  BY <1>2, <1>3, EdgeGrows DEF LossMarked
<1>5. "errored" \in Continuations \ Unrun
  BY DEF Continuations, Unrun
<1> QED BY <1>1, <1>2, <1>4, <1>5, GrowBooks

\* A note, and the attempt stays where it is.
LEMMA NoteGrows ==
    ASSUME NEW l \in Seq(Envelopes), NEW a, NEW w, NEW x, NEW body, Wrote(w, x, a, body),
           body.kind \in {"abort_cause", "capture", "environment", "budget"},
           Grown(l, w.log, a, Running), OfKind(w.log, a, "terminal") = {}
    PROVE  /\ Grown(l, x.log, a, Running) /\ StateOf(x.log, a) = StateOf(w.log, a)
           /\ OfKind(x.log, a, "terminal") = {}
           /\ \A k : k # body.kind => OfKind(x.log, a, k) = OfKind(w.log, a, k)
<1>1. PICK e \in Envelopes : e.attempt = a /\ e.body = body /\ x.log = Append(w.log, e)
  BY DEF Wrote
<1>2. /\ w.log \in Seq(Envelopes) /\ x.log \in Seq(Envelopes)
      /\ OfKind(x.log, a, "terminal") = {}
      /\ \A k : k # body.kind => OfKind(x.log, a, k) = OfKind(w.log, a, k)
  BY <1>1 DEF Wrote
<1> DEFINE N == {body.kind}
<1>3. Adds(w.log, x.log, a, N)
  <2>1. Adds(w.log, w.log, a, N) /\ e.body.kind \in N
    BY <1>1, <1>2, AddsNone
  <2> HIDE DEF N
  <2> QED BY <1>1, <1>2, <2>1, AddsOne
<1>4. /\ Running \in SUBSET Entries /\ N \subseteq Running
      /\ N \in SUBSET {"abort_cause", "capture", "environment", "budget", "quarantine"}
  <2>1. N \in SUBSET {"abort_cause", "capture", "environment", "budget", "quarantine"}
    OBVIOUS
  <2>2. {"abort_cause", "capture", "environment", "budget", "quarantine"} \subseteq Running
    BY DEF Running, Entries
  <2> HIDE DEF N
  <2> QED BY <2>1, <2>2 DEF Running
<1> HIDE DEF N
<1> QED BY <1>2, <1>3, <1>4, GrownNotes

LEMMA HandReturnsBooks ==
    ASSUME OneAtATime, TruthInv, BooksInv, NEW s \in Sessions, HandReturns(s)
    PROVE  BooksInv'
<1> DEFINE m == sess[s]
           a == m.att
           w == Put(Writer(s), a, Capture(m.run))
           x == Put(w, a, Budget("step", "exceeded"))
<1>1. /\ m.pc = "hand_runs" /\ UNCHANGED <<ledger, runs, attempts>>
      /\ \E mode : \/ Sync(s, [m EXCEPT !.lost = (mode = "lost")], x, "observe")
                   \/ Sync(s, [m EXCEPT !.lost = (mode = "lost")], w, "observe")
  <2>1. PICK mode : Sync(s, [m EXCEPT !.lost = (mode = "lost")],
                         IF mode = "breached" THEN x ELSE w, "observe")
    BY DEF HandReturns
  <2> HIDE DEF w, x
  <2> QED BY <2>1 DEF HandReturns
<1>2. PICK mode : \/ Sync(s, [m EXCEPT !.lost = (mode = "lost")], x, "observe")
                  \/ Sync(s, [m EXCEPT !.lost = (mode = "lost")], w, "observe")
  BY <1>1
<1>3. /\ m \in Memory /\ a \in Nat /\ m.log \in Seq(Envelopes) /\ m.pc \in Working
      /\ Writer(s) \in Pen /\ Writer(s).log = m.log /\ Rest(m.log, a)
      /\ Grown(m.log, m.log, a, Running)
  BY <1>1, Attending DEF Pipelined
<1>4. StateOf(m.log, a) = "running" /\ OfKind(m.log, a, "terminal") = {}
  <2>1. StateOf(m.log, a) = "running"
    BY <1>1, <1>3, Standing
  <2> QED BY <1>3, <2>1 DEF Rest, Over
<1>5. Capture(m.run) \in Bodies /\ Capture(m.run).kind = "capture"
  BY <1>3 DEF Capture, Bodies, Memory
<1>6. Budget("step", "exceeded") \in Bodies /\ Budget("step", "exceeded").kind = "budget"
  BY DEF Budget, Bodies
<1>7. Wrote(Writer(s), w, a, Capture(m.run))
  BY <1>3, <1>5, PutGrows
<1> HIDE DEF w
<1>8. /\ Grown(m.log, w.log, a, Running) /\ StateOf(w.log, a) = "running"
      /\ OfKind(w.log, a, "terminal") = {} /\ w \in Pen
  <2>1. w \in Pen
    BY <1>7 DEF Wrote
  <2>2. m.log \in Seq(Envelopes) /\ Grown(m.log, Writer(s).log, a, Running)
        /\ OfKind(Writer(s).log, a, "terminal") = {}
    BY <1>3, <1>4
  <2>3. Capture(m.run).kind \in {"abort_cause", "capture", "environment", "budget"}
    BY <1>5
  <2> HIDE DEF m, a
  <2>4. /\ Grown(m.log, w.log, a, Running) /\ StateOf(w.log, a) = StateOf(Writer(s).log, a)
        /\ OfKind(w.log, a, "terminal") = {}
    BY <1>7, <2>2, <2>3, NoteGrows
  <2> QED BY <1>3, <1>4, <2>1, <2>4
<1>9. Wrote(w, x, a, Budget("step", "exceeded"))
  BY <1>3, <1>6, <1>8, PutGrows
<1> HIDE DEF x
<1>10. /\ Grown(m.log, x.log, a, Running) /\ StateOf(x.log, a) = "running"
       /\ OfKind(x.log, a, "terminal") = {}
  <2> HIDE DEF m, a
  <2> QED BY <1>3, <1>6, <1>8, <1>9, NoteGrows
<1>11. /\ Rest(w.log, a) /\ Rest(x.log, a)
       /\ LossMarked(m.log, w.log, a) /\ LossMarked(m.log, x.log, a)
  BY <1>8, <1>10, RestOpen DEF Over, LossMarked
<1> DEFINE n == [m EXCEPT !.lost = (mode = "lost")]
<1>12. n \in Memory /\ n.persisted = m.persisted /\ n.att = m.att
  BY <1>3 DEF Memory
<1>13. Sync(s, n, x, "observe") \/ Sync(s, n, w, "observe")
  BY <1>2
<1>14. "observe" \in Continuations \ Unrun
  BY DEF Continuations, Unrun
<1> HIDE DEF n
<1> QED BY <1>1, <1>3, <1>8, <1>10, <1>11, <1>12, <1>13, <1>14, GrowBooks

\* What is left of the books when a cancel is noted, seen from an edge out of
\* `running'.
LEMMA NotedGrows ==
    ASSUME NEW l \in Seq(Envelopes), NEW a, NEW v, NEW w, NEW x, NEW to,
           v.log = l, Grown(l, l, a, Running), Rest(l, a),
           w = v \/ \E body : body.kind = "abort_cause" /\ Wrote(v, w, a, body),
           to \in {"recovery_pending", "commit_pending"}, Walked(w, x, a, to),
           StateOf(w.log, a) = "running"
    PROVE  /\ Grown(l, w.log, a, Running) /\ StateOf(l, a) = "running"
           /\ Rest(w.log, a) /\ OfKind(w.log, a, "commit") = OfKind(l, a, "commit")
<1>1. CASE w = v
  BY <1>1
<1>2. ASSUME NEW body, body.kind = "abort_cause", Wrote(v, w, a, body)
      PROVE  /\ Grown(l, w.log, a, Running) /\ StateOf(l, a) = "running"
             /\ Rest(w.log, a) /\ OfKind(w.log, a, "commit") = OfKind(l, a, "commit")
  <2>1. StateOf(w.log, a) = StateOf(v.log, a)
    BY <1>2, WroteState
  <2>2. OfKind(v.log, a, "terminal") = {} /\ Grown(l, v.log, a, Running)
    BY <2>1 DEF Rest, Over
  <2>3. /\ Grown(l, w.log, a, Running) /\ OfKind(w.log, a, "terminal") = {}
        /\ OfKind(w.log, a, "commit") = OfKind(v.log, a, "commit")
    BY <1>2, <2>2, NoteGrows
  <2> QED BY <2>1, <2>3, RestOpen DEF Over
<1> QED BY <1>1, <1>2

LEMMA FromRunning ==
    ASSUME NEW w, NEW x, NEW a, NEW to \in {"recovery_pending", "commit_pending"},
           Walked(w, x, a, to)
    PROVE  StateOf(w.log, a) = "running"
BY DEF Walked, Edges, Pipeline

LEMMA ObserveBooks ==
    ASSUME OneAtATime, TruthInv, BooksInv, NEW s \in Sessions, ObserveAndCommit(s)
    PROVE  BooksInv'
<1> DEFINE m == sess[s]
           a == m.att
           l == m.log
           v == Writer(s)
           k == AbortCause("cancelled")
           w == IF a \in flags THEN Put(v, a, k) ELSE v
           c == Walk(w, a, "commit_pending")
           x == Go(w, a, "recovery_pending", "recovery_entered", 0)
           b(r) == Commit(m.fence, r)
           y(r) == Put(c, a, b(r))
<1>1. /\ m.pc = "observe" /\ UNCHANGED <<ledger, runs, attempts>>
      /\ \/ Sync(s, m, x, "return")
         \/ Fail(s)
         \/ /\ GuardCommit(c.log, a, m.fence)
            /\ \E r \in CommitRecords : Sync(s, m, y(r), "validate")
  BY DEF ObserveAndCommit, store
<1>2. /\ m \in Memory /\ a \in Nat /\ l \in Seq(Envelopes) /\ m.pc \in Working
      /\ v \in Pen /\ v.log = l /\ Rest(l, a) /\ Filed(l, a) /\ Grown(l, l, a, Running)
      /\ Running \in SUBSET Entries
  BY <1>1, Attending DEF Pipelined
<1>3. w \in Pen /\ (w = v \/ \E body : body.kind = "abort_cause" /\ Wrote(v, w, a, body))
  <2>1. k \in Bodies /\ k.kind = "abort_cause"
    BY BodyConstructors DEF AbortCause, Aborts
  <2> HIDE DEF k
  <2>2. Wrote(v, Put(v, a, k), a, k)
    BY <1>2, <2>1, PutGrows
  <2> DEFINE u == Put(v, a, k)
  <2>3. Wrote(v, u, a, k) /\ u \in Pen /\ (w = u \/ w = v)
    BY <2>2 DEF Wrote
  <2> HIDE DEF u, v, w
  <2> QED BY <1>2, <2>1, <2>3
<1> HIDE DEF w
<1>4. "return" \in Continuations \ Unrun /\ "validate" \in Continuations \ Unrun
  BY DEF Continuations, Unrun
<1>5. CASE Sync(s, m, x, "return")
  <2>1. x.ok => Walked(w, x, a, "recovery_pending")
    BY <1>2, <1>3, GoFrom DEF States, Causes
  <2> HIDE DEF x
  <2>2. ASSUME x.ok
        PROVE  Grown(l, x.log, a, Running) /\ Rest(x.log, a) /\ LossMarked(l, x.log, a)
    <3>1. Walked(w, x, a, "recovery_pending") /\ StateOf(w.log, a) = "running"
      BY <2>1, <2>2, FromRunning
    <3> HIDE DEF v, l, a
    <3>2. Grown(l, w.log, a, Running) /\ Rest(w.log, a)
      BY <1>2, <1>3, <3>1, NotedGrows
    <3> QED BY <1>2, <3>1, <3>2, EdgeGrows DEF LossMarked
  <2> QED BY <1>1, <1>2, <1>4, <1>5, <2>2, GrowBooks
<1>6. ASSUME GuardCommit(c.log, a, m.fence), NEW r \in CommitRecords, Sync(s, m, y(r), "validate")
      PROVE  BooksInv'
  <2>1. b(r) \in Bodies /\ b(r).kind = "commit" /\ b(r).generation = m.fence
    <3>1. m.fence \in Nat /\ r \in [Required -> CommitVerdicts]
      BY <1>2, EngineAssumption DEF EngineAssumption, Memory
    <3> QED BY <3>1, BodyConstructors DEF Commit
  <2>2. c \in Pen /\ (c.ok => Walked(w, c, a, "commit_pending"))
    BY <1>2, <1>3, WalkFrom DEF States
  <2>3. m.fence = CurrentGeneration(c.log, a)
    BY <1>6 DEF GuardCommit
  <2> HIDE DEF c
  <2> DEFINE q == b(r)
             z == Put(c, a, q)
  <2>4. Sync(s, m, z, "validate") /\ q \in Bodies /\ q.kind = "commit" /\ q.generation = m.fence
    BY <1>6, <2>1
  <2> HIDE DEF q, b
  <2>5. Wrote(c, z, a, q)
    BY <1>2, <2>2, <2>4, PutGrows
  <2> HIDE DEF z
  <2>6. ASSUME z.ok
        PROVE  Grown(l, z.log, a, Running) /\ Rest(z.log, a) /\ LossMarked(l, z.log, a)
    <3>1. Walked(w, c, a, "commit_pending") /\ StateOf(w.log, a) = "running"
      BY <2>2, <2>5, <2>6, FromRunning DEF Wrote
    <3> DEFINE g == m.fence
    <3>2. q.generation = CurrentGeneration(c.log, a)
      BY <2>3, <2>4
    <3> HIDE DEF v, l, a, m
    <3>3. /\ Grown(l, w.log, a, Running) /\ Rest(w.log, a) /\ StateOf(l, a) = "running"
          /\ OfKind(w.log, a, "commit") = OfKind(l, a, "commit")
      BY <1>2, <1>3, <3>1, NotedGrows, SMTT(20)
    <3>4. Grown(l, c.log, a, Running) /\ StateOf(c.log, a) = "commit_pending"
      <4>1. Running \in SUBSET Entries /\ "transition" \in Running
        BY DEF Running, Entries
      <4>2. l \in Seq(Envelopes)
        BY <1>2
      <4>3. Walked(w, c, a, "commit_pending") /\ Grown(l, w.log, a, Running)
        BY <3>1, <3>3
      <4> QED BY <4>1, <4>2, <4>3, WalkedGrows
    <3>5. OfKind(c.log, a, "terminal") = {} /\ OfKind(c.log, a, "commit") = {}
      <4>1. OfKind(l, a, "commit") = {}
        BY <1>2, <3>3 DEF Filed, OneCommit, Committed
      <4>2. OfKind(c.log, a, "terminal") = {}
        BY <3>1, <3>3, WalkedOpen
      <4>3. OfKind(c.log, a, "commit") = OfKind(w.log, a, "commit")
        BY <3>1 DEF Walked
      <4> QED BY <3>3, <4>1, <4>2, <4>3
    <3>6. PICK e \in Envelopes : e.attempt = a /\ e.body = q /\ z.log = Append(c.log, e)
      BY <2>5 DEF Wrote
    <3>7. c.log \in Seq(Envelopes) /\ Filed(c.log, a)
      BY <3>4 DEF Grown, Book
    <3>8. Filed(Append(c.log, e), a)
      BY <2>4, <3>2, <3>4, <3>5, <3>6, <3>7, FiledCommit DEF Committed
    <3>9. Grown(l, z.log, a, Running) /\ StateOf(z.log, a) = "commit_pending"
      BY <1>2, <2>4, <3>4, <3>6, <3>8, GrownOne DEF Running, Entries
    <3>10. OfKind(z.log, a, "terminal") = {} /\ OfKind(z.log, a, "commit") # {}
      <4>1. OfKind(z.log, a, "terminal") = OfKind(c.log, a, "terminal")
        BY <2>4, <2>5 DEF Wrote
      <4>2. OfKind(z.log, a, "commit") # {}
        BY <2>4, <3>6, <3>7, NewestOfKind
      <4> QED BY <3>5, <4>1, <4>2
    <3>11. Rest(z.log, a) /\ LossMarked(l, z.log, a)
      BY <3>9, <3>10 DEF Rest, Over, Succeeded, LossMarked
    <3> QED BY <3>9, <3>11
  <2> QED BY <1>1, <1>2, <1>4, <2>4, <2>6, GrowBooks
<1>7. CASE Fail(s)
  BY <1>1, <1>7, WorldRests, FailBooks
<1> QED BY <1>1, <1>5, <1>6, <1>7

\* A batch of receipts of one attempt.
LEMMA StampAdds ==
    ASSUME NEW l \in Seq(Envelopes), NEW n \in Nat, NEW a \in Nat, NEW bodies \in Seq(Bodies),
           NEW K, \A i \in DOMAIN bodies : bodies[i].kind \in K
    PROVE  /\ l \o Stamp(n, a, bodies) \in Seq(Envelopes)
           /\ Adds(l, l \o Stamp(n, a, bodies), a, K)
<1> DEFINE q == Stamp(n, a, bodies)
           r == l \o q
<1>1. ASSUME NEW i \in 1..Len(bodies)
      PROVE  q[i] \in Envelopes /\ q[i].attempt = a /\ q[i].body.kind \in K
  <2> DEFINE e == [id |-> n + i, attempt |-> a, body |-> bodies[i]]
  <2>1. bodies[i] \in Bodies /\ bodies[i].kind \in K /\ n + i \in Nat
    OBVIOUS
  <2>2. e \in Envelopes /\ e.attempt = a /\ e.body = bodies[i]
    BY <2>1, EnvelopeOf
  <2>3. q[i] = e
    BY DEF Stamp
  <2> HIDE DEF e, q
  <2> QED BY <2>1, <2>2, <2>3
<1>2. q \in Seq(Envelopes) /\ Len(q) = Len(bodies)
  <2>1. q = [i \in 1..Len(bodies) |-> q[i]] /\ Len(bodies) \in Nat
    BY DEF Stamp
  <2> HIDE DEF q
  <2>2. q \in [1..Len(bodies) -> Envelopes]
    BY <1>1, <2>1
  <2> QED BY <2>1, <2>2
<1> HIDE DEF q
<1>3. /\ r \in Seq(Envelopes) /\ Len(r) = Len(l) + Len(q) /\ Len(l) \in Nat /\ Len(q) \in Nat
      /\ DOMAIN l = 1..Len(l) /\ DOMAIN r = 1..Len(r)
      /\ \A i \in 1..Len(l) : r[i] = l[i]
      /\ \A i \in (Len(l) + 1)..Len(r) : r[i] = q[i - Len(l)]
  <2>1. r \in Seq(Envelopes) /\ Len(r) = Len(l) + Len(q) /\ Len(l) \in Nat /\ Len(q) \in Nat
    <3>1. \A x, y \in Seq(Envelopes) : /\ x \o y \in Seq(Envelopes) /\ Len(x \o y) = Len(x) + Len(y)
                                       /\ Len(x) \in Nat
      OBVIOUS
    <3> QED BY <1>2, <3>1, Zenon DEF r
  <2>2. DOMAIN l = 1..Len(l) /\ DOMAIN r = 1..Len(r)
    BY <1>2, <2>1
  <2>3. \A i \in 1..Len(l) : r[i] = l[i]
    BY <1>2, <2>1
  <2>4. \A i \in (Len(l) + 1)..Len(r) : r[i] = q[i - Len(l)]
    BY <1>2, <2>1
  <2> QED BY <2>1, <2>2, <2>3, <2>4
<1> HIDE DEF r
<1>4. Extends(l, r)
  BY <1>3 DEF Extends
<1>5. ASSUME NEW j \in DOMAIN r \ DOMAIN l
      PROVE  r[j].attempt = a /\ r[j].body.kind \in K
  <2>1. j \in (Len(l) + 1)..Len(r) /\ j - Len(l) \in 1..Len(q)
    BY <1>3
  <2>2. r[j] = q[j - Len(l)]
    BY <1>3, <2>1
  <2> QED BY <1>1, <1>2, <2>1, <2>2
<1>6. Adds(l, r, a, K)
  BY <1>4, <1>5 DEF Adds
<1> QED BY <1>3, <1>6 DEF q, r

LEMMA ValidateBooks ==
    ASSUME OneAtATime, TruthInv, BooksInv, NEW s \in Sessions, Validate(s)
    PROVE  BooksInv'
<1> DEFINE m == sess[s]
           a == m.att
           l == m.log
           w == Walk(Writer(s), a, "validating")
           verified == {n \in Required : CommitVerdict(l, a, n) = "verified"}
           K == {"validation", "quarantine"}
           x(bodies) == [w EXCEPT !.log = @ \o Stamp(w.n, a, bodies), !.n = @ + Len(bodies)]
<1>1. PICK verdict \in [verified -> [Validators -> ValidatorVerdicts]] :
         \E bodies \in SetToSeqs(Rulings(verdict)) : Sync(s, m, x(bodies), "classify")
  BY DEF Validate
<1>2. PICK bodies \in SetToSeqs(Rulings(verdict)) : Sync(s, m, x(bodies), "classify")
  BY <1>1
<1>3. m.pc = "validate" /\ UNCHANGED <<ledger, runs, attempts>>
  BY DEF Validate, store
<1>4. /\ m \in Memory /\ a \in Nat /\ l \in Seq(Envelopes) /\ m.pc \in Working
      /\ Writer(s) \in Pen /\ Writer(s).log = l /\ Rest(l, a) /\ Grown(l, l, a, Running)
      /\ Running \in SUBSET Entries
  BY <1>3, Attending DEF Pipelined
<1>5. /\ bodies \in Seq(Bodies) /\ \A i \in DOMAIN bodies : bodies[i].kind \in K
  <2>1. verified \in SUBSET Required
    OBVIOUS
  <2> HIDE DEF verified, K
  <2>2. /\ IsFiniteSet(Rulings(verdict))
        /\ \A b \in Rulings(verdict) : b \in Bodies /\ b.kind \in K
    BY <2>1, RulingsAre DEF K
  <2>3. bodies \in Seq(Rulings(verdict))
    BY <2>2, ListedIn
  <2>4. bodies \in Seq(Bodies)
    BY <2>2, <2>3, SeqMono
  <2>5. \A i \in DOMAIN bodies : bodies[i] \in Rulings(verdict)
    BY <2>3
  <2> QED BY <2>2, <2>4, <2>5
<1>6. w \in Pen /\ (w.ok => Walked(Writer(s), w, a, "validating"))
  BY <1>4, WalkFrom DEF States
<1> HIDE DEF w
<1> DEFINE y == x(bodies)
           q == Stamp(w.n, a, bodies)
<1>7. w.log \in Seq(Envelopes) /\ w.n \in Nat
  BY <1>6 DEF Pen, Writers
<1>8. y.ok = w.ok /\ y.log = w.log \o q
  <2> DEFINE p == w.log \o q
             n == w.n + Len(bodies)
  <2>1. w \in [log : Seq(Envelopes), n : Nat, ok : BOOLEAN]
    BY <1>6 DEF Pen, Writers
  <2>2. y = [w EXCEPT !.log = p, !.n = n]
    OBVIOUS
  <2> HIDE DEF p, n, y, q, x
  <2>3. y.ok = w.ok /\ y.log = p
    BY <2>1, <2>2
  <2> QED BY <2>3 DEF p
<1>9. w.log \o q \in Seq(Envelopes) /\ Adds(w.log, w.log \o q, a, K)
  <2> HIDE DEF K
  <2> QED BY <1>4, <1>5, <1>7, StampAdds
<1>10. Sync(s, m, y, "classify")
  BY <1>2
<1> HIDE DEF y, q
<1>11. ASSUME y.ok
       PROVE  Grown(l, y.log, a, Running) /\ Rest(y.log, a) /\ LossMarked(l, y.log, a)
  <2>1. Walked(Writer(s), w, a, "validating")
    BY <1>6, <1>8, <1>11
  <2>2. StateOf(l, a) = "commit_pending"
    BY <1>4, <2>1 DEF Walked, Edges, Pipeline
  <2>3. OfKind(w.log, a, "terminal") = {} /\ OfKind(w.log, a, "commit") # {}
    <3>1. OfKind(l, a, "commit") # {}
      BY <1>4, <2>2 DEF Rest
    <3>2. OfKind(w.log, a, "commit") = OfKind(l, a, "commit")
      BY <1>4, <2>1 DEF Walked
    <3>3. Rest(Writer(s).log, a)
      BY <1>4
    <3>4. OfKind(w.log, a, "terminal") = {}
      <4> HIDE DEF m, a
      <4> QED BY <2>1, <3>3, WalkedOpen
    <3> QED BY <3>1, <3>2, <3>4
  <2>4. Grown(l, w.log, a, Running) /\ StateOf(w.log, a) = "validating"
    <3>1. Grown(l, Writer(s).log, a, Running) /\ "transition" \in Running
      BY <1>4 DEF Running, Entries
    <3> HIDE DEF m, a, l
    <3> QED BY <1>4, <2>1, <3>1, WalkedGrows
  <2>5. Filed(w.log, a) /\ a \in CreatedIn(w.log)
    BY <2>4 DEF Grown, Book
  <2>6. y.log \in Seq(Envelopes) /\ Adds(w.log, y.log, a, K)
    BY <1>8, <1>9
  <2>7. Filed(y.log, a)
    BY <1>7, <2>3, <2>5, <2>6, FiledRulings
  <2>8. Adds(w.log, y.log, a, Running \ {"transition"})
    <3>1. K \subseteq Running \ {"transition"}
      BY DEF Running, Entries
    <3> HIDE DEF K
    <3> QED BY <2>6, <3>1 DEF Adds
  <2>9. Grown(l, y.log, a, Running) /\ StateOf(y.log, a) = "validating"
    <3> HIDE DEF l, a
    <3> QED BY <1>4, <2>4, <2>6, <2>7, <2>8, GrownBy
  <2>10. OfKind(y.log, a, "terminal") = {}
    <3>1. "terminal" \notin K
      OBVIOUS
    <3> HIDE DEF K
    <3> QED BY <1>7, <2>3, <2>6, <3>1, AddsKeep
  <2> QED BY <2>9, <2>10, RestOpen DEF Over, LossMarked
<1>12. "classify" \in Continuations \ Unrun
  BY DEF Continuations, Unrun
<1> QED BY <1>3, <1>4, <1>10, <1>11, <1>12, GrowBooks

LEMMA ClassifyBooks ==
    ASSUME OneAtATime, TruthInv, BooksInv, NEW s \in Sessions, ClassifyAndClose(s)
    PROVE  BooksInv'
<1> DEFINE m == sess[s]
           a == m.att
           l == m.log
           w == Walk(Writer(s), a, "classifying")
           x == Conclude(w, a)
<1>1. m.pc = "classify" /\ UNCHANGED <<ledger, runs, attempts>> /\ Sync(s, m, x, "select")
  BY DEF ClassifyAndClose, store
<1>2. /\ m \in Memory /\ a \in Nat /\ l \in Seq(Envelopes) /\ m.pc \in Working
      /\ Writer(s) \in Pen /\ Writer(s).log = l /\ Rest(l, a) /\ Grown(l, l, a, Running)
      /\ Running \in SUBSET Entries
  BY <1>1, Attending DEF Pipelined
<1>3. w \in Pen /\ (w.ok => Walked(Writer(s), w, a, "classifying"))
  BY <1>2, WalkFrom DEF States
<1>4. OnlyCancelled(w.log, a)
  <2>1. Writer(s) \in Writers(Backed, m.persisted) /\ m.persisted \in Nat
    BY <1>1, <1>2, Begin DEF Admitting, Memory
  <2>2. w \in Writers(Backed, m.persisted)
    BY <1>2, <2>1, WalkWrites DEF States
  <2> QED BY <2>2, BackedAborts DEF Writers
<1> HIDE DEF w
<1>5. ASSUME x.ok
      PROVE  Grown(l, x.log, a, Running) /\ Rest(x.log, a) /\ LossMarked(l, x.log, a)
  <2>1. Walked(Writer(s), w, a, "classifying")
    BY <1>2, <1>3, <1>5, ConcludeFrom
  <2>2. Grown(l, w.log, a, Running) /\ OfKind(w.log, a, "terminal") = {}
    <3>1. Grown(l, Writer(s).log, a, Running) /\ Rest(Writer(s).log, a)
      BY <1>2
    <3>2. "transition" \in Running /\ "classifying" # "closed"
      BY DEF Running, Entries
    <3> HIDE DEF m, a, l
    <3> QED BY <1>2, <2>1, <3>1, <3>2, WalkedGrows, WalkedOpen
  <2>3. "transition" \in Running /\ "terminal" \in Running
    BY DEF Running, Entries
  <2>4. /\ Grown(l, x.log, a, Running) /\ StateOf(x.log, a) = "closed"
        /\ OfKind(x.log, a, "terminal") # {} /\ Outcome(x.log, a) # "unknown"
    BY <1>2, <1>3, <1>4, <1>5, <2>2, <2>3, ConcludeGrows
  <2>5. StateOf(l, a) # "recovery_pending"
    <3>1. \A st : <<st, "classifying">> \in Edges => st # "recovery_pending"
      BY DEF Edges, Pipeline
    <3> QED BY <1>2, <2>1, <3>1 DEF Walked
  <2> QED BY <2>4, <2>5 DEF Rest, Over, LossMarked
<1> HIDE DEF x
<1>6. "select" \in Continuations \ Unrun
  BY DEF Continuations, Unrun
<1> QED BY <1>1, <1>2, <1>5, <1>6, GrowBooks

\* The selection a satisfied task rests on, and whose attempt it chose.
LEMMA ChosenIs ==
    ASSUME NEW l, Book(l), NEW t, TaskSatisfied(l, t)
    PROVE  /\ Succeeded(l, SelectedFor(l, t))
           /\ \E b \in Births(l, SelectedFor(l, t)) : l[b].body.task = t
<1> DEFINE S == Selections(l, t)
<1>1. S # {} /\ l[Latest(S)].body.satisfied
  BY DEF TaskSatisfied
<1>2. S \in SUBSET (1..Len(l)) /\ Len(l) \in Nat
  BY DEF Book, Selections, AnyOfKind
<1>3. Latest(S) \in S
  <2> HIDE DEF S
  <2> QED BY <1>1, <1>2, LatestIn
<1>4. PICK i \in AnyOfKind(l, "selection") : i = Latest(S) /\ l[i].body.task = t
  BY <1>3 DEF Selections
<1> QED BY <1>1, <1>4 DEF SelectedFor, Book, WellChosen

\* A selection that satisfies its task names a candidate with a success.
LEMMA SelectFrom ==
    ASSUME NEW l, NEW t \in Tasks, NEW C \in SUBSET Nat, C # {},
           Select(l, t, C).body.satisfied
    PROVE  /\ Select(l, t, C).under \in C /\ Succeeded(l, Select(l, t, C).under)
           /\ Select(l, t, C).body.selected = Select(l, t, C).under
           /\ Select(l, t, C).body.task = t
<1> DEFINE a == Earliest(Selectable(l, C))
<1>1. Selectable(l, C) # {} /\ Select(l, t, C) = [under |-> a, body |-> Selection(t, a, TRUE)]
  BY DEF Select, Selection
<1>2. a \in C /\ Succeeded(l, a)
  <2>1. Selectable(l, C) \in SUBSET Nat
    BY DEF Selectable
  <2>2. a \in Selectable(l, C)
    BY <1>1, <2>1, EarliestIn
  <2> HIDE DEF a
  <2> QED BY <2>2 DEF Selectable
<1> HIDE DEF a
<1> QED BY <1>1, <1>2 DEF Selection

\* What an adjudication leaves behind: the earliest candidate with a success, or none.
ChoiceOf(l, t, C, b) ==
    IF Selectable(l, C) = {} THEN ~b.satisfied
    ELSE b.satisfied /\ b.selected = Earliest(Selectable(l, C))

LEMMA SelectChoice ==
    ASSUME NEW l, NEW t, NEW C
    PROVE  ChoiceOf(l, t, C, Select(l, t, C).body) /\ Select(l, t, C).body.task = t
BY DEF ChoiceOf, Select, Selection

\* The attempt a task already rests on is among the candidates.
LEMMA ChosenSelectable ==
    ASSUME NEW l, Book(l), NEW t, TaskSatisfied(l, t), NEW C,
           \A c : (\E i \in Births(l, c) : l[i].body.task = t) => c \in C
    PROVE  SelectedFor(l, t) \in Selectable(l, C)
<1> DEFINE c == SelectedFor(l, t)
<1>1. Succeeded(l, c) /\ c \in C
  BY ChosenIs
<1> HIDE DEF c
<1>2. ~Quarantined(l, c)
  BY <1>1 DEF Book, Filed, VerdictEarned, Proven, Succeeded, Quarantined
<1>3. c \in Selectable(l, C)
  BY <1>1, <1>2 DEF Selectable
<1> QED BY <1>3 DEF c

\* Whose attempt it is.
LEMMA OwnerIs ==
    ASSUME NEW l, Book(l), NEW x \in CreatedIn(l), NEW i \in Births(l, x)
    PROVE  Owner(l, x) = l[i].body.task /\ x \in Nat
<1>1. ResolveState(l, x) \in States /\ l \in Seq(Envelopes)
  BY DEF Book, Resolves
<1>2. \A p, q \in Births(l, x) : p = q
  BY <1>1, ResolvedAttempt DEF ChainLinks
<1>3. Earliest(Births(l, x)) \in Births(l, x)
  <2>1. Births(l, x) \in SUBSET Nat
    BY <1>1, OfKindMember DEF Births
  <2> QED BY <2>1, EarliestIn
<1>4. x \in Nat
  <2>1. i \in DOMAIN l /\ l[i].attempt = x
    BY DEF Births, OfKind
  <2>2. l[i] \in Envelopes
    BY <1>1, <2>1
  <2> QED BY <2>1, <2>2 DEF Envelopes
<1> QED BY <1>2, <1>3, <1>4 DEF Owner

\* A new adjudication of t: the others rest on what they did, t on its verdict.
LEMMA ChosenSet ==
    ASSUME NEW l \in Seq(Envelopes), NEW e \in Envelopes, e.body.kind = "selection",
           NEW t, e.body.task = t
    PROVE  LET r == Append(l, e)
           IN  /\ TaskSatisfied(r, t) <=> e.body.satisfied
               /\ SelectedFor(r, t) = e.body.selected
               /\ \A v : v # t => Selections(r, v) = Selections(l, v)
<1> DEFINE r == Append(l, e)
           n == Len(l) + 1
<1>1. /\ Len(l) \in Nat /\ DOMAIN l = 1..Len(l) /\ DOMAIN r = 1..n
      /\ \A i \in DOMAIN l : r[i] = l[i]
      /\ r[n] = e
  BY AppendFacts
<1>2. n \notin DOMAIN l /\ DOMAIN r = DOMAIN l \union {n}
  BY <1>1
<1> HIDE DEF r, n
<1>3. \A v : Selections(r, v) = {i \in DOMAIN r : r[i].body.kind = "selection" /\ r[i].body.task = v}
  BY DEF Selections, AnyOfKind
<1>4. \A v : Selections(l, v) = {i \in DOMAIN l : l[i].body.kind = "selection" /\ l[i].body.task = v}
  BY DEF Selections, AnyOfKind
<1>5. ASSUME NEW v, v # t PROVE Selections(r, v) = Selections(l, v)
  <2>1. ASSUME NEW i PROVE i \in Selections(r, v) <=> i \in Selections(l, v)
    <3>1. CASE i = n
      <4>1. i \notin Selections(l, v)
        BY <1>2, <1>4, <3>1
      <4>2. r[i].body.task # v
        BY <1>1, <1>5, <3>1
      <4> QED BY <1>3, <4>1, <4>2
    <3>2. CASE i \in DOMAIN l
      <4>1. r[i] = l[i] /\ i \in DOMAIN r
        BY <1>1, <1>2, <3>2
      <4> QED BY <1>3, <1>4, <3>2, <4>1
    <3>3. CASE i \notin DOMAIN r
      <4>1. i \notin DOMAIN l
        BY <1>2, <3>3
      <4> QED BY <1>3, <1>4, <3>3, <4>1
    <3> QED BY <1>2, <3>1, <3>2, <3>3
  <2> QED BY <2>1
<1>6. n \in Selections(r, t) /\ Selections(r, t) \in SUBSET (1..n) /\ n \in Nat
  BY <1>1, <1>2, <1>3 DEF n
<1>7. Latest(Selections(r, t)) = n
  <2> DEFINE S == Selections(r, t)
  <2>1. S # {} /\ n \in S /\ S \in SUBSET (1..n) /\ n \in Nat
    BY <1>6
  <2> HIDE DEF S
  <2>2. Latest(S) \in S /\ \A j \in S : j <= Latest(S)
    BY <2>1, LatestIn
  <2>3. Latest(S) \in 1..n /\ n <= Latest(S)
    BY <2>1, <2>2
  <2>4. \A k \in 1..n : n <= k => k = n
    BY <2>1
  <2> QED BY <2>3, <2>4 DEF S
<1> QED BY <1>1, <1>5, <1>6, <1>7 DEF TaskSatisfied, SelectedFor, r

\* An adjudication keeps the contract: it changes nothing, or chooses for its task.
LEMMA SelectPledge ==
    ASSUME NEW l, Book(l), \A y : Rest(l, y), NEW t \in Tasks, NEW C \in SUBSET Nat,
           \A c : (\E i \in Births(l, c) : l[i].body.task = t) => c \in C,
           NEW e \in Envelopes, e.body.kind = "selection", e.body.task = t,
           ChoiceOf(l, t, C, e.body),
           e.body.satisfied => \E i \in Births(l, e.body.selected) : l[i].body.task = t,
           NEW r, r = Append(l, e), CreatedIn(r) = CreatedIn(l),
           \A x, k : k # "selection" => OfKind(r, x, k) = OfKind(l, x, k)
    PROVE  Pledge(l, r)
<1> DEFINE u == e.body.selected
           S == Selectable(l, C)
<1>1. /\ l \in Seq(Envelopes) /\ r \in Seq(Envelopes) /\ Extends(l, r)
  BY AppendFacts DEF Book, Extends
<1>2. /\ TaskSatisfied(r, t) <=> e.body.satisfied
      /\ SelectedFor(r, t) = u
      /\ \A v : v # t => Selections(r, v) = Selections(l, v)
  BY <1>1, ChosenSet
<1>3. Phases(r) = Phases(l) /\ Owners(r) = Owners(l)
  <2>1. ASSUME NEW x \in CreatedIn(l) PROVE Phase(r, x) = Phase(l, x) /\ Owner(r, x) = Owner(l, x)
    <3>1. /\ OfKind(r, x, "transition") = OfKind(l, x, "transition")
          /\ OfKind(r, x, "terminal") = OfKind(l, x, "terminal")
          /\ OfKind(r, x, "attempt_created") = OfKind(l, x, "attempt_created")
      OBVIOUS
    <3> QED BY <1>1, <3>1, PhaseKept, OwnerKept
  <2> QED BY <2>1 DEF Phases, Owners
<1>4. /\ \A v \in Tasks : v # t => Chosen(r)[v] = Chosen(l)[v]
      /\ Chosen(r)[t] = IF e.body.satisfied THEN u ELSE NoAttempt
      /\ Chosen(l)[t] = IF TaskSatisfied(l, t) THEN SelectedFor(l, t) ELSE NoAttempt
  <2>1. ASSUME NEW v \in Tasks, v # t PROVE Chosen(r)[v] = Chosen(l)[v]
    BY <1>1, <1>2, <2>1, ChosenKept DEF Chosen
  <2> QED BY <1>2, <2>1 DEF Chosen
<1>5. Chosen(r) = [Chosen(l) EXCEPT ![t] = Chosen(r)[t]]
  <2>1. DOMAIN Chosen(r) = Tasks /\ DOMAIN Chosen(l) = Tasks
    BY DEF Chosen
  <2>2. \A f, g : /\ f = [v \in Tasks |-> f[v]] /\ g = [v \in Tasks |-> g[v]]
                  /\ \A v \in Tasks : v # t => g[v] = f[v]
                  => g = [f EXCEPT ![t] = g[t]]
    OBVIOUS
  <2>3. Chosen(r) = [v \in Tasks |-> Chosen(r)[v]] /\ Chosen(l) = [v \in Tasks |-> Chosen(l)[v]]
    BY DEF Chosen
  <2> QED BY <1>4, <2>2, <2>3, Zenon
<1>6. TaskSatisfied(l, t) => SelectedFor(l, t) \in S
  BY ChosenSelectable
<1>7. S \in SUBSET Nat
  BY DEF Selectable
<1>8. CASE ~e.body.satisfied
  <2>1. ~TaskSatisfied(l, t)
    BY <1>6, <1>8 DEF ChoiceOf
  <2>2. Chosen(r)[t] = Chosen(l)[t]
    BY <1>4, <1>8, <2>1
  <2>3. Chosen(r) = Chosen(l)
    BY <1>5, <2>2 DEF Chosen
  <2> QED BY <1>3, <2>3 DEF Kept, Pledge
<1>9. CASE e.body.satisfied
  <2>1. S # {} /\ u = Earliest(S)
    BY <1>9 DEF ChoiceOf
  <2>2. PICK i \in Births(l, u) : l[i].body.task = t
    BY <1>9
  <2> HIDE DEF u, S
  <2>3. u \in S /\ \A c \in S : u <= c
    BY <1>7, <2>1, EarliestIn
  <2>4. u \in CreatedIn(l)
    BY <1>1, <2>2, CreatedInIs
  <2>5. Owner(l, u) = t /\ u \in Nat
    BY <2>2, <2>4, OwnerIs
  <2>6. Phase(l, u) = "success"
    <3>1. PICK j \in OfKind(l, u, "terminal") : l[j].body.outcome = "success"
      BY <2>3 DEF S, Selectable, Succeeded
    <3>2. Outcome(l, u) = "success"
      BY <1>1, <3>1, OutcomeIs DEF Book
    <3>3. StateOf(l, u) \in Over
      BY <3>1 DEF Rest
    <3> QED BY <3>2, <3>3, PhaseIs
  <2>7. /\ u \in DOMAIN Phases(l) /\ Phases(l)[u] = "success" /\ Owners(l)[u] = t
    BY <2>4, <2>5, <2>6 DEF Phases, Owners
  <2>8. Chosen(r)[t] = u
    BY <1>4, <1>9
  <2>9. Chosen(l)[t] = 0 \/ Chosen(l)[t] = u \/ u < Chosen(l)[t]
    <3>1. CASE ~TaskSatisfied(l, t)
      BY <1>4, <3>1 DEF NoAttempt
    <3>2. CASE TaskSatisfied(l, t)
      <4>1. Chosen(l)[t] \in S
        BY <1>4, <1>6, <3>2
      <4>2. u <= Chosen(l)[t] /\ Chosen(l)[t] \in Nat
        BY <1>7, <2>3, <4>1
      <4> QED BY <2>5, <4>2
    <3> QED BY <3>1, <3>2
  <2>10. CASE Chosen(l)[t] = u
    <3>1. Chosen(r) = Chosen(l)
      BY <1>5, <2>8, <2>10 DEF Chosen
    <3> QED BY <1>3, <3>1 DEF Kept, Pledge
  <2>11. CASE Chosen(l)[t] = 0 \/ u < Chosen(l)[t]
    <3>1. Chooses(l, r, u)
      BY <1>3, <1>5, <2>7, <2>8, <2>11, Zenon DEF Chooses
    <3> QED BY <3>1 DEF Pledge
  <2> QED BY <2>9, <2>10, <2>11
<1> QED BY <1>8, <1>9


LEMMA SelectBooks ==
    ASSUME OneAtATime, TruthInv, BooksInv, NEW s \in Sessions, SelectForTask(s)
    PROVE  BooksInv'
<1> DEFINE m == sess[s]
           t == m.task
           C == {r.attempt : r \in {q \in attempts : q.task = t}}
           sel == Select(m.log, t, C)
           u == sel.under
           b == sel.body
           x == Put(Writer(s), u, b)
<1>1. m.pc = "select" /\ UNCHANGED <<ledger, runs, attempts>> /\ Sync(s, m, x, "return")
  BY DEF SelectForTask, store
<1>2. /\ m \in Memory /\ t \in Tasks /\ m.persisted = Len(ledger) /\ m.log = ledger
      /\ ledger \in Seq(Envelopes) /\ InOrder(ledger, runs) /\ ledger \in Seq(Backed)
      /\ Writer(s) \in Pen /\ Writer(s).log = ledger
      /\ \E r \in attempts : r.attempt = m.att /\ r.task = t
  <2>1. /\ m \in Memory /\ t \in Tasks /\ m.persisted = Len(ledger)
        /\ m.pc \notin Ahead => m.log = ledger
        /\ ledger \in Seq(Envelopes) /\ InOrder(m.log, runs) /\ m.log \in Seq(Backed)
        /\ Writer(s) \in Pen /\ Writer(s).log = m.log
        /\ m.pc \in Working => \E r \in attempts : r.attempt = m.att /\ r.task = t
    BY <1>1, Standing DEF Working
  <2> QED BY <1>1, <2>1 DEF Working, Ahead
<1>3. C \in SUBSET Nat /\ C # {}
  BY <1>2 DEF TruthInv, Tables
<1>4. \A c \in C : \E r \in attempts : r.attempt = c /\ r.task = t
  OBVIOUS
<1> HIDE DEF C, t
<1>5. u \in Nat /\ b \in Bodies /\ b.kind = "selection"
  BY <1>2, <1>3, SelectIs
<1>6. b.satisfied => u \in C /\ Succeeded(ledger, u) /\ b.selected = u /\ b.task = t
  BY <1>2, <1>3, SelectFrom
<1>7. ChoiceOf(ledger, t, C, b) /\ b.task = t
  BY <1>2, SelectChoice
<1> HIDE DEF sel, u, b
<1>8. Wrote(Writer(s), x, u, b)
  BY <1>2, <1>5, PutGrows
<1> HIDE DEF x
<1>9. PICK e \in Envelopes : e.attempt = u /\ e.body = b /\ x.log = Append(ledger, e)
  BY <1>2, <1>8 DEF Wrote
<1>10. b.satisfied => /\ u \in CreatedIn(ledger)
                     /\ \E i \in Births(ledger, u) : ledger[i].body.task = t
  <2> SUFFICES ASSUME b.satisfied
               PROVE  /\ u \in CreatedIn(ledger)
                      /\ \E i \in Births(ledger, u) : ledger[i].body.task = t
    OBVIOUS
  <2>1. u \in CreatedIn(ledger)
    <3>1. PICK j \in OfKind(ledger, u, "terminal") : TRUE
      BY <1>6 DEF Succeeded
    <3>2. j \in DOMAIN ledger /\ ledger[j].attempt = u /\ ledger[j].body.kind = "terminal"
      BY DEF OfKind
    <3> QED BY <1>2, <3>2 DEF InOrder, Book, Resolves
  <2>2. PICK i \in Births(ledger, u) : TRUE
    BY <1>2, <2>1, CreatedInIs
  <2>3. /\ i \in DOMAIN ledger /\ ledger[i].attempt = u
        /\ ledger[i].body.kind = "attempt_created" /\ ledger[i] \in Backed
    BY <1>2 DEF Births, OfKind
  <2>4. PICK r \in attempts : r.attempt = u /\ r.task = ledger[i].body.task
    BY <2>3 DEF Backed, Rows
  <2>5. PICK q \in attempts : q.attempt = u /\ q.task = t
    BY <1>4, <1>6
  <2>6. r = q
    BY <2>4, <2>5 DEF BooksInv, World
  <2> QED BY <2>1, <2>4, <2>5, <2>6
<1>11. /\ Book(x.log) /\ CreatedIn(x.log) = CreatedIn(ledger)
       /\ \A y, k : k # "selection" => OfKind(x.log, y, k) = OfKind(ledger, y, k)
  <2>1. Book(ledger) /\ e.body.kind = "selection"
    BY <1>2, <1>5, <1>9 DEF InOrder
  <2>2. e.body.satisfied =>
           /\ e.attempt \in CreatedIn(ledger) /\ Succeeded(ledger, e.body.selected)
           /\ \E i \in Births(ledger, e.body.selected) : ledger[i].body.task = e.body.task
    BY <1>6, <1>9, <1>10
  <2> QED BY <1>9, <2>1, <2>2, BookSelect
<1>12. x.log \in Seq(Envelopes) /\ Extends(ledger, x.log)
  BY <1>2, <1>9 DEF Extends
<1>13. ASSUME NEW y PROVE Rest(x.log, y)
  <2>1. Rest(ledger, y)
    BY <1>2 DEF InOrder
  <2>2. /\ OfKind(x.log, y, "terminal") = OfKind(ledger, y, "terminal")
        /\ OfKind(x.log, y, "transition") = OfKind(ledger, y, "transition")
    BY <1>11
  <2> QED BY <1>2, <1>12, <2>1, <2>2, RestKept
<1>14. ASSUME NEW r \in runs PROVE r.generation <= CurrentGeneration(x.log, r.attempt)
  <2>1. CurrentGeneration(x.log, r.attempt) = CurrentGeneration(ledger, r.attempt)
    BY <1>2, <1>11, <1>12, GenerationKept
  <2> QED BY <1>2, <2>1 DEF InOrder
<1>15. InOrder(x.log, runs)
  <2>1. Guarded(x.log)
    BY <1>2, <1>11, <1>12, GuardedKept DEF InOrder
  <2> QED BY <1>11, <1>13, <1>14, <2>1 DEF InOrder
<1>16. World(ledger', runs', attempts')
  BY <1>1, WorldRests
<1>17. "return" \in Continuations /\ "return" \notin Pipelined /\ "return" \notin Unrun
  BY DEF Continuations, Pipelined, Unrun
<1>18. ASSUME NEW c, NEW i \in Births(ledger, c), ledger[i].body.task = t PROVE c \in C
  <2>1. /\ i \in DOMAIN ledger /\ ledger[i].attempt = c
        /\ ledger[i].body.kind = "attempt_created" /\ ledger[i] \in Backed
    BY <1>2 DEF Births, OfKind
  <2>2. PICK r \in attempts : r.attempt = c /\ r.task = t
    BY <1>18, <2>1 DEF Backed, Rows
  <2> QED BY <2>2 DEF C
<1>19. Pledge(ledger, x.log)
  <2>1. Book(ledger) /\ \A y : Rest(ledger, y)
    BY <1>2 DEF InOrder
  <2>2. b.satisfied => \E i \in Births(ledger, b.selected) : ledger[i].body.task = t
    BY <1>6, <1>10
  <2>3. /\ \A c : (\E i \in Births(ledger, c) : ledger[i].body.task = t) => c \in C
        /\ e.body = b /\ e.body.kind = "selection" /\ e.body.task = t
    BY <1>5, <1>9, <1>7, <1>18
  <2> QED BY <1>2, <1>3, <1>9, <1>11, <1>7, <2>1, <2>2, <2>3, SelectPledge
<1> QED BY <1>1, <1>2, <1>12, <1>15, <1>16, <1>17, <1>19, SyncBooks

-----------------------------------------------------------------------------
(* Recovery. *)

\* What a recovery action starts from: an attempt in the queue, that committed
\* nothing and was not judged.
LEMMA Queued ==
    ASSUME TruthInv, BooksInv, NEW s \in Sessions, sess[s].pc \in {"close", "resume"},
           ResolveState(sess[s].log, sess[s].att) = "recovery_pending"
    PROVE  /\ sess[s] \in Memory /\ sess[s].att \in Nat /\ sess[s].persisted = Len(ledger)
           /\ sess[s].log = ledger /\ ledger \in Seq(Envelopes) /\ InOrder(ledger, runs)
           /\ [log |-> sess[s].log, n |-> saved, ok |-> TRUE] \in Pen
           /\ StateOf(ledger, sess[s].att) = "recovery_pending"
           /\ sess[s].att \in CreatedIn(ledger) /\ Filed(ledger, sess[s].att)
           /\ Grown(ledger, ledger, sess[s].att, Entries)
           /\ Grown(ledger, ledger, sess[s].att, Running)
           /\ OfKind(ledger, sess[s].att, "terminal") = {}
           /\ OfKind(ledger, sess[s].att, "commit") = {}
<1> DEFINE m == sess[s]
           a == m.att
<1>1. /\ m \in Memory /\ a \in Nat /\ m.persisted = Len(ledger) /\ m.log = ledger
      /\ ledger \in Seq(Envelopes) /\ InOrder(ledger, runs)
  <2>1. m.pc \in Working /\ m.pc \notin Ahead
    BY DEF Working, Ahead
  <2> QED BY <2>1, Standing
<1>2. [log |-> m.log, n |-> saved, ok |-> TRUE] \in Pen
  <2>1. saved \in Nat
    BY DEF TruthInv, Tables
  <2> HIDE DEF m
  <2> QED BY <1>1, <2>1 DEF Pen, Writers
<1>3. StateOf(ledger, a) = "recovery_pending" /\ a \in CreatedIn(ledger)
  <2>1. ResolveState(ledger, a) = "recovery_pending" /\ "recovery_pending" \in States
    BY <1>1 DEF States
  <2>2. ResolveState(ledger, a) = StateOf(ledger, a) /\ Births(ledger, a) # {}
    BY <2>1, ResolvedAttempt DEF ResolveState
  <2> QED BY <1>1, <2>1, <2>2, CreatedInIs
<1>4. Filed(ledger, a) /\ Rest(ledger, a) /\ Book(ledger)
  BY <1>1 DEF InOrder, Book
<1>5. OfKind(ledger, a, "terminal") = {} /\ OfKind(ledger, a, "commit") = {}
  BY <1>3, <1>4 DEF Rest, Over, Filed, OneCommit, Committed
<1>6. Grown(ledger, ledger, a, Entries) /\ Grown(ledger, ledger, a, Running)
  BY <1>3, <1>4, GrownNone
<1> QED BY <1>1, <1>2, <1>3, <1>4, <1>5, <1>6

LEMMA CloseBooks ==
    ASSUME OneAtATime, TruthInv, BooksInv, NEW s \in Sessions, CloseAsUnknown(s)
    PROVE  BooksInv'
<1> DEFINE m == sess[s]
           a == m.att
           b == Terminal("unknown")
           v == [log |-> m.log, n |-> saved, ok |-> TRUE]
           w == Put(v, a, b)
           x == Go(w, a, "terminal", "classification_complete", w.n)
<1>1. /\ m.pc = "close" /\ UNCHANGED <<ledger, runs, attempts>>
      /\ \/ Fail(s)
         \/ ResolveState(m.log, a) = "recovery_pending" /\ Sync(s, m, x, "return")
  BY DEF CloseAsUnknown, store
<1>2. World(ledger', runs', attempts')
  BY <1>1, WorldRests
<1>3. CASE Fail(s)
  BY <1>2, <1>3, FailBooks
<1>4. CASE ResolveState(m.log, a) = "recovery_pending" /\ Sync(s, m, x, "return")
  <2>1. /\ m \in Memory /\ a \in Nat /\ m.persisted = Len(ledger) /\ m.log = ledger
        /\ ledger \in Seq(Envelopes) /\ InOrder(ledger, runs) /\ v \in Pen
        /\ Filed(ledger, a) /\ Grown(ledger, ledger, a, Running)
        /\ OfKind(ledger, a, "terminal") = {} /\ StateOf(ledger, a) = "recovery_pending"
    BY <1>1, <1>4, Queued
  <2>2. b \in Bodies /\ b.kind = "terminal" /\ b.outcome = "unknown"
    BY BodyConstructors DEF Terminal, Outcomes
  <2>3. v.log = ledger
    BY <2>1
  <2> HIDE DEF v, b
  <2>4. Wrote(v, w, a, b)
    BY <2>1, <2>2, PutGrows
  <2>5. w \in Pen /\ w.n \in Nat
    BY <2>4 DEF Wrote
  <2> HIDE DEF w
  <2>6. PICK e \in Envelopes : e.attempt = a /\ e.body = b /\ w.log = Append(ledger, e)
    BY <2>3, <2>4 DEF Wrote
  <2>7. Filed(Append(ledger, e), a)
    BY <2>1, <2>2, <2>6, FiledVerdict
  <2>8. Running \in SUBSET Entries /\ "terminal" \in Running /\ "transition" \in Running
    BY DEF Running, Entries
  <2>9. Grown(ledger, w.log, a, Running)
    BY <2>1, <2>2, <2>6, <2>7, <2>8, GrownOne
  <2>10. OfKind(w.log, a, "terminal") = {Len(ledger) + 1} /\ w.log[Len(ledger) + 1] = e
    <3>1. OfKind(Append(ledger, e), e.attempt, e.body.kind) =
             OfKind(ledger, e.attempt, e.body.kind) \union {Len(ledger) + 1}
      BY <2>1, OfKindAppend
    <3>2. Append(ledger, e)[Len(ledger) + 1] = e
      BY <2>1, AppendFacts
    <3> QED BY <2>1, <2>2, <2>6, <3>1, <3>2
  <2>11. x.ok => Walked(w, x, a, "terminal")
    BY <2>1, <2>5, GoFrom DEF States, Causes
  <2> HIDE DEF x
  <2>12. ASSUME x.ok
         PROVE  InOrder(x.log, runs) /\ Extends(ledger, x.log) /\ Pledge(ledger, x.log)
    <3>1. Walked(w, x, a, "terminal")
      BY <2>11, <2>12
    <3> HIDE DEF m, a
    <3>2. Grown(ledger, x.log, a, Running) /\ StateOf(x.log, a) = "terminal"
      BY <2>1, <2>8, <2>9, <3>1, WalkedGrows
    <3>3. OfKind(x.log, a, "terminal") = {Len(ledger) + 1}
      BY <2>10, <3>1 DEF Walked
    <3>4. x.log[Len(ledger) + 1].body.outcome = "unknown"
      <4>1. PICK f : x.log = Append(w.log, f)
        BY <3>1 DEF Walked
      <4>2. w.log = Append(ledger, e)
        BY <2>6
      <4>3. x.log[Len(ledger) + 1] = e
        BY <2>1, <4>1, <4>2
      <4> QED BY <2>2, <2>6, <4>3
    <3>5. Rest(x.log, a)
      BY <3>2, <3>3, <3>4 DEF Rest, Over, Succeeded
    <3>6. Outcome(x.log, a) = "unknown"
      <4>1. Filed(x.log, a) /\ x.log \in Seq(Envelopes)
        BY <3>2 DEF Grown, Book
      <4> QED BY <3>3, <3>4, <4>1, OutcomeIs
    <3>7. Rest(ledger, a) /\ LossMarked(ledger, x.log, a)
      BY <2>1, <3>6 DEF InOrder, LossMarked
    <3>8. Pledge(ledger, x.log)
      BY <2>1, <2>8, <3>2, <3>5, <3>7, GrownPledge
    <3> QED BY <2>1, <3>2, <3>5, <3>8, GrownEnd
  <2>13. "return" \in Continuations /\ "return" \notin Pipelined /\ "return" \notin Unrun
    BY DEF Continuations, Pipelined, Unrun
  <2> QED BY <1>1, <1>2, <1>4, <2>1, <2>12, <2>13, SyncBooks
<1> QED BY <1>1, <1>3, <1>4

LEMMA ResumeBooks ==
    ASSUME OneAtATime, TruthInv, BooksInv, NEW s \in Sessions, ResumeAttempt(s)
    PROVE  BooksInv'
<1> DEFINE m == sess[s]
           a == m.att
           g == CurrentGeneration(m.log, a)
           b == FenceGeneration(g + 1)
           v == [log |-> m.log, n |-> saved, ok |-> TRUE]
           w == Put(v, a, b)
           x == Go(w, a, "preparing", "recovery_resume", w.n)
<1>1. /\ m.pc = "resume" /\ UNCHANGED <<ledger, runs, attempts>>
      /\ \/ Fail(s)
         \/ ResolveState(m.log, a) = "recovery_pending" /\ Sync(s, m, x, "prepare")
  BY DEF ResumeAttempt, store
<1>2. World(ledger', runs', attempts')
  BY <1>1, WorldRests
<1>3. CASE Fail(s)
  BY <1>2, <1>3, FailBooks
<1>4. CASE ResolveState(m.log, a) = "recovery_pending" /\ Sync(s, m, x, "prepare")
  <2>1. /\ m \in Memory /\ a \in Nat /\ m.persisted = Len(ledger) /\ m.log = ledger
        /\ ledger \in Seq(Envelopes) /\ InOrder(ledger, runs) /\ v \in Pen
        /\ StateOf(ledger, a) = "recovery_pending" /\ Filed(ledger, a)
        /\ Grown(ledger, ledger, a, Entries)
        /\ OfKind(ledger, a, "terminal") = {} /\ OfKind(ledger, a, "commit") = {}
    BY <1>1, <1>4, Queued
  <2>2. g \in Nat /\ g = CurrentGeneration(ledger, a)
    BY <2>1, FenceType
  <2>3. v.log = ledger
    BY <2>1
  <2> HIDE DEF g, v
  <2>4. b \in Bodies /\ b.kind = "fence_generation" /\ b.generation = g + 1
    BY <2>2, BodyConstructors DEF FenceGeneration
  <2> HIDE DEF b
  <2>5. Wrote(v, w, a, b)
    BY <2>1, <2>4, PutGrows
  <2>6. w \in Pen /\ w.n \in Nat
    BY <2>5 DEF Wrote
  <2> HIDE DEF w
  <2>7. PICK e \in Envelopes : e.attempt = a /\ e.body = b /\ w.log = Append(ledger, e)
    BY <2>3, <2>5 DEF Wrote
  <2>8. Entries \in SUBSET Entries /\ "fence_generation" \in Entries /\ "transition" \in Entries
    BY DEF Entries
  <2>9. Grown(ledger, w.log, a, Entries)
    BY <2>1, <2>4, <2>7, <2>8, GrownFence
  <2>10. CurrentGeneration(w.log, a) = g + 1
    BY <2>1, <2>4, <2>7, GenerationSet
  <2>11. OfKind(w.log, a, "terminal") = {}
    BY <2>1, <2>3, <2>4, <2>5 DEF Wrote
  <2>12. x.ok => Walked(w, x, a, "preparing")
    BY <2>1, <2>6, GoFrom DEF States, Causes
  <2> HIDE DEF x
  <2>13. ASSUME x.ok
         PROVE  /\ InOrder(x.log, runs) /\ Extends(ledger, x.log) /\ a \in CreatedIn(x.log)
                /\ \A r \in runs : r.attempt = a => r.generation < CurrentGeneration(x.log, a)
                /\ Pledge(ledger, x.log)
    <3>1. Walked(w, x, a, "preparing")
      BY <2>12, <2>13
    <3> HIDE DEF m, a
    <3>2. Grown(ledger, x.log, a, Entries) /\ StateOf(x.log, a) = "preparing"
      BY <2>1, <2>8, <2>9, <3>1, WalkedGrows
    <3>3. /\ a \in CreatedIn(x.log) /\ Extends(ledger, x.log) /\ x.log \in Seq(Envelopes)
          /\ w.log \in Seq(Envelopes)
      BY <2>9, <3>2 DEF Grown, Book, Adds
    <3>4. /\ OfKind(x.log, a, "terminal") = {}
          /\ OfKind(x.log, a, "fence_generation") = OfKind(w.log, a, "fence_generation")
      BY <2>11, <3>1 DEF Walked
    <3>5. Extends(w.log, x.log)
      <4>1. PICK f \in Envelopes : x.log = Append(w.log, f)
        BY <3>1 DEF Walked
      <4> QED BY <3>3, <4>1 DEF Extends
    <3>6. CurrentGeneration(x.log, a) = g + 1
      BY <2>10, <3>3, <3>4, <3>5, GenerationKept
    <3>7. ASSUME NEW r \in runs, r.attempt = a
          PROVE  r.generation < g + 1
      <4>1. r.generation <= g
        BY <2>1, <2>2, <3>7 DEF InOrder
      <4>2. r.generation \in Nat
        BY DEF TruthInv, Tables
      <4> QED BY <2>2, <4>1, <4>2
    <3>8. Rest(x.log, a)
      BY <3>2, <3>4, RestOpen DEF Over
    <3>9. \A r \in runs : r.attempt = a => r.generation <= g + 1
      <4>1. \A r \in runs : r.generation \in Nat
        BY DEF TruthInv, Tables
      <4> QED BY <2>2, <3>7, <4>1
    <3>10. InOrder(x.log, runs)
      BY <2>1, <3>2, <3>6, <3>8, <3>9, OrderGrown
    <3>11. Rest(ledger, a) /\ LossMarked(ledger, x.log, a)
      BY <2>1, <3>2 DEF InOrder, LossMarked, Over
    <3>12. Pledge(ledger, x.log)
      BY <2>1, <2>8, <3>2, <3>8, <3>11, GrownPledge
    <3> QED BY <3>3, <3>6, <3>7, <3>10, <3>12
  <2>14. "prepare" \in Continuations
    BY DEF Continuations
  <2> QED BY <1>1, <1>2, <1>4, <2>1, <2>13, <2>14, SyncBooks
<1> QED BY <1>1, <1>3, <1>4

-----------------------------------------------------------------------------
(* The whole. *)

LEMMA WorldBooks ==
    ASSUME BooksInv, UNCHANGED <<store, sess>>
    PROVE  BooksInv'
<1>1. UNCHANGED <<ledger, runs, attempts, sess>>
  BY DEF store
<1> QED BY <1>1 DEF BooksInv

LEMMA InitBooks == Init => BooksInv
<1> SUFFICES ASSUME Init PROVE BooksInv
  OBVIOUS
<1>1. /\ ledger = <<>> /\ attempts = {} /\ runs = {}
      /\ \A s \in Sessions : sess[s].pc = "idle"
  BY DEF Init, Blank
<1>2. <<>> \in Seq(Envelopes) /\ DOMAIN <<>> = {} /\ \A i : i \notin DOMAIN <<>>
  OBVIOUS
<1>3. /\ \A x, k : OfKind(<<>>, x, k) = {}
      /\ \A k : AnyOfKind(<<>>, k) = {}
  BY <1>2 DEF OfKind, AnyOfKind
<1>4. CreatedIn(<<>>) = {} /\ Created(<<>>) = {}
  BY <1>3 DEF CreatedIn, Created
<1>5. \A x : StateOf(<<>>, x) = "created"
  BY <1>3 DEF StateOf, Moves
<1>6. \A x : Filed(<<>>, x)
  BY <1>3 DEF Filed, OneCommit, VerdictEarned
<1>7. \A x : Rest(<<>>, x)
  BY <1>3, <1>5 DEF Rest, Over, Succeeded
<1>8. Book(<<>>)
  BY <1>2, <1>3, <1>4, <1>6 DEF Book, Resolves, WellChosen, OneAttemptPerKey
<1> QED BY <1>1, <1>4, <1>7, <1>8 DEF BooksInv, World, InOrder, Guarded

LEMMA WorkBooks ==
    ASSUME OneAtATime, TruthInv, BooksInv, NEW s \in Sessions, Work(s)
    PROVE  BooksInv'
<1>1. CASE PersistReceipts(s)
  BY <1>1, PersistBooks
<1>2. CASE SaveIds(s)
  BY <1>2, SaveBooks
<1>3. CASE AdmitRequest(s)
  BY <1>3, AdmitBooks
<1>4. CASE PutPack(s)
  BY <1>4, PutPackBooks
<1>5. CASE InsertAttempt(s)
  BY <1>5, InsertBooks
<1>6. CASE Preflight(s)
  BY <1>6, PreflightBooks
<1>7. CASE Prepare(s)
  BY <1>7, PrepareBooks
<1>8. CASE EnterRunning(s)
  BY <1>8, EnterBooks
<1>9. CASE HandStarts(s)
  BY <1>9, HandStartsBooks
<1>10. CASE HandErrs(s)
  BY <1>10, HandErrsBooks
<1>11. CASE HandReturns(s)
  BY <1>11, HandReturnsBooks
<1>12. CASE ObserveAndCommit(s)
  BY <1>12, ObserveBooks
<1>13. CASE Validate(s)
  BY <1>13, ValidateBooks
<1>14. CASE ClassifyAndClose(s)
  BY <1>14, ClassifyBooks
<1>15. CASE SelectForTask(s)
  BY <1>15, SelectBooks
<1>16. CASE CloseAsUnknown(s)
  BY <1>16, CloseBooks
<1>17. CASE ResumeAttempt(s)
  BY <1>17, ResumeBooks
<1>18. CASE Return(s) \/ ReturnError(s)
  BY <1>18, EndBooks
<1> QED BY <1>1, <1>2, <1>3, <1>4, <1>5, <1>6, <1>7, <1>8, <1>9, <1>10, <1>11, <1>12,
           <1>13, <1>14, <1>15, <1>16, <1>17, <1>18 DEF Work

LEMMA BooksKept ==
    ASSUME OneAtATime
    PROVE  TruthInv /\ BooksInv /\ [Next]_vars => BooksInv'
<1> SUFFICES ASSUME TruthInv, BooksInv, [Next]_vars PROVE BooksInv'
  OBVIOUS
<1>1. ASSUME NEW s \in Sessions, Work(s) PROVE BooksInv'
  BY <1>1, WorkBooks
<1>2. ASSUME NEW s \in Sessions, Command(s) PROVE BooksInv'
  BY <1>2, CommandBooks
<1>3. ASSUME NEW s \in Sessions, Crash(s) PROVE BooksInv'
  BY <1>3, EndBooks
<1>4. ASSUME NEW r \in attempts, RequestCancel(r) PROVE BooksInv'
  BY <1>4, WorldBooks DEF RequestCancel
<1>5. ASSUME NEW t \in Tasks, NEW h \in Hashes, ChangeInputs(t, h) PROVE BooksInv'
  BY <1>5, WorldBooks DEF ChangeInputs
<1>6. CASE UNCHANGED vars
  BY <1>6, WorldBooks DEF vars
<1> QED BY <1>1, <1>2, <1>3, <1>4, <1>5, <1>6 DEF Next

\* With one command at a time the books are always in order.
LEMMA BooksAlways ==
    ASSUME OneAtATime
    PROVE  Spec => []BooksInv
<1>1. Init => BooksInv
  BY InitBooks
<1>2. TruthInv /\ BooksInv /\ [Next]_vars => BooksInv'
  BY BooksKept
<1>3. Spec => []TruthInv
  BY TruthAlways
<1> QED BY <1>1, <1>2, <1>3, PTL DEF Spec

-----------------------------------------------------------------------------
(* What follows. *)

LEMMA BooksSound == BooksInv => LedgerSound
<1> SUFFICES ASSUME BooksInv PROVE LedgerSound
  OBVIOUS
<1>1. /\ Book(ledger) /\ ledger \in Seq(Envelopes)
      /\ \A a : Rest(ledger, a) /\ Filed(ledger, a)
  BY DEF BooksInv, World, InOrder, Book
<1>2. LedgerResolves
  <2>1. CreatedAttempts = CreatedIn(ledger)
    BY DEF CreatedAttempts
  <2> QED BY <1>1, <2>1 DEF LedgerResolves, Book, Resolves
<1>3. OneVerdict
  <2> SUFFICES ASSUME NEW a \in CreatedAttempts
               PROVE  /\ Cardinality(OfKind(ledger, a, "terminal")) <= 1
                      /\ StateOf(ledger, a) \in {"terminal", "closed"}
                           <=> OfKind(ledger, a, "terminal") # {}
    BY DEF OneVerdict
  <2> DEFINE T == OfKind(ledger, a, "terminal")
  <2>1. Cardinality(T) <= 1
    <3>1. \A i, j \in T : i = j
      BY <1>1 DEF Filed, VerdictEarned
    <3> HIDE DEF T
    <3>2. CASE T = {}
      <4>1. IsFiniteSet(T) /\ Cardinality(T) = 0
        BY <3>2, FS_EmptySet
      <4> QED BY <4>1
    <3>3. ASSUME NEW i \in T PROVE Cardinality(T) <= 1
      <4>1. T = {i}
        BY <3>1
      <4>2. Cardinality(T) = 1
        BY <4>1, FS_Singleton, Zenon
      <4> QED BY <4>2
    <3> QED BY <3>2, <3>3
  <2>2. StateOf(ledger, a) \in {"terminal", "closed"} <=> T # {}
    BY <1>1 DEF Rest, Over
  <2> QED BY <2>1, <2>2
<1>4. SatisfiedByEvidence
  <2> SUFFICES ASSUME NEW t \in Tasks, TaskSatisfied(ledger, t)
               PROVE  LET a == SelectedFor(ledger, t)
                          c == OfKind(ledger, a, "commit")
                      IN  /\ StateOf(ledger, a) = "closed" /\ Outcome(ledger, a) = "success"
                          /\ c # {}
                          /\ ledger[Latest(c)].body.generation = CurrentGeneration(ledger, a)
                          /\ \A n \in Required :
                                /\ ledger[Latest(c)].body.artifacts[n] = "verified"
                                /\ \A v \in Validators :
                                      \E i \in OfKind(ledger, a, "validation") :
                                         /\ i > Latest(c)
                                         /\ ledger[i].body = Validation(n, v, "passed")
                          /\ \A k \in {"abort_cause", "quarantine"} : OfKind(ledger, a, k) = {}
                          /\ Exceeded(ledger, a, {"step", "run", "reserve"}) = {}
    BY DEF SatisfiedByEvidence
  <2> DEFINE a == SelectedFor(ledger, t)
             c == OfKind(ledger, a, "commit")
  <2>1. Succeeded(ledger, a)
    BY <1>1, ChosenIs
  <2> HIDE DEF a
  <2>2. PICK i \in OfKind(ledger, a, "terminal") : ledger[i].body.outcome = "success"
    BY <2>1 DEF Succeeded
  <2>3. StateOf(ledger, a) = "closed" /\ Outcome(ledger, a) = "success"
    BY <1>1, <2>1, <2>2, OutcomeIs DEF Rest
  <2>4. Proven(ledger, a)
    BY <1>1, <2>2 DEF Filed, VerdictEarned
  <2>5. PICK j \in c :
           /\ ledger[j].body.generation = CurrentGeneration(ledger, a)
           /\ \A n \in Required :
                 /\ ledger[j].body.artifacts[n] = "verified"
                 /\ \A v \in Validators : \E k \in OfKind(ledger, a, "validation") :
                       j < k /\ ledger[k].body = Validation(n, v, "passed")
    BY <2>4 DEF Proven
  <2>6. Latest(c) = j
    BY <1>1, OnlyLatest DEF Filed, OneCommit
  <2>7. /\ j \in Nat /\ \A k \in OfKind(ledger, a, "validation") : k \in Nat
    BY <1>1, OfKindMember
  <2>8. \A n \in Required :
           /\ ledger[j].body.artifacts[n] = "verified"
           /\ \A v \in Validators : \E k \in OfKind(ledger, a, "validation") :
                 k > j /\ ledger[k].body = Validation(n, v, "passed")
    BY <2>5, <2>7
  <2>9. /\ OfKind(ledger, a, "abort_cause") = {} /\ OfKind(ledger, a, "quarantine") = {}
        /\ Exceeded(ledger, a, {"step", "run", "reserve"}) = {}
    BY <2>4 DEF Proven
  <2> QED BY <2>3, <2>5, <2>6, <2>8, <2>9 DEF a
<1> QED BY <1>2, <1>3, <1>4 DEF LedgerSound

\* However often commands are killed at a sync point and attempts resumed, retried
\* or closed, every attempt of the ledger resolves, is judged at most once, and
\* a task is satisfied only on evidence (LedgerSound, for all bounds).
THEOREM SoundLedger ==
    ASSUME OneAtATime
    PROVE  Spec => []LedgerSound
<1>1. Spec => []BooksInv
  BY BooksAlways
<1>2. BooksInv => LedgerSound
  BY BooksSound
<1> QED BY <1>1, <1>2, PTL

\* No two runs of an attempt are given the same fence generation, though the
\* row of a run is written before the receipts that lead to it.
THEOREM RunsFenced ==
    ASSUME OneAtATime
    PROVE  Spec => []OneRunPerGeneration
<1>1. Spec => []BooksInv
  BY BooksAlways
<1>2. BooksInv => OneRunPerGeneration
  BY DEF BooksInv, World, OneRunPerGeneration
<1> QED BY <1>1, <1>2, PTL

\* A task is attempted under one semantic hash, and under each request
\* generation once, over everything any command ever wrote.
THEOREM RequestsOnce ==
    ASSUME OneAtATime
    PROVE  Spec => []RequestsIdempotent
<1>1. Spec => []BooksInv
  BY BooksAlways
<1>2. BooksInv => RequestsIdempotent
  BY DEF BooksInv, World, InOrder, Book, RequestsIdempotent
<1> QED BY <1>1, <1>2, PTL

LEMMA BooksCancel == BooksInv => CancelSticks
<1> SUFFICES ASSUME BooksInv, NEW a \in CreatedAttempts, OfKind(ledger, a, "abort_cause") # {}
             PROVE  Outcome(ledger, a) \in {"none", "cancelled", "unknown"}
  BY DEF CancelSticks
<1>1. ledger \in Seq(Envelopes) /\ Filed(ledger, a)
  BY DEF BooksInv, World, InOrder, Book
<1>2. CASE OfKind(ledger, a, "terminal") = {}
  BY <1>2 DEF Outcome
<1>3. ASSUME NEW i \in OfKind(ledger, a, "terminal")
      PROVE  Outcome(ledger, a) \in {"none", "cancelled", "unknown"}
  <2>1. Outcome(ledger, a) = ledger[i].body.outcome
    BY <1>1, OutcomeIs
  <2>2. ledger[i].body.outcome \in {"cancelled", "unknown"}
    BY <1>1 DEF Filed, VerdictEarned
  <2> QED BY <2>1, <2>2
<1> QED BY <1>2, <1>3

\* An attempt whose cancellation is on record is judged cancelled, or unknown
\* if an operator gave it up; nothing it committed overrides that.
THEOREM CancelIsFinal ==
    ASSUME OneAtATime
    PROVE  Spec => []CancelSticks
<1>1. Spec => []BooksInv
  BY BooksAlways
<1>2. BooksInv => CancelSticks
  BY BooksCancel
<1> QED BY <1>1, <1>2, PTL

\* What a hand that starts is started for.
NoHand ==
    \A r \in runs : r.run \in started' \ started =>
        /\ OfKind(ledger, r.attempt, "terminal") = {}
        /\ OfKind(ledger, r.attempt, "abort_cause") = {}

LEMMA HandStartsFresh ==
    ASSUME TruthInv, BooksInv, NEW s \in Sessions, HandStarts(s)
    PROVE  NoHand
<1> DEFINE m == sess[s]
           a == m.att
<1> SUFFICES ASSUME NEW r \in runs, r.run \in started' \ started
             PROVE  /\ OfKind(ledger, r.attempt, "terminal") = {}
                    /\ OfKind(ledger, r.attempt, "abort_cause") = {}
  BY DEF NoHand
<1>1. m.pc = "hand" /\ (started' = started \/ started' = started \union {m.run})
  BY DEF HandStarts, outside, counters
<1>2. r.run = m.run
  BY <1>1
<1>3. PICK q \in runs : q.run = m.run /\ q.attempt = a
  BY <1>1 DEF TruthInv, Truthful
<1>4. r = q
  BY <1>2, <1>3 DEF BooksInv, World
<1>5. /\ Extends(ledger, m.log) /\ m.log \in Seq(Envelopes) /\ ledger \in Seq(Envelopes)
      /\ StateOf(m.log, a) = "running" /\ OfKind(m.log, a, "abort_cause") = {}
      /\ InOrder(m.log, runs)
  BY <1>1, Standing DEF Working
<1>6. OfKind(m.log, a, "terminal") = {}
  BY <1>5 DEF InOrder, Rest, Over
<1>7. \A k : OfKind(ledger, a, k) \subseteq OfKind(m.log, a, k)
  <2> HIDE DEF m, a
  <2> QED BY <1>5, ExtendsKeep
<1> QED BY <1>3, <1>4, <1>5, <1>6, <1>7

LEMMA HandsFresh == TruthInv /\ BooksInv /\ [Next]_vars => [NoHand]_started
<1> SUFFICES ASSUME TruthInv, BooksInv, [Next]_vars PROVE NoHand \/ UNCHANGED started
  OBVIOUS
<1>1. ASSUME NEW s \in Sessions, HandStarts(s) PROVE NoHand
  BY <1>1, HandStartsFresh
<1>2. ASSUME NEW s \in Sessions, Work(s), ~HandStarts(s) PROVE UNCHANGED started
  BY <1>2 DEF Work, PersistReceipts, SaveIds, AdmitRequest, PutPack, InsertAttempt, Preflight,
       Prepare, EnterRunning, HandErrs, HandReturns, ObserveAndCommit, Validate,
       ClassifyAndClose, SelectForTask, CloseAsUnknown, ResumeAttempt, Return, ReturnError
<1>3. ASSUME NEW s \in Sessions, Command(s) \/ Crash(s) PROVE UNCHANGED started
  BY <1>3 DEF Command, StartRun, StartRetry, StartClose, StartResume, Crash
<1>4. ASSUME NEW r \in attempts, RequestCancel(r) PROVE UNCHANGED started
  BY <1>4 DEF RequestCancel
<1>5. ASSUME NEW t \in Tasks, NEW h \in Hashes, ChangeInputs(t, h) PROVE UNCHANGED started
  BY <1>5 DEF ChangeInputs
<1>6. CASE UNCHANGED vars
  BY <1>6 DEF vars
<1> QED BY <1>1, <1>2, <1>3, <1>4, <1>5, <1>6 DEF Next

\* A hand is invoked only for an attempt that was neither judged nor cancelled:
\* what a resumed run goes back to, if its cancellation was recorded, is the abort.
THEOREM NoHandStarts ==
    ASSUME OneAtATime
    PROVE  Spec => NoHandAfterAbort
<1>1. Spec => []BooksInv
  BY BooksAlways
<1>2. Spec => []TruthInv
  BY TruthAlways
<1>3. TruthInv /\ BooksInv /\ [Next]_vars => [NoHand]_started
  BY HandsFresh
<1>4. Spec => [][NoHand]_started
  BY <1>1, <1>2, <1>3, PTL DEF Spec
<1> QED BY <1>4 DEF NoHandAfterAbort, NoHand

-----------------------------------------------------------------------------
(* The contract of attempts and tasks. *)

\* A ledger that keeps its pledge takes one step of the contract, or none.
LEMMA PledgeSteps ==
    ASSUME Pledge(ledger, ledger')
    PROVE  [Contract!Next]_(Contract!vars)
<1>1. CASE Kept(ledger, ledger')
  BY <1>1 DEF Kept, Contract!vars
<1>2. ASSUME NEW a, Admits(ledger, ledger', a)
      PROVE  Contract!Next
  <2>1. Contract!Admit(a, Owners(ledger')[a])
    BY <1>2 DEF Admits, Contract!Admit
  <2>2. a \in DOMAIN Phases(ledger') \ DOMAIN Phases(ledger)
    BY <1>2 DEF Admits, Contract!With
  <2> QED BY <2>1, <2>2 DEF Contract!Next
<1>3. ASSUME NEW a, Turns(ledger, ledger', a)
      PROVE  [Contract!Next]_(Contract!vars)
  <2> DEFINE p == Phases(ledger)[a]
             q == Phases(ledger')[a]
  <2>1. \/ p = q
        \/ <<p, q>> \in {<<"open", "lost">>, <<"lost", "open">>, <<"lost", "unknown">>}
        \/ p = "open" /\ q \in Outcomes \ {"unknown"}
    BY <1>3 DEF Turns, Turn
  <2>2. CASE p = q
    <3>1. Phases(ledger') = Phases(ledger)
      BY <1>3, <2>2 DEF Turns, Phases
    <3> QED BY <1>3, <3>1 DEF Turns, Contract!vars
  <2>3. Contract!Move(a, p, q)
    BY <1>3 DEF Turns, Contract!Move
  <2>4. a \in DOMAIN Phases(ledger)
    BY <1>3 DEF Turns
  <2> HIDE DEF p, q
  <2>5. CASE <<p, q>> \in {<<"open", "lost">>, <<"lost", "open">>, <<"lost", "unknown">>}
    <3>1. Contract!Lose(a) \/ Contract!Resume(a) \/ Contract!GiveUp(a)
      BY <2>3, <2>5 DEF Contract!Lose, Contract!Resume, Contract!GiveUp
    <3> QED BY <2>4, <3>1 DEF Contract!Next
  <2>6. CASE p = "open" /\ q \in Outcomes \ {"unknown"}
    <3>1. Contract!Judge(a, q)
      BY <2>3, <2>6 DEF Contract!Judge
    <3> QED BY <2>4, <2>6, <3>1 DEF Contract!Next
  <2> QED BY <2>1, <2>2, <2>5, <2>6
<1>4. ASSUME NEW a, Chooses(ledger, ledger', a)
      PROVE  Contract!Next
  <2>1. Contract!Choose(a) /\ a \in DOMAIN Phases(ledger)
    BY <1>4 DEF Chooses, Contract!Choose
  <2> QED BY <2>1 DEF Contract!Next
<1> QED BY <1>1, <1>2, <1>3, <1>4 DEF Pledge

\* Only a sync writes the ledger, and it writes what the command has in memory.
LEMMA OnlySyncs ==
    ASSUME [Next]_vars, ledger' # ledger
    PROVE  \E s \in Sessions : PersistReceipts(s)
<1>1. ASSUME NEW s \in Sessions, Work(s) PROVE PersistReceipts(s)
  <2>1. ~SaveIds(s) /\ ~PutPack(s) /\ ~InsertAttempt(s)
    BY DEF SaveIds, PutPack, InsertAttempt
  <2>2. ~EnterRunning(s) /\ ~HandReturns(s)
    BY DEF EnterRunning, HandReturns
  <2>3. ~AdmitRequest(s) /\ ~Preflight(s) /\ ~Prepare(s)
    BY DEF AdmitRequest, Preflight, Prepare, store
  <2>4. ~HandStarts(s) /\ ~HandErrs(s) /\ ~ObserveAndCommit(s)
    BY DEF HandStarts, HandErrs, ObserveAndCommit, store
  <2>5. ~Validate(s) /\ ~ClassifyAndClose(s) /\ ~SelectForTask(s)
    BY DEF Validate, ClassifyAndClose, SelectForTask, store
  <2>6. ~CloseAsUnknown(s) /\ ~ResumeAttempt(s) /\ ~Return(s) /\ ~ReturnError(s)
    BY DEF CloseAsUnknown, ResumeAttempt, Return, ReturnError, store
  <2> QED BY <1>1, <2>1, <2>2, <2>3, <2>4, <2>5, <2>6 DEF Work
<1>2. ASSUME NEW s \in Sessions PROVE ~Command(s) /\ ~Crash(s)
  BY DEF Command, StartRun, StartRetry, StartClose, StartResume, Crash, store
<1>3. /\ ~\E r \in attempts : RequestCancel(r)
      /\ ~\E t \in Tasks, h \in Hashes : ChangeInputs(t, h)
      /\ ~UNCHANGED vars
  BY DEF RequestCancel, ChangeInputs, vars, store
<1> QED BY <1>1, <1>2, <1>3 DEF Next

LEMMA SyncWritten ==
    ASSUME TruthInv, BooksInv, NEW s \in Sessions, PersistReceipts(s), ledger' # ledger
    PROVE  ledger' = sess[s].log /\ Pledge(ledger, sess[s].log)
<1> DEFINE m == sess[s]
<1>1. m.pc = "persist" /\ ledger' = ledger \o SubSeq(m.log, m.persisted + 1, Len(m.log))
  BY DEF PersistReceipts, Unsynced
<1>2. /\ m.persisted = Len(ledger) /\ Extends(ledger, m.log)
      /\ m.log \in Seq(Envelopes) /\ ledger \in Seq(Envelopes)
  BY <1>1, Standing
<1>3. Pledge(ledger, m.log)
  BY <1>1 DEF BooksInv, Held
<1> HIDE DEF m
<1>4. \A p, q \in Seq(Envelopes) : Len(p) <= Len(q) /\ (\A i \in 1..Len(p) : q[i] = p[i])
         => p \o SubSeq(q, Len(p) + 1, Len(q)) = q
  OBVIOUS
<1>5. ledger' = m.log
  BY <1>1, <1>2, <1>4 DEF Extends
<1> QED BY <1>3, <1>5 DEF m

LEMMA LedgerSteps ==
    ASSUME TruthInv, BooksInv, [Next]_vars
    PROVE  Pledge(ledger, ledger')
<1>1. CASE ledger' = ledger
  BY <1>1 DEF Pledge, Kept
<1>2. CASE ledger' # ledger
  <2>1. PICK s \in Sessions : PersistReceipts(s)
    BY <1>2, OnlySyncs
  <2> QED BY <1>2, <2>1, SyncWritten
<1> QED BY <1>1, <1>2

LEMMA ContractStarts == Init => Contract!Init
<1> SUFFICES ASSUME Init PROVE Contract!Init
  OBVIOUS
<1>1. ledger = <<>>
  BY DEF Init
<1>2. CreatedIn(ledger) = {} /\ \A t : Selections(ledger, t) = {}
  BY <1>1 DEF CreatedIn, Created, Selections, AnyOfKind
<1>3. Phases(ledger) = <<>> /\ Owners(ledger) = <<>>
  BY <1>2 DEF Phases, Owners
<1>4. Chosen(ledger) = [t \in Tasks |-> 0]
  BY <1>2 DEF Chosen, TaskSatisfied, NoAttempt
<1> QED BY <1>3, <1>4 DEF Contract!Init

\* Whatever commands, kills, resumes, retries and closes do to the receipts, the
\* attempts and tasks they are about keep the contract (ImplementsContract).
THEOREM ContractKept ==
    ASSUME OneAtATime
    PROVE  Spec => ImplementsContract
<1>1. Init => Contract!Init
  BY ContractStarts
<1>2. TruthInv /\ BooksInv /\ [Next]_vars => [Contract!Next]_(Contract!vars)
  BY LedgerSteps, PledgeSteps
<1>3. Spec => []TruthInv
  BY TruthAlways
<1>4. Spec => []BooksInv
  BY BooksAlways
<1> QED BY <1>1, <1>2, <1>3, <1>4, PTL DEF Spec, ImplementsContract, Contract!Spec

-----------------------------------------------------------------------------
(* The recovery queue. *)

\* Beside the queue and its clock the commands step as they do without.
LEMMA ConsoleIsEngine == ConsoleSpec => Spec
<1>1. ConsoleInit => Init
  BY DEF ConsoleInit
<1>2. [ConsoleNext]_consoleVars => [Next]_vars
  BY DEF ConsoleNext, consoleVars, Tick, Next
<1> QED BY <1>1, <1>2, PTL DEF ConsoleSpec, Spec

\* No stage began, and no receipt was stamped, after now.
ClockInv ==
    /\ now \in Nat
    /\ at \in [Sessions -> Nat] /\ \A s \in Sessions : at[s] <= now
    /\ DOMAIN last = KnownAttempts
    /\ \A a \in KnownAttempts : last[a] \in Nat /\ last[a] <= now

LEMMA ClockStarts == ConsoleInit => ClockInv
BY DEF ConsoleInit, Init, ClockInv, KnownAttempts

\* A command that persists receipts stamps their attempts, and no others.
LEMMA StampedClock ==
    ASSUME OneAtATime, TruthInv, ClockInv, NEW s \in Sessions, [Next]_vars, Stamped(s)
    PROVE  ClockInv'
<1>1. /\ now \in Nat /\ at \in [Sessions -> Nat] /\ \A r \in Sessions : at[r] <= now
      /\ DOMAIN last = KnownAttempts
      /\ \A a \in KnownAttempts : last[a] \in Nat /\ last[a] <= now
  BY DEF ClockInv
<1>2. now' = now /\ at' \in [Sessions -> Nat] /\ \A r \in Sessions : at'[r] <= now'
  BY <1>1 DEF Stamped
<1>3. CASE ledger' = ledger
  <2>1. last' = last /\ KnownAttempts' = KnownAttempts
    BY <1>3 DEF Stamped, KnownAttempts
  <2> QED BY <1>1, <1>2, <2>1 DEF ClockInv
<1>4. CASE ledger' # ledger
  <2> DEFINE U == {r.attempt : r \in Range(Unsynced(s))}
  <2>1. last' = [a \in KnownAttempts' |-> IF a \in U THEN at[s] ELSE last[a]]
    BY <1>4 DEF Stamped, KnownAttempts
  <2>2. ASSUME NEW a \in KnownAttempts', a \notin U PROVE a \in KnownAttempts
    <3>1. PersistReceipts(s)
      <4>1. PICK r \in Sessions : PersistReceipts(r)
        BY <1>4, OnlySyncs
      <4> QED BY <4>1 DEF OneAtATime
    <3>2. ledger' = ledger \o Unsynced(s)
      BY <1>4, <3>1 DEF PersistReceipts
    <3>3. sess[s].log \in Seq(Envelopes) /\ sess[s].persisted \in Nat /\ ledger \in Seq(Envelopes)
      BY PlainBacked, SeqMono DEF TruthInv, Truthful, Memory
    <3>4. Unsynced(s) \in Seq(Envelopes)
      BY <3>3 DEF Unsynced
    <3>5. PICK i \in DOMAIN ledger' : ledger'[i].attempt = a
      BY <2>2 DEF KnownAttempts
    <3>6. CASE i \in DOMAIN ledger
      BY <3>2, <3>3, <3>4, <3>5, <3>6 DEF KnownAttempts
    <3>7. CASE i \notin DOMAIN ledger
      <4>1. i - Len(ledger) \in DOMAIN Unsynced(s) /\ ledger'[i] = Unsynced(s)[i - Len(ledger)]
        BY <3>2, <3>3, <3>4, <3>5, <3>7
      <4>2. a \in U
        BY <3>5, <4>1 DEF Range
      <4> QED BY <2>2, <4>2
    <3> QED BY <3>6, <3>7
  <2> HIDE DEF U
  <2> QED BY <1>1, <1>2, <2>1, <2>2 DEF ClockInv
<1> QED BY <1>3, <1>4

LEMMA ClockKept ==
    ASSUME OneAtATime
    PROVE  TruthInv /\ ClockInv /\ [ConsoleNext]_consoleVars => ClockInv'
<1> SUFFICES ASSUME TruthInv, ClockInv, [ConsoleNext]_consoleVars PROVE ClockInv'
  OBVIOUS
<1>1. ASSUME NEW s \in Sessions, Work(s) \/ Command(s) \/ Crash(s), Stamped(s)
      PROVE  ClockInv'
  <2>1. [Next]_vars
    BY <1>1 DEF Next
  <2> QED BY <1>1, <2>1, StampedClock
<1>2. CASE UNCHANGED <<ledger, now, at, last>>
  BY <1>2 DEF ClockInv, KnownAttempts
<1>3. ASSUME NEW r \in attempts, RequestCancel(r), UNCHANGED <<now, at, last>> PROVE ClockInv'
  BY <1>2, <1>3 DEF RequestCancel, store
<1>4. ASSUME NEW t \in Tasks, NEW h \in Hashes, ChangeInputs(t, h),
             UNCHANGED <<now, at, last>>
      PROVE  ClockInv'
  BY <1>2, <1>4 DEF ChangeInputs, store
<1>5. CASE Tick
  <2>1. now' = now + 1 /\ UNCHANGED <<ledger, at, last>>
    BY <1>5 DEF Tick, vars, store
  <2> QED BY <2>1 DEF ClockInv, KnownAttempts
<1>6. CASE UNCHANGED consoleVars
  BY <1>2, <1>6 DEF consoleVars, vars, store
<1> QED BY <1>1, <1>3, <1>4, <1>5, <1>6 DEF ConsoleNext

\* Every attempt the ledger knows has its row, a created one the row and the
\* stored pack its creation speaks of.
LEMMA KnownRows ==
    ASSUME TruthInv, BooksInv
    PROVE  /\ \A a \in KnownAttempts : Rows(a) # {}
           /\ \A a, i : i \in Births(ledger, a) =>
                 \E r \in Rows(a) : /\ r.task = ledger[i].body.task
                                    /\ r.hash = ledger[i].body.hash
                                    /\ \E p \in packs : p.id = r.pack
<1>1. \A i \in DOMAIN ledger : ledger[i] \in Backed
  BY DEF TruthInv
<1>2. ASSUME NEW a, NEW i \in Births(ledger, a)
      PROVE  \E r \in Rows(a) : /\ r.task = ledger[i].body.task
                                /\ r.hash = ledger[i].body.hash
                                /\ \E p \in packs : p.id = r.pack
  <2>1. /\ i \in DOMAIN ledger /\ ledger[i].attempt = a
        /\ ledger[i].body.kind = "attempt_created" /\ ledger[i] \in Backed
    BY <1>1 DEF Births, OfKind
  <2>2. PICK r \in Rows(a) :
           /\ r.task = ledger[i].body.task /\ r.hash = ledger[i].body.hash
           /\ [id |-> r.pack, task |-> r.task, hash |-> r.hash] \in packs
    BY <2>1 DEF Backed
  <2> QED BY <2>2
<1>3. ASSUME NEW a \in KnownAttempts PROVE Rows(a) # {}
  <2>1. PICK i \in DOMAIN ledger : ledger[i].attempt = a
    BY DEF KnownAttempts
  <2>2. CASE a \in CreatedIn(ledger)
    <3>1. PICK j \in Births(ledger, a) : TRUE
      BY <2>2, CreatedInIs DEF BooksInv, World, InOrder, Book
    <3> QED BY <1>2, <3>1
  <2>3. CASE a \notin CreatedIn(ledger)
    <3>1. ledger[i].body.kind = "selection"
      BY <2>1, <2>3 DEF BooksInv, World, InOrder, Book, Resolves
    <3> QED BY <1>1, <2>1, <3>1 DEF Backed
  <2> QED BY <2>2, <2>3
<1> QED BY <1>2, <1>3

LEMMA QueueSound ==
    ASSUME TruthInv, BooksInv, ClockInv
    PROVE  QueueRight
<1>1. /\ ledger \in Seq(Envelopes) /\ Guarded(ledger) /\ NoAttempt \notin CreatedIn(ledger)
      /\ now \in Nat /\ Tolerance \in Nat
      /\ \A a \in KnownAttempts : last[a] \in Nat /\ last[a] <= now
  BY ConsoleAssumption
     DEF BooksInv, World, InOrder, Book, Resolves, ClockInv, ConsoleAssumption
<1>2. ASSUME NEW a, ResolveState(ledger, a) \in States
      PROVE  a \in CreatedIn(ledger) /\ a \in KnownAttempts /\ Births(ledger, a) # {}
  <2>1. PICK i \in Births(ledger, a) : TRUE
    BY <1>2, ResolvedAttempt
  <2>2. i \in DOMAIN ledger /\ ledger[i].attempt = a
    BY DEF Births, OfKind
  <2> QED BY <1>1, <2>1, <2>2, CreatedInIs DEF KnownAttempts
<1>3. NobodyUnseen
  <2> SUFFICES ASSUME NEW a \in {r.attempt : r \in attempts} \union KnownAttempts, ~Judged(a)
               PROVE  a \in Shown(now + Tolerance + 1)
    BY DEF NobodyUnseen
  <2> DEFINE state == ResolveState(ledger, a)
             time == now + Tolerance + 1
  <2>1. a \in {r.attempt : r \in attempts}
    BY KnownRows DEF Rows
  <2>2. state \notin States \/ state = "recovery_pending" \/ state \in Silent
    BY DEF Judged, States, Silent, PreRun
  <2>3. ASSUME state \in Silent PROVE time - last[a] > Tolerance
    <3>1. state \in States
      BY <2>3 DEF Silent, PreRun, States
    <3>2. last[a] \in Nat /\ last[a] <= now
      BY <1>1, <1>2, <3>1
    <3> QED BY <1>1, <3>2
  <2> HIDE DEF time
  <2>4. a \in Shown(time)
    BY <2>1, <2>2, <2>3 DEF Shown
  <2> QED BY <2>4 DEF time
<1>4. RecoveryActionable
  <2> SUFFICES ASSUME NEW a \in Shown(now)
               PROVE  /\ ~Judged(a)
                      /\ ResolveState(ledger, a) = "recovery_pending" =>
                            /\ Fences(ledger, a) # {}
                            /\ \E r \in Rows(a) :
                                  /\ Refusal(ledger, r.task, r.hash, a) = "none"
                                  /\ \E p \in packs : p.id = r.pack
    BY DEF RecoveryActionable
  <2>1. ~Judged(a)
    BY DEF Shown, Judged, States, Silent, PreRun
  <2>2. ASSUME ResolveState(ledger, a) = "recovery_pending"
        PROVE  /\ Fences(ledger, a) # {}
               /\ \E r \in Rows(a) : /\ Refusal(ledger, r.task, r.hash, a) = "none"
                                     /\ \E p \in packs : p.id = r.pack
    <3>1. a \in CreatedIn(ledger) /\ Births(ledger, a) # {}
      BY <1>2, <2>2 DEF States
    <3>2. Earliest(Births(ledger, a)) \in Births(ledger, a)
      <4>1. Births(ledger, a) \in SUBSET Nat
        BY <1>1 DEF Births, OfKind
      <4> QED BY <3>1, <4>1, EarliestIn
    <3>3. PICK r \in Rows(a) :
             /\ r.task = ledger[Earliest(Births(ledger, a))].body.task
             /\ r.hash = ledger[Earliest(Births(ledger, a))].body.hash
             /\ \E p \in packs : p.id = r.pack
      BY <3>2, KnownRows
    <3>4. Refusal(ledger, r.task, r.hash, a) = "none"
      BY <1>1, <3>1, <3>3 DEF Refusal
    <3> QED BY <1>1, <3>1, <3>3, <3>4 DEF Guarded
  <2> QED BY <2>1, <2>2
<1> QED BY <1>3, <1>4 DEF QueueRight

\* Wherever a command was killed, its attempt is shown once the tolerance has
\* passed, unless it was judged; an attempt with a verdict is never shown; and
\* one in recovery has the fence, the row, the pack and the creation that a
\* resume, a close and a retry of it need.
THEOREM QueueIsRight ==
    ASSUME OneAtATime
    PROVE  ConsoleSpec => []QueueRight
<1>1. ConsoleSpec => []TruthInv /\ []BooksInv
  BY ConsoleIsEngine, TruthAlways, BooksAlways, PTL
<1>2. ConsoleInit => ClockInv
  BY ClockStarts
<1>3. TruthInv /\ ClockInv /\ [ConsoleNext]_consoleVars => ClockInv'
  BY ClockKept
<1>4. TruthInv /\ BooksInv /\ ClockInv => QueueRight
  BY QueueSound
<1> QED BY <1>1, <1>2, <1>3, <1>4, PTL DEF ConsoleSpec

=============================================================================
