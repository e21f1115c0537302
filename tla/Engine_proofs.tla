----------------------------- MODULE Engine_proofs -----------------------------
(***************************************************************************)
(* What is proved of Engine for any number of sessions: every receipt a    *)
(* session holds or has written is well-formed and backed by the rows, the *)
(* packs, the events and the cancel files it speaks of.                    *)
(***************************************************************************)
EXTENDS Engine, LogLemmas, FiniteSetTheorems

LEMMA SeqMono == ASSUME NEW S, NEW T, S \subseteq T PROVE Seq(S) \subseteq Seq(T)
OBVIOUS

\* The log, k receipts long or longer, and the mint while a step appends to them,
\* with receipts out of E.
Writers(E, k) ==
    {w \in [log : Seq(E), n : Nat, ok : BOOLEAN] : k <= Len(w.log)}

Receipt(n, a, body) == [id |-> n, attempt |-> a, body |-> body]

-----------------------------------------------------------------------------
(* What the appending operators of Engine return. *)

\* ReceiptLog::append: one receipt under the next id of the mint.
LEMMA PutIs ==
    ASSUME NEW E, NEW k \in Nat, NEW w \in Writers(E, k), NEW a, NEW body,
           Receipt(w.n + 1, a, body) \in E
    PROVE  /\ Put(w, a, body) \in Writers(E, k)
           /\ Put(w, a, body).log = Append(w.log, Receipt(w.n + 1, a, body))
           /\ Put(w, a, body).n = w.n + 1
           /\ Put(w, a, body).ok = w.ok
<1>1. Put(w, a, body) = [w EXCEPT !.log = Append(@, Receipt(w.n + 1, a, body)), !.n = @ + 1]
  BY DEF Put, With, Receipt
<1>2. w.log \in Seq(E) /\ w.n \in Nat /\ w.ok \in BOOLEAN /\ k <= Len(w.log)
  BY DEF Writers
<1>3. /\ Append(w.log, Receipt(w.n + 1, a, body)) \in Seq(E)
      /\ k <= Len(Append(w.log, Receipt(w.n + 1, a, body)))
  BY <1>2
<1> DEFINE r == Append(w.log, Receipt(w.n + 1, a, body))
<1>4. Put(w, a, body) = [log |-> r, n |-> w.n + 1, ok |-> w.ok]
  <2> HIDE DEF r
  <2> QED BY <1>1, Zenon DEF Writers, r
<1> HIDE DEF r
<1> QED BY <1>2, <1>3, <1>4 DEF Writers, r

\* apply_transition: a legal edge is appended, any other refused.
LEMMA GoIs ==
    ASSUME NEW w, NEW a, NEW to, NEW cause, NEW ref
    PROVE  Go(w, a, to, cause, ref) =
             IF w.ok /\ LegalTransition(w.log, a, to, cause, ref)
             THEN Put(w, a, MoveTo(w.log, a, to, cause, ref))
             ELSE [w EXCEPT !.ok = FALSE]
BY DEF Go, With

\* abort_to_classifying: the cause, then the transition naming it.
LEMMA AbortToIs ==
    ASSUME NEW w, NEW a
    PROVE  LET x == Put(w, a, AbortCause("cancelled"))
           IN  AbortTo(w, a) = Go(x, a, "classifying", "abort", x.n)
BY DEF AbortTo, With

\* classify, the verdict, terminal, closed; refused without enough evidence.
LEMMA ConcludeIs ==
    ASSUME NEW w, NEW a
    PROVE  LET x == Put(w, a, Terminal(Classify(w.log, a)))
               y == Go(x, a, "terminal", "classification_complete", x.n)
           IN  Conclude(w, a) = IF Classify(w.log, a) = "insufficient"
                                THEN [w EXCEPT !.ok = FALSE]
                                ELSE Go(y, a, "closed", "close", 0)
BY DEF Conclude, With

\* A legal transition starts from a state, the one the attempt resolves to.
LEMMA LegalFrom ==
    ASSUME NEW l, NEW a, NEW to \in States, NEW cause \in Causes, NEW ref \in Nat,
           LegalTransition(l, a, to, cause, ref)
    PROVE  /\ ResolveState(l, a) \in States
           /\ <<ResolveState(l, a), to>> \in
                 Pipeline \union {<<"terminal", "closed">>, <<"running", "recovery_pending">>,
                    <<"created", "classifying">>, <<"admitted", "classifying">>,
                    <<"preparing", "classifying">>, <<"recovery_pending", "preparing">>,
                    <<"classifying", "terminal">>, <<"recovery_pending", "terminal">>}
           /\ MoveTo(l, a, to, cause, ref) \in Bodies
           /\ MoveTo(l, a, to, cause, ref).kind = "transition"
<1>1. <<ResolveState(l, a), to>> \in
         Pipeline \union {<<"terminal", "closed">>, <<"running", "recovery_pending">>,
            <<"created", "classifying">>, <<"admitted", "classifying">>,
            <<"preparing", "classifying">>, <<"recovery_pending", "preparing">>,
            <<"classifying", "terminal">>, <<"recovery_pending", "terminal">>}
  BY DEF LegalTransition, PreRun
<1>2. ResolveState(l, a) \in States
  BY <1>1 DEF Pipeline, States
<1> QED BY <1>1, <1>2, TransitionBody DEF MoveTo, Transition

\* The kinds of receipts whose truth rests on something outside the log.
Testimony == {"attempt_created", "capture", "abort_cause", "selection"}

Plain == {e \in Envelopes : e.body.kind \notin Testimony}

\* Every walk stays among the receipts it may use.
LEMMA GoWrites ==
    ASSUME NEW E, NEW k \in Nat, Plain \subseteq E, E \subseteq Envelopes, NEW w \in Writers(E, k),
           NEW a \in Nat, NEW to \in States, NEW cause \in Causes, NEW ref \in Nat
    PROVE  LET x == Go(w, a, to, cause, ref)
           IN  /\ x \in Writers(E, k)
               /\ x.ok <=> w.ok /\ LegalTransition(w.log, a, to, cause, ref)
               /\ x.ok => x = Put(w, a, MoveTo(w.log, a, to, cause, ref))
<1> DEFINE b == MoveTo(w.log, a, to, cause, ref)
           x == Go(w, a, to, cause, ref)
<1>1. CASE w.ok /\ LegalTransition(w.log, a, to, cause, ref)
  <2>1. b \in Bodies /\ b.kind = "transition"
    BY <1>1, LegalFrom
  <2>2. w.n + 1 \in Nat
    BY DEF Writers
  <2>3. Receipt(w.n + 1, a, b) \in E
    <3> HIDE DEF b
    <3>1. Receipt(w.n + 1, a, b) \in Envelopes
      BY <2>1, <2>2, EnvelopeOf DEF Receipt
    <3>2. Receipt(w.n + 1, a, b) \in Plain
      BY <2>1, <3>1 DEF Plain, Testimony, Receipt
    <3> QED BY <3>2
  <2>4. x = Put(w, a, b)
    BY <1>1, GoIs
  <2> HIDE DEF x, b
  <2> QED BY <1>1, <2>3, <2>4, PutIs DEF b, x
<1>2. CASE ~(w.ok /\ LegalTransition(w.log, a, to, cause, ref))
  <2>1. x = [w EXCEPT !.ok = FALSE]
    BY <1>2, GoIs
  <2> HIDE DEF x
  <2> QED BY <1>2, <2>1 DEF Writers, x
<1> QED BY <1>1, <1>2

\* So does one plain receipt.
LEMMA PutWrites ==
    ASSUME NEW E, NEW k \in Nat, Plain \subseteq E, E \subseteq Envelopes, NEW w \in Writers(E, k),
           NEW a \in Nat, NEW body \in Bodies, body.kind \notin Testimony
    PROVE  /\ Put(w, a, body) \in Writers(E, k)
           /\ Put(w, a, body).n \in Nat
           /\ Put(w, a, body).ok = w.ok
<1>1. w.n + 1 \in Nat
  BY DEF Writers
<1>2. Receipt(w.n + 1, a, body) \in Envelopes
  BY <1>1, EnvelopeOf DEF Receipt
<1>3. Receipt(w.n + 1, a, body) \in E
  BY <1>2 DEF Plain, Receipt
<1> QED BY <1>1, <1>3, PutIs

\* And the tail that judges and closes.
LEMMA ConcludeWrites ==
    ASSUME NEW E, NEW k \in Nat, Plain \subseteq E, E \subseteq Envelopes, NEW w \in Writers(E, k),
           NEW a \in Nat
    PROVE  Conclude(w, a) \in Writers(E, k)
<1> DEFINE v == Classify(w.log, a)
           x == Put(w, a, Terminal(v))
           y == Go(x, a, "terminal", "classification_complete", x.n)
<1>1. w.log \in Seq(Envelopes)
  BY SeqMono DEF Writers
<1>2. CASE v = "insufficient"
  <2>1. Conclude(w, a) = [w EXCEPT !.ok = FALSE]
    BY <1>2, ConcludeIs
  <2> QED BY <2>1 DEF Writers
<1>3. CASE v # "insufficient"
  <2>1. v \in Outcomes
    BY <1>1, <1>3, ClassifyType
  <2>2. Terminal(v) \in Bodies /\ Terminal(v).kind \notin Testimony
    <3>1. Terminal(v).kind = "terminal"
      BY DEF Terminal
    <3> QED BY <2>1, <3>1, BodyConstructors DEF Testimony
  <2>3. x \in Writers(E, k) /\ x.n \in Nat
    <3> HIDE DEF v
    <3> QED BY <2>2, PutWrites
  <2> HIDE DEF x
  <2>4. y \in Writers(E, k)
    <3>1. "terminal" \in States /\ "classification_complete" \in Causes
      BY DEF States, Causes
    <3> QED BY <2>3, <3>1, GoWrites
  <2>5. Go(y, a, "closed", "close", 0) \in Writers(E, k)
    <3> HIDE DEF y
    <3> QED BY <2>4, GoWrites DEF States, Causes
  <2>6. Conclude(w, a) = Go(y, a, "closed", "close", 0)
    BY <1>3, ConcludeIs DEF x
  <2> QED BY <2>5, <2>6
<1> QED BY <1>2, <1>3

\* And the cancellation of an attempt, if cancellations of it are among them.
LEMMA AbortToWrites ==
    ASSUME NEW E, NEW k \in Nat, Plain \subseteq E, E \subseteq Envelopes, NEW w \in Writers(E, k),
           NEW a \in Nat, \A n \in Nat : Receipt(n, a, AbortCause("cancelled")) \in E
    PROVE  AbortTo(w, a) \in Writers(E, k)
<1> DEFINE x == Put(w, a, AbortCause("cancelled"))
<1>1. x \in Writers(E, k)
  <2>1. w.n + 1 \in Nat
    BY DEF Writers
  <2> QED BY <2>1, PutIs
<1>2. x.n \in Nat
  BY <1>1 DEF Writers
<1>3. AbortTo(w, a) = Go(x, a, "classifying", "abort", x.n)
  BY AbortToIs
<1> HIDE DEF x
<1>4. "classifying" \in States /\ "abort" \in Causes
  BY DEF States, Causes
<1>5. Go(x, a, "classifying", "abort", x.n) \in Writers(E, k)
  BY <1>1, <1>2, <1>4, GoWrites, Zenon
<1> QED BY <1>3, <1>5

-----------------------------------------------------------------------------
(* The invariant. *)

\* Receipts that tell the truth about the tables and the cancel files.
Backed ==
    {e \in Envelopes :
        /\ e.body.kind = "attempt_created" =>
              \E r \in Rows(e.attempt) :
                 /\ r.task = e.body.task /\ r.hash = e.body.hash
                 /\ r.generation = e.body.generation
                 /\ [id |-> r.pack, task |-> r.task, hash |-> r.hash] \in packs
        /\ e.body.kind = "capture" =>
              /\ e.body.run \in events \intersect started
              /\ \E r \in runs : r.run = e.body.run /\ r.attempt = e.attempt
        /\ e.body.kind = "abort_cause" =>
              e.body.abort = "cancelled" /\ e.attempt \in flags
        /\ e.body.kind = "selection" => Rows(e.attempt) # {}}

Steps == {"idle", "persist", "save", "admit", "put_pack", "insert_attempt", "preflight",
          "prepare", "prerun", "hand", "hand_runs", "observe", "validate", "classify",
          "select", "close", "resume", "return", "errored"}

Memory ==
    [pc : Steps, then : Steps, log : Seq(Envelopes), persisted : Nat, ids : Nat,
     task : Tasks, hash : Hashes, pack : Nat, of : Nat, att : Nat, generation : Nat,
     run : Nat, fence : Nat, lost : BOOLEAN, waits : BOOLEAN,
     exit : {"none", "zero", "nonzero", "error"}]

\* Where a session stands in its command, syncs left out.
At(m) == IF m.pc \in {"persist", "save"} THEN m.then ELSE m.pc

\* The admission a session has not yet written.
Admission(m) ==
    Stamp(m.att, m.att,
          <<AttemptCreated(m.task, m.hash, m.generation), FenceGeneration(1)>>)

Admitting == {"put_pack", "insert_attempt"}

\* Where the attempt a session works on has its row.
Working == {"preflight", "prepare", "prerun", "hand", "hand_runs", "observe",
            "validate", "classify", "select", "close", "resume"}

\* Where a session goes on after a sync.
Continuations == {"preflight", "prepare", "prerun", "observe", "validate", "classify",
                  "select", "return", "errored"}

\* What a session may hold in memory, given the receipts B that are backed and
\* the rows of packs P, attempts A and runs R, and S the runs that were started.
Truthful(m, B, P, A, R, S) ==
    /\ m \in Memory /\ m.persisted <= Len(m.log)
    /\ m.pc \notin Admitting => m.log \in Seq(B)
    /\ m.pc \in Admitting => \E base \in Seq(B) : m.log = base \o Admission(m)
    /\ m.pc = "insert_attempt" => [id |-> m.pack, task |-> m.task, hash |-> m.hash] \in P
    /\ At(m) \in Working => \E r \in A : r.attempt = m.att /\ r.task = m.task
    /\ m.pc \in {"hand", "hand_runs"} => \E r \in R : r.run = m.run /\ r.attempt = m.att
    /\ m.pc = "hand_runs" => m.run \in S
    /\ m.pc \in {"persist", "save"} => m.then \in Continuations

Tables ==
    /\ saved \in Nat
    /\ packs \subseteq [id : Nat, task : Tasks, hash : Hashes]
    /\ attempts \subseteq [attempt : Nat, task : Tasks, pack : Nat,
                           hash : Hashes, generation : Nat]
    /\ runs \subseteq [run : Nat, attempt : Nat, generation : Nat]
    /\ events \subseteq Nat /\ started \subseteq Nat /\ flags \subseteq Nat
    /\ inputs \in [Tasks -> Hashes]

TruthInv ==
    /\ Tables
    /\ ledger \in Seq(Backed)
    /\ DOMAIN sess = Sessions
    /\ \A s \in Sessions : Truthful(sess[s], Backed, packs, attempts, runs, started)

\* No table ever loses a row.
Grow ==
    /\ packs \subseteq packs' /\ attempts \subseteq attempts' /\ runs \subseteq runs'
    /\ events \subseteq events' /\ started \subseteq started' /\ flags \subseteq flags'

-----------------------------------------------------------------------------
\* What is backed stays backed.
LEMMA BackedGrows == Grow => Backed \subseteq Backed'
BY DEF Grow, Backed, Rows

\* Receipts that testify to nothing are backed.
LEMMA PlainBacked == Plain \subseteq Backed /\ Backed \subseteq Envelopes
BY DEF Plain, Testimony, Backed

\* A session that does not step holds what it held.
LEMMA TruthfulGrows ==
    ASSUME NEW m, Truthful(m, Backed, packs, attempts, runs, started), Grow
    PROVE  Truthful(m, Backed', packs', attempts', runs', started')
<1>1. Seq(Backed) \subseteq Seq(Backed')
  BY BackedGrows, SeqMono
<1>2. /\ m.log \in Seq(Backed) => m.log \in Seq(Backed')
      /\ (\E base \in Seq(Backed) : m.log = base \o Admission(m))
            => \E base \in Seq(Backed') : m.log = base \o Admission(m)
  BY <1>1
<1>3. /\ (\E r \in attempts : r.attempt = m.att /\ r.task = m.task)
            => \E r \in attempts' : r.attempt = m.att /\ r.task = m.task
      /\ (\E r \in runs : r.run = m.run /\ r.attempt = m.att)
            => \E r \in runs' : r.run = m.run /\ r.attempt = m.att
      /\ m.run \in started => m.run \in started'
      /\ [id |-> m.pack, task |-> m.task, hash |-> m.hash] \in packs
            => [id |-> m.pack, task |-> m.task, hash |-> m.hash] \in packs'
  BY DEF Grow
<1> QED BY <1>2, <1>3 DEF Truthful

\* The memory of a session between commands.
LEMMA BlankTruthful ==
    ASSUME NEW B, NEW P, NEW A, NEW R, NEW S, NEW t \in Tasks,
           NEW x \in {"none", "zero", "nonzero", "error"}
    PROVE  /\ Blank \in Memory
           /\ Truthful(Blank, B, P, A, R, S)
           /\ Truthful([Blank EXCEPT !.exit = x], B, P, A, R, S)
           /\ Truthful([Blank EXCEPT !.task = t, !.exit = x], B, P, A, R, S)
<1>1. Blank \in Memory
  <2> DEFINE t0 == CHOOSE u \in Tasks : TRUE
             h0 == CHOOSE h \in Hashes : TRUE
             l0 == <<>>
  <2>1. t0 \in Tasks /\ h0 \in Hashes /\ l0 \in Seq(Envelopes)
    BY EngineAssumption DEF EngineAssumption
  <2>2. Blank = [pc |-> "idle", then |-> "idle", log |-> l0, persisted |-> 0, ids |-> 0,
                 task |-> t0, hash |-> h0, pack |-> 0, of |-> 0, att |-> 0,
                 generation |-> 0, run |-> 0, fence |-> 0, lost |-> FALSE,
                 waits |-> FALSE, exit |-> "none"]
    BY DEF Blank, NoAttempt
  <2> HIDE DEF t0, h0, l0
  <2> QED BY <2>1, <2>2 DEF Memory, Steps
<1>2. Blank.pc = "idle" /\ Blank.log = <<>> /\ Blank.persisted = 0
  BY DEF Blank
<1>3. ASSUME NEW m \in Memory, m.pc = "idle", m.log = <<>>, m.persisted = 0
      PROVE  Truthful(m, B, P, A, R, S)
  <2>1. At(m) = "idle"
    BY <1>3 DEF At
  <2> QED BY <1>3, <2>1 DEF Truthful, Admitting, Working
<1>4. /\ [Blank EXCEPT !.exit = x] \in Memory
      /\ [Blank EXCEPT !.task = t, !.exit = x] \in Memory
  BY <1>1 DEF Memory
<1>5. /\ [Blank EXCEPT !.exit = x].pc = "idle"
      /\ [Blank EXCEPT !.exit = x].log = <<>>
      /\ [Blank EXCEPT !.exit = x].persisted = 0
      /\ [Blank EXCEPT !.task = t, !.exit = x].pc = "idle"
      /\ [Blank EXCEPT !.task = t, !.exit = x].log = <<>>
      /\ [Blank EXCEPT !.task = t, !.exit = x].persisted = 0
  BY <1>1, <1>2 DEF Memory
<1> QED BY <1>1, <1>2, <1>3, <1>4, <1>5

\* The initial state.
LEMMA InitTruth == Init => TruthInv
<1> SUFFICES ASSUME Init PROVE TruthInv
  OBVIOUS
<1>1. PICK t \in Tasks : TRUE
  BY EngineAssumption DEF EngineAssumption
<1>2. Truthful(Blank, Backed, packs, attempts, runs, started)
  BY <1>1, BlankTruthful
<1>3. Tables
  BY EngineAssumption DEF EngineAssumption, Init, Tables
<1> QED BY <1>2, <1>3 DEF Init, TruthInv

\* One session steps, and no table loses a row.
LEMMA OneMoves ==
    ASSUME TruthInv, Grow, Tables', ledger' \in Seq(Backed'), NEW s \in Sessions, NEW m,
           sess' = [sess EXCEPT ![s] = m],
           Truthful(m, Backed', packs', attempts', runs', started')
    PROVE  TruthInv'
<1>1. DOMAIN sess' = Sessions
  BY DEF TruthInv
<1>2. ASSUME NEW r \in Sessions
      PROVE  Truthful(sess'[r], Backed', packs', attempts', runs', started')
  <2>1. CASE r = s
    BY <2>1 DEF TruthInv
  <2>2. CASE r # s
    <3>1. sess'[r] = sess[r]
      BY <2>2 DEF TruthInv
    <3> QED BY <3>1, TruthfulGrows DEF TruthInv
  <2> QED BY <2>1, <2>2
<1> QED BY <1>1, <1>2 DEF TruthInv

\* A command that fails leaves nothing in memory.
LEMMA FailTruth ==
    ASSUME TruthInv, Grow, Tables', ledger' \in Seq(Backed'), NEW s \in Sessions, Fail(s)
    PROVE  TruthInv'
<1>1. PICK t \in Tasks : TRUE
  BY EngineAssumption DEF EngineAssumption
<1>2. Truthful([Blank EXCEPT !.exit = "error"], Backed', packs', attempts', runs', started')
  BY <1>1, BlankTruthful
<1> QED BY <1>2, OneMoves DEF Fail

\* What a step appended is synced next.
LEMMA SyncIs ==
    ASSUME NEW s, NEW m, NEW w, NEW then, Sync(s, m, w, then)
    PROVE  \/ /\ w.ok
              /\ sess' = [sess EXCEPT ![s] = [m EXCEPT !.log = w.log, !.ids = w.n,
                                                       !.pc = "persist", !.then = then]]
           \/ Fail(s)
BY DEF Sync

LEMMA SyncTruth ==
    ASSUME TruthInv, Grow, Tables', ledger' \in Seq(Backed'), NEW s \in Sessions,
           NEW m \in Memory, NEW w \in Writers(Backed', m.persisted), NEW then \in Continuations,
           Sync(s, m, w, then),
           then \in Working => \E r \in attempts' : r.attempt = m.att /\ r.task = m.task
    PROVE  TruthInv'
<1> DEFINE x == [m EXCEPT !.log = w.log, !.ids = w.n, !.pc = "persist", !.then = then]
<1>1. CASE Fail(s)
  BY <1>1, FailTruth
<1>2. CASE sess' = [sess EXCEPT ![s] = x]
  <2>1. w.log \in Seq(Backed') /\ w.n \in Nat /\ m.persisted <= Len(w.log)
    BY DEF Writers
  <2>2. w.log \in Seq(Envelopes)
    <3>1. Backed' \subseteq Envelopes
      BY DEF Backed
    <3> QED BY <2>1, <3>1, SeqMono
  <2>3. /\ x \in Memory /\ x.log = w.log /\ x.persisted = m.persisted
        /\ x.pc = "persist" /\ x.then = then /\ x.att = m.att /\ x.task = m.task
    <3>1. then \in Steps /\ "persist" \in Steps
      BY DEF Continuations, Steps
    <3> QED BY <2>1, <2>2, <3>1 DEF Memory
  <2> HIDE DEF x
  <2>4. At(x) = then
    BY <2>3 DEF At
  <2>5. Truthful(x, Backed', packs', attempts', runs', started')
    BY <2>1, <2>3, <2>4 DEF Truthful, Admitting
  <2> QED BY <1>2, <2>5, OneMoves
<1> QED BY <1>1, <1>2, SyncIs

-----------------------------------------------------------------------------
(* The steps. *)

\* A step that touches no table.
LEMMA TablesRest ==
    ASSUME TruthInv, UNCHANGED <<store, outside, started>>
    PROVE  Grow /\ Tables' /\ Backed' = Backed /\ ledger' \in Seq(Backed')
<1>1. UNCHANGED <<ledger, saved, packs, attempts, runs, events, flags, inputs, started>>
  BY DEF store, outside
<1>2. Grow /\ Tables'
  BY <1>1 DEF Grow, Tables, TruthInv
<1>3. Backed' = Backed
  BY <1>1 DEF Backed, Rows
<1> QED BY <1>1, <1>2, <1>3 DEF TruthInv

\* A session with its log loaded, as the step begins.
LEMMA Begin ==
    ASSUME TruthInv, NEW s \in Sessions, sess[s].pc \notin Admitting
    PROVE  /\ sess[s] \in Memory
           /\ Truthful(sess[s], Backed, packs, attempts, runs, started)
           /\ sess[s].log \in Seq(Backed) /\ sess[s].log \in Seq(Envelopes)
           /\ Writer(s) \in Writers(Backed, sess[s].persisted)
           /\ Writer(s).log = sess[s].log /\ Writer(s).n = sess[s].ids /\ Writer(s).ok
           /\ sess[s].pc \in Working =>
                 \E r \in attempts : r.attempt = sess[s].att /\ r.task = sess[s].task
<1>1. Truthful(sess[s], Backed, packs, attempts, runs, started)
  BY DEF TruthInv
<1>2. sess[s] \in Memory /\ sess[s].log \in Seq(Backed) /\ sess[s].persisted <= Len(sess[s].log)
  BY <1>1 DEF Truthful
<1>3. sess[s].ids \in Nat /\ sess[s].log \in Seq(Envelopes)
  BY <1>2 DEF Memory
<1>4. Writer(s) \in Writers(Backed, sess[s].persisted)
  BY <1>2, <1>3 DEF Writer, Writers
<1>5. Writer(s).log = sess[s].log /\ Writer(s).n = sess[s].ids /\ Writer(s).ok
  BY DEF Writer
<1>6. sess[s].pc \in Working => At(sess[s]) = sess[s].pc
  BY DEF At, Working
<1> QED BY <1>1, <1>2, <1>3, <1>4, <1>5, <1>6 DEF Truthful

LEMMA StepTruth ==
    ASSUME TruthInv, UNCHANGED <<store, outside, started>>, NEW s \in Sessions,
           NEW w \in Writers(Backed, sess[s].persisted), NEW then \in Continuations,
           sess[s].pc \in Working, Sync(s, sess[s], w, then)
    PROVE  TruthInv'
<1>1. Grow /\ Tables' /\ Backed' = Backed /\ ledger' \in Seq(Backed')
  BY TablesRest
<1>2. sess[s].pc \notin Admitting
  BY DEF Working, Admitting
<1>3. sess[s] \in Memory /\ \E r \in attempts : r.attempt = sess[s].att /\ r.task = sess[s].task
  BY <1>2, Begin
<1>4. \E r \in attempts' : r.attempt = sess[s].att /\ r.task = sess[s].task
  BY <1>1, <1>3 DEF Grow
<1> QED BY <1>1, <1>3, <1>4, SyncTruth

\* One body appended, that testifies to nothing.
LEMMA PlainStep ==
    ASSUME TruthInv, UNCHANGED <<store, outside, started>>, NEW s \in Sessions,
           NEW a \in Nat, NEW body \in Bodies, body.kind \notin Testimony,
           NEW then \in Continuations, sess[s].pc \in Working,
           Sync(s, sess[s], Put(Writer(s), a, body), then)
    PROVE  TruthInv'
<1>1. sess[s].pc \notin Admitting
  BY DEF Working, Admitting
<1>2. Writer(s) \in Writers(Backed, sess[s].persisted) /\ sess[s].persisted \in Nat
  BY <1>1, Begin DEF Memory
<1>3. Put(Writer(s), a, body) \in Writers(Backed, sess[s].persisted)
  BY <1>2, PlainBacked, PutWrites
<1> QED BY <1>3, StepTruth

LEMMA PersistTruth ==
    ASSUME TruthInv, NEW s \in Sessions, PersistReceipts(s)
    PROVE  TruthInv'
<1> DEFINE m == [sess[s] EXCEPT !.pc = "save", !.persisted = Len(sess[s].log)]
<1>1. sess[s].pc = "persist" /\ sess[s].pc \notin Admitting
  BY DEF PersistReceipts, Admitting
<1>2. /\ sess[s] \in Memory /\ sess[s].log \in Seq(Backed)
      /\ Truthful(sess[s], Backed, packs, attempts, runs, started)
  BY <1>1, Begin
<1>3. UNCHANGED <<saved, packs, attempts, runs, events, flags, inputs, started>>
  BY DEF PersistReceipts, outside
<1>4. Grow /\ Tables'
  BY <1>3 DEF Grow, Tables, TruthInv
<1>5. Backed' = Backed
  BY <1>3 DEF Backed, Rows
<1>6. CASE Fail(s) /\ UNCHANGED ledger
  BY <1>4, <1>5, <1>6, FailTruth DEF TruthInv
<1>7. CASE ledger' = ledger \o Unsynced(s) /\ sess' = [sess EXCEPT ![s] = m]
  <2>1. sess[s].persisted \in 0..Len(sess[s].log)
    BY <1>2 DEF Truthful, Memory
  <2>2. Unsynced(s) \in Seq(Backed)
    BY <1>2, <2>1 DEF Unsynced
  <2>3. ledger' \in Seq(Backed')
    BY <1>5, <1>7, <2>2 DEF TruthInv
  <2>4. /\ m \in Memory /\ m.log = sess[s].log /\ m.persisted = Len(m.log)
        /\ m.pc = "save" /\ m.then = sess[s].then /\ m.att = sess[s].att
        /\ m.task = sess[s].task
    <3>1. Len(sess[s].log) \in Nat
      BY <1>2
    <3> QED BY <1>2, <3>1 DEF Memory, Steps
  <2> HIDE DEF m
  <2>5. At(m) = At(sess[s])
    BY <1>1, <2>4 DEF At
  <2>6. m.persisted <= Len(m.log)
    BY <2>4 DEF Memory
  <2>7. Truthful(m, Backed', packs', attempts', runs', started')
    BY <1>1, <1>2, <1>3, <1>5, <2>4, <2>5, <2>6 DEF Truthful, Admitting
  <2> QED BY <1>4, <1>7, <2>3, <2>7, OneMoves
<1>8. sess' = [sess EXCEPT ![s].pc = "save", ![s].persisted = Len(sess[s].log)] 
         => sess' = [sess EXCEPT ![s] = m]
  BY DEF TruthInv
<1> QED BY <1>6, <1>7, <1>8 DEF PersistReceipts

LEMMA SaveTruth ==
    ASSUME TruthInv, NEW s \in Sessions, SaveIds(s)
    PROVE  TruthInv'
<1> DEFINE m == [sess[s] EXCEPT !.pc = sess[s].then]
<1>1. sess[s].pc = "save" /\ sess[s].pc \notin Admitting
  BY DEF SaveIds, Admitting
<1>2. /\ sess[s] \in Memory /\ sess[s].log \in Seq(Backed)
      /\ Truthful(sess[s], Backed, packs, attempts, runs, started)
  BY <1>1, Begin
<1>3. /\ UNCHANGED <<ledger, packs, attempts, runs, events, flags, inputs, started>>
      /\ saved' = sess[s].ids
  BY DEF SaveIds, outside
<1>4. Grow /\ Tables' /\ Backed' = Backed /\ ledger' \in Seq(Backed')
  <2>1. saved' \in Nat
    BY <1>2, <1>3 DEF Memory
  <2>2. Backed' = Backed
    BY <1>3 DEF Backed, Rows
  <2> QED BY <1>3, <2>1, <2>2 DEF Grow, Tables, TruthInv
<1>5. sess' = [sess EXCEPT ![s] = m]
  BY DEF SaveIds, Step, TruthInv
<1>6. /\ m \in Memory /\ m.log = sess[s].log /\ m.persisted = sess[s].persisted
      /\ m.pc = sess[s].then /\ m.then = sess[s].then /\ m.att = sess[s].att
      /\ m.task = sess[s].task
  BY <1>2 DEF Memory, Steps
<1> HIDE DEF m
<1>7. At(sess[s]) = sess[s].then
  BY <1>1 DEF At
<1>8. m.pc \in Continuations
  BY <1>1, <1>2, <1>6 DEF Truthful
<1>9. At(m) = m.pc
  BY <1>8 DEF At, Continuations
<1>10. Truthful(m, Backed', packs', attempts', runs', started')
  BY <1>1, <1>2, <1>3, <1>4, <1>6, <1>7, <1>8, <1>9 DEF Truthful, Admitting, Continuations
<1> QED BY <1>4, <1>5, <1>10, OneMoves

\* A command begins, with the log loaded or about to be.
LEMMA CommandTruth ==
    ASSUME TruthInv, UNCHANGED <<store, outside, started>>, NEW s \in Sessions, NEW m \in Memory,
           sess' = [sess EXCEPT ![s] = m], m.log \in Seq(Backed), m.persisted <= Len(m.log),
           \/ m.pc = "admit"
           \/ /\ m.pc \in {"close", "resume"}
              /\ \E r \in attempts : r.attempt = m.att /\ r.task = m.task
    PROVE  TruthInv'
<1>1. Grow /\ Tables' /\ Backed' = Backed /\ ledger' \in Seq(Backed')
  BY TablesRest
<1>2. At(m) = m.pc
  BY DEF At
<1>3. attempts' = attempts
  BY DEF store
<1>4. Truthful(m, Backed', packs', attempts', runs', started')
  BY <1>1, <1>2, <1>3 DEF Truthful, Admitting, Working
<1> QED BY <1>1, <1>4, OneMoves

LEMMA StartRunTruth ==
    ASSUME TruthInv, NEW s \in Sessions, NEW t \in Tasks, StartRun(s, t)
    PROVE  TruthInv'
<1> DEFINE m == [Blank EXCEPT !.pc = "admit", !.waits = TRUE, !.task = t,
                    !.hash = inputs[t], !.ids = saved + 1, !.pack = saved + 1]
<1>1. UNCHANGED <<store, outside, started>> /\ sess' = [sess EXCEPT ![s] = m]
  BY DEF StartRun
<1>2. Blank \in Memory /\ Blank.log = <<>> /\ Blank.persisted = 0
  BY BlankTruthful DEF Blank
<1>3. inputs[t] \in Hashes /\ saved + 1 \in Nat
  BY DEF TruthInv, Tables
<1>4. m \in Memory /\ m.log = <<>> /\ m.persisted = 0 /\ m.pc = "admit"
  BY <1>2, <1>3 DEF Memory, Steps
<1> HIDE DEF m
<1>5. m.log \in Seq(Backed) /\ m.persisted <= Len(m.log)
  BY <1>4
<1> QED BY <1>1, <1>4, <1>5, CommandTruth

LEMMA StartRetryTruth ==
    ASSUME TruthInv, NEW s \in Sessions, NEW prior \in attempts, StartRetry(s, prior)
    PROVE  TruthInv'
<1> DEFINE m == [Blank EXCEPT !.pc = "admit", !.of = prior.attempt, !.task = prior.task,
                    !.hash = prior.hash, !.ids = saved + 1, !.pack = prior.pack]
<1>1. UNCHANGED <<store, outside, started>> /\ sess' = [sess EXCEPT ![s] = m]
  BY DEF StartRetry
<1>2. Blank \in Memory /\ Blank.log = <<>> /\ Blank.persisted = 0
  BY BlankTruthful, EngineAssumption DEF Blank, EngineAssumption
<1>3. /\ prior.attempt \in Nat /\ prior.task \in Tasks /\ prior.hash \in Hashes
      /\ prior.pack \in Nat /\ saved + 1 \in Nat
  BY DEF TruthInv, Tables
<1>4. m \in Memory /\ m.log = <<>> /\ m.persisted = 0 /\ m.pc = "admit"
  BY <1>2, <1>3 DEF Memory, Steps
<1> HIDE DEF m
<1>5. m.log \in Seq(Backed) /\ m.persisted <= Len(m.log)
  BY <1>4
<1> QED BY <1>1, <1>4, <1>5, CommandTruth

\* A recovery action loads the log at once.
LEMMA StartRecoveryTruth ==
    ASSUME TruthInv, NEW s \in Sessions, NEW row \in attempts,
           StartClose(s, row) \/ StartResume(s, row)
    PROVE  TruthInv'
<1> DEFINE c == [Blank EXCEPT !.pc = "close", !.att = row.attempt, !.task = row.task,
                    !.log = ledger, !.persisted = Len(ledger)]
           m == [Blank EXCEPT !.pc = "resume", !.att = row.attempt, !.task = row.task,
                    !.hash = row.hash, !.pack = row.pack, !.generation = row.generation,
                    !.log = ledger, !.persisted = Len(ledger)]
<1>1. /\ UNCHANGED <<store, outside, started>>
      /\ sess' = [sess EXCEPT ![s] = c] \/ sess' = [sess EXCEPT ![s] = m]
  BY DEF StartClose, StartResume
<1>2. Blank \in Memory
  BY BlankTruthful, EngineAssumption DEF EngineAssumption
<1>3. /\ row.attempt \in Nat /\ row.task \in Tasks /\ row.hash \in Hashes
      /\ row.pack \in Nat /\ row.generation \in Nat
  BY DEF TruthInv, Tables
<1>4. ledger \in Seq(Backed) /\ ledger \in Seq(Envelopes) /\ Len(ledger) \in Nat
  BY PlainBacked, SeqMono DEF TruthInv
<1>5. /\ c \in Memory /\ c.log = ledger /\ c.persisted = Len(ledger)
      /\ c.pc = "close" /\ c.att = row.attempt /\ c.task = row.task
  BY <1>2, <1>3, <1>4 DEF Memory, Steps
<1>6. /\ m \in Memory /\ m.log = ledger /\ m.persisted = Len(ledger)
      /\ m.pc = "resume" /\ m.att = row.attempt /\ m.task = row.task
  BY <1>2, <1>3, <1>4 DEF Memory, Steps
<1> HIDE DEF c, m
<1>7. CASE sess' = [sess EXCEPT ![s] = c]
  <2>1. c.log \in Seq(Backed) /\ c.persisted <= Len(c.log)
    BY <1>4, <1>5
  <2>2. \E r \in attempts : r.attempt = c.att /\ r.task = c.task
    BY <1>5
  <2> QED BY <1>1, <1>5, <1>7, <2>1, <2>2, CommandTruth
<1>8. CASE sess' = [sess EXCEPT ![s] = m]
  <2>1. m.log \in Seq(Backed) /\ m.persisted <= Len(m.log)
    BY <1>4, <1>6
  <2>2. \E r \in attempts : r.attempt = m.att /\ r.task = m.task
    BY <1>6
  <2> QED BY <1>1, <1>6, <1>8, <2>1, <2>2, CommandTruth
<1> QED BY <1>1, <1>7, <1>8

\* admit hands out attempts and generations that are naturals.
LEMMA RequestNat ==
    ASSUME NEW l \in Seq(Envelopes), NEW t, NEW h, NEW of, NEW g
    PROVE  RequestGeneration(l, t, h, of) \in Nat /\ Original(l, t, h, g) \in Nat
<1>1. RequestGeneration(l, t, h, of) \in Nat
  BY RequestType, Zenon
<1>2. CASE WithKey(l, t, h, g) = {}
  <2>1. Original(l, t, h, g) = 0
    BY <1>2 DEF Original, NoAttempt
  <2> QED BY <1>1, <2>1
<1>3. CASE WithKey(l, t, h, g) # {}
  <2>1. WithKey(l, t, h, g) \in SUBSET Nat /\ WithKey(l, t, h, g) \subseteq DOMAIN l
    BY DEF WithKey, Created, AnyOfKind
  <2>2. PICK i \in DOMAIN l : i = Earliest(WithKey(l, t, h, g))
    BY <1>3, <2>1, EarliestIn
  <2>3. l[i] \in Envelopes
    OBVIOUS
  <2>4. l[i].attempt \in Nat
    BY <2>3 DEF Envelopes
  <2>5. Original(l, t, h, g) = l[i].attempt
    BY <1>3, <2>2 DEF Original
  <2> QED BY <1>1, <2>4, <2>5
<1> QED BY <1>2, <1>3

LEMMA AdmitTruth ==
    ASSUME TruthInv, NEW s \in Sessions, AdmitRequest(s)
    PROVE  TruthInv'
<1> DEFINE m == sess[s]
           g == RequestGeneration(ledger, m.task, m.hash, m.of)
           a == m.ids + 1
           original == Original(ledger, m.task, m.hash, g)
           d == [m EXCEPT !.log = ledger, !.persisted = Len(ledger), !.att = original,
                          !.pc = "persist", !.then = "return"]
           bodies == <<AttemptCreated(m.task, m.hash, g), FenceGeneration(1)>>
           n == [m EXCEPT !.log = ledger \o Stamp(a, a, bodies), !.persisted = Len(ledger),
                          !.att = a, !.generation = g, !.pc = "put_pack", !.ids = @ + 3]
<1>1. /\ m.pc = "admit" /\ m.pc \notin Admitting
      /\ UNCHANGED <<store, outside, started>>
  BY DEF AdmitRequest, Admitting
<1>2. m \in Memory
  BY <1>1, Begin
<1>3. Grow /\ Tables' /\ Backed' = Backed /\ ledger' \in Seq(Backed')
  BY <1>1, TablesRest
<1>4. ledger \in Seq(Backed) /\ ledger \in Seq(Envelopes) /\ Len(ledger) \in Nat
  BY PlainBacked, SeqMono DEF TruthInv
<1>5. /\ m.task \in Tasks /\ m.hash \in Hashes /\ m.ids \in Nat /\ a \in Nat
      /\ g \in Nat /\ original \in Nat
  <2>1. g \in Nat /\ original \in Nat
    BY <1>4, RequestNat
  <2>2. m.task \in Tasks /\ m.hash \in Hashes /\ m.ids \in Nat
    BY <1>2 DEF Memory
  <2>3. a \in Nat
    BY <2>2
  <2> QED BY <2>1, <2>2, <2>3
<1>6. \/ Fail(s)
      \/ sess' = [sess EXCEPT ![s] = d]
      \/ sess' = [sess EXCEPT ![s] = n]
  <2> DEFINE x == [m EXCEPT !.log = ledger, !.persisted = Len(ledger)]
             y == [x EXCEPT !.att = original, !.pc = "persist", !.then = "return"]
             z == [x EXCEPT !.att = a, !.generation = g, !.pc = "put_pack",
                            !.log = @ \o Stamp(a, a, bodies), !.ids = @ + 3]
  <2>1. \/ Fail(s) \/ sess' = [sess EXCEPT ![s] = y] \/ sess' = [sess EXCEPT ![s] = z]
    BY DEF AdmitRequest
  <2> HIDE DEF m, g, a, original, bodies
  <2>2. y = d
    BY <1>2 DEF Memory
  <2>3. z = n
    BY <1>2 DEF Memory
  <2> QED BY <2>1, <2>2, <2>3
<1>7. CASE Fail(s)
  BY <1>3, <1>7, FailTruth
<1>8. CASE sess' = [sess EXCEPT ![s] = d]
  <2>1. /\ d \in Memory /\ d.log = ledger /\ d.persisted = Len(ledger)
        /\ d.pc = "persist" /\ d.then = "return"
    <3>1. "persist" \in Steps /\ "return" \in Steps
      BY DEF Steps
    <3> HIDE DEF original
    <3> QED BY <1>2, <1>4, <1>5, <3>1 DEF Memory
  <2> HIDE DEF d
  <2>2. At(d) = "return" /\ d.persisted <= Len(d.log)
    BY <1>4, <2>1 DEF At
  <2>3. Truthful(d, Backed', packs', attempts', runs', started')
    BY <1>3, <1>4, <2>1, <2>2 DEF Truthful, Admitting, Working, Continuations
  <2> QED BY <1>3, <1>8, <2>3, OneMoves
<1>9. CASE sess' = [sess EXCEPT ![s] = n]
  <2>1. ledger \o Stamp(a, a, bodies) \in Seq(Envelopes)
        /\ Len(ledger) <= Len(ledger \o Stamp(a, a, bodies))
    <3> DEFINE b == AttemptCreated(m.task, m.hash, g)
               f == FenceGeneration(1)
    <3>1. b \in Bodies /\ f \in Bodies
      BY <1>5, BodyConstructors
    <3>5. bodies = <<b, f>>
      OBVIOUS
    <3> HIDE DEF a, b, f, bodies
    <3> DEFINE r == Append(Append(ledger, Receipt(a + 1, a, b)), Receipt(a + 2, a, f))
    <3>2. ledger \o Stamp(a, a, bodies) = r
      <4>1. ledger \in Seq(Envelopes) /\ a \in Nat /\ b \in Bodies /\ f \in Bodies
        BY <1>4, <1>5, <3>1
      <4>2. ledger \o Stamp(a, a, <<b, f>>) =
               Append(Append(ledger, [id |-> a + 1, attempt |-> a, body |-> b]),
                      [id |-> a + 2, attempt |-> a, body |-> f])
        BY <4>1, StampTwo, Zenon
      <4> QED BY <4>2, <3>5 DEF Receipt
    <3>3. Receipt(a + 1, a, b) \in Envelopes /\ Receipt(a + 2, a, f) \in Envelopes
      BY <1>5, <3>1, EnvelopeOf DEF Receipt
    <3>4. r \in Seq(Envelopes) /\ Len(r) = Len(ledger) + 2
      BY <1>4, <3>3
    <3> HIDE DEF r
    <3>6. Len(ledger) <= Len(r)
      BY <1>4, <3>4
    <3> QED BY <3>2, <3>4, <3>6, Zenon
  <2>2. /\ n \in Memory /\ n.log = ledger \o Stamp(a, a, bodies) /\ n.persisted = Len(ledger)
        /\ n.pc = "put_pack" /\ n.att = a /\ n.generation = g
        /\ n.task = m.task /\ n.hash = m.hash
    <3> DEFINE r == ledger \o Stamp(a, a, bodies)
    <3>1. r \in Seq(Envelopes)
      BY <2>1
    <3> HIDE DEF bodies, a, g, r
    <3>2. n = [m EXCEPT !.log = r, !.persisted = Len(ledger), !.att = a,
                        !.generation = g, !.pc = "put_pack", !.ids = @ + 3]
      BY DEF r
    <3>3. n \in Memory /\ n.log = r /\ n.persisted = Len(ledger)
          /\ n.pc = "put_pack" /\ n.att = a /\ n.generation = g
          /\ n.task = m.task /\ n.hash = m.hash
      <4>1. Len(ledger) \in Nat /\ m.ids + 3 \in Nat
        BY <1>4, <1>5
      <4> HIDE DEF n, m
      <4> QED BY <1>2, <1>5, <3>1, <3>2, <4>1 DEF Memory, Steps
    <3> QED BY <3>3 DEF r
  <2>3. n.log = ledger \o Admission(n)
    <3> HIDE DEF n
    <3> QED BY <2>2 DEF Admission
  <2> HIDE DEF n
  <2>4. At(n) = "put_pack" /\ n.persisted <= Len(n.log)
    BY <2>1, <2>2 DEF At
  <2>5. Truthful(n, Backed', packs', attempts', runs', started')
    BY <1>3, <1>4, <2>2, <2>3, <2>4 DEF Truthful, Admitting, Working
  <2> QED BY <1>3, <1>9, <2>5, OneMoves
<1> QED BY <1>6, <1>7, <1>8, <1>9

LEMMA PutPackTruth ==
    ASSUME TruthInv, NEW s \in Sessions, PutPack(s)
    PROVE  TruthInv'
<1> DEFINE m == sess[s]
           row == [id |-> m.pack, task |-> m.task, hash |-> m.hash]
           n == [m EXCEPT !.pc = "insert_attempt"]
<1>1. /\ m.pc = "put_pack"
      /\ UNCHANGED <<ledger, saved, attempts, runs, events, flags, inputs, started>>
      /\ \/ Fail(s) /\ UNCHANGED packs
         \/ packs' = packs \union {row} /\ sess' = [sess EXCEPT ![s].pc = "insert_attempt"]
  BY DEF PutPack, outside, Step
<1>2. m \in Memory /\ Truthful(m, Backed, packs, attempts, runs, started)
  BY DEF TruthInv, Truthful
<1>3. row \in [id : Nat, task : Tasks, hash : Hashes]
  BY <1>2 DEF Memory
<1>4. Grow /\ Tables'
  <2>1. packs \subseteq packs' /\ packs' \subseteq [id : Nat, task : Tasks, hash : Hashes]
    <3> HIDE DEF row
    <3> QED BY <1>1, <1>3 DEF TruthInv, Tables
  <2> QED BY <1>1, <2>1 DEF Grow, Tables, TruthInv
<1>5. ledger' \in Seq(Backed')
  BY <1>1, <1>4, BackedGrows, SeqMono DEF TruthInv
<1>6. CASE Fail(s)
  BY <1>4, <1>5, <1>6, FailTruth
<1>7. CASE packs' = packs \union {row} /\ sess' = [sess EXCEPT ![s].pc = "insert_attempt"]
  <2>1. sess' = [sess EXCEPT ![s] = n]
    BY <1>7 DEF TruthInv
  <2>2. /\ n \in Memory /\ n.log = m.log /\ n.persisted = m.persisted
        /\ n.pc = "insert_attempt" /\ n.att = m.att /\ n.generation = m.generation
        /\ n.task = m.task /\ n.hash = m.hash /\ n.pack = m.pack
    BY <1>2 DEF Memory, Steps
  <2>3. Truthful(m, Backed', packs', attempts', runs', started')
    BY <1>2, <1>4, TruthfulGrows
  <2> HIDE DEF n
  <2>4. Admission(n) = Admission(m) /\ At(n) = "insert_attempt"
    BY <2>2 DEF Admission, At
  <2>5. [id |-> n.pack, task |-> n.task, hash |-> n.hash] \in packs'
    BY <1>7, <2>2
  <2>6. Truthful(n, Backed', packs', attempts', runs', started')
    BY <1>1, <2>2, <2>3, <2>4, <2>5 DEF Truthful, Admitting, Working
  <2> QED BY <1>4, <1>5, <2>1, <2>6, OneMoves
<1> QED BY <1>1, <1>6, <1>7

\* The receipts of an admission are backed by the row that is now inserted.
LEMMA AdmissionBacked ==
    ASSUME NEW m \in Memory, Grow,
           [id |-> m.pack, task |-> m.task, hash |-> m.hash] \in packs,
           [attempt |-> m.att, task |-> m.task, pack |-> m.pack,
            hash |-> m.hash, generation |-> m.generation] \in attempts',
           NEW base \in Seq(Backed)
    PROVE  base \o Admission(m) \in Seq(Backed')
<1> DEFINE b == AttemptCreated(m.task, m.hash, m.generation)
           f == FenceGeneration(1)
           d == Receipt(m.att + 1, m.att, b)
           e == Receipt(m.att + 2, m.att, f)
           row == [attempt |-> m.att, task |-> m.task, pack |-> m.pack,
                   hash |-> m.hash, generation |-> m.generation]
<1>1. /\ m.att \in Nat /\ m.task \in Tasks /\ m.hash \in Hashes /\ m.generation \in Nat
      /\ m.att + 1 \in Nat /\ m.att + 2 \in Nat
  BY DEF Memory
<1>2. b \in Bodies /\ f \in Bodies /\ b.kind = "attempt_created" /\ f.kind = "fence_generation"
  BY <1>1, BodyConstructors DEF AttemptCreated, FenceGeneration
<1>3. /\ base \in Seq(Envelopes) /\ base \in Seq(Backed')
  BY BackedGrows, PlainBacked, SeqMono
<1>4. b.task = m.task /\ b.hash = m.hash /\ b.generation = m.generation
  BY DEF AttemptCreated
<1>5. d \in Envelopes /\ e \in Envelopes
  <2> HIDE DEF b, f
  <2> QED BY <1>1, <1>2, EnvelopeOf DEF Receipt
<1>6. /\ row \in attempts' /\ row.attempt = m.att /\ row.task = m.task /\ row.pack = m.pack
      /\ row.hash = m.hash /\ row.generation = m.generation
  OBVIOUS
<1>7. d \in Backed'
  <2>1. /\ d.attempt = m.att /\ d.body = b
    BY DEF Receipt
  <2>2. [id |-> m.pack, task |-> m.task, hash |-> m.hash] \in packs'
    BY DEF Grow
  <2> HIDE DEF d, b, row
  <2> QED BY <1>2, <1>4, <1>5, <1>6, <2>1, <2>2 DEF Backed, Rows
<1>8. e \in Backed'
  <2>1. e.body = f
    BY DEF Receipt
  <2> HIDE DEF e, f
  <2> QED BY <1>2, <1>5, <2>1 DEF Backed
<1>9. base \o Admission(m) = Append(Append(base, d), e)
  <2>1. Admission(m) = Stamp(m.att, m.att, <<b, f>>)
    BY DEF Admission
  <2>2. base \o Stamp(m.att, m.att, <<b, f>>) = Append(Append(base, d), e)
    <3> HIDE DEF b, f
    <3>1. /\ m.att \in Nat /\ b \in Bodies /\ f \in Bodies /\ base \in Seq(Envelopes)
      BY <1>1, <1>2, <1>3
    <3> QED BY <3>1, StampTwo, Zenon DEF Receipt
  <2> QED BY <2>1, <2>2
<1> HIDE DEF d, e
<1> QED BY <1>3, <1>7, <1>8, <1>9

LEMMA InsertTruth ==
    ASSUME TruthInv, NEW s \in Sessions, InsertAttempt(s)
    PROVE  TruthInv'
<1> DEFINE m == sess[s]
           row == [attempt |-> m.att, task |-> m.task, pack |-> m.pack,
                   hash |-> m.hash, generation |-> m.generation]
           b == Budget("reserve", "reserved")
<1>1. /\ m.pc = "insert_attempt"
      /\ UNCHANGED <<ledger, saved, packs, runs, events, flags, inputs, started>>
      /\ \/ Fail(s) /\ UNCHANGED attempts
         \/ attempts' = attempts \union {row} /\ Sync(s, m, Put(Writer(s), m.att, b), "preflight")
  BY DEF InsertAttempt, outside
<1>2. m \in Memory /\ Truthful(m, Backed, packs, attempts, runs, started)
  BY DEF TruthInv, Truthful
<1>3. row \in [attempt : Nat, task : Tasks, pack : Nat, hash : Hashes, generation : Nat]
  BY <1>2 DEF Memory
<1>4. Grow /\ Tables'
  <2>1. /\ attempts \subseteq attempts'
        /\ attempts' \subseteq [attempt : Nat, task : Tasks, pack : Nat,
                                hash : Hashes, generation : Nat]
    <3> HIDE DEF row
    <3> QED BY <1>1, <1>3 DEF TruthInv, Tables
  <2> QED BY <1>1, <2>1 DEF Grow, Tables, TruthInv
<1>5. ledger' \in Seq(Backed')
  BY <1>1, <1>4, BackedGrows, SeqMono DEF TruthInv
<1>6. CASE Fail(s)
  BY <1>4, <1>5, <1>6, FailTruth
<1>7. CASE /\ attempts' = attempts \union {row}
           /\ Sync(s, m, Put(Writer(s), m.att, b), "preflight")
  <2>1. PICK base \in Seq(Backed) : m.log = base \o Admission(m)
    BY <1>1, <1>2 DEF Truthful, Admitting
  <2>2. m.log \in Seq(Backed')
    <3>1. [id |-> m.pack, task |-> m.task, hash |-> m.hash] \in packs
      BY <1>1, <1>2 DEF Truthful
    <3>2. row \in attempts'
      BY <1>7
    <3> QED BY <1>2, <1>4, <2>1, <3>1, <3>2, AdmissionBacked
  <2>3. Writer(s) \in Writers(Backed', m.persisted) /\ m.persisted \in Nat /\ m.att \in Nat
    BY <1>2, <2>2 DEF Writer, Writers, Truthful, Memory
  <2>4. b \in Bodies /\ b.kind \notin Testimony
    BY DEF Budget, Bodies, Testimony
  <2>5. Plain \subseteq Backed' /\ Backed' \subseteq Envelopes
    BY DEF Plain, Testimony, Backed
  <2>6. Put(Writer(s), m.att, b) \in Writers(Backed', m.persisted)
    <3> HIDE DEF b
    <3> QED BY <2>3, <2>4, <2>5, PutWrites
  <2>7. \E r \in attempts' : r.attempt = m.att /\ r.task = m.task
    <3>1. row \in attempts' /\ row.attempt = m.att /\ row.task = m.task
      BY <1>7
    <3> HIDE DEF row
    <3> QED BY <3>1
  <2>8. "preflight" \in Continuations
    BY DEF Continuations
  <2> HIDE DEF b, row
  <2> QED BY <1>2, <1>4, <1>5, <1>7, <2>6, <2>7, <2>8, SyncTruth
<1> QED BY <1>1, <1>6, <1>7

\* A walk along the pipeline writes nothing that testifies to anything.
LEMMA WalkWrites ==
    ASSUME NEW k \in Nat, NEW w \in Writers(Backed, k), NEW a \in Nat, NEW to \in States
    PROVE  /\ Walk(w, a, to) \in Writers(Backed, k)
           /\ Walk(w, a, to).ok <=> w.ok /\ LegalTransition(w.log, a, to, "advance", 0)
           /\ Walk(w, a, to).ok =>
                Walk(w, a, to) = Put(w, a, MoveTo(w.log, a, to, "advance", 0))
<1>1. "advance" \in Causes /\ 0 \in Nat
  BY DEF Causes
<1> DEFINE x == Go(w, a, to, "advance", 0)
<1>2. /\ x \in Writers(Backed, k)
      /\ x.ok <=> w.ok /\ LegalTransition(w.log, a, to, "advance", 0)
      /\ x.ok => x = Put(w, a, MoveTo(w.log, a, to, "advance", 0))
  BY <1>1, PlainBacked, GoWrites
<1>3. Walk(w, a, to) = x
  BY DEF Walk
<1> QED BY <1>2, <1>3

\* A cancel on record is backed by the cancel file.
LEMMA CancelBacked ==
    ASSUME NEW a \in flags, a \in Nat, NEW n \in Nat
    PROVE  Receipt(n, a, AbortCause("cancelled")) \in Backed
<1> DEFINE b == AbortCause("cancelled")
           e == Receipt(n, a, b)
<1>1. b \in Bodies /\ b.kind = "abort_cause" /\ b.abort = "cancelled"
  BY BodyConstructors DEF AbortCause, Aborts
<1>2. e \in Envelopes /\ e.body = b /\ e.attempt = a
  <2> HIDE DEF b
  <2> QED BY <1>1, EnvelopeOf DEF Receipt
<1> HIDE DEF b, e
<1>3. e \in Backed
  BY <1>1, <1>2 DEF Backed
<1> QED BY <1>3 DEF e, b

\* A cancelled attempt is classified, judged and closed.
LEMMA CancelTruth ==
    ASSUME TruthInv, UNCHANGED <<store, outside, started>>, NEW s \in Sessions,
           NEW w \in Writers(Backed, sess[s].persisted), sess[s].pc \in Working,
           sess[s].att \in flags,
           Sync(s, sess[s], Conclude(AbortTo(w, sess[s].att), sess[s].att), "return")
    PROVE  TruthInv'
<1> DEFINE a == sess[s].att
<1>1. sess[s].pc \notin Admitting
  BY DEF Working, Admitting
<1>2. a \in Nat /\ sess[s].persisted \in Nat
  BY <1>1, Begin DEF Memory
<1>3. \A n \in Nat : Receipt(n, a, AbortCause("cancelled")) \in Backed
  BY <1>2, CancelBacked
<1>4. AbortTo(w, a) \in Writers(Backed, sess[s].persisted)
  BY <1>2, <1>3, PlainBacked, AbortToWrites
<1>5. Conclude(AbortTo(w, a), a) \in Writers(Backed, sess[s].persisted)
  BY <1>2, <1>4, PlainBacked, ConcludeWrites
<1>6. "return" \in Continuations
  BY DEF Continuations
<1> QED BY <1>5, <1>6, StepTruth

\* A session goes on in memory only, with its log extended.
LEMMA MemoryTruth ==
    ASSUME TruthInv, Grow, Tables', ledger' \in Seq(Backed'), NEW s \in Sessions,
           NEW m \in Memory, sess' = [sess EXCEPT ![s] = m],
           m.log \in Seq(Backed'), m.persisted <= Len(m.log),
           m.pc \in {"prepare", "hand", "hand_runs"},
           \E r \in attempts' : r.attempt = m.att /\ r.task = m.task,
           m.pc # "prepare" => \E r \in runs' : r.run = m.run /\ r.attempt = m.att,
           m.pc = "hand_runs" => m.run \in started'
    PROVE  TruthInv'
<1>1. At(m) = m.pc
  BY DEF At
<1>2. Truthful(m, Backed', packs', attempts', runs', started')
  BY <1>1 DEF Truthful, Admitting, Working
<1> QED BY <1>2, OneMoves

LEMMA PreflightTruth ==
    ASSUME TruthInv, NEW s \in Sessions, Preflight(s)
    PROVE  TruthInv'
<1> DEFINE m == sess[s]
           w == Walk(Writer(s), m.att, "admitted")
           go == Walk(w, m.att, "preparing")
           n == [m EXCEPT !.pc = "prepare", !.log = go.log, !.ids = go.n]
<1>1. /\ m.pc = "preflight" /\ m.pc \in Working /\ m.pc \notin Admitting
      /\ UNCHANGED <<store, outside, started>>
      /\ \/ m.att \in flags /\ Sync(s, m, Conclude(AbortTo(w, m.att), m.att), "return")
         \/ go.ok /\ sess' = [sess EXCEPT ![s] = n]
         \/ Fail(s)
  BY DEF Preflight, Working, Admitting
<1>2. /\ m \in Memory /\ Writer(s) \in Writers(Backed, m.persisted) /\ Writer(s).ok
      /\ \E r \in attempts : r.attempt = m.att /\ r.task = m.task
  BY <1>1, Begin
<1>3. m.att \in Nat /\ m.persisted \in Nat
  BY <1>2 DEF Memory
<1>4. Grow /\ Tables' /\ Backed' = Backed /\ ledger' \in Seq(Backed')
  BY <1>1, TablesRest
<1>5. w \in Writers(Backed, m.persisted) /\ go \in Writers(Backed, m.persisted)
  BY <1>2, <1>3, WalkWrites DEF States
<1> HIDE DEF w, go
<1>6. CASE m.att \in flags /\ Sync(s, m, Conclude(AbortTo(w, m.att), m.att), "return")
  BY <1>1, <1>5, <1>6, CancelTruth
<1>7. CASE sess' = [sess EXCEPT ![s] = n]
  <2>1. /\ go.log \in Seq(Backed) /\ go.log \in Seq(Envelopes) /\ go.n \in Nat
        /\ m.persisted <= Len(go.log)
    BY <1>5, PlainBacked, SeqMono DEF Writers
  <2>2. /\ n \in Memory /\ n.log = go.log /\ n.persisted = m.persisted /\ n.pc = "prepare"
        /\ n.att = m.att /\ n.task = m.task
    BY <1>2, <2>1 DEF Memory, Steps
  <2>3. \E r \in attempts' : r.attempt = m.att /\ r.task = m.task
    BY <1>2, <1>4 DEF Grow
  <2> HIDE DEF n
  <2> QED BY <1>4, <1>7, <2>1, <2>2, <2>3, MemoryTruth
<1> QED BY <1>1, <1>4, <1>6, <1>7, FailTruth

LEMMA PrepareTruth ==
    ASSUME TruthInv, NEW s \in Sessions, Prepare(s)
    PROVE  TruthInv'
<1>1. /\ sess[s].pc \in Working /\ sess[s].pc \notin Admitting
      /\ UNCHANGED <<store, outside, started>>
      /\ Sync(s, sess[s], Put(Writer(s), sess[s].att, Environment), "prerun")
  BY DEF Prepare, Working, Admitting
<1>2. sess[s].att \in Nat
  BY <1>1, Begin DEF Memory
<1>3. Environment \in Bodies /\ Environment.kind \notin Testimony
  BY DEF Environment, Bodies, Testimony
<1>4. "prerun" \in Continuations
  BY DEF Continuations
<1> QED BY <1>1, <1>2, <1>3, <1>4, PlainStep

LEMMA EnterTruth ==
    ASSUME TruthInv, NEW s \in Sessions, EnterRunning(s)
    PROVE  TruthInv'
<1> DEFINE m == sess[s]
           w == Walk(Writer(s), m.att, "running")
           g == CurrentGeneration(w.log, m.att)
           row == [run |-> w.n + 1, attempt |-> m.att, generation |-> g]
           n == [m EXCEPT !.pc = "hand", !.log = w.log, !.ids = w.n + 1 + 1,
                          !.run = w.n + 1, !.fence = g]
<1>1. /\ m.pc = "prerun" /\ m.pc \in Working /\ m.pc \notin Admitting
      /\ UNCHANGED <<ledger, saved, packs, attempts, events, flags, inputs, started>>
      /\ \/ /\ UNCHANGED runs /\ m.att \in flags
            /\ Sync(s, m, Conclude(AbortTo(Writer(s), m.att), m.att), "return")
         \/ UNCHANGED runs /\ Fail(s)
         \/ runs' = runs \union {row} /\ sess' = [sess EXCEPT ![s] = n]
  BY DEF EnterRunning, Working, Admitting, outside
<1>2. /\ m \in Memory /\ Writer(s) \in Writers(Backed, m.persisted)
      /\ \E r \in attempts : r.attempt = m.att /\ r.task = m.task
  BY <1>1, Begin
<1>3. m.att \in Nat /\ m.persisted \in Nat
  BY <1>2 DEF Memory
<1>4. w \in Writers(Backed, m.persisted)
  BY <1>2, <1>3, WalkWrites DEF States
<1> HIDE DEF w
<1>5. /\ w.log \in Seq(Backed) /\ w.log \in Seq(Envelopes) /\ w.n \in Nat
      /\ m.persisted <= Len(w.log)
  BY <1>4, PlainBacked, SeqMono DEF Writers
<1>6. g \in Nat /\ w.n + 1 \in Nat /\ w.n + 1 + 1 \in Nat
  BY <1>5, FenceType
<1>7. CASE /\ UNCHANGED runs /\ m.att \in flags
           /\ Sync(s, m, Conclude(AbortTo(Writer(s), m.att), m.att), "return")
  <2>1. UNCHANGED <<store, outside, started>>
    BY <1>1, <1>7 DEF store, outside
  <2> QED BY <1>1, <1>2, <1>7, <2>1, CancelTruth
<1>8. CASE UNCHANGED runs /\ Fail(s)
  <2>1. UNCHANGED <<store, outside, started>>
    BY <1>1, <1>8 DEF store, outside
  <2> QED BY <1>8, <2>1, TablesRest, FailTruth
<1>9. CASE runs' = runs \union {row} /\ sess' = [sess EXCEPT ![s] = n]
  <2>1. row \in [run : Nat, attempt : Nat, generation : Nat]
        /\ row.run = w.n + 1 /\ row.attempt = m.att
    <3> HIDE DEF g
    <3> QED BY <1>3, <1>6
  <2> HIDE DEF row
  <2>2. row \in runs' /\ runs \subseteq runs'
        /\ runs' \subseteq [run : Nat, attempt : Nat, generation : Nat]
    BY <1>9, <2>1 DEF TruthInv, Tables
  <2>3. Grow /\ Tables'
    BY <1>1, <2>2 DEF Grow, Tables, TruthInv
  <2>4. ledger' \in Seq(Backed') /\ w.log \in Seq(Backed')
    BY <1>1, <1>5, <2>3, BackedGrows, SeqMono DEF TruthInv
  <2>5. /\ n \in Memory /\ n.log = w.log /\ n.persisted = m.persisted /\ n.pc = "hand"
        /\ n.att = m.att /\ n.task = m.task /\ n.run = w.n + 1
    <3> HIDE DEF g
    <3> QED BY <1>2, <1>5, <1>6 DEF Memory, Steps
  <2>6. \E r \in attempts' : r.attempt = n.att /\ r.task = n.task
    <3> HIDE DEF n
    <3> QED BY <1>1, <1>2, <2>5
  <2>7. \E r \in runs' : r.run = n.run /\ r.attempt = n.att
    <3> HIDE DEF n
    <3> QED BY <2>1, <2>2, <2>5
  <2> HIDE DEF n
  <2> QED BY <1>5, <1>9, <2>3, <2>4, <2>5, <2>6, <2>7, MemoryTruth
<1> QED BY <1>1, <1>7, <1>8, <1>9

LEMMA HandStartsTruth ==
    ASSUME TruthInv, NEW s \in Sessions, HandStarts(s)
    PROVE  TruthInv'
<1> DEFINE m == sess[s]
           n == [m EXCEPT !.pc = "hand_runs"]
<1>1. /\ m.pc = "hand" /\ m.pc \in Working /\ m.pc \notin Admitting
      /\ UNCHANGED <<ledger, saved, packs, attempts, runs, events, flags, inputs>>
      /\ \/ UNCHANGED started /\ Fail(s)
         \/ started' = started \union {m.run} /\ sess' = [sess EXCEPT ![s].pc = "hand_runs"]
  BY DEF HandStarts, Working, Admitting, store, outside, Step
<1>2. /\ m \in Memory /\ m.log \in Seq(Backed)
      /\ Truthful(m, Backed, packs, attempts, runs, started)
      /\ \E r \in attempts : r.attempt = m.att /\ r.task = m.task
  BY <1>1, Begin
<1>3. Grow /\ Tables'
  <2>1. m.run \in Nat
    BY <1>2 DEF Memory
  <2>2. started \subseteq started' /\ started' \subseteq Nat
    BY <1>1, <2>1 DEF TruthInv, Tables
  <2> QED BY <1>1, <2>2 DEF Grow, Tables, TruthInv
<1>4. ledger' \in Seq(Backed') /\ m.log \in Seq(Backed')
  BY <1>1, <1>2, <1>3, BackedGrows, SeqMono DEF TruthInv
<1>5. CASE Fail(s)
  BY <1>3, <1>4, <1>5, FailTruth
<1>6. CASE started' = started \union {m.run} /\ sess' = [sess EXCEPT ![s].pc = "hand_runs"]
  <2>1. sess' = [sess EXCEPT ![s] = n]
    BY <1>6 DEF TruthInv
  <2>2. /\ n \in Memory /\ n.log = m.log /\ n.persisted = m.persisted /\ n.pc = "hand_runs"
        /\ n.att = m.att /\ n.task = m.task /\ n.run = m.run
    BY <1>2 DEF Memory, Steps
  <2> HIDE DEF n
  <2>3. \E r \in attempts' : r.attempt = n.att /\ r.task = n.task
    BY <1>1, <1>2, <2>2
  <2>4. \E r \in runs' : r.run = n.run /\ r.attempt = n.att
    BY <1>1, <1>2, <2>2 DEF Truthful
  <2>5. n.run \in started' /\ n.persisted <= Len(n.log)
    BY <1>2, <1>6, <2>2 DEF Truthful
  <2> QED BY <1>3, <1>4, <2>1, <2>2, <2>3, <2>4, <2>5, MemoryTruth
<1> QED BY <1>1, <1>5, <1>6

\* A transition and the sync after it.
LEMMA GoTruth ==
    ASSUME TruthInv, UNCHANGED <<store, outside, started>>, NEW s \in Sessions,
           sess[s].pc \in Working, NEW w \in Writers(Backed, sess[s].persisted),
           NEW to \in States, NEW cause \in Causes, NEW ref \in Nat,
           NEW then \in Continuations,
           Sync(s, sess[s], Go(w, sess[s].att, to, cause, ref), then)
    PROVE  TruthInv'
<1>1. sess[s].pc \notin Admitting
  BY DEF Working, Admitting
<1>2. sess[s].att \in Nat /\ sess[s].persisted \in Nat
  BY <1>1, Begin DEF Memory
<1>3. Go(w, sess[s].att, to, cause, ref) \in Writers(Backed, sess[s].persisted)
  BY <1>2, PlainBacked, GoWrites
<1> QED BY <1>3, StepTruth

LEMMA HandErrsTruth ==
    ASSUME TruthInv, NEW s \in Sessions, HandErrs(s)
    PROVE  TruthInv'
<1>1. /\ sess[s].pc \in Working /\ sess[s].pc \notin Admitting
      /\ UNCHANGED <<store, outside, started>>
      /\ Sync(s, sess[s], Go(Writer(s), sess[s].att, "recovery_pending",
                             "recovery_entered", 0), "errored")
  BY DEF HandErrs, Working, Admitting
<1>2. Writer(s) \in Writers(Backed, sess[s].persisted)
  BY <1>1, Begin
<1>3. /\ "recovery_pending" \in States /\ "recovery_entered" \in Causes /\ 0 \in Nat
      /\ "errored" \in Continuations
  BY DEF States, Causes, Continuations
<1> QED BY <1>1, <1>2, <1>3, GoTruth

\* The capture speaks of the run whose hand was started and whose events are
\* now on record.
LEMMA HandReturnsTruth ==
    ASSUME TruthInv, NEW s \in Sessions, HandReturns(s)
    PROVE  TruthInv'
<1> DEFINE m == sess[s]
           c == Capture(m.run)
           w == Put(Writer(s), m.att, c)
           b == Budget("step", "exceeded")
<1>1. /\ m.pc = "hand_runs" /\ m.pc \in Working /\ m.pc \notin Admitting
      /\ UNCHANGED <<ledger, saved, packs, attempts, runs, flags, inputs, started>>
      /\ events' = events \union {m.run}
      /\ \E lost \in BOOLEAN, x \in {w, Put(w, m.att, b)} :
            Sync(s, [m EXCEPT !.lost = lost], x, "observe")
  <2>1. PICK mode \in HandModes \ {"unregistered", "error"} :
             Sync(s, [m EXCEPT !.lost = (mode = "lost")],
                  IF mode = "breached" THEN Put(w, m.att, b) ELSE w, "observe")
    BY DEF HandReturns
  <2>2. \E x \in {w, Put(w, m.att, b)} :
            Sync(s, [m EXCEPT !.lost = (mode = "lost")], x, "observe")
    <3> HIDE DEF m, w, b
    <3> QED BY <2>1
  <2>3. \E lost \in BOOLEAN, x \in {w, Put(w, m.att, b)} :
            Sync(s, [m EXCEPT !.lost = lost], x, "observe")
    <3> HIDE DEF m, w, b
    <3> QED BY <2>2, Zenon
  <2> QED BY <2>3 DEF HandReturns, Working, Admitting, outside
<1>2. /\ m \in Memory /\ m.log \in Seq(Backed)
      /\ Truthful(m, Backed, packs, attempts, runs, started)
      /\ Writer(s) \in Writers(Backed, m.persisted)
      /\ \E r \in attempts : r.attempt = m.att /\ r.task = m.task
  BY <1>1, Begin
<1>3. m.att \in Nat /\ m.persisted \in Nat /\ m.run \in Nat /\ m.run \in started
      /\ \E r \in runs : r.run = m.run /\ r.attempt = m.att
  BY <1>1, <1>2 DEF Memory, Truthful
<1>4. Grow /\ Tables'
  <2>1. events \subseteq events' /\ events' \subseteq Nat
    BY <1>1, <1>3 DEF TruthInv, Tables
  <2> QED BY <1>1, <2>1 DEF Grow, Tables, TruthInv
<1>5. /\ ledger' \in Seq(Backed')
      /\ Plain \subseteq Backed' /\ Backed' \subseteq Envelopes
  <2>1. Plain \subseteq Backed' /\ Backed' \subseteq Envelopes
    BY DEF Plain, Testimony, Backed
  <2> QED BY <1>1, <1>4, <2>1, BackedGrows, SeqMono DEF TruthInv
<1>6. Writer(s) \in Writers(Backed', m.persisted) /\ Writer(s).n + 1 \in Nat
  <2>1. Seq(Backed) \subseteq Seq(Backed')
    BY <1>4, BackedGrows, SeqMono
  <2> QED BY <1>2, <2>1 DEF Writers
<1>7. Receipt(Writer(s).n + 1, m.att, c) \in Backed'
  <2>1. c \in Bodies /\ c.kind = "capture" /\ c.run = m.run
    BY <1>3 DEF Capture, Bodies
  <2> DEFINE e == Receipt(Writer(s).n + 1, m.att, c)
  <2>2. e \in Envelopes /\ e.body = c /\ e.attempt = m.att
    <3> HIDE DEF c
    <3> QED BY <1>3, <1>6, <2>1, EnvelopeOf DEF Receipt
  <2>3. m.run \in events' \intersect started'
    BY <1>1, <1>3
  <2>4. \E r \in runs' : r.run = m.run /\ r.attempt = m.att
    BY <1>1, <1>3
  <2> HIDE DEF e, c
  <2>5. e \in Backed'
    BY <2>1, <2>2, <2>3, <2>4 DEF Backed
  <2> QED BY <2>5 DEF e
<1> HIDE DEF c
<1>8. w \in Writers(Backed', m.persisted)
  BY <1>3, <1>6, <1>7, PutIs
<1>9. Put(w, m.att, b) \in Writers(Backed', m.persisted)
  <2>1. b \in Bodies /\ b.kind \notin Testimony
    BY DEF Budget, Bodies, Testimony
  <2> HIDE DEF b, w
  <2> QED BY <1>3, <1>5, <1>8, <2>1, PutWrites
<1> HIDE DEF w, b
<1>10. PICK lost \in BOOLEAN, x \in {w, Put(w, m.att, b)} :
            Sync(s, [m EXCEPT !.lost = lost], x, "observe")
  BY <1>1
<1> DEFINE n == [m EXCEPT !.lost = lost]
<1>11. n \in Memory /\ n.persisted = m.persisted /\ n.att = m.att /\ n.task = m.task
  BY <1>2 DEF Memory
<1>12. x \in Writers(Backed', n.persisted) /\ "observe" \in Continuations
  BY <1>8, <1>9, <1>11 DEF Continuations
<1>13. \E r \in attempts' : r.attempt = n.att /\ r.task = n.task
  <2> HIDE DEF n
  <2> QED BY <1>1, <1>2, <1>11
<1> HIDE DEF n
<1>14. Sync(s, n, x, "observe")
  BY <1>10 DEF n
<1> QED BY <1>4, <1>5, <1>11, <1>12, <1>13, <1>14, SyncTruth

\* What the pipeline recorded of a cancellation it saw.
LEMMA ObserveTruth ==
    ASSUME TruthInv, NEW s \in Sessions, ObserveAndCommit(s)
    PROVE  TruthInv'
<1> DEFINE m == sess[s]
           w == IF m.att \in flags
                THEN Put(Writer(s), m.att, AbortCause("cancelled")) ELSE Writer(s)
           c == Walk(w, m.att, "commit_pending")
<1>1. /\ m.pc = "observe" /\ m.pc \in Working /\ m.pc \notin Admitting
      /\ UNCHANGED <<store, outside, started>>
      /\ \/ Sync(s, m, Go(w, m.att, "recovery_pending", "recovery_entered", 0), "return")
         \/ Fail(s)
         \/ \E recs \in CommitRecords :
               Sync(s, m, Put(c, m.att, Commit(m.fence, recs)), "validate")
  BY DEF ObserveAndCommit, Working, Admitting
<1>2. m \in Memory /\ Writer(s) \in Writers(Backed, m.persisted)
  BY <1>1, Begin
<1>3. m.att \in Nat /\ m.persisted \in Nat /\ m.fence \in Nat
  BY <1>2 DEF Memory
<1>4. w \in Writers(Backed, m.persisted)
  <2>1. CASE m.att \in flags
    <3> DEFINE b == AbortCause("cancelled")
               e == Receipt(Writer(s).n + 1, m.att, b)
    <3>1. b \in Bodies /\ b.kind = "abort_cause" /\ b.abort = "cancelled"
      BY BodyConstructors DEF AbortCause, Aborts
    <3>2. Writer(s).n + 1 \in Nat
      BY <1>2 DEF Writers
    <3>3. e \in Envelopes /\ e.body = b /\ e.attempt = m.att
      <4> HIDE DEF b
      <4> QED BY <1>3, <3>1, <3>2, EnvelopeOf DEF Receipt
    <3> HIDE DEF b, e
    <3>4. e \in Backed
      BY <2>1, <3>1, <3>3 DEF Backed
    <3>5. Put(Writer(s), m.att, b) \in Writers(Backed, m.persisted)
      BY <1>2, <1>3, <3>4, PutIs DEF e
    <3> QED BY <2>1, <3>5 DEF b
  <2>2. CASE m.att \notin flags
    BY <1>2, <2>2
  <2> QED BY <2>1, <2>2
<1> HIDE DEF w
<1>5. CASE Sync(s, m, Go(w, m.att, "recovery_pending", "recovery_entered", 0), "return")
  <2>1. /\ "recovery_pending" \in States /\ "recovery_entered" \in Causes /\ 0 \in Nat
        /\ "return" \in Continuations
    BY DEF States, Causes, Continuations
  <2> QED BY <1>1, <1>4, <1>5, <2>1, GoTruth
<1>6. CASE Fail(s)
  BY <1>1, <1>6, TablesRest, FailTruth
<1>7. ASSUME NEW recs \in CommitRecords,
             Sync(s, m, Put(c, m.att, Commit(m.fence, recs)), "validate")
      PROVE  TruthInv'
  <2>1. c \in Writers(Backed, m.persisted)
    BY <1>3, <1>4, WalkWrites DEF States
  <2>2. recs \in [Required -> CommitVerdicts]
    BY EngineAssumption DEF EngineAssumption
  <2> DEFINE b == Commit(m.fence, recs)
  <2>3. b \in Bodies /\ b.kind \notin Testimony
    BY <1>3, <2>2, BodyConstructors DEF Commit, Testimony
  <2> HIDE DEF c, b
  <2>4. Put(c, m.att, b) \in Writers(Backed, m.persisted)
    BY <1>3, <2>1, <2>3, PlainBacked, PutWrites
  <2>5. "validate" \in Continuations
    BY DEF Continuations
  <2> QED BY <1>1, <1>7, <2>4, <2>5, StepTruth DEF b
<1> QED BY <1>1, <1>5, <1>6, <1>7

\* The rulings over some artifacts: finitely many, validations and quarantines.
LEMMA RulingsAre ==
    ASSUME NEW D \in SUBSET Required, NEW verdict \in [D -> [Validators -> ValidatorVerdicts]]
    PROVE  /\ IsFiniteSet(Rulings(verdict))
           /\ \A b \in Rulings(verdict) : b \in Bodies /\ b.kind \in {"validation", "quarantine"}
<1> DEFINE over == D \X Validators
           f == [p \in over |-> Validation(p[1], p[2], verdict[p[1]][p[2]])]
           g == [p \in over |-> Quarantine(p[1], p[2])]
           V == {f[p] : p \in over}
           Q == {g[p] : p \in over}
<1>1. IsFiniteSet(over)
  BY ContractAssumption, FS_Subset, FS_Product DEF ContractAssumption
<1>2. IsFiniteSet(V)
  <2>1. f \in Surjection(over, V)
    <3> HIDE DEF over
    <3> QED BY DEF Surjection
  <2> HIDE DEF f, V, over
  <2> QED BY <1>1, <2>1, FS_Surjection
<1>3. IsFiniteSet(Q)
  <2>1. g \in Surjection(over, Q)
    <3> HIDE DEF over
    <3> QED BY DEF Surjection
  <2> HIDE DEF g, Q, over
  <2> QED BY <1>1, <2>1, FS_Surjection
<1>4. ASSUME NEW b \in Rulings(verdict)
      PROVE  b \in V \union Q /\ b \in Bodies /\ b.kind \in {"validation", "quarantine"}
  <2>1. PICK n \in D, v \in Validators :
            b = Validation(n, v, verdict[n][v]) \/ b = Quarantine(n, v)
    BY DEF Rulings
  <2>2. /\ <<n, v>> \in over /\ f[<<n, v>>] = Validation(n, v, verdict[n][v])
        /\ g[<<n, v>>] = Quarantine(n, v)
    OBVIOUS
  <2>3. b \in V \union Q
    <3> HIDE DEF over, f, g
    <3> QED BY <2>1, <2>2
  <2>4. n \in Required /\ verdict[n][v] \in ValidatorVerdicts
    OBVIOUS
  <2>5. b \in Bodies /\ b.kind \in {"validation", "quarantine"}
    BY <2>1, <2>4 DEF Validation, Quarantine, Bodies
  <2> QED BY <2>3, <2>5
<1>5. IsFiniteSet(V \union Q) /\ Rulings(verdict) \subseteq V \union Q
  <2> HIDE DEF V, Q
  <2> QED BY <1>2, <1>3, <1>4, FS_Union
<1>6. IsFiniteSet(Rulings(verdict))
  BY <1>5, FS_Subset
<1> QED BY <1>4, <1>6

\* A finite set listed in some order is a sequence of its elements.
LEMMA ListedIn ==
    ASSUME NEW S, IsFiniteSet(S), NEW q \in SetToSeqs(S)
    PROVE  q \in Seq(S)
<1>1. Cardinality(S) \in Nat
  BY FS_CardinalityType
<1> DEFINE n == Cardinality(S)
<1>2. q \in [1..n -> S]
  BY DEF SetToSeqs
<1> HIDE DEF n
<1> QED BY <1>1, <1>2 DEF n

\* A batch of plain receipts.
LEMMA BatchWrites ==
    ASSUME NEW E, NEW k \in Nat, Plain \subseteq E, E \subseteq Envelopes,
           NEW w \in Writers(E, k), NEW a \in Nat, NEW bodies \in Seq(Bodies),
           \A i \in DOMAIN bodies : bodies[i].kind \notin Testimony
    PROVE  [w EXCEPT !.log = @ \o Stamp(w.n, a, bodies), !.n = @ + Len(bodies)] \in Writers(E, k)
<1> DEFINE q == Stamp(w.n, a, bodies)
<1>1. w \in [log : Seq(E), n : Nat, ok : BOOLEAN] /\ k <= Len(w.log) /\ w.n \in Nat
  BY DEF Writers
<1>2. ASSUME NEW i \in 1..Len(bodies)
      PROVE  [id |-> w.n + i, attempt |-> a, body |-> bodies[i]] \in E
  <2> DEFINE e == [id |-> w.n + i, attempt |-> a, body |-> bodies[i]]
  <2>1. bodies[i] \in Bodies /\ bodies[i].kind \notin Testimony /\ w.n + i \in Nat
    BY <1>1
  <2>2. e \in Envelopes /\ e.body = bodies[i]
    BY <2>1, EnvelopeOf
  <2> HIDE DEF e
  <2>3. e \in Plain
    BY <2>1, <2>2 DEF Plain
  <2> QED BY <2>3 DEF e
<1>3. q \in Seq(E)
  BY <1>2 DEF Stamp
<1> HIDE DEF q
<1>4. w.log \o q \in Seq(E) /\ k <= Len(w.log \o q) /\ w.n + Len(bodies) \in Nat
  BY <1>1, <1>3
<1> DEFINE r == w.log \o q
<1>5. r \in Seq(E) /\ k <= Len(r)
  BY <1>4
<1> HIDE DEF r
<1>6. [w EXCEPT !.log = r, !.n = w.n + Len(bodies)] \in Writers(E, k)
  BY <1>1, <1>4, <1>5 DEF Writers
<1> QED BY <1>6 DEF r, q

LEMMA ValidateTruth ==
    ASSUME TruthInv, NEW s \in Sessions, Validate(s)
    PROVE  TruthInv'
<1> DEFINE m == sess[s]
           w == Walk(Writer(s), m.att, "validating")
           verified == {n \in Required : CommitVerdict(m.log, m.att, n) = "verified"}
<1>0. PICK verdict \in [verified -> [Validators -> ValidatorVerdicts]] :
         \E bodies \in SetToSeqs(Rulings(verdict)) :
            Sync(s, m, [w EXCEPT !.log = @ \o Stamp(w.n, m.att, bodies),
                                 !.n = @ + Len(bodies)], "classify")
  BY DEF Validate
<1>1. PICK bodies \in SetToSeqs(Rulings(verdict)) :
         Sync(s, m, [w EXCEPT !.log = @ \o Stamp(w.n, m.att, bodies),
                              !.n = @ + Len(bodies)], "classify")
  BY <1>0
<1>2. /\ m.pc \in Working /\ m.pc \notin Admitting /\ UNCHANGED <<store, outside, started>>
  BY DEF Validate, Working, Admitting
<1>3. m \in Memory /\ Writer(s) \in Writers(Backed, m.persisted)
  BY <1>2, Begin
<1>4. m.att \in Nat /\ m.persisted \in Nat
  BY <1>3 DEF Memory
<1>5. w \in Writers(Backed, m.persisted)
  BY <1>3, <1>4, WalkWrites DEF States
<1>6. bodies \in Seq(Rulings(verdict))
  <2>1. verified \in SUBSET Required
    OBVIOUS
  <2> HIDE DEF verified
  <2> QED BY <2>1, RulingsAre, ListedIn
<1>7. /\ bodies \in Seq(Bodies) /\ \A i \in DOMAIN bodies : bodies[i].kind \notin Testimony
  <2>1. verified \in SUBSET Required
    OBVIOUS
  <2> HIDE DEF verified
  <2>2. \A b \in Rulings(verdict) : b \in Bodies /\ b.kind \in {"validation", "quarantine"}
    BY <2>1, RulingsAre
  <2>3. bodies \in Seq(Bodies)
    BY <1>6, <2>2, SeqMono
  <2>4. \A i \in DOMAIN bodies : bodies[i] \in Rulings(verdict)
    BY <1>6
  <2> QED BY <2>2, <2>3, <2>4 DEF Testimony
<1> HIDE DEF w
<1>8. [w EXCEPT !.log = @ \o Stamp(w.n, m.att, bodies), !.n = @ + Len(bodies)]
         \in Writers(Backed, m.persisted)
  BY <1>4, <1>5, <1>7, PlainBacked, BatchWrites
<1>9. "classify" \in Continuations
  BY DEF Continuations
<1> QED BY <1>1, <1>2, <1>8, <1>9, StepTruth

LEMMA ClassifyTruth ==
    ASSUME TruthInv, NEW s \in Sessions, ClassifyAndClose(s)
    PROVE  TruthInv'
<1> DEFINE m == sess[s]
           w == Walk(Writer(s), m.att, "classifying")
<1>1. /\ m.pc \in Working /\ m.pc \notin Admitting /\ UNCHANGED <<store, outside, started>>
      /\ Sync(s, m, Conclude(w, m.att), "select")
  BY DEF ClassifyAndClose, Working, Admitting
<1>2. m \in Memory /\ Writer(s) \in Writers(Backed, m.persisted)
  BY <1>1, Begin
<1>3. m.att \in Nat /\ m.persisted \in Nat
  BY <1>2 DEF Memory
<1>4. w \in Writers(Backed, m.persisted)
  BY <1>2, <1>3, WalkWrites DEF States
<1> HIDE DEF w
<1>5. Conclude(w, m.att) \in Writers(Backed, m.persisted) /\ "select" \in Continuations
  BY <1>3, <1>4, PlainBacked, ConcludeWrites DEF Continuations
<1> QED BY <1>1, <1>5, StepTruth

\* What select answers over naturals is a natural and a selection.
LEMMA SelectIs ==
    ASSUME NEW l, NEW t \in Tasks, NEW C \in SUBSET Nat, C # {}
    PROVE  /\ Select(l, t, C).under \in C /\ Select(l, t, C).body \in Bodies
           /\ Select(l, t, C).body.kind = "selection"
<1>1. Earliest(C) \in C
  BY EarliestIn
<1>2. CASE Selectable(l, C) = {}
  <2> DEFINE b == Selection(t, NoAttempt, FALSE)
  <2>1. b \in Bodies /\ b.kind = "selection"
    BY BodyConstructors DEF Selection, NoAttempt
  <2>2. Select(l, t, C).under = Earliest(C) /\ Select(l, t, C).body = b
    BY <1>2 DEF Select
  <2> HIDE DEF b
  <2> QED BY <1>1, <2>1, <2>2
<1>3. CASE Selectable(l, C) # {}
  <2> DEFINE a == Earliest(Selectable(l, C))
             b == Selection(t, a, TRUE)
  <2>1. a \in C
    <3>1. Selectable(l, C) \in SUBSET Nat /\ Selectable(l, C) \subseteq C
      BY DEF Selectable
    <3> QED BY <1>3, <3>1, EarliestIn
  <2>2. b \in Bodies /\ b.kind = "selection"
    <3>1. a \in Nat
      BY <2>1
    <3> HIDE DEF a
    <3> QED BY <3>1, BodyConstructors DEF Selection
  <2>3. Select(l, t, C).under = a /\ Select(l, t, C).body = b
    BY <1>3 DEF Select
  <2> HIDE DEF a, b
  <2> QED BY <2>1, <2>2, <2>3
<1> QED BY <1>2, <1>3

LEMMA SelectTruth ==
    ASSUME TruthInv, NEW s \in Sessions, SelectForTask(s)
    PROVE  TruthInv'
<1> DEFINE m == sess[s]
           C == {r.attempt : r \in {x \in attempts : x.task = m.task}}
           sel == Select(m.log, m.task, C)
<1>1. /\ m.pc \in Working /\ m.pc \notin Admitting /\ UNCHANGED <<store, outside, started>>
      /\ Sync(s, m, Put(Writer(s), sel.under, sel.body), "return")
  BY DEF SelectForTask, Working, Admitting
<1>2. m \in Memory /\ \E r \in attempts : r.attempt = m.att /\ r.task = m.task
  BY <1>1, Begin
<1>3. m.task \in Tasks
  BY <1>2 DEF Memory
<1>4. C \in SUBSET Nat /\ C # {} /\ \A c \in C : Rows(c) # {}
  BY <1>2 DEF TruthInv, Tables, Rows
<1> HIDE DEF C
<1>5. sel.under \in C /\ sel.body \in Bodies /\ sel.body.kind = "selection"
  BY <1>3, <1>4, SelectIs
<1> HIDE DEF sel
<1>6. Writer(s) \in Writers(Backed, m.persisted) /\ Writer(s).n + 1 \in Nat /\ m.persisted \in Nat
  BY <1>1, <1>2, Begin DEF Memory, Writers
<1>7. Receipt(Writer(s).n + 1, sel.under, sel.body) \in Backed
  <2> DEFINE e == Receipt(Writer(s).n + 1, sel.under, sel.body)
  <2>1. e \in Envelopes
    BY <1>4, <1>5, <1>6, EnvelopeOf DEF Receipt
  <2>2. e.attempt = sel.under /\ e.body = sel.body
    BY DEF Receipt
  <2> HIDE DEF e
  <2>3. e \in Backed
    BY <1>4, <1>5, <2>1, <2>2 DEF Backed
  <2> QED BY <2>3 DEF e
<1>8. Put(Writer(s), sel.under, sel.body) \in Writers(Backed, m.persisted)
  BY <1>6, <1>7, PutIs
<1>9. "return" \in Continuations
  BY DEF Continuations
<1> HIDE DEF m
<1> QED BY <1>1, <1>8, <1>9, StepTruth DEF m

\* A recovery action: one plain receipt from the mint's saved mark, then a transition.
LEMMA RecoveryTruth ==
    ASSUME TruthInv, UNCHANGED <<store, outside, started>>, NEW s \in Sessions,
           sess[s].pc \in Working, NEW body \in Bodies, body.kind \notin Testimony,
           NEW to \in States, NEW cause \in Causes, NEW then \in Continuations,
           LET w == Put([log |-> sess[s].log, n |-> saved, ok |-> TRUE], sess[s].att, body)
           IN  Sync(s, sess[s], Go(w, sess[s].att, to, cause, w.n), then)
    PROVE  TruthInv'
<1> DEFINE v == [log |-> sess[s].log, n |-> saved, ok |-> TRUE]
           w == Put(v, sess[s].att, body)
<1>1. sess[s].pc \notin Admitting
  BY DEF Working, Admitting
<1>2. /\ sess[s] \in Memory /\ sess[s].log \in Seq(Backed)
      /\ sess[s].persisted <= Len(sess[s].log) /\ saved \in Nat
  BY <1>1, Begin DEF Truthful, TruthInv, Tables
<1>3. v \in Writers(Backed, sess[s].persisted) /\ sess[s].att \in Nat /\ sess[s].persisted \in Nat
  BY <1>2 DEF Writers, Memory
<1> HIDE DEF v
<1>4. w \in Writers(Backed, sess[s].persisted) /\ w.n \in Nat
  BY <1>3, PlainBacked, PutWrites
<1>5. Sync(s, sess[s], Go(w, sess[s].att, to, cause, w.n), then)
  BY DEF v
<1> HIDE DEF w
<1> QED BY <1>4, <1>5, GoTruth

LEMMA CloseTruth ==
    ASSUME TruthInv, NEW s \in Sessions, CloseAsUnknown(s)
    PROVE  TruthInv'
<1> DEFINE w == Put([log |-> sess[s].log, n |-> saved, ok |-> TRUE], sess[s].att,
                    Terminal("unknown"))
<1>1. /\ sess[s].pc \in Working /\ UNCHANGED <<store, outside, started>>
      /\ \/ Fail(s)
         \/ Sync(s, sess[s], Go(w, sess[s].att, "terminal", "classification_complete", w.n),
                 "return")
  BY DEF CloseAsUnknown, Working
<1>2. Terminal("unknown") \in Bodies /\ Terminal("unknown").kind \notin Testimony
  <2>1. Terminal("unknown").kind = "terminal"
    BY DEF Terminal
  <2> QED BY <2>1, BodyConstructors DEF Outcomes, Testimony
<1>3. /\ "terminal" \in States /\ "classification_complete" \in Causes
      /\ "return" \in Continuations
  BY DEF States, Causes, Continuations
<1>4. CASE Fail(s)
  BY <1>1, <1>4, TablesRest, FailTruth
<1>5. CASE Sync(s, sess[s], Go(w, sess[s].att, "terminal", "classification_complete", w.n),
                "return")
  BY <1>1, <1>2, <1>3, <1>5, RecoveryTruth
<1> QED BY <1>1, <1>4, <1>5

LEMMA ResumeTruth ==
    ASSUME TruthInv, NEW s \in Sessions, ResumeAttempt(s)
    PROVE  TruthInv'
<1> DEFINE g == CurrentGeneration(sess[s].log, sess[s].att)
           b == FenceGeneration(g + 1)
           w == Put([log |-> sess[s].log, n |-> saved, ok |-> TRUE], sess[s].att, b)
<1>1. /\ sess[s].pc \in Working /\ sess[s].pc \notin Admitting
      /\ UNCHANGED <<store, outside, started>>
      /\ \/ Fail(s)
         \/ Sync(s, sess[s], Go(w, sess[s].att, "preparing", "recovery_resume", w.n), "prepare")
  BY DEF ResumeAttempt, Working, Admitting
<1>2. b \in Bodies /\ b.kind \notin Testimony
  <2>1. sess[s].log \in Seq(Envelopes)
    BY <1>1, Begin
  <2>2. g + 1 \in Nat
    BY <2>1, FenceType
  <2> HIDE DEF g
  <2> QED BY <2>2, BodyConstructors DEF FenceGeneration, Testimony
<1>3. /\ "preparing" \in States /\ "recovery_resume" \in Causes /\ "prepare" \in Continuations
  BY DEF States, Causes, Continuations
<1> HIDE DEF b
<1>4. CASE Fail(s)
  BY <1>1, <1>4, TablesRest, FailTruth
<1>5. CASE Sync(s, sess[s], Go(w, sess[s].att, "preparing", "recovery_resume", w.n), "prepare")
  BY <1>1, <1>2, <1>3, <1>5, RecoveryTruth
<1> QED BY <1>1, <1>4, <1>5

LEMMA ReturnTruth ==
    ASSUME TruthInv, NEW s \in Sessions, Return(s) \/ ReturnError(s)
    PROVE  TruthInv'
<1>1. UNCHANGED <<store, outside, started>>
  BY DEF Return, ReturnError
<1>2. Grow /\ Tables' /\ ledger' \in Seq(Backed')
  BY <1>1, TablesRest
<1>3. CASE ReturnError(s)
  BY <1>2, <1>3, FailTruth DEF ReturnError
<1>4. CASE Return(s)
  <2>1. PICK x \in {"none", "zero", "nonzero", "error"} :
           sess' = [sess EXCEPT ![s] = [Blank EXCEPT !.task = sess[s].task, !.exit = x]]
    <3> DEFINE m == sess[s]
               x == IF m.waits
                    THEN WaitExit(TaskSatisfied(m.log, m.task), Outcome(m.log, m.att))
                    ELSE "none"
    <3>1. x \in {"none", "zero", "nonzero", "error"}
      BY DEF WaitExit
    <3>2. sess' = [sess EXCEPT ![s] = [Blank EXCEPT !.task = sess[s].task, !.exit = x]]
      BY <1>4 DEF Return
    <3> HIDE DEF x
    <3> QED BY <3>1, <3>2
  <2>2. sess[s].task \in Tasks
    BY DEF TruthInv, Truthful, Memory
  <2>3. Truthful([Blank EXCEPT !.task = sess[s].task, !.exit = x],
                 Backed', packs', attempts', runs', started')
    BY <2>2, BlankTruthful
  <2> QED BY <1>2, <2>1, <2>3, OneMoves
<1> QED BY <1>3, <1>4

\* A cancel file appears, or what a fresh pack would hash to changes.
LEMMA WorldTruth ==
    ASSUME TruthInv,
           \/ \E r \in attempts : RequestCancel(r)
           \/ \E t \in Tasks, h \in Hashes : ChangeInputs(t, h)
    PROVE  TruthInv'
<1>1. UNCHANGED <<ledger, saved, packs, attempts, runs, events, started, sess>>
  BY DEF RequestCancel, ChangeInputs, store
<1>2. flags \subseteq flags' /\ flags' \subseteq Nat /\ inputs' \in [Tasks -> Hashes]
  <2>1. CASE \E r \in attempts : RequestCancel(r)
    BY <2>1 DEF RequestCancel, TruthInv, Tables
  <2>2. CASE \E t \in Tasks, h \in Hashes : ChangeInputs(t, h)
    BY <2>2 DEF ChangeInputs, TruthInv, Tables
  <2> QED BY <2>1, <2>2
<1>3. Grow /\ Tables'
  BY <1>1, <1>2 DEF Grow, Tables, TruthInv
<1>4. ledger' \in Seq(Backed')
  BY <1>1, <1>3, BackedGrows, SeqMono DEF TruthInv
<1>5. \A s \in Sessions : Truthful(sess[s], Backed', packs', attempts', runs', started')
  BY <1>3, TruthfulGrows DEF TruthInv
<1> QED BY <1>1, <1>3, <1>4, <1>5 DEF TruthInv

LEMMA CrashTruth ==
    ASSUME TruthInv, NEW s \in Sessions, Crash(s)
    PROVE  TruthInv'
<1>1. UNCHANGED <<store, outside, started>> /\ sess' = [sess EXCEPT ![s] = Blank]
  BY DEF Crash
<1>2. PICK t \in Tasks : TRUE
  BY EngineAssumption DEF EngineAssumption
<1>3. Truthful(Blank, Backed', packs', attempts', runs', started')
  BY <1>2, BlankTruthful
<1> QED BY <1>1, <1>3, TablesRest, OneMoves

-----------------------------------------------------------------------------
(* The theorems. *)

\* No step, by any session or around them, breaks the invariant.
LEMMA TruthKept == TruthInv /\ [Next]_vars => TruthInv'
<1> SUFFICES ASSUME TruthInv, [Next]_vars PROVE TruthInv'
  OBVIOUS
<1>1. CASE UNCHANGED vars
  <2>1. UNCHANGED <<store, outside, sess, started>>
    BY <1>1 DEF vars
  <2>2. Grow /\ Tables' /\ Backed' = Backed /\ ledger' \in Seq(Backed')
    BY <2>1, TablesRest
  <2>3. \A s \in Sessions : Truthful(sess[s], Backed', packs', attempts', runs', started')
    BY <2>2, TruthfulGrows DEF TruthInv
  <2> QED BY <2>1, <2>2, <2>3 DEF TruthInv
<1>2. ASSUME NEW s \in Sessions, Work(s) PROVE TruthInv'
  BY <1>2, PersistTruth, SaveTruth, AdmitTruth, PutPackTruth, InsertTruth, PreflightTruth,
     PrepareTruth, EnterTruth, HandStartsTruth, HandErrsTruth, HandReturnsTruth, ObserveTruth,
     ValidateTruth, ClassifyTruth, SelectTruth, CloseTruth, ResumeTruth, ReturnTruth DEF Work
<1>3. ASSUME NEW s \in Sessions, Command(s) PROVE TruthInv'
  BY <1>3, StartRunTruth, StartRetryTruth, StartRecoveryTruth DEF Command
<1>4. ASSUME NEW s \in Sessions, Crash(s) PROVE TruthInv'
  BY <1>4, CrashTruth
<1> QED BY <1>1, <1>2, <1>3, <1>4, WorldTruth DEF Next

LEMMA TruthAlways == Spec => []TruthInv
BY InitTruth, TruthKept, PTL DEF Spec

\* Receipts, rows and memories have the types of store.rs, receipts.rs and
\* engine.rs, with any number of commands running, crashing and being resumed.
THEOREM TypeCorrect == Spec => []TypeOK
<1>1. TruthInv => TypeOK
  <2> SUFFICES ASSUME TruthInv PROVE TypeOK
    OBVIOUS
  <2>1. ledger \in Seq(Envelopes)
    BY PlainBacked, SeqMono DEF TruthInv
  <2>2. ASSUME NEW s \in Sessions
        PROVE  /\ sess[s].log \in Seq(Envelopes)
               /\ sess[s].persisted \in 0..Len(sess[s].log)
               /\ sess[s].exit \in {"none", "zero", "nonzero", "error"}
    <3>1. sess[s] \in Memory /\ sess[s].persisted <= Len(sess[s].log)
      BY DEF TruthInv, Truthful
    <3> QED BY <3>1 DEF Memory
  <2> QED BY <2>1, <2>2 DEF TypeOK, TruthInv, Tables
<1> QED BY <1>1, TruthAlways, PTL

\* Join keys resolve across the tables (invariant 9 of INVARIANTS.md, store.rs):
\* a creation receipt has its row and its pack, a capture its run, hand and
\* events, whatever commands run at once and wherever they are killed.
THEOREM KeysResolve == Spec => []JoinKeysResolve
<1>1. TruthInv => JoinKeysResolve
  <2> SUFFICES ASSUME TruthInv PROVE JoinKeysResolve
    OBVIOUS
  <2>1. ASSUME NEW i \in DOMAIN ledger PROVE ledger[i] \in Backed
    BY DEF TruthInv
  <2>2. ASSUME NEW i \in Created(ledger)
        PROVE  LET b == ledger[i].body
               IN  \E r \in Rows(ledger[i].attempt) :
                     /\ r.task = b.task /\ r.hash = b.hash /\ r.generation = b.generation
                     /\ [id |-> r.pack, task |-> b.task, hash |-> b.hash] \in packs
    <3>1. i \in DOMAIN ledger /\ ledger[i].body.kind = "attempt_created"
      BY DEF Created, AnyOfKind
    <3>2. ledger[i] \in Backed
      BY <2>1, <3>1
    <3> QED BY <3>1, <3>2 DEF Backed
  <2>3. ASSUME NEW i \in AnyOfKind(ledger, "capture")
        PROVE  /\ ledger[i].body.run \in events \intersect started
               /\ \E r \in runs : r.run = ledger[i].body.run /\ r.attempt = ledger[i].attempt
    <3>1. i \in DOMAIN ledger /\ ledger[i].body.kind = "capture"
      BY DEF AnyOfKind
    <3>2. ledger[i] \in Backed
      BY <2>1, <3>1
    <3> QED BY <3>1, <3>2 DEF Backed
  <2> QED BY <2>2, <2>3 DEF JoinKeysResolve
<1> QED BY <1>1, TruthAlways, PTL

=============================================================================
