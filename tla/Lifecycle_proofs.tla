--------------------------- MODULE Lifecycle_proofs ---------------------------
(***************************************************************************)
(* What is proved of Lifecycle, for any tasks, input hashes, required      *)
(* artifacts, caller's evidence and aborts and any bounds.  Every action   *)
(* is shown to be a GoodStep: it keeps the log sound, moves attempts only  *)
(* along the drawn edges, and keeps every terminal state earned.           *)
(***************************************************************************)
EXTENDS Lifecycle, LogLemmas

\* The inductive invariant of the chains, and with it that of the verdicts.
IInv == TypeOK /\ ChainIntact

VerdictInv == IInv /\ TerminalEarned

\* The two conjuncts of IInv say that the log is sound up to the mint.
LEMMA IInvIsSound == IInv <=> Sound(log, issued)
BY DEF IInv, TypeOK, ChainIntact, Sound

\* What one step does to the log, as far as states are concerned.
MovesAlong ==
    \A x : \/ StateOf(log', x) = StateOf(log, x)
           \/ <<StateOf(log, x), StateOf(log', x)>> \in Drawn

\* What was earned stays earned, and whoever enters terminal earns it.
Earnings ==
    \A x : /\ Earned(log, x) => Earned(log', x)
           /\ StateOf(log, x) # "terminal" /\ StateOf(log', x) = "terminal"
                => Earned(log', x)

\* Requests that were told apart stay so.
Requests == RequestsIdempotent => RequestsIdempotent'

GoodStep == Sound(log', issued') /\ MovesAlong /\ Earnings /\ Requests

\* An attempt with a creation receipt (receipts.rs for_attempt is never empty for
\* it) is minted, and its state resolves.
LEMMA KnownAttempt ==
    ASSUME IInv, NEW a \in Attempts
    PROVE  /\ a \in 1..issued /\ ResolveState(log, a) \in States
           /\ StateOf(log, a) = ResolveState(log, a)
           /\ issued \in Nat /\ log \in Seq(Envelopes)
<1>1. PICK i \in DOMAIN log : a = log[i].attempt
  BY DEF Attempts, Created, AnyOfKind
<1>2. a \in 1..issued /\ ResolveState(log, a) \in States
  BY <1>1 DEF IInv, TypeOK, ChainIntact
<1> QED BY <1>2, ResolvedAttempt DEF ResolveState, IInv, TypeOK

\* An append-only log forgets no verdict: what justified an attempt's terminal
\* state goes on justifying it when any receipt is appended.
LEMMA EarnedGrows ==
    ASSUME NEW l \in Seq(Envelopes), NEW e \in Envelopes, NEW x, Earned(l, x)
    PROVE  Earned(Append(l, e), x)
<1> DEFINE r == Append(l, e)
<1>1. PICK m \in Moves(l, x), i \in OfKind(l, x, "terminal") :
          i < m /\ l[m].body.to = "terminal" /\ l[m].body.ref = l[i].id
  BY DEF Earned
<1>2. m \in 1..Len(l) /\ i \in 1..Len(l)
  BY OfKindMember DEF Moves
<1>3. r[m] = l[m] /\ r[i] = l[i]
  BY <1>2, AppendFacts
<1>4. m \in Moves(r, x) /\ i \in OfKind(r, x, "terminal")
  <2>1. Moves(l, x) \subseteq Moves(r, x)
    BY OfKindGrows DEF Moves
  <2>2. OfKind(l, x, "terminal") \subseteq OfKind(r, x, "terminal")
    BY OfKindGrows
  <2> QED BY <1>1, <2>1, <2>2
<1> HIDE DEF r
<1>5. Earned(r, x)
  BY <1>1, <1>3, <1>4 DEF Earned
<1> QED BY <1>5 DEF r

\* A transition into terminal appended after the receipt it names.
LEMMA EarnedByReceipt ==
    ASSUME NEW l \in Seq(Envelopes), NEW e \in Envelopes, NEW a, e.attempt = a,
           e.body.kind = "transition", e.body.to = "terminal",
           NEW i \in OfKind(l, a, "terminal"), e.body.ref = l[i].id
    PROVE  Earned(Append(l, e), a)
<1> DEFINE r == Append(l, e)
           m == Len(l) + 1
<1>1. i \in 1..Len(l) /\ Len(l) \in Nat
  BY OfKindMember, AppendFacts
<1>2. r[i] = l[i] /\ r[m] = e
  BY <1>1, AppendFacts
<1>3. m \in Moves(r, a) /\ i \in OfKind(r, a, "terminal")
  <2>1. Moves(r, a) = Moves(l, a) \union {m}
    BY OfKindAppend DEF Moves
  <2>2. OfKind(r, a, "terminal") = OfKind(l, a, "terminal")
    BY OfKindAppend
  <2> QED BY <2>1, <2>2
<1>4. i < m
  BY <1>1
<1> HIDE DEF r, m
<1>5. Earned(r, a)
  BY <1>2, <1>3, <1>4 DEF Earned
<1> QED BY <1>5 DEF r

\* apply_transition accepts only the edges of the diagram (state.rs 3-8).
LEMMA LegalEdge ==
    ASSUME NEW l, NEW a, NEW to, NEW cause, NEW ref, LegalTransition(l, a, to, cause, ref)
    PROVE  <<ResolveState(l, a), to>> \in Drawn /\ to \in States /\ cause \in Causes
BY DEF LegalTransition, Drawn, States, Causes, Pipeline, PreRun

\* A legal transition moves its attempt along an edge of the diagram, and into
\* terminal only from a terminal receipt of that very attempt.
LEMMA TransitionStep ==
    ASSUME IInv, NEW a \in Attempts, NEW to, NEW cause, NEW ref \in Nat,
           ApplyTransition(a, to, cause, ref)
    PROVE  GoodStep
<1> DEFINE b == MoveTo(log, a, to, cause, ref)
           e == [id |-> issued + 1, attempt |-> a, body |-> b]
<1>1. /\ a \in 1..issued /\ ResolveState(log, a) \in States
      /\ StateOf(log, a) = ResolveState(log, a)
      /\ issued \in Nat /\ log \in Seq(Envelopes) /\ Sound(log, issued)
  BY KnownAttempt, IInvIsSound
<1>2. <<ResolveState(log, a), to>> \in Drawn /\ to \in States /\ cause \in Causes
  BY LegalEdge DEF ApplyTransition
<1>3. /\ b \in Bodies /\ Sound(Append(log, e), issued + 1)
      /\ \A x : StateOf(Append(log, e), x) = IF x = a THEN to ELSE StateOf(log, x)
  BY <1>1, <1>2, TransitionReceipt DEF MoveTo
<1>4. log' = Append(log, e) /\ issued' = issued + 1
  <2>1. log' = log \o Stamp(issued, a, <<b>>) /\ issued' = issued + Len(<<b>>)
    BY DEF ApplyTransition, Append_
  <2> HIDE DEF b
  <2> QED BY <1>1, <1>3, <2>1, StampOne
<1>5. e \in Envelopes /\ e.attempt = a /\ e.body = b
  <2> HIDE DEF b
  <2> QED BY <1>1, <1>3 DEF Envelopes
<1>6. ASSUME to = "terminal"
      PROVE  Earned(Append(log, e), a)
  <2>1. PICK i \in OfKind(log, a, "terminal") : log[i].id = ref
    BY <1>6 DEF ApplyTransition, LegalTransition, TerminalReceipt, Pipeline
  <2>2. b.kind = "transition" /\ b.to = "terminal" /\ b.ref = ref
    BY <1>6 DEF MoveTo, Transition
  <2> HIDE DEF e, b
  <2> QED BY <1>1, <1>5, <2>1, <2>2, EarnedByReceipt
<1> HIDE DEF e
<1>7. Earnings
  BY <1>1, <1>3, <1>4, <1>5, <1>6, EarnedGrows DEF Earnings
<1>8. Requests
  <2>1. e.body.kind # "attempt_created"
    BY <1>5 DEF MoveTo, Transition
  <2> QED BY <1>1, <1>4, <1>5, <2>1, KeysKept DEF Requests, RequestsIdempotent
<1> QED BY <1>1, <1>2, <1>3, <1>4, <1>7, <1>8 DEF GoodStep, MovesAlong

\* A receipt that is not a creation and not a transition moves no attempt.
LEMMA PlainStep ==
    ASSUME IInv, NEW a \in Attempts,
           NEW b \in Bodies, b.kind \notin {"attempt_created", "transition"},
           Append_(a, <<b>>)
    PROVE  GoodStep
<1> DEFINE e == [id |-> issued + 1, attempt |-> a, body |-> b]
<1>1. /\ a \in 1..issued /\ ResolveState(log, a) \in States
      /\ issued \in Nat /\ log \in Seq(Envelopes) /\ Sound(log, issued)
  BY KnownAttempt, IInvIsSound
<1>2. /\ Sound(Append(log, e), issued + 1)
      /\ \A x : StateOf(Append(log, e), x) = StateOf(log, x)
  BY <1>1, PlainReceipt
<1>3. log' = Append(log, e) /\ issued' = issued + 1
  BY <1>1, StampOne DEF Append_
<1>4. e \in Envelopes /\ e.body.kind # "attempt_created"
  BY <1>1 DEF Envelopes
<1> HIDE DEF e
<1>5. Earnings
  BY <1>1, <1>2, <1>3, <1>4, EarnedGrows DEF Earnings
<1>6. Requests
  BY <1>1, <1>3, <1>4, KeysKept DEF Requests, RequestsIdempotent
<1> QED BY <1>2, <1>3, <1>5, <1>6 DEF GoodStep, MovesAlong

\* A receipt followed by the transition it is evidence for.
LEMMA EvidencedStep ==
    ASSUME IInv, NEW a \in Attempts,
           NEW b \in Bodies, b.kind \notin {"attempt_created", "transition"},
           NEW to \in States, NEW cause \in Causes,
           <<ResolveState(log, a), to>> \in Drawn,
           to = "terminal" => b.kind = "terminal",
           Append_(a, <<b, MoveTo(log, a, to, cause, issued + 1)>>)
    PROVE  GoodStep
<1> DEFINE c == MoveTo(log, a, to, cause, issued + 1)
           e == [id |-> issued + 1, attempt |-> a, body |-> b]
           f == [id |-> issued + 2, attempt |-> a, body |-> c]
           r == Append(log, e)
<1>1. /\ a \in 1..issued /\ ResolveState(log, a) \in States
      /\ StateOf(log, a) = ResolveState(log, a)
      /\ issued \in Nat /\ log \in Seq(Envelopes) /\ Sound(log, issued)
  BY KnownAttempt, IInvIsSound
<1>2. /\ Sound(r, issued + 1)
      /\ ResolveState(r, a) = ResolveState(log, a)
      /\ \A x : StateOf(r, x) = StateOf(log, x)
  BY <1>1, PlainReceipt
<1>3. /\ c \in Bodies
      /\ Sound(Append(r, f), issued + 2)
      /\ \A x : StateOf(Append(r, f), x) = IF x = a THEN to ELSE StateOf(r, x)
  <2> HIDE DEF r
  <2>1. a \in 1..(issued + 1) /\ (issued + 1) + 1 = issued + 2 /\ issued + 1 \in Nat
    BY <1>1
  <2>2. c = Transition(ResolveState(r, a), to, cause, issued + 1)
    BY <1>2 DEF MoveTo
  <2> HIDE DEF c
  <2> QED BY <1>1, <1>2, <2>1, <2>2, TransitionReceipt
<1>4. log' = Append(r, f) /\ issued' = issued + 2
  <2>1. log' = log \o Stamp(issued, a, <<b, c>>) /\ issued' = issued + Len(<<b, c>>)
    BY DEF Append_
  <2>2. c \in Bodies /\ a \in Nat /\ issued \in Nat /\ log \in Seq(Envelopes)
    BY <1>1, <1>3
  <2> HIDE DEF c
  <2>3. log \o Stamp(issued, a, <<b, c>>) = Append(r, f)
    BY <2>2, StampTwo, ZenonT(60)
  <2>4. Len(<<b, c>>) = 2
    OBVIOUS
  <2> HIDE DEF r, f
  <2> QED BY <2>1, <2>3, <2>4
<1>5. /\ e \in Envelopes /\ e.id = issued + 1 /\ e.attempt = a /\ e.body = b
      /\ f \in Envelopes /\ f.attempt = a /\ f.body = c
  <2>1. c \in Bodies /\ a \in Nat /\ issued + 1 \in Nat /\ issued + 2 \in Nat
    BY <1>1, <1>3
  <2> HIDE DEF c
  <2>2. e \in Envelopes /\ f \in Envelopes
    BY <2>1, EnvelopeOf
  <2> QED BY <2>2
<1>6. ASSUME to = "terminal"
      PROVE  Earned(Append(r, f), a)
  <2>1. c.kind = "transition" /\ c.to = "terminal" /\ c.ref = issued + 1
    BY <1>6 DEF MoveTo, Transition
  <2> HIDE DEF c, e, f
  <2>2. Len(log) + 1 \in OfKind(r, a, "terminal") /\ r[Len(log) + 1] = e
    <3>1. e \in Envelopes /\ e.attempt = a /\ e.body.kind = "terminal" /\ log \in Seq(Envelopes)
      BY <1>1, <1>5, <1>6
    <3> QED BY <3>1, NewestOfKind
  <2>3. r \in Seq(Envelopes)
    BY <1>1, <1>5, AppendFacts
  <2> HIDE DEF r
  <2> QED BY <1>5, <2>1, <2>2, <2>3, EarnedByReceipt
<1>7. Earnings
  <2> HIDE DEF e, f
  <2>1. r \in Seq(Envelopes)
    BY <1>1, <1>5, AppendFacts
  <2>2. \A x : Earned(log, x) => Earned(r, x)
    BY <1>1, <1>5, EarnedGrows
  <2> HIDE DEF r
  <2>3. \A x : Earned(r, x) => Earned(Append(r, f), x)
    BY <1>5, <2>1, EarnedGrows
  <2> QED BY <1>2, <1>3, <1>4, <1>6, <2>2, <2>3 DEF Earnings
<1>8. Requests
  <2>1. e.body.kind # "attempt_created" /\ f.body.kind # "attempt_created"
    BY <1>5 DEF MoveTo, Transition
  <2> HIDE DEF e, f
  <2>2. r \in Seq(Envelopes)
    BY <1>1, <1>5, AppendFacts
  <2>3. OneAttemptPerKey(log) => OneAttemptPerKey(r)
    BY <1>1, <1>5, <2>1, KeysKept
  <2> HIDE DEF r
  <2>4. OneAttemptPerKey(r) => OneAttemptPerKey(Append(r, f))
    BY <1>5, <2>1, <2>2, KeysKept
  <2> QED BY <1>4, <2>3, <2>4 DEF Requests, RequestsIdempotent
<1> HIDE DEF f, r
<1> QED BY <1>1, <1>2, <1>3, <1>4, <1>7, <1>8 DEF GoodStep, MovesAlong

\* Admitting a request (idempotency.rs admit) starts one new chain, in created,
\* and disturbs no other.
LEMMA AdmitStep ==
    ASSUME IInv, NEW t \in Tasks, NEW h \in Hashes, NEW of, Admit(t, h, of)
    PROVE  GoodStep
<1> DEFINE a == issued + 1
           g == RequestGeneration(log, t, h, of)
           b == AttemptCreated(t, h, g)
           c == FenceGeneration(1)
           e == [id |-> a + 1, attempt |-> a, body |-> b]
           f == [id |-> a + 2, attempt |-> a, body |-> c]
           r == Append(log, e)
<1>1. issued \in Nat /\ log \in Seq(Envelopes) /\ Sound(log, issued) /\ a \in Nat
  BY IInvIsSound DEF Sound
<1>2. g \in 1..(issued + 1)
  BY <1>1, GenerationTypes DEF RequestGeneration
<1>3. /\ b \in Bodies /\ b.kind = "attempt_created" /\ b.generation = g
      /\ c \in Bodies /\ c.kind = "fence_generation"
  <2>1. g \in Nat
    BY <1>2
  <2> QED BY <2>1, BodyConstructors DEF AttemptCreated, FenceGeneration
<1>4. log' = Append(r, f) /\ issued' = issued + 3
  <2>1. log' = log \o Stamp(a, a, <<b, c>>) /\ issued' = issued + 3
    BY DEF Admit
  <2> HIDE DEF a, b, c
  <2>2. log \o Stamp(a, a, <<b, c>>) = Append(r, f)
    BY <1>1, <1>3, StampTwo, ZenonT(60)
  <2> HIDE DEF r, f
  <2> QED BY <2>1, <2>2
<1>5. \A i \in DOMAIN log : log[i].attempt # a
  BY <1>1 DEF Sound
<1>6. /\ e \in Envelopes /\ e.id = issued + 2 /\ e.attempt = a /\ e.body = b
      /\ f.attempt = a /\ f.body = c
  <2>1. a \in Nat /\ a + 1 \in Nat /\ a + 1 = issued + 2
    BY <1>1
  <2> HIDE DEF a, b, c
  <2>2. e \in Envelopes
    BY <1>3, <2>1, EnvelopeOf
  <2> QED BY <2>1, <2>2
<1> HIDE DEF b, c, e, g
<1>7. Sound(r, issued + 2) /\ ResolveState(r, a) \in States
  BY <1>1, <1>2, <1>3, <1>5, <1>6, SoundAppend
<1>8. \A x : StateOf(r, x) = StateOf(log, x)
  BY <1>1, <1>3, <1>6, StateOfAppend
<1>9. Sound(Append(r, f), issued + 3) /\ \A x : StateOf(Append(r, f), x) = StateOf(r, x)
  <2>1. /\ a \in 1..(issued + 2) /\ (issued + 2) + 1 = issued + 3
        /\ a + 2 = (issued + 2) + 1
    BY <1>1
  <2> HIDE DEF r, a
  <2> QED BY <1>3, <1>7, <2>1, PlainReceipt
<1>10. Earnings
  <2>1. f \in Envelopes
    BY <1>1, <1>3 DEF Envelopes
  <2>2. r \in Seq(Envelopes)
    BY <1>7 DEF Sound
  <2>3. \A x : Earned(log, x) => Earned(r, x)
    BY <1>1, <1>6, EarnedGrows
  <2> HIDE DEF r, f
  <2>4. \A x : Earned(r, x) => Earned(Append(r, f), x)
    BY <2>1, <2>2, EarnedGrows
  <2> QED BY <1>4, <1>8, <1>9, <2>3, <2>4 DEF Earnings
<1>11. Requests
  <2>1. f \in Envelopes /\ f.body.kind # "attempt_created"
    BY <1>1, <1>3, <1>6 DEF Envelopes
  <2>2. r \in Seq(Envelopes)
    BY <1>7 DEF Sound
  <2>3. OneAttemptPerKey(log) => OneAttemptPerKey(r)
    <3>1. SUFFICES ASSUME OneAttemptPerKey(log) PROVE OneAttemptPerKey(r)
      OBVIOUS
    <3>2. e.body.task = t /\ e.body.hash = h /\ e.body.generation = g
      BY <1>3, <1>6 DEF b, AttemptCreated
    <3>3. Refusal(log, t, h, of) = "none" /\ Original(log, t, h, g) = NoAttempt
      BY DEF Admit, g
    <3>4. \A i \in Created(log) : log[i].body.task = t =>
              log[i].body.hash = h /\ log[i].body.generation # g
      <4>1. log \in Seq(Envelopes) /\ \A i \in Created(log) : log[i].attempt # NoAttempt
        BY <1>1 DEF Sound, Created, AnyOfKind, NoAttempt
      <4> QED BY <3>1, <3>3, <4>1, AdmittedKey DEF g
    <3> QED BY <1>1, <1>6, <3>1, <3>2, <3>4, KeysAdmitted
  <2> HIDE DEF r, f
  <2>4. OneAttemptPerKey(r) => OneAttemptPerKey(Append(r, f))
    BY <2>1, <2>2, KeysKept
  <2> QED BY <1>4, <2>3, <2>4 DEF Requests, RequestsIdempotent
<1> HIDE DEF r, f
<1> QED BY <1>4, <1>8, <1>9, <1>10, <1>11 DEF GoodStep, MovesAlong

\* A selection receipt (selection.rs select_and_record) moves no attempt.
LEMMA SelectStep ==
    ASSUME IInv, NEW t \in Tasks, SelectAndRecord(t)
    PROVE  GoodStep
<1> DEFINE candidates == {log[i].attempt : i \in {c \in Created(log) : log[c].body.task = t}}
           s == Select(log, t, candidates)
<1>1. candidates # {} /\ Append_(s.under, <<s.body>>)
  BY DEF SelectAndRecord
<1>2. candidates \subseteq Attempts
  BY DEF Attempts
<1>3. candidates \in SUBSET Nat
  BY <1>2, KnownAttempt
<1>4. /\ s.under \in candidates
      /\ s.body \in Bodies /\ s.body.kind = "selection"
  <2> HIDE DEF candidates
  <2> DEFINE chosen == Selectable(log, candidates)
  <2>1. chosen \subseteq candidates
    BY DEF Selectable
  <2> HIDE DEF chosen
  <2>2. CASE chosen = {}
    <3>1. s = [under |-> Earliest(candidates), body |-> Selection(t, NoAttempt, FALSE)]
      BY <2>2 DEF Select, chosen
    <3>2. Earliest(candidates) \in candidates
      BY <1>1, <1>3, EarliestIn
    <3>3. /\ Selection(t, NoAttempt, FALSE) \in Bodies
          /\ Selection(t, NoAttempt, FALSE).kind = "selection"
      BY BodyConstructors DEF Selection, NoAttempt
    <3> HIDE DEF s
    <3> QED BY <3>1, <3>2, <3>3
  <2>3. CASE chosen # {}
    <3>1. s = [under |-> Earliest(chosen), body |-> Selection(t, Earliest(chosen), TRUE)]
      BY <2>3 DEF Select, chosen
    <3>2. Earliest(chosen) \in candidates /\ Earliest(chosen) \in Nat
      BY <1>3, <2>1, <2>3, EarliestIn
    <3>3. /\ Selection(t, Earliest(chosen), TRUE) \in Bodies
          /\ Selection(t, Earliest(chosen), TRUE).kind = "selection"
      BY <3>2, BodyConstructors DEF Selection
    <3> HIDE DEF s
    <3> QED BY <3>1, <3>2, <3>3
  <2> QED BY <2>2, <2>3
<1> HIDE DEF s, candidates
<1> QED BY <1>1, <1>2, <1>4, PlainStep

\* Whatever a caller records as evidence is neither a creation nor a transition.
LEMMA EvidenceIsPlain ==
    ASSUME NEW b \in Evidence
    PROVE  b \in Bodies /\ b.kind \notin {"attempt_created", "transition"}
BY CallerAssumption DEF CallerAssumption

\* Every operation on one attempt is a good step.
LEMMA AttemptSteps ==
    ASSUME IInv, NEW a \in Attempts, AttemptStep(a)
    PROVE  GoodStep
<1>0. /\ a \in 1..issued /\ ResolveState(log, a) \in States
      /\ issued \in Nat /\ log \in Seq(Envelopes) /\ Sound(log, issued)
  BY KnownAttempt, IInvIsSound
<1>1. CASE Advance(a)
  BY <1>1, TransitionStep DEF Advance
<1>2. ASSUME NEW k \in AbortKinds, AbortToClassifying(a, k)
      PROVE  GoodStep
  <2>1. AbortCause(k) \in Bodies /\ AbortCause(k).kind = "abort_cause"
    BY CallerAssumption, BodyConstructors DEF AbortCause, CallerAssumption
  <2>2. <<ResolveState(log, a), "classifying">> \in Drawn
    BY <1>2 DEF AbortToClassifying, PreRun, Drawn
  <2>3. "classifying" \in States /\ "abort" \in Causes
    BY DEF States, Causes
  <2> QED BY <1>2, <2>1, <2>2, <2>3, EvidencedStep DEF AbortToClassifying
<1>3. CASE EnterRecovery(a)
  BY <1>3, TransitionStep DEF EnterRecovery
<1>4. CASE ResumeCommit(a)
  <2> DEFINE b == FenceGeneration(CurrentGeneration(log, a) + 1)
  <2>1. b \in Bodies /\ b.kind = "fence_generation"
    <3>1. CurrentGeneration(log, a) + 1 \in Nat
      BY <1>0, GenerationTypes
    <3> QED BY <3>1, BodyConstructors DEF FenceGeneration
  <2>2. <<ResolveState(log, a), "preparing">> \in Drawn
    BY <1>4 DEF ResumeCommit, Drawn
  <2>3. "preparing" \in States /\ "recovery_resume" \in Causes
    BY DEF States, Causes
  <2>4. Append_(a, <<b, MoveTo(log, a, "preparing", "recovery_resume", issued + 1)>>)
    BY <1>4 DEF ResumeCommit
  <2> HIDE DEF b
  <2> QED BY <2>1, <2>2, <2>3, <2>4, EvidencedStep
<1>5. CASE CloseAsUnknown(a)
  <2>1. Terminal("unknown") \in Bodies /\ Terminal("unknown").kind = "terminal"
    BY BodyConstructors DEF Terminal, Outcomes
  <2>2. <<ResolveState(log, a), "terminal">> \in Drawn
    BY <1>5 DEF CloseAsUnknown, Drawn
  <2>3. "terminal" \in States /\ "classification_complete" \in Causes
    BY DEF States, Causes
  <2> QED BY <1>5, <2>1, <2>2, <2>3, EvidencedStep DEF CloseAsUnknown
<1>6. CASE RecordClassification(a)
  <2>1. Classify(log, a) \in Outcomes
    BY <1>0, <1>6, ClassifyType DEF RecordClassification
  <2>2. /\ Terminal(Classify(log, a)) \in Bodies
        /\ Terminal(Classify(log, a)).kind = "terminal"
    BY <2>1, BodyConstructors DEF Terminal
  <2> QED BY <1>6, <2>2, PlainStep DEF RecordClassification
<1>7. CASE CompleteClassification(a)
  <2>1. Ids(log) \subseteq Nat
    BY <1>0 DEF Sound, Ids
  <2> QED BY <1>7, <2>1, TransitionStep DEF CompleteClassification
<1>8. CASE Close(a)
  BY <1>8, TransitionStep DEF Close
<1>9. ASSUME NEW g \in 1..issued, NEW recs \in CommitRecords, CommitUnder(a, g, recs)
      PROVE  GoodStep
  <2>1. Commit(g, recs) \in Bodies /\ Commit(g, recs).kind = "commit"
    <3>1. g \in Nat /\ recs \in [Required -> CommitVerdicts]
      BY <1>0, CallerAssumption DEF CallerAssumption
    <3> QED BY <3>1, BodyConstructors DEF Commit
  <2> QED BY <1>9, <2>1, PlainStep DEF CommitUnder
<1>10. ASSUME NEW b \in Evidence, RecordEvidence(a, b)
       PROVE  GoodStep
  BY <1>10, EvidenceIsPlain, PlainStep DEF RecordEvidence
<1>11. CASE AbortOn(a) \/ ResumeUnder(a)
  <2>1. Ids(log) \subseteq Nat
    BY <1>0 DEF Sound, Ids
  <2> QED BY <1>11, <2>1, TransitionStep DEF AbortOn, ResumeUnder
<1>12. CASE IssueNextGeneration(a)
  <2> DEFINE b == FenceGeneration(CurrentGeneration(log, a) + 1)
  <2>1. b \in Bodies /\ b.kind = "fence_generation"
    <3>1. CurrentGeneration(log, a) + 1 \in Nat
      BY <1>0, GenerationTypes
    <3> QED BY <3>1, BodyConstructors DEF FenceGeneration
  <2>2. Append_(a, <<b>>)
    BY <1>12 DEF IssueNextGeneration
  <2> HIDE DEF b
  <2> QED BY <2>1, <2>2, PlainStep
<1>13. CASE RecordUnknown(a)
  <2>1. Terminal("unknown") \in Bodies /\ Terminal("unknown").kind = "terminal"
    BY BodyConstructors DEF Terminal, Outcomes
  <2> QED BY <1>13, <2>1, PlainStep DEF RecordUnknown
<1> QED BY <1>1, <1>2, <1>3, <1>4, <1>5, <1>6, <1>7, <1>8, <1>9, <1>10,
           <1>11, <1>12, <1>13 DEF AttemptStep

\* Every step of the specification is a good step.
LEMMA Steps ==
    ASSUME IInv, [Next]_vars
    PROVE  GoodStep
<1>1. ASSUME NEW t \in Tasks, NEW h \in Hashes,
             NEW of \in Attempts \union {NoAttempt}, Admit(t, h, of)
      PROVE  GoodStep
  BY <1>1, AdmitStep
<1>2. ASSUME NEW a \in Attempts, AttemptStep(a)
      PROVE  GoodStep
  BY <1>2, AttemptSteps
<1>3. ASSUME NEW t \in Tasks, SelectAndRecord(t)
      PROVE  GoodStep
  BY <1>3, SelectStep
<1>4. CASE UNCHANGED vars
  BY <1>4, IInvIsSound DEF vars, GoodStep, MovesAlong, Earnings, Requests, RequestsIdempotent
<1> QED BY <1>1, <1>2, <1>3, <1>4 DEF Next

\* The empty log is sound.
LEMMA InitIInv == Init => IInv
BY DEF Init, IInv, TypeOK, ChainIntact

\* No operation of rein-core makes a log unsound.
LEMMA StepIInv == IInv /\ [Next]_vars => IInv'
<1> SUFFICES ASSUME IInv, [Next]_vars PROVE IInv'
  OBVIOUS
<1>1. Sound(log', issued')
  BY Steps DEF GoodStep
<1> QED BY <1>1 DEF IInv, TypeOK, ChainIntact, Sound

\* The inductive invariant: at every moment the log holds minted ids only, and
\* every attempt that has a receipt has one birth and an unbroken chain.
THEOREM Inductive == Spec => []IInv
BY InitIInv, StepIInv, PTL DEF Spec

\* The receipt log has the type receipts.rs gives it, with ids and attempts that
\* the id generator has issued.
THEOREM TypeCorrect == Spec => []TypeOK
<1>1. IInv => TypeOK
  BY DEF IInv
<1> QED BY <1>1, Inductive, PTL

\* resolve_state (state.rs 239-275) never answers an anomaly for an attempt of a
\* log written by these operations alone.
THEOREM ChainsResolve == Spec => []ChainIntact
<1>1. IInv => ChainIntact
  BY DEF IInv
<1> QED BY <1>1, Inductive, PTL

\* Good steps move the attempts of the log along the diagram.
LEMMA StepMoves ==
    IInv /\ [Next]_vars =>
        [\A a \in Attempts :
            \/ StateOf(log', a) = StateOf(log, a)
            \/ <<StateOf(log, a), StateOf(log', a)>> \in Drawn]_vars
<1> SUFFICES ASSUME IInv, [Next]_vars
             PROVE  \A a \in Attempts :
                        \/ StateOf(log', a) = StateOf(log, a)
                        \/ <<StateOf(log, a), StateOf(log', a)>> \in Drawn
  OBVIOUS
<1> QED BY Steps DEF GoodStep, MovesAlong

\* An attempt never moves along an edge that the diagram of state.rs 3-8 does not
\* draw, whatever the interleaving of operations on other attempts.
THEOREM EdgesDrawn == Spec => OnlyDrawnEdges
BY Inductive, StepMoves, PTL DEF Spec, OnlyDrawnEdges

\* Only attempts with a creation receipt are anywhere but in created.
LEMMA MovedIsKnown ==
    ASSUME IInv, NEW x, StateOf(log, x) # "created"
    PROVE  x \in Attempts
<1>1. log \in Seq(Envelopes)
  BY DEF IInv, TypeOK
<1>2. PICK m \in Moves(log, x) : TRUE
  BY DEF StateOf
<1>3. m \in DOMAIN log /\ log[m].attempt = x
  BY DEF Moves, OfKind
<1>4. PICK i \in Births(log, x) : TRUE
  BY <1>3, ResolvedAttempt DEF IInv, ChainIntact
<1> QED BY <1>4 DEF Births, OfKind, Attempts, Created, AnyOfKind

\* No operation leaves an attempt terminal without the receipt that says why.
LEMMA StepVerdictInv == VerdictInv /\ [Next]_vars => VerdictInv'
<1> SUFFICES ASSUME VerdictInv, [Next]_vars PROVE VerdictInv'
  OBVIOUS
<1>1. IInv /\ IInv' /\ GoodStep
  BY StepIInv, Steps DEF VerdictInv
<1>2. ASSUME NEW x, StateOf(log', x) \in {"terminal", "closed"}
      PROVE  Earned(log', x)
  <2>1. CASE StateOf(log, x) \in {"terminal", "closed"}
    <3>1. x \in Attempts
      BY <1>1, <2>1, MovedIsKnown
    <3> QED BY <1>1, <2>1, <3>1 DEF VerdictInv, TerminalEarned, GoodStep, Earnings
  <2>2. CASE StateOf(log, x) \notin {"terminal", "closed"}
    <3>1. <<StateOf(log, x), StateOf(log', x)>> \in Drawn
      BY <1>1, <1>2, <2>2 DEF GoodStep, MovesAlong
    <3>2. StateOf(log', x) = "terminal"
      BY <1>2, <2>2, <3>1 DEF Drawn
    <3> QED BY <1>1, <2>2, <3>2 DEF GoodStep, Earnings
  <2> QED BY <2>1, <2>2
<1>3. TerminalEarned'
  BY <1>2 DEF TerminalEarned
<1> QED BY <1>1, <1>3 DEF VerdictInv

\* An attempt that is terminal or closed holds a transition into terminal that
\* names an earlier terminal receipt of that same attempt: no verdict is reached
\* on the evidence of another attempt (state.rs 217-235).
THEOREM VerdictsEarned == Spec => []TerminalEarned
<1>1. Init => VerdictInv
  <2>1. Init => Attempts = {}
    BY DEF Init, Attempts, Created, AnyOfKind
  <2> QED BY <2>1, InitIInv DEF VerdictInv, TerminalEarned
<1>2. VerdictInv => TerminalEarned
  BY DEF VerdictInv
<1> QED BY <1>1, <1>2, StepVerdictInv, PTL DEF Spec

\* Idempotency, whatever else is done to the log between two requests: one
\* attempt per request key and one semantic hash per task (idempotency.rs 118-220).
THEOREM OneAttemptEach == Spec => []RequestsIdempotent
<1>1. Init => IInv /\ RequestsIdempotent
  BY InitIInv DEF Init, RequestsIdempotent, OneAttemptPerKey, Created, AnyOfKind
<1>2. IInv /\ RequestsIdempotent /\ [Next]_vars => (IInv /\ RequestsIdempotent)'
  BY StepIInv, Steps DEF GoodStep, Requests
<1> QED BY <1>1, <1>2, PTL DEF Spec

-----------------------------------------------------------------------------
(***************************************************************************)
(* The evidence behind verdicts and commits.  The rules speak of what is   *)
(* before a receipt, so an appended one can break them only itself:        *)
(* Follows says what a receipt has to respect, RulesAppend that it then    *)
(* keeps the rules, and every action appends one receipt or two.           *)
(***************************************************************************)

Rules(l, x) == NoForcedSuccess(l, x) /\ AbortDecides(l, x) /\ NoStaleCommit(l, x)

AllRules(l) == \A x : Rules(l, x)

\* The inductive invariant behind the rules of evidence.
RulesInv == IInv /\ AllRules(log)

\* A verdict against the abort on record, a way out of recovery that nothing
\* allows, a fence that is not above the others and a commit below one.
AgainstAbort(l, e) ==
    LET causes == OfKind(l, e.attempt, "abort_cause")
    IN  /\ e.body.kind = "terminal" /\ causes # {}
        /\ e.body.outcome \notin
              {"unknown", AbortOutcome(l[Earliest(causes)].body.abort)}

Forced(l, e) ==
    /\ e.body.kind = "transition"
    /\ e.body.from = "recovery_pending" /\ e.body.to = "terminal"
    /\ ~\E i \in OfKind(l, e.attempt, "terminal") :
           /\ e.body.ref = l[i].id
           /\ \/ l[i].body.outcome = "unknown"
              \/ OfKind(l, e.attempt, "exception") # {}

Overtaken(l, e) ==
    \E f \in Fences(l, e.attempt) :
        \/ e.body.kind = "fence_generation" /\ ~(l[f].body.generation < e.body.generation)
        \/ e.body.kind = "commit" /\ ~(l[f].body.generation <= e.body.generation)

Follows(l, e) == ~AgainstAbort(l, e) /\ ~Forced(l, e) /\ ~Overtaken(l, e)

\* A receipt of one attempt and kind in the longer log is an old one, unchanged,
\* or the appended one at the end.
LEMMA OldOrNew ==
    ASSUME NEW l \in Seq(Envelopes), NEW e \in Envelopes, NEW x, NEW k,
           NEW i \in OfKind(Append(l, e), x, k)
    PROVE  \/ i \in OfKind(l, x, k) /\ i \in 1..Len(l) /\ Append(l, e)[i] = l[i]
           \/ /\ i = Len(l) + 1 /\ Append(l, e)[i] = e
              /\ e.attempt = x /\ e.body.kind = k
<1> DEFINE r == Append(l, e)
<1>1. /\ DOMAIN l = 1..Len(l) /\ DOMAIN r = 1..(Len(l) + 1) /\ Len(l) \in Nat
      /\ \A j \in DOMAIN l : r[j] = l[j]
      /\ r[Len(l) + 1] = e
  BY AppendFacts
<1>2. i \in DOMAIN r /\ r[i].attempt = x /\ r[i].body.kind = k
  BY DEF OfKind
<1> HIDE DEF r
<1>3. i \in 1..Len(l) \/ i = Len(l) + 1
  BY <1>1, <1>2
<1>4. i \in 1..Len(l) => i \in OfKind(l, x, k) /\ r[i] = l[i]
  BY <1>1, <1>2 DEF OfKind
<1>5. i = Len(l) + 1 => r[i] = e /\ e.attempt = x /\ e.body.kind = k
  BY <1>1, <1>2
<1>6. \/ i \in OfKind(l, x, k) /\ i \in 1..Len(l) /\ r[i] = l[i]
      \/ i = Len(l) + 1 /\ r[i] = e /\ e.attempt = x /\ e.body.kind = k
  BY <1>3, <1>4, <1>5
<1> QED BY <1>6 DEF r

\* The first abort cause of an attempt stays its first.
LEMMA FirstStays ==
    ASSUME NEW l \in Seq(Envelopes), NEW e \in Envelopes, NEW x, NEW k,
           OfKind(l, x, k) # {}
    PROVE  /\ Earliest(OfKind(Append(l, e), x, k)) = Earliest(OfKind(l, x, k))
           /\ Earliest(OfKind(l, x, k)) \in OfKind(l, x, k)
<1> DEFINE S == OfKind(l, x, k)
           T == OfKind(Append(l, e), x, k)
<1>1. /\ S \subseteq 1..Len(l) /\ Len(l) \in Nat
      /\ T = S \/ T = S \union {Len(l) + 1}
  BY OfKindAppend, AppendFacts
<1> HIDE DEF S, T
<1>2. S \in SUBSET Nat /\ S # {}
  BY <1>1 DEF S
<1>3. T \in SUBSET Nat /\ T # {}
  <2>1. Len(l) + 1 \in Nat
    BY <1>1
  <2> QED BY <1>1, <1>2, <2>1
<1>4. Earliest(S) \in S /\ \A j \in S : Earliest(S) <= j
  BY <1>2, EarliestIn
<1>5. Earliest(T) \in T /\ \A j \in T : Earliest(T) <= j
  BY <1>3, EarliestIn
<1>6. Earliest(T) = Earliest(S)
  <2>1. Earliest(S) \in T /\ Earliest(S) \in 1..Len(l)
    BY <1>1, <1>4
  <2>2. Earliest(T) <= Earliest(S) /\ Earliest(T) # Len(l) + 1
    BY <1>1, <1>3, <1>5, <2>1
  <2>3. Earliest(T) \in S
    BY <1>1, <1>5, <2>2
  <2>4. Earliest(S) <= Earliest(T) /\ Earliest(T) \in Nat
    BY <1>2, <1>4, <2>3
  <2> QED BY <2>1, <2>2, <2>4
<1>7. Earliest(S) \in S
  BY <1>4
<1> QED BY <1>6, <1>7, Zenon DEF S, T

\* No force-success, after one more receipt.
LEMMA ForcedAppend ==
    ASSUME NEW l \in Seq(Envelopes), NEW e \in Envelopes, NEW x,
           NoForcedSuccess(l, x), ~Forced(l, e)
    PROVE  NoForcedSuccess(Append(l, e), x)
<1> DEFINE r == Append(l, e)
<1>1. SUFFICES ASSUME NEW m \in OfKind(r, x, "transition"),
                      r[m].body.from = "recovery_pending", r[m].body.to = "terminal"
               PROVE  \E i \in OfKind(r, x, "terminal") :
                          /\ i < m /\ r[m].body.ref = r[i].id
                          /\ \/ r[i].body.outcome = "unknown"
                             \/ \E y \in OfKind(r, x, "exception") : y < m
  BY DEF NoForcedSuccess, Moves
<1>2. /\ OfKind(l, x, "terminal") \subseteq OfKind(r, x, "terminal")
      /\ OfKind(l, x, "exception") \subseteq OfKind(r, x, "exception")
  BY OfKindGrows
<1>3. Len(l) \in Nat /\ \A i \in 1..Len(l) : r[i] = l[i]
  BY AppendFacts
<1>4. /\ OfKind(l, x, "terminal") \subseteq 1..Len(l)
      /\ OfKind(l, x, "exception") \subseteq 1..Len(l)
  BY OfKindAppend
<1>5. CASE m \in OfKind(l, x, "transition") /\ r[m] = l[m]
  <2>1. PICK i \in OfKind(l, x, "terminal") :
            /\ i < m /\ l[m].body.ref = l[i].id
            /\ \/ l[i].body.outcome = "unknown"
               \/ \E y \in OfKind(l, x, "exception") : y < m
    BY <1>1, <1>5 DEF NoForcedSuccess, Moves
  <2>2. i \in OfKind(r, x, "terminal") /\ r[i] = l[i]
    BY <1>2, <1>3, <1>4
  <2> HIDE DEF r
  <2> QED BY <1>2, <1>5, <2>1, <2>2
<1>6. CASE /\ m = Len(l) + 1 /\ r[m] = e
           /\ e.attempt = x /\ e.body.kind = "transition"
  <2>1. PICK i \in OfKind(l, x, "terminal") :
            /\ e.body.ref = l[i].id
            /\ \/ l[i].body.outcome = "unknown"
               \/ OfKind(l, x, "exception") # {}
    BY <1>1, <1>6 DEF Forced
  <2>2. i \in OfKind(r, x, "terminal") /\ r[i] = l[i] /\ i < m
    BY <1>2, <1>3, <1>4, <1>6
  <2>3. \A y \in OfKind(l, x, "exception") : y < m
    BY <1>3, <1>4, <1>6
  <2> HIDE DEF r
  <2> QED BY <1>2, <1>6, <2>1, <2>2, <2>3
<1> QED BY <1>5, <1>6, OldOrNew

\* An abort goes on deciding, after one more receipt.
LEMMA AbortAppend ==
    ASSUME NEW l \in Seq(Envelopes), NEW e \in Envelopes, NEW x,
           AbortDecides(l, x), ~AgainstAbort(l, e)
    PROVE  AbortDecides(Append(l, e), x)
<1> DEFINE r == Append(l, e)
           C(s) == OfKind(s, x, "abort_cause")
           Says(s) == AbortOutcome(s[Earliest(C(s))].body.abort)
<1>1. SUFFICES ASSUME NEW k \in C(r), NEW i \in OfKind(r, x, "terminal"), k < i
               PROVE  r[i].body.outcome \in {"unknown", Says(r)}
  BY DEF AbortDecides
<1>2. Len(l) \in Nat /\ \A j \in 1..Len(l) : r[j] = l[j]
  BY AppendFacts
<1>3. /\ C(l) \subseteq 1..Len(l) /\ OfKind(l, x, "terminal") \subseteq 1..Len(l)
  BY OfKindAppend
<1>4. C(l) # {} => Says(r) = Says(l)
  <2>1. SUFFICES ASSUME C(l) # {} PROVE Says(r) = Says(l)
    OBVIOUS
  <2>2. Earliest(C(r)) = Earliest(C(l)) /\ Earliest(C(l)) \in C(l)
    BY <2>1, FirstStays
  <2>3. r[Earliest(C(r))] = l[Earliest(C(l))]
    BY <1>2, <1>3, <2>2
  <2> QED BY <2>3
<1>5. k \in C(l) \/ k = Len(l) + 1
  BY <1>1, OldOrNew
<1>6. CASE i \in OfKind(l, x, "terminal") /\ i \in 1..Len(l) /\ r[i] = l[i]
  <2>1. k \in C(l)
    BY <1>5, <1>1, <1>2, <1>6
  <2>2. l[i].body.outcome \in {"unknown", Says(l)}
    BY <1>1, <1>6, <2>1 DEF AbortDecides
  <2> QED BY <1>4, <1>6, <2>1, <2>2
<1>7. CASE i = Len(l) + 1 /\ r[i] = e /\ e.attempt = x /\ e.body.kind = "terminal"
  <2>1. k \in C(l)
    BY <1>5, <1>1, <1>2, <1>7
  <2>2. e.body.outcome \in {"unknown", Says(l)}
    BY <1>7, <2>1 DEF AgainstAbort
  <2> QED BY <1>4, <1>7, <2>1, <2>2
<1>8. \/ i \in OfKind(l, x, "terminal") /\ i \in 1..Len(l) /\ r[i] = l[i]
      \/ i = Len(l) + 1 /\ r[i] = e /\ e.attempt = x /\ e.body.kind = "terminal"
  BY OldOrNew
<1> QED BY <1>6, <1>7, <1>8

\* Generations go on rising and no commit is behind them, after one more receipt.
LEMMA StaleAppend ==
    ASSUME NEW l \in Seq(Envelopes), NEW e \in Envelopes, NEW x,
           NoStaleCommit(l, x), ~Overtaken(l, e)
    PROVE  NoStaleCommit(Append(l, e), x)
<1> DEFINE r == Append(l, e)
<1>1. Len(l) \in Nat
  BY AppendFacts
<1>2. ASSUME NEW f \in Fences(r, x), NEW k, NEW i \in OfKind(r, x, k), f < i
      PROVE  /\ f \in Fences(l, x) /\ r[f] = l[f]
             /\ \/ i \in OfKind(l, x, k) /\ r[i] = l[i]
                \/ r[i] = e /\ e.attempt = x /\ e.body.kind = k
  <2>1. \/ i \in OfKind(l, x, k) /\ i \in 1..Len(l) /\ r[i] = l[i]
        \/ i = Len(l) + 1 /\ r[i] = e /\ e.attempt = x /\ e.body.kind = k
    BY OldOrNew
  <2>2. \/ f \in Fences(l, x) /\ f \in 1..Len(l) /\ r[f] = l[f]
        \/ f = Len(l) + 1
    BY OldOrNew DEF Fences
  <2> HIDE DEF r
  <2>3. f # Len(l) + 1
    BY <1>1, <1>2, <2>1
  <2> QED BY <2>1, <2>2, <2>3
<1> HIDE DEF r
<1>3. ASSUME NEW c \in OfKind(r, x, "commit"), NEW f \in Fences(r, x), f < c
      PROVE  r[f].body.generation <= r[c].body.generation
  BY <1>2, <1>3 DEF NoStaleCommit, Overtaken
<1>4. ASSUME NEW f \in Fences(r, x), NEW g \in Fences(r, x), f < g
      PROVE  r[f].body.generation < r[g].body.generation
  BY <1>2, <1>4 DEF NoStaleCommit, Overtaken, Fences
<1>5. NoStaleCommit(r, x)
  BY <1>3, <1>4 DEF NoStaleCommit
<1> QED BY <1>5 DEF r

\* A receipt that respects what is on record keeps the rules.
LEMMA RulesAppend ==
    ASSUME NEW l \in Seq(Envelopes), NEW e \in Envelopes, AllRules(l), Follows(l, e)
    PROVE  Append(l, e) \in Seq(Envelopes) /\ AllRules(Append(l, e))
BY ForcedAppend, AbortAppend, StaleAppend, AppendFacts DEF AllRules, Rules, Follows

\* Most receipts have nothing to respect.
LEMMA PlainFollows ==
    ASSUME NEW l, NEW e,
           \/ e.body.kind \notin {"transition", "terminal", "fence_generation", "commit"}
           \/ e.body.kind = "transition" /\ e.body.to # "terminal"
           \/ e.body.kind = "terminal" /\ e.body.outcome = "unknown"
    PROVE  Follows(l, e)
BY DEF Follows, AgainstAbort, Forced, Overtaken

\* CurrentGeneration, the last fence receipt's, is the greatest of all.
LEMMA CurrentIsGreatest ==
    ASSUME NEW l \in Seq(Envelopes), NEW x, NoStaleCommit(l, x), NEW f \in Fences(l, x)
    PROVE  l[f].body.generation \in Nat /\ l[f].body.generation <= CurrentGeneration(l, x)
<1>1. Len(l) \in Nat /\ Fences(l, x) \in SUBSET (1..Len(l))
  BY OfKindMember, LenProperties DEF Fences
<1>2. Latest(Fences(l, x)) \in Fences(l, x) /\ f <= Latest(Fences(l, x))
  BY <1>1, LatestIn
<1>3. PICK g \in Fences(l, x) : g = Latest(Fences(l, x))
  BY <1>2
<1>4. /\ l[f].body \in Bodies /\ l[f].body.kind = "fence_generation"
      /\ l[g].body \in Bodies /\ l[g].body.kind = "fence_generation"
  BY OfKindMember DEF Fences
<1>5. l[f].body.generation \in Nat /\ l[g].body.generation \in Nat
  BY <1>4, BodyShape
<1>6. f = g \/ f < g
  BY <1>1, <1>2, <1>3
<1>7. CurrentGeneration(l, x) = l[g].body.generation
  BY <1>3 DEF CurrentGeneration
<1> QED BY <1>5, <1>6, <1>7 DEF NoStaleCommit

\* The next generation is above them, and a commit under the current one is not
\* behind them.
LEMMA GenerationFollows ==
    ASSUME NEW l \in Seq(Envelopes), NEW e, NoStaleCommit(l, e.attempt),
           CurrentGeneration(l, e.attempt) \in Nat,
           \/ /\ e.body.kind = "fence_generation"
              /\ e.body.generation = CurrentGeneration(l, e.attempt) + 1
           \/ /\ e.body.kind = "commit"
              /\ e.body.generation = CurrentGeneration(l, e.attempt)
    PROVE  Follows(l, e)
<1>1. \A f \in Fences(l, e.attempt) :
         /\ l[f].body.generation \in Nat
         /\ l[f].body.generation <= CurrentGeneration(l, e.attempt)
  BY CurrentIsGreatest
<1> QED BY <1>1 DEF Follows, AgainstAbort, Forced, Overtaken

-----------------------------------------------------------------------------
\* What a step must do to the log, as one receipt or two.
Keeps == AllRules(log')

\* One receipt that follows the log.
LEMMA OneKeeps ==
    ASSUME RulesInv, NEW a \in Nat, NEW b \in Bodies, Append_(a, <<b>>),
           \A e \in Envelopes : e.attempt = a /\ e.body = b => Follows(log, e)
    PROVE  Keeps
<1> DEFINE e == [id |-> issued + 1, attempt |-> a, body |-> b]
<1>1. issued \in Nat /\ log \in Seq(Envelopes)
  BY DEF RulesInv, IInv, TypeOK
<1>2. e \in Envelopes /\ e.attempt = a /\ e.body = b
  BY <1>1 DEF Envelopes
<1>3. log' = Append(log, e)
  BY <1>1, StampOne DEF Append_
<1> HIDE DEF e
<1> QED BY <1>1, <1>2, <1>3, RulesAppend DEF Keeps, RulesInv

\* apply_transition: out of recovery it names what its guard looked up.
LEMMA TransitionKeeps ==
    ASSUME RulesInv, NEW a \in Attempts, NEW to, NEW cause, NEW ref \in Nat,
           ApplyTransition(a, to, cause, ref)
    PROVE  Keeps
<1> DEFINE b == MoveTo(log, a, to, cause, ref)
<1>1. /\ ResolveState(log, a) \in States /\ issued \in Nat /\ a \in 1..issued
  BY KnownAttempt DEF RulesInv
<1>2. to \in States /\ cause \in Causes
  BY LegalEdge DEF ApplyTransition
<1>3. /\ b \in Bodies /\ b.kind = "transition" /\ b.from = ResolveState(log, a)
      /\ b.to = to /\ b.ref = ref
  BY <1>1, <1>2, TransitionBody DEF MoveTo, Transition
<1>4. Append_(a, <<b>>)
  BY DEF ApplyTransition
<1>5. ASSUME ResolveState(log, a) = "recovery_pending", to = "terminal"
      PROVE  \E i \in OfKind(log, a, "terminal") :
                /\ ref = log[i].id
                /\ \/ log[i].body.outcome = "unknown"
                   \/ OfKind(log, a, "exception") # {}
  BY <1>5 DEF ApplyTransition, LegalTransition, Pipeline, PreRun, TerminalReceipt
<1> HIDE DEF b
<1>6. ASSUME NEW e \in Envelopes, e.attempt = a, e.body = b
      PROVE  Follows(log, e)
  BY <1>3, <1>5, <1>6 DEF Follows, AgainstAbort, Forced, Overtaken
<1>7. a \in Nat
  BY <1>1
<1> QED BY <1>3, <1>4, <1>6, <1>7, OneKeeps

\* A receipt and the transition it is evidence for, as the log holds them.
LEMMA TwoAppended ==
    ASSUME IInv, NEW a \in Attempts, NEW b \in Bodies,
           NEW to \in States, NEW cause \in Causes,
           Append_(a, <<b, MoveTo(log, a, to, cause, issued + 1)>>)
    PROVE  \E e, f \in Envelopes :
              /\ log' = Append(Append(log, e), f)
              /\ e.id = issued + 1 /\ e.attempt = a /\ e.body = b
              /\ f.attempt = a /\ f.body.kind = "transition"
              /\ f.body.to = to /\ f.body.ref = issued + 1
<1> DEFINE c == MoveTo(log, a, to, cause, issued + 1)
           e == [id |-> issued + 1, attempt |-> a, body |-> b]
           f == [id |-> issued + 2, attempt |-> a, body |-> c]
<1>1. /\ ResolveState(log, a) \in States
      /\ issued \in Nat /\ log \in Seq(Envelopes) /\ a \in 1..issued
  BY KnownAttempt
<1>2. c \in Bodies /\ c.kind = "transition" /\ c.to = to /\ c.ref = issued + 1
  BY <1>1, TransitionBody DEF MoveTo, Transition
<1>3. log' = Append(Append(log, e), f)
  <2>1. log' = log \o Stamp(issued, a, <<b, c>>)
    BY DEF Append_
  <2>2. a \in Nat /\ c \in Bodies
    BY <1>1, <1>2
  <2> HIDE DEF c
  <2>3. log \o Stamp(issued, a, <<b, c>>) = Append(Append(log, e), f)
    BY <1>1, <2>2, StampTwo, ZenonT(60)
  <2> QED BY <2>1, <2>3
<1> HIDE DEF c
<1>4. /\ e \in Envelopes /\ e.id = issued + 1 /\ e.attempt = a /\ e.body = b
      /\ f \in Envelopes /\ f.attempt = a /\ f.body = c
  BY <1>1, <1>2 DEF Envelopes
<1> HIDE DEF e, f
<1> QED BY <1>2, <1>3, <1>4

\* abort_to_classifying (state.rs): the cause is on record before the move.
LEMMA AbortKeeps ==
    ASSUME RulesInv, NEW a \in Attempts, NEW k \in AbortKinds, AbortToClassifying(a, k)
    PROVE  Keeps
<1>1. AbortCause(k) \in Bodies /\ AbortCause(k).kind = "abort_cause"
  BY CallerAssumption, BodyConstructors DEF AbortCause, CallerAssumption
<1>2. "classifying" \in States /\ "abort" \in Causes
  BY DEF States, Causes
<1>3. PICK e \in Envelopes, f \in Envelopes :
              /\ log' = Append(Append(log, e), f)
              /\ e.body = AbortCause(k)
              /\ f.body.kind = "transition" /\ f.body.to = "classifying"
  BY <1>1, <1>2, TwoAppended DEF RulesInv, AbortToClassifying
<1>4. log \in Seq(Envelopes)
  BY DEF RulesInv, IInv, TypeOK
<1>5. Append(log, e) \in Seq(Envelopes) /\ AllRules(Append(log, e))
  BY <1>1, <1>3, <1>4, PlainFollows, RulesAppend DEF RulesInv
<1>6. AllRules(Append(Append(log, e), f))
  BY <1>3, <1>5, PlainFollows, RulesAppend
<1> QED BY <1>3, <1>6 DEF Keeps

\* issue_next_generation (fence.rs) and resume_commit_new_generation
\* (recovery.rs): a fence above all before it.
LEMMA IssueKeeps ==
    ASSUME RulesInv, NEW a \in Attempts, IssueNextGeneration(a)
    PROVE  Keeps
<1> DEFINE b == FenceGeneration(CurrentGeneration(log, a) + 1)
<1>1. a \in Nat /\ log \in Seq(Envelopes) /\ CurrentGeneration(log, a) \in Nat
  <2>1. /\ Sound(log, issued) /\ a \in 1..issued /\ issued \in Nat
        /\ log \in Seq(Envelopes)
    BY KnownAttempt, IInvIsSound DEF RulesInv
  <2> QED BY <2>1, GenerationTypes
<1>2. /\ b \in Bodies /\ b.kind = "fence_generation"
      /\ b.generation = CurrentGeneration(log, a) + 1
  <2>1. CurrentGeneration(log, a) + 1 \in Nat
    BY <1>1
  <2> QED BY <2>1, BodyConstructors DEF FenceGeneration
<1>3. Append_(a, <<b>>)
  BY DEF IssueNextGeneration
<1> HIDE DEF b
<1>4. NoStaleCommit(log, a)
  BY DEF RulesInv, AllRules, Rules
<1> QED BY <1>1, <1>2, <1>3, <1>4, GenerationFollows, OneKeeps

LEMMA ResumeKeeps ==
    ASSUME RulesInv, NEW a \in Attempts, ResumeCommit(a)
    PROVE  Keeps
<1> DEFINE b == FenceGeneration(CurrentGeneration(log, a) + 1)
<1>1. log \in Seq(Envelopes) /\ CurrentGeneration(log, a) \in Nat
  <2>1. Sound(log, issued) /\ log \in Seq(Envelopes)
    BY KnownAttempt, IInvIsSound DEF RulesInv
  <2> QED BY <2>1, GenerationTypes
<1>2. /\ b \in Bodies /\ b.kind = "fence_generation"
      /\ b.generation = CurrentGeneration(log, a) + 1
  <2>1. CurrentGeneration(log, a) + 1 \in Nat
    BY <1>1
  <2> QED BY <2>1, BodyConstructors DEF FenceGeneration
<1>3. "preparing" \in States /\ "recovery_resume" \in Causes
  BY DEF States, Causes
<1>4. Append_(a, <<b, MoveTo(log, a, "preparing", "recovery_resume", issued + 1)>>)
  BY DEF ResumeCommit
<1> HIDE DEF b
<1>5. PICK e \in Envelopes, f \in Envelopes :
              /\ log' = Append(Append(log, e), f)
              /\ e.attempt = a /\ e.body = b
              /\ f.body.kind = "transition" /\ f.body.to = "preparing"
  BY <1>2, <1>3, <1>4, TwoAppended DEF RulesInv
<1>6. NoStaleCommit(log, a)
  BY DEF RulesInv, AllRules, Rules
<1>7. Follows(log, e)
  BY <1>1, <1>2, <1>5, <1>6, GenerationFollows
<1>8. Append(log, e) \in Seq(Envelopes) /\ AllRules(Append(log, e))
  BY <1>1, <1>7, RulesAppend DEF RulesInv
<1>9. AllRules(Append(Append(log, e), f))
  BY <1>5, <1>8, PlainFollows, RulesAppend
<1> QED BY <1>5, <1>9 DEF Keeps

\* close_attempt_as_unknown (recovery.rs): the move names the unknown before it.
LEMMA CloseKeeps ==
    ASSUME RulesInv, NEW a \in Attempts, CloseAsUnknown(a)
    PROVE  Keeps
<1>1. /\ Terminal("unknown") \in Bodies /\ Terminal("unknown").kind = "terminal"
      /\ Terminal("unknown").outcome = "unknown"
  BY BodyConstructors DEF Terminal, Outcomes
<1>2. "terminal" \in States /\ "classification_complete" \in Causes
  BY DEF States, Causes
<1>3. PICK e \in Envelopes, f \in Envelopes :
              /\ log' = Append(Append(log, e), f)
              /\ e.id = issued + 1 /\ e.attempt = a /\ e.body = Terminal("unknown")
              /\ f.attempt = a /\ f.body.kind = "transition"
              /\ f.body.to = "terminal" /\ f.body.ref = issued + 1
  BY <1>1, <1>2, TwoAppended DEF RulesInv, CloseAsUnknown
<1>4. log \in Seq(Envelopes)
  BY DEF RulesInv, IInv, TypeOK
<1>5. Append(log, e) \in Seq(Envelopes) /\ AllRules(Append(log, e))
  BY <1>1, <1>3, <1>4, PlainFollows, RulesAppend DEF RulesInv
<1> DEFINE r == Append(log, e)
<1>6. Len(log) + 1 \in OfKind(r, a, "terminal") /\ r[Len(log) + 1] = e
  BY <1>1, <1>3, <1>4, NewestOfKind
<1> HIDE DEF r
<1>7. Follows(r, f)
  BY <1>1, <1>3, <1>6 DEF Follows, AgainstAbort, Forced, Overtaken
<1>8. AllRules(Append(r, f))
  BY <1>5, <1>7, RulesAppend DEF r
<1> QED BY <1>3, <1>8 DEF Keeps, r

\* A verdict of classify or of close_as_unknown, recorded in whatever state: an
\* abort on record decides it (classify.rs 101).
LEMMA VerdictKeeps ==
    ASSUME RulesInv, NEW a \in Attempts, RecordClassification(a) \/ RecordUnknown(a)
    PROVE  Keeps
<1>1. a \in Nat /\ log \in Seq(Envelopes)
  BY KnownAttempt DEF RulesInv
<1>2. PICK o \in Outcomes :
          /\ Append_(a, <<Terminal(o)>>)
          /\ \/ o = "unknown"
             \/ OfKind(log, a, "abort_cause") = {}
             \/ o = AbortOutcome(log[Earliest(OfKind(log, a, "abort_cause"))].body.abort)
  <2>1. CASE RecordClassification(a)
    <3>1. Classify(log, a) \in Outcomes
      BY <1>1, <2>1, ClassifyType DEF RecordClassification
    <3>2. \/ OfKind(log, a, "abort_cause") = {}
          \/ Classify(log, a) =
                AbortOutcome(log[Earliest(OfKind(log, a, "abort_cause"))].body.abort)
      BY DEF Classify
    <3> QED BY <2>1, <3>1, <3>2 DEF RecordClassification
  <2>2. CASE RecordUnknown(a)
    BY <2>2 DEF RecordUnknown, Outcomes
  <2> QED BY <2>1, <2>2
<1>3. /\ Terminal(o) \in Bodies /\ Terminal(o).kind = "terminal"
      /\ Terminal(o).outcome = o
  BY BodyConstructors DEF Terminal
<1>4. ASSUME NEW e \in Envelopes, e.attempt = a, e.body = Terminal(o)
      PROVE  Follows(log, e)
  BY <1>2, <1>3, <1>4 DEF Follows, AgainstAbort, Forced, Overtaken
<1> QED BY <1>1, <1>2, <1>3, <1>4, OneKeeps

\* admit: a creation and the first fence, of an attempt without receipts.
LEMMA AdmitKeeps ==
    ASSUME RulesInv, NEW t \in Tasks, NEW h \in Hashes, NEW of, Admit(t, h, of)
    PROVE  Keeps
<1> DEFINE a == issued + 1
           g == RequestGeneration(log, t, h, of)
           b == AttemptCreated(t, h, g)
           c == FenceGeneration(1)
           e == [id |-> a + 1, attempt |-> a, body |-> b]
           f == [id |-> a + 2, attempt |-> a, body |-> c]
           r == Append(log, e)
<1>1. issued \in Nat /\ log \in Seq(Envelopes) /\ Sound(log, issued) /\ a \in Nat
  BY IInvIsSound DEF RulesInv, Sound
<1>2. g \in Nat
  BY <1>1, GenerationTypes DEF RequestGeneration
<1> HIDE DEF g
<1>3. /\ b \in Bodies /\ b.kind = "attempt_created"
      /\ c \in Bodies /\ c.kind = "fence_generation"
  BY <1>2, BodyConstructors DEF AttemptCreated, FenceGeneration
<1>4. log' = Append(r, f)
  <2>1. log' = log \o Stamp(a, a, <<b, c>>)
    BY DEF Admit, g
  <2> HIDE DEF a, b, c
  <2>2. log \o Stamp(a, a, <<b, c>>) = Append(r, f)
    BY <1>1, <1>3, StampTwo, ZenonT(60)
  <2> HIDE DEF r, f
  <2> QED BY <2>1, <2>2
<1>5. Fences(log, a) = {}
  <2>1. \A i \in DOMAIN log : log[i].attempt # a
    BY <1>1 DEF Sound
  <2> HIDE DEF a
  <2> QED BY <2>1 DEF Fences, OfKind
<1> HIDE DEF a, b, c
<1>6. /\ e \in Envelopes /\ e.attempt = a /\ e.body = b
      /\ f \in Envelopes /\ f.attempt = a /\ f.body = c
  <2>1. a + 1 \in Nat /\ a + 2 \in Nat
    BY <1>1
  <2>2. e \in Envelopes /\ f \in Envelopes
    BY <1>1, <1>3, <2>1, EnvelopeOf
  <2> QED BY <2>2
<1> HIDE DEF e, f
<1>7. r \in Seq(Envelopes) /\ Fences(r, a) = {}
  BY <1>1, <1>3, <1>5, <1>6, AppendFacts, OfKindAppend DEF Fences
<1>8. AllRules(r)
  BY <1>1, <1>3, <1>6, PlainFollows, RulesAppend DEF RulesInv
<1> HIDE DEF r
<1>9. Follows(r, f)
  BY <1>3, <1>6, <1>7 DEF Follows, AgainstAbort, Forced, Overtaken
<1>10. AllRules(Append(r, f))
  BY <1>6, <1>7, <1>8, <1>9, RulesAppend
<1> QED BY <1>4, <1>10 DEF Keeps

\* select_and_record (selection.rs) adds no verdict.
LEMMA SelectKeeps ==
    ASSUME RulesInv, NEW t \in Tasks, SelectAndRecord(t)
    PROVE  Keeps
<1> DEFINE candidates == {log[i].attempt : i \in {c \in Created(log) : log[c].body.task = t}}
           s == Select(log, t, candidates)
<1>1. candidates # {} /\ Append_(s.under, <<s.body>>)
  BY DEF SelectAndRecord
<1>2. candidates \in SUBSET Nat
  <2>1. candidates \subseteq Attempts
    BY DEF Attempts
  <2> QED BY <2>1, KnownAttempt DEF RulesInv
<1>3. s.under \in Nat /\ s.body \in Bodies /\ s.body.kind = "selection"
  <2> HIDE DEF candidates
  <2>1. CASE Selectable(log, candidates) = {}
    <3>1. s = [under |-> Earliest(candidates), body |-> Selection(t, NoAttempt, FALSE)]
      BY <2>1 DEF Select
    <3>2. Earliest(candidates) \in Nat
      BY <1>1, <1>2, EarliestIn
    <3>3. /\ Selection(t, NoAttempt, FALSE) \in Bodies
          /\ Selection(t, NoAttempt, FALSE).kind = "selection"
      BY BodyConstructors DEF Selection, NoAttempt
    <3> HIDE DEF s
    <3> QED BY <3>1, <3>2, <3>3
  <2>2. CASE Selectable(log, candidates) # {}
    <3> DEFINE x == Earliest(Selectable(log, candidates))
    <3>1. s = [under |-> x, body |-> Selection(t, x, TRUE)]
      BY <2>2 DEF Select
    <3>2. x \in Nat
      <4>1. Selectable(log, candidates) \in SUBSET Nat
        BY <1>2 DEF Selectable
      <4> QED BY <2>2, <4>1, EarliestIn
    <3> HIDE DEF x
    <3>3. Selection(t, x, TRUE) \in Bodies /\ Selection(t, x, TRUE).kind = "selection"
      BY <3>2, BodyConstructors DEF Selection
    <3> HIDE DEF s
    <3> QED BY <3>1, <3>2, <3>3
  <2> QED BY <2>1, <2>2
<1> HIDE DEF s, candidates
<1>4. \A e : e.body = s.body => Follows(log, e)
  BY <1>3, PlainFollows
<1> QED BY <1>1, <1>3, <1>4, OneKeeps

\* Every operation on one attempt keeps the rules.
LEMMA AttemptKeeps ==
    ASSUME RulesInv, NEW a \in Attempts, AttemptStep(a)
    PROVE  Keeps
<1>0. /\ a \in Nat /\ issued \in Nat /\ Ids(log) \subseteq Nat /\ log \in Seq(Envelopes)
  <2>1. a \in 1..issued /\ issued \in Nat /\ log \in Seq(Envelopes)
    BY KnownAttempt DEF RulesInv
  <2> QED BY <2>1 DEF Ids, RulesInv, IInv, TypeOK
<1>1. CASE Advance(a) \/ EnterRecovery(a) \/ Close(a)
  BY <1>1, TransitionKeeps DEF Advance, EnterRecovery, Close
<1>2. CASE AbortOn(a) \/ ResumeUnder(a) \/ CompleteClassification(a)
  BY <1>0, <1>2, TransitionKeeps DEF AbortOn, ResumeUnder, CompleteClassification
<1>3. ASSUME NEW k \in AbortKinds, AbortToClassifying(a, k)
      PROVE  Keeps
  BY <1>3, AbortKeeps
<1>4. CASE IssueNextGeneration(a)
  BY <1>4, IssueKeeps
<1>5. CASE ResumeCommit(a)
  BY <1>5, ResumeKeeps
<1>6. CASE CloseAsUnknown(a)
  BY <1>6, CloseKeeps
<1>7. CASE RecordClassification(a) \/ RecordUnknown(a)
  BY <1>7, VerdictKeeps
<1>8. ASSUME NEW g \in 1..issued, NEW recs \in CommitRecords, CommitUnder(a, g, recs)
      PROVE  Keeps
  <2>1. /\ Commit(g, recs) \in Bodies /\ Commit(g, recs).kind = "commit"
        /\ Commit(g, recs).generation = g
    <3>1. g \in Nat /\ recs \in [Required -> CommitVerdicts]
      BY <1>0, CallerAssumption DEF CallerAssumption
    <3> QED BY <3>1, BodyConstructors DEF Commit
  <2>2. g = CurrentGeneration(log, a) /\ Append_(a, <<Commit(g, recs)>>)
    BY <1>8 DEF CommitUnder, GuardCommit
  <2>3. NoStaleCommit(log, a) /\ CurrentGeneration(log, a) \in Nat
    BY IInvIsSound, GenerationTypes DEF RulesInv, AllRules, Rules
  <2>4. ASSUME NEW e \in Envelopes, e.attempt = a, e.body = Commit(g, recs)
        PROVE  Follows(log, e)
    BY <1>0, <2>1, <2>2, <2>3, <2>4, GenerationFollows
  <2> QED BY <1>0, <2>1, <2>2, <2>4, OneKeeps
<1>9. ASSUME NEW b \in Evidence, RecordEvidence(a, b)
      PROVE  Keeps
  <2>1. /\ b \in Bodies
        /\ b.kind \notin {"transition", "terminal", "fence_generation", "commit"}
    BY CallerAssumption DEF CallerAssumption
  <2>2. \A e : e.body = b => Follows(log, e)
    BY <2>1, PlainFollows
  <2> QED BY <1>0, <1>9, <2>1, <2>2, OneKeeps DEF RecordEvidence
<1> QED BY <1>1, <1>2, <1>3, <1>4, <1>5, <1>6, <1>7, <1>8, <1>9 DEF AttemptStep

\* No step breaks the rules.
LEMMA StepRules == RulesInv /\ [Next]_vars => RulesInv'
<1> SUFFICES ASSUME RulesInv, [Next]_vars PROVE RulesInv'
  OBVIOUS
<1>1. IInv'
  BY StepIInv DEF RulesInv
<1>2. ASSUME NEW t \in Tasks, NEW h \in Hashes,
             NEW of \in Attempts \union {NoAttempt}, Admit(t, h, of)
      PROVE  Keeps
  BY <1>2, AdmitKeeps
<1>3. ASSUME NEW a \in Attempts, AttemptStep(a)
      PROVE  Keeps
  BY <1>3, AttemptKeeps
<1>4. ASSUME NEW t \in Tasks, SelectAndRecord(t)
      PROVE  Keeps
  BY <1>4, SelectKeeps
<1>5. ASSUME UNCHANGED vars
      PROVE  Keeps
  <2>1. log' = log
    BY <1>5 DEF vars
  <2> QED BY <2>1 DEF Keeps, RulesInv
<1>6. AllRules(log)'
  BY <1>2, <1>3, <1>4, <1>5 DEF Next, Keeps
<1> QED BY <1>1, <1>6 DEF RulesInv

\* The empty log keeps them.
LEMMA InitRules == Init => RulesInv
<1> SUFFICES ASSUME Init PROVE RulesInv
  OBVIOUS
<1>1. \A x, k : OfKind(log, x, k) = {}
  BY DEF Init, OfKind
<1>2. AllRules(log)
  BY <1>1 DEF AllRules, Rules, NoForcedSuccess, AbortDecides, NoStaleCommit, Moves, Fences
<1> QED BY <1>2, InitIInv DEF RulesInv

\* No way out of recovery, no verdict and no commit against the evidence, in
\* whatever order the library is called: recovery_pending ends in terminal only on
\* the attempt's own unknown or after an exception (state.rs 184-201), no verdict
\* after an abort cause says anything else (classify.rs 101), and no commit is
\* behind a generation issued before it (fence.rs).
THEOREM RulesHold == Spec => []EvidenceRules
<1>1. RulesInv => EvidenceRules
  BY DEF RulesInv, AllRules, Rules, EvidenceRules
<1> QED BY <1>1, InitRules, StepRules, PTL DEF Spec

=============================================================================
