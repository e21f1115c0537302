------------------------------ MODULE LogLemmas ------------------------------
(***************************************************************************)
(* Lemmas about the operators of Receipts and Adjudication: what appending *)
(* one receipt does to the positions, states and chains that those         *)
(* operators read off a log, and to the order of its books.                *)
(***************************************************************************)
EXTENDS Adjudication, SequenceTheorems, WellFoundedInduction, TLAPS

\* A nonempty set of naturals has a least element.
LEMMA LeastExists ==
    ASSUME NEW S \in SUBSET Nat, S # {}
    PROVE  \E i \in S : \A j \in S : i <= j
<1>1. PICK x \in S : \A y \in S : ~(<<y, x>> \in OpToRel(<, Nat))
  BY WFMin, NatLessThanWellFounded, Zenon
<1>2. ASSUME NEW y \in S PROVE ~(y < x)
  <2>1. y \in Nat /\ x \in Nat
    OBVIOUS
  <2>2. y < x => <<y, x>> \in OpToRel(<, Nat)
    BY <2>1, Zenon DEF OpToRel
  <2> QED BY <2>2, <1>1, Zenon
<1>3. \A y \in S : x <= y
  BY <1>2
<1> QED BY <1>3

\* A nonempty set of positions of a log has a greatest element.
LEMMA GreatestExists ==
    ASSUME NEW n \in Nat, NEW S \in SUBSET (1..n), S # {}
    PROVE  \E i \in S : \A j \in S : j <= i
<1> DEFINE T == {n - i : i \in S}
<1>1. T \in SUBSET Nat
  <2>1. \A i \in S : i \in 1..n 
    OBVIOUS
  <2>2. \A i \in S : n - i \in Nat
    BY <2>1
  <2> QED BY <2>2
<1>2. T # {}
  OBVIOUS
<1>3. PICK t \in T : \A u \in T : t <= u
  <2> HIDE DEF T
  <2> QED BY <1>1, <1>2, LeastExists
<1>4. PICK i \in S : t = n - i
  OBVIOUS
<1>5. \A j \in S : n - j \in T
  OBVIOUS
<1>6. \A j \in S : j <= i
  <2> TAKE j \in S
  <2>1. i \in 1..n /\ j \in 1..n 
    OBVIOUS
  <2>2. n - i <= n - j
    BY <1>3, <1>4, <1>5
  <2> QED BY <2>1, <2>2
<1> QED BY <1>6

-----------------------------------------------------------------------------
\* The fields of a receipt body have the types of its variant (receipts.rs 29-121).
LEMMA BodyShape ==
    ASSUME NEW b \in Bodies
    PROVE  /\ b.kind = "transition" => b.from \in States /\ b.to \in States
           /\ b.kind = "fence_generation" => b.generation \in Nat
           /\ b.kind = "attempt_created" =>
                 b.task \in Tasks /\ b.hash \in Hashes /\ b.generation \in Nat
           /\ b.kind = "commit" => b.generation \in Nat
           /\ b.kind = "abort_cause" => b.abort \in Aborts
BY DEF Bodies

\* A transition between states is a receipt body.
LEMMA TransitionBody ==
    ASSUME NEW from \in States, NEW to \in States, NEW cause \in Causes, NEW ref \in Nat
    PROVE  Transition(from, to, cause, ref) \in Bodies
BY DEF Transition, Bodies

\* ReceiptLog::append: the log grows by one and nothing in it changes.
LEMMA AppendFacts ==
    ASSUME NEW l \in Seq(Envelopes), NEW e \in Envelopes
    PROVE  /\ Append(l, e) \in Seq(Envelopes)
           /\ Len(l) \in Nat
           /\ DOMAIN l = 1..Len(l)
           /\ DOMAIN Append(l, e) = 1..(Len(l) + 1)
           /\ \A i \in DOMAIN l : Append(l, e)[i] = l[i]
           /\ Append(l, e)[Len(l) + 1] = e
OBVIOUS

\* A receipt of a legal body is an envelope.
LEMMA EnvelopeOf ==
    ASSUME NEW n \in Nat, NEW a \in Nat, NEW b \in Bodies
    PROVE  [id |-> n, attempt |-> a, body |-> b] \in Envelopes
BY DEF Envelopes

\* What OfKind returns is a position of the log, of that attempt and kind.
LEMMA OfKindMember ==
    ASSUME NEW l \in Seq(Envelopes), NEW a, NEW k, NEW i \in OfKind(l, a, k)
    PROVE  /\ i \in 1..Len(l) /\ l[i] \in Envelopes /\ l[i].body \in Bodies
           /\ l[i].attempt = a /\ l[i].body.kind = k
<1>1. i \in 1..Len(l) /\ l[i].attempt = a /\ l[i].body.kind = k
  BY DEF OfKind
<1>2. l[i] \in Envelopes
  BY <1>1, ElementOfSeq
<1> QED BY <1>1, <1>2 DEF Envelopes

\* How an appended receipt changes the positions of one attempt and kind.
LEMMA OfKindAppend ==
    ASSUME NEW l \in Seq(Envelopes), NEW e \in Envelopes, NEW a, NEW k
    PROVE  /\ OfKind(l, a, k) \subseteq 1..Len(l)
           /\ e.attempt = a /\ e.body.kind = k =>
                OfKind(Append(l, e), a, k) = OfKind(l, a, k) \union {Len(l) + 1}
           /\ ~(e.attempt = a /\ e.body.kind = k) =>
                OfKind(Append(l, e), a, k) = OfKind(l, a, k)
<1> DEFINE r == Append(l, e)
<1>1. /\ DOMAIN l = 1..Len(l) /\ Len(l) \in Nat
      /\ DOMAIN r = 1..(Len(l) + 1)
      /\ \A i \in DOMAIN l : r[i] = l[i]
      /\ r[Len(l) + 1] = e
  BY AppendFacts
<1> HIDE DEF r
<1>2. OfKind(l, a, k) \subseteq 1..Len(l)
  BY <1>1 DEF OfKind
<1>3. ASSUME NEW i
      PROVE  i \in OfKind(r, a, k) <=>
                \/ i \in OfKind(l, a, k)
                \/ i = Len(l) + 1 /\ e.attempt = a /\ e.body.kind = k
  BY <1>1 DEF OfKind
<1>4. /\ e.attempt = a /\ e.body.kind = k =>
                OfKind(r, a, k) = OfKind(l, a, k) \union {Len(l) + 1}
      /\ ~(e.attempt = a /\ e.body.kind = k) => OfKind(r, a, k) = OfKind(l, a, k)
  BY <1>3
<1> QED BY <1>2, <1>4 DEF r

\* The same for every kind of one attempt.
LEMMA OfKindGains ==
    ASSUME NEW l \in Seq(Envelopes), NEW e \in Envelopes, NEW x
    PROVE  \A k : /\ OfKind(l, x, k) \subseteq 1..Len(l)
                  /\ e.attempt = x /\ e.body.kind = k =>
                       OfKind(Append(l, e), x, k) = OfKind(l, x, k) \union {Len(l) + 1}
                  /\ ~(e.attempt = x /\ e.body.kind = k) =>
                       OfKind(Append(l, e), x, k) = OfKind(l, x, k)
BY OfKindAppend, ZenonT(60)

\* The receipt appended last stands at the last position.
LEMMA NewestOfKind ==
    ASSUME NEW l \in Seq(Envelopes), NEW e \in Envelopes,
           NEW a, e.attempt = a, NEW k, e.body.kind = k
    PROVE  /\ Len(l) + 1 \in OfKind(Append(l, e), a, k)
           /\ Append(l, e)[Len(l) + 1] = e
<1>1. OfKind(Append(l, e), a, k) = OfKind(l, a, k) \union {Len(l) + 1}
  BY OfKindAppend
<1> QED BY <1>1, AppendFacts

\* Appending loses no receipt of any kind.
LEMMA OfKindGrows ==
    ASSUME NEW l \in Seq(Envelopes), NEW e \in Envelopes, NEW a, NEW k
    PROVE  OfKind(l, a, k) \subseteq OfKind(Append(l, e), a, k)
<1>1. CASE e.attempt = a /\ e.body.kind = k
  <2>1. OfKind(Append(l, e), a, k) = OfKind(l, a, k) \union {Len(l) + 1}
    BY <1>1, OfKindAppend
  <2> QED BY <2>1
<1>2. CASE ~(e.attempt = a /\ e.body.kind = k)
  <2>1. OfKind(Append(l, e), a, k) = OfKind(l, a, k)
    BY <1>2, OfKindAppend
  <2> QED BY <2>1
<1> QED BY <1>1, <1>2

\* What one envelope adds to the transitions of an attempt.
LEMMA MovesAppend ==
    ASSUME NEW l \in Seq(Envelopes), NEW e \in Envelopes, NEW a
    PROVE  /\ Moves(l, a) \subseteq 1..Len(l)
           /\ Moves(Append(l, e), a) = Moves(l, a) \union
                 (IF e.attempt = a /\ e.body.kind = "transition" THEN {Len(l) + 1} ELSE {})
<1>1. Moves(l, a) = OfKind(l, a, "transition")
      /\ Moves(Append(l, e), a) = OfKind(Append(l, e), a, "transition")
  BY Zenon DEF Moves
<1> QED BY <1>1, OfKindAppend

\* An appended transition sets the state of its attempt; nothing else sets any.
LEMMA StateOfAppend ==
    ASSUME NEW l \in Seq(Envelopes), NEW e \in Envelopes, NEW a
    PROVE  StateOf(Append(l, e), a) =
             IF e.attempt = a /\ e.body.kind = "transition" THEN e.body.to
             ELSE StateOf(l, a)
<1> DEFINE r == Append(l, e)
<1>1. /\ Len(l) \in Nat /\ DOMAIN l = 1..Len(l)
      /\ \A i \in DOMAIN l : r[i] = l[i]
      /\ r[Len(l) + 1] = e
  BY AppendFacts
<1>2. /\ Moves(l, a) \subseteq 1..Len(l)
      /\ Moves(r, a) = Moves(l, a) \union
            (IF e.attempt = a /\ e.body.kind = "transition" THEN {Len(l) + 1} ELSE {})
  BY MovesAppend
<1> HIDE DEF r
<1>3. ASSUME e.attempt = a, e.body.kind = "transition"
      PROVE  StateOf(r, a) = e.body.to
  <2>1. Latest(Moves(r, a)) = Len(l) + 1
    <3>1. Len(l) + 1 \in Moves(r, a) /\ \A j \in Moves(r, a) : j <= Len(l) + 1
      BY <1>1, <1>2, <1>3
    <3>2. \A i \in Moves(r, a) : (\A j \in Moves(r, a) : j <= i) => i = Len(l) + 1
      BY <1>1, <1>2, <3>1
    <3> QED BY <3>1, <3>2 DEF Latest
  <2> QED BY <1>1, <1>2, <1>3, <2>1 DEF StateOf
<1>4. ASSUME ~(e.attempt = a /\ e.body.kind = "transition")
      PROVE  StateOf(r, a) = StateOf(l, a)
  <2>1. Moves(r, a) = Moves(l, a)
    BY <1>2, <1>4
  <2>2. Moves(l, a) # {} => Latest(Moves(l, a)) \in DOMAIN l
    <3>1. ASSUME Moves(l, a) # {}
          PROVE  \E i \in Moves(l, a) : \A j \in Moves(l, a) : j <= i
      BY <1>1, <1>2, <3>1, GreatestExists
    <3> QED BY <1>1, <1>2, <3>1 DEF Latest
  <2> QED BY <1>1, <1>4, <2>1, <2>2 DEF StateOf
<1> QED BY <1>3, <1>4 DEF r

\* A nonempty set of positions has its greatest, and Latest returns it.
LEMMA LatestIn ==
    ASSUME NEW n \in Nat, NEW S \in SUBSET (1..n), S # {}
    PROVE  Latest(S) \in S /\ \A j \in S : j <= Latest(S)
BY GreatestExists DEF Latest

\* A nonempty set of naturals has its least, and Earliest returns it.
LEMMA EarliestIn ==
    ASSUME NEW S \in SUBSET Nat, S # {}
    PROVE  Earliest(S) \in S /\ \A j \in S : Earliest(S) <= j
BY LeastExists DEF Earliest

\* An appended receipt leaves the state before every earlier receipt alone, and
\* the state before itself is the state of the log it was appended to.
LEMMA StateBeforeAppend ==
    ASSUME NEW l \in Seq(Envelopes), NEW e \in Envelopes, NEW a
    PROVE  /\ \A m \in 1..Len(l) : StateBefore(Append(l, e), a, m) = StateBefore(l, a, m)
           /\ StateBefore(Append(l, e), a, Len(l) + 1) = StateOf(l, a)
<1> DEFINE r == Append(l, e)
           Before(x, m) == {j \in Moves(x, a) : j < m}
<1>1. /\ Len(l) \in Nat /\ DOMAIN l = 1..Len(l)
      /\ \A i \in DOMAIN l : r[i] = l[i]
  BY AppendFacts
<1>2. /\ Moves(l, a) \subseteq 1..Len(l)
      /\ Moves(r, a) = Moves(l, a) \union
            (IF e.attempt = a /\ e.body.kind = "transition" THEN {Len(l) + 1} ELSE {})
  BY MovesAppend
<1> HIDE DEF r
<1>3. ASSUME NEW m \in 1..(Len(l) + 1)
      PROVE  StateBefore(r, a, m) =
                IF Before(l, m) = {} THEN "created" ELSE l[Latest(Before(l, m))].body.to
  <2>1. Before(r, m) = Before(l, m)
    BY <1>1, <1>2
  <2>2. Before(l, m) # {} => Latest(Before(l, m)) \in DOMAIN l
    <3>1. Before(l, m) \in SUBSET (1..Len(l))
      BY <1>2
    <3> HIDE DEF Before
    <3> QED BY <1>1, <3>1, LatestIn
  <2> QED BY <1>1, <2>1, <2>2 DEF StateBefore
<1>4. \A m \in 1..Len(l) : StateBefore(r, a, m) = StateBefore(l, a, m)
  BY <1>1, <1>3 DEF StateBefore
<1>5. Before(l, Len(l) + 1) = Moves(l, a)
  BY <1>1, <1>2
<1>6. StateBefore(r, a, Len(l) + 1) = StateOf(l, a)
  <2> HIDE DEF Before
  <2>1. Len(l) + 1 \in 1..(Len(l) + 1)
    BY <1>1
  <2>2. StateBefore(r, a, Len(l) + 1) =
            IF Before(l, Len(l) + 1) = {} THEN "created"
            ELSE l[Latest(Before(l, Len(l) + 1))].body.to
    BY <1>3, <2>1
  <2> QED BY <1>5, <2>2 DEF StateOf
<1> QED BY <1>4, <1>6 DEF r

-----------------------------------------------------------------------------
\* resolve_state answers a state exactly when the chain is unbroken.
LEMMA ResolvedAttempt ==
    ASSUME NEW l, NEW a
    PROVE  ResolveState(l, a) \in States <=>
              ChainLinks(l, a) /\ Births(l, a) # {} /\ StateOf(l, a) \in States
BY DEF ResolveState, States

\* A log as rein-core keeps it: ids and attempts minted, every chain resolves.
Sound(l, n) ==
    /\ n \in Nat
    /\ l \in Seq(Envelopes)
    /\ \A i \in DOMAIN l :
          /\ l[i].id \in 1..n /\ l[i].attempt \in 1..n
          /\ i \in Created(l) => l[i].body.generation \in 1..n
    /\ \A i \in DOMAIN l : ResolveState(l, l[i].attempt) \in States

\* Receipts of one attempt do not disturb another.
LEMMA OthersUndisturbed ==
    ASSUME NEW l \in Seq(Envelopes), NEW e \in Envelopes, NEW a, e.attempt # a
    PROVE  ResolveState(Append(l, e), a) = ResolveState(l, a)
<1> DEFINE r == Append(l, e)
<1>1. /\ DOMAIN l = 1..Len(l)
      /\ \A i \in DOMAIN l : r[i] = l[i]
  BY AppendFacts
<1>2. /\ Moves(r, a) = Moves(l, a) /\ Moves(l, a) \subseteq 1..Len(l)
      /\ Births(r, a) = Births(l, a)
  BY OfKindAppend DEF Moves, Births
<1>3. StateOf(r, a) = StateOf(l, a)
  BY StateOfAppend
<1>4. \A m \in 1..Len(l) : StateBefore(r, a, m) = StateBefore(l, a, m)
  BY StateBeforeAppend
<1> HIDE DEF r
<1>5. ChainLinks(r, a) <=> ChainLinks(l, a)
  BY <1>1, <1>2, <1>4 DEF ChainLinks
<1>6. ResolveState(r, a) = ResolveState(l, a)
  BY <1>2, <1>3, <1>5 DEF ResolveState
<1> QED BY <1>6 DEF r

\* A chain goes on resolving when its attempt gets a receipt that is not a
\* second creation and, if a transition, starts from the resolved state.
LEMMA ChainExtends ==
    ASSUME NEW l \in Seq(Envelopes), NEW e \in Envelopes,
           ResolveState(l, e.attempt) \in States,
           e.body.kind # "attempt_created",
           e.body.kind = "transition" => e.body.from = ResolveState(l, e.attempt)
    PROVE  ResolveState(Append(l, e), e.attempt) \in States
<1> DEFINE r == Append(l, e)
           a == e.attempt
<1>1. /\ DOMAIN l = 1..Len(l) /\ Len(l) \in Nat
      /\ \A i \in DOMAIN l : r[i] = l[i]
      /\ r[Len(l) + 1] = e
  BY AppendFacts
<1>2. /\ Births(r, a) = Births(l, a) /\ Births(l, a) \subseteq 1..Len(l)
      /\ Moves(l, a) \subseteq 1..Len(l)
      /\ Moves(r, a) = Moves(l, a) \union
            (IF e.body.kind = "transition" THEN {Len(l) + 1} ELSE {})
  BY OfKindAppend DEF Moves, Births
<1>3. ChainLinks(l, a) /\ Births(l, a) # {} /\ StateOf(l, a) \in States
  BY ResolvedAttempt
<1>4. e.body.kind = "transition" => e.body.from = StateOf(l, a) /\ e.body.to \in States
  <2>1. e.body \in Bodies
    BY DEF Envelopes
  <2>2. ResolveState(l, a) = StateOf(l, a)
    BY <1>3 DEF ResolveState
  <2> QED BY <2>1, <2>2, BodyShape
<1>5. StateOf(r, a) \in States
  BY <1>3, <1>4, StateOfAppend
<1>6. /\ \A m \in 1..Len(l) : StateBefore(r, a, m) = StateBefore(l, a, m)
      /\ StateBefore(r, a, Len(l) + 1) = StateOf(l, a)
  BY StateBeforeAppend
<1> HIDE DEF r, a
<1>7. ChainLinks(r, a)
  <2>1. \A i, j \in Births(r, a) : i = j
    BY <1>2, <1>3 DEF ChainLinks
  <2>2. ASSUME NEW m \in Moves(r, a)
        PROVE  \E b \in Births(r, a) : b < m
    BY <1>1, <1>2, <1>3 DEF ChainLinks
  <2>3. ASSUME NEW m \in Moves(r, a)
        PROVE  r[m].body.from = StateBefore(r, a, m)
    <3>1. CASE m \in Moves(l, a)
      BY <1>1, <1>2, <1>3, <1>6, <3>1 DEF ChainLinks
    <3>2. CASE m \notin Moves(l, a)
      BY <1>1, <1>2, <1>4, <1>6, <3>2
    <3> QED BY <3>1, <3>2
  <2> QED BY <2>1, <2>2, <2>3 DEF ChainLinks
<1>8. ResolveState(r, a) \in States
  BY <1>2, <1>3, <1>5, <1>7, ResolvedAttempt
<1> QED BY <1>8 DEF r, a

\* The chain of a new attempt starts with its creation receipt.
LEMMA ChainStarts ==
    ASSUME NEW l \in Seq(Envelopes), NEW e \in Envelopes,
           e.body.kind = "attempt_created",
           \A i \in DOMAIN l : l[i].attempt # e.attempt
    PROVE  ResolveState(Append(l, e), e.attempt) = "created"
<1> DEFINE r == Append(l, e)
           a == e.attempt
<1>1. Births(l, a) = {} /\ Moves(l, a) = {}
  BY DEF Births, Moves, OfKind
<1>2. Births(r, a) = {Len(l) + 1} /\ Moves(r, a) = {}
  <2>1. Births(r, a) = Births(l, a) \union {Len(l) + 1}
    BY OfKindAppend DEF Births
  <2>2. Moves(r, a) = Moves(l, a)
    BY OfKindAppend DEF Moves
  <2> QED BY <1>1, <2>1, <2>2
<1> HIDE DEF r, a
<1>3. ChainLinks(r, a) /\ StateOf(r, a) = "created"
  BY <1>2 DEF ChainLinks, StateOf
<1>4. ResolveState(r, a) = "created"
  BY <1>2, <1>3 DEF ResolveState
<1> QED BY <1>4 DEF r, a

\* What a receipt must be for the log to stay sound.
LEMMA SoundAppend ==
    ASSUME NEW l, NEW n, Sound(l, n), NEW m \in Nat, n <= m,
           NEW e \in Envelopes, e.id \in 1..m, e.attempt \in 1..m,
           e.body.kind = "attempt_created" => e.body.generation \in 1..m,
           \/ /\ e.body.kind = "attempt_created"
              /\ \A i \in DOMAIN l : l[i].attempt # e.attempt
           \/ /\ ResolveState(l, e.attempt) \in States
              /\ e.body.kind # "attempt_created"
              /\ e.body.kind = "transition" => e.body.from = ResolveState(l, e.attempt)
    PROVE  Sound(Append(l, e), m) /\ ResolveState(Append(l, e), e.attempt) \in States
<1> DEFINE r == Append(l, e)
<1>1. /\ r \in Seq(Envelopes) /\ Len(l) \in Nat
      /\ DOMAIN l = 1..Len(l) /\ DOMAIN r = 1..(Len(l) + 1)
      /\ \A i \in DOMAIN l : r[i] = l[i]
      /\ r[Len(l) + 1] = e
  BY AppendFacts DEF Sound
<1>2. ResolveState(r, e.attempt) \in States
  BY ChainStarts, ChainExtends DEF Sound, States
<1>3. ASSUME NEW i \in DOMAIN l
      PROVE  ResolveState(r, l[i].attempt) \in States
  BY <1>2, OthersUndisturbed DEF Sound
<1> HIDE DEF r
<1>4. \A i \in DOMAIN r : ResolveState(r, r[i].attempt) \in States
  BY <1>1, <1>2, <1>3
<1>5. ASSUME NEW i \in DOMAIN r
      PROVE  /\ r[i].id \in 1..m /\ r[i].attempt \in 1..m
             /\ i \in Created(r) => r[i].body.generation \in 1..m
  BY <1>1 DEF Sound, Created, AnyOfKind
<1> QED BY <1>1, <1>2, <1>4, <1>5 DEF Sound, r

\* A batch of one body appends one envelope with the next id.
LEMMA StampOne ==
    ASSUME NEW l \in Seq(Envelopes), NEW n \in Nat, NEW a \in Nat, NEW b \in Bodies
    PROVE  l \o Stamp(n, a, <<b>>) = Append(l, [id |-> n + 1, attempt |-> a, body |-> b])
<1> DEFINE e == [id |-> n + 1, attempt |-> a, body |-> b]
<1>1. Stamp(n, a, <<b>>) = <<e>>
  BY DEF Stamp
<1>2. e \in Envelopes
  BY DEF Envelopes
<1> HIDE DEF e
<1>3. l \o <<e>> = Append(l, e)
  BY <1>2
<1> QED BY <1>1, <1>3 DEF e

\* A batch of two bodies appends two envelopes with the next two ids.
LEMMA StampTwo ==
    ASSUME NEW l \in Seq(Envelopes), NEW n \in Nat, NEW a \in Nat,
           NEW b \in Bodies, NEW c \in Bodies
    PROVE  l \o Stamp(n, a, <<b, c>>) =
             Append(Append(l, [id |-> n + 1, attempt |-> a, body |-> b]),
                    [id |-> n + 2, attempt |-> a, body |-> c])
<1> DEFINE e == [id |-> n + 1, attempt |-> a, body |-> b]
           f == [id |-> n + 2, attempt |-> a, body |-> c]
<1>1. Stamp(n, a, <<b, c>>) = <<e, f>>
  BY DEF Stamp
<1>2. e \in Envelopes /\ f \in Envelopes
  BY DEF Envelopes
<1> HIDE DEF e, f
<1>3. l \o <<e, f>> = Append(Append(l, e), f)
  BY <1>2
<1> QED BY <1>1, <1>3 DEF e, f

-----------------------------------------------------------------------------
\* Every constructor but that of transitions (see TransitionBody) makes a body.
LEMMA BodyConstructors ==
    /\ \A t \in Tasks, h \in Hashes, g \in Nat : AttemptCreated(t, h, g) \in Bodies
    /\ \A g \in Nat : FenceGeneration(g) \in Bodies
    /\ \A k \in Aborts : AbortCause(k) \in Bodies
    /\ \A g \in Nat, recs \in [Required -> CommitVerdicts] : Commit(g, recs) \in Bodies
    /\ \A o \in Outcomes : Terminal(o) \in Bodies
    /\ \A t \in Tasks, a \in Nat, sat \in BOOLEAN : Selection(t, a, sat) \in Bodies
<1>1. \A t \in Tasks, h \in Hashes, g \in Nat : AttemptCreated(t, h, g) \in Bodies
  BY DEF AttemptCreated, Bodies
<1>2. \A g \in Nat : FenceGeneration(g) \in Bodies
  BY DEF FenceGeneration, Bodies
<1>3. \A k \in Aborts : AbortCause(k) \in Bodies
  BY DEF AbortCause, Bodies
<1>4. \A g \in Nat, recs \in [Required -> CommitVerdicts] : Commit(g, recs) \in Bodies
  BY DEF Commit, Bodies
<1>5. \A o \in Outcomes : Terminal(o) \in Bodies
  BY DEF Terminal, Bodies
<1>6. \A t \in Tasks, a \in Nat, sat \in BOOLEAN : Selection(t, a, sat) \in Bodies
  BY DEF Selection, Bodies
<1> QED BY <1>1, <1>2, <1>3, <1>4, <1>5, <1>6

\* A receipt that is neither a creation nor a transition moves nobody.
LEMMA PlainReceipt ==
    ASSUME NEW l, NEW n, Sound(l, n), NEW a \in 1..n, ResolveState(l, a) \in States,
           NEW b \in Bodies, b.kind \notin {"attempt_created", "transition"}
    PROVE  LET r == Append(l, [id |-> n + 1, attempt |-> a, body |-> b])
           IN  /\ Sound(r, n + 1)
               /\ ResolveState(r, a) = ResolveState(l, a)
               /\ \A x : StateOf(r, x) = StateOf(l, x)
<1> DEFINE e == [id |-> n + 1, attempt |-> a, body |-> b]
<1>1. n \in Nat /\ l \in Seq(Envelopes)
  BY DEF Sound
<1>2. e \in Envelopes /\ e.id = n + 1 /\ e.attempt = a /\ e.body = b
  BY <1>1 DEF Envelopes
<1> HIDE DEF e
<1>3. Sound(Append(l, e), n + 1) /\ ResolveState(Append(l, e), a) \in States
  BY <1>1, <1>2, SoundAppend
<1>4. \A x : StateOf(Append(l, e), x) = StateOf(l, x)
  BY <1>1, <1>2, StateOfAppend
<1>5. ResolveState(Append(l, e), a) = ResolveState(l, a)
  BY <1>3, <1>4, ResolvedAttempt DEF ResolveState
<1> QED BY <1>3, <1>4, <1>5 DEF e

\* A transition from the resolved state moves its attempt and nobody else.
LEMMA TransitionReceipt ==
    ASSUME NEW l, NEW n, Sound(l, n), NEW a \in 1..n, ResolveState(l, a) \in States,
           NEW to \in States, NEW cause \in Causes, NEW ref \in Nat
    PROVE  LET b == Transition(ResolveState(l, a), to, cause, ref)
               r == Append(l, [id |-> n + 1, attempt |-> a, body |-> b])
           IN  /\ b \in Bodies
               /\ Sound(r, n + 1)
               /\ \A x : StateOf(r, x) = IF x = a THEN to ELSE StateOf(l, x)
<1> DEFINE b == Transition(ResolveState(l, a), to, cause, ref)
           e == [id |-> n + 1, attempt |-> a, body |-> b]
<1>1. n \in Nat /\ l \in Seq(Envelopes)
  BY DEF Sound
<1>2. /\ b \in Bodies /\ b.kind = "transition" /\ b.to = to
      /\ b.from = ResolveState(l, a)
  BY TransitionBody DEF Transition
<1> HIDE DEF b
<1>3. e \in Envelopes /\ e.id = n + 1 /\ e.attempt = a /\ e.body = b
  BY <1>1, <1>2 DEF Envelopes
<1> HIDE DEF e
<1>4. Sound(Append(l, e), n + 1)
  BY <1>1, <1>2, <1>3, SoundAppend
<1>5. \A x : StateOf(Append(l, e), x) = IF x = a THEN to ELSE StateOf(l, x)
  BY <1>1, <1>2, <1>3, StateOfAppend
<1> QED BY <1>2, <1>4, <1>5 DEF e, b

\* A function of positions is bounded along a log.
LEMMA PositionsBounded ==
    ASSUME NEW n \in Nat, NEW S \in SUBSET (1..n), NEW f, \A i \in S : f[i] \in Nat
    PROVE  \E b \in Nat : \A i \in S : f[i] <= b
<1> DEFINE Below(k, b) == \A i \in S : i <= k => f[i] <= b
           T == {k \in 0..n : ~ \E b \in Nat : Below(k, b)}
<1>1. SUFFICES T = {}
  <2>1. n \in 0..n
    OBVIOUS
  <2>2. ASSUME T = {} PROVE \E b \in Nat : Below(n, b)
    BY <2>1, <2>2
  <2> QED BY <2>2
<1>2. SUFFICES ASSUME T # {} PROVE FALSE
  OBVIOUS
<1>3. PICK k \in T : \A j \in T : k <= j
  <2>1. T \in SUBSET Nat
    OBVIOUS
  <2> HIDE DEF T
  <2> QED BY <1>2, <2>1, LeastExists
<1>4. k # 0
  <2>1. Below(0, 0)
    OBVIOUS
  <2> QED BY <2>1
<1>5. k - 1 \in 0..n /\ k - 1 \notin T
  <2>1. k \in 0..n
    OBVIOUS
  <2>2. k - 1 \in 0..n /\ ~(k <= k - 1)
    BY <1>4, <2>1
  <2> HIDE DEF T
  <2> QED BY <1>3, <2>2
<1>6. PICK b \in Nat : Below(k - 1, b)
  BY <1>5
<1>7. CASE k \in S
  <2> DEFINE c == IF f[k] <= b THEN b ELSE f[k]
  <2>1. c \in Nat /\ Below(k, c)
    <3>1. f[k] \in Nat
      BY <1>7
    <3>2. c \in Nat /\ b <= c /\ f[k] <= c
      BY <3>1
    <3>3. ASSUME NEW i \in S, i <= k PROVE f[i] <= c
      <4>1. f[i] \in Nat /\ i \in Nat /\ k \in Nat
        OBVIOUS
      <4>2. i = k \/ i <= k - 1
        BY <3>3, <4>1
      <4> HIDE DEF c
      <4> QED BY <1>6, <3>1, <3>2, <3>3, <4>1, <4>2
    <3> QED BY <3>2, <3>3
  <2> QED BY <2>1
<1>8. CASE k \notin S
  <2>1. ASSUME NEW i \in S, i <= k PROVE f[i] <= b
    <3>1. i # k /\ i \in Nat /\ k \in Nat
      BY <1>8
    <3>2. i <= k - 1
      BY <2>1, <3>1
    <3> QED BY <1>6, <3>2
  <2> QED BY <2>1
<1> QED BY <1>7, <1>8

\* A nonempty set of values of such a function has a greatest, which Latest returns.
LEMMA LatestValue ==
    ASSUME NEW n \in Nat, NEW S \in SUBSET (1..n), S # {},
           NEW f, \A i \in S : f[i] \in Nat
    PROVE  /\ Latest({f[i] : i \in S}) \in Nat
           /\ \A i \in S : f[i] <= Latest({f[j] : j \in S})
<1>1. PICK b \in Nat : \A i \in S : f[i] <= b
  BY PositionsBounded
<1> DEFINE V == {f[i] : i \in S}
           U == {v + 1 : v \in V}
<1>2. /\ b + 1 \in Nat /\ V # {} /\ V \subseteq Nat
      /\ \A v \in V : v + 1 \in 1..(b + 1) /\ v + 1 \in U
  <2>1. V # {} /\ \A v \in V : v + 1 \in U
    OBVIOUS
  <2>2. \A v \in V : v \in Nat /\ v <= b
    BY <1>1
  <2> HIDE DEF V, U
  <2> QED BY <2>1, <2>2
<1>3. PICK u \in U : \A w \in U : w <= u
  <2>1. U \in SUBSET (1..(b + 1)) /\ U # {}
    <3> HIDE DEF V
    <3> QED BY <1>2
  <2> HIDE DEF U
  <2> QED BY <1>2, <2>1, GreatestExists
<1>4. PICK v \in V : u = v + 1
  <2> HIDE DEF V
  <2> QED OBVIOUS
<1>5. V \subseteq Nat
  BY <1>2
<1>6. \A w \in V : w <= v
  <2> TAKE w \in V
  <2>1. w + 1 \in U /\ w \in Nat /\ v \in Nat
    BY <1>2
  <2>2. w + 1 <= v + 1
    BY <1>3, <1>4, <2>1
  <2> HIDE DEF V
  <2> QED BY <2>1, <2>2
<1>7. Latest(V) \in V /\ \A w \in V : w <= Latest(V)
  BY <1>6 DEF Latest
<1> HIDE DEF V
<1>8. Latest(V) \in Nat
  BY <1>5, <1>7
<1> QED BY <1>7, <1>8 DEF V

\* Fence generations are naturals.
LEMMA FenceType ==
    ASSUME NEW l \in Seq(Envelopes), NEW a
    PROVE  CurrentGeneration(l, a) \in Nat
<1>1. Len(l) \in Nat /\ DOMAIN l = 1..Len(l)
  OBVIOUS
<1>2. CASE Fences(l, a) = {}
  BY <1>2 DEF CurrentGeneration
<1>3. CASE Fences(l, a) # {}
  <2>1. Latest(Fences(l, a)) \in Fences(l, a)
    BY <1>1, <1>3, LatestIn DEF Fences, OfKind
  <2>2. PICK i \in Fences(l, a) : i = Latest(Fences(l, a))
    BY <2>1
  <2>3. l[i].body \in Bodies /\ l[i].body.kind = "fence_generation"
    BY OfKindMember DEF Fences
  <2> QED BY <1>3, <2>2, <2>3, BodyShape DEF CurrentGeneration
<1> QED BY <1>2, <1>3

\* So are the generations under which requests are admitted.
LEMMA RequestType ==
    ASSUME NEW l \in Seq(Envelopes), NEW t, NEW h, NEW of
    PROVE  MaxGeneration(l, t, h) \in Nat /\ RequestGeneration(l, t, h, of) \in Nat
<1> DEFINE S == {c \in Created(l) : l[c].body.task = t /\ l[c].body.hash = h}
           f == [i \in S |-> l[i].body.generation]
<1>1. Len(l) \in Nat /\ S \in SUBSET (1..Len(l))
  BY DEF Created, AnyOfKind
<1>2. \A i \in S : l[i].body.generation \in Nat
  <2> TAKE i \in S
  <2>1. l[i] \in Envelopes /\ l[i].body.kind = "attempt_created"
    BY DEF Created, AnyOfKind
  <2>2. l[i].body \in Bodies
    BY <2>1 DEF Envelopes
  <2> QED BY <2>1, <2>2, BodyShape
<1>3. {l[i].body.generation : i \in S} = {f[i] : i \in S}
  OBVIOUS
<1>4. \A i \in S : f[i] \in Nat
  BY <1>2
<1>5. MaxGeneration(l, t, h) = IF S = {} THEN 0 ELSE Latest({l[i].body.generation : i \in S})
  <2> DEFINE gens == {l[i].body.generation : i \in S}
  <2>1. gens = {} <=> S = {}
    OBVIOUS
  <2>2. MaxGeneration(l, t, h) = IF gens = {} THEN 0 ELSE Latest(gens)
    BY DEF MaxGeneration
  <2> HIDE DEF S
  <2> QED BY <2>1, <2>2
<1> HIDE DEF S, f
<1>6. S # {} => Latest({f[i] : i \in S}) \in Nat
  BY <1>1, <1>4, LatestValue, Zenon
<1>7. MaxGeneration(l, t, h) \in Nat
  BY <1>3, <1>5, <1>6, 0 \in Nat, Zenon
<1> QED BY <1>7 DEF RequestGeneration

\* Fence generations are naturals, and retry generations were issued.
LEMMA GenerationTypes ==
    ASSUME NEW l, NEW n, Sound(l, n)
    PROVE  /\ \A a : CurrentGeneration(l, a) \in Nat
           /\ \A t, h : MaxGeneration(l, t, h) \in 0..n
<1>1. n \in Nat /\ l \in Seq(Envelopes) /\ Len(l) \in Nat /\ DOMAIN l = 1..Len(l)
  BY DEF Sound
<1>2. ASSUME NEW a
      PROVE  CurrentGeneration(l, a) \in Nat
  <2>1. CASE Fences(l, a) = {}
    BY <2>1 DEF CurrentGeneration
  <2>2. CASE Fences(l, a) # {}
    <3>1. Latest(Fences(l, a)) \in Fences(l, a)
      BY <1>1, <2>2, LatestIn DEF Fences, OfKind
    <3>2. PICK i \in Fences(l, a) : i = Latest(Fences(l, a))
      BY <3>1
    <3>3. l[i].body \in Bodies /\ l[i].body.kind = "fence_generation"
      BY <1>1, OfKindMember DEF Fences
    <3> QED BY <2>2, <3>2, <3>3, BodyShape DEF CurrentGeneration
  <2> QED BY <2>1, <2>2
<1>3. ASSUME NEW t, NEW h
      PROVE  MaxGeneration(l, t, h) \in 0..n
  <2> DEFINE gens == {l[i].body.generation : i \in {c \in Created(l) :
                        l[c].body.task = t /\ l[c].body.hash = h}}
  <2>1. gens \in SUBSET (1..n)
    BY <1>1 DEF Sound, Created, AnyOfKind
  <2>2. MaxGeneration(l, t, h) = IF gens = {} THEN 0 ELSE Latest(gens)
    BY DEF MaxGeneration
  <2> HIDE DEF gens
  <2>3. gens # {} => Latest(gens) \in 1..n
    BY <1>1, <2>1, LatestIn
  <2> QED BY <1>1, <2>2, <2>3
<1> QED BY <1>2, <1>3

\* classify answers an outcome or that the receipts are insufficient.
LEMMA ClassifyType ==
    ASSUME NEW l \in Seq(Envelopes), NEW a
    PROVE  Classify(l, a) \in Outcomes \union {"insufficient"}
<1> DEFINE aborts == OfKind(l, a, "abort_cause")
<1>1. ASSUME aborts # {}
      PROVE  AbortOutcome(l[Earliest(aborts)].body.abort) \in Outcomes
  <2>1. aborts \in SUBSET Nat /\ aborts \subseteq DOMAIN l
    BY DEF OfKind
  <2>2. Earliest(aborts) \in aborts
    BY <1>1, <2>1, EarliestIn
  <2>3. PICK i \in aborts : i = Earliest(aborts)
    BY <2>2
  <2>4. l[i].body \in Bodies /\ l[i].body.kind = "abort_cause"
    BY OfKindMember
  <2>5. l[i].body.abort \in Aborts
    BY <2>4, BodyShape
  <2> QED BY <2>3, <2>5 DEF AbortOutcome, Aborts, Outcomes
<1> QED BY <1>1 DEF Classify, Outcomes

-----------------------------------------------------------------------------
\* A receipt that is not a creation is no request.
LEMMA KeysKept ==
    ASSUME NEW l \in Seq(Envelopes), NEW e \in Envelopes,
           e.body.kind # "attempt_created", OneAttemptPerKey(l)
    PROVE  OneAttemptPerKey(Append(l, e))
<1> DEFINE r == Append(l, e)
<1>1. /\ DOMAIN l = 1..Len(l) /\ Len(l) \in Nat
      /\ DOMAIN r = 1..(Len(l) + 1)
      /\ \A i \in DOMAIN l : r[i] = l[i]
      /\ r[Len(l) + 1] = e
  BY AppendFacts
<1> HIDE DEF r
<1>2. Created(r) = Created(l) /\ \A i \in Created(l) : r[i] = l[i]
  BY <1>1 DEF Created, AnyOfKind
<1>3. OneAttemptPerKey(r)
  BY <1>2 DEF OneAttemptPerKey
<1> QED BY <1>3 DEF r

\* admit: a request that is neither refused nor a duplicate has a key of its
\* own and the semantic hash of its task.
LEMMA AdmittedKey ==
    ASSUME NEW l \in Seq(Envelopes), OneAttemptPerKey(l),
           \A i \in Created(l) : l[i].attempt # NoAttempt,
           NEW t, NEW h, NEW of, Refusal(l, t, h, of) = "none",
           Original(l, t, h, RequestGeneration(l, t, h, of)) = NoAttempt
    PROVE  \A i \in Created(l) : l[i].body.task = t =>
              /\ l[i].body.hash = h
              /\ l[i].body.generation # RequestGeneration(l, t, h, of)
<1> DEFINE g == RequestGeneration(l, t, h, of)
<1>1. DOMAIN l = 1..Len(l) /\ Len(l) \in Nat
  OBVIOUS
<1>2. WithKey(l, t, h, g) = {}
  <2>1. SUFFICES ASSUME WithKey(l, t, h, g) # {} PROVE FALSE
    OBVIOUS
  <2>2. WithKey(l, t, h, g) \in SUBSET Nat /\ WithKey(l, t, h, g) \subseteq Created(l)
    BY <1>1 DEF WithKey, Created, AnyOfKind
  <2> HIDE DEF g
  <2>3. Earliest(WithKey(l, t, h, g)) \in Created(l)
    BY <2>1, <2>2, EarliestIn
  <2>4. l[Earliest(WithKey(l, t, h, g))].attempt # NoAttempt
    BY <2>3
  <2> QED BY <2>1, <2>4 DEF Original, g
<1>3. ASSUME NEW i \in Created(l), l[i].body.task = t
      PROVE  l[i].body.hash = h
  <2>1. CASE of = NoAttempt
    BY <1>3, <2>1 DEF Refusal
  <2>2. CASE of # NoAttempt
    <3>1. /\ Births(l, of) # {}
          /\ l[Earliest(Births(l, of))].body.task = t
          /\ l[Earliest(Births(l, of))].body.hash = h
      BY <2>2 DEF Refusal
    <3>2. Births(l, of) \in SUBSET Nat /\ Births(l, of) \subseteq Created(l)
      BY <1>1 DEF Births, OfKind, Created, AnyOfKind
    <3>3. Earliest(Births(l, of)) \in Created(l)
      BY <3>1, <3>2, EarliestIn
    <3> QED BY <1>3, <3>1, <3>3 DEF OneAttemptPerKey
  <2> QED BY <2>1, <2>2
<1>4. ASSUME NEW i \in Created(l), l[i].body.task = t
      PROVE  l[i].body.generation # g
  BY <1>2, <1>3, <1>4 DEF WithKey
<1> QED BY <1>3, <1>4

\* A creation under a key of its own keeps the keys apart.
LEMMA KeysAdmitted ==
    ASSUME NEW l \in Seq(Envelopes), NEW e \in Envelopes, OneAttemptPerKey(l),
           \A i \in Created(l) : l[i].body.task = e.body.task =>
              /\ l[i].body.hash = e.body.hash
              /\ l[i].body.generation # e.body.generation
    PROVE  OneAttemptPerKey(Append(l, e))
<1> DEFINE r == Append(l, e)
           m == Len(l) + 1
<1>1. /\ DOMAIN l = 1..Len(l) /\ Len(l) \in Nat
      /\ DOMAIN r = 1..m
      /\ \A i \in DOMAIN l : r[i] = l[i]
      /\ r[m] = e
  BY AppendFacts
<1> HIDE DEF r
<1>2. Created(r) \subseteq Created(l) \union {m} /\ \A i \in Created(l) : r[i] = l[i]
  BY <1>1 DEF Created, AnyOfKind
<1> HIDE DEF m
<1>3. OneAttemptPerKey(r)
  BY <1>1, <1>2 DEF OneAttemptPerKey
<1> QED BY <1>3 DEF r

-----------------------------------------------------------------------------
(* A ledger whose books are in order: every attempt in it resolves, is      *)
(* judged once at most and only on the evidence filed with it, and every    *)
(* task said to be satisfied is so by a success.  What must be true of a    *)
(* receipt for the books to stay in order when it is appended.              *)

\* The states of an attempt whose outputs were committed, and of a judged one.
Committed == {"commit_pending", "validating", "classifying", "terminal", "closed"}
Over == {"terminal", "closed"}

\* The evidence a success stands on.
Proven(l, x) ==
    /\ \E j \in OfKind(l, x, "commit") :
          /\ l[j].body.generation = CurrentGeneration(l, x)
          /\ \A n \in Required :
                /\ l[j].body.artifacts[n] = "verified"
                /\ \A v \in Validators : \E i \in OfKind(l, x, "validation") :
                      j < i /\ l[i].body = Validation(n, v, "passed")
    /\ OfKind(l, x, "abort_cause") = {} /\ OfKind(l, x, "quarantine") = {}
    /\ Exceeded(l, x, {"step", "run", "reserve"}) = {}

\* One commit, behind the current fence; validations only after it; one
\* verdict, a success only if proven, and none but these two if cancelled.
OneCommit(l, x) ==
    /\ \A i, j \in OfKind(l, x, "commit") : i = j
    /\ \A i \in OfKind(l, x, "commit") :
          /\ l[i].body.generation = CurrentGeneration(l, x)
          /\ StateOf(l, x) \in Committed
    /\ \A i \in OfKind(l, x, "validation") : \E j \in OfKind(l, x, "commit") : j < i

VerdictEarned(l, x) ==
    /\ \A i, j \in OfKind(l, x, "terminal") : i = j
    /\ \A i \in OfKind(l, x, "terminal") :
          /\ l[i].body.outcome = "success" => Proven(l, x)
          /\ OfKind(l, x, "abort_cause") # {} => l[i].body.outcome \in {"cancelled", "unknown"}

Filed(l, x) == OneCommit(l, x) /\ VerdictEarned(l, x)

Resolves(l) ==
    /\ NoAttempt \notin CreatedIn(l)
    /\ \A x \in CreatedIn(l) : ResolveState(l, x) \in States
    /\ \A i \in DOMAIN l :
          \/ l[i].attempt \in CreatedIn(l)
          \/ l[i].body.kind = "selection" /\ ~l[i].body.satisfied

WellChosen(l) ==
    \A i \in AnyOfKind(l, "selection") : l[i].body.satisfied =>
        /\ Succeeded(l, l[i].body.selected)
        /\ \E b \in Births(l, l[i].body.selected) : l[b].body.task = l[i].body.task

Book(l) ==
    /\ l \in Seq(Envelopes)
    /\ Resolves(l) /\ WellChosen(l) /\ OneAttemptPerKey(l)
    /\ \A x : Filed(l, x)

\* Between two steps, a verdict and the end of an attempt go together, and so do
\* a commit and the state it leads to.
Rest(l, x) ==
    /\ OfKind(l, x, "terminal") # {} <=> StateOf(l, x) \in Over
    /\ Succeeded(l, x) => StateOf(l, x) = "closed"
    /\ StateOf(l, x) = "commit_pending" => OfKind(l, x, "commit") # {}

\* What a recovery needs of every attempt: a fence it may raise.
Guarded(l) == \A x \in CreatedIn(l) : Fences(l, x) # {}

\* Books at rest, fenced, and ahead of every generation a run in R was given.
InOrder(l, R) ==
    /\ Book(l) /\ \A x : Rest(l, x)
    /\ Guarded(l)
    /\ \A r \in R : r.generation <= CurrentGeneration(l, r.attempt)

-----------------------------------------------------------------------------
(* Logs that grow. *)

Extends(l, r) == Len(l) <= Len(r) /\ \A i \in 1..Len(l) : r[i] = l[i]

\* r is l and some receipts of attempt a, of kinds in K.
Adds(l, r, a, K) ==
    /\ Extends(l, r)
    /\ \A i \in DOMAIN r \ DOMAIN l : r[i].attempt = a /\ r[i].body.kind \in K

LEMMA ExtendsTwice ==
    ASSUME NEW l \in Seq(Envelopes), NEW q \in Seq(Envelopes), NEW r \in Seq(Envelopes),
           Extends(l, q), Extends(q, r)
    PROVE  Extends(l, r)
BY DEF Extends

LEMMA AddsNone ==
    ASSUME NEW l \in Seq(Envelopes), NEW a, NEW K
    PROVE  Adds(l, l, a, K)
BY DEF Adds, Extends

LEMMA AddsOne ==
    ASSUME NEW l \in Seq(Envelopes), NEW r \in Seq(Envelopes), NEW a, NEW K, Adds(l, r, a, K),
           NEW e \in Envelopes, e.attempt = a, e.body.kind \in K
    PROVE  Adds(l, Append(r, e), a, K)
<1> DEFINE q == Append(r, e)
<1>1. /\ Len(l) \in Nat /\ Len(r) \in Nat /\ DOMAIN l = 1..Len(l) /\ DOMAIN r = 1..Len(r)
      /\ Len(q) = Len(r) + 1 /\ DOMAIN q = 1..(Len(r) + 1)
      /\ \A i \in 1..Len(r) : q[i] = r[i]
      /\ q[Len(r) + 1] = e
  OBVIOUS
<1> HIDE DEF q
<1>2. Extends(l, q)
  BY <1>1 DEF Adds, Extends
<1>3. ASSUME NEW i \in DOMAIN q \ DOMAIN l
      PROVE  q[i].attempt = a /\ q[i].body.kind \in K
  <2>1. CASE i = Len(r) + 1
    BY <1>1, <2>1
  <2>2. CASE i \in DOMAIN r
    BY <1>1, <2>2 DEF Adds
  <2> QED BY <1>1, <2>1, <2>2
<1>4. Adds(l, q, a, K)
  BY <1>2, <1>3 DEF Adds
<1> QED BY <1>4 DEF q

\* Other attempts and other kinds are left as they were.
LEMMA AddsKeep ==
    ASSUME NEW l \in Seq(Envelopes), NEW r \in Seq(Envelopes), NEW a, NEW K, Adds(l, r, a, K)
    PROVE  /\ Extends(l, r)
           /\ \A x, k : x # a \/ k \notin K => OfKind(r, x, k) = OfKind(l, x, k)
           /\ \A k : k \notin K => AnyOfKind(r, k) = AnyOfKind(l, k)
<1>1. /\ Len(l) \in Nat /\ Len(r) \in Nat /\ DOMAIN l = 1..Len(l) /\ DOMAIN r = 1..Len(r)
      /\ Len(l) <= Len(r) /\ \A i \in DOMAIN l : r[i] = l[i]
      /\ \A i \in DOMAIN r \ DOMAIN l : r[i].attempt = a /\ r[i].body.kind \in K
  BY DEF Adds, Extends
<1>2. DOMAIN l \subseteq DOMAIN r
  BY <1>1
<1>3. ASSUME NEW x, NEW k, x # a \/ k \notin K
      PROVE  OfKind(r, x, k) = OfKind(l, x, k)
  <2>1. ASSUME NEW i
        PROVE  i \in OfKind(r, x, k) <=> i \in OfKind(l, x, k)
    BY <1>1, <1>2, <1>3, Zenon DEF OfKind
  <2> QED BY <2>1
<1>4. ASSUME NEW k, k \notin K
      PROVE  AnyOfKind(r, k) = AnyOfKind(l, k)
  <2>1. ASSUME NEW i
        PROVE  i \in AnyOfKind(r, k) <=> i \in AnyOfKind(l, k)
    BY <1>1, <1>2, <1>4, Zenon DEF AnyOfKind
  <2> QED BY <2>1
<1>5. Extends(l, r)
  BY DEF Adds
<1> QED BY <1>3, <1>4, <1>5

\* One receipt leaves the other kinds of its attempt as they were.
LEMMA OthersKept ==
    ASSUME NEW l \in Seq(Envelopes), NEW e \in Envelopes
    PROVE  \A k : k # e.body.kind =>
              OfKind(Append(l, e), e.attempt, k) = OfKind(l, e.attempt, k)
<1> DEFINE r == Append(l, e)
<1>1. Adds(l, r, e.attempt, {e.body.kind})
  <2>1. Adds(l, l, e.attempt, {e.body.kind})
    BY AddsNone
  <2> QED BY <2>1, AddsOne
<1>2. r \in Seq(Envelopes)
  OBVIOUS
<1> HIDE DEF r
<1>3. \A k : k \notin {e.body.kind} => OfKind(r, e.attempt, k) = OfKind(l, e.attempt, k)
  BY <1>1, <1>2, AddsKeep
<1> QED BY <1>3 DEF r

\* Whatever grows keeps what it has.
LEMMA ExtendsKeep ==
    ASSUME NEW l \in Seq(Envelopes), NEW r \in Seq(Envelopes), Extends(l, r), NEW x, NEW k
    PROVE  /\ OfKind(l, x, k) \subseteq OfKind(r, x, k)
           /\ AnyOfKind(l, k) \subseteq AnyOfKind(r, k)
           /\ OfKind(l, x, k) \subseteq 1..Len(l) /\ Len(l) \in Nat
           /\ \A i \in OfKind(l, x, k) : r[i] = l[i] /\ i \in 1..Len(l)
           /\ \A i \in AnyOfKind(l, k) : r[i] = l[i] /\ i \in 1..Len(l)
BY DEF Extends, OfKind, AnyOfKind

\* The readings of an attempt that got no receipt they depend on.
LEMMA StateKept ==
    ASSUME NEW l \in Seq(Envelopes), NEW r \in Seq(Envelopes), Extends(l, r), NEW x,
           OfKind(r, x, "transition") = OfKind(l, x, "transition")
    PROVE  StateOf(r, x) = StateOf(l, x)
<1>1. Moves(r, x) = Moves(l, x) /\ Len(l) \in Nat /\ Moves(l, x) \subseteq 1..Len(l)
  BY ExtendsKeep DEF Moves
<1>2. CASE Moves(l, x) = {}
  BY <1>1, <1>2 DEF StateOf
<1>3. CASE Moves(l, x) # {}
  <2>1. PICK i \in 1..Len(l) : i = Latest(Moves(l, x))
    BY <1>1, <1>3, LatestIn
  <2>2. r[i] = l[i]
    BY DEF Extends
  <2> QED BY <1>1, <1>3, <2>1, <2>2 DEF StateOf
<1> QED BY <1>2, <1>3

LEMMA ResolveKept ==
    ASSUME NEW l \in Seq(Envelopes), NEW r \in Seq(Envelopes), Extends(l, r), NEW x,
           OfKind(r, x, "transition") = OfKind(l, x, "transition"),
           OfKind(r, x, "attempt_created") = OfKind(l, x, "attempt_created")
    PROVE  ResolveState(r, x) = ResolveState(l, x)
<1>1. /\ Moves(r, x) = Moves(l, x) /\ Len(l) \in Nat /\ Moves(l, x) \subseteq 1..Len(l)
      /\ Births(r, x) = Births(l, x)
      /\ \A i \in 1..Len(l) : r[i] = l[i]
  BY ExtendsKeep DEF Moves, Births, Extends
<1>2. StateOf(r, x) = StateOf(l, x)
  BY StateKept
<1>3. ASSUME NEW m
      PROVE  StateBefore(r, x, m) = StateBefore(l, x, m)
  <2> DEFINE S == {j \in Moves(l, x) : j < m}
  <2>1. S \in SUBSET (1..Len(l)) /\ S = {j \in Moves(r, x) : j < m}
    BY <1>1
  <2>2. /\ StateBefore(l, x, m) = IF S = {} THEN "created" ELSE l[Latest(S)].body.to
        /\ StateBefore(r, x, m) = IF S = {} THEN "created" ELSE r[Latest(S)].body.to
    BY <2>1 DEF StateBefore
  <2> HIDE DEF S
  <2>3. S # {} => Latest(S) \in 1..Len(l)
    BY <1>1, <2>1, LatestIn
  <2> QED BY <1>1, <2>2, <2>3
<1>4. ChainLinks(r, x) <=> ChainLinks(l, x)
  BY <1>1, <1>3 DEF ChainLinks
<1> QED BY <1>1, <1>2, <1>4 DEF ResolveState

LEMMA GenerationKept ==
    ASSUME NEW l \in Seq(Envelopes), NEW r \in Seq(Envelopes), Extends(l, r), NEW x,
           OfKind(r, x, "fence_generation") = OfKind(l, x, "fence_generation")
    PROVE  CurrentGeneration(r, x) = CurrentGeneration(l, x)
<1>1. Fences(r, x) = Fences(l, x) /\ Len(l) \in Nat /\ Fences(l, x) \subseteq 1..Len(l)
  BY ExtendsKeep DEF Fences
<1>2. CASE Fences(l, x) = {}
  BY <1>1, <1>2 DEF CurrentGeneration
<1>3. CASE Fences(l, x) # {}
  <2>1. PICK i \in 1..Len(l) : i = Latest(Fences(l, x))
    BY <1>1, <1>3, LatestIn
  <2>2. r[i] = l[i]
    BY DEF Extends
  <2> QED BY <1>1, <1>3, <2>1, <2>2 DEF CurrentGeneration
<1> QED BY <1>2, <1>3

\* The generation a new fence sets.
LEMMA GenerationSet ==
    ASSUME NEW l \in Seq(Envelopes), NEW e \in Envelopes, e.body.kind = "fence_generation"
    PROVE  CurrentGeneration(Append(l, e), e.attempt) = e.body.generation
<1> DEFINE r == Append(l, e)
           n == Len(l) + 1
           F == Fences(r, e.attempt)
<1>1. /\ Len(l) \in Nat /\ r[n] = e
  BY AppendFacts
<1>2. F \in SUBSET (1..n) /\ n \in F
  <2>1. OfKind(r, e.attempt, "fence_generation") =
           OfKind(l, e.attempt, "fence_generation") \union {Len(l) + 1}
    BY OfKindAppend
  <2>2. OfKind(l, e.attempt, "fence_generation") \subseteq 1..Len(l)
    BY OfKindAppend
  <2> QED BY <1>1, <2>1, <2>2 DEF Fences
<1>3. CurrentGeneration(r, e.attempt) = r[Latest(F)].body.generation
  BY <1>2 DEF CurrentGeneration
<1> HIDE DEF F, r
<1>4. Latest(F) \in 1..n /\ n <= Latest(F) /\ n \in Nat
  <2>1. n \in Nat /\ F # {}
    BY <1>1, <1>2
  <2> HIDE DEF n
  <2> QED BY <1>2, <2>1, LatestIn
<1>5. Latest(F) = n
  BY <1>1, <1>4
<1> QED BY <1>1, <1>3, <1>5 DEF r

-----------------------------------------------------------------------------
(* What keeps the file of one attempt in order. *)

FiledKinds == {"commit", "validation", "terminal", "abort_cause", "quarantine", "budget",
               "fence_generation"}

LEMMA ExceededKept ==
    ASSUME NEW l \in Seq(Envelopes), NEW r \in Seq(Envelopes), Extends(l, r), NEW x, NEW scopes,
           OfKind(r, x, "budget") = OfKind(l, x, "budget")
    PROVE  Exceeded(r, x, scopes) = Exceeded(l, x, scopes)
<1>1. \A i \in OfKind(l, x, "budget") : r[i] = l[i]
  BY ExtendsKeep
<1> QED BY <1>1 DEF Exceeded

LEMMA ProvenKept ==
    ASSUME NEW l \in Seq(Envelopes), NEW r \in Seq(Envelopes), Extends(l, r), NEW x,
           \A k \in FiledKinds \ {"terminal"} : OfKind(r, x, k) = OfKind(l, x, k),
           Proven(l, x)
    PROVE  Proven(r, x)
<1>1. /\ OfKind(r, x, "commit") = OfKind(l, x, "commit")
      /\ OfKind(r, x, "validation") = OfKind(l, x, "validation")
      /\ OfKind(r, x, "abort_cause") = OfKind(l, x, "abort_cause")
      /\ OfKind(r, x, "quarantine") = OfKind(l, x, "quarantine")
      /\ OfKind(r, x, "budget") = OfKind(l, x, "budget")
      /\ OfKind(r, x, "fence_generation") = OfKind(l, x, "fence_generation")
  BY DEF FiledKinds
<1>2. /\ \A i \in OfKind(l, x, "commit") : r[i] = l[i]
      /\ \A i \in OfKind(l, x, "validation") : r[i] = l[i]
  BY ExtendsKeep
<1>3. CurrentGeneration(r, x) = CurrentGeneration(l, x)
  BY <1>1, GenerationKept
<1>4. Exceeded(r, x, {"step", "run", "reserve"}) = Exceeded(l, x, {"step", "run", "reserve"})
  BY <1>1, ExceededKept
<1> QED BY <1>1, <1>2, <1>3, <1>4 DEF Proven

\* Receipts of other kinds, and moves that stay among the committed states.
LEMMA FiledKept ==
    ASSUME NEW l \in Seq(Envelopes), NEW r \in Seq(Envelopes), Extends(l, r), NEW x,
           \A k \in FiledKinds : OfKind(r, x, k) = OfKind(l, x, k),
           OfKind(l, x, "commit") # {} => StateOf(r, x) \in Committed,
           Filed(l, x)
    PROVE  Filed(r, x)
<1>1. /\ OfKind(r, x, "commit") = OfKind(l, x, "commit")
      /\ OfKind(r, x, "validation") = OfKind(l, x, "validation")
      /\ OfKind(r, x, "terminal") = OfKind(l, x, "terminal")
      /\ OfKind(r, x, "abort_cause") = OfKind(l, x, "abort_cause")
      /\ OfKind(r, x, "fence_generation") = OfKind(l, x, "fence_generation")
  BY DEF FiledKinds
<1>2. /\ \A i \in OfKind(l, x, "commit") : r[i] = l[i]
      /\ \A i \in OfKind(l, x, "terminal") : r[i] = l[i]
  BY ExtendsKeep
<1>3. CurrentGeneration(r, x) = CurrentGeneration(l, x)
  BY <1>1, GenerationKept
<1>4. Proven(l, x) => Proven(r, x)
  BY ProvenKept
<1>5. OneCommit(r, x)
  BY <1>1, <1>2, <1>3 DEF OneCommit, Filed
<1>6. VerdictEarned(r, x)
  BY <1>1, <1>2, <1>4 DEF VerdictEarned, Filed
<1> QED BY <1>5, <1>6 DEF Filed

\* An attempt without a verdict: only its commit, its validations and its fence matter.
LEMMA FiledOpen ==
    ASSUME NEW l \in Seq(Envelopes), NEW r \in Seq(Envelopes), Extends(l, r), NEW x,
           \A k \in {"commit", "validation"} : OfKind(r, x, k) = OfKind(l, x, k),
           OfKind(l, x, "commit") # {} =>
              /\ StateOf(r, x) = StateOf(l, x)
              /\ OfKind(r, x, "fence_generation") = OfKind(l, x, "fence_generation"),
           OfKind(r, x, "terminal") = {}, Filed(l, x)
    PROVE  Filed(r, x)
<1>1. /\ OfKind(r, x, "commit") = OfKind(l, x, "commit")
      /\ OfKind(r, x, "validation") = OfKind(l, x, "validation")
      /\ \A i \in OfKind(l, x, "commit") : r[i] = l[i]
  BY ExtendsKeep
<1>2. OfKind(l, x, "commit") # {} => CurrentGeneration(r, x) = CurrentGeneration(l, x)
  BY GenerationKept
<1>3. OneCommit(r, x)
  BY <1>1, <1>2 DEF OneCommit, Filed
<1>4. VerdictEarned(r, x)
  BY DEF VerdictEarned
<1> QED BY <1>3, <1>4 DEF Filed

\* Without a commit there are no validations, and the first commit may be filed
\* under the current fence.
LEMMA FiledCommit ==
    ASSUME NEW l \in Seq(Envelopes), NEW e \in Envelopes, e.body.kind = "commit",
           OfKind(l, e.attempt, "commit") = {}, OfKind(l, e.attempt, "terminal") = {},
           e.body.generation = CurrentGeneration(l, e.attempt),
           StateOf(l, e.attempt) \in Committed, Filed(l, e.attempt)
    PROVE  Filed(Append(l, e), e.attempt)
<1> DEFINE r == Append(l, e)
           x == e.attempt
<1>1. /\ r \in Seq(Envelopes) /\ Extends(l, r) /\ r[Len(l) + 1] = e
  BY AppendFacts DEF Extends
<1>2. /\ OfKind(r, x, "commit") = {Len(l) + 1}
      /\ OfKind(r, x, "validation") = OfKind(l, x, "validation")
      /\ OfKind(r, x, "terminal") = {}
      /\ OfKind(r, x, "fence_generation") = OfKind(l, x, "fence_generation")
      /\ OfKind(r, x, "transition") = OfKind(l, x, "transition")
  <2>1. OfKind(r, x, "commit") = OfKind(l, x, "commit") \union {Len(l) + 1}
    BY OfKindAppend
  <2> QED BY <2>1, OthersKept
<1>3. OfKind(l, x, "validation") = {}
  BY DEF Filed, OneCommit
<1> HIDE DEF r, x
<1>4. CurrentGeneration(r, x) = CurrentGeneration(l, x) /\ StateOf(r, x) = StateOf(l, x)
  BY <1>1, <1>2, GenerationKept, StateKept
<1>5. OneCommit(r, x)
  BY <1>1, <1>2, <1>3, <1>4 DEF OneCommit, x
<1>6. VerdictEarned(r, x)
  BY <1>2 DEF VerdictEarned
<1>7. Filed(r, x)
  BY <1>5, <1>6 DEF Filed
<1> QED BY <1>7 DEF r, x

\* Validations and quarantines after the commit.
LEMMA FiledRulings ==
    ASSUME NEW l \in Seq(Envelopes), NEW r \in Seq(Envelopes), NEW x,
           Adds(l, r, x, {"validation", "quarantine"}),
           OfKind(l, x, "commit") # {}, OfKind(l, x, "terminal") = {}, Filed(l, x)
    PROVE  Filed(r, x)
<1>1. /\ Extends(l, r)
      /\ \A k : k \notin {"validation", "quarantine"} => OfKind(r, x, k) = OfKind(l, x, k)
  BY AddsKeep
<1>2. /\ OfKind(r, x, "commit") = OfKind(l, x, "commit")
      /\ OfKind(r, x, "terminal") = {}
      /\ OfKind(r, x, "fence_generation") = OfKind(l, x, "fence_generation")
      /\ OfKind(r, x, "transition") = OfKind(l, x, "transition")
  BY <1>1
<1>3. CurrentGeneration(r, x) = CurrentGeneration(l, x) /\ StateOf(r, x) = StateOf(l, x)
      /\ \A i \in OfKind(l, x, "commit") : r[i] = l[i] /\ i \in 1..Len(l)
  BY <1>1, <1>2, GenerationKept, StateKept, ExtendsKeep
<1>4. \A i \in OfKind(r, x, "validation") : \E j \in OfKind(r, x, "commit") : j < i
  <2> TAKE i \in OfKind(r, x, "validation")
  <2>1. /\ Len(l) \in Nat /\ Len(r) \in Nat /\ i \in 1..Len(r) /\ r[i].attempt = x
        /\ r[i].body.kind = "validation" /\ DOMAIN l = 1..Len(l)
    BY DEF OfKind
  <2>2. CASE i \in 1..Len(l)
    <3>1. i \in OfKind(l, x, "validation")
      BY <1>1, <2>1, <2>2 DEF OfKind, Extends
    <3> QED BY <1>2, <3>1 DEF Filed, OneCommit
  <2>3. CASE i \notin 1..Len(l)
    <3>1. PICK j \in OfKind(l, x, "commit") : j \in 1..Len(l)
      BY <1>3
    <3>2. j < i
      BY <2>1, <2>3, <3>1
    <3> QED BY <1>2, <3>2
  <2> QED BY <2>2, <2>3
<1>5. OneCommit(r, x)
  BY <1>2, <1>3, <1>4 DEF OneCommit, Filed
<1>6. VerdictEarned(r, x)
  BY <1>2 DEF VerdictEarned
<1> QED BY <1>5, <1>6 DEF Filed

\* A first verdict, that its evidence allows.
LEMMA FiledVerdict ==
    ASSUME NEW l \in Seq(Envelopes), NEW e \in Envelopes, e.body.kind = "terminal",
           OfKind(l, e.attempt, "terminal") = {}, Filed(l, e.attempt),
           e.body.outcome = "success" => Proven(l, e.attempt),
           OfKind(l, e.attempt, "abort_cause") # {} => e.body.outcome \in {"cancelled", "unknown"}
    PROVE  Filed(Append(l, e), e.attempt)
<1> DEFINE r == Append(l, e)
           x == e.attempt
<1>1. /\ r \in Seq(Envelopes) /\ Extends(l, r) /\ r[Len(l) + 1] = e
  BY AppendFacts DEF Extends
<1>2. /\ \A k \in FiledKinds \ {"terminal"} : OfKind(r, x, k) = OfKind(l, x, k)
      /\ OfKind(r, x, "terminal") = {Len(l) + 1}
      /\ OfKind(r, x, "transition") = OfKind(l, x, "transition")
  BY OfKindAppend DEF FiledKinds
<1>3. /\ OfKind(r, x, "commit") = OfKind(l, x, "commit")
      /\ OfKind(r, x, "validation") = OfKind(l, x, "validation")
      /\ OfKind(r, x, "abort_cause") = OfKind(l, x, "abort_cause")
      /\ OfKind(r, x, "fence_generation") = OfKind(l, x, "fence_generation")
  BY <1>2 DEF FiledKinds
<1> HIDE DEF r, x
<1>4. CurrentGeneration(r, x) = CurrentGeneration(l, x) /\ StateOf(r, x) = StateOf(l, x)
      /\ \A i \in OfKind(l, x, "commit") : r[i] = l[i]
  BY <1>1, <1>2, <1>3, GenerationKept, StateKept, ExtendsKeep
<1>5. Proven(l, x) => Proven(r, x)
  BY <1>1, <1>2, ProvenKept
<1>6. OneCommit(r, x)
  BY <1>3, <1>4 DEF OneCommit, Filed, x
<1>7. VerdictEarned(r, x)
  BY <1>1, <1>2, <1>3, <1>5 DEF VerdictEarned, x
<1>8. Filed(r, x)
  BY <1>6, <1>7 DEF Filed
<1> QED BY <1>8 DEF r, x

-----------------------------------------------------------------------------
(* What keeps all the books in order. *)

LEMMA CreatedInIs ==
    ASSUME NEW l \in Seq(Envelopes), NEW x
    PROVE  x \in CreatedIn(l) <=> Births(l, x) # {}
BY DEF CreatedIn, Created, AnyOfKind, Births, OfKind

LEMMA SucceededKept ==
    ASSUME NEW l \in Seq(Envelopes), NEW r \in Seq(Envelopes), Extends(l, r), NEW x,
           Succeeded(l, x)
    PROVE  Succeeded(r, x)
<1>1. PICK i \in OfKind(l, x, "terminal") : l[i].body.outcome = "success"
  BY DEF Succeeded
<1>2. i \in OfKind(r, x, "terminal") /\ r[i] = l[i]
  BY ExtendsKeep
<1> QED BY <1>1, <1>2 DEF Succeeded

\* What is chosen stays well chosen.
LEMMA ChoicesKept ==
    ASSUME NEW l \in Seq(Envelopes), NEW r \in Seq(Envelopes), Extends(l, r),
           AnyOfKind(r, "selection") = AnyOfKind(l, "selection"), WellChosen(l)
    PROVE  WellChosen(r)
<1> SUFFICES ASSUME NEW i \in AnyOfKind(l, "selection"), r[i].body.satisfied
             PROVE  /\ Succeeded(r, r[i].body.selected)
                    /\ \E b \in Births(r, r[i].body.selected) : r[b].body.task = r[i].body.task
  BY DEF WellChosen
<1> DEFINE c == l[i].body.selected
           t == l[i].body.task
<1>1. r[i] = l[i]
  BY DEF Extends, AnyOfKind
<1>2. Succeeded(l, c)
  BY <1>1 DEF WellChosen
<1>3. PICK b \in Births(l, c) : l[b].body.task = t
  BY <1>1 DEF WellChosen
<1> HIDE DEF c, t
<1>4. Succeeded(r, c)
  BY <1>2, SucceededKept
<1>5. b \in Births(r, c) /\ r[b] = l[b]
  BY <1>3, ExtendsKeep DEF Births
<1> QED BY <1>1, <1>3, <1>4, <1>5 DEF c, t

LEMMA AddsTwice ==
    ASSUME NEW l \in Seq(Envelopes), NEW q \in Seq(Envelopes), NEW r \in Seq(Envelopes),
           NEW a, NEW K, Adds(l, q, a, K), Adds(q, r, a, K)
    PROVE  Adds(l, r, a, K)
<1>1. Extends(l, r) /\ Extends(q, r)
  BY ExtendsTwice DEF Adds
<1>2. \A i \in DOMAIN q : r[i] = q[i]
  BY <1>1 DEF Extends
<1>3. ASSUME NEW i \in DOMAIN r \ DOMAIN l
      PROVE  r[i].attempt = a /\ r[i].body.kind \in K
  <2>1. CASE i \in DOMAIN q
    BY <1>2, <1>3, <2>1 DEF Adds
  <2>2. CASE i \notin DOMAIN q
    BY <1>3, <2>2 DEF Adds
  <2> QED BY <2>1, <2>2
<1> QED BY <1>1, <1>3 DEF Adds

\* Receipts of a created attempt, neither creations nor choices, after which it
\* resolves and its file is in order.
LEMMA BookAdds ==
    ASSUME NEW l, Book(l), NEW r \in Seq(Envelopes), NEW a \in CreatedIn(l),
           NEW K, Adds(l, r, a, K), "attempt_created" \notin K, "selection" \notin K,
           ResolveState(r, a) \in States, Filed(r, a)
    PROVE  Book(r) /\ CreatedIn(r) = CreatedIn(l)
<1>1. /\ l \in Seq(Envelopes) /\ DOMAIN l \subseteq DOMAIN r
      /\ \A i \in DOMAIN l : r[i] = l[i]
      /\ \A i \in DOMAIN r \ DOMAIN l : r[i].attempt = a /\ r[i].body.kind \in K
  BY DEF Book, Adds, Extends
<1>2. /\ Extends(l, r)
      /\ \A x, k : x # a \/ k \notin K => OfKind(r, x, k) = OfKind(l, x, k)
      /\ \A k : k \notin K => AnyOfKind(r, k) = AnyOfKind(l, k)
  BY <1>1, AddsKeep
<1>3. /\ Created(r) = Created(l) /\ AnyOfKind(r, "selection") = AnyOfKind(l, "selection")
      /\ Created(l) \subseteq DOMAIN l
  BY <1>2 DEF Created, AnyOfKind
<1>4. CreatedIn(r) = CreatedIn(l)
  BY <1>1, <1>3 DEF CreatedIn
<1>5. Resolves(r)
  <2>1. ASSUME NEW x \in CreatedIn(r) PROVE ResolveState(r, x) \in States
    <3>1. CASE x = a
      BY <3>1
    <3>2. CASE x # a
      <4>1. ResolveState(r, x) = ResolveState(l, x)
        BY <1>1, <1>2, <3>2, ResolveKept
      <4> QED BY <1>4, <4>1 DEF Book, Resolves
    <3> QED BY <3>1, <3>2
  <2>2. ASSUME NEW i \in DOMAIN r
        PROVE  \/ r[i].attempt \in CreatedIn(r)
               \/ r[i].body.kind = "selection" /\ ~r[i].body.satisfied
    <3>1. CASE i \in DOMAIN l
      BY <1>1, <1>4, <3>1 DEF Book, Resolves
    <3>2. CASE i \notin DOMAIN l
      BY <1>1, <1>4, <3>2
    <3> QED BY <3>1, <3>2
  <2> QED BY <1>4, <2>1, <2>2 DEF Resolves, Book
<1>6. WellChosen(r)
  BY <1>1, <1>2, <1>3, ChoicesKept DEF Book
<1>7. OneAttemptPerKey(r)
  BY <1>1, <1>3 DEF Book, OneAttemptPerKey
<1>8. ASSUME NEW x PROVE Filed(r, x)
  <2>1. CASE x = a
    BY <2>1
  <2>2. CASE x # a
    <3>1. StateOf(r, x) = StateOf(l, x)
      BY <1>1, <1>2, <2>2, StateKept
    <3>2. \A k \in FiledKinds : OfKind(r, x, k) = OfKind(l, x, k)
      BY <1>2, <2>2
    <3>3. Filed(l, x)
      BY DEF Book
    <3>4. OfKind(l, x, "commit") # {} => StateOf(r, x) \in Committed
      BY <3>1, <3>3 DEF Filed, OneCommit
    <3> QED BY <1>1, <1>2, <3>2, <3>3, <3>4, FiledKept
  <2> QED BY <2>1, <2>2
<1> QED BY <1>4, <1>5, <1>6, <1>7, <1>8 DEF Book

\* The books r, grown out of the books l by receipts of a created attempt.
Grown(l, r, a, K) ==
    /\ Book(r) /\ a \in CreatedIn(r) /\ CreatedIn(r) = CreatedIn(l)
    /\ Adds(l, r, a, K)

\* What an attempt may still receive.
Entries == {"transition", "fence_generation", "abort_cause", "capture", "environment",
            "budget", "commit", "validation", "quarantine", "terminal"}

LEMMA GrownNone ==
    ASSUME NEW l, Book(l), NEW a \in CreatedIn(l), NEW K
    PROVE  Grown(l, l, a, K)
BY AddsNone DEF Grown, Book

\* Receipts that are no transitions, filed in order.
LEMMA GrownBy ==
    ASSUME NEW l, NEW q, NEW r \in Seq(Envelopes), NEW a, NEW K \in SUBSET Entries,
           l \in Seq(Envelopes), Grown(l, q, a, K),
           Adds(q, r, a, K \ {"transition"}), Filed(r, a)
    PROVE  Grown(l, r, a, K) /\ StateOf(r, a) = StateOf(q, a)
<1>1. q \in Seq(Envelopes) /\ Book(q) /\ a \in CreatedIn(q) /\ Adds(l, q, a, K)
  BY DEF Grown, Book
<1>2. /\ Extends(q, r) /\ "attempt_created" \notin K /\ "selection" \notin K
      /\ OfKind(r, a, "transition") = OfKind(q, a, "transition")
      /\ OfKind(r, a, "attempt_created") = OfKind(q, a, "attempt_created")
  <2>1. "attempt_created" \notin K /\ "selection" \notin K
    BY DEF Entries
  <2> QED BY <1>1, <2>1, AddsKeep
<1>3. ResolveState(r, a) = ResolveState(q, a) /\ StateOf(r, a) = StateOf(q, a)
  BY <1>1, <1>2, ResolveKept, StateKept
<1>4. ResolveState(r, a) \in States
  BY <1>1, <1>3 DEF Book, Resolves
<1>5. Book(r) /\ CreatedIn(r) = CreatedIn(q)
  BY <1>1, <1>2, <1>4, BookAdds
<1>6. Adds(q, r, a, K)
  BY DEF Adds
<1>7. Adds(l, r, a, K)
  BY <1>1, <1>6, AddsTwice
<1> QED BY <1>3, <1>5, <1>7 DEF Grown

\* The edges along which attempts move.
Edges ==
    Pipeline \union {<<"terminal", "closed">>, <<"running", "recovery_pending">>,
        <<"created", "classifying">>, <<"admitted", "classifying">>,
        <<"preparing", "classifying">>, <<"recovery_pending", "preparing">>,
        <<"classifying", "terminal">>, <<"recovery_pending", "terminal">>}

\* A transition along one of them.
LEMMA GrownMove ==
    ASSUME NEW l, NEW q, NEW a, NEW K \in SUBSET Entries,
           l \in Seq(Envelopes), Grown(l, q, a, K), "transition" \in K,
           NEW e \in Envelopes, e.attempt = a, e.body.kind = "transition",
           e.body.from = ResolveState(q, a), <<e.body.from, e.body.to>> \in Edges
    PROVE  Grown(l, Append(q, e), a, K) /\ StateOf(Append(q, e), a) = e.body.to
<1> DEFINE r == Append(q, e)
<1>1. q \in Seq(Envelopes) /\ Book(q) /\ a \in CreatedIn(q) /\ Adds(l, q, a, K)
  BY DEF Grown, Book
<1>2. /\ r \in Seq(Envelopes) /\ StateOf(r, a) = e.body.to
      /\ ResolveState(r, a) \in States
  <2>1. ResolveState(q, a) \in States
    BY <1>1 DEF Book, Resolves
  <2> QED BY <1>1, <2>1, AppendFacts, StateOfAppend, ChainExtends
<1>3. Adds(q, r, a, {"transition"})
  <2>1. Adds(q, q, a, {"transition"})
    BY <1>1, AddsNone
  <2> QED BY <1>1, <2>1, AddsOne
<1>4. Adds(l, r, a, K)
  BY <1>1, AddsOne
<1> HIDE DEF r
<1>5. /\ Extends(q, r)
      /\ \A k \in FiledKinds : OfKind(r, a, k) = OfKind(q, a, k)
  <2>1. /\ Extends(q, r)
        /\ \A k : k # "transition" => OfKind(r, a, k) = OfKind(q, a, k)
    BY <1>1, <1>2, <1>3, AddsKeep
  <2> QED BY <2>1 DEF FiledKinds
<1>6. Filed(q, a)
  BY <1>1 DEF Book
<1>7. StateOf(q, a) = ResolveState(q, a)
  BY <1>1, ResolvedAttempt DEF Book, Resolves, ResolveState
<1>8. OfKind(q, a, "commit") # {} => StateOf(r, a) \in Committed
  <2>1. StateOf(q, a) \in Committed => e.body.to \in Committed
    BY <1>7 DEF Committed, Edges, Pipeline
  <2> QED BY <1>2, <1>6, <2>1 DEF Filed, OneCommit
<1>9. Filed(r, a)
  BY <1>1, <1>2, <1>5, <1>6, <1>8, FiledKept
<1>10. Book(r) /\ CreatedIn(r) = CreatedIn(q)
  BY <1>1, <1>2, <1>3, <1>9, BookAdds
<1>11. Grown(l, r, a, K) /\ StateOf(r, a) = e.body.to
  BY <1>2, <1>4, <1>10 DEF Grown
<1> QED BY <1>11 DEF r

\* Receipts no judgement rests on but the next one.
LEMMA GrownNotes ==
    ASSUME NEW l \in Seq(Envelopes), NEW q, NEW r \in Seq(Envelopes), NEW a,
           NEW K \in SUBSET Entries, Grown(l, q, a, K),
           NEW N \in SUBSET {"abort_cause", "capture", "environment", "budget", "quarantine"},
           N \subseteq K, Adds(q, r, a, N), OfKind(q, a, "terminal") = {}
    PROVE  Grown(l, r, a, K) /\ StateOf(r, a) = StateOf(q, a)
<1>1. q \in Seq(Envelopes) /\ Filed(q, a)
  BY DEF Grown, Book
<1>2. /\ Extends(q, r)
      /\ \A k : k \notin N => OfKind(r, a, k) = OfKind(q, a, k)
  BY <1>1, AddsKeep
<1>3. /\ \A k \in {"commit", "validation"} : OfKind(r, a, k) = OfKind(q, a, k)
      /\ OfKind(r, a, "terminal") = {}
      /\ OfKind(r, a, "transition") = OfKind(q, a, "transition")
      /\ OfKind(r, a, "fence_generation") = OfKind(q, a, "fence_generation")
  <2>1. /\ "commit" \notin N /\ "validation" \notin N /\ "terminal" \notin N
        /\ "transition" \notin N /\ "fence_generation" \notin N
    OBVIOUS
  <2> QED BY <1>2, <2>1
<1>4. StateOf(r, a) = StateOf(q, a)
  BY <1>1, <1>2, <1>3, StateKept
<1>5. Filed(r, a)
  BY <1>1, <1>2, <1>3, <1>4, FiledOpen
<1>6. Adds(q, r, a, K \ {"transition"})
  BY DEF Adds
<1> QED BY <1>5, <1>6, GrownBy

\* One receipt that is no transition, filed in order.
LEMMA GrownOne ==
    ASSUME NEW l \in Seq(Envelopes), NEW q, NEW a, NEW K \in SUBSET Entries, Grown(l, q, a, K),
           NEW e \in Envelopes, e.attempt = a, e.body.kind \in K, e.body.kind # "transition",
           Filed(Append(q, e), a)
    PROVE  Grown(l, Append(q, e), a, K) /\ StateOf(Append(q, e), a) = StateOf(q, a)
<1> DEFINE r == Append(q, e)
<1>1. q \in Seq(Envelopes) /\ r \in Seq(Envelopes)
  BY DEF Grown, Book
<1>2. Adds(q, r, a, K \ {"transition"})
  <2>1. Adds(q, q, a, K \ {"transition"})
    BY <1>1, AddsNone
  <2> QED BY <1>1, <2>1, AddsOne
<1> HIDE DEF r
<1>3. Filed(r, a)
  BY DEF r
<1>4. Grown(l, r, a, K) /\ StateOf(r, a) = StateOf(q, a)
  BY <1>1, <1>2, <1>3, GrownBy
<1> QED BY <1>4 DEF r

\* A fence in front of an attempt that committed nothing.
LEMMA GrownFence ==
    ASSUME NEW l \in Seq(Envelopes), NEW q, NEW a, NEW K \in SUBSET Entries, Grown(l, q, a, K),
           NEW e \in Envelopes, e.attempt = a, e.body.kind = "fence_generation",
           "fence_generation" \in K,
           OfKind(q, a, "commit") = {}, OfKind(q, a, "terminal") = {}
    PROVE  Grown(l, Append(q, e), a, K) /\ StateOf(Append(q, e), a) = StateOf(q, a)
<1> DEFINE r == Append(q, e)
<1>1. q \in Seq(Envelopes) /\ r \in Seq(Envelopes) /\ Filed(q, a) /\ Extends(q, r)
  BY AppendFacts DEF Grown, Book, Extends
<1>2. \A k : k # "fence_generation" => OfKind(r, a, k) = OfKind(q, a, k)
  BY <1>1, OthersKept
<1> HIDE DEF r
<1>3. Filed(r, a)
  BY <1>1, <1>2, FiledOpen
<1> QED BY <1>3, GrownOne DEF r

\* What the classification finds is so.
LEMMA ClassifyProven ==
    ASSUME NEW l \in Seq(Envelopes), NEW a, Filed(l, a), Classify(l, a) = "success"
    PROVE  Proven(l, a)
<1> DEFINE aborts == OfKind(l, a, "abort_cause")
           C == OfKind(l, a, "commit")
           k0 == l[Earliest(aborts)].body.abort
<1>1. AbortOutcome(k0) # "success" \/ aborts = {}
  <2> SUFFICES ASSUME aborts # {} PROVE AbortOutcome(k0) # "success"
    OBVIOUS
  <2>1. k0 \in Aborts
    <3>1. aborts \in SUBSET Nat /\ aborts # {}
      BY OfKindMember
    <3>2. Earliest(aborts) \in aborts
      BY <3>1, EarliestIn
    <3> QED BY <3>2, OfKindMember, BodyShape
  <2> HIDE DEF k0
  <2> QED BY <2>1 DEF AbortOutcome, Aborts
<1>2. /\ aborts = {} /\ Exceeded(l, a, {"step"}) = {}
      /\ Exceeded(l, a, {"run", "reserve"}) = {} /\ OfKind(l, a, "quarantine") = {}
      /\ C # {} /\ ValidArtifacts(l, a) = Required
  BY <1>1 DEF Classify
<1>3. Exceeded(l, a, {"step", "run", "reserve"}) = {}
  BY <1>2 DEF Exceeded
<1>4. PICK j \in C : j = Latest(C)
  <2>1. C \in SUBSET (1..Len(l)) /\ Len(l) \in Nat
    BY OfKindMember
  <2> QED BY <1>2, <2>1, LatestIn
<1>5. l[j].body.generation = CurrentGeneration(l, a) /\ \A i \in C : i = j
  BY <1>4 DEF Filed, OneCommit
<1>6. ASSUME NEW n \in Required
      PROVE  /\ l[j].body.artifacts[n] = "verified"
             /\ \A v \in Validators : \E i \in OfKind(l, a, "validation") :
                   j < i /\ l[i].body = Validation(n, v, "passed")
  <2>1. CommitVerdict(l, a, n) = "verified" /\ \A v \in Validators : Passed(l, a, n, v)
    BY <1>2 DEF ValidArtifacts
  <2>2. l[j].body.artifacts[n] = "verified"
    BY <1>4, <2>1 DEF CommitVerdict
  <2>3. ASSUME NEW v \in Validators
        PROVE  \E i \in OfKind(l, a, "validation") :
                  j < i /\ l[i].body = Validation(n, v, "passed")
    <3> DEFINE over == {i \in OfKind(l, a, "validation") :
                           l[i].body.artifact = n /\ l[i].body.validator = v}
    <3>1. over # {} /\ l[Latest(over)].body.verdict = "passed"
      BY <2>1 DEF Passed
    <3>2. over \in SUBSET (1..Len(l)) /\ Len(l) \in Nat
      BY OfKindMember
    <3>3. PICK i \in over : i = Latest(over)
      <4> HIDE DEF over
      <4> QED BY <3>1, <3>2, LatestIn
    <3>4. j < i
      BY <1>5 DEF Filed, OneCommit
    <3>5. l[i].body \in Bodies /\ l[i].body.kind = "validation"
      BY OfKindMember
    <3>6. l[i].body = Validation(n, v, "passed")
      BY <3>1, <3>3, <3>5 DEF Validation, Bodies
    <3> QED BY <3>4, <3>6
  <2> QED BY <2>2, <2>3
<1> QED BY <1>2, <1>3, <1>5, <1>6 DEF Proven

LEMMA ClassifyCancelled ==
    ASSUME NEW l \in Seq(Envelopes), NEW a, OfKind(l, a, "abort_cause") # {},
           \A i \in OfKind(l, a, "abort_cause") : l[i].body.abort = "cancelled"
    PROVE  Classify(l, a) = "cancelled"
<1> DEFINE aborts == OfKind(l, a, "abort_cause")
<1>1. aborts \in SUBSET Nat /\ aborts # {}
  BY OfKindMember
<1>2. Earliest(aborts) \in aborts
  <2> HIDE DEF aborts
  <2> QED BY <1>1, EarliestIn
<1>3. AbortOutcome("cancelled") = "cancelled"
  BY DEF AbortOutcome
<1> QED BY <1>1, <1>2, <1>3 DEF Classify

\* The creation of an attempt under a key of its own.
LEMMA BookCreate ==
    ASSUME NEW l, Book(l), NEW e \in Envelopes, e.body.kind = "attempt_created",
           e.attempt \notin CreatedIn(l), e.attempt # NoAttempt,
           \A i \in Created(l) : l[i].body.task = e.body.task =>
              /\ l[i].body.hash = e.body.hash
              /\ l[i].body.generation # e.body.generation
    PROVE  LET r == Append(l, e)
           IN  /\ Book(r) /\ CreatedIn(r) = CreatedIn(l) \union {e.attempt}
               /\ StateOf(r, e.attempt) = "created"
               /\ \A k : k \notin {"attempt_created", "selection"} =>
                     OfKind(r, e.attempt, k) = {}
<1> DEFINE r == Append(l, e)
           a == e.attempt
           K == {"attempt_created"}
<1>1. /\ l \in Seq(Envelopes) /\ r \in Seq(Envelopes) /\ Len(l) \in Nat
      /\ DOMAIN l = 1..Len(l) /\ DOMAIN r = 1..(Len(l) + 1)
      /\ \A i \in DOMAIN l : r[i] = l[i]
      /\ r[Len(l) + 1] = e
  BY AppendFacts DEF Book
<1>2. Adds(l, r, a, K)
  <2>1. Adds(l, l, a, K)
    BY <1>1, AddsNone
  <2> QED BY <1>1, <2>1, AddsOne
<1> HIDE DEF r
<1>3. /\ Extends(l, r)
      /\ \A x, k : x # a \/ k # "attempt_created" => OfKind(r, x, k) = OfKind(l, x, k)
      /\ AnyOfKind(r, "selection") = AnyOfKind(l, "selection")
  BY <1>1, <1>2, AddsKeep
<1>4. \A k : k \notin {"attempt_created", "selection"} => OfKind(r, a, k) = {}
  <2>1. \A k : k # "selection" => OfKind(l, a, k) = {}
    BY DEF Book, Resolves, OfKind
  <2> QED BY <1>3, <2>1
<1>5. Births(r, a) = {Len(l) + 1} /\ Moves(r, a) = {}
  <2>1. Births(l, a) = {}
    BY <1>1, CreatedInIs
  <2>2. OfKind(r, a, "attempt_created") = OfKind(l, a, "attempt_created") \union {Len(l) + 1}
    <3>1. e.attempt = a /\ e.body.kind = "attempt_created" /\ l \in Seq(Envelopes)
      BY <1>1
    <3>2. OfKind(Append(l, e), a, "attempt_created")
            = OfKind(l, a, "attempt_created") \union {Len(l) + 1}
      BY <3>1, OfKindAppend
    <3> QED BY <3>2 DEF r
  <2> QED BY <1>4, <2>1, <2>2 DEF Births, Moves
<1>6. StateOf(r, a) = "created" /\ ResolveState(r, a) = "created"
  BY <1>5 DEF StateOf, ResolveState, ChainLinks
<1>7. Created(r) = Created(l) \union {Len(l) + 1} /\ Created(l) \subseteq DOMAIN l
  <2>1. ASSUME NEW i PROVE i \in Created(r) <=> i \in Created(l) \/ i = Len(l) + 1
    BY <1>1 DEF Created, AnyOfKind
  <2> QED BY <2>1 DEF Created, AnyOfKind
<1>8. CreatedIn(r) = CreatedIn(l) \union {a}
  BY <1>1, <1>7 DEF CreatedIn
<1>9. Resolves(r)
  <2>1. ASSUME NEW x \in CreatedIn(r) PROVE ResolveState(r, x) \in States
    <3>1. CASE x = a
      BY <1>6, <3>1 DEF States
    <3>2. CASE x # a
      <4>1. ResolveState(r, x) = ResolveState(l, x)
        BY <1>1, <3>2, OthersUndisturbed DEF r
      <4> QED BY <1>8, <3>2, <4>1 DEF Book, Resolves
    <3> QED BY <3>1, <3>2
  <2>2. ASSUME NEW i \in DOMAIN r
        PROVE  \/ r[i].attempt \in CreatedIn(r)
               \/ r[i].body.kind = "selection" /\ ~r[i].body.satisfied
    <3>1. CASE i \in DOMAIN l
      BY <1>1, <1>8, <3>1 DEF Book, Resolves
    <3>2. CASE i = Len(l) + 1
      BY <1>1, <1>8, <3>2
    <3> QED BY <1>1, <3>1, <3>2
  <2> QED BY <1>8, <2>1, <2>2 DEF Resolves, Book
<1>10. WellChosen(r)
  BY <1>1, <1>3, ChoicesKept DEF Book
<1>11. OneAttemptPerKey(r)
  BY <1>1, KeysAdmitted DEF Book, r
<1>12. ASSUME NEW x PROVE Filed(r, x)
  <2>1. CASE x = a
    <3>1. /\ OfKind(r, a, "commit") = {} /\ OfKind(r, a, "validation") = {}
          /\ OfKind(r, a, "terminal") = {}
      BY <1>4
    <3> QED BY <2>1, <3>1 DEF Filed, OneCommit, VerdictEarned
  <2>2. CASE x # a
    <3>1. StateOf(r, x) = StateOf(l, x)
      BY <1>1, <1>3, <2>2, StateKept
    <3>2. \A k \in FiledKinds : OfKind(r, x, k) = OfKind(l, x, k)
      BY <1>3, <2>2
    <3>3. Filed(l, x)
      BY DEF Book
    <3>4. OfKind(l, x, "commit") # {} => StateOf(r, x) \in Committed
      BY <3>1, <3>3 DEF Filed, OneCommit
    <3> QED BY <1>1, <1>3, <3>2, <3>3, <3>4, FiledKept
  <2> QED BY <2>1, <2>2
<1>13. Book(r)
  BY <1>1, <1>9, <1>10, <1>11, <1>12 DEF Book
<1> QED BY <1>4, <1>6, <1>8, <1>13 DEF r

\* The choice of a success of its task, or of nothing.
LEMMA BookSelect ==
    ASSUME NEW l, Book(l), NEW e \in Envelopes, e.body.kind = "selection",
           e.body.satisfied =>
              /\ e.attempt \in CreatedIn(l) /\ Succeeded(l, e.body.selected)
              /\ \E b \in Births(l, e.body.selected) : l[b].body.task = e.body.task
    PROVE  LET r == Append(l, e)
           IN  /\ Book(r) /\ CreatedIn(r) = CreatedIn(l)
               /\ \A x, k : k # "selection" => OfKind(r, x, k) = OfKind(l, x, k)
<1> DEFINE r == Append(l, e)
           K == {"selection"}
<1>1. /\ l \in Seq(Envelopes) /\ r \in Seq(Envelopes) /\ Len(l) \in Nat
      /\ DOMAIN l = 1..Len(l) /\ DOMAIN r = 1..(Len(l) + 1)
      /\ \A i \in DOMAIN l : r[i] = l[i]
      /\ r[Len(l) + 1] = e
  BY AppendFacts DEF Book
<1>2. Adds(l, r, e.attempt, K)
  <2>1. Adds(l, l, e.attempt, K)
    BY <1>1, AddsNone
  <2> QED BY <1>1, <2>1, AddsOne
<1> HIDE DEF r
<1>3. /\ Extends(l, r)
      /\ \A x, k : k # "selection" => OfKind(r, x, k) = OfKind(l, x, k)
      /\ Created(r) = Created(l) /\ Created(l) \subseteq DOMAIN l
  BY <1>1, <1>2, AddsKeep DEF Created, AnyOfKind
<1>4. CreatedIn(r) = CreatedIn(l)
  BY <1>1, <1>3 DEF CreatedIn
<1>5. \A x : StateOf(r, x) = StateOf(l, x) /\ ResolveState(r, x) = ResolveState(l, x)
  BY <1>1, <1>3, StateKept, ResolveKept
<1>6. Resolves(r)
  <2>1. ASSUME NEW i \in DOMAIN r
        PROVE  \/ r[i].attempt \in CreatedIn(r)
               \/ r[i].body.kind = "selection" /\ ~r[i].body.satisfied
    <3>1. CASE i \in DOMAIN l
      BY <1>1, <1>4, <3>1 DEF Book, Resolves
    <3>2. CASE i = Len(l) + 1
      BY <1>1, <1>4, <3>2
    <3> QED BY <1>1, <3>1, <3>2
  <2> QED BY <1>4, <1>5, <2>1 DEF Resolves, Book
<1>7. WellChosen(r)
  <2> SUFFICES ASSUME NEW i \in AnyOfKind(r, "selection"), r[i].body.satisfied
               PROVE  /\ Succeeded(r, r[i].body.selected)
                      /\ \E b \in Births(r, r[i].body.selected) : r[b].body.task = r[i].body.task
    BY DEF WellChosen
  <2> DEFINE c == r[i].body.selected
             t == r[i].body.task
  <2>1. i \in DOMAIN l \/ i = Len(l) + 1
    BY <1>1 DEF AnyOfKind
  <2>2. Succeeded(l, c)
    BY <1>1, <2>1 DEF Book, WellChosen, AnyOfKind
  <2>3. PICK b \in Births(l, c) : l[b].body.task = t
    BY <1>1, <2>1 DEF Book, WellChosen, AnyOfKind
  <2> HIDE DEF c, t
  <2>4. Succeeded(r, c)
    BY <1>1, <1>3, <2>2, SucceededKept
  <2>5. b \in Births(r, c) /\ r[b] = l[b]
    BY <1>1, <1>3, <2>3, ExtendsKeep DEF Births
  <2> QED BY <2>3, <2>4, <2>5 DEF c, t
<1>8. OneAttemptPerKey(r)
  BY <1>1, KeysKept DEF Book, r
<1>9. ASSUME NEW x PROVE Filed(r, x)
  <2>1. Filed(l, x)
    BY DEF Book
  <2>2. \A k \in FiledKinds : OfKind(r, x, k) = OfKind(l, x, k)
    BY <1>3 DEF FiledKinds
  <2>3. OfKind(l, x, "commit") # {} => StateOf(r, x) \in Committed
    BY <1>5, <2>1 DEF Filed, OneCommit
  <2> QED BY <1>1, <1>3, <2>1, <2>2, <2>3, FiledKept
<1>10. Book(r)
  BY <1>1, <1>6, <1>7, <1>8, <1>9 DEF Book
<1> QED BY <1>3, <1>4, <1>10 DEF r

\* An attempt that was neither moved nor judged rests as it did.
LEMMA RestKept ==
    ASSUME NEW l \in Seq(Envelopes), NEW r \in Seq(Envelopes), Extends(l, r), NEW x,
           OfKind(r, x, "terminal") = OfKind(l, x, "terminal"),
           OfKind(r, x, "transition") = OfKind(l, x, "transition"), Rest(l, x)
    PROVE  Rest(r, x)
<1>1. StateOf(r, x) = StateOf(l, x) /\ OfKind(l, x, "commit") \subseteq OfKind(r, x, "commit")
  BY StateKept, ExtendsKeep
<1>2. Succeeded(r, x) => Succeeded(l, x)
  <2>1. \A i \in OfKind(l, x, "terminal") : r[i] = l[i]
    BY ExtendsKeep
  <2> QED BY <2>1 DEF Succeeded
<1> QED BY <1>1, <1>2 DEF Rest

\* No fence is lost, and no other attempt is created.
LEMMA GuardedKept ==
    ASSUME NEW l \in Seq(Envelopes), NEW r \in Seq(Envelopes), Extends(l, r),
           CreatedIn(r) = CreatedIn(l), Guarded(l)
    PROVE  Guarded(r)
<1>1. \A x : Fences(l, x) \subseteq Fences(r, x)
  BY ExtendsKeep DEF Fences
<1> QED BY <1>1 DEF Guarded

\* Books grown for one attempt are in order if that attempt is at rest and no
\* run is ahead of it.
LEMMA OrderGrown ==
    ASSUME NEW l, NEW r, NEW a, NEW K, NEW R, Grown(l, r, a, K), InOrder(l, R), Rest(r, a),
           "fence_generation" \in K =>
              \A x \in R : x.attempt = a => x.generation <= CurrentGeneration(r, a)
    PROVE  InOrder(r, R)
<1>1. l \in Seq(Envelopes) /\ r \in Seq(Envelopes) /\ Adds(l, r, a, K)
  BY DEF Grown, InOrder, Book
<1>2. Extends(l, r) /\ \A x, k : x # a \/ k \notin K => OfKind(r, x, k) = OfKind(l, x, k)
  BY <1>1, AddsKeep
<1>3. ASSUME NEW x PROVE Rest(r, x)
  <2>1. CASE x = a
    BY <2>1
  <2>2. CASE x # a
    <3>1. Rest(l, x)
      BY DEF InOrder
    <3> QED BY <1>1, <1>2, <2>2, <3>1, RestKept
  <2> QED BY <2>1, <2>2
<1>4. ASSUME NEW q \in R PROVE q.generation <= CurrentGeneration(r, q.attempt)
  <2>1. CASE q.attempt # a \/ "fence_generation" \notin K
    <3>1. CurrentGeneration(r, q.attempt) = CurrentGeneration(l, q.attempt)
      <4>1. OfKind(r, q.attempt, "fence_generation") = OfKind(l, q.attempt, "fence_generation")
        BY <1>2, <2>1
      <4> QED BY <1>1, <1>2, <4>1, GenerationKept
    <3> QED BY <3>1 DEF InOrder
  <2>2. CASE q.attempt = a /\ "fence_generation" \in K
    BY <2>2
  <2> QED BY <2>1, <2>2
<1>5. Guarded(r)
  BY <1>1, <1>2, GuardedKept DEF InOrder, Grown
<1> QED BY <1>3, <1>4, <1>5 DEF InOrder, Grown

=============================================================================
