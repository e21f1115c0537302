-------------------------- MODULE Evaluation_proofs --------------------------
(***************************************************************************)
(* The loop around the hands, for any texts, names, questions, graders,    *)
(* valuations and settlements, and any number of runs, batches, mishaps    *)
(* and releases: what is in force passed the gate and a method is kept, a  *)
(* question is asked once and its answer and grade stand, and the ranking  *)
(* follows what is on record.                                              *)
(***************************************************************************)
EXTENDS MCEvaluation, Sequences, FiniteSetTheorems, WellFoundedInduction, TLAPS

-----------------------------------------------------------------------------
(* Skills *)

methods == <<installed, drafts, promoting, attempts, last>>

\* What may have been written, and of that what may be in force.
Drafts == {Texts[r] : r \in Replies}
          \union {Skills!Draft(Texts[r], from) : r \in Replies, from \in SUBSET Attempts}
Passing == {t \in Drafts \union {Texts[b] : b \in Bundled} : Skills!Passes(t)}
Methods == {Skills!Absent, <<Skills!Torn>>} \union {<<t>> : t \in Passing}

Packs == [type : Names, method : Methods, validators : SUBSET Known]
Sealed == [pack : Packs, of : Nat]
Promotions == [name : Names, target : Names, text : Passing, torn : BOOLEAN]

SkillsInv ==
    /\ drafts \in [Names -> {Skills!Absent} \union {<<t>> : t \in Drafts}]
    /\ installed \in [Names -> Methods]
    /\ promoting \in {Skills!Idle} \union {<<p>> : p \in Promotions}
    /\ attempts \in Seq(Sealed)
    /\ \A i \in DOMAIN attempts :
          attempts[i].of # 0 => /\ attempts[i].of \in DOMAIN attempts
                                /\ attempts[i].pack = attempts[attempts[i].of].pack
    /\ last.cmd = "run" => /\ last.given \in DOMAIN attempts
                           /\ attempts[last.given].pack = last.asked

-----------------------------------------------------------------------------
\* What passes the gate has registered validators only.
LEMMA PassingRefs ==
    ASSUME NEW t, Skills!Passes(t)
    PROVE  Skills!Parsed(t).refs \subseteq Known
<1> DEFINE front == Skills!Parsed(t)
           fails == [name |-> ~front.name,
                     empty |-> front.chars = 0,
                     long |-> front.bytes > 200,
                     sentences |-> front.stops > 1,
                     refs |-> ~(front.refs \subseteq Known),
                     schema |-> ~front.schema,
                     body |-> ~front.body]
<1>1. (IF ~t.fence THEN {"fence"} ELSE {f \in DOMAIN fails : fails[f]}) = {}
  BY DEF Skills!Passes, Skills!Failures
<1>2. ~fails["refs"]
  <2>1. "refs" \in DOMAIN fails
    OBVIOUS
  <2> HIDE DEF fails
  <2> QED BY <1>1, <2>1
<1> QED BY <1>2

\* A torn file names none.
LEMMA TornRefs == Skills!Parsed(Skills!Torn).refs = {}
BY DEF Skills!Parsed, Skills!Torn

\* A pack is of a method that may be in force, with registered validators.
LEMMA PackSound ==
    ASSUME SkillsInv, NEW type \in Names
    PROVE  Skills!Pack(type) \in Packs
<1>1. installed[type] \in Methods
  BY DEF SkillsInv
<1> DEFINE refs == Skills!Pack(type).validators
<1> DEFINE t == installed[type][1]
<1>2. refs = IF installed[type] = Skills!Absent THEN {}
             ELSE Skills!Parsed(t).refs \ {"bad ref"}
  BY DEF Skills!Pack
<1>3. \A u : installed[type] = <<u>> => t = u
  OBVIOUS
<1> HIDE DEF t
<1>6. refs \subseteq Known
  <2>1. CASE installed[type] = Skills!Absent
    BY <1>2, <2>1
  <2>2. CASE installed[type] = <<Skills!Torn>>
    BY <1>2, <1>3, <2>2, TornRefs
  <2>3. CASE \E u \in Passing : installed[type] = <<u>>
    BY <1>2, <1>3, <2>3, PassingRefs DEF Passing
  <2> QED BY <1>1, <2>1, <2>2, <2>3 DEF Methods
<1>7. Skills!Pack(type) = [type |-> type, method |-> installed[type], validators |-> refs]
  BY DEF Skills!Pack
<1> HIDE DEF refs
<1> QED BY <1>1, <1>6, <1>7 DEF Packs

\* What init puts in force passed the gate.
LEMMA SkillsInit == Skills!Init => SkillsInv
<1> SUFFICES ASSUME Skills!Init PROVE SkillsInv
  OBVIOUS
<1>1. \A b \in Bundled : <<Texts[b]>> \in Methods
  BY Gated DEF Methods, Passing
<1>2. installed \in [Names -> Methods]
  BY <1>1 DEF Skills!Init, Methods
<1> QED BY <1>2 DEF Skills!Init, SkillsInv, Skills!Quiet, Skills!Idle

\* An attempt more, of a pack that is sound.
LEMMA AttemptMore ==
    ASSUME SkillsInv, NEW pack \in Packs, NEW of \in {0} \union DOMAIN attempts,
           attempts' = Append(attempts, [pack |-> pack, of |-> of]),
           of # 0 => pack = attempts[of].pack
    PROVE  /\ attempts' \in Seq(Sealed)
           /\ DOMAIN attempts' = 1..Len(attempts) + 1 /\ Len(attempts) \in Nat
           /\ \A i \in DOMAIN attempts : attempts'[i] = attempts[i] /\ i \in DOMAIN attempts'
           /\ attempts'[Len(attempts) + 1] = [pack |-> pack, of |-> of]
           /\ \A i \in DOMAIN attempts' :
                 attempts'[i].of # 0 => /\ attempts'[i].of \in DOMAIN attempts'
                                        /\ attempts'[i].pack = attempts'[attempts'[i].of].pack
<1> DEFINE n == Len(attempts) + 1
           a == [pack |-> pack, of |-> of]
<1>1. attempts \in Seq(Sealed) /\ DOMAIN attempts = 1..Len(attempts)
      /\ Len(attempts) \in Nat
  BY DEF SkillsInv
<1>2. a \in Sealed
  BY <1>1 DEF Sealed
<1>3. /\ attempts' \in Seq(Sealed)
      /\ DOMAIN attempts' = 1..n
      /\ \A i \in DOMAIN attempts : attempts'[i] = attempts[i] /\ i \in DOMAIN attempts'
      /\ attempts'[n] = a
  BY <1>1, <1>2
<1>4. \A i \in DOMAIN attempts : attempts[i].of # 0 => /\ attempts[i].of \in DOMAIN attempts
                                /\ attempts[i].pack = attempts[attempts[i].of].pack
  BY DEF SkillsInv
<1>5. ASSUME NEW i \in DOMAIN attempts', attempts'[i].of # 0
      PROVE  /\ attempts'[i].of \in DOMAIN attempts'
             /\ attempts'[i].pack = attempts'[attempts'[i].of].pack
  <2>1. CASE i = n
    BY <1>3, <1>5, <2>1
  <2>2. CASE i \in DOMAIN attempts
    BY <1>3, <1>4, <1>5, <2>2
  <2> QED BY <1>1, <1>3, <2>1, <2>2
<1> QED BY <1>1, <1>3, <1>5

\* No command, kill or run takes the invariant away.
LEMMA SkillsStep == SkillsInv /\ [Skills!Next]_methods => SkillsInv'
<1> SUFFICES ASSUME SkillsInv, [Skills!Next]_methods PROVE SkillsInv'
  OBVIOUS
<1>0. CASE UNCHANGED methods
  BY <1>0 DEF methods, SkillsInv
<1>1. ASSUME NEW n \in Names, NEW r \in Replies, NEW from \in SUBSET Attempts,
             Skills!New(n, from, r)
      PROVE  SkillsInv'
  <2>1. Skills!Draft(Texts[r], from) \in Drafts
    BY DEF Drafts
  <2>2. /\ drafts' = [drafts EXCEPT ![n] = <<Skills!Draft(Texts[r], from)>>]
        /\ last'.cmd = "new" /\ UNCHANGED <<installed, promoting, attempts>>
    BY <1>1 DEF Skills!New
  <2> QED BY <2>1, <2>2 DEF SkillsInv
<1>2. ASSUME NEW n \in Names, NEW r \in Replies, Skills!EditDraft(n, r)
      PROVE  SkillsInv'
  <2>1. Texts[r] \in Drafts
    BY DEF Drafts
  <2>2. /\ drafts' = [drafts EXCEPT ![n] = <<Texts[r]>>]
        /\ last'.cmd = "none" /\ UNCHANGED <<installed, promoting, attempts>>
    BY <1>2 DEF Skills!EditDraft, Skills!Quiet
  <2> QED BY <2>1, <2>2 DEF SkillsInv
<1>3. ASSUME NEW n \in Names, NEW hinted \in BOOLEAN, Skills!Validate(n, hinted)
      PROVE  SkillsInv'
  BY <1>3 DEF Skills!Validate, SkillsInv
<1>4. ASSUME NEW n \in Names, NEW target \in Names, Skills!Promote(n, target)
      PROVE  SkillsInv'
  <2> DEFINE u == drafts[n][1]
             p == [name |-> n, target |-> target, text |-> u, torn |-> FALSE]
  <2>1. u \in Drafts
    BY <1>4 DEF Skills!Promote, SkillsInv
  <2>2. /\ promoting' = IF Skills!Passes(u) THEN <<p>> ELSE Skills!Idle
        /\ last' = Skills!Quiet /\ UNCHANGED <<installed, drafts, attempts>>
    BY <1>4 DEF Skills!Promote
  <2> HIDE DEF u
  <2>3. Skills!Passes(u) => p \in Promotions
    BY <2>1 DEF Passing, Promotions
  <2> HIDE DEF p
  <2>4. promoting' \in {Skills!Idle} \union {<<x>> : x \in Promotions}
    BY <2>2, <2>3
  <2> QED BY <2>2, <2>4 DEF SkillsInv, Skills!Quiet
<1>5. ASSUME NEW n \in Names, NEW c \in Copied, Skills!Copy(n, c)
      PROVE  SkillsInv'
  <2>1. <<Texts[c]>> \in Methods
    BY Gated DEF Methods, Passing
  <2> QED BY <1>5, <2>1 DEF Skills!Copy, SkillsInv, Skills!Quiet
<1>6. ASSUME NEW type \in Names, Skills!Run(type)
      PROVE  SkillsInv'
  <2> DEFINE pack == Skills!Pack(type)
             same == {i \in DOMAIN attempts :
                        attempts[i].of = 0 /\ Skills!SamePack(attempts[i].pack, pack)}
  <2>0. pack \in Packs
    BY PackSound
  <2>1. CASE same = {}
    <3>1. /\ attempts' = Append(attempts, [pack |-> pack, of |-> 0])
          /\ last' = [cmd |-> "run", asked |-> pack, given |-> Len(attempts) + 1]
          /\ UNCHANGED <<installed, drafts, promoting>>
      BY <1>6, <2>1 DEF Skills!Run
    <3> HIDE DEF pack
    <3> QED BY <2>0, <3>1, AttemptMore DEF SkillsInv
  <2>2. CASE same # {}
    <3>1. /\ attempts' = attempts
          /\ last'.asked = pack /\ last'.given \in same
          /\ UNCHANGED <<installed, drafts, promoting>>
      BY <1>6, <2>2 DEF Skills!Run
    <3> QED BY <3>1 DEF SkillsInv, Skills!SamePack
  <2> QED BY <2>1, <2>2
<1>7. CASE Skills!Truncate
  <2>1. PICK p \in Promotions : promoting = <<p>>
    BY <1>7 DEF Skills!Truncate, SkillsInv
  <2>2. /\ installed' = [installed EXCEPT ![p.target] = <<Skills!Torn>>]
        /\ promoting' = <<[p EXCEPT !.torn = TRUE]>>
        /\ last' = Skills!Quiet /\ UNCHANGED <<drafts, attempts>>
    BY <1>7, <2>1 DEF Skills!Truncate
  <2>3. installed' \in [Names -> Methods]
    BY <2>1, <2>2 DEF SkillsInv, Methods, Promotions
  <2>4. [p EXCEPT !.torn = TRUE] \in Promotions
    BY <2>1 DEF Promotions
  <2> QED BY <2>2, <2>3, <2>4 DEF SkillsInv, Skills!Quiet
<1>8. CASE Skills!Write
  <2>1. PICK p \in Promotions : promoting = <<p>>
    BY <1>8 DEF Skills!Write, SkillsInv
  <2>2. /\ installed' = [installed EXCEPT ![p.target] = <<p.text>>]
        /\ promoting' = Skills!Idle
        /\ last' = Skills!Quiet /\ UNCHANGED <<drafts, attempts>>
    BY <1>8, <2>1 DEF Skills!Write, Skills!InForce
  <2>3. installed' \in [Names -> Methods]
    BY <2>1, <2>2 DEF SkillsInv, Methods, Promotions
  <2> QED BY <2>2, <2>3 DEF SkillsInv, Skills!Quiet
<1>9. CASE Skills!Kill
  BY <1>9 DEF Skills!Kill, SkillsInv, Skills!Quiet
<1>10. ASSUME NEW i \in DOMAIN attempts, Skills!Retry(i)
       PROVE  SkillsInv'
  <2>1. attempts[i].pack \in Packs
    <3>1. attempts[i] \in Sealed
      BY DEF SkillsInv
    <3> QED BY <3>1 DEF Sealed
  <2>2. /\ attempts' = Append(attempts, [pack |-> attempts[i].pack, of |-> i])
        /\ last' = Skills!Quiet /\ UNCHANGED <<installed, drafts, promoting>>
    BY <1>10 DEF Skills!Retry, Skills!RetryPack
  <2> QED BY <2>1, <2>2, AttemptMore DEF SkillsInv, Skills!Quiet
<1> QED BY <1>0, <1>1, <1>2, <1>3, <1>4, <1>5, <1>6, <1>7, <1>8, <1>9, <1>10 DEF Skills!Next

\* What the invariant says of the gate and of methods.
LEMMA SkillsSay ==
    SkillsInv => /\ Skills!InForceGated /\ Skills!Judgeable
                 /\ Skills!RetryKeepsMethod /\ Skills!AnsweredByInForce
<1> SUFFICES ASSUME SkillsInv
             PROVE  /\ Skills!InForceGated /\ Skills!Judgeable
                    /\ Skills!RetryKeepsMethod /\ Skills!AnsweredByInForce
  OBVIOUS
<1>1. Skills!InForceGated
  BY DEF SkillsInv, Methods, Passing, Skills!InForceGated
<1>2. Skills!Judgeable
  <2>1. \A i \in DOMAIN attempts : attempts[i] \in Sealed
    BY DEF SkillsInv
  <2> QED BY <2>1 DEF Sealed, Packs, Skills!Judgeable
<1>3. Skills!RetryKeepsMethod
  BY DEF SkillsInv, Skills!RetryKeepsMethod
<1>4. Skills!AnsweredByInForce
  BY DEF SkillsInv, Skills!AnsweredByInForce
<1> QED BY <1>1, <1>2, <1>3, <1>4

-----------------------------------------------------------------------------
(* Grading *)

questions == <<text, attempts, chosen, lost, batch, answers, grader, grades, given, judged,
               recorded, sessions, mishaps>>

Tries == [version : Int, state : Grading!State, asked : BOOLEAN, resumed : BOOLEAN]

\* A question's attempts s: those that succeeded; a batch asked for the first
\* at most; and with c selected, one before it that succeeded was resumed.
Wins(s) == {i \in DOMAIN s : s[i].state = "satisfied"}
FirstAsked(s) == \A i \in DOMAIN s : s[i].asked => i = 1
Stands(s, c) ==
    c # 0 => /\ c \in Wins(s)
             /\ \A i \in Wins(s) : i < c => s[i].resumed

LedgerInv ==
    /\ text \in [Grading!Q -> Int]
    /\ attempts \in [Grading!Q -> Seq(Tries)]
    /\ chosen \in [Grading!Q -> Nat]
    /\ \A q \in Grading!Q : FirstAsked(attempts[q]) /\ Stands(attempts[q], chosen[q])

-----------------------------------------------------------------------------
(* The steps of batches, of operators and of graders, and what each leaves. *)

Asking ==
    \/ \E first, final \in Grading!Q : Grading!BatchStart(first, final)
    \/ \E q \in Grading!Q :
          \/ Grading!Resume(q) \/ Grading!AskAgain(q)
          \/ \E state \in Grading!State, selects \in BOOLEAN : Grading!Ask(q, state, selects)
    \/ Grading!KillBatch

Operating ==
    \E q \in Grading!Q :
       \/ Grading!Lose(q)
       \/ \E version \in 1..Releases : Grading!Reword(q, version)
       \/ \E state \in Grading!State, selects \in BOOLEAN, i \in DOMAIN attempts[q] :
             \/ Grading!ResumeAttempt(q, i, state, selects)
             \/ Grading!Retry(q, i, state, selects)
       \/ \E i \in DOMAIN attempts[q] : Grading!CloseAttempt(q, i)

Judging ==
    \E g \in Graders :
       \/ Grading!GradeStart(g) \/ Grading!Skip(g) \/ Grading!GradeTruncate(g)
       \/ Grading!GradeWrite(g) \/ Grading!GradeEnd(g) \/ Grading!KillGrader(g)
       \/ \E tier \in Tiers : Grading!Judge(g, tier)

LEMMA Kinds ==
    Grading!Next => \/ Asking \/ Operating \/ Judging
                    \/ Grading!BatchTruncate \/ Grading!BatchWrite
BY DEF Grading!Next, Asking, Operating, Judging

LEMMA AskingLeaves ==
    Asking => UNCHANGED <<text, answers, given, grader, grades, judged, recorded>>
<1> DEFINE Same == UNCHANGED <<text, answers, given, grader, grades, judged, recorded>>
<1>1. ASSUME NEW first \in Grading!Q, NEW final \in Grading!Q, Grading!BatchStart(first, final)
      PROVE  Same
  BY <1>1 DEF Grading!BatchStart, Grading!ledger, Grading!grading
<1>2. ASSUME NEW q \in Grading!Q, Grading!Resume(q) \/ Grading!AskAgain(q) PROVE Same
  BY <1>2 DEF Grading!Resume, Grading!AskAgain, Grading!ledger, Grading!grading
<1>3. ASSUME NEW q \in Grading!Q, NEW state \in Grading!State, NEW selects \in BOOLEAN,
             Grading!Ask(q, state, selects)
      PROVE  Same
  BY <1>3 DEF Grading!Ask, Grading!grading
<1>4. ASSUME Grading!KillBatch PROVE Same
  BY <1>4 DEF Grading!KillBatch, Grading!Mishap
<1> QED BY <1>1, <1>2, <1>3, <1>4 DEF Asking

LEMMA OperatingLeaves ==
    Operating => UNCHANGED <<batch, answers, given, grader, grades, judged, recorded>>
<1> DEFINE Same == UNCHANGED <<batch, answers, given, grader, grades, judged, recorded>>
<1>1. ASSUME NEW q \in Grading!Q, Grading!Lose(q) PROVE Same
  BY <1>1 DEF Grading!Lose, Grading!grading
<1>2. ASSUME NEW q \in Grading!Q, NEW version \in 1..Releases, Grading!Reword(q, version)
      PROVE  Same
  BY <1>2 DEF Grading!Reword, Grading!grading
<1>3. ASSUME NEW q \in Grading!Q, NEW state \in Grading!State, NEW selects \in BOOLEAN,
             NEW i \in DOMAIN attempts[q],
             \/ Grading!ResumeAttempt(q, i, state, selects)
             \/ Grading!Retry(q, i, state, selects)
      PROVE  Same
  BY <1>3 DEF Grading!ResumeAttempt, Grading!Retry, Grading!grading
<1>4. ASSUME NEW q \in Grading!Q, NEW i \in DOMAIN attempts[q], Grading!CloseAttempt(q, i)
      PROVE  Same
  BY <1>4 DEF Grading!CloseAttempt, Grading!grading
<1> QED BY <1>1, <1>2, <1>3, <1>4 DEF Operating

LEMMA JudgingLeaves ==
    Judging => UNCHANGED <<text, attempts, chosen, batch, answers, given>>
BY DEF Judging, Grading!GradeStart, Grading!Skip, Grading!GradeTruncate, Grading!GradeWrite,
       Grading!GradeEnd, Grading!KillGrader, Grading!Judge, Grading!Mishap, Grading!ledger

LEMMA WritingLeaves ==
    Grading!BatchTruncate \/ Grading!BatchWrite =>
        UNCHANGED <<text, attempts, chosen, grader, grades, judged, recorded>>
BY DEF Grading!BatchTruncate, Grading!BatchWrite, Grading!ledger, Grading!grading

-----------------------------------------------------------------------------
\* A set of numbers has a least.
LEMMA LeastOf ==
    ASSUME NEW S \in SUBSET Nat, S # {}
    PROVE  Grading!Min(S) \in S /\ \A y \in S : Grading!Min(S) <= y
<1>1. PICK m \in S : \A y \in S : ~(<<y, m>> \in OpToRel(<, Nat))
  BY WFMin, NatLessThanWellFounded, Zenon
<1>2. ASSUME NEW y \in S PROVE m <= y
  <2>1. y < m => <<y, m>> \in OpToRel(<, Nat)
    BY Zenon DEF OpToRel
  <2>2. ~(y < m)
    BY <1>1, <2>1, Zenon
  <2> QED BY <2>2
<1>3. \E x \in S : \A y \in S : x <= y
  BY <1>2
<1> QED BY <1>3 DEF Grading!Min

\* Attempts t come after s: what succeeded stays so, and what succeeded since
\* is new or was resumed.
After(s, t) ==
    /\ DOMAIN s \subseteq DOMAIN t
    /\ \A i \in DOMAIN s : s[i].resumed => t[i].resumed
    /\ Wins(s) \subseteq Wins(t)
    /\ \A i \in Wins(t) \ Wins(s) : i \in DOMAIN s => t[i].resumed

\* For one of attempts s there may be another: the same, or an earlier one that
\* was resumed.
Gives(s, a, b) ==
    /\ a \in DOMAIN s /\ b \in DOMAIN s
    /\ b = a \/ (b < a /\ s[b].resumed)

LEMMA GivesOn ==
    ASSUME NEW s \in Seq(Tries), NEW a, NEW b, NEW c, Gives(s, a, b), Gives(s, b, c)
    PROVE  Gives(s, a, c)
<1>1. DOMAIN s \subseteq Nat
  OBVIOUS
<1> QED BY <1>1 DEF Gives

LEMMA GivesAfter ==
    ASSUME NEW s, NEW t, NEW a, NEW b, Gives(s, a, b), After(s, t)
    PROVE  Gives(t, a, b)
BY DEF Gives, After

\* What is selected of later attempts stands, and is there for what was.
LEMMA Selecting ==
    ASSUME NEW s \in Seq(Tries), NEW t \in Seq(Tries), After(s, t),
           NEW c \in Nat, Stands(s, c), NEW selects \in BOOLEAN
    PROVE  LET d == IF selects THEN Grading!Select(t) ELSE c
           IN  /\ d \in Nat /\ Stands(t, d)
               /\ c # 0 => Gives(t, c, d)
<1>1. /\ DOMAIN s = 1..Len(s) /\ DOMAIN t = 1..Len(t) /\ Len(s) \in Nat /\ Len(t) \in Nat
      /\ Wins(s) \subseteq DOMAIN s /\ Wins(t) \subseteq DOMAIN t
  BY DEF Wins
<1>2. ASSUME c # 0, NEW i \in Wins(t), i < c PROVE t[i].resumed
  <2>1. c \in DOMAIN s
    BY <1>1, <1>2 DEF Stands
  <2>2. i \in DOMAIN s
    BY <1>1, <1>2, <2>1
  <2> QED BY <1>2, <2>2 DEF Stands, After
<1>3. c # 0 => c \in Wins(t)
  BY DEF Stands, After
<1>4. CASE ~selects
  BY <1>1, <1>2, <1>3, <1>4 DEF Stands, Gives
<1>5. CASE selects /\ Wins(t) = {}
  <2>1. Grading!Select(t) = 0
    BY <1>5 DEF Grading!Select, Wins
  <2> QED BY <1>3, <1>5, <2>1 DEF Stands
<1>6. CASE selects /\ Wins(t) # {}
  <2> DEFINE d == Grading!Min(Wins(t))
  <2>1. Grading!Select(t) = d
    BY <1>6 DEF Grading!Select, Wins
  <2>2. Wins(t) \in SUBSET Nat
    BY <1>1
  <2>3. d \in Wins(t) /\ \A y \in Wins(t) : d <= y
    BY <1>6, <2>2, LeastOf
  <2> HIDE DEF d
  <2>4. d \in Nat /\ Stands(t, d)
    BY <2>2, <2>3 DEF Stands
  <2>5. c # 0 => Gives(t, c, d)
    BY <1>1, <1>2, <1>3, <2>2, <2>3 DEF Gives
  <2> QED BY <1>6, <2>1, <2>4, <2>5
<1> QED BY <1>4, <1>5, <1>6

-----------------------------------------------------------------------------
\* What a step does to the attempts of one question and the choice among them.
Goes(q) == \E t \in Seq(Tries), selects \in BOOLEAN :
              /\ After(attempts[q], t) /\ FirstAsked(t)
              /\ Grading!Leaves(q, t, selects)

\* One attempt more, asked for by a batch only if it is the first.
LEMMA OneMore ==
    ASSUME LedgerInv, NEW q \in Grading!Q, NEW version \in Int, NEW state \in Grading!State,
           NEW asked \in BOOLEAN, NEW selects \in BOOLEAN,
           Grading!Begins(q, Grading!Attempt(version, state, asked), selects),
           asked => DOMAIN attempts[q] = {}
    PROVE  Goes(q)
<1> DEFINE s == attempts[q]
           e == Grading!Attempt(version, state, asked)
           t == Append(s, e)
<1>1. s \in Seq(Tries) /\ FirstAsked(s)
  BY DEF LedgerInv
<1>2. e \in Tries /\ e.asked = asked
  BY DEF Grading!Attempt, Tries
<1>3. Grading!Leaves(q, t, selects)
  BY DEF Grading!Begins
<1> HIDE DEF s, e
<1>4. /\ t \in Seq(Tries) /\ Len(s) \in Nat /\ DOMAIN s = 1..Len(s)
      /\ DOMAIN t = 1..Len(s) + 1 /\ t[Len(s) + 1] = e
      /\ \A i \in DOMAIN s : i \in DOMAIN t /\ t[i] = s[i]
  BY <1>1, <1>2
<1> HIDE DEF t
<1>5. After(s, t)
  BY <1>4 DEF After, Wins
<1>6. asked => Len(s) = 0
  <2>1. asked => DOMAIN s = {}
    BY DEF s
  <2> QED BY <1>4, <2>1
<1>7. FirstAsked(t)
  BY <1>1, <1>2, <1>4, <1>6 DEF FirstAsked
<1> QED BY <1>3, <1>4, <1>5, <1>7 DEF Goes, s

\* An attempt in recovery that comes to something, if to success, then resumed.
LEMMA OneEnded ==
    ASSUME LedgerInv, NEW q \in Grading!Q, NEW i \in DOMAIN attempts[q],
           attempts[q][i].state = "lost", NEW e \in Tries, NEW selects \in BOOLEAN,
           e.asked = attempts[q][i].asked, attempts[q][i].resumed => e.resumed,
           e.state = "satisfied" => e.resumed,
           Grading!Leaves(q, [attempts[q] EXCEPT ![i] = e], selects)
    PROVE  Goes(q)
<1> DEFINE s == attempts[q]
           t == [s EXCEPT ![i] = e]
<1>1. s \in Seq(Tries) /\ FirstAsked(s)
  BY DEF LedgerInv
<1>2. /\ i \in DOMAIN s /\ s[i].state = "lost" /\ e.asked = s[i].asked
      /\ s[i].resumed => e.resumed
  OBVIOUS
<1>3. Grading!Leaves(q, t, selects)
  OBVIOUS
<1> HIDE DEF s
<1>4. /\ t \in Seq(Tries) /\ DOMAIN t = DOMAIN s /\ t[i] = e
      /\ \A k \in DOMAIN s : k # i => t[k] = s[k]
  BY <1>1, <1>2
<1> HIDE DEF t
<1>5. After(s, t)
  <2>1. i \notin Wins(s)
    BY <1>2 DEF Wins
  <2> QED BY <1>2, <1>4, <2>1 DEF After, Wins
<1>6. FirstAsked(t)
  BY <1>1, <1>2, <1>4 DEF FirstAsked
<1> QED BY <1>3, <1>4, <1>5, <1>6 DEF Goes, s

\* A batch opens an attempt for a question that has none.
LEMMA NewHasNone ==
    ASSUME NEW q \in Grading!Q, Grading!New(q)
    PROVE  DOMAIN attempts[q] = {}
BY DEF Grading!New, Grading!Duplicate, Grading!Refused

\* A step goes on with one question, or leaves all alone.
LEMMA AttemptsMove ==
    ASSUME LedgerInv, Grading!Next
    PROVE  UNCHANGED <<attempts, chosen>> \/ \E q \in Grading!Q : Goes(q)
<1>0. \A q \in Grading!Q : text[q] \in Int /\ attempts[q] \in Seq(Tries)
  BY DEF LedgerInv
<1>1. ASSUME NEW q \in Grading!Q, NEW state \in Grading!State, NEW selects \in BOOLEAN,
             Grading!Ask(q, state, selects)
      PROVE  Goes(q)
  BY <1>0, <1>1, NewHasNone, OneMore DEF Grading!Ask
<1>2. ASSUME NEW q \in Grading!Q, NEW i \in DOMAIN attempts[q], NEW state \in Grading!State,
             NEW selects \in BOOLEAN, Grading!Retry(q, i, state, selects)
      PROVE  Goes(q)
  <2>1. attempts[q][i].version \in Int
    <3>1. attempts[q][i] \in Tries
      BY <1>0
    <3> QED BY <3>1 DEF Tries
  <2> QED BY <1>2, <2>1, OneMore DEF Grading!Retry
<1>3. ASSUME NEW q \in Grading!Q, NEW i \in DOMAIN attempts[q], NEW state \in Grading!State,
             NEW selects \in BOOLEAN, Grading!ResumeAttempt(q, i, state, selects)
      PROVE  Goes(q)
  <2> DEFINE e == [attempts[q][i] EXCEPT !.state = state, !.resumed = TRUE]
             t == [attempts[q] EXCEPT ![i].state = state, ![i].resumed = TRUE]
  <2>1. attempts[q][i] \in Tries
    BY <1>0
  <2>2. e \in Tries /\ e.asked = attempts[q][i].asked /\ e.resumed
    BY <2>1 DEF Tries
  <2>3. t = [attempts[q] EXCEPT ![i] = e]
    BY <1>0
  <2>4. attempts[q][i].state = "lost" /\ Grading!Leaves(q, t, selects)
    BY <1>3 DEF Grading!ResumeAttempt
  <2> HIDE DEF e, t
  <2> QED BY <2>2, <2>3, <2>4, OneEnded
<1>4. ASSUME NEW q \in Grading!Q, NEW i \in DOMAIN attempts[q], Grading!CloseAttempt(q, i)
      PROVE  Goes(q)
  <2> DEFINE e == [attempts[q][i] EXCEPT !.state = "failed"]
             t == [attempts[q] EXCEPT ![i].state = "failed"]
  <2>1. attempts[q][i] \in Tries
    BY <1>0
  <2>2. e \in Tries /\ e.asked = attempts[q][i].asked /\ e.resumed = attempts[q][i].resumed
        /\ e.state # "satisfied"
    BY <2>1 DEF Tries, Grading!State
  <2>3. t = [attempts[q] EXCEPT ![i] = e]
    BY <1>0
  <2>4. attempts[q][i].state = "lost" /\ Grading!Leaves(q, t, FALSE)
    BY <1>4 DEF Grading!CloseAttempt
  <2> HIDE DEF e, t
  <2> QED BY <2>2, <2>3, <2>4, OneEnded
<1>5. CASE Grading!KillBatch
  <2>1. CASE UNCHANGED <<attempts, chosen>>
    BY <2>1
  <2>2. ASSUME NEW q \in Grading!Q, NEW state \in Grading!State, Grading!New(q),
               Grading!Begins(q, Grading!Attempt(text[q], state, TRUE), FALSE)
        PROVE  Goes(q)
    BY <1>0, <2>2, NewHasNone, OneMore
  <2> QED BY <1>5, <2>1, <2>2 DEF Grading!KillBatch
<1>6. CASE Asking
  <2>1. ASSUME NEW first \in Grading!Q, NEW final \in Grading!Q,
               Grading!BatchStart(first, final)
        PROVE  UNCHANGED <<attempts, chosen>>
    BY <2>1 DEF Grading!BatchStart, Grading!ledger
  <2>2. ASSUME NEW q \in Grading!Q, Grading!Resume(q) \/ Grading!AskAgain(q)
        PROVE  UNCHANGED <<attempts, chosen>>
    BY <2>2 DEF Grading!Resume, Grading!AskAgain, Grading!ledger
  <2> QED BY <1>1, <1>5, <1>6, <2>1, <2>2 DEF Asking
<1>7. CASE Operating
  <2>1. ASSUME NEW q \in Grading!Q, Grading!Lose(q) PROVE UNCHANGED <<attempts, chosen>>
    BY <2>1 DEF Grading!Lose
  <2>2. ASSUME NEW q \in Grading!Q, NEW version \in 1..Releases, Grading!Reword(q, version)
        PROVE  UNCHANGED <<attempts, chosen>>
    BY <2>2 DEF Grading!Reword
  <2> QED BY <1>2, <1>3, <1>4, <1>7, <2>1, <2>2 DEF Operating
<1> QED BY <1>6, <1>7, Kinds, JudgingLeaves, WritingLeaves

\* Texts have versions.
LEMMA TextMoves ==
    ASSUME LedgerInv, Grading!Next
    PROVE  text' \in [Grading!Q -> Int]
<1>1. ASSUME NEW q \in Grading!Q, NEW version \in 1..Releases, Grading!Reword(q, version)
      PROVE  text' \in [Grading!Q -> Int]
  BY <1>1 DEF Grading!Reword, LedgerInv
<1>2. CASE Operating
  <2>1. ASSUME NEW q \in Grading!Q, Grading!Lose(q) PROVE text' = text
    BY <2>1 DEF Grading!Lose
  <2>2. ASSUME NEW q \in Grading!Q, NEW state \in Grading!State, NEW selects \in BOOLEAN,
               NEW i \in DOMAIN attempts[q],
               \/ Grading!ResumeAttempt(q, i, state, selects)
               \/ Grading!Retry(q, i, state, selects)
        PROVE  text' = text
    BY <2>2 DEF Grading!ResumeAttempt, Grading!Retry
  <2>3. ASSUME NEW q \in Grading!Q, NEW i \in DOMAIN attempts[q], Grading!CloseAttempt(q, i)
        PROVE  text' = text
    BY <2>3 DEF Grading!CloseAttempt
  <2>4. text' = text \/ text' \in [Grading!Q -> Int]
    BY <1>1, <1>2, <2>1, <2>2, <2>3 DEF Operating
  <2> QED BY <2>4 DEF LedgerInv
<1> QED BY <1>2, Kinds, AskingLeaves, JudgingLeaves, WritingLeaves DEF LedgerInv

\* So of every question: its attempts come after what they were, and what is
\* selected stands, and is there for what was.
LEMMA QuestionMoves ==
    ASSUME LedgerInv, Grading!Next, NEW q \in Grading!Q
    PROVE  /\ attempts' \in [Grading!Q -> Seq(Tries)] /\ chosen' \in [Grading!Q -> Nat]
           /\ FirstAsked(attempts'[q]) /\ Stands(attempts'[q], chosen'[q])
           /\ After(attempts[q], attempts'[q])
           /\ chosen[q] # 0 => Gives(attempts'[q], chosen[q], chosen'[q])
<1>0. /\ attempts[q] \in Seq(Tries) /\ chosen[q] \in Nat
      /\ FirstAsked(attempts[q]) /\ Stands(attempts[q], chosen[q])
  BY DEF LedgerInv
<1>1. /\ After(attempts[q], attempts[q])
      /\ chosen[q] # 0 => Gives(attempts[q], chosen[q], chosen[q])
  BY <1>0 DEF After, Gives, Stands, Wins
<1>2. CASE UNCHANGED <<attempts, chosen>>
  BY <1>0, <1>1, <1>2 DEF LedgerInv
<1>3. ASSUME NEW p \in Grading!Q, NEW t \in Seq(Tries), NEW selects \in BOOLEAN,
             After(attempts[p], t), FirstAsked(t), Grading!Leaves(p, t, selects)
      PROVE  /\ attempts' \in [Grading!Q -> Seq(Tries)] /\ chosen' \in [Grading!Q -> Nat]
             /\ FirstAsked(attempts'[q]) /\ Stands(attempts'[q], chosen'[q])
             /\ After(attempts[q], attempts'[q])
             /\ chosen[q] # 0 => Gives(attempts'[q], chosen[q], chosen'[q])
  <2> DEFINE d == IF selects THEN Grading!Select(t) ELSE chosen[p]
  <2>1. attempts[p] \in Seq(Tries) /\ chosen[p] \in Nat /\ Stands(attempts[p], chosen[p])
    BY DEF LedgerInv
  <2>2. d \in Nat /\ Stands(t, d) /\ (chosen[p] # 0 => Gives(t, chosen[p], d))
    BY <1>3, <2>1, Selecting
  <2>3. attempts' = [attempts EXCEPT ![p] = t] /\ chosen' = [chosen EXCEPT ![p] = d]
    BY <1>3 DEF Grading!Leaves, LedgerInv
  <2> HIDE DEF d
  <2>4. attempts' \in [Grading!Q -> Seq(Tries)] /\ chosen' \in [Grading!Q -> Nat]
    BY <2>2, <2>3 DEF LedgerInv
  <2>5. CASE q = p
    <3>1. attempts'[q] = t /\ chosen'[q] = d
      BY <2>3, <2>5 DEF LedgerInv
    <3> QED BY <1>3, <2>2, <2>4, <2>5, <3>1
  <2>6. CASE q # p
    <3>1. attempts'[q] = attempts[q] /\ chosen'[q] = chosen[q]
      BY <2>3, <2>6 DEF LedgerInv
    <3> QED BY <1>0, <1>1, <2>4, <3>1
  <2> QED BY <2>5, <2>6
<1> QED BY <1>2, <1>3, AttemptsMove DEF Goes

\* What the ledger says of the questions is kept by every step.
LEMMA LedgerStep ==
    ASSUME LedgerInv, Grading!Next
    PROVE  LedgerInv'
<1>1. \A q \in Grading!Q : FirstAsked(attempts'[q]) /\ Stands(attempts'[q], chosen'[q])
  BY QuestionMoves
<1>2. attempts' \in [Grading!Q -> Seq(Tries)] /\ chosen' \in [Grading!Q -> Nat]
  <2>1. CASE Grading!Q = {}
    BY <2>1, AttemptsMove DEF LedgerInv
  <2>2. CASE Grading!Q # {}
    BY <2>2, QuestionMoves
  <2> QED BY <2>1, <2>2
<1> QED BY <1>1, <1>2, TextMoves DEF LedgerInv

-----------------------------------------------------------------------------
\* Files and their copies: of some questions, with values in R; and g is later
\* than f of attempts tried: for every answer of f that of g may be there.
Of(R) == UNION {[S -> R] : S \in SUBSET Grading!Q}
Later(tried, f, g) == \A q \in DOMAIN f \intersect DOMAIN g : Gives(tried[q], f[q], g[q])

\* An answer file or copy f that is older than what is said, and what is
\* selected, sel, later than all of them.
Older(tried, sel, said, f) ==
    Later(tried, f, sel) /\ \A g \in said : Later(tried, f, g)

\* What is later stays so, whichever step is taken, and so does the choice.
LEMMA LaterStays ==
    ASSUME LedgerInv, Grading!Next
    PROVE  \A f \in Of(Nat) : /\ \A g : Later(attempts, f, g) => Later(attempts', f, g)
                              /\ Later(attempts, f, chosen) => Later(attempts', f, chosen')
<1> SUFFICES ASSUME NEW f \in Of(Nat)
             PROVE  /\ \A g : Later(attempts, f, g) => Later(attempts', f, g)
                    /\ Later(attempts, f, chosen) => Later(attempts', f, chosen')
  OBVIOUS
<1>0. DOMAIN f \subseteq Grading!Q
  BY DEF Of
<1>1. ASSUME NEW g, Later(attempts, f, g), NEW q \in DOMAIN f \intersect DOMAIN g
      PROVE  Gives(attempts'[q], f[q], g[q])
  <2>1. After(attempts[q], attempts'[q])
    BY <1>0, QuestionMoves
  <2> QED BY <1>1, <2>1, GivesAfter DEF Later
<1>2. ASSUME Later(attempts, f, chosen), NEW q \in DOMAIN f \intersect DOMAIN chosen'
      PROVE  Gives(attempts'[q], f[q], chosen'[q])
  <2>1. q \in Grading!Q /\ q \in DOMAIN chosen /\ attempts[q] \in Seq(Tries)
    BY <1>0 DEF LedgerInv
  <2>2. Gives(attempts[q], f[q], chosen[q])
    BY <1>2, <2>1 DEF Later
  <2>3. chosen[q] # 0
    BY <2>1, <2>2 DEF Gives
  <2>4. /\ attempts'[q] \in Seq(Tries) /\ After(attempts[q], attempts'[q])
        /\ Gives(attempts'[q], chosen[q], chosen'[q])
    BY <2>1, <2>3, QuestionMoves
  <2> QED BY <2>2, <2>4, GivesAfter, GivesOn
<1> QED BY <1>1, <1>2 DEF Later

\* The empty file, a file with one more entry, and two files in one.
LEMMA OfEmpty ==
    ASSUME NEW R
    PROVE  Grading!Empty \in Of(R) /\ DOMAIN Grading!Empty = {}
           /\ \A tried, f : Later(tried, Grading!Empty, f) /\ Later(tried, f, Grading!Empty)
<1>1. Grading!Empty \in [{} -> R] /\ DOMAIN Grading!Empty = {}
  BY DEF Grading!Empty
<1> QED BY <1>1 DEF Of, Later

LEMMA OfWith ==
    ASSUME NEW R, NEW f \in Of(R), NEW q \in Grading!Q, NEW v \in R
    PROVE  Grading!With(f, q, v) \in Of(R)
<1>1. PICK S \in SUBSET Grading!Q : f \in [S -> R]
  BY DEF Of
<1>2. Grading!With(f, q, v) \in [S \union {q} -> R]
  BY <1>1 DEF Grading!With
<1> QED BY <1>2 DEF Of

LEMMA OfEarliest ==
    ASSUME NEW R, NEW f \in Of(R), NEW g \in Of(R)
    PROVE  Grading!Earliest(f, g) \in Of(R)
<1>1. PICK S \in SUBSET Grading!Q : f \in [S -> R]
  BY DEF Of
<1>2. PICK T \in SUBSET Grading!Q : g \in [T -> R]
  BY DEF Of
<1>3. Grading!Earliest(f, g) \in [S \union T -> R]
  BY <1>1, <1>2 DEF Grading!Earliest
<1> QED BY <1>3 DEF Of

\* What is older than h is so of it with what was selected added, with one of
\* its own for another's, and together with another.
LEMMA LaterWith ==
    ASSUME NEW tried, NEW f, NEW h, NEW sel, NEW q, q \in DOMAIN sel,
           Later(tried, f, h), Later(tried, f, sel)
    PROVE  Later(tried, f, Grading!With(h, q, sel[q]))
BY DEF Later, Grading!With

LEMMA WithOlder ==
    ASSUME NEW tried, NEW sel, NEW said, NEW f, NEW ans, NEW q \in DOMAIN ans,
           Older(tried, sel, said, f), Older(tried, sel, said, ans)
    PROVE  Older(tried, sel, said, Grading!With(f, q, ans[q]))
BY DEF Older, Later, Grading!With

LEMMA EarliestOlder ==
    ASSUME NEW tried, NEW sel, NEW said, NEW f, NEW g,
           Older(tried, sel, said, f), Older(tried, sel, said, g)
    PROVE  Older(tried, sel, said, Grading!Earliest(f, g))
BY DEF Older, Later, Grading!Earliest

\* What is selected for a file of answers is there for each of them itself.
LEMMA LaterSelf ==
    ASSUME NEW tried, NEW f, NEW sel, DOMAIN f \subseteq DOMAIN sel, Later(tried, f, sel)
    PROVE  Later(tried, f, f)
BY DEF Later, Gives

-----------------------------------------------------------------------------
Files(R) == [whole : BOOLEAN, there : BOOLEAN, data : Of(R)]

Batches == [pc : {"idle", "asking", "writing"}, slice : SUBSET Grading!Q,
            seen : SUBSET Grading!Q, got : Of(Nat), failed : SUBSET Grading!Q]

\* The answers that come after those of the file and its copies: the file
\* itself, and what the batch at work has got.
Said == {answers.data, batch.got}

BatchInv ==
    /\ batch \in Batches
    /\ answers \in Files(Nat)
    /\ given \in Of(Nat)
    /\ Later(attempts, batch.got, chosen)
    /\ \A f \in {answers.data, given} : Older(attempts, chosen, Said, f)
    /\ DOMAIN answers.data \subseteq DOMAIN given

GraderStates == [pc : {"idle", "at", "opening", "writing"}, i : Nat, ans : Of(Nat),
                 grades : Of(Tiers), now : Nat]

GraderInv ==
    /\ grader \in [Graders -> GraderStates]
    /\ grades \in Files(Tiers)
    /\ judged \in Of(Nat) /\ recorded \in Of(Tiers)
    /\ Older(attempts, chosen, Said, judged)
    /\ \A g \in Graders : Older(attempts, chosen, Said, grader[g].ans)
    /\ DOMAIN grades.data \subseteq DOMAIN judged
    /\ \A g \in Graders : DOMAIN grader[g].grades \subseteq DOMAIN judged

\* What the invariant says of the values of a batch.
LEMMA BatchTyped ==
    ASSUME BatchInv
    PROVE  /\ batch.got \in Of(Nat) /\ answers.data \in Of(Nat) /\ given \in Of(Nat)
           /\ DOMAIN batch.got \subseteq Grading!Q /\ DOMAIN answers.data \subseteq Grading!Q
BY DEF BatchInv, Batches, Files, Of

\* A batch gets what is selected, which is after everything older.
LEMMA GotMore ==
    ASSUME LedgerInv, LedgerInv', BatchInv, Grading!Next, NEW q \in Grading!Q, chosen'[q] # 0,
           batch' = [Grading!Seen(q) EXCEPT !.got = Grading!With(@, q, chosen'[q])],
           answers' = answers
    PROVE  /\ batch' \in Batches
           /\ Later(attempts', batch'.got, chosen')
           /\ \A f \in Of(Nat) : Older(attempts, chosen, Said, f) => Older(attempts', chosen', Said', f)
<1> DEFINE g == Grading!With(batch.got, q, chosen'[q])
<1>0. batch \in Batches /\ batch.got \in Of(Nat)
  BY DEF BatchInv, Batches
<1>1. batch' = [batch EXCEPT !.seen = @ \union {q}, !.got = g]
  BY DEF Grading!Seen, BatchInv, Batches
<1>2. chosen'[q] \in Nat /\ q \in DOMAIN chosen' /\ Gives(attempts'[q], chosen'[q], chosen'[q])
  BY DEF LedgerInv, Stands, Wins, Gives
<1>3. g \in Of(Nat)
  BY <1>0, <1>2, OfWith
<1>4. Later(attempts', batch.got, chosen')
  BY <1>0, LaterStays DEF BatchInv
<1>5. Later(attempts', g, chosen')
  BY <1>2, <1>4 DEF Later, Grading!With
<1>6. ASSUME NEW f \in Of(Nat), Older(attempts, chosen, Said, f)
      PROVE  /\ Later(attempts', f, chosen') /\ Later(attempts', f, answers.data)
             /\ Later(attempts', f, g)
  <2>1. /\ Later(attempts', f, chosen') /\ Later(attempts', f, answers.data)
        /\ Later(attempts', f, batch.got)
    BY <1>6, LaterStays DEF Older, Said
  <2> QED BY <1>2, <2>1, LaterWith
<1> HIDE DEF g
<1>7. batch.seen \union {q} \in SUBSET Grading!Q
  BY <1>0 DEF Batches
<1>8. batch' \in Batches /\ batch'.got = g
  BY <1>0, <1>1, <1>3, <1>7 DEF Batches
<1>9. Said' = {answers.data, g}
  BY <1>8 DEF Said
<1> QED BY <1>5, <1>6, <1>8, <1>9 DEF Older

\* Whatever the step, what is older than the file and the batch stays so.
LEMMA OlderStays ==
    ASSUME LedgerInv, BatchInv, Grading!Next
    PROVE  /\ batch' \in Batches
           /\ Later(attempts', batch'.got, chosen')
           /\ \A f \in Of(Nat) : Older(attempts, chosen, Said, f) => Older(attempts', chosen', Said', f)
<1> DEFINE Goal == /\ batch' \in Batches
                   /\ Later(attempts', batch'.got, chosen')
                   /\ \A f \in Of(Nat) : Older(attempts, chosen, Said, f)
                                             => Older(attempts', chosen', Said', f)
<1> SUFFICES Goal
  OBVIOUS
<1>0. LedgerInv'
  BY LedgerStep
\* The batch has got what it had or nothing, and the file says what it said,
\* or what the batch has got, or nothing.
<1>1. ASSUME batch' \in Batches, batch'.got \in {batch.got, Grading!Empty},
             answers'.data \in {answers.data, batch.got, Grading!Empty}
      PROVE  Goal
  <2>1. Later(attempts', batch.got, chosen')
    BY BatchTyped, LaterStays DEF BatchInv
  <2>2. Later(attempts', batch'.got, chosen')
    BY <1>1, <2>1, OfEmpty
  <2>3. ASSUME NEW f \in Of(Nat), Older(attempts, chosen, Said, f)
        PROVE  Older(attempts', chosen', Said', f)
    <3>1. /\ Later(attempts', f, chosen') /\ Later(attempts', f, answers.data)
          /\ Later(attempts', f, batch.got) /\ Later(attempts', f, Grading!Empty)
      BY <2>3, LaterStays, OfEmpty DEF Older, Said
    <3>2. Said' = {answers'.data, batch'.got}
      BY DEF Said
    <3>3. Said' \subseteq {answers.data, batch.got, Grading!Empty}
      BY <1>1, <3>2
    <3> QED BY <3>1, <3>3 DEF Older
  <2> QED BY <1>1, <2>2, <2>3
<1> HIDE DEF Goal
<1>2. ASSUME NEW first \in Grading!Q, NEW final \in Grading!Q, Grading!BatchStart(first, final)
      PROVE  Goal
  <2>1. first..final \subseteq Grading!Q
    BY Numbered DEF Grading!Q
  <2>2. batch' \in Batches /\ batch'.got = Grading!Empty
    BY <1>2, <2>1, OfEmpty DEF Grading!BatchStart, Grading!BatchIdle, Batches
  <2>3. answers' = answers
    BY <1>2 DEF Grading!BatchStart
  <2> QED BY <1>1, <2>2, <2>3
<1>3. ASSUME NEW q \in Grading!Q, Grading!Resume(q)
      PROVE  Goal
  <2>1. /\ batch' = [Grading!Seen(q) EXCEPT !.got = Grading!With(@, q, chosen'[q])]
        /\ answers' = answers /\ chosen'[q] # 0
    BY <1>3 DEF Grading!Resume, Grading!ledger, Grading!Answered, Grading!Satisfied
  <2> QED BY <1>0, <2>1, GotMore DEF Goal
<1>4. ASSUME NEW q \in Grading!Q, NEW state \in Grading!State, NEW selects \in BOOLEAN,
             Grading!Ask(q, state, selects)
      PROVE  Goal
  <2>0. answers' = answers
    BY <1>4 DEF Grading!Ask
  <2>1. CASE chosen'[q] # 0
    <3>1. batch' = [Grading!Seen(q) EXCEPT !.got = Grading!With(@, q, chosen'[q])]
      BY <1>4, <2>1 DEF Grading!Ask
    <3> QED BY <1>0, <2>0, <2>1, <3>1, GotMore DEF Goal
  <2>2. CASE chosen'[q] = 0
    <3>1. batch' = [Grading!Seen(q) EXCEPT !.failed = @ \union {q}]
      BY <1>4, <2>2 DEF Grading!Ask
    <3>2. batch' \in Batches /\ batch'.got = batch.got
      BY <3>1 DEF Grading!Seen, BatchInv, Batches
    <3> QED BY <1>1, <2>0, <3>2
  <2> QED BY <2>1, <2>2
<1>5. ASSUME NEW q \in Grading!Q, Grading!AskAgain(q)
      PROVE  Goal
  <2>1. batch' = [Grading!Seen(q) EXCEPT !.failed = @ \union {q}] /\ answers' = answers
    BY <1>5 DEF Grading!AskAgain
  <2>2. batch' \in Batches /\ batch'.got = batch.got
    BY <2>1 DEF Grading!Seen, BatchInv, Batches
  <2> QED BY <1>1, <2>1, <2>2
<1>6. CASE Grading!BatchTruncate
  <2>1. batch' = [batch EXCEPT !.pc = "writing"] /\ answers' = Grading!Torn
    BY <1>6 DEF Grading!BatchTruncate
  <2>2. answers'.data = Grading!Empty
    BY <2>1 DEF Grading!Torn
  <2>3. batch' \in Batches /\ batch'.got = batch.got
    BY <2>1 DEF BatchInv, Batches
  <2> QED BY <1>1, <2>2, <2>3
<1>7. CASE Grading!BatchWrite
  <2>1. batch' = Grading!BatchIdle /\ answers' = Grading!File(batch.got)
    BY <1>7 DEF Grading!BatchWrite
  <2>2. answers'.data = batch.got
    BY <2>1 DEF Grading!File
  <2>3. batch' \in Batches /\ batch'.got = Grading!Empty
    BY <2>1, OfEmpty DEF Grading!BatchIdle, Batches
  <2> QED BY <1>1, <2>2, <2>3
<1>8. CASE Grading!KillBatch
  <2>1. batch' = Grading!BatchIdle /\ answers' = answers
    BY <1>8 DEF Grading!KillBatch, Grading!Mishap
  <2>2. batch' \in Batches /\ batch'.got = Grading!Empty
    BY <2>1, OfEmpty DEF Grading!BatchIdle, Batches
  <2> QED BY <1>1, <2>1, <2>2
<1>9. CASE Operating \/ Judging
  <2>1. UNCHANGED <<batch, answers>>
    BY <1>9, OperatingLeaves, JudgingLeaves
  <2>2. batch' \in Batches
    BY <2>1 DEF BatchInv
  <2> QED BY <1>1, <2>1, <2>2
<1>10. CASE Asking
  BY <1>2, <1>3, <1>4, <1>5, <1>8, <1>10 DEF Asking
<1> QED BY <1>6, <1>7, <1>9, <1>10, Kinds

\* A batch's answers, the file and its history stay in their order.
LEMMA BatchStep ==
    ASSUME LedgerInv, BatchInv, Grading!Next
    PROVE  BatchInv'
<1>0. /\ batch.got \in Of(Nat) /\ answers.data \in Of(Nat) /\ given \in Of(Nat)
      /\ Older(attempts, chosen, Said, answers.data) /\ Older(attempts, chosen, Said, given)
      /\ Older(attempts', chosen', Said', answers.data) /\ Older(attempts', chosen', Said', given)
  <2>1. Older(attempts, chosen, Said, answers.data) /\ Older(attempts, chosen, Said, given)
    BY DEF BatchInv
  <2> QED BY <2>1, BatchTyped, OlderStays
<1>1. CASE Grading!BatchTruncate
  <2>1. answers' = Grading!Torn /\ given' = given
    BY <1>1 DEF Grading!BatchTruncate
  <2>2. answers' \in Files(Nat) /\ answers'.data = Grading!Empty
    BY <2>1, OfEmpty DEF Grading!Torn, Files
  <2>3. Older(attempts', chosen', Said', answers'.data)
    BY <2>2, OfEmpty DEF Older
  <2> QED BY <1>0, <2>1, <2>2, <2>3, OlderStays, OfEmpty DEF BatchInv
<1>2. CASE Grading!BatchWrite
  <2>1. /\ batch' = Grading!BatchIdle /\ answers' = Grading!File(batch.got)
        /\ given' = Grading!Earliest(given, batch.got)
    BY <1>2 DEF Grading!BatchWrite
  <2>2. answers' \in Files(Nat) /\ answers'.data = batch.got
    BY <1>0, <2>1 DEF Grading!File, Files
  <2>3. batch'.got = Grading!Empty
    BY <2>1 DEF Grading!BatchIdle
  <2>4. Later(attempts', batch.got, chosen') /\ DOMAIN batch.got \subseteq DOMAIN chosen'
    <3>1. DOMAIN chosen' = Grading!Q
      BY LedgerStep DEF LedgerInv
    <3> QED BY <1>0, <3>1, BatchTyped, LaterStays DEF BatchInv
  <2>5. Older(attempts', chosen', Said', batch.got)
    <3>1. Later(attempts', batch.got, batch.got)
      BY <2>4, LaterSelf
    <3>2. Said' = {batch.got, Grading!Empty}
      BY <2>2, <2>3 DEF Said
    <3> QED BY <2>4, <3>1, <3>2, OfEmpty DEF Older
  <2>6. given' \in Of(Nat) /\ DOMAIN batch.got \subseteq DOMAIN given'
    BY <1>0, <2>1, OfEarliest DEF Grading!Earliest
  <2>7. Older(attempts', chosen', Said', given')
    BY <1>0, <2>1, <2>5, EarliestOlder
  <2> QED BY <2>2, <2>5, <2>6, <2>7, OlderStays DEF BatchInv
<1>3. CASE Asking \/ Operating \/ Judging
  <2>1. UNCHANGED <<answers, given>>
    BY <1>3, AskingLeaves, OperatingLeaves, JudgingLeaves
  <2> QED BY <1>0, <2>1, OlderStays DEF BatchInv
<1> QED BY <1>1, <1>2, <1>3, Kinds

\* A grader's answers and those it judged stay older, and it judged what it graded.
LEMMA GraderStep ==
    ASSUME LedgerInv, BatchInv, GraderInv, Grading!Next
    PROVE  GraderInv'
<1>0. /\ Older(attempts', chosen', Said', judged)
      /\ answers.data \in Of(Nat) /\ Older(attempts', chosen', Said', answers.data)
      /\ \A g \in Graders : /\ grader[g] \in GraderStates
                            /\ grader[g].ans \in Of(Nat) /\ grader[g].grades \in Of(Tiers)
                            /\ grader[g].i \in Nat /\ grader[g].now \in Nat
                            /\ Older(attempts', chosen', Said', grader[g].ans)
  <2>1. /\ answers.data \in Of(Nat) /\ Older(attempts, chosen, Said, answers.data)
        /\ \A g \in Graders : /\ grader[g] \in GraderStates
                              /\ grader[g].ans \in Of(Nat) /\ grader[g].grades \in Of(Tiers)
                              /\ grader[g].i \in Nat /\ grader[g].now \in Nat
                              /\ Older(attempts, chosen, Said, grader[g].ans)
    BY DEF BatchInv, Files, GraderInv, GraderStates
  <2> QED BY <2>1, OlderStays DEF GraderInv
\* A grader's state is set, and the files stay.
<1>1. ASSUME NEW g \in Graders, NEW s \in GraderStates, grader' = [grader EXCEPT ![g] = s],
             UNCHANGED <<grades, judged, recorded>>, Older(attempts', chosen', Said', s.ans),
             DOMAIN s.grades \subseteq DOMAIN judged
      PROVE  GraderInv'
  BY <1>0, <1>1 DEF GraderInv
<1>2. ASSUME NEW g \in Graders, Grading!GradeStart(g)
      PROVE  GraderInv'
  <2> DEFINE s == [pc |-> "at", i |-> Shard[g].offset + 1,
                   ans |-> answers.data, grades |-> grades.data, now |-> 0]
  <2>1. /\ grader' = [grader EXCEPT ![g] = s] /\ UNCHANGED <<grades, judged, recorded>>
    BY <1>2 DEF Grading!GradeStart, Grading!Prior
  <2>2. Shard[g].offset + 1 \in Nat /\ grades.data \in Of(Tiers)
    BY Numbered DEF GraderInv, Files
  <2>3. s \in GraderStates
    BY <1>0, <2>2 DEF GraderStates
  <2>4. Older(attempts', chosen', Said', s.ans) /\ DOMAIN s.grades \subseteq DOMAIN judged
    BY <1>0 DEF GraderInv
  <2> HIDE DEF s
  <2> QED BY <1>1, <2>1, <2>3, <2>4
<1>3. ASSUME NEW g \in Graders, Grading!Skip(g)
      PROVE  GraderInv'
  <2> DEFINE s == [grader[g] EXCEPT !.i = @ + 1]
  <2>1. /\ grader' = [grader EXCEPT ![g] = s] /\ UNCHANGED <<grades, judged, recorded>>
    BY <1>3 DEF Grading!Skip
  <2>2. /\ s \in GraderStates /\ s.ans = grader[g].ans /\ s.grades = grader[g].grades
    BY <1>0 DEF GraderStates
  <2> HIDE DEF s
  <2> QED BY <1>0, <1>1, <2>1, <2>2 DEF GraderInv
<1>4. ASSUME NEW g \in Graders, NEW tier \in Tiers, Grading!Judge(g, tier)
      PROVE  GraderInv'
  <2> DEFINE q == grader[g].i
             k == Grading!With(grader[g].grades, q, tier)
             s == [grader[g] EXCEPT !.pc = "opening", !.now = @ + 1, !.grades = k]
  <2>1. /\ grader' = [grader EXCEPT ![g] = s] /\ UNCHANGED <<grades, recorded>>
        /\ judged' = Grading!With(judged, q, grader[g].ans[q])
        /\ q \in DOMAIN grader[g].ans
    BY <1>4 DEF Grading!Judge
  <2>2. q \in Grading!Q /\ grader[g].ans[q] \in Nat
    BY <1>0, <2>1 DEF Of
  <2>3. k \in Of(Tiers) /\ DOMAIN k = DOMAIN grader[g].grades \union {q}
    BY <1>0, <2>2, OfWith DEF Grading!With
  <2>4. judged' \in Of(Nat) /\ DOMAIN judged' = DOMAIN judged \union {q}
    BY <2>1, <2>2, OfWith DEF GraderInv, Grading!With
  <2>5. Older(attempts', chosen', Said', judged')
    BY <1>0, <2>1, WithOlder
  <2> HIDE DEF k
  <2>6. s \in GraderStates /\ s.ans = grader[g].ans /\ s.grades = k
    <3>1. grader[g] \in GraderStates /\ grader[g].now + 1 \in Nat
      BY <1>0
    <3> QED BY <2>3, <3>1 DEF GraderStates
  <2> HIDE DEF s, q
  <2> QED BY <1>0, <2>1, <2>3, <2>4, <2>5, <2>6 DEF GraderInv
<1>5. ASSUME NEW g \in Graders, Grading!GradeTruncate(g)
      PROVE  GraderInv'
  <2> DEFINE s == [grader[g] EXCEPT !.pc = "writing"]
  <2>1. /\ grader' = [grader EXCEPT ![g] = s] /\ UNCHANGED <<judged, recorded>>
        /\ grades' = Grading!Torn
    BY <1>5 DEF Grading!GradeTruncate
  <2>2. /\ s \in GraderStates /\ s.ans = grader[g].ans /\ s.grades = grader[g].grades
    BY <1>0 DEF GraderStates
  <2>3. grades' \in Files(Tiers) /\ DOMAIN grades'.data = {}
    BY <2>1, OfEmpty DEF Files, Grading!Torn
  <2> HIDE DEF s
  <2> QED BY <1>0, <2>1, <2>2, <2>3 DEF GraderInv
<1>6. ASSUME NEW g \in Graders, Grading!GradeWrite(g)
      PROVE  GraderInv'
  <2> DEFINE s == [grader[g] EXCEPT !.pc = "at", !.i = @ + 1]
  <2>1. /\ grader' = [grader EXCEPT ![g] = s] /\ judged' = judged
        /\ grades' = Grading!File(grader[g].grades)
        /\ recorded' = Grading!Earliest(recorded, grader[g].grades)
    BY <1>6 DEF Grading!GradeWrite
  <2>2. /\ s \in GraderStates /\ s.ans = grader[g].ans /\ s.grades = grader[g].grades
    <3>1. grader[g] \in GraderStates /\ grader[g].i + 1 \in Nat
      BY <1>0
    <3> QED BY <3>1 DEF GraderStates
  <2>3. grades' \in Files(Tiers) /\ grades'.data = grader[g].grades
    BY <1>0, <2>1 DEF Files, Grading!File
  <2>4. recorded' \in Of(Tiers)
    BY <1>0, <2>1, OfEarliest DEF GraderInv
  <2> HIDE DEF s
  <2> QED BY <1>0, <2>1, <2>2, <2>3, <2>4 DEF GraderInv
<1>7. ASSUME NEW g \in Graders, Grading!GradeEnd(g) \/ Grading!KillGrader(g)
      PROVE  GraderInv'
  <2>1. /\ grader' = [grader EXCEPT ![g] = Grading!GraderIdle]
        /\ UNCHANGED <<grades, judged, recorded>>
    BY <1>7 DEF Grading!GradeEnd, Grading!KillGrader, Grading!Mishap
  <2>2. /\ Grading!GraderIdle \in GraderStates /\ Grading!GraderIdle.ans = Grading!Empty
        /\ Grading!GraderIdle.grades = Grading!Empty
    BY OfEmpty DEF Grading!GraderIdle, GraderStates
  <2>3. /\ Older(attempts', chosen', Said', Grading!GraderIdle.ans)
        /\ DOMAIN Grading!GraderIdle.grades \subseteq DOMAIN judged
    BY <2>2, OfEmpty DEF Older
  <2> QED BY <1>1, <2>1, <2>2, <2>3
<1>8. CASE Judging
  BY <1>2, <1>3, <1>4, <1>5, <1>6, <1>7, <1>8 DEF Judging
<1>9. CASE Asking \/ Operating \/ Grading!BatchTruncate \/ Grading!BatchWrite
  <2>1. UNCHANGED <<grader, grades, judged, recorded>>
    BY <1>9, AskingLeaves, OperatingLeaves, WritingLeaves
  <2> QED BY <1>0, <2>1 DEF GraderInv
<1> QED BY <1>8, <1>9, Kinds

-----------------------------------------------------------------------------
(* One grader. *)

OneGrader == \A g, h \in Graders : g = h

\* What is on record is in f.
Agrees(f) == \A q \in DOMAIN recorded : q \in DOMAIN f /\ f[q] = recorded[q]

KeptInv ==
    /\ grades.whole => Agrees(grades.data)
    /\ \A g \in Graders : grader[g].pc # "idle" => Agrees(grader[g].grades)

\* One grader has every tier on record, and so has every file it leaves whole.
LEMMA KeptStep ==
    ASSUME OneGrader, GraderInv, KeptInv, Grading!Next
    PROVE  KeptInv'
<1>0. \A g \in Graders : grader[g] \in GraderStates
  BY DEF GraderInv
\* The grader goes on, and the file stays.
<1>1. ASSUME NEW g \in Graders, NEW s, grader' = [grader EXCEPT ![g] = s],
             UNCHANGED <<grades, recorded>>, s.pc # "idle" => Agrees(s.grades)
      PROVE  KeptInv'
  <2>1. grader'[g] = s /\ \A h \in Graders : h # g => grader'[h] = grader[h]
    BY <1>1 DEF GraderInv
  <2> QED BY <1>1, <2>1 DEF KeptInv, Agrees
<1>2. ASSUME NEW g \in Graders, Grading!GradeStart(g)
      PROVE  KeptInv'
  <2> DEFINE s == [pc |-> "at", i |-> Shard[g].offset + 1,
                   ans |-> answers.data, grades |-> grades.data, now |-> 0]
  <2>1. /\ grader' = [grader EXCEPT ![g] = s] /\ UNCHANGED <<grades, recorded>>
        /\ grades.whole
    BY <1>2 DEF Grading!GradeStart, Grading!Prior
  <2>2. Agrees(s.grades)
    BY <2>1 DEF KeptInv
  <2> HIDE DEF s
  <2> QED BY <1>1, <2>1, <2>2
<1>3. ASSUME NEW g \in Graders, Grading!Skip(g)
      PROVE  KeptInv'
  <2> DEFINE s == [grader[g] EXCEPT !.i = @ + 1]
  <2>1. /\ grader' = [grader EXCEPT ![g] = s] /\ UNCHANGED <<grades, recorded>>
        /\ grader[g].pc = "at"
    BY <1>3 DEF Grading!Skip, Grading!More
  <2>2. s.grades = grader[g].grades
    BY <1>0 DEF GraderStates
  <2> HIDE DEF s
  <2> QED BY <1>1, <2>1, <2>2 DEF KeptInv
<1>4. ASSUME NEW g \in Graders, NEW tier \in Tiers, Grading!Judge(g, tier)
      PROVE  KeptInv'
  <2> DEFINE q == grader[g].i
             k == Grading!With(grader[g].grades, q, tier)
             s == [grader[g] EXCEPT !.pc = "opening", !.now = @ + 1, !.grades = k]
  <2>1. /\ grader' = [grader EXCEPT ![g] = s] /\ UNCHANGED <<grades, recorded>>
        /\ grader[g].pc = "at" /\ q \notin DOMAIN grader[g].grades
    BY <1>4 DEF Grading!Judge, Grading!More, Grading!Graded
  <2>2. Agrees(grader[g].grades)
    BY <2>1 DEF KeptInv
  <2>3. Agrees(k)
    BY <2>1, <2>2 DEF Agrees, Grading!With
  <2> HIDE DEF k
  <2>4. s.grades = k
    BY <1>0 DEF GraderStates
  <2> HIDE DEF s
  <2> QED BY <1>1, <2>1, <2>3, <2>4
<1>5. ASSUME NEW g \in Graders, Grading!GradeTruncate(g)
      PROVE  KeptInv'
  <2> DEFINE s == [grader[g] EXCEPT !.pc = "writing"]
  <2>1. /\ grader' = [grader EXCEPT ![g] = s] /\ recorded' = recorded
        /\ grades' = Grading!Torn /\ grader[g].pc = "opening"
    BY <1>5 DEF Grading!GradeTruncate
  <2>2. s.grades = grader[g].grades
    BY <1>0 DEF GraderStates
  <2> HIDE DEF s
  <2>3. grader'[g] = s /\ \A h \in Graders : h # g => grader'[h] = grader[h]
    BY <2>1 DEF GraderInv
  <2>4. ~grades'.whole
    BY <2>1 DEF Grading!Torn
  <2> QED BY <2>1, <2>2, <2>3, <2>4 DEF KeptInv, Agrees
<1>6. ASSUME NEW g \in Graders, Grading!GradeWrite(g)
      PROVE  KeptInv'
  <2> DEFINE s == [grader[g] EXCEPT !.pc = "at", !.i = @ + 1]
             f == grader[g].grades
  <2>1. /\ grader' = [grader EXCEPT ![g] = s] /\ grader[g].pc = "writing"
        /\ grades' = Grading!File(f) /\ recorded' = Grading!Earliest(recorded, f)
    BY <1>6 DEF Grading!GradeWrite
  <2>2. s.grades = f
    BY <1>0 DEF GraderStates
  <2> HIDE DEF s
  <2>3. grader'[g] = s
    BY <2>1 DEF GraderInv
  <2>4. Agrees(f)
    BY <2>1 DEF KeptInv
  <2>5. \A q \in DOMAIN recorded' : q \in DOMAIN f /\ f[q] = recorded'[q]
    BY <2>1, <2>4 DEF Agrees, Grading!Earliest
  <2>6. grades'.data = f
    BY <2>1 DEF Grading!File
  <2> HIDE DEF f
  <2>7. ASSUME NEW h \in Graders PROVE grader'[h].grades = f
    BY <2>2, <2>3 DEF OneGrader
  <2> QED BY <2>5, <2>6, <2>7 DEF KeptInv, Agrees
<1>7. ASSUME NEW g \in Graders, Grading!GradeEnd(g) \/ Grading!KillGrader(g)
      PROVE  KeptInv'
  <2>1. /\ grader' = [grader EXCEPT ![g] = Grading!GraderIdle]
        /\ UNCHANGED <<grades, recorded>>
    BY <1>7 DEF Grading!GradeEnd, Grading!KillGrader, Grading!Mishap
  <2>2. Grading!GraderIdle.pc = "idle"
    BY DEF Grading!GraderIdle
  <2> QED BY <1>1, <2>1, <2>2
<1>8. CASE Judging
  BY <1>2, <1>3, <1>4, <1>5, <1>6, <1>7, <1>8 DEF Judging
<1>9. CASE Asking \/ Operating \/ Grading!BatchTruncate \/ Grading!BatchWrite
  <2>1. UNCHANGED <<grader, grades, recorded>>
    BY <1>9, AskingLeaves, OperatingLeaves, WritingLeaves
  <2> QED BY <2>1 DEF KeptInv, Agrees
<1> QED BY <1>8, <1>9, Kinds

-----------------------------------------------------------------------------
GradingInv == LedgerInv /\ BatchInv /\ GraderInv

\* With nothing asked and nothing graded all of it holds.
LEMMA GradingInit == Grading!Init => GradingInv /\ KeptInv
<1> SUFFICES ASSUME Grading!Init PROVE GradingInv /\ KeptInv
  OBVIOUS
<1>1. LedgerInv
  BY DEF Grading!Init, LedgerInv, FirstAsked, Stands
<1>2. BatchInv
  <2>1. batch \in Batches /\ batch.got = Grading!Empty
    BY OfEmpty DEF Grading!Init, Grading!BatchIdle, Batches
  <2>2. answers \in Files(Nat) /\ answers.data = Grading!Empty
    BY OfEmpty DEF Grading!Init, Grading!NoFile, Files
  <2>3. given = Grading!Empty
    BY DEF Grading!Init
  <2> QED BY <2>1, <2>2, <2>3, OfEmpty DEF BatchInv, Older
<1>3. /\ \A g \in Graders : grader[g] = Grading!GraderIdle
      /\ grader \in [Graders -> {Grading!GraderIdle}]
      /\ grades = Grading!NoFile /\ judged = Grading!Empty /\ recorded = Grading!Empty
  BY DEF Grading!Init
<1>4. GraderInv
  <2>1. /\ Grading!GraderIdle \in GraderStates /\ Grading!GraderIdle.ans = Grading!Empty
        /\ Grading!GraderIdle.grades = Grading!Empty
    BY OfEmpty DEF Grading!GraderIdle, GraderStates
  <2>2. grades \in Files(Tiers) /\ grades.data = Grading!Empty
    BY <1>3, OfEmpty DEF Grading!NoFile, Files
  <2> QED BY <1>3, <2>1, <2>2, OfEmpty DEF GraderInv, Older
<1>5. KeptInv
  BY <1>3, OfEmpty DEF KeptInv, Agrees, Grading!GraderIdle
<1> QED BY <1>1, <1>2, <1>4, <1>5 DEF GradingInv

\* And every step keeps it.
LEMMA GradingStep == GradingInv /\ [Grading!Next]_questions => GradingInv'
<1> SUFFICES ASSUME GradingInv, [Grading!Next]_questions PROVE GradingInv'
  OBVIOUS
<1>1. CASE Grading!Next
  BY <1>1, LedgerStep, BatchStep, GraderStep DEF GradingInv
<1>2. CASE UNCHANGED questions
  BY <1>2 DEF GradingInv, questions, LedgerInv, BatchInv, GraderInv, Said
<1> QED BY <1>1, <1>2

\* The instance counts as everybody does.
LEMMA Counted == \A S : Grading!Cardinality(S) = Cardinality(S)
BY DEF Grading!Cardinality, Cardinality

\* What the invariant says of batches.
LEMMA BatchesSay == GradingInv => Grading!AskedOnce /\ Grading!AnswerStable
<1> SUFFICES ASSUME GradingInv PROVE Grading!AskedOnce /\ Grading!AnswerStable
  OBVIOUS
<1>1. ASSUME NEW q \in Grading!Q
      PROVE  Grading!Cardinality({i \in DOMAIN attempts[q] : attempts[q][i].asked}) <= 1
  <2> DEFINE S == {i \in DOMAIN attempts[q] : attempts[q][i].asked}
  <2>1. \A i, j \in S : i = j
    BY DEF GradingInv, LedgerInv, FirstAsked
  <2> HIDE DEF S
  <2>2. CASE S = {}
    BY <2>2, FS_EmptySet, Counted DEF S
  <2>3. CASE S # {}
    <3>1. PICK i \in S : S = {i}
      BY <2>1, <2>3
    <3>2. Cardinality(S) = 1
      BY <3>1, FS_Singleton
    <3> QED BY <3>2, Counted DEF S
  <2> QED BY <2>2, <2>3
<1>2. ASSUME NEW q \in DOMAIN answers.data
      PROVE  Grading!Yields(q, given[q], answers.data[q])
  <2>1. q \in DOMAIN given /\ Later(attempts, given, answers.data)
    BY DEF GradingInv, BatchInv, Older, Said
  <2> QED BY <2>1 DEF Later, Gives, Grading!Yields
<1> QED BY <1>1, <1>2 DEF Grading!AskedOnce, Grading!AnswerStable

\* What it says of graders.
LEMMA GradersSay == GradingInv => Grading!GradeIsOfAnswer
<1> SUFFICES ASSUME GradingInv, NEW q \in DOMAIN grades.data \intersect DOMAIN answers.data
             PROVE  Grading!Yields(q, judged[q], answers.data[q])
  BY DEF Grading!GradeIsOfAnswer
<1>1. q \in DOMAIN judged /\ Later(attempts, judged, answers.data)
  BY DEF GradingInv, GraderInv, Older, Said
<1> QED BY <1>1 DEF Later, Gives, Grading!Yields

-----------------------------------------------------------------------------
(* The ranking *)

Settlements == [rows : Seq(Ranking!Row), readable : BOOLEAN]

\* A settlement on record is of rows of any valuations and verdicts.
RankingInv == record \in Seq(Settlements)

settled == <<record>>

\* With nothing settled there is nothing wrong with the record.
LEMMA RankingInit == Ranking!Init => RankingInv
BY DEF Ranking!Init, RankingInv

\* One settlement more, at the end.
LEMMA SettledMore ==
    ASSUME RankingInv, NEW n \in 0..MaxRows, NEW rows \in [1..n -> Ranking!Row],
           Ranking!Settle(rows)
    PROVE  /\ rows \in Seq(Ranking!Row)
           /\ record' \in Seq(Settlements) /\ Len(record) \in Nat
           /\ DOMAIN record = 1..Len(record) /\ DOMAIN record' = 1..Len(record) + 1
           /\ Len(record') = Len(record) + 1
           /\ record'[Len(record) + 1] = [rows |-> rows, readable |-> TRUE]
           /\ \A k \in DOMAIN record : record'[k] = record[k]
<1> DEFINE e == [rows |-> rows, readable |-> TRUE]
<1>1. rows \in Seq(Ranking!Row)
  <2>1. n \in Nat
    OBVIOUS
  <2> QED BY <2>1
<1>2. record' = Append(record, e) /\ record \in Seq(Settlements)
  BY DEF Ranking!Settle, RankingInv
<1>3. e \in Settlements
  BY <1>1 DEF Settlements
<1> HIDE DEF e
<1>4. /\ record' \in Seq(Settlements) /\ Len(record) \in Nat
      /\ DOMAIN record = 1..Len(record) /\ DOMAIN record' = 1..Len(record) + 1
      /\ Len(record') = Len(record) + 1
      /\ record'[Len(record) + 1] = e
      /\ \A k \in DOMAIN record : record'[k] = record[k]
  BY <1>2, <1>3
<1> QED BY <1>1, <1>4 DEF e

\* Whatever is settled or rots, the record is one of settlements.
LEMMA RankingStep == RankingInv /\ [Ranking!Next]_settled => RankingInv'
<1> SUFFICES ASSUME RankingInv, [Ranking!Next]_settled PROVE RankingInv'
  OBVIOUS
<1>1. ASSUME NEW n \in 0..MaxRows, NEW rows \in [1..n -> Ranking!Row], Ranking!Settle(rows)
      PROVE  RankingInv'
  BY <1>1, SettledMore DEF RankingInv
<1>2. ASSUME NEW k \in DOMAIN record, Ranking!Spoil(k)
      PROVE  RankingInv'
  <2> DEFINE e == [record[k] EXCEPT !.readable = FALSE]
  <2>1. record' = [record EXCEPT ![k] = e]
    BY <1>2 DEF Ranking!Spoil
  <2>2. e \in Settlements
    <3>1. record[k] \in Settlements
      BY DEF RankingInv
    <3> QED BY <3>1 DEF Settlements
  <2> HIDE DEF e
  <2> QED BY <2>1, <2>2 DEF RankingInv
<1>3. CASE UNCHANGED settled
  BY <1>3 DEF settled, RankingInv
<1> QED BY <1>1, <1>2, <1>3 DEF Ranking!Next

-----------------------------------------------------------------------------
\* This instance counts so too.
LEMMA Tallied == \A S : Ranking!Cardinality(S) = Cardinality(S)
BY DEF Ranking!Cardinality, Cardinality

\* There are finitely many rows, so the counts of a hand are numbers, and no
\* more of its rows are confirmed than are settled.
LEMMA RowsFinite == RankingInv => IsFiniteSet(Ranking!Rows)
<1> SUFFICES ASSUME RankingInv PROVE IsFiniteSet(Ranking!Rows)
  OBVIOUS
<1> DEFINE K == {l \in DOMAIN record : record[l].readable}
           f == [k \in K |-> {k} \X DOMAIN record[k].rows]
           S == {{k} \X DOMAIN record[k].rows : k \in K}
<1>1. DOMAIN record = 1..Len(record) /\ Len(record) \in Nat
  BY DEF RankingInv
<1>2. IsFiniteSet(DOMAIN record) /\ K \in SUBSET DOMAIN record
  BY <1>1, FS_Interval
<1>3. IsFiniteSet(K)
  BY <1>2, FS_Subset
<1>4. ASSUME NEW k \in K PROVE IsFiniteSet({k} \X DOMAIN record[k].rows)
  <2>1. record[k] \in Settlements
    BY <1>2 DEF RankingInv
  <2>2. record[k].rows \in Seq(Ranking!Row)
    BY <2>1 DEF Settlements
  <2>3. DOMAIN record[k].rows = 1..Len(record[k].rows) /\ Len(record[k].rows) \in Nat
    BY <2>2
  <2>4. IsFiniteSet(DOMAIN record[k].rows)
    BY <2>3, FS_Interval
  <2> QED BY <2>4, FS_Singleton, FS_Product
<1>5. Ranking!Rows = UNION S
  BY DEF Ranking!Rows
<1>6. f \in Surjection(K, S)
  BY DEF Surjection
<1> HIDE DEF K, f
<1>7. IsFiniteSet(S) /\ \A T \in S : IsFiniteSet(T)
  BY <1>3, <1>4, <1>6, FS_Surjection
<1> HIDE DEF S
<1> QED BY <1>5, <1>7, FS_UNION

LEMMA CountsNat ==
    ASSUME RankingInv, NEW h
    PROVE  /\ \A verdicts : IsFiniteSet(Ranking!RowsOf(h, verdicts))
           /\ Ranking!Confirmed(h) \in Nat /\ Ranking!SettledOf(h) \in Nat
           /\ Ranking!Confirmed(h) <= Ranking!SettledOf(h)
<1>1. ASSUME NEW verdicts PROVE IsFiniteSet(Ranking!RowsOf(h, verdicts))
  <2>1. Ranking!RowsOf(h, verdicts) \in SUBSET Ranking!Rows
    BY DEF Ranking!RowsOf
  <2> QED BY <2>1, RowsFinite, FS_Subset
<1> DEFINE C == Ranking!RowsOf(h, {"confirmed"})
           S == Ranking!RowsOf(h, {"confirmed", "contradicted"})
<1>2. C \in SUBSET S
  BY DEF Ranking!RowsOf
<1>3. Ranking!Confirmed(h) = Cardinality(C) /\ Ranking!SettledOf(h) = Cardinality(S)
  BY Tallied DEF Ranking!Confirmed, Ranking!SettledOf
<1>4. IsFiniteSet(C) /\ IsFiniteSet(S)
  BY <1>1
<1> HIDE DEF C, S
<1>5. Cardinality(C) \in Nat /\ Cardinality(S) \in Nat /\ Cardinality(C) <= Cardinality(S)
  BY <1>2, <1>4, FS_Subset, FS_CardinalityType
<1> QED BY <1>1, <1>3, <1>5

\* Products of a fraction's parts compare as the fractions do.
LEMMA Fractions ==
    ASSUME NEW a \in Nat, NEW b \in Nat \ {0}, NEW c \in Nat, NEW d \in Nat \ {0},
           NEW e \in Nat, NEW f \in Nat \ {0},
           a * d > c * b, a * f <= e * b
    PROVE  e * d > c * f
<1>1. (a * d) * f > (c * b) * f
  OBVIOUS
<1>2. (a * f) * d <= (e * b) * d
  OBVIOUS
<1>3. (a * d) * f = (a * f) * d
  OBVIOUS
<1>4. (e * b) * d > (c * b) * f
  BY <1>1, <1>2, <1>3
<1>5. (e * b) * d = (e * d) * b /\ (c * b) * f = (c * f) * b
  OBVIOUS
<1>6. (e * d) * b > (c * f) * b
  BY <1>4, <1>5
<1>7. e * d <= c * f => (e * d) * b <= (c * f) * b
  OBVIOUS
<1> QED BY <1>6, <1>7

\* A hand that none before it in score is ahead of what it is ahead of.
LEMMA AheadThrough ==
    ASSUME RankingInv, NEW h, NEW g, NEW x, Ranking!Ahead(h, g), ~Ranking!Ahead(h, x)
    PROVE  Ranking!Ahead(x, g)
<1> DEFINE c(y) == Ranking!Confirmed(y)
           s(y) == Ranking!SettledOf(y)
<1>1. \A y \in {h, g, x} : c(y) \in Nat /\ s(y) \in Nat
  BY CountsNat
<1>2. /\ s(h) # 0
      /\ s(g) = 0 \/ c(h) * s(g) > c(g) * s(h)
      /\ s(x) # 0 /\ ~(c(h) * s(x) > c(x) * s(h))
  BY DEF Ranking!Ahead
<1>3. Ranking!Ahead(x, g) <=> \/ s(x) # 0 /\ s(g) = 0
                              \/ s(x) # 0 /\ s(g) # 0 /\ c(x) * s(g) > c(g) * s(x)
  BY DEF Ranking!Ahead
<1> HIDE DEF c, s
<1>4. c(h) * s(x) <= c(x) * s(h)
  <2>1. c(h) * s(x) \in Nat /\ c(x) * s(h) \in Nat
    BY <1>1
  <2> QED BY <1>2, <2>1
<1>5. CASE s(g) # 0
  <2>1. c(x) * s(g) > c(g) * s(x)
    BY <1>1, <1>2, <1>4, <1>5, Fractions
  <2> QED BY <1>2, <1>3, <1>5, <2>1
<1>6. CASE s(g) = 0
  BY <1>2, <1>3, <1>6
<1> QED BY <1>5, <1>6

\* No two hands are ahead of each other.
LEMMA NotBoth ==
    ASSUME RankingInv, NEW h, NEW g, Ranking!Ahead(h, g)
    PROVE  ~Ranking!Ahead(g, h)
<1>1. /\ Ranking!Confirmed(h) * Ranking!SettledOf(g) \in Nat
      /\ Ranking!Confirmed(g) * Ranking!SettledOf(h) \in Nat
  BY CountsNat
<1> QED BY <1>1 DEF Ranking!Ahead

\* Finitely many hands are listed.
LEMMA ListedHands == Ranking!Listed \subseteq Nat /\ IsFiniteSet(Ranking!Listed)
<1> DEFINE A == {w \in Valuations : Ranking!RowsOf(Maker[w], Ranking!Verdict) # {}}
<1>1. IsFiniteSet(A)
  BY Numbered, FS_Subset
<1>2. Ranking!Listed = {Maker[v] : v \in A}
  BY DEF Ranking!Listed
<1>3. [v \in A |-> Maker[v]] \in Surjection(A, Ranking!Listed)
  BY <1>2 DEF Surjection
<1>5. IsFiniteSet(Ranking!Listed)
  BY <1>1, <1>3, FS_Surjection
<1> HIDE DEF A
<1>4. A \subseteq Valuations
  BY DEF A
<1> QED BY <1>2, <1>4, <1>5, Numbered

\* To come before is an order of the hands.
LEMMA BeforeThrough ==
    ASSUME RankingInv, NEW h \in Nat, NEW g \in Nat, NEW x \in Nat,
           Ranking!Before(x, h), Ranking!Before(h, g)
    PROVE  Ranking!Before(x, g)
<1>1. ~Ranking!Ahead(h, x) /\ ~Ranking!Ahead(g, h)
  BY NotBoth DEF Ranking!Before
<1>2. ~Ranking!Ahead(g, x)
  BY <1>1, AheadThrough
<1>3. CASE Ranking!Ahead(x, h) \/ Ranking!Ahead(h, g)
  BY <1>1, <1>3, AheadThrough DEF Ranking!Before
<1>4. CASE x < h /\ h < g
  BY <1>2, <1>4 DEF Ranking!Before
<1> QED BY <1>3, <1>4 DEF Ranking!Before

\* Of two listed hands the one that comes before has the lower place.
LEMMA BeforeIsLower ==
    ASSUME RankingInv, NEW h \in Ranking!Listed, NEW g \in Ranking!Listed, Ranking!Before(h, g)
    PROVE  Ranking!Place(h) < Ranking!Place(g)
<1> DEFINE B(y) == {x \in Ranking!Listed : Ranking!Before(x, y)}
<1>1. ~Ranking!Ahead(h, h)
  BY NotBoth
<1>2. h \notin B(h)
  BY <1>1, ListedHands DEF Ranking!Before
<1>3. h \in B(g)
  OBVIOUS
<1>4. ASSUME NEW x \in B(h) PROVE x \in B(g)
  BY BeforeThrough, ListedHands
<1>5. IsFiniteSet(B(h)) /\ IsFiniteSet(B(g))
  BY ListedHands, FS_Subset
<1>6. Ranking!Place(h) = 1 + Cardinality(B(h)) /\ Ranking!Place(g) = 1 + Cardinality(B(g))
  BY Tallied DEF Ranking!Place
<1>7. B(h) \subseteq B(g) /\ B(h) # B(g)
  BY <1>2, <1>3, <1>4
<1> DEFINE S == B(h)
           T == B(g)
<1> HIDE DEF S, T
<1>8. Cardinality(S) <= Cardinality(T) /\ Cardinality(S) # Cardinality(T)
  BY <1>5, <1>7, FS_Subset DEF S, T
<1>9. Cardinality(S) \in Nat /\ Cardinality(T) \in Nat
  BY <1>5, FS_CardinalityType DEF S, T
<1> QED BY <1>6, <1>8, <1>9 DEF S, T

\* So places are as hands come.
LEMMA Placed ==
    RankingInv => \A x, y \in Ranking!Listed :
                     Ranking!Place(x) < Ranking!Place(y) <=> Ranking!Before(x, y)
<1> SUFFICES ASSUME RankingInv, NEW h \in Ranking!Listed, NEW g \in Ranking!Listed
             PROVE  Ranking!Place(h) < Ranking!Place(g) <=> Ranking!Before(h, g)
  OBVIOUS
<1>1. ASSUME NEW y PROVE Ranking!Place(y) \in Nat
  <2> DEFINE S == {x \in Ranking!Listed : Ranking!Before(x, y)}
  <2>1. S \in SUBSET Ranking!Listed
    OBVIOUS
  <2>2. Ranking!Place(y) = 1 + Cardinality(S)
    BY Tallied DEF Ranking!Place
  <2> HIDE DEF S
  <2>3. Cardinality(S) \in Nat
    BY <2>1, ListedHands, FS_Subset, FS_CardinalityType
  <2> QED BY <2>2, <2>3
<1>2. CASE h = g
  <2>1. ~Ranking!Before(h, g)
    BY <1>2, NotBoth, ListedHands DEF Ranking!Before
  <2> QED BY <1>1, <1>2, <2>1
<1>3. CASE h # g
  <2>1. Ranking!Before(h, g) \/ Ranking!Before(g, h)
    BY <1>3, ListedHands DEF Ranking!Before
  <2>2. Ranking!Before(h, g) => Ranking!Place(h) < Ranking!Place(g)
    BY BeforeIsLower
  <2>3. Ranking!Before(g, h) => Ranking!Place(g) < Ranking!Place(h)
    BY BeforeIsLower
  <2>4. Ranking!Place(h) \in Nat /\ Ranking!Place(g) \in Nat
    BY <1>1
  <2> QED BY <2>1, <2>2, <2>3, <2>4
<1> QED BY <1>2, <1>3

\* What the record says of the ranking.
LEMMA RankingSays == RankingInv => Ranking!FollowsRecord
<1> SUFFICES ASSUME RankingInv, NEW h \in Ranking!Listed, NEW g \in Ranking!Listed,
                    Ranking!SettledOf(h) # 0,
                    \/ Ranking!SettledOf(g) = 0
                    \/ /\ Ranking!RowsOf(h, {"contradicted"}) = {}
                       /\ Ranking!RowsOf(g, {"confirmed"}) = {}
             PROVE  Ranking!Before(h, g)
  BY Placed DEF Ranking!FollowsRecord
<1>1. CASE Ranking!SettledOf(g) = 0
  BY <1>1 DEF Ranking!Before, Ranking!Ahead
<1>2. CASE /\ Ranking!SettledOf(g) # 0
           /\ Ranking!RowsOf(h, {"contradicted"}) = {} /\ Ranking!RowsOf(g, {"confirmed"}) = {}
  <2>1. Ranking!RowsOf(h, {"confirmed"}) = Ranking!RowsOf(h, {"confirmed", "contradicted"})
    BY <1>2 DEF Ranking!RowsOf
  <2>2. Ranking!Confirmed(h) = Ranking!SettledOf(h)
    BY <2>1 DEF Ranking!Confirmed, Ranking!SettledOf
  <2>3. Ranking!Confirmed(g) = 0
    BY <1>2, FS_EmptySet, Tallied DEF Ranking!Confirmed
  <2>4. Ranking!SettledOf(h) * Ranking!SettledOf(g) > 0 * Ranking!SettledOf(h)
    BY <1>2, CountsNat
  <2> QED BY <1>2, <2>2, <2>3, <2>4 DEF Ranking!Before, Ranking!Ahead
<1> QED BY <1>1, <1>2

\* The rows a settlement after those on record has of a hand, with one of the verdicts.
More(rows, h, verdicts) ==
    {Len(record) + 1} \X
       {i \in DOMAIN rows : Maker[rows[i].of] = h /\ rows[i].verdict \in verdicts}

\* The rows of a settlement more are added to those of a hand.
LEMMA RowsMore ==
    ASSUME RankingInv, NEW n \in 0..MaxRows, NEW rows \in [1..n -> Ranking!Row],
           Ranking!Settle(rows), NEW h, NEW verdicts
    PROVE  /\ Ranking!RowsOf(h, verdicts)'
                 = Ranking!RowsOf(h, verdicts) \union More(rows, h, verdicts)
           /\ IsFiniteSet(More(rows, h, verdicts))
           /\ Cardinality(Ranking!RowsOf(h, verdicts)')
                 = Cardinality(Ranking!RowsOf(h, verdicts)) + Cardinality(More(rows, h, verdicts))
<1> DEFINE m == Len(record) + 1
           mine == {i \in DOMAIN rows : Maker[rows[i].of] = h /\ rows[i].verdict \in verdicts}
           more == {m} \X mine
           R == Ranking!RowsOf(h, verdicts)
<1>1. /\ Len(record) \in Nat
      /\ DOMAIN record = 1..Len(record) /\ DOMAIN record' = 1..m
      /\ record'[m] = [rows |-> rows, readable |-> TRUE]
      /\ \A k \in DOMAIN record : record'[k] = record[k]
  BY SettledMore
<1>2. m \notin DOMAIN record /\ m \in DOMAIN record' /\ DOMAIN record' = DOMAIN record \union {m}
  BY <1>1
<1>3. Ranking!Rows' = Ranking!Rows \union ({m} \X DOMAIN rows)
  <2>1. {l \in DOMAIN record' : record'[l].readable}
          = {l \in DOMAIN record : record[l].readable} \union {m}
    BY <1>1, <1>2
  <2> QED BY <1>1, <1>2, <2>1 DEF Ranking!Rows
<1>4. \A at \in Ranking!Rows : at[1] \in DOMAIN record
  BY DEF Ranking!Rows
<1>5. R' = R \union more
  BY <1>1, <1>2, <1>3, <1>4 DEF Ranking!RowsOf
<1>6. R \intersect more = {}
  BY <1>2, <1>4 DEF Ranking!RowsOf
<1>7. IsFiniteSet(more)
  <2>1. n \in Int /\ DOMAIN rows = 1..n
    OBVIOUS
  <2>2. IsFiniteSet(DOMAIN rows)
    BY <2>1, FS_Interval
  <2>3. IsFiniteSet(mine)
    BY <2>2, FS_Subset
  <2> HIDE DEF mine, m
  <2> QED BY <2>3, FS_Singleton, FS_Product
<1>8. IsFiniteSet(R)
  BY CountsNat
<1> HIDE DEF R, more
<1>9. Cardinality(R \union more) = Cardinality(R) + Cardinality(more)
  <2>1. Cardinality(R \union more) = Cardinality(R) + Cardinality(more) - Cardinality(R \intersect more)
    BY <1>7, <1>8, FS_Union
  <2>2. Cardinality(R \intersect more) = 0
    BY <1>6, FS_EmptySet
  <2>3. Cardinality(R) \in Nat /\ Cardinality(more) \in Nat
    BY <1>7, <1>8, FS_CardinalityType
  <2> QED BY <2>1, <2>2, <2>3
<1>10. more = More(rows, h, verdicts)
  BY DEF more, More
<1> QED BY <1>5, <1>7, <1>9, <1>10 DEF R

\* A share grows with what is confirmed, and one with what is not does not.
LEMMA SharesMove ==
    ASSUME NEW c \in Nat, NEW s \in Nat, NEW d \in Nat, NEW t \in Nat,
           NEW m \in Nat, NEW n \in Nat, d <= t
    PROVE  /\ d * s <= c * t => d * (s + m) <= (c + m) * (t + n)
           /\ d * s < c * t => d * (s + m) < (c + m) * (t + n)
<1>1. d * (s + m) = d * s + d * m
  OBVIOUS
<1>2. (c + m) * (t + n) = c * t + m * t + (c + m) * n
  OBVIOUS
<1>3. d * m <= m * t
  OBVIOUS
<1>4. (c + m) * n >= 0
  OBVIOUS
<1>5. d * s \in Nat /\ d * m \in Nat /\ c * t \in Nat /\ m * t \in Nat /\ (c + m) * n \in Nat
  OBVIOUS
<1> QED BY <1>1, <1>2, <1>3, <1>4, <1>5

\* The order of places is that of Before after a step, too.
LEMMA PlacedNext ==
    (RankingInv => \A x, y \in Ranking!Listed :
                      Ranking!Place(x) < Ranking!Place(y) <=> Ranking!Before(x, y))'
BY Placed, PTL

\* So a settlement keeps the order of two hands it speaks for and against.
LEMMA RankingMoves == RankingInv /\ RankingInv' /\ [Ranking!Next]_settled => Ranking!NoPlaceLost
<1> SUFFICES ASSUME RankingInv, RankingInv', [Ranking!Next]_settled,
                    NEW h \in Ranking!Listed, NEW g \in Ranking!Listed,
                    Len(record') > Len(record),
                    Ranking!SettledOf(h) # 0, Ranking!SettledOf(g) # 0,
                    Ranking!Place(h) < Ranking!Place(g),
                    Ranking!Never(h, "contradicted", record'[Len(record')].rows),
                    Ranking!Never(g, "confirmed", record'[Len(record')].rows)
             PROVE  Ranking!Place(h)' < Ranking!Place(g)'
  BY DEF Ranking!NoPlaceLost
<1>0. PICK n \in 0..MaxRows : \E rows \in [1..n -> Ranking!Row] : Ranking!Settle(rows)
  <2>1. CASE UNCHANGED settled
    BY <2>1 DEF settled, RankingInv
  <2>2. ASSUME NEW k \in DOMAIN record, Ranking!Spoil(k) PROVE FALSE
    <3>1. record \in Seq(Settlements) /\ record' \in Seq(Settlements)
          /\ DOMAIN record' = DOMAIN record
      BY <2>2 DEF Ranking!Spoil, RankingInv
    <3>2. Len(record') = Len(record)
      BY <3>1
    <3> QED BY <3>1, <3>2 DEF RankingInv
  <2> QED BY <2>1, <2>2 DEF Ranking!Next
<1>1. PICK rows \in [1..n -> Ranking!Row] : Ranking!Settle(rows)
  BY <1>0
<1>2. record'[Len(record')].rows = rows
  <2>1. /\ Len(record') = Len(record) + 1
        /\ record'[Len(record) + 1] = [rows |-> rows, readable |-> TRUE]
    BY <1>1, SettledMore
  <2> QED BY <2>1
<1> DEFINE Both == {"confirmed", "contradicted"}
           m == Cardinality(More(rows, h, Both))
           p == Cardinality(More(rows, g, Both))
<1>3. More(rows, h, {"confirmed"}) = More(rows, h, Both)
  BY <1>2 DEF Ranking!Never, More
<1>4. More(rows, g, {"confirmed"}) = {}
  BY <1>2 DEF Ranking!Never, More
<1>5. m \in Nat /\ p \in Nat
  <2>1. ASSUME NEW y PROVE IsFiniteSet(More(rows, y, Both))
    BY <1>1, RowsMore
  <2> QED BY <2>1, FS_CardinalityType
<1>6. /\ Ranking!Confirmed(h)' = Ranking!Confirmed(h) + m
      /\ Ranking!SettledOf(h)' = Ranking!SettledOf(h) + m
  BY <1>1, <1>3, RowsMore, Tallied DEF Ranking!Confirmed, Ranking!SettledOf
<1>7. /\ Ranking!Confirmed(g)' = Ranking!Confirmed(g)
      /\ Ranking!SettledOf(g)' = Ranking!SettledOf(g) + p
  <2>1. Ranking!Confirmed(g)' = Ranking!Confirmed(g) + Cardinality({})
    BY <1>1, <1>4, RowsMore, Tallied DEF Ranking!Confirmed
  <2>2. Ranking!Confirmed(g) \in Nat
    BY CountsNat
  <2>3. Ranking!SettledOf(g)' = Ranking!SettledOf(g) + p
    BY <1>1, RowsMore, Tallied DEF Ranking!SettledOf
  <2> QED BY <2>1, <2>2, <2>3, FS_EmptySet
<1> HIDE DEF m, p
<1>8. Ranking!Before(h, g)
  BY Placed
<1>9. Ranking!Before(h, g)'
  <2> DEFINE c == Ranking!Confirmed(h)
             s == Ranking!SettledOf(h)
             d == Ranking!Confirmed(g)
             t == Ranking!SettledOf(g)
  <2>1. /\ c \in Nat /\ s \in Nat /\ d \in Nat /\ t \in Nat /\ d <= t
        /\ s # 0 /\ t # 0
    BY CountsNat
  <2>2. (c * t > d * s) \/ (~(d * s > c * t) /\ h < g)
    BY <1>8 DEF Ranking!Before, Ranking!Ahead
  <2>3. c * t \in Nat /\ d * s \in Nat /\ (c + m) * (t + p) \in Nat /\ d * (s + m) \in Nat
    <3> HIDE DEF c, s, d, t
    <3>1. c + m \in Nat /\ t + p \in Nat /\ s + m \in Nat
      BY <1>5, <2>1
    <3> QED BY <2>1, <3>1
  <2>4. ((c + m) * (t + p) > d * (s + m)) \/ (~(d * (s + m) > (c + m) * (t + p)) /\ h < g)
    <3> HIDE DEF c, s, d, t
    <3>1. /\ d * s <= c * t => d * (s + m) <= (c + m) * (t + p)
          /\ d * s < c * t => d * (s + m) < (c + m) * (t + p)
      BY <1>5, <2>1, SharesMove
    <3> QED BY <2>2, <2>3, <3>1
  <2>5. s + m # 0 /\ t + p # 0
    BY <1>5, <2>1
  <2> QED BY <1>6, <1>7, <2>4, <2>5 DEF Ranking!Before, Ranking!Ahead
<1>10. h \in Ranking!Listed' /\ g \in Ranking!Listed'
  <2>1. ASSUME NEW y, Ranking!RowsOf(y, Ranking!Verdict) # {}
        PROVE  Ranking!RowsOf(y, Ranking!Verdict)' # {}
    <3>1. \E more : Ranking!RowsOf(y, Ranking!Verdict)'
                       = Ranking!RowsOf(y, Ranking!Verdict) \union more
      BY <1>1, RowsMore DEF Ranking!Verdict
    <3> QED BY <2>1, <3>1
  <2>2. Ranking!Verdict' = Ranking!Verdict
    BY DEF Ranking!Verdict
  <2> QED BY <2>1, <2>2 DEF Ranking!Listed
<1>11. Ranking!Place(h)' < Ranking!Place(g)' <=> Ranking!Before(h, g)'
  BY <1>10, PlacedNext
<1> QED BY <1>9, <1>10, <1>11

-----------------------------------------------------------------------------
(* The parts together *)

EvaluationInv ==
    \/ part \in {"skills", "drafts"} /\ SkillsInv
    \/ part \in {"batches", "graded"} /\ GradingInv
    \/ part = "ranked" /\ RankingInv

everything == <<part, playbooks, attempts, grading, ranking>>

\* A step of one part is a step of its component, and leaves the part alone.
LEMMA PartSteps ==
    ASSUME [Next]_everything
    PROVE  /\ part' = part
           /\ part \in {"skills", "drafts"} => [Skills!Next]_methods
           /\ part \in {"batches", "graded"} => [Grading!Next]_questions
           /\ part = "ranked" => [Ranking!Next]_settled
<1>1. CASE UNCHANGED everything
  BY <1>1 DEF everything, playbooks, grading, ranking, methods, questions, settled
<1>2. CASE Next
  BY <1>2 DEF Next
<1> QED BY <1>1, <1>2

\* Each part keeps its component's invariant.
LEMMA EvaluationInvariant == Spec => []EvaluationInv
<1>1. Init => EvaluationInv
  BY SkillsInit, GradingInit, RankingInit DEF Init, EvaluationInv
<1>2. EvaluationInv /\ [Next]_everything => EvaluationInv'
  BY PartSteps, SkillsStep, GradingStep, RankingStep DEF EvaluationInv
<1> QED BY <1>1, <1>2, PTL DEF Spec, everything

\* Whatever is drafted, edited, copied and promoted, and wherever a promotion is
\* killed, a skill that is whole and in force has passed the gate, and no
\* attempt carries a validator that nobody registered: of the parts that are
\* checked, and of all steps of skills together.
THEOREM InForceIsGated ==
    /\ Spec => []InForceGated
    /\ Skills!Spec => [](Skills!InForceGated /\ Skills!Judgeable)
<1>1. EvaluationInv => InForceGated
  BY SkillsSay DEF EvaluationInv, InForceGated
<1>2. Spec => []InForceGated
  BY <1>1, EvaluationInvariant, PTL
<1>3. Skills!Spec => [](Skills!InForceGated /\ Skills!Judgeable)
  BY SkillsInit, SkillsStep, SkillsSay, PTL DEF Skills!Spec, Skills!vars, methods
<1> QED BY <1>2, <1>3

\* However many attempts are run and retried, and whatever is promoted between
\* them, a retry has the method its first attempt was sealed with, and a fresh
\* request is answered with an attempt of the method in force.
THEOREM MethodIsKept ==
    /\ Spec => []MethodKept
    /\ Skills!Spec => [](Skills!RetryKeepsMethod /\ Skills!AnsweredByInForce)
<1>1. EvaluationInv => MethodKept
  BY SkillsSay DEF EvaluationInv, MethodKept
<1>2. Spec => []MethodKept
  BY <1>1, EvaluationInvariant, PTL
<1>3. Skills!Spec => [](Skills!RetryKeepsMethod /\ Skills!AnsweredByInForce)
  BY SkillsInit, SkillsStep, SkillsSay, PTL DEF Skills!Spec, Skills!vars, methods
<1> QED BY <1>2, <1>3

\* For any number of questions, batches, interrupts, recoveries, retries, lost
\* objects and releases, batches open one attempt for a question, and the
\* answer of one changes in the file only to that of an earlier attempt which
\* was lost and resumed since: with graders beside the batches too.
THEOREM QuestionsAskedOnce ==
    /\ Spec => []AskedOnce
    /\ Grading!Spec => [](Grading!AskedOnce /\ Grading!AnswerStable)
<1>1. EvaluationInv => AskedOnce
  BY BatchesSay DEF EvaluationInv, AskedOnce
<1>2. Spec => []AskedOnce
  BY <1>1, EvaluationInvariant, PTL
<1>3. Grading!Spec => [](Grading!AskedOnce /\ Grading!AnswerStable)
  BY GradingInit, GradingStep, BatchesSay, PTL DEF Grading!Spec, Grading!vars, questions
<1> QED BY <1>2, <1>3

\* Of any number of graders, whatever is killed and recovered, a grade on record
\* is of the answer in the file of answers, or of one that gave way to it so.
THEOREM GradesAreOfAnswers == Grading!Spec => []Grading!GradeIsOfAnswer
BY GradingInit, GradingStep, GradersSay, PTL DEF Grading!Spec, Grading!vars, questions

\* With one grader, killed and restarted anywhere, a tier once on record is in
\* every later file of grades that is whole, and is of the answer in the other
\* file or of one that gave way to it.  Two graders on one file lose each
\* other's tiers.
THEOREM GradesStandByOne ==
    ASSUME OneGrader PROVE Spec => []GradesStand
<1> DEFINE Inv == EvaluationInv /\ (part = "graded" => KeptInv)
<1>1. Init => (part = "graded" => KeptInv)
  BY GradingInit DEF Init
<1>2. Inv /\ [Next]_everything => (part = "graded" => KeptInv)'
  <2> SUFFICES ASSUME Inv, [Next]_everything, part = "graded" PROVE KeptInv'
    BY PartSteps
  <2>1. CASE Grading!Next
    BY <2>1, OneGrader, KeptStep DEF EvaluationInv, GradingInv
  <2>2. CASE UNCHANGED questions
    BY <2>2 DEF questions, KeptInv, Agrees
  <2> QED BY <2>1, <2>2, PartSteps
<1>3. Inv => GradesStand
  BY GradersSay DEF EvaluationInv, KeptInv, Agrees, GradesStand, Grading!GradesKept
<1> QED BY <1>1, <1>2, <1>3, EvaluationInvariant, PTL DEF Spec, everything

\* For any number of valuations, hands and settlements, whoever wrote them: a
\* hand with a score is listed before one with none, one of which nothing was
\* contradicted before one of which nothing was confirmed, and a settlement
\* that does not speak against the one of two hands, nor for the other, does
\* not turn their order once both have scores.
THEOREM RankingFollowsRecord ==
    /\ Spec => RankFollowsRecord
    /\ Ranking!Spec => /\ []Ranking!FollowsRecord
                        /\ [][Ranking!NoPlaceLost]_settled
<1>1. EvaluationInv => (part = "ranked" => Ranking!FollowsRecord)
  BY RankingSays DEF EvaluationInv
<1>2. EvaluationInv /\ EvaluationInv' /\ [Next]_everything
        => (part = "ranked" => Ranking!NoPlaceLost)
  BY PartSteps, RankingMoves DEF EvaluationInv
<1>3. Spec => RankFollowsRecord
  BY <1>1, <1>2, EvaluationInvariant, PTL DEF Spec, RankFollowsRecord, everything
<1>4. Ranking!Spec => []Ranking!FollowsRecord /\ [][Ranking!NoPlaceLost]_settled
  BY RankingInit, RankingStep, RankingSays, RankingMoves, PTL DEF Ranking!Spec, Ranking!vars, settled
<1> QED BY <1>3, <1>4

=============================================================================
