---------------------------- MODULE MCEvaluation ----------------------------
(***************************************************************************)
(* TLC instances of the loop around the hands: Skills (what runs use of    *)
(* ordinary drafts; drafts of every kind, of one name, and no runs),       *)
(* Grading (batches alone; graders beside batches) and Ranking.  A         *)
(* behaviour is one of one part; the variables of the others stay empty.   *)
(***************************************************************************)
EXTENDS Integers, FiniteSets

CONSTANTS Texts, Bundled, Replies, Copied, Names, Attempts, Known, MaxMethods,  \* of Skills
          Ordinary, Drafted,                       \* replies and name of a part of it
          N, Graders, Shard, Tiers, Expecting,     \* of Grading
          MaxSessions, MaxAttempts, MaxMishaps, Releases,
          Valuations, Maker, MaxSettlements, MaxRows   \* of Ranking

VARIABLES part,
          installed, drafts, promoting, last,           \* of Skills
          attempts,                                     \* of Skills and Grading
          text, chosen, lost, batch, answers, grader, grades,   \* of Grading
          given, judged, recorded, sessions, mishaps,
          record                                        \* of Ranking

playbooks == <<installed, drafts, promoting, last>>
grading   == <<text, chosen, lost, batch, answers, grader, grades, given, judged,
               recorded, sessions, mishaps>>
ranking   == <<record>>

NoPlaybooks == installed = 0 /\ drafts = 0 /\ promoting = 0 /\ last = 0
NoGrading   == /\ text = 0 /\ chosen = 0 /\ lost = 0 /\ batch = 0 /\ answers = 0 /\ grader = 0 /\ grades = 0
               /\ given = 0 /\ judged = 0 /\ recorded = 0 /\ sessions = 0 /\ mishaps = 0
NoRanking   == record = 0

-----------------------------------------------------------------------------
Good == [fence |-> TRUE, yaml |-> TRUE, name |-> TRUE, stops |-> 0, chars |-> 60,
         bytes |-> 60, refs |-> {"citation-closure@1"}, schema |-> TRUE, body |-> TRUE,
         mentions |-> FALSE, from |-> {}]

\* Texts that pass the gate, a validator nobody registered, two sentences, a
\* text of few characters and many bytes, and more that a model may write.
Written ==
    [bundled |-> Good,
     good |-> [Good EXCEPT !.chars = 61, !.refs = {}],
     madeUp |-> [Good EXCEPT !.refs = {"made-up@9"}],
     unfenced |-> [Good EXCEPT !.fence = FALSE],
     two |-> [Good EXCEPT !.stops = 1],
     wide |-> [Good EXCEPT !.chars = 80, !.bytes = 240],
     claimed |-> [Good EXCEPT !.mentions = TRUE],
     badYaml |-> [Good EXCEPT !.yaml = FALSE]]

Hands == [v1 |-> 1, v2 |-> 1, v3 |-> 2]
Shards == [g \in {"g1"} |-> [offset |-> 0, limit |-> 2]]

Skills == INSTANCE Skills WITH MaxAttempts <- MaxMethods
Grading == INSTANCE Grading
Ranking == INSTANCE Ranking

\* Every bundled skill passes its own gate (a test of rein-finance skills.rs),
\* and what the operator copies is bundled.
ASSUME Gated == /\ Copied \subseteq Bundled
                /\ \A b \in Bundled : Skills!Passes(Texts[b])

\* A file has questions, and a grader an offset and a limit; settlements are of
\* finitely many valuations, made by hands numbered in the order of their names.
ASSUME Numbered == /\ N \in Nat /\ Shard \in [Graders -> [offset : Nat, limit : Nat]]
                   /\ IsFiniteSet(Valuations) /\ Maker \in [Valuations -> Nat]

Init ==
    \/ part \in {"skills", "drafts"} /\ Skills!Init /\ NoGrading /\ NoRanking
    \/ part \in {"batches", "graded"} /\ Grading!Init /\ NoPlaybooks /\ NoRanking
    \/ part = "ranked" /\ Ranking!Init /\ NoPlaybooks /\ attempts = 0 /\ NoGrading

\* Drafts are the ordinary replies as they came.
OrdinaryDrafts ==
    \A n \in Names : drafts'[n] # Skills!Absent => \E r \in Ordinary : drafts'[n] = <<Texts[r]>>

\* Files of one name, and no attempts.
OneName ==
    /\ UNCHANGED attempts
    /\ \A n \in Names \ {Drafted} : UNCHANGED <<installed[n], drafts[n]>>

\* Trouble is with the first question: the others have one attempt, which is
\* closed.
OneTroubled ==
    \A q \in 2..N : \A i \in DOMAIN attempts'[q] :
        i = 1 /\ attempts'[q][i].state \in {"failed", "satisfied"}

Next ==
    /\ UNCHANGED part
    /\ \/ /\ part \in {"skills", "drafts"} /\ Skills!Next /\ UNCHANGED <<grading, ranking>>
          /\ part = "skills" => OrdinaryDrafts
          /\ part = "drafts" => OneName
       \/ /\ part \in {"batches", "graded"} /\ Grading!Next /\ UNCHANGED <<playbooks, ranking>>
          /\ OneTroubled
          /\ part = "batches" => UNCHANGED <<grader, grades, judged, recorded>>
          /\ part = "graded" => UNCHANGED text
       \/ part = "ranked" /\ Ranking!Next /\ UNCHANGED <<playbooks, attempts, grading>>

Spec == Init /\ [][Next]_<<part, playbooks, attempts, grading, ranking>>

-----------------------------------------------------------------------------
\* Whatever is edited while a promotion runs, a skill that is whole and in
\* force has passed the gate, so no attempt carries a validator that nobody
\* registered.
InForceGated == part \in {"skills", "drafts"} => Skills!InForceGated /\ Skills!Judgeable

\* A retry keeps the method its first attempt was sealed with, whatever was
\* promoted meanwhile, and a fresh request is never answered with an attempt of
\* another method.
MethodKept ==
    part \in {"skills", "drafts"} => Skills!RetryKeepsMethod /\ Skills!AnsweredByInForce

\* However a batch is interrupted, rerun, reworded, recovered and retried
\* around: no question is paid for twice, and the answer of one changes in the
\* file only to that of an earlier attempt, which was lost and resumed since.
AskedOnce == part = "batches" => Grading!AskedOnce /\ Grading!AnswerStable

\* One grader at a time, killed and restarted anywhere: a tier once on record
\* is in every later file of grades that is whole, and is of the answer in the
\* other file, or of one that gave way to it as above, though that file is
\* written by processes that know nothing of this one.
GradesStand == part = "graded" => Grading!GradesKept /\ Grading!GradeIsOfAnswer

\* However its rows are spread over settlements and whichever of these rot: a
\* hand that was only borne out stands before one that never was, a scored one
\* before one with nothing settled, and what does not speak against a hand nor
\* for another does not turn their order.
RankFollowsRecord ==
    /\ [](part = "ranked" => Ranking!FollowsRecord)
    /\ [][part = "ranked" => Ranking!NoPlaceLost]_<<part, playbooks, attempts, grading, ranking>>

=============================================================================
