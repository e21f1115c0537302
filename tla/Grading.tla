------------------------------ MODULE Grading ------------------------------
(***************************************************************************)
(* The evaluation over a file of questions (cmds.rs eval_answers,          *)
(* eval_grade, eval_financegym; rein-finance eval.rs): a batch asks each   *)
(* question as an attempt and writes the answers, graders ask a judge and  *)
(* keep the grades in a file, and a score is taken of the grades.  The     *)
(* engine is seen as what one of its commands leaves of a question's       *)
(* attempts, and of the selection among them; the steps of commands that   *)
(* overlap are those of Engine and Adjudication.                           *)
(***************************************************************************)
EXTENDS Integers, Sequences, FiniteSets, FiniteSetsExt

CONSTANTS
    N,            \* questions 1..N, in the order of the file
    Graders,      \* processes of `rein eval grade'
    Shard,        \* grader -> its [offset, limit]
    Tiers,        \* tiers the judge may give
    Expecting,    \* questions with expectations a machine can check
    MaxSessions,  \* bounds: batches, attempts of a question, mishaps
    MaxAttempts,
    MaxMishaps,
    Releases      \* bound: versions of a question's text

VARIABLES
    text,       \* question -> version of its text in the file
    attempts,   \* question -> its attempts: [version, state, asked (by a batch), resumed]
    chosen,     \* question -> the attempt its latest selection names, or 0
    lost,       \* answers (question, attempt) the store no longer reads back
    batch,      \* the batch at work
    answers,    \* the file of answers: a file of question -> attempt
    grader,     \* grader -> its state
    grades,     \* the file of grades: a file of question -> tier
    given,      \* history: the first answer each question was given in the file
    judged,     \* history: question -> the answer its last grade was for
    recorded,   \* history: the first tier on record for each question
    sessions, mishaps

vars == <<text, attempts, chosen, lost, batch, answers, grader, grades, given, judged,
          recorded, sessions, mishaps>>

Q == 1..N
Empty == <<>>
File(data) == [whole |-> TRUE, there |-> TRUE, data |-> data]
NoFile == [whole |-> TRUE, there |-> FALSE, data |-> Empty]
\* A file between the truncation and the writing of fs::write.
Torn == [whole |-> FALSE, there |-> TRUE, data |-> Empty]

BatchIdle == [pc |-> "idle", slice |-> {}, seen |-> {}, got |-> Empty, failed |-> {}]
GraderIdle == [pc |-> "idle", i |-> 0, ans |-> Empty, grades |-> Empty, now |-> 0]

With(f, x, v) == [y \in DOMAIN f \union {x} |-> IF y = x THEN v ELSE f[y]]

\* What f says, and what only g says.
Earliest(f, g) ==
    [y \in DOMAIN f \union DOMAIN g |-> IF y \in DOMAIN f THEN f[y] ELSE g[y]]

-----------------------------------------------------------------------------
(* What the ledger says of a question. *)

\* What the engine leaves of an attempt: without a verdict where it was killed
\* or met an error, in recovery where the run was lost, or closed.
State == {"stuck", "lost", "failed", "satisfied"}

\* task_satisfied, of the latest selection.
Satisfied(q) == chosen[q] # 0

\* existing_answer.
Answered(q) == Satisfied(q) /\ <<q, chosen[q]>> \notin lost

\* Mutant of Duplicate: a failed one is not in the way.
DuplicateWell(q) == \E i \in DOMAIN attempts[q] :
                       attempts[q][i].version = text[q] /\ attempts[q][i].state # "failed"

\* Admission finds an attempt of the same pack: the question as it is worded
\* now, whatever the hand.
Duplicate(q) == \E i \in DOMAIN attempts[q] : attempts[q][i].version = text[q]

\* Or it finds one of another pack, and refuses.
Refused(q) == \E i \in DOMAIN attempts[q] : attempts[q][i].version # text[q]

\* The selection among attempts s: the first that succeeded.
Select(s) ==
    LET successes == {i \in DOMAIN s : s[i].state = "satisfied"}
    IN  IF successes = {} THEN 0 ELSE Min(successes)

\* A command of the engine leaves attempts s of q.  It selects, if it gets so
\* far, once it has closed the attempt.
Leaves(q, s, selects) ==
    /\ attempts' = [attempts EXCEPT ![q] = s]
    /\ chosen' = [chosen EXCEPT ![q] = IF selects THEN Select(s) ELSE @]

Attempt(version, state, asked) ==
    [version |-> version, state |-> state, asked |-> asked, resumed |-> FALSE]

\* With one attempt more.
Begins(q, attempt, selects) ==
    /\ Len(attempts[q]) < MaxAttempts
    /\ selects => attempt.state \in {"failed", "satisfied"}
    /\ Leaves(q, Append(attempts[q], attempt), selects)

-----------------------------------------------------------------------------
(* eval_answers *)

Init ==
    /\ text = [q \in Q |-> 1] /\ attempts = [q \in Q |-> <<>>]
    /\ chosen = [q \in Q |-> 0] /\ lost = {}
    /\ batch = BatchIdle /\ answers = NoFile
    /\ grader = [g \in Graders |-> GraderIdle] /\ grades = NoFile
    /\ given = Empty /\ judged = Empty /\ recorded = Empty
    /\ sessions = 0 /\ mishaps = 0

ledger == <<text, attempts, chosen, lost>>
grading == <<grader, grades, judged, recorded>>

BatchStart(first, last) ==
    /\ batch.pc = "idle" /\ sessions < MaxSessions /\ first <= last
    /\ batch' = [BatchIdle EXCEPT !.pc = "asking", !.slice = first..last]
    /\ sessions' = sessions + 1
    /\ UNCHANGED <<ledger, answers, grading, given, mishaps>>

Current(q) ==
    /\ batch.pc = "asking"
    /\ batch.slice \ batch.seen # {} /\ q = Min(batch.slice \ batch.seen)

Seen(q) == [batch EXCEPT !.seen = @ \union {q}]

\* Satisfied, and the answer reads back.
Resume(q) ==
    /\ Current(q) /\ Answered(q)
    /\ batch' = [Seen(q) EXCEPT !.got = With(@, q, chosen[q])]
    /\ UNCHANGED <<ledger, answers, grading, given, sessions, mishaps>>

\* The engine answers with the attempt there is, or with an error.
AskAgain(q) ==
    /\ Current(q) /\ ~Answered(q) /\ (Duplicate(q) \/ Refused(q))
    /\ batch' = [Seen(q) EXCEPT !.failed = @ \union {q}]
    /\ UNCHANGED <<ledger, answers, grading, given, sessions, mishaps>>

New(q) == Current(q) /\ ~Answered(q) /\ ~Duplicate(q) /\ ~Refused(q)

\* A new attempt; what counts is that one is selected.
Ask(q, state, selects) ==
    /\ New(q) /\ Begins(q, Attempt(text[q], state, TRUE), selects)
    /\ batch' = IF chosen'[q] # 0
                THEN [Seen(q) EXCEPT !.got = With(@, q, chosen'[q])]
                ELSE [Seen(q) EXCEPT !.failed = @ \union {q}]
    /\ UNCHANGED <<text, lost, answers, grading, given, sessions, mishaps>>

BatchTruncate ==
    /\ batch.pc = "asking" /\ batch.seen = batch.slice
    /\ batch' = [batch EXCEPT !.pc = "writing"]
    /\ answers' = Torn
    /\ UNCHANGED <<ledger, grading, given, sessions, mishaps>>

BatchWrite ==
    /\ batch.pc = "writing"
    /\ batch' = BatchIdle
    /\ answers' = File(batch.got)
    /\ given' = Earliest(given, batch.got)
    /\ UNCHANGED <<ledger, grading, sessions, mishaps>>

-----------------------------------------------------------------------------
(* eval_grade *)

\* Mutant of Prior: what another session left is judged again.
PriorNone == Empty

\* The grades of an earlier session.
Prior == grades.data

\* Either file torn: a usage error.
GradeStart(g) ==
    /\ grader[g].pc = "idle" /\ answers.there /\ answers.whole /\ grades.whole
    /\ grader' = [grader EXCEPT ![g] = [pc |-> "at", i |-> Shard[g].offset + 1,
                                        ans |-> answers.data, grades |-> Prior, now |-> 0]]
    /\ UNCHANGED <<ledger, batch, answers, grades, given, judged, recorded, sessions, mishaps>>

More(g) == grader[g].pc = "at" /\ grader[g].i <= N /\ grader[g].now < Shard[g].limit

Graded(g) == grader[g].i \in DOMAIN grader[g].grades

\* On record already, without an answer, or the judge gave no tier.
Skip(g) ==
    /\ More(g)
    /\ grader' = [grader EXCEPT ![g].i = @ + 1]
    /\ UNCHANGED <<ledger, batch, answers, grades, given, judged, recorded, sessions, mishaps>>

Judge(g, tier) ==
    /\ More(g) /\ ~Graded(g) /\ grader[g].i \in DOMAIN grader[g].ans
    /\ LET q == grader[g].i
       IN  /\ grader' = [grader EXCEPT ![g].pc = "opening", ![g].now = @ + 1,
                                       ![g].grades = With(@, q, tier)]
           /\ judged' = With(judged, q, grader[g].ans[q])
    /\ UNCHANGED <<ledger, batch, answers, grades, given, recorded, sessions, mishaps>>

GradeTruncate(g) ==
    /\ grader[g].pc = "opening"
    /\ grader' = [grader EXCEPT ![g].pc = "writing"]
    /\ grades' = Torn
    /\ UNCHANGED <<ledger, batch, answers, given, judged, recorded, sessions, mishaps>>

GradeWrite(g) ==
    /\ grader[g].pc = "writing"
    /\ grader' = [grader EXCEPT ![g].pc = "at", ![g].i = @ + 1]
    /\ grades' = File(grader[g].grades)
    /\ recorded' = Earliest(recorded, grader[g].grades)
    /\ UNCHANGED <<ledger, batch, answers, given, judged, sessions, mishaps>>

GradeEnd(g) ==
    /\ grader[g].pc = "at" /\ ~More(g)
    /\ grader' = [grader EXCEPT ![g] = GraderIdle]
    /\ UNCHANGED <<ledger, batch, answers, grades, given, judged, recorded, sessions, mishaps>>

-----------------------------------------------------------------------------
(* eval_financegym: of the grades on record, else of the expectations. *)

Scored == {q \in Q : q \in DOMAIN grades.data \union Expecting}

\* Over the graded only.
Denominator == 4 * Cardinality(Scored)

-----------------------------------------------------------------------------
(* The world. *)

Mishap ==
    /\ mishaps < MaxMishaps /\ mishaps' = mishaps + 1
    /\ UNCHANGED <<text, lost, answers, grades, given, judged, recorded, sessions>>

\* Before the question at hand, or somewhere in its attempt.
KillBatch ==
    /\ Mishap /\ batch.pc # "idle"
    /\ batch' = BatchIdle
    /\ \/ UNCHANGED <<attempts, chosen>>
       \/ \E q \in Q, state \in State :
             New(q) /\ Begins(q, Attempt(text[q], state, TRUE), FALSE)
    /\ UNCHANGED grader

KillGrader(g) ==
    /\ Mishap /\ grader[g].pc # "idle"
    /\ grader' = [grader EXCEPT ![g] = GraderIdle]
    /\ UNCHANGED <<attempts, chosen, batch>>

\* The operator resumes an attempt in recovery, or closes it as unknown, or
\* retries any, and each command may be killed.
ResumeAttempt(q, i, state, selects) ==
    /\ attempts[q][i].state = "lost"
    /\ selects => state \in {"failed", "satisfied"}
    /\ Leaves(q, [attempts[q] EXCEPT ![i].state = state, ![i].resumed = TRUE], selects)
    /\ UNCHANGED <<text, lost, batch, answers, grading, given, sessions, mishaps>>

CloseAttempt(q, i) ==
    /\ attempts[q][i].state = "lost"
    /\ Leaves(q, [attempts[q] EXCEPT ![i].state = "failed"], FALSE)
    /\ UNCHANGED <<text, lost, batch, answers, grading, given, sessions, mishaps>>

Retry(q, i, state, selects) ==
    /\ Begins(q, Attempt(attempts[q][i].version, state, FALSE), selects)
    /\ UNCHANGED <<text, lost, batch, answers, grading, given, sessions, mishaps>>

Lose(q) ==
    /\ mishaps < MaxMishaps /\ mishaps' = mishaps + 1
    /\ Satisfied(q) /\ lost' = lost \union {<<q, chosen[q]>>}
    /\ UNCHANGED <<text, attempts, chosen, batch, answers, grading, given, sessions>>

\* A new release of the file words a question otherwise.
Reword(q, version) ==
    /\ version # text[q] /\ batch.pc = "idle"
    /\ text' = [text EXCEPT ![q] = version]
    /\ UNCHANGED <<attempts, chosen, lost, batch, answers, grading, given, sessions, mishaps>>

Next ==
    \/ \E first, last \in Q : BatchStart(first, last)
    \/ \E q \in Q :
          \/ Resume(q) \/ AskAgain(q) \/ Lose(q)
          \/ \E version \in 1..Releases : Reword(q, version)
          \/ \E state \in State, selects \in BOOLEAN :
                \/ Ask(q, state, selects)
                \/ \E i \in DOMAIN attempts[q] :
                      ResumeAttempt(q, i, state, selects) \/ Retry(q, i, state, selects)
          \/ \E i \in DOMAIN attempts[q] : CloseAttempt(q, i)
    \/ BatchTruncate \/ BatchWrite \/ KillBatch
    \/ \E g \in Graders :
          \/ GradeStart(g) \/ Skip(g) \/ GradeTruncate(g) \/ GradeWrite(g)
          \/ GradeEnd(g) \/ KillGrader(g) \/ \E tier \in Tiers : Judge(g, tier)

Spec == Init /\ [][Next]_vars

-----------------------------------------------------------------------------
(* Properties. *)

\* Batches never pay twice for a question, reworded or not.
AskedOnce ==
    \A q \in Q : Cardinality({i \in DOMAIN attempts[q] : attempts[q][i].asked}) <= 1

\* In place of answer a there may be answer b: none but a, or an earlier
\* attempt's that was lost when a was selected and was resumed since.
Yields(q, a, b) == b = a \/ (b < a /\ attempts[q][b].resumed)

\* However a batch is interrupted, rerun, recovered and retried around, the
\* answer of a question changes in the file in no other way.
AnswerStable == \A q \in DOMAIN answers.data : Yields(q, given[q], answers.data[q])

\* The grade on record is of the answer in the file, or of one that it took
\* the place of in this way, though the two files are written by processes
\* that know nothing of each other.
GradeIsOfAnswer ==
    \A q \in DOMAIN grades.data \intersect DOMAIN answers.data :
        Yields(q, judged[q], answers.data[q])

\* One grader at a time, killed and restarted anywhere: a tier once on record
\* is in every later file of grades that is whole.
GradesKept ==
    grades.whole => \A q \in DOMAIN recorded :
        q \in DOMAIN grades.data /\ grades.data[q] = recorded[q]

-----------------------------------------------------------------------------
(* What the documentation says, and the code does not keep. *)

\* cmds.rs: a rerun skips the questions that are answered: so the answer of one
\* never changes in the file.
AnsweredIsSkipped == \A q \in DOMAIN answers.data : answers.data[q] = given[q]

\* cmds.rs: a judge grades the batch of answers: so a grade is of the answer.
GradeIsOfTheAnswer ==
    \A q \in DOMAIN grades.data \intersect DOMAIN answers.data : judged[q] = answers.data[q]

\* cmds.rs: an existing grades file is prior work, never re-judged: so too with
\* two graders, each on its slice of the questions.
SlicesKept == GradesKept

\* cmds.rs: durable after every grade: an interrupt loses nothing.
InterruptLosesNothing ==
    (\A g \in Graders : grader[g].pc = "idle") => grades.whole

\* cmds.rs: a rerun retries the questions that did not satisfy (of
\* every step).
RerunRetries ==
    \A q \in Q : batch.pc = "asking" /\ q \in batch'.failed \ batch.failed =>
        Len(attempts'[q]) > Len(attempts[q])

\* cmds.rs: every question runs as a real attempt, so an answer is of the
\* question as the file now words it (of every step).
AnswersTheQuestion ==
    answers'.whole /\ ~answers.whole =>
        \A q \in DOMAIN answers'.data : attempts[q][answers'.data[q]].version = text[q]

\* README: the score is s/(4n).
ScoreOverAll == grades.whole /\ Scored # {} => Denominator = 4 * N

=============================================================================
