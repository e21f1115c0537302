------------------------------ MODULE Research ------------------------------
(***************************************************************************)
(* A staged research attempt (rein-finance hands.rs, validators.rs): the   *)
(* model plans, investigates each section and writes the synthesis; the    *)
(* adapter numbers its citations and counts coverage; the validators of    *)
(* the research contract judge what was read back.                         *)
(***************************************************************************)
EXTENDS Naturals, Sequences, FiniteSets, SequencesExt, FiniteSetsExt

CONSTANTS
    Digests,      \* digests an input may have
    MaxPins,      \* bound on the pack's inputs
    SectionCap,   \* sections kept of a plan
    Planned,      \* numbers of sections a plan may carry
    Numbers       \* citation numbers the model may write

VARIABLES
    pins,       \* the pack's inputs, in order
    known,      \* digests in the capture index
    late,       \* of those, the ones retrieved after the cutoff
    spoiled,    \* digests whose object no longer hashes to its name
    stage,      \* what the hand does next, or how it ended
    planned,    \* sections the plan keeps
    answered,   \* sections the model answered
    times,      \* the times of the events, in order of their numbers
    staged      \* [cites, claims, citations, eligible, consumed, withheld]

vars == <<pins, known, late, spoiled, stage, planned, answered, times, staged>>

Nothing == "none"

-----------------------------------------------------------------------------
(* The model's process and what it may answer. *)

\* Standard output: text, a JSON object that is no envelope, or an envelope.
Outputs ==
    [shape : {"text", "object", "envelope"},
     status : {"absent", "SUCCESS", "ERROR"},
     text : {"", "prose", "json"}]

\* Any object parses as an envelope, with whatever it does not have left out.
Text(o) == IF o.shape = "object" THEN "" ELSE o.text

\* agy_invoke: the exit code is not asked.
Usable(o) ==
    Text(o) # "" /\ (o.shape = "envelope" => o.status \in {"absent", "SUCCESS"})

\* extract_trailing_json, fenced or after prose.
HasJson(o) == Usable(o) /\ Text(o) = "json"

Claims == [evidence : SUBSET Numbers, kind : {"fact", "forecast"},
           about : {"none", "past", "future", "garbled"}]

\* What the synthesis may hold; "garbled" is a time past the cutoff in a form
\* that does not parse.
Answers == [blank : BOOLEAN, cites : SUBSET Numbers, parsed : BOOLEAN,
            claims : {<<>>} \union {<<c>> : c \in Claims}]

-----------------------------------------------------------------------------
(* assemble_research_artifacts. *)

InRange(n) == n \in DOMAIN pins

Cited(a) == a.cites \union UNION {c.evidence : c \in ToSet(a.claims)}

\* Consumed inputs are counted by their place, not by digest.
Consumed(a) == Cardinality({n \in Cited(a) : InRange(n)})

Withheld(a) == Cardinality({n \in DOMAIN pins : n \notin Cited(a) \/ ~InRange(n)})

\* A time that does not parse is dropped.
TimeOf(c) == IF c.about = "garbled" THEN "none" ELSE c.about

Assemble(a) ==
    [cites |-> a.cites,
     said |-> a.claims,
     claims |-> [i \in DOMAIN a.claims |-> [a.claims[i] EXCEPT !.about = TimeOf(a.claims[i])]],
     citations |-> [n \in {m \in Cited(a) : InRange(m)} |-> pins[n]],
     eligible |-> Len(pins), consumed |-> Consumed(a), withheld |-> Withheld(a)]

-----------------------------------------------------------------------------
(* The hand. *)

Init ==
    /\ pins \in BoundedSeq(Digests, MaxPins)
    /\ known \in SUBSET Digests /\ late \in SUBSET known
    /\ spoiled = {} /\ stage = "start"
    /\ planned = 0 /\ answered = 0 /\ times = <<>> /\ staged = Nothing

\* An error of any stage ends the run without artifacts or events.
Give == stage' = "failed" /\ times' = <<>> /\ UNCHANGED <<planned, answered, staged>>

Start ==
    /\ stage = "start"
    /\ IF pins = <<>> THEN Give
       ELSE /\ stage' = "plan" /\ times' = <<0>>
            /\ UNCHANGED <<planned, answered, staged>>
    /\ UNCHANGED <<pins, known, late, spoiled>>

\* parse_research_plan.
Kept(n) == IF n > SectionCap THEN SectionCap ELSE n

Plan ==
    /\ stage = "plan"
    /\ \/ /\ \E o \in Outputs : ~HasJson(o)
          /\ Give
       \/ /\ \E o \in Outputs : HasJson(o)
          /\ \E n \in Planned :
                IF n = 0 THEN Give
                ELSE /\ planned' = Kept(n) /\ stage' = "sections"
                     /\ times' = Append(times, 1) /\ UNCHANGED <<answered, staged>>
    /\ UNCHANGED <<pins, known, late, spoiled>>

\* A section the model does not answer ends the run.
Unanswered == Give

Section ==
    /\ stage = "sections" /\ answered < planned
    /\ \E o \in Outputs :
          IF Usable(o)
          THEN /\ answered' = answered + 1
               /\ times' = Append(times, 2 + answered)
               /\ stage' = IF answered + 1 = planned THEN "synthesis" ELSE "sections"
               /\ UNCHANGED <<planned, staged>>
          ELSE Unanswered
    /\ UNCHANGED <<pins, known, late, spoiled>>

Synthesize ==
    /\ stage = "synthesis"
    /\ \/ /\ \E o \in Outputs : ~HasJson(o)
          /\ Give
       \/ /\ \E o \in Outputs : HasJson(o)
          /\ \E a \in Answers :
                IF a.blank \/ ~a.parsed THEN Give
                ELSE /\ staged' = Assemble(a) /\ stage' = "staged"
                     /\ times' = times \o <<20, 21>> /\ UNCHANGED <<planned, answered>>
    /\ UNCHANGED <<pins, known, late, spoiled>>

Spoil(d) ==
    /\ stage = "staged" /\ d \notin spoiled
    /\ spoiled' = spoiled \union {d}
    /\ UNCHANGED <<pins, known, late, stage, planned, answered, times, staged>>

-----------------------------------------------------------------------------
(* The validators of the research contract, over the artifacts read back. *)

CitationClosure(s) ==
    /\ s.cites # {}
    /\ \A n \in s.cites :
          n \in DOMAIN s.citations /\ s.citations[n] \in known \ spoiled

FactVsForecast(s) ==
    \A c \in ToSet(s.claims) : ~(c.kind = "fact" /\ c.about = "future")

SourceCutoff(s) == \A n \in DOMAIN s.citations : s.citations[n] \in known \ late

CoverageDenominator(s) == s.consumed + s.withheld = Max({Len(pins), s.eligible})

Passes(s) ==
    CitationClosure(s) /\ FactVsForecast(s) /\ SourceCutoff(s) /\ CoverageDenominator(s)

Judge ==
    /\ stage = "staged"
    /\ stage' = IF Passes(staged) THEN "passed" ELSE "refused"
    /\ UNCHANGED <<pins, known, late, spoiled, planned, answered, times, staged>>

Next ==
    \/ Start \/ Plan \/ Section \/ Synthesize \/ Judge
    \/ \E d \in Digests : Spoil(d)

Spec == Init /\ [][Next]_vars

-----------------------------------------------------------------------------
(* Properties. *)

Judged == stage \in {"passed", "refused"}
Written == Judged \/ stage = "staged"

\* A synthesis is written from an answer to every section of the plan, and
\* from no more sections than the cap.
EverySectionAnswered ==
    Written => answered = planned /\ planned \in 1..SectionCap

\* The times of the events never run backwards, however long the plan was.
TimesForward == \A i \in 2..Len(times) : times[i - 1] <= times[i]

\* The adapter's count always closes: the coverage validator never refuses
\* what it assembled, inputs pinned twice included.
CoverageCloses == Judged => CoverageDenominator(staged)

\* What passes cites, in its text, only inputs of the pack that were captured
\* within the cutoff.
PassedCitesCaptured ==
    stage = "passed" =>
        \A n \in staged.cites : n \in DOMAIN pins /\ pins[n] \in known \ late

\* An answer that cites what it was given, all of it captured in time, is
\* not refused.
SoundIsPassed ==
    Judged /\ ToSet(pins) \subseteq known \ (late \union spoiled) /\ staged.cites # {}
           /\ staged.cites \subseteq DOMAIN pins
           /\ (\A c \in ToSet(staged.said) : c.about # "future")
        => stage = "passed"

-----------------------------------------------------------------------------
(* What the documentation says, and the code does not keep. *)

\* hands.rs: a number out of range gets no entry, and citation-closure then
\* fails it.
EvidenceResolves ==
    stage = "passed" => \A c \in ToSet(staged.said) : c.evidence \subseteq DOMAIN pins

\* validators.rs: a claim stating a time past the cutoff as fact fails.
FactsWithinCutoff ==
    stage = "passed" =>
        \A c \in ToSet(staged.said) : c.kind = "fact" => c.about \notin {"future", "garbled"}

\* validators.rs: every capture consumed was retrieved within the cutoff.
\* Each stage shows the model every input.
ShownWithinCutoff == stage = "passed" => \A d \in ToSet(pins) : d \notin late

=============================================================================
