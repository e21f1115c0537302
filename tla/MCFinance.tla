------------------------------ MODULE MCFinance ------------------------------
(***************************************************************************)
(* TLC instances of the finance hands and what their artifacts are held    *)
(* to: Research, Valuation (deterministic; with the answers of a model)    *)
(* and OpsTasks (by its own hand; by another).  A behaviour is one of one  *)
(* part.  All of them are a hand at work on the pins of a pack, and use    *)
(* the same variables for that.                                            *)
(***************************************************************************)
EXTENDS Naturals, Sequences

VARIABLES part,
          pins, known, late, spoiled, stage, staged,   \* of several
          planned, answered, times,                    \* of Research
          day,                                         \* of Valuation
          task, art                                    \* of OpsTasks

common    == <<pins, known, late, spoiled, stage, staged>>
progress  == <<planned, answered, times>>

NoResearch  == planned = 0 /\ answered = 0 /\ times = 0
NoOps       == task = 0 /\ art = 0

-----------------------------------------------------------------------------
Studied == INSTANCE Research WITH
    Digests <- {"a", "b"}, MaxPins <- 2, SectionCap <- 6,
    Planned <- {0, 1, 6, 20}, Numbers <- 0..2

-----------------------------------------------------------------------------
(* Captures of a valuation: what of the figures each has. *)

One(note, has) == [note |-> note, has |-> has]

Library ==
    [cf |-> One("cash-flow", [freeCashFlow |-> 1, history |-> 1, cagr |-> 1]),
     cfOne |-> One("cash-flow", [freeCashFlow |-> 1]),
     balance |-> One("balance-sheet", [totalDebt |-> 9, cash |-> 4, minorityInterest |-> 1]),
     debt |-> One("balance-sheet", [totalDebt |-> 7]),
     cash |-> One("balance-sheet", [cash |-> 2]),
     quote |-> One("quote", [sharesOutstanding |-> 50, price |-> 10]),
     worth |-> One("quote", [marketCap |-> 600]),
     price |-> One("quote", [price |-> 20]),
     free |-> One("quote", [sharesOutstanding |-> 50, price |-> 0]),
     path |-> One("growth", [path |-> 1]),
     tight |-> One("growth", [growth |-> 1, discount_rate |-> 30]),
     wrong |-> One("growth", [discount_rate |-> 1000]),
     estimates |-> One("estimates", [cagr |-> 1])]

Computed == INSTANCE Valuation WITH
    MaxPins <- 3, MaxYears <- 3, ModelSlots <- {}, Days <- {1, 2}

Slot(value, basis, digest) == Computed!Of(value, basis, digest, "filled", {digest})

Answer(years, basis, schema, duplicate, without) ==
    [schema |-> schema, duplicate |-> duplicate,
     fcf |-> [y \in years |-> Slot(y, basis, "cf")],
     named |-> [n \in Computed!Named \ without |->
        Slot(IF n = "discount_rate" THEN 100 ELSE IF n = "terminal_growth" THEN 20 ELSE 3,
             basis, "quote")]]

\* Years with and without holes, every basis; not of the schema, a slot twice,
\* a slot missing.
Answers ==
    {Answer(ys, b, TRUE, FALSE, {}) :
        ys \in {{}, {1}, {1, 2, 3}, {1, 3}, 1..4}, b \in {"capture", "assumption", "claim", "bare"}}
    \union {Answer({1, 2}, "capture", s, d, w) :
        s \in BOOLEAN, d \in BOOLEAN, w \in {{}, {"share_count"}}}

Modelled == INSTANCE Valuation WITH
    MaxPins <- 2, MaxYears <- 3, ModelSlots <- Answers, Days <- {1}

-----------------------------------------------------------------------------
(* Files of the operations tasks. *)

File(note, json, kind, data) == [note |-> note, json |-> json, kind |-> kind, data |-> data]
Claim(id, falsifier) == [id |-> id, falsifier |-> falsifier]
Due(implied, realized) == [implied |-> implied, market |-> 10, realized |-> realized]
Point(time, value) == [at |-> time, value |-> value]

Files ==
    [claims |-> File("claims", TRUE, "claims", <<Claim("a", "text"), Claim("b", "none")>>),
     twice |-> File("claims", TRUE, "claims", <<Claim("a", "text"), Claim("a", "text")>>),
     blank |-> File("claims", TRUE, "claims", <<Claim("a", "blank")>>),
     page |-> File("claims", FALSE, "page", <<>>),
     agy |-> File("meta", TRUE, "meta", <<"agy">>),
     ops |-> File("meta", TRUE, "meta", <<"finance:ops">>),
     due |-> File("due", TRUE, "due", <<Due(12, <<>>), Due(12, <<11>>), Due(8, <<11>>), Due(10, <<9>>)>>),
     flat |-> File("due", TRUE, "due", <<Due(12, <<10>>), Due(8, <<10>>)>>),
     prior |-> File("prior", TRUE, "series", <<Point(1, 5), Point(2, 6)>>),
     priorDup |-> File("prior", TRUE, "series", <<Point(1, 5), Point(1, 6)>>),
     new |-> File("new", TRUE, "series", <<Point(2, 7), Point(3, 6)>>),
     same |-> File("new", TRUE, "series", <<Point(1, 5), Point(2, 6)>>),
     newPage |-> File("new", FALSE, "page", <<>>)]

TaskTypes == {"verify", "settle", "monitor"}

Own == INSTANCE OpsTasks WITH
    Tasks <- TaskTypes, MaxPins <- 3, Foreign <- [t \in TaskTypes |-> {}]

Rows(id1, id2) == <<[id |-> id1, condition |-> TRUE], [id |-> id2, condition |-> TRUE]>>

Settlements ==
    LET row == [implied : {8, 10, 12}, market : {10}, realized : {<<>>, <<9>>, <<10>>, <<11>>},
                verdict : {"expired", "confirmed", "contradicted"}]
    IN  [rows : {<<>>} \union {<<r>> : r \in row},
         coverage : [due : 0..1, settled : 0..1, expired : 0..1]]

Foreign ==
    [t \in TaskTypes |->
        CASE t = "verify" ->
                {[producer |-> p, challenger |-> "agy", rows |-> Rows(i, j)] :
                    p \in {"agy", "other"}, i \in {"a", "z"}, j \in {"a", "b", "z"}}
          [] t = "settle" -> Settlements
          [] t = "monitor" ->
                {Own!DiffOf(p, n) : p \in {"prior", "priorDup"}, n \in {"new", "same"}}]

Others == INSTANCE OpsTasks WITH Tasks <- TaskTypes, MaxPins <- 2

-----------------------------------------------------------------------------
Init ==
    \/ part = "research" /\ Studied!Init /\ day = 0 /\ NoOps
    \/ /\ \/ part = "computed" /\ Computed!Init
          \/ part = "modelled" /\ Modelled!Init
       /\ spoiled = 0 /\ NoResearch /\ NoOps
    \/ /\ \/ part = "own" /\ Own!Init
          \/ part = "others" /\ Others!Init
       /\ known = 0 /\ late = 0 /\ staged = 0 /\ day = 0 /\ NoResearch

Next ==
    /\ UNCHANGED part
    /\ \/ part = "research" /\ Studied!Next /\ UNCHANGED <<day, task, art>>
       \/ part = "computed" /\ Computed!Next /\ UNCHANGED <<spoiled, progress, task, art>>
       \/ part = "modelled" /\ Modelled!Next /\ UNCHANGED <<spoiled, progress, task, art>>
       \/ part = "own" /\ Own!Next /\ UNCHANGED <<known, late, staged, day, progress>>
       \/ part = "others" /\ Others!Next /\ UNCHANGED <<known, late, staged, day, progress>>

Spec == Init /\ [][Next]_<<part, common, progress, day, task, art>>

-----------------------------------------------------------------------------
\* No false alarm.  A hand whose pins were captured in time, stay readable and
\* hold what it can compute from meets its own contract, in whatever order they
\* are pinned, twice included; and whatever a model answers, the recomputation of
\* the validators refuses none that parses, nor the coverage the adapter counted.
NoFalseAlarm ==
    /\ part = "research" => Studied!SoundIsPassed /\ Studied!CoverageCloses
    /\ part = "computed" => Computed!OwnContractMet
    /\ part = "modelled" => Modelled!AdapterRecomputes
    /\ part = "own" => Own!OwnContractMet

\* What passes is backed.  Research and valuations cite only captures within the
\* cutoff; the figures of a valuation are counted as defaulted just when the pins
\* lack them (the growth pin apart, of which only the first is read); a synthesis
\* is written from an answer to every section of the plan, from no more sections
\* than the cap, by events that never run backwards; a settlement, whoever staged
\* it, is verdict by verdict what the realized prices it holds say; a diff turns
\* the prior series into the new one.
PassedIsBacked ==
    /\ part = "research" => /\ Studied!PassedCitesCaptured
                            /\ Studied!EverySectionAnswered
                            /\ Studied!TimesForward
    /\ part = "computed" => Computed!DefaultedIsAbsent
    /\ part = "modelled" => Modelled!PassedIsBacked
    /\ part = "others" => Others!NeverInvented /\ Others!DiffPatches

=============================================================================
