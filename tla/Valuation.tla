----------------------------- MODULE Valuation -----------------------------
(***************************************************************************)
(* A valuation attempt (rein-finance hands.rs, schemas.rs, compute,        *)
(* validators.rs): a hand fills assumption slots from pinned captures or   *)
(* takes them from a model, computes the DCF and the bridge from the slots *)
(* alone, and the valuation contract judges both artifacts.  Rates are in  *)
(* thousandths; a computed figure is the record of what it is computed     *)
(* from.                                                                   *)
(***************************************************************************)
EXTENDS Integers, Sequences, FiniteSets, SequencesExt, Functions

CONSTANTS
    Library,     \* captures: digest -> [note, has]
    MaxPins,     \* bound on the pack's inputs
    MaxYears,    \* explicit years a DCF may have
    ModelSlots,  \* assumptions a model may return
    Days         \* days a pack may be of

VARIABLES
    pins,     \* the pack's inputs: digests, in order
    known,    \* digests in the capture index the validators hold
    late,     \* of the captures, those retrieved after the cutoff
    day,      \* the day of the pack
    stage,    \* "ready", "staged", or how the attempt ended
    staged    \* [hand, assumptions, valuation, asOf], or nothing

vars == <<pins, known, late, day, stage, staged>>

NoDigest == "none"
Nothing == <<>>

Named == {"discount_rate", "terminal_growth", "net_debt", "minority_interest",
          "associates", "other_claims", "share_count", "market_price"}

-----------------------------------------------------------------------------
(* Reading the pinned captures. *)

Noted(tag) == SelectSeq(pins, LAMBDA d : Library[d].note = tag)
Having(tag, key) == SelectSeq(Noted(tag), LAMBDA d : key \in DOMAIN Library[d].has)

\* field: the first capture of that note that has the key.
Field(tag, key) == IF Having(tag, key) = <<>> THEN NoDigest ELSE Head(Having(tag, key))

\* The operator's pin is the first capture noted so, whatever it holds.
Pin == IF Noted("growth") = <<>> THEN NoDigest ELSE Head(Noted("growth"))

PinHas(key) == Pin # NoDigest /\ key \in DOMAIN Library[Pin].has

\* estimate_growth_path looks at the first estimates only.
Estimates ==
    IF Noted("estimates") # <<>> /\ "cagr" \in DOMAIN Library[Head(Noted("estimates"))].has
    THEN Head(Noted("estimates")) ELSE NoDigest

\* fcf_rows takes the first history; fcf_cagr may find nothing in it.
History ==
    IF Having("cash-flow", "history") = <<>> THEN NoDigest
    ELSE LET d == Head(Having("cash-flow", "history"))
         IN  IF "cagr" \in DOMAIN Library[d].has THEN d ELSE NoDigest

\* Where the growth path comes from: pinned path, pinned rate, estimates,
\* history, or nowhere.
GrowthFrom ==
    IF PinHas("path") \/ PinHas("growth") THEN Pin
    ELSE IF Estimates # NoDigest THEN Estimates
    ELSE History

-----------------------------------------------------------------------------
(* Assumption slots.  "uses" are the captures the value was computed from. *)

Of(value, basis, digest, status, uses) ==
    [value |-> value, basis |-> basis, digest |-> digest, status |-> status,
     uses |-> uses \ {NoDigest}]

Default(value) == Of(value, "assumption", NoDigest, "defaulted", {})

\* filled_or_default.
FilledOr(d, key, default) ==
    IF d = NoDigest THEN Default(default)
    ELSE Of(Library[d].has[key], "capture", d, "filled", {d})

FcfSlot(y) ==
    LET base == Field("cash-flow", "freeCashFlow")
        uses == {base, GrowthFrom}
    IN  IF base = NoDigest THEN Of(y, "assumption", NoDigest, "defaulted", uses)
        ELSE IF y = 1 THEN Of(y, "capture", base, "filled", uses)
        ELSE Of(y, "assumption", NoDigest, "filled", uses)

Rate(key, default) == FilledOr(IF PinHas(key) THEN Pin ELSE NoDigest, key, default)

NetDebt ==
    LET debt == Field("balance-sheet", "totalDebt")
        cash == Field("balance-sheet", "cash")
    IN  IF NoDigest \in {debt, cash} THEN Default(0)
        ELSE Of(Library[debt].has["totalDebt"] - Library[cash].has["cash"],
                "capture", debt, "filled", {debt, cash})

\* The shares, or else the market's value over its price.
ShareCount ==
    LET shares == Field("quote", "sharesOutstanding")
        cap == Field("quote", "marketCap")
        price == Field("quote", "price")
    IN  IF shares = NoDigest /\ NoDigest \notin {cap, price} /\ Library[price].has["price"] > 0
        THEN Of(Library[cap].has["marketCap"] \div Library[price].has["price"],
                "capture", cap, "filled", {cap, price})
        ELSE FilledOr(shares, "sharesOutstanding", 1000)

Filled ==
    [schema |-> TRUE, duplicate |-> FALSE,
     fcf |-> [y \in 1..MaxYears |-> FcfSlot(y)],
     named |->
        [n \in Named |->
            CASE n = "discount_rate" -> Rate("discount_rate", 95)
              [] n = "terminal_growth" -> Rate("terminal_growth", 25)
              [] n = "net_debt" -> NetDebt
              [] n = "minority_interest" ->
                    FilledOr(Field("balance-sheet", "minorityInterest"), "minorityInterest", 0)
              [] n = "share_count" -> ShareCount
              [] n = "market_price" -> FilledOr(Field("quote", "price"), "price", 100)
              [] OTHER -> Default(0)]]

-----------------------------------------------------------------------------
(* The arithmetic, from assumptions alone. *)

\* The years before the first that is missing.
Schedule(a) ==
    {y \in DOMAIN a.fcf : y <= MaxYears /\ \A x \in 1..y : x \in DOMAIN a.fcf}

\* assemble_dcf_from_slots: the year after the schedule must not be there,
\* which can only be the one past the last year allowed.
Assembles(a) ==
    /\ ~a.duplicate
    /\ Schedule(a) # {} /\ Cardinality(Schedule(a)) + 1 \notin DOMAIN a.fcf
    /\ Named \subseteq DOMAIN a.named

Number(a, name) == a.named[name].value

\* dcf and bridge refuse what cannot be discounted or shared out.
Computes(a) ==
    /\ Assembles(a)
    /\ Number(a, "discount_rate") \in 1..999
    /\ Number(a, "terminal_growth") < Number(a, "discount_rate")
    /\ Number(a, "share_count") > 0

\* What the enterprise value and the price per share are computed from.
Figures(a) ==
    [fcf |-> [y \in Schedule(a) |-> a.fcf[y].value], named |-> [n \in Named |-> Number(a, n)]]

Shifted(a, name, delta) == [a EXCEPT !.named[name].value = @ + delta]

\* sensitivity_table: a shift that does not compute has no row.
Sensitivity(a) ==
    {s \in {"terminal_growth", "discount_rate", "fcf_y1"} :
        Computes(CASE s = "terminal_growth" -> Shifted(a, s, 5)
                   [] s = "discount_rate" -> Shifted(a, s, 10)
                   [] s = "fcf_y1" -> a)}

\* Mutant of Appraise: at the house's rate, not the slot's.
AppraiseAtHouseRate(a) ==
    [figures |-> [Figures(a) EXCEPT !.named["discount_rate"] = 95], sensitivity |-> Sensitivity(a)]

Appraise(a) == [figures |-> Figures(a), sensitivity |-> Sensitivity(a)]

-----------------------------------------------------------------------------
(* The hands. *)

\* derive_as_of.
StaticDay == 1

Init ==
    /\ pins \in {s \in BoundedSeq(DOMAIN Library, MaxPins) : IsInjective(s)}
    /\ known \in {ToSet(pins)} \union {ToSet(pins) \ {d} : d \in ToSet(pins)}
    /\ late \in {{}} \union {{d} : d \in ToSet(pins)}
    /\ day \in Days /\ stage = "ready" /\ staged = Nothing

\* finance:deterministic: a failure to compute is the hand's own error.
RunDeterministic ==
    /\ stage = "ready"
    /\ IF Computes(Filled)
       THEN /\ stage' = "staged"
            /\ staged' = <<[hand |-> "deterministic", assumptions |-> Filled,
                            valuation |-> Appraise(Filled), asOf |-> StaticDay]>>
       ELSE stage' = "error" /\ UNCHANGED staged
    /\ UNCHANGED <<pins, known, late, day>>

\* agy: the model's slots, the adapter's arithmetic.  What does not parse or
\* compute stages nothing, and the contract misses its artifacts.
RunModel(a) ==
    /\ stage = "ready"
    /\ IF Computes(a)
       THEN /\ stage' = "staged"
            /\ staged' = <<[hand |-> "model", assumptions |-> a,
                            valuation |-> Appraise(a), asOf |-> day]>>
       ELSE stage' = "refused" /\ UNCHANGED staged
    /\ UNCHANGED <<pins, known, late, day>>

-----------------------------------------------------------------------------
(* The validators of the valuation contract. *)

Slots(a) == Range(a.fcf) \union Range(a.named)
Cited(a) == {s.digest : s \in {t \in Slots(a) : t.basis = "capture"}}

\* No artifact of this contract holds claims, so a claim resolves to nothing;
\* "bare" is an assumption without a justification.
InputClosure(a) ==
    a.schema /\ Cited(a) \subseteq known
             /\ \A s \in Slots(a) : s.basis \notin {"claim", "bare"}

\* A figure that is not finite is written as null and does not parse.
Parses(a) == Number(a, "market_price") # 0

NumericConsistency(a, v) ==
    Parses(a) /\ a.schema /\ Computes(a) /\ v.figures = Figures(a)

FalsifierPresent(a, v) == Parses(a) /\ Cardinality(v.sensitivity) >= 3

\* Mutant of SourceCutoff: the retrieval time is not asked.
SourceKnown(a) == Cited(a) \subseteq known

SourceCutoff(a) == Cited(a) \subseteq known \ late

CoverageDenominator(a) ==
    a.schema /\ \A s \in Slots(a) : s.status = "defaulted" => s.basis = "assumption"

Judge ==
    /\ stage = "staged"
    /\ LET a == staged[1].assumptions
           v == staged[1].valuation
       IN  stage' = IF /\ InputClosure(a) /\ NumericConsistency(a, v)
                       /\ FalsifierPresent(a, v) /\ SourceCutoff(a) /\ CoverageDenominator(a)
                    THEN "passed" ELSE "refused"
    /\ UNCHANGED <<pins, known, late, day, staged>>

Next == RunDeterministic \/ (\E a \in ModelSlots : RunModel(a)) \/ Judge

Spec == Init /\ [][Next]_vars

-----------------------------------------------------------------------------
(* Properties. *)

Passed == stage = "passed"
Mine == staged[1].assumptions

\* Inputs the deterministic hand can compute from, with room for the shifts of
\* the sensitivity table.
Workable ==
    /\ ToSet(pins) \subseteq known \ late
    /\ Number(Filled, "market_price") # 0 /\ Number(Filled, "share_count") > 0
    /\ Number(Filled, "discount_rate") \in 1..989
    /\ Number(Filled, "terminal_growth") + 5 < Number(Filled, "discount_rate")

\* From captures in time the deterministic hand always meets its own contract,
\* whichever are pinned and in whatever order.
OwnContractMet ==
    Workable => /\ stage # "error"
                /\ stage = "refused" /\ staged # Nothing => staged[1].hand = "model"

\* What passes cites only captures of the index retrieved within the cutoff,
\* and justifies every default.
PassedIsBacked ==
    Passed => /\ Cited(Mine) \subseteq known \ late
              /\ \A s \in Slots(Mine) : s.basis = "capture" \/ s.basis = "assumption"

\* Whatever the model answers, the numbers staged are the slots' own: the
\* recomputation refuses none that parses.
AdapterRecomputes ==
    staged # Nothing /\ Mine.schema /\ Parses(Mine) =>
        NumericConsistency(Mine, staged[1].valuation)

\* A figure is pinned: some capture of that note, wherever it stands, has it.
Pinned(figure) == \E d \in ToSet(pins) : Library[d].note = figure[1] /\ figure[2] \in DOMAIN Library[d].has

\* The figures each slot can be filled from: all those of one of its sets.
Suffices ==
    [market_price |-> {{<<"quote", "price">>}},
     share_count |-> {{<<"quote", "sharesOutstanding">>},
                      {<<"quote", "marketCap">>, <<"quote", "price">>}},
     net_debt |-> {{<<"balance-sheet", "totalDebt">>, <<"balance-sheet", "cash">>}},
     minority_interest |-> {{<<"balance-sheet", "minorityInterest">>}}]

\* A passing valuation of the deterministic hand counts a slot as defaulted just
\* when the captures pinned, in whatever order and spread over however many, lack
\* a figure it takes.  A rate is only sure to be filled from a pinned figure if it
\* is filled at all: of several growth captures the first is read.
DefaultedIsAbsent ==
    Passed /\ staged[1].hand = "deterministic" =>
        /\ \A n \in DOMAIN Suffices :
              Mine.named[n].status = "filled"
                <=> \E figures \in Suffices[n] : \A f \in figures : Pinned(f)
        /\ \A y \in DOMAIN Mine.fcf :
              Mine.fcf[y].status = "filled" <=> Pinned(<<"cash-flow", "freeCashFlow">>)
        /\ \A n \in {"discount_rate", "terminal_growth"} :
              Mine.named[n].status = "filled" => Pinned(<<"growth", n>>)

-----------------------------------------------------------------------------
(* What the documentation says, and the code does not keep. *)

\* schemas.rs: fcf_y1..fcf_yN, contiguous; a hole is an error.
ScheduleWhole == Passed => Schedule(Mine) = DOMAIN Mine.fcf

\* validators.rs: the as-of discipline must not be laundered at the compute
\* boundary: no figure is computed from a capture retrieved after the cutoff.
ConsumedWithinCutoff ==
    Passed => \A s \in Slots(Mine) : s.uses \intersect late = {}

\* hands.rs: an operator-pinned figure overrides the default.
PinOverrides ==
    staged # Nothing /\ staged[1].hand = "deterministic" =>
        \A n \in {"discount_rate", "terminal_growth"} :
            Pinned(<<"growth", n>>) => Mine.named[n].status = "filled"

\* hands.rs: shares over marketCap and price come from the same capture.
SharesFromOneCapture ==
    stage = "staged" => Cardinality(Mine.named["share_count"].uses) <= 1

\* hands.rs: the as-of is the deadline's day, injected.
AsOfInjected == staged # Nothing => staged[1].asOf = day

=============================================================================
