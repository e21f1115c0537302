------------------------------ MODULE OpsTasks ------------------------------
(***************************************************************************)
(* The verify, settle and monitor tasks (rein-finance ops.rs, hands.rs     *)
(* FinanceOps, compute/series.rs, validators.rs OpsDiscipline): a hand     *)
(* reads the pinned files and stages one artifact; the validator reads the *)
(* pins again from the CAS and checks it.                                  *)
(***************************************************************************)
EXTENDS Integers, Sequences, FiniteSets, SequencesExt

CONSTANTS
    Files,      \* pinned files: name -> [note, json, kind, data]
    MaxPins,    \* bound on the pack's inputs
    Tasks,      \* the task types
    Foreign     \* task -> artifacts another hand may stage

VARIABLES task, pins, spoiled, stage, art

vars == <<task, pins, spoiled, stage, art>>

Nothing == <<>>
NoFile == "none"

-----------------------------------------------------------------------------
(* Reading pins. *)

First(s) == IF s = <<>> THEN NoFile ELSE Head(s)

\* The hand: the first file of that note that is JSON, for the sandbox holds
\* what was read back when the attempt began.
HandFile(tag) == First(SelectSeq(pins, LAMBDA f : Files[f].note = tag /\ Files[f].json))

\* The validator: the first file of that note that reads back now.
ValidatorFile(tag) == First(SelectSeq(pins, LAMBDA f : Files[f].note = tag /\ f \notin spoiled))

\* What a file holds, or what is used in its place.
Data(f, kind, otherwise) ==
    IF f # NoFile /\ Files[f].json /\ Files[f].kind = kind THEN Files[f].data ELSE otherwise

-----------------------------------------------------------------------------
(* verify. *)

Row(claim) == [id |-> claim.id, condition |-> claim.falsifier # "blank"]

\* No producer on record is a name like any other.
Producer == Data(HandFile("meta"), "meta", <<"unrecorded">>)[1]

Verdicts ==
    LET claims == Data(HandFile("claims"), "claims", <<>>)
    IN  [producer |-> Producer, challenger |-> "finance:ops",
         rows |-> [i \in DOMAIN claims |-> Row(claims[i])]]

CountOf(id, rows) == Cardinality({i \in DOMAIN rows : rows[i].id = id})

\* check_verdicts.
CheckVerdicts(v, ids) ==
    /\ v.challenger # v.producer
    /\ \A i \in DOMAIN ids : CountOf(ids[i], v.rows) <= 1
    /\ Len(v.rows) = Len(ids)
    /\ \A i \in DOMAIN v.rows : v.rows[i].condition

Ids == LET claims == Data(ValidatorFile("claims"), "claims", <<>>)
       IN  [i \in DOMAIN claims |-> claims[i].id]

-----------------------------------------------------------------------------
(* settle. *)

\* f64::signum of zero is one.
Signum(x) == IF x >= 0 THEN 1 ELSE -1

\* settle_verdict.
SettleVerdict(implied, market, realized) ==
    IF realized = <<>> THEN "expired"
    ELSE IF implied = market \/ Signum(realized[1] - market) = Signum(implied - market)
    THEN "confirmed" ELSE "contradicted"

Settled(row) ==
    [implied |-> row.implied, market |-> row.market, realized |-> row.realized,
     verdict |-> SettleVerdict(row.implied, row.market, row.realized)]

Expired(rows) == Cardinality({i \in DOMAIN rows : rows[i].verdict = "expired"})

Coverage(rows) ==
    [due |-> Len(rows), settled |-> Len(rows) - Expired(rows), expired |-> Expired(rows)]

Settlements ==
    LET due == Data(HandFile("due"), "due", <<>>)
        rows == [i \in DOMAIN due |-> Settled(due[i])]
    IN  [rows |-> rows, coverage |-> Coverage(rows)]

CheckRow(row) ==
    IF row.verdict = "expired" THEN row.realized = <<>>
    ELSE row.realized # <<>> /\ SettleVerdict(row.implied, row.market, row.realized) = row.verdict

\* check_settlements, with the due count the artifact declares of itself.
CheckSettlements(s) ==
    LET due == s.coverage.due
    IN  /\ \A i \in DOMAIN s.rows : CheckRow(s.rows[i])
        /\ s.coverage.due = due
        /\ s.coverage.settled + s.coverage.expired = Len(s.rows)
        /\ s.coverage.due = Len(s.rows)

-----------------------------------------------------------------------------
(* monitor: points are [at, value]. *)

At(series, t) == SelectSeq(series, LAMBDA p : p.at = t)

\* diff: a point of the new series against the first of its time in the prior.
Diff(prior, new) ==
    LET in(p) == At(prior, p.at) # <<>>
    IN  [moved |-> SelectSeq(new, LAMBDA p : in(p) /\ Head(At(prior, p.at)).value # p.value),
         inserted |-> SelectSeq(new, LAMBDA p : ~in(p)),
         removed |-> SelectSeq(prior, LAMBDA p : At(new, p.at) = <<>>)]

IsSeries(f) == f # NoFile /\ Files[f].json /\ Files[f].kind = "series"

DiffOf(prior, new) == Diff(Files[prior].data, Files[new].data)

-----------------------------------------------------------------------------
Init ==
    /\ task \in Tasks
    /\ pins \in {s \in BoundedSeq(DOMAIN Files, MaxPins) : IsInjective(s)}
    /\ spoiled = {} /\ stage = "ready" /\ art = Nothing

Stage(a) == stage' = "staged" /\ art' = <<a>> /\ UNCHANGED <<task, pins, spoiled>>

\* FinanceOps: what the contract asks for; a diff only from two series.
RunOps ==
    /\ stage = "ready"
    /\ \/ task = "verify" /\ Stage(Verdicts)
       \/ task = "settle" /\ Stage(Settlements)
       \/ /\ task = "monitor" /\ IsSeries(HandFile("prior")) /\ IsSeries(HandFile("new"))
          /\ Stage(DiffOf(HandFile("prior"), HandFile("new")))
       \/ /\ task = "monitor" /\ ~(IsSeries(HandFile("prior")) /\ IsSeries(HandFile("new")))
          /\ stage' = "refused" /\ UNCHANGED <<task, pins, spoiled, art>>

\* Any other hand, which may stage what it likes.
RunOther ==
    /\ stage = "ready"
    /\ \E a \in Foreign[task] : Stage(a)

Spoil(f) ==
    /\ stage = "staged" /\ f \in ToSet(pins) \ spoiled
    /\ spoiled' = spoiled \union {f}
    /\ UNCHANGED <<task, pins, stage, art>>

\* OpsDiscipline.
Disciplined(a) ==
    CASE task = "verify" -> CheckVerdicts(a, Ids)
      [] task = "settle" -> CheckSettlements(a)
      [] task = "monitor" ->
            /\ IsSeries(ValidatorFile("prior")) /\ IsSeries(ValidatorFile("new"))
            /\ a = DiffOf(ValidatorFile("prior"), ValidatorFile("new"))

Judge ==
    /\ stage = "staged"
    /\ stage' = IF Disciplined(art[1]) THEN "passed" ELSE "refused"
    /\ UNCHANGED <<task, pins, spoiled, art>>

Next == RunOps \/ RunOther \/ Judge \/ \E f \in DOMAIN Files : Spoil(f)

Spec == Init /\ [][Next]_vars

-----------------------------------------------------------------------------
(* Properties. *)

Passed(t) == stage = "passed" /\ task = t
Pinned(tag) == SelectSeq(pins, LAMBDA f : Files[f].note = tag)

\* The first file of each note is the one meant, and holds what it should.
InOrder(tag, kind) ==
    Pinned(tag) # <<>> /\ Files[Head(Pinned(tag))].json /\ Files[Head(Pinned(tag))].kind = kind

\* Claims with one verdict each, conditions that say something, another's work.
Verifiable ==
    /\ InOrder("claims", "claims") /\ InOrder("meta", "meta")
    /\ Producer # "finance:ops"
    /\ LET claims == Files[Head(Pinned("claims"))].data
       IN  \A i, j \in DOMAIN claims :
              (claims[i].id = claims[j].id => i = j) /\ claims[i].falsifier # "blank"

\* From pins in order that stay readable, finance:ops always meets the
\* contract of its three tasks.
OwnContractMet ==
    stage = "refused" /\ spoiled = {} /\ Foreign[task] = {} =>
        /\ task = "verify" => ~Verifiable
        /\ task = "monitor" => ~(InOrder("prior", "series") /\ InOrder("new", "series"))
        /\ task # "settle"

\* A settlement that passes, whoever staged it, says confirmed or contradicted
\* just of the rows it holds a realized price for, and by the direction of that
\* price: one that stood still contradicts who saw the share above its value, not
\* who saw it below.
NeverInvented ==
    Passed("settle") =>
        \A i \in DOMAIN art[1].rows :
            LET r == art[1].rows[i]
            IN  /\ r.verdict = "expired" <=> r.realized = <<>>
                /\ r.realized # <<>> =>
                     (r.verdict = "contradicted"
                        <=> IF r.implied > r.market THEN r.realized[1] < r.market
                            ELSE r.implied < r.market /\ r.realized[1] >= r.market)

Times(s) == {s[i].at : i \in DOMAIN s}
ValueAt(s, t) == Head(At(s, t)).value
Single(s) == Cardinality(Times(s)) = Len(s)

\* A diff that passes turns the prior series into the new one and lists
\* nothing that did not change.
DiffPatches ==
    Passed("monitor") =>
        LET d == art[1]
            prior == Files[ValidatorFile("prior")].data
            new == Files[ValidatorFile("new")].data
        IN  Single(prior) /\ Single(new) =>
              /\ Times(new) = (Times(prior) \ Times(d.removed)) \union Times(d.inserted)
              /\ \A t \in Times(new) :
                    ValueAt(new, t) =
                        IF t \in Times(d.moved) THEN ValueAt(d.moved, t)
                        ELSE IF t \in Times(d.inserted) THEN ValueAt(d.inserted, t)
                        ELSE ValueAt(prior, t)
              /\ \A t \in Times(d.moved) : ValueAt(prior, t) # ValueAt(new, t)

-----------------------------------------------------------------------------
(* What the documentation says, and the code does not keep. *)

\* ops.rs: the denominator is the claims under test.
VerdictPerClaim ==
    Passed("verify") => \A i \in DOMAIN Ids : CountOf(Ids[i], art[1].rows) = 1

\* ops.rs: challenger isolation, recorded and checkable.
ChallengerOnRecord == Passed("verify") => art[1].producer # "unrecorded"

\* ops.rs: the coverage adds up against the due set.
DueAllSettled ==
    Passed("settle") /\ InOrder("due", "due") =>
        Len(art[1].rows) = Len(Files[Head(Pinned("due"))].data)

\* ops.rs: the realized price's direction decides, so a price that did not move
\* speaks for neither side.
FlatDecidesAlike ==
    Passed("settle") =>
        \A i, j \in DOMAIN art[1].rows :
            LET r == art[1].rows[i]
                q == art[1].rows[j]
            IN  r.realized = <<r.market>> /\ q.realized = <<q.market>>
                /\ r.implied > r.market /\ q.implied < q.market => r.verdict = q.verdict

=============================================================================
