------------------------------ MODULE Ranking ------------------------------
(***************************************************************************)
(* `rein eval internal' (rein-finance eval.rs, rank_hands_on_settled): the *)
(* hands ranked by what the settlements on record say of their valuations. *)
(* A settlement is any committed artifact of that name, whatever became of *)
(* the attempt that staged it: its rows are what its hand wrote.           *)
(***************************************************************************)
EXTENDS Integers, Sequences, FiniteSets

CONSTANTS
    Valuations,
    Maker,           \* valuation -> the hand of its last run, as a number: where
                     \* its name comes among the names of hands
    MaxSettlements,  \* bounds: settlements on record, rows of one
    MaxRows

VARIABLE
    record      \* committed settlements: [rows, readable]

vars == <<record>>

Verdict == {"expired", "confirmed", "contradicted"}
Row == [of : Valuations, verdict : Verdict]

Init == record = <<>>

Settle(rows) ==
    /\ Len(record) < MaxSettlements
    /\ record' = Append(record, [rows |-> rows, readable |-> TRUE])

\* The object rots, or is lost.
Spoil(k) == record' = [record EXCEPT ![k].readable = FALSE]

Next ==
    \/ \E n \in 0..MaxRows : \E rows \in [1..n -> Row] : Settle(rows)
    \/ \E k \in DOMAIN record : Spoil(k)

Spec == Init /\ [][Next]_vars

-----------------------------------------------------------------------------
(* rank_hands_on_settled *)

\* The rows of everything that reads back.
Rows ==
    UNION {{k} \X DOMAIN record[k].rows : k \in {l \in DOMAIN record : record[l].readable}}

\* Those of a hand with one of the verdicts.
RowsOf(h, verdicts) ==
    {at \in Rows : LET row == record[at[1]].rows[at[2]]
                   IN  Maker[row.of] = h /\ row.verdict \in verdicts}

Listed == {Maker[v] : v \in {w \in Valuations : RowsOf(Maker[w], Verdict) # {}}}

Confirmed(h) == Cardinality(RowsOf(h, {"confirmed"}))
SettledOf(h) == Cardinality(RowsOf(h, {"confirmed", "contradicted"}))

\* Mutant of Ahead: a hand without a score leads.
AheadUnscored(h, g) ==
    \/ SettledOf(h) = 0 /\ SettledOf(g) # 0
    \/ /\ SettledOf(h) # 0 /\ SettledOf(g) # 0
       /\ Confirmed(h) * SettledOf(g) > Confirmed(g) * SettledOf(h)

\* A higher score; none is below every score.
Ahead(h, g) ==
    \/ SettledOf(h) # 0 /\ SettledOf(g) = 0
    \/ /\ SettledOf(h) # 0 /\ SettledOf(g) # 0
       /\ Confirmed(h) * SettledOf(g) > Confirmed(g) * SettledOf(h)

\* Sorted by score, equal ones left in the order of the names.
Before(h, g) == Ahead(h, g) \/ (~Ahead(g, h) /\ h < g)

Place(h) == 1 + Cardinality({g \in Listed : Before(g, h)})

-----------------------------------------------------------------------------
(* Properties. *)

\* However its rows are spread over settlements, and whichever of these no
\* longer read back: a hand with a score stands before one with none, and one
\* of which something was confirmed and nothing contradicted before one of
\* which nothing was confirmed.
FollowsRecord ==
    \A h, g \in Listed :
        /\ SettledOf(h) # 0
        /\ SettledOf(g) = 0 \/ (RowsOf(h, {"contradicted"}) = {} /\ RowsOf(g, {"confirmed"}) = {})
        => Place(h) < Place(g)

Never(h, verdict, rows) ==
    \A i \in DOMAIN rows : Maker[rows[i].of] = h => rows[i].verdict # verdict

\* Once two hands have scores, a settlement that contradicts nothing of the one
\* and confirms nothing of the other does not take the one from its place
\* before the other, whatever it says of third hands (of every step).
NoPlaceLost ==
    \A h, g \in Listed :
        /\ Len(record') > Len(record)
        /\ SettledOf(h) # 0 /\ SettledOf(g) # 0 /\ Place(h) < Place(g)
        /\ Never(h, "contradicted", record'[Len(record')].rows)
        /\ Never(g, "confirmed", record'[Len(record')].rows)
        => Place(h)' < Place(g)'

-----------------------------------------------------------------------------
(* What the documentation says, and the code does not keep. *)

\* eval.rs: hands by their settled valuations, each of them once, and with one
\* verdict.
SettledOnce ==
    \A h \in Listed : SettledOf(h) <= Cardinality({v \in Valuations : Maker[v] = h})

\* eval.rs: absence of a score is stated, not a rank: so a hand does not come
\* before another by having been contradicted (of every step).
NothingWonByLosing ==
    \A h, g \in Listed :
        /\ Len(record') > Len(record) /\ Place(h) < Place(g)
        /\ Never(h, "contradicted", record'[Len(record')].rows)
        /\ Never(g, "confirmed", record'[Len(record')].rows)
        => Place(h)' < Place(g)'

=============================================================================
