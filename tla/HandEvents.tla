------------------------------ MODULE HandEvents ------------------------------
(***************************************************************************)
(* What the engine makes of the events a hand hands back.  A hand numbers  *)
(* its events; what arrives may repeat, skip, reorder or contradict them.  *)
(* The ledger of the run keeps the first event of every number; from the   *)
(* ledger, in numeric order, the engine reads the step charged, whether    *)
(* the run completed, and whether it was lost.                             *)
(***************************************************************************)
EXTENDS Naturals, Sequences, FiniteSets, SequencesExt, TLC

CONSTANTS
    Steps,         \* step numbers a hand uses
    Times,         \* readings of the hand's clock
    Limit,         \* per_step_timeout_ms
    MaxEvents,     \* bound: events the hand emits
    MaxDeliveries  \* bound: different events in the list it returns

NoStep == 0

\* Output chunks, declared artifacts and self reports are one kind: activity.
Events == [kind : {"step_started", "step_completed"}, step : Steps, at : Times]
            \union [kind : {"activity", "completed", "disconnected"},
                    step : {NoStep}, at : Times]

VARIABLES
    emitted,     \* what the hand did, event n - 1 at position n
    delivered,   \* history: the [seq, run, event] ingested so far
    ledger,      \* EventLedger.events: a function from numbers to events
    surfaced,    \* history: numbers reported missing by AcceptedWithGap
    conflict,    \* some event was refused
    phase        \* "runs", "ingests", "closed"

vars == <<emitted, delivered, ledger, surfaced, conflict, phase>>

-----------------------------------------------------------------------------
(* EventLedger *)

Expected(l) == IF DOMAIN l = {} THEN 0 ELSE Max(DOMAIN l) + 1

Gaps(l) == {n \in 0..Expected(l) : n < Expected(l)} \ DOMAIN l

\* An event under a number already taken is ignored if it is the same, refused
\* if not; a new one is kept, and the numbers it skips are reported.
Accept(seq, e) ==
    \/ /\ seq \in DOMAIN ledger
       /\ conflict' = (conflict \/ ledger[seq] # e)
       /\ UNCHANGED <<ledger, surfaced>>
    \/ /\ seq \notin DOMAIN ledger
       /\ ledger' = (seq :> e) @@ ledger
       /\ surfaced' = surfaced \union {n \in 0..seq : Expected(ledger) <= n /\ n < seq}
       /\ UNCHANGED conflict

\* Mutant of Ingest: the run an event is tagged with is not looked at.
IngestAnyRun(seq, run, e) ==
    /\ delivered' = delivered \union {[seq |-> seq, run |-> run, event |-> e]}
    /\ Cardinality(delivered') <= MaxDeliveries
    /\ Accept(seq, e)

Ingest(seq, run, e) ==
    /\ delivered' = delivered \union {[seq |-> seq, run |-> run, event |-> e]}
    /\ Cardinality(delivered') <= MaxDeliveries
    /\ IF run = "own" THEN Accept(seq, e)
       ELSE conflict' = TRUE /\ UNCHANGED <<ledger, surfaced>>

\* The events of a ledger in order of their numbers.
InOrder(l) ==
    LET at[n \in 0..Expected(l)] ==
          IF n = 0 THEN <<>>
          ELSE at[n - 1] \o (IF n - 1 \in DOMAIN l THEN <<l[n - 1]>> ELSE <<>>)
    IN  at[Expected(l)]

-----------------------------------------------------------------------------
(* per_step_breach: one pass with the open step and its start. *)

Elapsed(from, to) == IF to > from THEN to - from ELSE 0

\* Mutant of Observe: the completion of any step closes the open one.
ObserveAnyCompletion(acc, e) ==
    LET late == acc.open # NoStep /\ Elapsed(acc.since, e.at) > Limit
    IN  CASE acc.breach # NoStep        -> acc
          [] e.kind = "step_started"    -> [acc EXCEPT !.open = e.step, !.since = e.at]
          [] OTHER -> IF late THEN [acc EXCEPT !.breach = acc.open]
                      ELSE IF e.kind = "step_completed" THEN [acc EXCEPT !.open = NoStep]
                      ELSE acc

Observe(acc, e) ==
    LET late == acc.open # NoStep /\ Elapsed(acc.since, e.at) > Limit
    IN  CASE acc.breach # NoStep     -> acc
          [] e.kind = "step_started" -> [acc EXCEPT !.open = e.step, !.since = e.at]
          [] e.kind = "step_completed" ->
                IF acc.open # e.step THEN acc
                ELSE IF late THEN [acc EXCEPT !.breach = acc.open]
                ELSE [acc EXCEPT !.open = NoStep]
          [] OTHER -> IF late THEN [acc EXCEPT !.breach = acc.open] ELSE acc

Breach(evs) ==
    FoldLeft(Observe, [open |-> NoStep, since |-> 0, breach |-> NoStep], evs).breach

Seen(evs, kind) == \E i \in DOMAIN evs : evs[i].kind = kind

\* What the engine goes on with: the step charged; whether the run is lost.
Report(evs, conflicting) ==
    [breach |-> Breach(evs),
     lost   |-> conflicting \/ (Seen(evs, "disconnected") /\ ~Seen(evs, "completed"))]

-----------------------------------------------------------------------------
Init ==
    /\ emitted = <<>> /\ delivered = {} /\ ledger = <<>>
    /\ surfaced = {} /\ conflict = FALSE /\ phase = "runs"

\* EventLedger's events are keyed from 0; position n of emitted is number n - 1.
Emit(e) ==
    /\ phase = "runs" /\ Len(emitted) < MaxEvents
    /\ emitted # <<>> => emitted[Len(emitted)].at <= e.at
    /\ emitted' = Append(emitted, e)
    /\ UNCHANGED <<delivered, ledger, surfaced, conflict, phase>>

HandReturns ==
    /\ phase = "runs" /\ phase' = "ingests"
    /\ UNCHANGED <<emitted, delivered, ledger, surfaced, conflict>>

\* Any of its events, any number of times, in any order.
Deliver(n) ==
    /\ phase = "ingests"
    /\ Ingest(n - 1, "own", emitted[n])
    /\ UNCHANGED <<emitted, phase>>

\* Something else under one of its numbers, or an event of another run.
DeliverWrong(n, e, run) ==
    /\ phase = "ingests"
    /\ e # emitted[n] \/ run = "other"
    /\ Ingest(n - 1, run, e)
    /\ UNCHANGED <<emitted, phase>>

\* The list is through; the rest is lost.
Close ==
    /\ phase = "ingests" /\ phase' = "closed"
    /\ UNCHANGED <<emitted, delivered, ledger, surfaced, conflict>>

\* What is wrong about a wrong event does not matter: one is enough.
Wrong == {e \in Events : e.kind = "completed" /\ e.at = Max(Times)}

Next ==
    \/ \E e \in Events : Emit(e)
    \/ HandReturns
    \/ \E n \in DOMAIN emitted :
          Deliver(n) \/ \E e \in Wrong, run \in {"own", "other"} : DeliverWrong(n, e, run)
    \/ Close

Spec == Init /\ [][Next]_vars

-----------------------------------------------------------------------------
\* A number missing in the end was reported when it was skipped, and a number
\* reported missing either is still missing or arrived late: nothing is
\* papered over, in whatever order events come.
GapsSurfaced == Gaps(ledger) = surfaced \ DOMAIN ledger

\* Two events delivered under one number that differ are noticed as a conflict
\* whichever came first, and so is an event of another run; agreeing ones never
\* are (invariant 5: no verdict is inferred from a contradictory stream).
ConflictExact ==
    conflict <=> \/ \E d \in delivered : d.run # "own"
                 \/ \E d, e \in delivered : d.seq = e.seq /\ d # e

\* Repetition and order of delivery do not matter: a run all of whose events
\* arrived, and nothing else, is reported as if they had come once, in order.
DeliveryIrrelevant ==
    {[seq |-> n - 1, run |-> "own", event |-> emitted[n]] : n \in DOMAIN emitted}
        = delivered
    => Report(InOrder(ledger), conflict) = Report(emitted, FALSE)

\* A step overran at i if nothing started after it, it was not completed, and
\* what happened at j came too late for it.
Overran(evs, i, j) ==
    /\ i < j /\ evs[i].kind = "step_started"
    /\ \A k \in (i + 1)..j : evs[k].kind # "step_started"
    /\ \A k \in (i + 1)..(j - 1) : ~(evs[k].kind = "step_completed"
                                      /\ evs[k].step = evs[i].step)
    /\ evs[j].kind = "step_completed" => evs[j].step = evs[i].step
    /\ Elapsed(evs[i].at, evs[j].at) > Limit

\* The step charged is one that overran by the events on record, the first to
\* be seen doing so: an innocent step is never blamed (invariant 10).
BlameEarned ==
    LET evs == InOrder(ledger)
        guilty == {p \in (DOMAIN evs) \X (DOMAIN evs) : Overran(evs, p[1], p[2])}
        first == CHOOSE p \in guilty : \A q \in guilty : p[2] <= q[2]
    IN  Breach(evs) = IF guilty = {} THEN NoStep ELSE evs[first[1]].step

-----------------------------------------------------------------------------
(* What the documentation says, and the code does not keep. *)

\* What the comment on per_step_breach says: a step whose completion or next
\* activity lands beyond the limit is named.
NextActivityCharged ==
    LET evs == InOrder(ledger)
    IN  (\E i \in DOMAIN evs : /\ i + 1 \in DOMAIN evs /\ evs[i].kind = "step_started"
                               /\ Elapsed(evs[i].at, evs[i + 1].at) > Limit)
        => Breach(evs) # NoStep

=============================================================================
