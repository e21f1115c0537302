---------------------------- MODULE MCAlgorithms ----------------------------
(***************************************************************************)
(* TLC instances of what folds over a stream: ReceiptLoops (over logs that *)
(* decide states, and over logs that decide a verdict), Utf8Decoder,       *)
(* HandEvents, and Replay, which derives an attempt's outcome once more.   *)
(* They share nothing: a behaviour is one of one part, and the variables   *)
(* of the others stay empty.                                               *)
(***************************************************************************)
EXTENDS Naturals, TLC

VARIABLES part,
          log,
          pending, out, input, done,
          emitted, delivered, ledger, surfaced, conflict, phase,
          contract, registered, packHand, atts, spoiled

loops   == log
decoder == <<pending, out, input, done>>
events  == <<emitted, delivered, ledger, surfaced, conflict, phase>>
replay  == <<contract, registered, packHand, atts, spoiled>>

\* The variables of a part that is not at work.
NoLoops   == log = 0
NoDecoder == pending = 0 /\ out = 0 /\ input = 0 /\ done = 0
NoEvents  == /\ emitted = 0 /\ delivered = 0 /\ ledger = 0 /\ surfaced = 0
             /\ conflict = 0 /\ phase = 0
NoReplay  == contract = 0 /\ registered = 0 /\ packHand = 0 /\ atts = 0 /\ spoiled = 0

-----------------------------------------------------------------------------
OneTask == {"t"}
OneHash == {"h"}

Receipt == INSTANCE Receipts WITH
    Tasks <- OneTask, Hashes <- OneHash, Required <- {"a", "b"}, Validators <- {"v", "w"}

\* What decides the state of an attempt and of a task.
ChainAlphabet ==
    {Receipt!AttemptCreated("t", "h", 1), Receipt!AttemptCreated("t", "h", 2),
     Receipt!FenceGeneration(1), Receipt!FenceGeneration(2),
     Receipt!Transition("created", "admitted", "advance", 0),
     Receipt!Transition("admitted", "preparing", "advance", 0),
     Receipt!Transition("created", "classifying", "abort", 1),
     Receipt!Selection("t", 1, TRUE), Receipt!Selection("t", 0, FALSE)}

\* What decides a classification: two artifacts, two validators.
Records(x, y) == ("a" :> x) @@ ("b" :> y)

EvidenceAlphabet ==
    {Receipt!AbortCause("cancelled"), Receipt!AbortCause("admission_denied"),
     Receipt!Budget("step", "exceeded"), Receipt!Budget("reserve", "reserved"),
     Receipt!Budget("run", "exceeded"), Receipt!Quarantine("a", "v"),
     Receipt!Commit(1, Records("verified", "verified")),
     Receipt!Commit(1, Records("missing", "verified")), Receipt!Validation("a", "v", "failed")}
    \union {Receipt!Validation(n, v, "passed") : n \in {"a", "b"}, v \in {"v", "w"}}

Chains == INSTANCE ReceiptLoops WITH
    Tasks <- OneTask, Hashes <- OneHash, Required <- {"a"}, Validators <- {"v"},
    Pool <- {1, 2}, Alphabet <- ChainAlphabet, MaxLength <- 4

Verdicts == INSTANCE ReceiptLoops WITH
    Tasks <- OneTask, Hashes <- OneHash, Required <- {"a", "b"}, Validators <- {"v", "w"},
    Pool <- {1}, Alphabet <- EvidenceAlphabet, MaxLength <- 5

Decoder == INSTANCE Utf8Decoder WITH
    Bytes <- {"a", "2", "3", "4", "E", "c", "C", "x"}, MaxInput <- 5, MaxChunk <- 3

Events == INSTANCE HandEvents WITH
    Steps <- {1, 2}, Times <- {0, 2}, Limit <- 1, MaxEvents <- 3, MaxDeliveries <- 4

Replayed == INSTANCE Replay WITH
    Tasks <- OneTask, Hashes <- OneHash, Required <- {1, 2},
    Validators <- {"artifact-wellformed", "secret-scan"},
    Limit <- 4, MaxAttempts <- 2, MaxSpoiled <- 1

Init ==
    \/ part \in {"chains", "verdicts"} /\ Chains!Init /\ NoDecoder /\ NoEvents /\ NoReplay
    \/ part = "decoder" /\ Decoder!Init /\ NoLoops /\ NoEvents /\ NoReplay
    \/ part = "events" /\ Events!Init /\ NoLoops /\ NoDecoder /\ NoReplay
    \/ part = "replay" /\ Replayed!Init /\ NoLoops /\ NoDecoder /\ NoEvents

Next ==
    /\ UNCHANGED part
    /\ \/ part = "chains" /\ Chains!Next /\ UNCHANGED <<decoder, events, replay>>
       \/ part = "verdicts" /\ Verdicts!Next /\ UNCHANGED <<decoder, events, replay>>
       \/ part = "decoder" /\ Decoder!Next /\ UNCHANGED <<loops, events, replay>>
       \/ part = "events" /\ Events!Next /\ UNCHANGED <<loops, decoder, replay>>
       \/ part = "replay" /\ Replayed!Next /\ UNCHANGED <<loops, decoder, events>>

Spec == Init /\ [][Next]_<<part, loops, decoder, events, replay>>

-----------------------------------------------------------------------------
\* Every pass over the log finds what the chain of receipts says: the state and
\* the fence of an attempt (and the same error where it does not link up), the
\* largest generation on record, so that a retry's key is fresh, the last
\* selection of a task, and of evidence in any order the documented precedence.
PassesAgree ==
    /\ part = "chains" => /\ Chains!StatePassesAgree /\ Chains!RetryKeyIsFresh
                          /\ Chains!SelectionPassAgrees
    /\ part = "verdicts" => Verdicts!ClassifyPassAgrees

\* The text of a stream does not depend on how it was cut into chunks
\* (capture.rs, invariant 30).
ChunkingIrrelevant == part = "decoder" => Decoder!ChunkingIrrelevant

\* Repetition and order of delivery do not change what is reported of a run; a
\* number missing in the end was reported when it was skipped, and events that
\* contradict each other, and no others, are noticed whichever came first.
DeliveryJudged ==
    part = "events" =>
        Events!DeliveryIrrelevant /\ Events!GapsSurfaced /\ Events!ConflictExact

\* The step charged is the first one seen to overrun, never an innocent one
\* (invariant 10).
BlameEarned == part = "events" => Events!BlameEarned

\* An attempt nobody cancelled ends as its fixture's row of the failure matrix
\* says, under contracts of two artifacts; two deterministic hands commit the
\* same digests in any generation; and a known secret in a staged artifact
\* withholds the attempt, whatever else was wrong with it.
FailureMatrix ==
    part = "replay" =>
        Replayed!FailureMatrix /\ Replayed!DigestsAgree /\ Replayed!LeakWithheld

\* Replay speaks where something is wrong, and not where nothing is: a spoiled
\* object is found by the replay of every attempt that read it back, one whose
\* claim did not match included; timed out, leaking, partial or cancelled under
\* way, an attempt judged on its pack's own output replays without a difference.
ReplayExact ==
    part = "replay" => Replayed!SpoilCaught /\ Replayed!FaithfulReplay

=============================================================================
