------------------------------- MODULE Replay -------------------------------
(***************************************************************************)
(* Attempts of one task under one frozen pack, run by fixture hands, and   *)
(* `rein replay attempt --strict' over each of them (replay.rs).           *)
(***************************************************************************)
EXTENDS Fixtures

CONSTANTS MaxAttempts, MaxSpoiled   \* bounds: attempts; objects tampered with

VARIABLES
    packHand,   \* the hand selector in the stored pack
    atts,       \* per attempt: [hand, bodies, readback, outcome]
    spoiled     \* bytes whose object in the CAS no longer hashes to its name

vars == <<pinned, packHand, atts, spoiled>>

NoHand == "none"

\* The digests the commit recorded as read back, whatever its verdict.
Readback(out) == IF Heard(out).lost THEN Nothing ELSE out.staged

\* The tail of the pipeline: a staged artifact whose object is spoiled fails
\* the read-back and the command ends there; a lost run waits in recovery.
Ran(hand, cancelled, before, fence, generation) ==
    LET out == Run(hand, generation)
        all == before \o Evidence(out, cancelled, fence)
        broken == ~Heard(out).lost /\ \E n \in Required : out.staged[n] \in spoiled
    IN  IF broken
        THEN [hand |-> hand, bodies |-> before \o <<Capture(fence)>>,
              readback |-> Nothing, outcome |-> "error"]
        ELSE IF Heard(out).lost
        THEN [hand |-> hand, bodies |-> all, readback |-> Nothing, outcome |-> "lost"]
        ELSE [hand |-> hand, bodies |-> Append(all, Terminal(Verdict(all))),
              readback |-> Readback(out), outcome |-> Verdict(all)]

-----------------------------------------------------------------------------
\* Plain text; JSON in a .json file; JSON under another name; more bytes asked
\* for than a fixture writes.
Declarations ==
    LET d(suffixed, json, demanding) ==
            [suffixed |-> suffixed, json |-> json, demanding |-> demanding]
    IN  {d(FALSE, FALSE, FALSE), d(TRUE, TRUE, FALSE), d(FALSE, TRUE, FALSE), d(FALSE, FALSE, TRUE)}

Plain == [suffixed |-> FALSE, json |-> FALSE, demanding |-> FALSE]

Init ==
    /\ contract \in [Required -> Declarations]
    \* a bound: all but one are plain, for the fixtures treat each on its own
    /\ \E n \in Required : \A m \in Required \ {n} : contract[m] = Plain
    /\ registered \in BOOLEAN
    /\ packHand = NoHand /\ atts = <<>> /\ spoiled = {}

\* The first run stores the pack with its hand; a retry rebinds the hand in
\* memory only, for put_pack keeps the pack that is there.
Attempt(hand, cancelled) ==
    /\ Len(atts) < MaxAttempts
    /\ packHand' = IF packHand = NoHand THEN hand ELSE packHand
    /\ atts' = Append(atts, Ran(hand, cancelled, <<>>, 1, Len(atts) + 1))
    /\ UNCHANGED <<pinned, spoiled>>

\* Cancelled before the run: no hand, no commit.
AttemptCancelled(hand) ==
    /\ Len(atts) < MaxAttempts
    /\ packHand' = IF packHand = NoHand THEN hand ELSE packHand
    /\ atts' = Append(atts, [hand |-> hand, readback |-> Nothing, outcome |-> "cancelled",
                   bodies |-> <<AbortCause("cancelled"), Terminal("cancelled")>>])
    /\ UNCHANGED <<pinned, spoiled>>

Resume(k, hand) ==
    /\ atts[k].outcome = "lost" /\ Len(atts[k].bodies) < 4
    /\ atts' = [atts EXCEPT ![k] = Ran(hand, FALSE, atts[k].bodies, 2, k)]
    /\ UNCHANGED <<pinned, packHand, spoiled>>

CloseUnknown(k) ==
    /\ atts[k].outcome = "lost"
    /\ atts' = [atts EXCEPT ![k].outcome = "unknown",
                            ![k].bodies = Append(@, Terminal("unknown"))]
    /\ UNCHANGED <<pinned, packHand, spoiled>>

Spoil(bytes) ==
    /\ Cardinality(spoiled) < MaxSpoiled
    /\ spoiled' = spoiled \union {bytes}
    /\ UNCHANGED <<pinned, packHand, atts>>

Next ==
    \/ \E hand \in Selectors, c \in BOOLEAN : Attempt(hand, c)
    \/ \E hand \in Selectors : AttemptCancelled(hand)
    \/ \E k \in DOMAIN atts : CloseUnknown(k) \/ \E hand \in Selectors : Resume(k, hand)
    \/ \E k \in DOMAIN atts, n \in Required :
          atts[k].readback[n] # Absent /\ Spoil(atts[k].readback[n])

Spec == Init /\ [][Next]_vars

-----------------------------------------------------------------------------
(* replay_attempt: three legs. *)

\* Mutant of Integrity: only what verified is read again.
IntegrityOfVerified(k) ==
    {n \in Required : /\ atts[k].readback[n] \in spoiled
                      /\ CommitVerdict(AsLog(atts[k].bodies), 1, n) = "verified"}

\* Every digest a commit read back is read from the CAS and hashed.
Integrity(k) == {n \in Required : atts[k].readback[n] \in spoiled}

\* The hand named in the stored pack runs again; its files are compared with
\* what was read back, a file on one side only being a difference.
Output(k) ==
    LET again == Run(packHand, k).staged
    IN  {n \in Required : atts[k].readback[n] # again[n]}

\* Classification again, over the recorded receipts; with too little evidence
\* a recorded outcome is taken as explicit, and none is a difference.
Reclassified(k) ==
    LET again == Verdict(atts[k].bodies)
        original == atts[k].outcome \notin {"lost", "error"}
    IN  IF again = "insufficient"
        THEN IF original THEN {} ELSE {"unexplained"}
        ELSE IF original /\ again # atts[k].outcome THEN {"outcome"} ELSE {}

Matches(k) == Integrity(k) = {} /\ Output(k) = {} /\ Reclassified(k) = {}

-----------------------------------------------------------------------------
(* Properties. *)

Deterministic == {"deterministic-a", "deterministic-b", "duplicate-callback", "cjk-splitter"}

Has(k, kind) == \E i \in DOMAIN atts[k].bodies : atts[k].bodies[i].kind = kind

Honest == \A n \in Required : contract[n].suffixed = contract[n].json /\ ~contract[n].demanding

\* The failure matrix: under a contract of several artifacts the fixtures can
\* honour, an attempt nobody cancelled ends as its fixture's row says.
FailureMatrix ==
    \A k \in DOMAIN atts :
        LET h == atts[k].hand
            o == atts[k].outcome
        IN  /\ Honest /\ registered /\ o # "error" /\ Has(k, "capture") /\ ~Has(k, "abort_cause")
            => CASE h \in Deterministic       -> o = "success"
                 [] h \in {"exit0-empty", "hash-mismatch"} -> o = "artifact_invalid"
                 [] h = "timeout"                  -> o = "timed_out"
                 [] h = "secret-leak"              -> o = "failure"
                 [] h = "partial-output"           -> o = "partial_success"
                 [] h = "unknown-after-disconnect" -> o \in {"lost", "unknown"}

\* A known secret in a staged artifact withholds the attempt, whatever else
\* was wrong with it, unless it was cancelled: never success, nor partly so.
LeakWithheld ==
    \A k \in DOMAIN atts :
        registered /\ (\E n \in Required : atts[k].readback[n] = Secret) =>
            atts[k].outcome \in {"failure", "cancelled"}

\* The same pack through any two deterministic hands, in any generation,
\* commits the same digests.
DigestsAgree ==
    \A j, k \in DOMAIN atts :
        {atts[j].hand, atts[k].hand} \subseteq Deterministic
        /\ Nothing \notin {atts[j].readback, atts[k].readback}
        => atts[j].readback = atts[k].readback

\* A spoiled object is found by the replay of every attempt that read it
\* back, one whose claim did not match included.
SpoilCaught ==
    \A k \in DOMAIN atts :
        (\E n \in Required : atts[k].readback[n] \in spoiled) => ~Matches(k) /\ Integrity(k) # {}

\* Where replay should be silent it is: an attempt judged on what the pack's
\* own hand (or one with the same output) staged, or closed by hand with
\* nothing staged, replays without a difference, timed out, leaking, partial
\* or cancelled under way though it be.  (Not one both cancelled and lost: see
\* ClosedReplays.)
FaithfulReplay ==
    \A k \in DOMAIN atts :
        /\ spoiled = {} /\ Run(atts[k].hand, k).staged = Run(packHand, k).staged
        /\ atts[k].outcome \notin {"lost", "error"}
        /\ ~(atts[k].outcome = "unknown" /\ Has(k, "abort_cause"))
        /\ Has(k, "capture")
        => Matches(k)

-----------------------------------------------------------------------------
(* What the documentation says, and the code does not keep. *)

\* README: everything replays; `replay attempt --strict' proves that the
\* digests agree.  A success, with nothing spoiled, should match.
SuccessReplays ==
    \A k \in DOMAIN atts : spoiled = {} /\ atts[k].outcome = "success" => Matches(k)

\* replay.rs: attempts closed through recovery classify only via their explicit
\* terminal receipt; nothing to re-derive.
ClosedReplays ==
    \A k \in DOMAIN atts : atts[k].outcome = "unknown" => Reclassified(k) = {}

=============================================================================
