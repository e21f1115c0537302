----------------------------- MODULE MCLifecycle -----------------------------
(***************************************************************************)
(* TLC instances of Lifecycle: the life of one attempt, and the requests   *)
(* for several.  A behaviour is one of one part.                           *)
(***************************************************************************)
EXTENDS Lifecycle, TLC

CONSTANTS t1, t2, h1, h2, a1, v1

VARIABLE part

\* Bounds.  Ten receipts take one attempt through recovery into terminal on an
\* exception, or on to a second generation and its commit; in eight, three
\* attempts are admitted and one tries to end on what another has on record.
\* Besides what admits and moves them, three and two receipts: an abort, a
\* commit and a verdict in any order.
MaxReceipts == 10
MaxRequests == 8

MCCommitRecords == [Required -> {"verified"}]

MCEvidence == {Validation(a1, v1, "passed"), Budget("step", "exceeded"),
               AbortCause("admission_denied"), Exception}

\* One task, one semantic hash, one way to abort before anything happened.
One == INSTANCE Lifecycle WITH
    Tasks <- {t1}, Hashes <- {h1}, AbortKinds <- {"cancelled"}

\* Several attempts, none of which gets as far as a commit.
Several == INSTANCE Lifecycle WITH CommitRecords <- {}, Evidence <- {}

PartsInit == part \in {"one", "several"} /\ Init

PartsNext ==
    /\ UNCHANGED part
    /\ \/ part = "one" /\ Len(log) < MaxReceipts /\ One!Next
       \/ part = "several" /\ Len(log) < MaxRequests /\ Several!Next

PartsSpec == PartsInit /\ [][PartsNext]_<<part, vars>>

-----------------------------------------------------------------------------
\* Nothing but equality is asked of a task or of a hash.
Interchangeable == Permutations(Tasks) \cup Permutations(Hashes)

\* Receipts beyond those that admit an attempt and move it.
Beside(l) ==
    {i \in DOMAIN l :
        \/ l[i].body.kind \notin {"attempt_created", "fence_generation", "transition"}
        \/ l[i].body.kind = "fence_generation" /\ l[i].body.generation > 1}

Bounded ==
    \/ part = "one" /\ Cardinality(Beside(log)) <= 3 /\ Cardinality(Attempts) <= 1
    \/ part = "several" /\ Cardinality(Beside(log)) <= 2 /\ Cardinality(Attempts) <= 3
=============================================================================
