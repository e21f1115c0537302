------------------------------ MODULE Evidence ------------------------------
(***************************************************************************)
(* EvidenceBundle (evidence.rs): processes that bundle one attempt while   *)
(* it goes on, all through one staging directory; tampering with what they *)
(* wrote; and verify_bundle.  A file's content is the version of the       *)
(* ledger it was written from, or 0 where that does not matter; Tampered   *)
(* is bytes nobody wrote, which do not parse where they should.            *)
(***************************************************************************)
EXTENDS Naturals, FiniteSets, Functions

CONSTANTS
    Bundlers,
    Inputs,        \* pinned inputs of the pack
    LastVersion,   \* bound: versions of the attempt's ledger, from 1 on
    Runs,          \* version -> runs with events by then
    Committed      \* version -> artifacts with a verified commit receipt by then

\* A ledger only grows, and artifacts and inputs are files in directories of
\* their own.
ASSUME History ==
    /\ LastVersion \in Nat \ {0}
    /\ \A v, w \in 1..LastVersion : v <= w => /\ Runs[v] \subseteq Runs[w]
                                           /\ Committed[v] \subseteq Committed[w]
    /\ {"receipts", "events", "pack", "manifest", "lock"}
          \cap (Committed[LastVersion] \union Inputs) = {}

Tampered == LastVersion + 1

VARIABLES
    version,    \* of the attempt's ledger in the store
    world,      \* [spoiled: objects that no longer match their digest,
                \*  gapped: runs whose events miss a number, locked: BOOLEAN]
    dir,        \* the staging directory: [there, files, index]
    at,         \* per process: [step, seen, index, alone, half, out]
    tampered    \* per process: what was done to its bundle

vars == <<version, world, dir, at, tampered>>

Missing == <<>>     \* no files.json
NoBundle == [files |-> <<>>, index |-> Missing]
Gone == [there |-> FALSE, files |-> <<>>, index |-> Missing]

Init ==
    /\ version = 1
    /\ world \in [spoiled : SUBSET (Committed[LastVersion] \union Inputs),
                  gapped : SUBSET Runs[LastVersion], locked : BOOLEAN]
    /\ dir = Gone
    /\ at = [p \in Bundlers |-> [step |-> "load", seen |-> 0, index |-> <<>>,
                                 alone |-> TRUE, half |-> NoBundle, out |-> NoBundle]]
    /\ tampered = [p \in Bundlers |-> "nothing"]

Grow ==
    /\ version < LastVersion
    /\ version' = version + 1
    /\ UNCHANGED <<world, dir, at, tampered>>

-----------------------------------------------------------------------------
(* bundle_attempt. *)

Inside(p) == at[p].step \notin {"load", "done", "failed"}

\* A step of p, after which no other process inside counts as alone.
Moves(p, r) ==
    at' = [q \in Bundlers |->
             IF q = p THEN [r EXCEPT !.alone = @ /\ \A o \in Bundlers \ {p} : ~Inside(o)]
             ELSE IF Inside(q) THEN [at[q] EXCEPT !.alone = FALSE] ELSE at[q]]

Load(p) ==
    /\ at[p].step = "load"
    /\ Moves(p, [at[p] EXCEPT !.step = "stage", !.seen = version])
    /\ UNCHANGED <<version, world, dir, tampered>>

Stage(p) ==
    /\ at[p].step = "stage"
    /\ dir' = [Gone EXCEPT !.there = TRUE]
    /\ Moves(p, [at[p] EXCEPT !.step = "receipts"])
    /\ UNCHANGED <<version, world, tampered>>

\* The steps of the assembly, each with the one after it.
Following == [receipts |-> "events", events |-> "pack", pack |-> "artifacts",
              artifacts |-> "inputs", inputs |-> "manifest", manifest |-> "index"]

\* What one step of the assembly writes: [file -> content].
Writes(p) ==
    CASE at[p].step = "receipts"  -> [f \in {"receipts"} |-> at[p].seen]
      [] at[p].step = "events"    -> [f \in {"events"} |-> version]
      [] at[p].step = "pack"      -> [f \in {"pack"} |-> 0]
      [] at[p].step = "artifacts" -> [f \in Committed[at[p].seen] |-> 0]
      [] at[p].step = "inputs"    ->
            [f \in (Inputs \ world.spoiled) \union (IF world.locked THEN {"lock"} ELSE {}) |-> 0]
      [] at[p].step = "manifest"  -> [f \in {"manifest"} |-> at[p].seen]

Over(old, new) ==
    [f \in DOMAIN old \union DOMAIN new |-> IF f \in DOMAIN new THEN new[f] ELSE old[f]]

\* Fails when the directory is gone, or a committed object does not verify.
WriteFiles(p) ==
    /\ at[p].step \in DOMAIN Following
    /\ LET files == Writes(p)
           fails == \/ DOMAIN files # {} /\ ~dir.there
                    \/ at[p].step = "artifacts" /\ DOMAIN files \cap world.spoiled # {}
       IN  /\ Moves(p, IF fails THEN [at[p] EXCEPT !.step = "failed"]
                       ELSE [at[p] EXCEPT !.step = Following[@], !.index = Over(@, files)])
           /\ dir' = IF fails THEN dir ELSE [dir EXCEPT !.files = Over(@, files)]
    /\ UNCHANGED <<version, world, tampered>>

WriteIndex(p) ==
    /\ at[p].step = "index"
    /\ Moves(p, [at[p] EXCEPT !.step = IF dir.there THEN "tar" ELSE "failed"])
    /\ dir' = IF dir.there THEN [dir EXCEPT !.index = at[p].index] ELSE dir
    /\ UNCHANGED <<version, world, tampered>>

\* The walk takes some entries now and the others later, in any order.
Tar(p) ==
    /\ at[p].step = "tar"
    /\ \E now \in SUBSET {"receipts", "manifest"}, index \in BOOLEAN :
          Moves(p, IF dir.there
                   THEN [at[p] EXCEPT !.step = "tar_on",
                          !.half = [files |-> Restrict(dir.files, now \cap DOMAIN dir.files),
                                    index |-> IF index THEN dir.index ELSE Missing]]
                   ELSE [at[p] EXCEPT !.step = "failed"])
    /\ UNCHANGED <<version, world, dir, tampered>>

TarOn(p) ==
    /\ at[p].step = "tar_on"
    /\ Moves(p, IF dir.there
                THEN [at[p] EXCEPT !.step = "clean",
                       !.out = [files |-> Over(dir.files, at[p].half.files),
                                index |-> IF at[p].half.index = Missing THEN dir.index
                                          ELSE at[p].half.index],
                       !.half = NoBundle, !.index = <<>>]
                ELSE [at[p] EXCEPT !.step = "failed"])
    /\ UNCHANGED <<version, world, dir, tampered>>

Clean(p) ==
    /\ at[p].step = "clean"
    /\ dir' = Gone
    /\ Moves(p, [at[p] EXCEPT !.step = "done"])
    /\ UNCHANGED <<version, world, tampered>>

-----------------------------------------------------------------------------
(* What may befall a finished bundle, once. *)

Ready(p) ==
    /\ at[p].step = "done" /\ tampered[p] = "nothing" /\ at[p].out.index # Missing
    /\ \A q \in Bundlers : at[q].step \in {"load", "done", "failed"}

Becomes(p, how, bundle) ==
    /\ tampered' = [tampered EXCEPT ![p] = how]
    /\ at' = [at EXCEPT ![p].out = bundle]
    /\ UNCHANGED <<version, world, dir>>

Without(fn, f) == Restrict(fn, DOMAIN fn \ {f})

Flip(p) ==
    /\ Ready(p)
    /\ \E f \in DOMAIN at[p].out.files \cap DOMAIN at[p].out.index :
          Becomes(p, "flipped", [at[p].out EXCEPT !.files[f] = Tampered])

FlipEntry(p) ==
    /\ Ready(p)
    /\ \E f \in DOMAIN at[p].out.index :
          Becomes(p, "flipped", [at[p].out EXCEPT !.index[f] = Tampered])

Drop(p) ==
    /\ Ready(p)
    /\ \E f \in DOMAIN at[p].out.index :
          Becomes(p, "flipped", [at[p].out EXCEPT !.files = Without(@, f)])

\* A file taken out together with its entry.
Unlist(p) ==
    /\ Ready(p)
    /\ \E f \in DOMAIN at[p].out.index :
          Becomes(p, "paired", [files |-> Without(at[p].out.files, f),
                                index |-> Without(at[p].out.index, f)])

\* A file rewritten together with its entry: to other bytes of the same form (a
\* log cut back, another artifact, a pack sealed anew) or to any bytes.
Rewrite(p) ==
    /\ Ready(p)
    /\ \E f \in DOMAIN at[p].out.files \cap DOMAIN at[p].out.index,
          new \in 1..Tampered :
          Becomes(p, "paired", [files |-> [at[p].out.files EXCEPT ![f] = new],
                                index |-> [at[p].out.index EXCEPT ![f] = new]])

Next ==
    \/ Grow
    \/ \E p \in Bundlers :
          \/ Load(p) \/ Stage(p) \/ WriteFiles(p) \/ WriteIndex(p)
          \/ Tar(p) \/ TarOn(p) \/ Clean(p)
          \/ Flip(p) \/ FlipEntry(p) \/ Drop(p) \/ Unlist(p) \/ Rewrite(p)

Spec == Init /\ [][Next]_vars

-----------------------------------------------------------------------------
(* verify_bundle: the classes of problems found in bundle b. *)

Has(b, f) == f \in DOMAIN b.files

\* 1. An indexed file is absent or hashes to something else.
Unindexed(b) == \E f \in DOMAIN b.index : ~Has(b, f) \/ b.files[f] # b.index[f]

\* 2. The pack is absent or does not match its seal.
Unsealed(b) == ~Has(b, "pack") \/ b.files["pack"] = Tampered

\* Mutant of Uncarried: an object nobody listed is not missed.
UncarriedListed(b) == ~Has(b, "receipts") \/ b.files["receipts"] = Tampered

\* 3. No receipts, or some that do not replay, or a commit receipt whose verified
\* object is not listed: its name is looked up, its bytes are not looked at.
Uncarried(b) ==
    \/ ~Has(b, "receipts")
    \/ b.files["receipts"] = Tampered
    \/ ~(Committed[b.files["receipts"]] \subseteq DOMAIN b.index)

\* Mutant of Gapped: one event ledger for all runs, so two runs conflict.
GappedTogether(b) ==
    Has(b, "events") /\ (b.files["events"] = Tampered \/ Runs[b.files["events"]] # {1})

\* 4. Events that do not parse or, per run, a sequence with a gap; no events at
\* all are no problem.
Gapped(b) ==
    /\ Has(b, "events")
    /\ b.files["events"] = Tampered \/ Runs[b.files["events"]] \cap world.gapped # {}

Green(b) ==
    /\ b.index # Missing
    /\ ~Unindexed(b) /\ ~Unsealed(b) /\ ~Uncarried(b) /\ ~Gapped(b)

-----------------------------------------------------------------------------
(* Properties. *)

Finished(p) == at[p].step \in {"clean", "done"}

\* However many processes share the staging directory and whatever one of them
\* picked up of another's files: a bundle that verifies holds receipts and
\* manifest of one ledger, its committed artifacts, and the events of its runs.
\* Of bundles in which a file and its entry were changed alike nothing is said.
GreenIsWhole ==
    \A p \in Bundlers :
        Finished(p) /\ tampered[p] # "paired" /\ Green(at[p].out) =>
            LET f == at[p].out.files
            IN  /\ {"receipts", "events", "manifest", "pack"} \subseteq DOMAIN f
                /\ f["manifest"] = f["receipts"]
                /\ Committed[f["receipts"]] \subseteq DOMAIN f
                /\ Runs[f["receipts"]] \subseteq Runs[f["events"]]

\* Whatever was changed, a file and its entry alike included: a bundle that
\* verifies has a file by the name of every artifact its receipts say committed.
CommittedCarried ==
    \A p \in Bundlers :
        Finished(p) /\ Green(at[p].out) =>
            Committed[at[p].out.files["receipts"]] \subseteq DOMAIN at[p].out.files

\* One listed file changed or lost with its entry left as it was, or one entry
\* changed with its file left as it was, and verification is red.
TamperReddens ==
    \A p \in Bundlers : tampered[p] = "flipped" => ~Green(at[p].out)

\* What a green verification is worth: unless a file and its entry were changed
\* alike, the bundle is of one ledger and is as it was written; and in any case
\* no artifact its receipts name is missing from it.
GreenIsSound == GreenIsWhole /\ CommittedCarried /\ TamperReddens

\* No false alarm: left to itself the command makes a bundle that verifies,
\* while the attempt goes on, over several runs and with spoiled inputs.
AloneVerifies ==
    \A p \in Bundlers :
        Finished(p) /\ at[p].alone /\ tampered[p] = "nothing" /\ world.gapped = {} =>
            Green(at[p].out)

-----------------------------------------------------------------------------
(* What the documentation says, and the code does not keep. *)

\* evidence.rs: a gap is a finding about the run, not bundle corruption.
GapIsNotCorruption ==
    \A p \in Bundlers :
        Finished(p) /\ at[p].alone /\ tampered[p] = "nothing" => Green(at[p].out)

\* evidence.rs: the bundle holds artifact and input bytes.
InputsCarried ==
    \A p \in Bundlers :
        Finished(p) /\ tampered[p] # "paired" /\ Green(at[p].out) =>
            Inputs \subseteq DOMAIN at[p].out.files

\* verify_bundle: committed artifact bytes are present and digest-true.
CommittedTrue ==
    \A p \in Bundlers :
        Finished(p) /\ Green(at[p].out) =>
            \A a \in Committed[at[p].out.files["receipts"]] :
                a \in DOMAIN at[p].out.files /\ at[p].out.files[a] = 0

\* verify_bundle: event sequences are gap-checked.
EventsChecked ==
    \A p \in Bundlers :
        Finished(p) /\ Green(at[p].out) => "events" \in DOMAIN at[p].out.files

=============================================================================
