---------------------------- MODULE Evidence_proofs ----------------------------
(***************************************************************************)
(* Bundles, for any number of processes on one staging directory, any      *)
(* history of the attempt meanwhile, any inputs, and any one change to a   *)
(* finished bundle: what verifies is whole, what was changed in a file or  *)
(* its entry alone does not verify, what its receipts name is there even   *)
(* if both were changed, and a process left to itself makes a bundle that  *)
(* verifies.                                                               *)
(***************************************************************************)
EXTENDS Evidence, TLAPS

-----------------------------------------------------------------------------
(* Files and indices. *)

Versions == 1..LastVersion
Fixed == {"receipts", "events", "pack", "manifest"}
FileNames == Fixed \union {"lock"} \union Committed[LastVersion] \union Inputs

Files(contents) == UNION {[S -> contents] : S \in SUBSET FileNames}
Written == Files(0..LastVersion)
Found == Files(0..Tampered)

Bundles == [files : Written, index : Written]
Bundling == [step : {"load", "stage", "receipts", "events", "pack", "artifacts", "inputs",
                     "manifest", "index", "tar", "tar_on", "clean", "done", "failed"},
             seen : 0..LastVersion, index : Written, alone : BOOLEAN,
             half : Bundles, out : [files : Found, index : Found]]

\* An index that one process wrote to its end: receipts and manifest of one
\* version, events of that or a later one, the artifacts committed by then.
Complete(index) ==
    /\ Fixed \subseteq DOMAIN index
    /\ index["pack"] = 0
    /\ index["receipts"] \in Versions /\ index["events"] \in Versions
    /\ index["manifest"] = index["receipts"]
    /\ index["receipts"] <= index["events"]
    /\ Committed[index["receipts"]] \subseteq DOMAIN index

LEMMA FilesAre ==
    ASSUME NEW contents, NEW f
    PROVE  f \in Files(contents) <=> /\ f = [n \in DOMAIN f |-> f[n]]
                                     /\ DOMAIN f \subseteq FileNames
                                     /\ \A n \in DOMAIN f : f[n] \in contents
BY DEF Files

LEMMA WrittenAre ==
    ASSUME NEW f
    PROVE  f \in Written <=> /\ f = [n \in DOMAIN f |-> f[n]] /\ DOMAIN f \subseteq FileNames
                             /\ \A n \in DOMAIN f : f[n] \in 0..LastVersion
<1> DEFINE contents == 0..LastVersion
<1> HIDE DEF contents
<1>1. f \in Files(contents) <=> /\ f = [n \in DOMAIN f |-> f[n]] /\ DOMAIN f \subseteq FileNames
                                /\ \A n \in DOMAIN f : f[n] \in contents
  BY FilesAre
<1> QED BY <1>1 DEF Written, contents

LEMMA FoundAre ==
    ASSUME NEW f
    PROVE  f \in Found <=> /\ f = [n \in DOMAIN f |-> f[n]] /\ DOMAIN f \subseteq FileNames
                           /\ \A n \in DOMAIN f : f[n] \in 0..Tampered
<1> DEFINE contents == 0..Tampered
<1> HIDE DEF contents
<1>1. f \in Files(contents) <=> /\ f = [n \in DOMAIN f |-> f[n]] /\ DOMAIN f \subseteq FileNames
                                /\ \A n \in DOMAIN f : f[n] \in contents
  BY FilesAre
<1> QED BY <1>1 DEF Found, contents

\* What is written is not yet tampered with.
LEMMA WrittenFound ==
    /\ Written \subseteq Found
    /\ \A f \in Written : \A n \in DOMAIN f : f[n] # Tampered
<1>1. /\ 0..LastVersion \subseteq 0..Tampered /\ Tampered \notin 0..LastVersion
  BY History DEF Tampered
<1> QED BY <1>1, WrittenAre, FoundAre

LEMMA NoFiles == Missing \in Written /\ DOMAIN Missing = {}
<1>1. Missing = [n \in {} |-> 0] /\ DOMAIN Missing = {}
  BY DEF Missing
<1> QED BY <1>1, WrittenAre

\* What is laid over what.
LEMMA OverIs ==
    ASSUME NEW old \in Written, NEW new \in Written
    PROVE  /\ Over(old, new) \in Written
           /\ DOMAIN Over(old, new) = DOMAIN old \union DOMAIN new
           /\ \A n \in DOMAIN new : Over(old, new)[n] = new[n]
           /\ \A n \in DOMAIN old \ DOMAIN new : Over(old, new)[n] = old[n]
BY WrittenAre DEF Over

LEMMA RestrictIs ==
    ASSUME NEW f \in Written, NEW S \in SUBSET DOMAIN f
    PROVE  /\ Restrict(f, S) \in Written /\ DOMAIN Restrict(f, S) = S
           /\ \A n \in S : Restrict(f, S)[n] = f[n]
BY WrittenAre DEF Restrict

-----------------------------------------------------------------------------
(* The invariant. *)

\* The steps after each file of its index that verification asks for.
FromEvents == {"events", "pack", "artifacts", "inputs", "manifest", "index", "tar", "tar_on"}
FromPack == FromEvents \ {"events"}
FromArtifacts == FromPack \ {"pack"}
FromInputs == FromArtifacts \ {"artifacts"}
FromIndex == {"index", "tar", "tar_on"}

\* How far the index of a process r has come, at version v of the ledger.
Assembled(r, v) ==
    /\ r.step \notin {"load", "done", "failed"} => r.seen \in 1..v
    /\ r.step \in {"load", "stage", "receipts"} => r.index = Missing
    /\ r.step \in FromEvents => "receipts" \in DOMAIN r.index /\ r.index["receipts"] = r.seen
    /\ r.step \in FromPack => /\ "events" \in DOMAIN r.index
                              /\ r.index["events"] \in r.seen..LastVersion
    /\ r.step \in FromArtifacts => "pack" \in DOMAIN r.index /\ r.index["pack"] = 0
    /\ r.step \in FromInputs => Committed[r.seen] \subseteq DOMAIN r.index
    /\ r.step \in FromIndex => Complete(r.index)
    /\ r.half.index # Missing => Complete(r.half.index)

\* A bundle as it was written is of one version, and one in which a file or an
\* entry was changed alone shows it.
Bundled(r, how) ==
    /\ how # "nothing" => r.step = "done"
    /\ how = "nothing" => /\ r.out \in Bundles
                          /\ r.out.index # Missing => Complete(r.out.index)
    /\ how = "flipped" => Unindexed(r.out)

\* A process alone finds in the directory d what it put there.
Sees(r, d) ==
    /\ r.step \in {"receipts"} \union FromEvents => d.there /\ d.files = r.index
    /\ r.step \in {"tar", "tar_on"} => d.index = r.index
    /\ r.step = "tar_on" => /\ r.half.index \in {Missing, d.index}
                           /\ DOMAIN r.half.files \subseteq DOMAIN d.files
                           /\ \A n \in DOMAIN r.half.files : r.half.files[n] = d.files[n]

\* A process alone took all of it.
Took(r) ==
    r.step \in {"clean", "done"} => r.out.files = r.out.index /\ Complete(r.out.index)

Solo(p) == \A o \in Bundlers \ {p} : ~Inside(o)

Undisturbed(p) ==
    at[p].alone => /\ Inside(p) => Solo(p) /\ Sees(at[p], dir)
                   /\ tampered[p] = "nothing" => Took(at[p])

EvidenceInv ==
    /\ version \in Versions
    /\ dir \in [there : BOOLEAN, files : Written, index : Written]
    /\ dir.index # Missing => Complete(dir.index)
    /\ tampered \in [Bundlers -> {"nothing", "flipped", "paired"}]
    /\ at \in [Bundlers -> Bundling]
    /\ \A p \in Bundlers :
          /\ Assembled(at[p], version) /\ Bundled(at[p], tampered[p]) /\ Undisturbed(p)

-----------------------------------------------------------------------------
(* Steps of a process. *)

\* What a move of p is, field by field.
LEMMA MoveIs ==
    ASSUME at \in [Bundlers -> Bundling], NEW p \in Bundlers, NEW r \in Bundling, Moves(p, r)
    PROVE  /\ at' \in [Bundlers -> Bundling]
           /\ /\ at'[p].step = r.step /\ at'[p].seen = r.seen /\ at'[p].index = r.index
              /\ at'[p].half = r.half /\ at'[p].out = r.out
              /\ at'[p].alone => r.alone /\ Solo(p)
           /\ \A q \in Bundlers \ {p} :
                 /\ at'[q].step = at[q].step /\ at'[q].seen = at[q].seen
                 /\ at'[q].index = at[q].index /\ at'[q].half = at[q].half
                 /\ at'[q].out = at[q].out
                 /\ at'[q].alone => at[q].alone /\ ~Inside(q)
<1> DEFINE moved == [r EXCEPT !.alone = r.alone /\ \A o \in Bundlers \ {p} : ~Inside(o)]
           passed(q) == IF Inside(q) THEN [at[q] EXCEPT !.alone = FALSE] ELSE at[q]
<1>1. at' = [q \in Bundlers |-> IF q = p THEN moved ELSE passed(q)]
  BY DEF Moves
<1>2. /\ moved \in Bundling /\ moved.step = r.step /\ moved.seen = r.seen /\ moved.index = r.index
      /\ moved.half = r.half /\ moved.out = r.out
      /\ moved.alone => r.alone /\ Solo(p)
  BY DEF Bundling, Solo
<1>3. \A q \in Bundlers :
        /\ passed(q) \in Bundling /\ passed(q).step = at[q].step /\ passed(q).seen = at[q].seen
        /\ passed(q).index = at[q].index /\ passed(q).half = at[q].half
        /\ passed(q).out = at[q].out
        /\ passed(q).alone => at[q].alone /\ ~Inside(q)
  BY DEF Bundling
<1> HIDE DEF moved, passed
<1>4. at'[p] = moved /\ \A q \in Bundlers \ {p} : at'[q] = passed(q)
  BY <1>1
<1>5. at' \in [Bundlers -> Bundling]
  BY <1>1, <1>2, <1>3
<1> QED BY <1>2, <1>3, <1>4, <1>5

\* Facts of r are facts of whatever has the same fields, at a later version.
LEMMA SameFields ==
    ASSUME NEW r, NEW s, NEW v \in Nat, NEW w \in Nat, v <= w,
           s.step = r.step, s.seen = r.seen, s.index = r.index, s.half = r.half, s.out = r.out
    PROVE  /\ Assembled(r, v) => Assembled(s, w)
           /\ \A how : Bundled(r, how) => Bundled(s, how)
           /\ \A d : Sees(r, d) => Sees(s, d)
           /\ Took(r) => Took(s)
<1>1. Assembled(r, v) => Assembled(s, w)
  BY DEF Assembled
<1> QED BY <1>1 DEF Bundled, Sees, Took

\* A process that is at work has a bundle nobody has changed yet.
LEMMA AtWork ==
    ASSUME EvidenceInv, NEW p \in Bundlers, at[p].step # "done"
    PROVE  /\ tampered[p] = "nothing" /\ at[p].out \in Bundles
           /\ at[p].out.index # Missing => Complete(at[p].out.index)
BY DEF EvidenceInv, Bundled

\* A move of p to r keeps the invariant if r and the directory it leaves do.
LEMMA MoveKeeps ==
    ASSUME EvidenceInv, NEW p \in Bundlers, NEW r \in Bundling,
           Moves(p, r), at[p].step # "done", UNCHANGED <<version, tampered>>,
           dir' \in [there : BOOLEAN, files : Written, index : Written],
           dir'.index # Missing => Complete(dir'.index),
           Assembled(r, version), r.out \in Bundles,
           r.out.index # Missing => Complete(r.out.index),
           r.alone /\ Solo(p) => Sees(r, dir') /\ Took(r)
    PROVE  EvidenceInv'
<1>0. /\ version \in Nat /\ at \in [Bundlers -> Bundling]
      /\ \A q \in Bundlers : /\ Assembled(at[q], version) /\ Bundled(at[q], tampered[q])
                             /\ Undisturbed(q)
  BY History DEF EvidenceInv, Versions
<1>1. /\ at' \in [Bundlers -> Bundling]
      /\ /\ at'[p].step = r.step /\ at'[p].seen = r.seen /\ at'[p].index = r.index
         /\ at'[p].half = r.half /\ at'[p].out = r.out
         /\ at'[p].alone => r.alone /\ Solo(p)
      /\ \A q \in Bundlers \ {p} :
            /\ at'[q].step = at[q].step /\ at'[q].seen = at[q].seen
            /\ at'[q].index = at[q].index /\ at'[q].half = at[q].half
            /\ at'[q].out = at[q].out
            /\ at'[q].alone => at[q].alone /\ ~Inside(q)
  BY <1>0, MoveIs
\* p itself
<1>2. Assembled(at'[p], version) /\ Bundled(at'[p], tampered[p])
  <2>1. Bundled(r, tampered[p])
    BY AtWork DEF Bundled
  <2> QED BY <1>0, <1>1, <2>1, SameFields
<1>3. Undisturbed(p)'
  <2> SUFFICES ASSUME at'[p].alone
               PROVE  Solo(p)' /\ Sees(at'[p], dir') /\ Took(at'[p])
    BY DEF Undisturbed
  <2>1. Solo(p) /\ Sees(r, dir') /\ Took(r)
    BY <1>1
  <2>2. Solo(p)'
    BY <2>1, <1>1 DEF Solo, Inside
  <2> QED BY <2>1, <2>2, <1>0, <1>1, SameFields
\* the others
<1>4. ASSUME NEW q \in Bundlers \ {p}
      PROVE  Assembled(at'[q], version) /\ Bundled(at'[q], tampered[q])
  BY <1>0, <1>1, SameFields
<1>5. ASSUME NEW q \in Bundlers \ {p}
      PROVE  Undisturbed(q)'
  <2> SUFFICES ASSUME at'[q].alone
               PROVE  /\ ~Inside(q)'
                      /\ tampered[q] = "nothing" => Took(at'[q])
    BY DEF Undisturbed
  <2>1. at[q].alone /\ ~Inside(q)
    BY <1>1
  <2>2. ~Inside(q)'
    BY <2>1, <1>1 DEF Inside
  <2>3. tampered[q] = "nothing" => Took(at[q])
    BY <2>1, <1>0 DEF Undisturbed
  <2> QED BY <2>2, <2>3, <1>0, <1>1, SameFields
<1>6. \A q \in Bundlers : /\ Assembled(at'[q], version') /\ Bundled(at'[q], tampered'[q])
                           /\ Undisturbed(q)'
  BY <1>2, <1>3, <1>4, <1>5
<1> QED BY <1>1, <1>6 DEF EvidenceInv

\* What a process knows before its step.
LEMMA Knows ==
    ASSUME EvidenceInv, NEW p \in Bundlers
    PROVE  /\ at[p] \in Bundling /\ Assembled(at[p], version)
           /\ dir \in [there : BOOLEAN, files : Written, index : Written]
           /\ dir.index # Missing => Complete(dir.index)
           /\ at[p].alone /\ Inside(p) => Sees(at[p], dir)
           /\ version \in 1..LastVersion /\ LastVersion \in Nat
BY History DEF EvidenceInv, Undisturbed, Versions

LEMMA LoadKeeps ==
    ASSUME EvidenceInv, NEW p \in Bundlers, Load(p)
    PROVE  EvidenceInv'
<1> DEFINE r == [at[p] EXCEPT !.step = "stage", !.seen = version]
<1>0. /\ at[p].step = "load" /\ Moves(p, r) /\ UNCHANGED <<version, dir, tampered>>
  BY DEF Load
<1>1. /\ r \in Bundling /\ r.step = "stage" /\ r.seen = version
      /\ r.index = at[p].index /\ r.half = at[p].half /\ r.out = at[p].out
  <2>1. version \in 0..LastVersion /\ at[p] \in Bundling
    BY Knows
  <2> QED BY <2>1 DEF Bundling
<1> HIDE DEF r
<1>2. Assembled(r, version)
  BY <1>0, <1>1, Knows DEF Assembled, FromEvents, FromPack, FromArtifacts, FromInputs, FromIndex
<1>3. Sees(r, dir') /\ Took(r)
  BY <1>1 DEF Sees, Took, FromEvents
<1> QED BY <1>0, <1>1, <1>2, <1>3, Knows, AtWork, MoveKeeps

LEMMA StageKeeps ==
    ASSUME EvidenceInv, NEW p \in Bundlers, Stage(p)
    PROVE  EvidenceInv'
<1> DEFINE r == [at[p] EXCEPT !.step = "receipts"]
<1>0. /\ at[p].step = "stage" /\ Moves(p, r) /\ UNCHANGED <<version, tampered>>
      /\ dir' = [Gone EXCEPT !.there = TRUE]
  BY DEF Stage
<1>1. /\ r \in Bundling /\ r.step = "receipts" /\ r.seen = at[p].seen
      /\ r.index = at[p].index /\ r.half = at[p].half /\ r.out = at[p].out
  BY Knows DEF Bundling
<1> HIDE DEF r
<1>2. /\ Assembled(r, version) /\ r.index = Missing
  BY <1>0, <1>1, Knows DEF Assembled, FromEvents, FromPack, FromArtifacts, FromInputs, FromIndex
<1>3. dir'.there = TRUE /\ dir'.files = Missing /\ dir'.index = Missing
  BY <1>0 DEF Gone, Missing
<1>4. dir' \in [there : BOOLEAN, files : Written, index : Written]
  BY <1>0, NoFiles DEF Gone, Missing
<1>5. Sees(r, dir') /\ Took(r)
  BY <1>1, <1>2, <1>3 DEF Sees, Took, FromEvents
<1> QED BY <1>0, <1>1, <1>2, <1>3, <1>4, <1>5, AtWork, MoveKeeps

\* A process that fails.
LEMMA FailKeeps ==
    ASSUME EvidenceInv, NEW p \in Bundlers, at[p].step # "done",
           Moves(p, [at[p] EXCEPT !.step = "failed"]), UNCHANGED <<version, dir, tampered>>
    PROVE  EvidenceInv'
<1> DEFINE r == [at[p] EXCEPT !.step = "failed"]
<1>1. /\ r \in Bundling /\ r.step = "failed" /\ r.seen = at[p].seen
      /\ r.index = at[p].index /\ r.half = at[p].half /\ r.out = at[p].out
  BY Knows DEF Bundling
<1>0. Moves(p, r)
  OBVIOUS
<1> HIDE DEF r
<1>2. Assembled(r, version)
  BY <1>1, Knows DEF Assembled, FromEvents, FromPack, FromArtifacts, FromInputs, FromIndex
<1>3. Sees(r, dir') /\ Took(r)
  BY <1>1 DEF Sees, Took, FromEvents
<1> QED BY <1>0, <1>1, <1>2, <1>3, Knows, AtWork, MoveKeeps

\* What the steps of the assembly write.
LEMMA WritesAre ==
    ASSUME EvidenceInv, NEW p \in Bundlers, at[p].step \in DOMAIN Following
    PROVE  /\ Writes(p) \in Written
           /\ at[p].step = "receipts" => Writes(p) = [f \in {"receipts"} |-> at[p].seen]
           /\ at[p].step = "events" => Writes(p) = [f \in {"events"} |-> version]
           /\ at[p].step = "pack" => Writes(p) = [f \in {"pack"} |-> 0]
           /\ at[p].step = "artifacts" => DOMAIN Writes(p) = Committed[at[p].seen]
           /\ at[p].step = "inputs" => DOMAIN Writes(p) \subseteq Inputs \union {"lock"}
           /\ at[p].step = "manifest" => Writes(p) = [f \in {"manifest"} |-> at[p].seen]
<1>0. /\ at[p].step \in {"receipts", "events", "pack", "artifacts", "inputs", "manifest"}
      /\ at[p].seen \in 1..version /\ version \in 1..LastVersion /\ LastVersion \in Nat
  BY Knows DEF Following, Assembled
<1>1. /\ at[p].seen \in 0..LastVersion /\ version \in 0..LastVersion /\ 0 \in 0..LastVersion
      /\ Committed[at[p].seen] \subseteq Committed[LastVersion]
  BY <1>0, History
<1>2. CASE at[p].step = "receipts"
  <2>1. Writes(p) = [f \in {"receipts"} |-> at[p].seen]
    BY <1>2 DEF Writes
  <2> QED BY <1>1, <1>2, <2>1, WrittenAre DEF FileNames, Fixed
<1>3. CASE at[p].step = "events"
  <2>1. Writes(p) = [f \in {"events"} |-> version]
    BY <1>3 DEF Writes
  <2> QED BY <1>1, <1>3, <2>1, WrittenAre DEF FileNames, Fixed
<1>4. CASE at[p].step = "pack"
  <2>1. Writes(p) = [f \in {"pack"} |-> 0]
    BY <1>4 DEF Writes
  <2> QED BY <1>1, <1>4, <2>1, WrittenAre DEF FileNames, Fixed
<1>5. CASE at[p].step = "artifacts"
  <2>1. Writes(p) = [f \in Committed[at[p].seen] |-> 0]
    BY <1>5 DEF Writes
  <2> QED BY <1>1, <1>5, <2>1, WrittenAre DEF FileNames
<1>6. CASE at[p].step = "inputs"
  <2> DEFINE S == (Inputs \ world.spoiled) \union (IF world.locked THEN {"lock"} ELSE {})
  <2>1. Writes(p) = [f \in S |-> 0]
    BY <1>6 DEF Writes
  <2>2. S \subseteq Inputs \union {"lock"}
    OBVIOUS
  <2> HIDE DEF S
  <2> QED BY <1>1, <1>6, <2>1, <2>2, WrittenAre DEF FileNames
<1>7. CASE at[p].step = "manifest"
  <2>1. Writes(p) = [f \in {"manifest"} |-> at[p].seen]
    BY <1>7 DEF Writes
  <2> QED BY <1>1, <1>7, <2>1, WrittenAre DEF FileNames, Fixed
<1> QED BY <1>0, <1>2, <1>3, <1>4, <1>5, <1>6, <1>7

LEMMA WriteFilesKeeps ==
    ASSUME EvidenceInv, NEW p \in Bundlers, WriteFiles(p)
    PROVE  EvidenceInv'
<1> DEFINE files == Writes(p)
           r == [at[p] EXCEPT !.step = Following[@], !.index = Over(@, files)]
<1>0. at[p].step \in DOMAIN Following /\ UNCHANGED <<version, tampered>>
  BY DEF WriteFiles
<1>1. CASE Moves(p, [at[p] EXCEPT !.step = "failed"]) /\ dir' = dir
  BY <1>0, <1>1, FailKeeps DEF Following
<1>2. CASE /\ Moves(p, r) /\ dir' = [dir EXCEPT !.files = Over(@, files)]
           /\ DOMAIN files # {} => dir.there
  <2>0. /\ at[p].step \in {"receipts", "events", "pack", "artifacts", "inputs", "manifest"}
        /\ at[p] \in Bundling /\ Assembled(at[p], version) /\ at[p].index \in Written
        /\ dir \in [there : BOOLEAN, files : Written, index : Written]
        /\ files \in Written
    BY <1>0, Knows, WritesAre DEF Following, Bundling
  <2>1. /\ Following[at[p].step] \in {"events", "pack", "artifacts", "inputs", "manifest", "index"}
        /\ at[p].step = "receipts" <=> Following[at[p].step] = "events"
        /\ at[p].step = "events" <=> Following[at[p].step] = "pack"
        /\ at[p].step = "pack" <=> Following[at[p].step] = "artifacts"
        /\ at[p].step = "artifacts" <=> Following[at[p].step] = "inputs"
        /\ at[p].step = "inputs" <=> Following[at[p].step] = "manifest"
        /\ at[p].step = "manifest" <=> Following[at[p].step] = "index"
    BY <2>0 DEF Following
  <2> DEFINE step == Following[at[p].step]
             index == Over(at[p].index, files)
  <2>2. /\ index \in Written
        /\ DOMAIN index = DOMAIN at[p].index \union DOMAIN files
        /\ \A n \in DOMAIN files : index[n] = files[n]
        /\ \A n \in DOMAIN at[p].index \ DOMAIN files : index[n] = at[p].index[n]
    BY <2>0, OverIs
  <2>3. /\ r \in Bundling /\ r.step = step /\ r.index = index /\ r.seen = at[p].seen
        /\ r.half = at[p].half /\ r.out = at[p].out
    <3> HIDE DEF index
    <3>1. r = [at[p] EXCEPT !.step = step, !.index = index]
      BY <2>0 DEF index, Bundling
    <3> HIDE DEF r, step
    <3>2. step \in {"events", "pack", "artifacts", "inputs", "manifest", "index"}
      BY <2>1 DEF step
    <3> QED BY <2>0, <2>2, <3>1, <3>2 DEF Bundling
  <2>4. Assembled(r, version)
    <3>1. /\ at[p].seen \in 1..version /\ version \in 1..LastVersion /\ LastVersion \in Nat
          /\ Committed[at[p].seen] \subseteq Committed[LastVersion]
      BY <2>0, Knows, History DEF Assembled
    <3>2. /\ at[p].step = "receipts" => files = [f \in {"receipts"} |-> at[p].seen]
          /\ at[p].step = "events" => files = [f \in {"events"} |-> version]
          /\ at[p].step = "pack" => files = [f \in {"pack"} |-> 0]
          /\ at[p].step = "artifacts" => DOMAIN files = Committed[at[p].seen]
          /\ at[p].step = "inputs" => DOMAIN files \subseteq Inputs \union {"lock"}
          /\ at[p].step = "manifest" => files = [f \in {"manifest"} |-> at[p].seen]
      BY <1>0, WritesAre
    <3> HIDE DEF r, index, step, files
    <3>3. at[p].step = "receipts" => index["receipts"] = at[p].seen /\ "receipts" \in DOMAIN index
      BY <2>2, <3>2
    <3>4. at[p].step = "events" => index["events"] = version /\ "events" \in DOMAIN index
      BY <2>2, <3>2
    <3>5. at[p].step = "pack" => index["pack"] = 0 /\ "pack" \in DOMAIN index
      BY <2>2, <3>2
    <3>6. at[p].step = "artifacts" => Committed[at[p].seen] \subseteq DOMAIN index
      BY <2>2, <3>2
    <3>7. at[p].step = "manifest" => index["manifest"] = at[p].seen /\ "manifest" \in DOMAIN index
      BY <2>2, <3>2
    <3>8. ASSUME NEW n \in {"receipts", "events", "pack"}, n \in DOMAIN at[p].index, n # at[p].step
          PROVE  n \in DOMAIN index /\ index[n] = at[p].index[n]
      <4>1. n \notin DOMAIN files
        BY <2>0, <3>1, <3>2, <3>8, History
      <4> QED BY <2>2, <3>8, <4>1
    <3>9. step # "index" => Assembled(r, version)
      BY <2>0, <2>1, <2>2, <2>3, <3>1, <3>3, <3>4, <3>5, <3>6, <3>8
         DEF Assembled, FromEvents, FromPack, FromArtifacts, FromInputs, FromIndex, step
    <3>10. step = "index" => Assembled(r, version)
      BY <2>0, <2>1, <2>2, <2>3, <3>1, <3>7, <3>8
         DEF Assembled, Complete, Fixed, Versions, FromEvents, FromPack, FromArtifacts, FromInputs,
             FromIndex, step
    <3> QED BY <3>9, <3>10
  <2>5. dir'.files = Over(dir.files, files) /\ dir'.there = dir.there /\ dir'.index = dir.index
    BY <1>2, <2>0
  <2>6. dir' \in [there : BOOLEAN, files : Written, index : Written]
    BY <1>2, <2>0, OverIs
  <2>7. ASSUME r.alone, Solo(p) PROVE Sees(r, dir') /\ Took(r)
    <3>1. at[p].alone
      BY <2>0, <2>7 DEF Bundling
    <3>2. dir.there /\ dir.files = at[p].index
      BY <2>0, <3>1, Knows DEF Sees, Inside, FromEvents
    <3> QED BY <2>1, <2>3, <2>5, <3>2 DEF Sees, Took
  <2> HIDE DEF r
  <2> QED BY <1>0, <1>2, <2>0, <2>3, <2>4, <2>5, <2>6, <2>7, Knows, AtWork, MoveKeeps
<1> QED BY <1>1, <1>2 DEF WriteFiles

LEMMA WriteIndexKeeps ==
    ASSUME EvidenceInv, NEW p \in Bundlers, WriteIndex(p)
    PROVE  EvidenceInv'
<1> DEFINE r == [at[p] EXCEPT !.step = "tar"]
<1>0. at[p].step = "index" /\ UNCHANGED <<version, tampered>>
  BY DEF WriteIndex
<1>1. CASE ~dir.there
  BY <1>0, <1>1, FailKeeps DEF WriteIndex
<1>2. CASE dir.there
  <2>0. Moves(p, r) /\ dir' = [dir EXCEPT !.index = at[p].index]
    BY <1>2 DEF WriteIndex
  <2>1. /\ at[p] \in Bundling /\ Assembled(at[p], version) /\ Complete(at[p].index)
        /\ dir \in [there : BOOLEAN, files : Written, index : Written]
    BY <1>0, Knows DEF Assembled, FromIndex
  <2>2. /\ r \in Bundling /\ r.step = "tar" /\ r.seen = at[p].seen
        /\ r.index = at[p].index /\ r.half = at[p].half /\ r.out = at[p].out
    BY <2>1 DEF Bundling
  <2>3. /\ dir' \in [there : BOOLEAN, files : Written, index : Written]
        /\ dir'.there = dir.there /\ dir'.files = dir.files /\ dir'.index = at[p].index
    BY <2>0, <2>1 DEF Bundling
  <2>4. ASSUME r.alone, Solo(p) PROVE Sees(r, dir') /\ Took(r)
    <3>1. at[p].alone
      BY <2>1, <2>4 DEF Bundling
    <3>2. dir.there /\ dir.files = at[p].index
      BY <1>0, <3>1, Knows DEF Sees, Inside, FromEvents
    <3> QED BY <2>2, <2>3, <3>2 DEF Sees, Took
  <2> HIDE DEF r
  <2>5. Assembled(r, version)
    BY <1>0, <2>1, <2>2 DEF Assembled, FromEvents, FromPack, FromArtifacts, FromInputs, FromIndex
  <2> QED BY <1>0, <2>0, <2>1, <2>2, <2>3, <2>4, <2>5, AtWork, MoveKeeps
<1> QED BY <1>1, <1>2

LEMMA TarKeeps ==
    ASSUME EvidenceInv, NEW p \in Bundlers, Tar(p)
    PROVE  EvidenceInv'
<1>0. at[p].step = "tar" /\ UNCHANGED <<version, dir, tampered>>
  BY DEF Tar
<1>1. CASE ~dir.there
  BY <1>0, <1>1, FailKeeps DEF Tar
<1>2. CASE dir.there
  <2>0. PICK now \in SUBSET {"receipts", "manifest"}, index \in BOOLEAN :
          Moves(p, [at[p] EXCEPT !.step = "tar_on",
                     !.half = [files |-> Restrict(dir.files, now \cap DOMAIN dir.files),
                               index |-> IF index THEN dir.index ELSE Missing]])
    BY <1>2 DEF Tar
  <2> DEFINE half == [files |-> Restrict(dir.files, now \cap DOMAIN dir.files),
                      index |-> IF index THEN dir.index ELSE Missing]
             r == [at[p] EXCEPT !.step = "tar_on", !.half = half]
  <2>1. /\ at[p] \in Bundling /\ Assembled(at[p], version)
        /\ dir \in [there : BOOLEAN, files : Written, index : Written]
        /\ dir.index # Missing => Complete(dir.index)
    BY Knows
  <2>2. /\ half \in Bundles /\ half.index \in {dir.index, Missing}
        /\ half.index # Missing => Complete(half.index)
        /\ DOMAIN half.files \subseteq DOMAIN dir.files
        /\ \A n \in DOMAIN half.files : half.files[n] = dir.files[n]
    <3>1. (now \cap DOMAIN dir.files) \in SUBSET DOMAIN dir.files /\ dir.files \in Written
      BY <2>1
    <3> DEFINE some == Restrict(dir.files, now \cap DOMAIN dir.files)
    <3>2. /\ some \in Written /\ DOMAIN some \subseteq DOMAIN dir.files
          /\ \A n \in DOMAIN some : some[n] = dir.files[n]
      BY <3>1, RestrictIs
    <3> HIDE DEF some
    <3>3. half.files = some /\ half.index \in {dir.index, Missing}
      BY DEF some
    <3>4. half \in Bundles
      BY <2>1, <3>2, <3>3, NoFiles DEF Bundles
    <3> QED BY <2>1, <3>2, <3>3, <3>4
  <2>3. Moves(p, r)
    BY <2>0
  <2> HIDE DEF half
  <2>4. /\ r \in Bundling /\ r.step = "tar_on" /\ r.seen = at[p].seen
        /\ r.index = at[p].index /\ r.half = half /\ r.out = at[p].out
    BY <2>1, <2>2 DEF Bundling
  <2>5. ASSUME r.alone, Solo(p) PROVE Sees(r, dir') /\ Took(r)
    <3>1. at[p].alone
      BY <2>1, <2>5 DEF Bundling
    <3>2. dir.there /\ dir.files = at[p].index /\ dir.index = at[p].index
      BY <1>0, <3>1, Knows DEF Sees, Inside, FromEvents
    <3> QED BY <1>0, <2>2, <2>4, <3>2 DEF Sees, Took
  <2> HIDE DEF r
  <2>6. Assembled(r, version)
    BY <1>0, <2>1, <2>2, <2>4
       DEF Assembled, FromEvents, FromPack, FromArtifacts, FromInputs, FromIndex
  <2> QED BY <1>0, <2>1, <2>3, <2>4, <2>5, <2>6, AtWork, MoveKeeps
<1> QED BY <1>1, <1>2

LEMMA TarOnKeeps ==
    ASSUME EvidenceInv, NEW p \in Bundlers, TarOn(p)
    PROVE  EvidenceInv'
<1>0. at[p].step = "tar_on" /\ UNCHANGED <<version, dir, tampered>>
  BY DEF TarOn
<1>1. CASE ~dir.there
  BY <1>0, <1>1, FailKeeps DEF TarOn
<1>2. CASE dir.there
  <2> DEFINE out == [files |-> Over(dir.files, at[p].half.files),
                     index |-> IF at[p].half.index = Missing THEN dir.index
                               ELSE at[p].half.index]
             r == [at[p] EXCEPT !.step = "clean", !.out = out, !.half = NoBundle, !.index = <<>>]
  <2>0. Moves(p, r)
    BY <1>2 DEF TarOn
  <2>1. /\ at[p] \in Bundling /\ Assembled(at[p], version)
        /\ dir \in [there : BOOLEAN, files : Written, index : Written]
        /\ dir.index # Missing => Complete(dir.index)
        /\ at[p].half.index # Missing => Complete(at[p].half.index)
    BY Knows DEF Assembled
  <2>2. out \in Bundles /\ (out.index # Missing => Complete(out.index))
    <3>1. Over(dir.files, at[p].half.files) \in Written
      BY <2>1, OverIs DEF Bundling, Bundles
    <3>2. at[p].half.index \in Written
      BY <2>1 DEF Bundling, Bundles
    <3> QED BY <2>1, <3>1, <3>2 DEF Bundles
  <2>3. NoBundle \in Bundles /\ NoBundle.index = Missing /\ <<>> \in Written
    BY NoFiles DEF NoBundle, Bundles, Missing
  <2>4. /\ r \in Bundling /\ r.step = "clean" /\ r.seen = at[p].seen
        /\ r.half = NoBundle /\ r.out = out
    <3> HIDE DEF out
    <3>1. out \in [files : Found, index : Found]
      BY <2>2, WrittenFound DEF Bundles
    <3> QED BY <2>1, <2>3, <3>1 DEF Bundling
  <2>5. ASSUME r.alone, Solo(p) PROVE Sees(r, dir') /\ Took(r)
    <3>1. at[p].alone
      BY <2>1, <2>5 DEF Bundling
    <3>2. /\ dir.files = at[p].index /\ dir.index = at[p].index
          /\ at[p].half.index \in {Missing, dir.index}
          /\ DOMAIN at[p].half.files \subseteq DOMAIN dir.files
          /\ \A n \in DOMAIN at[p].half.files : at[p].half.files[n] = dir.files[n]
      BY <1>0, <3>1, Knows DEF Sees, Inside, FromEvents
    <3>3. Over(dir.files, at[p].half.files) = dir.files
      <4>1. dir.files = [n \in DOMAIN dir.files |-> dir.files[n]]
        BY <2>1, WrittenAre
      <4> QED BY <3>2, <4>1 DEF Over
    <3>4. Took(r)
      <4>1. Complete(at[p].index) /\ at[p].index # Missing
        BY <1>0, <2>1, NoFiles DEF Assembled, FromIndex, Complete, Fixed
      <4>2. out.files = dir.files
        BY <3>3
      <4>3. out.index = dir.index
        BY <3>2
      <4> HIDE DEF out
      <4> QED BY <2>4, <3>2, <4>1, <4>2, <4>3 DEF Took
    <3> QED BY <2>4, <3>4 DEF Sees, FromEvents
  <2> HIDE DEF r, out
  <2>6. Assembled(r, version)
    BY <1>0, <2>1, <2>3, <2>4
       DEF Assembled, FromEvents, FromPack, FromArtifacts, FromInputs, FromIndex
  <2> QED BY <1>0, <2>0, <2>1, <2>2, <2>4, <2>5, <2>6, AtWork, MoveKeeps
<1> QED BY <1>1, <1>2

LEMMA CleanKeeps ==
    ASSUME EvidenceInv, NEW p \in Bundlers, Clean(p)
    PROVE  EvidenceInv'
<1> DEFINE r == [at[p] EXCEPT !.step = "done"]
<1>0. /\ at[p].step = "clean" /\ Moves(p, r) /\ UNCHANGED <<version, tampered>> /\ dir' = Gone
  BY DEF Clean
<1>1. /\ r \in Bundling /\ r.step = "done" /\ r.seen = at[p].seen
      /\ r.index = at[p].index /\ r.half = at[p].half /\ r.out = at[p].out
      /\ r.alone = at[p].alone
  BY Knows DEF Bundling
<1>2. /\ dir' \in [there : BOOLEAN, files : Written, index : Written]
      /\ dir'.index = Missing
  BY <1>0, NoFiles DEF Gone, Missing
<1>3. r.alone => Took(r)
  <2>1. at[p].alone => Took(at[p])
    BY <1>0, AtWork DEF EvidenceInv, Undisturbed
  <2> QED BY <1>0, <1>1, <2>1 DEF Took
<1> HIDE DEF r
<1>4. Sees(r, dir')
  BY <1>1 DEF Sees, FromEvents
<1>5. Assembled(r, version)
  BY <1>1, Knows DEF Assembled, FromEvents, FromPack, FromArtifacts, FromInputs, FromIndex
<1> QED BY <1>0, <1>1, <1>2, <1>3, <1>4, <1>5, AtWork, MoveKeeps

-----------------------------------------------------------------------------
(* What befalls a finished bundle, and the ledger. *)

\* A change that shows, or one to object and entry alike.
LEMMA BecomesKeeps ==
    ASSUME EvidenceInv, NEW p \in Bundlers, NEW how \in {"flipped", "paired"}, NEW bundle,
           at[p].step = "done", Becomes(p, how, bundle),
           bundle \in [files : Found, index : Found],
           how = "flipped" => Unindexed(bundle)
    PROVE  EvidenceInv'
<1>0. /\ at \in [Bundlers -> Bundling] /\ tampered \in [Bundlers -> {"nothing", "flipped", "paired"}]
      /\ \A q \in Bundlers : /\ Assembled(at[q], version) /\ Bundled(at[q], tampered[q])
                             /\ Undisturbed(q)
      /\ tampered' = [tampered EXCEPT ![p] = how] /\ UNCHANGED <<version, dir>>
  BY DEF EvidenceInv, Becomes
<1> DEFINE r == [at[p] EXCEPT !.out = bundle]
<1>1. at' = [at EXCEPT ![p] = r]
  BY DEF Becomes
<1>2. /\ r \in Bundling /\ r.step = "done" /\ r.seen = at[p].seen /\ r.index = at[p].index
      /\ r.half = at[p].half /\ r.out = bundle /\ r.alone = at[p].alone
  BY <1>0 DEF Bundling
<1> HIDE DEF r
<1>3. at' \in [Bundlers -> Bundling] /\ at'[p] = r /\ \A q \in Bundlers \ {p} : at'[q] = at[q]
  BY <1>0, <1>1, <1>2
<1>4. /\ tampered' \in [Bundlers -> {"nothing", "flipped", "paired"}] /\ tampered'[p] = how
      /\ \A q \in Bundlers \ {p} : tampered'[q] = tampered[q]
  BY <1>0
<1>5. \A q \in Bundlers : Inside(q)' <=> Inside(q)
  BY <1>2, <1>3 DEF Inside
<1>6. Assembled(r, version) /\ Bundled(r, how) /\ Undisturbed(p)'
  <2>1. Assembled(r, version)
    BY <1>0, <1>2 DEF Assembled
  <2>2. Bundled(r, how)
    BY <1>2 DEF Bundled
  <2>3. Undisturbed(p)'
    <3>1. ~Inside(p)'
      BY <1>2, <1>3 DEF Inside
    <3> QED BY <1>4, <3>1 DEF Undisturbed
  <2> QED BY <2>1, <2>2, <2>3
<1>7. ASSUME NEW q \in Bundlers \ {p}
      PROVE  Assembled(at'[q], version) /\ Bundled(at'[q], tampered'[q]) /\ Undisturbed(q)'
  BY <1>0, <1>3, <1>4, <1>5 DEF Undisturbed, Solo
<1>8. \A q \in Bundlers : /\ Assembled(at'[q], version') /\ Bundled(at'[q], tampered'[q])
                           /\ Undisturbed(q)'
  BY <1>0, <1>3, <1>4, <1>6, <1>7
<1> QED BY <1>0, <1>3, <1>4, <1>8 DEF EvidenceInv

\* A bundle that is ready for a change is as it was written.
LEMMA ReadyIs ==
    ASSUME EvidenceInv, NEW p \in Bundlers, Ready(p)
    PROVE  at[p].step = "done" /\ at[p].out \in Bundles
BY DEF EvidenceInv, Ready, Bundled

LEMMA TamperKeeps ==
    ASSUME EvidenceInv, NEW p \in Bundlers,
           Flip(p) \/ FlipEntry(p) \/ Drop(p) \/ Unlist(p) \/ Rewrite(p)
    PROVE  EvidenceInv'
<1> DEFINE files == at[p].out.files
           index == at[p].out.index
<1>0. /\ at[p].step = "done" /\ at[p].out \in Bundles
      /\ files \in Written /\ index \in Written /\ at[p].out = [files |-> files, index |-> index]
  BY ReadyIs DEF Flip, FlipEntry, Drop, Unlist, Rewrite, Bundles
<1>1. /\ Tampered \in 0..Tampered
      /\ \A n \in DOMAIN files : files[n] # Tampered
      /\ \A n \in DOMAIN index : index[n] # Tampered
  BY <1>0, WrittenFound, History DEF Tampered
<1>2. ASSUME NEW g \in Written, NEW f \in DOMAIN g
      PROVE  /\ \A new \in 0..Tampered : [g EXCEPT ![f] = new] \in Found
             /\ Without(g, f) \in Written /\ f \notin DOMAIN Without(g, f)
  <2>1. \A new \in 0..Tampered : [g EXCEPT ![f] = new] \in Found
    BY WrittenFound, FoundAre
  <2> QED BY <2>1, RestrictIs DEF Without
<1>3. CASE Flip(p)
  <2>1. PICK f \in DOMAIN files \cap DOMAIN index :
           Becomes(p, "flipped", [at[p].out EXCEPT !.files[f] = Tampered])
    BY <1>3 DEF Flip
  <2> DEFINE bundle == [files |-> [files EXCEPT ![f] = Tampered], index |-> index]
  <2>2. [at[p].out EXCEPT !.files[f] = Tampered] = bundle
    BY <1>0
  <2>3. bundle \in [files : Found, index : Found]
    BY <1>0, <1>1, <1>2, WrittenFound
  <2>4. Unindexed(bundle)
    BY <1>1 DEF Unindexed, Has
  <2> HIDE DEF bundle
  <2> QED BY <1>0, <2>1, <2>2, <2>3, <2>4, BecomesKeeps
<1>4. CASE FlipEntry(p)
  <2>1. PICK f \in DOMAIN index :
           Becomes(p, "flipped", [at[p].out EXCEPT !.index[f] = Tampered])
    BY <1>4 DEF FlipEntry
  <2> DEFINE bundle == [files |-> files, index |-> [index EXCEPT ![f] = Tampered]]
  <2>2. [at[p].out EXCEPT !.index[f] = Tampered] = bundle
    BY <1>0
  <2>3. bundle \in [files : Found, index : Found]
    BY <1>0, <1>1, <1>2, WrittenFound
  <2>4. Unindexed(bundle)
    BY <1>1 DEF Unindexed, Has
  <2> HIDE DEF bundle
  <2> QED BY <1>0, <2>1, <2>2, <2>3, <2>4, BecomesKeeps
<1>5. CASE Drop(p)
  <2>1. PICK f \in DOMAIN index :
           Becomes(p, "flipped", [at[p].out EXCEPT !.files = Without(@, f)])
    BY <1>5 DEF Drop
  <2> DEFINE bundle == [files |-> Without(files, f), index |-> index]
  <2>2. [at[p].out EXCEPT !.files = Without(@, f)] = bundle
    BY <1>0
  <2>3. /\ Without(files, f) \in Written /\ f \notin DOMAIN Without(files, f)
    BY <1>0, RestrictIs DEF Without
  <2>4. bundle \in [files : Found, index : Found]
    BY <1>0, <2>3, WrittenFound
  <2>5. Unindexed(bundle)
    BY <2>3 DEF Unindexed, Has
  <2> HIDE DEF bundle
  <2> QED BY <1>0, <2>1, <2>2, <2>4, <2>5, BecomesKeeps
<1>6. CASE Unlist(p)
  <2>1. PICK f \in DOMAIN index :
           Becomes(p, "paired", [files |-> Without(files, f), index |-> Without(index, f)])
    BY <1>6 DEF Unlist
  <2>2. Without(files, f) \in Written /\ Without(index, f) \in Written
    BY <1>0, RestrictIs DEF Without
  <2> DEFINE bundle == [files |-> Without(files, f), index |-> Without(index, f)]
  <2>3. bundle \in [files : Found, index : Found]
    BY <2>2, WrittenFound
  <2> HIDE DEF bundle
  <2>4. Becomes(p, "paired", bundle)
    BY <2>1 DEF bundle
  <2> QED BY <1>0, <2>3, <2>4, BecomesKeeps
<1>7. CASE Rewrite(p)
  <2>1. PICK f \in DOMAIN files \cap DOMAIN index, new \in 1..Tampered :
           Becomes(p, "paired", [files |-> [files EXCEPT ![f] = new],
                                 index |-> [index EXCEPT ![f] = new]])
    BY <1>7 DEF Rewrite
  <2>2. [files EXCEPT ![f] = new] \in Found /\ [index EXCEPT ![f] = new] \in Found
    BY <1>0, <1>2
  <2> DEFINE bundle == [files |-> [files EXCEPT ![f] = new],
                        index |-> [index EXCEPT ![f] = new]]
  <2>3. bundle \in [files : Found, index : Found]
    BY <2>2
  <2> HIDE DEF bundle
  <2>4. Becomes(p, "paired", bundle)
    BY <2>1 DEF bundle
  <2> QED BY <1>0, <2>3, <2>4, BecomesKeeps
<1> QED BY <1>3, <1>4, <1>5, <1>6, <1>7

LEMMA GrowKeeps ==
    ASSUME EvidenceInv, Grow
    PROVE  EvidenceInv'
<1>0. /\ version \in Versions /\ LastVersion \in Nat /\ version < LastVersion
      /\ version' = version + 1 /\ UNCHANGED <<dir, at, tampered>>
      /\ \A q \in Bundlers : /\ Assembled(at[q], version) /\ Bundled(at[q], tampered[q])
                             /\ Undisturbed(q)
  BY History DEF EvidenceInv, Grow
<1>1. version' \in Versions /\ version \in Nat /\ version' \in Nat /\ version <= version'
  BY <1>0 DEF Versions
<1>2. \A q \in Bundlers : Assembled(at[q], version')
  BY <1>0, <1>1, SameFields
<1>3. \A q \in Bundlers : Undisturbed(q)'
  BY <1>0 DEF Undisturbed, Solo, Inside
<1> QED BY <1>0, <1>1, <1>2, <1>3 DEF EvidenceInv

-----------------------------------------------------------------------------
(* The invariant holds. *)

LEMMA InitHolds == Init => EvidenceInv
<1> SUFFICES ASSUME Init PROVE EvidenceInv
  OBVIOUS
<1>1. version \in Versions /\ 0 \in 0..LastVersion
  BY History DEF Init, Versions
<1>2. Missing \in Written /\ Missing \in Found /\ <<>> = Missing
  BY NoFiles, WrittenFound DEF Missing
<1>3. /\ dir \in [there : BOOLEAN, files : Written, index : Written] /\ dir.index = Missing
      /\ NoBundle \in Bundles /\ NoBundle \in [files : Found, index : Found]
      /\ NoBundle.index = Missing
  BY <1>2 DEF Init, Gone, NoBundle, Bundles
<1> DEFINE r == [step |-> "load", seen |-> 0, index |-> <<>>, alone |-> TRUE,
                 half |-> NoBundle, out |-> NoBundle]
<1>4. r \in Bundling
  BY <1>1, <1>2, <1>3 DEF Bundling
<1>5. \A p \in Bundlers : at[p] = r /\ tampered[p] = "nothing"
  BY DEF Init
<1>6. /\ at \in [Bundlers -> Bundling]
      /\ tampered \in [Bundlers -> {"nothing", "flipped", "paired"}]
  BY <1>4 DEF Init
<1>7. \A v : Assembled(r, v)
  BY <1>3 DEF Assembled, Missing, FromEvents, FromPack, FromArtifacts, FromInputs, FromIndex
<1>8. Bundled(r, "nothing") /\ Took(r)
  BY <1>3 DEF Bundled, Took
<1> HIDE DEF r
<1>9. \A p \in Bundlers : Undisturbed(p)
  <2>1. r.step = "load"
    BY DEF r
  <2> QED BY <1>5, <1>8, <2>1 DEF Undisturbed, Inside
<1> QED BY <1>1, <1>3, <1>5, <1>6, <1>7, <1>8, <1>9 DEF EvidenceInv

LEMMA StepHolds == EvidenceInv /\ [Next]_vars => EvidenceInv'
<1> SUFFICES ASSUME EvidenceInv, [Next]_vars PROVE EvidenceInv'
  OBVIOUS
<1>1. CASE UNCHANGED vars
  BY <1>1 DEF vars, EvidenceInv, Undisturbed, Solo, Inside
<1>2. CASE Next
  BY <1>2, GrowKeeps, LoadKeeps, StageKeeps, WriteFilesKeeps, WriteIndexKeeps, TarKeeps,
     TarOnKeeps, CleanKeeps, TamperKeeps DEF Next
<1> QED BY <1>1, <1>2

LEMMA EvidenceInvariant == Spec => []EvidenceInv
BY InitHolds, StepHolds, PTL DEF Spec

-----------------------------------------------------------------------------
\* However many processes share the staging directory, over any history of the
\* attempt meanwhile: a bundle that verifies has receipts and manifest of one
\* version of the ledger, what was committed by then, and the events of its
\* runs.
LEMMA GreenWhole == Spec => []GreenIsWhole
<1>1. EvidenceInv => GreenIsWhole
  <2> SUFFICES ASSUME EvidenceInv, NEW p \in Bundlers, tampered[p] # "paired", Green(at[p].out)
               PROVE  LET f == at[p].out.files
                      IN  /\ {"receipts", "events", "manifest", "pack"} \subseteq DOMAIN f
                          /\ f["manifest"] = f["receipts"]
                          /\ Committed[f["receipts"]] \subseteq DOMAIN f
                          /\ Runs[f["receipts"]] \subseteq Runs[f["events"]]
    BY DEF GreenIsWhole
  <2> DEFINE files == at[p].out.files
             index == at[p].out.index
  <2>1. ~Unindexed(at[p].out) /\ index # Missing
    BY DEF Green
  <2>2. tampered[p] = "nothing"
    BY <2>1 DEF EvidenceInv, Bundled
  <2>3. Complete(index)
    BY <2>1, <2>2 DEF EvidenceInv, Bundled
  <2>4. \A f \in DOMAIN index : f \in DOMAIN files /\ files[f] = index[f]
    BY <2>1 DEF Unindexed, Has
  <2> HIDE DEF files, index
  <2>5. Runs[index["receipts"]] \subseteq Runs[index["events"]]
    BY <2>3, History DEF Complete, Versions
  <2>6. /\ {"receipts", "events", "manifest", "pack"} \subseteq DOMAIN files
        /\ files["manifest"] = files["receipts"]
        /\ Committed[files["receipts"]] \subseteq DOMAIN files
        /\ Runs[files["receipts"]] \subseteq Runs[files["events"]]
    BY <2>3, <2>4, <2>5 DEF Complete, Fixed
  <2> QED BY <2>6 DEF files
<1> QED BY <1>1, EvidenceInvariant, PTL

\* Whatever is changed in a finished bundle, a file and its entry alike included:
\* one that verifies has a file by the name of every artifact that its receipts
\* say committed.
LEMMA CommittedStay == Spec => []CommittedCarried
<1>1. CommittedCarried
  <2> SUFFICES ASSUME NEW p \in Bundlers, Green(at[p].out)
               PROVE  Committed[at[p].out.files["receipts"]] \subseteq DOMAIN at[p].out.files
    BY DEF CommittedCarried
  <2>1. ~Unindexed(at[p].out) /\ ~Uncarried(at[p].out)
    BY DEF Green
  <2>2. Committed[at[p].out.files["receipts"]] \subseteq DOMAIN at[p].out.index
    BY <2>1 DEF Uncarried
  <2> QED BY <2>1, <2>2 DEF Unindexed, Has
<1> QED BY <1>1, PTL

\* One listed file or one entry of any bundle changed or lost, whoever wrote it
\* and into whatever other files were mixed, and verification is red.
LEMMA TamperingShows == Spec => []TamperReddens
<1>1. EvidenceInv => TamperReddens
  BY DEF EvidenceInv, Bundled, TamperReddens, Green
<1> QED BY <1>1, EvidenceInvariant, PTL

\* What a green verification is worth (GreenIsSound), however many processes
\* share the staging directory and over any history of the attempt: unless a file
\* and its entry were changed alike, the bundle says what one version of the
\* ledger said and a change of either alone is found; and in any case there is a
\* file by the name of every artifact that the receipts in it say committed.
THEOREM GreenSound == Spec => []GreenIsSound
<1>1. GreenIsWhole /\ CommittedCarried /\ TamperReddens => GreenIsSound
  BY DEF GreenIsSound
<1> QED BY <1>1, GreenWhole, CommittedStay, TamperingShows, PTL

\* A process that had the directory to itself makes a bundle that verifies,
\* whatever the attempt does meanwhile and whatever inputs are spoiled, if no
\* run has a gap in its events.
THEOREM AloneIsGreen == Spec => []AloneVerifies
<1>1. EvidenceInv => AloneVerifies
  <2> SUFFICES ASSUME EvidenceInv, NEW p \in Bundlers, Finished(p), at[p].alone,
                      tampered[p] = "nothing", world.gapped = {}
               PROVE  Green(at[p].out)
    BY DEF AloneVerifies
  <2> DEFINE files == at[p].out.files
             index == at[p].out.index
  <2>1. Took(at[p])
    BY DEF EvidenceInv, Undisturbed
  <2>2. files = index /\ Complete(index)
    BY <2>1 DEF Took, Finished
  <2>3. index # Missing
    BY <2>2, NoFiles DEF Complete, Fixed
  <2>4. ~Unindexed(at[p].out)
    BY <2>2 DEF Unindexed, Has
  <2>5. 0 # Tampered
    BY History DEF Tampered
  <2>6. ~Unsealed(at[p].out)
    BY <2>2, <2>5 DEF Unsealed, Has, Complete, Fixed
  <2>7. ~Uncarried(at[p].out)
    <3>1. index["receipts"] # Tampered
      BY <2>2, History DEF Complete, Versions, Tampered
    <3> QED BY <2>2, <3>1 DEF Uncarried, Has, Complete, Fixed
  <2>8. ~Gapped(at[p].out)
    <3>1. index["events"] # Tampered
      BY <2>2, History DEF Complete, Versions, Tampered
    <3> QED BY <2>2, <3>1 DEF Gapped, Has
  <2> QED BY <2>3, <2>4, <2>6, <2>7, <2>8 DEF Green
<1> QED BY <1>1, EvidenceInvariant, PTL

=============================================================================
