---------------------------- MODULE Store_proofs ----------------------------
(***************************************************************************)
(* What commands leave in .rein without a hand, for any numbers of         *)
(* writers, blocks, names, commands and kills: objects are whole, rows     *)
(* name what is there, pulls are honest, and nothing is taken back.        *)
(***************************************************************************)
EXTENDS MCStore, FiniteSetTheorems, TLAPS

-----------------------------------------------------------------------------
(* Objects *)

Writing(w, f) == writer[w].pc \in {"write", "rename"} /\ writer[w].file = f

Records == [pc : {"idle", "create", "write", "rename", "stored", "failed"},
            file : Cas!Files \union {Cas!NoFile}, block : 0..Blocks]

\* A handle is held while writing, and everything was written at the rename.
Types ==
    /\ content \in [Cas!Files -> SUBSET Cas!Whole]
    /\ staging \in Cas!Files \union {Cas!NoFile}
    /\ object \in Cas!Files \union {Cas!NoFile}
    /\ kills \in Nat
    /\ writer \in [Writers -> Records]
    /\ \A w \in Writers :
          /\ writer[w].pc \in {"write", "rename"} => writer[w].file \in Cas!Files
          /\ writer[w].pc = "write" => writer[w].block < Blocks
          /\ writer[w].pc = "rename" => writer[w].block = Blocks

\* A named file is whole, or one of its writers is still at it, behind whom
\* nothing is missing: the last to have truncated it.
Attended(f) ==
    \/ content[f] = Cas!Whole
    \/ \E w \in Writers : Writing(w, f) /\ 1..writer[w].block \subseteq content[f]

WholeInv ==
    /\ Types
    /\ staging # Cas!NoFile => staging # object
    /\ kills = 0 => \A f \in Cas!Files : f \in {staging, object} => Attended(f)

-----------------------------------------------------------------------------
LEMMA TypesInit == Cas!Init => Types
BY Written DEF Cas!Init, Types, Records, Cas!Idle, Cas!NoFile, Cas!Files, Cas!Whole

\* What a writer holds before it writes a block, and after.
LEMMA WriteFacts ==
    ASSUME Types, NEW w \in Writers, Cas!Write(w)
    PROVE  LET b == writer[w].block + 1
               k == writer[w].file
           IN  /\ k \in Cas!Files /\ b \in 1..Blocks
               /\ 1..b = 1..writer[w].block \union {b}
               /\ content' = [content EXCEPT ![k] = @ \union {b}]
               /\ writer' \in [Writers -> Records]
               /\ writer'[w].pc = IF b = Blocks THEN "rename" ELSE "write"
               /\ writer'[w].file = k /\ writer'[w].block = b
               /\ \A v \in Writers : v # w => writer'[v] = writer[v]
<1> DEFINE b  == writer[w].block + 1
           k  == writer[w].file
           pc == IF b = Blocks THEN "rename" ELSE "write"
<1>1. writer[w] \in Records /\ writer[w].pc = "write" /\ k \in Cas!Files /\ b \in 1..Blocks
  BY Written DEF Cas!Write, Types, Records
<1>2. 1..b = 1..writer[w].block \union {b}
  BY <1>1 DEF Records
<1>3. /\ content' = [content EXCEPT ![k] = @ \union {b}]
      /\ writer' = [writer EXCEPT ![w].block = b, ![w].pc = pc]
  BY DEF Cas!Write
<1> HIDE DEF b
<1>4. writer \in [Writers -> Records]
  BY DEF Types
<1>5. /\ writer'[w] = [[writer[w] EXCEPT !.block = b] EXCEPT !.pc = pc]
      /\ DOMAIN writer' = Writers
      /\ \A v \in Writers : v # w => writer'[v] = writer[v]
  BY <1>3, <1>4
<1>6. writer'[w] = [pc |-> pc, file |-> k, block |-> b]
  BY <1>1, <1>5 DEF Records
<1> DEFINE half == [writer EXCEPT ![w].block = b]
<1>7. half \in [Writers -> Records] /\ b \in 0..Blocks
  BY <1>1, <1>4 DEF Records
<1>8. writer' = [half EXCEPT ![w].pc = pc]
  BY <1>3
<1> HIDE DEF half
<1>9. [half[w] EXCEPT !.pc = pc] \in Records
  BY <1>7 DEF Records
<1>10. writer' \in [Writers -> Records]
  BY <1>7, <1>8, <1>9
<1> QED BY <1>1, <1>2, <1>3, <1>5, <1>6, <1>10 DEF b

LEMMA TypesStep == Types /\ [Cas!Next]_objects => Types'
<1> SUFFICES ASSUME Types, [Cas!Next]_objects PROVE Types'
  OBVIOUS
<1> USE Written
<1>1. CASE UNCHANGED objects
  BY <1>1 DEF objects, Types
<1>2. ASSUME NEW w \in Writers, Cas!Look(w) PROVE Types'
  <2>1. writer' \in [Writers -> Records]
    BY <1>2 DEF Cas!Look, Types, Records, Cas!Ended, Cas!Idle, Cas!NoFile
  <2>2. \A v \in Writers : writer'[v].pc \in {"write", "rename"} => writer'[v] = writer[v]
    BY <1>2 DEF Cas!Look, Types, Cas!Ended, Cas!Idle
  <2> QED BY <1>2, <2>1, <2>2 DEF Cas!Look, Types
<1>3. ASSUME NEW w \in Writers, Cas!Create(w) PROVE Types'
  <2>1. PICK f \in Cas!Files :
          /\ staging' = f
          /\ content' = [content EXCEPT ![f] = {}]
          /\ writer' = [writer EXCEPT ![w] = [pc |-> "write", file |-> f, block |-> 0]]
    BY <1>3 DEF Cas!Create
  <2>2. content' \in [Cas!Files -> SUBSET Cas!Whole]
    BY <2>1 DEF Types
  <2>3. [pc |-> "write", file |-> f, block |-> 0] \in Records /\ 0 < Blocks
    BY DEF Records
  <2> QED BY <1>3, <2>1, <2>2, <2>3 DEF Cas!Create, Types
<1>4. ASSUME NEW w \in Writers, Cas!Write(w) PROVE Types'
  <2> DEFINE b == writer[w].block + 1
             k == writer[w].file
  <2>1. /\ k \in Cas!Files /\ b \in 1..Blocks
        /\ content' = [content EXCEPT ![k] = @ \union {b}]
        /\ writer' \in [Writers -> Records]
        /\ writer'[w].pc = IF b = Blocks THEN "rename" ELSE "write"
        /\ writer'[w].file = k /\ writer'[w].block = b
        /\ \A v \in Writers : v # w => writer'[v] = writer[v]
    BY <1>4, WriteFacts
  <2> HIDE DEF b, k
  <2>2. content' \in [Cas!Files -> SUBSET Cas!Whole]
    BY <2>1 DEF Types, Cas!Whole
  <2>3. UNCHANGED <<staging, object, kills>>
    BY <1>4 DEF Cas!Write
  <2>4. \A v \in Writers :
          /\ writer'[v].pc \in {"write", "rename"} => writer'[v].file \in Cas!Files
          /\ writer'[v].pc = "write" => writer'[v].block < Blocks
          /\ writer'[v].pc = "rename" => writer'[v].block = Blocks
    BY <2>1 DEF Types
  <2> QED BY <2>1, <2>2, <2>3, <2>4 DEF Types
<1>5. ASSUME NEW w \in Writers, Cas!Rename(w) PROVE Types'
  BY <1>5 DEF Cas!Rename, Types, Records, Cas!Ended, Cas!Idle, Cas!NoFile
<1>6. ASSUME NEW w \in Writers, Cas!Kill(w) PROVE Types'
  BY <1>6 DEF Cas!Kill, Types, Records, Cas!Idle, Cas!NoFile
<1> QED BY <1>1, <1>2, <1>3, <1>4, <1>5, <1>6 DEF Cas!Next, Cas!Step, Cas!Work

-----------------------------------------------------------------------------
\* A step that leaves f's bytes alone, or adds to them, and takes no writer
\* from it, leaves it attended.
LEMMA StaysAttended ==
    ASSUME Types, Types', NEW f \in Cas!Files, Attended(f),
           content[f] \subseteq content'[f],
           \A w \in Writers : Writing(w, f) =>
               Writing(w, f)' /\ 1..writer'[w].block \subseteq 1..writer[w].block \union content'[f]
    PROVE  Attended(f)'
<1>1. CASE content[f] = Cas!Whole
  <2>1. content'[f] = Cas!Whole
    BY <1>1 DEF Types
  <2> QED BY <2>1 DEF Attended, Cas!Whole
<1>2. CASE content[f] # Cas!Whole
  <2>1. PICK w \in Writers : Writing(w, f) /\ 1..writer[w].block \subseteq content[f]
    BY <1>2 DEF Attended
  <2>2. Writing(w, f)' /\ 1..writer'[w].block \subseteq content'[f]
    BY <2>1
  <2> QED BY <2>2 DEF Attended
<1> QED BY <1>1, <1>2

LEMMA WholeStep == WholeInv /\ [Cas!Next]_objects => WholeInv'
<1> SUFFICES ASSUME WholeInv, [Cas!Next]_objects PROVE WholeInv'
  OBVIOUS
<1>0. Types /\ Types'
  BY TypesStep DEF WholeInv
<1>a. Cas!NoFile \notin Cas!Files
  BY DEF Cas!NoFile, Cas!Files
<1>1. CASE UNCHANGED objects
  BY <1>1 DEF objects, WholeInv, Types, Attended, Writing
<1>2. ASSUME NEW w \in Writers, Cas!Look(w) PROVE WholeInv'
  <2>1. /\ UNCHANGED <<content, staging, object, kills>>
        /\ \A v \in Writers : v # w => writer'[v] = writer[v]
        /\ \A f : ~Writing(w, f)
    BY <1>2, <1>0 DEF Cas!Look, Cas!AtRest, Writing, Types
  <2>2. \A f \in Cas!Files : Attended(f) => Attended(f)'
    BY <2>1, <1>0, StaysAttended DEF Writing
  <2> QED BY <2>1, <2>2, <1>0 DEF WholeInv
<1>3. ASSUME NEW w \in Writers, Cas!Create(w) PROVE WholeInv'
  <2>1. PICK f \in Cas!Files :
          /\ IF staging # Cas!NoFile THEN f = staging
             ELSE f # object /\ content[f] = {} /\ \A v \in Writers : writer[v].file # f
          /\ staging' = f
          /\ content' = [content EXCEPT ![f] = {}]
          /\ writer' = [writer EXCEPT ![w] = [pc |-> "write", file |-> f, block |-> 0]]
    BY <1>3 DEF Cas!Create
  <2>2. object' = object /\ kills' = kills /\ f # object
    BY <1>3, <2>1 DEF Cas!Create, WholeInv
  <2>3. Attended(f)'
    BY <2>1, <1>0 DEF Attended, Writing, Types
  <2>4. ASSUME NEW g \in Cas!Files, g # f, Attended(g) PROVE Attended(g)'
    <3>1. content'[g] = content[g]
      BY <2>1, <2>4, <1>0 DEF Types
    <3>2. \A v \in Writers : Writing(v, g) => v # w /\ writer'[v] = writer[v]
      BY <2>1, <1>3, <1>0 DEF Writing, Types, Cas!Create
    <3> QED BY <3>1, <3>2, <2>4, <1>0, StaysAttended DEF Writing
  <2> QED BY <2>1, <2>2, <2>3, <2>4, <1>0 DEF WholeInv
<1>4. ASSUME NEW w \in Writers, Cas!Write(w) PROVE WholeInv'
  <2> DEFINE b == writer[w].block + 1
             k == writer[w].file
  <2>1. k \in Cas!Files /\ 1..b = 1..writer[w].block \union {b}
    BY <1>4, <1>0, WriteFacts
  <2>2. /\ content' = [content EXCEPT ![k] = @ \union {b}]
        /\ writer'[w].pc \in {"write", "rename"}
        /\ writer'[w].file = k /\ writer'[w].block = b
        /\ \A v \in Writers : v # w => writer'[v] = writer[v]
    BY <1>4, <1>0, WriteFacts
  <2>3. UNCHANGED <<staging, object, kills>>
    BY <1>4 DEF Cas!Write
  <2> HIDE DEF b
  <2>4. ASSUME NEW f \in Cas!Files, Attended(f) PROVE Attended(f)'
    <3>1. content[f] \subseteq content'[f]
      BY <2>2, <1>0 DEF Types
    <3>2. ASSUME NEW v \in Writers, Writing(v, f)
          PROVE  Writing(v, f)' /\ 1..writer'[v].block
                                      \subseteq 1..writer[v].block \union content'[f]
      <4>1. CASE v = w
        <5>1. f = k
          BY <4>1, <3>2 DEF Writing
        <5>2. b \in content'[f]
          BY <5>1, <2>1, <2>2, <1>0 DEF Types
        <5> QED BY <5>1, <5>2, <4>1, <2>1, <2>2 DEF Writing
      <4>2. CASE v # w
        BY <4>2, <3>2, <2>2, <1>0 DEF Writing, Types
      <4> QED BY <4>1, <4>2
    <3> QED BY <3>1, <3>2, <2>4, <1>0, StaysAttended
  <2> QED BY <2>3, <2>4, <1>0 DEF WholeInv
<1>5. ASSUME NEW w \in Writers, Cas!Rename(w) PROVE WholeInv'
  <2>1. /\ content' = content /\ kills' = kills
        /\ writer[w].pc = "rename" /\ writer[w].block = Blocks
        /\ \A v \in Writers : v # w => writer'[v] = writer[v]
    BY <1>5, <1>0 DEF Cas!Rename, Types
  <2>2. ASSUME NEW f \in Cas!Files, Attended(f) PROVE Attended(f)'
    <3>1. CASE content[f] = Cas!Whole
      BY <3>1, <2>1 DEF Attended, Cas!Whole
    <3>2. CASE content[f] # Cas!Whole
      <4>1. PICK v \in Writers : Writing(v, f) /\ 1..writer[v].block \subseteq content[f]
        BY <2>2, <3>2 DEF Attended
      <4>2. v # w
        BY <4>1, <3>2, <2>1, <1>0 DEF Types, Cas!Whole
      <4> QED BY <4>1, <4>2, <2>1 DEF Attended, Writing
    <3> QED BY <3>1, <3>2
  <2>3. /\ staging' # Cas!NoFile => staging' # object'
        /\ {staging', object'} \subseteq {staging, object, Cas!NoFile}
    BY <1>5 DEF Cas!Rename, WholeInv
  <2> QED BY <2>1, <2>2, <2>3, <1>0, <1>a DEF WholeInv
<1>6. ASSUME NEW w \in Writers, Cas!Kill(w) PROVE WholeInv'
  BY <1>6, <1>0 DEF Cas!Kill, WholeInv, Types
<1> QED BY <1>1, <1>2, <1>3, <1>4, <1>5, <1>6 DEF Cas!Next, Cas!Step, Cas!Work

-----------------------------------------------------------------------------
\* A writer that is alone holds the staged file, with all it wrote since it
\* created it, and the object is never the file it holds.
AloneInv ==
    /\ Types
    /\ \A v \in Writers \ {Loner} : writer[v] = Cas!Idle
    /\ staging # Cas!NoFile => staging # object
    /\ \A w \in Writers : writer[w].pc \in {"write", "rename"} =>
          writer[w].file = staging /\ 1..writer[w].block \subseteq content[staging]
    /\ Cas!PlacedWhole

LEMMA AloneStep == AloneInv /\ Cas!Step(Loner) => AloneInv'
<1> SUFFICES ASSUME AloneInv, Cas!Step(Loner) PROVE AloneInv'
  OBVIOUS
<1> USE Written
<1>1. [Cas!Next]_objects
  BY DEF Cas!Next
<1>0. Types /\ Types'
  BY <1>1, TypesStep DEF AloneInv
<1>a. Cas!NoFile \notin Cas!Files
  BY DEF Cas!NoFile, Cas!Files
<1>2. CASE Cas!Look(Loner)
  BY <1>2, <1>0 DEF Cas!Look, AloneInv, Cas!PlacedWhole, Types, Cas!Ended, Cas!Idle, Cas!Whole
<1>3. CASE Cas!Create(Loner)
  <2>1. PICK f \in Cas!Files :
          /\ IF staging # Cas!NoFile THEN f = staging
             ELSE f # object /\ content[f] = {} /\ \A v \in Writers : writer[v].file # f
          /\ staging' = f
          /\ content' = [content EXCEPT ![f] = {}]
          /\ writer' = [writer EXCEPT ![Loner] = [pc |-> "write", file |-> f, block |-> 0]]
    BY <1>3 DEF Cas!Create
  <2>2. object' = object /\ f # object
    BY <1>3, <2>1 DEF Cas!Create, AloneInv
  <2>3. /\ writer'[Loner].file = f /\ writer'[Loner].block = 0
        /\ \A v \in Writers \ {Loner} : writer'[v] = writer[v]
    BY <2>1, <1>0 DEF Types
  <2>4. Cas!PlacedWhole'
    BY <2>1, <2>2, <1>0 DEF AloneInv, Cas!PlacedWhole, Types, Cas!Whole
  <2> QED BY <2>1, <2>2, <2>3, <2>4, <1>0 DEF AloneInv, Cas!Idle
<1>4. CASE Cas!Write(Loner)
  <2> DEFINE b == writer[Loner].block + 1
             k == writer[Loner].file
  <2>1. /\ k \in Cas!Files /\ 1..b = 1..writer[Loner].block \union {b} /\ b \in 1..Blocks
        /\ content' = [content EXCEPT ![k] = @ \union {b}]
        /\ writer'[Loner].file = k /\ writer'[Loner].block = b
        /\ \A v \in Writers \ {Loner} : writer'[v] = writer[v]
    BY <1>4, <1>0, WriteFacts
  <2>2. /\ UNCHANGED <<staging, object>>
        /\ k = staging /\ 1..writer[Loner].block \subseteq content[k]
    BY <1>4 DEF Cas!Write, AloneInv
  <2> HIDE DEF b
  <2>3. 1..b \subseteq content'[k]
    BY <2>1, <2>2, <1>0 DEF Types
  <2>4. Cas!PlacedWhole'
    BY <2>1, <2>2, <1>0, <1>a DEF AloneInv, Cas!PlacedWhole, Types, Cas!Whole
  <2> QED BY <2>1, <2>2, <2>3, <2>4, <1>0 DEF AloneInv, Cas!Idle
<1>5. CASE Cas!Rename(Loner)
  <2>1. content[staging] = Cas!Whole /\ staging \in Cas!Files
    BY <1>5, <1>0 DEF Cas!Rename, AloneInv, Types, Cas!Whole
  <2>2. object' = staging /\ staging' = Cas!NoFile /\ content' = content
        /\ writer'[Loner].pc = "stored"
        /\ \A v \in Writers \ {Loner} : writer'[v] = writer[v]
    BY <1>5, <2>1, <1>0, <1>a DEF Cas!Rename, Types, Cas!Ended, Cas!Idle
  <2> QED BY <2>1, <2>2, <1>0 DEF AloneInv, Cas!PlacedWhole, Cas!Whole, Cas!Idle
<1>6. CASE Cas!Kill(Loner)
  BY <1>6, <1>0 DEF Cas!Kill, AloneInv, Cas!PlacedWhole, Types, Cas!Idle, Cas!Whole
<1> QED BY <1>2, <1>3, <1>4, <1>5, <1>6 DEF Cas!Step, Cas!Work

-----------------------------------------------------------------------------
(* Commands *)

\* Between the statements of one command no other command runs: the code does
\* not see to it, and Catalog's SealedRefuse is refuted without it.
OneCommand == \A s, r \in Sessions : s = r

\* One session's part of Next.
CommandStep(s) ==
    \/ \E m \in Missions : Cat!CreateMission(s, m) \/ Cat!CloseMission(s, m)
    \/ \E e \in EpochNames : Cat!SealEpoch(s, e)
    \/ \E e \in EpochNames, c \in Cutoffs, b \in BOOLEAN : Cat!OpenEpoch(s, e, c, b)
    \/ Cat!LookEpoch(s) \/ Cat!WriteEpoch(s)
    \/ \E p \in PlanNames, nodes \in SUBSET Tasks : Cat!ApplyPlan(s, p, nodes)
    \/ Cat!PutRow(s)
    \/ \E t \in Tasks, p \in PlanNames, pins \in Pins : Cat!AddTask(s, t, p, pins)
    \/ \E t \in Tasks : Cat!Freeze(s, t)
    \/ Cat!FreezePlan(s) \/ Cat!FreezeEpoch(s)
    \/ Cat!Kill(s)

HavePc ==
    /\ cmd = [s \in Sessions |-> cmd[s]]
    /\ \A s \in Sessions : "pc" \in DOMAIN cmd[s]

LEMMA PcSet ==
    ASSUME HavePc, NEW s \in Sessions, NEW c, "pc" \in DOMAIN c, cmd' = [cmd EXCEPT ![s] = c]
    PROVE  HavePc'
BY DEF HavePc

LEMMA PcStep == HavePc /\ [Cat!Next]_catalog => HavePc'
<1> SUFFICES ASSUME HavePc, [Cat!Next]_catalog PROVE HavePc'
  OBVIOUS
<1>1. CASE UNCHANGED catalog
  BY <1>1 DEF catalog, HavePc
<1>2. ASSUME NEW s \in Sessions, NEW c, "pc" \in DOMAIN c, Cat!Begin(s, c) \/ Cat!Become(s, c)
      PROVE  HavePc'
  BY <1>2, PcSet DEF Cat!Begin, Cat!Become
<1>3. "pc" \in DOMAIN Cat!Idle
  BY DEF Cat!Idle
<1> SUFFICES ASSUME Cat!Next PROVE HavePc'
  BY <1>1
<1>4. PICK s \in Sessions : CommandStep(s)
  BY DEF Cat!Next, CommandStep
<1>5. ASSUME NEW m \in Missions, Cat!CreateMission(s, m) \/ Cat!CloseMission(s, m) PROVE HavePc'
  BY <1>5, <1>2, <1>3 DEF Cat!CreateMission, Cat!CloseMission
<1>6. ASSUME NEW e \in EpochNames, Cat!SealEpoch(s, e) PROVE HavePc'
  <2> DEFINE c == [pc |-> "look", name |-> e, row |-> [epochs[e] EXCEPT !.sealed = TRUE]]
  <2>1. Cat!Begin(s, Cat!Idle) \/ Cat!Begin(s, c)
    BY <1>6 DEF Cat!SealEpoch
  <2>2. "pc" \in DOMAIN c
    OBVIOUS
  <2> HIDE DEF c
  <2> QED BY <2>1, <2>2, <1>2, <1>3
<1>7. ASSUME NEW e \in EpochNames, NEW k \in Cutoffs, NEW b \in BOOLEAN, Cat!OpenEpoch(s, e, k, b)
      PROVE  HavePc'
  <2> DEFINE c == [pc |-> "look", name |-> e, row |-> [sealed |-> b, cutoff |-> k]]
  <2>1. Cat!Begin(s, c) /\ "pc" \in DOMAIN c
    BY <1>7 DEF Cat!OpenEpoch
  <2> HIDE DEF c
  <2> QED BY <2>1, <1>2
<1>8. ASSUME NEW x, DOMAIN x = DOMAIN cmd[s], Cat!Become(s, x) PROVE HavePc'
  BY <1>8, <1>2 DEF HavePc
<1>9. CASE Cat!LookEpoch(s)
  BY <1>9, <1>8, <1>2, <1>3 DEF Cat!LookEpoch
<1>10. CASE Cat!WriteEpoch(s) \/ Cat!FreezeEpoch(s)
  BY <1>10, <1>2, <1>3 DEF Cat!WriteEpoch, Cat!FreezeEpoch
<1>11. ASSUME NEW p \in PlanNames, NEW nodes \in SUBSET Tasks, Cat!ApplyPlan(s, p, nodes)
       PROVE  HavePc'
  <2> DEFINE c == [pc |-> "rows", plan |-> p, left |-> nodes]
  <2>1. Cat!Begin(s, c) /\ "pc" \in DOMAIN c
    BY <1>11 DEF Cat!ApplyPlan
  <2> HIDE DEF c
  <2> QED BY <2>1, <1>2
<1>12. CASE Cat!PutRow(s)
  BY <1>12, <1>8, <1>2, <1>3 DEF Cat!PutRow
<1>13. ASSUME NEW t \in Tasks, NEW p \in PlanNames, NEW pins \in Pins, Cat!AddTask(s, t, p, pins)
       PROVE  HavePc'
  BY <1>13, <1>2, <1>3 DEF Cat!AddTask
<1>14. ASSUME NEW t \in Tasks, Cat!Freeze(s, t) PROVE HavePc'
  <2> DEFINE c == [pc |-> "plan", task |-> t, row |-> tasks[t]]
  <2>1. Cat!Begin(s, Cat!Idle) \/ Cat!Begin(s, c)
    BY <1>14 DEF Cat!Freeze
  <2>2. "pc" \in DOMAIN c
    OBVIOUS
  <2> HIDE DEF c
  <2> QED BY <2>1, <2>2, <1>2, <1>3
<1>15. CASE Cat!FreezePlan(s)
  BY <1>15, <1>8, <1>2, <1>3 DEF Cat!FreezePlan
<1>16. CASE Cat!Kill(s)
  BY <1>16, <1>3, PcSet DEF Cat!Kill
<1> QED BY <1>4, <1>5, <1>6, <1>7, <1>9, <1>10, <1>11, <1>12, <1>13, <1>14, <1>15, <1>16
        DEF CommandStep

-----------------------------------------------------------------------------
(* Plans *)

\* A plan apply that has rows left to write has written its plan.
Applying(s) ==
    cmd[s].pc = "rows" => /\ cmd[s].plan \in PlanNames /\ plans[cmd[s].plan] # Cat!NoPlan
                          /\ cmd[s].left \subseteq Tasks

PlanInv ==
    /\ cmd = [s \in Sessions |-> cmd[s]]
    /\ plans = [p \in PlanNames |-> plans[p]]
    /\ tasks = [t \in Tasks |-> tasks[t]]
    /\ \A s \in Sessions : Applying(s)
    /\ \A t \in Tasks : tasks[t] # Cat!NoTask => tasks[t].plan \in PlanNames
    /\ Cat!RowsResolve

\* A step of s that leaves the tables alone and s not writing rows.
LEMMA PlanQuiet ==
    ASSUME PlanInv, NEW s \in Sessions, NEW c, c.pc # "rows",
           cmd' = [cmd EXCEPT ![s] = c], UNCHANGED <<plans, tasks, strays>>
    PROVE  PlanInv'
BY DEF PlanInv, Applying, Cat!RowsResolve

LEMMA PlanStep == HavePc /\ PlanInv /\ [Cat!Next]_catalog => PlanInv'
<1> SUFFICES ASSUME HavePc, PlanInv, [Cat!Next]_catalog PROVE PlanInv'
  OBVIOUS
<1> USE DEF Cat!Idle
<1>1. CASE UNCHANGED catalog
  BY <1>1 DEF catalog, Cat!tables, Cat!past, PlanInv, Applying, Cat!RowsResolve
<1> SUFFICES ASSUME Cat!Next PROVE PlanInv'
  BY <1>1
<1>2. PICK s \in Sessions : CommandStep(s)
  BY DEF Cat!Next, CommandStep
<1>3. ASSUME NEW m \in Missions, Cat!CreateMission(s, m) \/ Cat!CloseMission(s, m) PROVE PlanInv'
  BY <1>3, PlanQuiet DEF Cat!CreateMission, Cat!CloseMission, Cat!Begin, Cat!past
<1>4. ASSUME NEW e \in EpochNames, Cat!SealEpoch(s, e) PROVE PlanInv'
  BY <1>4, PlanQuiet DEF Cat!SealEpoch, Cat!Begin, Cat!tables, Cat!past
<1>5. ASSUME NEW e \in EpochNames, NEW c \in Cutoffs, NEW b \in BOOLEAN, Cat!OpenEpoch(s, e, c, b)
      PROVE  PlanInv'
  BY <1>5, PlanQuiet DEF Cat!OpenEpoch, Cat!Begin, Cat!tables, Cat!past
<1>6. CASE Cat!LookEpoch(s)
  <2>1. PICK c : /\ cmd' = [cmd EXCEPT ![s] = c]
                 /\ c = Cat!Idle \/ c = [cmd[s] EXCEPT !.pc = "write"]
    BY <1>6 DEF Cat!LookEpoch, Cat!Become
  <2>2. c.pc # "rows"
    BY <2>1 DEF HavePc
  <2> QED BY <1>6, <2>1, <2>2, PlanQuiet DEF Cat!LookEpoch, Cat!tables, Cat!past
<1>7. CASE Cat!WriteEpoch(s)
  BY <1>7, PlanQuiet DEF Cat!WriteEpoch, Cat!Become, Cat!past
<1>8. ASSUME NEW p \in PlanNames, NEW nodes \in SUBSET Tasks, Cat!ApplyPlan(s, p, nodes)
      PROVE  PlanInv'
  <2>1. nodes # Cat!NoPlan
    BY Named DEF Cat!NoPlan
  <2> QED BY <1>8, <2>1 DEF Cat!ApplyPlan, Cat!Begin, Cat!past, PlanInv, Applying, Cat!RowsResolve
<1>9. CASE Cat!PutRow(s)
  <2>1. CASE cmd[s].left = {}
    BY <1>9, <2>1, PlanQuiet DEF Cat!PutRow, Cat!Become
  <2>2. CASE cmd[s].left # {}
    <3>1. PICK t \in cmd[s].left :
            /\ tasks' = [tasks EXCEPT ![t] = [plan |-> cmd[s].plan, pins |-> NoPins]]
            /\ strays' = strays \ {t}
            /\ cmd' = [cmd EXCEPT ![s] = [cmd[s] EXCEPT !.left = @ \ {t}]]
            /\ plans' = plans
      BY <1>9, <2>2 DEF Cat!PutRow, Cat!Become
    <3>2. /\ cmd[s].pc = "rows" /\ t \in Tasks
          /\ cmd[s].plan \in PlanNames /\ plans[cmd[s].plan] # Cat!NoPlan
          /\ cmd[s].left \subseteq Tasks
      BY <1>9 DEF Cat!PutRow, PlanInv, Applying
    <3>3. \A r \in Sessions : Applying(r)'
      BY <3>1, <3>2 DEF PlanInv, Applying
    <3>4. \A u \in Tasks : /\ tasks'[t] = [plan |-> cmd[s].plan, pins |-> NoPins]
                           /\ u # t => tasks'[u] = tasks[u]
      BY <3>1, <3>2 DEF PlanInv
    <3> QED BY <3>1, <3>2, <3>3, <3>4 DEF PlanInv, Cat!RowsResolve
  <2> QED BY <2>1, <2>2
<1>10. ASSUME NEW t \in Tasks, NEW p \in PlanNames, NEW pins \in Pins, Cat!AddTask(s, t, p, pins)
       PROVE  PlanInv'
  BY <1>10 DEF Cat!AddTask, Cat!Begin, PlanInv, Applying, Cat!RowsResolve
<1>11. ASSUME NEW t \in Tasks, Cat!Freeze(s, t) PROVE PlanInv'
  BY <1>11, PlanQuiet DEF Cat!Freeze, Cat!Begin, Cat!tables, Cat!past
<1>12. CASE Cat!FreezePlan(s)
  <2>1. PICK c : /\ cmd' = [cmd EXCEPT ![s] = c]
                 /\ c = Cat!Idle \/ c = [cmd[s] EXCEPT !.pc = "epoch"]
    BY <1>12 DEF Cat!FreezePlan, Cat!Become
  <2>2. c.pc # "rows"
    BY <2>1 DEF HavePc
  <2> QED BY <1>12, <2>1, <2>2, PlanQuiet DEF Cat!FreezePlan, Cat!tables, Cat!past
<1>13. CASE Cat!FreezeEpoch(s)
  BY <1>13, PlanQuiet DEF Cat!FreezeEpoch, Cat!Become, Cat!tables
<1>14. CASE Cat!Kill(s)
  BY <1>14, PlanQuiet DEF Cat!Kill, Cat!tables, Cat!past
<1> QED BY <1>2, <1>3, <1>4, <1>5, <1>6, <1>7, <1>8, <1>9, <1>10, <1>11, <1>12, <1>13, <1>14
        DEF CommandStep

-----------------------------------------------------------------------------
(* Epochs *)

EpochRows == [sealed : BOOLEAN, cutoff : Cutoffs \union {"none"}]

\* What a command is about to write it has seen unsealed, and what it saw of
\* the row is still so; packs name epochs that are sealed.
Seen(s) ==
    /\ cmd[s].pc \in {"look", "write"} =>
          /\ {"pc", "name", "row"} = DOMAIN cmd[s]
          /\ cmd[s].name \in EpochNames /\ cmd[s].row \in EpochRows
    /\ cmd[s].pc = "write" => ~epochs[cmd[s].name].sealed

EpochInv ==
    /\ epochs \in [EpochNames -> EpochRows]
    /\ \A s \in Sessions : Seen(s)
    /\ \A k \in packs : k.epoch \in EpochNames
    /\ Cat!PackEpochStands

\* A step that leaves the epochs and the packs alone.
LEMMA EpochQuiet ==
    ASSUME HavePc, EpochInv, NEW s \in Sessions, NEW c, c.pc \notin {"look", "write"},
           cmd' = [cmd EXCEPT ![s] = c], UNCHANGED <<epochs, packs>>
    PROVE  EpochInv'
BY DEF HavePc, EpochInv, Seen, Cat!PackEpochStands

LEMMA EpochStep ==
    OneCommand /\ HavePc /\ EpochInv /\ [Cat!Next]_catalog => EpochInv'
<1> SUFFICES ASSUME OneCommand, HavePc, EpochInv, [Cat!Next]_catalog PROVE EpochInv'
  OBVIOUS
<1> USE DEF Cat!Idle
<1>1. CASE UNCHANGED catalog
  BY <1>1 DEF catalog, Cat!tables, Cat!past, EpochInv, Seen, Cat!PackEpochStands
<1> SUFFICES ASSUME Cat!Next PROVE EpochInv'
  BY <1>1
<1>2. PICK s \in Sessions : CommandStep(s)
  BY DEF Cat!Next, CommandStep
<1>3. ASSUME NEW m \in Missions, Cat!CreateMission(s, m) \/ Cat!CloseMission(s, m) PROVE EpochInv'
  BY <1>3, EpochQuiet DEF Cat!CreateMission, Cat!CloseMission, Cat!Begin, Cat!past
<1>4. ASSUME NEW e \in EpochNames, NEW row \in EpochRows, UNCHANGED <<epochs, packs>>,
             cmd' = [cmd EXCEPT ![s] = [pc |-> "look", name |-> e, row |-> row]]
      PROVE  EpochInv'
  BY <1>4 DEF HavePc, EpochInv, Seen, Cat!PackEpochStands
<1>5. ASSUME NEW e \in EpochNames, Cat!SealEpoch(s, e) PROVE EpochInv'
  <2>1. CASE epochs[e] = Cat!NoEpoch \/ epochs[e].sealed
    BY <1>5, <2>1, EpochQuiet DEF Cat!SealEpoch, Cat!Begin, Cat!tables, Cat!past
  <2>2. CASE ~(epochs[e] = Cat!NoEpoch \/ epochs[e].sealed)
    <3>1. [epochs[e] EXCEPT !.sealed = TRUE] \in EpochRows
      BY DEF EpochInv, EpochRows
    <3> QED BY <1>5, <2>2, <3>1, <1>4 DEF Cat!SealEpoch, Cat!Begin, Cat!tables, Cat!past
  <2> QED BY <2>1, <2>2
<1>6. ASSUME NEW e \in EpochNames, NEW k \in Cutoffs, NEW b \in BOOLEAN, Cat!OpenEpoch(s, e, k, b)
      PROVE  EpochInv'
  <2>1. [sealed |-> b, cutoff |-> k] \in EpochRows
    BY DEF EpochRows
  <2> QED BY <1>6, <2>1, <1>4 DEF Cat!OpenEpoch, Cat!Begin, Cat!tables, Cat!past
<1>7. CASE Cat!LookEpoch(s)
  <2>1. cmd[s].pc = "look" /\ UNCHANGED <<epochs, packs>>
    BY <1>7 DEF Cat!LookEpoch, Cat!tables, Cat!past
  <2>2. CASE epochs[cmd[s].name].sealed
    BY <1>7, <2>1, <2>2, EpochQuiet DEF Cat!LookEpoch, Cat!Become
  <2>3. CASE ~epochs[cmd[s].name].sealed
    <3>1. cmd' = [cmd EXCEPT ![s] = [cmd[s] EXCEPT !.pc = "write"]]
      BY <1>7, <2>3 DEF Cat!LookEpoch, Cat!Become
    <3>2. /\ cmd'[s].name = cmd[s].name /\ cmd'[s].row = cmd[s].row
          /\ DOMAIN cmd'[s] = DOMAIN cmd[s] /\ cmd'[s].pc = "write"
          /\ \A r \in Sessions : r # s => cmd'[r] = cmd[r]
      <4>1. DOMAIN cmd[s] = {"pc", "name", "row"}
        BY <2>1 DEF EpochInv, Seen
      <4> QED BY <3>1, <4>1 DEF HavePc
    <3>3. \A r \in Sessions : Seen(r)'
      BY <3>2, <2>1, <2>3 DEF OneCommand, EpochInv, Seen
    <3> QED BY <2>1, <3>3 DEF EpochInv, Cat!PackEpochStands
  <2> QED BY <2>2, <2>3
<1>8. CASE Cat!WriteEpoch(s)
  <2>1. /\ epochs' = [epochs EXCEPT ![cmd[s].name] = cmd[s].row]
        /\ cmd' = [cmd EXCEPT ![s] = Cat!Idle] /\ packs' = packs
        /\ cmd[s].name \in EpochNames /\ cmd[s].row \in EpochRows
        /\ ~epochs[cmd[s].name].sealed
    BY <1>8 DEF Cat!WriteEpoch, Cat!Become, Cat!past, EpochInv, Seen
  <2>2. epochs' \in [EpochNames -> EpochRows]
    BY <2>1 DEF EpochInv
  <2>3. \A r \in Sessions : Seen(r)'
    BY <2>1 DEF OneCommand, HavePc, Seen
  <2>4. ASSUME NEW k \in packs
        PROVE  k.epoch \in EpochNames /\ epochs'[k.epoch] = [sealed |-> TRUE, cutoff |-> k.cutoff]
    <3>1. epochs[k.epoch] = [sealed |-> TRUE, cutoff |-> k.cutoff] /\ k.epoch \in EpochNames
      BY DEF EpochInv, Cat!PackEpochStands
    <3>2. k.epoch # cmd[s].name
      BY <3>1, <2>1
    <3> QED BY <3>1, <3>2, <2>1 DEF EpochInv
  <2> QED BY <2>1, <2>2, <2>3, <2>4 DEF EpochInv, Cat!PackEpochStands
<1>9. ASSUME NEW p \in PlanNames, NEW nodes \in SUBSET Tasks, Cat!ApplyPlan(s, p, nodes)
      PROVE  EpochInv'
  BY <1>9, EpochQuiet DEF Cat!ApplyPlan, Cat!Begin, Cat!past
<1>10. CASE Cat!PutRow(s)
  <2>1. \A S : [cmd[s] EXCEPT !.left = S].pc = cmd[s].pc
    BY DEF HavePc
  <2>2. cmd[s].pc = "rows" /\ UNCHANGED <<epochs, packs>>
    BY <1>10 DEF Cat!PutRow
  <2>3. \/ cmd' = [cmd EXCEPT ![s] = Cat!Idle]
        \/ \E t : cmd' = [cmd EXCEPT ![s] = [cmd[s] EXCEPT !.left = @ \ {t}]]
    BY <1>10 DEF Cat!PutRow, Cat!Become
  <2> QED BY <2>1, <2>2, <2>3, EpochQuiet
<1>11. ASSUME NEW t \in Tasks, NEW p \in PlanNames, NEW pins \in Pins, Cat!AddTask(s, t, p, pins)
       PROVE  EpochInv'
  BY <1>11, EpochQuiet DEF Cat!AddTask, Cat!Begin
<1>12. ASSUME NEW t \in Tasks, Cat!Freeze(s, t) PROVE EpochInv'
  BY <1>12, EpochQuiet DEF Cat!Freeze, Cat!Begin, Cat!tables, Cat!past
<1>13. CASE Cat!FreezePlan(s)
  <2>1. [cmd[s] EXCEPT !.pc = "epoch"].pc = "epoch"
    BY DEF HavePc
  <2> QED BY <1>13, <2>1, EpochQuiet DEF Cat!FreezePlan, Cat!Become, Cat!tables, Cat!past
<1>14. CASE Cat!FreezeEpoch(s)
  <2>1. cmd' = [cmd EXCEPT ![s] = Cat!Idle] /\ UNCHANGED epochs
    BY <1>14 DEF Cat!FreezeEpoch, Cat!Become, Cat!tables
  <2>2. CASE packs' = packs
    BY <2>1, <2>2, EpochQuiet
  <2>3. CASE packs' # packs
    <3> DEFINE known == {e \in EpochNames : epochs[e] # Cat!NoEpoch}
               k == [task |-> cmd[s].task, epoch |-> Cat!LastEpoch,
                     cutoff |-> epochs[Cat!LastEpoch].cutoff, pins |-> cmd[s].row.pins]
    <3>1. packs' = packs \union {k} /\ Cat!LastEpoch # 0 /\ epochs[Cat!LastEpoch].sealed
      BY <1>14, <2>3 DEF Cat!FreezeEpoch
    <3>2. known # {} /\ Cat!LastEpoch = CHOOSE e \in known : \A f \in known : f <= e
      BY <3>1 DEF Cat!LastEpoch
    <3>3. \E e \in known : \A f \in known : f <= e
      <4>1. known \in SUBSET EpochNames
        OBVIOUS
      <4> QED BY <4>1, <3>2, Named
    <3>4. Cat!LastEpoch \in EpochNames
      BY <3>2, <3>3
    <3>5. epochs[Cat!LastEpoch] = [sealed |-> TRUE, cutoff |-> epochs[Cat!LastEpoch].cutoff]
      BY <3>1, <3>4 DEF EpochInv, EpochRows
    <3>6. \A r \in Sessions : Seen(r)'
      BY <2>1 DEF OneCommand, HavePc, Seen
    <3>7. k.epoch = Cat!LastEpoch /\ k.cutoff = epochs[Cat!LastEpoch].cutoff
      OBVIOUS
    <3> HIDE DEF k
    <3> QED BY <2>1, <3>1, <3>4, <3>5, <3>6, <3>7 DEF EpochInv, Cat!PackEpochStands
  <2> QED BY <2>2, <2>3
<1>15. CASE Cat!Kill(s)
  BY <1>15, EpochQuiet DEF Cat!Kill, Cat!tables, Cat!past
<1> QED BY <1>2, <1>3, <1>5, <1>6, <1>7, <1>8, <1>9, <1>10, <1>11, <1>12, <1>13, <1>14, <1>15
        DEF CommandStep

-----------------------------------------------------------------------------
(* Captures *)

PullFields == {"cmd", "want", "at", "epoch", "hold", "got", "denied", "failed", "index", "kept"}

\* What a pull holds it has put.
Holds(p) ==
    procs[p].cmd \in {"pull", "calls"} =>
        /\ DOMAIN procs[p] = PullFields
        /\ procs[p].cmd = "pull" => procs[p].hold \in cas \union {""}

BackedInv ==
    /\ procs = [p \in Procs |-> procs[p]]
    /\ \A p \in Procs : Holds(p)
    /\ Cap!RowsBacked

\* One process's part of Next.
PullStep(p) ==
    \/ Cap!StartPull(p) \/ Cap!Ask(p) \/ Cap!Record(p) \/ Cap!NextCall(p) \/ Cap!FinishPull(p)
    \/ Cap!Fetch(p) \/ Cap!GateAndCount(p) \/ Cap!CapturePage(p) \/ Cap!Search(p)
    \/ Cap!StartPin(p) \/ Cap!PinRow(p) \/ Cap!Kill(p)

\* A row is added, if any, whose bytes are there; on a capped host only by a
\* command that has passed the cap.
Inserted(p) ==
    \/ rows' = rows
    \/ \E d, note, host, at :
          /\ rows' = Cap!InsertCapture(d, Cap!Row(note, host, at)) /\ d \in cas'
          /\ host = "host" => procs[p].cmd = "page"

LEMMA Inserts ==
    ASSUME BackedInv, NEW p \in Procs, PullStep(p)
    PROVE  cas \subseteq cas' /\ Inserted(p)
<1>1. CASE \/ Cap!StartPull(p) \/ Cap!FinishPull(p) \/ Cap!Fetch(p)
           \/ Cap!GateAndCount(p) \/ Cap!Search(p) \/ Cap!Kill(p)
  BY <1>1 DEF Cap!StartPull, Cap!FinishPull, Cap!Fetch, Cap!GateAndCount, Cap!Search, Cap!Kill,
              Inserted
<1>2. CASE Cap!Ask(p)
  BY <1>2 DEF Cap!Ask, Inserted
<1>3. CASE Cap!Record(p)
  <2>1. cas' = cas /\ procs[p].hold \in cas
    BY <1>3 DEF Cap!Record, Cap!Pulling, BackedInv, Holds
  <2>2. \/ rows' = rows
        \/ rows' = Cap!InsertCapture(procs[p].hold, Cap!Row(Cap!Endpoint(p), "fmp", procs[p].at))
    BY <1>3 DEF Cap!Record
  <2> QED BY <2>1, <2>2 DEF Inserted
<1>4. CASE Cap!NextCall(p)
  <2>1. \/ UNCHANGED <<cas, rows>>
        \/ \E d, at : /\ cas' = cas \union {d}
                      /\ rows' = Cap!InsertCapture(d, Cap!Row("call", "fmp", at))
    BY <1>4 DEF Cap!NextCall
  <2> QED BY <2>1 DEF Inserted
<1>5. CASE Cap!CapturePage(p)
  BY <1>5 DEF Cap!CapturePage, Inserted
<1>6. CASE Cap!StartPin(p)
  BY <1>6 DEF Cap!StartPin, Cap!PinPut, Inserted
<1>7. CASE Cap!PinRow(p)
  BY <1>7 DEF Cap!PinRow, Inserted
<1> QED BY <1>1, <1>2, <1>3, <1>4, <1>5, <1>6, <1>7 DEF PullStep

\* A record fit to be what a process runs next.
Fit(r) ==
    /\ r.cmd \in {"pull", "calls"} =>
          DOMAIN r = PullFields /\ (r.cmd = "pull" => r.hold \in cas' \union {""})
    /\ r.cmd = "page" => ~Cap!CapReached(rows) /\ rows' = rows

\* A step of p leaves the others where they are, and p with such a record.
LEMMA Moves ==
    ASSUME BackedInv, NEW p \in Procs, PullStep(p)
    PROVE  procs' = [procs EXCEPT ![p] = procs'[p]] /\ Fit(procs'[p])
<1>0. ASSUME NEW r, Fit(r), Cap!Next_(p, r)
      PROVE  procs' = [procs EXCEPT ![p] = procs'[p]] /\ Fit(procs'[p])
  <2>1. procs'[p] = r
    BY <1>0 DEF Cap!Next_, BackedInv
  <2> QED BY <1>0, <2>1 DEF Cap!Next_
<1>a. \A exit, got : Fit(Cap!Done(exit, got))
  BY DEF Fit, Cap!Done
<1>b. Fit(Cap!Idle)
  BY DEF Fit, Cap!Idle
<1>1. CASE Cap!StartPull(p)
  <2>1. PICK want : \/ Cap!Next_(p, Cap!Done("usage", 0))
                    \/ Cap!Next_(p, [cmd |-> "pull", want |-> want, at |-> now, epoch |-> epoch,
                                 hold |-> "", got |-> 0, denied |-> FALSE, failed |-> FALSE,
                                 index |-> <<>>, kept |-> <<>>])
    BY <1>1 DEF Cap!StartPull, Cap!Next_
  <2> DEFINE r == [cmd |-> "pull", want |-> want, at |-> now, epoch |-> epoch,
                   hold |-> "", got |-> 0, denied |-> FALSE, failed |-> FALSE,
                   index |-> <<>>, kept |-> <<>>]
  <2>2. Fit(r)
    BY DEF Fit, PullFields
  <2> HIDE DEF r
  <2> QED BY <2>1, <2>2, <1>0, <1>a DEF r
<1>2. CASE Cap!Ask(p)
  <2>1. procs[p].cmd = "pull" /\ DOMAIN procs[p] = PullFields
    BY <1>2 DEF Cap!Ask, Cap!Pulling, BackedInv, Holds
  <2>2. PICK b : \/ Cap!Next_(p, [Cap!Skip(procs[p]) EXCEPT !.denied = TRUE])
                 \/ Cap!Next_(p, [Cap!Skip(procs[p]) EXCEPT !.failed = TRUE])
                 \/ Cap!Next_(p, [procs[p] EXCEPT !.hold = b]) /\ b \in cas'
    BY <1>2 DEF Cap!Ask
  <2>3. Fit([Cap!Skip(procs[p]) EXCEPT !.denied = TRUE])
    BY <2>1 DEF Fit, Cap!Skip, PullFields
  <2>4. Fit([Cap!Skip(procs[p]) EXCEPT !.failed = TRUE])
    BY <2>1 DEF Fit, Cap!Skip, PullFields
  <2>5. b \in cas' => Fit([procs[p] EXCEPT !.hold = b])
    BY <2>1 DEF Fit, PullFields
  <2> QED BY <2>2, <2>3, <2>4, <2>5, <1>0
<1>3. CASE Cap!Record(p)
  <2>1. procs[p].cmd = "pull" /\ DOMAIN procs[p] = PullFields
    BY <1>3 DEF Cap!Record, Cap!Pulling, BackedInv, Holds
  <2>2. PICK i : \/ Cap!Next_(p, [Cap!Skip(procs[p]) EXCEPT !.failed = TRUE])
                 \/ Cap!Next_(p, [Cap!Skip(procs[p]) EXCEPT !.got = @ + 1])
                 \/ Cap!Next_(p, [procs[p] EXCEPT !.cmd = "calls", !.index = i,
                                              !.kept = <<"index">>, !.hold = ""])
    BY <1>3 DEF Cap!Record
  <2>3. Fit([Cap!Skip(procs[p]) EXCEPT !.failed = TRUE])
    BY <2>1 DEF Fit, Cap!Skip, PullFields
  <2>4. Fit([Cap!Skip(procs[p]) EXCEPT !.got = @ + 1])
    BY <2>1 DEF Fit, Cap!Skip, PullFields
  <2>5. Fit([procs[p] EXCEPT !.cmd = "calls", !.index = i, !.kept = <<"index">>, !.hold = ""])
    BY <2>1 DEF Fit, PullFields
  <2> QED BY <2>2, <2>3, <2>4, <2>5, <1>0
<1>4. CASE Cap!NextCall(p)
  <2>1. procs[p].cmd = "calls" /\ DOMAIN procs[p] = PullFields
    BY <1>4 DEF Cap!NextCall, Cap!Pulling, BackedInv, Holds
  <2> DEFINE won  == [procs[p] EXCEPT !.got = @ + Len(procs[p].kept)]
             lost == [procs[p] EXCEPT !.failed = TRUE, !.kept = <<>>]
             end(r) == [Cap!Skip(r) EXCEPT !.cmd = "pull", !.index = <<>>]
  <2>2. PICK i, k : \/ Cap!Next_(p, end(won)) \/ Cap!Next_(p, end(lost))
                    \/ Cap!Next_(p, [procs[p] EXCEPT !.index = i, !.kept = k])
    BY <1>4 DEF Cap!NextCall
  <2>3. ASSUME NEW r, DOMAIN r = PullFields PROVE Fit(end(r))
    BY <2>3 DEF Fit, Cap!Skip, PullFields
  <2>4. DOMAIN won = PullFields /\ DOMAIN lost = PullFields
    BY <2>1
  <2>5. Fit([procs[p] EXCEPT !.index = i, !.kept = k])
    BY <2>1 DEF Fit, PullFields
  <2> HIDE DEF won, lost, end
  <2> QED BY <2>2, <2>3, <2>4, <2>5, <1>0
<1>5. CASE Cap!FinishPull(p)
  BY <1>5, <1>0, <1>a DEF Cap!FinishPull
<1>6. CASE Cap!Fetch(p)
  <2>1. PICK page : \/ Cap!Next_(p, Cap!Done("usage", 0))
                    \/ Cap!Next_(p, [cmd |-> "gate", page |-> page])
    BY <1>6 DEF Cap!Fetch
  <2> DEFINE r == [cmd |-> "gate", page |-> page]
  <2>2. Fit(r)
    BY DEF Fit
  <2> HIDE DEF r
  <2> QED BY <2>1, <2>2, <1>0, <1>a DEF r
<1>7. CASE Cap!GateAndCount(p)
  <2> DEFINE r == [cmd |-> "page", page |-> procs[p].page, at |-> now]
  <2>1. \/ Cap!Next_(p, Cap!Done("policy_denied", 0))
        \/ Cap!Next_(p, r) /\ ~Cap!CapReached(rows)
    BY <1>7 DEF Cap!GateAndCount, Cap!Next_
  <2>2. ~Cap!CapReached(rows) => Fit(r)
    BY <1>7 DEF Cap!GateAndCount, Fit
  <2> HIDE DEF r
  <2> QED BY <2>1, <2>2, <1>0, <1>a
<1>8. CASE Cap!CapturePage(p) \/ Cap!Search(p) \/ Cap!PinRow(p)
  BY <1>8, <1>0, <1>a DEF Cap!CapturePage, Cap!Search, Cap!PinRow
<1>9. CASE Cap!StartPin(p)
  <2>1. PICK page : Cap!Next_(p, [cmd |-> "pin", page |-> page])
    BY <1>9 DEF Cap!StartPin, Cap!PinPut
  <2> DEFINE r == [cmd |-> "pin", page |-> page]
  <2>2. Fit(r)
    BY DEF Fit
  <2> HIDE DEF r
  <2> QED BY <2>1, <2>2, <1>0 DEF r
<1>10. CASE Cap!Kill(p)
  BY <1>10, <1>0, <1>b DEF Cap!Kill, Cap!Next_
<1> QED BY <1>1, <1>2, <1>3, <1>4, <1>5, <1>6, <1>7, <1>8, <1>9, <1>10 DEF PullStep

LEMMA BackedStep == BackedInv /\ [Cap!Next]_captures => BackedInv'
<1> SUFFICES ASSUME BackedInv, [Cap!Next]_captures PROVE BackedInv'
  OBVIOUS
<1>1. CASE UNCHANGED captures \/ Cap!Tick \/ Cap!Reopen \/ Cap!Freeze
  BY <1>1 DEF captures, Cap!Tick, Cap!Reopen, Cap!Freeze, BackedInv, Holds, Cap!RowsBacked
<1>2. ASSUME NEW p \in Procs, PullStep(p) PROVE BackedInv'
  <2>1. cas \subseteq cas' /\ Inserted(p)
    BY <1>2, Inserts
  <2>2. Cap!RowsBacked'
    BY <2>1 DEF Inserted, BackedInv, Cap!RowsBacked, Cap!InsertCapture
  <2>3. /\ procs' = [procs EXCEPT ![p] = procs'[p]]
        /\ Holds(p)'
    BY <1>2, Moves DEF Holds, Fit
  <2>4. \A q \in Procs : Holds(q)'
    BY <2>1, <2>3 DEF BackedInv, Holds
  <2> QED BY <2>2, <2>3, <2>4 DEF BackedInv
<1> QED BY <1>1, <1>2 DEF Cap!Next, PullStep

LEMMA BackedInit == Cap!Init => BackedInv
<1> SUFFICES ASSUME Cap!Init PROVE BackedInv
  OBVIOUS
<1>1. DOMAIN rows = {}
  BY DEF Cap!Init
<1> QED BY <1>1 DEF Cap!Init, BackedInv, Holds, Cap!RowsBacked, Cap!Idle

-----------------------------------------------------------------------------
\* What an epoch can read it can read for ever: the first row of a digest
\* stays.
LEMMA AdmissibleStep == BackedInv /\ Cap!Next => Cap!StaysAdmissible
<1> SUFFICES ASSUME BackedInv, Cap!Next PROVE Cap!StaysAdmissible
  OBVIOUS
<1>1. CASE Cap!Tick \/ Cap!Reopen \/ Cap!Freeze
  BY <1>1 DEF Cap!Tick, Cap!Reopen, Cap!Freeze, Cap!StaysAdmissible
<1>2. ASSUME NEW p \in Procs, PullStep(p) PROVE Cap!StaysAdmissible
  BY <1>2, Inserts DEF Inserted, Cap!InsertCapture, Cap!StaysAdmissible
<1> QED BY <1>1, <1>2 DEF Cap!Next, PullStep

-----------------------------------------------------------------------------
(* The cap *)

\* The same of pulls: rows are counted in one statement and inserted in another.
OnePull == \A p, q \in Procs : p = q

Hosted == {d \in DOMAIN rows : rows[d].host = "host"}

CapInv ==
    /\ BackedInv
    /\ IsFiniteSet(DOMAIN rows)
    /\ Cap!HostCapHolds
    /\ \A p \in Procs : procs[p].cmd = "page" => ~Cap!CapReached(rows)

\* What the counting of rows counts with.
LEMMA Counts == \A S : Cap!Cardinality(S) = Cardinality(S)
BY DEF Cap!Cardinality, Cardinality

LEMMA CapStep ==
    OnePull /\ CapInv /\ [Cap!Next]_captures => CapInv'
<1> SUFFICES ASSUME OnePull, CapInv, [Cap!Next]_captures PROVE CapInv'
  OBVIOUS
<1>0. BackedInv /\ BackedInv'
  BY BackedStep DEF CapInv
<1>1. CASE UNCHANGED captures \/ Cap!Tick \/ Cap!Reopen \/ Cap!Freeze
  BY <1>0, <1>1 DEF captures, Cap!Tick, Cap!Reopen, Cap!Freeze, CapInv, Cap!HostCapHolds,
                    Cap!OnHost, Cap!CapReached
<1>2. ASSUME NEW p \in Procs, PullStep(p) PROVE CapInv'
  <2>1. /\ IsFiniteSet(Hosted) /\ Cap!OnHost(rows) = Cardinality(Hosted)
        /\ Cardinality(Hosted) \in Nat
    BY FS_Subset, FS_CardinalityType, Counts DEF CapInv, Hosted, Cap!OnHost
  <2>2. procs' = [procs EXCEPT ![p] = procs'[p]] /\ Fit(procs'[p]) /\ Inserted(p)
    BY <1>0, <1>2, Moves, Inserts
  <2>3. \A q \in Procs : procs'[q].cmd = "page" => ~Cap!CapReached(rows) /\ rows' = rows
    BY <2>2 DEF OnePull, Fit
  <2>4. CASE rows' = rows
    BY <1>0, <2>3, <2>4 DEF CapInv, Cap!HostCapHolds, Cap!OnHost, Cap!CapReached
  <2>5. CASE rows' # rows
    <3>1. PICK d, note, host, at :
             /\ rows' = Cap!InsertCapture(d, Cap!Row(note, host, at))
             /\ host = "host" => procs[p].cmd = "page"
      BY <2>2, <2>5 DEF Inserted
    <3>2. /\ DOMAIN rows' = DOMAIN rows \union {d}
          /\ \A c \in DOMAIN rows : rows'[c] = rows[c]
          /\ d \notin DOMAIN rows => rows'[d].host = host
      BY <3>1 DEF Cap!InsertCapture, Cap!Row
    <3>3. IsFiniteSet(DOMAIN rows')
      BY <3>2, FS_AddElement DEF CapInv
    <3>4. \A q \in Procs : procs'[q].cmd # "page"
      BY <2>3, <2>5
    <3>5. CASE host = "host" /\ d \notin DOMAIN rows
      <4>1. Hosted' = Hosted \union {d}
        BY <3>2, <3>5 DEF Hosted
      <4>2. Cardinality(Hosted') \in {Cardinality(Hosted), Cardinality(Hosted) + 1}
        BY <4>1, <2>1, FS_AddElement
      <4>3. Cardinality(Hosted) < HostCap
        BY <3>1, <3>5, <2>1, Listed DEF CapInv, Cap!CapReached
      <4>4. Cap!HostCapHolds'
        BY <2>1, <4>2, <4>3, Listed, Counts DEF Cap!HostCapHolds, Cap!OnHost, Hosted
      <4> QED BY <1>0, <3>3, <3>4, <4>4 DEF CapInv
    <3>6. CASE ~(host = "host" /\ d \notin DOMAIN rows)
      <4>1. Hosted' = Hosted
        BY <3>2, <3>6 DEF Hosted
      <4> QED BY <1>0, <3>3, <3>4, <4>1 DEF CapInv, Cap!HostCapHolds, Cap!OnHost, Hosted
    <3> QED BY <3>5, <3>6
  <2> QED BY <2>4, <2>5
<1> QED BY <1>1, <1>2 DEF Cap!Next, PullStep

-----------------------------------------------------------------------------
(* What a pull says of itself *)

\* A pull that has nothing left to ask for captured something, was denied or
\* failed; what it says it got is on record; and of the calls of a transcript
\* index it kept the first it could use.
\* What stands in "kept".
Entries == STRING \union {"index"}

Honest(r, known) ==
    /\ r.cmd \in {"pull", "calls"} =>
          /\ r.want \in Seq(STRING) /\ r.got \in Nat
          /\ r.want = <<>> => r.got > 0 \/ r.denied \/ r.failed
          /\ r.got > 0 => known # {}
    /\ r.cmd = "calls" => /\ known # {} /\ Cap!FirstHeld(r)
                          /\ r.kept \in Seq(Entries) /\ r.kept # <<>>
    /\ r.cmd = "done" /\ r.exit = "ok" => r.got > 0 /\ known # {}

HonestInv ==
    /\ BackedInv
    /\ \A p \in Procs : Honest(procs[p], DOMAIN rows)

\* The rest of an index, one call further.
LEMMA NextRest ==
    ASSUME NEW index \in Seq(STRING), NEW read \in 0..Len(index),
           NEW rest, rest = SubSeq(index, read + 1, Len(index)), rest # <<>>
    PROVE  /\ read + 1 \in 1..Len(index)
           /\ Head(rest) = index[read + 1]
           /\ Tail(rest) = SubSeq(index, read + 2, Len(index))
           /\ rest \in Seq(STRING)
OBVIOUS

\* A call that cannot be used is passed over.
LEMMA PassedOver ==
    ASSUME NEW kept \in Seq(Entries), kept # <<>>,
           NEW index \in Seq(STRING), NEW read \in 0..Len(index),
           read + 1 \in 1..Len(index), index[read + 1] \in {"future", "undated", "blank"},
           NEW places \in [1..Len(kept) - 1 -> 1..read], Cap!KeptAt(kept, index, places, read)
    PROVE  /\ places \in [1..Len(kept) - 1 -> 1..read + 1]
           /\ Cap!KeptAt(kept, index, places, read + 1)
<1> DEFINE m == Len(kept) - 1
<1>1. places \in [1..m -> 1..read] /\ DOMAIN places = 1..m
  OBVIOUS
<1>2. /\ 1..read \subseteq 1..read + 1 /\ 1..read + 1 = 1..read \union {read + 1}
      /\ read + 1 \notin 1..read
  OBVIOUS
<1> HIDE DEF m
<1>3. \A k \in 1..read + 1 :
        (\E i \in 1..m : places[i] = k) <=> index[k] \notin {"future", "undated", "blank"}
  BY <1>1, <1>2 DEF Cap!KeptAt
<1>4. places \in [1..m -> 1..read + 1]
  BY <1>1, <1>2
<1> QED BY <1>1, <1>3, <1>4 DEF Cap!KeptAt, m

\* One that can is kept behind the others.
LEMMA KeptBehind ==
    ASSUME NEW kept \in Seq(Entries), kept # <<>>,
           NEW index \in Seq(STRING), NEW read \in 0..Len(index),
           read + 1 \in 1..Len(index), index[read + 1] \notin {"future", "undated", "blank"},
           NEW places \in [1..Len(kept) - 1 -> 1..read], Cap!KeptAt(kept, index, places, read)
    PROVE  LET more == Append(kept, index[read + 1])
           IN  \E p \in [1..Len(more) - 1 -> 1..read + 1] : Cap!KeptAt(more, index, p, read + 1)
<1> DEFINE more == Append(kept, index[read + 1])
           n == Len(kept)
           all == [i \in 1..n |-> IF i = n THEN read + 1 ELSE places[i]]
<1>1. /\ Len(more) = n + 1 /\ n \in Nat \ {0}
      /\ more[n + 1] = index[read + 1]
      /\ \A i \in 1..n : more[i] = kept[i]
  OBVIOUS
<1>2. /\ DOMAIN places = 1..n - 1
      /\ \A i \in 1..n - 1 : places[i] \in 1..read
      /\ \A i \in 1..n : i # n => i \in 1..n - 1
      /\ \A i, j \in 1..n : i < j => i # n
  BY <1>1
<1> HIDE DEF more, n
<1>3. all \in [1..n -> 1..read + 1]
  BY <1>1 DEF n
<1>4. Cap!KeptAt(more, index, all, read + 1)
  <2>1. \A i, j \in 1..n : i < j => all[i] < all[j]
    BY <1>1, <1>2 DEF Cap!KeptAt
  <2>2. \A i \in 1..n : more[i + 1] = index[all[i]]
    BY <1>1, <1>2 DEF Cap!KeptAt
  <2>3. ASSUME NEW k \in 1..read + 1
        PROVE  (\E i \in 1..n : all[i] = k) <=> index[k] \notin {"future", "undated", "blank"}
    <3>1. CASE k = read + 1
      <4>1. n \in 1..n /\ all[n] = k
        BY <1>1, <3>1
      <4> QED BY <4>1, <3>1
    <3>2. CASE k \in 1..read
      <4>1. n \notin {i \in 1..n : all[i] = k}
        BY <1>1, <3>2
      <4>2. (\E i \in 1..n : all[i] = k) <=> (\E i \in 1..n - 1 : places[i] = k)
        BY <1>1, <1>2, <4>1
      <4> QED BY <4>2, <3>2, <1>2 DEF Cap!KeptAt
    <3> QED BY <3>1, <3>2
  <2> QED BY <1>3, <2>1, <2>2, <2>3 DEF Cap!KeptAt
<1>5. 1..Len(more) - 1 = 1..n
  BY <1>1
<1> QED BY <1>3, <1>4, <1>5 DEF more

LEMMA TailOf == ASSUME NEW s \in Seq(STRING), s # <<>> PROVE Tail(s) \in Seq(STRING)
OBVIOUS

LEMMA PullHonest ==
    ASSUME HonestInv, NEW p \in Procs, PullStep(p), DOMAIN rows \subseteq DOMAIN rows'
    PROVE  Honest(procs'[p], DOMAIN rows')
<1> DEFINE was == procs[p]
<1>1. ASSUME NEW r, Cap!Next_(p, r), Honest(r, DOMAIN rows') PROVE Honest(procs'[p], DOMAIN rows')
  <2>1. procs'[p] = r
    BY <1>1 DEF Cap!Next_, HonestInv, BackedInv
  <2> QED BY <1>1, <2>1
<1>2. /\ was.cmd \in {"pull", "calls"} => DOMAIN was = PullFields
      /\ Honest(was, DOMAIN rows')
  BY DEF HonestInv, BackedInv, Holds, Honest
<1>3. \A exit, got : exit # "ok" => Honest(Cap!Done(exit, got), DOMAIN rows')
  BY DEF Honest, Cap!Done
<1>4. ASSUME NEW c, c \notin {"pull", "calls", "done"}, NEW r, r.cmd = c
      PROVE  Honest(r, DOMAIN rows')
  BY <1>4 DEF Honest
<1>6. CASE Cap!Ask(p)
  <2>1. was.cmd = "pull" /\ was.want # <<>> /\ DOMAIN was = PullFields
    BY <1>6, <1>2 DEF Cap!Ask, Cap!Pulling
  <2>2. PICK b : \/ Cap!Next_(p, [Cap!Skip(was) EXCEPT !.denied = TRUE])
                 \/ Cap!Next_(p, [Cap!Skip(was) EXCEPT !.failed = TRUE])
                 \/ Cap!Next_(p, [was EXCEPT !.hold = b])
    BY <1>6 DEF Cap!Ask
  <2>3. Honest([Cap!Skip(was) EXCEPT !.denied = TRUE], DOMAIN rows')
    BY <1>2, <2>1, TailOf DEF Honest, Cap!Skip, PullFields
  <2>4. Honest([Cap!Skip(was) EXCEPT !.failed = TRUE], DOMAIN rows')
    BY <1>2, <2>1, TailOf DEF Honest, Cap!Skip, PullFields
  <2>5. Honest([was EXCEPT !.hold = b], DOMAIN rows')
    BY <1>2, <2>1 DEF Honest, PullFields
  <2> QED BY <2>2, <2>3, <2>4, <2>5, <1>1
<1>7. CASE Cap!Record(p)
  <2>1. was.cmd = "pull" /\ was.want # <<>> /\ DOMAIN was = PullFields
    BY <1>7, <1>2 DEF Cap!Record, Cap!Pulling
  <2>2. PICK i \in Calls \union {<<>>} :
             \/ Cap!Next_(p, [Cap!Skip(was) EXCEPT !.failed = TRUE])
             \/ DOMAIN rows' # {} /\ Cap!Next_(p, [Cap!Skip(was) EXCEPT !.got = @ + 1])
             \/ /\ DOMAIN rows' # {} /\ i \in Calls
                /\ Cap!Next_(p, [was EXCEPT !.cmd = "calls", !.index = i,
                                            !.kept = <<"index">>, !.hold = ""])
    BY <1>7 DEF Cap!Record, Cap!InsertCapture
  <2>3. Honest([Cap!Skip(was) EXCEPT !.failed = TRUE], DOMAIN rows')
    BY <1>2, <2>1, TailOf DEF Honest, Cap!Skip, PullFields
  <2>4. ASSUME DOMAIN rows' # {} PROVE Honest([Cap!Skip(was) EXCEPT !.got = @ + 1], DOMAIN rows')
    <3> DEFINE r == [Cap!Skip(was) EXCEPT !.got = @ + 1]
    <3> DEFINE skipped == Cap!Skip(was)
    <3>a. /\ DOMAIN skipped = PullFields /\ skipped.cmd = "pull"
          /\ skipped.want = Tail(was.want) /\ skipped.got = was.got
      BY <2>1 DEF Cap!Skip, PullFields
    <3>b. r = [skipped EXCEPT !.got = skipped.got + 1]
      OBVIOUS
    <3> HIDE DEF skipped
    <3>1. r.cmd = "pull" /\ r.want = Tail(was.want) /\ r.got = was.got + 1
      BY <3>a, <3>b DEF PullFields
    <3>2. was.got \in Nat /\ was.want \in Seq(STRING)
      BY <2>1, <1>2 DEF Honest
    <3>c. Tail(was.want) \in Seq(STRING)
      BY <2>1, <3>2, TailOf
    <3> HIDE DEF r
    <3>3. r.want \in Seq(STRING) /\ r.got \in Nat /\ r.got > 0
      BY <3>1, <3>2, <3>c
    <3>4. Honest(r, DOMAIN rows')
      BY <2>4, <3>1, <3>3 DEF Honest
    <3> QED BY <3>4 DEF r
  <2>5. ASSUME DOMAIN rows' # {}, i \in Calls
        PROVE  Honest([was EXCEPT !.cmd = "calls", !.index = i, !.kept = <<"index">>, !.hold = ""],
                      DOMAIN rows')
    <3> DEFINE r == [was EXCEPT !.cmd = "calls", !.index = i, !.kept = <<"index">>, !.hold = ""]
    <3>1. /\ r.cmd = "calls" /\ r.index = i /\ r.kept = <<"index">>
          /\ r.want = was.want /\ r.got = was.got
      BY <2>1 DEF PullFields
    <3>2. i \in Seq(STRING) /\ i = SubSeq(i, 0 + 1, Len(i)) /\ 0 \in 0..Len(i)
      BY <2>5, Listed
    <3> DEFINE none == [k \in 1..0 |-> 0]
    <3>3. none \in [1..Len(<<"index">>) - 1 -> 1..0] /\ Cap!KeptAt(<<"index">>, i, none, 0)
      BY DEF Cap!KeptAt
    <3>4. Cap!FirstHeld(r)
      <4>1. Len(<<"index">>) <= CallLimit + 1
        BY Listed
      <4> HIDE DEF r, none
      <4>2. \E read \in 0..Len(i) :
              /\ r.index = SubSeq(i, read + 1, Len(i))
              /\ \E places \in [1..Len(r.kept) - 1 -> 1..read] : Cap!KeptAt(r.kept, i, places, read)
        <5> WITNESS 0 \in 0..Len(i)
        <5>1. r.index = SubSeq(i, 0 + 1, Len(i))
          BY <3>1, <3>2
        <5>2. none \in [1..Len(r.kept) - 1 -> 1..0] /\ Cap!KeptAt(r.kept, i, none, 0)
          BY <3>1, <3>3
        <5> QED BY <5>1, <5>2
      <4> QED BY <2>5, <3>1, <4>1, <4>2 DEF Cap!FirstHeld
    <3> HIDE DEF r
    <3>5. <<"index">> \in Seq(Entries) /\ <<"index">> # <<>>
      BY DEF Entries
    <3>6. Honest(r, DOMAIN rows')
      BY <2>1, <2>5, <1>2, <3>1, <3>4, <3>5 DEF Honest
    <3> QED BY <3>6 DEF r
  <2> QED BY <2>2, <2>3, <2>4, <2>5, <1>1
<1>8. CASE Cap!NextCall(p)
  <2>1. /\ was.cmd = "calls" /\ was.want # <<>> /\ DOMAIN was = PullFields
        /\ was.want \in Seq(STRING) /\ was.got \in Nat
        /\ was.got > 0 => DOMAIN rows' # {}
        /\ was.kept \in Seq(Entries) /\ was.kept # <<>> /\ DOMAIN rows' # {}
        /\ Cap!FirstHeld(was)
    BY <1>8, <1>2 DEF Cap!NextCall, Cap!Pulling, Honest
  <2> DEFINE won  == [was EXCEPT !.got = @ + Len(was.kept)]
             lost == [was EXCEPT !.failed = TRUE, !.kept = <<>>]
             end(r) == [Cap!Skip(r) EXCEPT !.cmd = "pull", !.index = <<>>]
             call == Head(was.index)
             kept == Cap!TakeCall(was.kept, call)
             on == [was EXCEPT !.index = Tail(@), !.kept = kept]
  <2>2. \/ Cap!Next_(p, end(won)) \/ Cap!Next_(p, end(lost))
        \/ Cap!Next_(p, on) /\ ~Cap!NoMore(was)
    BY <1>8, Zenon DEF Cap!NextCall
  <2>a. Tail(was.want) \in Seq(STRING)
    BY <2>1, TailOf
  <2>b. Len(was.kept) \in Nat \ {0}
    BY <2>1
  <2>3. ASSUME NEW r, DOMAIN r = PullFields, r.want = was.want, r.got \in Nat, r.got > 0 \/ r.failed
        PROVE  Honest(end(r), DOMAIN rows')
    <3>1. /\ end(r).cmd = "pull" /\ end(r).want = Tail(was.want)
          /\ end(r).got = r.got /\ end(r).failed = r.failed
      BY <2>3 DEF Cap!Skip, PullFields
    <3> HIDE DEF end
    <3> QED BY <2>1, <2>3, <2>a, <3>1 DEF Honest
  <2>4. Honest(end(won), DOMAIN rows')
    <3>1. DOMAIN won = PullFields /\ won.want = was.want /\ won.got = was.got + Len(was.kept)
      BY <2>1 DEF PullFields
    <3> HIDE DEF won, end
    <3>2. won.got \in Nat /\ won.got > 0
      BY <2>1, <2>b, <3>1
    <3> QED BY <2>3, <3>1, <3>2
  <2>5. Honest(end(lost), DOMAIN rows')
    <3>1. /\ DOMAIN lost = PullFields /\ lost.want = was.want
          /\ lost.got = was.got /\ lost.failed
      BY <2>1 DEF PullFields
    <3> HIDE DEF lost, end
    <3>2. lost.got \in Nat
      BY <2>1, <3>1
    <3> QED BY <2>3, <3>1, <3>2
  <2>6. ASSUME ~Cap!NoMore(was)
        PROVE  Honest(on, DOMAIN rows')
    <3>a. Len(was.kept) <= CallLimit /\ was.index # <<>>
      BY <2>6, <2>b, Listed DEF Cap!NoMore
    <3>1. PICK index \in Calls : \E read \in 0..Len(index) :
            /\ was.index = SubSeq(index, read + 1, Len(index))
            /\ \E places \in [1..Len(was.kept) - 1 -> 1..read] :
                   Cap!KeptAt(was.kept, index, places, read)
      BY <2>1 DEF Cap!FirstHeld
    <3>8. PICK read \in 0..Len(index) :
            /\ was.index = SubSeq(index, read + 1, Len(index))
            /\ \E places \in [1..Len(was.kept) - 1 -> 1..read] :
                   Cap!KeptAt(was.kept, index, places, read)
      BY <3>1
    <3>2. PICK places \in [1..Len(was.kept) - 1 -> 1..read] :
            Cap!KeptAt(was.kept, index, places, read)
      BY <3>8
    <3>3. index \in Seq(STRING)
      BY Listed
    <3>4. /\ read + 1 \in 1..Len(index) /\ call = index[read + 1]
          /\ Tail(was.index) = SubSeq(index, (read + 1) + 1, Len(index))
      <4>1. read \in 0..Len(index) /\ (read + 1) + 1 = read + 2
        BY <3>3
      <4> QED BY <3>8, <3>3, <3>a, <4>1, NextRest
    <3>5. /\ on.cmd = "calls" /\ on.index = Tail(was.index) /\ on.kept = kept
          /\ on.want = was.want /\ on.got = was.got
      BY <2>1 DEF PullFields
    <3>6. /\ kept \in Seq(Entries) /\ kept # <<>> /\ Len(kept) <= CallLimit + 1
          /\ \E ps \in [1..Len(kept) - 1 -> 1..read + 1] : Cap!KeptAt(kept, index, ps, read + 1)
      <4>1. CASE call \in {"future", "undated", "blank"}
        <5>1. kept = was.kept
          BY <4>1 DEF Cap!TakeCall
        <5>2. \E ps \in [1..Len(was.kept) - 1 -> 1..read + 1] :
                Cap!KeptAt(was.kept, index, ps, read + 1)
          <6> HIDE DEF kept, call
          <6>1. was.kept \in Seq(Entries) /\ was.kept # <<>>
            BY <2>1
          <6>2. index[read + 1] \in {"future", "undated", "blank"}
            BY <4>1, <3>4
          <6> QED BY <6>1, <6>2, <3>2, <3>3, <3>4, PassedOver
        <5>3. Len(was.kept) <= CallLimit + 1
          BY <2>b, <3>a, Listed
        <5> QED BY <5>1, <5>2, <5>3, <2>1
      <4>2. CASE call \notin {"future", "undated", "blank"}
        <5>0. index[read + 1] \in STRING
          BY <3>3, <3>4
        <5>1. kept = Append(was.kept, call) /\ call \in Entries
          <6>1. kept = Append(was.kept, call)
            BY <4>2 DEF Cap!TakeCall
          <6> HIDE DEF kept, call
          <6> QED BY <6>1, <5>0, <3>4 DEF Entries
        <5>2. Len(kept) = Len(was.kept) + 1 /\ kept \in Seq(Entries) /\ Len(was.kept) \in Nat
          <6> HIDE DEF kept, call
          <6> QED BY <5>1, <2>1
        <5>3. \E ps \in [1..Len(kept) - 1 -> 1..read + 1] : Cap!KeptAt(kept, index, ps, read + 1)
          <6> HIDE DEF kept, call
          <6>1. was.kept \in Seq(Entries) /\ was.kept # <<>>
            BY <2>1
          <6>2. kept = Append(was.kept, index[read + 1])
                /\ index[read + 1] \notin {"future", "undated", "blank"}
            BY <4>2, <5>1, <3>4
          <6> QED BY <6>1, <6>2, <3>2, <3>3, <3>4, KeptBehind
        <5>4. kept # <<>> /\ Len(kept) <= CallLimit + 1
          BY <5>2, <3>a, Listed
        <5> QED BY <5>2, <5>3, <5>4
      <4> QED BY <4>1, <4>2
    <3> HIDE DEF on, kept
    <3>7. Cap!FirstHeld(on)
      <4>1. read + 1 \in 0..Len(index)
        BY <3>3, <3>4
      <4> QED BY <3>4, <3>5, <3>6, <4>1 DEF Cap!FirstHeld
    <3> QED BY <2>1, <3>5, <3>6, <3>7 DEF Honest
  <2> HIDE DEF won, lost, end, on
  <2> QED BY <2>2, <2>4, <2>5, <2>6, <1>1
<1>9. CASE Cap!StartPull(p)
  <2> DEFINE start(want) == [cmd |-> "pull", want |-> want, at |-> now, epoch |-> epoch,
                             hold |-> "", got |-> 0, denied |-> FALSE, failed |-> FALSE,
                             index |-> <<>>, kept |-> <<>>]
  <2>1. \/ Cap!Next_(p, Cap!Done("usage", 0))
        \/ \E want \in Wants : Cap!Next_(p, start(want))
    BY <1>9 DEF Cap!StartPull, Cap!Next_
  <2>2. ASSUME NEW want \in Wants PROVE Honest(start(want), DOMAIN rows')
    <3>1. want \in Seq(STRING) /\ want # <<>>
      BY Listed
    <3> QED BY <3>1 DEF Honest
  <2> HIDE DEF start
  <2> QED BY <2>1, <2>2, <1>1, <1>3
<1>10. CASE Cap!FinishPull(p)
  <2>1. /\ was.cmd = "pull" /\ was.want = <<>>
        /\ Cap!Next_(p, Cap!Done(Cap!RefusalExit(was.got, was.denied, was.failed), was.got))
    BY <1>10 DEF Cap!FinishPull
  <2>2. /\ was.got \in Nat /\ (was.got > 0 \/ was.denied \/ was.failed)
        /\ was.got > 0 => DOMAIN rows' # {}
    BY <2>1, <1>2 DEF Honest
  <2>3. Cap!RefusalExit(was.got, was.denied, was.failed) = "ok" => was.got > 0
    BY <2>2 DEF Cap!RefusalExit
  <2>4. Honest(Cap!Done(Cap!RefusalExit(was.got, was.denied, was.failed), was.got), DOMAIN rows')
    BY <2>2, <2>3 DEF Honest, Cap!Done
  <2> QED BY <2>1, <2>4, <1>1
<1>11. CASE Cap!Fetch(p)
  <2>1. PICK page : \/ Cap!Next_(p, Cap!Done("usage", 0))
                    \/ Cap!Next_(p, [cmd |-> "gate", page |-> page])
    BY <1>11 DEF Cap!Fetch
  <2> DEFINE r == [cmd |-> "gate", page |-> page]
  <2>2. Honest(r, DOMAIN rows')
    BY DEF Honest
  <2> HIDE DEF r
  <2> QED BY <2>1, <2>2, <1>1, <1>3 DEF r
<1>12. CASE Cap!GateAndCount(p)
  <2> DEFINE r == [cmd |-> "page", page |-> was.page, at |-> now]
  <2>1. Cap!Next_(p, Cap!Done("policy_denied", 0)) \/ Cap!Next_(p, r)
    BY <1>12 DEF Cap!GateAndCount, Cap!Next_
  <2>2. Honest(r, DOMAIN rows')
    BY DEF Honest
  <2> HIDE DEF r
  <2> QED BY <2>1, <2>2, <1>1, <1>3
<1>13. CASE Cap!CapturePage(p) \/ Cap!PinRow(p)
  <2>1. DOMAIN rows' # {} /\ Cap!Next_(p, Cap!Done("ok", 1))
    BY <1>13 DEF Cap!CapturePage, Cap!PinRow, Cap!InsertCapture
  <2>2. Honest(Cap!Done("ok", 1), DOMAIN rows')
    BY <2>1 DEF Honest, Cap!Done
  <2> QED BY <2>1, <2>2, <1>1
<1>14. CASE Cap!Search(p)
  BY <1>14, <1>1, <1>3 DEF Cap!Search
<1>15. CASE Cap!StartPin(p)
  <2>1. PICK page : Cap!Next_(p, [cmd |-> "pin", page |-> page])
    BY <1>15 DEF Cap!StartPin, Cap!PinPut
  <2> DEFINE r == [cmd |-> "pin", page |-> page]
  <2>2. Honest(r, DOMAIN rows')
    BY DEF Honest
  <2> HIDE DEF r
  <2> QED BY <2>1, <2>2, <1>1 DEF r
<1>16. CASE Cap!Kill(p)
  <2>1. Cap!Next_(p, Cap!Idle)
    BY <1>16 DEF Cap!Kill, Cap!Next_
  <2>2. Honest(Cap!Idle, DOMAIN rows')
    BY DEF Honest, Cap!Idle
  <2> QED BY <2>1, <2>2, <1>1
<1> QED BY <1>6, <1>7, <1>8, <1>9, <1>10, <1>11, <1>12, <1>13, <1>14, <1>15, <1>16 DEF PullStep

LEMMA HonestStep == HonestInv /\ [Cap!Next]_captures => HonestInv'
<1> SUFFICES ASSUME HonestInv, [Cap!Next]_captures PROVE HonestInv'
  OBVIOUS
<1>0. BackedInv /\ BackedInv'
  BY BackedStep DEF HonestInv
<1>1. CASE UNCHANGED captures \/ Cap!Tick \/ Cap!Reopen \/ Cap!Freeze
  <2>1. procs' = procs /\ rows' = rows
    BY <1>1 DEF captures, Cap!Tick, Cap!Reopen, Cap!Freeze
  <2> QED BY <1>0, <2>1 DEF HonestInv
<1>2. ASSUME NEW p \in Procs, PullStep(p) PROVE HonestInv'
  <2>1. DOMAIN rows \subseteq DOMAIN rows'
    BY <1>0, <1>2, Inserts DEF Inserted, Cap!InsertCapture
  <2>2. Honest(procs'[p], DOMAIN rows')
    BY <1>2, <2>1, PullHonest
  <2>3. ASSUME NEW q \in Procs, q # p PROVE Honest(procs'[q], DOMAIN rows')
    <3>1. procs'[q] = procs[q] /\ Honest(procs[q], DOMAIN rows)
      BY <1>0, <1>2, <2>3, Moves DEF HonestInv, BackedInv
    <3> QED BY <2>1, <3>1 DEF Honest
  <2> QED BY <1>0, <2>2, <2>3 DEF HonestInv
<1> QED BY <1>1, <1>2 DEF Cap!Next, PullStep

LEMMA HonestInit == Cap!Init => HonestInv
BY BackedInit DEF Cap!Init, HonestInv, Honest, Cap!Idle

\* A pull never exits 0 without a capture, and keeps the calls it should.
LEMMA HonestSays == HonestInv => Cap!ExitZeroCaptured /\ Cap!LatestCalls
<1> SUFFICES ASSUME HonestInv PROVE Cap!ExitZeroCaptured /\ Cap!LatestCalls
  OBVIOUS
<1>1. DOMAIN rows # {} => rows # <<>>
  OBVIOUS
<1> QED BY <1>1 DEF HonestInv, Honest, Cap!ExitZeroCaptured, Cap!LatestCalls

-----------------------------------------------------------------------------
(* Missions *)

MissionRows == missions = [m \in Missions |-> missions[m]]

LEMMA MissionStep == MissionRows /\ [Cat!Next]_catalog => MissionRows'
<1> SUFFICES ASSUME MissionRows, [Cat!Next]_catalog PROVE MissionRows'
  OBVIOUS
<1>1. CASE UNCHANGED catalog
  BY <1>1 DEF catalog, MissionRows
<1>2. ASSUME NEW s \in Sessions, CommandStep(s) PROVE MissionRows'
  <2>1. \/ missions' = missions
        \/ \E m \in Missions : \E to : missions' = [missions EXCEPT ![m] = to]
    BY <1>2 DEF CommandStep, Cat!CreateMission, Cat!CloseMission, Cat!SealEpoch, Cat!OpenEpoch,
         Cat!LookEpoch, Cat!WriteEpoch, Cat!ApplyPlan, Cat!PutRow, Cat!AddTask, Cat!Freeze,
         Cat!FreezePlan, Cat!FreezeEpoch, Cat!Kill, Cat!tables
  <2> QED BY <2>1 DEF MissionRows
<1> QED BY <1>1, <1>2 DEF Cat!Next, CommandStep

\* A mission closed is not opened again.
LEMMA ClosedStep == MissionRows /\ Cat!Next => Cat!Closed
<1> SUFFICES ASSUME MissionRows, NEW s \in Sessions, CommandStep(s) PROVE Cat!Closed
  BY DEF Cat!Next, CommandStep
<1>1. CASE missions' = missions
  BY <1>1 DEF Cat!Closed
<1>2. ASSUME NEW m \in Missions, Cat!CreateMission(s, m) PROVE Cat!Closed
  BY <1>2 DEF Cat!CreateMission, Cat!Closed, MissionRows
<1>3. ASSUME NEW m \in Missions, Cat!CloseMission(s, m) PROVE Cat!Closed
  BY <1>3 DEF Cat!CloseMission, Cat!Closed, MissionRows
<1>4. \/ missions' = missions
      \/ \E m \in Missions : Cat!CreateMission(s, m) \/ Cat!CloseMission(s, m)
  BY DEF CommandStep, Cat!SealEpoch, Cat!OpenEpoch,
         Cat!LookEpoch, Cat!WriteEpoch, Cat!ApplyPlan, Cat!PutRow, Cat!AddTask, Cat!Freeze,
         Cat!FreezePlan, Cat!FreezeEpoch, Cat!Kill, Cat!tables
<1> QED BY <1>1, <1>2, <1>3, <1>4

-----------------------------------------------------------------------------
(* The parts together *)

StoreInv ==
    \/ part = "together" /\ WholeInv /\ kills = 0
    \/ part = "alone" /\ AloneInv
    \/ part = "catalog" /\ HavePc /\ PlanInv /\ MissionRows
    \/ part = "captures" /\ HonestInv

everything == <<part, objects, catalog, captures>>

\* A step of one part is a step of its component, and leaves the part alone.
LEMMA PartSteps ==
    ASSUME [Next]_everything
    PROVE  /\ part' = part
           /\ part = "together" => [Cas!Next]_objects /\ kills' = kills
           /\ part = "alone" => Cas!Step(Loner) \/ UNCHANGED objects
           /\ part = "catalog" => [Cat!Next]_catalog
           /\ part = "captures" => [Cap!Next]_captures
<1>1. CASE UNCHANGED everything
  BY <1>1 DEF everything, objects
<1>2. CASE Next
  BY <1>2 DEF Next
<1> QED BY <1>1, <1>2

LEMMA WholeInit == Cas!Init => WholeInv
BY TypesInit DEF Cas!Init, WholeInv, Cas!NoFile, Cas!Files

LEMMA AloneInit == Cas!Init => AloneInv
BY TypesInit DEF Cas!Init, AloneInv, Cas!PlacedWhole, Cas!Idle

LEMMA CatalogInit == Cat!Init => HavePc /\ PlanInv /\ MissionRows
<1> SUFFICES ASSUME Cat!Init PROVE HavePc /\ PlanInv /\ MissionRows
  OBVIOUS
<1>1. HavePc /\ MissionRows
  BY DEF Cat!Init, HavePc, Cat!Idle, MissionRows
<1>2. PlanInv
  BY DEF Cat!Init, PlanInv, Applying, Cat!RowsResolve, Cat!Idle
<1> QED BY <1>1, <1>2

LEMMA StoreInvariant == Spec => []StoreInv
<1>1. Init => StoreInv
  BY WholeInit, AloneInit, CatalogInit, HonestInit DEF Init, StoreInv, Cas!Init
<1>2. StoreInv /\ [Next]_everything => StoreInv'
  <2> SUFFICES ASSUME StoreInv, [Next]_everything PROVE StoreInv'
    OBVIOUS
  <2>1. part' = part
    BY PartSteps
  <2>2. CASE part = "together"
    BY <2>1, <2>2, PartSteps, WholeStep DEF StoreInv
  <2>3. CASE part = "alone"
    <3>1. CASE UNCHANGED objects
      BY <3>1, <2>1, <2>3 DEF StoreInv, objects, AloneInv, Types, Cas!PlacedWhole
    <3>2. CASE Cas!Step(Loner)
      BY <3>2, <2>1, <2>3, AloneStep DEF StoreInv
    <3> QED BY <2>3, <3>1, <3>2, PartSteps
  <2>4. CASE part = "catalog"
    BY <2>1, <2>4, PartSteps, PcStep, PlanStep, MissionStep DEF StoreInv
  <2>5. CASE part = "captures"
    BY <2>1, <2>5, PartSteps, HonestStep DEF StoreInv
  <2> QED BY <2>2, <2>3, <2>4, <2>5 DEF StoreInv
<1> QED BY <1>1, <1>2, PTL DEF Spec, everything

\* The object at a digest's address is what it should be: for any number of
\* writers of the same bytes once all came to an end, none killed, and at every
\* moment for one writer killed anywhere and as often as one likes.
THEOREM ObjectsStayWhole == Spec => []ObjectsWhole
<1>1. WholeInv /\ kills = 0 => Cas!WholeAtRest
  BY DEF WholeInv, Types, Attended, Writing, Cas!WholeAtRest, Cas!AtRest, Cas!ReadVerified
<1>2. StoreInv => ObjectsWhole
  BY <1>1 DEF StoreInv, AloneInv, ObjectsWhole
<1> QED BY <1>2, StoreInvariant, PTL

\* However many commands run at one time, and wherever they are killed, no task
\* names a plan that is not there, but one added under such a name.
THEOREM TasksHavePlans == Spec => [](part = "catalog" => Cat!RowsResolve)
<1>1. StoreInv => (part = "catalog" => Cat!RowsResolve)
  BY DEF StoreInv, PlanInv
<1> QED BY <1>1, StoreInvariant, PTL

\* However many pulls, fetches and pins run at one time, and wherever they are
\* killed, every row of the capture index names bytes that are in the store.
THEOREM RowsHaveBytes == Spec => [](part = "captures" => Cap!RowsBacked)
<1>1. StoreInv => (part = "captures" => Cap!RowsBacked)
  BY DEF StoreInv, HonestInv, BackedInv
<1> QED BY <1>1, StoreInvariant, PTL

\* However many pulls run at one time, one exits 0 only if it captured
\* something, and what it keeps of an index of transcripts are the first calls
\* it could use, of indexes of any length.
THEOREM PullsSayWhatTheyDid ==
    Spec => [](part = "captures" => Cap!ExitZeroCaptured /\ Cap!LatestCalls)
<1>1. StoreInv => (part = "captures" => Cap!ExitZeroCaptured /\ Cap!LatestCalls)
  BY HonestSays DEF StoreInv
<1> QED BY <1>1, StoreInvariant, PTL

\* With one command at a time every row names what is there: also a pack its
\* epoch, which stays sealed with the cutoff the pack was frozen under.
THEOREM RowsNameWhatIsThere ==
    ASSUME OneCommand PROVE Spec => []RowsResolve
<1> DEFINE Inv == StoreInv /\ (part = "catalog" => EpochInv)
<1>1. Init => (part = "catalog" => EpochInv)
  <2> SUFFICES ASSUME Init, part = "catalog" PROVE EpochInv
    OBVIOUS
  <2>1. Cat!Init
    BY DEF Init
  <2> QED BY <2>1 DEF Cat!Init, EpochInv, EpochRows, Cat!NoEpoch, Seen, Cat!PackEpochStands,
                      Cat!Idle
<1>2. Inv /\ [Next]_everything => (part = "catalog" => EpochInv)'
  BY OneCommand, PartSteps, EpochStep DEF StoreInv
<1>3. Inv => RowsResolve
  BY DEF StoreInv, PlanInv, HonestInv, BackedInv, EpochInv, RowsResolve
<1> QED BY <1>1, <1>2, <1>3, StoreInvariant, PTL DEF Spec, everything

\* With one pull at a time a pull is honest, and no host ever has more rows
\* than the cap, for any cap and any history of pulls, pins and kills.
THEOREM PullsStayHonest ==
    ASSUME OnePull PROVE Spec => []PullsHonest
<1> DEFINE Inv == StoreInv /\ (part = "captures" => CapInv)
<1>1. Init => (part = "captures" => CapInv)
  <2> SUFFICES ASSUME Init, part = "captures" PROVE CapInv
    OBVIOUS
  <2>1. Cap!Init
    BY DEF Init
  <2>2. DOMAIN rows = {} /\ IsFiniteSet(DOMAIN rows) /\ Cap!OnHost(rows) = 0
    <3>1. DOMAIN rows = {}
      BY <2>1 DEF Cap!Init
    <3>2. {d \in DOMAIN rows : rows[d].host = "host"} = {}
      BY <3>1
    <3> QED BY <3>1, <3>2, FS_EmptySet, Counts DEF Cap!OnHost
  <2>3. \A p \in Procs : procs[p].cmd # "page"
    BY <2>1 DEF Cap!Init, Cap!Idle
  <2> QED BY <2>1, <2>2, <2>3, BackedInit, Listed DEF CapInv, Cap!HostCapHolds
<1>2. Inv /\ [Next]_everything => (part = "captures" => CapInv)'
  BY OnePull, PartSteps, CapStep DEF StoreInv
<1>3. Inv => PullsHonest
  BY HonestSays DEF StoreInv, CapInv, PullsHonest
<1> QED BY <1>1, <1>2, <1>3, StoreInvariant, PTL DEF Spec, everything

\* Whatever runs at one time, a closed mission stays closed, and what an epoch
\* may read of a digest it may read for ever.
THEOREM SettledStays == Spec => NothingTakenBack
<1>1. StoreInv /\ [Next]_everything =>
        [/\ part = "catalog" => Cat!Closed
         /\ part = "captures" => Cap!StaysAdmissible]_<<catalog, captures>>
  <2> SUFFICES ASSUME StoreInv, [Next]_everything, ~UNCHANGED <<catalog, captures>>
               PROVE  /\ part = "catalog" => Cat!Closed
                      /\ part = "captures" => Cap!StaysAdmissible
    OBVIOUS
  <2>1. CASE part = "catalog"
    <3>1. UNCHANGED captures
      BY <2>1 DEF Next, everything
    <3>2. Cat!Next
      BY <2>1, <3>1, PartSteps
    <3> QED BY <2>1, <3>2, ClosedStep DEF StoreInv
  <2>2. CASE part = "captures"
    <3>1. UNCHANGED catalog
      BY <2>2 DEF Next, everything
    <3>2. Cap!Next
      BY <2>2, <3>1, PartSteps
    <3> QED BY <2>2, <3>2, AdmissibleStep DEF StoreInv, HonestInv
  <2> QED BY <2>1, <2>2
<1> QED BY <1>1, StoreInvariant, PTL DEF Spec, everything, NothingTakenBack

=============================================================================
