--------------------------------- MODULE Cas ---------------------------------
(***************************************************************************)
(* The content-addressed store: one digest, writers of other processes     *)
(* that all have its bytes.  put looks whether the object is there, stages *)
(* the bytes under a name derived from the digest alone, and renames.  One *)
(* action is one system call; a writer may die between any two.            *)
(***************************************************************************)
EXTENDS Naturals, FiniteSets

CONSTANTS
    Writers,    \* processes that put these bytes
    Blocks,     \* the bytes, as blocks written one after another
    MaxPuts,    \* bound: puts begun
    MaxKills    \* bound: writers killed

VARIABLES
    content,   \* per file: the blocks in it
    staging,   \* the file named .staging-<hex>, or NoFile
    object,    \* the file at the digest's path, or NoFile
    writer,    \* per writer: [pc, file, block]
    puts,      \* puts begun
    kills      \* writers killed

vars == <<content, staging, object, writer, puts, kills>>

NoFile == 0
Files  == 1..MaxPuts
Whole  == 1..Blocks
Idle   == [pc |-> "idle", file |-> NoFile, block |-> 0]

Ended(s) == [Idle EXCEPT !.pc = s]
AtRest(w) == writer[w].pc \in {"idle", "stored", "failed"}

Init ==
    /\ content = [f \in Files |-> {}]
    /\ staging = NoFile /\ object = NoFile
    /\ writer = [w \in Writers |-> Idle] /\ puts = 0 /\ kills = 0

\* put: an object already at its address is not written again.
Look(w) ==
    /\ AtRest(w) /\ puts < MaxPuts
    /\ puts' = puts + 1
    /\ writer' = [writer EXCEPT ![w] =
                     IF object # NoFile THEN Ended("stored") ELSE [Idle EXCEPT !.pc = "create"]]
    /\ UNCHANGED <<content, staging, object, kills>>

\* File::create truncates what is staged, or makes a file.
Create(w) ==
    /\ writer[w].pc = "create"
    /\ \E f \in Files :
         /\ IF staging # NoFile THEN f = staging
            ELSE f # object /\ content[f] = {} /\ \A v \in Writers : writer[v].file # f
         /\ staging' = f
         /\ content' = [content EXCEPT ![f] = {}]
         /\ writer' = [writer EXCEPT ![w] = [pc |-> "write", file |-> f, block |-> 0]]
    /\ UNCHANGED <<object, puts, kills>>

\* write_all, a block at a time at this handle's own offset; then sync_all.
Write(w) ==
    LET b == writer[w].block + 1
    IN  /\ writer[w].pc = "write"
        /\ content' = [content EXCEPT ![writer[w].file] = @ \union {b}]
        /\ writer' = [writer EXCEPT ![w].block = b,
                                    ![w].pc = IF b = Blocks THEN "rename" ELSE "write"]
        /\ UNCHANGED <<staging, object, puts, kills>>

\* Mutant of Rename: the object is put in place as soon as it is created.
RenameEarly(w) ==
    /\ writer[w].pc \in {"write", "rename"} /\ staging = writer[w].file
    /\ object' = staging /\ staging' = NoFile
    /\ writer' = [writer EXCEPT ![w].pc = IF @ = "rename" THEN "stored" ELSE @]
    /\ UNCHANGED <<content, puts, kills>>

\* The name is renamed, whatever file it names by now; none is an error.
Rename(w) ==
    /\ writer[w].pc = "rename"
    /\ IF staging = NoFile
       THEN writer' = [writer EXCEPT ![w] = Ended("failed")] /\ UNCHANGED <<staging, object>>
       ELSE /\ object' = staging /\ staging' = NoFile
            /\ writer' = [writer EXCEPT ![w] = Ended("stored")]
    /\ UNCHANGED <<content, puts, kills>>

Kill(w) ==
    /\ ~AtRest(w) /\ kills < MaxKills
    /\ writer' = [writer EXCEPT ![w] = Idle]
    /\ kills' = kills + 1
    /\ UNCHANGED <<content, staging, object, puts>>

Work(w) == Create(w) \/ Write(w) \/ Rename(w)

Step(w) == Look(w) \/ Work(w) \/ Kill(w)

Next == \E w \in Writers : Step(w)

Spec == Init /\ [][Next]_vars
FairSpec == Spec /\ \A w \in Writers : WF_vars(Work(w))

-----------------------------------------------------------------------------
\* read_verified: a fresh handle, and a rehash of what was read.
ReadVerified == CASE object = NoFile           -> "absent"
                  [] content[object] = Whole   -> "ok"
                  [] OTHER                     -> "corrupt"

TypeOK ==
    /\ content \in [Files -> SUBSET Whole]
    /\ {staging, object} \subseteq Files \union {NoFile}
    /\ \A w \in Writers :
          /\ writer[w].pc \in {"idle", "create", "write", "rename", "stored", "failed"}
          /\ writer[w].file \in Files \union {NoFile} /\ writer[w].block \in 0..Blocks

\* With one writer at a time, killed wherever it may be: the object is absent
\* or whole, so a put that finds it there may rely on it.
PlacedWhole == object # NoFile => content[object] = Whole

\* Writers that collide on the staging file may fail, and may for a while show
\* a reader half an object, but when all of them have come to an end, none
\* killed, the object reads back.
WholeAtRest ==
    (kills = 0 /\ \A w \in Writers : AtRest(w)) => ReadVerified # "corrupt"

-----------------------------------------------------------------------------
(* What the documentation says, and the code does not keep. *)

\* The comment on put says it is idempotent: nobody was killed, and yet a put
\* of bytes that are being put fails.
PutIdempotent == kills = 0 => \A w \in Writers : writer[w].pc # "failed"

=============================================================================
