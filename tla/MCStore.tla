------------------------------- MODULE MCStore -------------------------------
(***************************************************************************)
(* TLC instances of what commands do to .rein without a hand: Cas (writers *)
(* of the same bytes together; one that is alone and killed), Catalog and  *)
(* Captures.  A behaviour is one of one part; the variables of the others  *)
(* stay empty.                                                             *)
(***************************************************************************)
EXTENDS Naturals, Sequences

CONSTANTS Writers, Loner, Blocks, MaxPuts, MaxKills,                  \* of Cas
          Sessions, Missions, EpochNames, Cutoffs, PlanNames, Tasks,  \* of Catalog
          Pins, NoPins, MaxCommands, MaxCrashes,
          Procs, Wants, Pages, Calls, HostCap, CallLimit, MaxTime,    \* of Captures
          MaxPulls                                                    \* its MaxCommands

\* Bytes that are some, and writers one of whom may be left alone.
ASSUME Written == Blocks \in Nat \ {0} /\ MaxPuts \in Nat /\ Loner \in Writers

\* No task has the name that stands for an absent plan; of any rows of the
\* epoch table one has the last name.
ASSUME Named == /\ "none" \notin Tasks
                /\ 0 \notin EpochNames
                /\ \A S \in SUBSET EpochNames : S # {} => \E e \in S : \A f \in S : f <= e

\* A pull asks for something.
ASSUME Listed == /\ Wants \subseteq Seq(STRING) \ {<<>>} /\ Calls \subseteq Seq(STRING)
                 /\ HostCap \in Nat /\ CallLimit \in Nat

VARIABLES part,
          content, staging, object, writer, puts, kills,
          missions, epochs, plans, tasks, cmd, packs, refused, strays, commands, crashes,
          now, epoch, cas, rows, procs, ungated, spent, pinned

objects  == <<content, staging, object, writer, puts, kills>>
catalog  == <<missions, epochs, plans, tasks, cmd, packs, refused, strays, commands, crashes>>
captures == <<now, epoch, cas, rows, procs, ungated, spent, pinned>>

NoObjects  == /\ content = 0 /\ staging = 0 /\ object = 0 /\ writer = 0
              /\ puts = 0 /\ kills = 0
NoCatalog  == /\ missions = 0 /\ epochs = 0 /\ plans = 0 /\ tasks = 0 /\ cmd = 0 /\ packs = 0
              /\ refused = 0 /\ strays = 0 /\ commands = 0 /\ crashes = 0
NoCaptures == /\ now = 0 /\ epoch = 0 /\ cas = 0 /\ rows = 0 /\ procs = 0
              /\ ungated = 0 /\ spent = 0 /\ pinned = 0

-----------------------------------------------------------------------------
Cas == INSTANCE Cas
Cat == INSTANCE Catalog
Cap == INSTANCE Captures WITH MaxCommands <- MaxPulls

\* Two cadences of one statement, transcripts of which some cannot be used.
SomeWants == {<<"quote">>, <<"income", "income-q">>, <<"transcripts">>}
SomeCalls == {<<"future", "blank", "held1">>, <<"held1", "held2">>, <<"undated", "blank">>}

Init ==
    \/ part \in {"together", "alone"} /\ Cas!Init /\ NoCatalog /\ NoCaptures
    \/ part = "catalog" /\ Cat!Init /\ NoObjects /\ NoCaptures
    \/ part = "captures" /\ Cap!Init /\ NoObjects /\ NoCatalog

Next ==
    /\ UNCHANGED part
    /\ \/ part = "together" /\ Cas!Next /\ UNCHANGED <<kills, catalog, captures>>
       \/ part = "alone" /\ Cas!Step(Loner) /\ UNCHANGED <<catalog, captures>>
       \/ part = "catalog" /\ Cat!Next /\ UNCHANGED <<objects, captures>>
       \/ part = "captures" /\ Cap!Next /\ UNCHANGED <<objects, catalog>>

Spec == Init /\ [][Next]_<<part, objects, catalog, captures>>

-----------------------------------------------------------------------------
\* Writers of the same bytes may fail, and show a reader half an object for a
\* while, but once all came to an end the object is not corrupt.  One writer at
\* a time, killed anywhere, leaves it absent or whole, so a put that finds it
\* may rely on it.
ObjectsWhole == /\ part = "together" => Cas!WholeAtRest
                /\ part = "alone" => Cas!PlacedWhole

\* Every row names what is there, wherever a command was killed: a task its
\* plan, a pack an epoch that is still sealed with the cutoff it was frozen
\* under, a capture its bytes.
RowsResolve == /\ part = "catalog" => Cat!RowsResolve /\ Cat!PackEpochStands
               /\ part = "captures" => Cap!RowsBacked

\* A pull keeps what it says: it exits 0 only if it captured something, keeps
\* the first transcripts that were held and have a text, and with one command
\* at a time no host exceeds its cap.
PullsHonest ==
    part = "captures" => Cap!ExitZeroCaptured /\ Cap!LatestCalls /\ Cap!HostCapHolds

\* What was settled is not taken back: a mission closed is not opened by
\* creating it again, and pulling the same bytes again takes from no epoch what
\* it could read.
NothingTakenBack ==
    [][/\ part = "catalog" => Cat!Closed
       /\ part = "captures" => Cap!StaysAdmissible]_<<catalog, captures>>

=============================================================================
