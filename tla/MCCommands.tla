----------------------------- MODULE MCCommands -----------------------------
(***************************************************************************)
(* TLC instances of Engine beyond one command on one task.  The part       *)
(* "queue" is RecoveryConsole beside commands that are killed; in "at      *)
(* once" two commands run at a time, one of them killed; in "two" two      *)
(* tasks change their inputs between commands.  A behaviour is of one part *)
(* and both invariants are checked in all of them.  (Busy counts the       *)
(* session s only, which makes QueueRight the stronger in "at once".)      *)
(***************************************************************************)
EXTENDS RecoveryConsole

VARIABLE part

GoodCommit == [Required -> {"verified"}]

AtOnce == INSTANCE RecoveryConsole WITH
    Sessions <- {"r", "s"}, Hashes <- {"h", "i"}, HandModes <- {"completed", "lost"},
    MaxCancels <- 0, MaxTime <- 0

Two == INSTANCE RecoveryConsole WITH
    Tasks <- {"t", "u"}, Hashes <- {"h", "i"}, HandModes <- {"unregistered", "completed"},
    MaxCrashes <- 0, MaxCancels <- 0, MaxTime <- 0

PartsInit ==
    \/ part = "queue" /\ ConsoleInit
    \/ part = "at once" /\ AtOnce!ConsoleInit
    \/ part = "two" /\ Two!ConsoleInit

PartsNext ==
    /\ UNCHANGED part
    /\ \/ part = "queue" /\ ConsoleNext
       \/ part = "at once" /\ AtOnce!ConsoleNext
       \/ part = "two" /\ Two!ConsoleNext

PartsSpec == PartsInit /\ [][PartsNext]_<<part, consoleVars>>

=============================================================================
