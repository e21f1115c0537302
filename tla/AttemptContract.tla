--------------------------- MODULE AttemptContract ---------------------------
(***************************************************************************)
(* What the harness promises of attempts and tasks, without receipts,      *)
(* stores, sessions or crashes.                                            *)
(*                                                                         *)
(* An admitted attempt is open until it is judged, once and for good.  It  *)
(* may be lost on the way, and then somebody either resumes it or gives it *)
(* up as unknown.  A task is satisfied by choosing one of its attempts     *)
(* that was judged a success.  It stays satisfied from then on; the choice *)
(* itself may still move, but only to an earlier attempt of the task.      *)
(***************************************************************************)
EXTENDS Naturals

CONSTANTS
    Tasks,      \* tasks
    Judgements  \* what an attempt may be judged; "success", "unknown" among them

VARIABLES
    phase,      \* of each admitted attempt: open, lost, or its verdict
    owner,      \* of each admitted attempt: its task
    chosen      \* of each task: the attempt that satisfies it, 0 for none

vars == <<phase, owner, chosen>>

Init ==
    /\ phase = <<>> /\ owner = <<>>
    /\ chosen = [t \in Tasks |-> 0]

\* f, and v for a.
With(f, a, v) == [x \in DOMAIN f \union {a} |-> IF x = a THEN v ELSE f[x]]

Admit(a, t) ==
    /\ a > 0 /\ a \notin DOMAIN phase
    /\ phase' = With(phase, a, "open")
    /\ owner' = With(owner, a, t)
    /\ UNCHANGED chosen

Move(a, from, to) ==
    /\ phase[a] = from
    /\ phase' = [phase EXCEPT ![a] = to]
    /\ UNCHANGED <<owner, chosen>>

Lose(a)     == Move(a, "open", "lost")
Resume(a)   == Move(a, "lost", "open")
GiveUp(a)   == Move(a, "lost", "unknown")
Judge(a, v) == v # "unknown" /\ Move(a, "open", v)

Choose(a) ==
    /\ phase[a] = "success"
    /\ chosen[owner[a]] = 0 \/ a < chosen[owner[a]]
    /\ chosen' = [chosen EXCEPT ![owner[a]] = a]
    /\ UNCHANGED <<phase, owner>>

Next ==
    \/ \E a \in DOMAIN phase' \ DOMAIN phase : Admit(a, owner'[a])
    \/ \E a \in DOMAIN phase :
          Lose(a) \/ Resume(a) \/ GiveUp(a) \/ Choose(a)
          \/ \E v \in Judgements : Judge(a, v)

Spec == Init /\ [][Next]_vars

=============================================================================
