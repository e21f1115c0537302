------------------------------ MODULE Captures ------------------------------
(***************************************************************************)
(* Market data capture (rein-finance capture.rs, the data commands and the *)
(* captures table): live pulls gated by the epoch's cutoff, bytes put in   *)
(* the CAS, one row per digest, a cap per host, and packs pinning what was *)
(* captured.  A digest is its bytes; bytes are model strings.              *)
(***************************************************************************)
EXTENDS Naturals, Sequences, FiniteSets

CONSTANTS
    Procs,            \* commands that may run at one time
    Wants,            \* the lists of endpoints a `data pull' may ask for
    Pages,            \* the pages of one host
    Calls,            \* the transcript indexes a provider may answer with
    HostCap,          \* MAX_CAPTURES_PER_HOST
    CallLimit,        \* transcripts per pull
    MaxTime,          \* bound on the clock
    MaxCommands       \* bound on commands and changes of epoch

VARIABLES
    now, epoch,       \* the clock; [mode, cutoff, sealed] of the last epoch
    cas, rows,        \* objects; per captured digest its row
    procs,            \* per process the command it runs
    ungated,          \* history: a live request was sent that the gate refuses
    spent,            \* commands and changes of epoch so far
    pinned            \* history: [digest, cutoff] frozen into packs

vars == <<now, epoch, cas, rows, procs, ungated, spent, pinned>>

Idle == [cmd |-> "idle"]
Done(exit, got) == [cmd |-> "done", exit |-> exit, got |-> got]

Epochs == [mode : {"eval", "production"}, cutoff : 0..MaxTime, sealed : BOOLEAN]

\* ensure_live_permitted.
LivePermitted(e, t) == e.mode = "production" /\ e.cutoff >= t

\* capture_admissible.
Admissible(row, e) == row.retrieved <= e.cutoff

\* Mutant of InsertCapture: the row of a digest is replaced.
InsertOrReplace(digest, row) ==
    [d \in DOMAIN rows \union {digest} |-> IF d = digest THEN row ELSE rows[d]]

\* Store::insert_capture: INSERT OR IGNORE, by digest.
InsertCapture(digest, row) ==
    [d \in DOMAIN rows \union {digest} |-> IF d \in DOMAIN rows THEN rows[d] ELSE row]

\* "got" is when the bytes really came; the store does not know it.
Row(note, host, retrieved) ==
    [note |-> note, host |-> host, retrieved |-> retrieved, got |-> now]

-----------------------------------------------------------------------------
Spend == spent < MaxCommands /\ spent' = spent + 1

Init ==
    /\ now = 0 /\ epoch \in Epochs
    /\ cas = {} /\ rows = <<>>
    /\ procs = [p \in Procs |-> Idle]
    /\ ungated = FALSE /\ spent = 0 /\ pinned = {}

Tick ==
    /\ now < MaxTime
    /\ now' = now + 1
    /\ UNCHANGED <<spent, epoch, cas, rows, procs, ungated, pinned>>

\* Another epoch is opened and sealed, or still open.
Reopen ==
    /\ Spend
    /\ \A p \in Procs : procs[p].cmd \in {"idle", "done"}
    /\ epoch' \in Epochs /\ epoch' # epoch
    /\ UNCHANGED <<now, cas, rows, procs, ungated, pinned>>

Kill(p) ==
    /\ procs[p].cmd \notin {"idle", "done"}
    /\ procs' = [procs EXCEPT ![p] = Idle]
    /\ UNCHANGED <<spent, now, epoch, cas, rows, ungated, pinned>>

Free(p) == procs[p].cmd \in {"idle", "done"} /\ Spend

-----------------------------------------------------------------------------
(* data pull: one time stamp for the whole command. *)

StartPull(p) ==
    /\ Free(p)
    /\ IF epoch.sealed
       THEN \E want \in Wants :
              procs' = [procs EXCEPT ![p] =
                  [cmd |-> "pull", want |-> want, at |-> now, epoch |-> epoch, hold |-> "",
                   got |-> 0, denied |-> FALSE, failed |-> FALSE, index |-> <<>>, kept |-> <<>>]]
       ELSE procs' = [procs EXCEPT ![p] = Done("usage", 0)]
    /\ UNCHANGED <<now, epoch, cas, rows, ungated, pinned>>

Pulling(p, step) == procs[p].cmd = step /\ procs[p].want # <<>>
Endpoint(p) == Head(procs[p].want)

\* What a provider may answer: nothing usable, an empty list, figures without
\* the provider's time (only a quote needs one), or the endpoint's own bytes.
Responses(e) == {"error", "[]", e} \union (IF e = "quote" THEN {"bare"} ELSE {})

Next_(p, changes) == procs' = [procs EXCEPT ![p] = changes]
Skip(r) == [r EXCEPT !.want = Tail(@), !.hold = ""]

\* pull_equity down to the put, and the index of pull_transcripts.
Ask(p) ==
    LET r == procs[p]
    IN  /\ Pulling(p, "pull") /\ r.hold = ""
        /\ IF ~LivePermitted(r.epoch, r.at)
           THEN Next_(p, [Skip(r) EXCEPT !.denied = TRUE]) /\ UNCHANGED cas
           ELSE \E bytes \in Responses(Endpoint(p)) :
                  IF bytes = "error"
                  THEN Next_(p, [Skip(r) EXCEPT !.failed = TRUE]) /\ UNCHANGED cas
                  ELSE Next_(p, [r EXCEPT !.hold = bytes]) /\ cas' = cas \union {bytes}
        /\ UNCHANGED <<spent, now, epoch, rows, ungated, pinned>>

\* extract_stamped: figures without the time or currency they need.
Unstampable(bytes) == bytes = "bare"

\* The row, once extract_stamped has stamped every figure.
Record(p) ==
    LET r == procs[p]
    IN  /\ Pulling(p, "pull") /\ r.hold # ""
        /\ IF Unstampable(r.hold)
           THEN Next_(p, [Skip(r) EXCEPT !.failed = TRUE]) /\ UNCHANGED rows
           ELSE /\ rows' = InsertCapture(r.hold, Row(Endpoint(p), "fmp", r.at))
                /\ IF Endpoint(p) = "transcripts" /\ r.hold # "[]"
                   THEN \E index \in Calls :
                          Next_(p, [r EXCEPT !.cmd = "calls", !.index = index,
                                             !.kept = <<"index">>, !.hold = ""])
                   ELSE Next_(p, [Skip(r) EXCEPT !.got = @ + 1])
        /\ UNCHANGED <<spent, now, epoch, cas, ungated, pinned>>

\* Mutant of TakeCall: a call without content counts.
TakeBlank(kept, call) == IF call \in {"future", "undated"} THEN kept ELSE Append(kept, call)

\* A scheduled, undated or empty call is passed over.
TakeCall(kept, call) ==
    IF call \in {"future", "undated", "blank"} THEN kept ELSE Append(kept, call)

\* The limit is reached, or there are no more calls.
NoMore(r) == Len(r.kept) > CallLimit \/ r.index = <<>>

\* pull_transcripts, one call of the index, or its end.  An error on the way
\* leaves what was captured and reports nothing.
NextCall(p) ==
    LET r == procs[p]
        end(changes) == [Skip(changes) EXCEPT !.cmd = "pull", !.index = <<>>]
    IN  /\ Pulling(p, "calls")
        /\ \/ /\ NoMore(r)
              /\ Next_(p, end([r EXCEPT !.got = @ + Len(r.kept)])) /\ UNCHANGED <<cas, rows>>
           \/ LET call == Head(r.index)
                  kept == TakeCall(r.kept, call)
              IN  /\ ~NoMore(r)
                  /\ Next_(p, [r EXCEPT !.index = Tail(@), !.kept = kept])
                  /\ IF Len(kept) > Len(r.kept) /\ call # "blank"
                     THEN /\ cas' = cas \union {call}
                          /\ rows' = InsertCapture(call, Row("call", "fmp", r.at))
                     ELSE UNCHANGED <<cas, rows>>
           \/ /\ ~NoMore(r) /\ Head(r.index) \notin {"future", "undated"}
              /\ Next_(p, end([r EXCEPT !.failed = TRUE, !.kept = <<>>]))
              /\ UNCHANGED <<cas, rows>>
        /\ UNCHANGED <<spent, now, epoch, ungated, pinned>>

\* pull_refusal_exit.
RefusalExit(got, denied, failed) ==
    IF got > 0 \/ ~(denied \/ failed) THEN "ok"
    ELSE IF denied THEN "policy_denied" ELSE "transport"

FinishPull(p) ==
    LET r == procs[p]
    IN  /\ r.cmd = "pull" /\ r.want = <<>>
        /\ Next_(p, Done(RefusalExit(r.got, r.denied, r.failed), r.got))
        /\ UNCHANGED <<spent, now, epoch, cas, rows, ungated, pinned>>

-----------------------------------------------------------------------------
(* data fetch: the page first, then the gate, the cap and the capture. *)

Fetch(p) ==
    /\ Free(p)
    /\ IF epoch.sealed
       THEN \E page \in Pages :
              /\ Next_(p, [cmd |-> "gate", page |-> page])
              /\ ungated' = (ungated \/ ~LivePermitted(epoch, now))
       ELSE Next_(p, Done("usage", 0)) /\ UNCHANGED ungated
    /\ UNCHANGED <<now, epoch, cas, rows, pinned>>

OnHost(rs) == Cardinality({d \in DOMAIN rs : rs[d].host = "host"})

CapReached(rs) == OnHost(rs) >= HostCap

GateAndCount(p) ==
    /\ procs[p].cmd = "gate"
    /\ Next_(p, IF ~LivePermitted(epoch, now) \/ CapReached(rows)
                THEN Done("policy_denied", 0)
                ELSE [cmd |-> "page", page |-> procs[p].page, at |-> now])
    /\ UNCHANGED <<spent, now, epoch, cas, rows, ungated, pinned>>

CapturePage(p) ==
    LET r == procs[p]
    IN  /\ r.cmd = "page"
        /\ cas' = cas \union {r.page}
        /\ rows' = InsertCapture(r.page, Row("page", "host", r.at))
        /\ Next_(p, Done("ok", 1))
        /\ UNCHANGED <<spent, now, epoch, ungated, pinned>>

\* data search asks nobody's leave and captures nothing.
Search(p) ==
    /\ Free(p)
    /\ ungated' = (ungated \/ ~LivePermitted(epoch, now))
    /\ Next_(p, Done("search", 0))
    /\ UNCHANGED <<now, epoch, cas, rows, pinned>>

\* Mutant of PinPut: the row is written before the object.
PinRowFirst(p, page) ==
    /\ rows' = InsertCapture(page, Row("pin", "none", now))
    /\ Next_(p, [cmd |-> "pin", page |-> page]) /\ UNCHANGED cas

\* data pin: the operator's file, put and then recorded.
PinPut(p, page) ==
    /\ cas' = cas \union {page}
    /\ Next_(p, [cmd |-> "pin", page |-> page]) /\ UNCHANGED rows

StartPin(p) ==
    /\ Free(p)
    /\ \E page \in Pages : PinPut(p, page)
    /\ UNCHANGED <<now, epoch, ungated, pinned>>

PinRow(p) ==
    /\ procs[p].cmd = "pin"
    /\ cas' = cas \union {procs[p].page}
    /\ rows' = InsertCapture(procs[p].page, Row("pin", "none", now))
    /\ Next_(p, Done("ok", 1))
    /\ UNCHANGED <<spent, now, epoch, ungated, pinned>>

\* build_pack: task_inputs looks a pinned digest up and asks for no more.
Freeze ==
    /\ epoch.sealed /\ pinned = {}
    /\ \E d \in DOMAIN rows : pinned' = {[digest |-> d, cutoff |-> epoch.cutoff]}
    /\ UNCHANGED <<spent, now, epoch, cas, rows, procs, ungated>>

Next ==
    \/ Tick \/ Reopen \/ Freeze
    \/ \E p \in Procs :
          \/ StartPull(p) \/ Ask(p) \/ Record(p) \/ NextCall(p) \/ FinishPull(p)
          \/ Fetch(p) \/ GateAndCount(p) \/ CapturePage(p) \/ Search(p)
          \/ StartPin(p) \/ PinRow(p) \/ Kill(p)

Spec == Init /\ [][Next]_vars

-----------------------------------------------------------------------------
(* Properties. *)

\* Every row of the capture index names bytes that are there, wherever a
\* command was killed.
RowsBacked == DOMAIN rows \subseteq cas

\* Pulling the same bytes again later, or pinning them, never takes from an
\* epoch what it could read.
StaysAdmissible ==
    \A d \in DOMAIN rows :
        d \in DOMAIN rows' /\ \A c \in 0..MaxTime :
            Admissible(rows[d], [cutoff |-> c]) => Admissible(rows'[d], [cutoff |-> c])
\* A host never has more rows than the cap.
HostCapHolds == OnHost(rows) <= HostCap

\* A pull that captured nothing does not exit 0.
ExitZeroCaptured ==
    \A p \in Procs : procs[p].cmd = "done" /\ procs[p].exit = "ok" =>
        procs[p].got > 0 /\ rows # <<>>

\* What is kept behind the index itself are the calls at these places of it, in
\* their order, and up to "read" every call that has a text is at one of them.
KeptAt(kept, index, places, read) ==
    /\ \A i, j \in DOMAIN places : i < j => places[i] < places[j]
    /\ \A i \in DOMAIN places : kept[i + 1] = index[places[i]]
    /\ \A k \in 1..read :
          (\E i \in DOMAIN places : places[i] = k)
             <=> index[k] \notin {"future", "undated", "blank"}

\* The pull has read so far into some index, keeps such calls, and no more than
\* the limit.
FirstHeld(r) ==
    /\ Len(r.kept) <= CallLimit + 1
    /\ \E index \in Calls : \E read \in 0..Len(index) :
          /\ r.index = SubSeq(index, read + 1, Len(index))
          /\ \E places \in [1..Len(r.kept) - 1 -> 1..read] : KeptAt(r.kept, index, places, read)

\* The transcripts of a pull are the first calls of the index that were held
\* and have a text, as many as the limit allows: it passes over none it could use.
LatestCalls == \A p \in Procs : procs[p].cmd = "calls" => FirstHeld(procs[p])

-----------------------------------------------------------------------------
(* What the documentation says, and the code does not keep. *)

\* capture.rs: every live tool calls the gate first.
GateFirst == ~ungated

\* capture.rs: every pull lands with its stamps at retrieval time, which is
\* what admissibility under a past cutoff goes by.
AdmissibleWasThere ==
    \A d \in DOMAIN rows, c \in 0..MaxTime :
        Admissible(rows[d], [cutoff |-> c]) => rows[d].got <= c

\* capture.rs: only captures retrieved before the cutoff are admissible.
PinnedAdmissible ==
    \A q \in pinned : Admissible(rows[q.digest], q)

\* fmp.rs: the two cadences of a statement never collide in the capture index,
\* so what was captured for an endpoint is found under its note.
NotesNeverCollide ==
    \A p \in Procs : procs[p].cmd = "pull" /\ procs[p].want = <<>>
                     /\ ~procs[p].denied /\ ~procs[p].failed =>
        \A e \in {"income", "income-q"} :
            procs[p].got = 2 => \E d \in DOMAIN rows : rows[d].note = e

=============================================================================
