------------------------------- MODULE Skills -------------------------------
(***************************************************************************)
(* Skills: the playbooks of .rein/skills (rein-finance skills.rs, the      *)
(* `rein skill' commands of cmds.rs, and what the engine takes of a skill  *)
(* when it freezes a pack).  A model drafts, a gate validates, the         *)
(* operator promotes, and a run reads whatever is in force.                *)
(***************************************************************************)
EXTENDS Integers, Sequences

CONSTANTS
    Texts,        \* name of a markdown text -> what the gate and the engine see of it
    Bundled,      \* texts that `rein init' puts in force
    Replies,      \* texts a model may answer a request for a draft with
    Copied,       \* texts the operator may copy into force without the command
    Names,        \* names of drafts and installed skills, task types among them
    Attempts,     \* attempts a draft may be distilled from
    Known,        \* KNOWN_VALIDATOR_REFS, all registered
    MaxAttempts   \* bound on attempts of the engine

VARIABLES installed, drafts, promoting, attempts, last

vars == <<installed, drafts, promoting, attempts, last>>

Absent == <<>>
Idle == <<>>
Quiet == [cmd |-> "none"]

\* A file between the truncation and the writing of fs::write.
Torn == [fence |-> FALSE, yaml |-> FALSE, name |-> FALSE, stops |-> 0, chars |-> 0,
         bytes |-> 0, refs |-> {}, schema |-> TRUE, body |-> FALSE,
         mentions |-> FALSE, from |-> {}]

-----------------------------------------------------------------------------
(* The gate. *)

\* parse_frontmatter: what does not parse is the default.
Parsed(text) ==
    IF text.fence /\ text.yaml THEN text
    ELSE [Torn EXCEPT !.body = text.body]

\* validate_skill.  The description's length is its bytes.
Failures(text) ==
    LET front == Parsed(text)
        fails == [name |-> ~front.name,
                  empty |-> front.chars = 0,
                  long |-> front.bytes > 200,
                  sentences |-> front.stops > 1,
                  refs |-> ~(front.refs \subseteq Known),
                  schema |-> ~front.schema,
                  body |-> ~front.body]
    IN  IF ~text.fence THEN {"fence"} ELSE {f \in DOMAIN fails : fails[f]}

Passes(text) == Failures(text) = {}

-----------------------------------------------------------------------------
(* The commands. *)

Init ==
    /\ installed \in [Names -> {Absent} \union {<<Texts[b]>> : b \in Bundled}]
    /\ drafts = [n \in Names |-> Absent]
    /\ promoting = Idle /\ attempts = <<>> /\ last = Quiet

\* The draft as written: the line of provenance goes in before the closing
\* fence unless the text has such a line somewhere.
Draft(reply, from) ==
    IF ~reply.mentions /\ from # {} /\ reply.fence
    THEN [reply EXCEPT !.from = from, !.mentions = TRUE]
    ELSE reply

\* skill_new: over any draft of that name.
New(n, from, r) ==
    LET draft == Draft(Texts[r], from)
    IN  /\ drafts' = [drafts EXCEPT ![n] = <<draft>>]
        /\ last' = [cmd |-> "new", name |-> n, from |-> from, draft |-> draft, fails |-> Failures(draft)]
        /\ UNCHANGED <<installed, promoting, attempts>>

\* The operator's editor.
EditDraft(n, r) ==
    /\ drafts[n] # Absent
    /\ drafts' = [drafts EXCEPT ![n] = <<Texts[r]>>]
    /\ last' = Quiet
    /\ UNCHANGED <<installed, promoting, attempts>>

\* resolve_skill_path: a path is the shell's, a name the installed file's if
\* there is one; <<>> for a file that is not there.
Resolved(n, isPath) ==
    IF isPath THEN Absent ELSE IF installed[n] # Absent THEN installed[n] ELSE drafts[n]

\* skill_validate.  hinted: as the last command advised.
Validate(n, hinted) ==
    /\ hinted => last.cmd = "new" /\ last.name = n /\ last.fails # {}
    /\ last' = [cmd |-> "validate", hinted |-> hinted, found |-> Resolved(n, hinted), draft |-> drafts[n]]
    /\ UNCHANGED <<installed, drafts, promoting, attempts>>

\* skill_promote: the draft is read and judged, then written to its target.
Promote(n, target) ==
    /\ promoting = Idle /\ drafts[n] # Absent
    /\ promoting' = IF Passes(drafts[n][1])
                    THEN <<[name |-> n, target |-> target, text |-> drafts[n][1], torn |-> FALSE]>>
                    ELSE Idle
    /\ last' = Quiet
    /\ UNCHANGED <<installed, drafts, attempts>>

Truncate ==
    /\ promoting # Idle /\ ~promoting[1].torn
    /\ installed' = [installed EXCEPT ![promoting[1].target] = <<Torn>>]
    /\ promoting' = <<[promoting[1] EXCEPT !.torn = TRUE]>>
    /\ last' = Quiet
    /\ UNCHANGED <<drafts, attempts>>

\* Mutant of InForce: the draft is read again.
InForceAgain(p) == drafts[p.name][1]

InForce(p) == p.text

Write ==
    /\ promoting # Idle /\ promoting[1].torn
    /\ installed' = [installed EXCEPT ![promoting[1].target] = <<InForce(promoting[1])>>]
    /\ promoting' = Idle /\ last' = Quiet
    /\ UNCHANGED <<drafts, attempts>>

Kill ==
    /\ promoting # Idle
    /\ promoting' = Idle /\ last' = Quiet
    /\ UNCHANGED <<installed, drafts, attempts>>

\* A playbook copied over a task type's name.
Copy(n, c) ==
    /\ installed' = [installed EXCEPT ![n] = <<Texts[c]>>]
    /\ last' = Quiet
    /\ UNCHANGED <<drafts, promoting, attempts>>

-----------------------------------------------------------------------------
(* The engine. *)

\* build_pack: a missing skill is a default text and no validators more.
\* "bad ref" stands for what does not parse as a reference.
Pack(type) ==
    [type |-> type, method |-> installed[type],
     validators |-> IF installed[type] = Absent THEN {}
                    ELSE Parsed(installed[type][1]).refs \ {"bad ref"}]

\* Equal hashes.
SamePack(a, pack) == a = pack

\* run_task, fresh: a new attempt, or the one already there.
Run(type) ==
    LET pack == Pack(type)
        same == {i \in DOMAIN attempts : attempts[i].of = 0 /\ SamePack(attempts[i].pack, pack)}
    IN  /\ IF same = {}
           THEN /\ Len(attempts) < MaxAttempts
                /\ attempts' = Append(attempts, [pack |-> pack, of |-> 0])
                /\ last' = [cmd |-> "run", asked |-> pack, given |-> Len(attempts) + 1]
           ELSE /\ attempts' = attempts
                /\ last' = [cmd |-> "run", asked |-> pack, given |-> CHOOSE i \in same : TRUE]
        /\ UNCHANGED <<installed, drafts, promoting>>

\* Mutant of RetryPack: the pack just built is used.
RetryPackNow(prior) == Pack(prior.pack.type)

\* The prior attempt's stored pack.
RetryPack(prior) == prior.pack

Retry(i) ==
    /\ Len(attempts) < MaxAttempts
    /\ \A j \in DOMAIN attempts : attempts[j].of # i
    /\ attempts' = Append(attempts, [pack |-> RetryPack(attempts[i]), of |-> i])
    /\ last' = Quiet
    /\ UNCHANGED <<installed, drafts, promoting>>

Next ==
    \/ \E n \in Names, r \in Replies :
          \/ \E from \in SUBSET Attempts : New(n, from, r)
          \/ EditDraft(n, r)
    \/ \E n \in Names :
          \/ Validate(n, TRUE) \/ Validate(n, FALSE)
          \/ \E target \in Names : Promote(n, target)
          \/ \E c \in Copied : Copy(n, c)
          \/ Run(n)
    \/ Truncate \/ Write \/ Kill
    \/ \E i \in DOMAIN attempts : Retry(i)

Spec == Init /\ [][Next]_vars

-----------------------------------------------------------------------------
(* Properties. *)

\* Whatever is edited while a promotion runs, a skill that is whole and in
\* force has passed the gate.
InForceGated ==
    \A n \in Names :
        LET f == installed[n] IN f # Absent /\ f # <<Torn>> => Passes(f[1])

\* So no attempt carries a validator that nobody registered, which would fail it.
Judgeable == \A i \in DOMAIN attempts : attempts[i].pack.validators \subseteq Known

\* A retry keeps the method its first attempt was sealed with, whatever was
\* promoted meanwhile.
RetryKeepsMethod ==
    \A i \in DOMAIN attempts :
        attempts[i].of # 0 => attempts[i].pack.method = attempts[attempts[i].of].pack.method

\* A fresh request is never answered with an attempt of another method.
AnsweredByInForce ==
    last.cmd = "run" => attempts[last.given].pack.method = last.asked.method

-----------------------------------------------------------------------------
(* What the documentation says, and the code does not keep. *)

\* skills.rs: the skill's validators are added at pack freeze; so a method is
\* always a whole skill.
WholeMethod == \A i \in DOMAIN attempts : attempts[i].pack.method # <<Torn>>

\* cmds.rs: fix the draft, then `rein skill validate drafts/<name>.md'.
HintFindsDraft == last.cmd = "validate" /\ last.hinted => last.found = last.draft

\* cmds.rs: provenance rides the frontmatter whether or not the model wrote it.
ProvenanceRides ==
    last.cmd = "new" /\ last.fails = {} => last.from \subseteq last.draft.from

\* skills.rs: the description is one sentence.
OneSentence == last.cmd = "new" /\ last.fails = {} => last.draft.stops = 0

\* skills.rs: of at most 200 characters.
LengthInCharacters ==
    last.cmd = "new" /\ last.draft.chars <= 200 => "long" \notin last.fails

\* skills.rs: a validator that is not registered attaches nothing.
UnknownAttachesNothing == Judgeable

=============================================================================
