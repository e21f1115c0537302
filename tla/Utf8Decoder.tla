----------------------------- MODULE Utf8Decoder -----------------------------
(***************************************************************************)
(* The incremental decoder of captured output: a stream arrives in chunks  *)
(* of any size, characters may be cut by a chunk's end, and what is cut is *)
(* kept for the next chunk.  A byte is its class, all that validity asks.  *)
(***************************************************************************)
EXTENDS Naturals, Sequences, SequencesExt

CONSTANTS
    Bytes,      \* the classes used, a subset of Classes
    MaxInput,   \* bound: bytes in the stream
    MaxChunk    \* bound: bytes in a chunk

\* "a" ASCII; "2", "3", "4" leads of that width; "E" the lead E0, whose second
\* byte must be high; "c", "C" continuations below and from A0; "x" never valid.
Classes == {"a", "2", "3", "4", "E", "c", "C", "x"}

VARIABLES
    pending,   \* the incomplete tail of what was fed
    out,       \* characters decoded so far, each the bytes it stands for
    input,     \* history: everything fed
    done       \* finish was called

vars == <<pending, out, input, done>>

Replacement == <<"FFFD">>

-----------------------------------------------------------------------------
(* std::str::from_utf8, as feed uses it. *)

Width(b) == CASE b = "a" -> 1 [] b = "2" -> 2 [] b \in {"3", "E"} -> 3
              [] b = "4" -> 4 [] OTHER -> 0

\* b may be byte number k of a character led by `lead'.
Fits(lead, k, b) == b \in (IF lead = "E" /\ k = 2 THEN {"C"} ELSE {"c", "C"})

\* The lengths at which the bytes from i on are the start of a character.
Starts(s, i) ==
    {n \in 1..Width(s[i]) :
        /\ i + n - 1 <= Len(s)
        /\ \A k \in 2..n : Fits(s[i], k, s[i + k - 1])}

Longest(s, i) == IF Starts(s, i) = {} THEN 0 ELSE Max(Starts(s, i))

\* The loop of feed over its buffer from i on: a whole character is kept, an
\* invalid one replaced and skipped as far as it matched, a cut one retained.
Scan(s) ==
    LET from[i \in 1..Len(s) + 1] ==
          IF i > Len(s) THEN [out |-> <<>>, pending |-> <<>>]
          ELSE LET n == Longest(s, i)
                   after(k, ch) == [from[i + k] EXCEPT !.out = <<ch>> \o @]
               IN  IF n > 0 /\ n = Width(s[i]) THEN after(n, SubSeq(s, i, i + n - 1))
                   ELSE IF n > 0 /\ i + n > Len(s)
                   THEN [out |-> <<>>, pending |-> SubSeq(s, i, Len(s))]
                   ELSE after(IF n = 0 THEN 1 ELSE n, Replacement)
    IN  from[1]

-----------------------------------------------------------------------------
Init == pending = <<>> /\ out = <<>> /\ input = <<>> /\ done = FALSE

\* Mutant of Feed: each chunk is decoded on its own, as from_utf8_lossy would.
FeedLossy(chunk) ==
    LET r == Scan(chunk)
    IN  /\ ~done /\ input' = input \o chunk /\ pending' = <<>>
        /\ out' = out \o r.out \o (IF r.pending = <<>> THEN <<>> ELSE <<Replacement>>)
        /\ UNCHANGED done

Feed(chunk) ==
    LET r == Scan(pending \o chunk)
    IN  /\ ~done
        /\ input' = input \o chunk
        /\ out' = out \o r.out
        /\ pending' = r.pending
        /\ UNCHANGED done

\* However much of it is there, a cut character at the end is one replacement.
Finish ==
    /\ ~done
    /\ done' = TRUE
    /\ out' = IF pending = <<>> THEN out ELSE Append(out, Replacement)
    /\ UNCHANGED <<pending, input>>

Chunks == UNION {[1..n -> Bytes] : n \in 1..MaxChunk}

Next == \/ \E chunk \in Chunks : Len(input) + Len(chunk) <= MaxInput /\ Feed(chunk)
        \/ Finish

Spec == Init /\ [][Next]_vars

-----------------------------------------------------------------------------
\* Reference: the same stream one byte at a time, with no buffer to rescan.
Byte(acc, b) ==
    LET p == acc.part
        q == Append(p, b)
        lead == IF p = <<>> THEN b ELSE p[1]
        \* what was begun ends here, broken; b then starts afresh
        broken == IF p = <<>> THEN acc.out ELSE Append(acc.out, Replacement)
    IN  IF p # <<>> /\ Fits(lead, Len(q), b)
        THEN IF Len(q) = Width(lead) THEN [out |-> Append(acc.out, q), part |-> <<>>]
             ELSE [acc EXCEPT !.part = q]
        ELSE CASE Width(b) = 0 -> [out |-> Append(broken, Replacement), part |-> <<>>]
               [] Width(b) = 1 -> [out |-> Append(broken, <<b>>), part |-> <<>>]
               [] OTHER        -> [out |-> broken, part |-> <<b>>]

ByteWise(s) == FoldLeft(Byte, [out |-> <<>>, part |-> <<>>], s)

\* However the stream is cut into chunks, the text is the one a decoder reading
\* byte by byte would give (invariant 30): nothing is replaced because a chunk
\* ended, nothing held back but a character not yet complete, and an unfinished
\* tail becomes exactly one replacement character.
ChunkingIrrelevant ==
    LET r == ByteWise(input)
    IN  /\ pending = r.part
        /\ out = IF done /\ r.part # <<>> THEN Append(r.out, Replacement) ELSE r.out

=============================================================================
