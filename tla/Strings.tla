------------------------------- MODULE Strings --------------------------------
(***************************************************************************)
(* Strings and streams as sequences of characters: the helpers of           *)
(* src/src/string_helper.c and the quoting of src/src/record.c.  A string   *)
(* ends where its sequence does.                                            *)
(***************************************************************************)
EXTENDS Integers, FiniteSets, SequencesExt

NULL == <<"NULL">> \* no string

Comma == "comma"

-----------------------------------------------------------------------------
(* read_until_delim_or_eof.                                                 *)

\* The last partial match: the longest end of buf, of at most n characters,
\* that delim begins with.
Partial(buf, delim, n) ==
    Max({k \in 0 .. n : k <= Len(buf) /\ IsSuffix(SubSeq(delim, 1, k), buf)})

ReadCharForgetful(state, delim, c) == \* slip: a mismatch starts over behind it
    LET buf == Append(state.buf, c)
        n == state.match_len
    IN  [buf |-> buf, match_len |-> IF c = delim[n + 1] THEN n + 1 ELSE 0]

\* One character.
ReadChar(state, delim, c) ==
    LET buf == Append(state.buf, c)
        n == state.match_len
    IN  [buf |-> buf, match_len |-> IF c = delim[n + 1] THEN n + 1 ELSE Partial(buf, delim, n)]

\* What the function leaves in buf, whether it found delim and how much it has read.
ReadUntil(stream, limit, delim) ==
    LET start == [buf |-> <<>>, match_len |-> 0]
        more(s, c) == IF s.match_len = Len(delim) THEN s ELSE ReadChar(s, delim, c)
        end == FoldLeft(more, start, SubSeq(stream, 1, Min({limit - 1, Len(stream)})))
        found == end.match_len = Len(delim)
    IN  IF limit = 0 THEN [buf |-> <<>>, found |-> FALSE, read |-> 0]
        ELSE [buf |-> IF found THEN SubSeq(end.buf, 1, Len(end.buf) - Len(delim)) ELSE end.buf,
              found |-> found, read |-> Len(end.buf)]

-----------------------------------------------------------------------------
(* string_split_next: what it returns and where it leaves current.           *)

SplitNext(current, delim) ==
    LET delims == {i \in DOMAIN current : current[i] = delim} IN
    IF current = NULL THEN [sub |-> NULL, current |-> NULL]
    ELSE IF delims = {} THEN [sub |-> current, current |-> NULL]
    ELSE [sub |-> SubSeq(current, 1, Min(delims) - 1),
          current |-> SubSeq(current, Min(delims) + 1, Len(current))]

-----------------------------------------------------------------------------
(* read_escaped_string and escape_string.                                   *)

Quote == "quote"

Backslash == "backslash"

Escaped(c) == IF c \in {Quote, Backslash} THEN <<Backslash, c>> ELSE <<c>>

escape_string(s) == <<Quote>> \o FlattenSeq([i \in DOMAIN s |-> Escaped(s[i])]) \o <<Quote>>

Unterminated == [ok |-> FALSE, value |-> <<>>, rest |-> <<>>]

\* A string is written behind the place it is read from, so that nothing is
\* overwritten before it was read.
read_escaped_string(str) ==
    LET Prepend(c, r) == IF r.ok THEN [r EXCEPT !.value = <<c>> \o @] ELSE r
        from[i \in 2 .. Len(str) + 2] ==
            IF i > Len(str) THEN Unterminated
            ELSE IF str[i] = Quote
                 THEN [ok |-> TRUE, value |-> <<>>, rest |-> SubSeq(str, i + 1, Len(str))]
            ELSE IF str[i] # Backslash THEN Prepend(str[i], from[i + 1])
            ELSE IF i < Len(str) /\ str[i + 1] \in {Quote, Backslash}
                 THEN Prepend(str[i + 1], from[i + 2])
            ELSE Unterminated
    IN  IF str = <<>> \/ str = NULL \/ str[1] # Quote THEN Unterminated ELSE from[2]
=============================================================================
