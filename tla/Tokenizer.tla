------------------------------- MODULE Tokenizer -------------------------------
(***************************************************************************)
(* src/src/tokenizer.c: how a line is cut into tokens.  A line is a         *)
(* sequence of pieces, which are words and single characters; what counts   *)
(* of a piece is whether it is a letter, a digit, a space or a sign.  Each  *)
(* str_to_ function returns what is left of the line behind its token, or   *)
(* NULL.                                                                    *)
(***************************************************************************)
EXTENDS Records, Strings

Commands == {"HELP", "OPEN", "SHOW ALL", "SHOW SUMMARY", "INSERT", "QUERY",
             "UPDATE", "DELETE", "SAVE"}

Symbols == {"(", ")", "=", ">", "<"}

Words == {"IN", "NOT", "AND", "OR"}

Huge == "99999999999" \* more than UINT32_MAX

Digits == {"1", "2", Huge}

\* The pieces that begin with a letter; "x" is any word without a meaning.
Letters == Commands \cup Column \cup Words \cup {"SORT BY ", "ASC", "DESC", "inf", "e", "x"}

Pieces == Letters \cup Symbols \cup Digits \cup {" ", ".", "-", Quote, Backslash}

-----------------------------------------------------------------------------
Begins(text, pieces) == text # <<>> /\ text[1] \in pieces

Behind(text, n) == SubSeq(text, n + 1, Len(text))

str_to_commandtag(text) ==
    IF Begins(text, Commands) /\ (Len(text) = 1 \/ text[2] = " ") THEN Tail(text) ELSE NULL

\* isalpha of what follows
WholeWord(text) == ~Begins(Tail(text), Letters)

str_to_column(text) == IF Begins(text, Column) /\ WholeWord(text) THEN Tail(text) ELSE NULL

\* A word behind the column that only begins with ASC or DESC is cut in two.
str_to_sortby(text) ==
    LET rest == IF Begins(text, {"SORT BY "}) THEN str_to_column(Tail(text)) ELSE NULL IN
    IF rest # NULL /\ Begins(rest, {" "}) /\ Begins(Tail(rest), {"ASC", "DESC"})
    THEN Behind(rest, 2) ELSE rest

OptagAnywhere(text) == \* slip: a word may go on behind an operator
    IF Begins(text, Symbols \cup Words) THEN Tail(text) ELSE NULL

str_to_optag(text) ==
    IF Begins(text, Symbols) \/ (Begins(text, Words) /\ WholeWord(text)) THEN Tail(text) ELSE NULL

\* How many of the first pieces are digits.
Numeral(text) == Max({n \in 0 .. Len(text) : \A i \in 1 .. n : text[i] \in Digits})

Sign(text) == IF Begins(text, {"-"}) THEN 1 ELSE 0

\* strtoll.  Without a zero among the digits what has a sign is negative.
str_to_int(text) ==
    LET n == Numeral(text)
        rest == Behind(text, n)
    IN  IF n = 0 \/ Huge \in Range(SubSeq(text, 1, n)) \/ Begins(rest, {".", "e"}) THEN NULL ELSE rest

\* An exponent, if the letter has digits behind it.
Exponent(text) ==
    LET s == Sign(Tail(text))
        n == Numeral(Behind(text, 1 + s))
    IN  IF Begins(text, {"e"}) /\ n > 0 THEN 1 + s + n ELSE 0

\* strtof
str_to_float(text) ==
    LET unsigned == Behind(text, Sign(text))
        a == Numeral(unsigned)
        point == IF Begins(Behind(unsigned, a), {"."}) THEN 1 ELSE 0
        b == IF point = 1 THEN Numeral(Behind(unsigned, a + 1)) ELSE 0
        rest == Behind(unsigned, a + point + b)
    IN  IF Begins(unsigned, {"inf"}) THEN Tail(unsigned)
        ELSE IF a + b = 0 THEN NULL
        ELSE Behind(rest, Exponent(rest))

-----------------------------------------------------------------------------
(* The tokenizer: last_token, current and take_filename_and_end.            *)

Tokenizer(token, current, file) == [last_token |-> token, current |-> current, file |-> file]

\* Behind the spaces that text begins with.
Trimmed(text) == Behind(text, Max({n \in 0 .. Len(text) : \A i \in 1 .. n : text[i] = " "}))

\* Behind the one space that may follow OPEN or SAVE.
Filename(text) == IF Begins(text, {" "}) THEN Tail(text) ELSE text

\* The first of these that reads something.
Kinds(text) ==
    << <<text[1], str_to_commandtag(text)>>, <<text[1], str_to_column(text)>>,
       <<"SORT BY", str_to_sortby(text)>>, <<text[1], str_to_optag(text)>>,
       <<"INT", str_to_int(text)>>, <<"FLOAT", str_to_float(text)>>, <<"UNK", text>> >>

LeftKeeping(token, rest) == \* slip: an unknown token is read again
    IF token \in {"OPEN", "SAVE"} THEN Filename(rest) ELSE rest

\* Where current is left: what is not known is taken to the end of the line.
Left(token, rest) ==
    IF token = "UNK" THEN NULL ELSE IF token \in {"OPEN", "SAVE"} THEN Filename(rest) ELSE rest

Unquoted(text) ==
    LET kind == Head(SelectSeq(Kinds(text), LAMBDA k : k[2] # NULL))
    IN  Tokenizer(kind[1], Left(kind[1], kind[2]), kind[1] \in {"OPEN", "SAVE"})

__Tokenizer_next_inner(t) ==
    LET text == Trimmed(t.current)
        string == read_escaped_string(text)
    IN  IF t.current = NULL THEN Tokenizer("EOF", NULL, t.file)
        ELSE IF t.file THEN Tokenizer(IF t.current = <<>> THEN "EOF" ELSE "FILE", NULL, TRUE)
        ELSE IF text = <<>> THEN Tokenizer("EOF", NULL, FALSE)
        ELSE IF text[1] # Quote THEN Unquoted(text)
        ELSE IF string.ok THEN Tokenizer("STRING", string.rest, FALSE)
        ELSE Tokenizer("UNK", NULL, FALSE)

Tokenizer_create(input) == __Tokenizer_next_inner(Tokenizer("EOF", input, FALSE))

\* What Tokenizer_next returns one after the other, up to the end and once more.
Tokens(line) ==
    LET read(ts, piece) == Append(ts, __Tokenizer_next_inner(Last(ts)))
        all == FoldLeft(read, <<Tokenizer_create(line)>>, Append(line, "end"))
    IN  [n \in DOMAIN all |-> all[n].last_token]
=============================================================================
