------------------------------- MODULE MCParser -------------------------------
(***************************************************************************)
(* An instance of Parser for TLC, and what its lines mean: a grammar that   *)
(* knows nothing of binding powers splits a line at its weakest operator.   *)
(***************************************************************************)
EXTENDS Parser, MCTokenizer

CONSTANTS TokensLength, PiecesLength, AnyLength, FilterLength, NotLength, LongLength, PairsLength

MCInts == {"1"}
MCFloats == {"2.0"}
MCStrings == {"'a'"}
MCValue == [t \in Literals |-> IF t = "2.0" THEN 2 ELSE 1]

\* The strings are 0, 1 and 2; every string is within itself, 1 is within 2, 0 within each.
MCWithin == {p \in (0 .. 2) \X (0 .. 2) : p[2] <= p[1]}

Comparing == {"ID", "=", "<", "1"}

MCAlphabets ==
    {[tokens |-> Commands \cup Column \cup Literals \cup Range(Operators) \cup {"SORT BY", "UNK"},
      length |-> AnyLength],
     [tokens |-> {"QUERY", "AND", "OR", "NOT", "(", ")"} \cup Comparing, length |-> FilterLength],
     [tokens |-> {"QUERY", "AND", "OR", "(", ")"} \cup Comparing, length |-> NotLength],
     [tokens |-> {"QUERY", "AND", "OR", "NOT"} \cup Comparing, length |-> NotLength],
     [tokens |-> {"QUERY", "AND", "OR"} \cup Comparing, length |-> LongLength],
     [tokens |-> {"SHOW SUMMARY", "Mark", "Name", "IN", "2.0", "'a'", ">", "AND", "SORT BY"} \cup Comparing,
      length |-> FilterLength],
     [tokens |-> {"INSERT", "UPDATE", "DELETE", "=", "1", "2.0", "'a'", "UNK"} \cup Column,
      length |-> PairsLength]}

Rows == [temp_id : 0 .. 2, name : 0 .. 2, programme : {0}, mark : {0, 2, NaN}]

-----------------------------------------------------------------------------
Depth(t, i) ==
    Cardinality({j \in 1 .. i : t[j] = "("}) - Cardinality({j \in 1 .. i : t[j] = ")"})

\* The places of the operators ops in t that no bracket encloses.
Outside(t, ops) == {i \in DOMAIN t : t[i] \in ops /\ Depth(t, i) = 0}

Before(t, i) == SubSeq(t, 1, i - 1)

After(t, i) == SubSeq(t, i + 1, Len(t))

\* The brackets around the whole of t match each other.
Bracketed(t) ==
    /\ Len(t) > 2 /\ t[1] = "(" /\ t[Len(t)] = ")"
    /\ \A i \in 1 .. Len(t) - 1 : Depth(t, i) > 0

\* A column or a literal, in brackets or not; "none" if t is neither.
RECURSIVE Atom(_)
Atom(t) ==
    IF Len(t) = 1 /\ t[1] \in Column \cup Literals THEN t[1]
    ELSE IF Bracketed(t) THEN Atom(Tail(Front(t)))
    ELSE "none"

Takes(col, literal) ==
    literal \in [ID |-> Ints, Name |-> Strings, Programme |-> Strings, Mark |-> Ints \cup Floats][col]

Comparison(l, op, r) ==
    \/ l \in Column /\ op = "=" /\ Takes(l, r)
    \/ l \in {"ID", "Mark"} /\ op \in {"<", ">"} /\ Takes(l, r)
    \/ l \in Strings /\ op = "IN" /\ r \in {"Name", "Programme"}

Compare(l, op, r, row) ==
    CASE op = "=" -> Get(row, l) = Value[r]
      [] op = "<" -> Get(row, l) # NaN /\ Get(row, l) < Value[r]
      [] op = ">" -> Get(row, l) # NaN /\ Get(row, l) > Value[r]
      [] op = "IN" -> <<Get(row, r), Value[l]>> \in Within

\* The rows that the condition t is true of, and whether it is one.
RECURSIVE Meaning(_)
Meaning(t) ==
    LET ors == Outside(t, {"OR"})
        ands == Outside(t, {"AND"})
        ops == Outside(t, {"=", "<", ">", "IN"})
        Split(i) == <<Meaning(Before(t, i)), Meaning(After(t, i))>>
        bad == [ok |-> FALSE, rows |-> {}]
    IN  CASE ors # {} ->
               LET s == Split(Max(ors)) IN
               [ok |-> s[1].ok /\ s[2].ok, rows |-> s[1].rows \cup s[2].rows]
          [] ors = {} /\ ands # {} ->
               LET s == Split(Max(ands)) IN
               [ok |-> s[1].ok /\ s[2].ok, rows |-> s[1].rows \cap s[2].rows]
          [] ors \cup ands = {} /\ t # <<>> /\ t[1] = "NOT" ->
               LET s == Meaning(Tail(t)) IN [ok |-> s.ok, rows |-> Rows \ s.rows]
          [] OTHER ->
               IF ops # {} THEN
                   LET i == Max(ops)
                       l == Atom(Before(t, i))
                       r == Atom(After(t, i))
                   IN  IF Comparison(l, t[i], r)
                       THEN [ok |-> TRUE, rows |-> {row \in Rows : Compare(l, t[i], r, row)}]
                       ELSE bad
               ELSE IF Bracketed(t) THEN Meaning(Tail(Front(t)))
               ELSE bad

Unsorted(t) == IF t # <<>> /\ Last(t) = "SORT BY" THEN Front(t) ELSE t

\* t is a sequence of pairs of different columns with values that fit.
PairsOf(t) == [i \in 1 .. Len(t) \div 3 |-> SubSeq(t, 3 * i - 2, 3 * i)]

ArePairs(t) ==
    LET ps == PairsOf(t) IN
    /\ Len(t) % 3 = 0
    /\ \A p \in Range(ps) : p[1] \in Column /\ p[2] = "=" /\ Takes(p[1], p[3])
    /\ \A i, j \in DOMAIN ps : i # j => ps[i][1] # ps[j][1]

ColumnsOf(t) == {p[1] : p \in Range(PairsOf(t))}

\* The lines that are commands.
Command(line) ==
    /\ line # <<>>
    /\ LET args == Tail(line) IN
       CASE line[1] = "HELP" -> args = <<>>
         [] line[1] = "OPEN" -> args = <<"FILE">>
         [] line[1] = "SAVE" -> args \in {<<>>, <<"FILE">>}
         [] line[1] = "SHOW ALL" -> args \in {<<>>, <<"SORT BY">>}
         [] line[1] = "SHOW SUMMARY" -> args = <<>> \/ Meaning(args).ok
         [] line[1] = "QUERY" -> Meaning(Unsorted(args)).ok
         [] line[1] = "INSERT" -> ArePairs(args) /\ ColumnsOf(args) = Column
         [] line[1] = "UPDATE" -> ArePairs(args) /\ "ID" \in ColumnsOf(args) /\ ColumnsOf(args) # {"ID"}
         [] line[1] = "DELETE" -> Len(args) = 3 /\ ArePairs(args) /\ args[1] = "ID"
         [] OTHER -> FALSE

\* An UPDATE of fewer than all columns with one more token, whatever it is.
UpdateAndToken(line) ==
    /\ line # <<>> /\ line[1] = "UPDATE"
    /\ Command(Front(line)) /\ Len(line) < 3 * Cardinality(Column) + 2
    /\ Last(line) \notin Column

\* Ways to go on from the middle of a line: one of these, then what closes the brackets
\* that are open, or the pairs that are missing.  What can become a command at all becomes
\* one in one of these ways: a condition needs an operand, a comparison or the rest of one,
\* which fits inside its brackets, and pairs need the rest of one and the other columns.
Endings ==
    {<<>>, <<"ID", "=", "1">>, <<"=", "1">>, <<"1">>, <<"2.0">>, <<"'a'">>, <<"IN", "Name">>, <<"Name">>,
     <<"FILE">>, <<"=", "'a'">>, <<"=", "2.0">>}

Closing(line) == [i \in 1 .. Depth(line, Len(line)) |-> ")"]

PairFor == [ID |-> <<"ID", "=", "1">>, Name |-> <<"Name", "=", "'a'">>,
            Programme |-> <<"Programme", "=", "'a'">>, Mark |-> <<"Mark", "=", "2.0">>]

Missing(line) ==
    LET columns == SetToSeq(Column \ Range(line)) IN
    FlattenSeq([i \in DOMAIN columns |-> PairFor[columns[i]]])

Completed(line) == {line \o e \o rest : e \in Endings, rest \in {Closing(line), Missing(line)}}

-----------------------------------------------------------------------------
\* Lines are cut into the tokens they are written as: which words may touch, what the
\* dot and the letter behind a number make of it, and the name of a file, which ends at
\* the end of the line, quotes and all (tokenizer.c:239, 260, 291).
LinesCutRight == step = "prompt" /\ alphabet.length = AnyLength => CutsAsWritten(TokensLength) /\ SpaceNeeded

\* The parser is run on the sequences of tokens that lines have, garbage included.
StreamsAsAssumed == step = "prompt" /\ alphabet.length = AnyLength => AnyLine(PiecesLength)

\* A command that is parsed is one (parser.c:725 says so of all its tokens), but for
\* UPDATE, that swallows one token behind its pairs (parser.c:537).
AcceptsCommandsOnly == step = "parsed" => Command(input) \/ UpdateAndToken(input)

\* The same as the code states it.
ConsumesAllTokens == step = "parsed" => Command(input)

\* A line is refused at a token after which nothing can make it a command.
RefusesOnlyOthers ==
    step = "refused" /\ err # "out_of_mem" =>
        IF next = "EOF" THEN ~Command(input)
        ELSE \A line \in Completed(input) : ~Command(line)

\* The lines that are parsed are the commands, as far as the code lets them be.
TakesCommands == AcceptsCommandsOnly /\ RefusesOnlyOthers

\* A command means what its line says: its condition is true of the same records,
\* with the precedence of README.md:91, and its values are those of its pairs.
MeansItsText ==
    step = "parsed" =>
        CASE tag \in {"QUERY", "SHOW SUMMARY"} ->
               LET args == Unsorted(Tail(input)) IN
               IF args = <<>> THEN filter = 0
               ELSE {row \in Rows : Condition_eval(filter, row)} = Meaning(args).rows
          [] tag \in {"INSERT", "UPDATE", "DELETE"} ->
               \A p \in Range(PairsOf(Tail(input))) : pairs[p[1]] = p[3]
          [] OTHER -> TRUE
=============================================================================
