------------------------------- MODULE MCDbFile -------------------------------
(***************************************************************************)
(* An instance of DbFile for TLC, and the strings that its strings are      *)
(* checked with.                                                            *)
(***************************************************************************)
EXTENDS DbFile

CONSTANTS MaxString, MaxStream

MCNumber == [i \in IDs |-> IF i = "7" THEN 7 ELSE 8]

Good(columns) ==
    LET f == [ID |-> "7", Name |-> "'a'", Programme |-> "'w'", Mark |-> "1.5"] IN
    <<f[columns[1]], Comma, f[columns[2]], Comma, f[columns[3]], Comma, f[columns[4]]>>

Symbols == IDs \cup Marks \cup Texts \cup {Comma, "junk"}

\* A line and those that differ from it in one place.
Near(text) ==
    {text} \cup {RemoveAt(text, i) : i \in DOMAIN text}
    \cup {[text EXCEPT ![i] = x] : i \in DOMAIN text, x \in Symbols}
    \cup {SubSeq(text, 1, i) : i \in 0 .. Len(text)}
    \cup {text \o <<Comma, x>> : x \in Symbols} \cup {Append(text, x) : x \in Symbols}

Orders == {<<"ID", "Name", "Programme", "Mark">>, <<"Mark", "ID", "Programme", "Name">>}

ColumnText(o) == <<o[1], Comma, o[2], Comma, o[3], Comma, o[4]>>

ColumnLines ==
    {ColumnText(o) : o \in Orders} \cup {ColumnText(o) \o <<Comma, "h">> : o \in Orders}
    \cup {<<>>, <<"ID", Comma, "Name", Comma, "Programme">>, <<"ID", Comma, "Name", Comma, "ID", Comma, "Mark">>,
          <<"ID", "Name", Comma, "Programme", Comma, "Mark", Comma, "ID">>,
          <<"ID", Comma, "h", Comma, "Programme">>}

With(i, text) == [n \in DOMAIN text |-> IF text[n] = "7" THEN i ELSE text[n]]

FirstLines == [o \in Orders |-> Near(Good(o))]

LaterLines == [o \in Orders |-> {With(i, t) : i \in IDs, t \in {Good(o), SubSeq(Good(o), 1, 5)}} \cup {<<>>}]

\* The first record is anything like a good one, the ones behind it are good or short.
MCForeignLine(at, d) ==
    CASE at = "headers" -> {<<>>, <<"h">>, <<"'w'", "'w'">>}
      [] at = "table" -> {<<>>, <<"h">>, <<TablePrefix>>, <<TablePrefix, "t">>}
      [] at = "columns" -> ColumnLines
      [] at = "records" -> IF d.records = <<>> THEN FirstLines[d.columns] ELSE LaterLines[d.columns]
      [] OTHER -> {}

MCStale ==
    {<<>>, <<"junk">>, <<"7">>, <<"1.5">>, <<"'a'">>, <<"'a'", Comma, "1.5">>, <<"7", Comma, "'a'">>,
     <<"8", Comma, "'a'", Comma, "'a'">>}

-----------------------------------------------------------------------------
SeqsUpTo(S, n) == UNION {[1 .. m -> S] : m \in 0 .. n}

Started == step = "prompt" /\ db = NoDB /\ saved = <<>>

Delimiters == {<<"r", "n">>, <<"n">>, <<"r", "r", "n">>}

\* The delimiter's first place in a stream is found however the characters before it
\* match a part of it, if it ends before the limit; the buffer holds what is before it,
\* and the next read starts behind it (string_helper.c:17).
ReadsToDelimiter ==
    Started => \A stream \in SeqsUpTo({"r", "n", "x"}, MaxStream), delim \in Delimiters, limit \in 0 .. MaxStream + 2 :
        LET r == ReadUntil(stream, limit, delim)
            ends == {n \in 1 .. Len(stream) : n < limit /\ IsSuffix(delim, SubSeq(stream, 1, n))}
        IN  /\ r.found <=> ends # {}
            /\ r.read = IF ends # {} THEN Min(ends) ELSE Max({0, Min({limit - 1, Len(stream)})})
            /\ r.buf = SubSeq(stream, 1, r.read - (IF r.found THEN Len(delim) ELSE 0))

\* What escape_string writes, read_escaped_string reads back, whatever follows it, and
\* it reads nothing else: a saved string comes back as it was (record.c:104, 145).
StringsSurvive ==
    Started => \A s \in SeqsUpTo({Quote, Backslash, Comma, "x"}, MaxString) :
        /\ \A t \in SeqsUpTo({Quote, Comma}, 2) :
              read_escaped_string(escape_string(s) \o t) = [ok |-> TRUE, value |-> s, rest |-> t]
        /\ LET r == read_escaped_string(s) IN r.ok => s = escape_string(r.value) \o r.rest

\* A line of columns is right or it is not: __parse_columns "Returns true on success, false
\* on failure" (db.c:67), and so does what reads the columns of a record.
NeverCrashes == step # "crashed"

\* The two together.
StringsRight == ReadsToDelimiter /\ StringsSurvive
=============================================================================
