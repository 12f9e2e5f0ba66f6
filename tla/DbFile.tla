-------------------------------- MODULE DbFile --------------------------------
(***************************************************************************)
(* The database and its file: DB_from_file, DB_to_file and DB_destroy of    *)
(* src/src/db.c, and the commands of src/src/main.c between an OPEN and a   *)
(* SAVE.  A line is a sequence of commas and the things between them:       *)
(* numbers, quoted strings, names of columns.  A foreign file is made line  *)
(* by line as it is read; a saved one is what DB_to_file wrote.  `current`  *)
(* is the rest of a line, or NULL.  The strings on the heap are counted.    *)
(***************************************************************************)
EXTENDS Records, Strings

CONSTANTS
    IDs, Marks, Texts, \* what a line may hold: IDs, other numbers and quoted strings,
    Others,            \* and anything else
    Number,            \* the numbers that the IDs are
    Wide,              \* strings of which a line that is read, or typed, holds but one
    ForeignLine(_, _), \* the lines of a foreign file, at each step behind what was read
    Stale,             \* what may be behind the end of a line, in the same buffer
    MaxLines, MaxLost, \* bounds on a foreign file and on the strings lost,
    MaxHeld            \* and on the records that are open when one is read

TablePrefix == "table name" \* what the line of the name begins with

Token == IDs \cup Marks \cup Texts \cup Others \cup Column \cup {Comma, TablePrefix}

Line == Seq(Token)

ASSUME TextsAssumption == Wide \subseteq Texts /\ Comma \notin IDs \cup Marks \cup Texts

ASSUME NumberAssumption ==
    /\ \A i \in IDs : Number[i] \in Int
    /\ \A i, j \in IDs : i # j => Number[i] # Number[j]

ASSUME StaleAssumption == Stale \subseteq Line

Past == <<"past">> \* where split.current is, behind the end of a line

\* What stands for no string, and for a place behind a line, is nothing that is read.
ASSUME NoTokenAssumption == NULL[1] \notin Token /\ Past[1] \notin Token

VARIABLES
    db,       \* the open database
    saved,    \* the lines of the last file saved
    kept,     \* what the database was then
    foreign,  \* whether the file being read is not that one
    unread,   \* the lines of a saved file that are not read
    read,     \* the lines read
    load,     \* the database being read, with the order of its columns
    record,   \* the columns of its next record that are read
    current,  \* split.current
    step, err,
    atEnd,    \* the last line looked for was not there: fgetc has returned EOF
    overran,  \* split.current was behind the end of its line when it was read through
    live,     \* the strings on the heap
    lost      \* those that nothing points to

file == <<saved, kept>>
reading == <<foreign, unread, read, atEnd>>
vars == <<db, file, reading, load, record, current, step, err, overran, live, lost>>

\* The name of a table is what is behind TablePrefix; without a table it is empty.
NoDB == [headers |-> <<>>, table |-> <<>>, records |-> <<>>, columns |-> <<>>]

Strings(d) == Len(d.headers) + (IF d.table = <<>> THEN 0 ELSE 1) + 2 * Cardinality(DOMAIN d.records)

Put(f, x, value) == [y \in DOMAIN f \cup {x} |-> IF y = x THEN value ELSE f[y]]

Resting == step \in {"prompt", "opened", "refused"}

\* Behind a command that is no OPEN: what the last OPEN read is forgotten.
Prompted ==
    /\ step' = "prompt" /\ err' = "ok" /\ overran' = FALSE
    /\ foreign' = FALSE /\ unread' = <<>> /\ read' = <<>> /\ atEnd' = FALSE

-----------------------------------------------------------------------------
(* Saving.                                                                  *)

InOrderDown(ids) == \* slip: the wrong way
    CHOOSE s \in [1 .. Cardinality(ids) -> ids] :
        Range(s) = ids /\ \A m, n \in DOMAIN s : m < n => Number[s[m]] > Number[s[n]]

\* The walk over the tree.
InOrder(ids) ==
    CHOOSE s \in [1 .. Cardinality(ids) -> ids] :
        Range(s) = ids /\ \A m, n \in DOMAIN s : m < n => Number[s[m]] < Number[s[n]]

RecordLineShort(i, r) == <<i, Comma, r.name, Comma, r.programme>> \* slip: no mark

RecordLine(i, r) == <<i, Comma, r.name, Comma, r.programme, Comma, r.mark>>

ColumnLine == <<"ID", Comma, "Name", Comma, "Programme", Comma, "Mark">>

\* DB_to_file.  AtomicFile says when a save that fails leaves the file as it was.
Lines(d) ==
    LET ids == InOrder(DOMAIN d.records) IN
    d.headers \o << <<>>, <<TablePrefix>> \o d.table, ColumnLine>>
    \o [n \in DOMAIN ids |-> RecordLine(ids[n], d.records[ids[n]])]

Save ==
    /\ Resting /\ db.table # <<>>
    /\ saved' = Lines(db) /\ kept' = db
    /\ Prompted
    /\ UNCHANGED <<db, load, record, current, live, lost>>

-----------------------------------------------------------------------------
(* INSERT, UPDATE and DELETE.  A command is no longer than a line of a file. *)

TooLong(text) == Cardinality({i \in DOMAIN text : text[i] \in Wide}) > 1

Edit(records) ==
    /\ Resting /\ db.table # <<>>
    /\ db' = [db EXCEPT !.records = records]
    /\ Prompted
    /\ UNCHANGED <<file, load, record, current, lost>>

\* Record_dupe copies both strings of a record.
Insert(i, r) ==
    /\ i \notin DOMAIN db.records /\ ~TooLong(<<r.name, r.programme>>)
    /\ Edit(Put(db.records, i, r))
    /\ live' = live + 2

\* One column.  An UPDATE of several has room for one wide string, too.
Update(i, r) ==
    /\ i \in DOMAIN db.records
    /\ \E c \in {"name", "programme", "mark"} : Edit([db.records EXCEPT ![i][c] = r[c]])
    /\ UNCHANGED live

Delete(i) ==
    /\ i \in DOMAIN db.records
    /\ Edit([j \in DOMAIN db.records \ {i} |-> db.records[j]])
    /\ live' = live - 2

-----------------------------------------------------------------------------
(* Reading lines.                                                           *)

EndOfFile == [text |-> <<>>, ended |-> FALSE]

FoundLong(l) == l.ended \* slip: a line may have any length

\* What read_until_delim_or_eof returns of a line, as Strings shows.
Found(l) == l.ended /\ ~TooLong(l.text)

\* The next line, or the end of the file or a failure of fgetc, which looks like it.
Arriving ==
    {EndOfFile}
    \cup (IF foreign
          THEN IF Len(read) < MaxLines THEN [text : ForeignLine(step, load) \cap Line, ended : BOOLEAN] ELSE {}
          ELSE IF unread # <<>> THEN {[text |-> Head(unread), ended |-> TRUE]} ELSE {})

NextRead(l) ==
    /\ unread' = IF foreign \/ l = EndOfFile THEN unread ELSE Tail(unread)
    /\ atEnd' = (l = EndOfFile)
    /\ read' = IF l = EndOfFile THEN read ELSE Append(read, l)
    /\ UNCHANGED foreign

\* It was fgetc that failed, and not the file that ended.
cut == atEnd /\ unread # <<>>

-----------------------------------------------------------------------------
(* Opening.                                                                 *)

\* The user's own file may be opened before the first save only, with at most MaxHeld
\* records open (bounds).
Open(f) ==
    /\ Resting /\ lost <= MaxLost
    /\ IF f THEN saved = <<>> /\ Cardinality(DOMAIN db.records) <= MaxHeld ELSE saved # <<>>
    /\ foreign' = f /\ unread' = saved /\ read' = <<>> /\ atEnd' = FALSE
    /\ load' = NoDB /\ record' = <<>> /\ current' = NULL
    /\ step' = "headers" /\ err' = "ok" /\ overran' = FALSE
    /\ UNCHANGED <<db, file, live, lost>>

RefuseKeeping(error) == \* slip: error_cleanup forgets the name of the table
    /\ err' = error /\ step' = "refused"
    /\ live' = live - 2 * Cardinality(DOMAIN load.records)
    /\ lost' = lost + Len(load.headers)
    /\ load' = NoDB /\ record' = <<>> /\ current' = NULL
    /\ UNCHANGED <<db, file, overran>>

\* error_cleanup: the list of the headers is destroyed, the strings in it are not.
Refuse(error) ==
    /\ err' = error /\ step' = "refused"
    /\ live' = live - (Strings(load) - Len(load.headers))
    /\ lost' = lost + Len(load.headers)
    /\ load' = NoDB /\ record' = <<>> /\ current' = NULL
    /\ UNCHANGED <<db, file, overran>>

GoTo(where) == step' = where /\ UNCHANGED <<db, file, err, overran, lost>>

\* A character is read through NULL.
Crash ==
    /\ step' = "crashed"
    /\ UNCHANGED <<db, file, err, load, record, current, overran, live, lost>>

ReadHeader ==
    /\ step = "headers"
    /\ \E l \in Arriving :
          /\ NextRead(l)
          /\ \/ ~Found(l) /\ Refuse("bad_format")
             \/ /\ Found(l) /\ l.text = <<>>
                /\ GoTo("table") /\ UNCHANGED <<load, record, current, live>>
             \/ Found(l) /\ l.text # <<>> /\ Refuse("out_of_mem")
             \/ /\ Found(l) /\ l.text # <<>>
                /\ load' = [load EXCEPT !.headers = Append(@, l.text)] /\ live' = live + 1
                /\ GoTo("headers") /\ UNCHANGED <<record, current>>

IsTable(text) == text # <<>> /\ Head(text) = TablePrefix

ReadTable ==
    /\ step = "table"
    /\ \E l \in Arriving :
          /\ NextRead(l)
          /\ \/ ~Found(l) /\ Refuse("bad_format")
             \/ Found(l) /\ (~IsTable(l.text) \/ Len(l.text) = 1) /\ Refuse("missing_table_name")
             \/ /\ Found(l) /\ IsTable(l.text) /\ Len(l.text) > 1
                /\ load' = [load EXCEPT !.table = Tail(l.text)] /\ live' = live + 1
                /\ GoTo("columns") /\ UNCHANGED <<record, current>>

\* The first four names of a line of columns, as far as it has them.
Names(text) ==
    LET first == SplitNext(text, Comma)
        second == SplitNext(first.current, Comma)
        third == SplitNext(second.current, Comma)
    IN  <<first.sub, second.sub, third.sub, SplitNext(third.current, Comma).sub>>

\* __parse_columns, of a line that has four names where it looks for them.
AreColumns(text) == {Names(text)[n] : n \in 1 .. 4} = {<<c>> : c \in Column}

\* Behind names of columns there is no other: str_to_column is handed NULL (db.c:73) and
\* compares it with the names it knows.
LacksColumn(text) ==
    \E n \in 1 .. 4 :
        Names(text)[n] = NULL /\ \A m \in 1 .. n - 1 : Names(text)[m] \in {<<c>> : c \in Column}

ReadColumns ==
    /\ step = "columns"
    /\ \E l \in Arriving :
          /\ NextRead(l)
          /\ \/ ~Found(l) /\ Refuse("bad_format")
             \/ Found(l) /\ LacksColumn(l.text) /\ Crash
             \/ Found(l) /\ ~LacksColumn(l.text) /\ ~AreColumns(l.text) /\ Refuse("bad_column")
             \/ /\ Found(l) /\ AreColumns(l.text)
                /\ load' = [load EXCEPT !.columns = [n \in 1 .. 4 |-> Names(l.text)[n][1]]]
                /\ GoTo("records") /\ UNCHANGED <<record, current, live>>

\* Whether the last line was ended is seen from what it left in the buffer.
ReadRecord ==
    /\ step = "records"
    /\ \E l \in Arriving :
          /\ NextRead(l)
          /\ \/ /\ Found(l)
                /\ current' = l.text /\ record' = <<>>
                /\ GoTo("fields") /\ UNCHANGED <<load, live>>
             \/ ~Found(l) /\ l.text # <<>> /\ Refuse("bad_format")
             \/ /\ ~Found(l) /\ l.text = <<>>
                /\ db' = [load EXCEPT !.columns = <<>>]
                /\ live' = live - Strings(db) \* DB_destroy
                /\ load' = NoDB /\ record' = <<>> /\ current' = NULL
                /\ step' = "opened"
                /\ UNCHANGED <<file, err, overran, lost>>

-----------------------------------------------------------------------------
(* The columns of a record.                                                 *)

\* What is seen through split.current: behind the end of the line, anything.
Seen(c) == IF c = Past THEN Stale ELSE {c}

Here == load.columns[Cardinality(DOMAIN record) + 1]

InField(types) ==
    /\ step = "fields" /\ Cardinality(DOMAIN record) < 4 /\ Column_type[Here] \in types
    /\ UNCHANGED reading

Took(value, rest) ==
    /\ record' = Put(record, Here, value) /\ current' = rest
    /\ overran' = (overran \/ current = Past)
    /\ UNCHANGED <<db, file, step, err, load, live, lost>>

\* parse_id, parse_float
Parses(col, sub) == Len(sub) = 1 /\ sub[1] \in (IF col = "ID" THEN IDs ELSE IDs \cup Marks)

\* Not above the last ID, once there is a record.
IsUnordered(i) == \E j \in DOMAIN load.records : Number[i] <= Number[j]

NumberField ==
    /\ InField({"int", "float"})
    /\ \E c \in Seen(current) :
          LET s == SplitNext(c, Comma) IN
          \/ ~Parses(Here, s.sub) /\ Refuse("bad_format")
          \/ Parses(Here, s.sub) /\ Here = "ID" /\ IsUnordered(s.sub[1]) /\ Refuse("unordered_id")
          \/ /\ Parses(Here, s.sub) /\ ~(Here = "ID" /\ IsUnordered(s.sub[1]))
             /\ Took(s.sub[1], s.current)

\* A string and then a comma or the end of the line.
IsString(c) == c # <<>> /\ Head(c) \in Texts /\ (Tail(c) = <<>> \/ IsPrefix(<<Comma>>, Tail(c)))

\* read_escaped_string refuses NULL, but the character behind it is looked at first.
StringField ==
    /\ InField({"string"})
    /\ \/ current = NULL /\ Crash
       \/ /\ current # NULL
          /\ \E c \in Seen(current) :
                \/ ~IsString(c) /\ Refuse("bad_format")
                \/ IsString(c) /\ Took(Head(c), IF Len(c) = 1 THEN Past ELSE SubSeq(c, 3, Len(c)))

EndRecord ==
    /\ step = "fields" /\ Cardinality(DOMAIN record) = 4
    /\ LET r == [name |-> record["Name"], programme |-> record["Programme"], mark |-> record["Mark"]] IN
       load' = [load EXCEPT !.records = Put(@, record["ID"], r)]
    /\ live' = live + 2
    /\ GoTo("records")
    /\ UNCHANGED <<reading, record, current>>

-----------------------------------------------------------------------------
Init ==
    /\ db = NoDB /\ saved = <<>> /\ kept = NoDB
    /\ foreign = FALSE /\ unread = <<>> /\ read = <<>> /\ atEnd = FALSE
    /\ load = NoDB /\ record = <<>> /\ current = NULL
    /\ step = "prompt" /\ err = "ok" /\ overran = FALSE
    /\ live = 0 /\ lost = 0

Content == [name : Texts, programme : Texts, mark : Marks]

Next ==
    \/ \E f \in BOOLEAN : Open(f)
    \/ ReadHeader \/ ReadTable \/ ReadColumns \/ ReadRecord
    \/ NumberField \/ StringField \/ EndRecord
    \/ Save
    \/ \E i \in IDs : Delete(i) \/ \E r \in Content : Insert(i, r) \/ Update(i, r)

Spec == Init /\ [][Next]_vars

-----------------------------------------------------------------------------
(* What a file is.                                                          *)

Commas(text) == {i \in DOMAIN text : text[i] = Comma}

\* What is between two commas that follow each other, or between one and an end.
Fields(text) ==
    LET ends == SetToSortSeq(Commas(text) \cup {0, Len(text) + 1}, <) IN
    [n \in 1 .. Len(ends) - 1 |-> SubSeq(text, ends[n] + 1, ends[n + 1] - 1)]

InColumn(c) == [ID |-> IDs, Name |-> Texts, Programme |-> Texts, Mark |-> IDs \cup Marks][c]

\* The first line that is blank.
Blank(lines) == Min({n \in DOMAIN lines : lines[n].text = <<>>} \cup {Len(lines) + 1})

ColumnsOf(lines) == Fields(lines[Blank(lines) + 2].text)

RecordsOf(lines) == [n \in 1 .. Len(lines) - Blank(lines) - 2 |-> Fields(lines[Blank(lines) + 2 + n].text)]

Place(c, lines) == CHOOSE n \in 1 .. 4 : ColumnsOf(lines)[n] = <<c>>

At(c, fields, lines) == fields[Place(c, lines)][1]

\* Four different columns, whatever follows them, and records to fit, in the order of
\* their IDs; all the lines are ended and none is too long to be read.
IsDatabase(lines) ==
    /\ \A n \in DOMAIN lines : lines[n].ended /\ ~TooLong(lines[n].text)
    /\ Len(lines) >= Blank(lines) + 2
    /\ LET table == lines[Blank(lines) + 1].text IN Len(table) > 1 /\ table[1] = TablePrefix
    /\ Len(ColumnsOf(lines)) >= 4
    /\ \A c \in Column : \E n \in 1 .. 4 : ColumnsOf(lines)[n] = <<c>>
    /\ LET rs == RecordsOf(lines) IN
       /\ \A r \in Range(rs) :
             /\ Len(r) >= 4
             /\ \A c \in Column : LET f == r[Place(c, lines)] IN Len(f) = 1 /\ f[1] \in InColumn(c)
       /\ \A n \in 2 .. Len(rs) : Number[At("ID", rs[n - 1], lines)] < Number[At("ID", rs[n], lines)]

Holds(lines) ==
    LET rs == RecordsOf(lines)
        ids == {At("ID", r, lines) : r \in Range(rs)}
        row(i) == CHOOSE r \in Range(rs) : At("ID", r, lines) = i
    IN  [headers |-> [n \in 1 .. Blank(lines) - 1 |-> lines[n].text],
         table |-> Tail(lines[Blank(lines) + 1].text),
         records |-> [i \in ids |-> [name |-> At("Name", row(i), lines),
                                     programme |-> At("Programme", row(i), lines),
                                     mark |-> At("Mark", row(i), lines)]],
         columns |-> <<>>]

-----------------------------------------------------------------------------
(* Properties.                                                              *)

\* OPEN takes files that are databases and nothing else, and what it opens is what they
\* hold, unless the cursor ran over the end of a line (db.c:197).  A last line that is
\* not ended is refused (db.c:214).
OpensDatabases ==
    step = "opened" /\ ~overran => IsDatabase(read) /\ db = Holds(read)

Ended(texts) == [n \in DOMAIN texts |-> [text |-> texts[n], ended |-> TRUE]]

\* No file that is a database is refused, or crashes the program: at the end of a file it
\* is none, and before that it cannot become one any more behind the line that was read
\* last.  If it could, then with what is missing of its blank line, its table and its
\* columns, and without any more records.
RefusesOnlyOthers ==
    step \in {"refused", "crashed"} /\ err # "out_of_mem" /\ ~overran /\ ~cut =>
        LET needed == << <<>>, <<TablePrefix, "t">>, ColumnLine>>
            there == Len(read) - Blank(read) + 1
            missing == IF atEnd THEN <<>> ELSE SubSeq(needed, there + 1, 3)
        IN  ~IsDatabase(read \o Ended(missing))

\* The files that OPEN takes are the databases.
TakesDatabases == OpensDatabases /\ RefusesOnlyOthers

\* A saved file opens again as the database that was saved (db.c:162), if its lines are
\* not too long: two strings that are each typed in a command of their own can make one
\* that is.
SavedOpensSame ==
    ~foreign /\ ~cut =>
        /\ step = "opened" => db = kept
        /\ step = "refused" => err = "out_of_mem" \/ \E t \in Range(saved) : TooLong(t)

\* A read error between two lines is taken for the end of the file: what is opened then
\* is a part of what was saved, and never anything else.
CutOpensPart ==
    step = "opened" /\ cut =>
        /\ DOMAIN db.records \subseteq DOMAIN kept.records
        /\ [db EXCEPT !.records = <<>>] = [kept EXCEPT !.records = <<>>]
        /\ \A i \in DOMAIN db.records :
              /\ db.records[i] = kept.records[i]
              /\ \A j \in DOMAIN kept.records : Number[j] < Number[i] => j \in DOMAIN db.records

\* What is saved is what is opened, or as much of it as could be read.
SavedIsOpened == SavedOpensSame /\ CutOpensPart

\* NULL is read through where a column is looked for (db.c:73, tokenizer.c:94) or a string
\* (db.c:184), or the cursor runs over the end of a line (db.c:197), only in a line of a
\* foreign file that has fewer than three commas, and never in one from DB_to_file.
OnlyShortLinesRunOver ==
    (step = "crashed" \/ (step = "fields" /\ current = Past /\ Cardinality(DOMAIN record) < 4)) =>
        foreign /\ Cardinality(Commas(Last(read).text)) < 3

\* Every string on the heap belongs to the open database or to the one being read, but
\* for the headers of files that were refused (db.c:231).
StringsOwned == live = Strings(db) + Strings(load) + lost
=============================================================================
