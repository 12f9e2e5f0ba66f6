------------------------------- MODULE Session --------------------------------
(***************************************************************************)
(* A session of classy: the loop of main in src/src/main.c, which reads a   *)
(* line at a time and runs the command on it, the database, the file name   *)
(* that SAVE defaults to and the question that DELETE asks.  The tree is    *)
(* the map that TTree implements, and a save succeeds or fails as a whole,  *)
(* as AtomicFile shows.  SHOW, QUERY and HELP change nothing.               *)
(***************************************************************************)
EXTENDS Integers, FiniteSets, Functions

CONSTANTS
    IDs, Values,  \* the IDs and the contents of records
    Wide,         \* the contents whose line in a file is longer than MAX_LINE_LEN
    Files,        \* the names users give files
    Absent, Bad,  \* no such file, and a file that is not a database
    Cells, Free,  \* where strdup may put a string, and what is there without one
    Line,         \* the address of line_buf
    NULL,
    LineSize, ConfirmSize, \* LINE_BUF_SIZE and the size of confirmation_buf
    MaxLength,    \* a bound on the length of an input line
    Nuls          \* whether a line may have a NUL character: {FALSE} or BOOLEAN

ASSUME IDsAssumption == IsFiniteSet(IDs)
ASSUME ValuesAssumption == Wide \subseteq Values
ASSUME FilesAssumption == NULL \notin Files /\ Free \notin Files
ASSUME PointerAssumption == Cells # {} /\ Line \notin Cells /\ NULL \notin Cells /\ Line # NULL
ASSUME NulsAssumption == Nuls \subseteq BOOLEAN
ASSUME LengthAssumption == MaxLength \in Nat
ASSUME BufferAssumption == LineSize \in Nat /\ ConfirmSize \in Nat /\ LineSize >= 2 /\ ConfirmSize >= 2

VARIABLES
    disk,          \* what each file holds
    opened,        \* db.table_name is not NULL
    records,       \* db.data
    record_count,  \* db.record_count
    last_filename, \* a pointer to a string, or NULL
    strings,       \* the strings in memory that strdup has made
    pc,            \* "prompt", "confirm" or "exit"
    asked,         \* the ID that DELETE has asked about
    eof,           \* feof(stdin)
    midline,       \* whether stdin is in the middle of a line
    recent         \* the file named in the last OPEN or SAVE that succeeded

db == <<opened, records, record_count>>
names == <<last_filename, strings, recent>>
input == <<eof, midline>>
vars == <<disk, db, names, pc, asked, input>>

Table == UNION {[S -> Values] : S \in SUBSET IDs}

Empty == [i \in {} |-> Absent]

Count(t) == Cardinality(DOMAIN t)

-----------------------------------------------------------------------------
(* get_line.  A line has len characters and ends in a newline or in the end  *)
(* of the input.  nul: one of the characters that fgets reads is a NUL,     *)
(* where strcspn stops.                                                     *)

InputLine == {l \in [len : 0 .. MaxLength, ended : BOOLEAN, nul : Nuls] : l.nul => l.len > 0}

\* The newline is found.
Fits(l, size) == l.ended /\ l.len <= size - 2 /\ ~l.nul

DrainsLate(l, size) == l.len >= size /\ ~l.nul \* slip: off by one

\* The rest of a line that is too long is read up to its newline.
Drains(l, size) == l.len >= size - 1 /\ ~l.nul

\* fgets reads size - 1 characters at most.
Unread(l, size) == IF l.ended THEN l.len >= size - 1 ELSE l.len >= size

GetLine(l, size) ==
    /\ midline' = (Unread(l, size) /\ ~Drains(l, size))
    /\ eof' = (~l.ended /\ (l.len < size - 1 \/ Drains(l, size)))

Prompted == pc = "prompt" /\ ~eof

\* A line that the command being read is on.
ReadCommand == Prompted /\ \E l \in InputLine : Fits(l, LineSize) /\ GetLine(l, LineSize)

-----------------------------------------------------------------------------
Init ==
    /\ disk \in [Files -> Table \cup {Absent, Bad}]
    /\ opened = FALSE /\ records = Empty /\ record_count = 0
    /\ last_filename = NULL /\ strings = [c \in Cells |-> Free] /\ recent = NULL
    /\ pc = "prompt" /\ asked = NULL
    /\ eof = FALSE /\ midline = FALSE

\* No command on it: a line that does not fit, or the end of the input.
SkipLine ==
    /\ Prompted
    /\ \E l \in InputLine : ~Fits(l, LineSize) /\ GetLine(l, LineSize)
    /\ UNCHANGED <<disk, db, names, pc, asked>>

\* A syntax error, a command that only prints, or one that needs a database without one.
OnlyPrint ==
    /\ ReadCommand
    /\ UNCHANGED <<disk, db, names, pc, asked>>

Exit ==
    /\ pc = "prompt" /\ eof
    /\ pc' = "exit"
    /\ UNCHANGED <<disk, db, names, asked, input>>

FreedNever(p) == strings \* slip: the old name is not freed

\* free and then strdup of the string at p, which line_buf or a cell holds.
Freed(p) == IF p = NULL THEN strings ELSE [strings EXCEPT ![p] = Free]

StringAt(s, p, line) == IF p = Line THEN line ELSE s[p]

Replace(p, line) ==
    LET freed == Freed(last_filename)
        c == CHOOSE x \in Cells : freed[x] = Free
    IN  /\ last_filename' = c
        /\ strings' = [freed EXCEPT ![c] = StringAt(freed, p, line)]

-----------------------------------------------------------------------------
(* OPEN.  The new database replaces the old one only when all of it is read. *)

Loadable(f) == disk[f] \notin {Absent, Bad} /\ \A i \in DOMAIN disk[f] : disk[f][i] \notin Wide

Open(f) ==
    /\ ReadCommand /\ Loadable(f)
    /\ opened' = TRUE /\ records' = disk[f] /\ record_count' = Count(disk[f])
    /\ Replace(Line, f)
    /\ recent' = f
    /\ UNCHANGED <<disk, pc, asked>>

\* Also when fopen fails on a file that could be loaded.
OpenFails(f) ==
    /\ ReadCommand
    /\ UNCHANGED <<disk, db, names, pc, asked>>

-----------------------------------------------------------------------------
(* Commands on an open database.                                            *)

InsertCounting(i, v) == \* slip: counts an insert that was refused
    /\ ReadCommand /\ opened
    /\ records' = IF i \in DOMAIN records THEN records
                  ELSE [j \in DOMAIN records \cup {i} |-> IF j = i THEN v ELSE records[j]]
    /\ record_count' = record_count + 1
    /\ UNCHANGED <<disk, opened, names, pc, asked>>

Insert(i, v) ==
    /\ ReadCommand /\ opened
    /\ IF i \in DOMAIN records
       THEN UNCHANGED <<records, record_count>>
       ELSE /\ records' = [j \in DOMAIN records \cup {i} |-> IF j = i THEN v ELSE records[j]]
            /\ record_count' = record_count + 1
    /\ UNCHANGED <<disk, opened, names, pc, asked>>

Update(i, v) ==
    /\ ReadCommand /\ opened /\ i \in DOMAIN records
    /\ records' = [records EXCEPT ![i] = v]
    /\ UNCHANGED <<disk, opened, record_count, names, pc, asked>>

Delete(i) ==
    /\ ReadCommand /\ opened /\ i \in DOMAIN records
    /\ pc' = "confirm" /\ asked' = i
    /\ UNCHANGED <<disk, db, names>>

\* The answer is a line of its own.  Only "Y" and "y" confirm.
Confirm(l) ==
    /\ pc = "confirm" /\ pc' = "prompt"
    /\ GetLine(l, ConfirmSize)
    /\ Fits(l, ConfirmSize) /\ l.len = 1
    /\ records' = Restrict(records, DOMAIN records \ {asked})
    /\ record_count' = record_count - 1
    /\ asked' = NULL
    /\ UNCHANGED <<disk, opened, names>>

Cancel(l) ==
    /\ pc = "confirm" /\ pc' = "prompt"
    /\ GetLine(l, ConfirmSize)
    /\ asked' = NULL
    /\ UNCHANGED <<disk, db, names>>

\* args->filename: NULL when none is given, and then last_filename.
SaveArgument(f) == IF f = NULL THEN last_filename ELSE Line

\* The file name is kept if it is a new one.
Remember(p, f) ==
    /\ IF p = last_filename THEN UNCHANGED <<last_filename, strings>> ELSE Replace(p, f)
    /\ recent' = StringAt(strings, p, f)

Save(f) ==
    /\ ReadCommand /\ opened
    /\ disk' = [disk EXCEPT ![StringAt(strings, SaveArgument(f), f)] = records]
    /\ Remember(SaveArgument(f), f)
    /\ UNCHANGED <<db, pc, asked>>

SaveFails(f) ==
    /\ ReadCommand /\ opened
    /\ UNCHANGED <<disk, db, names, pc, asked>>

Next ==
    \/ SkipLine \/ OnlyPrint \/ Exit
    \/ \E f \in Files : Open(f) \/ OpenFails(f)
    \/ \E i \in IDs : Delete(i) \/ \E v \in Values : Insert(i, v) \/ Update(i, v)
    \/ \E l \in InputLine : Confirm(l) \/ Cancel(l)
    \/ \E f \in Files \cup {NULL} : Save(f) \/ SaveFails(f)

Spec == Init /\ [][Next]_vars

-----------------------------------------------------------------------------
(* Properties.                                                              *)

\* record_count is the number of records.  SHOW ALL allocates that many pointers and
\* stores one for each record the tree iterates over.
CountExact == record_count = Count(records)

\* SAVE without a file name "defaults to the filename used in the last successful OPEN
\* or SAVE command" (README): last_filename is a string that has not been freed, and it
\* is that name.
DefaultFilename ==
    IF recent = NULL THEN last_filename = NULL
    ELSE last_filename \in Cells /\ strings[last_filename] = recent

\* With a database open there is a name to default to: run_save never gets NULL.  The
\* other strings that strdup made for last_filename have been freed.
OneFilename ==
    /\ opened => last_filename # NULL
    /\ {c \in Cells : strings[c] # Free} = {last_filename} \ {NULL}

\* last_filename is right and the only string of its kind.
FilenameKept == DefaultFilename /\ OneFilename

\* get_line leaves stdin at the start of a line, however long the last one was: the end
\* of a line that was refused, or of an answer to DELETE, is never run as a command.
\* It takes lines without a NUL character: strcspn stops there, and a long line is not
\* seen to be one.
WholeLines == ~midline
===============================================================================
