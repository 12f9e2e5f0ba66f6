---------------------------- MODULE SessionProofs ----------------------------
(***************************************************************************)
(* What a session keeps up to date by hand is up to date, for all files,    *)
(* records and lengths of lines.                                            *)
(***************************************************************************)
EXTENDS Session, FiniteSetTheorems, TLAPS

Types ==
    /\ disk \in [Files -> Table \cup {Absent, Bad}]
    /\ opened \in BOOLEAN /\ records \in Table
    /\ last_filename \in Cells \cup {NULL} /\ recent \in Files \cup {NULL}
    /\ strings \in [Cells -> Files \cup {Free}]
    /\ pc \in {"prompt", "confirm", "exit"}

\* DELETE asks about a record that is there, and nothing happens until it is answered.
Asking == pc = "confirm" => asked \in DOMAIN records

IInv == Types /\ Asking /\ CountExact /\ DefaultFilename /\ OneFilename

-----------------------------------------------------------------------------
USE IDsAssumption, FilesAssumption, PointerAssumption

\* A table has finitely many records.
LEMMA TableFinite == ASSUME NEW t \in Table PROVE IsFiniteSet(DOMAIN t) /\ DOMAIN t \subseteq IDs
BY FS_Subset DEF Table

\* What INSERT makes of a table: one record more.
LEMMA AddRecord ==
    ASSUME NEW t \in Table, NEW i \in IDs, NEW v \in Values, i \notin DOMAIN t,
           NEW u, u = [j \in DOMAIN t \cup {i} |-> IF j = i THEN v ELSE t[j]]
    PROVE  u \in Table /\ Count(u) = Count(t) + 1 /\ DOMAIN u = DOMAIN t \cup {i}
<1>1. IsFiniteSet(DOMAIN t) /\ DOMAIN t \subseteq IDs
  BY TableFinite
<1>2. DOMAIN u = DOMAIN t \cup {i}
  OBVIOUS
<1>3. u \in [DOMAIN t \cup {i} -> Values]
  BY DEF Table
<1>4. u \in Table
  BY <1>1, <1>3 DEF Table
<1>5. Cardinality(DOMAIN t \cup {i}) = Cardinality(DOMAIN t) + 1
  BY <1>1, FS_AddElement
<1> QED  BY <1>2, <1>4, <1>5 DEF Count

\* What DELETE makes of it: one record less.
LEMMA RemoveRecord ==
    ASSUME NEW t \in Table, NEW i \in DOMAIN t
    PROVE  /\ Restrict(t, DOMAIN t \ {i}) \in Table
           /\ Count(Restrict(t, DOMAIN t \ {i})) = Count(t) - 1
<1>1. IsFiniteSet(DOMAIN t) /\ DOMAIN t \subseteq IDs
  BY TableFinite
<1>2. DOMAIN Restrict(t, DOMAIN t \ {i}) = DOMAIN t \ {i}
  BY DEF Restrict
<1>3. Restrict(t, DOMAIN t \ {i}) \in [DOMAIN t \ {i} -> Values]
  BY DEF Restrict, Table
<1>4. Restrict(t, DOMAIN t \ {i}) \in Table
  BY <1>1, <1>3 DEF Table
<1>5. Cardinality(DOMAIN t \ {i}) = Cardinality(DOMAIN t) - 1
  BY <1>1, FS_RemoveElement
<1> QED  BY <1>2, <1>4, <1>5 DEF Count

\* last_filename becomes a copy of the name at p: the old string is freed, and the new one
\* is the only one.
LEMMA ReplaceName ==
    ASSUME Types, OneFilename, NEW p, NEW f \in Files, Replace(p, f), p = Line
    PROVE  /\ last_filename' \in Cells /\ strings' \in [Cells -> Files \cup {Free}]
           /\ strings'[last_filename'] = f
           /\ {c \in Cells : strings'[c] # Free} = {last_filename'}
<1> DEFINE freed == Freed(last_filename)
           cell == CHOOSE x \in Cells : freed[x] = Free
<1>1. freed = [c \in Cells |-> Free]
  BY DEF Freed, Types, OneFilename
<1>2. cell \in Cells
  BY <1>1
<1>3. strings' = [freed EXCEPT ![cell] = f] /\ last_filename' = cell
  BY DEF Replace, StringAt
<1> HIDE DEF freed, cell
<1> QED  BY <1>1, <1>2, <1>3

\* The start of a session.
LEMMA InitInv == Init => IInv
<1> SUFFICES ASSUME Init PROVE IInv
  OBVIOUS
<1>1. Empty \in Table /\ DOMAIN Empty = {}
  BY DEF Empty, Table
<1>2. Count(Empty) = 0
  BY <1>1, FS_EmptySet DEF Count
<1> QED  BY <1>1, <1>2 DEF Init, IInv, Types, Asking, CountExact, DefaultFilename, OneFilename

\* Commands that read and print, and lines without a command.
LEMMA PrintInv ==
    ASSUME IInv, SkipLine \/ OnlyPrint \/ Exit \/ \E f \in Files : OpenFails(f)
    PROVE  IInv'
BY DEF IInv, Types, Asking, CountExact, DefaultFilename, OneFilename, Count, SkipLine,
       OnlyPrint, Exit, OpenFails, db, names, ReadCommand, Prompted

\* OPEN, which replaces the database and the name.
LEMMA OpenInv == ASSUME IInv, NEW f \in Files, Open(f) PROVE IInv'
<1> USE DEF IInv
<1>1. disk[f] \in Table
  BY DEF Open, Loadable, Types
<1>2. Types /\ OneFilename /\ Replace(Line, f)
  BY DEF Open
<1>3. /\ last_filename' \in Cells /\ strings' \in [Cells -> Files \cup {Free}]
      /\ strings'[last_filename'] = f
      /\ {c \in Cells : strings'[c] # Free} = {last_filename'}
  BY <1>2, ReplaceName
<1>4. Types'
  BY <1>1, <1>3 DEF Open, Types
<1>5. CountExact' /\ Asking'
  BY DEF Open, CountExact, Asking, Count, ReadCommand, Prompted
<1>6. DefaultFilename' /\ OneFilename'
  BY <1>3 DEF Open, DefaultFilename, OneFilename
<1> QED  BY <1>4, <1>5, <1>6

\* INSERT counts a record exactly when it adds one.
LEMMA InsertInv == ASSUME IInv, NEW i \in IDs, NEW v \in Values, Insert(i, v) PROVE IInv'
<1> USE DEF IInv
<1>1. /\ UNCHANGED <<disk, opened, last_filename, strings, recent, pc>>
      /\ pc = "prompt"
  BY DEF Insert, names, ReadCommand, Prompted
<1>2. DefaultFilename' /\ OneFilename' /\ Asking'
  BY <1>1 DEF DefaultFilename, OneFilename, Asking
<1>3. records' \in Table /\ CountExact'
  <2>1. CASE i \in DOMAIN records
    BY <2>1 DEF Insert, Types, CountExact, Count
  <2>2. CASE i \notin DOMAIN records
    <3>1. records' = [j \in DOMAIN records \cup {i} |-> IF j = i THEN v ELSE records[j]]
      BY <2>2 DEF Insert
    <3>2. records' \in Table /\ Count(records') = Count(records) + 1
      BY <2>2, <3>1, AddRecord DEF Types
    <3> QED  BY <2>2, <3>2 DEF Insert, CountExact, Count
  <2> QED  BY <2>1, <2>2
<1> QED  BY <1>1, <1>2, <1>3 DEF Types

\* UPDATE changes no count and DELETE asks about a record that is there.
LEMMA UpdateInv ==
    ASSUME IInv, NEW i \in IDs, Delete(i) \/ \E v \in Values : Update(i, v)
    PROVE  IInv'
<1> USE DEF IInv
<1>1. CASE Delete(i)
  BY <1>1 DEF Delete, Types, Asking, CountExact, Count, DefaultFilename, OneFilename, db, names
<1>2. CASE \E v \in Values : Update(i, v)
  <2>1. PICK v \in Values : Update(i, v)
    BY <1>2
  <2>2. records' \in Table /\ DOMAIN records' = DOMAIN records
    BY <2>1 DEF Update, Types, Table
  <2>3. CountExact'
    BY <2>1, <2>2 DEF Update, CountExact, Count
  <2> QED  BY <2>1, <2>2, <2>3 DEF Update, Types, Asking, DefaultFilename, OneFilename, names,
                                ReadCommand, Prompted
<1> QED  BY <1>1, <1>2

\* The answer to DELETE.
LEMMA AnswerInv == ASSUME IInv, NEW l, Confirm(l) \/ Cancel(l) PROVE IInv'
<1> USE DEF IInv
<1>1. CASE Confirm(l)
  <2>1. asked \in DOMAIN records /\ records' = Restrict(records, DOMAIN records \ {asked})
    BY <1>1 DEF Confirm, Asking
  <2>2. records' \in Table /\ Count(records') = Count(records) - 1
    BY <2>1, RemoveRecord DEF Types
  <2> QED  BY <1>1, <2>2 DEF Confirm, Types, Asking, CountExact, Count, DefaultFilename,
                             OneFilename, names
<1>2. CASE Cancel(l)
  BY <1>2 DEF Cancel, Types, Asking, CountExact, Count, DefaultFilename, OneFilename, db, names
<1> QED  BY <1>1, <1>2

\* SAVE: without a file name its argument is last_filename itself, which is kept.
LEMMA SaveInv ==
    ASSUME IInv, NEW f \in Files \cup {NULL}, Save(f) \/ SaveFails(f)
    PROVE  IInv'
<1> USE DEF IInv
<1>1. CASE SaveFails(f)
  BY <1>1 DEF SaveFails, Types, Asking, CountExact, Count, DefaultFilename, OneFilename, db, names
<1>2. CASE Save(f)
  <2>1. /\ UNCHANGED <<opened, records, record_count, pc>> /\ opened /\ pc = "prompt"
        /\ records \in Table
        /\ disk' = [disk EXCEPT ![StringAt(strings, SaveArgument(f), f)] = records]
        /\ Remember(SaveArgument(f), f)
    BY <1>2 DEF Save, db, ReadCommand, Prompted, Types
  <2>2. CountExact' /\ Asking' /\ disk' \in [Files -> Table \cup {Absent, Bad}]
    BY <2>1 DEF CountExact, Count, Asking, Types
  <2>3. CASE f = NULL
    <3>1. SaveArgument(f) = last_filename /\ last_filename \in Cells
      BY <2>1, <2>3 DEF SaveArgument, OneFilename, Types
    <3>2. UNCHANGED <<last_filename, strings>> /\ recent' = strings[last_filename]
      BY <2>1, <3>1 DEF Remember, StringAt
    <3> QED  BY <2>1, <2>2, <3>1, <3>2 DEF Types, DefaultFilename, OneFilename
  <2>4. CASE f \in Files
    <3>1. SaveArgument(f) = Line /\ Line # last_filename
      BY <2>4 DEF SaveArgument, Types
    <3>2. Replace(Line, f) /\ recent' = f
      BY <2>1, <3>1 DEF Remember, StringAt
    <3>3. /\ last_filename' \in Cells /\ strings' \in [Cells -> Files \cup {Free}]
          /\ strings'[last_filename'] = f
          /\ {c \in Cells : strings'[c] # Free} = {last_filename'}
      BY <2>4, <3>2, ReplaceName
    <3>4. DefaultFilename' /\ OneFilename'
      BY <2>4, <3>2, <3>3 DEF DefaultFilename, OneFilename
    <3> QED  BY <2>1, <2>2, <2>4, <3>2, <3>3, <3>4 DEF Types
  <2> QED  BY <2>3, <2>4
<1> QED  BY <1>1, <1>2

\* No step breaks the invariant.
LEMMA NextInv == ASSUME IInv, [Next]_vars PROVE IInv'
<1>1. CASE Next
  BY <1>1, PrintInv, OpenInv, InsertInv, UpdateInv, AnswerInv, SaveInv DEF Next
<1>2. CASE UNCHANGED vars
  BY <1>2 DEF vars, db, names, IInv, Types, Asking, CountExact, Count, DefaultFilename, OneFilename
<1> QED  BY <1>1, <1>2

-----------------------------------------------------------------------------
\* record_count is the number of records after any sequence of commands, so that the
\* array SHOW ALL allocates has room for all of them.
THEOREM CountAlwaysExact == Spec => []CountExact
<1>1. Init => IInv
  BY InitInv
<1>2. IInv /\ [Next]_vars => IInv'
  BY NextInv
<1>3. IInv => CountExact
  BY DEF IInv
<1> QED  BY <1>1, <1>2, <1>3, PTL DEF Spec

\* last_filename is always a string that has not been freed and the name used in the last
\* OPEN or SAVE that succeeded, and no other string is left behind.
THEOREM NameAlwaysRight == Spec => []FilenameKept
<1>1. Init => IInv
  BY InitInv
<1>2. IInv /\ [Next]_vars => IInv'
  BY NextInv
<1>3. IInv => FilenameKept
  BY DEF IInv, FilenameKept
<1> QED  BY <1>1, <1>2, <1>3, PTL DEF Spec

-----------------------------------------------------------------------------
\* On a line without a NUL character, reading a line leaves stdin at the start of one: what
\* fgets leaves unread is what the loop drains, for buffers of any size.
LEMMA WholeLine ==
    ASSUME Nuls = {FALSE}, NEW l \in InputLine, NEW size \in Nat, GetLine(l, size)
    PROVE  ~midline'
<1>1. l \in [len : 0 .. MaxLength, ended : BOOLEAN, nul : {FALSE}]
  BY DEF InputLine
<1>2. l.len \in Nat /\ ~l.nul
  <2>1. l.len \in 0 .. MaxLength /\ l.nul \in {FALSE}
    BY <1>1, Zenon
  <2>2. l.len \in Nat
    BY <2>1, LengthAssumption, SMT
  <2> QED  BY <2>1, <2>2, Zenon
<1>3. Unread(l, size) => Drains(l, size)
  BY <1>2 DEF Unread, Drains
<1>4. midline' = (Unread(l, size) /\ ~Drains(l, size))
  BY DEF GetLine
<1> QED  BY <1>3, <1>4

\* Provided that no line has a NUL character, the tail of a line never runs as a command,
\* whatever the lengths of the lines and the sizes of the two buffers.
THEOREM LinesAlwaysWhole ==
    ASSUME Nuls = {FALSE}
    PROVE  Spec => []WholeLines
<1>1. Init => WholeLines
  BY DEF Init, WholeLines
<1>2. WholeLines /\ [Next]_vars => WholeLines'
  <2> SUFFICES ASSUME WholeLines, [Next]_vars PROVE ~midline'
    BY DEF WholeLines
  <2>1. CASE UNCHANGED midline
    BY <2>1 DEF WholeLines
  <2>2. CASE \E l \in InputLine : GetLine(l, LineSize) \/ GetLine(l, ConfirmSize)
    BY <2>2, WholeLine, BufferAssumption
  <2>3. UNCHANGED midline \/ \E l \in InputLine : GetLine(l, LineSize) \/ GetLine(l, ConfirmSize)
    BY DEF Next, vars, input, SkipLine, OnlyPrint, Exit, Open, OpenFails, Delete, Insert, Update,
           Confirm, Cancel, Save, SaveFails, ReadCommand
  <2> QED  BY <2>1, <2>2, <2>3
<1> QED  BY <1>1, <1>2, PTL DEF Spec
===============================================================================
