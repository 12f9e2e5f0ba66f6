----------------------------- MODULE DbFileProofs -----------------------------
(***************************************************************************)
(* A saved database opens again as it was, or as the part of it that could  *)
(* be read; only a short line of a foreign file leads to NULL or over its   *)
(* end; and no string is lost but the headers of refused files: for any     *)
(* records, lines and buffers.                                              *)
(***************************************************************************)
EXTENDS DbFile, FiniteSetTheorems, SequenceTheorems, WellFoundedInduction, TLAPS

-----------------------------------------------------------------------------
(* What holds while a file is read.                                         *)

Held == [name : Texts, programme : Texts, mark : IDs \cup Marks]

Databases ==
    [headers : Seq(Line \ {<<>>}), table : Line, records : UNION {[S -> Held] : S \in SUBSET IDs},
     columns : Seq(Column)]

IsDB(d) == d \in Databases /\ IsFiniteSet(DOMAIN d.records)

SomeFields == UNION {[S -> Token] : S \in SUBSET Column}

Reading == step \in {"headers", "table", "columns", "records", "fields"}

TypeOK ==
    /\ IsDB(db) /\ IsDB(kept) /\ IsDB(load)
    /\ saved \in Seq(Line) /\ unread \in Seq(Line)
    /\ read \in Seq([text : Line, ended : BOOLEAN])
    /\ record \in SomeFields
    /\ current \in Line \cup {NULL, Past}
    /\ Reading \/ Resting \/ step = "crashed"
    /\ foreign \in BOOLEAN /\ atEnd \in BOOLEAN /\ overran \in BOOLEAN
    /\ live \in Int /\ lost \in Int

Taken == Cardinality(DOMAIN record)

\* Each column once.
InAnyOrder(columns) == columns \in [1 .. 4 -> Column] /\ \A m, n \in 1 .. 4 : columns[m] = columns[n] => m = n

\* The columns of a record are taken in the order of the file.
FieldsInOrder ==
    /\ Taken \in 0 .. 4
    /\ DOMAIN record = {load.columns[n] : n \in 1 .. Taken}
    /\ \A c \in DOMAIN record : record[c] \in InColumn(c)
    /\ "ID" \in DOMAIN record => ~IsUnordered(record["ID"])

LoadOK ==
    /\ Resting => load = NoDB
    /\ step = "headers" => load.table = <<>>
    /\ step \in {"headers", "table", "columns"} => load.records = <<>>
    /\ step = "table" => load.table = <<>>
    /\ step \in {"records", "fields"} => InAnyOrder(load.columns)
    /\ step = "fields" => FieldsInOrder

CommasIn(text) == Cardinality(Commas(text))

\* Each column but the last takes a comma.
Counted ==
    LET commas == CommasIn(Last(read).text) IN
    \/ commas < 3
    \/ IF current \in {NULL, Past} THEN commas = Taken - 1 ELSE commas = Taken + CommasIn(current)

LinesCounted ==
    /\ step = "fields" /\ foreign => Counted
    /\ step = "crashed" => foreign /\ CommasIn(Last(read).text) < 3

KeptOrder == InOrder(DOMAIN kept.records)

\* The first m records.
FirstRecords(m) == [i \in {KeptOrder[n] : n \in 1 .. m} |-> kept.records[i]]

LinesBefore(n) == n \in 0 .. Len(saved) /\ unread = SubSeq(saved, n + 1, Len(saved))

InOrderOfColumns == <<"ID", "Name", "Programme", "Mark">>

\* What is loaded after m records.
Loaded(m) == [headers |-> kept.headers, table |-> kept.table, records |-> FirstRecords(m),
              columns |-> InOrderOfColumns]

\* The record of an ID and its line.
Row(i) ==
    LET r == kept.records[i] IN [ID |-> i, Name |-> r.name, Programme |-> r.programme, Mark |-> r.mark]

SavedLine(i) == RecordLine(i, kept.records[i])

Rest(c, m) == SubSeq(c, m + 1, Len(c))

\* What is taken of it, and what is left of the line.
TakenOf(k, i) ==
    /\ record = [c \in {InOrderOfColumns[n] : n \in 1 .. k} |-> Row(i)[c]]
    /\ current = IF k < 4 THEN Rest(SavedLine(i), 2 * k) ELSE NULL

Behind == Len(kept.headers)

\* Where the reading of a saved file is.
SavedIsRead ==
    /\ saved # <<>>
    /\ step = "headers" =>
          \E n \in 0 .. Behind :
             LinesBefore(n) /\ load = [NoDB EXCEPT !.headers = SubSeq(kept.headers, 1, n)]
    /\ step = "table" => LinesBefore(Behind + 1) /\ load = [NoDB EXCEPT !.headers = kept.headers]
    /\ step = "columns" =>
          LinesBefore(Behind + 2) /\ load = [NoDB EXCEPT !.headers = kept.headers, !.table = kept.table]
    /\ step = "records" =>
          \E m \in 0 .. Len(KeptOrder) : LinesBefore(Behind + 3 + m) /\ load = Loaded(m)
    /\ step = "fields" =>
          \E m \in 1 .. Len(KeptOrder) :
             /\ LinesBefore(Behind + 3 + m) /\ load = Loaded(m - 1)
             /\ \E k \in 0 .. 4 : TakenOf(k, KeptOrder[m])

ReadBack ==
    /\ db.columns = <<>>
    /\ saved # <<>> => saved = Lines(kept) /\ kept.table # <<>> /\ kept.columns = <<>>
    /\ foreign => saved = <<>> /\ unread = <<>>
    /\ Reading => ~cut /\ (~foreign => SavedIsRead)
    /\ step = "opened" /\ ~foreign =>
          \E m \in 0 .. Len(KeptOrder) :
             /\ db = [kept EXCEPT !.records = FirstRecords(m)]
             /\ ~cut => m = Len(KeptOrder)
    /\ step = "refused" /\ ~foreign /\ ~cut =>
          err = "out_of_mem" \/ \E t \in Range(saved) : TooLong(t)
    /\ cut => ~foreign

DInv == TypeOK /\ LoadOK /\ StringsOwned /\ LinesCounted /\ ReadBack

-----------------------------------------------------------------------------
(* The records in the order of their IDs.                                   *)

\* A set of numbers that is not empty has a least member.
LEMMA LeastNumber ==
    ASSUME NEW T, T \subseteq Nat, T # {}
    PROVE  \E x \in T : \A y \in T : x <= y
<1>1. PICK x \in T : \A y \in T : ~(<<y, x>> \in OpToRel(<, Nat))
  BY NatLessThanWellFounded, WFMin, Zenon
<1>2. \A y \in Nat, z \in Nat : y < z => <<y, z>> \in OpToRel(<, Nat)
  BY Zenon DEF OpToRel
<1>3. \A y \in T : ~(y < x)
  BY <1>1, <1>2, Zenon
<1> QED  BY <1>3

\* s has the IDs of S, each once, in the order of their numbers.
Ordered(s, S) ==
    /\ s \in [1 .. Cardinality(S) -> S] /\ Range(s) = S
    /\ \A m, n \in DOMAIN s : m < n => Number[s[m]] < Number[s[n]]

Highest(S, i) == i \in S /\ \A j \in S : Number[j] <= Number[i]

\* Of the IDs in a finite set that is not empty, one has the highest number: a set of
\* the least size that lacks it would be another set and one more ID.
LEMMA HasHighest ==
    ASSUME NEW S, S \subseteq IDs, IsFiniteSet(S), S # {}
    PROVE  \E i : Highest(S, i)
<1> DEFINE Lacks(T) == T \subseteq IDs /\ IsFiniteSet(T) /\ T # {} /\ ~\E i : Highest(T, i)
           Bad == {n \in Nat : \E T : Lacks(T) /\ Cardinality(T) = n}
<1> SUFFICES ASSUME Lacks(S) PROVE FALSE
  OBVIOUS
<1>1. Cardinality(S) \in Bad
  BY FS_CardinalityType
<1>2. PICK n \in Bad : \A k \in Bad : n <= k
  <2> HIDE DEF Lacks
  <2> QED  BY <1>1, LeastNumber
<1>3. PICK T : Lacks(T) /\ Cardinality(T) = n
  BY <1>2
<1>4. PICK x : x \in T
  BY <1>3
<1> DEFINE U == T \ {x}
<1>5. IsFiniteSet(U) /\ Cardinality(U) = n - 1 /\ Cardinality(U) \in Nat
  BY <1>3, <1>4, FS_RemoveElement, FS_CardinalityType
<1>6. ~Lacks(U)
  BY <1>2, <1>5
<1>7. \A i \in T : Number[i] \in Int
  BY <1>3, NumberAssumption
<1>8. CASE U = {}
  <2>1. \A j \in T : j = x
    BY <1>8
  <2> QED  BY <1>3, <1>4, <1>7, <2>1 DEF Highest
<1>9. CASE U # {}
  <2>1. PICK m : Highest(U, m)
    BY <1>3, <1>5, <1>6, <1>9
  <2>2. Highest(T, IF Number[x] <= Number[m] THEN m ELSE x)
    BY <1>4, <1>7, <2>1 DEF Highest
  <2> QED  BY <1>3, <2>2
<1> QED  BY <1>8, <1>9

\* A finite set of IDs can be put in order: the highest goes behind the others.
LEMMA CanBeOrdered ==
    ASSUME NEW S, S \subseteq IDs, IsFiniteSet(S)
    PROVE  \E s : Ordered(s, S)
<1> DEFINE Lacks(T) == T \subseteq IDs /\ IsFiniteSet(T) /\ ~\E s : Ordered(s, T)
           Bad == {n \in Nat : \E T : Lacks(T) /\ Cardinality(T) = n}
<1> SUFFICES ASSUME Lacks(S) PROVE FALSE
  OBVIOUS
<1>1. Cardinality(S) \in Bad
  BY FS_CardinalityType
<1>2. PICK n \in Bad : \A k \in Bad : n <= k
  <2> HIDE DEF Lacks
  <2> QED  BY <1>1, LeastNumber
<1>3. PICK T : Lacks(T) /\ Cardinality(T) = n
  BY <1>2
<1>4. CASE T = {}
  <2>1. Cardinality(T) = 0
    BY <1>4, FS_EmptySet
  <2>2. Ordered([i \in 1 .. 0 |-> 0], T)
    BY <1>4, <2>1 DEF Ordered, Range
  <2> QED  BY <1>3, <2>2
<1>5. CASE T # {}
  <2>1. PICK m : Highest(T, m)
    BY <1>3, <1>5, HasHighest
  <2> DEFINE U == T \ {m}
  <2>2. IsFiniteSet(U) /\ Cardinality(U) = n - 1 /\ Cardinality(U) \in Nat
    BY <1>3, <2>1, FS_RemoveElement, FS_CardinalityType DEF Highest
  <2>3. PICK s : Ordered(s, U)
    BY <1>2, <1>3, <2>2
  <2> DEFINE t == [i \in 1 .. n |-> IF i = n THEN m ELSE s[i]]
  <2>4. s \in [1 .. n - 1 -> U] /\ Range(s) = U /\ n \in Nat /\ n >= 1 /\ T \subseteq IDs
    <3>1. s \in [1 .. Cardinality(U) -> U] /\ Range(s) = U
      BY <2>3 DEF Ordered
    <3>2. n \in Nat /\ n >= 1
      BY <2>2
    <3> QED  BY <1>3, <2>2, <3>1, <3>2
  <2>5. \A x \in U : Number[x] < Number[m]
    BY <1>3, <2>1, NumberAssumption DEF Highest
  <2>6. t \in [1 .. n -> T] /\ t[n] = m /\ \A i \in 1 .. n - 1 : t[i] = s[i]
    BY <2>1, <2>4 DEF Highest
  <2>7. Range(t) = T
    <3>1. \A x \in U : \E i \in 1 .. n - 1 : s[i] = x
      BY <2>4 DEF Range
    <3>2. ASSUME NEW x \in T PROVE \E i \in 1 .. n : t[i] = x
      <4>1. CASE x = m
        BY <2>4, <2>6, <4>1
      <4>2. CASE x # m
        BY <2>4, <2>6, <3>1, <4>2
      <4> QED  BY <4>1, <4>2
    <3>3. DOMAIN t = 1 .. n
      BY <2>6
    <3> HIDE DEF t
    <3> QED  BY <2>6, <3>2, <3>3 DEF Range
  <2>8. ASSUME NEW i \in 1 .. n, NEW j \in 1 .. n, i < j PROVE Number[t[i]] < Number[t[j]]
    <3>1. i \in 1 .. n - 1 /\ t[i] = s[i] /\ s[i] \in U
      BY <2>4, <2>6, <2>8
    <3>2. CASE j = n
      BY <2>5, <2>6, <3>1, <3>2
    <3>3. CASE j # n
      <4>1. DOMAIN s = 1 .. n - 1 /\ j \in 1 .. n - 1
        BY <2>4, <3>3
      <4>2. Number[s[i]] < Number[s[j]]
        BY <2>3, <2>8, <3>1, <4>1 DEF Ordered
      <4> QED  BY <2>6, <3>1, <4>1, <4>2
    <3> QED  BY <3>2, <3>3
  <2>9. Ordered(t, T)
    <3> HIDE DEF t
    <3> QED  BY <1>3, <2>6, <2>7, <2>8 DEF Ordered
  <2> QED  BY <1>3, <2>9
<1> QED  BY <1>4, <1>5

\* A function on 1 .. n is a sequence.
LEMMA RowIsSequence ==
    ASSUME NEW S, NEW n \in Nat, NEW s \in [1 .. n -> S]
    PROVE  s \in Seq(S) /\ Len(s) = n
OBVIOUS

\* InOrder lists the IDs in order.
LEMMA InOrderLists ==
    ASSUME NEW S, S \subseteq IDs, IsFiniteSet(S)
    PROVE  /\ InOrder(S) \in Seq(IDs) /\ Len(InOrder(S)) = Cardinality(S)
           /\ \A n \in 1 .. Len(InOrder(S)) : InOrder(S)[n] \in S
           /\ \A i \in S : \E n \in 1 .. Len(InOrder(S)) : InOrder(S)[n] = i
           /\ \A m, n \in 1 .. Len(InOrder(S)) :
                 m < n => Number[InOrder(S)[m]] < Number[InOrder(S)[n]]
<1> DEFINE s == InOrder(S)
<1>1. \E t \in [1 .. Cardinality(S) -> S] :
         Range(t) = S /\ \A m, n \in DOMAIN t : m < n => Number[t[m]] < Number[t[n]]
  BY CanBeOrdered DEF Ordered
<1>2. /\ s \in [1 .. Cardinality(S) -> S] /\ Range(s) = S
      /\ \A m, n \in DOMAIN s : m < n => Number[s[m]] < Number[s[n]]
  BY <1>1 DEF InOrder
<1> HIDE DEF s
<1>3. Cardinality(S) \in Nat /\ s \in [1 .. Cardinality(S) -> IDs]
  BY <1>2, FS_CardinalityType
<1>4. s \in Seq(IDs) /\ Len(s) = Cardinality(S) /\ DOMAIN s = 1 .. Len(s)
  BY <1>3, RowIsSequence
<1>5. /\ \A n \in 1 .. Len(s) : s[n] \in S
      /\ \A i \in S : \E n \in 1 .. Len(s) : s[n] = i
  BY <1>2, <1>4 DEF Range
<1>6. \A m, n \in 1 .. Len(s) : m < n => Number[s[m]] < Number[s[n]]
  BY <1>2, <1>4
<1> QED  BY <1>4, <1>5, <1>6 DEF s

-----------------------------------------------------------------------------
(* The lines of a saved file.                                               *)

\* What is in a database.
LEMMA DatabaseType ==
    ASSUME NEW d, IsDB(d)
    PROVE  /\ d.headers \in Seq(Line) /\ Len(d.headers) \in Nat
           /\ \A n \in 1 .. Len(d.headers) : d.headers[n] \in Line /\ d.headers[n] # <<>>
           /\ d.table \in Line
           /\ DOMAIN d.records \subseteq IDs /\ IsFiniteSet(DOMAIN d.records)
           /\ \A i \in DOMAIN d.records : d.records[i] \in Held
           /\ d.records = [i \in DOMAIN d.records |-> d.records[i]]
<1>1. d \in Databases /\ IsFiniteSet(DOMAIN d.records)
  BY DEF IsDB
<1>2. d.headers \in Seq(Line \ {<<>>}) /\ d.table \in Line
  BY <1>1 DEF Databases
<1>3. PICK S \in SUBSET IDs : d.records \in [S -> Held]
  BY <1>1 DEF Databases
<1>4. d.headers \in Seq(Line)
  <2>1. Line \ {<<>>} \subseteq Line
    OBVIOUS
  <2> QED  BY <1>2, <2>1, SeqMonotonic
<1>5. Len(d.headers) \in Nat /\ \A n \in 1 .. Len(d.headers) : d.headers[n] \in Line \ {<<>>}
  BY <1>2, LenProperties, ElementOfSeq
<1>6. DOMAIN d.records = S /\ \A i \in S : d.records[i] \in Held
  BY <1>3
<1>7. d.records = [i \in DOMAIN d.records |-> d.records[i]]
  BY <1>3
<1> QED  BY <1>1, <1>2, <1>4, <1>5, <1>6, <1>7

\* u is s, and t behind it.
Joined(s, t, u, S) ==
    /\ u \in Seq(S) /\ Len(s) \in Nat /\ Len(t) \in Nat
    /\ Len(u) = Len(s) + Len(t)
    /\ \A n \in 1 .. Len(s) : u[n] = s[n]
    /\ \A n \in 1 .. Len(t) : u[Len(s) + n] = t[n]

\* The places of two sequences, one behind the other.
LEMMA ConcatAt ==
    ASSUME NEW S, NEW s \in Seq(S), NEW t \in Seq(S)
    PROVE  Joined(s, t, s \o t, S)
BY DEF Joined

\* A record is held by strings and a mark.
LEMMA HeldIs ==
    ASSUME NEW r \in Held
    PROVE  /\ r.name \in Texts /\ r.programme \in Texts /\ r.mark \in IDs \cup Marks
           /\ r = [name |-> r.name, programme |-> r.programme, mark |-> r.mark]
BY DEF Held

\* What stands in the line of a record.
LEMMA RecordLineIs ==
    ASSUME NEW i \in IDs, NEW r \in Held
    PROVE  /\ RecordLine(i, r) \in Line /\ Len(RecordLine(i, r)) = 7
           /\ RecordLine(i, r)[1] = i /\ RecordLine(i, r)[3] = r.name
           /\ RecordLine(i, r)[5] = r.programme /\ RecordLine(i, r)[7] = r.mark
           /\ \A n \in {2, 4, 6} : RecordLine(i, r)[n] = Comma
<1>1. r.name \in Texts /\ r.programme \in Texts /\ r.mark \in IDs \cup Marks
  BY HeldIs
<1>2. i \in Token /\ Comma \in Token /\ r.name \in Token /\ r.programme \in Token /\ r.mark \in Token
  BY <1>1 DEF Token
<1>3. /\ DOMAIN RecordLine(i, r) = 1 .. 7
      /\ RecordLine(i, r) = [n \in 1 .. 7 |-> RecordLine(i, r)[n]]
  BY DEF RecordLine
<1>5. /\ Len(RecordLine(i, r)) = 7 /\ RecordLine(i, r)[1] = i /\ RecordLine(i, r)[3] = r.name
      /\ RecordLine(i, r)[5] = r.programme /\ RecordLine(i, r)[7] = r.mark
  BY DEF RecordLine
<1>6. RecordLine(i, r)[2] = Comma /\ RecordLine(i, r)[4] = Comma /\ RecordLine(i, r)[6] = Comma
  BY DEF RecordLine
<1>4. RecordLine(i, r) \in Line
  <2> DEFINE t == RecordLine(i, r)
  <2>1. \A n \in 1 .. 7 : n \in {1, 2, 3, 4, 5, 6, 7}
    OBVIOUS
  <2>2. \A n \in 1 .. 7 : t[n] \in Token
    <3> HIDE DEF t
    <3> QED  BY <1>2, <1>5, <1>6, <2>1 DEF t
  <2>3. t \in [1 .. 7 -> Token]
    <3> HIDE DEF t
    <3> QED  BY <1>3, <2>2 DEF t
  <2> QED  BY <2>3, RowIsSequence DEF Line
<1> QED  BY <1>4, <1>5, <1>6

\* What stands in the line of the columns.
LEMMA ColumnLineIs ==
    /\ ColumnLine \in Line /\ Len(ColumnLine) = 7
    /\ ColumnLine[1] = "ID" /\ ColumnLine[3] = "Name" /\ ColumnLine[5] = "Programme" /\ ColumnLine[7] = "Mark"
    /\ \A n \in {2, 4, 6} : ColumnLine[n] = Comma
BY DEF ColumnLine, Line, Token, Column

TableLine(d) == <<TablePrefix>> \o d.table

\* What DB_to_file writes, line by line.
LEMMA LinesAre ==
    ASSUME NEW d, IsDB(d)
    PROVE  LET before == Len(d.headers)
               ids == InOrder(DOMAIN d.records)
           IN  /\ Lines(d) \in Seq(Line) /\ before \in Nat /\ Len(ids) \in Nat
               /\ Len(Lines(d)) = before + 3 + Len(ids)
               /\ \A n \in 1 .. before : Lines(d)[n] = d.headers[n]
               /\ Lines(d)[before + 1] = <<>>
               /\ Lines(d)[before + 2] = TableLine(d)
               /\ Lines(d)[before + 3] = ColumnLine
               /\ \A m \in 1 .. Len(ids) : Lines(d)[before + 3 + m] = RecordLine(ids[m], d.records[ids[m]])
<1> DEFINE before == Len(d.headers)
           ids == InOrder(DOMAIN d.records)
           middle == << <<>>, TableLine(d), ColumnLine>>
           rows == [n \in DOMAIN ids |-> RecordLine(ids[n], d.records[ids[n]])]
           front == d.headers \o middle
<1>1. Lines(d) = front \o rows
  BY DEF Lines, TableLine
<1>2. d.headers \in Seq(Line) /\ before \in Nat
  BY DatabaseType
<1>3. ids \in Seq(IDs) /\ Len(ids) \in Nat /\ DOMAIN ids = 1 .. Len(ids)
  BY DatabaseType, InOrderLists, LenProperties
<1>4. \A n \in 1 .. Len(ids) : ids[n] \in IDs /\ d.records[ids[n]] \in Held
  <2>1. \A n \in 1 .. Len(ids) : ids[n] \in DOMAIN d.records
    BY DatabaseType, InOrderLists
  <2> QED  BY <2>1, DatabaseType
<1> HIDE DEF ids
<1>5. /\ rows \in Seq(Line) /\ Len(rows) = Len(ids)
      /\ \A n \in 1 .. Len(ids) : rows[n] = RecordLine(ids[n], d.records[ids[n]])
  <2>1. rows \in [1 .. Len(ids) -> Line]
    BY <1>3, <1>4, RecordLineIs
  <2>2. \A n \in 1 .. Len(ids) : rows[n] = RecordLine(ids[n], d.records[ids[n]])
    BY <1>3
  <2> HIDE DEF rows
  <2> QED  BY <1>3, <2>1, <2>2, RowIsSequence
<1>6. TableLine(d) \in Line /\ <<>> \in Line
  <2>1. d.table \in Seq(Token) /\ TablePrefix \in Token
    BY DatabaseType DEF Line, Token
  <2>2. <<TablePrefix>> \in Seq(Token) /\ <<>> \in Seq(Token)
    <3> DEFINE t == TablePrefix
    <3>1. t \in Token
      BY <2>1
    <3> HIDE DEF t
    <3>2. <<t>> \in Seq(Token)
      BY <3>1
    <3> QED  BY <3>2, EmptySeq DEF t
  <2> QED  BY <2>1, <2>2, ConcatProperties DEF TableLine, Line
<1>7. /\ middle \in Seq(Line) /\ Len(middle) = 3
      /\ middle[1] = <<>> /\ middle[2] = TableLine(d) /\ middle[3] = ColumnLine
  <2>1. \A a, b, c \in Line : <<a, b, c>> \in Seq(Line)
    OBVIOUS
  <2>2. middle \in Seq(Line)
    BY <1>6, <2>1, ColumnLineIs
  <2> QED  BY <2>2
<1> HIDE DEF rows, middle
<1>8. /\ front \in Seq(Line) /\ Len(front) = before + 3
      /\ \A n \in 1 .. before : front[n] = d.headers[n]
      /\ \A k \in 1 .. 3 : front[before + k] = middle[k]
  <2>1. Joined(d.headers, middle, front, Line)
    BY <1>2, <1>7, ConcatAt
  <2> HIDE DEF front
  <2> QED  BY <1>7, <2>1 DEF Joined
<1> HIDE DEF front
<1>9. /\ Lines(d) \in Seq(Line) /\ Len(Lines(d)) = before + 3 + Len(ids)
      /\ \A n \in 1 .. before + 3 : Lines(d)[n] = front[n]
      /\ \A m \in 1 .. Len(ids) : Lines(d)[before + 3 + m] = rows[m]
  <2>1. Joined(front, rows, Lines(d), Line)
    BY <1>1, <1>5, <1>8, ConcatAt
  <2> QED  BY <1>5, <1>8, <2>1 DEF Joined
<1>10. \A n \in 1 .. before : Lines(d)[n] = d.headers[n]
  <2>1. \A n \in 1 .. before : n \in 1 .. before + 3
    BY <1>2
  <2> HIDE DEF before
  <2> QED  BY <1>8, <1>9, <2>1
<1>11. \A k \in 1 .. 3 : Lines(d)[before + k] = middle[k]
  <2>1. \A k \in 1 .. 3 : before + k \in 1 .. before + 3
    BY <1>2
  <2> HIDE DEF before
  <2> QED  BY <1>8, <1>9, <2>1
<1>12. Lines(d)[before + 1] = <<>> /\ Lines(d)[before + 2] = TableLine(d) /\ Lines(d)[before + 3] = ColumnLine
  BY <1>7, <1>11
<1>13. \A m \in 1 .. Len(ids) : Lines(d)[before + 3 + m] = RecordLine(ids[m], d.records[ids[m]])
  BY <1>5, <1>9
<1> QED  BY <1>2, <1>3, <1>9, <1>10, <1>12, <1>13 DEF ids

-----------------------------------------------------------------------------
(* Splitting a line at its commas.                                          *)

\* A line is neither NULL nor a place behind a line.
LEMMA LineIsSomething ==
    ASSUME NEW c \in Line
    PROVE  c # NULL /\ c # Past
<1>1. NULL \notin Line
  <2> SUFFICES ASSUME NULL \in Line PROVE FALSE
    OBVIOUS
  <2>1. Len(NULL) = 1
    BY DEF NULL
  <2>2. NULL \in Seq(Token) /\ 1 \in 1 .. Len(NULL)
    BY <2>1 DEF Line
  <2>3. NULL[1] \in Token
    BY <2>2, ElementOfSeq
  <2> QED  BY <2>3, NoTokenAssumption
<1>2. Past \notin Line
  <2> SUFFICES ASSUME Past \in Line PROVE FALSE
    OBVIOUS
  <2>1. Len(Past) = 1
    BY DEF Past
  <2>2. Past \in Seq(Token) /\ 1 \in 1 .. Len(Past)
    BY <2>1 DEF Line
  <2>3. Past[1] \in Token
    BY <2>2, ElementOfSeq
  <2> QED  BY <2>3, NoTokenAssumption
<1> QED  BY <1>1, <1>2

\* m is the place of the first comma.
FirstComma(c, m) == m \in 1 .. Len(c) /\ c[m] = Comma /\ \A n \in 1 .. m - 1 : c[n] # Comma

\* The length of a line.
LEMMA LineLength ==
    ASSUME NEW c \in Line
    PROVE  Len(c) \in Nat
BY DEF Line

\* Where a line has commas.
LEMMA CommasAre ==
    ASSUME NEW c \in Line
    PROVE  Commas(c) = {n \in 1 .. Len(c) : c[n] = Comma}
<1>1. DOMAIN c = 1 .. Len(c)
  BY DEF Line
<1> QED  BY <1>1 DEF Commas

\* The commas of a line can be counted.
LEMMA CommasFinite ==
    ASSUME NEW c \in Line
    PROVE  IsFiniteSet(Commas(c)) /\ CommasIn(c) \in Nat
<1>1. Len(c) \in Nat /\ Commas(c) \subseteq 1 .. Len(c)
  BY CommasAre, LineLength
<1>2. IsFiniteSet(1 .. Len(c))
  BY <1>1, FS_Interval
<1>3. IsFiniteSet(Commas(c))
  BY <1>1, <1>2, FS_Subset
<1> QED  BY <1>3, FS_CardinalityType DEF CommasIn

\* A line has a first comma, or none.
LEMMA HasFirstComma ==
    ASSUME NEW c \in Line
    PROVE  Commas(c) = {} \/ \E m : FirstComma(c, m)
<1> SUFFICES ASSUME Commas(c) # {} PROVE \E m : FirstComma(c, m)
  OBVIOUS
<1>1. Commas(c) \subseteq Nat
  BY CommasAre, LineLength
<1>2. PICK m \in Commas(c) : \A n \in Commas(c) : m <= n
  BY <1>1, LeastNumber
<1>3. m \in 1 .. Len(c) /\ c[m] = Comma /\ Len(c) \in Nat
  BY <1>2, CommasAre, LineLength
<1>4. ASSUME NEW n \in 1 .. m - 1 PROVE c[n] # Comma
  <2>1. n \in 1 .. Len(c) /\ ~(m <= n)
    BY <1>3, <1>4
  <2> QED  BY <1>2, <2>1, CommasAre
<1> QED  BY <1>3, <1>4 DEF FirstComma

\* string_split_next at a comma.
LEMMA SplitAtComma ==
    ASSUME NEW c \in Line, NEW m, FirstComma(c, m)
    PROVE  SplitNext(c, Comma) = [sub |-> SubSeq(c, 1, m - 1), current |-> Rest(c, m)]
<1>1. m \in Nat /\ m \in Commas(c) /\ \A n \in Commas(c) : m <= n
  <2>1. /\ m \in 1 .. Len(c) /\ c[m] = Comma /\ Len(c) \in Nat
        /\ \A n \in 1 .. m - 1 : c[n] # Comma
    BY LineLength DEF FirstComma
  <2> QED  BY <2>1, CommasAre
<1>2. \A n \in Commas(c) : n \in Nat
  BY CommasAre, LineLength
<1>3. Min(Commas(c)) = m
  <2>1. \E x \in Commas(c) : \A y \in Commas(c) : x =< y
    BY <1>1
  <2>2. Min(Commas(c)) \in Commas(c) /\ \A y \in Commas(c) : Min(Commas(c)) =< y
    BY <2>1 DEF Min
  <2> DEFINE k == Min(Commas(c))
  <2>3. k \in Nat /\ k <= m /\ m <= k
    BY <1>1, <1>2, <2>2
  <2> HIDE DEF k
  <2>4. k = m
    BY <1>1, <2>3
  <2> QED  BY <2>4 DEF k
<1>4. Commas(c) # {} /\ c # NULL
  BY <1>1, LineIsSomething
<1>5. {i \in DOMAIN c : c[i] = Comma} = Commas(c)
  BY DEF Commas
<1> QED  BY <1>3, <1>4, <1>5 DEF SplitNext, Rest

\* string_split_next at the end.
LEMMA SplitAtEnd ==
    ASSUME NEW c \in Line, Commas(c) = {}
    PROVE  SplitNext(c, Comma) = [sub |-> c, current |-> NULL]
<1>1. {i \in DOMAIN c : c[i] = Comma} = {}
  BY DEF Commas
<1>2. c # NULL
  BY LineIsSomething
<1> QED  BY <1>1, <1>2 DEF SplitNext

\* string_split_next behind the end.
LEMMA SplitOfNull == SplitNext(NULL, Comma) = [sub |-> NULL, current |-> NULL]
BY DEF SplitNext

\* The rest of a line.
LEMMA RestIs ==
    ASSUME NEW c \in Line, NEW m \in 0 .. Len(c)
    PROVE  /\ Rest(c, m) \in Line /\ Len(Rest(c, m)) = Len(c) - m
           /\ \A n \in 1 .. Len(c) - m : Rest(c, m)[n] = c[m + n]
<1>1. Len(c) \in Nat /\ \A n \in 1 .. Len(c) : c[n] \in Token
  BY DEF Line
<1>2. \A n \in m + 1 .. Len(c) : c[n] \in Token
  BY <1>1
<1>3. /\ Rest(c, m) \in Seq(Token)
      /\ Len(Rest(c, m)) = IF m + 1 <= Len(c) THEN Len(c) - (m + 1) + 1 ELSE 0
      /\ \A n \in 1 .. Len(c) - (m + 1) + 1 : Rest(c, m)[n] = c[m + 1 + n - 1]
  BY <1>1, <1>2, SubSeqProperties DEF Rest
<1>4. Len(Rest(c, m)) = Len(c) - m
  BY <1>1, <1>3
<1>5. ASSUME NEW n \in 1 .. Len(c) - m PROVE Rest(c, m)[n] = c[m + n]
  <2>1. n \in 1 .. Len(c) - (m + 1) + 1 /\ m + 1 + n - 1 = m + n
    BY <1>1
  <2> QED  BY <1>3, <2>1
<1> QED  BY <1>3, <1>4, <1>5 DEF Line

\* Behind its first comma a line has one comma less.
LEMMA CommasOfRest ==
    ASSUME NEW c \in Line, NEW m, FirstComma(c, m)
    PROVE  Rest(c, m) \in Line /\ CommasIn(c) = CommasIn(Rest(c, m)) + 1
<1> DEFINE r == Rest(c, m)
           later == Commas(c) \ {m}
           f == [n \in Commas(r) |-> n + m]
<1>1. m \in 1 .. Len(c) /\ m \in 0 .. Len(c) /\ Len(c) \in Nat
  BY LineLength DEF FirstComma
<1>2. r \in Line /\ Len(r) = Len(c) - m /\ \A n \in 1 .. Len(c) - m : r[n] = c[m + n]
  BY <1>1, RestIs
<1> HIDE DEF r
<1>3. /\ IsFiniteSet(Commas(r)) /\ Commas(r) \subseteq 1 .. Len(c) - m
      /\ \A n \in 1 .. Len(c) - m : n \in Commas(r) <=> r[n] = Comma
  BY <1>1, <1>2, CommasAre, CommasFinite
<1>4. \A n \in 1 .. Len(c) - m : n \in Commas(r) <=> n + m \in later
  <2> SUFFICES ASSUME NEW n \in 1 .. Len(c) - m PROVE n \in Commas(r) <=> n + m \in later
    OBVIOUS
  <2>1. n + m \in 1 .. Len(c) /\ n + m # m /\ m + n = n + m
    BY <1>1
  <2>2. n + m \in Commas(c) <=> c[n + m] = Comma
    BY <2>1, CommasAre
  <2> QED  BY <1>2, <1>3, <2>1, <2>2
<1>5. ASSUME NEW k \in later PROVE k - m \in 1 .. Len(c) - m /\ k = (k - m) + m
  <2>1. k \in 1 .. Len(c) /\ c[k] = Comma /\ k # m
    BY <1>5, CommasAre
  <2>2. \A n \in 1 .. m - 1 : c[n] # Comma
    BY DEF FirstComma
  <2>3. ~(k < m)
    BY <1>1, <2>1, <2>2
  <2> QED  BY <1>1, <2>1, <2>3
<1>6. f \in Bijection(Commas(r), later)
  <2>1. f \in [Commas(r) -> later]
    BY <1>3, <1>4
  <2>2. ASSUME NEW a \in Commas(r), NEW b \in Commas(r), f[a] = f[b] PROVE a = b
    <3>1. a \in Int /\ b \in Int /\ m \in Int /\ a + m = b + m
      BY <1>1, <1>3, <2>2
    <3> QED  BY <3>1
  <2>3. ASSUME NEW k \in later PROVE \E n \in Commas(r) : f[n] = k
    <3>1. k - m \in Commas(r)
      BY <1>4, <1>5
    <3>2. f[k - m] = k
      BY <1>5, <3>1
    <3> QED  BY <3>1, <3>2
  <2> HIDE DEF f, later
  <2> QED  BY <2>1, <2>2, <2>3 DEF Bijection, Injection, Surjection, IsInjective
<1>7. Cardinality(later) = CommasIn(r) /\ CommasIn(r) \in Nat
  <2>1. ExistsBijection(Commas(r), later)
    BY <1>6 DEF ExistsBijection
  <2> QED  BY <1>2, <1>3, <2>1, FS_Bijection, CommasFinite DEF CommasIn
<1>8. IsFiniteSet(Commas(c)) /\ m \in Commas(c) /\ CommasIn(c) \in Nat
  BY <1>1, CommasAre, CommasFinite DEF FirstComma
<1>9. Cardinality(later) = CommasIn(c) - 1
  BY <1>8, FS_RemoveElement DEF CommasIn
<1> QED  BY <1>2, <1>7, <1>8, <1>9 DEF r

\* A line without a comma has none, and one with a comma has one at least.
LEMMA NoCommas ==
    ASSUME NEW c \in Line
    PROVE  Commas(c) = {} <=> CommasIn(c) = 0
BY CommasFinite, FS_EmptySet DEF CommasIn

-----------------------------------------------------------------------------
(* Databases and the strings they hold.                                     *)

\* A record of the kind that databases are.
LEMMA DatabaseFields ==
    ASSUME NEW d \in Databases
    PROVE  /\ d.headers \in Seq(Line \ {<<>>}) /\ d.table \in Line /\ d.columns \in Seq(Column)
           /\ \E S \in SUBSET IDs : d.records \in [S -> Held]
           /\ d = [headers |-> d.headers, table |-> d.table, records |-> d.records, columns |-> d.columns]
<1>1. d.headers \in Seq(Line \ {<<>>}) /\ d.table \in Line /\ d.columns \in Seq(Column)
  BY DEF Databases
<1>2. d.records \in UNION {[S -> Held] : S \in SUBSET IDs}
  BY DEF Databases
<1>3. d = [headers |-> d.headers, table |-> d.table, records |-> d.records, columns |-> d.columns]
  BY DEF Databases
<1> QED  BY <1>1, <1>2, <1>3

\* Without records.
LEMMA NoRecords ==
    /\ DOMAIN <<>> = {} /\ <<>> \in [{} -> Held]
    /\ IsFiniteSet(DOMAIN <<>>) /\ Cardinality(DOMAIN <<>>) = 0
<1>1. DOMAIN <<>> = {}
  OBVIOUS
<1>2. <<>> \in [{} -> Held]
  OBVIOUS
<1> QED  BY <1>1, <1>2, FS_EmptySet

\* The parts of a database, together.
LEMMA MakesDB ==
    ASSUME NEW h \in Seq(Line \ {<<>>}), NEW t \in Line, NEW c \in Seq(Column),
           NEW S \in SUBSET IDs, IsFiniteSet(S), NEW R \in [S -> Held]
    PROVE  IsDB([headers |-> h, table |-> t, records |-> R, columns |-> c])
<1>1. R \in UNION {[U -> Held] : U \in SUBSET IDs}
  OBVIOUS
<1>2. DOMAIN R = S
  OBVIOUS
<1>3. [headers |-> h, table |-> t, records |-> R, columns |-> c] \in Databases
  BY <1>1 DEF Databases
<1> QED  BY <1>2, <1>3 DEF IsDB

\* Nothing is a database, too, and has no strings.
LEMMA NoDBIsDB == IsDB(NoDB) /\ Strings(NoDB) = 0
<1>1. <<>> \in Seq(Line \ {<<>>}) /\ <<>> \in Line /\ <<>> \in Seq(Column)
  BY EmptySeq DEF Line
<1>2. {} \in SUBSET IDs /\ IsFiniteSet({}) /\ <<>> \in [{} -> Held]
  BY NoRecords, FS_EmptySet
<1>3. IsDB(NoDB)
  BY <1>1, <1>2, MakesDB DEF NoDB
<1>4. Len(<<>>) = 0
  OBVIOUS
<1>5. NoDB.headers = <<>> /\ NoDB.table = <<>> /\ NoDB.records = <<>>
  BY DEF NoDB
<1>6. Cardinality(DOMAIN NoDB.records) = 0
  BY <1>5, NoRecords
<1> QED  BY <1>3, <1>4, <1>5, <1>6 DEF Strings

HasTable(d) == IF d.table = <<>> THEN 0 ELSE 1

\* The parts of the sum.
LEMMA StringsAre ==
    ASSUME NEW d
    PROVE  Strings(d) = Len(d.headers) + HasTable(d) + 2 * Cardinality(DOMAIN d.records)
BY DEF Strings, HasTable

\* There is a table, or none.
LEMMA HasTableIs ==
    ASSUME NEW d
    PROVE  HasTable(d) \in Int /\ (d.table = <<>> => HasTable(d) = 0) /\ (d.table # <<>> => HasTable(d) = 1)
<1>1. d.table = <<>> => HasTable(d) = 0
  BY Zenon DEF HasTable
<1>2. d.table # <<>> => HasTable(d) = 1
  BY Zenon DEF HasTable
<1>3. HasTable(d) = 0 \/ HasTable(d) = 1
  BY Zenon DEF HasTable
<1>4. HasTable(d) \in Int
  BY <1>3
<1> QED  BY <1>1, <1>2, <1>4, Zenon

\* How many strings there are.
LEMMA StringsType ==
    ASSUME NEW d, IsDB(d)
    PROVE  Strings(d) \in Int /\ Len(d.headers) \in Int /\ Cardinality(DOMAIN d.records) \in Int
<1>1. Len(d.headers) \in Nat
  BY DatabaseType
<1>2. Cardinality(DOMAIN d.records) \in Nat
  BY FS_CardinalityType DEF IsDB
<1>3. HasTable(d) \in Int
  BY HasTableIs
<1>4. Strings(d) = Len(d.headers) + HasTable(d) + 2 * Cardinality(DOMAIN d.records)
  BY StringsAre
<1> QED  BY <1>1, <1>2, <1>3, <1>4

\* Another header is another string.
LEMMA WithHeader ==
    ASSUME NEW d, IsDB(d), NEW t \in Line, t # <<>>
    PROVE  /\ IsDB([d EXCEPT !.headers = Append(@, t)])
           /\ Strings([d EXCEPT !.headers = Append(@, t)]) = Strings(d) + 1
<1> DEFINE e == [d EXCEPT !.headers = Append(@, t)]
           h == Append(d.headers, t)
<1>1. d \in Databases /\ IsFiniteSet(DOMAIN d.records)
  BY DEF IsDB
<1>2. d = [headers |-> d.headers, table |-> d.table, records |-> d.records, columns |-> d.columns]
  BY <1>1, DatabaseFields
<1>3. e = [headers |-> h, table |-> d.table, records |-> d.records, columns |-> d.columns]
  BY <1>2
<1>4. h \in Seq(Line \ {<<>>}) /\ Len(h) = Len(d.headers) + 1
  <2>1. d.headers \in Seq(Line \ {<<>>}) /\ t \in Line \ {<<>>}
    BY <1>1, DatabaseFields
  <2> QED  BY <2>1, AppendProperties
<1> HIDE DEF e, h
<1>5. IsDB(e)
  <2>1. PICK S \in SUBSET IDs : d.records \in [S -> Held]
    BY <1>1, DatabaseFields
  <2>2. IsFiniteSet(S) /\ d.table \in Line /\ d.columns \in Seq(Column)
    BY <1>1, <2>1, DatabaseFields
  <2> QED  BY <1>3, <1>4, <2>1, <2>2, MakesDB
<1>6. e.headers = h /\ e.table = d.table /\ e.records = d.records
  BY <1>3
<1>7. Strings(e) = Strings(d) + 1
  <2>1. Len(d.headers) \in Int /\ Cardinality(DOMAIN d.records) \in Int
    BY StringsType
  <2>2. /\ Strings(d) = Len(d.headers) + HasTable(d) + 2 * Cardinality(DOMAIN d.records)
        /\ Strings(e) = Len(e.headers) + HasTable(e) + 2 * Cardinality(DOMAIN e.records)
    BY StringsAre
  <2>3. HasTable(e) = HasTable(d) /\ HasTable(d) \in Int
    BY <1>6, HasTableIs DEF HasTable
  <2> QED  BY <1>4, <1>6, <2>1, <2>2, <2>3
<1> QED  BY <1>5, <1>7 DEF e

\* So is the name of the table.
LEMMA WithTable ==
    ASSUME NEW d, IsDB(d), d.table = <<>>, NEW t \in Line, t # <<>>
    PROVE  /\ IsDB([d EXCEPT !.table = t])
           /\ Strings([d EXCEPT !.table = t]) = Strings(d) + 1
<1> DEFINE e == [d EXCEPT !.table = t]
<1>1. d \in Databases /\ IsFiniteSet(DOMAIN d.records)
  BY DEF IsDB
<1>2. d = [headers |-> d.headers, table |-> d.table, records |-> d.records, columns |-> d.columns]
  BY <1>1, DatabaseFields
<1>3. e = [headers |-> d.headers, table |-> t, records |-> d.records, columns |-> d.columns]
  BY <1>2
<1> HIDE DEF e
<1>4. IsDB(e)
  <2>1. PICK S \in SUBSET IDs : d.records \in [S -> Held]
    BY <1>1, DatabaseFields
  <2>2. IsFiniteSet(S) /\ d.headers \in Seq(Line \ {<<>>}) /\ d.columns \in Seq(Column)
    BY <1>1, <2>1, DatabaseFields
  <2> QED  BY <1>3, <2>1, <2>2, MakesDB
<1>5. e.headers = d.headers /\ e.table = t /\ e.records = d.records
  BY <1>3
<1>6. Strings(e) = Strings(d) + 1
  <2>1. Len(d.headers) \in Int /\ Cardinality(DOMAIN d.records) \in Int
    BY StringsType
  <2>2. /\ Strings(d) = Len(d.headers) + HasTable(d) + 2 * Cardinality(DOMAIN d.records)
        /\ Strings(e) = Len(e.headers) + HasTable(e) + 2 * Cardinality(DOMAIN e.records)
    BY StringsAre
  <2>3. HasTable(e) = 1 /\ HasTable(d) = 0
    BY <1>5, HasTableIs
  <2> QED  BY <1>5, <2>1, <2>2, <2>3
<1> QED  BY <1>4, <1>6 DEF e

\* The order of the columns is no string.
LEMMA WithColumns ==
    ASSUME NEW d, IsDB(d), NEW c \in Seq(Column)
    PROVE  /\ IsDB([d EXCEPT !.columns = c])
           /\ Strings([d EXCEPT !.columns = c]) = Strings(d)
<1> DEFINE e == [d EXCEPT !.columns = c]
<1>1. d \in Databases /\ IsFiniteSet(DOMAIN d.records)
  BY DEF IsDB
<1>2. d = [headers |-> d.headers, table |-> d.table, records |-> d.records, columns |-> d.columns]
  BY <1>1, DatabaseFields
<1>3. e = [headers |-> d.headers, table |-> d.table, records |-> d.records, columns |-> c]
  BY <1>2
<1> HIDE DEF e
<1>4. IsDB(e)
  <2>1. PICK S \in SUBSET IDs : d.records \in [S -> Held]
    BY <1>1, DatabaseFields
  <2>2. IsFiniteSet(S) /\ d.headers \in Seq(Line \ {<<>>}) /\ d.table \in Line
    BY <1>1, <2>1, DatabaseFields
  <2> QED  BY <1>3, <2>1, <2>2, MakesDB
<1>5. e.headers = d.headers /\ e.table = d.table /\ e.records = d.records
  BY <1>3
<1> QED  BY <1>4, <1>5 DEF e, Strings

\* A record has two strings.
LEMMA WithRecords ==
    ASSUME NEW d, IsDB(d), NEW S \in SUBSET IDs, IsFiniteSet(S), NEW R \in [S -> Held]
    PROVE  /\ IsDB([d EXCEPT !.records = R])
           /\ Strings([d EXCEPT !.records = R]) =
                 Strings(d) - 2 * Cardinality(DOMAIN d.records) + 2 * Cardinality(S)
<1> DEFINE e == [d EXCEPT !.records = R]
<1>1. d \in Databases /\ IsFiniteSet(DOMAIN d.records)
  BY DEF IsDB
<1>2. d = [headers |-> d.headers, table |-> d.table, records |-> d.records, columns |-> d.columns]
  BY <1>1, DatabaseFields
<1>3. e = [headers |-> d.headers, table |-> d.table, records |-> R, columns |-> d.columns]
  BY <1>2
<1> HIDE DEF e
<1>4. IsDB(e)
  <2>1. d.headers \in Seq(Line \ {<<>>}) /\ d.table \in Line /\ d.columns \in Seq(Column)
    BY <1>1, DatabaseFields
  <2> QED  BY <1>3, <2>1, MakesDB
<1>5. e.headers = d.headers /\ e.table = d.table /\ e.records = R /\ DOMAIN R = S
  BY <1>3
<1>6. Cardinality(S) \in Int
  BY FS_CardinalityType
<1>7. Strings(e) = Strings(d) - 2 * Cardinality(DOMAIN d.records) + 2 * Cardinality(S)
  <2>1. Len(d.headers) \in Int /\ Cardinality(DOMAIN d.records) \in Int
    BY StringsType
  <2>2. /\ Strings(d) = Len(d.headers) + HasTable(d) + 2 * Cardinality(DOMAIN d.records)
        /\ Strings(e) = Len(e.headers) + HasTable(e) + 2 * Cardinality(DOMAIN e.records)
    BY StringsAre
  <2>3. HasTable(e) = HasTable(d) /\ HasTable(d) \in Int
    BY <1>5, HasTableIs DEF HasTable
  <2> QED  BY <1>5, <1>6, <2>1, <2>2, <2>3
<1> QED  BY <1>4, <1>7 DEF e

-----------------------------------------------------------------------------
(* Columns and fields.                                                      *)

\* What is in a column is a token.
LEMMA InColumnIs ==
    /\ InColumn("ID") = IDs /\ InColumn("Name") = Texts
    /\ InColumn("Programme") = Texts /\ InColumn("Mark") = IDs \cup Marks
    /\ \A c \in Column : InColumn(c) \subseteq Token
<1>1. /\ InColumn("ID") = IDs /\ InColumn("Name") = Texts
      /\ InColumn("Programme") = Texts /\ InColumn("Mark") = IDs \cup Marks
  BY DEF InColumn
<1>2. \A c \in Column : InColumn(c) \subseteq Token
  BY <1>1 DEF Column, Token
<1> QED  BY <1>1, <1>2

\* There are four columns.
LEMMA FourColumns == IsFiniteSet(Column) /\ Cardinality(Column) = 4
<1>1. IsFiniteSet({"ID"}) /\ Cardinality({"ID"}) = 1
  BY FS_Singleton
<1>2. /\ IsFiniteSet({"ID"} \cup {"Name"}) /\ Cardinality({"ID"} \cup {"Name"}) = 2
  <2>1. "Name" \notin {"ID"}
    OBVIOUS
  <2> QED  BY <1>1, <2>1, FS_AddElement
<1> DEFINE S == {"ID"} \cup {"Name"}
           T == S \cup {"Programme"}
           U == T \cup {"Mark"}
<1>3. "Programme" \notin S /\ "Mark" \notin T /\ U = Column
  BY DEF Column
<1> HIDE DEF S
<1>4. IsFiniteSet(S) /\ Cardinality(S) = 2
  BY <1>2 DEF S
<1>5. IsFiniteSet(T) /\ Cardinality(T) = 3
  BY <1>3, <1>4, FS_AddElement
<1> HIDE DEF T
<1>6. IsFiniteSet(U) /\ Cardinality(U) = 4
  BY <1>3, <1>5, FS_AddElement
<1> QED  BY <1>3, <1>6

\* Four names that cover the columns are each of them once.
LEMMA OrderFound ==
    ASSUME NEW columns \in [1 .. 4 -> Column], \A c \in Column : \E n \in 1 .. 4 : columns[n] = c
    PROVE  InAnyOrder(columns) /\ columns \in Seq(Column)
<1>1. columns \in Surjection(1 .. 4, Column)
  BY Zenon DEF Surjection
<1>2. IsFiniteSet(1 .. 4) /\ Cardinality(1 .. 4) = 4
  <2>1. 1 \in Int /\ 4 \in Int
    OBVIOUS
  <2>2. IsFiniteSet(1 .. 4) /\ Cardinality(1 .. 4) = IF 1 > 4 THEN 0 ELSE 4 - 1 + 1
    BY <2>1, FS_Interval, Zenon
  <2> QED  BY <2>2
<1>3. columns \in Injection(1 .. 4, Column)
  BY <1>1, <1>2, FourColumns, FS_SurjSameCardinalityImpliesInj
<1>4. InAnyOrder(columns)
  BY <1>3 DEF InAnyOrder, Injection, IsInjective
<1> QED  BY <1>4, RowIsSequence

\* __parse_columns finds each column once.
LEMMA ColumnsFound ==
    ASSUME NEW text, AreColumns(text)
    PROVE  /\ InAnyOrder([n \in 1 .. 4 |-> Names(text)[n][1]])
           /\ [n \in 1 .. 4 |-> Names(text)[n][1]] \in Seq(Column)
<1> DEFINE names == Names(text)
           columns == [n \in 1 .. 4 |-> names[n][1]]
<1>1. {names[n] : n \in 1 .. 4} = {<<c>> : c \in Column}
  BY DEF AreColumns
<1> HIDE DEF names
<1>2. \A n \in 1 .. 4 : \E c \in Column : names[n] = <<c>>
  BY <1>1
<1>3. \A c \in Column : \E n \in 1 .. 4 : names[n] = <<c>>
  BY <1>1
<1>4. columns \in [1 .. 4 -> Column]
  BY <1>2
<1>5. \A c \in Column : \E n \in 1 .. 4 : columns[n] = c
  BY <1>3
<1> QED  BY <1>4, <1>5, OrderFound DEF names

\* The column of the next field is not one of those that are taken.
LEMMA HereIsNew ==
    ASSUME FieldsInOrder, InAnyOrder(load.columns), Taken < 4
    PROVE  Here \in Column /\ Here = load.columns[Taken + 1] /\ Here \notin DOMAIN record
<1>1. Taken + 1 \in 1 .. 4 /\ Taken \in Int
  BY DEF FieldsInOrder
<1>2. Here = load.columns[Taken + 1]
  BY DEF Here, Taken
<1>3. \A n \in 1 .. Taken : n \in 1 .. 4 /\ n # Taken + 1
  BY <1>1
<1>4. load.columns \in [1 .. 4 -> Column] /\ \A m, n \in 1 .. 4 : load.columns[m] = load.columns[n] => m = n
  BY DEF InAnyOrder
<1>5. DOMAIN record = {load.columns[n] : n \in 1 .. Taken}
  BY DEF FieldsInOrder
<1>6. load.columns[Taken + 1] \notin {load.columns[n] : n \in 1 .. Taken}
  BY <1>1, <1>3, <1>4
<1> QED  BY <1>1, <1>2, <1>4, <1>5, <1>6

\* One more place for a function.
LEMMA PutType ==
    ASSUME NEW S, NEW T, NEW f \in [S -> T], NEW a, NEW v \in T
    PROVE  Put(f, a, v) \in [S \cup {a} -> T]
BY DEF Put

\* A field is taken.
LEMMA FieldTaken ==
    ASSUME TypeOK, FieldsInOrder, InAnyOrder(load.columns), Taken < 4,
           NEW v \in InColumn(Here), Here = "ID" => ~IsUnordered(v),
           record' = Put(record, Here, v), load' = load
    PROVE  FieldsInOrder' /\ Taken' = Taken + 1 /\ record' \in SomeFields
<1>1. Here \in Column /\ Here = load.columns[Taken + 1] /\ Here \notin DOMAIN record
  BY HereIsNew
<1>2. PICK S \in SUBSET Column : record \in [S -> Token]
  BY DEF TypeOK, SomeFields
<1>3. /\ DOMAIN record' = S \cup {Here} /\ record'[Here] = v
      /\ \A c \in S : record'[c] = record[c]
      /\ record' \in [S \cup {Here} -> Token]
  <2>1. Here \notin S /\ v \in Token
    BY <1>1, <1>2, InColumnIs
  <2> DEFINE where == Here
  <2>2. record' = Put(record, where, v)
    OBVIOUS
  <2> HIDE DEF where
  <2>3. /\ record' \in [S \cup {where} -> Token] /\ record'[where] = v
        /\ \A c \in S \ {where} : record'[c] = record[c]
    BY <1>2, <2>1, <2>2 DEF Put
  <2> QED  BY <2>1, <2>3 DEF where
<1>4. IsFiniteSet(S) /\ Cardinality(S) = Taken /\ DOMAIN record = S
  BY <1>2, FourColumns, FS_Subset DEF Taken
<1>5. Taken' = Taken + 1
  <2>1. Cardinality(S \cup {Here}) = Cardinality(S) + 1
    BY <1>1, <1>4, FS_AddElement
  <2> QED  BY <1>3, <1>4, <2>1 DEF Taken
<1>6. Taken \in 0 .. 4 /\ Taken \in Int
  BY DEF FieldsInOrder
<1>7. DOMAIN record' = {load'.columns[n] : n \in 1 .. Taken'}
  <2>1. S = {load.columns[n] : n \in 1 .. Taken}
    BY <1>4 DEF FieldsInOrder
  <2>2. \A n : n \in 1 .. Taken + 1 <=> n \in 1 .. Taken \/ n = Taken + 1
    BY <1>6
  <2>3. {load.columns[n] : n \in 1 .. Taken + 1} = {load.columns[n] : n \in 1 .. Taken} \cup {load.columns[Taken + 1]}
    BY <2>2
  <2> QED  BY <1>1, <1>3, <1>5, <2>1, <2>3
<1>8. \A c \in DOMAIN record' : record'[c] \in InColumn(c)
  <2>1. \A c \in S : record[c] \in InColumn(c)
    BY <1>4 DEF FieldsInOrder
  <2> QED  BY <1>3, <2>1
<1>9. "ID" \in DOMAIN record' => ~IsUnordered(record'["ID"])
  <2>1. CASE "ID" \in S
    BY <1>3, <1>4, <2>1 DEF FieldsInOrder
  <2>2. CASE "ID" = Here
    BY <1>3, <2>2
  <2>3. CASE "ID" \notin S \cup {Here}
    BY <1>3, <2>3
  <2> QED  BY <2>1, <2>2, <2>3
<1>10. record' \in SomeFields
  <2>1. S \cup {Here} \in SUBSET Column
    BY <1>1
  <2> QED  BY <1>3, <2>1 DEF SomeFields
<1>11. Taken' \in 0 .. 4
  BY <1>5, <1>6
<1>12. FieldsInOrder'
  <2>1. "ID" \in DOMAIN record' => ~(\E j \in DOMAIN load'.records : Number[record'["ID"]] <= Number[j])
    BY <1>9 DEF IsUnordered
  <2> QED  BY <1>7, <1>8, <1>11, <2>1 DEF FieldsInOrder, IsUnordered
<1> QED  BY <1>5, <1>10, <1>12

\* All the fields of a record are there, and its ID is new.
LEMMA RecordComplete ==
    ASSUME TypeOK, FieldsInOrder, InAnyOrder(load.columns), Taken = 4
    PROVE  /\ record["ID"] \in IDs /\ record["ID"] \notin DOMAIN load.records
           /\ [name |-> record["Name"], programme |-> record["Programme"], mark |-> record["Mark"]] \in Held
<1>1. DOMAIN record = Column
  <2>1. DOMAIN record \subseteq Column /\ Cardinality(DOMAIN record) = 4
    BY DEF TypeOK, SomeFields, Taken
  <2> QED  BY <2>1, FourColumns, FS_Subset
<1>2. \A c \in Column : record[c] \in InColumn(c)
  BY <1>1 DEF FieldsInOrder
<1>3. /\ record["ID"] \in IDs /\ record["Name"] \in Texts
      /\ record["Programme"] \in Texts /\ record["Mark"] \in IDs \cup Marks
  <2>1. "ID" \in Column /\ "Name" \in Column /\ "Programme" \in Column /\ "Mark" \in Column
    BY DEF Column
  <2> QED  BY <1>2, <2>1, InColumnIs
<1>4. record["ID"] \notin DOMAIN load.records
  <2> SUFFICES ASSUME record["ID"] \in DOMAIN load.records PROVE FALSE
    OBVIOUS
  <2>1. ~IsUnordered(record["ID"])
    BY <1>1 DEF FieldsInOrder, Column
  <2>2. ~(Number[record["ID"]] <= Number[record["ID"]])
    BY <2>1 DEF IsUnordered
  <2>3. Number[record["ID"]] \in Int
    BY <1>3, NumberAssumption
  <2> QED  BY <2>2, <2>3
<1> QED  BY <1>3, <1>4 DEF Held

-----------------------------------------------------------------------------
(* Lines that arrive.                                                       *)

LinesRead == Seq([text : Line, ended : BOOLEAN])

\* What may arrive.
LEMMA ArrivingIs ==
    ASSUME NEW l \in Arriving
    PROVE  \/ l = EndOfFile
           \/ foreign /\ l \in [text : Line, ended : BOOLEAN]
           \/ ~foreign /\ unread # <<>> /\ l = [text |-> Head(unread), ended |-> TRUE]
<1>1. CASE foreign
  <2>1. l \in {EndOfFile} \cup (IF Len(read) < MaxLines THEN [text : ForeignLine(step, load) \cap Line, ended : BOOLEAN] ELSE {})
    BY <1>1, Zenon DEF Arriving
  <2>2. CASE l # EndOfFile
    <3>1. l \in [text : ForeignLine(step, load) \cap Line, ended : BOOLEAN]
      BY <2>1, <2>2, Zenon
    <3>2. l \in [text : Line, ended : BOOLEAN]
      BY <3>1
    <3> QED  BY <1>1, <3>2
  <2> QED  BY <2>2
<1>2. CASE ~foreign
  <2>1. l \in {EndOfFile} \cup (IF unread # <<>> THEN {[text |-> Head(unread), ended |-> TRUE]} ELSE {})
    BY <1>2, Zenon DEF Arriving
  <2> QED  BY <1>2, <2>1, Zenon
<1> QED  BY <1>1, <1>2

\* What is read of a line, and what is left.
ReadOn(l) ==
    /\ l.text \in Line /\ l \in [text : Line, ended : BOOLEAN] /\ foreign' = foreign
    /\ unread' \in Seq(Line) /\ read' \in LinesRead /\ atEnd' \in BOOLEAN
    /\ foreign => ~cut' /\ unread' = <<>>
    /\ l # EndOfFile => read' = Append(read, l) /\ ~cut'
    /\ l # EndOfFile /\ ~foreign =>
          unread # <<>> /\ l.text = Head(unread) /\ l.ended /\ unread' = Tail(unread)
    /\ l = EndOfFile => unread' = unread /\ (cut' <=> unread # <<>>)

\* A line is read.
LEMMA Arrives ==
    ASSUME TypeOK, ReadBack, Reading, NEW l \in Arriving, NextRead(l)
    PROVE  ReadOn(l)
<1>1. /\ unread \in Seq(Line) /\ read \in LinesRead /\ foreign \in BOOLEAN
      /\ foreign => unread = <<>>
  BY DEF TypeOK, ReadBack, LinesRead
<1>2. /\ unread' = IF foreign \/ l = EndOfFile THEN unread ELSE Tail(unread)
      /\ atEnd' = (l = EndOfFile)
      /\ read' = IF l = EndOfFile THEN read ELSE Append(read, l)
      /\ foreign' = foreign
  BY DEF NextRead
<1>3. EndOfFile \in [text : Line, ended : BOOLEAN] /\ EndOfFile.text = <<>>
  <2>1. <<>> \in Line
    BY EmptySeq DEF Line
  <2> QED  BY <2>1 DEF EndOfFile
<1>4. CASE l = EndOfFile
  <2>1. unread' = unread /\ read' = read /\ atEnd' = TRUE /\ (cut' <=> unread # <<>>)
    BY <1>1, <1>2, <1>4 DEF cut
  <2>2. l.text \in Line /\ l \in [text : Line, ended : BOOLEAN]
    BY <1>3, <1>4
  <2> QED  BY <1>1, <1>2, <1>4, <2>1, <2>2 DEF ReadOn
<1>5. CASE l # EndOfFile /\ foreign
  <2>1. l \in [text : Line, ended : BOOLEAN]
    BY <1>5, ArrivingIs
  <2>2. l.text \in Line
    BY <2>1
  <2>3. unread' = unread /\ read' = Append(read, l) /\ atEnd' = FALSE /\ ~cut'
    BY <1>1, <1>2, <1>5 DEF cut
  <2>4. read' \in LinesRead
    BY <1>1, <2>1, <2>3, AppendProperties DEF LinesRead
  <2> QED  BY <1>1, <1>2, <1>5, <2>1, <2>2, <2>3, <2>4 DEF ReadOn
<1>6. CASE l # EndOfFile /\ ~foreign
  <2>1. unread # <<>> /\ l = [text |-> Head(unread), ended |-> TRUE]
    BY <1>6, ArrivingIs
  <2>2. Head(unread) \in Line /\ Tail(unread) \in Seq(Line)
    BY <1>1, <2>1, HeadTailProperties
  <2>3. l \in [text : Line, ended : BOOLEAN] /\ l.text = Head(unread) /\ l.ended = TRUE
    BY <2>1, <2>2
  <2>4. unread' = Tail(unread) /\ read' = Append(read, l) /\ atEnd' = FALSE /\ ~cut'
    BY <1>1, <1>2, <1>6 DEF cut
  <2>5. read' \in LinesRead
    BY <1>1, <2>3, <2>4, AppendProperties DEF LinesRead
  <2> QED  BY <1>1, <1>2, <1>6, <2>1, <2>2, <2>3, <2>4, <2>5 DEF ReadOn
<1> QED  BY <1>4, <1>5, <1>6

\* A line that is found is no end of the file.
LEMMA FoundIsLine ==
    ASSUME NEW l, Found(l)
    PROVE  l # EndOfFile /\ l.ended /\ ~TooLong(l.text)
<1>1. EndOfFile.ended = FALSE
  BY DEF EndOfFile
<1> QED  BY <1>1 DEF Found

\* The next line of a saved file.
LEMMA NextLine ==
    ASSUME saved \in Seq(Line), NEW n, LinesBefore(n), unread # <<>>,
           unread' = Tail(unread), saved' = saved
    PROVE  n \in Nat /\ n < Len(saved) /\ Head(unread) = saved[n + 1] /\ LinesBefore(n + 1)'
<1>1. Len(saved) \in Nat /\ n \in 0 .. Len(saved) /\ unread = SubSeq(saved, n + 1, Len(saved))
  BY DEF LinesBefore
<1>2. n < Len(saved)
  <2> SUFFICES ASSUME n = Len(saved) PROVE FALSE
    BY <1>1
  <2>1. unread = <<>>
    BY <1>1, SubSeqEmpty
  <2> QED  BY <2>1
<1>3. Head(unread) = saved[n + 1] /\ Tail(unread) = SubSeq(saved, n + 1 + 1, Len(saved))
  <2>1. n + 1 \in 1 .. Len(saved) /\ Len(saved) \in n + 1 .. Len(saved)
    BY <1>1, <1>2
  <2> QED  BY <1>1, <2>1, HeadTailOfSubSeq
<1>4. LinesBefore(n + 1)'
  <2>1. n + 1 \in 0 .. Len(saved)
    BY <1>1, <1>2
  <2> QED  BY <1>3, <2>1 DEF LinesBefore
<1> QED  BY <1>1, <1>2, <1>3, <1>4

\* All the lines of a saved file are read.
LEMMA AllLinesRead ==
    ASSUME saved \in Seq(Line), NEW n, LinesBefore(n), unread = <<>>
    PROVE  n = Len(saved)
<1>1. Len(saved) \in Nat /\ n \in 0 .. Len(saved) /\ unread = SubSeq(saved, n + 1, Len(saved))
  BY DEF LinesBefore
<1> SUFFICES ASSUME n < Len(saved) PROVE FALSE
  BY <1>1
<1>2. \A k \in n + 1 .. Len(saved) : saved[k] \in Line
  BY <1>1, ElementOfSeq
<1>3. Len(unread) = Len(saved) - (n + 1) + 1
  <2>1. n + 1 \in Int /\ Len(saved) \in Int /\ n + 1 <= Len(saved)
    BY <1>1
  <2>2. Len(SubSeq(saved, n + 1, Len(saved))) = IF n + 1 <= Len(saved) THEN Len(saved) - (n + 1) + 1 ELSE 0
    BY <1>2, <2>1, SubSeqProperties
  <2> QED  BY <1>1, <2>1, <2>2
<1>4. Len(unread) = 0
  OBVIOUS
<1> QED  BY <1>1, <1>3, <1>4

-----------------------------------------------------------------------------
(* The steps.                                                               *)

\* What holds at the prompt, whatever was done before.
LEMMA InitHolds == Init => DInv
<1> SUFFICES ASSUME Init PROVE DInv
  OBVIOUS
<1>1. /\ db = NoDB /\ saved = <<>> /\ kept = NoDB
      /\ foreign = FALSE /\ unread = <<>> /\ read = <<>> /\ atEnd = FALSE
      /\ load = NoDB /\ record = <<>> /\ current = NULL
      /\ step = "prompt" /\ overran = FALSE /\ live = 0 /\ lost = 0
  BY DEF Init
<1>2. <<>> \in Seq(Line) /\ <<>> \in LinesRead
  BY EmptySeq DEF LinesRead
<1>3. <<>> \in SomeFields
  <2>1. <<>> \in [{} -> Token]
    OBVIOUS
  <2> QED  BY <2>1 DEF SomeFields
<1>4. TypeOK
  <2>1. IsDB(db) /\ IsDB(kept) /\ IsDB(load)
    BY <1>1, NoDBIsDB
  <2>2. saved \in Seq(Line) /\ unread \in Seq(Line) /\ read \in Seq([text : Line, ended : BOOLEAN])
    BY <1>1, <1>2, Zenon DEF LinesRead
  <2>3. record \in SomeFields /\ current \in Line \cup {NULL, Past}
    BY <1>1, <1>3
  <2>4. foreign \in BOOLEAN /\ atEnd \in BOOLEAN /\ overran \in BOOLEAN
    BY <1>1, Zenon
  <2>6. live \in Int /\ lost \in Int
    BY <1>1
  <2>5. Resting
    BY <1>1 DEF Resting
  <2> QED  BY <2>1, <2>2, <2>3, <2>4, <2>5, <2>6 DEF TypeOK
<1>5. LoadOK /\ LinesCounted
  BY <1>1 DEF LoadOK, LinesCounted, Resting
<1>6. StringsOwned
  BY <1>1, NoDBIsDB DEF StringsOwned
<1>7. ReadBack
  BY <1>1 DEF ReadBack, Reading, NoDB, cut
<1> QED  BY <1>4, <1>5, <1>6, <1>7 DEF DInv

\* A command that leaves the prompt as it was, with another database open.
LEMMA PromptedHolds ==
    ASSUME DInv, Resting, Prompted, IsDB(db'), db'.columns = <<>>, load' = load,
           saved' \in Seq(Line), IsDB(kept'),
           saved' # <<>> => saved' = Lines(kept') /\ kept'.table # <<>> /\ kept'.columns = <<>>,
           live' - live = Strings(db') - Strings(db), live' \in Int, lost' = lost,
           UNCHANGED <<record, current>>
    PROVE  DInv'
<1>1. TypeOK /\ LoadOK /\ StringsOwned /\ ReadBack
  BY DEF DInv
<1>2. /\ step' = "prompt" /\ overran' = FALSE
      /\ foreign' = FALSE /\ unread' = <<>> /\ read' = <<>> /\ atEnd' = FALSE
  BY DEF Prompted
<1>3. <<>> \in Seq(Line) /\ <<>> \in LinesRead
  BY EmptySeq DEF LinesRead
<1>4. TypeOK'
  BY <1>1, <1>2, <1>3 DEF TypeOK, LinesRead, Resting, Reading
<1>5. load = NoDB
  BY <1>1 DEF LoadOK
<1>6. LoadOK' /\ LinesCounted'
  BY <1>2, <1>5 DEF LoadOK, LinesCounted, Resting
<1>7. StringsOwned'
  <2>1. Strings(db) \in Int /\ Strings(db') \in Int /\ Strings(load) \in Int /\ live \in Int /\ lost \in Int
    BY <1>1, StringsType DEF TypeOK
  <2>2. live = Strings(db) + Strings(load) + lost
    BY <1>1 DEF StringsOwned
  <2>3. live' = Strings(db') + Strings(load) + lost
    BY <2>1, <2>2
  <2> QED  BY <2>3 DEF StringsOwned
<1>8. ReadBack'
  BY <1>2 DEF ReadBack, Reading, cut
<1> QED  BY <1>4, <1>6, <1>7, <1>8 DEF DInv

\* SAVE.
LEMMA SaveHolds == ASSUME DInv, Save PROVE DInv'
<1>1. /\ Resting /\ db.table # <<>> /\ saved' = Lines(db) /\ kept' = db /\ Prompted
      /\ UNCHANGED <<db, load, record, current, live, lost>>
  BY DEF Save
<1>2. IsDB(db) /\ live \in Int /\ db.columns = <<>>
  BY DEF DInv, TypeOK, ReadBack
<1>3. Lines(db) \in Seq(Line)
  BY <1>2, LinesAre
<1>4. live' - live = Strings(db') - Strings(db)
  BY <1>1, <1>2, StringsType
<1> QED  BY <1>1, <1>2, <1>3, <1>4, PromptedHolds

\* INSERT, UPDATE and DELETE.
LEMMA EditHolds ==
    ASSUME DInv, NEW S \in SUBSET IDs, IsFiniteSet(S), NEW R \in [S -> Held], Edit(R),
           live' = live + 2 * (Cardinality(S) - Cardinality(DOMAIN db.records))
    PROVE  DInv'
<1>1. /\ Resting /\ db' = [db EXCEPT !.records = R] /\ Prompted
      /\ UNCHANGED <<saved, kept, load, record, current, lost>>
  BY DEF Edit, file
<1>2. TypeOK /\ ReadBack
  BY DEF DInv
<1>3. IsDB(db) /\ live \in Int /\ db.columns = <<>> /\ saved \in Seq(Line) /\ IsDB(kept)
  BY <1>2 DEF TypeOK, ReadBack
<1>4. IsDB(db') /\ Strings(db') = Strings(db) - 2 * Cardinality(DOMAIN db.records) + 2 * Cardinality(S)
  BY <1>1, <1>3, WithRecords
<1>5. db'.columns = <<>>
  <2>1. db \in Databases
    BY <1>3 DEF IsDB
  <2>2. db = [headers |-> db.headers, table |-> db.table, records |-> db.records, columns |-> db.columns]
    BY <2>1, DatabaseFields
  <2>3. db' = [headers |-> db.headers, table |-> db.table, records |-> R, columns |-> db.columns]
    BY <1>1, <2>2
  <2> QED  BY <1>3, <2>3
<1>6. live' - live = Strings(db') - Strings(db) /\ live' \in Int
  <2>1. Cardinality(S) \in Int /\ Cardinality(DOMAIN db.records) \in Int /\ Strings(db) \in Int
    BY <1>3, StringsType, FS_CardinalityType
  <2> QED  BY <1>3, <1>4, <2>1
<1>7. saved' \in Seq(Line) /\ IsDB(kept')
  BY <1>1, <1>3
<1>8. saved' # <<>> => saved' = Lines(kept') /\ kept'.table # <<>> /\ kept'.columns = <<>>
  BY <1>1, <1>2 DEF ReadBack
<1> QED  BY <1>1, <1>4, <1>5, <1>6, <1>7, <1>8, PromptedHolds

\* The database that is open has records.
LEMMA OpenRecords ==
    ASSUME TypeOK
    PROVE  \E S \in SUBSET IDs : S = DOMAIN db.records /\ IsFiniteSet(S) /\ db.records \in [S -> Held]
<1>1. db \in Databases /\ IsFiniteSet(DOMAIN db.records)
  BY DEF TypeOK, IsDB
<1>2. PICK S \in SUBSET IDs : db.records \in [S -> Held]
  BY <1>1, DatabaseFields
<1> QED  BY <1>1, <1>2

\* INSERT.
LEMMA InsertHolds ==
    ASSUME DInv, NEW i \in IDs, NEW r \in Content, Insert(i, r)
    PROVE  DInv'
<1>1. PICK S \in SUBSET IDs : S = DOMAIN db.records /\ IsFiniteSet(S) /\ db.records \in [S -> Held]
  BY OpenRecords DEF DInv
<1>2. i \notin S /\ Edit(Put(db.records, i, r)) /\ live' = live + 2
  BY <1>1 DEF Insert
<1>3. r \in Held
  BY DEF Content, Held
<1> DEFINE R == Put(db.records, i, r)
           T == S \cup {i}
<1>4. R \in [T -> Held]
  BY <1>1, <1>3, PutType
<1>5. T \in SUBSET IDs /\ IsFiniteSet(T) /\ Cardinality(T) = Cardinality(S) + 1 /\ Cardinality(S) \in Int
  <2>1. T \in SUBSET IDs
    OBVIOUS
  <2>2. IsFiniteSet(T) /\ Cardinality(T) = Cardinality(S) + 1
    BY <1>1, <1>2, FS_AddElement
  <2> QED  BY <1>1, <2>1, <2>2, FS_CardinalityType
<1>6. live' = live + 2 * (Cardinality(T) - Cardinality(DOMAIN db.records))
  <2> HIDE DEF T
  <2> QED  BY <1>1, <1>2, <1>5
<1> HIDE DEF R, T
<1>7. Edit(R)
  BY <1>2 DEF R
<1> QED  BY <1>4, <1>5, <1>6, <1>7, EditHolds

\* UPDATE.
LEMMA UpdateHolds ==
    ASSUME DInv, NEW i \in IDs, NEW r \in Content, Update(i, r)
    PROVE  DInv'
<1>1. PICK S \in SUBSET IDs : S = DOMAIN db.records /\ IsFiniteSet(S) /\ db.records \in [S -> Held]
  BY OpenRecords DEF DInv
<1>2. PICK c \in {"name", "programme", "mark"} : Edit([db.records EXCEPT ![i][c] = r[c]])
  BY DEF Update
<1>3. i \in S /\ live' = live
  BY <1>1 DEF Update
<1> DEFINE R == [db.records EXCEPT ![i][c] = r[c]]
<1>4. R \in [S -> Held]
  <2>1. db.records[i] \in Held /\ r \in Held
    BY <1>1, <1>3 DEF Content, Held
  <2>2. [db.records[i] EXCEPT ![c] = r[c]] \in Held
    BY <1>2, <2>1 DEF Held
  <2> QED  BY <1>1, <1>3, <2>2
<1>5. live' = live + 2 * (Cardinality(S) - Cardinality(DOMAIN db.records))
  <2>1. Cardinality(S) \in Int /\ live \in Int
    BY <1>1, FS_CardinalityType DEF DInv, TypeOK
  <2> QED  BY <1>1, <1>3, <2>1
<1> HIDE DEF R
<1>6. Edit(R)
  BY <1>2 DEF R
<1> QED  BY <1>1, <1>4, <1>5, <1>6, EditHolds

\* DELETE.
LEMMA DeleteHolds ==
    ASSUME DInv, NEW i \in IDs, Delete(i)
    PROVE  DInv'
<1>1. PICK S \in SUBSET IDs : S = DOMAIN db.records /\ IsFiniteSet(S) /\ db.records \in [S -> Held]
  BY OpenRecords DEF DInv
<1> DEFINE T == S \ {i}
           R == [j \in T |-> db.records[j]]
<1>2. i \in S /\ Edit(R) /\ live' = live - 2
  BY <1>1 DEF Delete
<1>3. R \in [T -> Held]
  BY <1>1
<1>4. T \in SUBSET IDs /\ IsFiniteSet(T) /\ Cardinality(T) = Cardinality(S) - 1 /\ Cardinality(S) \in Int
  <2>1. IsFiniteSet(S)
    BY <1>1
  <2>2. Cardinality(S) \in Nat
    BY <2>1, FS_CardinalityType
  <2>3. IsFiniteSet(S \ {i}) /\ Cardinality(S \ {i}) = Cardinality(S) - 1
    BY <1>2, <2>1, FS_RemoveElement, Zenon
  <2>4. S \ {i} \in SUBSET IDs
    OBVIOUS
  <2> QED  BY <2>2, <2>3, <2>4
<1> HIDE DEF R, T
<1>5. live' = live + 2 * (Cardinality(T) - Cardinality(DOMAIN db.records))
  <2>1. live \in Int
    BY DEF DInv, TypeOK
  <2> QED  BY <1>1, <1>2, <1>4, <2>1
<1> QED  BY <1>2, <1>3, <1>4, <1>5, EditHolds

\* What was kept when the file was saved stays as it is.
LEMMA KeptStays ==
    ASSUME kept' = kept
    PROVE  /\ KeptOrder' = KeptOrder /\ Behind' = Behind
           /\ \A m : FirstRecords(m)' = FirstRecords(m)
           /\ \A m : Loaded(m)' = Loaded(m)
<1>1. KeptOrder' = KeptOrder /\ Behind' = Behind
  BY DEF KeptOrder, Behind
<1>2. \A m : FirstRecords(m)' = FirstRecords(m)
  BY <1>1 DEF FirstRecords
<1>3. \A m : Loaded(m)' = Loaded(m)
  BY <1>2 DEF Loaded
<1> QED  BY <1>1, <1>2, <1>3

\* A database without a table.
LEMMA HeadersOnly ==
    ASSUME NEW h
    PROVE  [NoDB EXCEPT !.headers = h] = [headers |-> h, table |-> <<>>, records |-> <<>>, columns |-> <<>>]
BY DEF NoDB

\* OPEN.
LEMMA OpenHolds ==
    ASSUME DInv, NEW f \in BOOLEAN, Open(f)
    PROVE  DInv'
<1>1. TypeOK /\ LoadOK /\ StringsOwned /\ ReadBack
  BY DEF DInv
<1>2. /\ Resting /\ foreign' = f /\ unread' = saved /\ read' = <<>> /\ atEnd' = FALSE
      /\ load' = NoDB /\ record' = <<>> /\ current' = NULL
      /\ step' = "headers" /\ overran' = FALSE
      /\ db' = db /\ saved' = saved /\ kept' = kept /\ live' = live /\ lost' = lost
  BY DEF Open, file
<1>3. IF f THEN saved = <<>> ELSE saved # <<>>
  BY Zenon DEF Open
<1>4. <<>> \in LinesRead /\ <<>> \in SomeFields
  <2>1. <<>> \in [{} -> Token]
    OBVIOUS
  <2> QED  BY <2>1, EmptySeq DEF SomeFields, LinesRead
<1>5. TypeOK'
  <2>1. IsDB(db') /\ IsDB(kept') /\ IsDB(load') /\ saved' \in Seq(Line) /\ unread' \in Seq(Line)
    BY <1>1, <1>2, NoDBIsDB DEF TypeOK
  <2>2. read' \in Seq([text : Line, ended : BOOLEAN])
    BY <1>2, <1>4, Zenon DEF LinesRead
  <2>3. record' \in SomeFields /\ current' \in Line \cup {NULL, Past}
    BY <1>2, <1>4
  <2>4. foreign' \in BOOLEAN /\ atEnd' \in BOOLEAN /\ overran' \in BOOLEAN
    BY <1>2, Zenon
  <2>5. live' \in Int /\ lost' \in Int
    BY <1>1, <1>2 DEF TypeOK
  <2>6. Reading'
    BY <1>2 DEF Reading
  <2> QED  BY <2>1, <2>2, <2>3, <2>4, <2>5, <2>6 DEF TypeOK
<1>6. load = NoDB
  BY <1>1, <1>2 DEF LoadOK
<1>7. LoadOK' /\ LinesCounted'
  BY <1>2 DEF LoadOK, LinesCounted, Resting, NoDB
<1>8. StringsOwned'
  BY <1>1, <1>2, <1>6 DEF StringsOwned
<1>9. ~f => SavedIsRead'
  <2> SUFFICES ASSUME ~f PROVE SavedIsRead'
    OBVIOUS
  <2>1. saved # <<>> /\ saved \in Seq(Line)
    BY <1>1, <1>3 DEF TypeOK
  <2>2. LinesBefore(0)'
    <3>1. unread' = SubSeq(saved, 0 + 1, Len(saved))
      BY <1>2, <2>1, SubSeqFull
    <3>2. 0 \in 0 .. Len(saved)
      BY <2>1
    <3> QED  BY <1>2, <3>1, <3>2 DEF LinesBefore
  <2>3. load' = [NoDB EXCEPT !.headers = SubSeq(kept'.headers, 1, 0)]
    <3>1. SubSeq(kept'.headers, 1, 0) = <<>>
      BY SubSeqEmpty
    <3> QED  BY <1>2, <3>1, HeadersOnly DEF NoDB
  <2>4. 0 \in 0 .. Behind'
    BY <1>1, <1>2, DatabaseType DEF Behind, TypeOK
  <2>5. \E n \in 0 .. Behind' : LinesBefore(n)' /\ load' = [NoDB EXCEPT !.headers = SubSeq(kept'.headers, 1, n)]
    BY <2>2, <2>3, <2>4, Zenon
  <2> QED  BY <1>2, <2>1, <2>5 DEF SavedIsRead
<1>10. ReadBack'
  <2>1. db'.columns = <<>> /\ (saved' # <<>> => saved' = Lines(kept') /\ kept'.table # <<>> /\ kept'.columns = <<>>)
    BY <1>1, <1>2 DEF ReadBack
  <2>2. foreign' => saved' = <<>> /\ unread' = <<>>
    BY <1>2, <1>3
  <2> QED  BY <1>2, <1>9, <2>1, <2>2 DEF ReadBack, Reading, cut
<1> QED  BY <1>5, <1>7, <1>8, <1>10 DEF DInv

\* error_cleanup.
LEMMA RefusedHolds ==
    ASSUME DInv, NEW e, Refuse(e), foreign' = foreign,
           unread' \in Seq(Line), read' \in LinesRead, atEnd' \in BOOLEAN,
           foreign => ~cut' /\ unread' = <<>>,
           ~foreign /\ ~cut' => e = "out_of_mem" \/ \E t \in Range(saved) : TooLong(t)
    PROVE  DInv'
<1>1. TypeOK /\ StringsOwned /\ ReadBack
  BY DEF DInv
<1>2. /\ err' = e /\ step' = "refused"
      /\ live' = live - (Strings(load) - Len(load.headers))
      /\ lost' = lost + Len(load.headers)
      /\ load' = NoDB /\ record' = <<>> /\ current' = NULL
      /\ db' = db /\ saved' = saved /\ kept' = kept /\ overran' = overran
  BY DEF Refuse, file
<1>3. <<>> \in SomeFields
  <2>1. <<>> \in [{} -> Token]
    OBVIOUS
  <2> QED  BY <2>1 DEF SomeFields
<1>4. Strings(load) \in Int /\ Len(load.headers) \in Int /\ Strings(db) \in Int /\ live \in Int /\ lost \in Int
  BY <1>1, StringsType DEF TypeOK
<1>5. TypeOK'
  <2>1. IsDB(db') /\ IsDB(kept') /\ IsDB(load') /\ saved' \in Seq(Line) /\ unread' \in Seq(Line)
    BY <1>1, <1>2, NoDBIsDB DEF TypeOK
  <2>2. read' \in Seq([text : Line, ended : BOOLEAN])
    BY DEF LinesRead
  <2>3. record' \in SomeFields /\ current' \in Line \cup {NULL, Past}
    BY <1>2, <1>3
  <2>4. foreign' \in BOOLEAN /\ atEnd' \in BOOLEAN /\ overran' \in BOOLEAN
    BY <1>1, <1>2 DEF TypeOK
  <2>5. live' \in Int /\ lost' \in Int
    BY <1>2, <1>4
  <2>6. Resting'
    BY <1>2 DEF Resting
  <2> QED  BY <2>1, <2>2, <2>3, <2>4, <2>5, <2>6 DEF TypeOK
<1>6. LoadOK' /\ LinesCounted'
  BY <1>2 DEF LoadOK, LinesCounted
<1>7. StringsOwned'
  <2>1. live = Strings(db) + Strings(load) + lost
    BY <1>1 DEF StringsOwned
  <2>2. live' = Strings(db) + 0 + lost'
    BY <1>2, <1>4, <2>1
  <2> QED  BY <1>2, <2>2, NoDBIsDB DEF StringsOwned
<1>8. ReadBack'
  <2>1. db'.columns = <<>> /\ (saved' # <<>> => saved' = Lines(kept') /\ kept'.table # <<>> /\ kept'.columns = <<>>)
    BY <1>1, <1>2 DEF ReadBack
  <2>2. foreign' => saved' = <<>> /\ unread' = <<>> /\ ~cut'
    BY <1>1, <1>2 DEF ReadBack
  <2>3. ~foreign' /\ ~cut' => err' = "out_of_mem" \/ \E t \in Range(saved') : TooLong(t)
    BY <1>2
  <2> QED  BY <1>2, <2>1, <2>2, <2>3 DEF ReadBack, Reading
<1> QED  BY <1>5, <1>6, <1>7, <1>8 DEF DInv

\* The reading goes on.
LEMMA GoesOn ==
    ASSUME DInv, Reading, Reading',
           db' = db, saved' = saved, kept' = kept, lost' = lost, overran' \in BOOLEAN,
           foreign' = foreign, unread' \in Seq(Line), read' \in LinesRead, atEnd' \in BOOLEAN, ~cut',
           foreign => unread' = <<>>,
           record' \in SomeFields, current' \in Line \cup {NULL, Past}, IsDB(load'),
           live' = live + Strings(load') - Strings(load),
           LoadOK', LinesCounted', ~foreign => SavedIsRead'
    PROVE  DInv'
<1>1. TypeOK /\ StringsOwned /\ ReadBack
  BY DEF DInv
<1>2. Strings(load) \in Int /\ Strings(load') \in Int /\ Strings(db) \in Int /\ live \in Int /\ lost \in Int
  BY <1>1, StringsType DEF TypeOK
<1>3. TypeOK'
  <2>1. IsDB(db') /\ IsDB(kept') /\ saved' \in Seq(Line) /\ foreign' \in BOOLEAN
    BY <1>1 DEF TypeOK
  <2>2. read' \in Seq([text : Line, ended : BOOLEAN])
    BY DEF LinesRead
  <2>3. live' \in Int /\ lost' \in Int
    BY <1>2
  <2>4. atEnd' \in BOOLEAN
    OBVIOUS
  <2> QED  BY <2>1, <2>2, <2>3, <2>4 DEF TypeOK
<1>4. StringsOwned'
  <2>1. live = Strings(db) + Strings(load) + lost
    BY <1>1 DEF StringsOwned
  <2>2. live' = Strings(db) + Strings(load') + lost
    BY <1>2, <2>1
  <2> QED  BY <2>2 DEF StringsOwned
<1>5. ReadBack'
  <2>1. db'.columns = <<>> /\ (saved' # <<>> => saved' = Lines(kept') /\ kept'.table # <<>> /\ kept'.columns = <<>>)
    BY <1>1 DEF ReadBack
  <2>2. foreign' => saved' = <<>> /\ unread' = <<>>
    BY <1>1 DEF ReadBack
  <2>3. step' # "opened" /\ step' # "refused"
    BY DEF Reading
  <2> QED  BY <2>1, <2>2, <2>3 DEF ReadBack
<1> QED  BY <1>3, <1>4, <1>5 DEF DInv

\* NULL is read through, behind a short line of a foreign file.
LEMMA CrashHolds ==
    ASSUME DInv, Crash, foreign, foreign' = foreign, unread' = <<>>, read' \in LinesRead,
           atEnd' \in BOOLEAN, ~cut', CommasIn(Last(read').text) < 3
    PROVE  DInv'
<1>1. TypeOK /\ StringsOwned /\ ReadBack
  BY DEF DInv
<1>2. /\ db' = db /\ saved' = saved /\ kept' = kept /\ load' = load /\ record' = record /\ current' = current
      /\ overran' = overran /\ live' = live /\ lost' = lost /\ step' = "crashed"
  BY DEF Crash, file
<1>3. <<>> \in Seq(Line)
  BY EmptySeq
<1>4. TypeOK'
  BY <1>1, <1>2, <1>3 DEF TypeOK, LinesRead
<1>5. LoadOK'
  BY <1>2 DEF LoadOK, Resting
<1>6. StringsOwned'
  BY <1>1, <1>2 DEF StringsOwned
<1>7. LinesCounted'
  BY <1>2 DEF LinesCounted
<1>8. ReadBack'
  <2>1. db'.columns = <<>> /\ (saved' # <<>> => saved' = Lines(kept') /\ kept'.table # <<>> /\ kept'.columns = <<>>)
    BY <1>1, <1>2 DEF ReadBack
  <2>2. (foreign' => saved' = <<>> /\ unread' = <<>>) /\ (cut' => ~foreign')
    BY <1>1, <1>2 DEF ReadBack
  <2>3. ~Reading' /\ step' # "opened" /\ step' # "refused"
    BY <1>2 DEF Reading
  <2> QED  BY <2>1, <2>2, <2>3, Zenon DEF ReadBack
<1> QED  BY <1>4, <1>5, <1>6, <1>7, <1>8 DEF DInv

\* The lines of the file that was saved.
LEMMA SavedLines ==
    ASSUME TypeOK, ReadBack, saved # <<>>
    PROVE  /\ saved \in Seq(Line) /\ Behind \in Nat /\ Len(KeptOrder) \in Nat
           /\ Len(saved) = Behind + 3 + Len(KeptOrder)
           /\ \A n \in 1 .. Behind : saved[n] = kept.headers[n] /\ saved[n] # <<>>
           /\ saved[Behind + 1] = <<>> /\ saved[Behind + 2] = TableLine(kept)
           /\ saved[Behind + 3] = ColumnLine
           /\ \A m \in 1 .. Len(KeptOrder) :
                 saved[Behind + 3 + m] = RecordLine(KeptOrder[m], kept.records[KeptOrder[m]])
<1>1. IsDB(kept) /\ saved = Lines(kept)
  BY DEF TypeOK, ReadBack
<1>2. /\ saved \in Seq(Line) /\ Behind \in Nat /\ Len(KeptOrder) \in Nat
      /\ Len(saved) = Behind + 3 + Len(KeptOrder)
      /\ \A n \in 1 .. Behind : saved[n] = kept.headers[n]
      /\ saved[Behind + 1] = <<>> /\ saved[Behind + 2] = TableLine(kept)
      /\ saved[Behind + 3] = ColumnLine
      /\ \A m \in 1 .. Len(KeptOrder) :
            saved[Behind + 3 + m] = RecordLine(KeptOrder[m], kept.records[KeptOrder[m]])
  BY <1>1, LinesAre, Zenon DEF Behind, KeptOrder
<1>3. \A n \in 1 .. Behind : kept.headers[n] # <<>>
  BY <1>1, DatabaseType, Zenon DEF Behind
<1> QED  BY <1>2, <1>3, Zenon

\* The index behind one that is not the last.
LEMMA NextIndex ==
    ASSUME NEW k \in Nat, NEW n \in Nat, n < k
    PROVE  n + 1 \in 1 .. k
OBVIOUS

\* A line of a saved file is not found if it is too long, or at a failure of fgetc.
LEMMA NotFoundBecause ==
    ASSUME TypeOK, ReadBack, Reading, NEW l, ReadOn(l), ~Found(l), ~foreign, ~cut',
           NEW n, LinesBefore(n), n # Len(saved), saved' = saved
    PROVE  \E t \in Range(saved) : TooLong(t)
<1>1. saved \in Seq(Line)
  BY DEF TypeOK
<1>2. unread # <<>>
  BY <1>1, AllLinesRead
<1>3. l # EndOfFile
  BY <1>2 DEF ReadOn
<1>4. l.text = Head(unread) /\ l.ended /\ unread' = Tail(unread)
  BY <1>3 DEF ReadOn
<1>5. TooLong(l.text)
  BY <1>4 DEF Found
<1>6. n \in Nat /\ n < Len(saved) /\ l.text = saved[n + 1]
  BY <1>1, <1>2, <1>4, NextLine
<1>7. n + 1 \in DOMAIN saved
  <2>1. Len(saved) \in Nat /\ DOMAIN saved = 1 .. Len(saved)
    BY <1>1
  <2>2. n \in Nat /\ n < Len(saved)
    BY <1>6
  <2>3. n + 1 \in 1 .. Len(saved)
    BY <2>1, <2>2, NextIndex
  <2> QED  BY <2>1, <2>3, Zenon
<1> QED  BY <1>5, <1>6, <1>7 DEF Range

\* The line that is found in a saved file.
LEMMA FoundNext ==
    ASSUME TypeOK, NEW l, ReadOn(l), Found(l), ~foreign, NEW n, LinesBefore(n), saved' = saved
    PROVE  /\ n \in Nat /\ n < Len(saved) /\ l.text = saved[n + 1]
           /\ LinesBefore(n + 1)'
<1>1. saved \in Seq(Line)
  BY DEF TypeOK
<1>2. l # EndOfFile
  BY FoundIsLine
<1>3. unread # <<>> /\ l.text = Head(unread) /\ unread' = Tail(unread)
  BY <1>2 DEF ReadOn
<1> QED  BY <1>1, <1>3, NextLine

\* What is done with the first lines of a file.
LEMMA ReadHeaderHolds == ASSUME DInv, ReadHeader PROVE DInv'
<1>1. TypeOK /\ LoadOK /\ ReadBack /\ step = "headers" /\ Reading
  BY DEF DInv, ReadHeader, Reading
<1>2. PICK l \in Arriving :
         /\ NextRead(l)
         /\ \/ ~Found(l) /\ Refuse("bad_format")
            \/ /\ Found(l) /\ l.text = <<>>
               /\ GoTo("table") /\ UNCHANGED <<load, record, current, live>>
            \/ Found(l) /\ l.text # <<>> /\ Refuse("out_of_mem")
            \/ /\ Found(l) /\ l.text # <<>>
               /\ load' = [load EXCEPT !.headers = Append(@, l.text)] /\ live' = live + 1
               /\ GoTo("headers") /\ UNCHANGED <<record, current>>
  BY DEF ReadHeader
<1>3. ReadOn(l)
  BY <1>1, <1>2, Arrives
<1>4. ~cut /\ (~foreign => SavedIsRead)
  BY <1>1 DEF ReadBack
<1>5. ASSUME ~foreign
      PROVE  /\ saved # <<>>
             /\ \E n \in 0 .. Behind :
                   LinesBefore(n) /\ load = [NoDB EXCEPT !.headers = SubSeq(kept.headers, 1, n)]
  BY <1>1, <1>4, <1>5 DEF SavedIsRead
<1>6. /\ l.text \in Line /\ foreign' = foreign /\ unread' \in Seq(Line) /\ read' \in LinesRead
      /\ atEnd' \in BOOLEAN /\ (foreign => ~cut' /\ unread' = <<>>)
  BY <1>3 DEF ReadOn
<1>7. CASE ~Found(l) /\ Refuse("bad_format")
  <2>1. ASSUME ~foreign, ~cut' PROVE \E t \in Range(saved) : TooLong(t)
    <3>1. PICK n \in 0 .. Behind : LinesBefore(n)
      BY <1>5, <2>1
    <3>2. n # Len(saved)
      BY <1>1, <1>5, <2>1, SavedLines
    <3>3. saved' = saved
      BY <1>7 DEF Refuse, file
    <3> QED  BY <1>1, <1>3, <1>7, <2>1, <3>1, <3>2, <3>3, NotFoundBecause
  <2> QED  BY <1>6, <1>7, <2>1, RefusedHolds
<1>8. CASE Refuse("out_of_mem")
  BY <1>6, <1>8, RefusedHolds
<1>9. ASSUME Found(l) PROVE ~cut'
  BY <1>3, <1>6, <1>9, FoundIsLine DEF ReadOn
<1>10. CASE Found(l) /\ l.text = <<>> /\ GoTo("table") /\ UNCHANGED <<load, record, current, live>>
  <2>1. /\ step' = "table" /\ db' = db /\ saved' = saved /\ kept' = kept /\ overran' = overran /\ lost' = lost
        /\ load' = load /\ record' = record /\ current' = current /\ live' = live
    BY <1>10 DEF GoTo, file
  <2>2. LoadOK' /\ LinesCounted' /\ Reading'
    BY <1>1, <2>1 DEF LoadOK, LinesCounted, Resting, Reading
  <2>3. ASSUME ~foreign PROVE SavedIsRead'
    <3>1. PICK n \in 0 .. Behind :
             LinesBefore(n) /\ load = [NoDB EXCEPT !.headers = SubSeq(kept.headers, 1, n)]
      BY <1>5, <2>3
    <3>2. n \in Nat /\ l.text = saved[n + 1] /\ LinesBefore(n + 1)'
      BY <1>1, <1>3, <1>10, <2>1, <2>3, <3>1, FoundNext
    <3>3. n = Behind
      <4>1. Behind \in Nat /\ \A k \in 1 .. Behind : saved[k] # <<>>
        BY <1>1, <1>5, <2>3, SavedLines
      <4>2. n + 1 \notin 1 .. Behind
        BY <1>10, <3>2, <4>1
      <4> QED  BY <3>1, <3>2, <4>1, <4>2
    <3>4. load' = [NoDB EXCEPT !.headers = kept'.headers]
      <4>1. SubSeq(kept.headers, 1, Behind) = kept.headers
        BY <1>1, DatabaseType, SubSeqFull DEF TypeOK, Behind
      <4> QED  BY <2>1, <3>1, <3>3, <4>1
    <3>5. Behind' = Behind
      BY <2>1 DEF Behind
    <3> QED  BY <1>5, <2>1, <2>3, <3>2, <3>3, <3>4, <3>5 DEF SavedIsRead
  <2>4. IsDB(load) /\ record \in SomeFields /\ current \in Line \cup {NULL, Past} /\ overran \in BOOLEAN /\ live \in Int
    BY <1>1 DEF TypeOK
  <2>5. live' = live + Strings(load') - Strings(load)
    BY <2>1, <2>4, StringsType
  <2> QED  BY <1>1, <1>6, <1>9, <1>10, <2>1, <2>2, <2>3, <2>4, <2>5, GoesOn
<1>11. CASE /\ Found(l) /\ l.text # <<>>
            /\ load' = [load EXCEPT !.headers = Append(@, l.text)] /\ live' = live + 1
            /\ GoTo("headers") /\ UNCHANGED <<record, current>>
  <2>1. /\ step' = "headers" /\ db' = db /\ saved' = saved /\ kept' = kept /\ overran' = overran /\ lost' = lost
        /\ record' = record /\ current' = current
        /\ load' = [load EXCEPT !.headers = Append(@, l.text)] /\ live' = live + 1
    BY <1>11 DEF GoTo, file
  <2>2. IsDB(load) /\ record \in SomeFields /\ current \in Line \cup {NULL, Past} /\ overran \in BOOLEAN /\ live \in Int
    BY <1>1 DEF TypeOK
  <2>3. IsDB(load') /\ Strings(load') = Strings(load) + 1
    BY <1>6, <1>11, <2>1, <2>2, WithHeader
  <2>4. load'.headers = Append(load.headers, l.text) /\ load'.table = load.table
        /\ load'.records = load.records /\ load'.columns = load.columns
    <3>1. load = [headers |-> load.headers, table |-> load.table, records |-> load.records, columns |-> load.columns]
      BY <2>2, DatabaseFields DEF IsDB
    <3> QED  BY <2>1, <3>1
  <2>5. LoadOK' /\ LinesCounted' /\ Reading'
    BY <1>1, <2>1, <2>4 DEF LoadOK, LinesCounted, Resting, Reading
  <2>6. ASSUME ~foreign PROVE SavedIsRead'
    <3>1. PICK n \in 0 .. Behind :
             LinesBefore(n) /\ load = [NoDB EXCEPT !.headers = SubSeq(kept.headers, 1, n)]
      BY <1>5, <2>6
    <3>2. n \in Nat /\ n < Len(saved) /\ l.text = saved[n + 1] /\ LinesBefore(n + 1)'
      BY <1>1, <1>3, <1>11, <2>1, <2>6, <3>1, FoundNext
    <3>3. Behind \in Nat /\ saved[Behind + 1] = <<>> /\ \A k \in 1 .. Behind : saved[k] = kept.headers[k]
      BY <1>1, <1>5, <2>6, SavedLines
    <3>4. n # Behind
      BY <1>11, <3>2, <3>3
    <3>5. n + 1 \in 1 .. Behind /\ n + 1 \in 0 .. Behind
      BY <3>1, <3>2, <3>3, <3>4
    <3>6. l.text = kept.headers[n + 1]
      BY <3>2, <3>3, <3>5
    <3>7. load' = [NoDB EXCEPT !.headers = SubSeq(kept'.headers, 1, n + 1)]
      <4> DEFINE h == kept.headers
      <4>1. h \in Seq(Line) /\ Behind = Len(h)
        BY <1>1, DatabaseType DEF TypeOK, Behind
      <4>2. Append(SubSeq(h, 1, n), h[n + 1]) = SubSeq(h, 1, n + 1)
        BY <3>2, <3>5, <4>1
      <4>3. load.headers = SubSeq(h, 1, n)
        BY <3>1, HeadersOnly
      <4>4. load' = [load EXCEPT !.headers = SubSeq(h, 1, n + 1)]
        BY <2>1, <3>6, <4>2, <4>3
      <4> HIDE DEF h
      <4>5. load' = [NoDB EXCEPT !.headers = SubSeq(h, 1, n + 1)]
        BY <3>1, <4>4, HeadersOnly DEF h
      <4> QED  BY <2>1, <4>5 DEF h
    <3>8. Behind' = Behind
      BY <2>1 DEF Behind
    <3>9. \E k \in 0 .. Behind' : LinesBefore(k)' /\ load' = [NoDB EXCEPT !.headers = SubSeq(kept'.headers, 1, k)]
      BY <3>2, <3>5, <3>7, <3>8, Zenon
    <3> QED  BY <1>5, <2>1, <2>6, <3>9 DEF SavedIsRead
  <2>7. live' = live + Strings(load') - Strings(load)
    BY <2>1, <2>2, <2>3, StringsType
  <2> QED  BY <1>1, <1>6, <1>9, <1>11, <2>1, <2>2, <2>3, <2>5, <2>6, <2>7, GoesOn
<1> QED  BY <1>2, <1>7, <1>8, <1>10, <1>11

\* A line is refused.
LEMMA LineRefused ==
    ASSUME DInv, NEW l, ReadOn(l), NEW e, Refuse(e),
           ~foreign /\ ~cut' => \E t \in Range(saved) : TooLong(t)
    PROVE  DInv'
<1>1. foreign' = foreign /\ unread' \in Seq(Line) /\ read' \in LinesRead /\ atEnd' \in BOOLEAN
  BY DEF ReadOn
<1>2. foreign => ~cut' /\ unread' = <<>>
  BY DEF ReadOn
<1> QED  BY <1>1, <1>2, RefusedHolds

\* What is behind the first token of a line.
LEMMA TailIs ==
    ASSUME NEW c \in Line, Len(c) > 1
    PROVE  Tail(c) \in Line /\ Tail(c) # <<>>
<1>1. c \in Seq(Token) /\ Len(c) \in Nat
  BY LineLength DEF Line
<1>2. c # <<>>
  BY <1>1
<1>3. Tail(c) \in Seq(Token) /\ Len(Tail(c)) = Len(c) - 1
  BY <1>1, <1>2
<1>4. Tail(c) # <<>>
  <2> DEFINE t == Tail(c)
  <2>1. Len(t) > 0
    BY <1>1, <1>3
  <2> HIDE DEF t
  <2>2. t # <<>>
    BY <2>1
  <2> QED  BY <2>2 DEF t
<1> QED  BY <1>3, <1>4 DEF Line

\* The line of a table is read as one.
LEMMA TableLineIs ==
    ASSUME NEW d, IsDB(d), d.table # <<>>
    PROVE  IsTable(TableLine(d)) /\ Len(TableLine(d)) > 1 /\ Tail(TableLine(d)) = d.table
<1> DEFINE t == d.table
<1>1. t \in Seq(Token) /\ t # <<>>
  BY DatabaseType DEF Line
<1>2. TablePrefix \in Token
  BY DEF Token
<1>3. TableLine(d) = <<TablePrefix>> \o t
  BY DEF TableLine
<1> HIDE DEF t
<1>4. <<TablePrefix>> \in Seq(Token)
  BY <1>2
<1>5. Joined(<<TablePrefix>>, t, <<TablePrefix>> \o t, Token)
  BY <1>1, <1>4, ConcatAt
<1>6. /\ <<TablePrefix>> \o t # <<>> /\ Head(<<TablePrefix>> \o t) = TablePrefix
      /\ Len(<<TablePrefix>> \o t) > 1
  BY <1>1, <1>2
<1>7. Tail(<<TablePrefix>> \o t) = t
  BY <1>1, <1>2
<1> QED  BY <1>3, <1>6, <1>7 DEF IsTable, t

\* The line of the table.
LEMMA ReadTableHolds == ASSUME DInv, ReadTable PROVE DInv'
<1>1. TypeOK /\ LoadOK /\ ReadBack /\ step = "table" /\ Reading
  BY DEF DInv, ReadTable, Reading
<1>2. PICK l \in Arriving :
         /\ NextRead(l)
         /\ \/ ~Found(l) /\ Refuse("bad_format")
            \/ Found(l) /\ (~IsTable(l.text) \/ Len(l.text) = 1) /\ Refuse("missing_table_name")
            \/ /\ Found(l) /\ IsTable(l.text) /\ Len(l.text) > 1
               /\ load' = [load EXCEPT !.table = Tail(l.text)] /\ live' = live + 1
               /\ GoTo("columns") /\ UNCHANGED <<record, current>>
  BY DEF ReadTable
<1>3. ReadOn(l)
  BY <1>1, <1>2, Arrives
<1>4. ~cut /\ (~foreign => SavedIsRead)
  BY <1>1 DEF ReadBack
<1>5. ASSUME ~foreign
      PROVE  saved # <<>> /\ LinesBefore(Behind + 1) /\ load = [NoDB EXCEPT !.headers = kept.headers]
  BY <1>1, <1>4, <1>5 DEF SavedIsRead
<1>6. /\ l.text \in Line /\ foreign' = foreign /\ unread' \in Seq(Line) /\ read' \in LinesRead
      /\ atEnd' \in BOOLEAN /\ (foreign => ~cut' /\ unread' = <<>>)
  BY <1>3 DEF ReadOn
<1>7. saved' = saved
  BY <1>2 DEF Refuse, GoTo, file
<1>8. ASSUME Found(l), ~foreign
      PROVE  l.text = TableLine(kept) /\ LinesBefore(Behind + 2)' /\ IsTable(l.text) /\ Len(l.text) > 1
  <2>1. Behind \in Nat /\ saved[Behind + 2] = TableLine(kept) /\ Behind' = Behind
    BY <1>1, <1>2, <1>5, <1>8, SavedLines DEF Refuse, GoTo, file, Behind
  <2>2. PICK k \in Nat : k = Behind
    BY <2>1
  <2>3. l.text = saved[(k + 1) + 1] /\ LinesBefore((k + 1) + 1)'
    BY <1>1, <1>3, <1>5, <1>7, <1>8, <2>2, FoundNext
  <2>4. IsDB(kept) /\ kept.table # <<>>
    BY <1>1, <1>5, <1>8 DEF TypeOK, ReadBack
  <2>5. (k + 1) + 1 = k + 2
    OBVIOUS
  <2> QED  BY <2>1, <2>2, <2>3, <2>4, <2>5, TableLineIs
<1>9. CASE ~Found(l) /\ Refuse("bad_format")
  <2>1. ASSUME ~foreign, ~cut' PROVE \E t \in Range(saved) : TooLong(t)
    <3>1. Behind \in Nat /\ Behind + 1 # Len(saved)
      BY <1>1, <1>5, <2>1, SavedLines
    <3>2. PICK k \in Nat : k = Behind
      BY <3>1
    <3>3. LinesBefore(k + 1) /\ k + 1 # Len(saved)
      BY <1>5, <2>1, <3>1, <3>2
    <3> QED  BY <1>1, <1>3, <1>7, <1>9, <2>1, <3>3, NotFoundBecause
  <2> QED  BY <1>3, <1>9, <2>1, LineRefused
<1>10. CASE Found(l) /\ (~IsTable(l.text) \/ Len(l.text) = 1) /\ Refuse("missing_table_name")
  <2>1. ASSUME ~foreign PROVE FALSE
    <3>1. IsTable(l.text) /\ Len(l.text) > 1
      BY <1>8, <1>10, <2>1
    <3>2. Len(l.text) = 1
      BY <1>10, <3>1
    <3> QED  BY <3>1, <3>2
  <2> QED  BY <1>3, <1>10, <2>1, LineRefused
<1>11. CASE /\ Found(l) /\ IsTable(l.text) /\ Len(l.text) > 1
            /\ load' = [load EXCEPT !.table = Tail(l.text)] /\ live' = live + 1
            /\ GoTo("columns") /\ UNCHANGED <<record, current>>
  <2>1. /\ step' = "columns" /\ db' = db /\ saved' = saved /\ kept' = kept /\ overran' = overran /\ lost' = lost
        /\ record' = record /\ current' = current
        /\ load' = [load EXCEPT !.table = Tail(l.text)] /\ live' = live + 1
    BY <1>11 DEF GoTo, file
  <2>2. IsDB(load) /\ record \in SomeFields /\ current \in Line \cup {NULL, Past} /\ overran \in BOOLEAN /\ live \in Int
    BY <1>1 DEF TypeOK
  <2>3. load.table = <<>> /\ load.records = <<>>
    BY <1>1 DEF LoadOK
  <2>4. IsDB(load') /\ Strings(load') = Strings(load) + 1
    <3>1. Tail(l.text) \in Line /\ Tail(l.text) # <<>>
      BY <1>6, <1>11, TailIs
    <3> QED  BY <2>1, <2>2, <2>3, <3>1, WithTable
  <2>5. load'.records = load.records
    <3>1. load = [headers |-> load.headers, table |-> load.table, records |-> load.records, columns |-> load.columns]
      BY <2>2, DatabaseFields DEF IsDB
    <3> QED  BY <2>1, <3>1
  <2>6. LoadOK' /\ LinesCounted' /\ Reading'
    BY <1>1, <2>1, <2>3, <2>5 DEF LoadOK, LinesCounted, Resting, Reading
  <2>7. ASSUME ~foreign PROVE SavedIsRead'
    <3>1. l.text = TableLine(kept) /\ LinesBefore(Behind + 2)'
      BY <1>8, <1>11, <2>7
    <3>2. Tail(l.text) = kept.table
      <4>1. IsDB(kept) /\ kept.table # <<>>
        BY <1>1, <1>5, <2>7 DEF TypeOK, ReadBack
      <4> QED  BY <3>1, <4>1, TableLineIs
    <3>3. load' = [NoDB EXCEPT !.headers = kept'.headers, !.table = kept'.table]
      BY <1>5, <2>1, <2>7, <3>2
    <3>4. Behind' = Behind
      BY <2>1 DEF Behind
    <3> QED  BY <1>5, <2>1, <2>7, <3>1, <3>3, <3>4 DEF SavedIsRead
  <2>8. live' = live + Strings(load') - Strings(load)
    BY <2>1, <2>2, <2>4, StringsType
  <2> QED  BY <1>1, <1>6, <1>3, <1>11, <2>1, <2>2, <2>4, <2>6, <2>7, <2>8, FoundIsLine, GoesOn DEF ReadOn
<1> QED  BY <1>2, <1>9, <1>10, <1>11

-----------------------------------------------------------------------------
(* Lines of four fields.                                                     *)

\* The rest of a rest.
LEMMA RestOfRest ==
    ASSUME NEW c \in Line, NEW a \in 0 .. Len(c), NEW b \in 0 .. Len(c) - a
    PROVE  Rest(Rest(c, a), b) = Rest(c, a + b)
<1>1. Len(c) \in Nat /\ a + b \in 0 .. Len(c)
  BY LineLength
<1>2. /\ Rest(c, a) \in Line /\ Len(Rest(c, a)) = Len(c) - a
      /\ \A n \in 1 .. Len(c) - a : Rest(c, a)[n] = c[a + n]
  BY RestIs
<1>3. /\ Rest(Rest(c, a), b) \in Line /\ Len(Rest(Rest(c, a), b)) = Len(c) - a - b
      /\ \A n \in 1 .. Len(c) - a - b : Rest(Rest(c, a), b)[n] = Rest(c, a)[b + n]
  BY <1>2, RestIs
<1>4. /\ Rest(c, a + b) \in Line /\ Len(Rest(c, a + b)) = Len(c) - (a + b)
      /\ \A n \in 1 .. Len(c) - (a + b) : Rest(c, a + b)[n] = c[(a + b) + n]
  BY <1>1, RestIs
<1>5. Len(c) - a - b = Len(c) - (a + b)
  BY <1>1
<1>6. ASSUME NEW n \in 1 .. Len(c) - (a + b)
      PROVE  Rest(Rest(c, a), b)[n] = Rest(c, a + b)[n]
  <2>1. n \in 1 .. Len(c) - a - b /\ b + n \in 1 .. Len(c) - a /\ a + (b + n) = (a + b) + n
    BY <1>1, <1>6
  <2> QED  BY <1>2, <1>3, <1>4, <2>1
<1>7. Rest(Rest(c, a), b) \in Seq(Token) /\ Rest(c, a + b) \in Seq(Token)
  BY <1>3, <1>4 DEF Line
<1> QED  BY <1>3, <1>4, <1>5, <1>6, <1>7, SeqEqual, Zenon

\* The first of a sequence.
LEMMA FirstOnly ==
    ASSUME NEW S, NEW s \in Seq(S), Len(s) > 0
    PROVE  SubSeq(s, 1, 1) = <<s[1]>>
<1>1. Len(s) \in Nat /\ s[1] \in S
  OBVIOUS
<1>2. SubSeq(s, 1, 1) \in Seq(S) /\ Len(SubSeq(s, 1, 1)) = 1 /\ SubSeq(s, 1, 1)[1] = s[1]
  BY <1>1
<1>3. <<s[1]>> \in Seq(S) /\ Len(<<s[1]>>) = 1 /\ <<s[1]>>[1] = s[1]
  BY <1>1
<1>4. \A n \in 1 .. 1 : n = 1
  OBVIOUS
<1> QED  BY <1>2, <1>3, <1>4, SeqEqual, Zenon

\* Four tokens, with commas between them.
FourFields(c) ==
    /\ c \in Line /\ Len(c) = 7
    /\ \A n \in {2, 4, 6} : c[n] = Comma
    /\ \A n \in {1, 3, 5, 7} : c[n] # Comma

\* The line of the columns, and the line of a record.
LEMMA LinesOfFour ==
    /\ FourFields(ColumnLine)
    /\ \A i \in IDs, r \in Held : FourFields(RecordLine(i, r))
<1>1. FourFields(ColumnLine)
  BY ColumnLineIs DEF FourFields, Comma
<1>2. ASSUME NEW i \in IDs, NEW r \in Held PROVE FourFields(RecordLine(i, r))
  <2>1. i # Comma /\ r.name # Comma /\ r.programme # Comma /\ r.mark # Comma
    BY HeldIs, TextsAssumption
  <2> QED  BY <2>1, RecordLineIs DEF FourFields
<1> QED  BY <1>1, <1>2

\* One field of them, in a rest.
LEMMA SplitOfFour ==
    ASSUME NEW c, FourFields(c), NEW k \in 0 .. 3
    PROVE  /\ Rest(c, 2 * k) \in Line
           /\ k < 3 => SplitNext(Rest(c, 2 * k), Comma) = [sub |-> <<c[2 * k + 1]>>, current |-> Rest(c, 2 * (k + 1))]
           /\ k = 3 => SplitNext(Rest(c, 2 * k), Comma) = [sub |-> <<c[7]>>, current |-> NULL]
<1> DEFINE d == Rest(c, 2 * k)
           a == 2 * k
<1>1. c \in Line /\ Len(c) = 7 /\ a \in 0 .. Len(c)
  BY DEF FourFields
<1>2. d \in Line /\ Len(d) = 7 - a /\ \A n \in 1 .. 7 - a : d[n] = c[a + n]
  BY <1>1, RestIs
<1>3. d[1] = c[a + 1] /\ c[a + 1] # Comma
  BY <1>1, <1>2 DEF FourFields
<1>4. d \in Seq(Token)
  BY <1>2 DEF Line
<1>5. CASE k < 3
  <2>1. FirstComma(d, 2)
    <3>1. 2 \in 1 .. Len(d) /\ d[2] = c[a + 2] /\ a + 2 \in {2, 4, 6}
      BY <1>2, <1>5
    <3>2. c[a + 2] = Comma
      BY <3>1 DEF FourFields
    <3>3. \A n \in 1 .. 2 - 1 : n = 1
      OBVIOUS
    <3> HIDE DEF d, a
    <3> QED  BY <1>3, <3>1, <3>2, <3>3 DEF FirstComma
  <2>2. Rest(d, 2) = Rest(c, 2 * (k + 1))
    <3>1. 2 \in 0 .. Len(c) - a /\ a + 2 = 2 * (k + 1)
      BY <1>1, <1>5
    <3>2. Rest(d, 2) = Rest(c, a + 2)
      BY <1>1, <3>1, RestOfRest
    <3> QED  BY <3>1, <3>2
  <2>3. SubSeq(d, 1, 2 - 1) = <<d[1]>>
    <3> HIDE DEF d
    <3>1. Len(d) \in Nat /\ Len(d) > 0 /\ 2 - 1 = 1
      BY <1>2, <1>5
    <3>2. SubSeq(d, 1, 1) = <<d[1]>>
      BY <1>4, <3>1, FirstOnly
    <3> QED  BY <3>1, <3>2
  <2>4. SplitNext(d, Comma) = [sub |-> SubSeq(d, 1, 2 - 1), current |-> Rest(d, 2)]
    BY <1>2, <2>1, SplitAtComma
  <2> QED  BY <1>2, <1>3, <1>5, <2>2, <2>3, <2>4
<1>6. CASE k = 3
  <2>1. a = 6 /\ Len(d) = 1 /\ d[1] = c[7]
    BY <1>2, <1>3, <1>6
  <2>2. Commas(d) = {}
    <3>1. \A n \in 1 .. 1 : n = 1
      OBVIOUS
    <3>2. Commas(d) = {n \in 1 .. 1 : d[n] = Comma}
      BY <1>2, <2>1, CommasAre
    <3> HIDE DEF d, a
    <3> QED  BY <1>3, <3>1, <3>2
  <2>3. d = <<c[7]>>
    <3> HIDE DEF d
    <3> QED  BY <1>4, <2>1
  <2>4. SplitNext(d, Comma) = [sub |-> d, current |-> NULL]
    BY <1>2, <2>2, SplitAtEnd
  <2> QED  BY <1>2, <1>6, <2>3, <2>4
<1> QED  BY <1>5, <1>6

\* Nothing is cut off.
LEMMA RestOfNone ==
    ASSUME NEW c \in Line
    PROVE  Rest(c, 0) = c
<1>1. Len(c) \in Nat /\ 0 \in 0 .. Len(c)
  BY LineLength
<1>2. /\ Rest(c, 0) \in Line /\ Len(Rest(c, 0)) = Len(c) - 0
      /\ \A n \in 1 .. Len(c) - 0 : Rest(c, 0)[n] = c[0 + n]
  BY <1>1, RestIs
<1>3. Len(c) - 0 = Len(c)
  BY <1>1
<1>4. \A n \in 1 .. Len(c) : Rest(c, 0)[n] = c[n]
  <2> SUFFICES ASSUME NEW n \in 1 .. Len(c) PROVE Rest(c, 0)[n] = c[n]
    OBVIOUS
  <2>1. 0 + n = n
    OBVIOUS
  <2> QED  BY <1>2, <1>3, <2>1
<1>5. Rest(c, 0) \in Seq(Token) /\ c \in Seq(Token)
  BY <1>2 DEF Line
<1> QED  BY <1>2, <1>3, <1>4, <1>5, SeqEqual, Zenon

\* The four names.
LEMMA NamesAre ==
    ASSUME NEW c, FourFields(c)
    PROVE  Names(c) = << <<c[1]>>, <<c[3]>>, <<c[5]>>, <<c[7]>> >>
<1>1. c \in Line
  BY DEF FourFields
<1>2. SplitNext(c, Comma) = [sub |-> <<c[1]>>, current |-> Rest(c, 2)]
  <2>1. 0 \in 0 .. 3 /\ 0 < 3 /\ 2 * 0 = 0 /\ 0 + 1 = 1 /\ 2 * (0 + 1) = 2
    OBVIOUS
  <2>2. SplitNext(Rest(c, 0), Comma) = [sub |-> <<c[1]>>, current |-> Rest(c, 2)]
    BY <2>1, SplitOfFour
  <2> QED  BY <1>1, <2>2, RestOfNone
<1>3. SplitNext(Rest(c, 2), Comma) = [sub |-> <<c[3]>>, current |-> Rest(c, 4)]
  <2>1. 1 \in 0 .. 3 /\ 1 < 3 /\ 2 * 1 = 2 /\ 2 + 1 = 3 /\ 2 * (1 + 1) = 4
    OBVIOUS
  <2> QED  BY <2>1, SplitOfFour
<1>4. SplitNext(Rest(c, 4), Comma) = [sub |-> <<c[5]>>, current |-> Rest(c, 6)]
  <2>1. 2 \in 0 .. 3 /\ 2 < 3 /\ 2 * 2 = 4 /\ 4 + 1 = 5 /\ 2 * (2 + 1) = 6
    OBVIOUS
  <2> QED  BY <2>1, SplitOfFour
<1>5. SplitNext(Rest(c, 6), Comma) = [sub |-> <<c[7]>>, current |-> NULL]
  <2>1. 3 \in 0 .. 3 /\ 2 * 3 = 6
    OBVIOUS
  <2> QED  BY <2>1, SplitOfFour
<1> QED  BY <1>2, <1>3, <1>4, <1>5 DEF Names

\* What DB_to_file writes of the columns is read as they are.
LEMMA ColumnLineRead ==
    AreColumns(ColumnLine) /\ [n \in 1 .. 4 |-> Names(ColumnLine)[n][1]] = InOrderOfColumns
<1>1. Names(ColumnLine) = << <<"ID">>, <<"Name">>, <<"Programme">>, <<"Mark">> >>
  BY NamesAre, LinesOfFour, ColumnLineIs
<1>2. /\ Names(ColumnLine)[1] = <<"ID">> /\ Names(ColumnLine)[2] = <<"Name">>
      /\ Names(ColumnLine)[3] = <<"Programme">> /\ Names(ColumnLine)[4] = <<"Mark">>
  BY <1>1
<1>3. \A n \in 1 .. 4 : n = 1 \/ n = 2 \/ n = 3 \/ n = 4
  OBVIOUS
<1>4. 1 \in 1 .. 4 /\ 2 \in 1 .. 4 /\ 3 \in 1 .. 4 /\ 4 \in 1 .. 4
  OBVIOUS
<1>5. {Names(ColumnLine)[n] : n \in 1 .. 4} = {<<"ID">>, <<"Name">>, <<"Programme">>, <<"Mark">>}
  BY <1>2, <1>3, <1>4, Zenon
<1>6. {<<c>> : c \in Column} = {<<"ID">>, <<"Name">>, <<"Programme">>, <<"Mark">>}
  BY Zenon DEF Column
<1>7. [n \in 1 .. 4 |-> Names(ColumnLine)[n][1]] = InOrderOfColumns
  BY <1>2 DEF InOrderOfColumns
<1> QED  BY <1>5, <1>6, <1>7 DEF AreColumns

\* The last line read.
LEMMA LastRead ==
    ASSUME NEW r \in LinesRead, NEW l \in [text : Line, ended : BOOLEAN]
    PROVE  Last(Append(r, l)) = l
BY DEF Last, LinesRead

\* The next of a line, and its commas.
LEMMA SplitCounts ==
    ASSUME NEW c \in Line
    PROVE  LET rest == SplitNext(c, Comma).current IN
           \/ CommasIn(c) = 0 /\ rest = NULL
           \/ rest \in Line /\ CommasIn(c) = CommasIn(rest) + 1
<1>1. CASE Commas(c) = {}
  BY <1>1, SplitAtEnd, NoCommas
<1>2. CASE \E m : FirstComma(c, m)
  <2>1. PICK m : FirstComma(c, m)
    BY <1>2
  <2> QED  BY <2>1, SplitAtComma, CommasOfRest
<1> QED  BY <1>1, <1>2, HasFirstComma

\* What string_split_next returns of a line is not NULL.
LEMMA SplitIsSomething ==
    ASSUME NEW c \in Line
    PROVE  SplitNext(c, Comma).sub # NULL
<1>1. CASE Commas(c) = {}
  BY <1>1, SplitAtEnd, LineIsSomething
<1>2. CASE \E m : FirstComma(c, m)
  <2>1. PICK m : FirstComma(c, m)
    BY <1>2
  <2>2. m \in 1 .. Len(c) /\ Len(c) \in Nat /\ \A n \in 1 .. Len(c) : c[n] \in Token
    BY <2>1, LineLength DEF FirstComma, Line
  <2>3. m - 1 \in Int /\ \A n \in 1 .. m - 1 : c[n] \in Token
    BY <2>2
  <2>4. SubSeq(c, 1, m - 1) \in Line
    BY <2>2, <2>3, SubSeqProperties DEF Line
  <2>5. PICK before, behind : before = SubSeq(c, 1, m - 1) /\ behind = Rest(c, m)
    OBVIOUS
  <2>6. SplitNext(c, Comma) = [sub |-> before, current |-> behind]
    BY <2>1, <2>5, SplitAtComma
  <2>7. SplitNext(c, Comma).sub = before
    BY <2>6
  <2>8. before # NULL
    BY <2>4, <2>5, LineIsSomething
  <2> QED  BY <2>7, <2>8
<1> QED  BY <1>1, <1>2, HasFirstComma

\* A line in which a column is looked for behind its end has fewer than three commas.
LEMMA LackingIsShort ==
    ASSUME NEW c \in Line, LacksColumn(c)
    PROVE  CommasIn(c) < 3
<1> DEFINE d == SplitNext(c, Comma).current
           e == SplitNext(d, Comma).current
           f == SplitNext(e, Comma).current
<1>1. Names(c) = <<SplitNext(c, Comma).sub, SplitNext(d, Comma).sub, SplitNext(e, Comma).sub,
                   SplitNext(f, Comma).sub>>
  BY Zenon DEF Names
<1>2. PICK n \in 1 .. 4 : Names(c)[n] = NULL
  BY DEF LacksColumn
<1>3. CommasIn(c) = 0 \/ (d \in Line /\ CommasIn(c) = CommasIn(d) + 1)
  BY SplitCounts
<1>4. d \in Line => CommasIn(d) = 0 \/ (e \in Line /\ CommasIn(d) = CommasIn(e) + 1)
  BY SplitCounts
<1>5. e \in Line => CommasIn(e) = 0 \/ (f \in Line /\ CommasIn(e) = CommasIn(f) + 1)
  BY SplitCounts
<1>6. /\ SplitNext(c, Comma).sub # NULL
      /\ d \in Line => SplitNext(d, Comma).sub # NULL
      /\ e \in Line => SplitNext(e, Comma).sub # NULL
      /\ f \in Line => SplitNext(f, Comma).sub # NULL
  BY SplitIsSomething
<1> HIDE DEF d, e, f
<1>7. n = 1 \/ n = 2 \/ n = 3 \/ n = 4
  OBVIOUS
<1>8. ~(d \in Line /\ e \in Line /\ f \in Line)
  BY <1>1, <1>2, <1>6, <1>7
<1> QED  BY <1>3, <1>4, <1>5, <1>8

\* No column is looked for behind four columns.
LEMMA ColumnsLackNone ==
    ASSUME NEW c, AreColumns(c)
    PROVE  ~LacksColumn(c)
<1>1. ASSUME NEW n \in 1 .. 4, Names(c)[n] = NULL PROVE FALSE
  <2>1. PICK col \in Column : Names(c)[n] = <<col>>
    BY DEF AreColumns
  <2>2. NULL[1] = col /\ col \in Token
    BY <1>1, <2>1 DEF Token
  <2> QED  BY <2>2, NoTokenAssumption
<1> QED  BY <1>1 DEF LacksColumn

\* The line of the columns.
LEMMA ReadColumnsHolds == ASSUME DInv, ReadColumns PROVE DInv'
<1>1. TypeOK /\ LoadOK /\ ReadBack /\ step = "columns" /\ Reading
  BY DEF DInv, ReadColumns, Reading
<1>2. PICK l \in Arriving :
         /\ NextRead(l)
         /\ \/ ~Found(l) /\ Refuse("bad_format")
            \/ Found(l) /\ LacksColumn(l.text) /\ Crash
            \/ Found(l) /\ ~LacksColumn(l.text) /\ ~AreColumns(l.text) /\ Refuse("bad_column")
            \/ /\ Found(l) /\ AreColumns(l.text)
               /\ load' = [load EXCEPT !.columns = [n \in 1 .. 4 |-> Names(l.text)[n][1]]]
               /\ GoTo("records") /\ UNCHANGED <<record, current, live>>
  BY DEF ReadColumns
<1>3. ReadOn(l)
  BY <1>1, <1>2, Arrives
<1>4. ~cut /\ (~foreign => SavedIsRead)
  BY <1>1 DEF ReadBack
<1>5. ASSUME ~foreign
      PROVE  /\ saved # <<>> /\ LinesBefore(Behind + 2)
             /\ load = [NoDB EXCEPT !.headers = kept.headers, !.table = kept.table]
  BY <1>1, <1>4, <1>5 DEF SavedIsRead
<1>6. /\ l.text \in Line /\ foreign' = foreign /\ unread' \in Seq(Line) /\ read' \in LinesRead
      /\ atEnd' \in BOOLEAN /\ (foreign => ~cut' /\ unread' = <<>>)
  BY <1>3 DEF ReadOn
<1>7. saved' = saved /\ kept' = kept
  BY <1>2 DEF Refuse, GoTo, Crash, file
<1>8. ASSUME Found(l), ~foreign
      PROVE  l.text = ColumnLine /\ LinesBefore(Behind + 3)'
  <2>1. Behind \in Nat /\ saved[Behind + 3] = ColumnLine /\ Behind' = Behind
    BY <1>1, <1>5, <1>7, <1>8, SavedLines DEF Behind
  <2>2. PICK k \in Nat : k = Behind
    BY <2>1
  <2>3. l.text = saved[(k + 2) + 1] /\ LinesBefore((k + 2) + 1)'
    BY <1>1, <1>3, <1>5, <1>7, <1>8, <2>2, FoundNext
  <2>4. (k + 2) + 1 = k + 3
    OBVIOUS
  <2> QED  BY <2>1, <2>2, <2>3, <2>4
<1>9. CASE ~Found(l) /\ Refuse("bad_format")
  <2>1. ASSUME ~foreign, ~cut' PROVE \E t \in Range(saved) : TooLong(t)
    <3>1. Behind \in Nat /\ Behind + 2 # Len(saved)
      BY <1>1, <1>5, <2>1, SavedLines
    <3>2. PICK k \in Nat : k = Behind
      BY <3>1
    <3>3. LinesBefore(k + 2) /\ k + 2 # Len(saved)
      BY <1>5, <2>1, <3>1, <3>2
    <3> QED  BY <1>1, <1>3, <1>7, <1>9, <2>1, <3>3, NotFoundBecause
  <2> QED  BY <1>3, <1>9, <2>1, LineRefused
<1>10. CASE Found(l) /\ ~AreColumns(l.text) /\ Refuse("bad_column")
  <2>1. ASSUME ~foreign PROVE FALSE
    BY <1>8, <1>10, <2>1, ColumnLineRead
  <2> QED  BY <1>3, <1>10, <2>1, LineRefused
<1>11. CASE Found(l) /\ LacksColumn(l.text) /\ Crash
  <2>1. foreign
    <3>1. ASSUME ~foreign PROVE FALSE
      BY <1>8, <1>11, <3>1, ColumnLineRead, ColumnsLackNone
    <3> QED  BY <3>1
  <2>2. l \in [text : Line, ended : BOOLEAN] /\ read' = Append(read, l) /\ ~cut'
    BY <1>3, <1>11, FoundIsLine DEF ReadOn
  <2>3. Last(read') = l
    BY <1>1, <2>2, LastRead DEF TypeOK, LinesRead
  <2>4. CommasIn(Last(read').text) < 3
    BY <1>6, <1>11, <2>3, LackingIsShort
  <2> QED  BY <1>6, <1>11, <2>1, <2>2, <2>4, CrashHolds
<1>12. CASE /\ Found(l) /\ AreColumns(l.text)
            /\ load' = [load EXCEPT !.columns = [n \in 1 .. 4 |-> Names(l.text)[n][1]]]
            /\ GoTo("records") /\ UNCHANGED <<record, current, live>>
  <2> DEFINE names == [n \in 1 .. 4 |-> Names(l.text)[n][1]]
  <2>1. /\ step' = "records" /\ db' = db /\ saved' = saved /\ kept' = kept /\ overran' = overran /\ lost' = lost
        /\ record' = record /\ current' = current /\ live' = live
        /\ load' = [load EXCEPT !.columns = names]
    BY <1>12 DEF GoTo, file
  <2>2. IsDB(load) /\ record \in SomeFields /\ current \in Line \cup {NULL, Past} /\ overran \in BOOLEAN /\ live \in Int
    BY <1>1 DEF TypeOK
  <2>3. InAnyOrder(names) /\ names \in Seq(Column)
    BY <1>12, ColumnsFound
  <2>4. ASSUME ~foreign PROVE names = InOrderOfColumns
    BY <1>8, <1>12, <2>4, ColumnLineRead
  <2> HIDE DEF names
  <2>5. IsDB(load') /\ Strings(load') = Strings(load)
    BY <2>1, <2>2, <2>3, WithColumns
  <2>6. load = [headers |-> load.headers, table |-> load.table, records |-> load.records, columns |-> load.columns]
    BY <2>2, DatabaseFields DEF IsDB
  <2>7. load'.columns = names
    BY <2>1, <2>6
  <2>8. LoadOK' /\ LinesCounted' /\ Reading'
    BY <2>1, <2>3, <2>7 DEF LoadOK, LinesCounted, Resting, Reading
  <2>9. ASSUME ~foreign PROVE SavedIsRead'
    <3>1. LinesBefore(Behind + 3)' /\ Behind' = Behind /\ Len(KeptOrder) \in Nat /\ KeptOrder' = KeptOrder /\ Behind \in Nat
      BY <1>1, <1>5, <1>8, <1>12, <2>1, <2>9, SavedLines, KeptStays
    <3>2. FirstRecords(0) = <<>>
      <4>1. {KeptOrder[n] : n \in 1 .. 0} = {}
        OBVIOUS
      <4> QED  BY <4>1 DEF FirstRecords
    <3>3. load' = Loaded(0)
      BY <1>5, <2>1, <2>4, <2>9, <3>2 DEF Loaded, NoDB
    <3>4. load' = Loaded(0)'
      BY <2>1, <3>3, KeptStays
    <3>5. Behind + 3 + 0 = Behind + 3 /\ 0 \in 0 .. Len(KeptOrder)
      BY <3>1
    <3>6. LinesBefore(Behind + 3 + 0)'
      BY <3>1, <3>5
    <3>7. \E m \in 0 .. Len(KeptOrder)' : LinesBefore(Behind + 3 + m)' /\ (load = Loaded(m))'
      BY <3>1, <3>4, <3>5, <3>6
    <3> QED  BY <1>5, <2>1, <2>9, <3>7 DEF SavedIsRead
  <2>10. live' = live + Strings(load') - Strings(load)
    BY <2>1, <2>2, <2>5, StringsType
  <2> QED  BY <1>1, <1>6, <1>3, <1>12, <2>1, <2>2, <2>5, <2>8, <2>9, <2>10, FoundIsLine, GoesOn DEF ReadOn
<1> QED  BY <1>2, <1>9, <1>10, <1>11, <1>12

-----------------------------------------------------------------------------
(* Records.                                                                  *)

\* A line without a token is not too long.
LEMMA BlankIsShort == ~TooLong(<<>>)
<1> DEFINE wide == {i \in DOMAIN <<>> : <<>>[i] \in Wide}
<1>1. wide = {}
  BY NoRecords
<1>2. ~TooLong(<<>>) <=> ~(Cardinality(wide) > 1)
  BY DEF TooLong
<1> HIDE DEF wide
<1>3. Cardinality(wide) = 0
  BY <1>1, FS_EmptySet
<1> QED  BY <1>2, <1>3

\* Nothing is taken of a record yet.
LEMMA NothingTaken ==
    ASSUME record' = <<>>, load' = load
    PROVE  FieldsInOrder' /\ Taken' = 0 /\ record' \in SomeFields
<1>1. DOMAIN record' = {} /\ Taken' = 0
  BY NoRecords DEF Taken
<1>2. {load'.columns[n] : n \in 1 .. 0} = {}
  OBVIOUS
<1>3. DOMAIN record' = {load'.columns[n] : n \in 1 .. Taken'}
  BY <1>1, <1>2
<1>4. Taken' \in 0 .. 4
  BY <1>1
<1>5. FieldsInOrder'
  BY <1>1, <1>3, <1>4 DEF FieldsInOrder
<1>6. <<>> \in [{} -> Token] /\ {} \in SUBSET Column
  OBVIOUS
<1>7. record' \in SomeFields
  BY <1>6 DEF SomeFields
<1> QED  BY <1>1, <1>5, <1>7

\* The records that were saved.
LEMMA KeptOrderIs ==
    ASSUME TypeOK
    PROVE  /\ KeptOrder \in Seq(IDs) /\ Len(KeptOrder) \in Nat
           /\ \A n \in 1 .. Len(KeptOrder) :
                 /\ KeptOrder[n] \in IDs /\ KeptOrder[n] \in DOMAIN kept.records
                 /\ kept.records[KeptOrder[n]] \in Held
<1>1. /\ DOMAIN kept.records \subseteq IDs /\ IsFiniteSet(DOMAIN kept.records)
      /\ \A i \in DOMAIN kept.records : kept.records[i] \in Held
  BY DatabaseType DEF TypeOK
<1>2. KeptOrder \in Seq(IDs) /\ \A n \in 1 .. Len(KeptOrder) : KeptOrder[n] \in DOMAIN kept.records
  BY <1>1, InOrderLists DEF KeptOrder
<1>3. Len(KeptOrder) \in Nat
  BY <1>2
<1> QED  BY <1>1, <1>2, <1>3

\* A row without a column.
LEMMA EmptyRow ==
    ASSUME NEW S, S = {}, NEW row
    PROVE  [c \in S |-> row[c]] = <<>>
OBVIOUS

\* A line is found where a record may be.
LEMMA RecordBegins ==
    ASSUME DInv, step = "records", NEW l, ReadOn(l), Found(l),
           current' = l.text, record' = <<>>, GoTo("fields"), UNCHANGED <<load, live>>
    PROVE  DInv'
<1>1. TypeOK /\ LoadOK /\ ReadBack /\ Reading
  BY DEF DInv, Reading
<1>2. ~cut /\ (~foreign => SavedIsRead)
  BY <1>1 DEF ReadBack
<1>3. /\ step' = "fields" /\ db' = db /\ saved' = saved /\ kept' = kept /\ overran' = overran /\ lost' = lost
      /\ record' = <<>> /\ current' = l.text /\ load' = load /\ live' = live
  BY DEF GoTo, file
<1>4. /\ l.text \in Line /\ l \in [text : Line, ended : BOOLEAN] /\ l # EndOfFile
      /\ foreign' = foreign /\ read' = Append(read, l) /\ atEnd' \in BOOLEAN /\ ~cut'
  BY FoundIsLine DEF ReadOn
<1>5. FieldsInOrder' /\ Taken' = 0 /\ record' \in SomeFields
  BY <1>3, NothingTaken
<1>6. LoadOK'
  BY <1>1, <1>3, <1>5 DEF LoadOK, Resting
<1>7. LinesCounted'
  <2>1. Last(read') = l
    BY <1>1, <1>4, LastRead DEF TypeOK, LinesRead
  <2>2. current' \notin {NULL, Past}
    BY <1>3, <1>4, LineIsSomething
  <2>3. CommasIn(l.text) = 0 + CommasIn(l.text)
    BY <1>4, CommasFinite
  <2>4. Counted'
    BY <1>3, <1>5, <2>1, <2>2, <2>3, Zenon DEF Counted
  <2> QED  BY <1>3, <2>4 DEF LinesCounted
<1>8. ASSUME ~foreign PROVE SavedIsRead'
  <2>1. /\ saved # <<>>
        /\ \E m \in 0 .. Len(KeptOrder) : LinesBefore(Behind + 3 + m) /\ load = Loaded(m)
    BY <1>2, <1>8 DEF SavedIsRead
  <2>2. PICK m \in 0 .. Len(KeptOrder) : LinesBefore(Behind + 3 + m) /\ load = Loaded(m)
    BY <2>1
  <2>3. /\ Behind \in Nat /\ Len(KeptOrder) \in Nat
        /\ Len(saved) = Behind + 3 + Len(KeptOrder)
        /\ \A n \in 1 .. Len(KeptOrder) :
              saved[Behind + 3 + n] = RecordLine(KeptOrder[n], kept.records[KeptOrder[n]])
    BY <1>1, <2>1, SavedLines
  <2>4. PICK k \in Nat : k = Behind + 3 + m
    BY <2>2, <2>3
  <2>5. k < Len(saved) /\ l.text = saved[k + 1] /\ LinesBefore(k + 1)'
    BY <1>1, <1>3, <1>8, <2>2, <2>4, FoundNext
  <2>6. m + 1 \in 1 .. Len(KeptOrder) /\ k + 1 = Behind + 3 + (m + 1) /\ (m + 1) - 1 = m
    BY <2>2, <2>3, <2>4, <2>5
  <2>7. PICK i, r : i = KeptOrder[m + 1] /\ r = kept.records[i]
    OBVIOUS
  <2>8. i \in IDs /\ r \in Held /\ l.text = RecordLine(i, r)
    BY <1>1, <2>3, <2>5, <2>6, <2>7, KeptOrderIs
  <2>9. TakenOf(0, i)'
    <3>1. current' = Rest(RecordLine(i, r), 2 * 0)
      <4>1. RecordLine(i, r) \in Line /\ 2 * 0 = 0
        BY <2>8, RecordLineIs
      <4> QED  BY <1>3, <2>8, <4>1, RestOfNone
    <3>2. record' = [c \in {InOrderOfColumns[n] : n \in 1 .. 0} |-> Row(i)'[c]]
      <4>1. {InOrderOfColumns[n] : n \in 1 .. 0} = {}
        OBVIOUS
      <4>2. [c \in {InOrderOfColumns[n] : n \in 1 .. 0} |-> Row(i)'[c]] = <<>>
        BY <4>1, EmptyRow
      <4> QED  BY <1>3, <4>2, Zenon
    <3>3. SavedLine(i)' = RecordLine(i, r) /\ 0 < 4
      BY <1>3, <2>7 DEF SavedLine
    <3> QED  BY <3>1, <3>2, <3>3, Zenon DEF TakenOf
  <2>10. Loaded(m)' = Loaded(m) /\ KeptOrder' = KeptOrder /\ Behind' = Behind
    BY <1>3, KeptStays
  <2>11. \E n \in 1 .. Len(KeptOrder)' :
            LinesBefore(Behind + 3 + n)' /\ (load = Loaded(n - 1))' /\ \E j \in 0 .. 4 : TakenOf(j, KeptOrder[n])'
    BY <1>3, <2>2, <2>4, <2>5, <2>6, <2>7, <2>9, <2>10
  <2> QED  BY <1>3, <2>1, <2>11 DEF SavedIsRead
<1>9. IsDB(load) /\ Strings(load) \in Int /\ live \in Int /\ overran \in BOOLEAN
  BY <1>1, StringsType DEF TypeOK
<1>10. Reading'
  BY <1>3 DEF Reading
<1>11. unread' \in Seq(Line) /\ read' \in LinesRead /\ (foreign => unread' = <<>>)
  BY DEF ReadOn
<1>12. live' = live + Strings(load') - Strings(load)
  BY <1>3, <1>9
<1> QED  BY <1>1, <1>3, <1>4, <1>5, <1>6, <1>7, <1>8, <1>9, <1>10, <1>11, <1>12, GoesOn

\* The records are read.
LEMMA FileEnds ==
    ASSUME DInv, step = "records", NEW l, ReadOn(l), ~Found(l), l.text = <<>>,
           db' = [load EXCEPT !.columns = <<>>], live' = live - Strings(db),
           load' = NoDB, record' = <<>>, current' = NULL, step' = "opened",
           UNCHANGED <<file, err, overran, lost>>
    PROVE  DInv'
<1>1. TypeOK /\ LoadOK /\ ReadBack /\ StringsOwned /\ Reading
  BY DEF DInv, Reading
<1>2. ~cut /\ (~foreign => SavedIsRead)
  BY <1>1 DEF ReadBack
<1>3. saved' = saved /\ kept' = kept /\ err' = err /\ overran' = overran /\ lost' = lost
  BY DEF file
<1>4. /\ foreign' = foreign /\ unread' \in Seq(Line) /\ read' \in LinesRead /\ atEnd' \in BOOLEAN
      /\ foreign => ~cut' /\ unread' = <<>>
  BY DEF ReadOn
<1>5. /\ IsDB(db) /\ IsDB(load) /\ Strings(db) \in Int /\ Strings(load) \in Int /\ live \in Int /\ lost \in Int
  BY <1>1, StringsType DEF TypeOK
<1>6. IsDB(db') /\ Strings(db') = Strings(load)
  <2>1. <<>> \in Seq(Column)
    OBVIOUS
  <2> QED  BY <1>5, <2>1, WithColumns
<1>7. db'.columns = <<>>
  <2>1. load = [headers |-> load.headers, table |-> load.table, records |-> load.records, columns |-> load.columns]
    BY <1>5, DatabaseFields DEF IsDB
  <2> QED  BY <2>1
<1>8. TypeOK'
  <2>1. IsDB(db') /\ IsDB(kept') /\ IsDB(load') /\ saved' \in Seq(Line) /\ unread' \in Seq(Line)
    BY <1>1, <1>3, <1>4, <1>6, NoDBIsDB DEF TypeOK
  <2>2. read' \in Seq([text : Line, ended : BOOLEAN])
    BY <1>4 DEF LinesRead
  <2>3. record' \in SomeFields
    <3>1. <<>> \in [{} -> Token]
      OBVIOUS
    <3> QED  BY <3>1 DEF SomeFields
  <2>4. current' \in Line \cup {NULL, Past}
    OBVIOUS
  <2>5. foreign' \in BOOLEAN /\ atEnd' \in BOOLEAN /\ overran' \in BOOLEAN
    BY <1>1, <1>3, <1>4 DEF TypeOK
  <2>6. live' \in Int /\ lost' \in Int
    BY <1>3, <1>5
  <2>7. Resting'
    BY DEF Resting
  <2> QED  BY <2>1, <2>2, <2>3, <2>4, <2>5, <2>6, <2>7 DEF TypeOK
<1>9. LoadOK' /\ LinesCounted'
  BY DEF LoadOK, LinesCounted
<1>10. StringsOwned'
  <2>1. live = Strings(db) + Strings(load) + lost
    BY <1>1 DEF StringsOwned
  <2>2. live' = Strings(load) + 0 + lost
    BY <1>5, <2>1
  <2> QED  BY <1>3, <1>6, <2>2, NoDBIsDB DEF StringsOwned
<1>11. ASSUME ~foreign
       PROVE  \E m \in 0 .. Len(KeptOrder) :
                 /\ db' = [kept EXCEPT !.records = FirstRecords(m)]
                 /\ ~cut' => m = Len(KeptOrder)
  <2>1. /\ saved # <<>>
        /\ \E m \in 0 .. Len(KeptOrder) : LinesBefore(Behind + 3 + m) /\ load = Loaded(m)
    BY <1>2, <1>11 DEF SavedIsRead
  <2>2. PICK m \in 0 .. Len(KeptOrder) : LinesBefore(Behind + 3 + m) /\ load = Loaded(m)
    BY <2>1
  <2>3. db' = [kept EXCEPT !.records = FirstRecords(m)]
    <3>1. kept.columns = <<>> /\ IsDB(kept)
      BY <1>1, <2>1 DEF TypeOK, ReadBack
    <3>2. kept = [headers |-> kept.headers, table |-> kept.table, records |-> kept.records, columns |-> <<>>]
      BY <3>1, DatabaseFields DEF IsDB
    <3> QED  BY <2>2, <3>2 DEF Loaded
  <2>4. ASSUME ~cut' PROVE m = Len(KeptOrder)
    <3>1. l = EndOfFile
      <4>1. CASE l # EndOfFile
        <5>1. l.ended
          BY <1>11, <4>1 DEF ReadOn
        <5> QED  BY <5>1, BlankIsShort DEF Found
      <4> QED  BY <4>1
    <3>2. unread = <<>>
      BY <2>4, <3>1 DEF ReadOn
    <3>3. /\ Behind \in Nat /\ Len(KeptOrder) \in Nat /\ saved \in Seq(Line)
          /\ Len(saved) = Behind + 3 + Len(KeptOrder)
      BY <1>1, <2>1, SavedLines
    <3>4. Behind + 3 + m = Len(saved)
      BY <2>2, <3>2, <3>3, AllLinesRead
    <3> QED  BY <2>2, <3>3, <3>4
  <2> QED  BY <2>2, <2>3, <2>4
<1>12. ReadBack'
  <2>1. saved' # <<>> => saved' = Lines(kept') /\ kept'.table # <<>> /\ kept'.columns = <<>>
    BY <1>1, <1>3 DEF ReadBack
  <2>2. (foreign' => saved' = <<>> /\ unread' = <<>>) /\ (cut' => ~foreign')
    BY <1>1, <1>3, <1>4 DEF ReadBack
  <2>3. ~foreign' => \E m \in 0 .. Len(KeptOrder)' :
                        /\ db' = [kept' EXCEPT !.records = FirstRecords(m)']
                        /\ ~cut' => m = Len(KeptOrder)'
    <3>1. KeptOrder' = KeptOrder /\ \A m : FirstRecords(m)' = FirstRecords(m)
      BY <1>3, KeptStays
    <3> QED  BY <1>3, <1>4, <1>11, <3>1
  <2>4. ~Reading' /\ step' # "refused"
    BY DEF Reading
  <2> QED  BY <1>7, <2>1, <2>2, <2>3, <2>4, Zenon DEF ReadBack
<1> QED  BY <1>8, <1>9, <1>10, <1>12 DEF DInv

\* The line of a record, or the end of the file.
LEMMA ReadRecordHolds == ASSUME DInv, ReadRecord PROVE DInv'
<1>1. TypeOK /\ LoadOK /\ ReadBack /\ step = "records" /\ Reading
  BY DEF DInv, ReadRecord, Reading
<1>2. PICK l \in Arriving :
         /\ NextRead(l)
         /\ \/ /\ Found(l)
               /\ current' = l.text /\ record' = <<>>
               /\ GoTo("fields") /\ UNCHANGED <<load, live>>
            \/ ~Found(l) /\ l.text # <<>> /\ Refuse("bad_format")
            \/ /\ ~Found(l) /\ l.text = <<>>
               /\ db' = [load EXCEPT !.columns = <<>>]
               /\ live' = live - Strings(db)
               /\ load' = NoDB /\ record' = <<>> /\ current' = NULL
               /\ step' = "opened"
               /\ UNCHANGED <<file, err, overran, lost>>
  BY DEF ReadRecord
<1>3. ReadOn(l)
  BY <1>1, <1>2, Arrives
<1>4. CASE /\ Found(l)
           /\ current' = l.text /\ record' = <<>>
           /\ GoTo("fields") /\ UNCHANGED <<load, live>>
  BY <1>1, <1>3, <1>4, RecordBegins
<1>5. CASE ~Found(l) /\ l.text # <<>> /\ Refuse("bad_format")
  <2>1. ASSUME ~foreign, ~cut' PROVE \E t \in Range(saved) : TooLong(t)
    <3>1. l # EndOfFile
      BY <1>5 DEF EndOfFile
    <3>2. unread # <<>> /\ unread' = Tail(unread) /\ saved' = saved
      BY <1>3, <1>5, <2>1, <3>1 DEF ReadOn, Refuse, file
    <3>3. PICK m \in 0 .. Len(KeptOrder) : LinesBefore(Behind + 3 + m)
      BY <1>1, <2>1 DEF ReadBack, SavedIsRead
    <3>4. saved # <<>>
      BY <1>1, <2>1 DEF ReadBack, SavedIsRead
    <3>5. Behind \in Nat /\ Len(KeptOrder) \in Nat /\ saved \in Seq(Line)
      BY <1>1, <3>4, SavedLines
    <3>6. PICK n \in Nat : n = Behind + 3 + m
      BY <3>3, <3>5
    <3>7. n < Len(saved) /\ LinesBefore(n)
      BY <3>2, <3>3, <3>5, <3>6, NextLine
    <3>8. n # Len(saved)
      <4>1. Len(saved) \in Nat
        BY <3>5
      <4> QED  BY <3>7, <4>1
    <3> QED  BY <1>1, <1>3, <1>5, <2>1, <3>2, <3>7, <3>8, NotFoundBecause
  <2> QED  BY <1>3, <1>5, <2>1, LineRefused
<1>6. CASE /\ ~Found(l) /\ l.text = <<>>
           /\ db' = [load EXCEPT !.columns = <<>>]
           /\ live' = live - Strings(db)
           /\ load' = NoDB /\ record' = <<>> /\ current' = NULL
           /\ step' = "opened"
           /\ UNCHANGED <<file, err, overran, lost>>
  BY <1>1, <1>3, <1>6, FileEnds
<1> QED  BY <1>2, <1>4, <1>5, <1>6

-----------------------------------------------------------------------------
(* The columns of a record in a saved file.                                  *)

\* As many columns are the same number.
LEMMA SameNumber ==
    ASSUME NEW columns, InAnyOrder(columns), NEW a \in 0 .. 4, NEW b \in 0 .. 4,
           {columns[n] : n \in 1 .. a} = {columns[n] : n \in 1 .. b}
    PROVE  a = b
<1>1. \A m, n \in 1 .. 4 : columns[m] = columns[n] => m = n
  BY DEF InAnyOrder
<1>2. ASSUME a < b PROVE FALSE
  <2>1. b \in 1 .. b /\ b \in 1 .. 4
    BY <1>2
  <2>2. columns[b] \in {columns[n] : n \in 1 .. a}
    BY <2>1
  <2>3. PICK n \in 1 .. a : columns[n] = columns[b]
    BY <2>2
  <2>4. n \in 1 .. 4 /\ n # b
    BY <1>2
  <2> QED  BY <1>1, <2>1, <2>3, <2>4
<1>3. ASSUME b < a PROVE FALSE
  <2>1. a \in 1 .. a /\ a \in 1 .. 4
    BY <1>3
  <2>2. columns[a] \in {columns[n] : n \in 1 .. b}
    BY <2>1
  <2>3. PICK n \in 1 .. b : columns[n] = columns[a]
    BY <2>2
  <2>4. n \in 1 .. 4 /\ n # a
    BY <1>3
  <2> QED  BY <1>1, <2>1, <2>3, <2>4
<1> QED  BY <1>2, <1>3

\* The order that is written.
LEMMA WrittenOrder ==
    /\ InAnyOrder(InOrderOfColumns)
    /\ InOrderOfColumns[1] = "ID" /\ InOrderOfColumns[2] = "Name"
    /\ InOrderOfColumns[3] = "Programme" /\ InOrderOfColumns[4] = "Mark"
<1>1. /\ InOrderOfColumns[1] = "ID" /\ InOrderOfColumns[2] = "Name"
      /\ InOrderOfColumns[3] = "Programme" /\ InOrderOfColumns[4] = "Mark"
  BY DEF InOrderOfColumns
<1>2. \A n \in 1 .. 4 : n = 1 \/ n = 2 \/ n = 3 \/ n = 4
  OBVIOUS
<1>3. InOrderOfColumns \in [1 .. 4 -> Column]
  BY DEF InOrderOfColumns, Column
<1>4. ASSUME NEW m \in 1 .. 4, NEW n \in 1 .. 4, InOrderOfColumns[m] = InOrderOfColumns[n] PROVE m = n
  BY <1>1, <1>2, <1>4
<1> QED  BY <1>1, <1>3, <1>4 DEF InAnyOrder

\* How many columns are taken.
LEMMA TakenIs ==
    ASSUME FieldsInOrder, load.columns = InOrderOfColumns, NEW k \in 0 .. 4, NEW i, TakenOf(k, i)
    PROVE  k = Taken
<1>1. Taken \in 0 .. 4 /\ DOMAIN record = {InOrderOfColumns[n] : n \in 1 .. Taken}
  BY DEF FieldsInOrder
<1>2. DOMAIN record = {InOrderOfColumns[n] : n \in 1 .. k}
  BY DEF TakenOf
<1>3. PICK t \in 0 .. 4 : t = Taken
  BY <1>1
<1>4. {InOrderOfColumns[n] : n \in 1 .. k} = {InOrderOfColumns[n] : n \in 1 .. t}
  BY <1>1, <1>2, <1>3, Zenon
<1>5. k = t
  BY <1>4, SameNumber, WrittenOrder
<1> QED  BY <1>3, <1>5

\* Where the reading of a record is: behind k columns of the m-th one, of ID i.
In(m, k, i) ==
    /\ m \in 1 .. Len(KeptOrder) /\ k \in 0 .. 3 /\ i = KeptOrder[m]
    /\ LinesBefore(Behind + 3 + m) /\ load = Loaded(m - 1) /\ TakenOf(k, i)
    /\ k = Taken /\ Here = InOrderOfColumns[k + 1]
    /\ i \in IDs /\ kept.records[i] \in Held
    /\ FourFields(SavedLine(i)) /\ current = Rest(SavedLine(i), 2 * k)
    /\ SavedLine(i)[2 * k + 1] = Row(i)[Here]

\* The reading of a record of a saved file is at such a place.
LEMMA InSaved ==
    ASSUME DInv, step = "fields", ~foreign, Taken < 4
    PROVE  \E m, k, i : In(m, k, i)
<1>1. TypeOK /\ LoadOK /\ ReadBack /\ Reading
  BY DEF DInv, Reading
<1>2. SavedIsRead
  BY <1>1 DEF ReadBack
<1>3. PICK m \in 1 .. Len(KeptOrder) :
         /\ LinesBefore(Behind + 3 + m) /\ load = Loaded(m - 1)
         /\ \E k \in 0 .. 4 : TakenOf(k, KeptOrder[m])
  BY <1>2 DEF SavedIsRead
<1>4. PICK k \in 0 .. 4 : TakenOf(k, KeptOrder[m])
  BY <1>3
<1>5. PICK i : i = KeptOrder[m]
  OBVIOUS
<1>6. load.columns = InOrderOfColumns
  BY <1>3 DEF Loaded
<1>7. FieldsInOrder
  BY <1>1 DEF LoadOK
<1>8. k = Taken
  BY <1>4, <1>6, <1>7, TakenIs
<1>9. k \in 0 .. 3
  BY <1>8
<1>10. Here = InOrderOfColumns[k + 1]
  BY <1>6, <1>8 DEF Here, Taken
<1>11. i \in IDs /\ kept.records[i] \in Held
  BY <1>1, <1>5, KeptOrderIs
<1>12. FourFields(SavedLine(i))
  BY <1>11, LinesOfFour DEF SavedLine
<1>13. current = Rest(SavedLine(i), 2 * k)
  BY <1>4, <1>5, <1>9 DEF TakenOf
<1>14. SavedLine(i)[2 * k + 1] = Row(i)[Here]
  <2>1. /\ SavedLine(i)[1] = Row(i)["ID"] /\ SavedLine(i)[3] = Row(i)["Name"]
        /\ SavedLine(i)[5] = Row(i)["Programme"] /\ SavedLine(i)[7] = Row(i)["Mark"]
    BY <1>11, RecordLineIs DEF SavedLine, Row
  <2>2. CASE k = 0
    <3>1. k + 1 = 1 /\ 2 * k + 1 = 1
      BY <2>2
    <3> QED  BY <1>10, <2>1, <3>1, WrittenOrder
  <2>3. CASE k = 1
    <3>1. k + 1 = 2 /\ 2 * k + 1 = 3
      BY <2>3
    <3> QED  BY <1>10, <2>1, <3>1, WrittenOrder
  <2>4. CASE k = 2
    <3>1. k + 1 = 3 /\ 2 * k + 1 = 5
      BY <2>4
    <3> QED  BY <1>10, <2>1, <3>1, WrittenOrder
  <2>5. CASE k = 3
    <3>1. k + 1 = 4 /\ 2 * k + 1 = 7
      BY <2>5
    <3> QED  BY <1>10, <2>1, <3>1, WrittenOrder
  <2> QED  BY <1>9, <2>2, <2>3, <2>4, <2>5
<1>15. In(m, k, i)
  BY <1>3, <1>4, <1>5, <1>8, <1>9, <1>10, <1>11, <1>12, <1>13, <1>14, Zenon DEF In
<1> QED  BY <1>15

\* The first k columns of a row, and one more.
IsPart(f, columns, k, row) == f = [c \in {columns[n] : n \in 1 .. k} |-> row[c]]

\* The next column makes the next part.
LEMMA PutNext ==
    ASSUME NEW k \in Nat, NEW row, NEW columns, NEW f, IsPart(f, columns, k, row)
    PROVE  IsPart(Put(f, columns[k + 1], row[columns[k + 1]]), columns, k + 1, row)
<1>1. {columns[n] : n \in 1 .. k + 1} = {columns[n] : n \in 1 .. k} \cup {columns[k + 1]}
  <2>1. \A n : n \in 1 .. k + 1 <=> n \in 1 .. k \/ n = k + 1
    OBVIOUS
  <2> QED  BY <2>1, Zenon
<1> DEFINE S == {columns[n] : n \in 1 .. k}
           x == columns[k + 1]
<1>2. f = [c \in S |-> row[c]]
  BY DEF IsPart
<1> HIDE DEF S, x
<1>3. Put(f, x, row[x]) = [y \in S \cup {x} |-> IF y = x THEN row[x] ELSE f[y]]
  BY <1>2 DEF Put
<1>4. Put(f, x, row[x]) = [c \in S \cup {x} |-> row[c]]
  BY <1>2, <1>3
<1> QED  BY <1>1, <1>4 DEF S, x, IsPart

\* One more column is taken.
LEMMA SavedTaken ==
    ASSUME DInv, step = "fields", NEW m, NEW k, NEW i, In(m, k, i), SavedIsRead,
           Took(Row(i)[Here], IF k < 3 THEN Rest(SavedLine(i), 2 * (k + 1)) ELSE NULL), UNCHANGED reading
    PROVE  SavedIsRead'
<1>1. /\ m \in 1 .. Len(KeptOrder) /\ k \in 0 .. 3 /\ i = KeptOrder[m]
      /\ LinesBefore(Behind + 3 + m) /\ load = Loaded(m - 1) /\ TakenOf(k, i)
      /\ Here = InOrderOfColumns[k + 1]
  BY DEF In
<1>2. /\ record' = Put(record, Here, Row(i)[Here])
      /\ current' = IF k < 3 THEN Rest(SavedLine(i), 2 * (k + 1)) ELSE NULL
      /\ step' = step /\ load' = load /\ saved' = saved /\ kept' = kept /\ unread' = unread
  BY DEF Took, file, reading
<1>3. Row(i)' = Row(i) /\ SavedLine(i)' = SavedLine(i)
  BY <1>2 DEF Row, SavedLine
<1>4. record' = [c \in {InOrderOfColumns[n] : n \in 1 .. k + 1} |-> Row(i)[c]]
  <2> DEFINE row == Row(i)
  <2>1. IsPart(record, InOrderOfColumns, k, row)
    BY <1>1 DEF TakenOf, IsPart
  <2> HIDE DEF row
  <2>2. IsPart(Put(record, InOrderOfColumns[k + 1], row[InOrderOfColumns[k + 1]]), InOrderOfColumns, k + 1, row)
    BY <1>1, <2>1, PutNext
  <2>3. IsPart(record', InOrderOfColumns, k + 1, row)
    BY <1>1, <1>2, <2>2 DEF row
  <2> QED  BY <2>3 DEF row, IsPart
<1>5. k + 1 \in 0 .. 4 /\ (k < 3 <=> k + 1 < 4)
  BY <1>1
<1>6. current' = IF k + 1 < 4 THEN Rest(SavedLine(i), 2 * (k + 1)) ELSE NULL
  BY <1>2, <1>5
<1>7. TakenOf(k + 1, i)'
  BY <1>3, <1>4, <1>6, Zenon DEF TakenOf
<1>8. KeptOrder' = KeptOrder /\ Behind' = Behind /\ Loaded(m - 1)' = Loaded(m - 1)
  BY <1>2, KeptStays
<1>9. LinesBefore(Behind + 3 + m)'
  BY <1>1, <1>2, <1>8 DEF LinesBefore
<1>10. \E n \in 1 .. Len(KeptOrder)' :
          /\ LinesBefore(Behind + 3 + n)' /\ (load = Loaded(n - 1))'
          /\ \E j \in 0 .. 4 : TakenOf(j, KeptOrder[n])'
  <2>1. \E j \in 0 .. 4 : TakenOf(j, KeptOrder[m])'
    BY <1>1, <1>5, <1>7, <1>8
  <2> QED  BY <1>1, <1>2, <1>8, <1>9, <2>1
<1> QED  BY <1>2, <1>10 DEF SavedIsRead

-----------------------------------------------------------------------------
(* The columns of a record, in any file.                                     *)

\* A column is taken.
LEMMA FieldHolds ==
    ASSUME DInv, step = "fields", Taken < 4, NEW v \in InColumn(Here), Here = "ID" => ~IsUnordered(v),
           NEW rest \in Line \cup {NULL, Past}, Took(v, rest), UNCHANGED reading,
           foreign => Counted', ~foreign => SavedIsRead'
    PROVE  DInv'
<1>1. TypeOK /\ LoadOK /\ ReadBack /\ Reading
  BY DEF DInv, Reading
<1>2. FieldsInOrder /\ InAnyOrder(load.columns)
  BY <1>1 DEF LoadOK
<1>3. /\ record' = Put(record, Here, v) /\ current' = rest /\ overran' = (overran \/ current = Past)
      /\ db' = db /\ saved' = saved /\ kept' = kept /\ step' = "fields" /\ load' = load /\ live' = live /\ lost' = lost
      /\ foreign' = foreign /\ unread' = unread /\ read' = read /\ atEnd' = atEnd /\ (cut' <=> cut)
  BY DEF Took, file, reading, cut
<1>4. FieldsInOrder' /\ record' \in SomeFields
  BY <1>1, <1>2, <1>3, FieldTaken
<1>5. LoadOK'
  BY <1>2, <1>3, <1>4 DEF LoadOK, Resting
<1>6. LinesCounted'
  BY <1>3 DEF LinesCounted
<1>7. IsDB(load) /\ live \in Int /\ Strings(load) \in Int /\ overran' \in BOOLEAN
  BY <1>1, <1>3, StringsType DEF TypeOK
<1>8. unread' \in Seq(Line) /\ read' \in LinesRead
  BY <1>1, <1>3 DEF TypeOK, LinesRead
<1>9. atEnd' \in BOOLEAN /\ ~cut' /\ (foreign => unread' = <<>>)
  BY <1>1, <1>3 DEF TypeOK, ReadBack
<1>10. Reading'
  BY <1>3 DEF Reading
<1>11. live' = live + Strings(load') - Strings(load)
  BY <1>3, <1>7
<1> QED  BY <1>1, <1>3, <1>4, <1>5, <1>6, <1>7, <1>8, <1>9, <1>10, <1>11, GoesOn

\* A column is refused, of a foreign file.
LEMMA FieldRefused ==
    ASSUME DInv, step = "fields", NEW e, Refuse(e), UNCHANGED reading, foreign
    PROVE  DInv'
<1>1. TypeOK /\ ReadBack /\ Reading
  BY DEF DInv, Reading
<1>2. foreign' = foreign /\ unread' = unread /\ read' = read /\ atEnd' = atEnd /\ (cut' <=> cut)
  BY DEF reading, cut
<1>3. unread' \in Seq(Line) /\ read' \in LinesRead /\ atEnd' \in BOOLEAN
  BY <1>1, <1>2 DEF TypeOK, LinesRead
<1>4. foreign => ~cut' /\ unread' = <<>>
  BY <1>1, <1>2 DEF ReadBack
<1> QED  BY <1>2, <1>3, <1>4, RefusedHolds

\* Where the cursor is.
LEMMA CursorIs ==
    ASSUME DInv, step = "fields", foreign, Taken < 4
    PROVE  /\ TypeOK /\ Taken \in 0 .. 3 /\ FieldsInOrder /\ InAnyOrder(load.columns) /\ Counted
           /\ \/ CommasIn(Last(read).text) < 3
              \/ current \in Line /\ CommasIn(Last(read).text) = Taken + CommasIn(current)
<1>1. TypeOK /\ LoadOK /\ LinesCounted
  BY DEF DInv
<1>2. FieldsInOrder /\ InAnyOrder(load.columns) /\ Counted
  BY <1>1 DEF LoadOK, LinesCounted
<1>3. Taken \in 0 .. 3
  BY <1>2 DEF FieldsInOrder
<1> DEFINE commas == CommasIn(Last(read).text)
<1>4. \/ commas < 3
      \/ IF current \in {NULL, Past} THEN commas = Taken - 1 ELSE commas = Taken + CommasIn(current)
  BY <1>2, Zenon DEF Counted
<1> HIDE DEF commas
<1>5. CASE current \in {NULL, Past}
  <2>1. commas < 3 \/ commas = Taken - 1
    BY <1>4, <1>5, Zenon
  <2>2. commas < 3
    BY <1>3, <2>1
  <2> QED  BY <1>1, <1>2, <1>3, <2>2 DEF commas
<1>6. CASE current \notin {NULL, Past}
  <2>1. commas < 3 \/ commas = Taken + CommasIn(current)
    BY <1>4, <1>6, Zenon
  <2>2. current \in Line
    BY <1>1, <1>6 DEF TypeOK
  <2> QED  BY <1>1, <1>2, <1>3, <2>1, <2>2 DEF commas
<1> QED  BY <1>5, <1>6

\* A column is counted with its comma, or the line is short.
LEMMA CountsOn ==
    ASSUME DInv, step = "fields", foreign, Taken < 4, NEW v \in InColumn(Here), Here = "ID" => ~IsUnordered(v),
           NEW rest, Took(v, rest), UNCHANGED reading,
           current \in Line =>
              \/ CommasIn(current) = 0 /\ rest \in {NULL, Past}
              \/ rest \in Line /\ CommasIn(current) = CommasIn(rest) + 1
    PROVE  Counted'
<1>1. record' = Put(record, Here, v) /\ current' = rest /\ load' = load /\ read' = read
  BY DEF Took, reading
<1>2. /\ TypeOK /\ Taken \in 0 .. 3 /\ FieldsInOrder /\ InAnyOrder(load.columns)
      /\ \/ CommasIn(Last(read).text) < 3
         \/ current \in Line /\ CommasIn(Last(read).text) = Taken + CommasIn(current)
  BY CursorIs
<1>3. Taken' = Taken + 1
  BY <1>1, <1>2, FieldTaken
<1> DEFINE commas == CommasIn(Last(read).text)
<1>4. Counted' <=> \/ commas < 3
                   \/ IF rest \in {NULL, Past} THEN commas = Taken' - 1 ELSE commas = Taken' + CommasIn(rest)
  BY <1>1, Zenon DEF Counted
<1>5. commas < 3 \/ (current \in Line /\ commas = Taken + CommasIn(current))
  BY <1>2
<1> HIDE DEF commas
<1>6. CASE commas < 3
  BY <1>4, <1>6
<1>7. CASE current \in Line /\ commas = Taken + CommasIn(current)
  <2>1. CASE CommasIn(current) = 0 /\ rest \in {NULL, Past}
    <3>1. commas = Taken' - 1
      BY <1>2, <1>3, <1>7, <2>1
    <3> QED  BY <1>4, <2>1, <3>1, Zenon
  <2>2. CASE rest \in Line /\ CommasIn(current) = CommasIn(rest) + 1
    <3>1. rest \notin {NULL, Past} /\ CommasIn(rest) \in Nat
      BY <2>2, LineIsSomething, CommasFinite
    <3>2. commas = Taken' + CommasIn(rest)
      BY <1>2, <1>3, <1>7, <2>2, <3>1
    <3> QED  BY <1>4, <3>1, <3>2, Zenon
  <2> QED  BY <1>7, <2>1, <2>2
<1> QED  BY <1>5, <1>6, <1>7

\* What is parsed belongs in its column, and NULL is never parsed.
LEMMA ParsesIs ==
    ASSUME NEW col \in {"ID", "Mark"}, NEW s, Parses(col, s)
    PROVE  s[1] \in InColumn(col) /\ s # NULL
<1>1. s[1] \in IDs \cup Marks /\ (col = "ID" => s[1] \in IDs)
  BY DEF Parses
<1>2. s[1] \in Token
  BY <1>1 DEF Token
<1>3. s # NULL
  BY <1>2, NoTokenAssumption
<1> QED  BY <1>1, <1>3, InColumnIs

\* The columns of numbers, and of strings.
LEMMA NumbersAndStrings ==
    ASSUME NEW c \in Column
    PROVE  /\ Column_type[c] \in {"int", "float"} <=> c \in {"ID", "Mark"}
           /\ Column_type[c] \in {"string"} <=> c \in {"Name", "Programme"}
BY DEF Column, Column_type

\* The records before one have lower IDs.
LEMMA InOrderWhenSaved ==
    ASSUME TypeOK, NEW m \in 1 .. Len(KeptOrder), load = Loaded(m - 1), NEW i, i = KeptOrder[m]
    PROVE  ~IsUnordered(i)
<1>1. Len(KeptOrder) \in Nat /\ \A n \in 1 .. Len(KeptOrder) : KeptOrder[n] \in IDs
  BY KeptOrderIs
<1>2. \A a, b \in 1 .. Len(KeptOrder) : a < b => Number[KeptOrder[a]] < Number[KeptOrder[b]]
  <2>1. DOMAIN kept.records \subseteq IDs /\ IsFiniteSet(DOMAIN kept.records)
    BY DatabaseType DEF TypeOK
  <2> QED  BY <2>1, InOrderLists DEF KeptOrder
<1>3. DOMAIN load.records = {KeptOrder[n] : n \in 1 .. m - 1}
  BY DEF Loaded, FirstRecords
<1>4. ASSUME NEW j \in DOMAIN load.records, Number[i] <= Number[j] PROVE FALSE
  <2>1. PICK n \in 1 .. m - 1 : j = KeptOrder[n]
    BY <1>3
  <2>2. n \in 1 .. Len(KeptOrder) /\ n < m
    BY <1>1
  <2>3. Number[j] < Number[i]
    BY <1>2, <2>1, <2>2
  <2>4. Number[i] \in Int /\ Number[j] \in Int
    BY <1>1, <2>1, <2>2, NumberAssumption
  <2> QED  BY <1>4, <2>3, <2>4
<1> QED  BY <1>4 DEF IsUnordered

\* A column with a number.
LEMMA NumberFieldHolds == ASSUME DInv, NumberField PROVE DInv'
<1>1. /\ step = "fields" /\ Taken < 4 /\ Column_type[Here] \in {"int", "float"} /\ UNCHANGED reading
  BY DEF NumberField, InField, Taken
<1>2. TypeOK /\ LoadOK /\ ReadBack /\ Reading
  BY <1>1 DEF DInv, Reading
<1>3. FieldsInOrder /\ InAnyOrder(load.columns)
  BY <1>1, <1>2 DEF LoadOK
<1>4. Here \in Column /\ Here \in {"ID", "Mark"}
  BY <1>1, <1>3, HereIsNew, NumbersAndStrings
<1>5. PICK c \in Seen(current) :
         LET s == SplitNext(c, Comma) IN
         \/ ~Parses(Here, s.sub) /\ Refuse("bad_format")
         \/ Parses(Here, s.sub) /\ Here = "ID" /\ IsUnordered(s.sub[1]) /\ Refuse("unordered_id")
         \/ /\ Parses(Here, s.sub) /\ ~(Here = "ID" /\ IsUnordered(s.sub[1]))
            /\ Took(s.sub[1], s.current)
  BY DEF NumberField
<1> DEFINE s == SplitNext(c, Comma)
<1>6. c \in Line \/ (c = NULL /\ current = NULL)
  BY <1>2, <1>5, StaleAssumption DEF Seen, TypeOK
<1>7. CASE foreign
  <2>1. ASSUME NEW e, Refuse(e) PROVE DInv'
    BY <1>1, <1>7, <2>1, FieldRefused
  <2>2. CASE /\ Parses(Here, s.sub) /\ ~(Here = "ID" /\ IsUnordered(s.sub[1]))
             /\ Took(s.sub[1], s.current)
    <3>1. s.sub[1] \in InColumn(Here) /\ s.sub # NULL
      BY <1>4, <2>2, ParsesIs
    <3>2. c \in Line
      BY <1>6, <3>1, SplitOfNull
    <3>3. \/ CommasIn(c) = 0 /\ s.current = NULL
          \/ s.current \in Line /\ CommasIn(c) = CommasIn(s.current) + 1
      BY <3>2, SplitCounts
    <3>4. current \in Line => c = current
      BY <1>5, LineIsSomething DEF Seen
    <3> HIDE DEF s
    <3>5. Counted'
      BY <1>1, <1>7, <2>2, <3>1, <3>3, <3>4, CountsOn
    <3>6. s.current \in Line \cup {NULL, Past}
      BY <3>3
    <3> QED  BY <1>1, <1>7, <2>2, <3>1, <3>5, <3>6, FieldHolds
  <2> QED  BY <1>5, <2>1, <2>2
<1>8. CASE ~foreign
  <2>1. PICK m, k, i : In(m, k, i)
    BY <1>1, <1>8, InSaved
  <2>2. /\ m \in 1 .. Len(KeptOrder) /\ k \in 0 .. 3 /\ i = KeptOrder[m] /\ load = Loaded(m - 1)
        /\ Here = InOrderOfColumns[k + 1] /\ i \in IDs /\ kept.records[i] \in Held
        /\ FourFields(SavedLine(i)) /\ current = Rest(SavedLine(i), 2 * k)
        /\ SavedLine(i)[2 * k + 1] = Row(i)[Here]
    BY <2>1 DEF In
  <2>3. /\ current \in Line
        /\ k < 3 => SplitNext(current, Comma) = [sub |-> <<SavedLine(i)[2 * k + 1]>>, current |-> Rest(SavedLine(i), 2 * (k + 1))]
        /\ k = 3 => SplitNext(current, Comma) = [sub |-> <<SavedLine(i)[7]>>, current |-> NULL]
    BY <2>2, SplitOfFour
  <2>4. c = current
    BY <1>5, <2>3, LineIsSomething DEF Seen
  <2>5. /\ s.sub = <<Row(i)[Here]>>
        /\ s.current = IF k < 3 THEN Rest(SavedLine(i), 2 * (k + 1)) ELSE NULL
    <3>1. CASE k < 3
      BY <2>2, <2>3, <2>4, <3>1
    <3>2. CASE k = 3
      <4>1. 2 * k + 1 = 7 /\ ~(k < 3)
        BY <3>2
      <4> QED  BY <2>2, <2>3, <2>4, <3>2, <4>1
    <3> QED  BY <2>2, <3>1, <3>2
  <2> HIDE DEF s
  <2>6. Row(i)["ID"] = i /\ Row(i)["Mark"] \in IDs \cup Marks
    BY <2>2, HeldIs DEF Row
  <2>7. Len(s.sub) = 1 /\ s.sub[1] = Row(i)[Here]
    BY <2>5
  <2>8. Parses(Here, s.sub)
    BY <1>4, <2>2, <2>6, <2>7 DEF Parses
  <2>9. ~(Here = "ID" /\ IsUnordered(s.sub[1]))
    BY <1>2, <2>2, <2>6, <2>7, InOrderWhenSaved
  <2>10. Took(Row(i)[Here], s.current)
    BY <1>5, <2>7, <2>8, <2>9 DEF s
  <2>11. Row(i)[Here] \in InColumn(Here) /\ (Here = "ID" => ~IsUnordered(Row(i)[Here]))
    BY <1>4, <2>7, <2>8, <2>9, ParsesIs
  <2>12. SavedIsRead'
    <3>1. SavedIsRead
      BY <1>2, <1>8 DEF ReadBack
    <3>2. Took(Row(i)[Here], IF k < 3 THEN Rest(SavedLine(i), 2 * (k + 1)) ELSE NULL)
      BY <2>5, <2>10
    <3> QED  BY <1>1, <2>1, <3>1, <3>2, SavedTaken
  <2>13. s.current \in Line \cup {NULL, Past}
    <3>1. CASE k < 3
      <4>1. k + 1 \in 0 .. 3
        BY <2>2, <3>1
      <4> QED  BY <2>2, <2>5, <3>1, <4>1, SplitOfFour
    <3>2. CASE k = 3
      BY <2>5, <3>2
    <3> QED  BY <2>2, <3>1, <3>2
  <2> QED  BY <1>1, <1>8, <2>10, <2>11, <2>12, <2>13, FieldHolds
<1> QED  BY <1>7, <1>8

\* What a string is followed by.
LEMMA StringIs ==
    ASSUME NEW c \in Line, IsString(c), NEW rest, rest = IF Len(c) = 1 THEN Past ELSE SubSeq(c, 3, Len(c))
    PROVE  /\ Head(c) \in Texts
           /\ \/ CommasIn(c) = 0 /\ rest = Past
              \/ rest \in Line /\ CommasIn(c) = CommasIn(rest) + 1
<1>1. c \in Seq(Token) /\ Len(c) \in Nat /\ c # <<>>
  BY LineLength DEF Line, IsString
<1>2. Head(c) \in Texts /\ c[1] = Head(c) /\ c[1] # Comma
  <2>1. Head(c) \in Texts
    BY DEF IsString
  <2>2. c[1] = Head(c)
    BY <1>1
  <2> QED  BY <2>1, <2>2, TextsAssumption
<1>3. CASE Len(c) = 1
  <2>1. \A n \in 1 .. 1 : n = 1
    OBVIOUS
  <2>2. Commas(c) = {n \in 1 .. 1 : c[n] = Comma}
    BY <1>3, CommasAre
  <2>3. Commas(c) = {}
    BY <1>2, <2>1, <2>2
  <2>4. CommasIn(c) = 0
    BY <2>3, NoCommas
  <2>5. rest = Past
    BY <1>3, Zenon
  <2> QED  BY <1>2, <2>4, <2>5
<1>4. CASE Len(c) # 1
  <2>1. Len(c) > 1
    <3>1. Len(c) # 0
      BY <1>1, EmptySeq
    <3>2. \A n \in Nat : n # 0 /\ n # 1 => n > 1
      OBVIOUS
    <3> QED  BY <1>1, <1>4, <3>1, <3>2, Zenon
  <2>2. Tail(c) \in Line /\ Tail(c) # <<>>
    BY <2>1, TailIs
  <2> DEFINE t == Tail(c)
  <2>3. IsPrefix(<<Comma>>, t)
    BY <2>2 DEF IsString
  <2>4. t[1] = c[2]
    BY <1>1, <2>1
  <2>5. t \in Seq(Token) /\ t # <<>>
    BY <2>2 DEF Line
  <2> HIDE DEF t
  <2>6. Len(t) \in Nat /\ Len(t) > 0
    BY <2>5
  <2>7. SubSeq(t, 1, 1) = <<t[1]>>
    BY <2>5, <2>6, FirstOnly
  <2>8. SubSeq(<<Comma>>, 1, 1) = <<Comma>>
    <3>1. <<Comma>> \in Seq({Comma}) /\ Len(<<Comma>>) > 0 /\ <<Comma>>[1] = Comma
      OBVIOUS
    <3> QED  BY <3>1, FirstOnly
  <2>9. SubSeq(t, 1, 1) = <<Comma>>
    <3>1. Len(<<Comma>>) = 1
      OBVIOUS
    <3>2. SubSeq(<<Comma>>, 1, Len(<<Comma>>)) = SubSeq(t, 1, Len(<<Comma>>))
      BY <2>3, Zenon DEF IsPrefix
    <3> QED  BY <2>8, <3>1, <3>2
  <2>10. c[2] = Comma
    BY <2>4, <2>7, <2>9
  <2>11. FirstComma(c, 2)
    <3>1. \A n \in 1 .. 2 - 1 : n = 1
      OBVIOUS
    <3>2. 2 \in 1 .. Len(c)
      BY <1>1, <2>1
    <3> QED  BY <1>2, <2>10, <3>1, <3>2 DEF FirstComma
  <2>12. rest = Rest(c, 2)
    <3>1. 2 + 1 = 3
      OBVIOUS
    <3> QED  BY <1>4, <3>1 DEF Rest
  <2> QED  BY <1>2, <2>11, <2>12, CommasOfRest
<1> QED  BY <1>3, <1>4

\* A string of a line of four.
LEMMA StringOfFour ==
    ASSUME NEW c, FourFields(c), NEW k \in {1, 2}, c[2 * k + 1] \in Texts
    PROVE  LET d == Rest(c, 2 * k) IN
           /\ d \in Line /\ IsString(d) /\ Head(d) = c[2 * k + 1] /\ Len(d) # 1
           /\ SubSeq(d, 3, Len(d)) = Rest(c, 2 * (k + 1))
<1> DEFINE a == 2 * k
           d == Rest(c, a)
<1>1. c \in Line /\ Len(c) = 7 /\ a \in 0 .. Len(c) /\ 7 - a \in Nat /\ 7 - a > 2
  BY DEF FourFields
<1>2. d \in Line /\ Len(d) = 7 - a /\ \A n \in 1 .. 7 - a : d[n] = c[a + n]
  BY <1>1, RestIs
<1>3. d[1] = c[2 * k + 1] /\ d[2] = c[a + 2]
  BY <1>1, <1>2
<1>4. c[a + 2] = Comma
  <2>1. a + 2 \in {2, 4, 6}
    OBVIOUS
  <2> QED  BY <2>1 DEF FourFields
<1>5. SubSeq(d, 3, Len(d)) = Rest(c, 2 * (k + 1))
  <2>1. 2 \in 0 .. Len(c) - a /\ a + 2 = 2 * (k + 1) /\ 2 + 1 = 3
    BY <1>1
  <2>2. Rest(d, 2) = Rest(c, a + 2)
    BY <1>1, <2>1, RestOfRest
  <2>3. Rest(d, 2) = SubSeq(d, 2 + 1, Len(d))
    BY DEF Rest
  <2> QED  BY <2>1, <2>2, <2>3
<1>6. d \in Seq(Token) /\ Len(d) > 2
  BY <1>1, <1>2 DEF Line
<1>7. d[1] \in Texts /\ d[2] = Comma
  BY <1>3, <1>4
<1> HIDE DEF d, a
<1>8. d # <<>> /\ Head(d) = d[1]
  BY <1>6
<1> DEFINE t == Tail(d)
<1>9. t \in Seq(Token) /\ Len(t) = Len(d) - 1 /\ t[1] = d[2]
  BY <1>6
<1> HIDE DEF t
<1>10. Len(t) > 0
  BY <1>6, <1>9
<1>11. SubSeq(t, 1, 1) = <<t[1]>>
  BY <1>9, <1>10, FirstOnly
<1>12. SubSeq(<<Comma>>, 1, 1) = <<Comma>>
  <2>1. <<Comma>> \in Seq({Comma}) /\ Len(<<Comma>>) > 0 /\ <<Comma>>[1] = Comma
    OBVIOUS
  <2> QED  BY <2>1, FirstOnly
<1>13. Len(<<Comma>>) = 1
  OBVIOUS
<1>14. IsPrefix(<<Comma>>, t)
  <2>1. Len(<<Comma>>) <= Len(t)
    BY <1>6, <1>9, <1>13
  <2>2. SubSeq(t, 1, 1) = <<Comma>>
    BY <1>7, <1>9, <1>11
  <2> QED  BY <1>12, <1>13, <2>1, <2>2, Zenon DEF IsPrefix
<1>15. IsString(d)
  <2>1. IsPrefix(<<Comma>>, Tail(d))
    BY <1>14 DEF t
  <2>2. d # <<>> /\ Head(d) \in Texts
    BY <1>7, <1>8
  <2> QED  BY <2>1, <2>2, Zenon DEF IsString
<1>16. Len(d) # 1
  BY <1>1, <1>2
<1> QED  BY <1>2, <1>3, <1>5, <1>8, <1>15, <1>16 DEF d, a

\* A column with a string.
LEMMA StringFieldHolds == ASSUME DInv, StringField PROVE DInv'
<1>1. /\ step = "fields" /\ Taken < 4 /\ Column_type[Here] \in {"string"} /\ UNCHANGED reading
  BY DEF StringField, InField, Taken
<1>2. TypeOK /\ LoadOK /\ ReadBack /\ StringsOwned /\ Reading
  BY <1>1 DEF DInv, Reading
<1>3. FieldsInOrder /\ InAnyOrder(load.columns)
  BY <1>1, <1>2 DEF LoadOK
<1>4. Here \in Column /\ Here \in {"Name", "Programme"} /\ Here # "ID" /\ InColumn(Here) = Texts
  <2>1. Here \in Column /\ Here \in {"Name", "Programme"}
    BY <1>1, <1>3, HereIsNew, NumbersAndStrings
  <2> QED  BY <2>1, InColumnIs
<1>5. ASSUME ~foreign
      PROVE  \E m, k, i : /\ In(m, k, i) /\ k \in {1, 2} /\ i \in IDs /\ FourFields(SavedLine(i))
                          /\ SavedLine(i)[2 * k + 1] = Row(i)[Here] /\ Row(i)[Here] \in Texts
                          /\ current = Rest(SavedLine(i), 2 * k)
  <2>1. PICK m, k, i : In(m, k, i)
    BY <1>1, <1>5, InSaved
  <2>2. /\ k \in 0 .. 3 /\ Here = InOrderOfColumns[k + 1] /\ i \in IDs /\ kept.records[i] \in Held
        /\ FourFields(SavedLine(i)) /\ current = Rest(SavedLine(i), 2 * k)
        /\ SavedLine(i)[2 * k + 1] = Row(i)[Here]
    BY <2>1 DEF In
  <2>3. k # 0
    <3>1. k = 0 => k + 1 = 1
      OBVIOUS
    <3> QED  BY <1>4, <2>2, <3>1, WrittenOrder
  <2>4. k # 3
    <3>1. k = 3 => k + 1 = 4
      OBVIOUS
    <3> QED  BY <1>4, <2>2, <3>1, WrittenOrder
  <2>5. k \in {1, 2}
    BY <2>2, <2>3, <2>4
  <2>6. Row(i)["Name"] \in Texts /\ Row(i)["Programme"] \in Texts
    BY <2>2, HeldIs DEF Row
  <2> QED  BY <1>4, <2>1, <2>2, <2>5, <2>6
<1>6. ASSUME ~foreign PROVE current \in Line
  <2>1. PICK k, i : k \in {1, 2} /\ FourFields(SavedLine(i)) /\ current = Rest(SavedLine(i), 2 * k)
                    /\ SavedLine(i)[2 * k + 1] \in Texts
    BY <1>5, <1>6
  <2> QED  BY <2>1, StringOfFour
<1>7. CASE current = NULL /\ Crash
  <2>1. foreign
    BY <1>6, <1>7, LineIsSomething
  <2>2. CommasIn(Last(read).text) < 3
    BY <1>1, <1>7, <2>1, CursorIs, LineIsSomething
  <2>3. foreign' = foreign /\ unread' = unread /\ read' = read /\ atEnd' = atEnd /\ (cut' <=> cut)
    BY <1>1 DEF reading, cut
  <2>4. unread' = <<>> /\ read' \in LinesRead /\ atEnd' \in BOOLEAN /\ ~cut'
    BY <1>2, <2>1, <2>3 DEF TypeOK, ReadBack, LinesRead
  <2>5. CommasIn(Last(read').text) < 3
    BY <2>2, <2>3
  <2> QED  BY <1>7, <2>1, <2>3, <2>4, <2>5, CrashHolds
<1>8. CASE /\ current # NULL
           /\ \E c \in Seen(current) :
                 \/ ~IsString(c) /\ Refuse("bad_format")
                 \/ IsString(c) /\ Took(Head(c), IF Len(c) = 1 THEN Past ELSE SubSeq(c, 3, Len(c)))
  <2>1. PICK c \in Seen(current) :
              \/ ~IsString(c) /\ Refuse("bad_format")
              \/ IsString(c) /\ Took(Head(c), IF Len(c) = 1 THEN Past ELSE SubSeq(c, 3, Len(c)))
    BY <1>8
  <2>2. current \in Line => c = current
    BY <2>1, LineIsSomething DEF Seen
  <2>3. CASE foreign
    <3>1. CASE ~IsString(c) /\ Refuse("bad_format")
      BY <1>1, <2>3, <3>1, FieldRefused
    <3>2. CASE IsString(c) /\ Took(Head(c), IF Len(c) = 1 THEN Past ELSE SubSeq(c, 3, Len(c))) /\ c \in Line
      <4>1. PICK rest : rest = IF Len(c) = 1 THEN Past ELSE SubSeq(c, 3, Len(c))
        OBVIOUS
      <4>2. Took(Head(c), rest)
        BY <3>2, <4>1
      <4>3. /\ Head(c) \in Texts
            /\ \/ CommasIn(c) = 0 /\ rest = Past
               \/ rest \in Line /\ CommasIn(c) = CommasIn(rest) + 1
        BY <3>2, <4>1, StringIs
      <4>4. Counted'
        BY <1>1, <1>4, <2>2, <2>3, <4>2, <4>3, CountsOn
      <4>5. rest \in Line \cup {NULL, Past}
        BY <4>3
      <4> QED  BY <1>1, <1>4, <2>3, <4>2, <4>3, <4>4, <4>5, FieldHolds
    <3>3. c \in Line
      BY <1>2, <1>8, <2>1, StaleAssumption DEF Seen, TypeOK
    <3> QED  BY <2>1, <3>1, <3>2, <3>3
  <2>4. CASE ~foreign
    <3>1. PICK m, k, i : /\ In(m, k, i) /\ k \in {1, 2} /\ i \in IDs /\ FourFields(SavedLine(i))
                         /\ SavedLine(i)[2 * k + 1] = Row(i)[Here] /\ Row(i)[Here] \in Texts
                         /\ current = Rest(SavedLine(i), 2 * k)
      BY <1>5, <2>4
    <3>2. /\ current \in Line /\ IsString(current) /\ Head(current) = Row(i)[Here] /\ Len(current) # 1
          /\ SubSeq(current, 3, Len(current)) = Rest(SavedLine(i), 2 * (k + 1))
      BY <3>1, StringOfFour
    <3>3. Took(Row(i)[Here], Rest(SavedLine(i), 2 * (k + 1)))
      BY <2>1, <2>2, <3>2, Zenon
    <3>4. k < 3 /\ k + 1 \in 0 .. 3
      BY <3>1
    <3>5. SavedIsRead'
      <4>1. SavedIsRead
        BY <1>2, <2>4 DEF ReadBack
      <4>2. Took(Row(i)[Here], IF k < 3 THEN Rest(SavedLine(i), 2 * (k + 1)) ELSE NULL)
        BY <3>3, <3>4, Zenon
      <4> QED  BY <1>1, <3>1, <4>1, <4>2, SavedTaken
    <3>6. Rest(SavedLine(i), 2 * (k + 1)) \in Line
      BY <3>1, <3>4, SplitOfFour
    <3> QED  BY <1>1, <1>4, <2>4, <3>1, <3>3, <3>5, <3>6, FieldHolds
  <2> QED  BY <2>3, <2>4
<1> QED  BY <1>7, <1>8 DEF StringField

-----------------------------------------------------------------------------
(* The end of a record.                                                      *)

\* One record more.
LEMMA NextRecord ==
    ASSUME TypeOK, NEW m \in 1 .. Len(KeptOrder), NEW i, i = KeptOrder[m]
    PROVE  Put(FirstRecords(m - 1), i, kept.records[i]) = FirstRecords(m)
<1>1. Len(KeptOrder) \in Nat
  BY KeptOrderIs
<1>2. PICK k \in Nat : k = m - 1 /\ k + 1 = m
  BY <1>1
<1> DEFINE row == kept.records
           order == KeptOrder
<1>3. IsPart(FirstRecords(k), order, k, row)
  BY DEF IsPart, FirstRecords
<1> HIDE DEF row, order
<1>4. IsPart(Put(FirstRecords(k), order[k + 1], row[order[k + 1]]), order, k + 1, row)
  BY <1>3, PutNext
<1>5. Put(FirstRecords(k), order[k + 1], row[order[k + 1]]) = FirstRecords(k + 1)
  BY <1>4 DEF IsPart, FirstRecords, row, order
<1> QED  BY <1>2, <1>5 DEF row, order

\* Where the reading of a record is when it is complete.
LEMMA CompleteSaved ==
    ASSUME DInv, step = "fields", ~foreign, Taken = 4
    PROVE  \E m, i : /\ m \in 1 .. Len(KeptOrder) /\ i = KeptOrder[m]
                     /\ LinesBefore(Behind + 3 + m) /\ load = Loaded(m - 1)
                     /\ record["ID"] = i
                     /\ [name |-> record["Name"], programme |-> record["Programme"], mark |-> record["Mark"]] =
                           kept.records[i]
<1>1. TypeOK /\ LoadOK /\ ReadBack /\ Reading
  BY DEF DInv, Reading
<1>2. SavedIsRead /\ FieldsInOrder
  BY <1>1 DEF ReadBack, LoadOK
<1>3. PICK m \in 1 .. Len(KeptOrder) :
         /\ LinesBefore(Behind + 3 + m) /\ load = Loaded(m - 1)
         /\ \E k \in 0 .. 4 : TakenOf(k, KeptOrder[m])
  BY <1>2 DEF SavedIsRead
<1>4. PICK k \in 0 .. 4 : TakenOf(k, KeptOrder[m])
  BY <1>3
<1>5. PICK i : i = KeptOrder[m]
  OBVIOUS
<1>6. load.columns = InOrderOfColumns
  BY <1>3 DEF Loaded
<1>7. k = 4
  BY <1>2, <1>4, <1>6, TakenIs
<1>8. record = [c \in {InOrderOfColumns[n] : n \in 1 .. 4} |-> Row(i)[c]]
  BY <1>4, <1>5, <1>7 DEF TakenOf
<1>9. /\ "ID" \in {InOrderOfColumns[n] : n \in 1 .. 4} /\ "Name" \in {InOrderOfColumns[n] : n \in 1 .. 4}
      /\ "Programme" \in {InOrderOfColumns[n] : n \in 1 .. 4} /\ "Mark" \in {InOrderOfColumns[n] : n \in 1 .. 4}
  <2>1. 1 \in 1 .. 4 /\ 2 \in 1 .. 4 /\ 3 \in 1 .. 4 /\ 4 \in 1 .. 4
    OBVIOUS
  <2> QED  BY <2>1, WrittenOrder
<1>10. /\ record["ID"] = Row(i)["ID"] /\ record["Name"] = Row(i)["Name"]
       /\ record["Programme"] = Row(i)["Programme"] /\ record["Mark"] = Row(i)["Mark"]
  BY <1>8, <1>9
<1>11. kept.records[i] \in Held
  BY <1>1, <1>5, KeptOrderIs
<1>12. /\ record["ID"] = i
       /\ [name |-> record["Name"], programme |-> record["Programme"], mark |-> record["Mark"]] = kept.records[i]
  BY <1>10, <1>11, HeldIs DEF Row
<1> QED  BY <1>3, <1>5, <1>12

\* A record is complete.
LEMMA EndRecordHolds == ASSUME DInv, EndRecord PROVE DInv'
<1> DEFINE r == [name |-> record["Name"], programme |-> record["Programme"], mark |-> record["Mark"]]
           id == record["ID"]
<1>1. /\ step = "fields" /\ Taken = 4
      /\ load' = [load EXCEPT !.records = Put(@, id, r)]
      /\ live' = live + 2 /\ step' = "records"
      /\ db' = db /\ saved' = saved /\ kept' = kept /\ err' = err /\ overran' = overran /\ lost' = lost
      /\ foreign' = foreign /\ unread' = unread /\ read' = read /\ atEnd' = atEnd /\ (cut' <=> cut)
      /\ record' = record /\ current' = current
  BY DEF EndRecord, GoTo, file, reading, Taken, cut
<1>2. TypeOK /\ LoadOK /\ ReadBack /\ Reading
  BY <1>1 DEF DInv, Reading
<1>3. FieldsInOrder /\ InAnyOrder(load.columns)
  BY <1>1, <1>2 DEF LoadOK
<1>4. id \in IDs /\ id \notin DOMAIN load.records /\ r \in Held
  BY <1>1, <1>2, <1>3, RecordComplete
<1>5. IsDB(load) /\ Strings(load) \in Int /\ live \in Int
  BY <1>2, StringsType DEF TypeOK
<1>6. load = [headers |-> load.headers, table |-> load.table, records |-> load.records, columns |-> load.columns]
  BY <1>5, DatabaseFields DEF IsDB
<1>7. load' = [load EXCEPT !.records = Put(load.records, id, r)]
  BY <1>1, <1>6
<1>8. ASSUME ~foreign
      PROVE  \E m : /\ m \in 1 .. Len(KeptOrder)
                    /\ LinesBefore(Behind + 3 + m) /\ load' = Loaded(m)
  <2>1. PICK m, i : /\ m \in 1 .. Len(KeptOrder) /\ i = KeptOrder[m]
                    /\ LinesBefore(Behind + 3 + m) /\ load = Loaded(m - 1)
                    /\ id = i /\ r = kept.records[i]
    BY <1>1, <1>8, CompleteSaved
  <2>2. Put(load.records, id, r) = FirstRecords(m)
    <3>1. load.records = FirstRecords(m - 1)
      BY <2>1 DEF Loaded
    <3>2. Put(FirstRecords(m - 1), i, kept.records[i]) = FirstRecords(m)
      BY <1>2, <2>1, NextRecord
    <3> QED  BY <2>1, <3>1, <3>2
  <2>3. load' = Loaded(m)
    BY <1>7, <2>1, <2>2 DEF Loaded
  <2> QED  BY <2>1, <2>3
<1> HIDE DEF r, id
<1>9. PICK S \in SUBSET IDs : S = DOMAIN load.records /\ IsFiniteSet(S) /\ load.records \in [S -> Held]
  BY <1>5, DatabaseFields, DatabaseType DEF IsDB
<1>10. IsDB(load') /\ Strings(load') = Strings(load) + 2
  <2>1. Put(load.records, id, r) \in [S \cup {id} -> Held]
    BY <1>4, <1>9, PutType
  <2>2. /\ S \cup {id} \in SUBSET IDs /\ IsFiniteSet(S \cup {id})
        /\ Cardinality(S \cup {id}) = Cardinality(S) + 1 /\ Cardinality(S) \in Nat
    BY <1>4, <1>9, FS_AddElement, FS_CardinalityType
  <2>3. /\ IsDB(load')
        /\ Strings(load') = Strings(load) - 2 * Cardinality(DOMAIN load.records) + 2 * Cardinality(S \cup {id})
    BY <1>5, <1>7, <2>1, <2>2, WithRecords
  <2> QED  BY <1>5, <1>9, <2>2, <2>3
<1>11. load'.columns = load.columns
  BY <1>6, <1>7
<1>12. LoadOK'
  BY <1>1, <1>3, <1>11 DEF LoadOK, Resting
<1>13. LinesCounted'
  BY <1>1 DEF LinesCounted
<1>14. ASSUME ~foreign PROVE SavedIsRead'
  <2>1. PICK m : m \in 1 .. Len(KeptOrder) /\ LinesBefore(Behind + 3 + m) /\ load' = Loaded(m)
    BY <1>8, <1>14
  <2>2. KeptOrder' = KeptOrder /\ Behind' = Behind /\ Loaded(m)' = Loaded(m)
    BY <1>1, KeptStays
  <2>3. LinesBefore(Behind + 3 + m)'
    BY <1>1, <2>1, <2>2 DEF LinesBefore
  <2>4. m \in 0 .. Len(KeptOrder)
    BY <2>1
  <2>5. \E n \in 0 .. Len(KeptOrder)' : LinesBefore(Behind + 3 + n)' /\ (load = Loaded(n))'
    BY <2>1, <2>2, <2>3, <2>4
  <2>6. saved # <<>>
    BY <1>2, <1>14 DEF ReadBack, SavedIsRead
  <2> QED  BY <1>1, <2>5, <2>6 DEF SavedIsRead
<1>15. /\ unread' \in Seq(Line) /\ read' \in LinesRead /\ record' \in SomeFields
       /\ current' \in Line \cup {NULL, Past} /\ overran' \in BOOLEAN
  BY <1>1, <1>2 DEF TypeOK, LinesRead
<1>16. atEnd' \in BOOLEAN /\ ~cut' /\ (foreign => unread' = <<>>)
  BY <1>1, <1>2 DEF TypeOK, ReadBack
<1>17. Reading'
  BY <1>1 DEF Reading
<1>18. live' = live + Strings(load') - Strings(load)
  BY <1>1, <1>5, <1>10
<1> QED  BY <1>1, <1>2, <1>10, <1>12, <1>13, <1>14, <1>15, <1>16, <1>17, <1>18, GoesOn

-----------------------------------------------------------------------------
(* The properties.                                                           *)

\* Nothing happens.
LEMMA StutterHolds == ASSUME DInv, UNCHANGED vars PROVE DInv'
<1>1. /\ db' = db /\ saved' = saved /\ kept' = kept /\ load' = load /\ record' = record /\ current' = current
      /\ step' = step /\ err' = err /\ overran' = overran /\ live' = live /\ lost' = lost
      /\ foreign' = foreign /\ unread' = unread /\ read' = read /\ atEnd' = atEnd /\ (cut' <=> cut)
  BY DEF vars, file, reading, cut
<1>2. TypeOK'
  BY <1>1 DEF DInv, TypeOK, Reading, Resting
<1>3. LoadOK'
  BY <1>1 DEF DInv, LoadOK, FieldsInOrder, Taken, IsUnordered, Resting
<1>4. StringsOwned'
  BY <1>1 DEF DInv, StringsOwned
<1>5. LinesCounted'
  BY <1>1 DEF DInv, LinesCounted, Counted, Taken
<1>6. /\ KeptOrder' = KeptOrder /\ Behind' = Behind
      /\ \A m : FirstRecords(m)' = FirstRecords(m)
      /\ \A m : Loaded(m)' = Loaded(m)
  BY <1>1, KeptStays
<1>7. \A n : LinesBefore(n)' <=> LinesBefore(n)
  BY <1>1 DEF LinesBefore
<1>8. \A k, i : TakenOf(k, i)' <=> TakenOf(k, i)
  BY <1>1, Zenon DEF TakenOf, Row, SavedLine
<1>9. SavedIsRead => SavedIsRead'
  <2>1. SavedIsRead' <=>
           /\ saved # <<>>
           /\ step = "headers" =>
                 \E n \in 0 .. Behind :
                    LinesBefore(n) /\ load = [NoDB EXCEPT !.headers = SubSeq(kept.headers, 1, n)]
           /\ step = "table" => LinesBefore(Behind + 1) /\ load = [NoDB EXCEPT !.headers = kept.headers]
           /\ step = "columns" =>
                 LinesBefore(Behind + 2) /\ load = [NoDB EXCEPT !.headers = kept.headers, !.table = kept.table]
           /\ step = "records" =>
                 \E m \in 0 .. Len(KeptOrder) : LinesBefore(Behind + 3 + m) /\ load = Loaded(m)
           /\ step = "fields" =>
                 \E m \in 1 .. Len(KeptOrder) :
                    /\ LinesBefore(Behind + 3 + m) /\ load = Loaded(m - 1)
                    /\ \E k \in 0 .. 4 : TakenOf(k, KeptOrder[m])
    BY <1>1, <1>6, <1>7, <1>8 DEF SavedIsRead
  <2> QED  BY <2>1, Zenon DEF SavedIsRead
<1>10. ReadBack'
  BY <1>1, <1>6, <1>9 DEF DInv, ReadBack, Reading
<1> QED  BY <1>2, <1>3, <1>4, <1>5, <1>10 DEF DInv

\* Every step keeps what holds.
LEMMA NextHolds == ASSUME DInv, [Next]_vars PROVE DInv'
<1>1. CASE \E f \in BOOLEAN : Open(f)
  BY <1>1, OpenHolds
<1>2. CASE ReadHeader
  BY <1>2, ReadHeaderHolds
<1>3. CASE ReadTable
  BY <1>3, ReadTableHolds
<1>4. CASE ReadColumns
  BY <1>4, ReadColumnsHolds
<1>5. CASE ReadRecord
  BY <1>5, ReadRecordHolds
<1>6. CASE NumberField
  BY <1>6, NumberFieldHolds
<1>7. CASE StringField
  BY <1>7, StringFieldHolds
<1>8. CASE EndRecord
  BY <1>8, EndRecordHolds
<1>9. CASE Save
  BY <1>9, SaveHolds
<1>10. CASE \E i \in IDs : Delete(i) \/ \E r \in Content : Insert(i, r) \/ Update(i, r)
  BY <1>10, DeleteHolds, InsertHolds, UpdateHolds
<1>11. CASE UNCHANGED vars
  BY <1>11, StutterHolds
<1> QED  BY <1>1, <1>2, <1>3, <1>4, <1>5, <1>6, <1>7, <1>8, <1>9, <1>10, <1>11 DEF Next

\* The inductive invariant.
LEMMA Invariance == Spec => []DInv
<1>1. Init => DInv
  BY InitHolds
<1>2. DInv /\ [Next]_vars => DInv'
  BY NextHolds
<1> QED  BY <1>1, <1>2, PTL DEF Spec

\* A cursor that runs out early has a foreign, short line before it, and so has a crash.
LEMMA RunsOut == ASSUME DInv PROVE OnlyShortLinesRunOver
<1>1. CASE step = "crashed"
  BY <1>1 DEF DInv, LinesCounted, OnlyShortLinesRunOver, CommasIn
<1>2. CASE step = "fields" /\ current = Past /\ Taken < 4
  <2>1. foreign
    <3>1. ASSUME ~foreign PROVE FALSE
      <4>1. PICK m, k, i : In(m, k, i)
        BY <1>2, <3>1, InSaved
      <4>2. current \in Line
        BY <4>1, SplitOfFour DEF In
      <4> QED  BY <1>2, <4>2, LineIsSomething
    <3> QED  BY <3>1
  <2>2. CommasIn(Last(read).text) < 3
    BY <1>2, <2>1, CursorIs, LineIsSomething
  <2> QED  BY <2>1, <2>2 DEF OnlyShortLinesRunOver, CommasIn
<1> QED  BY <1>1, <1>2 DEF OnlyShortLinesRunOver, Taken

\* All the records that were saved are the first ones, as many as there are.
LEMMA AllRecords ==
    ASSUME TypeOK
    PROVE  FirstRecords(Len(KeptOrder)) = kept.records
<1>1. /\ DOMAIN kept.records \subseteq IDs /\ IsFiniteSet(DOMAIN kept.records)
      /\ kept.records = [i \in DOMAIN kept.records |-> kept.records[i]]
  BY DatabaseType DEF TypeOK
<1>2. /\ \A n \in 1 .. Len(KeptOrder) : KeptOrder[n] \in DOMAIN kept.records
      /\ \A i \in DOMAIN kept.records : \E n \in 1 .. Len(KeptOrder) : KeptOrder[n] = i
  BY <1>1, InOrderLists DEF KeptOrder
<1>3. {KeptOrder[n] : n \in 1 .. Len(KeptOrder)} = DOMAIN kept.records
  BY <1>2
<1>4. FirstRecords(Len(KeptOrder)) = [i \in DOMAIN kept.records |-> kept.records[i]]
  BY <1>3 DEF FirstRecords
<1> QED  BY <1>1, <1>4

\* The first records are those of the lowest IDs.
LEMMA FirstAreLowest ==
    ASSUME TypeOK, NEW m \in 0 .. Len(KeptOrder)
    PROVE  /\ DOMAIN FirstRecords(m) \subseteq DOMAIN kept.records
           /\ \A i \in DOMAIN FirstRecords(m) :
                 /\ FirstRecords(m)[i] = kept.records[i]
                 /\ \A j \in DOMAIN kept.records : Number[j] < Number[i] => j \in DOMAIN FirstRecords(m)
<1>1. DOMAIN kept.records \subseteq IDs /\ IsFiniteSet(DOMAIN kept.records)
  BY DatabaseType DEF TypeOK
<1>2. /\ \A n \in 1 .. Len(KeptOrder) : KeptOrder[n] \in DOMAIN kept.records
      /\ \A i \in DOMAIN kept.records : \E n \in 1 .. Len(KeptOrder) : KeptOrder[n] = i
      /\ \A a, b \in 1 .. Len(KeptOrder) : a < b => Number[KeptOrder[a]] < Number[KeptOrder[b]]
      /\ Len(KeptOrder) \in Nat
  BY <1>1, InOrderLists, KeptOrderIs DEF KeptOrder
<1>3. DOMAIN FirstRecords(m) = {KeptOrder[n] : n \in 1 .. m}
  BY DEF FirstRecords
<1>4. \A n \in 1 .. m : n \in 1 .. Len(KeptOrder)
  BY <1>2
<1>5. DOMAIN FirstRecords(m) \subseteq DOMAIN kept.records
  BY <1>2, <1>3, <1>4
<1>6. ASSUME NEW i \in DOMAIN FirstRecords(m)
      PROVE  FirstRecords(m)[i] = kept.records[i]
  BY <1>6 DEF FirstRecords
<1>7. ASSUME NEW i \in DOMAIN FirstRecords(m), NEW j \in DOMAIN kept.records, Number[j] < Number[i]
      PROVE  j \in DOMAIN FirstRecords(m)
  <2>1. PICK n \in 1 .. m : i = KeptOrder[n]
    BY <1>3
  <2>2. PICK p \in 1 .. Len(KeptOrder) : j = KeptOrder[p]
    BY <1>2
  <2>3. n \in 1 .. Len(KeptOrder) /\ Number[i] \in Int /\ Number[j] \in Int
    BY <1>1, <1>4, <1>5, NumberAssumption
  <2>4. n = p => i = j
    BY <2>1, <2>2
  <2>5. ~(n < p)
    <3>1. n < p => Number[i] < Number[j]
      BY <1>2, <2>1, <2>2, <2>3
    <3> QED  BY <1>7, <2>3, <3>1
  <2>6. p < n
    BY <1>7, <2>3, <2>4, <2>5
  <2>7. p \in 1 .. m
    BY <2>6
  <2> QED  BY <1>3, <2>2, <2>7
<1> QED  BY <1>5, <1>6, <1>7

\* What is opened of a saved file.
LEMMA OpensWhatWasSaved == ASSUME DInv PROVE SavedIsOpened
<1>1. TypeOK /\ ReadBack
  BY DEF DInv
<1>2. SavedOpensSame
  <2>1. ASSUME ~foreign, ~cut, step = "opened" PROVE db = kept
    <3>1. db = [kept EXCEPT !.records = FirstRecords(Len(KeptOrder))]
      BY <1>1, <2>1 DEF ReadBack
    <3>2. kept = [headers |-> kept.headers, table |-> kept.table, records |-> kept.records, columns |-> kept.columns]
      BY <1>1, DatabaseFields DEF TypeOK, IsDB
    <3> QED  BY <1>1, <3>1, <3>2, AllRecords
  <2>2. ~foreign /\ ~cut /\ step = "refused" => err = "out_of_mem" \/ \E t \in Range(saved) : TooLong(t)
    BY <1>1 DEF ReadBack
  <2> QED  BY <2>1, <2>2 DEF SavedOpensSame
<1>3. CutOpensPart
  <2> SUFFICES ASSUME step = "opened", cut
               PROVE  /\ DOMAIN db.records \subseteq DOMAIN kept.records
                      /\ [db EXCEPT !.records = <<>>] = [kept EXCEPT !.records = <<>>]
                      /\ \A i \in DOMAIN db.records :
                            /\ db.records[i] = kept.records[i]
                            /\ \A j \in DOMAIN kept.records : Number[j] < Number[i] => j \in DOMAIN db.records
    BY DEF CutOpensPart
  <2>1. ~foreign
    BY <1>1 DEF ReadBack
  <2>2. PICK m \in 0 .. Len(KeptOrder) : db = [kept EXCEPT !.records = FirstRecords(m)]
    BY <1>1, <2>1 DEF ReadBack
  <2>3. kept = [headers |-> kept.headers, table |-> kept.table, records |-> kept.records, columns |-> kept.columns]
    BY <1>1, DatabaseFields DEF TypeOK, IsDB
  <2>4. db.records = FirstRecords(m) /\ [db EXCEPT !.records = <<>>] = [kept EXCEPT !.records = <<>>]
    BY <2>2, <2>3
  <2> QED  BY <1>1, <2>4, FirstAreLowest
<1> QED  BY <1>2, <1>3 DEF SavedIsOpened

\* No string is lost but the headers of a file that was refused: DB_destroy frees what is
\* closed, error_cleanup what was read, but for the headers (db.c:231).
THEOREM StringsStayOwned == Spec => []StringsOwned
<1>1. DInv => StringsOwned
  BY DEF DInv
<1> QED  BY <1>1, Invariance, PTL

\* NULL is read through where a column is looked for (db.c:73, tokenizer.c:94) or a string
\* (db.c:184), or the cursor goes over the end of a line (db.c:197), only in a line of a
\* foreign file with fewer than three commas, whatever is in the file and behind the line;
\* what DB_to_file writes never leads there.
THEOREM LinesAreCut == Spec => []OnlyShortLinesRunOver
BY RunsOut, Invariance, PTL

\* What DB_to_file writes is opened again as it was, or refused for a line that is too
\* long or for want of memory; after a read error, what is opened are the records of the
\* lowest IDs (db.c:162, db.c:214).
THEOREM SavedOpensAgain == Spec => []SavedIsOpened
BY OpensWhatWasSaved, Invariance, PTL
=============================================================================
