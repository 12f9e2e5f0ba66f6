----------------------------- MODULE TTreeProofs -----------------------------
(***************************************************************************)
(* The T-tree never leaves its types, and never holds more entries in a     *)
(* node than the node has room for.  The second part: the nodes handed out  *)
(* form one tree, every node but the one a call is working on holds records *)
(* whose last ID is in last_id, and internal nodes hold enough of them.  The *)
(* last part prepares TTreeOrderProofs: what rotations, moves, inserts and  *)
(* merges do to the keys of any tree.                                       *)
(***************************************************************************)
EXTENDS TTree, SequenceTheorems, WellFoundedInduction, NaturalsInduction, TLAPS

Heap == {h \in [Nodes -> TNode] :
            \A n \in Nodes : Len(h[n].data) = Len(h[n].ids) /\ Len(h[n].ids) <= NodeSize}

-----------------------------------------------------------------------------
(* Sequences.                                                               *)

\* A slice of a sequence is a sequence, as long as its bounds say.
LEMMA SliceType ==
    ASSUME NEW S, NEW s \in Seq(S), NEW m \in Nat, m >= 1, NEW n \in Int, n <= Len(s)
    PROVE  /\ SubSeq(s, m, n) \in Seq(S)
           /\ Len(SubSeq(s, m, n)) = IF m <= n THEN n - m + 1 ELSE 0
<1>1. \A i \in m .. n : s[i] \in S
  BY ElementOfSeq, LenProperties
<1> QED  BY <1>1, SubSeqProperties, SMT

\* The concatenation of two sequences is as long as both.
LEMMA ConcatType ==
    ASSUME NEW S, NEW s \in Seq(S), NEW t \in Seq(S)
    PROVE  s \o t \in Seq(S) /\ Len(s \o t) = Len(s) + Len(t)
BY ConcatProperties

\* Putting an element between two sequences.
LEMMA BetweenType ==
    ASSUME NEW S, NEW s \in Seq(S), NEW e \in S, NEW t \in Seq(S)
    PROVE  /\ s \o <<e>> \o t \in Seq(S)
           /\ Len(s \o <<e>> \o t) = Len(s) + 1 + Len(t)
<1>1. <<e>> \in Seq(S) /\ Len(<<e>>) = 1
  OBVIOUS
<1>2. s \o <<e>> \in Seq(S) /\ Len(s \o <<e>>) = Len(s) + 1
  BY <1>1, ConcatType
<1> QED  BY <1>2, ConcatType, LenProperties

\* Inserting into a sequence makes it longer by one.
LEMMA InsertAtType ==
    ASSUME NEW S, NEW s \in Seq(S), NEW i \in 1 .. Len(s) + 1, NEW e \in S
    PROVE  InsertAt(s, i, e) \in Seq(S) /\ Len(InsertAt(s, i, e)) = Len(s) + 1
<1> DEFINE a == SubSeq(s, 1, i - 1)
           c == SubSeq(s, i, Len(s))
<1>1. a \in Seq(S) /\ Len(a) = i - 1 /\ c \in Seq(S) /\ Len(c) = Len(s) - i + 1
  BY SliceType, LenProperties
<1> HIDE DEF a, c
<1>2. a \o <<e>> \o c \in Seq(S) /\ Len(a \o <<e>> \o c) = Len(s) + 1
  BY <1>1, BetweenType, LenProperties
<1> QED  BY <1>2, Zenon DEF InsertAt, a, c

\* Removing from a sequence makes it shorter by one.
LEMMA RemoveAtType ==
    ASSUME NEW S, NEW s \in Seq(S), NEW i \in 1 .. Len(s)
    PROVE  RemoveAt(s, i) \in Seq(S) /\ Len(RemoveAt(s, i)) = Len(s) - 1
<1> DEFINE a == SubSeq(s, 1, i - 1)
           c == SubSeq(s, i + 1, Len(s))
<1>1. a \in Seq(S) /\ Len(a) = i - 1 /\ c \in Seq(S) /\ Len(c) = Len(s) - i
  BY SliceType, LenProperties
<1> HIDE DEF a, c
<1>2. a \o c \in Seq(S) /\ Len(a \o c) = Len(s) - 1
  BY <1>1, ConcatType
<1> QED  BY <1>2, Zenon DEF RemoveAt, a, c

\* The front of a sequence that is not empty, and its last element.
LEMMA FrontLastType ==
    ASSUME NEW S, NEW s \in Seq(S), s # <<>>
    PROVE  Front(s) \in Seq(S) /\ Len(Front(s)) = Len(s) - 1 /\ Last(s) \in S
<1>1. Len(s) \in Nat /\ Len(s) >= 1
  BY EmptySeq, LenProperties
<1> DEFINE n == Len(s) - 1
<1>2. n \in Int /\ n <= Len(s) /\ n >= 0
  BY <1>1
<1> HIDE DEF n
<1>3. SubSeq(s, 1, n) \in Seq(S) /\ Len(SubSeq(s, 1, n)) = n
  BY <1>2, SliceType
<1>4. s[Len(s)] \in S
  BY <1>1, ElementOfSeq
<1> QED  BY <1>3, <1>4 DEF Front, Last, n

\* Shifting an element in over the first one keeps the length.
LEMMA ShiftInType ==
    ASSUME NEW S, NEW s \in Seq(S), NEW p \in Nat, 1 <= p, p <= Len(s), NEW e \in S
    PROVE  ShiftIn(s, p, e) \in Seq(S) /\ Len(ShiftIn(s, p, e)) = Len(s)
<1> DEFINE a == SubSeq(s, 2, p)
           c == SubSeq(s, p + 1, Len(s))
<1>1. a \in Seq(S) /\ Len(a) = p - 1 /\ c \in Seq(S) /\ Len(c) = Len(s) - p
  BY SliceType, LenProperties
<1> HIDE DEF a, c
<1>2. a \o <<e>> \o c \in Seq(S) /\ Len(a \o <<e>> \o c) = Len(a) + 1 + Len(c)
  BY <1>1, BetweenType, Zenon
<1>3. Len(a \o <<e>> \o c) = Len(s)
  <2>1. Len(s) \in Nat
    BY LenProperties
  <2>2. Len(a) + 1 + Len(c) = Len(s)
    BY <1>1, <2>1
  <2> QED  BY <1>2, <2>2
<1> QED  BY <1>2, <1>3, Zenon DEF ShiftIn, a, c

\* What a move adds to one node ...
LEMMA GraftType ==
    ASSUME NEW S, NEW s \in Seq(S), NEW t \in Seq(S),
           NEW p \in Nat, NEW from \in Nat, NEW len \in Nat,
           p <= Len(s), from + len <= Len(t)
    PROVE  Graft(s, p, t, from, len) \in Seq(S) /\ Len(Graft(s, p, t, from, len)) = Len(s) + len
<1> DEFINE m == from + 1
           n == from + len
           a == SubSeq(s, 1, p)
           b == SubSeq(t, m, n)
           c == SubSeq(s, p + 1, Len(s))
<1>1. a \in Seq(S) /\ Len(a) = p
  BY SliceType, LenProperties
<1>9. c \in Seq(S) /\ Len(c) = Len(s) - p
  <2> DEFINE q == p + 1
  <2>1. q \in Nat /\ q >= 1 /\ Len(s) \in Int /\ q <= Len(s) + 1 /\ q = p + 1
    BY LenProperties
  <2> HIDE DEF q
  <2>2. SubSeq(s, q, Len(s)) \in Seq(S) /\ Len(SubSeq(s, q, Len(s))) = Len(s) - p
    BY <2>1, SliceType
  <2> QED  BY <2>2 DEF q
<1>2. m \in Nat /\ m >= 1 /\ n \in Int /\ n <= Len(t) /\ len = n - m + 1
  BY LenProperties
<1> HIDE DEF m, n
<1>3. b \in Seq(S) /\ Len(b) = len
  BY <1>2, SliceType
<1> HIDE DEF a, b, c
<1>4. a \o b \in Seq(S) /\ Len(a \o b) = Len(a) + len
  BY <1>1, <1>3, ConcatType, Zenon
<1>5. a \o b \o c \in Seq(S) /\ Len(a \o b \o c) = Len(a \o b) + Len(c)
  BY <1>9, <1>4, ConcatType, Zenon
<1>6. Len(a \o b \o c) = Len(s) + len
  BY <1>1, <1>9, <1>4, <1>5, LenProperties
<1> QED  BY <1>5, <1>6, Zenon DEF Graft, a, b, c, m, n

\* ... and takes from the other.
LEMMA CutType ==
    ASSUME NEW S, NEW s \in Seq(S), NEW from \in Nat, NEW len \in Nat, from + len <= Len(s)
    PROVE  Cut(s, from, len) \in Seq(S) /\ Len(Cut(s, from, len)) = Len(s) - len
<1> DEFINE m == from + len + 1
           a == SubSeq(s, 1, from)
           c == SubSeq(s, m, Len(s))
<1>1. a \in Seq(S) /\ Len(a) = from
  BY SliceType, LenProperties
<1>2. m \in Nat /\ m >= 1 /\ m = from + len + 1 /\ Len(s) \in Nat
  BY LenProperties
<1> HIDE DEF m
<1>3. c \in Seq(S) /\ Len(c) = Len(s) - from - len
  BY <1>2, SliceType
<1> HIDE DEF a, c
<1>4. a \o c \in Seq(S) /\ Len(a \o c) = Len(s) - len
  BY <1>1, <1>2, <1>3, ConcatType
<1> QED  BY <1>4, Zenon DEF Cut, a, c, m

-----------------------------------------------------------------------------
(* The node operations keep a heap a heap.                                  *)

\* Replacing what one node holds, the rest being left alone.
LEMMA HeapExcept ==
    ASSUME NEW h \in Heap, NEW n \in Nodes, NEW r \in TNode,
           Len(r.data) = Len(r.ids), Len(r.ids) <= NodeSize
    PROVE  [h EXCEPT ![n] = r] \in Heap
BY DEF Heap

\* A node fresh from the allocator is a node, and has room.
LEMMA BlankType == Blank \in TNode /\ Len(Blank.data) = Len(Blank.ids) /\ Len(Blank.ids) <= NodeSize
BY EmptySeq, SizeAssumption DEF Blank, TNode, Ptr

\* What a heap holds at a node.
LEMMA HeapNode ==
    ASSUME NEW h \in Heap, NEW n \in Nodes
    PROVE  /\ h[n] \in TNode
           /\ Length(h, n) \in 0 .. NodeSize
           /\ Len(h[n].data) = Length(h, n)
           /\ h[n].left \in Ptr /\ h[n].right \in Ptr /\ h[n].height \in Nat
           /\ h[n].ids \in Seq(ID) /\ h[n].data \in Seq(Record) /\ h[n].last_id \in Nat
BY LenProperties, SizeAssumption DEF Heap, TNode, Length

\* Overwriting the two arrays of a node with arrays that are equally long and fit keeps a
\* heap a heap, and touches the entries of no other node.
LEMMA SetItemsType ==
    ASSUME NEW h \in Heap, NEW n \in Nodes, NEW ids \in Seq(ID), NEW data \in Seq(Record),
           Len(data) = Len(ids), Len(ids) <= NodeSize
    PROVE  /\ SetItems(h, n, ids, data) \in Heap
           /\ SetItems(h, n, ids, data)[n].ids = ids
           /\ SetItems(h, n, ids, data)[n].data = data
           /\ \A m \in Nodes : /\ SetItems(h, n, ids, data)[m].left = h[m].left
                               /\ SetItems(h, n, ids, data)[m].right = h[m].right
                               /\ m # n => SetItems(h, n, ids, data)[m] = h[m]
<1> DEFINE last == IF ids = <<>> THEN h[n].last_id ELSE ids[Len(ids)]
           r == [h[n] EXCEPT !.ids = ids, !.data = data, !.last_id = last]
<1>1. last \in Nat
  <2>1. CASE ids = <<>>
    BY <2>1, HeapNode
  <2>2. CASE ids # <<>>
    <3>1. Len(ids) \in 1 .. Len(ids)
      BY <2>2, EmptySeq
    <3> QED  BY <2>2, <3>1, ElementOfSeq, IDAssumption, Zenon
  <2> QED  BY <2>1, <2>2
<1>2. h[n] \in TNode
  BY HeapNode
<1>3. SetItems(h, n, ids, data) = [h EXCEPT ![n] = r]
  BY <1>2, Zenon DEF SetItems, TNode, Heap
<1> HIDE DEF last
<1>4. r \in TNode /\ r.ids = ids /\ r.data = data /\ r.left = h[n].left /\ r.right = h[n].right
  BY <1>1, <1>2, Zenon DEF TNode
<1> HIDE DEF r
<1>5. [h EXCEPT ![n] = r] \in Heap
  BY <1>4, HeapExcept
<1> QED  BY <1>3, <1>4, <1>5 DEF Heap

\* __ttree_node_insert: a node with room takes one more entry.
LEMMA NodeInsertType ==
    ASSUME NEW h \in Heap, NEW n \in Nodes, NEW p \in 0 .. Length(h, n), NEW e \in Entry,
           Length(h, n) < NodeSize
    PROVE  /\ NodeInsert(h, n, p, e) \in Heap
           /\ Length(NodeInsert(h, n, p, e), n) = Length(h, n) + 1
           /\ \A m \in Nodes : /\ NodeInsert(h, n, p, e)[m].left = h[m].left
                               /\ NodeInsert(h, n, p, e)[m].right = h[m].right
                               /\ m # n => NodeInsert(h, n, p, e)[m] = h[m]
<1> DEFINE i == p + 1
           ids == InsertAt(h[n].ids, i, e.id)
           data == InsertAt(h[n].data, i, e.rec)
<1>1. e.id \in ID /\ e.rec \in Record
  BY DEF Entry
<1>2. i \in 1 .. Len(h[n].ids) + 1 /\ i \in 1 .. Len(h[n].data) + 1
  BY HeapNode, SizeAssumption DEF Length
<1> HIDE DEF i
<1>3. /\ ids \in Seq(ID) /\ Len(ids) = Length(h, n) + 1
      /\ data \in Seq(Record) /\ Len(data) = Length(h, n) + 1
  <2>1. h[n].ids \in Seq(ID) /\ h[n].data \in Seq(Record) /\ Len(h[n].data) = Len(h[n].ids)
    BY HeapNode DEF Length
  <2>2. ids \in Seq(ID) /\ Len(ids) = Len(h[n].ids) + 1
    BY <1>1, <1>2, <2>1, InsertAtType
  <2>3. data \in Seq(Record) /\ Len(data) = Len(h[n].data) + 1
    <3> DEFINE d == h[n].data
    <3>1. d \in Seq(Record) /\ i \in 1 .. Len(d) + 1 /\ e.rec \in Record
      BY <1>1, <1>2, <2>1
    <3> HIDE DEF d
    <3>2. InsertAt(d, i, e.rec) \in Seq(Record) /\ Len(InsertAt(d, i, e.rec)) = Len(d) + 1
      BY <3>1, InsertAtType
    <3> QED  BY <3>2 DEF d
  <2> QED  BY <2>1, <2>2, <2>3 DEF Length
<1>4. NodeInsert(h, n, p, e) = SetItems(h, n, ids, data)
  BY DEF NodeInsert, i
<1> HIDE DEF ids, data
<1>5. Len(ids) <= NodeSize
  BY <1>3, HeapNode, SizeAssumption
<1> QED  BY <1>3, <1>4, <1>5, SetItemsType DEF Length

\* __ttree_node_remove: a node with an entry has one entry less.
LEMMA NodeRemoveType ==
    ASSUME NEW h \in Heap, NEW n \in Nodes, NEW p \in Nat, p < Length(h, n)
    PROVE  /\ NodeRemove(h, n, p) \in Heap
           /\ Length(NodeRemove(h, n, p), n) = Length(h, n) - 1
           /\ \A m \in Nodes : /\ NodeRemove(h, n, p)[m].left = h[m].left
                               /\ NodeRemove(h, n, p)[m].right = h[m].right
                               /\ m # n => NodeRemove(h, n, p)[m] = h[m]
<1> DEFINE i == p + 1
           ids == RemoveAt(h[n].ids, i)
           data == RemoveAt(h[n].data, i)
<1>1. i \in 1 .. Len(h[n].ids) /\ i \in 1 .. Len(h[n].data)
  BY HeapNode, SizeAssumption DEF Length
<1> HIDE DEF i
<1>2. /\ ids \in Seq(ID) /\ Len(ids) = Length(h, n) - 1
      /\ data \in Seq(Record) /\ Len(data) = Length(h, n) - 1
  BY <1>1, RemoveAtType, HeapNode, Zenon DEF Length
<1>3. NodeRemove(h, n, p) = SetItems(h, n, ids, data)
  BY DEF NodeRemove, i
<1> HIDE DEF ids, data
<1>4. Len(ids) <= NodeSize
  BY <1>2, HeapNode, SizeAssumption
<1> QED  BY <1>2, <1>3, <1>4, SetItemsType DEF Length

\* __ttree_node_insert_removing_first: the number of entries stays.
LEMMA InsertRemovingFirstType ==
    ASSUME NEW h \in Heap, NEW n \in Nodes, NEW p \in 1 .. Length(h, n), NEW e \in Entry
    PROVE  /\ InsertRemovingFirst(h, n, p, e) \in Heap
           /\ \A m \in Nodes : /\ InsertRemovingFirst(h, n, p, e)[m].left = h[m].left
                               /\ InsertRemovingFirst(h, n, p, e)[m].right = h[m].right
                               /\ m # n => InsertRemovingFirst(h, n, p, e)[m] = h[m]
<1> DEFINE oldids == h[n].ids
           olddata == h[n].data
           ids == ShiftIn(oldids, p, e.id)
           data == ShiftIn(olddata, p, e.rec)
           r == [h[n] EXCEPT !.ids = ids, !.data = data]
<1>1. e.id \in ID /\ e.rec \in Record
  BY DEF Entry
<1>2. /\ p \in Nat /\ 1 <= p
      /\ oldids \in Seq(ID) /\ p <= Len(oldids) /\ Len(oldids) = Length(h, n)
      /\ olddata \in Seq(Record) /\ p <= Len(olddata) /\ Len(olddata) = Length(h, n)
  BY HeapNode, SizeAssumption DEF Length
<1>4. InsertRemovingFirst(h, n, p, e) = [h EXCEPT ![n] = r]
  BY HeapNode, Zenon DEF InsertRemovingFirst, TNode, Heap
<1> HIDE DEF oldids, olddata
<1>3. ids \in Seq(ID) /\ Len(ids) = Len(oldids)
  <2>1. oldids \in Seq(ID) /\ p \in Nat /\ 1 <= p /\ p <= Len(oldids) /\ e.id \in ID
    BY <1>1, <1>2
  <2> QED  BY <2>1, ShiftInType, Zenon
<1>5. data \in Seq(Record) /\ Len(data) = Len(olddata)
  <2>1. olddata \in Seq(Record) /\ p \in Nat /\ 1 <= p /\ p <= Len(olddata) /\ e.rec \in Record
    BY <1>1, <1>2
  <2> QED  BY <2>1, ShiftInType, Zenon
<1> HIDE DEF ids, data
<1>6. r \in TNode /\ r.ids = ids /\ r.data = data /\ r.left = h[n].left /\ r.right = h[n].right
  BY <1>3, <1>5, HeapNode, Zenon DEF TNode
<1> HIDE DEF r
<1>7. [h EXCEPT ![n] = r] \in Heap
  <2>1. Length(h, n) <= NodeSize
    BY HeapNode DEF Length
  <2>2. r \in TNode /\ Len(r.data) = Len(r.ids) /\ Len(r.ids) <= NodeSize
    BY <1>2, <1>3, <1>5, <1>6, <2>1
  <2> QED  BY <2>2, HeapExcept
<1> QED  BY <1>4, <1>6, <1>7 DEF Heap

\* __ttree_node_move: when its asserts hold, no write leaves the arrays of dst, and src
\* loses as many entries as dst gains.
LEMMA MoveType ==
    ASSUME NEW h \in Heap, NEW dst \in Nodes, NEW src \in Nodes,
           NEW p \in Nat, NEW from \in Nat, NEW len \in Nat,
           MoveAsserts(h, dst, p, src, from, len), Length(h, dst) + len <= NodeSize
    PROVE  /\ Move(h, dst, p, src, from, len) \in Heap
           /\ Length(Move(h, dst, p, src, from, len), dst) = Length(h, dst) + len
           /\ \A m \in Nodes : /\ Move(h, dst, p, src, from, len)[m].left = h[m].left
                               /\ Move(h, dst, p, src, from, len)[m].right = h[m].right
                               /\ m \notin {dst, src} =>
                                    Move(h, dst, p, src, from, len)[m] = h[m]
<1> DEFINE di == h[dst].ids
           dd == h[dst].data
           si == h[src].ids
           sd == h[src].data
           gi == Graft(di, p, si, from, len)
           gd == Graft(dd, p, sd, from, len)
           ci == Cut(si, from, len)
           cd == Cut(sd, from, len)
           g == SetItems(h, dst, gi, gd)
<1>1. dst # src /\ p <= Length(h, dst) /\ from + len <= Length(h, src)
  BY DEF MoveAsserts
<1>2. /\ di \in Seq(ID) /\ dd \in Seq(Record) /\ si \in Seq(ID) /\ sd \in Seq(Record)
      /\ Len(di) = Length(h, dst) /\ Len(dd) = Length(h, dst)
      /\ Len(si) = Length(h, src) /\ Len(sd) = Length(h, src)
      /\ Length(h, dst) \in 0 .. NodeSize /\ Length(h, src) \in 0 .. NodeSize
  BY HeapNode DEF Length
<1>8. Move(h, dst, p, src, from, len) = SetItems(g, src, ci, cd)
  BY DEF Move
<1> HIDE DEF di, dd, si, sd
<1>3. /\ p <= Len(di) /\ p <= Len(dd)
      /\ from + len <= Len(si) /\ from + len <= Len(sd)
  BY <1>1, <1>2
<1>4. gi \in Seq(ID) /\ Len(gi) = Len(di) + len
  <2>1. \A s, t \in Seq(ID) : p <= Len(s) /\ from + len <= Len(t) =>
            Graft(s, p, t, from, len) \in Seq(ID) /\ Len(Graft(s, p, t, from, len)) = Len(s) + len
    BY GraftType
  <2> QED  BY <1>2, <1>3, <2>1
<1>5. gd \in Seq(Record) /\ Len(gd) = Len(dd) + len
  <2>1. \A s, t \in Seq(Record) : p <= Len(s) /\ from + len <= Len(t) =>
            Graft(s, p, t, from, len) \in Seq(Record) /\ Len(Graft(s, p, t, from, len)) = Len(s) + len
    BY GraftType
  <2> QED  BY <1>2, <1>3, <2>1, Zenon
<1>6. ci \in Seq(ID) /\ Len(ci) = Len(si) - len
  BY <1>2, <1>3, CutType, Zenon
<1>7. cd \in Seq(Record) /\ Len(cd) = Len(sd) - len
  BY <1>2, <1>3, CutType, Zenon
<1> HIDE DEF gi, gd, ci, cd
<1>9. /\ g \in Heap /\ Len(g[dst].ids) = Length(h, dst) + len
      /\ \A m \in Nodes : /\ g[m].left = h[m].left /\ g[m].right = h[m].right
                          /\ m # dst => g[m] = h[m]
  <2>1. gi \in Seq(ID) /\ gd \in Seq(Record) /\ Len(gd) = Len(gi) /\ Len(gi) <= NodeSize
    BY <1>2, <1>4, <1>5
  <2>2. Len(gi) = Length(h, dst) + len
    BY <1>2, <1>4
  <2> QED  BY <2>1, <2>2, SetItemsType
<1> HIDE DEF g
<1>10. Len(ci) <= NodeSize /\ Len(cd) = Len(ci)
  BY <1>2, <1>6, <1>7, SizeAssumption
<1>11. /\ SetItems(g, src, ci, cd) \in Heap
       /\ \A m \in Nodes : /\ SetItems(g, src, ci, cd)[m].left = g[m].left
                           /\ SetItems(g, src, ci, cd)[m].right = g[m].right
                           /\ m # src => SetItems(g, src, ci, cd)[m] = g[m]
  BY <1>6, <1>7, <1>9, <1>10, SetItemsType
<1> QED  BY <1>1, <1>8, <1>9, <1>11 DEF Length

\* __ttree_node_merge: when its asserts hold, everything fits into dst.
LEMMA MergeType ==
    ASSUME NEW h \in Heap, NEW l \in Nodes, NEW r \in Nodes,
           l # r, Length(h, l) + Length(h, r) <= NodeSize
    PROVE  /\ Merge(h, l, r) \in Heap
           /\ Merge(h, l, r)[r] = Blank
           /\ \A m \in Nodes \ {l, r} : Merge(h, l, r)[m] = h[m]
<1> DEFINE li == h[l].ids
           ld == h[l].data
           ri == h[r].ids
           rd == h[r].data
           ids == li \o ri
           data == ld \o rd
           g == SetItems(h, l, ids, data)
<1>1. /\ li \in Seq(ID) /\ ri \in Seq(ID) /\ Len(li) = Length(h, l) /\ Len(ri) = Length(h, r)
      /\ ld \in Seq(Record) /\ rd \in Seq(Record) /\ Len(ld) = Length(h, l)
      /\ Len(rd) = Length(h, r)
  BY HeapNode DEF Length
<1>4. Merge(h, l, r) = [g EXCEPT ![r] = Blank]
  BY DEF Merge
<1> HIDE DEF li, ld, ri, rd
<1>2. ids \in Seq(ID) /\ Len(ids) = Length(h, l) + Length(h, r)
  BY <1>1, ConcatType
<1>3. data \in Seq(Record) /\ Len(data) = Length(h, l) + Length(h, r)
  BY <1>1, ConcatType
<1> HIDE DEF ids, data
<1>5. g \in Heap /\ \A m \in Nodes : m # l => g[m] = h[m]
  BY <1>2, <1>3, SetItemsType
<1> HIDE DEF g
<1>6. [g EXCEPT ![r] = Blank] \in Heap
  BY <1>5, HeapExcept, BlankType
<1> QED  BY <1>4, <1>5, <1>6 DEF Heap

\* The height of a subtree is a number, for the empty one too.
LEMMA HeightType == ASSUME NEW h \in Heap, NEW n \in Ptr PROVE Height(h, n) \in Nat
BY HeapNode DEF Height, Ptr

\* __ttree_node_update_height changes no entry and no pointer.
LEMMA UpdateHeightType ==
    ASSUME NEW h \in Heap, NEW n \in Nodes
    PROVE  /\ UpdateHeight(h, n) \in Heap
           /\ \A m \in Nodes : /\ UpdateHeight(h, n)[m].left = h[m].left
                               /\ UpdateHeight(h, n)[m].right = h[m].right
                               /\ UpdateHeight(h, n)[m].ids = h[m].ids
                               /\ m # n => UpdateHeight(h, n)[m] = h[m]
<1> DEFINE k == 1 + Max2(Height(h, h[n].left), Height(h, h[n].right))
           r == [h[n] EXCEPT !.height = k]
<1>1. k \in Nat
  BY HeapNode, HeightType DEF Max2
<1>2. UpdateHeight(h, n) = [h EXCEPT ![n] = r]
  BY HeapNode DEF UpdateHeight, TNode, Heap
<1> HIDE DEF k
<1>3. /\ r \in TNode /\ r.left = h[n].left /\ r.right = h[n].right
      /\ r.ids = h[n].ids /\ r.data = h[n].data
  BY <1>1, HeapNode DEF TNode
<1> HIDE DEF r
<1>4. [h EXCEPT ![n] = r] \in Heap
  BY <1>3, HeapExcept, HeapNode DEF Length
<1> QED  BY <1>2, <1>3, <1>4 DEF Heap

\* Overwriting a pointer.
LEMMA SetLeftType ==
    ASSUME NEW h \in Heap, NEW n \in Nodes, NEW q \in Ptr
    PROVE  /\ [h EXCEPT ![n].left = q] \in Heap
           /\ \A m \in Nodes : [h EXCEPT ![n].left = q][m].ids = h[m].ids
BY Zenon DEF Heap, TNode

\* The same on the right.
LEMMA SetRightType ==
    ASSUME NEW h \in Heap, NEW n \in Nodes, NEW q \in Ptr
    PROVE  /\ [h EXCEPT ![n].right = q] \in Heap
           /\ \A m \in Nodes : [h EXCEPT ![n].right = q][m].ids = h[m].ids
BY Zenon DEF Heap, TNode

-----------------------------------------------------------------------------
(* Rotations and stealing.                                                  *)

\* __leftRotate of a node with a right child: the heap stays a heap, its result is a node,
\* and no entry moves.
LEMMA LeftRotateType ==
    ASSUME NEW h \in Heap, NEW n \in Nodes, h[n].right \in Nodes
    PROVE  /\ LeftRotate(h, n).heap \in Heap
           /\ LeftRotate(h, n).top = h[n].right
           /\ \A m \in Nodes : LeftRotate(h, n).heap[m].ids = h[m].ids
<1> DEFINE r == h[n].right
           q == h[r].left
           g1 == [h EXCEPT ![r].left = n]
           g2 == [g1 EXCEPT ![n].right = q]
           g3 == UpdateHeight(g2, n)
           g4 == UpdateHeight(g3, r)
<1>1. LeftRotate(h, n).heap = g4 /\ LeftRotate(h, n).top = r
  BY DEF LeftRotate
<1>2. r \in Nodes /\ q \in Ptr /\ n \in Ptr
  BY HeapNode DEF Ptr
<1>3. r = h[n].right
  OBVIOUS
<1> HIDE DEF r, q
<1>4. g1 \in Heap /\ \A m \in Nodes : g1[m].ids = h[m].ids
  BY <1>2, SetLeftType
<1> HIDE DEF g1
<1>5. g2 \in Heap /\ \A m \in Nodes : g2[m].ids = g1[m].ids
  BY <1>2, <1>4, SetRightType
<1> HIDE DEF g2
<1>6. g3 \in Heap /\ \A m \in Nodes : g3[m].ids = g2[m].ids
  BY <1>5, UpdateHeightType
<1> HIDE DEF g3
<1>7. g4 \in Heap /\ \A m \in Nodes : g4[m].ids = g3[m].ids
  BY <1>2, <1>6, UpdateHeightType
<1> HIDE DEF g4
<1> QED  BY <1>1, <1>3, <1>4, <1>5, <1>6, <1>7

\* __rightRotate likewise, of a node with a left child.
LEMMA RightRotateType ==
    ASSUME NEW h \in Heap, NEW n \in Nodes, h[n].left \in Nodes
    PROVE  /\ RightRotate(h, n).heap \in Heap
           /\ RightRotate(h, n).top = h[n].left
           /\ \A m \in Nodes : RightRotate(h, n).heap[m].ids = h[m].ids
<1> DEFINE l == h[n].left
           q == h[l].right
           g1 == [h EXCEPT ![l].right = n]
           g2 == [g1 EXCEPT ![n].left = q]
           g3 == UpdateHeight(g2, n)
           g4 == UpdateHeight(g3, l)
<1>1. RightRotate(h, n).heap = g4 /\ RightRotate(h, n).top = l
  BY DEF RightRotate
<1>2. l \in Nodes /\ q \in Ptr /\ n \in Ptr
  BY HeapNode DEF Ptr
<1>3. l = h[n].left
  OBVIOUS
<1> HIDE DEF l, q
<1>4. g1 \in Heap /\ \A m \in Nodes : g1[m].ids = h[m].ids
  BY <1>2, SetRightType
<1> HIDE DEF g1
<1>5. g2 \in Heap /\ \A m \in Nodes : g2[m].ids = g1[m].ids
  BY <1>2, <1>4, SetLeftType
<1> HIDE DEF g2
<1>6. g3 \in Heap /\ \A m \in Nodes : g3[m].ids = g2[m].ids
  BY <1>5, UpdateHeightType
<1> HIDE DEF g3
<1>7. g4 \in Heap /\ \A m \in Nodes : g4[m].ids = g3[m].ids
  BY <1>2, <1>6, UpdateHeightType
<1> HIDE DEF g4
<1> QED  BY <1>1, <1>3, <1>4, <1>5, <1>6, <1>7

\* A subtree that is one level too high on a side has a node on that side.
LEMMA HighSide ==
    ASSUME NEW h \in Heap, NEW n \in Nodes
    PROVE  /\ BalanceFactor(h, n) \in Int
           /\ BalanceFactor(h, n) > 0 => h[n].left \in Nodes
           /\ BalanceFactor(h, n) < 0 => h[n].right \in Nodes
<1>1. /\ Height(h, h[n].left) \in Nat /\ Height(h, h[n].right) \in Nat
      /\ h[n].left \in Ptr /\ h[n].right \in Ptr
  BY HeapNode, HeightType
<1>2. Height(h, NIL) = 0
  BY DEF Height
<1> QED  BY <1>1, <1>2 DEF BalanceFactor, Ptr

\* __rebalance_subtree dereferences only children that exist, since a balance factor beyond
\* one means that there are some.
LEMMA RebalanceSubtreeType ==
    ASSUME NEW h \in Heap, NEW n \in Nodes
    PROVE  /\ RebalanceSubtree(h, n).heap \in Heap
           /\ RebalanceSubtree(h, n).top \in Nodes
           /\ \A m \in Nodes : RebalanceSubtree(h, n).heap[m].ids = h[m].ids
<1> DEFINE b == BalanceFactor(h, n)
           bl == BalanceFactor(h, h[n].left)
           br == BalanceFactor(h, h[n].right)
<1>0. /\ b \in Int
      /\ b > 1 => h[n].left \in Nodes /\ bl \in Int
      /\ b < -1 => h[n].right \in Nodes /\ br \in Int
  BY HighSide
<1>1. CASE b > 1 /\ bl >= 0
  <2>1. RebalanceSubtree(h, n) = RightRotate(h, n)
    BY <1>0, <1>1 DEF RebalanceSubtree
  <2> QED  BY <1>0, <1>1, <2>1, RightRotateType
<1>2. CASE b > 1 /\ bl < 0
  <2> DEFINE l == h[n].left
             r == LeftRotate(h, l)
             g == [r.heap EXCEPT ![n].left = r.top]
  <2>1. RebalanceSubtree(h, n) = RightRotate(g, n)
    BY <1>0, <1>2 DEF RebalanceSubtree, RotateLeftChild
  <2>2. l \in Nodes /\ h[l].right \in Nodes
    BY <1>0, <1>2, HighSide
  <2> HIDE DEF l
  <2>3. r.heap \in Heap /\ r.top \in Nodes /\ \A m \in Nodes : r.heap[m].ids = h[m].ids
    BY <2>2, LeftRotateType
  <2> HIDE DEF r
  <2>4. g \in Heap /\ \A m \in Nodes : g[m].ids = r.heap[m].ids
    BY <2>3, SetLeftType DEF Ptr
  <2>5. g[n].left = r.top
    BY <2>3 DEF Heap, TNode
  <2> HIDE DEF g
  <2> QED  BY <2>1, <2>3, <2>4, <2>5, RightRotateType
<1>3. CASE b < -1 /\ br <= 0
  <2>1. RebalanceSubtree(h, n) = LeftRotate(h, n)
    BY <1>0, <1>3 DEF RebalanceSubtree
  <2> QED  BY <1>0, <1>3, <2>1, LeftRotateType
<1>4. CASE b < -1 /\ br > 0
  <2> DEFINE r == h[n].right
             l == RightRotate(h, r)
             g == [l.heap EXCEPT ![n].right = l.top]
  <2>1. RebalanceSubtree(h, n) = LeftRotate(g, n)
    BY <1>0, <1>4 DEF RebalanceSubtree, RotateRightChild
  <2>2. r \in Nodes /\ h[r].left \in Nodes
    BY <1>0, <1>4, HighSide
  <2> HIDE DEF r
  <2>3. l.heap \in Heap /\ l.top \in Nodes /\ \A m \in Nodes : l.heap[m].ids = h[m].ids
    BY <2>2, RightRotateType
  <2> HIDE DEF l
  <2>4. g \in Heap /\ \A m \in Nodes : g[m].ids = l.heap[m].ids
    BY <2>3, SetRightType DEF Ptr
  <2>5. g[n].right = l.top
    BY <2>3 DEF Heap, TNode
  <2> HIDE DEF g
  <2> QED  BY <2>1, <2>3, <2>4, <2>5, LeftRotateType
<1>5. CASE b \in -1 .. 1
  <2>1. RebalanceSubtree(h, n) = [top |-> n, heap |-> h]
    BY <1>0, <1>5 DEF RebalanceSubtree
  <2> QED  BY <2>1
<1> QED  BY <1>0, <1>1, <1>2, <1>3, <1>4, <1>5

\* TTREE_NODE_MIN_LEN lies between one and the size of a node.
LEMMA MinLenType == MinLen \in Nat /\ 1 <= MinLen /\ MinLen <= NodeSize
BY SizeAssumption DEF MinLen

\* __ttree_node_removable_count returns a number, its wrap included.
LEMMA RemovableCountType ==
    ASSUME NEW h \in Heap, NEW n \in Nodes PROVE RemovableCount(h, n) \in Nat
<1>1. Length(h, n) \in Nat /\ MinLen \in Nat
  BY HeapNode, MinLenType, SizeAssumption
<1> QED  BY <1>1 DEF RemovableCount

\* Stealing fills a node up to MinLen at most.
LEMMA EnsureMinLenType ==
    ASSUME NEW h \in Heap, NEW n \in Nodes, EnsureMinLenAsserts(h, n)
    PROVE  EnsureMinLen(h, n) \in Heap
<1> DEFINE l == h[n].left
           r == h[n].right
           x == LeftSteal(h, n)
           f == LeftStealFrom(h, n)
           y == RightSteal(h, n)
           g == StealLeft(h, n)
<1>1. CASE ~ShortOfRecords(h, n)
  BY <1>1 DEF EnsureMinLen
<1>2. CASE ShortOfRecords(h, n)
  <2>1. l \in Nodes /\ r \in Nodes /\ Length(h, n) < MinLen
    BY <1>2, HeapNode DEF ShortOfRecords, Kind, Ptr
  <2>2. Length(h, n) \in Nat /\ Length(h, l) \in Nat /\ MinLen \in Nat /\ MinLen <= NodeSize
    BY <2>1, HeapNode, MinLenType, SizeAssumption
  <2>3. x \in Nat /\ x <= MinLen - Length(h, n)
    <3>1. RemovableCount(h, l) \in Nat
      BY <2>1, RemovableCountType
    <3> QED  BY <2>1, <2>2, <3>1 DEF LeftSteal, Min2
  <2>4. f \in Nat
    BY <2>2, <2>3 DEF LeftStealFrom
  <2>5. y \in Nat /\ y <= MinLen - Length(h, n) - x
    <3>1. RemovableCount(h, r) \in Nat
      BY <2>1, RemovableCountType
    <3> QED  BY <2>1, <2>2, <2>3, <3>1 DEF RightSteal, Min2
  <2>6. MoveAsserts(h, n, 0, l, f, x) /\ MoveAsserts(g, n, Length(g, n), r, 0, y)
    BY <1>2 DEF EnsureMinLenAsserts
  <2>7. EnsureMinLen(h, n) = Move(g, n, Length(g, n), g[n].right, 0, y)
    BY <1>2 DEF EnsureMinLen, StealRight
  <2>8. g = Move(h, n, 0, l, f, x)
    BY DEF StealLeft
  <2>9. r = h[n].right
    OBVIOUS
  <2> HIDE DEF l, r, x, f, y, g
  <2>10. g \in Heap /\ Length(g, n) = Length(h, n) + x /\ g[n].right = r
    <3>1. Length(h, n) + x <= NodeSize
      BY <2>2, <2>3, SizeAssumption
    <3> QED  BY <2>1, <2>3, <2>4, <2>6, <2>8, <2>9, <3>1, MoveType
  <2>11. Length(g, n) \in Nat /\ Length(g, n) + y <= NodeSize
    BY <2>2, <2>3, <2>5, <2>10, SizeAssumption
  <2>12. Move(g, n, Length(g, n), r, 0, y) \in Heap
    BY <2>1, <2>5, <2>6, <2>10, <2>11, MoveType
  <2> QED  BY <2>7, <2>10, <2>12
<1> QED  BY <1>1, <1>2

\* Overwriting the pointer to a node leaves the heap a heap.
LEMMA RepointType ==
    ASSUME NEW h \in Heap, NEW q \in Ptr, NEW old, NEW new \in Ptr
    PROVE  Repoint(h, q, old, new) \in Heap
BY SetLeftType, SetRightType, Zenon DEF Repoint, Ptr

-----------------------------------------------------------------------------
(* The invariant.  What the code of each branch relies on without testing it: *)
(* which pointers are not null and which call is being served.                *)

Control ==
    /\ pc # "idle" => call \in Calls
    /\ pc \in {"search", "found"} => Searching
    /\ pc = "search" => node \in Nodes \/ trace # <<>>
    /\ pc = "found" => node \in Nodes /\ trace # <<>> /\ pos <= Length(heap, node)
    /\ pc \in {"place", "steal", "fix"} => node \in Nodes
    /\ pc = "place" => hand \in Entry
    /\ pc = "steal" => target \in Nodes
    /\ pc \in {"load", "attach"} => call.op = "load"
    /\ pc = "attach" => current \in Nodes /\ (node \in Nodes \/ trace # <<>>)
    /\ pc = "climb" => trace # <<>>

IInv == TypeOK /\ Control

\* The typed heap is one of the heaps of the lemmas above.
LEMMA TypeHeap == TypeOK => heap \in Heap
BY DEF TypeOK, Heap

\* What a call brings along.
LEMMA CallType ==
    ASSUME NEW c \in Calls
    PROVE  /\ c.op = "insert" => c.item \in Entry
           /\ c.op \in {"get", "remove"} => c.id \in ID
           /\ c.op = "load" => c.items \in Seq(Entry)
BY DEF Calls

\* The allocator has a node to give when not all of them are used.
LEMMA FreshType == ASSUME used \subseteq Nodes, CanAllocate PROVE Fresh \in Nodes
BY DEF CanAllocate, Fresh

-----------------------------------------------------------------------------
(* The steps.                                                               *)

\* The invariant holds in the empty tree.
LEMMA InitInv == Init => IInv
<1> SUFFICES ASSUME Init PROVE IInv
  OBVIOUS
<1>1. heap \in Heap
  BY BlankType DEF Init, Heap
<1>2. trace \in Seq(Nodes)
  BY EmptySeq DEF Init
<1> QED  BY <1>1, <1>2 DEF Init, IInv, TypeOK, Control, Ptr, Heap, Labels

\* Any call may arrive.
LEMMA CallInv == ASSUME IInv, Call PROVE IInv'
<1>1. ASSUME NEW c \in Calls, Begin(c) PROVE IInv'
  BY <1>1 DEF Begin, IInv, TypeOK, Control, Labels, memory, locals
<1>2. CASE CallGet
  BY <1>1, <1>2, ArgumentAssumption DEF CallGet, Calls
<1>3. CASE CallInsert
  BY <1>1, <1>3, ArgumentAssumption DEF CallInsert, Calls
<1>4. CASE CallRemove
  BY <1>1, <1>4, ArgumentAssumption DEF CallRemove, Calls
<1>5. CASE CallIterate
  BY <1>1, <1>5 DEF CallIterate, Calls
<1>6. CASE CallDestroy
  BY <1>1, <1>6 DEF CallDestroy, Calls
<1>7. CASE CallLoad
  BY <1>1, <1>7, ArgumentAssumption DEF CallLoad, Calls
<1> QED  BY <1>2, <1>3, <1>4, <1>5, <1>6, <1>7 DEF Call

\* The steps of __get_bounding_node and __id_linear_search, and TTree_get.
LEMMA SearchInv == ASSUME IInv, SearchSteps PROVE IInv'
<1> USE DEF IInv, TypeOK, Control, Labels, Goto, Settle, At, memory, locals, Searching
<1>1. CASE EmptyTree
  BY <1>1 DEF EmptyTree
<1>2. CASE StartSearch
  BY <1>2 DEF StartSearch, Ptr
<1>3. CASE SearchRight
  <2>1. node \in Nodes /\ heap[node].right \in Ptr
    BY <1>3, TypeHeap, HeapNode DEF SearchRight, Ptr
  <2>2. Append(trace, node) \in Seq(Nodes) /\ Append(trace, node) # <<>>
    BY <2>1, AppendProperties
  <2> QED  BY <1>3, <2>1, <2>2 DEF SearchRight
<1>4. CASE SearchLeft
  <2>1. node \in Nodes /\ heap[node].left \in Ptr
    BY <1>4, TypeHeap, HeapNode DEF SearchLeft, Ptr
  <2>2. Append(trace, node) \in Seq(Nodes) /\ Append(trace, node) # <<>>
    BY <2>1, AppendProperties
  <2> QED  BY <1>4, <2>1, <2>2 DEF SearchLeft
<1>5. CASE SearchHere
  <2>1. node \in Nodes /\ Length(heap, node) \in Nat
    BY <1>5, TypeHeap, HeapNode, SizeAssumption DEF SearchHere, Ptr
  <2>2. Append(trace, node) \in Seq(Nodes) /\ Append(trace, node) # <<>>
    BY <2>1, AppendProperties
  <2>3. pos' \in 0 .. Length(heap, node)
    BY <1>5 DEF SearchHere
  <2>4. pos' \in Nat /\ pos' <= Length(heap, node)
    BY <2>1, <2>3
  <2> QED  BY <1>5, <2>1, <2>2, <2>4 DEF SearchHere, Length
<1>6. CASE SearchOff
  <2>1. Last(trace) \in Nodes /\ trace # <<>>
    BY <1>6, FrontLastType, NILAssumption DEF SearchOff
  <2>2. Length(heap, Last(trace)) \in Nat
    BY <2>1, TypeHeap, HeapNode, SizeAssumption
  <2>3. pos' \in Nat /\ pos' <= Length(heap, Last(trace))
    BY <1>6, <2>2 DEF SearchOff
  <2> QED  BY <1>6, <2>1, <2>3 DEF SearchOff, Length, Ptr
<1>7. CASE Get
  BY <1>7 DEF Get
<1> QED  BY <1>1, <1>2, <1>3, <1>4, <1>5, <1>6, <1>7 DEF SearchSteps

\* A new node linked to a node of the heap.
LEMMA WithChildType ==
    ASSUME NEW h \in Heap, NEW n \in Nodes, NEW side \in {"left", "right"},
           NEW e \in Entry \cup {None}, used \subseteq Nodes, CanAllocate
    PROVE  /\ WithChild(h, n, side, e) \in Heap
           /\ side = "left" => WithChild(h, n, side, e)[n].left = Fresh
<1> DEFINE b == [h EXCEPT ![Fresh] = Blank]
           g == IF e = None THEN b ELSE NodeInsert(b, Fresh, 0, e)
<1>1. Fresh \in Nodes
  BY FreshType
<1>2. b \in Heap /\ Length(b, Fresh) = 0
  BY <1>1, BlankType, HeapExcept DEF Heap, Length, Blank
<1>3. g \in Heap
  <2>1. CASE e = None
    BY <1>2, <2>1
  <2>2. CASE e # None
    <3> HIDE DEF b
    <3>1. NodeInsert(b, Fresh, 0, e) \in Heap
      BY <1>1, <1>2, <2>2, NodeInsertType, SizeAssumption
    <3> QED  BY <2>2, <3>1
  <2> QED  BY <2>1, <2>2
<1>4. WithChild(h, n, side, e) =
        IF side = "left" THEN [g EXCEPT ![n].left = Fresh] ELSE [g EXCEPT ![n].right = Fresh]
  BY DEF WithChild
<1> HIDE DEF g
<1>5. [g EXCEPT ![n].left = Fresh] \in Heap /\ [g EXCEPT ![n].right = Fresh] \in Heap
  BY <1>1, <1>3, SetLeftType, SetRightType, Zenon DEF Ptr
<1>6. [g EXCEPT ![n].left = Fresh][n].left = Fresh
  BY <1>3 DEF Heap, TNode
<1> QED  BY <1>4, <1>5, <1>6

\* The steps of TTree_insert.
LEMMA InsertInv == ASSUME IInv, Asserted, InsertSteps PROVE IInv'
<1> USE DEF Goto, Settle, At, memory, locals
<1>0. heap \in Heap /\ (call.op = "insert" /\ pc # "idle" => call.item \in Entry)
  BY TypeHeap, CallType DEF IInv, Control
<1>1. CASE InsertRoot
  <2> DEFINE b == [heap EXCEPT ![Fresh] = Blank]
  <2>1. Fresh \in Nodes
    BY <1>1, FreshType DEF InsertRoot, IInv, TypeOK
  <2>2. b \in Heap /\ Length(b, Fresh) = 0
    BY <1>0, <2>1, BlankType, HeapExcept DEF Heap, Length, Blank
  <2>3. heap' = NodeInsert(b, Fresh, 0, call.item) /\ call.item \in Entry
    BY <1>0, <1>1 DEF InsertRoot
  <2> HIDE DEF b
  <2>4. heap' \in Heap
    BY <2>1, <2>2, <2>3, NodeInsertType, SizeAssumption
  <2> QED  BY <1>1, <2>1, <2>4, Zenon DEF InsertRoot, IInv, TypeOK, Control, Labels, Heap, Ptr
<1>2. CASE InsertExisting
  BY <1>2 DEF InsertExisting, IInv, TypeOK, Control, Labels
<1>3. CASE InsertHere
  <2>1. node \in Nodes /\ pos \in 0 .. Length(heap, node) /\ Length(heap, node) < NodeSize
    BY <1>0, <1>3, HeapNode, SizeAssumption DEF InsertHere, IInv, TypeOK, Control, Full
  <2>2. heap' \in Heap
    BY <1>0, <1>3, <2>1, NodeInsertType DEF InsertHere
  <2> QED  BY <1>3, <2>2 DEF InsertHere, IInv, TypeOK, Control, Labels, Heap
<1>4. CASE InsertChild
  <2>1. node \in Nodes /\ Fresh \in Nodes
    BY <1>4, FreshType DEF InsertChild, IInv, TypeOK, Control
  <2>2. heap' \in Heap
    BY <1>0, <1>4, <2>1, WithChildType DEF InsertChild, IInv, TypeOK
  <2> QED  BY <1>4, <2>1, <2>2 DEF InsertChild, IInv, TypeOK, Control, Labels, Heap
<1>5. CASE Displace
  <2> DEFINE shifted == InsertRemovingFirst(heap, node, pos, call.item)
  <2>1. node \in Nodes /\ Length(heap, node) = NodeSize /\ pos \in 1 .. Length(heap, node)
    BY <1>0, <1>5, HeapNode, SizeAssumption DEF Displace, IInv, TypeOK, Control, Full
  <2>2. shifted \in Heap /\ shifted[node].left = heap[node].left
    BY <1>0, <1>5, <2>1, InsertRemovingFirstType DEF Displace
  <2>3. hand' \in Entry
    <3>1. heap[node].ids[1] \in ID /\ heap[node].data[1] \in Record
      BY <1>0, <2>1, HeapNode, ElementOfSeq, SizeAssumption DEF Length
    <3> QED  BY <1>5, <3>1 DEF Displace, EntryAt, Entry
  <2>4. heap' \in Heap /\ node' \in Nodes /\ used' \subseteq Nodes
    <3>1. CASE heap[node].left # NIL
      <4>1. heap' = shifted /\ used' = used /\ node' = shifted[node].left
        BY <1>5, <3>1 DEF Displace
      <4> QED  BY <1>0, <2>1, <2>2, <3>1, <4>1, HeapNode DEF Ptr, IInv, TypeOK
    <3>2. CASE heap[node].left = NIL
      <4>1. /\ CanAllocate /\ used' = used \cup {Fresh}
            /\ heap' = WithChild(shifted, node, "left", None) /\ node' = heap'[node].left
        BY <1>5, <3>2 DEF Displace
      <4>2. Fresh \in Nodes
        BY <4>1, FreshType DEF IInv, TypeOK
      <4> HIDE DEF shifted
      <4> QED  BY <2>1, <2>2, <4>1, <4>2, WithChildType DEF IInv, TypeOK
    <3> QED  BY <3>1, <3>2
  <2> QED  BY <1>5, <2>3, <2>4 DEF Displace, IInv, TypeOK, Control, Labels, Heap, Ptr
<1>6. CASE PlaceDescend
  <2>1. node \in Nodes /\ heap[node].right \in Nodes
    BY <1>0, <1>6, HeapNode DEF PlaceDescend, IInv, Control, Ptr
  <2>2. Append(trace, node) \in Seq(Nodes)
    BY <2>1, AppendProperties DEF IInv, TypeOK
  <2> QED  BY <1>6, <2>1, <2>2 DEF PlaceDescend, IInv, TypeOK, Control, Labels, Ptr
<1>7. CASE Place
  <2>1. /\ node \in Nodes /\ hand \in Entry /\ Length(heap, node) < NodeSize
        /\ Length(heap, node) \in 0 .. Length(heap, node)
    BY <1>0, <1>7, HeapNode, SizeAssumption DEF Place, IInv, Control, Full
  <2>2. heap' \in Heap
    BY <1>0, <1>7, <2>1, NodeInsertType DEF Place
  <2> QED  BY <1>7, <2>2 DEF Place, IInv, TypeOK, Control, Labels, Heap
<1>8. CASE PlaceBelow
  <2> DEFINE g == WithChild(heap, node, "right", hand)
  <2>1. node \in Nodes /\ hand \in Entry /\ Fresh \in Nodes
    BY <1>8, FreshType DEF PlaceBelow, IInv, TypeOK, Control
  <2>2. g \in Heap
    BY <1>0, <1>8, <2>1, WithChildType DEF PlaceBelow, IInv, TypeOK
  <2>3. heap' = UpdateHeight(g, node)
    BY <1>8 DEF PlaceBelow
  <2> HIDE DEF g
  <2>4. heap' \in Heap
    BY <2>1, <2>2, <2>3, UpdateHeightType
  <2> QED  BY <1>8, <2>1, <2>4 DEF PlaceBelow, IInv, TypeOK, Control, Labels, Heap
<1> QED  BY <1>1, <1>2, <1>3, <1>4, <1>5, <1>6, <1>7, <1>8 DEF InsertSteps

\* What __pop_node_get_pointer finds below the top of a trace is a node, or there is none.
LEMMA ParentType == ASSUME NEW s \in Seq(Nodes) PROVE Parent(s) \in Ptr
BY FrontLastType DEF Parent, Ptr

\* The steps of TTree_remove and of the fixes of nodes short of records.
LEMMA RemoveInv == ASSUME IInv, Asserted, RemoveSteps PROVE IInv'
<1> USE DEF Goto, Settle, At, memory, locals
<1>0. heap \in Heap /\ trace \in Seq(Nodes) /\ root \in Ptr
  BY TypeHeap DEF IInv, TypeOK
<1>1. CASE RemoveMissing
  BY <1>1 DEF RemoveMissing, IInv, TypeOK, Control, Labels
<1>2. ASSUME At("found", "remove"), Exists
      PROVE  /\ node \in Nodes /\ trace # <<>>
             /\ NodeRemove(heap, node, pos) \in Heap
  <2>1. node \in Nodes /\ trace # <<>> /\ pos \in Nat /\ pos < Length(heap, node)
    BY <1>2 DEF IInv, TypeOK, Control, Exists
  <2> QED  BY <1>0, <2>1, NodeRemoveType
<1>3. CASE RemoveFromInternal
  <2>1. heap' = NodeRemove(heap, node, pos) /\ heap' \in Heap /\ node \in Nodes
    BY <1>2, <1>3 DEF RemoveFromInternal
  <2>2. heap[node].left \in Nodes
    BY <1>0, <1>3, <2>1, HeapNode DEF RemoveFromInternal, Kind, Ptr
  <2> QED  BY <1>3, <2>1, <2>2 DEF RemoveFromInternal, IInv, TypeOK, Control, Labels, Heap, Ptr
<1>4. CASE RemoveFromOther
  <2>1. heap' = NodeRemove(heap, node, pos) /\ heap' \in Heap /\ node \in Nodes /\ trace # <<>>
    BY <1>2, <1>4 DEF RemoveFromOther
  <2>2. trace' \in Seq(Nodes)
    BY <1>0, <1>4, <2>1, FrontLastType DEF RemoveFromOther
  <2> QED  BY <1>4, <2>1, <2>2 DEF RemoveFromOther, IInv, TypeOK, Control, Labels, Heap
<1>5. CASE StealDescend
  <2>1. node \in Nodes /\ heap[node].right \in Nodes
    BY <1>0, <1>5, HeapNode DEF StealDescend, IInv, Control, Ptr
  <2>2. Append(trace, node) \in Seq(Nodes)
    BY <1>0, <2>1, AppendProperties
  <2> QED  BY <1>5, <2>1, <2>2 DEF StealDescend, IInv, TypeOK, Control, Labels, Ptr
<1>6. CASE Steal
  <2> DEFINE last == Length(heap, node) - 1
             g == NodeRemove(heap, node, last)
             e == EntryAt(heap, node, last)
  <2>1. node \in Nodes /\ target \in Nodes
    BY <1>6 DEF Steal, IInv, Control
  <2>2. /\ Length(heap, node) > 0 /\ Length(heap, target) < NodeSize
        /\ Length(heap, node) \in Nat /\ Length(heap, target) \in Nat
    BY <1>0, <1>6, <2>1, HeapNode, SizeAssumption DEF Steal, Asserted, RemoveAsserts
  <2>3. last \in Nat /\ last < Length(heap, node) /\ last + 1 = Length(heap, node)
    BY <2>2
  <2>4. e \in Entry
    <3>1. last + 1 \in 1 .. Len(heap[node].ids) /\ last + 1 \in 1 .. Len(heap[node].data)
      BY <1>0, <2>1, <2>2, <2>3, HeapNode DEF Length
    <3>2. heap[node].ids \in Seq(ID) /\ heap[node].data \in Seq(Record)
      BY <1>0, <2>1, HeapNode
    <3>3. heap[node].ids[last + 1] \in ID /\ heap[node].data[last + 1] \in Record
      <4> HIDE DEF last
      <4> QED  BY <3>1, <3>2, ElementOfSeq
    <3> QED  BY <3>3 DEF EntryAt, Entry
  <2>5. heap' = NodeInsert(g, target, 0, e)
    BY <1>6 DEF Steal
  <2>6. /\ g \in Heap /\ Length(g, node) = Length(heap, node) - 1
        /\ target # node => g[target] = heap[target]
    <3> HIDE DEF last
    <3> QED  BY <1>0, <2>1, <2>3, NodeRemoveType
  <2>7. Length(g, target) < NodeSize /\ 0 \in 0 .. Length(g, target)
    <3>1. Length(g, target) <= Length(heap, target)
      <4>1. CASE target = node
        BY <2>2, <2>6, <4>1
      <4>2. CASE target # node
        BY <2>2, <2>6, <4>2 DEF Length
      <4> QED  BY <4>1, <4>2
    <3>2. Length(g, target) \in Nat
      BY <2>1, <2>6, HeapNode, SizeAssumption
    <3> QED  BY <2>2, <3>1, <3>2, SizeAssumption
  <2> HIDE DEF g, e, last
  <2>8. heap' \in Heap
    BY <2>1, <2>4, <2>5, <2>6, <2>7, NodeInsertType
  <2> QED  BY <1>6, <2>1, <2>8 DEF Steal, IInv, TypeOK, Control, Labels, Heap, Ptr
<1>7. CASE FixNothing
  BY <1>7 DEF FixNothing, IInv, TypeOK, Control, Labels
<1>8. CASE FixEmptyLeaf
  <2>1. node \in Nodes /\ Parent(trace) \in Ptr
    BY <1>0, <1>8, ParentType DEF FixEmptyLeaf, IInv, Control
  <2>2. Repoint(heap, Parent(trace), node, NIL) \in Heap
    BY <1>0, <2>1, RepointType DEF Ptr
  <2>3. heap' \in Heap
    <3> DEFINE g == Repoint(heap, Parent(trace), node, NIL)
    <3>1. heap' = [g EXCEPT ![node] = Blank]
      BY <1>8 DEF FixEmptyLeaf
    <3> HIDE DEF g
    <3> QED  BY <2>1, <2>2, <3>1, BlankType, HeapExcept, Zenon DEF g
  <2>4. root' \in Ptr
    BY <1>0, <1>8 DEF FixEmptyLeaf, RootAfter, Ptr
  <2> QED  BY <1>8, <2>3, <2>4 DEF FixEmptyLeaf, IInv, TypeOK, Control, Labels, Heap
<1>9. CASE FixMerge
  <2> DEFINE l == Absorbing(heap, node)
             a == Absorbed(heap, node)
             m == Merge(heap, l, a)
             c == [m EXCEPT ![l].left = NIL]
             d == [m EXCEPT ![l].left = NIL, ![l].right = NIL]
             u == UpdateHeight(d, l)
             b == RebalanceSubtree(u, l)
  <2>1. node \in Nodes /\ Parent(trace) \in Ptr
    BY <1>0, <1>9, ParentType DEF FixMerge, IInv, Control
  <2>2. l \in Nodes /\ a \in Nodes
    <3>1. Kind(heap, node) = "halfleaf"
      BY <1>9 DEF FixMerge, Mergeable
    <3>2. heap[node].left \in Ptr /\ heap[node].right \in Ptr
      BY <1>0, <2>1, HeapNode
    <3> QED  BY <2>1, <3>1, <3>2 DEF Kind, Absorbing, Absorbed, Ptr
  <2>3. l # a /\ Length(heap, l) + Length(heap, a) <= NodeSize
    BY <1>9 DEF FixMerge, Asserted, RemoveAsserts, MergeAsserts
  <2>4. heap' = Repoint(b.heap, Parent(trace), node, b.top) /\ root' = RootAfter(Parent(trace), b.top)
    BY <1>9 DEF FixMerge
  <2>5. d = [c EXCEPT ![l].right = NIL]
    OBVIOUS
  <2>6. m \in Heap
    <3> HIDE DEF l, a
    <3> QED  BY <1>0, <2>2, <2>3, MergeType
  <2>7. c \in Heap
    <3> HIDE DEF l, m
    <3> QED  BY <2>2, <2>6, SetLeftType DEF Ptr
  <2>8. d \in Heap
    <3> HIDE DEF l, c, d
    <3> QED  BY <2>2, <2>5, <2>7, SetRightType, Zenon DEF Ptr
  <2>9. u \in Heap
    <3> HIDE DEF l, d
    <3> QED  BY <2>2, <2>8, UpdateHeightType
  <2>10. b.heap \in Heap /\ b.top \in Nodes
    <3> HIDE DEF l, u
    <3> QED  BY <2>2, <2>9, RebalanceSubtreeType
  <2> HIDE DEF b
  <2>11. heap' \in Heap /\ root' \in Ptr
    BY <1>0, <2>1, <2>4, <2>10, RepointType, Zenon DEF RootAfter, Ptr
  <2>12. pc = "fix" /\ pc' = "rebalance" /\ used' \subseteq used /\ UNCHANGED <<call, locals>>
    BY <1>9 DEF FixMerge
  <2> QED  BY <2>11, <2>12 DEF IInv, TypeOK, Control, Labels, Heap
<1> QED  BY <1>1, <1>3, <1>4, <1>5, <1>6, <1>7, <1>8, <1>9 DEF RemoveSteps

\* The steps of __rebalance_from_node_trace.
LEMMA RebalanceInv == ASSUME IInv, Asserted, RebalanceSteps PROVE IInv'
<1> USE DEF Goto, Settle, memory, locals
<1>0. heap \in Heap /\ trace \in Seq(Nodes) /\ root \in Ptr
  BY TypeHeap DEF IInv, TypeOK
<1>1. ASSUME trace # <<>>
      PROVE  /\ Last(trace) \in Nodes /\ Front(trace) \in Seq(Nodes)
             /\ Rebalanced.heap \in Heap /\ Rebalanced.top \in Nodes
  <2>1. Last(trace) \in Nodes /\ Front(trace) \in Seq(Nodes)
    BY <1>0, <1>1, FrontLastType
  <2>2. Updated \in Heap
    BY <1>0, <2>1, UpdateHeightType DEF Updated
  <2> QED  BY <2>1, <2>2, RebalanceSubtreeType DEF Rebalanced
<1>2. CASE RebalanceUp
  <2>1. heap' \in Heap /\ trace' \in Seq(Nodes)
    BY <1>1, <1>2 DEF RebalanceUp
  <2> QED  BY <1>2, <2>1 DEF RebalanceUp, IInv, TypeOK, Control, Labels, Heap
<1>3. CASE RebalanceRotate
  <2>1. /\ Last(trace) \in Nodes /\ Parent(Front(trace)) \in Ptr
        /\ Rebalanced.heap \in Heap /\ Rebalanced.top \in Nodes
    BY <1>1, <1>3, ParentType DEF RebalanceRotate
  <2>2. Rotated \in Heap
    BY <2>1, RepointType, Zenon DEF Rotated, Ptr
  <2>3. EnsureMinLenAsserts(Rotated, Rebalanced.top)
    BY <1>3 DEF RebalanceRotate, Asserted, RebalanceAsserts
  <2>4. heap' \in Heap
    BY <1>3, <2>1, <2>2, <2>3, EnsureMinLenType DEF RebalanceRotate
  <2>5. root' \in Ptr /\ trace' \in Seq(Nodes)
    BY <1>0, <1>3, <2>1, EmptySeq DEF RebalanceRotate, RootAfter, Ptr
  <2> QED  BY <1>3, <2>4, <2>5
           DEF RebalanceRotate, AfterRebalance, IInv, TypeOK, Control, Labels, Heap
<1>4. CASE RebalanceEnd
  BY <1>4 DEF RebalanceEnd, AfterRebalance, IInv, TypeOK, Control, Labels
<1> QED  BY <1>2, <1>3, <1>4 DEF RebalanceSteps

\* The steps of a bulk load.
LEMMA LoadInv == ASSUME IInv, Asserted, LoadSteps PROVE IInv'
<1> USE DEF Goto, Settle, At, memory, locals
<1>0. heap \in Heap /\ trace \in Seq(Nodes) /\ root \in Ptr /\ pos \in Nat
  BY TypeHeap DEF IInv, TypeOK
<1>1. ASSUME pc = "load", pos < Len(call.items)
      PROVE  call.items[pos + 1] \in Entry
  <2>1. call.items \in Seq(Entry) /\ Len(call.items) \in Nat
    BY <1>1, CallType, LenProperties DEF IInv, Control
  <2> QED  BY <1>0, <1>1, <2>1, ElementOfSeq
<1>2. CASE StartLoad
  BY <1>2 DEF StartLoad, IInv, TypeOK, Control, Labels
<1>3. CASE BulkFirst
  <2> DEFINE b == [heap EXCEPT ![Fresh] = Blank]
             e == call.items[pos + 1]
  <2>1. Fresh \in Nodes /\ e \in Entry
    BY <1>1, <1>3, FreshType DEF BulkFirst, IInv, TypeOK
  <2>2. b \in Heap /\ Length(b, Fresh) = 0
    BY <1>0, <2>1, BlankType, HeapExcept DEF Heap, Length, Blank
  <2>3. heap' = NodeInsert(b, Fresh, 0, e)
    BY <1>3 DEF BulkFirst
  <2> HIDE DEF b, e
  <2>4. heap' \in Heap
    BY <2>1, <2>2, <2>3, NodeInsertType, SizeAssumption
  <2>5. /\ current' \in Ptr /\ used' \subseteq Nodes /\ pos' \in Nat
        /\ pc = "load" /\ UNCHANGED <<root, call, pc, node, target, trace, hand>>
    BY <1>0, <1>3, <2>1 DEF BulkFirst, IInv, TypeOK, Ptr
  <2> QED  BY <2>4, <2>5 DEF IInv, TypeOK, Control, Labels, Heap
<1>4. CASE BulkAppend
  <2> DEFINE e == call.items[pos + 1]
             ids == Append(heap[current].ids, e.id)
             data == Append(heap[current].data, e.rec)
             r == [heap[current] EXCEPT !.ids = ids, !.data = data]
  <2>1. current \in Nodes /\ e \in Entry
    BY <1>1, <1>4 DEF BulkAppend, IInv, TypeOK, Ptr
  <2>2. Length(heap, current) < NodeSize
    BY <1>0, <1>4, <2>1, HeapNode, SizeAssumption DEF BulkAppend, CurrentDone
  <2>3. /\ heap[current].ids \in Seq(ID) /\ heap[current].data \in Seq(Record)
        /\ Len(heap[current].data) = Length(heap, current) /\ heap[current] \in TNode
    BY <1>0, <2>1, HeapNode
  <2>4. e.id \in ID /\ e.rec \in Record
    BY <2>1 DEF Entry
  <2>5. /\ ids \in Seq(ID) /\ data \in Seq(Record)
        /\ Len(ids) = Length(heap, current) + 1 /\ Len(data) = Length(heap, current) + 1
    <3> HIDE DEF e
    <3> QED  BY <2>3, <2>4, AppendProperties DEF Length
  <2>6. r \in TNode /\ r.ids = ids /\ r.data = data
    <3> HIDE DEF ids, data
    <3> QED  BY <2>3, <2>5, Zenon DEF TNode
  <2>7. Len(ids) <= NodeSize
    BY <1>0, <2>1, <2>2, <2>5, HeapNode, SizeAssumption
  <2>8. heap' = [heap EXCEPT ![current] = r]
    BY <1>4, Zenon DEF BulkAppend
  <2> HIDE DEF r, ids, data
  <2>9. heap' \in Heap
    BY <1>0, <2>1, <2>5, <2>6, <2>7, <2>8, HeapExcept, Zenon
  <2>10. /\ pos' \in Nat /\ pc = "load"
         /\ UNCHANGED <<root, used, call, pc, node, target, trace, hand, current>>
    BY <1>0, <1>4 DEF BulkAppend
  <2> QED  BY <2>9, <2>10 DEF IInv, TypeOK, Control, Labels, Heap
<1>5. ASSUME pc = "load", CurrentDone PROVE current \in Nodes /\ Finished \in Heap
  <2>1. current \in Nodes
    BY <1>5 DEF CurrentDone, IInv, TypeOK, Ptr
  <2>2. Length(heap, current) > 0
    BY <1>5, NILAssumption DEF CurrentDone, Asserted, LoadAsserts
  <2>3. heap[current].ids \in Seq(ID) /\ heap[current].ids # <<>>
    BY <1>0, <2>1, <2>2, HeapNode, EmptySeq DEF Length
  <2>4. Last(heap[current].ids) \in Nat
    BY <2>3, FrontLastType, IDAssumption, Zenon
  <2> QED  BY <1>0, <2>1, <2>4, Zenon DEF Finished, Heap, TNode
<1>6. CASE FinishRoot
  BY <1>5, <1>6 DEF FinishRoot, IInv, TypeOK, Control, Labels, Heap, Ptr
<1>7. CASE FinishNode
  BY <1>0, <1>5, <1>7 DEF FinishNode, IInv, TypeOK, Control, Labels, Heap, Ptr
<1>8. CASE AttachDescend
  <2>1. node \in Nodes /\ heap[node].right \in Ptr
    BY <1>0, <1>8, HeapNode DEF AttachDescend, IInv, TypeOK, Ptr
  <2>2. Append(trace, node) \in Seq(Nodes) /\ Append(trace, node) # <<>>
    BY <1>0, <2>1, AppendProperties
  <2> QED  BY <1>8, <2>1, <2>2 DEF AttachDescend, IInv, TypeOK, Control, Labels
<1>9. CASE Attach
  <2>1. Last(trace) \in Nodes /\ current \in Nodes
    BY <1>0, <1>9, FrontLastType, NILAssumption DEF Attach, IInv, Control
  <2>2. heap' \in Heap
    BY <1>0, <1>9, <2>1, SetRightType, Zenon DEF Attach, Ptr
  <2> QED  BY <1>9, <2>2 DEF Attach, IInv, TypeOK, Control, Labels, Heap, Ptr
<1>10. CASE LoadEnd
  BY <1>10 DEF LoadEnd, IInv, TypeOK, Control, Labels
<1> QED  BY <1>2, <1>3, <1>4, <1>6, <1>7, <1>8, <1>9, <1>10 DEF LoadSteps

\* The steps of the iterator.
LEMMA IterateInv == ASSUME IInv, IterateSteps PROVE IInv'
<1> USE DEF Goto, Settle, At, memory, locals
<1>0. heap \in Heap /\ trace \in Seq(Nodes) /\ root \in Ptr /\ pos \in Nat
  BY TypeHeap DEF IInv, TypeOK
<1>1. CASE StartIterate
  BY <1>0, <1>1 DEF StartIterate, IInv, TypeOK, Control, Labels
<1>2. CASE IterDescend
  <2>1. node \in Nodes /\ heap[node].left \in Ptr
    BY <1>0, <1>2, HeapNode DEF IterDescend, IInv, TypeOK, Ptr
  <2>2. Append(trace, node) \in Seq(Nodes)
    BY <1>0, <2>1, AppendProperties
  <2> QED  BY <1>2, <2>1, <2>2 DEF IterDescend, IInv, TypeOK, Control, Labels
<1>3. CASE IterReady
  BY <1>3 DEF IterReady, IInv, TypeOK, Control, Labels
<1>4. CASE IterNext
  <2>1. Last(trace) \in Nodes
    BY <1>0, <1>4, FrontLastType DEF IterNext
  <2>2. heap[Last(trace)].right \in Ptr
    BY <1>0, <2>1, HeapNode
  <2>3. /\ pos' \in Nat /\ node' \in Ptr
        /\ pc = "next" /\ pc' \in {"next", "leftmost", "climb"}
    BY <1>0, <1>4, <2>2 DEF IterNext, IInv, TypeOK
  <2>4. trace # <<>> /\ UNCHANGED <<memory, call, target, trace, hand, current>>
    BY <1>4 DEF IterNext
  <2> QED  BY <2>3, <2>4 DEF IInv, TypeOK, Control, Labels
<1>5. CASE IterClimb
  <2>1. trace' \in Seq(Nodes)
    BY <1>0, <1>5, FrontLastType DEF IterClimb, IInv, Control
  <2>2. pc' \in {"next", "climb"} /\ (pc' = "climb" => trace' # <<>>)
    BY <1>5 DEF IterClimb
  <2>3. pc = "climb" /\ UNCHANGED <<memory, call, node, target, pos, hand, current>>
    BY <1>5 DEF IterClimb
  <2> QED  BY <2>1, <2>2, <2>3 DEF IInv, TypeOK, Control, Labels
<1>6. CASE IterEnd
  BY <1>6 DEF IterEnd, IInv, TypeOK, Control, Labels
<1> QED  BY <1>1, <1>2, <1>3, <1>4, <1>5, <1>6 DEF IterateSteps

\* TTree_destroy.
LEMMA DestroyInv == ASSUME IInv, Destroy PROVE IInv'
<1>1. heap' \in Heap
  BY BlankType DEF Destroy, Heap
<1> QED  BY <1>1 DEF Destroy, Goto, Settle, At, locals, IInv, TypeOK, Control, Labels, Heap, Ptr

\* The return of any call.
LEMMA ReturnInv == ASSUME IInv, Return PROVE IInv'
<1>1. trace' \in Seq(Nodes)
  BY EmptySeq DEF Return
<1> QED  BY <1>1 DEF Return, memory, IInv, TypeOK, Control, Labels, Ptr

\* No step breaks the invariant.
LEMMA NextInv == ASSUME IInv, [Next]_vars PROVE IInv'
<1>1. CASE Call
  BY <1>1, CallInv
<1>2. CASE Run
  BY <1>2, SearchInv, InsertInv, RemoveInv, RebalanceInv, LoadInv, IterateInv, DestroyInv, ReturnInv
     DEF Run
<1>3. CASE UNCHANGED vars
  BY <1>3 DEF vars, memory, locals, IInv, TypeOK, Control, Labels, Searching, Length
<1> QED  BY <1>1, <1>2, <1>3 DEF Next

-----------------------------------------------------------------------------
(* Whatever the node size, the calls and their order, no helper of t-tree.c  *)
(* writes past the arrays of a node, the two arrays stay equally long, and   *)
(* every variable keeps its type.  The program's own asserts are what rules  *)
(* out the steps for which this would fail, and no further assumption on the *)
(* shape of the tree is needed.                                              *)
THEOREM TypeCorrect == Spec => []TypeOK
<1>1. Init => IInv
  BY InitInv
<1>2. IInv /\ [Next]_vars => IInv'
  BY NextInv
<1>3. IInv => TypeOK
  BY DEF IInv
<1> QED  BY <1>1, <1>2, <1>3, PTL DEF Spec

\* In every branch of the code the pointers that it dereferences without a test are not
\* null, and a displaced entry is in hand exactly where one is put down.
THEOREM ControlCorrect == Spec => []Control
<1>1. Init => IInv
  BY InitInv
<1>2. IInv /\ [Next]_vars => IInv'
  BY NextInv
<1>3. IInv => Control
  BY DEF IInv
<1> QED  BY <1>1, <1>2, <1>3, PTL DEF Spec

-----------------------------------------------------------------------------
(* Trees of nodes, by their pointers alone: L and R are the left and the     *)
(* right pointers, S the nodes of the tree and r its root.  `up` leads from  *)
(* a node to its parent, and `rank`, at most b, falls on the way down.       *)

Links == [Nodes -> Ptr]

Tree(L, R, S, r, up, rank, b) ==
    /\ S \subseteq Nodes /\ r \in S \cup {NIL} /\ (S # {} => r \in S)
    /\ up \in Links /\ b \in Nat /\ rank \in [Nodes -> 0 .. b]
    /\ \A m \in Nodes, x \in Nodes :
          x \in {L[m], R[m]} => m \in S /\ x \in S /\ up[x] = m /\ rank[x] < rank[m]
    /\ \A x \in S : x # r => up[x] \in S /\ x \in {L[up[x]], R[up[x]]}
    /\ r # NIL => up[r] = NIL
    /\ \A m \in S : L[m] = R[m] => L[m] = NIL

IsTree(L, R, S, r) == \E up, rank, b : Tree(L, R, S, r, up, rank, b)

\* The pointer to n is q's, or is the root's if q is NIL.
Leads(L, R, r, q, n) == IF q = NIL THEN r = n ELSE q \in Nodes /\ n \in {L[q], R[q]}

\* F with the pointer of q, if it leads to x, led to y.
Subst(F, q, x, y) == [m \in Nodes |-> IF m = q /\ F[m] = x THEN y ELSE F[m]]

\* A set of numbers that is not empty has a least member.
LEMMA LeastNumber ==
    ASSUME NEW T, T \subseteq Nat, T # {}
    PROVE  \E x \in T : \A y \in T : x <= y
<1>1. PICK x \in T : \A y \in T : ~(<<y, x>> \in OpToRel(<, Nat))
  BY NatLessThanWellFounded, WFMin, Zenon
<1>2. \A y \in Nat, z \in Nat : y < z => <<y, z>> \in OpToRel(<, Nat)
  BY Zenon DEF OpToRel
<1>3. \A y \in T : ~(y < x)
  BY <1>1, <1>2, Zenon
<1> QED  BY <1>3

\* Left and right are alike.
LEMMA Mirror ==
    ASSUME NEW L \in Links, NEW R \in Links, NEW S, NEW r
    PROVE  IsTree(L, R, S, r) => IsTree(R, L, S, r)
<1>1. \A up, rank, b : Tree(L, R, S, r, up, rank, b) => Tree(R, L, S, r, up, rank, b)
  BY DEF Tree
<1> QED  BY <1>1 DEF IsTree

\* What holds the root and the children of its members holds the tree: one that is missing
\* and has the highest rank would have a parent that is missing.
LEMMA Reach ==
    ASSUME NEW L \in Links, NEW R \in Links, NEW S, NEW r, IsTree(L, R, S, r),
           NEW P, S # {} => r \in P,
           \A m \in S, x \in S : m \in P /\ x \in {L[m], R[m]} => x \in P
    PROVE  S \subseteq P
<1> SUFFICES ASSUME ~(S \subseteq P) PROVE FALSE
  OBVIOUS
<1>1. PICK up, rank, b : Tree(L, R, S, r, up, rank, b)
  BY DEF IsTree
<1> DEFINE D == {b - rank[x] : x \in S \ P}
<1>2. D \subseteq Nat /\ D # {}
  BY <1>1 DEF Tree
<1>3. PICK d \in D : \A e \in D : d <= e
  <2> HIDE DEF D
  <2> QED  BY <1>2, LeastNumber, Zenon
<1>4. PICK x \in S \ P : d = b - rank[x]
  BY <1>3
<1>5. up[x] \in S /\ x \in {L[up[x]], R[up[x]]}
  BY <1>1, <1>4 DEF Tree
<1>6. up[x] \in S \ P
  BY <1>4, <1>5
<1>7. rank[x] < rank[up[x]] /\ rank[x] \in Nat /\ rank[up[x]] \in Nat /\ b \in Nat
  BY <1>1, <1>4, <1>5 DEF Tree
<1>8. b - rank[up[x]] \in D
  BY <1>6
<1>9. d <= b - rank[up[x]]
  BY <1>3, <1>8
<1> QED  BY <1>4, <1>7, <1>9

\* The first node of a tree.
LEMMA FirstNode ==
    ASSUME NEW L \in Links, NEW R \in Links, IsTree(L, R, {}, NIL), NEW f \in Nodes
    PROVE  IsTree(L, R, {f}, f)
<1>1. PICK up, rank, b : Tree(L, R, {}, NIL, up, rank, b)
  BY DEF IsTree
<1> DEFINE up2 == [x \in Nodes |-> NIL]
<1>2. \A m \in Nodes : L[m] = NIL /\ R[m] = NIL
  BY <1>1 DEF Tree, Links, Ptr
<1>3. Tree(L, R, {f}, f, up2, rank, b)
  BY <1>1, <1>2, NILAssumption DEF Tree, Links, Ptr
<1> QED  BY <1>3 DEF IsTree

\* A node that is not in the tree becomes the left child of one that has none.
LEMMA AddLeaf ==
    ASSUME NEW L \in Links, NEW R \in Links, NEW S, NEW r, IsTree(L, R, S, r),
           NEW p \in S, L[p] = NIL, NEW f \in Nodes \ S
    PROVE  IsTree([L EXCEPT ![p] = f], R, S \cup {f}, r)
<1>1. PICK up, rank, b : Tree(L, R, S, r, up, rank, b)
  BY DEF IsTree
<1> DEFINE up2 == [up EXCEPT ![f] = p]
           rank2 == [x \in Nodes |-> IF x \in S THEN rank[x] + 1 ELSE 0]
           L2 == [L EXCEPT ![p] = f]
           T == S \cup {f}
<1>2. /\ S \subseteq Nodes /\ p \in Nodes /\ r \in S /\ b \in Nat /\ up \in Links
      /\ \A x \in S : rank[x] \in 0 .. b
  BY <1>1 DEF Tree
<1>3. \A m \in Nodes, x \in Nodes :
         x \in {L2[m], R[m]} => m \in T /\ x \in T /\ up2[x] = m /\ rank2[x] < rank2[m]
  <2> SUFFICES ASSUME NEW m \in Nodes, NEW x \in Nodes, x \in {L2[m], R[m]}
               PROVE  m \in T /\ x \in T /\ up2[x] = m /\ rank2[x] < rank2[m]
    OBVIOUS
  <2>1. CASE m = p /\ x = f
    BY <1>2, <2>1 DEF Links
  <2>2. CASE ~(m = p /\ x = f)
    <3>1. x \in {L[m], R[m]}
      BY <2>2, NILAssumption DEF Links
    <3>2. m \in S /\ x \in S /\ up[x] = m /\ rank[x] < rank[m]
      BY <1>1, <3>1 DEF Tree
    <3> QED  BY <1>2, <3>2 DEF Links
  <2> QED  BY <2>1, <2>2
<1>4. \A x \in T : x # r => up2[x] \in T /\ x \in {L2[up2[x]], R[up2[x]]}
  <2> SUFFICES ASSUME NEW x \in T, x # r PROVE up2[x] \in T /\ x \in {L2[up2[x]], R[up2[x]]}
    OBVIOUS
  <2>1. CASE x = f
    BY <1>2, <2>1 DEF Links
  <2>2. CASE x # f
    <3>1. x \in S /\ up2[x] = up[x]
      BY <1>2, <2>2 DEF Links
    <3>2. up[x] \in S /\ x \in {L[up[x]], R[up[x]]} /\ x \in Nodes
      BY <1>1, <1>2, <3>1 DEF Tree
    <3>3. x # NIL
      BY <3>2, NILAssumption
    <3>4. \A m \in Nodes : L[m] # NIL => L2[m] = L[m]
      BY DEF Links
    <3> QED  BY <1>2, <3>1, <3>2, <3>3, <3>4
  <2> QED  BY <2>1, <2>2
<1>5. up2[r] = NIL
  BY <1>1, <1>2, NILAssumption DEF Tree, Links
<1>6. \A m \in T : L2[m] = R[m] => L2[m] = NIL
  <2>1. \A m \in Nodes : R[m] # f /\ (L[m] # NIL => m \in S)
    BY <1>1 DEF Tree, Links, Ptr
  <2>2. \A m \in Nodes : R[m] # NIL => m \in S
    BY <1>1 DEF Tree, Links, Ptr
  <2> QED  BY <1>1, <1>2, <2>1, <2>2 DEF Tree, Links
<1>7. up2 \in Links /\ rank2 \in [Nodes -> 0 .. b + 1]
  BY <1>2 DEF Links, Ptr
<1>8. T \subseteq Nodes /\ r \in T \cup {NIL} /\ (T # {} => r \in T) /\ b + 1 \in Nat
  BY <1>2
<1> HIDE DEF T, L2, up2, rank2
<1>9. Tree(L2, R, T, r, up2, rank2, b + 1)
  BY <1>3, <1>4, <1>5, <1>6, <1>7, <1>8 DEF Tree
<1> QED  BY <1>9 DEF IsTree, L2, T

\* What is known of two nodes of a tree of which one leads to the other.
LEMMA TreeFacts ==
    ASSUME NEW L \in Links, NEW R \in Links, NEW S, NEW r, NEW up, NEW rank, NEW b,
           Tree(L, R, S, r, up, rank, b)
    PROVE  /\ S \subseteq Nodes /\ NIL \notin S
           /\ \A m \in Nodes : L[m] # NIL => L[m] \in S /\ m \in S /\ up[L[m]] = m /\ rank[L[m]] < rank[m]
           /\ \A m \in Nodes : R[m] # NIL => R[m] \in S /\ m \in S /\ up[R[m]] = m /\ rank[R[m]] < rank[m]
           /\ \A m \in Nodes : L[m] = R[m] => L[m] = NIL
           /\ \A m \in Nodes : rank[m] \in Nat
<1>1. \A m \in Nodes : L[m] \in Nodes \cup {NIL} /\ R[m] \in Nodes \cup {NIL}
  BY DEF Links, Ptr
<1>2. \A m \in Nodes : L[m] # NIL => L[m] \in S /\ m \in S /\ up[L[m]] = m /\ rank[L[m]] < rank[m]
  BY <1>1 DEF Tree
<1>3. \A m \in Nodes : R[m] # NIL => R[m] \in S /\ m \in S /\ up[R[m]] = m /\ rank[R[m]] < rank[m]
  BY <1>1 DEF Tree
<1>4. \A m \in Nodes : L[m] = R[m] => L[m] = NIL
  BY <1>2 DEF Tree
<1>5. \A m \in Nodes : rank[m] \in Nat
  BY DEF Tree
<1>6. S \subseteq Nodes /\ NIL \notin S
  BY NILAssumption DEF Tree
<1> QED  BY <1>2, <1>3, <1>4, <1>5, <1>6

\* Replacing nothing.
LEMMA SubstNone ==
    ASSUME NEW L \in Links, NEW x, NEW y PROVE Subst(L, NIL, x, y) = L
BY NILAssumption DEF Subst, Links

\* What replacing a pointer does to links.
LEMMA SubstLinks ==
    ASSUME NEW L \in Links, NEW q \in Ptr, NEW x, NEW y \in Ptr
    PROVE  /\ Subst(L, q, x, y) \in Links
           /\ \A m \in Nodes : Subst(L, q, x, y)[m] = IF m = q /\ L[m] = x THEN y ELSE L[m]
BY DEF Subst, Links

\* A leaf is taken away.
LEMMA DropLeaf ==
    ASSUME NEW L \in Links, NEW R \in Links, NEW S, NEW r, IsTree(L, R, S, r),
           NEW x \in S, L[x] = NIL, R[x] = NIL, NEW q \in Ptr, Leads(L, R, r, q, x)
    PROVE  IsTree(Subst(L, q, x, NIL), Subst(R, q, x, NIL), S \ {x}, IF q = NIL THEN NIL ELSE r)
<1>1. PICK up, rank, b : Tree(L, R, S, r, up, rank, b)
  BY DEF IsTree
<1>2. /\ S \subseteq Nodes /\ NIL \notin S
      /\ \A m \in Nodes : L[m] # NIL => L[m] \in S /\ m \in S /\ up[L[m]] = m /\ rank[L[m]] < rank[m]
      /\ \A m \in Nodes : R[m] # NIL => R[m] \in S /\ m \in S /\ up[R[m]] = m /\ rank[R[m]] < rank[m]
      /\ \A m \in Nodes : L[m] = R[m] => L[m] = NIL
  BY <1>1, TreeFacts
<1>3. CASE q = NIL
  <2>1. r = x
    BY <1>3 DEF Leads
  <2>2. S \subseteq {x}
    <3>1. r \in {x}
      BY <2>1
    <3> DEFINE P == {x}
    <3>2. r \in P /\ \A m \in S, y \in S : m \in P /\ y \in {L[m], R[m]} => y \in P
      BY <1>2, <3>1
    <3> HIDE DEF P
    <3>3. S \subseteq P
      BY <3>2, Reach
    <3> QED  BY <3>3 DEF P
  <2>3. S \ {x} = {}
    BY <2>2
  <2>4. \A m \in Nodes : L[m] = NIL /\ R[m] = NIL
    BY <1>2, <2>2
  <2>5. Tree(L, R, {}, NIL, up, rank, b)
    BY <1>1, <2>4, NILAssumption DEF Tree
  <2> QED  BY <1>3, <2>3, <2>5, SubstNone DEF IsTree
<1>4. CASE q # NIL
  <2> DEFINE L2 == Subst(L, q, x, NIL)
             R2 == Subst(R, q, x, NIL)
             T == S \ {x}
  <2>1. q \in Nodes /\ x \in {L[q], R[q]}
    BY <1>4 DEF Leads
  <2>2. q \in S /\ up[x] = q /\ x # r /\ x # NIL
    BY <1>1, <1>2, <1>4, <2>1 DEF Tree
  <2>3. /\ \A m \in Nodes : L2[m] = IF m = q /\ L[m] = x THEN NIL ELSE L[m]
        /\ \A m \in Nodes : R2[m] = IF m = q /\ R[m] = x THEN NIL ELSE R[m]
    BY SubstLinks DEF Ptr
  <2> HIDE DEF L2, R2
  <2>4. \A m \in Nodes, y \in Nodes :
           y \in {L2[m], R2[m]} => m \in T /\ y \in T /\ up[y] = m /\ rank[y] < rank[m]
    <3> SUFFICES ASSUME NEW m \in Nodes, NEW y \in Nodes, y \in {L2[m], R2[m]}
                 PROVE  m \in T /\ y \in T /\ up[y] = m /\ rank[y] < rank[m]
      OBVIOUS
    <3>1. y # NIL
      BY NILAssumption
    <3>2. y \in {L[m], R[m]} /\ ~(m = q /\ y = x)
      BY <2>3, <3>1
    <3>3. m \in S /\ y \in S /\ up[y] = m /\ rank[y] < rank[m]
      BY <1>2, <3>1, <3>2
    <3> QED  BY <2>2, <3>1, <3>2, <3>3
  <2>5. \A y \in T : y # r => up[y] \in T /\ y \in {L2[up[y]], R2[up[y]]}
    <3> SUFFICES ASSUME NEW y \in T, y # r PROVE up[y] \in T /\ y \in {L2[up[y]], R2[up[y]]}
      OBVIOUS
    <3>1. up[y] \in S /\ y \in {L[up[y]], R[up[y]]}
      BY <1>1 DEF Tree
    <3> QED  BY <1>2, <2>3, <3>1
  <2>6. \A m \in T : L2[m] = R2[m] => L2[m] = NIL
    BY <1>2, <2>3
  <2>7. Tree(L2, R2, T, r, up, rank, b)
    <3>1. T \subseteq Nodes /\ r \in T \cup {NIL} /\ (T # {} => r \in T)
      BY <1>1, <1>2, <2>2 DEF Tree
    <3>2. up \in Links /\ b \in Nat /\ rank \in [Nodes -> 0 .. b] /\ (r # NIL => up[r] = NIL)
      BY <1>1 DEF Tree
    <3> QED  BY <2>4, <2>5, <2>6, <3>1, <3>2 DEF Tree
  <2> QED  BY <1>4, <2>7 DEF IsTree, L2, R2
<1> QED  BY <1>3, <1>4

\* A node with a left child only is taken away, and its child takes its place.
LEMMA Splice ==
    ASSUME NEW L \in Links, NEW R \in Links, NEW S, NEW r, IsTree(L, R, S, r),
           NEW n \in S, NEW c \in Nodes, L[n] = c, R[n] = NIL, NEW q \in Ptr, Leads(L, R, r, q, n)
    PROVE  IsTree([Subst(L, q, n, c) EXCEPT ![n] = NIL], Subst(R, q, n, c), S \ {n},
                  IF q = NIL THEN c ELSE r)
<1>1. PICK up, rank, b : Tree(L, R, S, r, up, rank, b)
  BY DEF IsTree
<1>2. /\ S \subseteq Nodes /\ NIL \notin S
      /\ \A m \in Nodes : L[m] # NIL => L[m] \in S /\ m \in S /\ up[L[m]] = m /\ rank[L[m]] < rank[m]
      /\ \A m \in Nodes : R[m] # NIL => R[m] \in S /\ m \in S /\ up[R[m]] = m /\ rank[R[m]] < rank[m]
      /\ \A m \in Nodes : L[m] = R[m] => L[m] = NIL
      /\ \A m \in Nodes : rank[m] \in Nat
  BY <1>1, TreeFacts
<1> DEFINE L1 == Subst(L, q, n, c)
           L2 == [L1 EXCEPT ![n] = NIL]
           R2 == Subst(R, q, n, c)
           T == S \ {n}
           up2 == [up EXCEPT ![c] = q]
           r2 == IF q = NIL THEN c ELSE r
<1>3. c # NIL /\ c \in S /\ up[c] = n /\ rank[c] < rank[n] /\ c # n
  BY <1>2, NILAssumption
<1>4. q # NIL => q \in S /\ up[n] = q /\ rank[n] < rank[q] /\ n # r /\ q # n /\ q # c
  <2> SUFFICES ASSUME q # NIL PROVE q \in S /\ up[n] = q /\ rank[n] < rank[q] /\ n # r /\ q # n /\ q # c
    OBVIOUS
  <2>1. q \in Nodes /\ n \in {L[q], R[q]} /\ n # NIL
    BY <1>2 DEF Leads
  <2>2. q \in S /\ up[n] = q /\ rank[n] < rank[q]
    BY <1>2, <2>1
  <2> QED  BY <1>1, <1>2, <1>3, <2>2 DEF Tree
<1>5. q = NIL => r = n
  BY DEF Leads
<1>6. /\ \A m \in Nodes : L2[m] = IF m = n THEN NIL ELSE IF m = q /\ L[m] = n THEN c ELSE L[m]
      /\ \A m \in Nodes : R2[m] = IF m = q /\ R[m] = n THEN c ELSE R[m]
  <2>0. c \in Ptr
    BY DEF Ptr
  <2>1. L1 \in Links
    BY <2>0, SubstLinks
  <2>2. \A m \in Nodes : L1[m] = IF m = q /\ L[m] = n THEN c ELSE L[m]
    BY <2>0, SubstLinks
  <2>3. \A m \in Nodes : R2[m] = IF m = q /\ R[m] = n THEN c ELSE R[m]
    BY <2>0, SubstLinks
  <2> HIDE DEF L1, R2
  <2> QED  BY <2>1, <2>2, <2>3 DEF Links
<1>7. up2 \in Links /\ up2[c] = q /\ \A x \in Nodes : x # c => up2[x] = up[x]
  BY <1>1 DEF Tree, Links
<1> HIDE DEF L2, R2, up2
<1>8. \A m \in Nodes, y \in Nodes :
         y \in {L2[m], R2[m]} => m \in T /\ y \in T /\ up2[y] = m /\ rank[y] < rank[m]
  <2> SUFFICES ASSUME NEW m \in Nodes, NEW y \in Nodes, y \in {L2[m], R2[m]}
               PROVE  m \in T /\ y \in T /\ up2[y] = m /\ rank[y] < rank[m]
    OBVIOUS
  <2>1. y # NIL
    BY NILAssumption
  <2>2. m # n
    <3>1. n \in Nodes /\ n # q /\ R[n] # n
      BY <1>2, <1>4
    <3>2. L2[n] = NIL /\ R2[n] = NIL
      BY <1>6, <3>1
    <3> QED  BY <2>1, <3>2
  <2>3. CASE m = q /\ y = c
    <3>1. q \in S /\ rank[n] < rank[q] /\ up2[c] = q
      BY <1>4, <1>7, <2>3, NILAssumption
    <3>2. rank[c] \in Nat /\ rank[n] \in Nat /\ rank[q] \in Nat
      BY <1>2, <1>3, <3>1
    <3>3. rank[c] < rank[q]
      BY <1>3, <3>1, <3>2
    <3> QED  BY <1>3, <2>2, <2>3, <3>1, <3>3
  <2>4. CASE ~(m = q /\ y = c)
    <3>1. y \in {L[m], R[m]}
      BY <1>6, <2>1, <2>2, <2>4
    <3>2. m \in S /\ y \in S /\ up[y] = m /\ rank[y] < rank[m]
      BY <1>2, <2>1, <3>1
    <3>3. y # c
      BY <1>3, <2>2, <3>2
    <3>4. y # n
      <4> SUFFICES ASSUME y = n PROVE FALSE
        OBVIOUS
      <4>1. q # NIL
        BY <1>1, <1>5, <3>2, NILAssumption DEF Tree
      <4>2. m = q
        BY <1>4, <3>2, <4>1
      <4> QED  BY <1>3, <1>6, <2>2, <4>2, <1>4, <4>1
    <3> QED  BY <1>7, <2>2, <3>2, <3>3, <3>4
  <2> QED  BY <2>3, <2>4
<1>9. \A y \in T : y # r2 => up2[y] \in T /\ y \in {L2[up2[y]], R2[up2[y]]}
  <2> SUFFICES ASSUME NEW y \in T, y # r2 PROVE up2[y] \in T /\ y \in {L2[up2[y]], R2[up2[y]]}
    OBVIOUS
  <2>1. CASE y = c
    <3>1. q # NIL
      BY <2>1
    <3>2. n \in {L[q], R[q]} /\ q \in Nodes
      BY <3>1 DEF Leads
    <3> QED  BY <1>4, <1>6, <1>7, <2>1, <3>1, <3>2
  <2>2. CASE y # c
    <3>1. y # r
      BY <1>5
    <3>2. up[y] \in S /\ y \in {L[up[y]], R[up[y]]} /\ y \in Nodes
      BY <1>1, <1>2, <3>1 DEF Tree
    <3>3. up[y] # n
      BY <1>2, <2>2, <3>2
    <3> QED  BY <1>2, <1>6, <1>7, <2>2, <3>2, <3>3
  <2> QED  BY <2>1, <2>2
<1>10. \A m \in T : L2[m] = R2[m] => L2[m] = NIL
  <2> SUFFICES ASSUME NEW m \in T, L2[m] = R2[m], L2[m] # NIL PROVE FALSE
    OBVIOUS
  <2>1. m \in Nodes /\ m # n
    BY <1>2
  <2>2. L[m] # c /\ R[m] # c
    BY <1>2, <1>3, <2>1
  <2> QED  BY <1>2, <1>6, <2>1, <2>2
<1>11. /\ T \subseteq Nodes /\ r2 \in T \cup {NIL} /\ (T # {} => r2 \in T)
       /\ b \in Nat /\ rank \in [Nodes -> 0 .. b] /\ up2[r2] = NIL
  <2>1. /\ S \subseteq Nodes /\ r \in S /\ b \in Nat /\ rank \in [Nodes -> 0 .. b]
        /\ r \in Nodes /\ up[r] = NIL
    BY <1>1, <1>2 DEF Tree
  <2>2. CASE q = NIL
    BY <1>3, <1>7, <2>1, <2>2
  <2>3. CASE q # NIL
    <3>1. r # c
      BY <1>2, <1>3, <2>1
    <3> QED  BY <1>4, <1>7, <2>1, <2>3, <3>1
  <2> QED  BY <2>2, <2>3
<1> HIDE DEF T, r2
<1>12. Tree(L2, R2, T, r2, up2, rank, b)
  BY <1>7, <1>8, <1>9, <1>10, <1>11 DEF Tree
<1>13. IsTree(L2, R2, T, r2)
  BY <1>12 DEF IsTree
<1> QED  BY <1>13 DEF L2, R2, T, r2

\* The pointers after a rotation of n to the right: its left child l takes its place, and
\* what was right of l is now left of n.
TurnedLeft(L, R, q, n, l) == Subst([L EXCEPT ![n] = R[l]], q, n, l)

TurnedRight(L, R, q, n, l) == Subst([R EXCEPT ![l] = n], q, n, l)

\* Where they lead.
LEMMA RotateLinks ==
    ASSUME NEW L \in Links, NEW R \in Links, NEW S, NEW r, IsTree(L, R, S, r),
           NEW n \in S, NEW l \in Nodes, L[n] = l, NEW q \in Ptr, Leads(L, R, r, q, n)
    PROVE  /\ q # n /\ q # l /\ l # n
           /\ TurnedLeft(L, R, q, n, l) \in Links /\ TurnedRight(L, R, q, n, l) \in Links
           /\ \A m \in Nodes : TurnedLeft(L, R, q, n, l)[m] =
                 IF m = n THEN R[l] ELSE IF m = q /\ L[m] = n THEN l ELSE L[m]
           /\ \A m \in Nodes : TurnedRight(L, R, q, n, l)[m] =
                 IF m = l THEN n ELSE IF m = q /\ R[m] = n THEN l ELSE R[m]
<1>1. PICK up, rank, b : Tree(L, R, S, r, up, rank, b)
  BY DEF IsTree
<1>2. /\ S \subseteq Nodes /\ NIL \notin S
      /\ \A m \in Nodes : L[m] # NIL => L[m] \in S /\ m \in S /\ up[L[m]] = m /\ rank[L[m]] < rank[m]
      /\ \A m \in Nodes : R[m] # NIL => R[m] \in S /\ m \in S /\ up[R[m]] = m /\ rank[R[m]] < rank[m]
      /\ \A m \in Nodes : rank[m] \in Nat
  BY <1>1, TreeFacts
<1>3. l # n /\ l # NIL /\ rank[l] < rank[n] /\ n \in Nodes
  BY <1>2, NILAssumption
<1>4. q # n /\ q # l
  <2>1. CASE q = NIL
    BY <1>2, <1>3, <2>1
  <2>2. CASE q # NIL
    <3>1. q \in Nodes /\ n \in {L[q], R[q]} /\ n # NIL
      BY <1>2, <2>2 DEF Leads
    <3>2. rank[n] < rank[q]
      BY <1>2, <3>1
    <3>3. rank[n] \in Nat /\ rank[q] \in Nat /\ rank[l] \in Nat
      BY <1>2, <1>3, <3>1
    <3> QED  BY <1>3, <3>2, <3>3
  <2> QED  BY <2>1, <2>2
<1> DEFINE L1 == [L EXCEPT ![n] = R[l]]
           R1 == [R EXCEPT ![l] = n]
<1>5. L1 \in Links /\ R1 \in Links /\ l \in Ptr
  BY <1>3 DEF Links, Ptr
<1>6. /\ \A m \in Nodes : L1[m] = IF m = n THEN R[l] ELSE L[m]
      /\ \A m \in Nodes : R1[m] = IF m = l THEN n ELSE R[m]
  BY DEF Links
<1> HIDE DEF L1, R1
<1>7. /\ Subst(L1, q, n, l) \in Links /\ Subst(R1, q, n, l) \in Links
      /\ \A m \in Nodes : Subst(L1, q, n, l)[m] = IF m = q /\ L1[m] = n THEN l ELSE L1[m]
      /\ \A m \in Nodes : Subst(R1, q, n, l)[m] = IF m = q /\ R1[m] = n THEN l ELSE R1[m]
  BY <1>5, SubstLinks
<1>8. TurnedLeft(L, R, q, n, l) = Subst(L1, q, n, l) /\ TurnedRight(L, R, q, n, l) = Subst(R1, q, n, l)
  BY DEF TurnedLeft, TurnedRight, L1, R1
<1> QED  BY <1>3, <1>4, <1>6, <1>7, <1>8

\* A rotation makes a tree of a tree: the ranks from that of n upwards are raised by one, but
\* for n's own, so that there is one to spare for l.
LEMMA Rotate ==
    ASSUME NEW L \in Links, NEW R \in Links, NEW S, NEW r, IsTree(L, R, S, r),
           NEW n \in S, NEW l \in Nodes, L[n] = l, NEW q \in Ptr, Leads(L, R, r, q, n)
    PROVE  IsTree(TurnedLeft(L, R, q, n, l), TurnedRight(L, R, q, n, l), S, IF q = NIL THEN l ELSE r)
<1>1. PICK up, rank, b : Tree(L, R, S, r, up, rank, b)
  BY DEF IsTree
<1>2. /\ S \subseteq Nodes /\ NIL \notin S
      /\ \A m \in Nodes : L[m] # NIL => L[m] \in S /\ m \in S /\ up[L[m]] = m /\ rank[L[m]] < rank[m]
      /\ \A m \in Nodes : R[m] # NIL => R[m] \in S /\ m \in S /\ up[R[m]] = m /\ rank[R[m]] < rank[m]
      /\ \A m \in Nodes : L[m] = R[m] => L[m] = NIL
      /\ \A m \in Nodes : rank[m] \in Nat
  BY <1>1, TreeFacts
<1> DEFINE L2 == TurnedLeft(L, R, q, n, l)
           R2 == TurnedRight(L, R, q, n, l)
           t == R[l]
           up2 == [x \in Nodes |-> IF x = l THEN q ELSE IF x = n THEN l ELSE IF x = t THEN n ELSE up[x]]
           rank2 == [x \in Nodes |-> IF x = n THEN rank[n] ELSE IF x = l THEN rank[n] + 1
                                     ELSE IF rank[x] >= rank[n] THEN rank[x] + 1 ELSE rank[x]]
           r2 == IF q = NIL THEN l ELSE r
<1>3. /\ q # n /\ q # l /\ l # n
      /\ \A m \in Nodes : L2[m] = IF m = n THEN t ELSE IF m = q /\ L[m] = n THEN l ELSE L[m]
      /\ \A m \in Nodes : R2[m] = IF m = l THEN n ELSE IF m = q /\ R[m] = n THEN l ELSE R[m]
  BY RotateLinks
<1>4. /\ l \in S /\ up[l] = n /\ rank[l] < rank[n] /\ n \in Nodes /\ l # NIL /\ n # NIL
      /\ rank[l] \in Nat /\ rank[n] \in Nat
  BY <1>2, NILAssumption
<1>5. q # NIL => q \in S /\ up[n] = q /\ rank[n] < rank[q] /\ n # r
  BY <1>1, <1>2 DEF Leads, Tree
<1>6. q = NIL => r = n
  BY DEF Leads
<1>7. t # NIL => t \in S /\ up[t] = l /\ rank[t] < rank[l] /\ t # l /\ t # n
  <2>1. t # NIL => t \in S /\ up[t] = l /\ rank[t] < rank[l]
    BY <1>2
  <2>2. t \in S => rank[t] \in Nat
    BY <1>2
  <2> QED  BY <1>4, <2>1, <2>2
<1>8. t \in Ptr
  BY DEF Links
<1>9. \A x \in Nodes : /\ up2[x] = IF x = l THEN q ELSE IF x = n THEN l ELSE IF x = t THEN n ELSE up[x]
                       /\ rank2[x] = IF x = n THEN rank[n] ELSE IF x = l THEN rank[n] + 1
                                     ELSE IF rank[x] >= rank[n] THEN rank[x] + 1 ELSE rank[x]
  OBVIOUS
<1>10. up2 \in Links /\ rank2 \in [Nodes -> 0 .. b + 1] /\ b + 1 \in Nat
  <2>1. up \in Links /\ b \in Nat /\ \A x \in Nodes : rank[x] \in 0 .. b
    BY <1>1 DEF Tree
  <2>2. up2 \in Links
    BY <1>4, <2>1 DEF Links, Ptr
  <2>3. \A x \in Nodes : rank2[x] \in 0 .. b + 1
    <3> HIDE DEF rank2
    <3> QED  BY <1>4, <1>9, <2>1
  <2> QED  BY <2>1, <2>2, <2>3
<1> HIDE DEF L2, R2, up2, rank2, t
<1>11. \A m \in Nodes, y \in Nodes :
          y \in {L2[m], R2[m]} => m \in S /\ y \in S /\ up2[y] = m /\ rank2[y] < rank2[m]
  <2> SUFFICES ASSUME NEW m \in Nodes, NEW y \in Nodes, y \in {L2[m], R2[m]}
               PROVE  m \in S /\ y \in S /\ up2[y] = m /\ rank2[y] < rank2[m]
    OBVIOUS
  <2>1. y # NIL
    BY NILAssumption
  <2>2. rank[m] \in Nat /\ rank[y] \in Nat
    BY <1>2
  <2>3. CASE m = n /\ y = t
    BY <1>4, <1>7, <1>9, <2>1, <2>2, <2>3
  <2>4. CASE m = l /\ y = n
    BY <1>3, <1>4, <1>9, <2>2, <2>4
  <2>5. CASE m = q /\ y = l
    <3>1. q \in S /\ rank[n] < rank[q]
      BY <1>5, <2>5, NILAssumption
    <3> QED  BY <1>3, <1>4, <1>9, <2>2, <2>5, <3>1
  <2>6. CASE ~(m = n /\ y = t) /\ ~(m = l /\ y = n) /\ ~(m = q /\ y = l)
    <3>1. y \in {L[m], R[m]}
      BY <1>3, <2>6
    <3>2. m \in S /\ y \in S /\ up[y] = m /\ rank[y] < rank[m]
      BY <1>2, <2>1, <3>1
    <3>3. y # l
      <4> SUFFICES ASSUME y = l PROVE FALSE
        OBVIOUS
      <4>1. m = n
        BY <1>4, <3>2
      <4>2. L2[n] = t /\ R2[n] = R[n] /\ L[n] # R[n]
        BY <1>2, <1>3, <1>4
      <4> QED  BY <2>6, <4>1, <4>2
    <3>4. y # n
      <4> SUFFICES ASSUME y = n PROVE FALSE
        OBVIOUS
      <4>1. q # NIL /\ m = q
        BY <1>1, <1>5, <1>6, <3>2, NILAssumption DEF Tree
      <4> QED  BY <1>3, <4>1
    <3>5. y # t
      <4> SUFFICES ASSUME y = t PROVE FALSE
        OBVIOUS
      <4>1. m = l
        BY <1>7, <2>1, <3>2
      <4>2. L2[l] = L[l] /\ R2[l] = n /\ (L[l] = R[l] => L[l] = NIL)
        BY <1>2, <1>3
      <4> QED  BY <2>1, <2>6, <4>1, <4>2 DEF t
    <3>6. up2[y] = m
      BY <1>9, <3>2, <3>3, <3>4, <3>5
    <3>7. CASE m = n
      BY <1>4, <1>9, <2>2, <3>2, <3>3, <3>4, <3>6, <3>7
    <3>8. CASE m = l
      BY <1>3, <1>4, <1>9, <2>2, <3>2, <3>3, <3>4, <3>6, <3>8
    <3>9. CASE m # n /\ m # l
      BY <1>4, <1>9, <2>2, <3>2, <3>3, <3>4, <3>6, <3>9
    <3> QED  BY <3>7, <3>8, <3>9
  <2> QED  BY <2>3, <2>4, <2>5, <2>6
<1>12. \A y \in S : y # r2 => up2[y] \in S /\ y \in {L2[up2[y]], R2[up2[y]]}
  <2> SUFFICES ASSUME NEW y \in S, y # r2 PROVE up2[y] \in S /\ y \in {L2[up2[y]], R2[up2[y]]}
    OBVIOUS
  <2>0. y \in Nodes
    BY <1>2
  <2>1. CASE y = l
    <3>1. q # NIL /\ q \in Nodes /\ n \in {L[q], R[q]}
      BY <2>1 DEF Leads
    <3> QED  BY <1>3, <1>5, <1>9, <2>0, <2>1, <3>1
  <2>2. CASE y = n
    BY <1>3, <1>4, <1>9, <2>0, <2>2
  <2>3. CASE y = t /\ y # l /\ y # n
    BY <1>3, <1>4, <1>9, <2>0, <2>3
  <2>4. CASE y # l /\ y # n /\ y # t
    <3>1. y # r
      BY <1>6, <2>4
    <3>2. up[y] \in S /\ up[y] \in Nodes /\ y \in {L[up[y]], R[up[y]]}
      BY <1>1, <1>2, <3>1 DEF Tree
    <3>3. up2[y] = up[y]
      BY <1>9, <2>0, <2>4
    <3>4. y \in {L2[up[y]], R2[up[y]]}
      BY <1>3, <2>4, <3>2 DEF t
    <3> QED  BY <3>2, <3>3, <3>4
  <2> QED  BY <2>1, <2>2, <2>3, <2>4
<1>13. \A m \in S : L2[m] = R2[m] => L2[m] = NIL
  <2> SUFFICES ASSUME NEW m \in S, L2[m] = R2[m], L2[m] # NIL PROVE FALSE
    OBVIOUS
  <2>0. m \in Nodes
    BY <1>2
  <2>1. CASE m = n
    <3>1. t = R[n] /\ t # NIL
      BY <1>3, <1>4, <2>0, <2>1
    <3> QED  BY <1>2, <1>3, <1>4, <1>7, <3>1
  <2>2. CASE m = l
    <3>1. L[l] = n
      BY <1>3, <2>0, <2>2
    <3>2. rank[n] < rank[l]
      BY <1>2, <1>4, <3>1
    <3> QED  BY <1>4, <3>2
  <2>3. CASE m # n /\ m # l
    <3>1. L[m] # l /\ R[m] # l
      BY <1>2, <1>4, <2>0, <2>3
    <3> QED  BY <1>2, <1>3, <2>0, <2>3, <3>1
  <2> QED  BY <2>1, <2>2, <2>3
<1>14. S \subseteq Nodes /\ r2 \in S \cup {NIL} /\ (S # {} => r2 \in S) /\ up2[r2] = NIL
  <2>1. r \in S /\ up[r] = NIL /\ S \subseteq Nodes /\ r # NIL
    BY <1>1, <1>2 DEF Tree
  <2>2. CASE q = NIL
    BY <1>2, <1>4, <1>9, <2>2
  <2>3. CASE q # NIL
    <3>1. r # l /\ r # n
      BY <1>4, <1>5, <2>1, <2>3
    <3>2. r # t
      BY <1>4, <1>7, <2>1
    <3> QED  BY <1>9, <2>1, <2>3, <3>1, <3>2
  <2> QED  BY <2>2, <2>3
<1> HIDE DEF r2
<1>15. Tree(L2, R2, S, r2, up2, rank2, b + 1)
  BY <1>10, <1>11, <1>12, <1>13, <1>14 DEF Tree
<1>16. IsTree(L2, R2, S, r2)
  BY <1>15 DEF IsTree
<1> QED  BY <1>16 DEF L2, R2, r2

-----------------------------------------------------------------------------
(* The pointers of a heap, and what the helpers do to them.                 *)

Lefts(h) == [m \in Nodes |-> h[m].left]

Rights(h) == [m \in Nodes |-> h[m].right]

TreeOf(h, S, r) == IsTree(Lefts(h), Rights(h), S, r)

SameLinks(g, h) == Lefts(g) = Lefts(h) /\ Rights(g) = Rights(h)

SameItems(g, h) == \A m \in Nodes : g[m].ids = h[m].ids /\ g[m].last_id = h[m].last_id

Internal(h, n) == h[n].left # NIL /\ h[n].right # NIL

\* The pointers of a heap are links.
LEMMA HeapLinks ==
    ASSUME NEW h \in Heap
    PROVE  /\ Lefts(h) \in Links /\ Rights(h) \in Links
           /\ \A m \in Nodes : Lefts(h)[m] = h[m].left /\ Rights(h)[m] = h[m].right
BY HeapNode DEF Lefts, Rights, Links

\* Two heaps have the same links if each node has the same pointers.
LEMMA LinksEqual ==
    ASSUME NEW g, NEW h, \A m \in Nodes : g[m].left = h[m].left /\ g[m].right = h[m].right
    PROVE  SameLinks(g, h)
BY DEF SameLinks, Lefts, Rights

\* __ttree_node_update_height changes nothing but a height.
LEMMA UpdateHeightKeeps ==
    ASSUME NEW h \in Heap, NEW n \in Nodes
    PROVE  SameLinks(UpdateHeight(h, n), h) /\ SameItems(UpdateHeight(h, n), h)
<1> DEFINE k == 1 + Max2(Height(h, h[n].left), Height(h, h[n].right))
           g == [h EXCEPT ![n].height = k]
<1>1. UpdateHeight(h, n) = g
  BY DEF UpdateHeight
<1> HIDE DEF k
<1>2. \A m \in Nodes : /\ g[m].left = h[m].left /\ g[m].right = h[m].right
                       /\ g[m].ids = h[m].ids /\ g[m].last_id = h[m].last_id
  BY DEF Heap, TNode
<1> HIDE DEF g
<1>3. SameLinks(g, h) /\ SameItems(g, h)
  BY <1>2, LinksEqual DEF SameItems
<1> QED  BY <1>1, <1>3

\* Setting a pointer.
LEMMA SetLeftLinks ==
    ASSUME NEW h \in Heap, NEW n \in Nodes, NEW q \in Ptr
    PROVE  /\ [h EXCEPT ![n].left = q] \in Heap
           /\ Lefts([h EXCEPT ![n].left = q]) = [Lefts(h) EXCEPT ![n] = q]
           /\ Rights([h EXCEPT ![n].left = q]) = Rights(h)
           /\ SameItems([h EXCEPT ![n].left = q], h)
<1> DEFINE g == [h EXCEPT ![n].left = q]
<1>1. g \in Heap
  BY SetLeftType
<1>2. \A m \in Nodes : /\ g[m].left = IF m = n THEN q ELSE h[m].left
                       /\ g[m].right = h[m].right
                       /\ g[m].ids = h[m].ids /\ g[m].last_id = h[m].last_id
  BY DEF Heap, TNode
<1> HIDE DEF g
<1>3. Lefts(g) = [Lefts(h) EXCEPT ![n] = q] /\ Rights(g) = Rights(h)
  BY <1>2, Zenon DEF Lefts, Rights
<1> QED  BY <1>1, <1>2, <1>3 DEF SameItems, g

\* The same on the right.
LEMMA SetRightLinks ==
    ASSUME NEW h \in Heap, NEW n \in Nodes, NEW q \in Ptr
    PROVE  /\ [h EXCEPT ![n].right = q] \in Heap
           /\ Rights([h EXCEPT ![n].right = q]) = [Rights(h) EXCEPT ![n] = q]
           /\ Lefts([h EXCEPT ![n].right = q]) = Lefts(h)
           /\ SameItems([h EXCEPT ![n].right = q], h)
<1> DEFINE g == [h EXCEPT ![n].right = q]
<1>1. g \in Heap
  BY SetRightType
<1>2. \A m \in Nodes : /\ g[m].right = IF m = n THEN q ELSE h[m].right
                       /\ g[m].left = h[m].left
                       /\ g[m].ids = h[m].ids /\ g[m].last_id = h[m].last_id
  BY DEF Heap, TNode
<1> HIDE DEF g
<1>3. Rights(g) = [Rights(h) EXCEPT ![n] = q] /\ Lefts(g) = Lefts(h)
  BY <1>2, Zenon DEF Lefts, Rights
<1> QED  BY <1>1, <1>2, <1>3 DEF SameItems, g

\* The items of a third heap are those of the first.
LEMMA SameItemsTwice ==
    ASSUME NEW f, NEW g, NEW h, SameItems(f, g), SameItems(g, h)
    PROVE  SameItems(f, h)
BY DEF SameItems

\* Overwriting the pointer that leads to a node is replacing it.
LEMMA RepointLinks ==
    ASSUME NEW h \in Heap, NEW q \in Ptr, NEW n \in Nodes, NEW x \in Ptr,
           q # NIL => n \in {h[q].left, h[q].right} /\ h[q].left # h[q].right
    PROVE  /\ Repoint(h, q, n, x) \in Heap
           /\ Lefts(Repoint(h, q, n, x)) = Subst(Lefts(h), q, n, x)
           /\ Rights(Repoint(h, q, n, x)) = Subst(Rights(h), q, n, x)
           /\ SameItems(Repoint(h, q, n, x), h)
<1>0. Repoint(h, q, n, x) \in Heap
  BY RepointType
<1>1. CASE q = NIL
  <2>1. Repoint(h, q, n, x) = h
    BY <1>1 DEF Repoint
  <2> QED  BY <1>1, <2>1, HeapLinks, SubstNone DEF SameItems
<1>2. CASE q # NIL /\ h[q].left = n
  <2>1. q \in Nodes /\ h[q].right # n
    BY <1>2 DEF Ptr
  <2>2. Repoint(h, q, n, x) = [h EXCEPT ![q].left = x]
    BY <1>2 DEF Repoint
  <2>3. [Lefts(h) EXCEPT ![q] = x] = Subst(Lefts(h), q, n, x) /\ Rights(h) = Subst(Rights(h), q, n, x)
    BY <1>2, <2>1, HeapLinks, Zenon DEF Subst, Lefts, Rights
  <2>4. /\ Lefts([h EXCEPT ![q].left = x]) = [Lefts(h) EXCEPT ![q] = x]
        /\ Rights([h EXCEPT ![q].left = x]) = Rights(h)
        /\ SameItems([h EXCEPT ![q].left = x], h)
    BY <2>1, SetLeftLinks
  <2> QED  BY <1>0, <2>2, <2>3, <2>4, Zenon
<1>3. CASE q # NIL /\ h[q].left # n
  <2>1. q \in Nodes /\ h[q].right = n
    BY <1>3 DEF Ptr
  <2>2. Repoint(h, q, n, x) = [h EXCEPT ![q].right = x]
    BY <1>3 DEF Repoint
  <2>3. [Rights(h) EXCEPT ![q] = x] = Subst(Rights(h), q, n, x) /\ Lefts(h) = Subst(Lefts(h), q, n, x)
    BY <1>3, <2>1, HeapLinks, Zenon DEF Subst, Lefts, Rights
  <2>4. /\ Rights([h EXCEPT ![q].right = x]) = [Rights(h) EXCEPT ![q] = x]
        /\ Lefts([h EXCEPT ![q].right = x]) = Lefts(h)
        /\ SameItems([h EXCEPT ![q].right = x], h)
    BY <2>1, SetRightLinks
  <2> QED  BY <1>0, <2>2, <2>3, <2>4, Zenon
<1> QED  BY <1>1, <1>2, <1>3

\* What __rightRotate does to the pointers.
LEMMA RightRotateLinks ==
    ASSUME NEW h \in Heap, NEW n \in Nodes, NEW l \in Nodes, h[n].left = l
    PROVE  /\ RightRotate(h, n).heap \in Heap /\ RightRotate(h, n).top = l
           /\ Lefts(RightRotate(h, n).heap) = [Lefts(h) EXCEPT ![n] = Rights(h)[l]]
           /\ Rights(RightRotate(h, n).heap) = [Rights(h) EXCEPT ![l] = n]
           /\ SameItems(RightRotate(h, n).heap, h)
<1> DEFINE t == h[l].right
           g1 == [h EXCEPT ![l].right = n]
           g2 == [g1 EXCEPT ![n].left = t]
           g3 == UpdateHeight(g2, n)
           g4 == UpdateHeight(g3, l)
<1>1. RightRotate(h, n).heap = g4 /\ RightRotate(h, n).top = l
  BY DEF RightRotate
<1>2. t \in Ptr /\ n \in Ptr /\ t = Rights(h)[l]
  BY HeapNode, HeapLinks DEF Ptr
<1> HIDE DEF t
<1>3. g1 \in Heap /\ Rights(g1) = [Rights(h) EXCEPT ![l] = n] /\ Lefts(g1) = Lefts(h) /\ SameItems(g1, h)
  BY <1>2, SetRightLinks
<1> HIDE DEF g1
<1>4. g2 \in Heap /\ Lefts(g2) = [Lefts(g1) EXCEPT ![n] = t] /\ Rights(g2) = Rights(g1) /\ SameItems(g2, g1)
  <2>1. \A x \in Heap : LET y == [x EXCEPT ![n].left = t] IN
           /\ y \in Heap /\ Lefts(y) = [Lefts(x) EXCEPT ![n] = t] /\ Rights(y) = Rights(x) /\ SameItems(y, x)
    BY <1>2, SetLeftLinks
  <2> QED  BY <1>3, <2>1, Zenon
<1> HIDE DEF g2
<1>5. g3 \in Heap /\ SameLinks(g3, g2) /\ SameItems(g3, g2)
  BY <1>4, UpdateHeightType, UpdateHeightKeeps
<1> HIDE DEF g3
<1>6. g4 \in Heap /\ SameLinks(g4, g3) /\ SameItems(g4, g3)
  BY <1>5, UpdateHeightType, UpdateHeightKeeps
<1> HIDE DEF g4
<1>7. SameItems(g4, h)
  BY <1>3, <1>4, <1>5, <1>6, SameItemsTwice
<1> QED  BY <1>1, <1>2, <1>3, <1>4, <1>5, <1>6, <1>7 DEF SameLinks

\* What __leftRotate does to the pointers.
LEMMA LeftRotateLinks ==
    ASSUME NEW h \in Heap, NEW n \in Nodes, NEW r \in Nodes, h[n].right = r
    PROVE  /\ LeftRotate(h, n).heap \in Heap /\ LeftRotate(h, n).top = r
           /\ Rights(LeftRotate(h, n).heap) = [Rights(h) EXCEPT ![n] = Lefts(h)[r]]
           /\ Lefts(LeftRotate(h, n).heap) = [Lefts(h) EXCEPT ![r] = n]
           /\ SameItems(LeftRotate(h, n).heap, h)
<1> DEFINE t == h[r].left
           g1 == [h EXCEPT ![r].left = n]
           g2 == [g1 EXCEPT ![n].right = t]
           g3 == UpdateHeight(g2, n)
           g4 == UpdateHeight(g3, r)
<1>1. LeftRotate(h, n).heap = g4 /\ LeftRotate(h, n).top = r
  BY DEF LeftRotate
<1>2. t \in Ptr /\ n \in Ptr /\ t = Lefts(h)[r]
  BY HeapNode, HeapLinks DEF Ptr
<1> HIDE DEF t
<1>3. g1 \in Heap /\ Lefts(g1) = [Lefts(h) EXCEPT ![r] = n] /\ Rights(g1) = Rights(h) /\ SameItems(g1, h)
  BY <1>2, SetLeftLinks
<1> HIDE DEF g1
<1>4. g2 \in Heap /\ Rights(g2) = [Rights(g1) EXCEPT ![n] = t] /\ Lefts(g2) = Lefts(g1) /\ SameItems(g2, g1)
  <2>1. \A x \in Heap : LET y == [x EXCEPT ![n].right = t] IN
           /\ y \in Heap /\ Rights(y) = [Rights(x) EXCEPT ![n] = t] /\ Lefts(y) = Lefts(x) /\ SameItems(y, x)
    BY <1>2, SetRightLinks
  <2> QED  BY <1>3, <2>1, Zenon
<1> HIDE DEF g2
<1>5. g3 \in Heap /\ SameLinks(g3, g2) /\ SameItems(g3, g2)
  BY <1>4, UpdateHeightType, UpdateHeightKeeps
<1> HIDE DEF g3
<1>6. g4 \in Heap /\ SameLinks(g4, g3) /\ SameItems(g4, g3)
  BY <1>5, UpdateHeightType, UpdateHeightKeeps
<1> HIDE DEF g4
<1>7. SameItems(g4, h)
  BY <1>3, <1>4, <1>5, <1>6, SameItemsTwice
<1> QED  BY <1>1, <1>2, <1>3, <1>4, <1>5, <1>6, <1>7 DEF SameLinks

\* A node is not below itself.
LEMMA Above ==
    ASSUME NEW L \in Links, NEW R \in Links, NEW S, NEW r, IsTree(L, R, S, r),
           NEW q \in Nodes, NEW n \in Nodes, NEW l \in Nodes, NEW c \in Nodes,
           n \in {L[q], R[q]}, l \in {L[n], R[n]}, c \in {L[l], R[l]}
    PROVE  q \notin {n, l, c}
<1>1. PICK up, rank, b : Tree(L, R, S, r, up, rank, b)
  BY DEF IsTree
<1>2. rank[n] < rank[q] /\ rank[l] < rank[n] /\ rank[c] < rank[l]
  BY <1>1 DEF Tree
<1>3. rank[q] \in Nat /\ rank[n] \in Nat /\ rank[l] \in Nat /\ rank[c] \in Nat
  BY <1>1, TreeFacts
<1> QED  BY <1>2, <1>3

\* Two pointers of a node never lead to the same child, and lead into the tree.
LEMMA Children ==
    ASSUME NEW h \in Heap, NEW S, NEW r, TreeOf(h, S, r)
    PROVE  /\ S \subseteq Nodes /\ (r = NIL \/ r \in S) /\ (S # {} => r \in S)
           /\ \A m \in Nodes : h[m].left # NIL => h[m].left \in S /\ m \in S /\ h[m].left # m /\ h[m].left # r
           /\ \A m \in Nodes : h[m].right # NIL => h[m].right \in S /\ m \in S /\ h[m].right # m /\ h[m].right # r
           /\ \A m \in Nodes : h[m].left = h[m].right => h[m].left = NIL
<1>1. PICK up, rank, b : Tree(Lefts(h), Rights(h), S, r, up, rank, b)
  BY DEF TreeOf, IsTree
<1>2. /\ Lefts(h) \in Links /\ Rights(h) \in Links
      /\ \A m \in Nodes : Lefts(h)[m] = h[m].left /\ Rights(h)[m] = h[m].right
  BY HeapLinks
<1>3. /\ S \subseteq Nodes /\ NIL \notin S
      /\ \A m \in Nodes : h[m].left # NIL => h[m].left \in S /\ m \in S /\ up[h[m].left] = m
                                             /\ rank[h[m].left] < rank[m]
      /\ \A m \in Nodes : h[m].right # NIL => h[m].right \in S /\ m \in S /\ up[h[m].right] = m
                                              /\ rank[h[m].right] < rank[m]
      /\ \A m \in Nodes : h[m].left = h[m].right => h[m].left = NIL
      /\ \A m \in Nodes : rank[m] \in Nat
  <2> DEFINE L == Lefts(h)
             R == Rights(h)
  <2>1. /\ S \subseteq Nodes /\ NIL \notin S
        /\ \A m \in Nodes : L[m] # NIL => L[m] \in S /\ m \in S /\ up[L[m]] = m /\ rank[L[m]] < rank[m]
        /\ \A m \in Nodes : R[m] # NIL => R[m] \in S /\ m \in S /\ up[R[m]] = m /\ rank[R[m]] < rank[m]
        /\ \A m \in Nodes : L[m] = R[m] => L[m] = NIL
        /\ \A m \in Nodes : rank[m] \in Nat
    BY <1>1, <1>2, TreeFacts
  <2> QED  BY <1>2, <2>1
<1>4. (r = NIL \/ r \in S) /\ (S # {} => r \in S) /\ (r # NIL => up[r] = NIL)
  BY <1>1 DEF Tree
<1> QED  BY <1>3, <1>4, NILAssumption

\* __rightRotate and the pointer to its result: what was a tree is one, no item moves, and no
\* node but the one now on top gets a second child.
LEMMA RightRotateTree ==
    ASSUME NEW h \in Heap, NEW S, NEW r, TreeOf(h, S, r), NEW n \in S, NEW l \in Nodes, h[n].left = l,
           NEW q \in Ptr, Leads(Lefts(h), Rights(h), r, q, n),
           NEW g, g = Repoint(RightRotate(h, n).heap, q, n, l)
    PROVE  /\ g \in Heap /\ l \in S /\ l # n /\ SameItems(g, h)
           /\ TreeOf(g, S, IF q = NIL THEN l ELSE r)
           /\ Leads(Lefts(g), Rights(g), IF q = NIL THEN l ELSE r, q, l)
           /\ \A m \in Nodes : m # l /\ Internal(g, m) => Internal(h, m)
           /\ \A m \in Nodes \ {n, l, q} : g[m].left = h[m].left /\ g[m].right = h[m].right
           /\ q # NIL => q # n /\ RightRotate(h, n).heap[q].left = h[q].left
                         /\ RightRotate(h, n).heap[q].right = h[q].right
<1> DEFINE L == Lefts(h)
           R == Rights(h)
           f == RightRotate(h, n).heap
<1>1. /\ L \in Links /\ R \in Links
      /\ \A m \in Nodes : L[m] = h[m].left /\ R[m] = h[m].right
  BY HeapLinks
<1>2. /\ S \subseteq Nodes /\ IsTree(L, R, S, r) /\ n \in Nodes /\ l \in S /\ l # n /\ l # NIL
      /\ L[n] = l /\ Leads(L, R, r, q, n)
      /\ \A m \in Nodes : h[m].left = h[m].right => h[m].left = NIL
  BY <1>1, Children, NILAssumption DEF TreeOf
<1>3. f \in Heap /\ Lefts(f) = [L EXCEPT ![n] = R[l]] /\ Rights(f) = [R EXCEPT ![l] = n] /\ SameItems(f, h)
  BY <1>2, RightRotateLinks
<1> HIDE DEF L, R, f
<1>4. /\ q # n /\ q # l
      /\ TurnedLeft(L, R, q, n, l) \in Links /\ TurnedRight(L, R, q, n, l) \in Links
      /\ \A m \in Nodes : TurnedLeft(L, R, q, n, l)[m] =
            IF m = n THEN R[l] ELSE IF m = q /\ L[m] = n THEN l ELSE L[m]
      /\ \A m \in Nodes : TurnedRight(L, R, q, n, l)[m] =
            IF m = l THEN n ELSE IF m = q /\ R[m] = n THEN l ELSE R[m]
  BY <1>1, <1>2, RotateLinks
<1>5. IsTree(TurnedLeft(L, R, q, n, l), TurnedRight(L, R, q, n, l), S, IF q = NIL THEN l ELSE r)
  BY <1>1, <1>2, Rotate
<1>6. q # NIL => q \in Nodes /\ f[q].left = h[q].left /\ f[q].right = h[q].right
  <2> SUFFICES ASSUME q # NIL PROVE q \in Nodes /\ f[q].left = h[q].left /\ f[q].right = h[q].right
    OBVIOUS
  <2>1. q \in Nodes
    BY DEF Ptr
  <2>2. Lefts(f)[q] = f[q].left /\ Rights(f)[q] = f[q].right
    BY <1>3, <2>1, HeapLinks, Zenon
  <2> QED  BY <1>1, <1>3, <1>4, <2>1, <2>2 DEF Links
<1>7. q # NIL => n \in {f[q].left, f[q].right} /\ f[q].left # f[q].right
  <2> SUFFICES ASSUME q # NIL PROVE n \in {f[q].left, f[q].right} /\ f[q].left # f[q].right
    OBVIOUS
  <2>1. n \in {h[q].left, h[q].right} /\ n # NIL
    BY <1>1, <1>2, <1>6, NILAssumption DEF Leads
  <2> QED  BY <1>2, <1>6, <2>1
<1>8. /\ g \in Heap /\ Lefts(g) = Subst(Lefts(f), q, n, l) /\ Rights(g) = Subst(Rights(f), q, n, l)
      /\ SameItems(g, f)
  <2>1. g = Repoint(f, q, n, l) /\ l \in Ptr
    BY DEF f, Ptr
  <2>2. n \in Nodes /\ f \in Heap
    BY <1>2, <1>3
  <2>3. /\ Repoint(f, q, n, l) \in Heap
        /\ Lefts(Repoint(f, q, n, l)) = Subst(Lefts(f), q, n, l)
        /\ Rights(Repoint(f, q, n, l)) = Subst(Rights(f), q, n, l)
        /\ SameItems(Repoint(f, q, n, l), f)
    BY <1>7, <2>1, <2>2, RepointLinks
  <2> QED  BY <2>1, <2>3
<1>9. Lefts(g) = TurnedLeft(L, R, q, n, l) /\ Rights(g) = TurnedRight(L, R, q, n, l)
  BY <1>3, <1>8 DEF TurnedLeft, TurnedRight
<1>10. /\ \A m \in Nodes : g[m].left = IF m = n THEN R[l] ELSE IF m = q /\ L[m] = n THEN l ELSE L[m]
       /\ \A m \in Nodes : g[m].right = IF m = l THEN n ELSE IF m = q /\ R[m] = n THEN l ELSE R[m]
  <2>1. \A m \in Nodes : Lefts(g)[m] = g[m].left /\ Rights(g)[m] = g[m].right
    BY <1>8, HeapLinks
  <2> QED  BY <1>4, <1>9, <2>1
<1>11. SameItems(g, h)
  BY <1>3, <1>8, SameItemsTwice
<1>12. TreeOf(g, S, IF q = NIL THEN l ELSE r)
  BY <1>5, <1>9 DEF TreeOf
<1>13. Leads(Lefts(g), Rights(g), IF q = NIL THEN l ELSE r, q, l)
  BY <1>1, <1>2, <1>4, <1>9 DEF Leads
<1>14. \A m \in Nodes : m # l /\ Internal(g, m) => Internal(h, m)
  <2> SUFFICES ASSUME NEW m \in Nodes, m # l, Internal(g, m) PROVE Internal(h, m)
    OBVIOUS
  <2>1. g[m].left # NIL /\ g[m].right # NIL
    BY DEF Internal
  <2>2. h[m].left # NIL
    <3>1. CASE m = n
      BY <1>1, <1>2, <3>1
    <3>2. CASE m # n
      BY <1>1, <1>2, <1>10, <2>1, <3>2, NILAssumption
    <3> QED  BY <3>1, <3>2
  <2>3. h[m].right # NIL
    BY <1>1, <1>2, <1>10, <2>1, NILAssumption
  <2> QED  BY <2>2, <2>3 DEF Internal
<1>15. \A m \in Nodes \ {n, l, q} : g[m].left = h[m].left /\ g[m].right = h[m].right
  BY <1>1, <1>10
<1> QED  BY <1>2, <1>4, <1>6, <1>8, <1>11, <1>12, <1>13, <1>14, <1>15 DEF f

\* __leftRotate likewise.
LEMMA LeftRotateTree ==
    ASSUME NEW h \in Heap, NEW S, NEW r, TreeOf(h, S, r), NEW n \in S, NEW l \in Nodes, h[n].right = l,
           NEW q \in Ptr, Leads(Lefts(h), Rights(h), r, q, n),
           NEW g, g = Repoint(LeftRotate(h, n).heap, q, n, l)
    PROVE  /\ g \in Heap /\ l \in S /\ l # n /\ SameItems(g, h)
           /\ TreeOf(g, S, IF q = NIL THEN l ELSE r)
           /\ Leads(Lefts(g), Rights(g), IF q = NIL THEN l ELSE r, q, l)
           /\ \A m \in Nodes : m # l /\ Internal(g, m) => Internal(h, m)
           /\ \A m \in Nodes \ {n, l, q} : g[m].left = h[m].left /\ g[m].right = h[m].right
           /\ q # NIL => q # n /\ LeftRotate(h, n).heap[q].left = h[q].left
                         /\ LeftRotate(h, n).heap[q].right = h[q].right
<1> DEFINE L == Lefts(h)
           R == Rights(h)
           f == LeftRotate(h, n).heap
<1>1. /\ L \in Links /\ R \in Links
      /\ \A m \in Nodes : L[m] = h[m].left /\ R[m] = h[m].right
  BY HeapLinks
<1>2. /\ S \subseteq Nodes /\ IsTree(R, L, S, r) /\ n \in Nodes /\ l \in S /\ l # n /\ l # NIL
      /\ R[n] = l /\ Leads(R, L, r, q, n)
      /\ \A m \in Nodes : h[m].left = h[m].right => h[m].left = NIL
  <2>1. IsTree(R, L, S, r)
    BY <1>1, Mirror DEF TreeOf
  <2>2. Leads(R, L, r, q, n)
    BY DEF Leads
  <2> QED  BY <1>1, <2>1, <2>2, Children, NILAssumption
<1>3. f \in Heap /\ Rights(f) = [R EXCEPT ![n] = L[l]] /\ Lefts(f) = [L EXCEPT ![l] = n] /\ SameItems(f, h)
  BY <1>2, LeftRotateLinks
<1> HIDE DEF L, R, f
<1>4. /\ q # n /\ q # l
      /\ TurnedLeft(R, L, q, n, l) \in Links /\ TurnedRight(R, L, q, n, l) \in Links
      /\ \A m \in Nodes : TurnedLeft(R, L, q, n, l)[m] =
            IF m = n THEN L[l] ELSE IF m = q /\ R[m] = n THEN l ELSE R[m]
      /\ \A m \in Nodes : TurnedRight(R, L, q, n, l)[m] =
            IF m = l THEN n ELSE IF m = q /\ L[m] = n THEN l ELSE L[m]
  BY <1>1, <1>2, RotateLinks
<1>5. IsTree(TurnedRight(R, L, q, n, l), TurnedLeft(R, L, q, n, l), S, IF q = NIL THEN l ELSE r)
  BY <1>1, <1>2, <1>4, Rotate, Mirror
<1>6. q # NIL => q \in Nodes /\ f[q].left = h[q].left /\ f[q].right = h[q].right
  <2> SUFFICES ASSUME q # NIL PROVE q \in Nodes /\ f[q].left = h[q].left /\ f[q].right = h[q].right
    OBVIOUS
  <2>1. q \in Nodes
    BY DEF Ptr
  <2>2. Lefts(f)[q] = f[q].left /\ Rights(f)[q] = f[q].right
    BY <1>3, <2>1, HeapLinks, Zenon
  <2> QED  BY <1>1, <1>3, <1>4, <2>1, <2>2 DEF Links
<1>7. q # NIL => n \in {f[q].left, f[q].right} /\ f[q].left # f[q].right
  <2> SUFFICES ASSUME q # NIL PROVE n \in {f[q].left, f[q].right} /\ f[q].left # f[q].right
    OBVIOUS
  <2>1. n \in {h[q].left, h[q].right} /\ n # NIL
    BY <1>1, <1>2, <1>6, NILAssumption DEF Leads
  <2> QED  BY <1>2, <1>6, <2>1
<1>8. /\ g \in Heap /\ Lefts(g) = Subst(Lefts(f), q, n, l) /\ Rights(g) = Subst(Rights(f), q, n, l)
      /\ SameItems(g, f)
  <2>1. g = Repoint(f, q, n, l) /\ l \in Ptr
    BY DEF f, Ptr
  <2>2. n \in Nodes /\ f \in Heap
    BY <1>2, <1>3
  <2>3. /\ Repoint(f, q, n, l) \in Heap
        /\ Lefts(Repoint(f, q, n, l)) = Subst(Lefts(f), q, n, l)
        /\ Rights(Repoint(f, q, n, l)) = Subst(Rights(f), q, n, l)
        /\ SameItems(Repoint(f, q, n, l), f)
    BY <1>7, <2>1, <2>2, RepointLinks
  <2> QED  BY <2>1, <2>3
<1>9. Rights(g) = TurnedLeft(R, L, q, n, l) /\ Lefts(g) = TurnedRight(R, L, q, n, l)
  BY <1>3, <1>8 DEF TurnedLeft, TurnedRight
<1>10. /\ \A m \in Nodes : g[m].right = IF m = n THEN L[l] ELSE IF m = q /\ R[m] = n THEN l ELSE R[m]
       /\ \A m \in Nodes : g[m].left = IF m = l THEN n ELSE IF m = q /\ L[m] = n THEN l ELSE L[m]
  <2>1. \A m \in Nodes : Lefts(g)[m] = g[m].left /\ Rights(g)[m] = g[m].right
    BY <1>8, HeapLinks
  <2> QED  BY <1>4, <1>9, <2>1
<1>11. SameItems(g, h)
  BY <1>3, <1>8, SameItemsTwice
<1>12. TreeOf(g, S, IF q = NIL THEN l ELSE r)
  BY <1>5, <1>9 DEF TreeOf
<1>13. Leads(Lefts(g), Rights(g), IF q = NIL THEN l ELSE r, q, l)
  BY <1>1, <1>2, <1>4, <1>9 DEF Leads
<1>14. \A m \in Nodes : m # l /\ Internal(g, m) => Internal(h, m)
  <2> SUFFICES ASSUME NEW m \in Nodes, m # l, Internal(g, m) PROVE Internal(h, m)
    OBVIOUS
  <2>1. g[m].left # NIL /\ g[m].right # NIL
    BY DEF Internal
  <2>2. h[m].right # NIL
    <3>1. CASE m = n
      BY <1>1, <1>2, <3>1
    <3>2. CASE m # n
      BY <1>1, <1>2, <1>10, <2>1, <3>2, NILAssumption
    <3> QED  BY <3>1, <3>2
  <2>3. h[m].left # NIL
    BY <1>1, <1>2, <1>10, <2>1, NILAssumption
  <2> QED  BY <2>2, <2>3 DEF Internal
<1>15. \A m \in Nodes \ {n, l, q} : g[m].left = h[m].left /\ g[m].right = h[m].right
  BY <1>1, <1>10
<1> QED  BY <1>2, <1>4, <1>6, <1>8, <1>11, <1>12, <1>13, <1>14, <1>15 DEF f

\* The heap g holds the tree of h turned: its root is r, its nodes hold the same items, and
\* only the node that came on top can have got a second child.
Turned(g, h, S, r, top) ==
    /\ g \in Heap /\ top \in S /\ SameItems(g, h) /\ TreeOf(g, S, r)
    /\ \A m \in Nodes : m # top /\ Internal(g, m) => Internal(h, m)

\* __rebalance_subtree, and the pointer to its result: the same.
LEMMA RebalanceTree ==
    ASSUME NEW h \in Heap, NEW S, NEW r, TreeOf(h, S, r), NEW n \in S,
           NEW q \in Ptr, Leads(Lefts(h), Rights(h), r, q, n),
           NEW b, b = RebalanceSubtree(h, n), NEW g, g = Repoint(b.heap, q, n, b.top)
    PROVE  /\ Turned(g, h, S, IF q = NIL THEN b.top ELSE r, b.top)
           /\ b.top = n => b.heap = h
<1> SUFFICES /\ g \in Heap /\ b.top \in S /\ SameItems(g, h)
             /\ TreeOf(g, S, IF q = NIL THEN b.top ELSE r)
             /\ \A m \in Nodes : m # b.top /\ Internal(g, m) => Internal(h, m)
             /\ b.top = n => b.heap = h
  BY DEF Turned
<1> DEFINE x == BalanceFactor(h, n)
           xl == BalanceFactor(h, h[n].left)
           xr == BalanceFactor(h, h[n].right)
           l == h[n].left
           k == h[n].right
<1>1. n \in Nodes /\ n # NIL /\ n \in Ptr
  BY Children, NILAssumption DEF Ptr
<1>2. /\ x \in Int
      /\ x > 1 => l \in Nodes /\ xl \in Int
      /\ x < -1 => k \in Nodes /\ xr \in Int
  BY <1>1, HighSide
<1>3. /\ \A m \in Nodes : Lefts(h)[m] = h[m].left /\ Rights(h)[m] = h[m].right
      /\ Lefts(h) \in Links /\ Rights(h) \in Links
  BY HeapLinks
<1>4. CASE x > 1 /\ xl >= 0
  <2>1. b = RightRotate(h, n)
    BY <1>2, <1>4 DEF RebalanceSubtree
  <2>2. l \in Nodes /\ b.top = l
    BY <1>2, <1>4, <2>1 DEF RightRotate
  <2>3. g = Repoint(RightRotate(h, n).heap, q, n, l)
    BY <2>1, <2>2
  <2> HIDE DEF l, x, xl, xr
  <2>4. h[n].left = l
    BY DEF l
  <2> QED  BY <2>2, <2>3, <2>4, RightRotateTree
<1>5. CASE x < -1 /\ xr <= 0
  <2>1. b = LeftRotate(h, n)
    BY <1>2, <1>5 DEF RebalanceSubtree
  <2>2. k \in Nodes /\ b.top = k
    BY <1>2, <1>5, <2>1 DEF LeftRotate
  <2>3. g = Repoint(LeftRotate(h, n).heap, q, n, k)
    BY <2>1, <2>2
  <2> HIDE DEF k, x, xl, xr
  <2>4. h[n].right = k
    BY DEF k
  <2> QED  BY <2>2, <2>3, <2>4, LeftRotateTree
<1>6. CASE x > 1 /\ xl < 0
  <2> DEFINE c == h[l].right
             u == LeftRotate(h, l)
             v == [u.heap EXCEPT ![n].left = u.top]
  <2>1. b = RightRotate(v, n)
    BY <1>2, <1>6 DEF RebalanceSubtree, RotateLeftChild
  <2>2. l \in Nodes /\ c \in Nodes
    BY <1>2, <1>6, HighSide
  <2>3. h[n].left = l /\ h[l].right = c
    OBVIOUS
  <2> HIDE DEF l, x, xl, xr
  <2>4. u.top = c
    BY DEF LeftRotate
  <2> HIDE DEF c
  <2>5. l \in S /\ l # n /\ l # h[n].right /\ l # NIL /\ c # l /\ c # NIL
    BY <1>1, <2>2, <2>3, Children, NILAssumption
  <2>6. Leads(Lefts(h), Rights(h), r, n, l)
    BY <1>1, <1>3, <2>3 DEF Leads
  <2> DEFINE w == Repoint(u.heap, n, l, c)
  <2>7. /\ w \in Heap /\ c \in S /\ SameItems(w, h) /\ TreeOf(w, S, r)
        /\ Leads(Lefts(w), Rights(w), r, n, c)
        /\ \A m \in Nodes : m # c /\ Internal(w, m) => Internal(h, m)
        /\ \A m \in Nodes \ {l, c, n} : w[m].left = h[m].left /\ w[m].right = h[m].right
        /\ u.heap[n].left = h[n].left
    BY <1>1, <2>2, <2>3, <2>5, <2>6, LeftRotateTree
  <2>8. w = v
    BY <1>1, <2>3, <2>4, <2>7 DEF Repoint
  <2>9. v[n].left = c
    <3>1. u.heap \in Heap
      BY <2>2, <2>3, LeftRotateLinks, Zenon
    <3> HIDE DEF u
    <3> QED  BY <1>1, <2>4, <3>1 DEF Heap, TNode
  <2> HIDE DEF w, v, u
  <2>10. Leads(Lefts(w), Rights(w), r, q, n)
    <3>1. CASE q = NIL
      BY <3>1 DEF Leads
    <3>2. CASE q # NIL
      <4>1. q \in Nodes /\ n \in {Lefts(h)[q], Rights(h)[q]}
        BY <3>2 DEF Leads
      <4>2. q \notin {n, l, c}
        BY <1>1, <1>3, <2>2, <2>3, <4>1, Above DEF TreeOf
      <4>3. w[q].left = h[q].left /\ w[q].right = h[q].right
        BY <2>7, <4>1, <4>2
      <4>4. Lefts(w)[q] = w[q].left /\ Rights(w)[q] = w[q].right
        BY <2>7, <4>1, HeapLinks
      <4> QED  BY <1>3, <3>2, <4>1, <4>3, <4>4 DEF Leads
    <3> QED  BY <3>1, <3>2
  <2>11. b.top = c
    BY <2>1, <2>9 DEF RightRotate
  <2>12. g = Repoint(RightRotate(w, n).heap, q, n, c)
    BY <2>1, <2>8, <2>11
  <2>13. /\ g \in Heap /\ c # n /\ SameItems(g, w)
         /\ TreeOf(g, S, IF q = NIL THEN c ELSE r)
         /\ \A m \in Nodes : m # c /\ Internal(g, m) => Internal(w, m)
    BY <2>2, <2>7, <2>8, <2>9, <2>10, <2>12, RightRotateTree
  <2>14. SameItems(g, h)
    BY <2>7, <2>13, SameItemsTwice
  <2> QED  BY <2>7, <2>11, <2>13, <2>14
<1>7. CASE x < -1 /\ xr > 0
  <2> DEFINE c == h[k].left
             u == RightRotate(h, k)
             v == [u.heap EXCEPT ![n].right = u.top]
  <2>1. b = LeftRotate(v, n)
    BY <1>2, <1>7 DEF RebalanceSubtree, RotateRightChild
  <2>2. k \in Nodes /\ c \in Nodes
    BY <1>2, <1>7, HighSide
  <2>3. h[n].right = k /\ h[k].left = c
    OBVIOUS
  <2> HIDE DEF k, x, xl, xr
  <2>4. u.top = c
    BY DEF RightRotate
  <2> HIDE DEF c
  <2>5. k \in S /\ k # n /\ k # h[n].left /\ k # NIL /\ c # k /\ c # NIL
    BY <1>1, <2>2, <2>3, Children, NILAssumption
  <2>6. Leads(Lefts(h), Rights(h), r, n, k)
    BY <1>1, <1>3, <2>3 DEF Leads
  <2> DEFINE w == Repoint(u.heap, n, k, c)
  <2>7. /\ w \in Heap /\ c \in S /\ SameItems(w, h) /\ TreeOf(w, S, r)
        /\ Leads(Lefts(w), Rights(w), r, n, c)
        /\ \A m \in Nodes : m # c /\ Internal(w, m) => Internal(h, m)
        /\ \A m \in Nodes \ {k, c, n} : w[m].left = h[m].left /\ w[m].right = h[m].right
        /\ u.heap[n].left = h[n].left
    BY <1>1, <2>2, <2>3, <2>5, <2>6, RightRotateTree
  <2>8. w = v
    BY <1>1, <2>3, <2>4, <2>5, <2>7 DEF Repoint
  <2>9. v[n].right = c
    <3>1. u.heap \in Heap
      BY <2>2, <2>3, RightRotateLinks, Zenon
    <3> HIDE DEF u
    <3> QED  BY <1>1, <2>4, <3>1 DEF Heap, TNode
  <2> HIDE DEF w, v, u
  <2>10. Leads(Lefts(w), Rights(w), r, q, n)
    <3>1. CASE q = NIL
      BY <3>1 DEF Leads
    <3>2. CASE q # NIL
      <4>1. q \in Nodes /\ n \in {Lefts(h)[q], Rights(h)[q]}
        BY <3>2 DEF Leads
      <4>2. q \notin {n, k, c}
        BY <1>1, <1>3, <2>2, <2>3, <4>1, Above DEF TreeOf
      <4>3. w[q].left = h[q].left /\ w[q].right = h[q].right
        BY <2>7, <4>1, <4>2
      <4>4. Lefts(w)[q] = w[q].left /\ Rights(w)[q] = w[q].right
        BY <2>7, <4>1, HeapLinks
      <4> QED  BY <1>3, <3>2, <4>1, <4>3, <4>4 DEF Leads
    <3> QED  BY <3>1, <3>2
  <2>11. b.top = c
    BY <2>1, <2>9 DEF LeftRotate
  <2>12. g = Repoint(LeftRotate(w, n).heap, q, n, c)
    BY <2>1, <2>8, <2>11
  <2>13. /\ g \in Heap /\ c # n /\ SameItems(g, w)
         /\ TreeOf(g, S, IF q = NIL THEN c ELSE r)
         /\ \A m \in Nodes : m # c /\ Internal(g, m) => Internal(w, m)
    BY <2>2, <2>7, <2>8, <2>9, <2>10, <2>12, LeftRotateTree
  <2>14. SameItems(g, h)
    BY <2>7, <2>13, SameItemsTwice
  <2> QED  BY <2>7, <2>11, <2>13, <2>14
<1>8. CASE x \in -1 .. 1
  <2>1. b = [top |-> n, heap |-> h]
    BY <1>2, <1>8 DEF RebalanceSubtree
  <2>2. b.top = n /\ b.heap = h /\ g = Repoint(h, q, n, n)
    BY <2>1
  <2>3. q # NIL => n \in {h[q].left, h[q].right} /\ h[q].left # h[q].right
    <3> SUFFICES ASSUME q # NIL PROVE n \in {h[q].left, h[q].right} /\ h[q].left # h[q].right
      OBVIOUS
    <3>1. q \in Nodes /\ n \in {h[q].left, h[q].right}
      BY <1>3 DEF Leads
    <3> QED  BY <1>1, <3>1, Children
  <2>4. /\ g \in Heap /\ Lefts(g) = Subst(Lefts(h), q, n, n) /\ Rights(g) = Subst(Rights(h), q, n, n)
        /\ SameItems(g, h)
    BY <1>1, <2>2, <2>3, RepointLinks
  <2>5. SameLinks(g, h)
    BY <1>3, <2>4 DEF SameLinks, Subst, Links
  <2>6. TreeOf(g, S, IF q = NIL THEN n ELSE r)
    BY <2>5 DEF TreeOf, SameLinks, Leads
  <2>7. \A m \in Nodes : Internal(g, m) => Internal(h, m)
    <3>1. \A m \in Nodes : Lefts(g)[m] = g[m].left /\ Rights(g)[m] = g[m].right
      BY <2>4, HeapLinks
    <3> QED  BY <1>3, <2>5, <3>1 DEF SameLinks, Internal
  <2> QED  BY <2>2, <2>4, <2>6, <2>7
<1> QED  BY <1>2, <1>4, <1>5, <1>6, <1>7, <1>8

-----------------------------------------------------------------------------
(* What the node operations do to the entries.                              *)

\* The node holds something, and last_id is the copy of its last ID.
Whole(h, n) == h[n].ids # <<>> /\ h[n].last_id = Last(h[n].ids)

\* A node with two children holds at least MinLen entries.
Rich(h, n) == Internal(h, n) => Length(h, n) >= MinLen

\* The same pointers, node by node.
LEMMA LinksSame ==
    ASSUME NEW g, NEW h, SameLinks(g, h)
    PROVE  /\ \A m \in Nodes : g[m].left = h[m].left /\ g[m].right = h[m].right
           /\ \A m \in Nodes : Internal(g, m) <=> Internal(h, m)
           /\ \A S, r : TreeOf(g, S, r) <=> TreeOf(h, S, r)
<1>1. ASSUME NEW m \in Nodes PROVE g[m].left = h[m].left /\ g[m].right = h[m].right
  <2>1. Lefts(g)[m] = Lefts(h)[m] /\ Rights(g)[m] = Rights(h)[m]
    BY DEF SameLinks
  <2> QED  BY <2>1 DEF Lefts, Rights
<1> QED  BY <1>1 DEF SameLinks, TreeOf, Internal

\* What is asked of a node's entries depends on its items alone.
LEMMA SameItemsWhole ==
    ASSUME NEW g, NEW h, SameItems(g, h)
    PROVE  /\ \A m \in Nodes : Whole(g, m) <=> Whole(h, m)
           /\ \A m \in Nodes : Length(g, m) = Length(h, m)
BY DEF SameItems, Whole, Length

\* A sequence is not empty if its length is not zero.
LEMMA NotEmpty ==
    ASSUME NEW T, NEW s \in Seq(T) PROVE s # <<>> <=> Len(s) > 0
BY EmptySeq, LenProperties

\* Overwriting a node's arrays: last_id follows unless the node is left empty.
LEMMA SetItemsKeeps ==
    ASSUME NEW h \in Heap, NEW n \in Nodes, NEW ids \in Seq(ID), NEW data \in Seq(Record)
    PROVE  /\ SameLinks(SetItems(h, n, ids, data), h)
           /\ Length(SetItems(h, n, ids, data), n) = Len(ids)
           /\ Len(ids) > 0 => Whole(SetItems(h, n, ids, data), n)
           /\ SetItems(h, n, ids, data)[n].ids = ids
           /\ \A m \in Nodes : m # n => SetItems(h, n, ids, data)[m] = h[m]
<1> DEFINE last == IF ids = <<>> THEN h[n].last_id ELSE ids[Len(ids)]
           r == [h[n] EXCEPT !.ids = ids, !.data = data, !.last_id = last]
           g == SetItems(h, n, ids, data)
<1>1. h[n] \in TNode
  BY HeapNode
<1>2. g = [h EXCEPT ![n] = r]
  BY <1>1, Zenon DEF SetItems, TNode, Heap
<1>3. r.ids = ids /\ r.last_id = last /\ r.left = h[n].left /\ r.right = h[n].right
  BY <1>1 DEF TNode
<1>4. Len(ids) > 0 => ids # <<>> /\ last = Last(ids)
  BY NotEmpty DEF Last
<1> HIDE DEF last, r, g
<1>5. g[n] = r /\ \A m \in Nodes : m # n => g[m] = h[m]
  BY <1>2 DEF Heap
<1>6. SameLinks(g, h)
  BY <1>3, <1>5, LinksEqual
<1>7. Length(g, n) = Len(ids) /\ (Len(ids) > 0 => Whole(g, n))
  BY <1>3, <1>4, <1>5 DEF Length, Whole
<1> QED  BY <1>3, <1>5, <1>6, <1>7 DEF g

\* __ttree_node_insert leaves a node that holds something.
LEMMA NodeInsertKeeps ==
    ASSUME NEW h \in Heap, NEW n \in Nodes, NEW p \in 0 .. Length(h, n), NEW e \in Entry,
           Length(h, n) < NodeSize
    PROVE  /\ SameLinks(NodeInsert(h, n, p, e), h)
           /\ Whole(NodeInsert(h, n, p, e), n)
<1> DEFINE i == p + 1
           s == h[n].ids
           d == h[n].data
           ids == InsertAt(s, i, e.id)
           data == InsertAt(d, i, e.rec)
<1>1. e.id \in ID /\ e.rec \in Record
  BY DEF Entry
<1>2. /\ s \in Seq(ID) /\ d \in Seq(Record) /\ Len(d) = Len(s) /\ Len(s) \in Nat
      /\ i \in 1 .. Len(s) + 1 /\ i \in 1 .. Len(d) + 1
  BY HeapNode, SizeAssumption DEF Length
<1>3. NodeInsert(h, n, p, e) = SetItems(h, n, ids, data)
  BY DEF NodeInsert
<1> HIDE DEF s, d, i
<1>4. ids \in Seq(ID) /\ Len(ids) = Len(s) + 1
  BY <1>1, <1>2, InsertAtType
<1>5. data \in Seq(Record)
  BY <1>1, <1>2, InsertAtType
<1> HIDE DEF ids, data
<1>6. Len(ids) > 0
  BY <1>2, <1>4
<1> QED  BY <1>3, <1>4, <1>5, <1>6, SetItemsKeeps

\* __ttree_node_remove too, unless it takes the only entry.
LEMMA NodeRemoveKeeps ==
    ASSUME NEW h \in Heap, NEW n \in Nodes, NEW p \in Nat, p < Length(h, n)
    PROVE  /\ SameLinks(NodeRemove(h, n, p), h)
           /\ Whole(NodeRemove(h, n, p), n) \/ NodeRemove(h, n, p)[n].ids = <<>>
<1> DEFINE i == p + 1
           s == h[n].ids
           d == h[n].data
           ids == RemoveAt(s, i)
           data == RemoveAt(d, i)
<1>1. /\ s \in Seq(ID) /\ d \in Seq(Record)
      /\ i \in 1 .. Len(s) /\ i \in 1 .. Len(d)
  BY HeapNode, SizeAssumption DEF Length
<1>2. NodeRemove(h, n, p) = SetItems(h, n, ids, data)
  BY DEF NodeRemove
<1> HIDE DEF s, d, i
<1>3. ids \in Seq(ID) /\ data \in Seq(Record)
  BY <1>1, RemoveAtType
<1> HIDE DEF ids, data
<1>4. ids = <<>> \/ Len(ids) > 0
  BY <1>3, NotEmpty
<1> QED  BY <1>2, <1>3, <1>4, SetItemsKeeps

\* __ttree_node_insert_removing_first below the last entry leaves last_id right.
LEMMA InsertRemovingFirstKeeps ==
    ASSUME NEW h \in Heap, NEW n \in Nodes, NEW p \in Nat, 1 <= p, p < Length(h, n), NEW e \in Entry,
           Whole(h, n)
    PROVE  /\ SameLinks(InsertRemovingFirst(h, n, p, e), h)
           /\ Whole(InsertRemovingFirst(h, n, p, e), n)
           /\ Length(InsertRemovingFirst(h, n, p, e), n) = Length(h, n)
<1> DEFINE s == h[n].ids
           d == h[n].data
           ids == ShiftIn(s, p, e.id)
           data == ShiftIn(d, p, e.rec)
           r == [h[n] EXCEPT !.ids = ids, !.data = data]
           g == InsertRemovingFirst(h, n, p, e)
<1>1. h[n] \in TNode /\ s \in Seq(ID) /\ Len(s) = Length(h, n) /\ Len(s) \in Nat /\ e.id \in ID
  BY HeapNode, SizeAssumption DEF Length, Entry
<1>2. g = [h EXCEPT ![n] = r]
  BY <1>1, Zenon DEF InsertRemovingFirst, TNode, Heap
<1>3. r.ids = ids /\ r.last_id = h[n].last_id /\ r.left = h[n].left /\ r.right = h[n].right
  BY <1>1 DEF TNode
<1>4. s # <<>> /\ h[n].last_id = s[Len(s)]
  BY DEF Whole, Last
<1> HIDE DEF r, g, s
<1>5. ids \in Seq(ID) /\ Len(ids) = Len(s)
  <2>1. p <= Len(s)
    BY <1>1
  <2> QED  BY <1>1, <2>1, ShiftInType, Zenon
<1>6. ids[Len(ids)] = s[Len(s)]
  <2> DEFINE a == SubSeq(s, 2, p)
             q == p + 1
             c == SubSeq(s, q, Len(s))
             f == a \o <<e.id>>
  <2>1. a \in Seq(ID) /\ Len(a) = p - 1
    BY <1>1, SliceType
  <2>2. q \in Nat /\ q >= 1 /\ q <= Len(s) /\ Len(s) \in Int /\ q = p + 1
    BY <1>1
  <2>3. ids = f \o c
    BY DEF ShiftIn
  <2> HIDE DEF q, a, ids
  <2>4. c \in Seq(ID) /\ Len(c) = Len(s) - p
    BY <1>1, <2>2, SliceType
  <2>5. \A i \in 1 .. (Len(s) - q + 1) : c[i] = s[q + i - 1]
    <3>1. \A i \in q .. Len(s) : s[i] \in ID
      BY <1>1, <2>2, ElementOfSeq
    <3> QED  BY <2>2, <3>1, SubSeqProperties, SMT
  <2>6. c[Len(s) - p] = s[Len(s)]
    <3>1. Len(s) - p \in 1 .. (Len(s) - q + 1) /\ q + (Len(s) - p) - 1 = Len(s)
      BY <1>1, <2>2
    <3> HIDE DEF c
    <3> QED  BY <2>5, <3>1
  <2>7. f \in Seq(ID) /\ Len(f) = p
    <3>1. <<e.id>> \in Seq(ID) /\ Len(<<e.id>>) = 1
      BY <1>1
    <3> QED  BY <1>1, <2>1, <3>1, ConcatType
  <2> HIDE DEF c, f
  <2>8. \A i \in Len(f) + 1 .. Len(f) + Len(c) : (f \o c)[i] = c[i - Len(f)]
    BY <2>4, <2>7, ConcatProperties, SMT
  <2>9. Len(s) \in Len(f) + 1 .. Len(f) + Len(c) /\ Len(s) - Len(f) = Len(s) - p
    BY <1>1, <2>4, <2>7
  <2> QED  BY <1>5, <2>3, <2>6, <2>8, <2>9
<1> HIDE DEF ids
<1>7. g[n] = r /\ \A m \in Nodes : m # n => g[m] = h[m]
  BY <1>2 DEF Heap
<1>8. SameLinks(g, h)
  BY <1>3, <1>7, LinksEqual
<1>9. ids # <<>>
  BY <1>1, <1>5, NotEmpty
<1>10. Whole(g, n)
  BY <1>3, <1>4, <1>6, <1>7, <1>9 DEF Whole, Last
<1>11. Length(g, n) = Length(h, n)
  BY <1>1, <1>3, <1>5, <1>7 DEF Length
<1> QED  BY <1>8, <1>10, <1>11 DEF g

\* __ttree_node_move: what dst gains src loses, and last_id follows in both.
LEMMA MoveKeeps ==
    ASSUME NEW h \in Heap, NEW dst \in Nodes, NEW src \in Nodes,
           NEW p \in Nat, NEW from \in Nat, NEW len \in Nat,
           MoveAsserts(h, dst, p, src, from, len), Length(h, dst) + len <= NodeSize
    PROVE  /\ SameLinks(Move(h, dst, p, src, from, len), h)
           /\ Length(Move(h, dst, p, src, from, len), dst) = Length(h, dst) + len
           /\ Length(Move(h, dst, p, src, from, len), src) = Length(h, src) - len
           /\ Length(h, dst) + len > 0 => Whole(Move(h, dst, p, src, from, len), dst)
           /\ Length(h, src) - len > 0 => Whole(Move(h, dst, p, src, from, len), src)
           /\ \A m \in Nodes \ {dst, src} : Move(h, dst, p, src, from, len)[m] = h[m]
<1> DEFINE di == h[dst].ids
           dd == h[dst].data
           si == h[src].ids
           sd == h[src].data
           gi == Graft(di, p, si, from, len)
           gd == Graft(dd, p, sd, from, len)
           ci == Cut(si, from, len)
           cd == Cut(sd, from, len)
           g == SetItems(h, dst, gi, gd)
           k == SetItems(g, src, ci, cd)
<1>1. dst # src /\ p <= Length(h, dst) /\ from + len <= Length(h, src)
  BY DEF MoveAsserts
<1>2. /\ di \in Seq(ID) /\ dd \in Seq(Record) /\ si \in Seq(ID) /\ sd \in Seq(Record)
      /\ Len(di) = Length(h, dst) /\ Len(dd) = Length(h, dst)
      /\ Len(si) = Length(h, src) /\ Len(sd) = Length(h, src)
      /\ Length(h, dst) \in 0 .. NodeSize /\ Length(h, src) \in 0 .. NodeSize
  BY HeapNode DEF Length
<1>8. Move(h, dst, p, src, from, len) = k
  BY DEF Move
<1> HIDE DEF di, dd, si, sd
<1>3. /\ p <= Len(di) /\ p <= Len(dd)
      /\ from + len <= Len(si) /\ from + len <= Len(sd)
  BY <1>1, <1>2
<1>4. gi \in Seq(ID) /\ Len(gi) = Len(di) + len
  <2>1. \A s, t \in Seq(ID) : p <= Len(s) /\ from + len <= Len(t) =>
            Graft(s, p, t, from, len) \in Seq(ID) /\ Len(Graft(s, p, t, from, len)) = Len(s) + len
    BY GraftType
  <2> QED  BY <1>2, <1>3, <2>1
<1>5. gd \in Seq(Record) /\ Len(gd) = Len(dd) + len
  <2>1. \A s, t \in Seq(Record) : p <= Len(s) /\ from + len <= Len(t) =>
            Graft(s, p, t, from, len) \in Seq(Record) /\ Len(Graft(s, p, t, from, len)) = Len(s) + len
    BY GraftType
  <2> QED  BY <1>2, <1>3, <2>1, Zenon
<1>6. ci \in Seq(ID) /\ Len(ci) = Len(si) - len
  BY <1>2, <1>3, CutType, Zenon
<1>7. cd \in Seq(Record) /\ Len(cd) = Len(sd) - len
  BY <1>2, <1>3, CutType, Zenon
<1> HIDE DEF gi, gd, ci, cd
<1>9. g \in Heap
  BY <1>2, <1>4, <1>5, SetItemsType
<1>10. /\ SameLinks(g, h) /\ Length(g, dst) = Length(h, dst) + len
       /\ Length(h, dst) + len > 0 => Whole(g, dst)
       /\ \A m \in Nodes : m # dst => g[m] = h[m]
  <2>1. /\ SameLinks(g, h) /\ Length(g, dst) = Len(gi)
        /\ Len(gi) > 0 => Whole(g, dst)
        /\ \A m \in Nodes : m # dst => g[m] = h[m]
    <3>1. gi \in Seq(ID) /\ gd \in Seq(Record)
      BY <1>4, <1>5
    <3> QED  BY <3>1, SetItemsKeeps
  <2>2. Len(gi) = Length(h, dst) + len
    BY <1>2, <1>4
  <2> QED  BY <2>1, <2>2
<1> HIDE DEF g
<1>11. /\ SameLinks(k, g) /\ Length(k, src) = Length(h, src) - len
       /\ Length(h, src) - len > 0 => Whole(k, src)
       /\ \A m \in Nodes : m # src => k[m] = g[m]
  <2>1. /\ SameLinks(k, g) /\ Length(k, src) = Len(ci)
        /\ Len(ci) > 0 => Whole(k, src)
        /\ \A m \in Nodes : m # src => k[m] = g[m]
    <3>1. ci \in Seq(ID) /\ cd \in Seq(Record) /\ g \in Heap
      BY <1>6, <1>7, <1>9
    <3>2. \A b \in Heap : /\ SameLinks(SetItems(b, src, ci, cd), b)
                          /\ Length(SetItems(b, src, ci, cd), src) = Len(ci)
                          /\ Len(ci) > 0 => Whole(SetItems(b, src, ci, cd), src)
                          /\ \A m \in Nodes : m # src => SetItems(b, src, ci, cd)[m] = b[m]
      BY <3>1, SetItemsKeeps
    <3> QED  BY <3>1, <3>2
  <2>2. Len(ci) = Length(h, src) - len
    BY <1>2, <1>6
  <2> QED  BY <2>1, <2>2
<1> HIDE DEF k
<1>12. k[dst] = g[dst] /\ \A m \in Nodes \ {dst, src} : k[m] = h[m]
  BY <1>1, <1>10, <1>11
<1>13. Length(k, dst) = Length(h, dst) + len /\ (Length(h, dst) + len > 0 => Whole(k, dst))
  BY <1>10, <1>12 DEF Length, Whole
<1>14. SameLinks(k, h)
  BY <1>10, <1>11 DEF SameLinks
<1> QED  BY <1>8, <1>11, <1>12, <1>13, <1>14

\* Taking no more than __ttree_node_removable_count leaves a node its last entry, and one
\* with two children MinLen of them.
LEMMA RemovableCountKeeps ==
    ASSUME NEW h \in Heap, NEW n \in Nodes, Whole(h, n), Rich(h, n),
           NEW x \in Nat, x <= RemovableCount(h, n)
    PROVE  x < Length(h, n) /\ (Internal(h, n) => Length(h, n) - x >= MinLen)
<1>1. Length(h, n) \in Nat /\ Length(h, n) > 0 /\ MinLen \in Nat /\ MinLen >= 1
  BY HeapNode, NotEmpty, MinLenType, SizeAssumption DEF Whole, Length
<1>2. CASE Internal(h, n)
  <2>1. Length(h, n) - MinLen \in Nat
    BY <1>1, <1>2 DEF Rich
  <2>2. \A i \in Nat : i % 256 <= i
    OBVIOUS
  <2>3. RemovableCount(h, n) = (Length(h, n) - MinLen) % 256
    BY <1>2 DEF RemovableCount, Kind, Internal
  <2>4. (Length(h, n) - MinLen) % 256 \in Nat
    BY <2>1
  <2>5. x <= Length(h, n) - MinLen
    BY <2>1, <2>2, <2>3, <2>4
  <2> QED  BY <1>1, <2>5
<1>3. CASE ~Internal(h, n)
  <2>1. RemovableCount(h, n) = Length(h, n) - 1
    BY <1>1, <1>3 DEF RemovableCount, Kind, Internal
  <2> QED  BY <1>1, <1>3, <2>1
<1> QED  BY <1>2, <1>3

\* __ttree_node_ensure_min_len: when its asserts hold, the node and its children are left
\* with enough entries, and no pointer changes.
LEMMA EnsureMinLenKeeps ==
    ASSUME NEW h \in Heap, NEW S, NEW r, TreeOf(h, S, r), NEW n \in S, EnsureMinLenAsserts(h, n),
           \A m \in S : Whole(h, m), \A m \in S : m # n => Rich(h, m),
           NEW g, g = EnsureMinLen(h, n)
    PROVE  /\ g \in Heap /\ SameLinks(g, h)
           /\ \A m \in S : Whole(g, m) /\ Rich(g, m)
<1>0. /\ S \subseteq Nodes /\ n \in Nodes
      /\ \A m \in Nodes : h[m].left # NIL => h[m].left \in S /\ h[m].left # m
      /\ \A m \in Nodes : h[m].right # NIL => h[m].right \in S /\ h[m].right # m
      /\ \A m \in Nodes : h[m].left = h[m].right => h[m].left = NIL
  BY Children
<1>1. g \in Heap
  BY <1>0, EnsureMinLenType
<1>2. CASE ~ShortOfRecords(h, n)
  <2>1. g = h
    BY <1>2 DEF EnsureMinLen
  <2>2. Rich(h, n)
    <3>1. Length(h, n) \in Nat /\ MinLen \in Nat
      BY <1>0, HeapNode, MinLenType, SizeAssumption
    <3> QED  BY <1>2, <3>1 DEF ShortOfRecords, Rich, Kind, Internal
  <2> QED  BY <1>1, <2>1, <2>2 DEF SameLinks
<1>3. CASE ShortOfRecords(h, n)
  <2> DEFINE l == h[n].left
             k == h[n].right
             x == LeftSteal(h, n)
             f == LeftStealFrom(h, n)
             y == RightSteal(h, n)
             a == StealLeft(h, n)
  <2>1. l # NIL /\ k # NIL /\ Length(h, n) < MinLen
    BY <1>3 DEF ShortOfRecords, Kind
  <2>2. l \in S /\ k \in S /\ l # k /\ l # n /\ k # n /\ l \in Nodes /\ k \in Nodes
    BY <1>0, <2>1
  <2>3. /\ Length(h, n) \in Nat /\ Length(h, l) \in Nat /\ Length(h, k) \in Nat
        /\ MinLen \in Nat /\ MinLen <= NodeSize /\ Length(h, n) > 0
    BY <1>0, <2>2, HeapNode, NotEmpty, MinLenType, SizeAssumption DEF Whole, Length
  <2>4. x \in Nat /\ x <= MinLen - Length(h, n) /\ x <= RemovableCount(h, l)
    <3>1. RemovableCount(h, l) \in Nat
      BY <2>2, RemovableCountType
    <3> QED  BY <2>1, <2>3, <3>1 DEF LeftSteal, Min2
  <2>5. f \in Nat
    BY <2>3, <2>4 DEF LeftStealFrom
  <2>6. y \in Nat /\ y <= MinLen - Length(h, n) - x /\ y <= RemovableCount(h, k)
    <3>1. RemovableCount(h, k) \in Nat
      BY <2>2, RemovableCountType
    <3> QED  BY <2>1, <2>3, <2>4, <3>1 DEF RightSteal, Min2
  <2>7. MoveAsserts(h, n, 0, l, f, x) /\ MoveAsserts(a, n, Length(a, n), k, 0, y)
    BY <1>3 DEF EnsureMinLenAsserts
  <2>8. g = Move(a, n, Length(a, n), a[n].right, 0, y) /\ Length(g, n) >= MinLen
    BY <1>3 DEF EnsureMinLen, StealRight, EnsureMinLenAsserts
  <2>9. a = Move(h, n, 0, l, f, x) /\ k = h[n].right
    BY DEF StealLeft
  <2>10. /\ x < Length(h, l) /\ (Internal(h, l) => Length(h, l) - x >= MinLen)
         /\ y < Length(h, k) /\ (Internal(h, k) => Length(h, k) - y >= MinLen)
    <3> HIDE DEF l, k, x, y
    <3> QED  BY <2>2, <2>4, <2>6, RemovableCountKeeps
  <2> HIDE DEF l, k, x, f, y, a
  <2>11. Length(h, n) + x <= NodeSize
    BY <2>3, <2>4, SizeAssumption
  <2>12. a \in Heap
    BY <1>0, <2>2, <2>4, <2>5, <2>7, <2>9, <2>11, MoveType
  <2>13. /\ SameLinks(a, h) /\ Length(a, n) = Length(h, n) + x
         /\ Length(a, l) = Length(h, l) - x
         /\ Length(h, n) + x > 0 => Whole(a, n)
         /\ Length(h, l) - x > 0 => Whole(a, l)
         /\ \A m \in Nodes \ {n, l} : a[m] = h[m]
    BY <1>0, <2>2, <2>4, <2>5, <2>7, <2>9, <2>11, MoveKeeps
  <2>14. Length(a, n) \in Nat /\ Length(a, n) + y <= NodeSize /\ Length(a, k) = Length(h, k)
    <3>1. Length(a, k) = Length(h, k)
      BY <2>2, <2>13 DEF Length
    <3> QED  BY <2>3, <2>4, <2>6, <2>13, <3>1, SizeAssumption
  <2>15. g = Move(a, n, Length(a, n), k, 0, y)
    BY <1>0, <2>8, <2>9, <2>13, LinksSame
  <2>16. /\ SameLinks(g, a) /\ Length(g, k) = Length(a, k) - y
         /\ Length(a, n) + y > 0 => Whole(g, n)
         /\ Length(a, k) - y > 0 => Whole(g, k)
         /\ \A m \in Nodes \ {n, k} : g[m] = a[m]
    <3>1. PICK z : z = Length(a, n)
      OBVIOUS
    <3>2. /\ a \in Heap /\ n \in Nodes /\ k \in Nodes /\ z \in Nat /\ 0 \in Nat /\ y \in Nat
          /\ MoveAsserts(a, n, z, k, 0, y) /\ Length(a, n) + y <= NodeSize
      BY <1>0, <2>2, <2>6, <2>7, <2>12, <2>14, <3>1
    <3>3. g = Move(a, n, z, k, 0, y)
      BY <2>15, <3>1
    <3> QED  BY <3>2, <3>3, MoveKeeps
  <2>17. SameLinks(g, h)
    BY <2>13, <2>16 DEF SameLinks
  <2>18. Whole(g, n) /\ Rich(g, n)
    BY <2>3, <2>4, <2>6, <2>8, <2>13, <2>14, <2>16 DEF Rich
  <2>19. Whole(g, l) /\ Rich(g, l)
    <3>1. Whole(a, l) /\ Length(a, l) = Length(h, l) - x /\ g[l] = a[l]
      BY <2>2, <2>3, <2>4, <2>10, <2>13, <2>16
    <3>2. Internal(g, l) <=> Internal(h, l)
      BY <2>2, <2>17, LinksSame
    <3> QED  BY <2>10, <3>1, <3>2 DEF Whole, Rich, Length
  <2>20. Whole(g, k) /\ Rich(g, k)
    <3>1. Whole(g, k) /\ Length(g, k) = Length(h, k) - y
      BY <2>3, <2>6, <2>10, <2>14, <2>16
    <3>2. Internal(g, k) <=> Internal(h, k)
      BY <2>2, <2>17, LinksSame
    <3> QED  BY <2>10, <3>1, <3>2 DEF Rich
  <2>21. \A m \in S \ {n, l, k} : g[m] = h[m]
    BY <1>0, <2>13, <2>16
  <2>22. \A m \in S \ {n, l, k} : Whole(g, m) /\ Rich(g, m)
    BY <1>0, <2>21 DEF Whole, Rich, Internal, Length
  <2> QED  BY <1>1, <2>17, <2>18, <2>19, <2>20, <2>22
<1> QED  BY <1>2, <1>3

-----------------------------------------------------------------------------
(* New nodes and merged ones.                                               *)

\* The allocator gives a node that nobody uses.
LEMMA FreshNew == ASSUME used \subseteq Nodes, CanAllocate PROVE Fresh \in Nodes \ used
BY DEF CanAllocate, Fresh

\* A node outside the tree has no children.
LEMMA Outside ==
    ASSUME NEW h \in Heap, NEW S, NEW r, TreeOf(h, S, r), NEW m \in Nodes \ S
    PROVE  h[m].left = NIL /\ h[m].right = NIL
BY Children

\* The heap with a node cleared, and with a node that holds one entry.
Cleared(h, f) == [h EXCEPT ![f] = Blank]

Started(h, f, e) == NodeInsert(Cleared(h, f), f, 0, e)

\* Clearing such a node changes no pointer.
LEMMA ClearedKeeps ==
    ASSUME NEW h \in Heap, NEW f \in Nodes, h[f].left = NIL, h[f].right = NIL
    PROVE  /\ Cleared(h, f) \in Heap /\ SameLinks(Cleared(h, f), h)
           /\ Length(Cleared(h, f), f) = 0 /\ Cleared(h, f)[f].ids = <<>>
           /\ \A m \in Nodes : m # f => Cleared(h, f)[m] = h[m]
<1> DEFINE b == [h EXCEPT ![f] = Blank]
<1>1. b \in Heap
  BY BlankType, HeapExcept
<1>2. b[f] = Blank /\ \A m \in Nodes : m # f => b[m] = h[m]
  BY DEF Heap
<1>3. Cleared(h, f) = b
  BY DEF Cleared
<1> HIDE DEF b
<1>4. \A m \in Nodes : b[m].left = h[m].left /\ b[m].right = h[m].right
  <2>1. Blank.left = NIL /\ Blank.right = NIL
    BY DEF Blank
  <2> QED  BY <1>2, <2>1
<1>5. SameLinks(b, h)
  BY <1>4, LinksEqual
<1>6. Blank.ids = <<>> /\ Len(<<>>) = 0
  BY DEF Blank
<1>7. b[f].ids = <<>> /\ Length(b, f) = 0
  BY <1>2, <1>6 DEF Length
<1> QED  BY <1>1, <1>2, <1>3, <1>5, <1>7

\* A node with one entry.
LEMMA StartedKeeps ==
    ASSUME NEW h \in Heap, NEW f \in Nodes, h[f].left = NIL, h[f].right = NIL, NEW e \in Entry
    PROVE  /\ Started(h, f, e) \in Heap /\ SameLinks(Started(h, f, e), h) /\ Whole(Started(h, f, e), f)
           /\ \A m \in Nodes : m # f => Started(h, f, e)[m] = h[m]
<1> DEFINE b == Cleared(h, f)
           g == NodeInsert(b, f, 0, e)
<1>1. /\ b \in Heap /\ SameLinks(b, h) /\ Length(b, f) = 0
      /\ \A m \in Nodes : m # f => b[m] = h[m]
  BY ClearedKeeps
<1>2. Started(h, f, e) = g
  BY DEF Started
<1> HIDE DEF b
<1>3. 0 \in 0 .. Length(b, f) /\ Length(b, f) < NodeSize
  BY <1>1, SizeAssumption
<1>4. g \in Heap /\ \A m \in Nodes : m # f => g[m] = b[m]
  BY <1>1, <1>3, NodeInsertType
<1>5. SameLinks(g, b) /\ Whole(g, f)
  BY <1>1, <1>3, NodeInsertKeeps
<1> HIDE DEF g
<1> QED  BY <1>1, <1>2, <1>4, <1>5 DEF SameLinks

\* A new child: one pointer changes, and no other node.
LEMMA WithChildKeeps ==
    ASSUME NEW h \in Heap, NEW n \in Nodes, NEW side \in {"left", "right"},
           NEW e \in Entry \cup {None}, used \subseteq Nodes, CanAllocate, n # Fresh,
           h[Fresh].left = NIL, h[Fresh].right = NIL, NEW g, g = WithChild(h, n, side, e)
    PROVE  /\ g \in Heap
           /\ side = "left" => Lefts(g) = [Lefts(h) EXCEPT ![n] = Fresh] /\ Rights(g) = Rights(h)
           /\ side = "right" => Rights(g) = [Rights(h) EXCEPT ![n] = Fresh] /\ Lefts(g) = Lefts(h)
           /\ \A m \in Nodes \ {Fresh} : g[m].ids = h[m].ids /\ g[m].last_id = h[m].last_id
           /\ e = None => g[Fresh].ids = <<>>
           /\ e # None => Whole(g, Fresh)
<1> DEFINE c == IF e = None THEN Cleared(h, Fresh) ELSE Started(h, Fresh, e)
<1>1. Fresh \in Nodes /\ Fresh \in Ptr
  BY FreshType DEF Ptr
<1>2. /\ c \in Heap /\ SameLinks(c, h)
      /\ \A m \in Nodes : m # Fresh => c[m] = h[m]
      /\ e = None => c[Fresh].ids = <<>>
      /\ e # None => Whole(c, Fresh)
  <2>1. CASE e = None
    <3>1. c = Cleared(h, Fresh)
      BY <2>1
    <3> HIDE DEF c
    <3> QED  BY <1>1, <2>1, <3>1, ClearedKeeps
  <2>2. CASE e # None
    <3>1. c = Started(h, Fresh, e) /\ e \in Entry
      BY <2>2
    <3> HIDE DEF c
    <3> QED  BY <1>1, <2>2, <3>1, StartedKeeps
  <2> QED  BY <2>1, <2>2
<1>3. g = IF side = "left" THEN [c EXCEPT ![n].left = Fresh] ELSE [c EXCEPT ![n].right = Fresh]
  BY DEF WithChild, Cleared, Started
<1> HIDE DEF c
<1>4. CASE side = "left"
  <2>1. g = [c EXCEPT ![n].left = Fresh]
    BY <1>3, <1>4
  <2>2. /\ g \in Heap /\ Lefts(g) = [Lefts(c) EXCEPT ![n] = Fresh] /\ Rights(g) = Rights(c)
        /\ SameItems(g, c)
    <3>1. \A x \in Heap, q \in Ptr : LET y == [x EXCEPT ![n].left = q] IN
             /\ y \in Heap /\ Lefts(y) = [Lefts(x) EXCEPT ![n] = q] /\ Rights(y) = Rights(x) /\ SameItems(y, x)
      BY SetLeftLinks
    <3> QED  BY <1>1, <1>2, <2>1, <3>1, Zenon
  <2> QED  BY <1>1, <1>2, <1>4, <2>2 DEF SameLinks, SameItems, Whole
<1>5. CASE side = "right"
  <2>1. g = [c EXCEPT ![n].right = Fresh]
    BY <1>3, <1>5
  <2>2. /\ g \in Heap /\ Rights(g) = [Rights(c) EXCEPT ![n] = Fresh] /\ Lefts(g) = Lefts(c)
        /\ SameItems(g, c)
    <3>1. \A x \in Heap, q \in Ptr : LET y == [x EXCEPT ![n].right = q] IN
             /\ y \in Heap /\ Rights(y) = [Rights(x) EXCEPT ![n] = q] /\ Lefts(y) = Lefts(x) /\ SameItems(y, x)
      BY SetRightLinks
    <3> QED  BY <1>1, <1>2, <2>1, <3>1, Zenon
  <2> QED  BY <1>1, <1>2, <1>5, <2>2 DEF SameLinks, SameItems, Whole
<1> QED  BY <1>4, <1>5

\* A node that gets a child where it had none: the tree has one node more, and only the
\* parent can have got a second child.
LEMMA Plant ==
    ASSUME NEW h \in Heap, NEW S, NEW r, TreeOf(h, S, r), NEW n \in S, NEW f \in Nodes \ S, NEW g \in Heap,
           \/ h[n].left = NIL /\ Lefts(g) = [Lefts(h) EXCEPT ![n] = f] /\ Rights(g) = Rights(h)
           \/ h[n].right = NIL /\ Rights(g) = [Rights(h) EXCEPT ![n] = f] /\ Lefts(g) = Lefts(h)
    PROVE  /\ TreeOf(g, S \cup {f}, r)
           /\ \A m \in Nodes : m # n /\ Internal(g, m) => Internal(h, m)
<1> DEFINE L == Lefts(h)
           R == Rights(h)
<1>1. /\ L \in Links /\ R \in Links
      /\ \A m \in Nodes : L[m] = h[m].left /\ R[m] = h[m].right
      /\ \A m \in Nodes : Lefts(g)[m] = g[m].left /\ Rights(g)[m] = g[m].right
  BY HeapLinks
<1>2. IsTree(L, R, S, r) /\ IsTree(R, L, S, r) /\ n \in Nodes
  BY <1>1, Mirror, Children DEF TreeOf
<1>3. CASE h[n].left = NIL /\ Lefts(g) = [Lefts(h) EXCEPT ![n] = f] /\ Rights(g) = Rights(h)
  <2> HIDE DEF L, R
  <2>1. Lefts(g) = [L EXCEPT ![n] = f] /\ Rights(g) = R /\ L[n] = NIL
    BY <1>1, <1>2, <1>3 DEF L, R
  <2>2. IsTree(Lefts(g), Rights(g), S \cup {f}, r)
    <3>1. IsTree([L EXCEPT ![n] = f], R, S \cup {f}, r)
      BY <1>1, <1>2, <2>1, AddLeaf, Zenon
    <3> QED  BY <2>1, <3>1
  <2>3. \A m \in Nodes : m # n => g[m].left = h[m].left /\ g[m].right = h[m].right
    BY <1>1, <2>1 DEF Links
  <2> QED  BY <2>2, <2>3 DEF TreeOf, Internal
<1>4. CASE h[n].right = NIL /\ Rights(g) = [Rights(h) EXCEPT ![n] = f] /\ Lefts(g) = Lefts(h)
  <2> HIDE DEF L, R
  <2>1. Rights(g) = [R EXCEPT ![n] = f] /\ Lefts(g) = L /\ R[n] = NIL
    BY <1>1, <1>2, <1>4 DEF L, R
  <2>2. IsTree(Rights(g), Lefts(g), S \cup {f}, r)
    <3>1. IsTree([R EXCEPT ![n] = f], L, S \cup {f}, r)
      BY <1>1, <1>2, <2>1, AddLeaf, Zenon
    <3> QED  BY <2>1, <3>1
  <2>3. IsTree(Lefts(g), Rights(g), S \cup {f}, r)
    BY <2>2, HeapLinks, Mirror
  <2>4. \A m \in Nodes : m # n => g[m].left = h[m].left /\ g[m].right = h[m].right
    BY <1>1, <2>1 DEF Links
  <2> QED  BY <2>3, <2>4 DEF TreeOf, Internal
<1> QED  BY <1>3, <1>4

\* __ttree_node_merge and the clearing of the pointers of what is now a leaf.
Merged(h, l, a) == [Merge(h, l, a) EXCEPT ![l].left = NIL, ![l].right = NIL]

\* The absorbed node is cleared, and the other one holds what both held.
LEMMA MergeKeeps ==
    ASSUME NEW h \in Heap, NEW l \in Nodes, NEW a \in Nodes, l # a,
           Length(h, l) + Length(h, a) <= NodeSize, NEW g, g = Merged(h, l, a)
    PROVE  /\ g \in Heap
           /\ \A m \in Nodes : g[m].left = IF m \in {l, a} THEN NIL ELSE h[m].left
           /\ \A m \in Nodes : g[m].right = IF m \in {l, a} THEN NIL ELSE h[m].right
           /\ Length(h, l) + Length(h, a) > 0 => Whole(g, l)
           /\ \A m \in Nodes \ {l, a} : g[m] = h[m]
<1> DEFINE li == h[l].ids
           ld == h[l].data
           ri == h[a].ids
           rd == h[a].data
           ids == li \o ri
           data == ld \o rd
           b == SetItems(h, l, ids, data)
           c == [b EXCEPT ![a] = Blank]
           d == [c EXCEPT ![l].left = NIL]
<1>1. /\ li \in Seq(ID) /\ ri \in Seq(ID) /\ Len(li) = Length(h, l) /\ Len(ri) = Length(h, a)
      /\ ld \in Seq(Record) /\ rd \in Seq(Record)
      /\ Len(ld) = Length(h, l) /\ Len(rd) = Length(h, a)
  BY HeapNode DEF Length
<1>2. g = [d EXCEPT ![l].right = NIL]
  BY DEF Merge, Merged
<1> HIDE DEF li, ld, ri, rd
<1>3. ids \in Seq(ID) /\ Len(ids) = Length(h, l) + Length(h, a)
  BY <1>1, ConcatType
<1>4. data \in Seq(Record) /\ Len(data) = Length(h, l) + Length(h, a)
  <2>1. data \in Seq(Record) /\ Len(data) = Len(ld) + Len(rd)
    BY <1>1, ConcatType, Zenon
  <2> QED  BY <1>1, <2>1
<1> HIDE DEF ids, data
<1>5. b \in Heap
  BY <1>3, <1>4, SetItemsType
<1>6. (Len(ids) > 0 => Whole(b, l)) /\ \A m \in Nodes : m # l => b[m] = h[m]
  <2>1. ids \in Seq(ID) /\ data \in Seq(Record)
    BY <1>3, <1>4
  <2> QED  BY <2>1, SetItemsKeeps
<1> HIDE DEF b
<1>7. c \in Heap /\ c[a] = Blank /\ \A m \in Nodes : m # a => c[m] = b[m]
  <2>1. c \in Heap
    BY <1>5, BlankType, HeapExcept
  <2>2. DOMAIN b = Nodes
    BY <1>5 DEF Heap
  <2> QED  BY <2>1, <2>2
<1> HIDE DEF c
<1>8. /\ d \in Heap /\ SameItems(d, c)
      /\ Lefts(d) = [Lefts(c) EXCEPT ![l] = NIL] /\ Rights(d) = Rights(c)
  BY <1>7, SetLeftLinks DEF Ptr
<1>9. \A m \in Nodes : m # l => d[m] = c[m]
  BY <1>7 DEF Heap
<1> HIDE DEF d
<1>10. /\ g \in Heap /\ SameItems(g, d)
       /\ Rights(g) = [Rights(d) EXCEPT ![l] = NIL] /\ Lefts(g) = Lefts(d)
  <2>1. \A x \in Heap, q \in Ptr : LET y == [x EXCEPT ![l].right = q] IN
           /\ y \in Heap /\ Rights(y) = [Rights(x) EXCEPT ![l] = q] /\ Lefts(y) = Lefts(x) /\ SameItems(y, x)
    BY SetRightLinks
  <2>2. NIL \in Ptr
    BY DEF Ptr
  <2> HIDE DEF SameItems, Lefts, Rights
  <2>3. LET y == [d EXCEPT ![l].right = NIL] IN
           /\ y \in Heap /\ Rights(y) = [Rights(d) EXCEPT ![l] = NIL] /\ Lefts(y) = Lefts(d) /\ SameItems(y, d)
    BY <1>8, <2>1, <2>2, Zenon
  <2> QED  BY <1>2, <2>3
<1>11. \A m \in Nodes : m # l => g[m] = d[m]
  BY <1>2, <1>8 DEF Heap
<1>12. \A m \in Nodes \ {l, a} : g[m] = h[m]
  BY <1>6, <1>7, <1>9, <1>11
<1>13. g[a] = Blank
  BY <1>7, <1>9, <1>11
<1>14. g[l].left = NIL /\ g[l].right = NIL
  <2>1. Lefts(c) \in Links /\ Rights(d) \in Links
    BY <1>7, <1>8, HeapLinks
  <2>2. Lefts(g)[l] = NIL /\ Rights(g)[l] = NIL
    BY <1>8, <1>10, <2>1 DEF Links
  <2> QED  BY <1>10, <2>2, HeapLinks, Zenon
<1>15. Len(ids) > 0 => Whole(g, l)
  <2>1. c[l] = b[l]
    BY <1>7
  <2>2. SameItems(g, c)
    BY <1>8, <1>10, SameItemsTwice
  <2>3. g[l].ids = c[l].ids /\ g[l].last_id = c[l].last_id
    BY <2>2 DEF SameItems
  <2> QED  BY <1>6, <2>1, <2>3 DEF Whole
<1>16. g[a].left = NIL /\ g[a].right = NIL
  BY <1>13 DEF Blank
<1>17. ASSUME NEW m \in Nodes
       PROVE  /\ g[m].left = IF m \in {l, a} THEN NIL ELSE h[m].left
              /\ g[m].right = IF m \in {l, a} THEN NIL ELSE h[m].right
  <2>1. CASE m \in {l, a}
    BY <1>14, <1>16, <2>1
  <2>2. CASE m \notin {l, a}
    BY <1>12, <2>2
  <2> QED  BY <2>1, <2>2
<1> QED  BY <1>3, <1>10, <1>12, <1>15, <1>17

\* A leaf is in balance.
LEMMA LeafBalanced ==
    ASSUME NEW h \in Heap, NEW n \in Nodes, h[n].left = NIL, h[n].right = NIL
    PROVE  RebalanceSubtree(h, n) = [top |-> n, heap |-> h]
<1>1. BalanceFactor(h, n) = 0
  BY DEF BalanceFactor, Height
<1> HIDE DEF BalanceFactor
<1>2. ~(BalanceFactor(h, n) > 1) /\ ~(BalanceFactor(h, n) < -1)
  BY <1>1
<1> QED  BY <1>2 DEF RebalanceSubtree

\* A child with two pointers to it would be its own sibling.
LEMMA ParentFacts ==
    ASSUME NEW h \in Heap, NEW S, NEW r, TreeOf(h, S, r), NEW n \in S, NEW q \in Ptr,
           Leads(Lefts(h), Rights(h), r, q, n)
    PROVE  /\ q = NIL => r = n
           /\ q # NIL => /\ q \in S /\ q # n /\ n \in {h[q].left, h[q].right}
                         /\ h[q].left # h[q].right
<1>1. n \in Nodes /\ n # NIL
  BY Children, NILAssumption
<1>2. q # NIL => q \in Nodes /\ n \in {h[q].left, h[q].right}
  BY HeapLinks DEF Leads
<1>3. q # NIL => q \in S /\ q # n /\ h[q].left # h[q].right
  BY <1>1, <1>2, Children
<1> QED  BY <1>2, <1>3 DEF Leads

\* The heap g holds the tree of h without node n, and k the tree of h with nodes l and a
\* joined in l.
Dropped(g, h, S, r, n) ==
    /\ g \in Heap /\ TreeOf(g, S \ {n}, r)
    /\ \A m \in Nodes \ {n} : g[m].ids = h[m].ids /\ g[m].last_id = h[m].last_id
    /\ \A m \in Nodes : Internal(g, m) => Internal(h, m)

Joined(k, h, S, r, l, a) ==
    /\ l \in S /\ a \in S /\ l # a
    /\ k \in Heap /\ TreeOf(k, S \ {a}, r) /\ Whole(k, l)
    /\ \A m \in Nodes \ {l, a} : k[m].ids = h[m].ids /\ k[m].last_id = h[m].last_id
    /\ \A m \in Nodes : Internal(k, m) => Internal(h, m)

\* An empty leaf is unlinked and freed.
LEMMA DropLeafTree ==
    ASSUME NEW h \in Heap, NEW S, NEW r, TreeOf(h, S, r), NEW n \in S, NEW q \in Ptr,
           Leads(Lefts(h), Rights(h), r, q, n), h[n].left = NIL, h[n].right = NIL,
           NEW g, g = Cleared(Repoint(h, q, n, NIL), n)
    PROVE  Dropped(g, h, S, IF q = NIL THEN NIL ELSE r, n)
<1> DEFINE L == Lefts(h)
           R == Rights(h)
           f == Repoint(h, q, n, NIL)
<1>1. /\ L \in Links /\ R \in Links /\ n \in Nodes /\ NIL \in Ptr
      /\ \A m \in Nodes : L[m] = h[m].left /\ R[m] = h[m].right
  BY HeapLinks, Children DEF Ptr
<1>2. IsTree(L, R, S, r) /\ Leads(L, R, r, q, n) /\ L[n] = NIL /\ R[n] = NIL
  BY <1>1 DEF TreeOf
<1>3. /\ f \in Heap /\ SameItems(f, h)
      /\ Lefts(f) = Subst(L, q, n, NIL) /\ Rights(f) = Subst(R, q, n, NIL)
  BY <1>1, ParentFacts, RepointLinks
<1>4. IsTree(Subst(L, q, n, NIL), Subst(R, q, n, NIL), S \ {n}, IF q = NIL THEN NIL ELSE r)
  <2> HIDE DEF L, R
  <2> QED  BY <1>1, <1>2, DropLeaf, Zenon
<1>5. /\ \A m \in Nodes : Subst(L, q, n, NIL)[m] = IF m = q /\ L[m] = n THEN NIL ELSE L[m]
      /\ \A m \in Nodes : Subst(R, q, n, NIL)[m] = IF m = q /\ R[m] = n THEN NIL ELSE R[m]
  <2> HIDE DEF L, R
  <2> QED  BY <1>1, SubstLinks
<1> HIDE DEF f, L, R
<1>6. \A m \in Nodes : f[m].left \in {NIL, h[m].left} /\ f[m].right \in {NIL, h[m].right}
  BY <1>1, <1>3, <1>5, HeapLinks
<1>7. g = Cleared(f, n) /\ f[n].left = NIL /\ f[n].right = NIL
  BY <1>1, <1>6 DEF f
<1>8. g \in Heap /\ SameLinks(g, f) /\ \A m \in Nodes : m # n => g[m] = f[m]
  BY <1>1, <1>3, <1>7, ClearedKeeps
<1>9. TreeOf(g, S \ {n}, IF q = NIL THEN NIL ELSE r)
  BY <1>3, <1>4, <1>8 DEF TreeOf, SameLinks
<1>10. \A m \in Nodes \ {n} : g[m].ids = h[m].ids /\ g[m].last_id = h[m].last_id
  BY <1>3, <1>8 DEF SameItems
<1>11. \A m \in Nodes : Internal(g, m) => Internal(h, m)
  BY <1>6, <1>8, LinksSame DEF Internal
<1> QED  BY <1>8, <1>9, <1>10, <1>11 DEF Dropped

\* A node and its only child, a leaf, are merged: the rebalancing of the result does nothing,
\* and the node that held the smaller IDs takes the place of both.
LEMMA MergeTree ==
    ASSUME NEW h \in Heap, NEW S, NEW r, TreeOf(h, S, r), NEW n \in S, NEW q \in Ptr,
           Leads(Lefts(h), Rights(h), r, q, n), Kind(h, n) = "halfleaf",
           Kind(h, OnlyChild(h, n)) = "leaf", Whole(h, OnlyChild(h, n)),
           Length(h, n) + Length(h, OnlyChild(h, n)) <= NodeSize,
           NEW l, l = Absorbing(h, n), NEW a, a = Absorbed(h, n),
           NEW b, b = RebalanceSubtree(UpdateHeight(Merged(h, l, a), l), l),
           NEW k, k = Repoint(b.heap, q, n, b.top)
    PROVE  Joined(k, h, S, IF q = NIL THEN b.top ELSE r, l, a)
<1> DEFINE L == Lefts(h)
           R == Rights(h)
           c == OnlyChild(h, n)
           g == Merged(h, l, a)
           u == UpdateHeight(g, l)
<1>1. /\ L \in Links /\ R \in Links /\ S \subseteq Nodes /\ n \in Nodes
      /\ \A m \in Nodes : L[m] = h[m].left /\ R[m] = h[m].right
  BY HeapLinks, Children
<1>2. \/ h[n].left = c /\ h[n].right = NIL /\ l = c /\ a = n
      \/ h[n].left = NIL /\ h[n].right = c /\ l = n /\ a = c
  BY DEF Kind, OnlyChild, Absorbing, Absorbed
<1>3. c # NIL
  BY DEF Kind, OnlyChild
<1>4. c \in S /\ c # n /\ c \in Nodes
  BY <1>1, <1>2, <1>3, Children
<1>5. h[c].left = NIL /\ h[c].right = NIL
  BY DEF Kind
<1>6. Length(h, l) + Length(h, a) <= NodeSize /\ Length(h, l) + Length(h, a) > 0
  <2>1. Length(h, n) \in Nat /\ Length(h, c) \in Nat /\ Length(h, c) > 0
    BY <1>1, <1>4, HeapNode, NotEmpty, SizeAssumption DEF Whole, Length
  <2> QED  BY <1>2, <2>1
<1>7. IsTree(L, R, S, r) /\ Leads(L, R, r, q, n) /\ L[c] = NIL /\ R[c] = NIL
  BY <1>1, <1>4, <1>5 DEF TreeOf
<1>8. /\ q = NIL => r = n
      /\ q # NIL => /\ q \in Nodes /\ q \notin {n, c} /\ n \in {h[q].left, h[q].right}
                    /\ h[q].left # h[q].right
  BY <1>1, <1>5, ParentFacts, NILAssumption
<1>9. l \in Nodes /\ a \in Nodes /\ l # a /\ l \in S /\ a \in S
  BY <1>1, <1>2, <1>4
<1>10. g = Merged(h, l, a)
  OBVIOUS
<1> HIDE DEF c, g
<1>11. /\ g \in Heap /\ Whole(g, l)
       /\ \A m \in Nodes : g[m].left = IF m \in {l, a} THEN NIL ELSE h[m].left
       /\ \A m \in Nodes : g[m].right = IF m \in {l, a} THEN NIL ELSE h[m].right
       /\ \A m \in Nodes \ {l, a} : g[m] = h[m]
  BY <1>6, <1>9, <1>10, MergeKeeps
<1>12. u \in Heap /\ SameLinks(u, g) /\ SameItems(u, g)
  BY <1>9, <1>11, UpdateHeightType, UpdateHeightKeeps
<1>13. b = RebalanceSubtree(u, l)
  BY <1>10
<1> HIDE DEF u
<1>14. \A m \in Nodes : u[m].left = g[m].left /\ u[m].right = g[m].right
  BY <1>12, LinksSame
<1>15. u[l].left = NIL /\ u[l].right = NIL
  BY <1>9, <1>11, <1>14
<1>16. b.top = l /\ b.heap = u
  BY <1>9, <1>12, <1>13, <1>15, LeafBalanced
<1>17. /\ k \in Heap /\ SameItems(k, u)
       /\ Lefts(k) = Subst(Lefts(u), q, n, l) /\ Rights(k) = Subst(Rights(u), q, n, l)
  <2>1. k = Repoint(u, q, n, l) /\ l \in Ptr
    BY <1>9, <1>16 DEF Ptr
  <2>2. q # NIL => n \in {u[q].left, u[q].right} /\ u[q].left # u[q].right
    BY <1>2, <1>8, <1>11, <1>14
  <2> QED  BY <1>1, <1>12, <2>1, <2>2, RepointLinks
<1>18. /\ Lefts(u) \in Links /\ Rights(u) \in Links
       /\ \A m \in Nodes : Lefts(u)[m] = u[m].left /\ Rights(u)[m] = u[m].right
  BY <1>12, HeapLinks
<1> HIDE DEF L, R
<1>19. TreeOf(k, S \ {a}, IF q = NIL THEN l ELSE r)
  <2>1. CASE h[n].left = c /\ h[n].right = NIL /\ l = c /\ a = n
    <3> DEFINE L1 == Subst(L, q, n, c)
    <3>1. L[n] = c /\ R[n] = NIL
      BY <1>1, <2>1
    <3>2. IsTree([L1 EXCEPT ![n] = NIL], Subst(R, q, n, c), S \ {n}, IF q = NIL THEN c ELSE r)
      <4>1. IsTree(L, R, S, r) /\ Leads(L, R, r, q, n) /\ L \in Links /\ R \in Links
        BY <1>1, <1>7
      <4>2. c \in Nodes /\ L[n] = c /\ R[n] = NIL
        BY <1>4, <3>1
      <4> HIDE DEF IsTree, Leads, Links
      <4> QED  BY <4>1, <4>2, Splice, Zenon
    <3>3. \A m \in Nodes : u[m].left = (IF m = n THEN NIL ELSE L[m]) /\ u[m].right = R[m]
      BY <1>1, <1>5, <1>11, <1>14, <2>1
    <3>4. Rights(u) = R
      BY <1>1, <1>18, <3>3 DEF Links
    <3>5. Subst(Lefts(u), q, n, c) = [L1 EXCEPT ![n] = NIL]
      <4>1. c \in Ptr
        BY <1>4 DEF Ptr
      <4>2. L1 \in Links /\ \A m \in Nodes : L1[m] = IF m = q /\ L[m] = n THEN c ELSE L[m]
        BY <1>1, <4>1, SubstLinks
      <4>3. /\ Subst(Lefts(u), q, n, c) \in Links
            /\ \A m \in Nodes : Subst(Lefts(u), q, n, c)[m] =
                  IF m = q /\ Lefts(u)[m] = n THEN c ELSE Lefts(u)[m]
        BY <1>18, <4>1, SubstLinks
      <4> HIDE DEF L1
      <4>4. \A m \in Nodes : Subst(Lefts(u), q, n, c)[m] = [L1 EXCEPT ![n] = NIL][m]
        <5> SUFFICES ASSUME NEW m \in Nodes
                     PROVE  Subst(Lefts(u), q, n, c)[m] = [L1 EXCEPT ![n] = NIL][m]
          OBVIOUS
        <5>1. CASE m = n
          BY <1>8, <1>18, <3>3, <4>2, <4>3, <5>1, NILAssumption DEF Links
        <5>2. CASE m # n
          BY <1>18, <3>3, <4>2, <4>3, <5>2 DEF Links
        <5> QED  BY <5>1, <5>2
      <4> HIDE DEF Subst
      <4> QED  BY <4>2, <4>3, <4>4 DEF Links
    <3> HIDE DEF L1
    <3> QED  BY <1>17, <2>1, <3>2, <3>4, <3>5 DEF TreeOf
  <2>2. CASE h[n].left = NIL /\ h[n].right = c /\ l = n /\ a = c
    <3>1. R[n] = c /\ L[n] = NIL
      BY <1>1, <2>2
    <3>2. Leads(L, R, r, n, c) /\ n \in Ptr /\ n # NIL
      BY <1>1, <3>1, NILAssumption DEF Leads, Ptr
    <3>3. IsTree(Subst(L, n, c, NIL), Subst(R, n, c, NIL), S \ {c}, r)
      BY <1>1, <1>4, <1>7, <3>2, DropLeaf, Zenon
    <3>4. \A m \in Nodes : u[m].left = L[m] /\ u[m].right = (IF m = n THEN NIL ELSE R[m])
      BY <1>1, <1>5, <1>11, <1>14, <2>2
    <3>5. Subst(Lefts(u), q, n, l) = Subst(L, n, c, NIL)
      BY <1>1, <1>3, <1>18, <2>2, <3>1, <3>4 DEF Subst
    <3>6. Subst(Rights(u), q, n, l) = Subst(R, n, c, NIL)
      BY <1>1, <1>3, <1>18, <2>2, <3>1, <3>4 DEF Subst
    <3>7. (IF q = NIL THEN l ELSE r) = r
      BY <1>8, <2>2
    <3> QED  BY <1>17, <2>2, <3>3, <3>5, <3>6, <3>7 DEF TreeOf
  <2> QED  BY <1>2, <2>1, <2>2
<1>20. Whole(k, l)
  BY <1>9, <1>11, <1>12, <1>17, SameItemsWhole
<1>21. SameItems(k, g)
  BY <1>12, <1>17, SameItemsTwice
<1>22. \A m \in Nodes \ {l, a} : k[m].ids = h[m].ids /\ k[m].last_id = h[m].last_id
  BY <1>11, <1>21 DEF SameItems
<1>23. \A m \in Nodes : Internal(k, m) => Internal(h, m)
  <2>1. /\ \A m \in Nodes : Lefts(k)[m] = k[m].left /\ Rights(k)[m] = k[m].right
        /\ \A m \in Nodes : Subst(Lefts(u), q, n, l)[m] = IF m = q /\ u[m].left = n THEN l ELSE u[m].left
        /\ \A m \in Nodes : Subst(Rights(u), q, n, l)[m] = IF m = q /\ u[m].right = n THEN l ELSE u[m].right
    <3>1. l \in Ptr
      BY <1>9 DEF Ptr
    <3>2. /\ \A m \in Nodes : Subst(Lefts(u), q, n, l)[m] = IF m = q /\ Lefts(u)[m] = n THEN l ELSE Lefts(u)[m]
          /\ \A m \in Nodes : Subst(Rights(u), q, n, l)[m] = IF m = q /\ Rights(u)[m] = n THEN l ELSE Rights(u)[m]
      BY <1>18, <3>1, SubstLinks
    <3>3. \A m \in Nodes : Lefts(k)[m] = k[m].left /\ Rights(k)[m] = k[m].right
      BY <1>17, HeapLinks
    <3> QED  BY <1>18, <3>2, <3>3
  <2> SUFFICES ASSUME NEW m \in Nodes, k[m].left # NIL, k[m].right # NIL
               PROVE  h[m].left # NIL /\ h[m].right # NIL
    BY DEF Internal
  <2>2. u[m].left # NIL /\ u[m].right # NIL
    BY <1>1, <1>17, <2>1, NILAssumption
  <2> QED  BY <1>11, <1>14, <2>2
<1> QED  BY <1>9, <1>16, <1>17, <1>19, <1>20, <1>22, <1>23 DEF Joined

-----------------------------------------------------------------------------
(* The invariant: what the nodes handed out form, and what they hold.       *)

\* The nodes of the tree: those handed out, but for the one a bulk load is filling.
Linked == used \ {current}

Shape == TreeOf(heap, Linked, root)

\* The cursors point into the tree.
Cursors ==
    /\ pc \in {"idle", "start"} => trace = <<>> /\ pos = 0
    /\ pc \in {"search", "attach"} =>
         node \in Linked \cup {NIL} /\ (trace # <<>> => Last(trace) \in Linked)
    /\ pc \in {"found", "place", "steal", "fix"} => node \in Linked
    /\ pc = "attach" /\ trace # <<>> => node = heap[Last(trace)].right
    /\ pc = "load" => trace = <<>>
    /\ pc \in {"place", "steal", "fix"} => call.op # "load"
    /\ pc = "steal" => target \in Linked

\* Only a bulk load has a node that is not in the tree, and it starts with no node at all.
Current ==
    /\ current \in used \cup {NIL}
    /\ current # NIL => pc \in {"load", "attach"}
    /\ pc = "start" /\ call.op = "load" => used = {}

\* The node that a call may have left empty, to fill, to merge or to free it next.
Emptied(n) == (pc \in {"place", "fix"} /\ n = node) \/ (pc = "steal" /\ n = target)

Filled ==
    /\ \A n \in used : \/ Whole(heap, n)
                       \/ Emptied(n) /\ heap[n].ids = <<>>
                       \/ pc = "load" /\ n = current
    /\ pc = "place" /\ heap[node].ids = <<>> => heap[node].right = NIL

Enough ==
    /\ \A n \in Linked : Rich(heap, n) \/ (pc = "steal" /\ n = target)
    /\ pc = "steal" => Internal(heap, target) /\ Length(heap, target) + 1 = MinLen

\* A bulk load leaves every node full but for the last one.
LoadFull ==
    pc \in {"load", "attach", "rebalance"} /\ call.op = "load" =>
        /\ pos <= Len(call.items)
        /\ (\A n \in Linked : Length(heap, n) = NodeSize) \/ (pos = Len(call.items) /\ current = NIL)
        /\ pc = "attach" => Length(heap, current) = NodeSize \/ pos = Len(call.items)

Structure == Shape /\ Cursors /\ Current /\ Filled /\ Enough /\ LoadFull

SInv == IInv /\ Structure

\* What the invariant says when no node is being emptied or filled ...
LEMMA Calm ==
    ASSUME SInv, pc \notin {"place", "steal", "fix", "load", "attach"}
    PROVE  /\ current = NIL /\ Linked = used /\ used \subseteq Nodes /\ heap \in Heap
           /\ TreeOf(heap, used, root)
           /\ \A n \in used : Whole(heap, n) /\ Rich(heap, n)
<1>1. current = NIL /\ used \subseteq Nodes /\ heap \in Heap
  BY TypeHeap DEF SInv, Structure, Current, IInv, TypeOK
<1>2. Linked = used
  BY <1>1, NILAssumption DEF Linked
<1>3. TreeOf(heap, used, root)
  BY <1>2 DEF SInv, Structure, Shape
<1>4. \A n \in used : Whole(heap, n) /\ Rich(heap, n)
  BY <1>2 DEF SInv, Structure, Filled, Emptied, Enough
<1> QED  BY <1>1, <1>2, <1>3, <1>4

\* ... and how it is restored.
LEMMA Settled ==
    ASSUME current' = NIL, pc' \in {"return", "rebalance"}, used' \subseteq Nodes,
           TreeOf(heap', used', root'),
           \A n \in used' : Whole(heap', n) /\ Rich(heap', n),
           pc' = "rebalance" => call'.op # "load" \/ LoadFull'
    PROVE  Structure'
<1>1. Linked' = used'
  BY NILAssumption DEF Linked
<1>2. Shape'
  BY <1>1 DEF Shape
<1>3. Cursors' /\ Current'
  BY DEF Cursors, Current
<1>4. Filled' /\ Enough'
  BY <1>1 DEF Filled, Enough
<1>5. LoadFull'
  BY DEF LoadFull
<1> QED  BY <1>2, <1>3, <1>4, <1>5 DEF Structure

\* A step that only moves a cursor.
LEMMA Quiet ==
    ASSUME SInv, UNCHANGED <<memory, current>>, pc \notin {"place", "steal", "fix", "load", "attach"},
           pc' \notin {"start", "place", "steal", "fix", "load", "attach", "rebalance"}, Cursors'
    PROVE  Structure'
<1>1. /\ current = NIL /\ Linked = used
      /\ TreeOf(heap, used, root)
      /\ \A n \in used : Whole(heap, n) /\ Rich(heap, n)
  BY Calm
<1>2. /\ heap' = heap /\ used' = used /\ root' = root /\ current' = NIL
      /\ Linked' = used
  BY <1>1 DEF memory, Linked
<1>3. Shape' /\ Current'
  BY <1>1, <1>2 DEF Shape, Current
<1>4. Filled' /\ Enough'
  BY <1>1, <1>2 DEF Filled, Enough
<1>5. LoadFull'
  BY DEF LoadFull
<1> QED  BY <1>3, <1>4, <1>5 DEF Structure

\* The empty tree.
LEMMA EmptyShape ==
    ASSUME NEW h \in Heap, \A m \in Nodes : h[m].left = NIL /\ h[m].right = NIL
    PROVE  TreeOf(h, {}, NIL)
<1> DEFINE up == [x \in Nodes |-> NIL]
           rank == [x \in Nodes |-> 0]
<1>1. /\ \A m \in Nodes : Lefts(h)[m] = NIL /\ Rights(h)[m] = NIL
      /\ NIL \notin Nodes
  BY HeapLinks, NILAssumption
<1>2. up \in Links /\ rank \in [Nodes -> 0 .. 0]
  BY DEF Links, Ptr
<1> HIDE DEF up, rank
<1>3. Tree(Lefts(h), Rights(h), {}, NIL, up, rank, 0)
  BY <1>1, <1>2 DEF Tree
<1> QED  BY <1>3 DEF TreeOf, IsTree

\* The invariant holds in the empty tree.
LEMMA InitStructure == Init => SInv
<1> SUFFICES ASSUME Init PROVE SInv
  OBVIOUS
<1>1. IInv
  BY InitInv
<1>2. heap \in Heap
  BY <1>1, TypeHeap DEF IInv
<1>3. \A m \in Nodes : heap[m].left = NIL /\ heap[m].right = NIL
  BY DEF Init, Blank
<1>4. Linked = {} /\ root = NIL
  BY DEF Init, Linked
<1>5. Shape
  BY <1>2, <1>3, <1>4, EmptyShape DEF Shape
<1>6. Cursors /\ Current /\ Filled /\ Enough /\ LoadFull
  BY <1>4 DEF Init, Cursors, Current, Filled, Enough, LoadFull
<1> QED  BY <1>1, <1>5, <1>6 DEF SInv, Structure

\* Any call may arrive; a bulk load only while there is no node.
LEMMA CallStructure == ASSUME SInv, Call PROVE Structure'
<1>1. ASSUME NEW c, Begin(c), c.op = "load" => used = {}
      PROVE  Structure'
  <2>1. pc = "idle" /\ pc' = "start" /\ call' = c /\ UNCHANGED <<root, heap, used, locals>>
    BY <1>1 DEF Begin, memory
  <2>2. /\ current = NIL /\ Linked = used
        /\ TreeOf(heap, used, root)
        /\ \A n \in used : Whole(heap, n) /\ Rich(heap, n)
    BY <2>1, Calm
  <2>3. Linked' = used /\ current' = NIL /\ trace' = <<>> /\ pos' = 0
    BY <2>1, <2>2 DEF Linked, locals, SInv, Structure, Cursors
  <2>4. Shape' /\ Cursors' /\ Current'
    BY <1>1, <2>1, <2>2, <2>3 DEF Shape, Cursors, Current
  <2>5. Filled' /\ Enough' /\ LoadFull'
    BY <2>1, <2>2, <2>3 DEF Filled, Enough, LoadFull
  <2> QED  BY <2>4, <2>5 DEF Structure
<1>2. CASE CallGet
  BY <1>1, <1>2 DEF CallGet
<1>3. CASE CallInsert
  BY <1>1, <1>3 DEF CallInsert
<1>4. CASE CallRemove
  BY <1>1, <1>4 DEF CallRemove
<1>5. CASE CallIterate
  BY <1>1, <1>5 DEF CallIterate
<1>6. CASE CallDestroy
  BY <1>1, <1>6 DEF CallDestroy
<1>7. CASE CallLoad
  BY <1>1, <1>7 DEF CallLoad
<1> QED  BY <1>2, <1>3, <1>4, <1>5, <1>6, <1>7 DEF Call

\* The last element of an appended sequence.
LEMMA LastAppend ==
    ASSUME NEW T, NEW s \in Seq(T), NEW e \in T
    PROVE  Append(s, e) # <<>> /\ Last(Append(s, e)) = e
BY AppendProperties, LenProperties DEF Last

\* Searching, getting and returning.
LEMMA SearchStructure == ASSUME SInv, Asserted, SearchSteps \/ Return PROVE Structure'
<1> USE DEF Goto, Settle, At, memory, locals
<1>0. /\ heap \in Heap /\ trace \in Seq(Nodes) /\ root \in Ptr /\ node \in Ptr
      /\ current' = current => Linked' = used' \ {current}
  BY TypeHeap DEF SInv, IInv, TypeOK, Linked
<1>1. ASSUME pc \in {"start", "search", "found"}
      PROVE  /\ current = NIL /\ Linked = used
             /\ root \in used \cup {NIL}
             /\ \A m \in Nodes : heap[m].left \in used \cup {NIL} /\ heap[m].right \in used \cup {NIL}
  BY <1>1, Calm, Children
<1>2. CASE EmptyTree
  <2>1. Cursors'
    BY <1>2 DEF EmptyTree, Cursors
  <2> QED  BY <1>2, <2>1, Quiet DEF EmptyTree
<1>3. CASE StartSearch
  <2>1. trace' = <<>>
    BY <1>3 DEF StartSearch, SInv, Structure, Cursors
  <2>2. node' = root /\ Linked' = Linked
    BY <1>3 DEF StartSearch, Linked
  <2>3. Cursors'
    BY <1>1, <1>3, <2>1, <2>2 DEF StartSearch, Cursors
  <2> QED  BY <1>3, <2>3, Quiet DEF StartSearch
<1>4. ASSUME pc = "search", node # NIL, trace' = Append(trace, node)
      PROVE  node \in Nodes /\ node \in Linked /\ Last(trace') = node /\ trace' # <<>>
  <2>1. node \in Nodes /\ node \in Linked
    BY <1>0, <1>4 DEF Ptr, SInv, Structure, Cursors
  <2> QED  BY <1>0, <1>4, <2>1, LastAppend
<1>5. CASE SearchRight
  <2>1. Linked' = Linked /\ node' \in Linked \cup {NIL} /\ Last(trace') \in Linked
    BY <1>0, <1>1, <1>4, <1>5 DEF SearchRight, Linked
  <2>2. Cursors'
    BY <1>5, <2>1 DEF SearchRight, Cursors
  <2> QED  BY <1>5, <2>2, Quiet DEF SearchRight
<1>6. CASE SearchLeft
  <2>1. Linked' = Linked /\ node' \in Linked \cup {NIL} /\ Last(trace') \in Linked
    BY <1>0, <1>1, <1>4, <1>6 DEF SearchLeft, Linked
  <2>2. Cursors'
    BY <1>6, <2>1 DEF SearchLeft, Cursors
  <2> QED  BY <1>6, <2>2, Quiet DEF SearchLeft
<1>7. CASE SearchHere
  <2>1. Linked' = Linked /\ node' \in Linked
    BY <1>4, <1>7 DEF SearchHere, Linked
  <2>2. Cursors'
    BY <1>7, <2>1 DEF SearchHere, Cursors
  <2> QED  BY <1>7, <2>2, Quiet DEF SearchHere
<1>8. CASE SearchOff
  <2>1. trace # <<>>
    BY <1>8, NILAssumption DEF SearchOff, SInv, IInv, Control
  <2>2. Linked' = Linked /\ node' \in Linked
    BY <1>8, <2>1 DEF SearchOff, Linked, SInv, Structure, Cursors
  <2>3. Cursors'
    BY <1>8, <2>2 DEF SearchOff, Cursors
  <2> QED  BY <1>8, <2>3, Quiet DEF SearchOff
<1>9. CASE Get
  <2>1. Cursors'
    BY <1>9 DEF Get, Cursors
  <2> QED  BY <1>9, <2>1, Quiet DEF Get
<1>10. CASE Return
  <2>1. Cursors'
    BY <1>10 DEF Return, Cursors
  <2>2. pc = "return" /\ pc' = "idle" /\ current' = NIL
    BY <1>10 DEF Return
  <2>3. current = NIL
    BY <2>2, Calm
  <2> QED  BY <1>10, <2>1, <2>2, <2>3, Quiet DEF Return
<1> QED  BY <1>2, <1>3, <1>5, <1>6, <1>7, <1>8, <1>9, <1>10 DEF SearchSteps

\* The iterator changes nothing that the tree is made of.
LEMMA IterateStructure == ASSUME SInv, IterateSteps PROVE Structure'
<1> USE DEF Goto, Settle, At, memory, locals
<1>1. ASSUME pc \in {"start", "leftmost", "next", "climb"},
             pc' \in {"leftmost", "next", "climb", "return"}, UNCHANGED <<memory, current>>
      PROVE  Structure'
  <2>1. Cursors'
    BY <1>1 DEF Cursors
  <2> QED  BY <1>1, <2>1, Quiet
<1>2. CASE StartIterate
  BY <1>1, <1>2 DEF StartIterate
<1>3. CASE IterDescend
  BY <1>1, <1>3 DEF IterDescend
<1>4. CASE IterReady
  BY <1>1, <1>4 DEF IterReady
<1>5. CASE IterNext
  BY <1>1, <1>5 DEF IterNext
<1>6. CASE IterClimb
  BY <1>1, <1>6 DEF IterClimb
<1>7. CASE IterEnd
  BY <1>1, <1>7 DEF IterEnd
<1> QED  BY <1>2, <1>3, <1>4, <1>5, <1>6, <1>7 DEF IterateSteps

\* TTree_destroy leaves the empty tree.
LEMMA DestroyStructure == ASSUME SInv, Destroy PROVE Structure'
<1>1. /\ used' = {} /\ root' = NIL /\ heap' = [n \in Nodes |-> Blank] /\ current' = current /\ pc' = "return"
      /\ pc = "start"
  BY DEF Destroy, Goto, At, locals
<1>2. current = NIL
  BY <1>1, Calm
<1>3. heap' \in Heap
  BY <1>1, BlankType DEF Heap
<1>4. \A m \in Nodes : heap'[m].left = NIL /\ heap'[m].right = NIL
  BY <1>1 DEF Blank
<1>5. TreeOf(heap', {}, NIL)
  BY <1>3, <1>4, EmptyShape
<1> QED  BY <1>1, <1>2, <1>5, Settled

-----------------------------------------------------------------------------
(* TTree_insert.                                                            *)

\* A full node of a tree that has no child on this side.
CanPlant(h, r, n, side) ==
    /\ h \in Heap /\ TreeOf(h, used, r) /\ n \in used /\ used \subseteq Nodes /\ CanAllocate
    /\ side \in {"left", "right"}
    /\ (side = "left" => h[n].left = NIL) /\ (side = "right" => h[n].right = NIL)
    /\ \A m \in used : Whole(h, m) /\ Rich(h, m)
    /\ Length(h, n) >= MinLen

\* It gets one, as in __ttree_new_left and __ttree_new_right.
LEMMA PlantKeeps ==
    ASSUME NEW h, NEW r, NEW n, NEW side, CanPlant(h, r, n, side),
           NEW e \in Entry \cup {None}, NEW g, g = WithChild(h, n, side, e)
    PROVE  /\ Fresh \in Nodes \ used /\ g \in Heap /\ TreeOf(g, used \cup {Fresh}, r)
           /\ \A m \in used : Whole(g, m)
           /\ \A m \in used \cup {Fresh} : Rich(g, m)
           /\ e = None => g[Fresh].ids = <<>>
           /\ e # None => Whole(g, Fresh)
           /\ side = "left" => g[n].left = Fresh /\ g[Fresh].right = NIL
<1>0. /\ h \in Heap /\ TreeOf(h, used, r) /\ n \in used /\ used \subseteq Nodes /\ CanAllocate
      /\ side \in {"left", "right"}
      /\ (side = "left" => h[n].left = NIL) /\ (side = "right" => h[n].right = NIL)
      /\ \A m \in used : Whole(h, m) /\ Rich(h, m)
      /\ Length(h, n) >= MinLen
  BY DEF CanPlant
<1>1. Fresh \in Nodes \ used
  BY <1>0, FreshNew
<1>2. h[Fresh].left = NIL /\ h[Fresh].right = NIL /\ n # Fresh /\ n \in Nodes
  BY <1>0, <1>1, Outside
<1>3. /\ g \in Heap
      /\ side = "left" => Lefts(g) = [Lefts(h) EXCEPT ![n] = Fresh] /\ Rights(g) = Rights(h)
      /\ side = "right" => Rights(g) = [Rights(h) EXCEPT ![n] = Fresh] /\ Lefts(g) = Lefts(h)
      /\ \A m \in Nodes \ {Fresh} : g[m].ids = h[m].ids /\ g[m].last_id = h[m].last_id
      /\ e = None => g[Fresh].ids = <<>>
      /\ e # None => Whole(g, Fresh)
  BY <1>0, <1>2, WithChildKeeps
<1>4. /\ TreeOf(g, used \cup {Fresh}, r)
      /\ \A m \in Nodes : m # n /\ Internal(g, m) => Internal(h, m)
  <2>0. h \in Heap /\ TreeOf(h, used, r) /\ n \in used /\ g \in Heap
    BY <1>0, <1>3
  <2>1. \A f \in Nodes \ used :
           (\/ h[n].left = NIL /\ Lefts(g) = [Lefts(h) EXCEPT ![n] = f] /\ Rights(g) = Rights(h)
            \/ h[n].right = NIL /\ Rights(g) = [Rights(h) EXCEPT ![n] = f] /\ Lefts(g) = Lefts(h))
           => /\ TreeOf(g, used \cup {f}, r)
              /\ \A m \in Nodes : m # n /\ Internal(g, m) => Internal(h, m)
    BY <2>0, Plant
  <2> QED  BY <1>0, <1>1, <1>3, <2>1, Zenon
<1>5. \A m \in used : Whole(g, m) /\ Length(g, m) = Length(h, m)
  BY <1>0, <1>1, <1>3 DEF Whole, Length
<1>6. ASSUME NEW m \in used \cup {Fresh}
      PROVE  Rich(g, m)
  <2>1. CASE m = n
    BY <1>0, <1>5, <2>1 DEF Rich
  <2>2. CASE m # n /\ m \in used
    BY <1>0, <1>4, <1>5, <2>2 DEF Rich
  <2>3. CASE m = Fresh
    BY <1>0, <1>1, <1>2, <1>4, <2>3 DEF Rich, Internal
  <2> QED  BY <2>1, <2>2, <2>3
<1>7. side = "left" => g[n].left = Fresh /\ g[Fresh].right = NIL
  <2>1. /\ \A m \in Nodes : Lefts(h)[m] = h[m].left /\ Rights(h)[m] = h[m].right
        /\ \A m \in Nodes : Lefts(g)[m] = g[m].left /\ Rights(g)[m] = g[m].right
        /\ Lefts(h) \in Links
    BY <1>0, <1>3, HeapLinks
  <2> QED  BY <1>0, <1>1, <1>2, <1>3, <2>1 DEF Links
<1> QED  BY <1>1, <1>3, <1>4, <1>5, <1>6, <1>7

\* While the displaced entry is on its way only the node it has come to may be empty.
LEMMA Placing ==
    ASSUME SInv, pc = "place"
    PROVE  /\ current = NIL /\ Linked = used /\ used \subseteq Nodes /\ heap \in Heap
           /\ TreeOf(heap, used, root) /\ node \in used /\ call.op # "load" /\ hand \in Entry
           /\ \A n \in used : Rich(heap, n) /\ (n # node => Whole(heap, n))
           /\ heap[node].ids # <<>> => Whole(heap, node)
           /\ heap[node].ids = <<>> => heap[node].right = NIL
<1>1. current = NIL /\ used \subseteq Nodes /\ heap \in Heap
  BY TypeHeap DEF SInv, Structure, Current, IInv, TypeOK
<1>2. Linked = used
  BY <1>1, NILAssumption DEF Linked
<1>3. TreeOf(heap, used, root) /\ node \in used /\ call.op # "load" /\ hand \in Entry
  BY <1>2 DEF SInv, Structure, Shape, Cursors, IInv, Control
<1>4. /\ \A n \in used : Rich(heap, n) /\ (n # node => Whole(heap, n))
      /\ heap[node].ids # <<>> => Whole(heap, node)
      /\ heap[node].ids = <<>> => heap[node].right = NIL
  BY <1>2, <1>3 DEF SInv, Structure, Filled, Emptied, Enough
<1> QED  BY <1>1, <1>2, <1>3, <1>4

\* Where the displaced entry is on its way to.
LEMMA Displaced ==
    ASSUME pc' = "place", call'.op # "load", current' = NIL, used' \subseteq Nodes, node' \in used',
           TreeOf(heap', used', root'), \A n \in used' : Rich(heap', n),
           \A n \in used' : n # node' => Whole(heap', n),
           Whole(heap', node') \/ (heap'[node'].ids = <<>> /\ heap'[node'].right = NIL)
    PROVE  Structure'
<1>1. Linked' = used'
  BY NILAssumption DEF Linked
<1>2. Shape'
  BY <1>1 DEF Shape
<1>3. Cursors' /\ Current'
  BY <1>1 DEF Cursors, Current
<1>4. Filled'
  BY DEF Filled, Emptied, Whole
<1>5. Enough' /\ LoadFull'
  BY <1>1 DEF Enough, LoadFull
<1> QED  BY <1>2, <1>3, <1>4, <1>5 DEF Structure

\* Inserting an entry.
LEMMA InsertStructure == ASSUME SInv, Asserted, InsertSteps PROVE Structure'
<1> USE DEF Goto, Settle, At, memory, locals
<1>0. /\ heap \in Heap /\ trace \in Seq(Nodes) /\ pos \in Nat /\ used \subseteq Nodes
      /\ pc = "found" => pos <= Length(heap, node)
      /\ pc # "idle" => call \in Calls
  BY TypeHeap DEF SInv, IInv, TypeOK, Control
<1>1. pc # "idle" /\ call.op = "insert" => call.item \in Entry /\ call.item # None
  BY <1>0, CallType, NoneAssumption
<1>2. MinLen \in Nat /\ MinLen <= NodeSize /\ NodeSize \in Nat
  BY MinLenType, SizeAssumption
<1>3. ASSUME pc \in {"start", "found"}
      PROVE  /\ current = NIL /\ Linked = used /\ used \subseteq Nodes
             /\ TreeOf(heap, used, root)
             /\ \A n \in used : Whole(heap, n) /\ Rich(heap, n)
             /\ pc = "found" => node \in used
  BY <1>3, Calm DEF SInv, Structure, Cursors
<1>4. CASE InsertRoot
  <2>1. /\ pc = "start" /\ pc' = "return" /\ root = NIL /\ CanAllocate /\ current' = current
        /\ root' = Fresh /\ used' = used \cup {Fresh}
        /\ heap' = NodeInsert([heap EXCEPT ![Fresh] = Blank], Fresh, 0, call.item)
        /\ call.item \in Entry
    BY <1>1, <1>4 DEF InsertRoot
  <2>2. used = {}
    BY <1>0, <1>3, <2>1, Children, NILAssumption
  <2>3. Fresh \in Nodes \ used
    BY <1>3, <2>1, FreshNew
  <2>4. heap[Fresh].left = NIL /\ heap[Fresh].right = NIL
    BY <1>0, <1>3, <2>1, <2>3, Outside
  <2>5. heap' = Started(heap, Fresh, call.item)
    BY <2>1 DEF Started, Cleared
  <2>6. SameLinks(heap', heap) /\ Whole(heap', Fresh)
    BY <1>0, <2>1, <2>3, <2>4, <2>5, StartedKeeps
  <2>7. TreeOf(heap, {Fresh}, Fresh)
    BY <1>0, <1>3, <2>1, <2>2, <2>3, HeapLinks, FirstNode DEF TreeOf
  <2>8. TreeOf(heap', {Fresh}, Fresh) /\ Rich(heap', Fresh)
    BY <2>3, <2>4, <2>6, <2>7, LinksSame DEF Rich, Internal
  <2>9. used' = {Fresh} /\ used' \subseteq Nodes /\ TreeOf(heap', used', root')
    BY <2>1, <2>2, <2>3, <2>8
  <2>10. \A n \in used' : Whole(heap', n) /\ Rich(heap', n)
    BY <2>6, <2>8, <2>9
  <2> QED  BY <1>3, <2>1, <2>9, <2>10, Settled, Zenon
<1>5. CASE InsertExisting
  <2>1. Cursors'
    BY <1>5 DEF InsertExisting, Cursors
  <2> QED  BY <1>5, <2>1, Quiet DEF InsertExisting
<1>6. CASE InsertHere
  <2>1. /\ pc = "found" /\ pc' = "return" /\ UNCHANGED <<root, used, current>>
        /\ heap' = NodeInsert(heap, node, pos, call.item)
        /\ call.item \in Entry /\ ~Full(node) /\ node \in used
    BY <1>1, <1>3, <1>6 DEF InsertHere
  <2>2. node \in Nodes /\ pos \in 0 .. Length(heap, node) /\ Length(heap, node) < NodeSize
        /\ Length(heap, node) \in Nat
    BY <1>0, <2>1, <1>2, HeapNode DEF Full
  <2>3. SameLinks(heap', heap) /\ Whole(heap', node)
    BY <1>0, <2>1, <2>2, NodeInsertKeeps
  <2>4. /\ Length(heap', node) = Length(heap, node) + 1
        /\ \A m \in Nodes : m # node => heap'[m] = heap[m]
    BY <1>0, <2>1, <2>2, NodeInsertType
  <2>5. ASSUME NEW m \in used PROVE Whole(heap', m) /\ Rich(heap', m)
    <3>1. Internal(heap', m) <=> Internal(heap, m)
      BY <1>0, <2>3, LinksSame
    <3>2. CASE m = node
      BY <1>2, <1>3, <2>1, <2>2, <2>3, <2>4, <3>1, <3>2 DEF Rich
    <3>3. CASE m # node
      BY <1>0, <1>3, <2>1, <2>4, <3>3 DEF Rich, Internal, Whole, Length
    <3> QED  BY <3>2, <3>3
  <2>6. TreeOf(heap', used', root')
    BY <1>3, <2>1, <2>3, LinksSame
  <2> QED  BY <1>3, <2>1, <2>5, <2>6, Settled
<1>7. CASE InsertChild
  <2> DEFINE side == IF pos = 0 THEN "left" ELSE "right"
  <2>1. /\ pc = "found" /\ pc' = "rebalance" /\ UNCHANGED <<root, current, call>>
        /\ heap' = WithChild(heap, node, side, call.item) /\ used' = used \cup {Fresh}
        /\ call.item \in Entry /\ call.item # None /\ Full(node) /\ node \in used /\ CanAllocate
        /\ pos \in {0, NodeSize} /\ call.op = "insert"
    BY <1>1, <1>3, <1>7 DEF InsertChild
  <2>2. pos = 0 => heap[node].left = NIL
    BY <1>7, <2>1 DEF Asserted, InsertAsserts, InsertChild
  <2>3. pos # 0 => heap[node].right = NIL
    BY <1>7, <2>1 DEF Asserted, InsertAsserts, InsertChild
  <2>4. side \in {"left", "right"} /\ (side = "left" => heap[node].left = NIL)
        /\ (side = "right" => heap[node].right = NIL)
    BY <2>2, <2>3
  <2> HIDE DEF side
  <2>5. Length(heap, node) >= MinLen
    <3>1. Length(heap, node) \in Nat
      BY <1>0, <2>1, HeapNode
    <3> QED  BY <1>2, <2>1, <3>1 DEF Full
  <2>6. call.item \in Entry \cup {None}
    BY <2>1
  <2>7. CanPlant(heap, root, node, side)
    BY <1>0, <1>3, <2>1, <2>4, <2>5 DEF CanPlant
  <2>8. /\ Fresh \in Nodes \ used /\ TreeOf(heap', used \cup {Fresh}, root)
        /\ \A m \in used : Whole(heap', m)
        /\ \A m \in used \cup {Fresh} : Rich(heap', m)
        /\ Whole(heap', Fresh)
    <3>1. Fresh \in Nodes \ used /\ TreeOf(heap', used \cup {Fresh}, root)
      BY <2>1, <2>6, <2>7, PlantKeeps, Zenon
    <3>2. \A m \in used : Whole(heap', m)
      BY <2>1, <2>6, <2>7, PlantKeeps
    <3>3. \A m \in used \cup {Fresh} : Rich(heap', m)
      BY <2>1, <2>6, <2>7, PlantKeeps
    <3>4. Whole(heap', Fresh)
      BY <2>1, <2>6, <2>7, PlantKeeps
    <3> QED  BY <3>1, <3>2, <3>3, <3>4
  <2> QED  BY <1>3, <2>1, <2>8, Settled
<1>8. CASE Displace
  <2> DEFINE shifted == InsertRemovingFirst(heap, node, pos, call.item)
  <2>1. /\ pc = "found" /\ pc' = "place" /\ UNCHANGED <<root, current, call>>
        /\ call.item \in Entry /\ Full(node) /\ node \in used /\ node \in Nodes
        /\ pos \notin {0, NodeSize} /\ call.op = "insert" /\ node' = heap'[node].left
        /\ ~Exists
    BY <1>1, <1>3, <1>8 DEF Displace
  <2>2. Length(heap, node) \in 1 .. NodeSize
    BY <2>1 DEF Asserted, InsertAsserts
  <2>3. Length(heap, node) = NodeSize /\ 1 <= pos /\ pos < Length(heap, node)
    BY <1>0, <1>2, <2>1, <2>2 DEF Full
  <2>4. /\ SameLinks(shifted, heap) /\ Whole(shifted, node)
        /\ Length(shifted, node) = Length(heap, node)
    <3> HIDE DEF shifted
    <3>1. shifted = InsertRemovingFirst(heap, node, pos, call.item)
      BY DEF shifted
    <3> QED  BY <1>0, <1>3, <2>1, <2>3, <3>1, InsertRemovingFirstKeeps
  <2>5. shifted \in Heap /\ \A m \in Nodes : m # node => shifted[m] = heap[m]
    <3>1. pos \in 1 .. Length(heap, node)
      BY <1>0, <2>2, <2>3
    <3> QED  BY <1>0, <2>1, <3>1, InsertRemovingFirstType
  <2>6. /\ heap[node].left # NIL => heap' = shifted /\ used' = used
        /\ heap[node].left = NIL => /\ CanAllocate /\ used' = used \cup {Fresh}
                                    /\ heap' = WithChild(shifted, node, "left", None)
    BY <1>8 DEF Displace
  <2> HIDE DEF shifted
  <2>7. TreeOf(shifted, used, root) /\ shifted[node].left = heap[node].left
    BY <1>3, <2>1, <2>4, LinksSame
  <2>8. ASSUME NEW m \in used PROVE Whole(shifted, m) /\ Rich(shifted, m)
    <3>1. Internal(shifted, m) <=> Internal(heap, m)
      BY <1>0, <2>4, LinksSame
    <3>2. CASE m = node
      <4>1. Rich(heap, node) /\ (Internal(shifted, node) <=> Internal(heap, node))
        BY <1>3, <2>1, <3>1, <3>2
      <4>2. Rich(shifted, node)
        BY <2>4, <4>1 DEF Rich
      <4> QED  BY <2>4, <3>2, <4>2
    <3>3. CASE m # node
      BY <1>0, <1>3, <2>1, <2>5, <3>3 DEF Rich, Internal, Whole, Length
    <3> QED  BY <3>2, <3>3
  <2>9. CASE heap[node].left # NIL
    <3>1. heap' = shifted /\ used' = used /\ node' = heap[node].left /\ node' \in used
      BY <1>0, <1>3, <2>1, <2>6, <2>7, <2>9, Children
    <3>2. TreeOf(heap', used', root') /\ \A m \in used' : Whole(heap', m) /\ Rich(heap', m)
      BY <2>1, <2>7, <2>8, <3>1
    <3> QED  BY <1>0, <1>3, <2>1, <3>1, <3>2, Displaced
  <2>10. CASE heap[node].left = NIL
    <3>1. /\ CanAllocate /\ used' = used \cup {Fresh}
          /\ heap' = WithChild(shifted, node, "left", None)
          /\ shifted[node].left = NIL /\ None \in Entry \cup {None}
      BY <2>6, <2>7, <2>10
    <3>2. Length(shifted, node) >= MinLen
      BY <1>2, <2>3, <2>4
    <3>3. CanPlant(shifted, root, node, "left")
      BY <1>0, <2>1, <2>5, <2>7, <2>8, <3>1, <3>2 DEF CanPlant
    <3>4. /\ Fresh \in Nodes \ used /\ TreeOf(heap', used \cup {Fresh}, root)
          /\ \A m \in used : Whole(heap', m)
          /\ \A m \in used \cup {Fresh} : Rich(heap', m)
          /\ heap'[Fresh].ids = <<>> /\ heap'[node].left = Fresh /\ heap'[Fresh].right = NIL
      <4>1. Fresh \in Nodes \ used /\ TreeOf(heap', used \cup {Fresh}, root)
        BY <3>1, <3>3, PlantKeeps, Zenon
      <4>2. \A m \in used : Whole(heap', m)
        BY <3>1, <3>3, PlantKeeps
      <4>3. \A m \in used \cup {Fresh} : Rich(heap', m)
        BY <3>1, <3>3, PlantKeeps
      <4>4. heap'[Fresh].ids = <<>> /\ heap'[node].left = Fresh /\ heap'[Fresh].right = NIL
        BY <3>1, <3>3, PlantKeeps
      <4> QED  BY <4>1, <4>2, <4>3, <4>4
    <3>5. node' = Fresh /\ used' \subseteq Nodes
      BY <1>0, <2>1, <3>1, <3>4
    <3> QED  BY <1>3, <2>1, <3>1, <3>4, <3>5, Displaced
  <2> QED  BY <2>9, <2>10
<1>9. CASE PlaceDescend
  <2>1. /\ pc = "place" /\ heap[node].right # NIL /\ node' = heap[node].right
        /\ UNCHANGED <<root, heap, used, call, pc, current>>
    BY <1>9 DEF PlaceDescend
  <2>2. /\ TreeOf(heap, used, root) /\ node \in used /\ call.op # "load" /\ current = NIL
        /\ \A m \in used : Rich(heap, m) /\ Whole(heap, m)
    BY <2>1, Placing
  <2>3. node' \in used
    BY <1>0, <2>1, <2>2, Children
  <2> QED  BY <1>0, <2>1, <2>2, <2>3, Displaced
<1>10. CASE Place
  <2>1. /\ pc = "place" /\ pc' \in {"return", "rebalance"} /\ UNCHANGED <<root, used, call, current>>
        /\ heap' = NodeInsert(heap, node, Length(heap, node), hand) /\ ~Full(node)
    BY <1>10 DEF Place
  <2>2. /\ TreeOf(heap, used, root) /\ node \in used /\ call.op # "load" /\ current = NIL
        /\ \A m \in used : Rich(heap, m) /\ (m # node => Whole(heap, m))
        /\ hand \in Entry
    BY <2>1, Placing
  <2>3. node \in Nodes /\ Length(heap, node) \in 0 .. Length(heap, node) /\ Length(heap, node) < NodeSize
        /\ Length(heap, node) \in Nat
    <3>1. node \in Nodes /\ Length(heap, node) \in Nat
      BY <1>0, <2>2, HeapNode
    <3> QED  BY <1>2, <2>1, <3>1 DEF Full
  <2>4. SameLinks(heap', heap) /\ Whole(heap', node)
    BY <1>0, <2>1, <2>2, <2>3, NodeInsertKeeps
  <2>5. /\ Length(heap', node) = Length(heap, node) + 1
        /\ \A m \in Nodes : m # node => heap'[m] = heap[m]
    BY <1>0, <2>1, <2>2, <2>3, NodeInsertType
  <2>6. ASSUME NEW m \in used PROVE Whole(heap', m) /\ Rich(heap', m)
    <3>1. Internal(heap', m) <=> Internal(heap, m)
      BY <1>0, <2>4, LinksSame
    <3>2. CASE m = node
      BY <1>2, <2>2, <2>3, <2>4, <2>5, <3>1, <3>2 DEF Rich
    <3>3. CASE m # node
      BY <1>0, <2>2, <2>5, <3>3 DEF Rich, Internal, Whole, Length
    <3> QED  BY <3>2, <3>3
  <2>7. TreeOf(heap', used', root')
    BY <2>1, <2>2, <2>4, LinksSame
  <2> QED  BY <1>0, <2>1, <2>2, <2>6, <2>7, Settled
<1>11. CASE PlaceBelow
  <2> DEFINE g == WithChild(heap, node, "right", hand)
  <2>1. /\ pc = "place" /\ pc' = "rebalance" /\ UNCHANGED <<root, call, current>>
        /\ heap' = UpdateHeight(g, node) /\ used' = used \cup {Fresh}
        /\ Full(node) /\ heap[node].right = NIL /\ CanAllocate
    BY <1>11 DEF PlaceBelow
  <2> HIDE DEF g
  <2>2. /\ TreeOf(heap, used, root) /\ node \in used /\ node \in Nodes /\ call.op # "load" /\ current = NIL
        /\ \A m \in used : Rich(heap, m) /\ (m # node => Whole(heap, m))
        /\ heap[node].ids # <<>> => Whole(heap, node)
        /\ hand \in Entry /\ hand # None /\ hand \in Entry \cup {None}
    BY <1>0, <2>1, Placing, NoneAssumption
  <2>3. Length(heap, node) >= MinLen /\ Length(heap, node) > 0
    <3>1. Length(heap, node) \in Nat
      BY <1>0, <2>2, HeapNode
    <3> QED  BY <1>2, <2>1, <3>1, SizeAssumption DEF Full
  <2>4. heap[node].ids # <<>>
    BY <1>0, <2>2, <2>3, HeapNode, NotEmpty DEF Length
  <2>5. /\ Fresh \in Nodes \ used /\ g \in Heap /\ TreeOf(g, used \cup {Fresh}, root)
        /\ \A m \in used : Whole(g, m)
        /\ \A m \in used \cup {Fresh} : Rich(g, m)
        /\ Whole(g, Fresh)
    <3>1. g = WithChild(heap, node, "right", hand)
      BY DEF g
    <3>2. CanPlant(heap, root, node, "right")
      BY <1>0, <2>1, <2>2, <2>3, <2>4 DEF CanPlant
    <3>3. Fresh \in Nodes \ used /\ g \in Heap /\ TreeOf(g, used \cup {Fresh}, root)
      BY <2>2, <3>1, <3>2, PlantKeeps, Zenon
    <3>4. \A m \in used : Whole(g, m)
      BY <2>2, <3>1, <3>2, PlantKeeps
    <3>5. \A m \in used \cup {Fresh} : Rich(g, m)
      BY <2>2, <3>1, <3>2, PlantKeeps
    <3>6. Whole(g, Fresh)
      BY <2>2, <3>1, <3>2, PlantKeeps
    <3> QED  BY <3>3, <3>4, <3>5, <3>6
  <2>6. SameLinks(heap', g) /\ SameItems(heap', g)
    BY <2>1, <2>2, <2>5, UpdateHeightKeeps
  <2>7. /\ TreeOf(heap', used', root') /\ used' \subseteq Nodes
    BY <1>0, <2>1, <2>5, <2>6, LinksSame
  <2>8. \A m \in used' : Whole(heap', m) /\ Rich(heap', m)
    BY <1>0, <2>1, <2>5, <2>6, LinksSame, SameItemsWhole DEF Rich
  <2> QED  BY <2>1, <2>2, <2>7, <2>8, Settled
<1> QED  BY <1>4, <1>5, <1>6, <1>7, <1>8, <1>9, <1>10, <1>11 DEF InsertSteps

-----------------------------------------------------------------------------
(* TTree_remove.                                                            *)

\* The pointer that the assert of __pop_node_get_pointer finds is one of the tree.
LEMMA PointsLeads ==
    ASSUME heap \in Heap, NEW q \in Ptr, NEW n, PointsTo(q, n)
    PROVE  Leads(Lefts(heap), Rights(heap), root, q, n)
BY HeapLinks DEF PointsTo, Leads, Ptr

\* What Kind tells of the pointers.
LEMMA Kinds ==
    ASSUME NEW h, NEW n
    PROVE  /\ Kind(h, n) = "internal" <=> Internal(h, n)
           /\ Kind(h, n) = "leaf" <=> h[n].left = NIL /\ h[n].right = NIL
           /\ Kind(h, n) \in {"leaf", "halfleaf", "internal"}
BY DEF Kind, Internal

\* While an internal node waits for an entry only that node lacks one.
LEMMA Stealing ==
    ASSUME SInv, pc = "steal"
    PROVE  /\ current = NIL /\ used \subseteq Nodes /\ heap \in Heap
           /\ TreeOf(heap, used, root) /\ node \in used /\ target \in used /\ call.op # "load"
           /\ Internal(heap, target) /\ Length(heap, target) + 1 = MinLen
           /\ \A n \in used : n # target => Whole(heap, n) /\ Rich(heap, n)
<1>1. current = NIL /\ used \subseteq Nodes /\ heap \in Heap
  BY TypeHeap DEF SInv, Structure, Current, IInv, TypeOK
<1>2. Linked = used
  BY <1>1, NILAssumption DEF Linked
<1>3. TreeOf(heap, used, root) /\ node \in used /\ target \in used /\ call.op # "load"
  BY <1>2 DEF SInv, Structure, Shape, Cursors
<1>4. /\ Internal(heap, target) /\ Length(heap, target) + 1 = MinLen
      /\ \A n \in used : n # target => Whole(heap, n) /\ Rich(heap, n)
  BY <1>2, <1>3 DEF SInv, Structure, Filled, Emptied, Enough
<1> QED  BY <1>1, <1>2, <1>3, <1>4

\* Where the walk to the stolen entry is on its way to.
LEMMA Deprived ==
    ASSUME pc' = "steal", call'.op # "load", current' = NIL, used' \subseteq Nodes,
           node' \in used', target' \in used', TreeOf(heap', used', root'),
           Internal(heap', target'), Length(heap', target') + 1 = MinLen,
           \A n \in used' : n # target' => Whole(heap', n) /\ Rich(heap', n),
           Whole(heap', target') \/ heap'[target'].ids = <<>>
    PROVE  Structure'
<1>1. Linked' = used'
  BY NILAssumption DEF Linked
<1>2. Shape'
  BY <1>1 DEF Shape
<1>3. Cursors' /\ Current'
  BY <1>1 DEF Cursors, Current
<1>4. Filled'
  BY DEF Filled, Emptied
<1>5. Enough' /\ LoadFull'
  BY <1>1 DEF Enough, LoadFull
<1> QED  BY <1>2, <1>3, <1>4, <1>5 DEF Structure

\* Before a node without two children is merged or freed only that node may be empty.
LEMMA Fixing ==
    ASSUME SInv, pc = "fix"
    PROVE  /\ current = NIL /\ used \subseteq Nodes /\ heap \in Heap
           /\ TreeOf(heap, used, root) /\ node \in used /\ call.op # "load"
           /\ \A n \in used : Rich(heap, n) /\ (n # node => Whole(heap, n))
           /\ Whole(heap, node) \/ heap[node].ids = <<>>
<1>1. current = NIL /\ used \subseteq Nodes /\ heap \in Heap
  BY TypeHeap DEF SInv, Structure, Current, IInv, TypeOK
<1>2. Linked = used
  BY <1>1, NILAssumption DEF Linked
<1>3. TreeOf(heap, used, root) /\ node \in used /\ call.op # "load"
  BY <1>2 DEF SInv, Structure, Shape, Cursors
<1>4. /\ \A n \in used : Rich(heap, n) /\ (n # node => Whole(heap, n))
      /\ Whole(heap, node) \/ heap[node].ids = <<>>
  BY <1>2, <1>3 DEF SInv, Structure, Filled, Emptied, Enough
<1> QED  BY <1>1, <1>2, <1>3, <1>4

\* Where a node that lost an entry is left to be fixed.
LEMMA Reduced ==
    ASSUME pc' = "fix", call'.op # "load", current' = NIL, used' \subseteq Nodes, node' \in used',
           TreeOf(heap', used', root'), \A n \in used' : Rich(heap', n),
           \A n \in used' : n # node' => Whole(heap', n),
           Whole(heap', node') \/ heap'[node'].ids = <<>>
    PROVE  Structure'
<1>1. Linked' = used'
  BY NILAssumption DEF Linked
<1>2. Shape'
  BY <1>1 DEF Shape
<1>3. Cursors' /\ Current'
  BY <1>1 DEF Cursors, Current
<1>4. Filled'
  BY DEF Filled, Emptied
<1>5. Enough' /\ LoadFull'
  BY <1>1 DEF Enough, LoadFull
<1> QED  BY <1>2, <1>3, <1>4, <1>5 DEF Structure

\* Taking an entry out of the node that holds it.
LEMMA RemoveEntryStructure ==
    ASSUME SInv, RemoveMissing \/ RemoveFromInternal \/ RemoveFromOther
    PROVE  Structure'
<1> USE DEF Goto, Settle, At, memory, locals
<1>1. CASE RemoveMissing
  <2>1. Cursors'
    BY <1>1 DEF RemoveMissing, Cursors
  <2> QED  BY <1>1, <2>1, Quiet DEF RemoveMissing
<1>2. ASSUME At("found", "remove"), Exists, heap' = NodeRemove(heap, node, pos)
      PROVE  /\ current = NIL /\ used \subseteq Nodes /\ node \in used /\ heap \in Heap
             /\ Length(heap', node) = Length(heap, node) - 1 /\ Length(heap, node) \in Nat
             /\ TreeOf(heap', used, root) /\ Rich(heap, node)
             /\ \A m \in used : Internal(heap', m) <=> Internal(heap, m)
             /\ \A m \in used : m # node => Whole(heap', m) /\ Rich(heap', m)
             /\ Whole(heap', node) \/ heap'[node].ids = <<>>
             /\ heap'[node].ids = <<>> <=> Length(heap', node) = 0
  <2>1. /\ current = NIL /\ used \subseteq Nodes /\ node \in used /\ heap \in Heap
        /\ TreeOf(heap, used, root) /\ \A m \in used : Whole(heap, m) /\ Rich(heap, m)
    BY <1>2, Calm DEF SInv, Structure, Cursors
  <2>2. node \in Nodes /\ pos \in Nat /\ pos < Length(heap, node) /\ Length(heap, node) \in Nat
    BY <1>2, <2>1, HeapNode DEF Exists, SInv, IInv, TypeOK
  <2>3. SameLinks(heap', heap) /\ (Whole(heap', node) \/ heap'[node].ids = <<>>)
    BY <1>2, <2>1, <2>2, NodeRemoveKeeps
  <2>4. /\ heap' \in Heap /\ Length(heap', node) = Length(heap, node) - 1
        /\ \A m \in Nodes : m # node => heap'[m] = heap[m]
    BY <1>2, <2>1, <2>2, NodeRemoveType
  <2>5. TreeOf(heap', used, root) /\ \A m \in used : Internal(heap', m) <=> Internal(heap, m)
    BY <2>1, <2>3, LinksSame
  <2>6. \A m \in used : m # node => Whole(heap', m) /\ Rich(heap', m)
    BY <2>1, <2>4, <2>5 DEF Rich, Whole, Length
  <2>7. heap'[node].ids = <<>> <=> Length(heap', node) = 0
    <3>1. heap'[node].ids \in Seq(ID) /\ Length(heap', node) \in Nat
      BY <2>2, <2>4, HeapNode
    <3>2. heap'[node].ids # <<>> <=> Len(heap'[node].ids) > 0
      BY <3>1, NotEmpty
    <3> QED  BY <3>1, <3>2 DEF Length
  <2> QED  BY <2>1, <2>2, <2>3, <2>4, <2>5, <2>6, <2>7
<1>3. CASE RemoveFromInternal
  <2>1. /\ At("found", "remove") /\ Exists /\ heap' = NodeRemove(heap, node, pos)
        /\ Internal(heap, node) /\ UNCHANGED <<root, used, current, call>> /\ call.op = "remove"
    BY <1>3, Kinds DEF RemoveFromInternal
  <2>2. /\ current = NIL /\ used \subseteq Nodes /\ node \in used /\ heap \in Heap
        /\ Length(heap', node) = Length(heap, node) - 1 /\ Length(heap, node) \in Nat
        /\ TreeOf(heap', used, root) /\ Rich(heap, node)
        /\ \A m \in used : Internal(heap', m) <=> Internal(heap, m)
        /\ \A m \in used : m # node => Whole(heap', m) /\ Rich(heap', m)
        /\ Whole(heap', node) \/ heap'[node].ids = <<>>
        /\ heap'[node].ids = <<>> <=> Length(heap', node) = 0
    BY <1>2, <2>1
  <2>3. MinLen \in Nat /\ MinLen >= 1 /\ Length(heap, node) >= MinLen
    BY <2>1, <2>2, MinLenType DEF Rich
  <2>4. CASE Length(heap', node) >= MinLen
    <3>1. pc' = "return"
      BY <1>3, <2>4 DEF RemoveFromInternal
    <3>2. \A m \in used : Whole(heap', m) /\ Rich(heap', m)
      BY <2>2, <2>3, <2>4 DEF Rich
    <3>3. TreeOf(heap', used', root') /\ used' \subseteq Nodes /\ current' = NIL
      BY <2>1, <2>2
    <3> QED  BY <2>1, <3>1, <3>2, <3>3, Settled
  <2>5. CASE ~(Length(heap', node) >= MinLen)
    <3>1. pc' = "steal" /\ target' = node /\ node' = heap[node].left
      BY <1>3, <2>5 DEF RemoveFromInternal
    <3>2. Length(heap', node) + 1 = MinLen
      BY <2>2, <2>3, <2>5
    <3>3. node' \in used
      <4>1. TreeOf(heap, used, root)
        BY <2>1, Calm
      <4> QED  BY <2>1, <2>2, <3>1, <4>1, Children DEF Internal
    <3>4. Internal(heap', target')
      BY <2>1, <2>2, <3>1
    <3> QED  BY <2>1, <2>2, <3>1, <3>2, <3>3, <3>4, Deprived
  <2> QED  BY <2>4, <2>5
<1>4. CASE RemoveFromOther
  <2>1. /\ At("found", "remove") /\ Exists /\ heap' = NodeRemove(heap, node, pos)
        /\ ~Internal(heap, node) /\ UNCHANGED <<root, used, current, call, node>> /\ call.op = "remove"
        /\ pc' = "fix"
    BY <1>4, Kinds DEF RemoveFromOther
  <2>2. /\ current = NIL /\ used \subseteq Nodes /\ node \in used
        /\ TreeOf(heap', used, root)
        /\ \A m \in used : Internal(heap', m) <=> Internal(heap, m)
        /\ \A m \in used : m # node => Whole(heap', m) /\ Rich(heap', m)
        /\ Whole(heap', node) \/ heap'[node].ids = <<>>
    BY <1>2, <2>1
  <2>3. Rich(heap', node)
    BY <2>1, <2>2 DEF Rich
  <2> QED  BY <2>1, <2>2, <2>3, Reduced
<1> QED  BY <1>1, <1>3, <1>4

\* What remains of the node that lost its entry: the three steps of
\* __rebalance_after_remove_non_internal.
LEMMA FixStructure ==
    ASSUME SInv, Asserted, FixNothing \/ FixEmptyLeaf \/ FixMerge
    PROVE  Structure'
<1> USE DEF Goto, Settle, memory, locals
<1>1. pc = "fix"
  BY DEF FixNothing, FixEmptyLeaf, FixMerge
<1>2. /\ current = NIL /\ used \subseteq Nodes /\ heap \in Heap
      /\ TreeOf(heap, used, root) /\ node \in used /\ node \in Nodes /\ call.op # "load"
      /\ \A n \in used : Rich(heap, n) /\ (n # node => Whole(heap, n))
      /\ Whole(heap, node) \/ heap[node].ids = <<>>
  BY <1>1, Fixing
<1>3. PICK q \in Ptr : q = Parent(trace)
  BY ParentType DEF SInv, IInv, TypeOK
<1>4. /\ Leads(Lefts(heap), Rights(heap), root, q, node)
      /\ Kind(heap, node) # "internal"
      /\ Kind(heap, node) = "halfleaf" => Kind(heap, OnlyChild(heap, node)) = "leaf"
  BY <1>1, <1>2, <1>3, PointsLeads DEF Asserted, RemoveAsserts
<1>5. Kind(heap, node) = "halfleaf" =>
        OnlyChild(heap, node) \in used /\ OnlyChild(heap, node) # node
  BY <1>2, Children DEF Kind, OnlyChild
<1>6. CASE FixNothing
  <2>1. pc' = "return" /\ UNCHANGED <<root, heap, used, current>>
    BY <1>6 DEF FixNothing
  <2>2. heap[node].ids # <<>>
    <3>1. Length(heap, node) # 0
      <4>1. CASE Kind(heap, node) = "leaf"
        BY <1>6, <4>1 DEF FixNothing
      <4>2. CASE Kind(heap, node) = "halfleaf"
        <5>1. ~(Length(heap, node) + Length(heap, OnlyChild(heap, node)) <= NodeSize)
          BY <1>6, <4>2 DEF FixNothing, Mergeable
        <5>2. Length(heap, OnlyChild(heap, node)) \in 0 .. NodeSize
          BY <1>2, <1>5, <4>2, HeapNode
        <5> QED  BY <5>1, <5>2, SizeAssumption
      <4> QED  BY <1>4, <4>1, <4>2, Kinds
    <3> QED  BY <3>1 DEF Length
  <2>3. \A n \in used : Whole(heap, n) /\ Rich(heap, n)
    BY <1>2, <2>2
  <2> QED  BY <1>2, <2>1, <2>3, Settled
<1>7. CASE FixEmptyLeaf
  <2>1. /\ pc' = "rebalance" /\ UNCHANGED <<call, current>> /\ Kind(heap, node) = "leaf"
        /\ heap' = Cleared(Repoint(heap, q, node, NIL), node)
        /\ root' = (IF q = NIL THEN NIL ELSE root) /\ used' = used \ {node}
    BY <1>3, <1>7 DEF FixEmptyLeaf, RootAfter, Cleared
  <2>2. heap[node].left = NIL /\ heap[node].right = NIL
    BY <2>1, Kinds
  <2>3. /\ TreeOf(heap', used \ {node}, IF q = NIL THEN NIL ELSE root)
        /\ \A m \in Nodes \ {node} : heap'[m].ids = heap[m].ids /\ heap'[m].last_id = heap[m].last_id
        /\ \A m \in Nodes : Internal(heap', m) => Internal(heap, m)
    <3>1. heap \in Heap /\ TreeOf(heap, used, root) /\ node \in used /\ q \in Ptr
          /\ Leads(Lefts(heap), Rights(heap), root, q, node)
      BY <1>2, <1>3, <1>4
    <3>2. Dropped(heap', heap, used, IF q = NIL THEN NIL ELSE root, node)
      BY <2>1, <2>2, <3>1, DropLeafTree
    <3> QED  BY <3>2 DEF Dropped
  <2>4. TreeOf(heap', used', root') /\ used' \subseteq Nodes
    BY <1>2, <2>1, <2>3
  <2>5. \A n \in used' : Whole(heap', n) /\ Rich(heap', n)
    BY <1>2, <2>1, <2>3 DEF Whole, Rich, Length
  <2> QED  BY <1>2, <2>1, <2>4, <2>5, Settled
<1>8. CASE FixMerge
  <2>0. PICK l, a, b : /\ l = Absorbing(heap, node) /\ a = Absorbed(heap, node)
                       /\ b = RebalanceSubtree(UpdateHeight(Merged(heap, l, a), l), l)
    OBVIOUS
  <2>1. /\ pc' = "rebalance" /\ UNCHANGED <<call, current>> /\ Mergeable(heap, node)
        /\ heap' = Repoint(b.heap, q, node, b.top)
        /\ root' = (IF q = NIL THEN b.top ELSE root) /\ used' = used \ {a}
    BY <1>3, <1>8, <2>0 DEF FixMerge, RootAfter, Merged
  <2>2. /\ Kind(heap, node) = "halfleaf" /\ Kind(heap, OnlyChild(heap, node)) = "leaf"
        /\ Length(heap, node) + Length(heap, OnlyChild(heap, node)) <= NodeSize
        /\ Whole(heap, OnlyChild(heap, node))
    BY <1>2, <1>4, <1>5, <2>1 DEF Mergeable
  <2>3. l \in {node, OnlyChild(heap, node)} /\ node \in {l, a}
    BY <2>0 DEF Absorbing, Absorbed, OnlyChild
  <2>4. /\ l \in used /\ a \in used /\ l # a
        /\ TreeOf(heap', used \ {a}, IF q = NIL THEN b.top ELSE root)
        /\ Whole(heap', l)
        /\ \A m \in Nodes \ {l, a} : heap'[m].ids = heap[m].ids /\ heap'[m].last_id = heap[m].last_id
        /\ \A m \in Nodes : Internal(heap', m) => Internal(heap, m)
    <3>1. l = Absorbing(heap, node) /\ a = Absorbed(heap, node)
          /\ b = RebalanceSubtree(UpdateHeight(Merged(heap, l, a), l), l)
      BY <2>0
    <3>2. heap \in Heap /\ TreeOf(heap, used, root) /\ node \in used /\ q \in Ptr
          /\ Leads(Lefts(heap), Rights(heap), root, q, node)
      BY <1>2, <1>3, <1>4
    <3>3. Joined(heap', heap, used, IF q = NIL THEN b.top ELSE root, l, a)
      BY <2>1, <2>2, <3>1, <3>2, MergeTree
    <3> QED  BY <3>3 DEF Joined
  <2>5. ~Internal(heap, l)
    BY <2>2, <2>3, Kinds
  <2>6. TreeOf(heap', used', root') /\ used' \subseteq Nodes
    BY <1>2, <2>1, <2>4
  <2>7. ASSUME NEW n \in used' PROVE Whole(heap', n) /\ Rich(heap', n)
    <3>1. CASE n = l
      BY <1>2, <2>4, <2>5, <3>1 DEF Rich
    <3>2. CASE n # l
      <4>1. n \in used /\ n \in Nodes \ {l, a} /\ n # node
        BY <1>2, <2>1, <2>3, <3>2
      <4> QED  BY <1>2, <2>4, <4>1 DEF Whole, Rich, Length
    <3> QED  BY <3>1, <3>2
  <2> QED  BY <1>2, <2>1, <2>6, <2>7, Settled
<1> QED  BY <1>6, <1>7, <1>8

\* Removing an entry.
LEMMA RemoveStructure == ASSUME SInv, Asserted, RemoveSteps PROVE Structure'
<1> USE DEF Goto, Settle, memory, locals
<1>1. CASE StealDescend
  <2>1. /\ pc = "steal" /\ heap[node].right # NIL /\ node' = heap[node].right
        /\ UNCHANGED <<root, heap, used, call, pc, current, target>>
    BY <1>1 DEF StealDescend
  <2>2. /\ current = NIL /\ used \subseteq Nodes /\ heap \in Heap
        /\ TreeOf(heap, used, root) /\ node \in used /\ target \in used /\ call.op # "load"
        /\ Internal(heap, target) /\ Length(heap, target) + 1 = MinLen
        /\ \A n \in used : n # target => Whole(heap, n) /\ Rich(heap, n)
    BY <2>1, Stealing
  <2>3. node' \in used
    BY <2>1, <2>2, Children
  <2>4. Whole(heap, target) \/ heap[target].ids = <<>>
    BY <2>1, <2>2 DEF SInv, Structure, Filled
  <2> QED  BY <2>1, <2>2, <2>3, <2>4, Deprived
<1>2. CASE Steal
  <2> DEFINE last == Length(heap, node) - 1
             g == NodeRemove(heap, node, last)
             e == EntryAt(heap, node, last)
  <2>1. /\ pc = "steal" /\ pc' = "fix" /\ heap[node].right = NIL
        /\ UNCHANGED <<root, used, call, current, node>>
        /\ heap' = NodeInsert(g, target, 0, e)
    BY <1>2 DEF Steal
  <2>2. /\ current = NIL /\ used \subseteq Nodes /\ heap \in Heap
        /\ TreeOf(heap, used, root) /\ node \in used /\ target \in used /\ call.op # "load"
        /\ Internal(heap, target) /\ Length(heap, target) + 1 = MinLen
        /\ \A n \in used : n # target => Whole(heap, n) /\ Rich(heap, n)
        /\ node \in Nodes /\ target \in Nodes /\ node # target
    BY <2>1, Stealing DEF Internal
  <2>3. Length(heap, node) > 0 /\ Length(heap, target) < NodeSize
    BY <2>1 DEF Asserted, RemoveAsserts
  <2>4. last \in Nat /\ last < Length(heap, node) /\ Length(heap, node) \in Nat /\ Length(heap, target) \in Nat
    BY <2>2, <2>3, HeapNode
  <2>5. e \in Entry
    <3>1. heap[node].ids \in Seq(ID) /\ heap[node].data \in Seq(Record)
          /\ Len(heap[node].data) = Length(heap, node)
      BY <2>2, HeapNode
    <3>2. heap[node].ids[last + 1] \in ID
      BY <2>4, <3>1, ElementOfSeq DEF Length
    <3>3. heap[node].data[last + 1] \in Record
      BY <2>4, <3>1, ElementOfSeq
    <3> QED  BY <3>2, <3>3 DEF EntryAt, Entry
  <2> HIDE DEF last, e
  <2>6. /\ SameLinks(g, heap)
        /\ Whole(g, node) \/ g[node].ids = <<>>
    BY <2>2, <2>4, NodeRemoveKeeps
  <2>7. g \in Heap /\ \A m \in Nodes : m # node => g[m] = heap[m]
    BY <2>2, <2>4, NodeRemoveType
  <2> HIDE DEF g
  <2>8. Length(g, target) = Length(heap, target)
    BY <2>2, <2>7 DEF Length
  <2>9. 0 \in 0 .. Length(g, target) /\ Length(g, target) < NodeSize
    BY <2>3, <2>4, <2>8
  <2>10. SameLinks(heap', g) /\ Whole(heap', target)
    BY <2>1, <2>2, <2>5, <2>7, <2>9, NodeInsertKeeps
  <2>11. Length(heap', target) = MinLen /\ \A m \in Nodes : m # target => heap'[m] = g[m]
    <3>1. Length(heap', target) = Length(g, target) + 1 /\ \A m \in Nodes : m # target => heap'[m] = g[m]
      BY <2>1, <2>2, <2>5, <2>7, <2>9, NodeInsertType
    <3> QED  BY <2>2, <2>8, <3>1
  <2>12. SameLinks(heap', heap)
    BY <2>6, <2>10 DEF SameLinks
  <2>13. TreeOf(heap', used', root') /\ \A m \in Nodes : Internal(heap', m) <=> Internal(heap, m)
    BY <2>1, <2>2, <2>12, LinksSame
  <2>14. \A n \in used : n \notin {node, target} => Whole(heap', n) /\ Rich(heap', n)
    BY <2>2, <2>7, <2>11, <2>13 DEF Whole, Rich, Length
  <2>15. Rich(heap', target)
    BY <2>11, MinLenType DEF Rich
  <2>16. Rich(heap', node)
    BY <2>1, <2>2, <2>13 DEF Rich, Internal
  <2>17. Whole(heap', node) \/ heap'[node].ids = <<>>
    BY <2>2, <2>6, <2>11 DEF Whole
  <2>18. \A n \in used' : Rich(heap', n) /\ (n # node' => Whole(heap', n))
    BY <2>1, <2>10, <2>14, <2>15, <2>16
  <2> QED  BY <2>1, <2>2, <2>13, <2>17, <2>18, Reduced
<1>3. CASE RemoveMissing \/ RemoveFromInternal \/ RemoveFromOther
  BY <1>3, RemoveEntryStructure
<1>4. CASE FixNothing \/ FixEmptyLeaf \/ FixMerge
  BY <1>4, FixStructure
<1> QED  BY <1>1, <1>2, <1>3, <1>4 DEF RemoveSteps

-----------------------------------------------------------------------------
(* Rebalancing, and the bulk load it is part of.                            *)

\* Where a bulk load is left between two of its entries.
LEMMA Loading ==
    ASSUME pc' = "load", call'.op = "load", trace' = <<>>, used' \subseteq Nodes, current' \in used' \cup {NIL},
           TreeOf(heap', used' \ {current'}, root'),
           \A n \in used' \ {current'} : Whole(heap', n) /\ Rich(heap', n), LoadFull'
    PROVE  Structure'
<1>1. Linked' = used' \ {current'}
  BY DEF Linked
<1>2. Shape'
  BY <1>1 DEF Shape
<1>3. Cursors' /\ Current'
  BY DEF Cursors, Current
<1>4. Filled' /\ Enough'
  BY <1>1 DEF Filled, Enough
<1> QED  BY <1>2, <1>3, <1>4 DEF Structure

\* The first rotation restores the length of the node it brings on top.
LEMMA RebalanceStructure == ASSUME SInv, Asserted, RebalanceSteps PROVE Structure'
<1> USE DEF Goto, memory, locals
<1>1. pc = "rebalance"
  BY DEF RebalanceSteps, RebalanceUp, RebalanceRotate, RebalanceEnd
<1>2. /\ current = NIL /\ Linked = used /\ used \subseteq Nodes /\ heap \in Heap
      /\ TreeOf(heap, used, root)
      /\ \A n \in used : Whole(heap, n) /\ Rich(heap, n)
  BY <1>1, Calm
<1>3. call.op = "load" => /\ pos <= Len(call.items)
                          /\ (\A n \in used : Length(heap, n) = NodeSize) \/ pos = Len(call.items)
  BY <1>1, <1>2 DEF SInv, Structure, LoadFull
<1>4. ASSUME UNCHANGED <<used, call, current>>, pos' = pos, pc' \in {"rebalance", "load"}, call.op = "load",
             (\A n \in used : Length(heap, n) = NodeSize) => \A n \in used : Length(heap', n) = NodeSize
      PROVE  LoadFull'
  <2>1. Linked' = used /\ current' = NIL
    BY <1>2, <1>4 DEF Linked
  <2> QED  BY <1>3, <1>4, <2>1 DEF LoadFull
<1>5. ASSUME trace # <<>>
      PROVE  LET t == Last(trace)
                 q == Parent(Front(trace))
             IN  /\ Turned(Rotated, heap, used, IF q = NIL THEN Rebalanced.top ELSE root, Rebalanced.top)
                 /\ Rebalanced.top = t => Rebalanced.heap = Updated
                 /\ SameLinks(Updated, heap) /\ SameItems(Updated, heap)
  <2>1. PICK t, q : t = Last(trace) /\ q = Parent(Front(trace))
    OBVIOUS
  <2>2. t \in Nodes /\ q \in Ptr
    BY <1>5, <2>1, FrontLastType, ParentType DEF SInv, IInv, TypeOK
  <2>3. Leads(Lefts(heap), Rights(heap), root, q, t) /\ PointsTo(q, t)
    BY <1>1, <1>2, <1>5, <2>1, <2>2, PointsLeads DEF Asserted, RebalanceAsserts
  <2>4. t \in used
    <3>1. CASE q = NIL
      BY <1>2, <2>2, <2>3, <3>1, Children, NILAssumption DEF PointsTo
    <3>2. CASE q # NIL
      <4>1. q \in Nodes /\ t \in {heap[q].left, heap[q].right} /\ t # NIL
        BY <2>2, <2>3, <3>2, NILAssumption DEF PointsTo, Ptr
      <4> QED  BY <1>2, <4>1, Children
    <3> QED  BY <3>1, <3>2
  <2>5. PICK u : u = Updated
    OBVIOUS
  <2>6. u \in Heap /\ SameLinks(u, heap) /\ SameItems(u, heap)
    BY <1>2, <2>1, <2>2, <2>5, UpdateHeightType, UpdateHeightKeeps DEF Updated
  <2>7. TreeOf(u, used, root) /\ Leads(Lefts(u), Rights(u), root, q, t)
    BY <1>2, <2>3, <2>6, LinksSame DEF SameLinks
  <2>8. PICK b : b = RebalanceSubtree(u, t)
    OBVIOUS
  <2>9. Rebalanced = b
    BY <2>1, <2>5, <2>8 DEF Rebalanced
  <2>10. PICK g : g = Repoint(b.heap, q, t, b.top)
    OBVIOUS
  <2>11. Rotated = g
    BY <2>1, <2>9, <2>10 DEF Rotated
  <2>12. Turned(g, u, used, IF q = NIL THEN b.top ELSE root, b.top)
    BY <2>2, <2>4, <2>6, <2>7, <2>8, <2>10, RebalanceTree
  <2>13. b.top = t => b.heap = u
    BY <2>2, <2>4, <2>6, <2>7, <2>8, <2>10, <2>12, RebalanceTree
  <2>14. Turned(g, heap, used, IF q = NIL THEN b.top ELSE root, b.top)
    <3>1. \A m \in Nodes : Internal(u, m) <=> Internal(heap, m)
      BY <2>6, LinksSame
    <3>2. SameItems(g, heap)
      BY <2>6, <2>12, SameItemsTwice DEF Turned
    <3> QED  BY <2>12, <3>1, <3>2 DEF Turned
  <2> QED  BY <2>1, <2>5, <2>6, <2>9, <2>11, <2>13, <2>14
<1>6. CASE RebalanceUp
  <2>1. /\ pc' = "rebalance" /\ UNCHANGED <<root, used, call, current, pos>> /\ trace # <<>>
        /\ Rebalanced.top = Last(trace) /\ heap' = Rebalanced.heap
    BY <1>6 DEF RebalanceUp
  <2>2. SameLinks(heap', heap) /\ SameItems(heap', heap)
    BY <1>5, <2>1
  <2>3. /\ TreeOf(heap', used', root')
        /\ \A m \in Nodes : Internal(heap', m) <=> Internal(heap, m)
    BY <1>2, <2>1, <2>2, LinksSame
  <2>4. \A m \in Nodes : (Whole(heap', m) <=> Whole(heap, m)) /\ Length(heap', m) = Length(heap, m)
    BY <2>2, SameItemsWhole
  <2>5. \A m \in used' : Whole(heap', m) /\ Rich(heap', m)
    BY <1>2, <2>1, <2>3, <2>4 DEF Rich
  <2>6. call.op = "load" => LoadFull'
    BY <1>2, <1>4, <2>1, <2>4
  <2> QED  BY <1>2, <2>1, <2>3, <2>5, <2>6, Settled
<1>7. CASE RebalanceRotate
  <2>0. PICK q, g, top : q = Parent(Front(trace)) /\ g = Rotated /\ top = Rebalanced.top
    OBVIOUS
  <2>1. /\ pc' = AfterRebalance /\ UNCHANGED <<used, call, current, pos>> /\ trace # <<>>
        /\ trace' = <<>> /\ Rebalanced.top # Last(trace)
        /\ heap' = EnsureMinLen(g, top) /\ root' = IF q = NIL THEN top ELSE root
    BY <1>7, <2>0 DEF RebalanceRotate, RootAfter
  <2>2. Turned(g, heap, used, root', top)
    BY <1>5, <2>0, <2>1
  <2>3. EnsureMinLenAsserts(g, top)
    BY <1>1, <2>0, <2>1 DEF Asserted, RebalanceAsserts
  <2>4. g \in Heap /\ TreeOf(g, used, root') /\ top \in used
        /\ \A m \in Nodes : m # top /\ Internal(g, m) => Internal(heap, m)
    BY <2>2 DEF Turned
  <2>5. \A m \in Nodes : (Whole(g, m) <=> Whole(heap, m)) /\ Length(g, m) = Length(heap, m)
    BY <2>2, SameItemsWhole DEF Turned
  <2>6. \A m \in used : Whole(g, m)
    BY <1>2, <2>5
  <2>7. \A m \in used : m # top => Rich(g, m)
    BY <1>2, <2>4, <2>5 DEF Rich
  <2>8. PICK k : k = EnsureMinLen(g, top)
    OBVIOUS
  <2>9. PICK r : r = root'
    OBVIOUS
  <2>10. SameLinks(k, g) /\ \A m \in used : Whole(k, m) /\ Rich(k, m)
    BY <2>3, <2>4, <2>6, <2>7, <2>8, <2>9, EnsureMinLenKeeps
  <2>11. TreeOf(k, used, root')
    BY <2>4, <2>10, LinksSame
  <2>12. TreeOf(heap', used', root') /\ used' \subseteq Nodes /\ current' = NIL
         /\ \A m \in used' : Whole(heap', m) /\ Rich(heap', m)
    BY <1>2, <2>1, <2>8, <2>10, <2>11
  <2>13. CASE call.op # "load"
    <3>1. pc' = "return"
      BY <2>1, <2>13 DEF AfterRebalance
    <3> QED  BY <2>12, <3>1, Settled
  <2>14. CASE call.op = "load"
    <3>1. pc' = "load"
      BY <2>1, <2>14 DEF AfterRebalance
    <3>2. ASSUME \A n \in used : Length(heap, n) = NodeSize
          PROVE  \A n \in used : Length(heap', n) = NodeSize
      <4>1. \A n \in used : Length(g, n) = NodeSize
        BY <1>2, <2>5, <3>2
      <4>2. ~ShortOfRecords(g, top)
        BY <2>4, <4>1, MinLenType, SizeAssumption DEF ShortOfRecords
      <4>3. heap' = g
        BY <2>1, <4>2 DEF EnsureMinLen
      <4> QED  BY <4>1, <4>3
    <3>3. LoadFull'
      BY <1>4, <2>1, <2>14, <3>1, <3>2
    <3>4. used' \ {current'} = used'
      BY <2>12, NILAssumption
    <3> QED  BY <2>1, <2>12, <2>14, <3>1, <3>3, <3>4, Loading, Zenon
  <2> QED  BY <2>13, <2>14
<1>8. CASE RebalanceEnd
  <2>1. /\ pc' = AfterRebalance /\ UNCHANGED <<root, heap, used, call, current, pos, trace>> /\ trace = <<>>
    BY <1>8 DEF RebalanceEnd
  <2>2. CASE call.op # "load"
    <3>1. pc' = "return"
      BY <2>1, <2>2 DEF AfterRebalance
    <3> QED  BY <1>2, <2>1, <3>1, Settled
  <2>3. CASE call.op = "load"
    <3>1. pc' = "load"
      BY <2>1, <2>3 DEF AfterRebalance
    <3>2. LoadFull'
      BY <1>4, <2>1, <2>3, <3>1
    <3>3. used' \ {current'} = used
      BY <1>2, <2>1, NILAssumption
    <3> QED  BY <1>2, <2>1, <2>3, <3>1, <3>2, <3>3, Loading
  <2> QED  BY <2>2, <2>3
<1> QED  BY <1>6, <1>7, <1>8 DEF RebalanceSteps

\* Where it is left on the way to the place of a finished node.
LEMMA Attaching ==
    ASSUME pc' = "attach", used' \subseteq Nodes, current' \in used',
           TreeOf(heap', used' \ {current'}, root'),
           \A n \in used' : Whole(heap', n), \A n \in used' \ {current'} : Rich(heap', n), LoadFull',
           node' \in (used' \ {current'}) \cup {NIL},
           trace' # <<>> => Last(trace') \in used' \ {current'} /\ node' = heap'[Last(trace')].right
    PROVE  Structure'
<1>1. Linked' = used' \ {current'}
  BY DEF Linked
<1>2. Shape'
  BY <1>1 DEF Shape
<1>3. Cursors' /\ Current'
  BY <1>1 DEF Cursors, Current
<1>4. Filled' /\ Enough'
  BY <1>1 DEF Filled, Enough
<1> QED  BY <1>2, <1>3, <1>4 DEF Structure

\* What the invariant says of a bulk load.
LEMMA LoadFacts ==
    ASSUME SInv, pc \in {"load", "attach"}
    PROVE  /\ used \subseteq Nodes /\ heap \in Heap /\ current \in used \cup {NIL} /\ call.op = "load"
           /\ TreeOf(heap, used \ {current}, root)
           /\ \A n \in used \ {current} : Whole(heap, n) /\ Rich(heap, n)
           /\ call.items \in Seq(Entry) /\ pos \in Nat /\ pos <= Len(call.items)
           /\ \/ \A n \in used \ {current} : Length(heap, n) = NodeSize
              \/ pos = Len(call.items) /\ current = NIL
           /\ pc = "load" => trace = <<>>
<1>1. used \subseteq Nodes /\ heap \in Heap /\ current \in used \cup {NIL} /\ pos \in Nat
  BY TypeHeap DEF SInv, Structure, Current, IInv, TypeOK
<1>2. call.op = "load" /\ call.items \in Seq(Entry)
  BY CallType DEF SInv, IInv, Control
<1>3. Linked = used \ {current}
  BY DEF Linked
<1>4. TreeOf(heap, used \ {current}, root) /\ (pc = "load" => trace = <<>>)
  BY <1>3 DEF SInv, Structure, Shape, Cursors
<1>5. \A n \in used \ {current} : Whole(heap, n) /\ Rich(heap, n)
  BY <1>3 DEF SInv, Structure, Filled, Emptied, Enough
<1>6. /\ pos <= Len(call.items)
      /\ \/ \A n \in used \ {current} : Length(heap, n) = NodeSize
         \/ pos = Len(call.items) /\ current = NIL
  BY <1>2, <1>3 DEF SInv, Structure, LoadFull
<1> QED  BY <1>1, <1>2, <1>4, <1>5, <1>6

\* Bringing last_id up to date.
LEMMA FinishedKeeps ==
    ASSUME heap \in Heap, current \in Nodes, heap[current].ids # <<>>
    PROVE  /\ SameLinks(Finished, heap) /\ Whole(Finished, current)
           /\ \A m \in Nodes : m # current => Finished[m] = heap[m]
           /\ \A m \in Nodes : Length(Finished, m) = Length(heap, m)
<1>1. /\ \A m \in Nodes : m # current => Finished[m] = heap[m]
      /\ Finished[current] = [heap[current] EXCEPT !.last_id = Last(heap[current].ids)]
  BY DEF Finished, Heap
<1>2. heap[current] \in TNode
  BY HeapNode
<1>3. /\ Finished[current].left = heap[current].left /\ Finished[current].right = heap[current].right
      /\ Finished[current].ids = heap[current].ids
      /\ Finished[current].last_id = Last(heap[current].ids)
  BY <1>1, <1>2 DEF TNode
<1>4. \A m \in Nodes : Finished[m].left = heap[m].left /\ Finished[m].right = heap[m].right
  BY <1>1, <1>3, Zenon
<1>5. SameLinks(Finished, heap)
  BY <1>4, LinksEqual
<1>6. \A m \in Nodes : Length(Finished, m) = Length(heap, m)
  BY <1>1, <1>3, Zenon DEF Length
<1> QED  BY <1>1, <1>3, <1>5, <1>6 DEF Whole

\* The two steps that fill a node.
LEMMA BulkStructure == ASSUME SInv, BulkFirst \/ BulkAppend PROVE Structure'
<1> USE DEF Goto, memory, locals
<1>1. pc = "load" /\ pc' = "load" /\ pos < Len(call.items) /\ pos' = pos + 1
      /\ UNCHANGED <<call, trace, root>>
  BY DEF BulkFirst, BulkAppend
<1>2. /\ used \subseteq Nodes /\ heap \in Heap /\ current \in used \cup {NIL} /\ call.op = "load"
      /\ TreeOf(heap, used \ {current}, root)
      /\ \A n \in used \ {current} : Whole(heap, n) /\ Rich(heap, n) /\ Length(heap, n) = NodeSize
      /\ call.items \in Seq(Entry) /\ pos \in Nat /\ pos <= Len(call.items) /\ Len(call.items) \in Nat
      /\ trace' = <<>>
  <2>1. call.items \in Seq(Entry) /\ pos \in Nat /\ Len(call.items) \in Nat
    BY <1>1, LoadFacts, LenProperties
  <2>2. pos # Len(call.items)
    BY <1>1, <2>1
  <2> QED  BY <1>1, <2>1, <2>2, LoadFacts
<1>3. pos + 1 <= Len(call.items) /\ call.items[pos + 1] \in Entry
  BY <1>1, <1>2, ElementOfSeq
<1>4. ASSUME SameLinks(heap', heap), \A n \in used \ {current} : heap'[n] = heap[n],
             used' \ {current'} = used \ {current}, used' \subseteq Nodes, current' \in used' \cup {NIL}
      PROVE  Structure'
  <2>1. TreeOf(heap', used' \ {current'}, root')
    BY <1>1, <1>2, <1>4, LinksSame, Zenon
  <2>2. \A n \in used' \ {current'} : Whole(heap', n) /\ Rich(heap', n) /\ Length(heap', n) = NodeSize
    BY <1>2, <1>4 DEF Whole, Rich, Internal, Length
  <2>3. LoadFull'
    BY <1>1, <1>2, <1>3, <2>2 DEF LoadFull, Linked
  <2> QED  BY <1>1, <1>2, <1>4, <2>1, <2>2, <2>3, Loading
<1>5. CASE BulkFirst
  <2>1. /\ current = NIL /\ CanAllocate /\ current' = Fresh /\ used' = used \cup {Fresh}
        /\ heap' = Started(heap, Fresh, call.items[pos + 1])
    BY <1>5 DEF BulkFirst, Started, Cleared
  <2>2. Fresh \in Nodes \ used /\ used \ {current} = used
    BY <1>2, <2>1, FreshNew, NILAssumption
  <2>3. heap[Fresh].left = NIL /\ heap[Fresh].right = NIL
    BY <1>2, <2>2, Outside
  <2>4. SameLinks(heap', heap) /\ \A m \in Nodes : m # Fresh => heap'[m] = heap[m]
    BY <1>2, <1>3, <2>1, <2>2, <2>3, StartedKeeps
  <2> QED  BY <1>2, <1>4, <2>1, <2>2, <2>4
<1>6. CASE BulkAppend
  <2>1. /\ current # NIL /\ UNCHANGED <<used, current>> /\ current \in Nodes
        /\ heap' = [heap EXCEPT ![current].ids = Append(@, call.items[pos + 1].id),
                                ![current].data = Append(@, call.items[pos + 1].rec)]
    BY <1>2, <1>6 DEF BulkAppend
  <2>2. heap[current] \in TNode
    BY <1>2, <2>1, HeapNode
  <2>3. \A m \in Nodes : m # current => heap'[m] = heap[m]
    BY <1>2, <2>1 DEF Heap
  <2>4. heap'[current].left = heap[current].left /\ heap'[current].right = heap[current].right
    BY <1>2, <2>1, <2>2 DEF Heap, TNode
  <2>5. \A m \in Nodes : heap'[m].left = heap[m].left /\ heap'[m].right = heap[m].right
    BY <2>3, <2>4
  <2>6. SameLinks(heap', heap)
    BY <2>5, LinksEqual
  <2> QED  BY <1>2, <1>4, <2>1, <2>3, <2>6, Zenon
<1> QED  BY <1>5, <1>6

\* The two steps of __bulk_insert_finish_node.
LEMMA FinishStructure == ASSUME SInv, Asserted, FinishRoot \/ FinishNode PROVE Structure'
<1> USE DEF Goto, memory, locals
<1>1. /\ pc = "load" /\ UNCHANGED <<used, call, trace, pos>> /\ heap' = Finished /\ current # NIL
      /\ Length(heap, current) = NodeSize \/ pos = Len(call.items)
  BY DEF FinishRoot, FinishNode, CurrentDone
<1>2. /\ used \subseteq Nodes /\ heap \in Heap /\ current \in used /\ current \in Nodes /\ call.op = "load"
      /\ TreeOf(heap, used \ {current}, root)
      /\ \A n \in used \ {current} : Whole(heap, n) /\ Rich(heap, n) /\ Length(heap, n) = NodeSize
      /\ pos <= Len(call.items) /\ trace = <<>>
  BY <1>1, LoadFacts
<1>3. heap[current].ids # <<>>
  BY <1>1 DEF Asserted, LoadAsserts, Length
<1>4. /\ SameLinks(heap', heap) /\ Whole(heap', current)
      /\ \A m \in Nodes : m # current => heap'[m] = heap[m]
      /\ \A m \in Nodes : Length(heap', m) = Length(heap, m)
  BY <1>1, <1>2, <1>3, FinishedKeeps
<1>5. \A m \in Nodes : Internal(heap', m) <=> Internal(heap, m)
  BY <1>4, LinksSame
<1>6. CASE FinishRoot
  <2>1. root = NIL /\ root' = current /\ current' = NIL /\ pc' = "load"
    BY <1>6 DEF FinishRoot
  <2>2. used = {current}
    BY <1>2, <2>1, Children, NILAssumption
  <2>3. TreeOf(heap, {current}, current)
    <3>1. IsTree(Lefts(heap), Rights(heap), {}, NIL)
      <4>1. used \ {current} = {}
        BY <2>2
      <4> QED  BY <1>2, <2>1, <4>1, Zenon DEF TreeOf
    <3> QED  BY <1>2, <3>1, HeapLinks, FirstNode DEF TreeOf
  <2>4. used' \ {current'} = {current} /\ used' = {current}
    BY <1>1, <1>2, <2>1, <2>2, NILAssumption
  <2>5. TreeOf(heap', used' \ {current'}, root')
    <3>1. TreeOf(heap', {current}, current)
      BY <1>4, <2>3, LinksSame
    <3>2. root' = current /\ used' \ {current'} = {current}
      BY <2>1, <2>4
    <3> QED  BY <3>1, <3>2
  <2>6. Rich(heap', current)
    <3>1. heap[current].left = NIL
      BY <1>2, Outside
    <3> QED  BY <1>2, <1>5, <3>1 DEF Rich, Internal
  <2>7. LoadFull'
    BY <1>1, <1>2, <1>4, <2>1, <2>4 DEF LoadFull, Linked
  <2>8. \A n \in used' \ {current'} : Whole(heap', n) /\ Rich(heap', n)
    BY <1>4, <2>4, <2>6
  <2> QED  BY <1>1, <1>2, <2>1, <2>5, <2>7, <2>8, Loading
<1>7. CASE FinishNode
  <2>1. root # NIL /\ node' = root /\ current' = current /\ pc' = "attach" /\ root' = root
    BY <1>7 DEF FinishNode
  <2>2. TreeOf(heap', used' \ {current'}, root')
    BY <1>1, <1>2, <1>4, <2>1, LinksSame
  <2>3. \A n \in used' \ {current'} : Whole(heap', n) /\ Rich(heap', n) /\ Length(heap', n) = NodeSize
    BY <1>1, <1>2, <1>4, <2>1 DEF Whole, Rich, Internal, Length
  <2>4. \A n \in used' : Whole(heap', n)
    BY <1>1, <1>4, <2>1, <2>3
  <2>5. LoadFull'
    BY <1>1, <1>2, <1>4, <2>1, <2>3 DEF LoadFull, Linked
  <2>6. node' \in used' \ {current'}
    BY <1>1, <1>2, <2>1, Children
  <2> QED  BY <1>1, <1>2, <2>1, <2>2, <2>3, <2>4, <2>5, <2>6, Attaching
<1> QED  BY <1>6, <1>7

\* A finished node becomes the right child of the last one.
LEMMA AttachStructure == ASSUME SInv, AttachDescend \/ Attach PROVE Structure'
<1> USE DEF Goto, memory, locals
<1>1. pc = "attach" /\ UNCHANGED <<root, used, call, pos>>
  BY DEF AttachDescend, Attach
<1>2. /\ used \subseteq Nodes /\ heap \in Heap /\ current \in used /\ current \in Nodes /\ call.op = "load"
      /\ TreeOf(heap, used \ {current}, root)
      /\ \A n \in used \ {current} : Whole(heap, n) /\ Rich(heap, n) /\ Length(heap, n) = NodeSize
      /\ pos <= Len(call.items)
  <2>1. current # NIL
    BY <1>1, NILAssumption DEF SInv, IInv, Control
  <2> QED  BY <1>1, <2>1, LoadFacts
<1>3. /\ Whole(heap, current) /\ node \in (used \ {current}) \cup {NIL}
      /\ trace # <<>> => Last(trace) \in used \ {current} /\ node = heap[Last(trace)].right
      /\ Length(heap, current) = NodeSize \/ pos = Len(call.items)
  BY <1>1, <1>2 DEF SInv, Structure, Filled, Emptied, Cursors, Linked, LoadFull
<1>4. CASE AttachDescend
  <2>1. /\ UNCHANGED <<heap, pc, current>> /\ node # NIL /\ trace' = Append(trace, node)
        /\ node' = heap[node].right
    BY <1>4 DEF AttachDescend
  <2>2. trace' # <<>> /\ Last(trace') = node /\ node \in used \ {current}
    BY <1>2, <1>3, <2>1, LastAppend DEF SInv, IInv, TypeOK
  <2>3. node' \in (used \ {current}) \cup {NIL}
    BY <1>2, <2>1, <2>2, Children
  <2>4. LoadFull'
    BY <1>1, <2>1 DEF LoadFull, SInv, Structure, Linked
  <2>5. \A n \in used : Whole(heap, n)
    BY <1>2, <1>3
  <2> QED  BY <1>1, <1>2, <2>1, <2>2, <2>3, <2>4, <2>5, Attaching
<1>5. CASE Attach
  <2>1. /\ node = NIL /\ current' = NIL /\ pc' = "rebalance"
        /\ heap' = [heap EXCEPT ![Last(trace)].right = current]
    BY <1>5 DEF Attach
  <2>2. trace # <<>>
    BY <1>1, <2>1, NILAssumption DEF SInv, IInv, Control
  <2>3. PICK t : t = Last(trace)
    OBVIOUS
  <2>4. t \in used \ {current} /\ t \in Nodes /\ heap[t].right = NIL
    BY <1>2, <1>3, <2>1, <2>2, <2>3
  <2>5. PICK g : g = [heap EXCEPT ![t].right = current]
    BY Zenon
  <2>6. g \in Heap /\ Rights(g) = [Rights(heap) EXCEPT ![t] = current] /\ Lefts(g) = Lefts(heap)
        /\ SameItems(g, heap)
    <3>1. current \in Ptr
      BY <1>2 DEF Ptr
    <3>2. PICK h, c : h = heap /\ c = current
      OBVIOUS
    <3>3. h \in Heap /\ t \in Nodes /\ c \in Ptr
      BY <1>2, <2>4, <3>1, <3>2
    <3>4. /\ [h EXCEPT ![t].right = c] \in Heap
          /\ Rights([h EXCEPT ![t].right = c]) = [Rights(h) EXCEPT ![t] = c]
          /\ Lefts([h EXCEPT ![t].right = c]) = Lefts(h)
          /\ SameItems([h EXCEPT ![t].right = c], h)
      BY <3>3, SetRightLinks, Zenon
    <3>5. g = [h EXCEPT ![t].right = c]
      BY <2>5, <3>2
    <3> QED  BY <3>2, <3>4, <3>5, Zenon
  <2>7. PICK S, f : S = used \ {current} /\ f = current
    BY Zenon
  <2>8. TreeOf(g, S \cup {f}, root) /\ \A m \in Nodes : m # t /\ Internal(g, m) => Internal(heap, m)
    <3>1. f \in Nodes \ S /\ t \in S /\ TreeOf(heap, S, root)
      BY <1>2, <2>4, <2>7
    <3>2. Rights(g) = [Rights(heap) EXCEPT ![t] = f] /\ Lefts(g) = Lefts(heap)
      BY <2>6, <2>7
    <3> QED  BY <1>2, <2>4, <2>6, <3>1, <3>2, Plant
  <2>9. S \cup {f} = used /\ g = heap'
    BY <1>2, <2>1, <2>3, <2>5, <2>7
  <2>10. \A m \in Nodes : (Whole(heap', m) <=> Whole(heap, m)) /\ Length(heap', m) = Length(heap, m)
    BY <2>6, <2>9, SameItemsWhole
  <2>11. ASSUME NEW n \in used' PROVE Whole(heap', n) /\ Rich(heap', n)
    <3>1. Whole(heap', n)
      BY <1>1, <1>2, <1>3, <2>10
    <3>2. CASE n = t
      <4>1. Length(heap', n) = NodeSize
        BY <1>2, <2>4, <2>10, <3>2
      <4> QED  BY <3>1, <4>1, MinLenType DEF Rich
    <3>3. CASE n = current
      <4>1. heap[n].left = NIL
        BY <1>2, <3>3, Outside
      <4> QED  BY <1>2, <2>4, <2>8, <2>9, <3>1, <3>3, <4>1 DEF Rich, Internal
    <3>4. CASE n \notin {t, current}
      BY <1>1, <1>2, <2>8, <2>9, <2>10, <3>1, <3>4 DEF Rich
    <3> QED  BY <3>2, <3>3, <3>4
  <2>12. LoadFull'
    <3>1. Linked' = used
      BY <1>1, <1>2, <2>1, NILAssumption DEF Linked
    <3>2. (\A n \in used : Length(heap', n) = NodeSize) \/ pos = Len(call.items)
      BY <1>2, <1>3, <2>10
    <3> QED  BY <1>1, <1>2, <2>1, <3>1, <3>2, Zenon DEF LoadFull
  <2>13. TreeOf(heap', used', root')
    BY <1>1, <2>8, <2>9
  <2> QED  BY <1>1, <1>2, <2>1, <2>11, <2>12, <2>13, Settled, Zenon
<1> QED  BY <1>4, <1>5

\* A bulk load.
LEMMA LoadStructure == ASSUME SInv, Asserted, LoadSteps PROVE Structure'
<1> USE DEF Goto, Settle, At, memory, locals
<1>1. CASE StartLoad
  <2>1. /\ pc = "start" /\ pc' = "load" /\ call.op = "load"
        /\ UNCHANGED <<root, heap, used, call, trace, pos, current>>
    BY <1>1 DEF StartLoad
  <2>2. /\ current = NIL /\ used = {} /\ TreeOf(heap, used, root) /\ trace = <<>> /\ pos = 0
    BY <2>1, Calm DEF SInv, Structure, Current, Cursors
  <2>3. call.items \in Seq(Entry)
    BY <2>1, CallType DEF SInv, IInv, Control
  <2>4. 0 <= Len(call.items)
    BY <2>3, LenProperties
  <2>5. LoadFull'
    BY <2>1, <2>2, <2>4 DEF LoadFull, Linked
  <2>6. used' = {} /\ used' \ {current'} = used
    BY <2>1, <2>2
  <2> QED  BY <2>1, <2>2, <2>5, <2>6, Loading
<1>2. CASE BulkFirst \/ BulkAppend
  BY <1>2, BulkStructure
<1>3. CASE FinishRoot \/ FinishNode
  BY <1>3, FinishStructure
<1>4. CASE AttachDescend \/ Attach
  BY <1>4, AttachStructure
<1>5. CASE LoadEnd
  <2>1. pc = "load" /\ pc' = "return" /\ current = NIL /\ UNCHANGED <<root, heap, used, current>>
    BY <1>5 DEF LoadEnd
  <2>2. used \ {current} = used
    BY <2>1, LoadFacts, NILAssumption
  <2>3. /\ used \subseteq Nodes /\ TreeOf(heap, used, root)
        /\ \A n \in used : Whole(heap, n) /\ Rich(heap, n)
    BY <2>1, <2>2, LoadFacts, Zenon
  <2> QED  BY <2>1, <2>3, Settled
<1> QED  BY <1>1, <1>2, <1>3, <1>4, <1>5 DEF LoadSteps

-----------------------------------------------------------------------------
(* The tree keeps its structure.                                            *)

\* Every step keeps the invariant.
LEMMA NextStructure == ASSUME SInv, [Next]_vars PROVE SInv'
<1>1. IInv'
  BY NextInv DEF SInv
<1>2. CASE UNCHANGED vars
  <2>1. UNCHANGED <<root, heap, used, call, pc, node, target, trace, pos, current>>
    BY <1>2 DEF vars, memory, locals
  <2>2. Linked' = Linked
    BY <2>1 DEF Linked
  <2>3. Shape' /\ Cursors' /\ Current'
    BY <2>1, <2>2 DEF SInv, Structure, Shape, Cursors, Current
  <2>4. Filled'
    BY <2>1 DEF SInv, Structure, Filled, Emptied
  <2>5. Enough' /\ LoadFull'
    BY <2>1, <2>2 DEF SInv, Structure, Enough, LoadFull
  <2> QED  BY <1>1, <2>3, <2>4, <2>5 DEF SInv, Structure
<1>3. CASE Call
  BY <1>1, <1>3, CallStructure DEF SInv
<1>4. CASE Run
  <2>1. Structure'
    BY <1>4, SearchStructure, InsertStructure, RemoveStructure, RebalanceStructure, LoadStructure,
       IterateStructure, DestroyStructure DEF Run
  <2> QED  BY <1>1, <2>1 DEF SInv
<1> QED  BY <1>2, <1>3, <1>4 DEF Next

\* Whatever calls come and in whatever order, in every state the program gets to: the nodes
\* handed out form one tree, but for the node a bulk load is filling, the cursors of
\* t-tree.c point into it, and only the node a call is about to refill, merge or free may
\* be empty or short of records.
THEOREM StructureHolds == Spec => []SInv
<1>1. Init => SInv
  BY InitStructure
<1>2. SInv /\ [Next]_vars => SInv'
  BY NextStructure
<1> QED  BY <1>1, <1>2, PTL DEF Spec

\* Between calls a node with two children holds at least MinLen records, in trees of every
\* node size: removals refill it, and so does the first rotation on the way up.
THEOREM MinimumLength == Spec => []InternalMinLen
<1>1. SInv => InternalMinLen
  <2> SUFFICES ASSUME SInv, Idle, NEW n \in used, Kind(heap, n) = "internal"
               PROVE  Length(heap, n) >= MinLen
    BY DEF InternalMinLen
  <2>1. Rich(heap, n)
    BY Calm DEF Idle
  <2> QED  BY <2>1, Kinds DEF Rich
<1> QED  BY <1>1, StructureHolds, PTL

\* Between calls every node holds records, and its last_id is the ID of the last of them: the
\* half of CopiesExact that the searches rely on.
THEOREM LastIDCopied == Spec => []LastIDExact
<1>1. SInv => LastIDExact
  BY Calm DEF LastIDExact, Idle, Whole
<1> QED  BY <1>1, StructureHolds, PTL

-----------------------------------------------------------------------------
(* What the tree reaches.                                                   *)

\* A set that holds every node whose lower nodes it holds holds them all.
LEMMA RankInduction ==
    ASSUME NEW rank, \A m \in Nodes : rank[m] \in Nat, NEW P,
           \A n \in Nodes : (\A m \in Nodes : rank[m] < rank[n] => m \in P) => n \in P
    PROVE  Nodes \subseteq P
<1> DEFINE D == {rank[x] : x \in Nodes \ P}
<1> SUFFICES ASSUME Nodes \ P # {} PROVE FALSE
  OBVIOUS
<1>1. D \subseteq Nat /\ D # {}
  OBVIOUS
<1>2. PICK d \in D : \A y \in D : d <= y
  <2> HIDE DEF D
  <2> QED  BY <1>1, LeastNumber, Zenon
<1>3. PICK x \in Nodes \ P : d = rank[x]
  OBVIOUS
<1>4. PICK m \in Nodes : rank[m] < rank[x] /\ m \notin P
  BY <1>3
<1>5. rank[m] \in D /\ d <= rank[m]
  BY <1>2, <1>4
<1> QED  BY <1>3, <1>4, <1>5

\* A tree whose nodes know the nodes below them.
Knows(L, R, B) ==
    /\ B \in [Ptr -> SUBSET Nodes] /\ B[NIL] = {}
    /\ \A m \in Nodes : B[m] = B[L[m]] \cup {m} \cup B[R[m]]

\* Below the root is the whole tree, and what is below a node is there once.
LEMMA BelowFacts ==
    ASSUME NEW L \in Links, NEW R \in Links, NEW S, NEW r, IsTree(L, R, S, r), NEW B, Knows(L, R, B)
    PROVE  /\ B[r] = S
           /\ \A n \in Nodes : n \notin B[L[n]] /\ n \notin B[R[n]] /\ B[L[n]] \cap B[R[n]] = {}
<1>1. PICK up, rank, b : Tree(L, R, S, r, up, rank, b)
  BY DEF IsTree
<1>2. /\ S \subseteq Nodes /\ NIL \notin S
      /\ \A m \in Nodes : L[m] # NIL => L[m] \in S /\ m \in S /\ up[L[m]] = m /\ rank[L[m]] < rank[m]
      /\ \A m \in Nodes : R[m] # NIL => R[m] \in S /\ m \in S /\ up[R[m]] = m /\ rank[R[m]] < rank[m]
      /\ \A m \in Nodes : L[m] = R[m] => L[m] = NIL
      /\ \A m \in Nodes : rank[m] \in Nat
  BY <1>1, TreeFacts
<1>3. /\ B[NIL] = {} /\ \A m \in Nodes : B[m] = B[L[m]] \cup {m} \cup B[R[m]]
      /\ \A m \in Nodes : B[m] \subseteq Nodes /\ m \in B[m]
  BY DEF Knows, Ptr
<1>4. \A m \in Nodes : L[m] \in Ptr /\ R[m] \in Ptr
  BY DEF Links
<1>5. \A n \in Nodes : \A m \in B[n] :
         /\ \A x \in {L[m], R[m]} : x # NIL => x \in B[n]
         /\ m # n => up[m] \in B[n] /\ rank[m] < rank[n]
         /\ n \in S => m \in S
  <2> DEFINE P == {n \in Nodes : \A m \in B[n] :
                     /\ \A x \in {L[m], R[m]} : x # NIL => x \in B[n]
                     /\ m # n => up[m] \in B[n] /\ rank[m] < rank[n]
                     /\ n \in S => m \in S}
  <2>1. ASSUME NEW n \in Nodes, \A m \in Nodes : rank[m] < rank[n] => m \in P
        PROVE  n \in P
    <3> SUFFICES ASSUME NEW m \in B[n]
                 PROVE  /\ \A x \in {L[m], R[m]} : x # NIL => x \in B[n]
                        /\ m # n => up[m] \in B[n] /\ rank[m] < rank[n]
                        /\ n \in S => m \in S
      OBVIOUS
    <3>1. CASE m = n
      <4>1. \A x \in {L[n], R[n]} : x # NIL => x \in Nodes /\ x \in B[x]
        BY <1>2, <1>3
      <4> QED  BY <1>3, <3>1, <4>1
    <3>2. ASSUME NEW c \in {L[n], R[n]}, c # NIL, m \in B[c]
          PROVE  /\ \A x \in {L[m], R[m]} : x # NIL => x \in B[n]
                 /\ m # n => up[m] \in B[n] /\ rank[m] < rank[n]
                 /\ n \in S => m \in S
      <4>1. c \in S /\ c \in Nodes /\ rank[c] < rank[n] /\ up[c] = n /\ B[c] \subseteq B[n] /\ n \in B[n]
        BY <1>2, <1>3, <3>2
      <4>2. c \in P
        BY <2>1, <4>1
      <4>3. /\ \A x \in {L[m], R[m]} : x # NIL => x \in B[c]
            /\ m # c => up[m] \in B[c] /\ rank[m] < rank[c]
            /\ m \in S
        BY <3>2, <4>1, <4>2
      <4>4. \A x \in {L[m], R[m]} : x # NIL => x \in B[n]
        BY <4>1, <4>3
      <4>5. CASE m = c
        BY <4>1, <4>4, <4>5
      <4>6. CASE m # c
        <5>1. up[m] \in B[n] /\ rank[m] < rank[c]
          BY <4>1, <4>3, <4>6
        <5>2. rank[m] \in Nat /\ rank[c] \in Nat /\ rank[n] \in Nat
          BY <1>2, <4>1, <4>3
        <5>3. rank[m] < rank[n]
          BY <4>1, <5>1, <5>2
        <5> QED  BY <4>3, <4>4, <5>1, <5>3
      <4> QED  BY <4>5, <4>6
    <3>3. m = n \/ (L[n] # NIL /\ m \in B[L[n]]) \/ (R[n] # NIL /\ m \in B[R[n]])
      BY <1>3
    <3> QED  BY <3>1, <3>2, <3>3
  <2>2. Nodes \subseteq P
    <3> HIDE DEF P
    <3> QED  BY <1>2, <2>1, RankInduction
  <2> QED  BY <2>2
<1>6. B[r] = S
  <2>1. CASE S = {}
    <3>1. r = NIL
      BY <1>1, <2>1 DEF Tree
    <3> QED  BY <1>3, <2>1, <3>1
  <2>2. CASE S # {}
    <3>1. r \in S /\ r \in Nodes
      BY <1>1, <1>2, <2>2 DEF Tree
    <3>2. B[r] \subseteq S
      BY <1>5, <3>1
    <3>3. \A m \in S, x \in S : m \in B[r] /\ x \in {L[m], R[m]} => x \in B[r]
      BY <1>2, <1>5, <3>1
    <3>4. PICK P : P = B[r]
      OBVIOUS
    <3>5. S \subseteq P
      <4>1. (S # {} => r \in P) /\ \A m \in S, x \in S : m \in P /\ x \in {L[m], R[m]} => x \in P
        BY <1>3, <3>1, <3>3, <3>4
      <4> QED  BY <4>1, Reach
    <3> QED  BY <3>2, <3>4, <3>5
  <2> QED  BY <2>1, <2>2
<1>7. ASSUME NEW n \in Nodes
      PROVE  n \notin B[L[n]] /\ n \notin B[R[n]]
  <2>1. ASSUME NEW c \in {L[n], R[n]}, n \in B[c] PROVE FALSE
    <3>1. c # NIL
      BY <1>3, <2>1
    <3>2. c \in Nodes /\ rank[c] < rank[n] /\ rank[c] \in Nat /\ rank[n] \in Nat
      BY <1>2, <3>1
    <3>3. n # c => rank[n] < rank[c]
      BY <1>5, <2>1, <3>2
    <3> QED  BY <3>2, <3>3
  <2> QED  BY <2>1
<1>8. ASSUME NEW n \in Nodes
      PROVE  B[L[n]] \cap B[R[n]] = {}
  <2> DEFINE P == {m \in Nodes : ~(m \in B[L[n]] /\ m \in B[R[n]])}
             low == [m \in Nodes |-> b - rank[m]]
  <2>1. CASE L[n] = NIL \/ R[n] = NIL
    BY <1>3, <2>1
  <2>2. CASE L[n] # NIL /\ R[n] # NIL
    <3>1. L[n] \in Nodes /\ R[n] \in Nodes /\ L[n] # R[n] /\ up[L[n]] = n /\ up[R[n]] = n
      BY <1>2, <2>2
    <3>2. \A m \in Nodes : low[m] = b - rank[m] /\ low[m] \in Nat
      BY <1>1 DEF Tree
    <3>3. ASSUME NEW m \in Nodes, \A x \in Nodes : low[x] < low[m] => x \in P
          PROVE  m \in P
      <4> SUFFICES ASSUME m \in B[L[n]], m \in B[R[n]] PROVE FALSE
        OBVIOUS
      <4>1. m # L[n]
        BY <1>5, <1>7, <3>1
      <4>2. m # R[n]
        BY <1>5, <1>7, <3>1
      <4>3. up[m] \in B[L[n]] /\ up[m] \in B[R[n]]
        BY <1>5, <3>1, <4>1, <4>2
      <4>4. up[m] \in Nodes /\ m \in S
        BY <1>2, <1>3, <1>5, <2>2, <3>1, <4>3
      <4>5. m # r
        <5>1. r # NIL => up[r] = NIL
          BY <1>1 DEF Tree
        <5> QED  BY <1>2, <4>4, <5>1, NILAssumption
      <4>6. rank[m] < rank[up[m]]
        <5>1. m \in {L[up[m]], R[up[m]]}
          BY <1>1, <4>4, <4>5 DEF Tree
        <5> QED  BY <1>2, <4>4, <5>1
      <4>7. low[up[m]] < low[m]
        <5>1. b \in Nat /\ rank[m] \in Nat /\ rank[up[m]] \in Nat
          BY <1>1, <1>2, <4>4 DEF Tree
        <5> QED  BY <3>2, <4>4, <4>6, <5>1
      <4> HIDE DEF low
      <4>8. up[m] \in P
        BY <3>3, <4>4, <4>7
      <4> QED  BY <4>3, <4>8
    <3>4. Nodes \subseteq P
      <4> HIDE DEF P, low
      <4> QED  BY <3>2, <3>3, RankInduction
    <3> QED  BY <1>3, <3>1, <3>4
  <2> QED  BY <2>1, <2>2
<1> QED  BY <1>6, <1>7, <1>8

\* What two sequences of nodes and a node between them hold.
LEMMA JoinSet ==
    ASSUME NEW s \in Seq(Nodes), NEW t \in Seq(Nodes), NEW n \in Nodes
    PROVE  /\ s \o <<n>> \o t \in Seq(Nodes)
           /\ ToSet(s \o <<n>> \o t) = ToSet(s) \cup {n} \cup ToSet(t)
           /\ IsInjective(s) /\ IsInjective(t) /\ n \notin ToSet(s) /\ n \notin ToSet(t)
              /\ ToSet(s) \cap ToSet(t) = {} => IsInjective(s \o <<n>> \o t)
<1> DEFINE j == s \o <<n>> \o t
           k == Len(s)
           l == Len(t)
<1>1. j \in Seq(Nodes) /\ Len(j) = k + 1 + l /\ k \in Nat /\ l \in Nat
  BY BetweenType, LenProperties
<1>2. DOMAIN j = 1 .. (k + 1 + l) /\ DOMAIN s = 1 .. k /\ DOMAIN t = 1 .. l
  <2>1. DOMAIN j = 1 .. Len(j)
    <3> HIDE DEF j
    <3> QED  BY <1>1, LenProperties
  <2> QED  BY <1>1, <2>1, LenProperties
<1>3. /\ \A i \in 1 .. k : j[i] = s[i]
      /\ j[k + 1] = n
      /\ \A i \in 1 .. l : j[k + 1 + i] = t[i]
  <2>1. s \o <<n>> \in Seq(Nodes) /\ Len(s \o <<n>>) = k + 1
        /\ \A i \in 1 .. k + 1 : (s \o <<n>>)[i] = IF i <= k THEN s[i] ELSE n
    <3>1. <<n>> \in Seq(Nodes) /\ Len(<<n>>) = 1 /\ <<n>>[1] = n
      OBVIOUS
    <3>2. /\ s \o <<n>> \in Seq(Nodes) /\ Len(s \o <<n>>) = Len(s) + Len(<<n>>)
          /\ \A i \in 1 .. Len(s) + Len(<<n>>) :
                (s \o <<n>>)[i] = IF i <= Len(s) THEN s[i] ELSE <<n>>[i - Len(s)]
      BY <3>1, ConcatProperties
    <3>3. \A i \in 1 .. k + 1 : ~(i <= k) => i - k = 1
      BY <1>1
    <3> QED  BY <1>1, <3>1, <3>2, <3>3, Zenon
  <2>2. PICK v : v = s \o <<n>>
    BY Zenon
  <2>3. v \in Seq(Nodes) /\ Len(v) = k + 1 /\ \A i \in 1 .. k + 1 : v[i] = IF i <= k THEN s[i] ELSE n
    BY <2>1, <2>2
  <2>4. \A i \in 1 .. Len(v) + Len(t) : (v \o t)[i] = IF i <= Len(v) THEN v[i] ELSE t[i - Len(v)]
    BY <2>3, ConcatProperties
  <2>5. j = v \o t
    BY <2>2
  <2> HIDE DEF j
  <2>6. \A i \in 1 .. k + 1 + l : j[i] = IF i <= k + 1 THEN v[i] ELSE t[i - (k + 1)]
    BY <2>3, <2>4, <2>5
  <2>7. \A i \in 1 .. k + 1 : i \in 1 .. k + 1 + l /\ i <= k + 1
    BY <1>1
  <2>8. \A i \in 1 .. l : k + 1 + i \in 1 .. k + 1 + l /\ ~(k + 1 + i <= k + 1) /\ (k + 1 + i) - (k + 1) = i
    BY <1>1
  <2>9. \A i \in 1 .. k : i \in 1 .. k + 1 /\ i <= k
    BY <1>1
  <2>10. k + 1 \in 1 .. k + 1 /\ ~(k + 1 <= k)
    BY <1>1
  <2> QED  BY <2>3, <2>6, <2>7, <2>8, <2>9, <2>10, Zenon
<1> HIDE DEF j
<1>4. \A i \in 1 .. (k + 1 + l) : \/ i \in 1 .. k
                                  \/ i = k + 1
                                  \/ i - (k + 1) \in 1 .. l /\ i = k + 1 + (i - (k + 1))
  BY <1>1
<1>5. /\ \A i \in 1 .. k : i \in 1 .. (k + 1 + l)
      /\ k + 1 \in 1 .. (k + 1 + l)
      /\ \A i \in 1 .. l : k + 1 + i \in 1 .. (k + 1 + l)
  BY <1>1
<1> HIDE DEF k, l
<1>6. ToSet(j) = ToSet(s) \cup {n} \cup ToSet(t)
  <2>1. ASSUME NEW x \in ToSet(j) PROVE x \in ToSet(s) \cup {n} \cup ToSet(t)
    <3>1. PICK i \in 1 .. (k + 1 + l) : x = j[i]
      BY <1>2 DEF ToSet
    <3>2. CASE i \in 1 .. k
      BY <1>2, <1>3, <3>1, <3>2 DEF ToSet
    <3>3. CASE i = k + 1
      BY <1>3, <3>1, <3>3
    <3>4. CASE i - (k + 1) \in 1 .. l /\ i = k + 1 + (i - (k + 1))
      <4>1. PICK y \in 1 .. l : i = k + 1 + y
        BY <3>4
      <4> QED  BY <1>2, <1>3, <3>1, <4>1 DEF ToSet
    <3> QED  BY <1>4, <3>2, <3>3, <3>4
  <2>2. ToSet(s) \subseteq ToSet(j)
    BY <1>2, <1>3, <1>5 DEF ToSet
  <2>3. n \in ToSet(j)
    BY <1>2, <1>3, <1>5 DEF ToSet
  <2>4. ToSet(t) \subseteq ToSet(j)
    <3> SUFFICES ASSUME NEW i \in 1 .. l PROVE t[i] \in ToSet(j)
      BY <1>2 DEF ToSet
    <3> QED  BY <1>2, <1>3, <1>5 DEF ToSet
  <2> QED  BY <2>1, <2>2, <2>3, <2>4
<1>7. ASSUME IsInjective(s), IsInjective(t), n \notin ToSet(s), n \notin ToSet(t),
             ToSet(s) \cap ToSet(t) = {}
      PROVE  IsInjective(j)
  <2>1. /\ \A x, y \in 1 .. k : s[x] = s[y] => x = y
        /\ \A x, y \in 1 .. l : t[x] = t[y] => x = y
        /\ \A x \in 1 .. k : s[x] # n
        /\ \A y \in 1 .. l : t[y] # n
        /\ \A x \in 1 .. k, y \in 1 .. l : s[x] # t[y]
    <3>1. \A x, y \in 1 .. k : s[x] = s[y] => x = y
      BY <1>2, <1>7 DEF IsInjective
    <3>2. \A x, y \in 1 .. l : t[x] = t[y] => x = y
      BY <1>2, <1>7 DEF IsInjective
    <3>3. \A x \in 1 .. k : s[x] \in ToSet(s)
      BY <1>2 DEF ToSet
    <3>4. \A y \in 1 .. l : t[y] \in ToSet(t)
      BY <1>2 DEF ToSet
    <3>5. \A x \in 1 .. k, y \in 1 .. l : s[x] # t[y]
      BY <1>7, <3>3, <3>4
    <3>6. (\A x \in 1 .. k : s[x] # n) /\ (\A y \in 1 .. l : t[y] # n)
      BY <1>7, <3>3, <3>4
    <3> QED  BY <3>1, <3>2, <3>5, <3>6
  <2>2. \A i \in 1 .. (k + 1 + l) : \/ i \in 1 .. k /\ j[i] = s[i]
                                    \/ i = k + 1 /\ j[i] = n
                                    \/ \E y \in 1 .. l : i = k + 1 + y /\ j[i] = t[y]
    BY <1>3, <1>4
  <2> SUFFICES ASSUME NEW a \in 1 .. (k + 1 + l), NEW c \in 1 .. (k + 1 + l), j[a] = j[c] PROVE a = c
    BY <1>2 DEF IsInjective
  <2>3. CASE a \in 1 .. k /\ j[a] = s[a]
    BY <2>1, <2>2, <2>3, Zenon
  <2>4. CASE a = k + 1 /\ j[a] = n
    BY <2>1, <2>2, <2>4
  <2>5. CASE \E y \in 1 .. l : a = k + 1 + y /\ j[a] = t[y]
    BY <2>1, <2>2, <2>5
  <2> QED  BY <2>2, <2>3, <2>4, <2>5
<1> QED  BY <1>1, <1>6, <1>7 DEF j

-----------------------------------------------------------------------------
(* NodesBelow.                                                              *)

\* f is the function that NodesBelow is defined by.
Unfolds(f, h) ==
    f = [m \in Ptr |-> IF m = NIL THEN <<>> ELSE f[h[m].left] \o <<m>> \o f[h[m].right]]

\* NodesBelow is that function.
LEMMA NodesBelowDef == ASSUME NEW n PROVE NodesBelow(n) = (CHOOSE f : Unfolds(f, heap))[n]
BY DEF NodesBelow, Unfolds

\* The children of a node have lower ranks, which end at b.
Ranked(h, rank, b) ==
    /\ b \in Nat
    /\ \A m \in Nodes :
          /\ rank[m] \in Nat /\ rank[m] <= b
          /\ h[m].left # NIL => h[m].left \in Nodes /\ rank[h[m].left] < rank[m]
          /\ h[m].right # NIL => h[m].right \in Nodes /\ rank[h[m].right] < rank[m]

\* A tree has ranks.
LEMMA TreeRanked ==
    ASSUME NEW h \in Heap, NEW S, NEW r, TreeOf(h, S, r)
    PROVE  \E rank, b : Ranked(h, rank, b)
<1>1. PICK up, rank, b : Tree(Lefts(h), Rights(h), S, r, up, rank, b)
  BY DEF TreeOf, IsTree
<1>2. Lefts(h) \in Links /\ Rights(h) \in Links
      /\ \A m \in Nodes : Lefts(h)[m] = h[m].left /\ Rights(h)[m] = h[m].right
  BY HeapLinks
<1>3. \A m \in Nodes : rank[m] \in Nat /\ rank[m] <= b /\ b \in Nat
  BY <1>1 DEF Tree
<1>4. /\ S \subseteq Nodes
      /\ \A m \in Nodes : Lefts(h)[m] # NIL => Lefts(h)[m] \in S /\ rank[Lefts(h)[m]] < rank[m]
      /\ \A m \in Nodes : Rights(h)[m] # NIL => Rights(h)[m] \in S /\ rank[Rights(h)[m]] < rank[m]
  BY <1>1, <1>2, TreeFacts
<1>5. b \in Nat
  BY <1>1 DEF Tree
<1>6. Ranked(h, rank, b)
  BY <1>2, <1>3, <1>4, <1>5 DEF Ranked
<1> QED  BY <1>6

\* f unfolds as far as the nodes of a rank below k.
Half(f, h, rank, k) ==
    /\ f \in [Ptr -> Seq(Nodes)] /\ f[NIL] = <<>>
    /\ \A m \in Nodes : rank[m] < k => f[m] = f[h[m].left] \o <<m>> \o f[h[m].right]

\* There is such a function, as the recursion goes down the ranks.
LEMMA HalfExists ==
    ASSUME NEW h \in Heap, NEW rank, NEW b, Ranked(h, rank, b)
    PROVE  \A k \in Nat : \E f : Half(f, h, rank, k)
<1> DEFINE Bad == {k \in Nat : ~\E f : Half(f, h, rank, k)}
<1> SUFFICES ASSUME Bad # {} PROVE FALSE
  OBVIOUS
<1>1. PICK k \in Bad : \A y \in Bad : k <= y
  <2>1. Bad \subseteq Nat
    OBVIOUS
  <2> HIDE DEF Bad
  <2> QED  BY <2>1, LeastNumber, Zenon
<1>2. k \in Nat /\ ~\E f : Half(f, h, rank, k)
  OBVIOUS
<1>3. CASE k = 0
  <2> DEFINE f == [m \in Ptr |-> <<>>]
  <2>1. f \in [Ptr -> Seq(Nodes)] /\ f[NIL] = <<>>
    BY DEF Ptr
  <2>2. \A m \in Nodes : ~(rank[m] < 0)
    BY DEF Ranked
  <2>3. Half(f, h, rank, 0)
    BY <2>1, <2>2, Zenon DEF Half
  <2> QED  BY <1>2, <1>3, <2>3
<1>4. CASE k > 0
  <2>1. k - 1 \in Nat /\ k - 1 \notin Bad
    BY <1>1, <1>2, <1>4
  <2>2. PICK f : Half(f, h, rank, k - 1)
    BY <2>1
  <2> HIDE DEF Bad
  <2> DEFINE g == [m \in Ptr |-> IF m # NIL /\ rank[m] = k - 1
                                 THEN f[h[m].left] \o <<m>> \o f[h[m].right] ELSE f[m]]
  <2>3. f \in [Ptr -> Seq(Nodes)] /\ \A m \in Nodes : h[m].left \in Ptr /\ h[m].right \in Ptr /\ m # NIL /\ m \in Ptr
    BY <2>2, HeapNode, NILAssumption DEF Half, Ptr
  <2>4. g \in [Ptr -> Seq(Nodes)]
    <3>1. \A m \in Nodes : f[h[m].left] \o <<m>> \o f[h[m].right] \in Seq(Nodes)
      BY <2>3, BetweenType
    <3> QED  BY <2>3, <3>1 DEF Ptr
  <2>5. g[NIL] = <<>>
    BY <2>2 DEF Ptr, Half
  <2>6. \A m \in Nodes : rank[m] = k - 1 => g[m] = f[h[m].left] \o <<m>> \o f[h[m].right]
    BY <2>3, Zenon
  <2>7. \A m \in Ptr : m = NIL \/ rank[m] # k - 1 => g[m] = f[m]
    OBVIOUS
  <2> HIDE DEF g
  <2>8. ASSUME NEW m \in Nodes, rank[m] < k
        PROVE  g[h[m].left] = f[h[m].left] /\ g[h[m].right] = f[h[m].right]
    <3>1. \A x \in Ptr : x # NIL /\ x \in Nodes /\ rank[x] < rank[m] => rank[x] # k - 1
      BY <1>2, <2>8 DEF Ranked
    <3>2. /\ h[m].left # NIL => h[m].left \in Nodes /\ rank[h[m].left] < rank[m]
          /\ h[m].right # NIL => h[m].right \in Nodes /\ rank[h[m].right] < rank[m]
      BY DEF Ranked
    <3> QED  BY <2>3, <2>7, <3>1, <3>2
  <2>9. ASSUME NEW m \in Nodes, rank[m] < k
        PROVE  g[m] = g[h[m].left] \o <<m>> \o g[h[m].right]
    <3>1. CASE rank[m] = k - 1
      BY <2>6, <2>8, <2>9, <3>1, Zenon
    <3>2. CASE rank[m] # k - 1
      <4>1. rank[m] < k - 1
        BY <1>2, <2>9, <3>2 DEF Ranked
      <4>2. f[m] = f[h[m].left] \o <<m>> \o f[h[m].right]
        BY <2>2, <4>1, Zenon DEF Half
      <4> QED  BY <2>3, <2>7, <2>8, <2>9, <3>2, <4>2, Zenon
    <3> QED  BY <3>1, <3>2, Zenon
  <2>10. Half(g, h, rank, k)
    BY <2>4, <2>5, <2>9, Zenon DEF Half
  <2> QED  BY <1>2, <2>10
<1> QED  BY <1>2, <1>3, <1>4

\* So NodesBelow is what its definition says, and gives sequences of nodes.
LEMMA NodesBelowUnfolds ==
    ASSUME heap \in Heap, NEW S, NEW r, TreeOf(heap, S, r)
    PROVE  /\ NodesBelow(NIL) = <<>>
           /\ \A m \in Nodes : NodesBelow(m) = NodesBelow(heap[m].left) \o <<m>> \o NodesBelow(heap[m].right)
           /\ \A m \in Ptr : NodesBelow(m) \in Seq(Nodes)
<1>1. PICK h : h = heap
  OBVIOUS
<1>2. PICK rank, b : Ranked(h, rank, b)
  BY <1>1, TreeRanked
<1>3. PICK f : Half(f, h, rank, b + 1)
  <2>1. b + 1 \in Nat /\ h \in Heap
    BY <1>1, <1>2 DEF Ranked
  <2> QED  BY <1>2, <2>1, HalfExists
<1>4. Unfolds(f, h)
  <2>1. f \in [Ptr -> Seq(Nodes)] /\ f[NIL] = <<>>
    BY <1>3 DEF Half
  <2>2. ASSUME NEW m \in Nodes PROVE f[m] = f[h[m].left] \o <<m>> \o f[h[m].right]
    <3>1. rank[m] < b + 1
      BY <1>2 DEF Ranked
    <3> QED  BY <1>3, <3>1, Zenon DEF Half
  <2>3. \A m \in Ptr : f[m] = IF m = NIL THEN <<>> ELSE f[h[m].left] \o <<m>> \o f[h[m].right]
    BY <2>1, <2>2, Zenon DEF Ptr
  <2>4. f = [m \in Ptr |-> f[m]]
    BY <2>1
  <2> QED  BY <2>3, <2>4, Zenon DEF Unfolds
<1> DEFINE w == CHOOSE x : Unfolds(x, h)
<1>5. Unfolds(w, h)
  BY <1>4
<1>6. \A n : NodesBelow(n) = w[n]
  BY <1>1, NodesBelowDef
<1> HIDE DEF w
<1>7. \A m \in Ptr : w[m] = IF m = NIL THEN <<>> ELSE w[h[m].left] \o <<m>> \o w[h[m].right]
  BY <1>5, Zenon DEF Unfolds
<1>8. w[NIL] = <<>> /\ \A m \in Nodes : w[m] = w[h[m].left] \o <<m>> \o w[h[m].right]
  BY <1>7, NILAssumption, Zenon DEF Ptr
<1>e. w[NIL] \in Seq(Nodes)
  <2>1. <<>> \in Seq(Nodes)
    OBVIOUS
  <2> QED  BY <1>8, <2>1
<1>9. \A m \in Nodes : w[m] \in Seq(Nodes)
  <2> DEFINE P == {m \in Nodes : w[m] \in Seq(Nodes)}
  <2>1. ASSUME NEW n \in Nodes, \A m \in Nodes : rank[m] < rank[n] => m \in P
        PROVE  n \in P
    <3>1. w[h[n].left] \in Seq(Nodes)
      <4>1. CASE h[n].left = NIL
        BY <1>e, <4>1
      <4>2. CASE h[n].left # NIL
        BY <1>2, <2>1, <4>2 DEF Ranked
      <4> QED  BY <4>1, <4>2
    <3>2. w[h[n].right] \in Seq(Nodes)
      <4>1. CASE h[n].right = NIL
        BY <1>e, <4>1
      <4>2. CASE h[n].right # NIL
        BY <1>2, <2>1, <4>2 DEF Ranked
      <4> QED  BY <4>1, <4>2
    <3> QED  BY <1>8, <3>1, <3>2, BetweenType, Zenon
  <2>2. \A m \in Nodes : rank[m] \in Nat
    BY <1>2 DEF Ranked
  <2>3. Nodes \subseteq P
    <3> HIDE DEF P
    <3> QED  BY <2>1, <2>2, RankInduction
  <2> QED  BY <2>3
<1>10. NodesBelow(NIL) = <<>>
  BY <1>6, <1>8
<1>11. ASSUME NEW m \in Nodes
       PROVE  NodesBelow(m) = NodesBelow(heap[m].left) \o <<m>> \o NodesBelow(heap[m].right)
  <2>1. w[m] = w[heap[m].left] \o <<m>> \o w[heap[m].right]
    BY <1>1, <1>8, Zenon
  <2>2. NodesBelow(m) = w[m] /\ NodesBelow(heap[m].left) = w[heap[m].left]
        /\ NodesBelow(heap[m].right) = w[heap[m].right]
    BY <1>6
  <2> QED  BY <2>1, <2>2
<1>12. ASSUME NEW m \in Ptr PROVE NodesBelow(m) \in Seq(Nodes)
  <2>1. w[m] \in Seq(Nodes)
    BY <1>e, <1>9 DEF Ptr
  <2> QED  BY <1>6, <2>1
<1> QED  BY <1>10, <1>11, <1>12

\* From the root of a tree it visits every node of the tree, once.
LEMMA NodesBelowTree ==
    ASSUME heap \in Heap, NEW S, NEW r \in Ptr, TreeOf(heap, S, r)
    PROVE  IsInjective(NodesBelow(r)) /\ ToSet(NodesBelow(r)) = S
<1> DEFINE w == [m \in Ptr |-> NodesBelow(m)]
           B == [m \in Ptr |-> ToSet(NodesBelow(m))]
<1>1. PICK L, R : L = Lefts(heap) /\ R = Rights(heap)
  OBVIOUS
<1>2. /\ L \in Links /\ R \in Links /\ IsTree(L, R, S, r)
      /\ \A m \in Nodes : L[m] = heap[m].left /\ R[m] = heap[m].right
  BY <1>1, HeapLinks DEF TreeOf
<1>3. \A m \in Nodes : L[m] \in Ptr /\ R[m] \in Ptr /\ m \in Ptr
  BY <1>2 DEF Links, Ptr
<1>4. /\ w[NIL] = <<>> /\ NIL \in Ptr
      /\ \A m \in Nodes : w[m] = w[L[m]] \o <<m>> \o w[R[m]]
      /\ \A m \in Ptr : w[m] \in Seq(Nodes)
  BY <1>2, <1>3, NodesBelowUnfolds, Zenon DEF Ptr
<1>5. \A m \in Ptr : w[m] = NodesBelow(m) /\ B[m] = ToSet(w[m])
  OBVIOUS
<1>6. B \in [Ptr -> SUBSET Nodes]
  <2>1. \A s \in Seq(Nodes) : ToSet(s) \subseteq Nodes
    BY ElementOfSeq, LenProperties DEF ToSet
  <2>2. \A m \in Ptr : B[m] \in SUBSET Nodes
    <3> HIDE DEF B, w
    <3> QED  BY <1>4, <1>5, <2>1
  <2> QED  BY <2>2
<1> HIDE DEF w, B
<1>7. B[NIL] = {}
  <2>1. ToSet(<<>>) = {}
    BY DEF ToSet
  <2> QED  BY <1>4, <1>5, <2>1
<1>8. \A m \in Nodes : B[m] = B[L[m]] \cup {m} \cup B[R[m]]
  <2> SUFFICES ASSUME NEW m \in Nodes PROVE B[m] = B[L[m]] \cup {m} \cup B[R[m]]
    OBVIOUS
  <2>1. w[L[m]] \in Seq(Nodes) /\ w[R[m]] \in Seq(Nodes)
    BY <1>3, <1>4
  <2>2. ToSet(w[L[m]] \o <<m>> \o w[R[m]]) = ToSet(w[L[m]]) \cup {m} \cup ToSet(w[R[m]])
    BY <2>1, JoinSet
  <2>3. B[m] = ToSet(w[m]) /\ B[L[m]] = ToSet(w[L[m]]) /\ B[R[m]] = ToSet(w[R[m]])
    BY <1>3, <1>5
  <2>4. w[m] = w[L[m]] \o <<m>> \o w[R[m]]
    BY <1>4, Zenon
  <2> QED  BY <2>2, <2>3, <2>4
<1>9. Knows(L, R, B)
  BY <1>6, <1>7, <1>8 DEF Knows
<1>10. /\ B[r] = S
       /\ \A n \in Nodes : n \notin B[L[n]] /\ n \notin B[R[n]] /\ B[L[n]] \cap B[R[n]] = {}
  BY <1>2, <1>9, BelowFacts
<1>11. PICK rank, b : Ranked(heap, rank, b)
  BY TreeRanked
<1>12. IsInjective(w[NIL])
  BY <1>4 DEF IsInjective
<1>13. \A m \in Nodes : IsInjective(w[m])
  <2> DEFINE P == {m \in Nodes : IsInjective(w[m])}
  <2>1. ASSUME NEW n \in Nodes, \A m \in Nodes : rank[m] < rank[n] => m \in P
        PROVE  n \in P
    <3>1. IsInjective(w[L[n]])
      <4>1. CASE L[n] = NIL
        BY <1>12, <4>1
      <4>2. CASE L[n] # NIL
        BY <1>2, <1>11, <2>1, <4>2 DEF Ranked
      <4> QED  BY <4>1, <4>2
    <3>2. IsInjective(w[R[n]])
      <4>1. CASE R[n] = NIL
        BY <1>12, <4>1
      <4>2. CASE R[n] # NIL
        BY <1>2, <1>11, <2>1, <4>2 DEF Ranked
      <4> QED  BY <4>1, <4>2
    <3>3. IsInjective(w[L[n]] \o <<n>> \o w[R[n]])
      <4>1. w[L[n]] \in Seq(Nodes) /\ w[R[n]] \in Seq(Nodes)
        BY <1>3, <1>4
      <4>2. B[L[n]] = ToSet(w[L[n]]) /\ B[R[n]] = ToSet(w[R[n]])
        BY <1>3, <1>5
      <4>3. n \notin ToSet(w[L[n]]) /\ n \notin ToSet(w[R[n]]) /\ ToSet(w[L[n]]) \cap ToSet(w[R[n]]) = {}
        BY <1>10, <4>2
      <4> QED  BY <3>1, <3>2, <4>1, <4>3, JoinSet
    <3> QED  BY <1>4, <3>3, Zenon
  <2>2. \A m \in Nodes : rank[m] \in Nat
    BY <1>11 DEF Ranked
  <2>3. Nodes \subseteq P
    <3> HIDE DEF P
    <3> QED  BY <2>1, <2>2, RankInduction
  <2> QED  BY <2>3
<1> QED  BY <1>5, <1>10, <1>12, <1>13 DEF Ptr

\* Between calls every node the allocator handed out is in the tree, and in one place of it:
\* whatever calls came before, no node is leaked, linked twice or freed while it is linked.
THEOREM NothingLeaked == Spec => []NoLeak
<1>1. SInv => NoLeak
  <2> SUFFICES ASSUME SInv, Idle PROVE IsInjective(NodesBelow(root)) /\ ToSet(NodesBelow(root)) = used
    BY DEF NoLeak
  <2>1. TreeOf(heap, used, root) /\ heap \in Heap /\ root \in Ptr
    BY Calm DEF Idle, SInv, IInv, TypeOK
  <2> QED  BY <2>1, NodesBelowTree
<1> QED  BY <1>1, StructureHolds, PTL

-----------------------------------------------------------------------------
(* Search trees, by their pointers and keys alone.  L, R: the left and the  *)
(* right pointers, K the keys of each node, S the nodes of the tree.  A     *)
(* division gives every node a span of the keys; what the helpers do to a   *)
(* tree is told by what they do to a division.                              *)

\* Every key of X is less than every key of Y.
Below(X, Y) == \A x \in X, y \in Y : x < y

\* The keys can be divided among the nodes of S: each node's span holds its own keys, what lies left of it spans
\* keys of its span less than its own, what lies right of it greater ones. Some division exists exactly when the
\* tree is a search tree; unlike the in-order traversal it says so node by node, so a step need only mend it
\* where it writes.
Spans(L, R, K, S, span) ==
    /\ span \in [Nodes -> SUBSET ID]
    /\ \A n \in S : K[n] \subseteq span[n]
    /\ \A n \in S : L[n] # NIL => span[L[n]] \subseteq span[n] /\ Below(span[L[n]], K[n])
    /\ \A n \in S : R[n] # NIL => span[R[n]] \subseteq span[n] /\ Below(K[n], span[R[n]])

\* Cutting links and dropping keys or nodes leaves a division of the keys good.
LEMMA SpansPrune ==
    ASSUME NEW L, NEW R, NEW K, NEW S, NEW span, Spans(L, R, K, S, span),
           NEW L2, NEW R2, NEW K2, NEW S2, S2 \subseteq S,
           \A m \in S2 : L2[m] \in {L[m], NIL} /\ R2[m] \in {R[m], NIL} /\ K2[m] \subseteq K[m]
    PROVE  Spans(L2, R2, K2, S2, span)
BY DEF Spans, Below

\* A node's span may grow by keys that whoever points to the node has in its own span, on the right side of its
\* keys.
LEMMA SpansWiden ==
    ASSUME NEW L \in Links, NEW R \in Links, NEW K, NEW S, NEW span, Spans(L, R, K, S, span), S \subseteq Nodes,
           NEW c \in Nodes, NEW C \in SUBSET ID,
           \A m \in S : L[m] = c => C \subseteq span[m] /\ Below(C, K[m]),
           \A m \in S : R[m] = c => C \subseteq span[m] /\ Below(K[m], C)
    PROVE  Spans(L, R, K, S, [span EXCEPT ![c] = @ \cup C])
<1> DEFINE sp == [span EXCEPT ![c] = @ \cup C]
<1>1. \A m \in Nodes : sp[m] = IF m = c THEN span[m] \cup C ELSE span[m]
  BY Zenon DEF Spans
<1>2. sp \in [Nodes -> SUBSET ID]
  BY DEF Spans
<1> HIDE DEF sp
<1>3. \A n \in S : K[n] \subseteq sp[n]
  BY <1>1, Zenon DEF Spans
<1>4. \A n \in S : L[n] # NIL => sp[L[n]] \subseteq sp[n] /\ Below(sp[L[n]], K[n])
  <2> SUFFICES ASSUME NEW n \in S, L[n] # NIL
               PROVE  sp[L[n]] \subseteq sp[n] /\ Below(sp[L[n]], K[n])
    OBVIOUS
  <2>1. span[L[n]] \subseteq span[n] /\ Below(span[L[n]], K[n]) /\ L[n] \in Nodes /\ span[n] \subseteq sp[n]
    BY <1>1, Zenon DEF Spans, Links, Ptr
  <2>2. CASE L[n] = c
    BY <1>1, <2>1, <2>2, Zenon DEF Below
  <2>3. CASE L[n] # c
    BY <1>1, <2>1, <2>3, Zenon
  <2> QED  BY <2>2, <2>3
<1>5. \A n \in S : R[n] # NIL => sp[R[n]] \subseteq sp[n] /\ Below(K[n], sp[R[n]])
  <2> SUFFICES ASSUME NEW n \in S, R[n] # NIL
               PROVE  sp[R[n]] \subseteq sp[n] /\ Below(K[n], sp[R[n]])
    OBVIOUS
  <2>1. span[R[n]] \subseteq span[n] /\ Below(K[n], span[R[n]]) /\ R[n] \in Nodes /\ span[n] \subseteq sp[n]
    BY <1>1, Zenon DEF Spans, Links, Ptr
  <2>2. CASE R[n] = c
    BY <1>1, <2>1, <2>2, Zenon DEF Below
  <2>3. CASE R[n] # c
    BY <1>1, <2>1, <2>3, Zenon
  <2> QED  BY <2>2, <2>3
<1> QED  BY <1>2, <1>3, <1>4, <1>5, Zenon DEF Spans, sp

\* A node may take keys of its own span that lie between the spans of its children (insert into a node).
LEMMA SpansKeys ==
    ASSUME NEW L, NEW R, NEW K, NEW S, NEW span, Spans(L, R, K, S, span),
           NEW n \in S, NEW K2, NEW C, C \subseteq span[n],
           \A m \in S : m # n => K2[m] \subseteq K[m],
           K2[n] \subseteq K[n] \cup C,
           L[n] # NIL => Below(span[L[n]], C),
           R[n] # NIL => Below(C, span[R[n]])
    PROVE  Spans(L, R, K2, S, span)
BY DEF Spans, Below

\* A new leaf may take as its span keys of its parent's span on the right side of the parent's keys.
LEMMA SpansPlant ==
    ASSUME NEW L \in Links, NEW R \in Links, NEW K, NEW S, NEW span, Spans(L, R, K, S, span), S \subseteq Nodes,
           NEW p \in S, NEW f \in Nodes \ S, \A m \in S : f \notin {L[m], R[m]},
           NEW L2, NEW R2, NEW K2, L2[f] = NIL, R2[f] = NIL,
           NEW F \in SUBSET ID, F \subseteq span[p], K2[f] \subseteq F,
           \A m \in S : K2[m] \subseteq K[m],
           \A m \in S : L2[m] = L[m] \/ (m = p /\ L2[m] = f /\ Below(F, K[p])),
           \A m \in S : R2[m] = R[m] \/ (m = p /\ R2[m] = f /\ Below(K[p], F))
    PROVE  Spans(L2, R2, K2, S \cup {f}, [span EXCEPT ![f] = F])
<1> DEFINE sp == [span EXCEPT ![f] = F]
<1>1. \A m \in Nodes : sp[m] = IF m = f THEN F ELSE span[m]
  BY DEF Spans
<1>2. sp \in [Nodes -> SUBSET ID]
  BY DEF Spans
<1> HIDE DEF sp
<1>3. \A n \in S \cup {f} : K2[n] \subseteq sp[n]
  BY <1>1 DEF Spans
<1>4. \A n \in S \cup {f} : L2[n] # NIL => sp[L2[n]] \subseteq sp[n] /\ Below(sp[L2[n]], K2[n])
  BY <1>1 DEF Spans, Below, Links, Ptr
<1>5. \A n \in S \cup {f} : R2[n] # NIL => sp[R2[n]] \subseteq sp[n] /\ Below(K2[n], sp[R2[n]])
  BY <1>1 DEF Spans, Below, Links, Ptr
<1> QED  BY <1>2, <1>3, <1>4, <1>5 DEF Spans, sp

\* Node n and its child c become one node l with the keys of both; a is left out, and whoever pointed to n points
\* to l (__ttree_node_merge of a half-leaf and its only child).
MergesTo(L, R, K, S, n, c, l, a, L2, R2, K2) ==
    /\ n \in S /\ c \in S /\ c \in {L[n], R[n]} /\ l # a
    /\ (l = n /\ a = c) \/ (l = c /\ a = n)
    /\ L2[l] = NIL /\ R2[l] = NIL /\ K2[l] \subseteq K[n] \cup K[c]
    /\ \A m \in S \ {n, c} : K2[m] \subseteq K[m] /\ c \notin {L[m], R[m]}
    /\ \A m \in S \ {n, c} : (L2[m] = L[m] /\ L[m] # n) \/ (L[m] = n /\ L2[m] = l)
    /\ \A m \in S \ {n, c} : (R2[m] = R[m] /\ R[m] # n) \/ (R[m] = n /\ R2[m] = l)

\* Merging two nodes into one keeps the keys divided.
LEMMA SpansMerge ==
    ASSUME NEW L \in Links, NEW R \in Links, NEW K, NEW S, NEW span, Spans(L, R, K, S, span), S \subseteq Nodes,
           NEW n, NEW c, NEW l, NEW a, NEW L2, NEW R2, NEW K2, MergesTo(L, R, K, S, n, c, l, a, L2, R2, K2)
    PROVE  \E merged : Spans(L2, R2, K2, S \ {a}, merged)
<1>0. /\ n \in S /\ c \in S /\ c \in {L[n], R[n]} /\ l # a
      /\ (l = n /\ a = c) \/ (l = c /\ a = n)
      /\ L2[l] = NIL /\ R2[l] = NIL /\ K2[l] \subseteq K[n] \cup K[c]
      /\ \A m \in S \ {n, c} : K2[m] \subseteq K[m] /\ c \notin {L[m], R[m]}
      /\ \A m \in S \ {n, c} : (L2[m] = L[m] /\ L[m] # n) \/ (L[m] = n /\ L2[m] = l)
      /\ \A m \in S \ {n, c} : (R2[m] = R[m] /\ R[m] # n) \/ (R[m] = n /\ R2[m] = l)
  BY DEF MergesTo
<1> DEFINE sp == [span EXCEPT ![l] = span[n]]
<1>1. \A m \in Nodes : sp[m] = IF m = l THEN span[n] ELSE span[m]
  BY <1>0 DEF Spans
<1>2. sp \in [Nodes -> SUBSET ID]
  BY <1>0 DEF Spans
<1> HIDE DEF sp
<1>6. c # NIL /\ span[c] \subseteq span[n]
  BY <1>0, NILAssumption DEF Spans
<1>7. \A m \in S \ {a} : m = l \/ m \in S \ {n, c}
  BY <1>0
<1>3. \A m \in S \ {a} : K2[m] \subseteq sp[m]
  BY <1>0, <1>1, <1>6, <1>7 DEF Spans
<1>4. \A m \in S \ {a} : L2[m] # NIL => sp[L2[m]] \subseteq sp[m] /\ Below(sp[L2[m]], K2[m])
  BY <1>0, <1>1, <1>7, NILAssumption DEF Spans, Below, Links, Ptr
<1>5. \A m \in S \ {a} : R2[m] # NIL => sp[R2[m]] \subseteq sp[m] /\ Below(K2[m], sp[R2[m]])
  BY <1>0, <1>1, <1>7, NILAssumption DEF Spans, Below, Links, Ptr
<1> QED  BY <1>2, <1>3, <1>4, <1>5 DEF Spans

\* Turning n and its left child l to the right keeps the keys divided.
LEMMA SpansTurnRight ==
    ASSUME NEW L \in Links, NEW R \in Links, NEW K, NEW S, NEW span, Spans(L, R, K, S, span), S \subseteq Nodes,
           NEW n \in S, NEW l \in S, l # n, L[n] = l, K[n] # {}, K[l] # {}, R[n] # l, R[n] # n, L[l] # l, R[l] # l, L[l] # n, R[l] # n,
           \A m \in S \ {n} : l \notin {L[m], R[m]},
           NEW L2, NEW R2,
           L2[n] = R[l], R2[n] = R[n], L2[l] = L[l], R2[l] = n,
           \A m \in S \ {n, l} : (L2[m] = L[m] /\ L[m] # n) \/ (L[m] = n /\ L2[m] = l),
           \A m \in S \ {n, l} : (R2[m] = R[m] /\ R[m] # n) \/ (R[m] = n /\ R2[m] = l)
    PROVE  \E turned : Spans(L2, R2, K, S, turned)
<1> DEFINE N == {y \in span[n] : \A k \in K[l] : k < y}
           sp == [span EXCEPT ![l] = span[n], ![n] = N]
<1>1. \A m \in Nodes : sp[m] = IF m = l THEN span[n] ELSE IF m = n THEN N ELSE span[m]
  BY DEF Spans
<1>2. sp \in [Nodes -> SUBSET ID]
  BY DEF Spans
<1> HIDE DEF sp
<1>6. /\ span[l] \subseteq span[n] /\ Below(span[l], K[n]) /\ K[l] \subseteq span[l] /\ K[n] \subseteq span[n]
      /\ l # NIL /\ n # NIL /\ span[n] \subseteq Nat
  BY NILAssumption, IDAssumption, Zenon DEF Spans
<1>8. K[n] \subseteq N
  BY <1>6 DEF Below
<1> HIDE DEF N
<1>7. N \subseteq span[n] /\ Below(K[l], N)
  BY DEF Below, N
<1>9. R[l] # NIL => span[R[l]] \subseteq N /\ Below(span[R[l]], K[n])
  BY <1>6 DEF Spans, N, Below
<1>10. R[n] # NIL => span[R[n]] \subseteq N /\ Below(K[n], span[R[n]])
  <2> SUFFICES ASSUME R[n] # NIL PROVE span[R[n]] \subseteq N /\ Below(K[n], span[R[n]])
    OBVIOUS
  <2>1. span[R[n]] \subseteq span[n] /\ Below(K[n], span[R[n]])
    BY DEF Spans
  <2>2. PICK k \in K[n] : TRUE
    OBVIOUS
  <2>3. \A x \in K[l], y \in span[R[n]] : x < y
    BY <1>6, <2>1, <2>2 DEF Below
  <2> QED  BY <2>1, <2>3 DEF N
<1>11. L[l] # NIL => span[L[l]] \subseteq span[n] /\ Below(span[L[l]], K[l])
  BY <1>6 DEF Spans
<1>3. \A m \in S : K[m] \subseteq sp[m]
  BY <1>1, <1>6, <1>8 DEF Spans
<1>4. \A m \in S : L2[m] # NIL => sp[L2[m]] \subseteq sp[m] /\ Below(sp[L2[m]], K[m])
  <2> SUFFICES ASSUME NEW m \in S, L2[m] # NIL
               PROVE  sp[L2[m]] \subseteq sp[m] /\ Below(sp[L2[m]], K[m])
    OBVIOUS
  <2>1. CASE m = n
    BY <1>1, <1>9, <2>1 DEF Links, Ptr
  <2>2. CASE m = l
    BY <1>1, <1>11, <2>2 DEF Links, Ptr
  <2>3. CASE m \notin {n, l}
    <3>1. sp[m] = span[m] /\ (L[m] # NIL => span[L[m]] \subseteq span[m] /\ Below(span[L[m]], K[m]))
      BY <1>1, <2>3 DEF Spans
    <3>2. CASE L[m] = n
      BY <1>1, <1>6, <2>3, <3>1, <3>2
    <3>3. CASE L[m] # n
      <4>1. L2[m] = L[m] /\ L[m] \in Nodes \ {n, l}
        BY <2>3, <3>3 DEF Links, Ptr
      <4> QED  BY <1>1, <3>1, <4>1
    <3> QED  BY <3>2, <3>3
  <2> QED  BY <2>1, <2>2, <2>3
<1>5. \A m \in S : R2[m] # NIL => sp[R2[m]] \subseteq sp[m] /\ Below(K[m], sp[R2[m]])
  <2> SUFFICES ASSUME NEW m \in S, R2[m] # NIL
               PROVE  sp[R2[m]] \subseteq sp[m] /\ Below(K[m], sp[R2[m]])
    OBVIOUS
  <2>1. CASE m = n
    BY <1>1, <1>10, <2>1 DEF Links, Ptr
  <2>2. CASE m = l
    BY <1>1, <1>7, <2>2 DEF Links, Ptr
  <2>3. CASE m \notin {n, l}
    <3>1. sp[m] = span[m] /\ (R[m] # NIL => span[R[m]] \subseteq span[m] /\ Below(K[m], span[R[m]]))
      BY <1>1, <2>3 DEF Spans
    <3>2. CASE R[m] = n
      BY <1>1, <1>6, <2>3, <3>1, <3>2
    <3>3. CASE R[m] # n
      <4>1. R2[m] = R[m] /\ R[m] \in Nodes \ {n, l}
        BY <2>3, <3>3 DEF Links, Ptr
      <4> QED  BY <1>1, <3>1, <4>1
    <3> QED  BY <3>2, <3>3
  <2> QED  BY <2>1, <2>2, <2>3
<1> QED  BY <1>2, <1>3, <1>4, <1>5 DEF Spans

\* Turning n and its right child l to the left keeps the keys divided.
LEMMA SpansTurnLeft ==
    ASSUME NEW R \in Links, NEW L \in Links, NEW K, NEW S, NEW span, Spans(L, R, K, S, span), S \subseteq Nodes,
           NEW n \in S, NEW l \in S, l # n, R[n] = l, K[n] # {}, K[l] # {}, L[n] # l, L[n] # n, R[l] # l, L[l] # l, R[l] # n, L[l] # n,
           \A m \in S \ {n} : l \notin {R[m], L[m]},
           NEW R2, NEW L2,
           R2[n] = L[l], L2[n] = L[n], R2[l] = R[l], L2[l] = n,
           \A m \in S \ {n, l} : (R2[m] = R[m] /\ R[m] # n) \/ (R[m] = n /\ R2[m] = l),
           \A m \in S \ {n, l} : (L2[m] = L[m] /\ L[m] # n) \/ (L[m] = n /\ L2[m] = l)
    PROVE  \E turned : Spans(L2, R2, K, S, turned)
<1> DEFINE N == {y \in span[n] : \A k \in K[l] : y < k}
           sp == [span EXCEPT ![l] = span[n], ![n] = N]
<1>1. \A m \in Nodes : sp[m] = IF m = l THEN span[n] ELSE IF m = n THEN N ELSE span[m]
  BY DEF Spans
<1>2. sp \in [Nodes -> SUBSET ID]
  BY DEF Spans
<1> HIDE DEF sp
<1>6. /\ span[l] \subseteq span[n] /\ Below(K[n], span[l]) /\ K[l] \subseteq span[l] /\ K[n] \subseteq span[n]
      /\ l # NIL /\ n # NIL /\ span[n] \subseteq Nat
  BY NILAssumption, IDAssumption, Zenon DEF Spans
<1>8. K[n] \subseteq N
  BY <1>6 DEF Below
<1> HIDE DEF N
<1>7. N \subseteq span[n] /\ Below(N, K[l])
  BY DEF Below, N
<1>9. L[l] # NIL => span[L[l]] \subseteq N /\ Below(K[n], span[L[l]])
  BY <1>6 DEF Spans, N, Below
<1>10. L[n] # NIL => span[L[n]] \subseteq N /\ Below(span[L[n]], K[n])
  <2> SUFFICES ASSUME L[n] # NIL PROVE span[L[n]] \subseteq N /\ Below(span[L[n]], K[n])
    OBVIOUS
  <2>1. span[L[n]] \subseteq span[n] /\ Below(span[L[n]], K[n])
    BY DEF Spans
  <2>2. PICK k \in K[n] : TRUE
    OBVIOUS
  <2>3. \A x \in K[l], y \in span[L[n]] : y < x
    BY <1>6, <2>1, <2>2 DEF Below
  <2> QED  BY <2>1, <2>3 DEF N
<1>11. R[l] # NIL => span[R[l]] \subseteq span[n] /\ Below(K[l], span[R[l]])
  BY <1>6 DEF Spans
<1>3. \A m \in S : K[m] \subseteq sp[m]
  BY <1>1, <1>6, <1>8 DEF Spans
<1>4. \A m \in S : R2[m] # NIL => sp[R2[m]] \subseteq sp[m] /\ Below(K[m], sp[R2[m]])
  <2> SUFFICES ASSUME NEW m \in S, R2[m] # NIL
               PROVE  sp[R2[m]] \subseteq sp[m] /\ Below(K[m], sp[R2[m]])
    OBVIOUS
  <2>1. CASE m = n
    BY <1>1, <1>9, <2>1 DEF Links, Ptr
  <2>2. CASE m = l
    BY <1>1, <1>11, <2>2 DEF Links, Ptr
  <2>3. CASE m \notin {n, l}
    <3>1. sp[m] = span[m] /\ (R[m] # NIL => span[R[m]] \subseteq span[m] /\ Below(K[m], span[R[m]]))
      BY <1>1, <2>3 DEF Spans
    <3>2. CASE R[m] = n
      BY <1>1, <1>6, <2>3, <3>1, <3>2
    <3>3. CASE R[m] # n
      <4>1. R2[m] = R[m] /\ R[m] \in Nodes \ {n, l}
        BY <2>3, <3>3 DEF Links, Ptr
      <4> QED  BY <1>1, <3>1, <4>1
    <3> QED  BY <3>2, <3>3
  <2> QED  BY <2>1, <2>2, <2>3
<1>5. \A m \in S : L2[m] # NIL => sp[L2[m]] \subseteq sp[m] /\ Below(sp[L2[m]], K[m])
  <2> SUFFICES ASSUME NEW m \in S, L2[m] # NIL
               PROVE  sp[L2[m]] \subseteq sp[m] /\ Below(sp[L2[m]], K[m])
    OBVIOUS
  <2>1. CASE m = n
    BY <1>1, <1>10, <2>1 DEF Links, Ptr
  <2>2. CASE m = l
    BY <1>1, <1>7, <2>2 DEF Links, Ptr
  <2>3. CASE m \notin {n, l}
    <3>1. sp[m] = span[m] /\ (L[m] # NIL => span[L[m]] \subseteq span[m] /\ Below(span[L[m]], K[m]))
      BY <1>1, <2>3 DEF Spans
    <3>2. CASE L[m] = n
      BY <1>1, <1>6, <2>3, <3>1, <3>2
    <3>3. CASE L[m] # n
      <4>1. L2[m] = L[m] /\ L[m] \in Nodes \ {n, l}
        BY <2>3, <3>3 DEF Links, Ptr
      <4> QED  BY <1>1, <3>1, <4>1
    <3> QED  BY <3>2, <3>3
  <2> QED  BY <2>1, <2>2, <2>3
<1> QED  BY <1>2, <1>3, <1>4, <1>5 DEF Spans

\* A left child with no right child of its own may give its greatest keys to its parent.
LEMMA SpansGiveRight ==
    ASSUME NEW L \in Links, NEW R \in Links, NEW K, NEW S, NEW span, Spans(L, R, K, S, span), S \subseteq Nodes,
           NEW n \in S, NEW l \in S, l # n, L[n] = l, R[l] = NIL, L[l] # l, K[n] # {},
           \A m \in S \ {n} : l \notin {L[m], R[m]}, R[n] # l,
           NEW K2, NEW T, T \subseteq K[l], K2[l] # {},
           K2[l] \subseteq K[l], Below(K2[l], T),
           K2[n] \subseteq K[n] \cup T, \A m \in S \ {n, l} : K2[m] \subseteq K[m]
    PROVE  \E given : Spans(L, R, K2, S, given)
<1> DEFINE N == {y \in span[l] : \A t \in T : y < t}
           sp == [span EXCEPT ![l] = N]
<1>1. \A m \in Nodes : sp[m] = IF m = l THEN N ELSE span[m]
  BY DEF Spans
<1>2. sp \in [Nodes -> SUBSET ID]
  BY DEF Spans
<1> HIDE DEF sp
<1>6. /\ span[l] \subseteq span[n] /\ Below(span[l], K[n]) /\ K[l] \subseteq span[l] /\ K[n] \subseteq span[n]
      /\ l # NIL /\ n # NIL /\ span[n] \subseteq Nat
  BY NILAssumption, IDAssumption, Zenon DEF Spans
<1>7. K2[l] \subseteq N /\ N \subseteq span[l] /\ Below(N, T)
  BY <1>6 DEF Below
<1>8. L[l] # NIL => span[L[l]] \subseteq N /\ Below(span[L[l]], K2[l])
  <2> SUFFICES ASSUME L[l] # NIL PROVE span[L[l]] \subseteq N /\ Below(span[L[l]], K2[l])
    OBVIOUS
  <2>1. span[L[l]] \subseteq span[l] /\ Below(span[L[l]], K[l])
    BY DEF Spans
  <2> QED  BY <2>1 DEF Below
<1>9. Below(N, K2[n])
  BY <1>6, <1>7 DEF Below
<1>10. R[n] # NIL => span[R[n]] \subseteq span[n] /\ Below(K2[n], span[R[n]])
  <2> SUFFICES ASSUME R[n] # NIL PROVE span[R[n]] \subseteq span[n] /\ Below(K2[n], span[R[n]])
    OBVIOUS
  <2>1. span[R[n]] \subseteq span[n] /\ Below(K[n], span[R[n]])
    BY DEF Spans
  <2>2. PICK k \in K[n] : TRUE
    OBVIOUS
  <2>3. \A x \in T, y \in span[R[n]] : x < y
    BY <1>6, <2>1, <2>2 DEF Below
  <2> QED  BY <2>1, <2>3 DEF Below
<1> HIDE DEF N
<1>3. \A m \in S : K2[m] \subseteq sp[m]
  BY <1>1, <1>6, <1>7 DEF Spans
<1>4. \A m \in S : L[m] # NIL => sp[L[m]] \subseteq sp[m] /\ Below(sp[L[m]], K2[m])
  <2> SUFFICES ASSUME NEW m \in S, L[m] # NIL
               PROVE  sp[L[m]] \subseteq sp[m] /\ Below(sp[L[m]], K2[m])
    OBVIOUS
  <2>1. CASE m = n
    BY <1>1, <1>6, <1>7, <1>9, <2>1
  <2>2. CASE m = l
    BY <1>1, <1>8, <2>2 DEF Links, Ptr
  <2>3. CASE m \notin {n, l}
    <3>1. span[L[m]] \subseteq span[m] /\ Below(span[L[m]], K[m]) /\ L[m] \in Nodes /\ L[m] # l
      BY <2>3 DEF Spans, Links, Ptr
    <3>2. sp[m] = span[m] /\ sp[L[m]] = span[L[m]] /\ K2[m] \subseteq K[m]
      BY <1>1, <2>3, <3>1
    <3> QED  BY <3>1, <3>2 DEF Below
  <2> QED  BY <2>1, <2>2, <2>3
<1>5. \A m \in S : R[m] # NIL => sp[R[m]] \subseteq sp[m] /\ Below(K2[m], sp[R[m]])
  <2> SUFFICES ASSUME NEW m \in S, R[m] # NIL
               PROVE  sp[R[m]] \subseteq sp[m] /\ Below(K2[m], sp[R[m]])
    OBVIOUS
  <2>1. CASE m = n
    BY <1>1, <1>10, <2>1 DEF Links, Ptr
  <2>3. CASE m \notin {n, l}
    <3>1. span[R[m]] \subseteq span[m] /\ Below(K[m], span[R[m]]) /\ R[m] \in Nodes /\ R[m] # l
      BY <2>3 DEF Spans, Links, Ptr
    <3>2. sp[m] = span[m] /\ sp[R[m]] = span[R[m]] /\ K2[m] \subseteq K[m]
      BY <1>1, <2>3, <3>1
    <3> QED  BY <3>1, <3>2 DEF Below
  <2> QED  BY <2>1, <2>3
<1> QED  BY <1>2, <1>3, <1>4, <1>5 DEF Spans
\* A right child with no left child of its own may give its least keys to its parent.
LEMMA SpansGiveLeft ==
    ASSUME NEW R \in Links, NEW L \in Links, NEW K, NEW S, NEW span, Spans(L, R, K, S, span), S \subseteq Nodes,
           NEW n \in S, NEW l \in S, l # n, R[n] = l, L[l] = NIL, R[l] # l, K[n] # {},
           \A m \in S \ {n} : l \notin {R[m], L[m]}, L[n] # l,
           NEW K2, NEW T, T \subseteq K[l], K2[l] # {},
           K2[l] \subseteq K[l], Below(T, K2[l]),
           K2[n] \subseteq K[n] \cup T, \A m \in S \ {n, l} : K2[m] \subseteq K[m]
    PROVE  \E given : Spans(L, R, K2, S, given)
<1> DEFINE N == {y \in span[l] : \A t \in T : t < y}
           sp == [span EXCEPT ![l] = N]
<1>1. \A m \in Nodes : sp[m] = IF m = l THEN N ELSE span[m]
  BY DEF Spans
<1>2. sp \in [Nodes -> SUBSET ID]
  BY DEF Spans
<1> HIDE DEF sp
<1>6. /\ span[l] \subseteq span[n] /\ Below(K[n], span[l]) /\ K[l] \subseteq span[l] /\ K[n] \subseteq span[n]
      /\ l # NIL /\ n # NIL /\ span[n] \subseteq Nat
  BY NILAssumption, IDAssumption, Zenon DEF Spans
<1>7. K2[l] \subseteq N /\ N \subseteq span[l] /\ Below(T, N)
  BY <1>6 DEF Below
<1>8. R[l] # NIL => span[R[l]] \subseteq N /\ Below(K2[l], span[R[l]])
  <2> SUFFICES ASSUME R[l] # NIL PROVE span[R[l]] \subseteq N /\ Below(K2[l], span[R[l]])
    OBVIOUS
  <2>1. span[R[l]] \subseteq span[l] /\ Below(K[l], span[R[l]])
    BY DEF Spans
  <2> QED  BY <2>1 DEF Below
<1>9. Below(K2[n], N)
  BY <1>6, <1>7 DEF Below
<1>10. L[n] # NIL => span[L[n]] \subseteq span[n] /\ Below(span[L[n]], K2[n])
  <2> SUFFICES ASSUME L[n] # NIL PROVE span[L[n]] \subseteq span[n] /\ Below(span[L[n]], K2[n])
    OBVIOUS
  <2>1. span[L[n]] \subseteq span[n] /\ Below(span[L[n]], K[n])
    BY DEF Spans
  <2>2. PICK k \in K[n] : TRUE
    OBVIOUS
  <2>3. \A x \in T, y \in span[L[n]] : y < x
    BY <1>6, <2>1, <2>2 DEF Below
  <2> QED  BY <2>1, <2>3 DEF Below
<1> HIDE DEF N
<1>3. \A m \in S : K2[m] \subseteq sp[m]
  BY <1>1, <1>6, <1>7 DEF Spans
<1>4. \A m \in S : R[m] # NIL => sp[R[m]] \subseteq sp[m] /\ Below(K2[m], sp[R[m]])
  <2> SUFFICES ASSUME NEW m \in S, R[m] # NIL
               PROVE  sp[R[m]] \subseteq sp[m] /\ Below(K2[m], sp[R[m]])
    OBVIOUS
  <2>1. CASE m = n
    BY <1>1, <1>6, <1>7, <1>9, <2>1
  <2>2. CASE m = l
    BY <1>1, <1>8, <2>2 DEF Links, Ptr
  <2>3. CASE m \notin {n, l}
    <3>1. span[R[m]] \subseteq span[m] /\ Below(K[m], span[R[m]]) /\ R[m] \in Nodes /\ R[m] # l
      BY <2>3 DEF Spans, Links, Ptr
    <3>2. sp[m] = span[m] /\ sp[R[m]] = span[R[m]] /\ K2[m] \subseteq K[m]
      BY <1>1, <2>3, <3>1
    <3> QED  BY <3>1, <3>2 DEF Below
  <2> QED  BY <2>1, <2>2, <2>3
<1>5. \A m \in S : L[m] # NIL => sp[L[m]] \subseteq sp[m] /\ Below(sp[L[m]], K2[m])
  <2> SUFFICES ASSUME NEW m \in S, L[m] # NIL
               PROVE  sp[L[m]] \subseteq sp[m] /\ Below(sp[L[m]], K2[m])
    OBVIOUS
  <2>1. CASE m = n
    BY <1>1, <1>10, <2>1 DEF Links, Ptr
  <2>3. CASE m \notin {n, l}
    <3>1. span[L[m]] \subseteq span[m] /\ Below(span[L[m]], K[m]) /\ L[m] \in Nodes /\ L[m] # l
      BY <2>3 DEF Spans, Links, Ptr
    <3>2. sp[m] = span[m] /\ sp[L[m]] = span[L[m]] /\ K2[m] \subseteq K[m]
      BY <1>1, <2>3, <3>1
    <3> QED  BY <3>1, <3>2 DEF Below
  <2> QED  BY <2>1, <2>3
<1> QED  BY <1>2, <1>3, <1>4, <1>5 DEF Spans

\* The path that a walk to the right has come down so far, n being its last node: whatever
\* the nodes above n hold comes before the span of n.
Spine(R, K, S, span, Q, n) ==
    /\ Q \subseteq S /\ n \in Q
    /\ \A m \in Q \ {n} : R[m] \in Q /\ Below(K[m], span[n])

\* A right spine grows by the right child of its end.
LEMMA SpineDown ==
    ASSUME NEW L, NEW R, NEW K, NEW S, NEW span, Spans(L, R, K, S, span),
           NEW Q, NEW n, Spine(R, K, S, span, Q, n), R[n] \in S, R[n] # NIL
    PROVE  Spine(R, K, S, span, Q \cup {R[n]}, R[n])
<1>1. n \in S /\ span[R[n]] \subseteq span[n] /\ Below(K[n], span[R[n]])
  BY DEF Spans, Spine
<1>2. \A m \in (Q \cup {R[n]}) \ {R[n]} : Below(K[m], span[R[n]])
  BY <1>1 DEF Spine, Below
<1>3. \A m \in (Q \cup {R[n]}) \ {R[n]} : R[m] \in Q \cup {R[n]}
  BY DEF Spine
<1> QED  BY <1>2, <1>3 DEF Spine

\* The greatest key of the end of a left child's right spine may move up to the node whose left child it is.
LEMMA SpansTake ==
    ASSUME NEW L \in Links, NEW R \in Links, NEW K, NEW S, NEW span, Spans(L, R, K, S, span), S \subseteq Nodes,
           NEW t \in S, NEW Q, NEW n, Spine(R, K, S, span, Q, n), t \notin Q, L[t] \in Q, R[n] = NIL,
           span[n] \subseteq span[L[t]], L[t] # NIL, K[t] # {}, \A m \in Q : K[m] # {},
           NEW K2, NEW x \in K[n], Below(K2[n], {x}),
           \A k \in K[n] : k <= x,
           \A m \in S : m # t => K2[m] \subseteq K[m], K2[t] \subseteq K[t] \cup {x}
    PROVE  \E taken : Spans(L, R, K2, S, taken)
<1> DEFINE sp == [m \in Nodes |-> IF m \in Q THEN {y \in span[m] : y < x} ELSE span[m]]
<1>1. \A m \in Nodes : /\ sp[m] \subseteq span[m]
                       /\ m \in Q => sp[m] = {y \in span[m] : y < x}
                       /\ m \notin Q => sp[m] = span[m]
  OBVIOUS
<1>2. sp \in [Nodes -> SUBSET ID]
  BY DEF Spans
<1> HIDE DEF sp
<1>3. n \in Q /\ Q \subseteq S /\ \A m \in Q : m # n => R[m] \in Q /\ Below(K[m], span[n])
  BY DEF Spine
<1>4. /\ K[n] \subseteq span[n] /\ span[L[t]] \subseteq span[t] /\ Below(span[L[t]], K[t])
      /\ x \in span[n] /\ x \in span[L[t]] /\ x \in span[t]
      /\ \A m \in S : span[m] \subseteq Nat
      /\ \A m \in Q : K[m] \subseteq Nat
  BY <1>3, IDAssumption, Zenon DEF Spans
<1>5. \A m \in S : K2[m] \subseteq sp[m]
  <2> SUFFICES ASSUME NEW m \in S PROVE K2[m] \subseteq sp[m]
    OBVIOUS
  <2>0. K[m] \subseteq span[m]
    BY DEF Spans
  <2>1. CASE m = t
    BY <1>1, <1>4, <2>0, <2>1
  <2>2. CASE m = n
    BY <1>1, <1>3, <2>0, <2>2 DEF Below
  <2>3. CASE m \in Q /\ m # n
    BY <1>1, <1>3, <1>4, <2>0, <2>3 DEF Below
  <2>4. CASE m \notin Q /\ m # t
    BY <1>1, <2>0, <2>4
  <2> QED  BY <2>1, <2>2, <2>3, <2>4
<1>6. \A m \in S : L[m] # NIL => sp[L[m]] \subseteq sp[m] /\ Below(sp[L[m]], K2[m])
  <2> SUFFICES ASSUME NEW m \in S, L[m] # NIL PROVE sp[L[m]] \subseteq sp[m] /\ Below(sp[L[m]], K2[m])
    OBVIOUS
  <2>0. /\ L[m] \in Nodes /\ span[L[m]] \subseteq span[m] /\ Below(span[L[m]], K[m])
        /\ sp[L[m]] \subseteq span[L[m]]
    BY <1>1 DEF Spans, Links, Ptr
  <2>1. CASE m = t
    <3>1. sp[m] = span[m] /\ sp[L[m]] = {y \in span[L[m]] : y < x}
      BY <1>1, <2>0, <2>1
    <3> QED  BY <2>0, <2>1, <3>1 DEF Below
  <2>2. CASE m \in Q
    <3>1. sp[m] = {y \in span[m] : y < x} /\ K2[m] \subseteq K[m]
      BY <1>1, <2>2
    <3>2. PICK k \in K[m] : k <= x
      <4>1. CASE m = n
        BY <2>2, <4>1
      <4>2. CASE m # n
        <5>1. PICK k \in K[m] : TRUE
          BY <2>2
        <5>2. k < x
          BY <1>3, <1>4, <2>2, <4>2, <5>1 DEF Below
        <5> QED  BY <1>4, <2>2, <5>1, <5>2
      <4> QED  BY <4>1, <4>2
    <3>3. \A y \in span[L[m]] : y < x
      BY <1>4, <2>0, <2>2, <3>2 DEF Below
    <3> QED  BY <2>0, <3>1, <3>3 DEF Below
  <2>4. CASE m \notin Q /\ m # t
    <3>1. sp[m] = span[m] /\ K2[m] \subseteq K[m]
      BY <1>1, <2>4
    <3> QED  BY <2>0, <3>1 DEF Below
  <2> QED  BY <2>1, <2>2, <2>4
<1>7. \A m \in S : R[m] # NIL => sp[R[m]] \subseteq sp[m] /\ Below(K2[m], sp[R[m]])
  <2> SUFFICES ASSUME NEW m \in S, R[m] # NIL PROVE sp[R[m]] \subseteq sp[m] /\ Below(K2[m], sp[R[m]])
    OBVIOUS
  <2>0. /\ R[m] \in Nodes /\ span[R[m]] \subseteq span[m] /\ Below(K[m], span[R[m]])
        /\ sp[R[m]] \subseteq span[R[m]]
    BY <1>1 DEF Spans, Links, Ptr
  <2>1. CASE m = t
    <3>1. sp[m] = span[m] /\ K2[m] \subseteq K[m] \cup {x}
      BY <1>1, <2>1
    <3>2. PICK k \in K[t] : TRUE
      OBVIOUS
    <3>3. k \in Nat /\ x \in Nat /\ x < k
      BY <1>4, <3>2 DEF Below, Spans
    <3>4. \A y \in span[R[m]] : x < y
      BY <1>4, <2>0, <2>1, <3>2, <3>3 DEF Below
    <3> QED  BY <2>0, <3>1, <3>4 DEF Below
  <2>2. CASE m \in Q
    <3>1. m # n /\ R[m] \in Q
      BY <1>3, <2>2
    <3>2. sp[m] = {y \in span[m] : y < x} /\ sp[R[m]] = {y \in span[R[m]] : y < x} /\ K2[m] \subseteq K[m]
      BY <1>1, <2>0, <2>2, <3>1
    <3> QED  BY <2>0, <3>2 DEF Below
  <2>4. CASE m \notin Q /\ m # t
    <3>1. sp[m] = span[m] /\ K2[m] \subseteq K[m]
      BY <1>1, <2>4
    <3> QED  BY <2>0, <3>1 DEF Below
  <2> QED  BY <2>1, <2>2, <2>4
<1> QED  BY <1>2, <1>5, <1>6, <1>7 DEF Spans

\* A new node whose keys exceed those of the end of the root's right spine may be hung there.
LEMMA SpansAttach ==
    ASSUME NEW L \in Links, NEW R \in Links, NEW K, NEW S, NEW span, Spans(L, R, K, S, span), S \subseteq Nodes,
           NEW Q, NEW n, Spine(R, K, S, span, Q, n), R[n] = NIL, NEW f \in Nodes \ S,
           \A m \in S : L[m] \notin Q /\ f \notin {L[m], R[m]} /\ (R[m] \in Q => m \in Q),
           L[f] = NIL, R[f] = NIL,
           K[n] # {}, K[f] \in SUBSET ID, Below(K[n], K[f]),
           NEW R2, R2[n] = f, \A m \in Nodes : m # n => R2[m] = R[m]
    PROVE  \E sp : Spans(L, R2, K, S \cup {f}, sp)
<1> DEFINE sp == [m \in Nodes |-> IF m = f THEN K[f] ELSE IF m \in Q THEN span[m] \cup K[f] ELSE span[m]]
<1>3. n \in Q /\ Q \subseteq S /\ f \notin Q /\ \A m \in Q : m # n => R[m] \in Q /\ Below(K[m], span[n])
  BY DEF Spine
<1>1. /\ sp[f] = K[f]
      /\ \A m \in Nodes : m \in Q => sp[m] = span[m] \cup K[f]
      /\ \A m \in Nodes : m \notin Q /\ m # f => sp[m] = span[m]
  BY <1>3
<1>2. sp \in [Nodes -> SUBSET ID]
  BY DEF Spans
<1> HIDE DEF sp
<1>4. \A m \in S : K[m] \subseteq span[m] /\ span[m] \subseteq Nat /\ K[m] \subseteq Nat /\ m \in Nodes
  BY IDAssumption, Zenon DEF Spans
<1>5. \A m \in Q : Below(K[m], K[f])
  <2> SUFFICES ASSUME NEW m \in Q, m # n PROVE Below(K[m], K[f])
    OBVIOUS
  <2>1. PICK k \in K[n] : TRUE
    OBVIOUS
  <2>2. Below(K[m], {k})
    BY <1>3, <1>4, <2>1 DEF Below
  <2>3. K[f] \subseteq Nat /\ k \in Nat /\ K[m] \subseteq Nat
    BY <1>3, <1>4, <2>1, IDAssumption, Zenon
  <2> QED  BY <2>1, <2>2, <2>3 DEF Below
<1>6. \A m \in S \cup {f} : K[m] \subseteq sp[m]
  BY <1>1, <1>4
<1>7. \A m \in S \cup {f} : L[m] # NIL => sp[L[m]] \subseteq sp[m] /\ Below(sp[L[m]], K[m])
  <2> SUFFICES ASSUME NEW m \in S, L[m] # NIL PROVE sp[L[m]] \subseteq sp[m] /\ Below(sp[L[m]], K[m])
    OBVIOUS
  <2>0. /\ L[m] \in Nodes /\ span[L[m]] \subseteq span[m] /\ Below(span[L[m]], K[m])
        /\ L[m] \notin Q /\ L[m] # f
    BY DEF Spans, Links, Ptr
  <2>1. sp[L[m]] = span[L[m]] /\ span[m] \subseteq sp[m]
    BY <1>1, <1>4, <2>0
  <2> QED  BY <2>0, <2>1
<1>8. \A m \in S \cup {f} : R2[m] # NIL => sp[R2[m]] \subseteq sp[m] /\ Below(K[m], sp[R2[m]])
  <2>f. R2[f] = NIL
    BY <1>3
  <2> SUFFICES ASSUME NEW m \in S, R2[m] # NIL PROVE sp[R2[m]] \subseteq sp[m] /\ Below(K[m], sp[R2[m]])
    BY <2>f
  <2>1. CASE m = n
    BY <1>1, <1>3, <1>4, <2>1
  <2>2. CASE m # n
    <3>0. /\ R2[m] = R[m] /\ R[m] \in Nodes /\ span[R[m]] \subseteq span[m] /\ Below(K[m], span[R[m]])
          /\ R[m] # f /\ (R[m] \in Q => m \in Q)
      BY <1>4, <2>2 DEF Spans, Links, Ptr
    <3>1. CASE R[m] \in Q
      <4>1. sp[R[m]] = span[R[m]] \cup K[f] /\ sp[m] = span[m] \cup K[f] /\ Below(K[m], K[f])
        BY <1>1, <1>4, <1>5, <3>0, <3>1
      <4> QED  BY <3>0, <4>1 DEF Below
    <3>2. CASE R[m] \notin Q
      <4>1. sp[R[m]] = span[R[m]] /\ span[m] \subseteq sp[m]
        BY <1>1, <1>4, <3>0, <3>2
      <4> QED  BY <3>0, <4>1
    <3> QED  BY <3>1, <3>2
  <2> QED  BY <2>1, <2>2
<1> QED  BY <1>2, <1>6, <1>7, <1>8 DEF Spans

-----------------------------------------------------------------------------
(* Rotations: the pointers, the heights and the records.                    *)

\* The records of every node are the same.
SameData(g, h) == \A m \in Nodes : g[m].data = h[m].data

\* Setting a link changes neither heights nor records.
LEMMA SetLinkRest ==
    ASSUME NEW h \in Heap, NEW n \in Nodes, NEW q \in Ptr
    PROVE  /\ \A m \in Nodes : [h EXCEPT ![n].left = q][m].data = h[m].data
                               /\ [h EXCEPT ![n].left = q][m].height = h[m].height
           /\ \A m \in Nodes : [h EXCEPT ![n].right = q][m].data = h[m].data
                               /\ [h EXCEPT ![n].right = q][m].height = h[m].height
BY DEF Heap, TNode

\* __ttree_node_update_height writes one height and nothing else.
LEMMA UpdateHeightRest ==
    ASSUME NEW h \in Heap, NEW n \in Nodes
    PROVE  /\ UpdateHeight(h, n) \in Heap
           /\ SameData(UpdateHeight(h, n), h)
           /\ \A m \in Nodes : UpdateHeight(h, n)[m].left = h[m].left
                               /\ UpdateHeight(h, n)[m].right = h[m].right
           /\ \A m \in Nodes : m # n => UpdateHeight(h, n)[m].height = h[m].height
           /\ UpdateHeight(h, n)[n].height = 1 + Max2(Height(h, h[n].left), Height(h, h[n].right))
<1>1. UpdateHeight(h, n) \in Heap
  BY UpdateHeightType
<1> DEFINE x == 1 + Max2(Height(h, h[n].left), Height(h, h[n].right))
<1>2. UpdateHeight(h, n) = [h EXCEPT ![n].height = x]
  BY DEF UpdateHeight
<1> HIDE DEF x
<1>3. h \in [Nodes -> TNode]
  BY DEF Heap
<1>4. /\ \A m \in Nodes : [h EXCEPT ![n].height = x][m].data = h[m].data
      /\ \A m \in Nodes : [h EXCEPT ![n].height = x][m].left = h[m].left
                          /\ [h EXCEPT ![n].height = x][m].right = h[m].right
      /\ \A m \in Nodes : m # n => [h EXCEPT ![n].height = x][m].height = h[m].height
      /\ [h EXCEPT ![n].height = x][n].height = x
  BY <1>3 DEF TNode
<1> QED  BY <1>1, <1>2, <1>4 DEF x, SameData

\* Pointing the parent to the new top of a subtree changes neither heights nor records.
LEMMA RepointRest ==
    ASSUME NEW h \in Heap, NEW q \in Ptr, NEW n \in Nodes, NEW x \in Ptr
    PROVE  \A m \in Nodes : Repoint(h, q, n, x)[m].data = h[m].data
                            /\ Repoint(h, q, n, x)[m].height = h[m].height
<1>1. CASE q = NIL
  BY <1>1 DEF Repoint
<1>2. CASE q # NIL
  <2>1. q \in Nodes
    BY <1>2 DEF Ptr
  <2>2. Repoint(h, q, n, x) \in {[h EXCEPT ![q].left = x], [h EXCEPT ![q].right = x]}
    BY <1>2 DEF Repoint
  <2>3. CASE Repoint(h, q, n, x) = [h EXCEPT ![q].left = x]
    BY <2>1, <2>3, SetLinkRest
  <2>4. CASE Repoint(h, q, n, x) = [h EXCEPT ![q].right = x]
    BY <2>1, <2>4, SetLinkRest
  <2> QED  BY <2>2, <2>3, <2>4
<1> QED  BY <1>1, <1>2

\* What a right rotation does to heights and records: only n and its left child get new heights.
LEMMA RightRotateRest ==
    ASSUME NEW h \in Heap, NEW n \in Nodes, NEW l \in Nodes, h[n].left = l, l # n,
           NEW f, f = RightRotate(h, n).heap
    PROVE  /\ SameData(f, h)
           /\ \A m \in Nodes \ {n, l} : f[m].height = h[m].height
           /\ f[n].height = 1 + Max2(Height(h, h[l].right), Height(h, h[n].right))
           /\ h[l].left \notin {l, n} => f[l].height = 1 + Max2(Height(h, h[l].left), f[n].height)
<1> DEFINE a == [h EXCEPT ![l].right = n]
           b == [a EXCEPT ![n].left = h[l].right]
           c == UpdateHeight(b, n)
<1>1. h[l].right \in Ptr /\ n \in Ptr /\ n # NIL
  BY HeapNode, NILAssumption DEF Ptr
<1>2. a \in Heap /\ \A m \in Nodes : a[m].data = h[m].data /\ a[m].height = h[m].height
  <2>1. a \in Heap
    BY <1>1, SetRightLinks, Zenon
  <2>2. \A m \in Nodes : a[m].data = h[m].data /\ a[m].height = h[m].height
    BY <1>1, SetLinkRest
  <2> QED  BY <2>1, <2>2
<1>3. \A m \in Nodes : a[m].left = h[m].left /\ a[m].right = IF m = l THEN n ELSE h[m].right
  BY DEF Heap, TNode
<1>0. f = UpdateHeight(c, l)
  BY DEF RightRotate
<1> HIDE DEF a
<1>4. b \in Heap /\ \A m \in Nodes : b[m].data = a[m].data /\ b[m].height = a[m].height
  <2>1. b \in Heap
    BY <1>1, <1>2, SetLeftLinks, Zenon
  <2>2. \A m \in Nodes : b[m].data = a[m].data /\ b[m].height = a[m].height
    BY <1>1, <1>2, SetLinkRest
  <2> QED  BY <2>1, <2>2
<1>5. \A m \in Nodes : b[m].right = a[m].right /\ b[m].left = IF m = n THEN h[l].right ELSE a[m].left
  BY <1>2 DEF Heap, TNode
<1> HIDE DEF b
<1>6. /\ c \in Heap /\ SameData(c, b)
      /\ \A m \in Nodes : c[m].left = b[m].left /\ c[m].right = b[m].right
      /\ \A m \in Nodes : m # n => c[m].height = b[m].height
      /\ c[n].height = 1 + Max2(Height(b, b[n].left), Height(b, b[n].right))
  BY <1>4, UpdateHeightRest
<1> HIDE DEF c
<1>7. /\ SameData(f, c)
      /\ \A m \in Nodes : m # l => f[m].height = c[m].height
      /\ f[l].height = 1 + Max2(Height(c, c[l].left), Height(c, c[l].right))
  BY <1>0, <1>6, UpdateHeightRest
<1>8. \A m \in Ptr : Height(b, m) = Height(h, m)
  BY <1>2, <1>4 DEF Height, Ptr
<1>9. SameData(f, h)
  BY <1>2, <1>4, <1>6, <1>7 DEF SameData
<1>10. \A m \in Nodes \ {n, l} : f[m].height = h[m].height
  BY <1>2, <1>4, <1>6, <1>7
<1>11. f[n].height = 1 + Max2(Height(h, h[l].right), Height(h, h[n].right))
  <2>1. b[n].left = h[l].right /\ b[n].right = h[n].right /\ h[n].right \in Ptr
    BY <1>3, <1>5, HeapNode
  <2> QED  BY <1>1, <1>6, <1>7, <1>8, <2>1
<1>12. h[l].left \notin {l, n} => f[l].height = 1 + Max2(Height(h, h[l].left), f[n].height)
  <2> SUFFICES ASSUME h[l].left \notin {l, n} PROVE f[l].height = 1 + Max2(Height(h, h[l].left), f[n].height)
    OBVIOUS
  <2>1. c[l].left = h[l].left /\ c[l].right = n /\ h[l].left \in Ptr
    BY <1>3, <1>5, <1>6, HeapNode
  <2>2. Height(c, n) = f[n].height
    BY <1>1, <1>7 DEF Height
  <2>3. Height(c, h[l].left) = Height(h, h[l].left)
    BY <1>2, <1>4, <1>6, <2>1 DEF Height, Ptr
  <2> QED  BY <1>7, <2>1, <2>2, <2>3
<1> QED  BY <1>9, <1>10, <1>11, <1>12
\* What a left rotation does to heights and records: only n and its right child get new heights.
LEMMA LeftRotateRest ==
    ASSUME NEW h \in Heap, NEW n \in Nodes, NEW l \in Nodes, h[n].right = l, l # n,
           NEW f, f = LeftRotate(h, n).heap
    PROVE  /\ SameData(f, h)
           /\ \A m \in Nodes \ {n, l} : f[m].height = h[m].height
           /\ f[n].height = 1 + Max2(Height(h, h[n].left), Height(h, h[l].left))
           /\ h[l].right \notin {l, n} => f[l].height = 1 + Max2(f[n].height, Height(h, h[l].right))
<1> DEFINE a == [h EXCEPT ![l].left = n]
           b == [a EXCEPT ![n].right = h[l].left]
           c == UpdateHeight(b, n)
<1>1. h[l].left \in Ptr /\ n \in Ptr /\ n # NIL
  BY HeapNode, NILAssumption DEF Ptr
<1>2. a \in Heap /\ \A m \in Nodes : a[m].data = h[m].data /\ a[m].height = h[m].height
  <2>1. a \in Heap
    BY <1>1, SetLeftLinks, Zenon
  <2>2. \A m \in Nodes : a[m].data = h[m].data /\ a[m].height = h[m].height
    BY <1>1, SetLinkRest
  <2> QED  BY <2>1, <2>2
<1>3. \A m \in Nodes : a[m].right = h[m].right /\ a[m].left = IF m = l THEN n ELSE h[m].left
  BY DEF Heap, TNode
<1>0. f = UpdateHeight(c, l)
  BY DEF LeftRotate
<1> HIDE DEF a
<1>4. b \in Heap /\ \A m \in Nodes : b[m].data = a[m].data /\ b[m].height = a[m].height
  <2>1. b \in Heap
    BY <1>1, <1>2, SetRightLinks, Zenon
  <2>2. \A m \in Nodes : b[m].data = a[m].data /\ b[m].height = a[m].height
    BY <1>1, <1>2, SetLinkRest
  <2> QED  BY <2>1, <2>2
<1>5. \A m \in Nodes : b[m].left = a[m].left /\ b[m].right = IF m = n THEN h[l].left ELSE a[m].right
  BY <1>2 DEF Heap, TNode
<1> HIDE DEF b
<1>6. /\ c \in Heap /\ SameData(c, b)
      /\ \A m \in Nodes : c[m].right = b[m].right /\ c[m].left = b[m].left
      /\ \A m \in Nodes : m # n => c[m].height = b[m].height
      /\ c[n].height = 1 + Max2(Height(b, b[n].left), Height(b, b[n].right))
  BY <1>4, UpdateHeightRest
<1> HIDE DEF c
<1>7. /\ SameData(f, c)
      /\ \A m \in Nodes : m # l => f[m].height = c[m].height
      /\ f[l].height = 1 + Max2(Height(c, c[l].left), Height(c, c[l].right))
  BY <1>0, <1>6, UpdateHeightRest
<1>8. \A m \in Ptr : Height(b, m) = Height(h, m)
  BY <1>2, <1>4 DEF Height, Ptr
<1>9. SameData(f, h)
  BY <1>2, <1>4, <1>6, <1>7 DEF SameData
<1>10. \A m \in Nodes \ {n, l} : f[m].height = h[m].height
  BY <1>2, <1>4, <1>6, <1>7
<1>11. f[n].height = 1 + Max2(Height(h, h[n].left), Height(h, h[l].left))
  <2>1. b[n].right = h[l].left /\ b[n].left = h[n].left /\ h[n].left \in Ptr
    BY <1>3, <1>5, HeapNode
  <2> QED  BY <1>1, <1>6, <1>7, <1>8, <2>1
<1>12. h[l].right \notin {l, n} => f[l].height = 1 + Max2(f[n].height, Height(h, h[l].right))
  <2> SUFFICES ASSUME h[l].right \notin {l, n} PROVE f[l].height = 1 + Max2(f[n].height, Height(h, h[l].right))
    OBVIOUS
  <2>1. c[l].right = h[l].right /\ c[l].left = n /\ h[l].right \in Ptr
    BY <1>3, <1>5, <1>6, HeapNode
  <2>2. Height(c, n) = f[n].height
    BY <1>1, <1>7 DEF Height
  <2>3. Height(c, h[l].right) = Height(h, h[l].right)
    BY <1>2, <1>4, <1>6, <2>1 DEF Height, Ptr
  <2> QED  BY <1>7, <2>1, <2>2, <2>3
<1> QED  BY <1>9, <1>10, <1>11, <1>12

\* g is h with n and its left child l turned to the right and n's parent q (NIL above the root) pointed to l.
RightTurn(g, h, S, r, q, n, l) ==
    /\ g \in Heap /\ l \in S /\ l # n /\ q \notin {n, l} /\ h[n].left = l
    /\ TreeOf(g, S, IF q = NIL THEN l ELSE r)
    /\ Leads(Lefts(g), Rights(g), IF q = NIL THEN l ELSE r, q, l)
    /\ SameItems(g, h) /\ SameData(g, h)
    /\ \A m \in Nodes : g[m].left = IF m = n THEN h[l].right
                                    ELSE IF m = q /\ h[m].left = n THEN l ELSE h[m].left
    /\ \A m \in Nodes : g[m].right = IF m = l THEN n
                                     ELSE IF m = q /\ h[m].right = n THEN l ELSE h[m].right
    /\ \A m \in Nodes \ {n, l} : g[m].height = h[m].height
    /\ g[n].height = 1 + Max2(Height(h, h[l].right), Height(h, h[n].right))
    /\ g[l].height = 1 + Max2(Height(h, h[l].left), g[n].height)

\* __rightRotate and the repointing of the parent turn the tree to the right.
LEMMA RightRotateTurns ==
    ASSUME NEW h \in Heap, NEW S, NEW r, TreeOf(h, S, r), NEW n \in S, NEW l \in Nodes, h[n].left = l,
           NEW q \in Ptr, Leads(Lefts(h), Rights(h), r, q, n),
           NEW g, g = Repoint(RightRotate(h, n).heap, q, n, l)
    PROVE  RightTurn(g, h, S, r, q, n, l)
<1> DEFINE f == RightRotate(h, n).heap
<1>1. /\ g \in Heap /\ l \in S /\ l # n /\ SameItems(g, h)
      /\ TreeOf(g, S, IF q = NIL THEN l ELSE r)
      /\ Leads(Lefts(g), Rights(g), IF q = NIL THEN l ELSE r, q, l)
  BY RightRotateTree
<1>2. /\ Lefts(h) \in Links /\ Rights(h) \in Links
      /\ \A m \in Nodes : Lefts(h)[m] = h[m].left /\ Rights(h)[m] = h[m].right
  BY HeapLinks
<1>3. /\ n \in Nodes /\ l # NIL /\ n # NIL
      /\ \A m \in Nodes : h[m].left = h[m].right => h[m].left = NIL
      /\ h[l].left \notin {l, n}
  <2>1. /\ S \subseteq Nodes /\ n \in Nodes /\ l # NIL /\ n # NIL
        /\ \A m \in Nodes : h[m].left = h[m].right => h[m].left = NIL
        /\ h[l].left # l
    BY <1>1, Children, NILAssumption
  <2>2. h[l].left # n
    <3>1. ASSUME h[l].left = n PROVE FALSE
      <4> DEFINE L == Lefts(h)
                 R == Rights(h)
      <4>1. L \in Links /\ R \in Links /\ IsTree(L, R, S, r) /\ n \in Nodes /\ l \in Nodes
            /\ L[n] = l /\ L[l] = n
        BY <1>1, <1>2, <2>1, <3>1 DEF TreeOf
      <4> HIDE DEF L, R
      <4>2. PICK up, rank, b : Tree(L, R, S, r, up, rank, b)
        BY <4>1 DEF IsTree
      <4>3. rank[l] < rank[n] /\ rank[n] < rank[l] /\ rank[l] \in Nat /\ rank[n] \in Nat
        BY <2>1, <4>1, <4>2, TreeFacts
      <4> QED  BY <4>3
    <3> QED  BY <3>1
  <2> QED  BY <2>1, <2>2
<1>4. /\ RightRotate(h, n).heap \in Heap
      /\ Lefts(f) = [Lefts(h) EXCEPT ![n] = Rights(h)[l]]
      /\ Rights(f) = [Rights(h) EXCEPT ![l] = n]
  BY <1>3, RightRotateLinks
<1>5. /\ q # n /\ q # l
      /\ \A m \in Nodes : TurnedLeft(Lefts(h), Rights(h), q, n, l)[m] =
            IF m = n THEN h[l].right ELSE IF m = q /\ h[m].left = n THEN l ELSE h[m].left
      /\ \A m \in Nodes : TurnedRight(Lefts(h), Rights(h), q, n, l)[m] =
            IF m = l THEN n ELSE IF m = q /\ h[m].right = n THEN l ELSE h[m].right
  <2> DEFINE L == Lefts(h)
             R == Rights(h)
  <2>1. L \in Links /\ R \in Links /\ IsTree(L, R, S, r) /\ L[n] = l /\ Leads(L, R, r, q, n)
    BY <1>2, <1>3 DEF TreeOf
  <2> HIDE DEF L, R
  <2>2. /\ q # n /\ q # l
        /\ \A m \in Nodes : TurnedLeft(L, R, q, n, l)[m] =
              IF m = n THEN R[l] ELSE IF m = q /\ L[m] = n THEN l ELSE L[m]
        /\ \A m \in Nodes : TurnedRight(L, R, q, n, l)[m] =
              IF m = l THEN n ELSE IF m = q /\ R[m] = n THEN l ELSE R[m]
    BY <2>1, RotateLinks
  <2> QED  BY <1>2, <2>2 DEF L, R
<1>6. q # NIL => q \in Nodes /\ n \in {f[q].left, f[q].right} /\ f[q].left # f[q].right
  <2> SUFFICES ASSUME q # NIL
               PROVE  q \in Nodes /\ n \in {f[q].left, f[q].right} /\ f[q].left # f[q].right
    OBVIOUS
  <2>1. q \in Nodes /\ n \in {h[q].left, h[q].right}
    BY <1>2 DEF Leads
  <2>2. Lefts(f)[q] = f[q].left /\ Rights(f)[q] = f[q].right
    BY <1>4, <2>1, HeapLinks, Zenon
  <2>3. f[q].left = h[q].left /\ f[q].right = h[q].right
    BY <1>2, <1>4, <1>5, <2>1, <2>2 DEF Links
  <2> QED  BY <1>3, <2>1, <2>3
<1> HIDE DEF f
<1>7. Lefts(g) = Subst(Lefts(f), q, n, l) /\ Rights(g) = Subst(Rights(f), q, n, l)
  <2>1. l \in Ptr /\ f \in Heap /\ g = Repoint(f, q, n, l)
    BY <1>4 DEF Ptr, f
  <2>2. /\ Lefts(Repoint(f, q, n, l)) = Subst(Lefts(f), q, n, l)
        /\ Rights(Repoint(f, q, n, l)) = Subst(Rights(f), q, n, l)
    BY <1>3, <1>6, <2>1, RepointLinks
  <2> QED  BY <2>1, <2>2
<1>8. /\ \A m \in Nodes : g[m].left = IF m = n THEN h[l].right
                                      ELSE IF m = q /\ h[m].left = n THEN l ELSE h[m].left
      /\ \A m \in Nodes : g[m].right = IF m = l THEN n
                                       ELSE IF m = q /\ h[m].right = n THEN l ELSE h[m].right
  <2>1. Lefts(g) = TurnedLeft(Lefts(h), Rights(h), q, n, l) /\ Rights(g) = TurnedRight(Lefts(h), Rights(h), q, n, l)
    BY <1>4, <1>7 DEF TurnedLeft, TurnedRight
  <2>2. \A m \in Nodes : Lefts(g)[m] = g[m].left /\ Rights(g)[m] = g[m].right
    BY <1>1, HeapLinks
  <2> QED  BY <1>5, <2>1, <2>2
<1>9. \A m \in Nodes : g[m].data = f[m].data /\ g[m].height = f[m].height
  <2>1. l \in Ptr /\ f \in Heap /\ g = Repoint(f, q, n, l)
    BY <1>4 DEF Ptr, f
  <2> QED  BY <1>3, <2>1, RepointRest
<1>10. /\ SameData(f, h)
       /\ \A m \in Nodes \ {n, l} : f[m].height = h[m].height
       /\ f[n].height = 1 + Max2(Height(h, h[l].right), Height(h, h[n].right))
       /\ f[l].height = 1 + Max2(Height(h, h[l].left), f[n].height)
  <2>1. f = RightRotate(h, n).heap
    BY DEF f
  <2> QED  BY <1>1, <1>3, <2>1, RightRotateRest
<1>11. SameData(g, h)
  BY <1>9, <1>10 DEF SameData
<1>12. /\ \A m \in Nodes \ {n, l} : g[m].height = h[m].height
       /\ g[n].height = 1 + Max2(Height(h, h[l].right), Height(h, h[n].right))
       /\ g[l].height = 1 + Max2(Height(h, h[l].left), g[n].height)
  BY <1>3, <1>9, <1>10
<1> QED  BY <1>1, <1>5, <1>8, <1>11, <1>12 DEF RightTurn


\* g is h with n and its right child l turned to the left and n's parent q (NIL above the root) pointed to l.
LeftTurn(g, h, S, r, q, n, l) ==
    /\ g \in Heap /\ l \in S /\ l # n /\ q \notin {n, l} /\ h[n].right = l
    /\ TreeOf(g, S, IF q = NIL THEN l ELSE r)
    /\ Leads(Lefts(g), Rights(g), IF q = NIL THEN l ELSE r, q, l)
    /\ SameItems(g, h) /\ SameData(g, h)
    /\ \A m \in Nodes : g[m].right = IF m = n THEN h[l].left
                                    ELSE IF m = q /\ h[m].right = n THEN l ELSE h[m].right
    /\ \A m \in Nodes : g[m].left = IF m = l THEN n
                                     ELSE IF m = q /\ h[m].left = n THEN l ELSE h[m].left
    /\ \A m \in Nodes \ {n, l} : g[m].height = h[m].height
    /\ g[n].height = 1 + Max2(Height(h, h[n].left), Height(h, h[l].left))
    /\ g[l].height = 1 + Max2(g[n].height, Height(h, h[l].right))

\* __leftRotate and the repointing of the parent turn the tree to the left.
LEMMA LeftRotateTurns ==
    ASSUME NEW h \in Heap, NEW S, NEW r, TreeOf(h, S, r), NEW n \in S, NEW l \in Nodes, h[n].right = l,
           NEW q \in Ptr, Leads(Lefts(h), Rights(h), r, q, n),
           NEW g, g = Repoint(LeftRotate(h, n).heap, q, n, l)
    PROVE  LeftTurn(g, h, S, r, q, n, l)
<1> DEFINE f == LeftRotate(h, n).heap
<1>1. /\ g \in Heap /\ l \in S /\ l # n /\ SameItems(g, h)
      /\ TreeOf(g, S, IF q = NIL THEN l ELSE r)
      /\ Leads(Lefts(g), Rights(g), IF q = NIL THEN l ELSE r, q, l)
  BY LeftRotateTree
<1>2. /\ Rights(h) \in Links /\ Lefts(h) \in Links
      /\ \A m \in Nodes : Rights(h)[m] = h[m].right /\ Lefts(h)[m] = h[m].left
  BY HeapLinks
<1>3. /\ n \in Nodes /\ l # NIL /\ n # NIL
      /\ \A m \in Nodes : h[m].right = h[m].left => h[m].right = NIL
      /\ h[l].right \notin {l, n}
  <2>1. /\ S \subseteq Nodes /\ n \in Nodes /\ l # NIL /\ n # NIL
        /\ \A m \in Nodes : h[m].right = h[m].left => h[m].right = NIL
        /\ h[l].right # l
    BY <1>1, Children, NILAssumption
  <2>2. h[l].right # n
    <3>1. ASSUME h[l].right = n PROVE FALSE
      <4> DEFINE L == Rights(h)
                 R == Lefts(h)
      <4>1. L \in Links /\ R \in Links /\ IsTree(L, R, S, r) /\ n \in Nodes /\ l \in Nodes
            /\ L[n] = l /\ L[l] = n
        BY <1>1, <1>2, <2>1, <3>1, Mirror DEF TreeOf
      <4> HIDE DEF L, R
      <4>2. PICK up, rank, b : Tree(L, R, S, r, up, rank, b)
        BY <4>1 DEF IsTree
      <4>3. rank[l] < rank[n] /\ rank[n] < rank[l] /\ rank[l] \in Nat /\ rank[n] \in Nat
        BY <2>1, <4>1, <4>2, TreeFacts
      <4> QED  BY <4>3
    <3> QED  BY <3>1
  <2> QED  BY <2>1, <2>2
<1>4. /\ LeftRotate(h, n).heap \in Heap
      /\ Rights(f) = [Rights(h) EXCEPT ![n] = Lefts(h)[l]]
      /\ Lefts(f) = [Lefts(h) EXCEPT ![l] = n]
  BY <1>3, LeftRotateLinks
<1>5. /\ q # n /\ q # l
      /\ \A m \in Nodes : TurnedLeft(Rights(h), Lefts(h), q, n, l)[m] =
            IF m = n THEN h[l].left ELSE IF m = q /\ h[m].right = n THEN l ELSE h[m].right
      /\ \A m \in Nodes : TurnedRight(Rights(h), Lefts(h), q, n, l)[m] =
            IF m = l THEN n ELSE IF m = q /\ h[m].left = n THEN l ELSE h[m].left
  <2> DEFINE L == Rights(h)
             R == Lefts(h)
  <2>1. L \in Links /\ R \in Links /\ IsTree(L, R, S, r) /\ L[n] = l /\ Leads(L, R, r, q, n)
    BY <1>2, <1>3, Mirror DEF TreeOf, Leads
  <2> HIDE DEF L, R
  <2>2. /\ q # n /\ q # l
        /\ \A m \in Nodes : TurnedLeft(L, R, q, n, l)[m] =
              IF m = n THEN R[l] ELSE IF m = q /\ L[m] = n THEN l ELSE L[m]
        /\ \A m \in Nodes : TurnedRight(L, R, q, n, l)[m] =
              IF m = l THEN n ELSE IF m = q /\ R[m] = n THEN l ELSE R[m]
    BY <2>1, RotateLinks
  <2> QED  BY <1>2, <2>2 DEF L, R
<1>6. q # NIL => q \in Nodes /\ n \in {f[q].right, f[q].left} /\ f[q].right # f[q].left
  <2> SUFFICES ASSUME q # NIL
               PROVE  q \in Nodes /\ n \in {f[q].right, f[q].left} /\ f[q].right # f[q].left
    OBVIOUS
  <2>1. q \in Nodes /\ n \in {h[q].right, h[q].left}
    BY <1>2 DEF Leads
  <2>2. Rights(f)[q] = f[q].right /\ Lefts(f)[q] = f[q].left
    BY <1>4, <2>1, HeapLinks, Zenon
  <2>3. f[q].right = h[q].right /\ f[q].left = h[q].left
    BY <1>2, <1>4, <1>5, <2>1, <2>2 DEF Links
  <2> QED  BY <1>3, <2>1, <2>3
<1> HIDE DEF f
<1>7. Rights(g) = Subst(Rights(f), q, n, l) /\ Lefts(g) = Subst(Lefts(f), q, n, l)
  <2>1. l \in Ptr /\ f \in Heap /\ g = Repoint(f, q, n, l)
    BY <1>4 DEF Ptr, f
  <2>2. /\ Rights(Repoint(f, q, n, l)) = Subst(Rights(f), q, n, l)
        /\ Lefts(Repoint(f, q, n, l)) = Subst(Lefts(f), q, n, l)
    BY <1>3, <1>6, <2>1, RepointLinks
  <2> QED  BY <2>1, <2>2
<1>8. /\ \A m \in Nodes : g[m].right = IF m = n THEN h[l].left
                                      ELSE IF m = q /\ h[m].right = n THEN l ELSE h[m].right
      /\ \A m \in Nodes : g[m].left = IF m = l THEN n
                                       ELSE IF m = q /\ h[m].left = n THEN l ELSE h[m].left
  <2>1. Rights(g) = TurnedLeft(Rights(h), Lefts(h), q, n, l) /\ Lefts(g) = TurnedRight(Rights(h), Lefts(h), q, n, l)
    BY <1>4, <1>7 DEF TurnedLeft, TurnedRight
  <2>2. \A m \in Nodes : Rights(g)[m] = g[m].right /\ Lefts(g)[m] = g[m].left
    BY <1>1, HeapLinks
  <2> QED  BY <1>5, <2>1, <2>2
<1>9. \A m \in Nodes : g[m].data = f[m].data /\ g[m].height = f[m].height
  <2>1. l \in Ptr /\ f \in Heap /\ g = Repoint(f, q, n, l)
    BY <1>4 DEF Ptr, f
  <2> QED  BY <1>3, <2>1, RepointRest
<1>10. /\ SameData(f, h)
       /\ \A m \in Nodes \ {n, l} : f[m].height = h[m].height
       /\ f[n].height = 1 + Max2(Height(h, h[n].left), Height(h, h[l].left))
       /\ f[l].height = 1 + Max2(f[n].height, Height(h, h[l].right))
  <2>1. f = LeftRotate(h, n).heap
    BY DEF f
  <2> QED  BY <1>1, <1>3, <2>1, LeftRotateRest
<1>11. SameData(g, h)
  BY <1>9, <1>10 DEF SameData
<1>12. /\ \A m \in Nodes \ {n, l} : g[m].height = h[m].height
       /\ g[n].height = 1 + Max2(Height(h, h[n].left), Height(h, h[l].left))
       /\ g[l].height = 1 + Max2(g[n].height, Height(h, h[l].right))
  BY <1>3, <1>9, <1>10
<1> QED  BY <1>1, <1>5, <1>8, <1>11, <1>12 DEF LeftTurn

\* g is what rebalancing the subtree of n makes of h: nothing, one turn, or a turn of n's child and then of n,
\* with top the node now at the subtree's head.
Rebalancing(g, h, S, r, q, n, top) ==
    \/ top = n /\ g = h /\ BalanceFactor(h, n) \in -1 .. 1
    \/ /\ BalanceFactor(h, n) > 1 /\ BalanceFactor(h, h[n].left) >= 0
       /\ top = h[n].left /\ RightTurn(g, h, S, r, q, n, top)
    \/ /\ BalanceFactor(h, n) > 1 /\ BalanceFactor(h, h[n].left) < 0
       /\ top = h[h[n].left].right
       /\ \E w : LeftTurn(w, h, S, r, n, h[n].left, top) /\ RightTurn(g, w, S, r, q, n, top)
    \/ /\ BalanceFactor(h, n) < -1 /\ BalanceFactor(h, h[n].right) <= 0
       /\ top = h[n].right /\ LeftTurn(g, h, S, r, q, n, top)
    \/ /\ BalanceFactor(h, n) < -1 /\ BalanceFactor(h, h[n].right) > 0
       /\ top = h[h[n].right].left
       /\ \E w : RightTurn(w, h, S, r, n, h[n].right, top) /\ LeftTurn(g, w, S, r, q, n, top)

\* __rebalance_subtree makes nothing or the turns Rebalancing tells.
LEMMA RebalanceTurns ==
    ASSUME NEW h \in Heap, NEW S, NEW r, TreeOf(h, S, r), NEW n \in S,
           NEW q \in Ptr, Leads(Lefts(h), Rights(h), r, q, n),
           NEW b, b = RebalanceSubtree(h, n), NEW g, g = Repoint(b.heap, q, n, b.top)
    PROVE  Rebalancing(g, h, S, r, q, n, b.top)
<1> DEFINE x == BalanceFactor(h, n)
           xl == BalanceFactor(h, h[n].left)
           xr == BalanceFactor(h, h[n].right)
           l == h[n].left
           k == h[n].right
<1>1. n \in Nodes /\ n # NIL /\ n \in Ptr
  BY Children, NILAssumption DEF Ptr
<1>2. /\ x \in Int
      /\ x > 1 => l \in Nodes /\ xl \in Int
      /\ x < -1 => k \in Nodes /\ xr \in Int
  BY <1>1, HighSide
<1>3. /\ \A m \in Nodes : Lefts(h)[m] = h[m].left /\ Rights(h)[m] = h[m].right
      /\ Lefts(h) \in Links /\ Rights(h) \in Links
  BY HeapLinks
<1>4. CASE x > 1 /\ xl >= 0
  <2>1. b = RightRotate(h, n)
    BY <1>2, <1>4 DEF RebalanceSubtree
  <2>2. l \in Nodes /\ b.top = l
    BY <1>2, <1>4, <2>1 DEF RightRotate
  <2>3. g = Repoint(RightRotate(h, n).heap, q, n, l)
    BY <2>1, <2>2
  <2>5. BalanceFactor(h, n) > 1 /\ BalanceFactor(h, h[n].left) >= 0
    BY <1>4
  <2> HIDE DEF l, x, xl, xr
  <2>4. h[n].left = l
    BY DEF l
  <2>6. RightTurn(g, h, S, r, q, n, l)
    BY <2>2, <2>3, <2>4, RightRotateTurns
  <2> QED  BY <2>2, <2>4, <2>5, <2>6 DEF Rebalancing
<1>5. CASE x < -1 /\ xr <= 0
  <2>1. b = LeftRotate(h, n)
    BY <1>2, <1>5 DEF RebalanceSubtree
  <2>2. k \in Nodes /\ b.top = k
    BY <1>2, <1>5, <2>1 DEF LeftRotate
  <2>3. g = Repoint(LeftRotate(h, n).heap, q, n, k)
    BY <2>1, <2>2
  <2>5. BalanceFactor(h, n) < -1 /\ BalanceFactor(h, h[n].right) <= 0
    BY <1>5
  <2> HIDE DEF k, x, xr, xl
  <2>4. h[n].right = k
    BY DEF k
  <2>6. LeftTurn(g, h, S, r, q, n, k)
    BY <2>2, <2>3, <2>4, LeftRotateTurns
  <2> QED  BY <2>2, <2>4, <2>5, <2>6 DEF Rebalancing
<1>6. CASE x > 1 /\ xl < 0
  <2> DEFINE c == h[l].right
             u == LeftRotate(h, l)
             v == [u.heap EXCEPT ![n].left = u.top]
  <2>1. b = RightRotate(v, n)
    BY <1>2, <1>6 DEF RebalanceSubtree, RotateLeftChild
  <2>2. l \in Nodes /\ c \in Nodes
    BY <1>2, <1>6, HighSide
  <2>3. h[n].left = l /\ h[l].right = c
    OBVIOUS
  <2>15. BalanceFactor(h, n) > 1 /\ BalanceFactor(h, h[n].left) < 0
    BY <1>6
  <2> HIDE DEF l, x, xl, xr
  <2>4. u.top = c
    BY DEF LeftRotate
  <2> HIDE DEF c
  <2>5. l \in S /\ l # n /\ l # h[n].right /\ l # NIL /\ c # l /\ c # NIL
    BY <1>1, <2>2, <2>3, Children, NILAssumption
  <2>6. Leads(Lefts(h), Rights(h), r, n, l)
    BY <1>1, <1>3, <2>3 DEF Leads
  <2> DEFINE w == Repoint(u.heap, n, l, c)
  <2>7. LeftTurn(w, h, S, r, n, l, c)
    BY <1>1, <2>2, <2>3, <2>5, <2>6, LeftRotateTurns
  <2>16. u.heap[n].left = l /\ u.heap[n].right = h[n].right /\ u.heap \in Heap
    <3>1. /\ u.heap \in Heap
          /\ Rights(u.heap) = [Rights(h) EXCEPT ![l] = Lefts(h)[c]]
          /\ Lefts(u.heap) = [Lefts(h) EXCEPT ![c] = l]
      BY <2>2, <2>3, LeftRotateLinks
    <3>2. c # n
      BY <2>7 DEF LeftTurn
    <3>3. Lefts(u.heap)[n] = u.heap[n].left /\ Rights(u.heap)[n] = u.heap[n].right
      BY <1>1, <3>1, HeapLinks, Zenon
    <3> QED  BY <1>1, <1>3, <2>3, <2>5, <3>1, <3>2, <3>3 DEF Links
  <2>8. w = v
    BY <1>1, <2>4, <2>5, <2>16 DEF Repoint
  <2>9. v[n].left = c
    BY <1>1, <2>4, <2>16 DEF Heap, TNode
  <2> HIDE DEF w, v, u
  <2>10. w \in Heap /\ TreeOf(w, S, r) /\ c # n /\ w[n].left = c
    BY <1>1, <2>7, <2>8, <2>9 DEF LeftTurn
  <2>11. b.top = c
    BY <2>1, <2>9 DEF RightRotate
  <2>12. g = Repoint(RightRotate(w, n).heap, q, n, c)
    BY <2>1, <2>8, <2>11
  <2>13. Leads(Lefts(w), Rights(w), r, q, n)
    <3>1. CASE q = NIL
      BY <3>1 DEF Leads
    <3>2. CASE q # NIL
      <4>1. q \in Nodes /\ n \in {Lefts(h)[q], Rights(h)[q]}
        BY <3>2 DEF Leads
      <4>2. q \notin {n, l, c}
        BY <1>1, <1>3, <2>2, <2>3, <4>1, Above DEF TreeOf
      <4>3. w[q].left = h[q].left /\ w[q].right = h[q].right
        BY <2>7, <4>1, <4>2 DEF LeftTurn
      <4>4. Lefts(w)[q] = w[q].left /\ Rights(w)[q] = w[q].right
        BY <2>10, <4>1, HeapLinks
      <4> QED  BY <1>3, <3>2, <4>1, <4>3, <4>4 DEF Leads
    <3> QED  BY <3>1, <3>2
  <2>14. RightTurn(g, w, S, r, q, n, c)
    BY <2>2, <2>10, <2>12, <2>13, RightRotateTurns
  <2> QED  BY <2>3, <2>7, <2>11, <2>14, <2>15 DEF Rebalancing
<1>7. CASE x < -1 /\ xr > 0
  <2> DEFINE c == h[k].left
             u == RightRotate(h, k)
             v == [u.heap EXCEPT ![n].right = u.top]
  <2>1. b = LeftRotate(v, n)
    BY <1>2, <1>7 DEF RebalanceSubtree, RotateRightChild
  <2>2. k \in Nodes /\ c \in Nodes
    BY <1>2, <1>7, HighSide
  <2>3. h[n].right = k /\ h[k].left = c
    OBVIOUS
  <2>15. BalanceFactor(h, n) < -1 /\ BalanceFactor(h, h[n].right) > 0
    BY <1>7
  <2> HIDE DEF k, x, xr, xl
  <2>4. u.top = c
    BY DEF RightRotate
  <2> HIDE DEF c
  <2>5. k \in S /\ k # n /\ k # h[n].left /\ k # NIL /\ c # k /\ c # NIL
    BY <1>1, <2>2, <2>3, Children, NILAssumption
  <2>6. Leads(Lefts(h), Rights(h), r, n, k)
    BY <1>1, <1>3, <2>3 DEF Leads
  <2> DEFINE w == Repoint(u.heap, n, k, c)
  <2>7. RightTurn(w, h, S, r, n, k, c)
    BY <1>1, <2>2, <2>3, <2>5, <2>6, RightRotateTurns
  <2>16. u.heap[n].right = k /\ u.heap[n].left = h[n].left /\ u.heap \in Heap
    <3>1. /\ u.heap \in Heap
          /\ Lefts(u.heap) = [Lefts(h) EXCEPT ![k] = Rights(h)[c]]
          /\ Rights(u.heap) = [Rights(h) EXCEPT ![c] = k]
      BY <2>2, <2>3, RightRotateLinks
    <3>2. c # n
      BY <2>7 DEF RightTurn
    <3>3. Rights(u.heap)[n] = u.heap[n].right /\ Lefts(u.heap)[n] = u.heap[n].left
      BY <1>1, <3>1, HeapLinks, Zenon
    <3> QED  BY <1>1, <1>3, <2>3, <2>5, <3>1, <3>2, <3>3 DEF Links
  <2>8. w = v
    BY <1>1, <2>4, <2>5, <2>16 DEF Repoint
  <2>9. v[n].right = c
    BY <1>1, <2>4, <2>16 DEF Heap, TNode
  <2> HIDE DEF w, v, u
  <2>10. w \in Heap /\ TreeOf(w, S, r) /\ c # n /\ w[n].right = c
    BY <1>1, <2>7, <2>8, <2>9 DEF RightTurn
  <2>11. b.top = c
    BY <2>1, <2>9 DEF LeftRotate
  <2>12. g = Repoint(LeftRotate(w, n).heap, q, n, c)
    BY <2>1, <2>8, <2>11
  <2>13. Leads(Lefts(w), Rights(w), r, q, n)
    <3>1. CASE q = NIL
      BY <3>1 DEF Leads
    <3>2. CASE q # NIL
      <4>1. q \in Nodes /\ n \in {Lefts(h)[q], Rights(h)[q]}
        BY <3>2 DEF Leads
      <4>2. q \notin {n, k, c}
        BY <1>1, <1>3, <2>2, <2>3, <4>1, Above DEF TreeOf
      <4>3. w[q].right = h[q].right /\ w[q].left = h[q].left
        BY <2>7, <4>1, <4>2 DEF RightTurn
      <4>4. Rights(w)[q] = w[q].right /\ Lefts(w)[q] = w[q].left
        BY <2>10, <4>1, HeapLinks
      <4> QED  BY <1>3, <3>2, <4>1, <4>3, <4>4 DEF Leads
    <3> QED  BY <3>1, <3>2
  <2>14. LeftTurn(g, w, S, r, q, n, c)
    BY <2>2, <2>10, <2>12, <2>13, LeftRotateTurns
  <2> QED  BY <2>3, <2>7, <2>11, <2>14, <2>15 DEF Rebalancing
<1>8. CASE x \in -1 .. 1
  <2>1. b = [top |-> n, heap |-> h]
    BY <1>2, <1>8 DEF RebalanceSubtree
  <2>2. b.top = n /\ b.heap = h /\ g = Repoint(h, q, n, n)
    BY <2>1
  <2>3. q # NIL => q \in Nodes /\ n \in {h[q].left, h[q].right}
    BY <1>3 DEF Leads
  <2>4. g = h
    BY <2>2, <2>3 DEF Repoint, Heap, TNode
  <2> QED  BY <1>8, <2>2, <2>4 DEF Rebalancing
<1> QED  BY <1>2, <1>4, <1>5, <1>6, <1>7, <1>8

-----------------------------------------------------------------------------
(* Rotations keep the order.                                                *)

\* A child in a tree is a node of the tree, has no other parent, and points neither to itself nor back.
LEMMA Kinship ==
    ASSUME NEW L \in Links, NEW R \in Links, NEW S, NEW r, IsTree(L, R, S, r),
           NEW n \in Nodes, NEW l \in Nodes, l \in {L[n], R[n]}
    PROVE  /\ n \in S /\ l \in S /\ l # n /\ l # r
           /\ L[l] \notin {l, n} /\ R[l] \notin {l, n} /\ n \notin {L[n], R[n]}
           /\ \A m \in Nodes \ {n} : l \notin {L[m], R[m]}
           /\ L[n] # R[n]
<1>1. PICK up, rank, b : Tree(L, R, S, r, up, rank, b)
  BY DEF IsTree
<1>2. /\ \A m \in Nodes, x \in Nodes :
          x \in {L[m], R[m]} => m \in S /\ x \in S /\ up[x] = m /\ rank[x] < rank[m]
      /\ \A m \in Nodes : rank[m] \in Nat
      /\ r # NIL => up[r] = NIL
      /\ \A m \in S : L[m] = R[m] => L[m] = NIL
  BY <1>1 DEF Tree
<1>3. n # NIL /\ l # NIL
  BY NILAssumption
<1>4. n \in S /\ l \in S /\ up[l] = n /\ rank[l] < rank[n] /\ rank[n] \in Nat /\ rank[l] \in Nat
  BY <1>2
<1>5. L[n] # R[n] /\ l # n /\ l # r
  BY <1>2, <1>3, <1>4
<1>6. L[l] \notin {l, n} /\ R[l] \notin {l, n} /\ n \notin {L[n], R[n]}
  BY <1>2, <1>4
<1>7. \A m \in Nodes \ {n} : l \notin {L[m], R[m]}
  BY <1>2, <1>4
<1> QED  BY <1>4, <1>5, <1>6, <1>7

\* Whoever points to n is its parent.
LEMMA Parenthood ==
    ASSUME NEW L \in Links, NEW R \in Links, NEW S, NEW r, IsTree(L, R, S, r),
           NEW n \in S, NEW q \in Ptr, Leads(L, R, r, q, n)
    PROVE  \A m \in Nodes : n \in {L[m], R[m]} => m = q
<1>1. PICK up, rank, b : Tree(L, R, S, r, up, rank, b)
  BY DEF IsTree
<1>2. /\ \A m \in Nodes, x \in Nodes :
          x \in {L[m], R[m]} => m \in S /\ x \in S /\ up[x] = m
      /\ r # NIL => up[r] = NIL
      /\ n \in Nodes
  BY <1>1 DEF Tree
<1>3. CASE q = NIL
  BY <1>2, <1>3, NILAssumption DEF Leads
<1>4. CASE q # NIL
  BY <1>2, <1>4 DEF Leads
<1> QED  BY <1>3, <1>4

\* The keys each node holds.
Keys(h) == [m \in Nodes |-> ToSet(h[m].ids)]

\* span divides the keys of the nodes of S in h.
HeapSpans(h, S, span) == Spans(Lefts(h), Rights(h), Keys(h), S, span)

\* The keys of a node are IDs, and a node with items has some.
LEMMA KeysOf ==
    ASSUME NEW h \in Heap
    PROVE  \A m \in Nodes : Keys(h)[m] \in SUBSET ID /\ (h[m].ids # <<>> => Keys(h)[m] # {})
                            /\ Keys(h)[m] = {h[m].ids[i] : i \in 1 .. Len(h[m].ids)}
<1> SUFFICES ASSUME NEW m \in Nodes
             PROVE  Keys(h)[m] \in SUBSET ID /\ (h[m].ids # <<>> => Keys(h)[m] # {})
                            /\ Keys(h)[m] = {h[m].ids[i] : i \in 1 .. Len(h[m].ids)}
  OBVIOUS
<1>1. h[m].ids \in Seq(ID)
  BY HeapNode
<1>2. Keys(h)[m] = {h[m].ids[i] : i \in 1 .. Len(h[m].ids)}
  BY <1>1, LenProperties DEF Keys, ToSet
<1>3. h[m].ids # <<>> => 1 \in 1 .. Len(h[m].ids)
  BY <1>1, EmptySeq, LenProperties
<1>4. \A i \in 1 .. Len(h[m].ids) : h[m].ids[i] \in ID
  BY <1>1, ElementOfSeq
<1> QED  BY <1>2, <1>3, <1>4, Zenon

\* The same items, the same keys.
LEMMA SameItemsKeys ==
    ASSUME NEW g, NEW h, SameItems(g, h) PROVE Keys(g) = Keys(h)
BY DEF SameItems, Keys

\* A turn to the right keeps the keys divided.
LEMMA RightTurnSpans ==
    ASSUME NEW h \in Heap, NEW S, NEW r, TreeOf(h, S, r), NEW n \in S, NEW l \in Nodes, NEW q \in Ptr,
           Leads(Lefts(h), Rights(h), r, q, n), NEW g, RightTurn(g, h, S, r, q, n, l),
           \A m \in S : h[m].ids # <<>>, NEW span, HeapSpans(h, S, span)
    PROVE  \E sp : HeapSpans(g, S, sp)
<1> DEFINE L == Lefts(h)
           R == Rights(h)
           K == Keys(h)
           L2 == Lefts(g)
           R2 == Rights(g)
<1>1. /\ L \in Links /\ R \in Links /\ L2 \in Links /\ R2 \in Links
      /\ \A m \in Nodes : L[m] = h[m].left /\ R[m] = h[m].right
      /\ \A m \in Nodes : L2[m] = g[m].left /\ R2[m] = g[m].right
  BY HeapLinks DEF RightTurn
<1>2. S \subseteq Nodes /\ n \in Nodes /\ IsTree(L, R, S, r) /\ L[n] = l /\ Leads(L, R, r, q, n)
      /\ l \in S /\ l # n /\ q # n /\ q # l /\ Spans(L, R, K, S, span)
      /\ K[n] # {} /\ K[l] # {}
  BY <1>1, Children, KeysOf DEF RightTurn, TreeOf, HeapSpans
<1>3. /\ \A m \in Nodes : L2[m] = IF m = n THEN R[l] ELSE IF m = q /\ L[m] = n THEN l ELSE L[m]
      /\ \A m \in Nodes : R2[m] = IF m = l THEN n ELSE IF m = q /\ R[m] = n THEN l ELSE R[m]
  BY <1>1 DEF RightTurn
<1>4. Keys(g) = K
  BY SameItemsKeys DEF RightTurn
<1> HIDE DEF L, R, K, L2, R2
<1>5. /\ L[l] \notin {l, n} /\ R[l] \notin {l, n} /\ n \notin {L[n], R[n]}
      /\ \A m \in Nodes \ {n} : l \notin {L[m], R[m]}
      /\ L[n] # R[n]
  BY <1>1, <1>2, Kinship
<1>6. \A m \in Nodes : n \in {L[m], R[m]} => m = q
  BY <1>1, <1>2, Parenthood
<1>7. /\ L2[n] = R[l] /\ R2[n] = R[n] /\ L2[l] = L[l] /\ R2[l] = n
  BY <1>2, <1>3, <1>5
<1>8. \A m \in S \ {n, l} : (L2[m] = L[m] /\ L[m] # n) \/ (L[m] = n /\ L2[m] = l)
  BY <1>2, <1>3, <1>6
<1>9. \A m \in S \ {n, l} : (R2[m] = R[m] /\ R[m] # n) \/ (R[m] = n /\ R2[m] = l)
  BY <1>2, <1>3, <1>6
<1>10. \A m \in S \ {n} : l \notin {L[m], R[m]}
  BY <1>2, <1>5
<1>11. \E sp : Spans(L2, R2, K, S, sp)
  <2>1. /\ l # n /\ L[n] = l /\ K[n] # {} /\ K[l] # {} /\ R[n] # l /\ R[n] # n
        /\ L[l] # l /\ R[l] # l /\ L[l] # n /\ R[l] # n /\ l \in S
    BY <1>2, <1>5
  <2> QED  BY <1>1, <1>2, <1>7, <1>8, <1>9, <1>10, <2>1, SpansTurnRight
<1> QED  BY <1>4, <1>11 DEF HeapSpans, L2, R2, K
\* A turn to the left keeps the keys divided.
LEMMA LeftTurnSpans ==
    ASSUME NEW h \in Heap, NEW S, NEW r, TreeOf(h, S, r), NEW n \in S, NEW l \in Nodes, NEW q \in Ptr,
           Leads(Lefts(h), Rights(h), r, q, n), NEW g, LeftTurn(g, h, S, r, q, n, l),
           \A m \in S : h[m].ids # <<>>, NEW span, HeapSpans(h, S, span)
    PROVE  \E sp : HeapSpans(g, S, sp)
<1> DEFINE L == Lefts(h)
           R == Rights(h)
           K == Keys(h)
           L2 == Lefts(g)
           R2 == Rights(g)
<1>1. /\ L \in Links /\ R \in Links /\ L2 \in Links /\ R2 \in Links
      /\ \A m \in Nodes : L[m] = h[m].left /\ R[m] = h[m].right
      /\ \A m \in Nodes : L2[m] = g[m].left /\ R2[m] = g[m].right
  BY HeapLinks DEF LeftTurn
<1>2. S \subseteq Nodes /\ n \in Nodes /\ IsTree(L, R, S, r) /\ R[n] = l /\ Leads(L, R, r, q, n)
      /\ l \in S /\ l # n /\ q # n /\ q # l /\ Spans(L, R, K, S, span)
      /\ K[n] # {} /\ K[l] # {}
  BY <1>1, Children, KeysOf DEF LeftTurn, TreeOf, HeapSpans
<1>3. /\ \A m \in Nodes : L2[m] = IF m = l THEN n ELSE IF m = q /\ L[m] = n THEN l ELSE L[m]
      /\ \A m \in Nodes : R2[m] = IF m = n THEN L[l] ELSE IF m = q /\ R[m] = n THEN l ELSE R[m]
  BY <1>1 DEF LeftTurn
<1>4. Keys(g) = K
  BY SameItemsKeys DEF LeftTurn
<1> HIDE DEF L, R, K, L2, R2
<1>5. /\ L[l] \notin {l, n} /\ R[l] \notin {l, n} /\ n \notin {L[n], R[n]}
      /\ \A m \in Nodes \ {n} : l \notin {L[m], R[m]}
      /\ L[n] # R[n]
  BY <1>1, <1>2, Kinship
<1>6. \A m \in Nodes : n \in {L[m], R[m]} => m = q
  BY <1>1, <1>2, Parenthood
<1>7. /\ R2[n] = L[l] /\ L2[n] = L[n] /\ R2[l] = R[l] /\ L2[l] = n
  BY <1>2, <1>3, <1>5
<1>8. \A m \in S \ {n, l} : (L2[m] = L[m] /\ L[m] # n) \/ (L[m] = n /\ L2[m] = l)
  BY <1>2, <1>3, <1>6
<1>9. \A m \in S \ {n, l} : (R2[m] = R[m] /\ R[m] # n) \/ (R[m] = n /\ R2[m] = l)
  BY <1>2, <1>3, <1>6
<1>10. \A m \in S \ {n} : l \notin {L[m], R[m]}
  BY <1>2, <1>5
<1>11. \E sp : Spans(L2, R2, K, S, sp)
  <2>1. /\ l # n /\ R[n] = l /\ K[n] # {} /\ K[l] # {} /\ L[n] # l /\ L[n] # n
        /\ L[l] # l /\ R[l] # l /\ L[l] # n /\ R[l] # n /\ l \in S
    BY <1>2, <1>5
  <2> QED  BY <1>1, <1>2, <1>7, <1>8, <1>9, <1>10, <2>1, SpansTurnLeft
<1> QED  BY <1>4, <1>11 DEF HeapSpans, L2, R2, K

\* Rebalancing a subtree keeps the keys divided.
LEMMA RebalanceSpans ==
    ASSUME NEW h \in Heap, NEW S, NEW r, TreeOf(h, S, r), NEW n \in S,
           NEW q \in Ptr, Leads(Lefts(h), Rights(h), r, q, n), NEW top,
           NEW g, Rebalancing(g, h, S, r, q, n, top),
           \A m \in S : h[m].ids # <<>>, NEW span, HeapSpans(h, S, span)
    PROVE  \E sp : HeapSpans(g, S, sp)
<1>0. S \subseteq Nodes /\ n \in Nodes /\ n # NIL /\ n \in Ptr
  BY Children, NILAssumption DEF Ptr
<1>1. CASE g = h
  BY <1>1
<1>2. ASSUME NEW l \in Nodes, RightTurn(g, h, S, r, q, n, l) PROVE \E sp : HeapSpans(g, S, sp)
  BY <1>2, RightTurnSpans
<1>3. ASSUME NEW l \in Nodes, LeftTurn(g, h, S, r, q, n, l) PROVE \E sp : HeapSpans(g, S, sp)
  BY <1>3, LeftTurnSpans
<1>4. ASSUME NEW l \in Nodes, l = h[n].left, NEW c \in Nodes, c = h[l].right, NEW w,
             LeftTurn(w, h, S, r, n, l, c), RightTurn(g, w, S, r, q, n, c)
      PROVE \E sp : HeapSpans(g, S, sp)
  <2>1. l \in S
    BY <1>0, <1>4, Children, NILAssumption
  <2>2. Leads(Lefts(h), Rights(h), r, n, l)
    BY <1>0, <1>4, HeapLinks DEF Leads
  <2>3. PICK sp : HeapSpans(w, S, sp)
    BY <1>0, <1>4, <2>1, <2>2, LeftTurnSpans
  <2>4. w \in Heap /\ TreeOf(w, S, r) /\ SameItems(w, h)
    BY <1>0, <1>4, Zenon DEF LeftTurn
  <2>5. \A m \in S : w[m].ids # <<>>
    BY <1>0, <2>4 DEF SameItems
  <2>6. Leads(Lefts(w), Rights(w), r, q, n)
    <3>1. CASE q = NIL
      BY <3>1 DEF Leads
    <3>2. CASE q # NIL
      <4>1. q \in Nodes /\ n \in {h[q].left, h[q].right}
        BY <3>2, HeapLinks DEF Leads
      <4>2. q \notin {n, l, c}
        <5> DEFINE L == Lefts(h)
                   R == Rights(h)
        <5>1. /\ L \in Links /\ R \in Links /\ IsTree(L, R, S, r)
              /\ n \in {L[q], R[q]} /\ l \in {L[n], R[n]} /\ c \in {L[l], R[l]}
          BY <1>0, <1>4, <4>1, HeapLinks DEF TreeOf
        <5> HIDE DEF L, R
        <5> QED  BY <1>0, <4>1, <5>1, Above
      <4>3. w[q].left = h[q].left /\ w[q].right = h[q].right
        BY <1>4, <4>1, <4>2, Zenon DEF LeftTurn
      <4>4. Lefts(w)[q] = w[q].left /\ Rights(w)[q] = w[q].right
        BY <2>4, <4>1, HeapLinks
      <4> QED  BY <3>2, <4>1, <4>3, <4>4 DEF Leads
    <3> QED  BY <3>1, <3>2
  <2> QED  BY <1>4, <2>3, <2>4, <2>5, <2>6, RightTurnSpans
<1>5. ASSUME NEW l \in Nodes, l = h[n].right, NEW c \in Nodes, c = h[l].left, NEW w,
             RightTurn(w, h, S, r, n, l, c), LeftTurn(g, w, S, r, q, n, c)
      PROVE \E sp : HeapSpans(g, S, sp)
  <2>1. l \in S
    BY <1>0, <1>5, Children, NILAssumption
  <2>2. Leads(Lefts(h), Rights(h), r, n, l)
    BY <1>0, <1>5, HeapLinks DEF Leads
  <2>3. PICK sp : HeapSpans(w, S, sp)
    BY <1>0, <1>5, <2>1, <2>2, RightTurnSpans
  <2>4. w \in Heap /\ TreeOf(w, S, r) /\ SameItems(w, h)
    BY <1>0, <1>5, Zenon DEF RightTurn
  <2>5. \A m \in S : w[m].ids # <<>>
    BY <1>0, <2>4 DEF SameItems
  <2>6. Leads(Lefts(w), Rights(w), r, q, n)
    <3>1. CASE q = NIL
      BY <3>1 DEF Leads
    <3>2. CASE q # NIL
      <4>1. q \in Nodes /\ n \in {h[q].left, h[q].right}
        BY <3>2, HeapLinks DEF Leads
      <4>2. q \notin {n, l, c}
        <5> DEFINE L == Lefts(h)
                   R == Rights(h)
        <5>1. /\ L \in Links /\ R \in Links /\ IsTree(L, R, S, r)
              /\ n \in {L[q], R[q]} /\ l \in {L[n], R[n]} /\ c \in {L[l], R[l]}
          BY <1>0, <1>5, <4>1, HeapLinks DEF TreeOf
        <5> HIDE DEF L, R
        <5> QED  BY <1>0, <4>1, <5>1, Above
      <4>3. w[q].left = h[q].left /\ w[q].right = h[q].right
        BY <1>5, <4>1, <4>2 DEF RightTurn
      <4>4. Lefts(w)[q] = w[q].left /\ Rights(w)[q] = w[q].right
        BY <2>4, <4>1, HeapLinks
      <4> QED  BY <3>2, <4>1, <4>3, <4>4 DEF Leads
    <3> QED  BY <3>1, <3>2
  <2> QED  BY <1>5, <2>3, <2>4, <2>5, <2>6, LeftTurnSpans
<1>6. BalanceFactor(h, n) > 1 => h[n].left \in Nodes
  BY <1>0, HighSide
<1>7. BalanceFactor(h, n) < -1 => h[n].right \in Nodes
  BY <1>0, HighSide
<1>8. BalanceFactor(h, n) > 1 /\ BalanceFactor(h, h[n].left) < 0 => h[h[n].left].right \in Nodes
  BY <1>6, HighSide
<1>9. BalanceFactor(h, n) < -1 /\ BalanceFactor(h, h[n].right) > 0 => h[h[n].right].left \in Nodes
  BY <1>7, HighSide
<1> QED  BY <1>1, <1>2, <1>3, <1>4, <1>5, <1>6, <1>7, <1>8, <1>9, <1>0, HighSide DEF Rebalancing

-----------------------------------------------------------------------------
(* The elements of the sequences the node operations make.                  *)

\* The elements and the length of a subsequence.
LEMMA SliceElements ==
    ASSUME NEW T, NEW s \in Seq(T), NEW m \in Nat, m >= 1, NEW n \in Int, n <= Len(s)
    PROVE  /\ SubSeq(s, m, n) \in Seq(T)
           /\ Len(SubSeq(s, m, n)) = IF m <= n THEN n - m + 1 ELSE 0
           /\ \A k \in 1 .. Len(SubSeq(s, m, n)) : SubSeq(s, m, n)[k] = s[m + k - 1]
<1>1. \A i \in m .. n : s[i] \in T
  BY ElementOfSeq, LenProperties
<1>2. /\ SubSeq(s, m, n) \in Seq(T)
      /\ Len(SubSeq(s, m, n)) = IF m <= n THEN n - m + 1 ELSE 0
  BY SliceType
<1>3. \A k \in 1 .. Len(SubSeq(s, m, n)) : SubSeq(s, m, n)[k] = s[m + k - 1]
  BY <1>1, <1>2, SubSeqProperties, SMT
<1> QED  BY <1>2, <1>3

\* The elements and the length of a concatenation.
LEMMA ConcatElements ==
    ASSUME NEW T, NEW s \in Seq(T), NEW t \in Seq(T)
    PROVE  /\ s \o t \in Seq(T) /\ Len(s \o t) = Len(s) + Len(t) /\ Len(s) \in Nat /\ Len(t) \in Nat
           /\ \A k \in 1 .. Len(s \o t) : (s \o t)[k] = IF k <= Len(s) THEN s[k] ELSE t[k - Len(s)]
BY ConcatProperties, LenProperties

\* The elements and the length of two sequences with one element between them.
LEMMA BetweenElements ==
    ASSUME NEW T, NEW s \in Seq(T), NEW e \in T, NEW t \in Seq(T)
    PROVE  /\ s \o <<e>> \o t \in Seq(T) /\ Len(s) \in Nat /\ Len(t) \in Nat
           /\ Len(s \o <<e>> \o t) = Len(s) + 1 + Len(t)
           /\ \A k \in 1 .. Len(s) + 1 + Len(t) :
                (s \o <<e>> \o t)[k] = IF k <= Len(s) THEN s[k]
                                       ELSE IF k = Len(s) + 1 THEN e ELSE t[k - Len(s) - 1]
<1>1. <<e>> \in Seq(T) /\ Len(<<e>>) = 1 /\ <<e>>[1] = e
  OBVIOUS
<1> DEFINE u == s \o <<e>>
<1>2. /\ u \in Seq(T) /\ Len(u) = Len(s) + 1 /\ Len(s) \in Nat
      /\ \A k \in 1 .. Len(u) : u[k] = IF k <= Len(s) THEN s[k] ELSE <<e>>[k - Len(s)]
  BY <1>1, ConcatElements
<1> HIDE DEF u
<1>3. /\ u \o t \in Seq(T) /\ Len(u \o t) = Len(u) + Len(t) /\ Len(t) \in Nat
      /\ \A k \in 1 .. Len(u \o t) : (u \o t)[k] = IF k <= Len(u) THEN u[k] ELSE t[k - Len(u)]
  <2>1. u \in Seq(T)
    BY <1>2
  <2> QED  BY <2>1, ConcatElements
<1>4. \A k \in 1 .. Len(s) + 1 + Len(t) :
          (u \o t)[k] = IF k <= Len(s) THEN s[k] ELSE IF k = Len(s) + 1 THEN e ELSE t[k - Len(s) - 1]
  <2> TAKE k \in 1 .. Len(s) + 1 + Len(t)
  <2>1. CASE k <= Len(s)
    BY <1>2, <1>3, <2>1
  <2>2. CASE k = Len(s) + 1
    BY <1>1, <1>2, <1>3, <2>2
  <2>3. CASE k > Len(s) + 1
    BY <1>2, <1>3, <2>3
  <2> QED  BY <1>2, <2>1, <2>2, <2>3
<1> QED  BY <1>2, <1>3, <1>4 DEF u

\* The elements of a sequence after an insertion.
LEMMA InsertAtElements ==
    ASSUME NEW T, NEW s \in Seq(T), NEW i \in 1 .. Len(s) + 1, NEW e \in T
    PROVE  /\ InsertAt(s, i, e) \in Seq(T) /\ Len(InsertAt(s, i, e)) = Len(s) + 1 /\ Len(s) \in Nat
           /\ \A k \in 1 .. Len(s) + 1 :
                InsertAt(s, i, e)[k] = IF k < i THEN s[k] ELSE IF k = i THEN e ELSE s[k - 1]
<1> DEFINE a == SubSeq(s, 1, i - 1)
           c == SubSeq(s, i, Len(s))
<1>1. /\ a \in Seq(T) /\ Len(a) = i - 1 /\ \A k \in 1 .. Len(a) : a[k] = s[k]
      /\ c \in Seq(T) /\ Len(c) = Len(s) - i + 1 /\ \A k \in 1 .. Len(c) : c[k] = s[i + k - 1]
      /\ Len(s) \in Nat
  BY SliceElements, LenProperties
<1> HIDE DEF a, c
<1>2. /\ a \o <<e>> \o c \in Seq(T) /\ Len(a \o <<e>> \o c) = Len(a) + 1 + Len(c)
      /\ \A k \in 1 .. Len(a) + 1 + Len(c) :
            (a \o <<e>> \o c)[k] = IF k <= Len(a) THEN a[k]
                                   ELSE IF k = Len(a) + 1 THEN e ELSE c[k - Len(a) - 1]
  <2>1. a \in Seq(T) /\ c \in Seq(T)
    BY <1>1
  <2> QED  BY <2>1, BetweenElements
<1>3. InsertAt(s, i, e) = a \o <<e>> \o c
  BY DEF InsertAt, a, c
<1>4. Len(a) + 1 + Len(c) = Len(s) + 1
  BY <1>1
<1>5. \A k \in 1 .. Len(s) + 1 :
          (a \o <<e>> \o c)[k] = IF k < i THEN s[k] ELSE IF k = i THEN e ELSE s[k - 1]
  <2> TAKE k \in 1 .. Len(s) + 1
  <2>0. (a \o <<e>> \o c)[k] = IF k <= i - 1 THEN a[k] ELSE IF k = i THEN e ELSE c[k - i]
    <3>1. k \in 1 .. Len(a) + 1 + Len(c)
      BY <1>4
    <3>2. Len(a) = i - 1 /\ Len(a) + 1 = i /\ k - Len(a) - 1 = k - i
      BY <1>1
    <3>3. (a \o <<e>> \o c)[k] = IF k <= Len(a) THEN a[k] ELSE IF k = Len(a) + 1 THEN e ELSE c[k - Len(a) - 1]
      BY <1>2, <3>1
    <3> QED  BY <3>2, <3>3
  <2>1. CASE k < i
    BY <1>1, <2>0, <2>1
  <2>2. CASE k = i
    BY <1>1, <2>0, <2>2
  <2>3. CASE k > i
    <3>1. k - i \in 1 .. Len(c) /\ i + (k - i) - 1 = k - 1
      BY <1>1, <2>3
    <3>2. c[k - i] = s[k - 1]
      BY <1>1, <3>1, Zenon
    <3> QED  BY <1>1, <2>0, <2>3, <3>2
  <2> QED  BY <1>1, <2>1, <2>2, <2>3
<1> QED  BY <1>1, <1>2, <1>3, <1>4, <1>5, Zenon

\* The elements of a sequence after a removal.
LEMMA RemoveAtElements ==
    ASSUME NEW T, NEW s \in Seq(T), NEW i \in 1 .. Len(s)
    PROVE  /\ RemoveAt(s, i) \in Seq(T) /\ Len(RemoveAt(s, i)) = Len(s) - 1 /\ Len(s) \in Nat
           /\ \A k \in 1 .. Len(s) - 1 : RemoveAt(s, i)[k] = IF k < i THEN s[k] ELSE s[k + 1]
<1> DEFINE a == SubSeq(s, 1, i - 1)
           c == SubSeq(s, i + 1, Len(s))
<1>1. /\ a \in Seq(T) /\ Len(a) = i - 1 /\ \A k \in 1 .. Len(a) : a[k] = s[k]
      /\ c \in Seq(T) /\ Len(c) = Len(s) - i /\ \A k \in 1 .. Len(c) : c[k] = s[i + k]
      /\ Len(s) \in Nat
  <2>1. a \in Seq(T) /\ Len(a) = i - 1 /\ \A k \in 1 .. Len(a) : a[k] = s[k]
    BY SliceElements, LenProperties
  <2> DEFINE j == i + 1
  <2>2. j \in Nat /\ j >= 1 /\ Len(s) \in Int /\ j = i + 1 /\ j <= Len(s) + 1
    BY LenProperties
  <2> HIDE DEF j
  <2>3. /\ SubSeq(s, j, Len(s)) \in Seq(T) /\ Len(SubSeq(s, j, Len(s))) = Len(s) - i
        /\ \A k \in 1 .. Len(SubSeq(s, j, Len(s))) : SubSeq(s, j, Len(s))[k] = s[j + k - 1]
    BY <2>2, SliceElements
  <2>4. \A k \in Nat : j + k - 1 = i + k
    BY <2>2
  <2> QED  BY <2>1, <2>3, <2>4, LenProperties DEF j
<1> HIDE DEF a, c
<1>2. /\ a \o c \in Seq(T) /\ Len(a \o c) = Len(a) + Len(c)
      /\ \A k \in 1 .. Len(a \o c) : (a \o c)[k] = IF k <= Len(a) THEN a[k] ELSE c[k - Len(a)]
  BY <1>1, ConcatElements, Zenon
<1> DEFINE x == RemoveAt(s, i)
<1>3. x = a \o c
  BY DEF RemoveAt, a, c
<1>4. \A k \in 1 .. Len(s) - 1 : (a \o c)[k] = IF k < i THEN s[k] ELSE s[k + 1]
  <2> TAKE k \in 1 .. Len(s) - 1
  <2>0. (a \o c)[k] = IF k <= i - 1 THEN a[k] ELSE c[k - (i - 1)]
    BY <1>1, <1>2
  <2>1. CASE k < i
    BY <1>1, <2>0, <2>1
  <2>2. CASE k >= i
    <3>1. k - (i - 1) \in 1 .. Len(c) /\ i + (k - (i - 1)) = k + 1
      BY <1>1, <2>2
    <3>2. c[k - (i - 1)] = s[k + 1]
      BY <1>1, <3>1, Zenon
    <3> QED  BY <1>1, <2>0, <2>2, <3>2
  <2> QED  BY <1>1, <2>1, <2>2
<1> HIDE DEF x
<1>5. x \in Seq(T) /\ Len(x) = Len(s) - 1
  BY <1>1, <1>2, <1>3
<1>6. \A k \in 1 .. Len(s) - 1 : x[k] = IF k < i THEN s[k] ELSE s[k + 1]
  BY <1>3, <1>4, Zenon
<1>7. Len(s) \in Nat
  BY <1>1
<1> QED  BY <1>5, <1>6, <1>7 DEF x

\* The elements after the first is shifted out and a new one put in (__ttree_node_insert_removing_first).
LEMMA ShiftInElements ==
    ASSUME NEW T, NEW s \in Seq(T), NEW p \in 1 .. Len(s), NEW e \in T
    PROVE  /\ ShiftIn(s, p, e) \in Seq(T) /\ Len(ShiftIn(s, p, e)) = Len(s) /\ Len(s) \in Nat
           /\ \A k \in 1 .. Len(s) :
                ShiftIn(s, p, e)[k] = IF k < p THEN s[k + 1] ELSE IF k = p THEN e ELSE s[k]
<1> DEFINE a == SubSeq(s, 2, p)
           c == SubSeq(s, p + 1, Len(s))
<1>1. /\ a \in Seq(T) /\ Len(a) = p - 1 /\ \A k \in 1 .. Len(a) : a[k] = s[k + 1]
      /\ c \in Seq(T) /\ Len(c) = Len(s) - p /\ \A k \in 1 .. Len(c) : c[k] = s[p + k]
      /\ Len(s) \in Nat
  <2>1. a \in Seq(T) /\ Len(a) = p - 1 /\ \A k \in 1 .. Len(a) : a[k] = s[2 + k - 1]
    BY SliceElements, LenProperties
  <2>5. \A k \in 1 .. Len(a) : 2 + k - 1 = k + 1
    OBVIOUS
  <2> DEFINE j == p + 1
  <2>2. j \in Nat /\ j >= 1 /\ Len(s) \in Int /\ j = p + 1 /\ j <= Len(s) + 1
    BY LenProperties
  <2> HIDE DEF j
  <2>3. /\ SubSeq(s, j, Len(s)) \in Seq(T) /\ Len(SubSeq(s, j, Len(s))) = Len(s) - p
        /\ \A k \in 1 .. Len(SubSeq(s, j, Len(s))) : SubSeq(s, j, Len(s))[k] = s[j + k - 1]
    BY <2>2, SliceElements
  <2>4. \A k \in Nat : j + k - 1 = p + k
    BY <2>2
  <2>6. c = SubSeq(s, j, Len(s))
    BY DEF j
  <2> HIDE DEF a, c
  <2>7. \A k \in 1 .. Len(c) : c[k] = s[p + k]
    <3> TAKE k \in 1 .. Len(c)
    <3>1. c[k] = s[j + k - 1]
      BY <2>3, <2>6, Zenon
    <3>2. j + k - 1 = p + k
      BY <2>2
    <3> QED  BY <3>1, <3>2
  <2>8. \A k \in 1 .. Len(a) : a[k] = s[k + 1]
    BY <2>1, <2>5, Zenon
  <2> QED  BY <2>1, <2>3, <2>6, <2>7, <2>8, LenProperties
<1> HIDE DEF a, c
<1>2. /\ a \o <<e>> \o c \in Seq(T) /\ Len(a \o <<e>> \o c) = Len(a) + 1 + Len(c)
      /\ \A k \in 1 .. Len(a) + 1 + Len(c) :
            (a \o <<e>> \o c)[k] = IF k <= Len(a) THEN a[k]
                                   ELSE IF k = Len(a) + 1 THEN e ELSE c[k - Len(a) - 1]
  <2>1. a \in Seq(T) /\ c \in Seq(T)
    BY <1>1
  <2> QED  BY <2>1, BetweenElements
<1>3. ShiftIn(s, p, e) = a \o <<e>> \o c
  BY DEF ShiftIn, a, c
<1>4. Len(a) + 1 + Len(c) = Len(s)
  BY <1>1
<1>5. \A k \in 1 .. Len(s) :
          (a \o <<e>> \o c)[k] = IF k < p THEN s[k + 1] ELSE IF k = p THEN e ELSE s[k]
  <2> TAKE k \in 1 .. Len(s)
  <2>0. (a \o <<e>> \o c)[k] = IF k <= p - 1 THEN a[k] ELSE IF k = p THEN e ELSE c[k - p]
    <3>1. k \in 1 .. Len(a) + 1 + Len(c)
      BY <1>4
    <3>2. Len(a) = p - 1 /\ Len(a) + 1 = p /\ k - Len(a) - 1 = k - p
      BY <1>1
    <3>3. (a \o <<e>> \o c)[k] = IF k <= Len(a) THEN a[k] ELSE IF k = Len(a) + 1 THEN e ELSE c[k - Len(a) - 1]
      BY <1>2, <3>1
    <3> QED  BY <3>2, <3>3
  <2>1. CASE k < p
    BY <1>1, <2>0, <2>1
  <2>2. CASE k = p
    BY <1>1, <2>0, <2>2
  <2>3. CASE k > p
    <3>1. k - p \in 1 .. Len(c) /\ p + (k - p) = k
      BY <1>1, <2>3
    <3>2. c[k - p] = s[k]
      BY <1>1, <3>1
    <3> QED  BY <1>1, <2>0, <2>3, <3>2
  <2> QED  BY <1>1, <2>1, <2>2, <2>3
<1> QED  BY <1>1, <1>2, <1>3, <1>4, <1>5, Zenon

\* A slice put in front of a sequence, and one put behind it ...
LEMMA GraftElements ==
    ASSUME NEW T, NEW s \in Seq(T), NEW t \in Seq(T), NEW from \in Nat, NEW len \in Nat, from + len <= Len(t)
    PROVE  /\ Len(s) \in Nat /\ Len(t) \in Nat
           /\ Graft(s, 0, t, from, len) \in Seq(T) /\ Len(Graft(s, 0, t, from, len)) = Len(s) + len
           /\ \A k \in 1 .. Len(s) + len :
                Graft(s, 0, t, from, len)[k] = IF k <= len THEN t[from + k] ELSE s[k - len]
           /\ Graft(s, Len(s), t, from, len) \in Seq(T) /\ Len(Graft(s, Len(s), t, from, len)) = Len(s) + len
           /\ \A k \in 1 .. Len(s) + len :
                Graft(s, Len(s), t, from, len)[k] = IF k <= Len(s) THEN s[k] ELSE t[from + k - Len(s)]
<1> DEFINE m == from + 1
           n == from + len
           b == SubSeq(t, m, n)
           z == SubSeq(s, 1, 0)
           y == SubSeq(s, 1, Len(s))
           x == SubSeq(s, Len(s) + 1, Len(s))
<1>1. Len(s) \in Nat /\ Len(t) \in Nat
  BY LenProperties
<1>2. m \in Nat /\ m >= 1 /\ n \in Int /\ n <= Len(t) /\ len = n - m + 1 /\ m = from + 1
  BY <1>1
<1> HIDE DEF m, n
<1>3. /\ b \in Seq(T) /\ Len(b) = len /\ \A k \in 1 .. Len(b) : b[k] = t[m + k - 1]
  BY <1>2, SliceElements
<1>4. z \in Seq(T) /\ Len(z) = 0
  BY <1>1, SliceElements
<1>5. y \in Seq(T) /\ Len(y) = Len(s) /\ \A k \in 1 .. Len(y) : y[k] = s[k]
  BY <1>1, SliceElements
<1>6. x \in Seq(T) /\ Len(x) = 0
  BY <1>1, SliceElements
<1>7. \A k \in 1 .. len : b[k] = t[from + k]
  <2> TAKE k \in 1 .. len
  <2>1. m + k - 1 = from + k
    BY <1>2
  <2> QED  BY <1>3, <2>1, Zenon
<1>8. /\ Graft(s, 0, t, from, len) = z \o b \o y
      /\ Graft(s, Len(s), t, from, len) = y \o b \o x
  <2>1. 0 + 1 = 1
    OBVIOUS
  <2> QED  BY <2>1 DEF Graft, z, b, y, x, m, n
<1> HIDE DEF z, b, y, x
<1>9. /\ z \o b \in Seq(T) /\ Len(z \o b) = len /\ \A k \in 1 .. len : (z \o b)[k] = t[from + k]
  <2>1. /\ z \o b \in Seq(T) /\ Len(z \o b) = Len(z) + Len(b)
        /\ \A k \in 1 .. Len(z \o b) : (z \o b)[k] = IF k <= Len(z) THEN z[k] ELSE b[k - Len(z)]
    BY <1>3, <1>4, ConcatElements
  <2>2. Len(z \o b) = len
    BY <1>3, <1>4, <2>1
  <2>3. \A k \in 1 .. len : (z \o b)[k] = t[from + k]
    <3> TAKE k \in 1 .. len
    <3>1. ~ (k <= 0) /\ k - 0 = k
      OBVIOUS
    <3>2. (z \o b)[k] = b[k]
      BY <1>4, <2>1, <2>2, <3>1
    <3> QED  BY <1>7, <3>2, Zenon
  <2> QED  BY <2>1, <2>2, <2>3, Zenon
<1>10. /\ z \o b \o y \in Seq(T) /\ Len(z \o b \o y) = Len(s) + len
       /\ \A k \in 1 .. Len(s) + len : (z \o b \o y)[k] = IF k <= len THEN t[from + k] ELSE s[k - len]
  <2> DEFINE c == z \o b
  <2>1. c \in Seq(T) /\ Len(c) = len /\ \A k \in 1 .. len : c[k] = t[from + k]
    BY <1>9, Zenon
  <2> HIDE DEF c
  <2>2. /\ c \o y \in Seq(T) /\ Len(c \o y) = Len(c) + Len(y)
        /\ \A k \in 1 .. Len(c \o y) : (c \o y)[k] = IF k <= Len(c) THEN c[k] ELSE y[k - Len(c)]
    BY <1>5, <2>1, ConcatElements
  <2>3. Len(c \o y) = Len(s) + len
    BY <1>1, <1>5, <2>1, <2>2
  <2>4. \A k \in 1 .. Len(s) + len : (c \o y)[k] = IF k <= len THEN t[from + k] ELSE s[k - len]
    <3> TAKE k \in 1 .. Len(s) + len
    <3>1. CASE k <= len
      BY <2>1, <2>2, <2>3, <3>1
    <3>2. CASE k > len
      <4>1. k - len \in 1 .. Len(s) /\ ~(k <= len)
        BY <1>1, <3>2
      <4>2. (c \o y)[k] = y[k - len]
        BY <2>1, <2>2, <2>3, <4>1, Zenon
      <4>3. y[k - len] = s[k - len]
        BY <1>5, <4>1
      <4> QED  BY <4>1, <4>2, <4>3, Zenon
    <3>9. k <= len \/ k > len
      BY <1>1
    <3> QED  BY <3>1, <3>2, <3>9, Zenon
  <2> QED  BY <2>2, <2>3, <2>4, Zenon DEF c
<1>11. /\ y \o b \o x \in Seq(T) /\ Len(y \o b \o x) = Len(s) + len
       /\ \A k \in 1 .. Len(s) + len : (y \o b \o x)[k] = IF k <= Len(s) THEN s[k] ELSE t[from + k - Len(s)]
  <2> DEFINE c == y \o b
  <2>1. /\ c \in Seq(T) /\ Len(c) = Len(y) + Len(b)
        /\ \A k \in 1 .. Len(c) : c[k] = IF k <= Len(y) THEN y[k] ELSE b[k - Len(y)]
    <3>1. y \in Seq(T) /\ b \in Seq(T)
      BY <1>3, <1>5
    <3>2. /\ y \o b \in Seq(T) /\ Len(y \o b) = Len(y) + Len(b)
          /\ \A k \in 1 .. Len(y \o b) : (y \o b)[k] = IF k <= Len(y) THEN y[k] ELSE b[k - Len(y)]
      BY <3>1, ConcatElements
    <3> QED  BY <3>2, Zenon
  <2> HIDE DEF c
  <2>2. /\ c \o x \in Seq(T) /\ Len(c \o x) = Len(c) + Len(x)
        /\ \A k \in 1 .. Len(c \o x) : (c \o x)[k] = IF k <= Len(c) THEN c[k] ELSE x[k - Len(c)]
    BY <1>6, <2>1, ConcatElements
  <2>3. Len(c) = Len(s) + len /\ Len(c \o x) = Len(s) + len
    BY <1>1, <1>3, <1>5, <1>6, <2>1, <2>2
  <2>4. \A k \in 1 .. Len(s) + len : (c \o x)[k] = IF k <= Len(s) THEN s[k] ELSE t[from + k - Len(s)]
    <3> TAKE k \in 1 .. Len(s) + len
    <3>0. (c \o x)[k] = c[k] /\ c[k] = IF k <= Len(s) THEN y[k] ELSE b[k - Len(s)]
      BY <1>5, <2>1, <2>2, <2>3
    <3>1. CASE k <= Len(s)
      BY <1>1, <1>5, <3>0, <3>1
    <3>2. CASE k > Len(s)
      <4>1. k - Len(s) \in 1 .. len /\ ~(k <= Len(s)) /\ from + (k - Len(s)) = from + k - Len(s)
        BY <1>1, <3>2
      <4>2. b[k - Len(s)] = t[from + k - Len(s)]
        BY <1>7, <4>1
      <4> QED  BY <3>0, <4>1, <4>2, Zenon
    <3>9. k <= Len(s) \/ k > Len(s)
      BY <1>1
    <3> QED  BY <3>1, <3>2, <3>9, Zenon
  <2> QED  BY <2>2, <2>3, <2>4, Zenon DEF c
<1> QED  BY <1>1, <1>8, <1>10, <1>11, Zenon

\* ... and a slice cut out of a sequence.
LEMMA CutElements ==
    ASSUME NEW T, NEW s \in Seq(T), NEW from \in Nat, NEW len \in Nat, from + len <= Len(s)
    PROVE  /\ Cut(s, from, len) \in Seq(T) /\ Len(Cut(s, from, len)) = Len(s) - len /\ Len(s) \in Nat
           /\ \A k \in 1 .. Len(s) - len : Cut(s, from, len)[k] = IF k <= from THEN s[k] ELSE s[k + len]
<1> DEFINE m == from + len + 1
           a == SubSeq(s, 1, from)
           c == SubSeq(s, m, Len(s))
<1>0. Len(s) \in Nat
  BY LenProperties
<1>1. a \in Seq(T) /\ Len(a) = from /\ \A k \in 1 .. Len(a) : a[k] = s[k]
  BY <1>0, SliceElements
<1>2. m \in Nat /\ m >= 1 /\ m = from + len + 1 /\ Len(s) \in Nat
  BY <1>0
<1> HIDE DEF m
<1>3. c \in Seq(T) /\ Len(c) = Len(s) - from - len /\ \A k \in 1 .. Len(c) : c[k] = s[m + k - 1]
  BY <1>2, SliceElements
<1> HIDE DEF a, c
<1>4. /\ a \o c \in Seq(T) /\ Len(a \o c) = Len(a) + Len(c)
      /\ \A k \in 1 .. Len(a \o c) : (a \o c)[k] = IF k <= Len(a) THEN a[k] ELSE c[k - Len(a)]
  BY <1>1, <1>3, ConcatElements
<1>5. Len(a \o c) = Len(s) - len
  BY <1>0, <1>1, <1>3, <1>4
<1>6. \A k \in 1 .. Len(s) - len : (a \o c)[k] = IF k <= from THEN s[k] ELSE s[k + len]
  <2> TAKE k \in 1 .. Len(s) - len
  <2>1. CASE k <= from
    BY <1>1, <1>4, <1>5, <2>1
  <2>2. CASE k > from
    <3>1. k - from \in 1 .. Len(c) /\ m + (k - from) - 1 = k + len /\ ~(k <= from)
      BY <1>0, <1>2, <1>3, <2>2
    <3>2. c[k - from] = s[k + len]
      BY <1>3, <3>1
    <3>3. (a \o c)[k] = c[k - from]
      BY <1>0, <1>1, <1>4, <1>5, <3>1, Zenon
    <3> QED  BY <3>1, <3>2, <3>3, Zenon
  <2>9. k <= from \/ k > from
    BY <1>0
  <2> QED  BY <2>1, <2>2, <2>9, Zenon
<1> QED  BY <1>0, <1>4, <1>5, <1>6, Zenon DEF Cut, a, c, m

-----------------------------------------------------------------------------
(* Keys that ascend.                                                        *)

\* The keys of a node ascend strictly.
Ascends(s) == \A i, j \in 1 .. Len(s) : i < j => s[i] < s[j]

\* The elements of a sequence as a set.
LEMMA ToSetElements ==
    ASSUME NEW T, NEW s \in Seq(T)
    PROVE  ToSet(s) = {s[i] : i \in 1 .. Len(s)} /\ Len(s) \in Nat /\ \A i \in 1 .. Len(s) : s[i] \in T
<1>1. DOMAIN s = 1 .. Len(s) /\ Len(s) \in Nat
  BY LenProperties
<1>2. \A i \in 1 .. Len(s) : s[i] \in T
  BY ElementOfSeq
<1> QED  BY <1>1, <1>2 DEF ToSet

\* Inserting a key where it belongs keeps the keys of a node ascending.
LEMMA InsertAscends ==
    ASSUME NEW s \in Seq(ID), Ascends(s), NEW p \in 0 .. Len(s), NEW e \in ID,
           \A i \in 1 .. Len(s) : IF i <= p THEN s[i] < e ELSE e < s[i],
           NEW t, t = InsertAt(s, p + 1, e)
    PROVE  t \in Seq(ID) /\ Ascends(t) /\ ToSet(t) = ToSet(s) \cup {e}
<1>0. Len(s) \in Nat /\ p + 1 \in 1 .. Len(s) + 1 /\ p \in Nat
  BY LenProperties
<1>a. PICK i \in 1 .. Len(s) + 1 : i = p + 1
  BY <1>0
<1>b. t = InsertAt(s, i, e)
  BY <1>a
<1>1. /\ t \in Seq(ID) /\ Len(t) = Len(s) + 1
      /\ \A k \in 1 .. Len(s) + 1 : t[k] = IF k < i THEN s[k] ELSE IF k = i THEN e ELSE s[k - 1]
  <2>1. /\ InsertAt(s, i, e) \in Seq(ID) /\ Len(InsertAt(s, i, e)) = Len(s) + 1
        /\ \A k \in 1 .. Len(s) + 1 : InsertAt(s, i, e)[k] = IF k < i THEN s[k] ELSE IF k = i THEN e ELSE s[k - 1]
    BY InsertAtElements
  <2> QED  BY <1>b, <2>1, Zenon
<1>2. \A k \in 1 .. Len(s) : s[k] \in Nat
  BY ToSetElements, IDAssumption, Zenon
<1>3. \A k \in 1 .. p : t[k] = s[k] /\ t[k] < e
  <2> TAKE k \in 1 .. p
  <2>1. k \in 1 .. Len(s) /\ k \in 1 .. Len(s) + 1 /\ k < i /\ k <= p
    BY <1>0, <1>a
  <2>2. t[k] = s[k]
    BY <1>1, <2>1
  <2>3. s[k] < e
    BY <2>1
  <2> QED  BY <2>2, <2>3, Zenon
<1>4. t[p + 1] = e /\ e \in Nat
  BY <1>0, <1>1, <1>a, IDAssumption
<1>5. \A k \in p + 2 .. Len(s) + 1 : t[k] = s[k - 1] /\ e < t[k] /\ k - 1 \in 1 .. Len(s)
  BY <1>0, <1>1, <1>a
<1>6. Ascends(t)
  <2> SUFFICES ASSUME NEW k \in 1 .. Len(t), NEW m \in 1 .. Len(t), k < m PROVE t[k] < t[m]
    BY DEF Ascends
  <2>0. k \in 1 .. Len(s) + 1 /\ m \in 1 .. Len(s) + 1 /\ k \in Nat /\ m \in Nat
    BY <1>0, <1>1
  <2>1. CASE m <= p
    <3>1. k \in 1 .. p /\ m \in 1 .. p /\ k \in 1 .. Len(s) /\ m \in 1 .. Len(s)
      BY <1>0, <2>0, <2>1
    <3> QED  BY <1>3, <3>1 DEF Ascends
  <2>2. CASE m = p + 1
    BY <1>0, <1>3, <1>4, <2>0, <2>2
  <2>3. CASE m > p + 1 /\ k <= p
    <3>1. k \in 1 .. p /\ m \in p + 2 .. Len(s) + 1 /\ k \in 1 .. Len(s) /\ m - 1 \in 1 .. Len(s) /\ k < m - 1
      BY <1>0, <2>0, <2>3
    <3> QED  BY <1>3, <1>5, <3>1 DEF Ascends
  <2>4. CASE m > p + 1 /\ k = p + 1
    BY <1>0, <1>5, <1>4, <2>0, <2>4
  <2>5. CASE m > p + 1 /\ k > p + 1
    <3>1. k \in p + 2 .. Len(s) + 1 /\ m \in p + 2 .. Len(s) + 1 /\ k - 1 < m - 1
          /\ k - 1 \in 1 .. Len(s) /\ m - 1 \in 1 .. Len(s)
      BY <1>0, <2>0, <2>5
    <3> QED  BY <1>5, <3>1, Zenon DEF Ascends
  <2> QED  BY <1>0, <2>0, <2>1, <2>2, <2>3, <2>4, <2>5
<1>7. ToSet(t) = ToSet(s) \cup {e}
  <2>1. ToSet(t) = {t[k] : k \in 1 .. Len(s) + 1} /\ ToSet(s) = {s[k] : k \in 1 .. Len(s)}
    <3>0. t \in Seq(ID)
      BY <1>1
    <3>1. ToSet(t) = {t[k] : k \in 1 .. Len(t)}
      BY <3>0, ToSetElements
    <3>2. ToSet(s) = {s[k] : k \in 1 .. Len(s)}
      BY ToSetElements
    <3> QED  BY <1>1, <3>1, <3>2, Zenon
  <2>2. \A k \in 1 .. Len(s) : \E m \in 1 .. Len(s) + 1 : t[m] = s[k]
    <3> TAKE k \in 1 .. Len(s)
    <3>1. CASE k <= p
      BY <1>0, <1>3, <3>1
    <3>2. CASE k > p
      <4>1. PICK m \in Int : m = k + 1
        OBVIOUS
      <4>2. m \in p + 2 .. Len(s) + 1 /\ m \in 1 .. Len(s) + 1 /\ m - 1 = k
        BY <1>0, <3>2, <4>1
      <4>3. t[m] = s[m - 1]
        BY <1>5, <4>2
      <4> QED  BY <4>2, <4>3
    <3> QED  BY <1>0, <3>1, <3>2
  <2>3. \A k \in 1 .. Len(s) + 1 : t[k] = e \/ \E m \in 1 .. Len(s) : t[k] = s[m]
    <3> TAKE k \in 1 .. Len(s) + 1
    <3>1. CASE k <= p
      BY <1>0, <1>3, <3>1
    <3>2. CASE k = p + 1
      BY <1>4, <3>2
    <3>3. CASE k > p + 1
      BY <1>0, <1>5, <3>3
    <3> QED  BY <1>0, <3>1, <3>2, <3>3
  <2>4. \E m \in 1 .. Len(s) + 1 : t[m] = e
    BY <1>0, <1>4
  <2>5. ToSet(t) \subseteq ToSet(s) \cup {e}
    BY <2>1, <2>3
  <2>6. ToSet(s) \subseteq ToSet(t)
    BY <2>1, <2>2
  <2>7. e \in ToSet(t)
    BY <2>1, <2>4
  <2> QED  BY <2>5, <2>6, <2>7
<1> QED  BY <1>1, <1>6, <1>7

\* Removing a key keeps the keys of a node ascending.
LEMMA RemoveAscends ==
    ASSUME NEW s \in Seq(ID), Ascends(s), NEW i \in 1 .. Len(s), NEW t, t = RemoveAt(s, i)
    PROVE  t \in Seq(ID) /\ Ascends(t) /\ ToSet(t) = ToSet(s) \ {s[i]}
<1>1. /\ t \in Seq(ID) /\ Len(t) = Len(s) - 1 /\ Len(s) \in Nat
      /\ \A k \in 1 .. Len(s) - 1 : t[k] = IF k < i THEN s[k] ELSE s[k + 1]
  BY RemoveAtElements, Zenon
<1>2. \A k \in 1 .. Len(s) : s[k] \in Nat
  BY ToSetElements, IDAssumption, Zenon
<1>3. \A k \in 1 .. i - 1 : k \in 1 .. Len(s) - 1 /\ t[k] = s[k]
  BY <1>1
<1>4. \A k \in i .. Len(s) - 1 : t[k] = s[k + 1] /\ k + 1 \in 1 .. Len(s) /\ k \in 1 .. Len(s) - 1
  BY <1>1
<1>5. \A k \in 1 .. Len(s) - 1 : \E m \in 1 .. Len(s) : m # i /\ t[k] = s[m] /\ m = IF k < i THEN k ELSE k + 1
  BY <1>1
<1>6. Ascends(t)
  <2> SUFFICES ASSUME NEW k \in 1 .. Len(t), NEW m \in 1 .. Len(t), k < m PROVE t[k] < t[m]
    BY DEF Ascends
  <2>0. k \in 1 .. Len(s) - 1 /\ m \in 1 .. Len(s) - 1
    BY <1>1
  <2>1. PICK k2 \in 1 .. Len(s) : t[k] = s[k2] /\ k2 = IF k < i THEN k ELSE k + 1
    BY <1>5, <2>0
  <2>2. PICK m2 \in 1 .. Len(s) : t[m] = s[m2] /\ m2 = IF m < i THEN m ELSE m + 1
    BY <1>5, <2>0
  <2>3. k2 < m2
    BY <1>1, <2>0, <2>1, <2>2
  <2> QED  BY <2>1, <2>2, <2>3 DEF Ascends
<1>7. ToSet(t) = ToSet(s) \ {s[i]}
  <2>1. ToSet(t) = {t[k] : k \in 1 .. Len(s) - 1} /\ ToSet(s) = {s[k] : k \in 1 .. Len(s)}
    BY <1>1, ToSetElements
  <2>2. \A m \in 1 .. Len(s) : m # i => s[m] # s[i]
    <3> SUFFICES ASSUME NEW m \in 1 .. Len(s), m # i PROVE s[m] # s[i]
      OBVIOUS
    <3>1. CASE m < i
      BY <1>2, <3>1 DEF Ascends
    <3>2. CASE i < m
      BY <1>2, <3>2 DEF Ascends
    <3> QED  BY <1>1, <3>1, <3>2
  <2>3. \A m \in 1 .. Len(s) : m # i => \E k \in 1 .. Len(s) - 1 : t[k] = s[m]
    <3> SUFFICES ASSUME NEW m \in 1 .. Len(s), m # i PROVE \E k \in 1 .. Len(s) - 1 : t[k] = s[m]
      OBVIOUS
    <3>1. CASE m < i
      BY <1>1, <1>3, <3>1
    <3>2. CASE i < m
      <4>1. m - 1 \in i .. Len(s) - 1 /\ m - 1 + 1 = m
        BY <1>1, <3>2
      <4> QED  BY <1>4, <4>1, Zenon
    <3> QED  BY <1>1, <3>1, <3>2
  <2>4. \A k \in 1 .. Len(s) - 1 : \E m \in 1 .. Len(s) : t[k] = s[m] /\ s[m] # s[i]
    BY <1>5, <2>2
  <2>5. ToSet(t) \subseteq ToSet(s) \ {s[i]}
    BY <2>1, <2>4, Zenon
  <2>6. ToSet(s) \ {s[i]} \subseteq ToSet(t)
    BY <2>1, <2>3
  <2> QED  BY <2>5, <2>6
<1> QED  BY <1>1, <1>6, <1>7

\* Putting a key where it belongs while the first is shifted out keeps the keys of a node ascending.
LEMMA ShiftInAscends ==
    ASSUME NEW s \in Seq(ID), Ascends(s), NEW p \in 1 .. Len(s), NEW e \in ID,
           \A i \in 1 .. Len(s) : IF i <= p THEN s[i] < e ELSE e < s[i],
           NEW t, t = ShiftIn(s, p, e)
    PROVE  t \in Seq(ID) /\ Ascends(t) /\ ToSet(t) \subseteq (ToSet(s) \ {s[1]}) \cup {e}
<1>1. /\ t \in Seq(ID) /\ Len(t) = Len(s) /\ Len(s) \in Nat
      /\ \A k \in 1 .. Len(s) : t[k] = IF k < p THEN s[k + 1] ELSE IF k = p THEN e ELSE s[k]
  <2>1. /\ ShiftIn(s, p, e) \in Seq(ID) /\ Len(ShiftIn(s, p, e)) = Len(s) /\ Len(s) \in Nat
        /\ \A k \in 1 .. Len(s) : ShiftIn(s, p, e)[k] = IF k < p THEN s[k + 1] ELSE IF k = p THEN e ELSE s[k]
    <3>1. \A j \in 1 .. Len(s) : /\ ShiftIn(s, j, e) \in Seq(ID) /\ Len(ShiftIn(s, j, e)) = Len(s) /\ Len(s) \in Nat
                                  /\ \A k \in 1 .. Len(s) : ShiftIn(s, j, e)[k] = IF k < j THEN s[k + 1] ELSE IF k = j THEN e ELSE s[k]
      BY ShiftInElements
    <3> QED  BY <3>1, Zenon
  <2> QED  BY <2>1, Zenon
<1>2. \A k \in 1 .. Len(s) : s[k] \in Nat
  BY ToSetElements, IDAssumption, Zenon
<1>e. e \in Nat
  BY IDAssumption
<1>3. \A k \in 1 .. Len(s) : \/ /\ k < p /\ \E m \in 1 .. Len(s) : m = k + 1 /\ t[k] = s[m] /\ s[m] < e
                             \/ k = p /\ t[k] = e
                             \/ k > p /\ t[k] = s[k] /\ e < s[k]
  <2> TAKE k \in 1 .. Len(s)
  <2>1. CASE k < p
    <3>1. PICK m \in 1 .. Len(s) : m = k + 1
      BY <1>1, <2>1
    <3>2. t[k] = s[m] /\ m <= p
      BY <1>1, <2>1, <3>1
    <3> QED  BY <2>1, <3>1, <3>2
  <2>2. CASE k = p
    BY <1>1, <2>2
  <2>3. CASE k > p
    BY <1>1, <2>3
  <2> QED  BY <1>1, <2>1, <2>2, <2>3
<1>4. Ascends(t)
  <2> SUFFICES ASSUME NEW k \in 1 .. Len(t), NEW m \in 1 .. Len(t), k < m PROVE t[k] < t[m]
    BY DEF Ascends
  <2>0. k \in 1 .. Len(s) /\ m \in 1 .. Len(s)
    BY <1>1
  <2>1. CASE m < p
    <3>1. PICK k2 \in 1 .. Len(s) : k2 = k + 1 /\ t[k] = s[k2]
      BY <1>3, <2>0, <2>1
    <3>2. PICK m2 \in 1 .. Len(s) : m2 = m + 1 /\ t[m] = s[m2]
      BY <1>3, <2>0, <2>1
    <3> QED  BY <2>0, <3>1, <3>2 DEF Ascends
  <2>2. CASE m = p
    BY <1>1, <1>3, <2>0, <2>2
  <2>3. CASE m > p /\ k < p
    <3>1. PICK k2 \in 1 .. Len(s) : t[k] = s[k2] /\ s[k2] < e
      BY <1>3, <2>0, <2>3
    <3>2. t[m] = s[m] /\ e < t[m]
      BY <1>3, <2>0, <2>3
    <3>3. s[k2] \in Nat /\ s[m] \in Nat
      BY <1>2, <2>0
    <3> QED  BY <1>e, <3>1, <3>2, <3>3
  <2>4. CASE m > p /\ k = p
    BY <1>3, <2>0, <2>4
  <2>5. CASE m > p /\ k > p
    BY <1>3, <2>0, <2>5 DEF Ascends
  <2> QED  BY <1>1, <2>0, <2>1, <2>2, <2>3, <2>4, <2>5
<1>5. \A k \in 1 .. Len(s) : t[k] \in (ToSet(s) \ {s[1]}) \cup {e}
  <2>1. ToSet(s) = {s[k] : k \in 1 .. Len(s)}
    BY ToSetElements
  <2>2. \A m \in 1 .. Len(s) : m > 1 => s[m] \in ToSet(s) \ {s[1]}
    <3> SUFFICES ASSUME NEW m \in 1 .. Len(s), m > 1 PROVE s[m] \in ToSet(s) \ {s[1]}
      OBVIOUS
    <3>1. s[1] < s[m] /\ s[1] \in Nat /\ s[m] \in Nat
      BY <1>1, <1>2 DEF Ascends
    <3>2. s[1] # s[m]
      BY <3>1
    <3> QED  BY <2>1, <3>2
  <2> TAKE k \in 1 .. Len(s)
  <2>3. CASE k < p
    <3>1. PICK m \in 1 .. Len(s) : m = k + 1 /\ t[k] = s[m]
      BY <1>3, <2>3
    <3> QED  BY <1>1, <2>2, <3>1
  <2>4. CASE k = p
    BY <1>3, <2>4
  <2>5. CASE k > p
    BY <1>1, <1>3, <2>2, <2>5
  <2> QED  BY <1>1, <2>3, <2>4, <2>5
<1>6. ToSet(t) = {t[k] : k \in 1 .. Len(t)}
  BY <1>1, ToSetElements
<1> QED  BY <1>1, <1>4, <1>5, <1>6

\* The len keys of t after the first from.
Slice(t, from, len) == {t[k] : k \in from + 1 .. from + len}

\* Keys all below others, followed by those, ascend.
LEMMA ConcatAscends ==
    ASSUME NEW s \in Seq(ID), Ascends(s), NEW t \in Seq(ID), Ascends(t), Below(ToSet(s), ToSet(t)),
           NEW u, u = s \o t
    PROVE  u \in Seq(ID) /\ Ascends(u) /\ ToSet(u) = ToSet(s) \cup ToSet(t)
<1>1. /\ u \in Seq(ID) /\ Len(u) = Len(s) + Len(t) /\ Len(s) \in Nat /\ Len(t) \in Nat
      /\ \A k \in 1 .. Len(u) : u[k] = IF k <= Len(s) THEN s[k] ELSE t[k - Len(s)]
  BY ConcatElements
<1>2. ToSet(s) = {s[k] : k \in 1 .. Len(s)}
  BY ToSetElements, Zenon
<1>3. ToSet(t) = {t[k] : k \in 1 .. Len(t)}
  BY ToSetElements
<1>4. ToSet(u) = {u[k] : k \in 1 .. Len(u)}
  <2>1. PICK w \in Seq(ID) : w = u
    BY <1>1, Zenon
  <2>2. ToSet(w) = {w[k] : k \in 1 .. Len(w)}
    BY ToSetElements
  <2> QED  BY <2>1, <2>2, Zenon
<1>5. \A k \in 1 .. Len(u) : \/ k \in 1 .. Len(s) /\ u[k] = s[k]
                             \/ \E m \in 1 .. Len(t) : k = Len(s) + m /\ u[k] = t[m]
  <2> TAKE k \in 1 .. Len(u)
  <2>1. CASE k <= Len(s)
    BY <1>1, <2>1
  <2>2. CASE k > Len(s)
    <3>1. PICK m \in 1 .. Len(t) : m = k - Len(s)
      BY <1>1, <2>2
    <3>2. u[k] = t[m] /\ k = Len(s) + m
      BY <1>1, <2>2, <3>1
    <3> QED  BY <3>2
  <2> QED  BY <1>1, <2>1, <2>2
<1>6. Ascends(u)
  <2> SUFFICES ASSUME NEW k \in 1 .. Len(u), NEW m \in 1 .. Len(u), k < m PROVE u[k] < u[m]
    BY DEF Ascends
  <2>1. CASE k \in 1 .. Len(s) /\ u[k] = s[k] /\ m \in 1 .. Len(s) /\ u[m] = s[m]
    BY <2>1 DEF Ascends
  <2>2. CASE k \in 1 .. Len(s) /\ u[k] = s[k] /\ \E m2 \in 1 .. Len(t) : m = Len(s) + m2 /\ u[m] = t[m2]
    <3>1. u[k] \in ToSet(s) /\ u[m] \in ToSet(t)
      BY <1>2, <1>3, <2>2
    <3> QED  BY <3>1 DEF Below
  <2>3. CASE /\ \E k2 \in 1 .. Len(t) : k = Len(s) + k2 /\ u[k] = t[k2]
             /\ \E m2 \in 1 .. Len(t) : m = Len(s) + m2 /\ u[m] = t[m2]
    <3>1. PICK k2 \in 1 .. Len(t) : k = Len(s) + k2 /\ u[k] = t[k2]
      BY <2>3
    <3>2. PICK m2 \in 1 .. Len(t) : m = Len(s) + m2 /\ u[m] = t[m2]
      BY <2>3
    <3>3. k2 < m2
      BY <1>1, <3>1, <3>2
    <3> QED  BY <3>1, <3>2, <3>3 DEF Ascends
  <2>4. ~ (m \in 1 .. Len(s) /\ \E k2 \in 1 .. Len(t) : k = Len(s) + k2)
    BY <1>1
  <2> QED  BY <1>5, <2>1, <2>2, <2>3, <2>4, Zenon
<1>7. ToSet(u) \subseteq ToSet(s) \cup ToSet(t)
  BY <1>2, <1>3, <1>4, <1>5
<1>8. \A k \in 1 .. Len(s) : k \in 1 .. Len(u) /\ u[k] = s[k]
  BY <1>1
<1>9. \A m \in 1 .. Len(t) : \E k \in 1 .. Len(u) : u[k] = t[m]
  <2> TAKE m \in 1 .. Len(t)
  <2>1. PICK k \in 1 .. Len(u) : k = Len(s) + m
    BY <1>1
  <2>2. ~ (k <= Len(s)) /\ k - Len(s) = m
    BY <1>1, <2>1
  <2> QED  BY <1>1, <2>2, Zenon
<1>10. ToSet(s) \cup ToSet(t) \subseteq ToSet(u)
  BY <1>2, <1>3, <1>4, <1>8, <1>9, Zenon
<1> QED  BY <1>1, <1>6, <1>7, <1>10

\* A slice of ascending keys ascends.
LEMMA SliceAscends ==
    ASSUME NEW s \in Seq(ID), Ascends(s), NEW m \in Nat, m >= 1, NEW n \in Int, n <= Len(s),
           NEW t, t = SubSeq(s, m, n)
    PROVE  /\ t \in Seq(ID) /\ Ascends(t)
           /\ ToSet(t) = {s[k] : k \in m .. n}
<1>1. /\ t \in Seq(ID) /\ Len(t) = (IF m <= n THEN n - m + 1 ELSE 0) /\ Len(s) \in Nat
      /\ \A k \in 1 .. Len(t) : t[k] = s[m + k - 1]
  BY SliceElements, LenProperties
<1>2. \A k \in 1 .. Len(t) : \E j \in 1 .. Len(s) : j = m + k - 1 /\ j \in m .. n /\ t[k] = s[j]
  <2> TAKE k \in 1 .. Len(t)
  <2>1. PICK j \in 1 .. Len(s) : j = m + k - 1 /\ j \in m .. n
    BY <1>1
  <2> QED  BY <1>1, <2>1, Zenon
<1>3. Ascends(t)
  <2> SUFFICES ASSUME NEW k \in 1 .. Len(t), NEW l \in 1 .. Len(t), k < l PROVE t[k] < t[l]
    BY Zenon DEF Ascends
  <2>1. PICK j \in 1 .. Len(s) : j = m + k - 1 /\ t[k] = s[j]
    BY <1>2
  <2>2. PICK i \in 1 .. Len(s) : i = m + l - 1 /\ t[l] = s[i]
    BY <1>2
  <2>3. j < i
    BY <1>1, <2>1, <2>2
  <2> QED  BY <2>1, <2>2, <2>3, Zenon DEF Ascends
<1>4. ToSet(t) = {t[k] : k \in 1 .. Len(t)}
  <2>1. PICK w \in Seq(ID) : w = t
    BY <1>1, Zenon
  <2>2. ToSet(w) = {w[k] : k \in 1 .. Len(w)}
    BY ToSetElements
  <2> QED  BY <2>1, <2>2, Zenon
<1>5. \A j \in m .. n : \E k \in 1 .. Len(t) : t[k] = s[j]
  <2> TAKE j \in m .. n
  <2>1. PICK k \in 1 .. Len(t) : k = j - m + 1
    BY <1>1
  <2>2. m + k - 1 = j
    BY <2>1
  <2> QED  BY <1>1, <2>2, Zenon
<1>6. ToSet(t) \subseteq {s[k] : k \in m .. n}
  <2>1. \A k \in 1 .. Len(t) : \E j \in m .. n : t[k] = s[j]
    BY <1>2
  <2> SUFFICES ASSUME NEW x \in ToSet(t) PROVE x \in {s[k] : k \in m .. n}
    BY Zenon
  <2>2. PICK k \in 1 .. Len(t) : x = t[k]
    BY <1>4, Zenon
  <2> QED  BY <2>1, <2>2
<1>7. {s[k] : k \in m .. n} \subseteq ToSet(t)
  BY <1>4, <1>5, Zenon
<1> QED  BY <1>1, <1>3, <1>6, <1>7

-----------------------------------------------------------------------------
(* What the node operations do to the keys.                                 *)

\* The empty slices and the whole slice at the ends of a sequence.
LEMMA EndSlices ==
    ASSUME NEW s \in Seq(ID), Ascends(s)
    PROVE  /\ SubSeq(s, 1, 0) \in Seq(ID) /\ Ascends(SubSeq(s, 1, 0)) /\ ToSet(SubSeq(s, 1, 0)) = {}
           /\ /\ SubSeq(s, 1, Len(s)) \in Seq(ID) /\ Ascends(SubSeq(s, 1, Len(s)))
              /\ ToSet(SubSeq(s, 1, Len(s))) = ToSet(s)
           /\ /\ SubSeq(s, Len(s) + 1, Len(s)) \in Seq(ID) /\ Ascends(SubSeq(s, Len(s) + 1, Len(s)))
              /\ ToSet(SubSeq(s, Len(s) + 1, Len(s))) = {}
<1>0. Len(s) \in Nat
  BY LenProperties
<1>3. PICK z : z = SubSeq(s, 1, 0)
  BY Zenon
<1>4. z \in Seq(ID) /\ Ascends(z) /\ ToSet(z) = {}
  <2>1. PICK m \in Nat, n \in Int : m = 1 /\ n = 0 /\ m >= 1 /\ n <= Len(s)
    BY <1>0
  <2>2. z = SubSeq(s, m, n)
    BY <1>3, <2>1
  <2>3. z \in Seq(ID) /\ Ascends(z) /\ ToSet(z) = {s[k] : k \in m .. n}
    BY <2>1, <2>2, SliceAscends, Zenon
  <2>4. m .. n = {}
    BY <2>1
  <2> QED  BY <2>3, <2>4
<1>5. PICK y : y = SubSeq(s, 1, Len(s))
  OBVIOUS
<1>6. y \in Seq(ID) /\ Ascends(y) /\ ToSet(y) = ToSet(s)
  <2>3. PICK m \in Nat, n \in Int : m = 1 /\ n = Len(s) /\ m >= 1 /\ n <= Len(s)
    BY <1>0
  <2>4. y = SubSeq(s, m, n)
    BY <1>5, <2>3
  <2>5. y \in Seq(ID) /\ Ascends(y) /\ ToSet(y) = {s[k] : k \in m .. n}
    BY <2>3, <2>4, SliceAscends, Zenon
  <2>1. y \in Seq(ID) /\ Ascends(y) /\ ToSet(y) = {s[k] : k \in 1 .. Len(s)}
    BY <2>3, <2>5, Zenon
  <2>2. ToSet(s) = {s[k] : k \in 1 .. Len(s)}
    BY ToSetElements
  <2> QED  BY <2>1, <2>2
<1>7. PICK x : x = SubSeq(s, Len(s) + 1, Len(s))
  BY Zenon
<1>8. x \in Seq(ID) /\ Ascends(x) /\ ToSet(x) = {}
  <2>1. PICK m \in Nat, n \in Int : m = Len(s) + 1 /\ m >= 1 /\ n = Len(s) /\ n <= Len(s)
    BY <1>0
  <2>4. x = SubSeq(s, m, n)
    BY <1>7, <2>1
  <2>2. x \in Seq(ID) /\ Ascends(x) /\ ToSet(x) = {s[k] : k \in m .. n}
    BY <2>1, <2>4, SliceAscends, Zenon
  <2>3. m .. n = {}
    BY <1>0, <2>1
  <2> QED  BY <2>2, <2>3
<1> QED  BY <1>3, <1>4, <1>5, <1>6, <1>7, <1>8

\* Keys moved to the front or the back of a node they are below or above leave it ascending.
LEMMA GraftAscends ==
    ASSUME NEW s \in Seq(ID), Ascends(s), NEW t \in Seq(ID), Ascends(t), NEW from \in Nat, NEW len \in Nat,
           from + len <= Len(t)
    PROVE  /\ Below(Slice(t, from, len), ToSet(s)) =>
                 /\ Graft(s, 0, t, from, len) \in Seq(ID) /\ Ascends(Graft(s, 0, t, from, len))
                 /\ ToSet(Graft(s, 0, t, from, len)) = ToSet(s) \cup Slice(t, from, len)
           /\ Below(ToSet(s), Slice(t, from, len)) =>
                 /\ Graft(s, Len(s), t, from, len) \in Seq(ID) /\ Ascends(Graft(s, Len(s), t, from, len))
                 /\ ToSet(Graft(s, Len(s), t, from, len)) = ToSet(s) \cup Slice(t, from, len)
<1>0. Len(s) \in Nat /\ Len(t) \in Nat
  BY LenProperties
<1>1. PICK b : b = SubSeq(t, from + 1, from + len)
  BY Zenon
<1>2. b \in Seq(ID) /\ Ascends(b) /\ ToSet(b) = Slice(t, from, len)
  <2>1. PICK m \in Nat : m = from + 1 /\ m >= 1
    OBVIOUS
  <2>2. PICK n \in Int : n = from + len /\ n <= Len(t)
    BY <1>0
  <2>3. b = SubSeq(t, m, n)
    BY <1>1, <2>1, <2>2
  <2>4. b \in Seq(ID) /\ Ascends(b) /\ ToSet(b) = {t[k] : k \in m .. n}
    BY <2>1, <2>2, <2>3, SliceAscends, Zenon
  <2> QED  BY <2>1, <2>2, <2>4 DEF Slice
<1>3. PICK z : z = SubSeq(s, 1, 0)
  BY Zenon
<1>4. z \in Seq(ID) /\ Ascends(z) /\ ToSet(z) = {}
  BY <1>3, EndSlices
<1>5. PICK y : y = SubSeq(s, 1, Len(s))
  OBVIOUS
<1>6. y \in Seq(ID) /\ Ascends(y) /\ ToSet(y) = ToSet(s)
  BY <1>5, EndSlices
<1>7. PICK x : x = SubSeq(s, Len(s) + 1, Len(s))
  BY Zenon
<1>8. x \in Seq(ID) /\ Ascends(x) /\ ToSet(x) = {}
  BY <1>7, EndSlices
<1>9. ASSUME Below(Slice(t, from, len), ToSet(s))
      PROVE  /\ Graft(s, 0, t, from, len) \in Seq(ID) /\ Ascends(Graft(s, 0, t, from, len))
             /\ ToSet(Graft(s, 0, t, from, len)) = ToSet(s) \cup Slice(t, from, len)
  <2>1. PICK u : u = z \o b
    BY Zenon
  <2>2. Below(ToSet(z), ToSet(b))
    BY <1>4 DEF Below
  <2>8. u \in Seq(ID) /\ Ascends(u) /\ ToSet(u) = ToSet(z) \cup ToSet(b)
    BY <1>2, <1>4, <2>1, <2>2, ConcatAscends, Zenon
  <2>3. u \in Seq(ID) /\ Ascends(u) /\ ToSet(u) = ToSet(b)
    BY <1>4, <2>8
  <2>4. PICK v : v = u \o y
    BY Zenon
  <2>5. Below(ToSet(u), ToSet(y))
    BY <1>2, <1>6, <1>9, <2>3
  <2>6. v \in Seq(ID) /\ Ascends(v) /\ ToSet(v) = ToSet(u) \cup ToSet(y)
    BY <1>6, <2>3, <2>4, <2>5, ConcatAscends, Zenon
  <2>7. Graft(s, 0, t, from, len) = v
    <3>1. 0 + 1 = 1
      OBVIOUS
    <3> QED  BY <1>1, <1>3, <1>5, <2>1, <2>4, <3>1 DEF Graft
  <2> QED  BY <1>2, <1>6, <2>3, <2>6, <2>7
<1>10. ASSUME Below(ToSet(s), Slice(t, from, len))
       PROVE  /\ Graft(s, Len(s), t, from, len) \in Seq(ID) /\ Ascends(Graft(s, Len(s), t, from, len))
              /\ ToSet(Graft(s, Len(s), t, from, len)) = ToSet(s) \cup Slice(t, from, len)
  <2>1. PICK u : u = y \o b
    BY Zenon
  <2>2. Below(ToSet(y), ToSet(b))
    BY <1>2, <1>6, <1>10
  <2>3. u \in Seq(ID) /\ Ascends(u) /\ ToSet(u) = ToSet(y) \cup ToSet(b)
    BY <1>2, <1>6, <2>1, <2>2, ConcatAscends, Zenon
  <2>4. PICK v : v = u \o x
    BY Zenon
  <2>5. Below(ToSet(u), ToSet(x))
    BY <1>8 DEF Below
  <2>6. v \in Seq(ID) /\ Ascends(v) /\ ToSet(v) = ToSet(u) \cup ToSet(x)
    BY <1>8, <2>3, <2>4, <2>5, ConcatAscends
  <2>7. Graft(s, Len(s), t, from, len) = v
    BY <1>1, <1>5, <1>7, <2>1, <2>4 DEF Graft
  <2> QED  BY <1>2, <1>6, <1>8, <2>3, <2>6, <2>7
<1> QED  BY <1>9, <1>10

\* A node that gives away keys from one of its ends keeps the keys on the other side of them, ascending.
LEMMA CutAscends ==
    ASSUME NEW s \in Seq(ID), Ascends(s), NEW from \in Nat, NEW len \in Nat, from + len <= Len(s),
           from = 0 \/ from + len = Len(s), NEW u, u = Cut(s, from, len)
    PROVE  /\ u \in Seq(ID) /\ Ascends(u) /\ ToSet(u) \subseteq ToSet(s)
           /\ Slice(s, from, len) \subseteq ToSet(s)
           /\ from = 0 => Below(Slice(s, from, len), ToSet(u))
           /\ from + len = Len(s) => Below(ToSet(u), Slice(s, from, len))
<1>0. Len(s) \in Nat
  BY LenProperties
<1>1. PICK a : a = SubSeq(s, 1, from)
  BY Zenon
<1>2. a \in Seq(ID) /\ Ascends(a) /\ ToSet(a) = {s[k] : k \in 1 .. from}
  <2>1. PICK m \in Nat, n \in Int : m = 1 /\ n = from /\ m >= 1 /\ n <= Len(s)
    BY <1>0
  <2>2. a = SubSeq(s, m, n)
    BY <1>1, <2>1
  <2>3. a \in Seq(ID) /\ Ascends(a) /\ ToSet(a) = {s[k] : k \in m .. n}
    BY <2>1, <2>2, SliceAscends, Zenon
  <2> QED  BY <2>1, <2>3, Zenon
<1>3. PICK m \in Nat : m = from + len + 1 /\ m >= 1
  OBVIOUS
<1>4. PICK c : c = SubSeq(s, m, Len(s))
  BY Zenon
<1>5. c \in Seq(ID) /\ Ascends(c) /\ ToSet(c) = {s[k] : k \in m .. Len(s)}
  <2>1. PICK n \in Int : n = Len(s) /\ n <= Len(s)
    BY <1>0
  <2>2. c = SubSeq(s, m, n)
    BY <1>4, <2>1
  <2>3. c \in Seq(ID) /\ Ascends(c) /\ ToSet(c) = {s[k] : k \in m .. n}
    BY <1>3, <2>1, <2>2, SliceAscends, Zenon
  <2> QED  BY <2>1, <2>3, Zenon
<1>6. \A i, j \in 1 .. Len(s) : i < j => s[i] < s[j]
  BY DEF Ascends
<1>7. Below(ToSet(a), ToSet(c))
  <2>1. \A i \in 1 .. from, j \in m .. Len(s) : i \in 1 .. Len(s) /\ j \in 1 .. Len(s) /\ i < j
    BY <1>0, <1>3
  <2>2. \A i \in 1 .. from, j \in m .. Len(s) : s[i] < s[j]
    BY <1>6, <2>1
  <2> QED  BY <1>2, <1>5, <2>2 DEF Below
<1>8. u = a \o c
  BY <1>1, <1>3, <1>4 DEF Cut
<1>9. u \in Seq(ID) /\ Ascends(u) /\ ToSet(u) = ToSet(a) \cup ToSet(c)
  BY <1>2, <1>5, <1>7, <1>8, ConcatAscends, Zenon
<1>10. ToSet(s) = {s[k] : k \in 1 .. Len(s)}
  BY ToSetElements
<1>11. ToSet(a) \subseteq ToSet(s) /\ ToSet(c) \subseteq ToSet(s) /\ Slice(s, from, len) \subseteq ToSet(s)
  <2>1. \A k \in 1 .. from : k \in 1 .. Len(s)
    BY <1>0
  <2>2. \A k \in m .. Len(s) : k \in 1 .. Len(s)
    BY <1>0, <1>3
  <2>3. \A k \in from + 1 .. from + len : k \in 1 .. Len(s)
    BY <1>0
  <2> QED  BY <1>2, <1>5, <1>10, <2>1, <2>2, <2>3 DEF Slice
<1>12. ASSUME from = 0 PROVE Below(Slice(s, from, len), ToSet(u))
  <2>1. \A i \in from + 1 .. from + len, j \in m .. Len(s) : i \in 1 .. Len(s) /\ j \in 1 .. Len(s) /\ i < j
    BY <1>0, <1>3
  <2>2. \A i \in from + 1 .. from + len, j \in m .. Len(s) : s[i] < s[j]
    BY <1>6, <2>1
  <2>3. ToSet(a) = {}
    BY <1>2, <1>12
  <2> QED  BY <1>5, <1>9, <2>2, <2>3 DEF Below, Slice
<1>13. ASSUME from + len = Len(s) PROVE Below(ToSet(u), Slice(s, from, len))
  <2>1. \A i \in 1 .. from, j \in from + 1 .. from + len : i \in 1 .. Len(s) /\ j \in 1 .. Len(s) /\ i < j
    BY <1>0
  <2>2. \A i \in 1 .. from, j \in from + 1 .. from + len : s[i] < s[j]
    BY <1>6, <2>1
  <2>3. m .. Len(s) = {}
    BY <1>0, <1>3, <1>13
  <2>4. ToSet(c) = {}
    BY <1>5, <2>3
  <2> QED  BY <1>2, <1>9, <2>2, <2>4 DEF Below, Slice
<1> QED  BY <1>9, <1>11, <1>12, <1>13
-----------------------------------------------------------------------------
\* What __ttree_node_insert writes: the items of one node.
LEMMA NodeInsertItems ==
    ASSUME NEW h \in Heap, NEW n \in Nodes, NEW p \in 0 .. Length(h, n), NEW e \in Entry,
           Length(h, n) < NodeSize, NEW g, g = NodeInsert(h, n, p, e)
    PROVE  /\ g \in Heap
           /\ g[n].ids = InsertAt(h[n].ids, p + 1, e.id) /\ g[n].data = InsertAt(h[n].data, p + 1, e.rec)
           /\ g[n].left = h[n].left /\ g[n].right = h[n].right /\ g[n].height = h[n].height
           /\ \A m \in Nodes : m # n => g[m] = h[m]
<1>1. h[n] \in TNode
  BY HeapNode
<1>2. g \in Heap /\ \A m \in Nodes : m # n => g[m] = h[m]
  BY NodeInsertType
<1>3. h \in [Nodes -> TNode]
  BY DEF Heap
<1> QED  BY <1>1, <1>2, <1>3 DEF NodeInsert, SetItems, TNode

\* What __ttree_node_remove writes: the items of one node.
LEMMA NodeRemoveItems ==
    ASSUME NEW h \in Heap, NEW n \in Nodes, NEW p \in Nat, p < Length(h, n), NEW g, g = NodeRemove(h, n, p)
    PROVE  /\ g \in Heap
           /\ g[n].ids = RemoveAt(h[n].ids, p + 1) /\ g[n].data = RemoveAt(h[n].data, p + 1)
           /\ g[n].left = h[n].left /\ g[n].right = h[n].right /\ g[n].height = h[n].height
           /\ \A m \in Nodes : m # n => g[m] = h[m]
<1>1. h[n] \in TNode
  BY HeapNode
<1>2. g \in Heap /\ \A m \in Nodes : m # n => g[m] = h[m]
  BY NodeRemoveType
<1>3. h \in [Nodes -> TNode]
  BY DEF Heap
<1> QED  BY <1>1, <1>2, <1>3 DEF NodeRemove, SetItems, TNode

\* What __ttree_node_insert_removing_first writes: the items of one node, never its last_id.
LEMMA InsertRemovingFirstItems ==
    ASSUME NEW h \in Heap, NEW n \in Nodes, NEW p \in 1 .. Length(h, n), NEW e \in Entry,
           NEW g, g = InsertRemovingFirst(h, n, p, e)
    PROVE  /\ g \in Heap
           /\ g[n].ids = ShiftIn(h[n].ids, p, e.id) /\ g[n].data = ShiftIn(h[n].data, p, e.rec)
           /\ g[n].left = h[n].left /\ g[n].right = h[n].right /\ g[n].height = h[n].height
           /\ g[n].last_id = h[n].last_id
           /\ \A m \in Nodes : m # n => g[m] = h[m]
<1>1. h[n] \in TNode
  BY HeapNode
<1>2. g \in Heap /\ \A m \in Nodes : m # n => g[m] = h[m]
  BY InsertRemovingFirstType
<1>3. h \in [Nodes -> TNode]
  BY DEF Heap
<1> QED  BY <1>1, <1>2, <1>3 DEF InsertRemovingFirst, TNode

\* What moving items between two nodes writes: the items of the two, no link and no height.
LEMMA MoveItems ==
    ASSUME NEW h \in Heap, NEW dst \in Nodes, NEW src \in Nodes,
           NEW p \in Nat, NEW from \in Nat, NEW len \in Nat,
           MoveAsserts(h, dst, p, src, from, len), Length(h, dst) + len <= NodeSize,
           NEW g, g = Move(h, dst, p, src, from, len)
    PROVE  /\ g \in Heap
           /\ g[dst].ids = Graft(h[dst].ids, p, h[src].ids, from, len)
           /\ g[dst].data = Graft(h[dst].data, p, h[src].data, from, len)
           /\ g[src].ids = Cut(h[src].ids, from, len) /\ g[src].data = Cut(h[src].data, from, len)
           /\ \A m \in Nodes : g[m].left = h[m].left /\ g[m].right = h[m].right /\ g[m].height = h[m].height
           /\ \A m \in Nodes : m \notin {dst, src} => g[m] = h[m]
<1>1. h[dst] \in TNode /\ h[src] \in TNode
  BY HeapNode
<1>2. g \in Heap /\ \A m \in Nodes : m \notin {dst, src} => g[m] = h[m]
  BY MoveType
<1>3. h \in [Nodes -> TNode] /\ dst # src
  BY DEF Heap, MoveAsserts
<1>4. /\ g[dst].ids = Graft(h[dst].ids, p, h[src].ids, from, len)
      /\ g[dst].data = Graft(h[dst].data, p, h[src].data, from, len)
      /\ g[dst].left = h[dst].left /\ g[dst].right = h[dst].right /\ g[dst].height = h[dst].height
  BY <1>1, <1>3, Zenon DEF Move, SetItems, TNode
<1>5. /\ g[src].ids = Cut(h[src].ids, from, len) /\ g[src].data = Cut(h[src].data, from, len)
      /\ g[src].left = h[src].left /\ g[src].right = h[src].right /\ g[src].height = h[src].height
  BY <1>1, <1>3, Zenon DEF Move, SetItems, TNode
<1> QED  BY <1>2, <1>4, <1>5

-----------------------------------------------------------------------------
(* Refilling a short node keeps the order when it takes from the ends.      *)

\* Every node of S holds items, and its keys ascend.
Rising(h, S) == \A m \in S : h[m].ids # <<>> /\ Ascends(h[m].ids)

\* A sequence with elements has some.
LEMMA ToSetNotEmpty ==
    ASSUME NEW T, NEW s \in Seq(T), s # <<>>
    PROVE  ToSet(s) # {}
<1>1. DOMAIN s = 1 .. Len(s) /\ Len(s) \in Nat /\ Len(s) > 0
  BY LenProperties, NotEmpty
<1>2. s[1] \in ToSet(s)
  BY <1>1 DEF ToSet
<1> QED  BY <1>2

\* A node that gives away fewer items than it has keeps some.
LEMMA CutKeeps ==
    ASSUME NEW s \in Seq(ID), NEW from \in Nat, NEW len \in Nat, from + len <= Len(s), len < Len(s)
    PROVE  Cut(s, from, len) # <<>>
<1>1. Len(Cut(s, from, len)) = Len(s) - len /\ Len(s) \in Nat
  BY CutType, LenProperties
<1> QED  BY <1>1

\* A node with items that is given more has items.
LEMMA GraftNotEmpty ==
    ASSUME NEW s \in Seq(ID), s # <<>>, NEW t \in Seq(ID), NEW p \in Nat, NEW from \in Nat, NEW len \in Nat,
           p <= Len(s), from + len <= Len(t)
    PROVE  Graft(s, p, t, from, len) # <<>>
<1>1. Len(Graft(s, p, t, from, len)) = Len(s) + len
  BY GraftType
<1>2. Len(s) \in Nat /\ Len(s) > 0
  BY LenProperties, NotEmpty
<1> QED  BY <1>1, <1>2

\* A left child with no right child may give its last items to its parent: order is kept.
LEMMA MoveUpLeft ==
    ASSUME NEW h \in Heap, NEW S, NEW r, TreeOf(h, S, r), NEW n \in S, NEW l \in S, h[n].left = l,
           Rising(h, S), NEW span, HeapSpans(h, S, span),
           NEW x \in Nat, x < Length(h, l), NEW f \in Nat, f + x = Length(h, l), x > 0 => h[l].right = NIL,
           MoveAsserts(h, n, 0, l, f, x), Length(h, n) + x <= NodeSize, NEW g, g = Move(h, n, 0, l, f, x)
    PROVE  /\ g \in Heap /\ SameLinks(g, h) /\ Rising(g, S)
           /\ \E sp : HeapSpans(g, S, sp)
<1>1. S \subseteq Nodes /\ n \in Nodes /\ l \in Nodes /\ l # NIL
  BY Children, NILAssumption
<1> DEFINE L == Lefts(h)
           R == Rights(h)
           K == Keys(h)
<1>2. L \in Links /\ R \in Links /\ \A m \in Nodes : L[m] = h[m].left /\ R[m] = h[m].right
  BY HeapLinks
<1>3. IsTree(L, R, S, r)
  BY DEF TreeOf
<1>4. Spans(L, R, K, S, span)
  BY DEF HeapSpans
<1>5. \A m \in Nodes : K[m] = ToSet(h[m].ids)
  BY DEF Keys
<1>6. \A m \in Nodes : K[m] \in SUBSET ID /\ (h[m].ids # <<>> => K[m] # {})
  BY KeysOf
<1> HIDE DEF L, R, K
<1>7. h[n].ids \in Seq(ID) /\ h[l].ids \in Seq(ID) /\ Length(h, l) = Len(h[l].ids)
      /\ Ascends(h[n].ids) /\ Ascends(h[l].ids) /\ h[n].ids # <<>> /\ h[l].ids # <<>>
  BY <1>1, HeapNode DEF Length, Rising
<1>8. /\ g \in Heap
      /\ g[n].ids = Graft(h[n].ids, 0, h[l].ids, f, x)
      /\ g[l].ids = Cut(h[l].ids, f, x)
      /\ \A m \in Nodes : g[m].left = h[m].left /\ g[m].right = h[m].right
      /\ \A m \in Nodes : m \notin {n, l} => g[m] = h[m]
  <2>1. 0 \in Nat
    OBVIOUS
  <2> QED  BY <1>1, <2>1, MoveItems
<1>9. SameLinks(g, h)
  BY <1>8, LinksEqual
<1>10. Below(K[l], K[n]) /\ K[l] \subseteq span[l]
  BY <1>1, <1>2, <1>4 DEF Spans, Below
<1> DEFINE T == Slice(h[l].ids, f, x)
<1>11. PICK u : u = Cut(h[l].ids, f, x)
  OBVIOUS
<1>12. u \in Seq(ID) /\ Ascends(u) /\ ToSet(u) \subseteq K[l] /\ T \subseteq K[l] /\ Below(ToSet(u), T)
  BY <1>1, <1>5, <1>7, <1>11, CutAscends
<1>13. u # <<>>
  BY <1>7, <1>11, CutKeeps
<1>14. Below(T, ToSet(h[n].ids))
  BY <1>1, <1>5, <1>10, <1>12 DEF Below
<1>15. g[n].ids \in Seq(ID) /\ Ascends(g[n].ids) /\ ToSet(g[n].ids) = K[n] \cup T
  BY <1>1, <1>5, <1>7, <1>8, <1>14, GraftAscends
<1>16. g[n].ids # <<>>
  <2>1. PICK p \in Nat : p = 0
    OBVIOUS
  <2>2. p <= Len(h[n].ids) /\ f + x <= Len(h[l].ids)
    BY <1>7, <2>1, LenProperties
  <2>3. Graft(h[n].ids, p, h[l].ids, f, x) # <<>>
    BY <1>7, <2>2, GraftNotEmpty, Zenon
  <2> QED  BY <1>8, <2>1, <2>3
<1>17. g[l].ids = u
  BY <1>8, <1>11
<1>18. Rising(g, S)
  BY <1>1, <1>8, <1>12, <1>13, <1>15, <1>16, <1>17 DEF Rising
<1> DEFINE K2 == Keys(g)
<1>19. \A m \in Nodes : K2[m] = ToSet(g[m].ids)
  BY DEF Keys
<1> HIDE DEF K2
<1>20. /\ K2[n] = K[n] \cup T /\ K2[l] = ToSet(u) /\ \A m \in S \ {n, l} : K2[m] \subseteq K[m]
  BY <1>1, <1>5, <1>8, <1>15, <1>17, <1>19
<1> HIDE DEF T
<1>21. \E sp : Spans(L, R, K2, S, sp)
  <2>1. CASE x > 0
    <3>1. R[l] = NIL /\ L[n] = l
      BY <1>1, <1>2, <2>1
    <3>2. l # n /\ L[l] # l /\ R[n] # l /\ \A m \in S \ {n} : l \notin {L[m], R[m]}
      <4>1. l \in {L[n], R[n]}
        BY <3>1
      <4>2. /\ l # n /\ L[l] \notin {l, n} /\ L[n] # R[n]
            /\ \A m \in Nodes \ {n} : l \notin {L[m], R[m]}
        BY <1>1, <1>2, <1>3, <4>1, Kinship
      <4> QED  BY <1>1, <3>1, <4>2
    <3>3. K[n] # {} /\ K2[l] # {} /\ K2[l] \subseteq K[l] /\ Below(K2[l], T) /\ T \subseteq K[l]
      <4>1. ToSet(u) # {}
        BY <1>12, <1>13, ToSetNotEmpty
      <4> QED  BY <1>1, <1>6, <1>7, <1>12, <1>20, <4>1
    <3>4. K2[n] \subseteq K[n] \cup T /\ \A m \in S \ {n, l} : K2[m] \subseteq K[m]
      BY <1>20
    <3> QED  BY <1>1, <1>2, <1>4, <3>1, <3>2, <3>3, <3>4, SpansGiveRight, Zenon
  <2>2. CASE x = 0
    <3>1. T = {}
      BY <2>2 DEF T, Slice
    <3>2. \A m \in S : K2[m] \subseteq K[m]
      BY <1>12, <1>20, <3>1
    <3>3. Spans(L, R, K2, S, span)
      BY <1>4, <3>2, SpansPrune
    <3> QED  BY <3>3
  <2> QED  BY <2>1, <2>2
<1>22. Lefts(g) = L /\ Rights(g) = R
  BY <1>9 DEF SameLinks, L, R
<1> QED  BY <1>8, <1>9, <1>18, <1>21, <1>22 DEF HeapSpans, K2

\* A right child with no left child may give its first items to its parent: order is kept.
LEMMA MoveUpRight ==
    ASSUME NEW h \in Heap, NEW S, NEW r, TreeOf(h, S, r), NEW n \in S, NEW l \in S, h[n].right = l,
           Rising(h, S), NEW span, HeapSpans(h, S, span),
           NEW x \in Nat, x < Length(h, l), x > 0 => h[l].left = NIL,
           MoveAsserts(h, n, Length(h, n), l, 0, x), Length(h, n) + x <= NodeSize, NEW g, g = Move(h, n, Length(h, n), l, 0, x)
    PROVE  /\ g \in Heap /\ SameLinks(g, h) /\ Rising(g, S)
           /\ \E sp : HeapSpans(g, S, sp)
<1>1. S \subseteq Nodes /\ n \in Nodes /\ l \in Nodes /\ l # NIL
  BY Children, NILAssumption
<1> DEFINE L == Lefts(h)
           R == Rights(h)
           K == Keys(h)
<1>2. L \in Links /\ R \in Links /\ \A m \in Nodes : L[m] = h[m].left /\ R[m] = h[m].right
  BY HeapLinks
<1>3. IsTree(L, R, S, r)
  BY DEF TreeOf
<1>4. Spans(L, R, K, S, span)
  BY DEF HeapSpans
<1>5. \A m \in Nodes : K[m] = ToSet(h[m].ids)
  BY DEF Keys
<1>6. \A m \in Nodes : K[m] \in SUBSET ID /\ (h[m].ids # <<>> => K[m] # {})
  BY KeysOf
<1> HIDE DEF L, R, K
<1>7. h[n].ids \in Seq(ID) /\ h[l].ids \in Seq(ID) /\ Length(h, l) = Len(h[l].ids)
      /\ Ascends(h[n].ids) /\ Ascends(h[l].ids) /\ h[n].ids # <<>> /\ h[l].ids # <<>>
  BY <1>1, HeapNode DEF Length, Rising
<1>8. /\ g \in Heap
      /\ g[n].ids = Graft(h[n].ids, Len(h[n].ids), h[l].ids, 0, x)
      /\ g[l].ids = Cut(h[l].ids, 0, x)
      /\ \A m \in Nodes : g[m].left = h[m].left /\ g[m].right = h[m].right
      /\ \A m \in Nodes : m \notin {n, l} => g[m] = h[m]
  <2>1. PICK p \in Nat, f \in Nat : p = Length(h, n) /\ f = 0
    BY <1>1, HeapNode
  <2>2. MoveAsserts(h, n, p, l, f, x) /\ g = Move(h, n, p, l, f, x)
    BY <2>1
  <2>3. /\ g \in Heap
        /\ g[n].ids = Graft(h[n].ids, p, h[l].ids, f, x)
        /\ g[l].ids = Cut(h[l].ids, f, x)
        /\ \A m \in Nodes : g[m].left = h[m].left /\ g[m].right = h[m].right
        /\ \A m \in Nodes : m \notin {n, l} => g[m] = h[m]
    BY <1>1, <2>2, MoveItems
  <2> QED  BY <2>1, <2>3 DEF Length
<1>9. SameLinks(g, h)
  BY <1>8, LinksEqual
<1>10. Below(K[n], K[l]) /\ K[l] \subseteq span[l]
  BY <1>1, <1>2, <1>4 DEF Spans, Below
<1> DEFINE T == Slice(h[l].ids, 0, x)
<1>11. PICK u : u = Cut(h[l].ids, 0, x)
  OBVIOUS
<1>12. u \in Seq(ID) /\ Ascends(u) /\ ToSet(u) \subseteq K[l] /\ T \subseteq K[l] /\ Below(T, ToSet(u))
  BY <1>1, <1>5, <1>7, <1>11, CutAscends
<1>13. u # <<>>
  BY <1>7, <1>11, CutKeeps
<1>14. Below(ToSet(h[n].ids), T)
  BY <1>1, <1>5, <1>10, <1>12 DEF Below
<1>15. g[n].ids \in Seq(ID) /\ Ascends(g[n].ids) /\ ToSet(g[n].ids) = K[n] \cup T
  BY <1>1, <1>5, <1>7, <1>8, <1>14, GraftAscends
<1>16. g[n].ids # <<>>
  <2>1. PICK p \in Nat, f \in Nat : p = Len(h[n].ids) /\ f = 0
    BY <1>7, LenProperties
  <2>2. p <= Len(h[n].ids) /\ f + x <= Len(h[l].ids)
    <3>1. Len(h[l].ids) \in Nat /\ Len(h[n].ids) \in Nat
      BY <1>7, LenProperties
    <3> QED  BY <1>7, <2>1, <3>1
  <2>3. Graft(h[n].ids, p, h[l].ids, f, x) # <<>>
    BY <1>7, <2>2, GraftNotEmpty
  <2> QED  BY <1>8, <2>1, <2>3
<1>17. g[l].ids = u
  BY <1>8, <1>11
<1>18. Rising(g, S)
  BY <1>1, <1>8, <1>12, <1>13, <1>15, <1>16, <1>17 DEF Rising
<1> DEFINE K2 == Keys(g)
<1>19. \A m \in Nodes : K2[m] = ToSet(g[m].ids)
  BY DEF Keys
<1> HIDE DEF K2
<1>20. /\ K2[n] = K[n] \cup T /\ K2[l] = ToSet(u) /\ \A m \in S \ {n, l} : K2[m] \subseteq K[m]
  BY <1>1, <1>5, <1>8, <1>15, <1>17, <1>19
<1> HIDE DEF T
<1>21. \E sp : Spans(L, R, K2, S, sp)
  <2>1. CASE x > 0
    <3>1. L[l] = NIL /\ R[n] = l
      BY <1>1, <1>2, <2>1
    <3>2. l # n /\ R[l] # l /\ L[n] # l /\ \A m \in S \ {n} : l \notin {L[m], R[m]}
      <4>1. l \in {L[n], R[n]}
        BY <3>1
      <4>2. /\ l # n /\ R[l] \notin {l, n} /\ L[n] # R[n]
            /\ \A m \in Nodes \ {n} : l \notin {L[m], R[m]}
        BY <1>1, <1>2, <1>3, <4>1, Kinship
      <4> QED  BY <1>1, <3>1, <4>2
    <3>3. K[n] # {} /\ K2[l] # {} /\ K2[l] \subseteq K[l] /\ Below(T, K2[l]) /\ T \subseteq K[l]
      <4>1. ToSet(u) # {}
        BY <1>12, <1>13, ToSetNotEmpty
      <4> QED  BY <1>1, <1>6, <1>7, <1>12, <1>20, <4>1
    <3>4. K2[n] \subseteq K[n] \cup T /\ \A m \in S \ {n, l} : K2[m] \subseteq K[m]
      BY <1>20
    <3>5. \A m \in S \ {n} : l \notin {R[m], L[m]}
      BY <3>2
    <3>6. K2[l] # {} /\ K2[l] \subseteq K[l] /\ Below(T, K2[l]) /\ T \subseteq K[l] /\ K[n] # {}
      BY <3>3
    <3>7. T \in SUBSET ID
      BY <1>1, <1>6, <3>6
    <3> QED  BY <1>1, <1>2, <1>4, <3>1, <3>2, <3>4, <3>5, <3>6, <3>7, SpansGiveLeft, Zenon
  <2>2. CASE x = 0
    <3>1. T = {}
      BY <2>2 DEF T, Slice
    <3>2. \A m \in S : K2[m] \subseteq K[m]
      BY <1>12, <1>20, <3>1
    <3>3. Spans(L, R, K2, S, span)
      BY <1>4, <3>2, SpansPrune
    <3> QED  BY <3>3
  <2> QED  BY <2>1, <2>2
<1>22. Lefts(g) = L /\ Rights(g) = R
  BY <1>9 DEF SameLinks, L, R
<1> QED  BY <1>8, <1>9, <1>18, <1>21, <1>22 DEF HeapSpans, K2

\* What __ensure_min_len does to a node short of records: x records come from the end of
\* its left child l, and y from the front of its right child k.
Refilled(g, h, n, l, k, f, x, y, a) ==
    /\ l = h[n].left /\ k = h[n].right /\ l # k /\ l # n /\ k # n
    /\ x = LeftSteal(h, n) /\ y = RightSteal(h, n)
    /\ x < Length(h, l) /\ y < Length(h, k) /\ (NodeSize <= 255 => f + x = Length(h, l))
    /\ MoveAsserts(h, n, 0, l, f, x) /\ Length(h, n) + x <= NodeSize
    /\ a \in Heap /\ a = Move(h, n, 0, l, f, x) /\ SameLinks(a, h)
    /\ Length(a, n) = Length(h, n) + x /\ a[k] = h[k]
    /\ MoveAsserts(a, n, Length(a, n), k, 0, y) /\ Length(a, n) + y <= NodeSize
    /\ g = Move(a, n, Length(a, n), k, 0, y)

\* A refill of a short node is a move from its left child, then one from its right child (either of nothing).
LEMMA EnsureMinLenMoves ==
    ASSUME NEW h \in Heap, NEW S, NEW r, TreeOf(h, S, r), NEW n \in S, EnsureMinLenAsserts(h, n),
           \A m \in S : Whole(h, m), \A m \in S : m # n => Rich(h, m),
           ShortOfRecords(h, n), NEW g, g = EnsureMinLen(h, n)
    PROVE  \E l \in S, k \in S, f \in Nat, x \in Nat, y \in Nat, a \in Heap : Refilled(g, h, n, l, k, f, x, y, a)
<1>0. /\ S \subseteq Nodes /\ n \in Nodes
      /\ \A m \in Nodes : h[m].left # NIL => h[m].left \in S /\ h[m].left # m
      /\ \A m \in Nodes : h[m].right # NIL => h[m].right \in S /\ h[m].right # m
      /\ \A m \in Nodes : h[m].left = h[m].right => h[m].left = NIL
  BY Children
<1> DEFINE l == h[n].left
           k == h[n].right
           x == LeftSteal(h, n)
           f == LeftStealFrom(h, n)
           y == RightSteal(h, n)
           a == StealLeft(h, n)
<1>1. l # NIL /\ k # NIL /\ Length(h, n) < MinLen
  BY DEF ShortOfRecords, Kind
<1>2. l \in S /\ k \in S /\ l # k /\ l # n /\ k # n /\ l \in Nodes /\ k \in Nodes
  BY <1>0, <1>1
<1>3. /\ Length(h, n) \in Nat /\ Length(h, l) \in Nat /\ Length(h, k) \in Nat
      /\ MinLen \in Nat /\ MinLen <= NodeSize /\ Length(h, n) > 0 /\ Length(h, l) <= NodeSize
  BY <1>0, <1>2, HeapNode, NotEmpty, MinLenType, SizeAssumption DEF Whole, Length
<1>4. x \in Nat /\ x <= MinLen - Length(h, n) /\ x <= RemovableCount(h, l)
  <2>1. RemovableCount(h, l) \in Nat
    BY <1>2, RemovableCountType
  <2> QED  BY <1>1, <1>3, <2>1 DEF LeftSteal, Min2
<1>5. y \in Nat /\ y <= MinLen - Length(h, n) - x /\ y <= RemovableCount(h, k)
  <2>1. RemovableCount(h, k) \in Nat
    BY <1>2, RemovableCountType
  <2> QED  BY <1>1, <1>3, <1>4, <2>1 DEF RightSteal, Min2
<1>6. MoveAsserts(h, n, 0, l, f, x) /\ MoveAsserts(a, n, Length(a, n), k, 0, y)
  BY DEF EnsureMinLenAsserts
<1>7. g = Move(a, n, Length(a, n), a[n].right, 0, y)
  BY DEF EnsureMinLen, StealRight
<1>8. a = Move(h, n, 0, l, f, x)
  BY DEF StealLeft
<1>9. x < Length(h, l) /\ y < Length(h, k)
  <2> HIDE DEF l, k, x, y
  <2> QED  BY <1>2, <1>4, <1>5, RemovableCountKeeps
<1>10. f \in Nat
  <2>1. Length(h, l) - x \in Int
    BY <1>3, <1>4
  <2> QED  BY <2>1 DEF LeftStealFrom
<1>11. NodeSize <= 255 => f + x = Length(h, l)
  <2> SUFFICES ASSUME NodeSize <= 255 PROVE f + x = Length(h, l)
    OBVIOUS
  <2>1. f = (Length(h, l) - x) % 256
    BY Zenon DEF LeftStealFrom
  <2>2. Length(h, l) - x \in 0 .. 255
    BY <1>3, <1>4, <1>9, SizeAssumption
  <2> HIDE DEF f, l, x
  <2>3. PICK z \in 0 .. 255 : z = Length(h, l) - x
    BY <2>2
  <2>4. z % 256 = z
    OBVIOUS
  <2>5. f = z
    BY <2>1, <2>3, <2>4, Zenon
  <2>6. z + x = Length(h, l)
    BY <1>3, <1>4, <2>3
  <2> QED  BY <2>5, <2>6
<1>12. Length(h, n) + x <= NodeSize
  BY <1>3, <1>4, SizeAssumption
<1>17. k = h[n].right /\ l = h[n].left /\ x = LeftSteal(h, n) /\ y = RightSteal(h, n)
  OBVIOUS
<1> HIDE DEF l, k, x, f, y, a
<1>13. /\ a \in Heap /\ SameLinks(a, h) /\ Length(a, n) = Length(h, n) + x /\ a[n].right = k
       /\ \A m \in Nodes \ {n, l} : a[m] = h[m]
  <2>1. a \in Heap /\ \A m \in Nodes : a[m].right = h[m].right
    BY <1>0, <1>2, <1>4, <1>6, <1>8, <1>10, <1>12, MoveType
  <2>2. SameLinks(a, h) /\ Length(a, n) = Length(h, n) + x /\ \A m \in Nodes \ {n, l} : a[m] = h[m]
    BY <1>0, <1>2, <1>4, <1>6, <1>8, <1>10, <1>12, MoveKeeps
  <2> QED  BY <1>0, <1>17, <2>1, <2>2
<1>14. Length(a, n) + y <= NodeSize
  BY <1>3, <1>4, <1>5, <1>13, SizeAssumption
<1>15. g = Move(a, n, Length(a, n), k, 0, y)
  BY <1>7, <1>13
<1>16. Refilled(g, h, n, l, k, f, x, y, a)
  BY <1>2, <1>6, <1>8, <1>9, <1>11, <1>12, <1>13, <1>14, <1>15, <1>17 DEF Refilled
<1> QED  BY <1>2, <1>4, <1>5, <1>10, <1>13, <1>16

\* __ensure_min_len_after_rebalance keeps the order when the children it takes records from have no child between
\* their keys and those of the short node. (Without that it does not: it takes the child's own items, not the
\* neighbouring ones.)
LEMMA EnsureMinLenSpans ==
    ASSUME NEW h \in Heap, NEW S, NEW r, TreeOf(h, S, r), NEW n \in S, EnsureMinLenAsserts(h, n),
           NodeSize <= 255, Rising(h, S),
           \A m \in S : Whole(h, m), \A m \in S : m # n => Rich(h, m),
           ShortOfRecords(h, n) => /\ LeftSteal(h, n) > 0 => h[h[n].left].right = NIL
                                   /\ RightSteal(h, n) > 0 => h[h[n].right].left = NIL,
           NEW span, HeapSpans(h, S, span),
           NEW g, g = EnsureMinLen(h, n)
    PROVE  Rising(g, S) /\ \E sp : HeapSpans(g, S, sp)
<1>0. S \subseteq Nodes /\ n \in Nodes
  BY Children
<1>2. CASE ~ShortOfRecords(h, n)
  BY <1>2 DEF EnsureMinLen
<1>3. CASE ShortOfRecords(h, n)
  <2>1. PICK l \in S, k \in S, f \in Nat, x \in Nat, y \in Nat, a \in Heap :
             Refilled(g, h, n, l, k, f, x, y, a)
    BY <1>3, EnsureMinLenMoves
  <2>2. /\ l = h[n].left /\ k = h[n].right /\ l # n /\ k # n /\ l \in Nodes /\ k \in Nodes
        /\ x < Length(h, l) /\ y < Length(h, k) /\ f + x = Length(h, l)
        /\ MoveAsserts(h, n, 0, l, f, x) /\ Length(h, n) + x <= NodeSize
        /\ a = Move(h, n, 0, l, f, x) /\ a[k] = h[k] /\ SameLinks(a, h)
        /\ MoveAsserts(a, n, Length(a, n), k, 0, y) /\ Length(a, n) + y <= NodeSize
        /\ g = Move(a, n, Length(a, n), k, 0, y)
    BY <1>0, <2>1 DEF Refilled
  <2>3. (x > 0 => h[l].right = NIL) /\ (y > 0 => h[k].left = NIL)
    BY <1>3, <2>1 DEF Refilled
  <2>4. Rising(a, S) /\ \E sp : HeapSpans(a, S, sp)
    BY <2>2, <2>3, MoveUpLeft
  <2>5. PICK sp : HeapSpans(a, S, sp)
    BY <2>4
  <2>6. /\ TreeOf(a, S, r) /\ a[n].right = k
    <3>1. Lefts(a) = Lefts(h) /\ Rights(a) = Rights(h)
      BY <2>2 DEF SameLinks
    <3> QED  BY <1>0, <2>2, <3>1, LinksSame DEF TreeOf
  <2>7. y < Length(a, k) /\ (y > 0 => a[k].left = NIL)
    BY <2>2, <2>3, Zenon DEF Length
  <2> QED  BY <2>2, <2>4, <2>5, <2>6, <2>7, MoveUpRight
<1> QED  BY <1>2, <1>3

-----------------------------------------------------------------------------
(* What a division of the keys becomes when nodes gain or lose keys, and when*)
(* a leaf is hung.                                                          *)

\* The root may be given any keys as its span.
LEMMA WidenRoot ==
    ASSUME NEW h \in Heap, NEW S, NEW c, TreeOf(h, S, c), NEW span, HeapSpans(h, S, span), c \in Nodes,
           NEW C \in SUBSET ID
    PROVE  \E sp : /\ HeapSpans(h, S, sp) /\ sp[c] = span[c] \cup C
                   /\ \A m \in Nodes : m # c => sp[m] = span[m]
<1> DEFINE L == Lefts(h)
           R == Rights(h)
           K == Keys(h)
<1>1. L \in Links /\ R \in Links /\ \A m \in Nodes : L[m] = h[m].left /\ R[m] = h[m].right
  BY HeapLinks
<1>2. IsTree(L, R, S, c) /\ Spans(L, R, K, S, span) /\ S \subseteq Nodes
  BY Children DEF TreeOf, HeapSpans
<1>3. span \in [Nodes -> SUBSET ID]
  BY <1>2 DEF Spans
<1>4. /\ \A m \in S : L[m] = c => C \subseteq span[m] /\ Below(C, K[m])
      /\ \A m \in S : R[m] = c => C \subseteq span[m] /\ Below(K[m], C)
  <2>1. \A m \in S : L[m] # c /\ R[m] # c
    BY <1>1, <1>2, Children, NILAssumption
  <2> QED  BY <2>1
<1> HIDE DEF L, R, K
<1> DEFINE sp == [span EXCEPT ![c] = @ \cup C]
<1>5. Spans(L, R, K, S, sp)
  BY <1>1, <1>2, <1>4, SpansWiden
<1>6. sp[c] = span[c] \cup C /\ \A m \in Nodes : m # c => sp[m] = span[m]
  BY <1>3
<1> HIDE DEF sp
<1> QED  BY <1>5, <1>6 DEF HeapSpans, L, R, K

\* The span of a left child may grow by keys of its parent's span below its parent's keys.
LEMMA WidenLeft ==
    ASSUME NEW h \in Heap, NEW S, NEW r, TreeOf(h, S, r), NEW span, HeapSpans(h, S, span), NEW n \in S,
           NEW c \in Nodes, h[n].left = c, NEW C \in SUBSET ID, C \subseteq span[n],
           Below(C, Keys(h)[n])
    PROVE  \E sp : /\ HeapSpans(h, S, sp) /\ sp[c] = span[c] \cup C
                   /\ \A m \in Nodes : m # c => sp[m] = span[m]
<1> DEFINE L == Lefts(h)
           R == Rights(h)
           K == Keys(h)
<1>1. L \in Links /\ R \in Links /\ \A m \in Nodes : L[m] = h[m].left /\ R[m] = h[m].right
  BY HeapLinks
<1>2. IsTree(L, R, S, r) /\ Spans(L, R, K, S, span) /\ S \subseteq Nodes
  BY Children DEF TreeOf, HeapSpans
<1>3. span \in [Nodes -> SUBSET ID]
  BY <1>2 DEF Spans
<1>4. /\ \A m \in S : L[m] = c => C \subseteq span[m] /\ Below(C, K[m])
      /\ \A m \in S : R[m] = c => C \subseteq span[m] /\ Below(K[m], C)
  <2>1. L[n] = c /\ C \subseteq span[n] /\ Below(C, K[n])
    BY <1>1, <1>2
  <2>2. c \in {L[n], R[n]}
    BY <2>1
  <2>3. /\ \A m \in Nodes \ {n} : c \notin {L[m], R[m]}
        /\ L[n] # R[n]
    BY <1>1, <1>2, <2>2, Kinship
  <2> HIDE DEF L, R, K
  <2> QED  BY <1>2, <2>1, <2>3
<1> HIDE DEF L, R, K
<1> DEFINE sp == [span EXCEPT ![c] = @ \cup C]
<1>5. Spans(L, R, K, S, sp)
  BY <1>1, <1>2, <1>4, SpansWiden, Zenon
<1>6. sp[c] = span[c] \cup C /\ \A m \in Nodes : m # c => sp[m] = span[m]
  BY <1>3
<1> HIDE DEF sp
<1> QED  BY <1>5, <1>6 DEF HeapSpans, L, R, K

\* The span of a right child may grow by keys of its parent's span above its parent's keys.
LEMMA WidenRight ==
    ASSUME NEW h \in Heap, NEW S, NEW r, TreeOf(h, S, r), NEW span, HeapSpans(h, S, span), NEW n \in S,
           NEW c \in Nodes, h[n].right = c, NEW C \in SUBSET ID, C \subseteq span[n],
           Below(Keys(h)[n], C)
    PROVE  \E sp : /\ HeapSpans(h, S, sp) /\ sp[c] = span[c] \cup C
                   /\ \A m \in Nodes : m # c => sp[m] = span[m]
<1> DEFINE L == Lefts(h)
           R == Rights(h)
           K == Keys(h)
<1>1. L \in Links /\ R \in Links /\ \A m \in Nodes : L[m] = h[m].left /\ R[m] = h[m].right
  BY HeapLinks
<1>2. IsTree(L, R, S, r) /\ Spans(L, R, K, S, span) /\ S \subseteq Nodes
  BY Children DEF TreeOf, HeapSpans
<1>3. span \in [Nodes -> SUBSET ID]
  BY <1>2 DEF Spans
<1>4. /\ \A m \in S : L[m] = c => C \subseteq span[m] /\ Below(C, K[m])
      /\ \A m \in S : R[m] = c => C \subseteq span[m] /\ Below(K[m], C)
  <2>1. R[n] = c /\ C \subseteq span[n] /\ Below(K[n], C)
    BY <1>1, <1>2
  <2>2. c \in {L[n], R[n]}
    BY <2>1
  <2>3. /\ \A m \in Nodes \ {n} : c \notin {L[m], R[m]}
        /\ L[n] # R[n]
    BY <1>1, <1>2, <2>2, Kinship
  <2> HIDE DEF L, R, K
  <2> QED  BY <1>2, <2>1, <2>3
<1> HIDE DEF L, R, K
<1> DEFINE sp == [span EXCEPT ![c] = @ \cup C]
<1>5. Spans(L, R, K, S, sp)
  BY <1>1, <1>2, <1>4, SpansWiden, Zenon
<1>6. sp[c] = span[c] \cup C /\ \A m \in Nodes : m # c => sp[m] = span[m]
  BY <1>3
<1> HIDE DEF sp
<1> QED  BY <1>5, <1>6 DEF HeapSpans, L, R, K

\* A node that gains keys of its span between its children's spans keeps the keys divided.
LEMMA GainKeys ==
    ASSUME NEW h \in Heap, NEW g \in Heap, NEW S, S \subseteq Nodes, NEW span, HeapSpans(h, S, span),
           SameLinks(g, h), NEW n \in S, NEW C, C \subseteq span[n],
           \A m \in S : m # n => g[m].ids = h[m].ids, Keys(g)[n] \subseteq Keys(h)[n] \cup C,
           h[n].left # NIL => Below(span[h[n].left], C),
           h[n].right # NIL => Below(C, span[h[n].right])
    PROVE  HeapSpans(g, S, span)
<1> DEFINE L == Lefts(h)
           R == Rights(h)
           K == Keys(h)
           K2 == Keys(g)
<1>1. L[n] = h[n].left /\ R[n] = h[n].right /\ Lefts(g) = L /\ Rights(g) = R
  BY HeapLinks DEF SameLinks
<1>2. \A m \in S : m # n => K2[m] \subseteq K[m]
  BY DEF Keys
<1>3. Spans(L, R, K, S, span) /\ K2[n] \subseteq K[n] \cup C
  BY DEF HeapSpans
<1>4. /\ L[n] # NIL => Below(span[L[n]], C)
      /\ R[n] # NIL => Below(C, span[R[n]])
  BY <1>1
<1> HIDE DEF L, R, K, K2
<1>5. Spans(L, R, K2, S, span)
  BY <1>2, <1>3, <1>4, SpansKeys, Zenon
<1> QED  BY <1>1, <1>5 DEF HeapSpans, K2

\* Some division gives c the keys of C as well.
Widened(h, S, span, c, C) == \E sp : HeapSpans(h, S, sp) /\ sp[c] = span[c] \cup C
\* Some division gives the new leaf f the span F.
Grown(g, S, f, F) == \E sp : HeapSpans(g, S \cup {f}, sp) /\ sp[f] = F
\* f is the new child of n on the side of n's keys that F is on.
Hangs(g, h, n, f, F) ==
    \/ /\ Lefts(g) = [Lefts(h) EXCEPT ![n] = f] /\ Rights(g) = Rights(h)
       /\ Below(F, Keys(h)[n])
    \/ /\ Rights(g) = [Rights(h) EXCEPT ![n] = f] /\ Lefts(g) = Lefts(h)
       /\ Below(Keys(h)[n], F)

\* A leaf that is hung on the side of its parent its keys belong to keeps the keys divided.
LEMMA GainsLeaf ==
    ASSUME NEW h \in Heap, NEW S, NEW r, TreeOf(h, S, r), NEW span, HeapSpans(h, S, span),
           NEW n \in S, NEW f \in Nodes \ S, NEW g \in Heap, NEW F \in SUBSET ID, F \subseteq span[n],
           Keys(g)[f] \subseteq F, \A m \in S : g[m].ids = h[m].ids, Hangs(g, h, n, f, F)
    PROVE  Grown(g, S, f, F)
<1> DEFINE L == Lefts(h)
           R == Rights(h)
           K == Keys(h)
           L2 == Lefts(g)
           R2 == Rights(g)
           K2 == Keys(g)
<1>1. L \in Links /\ R \in Links /\ \A m \in Nodes : L[m] = h[m].left /\ R[m] = h[m].right
  BY HeapLinks
<1>2. L2 \in Links /\ R2 \in Links
  BY HeapLinks
<1>3. Spans(L, R, K, S, span) /\ S \subseteq Nodes /\ n # f /\ f \in Nodes
  BY Children DEF TreeOf, HeapSpans
<1>4. \A m \in S : f \notin {L[m], R[m]}
  BY <1>1, <1>3, Children, NILAssumption
<1>5. h[f].left = NIL /\ h[f].right = NIL
  BY Outside
<1>6. L[f] = NIL /\ R[f] = NIL
  BY <1>1, <1>5
<1>7. \A m \in S : K2[m] \subseteq K[m]
  BY <1>3 DEF Keys
<1>8. Keys(g)[f] \subseteq F /\ K2 = Keys(g) /\ K = Keys(h)
  OBVIOUS
<1>9. \/ L2 = [L EXCEPT ![n] = f] /\ R2 = R /\ Below(F, K[n])
      \/ R2 = [R EXCEPT ![n] = f] /\ L2 = L /\ Below(K[n], F)
  BY DEF Hangs
<1> HIDE DEF L, R, K, L2, R2, K2
<1>10. L2[f] = NIL /\ R2[f] = NIL
  BY <1>1, <1>3, <1>6, <1>9 DEF Links
<1>11. /\ \A m \in S : L2[m] = L[m] \/ (m = n /\ L2[m] = f /\ Below(F, K[n]))
       /\ \A m \in S : R2[m] = R[m] \/ (m = n /\ R2[m] = f /\ Below(K[n], F))
  BY <1>1, <1>3, <1>9 DEF Links
<1>12. K2[f] \subseteq F
  BY <1>8
<1> DEFINE sp == [span EXCEPT ![f] = F]
<1>13. Spans(L2, R2, K2, S \cup {f}, sp)
  <2>1. /\ \A m \in S : L2[m] = L[m] \/ (m = n /\ L2[m] = f /\ Below(F, K[n]))
        /\ \A m \in S : R2[m] = R[m] \/ (m = n /\ R2[m] = f /\ Below(K[n], F))
        /\ L2[f] = NIL /\ R2[f] = NIL /\ F \subseteq span[n] /\ n \in S /\ f \in Nodes \ S
        /\ F \in SUBSET ID
    BY <1>10, <1>11
  <2> HIDE DEF sp
  <2>2. sp = [span EXCEPT ![f] = F]
    BY DEF sp
  <2>3. PICK A \in Links, B \in Links : A = L /\ B = R
    BY <1>1
  <2>4. Spans(A, B, K, S, span) /\ \A m \in S : f \notin {A[m], B[m]}
    BY <1>3, <1>4, <2>3
  <2>5. /\ \A m \in S : L2[m] = A[m] \/ (m = n /\ L2[m] = f /\ Below(F, K[n]))
        /\ \A m \in S : R2[m] = B[m] \/ (m = n /\ R2[m] = f /\ Below(K[n], F))
    BY <2>1, <2>3
  <2>6. Spans(L2, R2, K2, S \cup {f}, [span EXCEPT ![f] = F])
    BY <1>3, <1>7, <1>12, <2>1, <2>4, <2>5, SpansPlant, Zenon
  <2> QED  BY <2>2, <2>6
<1>14. span \in [Nodes -> SUBSET ID]
  BY <1>3 DEF Spans
<1>15. sp[f] = F /\ \A m \in Nodes : m # f => sp[m] = span[m]
  BY <1>3, <1>14
<1> HIDE DEF sp
<1>16. HeapSpans(g, S \cup {f}, sp)
  BY <1>13 DEF HeapSpans, L2, R2, K2
<1>17. sp[f] = F
  BY <1>15
<1> QED  BY <1>16, <1>17 DEF Grown

\* Inserting into the empty sequence.
LEMMA SingleElement ==
    ASSUME NEW T, NEW e \in T
    PROVE  InsertAt(<<>>, 1, e) = <<e>>
<1>1. \A n \in {0} : SubSeq(<<>>, 1, n) = <<>>
  OBVIOUS
<1>2. SubSeq(<<>>, 1, 1 - 1) = <<>> /\ SubSeq(<<>>, 1, Len(<<>>)) = <<>>
  BY <1>1
<1>3. <<>> \o <<e>> = <<e>> /\ <<e>> \o <<>> = <<e>>
  OBVIOUS
<1> QED  BY <1>2, <1>3, Zenon DEF InsertAt

\* The items and the height of a node just created with one entry.
LEMMA StartedItems ==
    ASSUME NEW h \in Heap, NEW f \in Nodes, h[f].left = NIL, h[f].right = NIL, NEW e \in Entry
    PROVE  Started(h, f, e)[f].ids = <<e.id>> /\ Started(h, f, e)[f].data = <<e.rec>>
           /\ Started(h, f, e)[f].height = 1
<1>1. PICK w \in Heap : w = Cleared(h, f)
  BY ClearedKeeps
<1>2. w[f] = Blank
  BY <1>1 DEF Cleared, Heap
<1>3. Length(w, f) = 0 /\ w[f].ids = <<>> /\ w[f].data = <<>> /\ w[f].height = 1
  BY <1>2 DEF Blank, Length
<1>4. 0 \in 0 .. Length(w, f) /\ Length(w, f) < NodeSize
  BY <1>3, SizeAssumption
<1>5. PICK g : g = NodeInsert(w, f, 0, e)
  OBVIOUS
<1>6. g[f].ids = InsertAt(w[f].ids, 1, e.id) /\ g[f].data = InsertAt(w[f].data, 1, e.rec)
      /\ g[f].height = w[f].height
  <2>1. g[f].ids = InsertAt(w[f].ids, 0 + 1, e.id) /\ g[f].data = InsertAt(w[f].data, 0 + 1, e.rec)
      /\ g[f].height = w[f].height
    BY <1>4, <1>5, NodeInsertItems
  <2> QED  BY <2>1
<1>7. g = Started(h, f, e)
  BY <1>1, <1>5 DEF Started
<1>8. e.id \in ID /\ e.rec \in Record
  BY DEF Entry
<1> QED  BY <1>3, <1>6, <1>7, <1>8, SingleElement

\* The items and the height of a child just created with one entry.
LEMMA PlantItems ==
    ASSUME NEW h \in Heap, NEW n \in Nodes, n # Fresh, Fresh \in Nodes, h[Fresh].left = NIL, h[Fresh].right = NIL,
           NEW side \in {"left", "right"}, NEW e \in Entry, NEW g, g = WithChild(h, n, side, e)
    PROVE  g[Fresh].ids = <<e.id>> /\ g[Fresh].data = <<e.rec>> /\ g[Fresh].height = 1
<1>1. PICK f \in Nodes : f = Fresh
  OBVIOUS
<1>2. PICK w \in Heap : w = Started(h, f, e)
  BY <1>1, StartedKeeps
<1>3. w[f].ids = <<e.id>> /\ w[f].data = <<e.rec>> /\ w[f].height = 1
  BY <1>1, <1>2, StartedItems
<1>4. e # None
  BY NoneAssumption
<1>5. g = IF side = "left" THEN [w EXCEPT ![n].left = f] ELSE [w EXCEPT ![n].right = f]
  BY <1>1, <1>2, <1>4 DEF WithChild, Started, Cleared
<1> QED  BY <1>1, <1>3, <1>5 DEF Heap

\* One key ascends, and so do none.
LEMMA OneAscends ==
    ASSUME NEW e \in ID
    PROVE  Ascends(<<e>>) /\ ToSet(<<e>>) = {e} /\ Ascends(<<>>) /\ ToSet(<<>>) = {}
BY DEF Ascends, ToSet

\* The same links and keys have the same divisions.
LEMMA SameSpans ==
    ASSUME NEW g, NEW h, SameLinks(g, h), \A m \in Nodes : g[m].ids = h[m].ids, NEW S, NEW span, HeapSpans(h, S, span)
    PROVE  HeapSpans(g, S, span)
<1>1. Keys(g) = Keys(h)
  BY DEF Keys
<1> QED  BY <1>1 DEF HeapSpans, SameLinks

\* WidenLeft, for a caller that has no use for the rest of the division.
LEMMA WidenLeftTo ==
    ASSUME NEW h \in Heap, NEW S, NEW r, TreeOf(h, S, r), NEW span, HeapSpans(h, S, span), NEW n \in S,
           NEW c \in Nodes, h[n].left = c, NEW C \in SUBSET ID, C \subseteq span[n],
           Below(C, Keys(h)[n])
    PROVE  Widened(h, S, span, c, C)
<1>1. \E sp : /\ HeapSpans(h, S, sp) /\ sp[c] = span[c] \cup C
              /\ \A m \in Nodes : m # c => sp[m] = span[m]
  BY WidenLeft
<1> QED  BY <1>1 DEF Widened

\* Nodes that lose keys keep the keys divided.
LEMMA LoseKeys ==
    ASSUME NEW h \in Heap, NEW g \in Heap, NEW S, S \subseteq Nodes, NEW span, HeapSpans(h, S, span),
           SameLinks(g, h), \A m \in S : Keys(g)[m] \subseteq Keys(h)[m]
    PROVE  HeapSpans(g, S, span)
BY SpansPrune DEF HeapSpans, SameLinks

\* A greater key appended leaves the keys ascending.
LEMMA AppendAscends ==
    ASSUME NEW s \in Seq(ID), Ascends(s), NEW x \in ID, Len(s) > 0, s[Len(s)] < x
    PROVE  Append(s, x) \in Seq(ID) /\ Ascends(Append(s, x))
<1>1. /\ Len(s) \in Nat /\ Append(s, x) \in Seq(ID) /\ Len(Append(s, x)) = Len(s) + 1
      /\ \A i \in 1 .. Len(s) : Append(s, x)[i] = s[i]
      /\ Append(s, x)[Len(s) + 1] = x
  BY LenProperties, AppendProperties
<1>2. PICK t : t = Append(s, x)
  BY Zenon
<1>3. \A i \in 1 .. Len(s) : s[i] \in Nat /\ s[i] \in ID
  BY ElementOfSeq, IDAssumption, Zenon
<1>4. \A i \in 1 .. Len(s) : s[i] < x
  <2> SUFFICES ASSUME NEW i \in 1 .. Len(s) PROVE s[i] < x
    OBVIOUS
  <2>1. i = Len(s) \/ s[i] < s[Len(s)]
    BY <1>1 DEF Ascends
  <2>2. x \in Nat /\ s[i] \in Nat /\ s[Len(s)] \in Nat
    BY <1>1, <1>3, IDAssumption
  <2> QED  BY <2>1, <2>2
<1>5. ASSUME NEW i \in 1 .. Len(t), NEW j \in 1 .. Len(t), i < j PROVE t[i] < t[j]
  <2>1. i \in 1 .. Len(s) /\ t[i] = s[i]
    BY <1>1, <1>2, <1>5
  <2>2. CASE j = Len(s) + 1
    BY <1>1, <1>2, <1>4, <2>1, <2>2
  <2>3. CASE j # Len(s) + 1
    <3>1. j \in 1 .. Len(s) /\ t[j] = s[j]
      BY <1>1, <1>2, <1>5, <2>3
    <3> QED  BY <1>5, <2>1, <3>1 DEF Ascends
  <2> QED  BY <2>2, <2>3
<1>6. Ascends(t)
  BY <1>5 DEF Ascends
<1> QED  BY <1>1, <1>2, <1>6

=============================================================================
