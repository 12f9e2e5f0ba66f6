----------------------- MODULE ChunkedAllocatorProofs -----------------------
(***************************************************************************)
(* The lists of the allocator stay sound, whatever the number and the size  *)
(* of the chunks: every free list visits exactly the items nobody holds,    *)
(* every chunk is on the list it belongs to, no item is handed out twice    *)
(* and no chunk outlives its items.                                         *)
(***************************************************************************)
EXTENDS ChunkedAllocator, FiniteSetTheorems, SequenceTheorems, TLAPS

USE SizeAssumption, ValueAssumption

-----------------------------------------------------------------------------
(* Rows: the members of a set one after the other.                          *)

\* s puts the members of S in a row of n, each in one place.
InARow(s, n, S) ==
    /\ n \in Nat /\ s \in [1 .. n -> S]
    /\ \A j, k \in 1 .. n : s[j] = s[k] => j = k
    /\ \A x \in S : \E k \in 1 .. n : s[k] = x

\* A set with a row is finite and has as many members as the row is long.
LEMMA RowCounts ==
    ASSUME NEW S, NEW n, NEW s, InARow(s, n, S)
    PROVE  IsFiniteSet(S) /\ Cardinality(S) = n
<1>1. n \in Nat /\ s \in Bijection(1 .. n, S)
  BY Zenon DEF InARow, Bijection, Injection, Surjection, IsInjective
<1>2. ExistsBijection(1 .. n, S)
  BY <1>1 DEF ExistsBijection
<1>3. IsFiniteSet(1 .. n) /\ Cardinality(1 .. n) = n
  BY <1>1, FS_Interval
<1> QED  BY <1>2, <1>3, FS_Bijection

\* A function on 1 .. n is a sequence of length n.
LEMMA RowIsSequence ==
    ASSUME NEW S, NEW n \in Nat, NEW s \in [1 .. n -> S]
    PROVE  s \in Seq(S) /\ Len(s) = n /\ (n = 0 => s = <<>>)
OBVIOUS

\* The rows of a finite set are the members of Rows.
LEMMA RowsAreRows ==
    ASSUME NEW S, IsFiniteSet(S)
    PROVE  \A s : s \in Rows(S) <=> InARow(s, Cardinality(S), S)
<1> DEFINE n == Cardinality(S)
<1>1. n \in Nat
  BY FS_CardinalityType
<1>2. IsFiniteSet(1 .. n) /\ Cardinality(1 .. n) = n
  BY <1>1, FS_Interval
<1> HIDE DEF n
<1>3. ASSUME NEW s \in [1 .. n -> S], IsInjective(s)
      PROVE  \A x \in S : \E k \in 1 .. n : s[k] = x
  <2>1. s \in Injection(1 .. n, S)
    BY <1>3 DEF Injection
  <2>2. s \in Surjection(1 .. n, S)
    BY <2>1, <1>2, FS_Injection DEF n
  <2> QED  BY <2>2 DEF Surjection
<1>4. ASSUME NEW s PROVE s \in [1 .. n -> S] /\ IsInjective(s) <=> InARow(s, n, S)
  BY <1>1, <1>3, Zenon DEF InARow, IsInjective
<1> QED  BY <1>4 DEF Rows, n

\* A row and a new first member.
Before(x, s, n) == [k \in 1 .. n + 1 |-> IF k = 1 THEN x ELSE s[k - 1]]

\* A new first member makes a longer row.
LEMMA BeforeIsARow ==
    ASSUME NEW S, NEW s, NEW n, InARow(s, n, S), NEW x, x \notin S
    PROVE  InARow(Before(x, s, n), n + 1, S \cup {x})
<1> DEFINE t == Before(x, s, n)
<1>1. n \in Nat /\ s \in [1 .. n -> S]
  BY DEF InARow
<1>2. t[1] = x /\ \A k \in 2 .. n + 1 : k - 1 \in 1 .. n /\ t[k] = s[k - 1]
  BY <1>1 DEF Before
<1>3. t \in [1 .. n + 1 -> S \cup {x}]
  BY <1>1 DEF Before
<1>4. \A j, k \in 1 .. n + 1 : t[j] = t[k] => j = k
  BY <1>1, <1>2 DEF InARow
<1>5. \A y \in S \cup {x} : \E k \in 1 .. n + 1 : t[k] = y
  <2> SUFFICES ASSUME NEW y \in S, y # x PROVE \E k \in 1 .. n + 1 : t[k] = y
    BY <1>1, <1>2
  <2>1. PICK k \in 1 .. n : s[k] = y
    BY DEF InARow
  <2>2. k + 1 \in 2 .. n + 1 /\ t[k + 1] = s[k]
    BY <1>1, <1>2
  <2> QED  BY <1>1, <2>1, <2>2
<1> QED  BY <1>1, <1>3, <1>4, <1>5 DEF InARow

\* A row without its j-th member.
Without(s, n, j) == [k \in 1 .. n - 1 |-> IF k < j THEN s[k] ELSE s[k + 1]]

\* A row without one of its members is a row.
LEMMA WithoutIsARow ==
    ASSUME NEW S, NEW s, NEW n, InARow(s, n, S), NEW j \in 1 .. n
    PROVE  InARow(Without(s, n, j), n - 1, S \ {s[j]})
<1> DEFINE t == Without(s, n, j)
<1>1. n \in Nat /\ n >= 1 /\ s \in [1 .. n -> S]
  BY DEF InARow
<1>2. \A k \in 1 .. n - 1 : t[k] = IF k < j THEN s[k] ELSE s[k + 1]
  BY <1>1 DEF Without
<1>3. t \in [1 .. n - 1 -> S \ {s[j]}]
  <2>1. ASSUME NEW k \in 1 .. n - 1
        PROVE  (IF k < j THEN s[k] ELSE s[k + 1]) \in S \ {s[j]}
    BY <1>1, <2>1 DEF InARow
  <2> QED  BY <2>1 DEF Without
<1>4. \A i, k \in 1 .. n - 1 : t[i] = t[k] => i = k
  BY <1>1, <1>2 DEF InARow
<1>5. \A y \in S \ {s[j]} : \E k \in 1 .. n - 1 : t[k] = y
  <2> SUFFICES ASSUME NEW y \in S, y # s[j] PROVE \E k \in 1 .. n - 1 : t[k] = y
    OBVIOUS
  <2>1. PICK k \in 1 .. n : s[k] = y
    BY DEF InARow
  <2>2. CASE k < j
    BY <1>1, <1>2, <2>1, <2>2
  <2>3. CASE k > j
    <3>1. k - 1 \in 1 .. n - 1 /\ t[k - 1] = s[k]
      BY <1>1, <1>2, <2>1, <2>3
    <3> QED  BY <2>1, <3>1
  <2> QED  BY <2>1, <2>2, <2>3
<1> QED  BY <1>1, <1>3, <1>4, <1>5 DEF InARow

-----------------------------------------------------------------------------
(* The places of the items.                                                 *)

\* A chunk has room for an item.
LEMMA CapacityType == Capacity \in Nat /\ Capacity >= 1 /\ Capacity * ItemSize <= ChunkSize
BY DEF Capacity

\* An item lies inside its chunk, so that its address tells its chunk and its place.
LEMMA PlaceOfItem ==
    ASSUME NEW c \in Chunks, NEW i \in Slots
    PROVE  /\ ItemAt(c, i) \in Nat
           /\ ChunkOf(ItemAt(c, i)) = c
           /\ IndexOf(ItemAt(c, i)) = i
<1>1. c \in Nat /\ c % ChunkSize = 0
  BY ChunkAssumption
<1>2. i \in Nat /\ i <= Capacity - 1
  BY CapacityType DEF Slots
<1>3. i * ItemSize <= (Capacity - 1) * ItemSize
  BY <1>2, CapacityType
<1>4. i * ItemSize \in Nat /\ i * ItemSize < ChunkSize
  BY <1>2, <1>3, CapacityType
<1> DEFINE x == i * ItemSize
<1>5. x \in Nat /\ x < ChunkSize
  BY <1>4
<1>6. x \div ItemSize = i
  BY <1>2
<1> HIDE DEF x
<1>7. (c + x) % ChunkSize = x
  <2>1. PICK q \in Nat : c = ChunkSize * q
    BY <1>1
  <2>2. c + x = ChunkSize * q + x
    BY <2>1, <1>1, <1>5
  <2> QED  BY <2>1, <2>2, <1>5
<1>8. c + x \in Nat /\ (c + x) - x = c /\ (c + x) - c = x
  BY <1>1, <1>5
<1> QED  BY <1>6, <1>7, <1>8 DEF ItemAt, ChunkOf, IndexOf, x

\* Two items at one address are one item.
LEMMA OneItem ==
    ASSUME NEW c \in Chunks, NEW d \in Chunks, NEW i \in Slots, NEW j \in Slots,
           ItemAt(c, i) = ItemAt(d, j)
    PROVE  c = d /\ i = j
BY PlaceOfItem

-----------------------------------------------------------------------------
(* The lists of chunks.                                                     *)

Lists == {"free", "full"}

ChunkType == [memory : [Slots -> Slots \cup {Garbage}],
              free_list : Slots \cup {Garbage}, used_count : 0 .. Capacity,
              prev : Chunks \cup {NULL}, next : Chunks \cup {NULL}]

MemoryType == [head : [Lists -> Chunks \cup {NULL}], chunk : [Chunks -> ChunkType]]

\* The two memories differ in the links of the lists only.
SameItems(m, m2) ==
    \A d \in Chunks : /\ m2.chunk[d].memory = m.chunk[d].memory
                      /\ m2.chunk[d].free_list = m.chunk[d].free_list
                      /\ m2.chunk[d].used_count = m.chunk[d].used_count

\* NULL is not the address of a chunk.
LEMMA NullIsNoChunk == NULL \notin Chunks
BY ChunkAssumption

\* Writing the link of a chunk, or of none, changes that link only.
LEMMA SetNextEffect ==
    ASSUME NEW m \in MemoryType, NEW c \in Chunks \cup {NULL}, NEW d \in Chunks \cup {NULL}
    PROVE  /\ SetNext(m, c, d) \in MemoryType
           /\ SetNext(m, c, d).head = m.head
           /\ SameItems(m, SetNext(m, c, d))
           /\ \A e \in Chunks :
                 /\ (e = c => SetNext(m, c, d).chunk[e].next = d)
                 /\ (e # c => SetNext(m, c, d).chunk[e].next = m.chunk[e].next)
                 /\ SetNext(m, c, d).chunk[e].prev = m.chunk[e].prev
<1>1. CASE c = NULL
  BY <1>1, NullIsNoChunk DEF SetNext, SameItems
<1>2. CASE c \in Chunks
  <2> DEFINE m2 == [m EXCEPT !.chunk[c].next = d]
  <2>1. SetNext(m, c, d) = m2
    BY <1>2, NullIsNoChunk DEF SetNext
  <2>2. /\ m2 \in MemoryType /\ m2.head = m.head
        /\ m2.chunk = [m.chunk EXCEPT ![c] = [@ EXCEPT !.next = d]]
    BY <1>2 DEF MemoryType, ChunkType
  <2> HIDE DEF m2
  <2>3. SameItems(m, m2)
    BY <1>2, <2>2 DEF MemoryType, ChunkType, SameItems
  <2>4. \A e \in Chunks : /\ (e = c => m2.chunk[e].next = d)
                          /\ (e # c => m2.chunk[e].next = m.chunk[e].next)
                          /\ m2.chunk[e].prev = m.chunk[e].prev
    BY <1>2, <2>2 DEF MemoryType, ChunkType
  <2> QED  BY <2>1, <2>2, <2>3, <2>4
<1> QED  BY <1>1, <1>2

\* The same of the link to the previous chunk.
LEMMA SetPrevEffect ==
    ASSUME NEW m \in MemoryType, NEW c \in Chunks \cup {NULL}, NEW d \in Chunks \cup {NULL}
    PROVE  /\ SetPrev(m, c, d) \in MemoryType
           /\ SetPrev(m, c, d).head = m.head
           /\ SameItems(m, SetPrev(m, c, d))
           /\ \A e \in Chunks :
                 /\ (e = c => SetPrev(m, c, d).chunk[e].prev = d)
                 /\ (e # c => SetPrev(m, c, d).chunk[e].prev = m.chunk[e].prev)
                 /\ SetPrev(m, c, d).chunk[e].next = m.chunk[e].next
<1>1. CASE c = NULL
  BY <1>1, NullIsNoChunk DEF SetPrev, SameItems
<1>2. CASE c \in Chunks
  <2> DEFINE m2 == [m EXCEPT !.chunk[c].prev = d]
  <2>1. SetPrev(m, c, d) = m2
    BY <1>2, NullIsNoChunk DEF SetPrev
  <2>2. /\ m2 \in MemoryType /\ m2.head = m.head
        /\ m2.chunk = [m.chunk EXCEPT ![c] = [@ EXCEPT !.prev = d]]
    BY <1>2 DEF MemoryType, ChunkType
  <2> HIDE DEF m2
  <2>3. SameItems(m, m2)
    BY <1>2, <2>2 DEF MemoryType, ChunkType, SameItems
  <2>4. \A e \in Chunks : /\ (e = c => m2.chunk[e].prev = d)
                          /\ (e # c => m2.chunk[e].prev = m.chunk[e].prev)
                          /\ m2.chunk[e].next = m.chunk[e].next
    BY <1>2, <2>2 DEF MemoryType, ChunkType
  <2> QED  BY <2>1, <2>2, <2>3, <2>4
<1> QED  BY <1>1, <1>2

\* What that says of the links of a chunk.
LEMMA SetPrevLinks ==
    ASSUME NEW m \in MemoryType, NEW c \in Chunks \cup {NULL}, NEW d \in Chunks \cup {NULL},
           NEW e \in Chunks
    PROVE  /\ (e = c => SetPrev(m, c, d).chunk[e].prev = d)
           /\ (e # c => SetPrev(m, c, d).chunk[e].prev = m.chunk[e].prev)
           /\ SetPrev(m, c, d).chunk[e].next = m.chunk[e].next
<1>1. e = c => SetPrev(m, c, d).chunk[e].prev = d
  BY SetPrevEffect
<1>2. e # c => SetPrev(m, c, d).chunk[e].prev = m.chunk[e].prev
  BY SetPrevEffect
<1>3. SetPrev(m, c, d).chunk[e].next = m.chunk[e].next
  BY SetPrevEffect
<1> QED  BY <1>1, <1>2, <1>3

\* Writing the head of a list.
SetHead(m, list, c) == [m EXCEPT !.head[list] = c]

\* Writing the head of a list changes that head only.
LEMMA SetHeadEffect ==
    ASSUME NEW m \in MemoryType, NEW list \in Lists, NEW c \in Chunks \cup {NULL}
    PROVE  /\ SetHead(m, list, c) \in MemoryType
           /\ SetHead(m, list, c).head = [m.head EXCEPT ![list] = c]
           /\ SetHead(m, list, c).chunk = m.chunk
BY DEF MemoryType, SetHead

\* Both operations on lists, one write after the other.
LEMMA ListWrites ==
    ASSUME NEW m, NEW list, NEW c \in Chunks
    PROVE  LET p == m.chunk[c].prev
               q == m.chunk[c].next
               b == SetPrev(SetNext(m, p, q), q, p)
               f == SetNext(SetPrev(b, c, NULL), c, NULL)
           IN  /\ ListPrepend(m, list, c) =
                    SetPrev(SetHead(SetNext(SetPrev(m, c, NULL), c, m.head[list]), list, c),
                            m.head[list], c)
               /\ ListRemove(m, list, c) =
                    SetHead(f, list, IF f.head[list] = c THEN q ELSE f.head[list])
<1>1. c # NULL
  BY NullIsNoChunk
<1>2. ListPrepend(m, list, c) =
        SetPrev(SetHead(SetNext(SetPrev(m, c, NULL), c, m.head[list]), list, c), m.head[list], c)
  <2>1. SetHead(SetNext(SetPrev(m, c, NULL), c, m.head[list]), list, c) =
          [m EXCEPT !.chunk[c].prev = NULL, !.chunk[c].next = m.head[list], !.head[list] = c]
    BY <1>1 DEF SetHead, SetNext, SetPrev
  <2> QED  BY <2>1 DEF ListPrepend
<1> DEFINE p == m.chunk[c].prev
           q == m.chunk[c].next
           b == SetPrev(SetNext(m, p, q), q, p)
           f == SetNext(SetPrev(b, c, NULL), c, NULL)
<1>3. ListRemove(m, list, c) = SetHead(f, list, IF f.head[list] = c THEN q ELSE f.head[list])
  <2>1. ListRemove(m, list, c) = [b EXCEPT !.chunk[c].prev = NULL, !.chunk[c].next = NULL,
                                           !.head[list] = IF @ = c THEN q ELSE @]
    BY DEF ListRemove
  <2> HIDE DEF b, q
  <2>2. f = [b EXCEPT !.chunk[c].prev = NULL, !.chunk[c].next = NULL]
    BY <1>1 DEF SetNext, SetPrev
  <2> QED  BY <2>1, <2>2 DEF SetHead
<1> QED  BY <1>2, <1>3

\* What prepending a chunk writes.
LEMMA PrependEffect ==
    ASSUME NEW m \in MemoryType, NEW list \in Lists, NEW c \in Chunks, m.head[list] # c,
           NEW m2, m2 = ListPrepend(m, list, c)
    PROVE  /\ m2 \in MemoryType /\ SameItems(m, m2)
           /\ m2.head = [m.head EXCEPT ![list] = c]
           /\ m2.chunk[c].next = m.head[list] /\ m2.chunk[c].prev = NULL
           /\ \A d \in Chunks \ {c} :
                 /\ m2.chunk[d].next = m.chunk[d].next
                 /\ (d = m.head[list] => m2.chunk[d].prev = c)
                 /\ (d # m.head[list] => m2.chunk[d].prev = m.chunk[d].prev)
<1> DEFINE h == m.head[list]
           a == SetPrev(m, c, NULL)
           b == SetNext(a, c, h)
           e == SetHead(b, list, c)
<1>1. h \in Chunks \cup {NULL} /\ h # c
  BY DEF MemoryType
<1>2. m2 = SetPrev(e, h, c)
  BY ListWrites
<1> HIDE DEF h
<1>3. /\ a \in MemoryType /\ a.head = m.head /\ SameItems(m, a)
      /\ \A d \in Chunks : /\ (d = c => a.chunk[d].prev = NULL)
                           /\ (d # c => a.chunk[d].prev = m.chunk[d].prev)
                           /\ a.chunk[d].next = m.chunk[d].next
  BY SetPrevEffect
<1> HIDE DEF a
<1>4. /\ b \in MemoryType /\ b.head = a.head /\ SameItems(a, b)
      /\ \A d \in Chunks : /\ (d = c => b.chunk[d].next = h)
                           /\ (d # c => b.chunk[d].next = a.chunk[d].next)
                           /\ b.chunk[d].prev = a.chunk[d].prev
  BY <1>1, <1>3, SetNextEffect
<1> HIDE DEF b
<1>5. e \in MemoryType /\ e.head = [b.head EXCEPT ![list] = c] /\ e.chunk = b.chunk
  BY <1>4, SetHeadEffect
<1> HIDE DEF e
<1>6. /\ m2 \in MemoryType /\ m2.head = e.head /\ SameItems(e, m2)
      /\ \A d \in Chunks : /\ (d = h => m2.chunk[d].prev = c)
                           /\ (d # h => m2.chunk[d].prev = e.chunk[d].prev)
                           /\ m2.chunk[d].next = e.chunk[d].next
  <2>1. e \in MemoryType /\ h \in Chunks \cup {NULL} /\ c \in Chunks \cup {NULL}
    BY <1>1, <1>5
  <2>2. SetPrev(e, h, c) \in MemoryType /\ SetPrev(e, h, c).head = e.head
    BY <2>1, SetPrevEffect
  <2>3. SameItems(e, SetPrev(e, h, c))
    BY <2>1, SetPrevEffect
  <2>4. ASSUME NEW d \in Chunks
        PROVE  /\ (d = h => SetPrev(e, h, c).chunk[d].prev = c)
               /\ (d # h => SetPrev(e, h, c).chunk[d].prev = e.chunk[d].prev)
               /\ SetPrev(e, h, c).chunk[d].next = e.chunk[d].next
    BY <2>1, SetPrevLinks
  <2> QED  BY <1>2, <2>2, <2>3, <2>4
<1> QED  BY <1>1, <1>3, <1>4, <1>5, <1>6 DEF SameItems, h

\* What removing a chunk writes.
LEMMA RemoveEffect ==
    ASSUME NEW m \in MemoryType, NEW list \in Lists, NEW c \in Chunks,
           m.chunk[c].prev # c, m.chunk[c].next # c,
           NEW m2, m2 = ListRemove(m, list, c)
    PROVE  /\ m2 \in MemoryType /\ SameItems(m, m2)
           /\ m2.head = [m.head EXCEPT ![list] = IF @ = c THEN m.chunk[c].next ELSE @]
           /\ m2.chunk[c].next = NULL /\ m2.chunk[c].prev = NULL
           /\ \A d \in Chunks \ {c} :
                 /\ (d = m.chunk[c].prev => m2.chunk[d].next = m.chunk[c].next)
                 /\ (d # m.chunk[c].prev => m2.chunk[d].next = m.chunk[d].next)
                 /\ (d = m.chunk[c].next => m2.chunk[d].prev = m.chunk[c].prev)
                 /\ (d # m.chunk[c].next => m2.chunk[d].prev = m.chunk[d].prev)
<1> DEFINE p == m.chunk[c].prev
           q == m.chunk[c].next
           a == SetNext(m, p, q)
           b == SetPrev(a, q, p)
           e == SetPrev(b, c, NULL)
           f == SetNext(e, c, NULL)
           h == IF f.head[list] = c THEN q ELSE f.head[list]
<1>1. p \in Chunks \cup {NULL} /\ p # c /\ q \in Chunks \cup {NULL} /\ q # c
  <2>1. m.chunk[c] \in ChunkType
    BY DEF MemoryType
  <2> QED  BY <2>1 DEF ChunkType
<1>2. m2 = SetHead(f, list, h)
  BY ListWrites
<1> HIDE DEF p, q
<1>3. /\ a \in MemoryType /\ a.head = m.head /\ SameItems(m, a)
      /\ \A d \in Chunks : /\ (d = p => a.chunk[d].next = q)
                           /\ (d # p => a.chunk[d].next = m.chunk[d].next)
                           /\ a.chunk[d].prev = m.chunk[d].prev
  BY <1>1, SetNextEffect
<1> HIDE DEF a
<1>4. /\ b \in MemoryType /\ b.head = a.head /\ SameItems(a, b)
      /\ \A d \in Chunks : /\ (d = q => b.chunk[d].prev = p)
                           /\ (d # q => b.chunk[d].prev = a.chunk[d].prev)
                           /\ b.chunk[d].next = a.chunk[d].next
  <2>1. b \in MemoryType /\ b.head = a.head
    BY <1>1, <1>3, SetPrevEffect
  <2>2. SameItems(a, b)
    BY <1>1, <1>3, SetPrevEffect
  <2>3. ASSUME NEW d \in Chunks
        PROVE  /\ (d = q => b.chunk[d].prev = p)
               /\ (d # q => b.chunk[d].prev = a.chunk[d].prev)
               /\ b.chunk[d].next = a.chunk[d].next
    <3>1. a \in MemoryType /\ q \in Chunks \cup {NULL} /\ p \in Chunks \cup {NULL}
      BY <1>1, <1>3
    <3> QED  BY <3>1, SetPrevLinks
  <2> QED  BY <2>1, <2>2, <2>3
<1> HIDE DEF b
<1>5. /\ e \in MemoryType /\ e.head = b.head /\ SameItems(b, e)
      /\ \A d \in Chunks : /\ (d = c => e.chunk[d].prev = NULL)
                           /\ (d # c => e.chunk[d].prev = b.chunk[d].prev)
                           /\ e.chunk[d].next = b.chunk[d].next
  BY <1>4, SetPrevEffect
<1> HIDE DEF e
<1>6. /\ f \in MemoryType /\ f.head = e.head /\ SameItems(e, f)
      /\ \A d \in Chunks : /\ (d = c => f.chunk[d].next = NULL)
                           /\ (d # c => f.chunk[d].next = e.chunk[d].next)
                           /\ f.chunk[d].prev = e.chunk[d].prev
  BY <1>5, SetNextEffect
<1> HIDE DEF f
<1>7. h \in Chunks \cup {NULL}
  <2>1. f.head[list] \in Chunks \cup {NULL}
    BY <1>6 DEF MemoryType
  <2> QED  BY <1>1, <2>1
<1>8. h = IF m.head[list] = c THEN q ELSE m.head[list]
  BY <1>3, <1>4, <1>5, <1>6
<1> HIDE DEF h
<1>9. m2 \in MemoryType /\ m2.head = [f.head EXCEPT ![list] = h] /\ m2.chunk = f.chunk
  BY <1>2, <1>6, <1>7, SetHeadEffect
<1>10. m2.head = [m.head EXCEPT ![list] = IF @ = c THEN q ELSE @]
  BY <1>3, <1>4, <1>5, <1>6, <1>8, <1>9
<1>11. SameItems(m, m2)
  BY <1>3, <1>4, <1>5, <1>6, <1>9 DEF SameItems
<1> QED  BY <1>1, <1>3, <1>4, <1>5, <1>6, <1>9, <1>10, <1>11 DEF p, q

-----------------------------------------------------------------------------
(* The lists stay what they are under both operations.                      *)

\* The k-th of a row, and the null pointer beyond its ends.
NthOf(s, n, k) == IF k \in 1 .. n THEN s[k] ELSE NULL

\* The list that starts at head[list] is the row s, in both directions.
IsList(m, list, s, n) ==
    /\ m.head[list] = NthOf(s, n, 1)
    /\ \A k \in 1 .. n : /\ m.chunk[s[k]].next = NthOf(s, n, k + 1)
                         /\ m.chunk[s[k]].prev = NthOf(s, n, k - 1)

\* The chunks of each list are those of L, and no chunk is on both.
InLists(m, L) ==
    /\ L \in [Lists -> SUBSET Chunks]
    /\ L["free"] \cap L["full"] = {}
    /\ \A list \in Lists : \E n, s : InARow(s, n, L[list]) /\ IsList(m, list, s, n)

\* Prepending adds a chunk to a list and leaves the other list alone.
LEMMA PrependLists ==
    ASSUME NEW m \in MemoryType, NEW L, InLists(m, L), NEW list \in Lists,
           NEW c \in Chunks, c \notin L["free"], c \notin L["full"]
    PROVE  /\ ListPrepend(m, list, c) \in MemoryType
           /\ SameItems(m, ListPrepend(m, list, c))
           /\ ListPrepend(m, list, c).head = [m.head EXCEPT ![list] = c]
           /\ InLists(ListPrepend(m, list, c), [L EXCEPT ![list] = @ \cup {c}])
<1> DEFINE m2 == ListPrepend(m, list, c)
           L2 == [L EXCEPT ![list] = @ \cup {c}]
<1>1. PICK n, s : InARow(s, n, L[list]) /\ IsList(m, list, s, n)
  BY DEF InLists
<1>2. n \in Nat /\ s \in [1 .. n -> L[list]] /\ L[list] \subseteq Chunks /\ c \notin L[list]
  BY <1>1 DEF InARow, InLists, Lists
<1>3. m.head[list] = IF n = 0 THEN NULL ELSE s[1]
  BY <1>1, <1>2 DEF IsList, NthOf
<1>4. m.head[list] # c
  BY <1>2, <1>3, NullIsNoChunk
<1>5. /\ m2 \in MemoryType /\ SameItems(m, m2)
      /\ m2.head = [m.head EXCEPT ![list] = c]
      /\ m2.chunk[c].next = m.head[list] /\ m2.chunk[c].prev = NULL
      /\ \A d \in Chunks \ {c} :
            /\ m2.chunk[d].next = m.chunk[d].next
            /\ (d = m.head[list] => m2.chunk[d].prev = c)
            /\ (d # m.head[list] => m2.chunk[d].prev = m.chunk[d].prev)
  BY <1>4, PrependEffect
<1> HIDE DEF m2
<1>6. m2.head[list] = c
  BY <1>5 DEF MemoryType
<1>7. L2 \in [Lists -> SUBSET Chunks] /\ L2["free"] \cap L2["full"] = {}
  BY DEF InLists, Lists
<1>8. \E n2, s2 : InARow(s2, n2, L2[list]) /\ IsList(m2, list, s2, n2)
  <2> DEFINE t == Before(c, s, n)
  <2>1. InARow(t, n + 1, L2[list])
    BY <1>1, <1>2, BeforeIsARow DEF InLists
  <2>2. t[1] = c /\ \A k \in 2 .. n + 1 : t[k] = s[k - 1] /\ s[k - 1] \in Chunks \ {c}
    BY <1>2 DEF Before
  <2> HIDE DEF t
  <2>3. ASSUME NEW k \in 1 .. n + 1
        PROVE  /\ m2.chunk[t[k]].next = NthOf(t, n + 1, k + 1)
               /\ m2.chunk[t[k]].prev = NthOf(t, n + 1, k - 1)
    <3>1. CASE k = 1
      BY <1>2, <1>3, <1>5, <2>2, <3>1 DEF NthOf
    <3>2. CASE k # 1
      <4>1. k \in 2 .. n + 1 /\ k - 1 \in 1 .. n /\ t[k] = s[k - 1] /\ t[k] \in Chunks \ {c}
        BY <1>2, <2>2, <3>2
      <4>2. m2.chunk[t[k]].next = NthOf(t, n + 1, k + 1)
        <5>1. m2.chunk[t[k]].next = NthOf(s, n, k)
          BY <1>1, <1>5, <4>1 DEF IsList
        <5> QED  BY <1>2, <2>2, <4>1, <5>1 DEF NthOf
      <4>3. m2.chunk[t[k]].prev = NthOf(t, n + 1, k - 1)
        <5>1. CASE k = 2
          BY <1>2, <1>3, <1>5, <2>2, <4>1, <5>1 DEF NthOf
        <5>2. CASE k # 2
          <6>1. t[k] # m.head[list]
            BY <1>1, <1>2, <1>3, <4>1, <5>2 DEF InARow
          <6>2. m2.chunk[t[k]].prev = NthOf(s, n, k - 2)
            BY <1>1, <1>5, <4>1, <6>1 DEF IsList
          <6> QED  BY <1>2, <2>2, <4>1, <5>2, <6>2 DEF NthOf
        <5> QED  BY <5>1, <5>2
      <4> QED  BY <4>2, <4>3
    <3> QED  BY <3>1, <3>2
  <2>4. m2.head[list] = NthOf(t, n + 1, 1)
    BY <1>2, <1>6, <2>2 DEF NthOf
  <2>5. IsList(m2, list, t, n + 1)
    BY <2>3, <2>4 DEF IsList
  <2> QED  BY <2>1, <2>5
<1>9. ASSUME NEW other \in Lists, other # list
      PROVE  \E n2, s2 : InARow(s2, n2, L2[other]) /\ IsList(m2, other, s2, n2)
  <2>1. PICK n2, s2 : InARow(s2, n2, L[other]) /\ IsList(m, other, s2, n2)
    BY DEF InLists
  <2>2. L2[other] = L[other] /\ m2.head[other] = m.head[other]
    BY <1>5, <1>9 DEF InLists, MemoryType
  <2>3. ASSUME NEW k \in 1 .. n2
        PROVE  s2[k] \in Chunks \ {c} /\ s2[k] # m.head[list]
    <3>1. s2[k] \in L[other]
      BY <2>1 DEF InARow
    <3>2. s2[k] \in Chunks /\ s2[k] \notin L[list] /\ s2[k] # c
      BY <1>9, <3>1 DEF InLists, Lists
    <3> QED  BY <1>2, <1>3, <3>2, NullIsNoChunk
  <2>4. IsList(m2, other, s2, n2)
    BY <1>5, <2>1, <2>2, <2>3 DEF IsList
  <2> QED  BY <2>1, <2>2, <2>4
<1>10. InLists(m2, L2)
  BY <1>7, <1>8, <1>9, Zenon DEF InLists
<1> QED  BY <1>5, <1>10 DEF m2

\* Removing takes a chunk out of its list and leaves the other list alone.
LEMMA RemoveLists ==
    ASSUME NEW m \in MemoryType, NEW L, InLists(m, L), NEW list \in Lists, NEW c \in L[list]
    PROVE  /\ ListRemove(m, list, c) \in MemoryType
           /\ SameItems(m, ListRemove(m, list, c))
           /\ \A other \in Lists \ {list} : ListRemove(m, list, c).head[other] = m.head[other]
           /\ InLists(ListRemove(m, list, c), [L EXCEPT ![list] = @ \ {c}])
<1> DEFINE m2 == ListRemove(m, list, c)
           L2 == [L EXCEPT ![list] = @ \ {c}]
<1>1. PICK n, s : InARow(s, n, L[list]) /\ IsList(m, list, s, n)
  BY DEF InLists
<1>2. n \in Nat /\ s \in [1 .. n -> L[list]] /\ L[list] \subseteq Chunks /\ c \in Chunks
  BY <1>1 DEF InARow, InLists, Lists
<1>3. PICK j \in 1 .. n : s[j] = c
  BY <1>1 DEF InARow
<1> DEFINE p == m.chunk[c].prev
           q == m.chunk[c].next
<1>4. p = NthOf(s, n, j - 1) /\ q = NthOf(s, n, j + 1)
  BY <1>1, <1>3 DEF IsList
<1>5. m.head[list] = s[1]
  BY <1>1, <1>2, <1>3 DEF IsList, NthOf
<1>6. p # c /\ q # c
  BY <1>1, <1>2, <1>3, <1>4, NullIsNoChunk DEF NthOf, InARow
<1>7. /\ m2 \in MemoryType /\ SameItems(m, m2)
      /\ m2.head = [m.head EXCEPT ![list] = IF @ = c THEN q ELSE @]
      /\ m2.chunk[c].next = NULL /\ m2.chunk[c].prev = NULL
      /\ \A d \in Chunks \ {c} :
            /\ (d = p => m2.chunk[d].next = q)
            /\ (d # p => m2.chunk[d].next = m.chunk[d].next)
            /\ (d = q => m2.chunk[d].prev = p)
            /\ (d # q => m2.chunk[d].prev = m.chunk[d].prev)
  BY <1>2, <1>6, RemoveEffect
<1> HIDE DEF m2, p, q
<1>8. m2.head[list] = IF j = 1 THEN q ELSE s[1]
  <2>1. s[1] = c <=> j = 1
    BY <1>1, <1>2, <1>3 DEF InARow
  <2> QED  BY <1>5, <1>7, <2>1 DEF MemoryType
<1>9. L2 \in [Lists -> SUBSET Chunks] /\ L2["free"] \cap L2["full"] = {}
  BY DEF InLists, Lists
<1>10. \E n2, s2 : InARow(s2, n2, L2[list]) /\ IsList(m2, list, s2, n2)
  <2> DEFINE t == Without(s, n, j)
  <2>1. InARow(t, n - 1, L2[list])
    BY <1>1, <1>2, <1>3, WithoutIsARow DEF InLists
  <2>2. \A k \in 1 .. n - 1 : t[k] = IF k < j THEN s[k] ELSE s[k + 1]
    BY <1>2 DEF Without
  <2> HIDE DEF t
  <2>3. ASSUME NEW k \in 1 .. n - 1
        PROVE  /\ m2.chunk[t[k]].next = NthOf(t, n - 1, k + 1)
               /\ m2.chunk[t[k]].prev = NthOf(t, n - 1, k - 1)
    <3> DEFINE i == IF k < j THEN k ELSE k + 1
    <3>1. i \in 1 .. n /\ i # j /\ t[k] = s[i] /\ s[i] \in Chunks \ {c}
      BY <1>1, <1>2, <1>3, <2>2 DEF InARow
    <3>2. m.chunk[s[i]].next = NthOf(s, n, i + 1) /\ m.chunk[s[i]].prev = NthOf(s, n, i - 1)
      BY <1>1, <3>1 DEF IsList
    <3>3. (s[i] = p <=> i = j - 1) /\ (s[i] = q <=> i = j + 1)
      BY <1>1, <1>2, <1>3, <1>4, <3>1, NullIsNoChunk DEF NthOf, InARow
    <3>4. m2.chunk[t[k]].next = NthOf(t, n - 1, k + 1)
      <4>1. CASE i = j - 1
        BY <1>2, <1>3, <1>4, <1>7, <2>2, <3>1, <3>3, <4>1 DEF NthOf
      <4>2. CASE i # j - 1
        <5>1. m2.chunk[t[k]].next = NthOf(s, n, i + 1)
          BY <1>7, <3>1, <3>2, <3>3, <4>2
        <5> QED  BY <1>2, <1>3, <2>2, <3>1, <4>2, <5>1 DEF NthOf
      <4> QED  BY <4>1, <4>2
    <3>5. m2.chunk[t[k]].prev = NthOf(t, n - 1, k - 1)
      <4>1. CASE i = j + 1
        BY <1>2, <1>3, <1>4, <1>7, <2>2, <3>1, <3>3, <4>1 DEF NthOf
      <4>2. CASE i # j + 1
        <5>1. m2.chunk[t[k]].prev = NthOf(s, n, i - 1)
          BY <1>7, <3>1, <3>2, <3>3, <4>2
        <5> QED  BY <1>2, <1>3, <2>2, <3>1, <4>2, <5>1 DEF NthOf
      <4> QED  BY <4>1, <4>2
    <3> QED  BY <3>4, <3>5
  <2>4. m2.head[list] = NthOf(t, n - 1, 1)
    BY <1>2, <1>3, <1>4, <1>8, <2>2 DEF NthOf
  <2>5. IsList(m2, list, t, n - 1)
    BY <2>3, <2>4 DEF IsList
  <2> QED  BY <2>1, <2>5
<1>11. ASSUME NEW other \in Lists, other # list
      PROVE  /\ m2.head[other] = m.head[other]
             /\ \E n2, s2 : InARow(s2, n2, L2[other]) /\ IsList(m2, other, s2, n2)
  <2>1. PICK n2, s2 : InARow(s2, n2, L[other]) /\ IsList(m, other, s2, n2)
    BY DEF InLists
  <2>2. L2[other] = L[other] /\ m2.head[other] = m.head[other]
    BY <1>7, <1>11 DEF InLists, MemoryType
  <2>3. (p = NULL \/ p \in L[list]) /\ (q = NULL \/ q \in L[list])
    BY <1>2, <1>3, <1>4 DEF NthOf
  <2>4. ASSUME NEW k \in 1 .. n2
        PROVE  s2[k] \in Chunks \ {c} /\ s2[k] # p /\ s2[k] # q
    <3>1. s2[k] \in L[other]
      BY <2>1 DEF InARow
    <3>2. s2[k] \in Chunks /\ s2[k] \notin L[list]
      BY <1>11, <3>1 DEF InLists, Lists
    <3> QED  BY <2>3, <3>2, NullIsNoChunk
  <2>5. IsList(m2, other, s2, n2)
    BY <1>7, <2>1, <2>2, <2>4 DEF IsList
  <2> QED  BY <2>1, <2>2, <2>5
<1>12. InLists(m2, L2)
  <2>1. ASSUME NEW other \in Lists
        PROVE  \E n2, s2 : InARow(s2, n2, L2[other]) /\ IsList(m2, other, s2, n2)
    <3>1. CASE other = list
      BY <1>10, <3>1
    <3>2. CASE other # list
      BY <1>11, <3>2
    <3> QED  BY <3>1, <3>2
  <2> HIDE DEF m2, L2
  <2> QED  BY <1>9, <2>1 DEF InLists
<1> QED  BY <1>7, <1>11, <1>12 DEF m2

\* What is written into the items of a chunk leaves the lists alone.
SameLinks(m, m2) ==
    /\ m2.head = m.head
    /\ \A d \in Chunks : m2.chunk[d].next = m.chunk[d].next /\ m2.chunk[d].prev = m.chunk[d].prev

\* A list stays what it is while its head and its links do.
LEMMA KeepLists ==
    ASSUME NEW m, NEW m2, NEW L, InLists(m, L), m2.head = m.head,
           \A list \in Lists : \A d \in L[list] :
              m2.chunk[d].next = m.chunk[d].next /\ m2.chunk[d].prev = m.chunk[d].prev
    PROVE  InLists(m2, L)
<1>1. ASSUME NEW list \in Lists
      PROVE  \E n, s : InARow(s, n, L[list]) /\ IsList(m2, list, s, n)
  <2>1. PICK n, s : InARow(s, n, L[list]) /\ IsList(m, list, s, n)
    BY DEF InLists
  <2>2. ASSUME NEW k \in 1 .. n PROVE s[k] \in L[list]
    BY <2>1 DEF InARow
  <2>3. IsList(m2, list, s, n)
    BY <2>1, <2>2 DEF IsList
  <2> QED  BY <2>1, <2>3
<1> QED  BY <1>1 DEF InLists

\* Both do when nothing is written to a link.
LEMMA KeepAllLists ==
    ASSUME NEW m, NEW m2, NEW L, InLists(m, L), SameLinks(m, m2)
    PROVE  InLists(m2, L)
<1>1. \A list \in Lists : \A d \in L[list] : d \in Chunks
  BY DEF InLists
<1> QED  BY <1>1, KeepLists DEF SameLinks

-----------------------------------------------------------------------------
(* The free list of a chunk.                                                *)

\* The free list of chunk ch visits the members of S, each once.
SoundChunk(ch, S) ==
    \E n, s : /\ InARow(s, n, S)
              /\ ch.used_count = Capacity - n
              /\ n > 0 => ch.free_list = s[1]
              /\ \A k \in 1 .. n - 1 : ch.memory[s[k]] = s[k + 1]

\* used_count tells how many items of a chunk are free.
LEMMA SoundChunkCounts ==
    ASSUME NEW ch, NEW S \in SUBSET Slots, SoundChunk(ch, S)
    PROVE  /\ IsFiniteSet(S) /\ Cardinality(S) \in 0 .. Capacity
           /\ ch.used_count = Capacity - Cardinality(S)
           /\ ch.used_count = 0 <=> S = Slots
           /\ ch.used_count = Capacity <=> S = {}
<1>1. PICK n, s : InARow(s, n, S) /\ ch.used_count = Capacity - n
  BY DEF SoundChunk
<1>2. n \in Nat /\ IsFiniteSet(S) /\ Cardinality(S) = n
  <2>1. n \in Nat
    BY <1>1 DEF InARow
  <2> QED  BY <1>1, <2>1, RowCounts, Zenon
<1>3. IsFiniteSet(Slots) /\ Cardinality(Slots) = Capacity
  BY CapacityType, FS_Interval DEF Slots
<1>4. n <= Capacity /\ (n = Capacity => S = Slots)
  BY <1>2, <1>3, FS_Subset
<1>5. n = 0 <=> S = {}
  BY <1>2, FS_EmptySet
<1> QED  BY <1>1, <1>2, <1>3, <1>4, <1>5, CapacityType

\* The items of a chunk with x written into item i.
Over(memory, i, x) == [memory EXCEPT ![i] = x]

\* Taking the first free item leaves a sound free list.
LEMMA TakeItem ==
    ASSUME NEW ch \in ChunkType, NEW S \in SUBSET Slots, SoundChunk(ch, S),
           ch.used_count # Capacity,
           NEW ch2, ch2.memory = Over(ch.memory, ch.free_list, Garbage),
           ch2.free_list = ch.memory[ch.free_list], ch2.used_count = ch.used_count + 1
    PROVE  ch.free_list \in S /\ SoundChunk(ch2, S \ {ch.free_list})
<1>1. PICK n, s : /\ InARow(s, n, S)
                  /\ ch.used_count = Capacity - n
                  /\ n > 0 => ch.free_list = s[1]
                  /\ \A k \in 1 .. n - 1 : ch.memory[s[k]] = s[k + 1]
  BY DEF SoundChunk
<1>2. n \in Nat /\ n > 0 /\ s \in [1 .. n -> S] /\ ch.free_list = s[1] /\ ch.free_list \in S
  BY <1>1, CapacityType DEF InARow
<1> DEFINE t == Without(s, n, 1)
<1>3. InARow(t, n - 1, S \ {ch.free_list})
  <2>1. 1 \in 1 .. n
    BY <1>2
  <2>2. InARow(t, n - 1, S \ {s[1]})
    BY <1>1, <2>1, WithoutIsARow, Zenon
  <2> QED  BY <1>2, <2>2
<1>4. \A k \in 1 .. n - 1 : t[k] = s[k + 1]
  BY <1>2 DEF Without
<1> HIDE DEF t
<1>5. n - 1 > 0 => ch2.free_list = t[1]
  BY <1>1, <1>2, <1>4
<1>6. ASSUME NEW k \in 1 .. n - 1 - 1 PROVE ch2.memory[t[k]] = t[k + 1]
  <2>1. t[k] = s[k + 1] /\ t[k + 1] = s[k + 2] /\ k + 1 \in 1 .. n - 1
    BY <1>2, <1>4
  <2>2. s[k + 1] # ch.free_list /\ s[k + 1] \in Slots
    BY <1>1, <1>2, <2>1 DEF InARow
  <2>3. ch2.memory[s[k + 1]] = ch.memory[s[k + 1]]
    BY <2>2 DEF ChunkType, Over
  <2>4. ch.memory[s[k + 1]] = s[(k + 1) + 1]
    BY <1>1, <2>1
  <2> QED  BY <2>1, <2>3, <2>4
<1>7. ch2.used_count = Capacity - (n - 1)
  BY <1>1, <1>2, CapacityType
<1> QED  BY <1>2, <1>3, <1>5, <1>6, <1>7 DEF SoundChunk

\* Putting an item in front of the free list leaves a sound free list.
LEMMA PutItem ==
    ASSUME NEW ch \in ChunkType, NEW S \in SUBSET Slots, SoundChunk(ch, S),
           NEW i \in Slots \ S,
           NEW ch2, ch2.memory = Over(ch.memory, i, ch.free_list),
           ch2.free_list = i, ch2.used_count = ch.used_count - 1
    PROVE  SoundChunk(ch2, S \cup {i})
<1>1. PICK n, s : /\ InARow(s, n, S)
                  /\ ch.used_count = Capacity - n
                  /\ n > 0 => ch.free_list = s[1]
                  /\ \A k \in 1 .. n - 1 : ch.memory[s[k]] = s[k + 1]
  BY DEF SoundChunk
<1>2. n \in Nat /\ s \in [1 .. n -> S]
  BY <1>1 DEF InARow
<1> DEFINE t == Before(i, s, n)
<1>3. InARow(t, n + 1, S \cup {i})
  BY <1>1, BeforeIsARow
<1>4. t[1] = i /\ \A k \in 2 .. n + 1 : t[k] = s[k - 1]
  BY <1>2 DEF Before
<1> HIDE DEF t
<1>5. ASSUME NEW k \in 1 .. n + 1 - 1 PROVE ch2.memory[t[k]] = t[k + 1]
  <2>1. CASE k = 1
    <3>1. ch2.memory[i] = ch.free_list
      BY DEF ChunkType, Over
    <3> QED  BY <1>1, <1>2, <1>4, <2>1, <3>1
  <2>2. CASE k # 1
    <3>1. t[k] = s[k - 1] /\ t[k + 1] = s[k] /\ k - 1 \in 1 .. n - 1
      BY <1>2, <1>4, <2>2
    <3>2. s[k - 1] \in Slots /\ s[k - 1] # i
      BY <1>2, <3>1
    <3>3. ch2.memory[s[k - 1]] = ch.memory[s[k - 1]]
      BY <3>2 DEF ChunkType, Over
    <3>4. ch.memory[s[k - 1]] = s[(k - 1) + 1]
      BY <1>1, <3>1
    <3> QED  BY <3>1, <3>3, <3>4
  <2> QED  BY <2>1, <2>2
<1>6. ch2.used_count = Capacity - (n + 1) /\ ch2.free_list = t[1]
  BY <1>1, <1>2, <1>4, CapacityType
<1> QED  BY <1>2, <1>3, <1>5, <1>6 DEF SoundChunk

\* The free list of a new chunk visits every item in order.
LEMMA FreshChunkIsSound ==
    FreshChunk \in ChunkType /\ FreshChunk.used_count = 0 /\ SoundChunk(FreshChunk, Slots)
<1> DEFINE s == [k \in 1 .. Capacity |-> k - 1]
<1>1. /\ FreshChunk.memory = [i \in Slots |-> IF i < Capacity - 1 THEN i + 1 ELSE Garbage]
      /\ FreshChunk.free_list = 0 /\ FreshChunk.used_count = 0
      /\ FreshChunk.prev = NULL /\ FreshChunk.next = NULL
      /\ FreshChunk = [memory |-> FreshChunk.memory, free_list |-> 0, used_count |-> 0,
                       prev |-> NULL, next |-> NULL]
  BY DEF FreshChunk, Unmapped
<1>2. FreshChunk.memory \in [Slots -> Slots \cup {Garbage}]
  BY <1>1, CapacityType DEF Slots
<1>3. 0 \in Slots /\ 0 \in 0 .. Capacity
  BY CapacityType DEF Slots
<1>4. FreshChunk \in ChunkType
  BY <1>1, <1>2, <1>3 DEF ChunkType
<1>5. InARow(s, Capacity, Slots)
  <2>1. \A i \in Slots : i + 1 \in 1 .. Capacity /\ s[i + 1] = i
    BY CapacityType DEF Slots
  <2> QED  BY <2>1, CapacityType DEF InARow, Slots
<1>6. \A k \in 1 .. Capacity - 1 : FreshChunk.memory[s[k]] = s[k + 1]
  BY <1>1, CapacityType DEF Slots
<1>7. Capacity > 0 => FreshChunk.free_list = s[1]
  BY <1>1, CapacityType
<1> HIDE DEF s
<1>8. FreshChunk.used_count = Capacity - Capacity
  BY <1>1, CapacityType
<1> QED  BY <1>1, <1>4, <1>5, <1>6, <1>7, <1>8 DEF SoundChunk

-----------------------------------------------------------------------------
(* The memory as a whole.                                                   *)

\* The slots of chunk c that no item of H is in.
FreeOf(H, c) == {i \in Slots : ItemAt(c, i) \notin H}

\* The chunks of M that belong on each list.
ListsOf(m, M) == [list \in Lists |-> {c \in M : Full(m, c) = (list = "full")}]

\* Everything the allocator relies on, when the chunks of M are mapped and the items
\* of H are held.
Consistent(m, M, H) ==
    /\ m \in MemoryType /\ M \in SUBSET Chunks /\ H \in SUBSET Items
    /\ \A p \in H : ChunkOf(p) \in M
    /\ \A c \in M : SoundChunk(m.chunk[c], FreeOf(H, c))
    /\ InLists(m, ListsOf(m, M))

\* A chunk keeps its sound free list as long as its items and what is held of it stay.
LEMMA SameChunkIsSound ==
    ASSUME NEW ch, NEW ch2, NEW S, SoundChunk(ch, S), ch2.memory = ch.memory,
           ch2.free_list = ch.free_list, ch2.used_count = ch.used_count
    PROVE  SoundChunk(ch2, S)
BY DEF SoundChunk

\* Handing out or taking back an item concerns the free slots of its chunk only.
LEMMA FreeOfChanges ==
    ASSUME NEW H \in SUBSET Items, NEW c \in Chunks, NEW i \in Slots
    PROVE  /\ FreeOf(H \cup {ItemAt(c, i)}, c) = FreeOf(H, c) \ {i}
           /\ FreeOf(H \ {ItemAt(c, i)}, c) = FreeOf(H, c) \cup {i}
BY OneItem DEF FreeOf

\* What is taken or freed in one chunk is nothing to another.
LEMMA FreeOfStays ==
    ASSUME NEW H \in SUBSET Items, NEW c \in Chunks, NEW i \in Slots, NEW d \in Chunks, d # c
    PROVE  /\ FreeOf(H \cup {ItemAt(c, i)}, d) = FreeOf(H, d)
           /\ FreeOf(H \ {ItemAt(c, i)}, d) = FreeOf(H, d)
BY OneItem DEF FreeOf

\* Taking the first free item of a chunk, before the chunk changes lists.
TakeFrom(m, c) ==
    [m EXCEPT !.chunk[c].free_list = m.chunk[c].memory[m.chunk[c].free_list],
              !.chunk[c].used_count = @ + 1]

LEMMA TakeFromEffect ==
    ASSUME NEW m \in MemoryType, NEW c \in Chunks, m.chunk[c].free_list \in Slots,
           m.chunk[c].used_count # Capacity
    PROVE  /\ TakeFrom(m, c) \in MemoryType
           /\ SameLinks(m, TakeFrom(m, c))
           /\ TakeFrom(m, c).chunk[c].memory = m.chunk[c].memory
           /\ TakeFrom(m, c).chunk[c].free_list = m.chunk[c].memory[m.chunk[c].free_list]
           /\ TakeFrom(m, c).chunk[c].used_count = m.chunk[c].used_count + 1
           /\ \A d \in Chunks \ {c} : TakeFrom(m, c).chunk[d] = m.chunk[d]
<1> DEFINE i == m.chunk[c].free_list
           f == m.chunk[c].memory[i]
           u == m.chunk[c].used_count + 1
           m2 == TakeFrom(m, c)
<1>1. m.chunk[c] \in ChunkType
  BY DEF MemoryType
<1>2. f \in Slots \cup {Garbage} /\ u \in 0 .. Capacity
  BY <1>1, CapacityType DEF ChunkType
<1> DEFINE a == [m EXCEPT !.chunk[c].free_list = f]
<1>3. m2 = [a EXCEPT !.chunk[c].used_count = u]
  BY DEF TakeFrom, MemoryType, ChunkType
<1> HIDE DEF f, u, m2
<1>4. /\ a.head = m.head /\ a.chunk = [m.chunk EXCEPT ![c] = [@ EXCEPT !.free_list = f]]
      /\ a \in MemoryType
  BY <1>2 DEF MemoryType, ChunkType
<1> HIDE DEF a
<1>5. /\ m2.head = a.head /\ m2.chunk = [a.chunk EXCEPT ![c] = [@ EXCEPT !.used_count = u]]
      /\ m2 \in MemoryType
  <2>1. a \in MemoryType /\ u \in 0 .. Capacity
    BY <1>2, <1>4
  <2>2. ASSUME NEW ch \in [Chunks -> ChunkType]
        PROVE  [ch EXCEPT ![c] = [@ EXCEPT !.used_count = u]] \in [Chunks -> ChunkType]
    BY <2>1 DEF ChunkType
  <2> QED  BY <2>1, <2>2, <1>3 DEF MemoryType
<1>6. SameLinks(m, m2) /\ \A d \in Chunks \ {c} : m2.chunk[d] = m.chunk[d]
  BY <1>4, <1>5 DEF MemoryType, ChunkType, SameLinks
<1>7. /\ m2.chunk[c].memory = m.chunk[c].memory /\ m2.chunk[c].free_list = f
      /\ m2.chunk[c].used_count = u
  BY <1>4, <1>5 DEF MemoryType, ChunkType
<1> QED  BY <1>5, <1>6, <1>7 DEF f, u, m2

\* The owner of an item writes over the index it held.
WriteTo(m, c, i) == [m EXCEPT !.chunk[c].memory[i] = Garbage]

\* The owner of an item overwrites its memory.
LEMMA WriteEffect ==
    ASSUME NEW m \in MemoryType, NEW c \in Chunks, NEW i \in Slots
    PROVE  /\ WriteTo(m, c, i) \in MemoryType /\ SameLinks(m, WriteTo(m, c, i))
           /\ WriteTo(m, c, i).chunk[c].memory = Over(m.chunk[c].memory, i, Garbage)
           /\ WriteTo(m, c, i).chunk[c].free_list = m.chunk[c].free_list
           /\ WriteTo(m, c, i).chunk[c].used_count = m.chunk[c].used_count
           /\ \A d \in Chunks \ {c} : WriteTo(m, c, i).chunk[d] = m.chunk[d]
<1> DEFINE y == Over(m.chunk[c].memory, i, Garbage)
           m2 == WriteTo(m, c, i)
<1>1. m.chunk[c] \in ChunkType
  BY DEF MemoryType
<1>2. y \in [Slots -> Slots \cup {Garbage}]
  BY <1>1 DEF ChunkType, Over
<1>3. m2 = [m EXCEPT !.chunk[c].memory = y]
  BY DEF Over, WriteTo, MemoryType, ChunkType
<1> HIDE DEF y, m2
<1>4. /\ m2.head = m.head /\ m2.chunk = [m.chunk EXCEPT ![c] = [@ EXCEPT !.memory = y]]
      /\ m2 \in MemoryType
  BY <1>2, <1>3 DEF MemoryType, ChunkType
<1>5. SameLinks(m, m2) /\ \A d \in Chunks \ {c} : m2.chunk[d] = m.chunk[d]
  BY <1>4 DEF MemoryType, ChunkType, SameLinks
<1>6. /\ m2.chunk[c].memory = y /\ m2.chunk[c].free_list = m.chunk[c].free_list
      /\ m2.chunk[c].used_count = m.chunk[c].used_count
  BY <1>4 DEF MemoryType, ChunkType
<1> QED  BY <1>4, <1>5, <1>6 DEF y, m2

\* The first chunk of the free list has a free item.
LEMMA FirstFreeChunk ==
    ASSUME NEW m, NEW M, NEW H, Consistent(m, M, H), NEW c, c = m.head["free"], c # NULL
    PROVE  /\ c \in M /\ m.chunk[c].used_count # Capacity
           /\ c \in ListsOf(m, M)["free"]
<1>1. PICK n, s : /\ InARow(s, n, ListsOf(m, M)["free"]) /\ IsList(m, "free", s, n)
  BY DEF Consistent, InLists, Lists
<1>2. c \in ListsOf(m, M)["free"]
  BY <1>1 DEF IsList, NthOf, InARow
<1> QED  BY <1>2 DEF ListsOf, Lists, Full

\* An allocation takes an item, then moves a chunk that is full.
LEMMA TakeSteps ==
    ASSUME NEW m
    PROVE  LET c == m.head["free"]
           IN  Take(m) = IF Full(TakeFrom(m, c), c)
                         THEN ListPrepend(ListRemove(TakeFrom(m, c), "free", c), "full", c)
                         ELSE TakeFrom(m, c)
BY DEF Take, TakeFrom

\* Handing out the first free item.
LEMMA TakeIsConsistent ==
    ASSUME NEW m, NEW M, NEW H, Consistent(m, M, H), NEW c, c = m.head["free"], c # NULL,
           NEW i, i = m.chunk[c].free_list,
           NEW m2, m2 = WriteTo(Take(m), c, i)
    PROVE  /\ c \in M /\ i \in Slots /\ ItemAt(c, i) \notin H /\ ItemAt(c, i) \in Items
           /\ Consistent(m2, M, H \cup {ItemAt(c, i)})
           /\ \A d \in M \ {c} : m2.chunk[d].used_count = m.chunk[d].used_count
           /\ m2.chunk[c].used_count = m.chunk[c].used_count + 1
<1> DEFINE L == ListsOf(m, M)
           a == TakeFrom(m, c)
           b == Take(m)
<1>1. /\ m \in MemoryType /\ M \in SUBSET Chunks /\ H \in SUBSET Items
      /\ InLists(m, L) /\ \A d \in M : SoundChunk(m.chunk[d], FreeOf(H, d))
  BY DEF Consistent
<1>2. c \in M /\ c \in Chunks /\ m.chunk[c].used_count # Capacity /\ c \in L["free"]
  BY <1>1, FirstFreeChunk
<1>3. m.chunk[c] \in ChunkType /\ FreeOf(H, c) \in SUBSET Slots
  BY <1>1, <1>2 DEF MemoryType, FreeOf
<1>4. i \in FreeOf(H, c)
  <2> DEFINE ch == [m.chunk[c] EXCEPT !.memory = Over(m.chunk[c].memory, i, Garbage),
                                      !.free_list = m.chunk[c].memory[i],
                                      !.used_count = m.chunk[c].used_count + 1]
  <2>1. /\ ch.memory = Over(m.chunk[c].memory, i, Garbage)
        /\ ch.free_list = m.chunk[c].memory[i] /\ ch.used_count = m.chunk[c].used_count + 1
    BY <1>3 DEF ChunkType
  <2> HIDE DEF ch
  <2> QED  BY <1>1, <1>2, <1>3, <2>1, TakeItem
<1>5. i \in Slots /\ ItemAt(c, i) \notin H /\ ItemAt(c, i) \in Items
  BY <1>2, <1>4 DEF FreeOf, Items
<1>6. /\ a \in MemoryType /\ SameLinks(m, a)
      /\ a.chunk[c].memory = m.chunk[c].memory
      /\ a.chunk[c].free_list = m.chunk[c].memory[i]
      /\ a.chunk[c].used_count = m.chunk[c].used_count + 1
      /\ \A d \in Chunks \ {c} : a.chunk[d] = m.chunk[d]
  BY <1>1, <1>2, <1>5, TakeFromEffect
<1>7. b = IF Full(a, c) THEN ListPrepend(ListRemove(a, "free", c), "full", c) ELSE a
  BY TakeSteps
<1> HIDE DEF a, b
<1>8. InLists(a, L)
  BY <1>1, <1>6, KeepAllLists
<1>9. b \in MemoryType /\ SameItems(a, b) /\ InLists(b, ListsOf(b, M))
  <2>1. CASE ~Full(a, c)
    <3>1. b = a
      BY <1>7, <2>1
    <3>2. ListsOf(a, M) = L
      <4>1. \A d \in M : Full(a, d) <=> Full(m, d)
        BY <1>1, <1>2, <1>6, <2>1 DEF Full
      <4> QED  BY <4>1 DEF ListsOf, Full
    <3> QED  BY <1>6, <1>8, <3>1, <3>2 DEF SameItems
  <2>2. CASE Full(a, c)
    <3> DEFINE r == ListRemove(a, "free", c)
               L1 == [L EXCEPT !["free"] = @ \ {c}]
               L2 == [L1 EXCEPT !["full"] = @ \cup {c}]
    <3>1. r \in MemoryType /\ SameItems(a, r) /\ InLists(r, L1)
      BY <1>2, <1>6, <1>8, RemoveLists DEF Lists
    <3>2. b = ListPrepend(r, "full", c)
      BY <1>7, <2>2
    <3>3. c \notin L1["free"] /\ c \notin L1["full"]
      BY <1>1, <1>2 DEF InLists, Lists
    <3> HIDE DEF r, L1
    <3>4. b \in MemoryType /\ SameItems(r, b) /\ InLists(b, L2)
      BY <1>2, <3>1, <3>2, <3>3, PrependLists DEF Lists
    <3>5. SameItems(a, b)
      BY <3>1, <3>4 DEF SameItems
    <3>6. ListsOf(b, M) = L2
      <4>1. \A d \in M : Full(b, d) <=> (Full(m, d) \/ d = c)
        BY <1>1, <1>2, <1>6, <2>2, <3>5 DEF Full, SameItems
      <4>2. ~Full(m, c)
        BY <1>2 DEF Full
      <4>3. ListsOf(b, M)["free"] = ListsOf(m, M)["free"] \ {c}
        BY <4>1, <4>2 DEF ListsOf, Lists, Full
      <4>4. ListsOf(b, M)["full"] = ListsOf(m, M)["full"] \cup {c}
        BY <1>2, <4>1, <4>2 DEF ListsOf, Lists, Full
      <4> QED  BY <4>3, <4>4 DEF L1, ListsOf, Lists
    <3> QED  BY <3>4, <3>5, <3>6
  <2> QED  BY <2>1, <2>2
<1>10. /\ m2 \in MemoryType /\ SameLinks(b, m2)
       /\ m2.chunk[c].memory = Over(b.chunk[c].memory, i, Garbage)
       /\ m2.chunk[c].free_list = b.chunk[c].free_list
       /\ m2.chunk[c].used_count = b.chunk[c].used_count
       /\ \A d \in Chunks \ {c} : m2.chunk[d] = b.chunk[d]
  <2>1. b \in MemoryType
    BY <1>9
  <2>2. m2 = WriteTo(b, c, i)
    BY DEF b
  <2>3. c \in Chunks /\ i \in Slots
    BY <1>2, <1>5
  <2> HIDE DEF b
  <2>4. WriteTo(b, c, i) \in MemoryType /\ SameLinks(b, WriteTo(b, c, i))
    BY <2>1, <2>3, WriteEffect
  <2>5. /\ WriteTo(b, c, i).chunk[c].memory = Over(b.chunk[c].memory, i, Garbage)
        /\ WriteTo(b, c, i).chunk[c].free_list = b.chunk[c].free_list
        /\ WriteTo(b, c, i).chunk[c].used_count = b.chunk[c].used_count
    BY <2>1, <2>3, WriteEffect
  <2>6. \A d \in Chunks \ {c} : WriteTo(b, c, i).chunk[d] = b.chunk[d]
    BY <2>1, <2>3, WriteEffect
  <2> QED  BY <2>2, <2>4, <2>5, <2>6
<1>11. \A d \in M \ {c} : /\ m2.chunk[d].memory = m.chunk[d].memory
                          /\ m2.chunk[d].free_list = m.chunk[d].free_list
                          /\ m2.chunk[d].used_count = m.chunk[d].used_count
  <2> SUFFICES ASSUME NEW d \in M \ {c}
               PROVE  /\ m2.chunk[d].memory = m.chunk[d].memory
                      /\ m2.chunk[d].free_list = m.chunk[d].free_list
                      /\ m2.chunk[d].used_count = m.chunk[d].used_count
    OBVIOUS
  <2>1. d \in Chunks \ {c}
    BY <1>1
  <2>2. m2.chunk[d] = b.chunk[d] /\ a.chunk[d] = m.chunk[d]
    BY <1>6, <1>10, <2>1
  <2> QED  BY <1>9, <2>1, <2>2 DEF SameItems
<1>12. /\ m2.chunk[c].memory = Over(m.chunk[c].memory, i, Garbage)
       /\ m2.chunk[c].free_list = m.chunk[c].memory[i]
       /\ m2.chunk[c].used_count = m.chunk[c].used_count + 1
  <2>1. /\ b.chunk[c].memory = a.chunk[c].memory
        /\ b.chunk[c].free_list = a.chunk[c].free_list
        /\ b.chunk[c].used_count = a.chunk[c].used_count
    BY <1>2, <1>9 DEF SameItems
  <2> QED  BY <1>6, <1>10, <2>1
<1> DEFINE H2 == H \cup {ItemAt(c, i)}
<1>13. ASSUME NEW d \in M PROVE SoundChunk(m2.chunk[d], FreeOf(H2, d))
  <2>1. CASE d = c
    <3>1. SoundChunk(m2.chunk[c], FreeOf(H, c) \ {i})
      BY <1>1, <1>2, <1>3, <1>12, TakeItem
    <3>2. FreeOf(H2, c) = FreeOf(H, c) \ {i}
      BY <1>1, <1>2, <1>5, FreeOfChanges
    <3> QED  BY <2>1, <3>1, <3>2
  <2>2. CASE d # c
    <3>1. SoundChunk(m2.chunk[d], FreeOf(H, d))
      BY <1>1, <1>11, <2>2, SameChunkIsSound
    <3>2. FreeOf(H2, d) = FreeOf(H, d)
      <4>1. d \in Chunks
        BY <1>1
      <4> QED  BY <1>1, <1>2, <1>5, <2>2, <4>1, FreeOfStays
    <3> QED  BY <3>1, <3>2
  <2> QED  BY <2>1, <2>2
<1>14. InLists(m2, ListsOf(m2, M))
  <2>1. \A d \in M : Full(m2, d) <=> Full(b, d)
    BY <1>1, <1>10 DEF Full
  <2>2. ListsOf(m2, M) = ListsOf(b, M)
    BY <2>1 DEF ListsOf, Full
  <2> QED  BY <1>9, <1>10, <2>2, KeepAllLists
<1>15. \A p \in H2 : ChunkOf(p) \in M
  BY <1>2, <1>5, PlaceOfItem DEF Consistent
<1>16. H2 \in SUBSET Items
  BY <1>1, <1>5
<1>17. Consistent(m2, M, H2)
  BY <1>1, <1>10, <1>13, <1>14, <1>15, <1>16, Zenon DEF Consistent
<1> QED  BY <1>2, <1>5, <1>11, <1>12, <1>17

\* A whole chunk is written, as when it is new or given back.
SetChunk(m, c, ch) == [m EXCEPT !.chunk[c] = ch]

\* Writing a chunk changes that chunk only.
LEMMA SetChunkEffect ==
    ASSUME NEW m \in MemoryType, NEW c \in Chunks, NEW ch \in ChunkType
    PROVE  /\ SetChunk(m, c, ch) \in MemoryType /\ SetChunk(m, c, ch).head = m.head
           /\ SetChunk(m, c, ch).chunk[c] = ch
           /\ \A d \in Chunks \ {c} : SetChunk(m, c, ch).chunk[d] = m.chunk[d]
BY DEF SetChunk, MemoryType

\* A new chunk at the head of the free list.
LEMMA NewChunkIsConsistent ==
    ASSUME NEW m, NEW M, NEW H, Consistent(m, M, H), NEW c \in Chunks \ M,
           NEW m2, m2 = ListPrepend(SetChunk(m, c, FreshChunk), "free", c)
    PROVE  /\ Consistent(m2, M \cup {c}, H)
           /\ m2.head["free"] = c /\ m2.chunk[c].used_count = 0
           /\ \A d \in M : m2.chunk[d].used_count = m.chunk[d].used_count
<1> DEFINE L == ListsOf(m, M)
           a == SetChunk(m, c, FreshChunk)
           L2 == [L EXCEPT !["free"] = @ \cup {c}]
           M2 == M \cup {c}
<1>1. /\ m \in MemoryType /\ M \in SUBSET Chunks /\ H \in SUBSET Items
      /\ InLists(m, L) /\ \A d \in M : SoundChunk(m.chunk[d], FreeOf(H, d))
      /\ \A p \in H : ChunkOf(p) \in M
  BY DEF Consistent
<1>2. /\ a \in MemoryType /\ a.head = m.head /\ a.chunk[c] = FreshChunk
      /\ \A d \in Chunks \ {c} : a.chunk[d] = m.chunk[d]
  BY <1>1, FreshChunkIsSound, SetChunkEffect
<1> HIDE DEF a
<1>3. InLists(a, L)
  <2>1. \A list \in Lists : \A d \in L[list] : d \in Chunks \ {c}
    BY <1>1 DEF ListsOf
  <2>2. \A list \in Lists : \A d \in L[list] :
           a.chunk[d].next = m.chunk[d].next /\ a.chunk[d].prev = m.chunk[d].prev
    BY <1>2, <2>1
  <2> HIDE DEF L
  <2> QED  BY <1>1, <1>2, <2>2, KeepLists
<1>4. c \notin L["free"] /\ c \notin L["full"]
  BY DEF ListsOf, Lists
<1>5. m2 = ListPrepend(a, "free", c)
  BY DEF a
<1> HIDE DEF L
<1>6. /\ m2 \in MemoryType /\ SameItems(a, m2) /\ InLists(m2, L2)
      /\ m2.head = [a.head EXCEPT !["free"] = c]
  BY <1>2, <1>3, <1>4, <1>5, PrependLists DEF Lists
<1>7. m2.head["free"] = c
  BY <1>2, <1>6 DEF MemoryType, Lists
<1>8. ASSUME NEW d \in M
      PROVE  /\ d \in Chunks /\ d # c
             /\ m2.chunk[d].memory = m.chunk[d].memory
             /\ m2.chunk[d].free_list = m.chunk[d].free_list
             /\ m2.chunk[d].used_count = m.chunk[d].used_count
  <2>1. d \in Chunks \ {c}
    BY <1>1
  <2>2. a.chunk[d] = m.chunk[d]
    BY <1>2, <2>1
  <2> QED  BY <1>6, <2>1, <2>2 DEF SameItems
<1>9. /\ m2.chunk[c].memory = FreshChunk.memory
      /\ m2.chunk[c].free_list = FreshChunk.free_list
      /\ m2.chunk[c].used_count = FreshChunk.used_count
  BY <1>2, <1>6 DEF SameItems
<1>10. ASSUME NEW d \in M2 PROVE SoundChunk(m2.chunk[d], FreeOf(H, d))
  <2>1. CASE d \in M
    BY <1>1, <1>8, <2>1, SameChunkIsSound
  <2>2. CASE d = c
    <3>1. FreeOf(H, c) = Slots
      BY <1>1, PlaceOfItem DEF FreeOf
    <3> QED  BY <1>9, <2>2, <3>1, FreshChunkIsSound, SameChunkIsSound
  <2> QED  BY <2>1, <2>2
<1>11. ListsOf(m2, M2) = L2
  <2>1. \A d \in M : Full(m2, d) = Full(m, d)
    BY <1>8 DEF Full
  <2>2. ~Full(m2, c)
    BY <1>9, FreshChunkIsSound, CapacityType DEF Full
  <2>3. ListsOf(m2, M2)["free"] = L["free"] \cup {c}
    BY <2>1, <2>2 DEF ListsOf, Lists, Full, L
  <2>4. ListsOf(m2, M2)["full"] = L["full"]
    BY <2>1, <2>2 DEF ListsOf, Lists, Full, L
  <2> QED  BY <2>3, <2>4 DEF ListsOf, Lists, L
<1>12. Consistent(m2, M2, H)
  BY <1>1, <1>6, <1>10, <1>11, Zenon DEF Consistent
<1> QED  BY <1>7, <1>8, <1>9, <1>12, FreshChunkIsSound

\* An item is put in front of its chunk's free list, before the chunk changes lists.
PutInto(m, c, i) ==
    [m EXCEPT !.chunk[c].memory[i] = m.chunk[c].free_list,
              !.chunk[c].free_list = i,
              !.chunk[c].used_count = @ - 1]

\* A free makes the item the first free one of its chunk.
LEMMA PutIntoEffect ==
    ASSUME NEW m \in MemoryType, NEW c \in Chunks, NEW i \in Slots,
           m.chunk[c].used_count # 0
    PROVE  /\ PutInto(m, c, i) \in MemoryType
           /\ SameLinks(m, PutInto(m, c, i))
           /\ PutInto(m, c, i).chunk[c].memory =
                 Over(m.chunk[c].memory, i, m.chunk[c].free_list)
           /\ PutInto(m, c, i).chunk[c].free_list = i
           /\ PutInto(m, c, i).chunk[c].used_count = m.chunk[c].used_count - 1
           /\ \A d \in Chunks \ {c} : PutInto(m, c, i).chunk[d] = m.chunk[d]
<1> DEFINE y == Over(m.chunk[c].memory, i, m.chunk[c].free_list)
           u == m.chunk[c].used_count - 1
           m2 == PutInto(m, c, i)
           ch == [m.chunk[c] EXCEPT !.memory = y, !.free_list = i, !.used_count = u]
<1>1. m.chunk[c] \in ChunkType
  BY DEF MemoryType
<1>2. y \in [Slots -> Slots \cup {Garbage}] /\ u \in 0 .. Capacity
  BY <1>1, CapacityType DEF ChunkType, Over
<1>3. m2 = SetChunk(m, c, ch)
  BY <1>1 DEF Over, PutInto, SetChunk, MemoryType, ChunkType
<1> HIDE DEF y, u
<1>4. /\ ch \in ChunkType /\ ch.memory = y /\ ch.free_list = i /\ ch.used_count = u
      /\ ch.next = m.chunk[c].next /\ ch.prev = m.chunk[c].prev
  BY <1>1, <1>2 DEF ChunkType
<1> HIDE DEF ch, m2
<1>5. /\ m2 \in MemoryType /\ m2.head = m.head /\ m2.chunk[c] = ch
      /\ \A d \in Chunks \ {c} : m2.chunk[d] = m.chunk[d]
  BY <1>3, <1>4, SetChunkEffect
<1>6. SameLinks(m, m2)
  BY <1>4, <1>5 DEF SameLinks
<1> QED  BY <1>4, <1>5, <1>6 DEF y, u, m2

\* A free puts an item back, then moves a chunk that was full.
LEMMA PutSteps ==
    ASSUME NEW m, NEW p
    PROVE  LET c == ChunkOf(p)
               a == PutInto(m, c, IndexOf(p))
           IN  Put(m, p) = IF Full(m, c) THEN ListPrepend(ListRemove(a, "full", c), "free", c)
                           ELSE a
BY DEF Put, PutInto

\* Taking an item back.
LEMMA PutIsConsistent ==
    ASSUME NEW m, NEW M, NEW H, Consistent(m, M, H), NEW p \in H,
           NEW c, c = ChunkOf(p), NEW m2, m2 = Put(m, p)
    PROVE  /\ c \in M /\ Consistent(m2, M, H \ {p})
           /\ m2.chunk[c].used_count = m.chunk[c].used_count - 1
           /\ \A d \in M \ {c} : m2.chunk[d].used_count = m.chunk[d].used_count
<1> DEFINE L == ListsOf(m, M)
           i == IndexOf(p)
           a == PutInto(m, c, i)
           H2 == H \ {p}
<1>1. /\ m \in MemoryType /\ M \in SUBSET Chunks /\ H \in SUBSET Items
      /\ InLists(m, L) /\ \A d \in M : SoundChunk(m.chunk[d], FreeOf(H, d))
      /\ \A q \in H : ChunkOf(q) \in M
  BY DEF Consistent
<1>2. c \in M /\ c \in Chunks /\ i \in Slots /\ p = ItemAt(c, i)
  <2>1. PICK e \in Chunks, j \in Slots : p = ItemAt(e, j)
    BY <1>1 DEF Items
  <2> QED  BY <1>1, <2>1, PlaceOfItem
<1> HIDE DEF L, i
<1>3. m.chunk[c] \in ChunkType /\ FreeOf(H, c) \in SUBSET Slots /\ i \in Slots \ FreeOf(H, c)
  BY <1>1, <1>2 DEF MemoryType, FreeOf
<1>4. m.chunk[c].used_count # 0
  <2>1. SoundChunk(m.chunk[c], FreeOf(H, c))
    BY <1>1, <1>2
  <2> QED  BY <1>3, <2>1, SoundChunkCounts
<1>5. /\ a \in MemoryType /\ SameLinks(m, a)
      /\ a.chunk[c].free_list = i
      /\ a.chunk[c].used_count = m.chunk[c].used_count - 1
      /\ \A d \in Chunks \ {c} : a.chunk[d] = m.chunk[d]
  <2>1. m \in MemoryType /\ c \in Chunks /\ i \in Slots
    BY <1>1, <1>2
  <2>2. a \in MemoryType /\ SameLinks(m, a)
    BY <1>4, <2>1, PutIntoEffect
  <2>3. a.chunk[c].free_list = i /\ a.chunk[c].used_count = m.chunk[c].used_count - 1
    BY <1>4, <2>1, PutIntoEffect
  <2>4. \A d \in Chunks \ {c} : a.chunk[d] = m.chunk[d]
    BY <1>4, <2>1, PutIntoEffect
  <2> QED  BY <2>2, <2>3, <2>4
<1>6. a.chunk[c].memory = Over(m.chunk[c].memory, i, m.chunk[c].free_list)
  <2>1. m \in MemoryType /\ c \in Chunks /\ i \in Slots
    BY <1>1, <1>2
  <2> QED  BY <1>4, <2>1, PutIntoEffect
<1>7. m2 = IF Full(m, c) THEN ListPrepend(ListRemove(a, "full", c), "free", c) ELSE a
  BY PutSteps DEF i
<1> HIDE DEF a
<1>8. InLists(a, L)
  BY <1>1, <1>5, KeepAllLists
<1>9. ~Full(a, c)
  BY <1>3, <1>5, CapacityType DEF Full, ChunkType
<1>10. m2 \in MemoryType /\ SameItems(a, m2) /\ InLists(m2, ListsOf(m2, M))
  <2>1. CASE ~Full(m, c)
    <3>1. m2 = a
      BY <1>7, <2>1
    <3>2. \A d \in M : Full(a, d) = Full(m, d)
      BY <1>1, <1>2, <1>5, <1>9, <2>1 DEF Full
    <3>3. ListsOf(a, M) = L
      BY <3>2 DEF ListsOf, Full, L
    <3> QED  BY <1>5, <1>8, <3>1, <3>3 DEF SameItems
  <2>2. CASE Full(m, c)
    <3> DEFINE r == ListRemove(a, "full", c)
               L1 == [L EXCEPT !["full"] = @ \ {c}]
               L2 == [L1 EXCEPT !["free"] = @ \cup {c}]
    <3>1. c \in L["full"] /\ c \notin L["free"]
      BY <1>2, <2>2 DEF L, ListsOf, Lists, Full
    <3>2. r \in MemoryType /\ SameItems(a, r) /\ InLists(r, L1)
      BY <1>5, <1>8, <3>1, RemoveLists DEF Lists
    <3>3. m2 = ListPrepend(r, "free", c)
      BY <1>7, <2>2
    <3>4. c \notin L1["free"] /\ c \notin L1["full"]
      BY <1>1, <3>1 DEF InLists, Lists
    <3> HIDE DEF r, L1
    <3>5. m2 \in MemoryType /\ SameItems(r, m2) /\ InLists(m2, L2)
      <4>1. "free" \in Lists /\ r \in MemoryType /\ InLists(r, L1) /\ c \in Chunks
        BY <1>2, <3>2 DEF Lists
      <4>2. InLists(ListPrepend(r, "free", c), L2)
        BY <3>4, <4>1, PrependLists
      <4>3. ListPrepend(r, "free", c) \in MemoryType /\ SameItems(r, ListPrepend(r, "free", c))
        BY <3>4, <4>1, PrependLists
      <4> QED  BY <3>3, <4>2, <4>3
    <3>6. SameItems(a, m2)
      BY <3>2, <3>5 DEF SameItems
    <3>7. ListsOf(m2, M) = L2
      <4>1. \A d \in M : Full(m2, d) <=> (Full(m, d) /\ d # c)
        BY <1>1, <1>2, <1>5, <1>9, <3>6 DEF Full, SameItems
      <4>2. ListsOf(m2, M)["free"] = L["free"] \cup {c}
        BY <1>2, <4>1 DEF ListsOf, Lists, Full, L
      <4>3. ListsOf(m2, M)["full"] = L["full"] \ {c}
        BY <1>2, <4>1 DEF ListsOf, Lists, Full, L
      <4> QED  BY <4>2, <4>3 DEF L1, ListsOf, Lists, L
    <3> QED  BY <3>5, <3>6, <3>7
  <2> QED  BY <2>1, <2>2
<1>11. /\ m2.chunk[c].memory = a.chunk[c].memory
       /\ m2.chunk[c].free_list = a.chunk[c].free_list
       /\ m2.chunk[c].used_count = a.chunk[c].used_count
  BY <1>2, <1>10 DEF SameItems
<1>12. ASSUME NEW d \in M \ {c}
       PROVE  /\ d \in Chunks /\ m2.chunk[d].memory = m.chunk[d].memory
              /\ m2.chunk[d].free_list = m.chunk[d].free_list
              /\ m2.chunk[d].used_count = m.chunk[d].used_count
  <2>1. d \in Chunks \ {c}
    BY <1>1
  <2>2. a.chunk[d] = m.chunk[d]
    BY <1>5, <2>1
  <2> QED  BY <1>10, <2>1, <2>2 DEF SameItems
<1>13. ASSUME NEW d \in M PROVE SoundChunk(m2.chunk[d], FreeOf(H2, d))
  <2>1. CASE d = c
    <3>1. SoundChunk(m.chunk[c], FreeOf(H, c))
      BY <1>1, <1>2
    <3>2. SoundChunk(m2.chunk[c], FreeOf(H, c) \cup {i})
      BY <1>3, <1>5, <1>6, <1>11, <3>1, PutItem
    <3>3. FreeOf(H2, c) = FreeOf(H, c) \cup {i}
      BY <1>1, <1>2, FreeOfChanges
    <3> QED  BY <2>1, <3>2, <3>3
  <2>2. CASE d # c
    <3>1. SoundChunk(m2.chunk[d], FreeOf(H, d))
      BY <1>1, <1>12, <2>2, SameChunkIsSound
    <3>2. FreeOf(H2, d) = FreeOf(H, d)
      BY <1>1, <1>2, <1>12, <2>2, FreeOfStays
    <3> QED  BY <3>1, <3>2
  <2> QED  BY <2>1, <2>2
<1>14. Consistent(m2, M, H2)
  BY <1>1, <1>10, <1>13, Zenon DEF Consistent
<1> QED  BY <1>2, <1>5, <1>11, <1>12, <1>14

\* A chunk none of whose items is held is given back.
LEMMA DropIsConsistent ==
    ASSUME NEW m, NEW M, NEW H, Consistent(m, M, H), NEW c \in M, m.chunk[c].used_count = 0,
           NEW m2, m2 = SetChunk(ListRemove(m, "free", c), c, Unmapped)
    PROVE  /\ Consistent(m2, M \ {c}, H)
           /\ \A d \in M \ {c} : m2.chunk[d].used_count = m.chunk[d].used_count
<1> DEFINE L == ListsOf(m, M)
           r == ListRemove(m, "free", c)
           L2 == [L EXCEPT !["free"] = @ \ {c}]
           M2 == M \ {c}
<1>1. /\ m \in MemoryType /\ M \in SUBSET Chunks /\ H \in SUBSET Items
      /\ InLists(m, L) /\ \A d \in M : SoundChunk(m.chunk[d], FreeOf(H, d))
      /\ \A q \in H : ChunkOf(q) \in M
  BY DEF Consistent
<1>2. c \in Chunks /\ c \in L["free"] /\ c \notin L["full"]
  BY <1>1, CapacityType DEF ListsOf, Lists, Full
<1> HIDE DEF L
<1>3. r \in MemoryType /\ SameItems(m, r) /\ InLists(r, L2)
  BY <1>1, <1>2, RemoveLists DEF Lists
<1>4. Unmapped \in ChunkType
  BY CapacityType DEF Unmapped, ChunkType, Slots
<1> HIDE DEF r
<1>5. /\ m2 \in MemoryType /\ m2.head = r.head
      /\ \A d \in Chunks \ {c} : m2.chunk[d] = r.chunk[d]
  BY <1>2, <1>3, <1>4, SetChunkEffect DEF r
<1>6. InLists(m2, L2)
  <2>1. L2 \in [Lists -> SUBSET Chunks] /\ \A list \in Lists : c \notin L2[list]
    BY <1>1, <1>2 DEF InLists, Lists
  <2>2. \A list \in Lists : \A d \in L2[list] :
           m2.chunk[d].next = r.chunk[d].next /\ m2.chunk[d].prev = r.chunk[d].prev
    BY <1>5, <2>1
  <2> HIDE DEF L2
  <2> QED  BY <1>3, <1>5, <2>2, KeepLists
<1>7. ASSUME NEW d \in M2
      PROVE  /\ d \in Chunks /\ m2.chunk[d].memory = m.chunk[d].memory
             /\ m2.chunk[d].free_list = m.chunk[d].free_list
             /\ m2.chunk[d].used_count = m.chunk[d].used_count
  <2>1. d \in Chunks \ {c}
    BY <1>1
  <2>2. m2.chunk[d] = r.chunk[d]
    BY <1>5, <2>1
  <2> QED  BY <1>3, <2>1, <2>2 DEF SameItems
<1>8. \A d \in M2 : SoundChunk(m2.chunk[d], FreeOf(H, d))
  BY <1>1, <1>7, SameChunkIsSound
<1>9. \A q \in H : ChunkOf(q) \in M2
  <2>1. FreeOf(H, c) = Slots
    <3>1. SoundChunk(m.chunk[c], FreeOf(H, c)) /\ FreeOf(H, c) \in SUBSET Slots
      BY <1>1 DEF FreeOf
    <3> QED  BY <3>1, SoundChunkCounts
  <2>2. ASSUME NEW q \in H PROVE ChunkOf(q) # c
    <3>1. PICK e \in Chunks, j \in Slots : q = ItemAt(e, j)
      BY <1>1 DEF Items
    <3>2. e # c
      BY <2>1, <3>1 DEF FreeOf
    <3> QED  BY <3>1, <3>2, PlaceOfItem
  <2> QED  BY <1>1, <2>2
<1>10. ListsOf(m2, M2) = L2
  <2>1. \A d \in M2 : Full(m2, d) = Full(m, d)
    BY <1>7 DEF Full
  <2>2. ListsOf(m2, M2)["free"] = L["free"] \ {c}
    BY <2>1 DEF ListsOf, Lists, Full, L
  <2>3. ListsOf(m2, M2)["full"] = L["full"]
    BY <1>2, <2>1 DEF ListsOf, Lists, Full, L
  <2> QED  BY <2>2, <2>3 DEF ListsOf, Lists, L
<1>11. Consistent(m2, M2, H)
  BY <1>1, <1>5, <1>6, <1>8, <1>9, <1>10, Zenon DEF Consistent
<1> QED  BY <1>7, <1>11

\* An allocator without chunks.
LEMMA EmptyIsConsistent ==
    ASSUME NEW m \in MemoryType, \A list \in Lists : m.head[list] = NULL
    PROVE  Consistent(m, {}, {})
<1>1. ASSUME NEW list \in Lists
      PROVE  \E n, s : InARow(s, n, ListsOf(m, {})[list]) /\ IsList(m, list, s, n)
  <2> DEFINE s == [k \in 1 .. 0 |-> NULL]
  <2>1. InARow(s, 0, ListsOf(m, {})[list])
    BY DEF InARow, ListsOf
  <2>2. IsList(m, list, s, 0)
    BY DEF IsList, NthOf
  <2> QED  BY <2>1, <2>2
<1>2. /\ ListsOf(m, {}) \in [Lists -> SUBSET Chunks]
      /\ ListsOf(m, {})["free"] \cap ListsOf(m, {})["full"] = {}
  BY DEF ListsOf, Lists
<1> QED  BY <1>1, <1>2 DEF Consistent, InLists

-----------------------------------------------------------------------------
(* The invariant.                                                           *)

\* A held item is in a mapped chunk.
HeldIsMapped == \A p \in held : ChunkOf(p) \in mapped

\* A mapped chunk has an item that is held.
NoneUnused == \A c \in mapped : ~Unused(Memory, c)

\* Before the allocator is made it has given nothing.
NothingYet == ~created => mapped = {} /\ held = {}

\* The properties by themselves are not inductive: what a call does to a chunk relies
\* on the chunk being mapped, and a chunk given back on none of its items being held.
IInv == TypeOK /\ AllListsSound /\ HeldIsMapped /\ NoneUnused /\ NothingYet

\* The free list of one chunk, as the property states it.
LEMMA FreeListIsSound ==
    ASSUME NEW ch, NEW S, IsFiniteSet(S)
    PROVE  SoundChunk(ch, S) <=>
             /\ ch.used_count = Capacity - Cardinality(S)
             /\ \E s \in Rows(S) : /\ s # <<>> => ch.free_list = s[1]
                                   /\ \A k \in 1 .. Len(s) - 1 : ch.memory[s[k]] = s[k + 1]
<1>1. ASSUME SoundChunk(ch, S)
      PROVE  /\ ch.used_count = Capacity - Cardinality(S)
             /\ \E s \in Rows(S) : /\ s # <<>> => ch.free_list = s[1]
                                   /\ \A k \in 1 .. Len(s) - 1 : ch.memory[s[k]] = s[k + 1]
  <2>1. PICK n, s : /\ InARow(s, n, S)
                    /\ ch.used_count = Capacity - n
                    /\ n > 0 => ch.free_list = s[1]
                    /\ \A k \in 1 .. n - 1 : ch.memory[s[k]] = s[k + 1]
    BY <1>1 DEF SoundChunk
  <2>2. n = Cardinality(S)
    BY <2>1, RowCounts
  <2>3. s \in Rows(S)
    BY <2>1, <2>2, RowsAreRows
  <2>4. n \in Nat /\ Len(s) = n /\ (n = 0 => s = <<>>)
    BY <2>1, RowIsSequence DEF InARow
  <2>5. s # <<>> => ch.free_list = s[1]
    BY <2>1, <2>4
  <2>6. \A k \in 1 .. Len(s) - 1 : ch.memory[s[k]] = s[k + 1]
    BY <2>1, <2>4
  <2> QED  BY <2>1, <2>2, <2>3, <2>5, <2>6
<1>2. ASSUME /\ ch.used_count = Capacity - Cardinality(S)
             /\ \E s \in Rows(S) : /\ s # <<>> => ch.free_list = s[1]
                                   /\ \A k \in 1 .. Len(s) - 1 : ch.memory[s[k]] = s[k + 1]
      PROVE  SoundChunk(ch, S)
  <2>1. PICK s \in Rows(S) : /\ s # <<>> => ch.free_list = s[1]
                             /\ \A k \in 1 .. Len(s) - 1 : ch.memory[s[k]] = s[k + 1]
    BY <1>2
  <2> DEFINE n == Cardinality(S)
  <2>2. InARow(s, n, S)
    BY RowsAreRows
  <2> HIDE DEF n
  <2>3. n \in Nat /\ Len(s) = n /\ s \in Seq(S)
    BY <2>2, RowIsSequence DEF InARow
  <2>4. n > 0 => ch.free_list = s[1]
    BY <2>1, <2>3
  <2>5. \A k \in 1 .. n - 1 : ch.memory[s[k]] = s[k + 1]
    BY <2>1, <2>3
  <2> QED  BY <1>2, <2>2, <2>4, <2>5 DEF SoundChunk, n
<1> QED  BY <1>1, <1>2

\* One list of chunks, as the property states it.
IsListed(m, list, s) ==
    LET At(k) == IF k \in 1 .. Len(s) THEN s[k] ELSE NULL
    IN  /\ m.head[list] = At(1)
        /\ \A k \in 1 .. Len(s) : /\ m.chunk[s[k]].next = At(k + 1)
                                  /\ m.chunk[s[k]].prev = At(k - 1)

\* The model's description of a list and the one the proofs use are the same.
LEMMA ListIsSound ==
    ASSUME NEW m, NEW list, NEW S, IsFiniteSet(S)
    PROVE  (\E n, s : InARow(s, n, S) /\ IsList(m, list, s, n)) <=>
             \E s \in Rows(S) : IsListed(m, list, s)
<1>1. ASSUME NEW s, InARow(s, Cardinality(S), S)
      PROVE  Len(s) = Cardinality(S)
  <2> DEFINE n == Cardinality(S)
  <2>1. n \in Nat /\ s \in [1 .. n -> S]
    BY <1>1 DEF InARow
  <2> HIDE DEF n
  <2>2. Len(s) = n
    BY <2>1, RowIsSequence
  <2> QED  BY <2>2 DEF n
<1>2. ASSUME NEW s PROVE IsList(m, list, s, Len(s)) <=> IsListed(m, list, s)
  BY DEF IsList, IsListed, NthOf
<1>3. ASSUME NEW n, NEW s, InARow(s, n, S)
      PROVE  n = Cardinality(S) /\ s \in Rows(S) /\ Len(s) = n
  <2>1. n = Cardinality(S)
    BY <1>3, RowCounts
  <2> QED  BY <1>1, <1>3, <2>1, RowsAreRows
<1>4. ASSUME NEW s \in Rows(S) PROVE InARow(s, Len(s), S)
  BY <1>1, RowsAreRows
<1> QED  BY <1>2, <1>3, <1>4

\* The invariant as it is proved: Consistent says of the memory what the properties
\* say of the variables.
MInv ==
    /\ Consistent(Memory, mapped, held)
    /\ created \in BOOLEAN /\ item \in Items \cup {NULL} /\ turn \in 0 .. 1
    /\ head \in [Lists -> Chunks \cup {NULL}] /\ chunk \in [Chunks -> ChunkType]
    /\ \A c \in mapped : chunk[c].used_count # 0
    /\ NothingYet

\* The invariant the runs check and the one the proofs use are the same.
LEMMA InvariantIsConsistent == IInv <=> MInv
<1> DEFINE T == /\ created \in BOOLEAN /\ item \in Items \cup {NULL} /\ turn \in 0 .. 1
                /\ head \in [Lists -> Chunks \cup {NULL}]
                /\ chunk \in [Chunks -> ChunkType]
                /\ mapped \in SUBSET Chunks /\ held \in SUBSET Items
<1>1. TypeOK <=> T
  BY DEF TypeOK, ChunkType, Lists
<1>2. Memory.head = head /\ Memory.chunk = chunk
  BY DEF Memory
<1>3. ASSUME T
      PROVE  /\ Memory \in MemoryType
             /\ ListsOf(Memory, mapped) \in [Lists -> SUBSET Chunks]
             /\ ListsOf(Memory, mapped)["free"] \cap ListsOf(Memory, mapped)["full"] = {}
  BY <1>3 DEF Memory, MemoryType, ListsOf, Lists, Full
<1>4. \A c : FreeSlots(c) = FreeOf(held, c)
  BY DEF FreeSlots, FreeOf
<1>5. ASSUME NEW c PROVE IsFiniteSet(FreeOf(held, c))
  <2>1. IsFiniteSet(Slots) /\ FreeOf(held, c) \in SUBSET Slots
    BY CapacityType, FS_Interval DEF Slots, FreeOf
  <2> QED  BY <2>1, FS_Subset
<1>6. FreeListsSound <=> \A c \in mapped : SoundChunk(chunk[c], FreeOf(held, c))
  BY <1>4, <1>5, FreeListIsSound DEF FreeListsSound
<1>7. ASSUME T, NEW list \in Lists
      PROVE  ListsOf(Memory, mapped)[list] = Listed(list) /\ IsFiniteSet(Listed(list))
  <2>1. ListsOf(Memory, mapped)[list] = Listed(list) /\ Listed(list) \in SUBSET Chunks
    BY <1>7 DEF ListsOf, Listed
  <2> QED  BY <2>1, FiniteAssumption, FS_Subset
<1>8. ASSUME T PROVE ListsSound <=> InLists(Memory, ListsOf(Memory, mapped))
  <2>1. ListsSound <=> \A list \in Lists :
           \E n, s : InARow(s, n, Listed(list)) /\ IsList(Memory, list, s, n)
    <3>1. ListsSound <=> \A list \in Lists :
                            \E s \in Rows(Listed(list)) : IsListed(Memory, list, s)
      BY <1>2 DEF ListsSound, IsListed, Lists
    <3>2. ASSUME NEW list \in Lists
          PROVE  (\E s \in Rows(Listed(list)) : IsListed(Memory, list, s)) <=>
                   \E n, s : InARow(s, n, Listed(list)) /\ IsList(Memory, list, s, n)
      BY <1>7, <1>8, ListIsSound
    <3> QED  BY <3>1, <3>2, Zenon
  <2> QED  BY <1>3, <1>7, <1>8, <2>1 DEF InLists
<1>9. NoneUnused <=> \A c \in mapped : chunk[c].used_count # 0
  BY <1>2 DEF NoneUnused, Unused
<1> QED
  BY <1>1, <1>2, <1>3, <1>6, <1>8, <1>9 DEF IInv, MInv, AllListsSound, HeldIsMapped, Consistent

\* The memory after a step.
LEMMA MemoryIs ==
    ASSUME NEW m \in MemoryType, head' = m.head, chunk' = m.chunk
    PROVE  /\ Memory' = m /\ head' \in [Lists -> Chunks \cup {NULL}]
           /\ chunk' \in [Chunks -> ChunkType]
BY DEF Memory, MemoryType

\* An unmapped chunk is typed like another.
LEMMA UnmappedType == Unmapped \in ChunkType
BY CapacityType DEF Unmapped, ChunkType, Slots

\* A list that belongs to no chunk is empty.
LEMMA NothingListed ==
    ASSUME NEW m, NEW H, Consistent(m, {}, H)
    PROVE  \A list \in Lists : m.head[list] = NULL
<1>1. ASSUME NEW list \in Lists PROVE m.head[list] = NULL
  <2>1. PICK n, s : InARow(s, n, ListsOf(m, {})[list]) /\ IsList(m, list, s, n)
    BY DEF Consistent, InLists
  <2>2. ListsOf(m, {})[list] = {}
    BY DEF ListsOf
  <2> QED  BY <2>1, <2>2 DEF InARow, IsList, NthOf
<1> QED  BY <1>1

-----------------------------------------------------------------------------
(* The invariant holds initially and every call keeps it.                   *)

\* There is no allocator at first.
LEMMA InitInv == Init => MInv
<1> SUFFICES ASSUME Init PROVE MInv
  OBVIOUS
<1>1. head \in [Lists -> Chunks \cup {NULL}] /\ \A list \in Lists : head[list] = NULL
  BY DEF Init, Lists
<1>2. chunk \in [Chunks -> ChunkType]
  BY UnmappedType DEF Init
<1>3. Memory \in MemoryType /\ Memory.head = head
  BY <1>1, <1>2 DEF Memory, MemoryType
<1>4. Consistent(Memory, mapped, held)
  BY <1>1, <1>3, EmptyIsConsistent DEF Init
<1>5. created = FALSE /\ mapped = {} /\ held = {} /\ item = NULL /\ turn = 0
  BY DEF Init
<1>6. \A c \in mapped : chunk[c].used_count # 0
  BY <1>5
<1>7. item \in Items \cup {NULL} /\ turn \in 0 .. 1 /\ NothingYet
  BY <1>5 DEF NothingYet
<1>8. created \in BOOLEAN
  BY <1>5
<1> QED  BY <1>1, <1>2, <1>4, <1>6, <1>7, <1>8 DEF MInv

\* An item is handed out from a memory m: the common part of the two calls that do so.
LEMMA HandOutInv ==
    ASSUME NEW m, NEW M, Consistent(m, M, held), m.head["free"] # NULL,
           \A d \in M \ {m.head["free"]} : m.chunk[d].used_count # 0,
           turn \in 0 .. 1, HandOut(m), mapped' = M, created, created' = created
    PROVE  /\ MInv'
           /\ \E p \in Items : p \notin held /\ held' = held \cup {p} /\ item' = p
           /\ turn' = 1 - turn
<1> DEFINE c == m.head["free"]
           i == m.chunk[c].free_list
           m2 == WriteTo(Take(m), c, i)
           p == ItemAt(c, i)
<1>1. /\ head' = m2.head /\ chunk' = m2.chunk /\ item' = p
      /\ held' = held \cup {p} /\ turn' = 1 - turn
  BY DEF HandOut, Becomes, WriteTo
<1>2. /\ c \in M /\ p \notin held /\ p \in Items
      /\ Consistent(m2, M, held \cup {p})
      /\ \A d \in M \ {c} : m2.chunk[d].used_count = m.chunk[d].used_count
      /\ m2.chunk[c].used_count = m.chunk[c].used_count + 1
  BY TakeIsConsistent
<1>3. m \in MemoryType /\ M \in SUBSET Chunks
  BY DEF Consistent
<1> HIDE DEF m2, p, c
<1>4. m2 \in MemoryType
  BY <1>2 DEF Consistent
<1>5. /\ Memory' = m2 /\ head' \in [Lists -> Chunks \cup {NULL}]
      /\ chunk' \in [Chunks -> ChunkType]
  BY <1>1, <1>4, MemoryIs
<1>6. m.chunk[c].used_count \in Nat
  <2>1. m.chunk[c] \in ChunkType
    BY <1>2, <1>3 DEF MemoryType
  <2> QED  BY <2>1, CapacityType DEF ChunkType
<1>7. \A d \in M : chunk'[d].used_count # 0
  BY <1>1, <1>2, <1>6 DEF c
<1>8. Consistent(Memory', mapped', held')
  BY <1>1, <1>2, <1>5
<1> QED  BY <1>1, <1>2, <1>5, <1>7, <1>8 DEF MInv, NothingYet

\* chunked_allocator_create maps one chunk.
LEMMA CreateInv == MInv /\ Create => MInv'
<1> SUFFICES ASSUME MInv, Create PROVE MInv'
  OBVIOUS
<1>1. mapped = {} /\ held = {}
  BY DEF MInv, NothingYet, Create
<1>2. head' \in [Lists -> Chunks \cup {NULL}] /\ \A list \in Lists : head'[list] = NULL
  BY DEF Create, Lists
<1>3. Memory' \in MemoryType /\ Memory'.head = head' /\ chunk' \in [Chunks -> ChunkType]
  BY <1>2 DEF Memory, MemoryType, Create, MInv
<1>4. Consistent(Memory', mapped', held')
  BY <1>1, <1>2, <1>3, EmptyIsConsistent DEF Create
<1> QED  BY <1>1, <1>2, <1>3, <1>4 DEF MInv, NothingYet, Create

\* An allocation from a chunk that has a free item.
LEMMA AllocFromChunkInv ==
    ASSUME MInv, AllocFromChunk
    PROVE  /\ MInv'
           /\ \E p \in Items : p \notin held /\ held' = held \cup {p} /\ item' = p
           /\ turn' = 1 - turn
<1>1. /\ Consistent(Memory, mapped, held) /\ Memory.head["free"] # NULL
      /\ \A d \in mapped : Memory.chunk[d].used_count # 0
      /\ HandOut(Memory) /\ mapped' = mapped /\ created /\ created' = created /\ turn \in 0 .. 1
  BY DEF MInv, AllocFromChunk, Memory
<1> QED  BY <1>1, HandOutInv

\* An allocation that maps a new chunk.
LEMMA AllocFromNewChunkInv ==
    ASSUME MInv, NEW c \in Chunks, AllocFromNewChunk(c)
    PROVE  /\ MInv'
           /\ \E p \in Items : p \notin held /\ held' = held \cup {p} /\ item' = p
           /\ turn' = 1 - turn
<1> DEFINE m == ListPrepend(SetChunk(Memory, c, FreshChunk), "free", c)
           M == mapped \cup {c}
<1>1. /\ Consistent(Memory, mapped, held) /\ c \in Chunks \ mapped
      /\ \A d \in mapped : Memory.chunk[d].used_count # 0
      /\ HandOut(m) /\ mapped' = M /\ created /\ created' = created /\ turn \in 0 .. 1
  BY DEF MInv, AllocFromNewChunk, Memory, SetChunk
<1>2. /\ Consistent(m, M, held) /\ m.head["free"] = c
      /\ \A d \in mapped : m.chunk[d].used_count = Memory.chunk[d].used_count
  BY <1>1, NewChunkIsConsistent
<1>3. c # NULL
  BY NullIsNoChunk
<1> HIDE DEF m
<1> QED  BY <1>1, <1>2, <1>3, HandOutInv

\* An allocation for which there is no memory.
LEMMA AllocFailsInv == MInv /\ AllocFails => MInv'
<1> SUFFICES ASSUME MInv, AllocFails PROVE MInv'
  OBVIOUS
<1>1. Memory' = Memory /\ mapped' = mapped /\ held' = held
  BY DEF Memory, AllocFails
<1> QED  BY <1>1 DEF MInv, NothingYet, AllocFails

\* A free.
LEMMA FreeInv == ASSUME MInv, NEW p \in Items, Free(p) PROVE MInv'
<1> DEFINE m == Put(Memory, p)
           c == ChunkOf(p)
           d == SetChunk(ListRemove(m, "free", c), c, Unmapped)
           H == held \ {p}
<1>1. /\ p \in held /\ held' = H /\ item' = NULL /\ turn' = 1 - turn /\ created' = created
      /\ IF Unused(m, c) THEN head' = d.head /\ chunk' = d.chunk /\ mapped' = mapped \ {c}
         ELSE head' = m.head /\ chunk' = m.chunk /\ mapped' = mapped
  BY DEF Free, Becomes, SetChunk
<1>2. /\ Consistent(Memory, mapped, held) /\ turn \in 0 .. 1
      /\ \A e \in mapped : Memory.chunk[e].used_count # 0
  BY DEF MInv, Memory
<1>3. /\ c \in mapped /\ Consistent(m, mapped, H)
      /\ \A e \in mapped \ {c} : m.chunk[e].used_count = Memory.chunk[e].used_count
  BY <1>1, <1>2, PutIsConsistent
<1> HIDE DEF m
<1>4. created /\ created' = TRUE
  BY <1>1 DEF MInv, NothingYet
<1>5. CASE Unused(m, c)
  <2>1. m.chunk[c].used_count = 0
    BY <1>5 DEF Unused
  <2>2. /\ Consistent(d, mapped \ {c}, H)
        /\ \A e \in mapped \ {c} : d.chunk[e].used_count = m.chunk[e].used_count
    BY <1>3, <2>1, DropIsConsistent
  <2> HIDE DEF d
  <2>3. d \in MemoryType
    BY <2>2 DEF Consistent
  <2>4. /\ Memory' = d /\ head' \in [Lists -> Chunks \cup {NULL}]
        /\ chunk' \in [Chunks -> ChunkType]
    BY <1>1, <1>5, <2>3, MemoryIs
  <2>5. \A e \in mapped' : chunk'[e].used_count # 0
    BY <1>1, <1>2, <1>3, <1>5, <2>2
  <2>6. Consistent(Memory', mapped', held')
    BY <1>1, <1>5, <2>2, <2>4
  <2>7. item' \in Items \cup {NULL} /\ turn' \in 0 .. 1
    BY <1>1, <1>2
  <2> QED  BY <1>4, <2>4, <2>5, <2>6, <2>7 DEF MInv, NothingYet
<1>6. CASE ~Unused(m, c)
  <2>1. m \in MemoryType
    BY <1>3 DEF Consistent
  <2>2. /\ Memory' = m /\ head' \in [Lists -> Chunks \cup {NULL}]
        /\ chunk' \in [Chunks -> ChunkType]
    BY <1>1, <1>6, <2>1, MemoryIs
  <2>3. \A e \in mapped' : chunk'[e].used_count # 0
    BY <1>1, <1>2, <1>3, <1>6 DEF Unused
  <2>4. Consistent(Memory', mapped', held')
    BY <1>1, <1>3, <1>6, <2>2
  <2>5. item' \in Items \cup {NULL} /\ turn' \in 0 .. 1
    BY <1>1, <1>2
  <2> QED  BY <1>4, <2>2, <2>3, <2>4, <2>5 DEF MInv, NothingYet
<1> QED  BY <1>5, <1>6

\* chunked_allocator_destroy unmaps every chunk.
LEMMA DestroyInv == MInv /\ Destroy => MInv'
<1> SUFFICES ASSUME MInv, Destroy PROVE MInv'
  OBVIOUS
<1>1. head' \in [Lists -> Chunks \cup {NULL}] /\ \A list \in Lists : head'[list] = NULL
  BY DEF Destroy, Lists
<1>2. chunk' \in [Chunks -> ChunkType]
  BY UnmappedType DEF Destroy
<1>3. Memory' \in MemoryType /\ Memory'.head = head'
  BY <1>1, <1>2 DEF Memory, MemoryType
<1>4. Consistent(Memory', mapped', held')
  BY <1>1, <1>3, EmptyIsConsistent DEF Destroy
<1> QED  BY <1>1, <1>2, <1>4 DEF Destroy, MInv, NothingYet

\* Every step keeps the invariant.
LEMMA StepInv == MInv /\ [Next]_vars => MInv'
<1> SUFFICES ASSUME MInv, [Next]_vars PROVE MInv'
  OBVIOUS
<1>1. CASE UNCHANGED vars
  <2>1. Memory' = Memory
    BY <1>1 DEF Memory, vars
  <2> QED  BY <1>1, <2>1 DEF MInv, NothingYet, vars
<1>2. CASE \E c \in Chunks : AllocFromNewChunk(c)
  BY <1>2, AllocFromNewChunkInv
<1>3. CASE \E p \in Items : Free(p)
  BY <1>3, FreeInv
<1> QED
  BY <1>1, <1>2, <1>3, CreateInv, AllocFromChunkInv, AllocFailsInv, DestroyInv DEF Next

-----------------------------------------------------------------------------
(* The theorems.                                                            *)

\* The inductive invariant.
THEOREM Invariance == Spec => []IInv
<1>1. Spec => []MInv
  BY InitInv, StepInv, PTL DEF Spec
<1> QED  BY <1>1, InvariantIsConsistent, PTL

\* Type correctness.
THEOREM TypeCorrect == Spec => []TypeOK
<1>1. IInv => TypeOK
  BY DEF IInv
<1> QED  BY <1>1, Invariance, PTL

\* The free list of every chunk visits exactly the items nobody holds, and every chunk
\* is on the one list it belongs to (Allocator_alloc, Allocator_free).
THEOREM ListsStaySound == Spec => []AllListsSound
<1>1. IInv => AllListsSound
  BY DEF IInv
<1> QED  BY <1>1, Invariance, PTL

\* Once every item has been freed no chunk is left on a list (Allocator_destroy).
THEOREM NothingIsKept == Spec => []NothingKept
<1>1. MInv => NothingKept
  <2> SUFFICES ASSUME MInv, held = {} PROVE mapped = {} /\ \A list \in Lists : head[list] = NULL
    BY DEF NothingKept, MInv
  <2>1. Consistent(Memory, mapped, held) /\ \A c \in mapped : chunk[c].used_count # 0
    BY DEF MInv
  <2>2. ASSUME NEW c \in mapped PROVE FALSE
    <3>1. SoundChunk(chunk[c], FreeOf(held, c))
      BY <2>1 DEF Consistent, Memory
    <3>2. FreeOf(held, c) = Slots /\ Slots \in SUBSET Slots
      BY DEF FreeOf
    <3> QED  BY <2>1, <3>1, <3>2, SoundChunkCounts
  <2>3. mapped = {}
    BY <2>2
  <2>4. \A list \in Lists : Memory.head[list] = NULL
    BY <2>1, <2>3, NothingListed
  <2> QED  BY <2>3, <2>4 DEF Memory
<1>2. IInv => NothingKept
  BY <1>1, InvariantIsConsistent
<1> QED  BY <1>2, Invariance, PTL

\* The allocator is a pool of items: it never hands out an item that is held, and a
\* failed allocation changes nothing that its client sees.
THEOREM AllocatorIsAPool == Spec => ImplementsPool
<1>1. Init => ItemPool!Init
  BY DEF Init, ItemPool!Init
<1>2. MInv /\ [Next]_vars => [ItemPool!Next]_<<held, item, turn>>
  <2> SUFFICES ASSUME MInv, [Next]_vars PROVE [ItemPool!Next]_<<held, item, turn>>
    OBVIOUS
  <2>1. CASE UNCHANGED vars
    BY <2>1 DEF vars
  <2>2. CASE Create \/ Destroy
    BY <2>2 DEF Create, Destroy
  <2>3. CASE AllocFails
    BY <2>3 DEF AllocFails, ItemPool!Next, ItemPool!AllocFails
  <2>4. CASE AllocFromChunk
    BY <2>4, AllocFromChunkInv DEF ItemPool!Next, ItemPool!Alloc
  <2>5. ASSUME NEW c \in Chunks, AllocFromNewChunk(c) PROVE ItemPool!Next
    BY <2>5, AllocFromNewChunkInv DEF ItemPool!Next, ItemPool!Alloc
  <2>6. ASSUME NEW p \in Items, Free(p) PROVE ItemPool!Next
    BY <2>6 DEF Free, ItemPool!Next, ItemPool!Free
  <2> QED  BY <2>1, <2>2, <2>3, <2>4, <2>5, <2>6 DEF Next
<1>3. Spec => []MInv
  BY InitInv, StepInv, PTL DEF Spec
<1> QED  BY <1>1, <1>2, <1>3, PTL DEF Spec, ImplementsPool, ItemPool!Spec

=============================================================================
