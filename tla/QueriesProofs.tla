---------------------------- MODULE QueriesProofs -----------------------------
(***************************************************************************)
(* The commands that print records list what matches, each record once, in  *)
(* order and with its own ID, and the summary is that of the records that   *)
(* match: for any records and conditions.  What quicksort does when it is   *)
(* called is proved first, of SortSpec, quicksort by itself.                *)
(***************************************************************************)
EXTENDS Queries, SequenceTheorems, FiniteSetTheorems, WellFoundedInduction, TLAPS

-----------------------------------------------------------------------------
(* quicksort sorts: for arrays of every length and every comparator that is *)
(* an order.  Where it reads and writes, how deep it goes and that it loses *)
(* no item does not depend on the comparator.                               *)

Frames == [base : Nat, len : Nat, pivot : Nat, right : BOOLEAN]

Types ==
    /\ size \in Nat /\ arr \in Arrays(size) /\ original \in Arrays(size)
    /\ udata \in Order
    /\ calls \in Seq(Frames)
    /\ base \in Nat /\ len \in Nat /\ base + len <= size
    /\ head \in Int /\ tail \in Int
    /\ at \in {"idle", "entered", "loop", "head", "tail", "place", "returned"}
    /\ at = "idle" => calls = <<>>

Cutting == at \in {"loop", "head", "tail", "place"}

Active == Cutting \/ at = "entered"

\* The part that the recursive call of a frame sorts.
From(c) == IF c.right THEN c.pivot + 1 ELSE c.base
Upto(c) == IF c.right THEN c.base + c.len ELSE c.pivot

\* The part of the call that is k calls deep: from the first index to before the second.
FromAt(k) == IF k = 0 THEN 0 ELSE From(calls[k])
UptoAt(k) == IF k = 0 THEN size ELSE Upto(calls[k])

FrameOK(c) ==
    /\ c.len >= 2 /\ c.base <= c.pivot /\ c.pivot < c.base + c.len /\ c.base + c.len <= size

Nested ==
    /\ \A k \in 1 .. Len(calls) :
          /\ FrameOK(calls[k])
          /\ calls[k].base = FromAt(k - 1) /\ calls[k].base + calls[k].len = UptoAt(k - 1)
          /\ calls[k].len + k <= size + 1
    /\ \A j, k \in 1 .. Len(calls) : j < k =>
          From(calls[j]) <= calls[k].base /\ calls[k].base + calls[k].len <= Upto(calls[j])
    /\ Active => base = FromAt(Len(calls)) /\ base + len = UptoAt(Len(calls))

Cursors ==
    /\ Cutting => /\ len >= 2 /\ base <= head /\ head < pivot /\ base <= tail /\ tail < pivot
                  /\ head <= tail + 1
    /\ at \in {"head", "tail"} => head <= tail
    /\ at = "place" => head >= tail

Shape == Types /\ Nested /\ Cursors

-----------------------------------------------------------------------------
(* Swapping two items.                                                      *)

\* swap exchanges two items.
LEMMA SwapShape ==
    ASSUME NEW n \in Nat, NEW a \in Arrays(n), NEW i \in 0 .. n - 1, NEW j \in 0 .. n - 1
    PROVE  /\ Swap(a, i, j) \in Arrays(n)
           /\ \A k \in 0 .. n - 1 :
                 Swap(a, i, j)[k] = IF k = j THEN a[i] ELSE IF k = i THEN a[j] ELSE a[k]
BY DEF Swap, Arrays

\* It loses none.
LEMMA SwapItems ==
    ASSUME NEW n \in Nat, NEW a \in Arrays(n), NEW i \in 0 .. n - 1, NEW j \in 0 .. n - 1
    PROVE  Items(Swap(a, i, j)) = Items(a)
<1> DEFINE b == Swap(a, i, j)
<1>1. DOMAIN a = 0 .. n - 1 /\ DOMAIN b = 0 .. n - 1
  BY SwapShape DEF Arrays
<1>2. ASSUME NEW k \in 0 .. n - 1 PROVE \E l \in 0 .. n - 1 : b[k] = a[l]
  BY SwapShape
<1>3. ASSUME NEW k \in 0 .. n - 1 PROVE \E l \in 0 .. n - 1 : a[k] = b[l]
  <2>1. CASE k = i
    BY <2>1, SwapShape
  <2>2. CASE k = j
    BY <2>2, SwapShape
  <2>3. CASE k # i /\ k # j
    BY <2>3, SwapShape
  <2> QED  BY <2>1, <2>2, <2>3
<1>4. Items(b) \subseteq Items(a) /\ Items(a) \subseteq Items(b)
  <2> HIDE DEF b
  <2>1. ASSUME NEW v \in Items(b) PROVE v \in Items(a)
    <3>1. PICK k \in 0 .. n - 1 : v = b[k]
      BY <1>1, <2>1 DEF Items
    <3>2. PICK l \in 0 .. n - 1 : b[k] = a[l]
      BY <1>2
    <3> QED  BY <1>1, <3>1, <3>2 DEF Items
  <2>2. ASSUME NEW v \in Items(a) PROVE v \in Items(b)
    <3>1. PICK k \in 0 .. n - 1 : v = a[k]
      BY <1>1, <2>2 DEF Items
    <3>2. PICK l \in 0 .. n - 1 : a[k] = b[l]
      BY <1>3
    <3> QED  BY <1>1, <3>1, <3>2 DEF Items
  <2> QED  BY <2>1, <2>2
<1> QED  BY <1>4

\* It makes none the equal of another.
LEMMA SwapDistinct ==
    ASSUME NEW n \in Nat, NEW a \in Arrays(n), NEW i \in 0 .. n - 1, NEW j \in 0 .. n - 1,
           Distinct(a)
    PROVE  Distinct(Swap(a, i, j))
<1> DEFINE b == Swap(a, i, j)
           old(k) == IF k = j THEN i ELSE IF k = i THEN j ELSE k
<1>1. DOMAIN a = 0 .. n - 1 /\ DOMAIN b = 0 .. n - 1
  BY SwapShape DEF Arrays
<1>2. \A k \in 0 .. n - 1 : old(k) \in 0 .. n - 1 /\ b[k] = a[old(k)]
  BY SwapShape
<1>3. \A k, l \in 0 .. n - 1 : old(k) = old(l) => k = l
  OBVIOUS
<1> QED  BY <1>1, <1>2, <1>3 DEF Distinct

\* A sequence without its last element.
LEMMA ButLast ==
    ASSUME NEW S, NEW s \in Seq(S), s # <<>>
    PROVE  LET t == SubSeq(s, 1, Len(s) - 1) IN
           /\ t \in Seq(S) /\ Len(t) = Len(s) - 1 /\ Len(t) \in Nat
           /\ \A k \in 1 .. Len(t) : t[k] = s[k]
<1>1. Len(s) \in Nat \ {0} /\ \A k \in 1 .. Len(s) - 1 : s[k] \in S
  OBVIOUS
<1> DEFINE n == Len(s) - 1
           t == SubSeq(s, 1, n)
<1>2. n \in Nat /\ \A k \in 1 .. n : s[k] \in S
  BY <1>1
<1> HIDE DEF n
<1>3. /\ t \in Seq(S)
      /\ Len(t) = IF 1 <= n THEN n - 1 + 1 ELSE 0
      /\ \A k \in 1 .. n - 1 + 1 : t[k] = s[1 + k - 1]
  BY <1>2, SubSeqProperties
<1> HIDE DEF t
<1>4. Len(t) = n /\ \A k \in 1 .. n : t[k] = s[k]
  BY <1>2, <1>3
<1> QED  BY <1>2, <1>3, <1>4 DEF n, t

\* The part of a recursive call lies in the part of its caller and leaves the pivot out.
LEMMA FrameSub ==
    ASSUME NEW c \in Frames
    PROVE  /\ c.base \in Nat /\ c.len \in Nat /\ c.pivot \in Nat /\ c.right \in BOOLEAN
           /\ From(c) \in Nat /\ Upto(c) \in Nat
           /\ FrameOK(c) => /\ c.base <= From(c) /\ Upto(c) <= c.base + c.len
                            /\ Upto(c) - From(c) < c.len
BY DEF Frames, From, Upto, FrameOK

-----------------------------------------------------------------------------
(* Every step keeps the shape.                                               *)

\* No sort has been called at first.
LEMMA InitShape == SortInit => Shape
BY DEF SortInit, Shape, Types, Nested, Cursors, NoArray, Arrays, Active, Cutting

\* The nesting of the calls does not depend on the cursors.
LEMMA NestedKept ==
    ASSUME Nested, UNCHANGED <<calls, size>>, Active' => Active /\ UNCHANGED <<base, len>>
    PROVE  Nested'
<1>1. \A k : FromAt(k)' = FromAt(k) /\ UptoAt(k)' = UptoAt(k)
  BY DEF FromAt, UptoAt
<1>2. \A c : FrameOK(c)' <=> FrameOK(c)
  BY DEF FrameOK
<1>3. Active' => base' = FromAt(Len(calls)) /\ base' + len' = UptoAt(Len(calls))
  BY DEF Nested
<1> QED  BY <1>1, <1>2, <1>3 DEF Nested

\* Every step of the sort keeps the shape of its calls.
LEMMA StepShape == Shape /\ [SortNext]_sortVars => Shape'
<1> SUFFICES ASSUME Shape, [SortNext]_sortVars PROVE Shape'
  OBVIOUS
<1> USE DEF Shape
<1>1. ASSUME NEW n \in Nat, NEW u \in Order, NEW a \in Arrays(n), Call(a, n, u) PROVE Shape'
  BY <1>1 DEF Call, Enter, Types, Nested, Cursors, Active, Cutting, FromAt, UptoAt
<1>2. CASE BaseCase
  <2>1. Nested'
    BY <1>2, NestedKept DEF BaseCase, Active, Cutting
  <2>2. Types' /\ Cursors'
    BY <1>2 DEF BaseCase, Types, Cursors, Cutting, pivot
  <2> QED  BY <2>1, <2>2
<1>3. CASE Begin
  <2>1. Nested'
    BY <1>3, NestedKept DEF Begin, Active, Cutting
  <2>2. Types' /\ Cursors'
    BY <1>3 DEF Begin, Types, Cursors, Cutting, pivot
  <2> QED  BY <2>1, <2>2
<1>4. CASE Loop
  <2>1. Nested'
    BY <1>4, NestedKept DEF Loop, Active, Cutting
  <2>2. Types' /\ Cursors'
    BY <1>4 DEF Loop, Types, Cursors, Cutting, pivot
  <2> QED  BY <2>1, <2>2
<1>5. CASE MoveHead
  <2>1. Nested'
    BY <1>5, NestedKept DEF MoveHead, Active, Cutting
  <2>2. Types' /\ Cursors'
    BY <1>5 DEF MoveHead, Types, Cursors, Cutting, pivot
  <2> QED  BY <2>1, <2>2
<1>6. CASE MoveTail
  <2>1. Nested'
    BY <1>6, NestedKept DEF MoveTail, Active, Cutting
  <2>2. Types' /\ Cursors'
    BY <1>6 DEF MoveTail, Types, Cursors, Cutting, pivot
  <2> QED  BY <2>1, <2>2
<1>7. CASE Meet
  <2>1. Nested'
    BY <1>7, NestedKept DEF Meet, Active, Cutting
  <2>2. Types' /\ Cursors'
    BY <1>7 DEF Meet, Types, Cursors, Cutting, pivot
  <2> QED  BY <2>1, <2>2
<1>8. CASE SwapEnds
  <2>1. arr' \in Arrays(size)
    BY <1>8, SwapShape DEF SwapEnds, Types, Cursors, Cutting, pivot
  <2>2. Nested'
    BY <1>8, NestedKept DEF SwapEnds, Active, Cutting
  <2>3. Types' /\ Cursors'
    BY <1>8, <2>1 DEF SwapEnds, Types, Cursors, Cutting, pivot
  <2> QED  BY <2>2, <2>3
<1>9. CASE Place
  <2> DEFINE p == PivotPlace
  <2>1. p \in base .. pivot /\ pivot \in 0 .. size - 1 /\ p \in 0 .. size - 1
    BY <1>9 DEF Place, PivotPlace, Types, Cursors, Cutting, pivot
  <2>2. arr' \in Arrays(size)
    BY <1>9, <2>1, SwapShape DEF Place, Types
  <2>3. /\ Frame(p) \in Frames /\ Frame(p).base = base /\ Frame(p).len = len
        /\ Frame(p).pivot = p /\ ~Frame(p).right
    BY <2>1 DEF Frame, Frames, Types, pivot
  <2>4. /\ calls' \in Seq(Frames) /\ Len(calls') = Len(calls) + 1
        /\ calls'[Len(calls) + 1] = Frame(p)
        /\ \A k \in 1 .. Len(calls) : calls'[k] = calls[k]
    BY <1>9, <2>3 DEF Place, Types
  <2>5. len >= 2 /\ base' = base /\ len' = p - base /\ at' = "entered" /\ size' = size
    BY <1>9 DEF Place, Enter, Cursors, Cutting
  <2>6. base = FromAt(Len(calls)) /\ base + len = UptoAt(Len(calls))
    BY <1>9 DEF Place, Nested, Active, Cutting
  <2>7. Types'
    BY <1>9, <2>1, <2>2, <2>4, <2>5 DEF Place, Types, pivot
  <2>8. ASSUME NEW k \in 1 .. Len(calls')
        PROVE  /\ FrameOK(calls[k])'
               /\ calls'[k].base = FromAt(k - 1)' /\ calls'[k].base + calls'[k].len = UptoAt(k - 1)'
               /\ calls'[k].len + k <= size' + 1
    <3>1. CASE k \in 1 .. Len(calls)
      BY <2>4, <2>5, <3>1 DEF Nested, FromAt, UptoAt, From, Upto, FrameOK
    <3>2. CASE k = Len(calls) + 1
      <4>1. FrameOK(Frame(p))
        BY <2>1, <2>3, <2>5 DEF FrameOK, Types, pivot
      <4>2. base = FromAt(k - 1)' /\ base + len = UptoAt(k - 1)'
        BY <2>4, <2>5, <2>6, <3>2 DEF FromAt, UptoAt, Types
      <4>3. len + k <= size + 1
        <5>1. CASE Len(calls) = 0
          BY <2>5, <3>2, <5>1 DEF Types
        <5>2. CASE Len(calls) # 0
          <6> DEFINE c == calls[Len(calls)]
          <6>1. c \in Frames /\ FrameOK(c) /\ c.len + Len(calls) <= size + 1
            BY <5>2 DEF Nested, Types
          <6>2. base = From(c) /\ base + len = Upto(c)
            BY <2>6, <5>2 DEF FromAt, UptoAt
          <6> HIDE DEF c
          <6>3. From(c) \in Nat /\ Upto(c) \in Nat /\ c.len \in Nat /\ Upto(c) - From(c) < c.len
            BY <6>1, FrameSub
          <6>4. c.len + Len(calls) <= size + 1
            BY <6>1
          <6>5. len < c.len
            BY <6>2, <6>3 DEF Types
          <6>6. size \in Nat /\ len \in Nat /\ Len(calls) \in Nat
            BY DEF Types
          <6> QED  BY ONLY <3>2, <6>3, <6>4, <6>5, <6>6
        <5> QED  BY <5>1, <5>2
      <4>4. calls'[k] = Frame(p)
        BY <2>4, <3>2
      <4>5. FrameOK(calls[k])'
        BY <2>5, <4>1, <4>4 DEF FrameOK
      <4> QED  BY <2>3, <2>5, <4>2, <4>3, <4>4, <4>5
    <3> QED  BY <2>4, <3>1, <3>2 DEF Types
  <2>9. ASSUME NEW j \in 1 .. Len(calls'), NEW k \in 1 .. Len(calls'), j < k
        PROVE  From(calls'[j]) <= calls'[k].base /\ calls'[k].base + calls'[k].len <= Upto(calls'[j])
    <3>1. CASE k \in 1 .. Len(calls)
      BY <2>4, <2>9, <3>1 DEF Nested, Types
    <3>2. CASE k = Len(calls) + 1
      <4>1. j \in 1 .. Len(calls) /\ calls'[j] = calls[j]
        BY <2>4, <2>9, <3>2 DEF Types
      <4>2. CASE j = Len(calls)
        <5>1. calls'[k] = Frame(p) /\ calls'[j] = calls[j]
          BY <2>4, <3>2, <4>1
        <5>2. base = From(calls[j]) /\ base + len = Upto(calls[j]) /\ base \in Nat /\ len \in Nat
          BY <2>6, <4>1, <4>2 DEF FromAt, UptoAt, Types
        <5> QED  BY <2>3, <5>1, <5>2
      <4>3. CASE j < Len(calls)
        <5> DEFINE c == calls[Len(calls)]
        <5>1. c \in Frames /\ FrameOK(c) /\ calls[j] \in Frames
          BY <4>1 DEF Nested, Types
        <5>2. From(calls[j]) <= c.base /\ c.base + c.len <= Upto(calls[j])
          BY <4>1, <4>3 DEF Nested, Types
        <5>3. base = From(c) /\ base + len = Upto(c)
          BY <2>6, <4>1 DEF FromAt, UptoAt
        <5>4. From(calls[j]) <= base /\ base + len <= Upto(calls[j])
          <6> HIDE DEF c
          <6>1. From(c) \in Nat /\ Upto(c) \in Nat /\ c.base \in Nat /\ c.len \in Nat
            BY <5>1, FrameSub
          <6>2. c.base <= From(c) /\ Upto(c) <= c.base + c.len
            BY <5>1, FrameSub
          <6>3. From(calls[j]) \in Nat /\ Upto(calls[j]) \in Nat
            BY <5>1, FrameSub
          <6> QED  BY <5>2, <5>3, <6>1, <6>2, <6>3
        <5>5. calls'[k] = Frame(p) /\ calls'[j] = calls[j]
          BY <2>4, <3>2, <4>1
        <5> QED  BY <2>3, <5>4, <5>5
      <4> QED  BY <4>1, <4>2, <4>3 DEF Types
    <3> QED  BY <2>4, <3>1, <3>2 DEF Types
  <2>10. base' = FromAt(Len(calls))' /\ base' + len' = UptoAt(Len(calls))'
    BY <2>1, <2>3, <2>4, <2>5 DEF FromAt, UptoAt, From, Upto, Types, pivot
  <2>11. Nested'
    BY <2>8, <2>9, <2>10 DEF Nested
  <2> QED  BY <2>5, <2>7, <2>11 DEF Cursors, Cutting
<1>10. CASE SortRight
  <2> DEFINE n == Len(calls)
             c == calls[n]
             d == [c EXCEPT !.right = TRUE]
  <2>1. n \in Nat \ {0} /\ c \in Frames /\ ~c.right /\ FrameOK(c)
    <3>1. n \in Nat \ {0} /\ c \in Frames
      BY <1>10 DEF SortRight, Types
    <3> QED  BY <1>10, <3>1 DEF SortRight, Caller, Nested
  <2>2. d \in Frames /\ d.base = c.base /\ d.len = c.len /\ d.pivot = c.pivot /\ d.right
    BY <2>1 DEF Frames
  <2>3. calls' = [calls EXCEPT ![n] = d]
    BY <1>10 DEF SortRight, Caller
  <2>4. calls' \in Seq(Frames) /\ Len(calls') = n
    <3> HIDE DEF d
    <3> QED  BY <2>1, <2>2, <2>3 DEF Types
  <2>5. calls'[n] = d /\ \A k \in 1 .. n - 1 : calls'[k] = calls[k]
    <3> HIDE DEF d
    <3> QED  BY <2>1, <2>3 DEF Types
  <2>6. base' = c.pivot + 1 /\ len' = c.len - (c.pivot - c.base) - 1 /\ at' = "entered" /\ size' = size
    BY <1>10 DEF SortRight, Enter, RightPart, Caller
  <2> HIDE DEF d
  <2>7. base' \in Nat /\ len' \in Nat /\ base' + len' = c.base + c.len /\ base' + len' <= size
    <3> HIDE DEF c
    <3>1. c.base \in Nat /\ c.len \in Nat /\ c.pivot \in Nat
      BY <2>1, FrameSub
    <3>2. size \in Nat
      BY DEF Types
    <3>3. c.base <= c.pivot /\ c.pivot < c.base + c.len /\ c.base + c.len <= size
      BY <2>1 DEF FrameOK
    <3> QED  BY ONLY <2>6, <3>1, <3>2, <3>3
  <2>8. Types'
    BY <1>10, <2>4, <2>6, <2>7 DEF SortRight, Types
  <2>9. \A k \in 1 .. n : /\ calls'[k].base = calls[k].base /\ calls'[k].len = calls[k].len
                          /\ calls'[k].pivot = calls[k].pivot
    BY <2>1, <2>2, <2>5
  <2>10. ASSUME NEW k \in 1 .. n
         PROVE  /\ FrameOK(calls[k])'
                /\ calls'[k].base = FromAt(k - 1)' /\ calls'[k].base + calls'[k].len = UptoAt(k - 1)'
                /\ calls'[k].len + k <= size' + 1
    <3>1. FromAt(k - 1)' = FromAt(k - 1) /\ UptoAt(k - 1)' = UptoAt(k - 1)
      BY <2>1, <2>5, <2>6 DEF FromAt, UptoAt
    <3>2. FrameOK(calls[k]) => FrameOK(calls[k])'
      BY <2>6, <2>9 DEF FrameOK
    <3> QED  BY <2>6, <2>9, <3>1, <3>2 DEF Nested
  <2>11. ASSUME NEW j \in 1 .. n, NEW k \in 1 .. n, j < k
         PROVE  From(calls'[j]) <= calls'[k].base /\ calls'[k].base + calls'[k].len <= Upto(calls'[j])
    <3>1. calls'[j] = calls[j]
      BY <2>1, <2>5, <2>11
    <3> QED  BY <2>9, <2>11, <3>1 DEF Nested
  <2>12. base' = FromAt(Len(calls))' /\ base' + len' = UptoAt(Len(calls))'
    <3>1. From(d) = c.pivot + 1 /\ Upto(d) = c.base + c.len
      BY <2>2 DEF From, Upto
    <3> QED  BY <2>1, <2>4, <2>5, <2>6, <2>7, <3>1 DEF FromAt, UptoAt
  <2>13. Nested'
    BY <2>4, <2>10, <2>11, <2>12 DEF Nested
  <2> QED  BY <2>6, <2>8, <2>13 DEF Cursors, Cutting
<1>11. CASE Return
  <2>1. /\ calls' \in Seq(Frames) /\ Len(calls') = Len(calls) - 1 /\ Len(calls') \in Nat
        /\ \A k \in 1 .. Len(calls') : calls'[k] = calls[k]
    <3>1. Len(calls) \in Nat \ {0}
      BY <1>11 DEF Return, Types
    <3> QED  BY <1>11, <3>1, ButLast DEF Return, Types
  <2>2. Types'
    BY <1>11, <2>1 DEF Return, Types
  <2>3. Nested'
    <3>1. size' = size /\ ~Active' /\ Len(calls) \in Nat
      BY <1>11 DEF Return, Active, Cutting, Types
    <3>2. ASSUME NEW k \in 1 .. Len(calls')
          PROVE  /\ FrameOK(calls[k])' = FrameOK(calls[k]) /\ k \in 1 .. Len(calls)
                 /\ FromAt(k - 1)' = FromAt(k - 1) /\ UptoAt(k - 1)' = UptoAt(k - 1)
      BY <2>1, <3>1 DEF FrameOK, FromAt, UptoAt
    <3> QED  BY <2>1, <3>1, <3>2 DEF Nested
  <2> QED  BY <1>11, <2>2, <2>3 DEF Return, Cursors, Cutting
<1>12. CASE Finish
  BY <1>12 DEF Finish, Outermost, Types, Nested, Cursors, Active, Cutting, NoArray, Arrays, FrameOK
<1>13. CASE UNCHANGED sortVars
  <2>1. Nested'
    BY <1>13, NestedKept DEF sortVars, Active, Cutting
  <2> QED  BY <1>13, <2>1 DEF sortVars, Types, Cursors, Cutting, pivot
<1> QED  BY <1>1, <1>2, <1>3, <1>4, <1>5, <1>6, <1>7, <1>8, <1>9, <1>10, <1>11, <1>12, <1>13
         DEF SortNext, SortStep

\* Every index that is used lies in the part of the call, with any comparator: quicksort
\* never reads or writes outside of its array.
THEOREM BoundsCorrect == SortSpec => []InBounds
<1>1. Shape => InBounds
  BY DEF Shape, Types, Cursors, Cutting, InBounds
<1> QED  BY InitShape, StepShape, <1>1, PTL DEF SortSpec

\* The recursion is less deep than the array is long, with any comparator.
THEOREM DepthCorrect == SortSpec => []DepthBelowLength
<1>1. Shape => DepthBelowLength
  <2> SUFFICES ASSUME Shape PROVE DepthBelowLength
    OBVIOUS
  <2>1. size \in Nat /\ Len(calls) \in Nat
    BY DEF Shape, Types
  <2>2. CASE Len(calls) = 0
    BY <2>1, <2>2 DEF DepthBelowLength
  <2>3. CASE Len(calls) # 0
    <3> DEFINE c == calls[Len(calls)]
    <3>1. c \in Frames
      BY <2>1, <2>3 DEF Shape, Types
    <3>2. FrameOK(c) /\ c.len + Len(calls) <= size + 1
      BY <2>1, <2>3 DEF Shape, Nested
    <3> HIDE DEF c
    <3>3. c.len \in Nat /\ c.base \in Nat
      BY <3>1, FrameSub
    <3>4. c.len >= 2 /\ c.base + c.len <= size
      BY <3>2 DEF FrameOK
    <3> QED  BY ONLY <2>1, <3>2, <3>3, <3>4 DEF DepthBelowLength
  <2> QED  BY <2>2, <2>3
<1> QED  BY InitShape, StepShape, <1>1, PTL DEF SortSpec

-----------------------------------------------------------------------------
(* The array is changed by swaps within the part of the current call only.   *)

\* Nothing but a swap of two items of the part, or the end of it all, changes the array.
LEMMA OnlySwaps ==
    ASSUME Shape, [SortNext]_sortVars
    PROVE  \/ \E n \in Nat, u \in Order : \E a \in Arrays(n) : Call(a, n, u)
           \/ Finish
           \/ UNCHANGED <<arr, original, size, udata>>
           \/ /\ Active /\ UNCHANGED <<original, size, udata>>
              /\ \E i, j \in base .. base + len - 1 :
                    i \in 0 .. size - 1 /\ j \in 0 .. size - 1 /\ arr' = Swap(arr, i, j)
<1>1. CASE SwapEnds
  <2>1. head \in base .. base + len - 1 /\ tail \in base .. base + len - 1
    BY <1>1 DEF SwapEnds, Shape, Types, Cursors, Cutting, pivot
  <2>2. head \in 0 .. size - 1 /\ tail \in 0 .. size - 1
    BY <2>1 DEF Shape, Types
  <2> QED  BY <1>1, <2>1, <2>2 DEF SwapEnds, Active, Cutting
<1>2. CASE Place
  <2>1. PivotPlace \in base .. base + len - 1 /\ pivot \in base .. base + len - 1
    BY <1>2 DEF Place, PivotPlace, Shape, Types, Cursors, Cutting, pivot
  <2>2. PivotPlace \in 0 .. size - 1 /\ pivot \in 0 .. size - 1
    BY <2>1 DEF Shape, Types
  <2> QED  BY <1>2, <2>1, <2>2 DEF Place, Active, Cutting
<1> QED
  BY <1>1, <1>2 DEF SortNext, SortStep, BaseCase, Begin, Loop, MoveHead, MoveTail, Meet, SortRight,
                    Return, sortVars

\* A step loses no item, with any comparator.
LEMMA StepLosesNothing ==
    ASSUME Shape, NothingLost, [SortNext]_sortVars
    PROVE  NothingLost'
<1>1. ASSUME NEW n \in Nat, NEW u \in Order, NEW a \in Arrays(n), Call(a, n, u)
      PROVE  NothingLost'
  BY <1>1 DEF Call, NothingLost
<1>2. CASE Finish
  BY <1>2 DEF Finish, NothingLost
<1>3. CASE UNCHANGED <<arr, original, size, udata>>
  BY <1>3 DEF NothingLost
<1>4. ASSUME UNCHANGED <<original, size, udata>>, NEW i \in 0 .. size - 1, NEW j \in 0 .. size - 1,
             arr' = Swap(arr, i, j)
      PROVE  NothingLost'
  <2>1. size \in Nat /\ arr \in Arrays(size)
    BY DEF Shape, Types
  <2>2. Items(arr') = Items(arr) /\ (Distinct(arr) => Distinct(arr'))
    BY <1>4, <2>1, SwapItems, SwapDistinct
  <2> QED  BY <1>4, <2>2 DEF NothingLost
<1> QED  BY OnlySwaps, <1>1, <1>2, <1>3, <1>4

\* No item is lost, with any comparator.
THEOREM PermutationCorrect == SortSpec => []NothingLost
<1>1. SortInit => NothingLost
  BY DEF SortInit, NothingLost
<1>2. Shape /\ NothingLost /\ [SortNext]_sortVars => NothingLost'
  BY StepLosesNothing
<1> QED  BY InitShape, StepShape, <1>1, <1>2, PTL DEF SortSpec

-----------------------------------------------------------------------------
(* What the partitions have achieved: without an order of the comparator,    *)
(* the items of each frame are split by its pivot; with one, the parts whose *)
(* calls have returned are in order.                                         *)

Split(a, u, c) ==
    /\ \A k \in c.base .. c.pivot - 1 : Cmp(a[k], a[c.pivot], u) < 0
    /\ \A k \in c.pivot + 1 .. c.base + c.len - 1 : Cmp(a[k], a[c.pivot], u) >= 0

Run(a, u, first, last) == \A i, j \in first .. last : i < j => Cmp(a[i], a[j], u) <= 0

Cut ==
    /\ Cutting => /\ \A k \in base .. head - 1 : Compare(k, pivot) < 0
                  /\ \A k \in tail + 1 .. pivot - 1 : Compare(k, pivot) >= 0
    /\ at = "tail" => head = tail \/ Compare(head, pivot) >= 0

Splits == \A k \in 1 .. Len(calls) : Split(arr, udata, calls[k])

Finished ==
    /\ \A k \in 1 .. Len(calls) : calls[k].right => Run(arr, udata, calls[k].base, calls[k].pivot - 1)
    /\ at = "returned" => Run(arr, udata, FromAt(Len(calls)), UptoAt(Len(calls)) - 1)

\* A swap within the part of a recursive call leaves its caller split.
LEMMA SplitKept ==
    ASSUME NEW n \in Nat, NEW a \in Arrays(n), NEW u, NEW c \in Frames, Split(a, u, c),
           c.base <= c.pivot, c.pivot < c.base + c.len, c.base + c.len <= n,
           NEW i \in 0 .. n - 1, NEW j \in 0 .. n - 1,
           From(c) <= i, i < Upto(c), From(c) <= j, j < Upto(c)
    PROVE  Split(Swap(a, i, j), u, c)
<1> DEFINE b == Swap(a, i, j)
<1>1. c.base \in Nat /\ c.len \in Nat /\ c.pivot \in Nat /\ c.right \in BOOLEAN
  BY FrameSub
<1>2. \A k \in 0 .. n - 1 : b[k] = IF k = j THEN a[i] ELSE IF k = i THEN a[j] ELSE a[k]
  BY SwapShape
<1> HIDE DEF b
<1>3. CASE c.right
  <2>1. i \in c.pivot + 1 .. c.base + c.len - 1 /\ j \in c.pivot + 1 .. c.base + c.len - 1
    BY <1>1, <1>3 DEF From, Upto
  <2>2. \A k \in c.base .. c.pivot : b[k] = a[k]
    BY <1>1, <1>2, <2>1
  <2>3. ASSUME NEW k \in c.pivot + 1 .. c.base + c.len - 1
        PROVE  \E l \in c.pivot + 1 .. c.base + c.len - 1 : b[k] = a[l]
    BY <1>1, <1>2, <2>1
  <2>4. b[c.pivot] = a[c.pivot]
    BY <1>1, <2>2
  <2>5. ASSUME NEW k \in c.base .. c.pivot - 1 PROVE Cmp(b[k], b[c.pivot], u) < 0
    BY <1>1, <2>2, <2>4 DEF Split
  <2>6. ASSUME NEW k \in c.pivot + 1 .. c.base + c.len - 1 PROVE Cmp(b[k], b[c.pivot], u) >= 0
    BY <2>3, <2>4 DEF Split
  <2> QED  BY <2>5, <2>6 DEF Split, b
<1>4. CASE ~c.right
  <2>1. i \in c.base .. c.pivot - 1 /\ j \in c.base .. c.pivot - 1
    BY <1>1, <1>4 DEF From, Upto
  <2>2. \A k \in c.pivot .. c.base + c.len - 1 : b[k] = a[k]
    BY <1>1, <1>2, <2>1
  <2>3. ASSUME NEW k \in c.base .. c.pivot - 1 PROVE \E l \in c.base .. c.pivot - 1 : b[k] = a[l]
    BY <1>1, <1>2, <2>1
  <2>4. b[c.pivot] = a[c.pivot]
    BY <1>1, <2>2
  <2>5. ASSUME NEW k \in c.base .. c.pivot - 1 PROVE Cmp(b[k], b[c.pivot], u) < 0
    BY <2>3, <2>4 DEF Split
  <2>6. ASSUME NEW k \in c.pivot + 1 .. c.base + c.len - 1 PROVE Cmp(b[k], b[c.pivot], u) >= 0
    BY <1>1, <2>2, <2>4 DEF Split
  <2> QED  BY <2>5, <2>6 DEF Split, b
<1> QED  BY <1>3, <1>4

\* A run is kept by a swap outside of it.
LEMMA RunKept ==
    ASSUME NEW n \in Nat, NEW a \in Arrays(n), NEW u, NEW first \in Nat, NEW last \in Int, last < n,
           Run(a, u, first, last), NEW i \in 0 .. n - 1, NEW j \in 0 .. n - 1,
           i < first \/ last < i, j < first \/ last < j
    PROVE  Run(Swap(a, i, j), u, first, last)
<1> DEFINE b == Swap(a, i, j)
<1>1. \A k \in 0 .. n - 1 : b[k] = IF k = j THEN a[i] ELSE IF k = i THEN a[j] ELSE a[k]
  BY SwapShape
<1> HIDE DEF b
<1>2. \A k \in first .. last : b[k] = a[k]
  BY <1>1
<1>3. Run(b, u, first, last)
  BY <1>2 DEF Run
<1> QED  BY <1>3 DEF b

\* Two runs and the pivot that splits them make one.
LEMMA RunsJoin ==
    ASSUME NEW n \in Nat, NEW a \in Arrays(n), NEW u \in Order, NEW c \in Frames, Split(a, u, c),
           c.base <= c.pivot, c.pivot < c.base + c.len, c.base + c.len <= n,
           Orders(Items(a), u),
           Run(a, u, c.base, c.pivot - 1), Run(a, u, c.pivot + 1, c.base + c.len - 1)
    PROVE  Run(a, u, c.base, c.base + c.len - 1)
<1>1. c.base \in Nat /\ c.len \in Nat /\ c.pivot \in Nat
  BY FrameSub
<1>2. \A k \in c.base .. c.base + c.len - 1 : a[k] \in Items(a) /\ a[k] \in Item
  BY <1>1 DEF Items, Arrays
<1>3. c.pivot \in c.base .. c.base + c.len - 1
  BY <1>1
<1>4. ASSUME NEW k \in c.base .. c.base + c.len - 1, NEW l \in c.base .. c.base + c.len - 1
      PROVE  Cmp(a[k], a[l], u) \in Int
  BY <1>2, CmpAssumption
<1>5. ASSUME NEW k \in c.base .. c.pivot - 1 PROVE Cmp(a[k], a[c.pivot], u) <= 0
  <2>1. Cmp(a[k], a[c.pivot], u) < 0 /\ k \in c.base .. c.base + c.len - 1
    BY <1>1, <1>5 DEF Split
  <2> QED  BY <1>3, <1>4, <2>1
<1>6. ASSUME NEW k \in c.pivot + 1 .. c.base + c.len - 1 PROVE Cmp(a[c.pivot], a[k], u) <= 0
  <2>1. Cmp(a[k], a[c.pivot], u) >= 0 /\ k \in c.base .. c.base + c.len - 1
    BY <1>1, <1>6 DEF Split
  <2>2. Cmp(a[k], a[c.pivot], u) < 0 <=> Cmp(a[c.pivot], a[k], u) > 0
    BY <1>2, <1>3, <2>1 DEF Orders
  <2>3. Cmp(a[k], a[c.pivot], u) \in Int /\ Cmp(a[c.pivot], a[k], u) \in Int
    BY <1>3, <1>4, <2>1
  <2> QED  BY <2>1, <2>2, <2>3
<1>7. ASSUME NEW i \in c.base .. c.base + c.len - 1, NEW j \in c.base .. c.base + c.len - 1, i < j
      PROVE  Cmp(a[i], a[j], u) <= 0
  <2>1. CASE j < c.pivot
    BY <1>1, <1>7, <2>1 DEF Run
  <2>2. CASE j = c.pivot
    BY <1>1, <1>5, <1>7, <2>2
  <2>3. CASE i > c.pivot
    BY <1>1, <1>7, <2>3 DEF Run
  <2>4. CASE i = c.pivot
    BY <1>1, <1>6, <1>7, <2>4
  <2>5. CASE i < c.pivot /\ c.pivot < j
    <3>1. Cmp(a[i], a[c.pivot], u) <= 0 /\ Cmp(a[c.pivot], a[j], u) <= 0
      BY <1>1, <1>5, <1>6, <2>5
    <3> QED  BY <1>2, <1>3, <3>1 DEF Orders
  <2> QED  BY <1>1, <1>7, <2>1, <2>2, <2>3, <2>4, <2>5
<1> QED  BY <1>7 DEF Run

\* The part of the current call lies in the part that each waiting call has called for.
LEMMA ActiveInside ==
    ASSUME Shape, Active, NEW k \in 1 .. Len(calls)
    PROVE  From(calls[k]) <= base /\ base + len <= Upto(calls[k])
<1> DEFINE c == calls[Len(calls)]
<1>1. Len(calls) \in Nat /\ c \in Frames /\ calls[k] \in Frames
  BY DEF Shape, Types
<1>2. base = From(c) /\ base + len = Upto(c)
  BY <1>1 DEF Shape, Nested, FromAt, UptoAt
<1>3. CASE k = Len(calls)
  BY <1>1, <1>2, <1>3, FrameSub
<1>4. CASE k < Len(calls)
  <2>1. From(calls[k]) <= c.base /\ c.base + c.len <= Upto(calls[k]) /\ FrameOK(c)
    BY <1>1, <1>4 DEF Shape, Nested
  <2> HIDE DEF c
  <2>2. /\ From(c) \in Nat /\ Upto(c) \in Nat /\ c.base \in Nat /\ c.len \in Nat
        /\ c.base <= From(c) /\ Upto(c) <= c.base + c.len
    BY <1>1, <2>1, FrameSub
  <2>3. From(calls[k]) \in Nat /\ Upto(calls[k]) \in Nat
    BY <1>1, FrameSub
  <2> QED  BY ONLY <1>2, <2>1, <2>2, <2>3
<1> QED  BY <1>1, <1>3, <1>4

\* A swap within the part of the current call disturbs nothing of what the others rely on.
LEMMA SwapWithin ==
    ASSUME Shape, Active, NEW k \in 1 .. Len(calls),
           NEW i \in base .. base + len - 1, NEW j \in base .. base + len - 1
    PROVE  /\ Split(arr, udata, calls[k]) => Split(Swap(arr, i, j), udata, calls[k])
           /\ calls[k].right /\ Run(arr, udata, calls[k].base, calls[k].pivot - 1)
                 => Run(Swap(arr, i, j), udata, calls[k].base, calls[k].pivot - 1)
<1> DEFINE c == calls[k]
<1>1. c \in Frames /\ FrameOK(c) /\ From(c) <= base /\ base + len <= Upto(c)
  BY ActiveInside DEF Shape, Types, Nested
<1>2. size \in Nat /\ arr \in Arrays(size) /\ base \in Nat /\ len \in Nat /\ base + len <= size
  BY DEF Shape, Types
<1> HIDE DEF c
<1>3. /\ c.base \in Nat /\ c.len \in Nat /\ c.pivot \in Nat
      /\ From(c) \in Nat /\ Upto(c) \in Nat
  BY <1>1, FrameSub
<1>4. c.base <= c.pivot /\ c.pivot < c.base + c.len /\ c.base + c.len <= size
  BY <1>1 DEF FrameOK
<1>5. /\ i \in 0 .. size - 1 /\ j \in 0 .. size - 1
      /\ From(c) <= i /\ i < Upto(c) /\ From(c) <= j /\ j < Upto(c)
  BY <1>1, <1>2, <1>3
<1>6. Split(arr, udata, c) => Split(Swap(arr, i, j), udata, c)
  BY <1>1, <1>2, <1>4, <1>5, SplitKept
<1>7. ASSUME c.right, Run(arr, udata, c.base, c.pivot - 1)
      PROVE  Run(Swap(arr, i, j), udata, c.base, c.pivot - 1)
  <2>1. c.pivot - 1 < i /\ c.pivot - 1 < j /\ c.pivot - 1 < size /\ c.pivot - 1 \in Int
    <3>1. c.pivot + 1 <= i /\ c.pivot + 1 <= j
      BY <1>5, <1>7 DEF From
    <3> QED  BY ONLY <1>2, <1>3, <1>4, <1>5, <3>1
  <2> QED  BY <1>2, <1>3, <1>5, <1>7, <2>1, RunKept
<1> QED  BY <1>6, <1>7 DEF c

\* The comparator answers with a number.
LEMMA Answers ==
    ASSUME Shape, NEW i \in 0 .. size - 1, NEW j \in 0 .. size - 1 PROVE Compare(i, j) \in Int
BY CmpAssumption DEF Compare, Shape, Types, Arrays

\* The steps that change neither the array nor the calls.
LEMMA CursorSteps ==
    ASSUME Shape, Cut, Splits, BaseCase \/ Begin \/ Loop \/ MoveHead \/ MoveTail \/ Meet
    PROVE  Cut' /\ Splits' /\ (Finished => Finished')
<1>1. UNCHANGED <<arr, size, udata, calls, base, len>>
  BY DEF BaseCase, Begin, Loop, MoveHead, MoveTail, Meet
<1>2. pivot' = pivot /\ \A i, j : Compare(i, j)' = Compare(i, j)
  BY <1>1 DEF pivot, Compare
<1>3. base \in Nat /\ len \in Nat /\ head \in Int /\ tail \in Int /\ pivot \in Int
  BY DEF Shape, Types, pivot
<1>4. Splits'
  BY <1>1 DEF Splits
<1>5. Cut'
  <2>1. CASE BaseCase
    BY <2>1 DEF BaseCase, Cut, Cutting
  <2>2. CASE Begin
    BY <1>2, <1>3, <2>2 DEF Begin, Cut, Cutting, pivot
  <2>3. CASE Loop
    BY <1>2, <2>3 DEF Loop, Cut, Cutting
  <2>4. CASE MoveHead
    <3>1. CASE head < tail /\ Compare(head, pivot) < 0
      BY <1>2, <1>3, <2>4, <3>1 DEF MoveHead, Cut, Cutting
    <3>2. CASE ~(head < tail /\ Compare(head, pivot) < 0)
      <4>1. head' = head /\ tail' = tail /\ at' = "tail" /\ at = "head"
        BY <2>4, <3>2 DEF MoveHead
      <4>2. head <= tail /\ head \in 0 .. size - 1 /\ pivot \in 0 .. size - 1
        BY <4>1 DEF Shape, Types, Cursors, Cutting, pivot
      <4>3. Compare(head, pivot) \in Int
        BY <4>2, Answers
      <4>4. head = tail \/ Compare(head, pivot) >= 0
        BY <1>3, <3>2, <4>2, <4>3
      <4> QED  BY <1>1, <1>2, <4>1, <4>4 DEF Cut, Cutting
    <3> QED  BY <3>1, <3>2
  <2>5. CASE MoveTail
    <3>1. /\ tail' = tail - 1 /\ head' = head /\ at = "tail" /\ at' = "tail" /\ tail > head
          /\ Compare(tail, pivot) >= 0
      BY <2>5 DEF MoveTail, StaysAbove
    <3>2. \A k \in tail' + 1 .. pivot - 1 : k = tail \/ k \in tail + 1 .. pivot - 1
      BY <1>3, <3>1
    <3>3. Compare(head, pivot) >= 0
      BY <1>3, <3>1 DEF Cut
    <3> QED  BY <1>1, <1>2, <3>1, <3>2, <3>3 DEF Cut, Cutting
  <2>6. CASE Meet
    BY <1>2, <2>6 DEF Meet, Cut, Cutting
  <2> QED  BY <2>1, <2>2, <2>3, <2>4, <2>5, <2>6
<1>6. ASSUME Finished PROVE Finished'
  <2>1. ASSUME at' = "returned"
        PROVE  Run(arr', udata', FromAt(Len(calls))', UptoAt(Len(calls))' - 1)
    <3>1. BaseCase
      BY <2>1 DEF BaseCase, Begin, Loop, MoveHead, MoveTail, Meet
    <3>2. len < 2 /\ base = FromAt(Len(calls)) /\ base + len = UptoAt(Len(calls))
      BY <3>1 DEF BaseCase, Shape, Nested, Active
    <3>3. FromAt(Len(calls))' = base /\ UptoAt(Len(calls))' = base + len
      BY <1>1, <3>2 DEF FromAt, UptoAt
    <3> QED  BY <1>1, <1>3, <3>2, <3>3 DEF Run
  <2> QED  BY <1>1, <1>6, <2>1 DEF Finished
<1> QED  BY <1>4, <1>5, <1>6

\* The swap at the end of a round of the partition.
LEMMA SwapEndsStep ==
    ASSUME Shape, Cut, Splits, SwapEnds
    PROVE  Cut' /\ Splits' /\ (Finished => Finished')
<1>1. /\ at = "tail" /\ at' = "loop" /\ head < tail /\ ~StaysAbove(tail)
      /\ arr' = Swap(arr, head, tail) /\ head' = head + 1 /\ tail' = tail - 1
      /\ UNCHANGED <<size, original, udata, calls, base, len>>
  BY DEF SwapEnds, Shape, Types, Cursors, Cutting
<1>2. /\ size \in Nat /\ arr \in Arrays(size) /\ base \in Nat /\ len \in Nat /\ base + len <= size
      /\ head \in base .. pivot - 1 /\ tail \in base .. pivot - 1 /\ pivot \in Int
      /\ head \in 0 .. size - 1 /\ tail \in 0 .. size - 1 /\ pivot \in 0 .. size - 1
      /\ head \in base .. base + len - 1 /\ tail \in base .. base + len - 1
  BY <1>1 DEF Shape, Types, Cursors, Cutting, pivot
<1>3. \A k \in 0 .. size - 1 :
         arr'[k] = IF k = tail THEN arr[head] ELSE IF k = head THEN arr[tail] ELSE arr[k]
  BY <1>1, <1>2, SwapShape
<1>4. Compare(tail, pivot) < 0 /\ Compare(head, pivot) >= 0
  BY <1>1, <1>2, Answers DEF StaysAbove, Cut
<1>5. pivot' = pivot /\ arr'[pivot] = arr[pivot] /\ udata' = udata
  BY <1>1, <1>2, <1>3 DEF pivot
<1>6. ASSUME NEW k \in base .. head PROVE Compare(k, pivot)' < 0
  <2>1. CASE k = head
    BY <1>1, <1>2, <1>3, <1>4, <1>5, <2>1 DEF Compare
  <2>2. CASE k \in base .. head - 1
    <3>1. k \in 0 .. size - 1 /\ k # head /\ k # tail
      BY <1>1, <1>2, <2>2
    <3>2. Compare(k, pivot) < 0
      BY <1>1, <2>2 DEF Cut, Cutting
    <3> QED  BY <1>3, <1>5, <3>1, <3>2 DEF Compare
  <2> QED  BY <1>2, <2>1, <2>2
<1>7. ASSUME NEW k \in tail .. pivot - 1 PROVE Compare(k, pivot)' >= 0
  <2>1. CASE k = tail
    BY <1>1, <1>2, <1>3, <1>4, <1>5, <2>1 DEF Compare
  <2>2. CASE k \in tail + 1 .. pivot - 1
    <3>1. k \in 0 .. size - 1 /\ k # head /\ k # tail
      BY <1>1, <1>2, <2>2
    <3>2. Compare(k, pivot) >= 0
      BY <1>1, <2>2 DEF Cut, Cutting
    <3> QED  BY <1>3, <1>5, <3>1, <3>2 DEF Compare
  <2> QED  BY <1>2, <2>1, <2>2
<1>8. Cut'
  <2>1. \A k \in base' .. head' - 1 : Compare(k, pivot)' < 0
    BY <1>1, <1>2, <1>6
  <2>2. \A k \in tail' + 1 .. pivot' - 1 : Compare(k, pivot)' >= 0
    BY <1>1, <1>2, <1>5, <1>7
  <2> QED  BY <1>1, <2>1, <2>2 DEF Cut
<1>9. Active
  BY <1>1 DEF Active, Cutting
<1>10. Splits'
  BY <1>1, <1>2, <1>9, SwapWithin DEF Splits
<1>11. Finished => Finished'
  BY <1>1, <1>2, <1>9, SwapWithin DEF Finished
<1> QED  BY <1>8, <1>10, <1>11

\* The pivot goes between the items below it and the others, and its call waits.
LEMMA PlaceStep ==
    ASSUME Shape, Cut, Splits, Place
    PROVE  Cut' /\ Splits' /\ (Finished => Finished')
<1> DEFINE p == PivotPlace
           n == Len(calls)
<1>1. /\ at = "place" /\ at' = "entered"
      /\ arr' = IF p # pivot THEN Swap(arr, p, pivot) ELSE arr
      /\ calls' = Append(calls, Frame(p))
      /\ UNCHANGED <<size, original, udata>>
  BY DEF Place, Enter
<1>2. /\ size \in Nat /\ arr \in Arrays(size) /\ base \in Nat /\ len \in Nat /\ base + len <= size
      /\ head \in base .. pivot - 1 /\ tail \in base .. pivot - 1 /\ pivot = base + len - 1
      /\ head \in 0 .. size - 1 /\ pivot \in 0 .. size - 1
      /\ head <= tail + 1 /\ tail <= head
  BY <1>1 DEF Shape, Types, Cursors, Cutting, pivot
<1>3. p \in base .. base + len - 1 /\ pivot \in base .. base + len - 1 /\ p \in 0 .. size - 1 /\ p <= pivot
  BY <1>2 DEF PivotPlace
<1>4. Compare(head, pivot) \in Int
  BY <1>2, Answers
<1>5. \A k \in base .. p - 1 : Compare(k, pivot) < 0
  <2>1. \A k \in base .. head - 1 : Compare(k, pivot) < 0
    BY <1>1 DEF Cut, Cutting
  <2> QED  BY <1>2, <2>1 DEF PivotPlace
<1>6. \A k \in p .. pivot - 1 : Compare(k, pivot) >= 0
  <2>1. \A k \in tail + 1 .. pivot - 1 : Compare(k, pivot) >= 0
    BY <1>1 DEF Cut, Cutting
  <2>2. CASE Compare(head, pivot) < 0
    <3>1. p = head + 1
      BY <2>2 DEF PivotPlace
    <3> QED  BY <1>2, <2>1, <3>1
  <2>3. CASE Compare(head, pivot) >= 0
    <3>1. p = head
      BY <1>4, <2>3 DEF PivotPlace
    <3>2. \A k \in head .. pivot - 1 : k = head \/ k \in tail + 1 .. pivot - 1
      BY <1>2
    <3> QED  BY <2>1, <2>3, <3>1, <3>2
  <2> QED  BY <1>4, <2>2, <2>3
<1> HIDE DEF p
<1>7. \A k \in 0 .. size - 1 :
         arr'[k] = IF k = pivot THEN arr[p] ELSE IF k = p THEN arr[pivot] ELSE arr[k]
  BY <1>1, <1>2, <1>3, SwapShape
<1>8. /\ Frame(p).base = base /\ Frame(p).len = len /\ Frame(p).pivot = p /\ ~Frame(p).right
  BY DEF Frame
<1>9. Split(arr', udata', Frame(p))
  <2>1. arr'[p] = arr[pivot]
    BY <1>2, <1>3, <1>7
  <2>2. ASSUME NEW k \in base .. p - 1 PROVE Cmp(arr'[k], arr'[p], udata) < 0
    <3>1. k \in 0 .. size - 1 /\ k # p /\ k # pivot
      BY <1>2, <1>3, <2>2
    <3> QED  BY <1>5, <1>7, <2>1, <3>1 DEF Compare
  <2>3. ASSUME NEW k \in p + 1 .. base + len - 1 PROVE Cmp(arr'[k], arr'[p], udata) >= 0
    <3>1. CASE k = pivot
      <4>1. arr'[k] = arr[p] /\ p \in p .. pivot - 1
        BY <1>2, <1>3, <1>7, <2>3, <3>1
      <4> QED  BY <1>6, <2>1, <4>1 DEF Compare
    <3>2. CASE k # pivot
      <4>1. k \in 0 .. size - 1 /\ k # p /\ k \in p .. pivot - 1
        BY <1>2, <1>3, <2>3, <3>2
      <4> QED  BY <1>6, <1>7, <2>1, <3>2, <4>1 DEF Compare
    <3> QED  BY <3>1, <3>2
  <2> QED  BY <1>1, <1>8, <2>2, <2>3 DEF Split
<1>10. calls \in Seq(Frames) /\ n \in Nat
  BY DEF Shape, Types
<1>11. /\ Len(calls') = n + 1 /\ calls'[n + 1] = Frame(p)
       /\ \A k \in 1 .. n : calls'[k] = calls[k]
  BY <1>1, <1>10
<1>12. Active /\ (arr' = arr \/ arr' = Swap(arr, p, pivot))
  BY <1>1 DEF Active, Cutting
<1>13. Splits'
  <2>1. ASSUME NEW k \in 1 .. n PROVE Split(arr', udata', calls'[k])
    BY <1>1, <1>3, <1>11, <1>12, <2>1, SwapWithin DEF Splits
  <2> QED  BY <1>9, <1>10, <1>11, <2>1 DEF Splits
<1>14. ASSUME Finished PROVE Finished'
  <2>1. ASSUME NEW k \in 1 .. n, calls'[k].right
        PROVE  Run(arr', udata', calls'[k].base, calls'[k].pivot - 1)
    BY <1>1, <1>3, <1>11, <1>12, <1>14, <2>1, SwapWithin DEF Finished
  <2> QED  BY <1>1, <1>8, <1>10, <1>11, <2>1 DEF Finished
<1> QED  BY <1>1, <1>13, <1>14 DEF Cut, Cutting

\* The left part is in order when its call returns: the caller goes on with the right one.
LEMMA SortRightStep ==
    ASSUME Shape, Splits, SortRight
    PROVE  Cut' /\ Splits' /\ (Finished => Finished')
<1> DEFINE n == Len(calls)
           c == calls[n]
           d == [c EXCEPT !.right = TRUE]
<1>1. /\ at = "returned" /\ at' = "entered" /\ ~c.right
      /\ calls' = [calls EXCEPT ![n] = d]
      /\ UNCHANGED <<arr, udata>>
  BY DEF SortRight, Enter, Caller
<1>2. calls \in Seq(Frames) /\ n \in Nat \ {0} /\ c \in Frames
  BY DEF SortRight, Shape, Types
<1>3. d \in Frames /\ d.base = c.base /\ d.len = c.len /\ d.pivot = c.pivot /\ d.right
  BY <1>2 DEF Frames
<1> HIDE DEF d
<1>4. Len(calls') = n /\ calls'[n] = d /\ \A k \in 1 .. n - 1 : calls'[k] = calls[k]
  BY <1>1, <1>2
<1>5. Splits'
  <2>1. Split(arr, udata, d)
    BY <1>2, <1>3 DEF Splits, Split
  <2>2. ASSUME NEW k \in 1 .. n PROVE Split(arr, udata, calls'[k])
    <3>1. CASE k = n
      BY <1>4, <2>1, <3>1
    <3>2. CASE k # n
      BY <1>2, <1>4, <3>2 DEF Splits
    <3> QED  BY <3>1, <3>2
  <2> QED  BY <1>1, <1>4, <2>2 DEF Splits
<1>6. ASSUME Finished PROVE Finished'
  <2>1. Run(arr, udata, d.base, d.pivot - 1)
    <3>1. FromAt(n) = c.base /\ UptoAt(n) = c.pivot
      BY <1>1, <1>2 DEF FromAt, UptoAt, From, Upto
    <3> QED  BY <1>1, <1>3, <1>6, <3>1 DEF Finished
  <2>2. ASSUME NEW k \in 1 .. n, calls'[k].right
        PROVE  Run(arr, udata, calls'[k].base, calls'[k].pivot - 1)
    <3>1. CASE k = n
      BY <1>4, <2>1, <3>1
    <3>2. CASE k # n
      BY <1>2, <1>4, <1>6, <2>2, <3>2 DEF Finished
    <3> QED  BY <3>1, <3>2
  <2> QED  BY <1>1, <1>4, <2>2 DEF Finished
<1> QED  BY <1>1, <1>5, <1>6 DEF Cut, Cutting

\* Both parts of a call are in order when it returns, and so is the whole.
LEMMA ReturnStep ==
    ASSUME Shape, Splits, Return
    PROVE  Cut' /\ Splits' /\ (Orders(Items(arr), udata) /\ Finished => Finished')
<1> DEFINE n == Len(calls)
           c == calls[n]
<1>1. /\ at = "returned" /\ at' = "returned" /\ c.right
      /\ calls' = SubSeq(calls, 1, n - 1)
      /\ UNCHANGED <<arr, udata, size>>
  BY DEF Return, Caller
<1>2. calls \in Seq(Frames) /\ n \in Nat \ {0} /\ c \in Frames
  BY DEF Return, Shape, Types
<1>3. Len(calls') = n - 1 /\ \A k \in 1 .. n - 1 : calls'[k] = calls[k]
  BY <1>1, <1>2, ButLast
<1>4. Splits'
  BY <1>1, <1>2, <1>3 DEF Splits
<1>5. ASSUME Orders(Items(arr), udata), Finished PROVE Finished'
  <2>1. Split(arr, udata, c) /\ FrameOK(c)
    BY <1>2 DEF Splits, Shape, Nested
  <2>2. FromAt(n) = c.pivot + 1 /\ UptoAt(n) = c.base + c.len
    BY <1>1, <1>2 DEF FromAt, UptoAt, From, Upto
  <2>3. Run(arr, udata, c.base, c.pivot - 1) /\ Run(arr, udata, c.pivot + 1, c.base + c.len - 1)
    <3>1. Run(arr, udata, FromAt(n), UptoAt(n) - 1)
      BY <1>1, <1>5 DEF Finished
    <3>2. Run(arr, udata, c.base, c.pivot - 1)
      BY <1>1, <1>2, <1>5 DEF Finished
    <3>3. c.pivot \in Nat /\ c.base \in Nat /\ c.len \in Nat
      BY <1>2, FrameSub
    <3>4. Run(arr, udata, c.pivot + 1, c.base + c.len - 1)
      BY ONLY <2>2, <3>1, <3>3
    <3> QED  BY <3>2, <3>4
  <2>4. size \in Nat /\ arr \in Arrays(size) /\ udata \in Order
    BY DEF Shape, Types
  <2>5. c.base = FromAt(n - 1) /\ c.base + c.len = UptoAt(n - 1)
    BY <1>2 DEF Shape, Nested
  <2> HIDE DEF c
  <2>6. c.base <= c.pivot /\ c.pivot < c.base + c.len /\ c.base + c.len <= size
    BY <2>1 DEF FrameOK
  <2>7. Run(arr, udata, c.base, c.base + c.len - 1)
    BY <1>2, <1>5, <2>1, <2>3, <2>4, <2>6, RunsJoin
  <2>8. FromAt(Len(calls))' = FromAt(n - 1) /\ UptoAt(Len(calls))' = UptoAt(n - 1)
    BY <1>1, <1>2, <1>3 DEF FromAt, UptoAt
  <2>9. Run(arr', udata', FromAt(Len(calls))', UptoAt(Len(calls))' - 1)
    <3> c.pivot \in Nat /\ c.base \in Nat /\ c.len \in Nat
      BY <1>2, FrameSub
    <3>1. Run(arr, udata, FromAt(n - 1), UptoAt(n - 1) - 1)
      BY <2>5, <2>7
    <3> QED  BY ONLY <1>1, <2>8, <3>1
  <2>10. \A k \in 1 .. Len(calls') :
            calls'[k].right => Run(arr', udata', calls'[k].base, calls'[k].pivot - 1)
    BY <1>1, <1>2, <1>3, <1>5 DEF Finished
  <2> QED  BY <2>9, <2>10 DEF Finished
<1> QED  BY <1>1, <1>4, <1>5 DEF Cut, Cutting

\* All that is known of quicksort at any moment.
SortInv ==
    Shape /\ NothingLost /\ Cut /\ Splits /\ (Orders(Items(original), udata) => Finished)

\* The invariant of the sort holds before there is one.
LEMMA SortInvInit == SortInit => SortInv
<1>1. SortInit => NothingLost /\ Cut /\ Splits /\ Finished
  BY DEF SortInit, NothingLost, Cut, Cutting, Splits, Finished
<1> QED  BY <1>1, InitShape DEF SortInv

\* A step of the sort keeps what the partitions have achieved.
LEMMA PartitionsKept ==
    ASSUME Shape, NothingLost, Cut, Splits, Orders(Items(original), udata) => Finished,
           [SortNext]_sortVars
    PROVE  Cut' /\ Splits' /\ (Orders(Items(original), udata) => Finished)'
<1>1. ASSUME NEW n \in Nat, NEW u \in Order, NEW a \in Arrays(n), Call(a, n, u)
      PROVE  Cut' /\ Splits' /\ Finished'
  BY <1>1 DEF Call, Enter, Cut, Cutting, Splits, Finished
<1>2. CASE Finish
  BY <1>2 DEF Finish, Outermost, Cut, Cutting, Splits, Finished
<1>3. CASE UNCHANGED sortVars
  BY <1>3 DEF sortVars, Cut, Cutting, Splits, Finished, Compare, pivot, FromAt, UptoAt
<1>4. CASE SortStep /\ ~Finish
  <2>1. original' = original /\ udata' = udata
    BY <1>4 DEF SortStep, BaseCase, Begin, Loop, MoveHead, MoveTail, Meet, SwapEnds, Place,
                SortRight, Return
  <2>2. Cut' /\ Splits' /\ (Orders(Items(arr), udata) /\ Finished => Finished')
    BY <1>4, CursorSteps, SwapEndsStep, PlaceStep, SortRightStep, ReturnStep DEF SortStep
  <2>3. Items(arr) = Items(original)
    BY DEF NothingLost
  <2> QED  BY <2>1, <2>2, <2>3
<1> QED  BY <1>1, <1>2, <1>3, <1>4 DEF SortNext

\* Every step keeps the invariant of the sort, also as a part of a larger program.
LEMMA SortInvKept == SortInv /\ [SortNext]_sortVars => SortInv'
BY StepShape, StepLosesNothing, PartitionsKept DEF SortInv

\* When the outermost call has returned the array is sorted.
LEMMA SortInvSorts == SortInv => Sorts
<1> SUFFICES ASSUME SortInv, Outermost, Finished PROVE Ordered(arr, udata)
  BY DEF SortInv, Sorts, Sorted
<1> USE DEF SortInv
<1>1. size \in Nat /\ DOMAIN arr = 0 .. size - 1
  BY DEF Shape, Types, Arrays
<1>2. Run(arr, udata, 0, size - 1)
  BY DEF Outermost, Finished, FromAt, UptoAt
<1> QED  BY <1>1, <1>2 DEF Run, Ordered

\* When quicksort returns, the array is in the order of the comparator, if it is one.
THEOREM SortCorrect == SortSpec => []Sorted
BY SortInvInit, SortInvKept, SortInvSorts, PTL DEF SortSpec, Sorts

\* quicksort returns the items it was given in the order of the comparator, if it is one:
\* nothing is lost on the way, with any comparator.
THEOREM QuicksortCorrect == SortSpec => []Sorts
BY PermutationCorrect, SortCorrect, PTL DEF Sorts

-----------------------------------------------------------------------------
(* Sets of IDs in order.                                                    *)

\* s has the members of S, each once.
Lists(s, S) == s \in Seq(IDs) /\ Range(s) = S /\ Len(s) = Cardinality(S)

Ascends(s) == \A i, j \in 1 .. Len(s) : i < j => s[i] < s[j]

\* A set of numbers that is not empty has a least member.
LEMMA LeastNumber ==
    ASSUME NEW T, T \subseteq Nat, T # {}
    PROVE  \E x \in T : \A y \in T : x <= y
<1>1. PICK x \in T : \A y \in T : ~(<<y, x>> \in OpToRel(<, Nat))
  BY NatLessThanWellFounded, WFMin, Zenon
<1>2. \A y \in Nat, z \in Nat : y < z => <<y, z>> \in OpToRel(<, Nat)
  BY Zenon DEF OpToRel
<1>3. \A y \in T : ~(y < x)
  BY <1>1, <1>2, Zenon
<1> QED  BY <1>3

\* A finite set of integers has a greatest member.  One of the least size of those that
\* lack it would be another set and one more member.
Greatest(S, m) == m \in S /\ \A x \in S : x <= m

\* A finite set of numbers that is not empty has a greatest member.
LEMMA HasGreatest ==
    ASSUME NEW S, S \subseteq Int, IsFiniteSet(S), S # {}
    PROVE  \E m : Greatest(S, m)
<1> DEFINE Lacks(T) == T \subseteq Int /\ IsFiniteSet(T) /\ T # {} /\ ~\E m : Greatest(T, m)
           Bad == {n \in Nat : \E T : Lacks(T) /\ Cardinality(T) = n}
<1> SUFFICES ASSUME Lacks(S) PROVE FALSE
  OBVIOUS
<1>1. Cardinality(S) \in Bad
  BY FS_CardinalityType
<1>2. PICK n \in Bad : \A k \in Bad : n <= k
  <2> HIDE DEF Lacks
  <2> QED  BY <1>1, LeastNumber
<1>3. PICK T : Lacks(T) /\ Cardinality(T) = n
  BY <1>2
<1>4. PICK x : x \in T
  BY <1>3
<1> DEFINE U == T \ {x}
<1>5. IsFiniteSet(U) /\ Cardinality(U) = n - 1 /\ Cardinality(U) \in Nat
  BY <1>3, <1>4, FS_RemoveElement, FS_CardinalityType
<1>6. ~Lacks(U)
  BY <1>2, <1>5
<1>7. CASE U = {}
  BY <1>3, <1>4, <1>7 DEF Greatest
<1>8. CASE U # {}
  <2>1. PICK m : Greatest(U, m)
    BY <1>3, <1>5, <1>6, <1>8
  <2>2. Greatest(T, IF x <= m THEN m ELSE x)
    BY <1>3, <1>4, <2>1 DEF Greatest
  <2> QED  BY <1>3, <2>2
<1> QED  BY <1>7, <1>8

\* A finite set of integers can be put in order: its greatest member goes behind the rest.
Arranges(s, S) ==
    /\ s \in [1 .. Cardinality(S) -> S] /\ Range(s) = S
    /\ \A i, j \in DOMAIN s : i < j => s[i] < s[j]

\* The members of a finite set of numbers can be put in order.
LEMMA CanBeArranged ==
    ASSUME NEW S, S \subseteq Int, IsFiniteSet(S)
    PROVE  \E s : Arranges(s, S)
<1> DEFINE Lacks(T) == T \subseteq Int /\ IsFiniteSet(T) /\ ~\E s : Arranges(s, T)
           Bad == {n \in Nat : \E T : Lacks(T) /\ Cardinality(T) = n}
<1> SUFFICES ASSUME Lacks(S) PROVE FALSE
  OBVIOUS
<1>1. Cardinality(S) \in Bad
  BY FS_CardinalityType
<1>2. PICK n \in Bad : \A k \in Bad : n <= k
  <2> HIDE DEF Lacks
  <2> QED  BY <1>1, LeastNumber
<1>3. PICK T : Lacks(T) /\ Cardinality(T) = n
  BY <1>2
<1>4. CASE T = {}
  <2>1. Cardinality(T) = 0
    BY <1>4, FS_EmptySet
  <2>2. Arranges([i \in 1 .. 0 |-> 0], T)
    BY <1>4, <2>1 DEF Arranges, Range
  <2> QED  BY <1>3, <2>2
<1>5. CASE T # {}
  <2>1. PICK m : Greatest(T, m)
    BY <1>3, <1>5, HasGreatest
  <2> DEFINE U == T \ {m}
  <2>2. IsFiniteSet(U) /\ Cardinality(U) = n - 1 /\ Cardinality(U) \in Nat
    BY <1>3, <2>1, FS_RemoveElement, FS_CardinalityType DEF Greatest
  <2>3. ~Lacks(U)
    BY <1>2, <2>2
  <2>4. PICK s : Arranges(s, U)
    BY <1>3, <2>2, <2>3
  <2> DEFINE t == [i \in 1 .. n |-> IF i = n THEN m ELSE s[i]]
  <2>5. s \in [1 .. n - 1 -> U] /\ Range(s) = U /\ n \in Nat /\ n >= 1 /\ T \subseteq Int
    <3>1. s \in [1 .. Cardinality(U) -> U] /\ Range(s) = U
      BY <2>4 DEF Arranges
    <3>2. n \in Nat /\ n >= 1
      BY <2>2
    <3> QED  BY <1>3, <2>2, <3>1, <3>2
  <2>6. /\ t \in [1 .. n -> T] /\ t[n] = m /\ \A i \in 1 .. n - 1 : t[i] = s[i]
        /\ m \in T /\ \A x \in U : x < m
    BY <2>1, <2>5 DEF Greatest
  <2>7. Range(t) = T
    <3>1. \A x \in U : \E i \in 1 .. n - 1 : s[i] = x
      BY <2>5 DEF Range
    <3>2. \A x \in T : \E i \in 1 .. n : t[i] = x
      <4> SUFFICES ASSUME NEW x \in T PROVE \E i \in 1 .. n : t[i] = x
        OBVIOUS
      <4>1. CASE x = m
        BY <2>5, <2>6, <4>1
      <4>2. CASE x # m
        BY <2>5, <2>6, <3>1, <4>2
      <4> QED  BY <4>1, <4>2
    <3>3. DOMAIN t = 1 .. n
      BY <2>6
    <3> HIDE DEF t
    <3> QED  BY <2>6, <3>2, <3>3 DEF Range
  <2>8. \A i, j \in 1 .. n : i < j => t[i] < t[j]
    <3> SUFFICES ASSUME NEW i \in 1 .. n, NEW j \in 1 .. n, i < j PROVE t[i] < t[j]
      OBVIOUS
    <3>1. i \in 1 .. n - 1 /\ t[i] = s[i] /\ s[i] \in U
      BY <2>5, <2>6
    <3>2. CASE j = n
      BY <2>6, <3>1, <3>2
    <3>3. CASE j # n
      <4>1. DOMAIN s = 1 .. n - 1 /\ j \in 1 .. n - 1
        BY <2>5, <3>3
      <4>2. s[i] < s[j]
        BY <2>4, <3>1, <4>1 DEF Arranges
      <4> QED  BY <2>6, <3>1, <4>1, <4>2
    <3> QED  BY <3>2, <3>3
  <2>9. Arranges(t, T)
    <3> HIDE DEF t
    <3> QED  BY <1>3, <2>6, <2>7, <2>8 DEF Arranges
  <2> QED  BY <1>3, <2>9
<1> QED  BY <1>4, <1>5

\* A function on 1 .. n is a sequence.
LEMMA RowIsSequence ==
    ASSUME NEW S, NEW n \in Nat, NEW s \in [1 .. n -> S]
    PROVE  s \in Seq(S) /\ Len(s) = n
OBVIOUS

\* InOrder lists a set in order.
LEMMA InOrderLists ==
    ASSUME NEW S, S \subseteq IDs
    PROVE  Lists(InOrder(S), S) /\ Ascends(InOrder(S)) /\ IsFiniteSet(S)
<1>1. S \subseteq Int /\ IsFiniteSet(S) /\ Cardinality(S) \in Nat
  BY IDsAssumption, FS_Subset, FS_CardinalityType
<1>2. \E s \in [1 .. Cardinality(S) -> S] :
         Range(s) = S /\ \A i, j \in DOMAIN s : i < j => s[i] < s[j]
  BY <1>1, CanBeArranged DEF Arranges
<1> DEFINE s == InOrder(S)
<1>3. /\ s \in [1 .. Cardinality(S) -> S]
      /\ Range(s) = S /\ \A i, j \in DOMAIN s : i < j => s[i] < s[j]
  BY <1>2 DEF InOrder
<1> HIDE DEF s
<1>4. s \in [1 .. Cardinality(S) -> IDs]
  BY <1>3
<1>5. s \in Seq(IDs) /\ Len(s) = Cardinality(S) /\ DOMAIN s = 1 .. Len(s)
  BY <1>1, <1>4, RowIsSequence
<1>6. Lists(s, S) /\ Ascends(s)
  BY <1>3, <1>5 DEF Lists, Ascends
<1> QED  BY <1>1, <1>6 DEF s

\* There is only one way to list a set in order.
LEMMA OnlyInOrder ==
    ASSUME NEW S, S \subseteq IDs, NEW s, Lists(s, S), Ascends(s)
    PROVE  s = InOrder(S)
<1> DEFINE t == InOrder(S)
           n == Len(s)
           Bad == {i \in 1 .. n : s[i] # t[i]}
<1>1. Lists(t, S) /\ Ascends(t)
  BY InOrderLists
<1> HIDE DEF t
<1>2. /\ n \in Nat /\ s \in Seq(IDs) /\ t \in Seq(IDs) /\ Len(t) = n
      /\ \A i \in 1 .. n : s[i] \in Int /\ t[i] \in Int
  <2>1. s \in Seq(IDs) /\ t \in Seq(IDs) /\ Len(t) = n
    BY <1>1 DEF Lists
  <2>2. n \in Nat /\ \A i \in 1 .. n : s[i] \in IDs /\ t[i] \in IDs
    BY <2>1
  <2> QED  BY <2>1, <2>2, IDsAssumption
<1>3. /\ \A i \in 1 .. n : \E j \in 1 .. n : t[j] = s[i]
      /\ \A i \in 1 .. n : \E j \in 1 .. n : s[j] = t[i]
  <2>1. DOMAIN s = 1 .. n /\ DOMAIN t = 1 .. n
    BY <1>2
  <2>2. {s[i] : i \in 1 .. n} = {t[i] : i \in 1 .. n}
    BY <1>1, <2>1 DEF Lists, Range
  <2> QED  BY <2>2
<1>4. /\ \A i, j \in 1 .. n : i < j => s[i] < s[j]
      /\ \A i, j \in 1 .. n : i < j => t[i] < t[j]
  BY <1>1, <1>2 DEF Ascends
<1>5. Bad = {}
  <2> SUFFICES ASSUME Bad # {} PROVE FALSE
    OBVIOUS
  <2>1. PICK i \in Bad : \A k \in Bad : i <= k
    <3>1. Bad \subseteq Nat
      BY <1>2
    <3> HIDE DEF Bad
    <3> QED  BY <3>1, LeastNumber
  <2>2. i \in 1 .. n /\ s[i] # t[i] /\ \A k \in 1 .. n : k < i => s[k] = t[k]
    BY <1>2, <2>1
  <2>3. PICK j \in 1 .. n : t[j] = s[i]
    BY <1>3, <2>2
  <2>4. PICK k \in 1 .. n : s[k] = t[i]
    BY <1>3, <2>2
  <2>5. ~(j < i)
    BY <1>2, <1>4, <2>2, <2>3
  <2>6. ~(k < i)
    BY <1>2, <1>4, <2>2, <2>4
  <2>7. j # i /\ k # i
    BY <2>2, <2>3, <2>4
  <2>8. i < j /\ i < k
    BY <1>2, <2>2, <2>5, <2>6, <2>7
  <2>9. t[i] < t[j] /\ s[i] < s[k]
    BY <1>4, <2>2, <2>8
  <2> QED  BY <1>2, <2>2, <2>3, <2>4, <2>9
<1>6. \A i \in 1 .. n : s[i] = t[i]
  BY <1>5
<1>7. s = t
  <2> HIDE DEF Bad
  <2> QED  BY <1>2, <1>6
<1> QED  BY <1>7 DEF t

\* A new member goes behind those there are.
LEMMA AppendLists ==
    ASSUME NEW S, S \subseteq IDs, NEW s, Lists(s, S), NEW x \in IDs, x \notin S
    PROVE  /\ Lists(Append(s, x), S \cup {x})
           /\ Ascends(s) /\ (\A y \in S : y < x) => Ascends(Append(s, x))
<1> DEFINE n == Len(s)
           t == Append(s, x)
<1>1. /\ s \in Seq(IDs) /\ n \in Nat /\ t \in Seq(IDs) /\ Len(t) = n + 1
      /\ t[n + 1] = x /\ \A i \in 1 .. n : t[i] = s[i]
  BY DEF Lists
<1> HIDE DEF n, t
<1>2. Cardinality(S \cup {x}) = n + 1
  BY IDsAssumption, FS_Subset, FS_AddElement DEF Lists, n
<1>3. DOMAIN s = 1 .. n /\ DOMAIN t = 1 .. n + 1
  BY <1>1 DEF n
<1>4. Range(t) = S \cup {x}
  <2>1. S = {s[i] : i \in 1 .. n}
    BY <1>3 DEF Lists, Range
  <2>2. \A i \in 1 .. n + 1 : t[i] \in S \cup {x}
    BY <1>1, <2>1
  <2>3. \A y \in S \cup {x} : \E i \in 1 .. n + 1 : t[i] = y
    <3>1. \A y \in S : \E i \in 1 .. n : s[i] = y
      BY <2>1
    <3>2. \A i \in 1 .. n : i \in 1 .. n + 1
      BY <1>1
    <3>3. n + 1 \in 1 .. n + 1
      BY <1>1
    <3> QED  BY <1>1, <3>1, <3>2, <3>3
  <2> QED  BY <1>3, <2>2, <2>3 DEF Range
<1>5. ASSUME Ascends(s), \A y \in S : y < x PROVE Ascends(t)
  <2>1. \A i \in 1 .. n : s[i] \in S
    BY <1>3 DEF Lists, Range
  <2>2. \A i, j \in 1 .. n : i < j => s[i] < s[j]
    BY <1>5 DEF Ascends, n
  <2>3. ASSUME NEW i \in 1 .. n + 1, NEW j \in 1 .. n + 1, i < j PROVE t[i] < t[j]
    <3>1. i \in 1 .. n
      BY <1>1, <2>3
    <3>2. CASE j \in 1 .. n
      BY <1>1, <2>2, <2>3, <3>1, <3>2
    <3>3. CASE j = n + 1
      BY <1>1, <1>5, <2>1, <3>1, <3>3
    <3> QED  BY <1>1, <3>2, <3>3
  <2> QED  BY <1>1, <2>3 DEF Ascends
<1>6. Lists(t, S \cup {x})
  BY <1>1, <1>2, <1>4 DEF Lists
<1> QED  BY <1>5, <1>6 DEF t

\* The first of a list in order comes before the others.
LEMMA TailLists ==
    ASSUME NEW S, S \subseteq IDs, NEW s, Lists(s, S), Ascends(s), s # <<>>
    PROVE  /\ Head(s) \in S /\ Lists(Tail(s), S \ {Head(s)}) /\ Ascends(Tail(s))
           /\ \A y \in S \ {Head(s)} : Head(s) < y
<1> DEFINE n == Len(s)
           t == Tail(s)
           x == Head(s)
<1>1. /\ s \in Seq(IDs) /\ n \in Nat \ {0} /\ x = s[1] /\ t \in Seq(IDs) /\ Len(t) = n - 1
      /\ \A i \in 1 .. n - 1 : t[i] = s[i + 1]
  BY DEF Lists
<1>2. DOMAIN s = 1 .. n /\ DOMAIN t = 1 .. n - 1
  BY <1>1
<1> HIDE DEF n, t, x
<1>3. S = {s[i] : i \in 1 .. n} /\ \A i \in 1 .. n : s[i] \in Int
  BY <1>1, <1>2, IDsAssumption DEF Lists, Range
<1>4. \A i, j \in 1 .. n : i < j => s[i] < s[j]
  BY DEF Ascends, n
<1>5. x \in S /\ \A y \in S \ {x} : x < y
  BY <1>1, <1>3, <1>4
<1>6. Cardinality(S \ {x}) = n - 1
  BY <1>5, IDsAssumption, FS_Subset, FS_RemoveElement DEF Lists, n
<1>7. Range(t) = S \ {x}
  <2>1. \A i \in 1 .. n - 1 : i + 1 \in 1 .. n /\ 1 < i + 1
    BY <1>1
  <2>2. \A i \in 1 .. n - 1 : t[i] \in S /\ t[i] # x
    BY <1>1, <1>3, <1>4, <2>1
  <2>3. \A y \in S \ {x} : \E i \in 1 .. n - 1 : t[i] = y
    <3> SUFFICES ASSUME NEW y \in S \ {x} PROVE \E i \in 1 .. n - 1 : t[i] = y
      OBVIOUS
    <3>1. PICK j \in 1 .. n : s[j] = y
      BY <1>3
    <3>2. j # 1
      BY <1>1, <3>1
    <3>3. j - 1 \in 1 .. n - 1 /\ (j - 1) + 1 = j
      BY <1>1, <3>2
    <3> QED  BY <1>1, <3>1, <3>3
  <2> QED  BY <1>2, <2>2, <2>3 DEF Range
<1>8. Ascends(t)
  <2>1. \A i \in 1 .. n - 1 : i + 1 \in 1 .. n
    BY <1>1
  <2>2. ASSUME NEW i \in 1 .. n - 1, NEW j \in 1 .. n - 1, i < j PROVE t[i] < t[j]
    <3>1. i + 1 < j + 1
      BY <1>1, <2>2
    <3> QED  BY <1>1, <1>4, <2>1, <3>1
  <2> QED  BY <1>1, <2>2 DEF Ascends
<1>9. Lists(t, S \ {x})
  BY <1>1, <1>6, <1>7 DEF Lists
<1> QED  BY <1>5, <1>8, <1>9 DEF t, x

\* Only nothing is listed by nothing.
LEMMA EmptyRows ==
    /\ <<>> \in Seq(IDs) /\ <<>> \in Seq(IDs \X IDs) /\ Range(<<>>) = {}
    /\ [i \in 1 .. Len(<<>>) |-> <<>>[i][1]] = <<>>
    /\ [i \in 1 .. Len(<<>>) |-> <<<<>>[i], <<>>[i]>>] = <<>>
<1>1. <<>> \in Seq(IDs) /\ <<>> \in Seq(IDs \X IDs) /\ Len(<<>>) = 0 /\ 1 .. 0 = {}
  OBVIOUS
<1>2. Range(<<>>) = {}
  BY DEF Range
<1>3. [i \in 1 .. Len(<<>>) |-> <<>>[i][1]] = <<>>
  OBVIOUS
<1>4. [i \in 1 .. Len(<<>>) |-> <<<<>>[i], <<>>[i]>>] = <<>>
  OBVIOUS
<1> QED  BY <1>1, <1>2, <1>3, <1>4

\* The list of nothing is empty, and no other is.
LEMMA NothingListed ==
    /\ Lists(<<>>, {}) /\ Ascends(<<>>) /\ Range(<<>>) = {}
    /\ \A s, S : Lists(s, S) => (s = <<>> <=> S = {})
<1>1. Lists(<<>>, {}) /\ Ascends(<<>>) /\ Range(<<>>) = {}
  BY FS_EmptySet DEF Lists, Ascends, Range
<1>2. ASSUME NEW s, NEW S, Lists(s, S) PROVE s = <<>> <=> S = {}
  <2>1. s \in Seq(IDs) /\ Range(s) = S
    BY <1>2 DEF Lists
  <2>2. DOMAIN s = 1 .. Len(s) /\ Len(s) \in Nat /\ (s = <<>> <=> Len(s) = 0)
    BY <2>1
  <2>3. S = {s[i] : i \in 1 .. Len(s)}
    BY <2>1, <2>2 DEF Range
  <2>4. CASE Len(s) = 0
    BY <2>2, <2>3, <2>4
  <2>5. CASE Len(s) # 0
    <3>1. 1 \in 1 .. Len(s)
      BY <2>2, <2>5
    <3> QED  BY <2>2, <2>3, <2>5, <3>1
  <2> QED  BY <2>4, <2>5
<1> QED  BY <1>1, <1>2

-----------------------------------------------------------------------------
(* Sums of marks.                                                           *)

\* Among finite sets there is one that none is smaller than.
LEMMA LeastSet ==
    ASSUME NEW B, \A S \in B : IsFiniteSet(S), B # {}
    PROVE  \E S \in B : \A T \in B : Cardinality(S) <= Cardinality(T)
<1> DEFINE N == {Cardinality(S) : S \in B}
<1>1. N \subseteq Nat /\ N # {}
  BY FS_CardinalityType
<1>2. PICK n \in N : \A k \in N : n <= k
  <2> HIDE DEF N
  <2> QED  BY <1>1, LeastNumber
<1> QED  BY <1>2

SumOver(D, S) == MapThenSumSet(LAMBDA id : D[id].mark, S)

Choice(s) == CHOOSE x \in s : TRUE

\* f sums the marks of each set in C.
Sums(f, D, C) ==
    f = [s \in C |-> IF s = {} THEN 0 ELSE D[Choice(s)].mark + f[s \ {Choice(s)}]]

\* SumOver is what MapThenSumSet sums with the marks for its values.
LEMMA SumOverDef ==
    ASSUME NEW D, NEW S PROVE SumOver(D, S) = (CHOOSE f : Sums(f, D, SUBSET S))[S]
BY DEF SumOver, MapThenSumSet, MapThenFoldSet, Sums, Choice

\* A set that is not empty has a choice.
LEMMA ChoiceIsMember == ASSUME NEW s, s # {} PROVE Choice(s) \in s
BY DEF Choice

\* What Sums says of a set.
LEMMA SumsOf ==
    ASSUME NEW f, NEW D, NEW C, Sums(f, D, C)
    PROVE  /\ DOMAIN f = C
           /\ {} \in C => f[{}] = 0
           /\ \A s \in C : s # {} => f[s] = D[Choice(s)].mark + f[s \ {Choice(s)}]
<1> DEFINE g == [s \in C |-> IF s = {} THEN 0 ELSE D[Choice(s)].mark + f[s \ {Choice(s)}]]
<1>1. f = g
  BY DEF Sums
<1>2. /\ DOMAIN g = C /\ ({} \in C => g[{}] = 0)
      /\ \A s \in C : s # {} => g[s] = D[Choice(s)].mark + f[s \ {Choice(s)}]
  OBVIOUS
<1> HIDE DEF g
<1> QED  BY <1>1, <1>2

\* There is such a function: it is built from the small sets to the large ones.
UpTo(S, n) == {s \in SUBSET S : Cardinality(s) <= n}

\* By induction over the size of the sets: a size at which there is no such function has a least.
LEMMA SumsExist ==
    ASSUME NEW S, IsFiniteSet(S), NEW D
    PROVE  \E f : Sums(f, D, SUBSET S)
<1> DEFINE Bad == {n \in Nat : ~\E f : Sums(f, D, UpTo(S, n))}
<1>1. \A s \in SUBSET S : IsFiniteSet(s) /\ Cardinality(s) \in Nat /\ Cardinality(s) <= Cardinality(S)
  BY FS_Subset, FS_CardinalityType
<1>2. \A s \in SUBSET S : s # {} => /\ s \ {Choice(s)} \in SUBSET S
                                    /\ Cardinality(s \ {Choice(s)}) = Cardinality(s) - 1
                                    /\ Cardinality(s) # 0
  BY <1>1, ChoiceIsMember, FS_RemoveElement, FS_EmptySet
<1>3. Bad = {}
  <2> SUFFICES ASSUME Bad # {} PROVE FALSE
    OBVIOUS
  <2>1. PICK n \in Bad : \A k \in Bad : n <= k
    <3> HIDE DEF Bad
    <3>1. Bad \subseteq Nat
      BY DEF Bad
    <3> QED  BY <3>1, LeastNumber
  <2>2. n \in Nat /\ ~\E f : Sums(f, D, UpTo(S, n))
    BY <2>1
  <2>3. PICK f : n = 0 \/ Sums(f, D, UpTo(S, n - 1))
    <3>1. CASE n = 0
      BY <3>1
    <3>2. CASE n # 0
      <4>1. n - 1 \in Nat /\ n - 1 \notin Bad
        BY <2>1, <2>2, <3>2
      <4> QED  BY <4>1
    <3> QED  BY <3>1, <3>2
  <2> DEFINE h(s) == IF s = {} THEN 0 ELSE D[Choice(s)].mark + f[s \ {Choice(s)}]
             g == [s \in UpTo(S, n) |-> h(s)]
  <2>4. \A s \in UpTo(S, n) : s # {} => /\ s \ {Choice(s)} \in UpTo(S, n)
                                        /\ n # 0 /\ s \ {Choice(s)} \in UpTo(S, n - 1)
    BY <1>1, <1>2, <2>2 DEF UpTo
  <2>5. \A s \in UpTo(S, n) : n # 0 /\ s \in UpTo(S, n - 1) => f[s] = h(s)
    <3>1. CASE n = 0
      BY <3>1
    <3>2. CASE n # 0
      <4>1. Sums(f, D, UpTo(S, n - 1))
        BY <2>3, <3>2
      <4>2. /\ {} \in UpTo(S, n - 1) => f[{}] = 0
            /\ \A s \in UpTo(S, n - 1) : s # {} => f[s] = D[Choice(s)].mark + f[s \ {Choice(s)}]
        BY <4>1, SumsOf, Zenon
      <4> QED  BY <4>2
    <3> QED  BY <3>1, <3>2
  <2>6. \A s \in UpTo(S, n) : s # {} => g[s \ {Choice(s)}] = f[s \ {Choice(s)}]
    <3> SUFFICES ASSUME NEW s \in UpTo(S, n), s # {}
                 PROVE  g[s \ {Choice(s)}] = f[s \ {Choice(s)}]
      OBVIOUS
    <3> DEFINE r == s \ {Choice(s)}
    <3>1. r \in UpTo(S, n) /\ n # 0 /\ r \in UpTo(S, n - 1)
      BY <2>4
    <3>2. f[r] = h(r)
      <4> HIDE DEF h, r
      <4> QED  BY <2>5, <3>1
    <3>3. g[r] = h(r)
      <4> HIDE DEF h, r
      <4> QED  BY <3>1
    <3> QED  BY <3>2, <3>3
  <2>7. g = [s \in UpTo(S, n) |-> IF s = {} THEN 0 ELSE D[Choice(s)].mark + g[s \ {Choice(s)}]]
    <3>1. \A s \in UpTo(S, n) :
             h(s) = IF s = {} THEN 0 ELSE D[Choice(s)].mark + g[s \ {Choice(s)}]
      <4> HIDE DEF g
      <4> QED  BY <2>6
    <3> HIDE DEF h
    <3> QED  BY <3>1
  <2>8. Sums(g, D, UpTo(S, n))
    <3> HIDE DEF g
    <3> QED  BY <2>7 DEF Sums
  <2> QED  BY <2>2, <2>8
<1>4. Cardinality(S) \in Nat /\ UpTo(S, Cardinality(S)) = SUBSET S
  BY <1>1 DEF UpTo
<1>5. \E f : Sums(f, D, UpTo(S, Cardinality(S)))
  <2>1. Cardinality(S) \notin Bad
    BY <1>3
  <2> QED  BY <1>4, <2>1
<1> QED  BY <1>4, <1>5

SumsAll(f, D, S) == Sums(f, D, SUBSET S)

\* SumsOf for all the subsets of a set.
LEMMA SumsAllOf ==
    ASSUME NEW f, NEW D, NEW S, SumsAll(f, D, S)
    PROVE  /\ f[{}] = 0
           /\ \A s \in SUBSET S : s # {} => f[s] = D[Choice(s)].mark + f[s \ {Choice(s)}]
<1> DEFINE C == SUBSET S
<1>1. Sums(f, D, C) /\ {} \in C
  BY DEF SumsAll
<1> HIDE DEF C
<1>2. /\ {} \in C => f[{}] = 0
      /\ \A s \in C : s # {} => f[s] = D[Choice(s)].mark + f[s \ {Choice(s)}]
  BY <1>1, SumsOf, Zenon
<1> QED  BY <1>1, <1>2 DEF C

\* Two such functions agree on the sets that both sum.
LEMMA SumsAgree ==
    ASSUME NEW D, NEW S, NEW T, IsFiniteSet(S), IsFiniteSet(T),
           NEW f, SumsAll(f, D, S), NEW g, SumsAll(g, D, T),
           NEW s, s \subseteq S, s \subseteq T
    PROVE  f[s] = g[s]
<1> DEFINE Bad == {r \in SUBSET (S \cap T) : f[r] # g[r]}
<1> SUFFICES ASSUME s \in Bad PROVE FALSE
  OBVIOUS
<1>1. \A r \in Bad : IsFiniteSet(r)
  BY FS_Subset
<1>2. PICK r \in Bad : \A q \in Bad : Cardinality(r) <= Cardinality(q)
  <2> HIDE DEF Bad
  <2> QED  BY <1>1, LeastSet
<1>A. f[{}] = 0 /\ g[{}] = 0
  BY SumsAllOf
<1>B. /\ \A x \in SUBSET S : x # {} => f[x] = D[Choice(x)].mark + f[x \ {Choice(x)}]
      /\ \A x \in SUBSET T : x # {} => g[x] = D[Choice(x)].mark + g[x \ {Choice(x)}]
  <2> HIDE DEF Bad
  <2> QED  BY SumsAllOf, Zenon
<1>3. r # {}
  BY <1>A
<1> DEFINE q == r \ {Choice(r)}
<1>4. Cardinality(q) = Cardinality(r) - 1 /\ Cardinality(r) \in Nat
  BY <1>1, <1>3, ChoiceIsMember, FS_RemoveElement, FS_CardinalityType
<1>5. q \notin Bad
  <2> HIDE DEF Bad, q
  <2>1. ~(Cardinality(r) <= Cardinality(q))
    BY <1>4
  <2> QED  BY <1>2, <2>1
<1>6. f[q] = g[q]
  BY <1>5
<1>7. f[r] = D[Choice(r)].mark + f[q]
  BY <1>3, <1>B
<1>8. g[r] = D[Choice(r)].mark + g[q]
  BY <1>3, <1>B
<1> QED  BY <1>6, <1>7, <1>8

\* The sum over a set is the mark of its choice and the sum over the rest.
LEMMA SumUnfolds ==
    ASSUME NEW D, NEW S, IsFiniteSet(S)
    PROVE  IF S = {} THEN SumOver(D, S) = 0
           ELSE SumOver(D, S) = D[Choice(S)].mark + SumOver(D, S \ {Choice(S)})
<1> DEFINE f == CHOOSE f : Sums(f, D, SUBSET S)
           T == S \ {Choice(S)}
           g == CHOOSE g : Sums(g, D, SUBSET T)
<1>1. IsFiniteSet(T)
  BY FS_Subset
<1>2. SumsAll(f, D, S)
  BY SumsExist DEF SumsAll
<1>3. SumsAll(g, D, T)
  BY <1>1, SumsExist DEF SumsAll
<1>4. SumOver(D, S) = f[S] /\ SumOver(D, T) = g[T]
  BY SumOverDef
<1> HIDE DEF f, g
<1>5. S \in SUBSET S /\ T \subseteq S
  OBVIOUS
<1>6. f[T] = g[T]
  <2> HIDE DEF T
  <2>1. T \subseteq T
    OBVIOUS
  <2> QED  BY <1>1, <1>2, <1>3, <1>5, <2>1, SumsAgree, SMT
<1>7. /\ f[{}] = 0
      /\ \A x \in SUBSET S : x # {} => f[x] = D[Choice(x)].mark + f[x \ {Choice(x)}]
  <2> HIDE DEF T
  <2> QED  BY <1>2, SumsAllOf, Zenon
<1>8. CASE S = {}
  BY <1>4, <1>5, <1>7, <1>8
<1>9. CASE S # {}
  <2>1. f[S] = D[Choice(S)].mark + f[T]
    BY <1>5, <1>7, <1>9
  <2> QED  BY <1>4, <1>6, <1>9, <2>1
<1> QED  BY <1>8, <1>9

\* It is an integer if the marks are.
LEMMA SumIsInt ==
    ASSUME NEW D, NEW S, IsFiniteSet(S), \A x \in S : D[x].mark \in Int
    PROVE  SumOver(D, S) \in Int
<1> DEFINE Bad == {r \in SUBSET S : SumOver(D, r) \notin Int}
<1> SUFFICES ASSUME S \in Bad PROVE FALSE
  OBVIOUS
<1>1. \A r \in Bad : IsFiniteSet(r)
  BY FS_Subset
<1>2. PICK r \in Bad : \A q \in Bad : Cardinality(r) <= Cardinality(q)
  <2> HIDE DEF Bad
  <2> QED  BY <1>1, LeastSet
<1>A. IF r = {} THEN SumOver(D, r) = 0
      ELSE SumOver(D, r) = D[Choice(r)].mark + SumOver(D, r \ {Choice(r)})
  <2>1. IsFiniteSet(r)
    BY <1>1
  <2> HIDE DEF Bad
  <2> QED  BY <2>1, SumUnfolds, Zenon
<1>3. r # {}
  BY <1>A
<1> DEFINE q == r \ {Choice(r)}
<1>4. Choice(r) \in S /\ Cardinality(q) = Cardinality(r) - 1 /\ Cardinality(r) \in Nat
  BY <1>1, <1>3, ChoiceIsMember, FS_RemoveElement, FS_CardinalityType
<1>5. q \notin Bad
  <2> HIDE DEF Bad, q
  <2>1. ~(Cardinality(r) <= Cardinality(q))
    BY <1>4
  <2> QED  BY <1>2, <2>1
<1>6. SumOver(D, q) \in Int
  BY <1>5
<1>7. D[Choice(r)].mark \in Int
  BY <1>4
<1> QED  BY <1>3, <1>6, <1>7, <1>A

\* Which member is counted first does not matter.
LEMMA SumRemoves ==
    ASSUME NEW D, NEW S, IsFiniteSet(S), \A x \in S : D[x].mark \in Int, NEW y \in S
    PROVE  SumOver(D, S) = D[y].mark + SumOver(D, S \ {y})
<1> DEFINE Wrong(r) == \E z \in r : SumOver(D, r) # D[z].mark + SumOver(D, r \ {z})
           Bad == {r \in SUBSET S : Wrong(r)}
<1> SUFFICES ASSUME S \in Bad PROVE FALSE
  OBVIOUS
<1>1. \A r \in SUBSET S : IsFiniteSet(r) /\ SumOver(D, r) \in Int
  BY FS_Subset, SumIsInt
<1>2. PICK r \in Bad : \A q \in Bad : Cardinality(r) <= Cardinality(q)
  <2>1. \A q \in Bad : IsFiniteSet(q)
    BY <1>1
  <2> HIDE DEF Bad
  <2> QED  BY <2>1, LeastSet
<1>3. PICK z \in r : SumOver(D, r) # D[z].mark + SumOver(D, r \ {z})
  OBVIOUS
<1> DEFINE x == Choice(r)
<1>4. r \in SUBSET S /\ x \in r /\ IsFiniteSet(r)
  BY <1>1, ChoiceIsMember
<1>5. SumOver(D, r) = D[x].mark + SumOver(D, r \ {x})
  BY <1>4, SumUnfolds
<1>6. x # z
  BY <1>3, <1>5
<1>7. \A w \in r : r \ {w} \notin Bad
  <2> SUFFICES ASSUME NEW w \in r PROVE r \ {w} \notin Bad
    OBVIOUS
  <2>1. Cardinality(r \ {w}) = Cardinality(r) - 1 /\ Cardinality(r) \in Nat
    BY <1>4, FS_RemoveElement, FS_CardinalityType
  <2>2. ~(Cardinality(r) <= Cardinality(r \ {w}))
    BY <2>1
  <2> HIDE DEF Bad
  <2> QED  BY <1>2, <2>2
<1> HIDE DEF x
<1>8. SumOver(D, r \ {x}) = D[z].mark + SumOver(D, (r \ {x}) \ {z})
  BY <1>4, <1>6, <1>7
<1>9. SumOver(D, r \ {z}) = D[x].mark + SumOver(D, (r \ {z}) \ {x})
  BY <1>4, <1>6, <1>7
<1>10. (r \ {x}) \ {z} = (r \ {z}) \ {x} /\ (r \ {x}) \ {z} \in SUBSET S
  BY <1>4
<1>11. /\ SumOver(D, (r \ {x}) \ {z}) \in Int /\ D[x].mark \in Int /\ D[z].mark \in Int
  BY <1>1, <1>4, <1>10
<1>12. /\ SumOver(D, r) = D[x].mark + (D[z].mark + SumOver(D, (r \ {x}) \ {z}))
       /\ SumOver(D, r) # D[z].mark + (D[x].mark + SumOver(D, (r \ {x}) \ {z}))
  <2>1. SumOver(D, r \ {z}) = D[x].mark + SumOver(D, (r \ {x}) \ {z})
    BY <1>9, <1>10
  <2> QED  BY <1>3, <1>5, <1>8, <2>1
<1> DEFINE a == D[x].mark
           b == D[z].mark
           c == SumOver(D, (r \ {x}) \ {z})
<1>13. a \in Int /\ b \in Int /\ c \in Int
  BY <1>11
<1>14. a + (b + c) # b + (a + c)
  BY <1>12
<1> HIDE DEF a, b, c
<1> QED  BY <1>13, <1>14

\* A new member adds its mark.
LEMMA SumAdds ==
    ASSUME NEW D, NEW S, IsFiniteSet(S), NEW y, y \notin S, \A x \in S \cup {y} : D[x].mark \in Int
    PROVE  SumOver(D, S) \in Int /\ SumOver(D, S \cup {y}) = SumOver(D, S) + D[y].mark
<1>1. IsFiniteSet(S \cup {y}) /\ (S \cup {y}) \ {y} = S
  BY FS_AddElement
<1>2. SumOver(D, S) \in Int
  BY SumIsInt
<1>3. SumOver(D, S \cup {y}) = D[y].mark + SumOver(D, (S \cup {y}) \ {y})
  BY <1>1, SumRemoves
<1> DEFINE a == D[y].mark
           b == SumOver(D, S)
<1>4. a \in Int /\ b \in Int /\ SumOver(D, S \cup {y}) = a + b
  BY <1>1, <1>2, <1>3
<1>5. a + b = b + a
  <2> HIDE DEF a, b
  <2> QED  BY <1>4
<1> QED  BY <1>4, <1>5

-----------------------------------------------------------------------------
(* The invariant.                                                           *)

\* The walk has returned these IDs already.
Seen == DOMAIN db \ Range(todo)

Hits == Seen \cap match

Typed ==
    /\ db \in [DOMAIN db -> Content] /\ DOMAIN db \subseteq IDs
    /\ temp_id \in [DOMAIN db -> IDs \cup {Unset}]
    /\ match \subseteq DOMAIN db
    /\ list \in Seq(IDs) /\ Range(list) \subseteq DOMAIN db
    /\ step \in {"prompt", "walk", "copy", "filter", "summarise", "sort", "print", "aborted"}

\* What is still to come is behind all that was returned.
Walk ==
    /\ Lists(todo, Range(todo)) /\ Ascends(todo) /\ Range(todo) \subseteq DOMAIN db
    /\ \A d \in Seen, t \in Range(todo) : d < t
    /\ step \in {"prompt", "sort", "print", "aborted"} => todo = <<>>

Tags ==
    /\ step \in {"walk", "copy"} => command.tag = "SHOW ALL" /\ match = DOMAIN db
    /\ step = "walk" => InIterOrder(command.sort_by)
    /\ step = "filter" => command.tag = "QUERY"
    /\ step \in {"sort", "print"} => command.tag \in {"SHOW ALL", "QUERY"}
    /\ step = "summarise" => command.tag = "SUMMARY"
    /\ step \in {"walk", "copy", "filter", "sort", "print"} => command.sort_by \in SortBys
    /\ step = "aborted" => command.tag = "SUMMARY"
    /\ Listed => command.sort_by \in SortBys

\* A command that lists sets temp_id as it walks.
OwnIDs == step \in {"walk", "copy", "filter", "sort", "print"} => \A d \in Seen : temp_id[d] = d

\* Room is taken by the commands that collect records only.
Rooms == step \in {"prompt", "walk"} => capacity = NoArrays

Printed(s) == [i \in 1 .. Len(s) |-> <<s[i], s[i]>>]

Ids == [i \in 1 .. Len(out) |-> out[i][1]]

\* What the columns of a record hold does not depend on temp_id, but for its ID.
ValueOf(D, id, column) ==
    IF column = "ID" THEN id
    ELSE IF column = "Name" THEN D[id].name
    ELSE IF column = "Programme" THEN D[id].programme
    ELSE D[id].mark

Follows(D, id, next, u) ==
    IF u.ascending THEN ValueOf(D, id, u.column) <= ValueOf(D, next, u.column)
    ELSE ValueOf(D, next, u.column) <= ValueOf(D, id, u.column)

\* s is in the order of u, unless a record of S has NaN in the column.
SortedBy(D, S, s, u) ==
    (\A id \in S : ValueOf(D, id, u.column) # NaN) =>
        \A i, j \in 1 .. Len(s) : i < j => Follows(D, s[i], s[j], u)

Output ==
    /\ out \in Seq(IDs \X IDs) /\ out = Printed(Ids)
    /\ step = "walk" => Lists(Ids, Seen) /\ Ascends(Ids)
    /\ step \in {"copy", "filter", "sort", "print"} => out = <<>>
    /\ Listed => Lists(Ids, match) /\ SortedBy(db, match, Ids, command.sort_by)

Collected ==
    /\ step \in {"copy", "filter"} => Lists(list, Hits) /\ Ascends(list)
    /\ step \in {"sort", "print"} => Lists(list, match)
    /\ step = "sort" => /\ size = Len(list) /\ udata = command.sort_by
                        /\ original = [i \in 0 .. Len(list) - 1 |-> Stored(list[i + 1])]
    /\ step = "print" => SortedBy(db, match, list, command.sort_by)

Bests == [mark : Int \cup {NaN}, list : Seq(IDs)]

\* best is the lowest mark of S, or the highest, and lists those who have it.
Leads(D, S, best, low) ==
    /\ S = {} => best = Nobody
    /\ S # {} =>
          /\ \A x \in S : IF low THEN best.mark <= D[x].mark ELSE D[x].mark <= best.mark
          /\ \E x \in S : best.mark = D[x].mark
          /\ Lists(best.list, {x \in S : D[x].mark = best.mark}) /\ Ascends(best.list)

Least == CHOOSE id \in match : \A m \in match : id <= m

Reporting ==
    /\ step \in {"prompt", "summarise", "aborted"} /\ command.tag = "SUMMARY" =>
          /\ highest \in Bests /\ lowest \in Bests
          /\ Hits = {} => highest = Nobody /\ lowest = Nobody
          /\ count = Cardinality(Hits)
          /\ NaN \notin Marks => /\ sum = SumOver(db, Hits)
                               /\ Leads(db, Hits, highest, FALSE) /\ Leads(db, Hits, lowest, TRUE)
          /\ Hits # {} /\ db[Least].mark # NaN => highest.list # <<>> /\ lowest.list # <<>>
    /\ step = "aborted" => ~ReportAsserts

Told == Typed /\ Walk /\ Tags /\ OwnIDs /\ Rooms /\ Output /\ Collected /\ Reporting

QInv == SortInv /\ Told

-----------------------------------------------------------------------------
(* Records and the sort.                                                    *)

\* Value is what is printed, and compared once temp_id is set.
LEMMA ValueIs ==
    ASSUME NEW id, NEW column \in Column
    PROVE  /\ Value(id, column) = ValueOf(db, id, column)
           /\ Get(Stored(id), column) = IF column = "ID" THEN temp_id[id] ELSE ValueOf(db, id, column)
<1>1. column \in {"ID", "Name", "Programme", "Mark"}
  BY DEF Column
<1>2. Get(Stored(id), column) = IF column = "ID" THEN temp_id[id] ELSE ValueOf(db, id, column)
  BY <1>1 DEF Get, Stored, ValueOf
<1> QED  BY <1>2 DEF Value, ValueOf

\* What cmp_record compares is a number, but for the mark, which may be NaN.
LEMMA ValueTyped ==
    ASSUME Typed, NEW id \in DOMAIN db, NEW column \in Column
    PROVE  /\ ValueOf(db, id, column) \in Int \cup {NaN}
           /\ column # "Mark" => ValueOf(db, id, column) \in Int
           /\ id \in Int /\ temp_id[id] \in Int
<1>1. db[id] \in Content /\ id \in IDs /\ temp_id[id] \in IDs \cup {Unset}
  BY DEF Typed
<1>2. id \in Int /\ temp_id[id] \in Int
  BY <1>1, IDsAssumption, UnsetAssumption
<1>3. db[id].name \in Int /\ db[id].programme \in Int /\ db[id].mark \in Int \cup {NaN}
  BY <1>1, ContentAssumption
<1> QED  BY <1>2, <1>3 DEF ValueOf, Column

\* A record of the tree is an item that quicksort may be given.
LEMMA StoredIsItem ==
    ASSUME Typed, NEW id \in DOMAIN db
    PROVE  Stored(id) \in Item /\ Stored(id).id = id
<1>1. db[id] \in Content /\ id \in IDs /\ temp_id[id] \in IDs \cup {Unset}
  BY DEF Typed
<1> QED  BY <1>1, ItemAssumption DEF Stored

Copies(s) == [i \in 0 .. Len(s) - 1 |-> Stored(s[i + 1])]

\* quicksort is only called with records, and steps only while a command waits for it.
LEMMA SortSteps ==
    ASSUME Typed, Tags, [Next]_vars
    PROVE  [SortNext]_sortVars
<1>1. CASE CallSort
  <2>1. command.sort_by \in Order
    BY <1>1, SortBysAssumption DEF CallSort, MustSort, Walked, Tags
  <2>2. Copies(list) \in Arrays(Len(list)) /\ Len(list) \in Nat
    <3>1. list \in Seq(IDs) /\ Range(list) \subseteq DOMAIN db
      BY DEF Typed
    <3>2. Len(list) \in Nat /\ \A i \in 1 .. Len(list) : list[i] \in DOMAIN db
      BY <3>1 DEF Range
    <3>3. \A i \in 0 .. Len(list) - 1 : i + 1 \in 1 .. Len(list)
      BY <3>2
    <3>4. \A i \in 0 .. Len(list) - 1 : Stored(list[i + 1]) \in Item
      BY <3>2, <3>3, StoredIsItem
    <3> QED  BY <3>2, <3>4 DEF Copies, Arrays
  <2>3. Call(Copies(list), Len(list), command.sort_by)
    BY <1>1 DEF CallSort, Copies
  <2> HIDE DEF Copies
  <2> QED  BY <2>1, <2>2, <2>3 DEF SortNext
<1>2. CASE Sorting
  BY <1>2 DEF Sorting, SortNext
<1>3. CASE UNCHANGED sortVars
  BY <1>3
<1>4. [Next]_vars => CallSort \/ Sorting \/ UNCHANGED sortVars
  BY DEF Next, Continue, ShowAll, Says, Query, Summary, Start, PrintNext, EndWalk, CopyNext, FilterNext,
         SummariseNext, Grow, NoneMatch, PrintList, Report, vars
<1> QED  BY <1>1, <1>2, <1>3, <1>4

\* cmp_record is an order on records, unless one of them has NaN in the column.
LEMMA RecordsHaveOrder ==
    ASSUME Typed, NEW S, S \subseteq DOMAIN db, NEW u \in Order,
           \A id \in S : ValueOf(db, id, u.column) # NaN,
           u.column = "ID" => \A id \in S : temp_id[id] = id
    PROVE  /\ Orders({Stored(id) : id \in S}, u)
           /\ \A id, other \in S : Cmp(Stored(id), Stored(other), u) <= 0
                                   => Follows(db, id, other, u)
<1>1. u.column \in Column /\ u.ascending \in BOOLEAN
  BY SortBysAssumption
<1> DEFINE V(id) == ValueOf(db, id, u.column)
           C(x, y) == IF u.ascending THEN Bit(x > y) - Bit(x < y) ELSE -(Bit(x > y) - Bit(x < y))
<1>2. \A id \in S : V(id) \in Int /\ Get(Stored(id), u.column) = V(id)
  BY <1>1, ValueIs, ValueTyped DEF ValueOf
<1>3. \A id, other \in S : Cmp(Stored(id), Stored(other), u) = C(V(id), V(other))
  <2> SUFFICES ASSUME NEW id \in S, NEW other \in S
               PROVE  Cmp(Stored(id), Stored(other), u) = C(V(id), V(other))
    OBVIOUS
  <2>1. Cmp(Stored(id), Stored(other), u) = CmpRecord(Stored(id), Stored(other), u)
    BY StoredIsItem, ItemAssumption
  <2>2. V(id) \in Int /\ V(other) \in Int /\ NaN \notin Int
    BY <1>2, ContentAssumption
  <2> HIDE DEF V
  <2>3. CmpRecord(Stored(id), Stored(other), u) = C(V(id), V(other))
    BY <1>2, <2>2 DEF CmpRecord, CmpFloat, CmpOrdered, FloatLess, Bit
  <2> QED  BY <2>1, <2>3
<1>4. \A x, y \in Int : C(x, y) < 0 <=> C(y, x) > 0
  BY <1>1 DEF Bit
<1>A. \A x, y \in Int : u.ascending => (C(x, y) <= 0 <=> x <= y)
  BY DEF Bit
<1>B. \A x, y \in Int : ~u.ascending => (C(x, y) <= 0 <=> y <= x)
  BY <1>1 DEF Bit
<1> HIDE DEF C
<1>5. Orders({Stored(id) : id \in S}, u)
  <2> HIDE DEF V
  <2>1. ASSUME NEW x \in S, NEW y \in S
        PROVE  Cmp(Stored(x), Stored(y), u) < 0 <=> Cmp(Stored(y), Stored(x), u) > 0
    <3>1. V(x) \in Int /\ V(y) \in Int
      BY <1>2
    <3>2. C(V(x), V(y)) < 0 <=> C(V(y), V(x)) > 0
      BY <3>1, <1>4
    <3> QED  BY <1>3, <3>2
  <2>2. ASSUME NEW x \in S, NEW y \in S, NEW z \in S,
               Cmp(Stored(x), Stored(y), u) <= 0, Cmp(Stored(y), Stored(z), u) <= 0
        PROVE  Cmp(Stored(x), Stored(z), u) <= 0
    <3>1. V(x) \in Int /\ V(y) \in Int /\ V(z) \in Int
      BY <1>2
    <3>2. C(V(x), V(y)) <= 0 /\ C(V(y), V(z)) <= 0
      BY <1>3, <2>2
    <3>3. CASE u.ascending
      <4>1. V(x) <= V(y) /\ V(y) <= V(z)
        BY <1>A, <3>1, <3>2, <3>3
      <4>2. V(x) <= V(z)
        BY <3>1, <4>1
      <4>3. C(V(x), V(z)) <= 0
        BY <1>A, <3>1, <3>3, <4>2
      <4> QED  BY <1>3, <4>3
    <3>4. CASE ~u.ascending
      <4>1. V(y) <= V(x) /\ V(z) <= V(y)
        BY <1>B, <3>1, <3>2, <3>4
      <4>2. V(z) <= V(x)
        BY <3>1, <4>1
      <4>3. C(V(x), V(z)) <= 0
        BY <1>B, <3>1, <3>4, <4>2
      <4> QED  BY <1>3, <4>3
    <3> QED  BY <3>3, <3>4
  <2> QED  BY <2>1, <2>2 DEF Orders
<1>6. \A id, other \in S : Cmp(Stored(id), Stored(other), u) <= 0 => Follows(db, id, other, u)
  <2> SUFFICES ASSUME NEW id \in S, NEW other \in S, Cmp(Stored(id), Stored(other), u) <= 0
               PROVE  Follows(db, id, other, u)
    OBVIOUS
  <2>1. IF u.ascending THEN V(id) <= V(other) ELSE V(other) <= V(id)
    <3> HIDE DEF V
    <3>1. V(id) \in Int /\ V(other) \in Int
      BY <1>2
    <3>2. C(V(id), V(other)) <= 0
      BY <1>3
    <3> QED  BY <1>A, <1>B, <3>1, <3>2
  <2> QED  BY <2>1 DEF Follows
<1> QED  BY <1>5, <1>6

-----------------------------------------------------------------------------
(* The steps of the commands.                                               *)

\* main starts with the invariant.
LEMMA InitTells == Init => Told
<1> SUFFICES ASSUME Init PROVE Told
  OBVIOUS
<1>1. /\ step = "prompt" /\ todo = <<>> /\ list = <<>> /\ out = <<>> /\ match = {}
      /\ command = [tag |-> "NONE"] /\ capacity = NoArrays
      /\ temp_id = [id \in DOMAIN db |-> Unset]
  BY DEF Init
<1>2. PICK S \in SUBSET IDs : db \in [S -> Content]
  BY DEF Init
<1>3. Typed
  BY <1>1, <1>2, NothingListed DEF Typed
<1>4. Walk
  BY <1>1, NothingListed DEF Walk
<1>5. Tags /\ OwnIDs /\ Rooms /\ Collected /\ Reporting /\ ~Listed
  BY <1>1 DEF Tags, OwnIDs, Rooms, Collected, Reporting, Listed
<1>6. Output
  BY <1>1, <1>5 DEF Output, Printed, Ids
<1> QED  BY <1>3, <1>4, <1>5, <1>6 DEF Told

\* A command starts with everything but the records cleared.
LEMMA StartTells ==
    ASSUME Told, NEW cmd, NEW m \in SUBSET DOMAIN db,
           NEW where \in {"prompt", "walk", "copy", "filter", "summarise"}, Start(cmd, m, where),
           Tags', Rooms', where = "prompt" => cmd.tag \notin {"SHOW ALL", "QUERY", "SUMMARY"}
    PROVE  Told'
<1>1. /\ step' = where /\ command' = cmd /\ match' = m /\ list' = <<>> /\ out' = <<>>
      /\ highest' = Nobody /\ lowest' = Nobody /\ count' = 0 /\ sum' = 0
      /\ db' = db /\ temp_id' = temp_id
      /\ todo' = IF where = "prompt" THEN <<>> ELSE InOrder(DOMAIN db)
  BY DEF Start
<1>2. DOMAIN db \subseteq IDs
  BY DEF Told, Typed
<1>3. Typed'
  <2>1. list' \in Seq(IDs) /\ Range(list') = {}
    BY <1>1, EmptyRows, Zenon
  <2> QED  BY <1>1, <2>1 DEF Told, Typed
<1>4. where # "prompt" => Range(todo') = DOMAIN db /\ Seen' = {} /\ Hits' = {}
  BY <1>1, <1>2, InOrderLists DEF Lists, Seen, Hits
<1>5. Walk'
  <2>1. CASE where = "prompt"
    BY <1>1, <2>1, NothingListed DEF Walk
  <2>2. CASE where # "prompt"
    BY <1>1, <1>2, <1>4, <2>2, InOrderLists DEF Walk
  <2> QED  BY <2>1, <2>2
<1>6. OwnIDs'
  BY <1>1, <1>4 DEF OwnIDs
<1>7. Output'
  <2>1. Ids' = <<>> /\ out' = Printed(Ids') /\ out' \in Seq(IDs \X IDs)
    <3>1. out' = <<>>
      BY <1>1
    <3>2. Ids' = <<>>
      BY <3>1, EmptyRows, Zenon DEF Ids
    <3> QED  BY <3>1, <3>2, EmptyRows, Zenon DEF Printed
  <2>2. ~Listed' /\ step' # "sort"
    BY <1>1 DEF Listed
  <2>3. Lists(Ids', {}) /\ Ascends(Ids')
    BY <2>1, NothingListed
  <2> QED  BY <1>1, <1>4, <2>1, <2>2, <2>3 DEF Output
<1>8. Collected'
  BY <1>1, <1>4, NothingListed DEF Collected
<1>9. Reporting'
  <2>1. CASE where = "summarise"
    <3>1. Hits' = {} /\ count' = Cardinality(Hits') /\ sum' = SumOver(db', Hits')
      BY <1>1, <1>4, <2>1, FS_EmptySet, SumUnfolds
    <3>2. Nobody \in Bests
      <4>1. <<>> \in Seq(IDs)
        BY EmptyRows
      <4> QED  BY <4>1 DEF Nobody, Bests
    <3> QED  BY <1>1, <2>1, <3>1, <3>2 DEF Reporting, Leads
  <2>2. CASE where # "summarise"
    BY <1>1, <2>2 DEF Reporting
  <2> QED  BY <2>1, <2>2
<1> QED  BY <1>3, <1>5, <1>6, <1>7, <1>8, <1>9 DEF Told

\* SHOW ALL walks the tree, copies it, or says why it does neither.
LEMMA ShowAllTells ==
    ASSUME Told, NEW s \in SortBys, ShowAll(s)
    PROVE  Told'
<1> DEFINE cmd == [tag |-> "SHOW ALL", sort_by |-> s]
<1>1. CASE Empty /\ Says("NO RECORDS")
  <2>1. Start([tag |-> "NO RECORDS"], {}, "prompt") /\ capacity' = capacity
    BY <1>1 DEF Says
  <2>2. Tags' /\ Rooms'
    BY <2>1 DEF Start, Tags, Rooms, Listed, Told
  <2> QED  BY <2>1, <2>2, StartTells
<1>2. CASE ~Empty /\ InIterOrder(s) /\ Start(cmd, DOMAIN db, "walk") /\ UNCHANGED capacity
  <2>1. Tags' /\ Rooms'
    BY <1>2 DEF Start, Tags, Rooms, Listed, Told
  <2> QED  BY <1>2, <2>1, StartTells
<1>3. CASE ~Empty /\ ~InIterOrder(s) /\ Says("OUT OF MEMORY")
  <2>1. Start([tag |-> "OUT OF MEMORY"], {}, "prompt") /\ capacity' = capacity
    BY <1>3 DEF Says
  <2>2. Tags' /\ Rooms'
    BY <2>1 DEF Start, Tags, Rooms, Listed, Told
  <2> QED  BY <2>1, <2>2, StartTells
<1>4. CASE ~Empty /\ ~InIterOrder(s) /\ Start(cmd, DOMAIN db, "copy")
  <2>1. Tags' /\ Rooms'
    BY <1>4 DEF Start, Tags, Rooms, Listed
  <2> QED  BY <1>4, <2>1, StartTells
<1> QED  BY <1>1, <1>2, <1>3, <1>4 DEF ShowAll

\* QUERY starts to filter.
LEMMA QueryTells ==
    ASSUME Told, NEW s \in SortBys, NEW m \in SUBSET DOMAIN db, Query(s, m)
    PROVE  Told'
<1>1. Start([tag |-> "QUERY", sort_by |-> s], m, "filter")
  BY DEF Query
<1>2. Tags' /\ Rooms'
  BY <1>1 DEF Start, Tags, Rooms, Listed
<1> QED  BY <1>1, <1>2, StartTells

\* SHOW SUMMARY starts to read.
LEMMA SummaryTells ==
    ASSUME Told, NEW filtered \in BOOLEAN, NEW m \in SUBSET DOMAIN db, Summary(filtered, m)
    PROVE  Told'
<1>1. Start([tag |-> "SUMMARY", filtered |-> filtered], m, "summarise")
  BY DEF Summary
<1>2. Tags' /\ Rooms'
  BY <1>1 DEF Start, Tags, Rooms, Listed
<1> QED  BY <1>1, <1>2, StartTells

\* The walk returns one more record, behind those it has returned.
LEMMA WalkOn ==
    ASSUME Typed, Walk, todo # <<>>, todo' = Tail(todo), UNCHANGED <<db, match>>
    PROVE  /\ Head(todo) \in DOMAIN db /\ Head(todo) \in IDs /\ Head(todo) \notin Seen
           /\ Seen' = Seen \cup {Head(todo)} /\ \A d \in Seen : d < Head(todo)
           /\ Hits' = IF Head(todo) \in match THEN Hits \cup {Head(todo)} ELSE Hits
           /\ Seen \subseteq IDs /\ Hits \subseteq IDs /\ IsFiniteSet(Hits)
           /\ step' \notin {"prompt", "sort", "print", "aborted"} => Walk'
<1> DEFINE id == Head(todo)
           R == Range(todo)
<1>1. R \subseteq DOMAIN db /\ DOMAIN db \subseteq IDs /\ Lists(todo, R) /\ Ascends(todo)
  BY DEF Typed, Walk
<1>2. /\ id \in R /\ Lists(Tail(todo), R \ {id}) /\ Ascends(Tail(todo))
      /\ \A y \in R \ {id} : id < y
  <2>1. R \subseteq IDs
    BY <1>1
  <2> HIDE DEF R
  <2> QED  BY <1>1, <2>1, TailLists
<1>3. Range(todo') = R \ {id}
  BY <1>2 DEF Lists
<1>4. Seen' = Seen \cup {id} /\ id \notin Seen
  BY <1>1, <1>2, <1>3 DEF Seen
<1>5. \A d \in Seen : d < id
  BY <1>2 DEF Walk
<1>6. Hits' = IF id \in match THEN Hits \cup {id} ELSE Hits
  BY <1>4 DEF Hits
<1>7. IsFiniteSet(Hits) /\ Seen \subseteq IDs /\ Hits \subseteq IDs
  BY <1>1, IDsAssumption, FS_Subset DEF Hits, Seen
<1>8. ASSUME step' \notin {"prompt", "sort", "print", "aborted"} PROVE Walk'
  <2>1. \A d \in Seen', t \in R \ {id} : d < t
    BY <1>2, <1>4 DEF Walk
  <2> QED  BY <1>1, <1>2, <1>3, <1>8, <2>1 DEF Walk
<1> QED  BY <1>1, <1>2, <1>4, <1>5, <1>6, <1>7, <1>8

\* What Append makes of a sequence.
LEMMA AppendIsFunction ==
    ASSUME NEW S, NEW s \in Seq(S), NEW x \in S
    PROVE  Append(s, x) = [i \in 1 .. Len(s) + 1 |-> IF i = Len(s) + 1 THEN x ELSE s[i]]
<1> DEFINE r == Append(s, x)
<1>1. r \in Seq(S) /\ Len(r) = Len(s) + 1 /\ Len(s) \in Nat
      /\ \A i \in 1 .. Len(s) + 1 : r[i] = IF i = Len(s) + 1 THEN x ELSE s[i]
  OBVIOUS
<1> HIDE DEF r
<1>2. r = [i \in 1 .. Len(r) |-> r[i]]
  BY <1>1
<1>3. r = [i \in 1 .. Len(s) + 1 |-> IF i = Len(s) + 1 THEN x ELSE s[i]]
  BY <1>1, <1>2
<1> QED  BY <1>3 DEF r

\* A walk that sets temp_id sets it to the ID.
LEMMA SetIDTells ==
    ASSUME Typed, NEW id \in DOMAIN db, id \in IDs, NEW S, S \subseteq DOMAIN db,
           \A d \in S : temp_id[d] = d
    PROVE  /\ SetID(id) \in [DOMAIN db -> IDs \cup {Unset}]
           /\ \A d \in S \cup {id} : SetID(id)[d] = d
BY DEF Typed, SetID

\* The walk of SHOW ALL prints one more record.
LEMMA PrintNextTells ==
    ASSUME Told, PrintNext
    PROVE  Told'
<1> DEFINE id == Head(todo)
<1>1. /\ step = "walk" /\ step' = "walk" /\ todo # <<>> /\ todo' = Tail(todo)
      /\ temp_id' = SetID(id) /\ out' = Append(out, <<id, temp_id'[id]>>)
      /\ UNCHANGED <<db, command, match, list, capacity>>
  BY DEF PrintNext, NextOf
<1>2. /\ id \in DOMAIN db /\ id \in IDs /\ id \notin Seen /\ Seen' = Seen \cup {id}
      /\ Seen \subseteq IDs /\ Seen \subseteq DOMAIN db /\ (\A d \in Seen : d < id) /\ Walk'
  BY <1>1, WalkOn DEF Told, Seen
<1> HIDE DEF id
<1>3. /\ temp_id' \in [DOMAIN db -> IDs \cup {Unset}]
      /\ \A d \in Seen \cup {id} : temp_id'[d] = d
  BY <1>1, <1>2, SetIDTells DEF Told, OwnIDs
<1>4. Typed' /\ OwnIDs' /\ Tags' /\ Rooms' /\ Collected' /\ Reporting' /\ ~Listed'
  BY <1>1, <1>2, <1>3 DEF Told, Typed, OwnIDs, Tags, Rooms, Collected, Reporting, Listed
<1>5. /\ out \in Seq(IDs \X IDs) /\ Len(out) \in Nat
      /\ \A i \in 1 .. Len(out) : out[i] = <<out[i][1], out[i][1]>> /\ out[i][1] \in IDs
      /\ Lists(Ids, Seen) /\ Ascends(Ids)
  <2>1. out \in Seq(IDs \X IDs) /\ out = Printed(Ids) /\ Lists(Ids, Seen) /\ Ascends(Ids)
    BY <1>1 DEF Told, Output
  <2>2. Len(out) \in Nat /\ \A i \in 1 .. Len(out) : out[i] \in IDs \X IDs
    BY <2>1
  <2>3. Ids \in [1 .. Len(out) -> IDs] /\ \A i \in 1 .. Len(out) : Ids[i] = out[i][1]
    BY <2>2 DEF Ids
  <2>4. Len(Ids) = Len(out)
    BY <2>2, <2>3, RowIsSequence
  <2>5. \A i \in 1 .. Len(out) : Printed(Ids)[i] = <<Ids[i], Ids[i]>>
    BY <2>4 DEF Printed
  <2>6. \A i \in 1 .. Len(out) : out[i] = <<out[i][1], out[i][1]>>
    BY <2>1, <2>3, <2>5
  <2> QED  BY <2>1, <2>2, <2>6
<1>6. out' = Append(out, <<id, id>>)
  BY <1>1, <1>3
<1>7. /\ out' \in Seq(IDs \X IDs) /\ Len(out') = Len(out) + 1
      /\ \A i \in 1 .. Len(out') : out'[i] = IF i = Len(out) + 1 THEN <<id, id>> ELSE out[i]
  BY <1>2, <1>5, <1>6
<1>8. Ids' = Append(Ids, id)
  <2>1. Ids = [i \in 1 .. Len(out) |-> out[i][1]] /\ Ids' = [i \in 1 .. Len(out) + 1 |-> out'[i][1]]
    BY <1>7 DEF Ids
  <2>2. Ids \in Seq(IDs) /\ Len(Ids) = Len(out) /\ \A i \in 1 .. Len(out) : Ids[i] = out[i][1]
    BY <1>5, <2>1, RowIsSequence
  <2>3. \A i \in 1 .. Len(out) + 1 : out'[i][1] = IF i = Len(out) + 1 THEN id ELSE Ids[i]
    BY <1>5, <1>7, <2>2
  <2>4. Append(Ids, id) = [i \in 1 .. Len(out) + 1 |-> IF i = Len(out) + 1 THEN id ELSE Ids[i]]
    <3> HIDE DEF Ids
    <3>1. Ids \in Seq(IDs) /\ id \in IDs /\ Len(Ids) = Len(out)
      BY <1>2, <2>2
    <3> QED  BY <3>1, AppendIsFunction
  <2> QED  BY <2>1, <2>3, <2>4
<1>9. Lists(Ids', Seen') /\ Ascends(Ids')
  BY <1>2, <1>5, <1>8, AppendLists
<1>10. out' = Printed(Ids')
  <2>1. Len(Ids') = Len(out')
    <3>1. Ids' \in [1 .. Len(out') -> IDs]
      <4>1. \A i \in 1 .. Len(out') : out'[i][1] \in IDs
        BY <1>2, <1>5, <1>7
      <4> QED  BY <4>1 DEF Ids
    <3>2. Len(out') \in Nat
      BY <1>5, <1>7
    <3> QED  BY <3>1, <3>2, RowIsSequence
  <2>2. \A i \in 1 .. Len(out') : out'[i] = <<out'[i][1], out'[i][1]>>
    BY <1>5, <1>7
  <2>3. \A i \in 1 .. Len(out') : Ids'[i] = out'[i][1]
    BY DEF Ids
  <2>4. out' = [i \in 1 .. Len(out') |-> out'[i]]
    BY <1>7
  <2> QED  BY <2>1, <2>2, <2>3, <2>4 DEF Printed
<1>11. Output'
  BY <1>1, <1>4, <1>7, <1>9, <1>10 DEF Output
<1> QED  BY <1>2, <1>4, <1>11 DEF Told

\* The order of IDs is SORT BY ID.
LEMMA IterOrderIsSorted ==
    ASSUME NEW D, NEW S, S \subseteq IDs, NEW s, Lists(s, S), Ascends(s), NEW u, InIterOrder(u)
    PROVE  SortedBy(D, S, s, u)
<1>1. s \in Seq(IDs)
  BY DEF Lists
<1>2. \A i \in 1 .. Len(s) : s[i] \in Int
  <2>1. \A i \in 1 .. Len(s) : s[i] \in IDs
    BY <1>1
  <2> QED  BY <2>1, IDsAssumption
<1> QED  BY <1>2 DEF SortedBy, Follows, ValueOf, Ascends, InIterOrder

\* A walk with nothing to come has returned every record.
LEMMA WalkedAll ==
    ASSUME todo = <<>> PROVE Seen = DOMAIN db /\ Hits = DOMAIN db \cap match
BY NothingListed DEF Seen, Hits

\* The walk of SHOW ALL ends with every record printed in order.
LEMMA EndWalkTells ==
    ASSUME Told, EndWalk
    PROVE  Told'
<1>1. /\ step = "walk" /\ step' = "prompt" /\ todo = <<>>
      /\ UNCHANGED <<db, temp_id, command, match, todo, list, capacity, out>>
  BY DEF EndWalk, Walked
<1>2. Seen = DOMAIN db /\ match = DOMAIN db /\ DOMAIN db \subseteq IDs
  BY <1>1, WalkedAll DEF Told, Tags, Typed
<1>3. Lists(Ids, match) /\ Ascends(Ids) /\ InIterOrder(command.sort_by)
  BY <1>1, <1>2 DEF Told, Output, Tags
<1>4. SortedBy(db, match, Ids, command.sort_by)
  BY <1>2, <1>3, IterOrderIsSorted
<1>5. Ids' = Ids
  BY <1>1 DEF Ids
<1>6. Output'
  BY <1>1, <1>3, <1>4, <1>5 DEF Told, Output
<1>7. Typed' /\ OwnIDs' /\ Tags' /\ Rooms' /\ Collected'
  BY <1>1 DEF Told, Typed, OwnIDs, Tags, Rooms, Collected, Listed
<1>8. Reporting'
  BY <1>1 DEF Reporting, Told, Tags
<1>9. Walk'
  BY <1>1 DEF Told, Walk, Seen
<1> QED  BY <1>6, <1>7, <1>8, <1>9 DEF Told

\* A record that matches is collected behind the others.
LEMMA CollectOn ==
    ASSUME Typed, Walk, todo # <<>>, todo' = Tail(todo), UNCHANGED <<db, match>>,
           Lists(list, Hits), Ascends(list),
           list' = IF Head(todo) \in match THEN Append(list, Head(todo)) ELSE list
    PROVE  Lists(list', Hits') /\ Ascends(list') /\ list' \in Seq(IDs) /\ Range(list') \subseteq DOMAIN db
<1> DEFINE id == Head(todo)
<1>1. /\ id \in IDs /\ id \notin Seen /\ (\A d \in Seen : d < id) /\ Hits \subseteq IDs
      /\ Hits' = IF id \in match THEN Hits \cup {id} ELSE Hits
  BY WalkOn
<1>2. Hits \subseteq Seen
  BY DEF Hits
<1> HIDE DEF id
<1>3. CASE id \in match
  <2>1. list' = Append(list, id) /\ Hits' = Hits \cup {id}
    BY <1>1, <1>3 DEF id
  <2>2. Lists(Append(list, id), Hits \cup {id}) /\ Ascends(Append(list, id))
    BY <1>1, <1>2, AppendLists
  <2> QED  BY <2>1, <2>2 DEF Lists, Hits, Seen
<1>4. CASE id \notin match
  <2>1. list' = list /\ Hits' = Hits
    BY <1>1, <1>4 DEF id
  <2> QED  BY <2>1 DEF Lists, Hits, Seen
<1> QED  BY <1>3, <1>4

\* Records are collected for the sort one at a time.
LEMMA CollectNextTells ==
    ASSUME Told, CopyNext \/ FilterNext
    PROVE  Told'
<1> DEFINE id == Head(todo)
<1>1. /\ step \in {"copy", "filter"} /\ step' = step /\ todo # <<>> /\ todo' = Tail(todo)
      /\ temp_id' = SetID(id)
      /\ UNCHANGED <<db, command, match, out>>
  BY DEF CopyNext, FilterNext, NextOf
<1>2. /\ id \in DOMAIN db /\ id \in IDs /\ Seen' = Seen \cup {id} /\ Seen \subseteq DOMAIN db
      /\ Walk'
  BY <1>1, WalkOn DEF Told, Seen
<1>3. list' = IF id \in match THEN Append(list, id) ELSE list
  BY <1>2 DEF CopyNext, FilterNext, NextOf, Matches, Told, Tags
<1>4. Lists(list, Hits) /\ Ascends(list)
  BY <1>1 DEF Told, Collected
<1>5. /\ Lists(list', Hits') /\ Ascends(list') /\ list' \in Seq(IDs)
      /\ Range(list') \subseteq DOMAIN db
  BY <1>1, <1>3, <1>4, CollectOn DEF Told
<1> HIDE DEF id
<1>6. /\ temp_id' \in [DOMAIN db -> IDs \cup {Unset}]
      /\ \A d \in Seen \cup {id} : temp_id'[d] = d
  BY <1>1, <1>2, SetIDTells DEF Told, OwnIDs
<1>7. Typed' /\ OwnIDs' /\ Tags' /\ Rooms' /\ Reporting' /\ ~Listed'
  BY <1>1, <1>2, <1>5, <1>6 DEF Told, Typed, OwnIDs, Tags, Rooms, Reporting, Listed
<1>8. Collected'
  BY <1>1, <1>5 DEF Collected
<1>9. Output'
  BY <1>1, <1>7 DEF Told, Output, Ids
<1> QED  BY <1>2, <1>7, <1>8, <1>9 DEF Told

\* A step that changes none of this keeps it.
LEMMA StandsTells ==
    ASSUME Told, UNCHANGED <<db, temp_id, command, match, todo, list, found, out, step>>,
           step = "sort" => UNCHANGED <<size, udata, original>>, Rooms'
    PROVE  Told'
<1>1. UNCHANGED <<highest, lowest, count, sum>>
  BY DEF found
<1>2. Ids' = Ids /\ Seen' = Seen /\ Hits' = Hits /\ Listed' = Listed /\ Marks' = Marks
  BY DEF Ids, Seen, Hits, Listed, Marks
<1>3. \A id : Stored(id)' = Stored(id)
  BY DEF Stored
<1>4. Typed' /\ Walk' /\ Tags' /\ OwnIDs'
  BY <1>2 DEF Told, Typed, Walk, Tags, OwnIDs
<1>5. Output' /\ Collected'
  BY <1>2, <1>3 DEF Told, Output, Collected
<1>6. ReportAsserts' = ReportAsserts /\ Least' = Least
  BY <1>1 DEF ReportAsserts, Least
<1>7. Reporting'
  BY <1>1, <1>2, <1>6 DEF Told, Reporting
<1> QED  BY <1>4, <1>5, <1>7 DEF Told

\* A list grows while its record waits.
LEMMA GrowTells ==
    ASSUME Told, NEW l \in DOMAIN capacity, Grow(l)
    PROVE  Told'
<1>1. Rooms'
  BY DEF Grow, Rooms
<1> QED  BY <1>1, StandsTells DEF Grow

\* A record that matches joins the list of the best, or starts it anew.
LEMMA JoinedLeads ==
    ASSUME NEW D, NEW S, S \subseteq IDs, NEW id \in IDs, id \notin S, \A x \in S : x < id,
           \A x \in S \cup {id} : D[x].mark \in Int, NEW low \in BOOLEAN,
           NEW best \in Bests, Leads(D, S, best, low),
           NEW start, start = IF S = {} THEN [best EXCEPT !.mark = D[id].mark] ELSE best,
           NEW better, better <=> IF low THEN D[id].mark < start.mark ELSE start.mark < D[id].mark,
           NEW asGood, asGood <=> IF low THEN D[id].mark <= start.mark ELSE start.mark <= D[id].mark
    PROVE  Leads(D, S \cup {id}, Joined(start, id, D[id].mark, better, asGood), low)
<1> DEFINE m == D[id].mark
           r == Joined(start, id, m, better, asGood)
           T == S \cup {id}
           Who(b) == {x \in T : D[x].mark = b.mark}
<1>1. m \in Int /\ best.mark \in Int \cup {NaN} /\ best.list \in Seq(IDs)
  BY DEF Bests
<1>2. Lists(<<id>>, {id}) /\ Ascends(<<id>>)
  <2>1. Lists(Append(<<>>, id), {} \cup {id}) /\ Ascends(Append(<<>>, id))
    BY NothingListed, AppendLists
  <2>2. Append(<<>>, id) = <<id>>
    OBVIOUS
  <2> QED  BY <2>1, <2>2
<1>3. SUFFICES /\ \A x \in T : IF low THEN r.mark <= D[x].mark ELSE D[x].mark <= r.mark
               /\ \E x \in T : r.mark = D[x].mark
               /\ Lists(r.list, Who(r)) /\ Ascends(r.list)
  BY DEF Leads
<1>4. CASE S = {}
  <2>1. best = Nobody
    BY <1>4 DEF Leads
  <2>2. start.mark = m /\ start.list = <<>>
    BY <1>4, <2>1 DEF Nobody
  <2>3. ~better /\ asGood
    BY <1>1, <2>2
  <2>4. r.mark = m /\ r.list = Append(<<>>, id)
    <3>1. r = [start EXCEPT !.list = Append(@, id)]
      BY <2>3 DEF Joined
    <3>2. DOMAIN start = {"mark", "list"}
      BY <1>4, <2>1 DEF Nobody
    <3> QED  BY <2>2, <3>1, <3>2
  <2>5. Append(<<>>, id) = <<id>>
    OBVIOUS
  <2>6. T = {id} /\ Who(r) = {id}
    BY <1>4, <2>4
  <2> HIDE DEF r, T, Who
  <2>7. \A x \in T : x = id
    BY <2>6
  <2> QED  BY <1>1, <1>2, <2>4, <2>5, <2>6, <2>7
<1>5. CASE S # {}
  <2>1. /\ start = best
        /\ \A x \in S : IF low THEN best.mark <= D[x].mark ELSE D[x].mark <= best.mark
        /\ Lists(best.list, {x \in S : D[x].mark = best.mark}) /\ Ascends(best.list)
    BY <1>5 DEF Leads
  <2>2. PICK h \in S : best.mark = D[h].mark
    BY <1>5 DEF Leads
  <2>3. best.mark \in Int
    BY <2>2
  <2>4. CASE better
    <3>1. r.mark = m /\ r.list = <<id>>
      BY <2>4 DEF Joined
    <3>2. \A x \in S : IF low THEN m < D[x].mark ELSE D[x].mark < m
      BY <1>1, <2>1, <2>3, <2>4
    <3>3. Who(r) = {id}
      BY <1>1, <3>1, <3>2
    <3>4. \A x \in T : IF low THEN r.mark <= D[x].mark ELSE D[x].mark <= r.mark
      BY <1>1, <3>1, <3>2
    <3>5. id \in T /\ r.mark = D[id].mark
      BY <3>1
    <3> HIDE DEF r, Who
    <3> QED  BY <1>2, <3>1, <3>3, <3>4, <3>5
  <2>5. CASE ~better /\ asGood
    <3>1. m = best.mark
      BY <1>1, <2>1, <2>3, <2>5
    <3>2. r.mark = m /\ r.list = Append(best.list, id)
      BY <2>1, <2>5, <3>1 DEF Joined, Bests
    <3> DEFINE W == {x \in S : D[x].mark = best.mark}
    <3>3. Who(r) = W \cup {id} /\ W \subseteq IDs /\ id \notin W /\ \A x \in W : x < id
      BY <3>1, <3>2
    <3>4. Lists(best.list, W) /\ Ascends(best.list)
      BY <2>1
    <3>5. Lists(Append(best.list, id), W \cup {id}) /\ Ascends(Append(best.list, id))
      <4> HIDE DEF W
      <4> QED  BY <3>3, <3>4, AppendLists
    <3>6. \A x \in T : IF low THEN r.mark <= D[x].mark ELSE D[x].mark <= r.mark
      BY <1>1, <2>1, <3>1, <3>2
    <3>7. id \in T /\ r.mark = D[id].mark
      BY <3>2
    <3> HIDE DEF r, Who, W
    <3> QED  BY <3>2, <3>3, <3>5, <3>6, <3>7
  <2>6. CASE ~better /\ ~asGood
    <3>1. r = best
      BY <2>1, <2>6 DEF Joined
    <3>2. IF low THEN best.mark < m ELSE m < best.mark
      BY <1>1, <2>1, <2>3, <2>6
    <3>3. Who(r) = {x \in S : D[x].mark = best.mark}
      BY <1>1, <2>3, <3>1, <3>2
    <3>4. \A x \in T : IF low THEN r.mark <= D[x].mark ELSE D[x].mark <= r.mark
      BY <1>1, <2>1, <2>3, <3>1, <3>2
    <3>5. h \in T /\ r.mark = D[h].mark
      BY <2>2, <3>1
    <3> HIDE DEF r, Who
    <3> QED  BY <2>1, <3>1, <3>3, <3>4, <3>5
  <2> QED  BY <2>4, <2>5, <2>6
<1> QED  BY <1>4, <1>5

\* The first record that matches is the least of them all.
LEMMA FirstIsLeast ==
    ASSUME Typed, Walk, todo # <<>>, todo' = Tail(todo), UNCHANGED <<db, match>>,
           Hits = {}, Head(todo) \in match
    PROVE  Least = Head(todo)
<1> DEFINE id == Head(todo)
<1>1. match \subseteq DOMAIN db /\ DOMAIN db \subseteq IDs /\ Range(todo) \subseteq IDs
  BY DEF Typed, Walk
<1>2. Lists(todo, Range(todo)) /\ Ascends(todo)
  BY DEF Walk
<1>3. \A y \in Range(todo) \ {id} : id < y
  <2> DEFINE R == Range(todo)
  <2>1. Lists(todo, R) /\ R \subseteq IDs
    BY <1>1, <1>2
  <2> HIDE DEF R
  <2>2. \A y \in R \ {id} : id < y
    BY <1>2, <2>1, TailLists
  <2> QED  BY <2>2 DEF R
<1>4. match \subseteq Range(todo)
  BY <1>1 DEF Hits, Seen
<1>5. id \in match /\ match \subseteq Int
  BY <1>1, IDsAssumption
<1> HIDE DEF id
<1>6. \A m \in match : id <= m
  BY <1>3, <1>4, <1>5
<1>7. \A x \in match : (\A m \in match : x <= m) => x = id
  BY <1>5, <1>6
<1>8. Least = id
  BY <1>5, <1>6, <1>7 DEF Least
<1> QED  BY <1>8 DEF id

\* A list that a record joined is not empty, unless its mark is NaN.
LEMMA JoinedNotEmpty ==
    ASSUME NEW best \in Bests, NEW id \in IDs, NEW mark \in Int \cup {NaN},
           NEW better \in BOOLEAN, NEW asGood \in BOOLEAN
    PROVE  LET r == Joined(best, id, mark, better, asGood) IN
           r \in Bests /\ (best.list # <<>> \/ asGood \/ better => r.list # <<>>)
<1> DEFINE r == Joined(best, id, mark, better, asGood)
           longer == Append(best.list, id)
<1>1. best.list \in Seq(IDs) /\ best.mark \in Int \cup {NaN}
  BY DEF Bests
<1>2. longer \in Seq(IDs) /\ longer # <<>> /\ <<id>> \in Seq(IDs) /\ <<id>> # <<>>
  BY <1>1
<1>3. CASE better
  <2>1. r = [mark |-> mark, list |-> <<id>>]
    BY <1>3 DEF Joined
  <2> HIDE DEF r, longer
  <2>2. r \in Bests /\ r.list # <<>>
    BY <1>2, <2>1 DEF Bests
  <2> QED  BY <2>2 DEF r
<1>4. CASE ~better /\ asGood
  <2>1. r = [best EXCEPT !.list = longer]
    BY <1>4 DEF Joined
  <2> HIDE DEF r, longer
  <2>2. r \in Bests /\ r.list # <<>>
    BY <1>2, <2>1 DEF Bests
  <2> QED  BY <2>2 DEF r
<1>5. CASE ~better /\ ~asGood
  BY <1>5 DEF Joined
<1> QED  BY <1>3, <1>4, <1>5

\* The summary takes one more record into account.
LEMMA SummariseNextReports ==
    ASSUME Told, SummariseNext, Walk', Typed'
    PROVE  Reporting'
<1> DEFINE id == Head(todo)
           mark == db[id].mark
<1>1. /\ step = "summarise" /\ step' = step /\ todo # <<>> /\ todo' = Tail(todo)
      /\ UNCHANGED <<db, command, match>> /\ command.tag = "SUMMARY"
  BY DEF SummariseNext, NextOf, Told, Tags
<1>2. /\ id \in DOMAIN db /\ id \in IDs /\ id \notin Seen /\ (\A d \in Seen : d < id)
      /\ Hits' = IF id \in match THEN Hits \cup {id} ELSE Hits
      /\ Hits \subseteq IDs /\ IsFiniteSet(Hits)
  BY <1>1, WalkOn DEF Told
<1>3. /\ highest \in Bests /\ lowest \in Bests
      /\ (Hits = {} => highest = Nobody /\ lowest = Nobody)
      /\ count = Cardinality(Hits)
      /\ (NaN \notin Marks => /\ sum = SumOver(db, Hits)
                              /\ Leads(db, Hits, highest, FALSE) /\ Leads(db, Hits, lowest, TRUE))
      /\ (Hits # {} /\ db[Least].mark # NaN => highest.list # <<>> /\ lowest.list # <<>>)
  BY <1>1 DEF Told, Reporting
<1>4. Marks' = Marks /\ Least' = Least
  BY <1>1 DEF Marks, Least
<1> HIDE DEF id
<1>5. CASE id \notin match
  <2>1. UNCHANGED <<highest, lowest, count, sum>> /\ Hits' = Hits
    BY <1>2, <1>5 DEF SummariseNext, Matches, found, id
  <2> QED  BY <1>1, <1>3, <1>4, <2>1 DEF Reporting
<1>6. CASE id \in match
  <2> DEFINE high == Best(highest, id)
             lowe == Best(lowest, id)
             above == FloatLess(high.mark, mark)
             abreast == FloatAtMost(high.mark, mark)
             below == FloatLess(mark, lowe.mark)
             abreastLow == FloatAtMost(mark, lowe.mark)
  <2>1. /\ highest' = Joined(high, id, mark, above, abreast)
        /\ lowest' = Joined(lowe, id, mark, below, abreastLow)
        /\ count' = count + 1 /\ sum' = FloatSum(sum, mark)
    BY <1>6 DEF SummariseNext, Matches, JoinHighest, JoinLowest, id
  <2>2. Hits' = Hits \cup {id} /\ id \notin Hits /\ Hits \subseteq Seen
    BY <1>2, <1>6 DEF Hits
  <2>3. count = 0 <=> Hits = {}
    BY <1>2, <1>3, FS_EmptySet
  <2>4. high = (IF Hits = {} THEN [highest EXCEPT !.mark = mark] ELSE highest)
        /\ lowe = (IF Hits = {} THEN [lowest EXCEPT !.mark = mark] ELSE lowest)
    BY <2>3 DEF Best
  <2>5. mark \in Int \cup {NaN} /\ NaN \notin Int
    BY <1>2, ContentAssumption DEF Told, Typed
  <2>6. high \in Bests /\ lowe \in Bests
    BY <1>3, <2>4, <2>5 DEF Bests
  <2>7. above \in BOOLEAN /\ abreast \in BOOLEAN /\ below \in BOOLEAN /\ abreastLow \in BOOLEAN
    BY DEF FloatLess, FloatAtMost
  <2> HIDE DEF high, lowe, above, abreast, below, abreastLow, mark
  <2>8. /\ highest' \in Bests /\ (high.list # <<>> \/ abreast => highest'.list # <<>>)
        /\ lowest' \in Bests /\ (lowe.list # <<>> \/ abreastLow => lowest'.list # <<>>)
    BY <1>2, <2>1, <2>5, <2>6, <2>7, JoinedNotEmpty
  <2>9. count' = Cardinality(Hits')
    BY <1>2, <1>3, <2>1, <2>2, FS_AddElement
  <2>10. ASSUME db[Least].mark # NaN PROVE highest'.list # <<>> /\ lowest'.list # <<>>
    <3>1. CASE Hits # {}
      <4>1. high.list # <<>> /\ lowe.list # <<>>
        BY <1>3, <2>4, <2>10, <3>1
      <4> QED  BY <2>8, <4>1
    <3>2. CASE Hits = {}
      <4>1. Least = id
        BY <1>1, <1>6, <3>2, FirstIsLeast DEF Told, id
      <4>2. mark # NaN
        BY <2>10, <4>1 DEF mark
      <4>3. high.mark = mark /\ lowe.mark = mark
        BY <1>3, <2>4, <3>2 DEF Bests
      <4>4. abreast /\ abreastLow
        BY <2>5, <4>2, <4>3 DEF abreast, abreastLow, FloatAtMost
      <4> QED  BY <2>8, <4>4
    <3> QED  BY <3>1, <3>2
  <2>11. ASSUME NaN \notin Marks
         PROVE  /\ sum' = SumOver(db, Hits')
                /\ Leads(db, Hits', highest', FALSE) /\ Leads(db, Hits', lowest', TRUE)
    <3>1. \A x \in Hits \cup {id} : db[x].mark \in Int
      <4>1. \A x \in match : db[x].mark \in Int
        BY <2>11, ContentAssumption DEF Marks, Told, Typed
      <4> QED  BY <1>6, <4>1 DEF Hits
    <3>2. mark \in Int /\ mark = db[id].mark
      BY <3>1 DEF mark
    <3>3. sum' = SumOver(db, Hits')
      <4>1. SumOver(db, Hits) \in Int /\ SumOver(db, Hits \cup {id}) = SumOver(db, Hits) + db[id].mark
        BY <1>2, <2>2, <3>1, SumAdds
      <4>2. FloatSum(sum, mark) = sum + mark
        BY <1>3, <2>5, <2>11, <3>2, <4>1 DEF FloatSum
      <4> QED  BY <1>3, <2>1, <2>2, <2>11, <3>2, <4>1, <4>2
    <3>4. (Hits = {} => high.mark = mark /\ lowe.mark = mark)
          /\ (Hits # {} => high.mark \in Int /\ lowe.mark \in Int)
      <4>1. CASE Hits = {}
        BY <1>3, <2>4, <4>1 DEF Bests
      <4>2. CASE Hits # {}
        BY <1>3, <2>4, <2>11, <3>1, <4>2 DEF Leads
      <4> QED  BY <4>1, <4>2
    <3>5. high.mark \in Int /\ lowe.mark \in Int
      BY <3>2, <3>4
    <3>6. (above <=> high.mark < mark) /\ (abreast <=> high.mark <= mark)
          /\ (below <=> mark < lowe.mark) /\ (abreastLow <=> mark <= lowe.mark)
      BY <2>5, <3>2, <3>5 DEF above, abreast, below, abreastLow, FloatLess, FloatAtMost
    <3>7. \A x \in Hits : x < id
      BY <1>2, <2>2
    <3>8. Leads(db, Hits \cup {id}, Joined(high, id, db[id].mark, above, abreast), FALSE)
      BY <1>2, <1>3, <2>2, <2>4, <2>11, <3>1, <3>2, <3>6, <3>7, JoinedLeads
    <3>9. Leads(db, Hits \cup {id}, Joined(lowe, id, db[id].mark, below, abreastLow), TRUE)
      BY <1>2, <1>3, <2>2, <2>4, <2>11, <3>1, <3>2, <3>6, <3>7, JoinedLeads
    <3> QED  BY <2>1, <2>2, <3>2, <3>3, <3>8, <3>9
  <2>12. Hits' # {}
    BY <2>2
  <2> QED  BY <1>1, <1>4, <2>8, <2>9, <2>10, <2>11, <2>12 DEF Reporting
<1> QED  BY <1>5, <1>6

\* The summary goes on.
LEMMA SummariseNextTells ==
    ASSUME Told, SummariseNext
    PROVE  Told'
<1> DEFINE id == Head(todo)
<1>1. /\ step = "summarise" /\ step' = step /\ todo # <<>> /\ todo' = Tail(todo)
      /\ temp_id' = Evaluated(id)
      /\ UNCHANGED <<db, command, match, list, capacity, out>>
  BY DEF SummariseNext, NextOf
<1>2. id \in DOMAIN db /\ id \in IDs /\ Walk'
  BY <1>1, WalkOn DEF Told
<1> HIDE DEF id
<1>3. temp_id' \in [DOMAIN db -> IDs \cup {Unset}]
  BY <1>1, <1>2 DEF Evaluated, SetID, Told, Typed
<1>4. Typed' /\ OwnIDs' /\ Tags' /\ Rooms' /\ Collected' /\ ~Listed'
  BY <1>1, <1>3 DEF Told, Typed, OwnIDs, Tags, Rooms, Collected, Listed
<1>5. Output'
  BY <1>1, <1>4 DEF Told, Output, Ids
<1> QED  BY <1>2, <1>4, <1>5, SummariseNextReports DEF Told

\* QUERY found nothing to print.
LEMMA NoneMatchTells ==
    ASSUME Told, NoneMatch
    PROVE  Told'
<1>1. /\ step = "filter" /\ todo = <<>> /\ list = <<>> /\ step' = "prompt" /\ capacity' = NoArrays
      /\ UNCHANGED <<db, temp_id, command, match, todo, list, found, out>>
  BY DEF NoneMatch, Walked, Freed
<1>2. match = {} /\ out = <<>>
  <2>1. Hits = {}
    BY <1>1, NothingListed DEF Told, Collected
  <2> QED  BY <1>1, <2>1, WalkedAll DEF Told, Typed, Output
<1>3. Ids' = <<>> /\ out' = Printed(Ids') /\ Len(<<>>) = 0
  BY <1>1, <1>2 DEF Ids, Printed
<1>4. Lists(Ids', match') /\ SortedBy(db', match', Ids', command'.sort_by)
  BY <1>1, <1>2, <1>3, NothingListed DEF SortedBy
<1>5. Output'
  BY <1>1, <1>2, <1>3, <1>4 DEF Output
<1>6. Typed' /\ OwnIDs' /\ Tags' /\ Rooms' /\ Collected' /\ Reporting'
  BY <1>1 DEF Told, Typed, OwnIDs, Tags, Rooms, Collected, Reporting, Listed
<1>7. Walk'
  BY <1>1 DEF Told, Walk, Seen
<1> QED  BY <1>5, <1>6, <1>7 DEF Told

\* What was collected is handed to quicksort.
LEMMA CallSortTells ==
    ASSUME Told, CallSort
    PROVE  Told'
<1>1. /\ step \in {"copy", "filter"} /\ step' = "sort" /\ todo = <<>>
      /\ UNCHANGED <<db, temp_id, command, match, todo, list, out>>
      /\ size' = Len(list) /\ udata' = command.sort_by
      /\ original' = [i \in 0 .. Len(list) - 1 |-> Stored(list[i + 1])]
  BY DEF CallSort, MustSort, Walked, Call
<1>2. Seen = DOMAIN db /\ Hits = match
  BY <1>1, WalkedAll DEF Told, Typed
<1>3. Lists(list, match)
  BY <1>1, <1>2 DEF Told, Collected
<1>4. \A id : Stored(id)' = Stored(id)
  BY <1>1 DEF Stored
<1>5. Collected'
  BY <1>1, <1>3, <1>4 DEF Collected
<1>6. Typed' /\ OwnIDs' /\ Tags' /\ Rooms' /\ Reporting' /\ ~Listed'
  BY <1>1 DEF Told, Typed, OwnIDs, Tags, Rooms, Reporting, Listed, Seen
<1>7. Output'
  BY <1>1, <1>6 DEF Told, Output, Ids
<1>8. Walk'
  BY <1>1 DEF Told, Walk, Seen
<1> QED  BY <1>5, <1>6, <1>7, <1>8 DEF Told

\* What quicksort returns is the list, in order.
LEMMA SortReturns ==
    ASSUME QInv, step = "sort", Outermost, NEW new,
           new = [i \in 1 .. Len(list) |-> arr[i - 1].id]
    PROVE  /\ new \in Seq(IDs) /\ Lists(new, match)
           /\ SortedBy(db, match, new, command.sort_by)
<1> DEFINE n == Len(list)
           u == command.sort_by
<1>1. /\ Typed /\ Lists(list, match) /\ match \subseteq DOMAIN db /\ DOMAIN db \subseteq IDs
      /\ u \in Order /\ udata = u /\ size = n
      /\ original = [i \in 0 .. n - 1 |-> Stored(list[i + 1])]
  BY SortBysAssumption DEF QInv, Told, Typed, Collected, Tags
<1>2. /\ n \in Nat /\ list \in Seq(IDs) /\ match = {list[i] : i \in 1 .. n}
      /\ n = Cardinality(match)
  BY <1>1 DEF Lists, Range
<1>3. /\ arr \in Arrays(n) /\ Items(arr) = Items(original)
      /\ Orders(Items(original), u) => Ordered(arr, u)
  BY <1>1, SortInvSorts DEF QInv, SortInv, Shape, Types, Sorts, NothingLost, Sorted
<1>4. DOMAIN arr = 0 .. n - 1 /\ DOMAIN original = 0 .. n - 1
  BY <1>1, <1>3 DEF Arrays
<1> HIDE DEF n, u
<1>5. Items(original) = {Stored(id) : id \in match}
  <2>1. \A i \in 0 .. n - 1 : i + 1 \in 1 .. n /\ original[i] = Stored(list[i + 1])
    BY <1>1, <1>2
  <2>2. \A i \in 1 .. n : i - 1 \in 0 .. n - 1 /\ original[i - 1] = Stored(list[i])
    BY <1>1, <1>2
  <2>3. \A i \in 0 .. n - 1 : \E id \in match : original[i] = Stored(id)
    BY <1>2, <2>1
  <2>4. \A id \in match : \E i \in 0 .. n - 1 : original[i] = Stored(id)
    BY <1>2, <2>2
  <2> QED  BY <1>4, <2>3, <2>4 DEF Items
<1>6. \A i \in 1 .. n : i - 1 \in 0 .. n - 1 /\ new[i] \in match /\ arr[i - 1] = Stored(new[i])
  <2> SUFFICES ASSUME NEW i \in 1 .. n
               PROVE  i - 1 \in 0 .. n - 1 /\ new[i] \in match /\ arr[i - 1] = Stored(new[i])
    OBVIOUS
  <2>1. i - 1 \in 0 .. n - 1 /\ new[i] = arr[i - 1].id
    BY <1>2 DEF n
  <2>2. arr[i - 1] \in Items(original)
    BY <1>3, <1>4, <2>1 DEF Items
  <2>3. PICK id \in match : arr[i - 1] = Stored(id)
    BY <1>5, <2>2
  <2>4. Stored(id).id = id
    BY <1>1, <2>3, StoredIsItem
  <2> QED  BY <2>1, <2>3, <2>4
<1>7. \A id \in match : \E i \in 1 .. n : new[i] = id
  <2> SUFFICES ASSUME NEW id \in match PROVE \E i \in 1 .. n : new[i] = id
    OBVIOUS
  <2>1. Stored(id) \in Items(arr)
    BY <1>3, <1>5
  <2>2. PICK k \in 0 .. n - 1 : arr[k] = Stored(id)
    BY <1>4, <2>1 DEF Items
  <2>3. k + 1 \in 1 .. n /\ new[k + 1] = arr[k].id
    BY <1>2 DEF n
  <2>4. Stored(id).id = id
    BY <1>1, StoredIsItem
  <2> QED  BY <2>2, <2>3, <2>4
<1>8. new \in [1 .. n -> IDs]
  BY <1>1, <1>6 DEF n
<1>9. new \in Seq(IDs) /\ Len(new) = n /\ DOMAIN new = 1 .. n
  BY <1>2, <1>8, RowIsSequence
<1>10. Lists(new, match)
  <2>1. Range(new) = {new[i] : i \in 1 .. n}
    BY <1>9 DEF Range
  <2>2. {new[i] : i \in 1 .. n} = match
    BY <1>6, <1>7
  <2> QED  BY <1>2, <1>9, <2>1, <2>2 DEF Lists
<1>11. ASSUME \A id \in match : ValueOf(db, id, u.column) # NaN,
              NEW i \in 1 .. n, NEW j \in 1 .. n, i < j
       PROVE  Follows(db, new[i], new[j], u)
  <2>1. \A id \in match : temp_id[id] = id
    <3>1. Seen = DOMAIN db
      BY WalkedAll DEF QInv, Told, Walk
    <3> QED  BY <1>1, <3>1 DEF QInv, Told, OwnIDs
  <2>2. /\ Orders({Stored(id) : id \in match}, u)
        /\ \A id, other \in match : Cmp(Stored(id), Stored(other), u) <= 0 => Follows(db, id, other, u)
    BY <1>1, <1>11, <2>1, RecordsHaveOrder
  <2>3. Ordered(arr, u)
    BY <1>3, <1>5, <2>2
  <2>4. Cmp(arr[i - 1], arr[j - 1], u) <= 0
    BY <1>2, <1>4, <1>6, <1>11, <2>3 DEF Ordered
  <2> QED  BY <1>6, <2>2, <2>4
<1>12. SortedBy(db, match, new, u)
  BY <1>9, <1>11 DEF SortedBy
<1> QED  BY <1>9, <1>10, <1>12 DEF u

\* A step of quicksort leaves the command as it is, or ends the sort.
LEMMA SortingTells ==
    ASSUME QInv, Sorting
    PROVE  Told'
<1>1. /\ step = "sort" /\ UNCHANGED <<db, temp_id, command, match, todo, capacity, found, out>>
  BY DEF Sorting
<1>2. CASE Outermost
  <2>1. list' = [i \in 1 .. Len(list) |-> arr[i - 1].id] /\ step' = "print"
    BY <1>2 DEF Sorting
  <2>2. list' \in Seq(IDs) /\ Lists(list', match) /\ SortedBy(db, match, list', command.sort_by)
    BY <1>1, <1>2, <2>1, SortReturns
  <2>3. Collected'
    BY <1>1, <2>1, <2>2 DEF Collected
  <2>4. Typed' /\ OwnIDs' /\ Tags' /\ Rooms' /\ Reporting' /\ ~Listed'
    BY <1>1, <2>1, <2>2 DEF QInv, Told, Typed, OwnIDs, Tags, Rooms, Reporting, Listed, Seen, Lists
  <2>5. Output'
    BY <1>1, <2>1, <2>4 DEF QInv, Told, Output, Ids
  <2>6. Walk'
    BY <1>1, <2>1 DEF QInv, Told, Walk, Seen
  <2> QED  BY <2>3, <2>4, <2>5, <2>6 DEF Told
<1>3. CASE ~Outermost
  <2>1. UNCHANGED <<list, step>> /\ ~Finish
    BY <1>3 DEF Sorting, Finish
  <2>2. UNCHANGED <<size, udata, original>>
    BY <2>1 DEF Sorting, SortStep, BaseCase, Begin, Loop, MoveHead, MoveTail, Meet, SwapEnds, Place,
                SortRight, Return
  <2>3. Rooms'
    BY <1>1, <2>1 DEF QInv, Told, Rooms
  <2> QED  BY <1>1, <2>1, <2>2, <2>3, StandsTells DEF QInv
<1> QED  BY <1>2, <1>3

\* What was sorted is printed.
LEMMA PrintListTells ==
    ASSUME Told, PrintList
    PROVE  Told'
<1>1. /\ step \in {"print", "filter"} /\ step' = "prompt" /\ capacity' = NoArrays /\ todo = <<>>
      /\ UNCHANGED <<db, temp_id, command, match, todo, list, found>>
      /\ out' = [i \in 1 .. Len(list) |-> <<list[i], temp_id[list[i]]>>]
  BY DEF PrintList, InOrderAlready, Walked, Freed, Told, Walk
<1>2. Seen = DOMAIN db /\ Hits = match /\ match \subseteq DOMAIN db /\ DOMAIN db \subseteq IDs
  BY <1>1, WalkedAll DEF Told, Typed
<1>3. Lists(list, match) /\ SortedBy(db, match, list, command.sort_by)
  <2>1. CASE step = "print"
    BY <2>1 DEF Told, Collected
  <2>2. CASE InOrderAlready
    <3>1. Lists(list, match) /\ Ascends(list) /\ InIterOrder(command.sort_by)
      BY <1>2, <2>2 DEF InOrderAlready, Walked, Told, Collected
    <3> QED  BY <1>2, <3>1, IterOrderIsSorted
  <2> QED  BY <2>1, <2>2 DEF PrintList
<1>4. /\ list \in Seq(IDs) /\ Len(list) \in Nat
      /\ \A i \in 1 .. Len(list) : list[i] \in IDs /\ list[i] \in match /\ temp_id[list[i]] = list[i]
  <2>1. list \in Seq(IDs) /\ Range(list) = match
    BY <1>3 DEF Lists
  <2>2. Len(list) \in Nat /\ \A i \in 1 .. Len(list) : list[i] \in match /\ list[i] \in IDs
    BY <2>1 DEF Range
  <2>3. \A id \in match : temp_id[id] = id
    BY <1>1, <1>2 DEF Told, OwnIDs
  <2> QED  BY <2>1, <2>2, <2>3
<1>5. out' = [i \in 1 .. Len(list) |-> <<list[i], list[i]>>]
  BY <1>1, <1>4
<1>6. out' \in Seq(IDs \X IDs) /\ Len(out') = Len(list)
  <2>1. out' \in [1 .. Len(list) -> IDs \X IDs]
    BY <1>4, <1>5
  <2> QED  BY <1>4, <2>1, RowIsSequence
<1>7. Ids' = list
  <2>1. Ids' = [i \in 1 .. Len(list) |-> list[i]]
    BY <1>5, <1>6 DEF Ids
  <2> QED  BY <1>4, <2>1
<1>8. Output'
  BY <1>1, <1>3, <1>5, <1>6, <1>7 DEF Output, Printed
<1>9. Typed' /\ OwnIDs' /\ Tags' /\ Rooms' /\ Collected' /\ Reporting'
  BY <1>1 DEF Told, Typed, OwnIDs, Tags, Rooms, Collected, Reporting, Listed
<1>10. Walk'
  BY <1>1 DEF Told, Walk, Seen
<1> QED  BY <1>8, <1>9, <1>10 DEF Told

\* The summary is printed, or its assert fails.
LEMMA ReportTells ==
    ASSUME Told, Report
    PROVE  Told'
<1>1. /\ step = "summarise" /\ todo = <<>> /\ command.tag = "SUMMARY"
      /\ UNCHANGED <<db, temp_id, command, match, todo, list, found, out>>
      /\ \/ step' = "prompt" /\ capacity' = NoArrays
         \/ step' = "aborted" /\ ~ReportAsserts
  BY DEF Report, Walked, Freed, Told, Tags
<1>2. UNCHANGED <<highest, lowest, count, sum>>
  BY <1>1 DEF found
<1>3. Hits' = Hits /\ Seen' = Seen /\ Marks' = Marks /\ Least' = Least /\ Ids' = Ids
      /\ ReportAsserts' = ReportAsserts /\ ~Listed'
  BY <1>1, <1>2 DEF Hits, Seen, Marks, Least, Ids, ReportAsserts, Listed
<1>4. Reporting'
  BY <1>1, <1>2, <1>3 DEF Told, Reporting
<1>5. Typed' /\ OwnIDs' /\ Tags' /\ Rooms' /\ Collected'
  BY <1>1, <1>3 DEF Told, Typed, OwnIDs, Tags, Rooms, Collected
<1>6. Output'
  BY <1>1, <1>3 DEF Told, Output
<1>7. Walk'
  BY <1>1, <1>3 DEF Told, Walk
<1> QED  BY <1>4, <1>5, <1>6, <1>7 DEF Told

-----------------------------------------------------------------------------
(* What the commands promise.                                               *)

\* Every step keeps the invariant of the commands.
LEMMA StepTells ==
    ASSUME QInv, [Next]_vars
    PROVE  Told'
<1>1. Told
  BY DEF QInv
<1>2. ASSUME NEW s \in SortBys, ShowAll(s) PROVE Told'
  BY <1>1, <1>2, ShowAllTells
<1>3. ASSUME NEW s \in SortBys, NEW m \in SUBSET DOMAIN db, Query(s, m) PROVE Told'
  BY <1>1, <1>3, QueryTells
<1>4. ASSUME NEW filtered \in BOOLEAN, NEW m \in SUBSET DOMAIN db, Summary(filtered, m) PROVE Told'
  BY <1>1, <1>4, SummaryTells
<1>5. CASE PrintNext
  BY <1>1, <1>5, PrintNextTells
<1>6. CASE EndWalk
  BY <1>1, <1>6, EndWalkTells
<1>7. CASE CopyNext \/ FilterNext
  BY <1>1, <1>7, CollectNextTells
<1>8. CASE SummariseNext
  BY <1>1, <1>8, SummariseNextTells
<1>9. ASSUME NEW l \in DOMAIN capacity, Grow(l) PROVE Told'
  BY <1>1, <1>9, GrowTells
<1>10. CASE NoneMatch
  BY <1>1, <1>10, NoneMatchTells
<1>11. CASE CallSort
  BY <1>1, <1>11, CallSortTells
<1>12. CASE Sorting
  BY <1>12, SortingTells
<1>13. CASE PrintList
  BY <1>1, <1>13, PrintListTells
<1>14. CASE Report
  BY <1>1, <1>14, ReportTells
<1>15. CASE UNCHANGED vars
  <2>1. /\ UNCHANGED <<db, temp_id, command, match, todo, list, capacity, found, out, step>>
        /\ UNCHANGED <<size, udata, original>>
    BY <1>15 DEF vars, sortVars
  <2>2. Rooms'
    BY <1>1, <2>1 DEF Told, Rooms
  <2> QED  BY <1>1, <2>1, <2>2, StandsTells
<1> QED  BY <1>2, <1>3, <1>4, <1>5, <1>6, <1>7, <1>8, <1>9, <1>10, <1>11, <1>12, <1>13, <1>14, <1>15
         DEF Next, Continue

\* Whatever the records are and whichever match, the commands know at every step what
\* they have walked over, collected and found, and quicksort what it has sorted.
THEOREM Invariance == Spec => []QInv
<1>1. Init => QInv
  BY SortInvInit, InitTells DEF QInv, Init
<1>2. QInv /\ [Next]_vars => QInv'
  <2> SUFFICES ASSUME QInv, [Next]_vars PROVE QInv'
    OBVIOUS
  <2>1. [SortNext]_sortVars
    BY SortSteps DEF QInv, Told
  <2> QED  BY <2>1, SortInvKept, StepTells DEF QInv
<1> QED  BY <1>1, <1>2, PTL DEF Spec

\* The commands use quicksort as it may be used (main.c:285, 424): all that is proved of it
\* holds here, within its bounds, and whatever the marks are.
THEOREM SortsWell == Spec => [](InBounds /\ Sorts /\ DepthBelowLength)
<1>1. Spec => SortSpec
  <2>1. Init => SortInit
    BY DEF Init
  <2>2. QInv /\ [Next]_vars => [SortNext]_sortVars
    BY SortSteps DEF QInv, Told
  <2> QED  BY <2>1, <2>2, Invariance, PTL DEF Spec, SortSpec
<1> QED  BY <1>1, BoundsCorrect, DepthCorrect, QuicksortCorrect, PTL

\* Every record is printed with its own ID: print_record reads temp_id only after the
\* command has set it.
THEOREM OwnIDPrinted == Spec => []PrintsOwnID
<1>1. QInv => PrintsOwnID
  <2> SUFFICES ASSUME QInv, NEW i \in DOMAIN out PROVE out[i][2] = out[i][1]
    BY DEF PrintsOwnID
  <2>1. out = Printed(Ids) /\ i \in DOMAIN Printed(Ids)
    BY DEF QInv, Told, Output
  <2>2. Printed(Ids)[i] = <<Ids[i], Ids[i]>>
    BY <2>1 DEF Printed
  <2> QED  BY <2>1, <2>2
<1> QED  BY <1>1, Invariance, PTL

\* SHOW ALL and QUERY print every record they should once and no other, in the order of
\* the SORT BY clause, in whichever of the ways through the code.
THEOREM ListsExactly == Spec => []ListingExact
<1>1. QInv => ListingExact
  <2> SUFFICES ASSUME QInv, Listed
               PROVE  /\ {o[1] : o \in Range(out)} = match /\ Len(out) = Cardinality(match)
                      /\ (\A id \in match : Value(id, command.sort_by.column) # NaN) =>
                            \A i \in 1 .. Len(out) - 1 :
                               InSortOrder(out[i][1], out[i + 1][1], command.sort_by)
    BY DEF ListingExact
  <2> DEFINE u == command.sort_by
             n == Len(out)
  <2>1. /\ out \in Seq(IDs \X IDs) /\ Lists(Ids, match) /\ SortedBy(db, match, Ids, u)
        /\ u.column \in Column /\ match \subseteq DOMAIN db
    BY SortBysAssumption DEF QInv, Told, Output, Tags, Typed
  <2>2. n \in Nat /\ DOMAIN out = 1 .. n /\ \A i \in 1 .. n : out[i] \in IDs \X IDs
    BY <2>1
  <2>3. Ids \in [1 .. n -> IDs] /\ \A i \in 1 .. n : Ids[i] = out[i][1]
    BY <2>2 DEF Ids
  <2>4. Len(Ids) = n /\ DOMAIN Ids = 1 .. n
    BY <2>2, <2>3, RowIsSequence
  <2>5. {o[1] : o \in Range(out)} = {Ids[i] : i \in 1 .. n}
    BY <2>2, <2>3 DEF Range
  <2>6. {Ids[i] : i \in 1 .. n} = match /\ n = Cardinality(match)
    BY <2>1, <2>4 DEF Lists, Range
  <2>7. ASSUME \A id \in match : Value(id, u.column) # NaN, NEW i \in 1 .. n - 1
        PROVE  InSortOrder(out[i][1], out[i + 1][1], u)
    <3>1. i \in 1 .. n /\ i + 1 \in 1 .. n /\ i < i + 1
      BY <2>2
    <3>2. \A id : Value(id, u.column) = ValueOf(db, id, u.column)
      BY <2>1, ValueIs
    <3>3. \A id \in match : ValueOf(db, id, u.column) # NaN
      BY <2>7, <3>2
    <3>4. Follows(db, Ids[i], Ids[i + 1], u)
      <4> HIDE DEF u, n
      <4> QED  BY <2>1, <2>4, <3>1, <3>3 DEF SortedBy
    <3>5. Ids[i] = out[i][1] /\ Ids[i + 1] = out[i + 1][1]
      BY <2>3, <3>1
    <3> QED  BY <3>2, <3>4, <3>5 DEF InSortOrder, Follows
  <2> QED  BY <2>5, <2>6, <2>7
<1> QED  BY <1>1, Invariance, PTL

\* No array is left when a command is over, on any way out of it.
THEOREM NoArrayLeft == Spec => []ArraysFreed
<1>1. QInv => ArraysFreed
  BY DEF QInv, Told, Rooms, ArraysFreed
<1> QED  BY <1>1, Invariance, PTL

\* The list of a set in order begins with its least member.
LEMMA LeastIsFirst ==
    ASSUME match \subseteq IDs, match # {}
    PROVE  InOrder(match)[1] = Least
<1> DEFINE s == InOrder(match)
<1>1. Lists(s, match) /\ Ascends(s)
  BY InOrderLists
<1> HIDE DEF s
<1>2. s \in Seq(IDs) /\ Range(s) = match /\ s # <<>>
  BY <1>1, NothingListed DEF Lists
<1>3. /\ Len(s) \in Nat \ {0} /\ match = {s[i] : i \in 1 .. Len(s)}
      /\ \A i \in 1 .. Len(s) : s[i] \in Int
  <2>1. Len(s) \in Nat \ {0} /\ DOMAIN s = 1 .. Len(s) /\ \A i \in 1 .. Len(s) : s[i] \in IDs
    BY <1>2
  <2> QED  BY <1>2, <2>1, IDsAssumption DEF Range
<1>4. s[1] \in match /\ \A m \in match : s[1] <= m
  BY <1>1, <1>3 DEF Ascends
<1>5. ASSUME NEW x \in match, \A m \in match : x <= m PROVE x = s[1]
  <2>1. x <= s[1] /\ s[1] <= x
    BY <1>4, <1>5
  <2>2. x \in Int /\ s[1] \in Int
    BY <1>3, <1>4
  <2> QED  BY <2>1, <2>2
<1>6. Least = s[1]
  BY <1>4, <1>5 DEF Least
<1> QED  BY <1>6 DEF s

\* The asserts of the summary fail only when the first record that matches has NaN for
\* its mark.
THEOREM NaNFirstAborts == Spec => []AbortsOnNaNOnly
<1>1. QInv => AbortsOnNaNOnly
  <2> SUFFICES ASSUME QInv, step = "aborted" PROVE db[InOrder(match)[1]].mark = NaN
    BY DEF AbortsOnNaNOnly
  <2>1. /\ count = Cardinality(Hits) /\ ~ReportAsserts
        /\ (Hits # {} /\ db[Least].mark # NaN => highest.list # <<>> /\ lowest.list # <<>>)
    BY DEF QInv, Told, Reporting, Tags
  <2>2. Hits # {}
    <3>1. Cardinality({}) = 0
      BY FS_EmptySet
    <3>2. count # 0
      BY <2>1 DEF ReportAsserts
    <3> QED  BY <2>1, <3>1, <3>2
  <2>3. db[Least].mark = NaN
    BY <2>1, <2>2 DEF ReportAsserts
  <2>4. match \subseteq IDs /\ match # {}
    BY <2>2 DEF QInv, Told, Typed, Hits
  <2> QED  BY <2>3, <2>4, LeastIsFirst
<1> QED  BY <1>1, Invariance, PTL

\* Those with the highest mark, or the lowest.
Leaders(S, D, low) ==
    {id \in S : \A m \in {D[x].mark : x \in S} : IF low THEN D[id].mark <= m ELSE m <= D[id].mark}

\* They are those that Leads lists.
LEMMA LeadersListed ==
    ASSUME NEW S, S \subseteq IDs, NEW D, \A x \in S : D[x].mark \in Int,
           NEW best, NEW low \in BOOLEAN, Leads(D, S, best, low)
    PROVE  best.list = InOrder(Leaders(S, D, low))
<1> DEFINE L == Leaders(S, D, low)
<1>1. L \subseteq IDs
  BY DEF Leaders
<1>2. CASE S = {}
  <2>1. best.list = <<>> /\ L = {}
    BY <1>2 DEF Leads, Nobody, Leaders
  <2> HIDE DEF L
  <2>2. best.list = InOrder(L)
    BY <1>1, <2>1, NothingListed, OnlyInOrder
  <2> QED  BY <2>2 DEF L
<1>3. CASE S # {}
  <2>1. /\ \A x \in S : IF low THEN best.mark <= D[x].mark ELSE D[x].mark <= best.mark
        /\ Lists(best.list, {x \in S : D[x].mark = best.mark}) /\ Ascends(best.list)
    BY <1>3 DEF Leads
  <2>2. PICK h \in S : best.mark = D[h].mark
    BY <1>3 DEF Leads
  <2>3. ASSUME NEW x \in S PROVE x \in L <=> D[x].mark = best.mark
    <3>1. best.mark \in Int /\ D[x].mark \in Int
      BY <2>2
    <3>2. ASSUME x \in L PROVE D[x].mark = best.mark
      BY <2>1, <2>2, <3>1, <3>2 DEF Leaders
    <3>3. ASSUME D[x].mark = best.mark PROVE x \in L
      BY <2>1, <3>3 DEF Leaders
    <3> QED  BY <3>2, <3>3
  <2>4. L = {x \in S : D[x].mark = best.mark}
    BY <2>3 DEF Leaders
  <2> HIDE DEF L
  <2>5. best.list = InOrder(L)
    BY <1>1, <2>1, <2>4, OnlyInOrder
  <2> QED  BY <2>5 DEF L
<1> QED  BY <1>2, <1>3

\* SHOW SUMMARY counts the records that match and sums their marks, and names exactly
\* those with the highest and the lowest mark, unless a mark is NaN.
THEOREM SummaryCorrect == Spec => []SummaryRight
<1>1. QInv => SummaryRight
  <2> SUFFICES ASSUME QInv, step = "prompt", command.tag = "SUMMARY", NaN \notin Marks
               PROVE  /\ count = Cardinality(match)
                      /\ sum = MapThenSumSet(LAMBDA id : db[id].mark, match)
                      /\ highest.list = InOrder({id \in match : \A m \in Marks : m <= db[id].mark})
                      /\ lowest.list = InOrder({id \in match : \A m \in Marks : db[id].mark <= m})
    BY DEF SummaryRight, MapThenSumSet, MapThenFoldSet
  <2>1. Hits = match /\ match \subseteq IDs /\ match \subseteq DOMAIN db
    BY WalkedAll DEF QInv, Told, Walk, Typed
  <2>2. /\ count = Cardinality(match) /\ sum = SumOver(db, match)
        /\ Leads(db, match, highest, FALSE) /\ Leads(db, match, lowest, TRUE)
    BY <2>1 DEF QInv, Told, Reporting
  <2>3. \A x \in match : db[x].mark \in Int
    BY <2>1, ContentAssumption DEF Marks, QInv, Told, Typed
  <2>4. Marks = {db[x].mark : x \in match}
    BY DEF Marks
  <2>5. highest.list = InOrder({id \in match : \A m \in Marks : m <= db[id].mark})
    <3>1. highest.list = InOrder(Leaders(match, db, FALSE))
      BY <2>1, <2>2, <2>3, LeadersListed
    <3>2. Leaders(match, db, FALSE) = {id \in match : \A m \in Marks : m <= db[id].mark}
      BY <2>4 DEF Leaders
    <3> QED  BY <3>1, <3>2
  <2>6. lowest.list = InOrder({id \in match : \A m \in Marks : db[id].mark <= m})
    <3>1. lowest.list = InOrder(Leaders(match, db, TRUE))
      BY <2>1, <2>2, <2>3, LeadersListed
    <3>2. Leaders(match, db, TRUE) = {id \in match : \A m \in Marks : db[id].mark <= m}
      BY <2>4 DEF Leaders
    <3> QED  BY <3>1, <3>2
  <2>7. sum = MapThenSumSet(LAMBDA id : db[id].mark, match)
    BY <2>2 DEF SumOver, MapThenSumSet, MapThenFoldSet
  <2> QED  BY <2>2, <2>5, <2>6, <2>7 DEF MapThenSumSet, MapThenFoldSet
<1> QED  BY <1>1, Invariance, PTL
====
