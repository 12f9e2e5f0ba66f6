------------------------------ MODULE Quicksort -------------------------------
(***************************************************************************)
(* quicksort of src/src/quicksort.c: an in-place sort with the last item    *)
(* as the pivot, a partition from both ends and one recursive call for      *)
(* each side.  The array, the comparator and what is passed to it are       *)
(* parameters, as they are in the code; Queries calls it with records and   *)
(* cmp_record.  The items of an array are told apart (they are addresses).  *)
(***************************************************************************)
EXTENDS Integers, Sequences

CONSTANTS
    Item,        \* what an array may hold
    Order,       \* the values of udata
    Cmp(_, _, _) \* cmp_fn(lhs, rhs, udata)

ASSUME CmpAssumption == \A l, r \in Item, u \in Order : Cmp(l, r, u) \in Int

VARIABLES
    arr, size,  \* the array and its length
    original,   \* the array when quicksort was called
    udata,
    calls,      \* the calls that wait for a recursive call of theirs
    base, len,  \* the part of arr that the current call sorts
    head, tail, \* its indices, counted from the start of the whole array
    at          \* where it is, or "idle"

sortVars == <<arr, size, original, udata, calls, base, len, head, tail, at>>

Arrays(n) == [0 .. n - 1 -> Item]

pivot == base + len - 1

Compare(i, j) == Cmp(arr[i], arr[j], udata)

Swap(a, i, j) == [a EXCEPT ![i] = a[j], ![j] = a[i]]

NoArray == [i \in 0 .. -1 |-> i]

SortInit ==
    /\ arr = NoArray /\ original = NoArray /\ size = 0 /\ udata \in Order
    /\ calls = <<>> /\ base = 0 /\ len = 0 /\ head = 0 /\ tail = 0
    /\ at = "idle"

-----------------------------------------------------------------------------
(* One call.                                                                *)

Enter(b, n) == base' = b /\ len' = n /\ at' = "entered"

Call(a, n, u) ==
    /\ at = "idle"
    /\ arr' = a /\ original' = a /\ size' = n /\ udata' = u
    /\ calls' = <<>>
    /\ Enter(0, n)
    /\ UNCHANGED <<head, tail>>

BaseCase ==
    /\ at = "entered" /\ len < 2
    /\ at' = "returned"
    /\ UNCHANGED <<arr, size, original, udata, calls, base, len, head, tail>>

Begin ==
    /\ at = "entered" /\ len >= 2
    /\ head' = base /\ tail' = base + len - 2
    /\ at' = "loop"
    /\ UNCHANGED <<arr, size, original, udata, calls, base, len>>

\* while (head < tail)
Loop ==
    /\ at = "loop"
    /\ at' = IF head < tail THEN "head" ELSE "place"
    /\ UNCHANGED <<arr, size, original, udata, calls, base, len, head, tail>>

MoveHead ==
    /\ at = "head"
    /\ IF head < tail /\ Compare(head, pivot) < 0
       THEN head' = head + 1 /\ at' = at
       ELSE head' = head /\ at' = "tail"
    /\ UNCHANGED <<arr, size, original, udata, calls, base, len, tail>>

StaysAbove(i) == Compare(i, pivot) >= 0

MoveTail ==
    /\ at = "tail" /\ tail > head /\ StaysAbove(tail)
    /\ tail' = tail - 1
    /\ UNCHANGED <<arr, size, original, udata, calls, base, len, head, at>>

Meet ==
    /\ at = "tail" /\ ~(tail > head /\ StaysAbove(tail)) /\ head >= tail
    /\ at' = "place"
    /\ UNCHANGED <<arr, size, original, udata, calls, base, len, head, tail>>

SwapEnds ==
    /\ at = "tail" /\ ~(tail > head /\ StaysAbove(tail)) /\ head < tail
    /\ arr' = Swap(arr, head, tail)
    /\ head' = head + 1 /\ tail' = tail - 1
    /\ at' = "loop"
    /\ UNCHANGED <<size, original, udata, calls, base, len>>

PlaceAtHead == head \* slip: the item at head is not looked at

PivotPlace == IF Compare(head, pivot) < 0 THEN head + 1 ELSE head

Frame(p) == [base |-> base, len |-> len, pivot |-> p, right |-> FALSE]

Place ==
    /\ at = "place"
    /\ LET p == PivotPlace IN
       /\ arr' = IF p # pivot THEN Swap(arr, p, pivot) ELSE arr
       /\ calls' = Append(calls, Frame(p))
       /\ Enter(base, p - base)
    /\ UNCHANGED <<size, original, udata, head, tail>>

-----------------------------------------------------------------------------
(* A call that returns: to the second recursive call of its caller, to the  *)
(* end of its caller, or out of quicksort.                                   *)

Caller == calls[Len(calls)]

RightFromPivot(c) == [from |-> c.pivot, n |-> c.len - (c.pivot - c.base)] \* slip: the pivot again

RightTooLong(c) == [from |-> c.pivot + 1, n |-> c.len - (c.pivot - c.base)] \* slip

RightPart(c) == [from |-> c.pivot + 1, n |-> c.len - (c.pivot - c.base) - 1]

SortRight ==
    /\ at = "returned" /\ calls # <<>> /\ ~Caller.right
    /\ calls' = [calls EXCEPT ![Len(calls)].right = TRUE]
    /\ Enter(RightPart(Caller).from, RightPart(Caller).n)
    /\ UNCHANGED <<arr, size, original, udata, head, tail>>

Return ==
    /\ at = "returned" /\ calls # <<>> /\ Caller.right
    /\ calls' = SubSeq(calls, 1, Len(calls) - 1)
    /\ UNCHANGED <<arr, size, original, udata, base, len, head, tail, at>>

Outermost == at = "returned" /\ calls = <<>>

\* quicksort returns and nothing is left of its variables.
Finish ==
    /\ Outermost
    /\ at' = "idle"
    /\ arr' = NoArray /\ original' = NoArray /\ size' = 0
    /\ base' = 0 /\ len' = 0 /\ head' = 0 /\ tail' = 0
    /\ UNCHANGED <<udata, calls>>

SortStep ==
    \/ BaseCase \/ Begin \/ Loop \/ MoveHead \/ MoveTail \/ Meet \/ SwapEnds
    \/ Place \/ SortRight \/ Return \/ Finish

SortNext ==
    \/ SortStep
    \/ \E n \in Nat, u \in Order : \E a \in Arrays(n) : Call(a, n, u)

SortSpec == SortInit /\ [][SortNext]_sortVars

-----------------------------------------------------------------------------
(* The cursors of a partition may pass each other by one and the pivot is    *)
(* placed between them.  Whatever the comparator answers, no order (marks    *)
(* may be NaN) included, every index at which an item is read or written     *)
(* lies in the part of the array that the call was given.                    *)
InBounds ==
    /\ base >= 0 /\ len >= 0 /\ base + len <= size
    /\ at \in {"loop", "head", "tail", "place"} =>
          /\ base <= head /\ head < pivot
          /\ base <= tail /\ tail < pivot
          /\ head <= tail + 1

Distinct(a) == \A i, j \in DOMAIN a : a[i] = a[j] => i = j

Items(a) == {a[i] : i \in DOMAIN a}

\* The array holds the items it was called with at every moment: swaps that go wrong at
\* the meeting point of the cursors lose one and double another.  The items are
\* pointers, so that a lost one is a record that is not printed.
NothingLost ==
    /\ Items(arr) = Items(original)
    /\ Distinct(original) => Distinct(arr)

\* The comparator is a total preorder on these items.
Orders(items, u) ==
    /\ \A x, y \in items : Cmp(x, y, u) < 0 <=> Cmp(y, x, u) > 0
    /\ \A x, y, z \in items : Cmp(x, y, u) <= 0 /\ Cmp(y, z, u) <= 0 => Cmp(x, z, u) <= 0

Ordered(a, u) == \A i, j \in DOMAIN a : i < j => Cmp(a[i], a[j], u) <= 0

\* When quicksort returns the whole array is in order, if the comparator is one: each
\* partition leaves no smaller item on the right of its pivot and no larger on its left.
Sorted == Outermost /\ Orders(Items(original), udata) => Ordered(arr, udata)

\* quicksort returns the array it was given, in order.
Sorts == NothingLost /\ Sorted

\* Calls are nested less deep than the array is long, with any comparator.  On an array
\* that is in order already they are nested that deep: the comment (quicksort.c:105)
\* says O(log(n)) space.
DepthBelowLength == Len(calls) <= IF size = 0 THEN 0 ELSE size - 1
=============================================================================
