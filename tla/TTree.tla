-------------------------------- MODULE TTree --------------------------------
(***************************************************************************)
(* The T-tree of src/src/t-tree.c: a binary search tree, balanced like an   *)
(* AVL tree, whose nodes hold up to NodeSize records in ascending order of  *)
(* ID.  The first part gives the node operations as functions from heap to  *)
(* heap, one per C helper.  The second part is the state machine: a call    *)
(* arrives, runs one step per iteration of the loops of the C function that *)
(* serves it, and returns.  An assert of the C code that does not hold stops *)
(* the program: see Asserted.                                               *)
(***************************************************************************)
EXTENDS SequencesExt, Integers, FiniteSets

CONSTANTS
    ID,             \* the record IDs
    Record,         \* the records, opaque to the tree
    Nodes,          \* the addresses a node can have
    NIL,            \* the null pointer
    None,           \* no call, or no result yet
    NodeSize,       \* TTREE_NODE_SIZE (38 in the code)
    TraceLen,       \* TTREE_NODE_TRACE_LEN (39 in the code)
    Gets, Inserts, Removes, Loads, \* the arguments callers pass: IDs, entries,
                    \* IDs, and sequences of entries ascending in ID
    Walks           \* whether callers iterate over and destroy the tree

Entry == [id : ID, rec : Record]

ASSUME IDAssumption == ID \subseteq Nat
ASSUME NILAssumption == NIL \notin Nodes
ASSUME NoneAssumption == None \notin Entry
ASSUME SizeAssumption == NodeSize \in Nat /\ NodeSize >= 2
ASSUME TraceAssumption == TraceLen \in Nat
ASSUME ArgumentAssumption ==
    /\ Gets \subseteq ID /\ Removes \subseteq ID
    /\ Inserts \subseteq Entry /\ Loads \subseteq Seq(Entry)

VARIABLES
    \* the memory
    root,    \* tree->root, or the root of the tree being bulk loaded
    heap,    \* what each node holds
    used,    \* the nodes handed out by the node allocator
    \* the call being served and its locals
    call, res,
    pc,      \* the loop or branch the code is in; "idle" between calls
    node,    \* the cursor of that loop
    target,  \* the internal node that is short of records after a removal
    trace,   \* node_trace: the stack of nodes from the root down to the cursor
    pos,     \* the position within the cursor's node, counted from 0
    hand,    \* the displaced or stolen entry while no node holds it
    current, \* TTreeBulkInsert.current
    out      \* what the iterator has handed out so far

memory == <<root, heap, used>>
locals == <<node, target, trace, pos, hand, current, out>>
vars == <<memory, call, res, pc, locals>>

-----------------------------------------------------------------------------
(* Nodes.  `length` is Len(ids).                                            *)

MinLen == (NodeSize + 1) \div 2

Ptr == Nodes \cup {NIL}

\* A node fresh from the allocator, and what is left of a freed one.
Blank == [left |-> NIL, right |-> NIL, height |-> 1, last_id |-> 0, ids |-> <<>>, data |-> <<>>]

Length(h, n) == Len(h[n].ids)

EntryAt(h, n, p) == [id |-> h[n].ids[p + 1], rec |-> h[n].data[p + 1]]

\* ids[0].  Of a node that has just lost its only entry, ids[0] and last_id both
\* still hold the ID of that entry.
FirstID(h, n) == IF h[n].ids = <<>> THEN h[n].last_id ELSE h[n].ids[1]

Max2(a, b) == IF a > b THEN a ELSE b
Min2(a, b) == IF a < b THEN a ELSE b

Kind(h, n) ==
    IF h[n].left = NIL /\ h[n].right = NIL THEN "leaf"
    ELSE IF h[n].left # NIL /\ h[n].right # NIL THEN "internal"
    ELSE "halfleaf"

Height(h, n) == IF n = NIL THEN 0 ELSE h[n].height

UpdateHeight(h, n) ==
    [h EXCEPT ![n].height = 1 + Max2(Height(h, h[n].left), Height(h, h[n].right))]

BalanceFactor(h, n) == Height(h, h[n].left) - Height(h, h[n].right)

\* A uint8_t, as its argument may be an internal node short of MinLen records.
RemovableCount(h, n) ==
    IF Kind(h, n) = "internal"
    THEN (Length(h, n) - MinLen) % 256
    ELSE IF Length(h, n) > 0 THEN Length(h, n) - 1 ELSE 0

-----------------------------------------------------------------------------
(* Moving entries.  ids and data are arrays the code shifts separately.     *)

SetItemsOnly(h, n, ids, data) == \* slip: last_id goes stale
    [h EXCEPT ![n].ids = ids, ![n].data = data]

\* The node holds these IDs and this data; an emptied node keeps its last_id.
SetItems(h, n, ids, data) ==
    [h EXCEPT ![n].ids = ids, ![n].data = data,
              ![n].last_id = IF ids = <<>> THEN @ ELSE ids[Len(ids)]]

NodeInsert(h, n, p, e) ==
    SetItems(h, n, InsertAt(h[n].ids, p + 1, e.id), InsertAt(h[n].data, p + 1, e.rec))

NodeRemoveIDOnly(h, n, p) == \* slip: the wrong record goes with the ID
    SetItems(h, n, RemoveAt(h[n].ids, p + 1), Front(h[n].data))

NodeRemove(h, n, p) ==
    SetItems(h, n, RemoveAt(h[n].ids, p + 1), RemoveAt(h[n].data, p + 1))

ShiftInKeeping(s, p, x) == \* slip: off by one, what was at p stays
    SubSeq(s, 2, p + 1) \o <<x>> \o SubSeq(s, p + 1, Len(s))

\* Drop the first element of s and put x before what was at position p.
ShiftIn(s, p, x) == SubSeq(s, 2, p) \o <<x>> \o SubSeq(s, p + 1, Len(s))

InsertRemovingFirst(h, n, p, e) ==
    [h EXCEPT ![n].ids = ShiftIn(@, p, e.id), ![n].data = ShiftIn(@, p, e.rec)]

\* s with the elements of t at positions from .. from + len - 1 put at position p.
Graft(s, p, t, from, len) ==
    SubSeq(s, 1, p) \o SubSeq(t, from + 1, from + len) \o SubSeq(s, p + 1, Len(s))

\* s without its elements at positions from .. from + len - 1.
Cut(s, from, len) == SubSeq(s, 1, from) \o SubSeq(s, from + len + 1, Len(s))

MoveAsserts(h, dst, p, src, from, len) ==
    /\ dst # src
    /\ p <= Length(h, dst)
    /\ p + len <= NodeSize
    /\ from + len <= Length(h, src)

Move(h, dst, p, src, from, len) ==
    SetItems(SetItems(h, dst, Graft(h[dst].ids, p, h[src].ids, from, len),
                              Graft(h[dst].data, p, h[src].data, from, len)),
             src, Cut(h[src].ids, from, len), Cut(h[src].data, from, len))

MergeAsserts(h, l, r) ==
    /\ l # r
    /\ h[l].last_id < FirstID(h, r)
    /\ Length(h, l) + Length(h, r) <= NodeSize

\* Everything r holds goes to the end of l, and r is freed.
Merge(h, l, r) ==
    [SetItems(h, l, h[l].ids \o h[r].ids, h[l].data \o h[r].data) EXCEPT ![r] = Blank]

-----------------------------------------------------------------------------
(* Rotations.  Each returns the heap and the node now on top.               *)

LeftRotate(h, n) ==
    LET r == h[n].right
    IN  [top |-> r,
         heap |-> UpdateHeight(UpdateHeight(
                    [h EXCEPT ![r].left = n, ![n].right = h[r].left], n), r)]

RightRotate(h, n) ==
    LET l == h[n].left
    IN  [top |-> l,
         heap |-> UpdateHeight(UpdateHeight(
                    [h EXCEPT ![l].right = n, ![n].left = h[l].right], n), l)]

RotateLeftChild(h, n) ==
    LET r == LeftRotate(h, h[n].left) IN [r.heap EXCEPT ![n].left = r.top]

RotateRightChild(h, n) ==
    LET r == RightRotate(h, h[n].right) IN [r.heap EXCEPT ![n].right = r.top]

RebalanceSingly(h, n) == \* slip: no double rotations
    CASE BalanceFactor(h, n) > 1 -> RightRotate(h, n)
      [] BalanceFactor(h, n) < -1 -> LeftRotate(h, n)
      [] OTHER -> [top |-> n, heap |-> h]

RebalanceSubtree(h, n) ==
    CASE BalanceFactor(h, n) > 1 /\ BalanceFactor(h, h[n].left) >= 0 ->
            RightRotate(h, n)
      [] BalanceFactor(h, n) > 1 /\ BalanceFactor(h, h[n].left) < 0 ->
            RightRotate(RotateLeftChild(h, n), n)
      [] BalanceFactor(h, n) < -1 /\ BalanceFactor(h, h[n].right) <= 0 ->
            LeftRotate(h, n)
      [] BalanceFactor(h, n) < -1 /\ BalanceFactor(h, h[n].right) > 0 ->
            LeftRotate(RotateRightChild(h, n), n)
      [] OTHER -> [top |-> n, heap |-> h]

LeftStealAll(h, n) == MinLen - Length(h, n) \* slip: may empty the child

\* How many records to take from either end of the children, and the heap after it.
LeftSteal(h, n) == Min2(MinLen - Length(h, n), RemovableCount(h, h[n].left))

LeftStealFrom(h, n) == (Length(h, h[n].left) - LeftSteal(h, n)) % 256

StealLeft(h, n) == Move(h, n, 0, h[n].left, LeftStealFrom(h, n), LeftSteal(h, n))

RightSteal(h, n) ==
    Min2((MinLen - Length(h, n)) - LeftSteal(h, n), RemovableCount(h, h[n].right))

StealRightToFront(h, g, n) == \* slip: puts the larger IDs first
    Move(g, n, 0, g[n].right, 0, RightSteal(h, n))

StealRight(h, g, n) == Move(g, n, Length(g, n), g[n].right, 0, RightSteal(h, n))

VeryShortOfRecords(h, n) == \* slip: off by one
    Kind(h, n) = "internal" /\ Length(h, n) + 1 < MinLen

ShortOfRecords(h, n) == Kind(h, n) = "internal" /\ Length(h, n) < MinLen

EnsureMinLen(h, n) ==
    IF ShortOfRecords(h, n) THEN StealRight(h, StealLeft(h, n), n) ELSE h

EnsureMinLenAsserts(h, n) ==
    ShortOfRecords(h, n) =>
        /\ MoveAsserts(h, n, 0, h[n].left, LeftStealFrom(h, n), LeftSteal(h, n))
        /\ MoveAsserts(StealLeft(h, n), n, Length(StealLeft(h, n), n),
                       h[n].right, 0, RightSteal(h, n))
        /\ Length(EnsureMinLen(h, n), n) >= MinLen

-----------------------------------------------------------------------------
(* Pointers into the tree, and the frame of the actions.                    *)

Init ==
    /\ root = NIL
    /\ heap = [n \in Nodes |-> Blank]
    /\ used = {}
    /\ call = None /\ res = None /\ pc = "idle"
    /\ node = NIL /\ target = NIL /\ trace = <<>> /\ pos = 0
    /\ hand = None /\ current = NIL /\ out = <<>>

\* The node whose pointer leads to the one just popped; NIL stands for the tree.
Parent(stack) == IF stack = <<>> THEN NIL ELSE Last(stack)

RepointNothing(h, parent, old, new) == h \* slip: the parent keeps its old child

\* *node_ptr = new, where node_ptr is parent's pointer to old.
Repoint(h, parent, old, new) ==
    IF parent = NIL THEN h
    ELSE IF h[parent].left = old THEN [h EXCEPT ![parent].left = new]
    ELSE [h EXCEPT ![parent].right = new]

RootAfter(parent, new) == IF parent = NIL THEN new ELSE root

\* The allocator hands out a node nobody uses; which one makes no difference.
Fresh == CHOOSE n \in Nodes \ used : TRUE

CanAllocate == used # Nodes

\* h with a fresh node, holding only e, linked to side ("left", "right") of n.
\* Without an e the node is left empty.
WithChild(h, n, side, e) ==
    LET g == IF e = None THEN [h EXCEPT ![Fresh] = Blank]
             ELSE NodeInsert([h EXCEPT ![Fresh] = Blank], Fresh, 0, e)
    IN  IF side = "left" THEN [g EXCEPT ![n].left = Fresh] ELSE [g EXCEPT ![n].right = Fresh]

At(label, op) == pc = label /\ call.op = op

Goto(label) == pc' = label /\ UNCHANGED call

\* The call's outcome is settled here; the C function returns it when it is done.
Settle(result) == res' = result

-----------------------------------------------------------------------------
(* Calls.                                                                   *)

Begin(c) ==
    /\ pc = "idle" /\ pc' = "start"
    /\ call' = c
    /\ UNCHANGED <<memory, res, locals>>

CallGet == \E i \in Gets : Begin([op |-> "get", id |-> i])

CallInsert == \E e \in Inserts : Begin([op |-> "insert", item |-> e])

CallRemove == \E i \in Removes : Begin([op |-> "remove", id |-> i])

CallIterate == Walks /\ Begin([op |-> "iterate"])

CallDestroy == Walks /\ Begin([op |-> "destroy"])

\* TTree_bulk_insert_start makes a tree of its own: no node exists yet.
CallLoad == used = {} /\ \E s \in Loads : Begin([op |-> "load", items |-> s])

Return ==
    /\ pc = "return" /\ pc' = "idle"
    /\ call' = None /\ res' = None
    /\ node' = NIL /\ target' = NIL /\ trace' = <<>> /\ pos' = 0
    /\ hand' = None /\ current' = NIL /\ out' = <<>>
    /\ UNCHANGED memory

-----------------------------------------------------------------------------
(* __get_bounding_node, the search that TTree_get, TTree_insert and          *)
(* TTree_remove begin with unless the tree is empty.                        *)

Key == IF call.op = "insert" THEN call.item.id ELSE call.id

Searching == call.op \in {"get", "insert", "remove"}

EmptyTree ==
    /\ pc = "start" /\ call.op \in {"get", "remove"} /\ root = NIL
    /\ Settle(IF call.op = "get" THEN [found |-> {}] ELSE [removed |-> FALSE])
    /\ Goto("return")
    /\ UNCHANGED <<memory, locals>>

InsertRoot ==
    /\ At("start", "insert") /\ root = NIL /\ CanAllocate
    /\ root' = Fresh
    /\ heap' = NodeInsert([heap EXCEPT ![Fresh] = Blank], Fresh, 0, call.item)
    /\ used' = used \cup {Fresh}
    /\ Settle([inserted |-> TRUE])
    /\ Goto("return")
    /\ UNCHANGED locals

StartSearch ==
    /\ pc = "start" /\ Searching /\ root # NIL
    /\ node' = root
    /\ Goto("search")
    /\ UNCHANGED <<memory, res, target, trace, pos, hand, current, out>>

SearchRight ==
    /\ pc = "search" /\ node # NIL
    /\ Key > heap[node].last_id
    /\ trace' = Append(trace, node)
    /\ node' = heap[node].right
    /\ UNCHANGED <<memory, call, res, pc, target, pos, hand, current, out>>

SearchLeft ==
    /\ pc = "search" /\ node # NIL
    /\ Key <= heap[node].last_id /\ Key < FirstID(heap, node)
    /\ trace' = Append(trace, node)
    /\ node' = heap[node].left
    /\ UNCHANGED <<memory, call, res, pc, target, pos, hand, current, out>>

\* __id_linear_search stops at the first ID that is not below id.
LinearSearch(ids, id, p) ==
    /\ p \in 0 .. Len(ids)
    /\ \A i \in 1 .. p : ids[i] < id
    /\ p < Len(ids) => id <= ids[p + 1]

SearchHere ==
    /\ pc = "search" /\ node # NIL
    /\ Key <= heap[node].last_id /\ Key >= FirstID(heap, node)
    /\ trace' = Append(trace, node)
    /\ \E p \in 0 .. Length(heap, node) :
          LinearSearch(heap[node].ids, Key, p) /\ pos' = p
    /\ Goto("found")
    /\ UNCHANGED <<memory, res, node, target, hand, current, out>>

SearchOff ==
    /\ pc = "search" /\ node = NIL
    /\ node' = Last(trace)
    /\ pos' = IF Key < FirstID(heap, Last(trace)) THEN 0 ELSE Length(heap, Last(trace))
    /\ Goto("found")
    /\ UNCHANGED <<memory, res, target, trace, hand, current, out>>

\* What __get_bounding_node returns: id == ids[pos], false when it fell off the tree.
Exists == pos < Length(heap, node) /\ heap[node].ids[pos + 1] = Key

Get ==
    /\ At("found", "get")
    /\ Settle([found |-> IF Exists THEN {heap[node].data[pos + 1]} ELSE {}])
    /\ Goto("return")
    /\ UNCHANGED <<memory, locals>>

-----------------------------------------------------------------------------
(* TTree_insert, once the bounding node is known.                           *)

Full(n) == Length(heap, n) >= NodeSize

InsertExisting ==
    /\ At("found", "insert") /\ Exists
    /\ Settle([inserted |-> FALSE])
    /\ Goto("return")
    /\ UNCHANGED <<memory, locals>>

InsertHere ==
    /\ At("found", "insert") /\ ~Exists /\ ~Full(node)
    /\ heap' = NodeInsert(heap, node, pos, call.item)
    /\ Settle([inserted |-> TRUE])
    /\ Goto("return")
    /\ UNCHANGED <<root, used, locals>>

\* The ID is out of the range of a full node: it starts a node of its own.
InsertChild ==
    /\ At("found", "insert") /\ ~Exists /\ Full(node)
    /\ pos \in {0, NodeSize} /\ CanAllocate
    /\ heap' = WithChild(heap, node, IF pos = 0 THEN "left" ELSE "right", call.item)
    /\ used' = used \cup {Fresh}
    /\ Settle([inserted |-> TRUE])
    /\ Goto("rebalance")
    /\ UNCHANGED <<root, locals>>

\* The ID belongs inside a full node: its smallest entry makes room and moves to
\* the left subtree.
Displace ==
    /\ At("found", "insert") /\ ~Exists /\ Full(node) /\ pos \notin {0, NodeSize}
    /\ hand' = EntryAt(heap, node, 0)
    /\ LET shifted == InsertRemovingFirst(heap, node, pos, call.item)
       IN  IF heap[node].left # NIL
           THEN heap' = shifted /\ used' = used
           ELSE /\ CanAllocate
                /\ heap' = WithChild(shifted, node, "left", None)
                /\ used' = used \cup {Fresh}
    /\ node' = heap'[node].left
    /\ Settle([inserted |-> TRUE])
    /\ Goto("place")
    /\ UNCHANGED <<root, target, trace, pos, current, out>>

PlaceDescend ==
    /\ pc = "place" /\ heap[node].right # NIL
    /\ trace' = Append(trace, node)
    /\ node' = heap[node].right
    /\ UNCHANGED <<memory, call, res, pc, target, pos, hand, current, out>>

\* A node that held nothing was created by Displace, and the tree has grown.
Place ==
    /\ pc = "place" /\ heap[node].right = NIL /\ ~Full(node)
    /\ heap' = NodeInsert(heap, node, Length(heap, node), hand)
    /\ hand' = None
    /\ Goto(IF Length(heap', node) > 1 THEN "return" ELSE "rebalance")
    /\ UNCHANGED <<root, used, res, node, target, trace, pos, current, out>>

PlaceBelow ==
    /\ pc = "place" /\ heap[node].right = NIL /\ Full(node) /\ CanAllocate
    /\ heap' = UpdateHeight(WithChild(heap, node, "right", hand), node)
    /\ used' = used \cup {Fresh}
    /\ hand' = None
    /\ Goto("rebalance")
    /\ UNCHANGED <<root, res, node, target, trace, pos, current, out>>

-----------------------------------------------------------------------------
(* TTree_remove, once the bounding node is known.                           *)

RemoveMissing ==
    /\ At("found", "remove") /\ ~Exists
    /\ Settle([removed |-> FALSE])
    /\ Goto("return")
    /\ UNCHANGED <<memory, locals>>

RemoveFromInternal ==
    /\ At("found", "remove") /\ Exists /\ Kind(heap, node) = "internal"
    /\ heap' = NodeRemove(heap, node, pos)
    /\ Settle([removed |-> TRUE])
    /\ IF Length(heap', node) >= MinLen
       THEN Goto("return") /\ UNCHANGED <<node, target>>
       ELSE Goto("steal") /\ target' = node /\ node' = heap[node].left
    /\ UNCHANGED <<root, used, trace, pos, hand, current, out>>

RemoveFromOther ==
    /\ At("found", "remove") /\ Exists /\ Kind(heap, node) # "internal"
    /\ heap' = NodeRemove(heap, node, pos)
    /\ trace' = Front(trace)
    /\ Settle([removed |-> TRUE])
    /\ Goto("fix")
    /\ UNCHANGED <<root, used, node, target, pos, hand, current, out>>

StealDescend ==
    /\ pc = "steal" /\ heap[node].right # NIL
    /\ trace' = Append(trace, node)
    /\ node' = heap[node].right
    /\ UNCHANGED <<memory, call, res, pc, target, pos, hand, current, out>>

\* The largest entry of target's left subtree becomes target's smallest.
Steal ==
    /\ pc = "steal" /\ heap[node].right = NIL
    /\ LET last == Length(heap, node) - 1
       IN  heap' = NodeInsert(NodeRemove(heap, node, last), target, 0,
                              EntryAt(heap, node, last))
    /\ target' = NIL
    /\ Goto("fix")
    /\ UNCHANGED <<root, used, res, node, trace, pos, hand, current, out>>

\* __rebalance_after_remove_non_internal.  The pointer it is given is that of the
\* last node of the trace (of the tree, if there is none) to `node`.
OnlyChild(h, n) == IF h[n].left # NIL THEN h[n].left ELSE h[n].right

Mergeable(h, n) ==
    /\ Kind(h, n) = "halfleaf"
    /\ Length(h, n) + Length(h, OnlyChild(h, n)) <= NodeSize

FixNothing ==
    /\ pc = "fix" /\ ~Mergeable(heap, node)
    /\ Kind(heap, node) = "leaf" => Length(heap, node) > 0
    /\ Goto("return")
    /\ UNCHANGED <<memory, res, locals>>

FixEmptyLeaf ==
    /\ pc = "fix" /\ Kind(heap, node) = "leaf" /\ Length(heap, node) = 0
    /\ heap' = [Repoint(heap, Parent(trace), node, NIL) EXCEPT ![node] = Blank]
    /\ root' = RootAfter(Parent(trace), NIL)
    /\ used' = used \ {node}
    /\ Goto("rebalance")
    /\ UNCHANGED <<res, locals>>

\* The node with the smaller IDs absorbs the other one and becomes a leaf.
Absorbing(h, n) == IF h[n].left # NIL THEN h[n].left ELSE n
Absorbed(h, n) == IF h[n].left # NIL THEN n ELSE h[n].right

FixMerge ==
    /\ pc = "fix" /\ Mergeable(heap, node)
    /\ LET l == Absorbing(heap, node)
           merged == [Merge(heap, l, Absorbed(heap, node)) EXCEPT
                        ![l].left = NIL, ![l].right = NIL]
           balanced == RebalanceSubtree(UpdateHeight(merged, l), l)
       IN  /\ heap' = Repoint(balanced.heap, Parent(trace), node, balanced.top)
           /\ root' = RootAfter(Parent(trace), balanced.top)
    /\ used' = used \ {Absorbed(heap, node)}
    /\ Goto("rebalance")
    /\ UNCHANGED <<res, locals>>

-----------------------------------------------------------------------------
(* __rebalance_from_node_trace: up the trace to the first rotation.         *)

AfterRebalance == IF call.op = "load" THEN "load" ELSE "return"

Updated == UpdateHeight(heap, Last(trace))

Rebalanced == RebalanceSubtree(Updated, Last(trace))

\* The rotation is done in place: the pointer to the old top leads to the new one.
Rotated == Repoint(Rebalanced.heap, Parent(Front(trace)), Last(trace), Rebalanced.top)

RebalanceUp ==
    /\ pc = "rebalance" /\ trace # <<>>
    /\ Rebalanced.top = Last(trace)
    /\ heap' = Rebalanced.heap
    /\ trace' = Front(trace)
    /\ UNCHANGED <<root, used, call, res, pc, node, target, pos, hand, current, out>>

RebalanceRotate ==
    /\ pc = "rebalance" /\ trace # <<>>
    /\ Rebalanced.top # Last(trace)
    /\ heap' = EnsureMinLen(Rotated, Rebalanced.top)
    /\ root' = RootAfter(Parent(Front(trace)), Rebalanced.top)
    /\ trace' = <<>>
    /\ Goto(AfterRebalance)
    /\ UNCHANGED <<used, res, node, target, pos, hand, current, out>>

RebalanceEnd ==
    /\ pc = "rebalance" /\ trace = <<>>
    /\ Goto(AfterRebalance)
    /\ UNCHANGED <<memory, res, locals>>

-----------------------------------------------------------------------------
(* TTree_bulk_insert and TTree_bulk_insert_end.  pos counts the entries     *)
(* inserted so far.                                                         *)

StartLoad ==
    /\ At("start", "load")
    /\ Goto("load")
    /\ UNCHANGED <<memory, res, locals>>

CurrentDone ==
    /\ current # NIL
    /\ Length(heap, current) = NodeSize \/ pos = Len(call.items)

BulkFirst ==
    /\ pc = "load" /\ pos < Len(call.items) /\ current = NIL /\ CanAllocate
    /\ current' = Fresh
    /\ heap' = NodeInsert([heap EXCEPT ![Fresh] = Blank], Fresh, 0, call.items[pos + 1])
    /\ used' = used \cup {Fresh}
    /\ pos' = pos + 1
    /\ UNCHANGED <<root, call, res, pc, node, target, trace, hand, out>>

\* last_id is brought up to date only when the node is finished.
BulkAppend ==
    /\ pc = "load" /\ pos < Len(call.items) /\ current # NIL /\ ~CurrentDone
    /\ heap' = [heap EXCEPT ![current].ids = Append(@, call.items[pos + 1].id),
                            ![current].data = Append(@, call.items[pos + 1].rec)]
    /\ pos' = pos + 1
    /\ UNCHANGED <<root, used, call, res, pc, node, target, trace, hand, current, out>>

\* __bulk_insert_finish_node
Finished == [heap EXCEPT ![current].last_id = Last(heap[current].ids)]

FinishRoot ==
    /\ pc = "load" /\ CurrentDone /\ root = NIL
    /\ heap' = Finished
    /\ root' = current
    /\ current' = NIL
    /\ UNCHANGED <<used, call, res, pc, node, target, trace, pos, hand, out>>

FinishNode ==
    /\ pc = "load" /\ CurrentDone /\ root # NIL
    /\ heap' = Finished
    /\ node' = root
    /\ Goto("attach")
    /\ UNCHANGED <<root, used, res, target, trace, pos, hand, current, out>>

AttachDescend ==
    /\ pc = "attach" /\ node # NIL
    /\ trace' = Append(trace, node)
    /\ node' = heap[node].right
    /\ UNCHANGED <<memory, call, res, pc, target, pos, hand, current, out>>

Attach ==
    /\ pc = "attach" /\ node = NIL
    /\ heap' = [heap EXCEPT ![Last(trace)].right = current]
    /\ current' = NIL
    /\ Goto("rebalance")
    /\ UNCHANGED <<root, used, res, node, target, trace, pos, hand, out>>

LoadEnd ==
    /\ pc = "load" /\ pos = Len(call.items) /\ current = NIL
    /\ Settle([loaded |-> pos])
    /\ Goto("return")
    /\ UNCHANGED <<memory, locals>>

-----------------------------------------------------------------------------
(* TTree_iter_start and TTree_iter_next, called until there is no next, and *)
(* TTree_destroy.                                                           *)

StartIterate ==
    /\ At("start", "iterate")
    /\ node' = root
    /\ Goto("leftmost")
    /\ UNCHANGED <<memory, res, target, trace, pos, hand, current, out>>

IterDescend ==
    /\ pc = "leftmost" /\ node # NIL
    /\ trace' = Append(trace, node)
    /\ node' = heap[node].left
    /\ UNCHANGED <<memory, call, res, pc, target, pos, hand, current, out>>

IterReady ==
    /\ pc = "leftmost" /\ node = NIL
    /\ Goto("next")
    /\ UNCHANGED <<memory, res, locals>>

\* Hand out an entry.  After the node's last one, the next is in the right subtree
\* if there is one, else further up.
IterNext ==
    /\ pc = "next" /\ trace # <<>>
    /\ LET n == Last(trace)
       IN  /\ out' = Append(out, EntryAt(heap, n, pos))
           /\ IF pos + 1 < Length(heap, n)
              THEN pos' = pos + 1 /\ UNCHANGED <<pc, node>>
              ELSE /\ pos' = 0
                   /\ pc' = IF heap[n].right # NIL THEN "leftmost" ELSE "climb"
                   /\ node' = heap[n].right
    /\ UNCHANGED <<memory, call, res, target, trace, hand, current>>

IterClimbOnce == \* slip: does not climb on from a right child
    /\ pc = "climb"
    /\ IF Len(trace) = 1 \/ heap[Parent(Front(trace))].left = Last(trace)
       THEN trace' = Front(trace) /\ Goto("next")
       ELSE trace' = trace /\ Goto(pc)
    /\ UNCHANGED <<memory, res, node, target, pos, hand, current, out>>

IterClimb ==
    /\ pc = "climb"
    /\ trace' = Front(trace)
    /\ IF trace' = <<>> \/ heap[Last(trace')].left = Last(trace) THEN Goto("next") ELSE Goto(pc)
    /\ UNCHANGED <<memory, res, node, target, pos, hand, current, out>>

IterEnd ==
    /\ pc = "next" /\ trace = <<>>
    /\ Settle([items |-> out])
    /\ Goto("return")
    /\ UNCHANGED <<memory, locals>>

\* Frees the reachable nodes one by one and then the allocator's chunks, which
\* hold every node.
Destroy ==
    /\ At("start", "destroy")
    /\ root' = NIL /\ used' = {} /\ heap' = [n \in Nodes |-> Blank]
    /\ Settle([destroyed |-> TRUE])
    /\ Goto("return")
    /\ UNCHANGED locals

-----------------------------------------------------------------------------
(* The asserts of the C code at the point each is evaluated.  The program   *)
(* stops at one that fails, so no step of a call is taken unless they hold. *)

\* The assert of __pop_node_get_pointer.
PointsTo(parent, n) ==
    IF parent = NIL THEN root = n ELSE n \in {heap[parent].left, heap[parent].right}

\* TTreeNodeList_append_assume_capacity
RoomInTrace == Len(trace) < TraceLen

SearchAsserts ==
    pc = "search" /\ node # NIL => Length(heap, node) > 0 /\ RoomInTrace

DescendAsserts ==
    /\ pc \in {"attach", "leftmost"} /\ node # NIL => RoomInTrace
    /\ pc \in {"place", "steal"} => (heap[node].right # NIL => RoomInTrace)

\* Inside TTree_insert: room in the node, no child where one is to be created, and
\* a leaf under the node that gets a new right child.
InsertAsserts ==
    /\ At("found", "insert") /\ ~Exists =>
         /\ Length(heap, node) \in 1 .. NodeSize
         /\ pos <= Length(heap, node)
         /\ Full(node) /\ pos = 0 => heap[node].left = NIL
         /\ Full(node) /\ pos = NodeSize => heap[node].right = NIL
    /\ pc = "place" /\ heap[node].right = NIL /\ Full(node) => Height(heap, heap[node].left) <= 1

RemoveAsserts ==
    /\ At("found", "remove") /\ Exists => PointsTo(Parent(Front(trace)), node)
    /\ pc = "steal" /\ heap[node].right = NIL =>
         Length(heap, node) > 0 /\ Length(heap, target) < NodeSize
    /\ pc = "fix" =>
         /\ PointsTo(Parent(trace), node)
         /\ Kind(heap, node) # "internal"
         /\ Kind(heap, node) = "halfleaf" => Kind(heap, OnlyChild(heap, node)) = "leaf"
         /\ Mergeable(heap, node) =>
              MergeAsserts(heap, Absorbing(heap, node), Absorbed(heap, node))

RebalanceAsserts ==
    pc = "rebalance" /\ trace # <<>> =>
        /\ PointsTo(Parent(Front(trace)), Last(trace))
        /\ Rebalanced.top # Last(trace) => EnsureMinLenAsserts(Rotated, Rebalanced.top)

LoadAsserts ==
    /\ pc = "load" /\ current # NIL =>
         /\ Length(heap, current) > 0
         /\ ~CurrentDone => Last(heap[current].ids) < call.items[pos + 1].id
    /\ pc = "attach" /\ node = NIL => heap[Last(trace)].last_id < FirstID(heap, current)

Asserted ==
    /\ SearchAsserts /\ DescendAsserts /\ InsertAsserts
    /\ RemoveAsserts /\ RebalanceAsserts /\ LoadAsserts

-----------------------------------------------------------------------------
Call == CallGet \/ CallInsert \/ CallRemove \/ CallIterate \/ CallDestroy \/ CallLoad

SearchSteps == EmptyTree \/ StartSearch \/ SearchRight \/ SearchLeft \/ SearchHere \/ SearchOff \/ Get

InsertSteps ==
    \/ InsertRoot \/ InsertExisting \/ InsertHere \/ InsertChild
    \/ Displace \/ PlaceDescend \/ Place \/ PlaceBelow

RemoveSteps ==
    \/ RemoveMissing \/ RemoveFromInternal \/ RemoveFromOther
    \/ StealDescend \/ Steal \/ FixNothing \/ FixEmptyLeaf \/ FixMerge

RebalanceSteps == RebalanceUp \/ RebalanceRotate \/ RebalanceEnd

LoadSteps ==
    \/ StartLoad \/ BulkFirst \/ BulkAppend \/ FinishRoot \/ FinishNode
    \/ AttachDescend \/ Attach \/ LoadEnd

IterateSteps == StartIterate \/ IterDescend \/ IterReady \/ IterNext \/ IterClimb \/ IterEnd

\* What the program does by itself once it has been called.
Run ==
    /\ Asserted
    /\ \/ SearchSteps \/ InsertSteps \/ RemoveSteps \/ RebalanceSteps
       \/ LoadSteps \/ IterateSteps \/ Destroy \/ Return

Next == Call \/ Run

Spec == Init /\ [][Next]_vars

\* The program is not suspended in the middle of a call; nobody has to call it.
FairSpec == Spec /\ WF_vars(Run)

-----------------------------------------------------------------------------
(* Properties.                                                              *)

TNode == [left : Ptr, right : Ptr, height : Nat, last_id : Nat,
          ids : Seq(ID), data : Seq(Record)]

Calls ==
    [op : {"get", "remove"}, id : ID] \cup [op : {"insert"}, item : Entry]
    \cup [op : {"load"}, items : Seq(Entry)] \cup [op : {"iterate", "destroy"}]

Labels == {"idle", "start", "search", "found", "place", "steal", "fix", "rebalance",
           "load", "attach", "leftmost", "next", "climb", "return"}

\* Every variable has its type, and the two arrays of a node are equally long and
\* within the NodeSize slots the code reserves for them: no memmove or memcpy of the
\* node helpers writes past a node.  (What res and out may be is what ImplementsMap
\* says.)
TypeOK ==
    /\ root \in Ptr /\ heap \in [Nodes -> TNode] /\ used \subseteq Nodes
    /\ \A n \in Nodes : Len(heap[n].data) = Len(heap[n].ids) /\ Len(heap[n].ids) <= NodeSize
    /\ call \in Calls \cup {None} /\ pc \in Labels
    /\ node \in Ptr /\ target \in Ptr /\ trace \in Seq(Nodes) /\ pos \in Nat
    /\ hand \in Entry \cup {None} /\ current \in Ptr

\* No assert of t-tree.c fails, whatever sequence of calls led to it.
NoAssertFails == Asserted

\* The nodes below n and n itself, from left to right, and the entries they hold.
NodesBelow(n) ==
    LET walk[m \in Ptr] ==
          IF m = NIL THEN <<>> ELSE walk[heap[m].left] \o <<m>> \o walk[heap[m].right]
    IN  walk[n]

IDsInOrder == FlattenSeq([i \in DOMAIN NodesBelow(root) |-> heap[NodesBelow(root)[i]].ids])

Idle == pc = "idle"

\* Between calls the IDs ascend strictly from left to right through the whole tree: the
\* first three invariants of the comment at the head of t-tree.c.
SearchOrder ==
    Idle => \A i \in 1 .. Len(IDsInOrder) - 1 : IDsInOrder[i] < IDsInOrder[i + 1]

\* Between calls the tree reaches every node the allocator has handed out, by exactly
\* one path: nothing is leaked, shared or freed while it is still linked.
NoLeak == Idle => IsInjective(NodesBelow(root)) /\ ToSet(NodesBelow(root)) = used

\* Between calls every node's last_id is the copy of its last ID that searches rely on.
LastIDExact == Idle => \A n \in used : heap[n].ids # <<>> /\ heap[n].last_id = Last(heap[n].ids)

\* The levels below n, n included.
Levels(n) ==
    LET levels[m \in Ptr] ==
          IF m = NIL THEN 0 ELSE 1 + Max2(levels[heap[m].left], levels[heap[m].right])
    IN  levels[n]

\* Between calls each node's height field is the height of its subtree, as the comment
\* on the field says.
HeightExact == Idle => \A n \in used : heap[n].height = Levels(n)

\* What a node keeps of its last ID and of its subtrees is never stale between calls.
CopiesExact == LastIDExact /\ HeightExact

\* Between calls the subtrees of a node differ in height by at most one: the last
\* invariant of the comment at the head of t-tree.c, on which the length of the
\* traces rests.
Balanced == Idle => \A n \in used : Levels(heap[n].left) - Levels(heap[n].right) \in -1 .. 1

\* Between calls a node with two children holds at least MinLen records.
InternalMinLen == Idle => \A n \in used : Kind(heap, n) = "internal" => Length(heap, n) >= MinLen

\* The entries of the map the tree stands for: those in its nodes and the one in
\* flight between two nodes.  A tree being bulk loaded is nobody's map yet.
EntriesIn(n) == {EntryAt(heap, n, i - 1) : i \in DOMAIN heap[n].ids}

Entries ==
    IF call # None /\ call.op = "load" /\ res = None THEN {}
    ELSE (UNION {EntriesIn(n) : n \in used}) \cup (IF hand = None THEN {} ELSE {hand})

Map == INSTANCE OrderedMap WITH map <- Entries

\* Every call behaves as the same call on an ordered map: gets, inserts and removals
\* report what the map says, iteration visits its entries in order, and no step in
\* between loses, duplicates or alters an entry.
ImplementsMap == Map!Spec

\* Every call returns: no loop of the tree runs forever.
CallsReturn == (pc # "idle") ~> (pc = "idle")
=============================================================================
