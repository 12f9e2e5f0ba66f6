-------------------------- MODULE TTreeOrderProofs ---------------------------
(***************************************************************************)
(* The T-tree is a search tree, and balanced.  The order: it is kept by     *)
(* every step but one, the refill of a short node after a rotation, and by  *)
(* that one too when it takes the records that stand next to the node.  The *)
(* balance: without removes every height is exact and every node level      *)
(* between calls, internal nodes stay half full, and so the refill takes    *)
(* what stands next to the node.  With removes the code breaks both.        *)
(***************************************************************************)
EXTENDS TTreeProofs

-----------------------------------------------------------------------------
(* The invariant of the order: a division of the keys that fits what the    *)
(* handler under way relies on.                                             *)

\* The keys of the tree.  While a node that lost a record waits for another in its place,
\* the ID it lost stays its own.
Held == [m \in Nodes |-> IF pc = "steal" /\ m = target THEN Keys(heap)[m] \cup {call.id} ELSE Keys(heap)[m]]

\* x belongs at position p of ids.
Fits(ids, p, x) == \A i \in 1 .. Len(ids) : IF i <= p THEN ids[i] < x ELSE x <= ids[i]

\* The search is at a node whose span the key belongs to, or fell off a node that has no child on the key's side.
Sought(span) ==
    /\ node # NIL => Key \in span[node]
    /\ node = NIL => /\ Key \in span[Last(trace)]
                     /\ \/ Key < FirstID(heap, Last(trace)) /\ heap[Last(trace)].left = NIL
                        \/ Key > heap[Last(trace)].last_id /\ heap[Last(trace)].right = NIL

\* The search ended at the node and the position the key belongs to.
Found(span) ==
    /\ Key \in span[node]
    /\ Fits(heap[node].ids, pos, Key)
    /\ ~Exists /\ pos = 0 => heap[node].left = NIL
    /\ ~Exists /\ pos = Length(heap, node) => heap[node].right = NIL

\* The displaced item travels down right spines inside its own span, and fits after everything that lies below
\* the node it has reached.
Placed(span) ==
    /\ hand.id \in span[node]
    /\ heap[node].ids = <<>> => heap[node].left = NIL
    /\ \E base : /\ Spans(Lefts(heap), Rights(heap), Held, Linked, base)
                 /\ Below(base[node], {hand.id})

\* The item being stolen is sought along the right spine of the target's left child.
Stolen(span) ==
    /\ call.id \in ID
    /\ \E Q : /\ Spine(Rights(heap), Held, Linked, span, Q, node)
              /\ heap[target].left \in Q /\ target \notin Q
              /\ span[node] \subseteq span[heap[target].left]

\* The finished bulk node is to be hung at the end of the root's right spine.
Attached(span) ==
    \E Q : /\ trace = <<>> => Q = {} /\ node = root
           /\ trace # <<>> => Spine(Rights(heap), Held, Linked, span, Q, Last(trace)) /\ root \in Q
           /\ \A m \in Linked : heap[m].left \notin Q /\ (heap[m].right \in Q => m \in Q)

\* span divides the keys, and what the handler under way relies on holds of it.
SortedBy(span) ==
    /\ Spans(Lefts(heap), Rights(heap), Held, Linked, span)
    /\ pc = "search" => Sought(span)
    /\ pc = "found" => Found(span)
    /\ pc = "place" => Placed(span)
    /\ pc = "steal" => Stolen(span)
    /\ pc = "attach" => Attached(span)

\* The keys can be divided among the nodes as the handler under way needs it.
Sorted == \E span : SortedBy(span)

\* The keys of every node ascend.
Rises == \A n \in used : Ascends(heap[n].ids)

\* The inductive invariant of the order.
OInv == SInv /\ Rises /\ Sorted

\* Outside a steal every key counts where it is stored.
LEMMA HeldKeys == pc # "steal" => Held = Keys(heap)
BY DEF Held, Keys

\* Between handlers nothing more than a division of the keys is asked.
LEMMA Rested ==
    ASSUME pc' \notin {"search", "found", "place", "steal", "attach"},
           \E sp : Spans(Lefts(heap'), Rights(heap'), Keys(heap'), Linked', sp)
    PROVE  Sorted'
<1>1. PICK sp : Spans(Lefts(heap'), Rights(heap'), Keys(heap'), Linked', sp)
  OBVIOUS
<1>2. Held' = Keys(heap')
  BY DEF Held, Keys
<1>3. SortedBy(sp)'
  BY <1>1, <1>2 DEF SortedBy
<1> QED  BY <1>3 DEF Sorted

\* A step that writes neither the memory nor the bulk node keeps the order.
LEMMA Still ==
    ASSUME OInv, UNCHANGED <<memory, current>>, pc # "steal",
           pc' \notin {"search", "found", "place", "steal", "attach"}
    PROVE  Sorted' /\ Rises'
<1>1. heap' = heap /\ used' = used /\ Linked' = Linked
  BY DEF memory, Linked
<1>2. PICK sp : Spans(Lefts(heap), Rights(heap), Keys(heap), Linked, sp)
  BY HeldKeys DEF OInv, Sorted, SortedBy
<1>3. Spans(Lefts(heap'), Rights(heap'), Keys(heap'), Linked', sp)
  BY <1>1, <1>2
<1>4. Sorted'
  BY <1>3, Rested
<1> QED  BY <1>1, <1>4 DEF OInv, Rises

\* An empty tree is divided.
LEMMA NoSpans ==
    ASSUME NEW L, NEW R, NEW K
    PROVE  \E sp : Spans(L, R, K, {}, sp)
<1> DEFINE sp == [m \in Nodes |-> {}]
<1>1. sp \in [Nodes -> SUBSET ID]
  OBVIOUS
<1> HIDE DEF sp
<1>2. Spans(L, R, K, {}, sp)
  BY <1>1 DEF Spans
<1> QED  BY <1>2

\* A tree of one node is divided.
LEMMA OneSpan ==
    ASSUME NEW L, NEW R, NEW K, NEW f \in Nodes, L[f] = NIL, R[f] = NIL, K[f] \subseteq ID
    PROVE  \E sp : Spans(L, R, K, {f}, sp)
<1> DEFINE sp == [m \in Nodes |-> ID]
<1>1. sp \in [Nodes -> SUBSET ID] /\ sp[f] = ID
  OBVIOUS
<1> HIDE DEF sp
<1>2. Spans(L, R, K, {f}, sp)
  BY <1>1 DEF Spans
<1> QED  BY <1>2

\* The order holds at the start.
LEMMA InitSorted == Init => Sorted /\ Rises
<1> SUFFICES ASSUME Init PROVE Sorted /\ Rises
  OBVIOUS
<1>1. pc = "idle" /\ used = {} /\ Linked = {}
  BY DEF Init, Linked
<1>2. PICK sp : Spans(Lefts(heap), Rights(heap), Held, {}, sp)
  BY NoSpans
<1>3. SortedBy(sp)
  BY <1>1, <1>2 DEF SortedBy
<1> QED  BY <1>1, <1>3 DEF Sorted, Rises

\* Starting an operation keeps the order invariant.
LEMMA CallSorted == ASSUME OInv, Call PROVE Sorted' /\ Rises'
<1>1. pc = "idle" /\ pc' = "start" /\ UNCHANGED <<memory, locals>>
  BY DEF Call, CallGet, CallInsert, CallRemove, CallIterate, CallDestroy, CallLoad, Begin
<1> QED  BY <1>1, Still DEF locals

\* The iterator's steps keep the order invariant: they write no node.
LEMMA IterateSorted == ASSUME OInv, IterateSteps PROVE Sorted' /\ Rises'
<1>1. /\ pc \in {"start", "leftmost", "next", "climb"} /\ pc' \in {"leftmost", "next", "climb", "return"}
      /\ UNCHANGED <<memory, current>>
  BY DEF IterateSteps, StartIterate, IterDescend, IterReady, IterNext, IterClimb, IterEnd,
     At, Goto, Settle, locals, memory
<1> QED  BY <1>1, Still

\* Destroying the tree keeps the order invariant.
LEMMA DestroySorted == ASSUME OInv, Destroy PROVE Sorted' /\ Rises'
<1>1. used' = {} /\ pc' = "return" /\ Linked' = {}
  BY DEF Destroy, Goto, Linked
<1>2. \E sp : Spans(Lefts(heap'), Rights(heap'), Keys(heap'), {}, sp)
  BY NoSpans
<1>3. \E sp : Spans(Lefts(heap'), Rights(heap'), Keys(heap'), Linked', sp)
  BY <1>1, <1>2
<1>4. Sorted'
  BY <1>1, <1>3, Rested
<1> QED  BY <1>1, <1>4 DEF Rises

\* What a state between two steps of a search is like.
LEMMA Searches ==
    ASSUME OInv, pc \in {"start", "search", "found"}, Searching
    PROVE  /\ current = NIL /\ Linked = used /\ used \subseteq Nodes /\ heap \in Heap
           /\ TreeOf(heap, used, root) /\ Held = Keys(heap) /\ Key \in ID /\ Key \in Nat
           /\ \A n \in used : /\ n \in Nodes /\ heap[n].ids \in Seq(ID) /\ heap[n].ids # <<>>
                              /\ Len(heap[n].ids) \in Nat /\ Len(heap[n].ids) > 0
                              /\ Ascends(heap[n].ids)
                              /\ FirstID(heap, n) = heap[n].ids[1]
                              /\ heap[n].last_id = heap[n].ids[Len(heap[n].ids)]
                              /\ \A i \in 1 .. Len(heap[n].ids) : heap[n].ids[i] \in Nat
                              /\ Keys(heap)[n] = {heap[n].ids[i] : i \in 1 .. Len(heap[n].ids)}
<1>1. /\ current = NIL /\ Linked = used /\ used \subseteq Nodes /\ heap \in Heap
      /\ TreeOf(heap, used, root) /\ \A n \in used : Whole(heap, n)
  BY Calm DEF OInv
<1>2. Held = Keys(heap)
  BY HeldKeys
<1>3. Key \in ID
  <2>1. call \in Calls
    BY DEF OInv, SInv, IInv, Control
  <2>2. call.op \in {"get", "remove"} => call.id \in ID
    BY <2>1, CallType
  <2>3. call.op = "insert" => call.item \in Entry
    BY <2>1, CallType
  <2>4. call.op = "insert" => call.item.id \in ID
    BY <2>3 DEF Entry
  <2> QED  BY <2>2, <2>4 DEF Key, Searching
<1>4. ASSUME NEW n \in used
      PROVE  /\ n \in Nodes /\ heap[n].ids \in Seq(ID) /\ heap[n].ids # <<>>
             /\ Len(heap[n].ids) \in Nat /\ Len(heap[n].ids) > 0
             /\ Ascends(heap[n].ids)
             /\ FirstID(heap, n) = heap[n].ids[1]
             /\ heap[n].last_id = heap[n].ids[Len(heap[n].ids)]
             /\ \A i \in 1 .. Len(heap[n].ids) : heap[n].ids[i] \in Nat
             /\ Keys(heap)[n] = {heap[n].ids[i] : i \in 1 .. Len(heap[n].ids)}
  <2>1. n \in Nodes /\ heap[n].ids \in Seq(ID) /\ heap[n].ids # <<>> /\ heap[n].last_id = Last(heap[n].ids)
    BY <1>1, HeapNode DEF Whole
  <2>2. Len(heap[n].ids) \in Nat /\ Len(heap[n].ids) > 0
    BY <2>1, NotEmpty, LenProperties
  <2>3. FirstID(heap, n) = heap[n].ids[1] /\ heap[n].last_id = heap[n].ids[Len(heap[n].ids)]
    BY <2>1 DEF FirstID, Last
  <2>4. \A i \in 1 .. Len(heap[n].ids) : heap[n].ids[i] \in Nat
    BY <2>1, ElementOfSeq, IDAssumption, Zenon
  <2>5. Keys(heap)[n] = {heap[n].ids[i] : i \in 1 .. Len(heap[n].ids)}
    BY <1>1, <2>1, KeysOf
  <2> QED  BY <2>1, <2>2, <2>3, <2>4, <2>5 DEF OInv, Rises
<1>5. Key \in Nat
  BY <1>3, IDAssumption
<1> QED  BY <1>1, <1>2, <1>3, <1>4, <1>5

-----------------------------------------------------------------------------
(* TTree_get and the search of every operation.                             *)

\* The search keeps the order invariant: the key it seeks stays in the span of the node it is at.
LEMMA SearchSorted == ASSUME OInv, SearchSteps \/ Return PROVE Sorted' /\ Rises'
<1> USE DEF Goto, Settle, At
<1>1. CASE EmptyTree
  BY <1>1, Still DEF EmptyTree, locals
<1>2. CASE Get
  BY <1>2, Still DEF Get, locals
<1>3. CASE Return
  <2>1. current = NIL
    BY <1>3, Calm DEF Return, OInv
  <2> QED  BY <1>3, <2>1, Still DEF Return
<1>4. CASE StartSearch \/ SearchRight \/ SearchLeft \/ SearchHere \/ SearchOff
  <2>1. /\ pc \in {"start", "search"} /\ Searching /\ UNCHANGED <<root, heap, used, current, call>>
    BY <1>4 DEF StartSearch, SearchRight, SearchLeft, SearchHere, SearchOff, OInv, SInv, IInv, Control, memory
  <2>2. /\ current = NIL /\ Linked = used /\ used \subseteq Nodes /\ heap \in Heap
        /\ TreeOf(heap, used, root) /\ Held = Keys(heap) /\ Key \in ID /\ Key \in Nat
    BY <2>1, Searches
  <2>3. ASSUME NEW n \in used
        PROVE  /\ n \in Nodes /\ heap[n].ids \in Seq(ID) /\ heap[n].ids # <<>>
               /\ Len(heap[n].ids) \in Nat /\ Len(heap[n].ids) > 0
               /\ Ascends(heap[n].ids)
               /\ FirstID(heap, n) = heap[n].ids[1]
               /\ heap[n].last_id = heap[n].ids[Len(heap[n].ids)]
               /\ \A i \in 1 .. Len(heap[n].ids) : heap[n].ids[i] \in Nat
               /\ Keys(heap)[n] = {heap[n].ids[i] : i \in 1 .. Len(heap[n].ids)}
    BY <2>1, <2>3, Searches
  <2>4. PICK span : SortedBy(span)
    BY DEF OInv, Sorted
  <2>5. HeapSpans(heap, used, span)
    BY <2>2, <2>4 DEF SortedBy, HeapSpans
  <2>6. Rises'
    BY <2>1 DEF OInv, Rises
  <2>7. Linked' = used /\ heap' = heap /\ Key' = Key
    BY <2>1, <2>2 DEF Linked, Key
  <2>8. ASSUME pc' \in {"search", "found"}, NEW sp, HeapSpans(heap, used, sp)
        PROVE  /\ (pc' = "search" => Sought(sp)') /\ (pc' = "found" => Found(sp)') => Sorted'
    <3>1. Held' = Keys(heap)
      BY <2>7, <2>8 DEF Held, Keys
    <3>2. ASSUME pc' = "search" => Sought(sp)', pc' = "found" => Found(sp)' PROVE SortedBy(sp)'
      BY <2>7, <2>8, <3>1, <3>2 DEF SortedBy, HeapSpans
    <3> QED  BY <3>2 DEF Sorted
  <2>9. CASE StartSearch
    <3>1. pc' = "search" /\ node' = root /\ root # NIL
      BY <2>9 DEF StartSearch
    <3>2. PICK c \in Nodes : c = root
      BY <2>2, <3>1 DEF OInv, SInv, IInv, TypeOK, Ptr
    <3>3. PICK C \in SUBSET ID : C = {Key}
      BY <2>2, Zenon
    <3> HIDE DEF Goto, Settle, At
    <3>4. PICK sp : HeapSpans(heap, used, sp) /\ sp[c] = span[c] \cup C
      <4>1. TreeOf(heap, used, c) /\ heap \in Heap /\ HeapSpans(heap, used, span)
        BY <2>2, <2>5, <3>2
      <4> QED  BY <4>1, WidenRoot
    <3>5. Sought(sp)'
      BY <2>7, <3>1, <3>2, <3>3, <3>4 DEF Sought
    <3> QED  BY <2>6, <2>8, <3>1, <3>4, <3>5
  <2>10. CASE SearchRight \/ SearchLeft
    <3>1. PICK n : n = node
      OBVIOUS
    <3>2. /\ pc = "search" /\ pc' = "search" /\ n # NIL /\ trace' = Append(trace, n)
          /\ \/ Key > heap[n].last_id /\ node' = heap[n].right
             \/ Key <= heap[n].last_id /\ Key < FirstID(heap, n) /\ node' = heap[n].left
      BY <2>10, <3>1 DEF SearchRight, SearchLeft
    <3>3. n \in used /\ n \in Nodes
      BY <2>2, <2>3, <3>1, <3>2 DEF OInv, SInv, Structure, Cursors
    <3>4. Last(trace') = n
      BY <3>2, <3>3, LastAppend DEF OInv, SInv, IInv, TypeOK
    <3>5. Key \in span[n]
      BY <2>4, <3>1, <3>2 DEF SortedBy, Sought
    <3>6. /\ Key > heap[n].last_id => Below(Keys(heap)[n], {Key})
          /\ Key < FirstID(heap, n) => Below({Key}, Keys(heap)[n])
      <4>1. PICK s : s = heap[n].ids
        OBVIOUS
      <4>2. /\ s \in Seq(ID) /\ Len(s) \in Nat /\ Len(s) > 0 /\ Ascends(s)
            /\ FirstID(heap, n) = s[1] /\ heap[n].last_id = s[Len(s)]
            /\ \A i \in 1 .. Len(s) : s[i] \in Nat
            /\ Keys(heap)[n] = {s[i] : i \in 1 .. Len(s)}
        BY <2>3, <3>3, <4>1
      <4>3. \A i \in 1 .. Len(s) : s[i] <= s[Len(s)] /\ s[1] <= s[i]
        <5> TAKE i \in 1 .. Len(s)
        <5>1. i = Len(s) \/ s[i] < s[Len(s)]
          BY <4>2 DEF Ascends
        <5>2. i = 1 \/ s[1] < s[i]
          BY <4>2 DEF Ascends
        <5>3. s[i] \in Nat /\ s[Len(s)] \in Nat /\ s[1] \in Nat
          BY <4>2
        <5> QED  BY <5>1, <5>2, <5>3
      <4>4. \A i \in 1 .. Len(s) : s[i] \in Nat /\ s[Len(s)] \in Nat /\ s[1] \in Nat
        BY <4>2
      <4>5. /\ Key > s[Len(s)] => \A i \in 1 .. Len(s) : s[i] < Key
            /\ Key < s[1] => \A i \in 1 .. Len(s) : Key < s[i]
        BY <2>2, <4>3, <4>4
      <4> QED  BY <4>2, <4>5 DEF Below
    <3>7. CASE node' = NIL
      <4>1. Sought(span)'
        BY <2>7, <3>2, <3>4, <3>5, <3>7 DEF Sought
      <4> QED  BY <2>5, <2>6, <2>8, <3>2, <4>1
    <3>8. CASE node' # NIL
      <4>1. PICK c \in Nodes : c = node'
        BY <2>2, <3>2, <3>3, <3>8, HeapNode, NILAssumption DEF Ptr
      <4>2. PICK C \in SUBSET ID : C = {Key}
        BY <2>2, Zenon
      <4>3. \/ heap[n].left = c /\ C \subseteq span[n] /\ Below(C, Keys(heap)[n])
            \/ heap[n].right = c /\ C \subseteq span[n] /\ Below(Keys(heap)[n], C)
        BY <3>2, <3>5, <3>6, <4>1, <4>2
      <4>4. PICK sp : HeapSpans(heap, used, sp) /\ sp[c] = span[c] \cup C
        <5>1. heap \in Heap /\ TreeOf(heap, used, root) /\ HeapSpans(heap, used, span)
          BY <2>2, <2>5
        <5>2. CASE heap[n].left = c /\ C \subseteq span[n] /\ Below(C, Keys(heap)[n])
          <6> HIDE DEF Goto, Settle, At
          <6>1. heap[n].left = c /\ C \subseteq span[n] /\ Below(C, Keys(heap)[n])
            BY <5>2
          <6> QED  BY <3>3, <5>1, <6>1, WidenLeft
        <5>3. CASE heap[n].right = c /\ C \subseteq span[n] /\ Below(Keys(heap)[n], C)
          <6> HIDE DEF Goto, Settle, At
          <6>1. heap[n].right = c /\ C \subseteq span[n] /\ Below(Keys(heap)[n], C)
            BY <5>3
          <6>2. \E sp : /\ HeapSpans(heap, used, sp) /\ sp[c] = span[c] \cup C
                        /\ \A m \in Nodes : m # c => sp[m] = span[m]
            <7>1. PICK h, S, r : h = heap /\ S = used /\ r = root
              OBVIOUS
            <7>2. h \in Heap /\ TreeOf(h, S, r) /\ HeapSpans(h, S, span) /\ n \in S
                  /\ h[n].right = c /\ C \subseteq span[n] /\ Below(Keys(h)[n], C)
              BY <3>3, <5>1, <6>1, <7>1
            <7>3. \E sp : /\ HeapSpans(h, S, sp) /\ sp[c] = span[c] \cup C
                          /\ \A m \in Nodes : m # c => sp[m] = span[m]
              BY <7>2, WidenRight
            <7> QED  BY <7>1, <7>3
          <6> QED  BY <6>2
        <5> QED  BY <4>3, <5>2, <5>3
      <4>5. Sought(sp)'
        BY <2>7, <3>8, <4>1, <4>2, <4>4 DEF Sought
      <4> QED  BY <2>6, <2>8, <3>2, <4>4, <4>5
    <3> QED  BY <3>7, <3>8
  <2>11. CASE SearchHere
    <3>1. PICK n, p, s : n = node /\ p = pos' /\ s = heap[n].ids
      OBVIOUS
    <3>2. /\ pc = "search" /\ pc' = "found" /\ n # NIL /\ node' = n
          /\ Key <= heap[n].last_id /\ Key >= FirstID(heap, n)
          /\ LinearSearch(s, Key, p)
      BY <2>11, <3>1 DEF SearchHere
    <3>3. n \in used /\ n \in Nodes
      BY <2>2, <2>3, <3>1, <3>2 DEF OInv, SInv, Structure, Cursors
    <3>4. Key \in span[n]
      BY <2>4, <3>1, <3>2 DEF SortedBy, Sought
    <3>5. /\ s \in Seq(ID) /\ Len(s) \in Nat /\ Len(s) > 0 /\ Ascends(s)
          /\ FirstID(heap, n) = s[1] /\ heap[n].last_id = s[Len(s)]
          /\ \A i \in 1 .. Len(s) : s[i] \in Nat
      BY <2>3, <3>1, <3>3
    <3>6. /\ p \in 0 .. Len(s) /\ \A i \in 1 .. p : s[i] < Key
          /\ p < Len(s) => Key <= s[p + 1]
      BY <3>2 DEF LinearSearch
    <3>7. p < Len(s)
      <4>1. Len(s) \in 1 .. Len(s) /\ s[Len(s)] \in Nat
        BY <3>5
      <4> QED  BY <2>2, <3>2, <3>5, <3>6, <4>1
    <3>8. Fits(s, p, Key)
      <4> SUFFICES ASSUME NEW i \in 1 .. Len(s) PROVE IF i <= p THEN s[i] < Key ELSE Key <= s[i]
        BY DEF Fits
      <4>1. CASE i <= p
        BY <3>5, <3>6, <4>1
      <4>2. CASE i > p
        <5>1. PICK j \in 1 .. Len(s) : j = p + 1
          BY <3>5, <3>6, <3>7
        <5>2. Key <= s[j] /\ s[j] \in Nat /\ s[i] \in Nat
          BY <3>5, <3>6, <3>7, <5>1
        <5>3. j = i \/ s[j] < s[i]
          BY <3>5, <3>6, <4>2, <5>1 DEF Ascends
        <5>4. ~ (i <= p)
          BY <3>5, <3>6, <4>2
        <5> QED  BY <2>2, <5>2, <5>3, <5>4
      <4> QED  BY <3>5, <3>6, <4>1, <4>2
    <3>9. Exists' <=> (p < Len(s) /\ s[p + 1] = Key)
      BY <2>7, <3>1, <3>2 DEF Exists, Length
    <3>10. p = 0 => Exists'
      BY <2>2, <3>2, <3>5, <3>6, <3>7, <3>9
    <3>11. Found(span)'
      BY <2>7, <3>1, <3>2, <3>4, <3>5, <3>6, <3>7, <3>8, <3>10 DEF Found, Length
    <3> QED  BY <2>5, <2>6, <2>8, <3>2, <3>11
  <2>12. CASE SearchOff
    <3>1. PICK n, p, s : n = Last(trace) /\ p = pos' /\ s = heap[n].ids
      OBVIOUS
    <3>2. /\ pc = "search" /\ pc' = "found" /\ node = NIL /\ node' = n
          /\ p = IF Key < FirstID(heap, n) THEN 0 ELSE Len(s)
      BY <2>12, <3>1 DEF SearchOff, Length
    <3>3. n \in used /\ n \in Nodes
      <4>1. trace # <<>>
        BY <3>2, NILAssumption DEF OInv, SInv, IInv, Control
      <4> QED  BY <2>2, <2>3, <3>1, <3>2, <4>1 DEF OInv, SInv, Structure, Cursors
    <3>4. /\ Key \in span[n]
          /\ \/ Key < FirstID(heap, n) /\ heap[n].left = NIL
             \/ Key > heap[n].last_id /\ heap[n].right = NIL
      BY <2>4, <3>1, <3>2 DEF SortedBy, Sought
    <3>5. /\ s \in Seq(ID) /\ Len(s) \in Nat /\ Len(s) > 0 /\ Ascends(s)
          /\ FirstID(heap, n) = s[1] /\ heap[n].last_id = s[Len(s)]
          /\ \A i \in 1 .. Len(s) : s[i] \in Nat
      BY <2>3, <3>1, <3>3
    <3>6. \A i \in 1 .. Len(s) : s[i] <= s[Len(s)] /\ s[1] <= s[i]
      <4> TAKE i \in 1 .. Len(s)
      <4>1. i = Len(s) \/ s[i] < s[Len(s)]
        BY <3>5 DEF Ascends
      <4>2. i = 1 \/ s[1] < s[i]
        BY <3>5 DEF Ascends
      <4>3. s[i] \in Nat /\ s[Len(s)] \in Nat /\ s[1] \in Nat
        BY <3>5
      <4> QED  BY <4>1, <4>2, <4>3
    <3>7. CASE Key < FirstID(heap, n)
      <4>1. p = 0 /\ p # Len(s)
        BY <3>2, <3>5, <3>7
      <4>2. heap[n].left = NIL
        <5>1. s[1] \in Nat /\ s[Len(s)] \in Nat /\ s[1] <= s[Len(s)]
          BY <3>5, <3>6
        <5> QED  BY <2>2, <3>4, <3>5, <3>7, <5>1
      <4>3. Fits(s, p, Key)
        <5> SUFFICES ASSUME NEW i \in 1 .. Len(s) PROVE ~ (i <= p) /\ Key <= s[i]
          BY DEF Fits
        <5>1. s[i] \in Nat /\ s[1] \in Nat /\ s[1] <= s[i]
          BY <3>5, <3>6
        <5> QED  BY <2>2, <3>5, <3>7, <4>1, <5>1
      <4>4. Found(span)'
        BY <2>7, <3>1, <3>2, <3>4, <4>1, <4>2, <4>3 DEF Found, Length
      <4> QED  BY <2>5, <2>6, <2>8, <3>2, <4>4
    <3>8. CASE ~ (Key < FirstID(heap, n))
      <4>1. p = Len(s) /\ p # 0
        BY <3>2, <3>5, <3>8
      <4>2. heap[n].right = NIL /\ Key > s[Len(s)]
        BY <3>4, <3>5, <3>8
      <4>3. Fits(s, p, Key)
        <5> SUFFICES ASSUME NEW i \in 1 .. Len(s) PROVE i <= p /\ s[i] < Key
          BY DEF Fits
        <5>1. s[i] \in Nat /\ s[Len(s)] \in Nat /\ s[i] <= s[Len(s)]
          BY <3>5, <3>6
        <5> QED  BY <2>2, <3>5, <4>1, <4>2, <5>1
      <4>4. Found(span)'
        BY <2>7, <3>1, <3>2, <3>4, <4>1, <4>2, <4>3 DEF Found, Length
      <4> QED  BY <2>5, <2>6, <2>8, <3>2, <4>4
    <3> QED  BY <3>7, <3>8
  <2> QED  BY <1>4, <2>9, <2>10, <2>11, <2>12
<1> QED  BY <1>1, <1>2, <1>3, <1>4 DEF SearchSteps

-----------------------------------------------------------------------------
(* TTree_insert keeps the order.                                            *)

\* Where the search ended without finding the key, the key may go into the node without disturbing its children.
LEMMA FoundGap ==
    ASSUME OInv, pc = "found", Searching, ~Exists, NEW span, HeapSpans(heap, used, span), Found(span)
    PROVE  /\ node \in used /\ pos \in 0 .. Len(heap[node].ids)
           /\ Key \in span[node]
           /\ \A i \in 1 .. Len(heap[node].ids) :
                 IF i <= pos THEN heap[node].ids[i] < Key ELSE Key < heap[node].ids[i]
           /\ heap[node].left # NIL => Below(span[heap[node].left], {Key})
           /\ heap[node].right # NIL => Below({Key}, span[heap[node].right])
<1>1. PICK n, s, p, x : n = node /\ s = heap[node].ids /\ p = pos /\ x = Key
  OBVIOUS
<1>2. n \in used
  <2>1. Linked = used
    BY Searches
  <2> QED  BY <1>1, <2>1 DEF OInv, SInv, Structure, Cursors
<1>3. /\ n \in Nodes /\ s \in Seq(ID) /\ Len(s) \in Nat /\ Len(s) > 0 /\ Ascends(s) /\ x \in Nat
      /\ \A i \in 1 .. Len(s) : s[i] \in Nat
      /\ Keys(heap)[n] = {s[i] : i \in 1 .. Len(s)} /\ heap \in Heap
  BY <1>1, <1>2, Searches
<1>4. p \in 0 .. Len(s)
  BY <1>1, <1>3 DEF OInv, SInv, IInv, Control, TypeOK, Length
<1>5. /\ x \in span[n]
      /\ \A i \in 1 .. Len(s) : IF i <= p THEN s[i] < x ELSE x <= s[i]
      /\ p = 0 => heap[n].left = NIL
      /\ p = Len(s) => heap[n].right = NIL
      /\ ~(p < Len(s) /\ s[p + 1] = x)
  BY <1>1 DEF Found, Fits, Exists, Length
<1>6. \A i \in 1 .. Len(s) : IF i <= p THEN s[i] < x ELSE x < s[i]
  <2> SUFFICES ASSUME NEW i \in 1 .. Len(s), ~ (i <= p) PROVE x < s[i]
    BY <1>5
  <2>1. p < Len(s) /\ p + 1 \in 1 .. Len(s) /\ p + 1 <= i
    BY <1>3, <1>4
  <2>2. PICK j \in 1 .. Len(s) : j = p + 1
    BY <2>1
  <2>3. ~ (j <= p) /\ s[j] # x
    BY <1>4, <1>5, <2>1, <2>2
  <2>4. x <= s[j] /\ s[j] \in Nat /\ s[i] \in Nat
    BY <1>3, <1>5, <2>3
  <2>5. j = i \/ s[j] < s[i]
    BY <1>3, <2>1, <2>2 DEF Ascends
  <2> QED  BY <1>3, <2>3, <2>4, <2>5
<1>7. /\ Lefts(heap)[n] = heap[n].left /\ Rights(heap)[n] = heap[n].right
  BY <1>3, HeapLinks
<1>8. /\ heap[n].left # NIL => Below(span[heap[n].left], Keys(heap)[n])
      /\ heap[n].right # NIL => Below(Keys(heap)[n], span[heap[n].right])
      /\ heap[n].left # NIL => span[heap[n].left] \subseteq span[n]
      /\ heap[n].right # NIL => span[heap[n].right] \subseteq span[n]
      /\ span[n] \subseteq Nat
  <2>1. span \in [Nodes -> SUBSET ID]
    BY DEF HeapSpans, Spans
  <2>2. span[n] \subseteq Nat
    BY <1>3, <2>1, IDAssumption, Zenon
  <2> QED  BY <1>2, <1>7, <2>2 DEF HeapSpans, Spans
<1>9. ASSUME heap[n].left # NIL PROVE Below(span[heap[n].left], {x})
  <2>1. 1 \in 1 .. Len(s) /\ 1 <= p
    BY <1>3, <1>4, <1>5, <1>9
  <2>2. s[1] < x /\ s[1] \in Keys(heap)[n] /\ s[1] \in Nat
    BY <1>3, <1>5, <2>1
  <2>3. ASSUME NEW y \in span[heap[n].left] PROVE y < x
    <3>1. y < s[1] /\ y \in Nat
      BY <1>8, <1>9, <2>2, <2>3 DEF Below
    <3> QED  BY <1>3, <2>2, <3>1
  <2> QED  BY <2>3 DEF Below
<1>10. ASSUME heap[n].right # NIL PROVE Below({x}, span[heap[n].right])
  <2>1. Len(s) \in 1 .. Len(s) /\ ~ (Len(s) <= p)
    BY <1>3, <1>4, <1>5, <1>10
  <2>2. x <= s[Len(s)] /\ s[Len(s)] \in Keys(heap)[n] /\ s[Len(s)] \in Nat
    BY <1>3, <1>5, <2>1
  <2>3. ASSUME NEW y \in span[heap[n].right] PROVE x < y
    <3>1. s[Len(s)] < y /\ y \in Nat
      BY <1>8, <1>10, <2>2, <2>3 DEF Below
    <3> QED  BY <1>3, <2>2, <3>1
  <2> QED  BY <2>3 DEF Below
<1> QED  BY <1>1, <1>2, <1>4, <1>5, <1>6, <1>9, <1>10

\* With no bulk load under way every used node is in the tree.
LEMMA LinkedAll == ASSUME current = NIL, used \subseteq Nodes PROVE Linked = used
BY NILAssumption DEF Linked

\* Between handlers, with no bulk load under way, a division of the keys is all that is asked.
LEMMA Resting ==
    ASSUME pc' \notin {"search", "found", "place", "steal", "attach"}, current' = NIL, used' \subseteq Nodes,
           NEW g, g = heap', \E sp : HeapSpans(g, used', sp)
    PROVE  Sorted'
<1>1. Linked' = used'
  BY NILAssumption DEF Linked
<1>2. \E sp : Spans(Lefts(heap'), Rights(heap'), Keys(heap'), Linked', sp)
  BY <1>1 DEF HeapSpans
<1> QED  BY <1>2, Rested

\* What a state about to insert is like.
LEMMA Inserting ==
    ASSUME OInv, pc = "found", call.op = "insert", ~Exists
    PROVE  /\ call.item \in Entry /\ Key = call.item.id /\ Key \in ID /\ current = NIL
           /\ heap \in Heap /\ TreeOf(heap, used, root) /\ used \subseteq Nodes
           /\ node \in used /\ node \in Nodes /\ heap[node].ids \in Seq(ID) /\ Ascends(heap[node].ids)
           /\ Length(heap, node) = Len(heap[node].ids) /\ Len(heap[node].ids) \in Nat
           /\ pos \in 0 .. Len(heap[node].ids) /\ pos \in Nat
           /\ \A n \in used : heap[n].ids # <<>>
           /\ \A i \in 1 .. Len(heap[node].ids) :
                 IF i <= pos THEN heap[node].ids[i] < Key ELSE Key < heap[node].ids[i]
           /\ \E span : /\ HeapSpans(heap, used, span) /\ Key \in span[node]
                        /\ heap[node].left # NIL => Below(span[heap[node].left], {Key})
                        /\ heap[node].right # NIL => Below({Key}, span[heap[node].right])
<1>1. Searching
  BY DEF Searching
<1>2. /\ current = NIL /\ Linked = used /\ used \subseteq Nodes /\ heap \in Heap
      /\ TreeOf(heap, used, root) /\ Held = Keys(heap) /\ Key \in ID /\ Key \in Nat
  BY <1>1, Searches
<1>3. ASSUME NEW n \in used
      PROVE  /\ n \in Nodes /\ heap[n].ids \in Seq(ID) /\ heap[n].ids # <<>>
             /\ Len(heap[n].ids) \in Nat /\ Ascends(heap[n].ids)
  BY <1>1, <1>3, Searches
<1>4. PICK span : SortedBy(span)
  BY DEF OInv, Sorted
<1>5. HeapSpans(heap, used, span) /\ Found(span)
  BY <1>2, <1>4 DEF SortedBy, HeapSpans
<1>6. /\ node \in used /\ pos \in 0 .. Len(heap[node].ids)
      /\ Key \in span[node]
      /\ \A i \in 1 .. Len(heap[node].ids) :
            IF i <= pos THEN heap[node].ids[i] < Key ELSE Key < heap[node].ids[i]
      /\ heap[node].left # NIL => Below(span[heap[node].left], {Key})
      /\ heap[node].right # NIL => Below({Key}, span[heap[node].right])
  BY <1>1, <1>5, FoundGap, Zenon
<1>7. call.item \in Entry /\ Key = call.item.id
  BY CallType DEF OInv, SInv, IInv, Control, Key
<1>8. pos \in Nat
  BY DEF OInv, SInv, IInv, TypeOK
<1>9. Length(heap, node) = Len(heap[node].ids)
  BY DEF Length
<1> QED  BY <1>2, <1>3, <1>5, <1>6, <1>7, <1>8, <1>9

\* The first insertion keeps the order invariant.
LEMMA InsertRootSorted == ASSUME OInv, InsertRoot PROVE Sorted' /\ Rises'
<1>1. /\ pc = "start" /\ pc' = "return" /\ root = NIL /\ CanAllocate /\ current' = current
      /\ used' = used \cup {Fresh} /\ call.op = "insert" /\ call \in Calls
      /\ heap' = NodeInsert([heap EXCEPT ![Fresh] = Blank], Fresh, 0, call.item)
  BY DEF InsertRoot, At, Goto, locals, OInv, SInv, IInv, Control
<1>2. call.item \in Entry
  BY <1>1, CallType
<1>3. current = NIL /\ used \subseteq Nodes /\ heap \in Heap /\ TreeOf(heap, used, root)
  BY <1>1, Calm DEF OInv
<1>4. used = {}
  BY <1>1, <1>3, Children, NILAssumption
<1>5. PICK f \in Nodes \ used : f = Fresh
  BY <1>1, <1>3, FreshNew
<1>6. heap[f].left = NIL /\ heap[f].right = NIL
  BY <1>3, Outside
<1>7. PICK e \in Entry : e = call.item
  BY <1>2
<1>8. PICK g \in Heap : g = Started(heap, f, e)
  BY <1>3, <1>6, StartedKeeps
<1>9. SameLinks(g, heap) /\ g[f].ids = <<e.id>>
  BY <1>3, <1>6, <1>8, StartedKeeps, StartedItems
<1>10. e.id \in ID /\ Ascends(<<e.id>>)
  BY OneAscends DEF Entry
<1>11. g = heap'
  BY <1>1, <1>5, <1>7, <1>8 DEF Started, Cleared
<1>12. Lefts(g)[f] = NIL /\ Rights(g)[f] = NIL /\ Keys(g)[f] \subseteq ID
  <2>1. g[f].left = NIL /\ g[f].right = NIL
    BY <1>3, <1>6, <1>9, LinksSame
  <2>2. Lefts(g)[f] = g[f].left /\ Rights(g)[f] = g[f].right
    BY HeapLinks
  <2>3. Keys(g)[f] \in SUBSET ID
    BY KeysOf
  <2> QED  BY <2>1, <2>2, <2>3
<1>13. \E sp : HeapSpans(g, {f}, sp)
  BY <1>12, OneSpan DEF HeapSpans
<1>14. used' = {f} /\ used' \subseteq Nodes /\ current' = NIL
  BY <1>1, <1>3, <1>4, <1>5
<1>15. Sorted'
  BY <1>1, <1>11, <1>13, <1>14, Resting, Zenon
<1>16. Rises'
  BY <1>9, <1>10, <1>11, <1>14 DEF Rises
<1> QED  BY <1>15, <1>16

\* Inserting into the found node keeps the order invariant.
LEMMA InsertHereSorted == ASSUME OInv, InsertHere PROVE Sorted' /\ Rises'
<1>1. /\ pc = "found" /\ pc' = "return" /\ UNCHANGED <<root, used, current>> /\ call.op = "insert" /\ ~Exists
      /\ heap' = NodeInsert(heap, node, pos, call.item) /\ ~Full(node)
  BY DEF InsertHere, At, Goto, locals
<1>2. PICK n, p, e, s, x : n = node /\ p = pos /\ e = call.item /\ s = heap[node].ids /\ x = Key
  OBVIOUS
<1>3. /\ e \in Entry /\ x = e.id /\ x \in ID /\ current = NIL /\ heap \in Heap /\ used \subseteq Nodes
      /\ n \in used /\ n \in Nodes /\ s \in Seq(ID) /\ Ascends(s) /\ Length(heap, n) = Len(s)
      /\ p \in 0 .. Len(s) /\ Len(s) \in Nat
  BY <1>1, <1>2, Inserting
<1>4. \A i \in 1 .. Len(s) : IF i <= p THEN s[i] < x ELSE x < s[i]
  BY <1>1, <1>2, Inserting
<1>5. PICK span : /\ HeapSpans(heap, used, span) /\ x \in span[n]
                  /\ heap[n].left # NIL => Below(span[heap[n].left], {x})
                  /\ heap[n].right # NIL => Below({x}, span[heap[n].right])
  BY <1>1, <1>2, Inserting, Zenon
<1>6. Length(heap, n) < NodeSize /\ p \in 0 .. Length(heap, n)
  BY <1>1, <1>2, <1>3, SizeAssumption DEF Full
<1>7. PICK g : g = NodeInsert(heap, n, p, e)
  OBVIOUS
<1>8. g = heap'
  BY <1>1, <1>2, <1>7
<1>9. /\ g \in Heap /\ g[n].ids = InsertAt(s, p + 1, x)
      /\ g[n].left = heap[n].left /\ g[n].right = heap[n].right
      /\ \A m \in Nodes : m # n => g[m] = heap[m]
  BY <1>2, <1>3, <1>6, <1>7, NodeInsertItems
<1>10. Ascends(g[n].ids) /\ ToSet(g[n].ids) = ToSet(s) \cup {x}
  BY <1>3, <1>4, <1>9, InsertAscends
<1>11. SameLinks(g, heap)
  BY <1>9, LinksEqual
<1>12. Keys(g)[n] \subseteq Keys(heap)[n] \cup {x}
  BY <1>2, <1>3, <1>10 DEF Keys
<1>13. HeapSpans(g, used, span)
  <2>1. PICK C : C = {x}
    BY Zenon
  <2>2. /\ C \subseteq span[n] /\ Keys(g)[n] \subseteq Keys(heap)[n] \cup C
        /\ heap[n].left # NIL => Below(span[heap[n].left], C)
        /\ heap[n].right # NIL => Below(C, span[heap[n].right])
    BY <1>5, <1>12, <2>1
  <2>3. \A m \in used : m # n => g[m].ids = heap[m].ids
    BY <1>3, <1>9
  <2> QED  BY <1>3, <1>5, <1>9, <1>11, <2>2, <2>3, GainKeys, Zenon
<1>14. Sorted'
  <2>1. used' = used /\ used' \subseteq Nodes /\ current' = NIL
    BY <1>1, <1>3
  <2> QED  BY <1>1, <1>8, <1>13, <2>1, Resting
<1>15. Rises'
  <2>1. ASSUME NEW m \in used PROVE Ascends(g[m].ids)
    BY <1>3, <1>9, <1>10 DEF OInv, Rises
  <2> QED  BY <1>1, <1>8, <2>1 DEF Rises
<1> QED  BY <1>14, <1>15

\* Inserting into a new child keeps the order invariant.
LEMMA InsertChildSorted == ASSUME OInv, Asserted, InsertChild PROVE Sorted' /\ Rises'
<1>1. /\ pc = "found" /\ pc' = "rebalance" /\ UNCHANGED <<root, current>> /\ call.op = "insert" /\ ~Exists
      /\ Full(node) /\ pos \in {0, NodeSize} /\ CanAllocate /\ used' = used \cup {Fresh}
      /\ heap' = WithChild(heap, node, IF pos = 0 THEN "left" ELSE "right", call.item)
  BY DEF InsertChild, At, Goto, locals
<1>2. PICK n, p, e, s, x, f : n = node /\ p = pos /\ e = call.item /\ s = heap[node].ids /\ x = Key /\ f = Fresh
  OBVIOUS
<1>3. /\ e \in Entry /\ x = e.id /\ x \in ID /\ current = NIL /\ heap \in Heap /\ used \subseteq Nodes
      /\ n \in used /\ n \in Nodes /\ s \in Seq(ID) /\ Ascends(s) /\ Length(heap, n) = Len(s)
      /\ p \in 0 .. Len(s) /\ Len(s) \in Nat /\ TreeOf(heap, used, root)
  BY <1>1, <1>2, Inserting
<1>4. \A i \in 1 .. Len(s) : IF i <= p THEN s[i] < x ELSE x < s[i]
  BY <1>1, <1>2, Inserting
<1>5. PICK span : HeapSpans(heap, used, span) /\ x \in span[n]
  BY <1>1, <1>2, Inserting
<1>6. f \in Nodes \ used /\ heap[f].left = NIL /\ heap[f].right = NIL /\ n # f
  BY <1>1, <1>2, <1>3, FreshNew, Outside
<1>7. PICK side \in {"left", "right"} : side = IF p = 0 THEN "left" ELSE "right"
  OBVIOUS
<1>8. PICK g : g = WithChild(heap, n, side, e)
  OBVIOUS
<1>9. g = heap'
  BY <1>1, <1>2, <1>7, <1>8
<1>10. /\ g \in Heap
       /\ side = "left" => Lefts(g) = [Lefts(heap) EXCEPT ![n] = f] /\ Rights(g) = Rights(heap)
       /\ side = "right" => Rights(g) = [Rights(heap) EXCEPT ![n] = f] /\ Lefts(g) = Lefts(heap)
       /\ \A m \in Nodes \ {f} : g[m].ids = heap[m].ids
  <2>1. e \in Entry \cup {None} /\ n # Fresh /\ heap[Fresh].left = NIL /\ heap[Fresh].right = NIL
    BY <1>2, <1>3, <1>6
  <2>2. /\ g \in Heap
        /\ side = "left" => Lefts(g) = [Lefts(heap) EXCEPT ![n] = Fresh] /\ Rights(g) = Rights(heap)
        /\ side = "right" => Rights(g) = [Rights(heap) EXCEPT ![n] = Fresh] /\ Lefts(g) = Lefts(heap)
        /\ \A m \in Nodes \ {Fresh} : g[m].ids = heap[m].ids /\ g[m].last_id = heap[m].last_id
    BY <1>1, <1>3, <1>8, <2>1, WithChildKeeps
  <2> QED  BY <1>2, <2>2
<1>11. g[f].ids = <<x>> /\ Ascends(g[f].ids) /\ Keys(g)[f] = {x}
  <2>1. g[Fresh].ids = <<e.id>>
    BY <1>2, <1>3, <1>6, <1>8, PlantItems
  <2> QED  BY <1>2, <1>3, <1>6, <2>1, OneAscends DEF Keys
<1>12. /\ p = 0 => \A i \in 1 .. Len(s) : x < s[i]
       /\ p # 0 => \A i \in 1 .. Len(s) : s[i] < x
  <2>1. p # 0 => p = Len(s)
    <3>1. Length(heap, n) \in 0 .. NodeSize
      BY <1>3, HeapNode
    <3> QED  BY <1>1, <1>2, <1>3, <3>1, SizeAssumption DEF Full
  <2> QED  BY <1>3, <1>4, <2>1
<1>13. PICK F \in SUBSET ID : F = {x}
  BY <1>3, Zenon
<1>14. /\ p = 0 => Below(F, Keys(heap)[n])
       /\ p # 0 => Below(Keys(heap)[n], F)
  <2>1. Keys(heap)[n] = {s[i] : i \in 1 .. Len(s)}
    BY <1>2, <1>3, KeysOf
  <2> QED  BY <1>12, <1>13, <2>1 DEF Below
<1>15. \/ /\ Lefts(g) = [Lefts(heap) EXCEPT ![n] = f] /\ Rights(g) = Rights(heap)
          /\ Below(F, Keys(heap)[n])
       \/ /\ Rights(g) = [Rights(heap) EXCEPT ![n] = f] /\ Lefts(g) = Lefts(heap)
          /\ Below(Keys(heap)[n], F)
  <2>1. CASE p = 0
    BY <1>7, <1>10, <1>14, <2>1
  <2>2. CASE p # 0
    BY <1>7, <1>10, <1>14, <2>2
  <2> QED  BY <2>1, <2>2
<1>16. \E sp : HeapSpans(g, used \cup {f}, sp)
  <2>1. F \subseteq span[n] /\ Keys(g)[f] \subseteq F
    BY <1>5, <1>11, <1>13
  <2>2. \A m \in used : g[m].ids = heap[m].ids
    BY <1>3, <1>6, <1>10
  <2>3. PICK h \in Heap : h = heap
    BY <1>3
  <2>3x. PICK S, r : S = used /\ r = root
    OBVIOUS
  <2>4. PICK k \in S, b \in Nodes \ S, w \in Heap : k = n /\ b = f /\ w = g
    BY <1>3, <1>6, <1>10, <2>3, <2>3x
  <2>5. TreeOf(h, S, r) /\ HeapSpans(h, S, span) /\ F \subseteq span[k] /\ Keys(w)[b] \subseteq F
        /\ \A m \in S : w[m].ids = h[m].ids
    BY <1>3, <1>5, <2>1, <2>2, <2>3, <2>3x, <2>4
  <2>6. \/ /\ Lefts(w) = [Lefts(h) EXCEPT ![k] = b] /\ Rights(w) = Rights(h)
           /\ Below(F, Keys(h)[k])
        \/ /\ Rights(w) = [Rights(h) EXCEPT ![k] = b] /\ Lefts(w) = Lefts(h)
           /\ Below(Keys(h)[k], F)
    BY <1>15, <2>3, <2>3x, <2>4
  <2>7. Grown(w, S, b, F)
    <3>1. TreeOf(h, S, r) /\ HeapSpans(h, S, span) /\ F \subseteq span[k] /\ Keys(w)[b] \subseteq F
      BY <2>5
    <3>2. \A m \in S : w[m].ids = h[m].ids
      BY <2>5
    <3>3. Hangs(w, h, k, b, F)
      BY <2>6 DEF Hangs
    <3> QED  BY <3>1, <3>2, <3>3, GainsLeaf
  <2>8. \E sp : HeapSpans(w, S \cup {b}, sp)
    BY <2>7 DEF Grown
  <2> QED  BY <2>3, <2>3x, <2>4, <2>8
<1>17. Sorted'
  <2>1. used' = used \cup {f} /\ used' \subseteq Nodes /\ current' = NIL
    BY <1>1, <1>2, <1>3, <1>6
  <2> QED  BY <1>1, <1>9, <1>16, <2>1, Resting
<1>18. Rises'
  <2>1. ASSUME NEW m \in used \cup {f} PROVE Ascends(g[m].ids)
    BY <1>3, <1>6, <1>10, <1>11, Zenon DEF OInv, Rises
  <2>2. used' = used \cup {f}
    BY <1>1, <1>2
  <2> QED  BY <1>9, <2>1, <2>2 DEF Rises
<1> QED  BY <1>17, <1>18

\* What a step of the displaced item's travel has to establish.
LEMMA PlaceNext ==
    ASSUME pc' = "place", current' = NIL, used' \subseteq Nodes, NEW g, g = heap', NEW sp, HeapSpans(g, used', sp),
           NEW y, y = hand'.id, NEW c, c = node', y \in sp[c], g[c].ids = <<>> => g[c].left = NIL,
           NEW base, HeapSpans(g, used', base), Below(base[c], {y})
    PROVE  Sorted'
<1>1. Linked' = used' /\ Held' = Keys(g)
  BY NILAssumption DEF Linked, Held, Keys
<1>2. Spans(Lefts(heap'), Rights(heap'), Held', Linked', base)
  BY <1>1 DEF HeapSpans
<1>3. Placed(sp)'
  BY <1>2 DEF Placed
<1>4. Spans(Lefts(heap'), Rights(heap'), Held', Linked', sp)
  BY <1>1 DEF HeapSpans
<1>5. SortedBy(sp)'
  BY <1>3, <1>4 DEF SortedBy
<1> QED  BY <1>5 DEF Sorted

\* A state in which an entry looks for a place.
LEMMA PlacingSpans ==
    ASSUME OInv, pc = "place"
    PROVE  /\ current = NIL /\ Linked = used /\ used \subseteq Nodes /\ heap \in Heap
           /\ TreeOf(heap, used, root) /\ node \in used /\ node \in Nodes /\ hand \in Entry /\ hand.id \in ID
           /\ heap[node].ids \in Seq(ID) /\ Ascends(heap[node].ids) /\ Len(heap[node].ids) \in Nat
           /\ \A m \in used : m # node => heap[m].ids # <<>>
           /\ heap[node].ids = <<>> => heap[node].left = NIL /\ heap[node].right = NIL
           /\ \A i \in 1 .. Len(heap[node].ids) : heap[node].ids[i] < hand.id
           /\ Below(Keys(heap)[node], {hand.id})
           /\ \E span : /\ HeapSpans(heap, used, span) /\ hand.id \in span[node]
                        /\ heap[node].left # NIL => Below(span[heap[node].left], {hand.id})
                        /\ \E base : HeapSpans(heap, used, base) /\ Below(base[node], {hand.id})
<1>1. /\ current = NIL /\ Linked = used /\ used \subseteq Nodes /\ heap \in Heap
      /\ TreeOf(heap, used, root) /\ node \in used /\ node \in Nodes /\ hand \in Entry
      /\ \A m \in used : m # node => heap[m].ids # <<>>
      /\ heap[node].ids = <<>> => heap[node].right = NIL
  BY Placing DEF OInv, Whole
<1>2. PICK n, s, y : n = node /\ s = heap[n].ids /\ y = hand.id
  OBVIOUS
<1>3. s \in Seq(ID) /\ Ascends(s) /\ Len(s) \in Nat /\ y \in ID
  <2>1. s \in Seq(ID) /\ Ascends(s) /\ y \in ID
    BY <1>1, <1>2, HeapNode DEF OInv, Rises, Entry
  <2> QED  BY <2>1, LenProperties
<1>4. PICK span : SortedBy(span)
  BY DEF OInv, Sorted
<1>5. HeapSpans(heap, used, span) /\ Placed(span)
  BY <1>1, <1>4, HeldKeys DEF SortedBy, HeapSpans
<1>6. PICK base : HeapSpans(heap, used, base) /\ Below(base[n], {y})
  BY <1>1, <1>2, <1>5, HeldKeys DEF Placed, HeapSpans
<1>7. y \in span[n] /\ (s = <<>> => heap[n].left = NIL)
  BY <1>2, <1>5 DEF Placed
<1>8. Keys(heap)[n] \subseteq base[n]
  BY <1>1, <1>2, <1>6 DEF HeapSpans, Spans
<1>9. Below(Keys(heap)[n], {y})
  BY <1>6, <1>8 DEF Below
<1>10. Keys(heap)[n] = {s[i] : i \in 1 .. Len(s)}
  BY <1>1, <1>2, KeysOf
<1>11. \A i \in 1 .. Len(s) : s[i] < y
  BY <1>9, <1>10 DEF Below
<1>12. ASSUME heap[n].left # NIL PROVE Below(span[heap[n].left], {y})
  <2>1. Lefts(heap)[n] = heap[n].left
    BY <1>1, <1>2, HeapLinks
  <2>2. Below(span[heap[n].left], Keys(heap)[n])
    BY <1>1, <1>2, <1>5, <1>12, <2>1 DEF HeapSpans, Spans
  <2>3. heap[n].left \in Nodes
    BY <1>1, <1>2, <1>12, HeapNode DEF Ptr
  <2>4. span[heap[n].left] \subseteq Nat
    BY <1>5, <2>3, IDAssumption, Zenon DEF HeapSpans, Spans
  <2>5. 1 \in 1 .. Len(s)
    BY <1>3, <1>7, <1>12, NotEmpty
  <2>6. s[1] \in Keys(heap)[n] /\ s[1] < y /\ s[1] \in Nat /\ y \in Nat
    <3>1. s[1] \in ID
      BY <1>3, <2>5, ElementOfSeq
    <3> QED  BY <1>3, <1>10, <1>11, <2>5, <3>1, IDAssumption, Zenon
  <2>7. ASSUME NEW k \in span[heap[n].left] PROVE k < y
    <3>1. k < s[1] /\ k \in Nat
      BY <2>2, <2>4, <2>6, <2>7 DEF Below
    <3> QED  BY <2>6, <3>1
  <2> QED  BY <2>7 DEF Below
<1> QED  BY <1>1, <1>2, <1>3, <1>5, <1>6, <1>7, <1>9, <1>11, <1>12, Zenon

\* A step down of the displaced item keeps the order invariant.
LEMMA PlaceDescendSorted == ASSUME OInv, PlaceDescend PROVE Sorted' /\ Rises'
<1>1. /\ pc = "place" /\ pc' = "place" /\ heap[node].right # NIL /\ node' = heap[node].right
      /\ UNCHANGED <<root, heap, used, current, hand>>
  BY DEF PlaceDescend, memory
<1>a. heap \in Heap /\ node \in Nodes /\ hand.id \in ID /\ hand \in Entry
  BY <1>1, PlacingSpans
<1>b. PICK h \in Heap : h = heap
  BY <1>a
<1>bx. PICK S, r : S = used /\ r = root
  OBVIOUS
<1>c. PICK n \in Nodes, y \in ID : n = node /\ y = hand.id
  BY <1>a
<1>2. h = heap /\ S = used /\ r = root /\ n = node /\ y = hand.id
  BY <1>b, <1>bx, <1>c
<1>3. /\ TreeOf(h, S, r) /\ n \in S /\ S \subseteq Nodes /\ Below(Keys(h)[n], {y}) /\ current = NIL
      /\ \A m \in S : m # n => h[m].ids # <<>>
  BY <1>1, <1>2, PlacingSpans
<1>4. PICK span, base : /\ HeapSpans(h, S, span) /\ y \in span[n]
                        /\ HeapSpans(h, S, base) /\ Below(base[n], {y})
  BY <1>1, <1>2, PlacingSpans, Zenon
<1>5. PICK c \in Nodes : c = h[n].right /\ c \in S /\ c # n
  BY <1>1, <1>2, <1>3, Children
<1>6. PICK C \in SUBSET ID : C = {y}
  BY Zenon
<1>7. C \subseteq span[n] /\ Below(Keys(h)[n], C)
  BY <1>3, <1>4, <1>6
<1>8. PICK sp : HeapSpans(h, S, sp) /\ sp[c] = span[c] \cup C
  <2>1. \E sp : /\ HeapSpans(h, S, sp) /\ sp[c] = span[c] \cup C
                /\ \A m \in Nodes : m # c => sp[m] = span[m]
    BY <1>3, <1>4, <1>5, <1>7, WidenRight
  <2> QED  BY <2>1
<1>9. Below(base[c], {y})
  <2>1. Rights(h)[n] = c /\ c # NIL
    BY <1>5, HeapLinks, NILAssumption
  <2>2. base[c] \subseteq base[n]
    BY <1>3, <1>4, <2>1 DEF HeapSpans, Spans
  <2> QED  BY <1>4, <2>2 DEF Below
<1>10. Sorted'
  <2>1. /\ h = heap' /\ used' = S /\ y = hand'.id /\ c = node' /\ y \in sp[c] /\ current' = NIL
        /\ h[c].ids # <<>>
    BY <1>1, <1>2, <1>3, <1>5, <1>6, <1>8
  <2> QED  BY <1>1, <1>3, <1>4, <1>8, <1>9, <2>1, PlaceNext, Zenon
<1> QED  BY <1>1, <1>10 DEF OInv, Rises

\* Putting the displaced item into the node it reached keeps the order invariant.
LEMMA PlaceSorted == ASSUME OInv, Place PROVE Sorted' /\ Rises'
<1>1. /\ pc = "place" /\ pc' \in {"return", "rebalance"} /\ UNCHANGED <<root, used, current>>
      /\ heap' = NodeInsert(heap, node, Length(heap, node), hand) /\ ~Full(node) /\ heap[node].right = NIL
  BY DEF Place, Goto
<1>a. heap \in Heap /\ node \in Nodes /\ hand.id \in ID /\ hand \in Entry
  BY <1>1, PlacingSpans
<1>b. PICK h \in Heap : h = heap
  BY <1>a
<1>bx. PICK S : S = used
  OBVIOUS
<1>c. PICK n \in Nodes, y \in ID : n = node /\ y = hand.id
  BY <1>a
<1>d. PICK e \in Entry : e = hand
  BY <1>a
<1>2. h = heap /\ S = used /\ n = node /\ y = hand.id /\ e = hand
  BY <1>b, <1>bx, <1>c, <1>d
<1>3. /\ n \in S /\ S \subseteq Nodes /\ current = NIL /\ Ascends(h[n].ids)
      /\ h[n].ids \in Seq(ID) /\ Len(h[n].ids) \in Nat
      /\ \A i \in 1 .. Len(h[n].ids) : h[n].ids[i] < y
      /\ h[n].right = NIL
  BY <1>1, <1>2, PlacingSpans
<1>4. PICK span : /\ HeapSpans(h, S, span) /\ y \in span[n]
                  /\ h[n].left # NIL => Below(span[h[n].left], {y})
  BY <1>1, <1>2, PlacingSpans, Zenon
<1>5. PICK s \in Seq(ID), p \in Nat : s = h[n].ids /\ p = Len(s) /\ p = Length(h, n)
  BY <1>3 DEF Length
<1>6. p \in 0 .. Length(h, n) /\ Length(h, n) < NodeSize
  BY <1>1, <1>2, <1>5, SizeAssumption DEF Full
<1>7. PICK g : g = NodeInsert(h, n, p, e)
  OBVIOUS
<1>8. /\ g \in Heap /\ g[n].ids = InsertAt(h[n].ids, p + 1, e.id)
      /\ g[n].left = h[n].left /\ g[n].right = h[n].right
      /\ \A m \in Nodes : m # n => g[m] = h[m]
  BY <1>6, <1>7, NodeInsertItems
<1>9. g = heap'
  BY <1>1, <1>2, <1>5, <1>7
<1>10. Ascends(g[n].ids) /\ ToSet(g[n].ids) = ToSet(s) \cup {y}
  <2>1. p \in 0 .. Len(s) /\ Ascends(s) /\ \A i \in 1 .. Len(s) : IF i <= p THEN s[i] < y ELSE y < s[i]
    BY <1>3, <1>5
  <2>2. g[n].ids = InsertAt(s, p + 1, y)
    BY <1>2, <1>5, <1>8
  <2> QED  BY <2>1, <2>2, InsertAscends
<1>11. SameLinks(g, h)
  BY <1>8, LinksEqual
<1>12. HeapSpans(g, S, span)
  <2>1. PICK C : C = {y}
    BY Zenon
  <2>2. /\ C \subseteq span[n] /\ Keys(g)[n] \subseteq Keys(h)[n] \cup C
        /\ h[n].left # NIL => Below(span[h[n].left], C)
        /\ h[n].right # NIL => Below(C, span[h[n].right])
    BY <1>3, <1>4, <1>5, <1>10, <2>1 DEF Keys
  <2>3. \A m \in S : m # n => g[m].ids = h[m].ids
    BY <1>3, <1>8
  <2> QED  BY <1>3, <1>4, <1>8, <1>11, <2>2, <2>3, GainKeys, Zenon
<1>13. Sorted'
  <2>1. used' = S /\ used' \subseteq Nodes /\ current' = NIL
    BY <1>1, <1>2, <1>3
  <2> QED  BY <1>1, <1>9, <1>12, <2>1, Resting
<1>14. Rises'
  <2>1. ASSUME NEW m \in S PROVE Ascends(g[m].ids)
    BY <1>2, <1>3, <1>8, <1>10 DEF OInv, Rises
  <2> QED  BY <1>1, <1>2, <1>9, <2>1 DEF Rises
<1> QED  BY <1>13, <1>14

\* Putting the displaced item into a new node below a full one keeps the order invariant.
LEMMA PlaceBelowSorted == ASSUME OInv, PlaceBelow PROVE Sorted' /\ Rises'
<1>1. /\ pc = "place" /\ pc' = "rebalance" /\ UNCHANGED <<root, current>> /\ CanAllocate
      /\ used' = used \cup {Fresh} /\ heap' = UpdateHeight(WithChild(heap, node, "right", hand), node)
  BY DEF PlaceBelow, Goto
<1>a. heap \in Heap /\ node \in Nodes /\ hand.id \in ID /\ hand \in Entry
  BY <1>1, PlacingSpans
<1>b. PICK h \in Heap : h = heap
  BY <1>a
<1>bx. PICK S, r : S = used /\ r = root
  OBVIOUS
<1>c. PICK n \in Nodes, y \in ID : n = node /\ y = hand.id
  BY <1>a
<1>d. PICK e \in Entry : e = hand
  BY <1>a
<1>dx. PICK f : f = Fresh
  OBVIOUS
<1>2. h = heap /\ S = used /\ r = root /\ n = node /\ y = hand.id /\ e = hand /\ f = Fresh
  BY <1>b, <1>bx, <1>c, <1>d, <1>dx
<1>3. /\ n \in S /\ S \subseteq Nodes /\ current = NIL /\ TreeOf(h, S, r) /\ Below(Keys(h)[n], {y})
  BY <1>1, <1>2, PlacingSpans
<1>4. PICK span : HeapSpans(h, S, span) /\ y \in span[n]
  BY <1>1, <1>2, PlacingSpans
<1>5. f \in Nodes \ S /\ n # f
  BY <1>1, <1>2, <1>3, FreshNew
<1>6. h[f].left = NIL /\ h[f].right = NIL
  BY <1>3, <1>5, Outside
<1>7. PICK g : g = WithChild(h, n, "right", e)
  OBVIOUS
<1>8. /\ g \in Heap /\ Rights(g) = [Rights(h) EXCEPT ![n] = f] /\ Lefts(g) = Lefts(h)
      /\ \A m \in Nodes \ {f} : g[m].ids = h[m].ids
  <2>1. e \in Entry \cup {None} /\ n # Fresh /\ h[Fresh].left = NIL /\ h[Fresh].right = NIL
        /\ "right" \in {"left", "right"}
    BY <1>2, <1>5, <1>6
  <2>2. /\ g \in Heap /\ Rights(g) = [Rights(h) EXCEPT ![n] = Fresh] /\ Lefts(g) = Lefts(h)
        /\ \A m \in Nodes \ {Fresh} : g[m].ids = h[m].ids /\ g[m].last_id = h[m].last_id
    BY <1>1, <1>2, <1>3, <1>7, <2>1, WithChildKeeps
  <2> QED  BY <1>2, <2>2
<1>9. g[f].ids = <<y>> /\ Ascends(g[f].ids) /\ Keys(g)[f] = {y}
  <2>1. g[Fresh].ids = <<e.id>>
    BY <1>2, <1>5, <1>6, <1>7, PlantItems
  <2> QED  BY <1>2, <1>5, <2>1, OneAscends DEF Keys
<1>10. PICK F \in SUBSET ID : F = {y}
  BY Zenon
<1>11. \E sp : HeapSpans(g, S \cup {f}, sp)
  <2>1. PICK w \in Heap, b \in Nodes \ S, k \in S : w = g /\ b = f /\ k = n
    BY <1>3, <1>5, <1>8
  <2>2. /\ F \subseteq span[k] /\ Keys(w)[b] \subseteq F /\ \A m \in S : w[m].ids = h[m].ids
        /\ Rights(w) = [Rights(h) EXCEPT ![k] = b] /\ Lefts(w) = Lefts(h) /\ Below(Keys(h)[k], F)
    BY <1>3, <1>4, <1>5, <1>8, <1>9, <1>10, <2>1
  <2>3. \E sp : HeapSpans(w, S \cup {b}, sp)
    <3>1. TreeOf(h, S, r) /\ HeapSpans(h, S, span) /\ F \subseteq span[k] /\ Keys(w)[b] \subseteq F
      BY <1>3, <1>4, <2>2
    <3>2. \A m \in S : w[m].ids = h[m].ids
      BY <2>2
    <3>3. Hangs(w, h, k, b, F)
      BY <2>2 DEF Hangs
    <3>4. Grown(w, S, b, F)
      BY <3>1, <3>2, <3>3, GainsLeaf
    <3> QED  BY <3>4 DEF Grown
  <2> QED  BY <2>1, <2>3
<1>12. PICK u : u = UpdateHeight(g, n)
  OBVIOUS
<1>13. u = heap' /\ SameLinks(u, g) /\ \A m \in Nodes : u[m].ids = g[m].ids
  BY <1>1, <1>2, <1>7, <1>8, <1>12, UpdateHeightKeeps DEF SameItems
<1>14. \E sp : HeapSpans(u, S \cup {f}, sp)
  BY <1>11, <1>13, SameSpans
<1>15. used' = S \cup {f} /\ used' \subseteq Nodes /\ current' = NIL
  BY <1>1, <1>2, <1>3, <1>5
<1>16. Sorted'
  BY <1>1, <1>13, <1>14, <1>15, Resting
<1>17. Rises'
  <2>1. ASSUME NEW m \in S \cup {f} PROVE Ascends(u[m].ids)
    BY <1>2, <1>3, <1>5, <1>8, <1>9, <1>13 DEF OInv, Rises
  <2> QED  BY <1>13, <1>15, <2>1 DEF Rises
<1> QED  BY <1>16, <1>17

\* Inserting into a full node, its least item displaced, keeps the order invariant.
LEMMA DisplaceSorted == ASSUME OInv, Displace PROVE Sorted' /\ Rises'
<1>1. /\ pc = "found" /\ pc' = "place" /\ UNCHANGED <<root, current>> /\ call.op = "insert" /\ ~Exists
      /\ Full(node) /\ pos \notin {0, NodeSize} /\ hand' = EntryAt(heap, node, 0)
      /\ node' = heap'[node].left
      /\ heap[node].left # NIL => heap' = InsertRemovingFirst(heap, node, pos, call.item) /\ used' = used
      /\ heap[node].left = NIL =>
           /\ CanAllocate /\ used' = used \cup {Fresh}
           /\ heap' = WithChild(InsertRemovingFirst(heap, node, pos, call.item), node, "left", None)
  BY DEF Displace, At, Goto
<1>a. /\ call.item \in Entry /\ Key = call.item.id /\ Key \in ID /\ heap \in Heap /\ node \in Nodes
      /\ heap[node].ids \in Seq(ID) /\ pos \in Nat
  BY <1>1, Inserting
<1>b. PICK h \in Heap : h = heap
  BY <1>a
<1>bx. PICK S, r : S = used /\ r = root
  OBVIOUS
<1>c. PICK n \in Nodes, x \in ID, p \in Nat : n = node /\ x = Key /\ p = pos
  BY <1>a
<1>d. PICK e \in Entry : e = call.item
  BY <1>a
<1>dx. PICK f : f = Fresh
  OBVIOUS
<1>e. PICK s \in Seq(ID) : s = h[n].ids
  BY <1>a, <1>b, <1>bx, <1>c
<1>2. /\ x = e.id /\ current = NIL /\ S \subseteq Nodes /\ TreeOf(h, S, r) /\ n \in S /\ Ascends(s)
      /\ Length(h, n) = Len(s) /\ p \in 0 .. Len(s) /\ Len(s) \in Nat
      /\ \A m \in S : h[m].ids # <<>>
  BY <1>1, <1>b, <1>bx, <1>c, <1>d, <1>dx, <1>e, Inserting
<1>3. \A i \in 1 .. Len(s) : IF i <= p THEN s[i] < x ELSE x < s[i]
  BY <1>1, <1>b, <1>bx, <1>c, <1>e, Inserting
<1>4. PICK span : /\ HeapSpans(h, S, span) /\ x \in span[n]
                  /\ h[n].left # NIL => Below(span[h[n].left], {x})
                  /\ h[n].right # NIL => Below({x}, span[h[n].right])
  BY <1>1, <1>b, <1>bx, <1>c, Inserting, Zenon
<1>5. p \in 1 .. Len(s) /\ 1 \in 1 .. Len(s) /\ 1 <= p
  BY <1>1, <1>2, <1>c
<1>6. PICK y \in ID : y = s[1]
  BY <1>5, ElementOfSeq
<1>7. hand'.id = y
  BY <1>1, <1>b, <1>bx, <1>c, <1>e, <1>6 DEF EntryAt
<1>8. PICK w : w = InsertRemovingFirst(h, n, p, e)
  OBVIOUS
<1>9. /\ w \in Heap /\ w[n].ids = ShiftIn(s, p, x)
      /\ w[n].left = h[n].left /\ w[n].right = h[n].right
      /\ \A m \in Nodes : m # n => w[m] = h[m]
  BY <1>2, <1>5, <1>8, <1>e, InsertRemovingFirstItems
<1>10. PICK t : t = ShiftIn(s, p, x)
  OBVIOUS
<1>11. Ascends(t) /\ ToSet(t) \subseteq (ToSet(s) \ {s[1]}) \cup {x}
  BY <1>2, <1>3, <1>5, <1>10, ShiftInAscends, Zenon
<1>12. SameLinks(w, h)
  BY <1>9, LinksEqual
<1>13. Keys(w)[n] \subseteq (Keys(h)[n] \ {y}) \cup {x} /\ y \in Keys(h)[n]
  <2>1. Keys(h)[n] = {s[i] : i \in 1 .. Len(s)} /\ Keys(h)[n] = ToSet(s) /\ Keys(w)[n] = ToSet(t)
    <3>1. Keys(h)[n] = {s[i] : i \in 1 .. Len(s)}
      BY <1>e, KeysOf
    <3> QED  BY <1>9, <1>10, <1>e, <3>1 DEF Keys
  <2> QED  BY <1>5, <1>6, <1>11, <2>1
<1>14. HeapSpans(w, S, span)
  <2>1. PICK C : C = {x}
    BY Zenon
  <2>2. /\ C \subseteq span[n] /\ Keys(w)[n] \subseteq Keys(h)[n] \cup C
        /\ h[n].left # NIL => Below(span[h[n].left], C)
        /\ h[n].right # NIL => Below(C, span[h[n].right])
    BY <1>4, <1>13, <2>1
  <2>3. \A m \in S : m # n => w[m].ids = h[m].ids
    BY <1>2, <1>9
  <2> QED  BY <1>2, <1>4, <1>9, <1>12, <2>2, <2>3, GainKeys, Zenon
<1>15. Below({y}, Keys(w)[n])
  <2>1. y < x
    BY <1>3, <1>5, <1>6
  <2>2. \A k \in Keys(h)[n] : k # y => y < k
    <3>1. \A i \in 1 .. Len(s) : s[i] # y => y < s[i]
      BY <1>2, <1>5, <1>6 DEF Ascends
    <3>2. Keys(h)[n] = {s[i] : i \in 1 .. Len(s)}
      BY <1>e, KeysOf
    <3> QED  BY <3>1, <3>2
  <2> QED  BY <1>13, <2>1, <2>2 DEF Below
<1>16. y \in span[n]
  BY <1>2, <1>4, <1>13 DEF HeapSpans, Spans
<1>17. TreeOf(w, S, r)
  BY <1>2, <1>12, LinksSame
<1>18. \A m \in S : Ascends(w[m].ids)
  <2> TAKE m \in S
  <2>1. CASE m = n
    BY <1>9, <1>10, <1>11, <2>1
  <2>2. CASE m # n
    <3>1. Ascends(h[m].ids)
      BY <1>b, <1>bx DEF OInv, Rises
    <3>2. w[m] = h[m]
      BY <1>2, <1>9, <2>2
    <3> QED  BY <3>1, <3>2
  <2> QED  BY <2>1, <2>2
<1>19. PICK C \in SUBSET ID : C = {y}
  BY Zenon
<1>20. C \subseteq span[n] /\ Below(C, Keys(w)[n])
  BY <1>15, <1>16, <1>19
<1>21. CASE h[n].left # NIL
  <2>1. heap' = w /\ used' = S /\ node' = w[n].left
    BY <1>1, <1>8, <1>21, <1>b, <1>bx, <1>c, <1>d, <1>dx
  <2>2. PICK c \in Nodes : c = h[n].left /\ c \in S /\ c # n
    BY <1>2, <1>21, Children
  <2>3. w[n].left = c
    BY <1>9, <2>2
  <2>4. PICK sp : HeapSpans(w, S, sp) /\ sp[c] = span[c] \cup C
    <3>1. \E sp : HeapSpans(w, S, sp) /\ sp[c] = span[c] \cup C
      <4>1. PICK u \in Heap, k \in S : u = w /\ k = n
        BY <1>2, <1>9
      <4>2. TreeOf(u, S, r) /\ HeapSpans(u, S, span) /\ u[k].left = c /\ C \subseteq span[k] /\ Below(C, Keys(u)[k])
        BY <1>14, <1>17, <1>20, <2>3, <4>1
      <4>3. Widened(u, S, span, c, C)
        BY <4>2, WidenLeftTo, Zenon
      <4> QED  BY <4>1, <4>3 DEF Widened
    <3> QED  BY <3>1
  <2>5. Below(span[c], {y})
    <3>1. Lefts(h)[n] = c /\ c # NIL
      BY <2>2, HeapLinks, NILAssumption
    <3>2. Below(span[c], Keys(h)[n])
      BY <1>2, <1>4, <3>1 DEF HeapSpans, Spans
    <3> QED  BY <1>13, <3>2 DEF Below
  <2>6. w[c].ids # <<>>
    BY <1>2, <1>9, <2>2
  <2>7. Sorted'
    <3>1. /\ w = heap' /\ used' = S /\ y = hand'.id /\ c = node' /\ y \in sp[c] /\ current' = NIL
      BY <1>1, <1>2, <1>7, <1>19, <2>1, <2>3, <2>4
    <3> QED  BY <1>1, <1>2, <1>14, <2>4, <2>5, <2>6, <3>1, PlaceNext, Zenon
  <2>8. Rises'
    BY <1>18, <2>1 DEF Rises
  <2> QED  BY <2>7, <2>8
<1>22. CASE h[n].left = NIL
  <2>1. CanAllocate /\ used' = S \cup {f} /\ heap' = WithChild(w, n, "left", None)
    BY <1>1, <1>8, <1>22, <1>b, <1>bx, <1>c, <1>d, <1>dx
  <2>2. f \in Nodes \ S /\ n # f
    BY <1>2, <1>b, <1>bx, <1>d, <1>dx, <2>1, FreshNew
  <2>3. h[f].left = NIL /\ h[f].right = NIL
    BY <1>2, <2>2, Outside
  <2>4. PICK g : g = WithChild(w, n, "left", None)
    OBVIOUS
  <2>5. /\ g \in Heap /\ Lefts(g) = [Lefts(w) EXCEPT ![n] = f] /\ Rights(g) = Rights(w)
        /\ \A m \in Nodes \ {f} : g[m].ids = w[m].ids
        /\ g[f].ids = <<>>
    <3>1. None \in Entry \cup {None} /\ n # Fresh /\ w[Fresh].left = NIL /\ w[Fresh].right = NIL
          /\ "left" \in {"left", "right"} /\ used \subseteq Nodes
      BY <1>2, <1>9, <1>b, <1>bx, <1>d, <1>dx, <2>2, <2>3
    <3>2. /\ g \in Heap /\ Lefts(g) = [Lefts(w) EXCEPT ![n] = Fresh] /\ Rights(g) = Rights(w)
          /\ \A m \in Nodes \ {Fresh} : g[m].ids = w[m].ids /\ g[m].last_id = w[m].last_id
          /\ g[Fresh].ids = <<>>
      BY <1>9, <2>1, <2>4, <3>1, WithChildKeeps
    <3> QED  BY <1>d, <1>dx, <3>2
  <2>6. Ascends(<<>>) /\ Keys(g)[f] = {}
    <3>1. ToSet(<<>>) = {} /\ Ascends(<<>>)
      BY <1>a, OneAscends, Zenon
    <3> QED  BY <2>2, <2>5, <3>1 DEF Keys
  <2>7. ASSUME NEW F \in SUBSET ID, F \subseteq span[n], Below(F, Keys(w)[n])
        PROVE  \E sp : HeapSpans(g, S \cup {f}, sp) /\ sp[f] = F
    <3>1. PICK u \in Heap, v \in Heap : u = g /\ v = w
      BY <1>9, <2>5
    <3>2. PICK b \in Nodes \ S, k \in S : b = f /\ k = n
      BY <1>2, <2>2
    <3>3. /\ F \subseteq span[k] /\ Keys(u)[b] \subseteq F /\ \A m \in S : u[m].ids = v[m].ids
          /\ Lefts(u) = [Lefts(v) EXCEPT ![k] = b] /\ Rights(u) = Rights(v) /\ Below(F, Keys(v)[k])
      BY <1>2, <2>2, <2>5, <2>6, <2>7, <3>1, <3>2
    <3>4. TreeOf(v, S, r) /\ HeapSpans(v, S, span)
      BY <1>14, <1>17, <3>1
    <3>5. Hangs(u, v, k, b, F)
      BY <3>3 DEF Hangs
    <3>6. F \subseteq span[k] /\ Keys(u)[b] \subseteq F /\ \A m \in S : u[m].ids = v[m].ids
      BY <3>3
    <3>7. Grown(u, S, b, F)
      BY <3>4, <3>5, <3>6, GainsLeaf
    <3> QED  BY <3>1, <3>2, <3>7 DEF Grown
  <2>8. PICK sp : HeapSpans(g, S \cup {f}, sp) /\ sp[f] = C
    BY <1>20, <2>7, Zenon
  <2>9. PICK base : HeapSpans(g, S \cup {f}, base) /\ base[f] = {}
    <3>1. {} \in SUBSET ID /\ {} \subseteq span[n] /\ Below({}, Keys(w)[n])
      BY DEF Below
    <3> QED  BY <2>7, <3>1, Zenon
  <2>10. node' = f /\ g[f].left = NIL
    <3>1. \A m \in Nodes : Lefts(g)[m] = g[m].left
      BY <2>5, HeapLinks, Zenon
    <3>2. Lefts(w) \in Links /\ Lefts(w)[f] = w[f].left
      BY <1>9, <2>2, HeapLinks
    <3>3. Lefts(g)[n] = f /\ Lefts(g)[f] = NIL
      BY <1>9, <2>2, <2>3, <2>5, <3>2 DEF Links
    <3> QED  BY <1>1, <1>c, <2>1, <2>2, <2>4, <3>1, <3>3
  <2>11. Sorted'
    <3>1. /\ g = heap' /\ used' = S \cup {f} /\ used' \subseteq Nodes /\ y = hand'.id /\ f = node' /\ y \in sp[f]
          /\ current' = NIL
      BY <1>1, <1>2, <1>7, <1>19, <2>1, <2>2, <2>4, <2>8, <2>10
    <3>2. Below(base[f], {y})
      BY <2>9 DEF Below
    <3> QED  BY <1>1, <2>8, <2>9, <2>10, <3>1, <3>2, PlaceNext, Zenon
  <2>12. Rises'
    <3>1. ASSUME NEW m \in S \cup {f} PROVE Ascends(g[m].ids)
      BY <1>2, <1>18, <2>2, <2>5, <2>6
    <3> QED  BY <2>1, <2>4, <3>1 DEF Rises
  <2> QED  BY <2>11, <2>12
<1> QED  BY <1>21, <1>22

\* Every step of an insertion keeps the order invariant.
LEMMA InsertSorted == ASSUME OInv, Asserted, InsertSteps PROVE Sorted' /\ Rises'
<1>1. CASE InsertExisting
  BY <1>1, Still DEF InsertExisting, At, Goto, Settle, locals
<1> QED
  BY <1>1, InsertRootSorted, InsertHereSorted, InsertChildSorted, DisplaceSorted, PlaceDescendSorted,
     PlaceSorted, PlaceBelowSorted DEF InsertSteps

-----------------------------------------------------------------------------
(* TTree_remove keeps the order.                                            *)

\* What a state about to remove an entry that exists is like.
LEMMA Removing ==
    ASSUME OInv, pc = "found", call.op = "remove", Exists
    PROVE  /\ Key = call.id /\ Key \in ID /\ current = NIL
           /\ heap \in Heap /\ TreeOf(heap, used, root) /\ used \subseteq Nodes
           /\ node \in used /\ node \in Nodes /\ heap[node].ids \in Seq(ID) /\ Ascends(heap[node].ids)
           /\ Length(heap, node) = Len(heap[node].ids) /\ Len(heap[node].ids) \in Nat
           /\ pos \in Nat /\ pos < Length(heap, node) /\ pos + 1 \in 1 .. Len(heap[node].ids)
           /\ heap[node].ids[pos + 1] = Key
           /\ \E span : HeapSpans(heap, used, span)
<1>1. Searching
  BY DEF Searching
<1>2. /\ current = NIL /\ Linked = used /\ used \subseteq Nodes /\ heap \in Heap
      /\ TreeOf(heap, used, root) /\ Held = Keys(heap) /\ Key \in ID
  BY <1>1, Searches
<1>3. node \in used
  BY <1>2 DEF OInv, SInv, Structure, Cursors
<1>4. /\ node \in Nodes /\ heap[node].ids \in Seq(ID) /\ Len(heap[node].ids) \in Nat /\ Ascends(heap[node].ids)
  BY <1>1, <1>3, Searches
<1>5. PICK span : SortedBy(span)
  BY DEF OInv, Sorted
<1>6. HeapSpans(heap, used, span)
  BY <1>2, <1>5 DEF SortedBy, HeapSpans
<1>7. pos \in Nat /\ pos < Length(heap, node) /\ heap[node].ids[pos + 1] = Key /\ Length(heap, node) = Len(heap[node].ids)
  BY DEF OInv, SInv, IInv, TypeOK, Exists, Length
<1>8. Key = call.id
  BY DEF Key
<1> QED  BY <1>2, <1>3, <1>4, <1>6, <1>7, <1>8

\* Removing it takes its ID from the node's, and nothing else.
LEMMA RemovedItems ==
    ASSUME OInv, pc = "found", call.op = "remove", Exists, NEW g, g = NodeRemove(heap, node, pos)
    PROVE  /\ g \in Heap /\ SameLinks(g, heap)
           /\ \A m \in Nodes : m # node => g[m] = heap[m]
           /\ Ascends(g[node].ids) /\ ToSet(g[node].ids) = ToSet(heap[node].ids) \ {call.id}
           /\ call.id \in ToSet(heap[node].ids)
<1>1. /\ Key = call.id /\ Key \in ID /\ heap \in Heap /\ node \in Nodes
      /\ heap[node].ids \in Seq(ID) /\ Ascends(heap[node].ids)
      /\ pos \in Nat /\ pos < Length(heap, node) /\ pos + 1 \in 1 .. Len(heap[node].ids)
      /\ heap[node].ids[pos + 1] = Key
  BY Removing
<1>2. PICK h \in Heap, n \in Nodes, p \in Nat : h = heap /\ n = node /\ p = pos
  BY <1>1
<1>3. PICK s \in Seq(ID) : s = h[n].ids
  BY <1>1, <1>2
<1>4. PICK i \in 1 .. Len(s) : i = p + 1
  BY <1>1, <1>2, <1>3
<1>5. p < Length(h, n) /\ g = NodeRemove(h, n, p)
  BY <1>1, <1>2
<1>6. /\ g \in Heap /\ g[n].ids = RemoveAt(s, p + 1)
      /\ g[n].left = h[n].left /\ g[n].right = h[n].right
      /\ \A m \in Nodes : m # n => g[m] = h[m]
  BY <1>3, <1>5, NodeRemoveItems
<1>7. Ascends(s) /\ g[n].ids = RemoveAt(s, i) /\ s[i] = call.id
  BY <1>1, <1>2, <1>3, <1>4, <1>6
<1>8. Ascends(g[n].ids) /\ ToSet(g[n].ids) = ToSet(s) \ {s[i]}
  BY <1>7, RemoveAscends
<1>9. s[i] \in ToSet(s)
  BY ToSetElements
<1>10. SameLinks(g, h)
  BY <1>6, LinksEqual
<1> QED  BY <1>2, <1>3, <1>6, <1>7, <1>8, <1>9, <1>10

\* Taking the found item out of its node keeps the keys divided.
LEMMA RemovedSpans ==
    ASSUME OInv, pc = "found", call.op = "remove", Exists, NEW g, g = NodeRemove(heap, node, pos)
    PROVE  /\ \E span : HeapSpans(heap, used, span) /\ HeapSpans(g, used, span)
           /\ \A m \in used : Ascends(g[m].ids)
<1>1. /\ heap \in Heap /\ used \subseteq Nodes /\ node \in used /\ node \in Nodes
  BY Removing
<1>2. PICK span : HeapSpans(heap, used, span)
  BY Removing
<1>3. /\ g \in Heap /\ SameLinks(g, heap)
      /\ \A m \in Nodes : m # node => g[m] = heap[m]
      /\ Ascends(g[node].ids) /\ ToSet(g[node].ids) = ToSet(heap[node].ids) \ {call.id}
  BY RemovedItems
<1>4. \A m \in used : Keys(g)[m] \subseteq Keys(heap)[m]
  BY <1>1, <1>3 DEF Keys
<1>5. HeapSpans(g, used, span)
  BY <1>1, <1>2, <1>3, <1>4, LoseKeys
<1>6. \A m \in used : Ascends(g[m].ids)
  BY <1>1, <1>3 DEF OInv, Rises
<1> QED  BY <1>2, <1>5, <1>6

\* Removing from a leaf or a half-leaf keeps the order invariant.
LEMMA RemoveFromOtherSorted == ASSUME OInv, RemoveFromOther PROVE Sorted' /\ Rises'
<1>1. /\ pc = "found" /\ pc' = "fix" /\ call.op = "remove" /\ Exists /\ UNCHANGED <<used, current>>
      /\ heap' = NodeRemove(heap, node, pos)
  BY DEF RemoveFromOther, At, Goto
<1>2. PICK g : g = NodeRemove(heap, node, pos)
  OBVIOUS
<1>3. (\E span : HeapSpans(g, used, span)) /\ \A m \in used : Ascends(g[m].ids)
  BY <1>1, <1>2, RemovedSpans
<1>4. current = NIL /\ used \subseteq Nodes
  BY <1>1, Removing
<1>5. Sorted'
  BY <1>1, <1>2, <1>3, <1>4, Resting
<1> QED  BY <1>1, <1>2, <1>3, <1>5 DEF Rises

\* What a step of the search for the item to steal has to establish.
LEMMA StealNext ==
    ASSUME pc' = "steal", current' = NIL, used' \subseteq Nodes, NEW sp, NEW K, K = Held',
           Spans(Lefts(heap'), Rights(heap'), K, used', sp), call'.id \in ID,
           NEW Q, NEW n, n = node', Spine(Rights(heap'), K, used', sp, Q, n),
           heap'[target'].left \in Q, target' \notin Q, sp[n] \subseteq sp[heap'[target'].left]
    PROVE  Sorted'
<1>1. Linked' = used'
  BY NILAssumption DEF Linked
<1>2. Stolen(sp)'
  BY <1>1 DEF Stolen
<1>3. SortedBy(sp)'
  BY <1>1, <1>2 DEF SortedBy
<1> QED  BY <1>3 DEF Sorted

\* Removing from an internal node keeps the order invariant.
LEMMA RemoveFromInternalSorted == ASSUME OInv, RemoveFromInternal PROVE Sorted' /\ Rises'
<1>1. /\ pc = "found" /\ call.op = "remove" /\ Exists /\ UNCHANGED <<used, current, call>>
      /\ heap' = NodeRemove(heap, node, pos) /\ Internal(heap, node)
      /\ pc' \in {"return", "steal"}
      /\ pc' = "steal" => target' = node /\ node' = heap[node].left
  BY Kinds DEF RemoveFromInternal, At, Goto
<1>2. PICK g : g = NodeRemove(heap, node, pos)
  OBVIOUS
<1>3. PICK span : HeapSpans(heap, used, span) /\ HeapSpans(g, used, span)
  BY <1>1, <1>2, RemovedSpans
<1>4. \A m \in used : Ascends(g[m].ids)
  BY <1>1, <1>2, RemovedSpans
<1>5. current = NIL /\ used \subseteq Nodes /\ node \in used /\ node \in Nodes /\ heap \in Heap /\ TreeOf(heap, used, root)
      /\ Key = call.id /\ Key \in ID
  BY <1>1, Removing
<1>6. Rises'
  BY <1>1, <1>2, <1>4 DEF Rises
<1>7. CASE pc' = "return"
  <2>1. Sorted'
    BY <1>1, <1>2, <1>3, <1>5, <1>7, Resting
  <2> QED  BY <1>6, <2>1
<1>8. CASE pc' = "steal"
  <2>1. /\ g \in Heap /\ SameLinks(g, heap)
        /\ \A m \in Nodes : m # node => g[m] = heap[m]
        /\ ToSet(g[node].ids) = ToSet(heap[node].ids) \ {call.id}
        /\ call.id \in ToSet(heap[node].ids)
    BY <1>1, <1>2, RemovedItems
  <2>2. Held' = Keys(heap)
    <3>1. \A m \in Nodes : Held'[m] = Keys(heap)[m]
      <4> TAKE m \in Nodes
      <4>1. heap' = g /\ target' = node /\ call' = call
        BY <1>1, <1>2, <1>8
      <4>2. Held'[m] = IF m = node THEN Keys(g)[m] \cup {call.id} ELSE Keys(g)[m]
        BY <1>8, <4>1 DEF Held, Keys
      <4>3. Keys(g)[m] = ToSet(g[m].ids) /\ Keys(heap)[m] = ToSet(heap[m].ids)
        BY DEF Keys
      <4> QED  BY <2>1, <4>2, <4>3
    <3>2. Held' = [m \in Nodes |-> Held'[m]] /\ Keys(heap) = [m \in Nodes |-> Keys(heap)[m]]
      BY DEF Held, Keys
    <3> QED  BY <3>1, <3>2
  <2>3. PICK c \in Nodes : c = heap[node].left /\ c \in used /\ c # node
    BY <1>1, <1>5, Children DEF Internal
  <2>4. PICK K : K = Held'
    OBVIOUS
  <2>5. PICK L, R : L = Lefts(heap') /\ R = Rights(heap')
    OBVIOUS
  <2>6. L = Lefts(heap) /\ R = Rights(heap)
    BY <1>1, <1>2, <2>1, <2>5 DEF SameLinks
  <2>7. Spans(L, R, K, used, span)
    BY <1>3, <2>2, <2>4, <2>6 DEF HeapSpans
  <2>8. PICK Q : Q = {c}
    BY Zenon
  <2>9. Spine(R, K, used, span, Q, c)
    BY <2>3, <2>8 DEF Spine
  <2>10. /\ c = node' /\ heap'[target'].left = c /\ target' \notin Q /\ c \in Q /\ call'.id \in ID
    <3>1. g[node].left = heap[node].left
      BY <1>5, <2>1, LinksSame
    <3> QED  BY <1>1, <1>2, <1>5, <1>8, <2>3, <2>8, <3>1
  <2>11. Sorted'
    <3>1. current' = NIL /\ used' \subseteq Nodes /\ used' = used
      BY <1>1, <1>5
    <3>2. Spans(Lefts(heap'), Rights(heap'), K, used', span) /\ Spine(Rights(heap'), K, used', span, Q, c)
      BY <2>5, <2>7, <2>9, <3>1
    <3>3. heap'[target'].left \in Q /\ span[c] \subseteq span[heap'[target'].left]
      BY <2>10
    <3> QED  BY <1>8, <2>4, <2>10, <3>1, <3>2, <3>3, StealNext
  <2> QED  BY <1>6, <2>11
<1> QED  BY <1>1, <1>7, <1>8

\* A state in which an internal node waits for an entry.
LEMMA StealingSpans ==
    ASSUME OInv, pc = "steal"
    PROVE  /\ current = NIL /\ Linked = used /\ used \subseteq Nodes /\ heap \in Heap
           /\ TreeOf(heap, used, root) /\ node \in used /\ node \in Nodes
           /\ target \in used /\ target \in Nodes /\ heap[target].left \in Nodes
           /\ call.id \in ID
           /\ \A m \in used : m # target => heap[m].ids # <<>>
           /\ Held \in [Nodes -> SUBSET ID]
           /\ \A m \in Nodes : Held[m] = Keys(heap)[m] \cup (IF m = target THEN {call.id} ELSE {})
           /\ \E span : /\ Spans(Lefts(heap), Rights(heap), Held, used, span)
                        /\ \E Q : /\ Spine(Rights(heap), Held, used, span, Q, node)
                                  /\ heap[target].left \in Q /\ target \notin Q
                                  /\ span[node] \subseteq span[heap[target].left]
<1>1. /\ current = NIL /\ used \subseteq Nodes /\ heap \in Heap
      /\ TreeOf(heap, used, root) /\ node \in used /\ node \in Nodes /\ target \in used /\ target \in Nodes
      /\ Internal(heap, target) /\ \A n \in used : n # target => heap[n].ids # <<>>
  BY Stealing DEF OInv, Whole
<1>2. Linked = used
  BY <1>1, LinkedAll
<1>3. PICK span : SortedBy(span)
  BY DEF OInv, Sorted
<1>4. Stolen(span) /\ Spans(Lefts(heap), Rights(heap), Held, used, span)
  BY <1>2, <1>3 DEF SortedBy
<1>5. call.id \in ID
  BY <1>4 DEF Stolen
<1>6. heap[target].left \in Nodes
  BY <1>1, HeapNode DEF Internal, Ptr
<1>7. \A m \in Nodes : Held[m] = Keys(heap)[m] \cup (IF m = target THEN {call.id} ELSE {})
  BY DEF Held
<1>8. \A m \in Nodes : Held[m] \in SUBSET ID
  BY <1>1, <1>5, <1>7, KeysOf
<1>9. Held \in [Nodes -> SUBSET ID]
  <2>1. Held = [m \in Nodes |-> Held[m]]
    BY DEF Held
  <2> QED  BY <1>8, <2>1
<1>10. PICK Q : /\ Spine(Rights(heap), Held, used, span, Q, node)
                /\ heap[target].left \in Q /\ target \notin Q
                /\ span[node] \subseteq span[heap[target].left]
  BY <1>2, <1>4 DEF Stolen
<1> QED  BY <1>1, <1>2, <1>4, <1>5, <1>6, <1>7, <1>9, <1>10

\* A step of the search for the item to steal keeps the order invariant.
LEMMA StealDescendSorted == ASSUME OInv, StealDescend PROVE Sorted' /\ Rises'
<1>1. /\ pc = "steal" /\ pc' = "steal" /\ heap[node].right # NIL /\ node' = heap[node].right
      /\ UNCHANGED <<root, heap, used, call, current, target>>
  BY DEF StealDescend, memory
<1>a. heap \in Heap /\ node \in Nodes /\ target \in Nodes /\ heap[target].left \in Nodes /\ call.id \in ID
  BY <1>1, StealingSpans
<1>b. PICK h \in Heap : h = heap
  BY <1>a
<1>bx. PICK S, K : S = used /\ K = Held
  OBVIOUS
<1>c. PICK n \in Nodes, t \in Nodes : n = node /\ t = target
  BY <1>a
<1>d. PICK j \in Nodes, x \in ID : j = h[t].left /\ x = call.id
  BY <1>a, <1>b, <1>bx, <1>c
<1>e. PICK L \in Links, R \in Links : L = Lefts(h) /\ R = Rights(h) /\ \A m \in Nodes : L[m] = h[m].left /\ R[m] = h[m].right
  BY HeapLinks
<1>2. /\ S \subseteq Nodes /\ n \in S /\ t \in S /\ current = NIL /\ x \in K[t] /\ TreeOf(h, S, root)
  BY <1>1, <1>b, <1>bx, <1>c, <1>d, StealingSpans
<1>3. PICK span, Q : /\ Spans(L, R, K, S, span) /\ Spine(R, K, S, span, Q, n)
                     /\ j \in Q /\ t \notin Q /\ span[n] \subseteq span[j]
  BY <1>1, <1>b, <1>bx, <1>c, <1>d, <1>e, StealingSpans
<1>4. PICK c \in Nodes : c = h[n].right /\ c \in S /\ c # NIL
  BY <1>1, <1>2, <1>b, <1>bx, <1>c, Children, NILAssumption
<1>5. R[n] = c /\ L[t] = j /\ j # NIL
  BY <1>4, <1>d, <1>e, NILAssumption
<1>6. Spine(R, K, S, span, Q \cup {c}, c)
  BY <1>3, <1>4, <1>5, SpineDown
<1>7. span[c] \subseteq span[n]
  BY <1>2, <1>3, <1>4, <1>5 DEF Spans
<1>8. t # c
  <2> SUFFICES ASSUME t = c PROVE FALSE
    OBVIOUS
  <2>1. x \in span[t] /\ Below(span[j], K[t])
    BY <1>2, <1>3, <1>5 DEF Spans
  <2>2. x \in span[j]
    BY <1>3, <1>7, <2>1
  <2>3. x < x
    BY <1>2, <2>1, <2>2 DEF Below
  <2> QED  BY <2>3, IDAssumption
<1>9. Sorted'
  <2>1. Held' = Held
    BY <1>1 DEF Held, Keys
  <2>2. PICK P : P = Q \cup {c}
    BY Zenon
  <2>3. /\ K = Held' /\ Spans(Lefts(heap'), Rights(heap'), K, used', span) /\ call'.id \in ID
        /\ c = node' /\ Spine(Rights(heap'), K, used', span, P, c)
        /\ heap'[target'].left \in P /\ target' \notin P /\ span[c] \subseteq span[heap'[target'].left]
    BY <1>1, <1>3, <1>4, <1>6, <1>7, <1>8, <1>a, <1>b, <1>bx, <1>c, <1>d, <1>e, <2>1, <2>2
  <2>4. current' = NIL /\ used' \subseteq Nodes
    BY <1>1, <1>2, <1>b, <1>bx
  <2> QED  BY <1>1, <2>3, <2>4, StealNext
<1> QED  BY <1>1, <1>9 DEF OInv, Rises

\* Stealing the greatest item left of the target keeps the order invariant.
LEMMA StealSorted == ASSUME OInv, Asserted, Steal PROVE Sorted' /\ Rises'
<1>1. /\ pc = "steal" /\ pc' = "fix" /\ heap[node].right = NIL /\ UNCHANGED <<root, used, current>>
      /\ heap' = NodeInsert(NodeRemove(heap, node, Length(heap, node) - 1), target, 0,
                            EntryAt(heap, node, Length(heap, node) - 1))
  BY DEF Steal, Goto
<1>0. Length(heap, node) > 0 /\ Length(heap, target) < NodeSize
  BY <1>1 DEF Asserted, RemoveAsserts
<1>a. heap \in Heap /\ node \in Nodes /\ target \in Nodes /\ heap[target].left \in Nodes /\ call.id \in ID
  BY <1>1, StealingSpans
<1>b. PICK h \in Heap : h = heap
  BY <1>a
<1>bx. PICK S, K : S = used /\ K = Held
  OBVIOUS
<1>c. PICK n \in Nodes, t \in Nodes : n = node /\ t = target
  BY <1>a
<1>d. PICK j \in Nodes : j = h[t].left
  BY <1>a, <1>b, <1>bx, <1>c
<1>e. PICK L \in Links, R \in Links : L = Lefts(h) /\ R = Rights(h) /\ \A m \in Nodes : L[m] = h[m].left /\ R[m] = h[m].right
  BY HeapLinks
<1>2. /\ S \subseteq Nodes /\ n \in S /\ t \in S /\ current = NIL
      /\ \A m \in S : m # t => h[m].ids # <<>>
      /\ K[t] # {} /\ \A m \in Nodes : Keys(h)[m] \subseteq K[m]
      /\ \A m \in Nodes : m # t => K[m] = Keys(h)[m]
  BY <1>1, <1>b, <1>bx, <1>c, StealingSpans
<1>3. PICK span, Q : /\ Spans(L, R, K, S, span) /\ Spine(R, K, S, span, Q, n)
                     /\ j \in Q /\ t \notin Q /\ span[n] \subseteq span[j]
  BY <1>1, <1>b, <1>bx, <1>c, <1>d, <1>e, StealingSpans
<1>4. n # t /\ L[t] = j /\ j # NIL /\ R[n] = NIL /\ Q \subseteq S
  BY <1>1, <1>3, <1>b, <1>bx, <1>c, <1>d, <1>e, NILAssumption DEF Spine
<1>5. PICK s \in Seq(ID) : s = h[n].ids /\ Len(s) \in Nat /\ Len(s) > 0 /\ Ascends(s)
  <2>1. h[n].ids \in Seq(ID) /\ Ascends(h[n].ids)
    BY <1>2, <1>b, <1>bx, HeapNode DEF OInv, Rises
  <2>2. Len(h[n].ids) \in Nat
    BY <2>1, LenProperties
  <2> QED  BY <1>0, <1>b, <1>bx, <1>c, <2>1, <2>2 DEF Length
<1>60. Length(h, n) = Len(s) /\ Len(s) \in 1 .. Len(s) /\ Len(s) - 1 \in Nat
  BY <1>5 DEF Length
<1>61. PICK i \in 1 .. Len(s) : i = Len(s)
  BY <1>60
<1>62. PICK last \in Nat : last = Len(s) - 1
  BY <1>60, Zenon
<1>6. i = Len(s) /\ last + 1 = i /\ last = Length(h, n) - 1 /\ last < Length(h, n)
  BY <1>5, <1>60, <1>61, <1>62
<1>7. PICK x \in ID : x = s[i]
  BY ElementOfSeq
<1>8. PICK e : e = EntryAt(h, n, last)
  OBVIOUS
<1>9. e \in Entry /\ e.id = x
  <2>1. h[n].data \in Seq(Record) /\ Len(h[n].data) = Length(h, n)
    BY HeapNode
  <2>2. h[n].data[i] \in Record
    <3>1. i \in 1 .. Len(h[n].data)
      BY <1>5, <2>1 DEF Length
    <3> QED  BY <2>1, <3>1, ElementOfSeq
  <2>3. e = [id |-> s[i], rec |-> h[n].data[i]]
    BY <1>5, <1>6, <1>8 DEF EntryAt
  <2> QED  BY <1>7, <2>2, <2>3 DEF Entry
<1>10. PICK g : g = NodeRemove(h, n, last)
  OBVIOUS
<1>11. /\ g \in Heap /\ g[n].ids = RemoveAt(s, i)
       /\ g[n].left = h[n].left /\ g[n].right = h[n].right
       /\ \A m \in Nodes : m # n => g[m] = h[m]
  <2>1. g[n].ids = RemoveAt(h[n].ids, last + 1)
    BY <1>6, <1>10, NodeRemoveItems
  <2>2. /\ g \in Heap /\ g[n].left = h[n].left /\ g[n].right = h[n].right
        /\ \A m \in Nodes : m # n => g[m] = h[m]
    BY <1>6, <1>10, NodeRemoveItems
  <2> QED  BY <1>5, <1>6, <2>1, <2>2
<1>12. Ascends(g[n].ids) /\ ToSet(g[n].ids) = ToSet(s) \ {x}
  BY <1>5, <1>7, <1>11, RemoveAscends
<1>13. PICK z \in Seq(ID) : z = h[t].ids /\ z = g[t].ids /\ Ascends(z) /\ Len(z) = Length(g, t) /\ Len(z) \in Nat /\ Len(z) < NodeSize
  <2>1. h[t].ids \in Seq(ID) /\ Ascends(h[t].ids) /\ g[t].ids = h[t].ids
    BY <1>2, <1>4, <1>11, <1>b, <1>bx, HeapNode DEF OInv, Rises
  <2>2. Len(h[t].ids) \in Nat
    BY <2>1, LenProperties
  <2> QED  BY <1>0, <1>b, <1>bx, <1>c, <2>1, <2>2 DEF Length
<1>14. PICK u : u = NodeInsert(g, t, 0, e)
  OBVIOUS
<1>15. u = heap'
  BY <1>1, <1>6, <1>8, <1>10, <1>14, <1>b, <1>bx, <1>c
<1>16. /\ u \in Heap /\ u[t].ids = InsertAt(z, 0 + 1, x)
       /\ u[t].left = g[t].left /\ u[t].right = g[t].right
       /\ \A m \in Nodes : m # t => u[m] = g[m]
  <2>1. 0 \in 0 .. Length(g, t) /\ Length(g, t) < NodeSize
    BY <1>13
  <2> QED  BY <1>9, <1>11, <1>13, <1>14, <2>1, NodeInsertItems
<1>17. /\ Keys(h)[n] = {s[k] : k \in 1 .. Len(s)} /\ Keys(h)[t] = {z[k] : k \in 1 .. Len(z)}
       /\ Keys(h)[n] = ToSet(s) /\ Keys(h)[t] = ToSet(z)
  <2>3. Keys(h)[n] = {h[n].ids[k] : k \in 1 .. Len(h[n].ids)}
    BY KeysOf
  <2>4. Keys(h)[t] = {h[t].ids[k] : k \in 1 .. Len(h[t].ids)}
    BY KeysOf
  <2>5. s = h[n].ids /\ z = h[t].ids
    BY <1>5, <1>13
  <2>1. Keys(h)[n] = {s[k] : k \in 1 .. Len(s)} /\ Keys(h)[t] = {z[k] : k \in 1 .. Len(z)}
    BY <2>3, <2>4, <2>5, Zenon
  <2>2. Keys(h)[n] = ToSet(s) /\ Keys(h)[t] = ToSet(z)
    BY <1>5, <1>13, Zenon DEF Keys
  <2> QED  BY <2>1, <2>2
<1>18. x \in K[n] /\ K[n] = Keys(h)[n]
  BY <1>2, <1>4, <1>6, <1>7, <1>17
<1>19. /\ K[n] \subseteq span[j] /\ Below(span[j], K[t])
  BY <1>2, <1>3, <1>4 DEF Spans
<1>20. \A k \in 1 .. Len(z) : x < z[k]
  <2>1. \A k \in 1 .. Len(z) : z[k] \in K[t]
    BY <1>2, <1>17
  <2> QED  BY <1>18, <1>19, <2>1 DEF Below
<1>21. Ascends(u[t].ids) /\ ToSet(u[t].ids) = ToSet(z) \cup {x}
  <2>1. PICK p \in 0 .. Len(z) : p = 0
    BY <1>13
  <2>2. \A k \in 1 .. Len(z) : IF k <= p THEN z[k] < x ELSE x < z[k]
    BY <1>20, <2>1
  <2>3. PICK w : w = InsertAt(z, p + 1, x)
    OBVIOUS
  <2>4. w = u[t].ids
    BY <1>16, <2>1, <2>3
  <2>5. z \in Seq(ID) /\ Ascends(z) /\ p \in 0 .. Len(z) /\ x \in ID
    BY <1>13
  <2>6. Ascends(w) /\ ToSet(w) = ToSet(z) \cup {x}
    <3> HIDE DEF Ascends
    <3>1. \A q \in 0 .. Len(z), y \in ID : (\A k \in 1 .. Len(z) : IF k <= q THEN z[k] < y ELSE y < z[k])
            => Ascends(InsertAt(z, q + 1, y)) /\ ToSet(InsertAt(z, q + 1, y)) = ToSet(z) \cup {y}
      BY <2>5, InsertAscends
    <3> QED  BY <2>2, <2>3, <2>5, <3>1, Zenon
  <2> QED  BY <2>4, <2>6, Zenon
<1>22. PICK K2 : K2 = Keys(u)
  OBVIOUS
<1>23. /\ K2[n] = Keys(h)[n] \ {x} /\ K2[t] = Keys(h)[t] \cup {x}
       /\ \A m \in Nodes : m \notin {n, t} => K2[m] = Keys(h)[m]
  BY <1>4, <1>11, <1>12, <1>16, <1>17, <1>21, <1>22 DEF Keys
<1>24. /\ \A k \in K[n] : k <= x
       /\ Below(K2[n], {x})
  <2>1. ASSUME NEW k \in 1 .. Len(s) PROVE s[k] <= x /\ (s[k] # x => s[k] < x)
    <3>1. k = i \/ s[k] < s[i]
      BY <1>5, <1>6 DEF Ascends
    <3>2. s[k] \in Nat /\ x \in Nat
      BY ElementOfSeq, IDAssumption, Zenon
    <3> QED  BY <1>7, <3>1, <3>2
  <2> QED  BY <1>17, <1>18, <1>23, <2>1 DEF Below
<1>25. \E taken : Spans(L, R, K2, S, taken)
  <2>1. \A m \in Q : K[m] # {}
    <3> TAKE m \in Q
    <3>1. m \in S /\ m # t /\ m \in Nodes
      BY <1>2, <1>3, <1>4
    <3> QED  BY <1>2, <3>1, KeysOf
  <2>2. \A m \in S : m # t => K2[m] \subseteq K[m]
    BY <1>2, <1>18, <1>23
  <2>3. K2[t] \subseteq K[t] \cup {x}
    BY <1>2, <1>23
  <2>4. L[t] \in Q /\ L[t] # NIL /\ span[n] \subseteq span[L[t]] /\ t \in S /\ t \notin Q
    BY <1>2, <1>3, <1>4
  <2>5. PICK y \in K[n] : y = x
    BY <1>18
  <2>6. Below(K2[n], {y}) /\ (\A k \in K[n] : k <= y) /\ K2[t] \subseteq K[t] \cup {y}
    BY <1>24, <2>3, <2>5
  <2> QED  BY <1>2, <1>3, <1>4, <2>1, <2>2, <2>4, <2>6, SpansTake, Zenon
<1>26. SameLinks(u, h)
  <2>1. \A m \in Nodes : u[m].left = h[m].left /\ u[m].right = h[m].right
    BY <1>11, <1>16
  <2> QED  BY <2>1, LinksEqual
<1>27. \E sp : HeapSpans(u, S, sp)
  BY <1>22, <1>25, <1>26, <1>e DEF HeapSpans, SameLinks
<1>28. Sorted'
  <2>1. used' = S /\ used' \subseteq Nodes /\ current' = NIL
    BY <1>1, <1>2, <1>b, <1>bx
  <2> QED  BY <1>1, <1>15, <1>27, <2>1, Resting
<1>29. Rises'
  <2>1. ASSUME NEW m \in S PROVE Ascends(u[m].ids)
    <3>1. Ascends(h[m].ids) /\ m \in Nodes
      BY <1>2, <1>b, <1>bx DEF OInv, Rises
    <3> QED  BY <1>4, <1>11, <1>12, <1>16, <1>21, <3>1
  <2> QED  BY <1>1, <1>15, <1>b, <1>bx, <2>1 DEF Rises
<1> QED  BY <1>28, <1>29

\* Removing an ID that is not there, and a node that is left as it is, change no node.
LEMMA RemoveStillSorted == ASSUME OInv, RemoveMissing \/ FixNothing PROVE Sorted' /\ Rises'
<1>1. /\ UNCHANGED <<memory, current>> /\ pc # "steal"
      /\ pc' \notin {"search", "found", "place", "steal", "attach"}
  BY DEF RemoveMissing, FixNothing, Goto, At, locals
<1> QED  BY <1>1, Still

\* An empty leaf is taken off the tree: what is left fits the same spans.
LEMMA DropSpans ==
    ASSUME NEW h \in Heap, NEW S, NEW r, TreeOf(h, S, r), NEW n \in S, NEW q \in Ptr,
           Leads(Lefts(h), Rights(h), r, q, n), h[n].left = NIL, h[n].right = NIL,
           NEW span, HeapSpans(h, S, span), NEW g, g = Cleared(Repoint(h, q, n, NIL), n)
    PROVE  /\ HeapSpans(g, S \ {n}, span)
           /\ \A m \in Nodes \ {n} : g[m].ids = h[m].ids /\ g[m].data = h[m].data
                                     /\ g[m].height = h[m].height
           /\ \A m \in Nodes \ {n} : g[m].left = IF m = q /\ h[m].left = n THEN NIL ELSE h[m].left
           /\ \A m \in Nodes \ {n} : g[m].right = IF m = q /\ h[m].right = n THEN NIL ELSE h[m].right
<1>1. S \subseteq Nodes /\ n \in Nodes /\ NIL \in Ptr
  BY Children DEF Ptr
<1>2. PICK f : f = Repoint(h, q, n, NIL)
  OBVIOUS
<1>3. PICK L \in Links, R \in Links : L = Lefts(h) /\ R = Rights(h) /\ \A m \in Nodes : L[m] = h[m].left /\ R[m] = h[m].right
  BY HeapLinks
<1>4. /\ f \in Heap /\ SameItems(f, h)
      /\ Lefts(f) = Subst(Lefts(h), q, n, NIL) /\ Rights(f) = Subst(Rights(h), q, n, NIL)
  BY <1>1, <1>2, ParentFacts, RepointLinks
<1>5. \A m \in Nodes : f[m].data = h[m].data /\ f[m].height = h[m].height
  BY <1>1, <1>2, RepointRest
<1>6. /\ \A m \in Nodes : Subst(L, q, n, NIL)[m] = IF m = q /\ L[m] = n THEN NIL ELSE L[m]
      /\ \A m \in Nodes : Subst(R, q, n, NIL)[m] = IF m = q /\ R[m] = n THEN NIL ELSE R[m]
  BY <1>1, SubstLinks
<1>7. /\ \A m \in Nodes : f[m].left = IF m = q /\ h[m].left = n THEN NIL ELSE h[m].left
      /\ \A m \in Nodes : f[m].right = IF m = q /\ h[m].right = n THEN NIL ELSE h[m].right
  <2>1. \A m \in Nodes : Lefts(f)[m] = f[m].left /\ Rights(f)[m] = f[m].right
    BY <1>4, HeapLinks
  <2> QED  BY <1>3, <1>4, <1>6, <2>1
<1>8. f[n].left = NIL /\ f[n].right = NIL
  BY <1>1, <1>7
<1>9. g = Cleared(f, n)
  BY <1>2
<1>10. g \in Heap /\ \A m \in Nodes : m # n => g[m] = f[m]
  BY <1>1, <1>4, <1>8, <1>9, ClearedKeeps
<1>11. /\ \A m \in Nodes \ {n} : g[m].ids = h[m].ids /\ g[m].data = h[m].data
                                     /\ g[m].height = h[m].height
       /\ \A m \in Nodes \ {n} : g[m].left = IF m = q /\ h[m].left = n THEN NIL ELSE h[m].left
       /\ \A m \in Nodes \ {n} : g[m].right = IF m = q /\ h[m].right = n THEN NIL ELSE h[m].right
  BY <1>4, <1>5, <1>7, <1>10 DEF SameItems
<1>12. HeapSpans(g, S \ {n}, span)
  <2>1. PICK L2 \in Links, R2 \in Links : L2 = Lefts(g) /\ R2 = Rights(g) /\ \A m \in Nodes : L2[m] = g[m].left /\ R2[m] = g[m].right
    BY <1>10, HeapLinks
  <2>2. PICK K, K2 : K = Keys(h) /\ K2 = Keys(g)
    OBVIOUS
  <2>3. PICK T : T = S \ {n}
    BY Zenon
  <2>4. \A m \in T : K2[m] = K[m]
    BY <1>1, <1>11, <2>2, <2>3 DEF Keys
  <2>5. T \subseteq S /\ \A m \in T : L2[m] \in {L[m], NIL} /\ R2[m] \in {R[m], NIL} /\ K2[m] \subseteq K[m]
    BY <1>1, <1>3, <1>11, <2>1, <2>3, <2>4
  <2>6. Spans(L, R, K, S, span)
    BY <1>3, <2>2 DEF HeapSpans
  <2>7. Spans(L2, R2, K2, T, span)
    BY <2>5, <2>6, SpansPrune
  <2> QED  BY <2>1, <2>2, <2>3, <2>7 DEF HeapSpans
<1> QED  BY <1>11, <1>12

\* What is known of a tree in which a node has just lost an entry.
LEMMA FixingSpans ==
    ASSUME OInv, pc = "fix"
    PROVE  /\ current = NIL /\ used \subseteq Nodes /\ heap \in Heap /\ node \in Nodes /\ Parent(trace) \in Ptr
           /\ TreeOf(heap, used, root) /\ node \in used
           /\ \A m \in used : (m # node => Whole(heap, m)) /\ Ascends(heap[m].ids)
           /\ \E sp : HeapSpans(heap, used, sp)
<1>1. /\ current = NIL /\ used \subseteq Nodes /\ heap \in Heap
      /\ TreeOf(heap, used, root) /\ node \in used
      /\ \A m \in used : (m # node => Whole(heap, m))
  BY Fixing DEF OInv
<1>2. Held = Keys(heap) /\ Linked = used
  BY <1>1, HeldKeys, LinkedAll
<1>3. Parent(trace) \in Ptr
  BY ParentType DEF OInv, SInv, IInv, TypeOK
<1> QED  BY <1>1, <1>2, <1>3 DEF OInv, Rises, Sorted, SortedBy, HeapSpans

\* Freeing a leaf that became empty keeps the order invariant.
LEMMA FixEmptyLeafSorted == ASSUME OInv, Asserted, FixEmptyLeaf PROVE Sorted' /\ Rises'
<1>1. /\ pc = "fix" /\ pc' = "rebalance" /\ UNCHANGED <<call, current>> /\ Kind(heap, node) = "leaf"
      /\ heap' = Cleared(Repoint(heap, Parent(trace), node, NIL), node)
      /\ used' = used \ {node}
  BY DEF FixEmptyLeaf, Goto, Cleared, locals
<1>a. heap \in Heap /\ node \in Nodes /\ Parent(trace) \in Ptr
  BY <1>1, FixingSpans
<1>b. PICK h \in Heap : h = heap
  BY <1>a
<1>bx. PICK S, r : S = used /\ r = root
  OBVIOUS
<1>c. PICK n \in Nodes, q \in Ptr : n = node /\ q = Parent(trace)
  BY <1>a
<1>cx. PICK g : g = Cleared(Repoint(h, q, n, NIL), n)
  OBVIOUS
<1>2. /\ TreeOf(h, S, r) /\ n \in S /\ S \subseteq Nodes /\ current = NIL
      /\ \A m \in S : Ascends(h[m].ids)
  BY <1>1, <1>b, <1>bx, <1>c, <1>cx, FixingSpans
<1>3. Leads(Lefts(h), Rights(h), r, q, n)
  BY <1>1, <1>b, <1>bx, <1>c, <1>cx, PointsLeads DEF Asserted, RemoveAsserts
<1>4. h[n].left = NIL /\ h[n].right = NIL
  BY <1>1, <1>b, <1>bx, <1>c, <1>cx, Kinds
<1>5. PICK span : HeapSpans(h, S, span)
  BY <1>1, <1>b, <1>bx, FixingSpans
<1>6. HeapSpans(g, S \ {n}, span) /\ \A m \in Nodes \ {n} : g[m].ids = h[m].ids
  BY <1>2, <1>3, <1>4, <1>5, <1>c, <1>cx, DropSpans
<1>7. g = heap' /\ used' = S \ {n} /\ current' = NIL
  BY <1>1, <1>2, <1>b, <1>bx, <1>c, <1>cx
<1>8. used' \subseteq Nodes /\ \E sp : HeapSpans(g, used', sp)
  BY <1>2, <1>6, <1>7
<1>9. Sorted'
  BY <1>1, <1>7, <1>8, Resting
<1>10. \A m \in used' : Ascends(heap'[m].ids)
  BY <1>2, <1>6, <1>7
<1> QED  BY <1>9, <1>10 DEF Rises

\* What the absorbing node holds.
LEMMA MergedItems ==
    ASSUME NEW h \in Heap, NEW l \in Nodes, NEW a \in Nodes, l # a,
           Length(h, l) + Length(h, a) <= NodeSize, NEW g, g = Merged(h, l, a)
    PROVE  g[l].ids = h[l].ids \o h[a].ids /\ g[l].data = h[l].data \o h[a].data
<1>1. PICK x, y : x = h[l].ids \o h[a].ids /\ y = h[l].data \o h[a].data
  BY Zenon
<1>2. x \in Seq(ID) /\ Len(x) = Length(h, l) + Length(h, a)
  BY <1>1, HeapNode, ConcatType DEF Length
<1>3. y \in Seq(Record) /\ Len(y) = Length(h, l) + Length(h, a)
  <2>1. h[l].data \in Seq(Record) /\ h[a].data \in Seq(Record)
        /\ Len(h[l].data) = Length(h, l) /\ Len(h[a].data) = Length(h, a)
    BY HeapNode
  <2> QED  BY <1>1, <2>1, ConcatType, Zenon
<1>4. PICK s : s = SetItems(h, l, x, y)
  OBVIOUS
<1>5. s \in Heap /\ s[l].ids = x /\ s[l].data = y
  BY <1>2, <1>3, <1>4, SetItemsType
<1>6. g = [[s EXCEPT ![a] = Blank] EXCEPT ![l].left = NIL, ![l].right = NIL]
  BY <1>1, <1>4 DEF Merged, Merge
<1>7. PICK c : c = [s EXCEPT ![a] = Blank]
  BY Zenon
<1>8. c[l] = s[l] /\ c \in [Nodes -> TNode]
  BY <1>5, <1>7, BlankType DEF Heap
<1>9. g = [c EXCEPT ![l].left = NIL, ![l].right = NIL]
  BY <1>6, <1>7
<1>10. g[l].ids = c[l].ids /\ g[l].data = c[l].data
  BY <1>8, <1>9 DEF TNode
<1> QED  BY <1>1, <1>5, <1>8, <1>10

\* A half leaf n, under q, and its only child c merge: l absorbs a, and the heap is k.
MergedInto(k, h, q, n, c, l, a, top) ==
    /\ c = OnlyChild(h, n) /\ Kind(h, n) = "halfleaf" /\ Kind(h, c) = "leaf"
    /\ Length(h, n) + Length(h, c) <= NodeSize
    /\ l = Absorbing(h, n) /\ a = Absorbed(h, n)
    /\ LET b == RebalanceSubtree(UpdateHeight(Merged(h, l, a), l), l)
       IN  top = b.top /\ k = Repoint(b.heap, q, n, b.top)

\* What becomes of the nodes of the tree.
MergeShape(k, h, S, n, q, c, l, a, top) ==
    /\ c \in S /\ c # n /\ q \notin {n, c} /\ l # a
    /\ \/ l = c /\ a = n /\ h[n].left = c /\ h[n].right = NIL
       \/ l = n /\ a = c /\ h[n].left = NIL /\ h[n].right = c
    /\ top = l /\ k \in Heap
    /\ k[l].ids = h[l].ids \o h[a].ids /\ k[l].data = h[l].data \o h[a].data
    /\ k[l].left = NIL /\ k[l].right = NIL /\ k[l].height = 1
    /\ \A m \in Nodes \ {n, c} : k[m].ids = h[m].ids /\ k[m].data = h[m].data /\ k[m].height = h[m].height
    /\ \A m \in Nodes \ {n, c} : k[m].left = IF m = q /\ h[m].left = n THEN l ELSE h[m].left
    /\ \A m \in Nodes \ {n, c} : k[m].right = IF m = q /\ h[m].right = n THEN l ELSE h[m].right

\* The tree after a merge, spelt out: l takes n's place as a leaf and holds what both held.
LEMMA MergeDetail ==
    ASSUME NEW h \in Heap, NEW S, NEW r, TreeOf(h, S, r), NEW n \in S, NEW q \in Ptr,
           Leads(Lefts(h), Rights(h), r, q, n), NEW c, NEW l, NEW a, NEW top, NEW k,
           MergedInto(k, h, q, n, c, l, a, top)
    PROVE  MergeShape(k, h, S, n, q, c, l, a, top)
<1>1. S \subseteq Nodes /\ n \in Nodes
  BY Children
<1>2. \/ h[n].left = c /\ h[n].right = NIL /\ l = c /\ a = n
      \/ h[n].left = NIL /\ h[n].right = c /\ l = n /\ a = c
  BY DEF MergedInto, Kind, OnlyChild, Absorbing, Absorbed
<1>3. c # NIL
  BY DEF MergedInto, Kind, OnlyChild
<1>4. c \in S /\ c # n /\ c \in Nodes
  BY <1>1, <1>2, <1>3, Children
<1>5. h[c].left = NIL /\ h[c].right = NIL
  BY Kinds DEF MergedInto
<1>6. Length(h, l) + Length(h, a) <= NodeSize
  <2>1. Length(h, n) \in Nat /\ Length(h, c) \in Nat
    BY <1>1, <1>4, HeapNode, SizeAssumption
  <2> QED  BY <1>2, <2>1 DEF MergedInto
<1>8. /\ q = NIL => r = n
      /\ q # NIL => /\ q \in Nodes /\ q \notin {n, c} /\ n \in {h[q].left, h[q].right}
                    /\ h[q].left # h[q].right
  BY <1>1, <1>5, ParentFacts, NILAssumption
<1>9. l \in Nodes /\ a \in Nodes /\ l # a /\ l \in S /\ a \in S /\ l \in Ptr /\ {l, a} = {n, c}
  BY <1>1, <1>2, <1>4 DEF Ptr
<1>10. PICK g : g = Merged(h, l, a)
  OBVIOUS
<1>11. /\ g \in Heap
       /\ \A m \in Nodes : g[m].left = IF m \in {l, a} THEN NIL ELSE h[m].left
       /\ \A m \in Nodes : g[m].right = IF m \in {l, a} THEN NIL ELSE h[m].right
       /\ \A m \in Nodes \ {l, a} : g[m] = h[m]
  BY <1>6, <1>9, <1>10, MergeKeeps
<1>12. g[l].ids = h[l].ids \o h[a].ids /\ g[l].data = h[l].data \o h[a].data
  <2>1. l \in Nodes /\ a \in Nodes /\ l # a
    BY <1>9
  <2>2. Length(h, l) + Length(h, a) <= NodeSize
    BY <1>6
  <2> QED  BY <1>10, <2>1, <2>2, MergedItems, Zenon
<1>13. PICK u : u = UpdateHeight(g, l)
  OBVIOUS
<1>14. /\ u \in Heap /\ SameItems(u, g)
       /\ \A m \in Nodes : u[m].left = g[m].left /\ u[m].right = g[m].right /\ u[m].data = g[m].data
       /\ \A m \in Nodes : m # l => u[m].height = g[m].height
       /\ u[l].height = 1 + Max2(Height(g, g[l].left), Height(g, g[l].right))
  <2>1. u \in Heap /\ SameItems(u, g)
    BY <1>9, <1>11, <1>13, UpdateHeightType, UpdateHeightKeeps
  <2>2. SameData(u, g) /\ (\A m \in Nodes : u[m].left = g[m].left /\ u[m].right = g[m].right)
    BY <1>9, <1>11, <1>13, UpdateHeightRest
  <2>3. \A m \in Nodes : m # l => u[m].height = g[m].height
    BY <1>9, <1>11, <1>13, UpdateHeightRest, Zenon
  <2>4. u[l].height = 1 + Max2(Height(g, g[l].left), Height(g, g[l].right))
    BY <1>9, <1>11, <1>13, UpdateHeightRest
  <2> QED  BY <2>1, <2>2, <2>3, <2>4 DEF SameData
<1>15. u[l].left = NIL /\ u[l].right = NIL /\ u[l].height = 1
  <2>1. g[l].left = NIL /\ g[l].right = NIL
    BY <1>9, <1>11
  <2>2. 1 + Max2(Height(g, NIL), Height(g, NIL)) = 1
    BY DEF Max2, Height
  <2> QED  BY <1>9, <1>14, <2>1, <2>2
<1>16. top = l /\ k = Repoint(u, q, n, l)
  <2>0. PICK b : b = RebalanceSubtree(u, l)
    OBVIOUS
  <2>1. top = b.top /\ k = Repoint(b.heap, q, n, b.top)
    BY <1>10, <1>13, <2>0 DEF MergedInto
  <2>2. b.top = l /\ b.heap = u
    BY <1>9, <1>14, <1>15, <2>0, LeafBalanced
  <2> QED  BY <2>1, <2>2
<1>17. /\ k \in Heap /\ SameItems(k, u)
       /\ Lefts(k) = Subst(Lefts(u), q, n, l) /\ Rights(k) = Subst(Rights(u), q, n, l)
       /\ \A m \in Nodes : k[m].data = u[m].data /\ k[m].height = u[m].height
  <2>1. k = Repoint(u, q, n, l) /\ l \in Ptr
    BY <1>9, <1>16
  <2>2. q # NIL => n \in {u[q].left, u[q].right} /\ u[q].left # u[q].right
    BY <1>2, <1>8, <1>11, <1>14
  <2> QED  BY <1>1, <1>14, <2>1, <2>2, RepointLinks, RepointRest
<1>18. PICK L \in Links, R \in Links : L = Lefts(u) /\ R = Rights(u) /\ \A m \in Nodes : L[m] = u[m].left /\ R[m] = u[m].right
  BY <1>14, HeapLinks
<1>19. /\ \A m \in Nodes : Subst(L, q, n, l)[m] = IF m = q /\ L[m] = n THEN l ELSE L[m]
       /\ \A m \in Nodes : Subst(R, q, n, l)[m] = IF m = q /\ R[m] = n THEN l ELSE R[m]
  BY <1>9, <1>18, SubstLinks
<1>20. \A m \in Nodes : Lefts(k)[m] = k[m].left /\ Rights(k)[m] = k[m].right
  BY <1>17, HeapLinks
<1>21. /\ \A m \in Nodes : k[m].left = IF m = q /\ u[m].left = n THEN l ELSE u[m].left
       /\ \A m \in Nodes : k[m].right = IF m = q /\ u[m].right = n THEN l ELSE u[m].right
  BY <1>17, <1>18, <1>19, <1>20
<1>22. q \notin {n, c}
  BY <1>1, <1>4, <1>8, NILAssumption
<1>23. \A m \in Nodes : k[m].ids = g[m].ids /\ k[m].data = g[m].data
  BY <1>14, <1>17 DEF SameItems
<1>24. k[l].left = NIL /\ k[l].right = NIL /\ k[l].height = 1
  BY <1>9, <1>15, <1>17, <1>21, <1>22
<1>25. ASSUME NEW m \in Nodes \ {n, c}
       PROVE  /\ k[m].ids = h[m].ids /\ k[m].data = h[m].data /\ k[m].height = h[m].height
              /\ k[m].left = IF m = q /\ h[m].left = n THEN l ELSE h[m].left
              /\ k[m].right = IF m = q /\ h[m].right = n THEN l ELSE h[m].right
  <2>1. g[m] = h[m] /\ u[m].left = g[m].left /\ u[m].right = g[m].right /\ m # l
    BY <1>9, <1>11, <1>14
  <2>2. k[m].height = h[m].height
    BY <1>14, <1>17, <2>1
  <2> QED  BY <1>21, <1>23, <2>1, <2>2
<1> QED  BY <1>2, <1>4, <1>9, <1>12, <1>16, <1>17, <1>22, <1>23, <1>24, <1>25, Zenon DEF MergeShape

\* k is h after a merge into l that freed a: the keys ascend in l and are divided.
MergeSorted(k, h, S, l, a) ==
    /\ Ascends(k[l].ids) /\ a \in S /\ l \in S /\ l # a
    /\ \A m \in S \ {l, a} : k[m].ids = h[m].ids
    /\ \E sp : HeapSpans(k, S \ {a}, sp)

\* Merging a half-leaf with its only child keeps the order.
LEMMA MergeSpans ==
    ASSUME NEW h \in Heap, NEW S, NEW r, TreeOf(h, S, r), NEW n \in S, NEW q \in Ptr,
           Leads(Lefts(h), Rights(h), r, q, n), NEW c, NEW l, NEW a, NEW top, NEW k,
           MergedInto(k, h, q, n, c, l, a, top),
           Ascends(h[n].ids), Ascends(h[c].ids), NEW span, HeapSpans(h, S, span)
    PROVE  MergeSorted(k, h, S, l, a)
<1>1. /\ c \in S /\ c # n /\ q \notin {n, c} /\ l # a
      /\ \/ l = c /\ a = n /\ h[n].left = c /\ h[n].right = NIL
         \/ l = n /\ a = c /\ h[n].left = NIL /\ h[n].right = c
      /\ k \in Heap
      /\ k[l].ids = h[l].ids \o h[a].ids
      /\ k[l].left = NIL /\ k[l].right = NIL
      /\ \A m \in Nodes \ {n, c} : k[m].ids = h[m].ids
      /\ \A m \in Nodes \ {n, c} : k[m].left = IF m = q /\ h[m].left = n THEN l ELSE h[m].left
      /\ \A m \in Nodes \ {n, c} : k[m].right = IF m = q /\ h[m].right = n THEN l ELSE h[m].right
  <2>1. MergeShape(k, h, S, n, q, c, l, a, top)
    BY MergeDetail
  <2> QED  BY <2>1 DEF MergeShape
<1>2. PICK L \in Links, R \in Links : L = Lefts(h) /\ R = Rights(h) /\ \A m \in Nodes : L[m] = h[m].left /\ R[m] = h[m].right
  BY HeapLinks
<1>3. PICK L2 \in Links, R2 \in Links : L2 = Lefts(k) /\ R2 = Rights(k) /\ \A m \in Nodes : L2[m] = k[m].left /\ R2[m] = k[m].right
  BY <1>1, HeapLinks
<1>4. S \subseteq Nodes /\ n \in Nodes /\ c \in Nodes /\ l \in S /\ a \in S /\ {l, a} = {n, c}
  BY <1>1, Children
<1>5. IsTree(L, R, S, r) /\ Leads(L, R, r, q, n)
  BY <1>2 DEF TreeOf
<1>6. c \in {L[n], R[n]}
  BY <1>1, <1>2, <1>4
<1>7. \A m \in Nodes \ {n} : c \notin {L[m], R[m]}
  BY <1>4, <1>5, <1>6, Kinship
<1>8. \A m \in Nodes : n \in {L[m], R[m]} => m = q
  BY <1>5, Parenthood
<1>9. PICK K, K2 : K = Keys(h) /\ K2 = Keys(k)
  OBVIOUS
<1>10. Spans(L, R, K, S, span)
  BY <1>2, <1>9 DEF HeapSpans
<1>11. Below(K[l], K[a])
  <2>1. CASE l = c /\ a = n /\ h[n].left = c
    <3>1. L[n] = c /\ c # NIL
      BY <1>2, <1>4, <2>1, NILAssumption
    <3>2. Below(span[c], K[n]) /\ K[c] \subseteq span[c]
      BY <1>1, <1>10, <3>1 DEF Spans
    <3> QED  BY <2>1, <3>2 DEF Below
  <2>2. CASE l = n /\ a = c /\ h[n].right = c
    <3>1. R[n] = c /\ c # NIL
      BY <1>2, <1>4, <2>2, NILAssumption
    <3>2. Below(K[n], span[c]) /\ K[c] \subseteq span[c]
      BY <1>1, <1>10, <3>1 DEF Spans
    <3> QED  BY <2>2, <3>2 DEF Below
  <2> QED  BY <1>1, <2>1, <2>2
<1>12. PICK s \in Seq(ID), t \in Seq(ID) : s = h[l].ids /\ t = h[a].ids
  BY <1>4, HeapNode
<1>12x. PICK u : u = s \o t
  BY Zenon
<1>13. Ascends(s) /\ Ascends(t) /\ K[l] = ToSet(s) /\ K[a] = ToSet(t) /\ u = k[l].ids
  BY <1>1, <1>4, <1>9, <1>12, <1>12x DEF Keys
<1>14. Ascends(u) /\ ToSet(u) = ToSet(s) \cup ToSet(t)
  <2>1. Ascends(s) /\ Ascends(t) /\ Below(ToSet(s), ToSet(t)) /\ u = s \o t
    BY <1>11, <1>12, <1>12x, <1>13
  <2> QED  BY <2>1, ConcatAscends, Zenon
<1>15. K2[l] = K[l] \cup K[a] /\ \A m \in Nodes \ {n, c} : K2[m] = K[m]
  BY <1>1, <1>4, <1>9, <1>13, <1>14, Zenon DEF Keys
<1>16. /\ K2[l] \subseteq K[n] \cup K[c]
       /\ \A m \in S \ {n, c} : K2[m] \subseteq K[m] /\ c \notin {L[m], R[m]}
  BY <1>1, <1>4, <1>7, <1>15
<1>17. /\ \A m \in S \ {n, c} : (L2[m] = L[m] /\ L[m] # n) \/ (L[m] = n /\ L2[m] = l)
       /\ \A m \in S \ {n, c} : (R2[m] = R[m] /\ R[m] # n) \/ (R[m] = n /\ R2[m] = l)
  <2> SUFFICES ASSUME NEW m \in S \ {n, c}
               PROVE  /\ (L2[m] = L[m] /\ L[m] # n) \/ (L[m] = n /\ L2[m] = l)
                      /\ (R2[m] = R[m] /\ R[m] # n) \/ (R[m] = n /\ R2[m] = l)
    OBVIOUS
  <2>1. m \in Nodes \ {n, c}
    BY <1>4
  <2>2. /\ L2[m] = IF m = q /\ L[m] = n THEN l ELSE L[m]
        /\ R2[m] = IF m = q /\ R[m] = n THEN l ELSE R[m]
    BY <1>1, <1>2, <1>3, <2>1
  <2>3. n \in {L[m], R[m]} => m = q
    BY <1>8, <2>1
  <2> QED  BY <2>2, <2>3
<1>18. L2[l] = NIL /\ R2[l] = NIL /\ l \in {n, c} /\ a \in {n, c}
  BY <1>1, <1>3, <1>4
<1>19. \E sp : Spans(L2, R2, K2, S \ {a}, sp)
  <2>1. MergesTo(L, R, K, S, n, c, l, a, L2, R2, K2)
    <3>1. n \in S /\ c \in S /\ l # a
      BY <1>1
    <3>2. (l = n /\ a = c) \/ (l = c /\ a = n)
      BY <1>1, Zenon
    <3> QED  BY <1>6, <1>16, <1>17, <1>18, <3>1, <3>2, Zenon DEF MergesTo
  <2>2. Spans(L, R, K, S, span) /\ S \subseteq Nodes
    BY <1>4, <1>10
  <2> QED  BY <2>1, <2>2, SpansMerge, Zenon
<1>20. \E sp : HeapSpans(k, S \ {a}, sp)
  BY <1>3, <1>9, <1>19 DEF HeapSpans
<1> QED  BY <1>1, <1>4, <1>13, <1>14, <1>20 DEF MergeSorted

\* The merge after a removal keeps the order invariant.
LEMMA FixMergeSorted == ASSUME OInv, Asserted, FixMerge PROVE Sorted' /\ Rises'
<1>0. pc = "fix" /\ pc' = "rebalance" /\ UNCHANGED <<call, current>> /\ Mergeable(heap, node)
  BY DEF FixMerge, Goto, locals
<1>a. heap \in Heap /\ node \in Nodes /\ Parent(trace) \in Ptr
  BY <1>0, FixingSpans
<1>b. PICK h \in Heap : h = heap
  BY <1>a
<1>bx. PICK S, r : S = used /\ r = root
  OBVIOUS
<1>c. PICK n \in Nodes, q \in Ptr : n = node /\ q = Parent(trace)
  BY <1>a
<1>cx. PICK c : c = OnlyChild(h, n)
  OBVIOUS
<1>d. PICK l, a, b : /\ l = Absorbing(h, n) /\ a = Absorbed(h, n)
                     /\ b = RebalanceSubtree(UpdateHeight(Merged(h, l, a), l), l)
  OBVIOUS
<1>e. PICK k : k = Repoint(b.heap, q, n, b.top)
  OBVIOUS
<1>1. heap' = k /\ used' = S \ {a}
  BY <1>b, <1>bx, <1>c, <1>cx, <1>d, <1>e DEF FixMerge, Merged
<1>2. /\ TreeOf(h, S, r) /\ n \in S /\ S \subseteq Nodes /\ current = NIL
      /\ \A m \in S : Ascends(h[m].ids)
  BY <1>0, <1>b, <1>bx, <1>c, <1>cx, FixingSpans
<1>3. Leads(Lefts(h), Rights(h), r, q, n)
  BY <1>0, <1>2, <1>b, <1>bx, <1>c, <1>cx, PointsLeads DEF Asserted, RemoveAsserts
<1>4. Kind(h, n) = "halfleaf" /\ Kind(h, c) = "leaf" /\ Length(h, n) + Length(h, c) <= NodeSize
  BY <1>0, <1>b, <1>bx, <1>c, <1>cx DEF Mergeable, Asserted, RemoveAsserts
<1>5. c \in S
  BY <1>2, <1>4, <1>c, <1>cx, Children DEF Kind, OnlyChild
<1>6. PICK span : HeapSpans(h, S, span)
  BY <1>0, <1>b, <1>bx, FixingSpans
<1>7. /\ Ascends(k[l].ids) /\ a \in S /\ l \in S /\ l # a
      /\ \A m \in S \ {l, a} : k[m].ids = h[m].ids
      /\ \E sp : HeapSpans(k, S \ {a}, sp)
  <2>1. Ascends(h[n].ids) /\ Ascends(h[c].ids)
    BY <1>2, <1>5
  <2>2. PICK top : top = b.top
    OBVIOUS
  <2>3. MergedInto(k, h, q, n, c, l, a, top)
    BY <1>4, <1>c, <1>cx, <1>d, <1>e, <2>2 DEF MergedInto
  <2>4. MergeSorted(k, h, S, l, a)
    BY <1>2, <1>3, <1>6, <2>1, <2>3, MergeSpans
  <2> QED  BY <2>4 DEF MergeSorted
<1>8. used' \subseteq Nodes /\ \E sp : HeapSpans(k, used', sp)
  BY <1>1, <1>2, <1>7
<1>9. Sorted'
  BY <1>0, <1>1, <1>2, <1>8, Resting, Zenon
<1>10. ASSUME NEW m \in used' PROVE Ascends(heap'[m].ids)
  <2>1. m \in S /\ m # a
    BY <1>1
  <2> QED  BY <1>1, <1>2, <1>7, <2>1
<1> QED  BY <1>9, <1>10 DEF Rises

-----------------------------------------------------------------------------
(* Rebalancing keeps the order unless it takes records from the middle.     *)

\* Whenever a rotation leaves the new top of the subtree short and t-tree.c:399 or 403 refills it from a child, that
\* child has no child of its own between. This is the condition under which taking the child's own items is
\* right; the runs with removals show that the code can violate it.
StealsAtEnds ==
    pc = "rebalance" /\ trace # <<>> /\ Rebalanced.top # Last(trace)
            /\ ShortOfRecords(Rotated, Rebalanced.top) =>
        /\ LeftSteal(Rotated, Rebalanced.top) > 0 => Rotated[Rotated[Rebalanced.top].left].right = NIL
        /\ RightSteal(Rotated, Rebalanced.top) > 0 => Rotated[Rotated[Rebalanced.top].right].left = NIL

\* What the invariant says when rebalancing starts.
LEMMA RebalancingSpans ==
    ASSUME OInv, pc = "rebalance"
    PROVE  /\ current = NIL /\ used \subseteq Nodes /\ heap \in Heap /\ TreeOf(heap, used, root)
           /\ \A m \in used : Whole(heap, m) /\ Rich(heap, m) /\ heap[m].ids # <<>> /\ Ascends(heap[m].ids)
           /\ \E sp : HeapSpans(heap, used, sp)
<1>1. /\ current = NIL /\ used \subseteq Nodes /\ heap \in Heap /\ TreeOf(heap, used, root)
      /\ \A m \in used : Whole(heap, m) /\ Rich(heap, m)
  BY Calm DEF OInv
<1>2. Held = Keys(heap) /\ Linked = used
  BY <1>1, HeldKeys, LinkedAll
<1> QED  BY <1>1, <1>2 DEF OInv, Rises, Sorted, SortedBy, HeapSpans, Whole

\* The two ends of the pointer the rebalancing follows.
LEMMA RebalancingAt ==
    ASSUME SInv, Asserted, pc = "rebalance", trace # <<>>
    PROVE  /\ Last(trace) \in used /\ Last(trace) \in Nodes /\ Parent(Front(trace)) \in Ptr
           /\ Leads(Lefts(heap), Rights(heap), root, Parent(Front(trace)), Last(trace))
<1>1. Last(trace) \in Nodes /\ Parent(Front(trace)) \in Ptr
  BY FrontLastType, ParentType DEF SInv, IInv, TypeOK
<1>2. PICK t \in Nodes, q \in Ptr : t = Last(trace) /\ q = Parent(Front(trace))
  BY <1>1
<1>3. /\ current = NIL /\ used \subseteq Nodes /\ heap \in Heap /\ TreeOf(heap, used, root)
  BY Calm
<1>4. Leads(Lefts(heap), Rights(heap), root, q, t) /\ PointsTo(q, t)
  BY <1>2, <1>3, PointsLeads DEF Asserted, RebalanceAsserts
<1>5. t \in used
  <2>1. CASE q = NIL
    BY <1>2, <1>3, <1>4, <2>1, Children, NILAssumption DEF PointsTo
  <2>2. CASE q # NIL
    <3>1. q \in Nodes /\ t \in {heap[q].left, heap[q].right} /\ t # NIL
      BY <1>2, <1>4, <2>2, NILAssumption DEF PointsTo, Ptr
    <3> QED  BY <1>3, <3>1, Children
  <2> QED  BY <2>1, <2>2
<1> QED  BY <1>2, <1>4, <1>5

\* One subtree rebalanced, its pointer set and its stored height brought up to date.
LEMMA TurnedTree ==
    ASSUME SInv, Asserted, pc = "rebalance", trace # <<>>
    PROVE  /\ Updated = UpdateHeight(heap, Last(trace))
           /\ Updated \in Heap /\ SameLinks(Updated, heap) /\ SameItems(Updated, heap)
           /\ TreeOf(Updated, used, root)
           /\ Leads(Lefts(Updated), Rights(Updated), root, Parent(Front(trace)), Last(trace))
           /\ Rebalancing(Rotated, Updated, used, root, Parent(Front(trace)), Last(trace), Rebalanced.top)
           /\ Turned(Rotated, Updated, used, IF Parent(Front(trace)) = NIL THEN Rebalanced.top ELSE root, Rebalanced.top)
           /\ Rebalanced.top = Last(trace) => Rebalanced.heap = Updated
<1>1. PICK h \in Heap : h = heap
  BY Calm
<1>2. PICK S, r : S = used /\ r = root
  OBVIOUS
<1>3. PICK t \in Nodes, q \in Ptr : t = Last(trace) /\ q = Parent(Front(trace))
  BY RebalancingAt
<1>4. S \subseteq Nodes /\ TreeOf(h, S, r) /\ t \in S /\ Leads(Lefts(h), Rights(h), r, q, t)
  BY <1>1, <1>2, <1>3, Calm, RebalancingAt
<1>6. PICK u \in Heap : u = UpdateHeight(h, t)
  BY UpdateHeightType
<1>7. SameLinks(u, h) /\ SameItems(u, h)
  BY <1>6, UpdateHeightKeeps
<1>8. TreeOf(u, S, r) /\ Leads(Lefts(u), Rights(u), r, q, t)
  BY <1>4, <1>7, LinksSame DEF SameLinks
<1>10. PICK b : b = RebalanceSubtree(u, t)
  OBVIOUS
<1>11. PICK top, g : top = b.top /\ g = Repoint(b.heap, q, t, b.top)
  OBVIOUS
<1>12. Rebalancing(g, u, S, r, q, t, top)
  BY <1>4, <1>8, <1>10, <1>11, RebalanceTurns
<1>13. Turned(g, u, S, IF q = NIL THEN b.top ELSE r, b.top) /\ (b.top = t => b.heap = u)
  BY <1>4, <1>8, <1>10, <1>11, RebalanceTree
<1>15. Updated = u /\ Rebalanced = b /\ Rotated = g
  BY <1>1, <1>3, <1>6, <1>10, <1>11 DEF Updated, Rebalanced, Rotated
<1>16. Rebalanced.top = top
  BY <1>11, <1>15
<1>17. Updated = UpdateHeight(heap, Last(trace))
  BY DEF Updated
<1> QED  BY <1>1, <1>2, <1>3, <1>7, <1>8, <1>11, <1>12, <1>13, <1>15, <1>16, <1>17

\* Its spans.
LEMMA TurnedSpans ==
    ASSUME OInv, Asserted, pc = "rebalance", trace # <<>>
    PROVE  /\ Updated \in Heap /\ SameLinks(Updated, heap) /\ SameItems(Updated, heap)
           /\ TreeOf(Updated, used, root)
           /\ Turned(Rotated, Updated, used, IF Parent(Front(trace)) = NIL THEN Rebalanced.top ELSE root, Rebalanced.top)
           /\ Rebalanced.top = Last(trace) => Rebalanced.heap = Updated
           /\ \E sp : HeapSpans(Updated, used, sp)
           /\ \E sp : HeapSpans(Rotated, used, sp)
<1>0. SInv
  BY DEF OInv
<1>1. PICK h \in Heap : h = heap
  BY RebalancingSpans
<1>2. PICK S, r : S = used /\ r = root
  OBVIOUS
<1>3. PICK t \in Nodes, q \in Ptr : t = Last(trace) /\ q = Parent(Front(trace))
  BY <1>0, RebalancingAt
<1>4. t \in S /\ S \subseteq Nodes /\ \A m \in S : h[m].ids # <<>>
  BY <1>0, <1>1, <1>2, <1>3, RebalancingSpans, RebalancingAt
<1>5. PICK span : HeapSpans(h, S, span)
  BY <1>1, <1>2, RebalancingSpans
<1>6. PICK u, g, top : u = Updated /\ g = Rotated /\ top = Rebalanced.top
  OBVIOUS
<1>7. /\ u \in Heap /\ SameLinks(u, h) /\ SameItems(u, h) /\ TreeOf(u, S, r)
      /\ Leads(Lefts(u), Rights(u), r, q, t) /\ Rebalancing(g, u, S, r, q, t, top)
  BY <1>0, <1>1, <1>2, <1>3, <1>6, TurnedTree
<1>9. HeapSpans(u, S, span)
  BY <1>5, <1>7, SameSpans DEF SameItems
<1>14. \E sp : HeapSpans(g, S, sp)
  <2>1. \A m \in S : u[m].ids # <<>>
    BY <1>4, <1>7 DEF SameItems
  <2> QED  BY <1>4, <1>7, <1>9, <2>1, RebalanceSpans
<1> QED  BY <1>0, <1>2, <1>6, <1>9, <1>14, TurnedTree

\* A step up of the rebalancing keeps the order invariant.
LEMMA RebalanceUpSorted == ASSUME OInv, Asserted, RebalanceUp PROVE Sorted' /\ Rises'
<1>1. /\ pc = "rebalance" /\ pc' = "rebalance" /\ UNCHANGED <<root, used, current>> /\ trace # <<>>
      /\ Rebalanced.top = Last(trace) /\ heap' = Rebalanced.heap
  BY DEF RebalanceUp
<1>2. heap' = Updated
  BY <1>1, TurnedSpans
<1>3. PICK u : u = Updated
  OBVIOUS
<1>4. SameItems(u, heap) /\ \E sp : HeapSpans(u, used, sp)
  BY <1>1, <1>3, TurnedSpans
<1>5. u = heap' /\ used' = used /\ used' \subseteq Nodes /\ current' = NIL
  BY <1>1, <1>2, <1>3, RebalancingSpans
<1>6. Sorted'
  BY <1>1, <1>4, <1>5, Resting
<1>7. \A m \in used' : Ascends(heap'[m].ids)
  BY <1>1, <1>4, <1>5, RebalancingSpans DEF SameItems
<1> QED  BY <1>6, <1>7 DEF Rises

\* The end of the rebalancing keeps the order invariant.
LEMMA RebalanceEndSorted == ASSUME OInv, RebalanceEnd PROVE Sorted' /\ Rises'
<1>1. UNCHANGED <<memory, current>> /\ pc = "rebalance" /\ pc' \in {"load", "return"}
  BY DEF RebalanceEnd, Goto, AfterRebalance, locals
<1> QED  BY <1>1, Still

\* A rotation and its refill keep the order invariant when the refill takes its items from the ends.
LEMMA RebalanceRotateSorted ==
    ASSUME OInv, Asserted, RebalanceRotate, NodeSize <= 255, StealsAtEnds
    PROVE  Sorted' /\ Rises'
<1>1. /\ pc = "rebalance" /\ pc' \in {"load", "return"} /\ UNCHANGED <<used, current>> /\ trace # <<>>
      /\ Rebalanced.top # Last(trace) /\ heap' = EnsureMinLen(Rotated, Rebalanced.top)
      /\ root' = RootAfter(Parent(Front(trace)), Rebalanced.top)
  BY DEF RebalanceRotate, Goto, AfterRebalance
<1>2. PICK S, r : S = used /\ r = root'
  OBVIOUS
<1>3. Turned(Rotated, Updated, S, r, Rebalanced.top)
  BY <1>1, <1>2, TurnedSpans DEF RootAfter
<1>4. PICK g \in Heap : g = Rotated
  BY <1>3 DEF Turned
<1>5. PICK top \in S : top = Rebalanced.top
  BY <1>3 DEF Turned
<1>6. PICK u : u = Updated
  OBVIOUS
<1>7. /\ TreeOf(g, S, r) /\ SameItems(g, u)
      /\ \A m \in Nodes : m # top /\ Internal(g, m) => Internal(u, m)
  BY <1>3, <1>4, <1>5, <1>6 DEF Turned
<1>8. SameLinks(u, heap) /\ SameItems(u, heap) /\ S \subseteq Nodes
  BY <1>1, <1>2, <1>6, TurnedSpans, RebalancingSpans
<1>9. /\ SameItems(g, heap)
      /\ \A m \in Nodes : m # top /\ Internal(g, m) => Internal(heap, m)
  BY <1>7, <1>8, SameItemsTwice, LinksSame
<1>10. \A m \in Nodes : (Whole(g, m) <=> Whole(heap, m)) /\ Length(g, m) = Length(heap, m)
  BY <1>9, SameItemsWhole
<1>11. \A m \in S : Whole(g, m) /\ (m # top => Rich(g, m)) /\ g[m].ids # <<>> /\ Ascends(g[m].ids)
  BY <1>1, <1>2, <1>8, <1>9, <1>10, RebalancingSpans DEF Rich, SameItems
<1>12. Rising(g, S)
  BY <1>11 DEF Rising
<1>13. EnsureMinLenAsserts(g, top)
  BY <1>1, <1>4, <1>5 DEF Asserted, RebalanceAsserts
<1>14. ShortOfRecords(g, top) => /\ LeftSteal(g, top) > 0 => g[g[top].left].right = NIL
                                 /\ RightSteal(g, top) > 0 => g[g[top].right].left = NIL
  BY <1>1, <1>4, <1>5 DEF StealsAtEnds
<1>15. PICK span : HeapSpans(g, S, span)
  BY <1>1, <1>2, <1>4, TurnedSpans
<1>16. PICK k : k = EnsureMinLen(g, top)
  OBVIOUS
<1>17. Rising(k, S) /\ \E sp : HeapSpans(k, S, sp)
  <2>1. \A m \in S : Whole(g, m)
    BY <1>11
  <2>2. \A m \in S : m # top => Rich(g, m)
    BY <1>11
  <2> QED  BY <1>7, <1>12, <1>13, <1>14, <1>15, <1>16, <2>1, <2>2, EnsureMinLenSpans
<1>18. k = heap' /\ used' = S /\ used' \subseteq Nodes /\ current' = NIL
  BY <1>1, <1>2, <1>4, <1>5, <1>8, <1>16, RebalancingSpans
<1>19. Sorted'
  BY <1>1, <1>17, <1>18, Resting
<1> QED  BY <1>17, <1>18, <1>19 DEF Rises, Rising

-----------------------------------------------------------------------------
(* The bulk load keeps the order.                                           *)

\* The start and the end of a bulk load keep the order invariant.
LEMMA LoadStillSorted == ASSUME OInv, StartLoad \/ LoadEnd PROVE Sorted' /\ Rises'
<1>1. UNCHANGED <<memory, current>> /\ pc # "steal" /\ pc' \in {"load", "return"}
  BY DEF StartLoad, LoadEnd, At, Goto, locals
<1> QED  BY <1>1, Still

\* What a state of a load is like.
LEMMA LoadingSpans ==
    ASSUME OInv, pc \in {"load", "attach"}
    PROVE  /\ used \subseteq Nodes /\ heap \in Heap /\ current \in used \cup {NIL}
           /\ TreeOf(heap, Linked, root) /\ Linked \subseteq used
           /\ \A m \in Linked : Whole(heap, m) /\ heap[m].ids # <<>>
           /\ \A m \in used : Ascends(heap[m].ids)
           /\ call.items \in Seq(Entry) /\ pos \in Nat /\ pos <= Len(call.items)
           /\ \E sp : HeapSpans(heap, Linked, sp) /\ (pc = "attach" => Attached(sp))
<1>1. /\ used \subseteq Nodes /\ heap \in Heap /\ current \in used \cup {NIL}
      /\ TreeOf(heap, used \ {current}, root)
      /\ \A m \in used \ {current} : Whole(heap, m)
      /\ call.items \in Seq(Entry) /\ pos \in Nat /\ pos <= Len(call.items)
  BY LoadFacts DEF OInv
<1>2. Held = Keys(heap)
  BY HeldKeys
<1> QED  BY <1>1, <1>2, Zenon DEF OInv, Rises, Sorted, SortedBy, HeapSpans, Whole, Linked

\* The linked nodes keep their links and IDs, and no descent begins.
LEMMA LoadingNext ==
    ASSUME pc' \in {"load", "rebalance"}, NEW g, g = heap', NEW S, S = Linked', \E sp : HeapSpans(g, S, sp)
    PROVE  Sorted'
BY Rested DEF HeapSpans

\* The spans depend on the links and the IDs of the linked nodes only.
LEMMA SpansKept ==
    ASSUME NEW g, NEW h, SameLinks(g, h), NEW S, S \subseteq Nodes, \A m \in S : g[m].ids = h[m].ids,
           NEW span, HeapSpans(h, S, span)
    PROVE  HeapSpans(g, S, span)
<1>1. \A m \in S : Keys(g)[m] = Keys(h)[m]
  BY DEF Keys
<1>2. Lefts(g) = Lefts(h) /\ Rights(g) = Rights(h)
  BY DEF SameLinks
<1> QED  BY <1>1, <1>2 DEF HeapSpans, Spans

\* The first item of a bulk node keeps the order invariant.
LEMMA BulkFirstSorted == ASSUME OInv, BulkFirst PROVE Sorted' /\ Rises'
<1>1. /\ pc = "load" /\ pc' = "load" /\ pos < Len(call.items)
      /\ current = NIL /\ CanAllocate /\ current' = Fresh /\ used' = used \cup {Fresh}
      /\ heap' = Started(heap, Fresh, call.items[pos + 1])
  BY DEF BulkFirst, Started, Cleared
<1>2. /\ used \subseteq Nodes /\ heap \in Heap /\ TreeOf(heap, used, root) /\ Linked = used
      /\ \A m \in used : Ascends(heap[m].ids)
      /\ call.items \in Seq(Entry) /\ pos \in Nat /\ Len(call.items) \in Nat
  BY <1>1, LoadingSpans, LinkedAll, LenProperties
<1>3. PICK span : HeapSpans(heap, used, span)
  BY <1>1, <1>2, LoadingSpans
<1>4. call.items[pos + 1] \in Entry
  BY <1>1, <1>2, ElementOfSeq
<1>5. PICK f \in Nodes \ used : f = Fresh
  BY <1>1, <1>2, FreshNew
<1>6. PICK e \in Entry : e = call.items[pos + 1]
  BY <1>4
<1>7. PICK h \in Heap : h = heap
  BY <1>2
<1>8. h[f].left = NIL /\ h[f].right = NIL
  BY <1>2, <1>5, <1>7, Outside
<1>9. PICK g : g = Started(h, f, e)
  OBVIOUS
<1>10. SameLinks(g, h) /\ \A m \in Nodes : m # f => g[m] = h[m]
  BY <1>5, <1>8, <1>9, StartedKeeps
<1>11. g[f].ids = <<e.id>>
  BY <1>5, <1>8, <1>9, StartedItems
<1>12. g = heap' /\ current' = f /\ used' = used \cup {f}
  BY <1>1, <1>5, <1>6, <1>7, <1>9
<1>13. PICK S : S = used
  OBVIOUS
<1>14. Linked' = S
  BY <1>5, <1>12, <1>13 DEF Linked
<1>15. \E sp : HeapSpans(g, S, sp)
  <2>1. \A m \in S : g[m].ids = h[m].ids
    BY <1>2, <1>5, <1>10, <1>13
  <2>2. HeapSpans(h, S, span) /\ S \subseteq Nodes
    BY <1>2, <1>3, <1>7, <1>13
  <2> QED  BY <1>10, <2>1, <2>2, SpansKept
<1>16. Sorted'
  BY <1>1, <1>12, <1>14, <1>15, LoadingNext
<1>17. Ascends(<<e.id>>)
  <2>1. e.id \in ID
    BY DEF Entry
  <2> QED  BY <2>1, OneAscends
<1>18. \A m \in used' : Ascends(heap'[m].ids)
  <2>1. \A m \in used : g[m] = h[m]
    BY <1>2, <1>5, <1>10
  <2>2. \A m \in used : Ascends(g[m].ids)
    BY <1>2, <1>7, <2>1
  <2>3. Ascends(g[f].ids)
    BY <1>11, <1>17
  <2> QED  BY <1>12, <2>2, <2>3
<1> QED  BY <1>16, <1>18 DEF Rises

\* Appending to the bulk node keeps the order invariant.
LEMMA BulkAppendSorted == ASSUME OInv, Asserted, BulkAppend PROVE Sorted' /\ Rises'
<1>1. /\ pc = "load" /\ pc' = "load" /\ pos < Len(call.items)
      /\ current # NIL /\ ~CurrentDone /\ UNCHANGED <<used, current, root>>
      /\ heap' = [heap EXCEPT ![current].ids = Append(@, call.items[pos + 1].id),
                              ![current].data = Append(@, call.items[pos + 1].rec)]
  BY DEF BulkAppend
<1>2. /\ used \subseteq Nodes /\ heap \in Heap /\ TreeOf(heap, Linked, root) /\ current \in used /\ current \in Nodes
      /\ \A m \in used : Ascends(heap[m].ids)
      /\ call.items \in Seq(Entry) /\ pos \in Nat /\ Len(call.items) \in Nat /\ Linked \subseteq used
  BY <1>1, LoadingSpans, LenProperties
<1>3. PICK span : HeapSpans(heap, Linked, span)
  BY <1>1, LoadingSpans
<1>4. call.items[pos + 1] \in Entry
  BY <1>1, <1>2, ElementOfSeq
<1>5. PICK e \in Entry : e = call.items[pos + 1]
  BY <1>4
<1>6. PICK h \in Heap : h = heap
  BY <1>2
<1>7. PICK c \in Nodes : c = current
  BY <1>2
<1>8. PICK x \in ID, s \in Seq(ID) : x = e.id /\ s = h[c].ids
  <2>1. e.id \in ID /\ h[c].ids \in Seq(ID)
    BY HeapNode DEF Entry
  <2> QED  BY <2>1
<1>9. Len(s) > 0 /\ Last(s) < x /\ Ascends(s)
  BY <1>1, <1>2, <1>5, <1>6, <1>7, <1>8 DEF Asserted, LoadAsserts, Length
<1>10. s[Len(s)] < x
  BY <1>9 DEF Last
<1>11. Ascends(Append(s, x))
  BY <1>9, <1>10, AppendAscends
<1>12. PICK g : g = heap'
  OBVIOUS
<1>13. g = [h EXCEPT ![c].ids = Append(@, e.id), ![c].data = Append(@, e.rec)]
  BY <1>1, <1>5, <1>6, <1>7, <1>12
<1>14. h[c] \in TNode /\ h \in [Nodes -> TNode]
  BY HeapNode DEF Heap
<1>15. /\ \A m \in Nodes : m # c => g[m] = h[m]
       /\ g[c].ids = Append(h[c].ids, e.id) /\ g[c].left = h[c].left /\ g[c].right = h[c].right
  BY <1>13, <1>14 DEF TNode
<1>16. \A m \in Nodes : g[m].left = h[m].left /\ g[m].right = h[m].right
  BY <1>15
<1>17. SameLinks(g, h)
  BY <1>16, LinksEqual
<1>18. PICK S : S = Linked
  OBVIOUS
<1>19. S = Linked' /\ c \notin S /\ S \subseteq Nodes
  BY <1>1, <1>2, <1>7, <1>18 DEF Linked
<1>20. HeapSpans(g, S, span)
  <2>1. \A m \in S : g[m].ids = h[m].ids
    BY <1>15, <1>19
  <2>2. HeapSpans(h, S, span)
    BY <1>3, <1>6, <1>18
  <2> QED  BY <1>17, <1>19, <2>1, <2>2, SpansKept
<1>21. Sorted'
  BY <1>1, <1>12, <1>19, <1>20, LoadingNext, Zenon
<1>22. \A m \in used' : Ascends(heap'[m].ids)
  BY <1>1, <1>2, <1>6, <1>7, <1>8, <1>11, <1>12, <1>15
<1> QED  BY <1>21, <1>22 DEF Rises

\* The first finished bulk node becomes the root: the order invariant is kept.
LEMMA FinishRootSorted == ASSUME OInv, Asserted, FinishRoot PROVE Sorted' /\ Rises'
<1>1. /\ pc = "load" /\ pc' = "load" /\ heap' = Finished /\ current # NIL /\ root = NIL
      /\ current' = NIL /\ used' = used
  BY DEF FinishRoot, CurrentDone
<1>2. /\ used \subseteq Nodes /\ heap \in Heap /\ TreeOf(heap, Linked, root) /\ current \in used /\ current \in Nodes
      /\ \A m \in used : Ascends(heap[m].ids)
  BY <1>1, LoadingSpans
<1>3. heap[current].ids # <<>>
  BY <1>1 DEF Asserted, LoadAsserts, Length
<1>4. /\ SameLinks(Finished, heap) /\ \A m \in Nodes : m # current => Finished[m] = heap[m]
  BY <1>2, <1>3, FinishedKeeps
<1>5. Finished[current].ids = heap[current].ids
  <2>1. heap \in [Nodes -> TNode]
    BY <1>2 DEF Heap
  <2> QED  BY <1>2, <2>1 DEF Finished, TNode
<1>6. used = {current}
  <2>1. used \ {current} = {}
    BY <1>1, <1>2, Children, NILAssumption DEF Linked
  <2> QED  BY <1>2, <2>1
<1>7. PICK c \in Nodes : c = current
  BY <1>2
<1>8. heap[c].left = NIL /\ heap[c].right = NIL
  BY <1>2, <1>7, Outside DEF Linked
<1>9. PICK g, S : g = heap' /\ S = {c}
  BY Zenon
<1>10. S = Linked'
  BY <1>1, <1>6, <1>7, <1>9, NILAssumption DEF Linked
<1>11. g[c].left = NIL /\ g[c].right = NIL /\ Lefts(g)[c] = NIL /\ Rights(g)[c] = NIL
  <2>1. SameLinks(g, heap)
    BY <1>1, <1>4, <1>9
  <2> QED  BY <1>2, <1>8, <2>1, HeapLinks, LinksSame DEF SameLinks
<1>12. Keys(g)[c] \subseteq ID
  <2>1. g[c].ids = heap[c].ids
    BY <1>1, <1>5, <1>7, <1>9
  <2>2. Keys(g)[c] = Keys(heap)[c]
    BY <2>1 DEF Keys
  <2> QED  BY <1>2, <2>2, KeysOf
<1>13. \E sp : HeapSpans(g, S, sp)
  <2>1. PICK L, R, K : L = Lefts(g) /\ R = Rights(g) /\ K = Keys(g)
    OBVIOUS
  <2>2. \E sp : Spans(L, R, K, {c}, sp)
    BY <1>11, <1>12, <2>1, OneSpan, Zenon
  <2> QED  BY <1>9, <2>1, <2>2 DEF HeapSpans
<1>14. Sorted'
  BY <1>1, <1>9, <1>10, <1>13, LoadingNext
<1>15. \A m \in used' : Ascends(heap'[m].ids)
  BY <1>1, <1>2, <1>5, <1>6
<1> QED  BY <1>14, <1>15 DEF Rises

\* A descent to the last node of a load: Q are the nodes it has left behind or is at.
LEMMA AttachNext ==
    ASSUME pc' = "attach", NEW g, g = heap', NEW S, S = Linked', NEW span, HeapSpans(g, S, span),
           NEW Q, trace' = <<>> => Q = {} /\ node' = root',
           trace' # <<>> => Spine(Rights(g), Keys(g), S, span, Q, Last(trace')) /\ root' \in Q,
           \A m \in S : g[m].left \notin Q /\ (g[m].right \in Q => m \in Q)
    PROVE  Sorted'
<1>1. Held' = Keys(g)
  BY DEF Held, Keys
<1>2. Attached(span)'
  BY <1>1, Zenon DEF Attached
<1>3. SortedBy(span)'
  BY <1>1, <1>2 DEF SortedBy, HeapSpans
<1> QED  BY <1>3 DEF Sorted

\* Starting to attach a finished bulk node keeps the order invariant.
LEMMA FinishNodeSorted == ASSUME OInv, Asserted, FinishNode PROVE Sorted' /\ Rises'
<1>1. /\ pc = "load" /\ pc' = "attach" /\ heap' = Finished /\ current # NIL /\ node' = root
      /\ UNCHANGED <<current, used, root, trace>>
  BY DEF FinishNode, CurrentDone, Goto
<1>2. /\ used \subseteq Nodes /\ heap \in Heap /\ Linked \subseteq used /\ current \in used /\ current \in Nodes
      /\ \A m \in used : Ascends(heap[m].ids)
  BY <1>1, LoadingSpans
<1>3. heap[current].ids # <<>>
  BY <1>1 DEF Asserted, LoadAsserts, Length
<1>4. /\ SameLinks(Finished, heap) /\ \A m \in Nodes : m # current => Finished[m] = heap[m]
  BY <1>2, <1>3, FinishedKeeps
<1>5. Finished[current].ids = heap[current].ids
  <2>1. heap \in [Nodes -> TNode]
    BY <1>2 DEF Heap
  <2> QED  BY <1>2, <2>1 DEF Finished, TNode
<1>6. PICK h, g, S : h = heap /\ g = heap' /\ S = Linked
  OBVIOUS
<1>7. \A m \in Nodes : g[m].ids = h[m].ids
  BY <1>1, <1>4, <1>5, <1>6
<1>8. PICK span : HeapSpans(h, S, span)
  BY <1>1, <1>6, LoadingSpans
<1>9. HeapSpans(g, S, span)
  <2>1. SameLinks(g, h)
    BY <1>1, <1>4, <1>6
  <2> QED  BY <1>7, <1>8, <2>1, SameSpans
<1>10. trace' = <<>> /\ S = Linked' /\ node' = root'
  BY <1>1, <1>6 DEF OInv, SInv, Structure, Cursors, Linked
<1>11. Sorted'
  <2>1. PICK Q : Q = {}
    BY Zenon
  <2>2. \A m \in S : g[m].left \notin Q /\ (g[m].right \in Q => m \in Q)
    BY <2>1
  <2> QED  BY <1>1, <1>6, <1>9, <1>10, <2>1, <2>2, AttachNext, Zenon
<1>12. \A m \in used' : Ascends(heap'[m].ids)
  BY <1>1, <1>2, <1>6, <1>7
<1> QED  BY <1>11, <1>12 DEF Rises

\* A step down the right spine keeps the order invariant.
LEMMA AttachDescendSorted == ASSUME OInv, AttachDescend PROVE Sorted' /\ Rises'
<1>1. /\ pc = "attach" /\ pc' = "attach" /\ UNCHANGED <<root, heap, used, current>> /\ node # NIL
      /\ trace' = Append(trace, node) /\ node' = heap[node].right
  BY DEF AttachDescend, memory
<1>2. /\ used \subseteq Nodes /\ heap \in Heap /\ TreeOf(heap, Linked, root)
      /\ \A m \in used : Ascends(heap[m].ids)
  BY <1>1, LoadingSpans
<1>3. PICK h \in Heap : h = heap
  BY <1>2
<1>4. PICK S, r : S = Linked /\ r = root
  OBVIOUS
<1>5. PICK span : HeapSpans(h, S, span) /\ Attached(span)
  BY <1>1, <1>3, <1>4, LoadingSpans
<1>6. PICK K : K = Keys(h)
  OBVIOUS
<1>7. Held = K
  BY <1>1, <1>3, <1>6, HeldKeys
<1>8. PICK L \in Links, R \in Links : L = Lefts(h) /\ R = Rights(h) /\ \A m \in Nodes : L[m] = h[m].left /\ R[m] = h[m].right
  BY HeapLinks
<1>9. PICK Q : /\ trace = <<>> => Q = {} /\ node = r
               /\ trace # <<>> => Spine(R, K, S, span, Q, Last(trace)) /\ r \in Q
               /\ \A m \in S : h[m].left \notin Q /\ (h[m].right \in Q => m \in Q)
  BY <1>3, <1>4, <1>5, <1>7, <1>8, Zenon DEF Attached
<1>10. node \in S /\ node \in Nodes /\ (trace # <<>> => node = h[Last(trace)].right)
  BY <1>1, <1>2, <1>3, <1>4 DEF OInv, SInv, Structure, Cursors, Linked
<1>11. PICK n \in Nodes : n = node
  BY <1>10
<1>12. trace' # <<>> /\ Last(trace') = n
  BY <1>1, <1>10, <1>11, LastAppend DEF OInv, SInv, IInv, TypeOK
<1>13. TreeOf(h, S, r) /\ IsTree(L, R, S, r) /\ S \subseteq Nodes
  BY <1>2, <1>3, <1>4, <1>8, Children DEF TreeOf
<1>14. PICK P : P = Q \cup {n}
  BY Zenon
<1>15. /\ Spine(R, K, S, span, P, n) /\ r \in P
       /\ \A m \in S : h[m].left \notin P /\ (h[m].right \in P => m \in P)
  <2>1. CASE trace = <<>>
    <3>1. Q = {} /\ n = r
      BY <1>9, <1>11, <2>1
    <3>2. Spine(R, K, S, span, P, n)
      BY <1>10, <1>11, <1>14, <3>1 DEF Spine
    <3>3. \A m \in S : h[m].left # n /\ h[m].right # n
      BY <1>11, <1>13, <3>1, Children, NILAssumption
    <3> QED  BY <1>14, <3>1, <3>2, <3>3
  <2>2. CASE trace # <<>>
    <3>1. PICK t : t = Last(trace)
      OBVIOUS
    <3>2. Spine(R, K, S, span, Q, t) /\ r \in Q /\ t \in Q /\ t \in Nodes /\ t \in S
      BY <1>9, <1>13, <2>2, <3>1 DEF Spine
    <3>3. R[t] = n /\ n \in S /\ n # NIL
      BY <1>8, <1>10, <1>11, <2>2, <3>1, <3>2, NILAssumption
    <3>4. Spans(L, R, K, S, span)
      BY <1>5, <1>6, <1>8 DEF HeapSpans
    <3>5. Spine(R, K, S, span, Q \cup {R[t]}, R[t])
      BY <3>2, <3>3, <3>4, SpineDown
    <3>6. Spine(R, K, S, span, P, n)
      BY <1>14, <3>3, <3>5
    <3>7. /\ \A m \in Nodes \ {t} : n \notin {L[m], R[m]}
          /\ L[t] # R[t]
      BY <1>11, <1>13, <3>2, <3>3, Kinship
    <3>8. \A m \in S : h[m].left # n /\ (h[m].right = n => m = t)
      BY <1>8, <1>13, <3>3, <3>7
    <3> QED  BY <1>9, <1>14, <3>2, <3>6, <3>8
  <2> QED  BY <2>1, <2>2
<1>16. S = Linked' /\ h = heap' /\ r = root'
  BY <1>1, <1>3, <1>4 DEF Linked
<1>17. Sorted'
  <2>1. Spine(Rights(h), Keys(h), S, span, P, Last(trace')) /\ root' \in P
    BY <1>6, <1>8, <1>12, <1>15, <1>16
  <2> QED  BY <1>1, <1>5, <1>12, <1>15, <1>16, <2>1, AttachNext
<1> QED  BY <1>1, <1>2, <1>17 DEF Rises

\* Hanging the bulk node at the end of the right spine keeps the order invariant.
LEMMA AttachSorted == ASSUME OInv, Asserted, Attach PROVE Sorted' /\ Rises'
<1>1. /\ pc = "attach" /\ pc' = "rebalance" /\ UNCHANGED <<root, used>> /\ node = NIL
      /\ heap' = [heap EXCEPT ![Last(trace)].right = current] /\ current' = NIL
  BY DEF Attach, Goto
<1>2. /\ used \subseteq Nodes /\ heap \in Heap /\ TreeOf(heap, Linked, root) /\ Linked \subseteq used
      /\ \A m \in used : Ascends(heap[m].ids)
      /\ \A m \in Linked : Whole(heap, m) /\ heap[m].ids # <<>>
  BY <1>1, LoadingSpans
<1>3. trace # <<>> /\ current \in used /\ current \in Nodes /\ current # NIL
  <2>1. trace # <<>> /\ current # NIL
    BY <1>1, NILAssumption DEF OInv, SInv, IInv, Control
  <2> QED  BY <1>1, <1>2, <2>1, LoadingSpans
<1>4. Whole(heap, current)
  BY <1>1, <1>3 DEF OInv, SInv, Structure, Filled, Emptied
<1>5. PICK h \in Heap : h = heap
  BY <1>2
<1>6. PICK S, r : S = Linked /\ r = root
  OBVIOUS
<1>7. PICK span : HeapSpans(h, S, span) /\ Attached(span)
  BY <1>1, <1>5, <1>6, LoadingSpans
<1>8. PICK K : K = Keys(h)
  OBVIOUS
<1>9. Held = K
  BY <1>1, <1>5, <1>8, HeldKeys
<1>10. PICK L \in Links, R \in Links : L = Lefts(h) /\ R = Rights(h) /\ \A m \in Nodes : L[m] = h[m].left /\ R[m] = h[m].right
  BY HeapLinks
<1>11. PICK t, Q : t = Last(trace) /\ Spine(R, K, S, span, Q, t) /\ \A m \in S : h[m].left \notin Q /\ (h[m].right \in Q => m \in Q)
  BY <1>3, <1>5, <1>6, <1>7, <1>9, <1>10 DEF Attached
<1>12. t \in S /\ t \in Nodes /\ h[t].right = NIL /\ S \subseteq Nodes
  BY <1>1, <1>2, <1>3, <1>5, <1>6, <1>11 DEF OInv, SInv, Structure, Cursors, Linked
<1>13. PICK f \in Nodes \ S : f = current
  BY <1>3, <1>6 DEF Linked
<1>14. h[f].left = NIL /\ h[f].right = NIL
  BY <1>2, <1>5, <1>6, Outside
<1>15. PICK g : g = [h EXCEPT ![t].right = f]
  BY Zenon
<1>16. g \in Heap /\ Rights(g) = [R EXCEPT ![t] = f] /\ Lefts(g) = L /\ SameItems(g, h)
  <2>1. f \in Ptr
    BY DEF Ptr
  <2> QED  BY <1>10, <1>12, <1>15, <2>1, SetRightLinks
<1>17. g = heap' /\ used' = S \cup {f} /\ current' = NIL /\ used' \subseteq Nodes
  BY <1>1, <1>2, <1>3, <1>5, <1>6, <1>11, <1>13, <1>15 DEF Linked
<1>18. Below(K[t], K[f])
  <2>1. h[t].last_id < FirstID(h, f)
    BY <1>1, <1>5, <1>11, <1>13 DEF Asserted, LoadAsserts
  <2>2. PICK s \in Seq(ID), z \in Seq(ID) : s = h[t].ids /\ z = h[f].ids
    BY <1>12, HeapNode
  <2>3. /\ s # <<>> /\ z # <<>> /\ h[t].last_id = s[Len(s)] /\ FirstID(h, f) = z[1]
        /\ Ascends(s) /\ Ascends(z)
    BY <1>2, <1>3, <1>4, <1>5, <1>6, <1>12, <1>13, <2>2 DEF Whole, FirstID, Last
  <2>4. Len(s) \in Nat /\ Len(s) > 0 /\ Len(z) \in Nat /\ Len(z) > 0
    BY <2>3, NotEmpty, LenProperties
  <2>5. K[t] = {s[i] : i \in 1 .. Len(s)} /\ K[f] = {z[i] : i \in 1 .. Len(z)}
    <3>1. Keys(h)[t] = {h[t].ids[i] : i \in 1 .. Len(h[t].ids)}
      BY <1>12, KeysOf
    <3>2. Keys(h)[f] = {h[f].ids[i] : i \in 1 .. Len(h[f].ids)}
      BY KeysOf
    <3> QED  BY <1>8, <2>2, <3>1, <3>2, Zenon
  <2>6. ASSUME NEW i \in 1 .. Len(s), NEW j \in 1 .. Len(z) PROVE s[i] < z[j]
    <3>1. i = Len(s) \/ s[i] < s[Len(s)]
      BY <2>3, <2>4 DEF Ascends
    <3>2. j = 1 \/ z[1] < z[j]
      BY <2>3, <2>4 DEF Ascends
    <3>3. s[i] \in Nat /\ s[Len(s)] \in Nat /\ z[1] \in Nat /\ z[j] \in Nat
      <4>1. \A x \in ID : x \in Nat
        BY IDAssumption
      <4>2. \A x \in 1 .. Len(s) : s[x] \in ID
        BY ElementOfSeq
      <4>3. \A x \in 1 .. Len(z) : z[x] \in ID
        BY ElementOfSeq
      <4> QED  BY <2>4, <4>1, <4>2, <4>3
    <3>4. s[Len(s)] < z[1]
      BY <2>1, <2>3
    <3> QED  BY <3>1, <3>2, <3>3, <3>4
  <2> QED  BY <2>5, <2>6 DEF Below
<1>19. \E sp : HeapSpans(g, S \cup {f}, sp)
  <2>1. PICK R2 : R2 = [R EXCEPT ![t] = f]
    BY Zenon
  <2>2. R2[t] = f /\ \A m \in Nodes : m # t => R2[m] = R[m]
    BY <1>12, <2>1 DEF Links
  <2>3. Spans(L, R, K, S, span)
    BY <1>7, <1>8, <1>10 DEF HeapSpans
  <2>4. R[t] = NIL /\ L[f] = NIL /\ R[f] = NIL
    BY <1>10, <1>12, <1>14
  <2>5. \A m \in S : L[m] \notin Q /\ f \notin {L[m], R[m]} /\ (R[m] \in Q => m \in Q)
    <3>1. \A m \in S : f \notin {h[m].left, h[m].right}
      BY <1>2, <1>5, <1>6, <1>12, <1>13, Children, NILAssumption
    <3> QED  BY <1>10, <1>11, <1>12, <3>1
  <2>6. K[t] # {} /\ K[f] \in SUBSET ID
    BY <1>2, <1>5, <1>6, <1>8, <1>12, KeysOf
  <2>7. \E sp : Spans(L, R2, K, S \cup {f}, sp)
    BY <1>11, <1>12, <1>18, <2>2, <2>3, <2>4, <2>5, <2>6, SpansAttach
  <2>8. Keys(g) = K
    BY <1>8, <1>16, SameItemsKeys
  <2> QED  BY <1>16, <2>1, <2>7, <2>8 DEF HeapSpans
<1>20. Sorted'
  <2>1. \E sp : HeapSpans(g, used', sp)
    BY <1>17, <1>19
  <2> QED  BY <1>1, <1>17, <2>1, Resting, Zenon
<1>21. \A m \in used' : Ascends(heap'[m].ids)
  BY <1>1, <1>2, <1>5, <1>16, <1>17 DEF SameItems
<1> QED  BY <1>20, <1>21 DEF Rises

-----------------------------------------------------------------------------
\* The two conditions the order rests on: lengths fit their byte, and refills take their items from the ends.
OrderKept == NodeSize <= 255 /\ (Asserted => StealsAtEnds)

\* A stuttering step keeps the order invariant.
LEMMA StutterSorted == ASSUME OInv, UNCHANGED vars PROVE Sorted' /\ Rises'
<1>1. Held' = Held /\ Linked' = Linked
  BY DEF Held, Keys, Linked, vars, memory, locals
<1>2. PICK span : SortedBy(span)
  BY DEF OInv, Sorted
<1>3. SortedBy(span)'
  BY <1>1, <1>2, Zenon DEF SortedBy, vars, memory, locals, Sought, Found, Placed, Stolen, Attached, Exists, Length, Key
<1> QED  BY <1>3 DEF OInv, Rises, Sorted, vars, memory

\* Every step keeps the order invariant.
LEMMA NextSorted == ASSUME OInv, OrderKept, [Next]_vars PROVE OInv'
<1>1. SInv'
  BY NextStructure DEF OInv
<1>2. CASE UNCHANGED vars
  BY <1>1, <1>2, StutterSorted DEF OInv
<1>3. CASE Call
  BY <1>1, <1>3, CallSorted DEF OInv
<1>4. CASE Run
  <2>1. Asserted
    BY <1>4 DEF Run
  <2>2. CASE SearchSteps \/ Return
    BY <1>1, <2>1, <2>2, SearchSorted DEF OInv
  <2>3. CASE InsertSteps
    BY <1>1, <2>1, <2>3, InsertSorted DEF OInv
  <2>4. CASE RemoveSteps
    BY <1>1, <2>1, <2>4, RemoveStillSorted, RemoveFromInternalSorted, RemoveFromOtherSorted,
       StealDescendSorted, StealSorted, FixEmptyLeafSorted, FixMergeSorted DEF OInv, RemoveSteps
  <2>5. CASE RebalanceSteps
    BY <1>1, <2>1, <2>5, RebalanceUpSorted, RebalanceRotateSorted, RebalanceEndSorted
       DEF OInv, RebalanceSteps, OrderKept
  <2>6. CASE LoadSteps
    BY <1>1, <2>1, <2>6, LoadStillSorted, BulkFirstSorted, BulkAppendSorted, FinishRootSorted,
       FinishNodeSorted, AttachDescendSorted, AttachSorted DEF OInv, LoadSteps
  <2>7. CASE IterateSteps
    BY <1>1, <2>7, IterateSorted DEF OInv
  <2>8. CASE Destroy
    BY <1>1, <2>8, DestroySorted DEF OInv
  <2> QED  BY <1>4, <2>2, <2>3, <2>4, <2>5, <2>6, <2>7, <2>8 DEF Run
<1> QED  BY <1>2, <1>3, <1>4 DEF Next

-----------------------------------------------------------------------------
(* The in-order traversal of a tree whose keys are divided ascends.         *)

\* f[i] is the concatenation of the first i sequences of q.
Flattens(f, q) == f = [i \in 1 .. Len(q) |-> IF i = 1 THEN q[i] ELSE f[i - 1] \o q[i]]

\* FlattenSeq chooses a function that Flattens tells.
LEMMA FlattenDef ==
    ASSUME NEW q, Len(q) # 0
    PROVE  FlattenSeq(q) = (CHOOSE f : Flattens(f, q))[Len(q)]
BY DEF FlattenSeq, Flattens

\* f flattens the first k of q.
Flat(f, q, k) ==
    /\ f = [i \in 1 .. Len(q) |-> f[i]]
    /\ \A i \in 1 .. Len(q) : i <= k => f[i] = IF i = 1 THEN q[i] ELSE f[i - 1] \o q[i]

\* Such functions exist up to every length.
LEMMA FlatExists ==
    ASSUME NEW q, Len(q) \in Nat
    PROVE  \A k \in Nat : \E f : Flat(f, q, k)
<1> DEFINE Bad == {k \in Nat : ~\E f : Flat(f, q, k)}
<1> SUFFICES ASSUME Bad # {} PROVE FALSE
  BY Zenon
<1>1. PICK k \in Bad : \A y \in Bad : k <= y
  <2>1. Bad \subseteq Nat
    OBVIOUS
  <2> HIDE DEF Bad
  <2> QED  BY <2>1, LeastNumber, Zenon
<1>2. k \in Nat /\ ~\E f : Flat(f, q, k)
  OBVIOUS
<1>3. k > 0
  <2> DEFINE e == [i \in 1 .. Len(q) |-> <<>>]
  <2>1. e = [i \in 1 .. Len(q) |-> e[i]]
    OBVIOUS
  <2> HIDE DEF e
  <2>2. \A i \in 1 .. Len(q) : ~(i <= 0)
    OBVIOUS
  <2>3. Flat(e, q, 0)
    BY <2>1, <2>2, Zenon DEF Flat
  <2> QED  BY <1>2, <2>3
<1>4. k - 1 \in Nat /\ k - 1 \notin Bad
  BY <1>1, <1>2, <1>3
<1>5. PICK f : Flat(f, q, k - 1)
  BY <1>4
<1> HIDE DEF Bad
<1> DEFINE g == [i \in 1 .. Len(q) |-> IF i = k THEN IF i = 1 THEN q[i] ELSE f[i - 1] \o q[i] ELSE f[i]]
<1>6. \A i \in 1 .. Len(q) : i # k => g[i] = f[i]
  OBVIOUS
<1>7. k \in 1 .. Len(q) => g[k] = IF k = 1 THEN q[k] ELSE f[k - 1] \o q[k]
  OBVIOUS
<1>8. g = [i \in 1 .. Len(q) |-> g[i]]
  OBVIOUS
<1> HIDE DEF g
<1>9. ASSUME NEW i \in 1 .. Len(q), i <= k PROVE g[i] = IF i = 1 THEN q[i] ELSE g[i - 1] \o q[i]
  <2>1. i # 1 => i - 1 \in 1 .. Len(q) /\ i - 1 # k
    BY <1>2, <1>9
  <2>2. i # 1 => g[i - 1] = f[i - 1]
    BY <1>6, <2>1
  <2>3. CASE i = k
    BY <1>7, <2>2, <2>3
  <2>4. CASE i # k
    <3>1. i <= k - 1
      BY <1>2, <1>9, <2>4
    <3>2. f[i] = IF i = 1 THEN q[i] ELSE f[i - 1] \o q[i]
      BY <1>5, <3>1, Zenon DEF Flat
    <3> QED  BY <1>6, <2>2, <2>4, <3>2
  <2> QED  BY <2>3, <2>4
<1>10. Flat(g, q, k)
  BY <1>8, <1>9, Zenon DEF Flat
<1> QED  BY <1>2, <1>10

\* Sequences that ascend, each below those after it, make one that ascends.
LEMMA FlattenAscends ==
    ASSUME NEW q \in Seq(Seq(ID)), \A i \in 1 .. Len(q) : Ascends(q[i]),
           \A i, j \in 1 .. Len(q) : i < j => Below(ToSet(q[i]), ToSet(q[j]))
    PROVE  FlattenSeq(q) \in Seq(ID) /\ Ascends(FlattenSeq(q))
<1>1. Len(q) \in Nat /\ \A i \in 1 .. Len(q) : q[i] \in Seq(ID)
  BY ElementOfSeq, LenProperties
<1>2. CASE Len(q) = 0
  <2>1. FlattenSeq(q) = q
    BY <1>2 DEF FlattenSeq
  <2>2. q \in Seq(ID) /\ Ascends(q)
    BY <1>2 DEF Ascends
  <2> QED  BY <2>1, <2>2
<1>3. CASE Len(q) # 0
  <2>1. PICK f0 : Flat(f0, q, Len(q))
    BY <1>1, FlatExists
  <2>2. Flattens(f0, q)
    <3>1. \A i \in 1 .. Len(q) : f0[i] = IF i = 1 THEN q[i] ELSE f0[i - 1] \o q[i]
      <4> SUFFICES ASSUME NEW i \in 1 .. Len(q) PROVE f0[i] = IF i = 1 THEN q[i] ELSE f0[i - 1] \o q[i]
        OBVIOUS
      <4>1. i <= Len(q)
        BY <1>1
      <4> QED  BY <2>1, <4>1, Zenon DEF Flat
    <3>2. f0 = [i \in 1 .. Len(q) |-> f0[i]]
      BY <2>1, Zenon DEF Flat
    <3>3. [i \in 1 .. Len(q) |-> f0[i]]
          = [i \in 1 .. Len(q) |-> IF i = 1 THEN q[i] ELSE f0[i - 1] \o q[i]]
      BY <3>1
    <3> QED  BY <3>2, <3>3, Zenon DEF Flattens
  <2>3. PICK f : f = CHOOSE x : Flattens(x, q)
    OBVIOUS
  <2>4. Flattens(f, q)
    BY <2>2, <2>3
  <2>5. \A i \in 1 .. Len(q) : f[i] = IF i = 1 THEN q[i] ELSE f[i - 1] \o q[i]
    BY <2>4, Zenon DEF Flattens
  <2> DEFINE Good(i) == /\ f[i] \in Seq(ID) /\ Ascends(f[i])
                        /\ \A x \in ToSet(f[i]) : \E j \in 1 .. i : x \in ToSet(q[j])
             Bad == {i \in 1 .. Len(q) : ~Good(i)}
  <2>6. Bad = {}
    <3> SUFFICES ASSUME Bad # {} PROVE FALSE
      BY Zenon
    <3>1. PICK i \in Bad : \A y \in Bad : i <= y
      <4>1. Bad \subseteq Nat
        BY <1>1
      <4> HIDE DEF Bad
      <4> QED  BY <4>1, LeastNumber, Zenon
    <3>2. i \in 1 .. Len(q) /\ ~Good(i)
      OBVIOUS
    <3>3. CASE i = 1
      <4>1. f[1] = q[1] /\ 1 \in 1 .. Len(q)
        BY <2>5, <3>2, <3>3
      <4>2. Good(1)
        BY <1>1, <4>1
      <4> QED  BY <3>2, <3>3, <4>2
    <3>4. CASE i # 1
      <4>0. i - 1 \in 1 .. Len(q) /\ i \in Nat
        BY <1>1, <3>2, <3>4
      <4>1. i - 1 \in 1 .. Len(q) /\ i - 1 \notin Bad /\ i \in Nat
        <5> HIDE DEF Bad
        <5>1. i - 1 \in Bad => i <= i - 1
          BY <3>1
        <5> QED  BY <4>0, <5>1
      <4>2. f[i - 1] \in Seq(ID) /\ Ascends(f[i - 1])
            /\ \A x \in ToSet(f[i - 1]) : \E j \in 1 .. i - 1 : x \in ToSet(q[j])
        BY <4>1
      <4> HIDE DEF Bad
      <4>3. Below(ToSet(f[i - 1]), ToSet(q[i]))
        <5> SUFFICES ASSUME NEW x \in ToSet(f[i - 1]), NEW y \in ToSet(q[i]) PROVE x < y
          BY DEF Below
        <5>1. PICK j \in 1 .. i - 1 : x \in ToSet(q[j])
          BY <4>2
        <5>2. j \in 1 .. Len(q) /\ j < i
          BY <1>1, <3>2, <4>1
        <5>3. Below(ToSet(q[j]), ToSet(q[i]))
          BY <3>2, <5>2
        <5> QED  BY <5>1, <5>3 DEF Below
      <4>4. PICK s, t, u : s = f[i - 1] /\ t = q[i] /\ u = f[i]
        OBVIOUS
      <4>5. s \in Seq(ID) /\ Ascends(s) /\ t \in Seq(ID) /\ Ascends(t) /\ Below(ToSet(s), ToSet(t)) /\ u = s \o t
        BY <1>1, <2>5, <3>2, <3>4, <4>2, <4>3, <4>4, Zenon
      <4>6. u \in Seq(ID) /\ Ascends(u) /\ ToSet(u) = ToSet(s) \cup ToSet(t)
        BY <4>5, ConcatAscends, Zenon
      <4>7. ASSUME NEW x \in ToSet(f[i]) PROVE \E j \in 1 .. i : x \in ToSet(q[j])
        <5>1. CASE x \in ToSet(f[i - 1])
          <6>1. PICK j \in 1 .. i - 1 : x \in ToSet(q[j])
            BY <4>2, <5>1
          <6>2. j \in 1 .. i
            BY <4>1
          <6> QED  BY <6>1, <6>2
        <5>2. CASE x \in ToSet(q[i])
          <6>1. i \in 1 .. i
            BY <3>2, <4>1
          <6> QED  BY <5>2, <6>1
        <5> QED  BY <4>4, <4>6, <4>7, <5>1, <5>2
      <4>8. Good(i)
        BY <4>4, <4>6, <4>7
      <4> QED  BY <3>2, <4>8
    <3> QED  BY <3>3, <3>4
  <2>7. Len(q) \in 1 .. Len(q)
    BY <1>1, <1>3
  <2>8. f[Len(q)] \in Seq(ID) /\ Ascends(f[Len(q)])
    BY <2>6, <2>7
  <2>9. FlattenSeq(q) = f[Len(q)]
    BY <1>3, <2>3, FlattenDef
  <2> QED  BY <2>8, <2>9
<1> QED  BY <1>2, <1>3

\* The nodes of s hold their keys in the order of s, all of them in X.
InOrder(K, s, X) ==
    /\ \A i \in 1 .. Len(s) : K[s[i]] \subseteq X
    /\ \A i, j \in 1 .. Len(s) : i < j => Below(K[s[i]], K[s[j]])

\* What is left of a node, the node and what is right of it, in order, are in order.
LEMMA JoinOrder ==
    ASSUME NEW K, NEW s \in Seq(Nodes), NEW n \in Nodes, NEW t \in Seq(Nodes), NEW X, NEW Y, NEW Z,
           \A m \in Nodes : K[m] \subseteq ID, K[n] # {}, K[n] \subseteq Z,
           InOrder(K, s, X), X \subseteq Z, s # <<>> => Below(X, K[n]),
           InOrder(K, t, Y), Y \subseteq Z, t # <<>> => Below(K[n], Y), X \subseteq ID, Y \subseteq ID,
           NEW u, u = s \o <<n>> \o t
    PROVE  InOrder(K, u, Z)
<1>1. /\ u \in Seq(Nodes) /\ Len(s) \in Nat /\ Len(t) \in Nat /\ Len(u) = Len(s) + 1 + Len(t)
      /\ \A k \in 1 .. Len(s) + 1 + Len(t) :
           u[k] = IF k <= Len(s) THEN s[k] ELSE IF k = Len(s) + 1 THEN n ELSE t[k - Len(s) - 1]
  BY BetweenElements
<1> DEFINE First == {k \in 1 .. Len(u) : k \in 1 .. Len(s) /\ u[k] = s[k]}
           Middle == {k \in 1 .. Len(u) : k = Len(s) + 1 /\ u[k] = n}
           Others == {k \in 1 .. Len(u) : k > Len(s) + 1 /\ k - Len(s) - 1 \in 1 .. Len(t)
                                          /\ u[k] = t[k - Len(s) - 1]}
<1>2. \A k \in 1 .. Len(u) : k \in First \/ k \in Middle \/ k \in Others
  BY <1>1
<1>3. \A k \in First : s # <<>> /\ k \in 1 .. Len(s) /\ u[k] = s[k] /\ K[u[k]] \subseteq X
  BY <1>1 DEF InOrder
<1>4. \A k \in Others : /\ t # <<>> /\ k - Len(s) - 1 \in 1 .. Len(t) /\ u[k] = t[k - Len(s) - 1]
                        /\ K[u[k]] \subseteq Y /\ k > Len(s) + 1
  <2> SUFFICES ASSUME NEW k \in Others
               PROVE  /\ t # <<>> /\ k - Len(s) - 1 \in 1 .. Len(t) /\ u[k] = t[k - Len(s) - 1]
                      /\ K[u[k]] \subseteq Y /\ k > Len(s) + 1
    BY Zenon
  <2>1. k - Len(s) - 1 \in 1 .. Len(t) /\ u[k] = t[k - Len(s) - 1] /\ k > Len(s) + 1
    OBVIOUS
  <2>2. K[t[k - Len(s) - 1]] \subseteq Y
    BY <2>1, Zenon DEF InOrder
  <2>3. t # <<>>
    BY <1>1, <2>1
  <2> QED  BY <2>1, <2>2, <2>3
<1>5. \A k \in Middle : K[u[k]] = K[n] /\ k = Len(s) + 1
  OBVIOUS
<1> HIDE DEF First, Middle, Others
<1>6. \A k \in 1 .. Len(u) : K[u[k]] \subseteq Z
  BY <1>2, <1>3, <1>4, <1>5, Zenon
<1>7. Below(X, K[n]) /\ Below(K[n], Y) => Below(X, Y)
  <2>1. PICK e \in K[n] : e = e
    OBVIOUS
  <2>2. e \in Nat /\ (\A x \in X : x \in Nat) /\ (\A y \in Y : y \in Nat)
    BY <2>1, IDAssumption, Zenon
  <2> QED  BY <2>1, <2>2 DEF Below
<1>8. ASSUME NEW i \in 1 .. Len(u), NEW j \in 1 .. Len(u), i < j PROVE Below(K[u[i]], K[u[j]])
  <2>2. CASE i \in First /\ j \in First
    BY <1>3, <1>8, <2>2 DEF InOrder
  <2>3. CASE i \in First /\ j \in Middle
    <3>1. K[u[i]] \subseteq X /\ K[u[j]] = K[n] /\ Below(X, K[n])
      BY <1>3, <1>5, <2>3, Zenon
    <3> QED  BY <3>1, Zenon DEF Below
  <2>4. CASE i \in First /\ j \in Others
    <3>1. K[u[i]] \subseteq X /\ K[u[j]] \subseteq Y /\ Below(X, K[n]) /\ Below(K[n], Y)
      BY <1>3, <1>4, <2>4
    <3>2. Below(X, Y)
      BY <1>7, <3>1
    <3> QED  BY <3>1, <3>2, Zenon DEF Below
  <2>5. CASE i \in Middle /\ j \in Others
    <3>1. K[u[j]] \subseteq Y /\ K[u[i]] = K[n] /\ Below(K[n], Y)
      BY <1>4, <1>5, <2>5
    <3> QED  BY <3>1 DEF Below
  <2>6. CASE i \in Others /\ j \in Others
    <3>1. i - Len(s) - 1 < j - Len(s) - 1
      BY <1>1, <1>8
    <3> QED  BY <1>4, <2>6, <3>1, Zenon DEF InOrder
  <2>7. /\ ~(i \in Middle /\ j \in Middle) /\ ~(i \in Middle /\ j \in First)
        /\ ~(i \in Others /\ j \in Middle) /\ ~(i \in Others /\ j \in First)
    BY <1>1, <1>3, <1>4, <1>5, <1>8
  <2> QED  BY <1>2, <2>2, <2>3, <2>4, <2>5, <2>6, <2>7, Zenon
<1> QED  BY <1>6, <1>8, Zenon DEF InOrder

\* Walking a tree with spans visits the nodes in the order of their keys.
LEMMA WalkInOrder ==
    ASSUME heap \in Heap, NEW S, NEW r \in Ptr, TreeOf(heap, S, r), NEW span, HeapSpans(heap, S, span),
           \A m \in S : heap[m].ids # <<>>
    PROVE  \A n \in S : InOrder(Keys(heap), NodesBelow(n), span[n])
<1> DEFINE w == [m \in Ptr |-> NodesBelow(m)]
<1>1. PICK L, R, K : L = Lefts(heap) /\ R = Rights(heap) /\ K = Keys(heap)
  OBVIOUS
<1>2. /\ L \in Links /\ R \in Links /\ IsTree(L, R, S, r)
      /\ \A m \in Nodes : L[m] = heap[m].left /\ R[m] = heap[m].right
  BY <1>1, HeapLinks DEF TreeOf
<1>3. \A m \in Nodes : L[m] \in Ptr /\ R[m] \in Ptr /\ m \in Ptr
  BY <1>2 DEF Links, Ptr
<1>4. /\ w[NIL] = <<>> /\ NIL \in Ptr
      /\ \A m \in Nodes : w[m] = w[L[m]] \o <<m>> \o w[R[m]]
      /\ \A m \in Ptr : w[m] \in Seq(Nodes)
  BY <1>2, <1>3, NodesBelowUnfolds, Zenon DEF Ptr
<1>5. \A m \in Ptr : w[m] = NodesBelow(m)
  OBVIOUS
<1> HIDE DEF w
<1>6. /\ span \in [Nodes -> SUBSET ID] /\ \A n \in S : K[n] \subseteq span[n]
      /\ \A n \in S : L[n] # NIL => span[L[n]] \subseteq span[n] /\ Below(span[L[n]], K[n])
      /\ \A n \in S : R[n] # NIL => span[R[n]] \subseteq span[n] /\ Below(K[n], span[R[n]])
  BY <1>1 DEF HeapSpans, Spans
<1>7. \A m \in Nodes : K[m] \subseteq ID /\ (heap[m].ids # <<>> => K[m] # {})
  BY <1>1, KeysOf
<1>8. PICK rank, b : Ranked(heap, rank, b)
  BY TreeRanked
<1>9. S \subseteq Nodes /\ \A n \in S : (L[n] # NIL => L[n] \in S) /\ (R[n] # NIL => R[n] \in S)
  BY <1>2, Children
<1>10. \A X : InOrder(K, w[NIL], X)
  BY <1>4 DEF InOrder
<1>11. \A n \in Nodes : n \in S => InOrder(K, w[n], span[n])
  <2> DEFINE P == {n \in Nodes : n \in S => InOrder(K, w[n], span[n])}
  <2>1. ASSUME NEW n \in Nodes, \A m \in Nodes : rank[m] < rank[n] => m \in P
        PROVE  n \in P
    <3> SUFFICES ASSUME n \in S PROVE InOrder(K, w[n], span[n])
      OBVIOUS
    <3>1. PICK X : X \subseteq ID /\ InOrder(K, w[L[n]], X) /\ X \subseteq span[n] /\ (w[L[n]] # <<>> => Below(X, K[n]))
      <4>1. CASE L[n] = NIL
        <5>1. {} \subseteq ID /\ InOrder(K, w[L[n]], {}) /\ {} \subseteq span[n] /\ w[L[n]] = <<>>
          BY <1>4, <1>10, <4>1
        <5> QED  BY <5>1
      <4>2. CASE L[n] # NIL
        <5>1. L[n] \in S /\ L[n] \in Nodes /\ rank[L[n]] < rank[n]
          BY <1>2, <1>8, <1>9, <4>2 DEF Ranked
        <5>2. InOrder(K, w[L[n]], span[L[n]])
          BY <2>1, <5>1
        <5>3. span[L[n]] \subseteq ID
          BY <1>6, <5>1
        <5> QED  BY <1>6, <4>2, <5>2, <5>3
      <4> QED  BY <4>1, <4>2
    <3>2. PICK Y : Y \subseteq ID /\ InOrder(K, w[R[n]], Y) /\ Y \subseteq span[n] /\ (w[R[n]] # <<>> => Below(K[n], Y))
      <4>1. CASE R[n] = NIL
        <5>1. {} \subseteq ID /\ InOrder(K, w[R[n]], {}) /\ {} \subseteq span[n] /\ w[R[n]] = <<>>
          BY <1>4, <1>10, <4>1
        <5> QED  BY <5>1
      <4>2. CASE R[n] # NIL
        <5>1. R[n] \in S /\ R[n] \in Nodes /\ rank[R[n]] < rank[n]
          BY <1>2, <1>8, <1>9, <4>2 DEF Ranked
        <5>2. InOrder(K, w[R[n]], span[R[n]])
          BY <2>1, <5>1
        <5>3. span[R[n]] \subseteq ID
          BY <1>6, <5>1
        <5> QED  BY <1>6, <4>2, <5>2, <5>3
      <4> QED  BY <4>1, <4>2
    <3>3. PICK s, t, u : s = w[L[n]] /\ t = w[R[n]] /\ u = w[n]
      OBVIOUS
    <3>4. s \in Seq(Nodes) /\ t \in Seq(Nodes) /\ u = s \o <<n>> \o t
      BY <1>3, <1>4, <3>3, Zenon
    <3>5. K[n] # {} /\ K[n] \subseteq span[n]
      BY <1>6, <1>7
    <3>6. InOrder(K, s, X) /\ X \subseteq span[n] /\ (s # <<>> => Below(X, K[n]))
          /\ InOrder(K, t, Y) /\ Y \subseteq span[n] /\ (t # <<>> => Below(K[n], Y))
      BY <3>1, <3>2, <3>3
    <3>7. PICK Z : Z = span[n]
      OBVIOUS
    <3>8. InOrder(K, u, Z)
      <4>1. /\ \A m \in Nodes : K[m] \subseteq ID
            /\ K[n] # {} /\ K[n] \subseteq Z /\ X \subseteq ID /\ Y \subseteq ID
            /\ InOrder(K, s, X) /\ X \subseteq Z /\ (s # <<>> => Below(X, K[n]))
            /\ InOrder(K, t, Y) /\ Y \subseteq Z /\ (t # <<>> => Below(K[n], Y))
            /\ s \in Seq(Nodes) /\ t \in Seq(Nodes) /\ u = s \o <<n>> \o t
        BY <1>7, <3>1, <3>2, <3>4, <3>5, <3>6, <3>7
      <4> QED  BY <4>1, JoinOrder, Zenon
    <3> QED  BY <3>3, <3>7, <3>8
  <2>2. \A m \in Nodes : rank[m] \in Nat
    BY <1>8 DEF Ranked
  <2>3. Nodes \subseteq P
    <3> HIDE DEF P
    <3> QED  BY <2>1, <2>2, RankInduction
  <2> QED  BY <2>3
<1> QED  BY <1>1, <1>3, <1>5, <1>9, <1>11

\* So between calls the IDs are met in ascending order.
LEMMA SearchOrderHolds == OInv => SearchOrder
<1> SUFFICES ASSUME OInv, Idle
             PROVE  \A i \in 1 .. Len(IDsInOrder) - 1 : IDsInOrder[i] < IDsInOrder[i + 1]
  BY DEF SearchOrder
<1>1. pc = "idle" /\ SInv
  BY DEF Idle, OInv
<1>2. /\ current = NIL /\ Linked = used /\ used \subseteq Nodes /\ heap \in Heap
      /\ TreeOf(heap, used, root) /\ \A n \in used : Whole(heap, n)
  BY <1>1, Calm
<1>3. /\ root \in Ptr /\ \A m \in used : heap[m].ids # <<>> /\ Ascends(heap[m].ids)
  BY <1>1, <1>2 DEF SInv, IInv, TypeOK, Whole, OInv, Rises
<1>4. PICK span : HeapSpans(heap, used, span)
  <2>1. Held = Keys(heap)
    BY <1>1, HeldKeys
  <2> QED  BY <1>2, <2>1 DEF OInv, Sorted, SortedBy, HeapSpans
<1>5. PICK s : s = NodesBelow(root)
  OBVIOUS
<1>6. s \in Seq(Nodes) /\ ToSet(s) = used
  BY <1>2, <1>3, <1>5, NodesBelowUnfolds, NodesBelowTree
<1>7. PICK X : InOrder(Keys(heap), s, X)
  <2>1. CASE root = NIL
    <3>1. s = <<>>
      BY <1>2, <1>5, <2>1, NodesBelowUnfolds
    <3>2. InOrder(Keys(heap), s, {})
      BY <3>1 DEF InOrder
    <3> QED  BY <3>2
  <2>2. CASE root # NIL
    <3>1. root \in used
      BY <1>2, <1>3, <2>2, Children
    <3>2. InOrder(Keys(heap), NodesBelow(root), span[root])
      BY <1>2, <1>3, <1>4, <3>1, WalkInOrder
    <3> QED  BY <1>5, <3>2
  <2> QED  BY <2>1, <2>2
<1> DEFINE q == [i \in DOMAIN s |-> heap[s[i]].ids]
<1>8. Len(s) \in Nat /\ DOMAIN s = 1 .. Len(s) /\ \A i \in 1 .. Len(s) : s[i] \in Nodes /\ s[i] \in used
  BY <1>6, ElementOfSeq, LenProperties DEF ToSet
<1>9. \A i \in 1 .. Len(s) : heap[s[i]].ids \in Seq(ID)
  BY <1>2, <1>8, HeapNode
<1>10. q \in Seq(Seq(ID)) /\ Len(q) = Len(s)
  BY <1>8, <1>9
<1>11. \A i \in 1 .. Len(q) : q[i] = heap[s[i]].ids
  BY <1>8, <1>10
<1>12. IDsInOrder = FlattenSeq(q)
  BY <1>5 DEF IDsInOrder
<1> HIDE DEF q
<1>13. \A i \in 1 .. Len(q) : Ascends(q[i])
  BY <1>3, <1>8, <1>10, <1>11
<1>14. \A i, j \in 1 .. Len(q) : i < j => Below(ToSet(q[i]), ToSet(q[j]))
  <2>1. \A i \in 1 .. Len(s) : Keys(heap)[s[i]] = ToSet(q[i])
    BY <1>8, <1>10, <1>11 DEF Keys
  <2> QED  BY <1>7, <1>10, <2>1 DEF InOrder
<1>15. FlattenSeq(q) \in Seq(ID) /\ Ascends(FlattenSeq(q))
  BY <1>10, <1>13, <1>14, FlattenAscends, Zenon
<1>16. PICK f : f = FlattenSeq(q)
  OBVIOUS
<1>17. f \in Seq(ID) /\ Ascends(f) /\ Len(f) \in Nat /\ IDsInOrder = f
  BY <1>12, <1>15, <1>16, LenProperties
<1>18. \A i \in 1 .. Len(f) - 1 : f[i] < f[i + 1]
  <2> SUFFICES ASSUME NEW i \in 1 .. Len(f) - 1 PROVE f[i] < f[i + 1]
    OBVIOUS
  <2>1. i \in 1 .. Len(f) /\ i + 1 \in 1 .. Len(f) /\ i < i + 1
    BY <1>17
  <2> QED  BY <1>17, <2>1 DEF Ascends
<1> QED  BY <1>17, <1>18

\* The in-order traversal of the tree ascends between operations (SearchOrder) in every behaviour whose refills
\* take their items from the ends, removals included: the refills of t-tree.c:399 and 403 are the only statements
\* of the tree's code that can break the order.
THEOREM OrderUnlessStolen ==
    ASSUME NodeSize <= 255
    PROVE  Spec /\ []StealsAtEnds => []SearchOrder
<1>1. Init => OInv
  BY InitStructure, InitSorted DEF OInv
<1>2. OInv /\ StealsAtEnds /\ [Next]_vars => OInv'
  BY NextSorted DEF OrderKept
<1>3. OInv => SearchOrder
  BY SearchOrderHolds
<1> QED  BY <1>1, <1>2, <1>3, PTL DEF Spec

-----------------------------------------------------------------------------
(* The heights.  A step of a tree that only grows leaves every node level,  *)
(* but for the parent of the one that has become one higher.                *)

\* The height of m is one more than that of its higher child, and its children differ by
\* one at most.
Level(h, m) ==
    /\ h[m].height = 1 + Max2(Height(h, h[m].left), Height(h, h[m].right))
    /\ BalanceFactor(h, m) \in -1 .. 1

\* n was level until its child c became one higher.
Lifted(h, n, c) ==
    /\ c \in {h[n].left, h[n].right} \ {NIL}
    /\ h[c].height = 1 \/ BalanceFactor(h, c) # 0
    /\ LET a == Height(h, h[n].left) - (IF c = h[n].left THEN 1 ELSE 0)
           b == Height(h, h[n].right) - (IF c = h[n].right THEN 1 ELSE 0)
       IN  h[n].height = 1 + Max2(a, b) /\ a - b \in -1 .. 1

\* The height of a pointer.
LEMMA HeightAt ==
    ASSUME NEW h \in Heap, NEW p \in Ptr
    PROVE  Height(h, p) \in Nat /\ (p # NIL => p \in Nodes /\ Height(h, p) = h[p].height)
           /\ (p = NIL => Height(h, p) = 0)
<1>1. CASE p = NIL
  BY <1>1 DEF Height
<1>2. CASE p # NIL
  <2>1. p \in Nodes
    BY <1>2 DEF Ptr
  <2>2. h[p].height \in Nat
    BY <2>1, HeapNode
  <2> QED  BY <1>2, <2>1, <2>2 DEF Height
<1> QED  BY <1>1, <1>2

\* A node stays level when its height and those of its children stay.
LEMMA LevelKept ==
    ASSUME NEW h, NEW g, NEW m, Level(h, m), g[m].height = h[m].height,
           Height(g, g[m].left) = Height(h, h[m].left), Height(g, g[m].right) = Height(h, h[m].right)
    PROVE  Level(g, m)
BY DEF Level, BalanceFactor

\* A child in a tree has one parent.
LEMMA OneParent ==
    ASSUME NEW h \in Heap, NEW S, NEW r, TreeOf(h, S, r), NEW n \in Nodes, NEW x \in {h[n].left, h[n].right},
           x # NIL
    PROVE  /\ n \in S /\ x \in S /\ x # n /\ x # r /\ x \in Nodes
           /\ h[x].left \notin {x, n} /\ h[x].right \notin {x, n} /\ h[n].left # h[n].right
           /\ \A m \in Nodes \ {n} : x # h[m].left /\ x # h[m].right
<1>1. PICK L, R : L = Lefts(h) /\ R = Rights(h)
  OBVIOUS
<1>2. /\ L \in Links /\ R \in Links /\ IsTree(L, R, S, r)
      /\ \A m \in Nodes : L[m] = h[m].left /\ R[m] = h[m].right
  BY <1>1, HeapLinks DEF TreeOf
<1>3. x \in Nodes /\ x \in {L[n], R[n]}
  BY <1>2, HeapNode DEF Ptr
<1>4. /\ n \in S /\ x \in S /\ x # n /\ x # r
      /\ L[x] \notin {x, n} /\ R[x] \notin {x, n}
      /\ \A m \in Nodes \ {n} : x \notin {L[m], R[m]}
      /\ L[n] # R[n]
  BY <1>2, <1>3, Kinship
<1> QED  BY <1>2, <1>3, <1>4

\* A rotation to the right: heights.
LEMMA RightTurnHeights ==
    ASSUME NEW h \in Heap, NEW S, NEW r, TreeOf(h, S, r), NEW n \in S,
           NEW q \in Ptr, Leads(Lefts(h), Rights(h), r, q, n), NEW g, NEW l, RightTurn(g, h, S, r, q, n, l)
    PROVE  /\ Height(g, g[n].left) = Height(h, h[l].right) /\ Height(g, g[n].right) = Height(h, h[n].right)
           /\ Height(g, g[l].left) = Height(h, h[l].left) /\ Height(g, g[l].right) = g[n].height
           /\ \A m \in S \ {n, l, q} : Level(h, m) => Level(g, m)
           /\ q # NIL => /\ g[q].height = h[q].height
                         /\ Height(g, g[q].left) = IF h[q].left = n THEN g[l].height ELSE Height(h, h[q].left)
                         /\ Height(g, g[q].right) = IF h[q].right = n THEN g[l].height ELSE Height(h, h[q].right)
<1>1. /\ g \in Heap /\ l \in S /\ l # n /\ q \notin {n, l} /\ h[n].left = l
      /\ \A m \in Nodes : g[m].left = IF m = n THEN h[l].right
                                    ELSE IF m = q /\ h[m].left = n THEN l ELSE h[m].left
      /\ \A m \in Nodes : g[m].right = IF m = l THEN n
                                     ELSE IF m = q /\ h[m].right = n THEN l ELSE h[m].right
      /\ \A m \in Nodes \ {n, l} : g[m].height = h[m].height
  BY DEF RightTurn
<1>2. /\ S \subseteq Nodes /\ n \in Nodes /\ l \in Nodes /\ l # NIL /\ n # NIL
      /\ \A m \in Nodes : h[m].left \in Ptr /\ h[m].right \in Ptr
  BY <1>1, Children, HeapNode, NILAssumption
<1>3. \A p \in Ptr \ {n, l} : Height(g, p) = Height(h, p)
  BY <1>1 DEF Height, Ptr
<1>4. /\ h[l].left \notin {l, n} /\ h[l].right \notin {l, n} /\ h[n].left # h[n].right
      /\ \A m \in Nodes \ {n} : l # h[m].left /\ l # h[m].right
  BY <1>1, <1>2, OneParent
<1>5. \A m \in Nodes : n \in {h[m].left, h[m].right} => m = q
  <2>1. PICK L, R : L = Lefts(h) /\ R = Rights(h)
    OBVIOUS
  <2>2. /\ L \in Links /\ R \in Links /\ IsTree(L, R, S, r) /\ Leads(L, R, r, q, n)
        /\ \A m \in Nodes : L[m] = h[m].left /\ R[m] = h[m].right
    BY <2>1, HeapLinks DEF TreeOf
  <2> QED  BY <2>2, Parenthood
<1>6. h[n].left # n /\ h[n].right # n /\ h[n].right # l
  BY <1>1, <1>2, <1>4, <1>5
<1>7. Height(g, g[n].left) = Height(h, h[l].right) /\ Height(g, g[n].right) = Height(h, h[n].right)
  <2>1. g[n].left = h[l].right /\ g[n].right = h[n].right
    BY <1>1, <1>2
  <2> QED  BY <1>2, <1>3, <1>4, <1>6, <2>1
<1>8. Height(g, g[l].left) = Height(h, h[l].left) /\ Height(g, g[l].right) = g[n].height
  <2>1. g[l].left = h[l].left /\ g[l].right = n
    BY <1>1, <1>2
  <2> QED  BY <1>2, <1>3, <1>4, <2>1 DEF Height
<1>9. ASSUME NEW m \in S \ {n, l, q}, Level(h, m) PROVE Level(g, m)
  <2>1. m \in Nodes /\ g[m].left = h[m].left /\ g[m].right = h[m].right /\ g[m].height = h[m].height
    BY <1>1, <1>2
  <2>2. h[m].left \in Ptr \ {n, l} /\ h[m].right \in Ptr \ {n, l}
    BY <1>2, <1>4, <1>5, <2>1
  <2>3. Height(g, g[m].left) = Height(h, h[m].left) /\ Height(g, g[m].right) = Height(h, h[m].right)
    BY <1>3, <2>1, <2>2
  <2> QED  BY <1>9, <2>1, <2>3, LevelKept
<1>10. ASSUME q # NIL
       PROVE  /\ g[q].height = h[q].height
              /\ Height(g, g[q].left) = IF h[q].left = n THEN g[l].height ELSE Height(h, h[q].left)
              /\ Height(g, g[q].right) = IF h[q].right = n THEN g[l].height ELSE Height(h, h[q].right)
  <2>1. q \in Nodes /\ q \notin {n, l}
    BY <1>1, <1>10 DEF Ptr
  <2>2. /\ g[q].left = IF h[q].left = n THEN l ELSE h[q].left
        /\ g[q].right = IF h[q].right = n THEN l ELSE h[q].right
        /\ g[q].height = h[q].height
    BY <1>1, <2>1
  <2>3. h[q].left # l /\ h[q].right # l /\ h[q].left \in Ptr /\ h[q].right \in Ptr
    BY <1>2, <1>4, <2>1
  <2>4. Height(g, l) = g[l].height
    BY <1>2 DEF Height
  <2> QED  BY <1>3, <2>2, <2>3, <2>4
<1> QED  BY <1>7, <1>8, <1>9, <1>10

\* The heights around a turn to the left.
LEMMA LeftTurnHeights ==
    ASSUME NEW h \in Heap, NEW S, NEW r, TreeOf(h, S, r), NEW n \in S,
           NEW q \in Ptr, Leads(Lefts(h), Rights(h), r, q, n), NEW g, NEW l, LeftTurn(g, h, S, r, q, n, l)
    PROVE  /\ Height(g, g[n].right) = Height(h, h[l].left) /\ Height(g, g[n].left) = Height(h, h[n].left)
           /\ Height(g, g[l].right) = Height(h, h[l].right) /\ Height(g, g[l].left) = g[n].height
           /\ \A m \in S \ {n, l, q} : Level(h, m) => Level(g, m)
           /\ q # NIL => /\ g[q].height = h[q].height
                         /\ Height(g, g[q].left) = IF h[q].left = n THEN g[l].height ELSE Height(h, h[q].left)
                         /\ Height(g, g[q].right) = IF h[q].right = n THEN g[l].height ELSE Height(h, h[q].right)
<1>1. /\ g \in Heap /\ l \in S /\ l # n /\ q \notin {n, l} /\ h[n].right = l
      /\ \A m \in Nodes : g[m].right = IF m = n THEN h[l].left
                                    ELSE IF m = q /\ h[m].right = n THEN l ELSE h[m].right
      /\ \A m \in Nodes : g[m].left = IF m = l THEN n
                                     ELSE IF m = q /\ h[m].left = n THEN l ELSE h[m].left
      /\ \A m \in Nodes \ {n, l} : g[m].height = h[m].height
  BY DEF LeftTurn
<1>2. /\ S \subseteq Nodes /\ n \in Nodes /\ l \in Nodes /\ l # NIL /\ n # NIL
      /\ \A m \in Nodes : h[m].left \in Ptr /\ h[m].right \in Ptr
  BY <1>1, Children, HeapNode, NILAssumption
<1>3. \A p \in Ptr \ {n, l} : Height(g, p) = Height(h, p)
  BY <1>1 DEF Height, Ptr
<1>4. /\ h[l].left \notin {l, n} /\ h[l].right \notin {l, n} /\ h[n].left # h[n].right
      /\ \A m \in Nodes \ {n} : l # h[m].left /\ l # h[m].right
  BY <1>1, <1>2, OneParent
<1>5. \A m \in Nodes : n \in {h[m].left, h[m].right} => m = q
  <2>1. PICK L, R : L = Lefts(h) /\ R = Rights(h)
    OBVIOUS
  <2>2. /\ L \in Links /\ R \in Links /\ IsTree(L, R, S, r) /\ Leads(L, R, r, q, n)
        /\ \A m \in Nodes : L[m] = h[m].left /\ R[m] = h[m].right
    BY <2>1, HeapLinks DEF TreeOf
  <2> QED  BY <2>2, Parenthood
<1>6. h[n].left # n /\ h[n].right # n /\ h[n].left # l
  BY <1>1, <1>2, <1>4, <1>5
<1>7. Height(g, g[n].right) = Height(h, h[l].left) /\ Height(g, g[n].left) = Height(h, h[n].left)
  <2>1. g[n].right = h[l].left /\ g[n].left = h[n].left
    BY <1>1, <1>2
  <2> QED  BY <1>2, <1>3, <1>4, <1>6, <2>1
<1>8. Height(g, g[l].right) = Height(h, h[l].right) /\ Height(g, g[l].left) = g[n].height
  <2>1. g[l].right = h[l].right /\ g[l].left = n
    BY <1>1, <1>2
  <2> QED  BY <1>2, <1>3, <1>4, <2>1 DEF Height
<1>9. ASSUME NEW m \in S \ {n, l, q}, Level(h, m) PROVE Level(g, m)
  <2>1. m \in Nodes /\ g[m].left = h[m].left /\ g[m].right = h[m].right /\ g[m].height = h[m].height
    BY <1>1, <1>2
  <2>2. h[m].left \in Ptr \ {n, l} /\ h[m].right \in Ptr \ {n, l}
    BY <1>2, <1>4, <1>5, <2>1
  <2>3. Height(g, g[m].left) = Height(h, h[m].left) /\ Height(g, g[m].right) = Height(h, h[m].right)
    BY <1>3, <2>1, <2>2
  <2> QED  BY <1>9, <2>1, <2>3, LevelKept
<1>10. ASSUME q # NIL
       PROVE  /\ g[q].height = h[q].height
              /\ Height(g, g[q].left) = IF h[q].left = n THEN g[l].height ELSE Height(h, h[q].left)
              /\ Height(g, g[q].right) = IF h[q].right = n THEN g[l].height ELSE Height(h, h[q].right)
  <2>1. q \in Nodes /\ q \notin {n, l}
    BY <1>1, <1>10 DEF Ptr
  <2>2. /\ g[q].left = IF h[q].left = n THEN l ELSE h[q].left
        /\ g[q].right = IF h[q].right = n THEN l ELSE h[q].right
        /\ g[q].height = h[q].height
    BY <1>1, <2>1
  <2>3. h[q].left # l /\ h[q].right # l /\ h[q].left \in Ptr /\ h[q].right \in Ptr
    BY <1>2, <1>4, <2>1
  <2>4. Height(g, l) = g[l].height
    BY <1>2 DEF Height
  <2> QED  BY <1>3, <2>2, <2>3, <2>4
<1> QED  BY <1>7, <1>8, <1>9, <1>10

\* u is h with the height of n brought up to date.
Refreshed(u, h, n) ==
    /\ u \in Heap
    /\ \A m \in Nodes : u[m].left = h[m].left /\ u[m].right = h[m].right
    /\ \A m \in Nodes : m # n => u[m].height = h[m].height
    /\ u[n].height = 1 + Max2(Height(h, h[n].left), Height(h, h[n].right))

\* Everything in the tree is level but what has to be looked at: n, which c lifted.
Lifting(h, S, n, c) ==
    /\ c \in S /\ Lifted(h, n, c)
    /\ \A m \in S \ {n} : Level(h, m)

\* Refreshing one height changes no other balance below it.
LEMMA RefreshedHeights ==
    ASSUME NEW h \in Heap, NEW S, NEW r, TreeOf(h, S, r), NEW n \in S, NEW u, Refreshed(u, h, n)
    PROVE  /\ \A p \in Ptr \ {n} : Height(u, p) = Height(h, p)
           /\ Height(u, u[n].left) = Height(h, h[n].left) /\ Height(u, u[n].right) = Height(h, h[n].right)
           /\ \A m \in Nodes \ {n} : n \notin {h[m].left, h[m].right} =>
                /\ Level(h, m) => Level(u, m)
                /\ BalanceFactor(u, m) = BalanceFactor(h, m)
           /\ BalanceFactor(u, n) = BalanceFactor(h, n)
<1>1. /\ S \subseteq Nodes /\ n \in Nodes /\ n # NIL
      /\ \A m \in Nodes : h[m].left \in Ptr /\ h[m].right \in Ptr
      /\ h[n].left # n /\ h[n].right # n
  BY Children, HeapNode, NILAssumption
<1>2. \A p \in Ptr \ {n} : Height(u, p) = Height(h, p)
  BY DEF Height, Ptr, Refreshed
<1>3. Height(u, u[n].left) = Height(h, h[n].left) /\ Height(u, u[n].right) = Height(h, h[n].right)
  <2>1. u[n].left = h[n].left /\ u[n].right = h[n].right
    BY <1>1 DEF Refreshed
  <2> QED  BY <1>1, <1>2, <2>1
<1>4. ASSUME NEW m \in Nodes \ {n}, n \notin {h[m].left, h[m].right}
      PROVE  (Level(h, m) => Level(u, m)) /\ BalanceFactor(u, m) = BalanceFactor(h, m)
  <2>1. u[m].left = h[m].left /\ u[m].right = h[m].right /\ u[m].height = h[m].height
    BY DEF Refreshed
  <2>2. Height(u, u[m].left) = Height(h, h[m].left) /\ Height(u, u[m].right) = Height(h, h[m].right)
    BY <1>1, <1>2, <1>4, <2>1
  <2> QED  BY <2>1, <2>2, LevelKept DEF BalanceFactor
<1> QED  BY <1>2, <1>3, <1>4 DEF BalanceFactor

\* A level node has a height above zero.
LEMMA LevelPositive ==
    ASSUME NEW h \in Heap, NEW m \in Nodes, Level(h, m)
    PROVE  /\ h[m].height \in Nat /\ h[m].height > 0
           /\ Height(h, h[m].left) \in Nat /\ Height(h, h[m].right) \in Nat
           /\ Height(h, h[m].left) < h[m].height /\ Height(h, h[m].right) < h[m].height
           /\ \/ h[m].height = 1 + Height(h, h[m].left)
              \/ h[m].height = 1 + Height(h, h[m].right)
           /\ Height(h, h[m].left) - Height(h, h[m].right) \in -1 .. 1
<1>1. h[m].left \in Ptr /\ h[m].right \in Ptr /\ h[m].height \in Nat
  BY HeapNode
<1>2. Height(h, h[m].left) \in Nat /\ Height(h, h[m].right) \in Nat
  BY <1>1, HeightAt
<1>3. /\ h[m].height = 1 + Max2(Height(h, h[m].left), Height(h, h[m].right))
      /\ Height(h, h[m].left) - Height(h, h[m].right) \in -1 .. 1
  BY DEF Level, BalanceFactor
<1> QED  BY <1>1, <1>2, <1>3 DEF Max2

\* The numbers of a lifted node: a and b are the heights of its children.
LEMMA LiftedNumbers ==
    ASSUME NEW h \in Heap, NEW S, NEW r, TreeOf(h, S, r), NEW n \in S, NEW c, Lifting(h, S, n, c),
           NEW a, a = Height(h, h[n].left), NEW b, b = Height(h, h[n].right), NEW k, k = h[n].height
    PROVE  /\ a \in Nat /\ b \in Nat /\ k \in Nat
           /\ \/ c = h[n].left /\ a > 0 /\ k = (IF a - 1 > b THEN a ELSE 1 + b) /\ a - 1 - b \in -1 .. 1
              \/ c = h[n].right /\ b > 0 /\ k = (IF a > b - 1 THEN 1 + a ELSE b) /\ a - (b - 1) \in -1 .. 1
<1>1. n \in Nodes /\ n # NIL /\ c \in {h[n].left, h[n].right} /\ c # NIL /\ Lifted(h, n, c)
  BY Children, NILAssumption DEF Lifting, Lifted
<1>2. h[n].left # h[n].right /\ c \in S /\ c # n /\ c \in Nodes
  BY <1>1, OneParent
<1>3. h[n].left \in Ptr /\ h[n].right \in Ptr /\ k \in Nat
  BY <1>1, HeapNode
<1>4. a \in Nat /\ b \in Nat
  BY <1>3, HeightAt
<1>5. Height(h, c) > 0
  <2>1. Level(h, c)
    BY <1>2 DEF Lifting
  <2>2. h[c].height > 0
    BY <1>2, <2>1, LevelPositive
  <2> QED  BY <1>1, <2>2 DEF Height
<1>6. /\ k = 1 + Max2(a - (IF c = h[n].left THEN 1 ELSE 0), b - (IF c = h[n].right THEN 1 ELSE 0))
      /\ (a - (IF c = h[n].left THEN 1 ELSE 0)) - (b - (IF c = h[n].right THEN 1 ELSE 0)) \in -1 .. 1
  BY <1>1 DEF Lifted
<1>7. CASE c = h[n].left
  <2>1. k = 1 + Max2(a - 1, b) /\ a - 1 - b \in -1 .. 1 /\ a > 0
    BY <1>2, <1>3, <1>4, <1>5, <1>6, <1>7
  <2> QED  BY <1>3, <1>4, <1>7, <2>1 DEF Max2
<1>8. CASE c = h[n].right
  <2>1. k = 1 + Max2(a, b - 1) /\ a - (b - 1) \in -1 .. 1 /\ b > 0
    BY <1>2, <1>3, <1>4, <1>5, <1>6, <1>8
  <2> QED  BY <1>3, <1>4, <1>8, <2>1 DEF Max2
<1> QED  BY <1>1, <1>7, <1>8

\* If no rotation is called for, the node is level again, and has lifted its own parent, if
\* anything.
LEMMA LiftUp ==
    ASSUME NEW h \in Heap, NEW S, NEW r, TreeOf(h, S, r), NEW n \in S, NEW c, Lifting(h, S, n, c),
           NEW q \in Ptr, Leads(Lefts(h), Rights(h), r, q, n),
           NEW u, Refreshed(u, h, n), BalanceFactor(u, n) \in -1 .. 1
    PROVE  (\A m \in S : Level(u, m)) \/ (q # NIL /\ q \in S /\ Lifting(u, S, q, n))
<1> DEFINE a == Height(h, h[n].left)
           b == Height(h, h[n].right)
           k == h[n].height
<1>1. /\ a \in Nat /\ b \in Nat /\ k \in Nat
      /\ \/ c = h[n].left /\ a > 0 /\ k = (IF a - 1 > b THEN a ELSE 1 + b) /\ a - 1 - b \in -1 .. 1
         \/ c = h[n].right /\ b > 0 /\ k = (IF a > b - 1 THEN 1 + a ELSE b) /\ a - (b - 1) \in -1 .. 1
  BY LiftedNumbers
<1>2. S \subseteq Nodes /\ n \in Nodes /\ n # NIL /\ n \in Ptr
  BY Children, NILAssumption DEF Ptr
<1>3. /\ \A p \in Ptr \ {n} : Height(u, p) = Height(h, p)
      /\ Height(u, u[n].left) = a /\ Height(u, u[n].right) = b
      /\ \A m \in Nodes \ {n} : n \notin {h[m].left, h[m].right} => (Level(h, m) => Level(u, m))
      /\ BalanceFactor(u, n) = a - b
  BY RefreshedHeights DEF BalanceFactor
<1>4. u[n].height = 1 + Max2(a, b) /\ a - b \in -1 .. 1
  BY <1>3 DEF Refreshed
<1> HIDE DEF a, b, k
<1>5. Level(u, n)
  BY <1>3, <1>4 DEF Level, BalanceFactor
<1>6. \A m \in Nodes : n \in {h[m].left, h[m].right} => m = q
  <2>1. PICK L, R : L = Lefts(h) /\ R = Rights(h)
    OBVIOUS
  <2>2. /\ L \in Links /\ R \in Links /\ IsTree(L, R, S, r) /\ Leads(L, R, r, q, n)
        /\ \A m \in Nodes : L[m] = h[m].left /\ R[m] = h[m].right
    BY <2>1, HeapLinks DEF TreeOf
  <2> QED  BY <2>2, Parenthood
<1>7. \A m \in S : m # q => Level(u, m)
  BY <1>2, <1>3, <1>5, <1>6 DEF Lifting
<1>8. CASE q = NIL
  BY <1>2, <1>7, <1>8, NILAssumption
<1>9. CASE q # NIL
  <2>1. q \in Nodes /\ n \in {h[q].left, h[q].right}
    BY <1>9, HeapLinks DEF Leads
  <2>2. /\ q \in S /\ n # q /\ n \in S /\ h[q].left # h[q].right
    BY <1>2, <2>1, OneParent
  <2>3. Level(h, q)
    BY <2>2 DEF Lifting
  <2>4. /\ u[q].height = h[q].height /\ u[q].left = h[q].left /\ u[q].right = h[q].right
    BY <2>1, <2>2 DEF Refreshed
  <2>5. /\ h[q].left \in Ptr /\ h[q].right \in Ptr
        /\ h[q].left # n => Height(u, h[q].left) = Height(h, h[q].left)
        /\ h[q].right # n => Height(u, h[q].right) = Height(h, h[q].right)
    BY <1>3, <2>1, HeapNode
  <2>6. Height(h, n) = k /\ Height(u, n) = u[n].height
    BY <1>2 DEF Height, k
  <2>7. CASE u[n].height = k
    <3>1. Height(u, u[q].left) = Height(h, h[q].left) /\ Height(u, u[q].right) = Height(h, h[q].right)
      BY <2>4, <2>5, <2>6, <2>7
    <3>2. Level(u, q)
      BY <2>3, <2>4, <3>1, LevelKept
    <3> QED  BY <1>7, <3>2
  <2>8. CASE u[n].height # k
    <3>1. u[n].height = k + 1 /\ a # b
      BY <1>1, <1>4, <2>8 DEF Max2
    <3>2. BalanceFactor(u, n) # 0
      BY <1>1, <1>3, <3>1
    <3> DEFINE x == Height(h, h[q].left)
               y == Height(h, h[q].right)
    <3>3. /\ h[q].height = 1 + Max2(x, y) /\ x - y \in -1 .. 1
      BY <2>3 DEF Level, BalanceFactor
    <3>4. x \in Nat /\ y \in Nat
      BY <2>5, HeightAt
    <3>5. CASE n = h[q].left
      <4>1. Height(u, u[q].left) = x + 1 /\ Height(u, u[q].right) = y /\ n = u[q].left /\ n # u[q].right
        BY <2>2, <2>4, <2>5, <2>6, <3>1, <3>5
      <4> HIDE DEF x, y
      <4>2. /\ u[q].height = 1 + Max2((x + 1) - 1, y - 0) /\ ((x + 1) - 1) - (y - 0) \in -1 .. 1
        BY <2>4, <3>3, <3>4
      <4>3. Lifted(u, q, n)
        BY <1>2, <3>2, <4>1, <4>2 DEF Lifted
      <4> QED  BY <1>7, <1>9, <2>2, <4>3 DEF Lifting
    <3>6. CASE n = h[q].right
      <4>1. Height(u, u[q].left) = x /\ Height(u, u[q].right) = y + 1 /\ n = u[q].right /\ n # u[q].left
        BY <2>2, <2>4, <2>5, <2>6, <3>1, <3>6
      <4> HIDE DEF x, y
      <4>2. /\ u[q].height = 1 + Max2(x - 0, (y + 1) - 1) /\ (x - 0) - ((y + 1) - 1) \in -1 .. 1
        BY <2>4, <3>3, <3>4
      <4>3. Lifted(u, q, n)
        BY <1>2, <3>2, <4>1, <4>2 DEF Lifted
      <4> QED  BY <1>7, <1>9, <2>2, <4>3 DEF Lifting
    <3> QED  BY <2>1, <3>5, <3>6
  <2> QED  BY <2>7, <2>8
<1> QED  BY <1>8, <1>9

\* The parent of a rotated subtree that is as high as it was before.
LEMMA ParentLevel ==
    ASSUME NEW h \in Heap, NEW S, NEW r, TreeOf(h, S, r), NEW n \in S,
           NEW q \in Nodes, n \in {h[q].left, h[q].right}, Level(h, q), NEW u, Refreshed(u, h, n),
           NEW g, g[q].height = u[q].height,
           Height(g, g[q].left) = IF u[q].left = n THEN h[n].height ELSE Height(u, u[q].left),
           Height(g, g[q].right) = IF u[q].right = n THEN h[n].height ELSE Height(u, u[q].right)
    PROVE  Level(g, q)
<1>1. /\ S \subseteq Nodes /\ n \in Nodes /\ n # NIL /\ n \in Ptr
      /\ h[q].left \in Ptr /\ h[q].right \in Ptr
  BY Children, HeapNode, NILAssumption DEF Ptr
<1>2. q # n
  BY <1>1, OneParent
<1>3. u[q].left = h[q].left /\ u[q].right = h[q].right /\ u[q].height = h[q].height
  BY <1>2 DEF Refreshed
<1>4. \A p \in Ptr \ {n} : Height(u, p) = Height(h, p)
  BY RefreshedHeights
<1>5. Height(h, n) = h[n].height
  BY <1>1 DEF Height
<1>6. Height(g, g[q].left) = Height(h, h[q].left) /\ Height(g, g[q].right) = Height(h, h[q].right)
  BY <1>1, <1>3, <1>4, <1>5
<1> QED  BY <1>3, <1>6, LevelKept

\* What is known of the lifted node and its parent before a rotation.
LEMMA BeforeTurn ==
    ASSUME NEW h \in Heap, NEW S, NEW r, TreeOf(h, S, r), NEW n \in S, NEW c, Lifting(h, S, n, c),
           NEW q \in Ptr, Leads(Lefts(h), Rights(h), r, q, n), NEW u, Refreshed(u, h, n)
    PROVE  /\ S \subseteq Nodes /\ n \in Nodes /\ n # NIL /\ q # n
           /\ \A m \in S \ {n, q} : Level(u, m) /\ BalanceFactor(u, m) = BalanceFactor(h, m)
           /\ q # NIL => q \in S /\ q \in Nodes /\ n \in {h[q].left, h[q].right} /\ Level(h, q)
           /\ \A m \in Nodes : n \in {h[m].left, h[m].right} => m = q
<1>1. S \subseteq Nodes /\ n \in Nodes /\ n # NIL
  BY Children, NILAssumption
<1>2. \A m \in Nodes : n \in {h[m].left, h[m].right} => m = q
  <2>1. PICK L, R : L = Lefts(h) /\ R = Rights(h)
    OBVIOUS
  <2>2. /\ L \in Links /\ R \in Links /\ IsTree(L, R, S, r) /\ Leads(L, R, r, q, n)
        /\ \A m \in Nodes : L[m] = h[m].left /\ R[m] = h[m].right
    BY <2>1, HeapLinks DEF TreeOf
  <2> QED  BY <2>2, Parenthood
<1>3. \A m \in S \ {n, q} : Level(u, m) /\ BalanceFactor(u, m) = BalanceFactor(h, m)
  <2>1. \A m \in S \ {n, q} : Level(h, m) /\ m \in Nodes \ {n} /\ n \notin {h[m].left, h[m].right}
    BY <1>1, <1>2 DEF Lifting
  <2> QED  BY <2>1, RefreshedHeights
<1>4. q # NIL => q \in S /\ q \in Nodes /\ n \in {h[q].left, h[q].right} /\ q # n /\ Level(h, q)
  <2> SUFFICES ASSUME q # NIL PROVE q \in S /\ q \in Nodes /\ n \in {h[q].left, h[q].right} /\ q # n /\ Level(h, q)
    OBVIOUS
  <2>1. q \in Nodes /\ n \in {h[q].left, h[q].right}
    BY HeapLinks DEF Leads
  <2>2. q \in S /\ q # n
    BY <1>1, <2>1, OneParent
  <2> QED  BY <2>1, <2>2 DEF Lifting
<1> QED  BY <1>1, <1>2, <1>3, <1>4

\* A single rotation to the right leaves everything level.
LEMMA LiftRightTurn ==
    ASSUME NEW h \in Heap, NEW S, NEW r, TreeOf(h, S, r), NEW n \in S, NEW c, Lifting(h, S, n, c),
           NEW q \in Ptr, Leads(Lefts(h), Rights(h), r, q, n),
           NEW u \in Heap, Refreshed(u, h, n), TreeOf(u, S, r), Leads(Lefts(u), Rights(u), r, q, n),
           NEW g, NEW l, l = u[n].left, BalanceFactor(u, n) > 1, BalanceFactor(u, l) >= 0,
           RightTurn(g, u, S, r, q, n, l)
    PROVE  \A m \in S : Level(g, m)
<1> DEFINE a == Height(h, h[n].left)
           b == Height(h, h[n].right)
           k == h[n].height
           x == Height(u, u[l].left)
           y == Height(u, u[l].right)
<1>1. /\ a \in Nat /\ b \in Nat /\ k \in Nat
      /\ \/ c = h[n].left /\ a > 0 /\ k = (IF a - 1 > b THEN a ELSE 1 + b) /\ a - 1 - b \in -1 .. 1
         \/ c = h[n].right /\ b > 0 /\ k = (IF a > b - 1 THEN 1 + a ELSE b) /\ a - (b - 1) \in -1 .. 1
  BY LiftedNumbers
<1>2. /\ S \subseteq Nodes /\ n \in Nodes /\ n # NIL /\ q # n
      /\ \A m \in S \ {n, q} : Level(u, m) /\ BalanceFactor(u, m) = BalanceFactor(h, m)
      /\ q # NIL => q \in S /\ q \in Nodes /\ n \in {h[q].left, h[q].right} /\ Level(h, q)
  BY BeforeTurn
<1>3. /\ Height(u, u[n].left) = a /\ Height(u, u[n].right) = b /\ BalanceFactor(u, n) = a - b
      /\ \A p \in Ptr \ {n} : Height(u, p) = Height(h, p)
  BY RefreshedHeights DEF BalanceFactor
<1>4. l = h[n].left /\ l \in S /\ l # n /\ q # l /\ l \in Nodes /\ l # NIL
  BY <1>2, NILAssumption DEF Refreshed, RightTurn
<1> HIDE DEF a, b, k
<1>5. c = l /\ a = b + 2 /\ k = b + 2
  BY <1>1, <1>3, <1>4
<1>6. Height(u, l) = u[l].height /\ u[l].height = a
  BY <1>3, <1>4 DEF Height, a, b
<1>7. /\ Level(u, l) /\ BalanceFactor(u, l) = BalanceFactor(h, l)
  BY <1>2, <1>4
<1>8. /\ u[l].height = 1 + Max2(x, y) /\ x \in Nat /\ y \in Nat /\ x - y \in -1 .. 1
      /\ BalanceFactor(u, l) = x - y
  BY <1>4, <1>7, LevelPositive DEF Level, BalanceFactor
<1>9. h[l].height = a
  <2>1. u[l].height = h[l].height
    BY <1>4 DEF Refreshed
  <2> QED  BY <1>6, <2>1
<1>10. BalanceFactor(h, l) # 0
  BY <1>1, <1>5, <1>9 DEF Lifting, Lifted
<1> HIDE DEF x, y
<1>11. x = b + 1 /\ y = b
  BY <1>1, <1>5, <1>6, <1>7, <1>8, <1>10 DEF Max2
<1>12. /\ Height(g, g[n].left) = y /\ Height(g, g[n].right) = b
       /\ Height(g, g[l].left) = x /\ Height(g, g[l].right) = g[n].height
       /\ \A m \in S \ {n, l, q} : Level(u, m) => Level(g, m)
       /\ q # NIL => /\ g[q].height = u[q].height
                     /\ Height(g, g[q].left) = IF u[q].left = n THEN g[l].height ELSE Height(u, u[q].left)
                     /\ Height(g, g[q].right) = IF u[q].right = n THEN g[l].height ELSE Height(u, u[q].right)
  BY <1>3, RightTurnHeights DEF x, y
<1>13. g[n].height = 1 + Max2(y, b) /\ g[l].height = 1 + Max2(x, g[n].height)
  BY <1>3 DEF RightTurn, x, y
<1>14. g[n].height = 1 + b /\ g[l].height = b + 2
  BY <1>1, <1>11, <1>13 DEF Max2
<1>15. Level(g, n)
  BY <1>1, <1>11, <1>12, <1>14 DEF Level, BalanceFactor, Max2
<1>16. Level(g, l)
  BY <1>1, <1>11, <1>12, <1>14 DEF Level, BalanceFactor, Max2
<1>17. q # NIL => Level(g, q)
  <2>1. g[l].height = h[n].height
    BY <1>5, <1>14 DEF k
  <2> QED  BY <1>2, <1>12, <2>1, ParentLevel
<1>18. \A m \in S \ {n, l, q} : Level(g, m)
  BY <1>2, <1>12
<1> QED  BY <1>2, <1>15, <1>16, <1>17, <1>18, NILAssumption

\* A single rotation to the left leaves everything level.
LEMMA LiftLeftTurn ==
    ASSUME NEW h \in Heap, NEW S, NEW r, TreeOf(h, S, r), NEW n \in S, NEW c, Lifting(h, S, n, c),
           NEW q \in Ptr, Leads(Lefts(h), Rights(h), r, q, n),
           NEW u \in Heap, Refreshed(u, h, n), TreeOf(u, S, r), Leads(Lefts(u), Rights(u), r, q, n),
           NEW g, NEW l, l = u[n].right, BalanceFactor(u, n) < -1, BalanceFactor(u, l) <= 0,
           LeftTurn(g, u, S, r, q, n, l)
    PROVE  \A m \in S : Level(g, m)
<1> DEFINE a == Height(h, h[n].left)
           b == Height(h, h[n].right)
           k == h[n].height
           x == Height(u, u[l].left)
           y == Height(u, u[l].right)
<1>1. /\ a \in Nat /\ b \in Nat /\ k \in Nat
      /\ \/ c = h[n].left /\ a > 0 /\ k = (IF a - 1 > b THEN a ELSE 1 + b) /\ a - 1 - b \in -1 .. 1
         \/ c = h[n].right /\ b > 0 /\ k = (IF a > b - 1 THEN 1 + a ELSE b) /\ a - (b - 1) \in -1 .. 1
  BY LiftedNumbers
<1>2. /\ S \subseteq Nodes /\ n \in Nodes /\ n # NIL /\ q # n
      /\ \A m \in S \ {n, q} : Level(u, m) /\ BalanceFactor(u, m) = BalanceFactor(h, m)
      /\ q # NIL => q \in S /\ q \in Nodes /\ n \in {h[q].left, h[q].right} /\ Level(h, q)
  BY BeforeTurn
<1>3. /\ Height(u, u[n].left) = a /\ Height(u, u[n].right) = b /\ BalanceFactor(u, n) = a - b
      /\ \A p \in Ptr \ {n} : Height(u, p) = Height(h, p)
  BY RefreshedHeights DEF BalanceFactor
<1>4. l = h[n].right /\ l \in S /\ l # n /\ q # l /\ l \in Nodes /\ l # NIL
  BY <1>2, NILAssumption DEF Refreshed, LeftTurn
<1> HIDE DEF a, b, k
<1>5. c = l /\ b = a + 2 /\ k = a + 2
  BY <1>1, <1>3, <1>4
<1>6. Height(u, l) = u[l].height /\ u[l].height = b
  BY <1>3, <1>4 DEF Height, a, b
<1>7. /\ Level(u, l) /\ BalanceFactor(u, l) = BalanceFactor(h, l)
  BY <1>2, <1>4
<1>8. /\ u[l].height = 1 + Max2(x, y) /\ x \in Nat /\ y \in Nat /\ x - y \in -1 .. 1
      /\ BalanceFactor(u, l) = x - y
  BY <1>4, <1>7, LevelPositive DEF Level, BalanceFactor
<1>9. h[l].height = b
  <2>1. u[l].height = h[l].height
    BY <1>4 DEF Refreshed
  <2> QED  BY <1>6, <2>1
<1>10. BalanceFactor(h, l) # 0
  BY <1>1, <1>5, <1>9 DEF Lifting, Lifted
<1> HIDE DEF x, y
<1>11. y = a + 1 /\ x = a
  BY <1>1, <1>5, <1>6, <1>7, <1>8, <1>10 DEF Max2
<1>12. /\ Height(g, g[n].right) = x /\ Height(g, g[n].left) = a
       /\ Height(g, g[l].right) = y /\ Height(g, g[l].left) = g[n].height
       /\ \A m \in S \ {n, l, q} : Level(u, m) => Level(g, m)
       /\ q # NIL => /\ g[q].height = u[q].height
                     /\ Height(g, g[q].left) = IF u[q].left = n THEN g[l].height ELSE Height(u, u[q].left)
                     /\ Height(g, g[q].right) = IF u[q].right = n THEN g[l].height ELSE Height(u, u[q].right)
  BY <1>3, LeftTurnHeights DEF x, y
<1>13. g[n].height = 1 + Max2(a, x) /\ g[l].height = 1 + Max2(g[n].height, y)
  BY <1>3 DEF LeftTurn, x, y
<1>14. g[n].height = 1 + a /\ g[l].height = a + 2
  BY <1>1, <1>11, <1>13 DEF Max2
<1>15. Level(g, n)
  BY <1>1, <1>11, <1>12, <1>14 DEF Level, BalanceFactor, Max2
<1>16. Level(g, l)
  BY <1>1, <1>11, <1>12, <1>14 DEF Level, BalanceFactor, Max2
<1>17. q # NIL => Level(g, q)
  <2>1. g[l].height = h[n].height
    BY <1>5, <1>14 DEF k
  <2> QED  BY <1>2, <1>12, <2>1, ParentLevel
<1>18. \A m \in S \ {n, l, q} : Level(g, m)
  BY <1>2, <1>12
<1> QED  BY <1>2, <1>15, <1>16, <1>17, <1>18, NILAssumption

\* A double rotation to the right leaves everything level.
LEMMA LiftDoubleRightTurn ==
    ASSUME NEW h \in Heap, NEW S, NEW r, TreeOf(h, S, r), NEW n \in S, NEW c, Lifting(h, S, n, c),
           NEW q \in Ptr, Leads(Lefts(h), Rights(h), r, q, n),
           NEW u \in Heap, Refreshed(u, h, n), TreeOf(u, S, r), Leads(Lefts(u), Rights(u), r, q, n),
           NEW g, NEW l \in Nodes, l = u[n].left, NEW t \in Nodes, t = u[l].right,
           BalanceFactor(u, n) > 1, BalanceFactor(u, l) < 0,
           NEW w, LeftTurn(w, u, S, r, n, l, t), RightTurn(g, w, S, r, q, n, t)
    PROVE  \A m \in S : Level(g, m)
<1> DEFINE a == Height(h, h[n].left)
           b == Height(h, h[n].right)
           k == h[n].height
           x == Height(u, u[l].left)
           y == Height(u, u[l].right)
           v == Height(u, u[t].left)
           z == Height(u, u[t].right)
<1>1. /\ a \in Nat /\ b \in Nat /\ k \in Nat
      /\ \/ c = h[n].left /\ a > 0 /\ k = (IF a - 1 > b THEN a ELSE 1 + b) /\ a - 1 - b \in -1 .. 1
         \/ c = h[n].right /\ b > 0 /\ k = (IF a > b - 1 THEN 1 + a ELSE b) /\ a - (b - 1) \in -1 .. 1
  BY LiftedNumbers
<1>2. /\ S \subseteq Nodes /\ n \in Nodes /\ n # NIL /\ q # n
      /\ \A m \in S \ {n, q} : Level(u, m) /\ BalanceFactor(u, m) = BalanceFactor(h, m)
      /\ q # NIL => q \in S /\ q \in Nodes /\ n \in {h[q].left, h[q].right} /\ Level(h, q)
  BY BeforeTurn
<1>3. /\ Height(u, u[n].left) = a /\ Height(u, u[n].right) = b /\ BalanceFactor(u, n) = a - b
      /\ \A p \in Ptr \ {n} : Height(u, p) = Height(h, p)
  BY RefreshedHeights DEF BalanceFactor
<1>4. /\ l \in S /\ l # n /\ l # NIL /\ t \in S /\ t # l /\ t # n /\ t # NIL
      /\ u[n].left # u[n].right /\ u[l].left # u[l].right
      /\ \A m \in Nodes \ {n} : l # u[m].left /\ l # u[m].right
      /\ \A m \in Nodes \ {l} : t # u[m].left /\ t # u[m].right
  <2>1. l # NIL /\ t # NIL
    BY NILAssumption
  <2>2. /\ n \in S /\ l \in S /\ l # n /\ u[l].left \notin {l, n} /\ u[l].right \notin {l, n}
        /\ u[n].left # u[n].right /\ \A m \in Nodes \ {n} : l # u[m].left /\ l # u[m].right
    BY <1>2, <2>1, OneParent
  <2>3. /\ t \in S /\ t # l
        /\ u[l].left # u[l].right /\ \A m \in Nodes \ {l} : t # u[m].left /\ t # u[m].right
    BY <2>1, OneParent
  <2> QED  BY <2>1, <2>2, <2>3
<1>5. /\ w \in Heap /\ TreeOf(w, S, r)
      /\ \A m \in Nodes \ {n, l, t} : w[m].left = u[m].left /\ w[m].right = u[m].right
      /\ \A m \in Nodes \ {l, t} : w[m].height = u[m].height
      /\ w[n].left = t /\ w[n].right = u[n].right
  <2>1. w \in Heap /\ TreeOf(w, S, IF n = NIL THEN t ELSE r)
    BY DEF LeftTurn
  <2>2. \A m \in Nodes \ {n, l, t} : w[m].left = u[m].left /\ w[m].right = u[m].right
    BY <1>2 DEF LeftTurn
  <2>3. \A m \in Nodes \ {l, t} : w[m].height = u[m].height
    BY DEF LeftTurn
  <2>4. w[n].left = t /\ w[n].right = u[n].right
    BY <1>2, <1>4, Zenon DEF LeftTurn
  <2> QED  BY <1>2, <2>1, <2>2, <2>3, <2>4
<1>6. l = h[n].left /\ q # t /\ q # n
  BY <1>2, Zenon DEF Refreshed, RightTurn
<1>7. q # l
  <2>1. u[l].left # n /\ u[l].right # n
    BY <1>2, <1>4, OneParent
  <2>2. q # NIL => n \in {u[q].left, u[q].right}
    BY <1>2 DEF Refreshed
  <2> QED  BY <1>4, <2>1, <2>2
<1>8. Leads(Lefts(u), Rights(u), r, n, l)
  BY <1>2, HeapLinks DEF Leads
<1>9. Leads(Lefts(w), Rights(w), r, q, n)
  <2>1. CASE q = NIL
    BY <2>1 DEF Leads
  <2>2. CASE q # NIL
    <3>1. q \in Nodes /\ n \in {u[q].left, u[q].right}
      BY <2>2, HeapLinks DEF Leads
    <3>2. w[q].left = u[q].left /\ w[q].right = u[q].right
      BY <1>5, <1>6, <1>7, <3>1
    <3>3. Lefts(w)[q] = w[q].left /\ Rights(w)[q] = w[q].right
      BY <1>5, <3>1, HeapLinks
    <3> QED  BY <2>2, <3>1, <3>2, <3>3 DEF Leads
  <2> QED  BY <2>1, <2>2
<1> HIDE DEF a, b, k
<1>10. c = l /\ a = b + 2 /\ k = b + 2
  BY <1>1, <1>3, <1>6
<1>11. Height(u, l) = u[l].height /\ u[l].height = a
  BY <1>3, <1>4 DEF Height, a, b
<1>12. Level(u, l) /\ Level(u, t)
  BY <1>2, <1>4, <1>6, <1>7
<1>13. /\ u[l].height = 1 + Max2(x, y) /\ x \in Nat /\ y \in Nat /\ x - y \in -1 .. 1
       /\ BalanceFactor(u, l) = x - y
  BY <1>4, <1>12, LevelPositive, Zenon DEF Level, BalanceFactor
<1>14. /\ u[t].height = 1 + Max2(v, z) /\ v \in Nat /\ z \in Nat /\ v - z \in -1 .. 1
       /\ u[t].height = y
  <2>1. u[t].height = Height(u, t)
    BY <1>4 DEF Height
  <2> QED  BY <1>12, <2>1, LevelPositive, Zenon DEF Level, BalanceFactor
<1>15. /\ Height(w, w[l].right) = v /\ Height(w, w[l].left) = x
       /\ Height(w, w[t].right) = z /\ Height(w, w[t].left) = w[l].height
       /\ \A m \in S \ {l, t, n} : Level(u, m) => Level(w, m)
  <2>1. n \in Ptr
    BY <1>2 DEF Ptr
  <2> QED  BY <1>4, <1>8, <2>1, LeftTurnHeights
<1>16. w[l].height = 1 + Max2(x, v)
  BY Zenon DEF LeftTurn
<1>17. \A p \in Ptr \ {l, t} : Height(w, p) = Height(u, p)
  BY <1>5 DEF Height, Ptr
<1>18. Height(w, w[n].right) = b
  <2>1. u[n].right \in Ptr \ {l, t}
    BY <1>2, <1>4, HeapNode
  <2> QED  BY <1>3, <1>5, <1>17, <2>1
<1>19. /\ Height(g, g[n].left) = z /\ Height(g, g[n].right) = b
       /\ Height(g, g[t].left) = w[l].height /\ Height(g, g[t].right) = g[n].height
       /\ \A m \in S \ {n, t, q} : Level(w, m) => Level(g, m)
       /\ q # NIL => /\ g[q].height = w[q].height
                     /\ Height(g, g[q].left) = IF w[q].left = n THEN g[t].height ELSE Height(w, w[q].left)
                     /\ Height(g, g[q].right) = IF w[q].right = n THEN g[t].height ELSE Height(w, w[q].right)
  <2>1. w \in Heap /\ TreeOf(w, S, r) /\ Leads(Lefts(w), Rights(w), r, q, n)
    BY <1>5, <1>9
  <2>2. /\ Height(g, g[n].left) = Height(w, w[t].right) /\ Height(g, g[n].right) = Height(w, w[n].right)
        /\ Height(g, g[t].left) = Height(w, w[t].left) /\ Height(g, g[t].right) = g[n].height
        /\ \A m \in S \ {n, t, q} : Level(w, m) => Level(g, m)
        /\ q # NIL => /\ g[q].height = w[q].height
                      /\ Height(g, g[q].left) = IF w[q].left = n THEN g[t].height ELSE Height(w, w[q].left)
                      /\ Height(g, g[q].right) = IF w[q].right = n THEN g[t].height ELSE Height(w, w[q].right)
    BY <2>1, RightTurnHeights
  <2> QED  BY <1>15, <1>18, <2>2
<1>20. g[n].height = 1 + Max2(z, b) /\ g[t].height = 1 + Max2(w[l].height, g[n].height)
  BY <1>15, <1>18, Zenon DEF RightTurn
<1> HIDE DEF x, y, v, z
<1>21. y = b + 1 /\ x = b /\ v \in {b - 1, b} /\ z \in {b - 1, b}
  <2>1. x - y = -1
    BY <1>13
  <2>2. 1 + Max2(x, y) = b + 2
    BY <1>10, <1>11, <1>13
  <2>3. y = b + 1 /\ x = b
    BY <1>1, <1>13, <2>1, <2>2 DEF Max2
  <2>4. 1 + Max2(v, z) = b + 1
    BY <1>14, <2>3
  <2>5. v \in {b - 1, b} /\ z \in {b - 1, b}
    BY <1>1, <1>14, <2>4 DEF Max2
  <2> QED  BY <2>3, <2>5
<1>22. w[l].height = 1 + b /\ g[n].height = 1 + b /\ g[t].height = b + 2
  BY <1>1, <1>13, <1>14, <1>16, <1>20, <1>21 DEF Max2
<1>23. Level(w, l)
  <2>1. w[l].height = 1 + Max2(Height(w, w[l].left), Height(w, w[l].right))
    BY <1>15, <1>16
  <2>2. Height(w, w[l].left) - Height(w, w[l].right) \in -1 .. 1
    BY <1>1, <1>14, <1>15, <1>21
  <2> QED  BY <2>1, <2>2 DEF Level, BalanceFactor
<1>24. Level(g, n)
  <2>1. g[n].height = 1 + Max2(Height(g, g[n].left), Height(g, g[n].right))
    BY <1>19, <1>20
  <2>2. Height(g, g[n].left) - Height(g, g[n].right) \in -1 .. 1
    BY <1>1, <1>14, <1>19, <1>21
  <2> QED  BY <2>1, <2>2 DEF Level, BalanceFactor
<1>25. Level(g, t)
  <2>1. g[t].height = 1 + Max2(Height(g, g[t].left), Height(g, g[t].right))
    BY <1>19, <1>20
  <2>2. Height(g, g[t].left) - Height(g, g[t].right) \in -1 .. 1
    BY <1>1, <1>19, <1>22
  <2> QED  BY <2>1, <2>2 DEF Level, BalanceFactor
<1>26. Level(g, l)
  BY <1>4, <1>7, <1>19, <1>23
<1>27. \A m \in S \ {n, l, t, q} : Level(g, m)
  BY <1>2, <1>15, <1>19
<1>28. q # NIL => Level(g, q)
  <2> SUFFICES ASSUME q # NIL PROVE Level(g, q)
    OBVIOUS
  <2>1. g[t].height = h[n].height
    BY <1>10, <1>22 DEF k
  <2>2. q \in Nodes /\ q \notin {n, l, t} /\ u[q].left \in Ptr \ {l, t} /\ u[q].right \in Ptr \ {l, t}
    BY <1>2, <1>4, <1>6, <1>7, HeapNode, Zenon
  <2>3. w[q].left = u[q].left /\ w[q].right = u[q].right /\ w[q].height = u[q].height
    BY <1>5, <2>2
  <2>4. /\ g[q].height = u[q].height
        /\ Height(g, g[q].left) = IF u[q].left = n THEN h[n].height ELSE Height(u, u[q].left)
        /\ Height(g, g[q].right) = IF u[q].right = n THEN h[n].height ELSE Height(u, u[q].right)
    BY <1>17, <1>19, <2>1, <2>2, <2>3
  <2> QED  BY <1>2, <2>4, ParentLevel
<1> QED  BY <1>2, <1>24, <1>25, <1>26, <1>27, <1>28, NILAssumption

\* A double rotation to the left leaves everything level.
LEMMA LiftDoubleLeftTurn ==
    ASSUME NEW h \in Heap, NEW S, NEW r, TreeOf(h, S, r), NEW n \in S, NEW c, Lifting(h, S, n, c),
           NEW q \in Ptr, Leads(Lefts(h), Rights(h), r, q, n),
           NEW u \in Heap, Refreshed(u, h, n), TreeOf(u, S, r), Leads(Lefts(u), Rights(u), r, q, n),
           NEW g, NEW l \in Nodes, l = u[n].right, NEW t \in Nodes, t = u[l].left,
           BalanceFactor(u, n) < -1, BalanceFactor(u, l) > 0,
           NEW w, RightTurn(w, u, S, r, n, l, t), LeftTurn(g, w, S, r, q, n, t)
    PROVE  \A m \in S : Level(g, m)
<1> DEFINE a == Height(h, h[n].left)
           b == Height(h, h[n].right)
           k == h[n].height
           x == Height(u, u[l].left)
           y == Height(u, u[l].right)
           v == Height(u, u[t].left)
           z == Height(u, u[t].right)
<1>1. /\ a \in Nat /\ b \in Nat /\ k \in Nat
      /\ \/ c = h[n].left /\ a > 0 /\ k = (IF a - 1 > b THEN a ELSE 1 + b) /\ a - 1 - b \in -1 .. 1
         \/ c = h[n].right /\ b > 0 /\ k = (IF a > b - 1 THEN 1 + a ELSE b) /\ a - (b - 1) \in -1 .. 1
  BY LiftedNumbers
<1>2. /\ S \subseteq Nodes /\ n \in Nodes /\ n # NIL /\ q # n
      /\ \A m \in S \ {n, q} : Level(u, m) /\ BalanceFactor(u, m) = BalanceFactor(h, m)
      /\ q # NIL => q \in S /\ q \in Nodes /\ n \in {h[q].left, h[q].right} /\ Level(h, q)
  BY BeforeTurn
<1>3. /\ Height(u, u[n].left) = a /\ Height(u, u[n].right) = b /\ BalanceFactor(u, n) = a - b
      /\ \A p \in Ptr \ {n} : Height(u, p) = Height(h, p)
  BY RefreshedHeights DEF BalanceFactor
<1>4. /\ l \in S /\ l # n /\ l # NIL /\ t \in S /\ t # l /\ t # n /\ t # NIL
      /\ u[n].left # u[n].right /\ u[l].left # u[l].right
      /\ \A m \in Nodes \ {n} : l # u[m].left /\ l # u[m].right
      /\ \A m \in Nodes \ {l} : t # u[m].left /\ t # u[m].right
  <2>1. l # NIL /\ t # NIL
    BY NILAssumption
  <2>2. /\ n \in S /\ l \in S /\ l # n /\ u[l].left \notin {l, n} /\ u[l].right \notin {l, n}
        /\ u[n].left # u[n].right /\ \A m \in Nodes \ {n} : l # u[m].left /\ l # u[m].right
    BY <1>2, <2>1, OneParent
  <2>3. /\ t \in S /\ t # l
        /\ u[l].left # u[l].right /\ \A m \in Nodes \ {l} : t # u[m].left /\ t # u[m].right
    BY <2>1, OneParent
  <2> QED  BY <2>1, <2>2, <2>3
<1>5. /\ w \in Heap /\ TreeOf(w, S, r)
      /\ \A m \in Nodes \ {n, l, t} : w[m].left = u[m].left /\ w[m].right = u[m].right
      /\ \A m \in Nodes \ {l, t} : w[m].height = u[m].height
      /\ w[n].right = t /\ w[n].left = u[n].left
  <2>1. w \in Heap /\ TreeOf(w, S, IF n = NIL THEN t ELSE r)
    BY Zenon DEF RightTurn
  <2>2. \A m \in Nodes \ {n, l, t} : w[m].left = u[m].left /\ w[m].right = u[m].right
    BY <1>2, Zenon DEF RightTurn
  <2>3. \A m \in Nodes \ {l, t} : w[m].height = u[m].height
    BY Zenon DEF RightTurn
  <2>4. w[n].right = t /\ w[n].left = u[n].left
    BY <1>2, <1>4, Zenon DEF RightTurn
  <2> QED  BY <1>2, <2>1, <2>2, <2>3, <2>4
<1>6. l = h[n].right /\ q # t /\ q # n
  BY <1>2, Zenon DEF Refreshed, LeftTurn
<1>7. q # l
  <2>1. u[l].left # n /\ u[l].right # n
    BY <1>2, <1>4, OneParent
  <2>2. q # NIL => n \in {u[q].left, u[q].right}
    BY <1>2 DEF Refreshed
  <2> QED  BY <1>4, <2>1, <2>2
<1>8. Leads(Lefts(u), Rights(u), r, n, l)
  BY <1>2, HeapLinks DEF Leads
<1>9. Leads(Lefts(w), Rights(w), r, q, n)
  <2>1. CASE q = NIL
    BY <2>1 DEF Leads
  <2>2. CASE q # NIL
    <3>1. q \in Nodes /\ n \in {u[q].left, u[q].right}
      BY <2>2, HeapLinks DEF Leads
    <3>2. w[q].left = u[q].left /\ w[q].right = u[q].right
      BY <1>5, <1>6, <1>7, <3>1
    <3>3. Lefts(w)[q] = w[q].left /\ Rights(w)[q] = w[q].right
      BY <1>5, <3>1, HeapLinks
    <3> QED  BY <2>2, <3>1, <3>2, <3>3 DEF Leads
  <2> QED  BY <2>1, <2>2
<1> HIDE DEF a, b, k
<1>10. c = l /\ b = a + 2 /\ k = a + 2
  BY <1>1, <1>3, <1>6
<1>11. Height(u, l) = u[l].height /\ u[l].height = b
  BY <1>3, <1>4 DEF Height, a, b
<1>12. Level(u, l) /\ Level(u, t)
  BY <1>2, <1>4, <1>6, <1>7
<1>13. /\ u[l].height = 1 + Max2(x, y) /\ x \in Nat /\ y \in Nat /\ x - y \in -1 .. 1
       /\ BalanceFactor(u, l) = x - y
  BY <1>4, <1>12, LevelPositive, Zenon DEF Level, BalanceFactor
<1>14. /\ u[t].height = 1 + Max2(v, z) /\ v \in Nat /\ z \in Nat /\ v - z \in -1 .. 1
       /\ u[t].height = x
  <2>1. u[t].height = Height(u, t)
    BY <1>4 DEF Height
  <2> QED  BY <1>12, <2>1, LevelPositive, Zenon DEF Level, BalanceFactor
<1>15. /\ Height(w, w[l].left) = z /\ Height(w, w[l].right) = y
       /\ Height(w, w[t].left) = v /\ Height(w, w[t].right) = w[l].height
       /\ \A m \in S \ {l, t, n} : Level(u, m) => Level(w, m)
  <2>1. n \in Ptr
    BY <1>2 DEF Ptr
  <2> QED  BY <1>4, <1>8, <2>1, RightTurnHeights
<1>16. w[l].height = 1 + Max2(z, y)
  BY Zenon DEF RightTurn
<1>17. \A p \in Ptr \ {l, t} : Height(w, p) = Height(u, p)
  BY <1>5 DEF Height, Ptr
<1>18. Height(w, w[n].left) = a
  <2>1. u[n].left \in Ptr \ {l, t}
    BY <1>2, <1>4, HeapNode
  <2> QED  BY <1>3, <1>5, <1>17, <2>1
<1>19. /\ Height(g, g[n].right) = v /\ Height(g, g[n].left) = a
       /\ Height(g, g[t].right) = w[l].height /\ Height(g, g[t].left) = g[n].height
       /\ \A m \in S \ {n, t, q} : Level(w, m) => Level(g, m)
       /\ q # NIL => /\ g[q].height = w[q].height
                     /\ Height(g, g[q].left) = IF w[q].left = n THEN g[t].height ELSE Height(w, w[q].left)
                     /\ Height(g, g[q].right) = IF w[q].right = n THEN g[t].height ELSE Height(w, w[q].right)
  <2>1. w \in Heap /\ TreeOf(w, S, r) /\ Leads(Lefts(w), Rights(w), r, q, n)
    BY <1>5, <1>9
  <2>2. /\ Height(g, g[n].right) = Height(w, w[t].left) /\ Height(g, g[n].left) = Height(w, w[n].left)
        /\ Height(g, g[t].right) = Height(w, w[t].right) /\ Height(g, g[t].left) = g[n].height
        /\ \A m \in S \ {n, t, q} : Level(w, m) => Level(g, m)
        /\ q # NIL => /\ g[q].height = w[q].height
                      /\ Height(g, g[q].left) = IF w[q].left = n THEN g[t].height ELSE Height(w, w[q].left)
                      /\ Height(g, g[q].right) = IF w[q].right = n THEN g[t].height ELSE Height(w, w[q].right)
    BY <2>1, LeftTurnHeights
  <2> QED  BY <1>15, <1>18, <2>2
<1>20. g[n].height = 1 + Max2(a, v) /\ g[t].height = 1 + Max2(g[n].height, w[l].height)
  BY <1>15, <1>18, Zenon DEF LeftTurn
<1> HIDE DEF x, y, v, z
<1>21. x = a + 1 /\ y = a /\ v \in {a - 1, a} /\ z \in {a - 1, a}
  <2>1. x - y = 1
    BY <1>13
  <2>2. 1 + Max2(x, y) = a + 2
    BY <1>10, <1>11, <1>13
  <2>3. x = a + 1 /\ y = a
    BY <1>1, <1>13, <2>1, <2>2 DEF Max2
  <2>4. 1 + Max2(v, z) = a + 1
    BY <1>14, <2>3
  <2>5. v \in {a - 1, a} /\ z \in {a - 1, a}
    BY <1>1, <1>14, <2>4 DEF Max2
  <2> QED  BY <2>3, <2>5
<1>22. w[l].height = 1 + a /\ g[n].height = 1 + a /\ g[t].height = a + 2
  BY <1>1, <1>13, <1>14, <1>16, <1>20, <1>21 DEF Max2
<1>23. Level(w, l)
  <2>1. w[l].height = 1 + Max2(Height(w, w[l].left), Height(w, w[l].right))
    BY <1>15, <1>16
  <2>2. Height(w, w[l].left) - Height(w, w[l].right) \in -1 .. 1
    BY <1>1, <1>14, <1>15, <1>21
  <2> QED  BY <2>1, <2>2 DEF Level, BalanceFactor
<1>24. Level(g, n)
  <2>1. g[n].height = 1 + Max2(Height(g, g[n].left), Height(g, g[n].right))
    BY <1>19, <1>20
  <2>2. Height(g, g[n].left) - Height(g, g[n].right) \in -1 .. 1
    BY <1>1, <1>14, <1>19, <1>21
  <2> QED  BY <2>1, <2>2 DEF Level, BalanceFactor
<1>25. Level(g, t)
  <2>1. g[t].height = 1 + Max2(Height(g, g[t].left), Height(g, g[t].right))
    BY <1>19, <1>20
  <2>2. Height(g, g[t].left) - Height(g, g[t].right) \in -1 .. 1
    BY <1>1, <1>19, <1>22
  <2> QED  BY <2>1, <2>2 DEF Level, BalanceFactor
<1>26. Level(g, l)
  BY <1>4, <1>7, <1>19, <1>23
<1>27. \A m \in S \ {n, l, t, q} : Level(g, m)
  BY <1>2, <1>15, <1>19
<1>28. q # NIL => Level(g, q)
  <2> SUFFICES ASSUME q # NIL PROVE Level(g, q)
    OBVIOUS
  <2>1. g[t].height = h[n].height
    BY <1>10, <1>22 DEF k
  <2>2. q \in Nodes /\ q \notin {n, l, t} /\ u[q].left \in Ptr \ {l, t} /\ u[q].right \in Ptr \ {l, t}
    BY <1>2, <1>4, <1>6, <1>7, HeapNode, Zenon
  <2>3. w[q].left = u[q].left /\ w[q].right = u[q].right /\ w[q].height = u[q].height
    BY <1>5, <2>2
  <2>4. /\ g[q].height = u[q].height
        /\ Height(g, g[q].left) = IF u[q].left = n THEN h[n].height ELSE Height(u, u[q].left)
        /\ Height(g, g[q].right) = IF u[q].right = n THEN h[n].height ELSE Height(u, u[q].right)
    BY <1>17, <1>19, <2>1, <2>2, <2>3
  <2> QED  BY <1>2, <2>4, ParentLevel
<1> QED  BY <1>2, <1>24, <1>25, <1>26, <1>27, <1>28, NILAssumption

\* So one rotation ends it.
LEMMA LiftTurned ==
    ASSUME NEW h \in Heap, NEW S, NEW r, TreeOf(h, S, r), NEW n \in S, NEW c, Lifting(h, S, n, c),
           NEW q \in Ptr, Leads(Lefts(h), Rights(h), r, q, n),
           NEW u \in Heap, Refreshed(u, h, n), TreeOf(u, S, r), Leads(Lefts(u), Rights(u), r, q, n),
           NEW g, NEW top, Rebalancing(g, u, S, r, q, n, top), top # n
    PROVE  \A m \in S : Level(g, m)
<1>1. n \in Nodes
  BY Children
<1>2. CASE BalanceFactor(u, n) > 1 /\ BalanceFactor(u, u[n].left) >= 0 /\ RightTurn(g, u, S, r, q, n, u[n].left)
  <2>1. PICK l : l = u[n].left
    OBVIOUS
  <2>2. BalanceFactor(u, n) > 1 /\ BalanceFactor(u, l) >= 0 /\ RightTurn(g, u, S, r, q, n, l)
    BY <1>2, <2>1
  <2> QED  BY <2>1, <2>2, LiftRightTurn
<1>3. CASE BalanceFactor(u, n) < -1 /\ BalanceFactor(u, u[n].right) <= 0 /\ LeftTurn(g, u, S, r, q, n, u[n].right)
  <2>1. PICK l : l = u[n].right
    OBVIOUS
  <2>2. BalanceFactor(u, n) < -1 /\ BalanceFactor(u, l) <= 0 /\ LeftTurn(g, u, S, r, q, n, l)
    BY <1>3, <2>1
  <2> QED  BY <2>1, <2>2, LiftLeftTurn
<1>4. CASE /\ BalanceFactor(u, n) > 1 /\ BalanceFactor(u, u[n].left) < 0 /\ top = u[u[n].left].right
           /\ \E w : LeftTurn(w, u, S, r, n, u[n].left, top) /\ RightTurn(g, w, S, r, q, n, top)
  <2>1. PICK l \in Nodes : l = u[n].left
    BY <1>1, <1>4, HighSide
  <2>2. PICK t \in Nodes : t = u[l].right
    BY <1>4, <2>1, HighSide
  <2>3. PICK w : LeftTurn(w, u, S, r, n, l, t) /\ RightTurn(g, w, S, r, q, n, t)
    BY <1>4, <2>1, <2>2
  <2>4. BalanceFactor(u, n) > 1 /\ BalanceFactor(u, l) < 0
    BY <1>4, <2>1
  <2> QED  BY <2>1, <2>2, <2>3, <2>4, LiftDoubleRightTurn, Zenon
<1>5. CASE /\ BalanceFactor(u, n) < -1 /\ BalanceFactor(u, u[n].right) > 0 /\ top = u[u[n].right].left
           /\ \E w : RightTurn(w, u, S, r, n, u[n].right, top) /\ LeftTurn(g, w, S, r, q, n, top)
  <2>1. PICK l \in Nodes : l = u[n].right
    BY <1>1, <1>5, HighSide
  <2>2. PICK t \in Nodes : t = u[l].left
    BY <1>5, <2>1, HighSide
  <2>3. PICK w : RightTurn(w, u, S, r, n, l, t) /\ LeftTurn(g, w, S, r, q, n, t)
    BY <1>5, <2>1, <2>2
  <2>4. BalanceFactor(u, n) < -1 /\ BalanceFactor(u, l) > 0
    BY <1>5, <2>1
  <2> QED  BY <2>1, <2>2, <2>3, <2>4, LiftDoubleLeftTurn
<1> QED  BY <1>2, <1>3, <1>4, <1>5 DEF Rebalancing

\* The nodes of S have the same pointers and heights in g as in h.
SameForm(g, h, S) ==
    \A m \in S : g[m].left = h[m].left /\ g[m].right = h[m].right /\ g[m].height = h[m].height

\* Then they are level in both, or in neither.
LEMMA FormLevel ==
    ASSUME NEW h \in Heap, NEW S, NEW r, TreeOf(h, S, r), NEW g, SameForm(g, h, S)
    PROVE  /\ \A m \in S : Level(h, m) => Level(g, m)
           /\ \A m \in S : BalanceFactor(g, m) = BalanceFactor(h, m)
           /\ \A n \in S : \A c : Lifting(h, S, n, c) => Lifting(g, S, n, c)
<1>1. \A m \in S : m \in Nodes /\ h[m].left \in S \cup {NIL} /\ h[m].right \in S \cup {NIL}
  BY Children
<1>2. \A m \in S \cup {NIL} : Height(g, m) = Height(h, m)
  BY DEF Height, SameForm
<1>3. \A m \in S : /\ Height(g, g[m].left) = Height(h, h[m].left)
                   /\ Height(g, g[m].right) = Height(h, h[m].right)
  BY <1>1, <1>2 DEF SameForm
<1>4. \A m \in S : Level(h, m) => Level(g, m)
  BY <1>3, LevelKept DEF SameForm
<1>5. \A m \in S : BalanceFactor(g, m) = BalanceFactor(h, m)
  BY <1>3 DEF BalanceFactor
<1>6. ASSUME NEW n \in S, NEW c, Lifting(h, S, n, c) PROVE Lifting(g, S, n, c)
  <2>1. c \in S /\ Lifted(h, n, c) /\ \A m \in S \ {n} : Level(g, m)
    BY <1>4, <1>6 DEF Lifting
  <2>2. /\ g[n].left = h[n].left /\ g[n].right = h[n].right /\ g[n].height = h[n].height
        /\ g[c].height = h[c].height /\ BalanceFactor(g, c) = BalanceFactor(h, c)
    BY <1>5, <2>1 DEF SameForm
  <2>3. Lifted(g, n, c)
    BY <1>3, <2>1, <2>2 DEF Lifted
  <2> QED  BY <2>1, <2>3 DEF Lifting
<1> QED  BY <1>4, <1>5, <1>6

\* g is h with a leaf f put under n, on a side where n had no child.
Planted(g, h, n, f) ==
    /\ g \in Heap /\ f # n
    /\ g[f].left = NIL /\ g[f].right = NIL /\ g[f].height = 1
    /\ \A m \in Nodes \ {f} : g[m].height = h[m].height
    /\ \A m \in Nodes \ {f, n} : g[m].left = h[m].left /\ g[m].right = h[m].right
    /\ \/ h[n].left = NIL /\ g[n].left = f /\ g[n].right = h[n].right
       \/ h[n].right = NIL /\ g[n].right = f /\ g[n].left = h[n].left

\* The leaf lifts n.
LEMMA LeafLifts ==
    ASSUME NEW h \in Heap, NEW S, NEW r, TreeOf(h, S, r), NEW n \in S, NEW f \in Nodes \ S,
           NEW g, Planted(g, h, n, f), \A m \in S : Level(h, m)
    PROVE  Lifting(g, S \cup {f}, n, f)
<1>1. \A m \in S : /\ m \in Nodes /\ m # f /\ h[m].left \in S \cup {NIL} /\ h[m].right \in S \cup {NIL}
                   /\ h[m].left # f /\ h[m].right # f
  BY Children, NILAssumption
<1>2. \A m \in S \cup {NIL} : Height(g, m) = Height(h, m)
  BY <1>1 DEF Height, Planted
<1>3. f # NIL /\ f \in Nodes
  BY NILAssumption
<1>4. Height(g, NIL) = 0 /\ Height(h, NIL) = 0 /\ Height(g, f) = 1
  BY <1>3 DEF Height, Planted
<1>5. Level(g, f)
  <2>1. g[f].height = 1 + Max2(0, 0) /\ 0 - 0 \in -1 .. 1
    BY DEF Planted, Max2
  <2> QED  BY <1>4, <2>1 DEF Level, BalanceFactor, Planted
<1>6. ASSUME NEW m \in S \ {n} PROVE Level(g, m)
  <2>1. g[m].height = h[m].height /\ g[m].left = h[m].left /\ g[m].right = h[m].right
    BY <1>1 DEF Planted
  <2> QED  BY <1>1, <1>2, <2>1, LevelKept
<1>7. Lifted(g, n, f)
  <2> DEFINE x == Height(h, h[n].left)
             y == Height(h, h[n].right)
  <2>1. /\ h[n].height = 1 + Max2(x, y) /\ x - y \in -1 .. 1
    BY DEF Level, BalanceFactor
  <2>2. x \in Nat /\ y \in Nat
    <3>1. h[n].left \in Ptr /\ h[n].right \in Ptr
      BY <1>1, HeapNode
    <3> QED  BY <3>1, HeightAt
  <2>3. g[n].height = h[n].height /\ g[f].height = 1
    BY <1>1 DEF Planted
  <2>4. CASE h[n].left = NIL /\ g[n].left = f /\ g[n].right = h[n].right
    <3>1. x = 0 /\ Height(g, g[n].left) = 1 /\ Height(g, g[n].right) = y /\ f # g[n].right
      BY <1>1, <1>2, <1>4, <2>4
    <3> HIDE DEF x, y
    <3>2. g[n].height = 1 + Max2(1 - 1, y - 0) /\ (1 - 1) - (y - 0) \in -1 .. 1
      BY <2>1, <2>2, <2>3, <3>1
    <3> QED  BY <1>3, <2>3, <2>4, <3>1, <3>2 DEF Lifted
  <2>5. CASE h[n].right = NIL /\ g[n].right = f /\ g[n].left = h[n].left
    <3>1. y = 0 /\ Height(g, g[n].right) = 1 /\ Height(g, g[n].left) = x /\ f # g[n].left
      BY <1>1, <1>2, <1>4, <2>5
    <3> HIDE DEF x, y
    <3>2. g[n].height = 1 + Max2(x - 0, 1 - 1) /\ (x - 0) - (1 - 1) \in -1 .. 1
      BY <2>1, <2>2, <2>3, <3>1
    <3> QED  BY <1>3, <2>3, <2>5, <3>1, <3>2 DEF Lifted
  <2> QED  BY <2>4, <2>5 DEF Planted
<1> QED  BY <1>1, <1>5, <1>6, <1>7 DEF Lifting

\* __ttree_new_left and __ttree_new_right.
LEMMA PlantGrows ==
    ASSUME NEW h, NEW r, NEW n, NEW side, CanPlant(h, r, n, side),
           NEW e \in Entry \cup {None}, NEW g, g = WithChild(h, n, side, e)
    PROVE  /\ Fresh \in Nodes \ used /\ Planted(g, h, n, Fresh)
           /\ side = "left" => g[n].left = Fresh
<1>0. /\ h \in Heap /\ TreeOf(h, used, r) /\ n \in used /\ used \subseteq Nodes /\ CanAllocate
      /\ side \in {"left", "right"}
      /\ (side = "left" => h[n].left = NIL) /\ (side = "right" => h[n].right = NIL)
  BY DEF CanPlant
<1>1. PICK f \in Nodes \ used : f = Fresh
  BY <1>0, FreshNew
<1>2. h[f].left = NIL /\ h[f].right = NIL /\ n # f /\ n \in Nodes
  BY <1>0, <1>1, Outside
<1>3. PICK w : w = IF e = None THEN Cleared(h, f) ELSE Started(h, f, e)
  OBVIOUS
<1>4. w \in Heap /\ SameLinks(w, h) /\ w[f].height = 1 /\ \A m \in Nodes : m # f => w[m] = h[m]
  <2>1. CASE e = None
    <3>1. w = Cleared(h, f)
      BY <1>3, <2>1
    <3>2. w[f] = Blank
      BY <1>0, <1>1, <3>1 DEF Cleared, Heap
    <3> QED  BY <1>0, <1>1, <1>2, <3>1, <3>2, ClearedKeeps DEF Blank
  <2>2. CASE e # None
    <3>1. w = Started(h, f, e) /\ e \in Entry
      BY <1>3, <2>2
    <3> QED  BY <1>0, <1>1, <1>2, <3>1, StartedKeeps, StartedItems
  <2> QED  BY <2>1, <2>2
<1>5. \A m \in Nodes : w[m].left = h[m].left /\ w[m].right = h[m].right
  BY <1>0, <1>4, LinksSame
<1>6. g = IF side = "left" THEN [w EXCEPT ![n].left = f] ELSE [w EXCEPT ![n].right = f]
  <2>1. CASE e = None
    <3>1. w = Cleared(h, Fresh)
      BY <1>1, <1>3, <2>1
    <3> QED  BY <1>1, <2>1, <3>1 DEF WithChild, Cleared
  <2>2. CASE e # None
    <3>1. w = Started(h, Fresh, e)
      BY <1>1, <1>3, <2>2
    <3> QED  BY <1>1, <2>2, <3>1 DEF WithChild, Started, Cleared
  <2> QED  BY <2>1, <2>2
<1>7. g \in Heap
  <2>1. f \in Ptr /\ w \in Heap /\ n \in Nodes
    BY <1>1, <1>2, <1>4 DEF Ptr
  <2>2. [w EXCEPT ![n].left = f] \in Heap /\ [w EXCEPT ![n].right = f] \in Heap
    BY <2>1, SetLeftType, SetRightType, Zenon
  <2> QED  BY <1>6, <2>2
<1>8. /\ \A m \in Nodes : g[m].height = w[m].height
      /\ \A m \in Nodes \ {n} : g[m] = w[m]
      /\ side = "left" => g[n].left = f /\ g[n].right = w[n].right
      /\ side = "right" => g[n].right = f /\ g[n].left = w[n].left
  <2>1. w \in [Nodes -> TNode]
    BY <1>4 DEF Heap
  <2>2. CASE side = "left"
    BY <1>2, <1>6, <2>1, <2>2 DEF TNode
  <2>3. CASE side = "right"
    BY <1>2, <1>6, <2>1, <2>3 DEF TNode
  <2> QED  BY <1>0, <2>2, <2>3
<1>9. Planted(g, h, n, f)
  BY <1>0, <1>2, <1>4, <1>5, <1>7, <1>8 DEF Planted
<1> QED  BY <1>1, <1>8, <1>9

\* The stored height of a node brought up to date.
LEMMA UpdateRefreshes ==
    ASSUME NEW h \in Heap, NEW n \in Nodes
    PROVE  Refreshed(UpdateHeight(h, n), h, n)
BY UpdateHeightRest DEF Refreshed

\* Of a level node it is already.
LEMMA LevelRefreshed ==
    ASSUME NEW h, NEW u, NEW n \in Nodes, Refreshed(u, h, n), Level(h, n)
    PROVE  SameForm(u, h, Nodes)
BY DEF Refreshed, Level, SameForm

\* Which node comes on top of a rebalanced subtree.
LEMMA TopTurned ==
    ASSUME NEW h \in Heap, NEW S, NEW r, TreeOf(h, S, r), NEW n \in S,
           NEW q, NEW g, NEW top, Rebalancing(g, h, S, r, q, n, top)
    PROVE  top = n <=> BalanceFactor(h, n) \in -1 .. 1
<1>1. n \in Nodes /\ h[n].left # n /\ h[n].right # n /\ BalanceFactor(h, n) \in Int
  <2>1. n \in Nodes /\ n # NIL
    BY Children, NILAssumption
  <2>2. h[n].left \in Ptr /\ h[n].right \in Ptr
    BY <2>1, HeapNode
  <2>3. Height(h, h[n].left) \in Nat /\ Height(h, h[n].right) \in Nat
    BY <2>2, HeightAt
  <2> QED  BY <2>1, <2>3, Children DEF BalanceFactor
<1>2. CASE BalanceFactor(h, n) \in -1 .. 1
  BY <1>2 DEF Rebalancing
<1>3. CASE BalanceFactor(h, n) > 1
  <2>1. PICK l \in Nodes : l = h[n].left
    BY <1>1, <1>3, HighSide
  <2>2. top = l \/ top = h[l].right
    BY <1>1, <1>3, <2>1 DEF Rebalancing
  <2>3. l # n /\ h[l].right # n
    BY <1>1, <2>1, OneParent, NILAssumption
  <2> QED  BY <1>3, <2>2, <2>3
<1>4. CASE BalanceFactor(h, n) < -1
  <2>1. PICK l \in Nodes : l = h[n].right
    BY <1>1, <1>4, HighSide
  <2>2. top = l \/ top = h[l].left
    BY <1>1, <1>4, <2>1 DEF Rebalancing
  <2>3. l # n /\ h[l].left # n
    BY <1>1, <2>1, OneParent, NILAssumption
  <2> QED  BY <1>4, <2>2, <2>3
<1> QED  BY <1>1, <1>2, <1>3, <1>4

\* __ensure_min_len changes no pointer and no height.
LEMMA EnsureMinLenForm ==
    ASSUME NEW h \in Heap, NEW S, NEW r, TreeOf(h, S, r), NEW n \in S, EnsureMinLenAsserts(h, n),
           \A m \in S : Whole(h, m), \A m \in S : m # n => Rich(h, m),
           NEW g, g = EnsureMinLen(h, n)
    PROVE  SameForm(g, h, Nodes)
<1>1. CASE ~ShortOfRecords(h, n)
  BY <1>1 DEF EnsureMinLen, SameForm
<1>2. CASE ShortOfRecords(h, n)
  <2>1. \E l \in S, k \in S, f \in Nat, x \in Nat, y \in Nat, a \in Heap : Refilled(g, h, n, l, k, f, x, y, a)
    BY <1>2, EnsureMinLenMoves
  <2>2. PICK l \in S, k \in S : \E f \in Nat, x \in Nat, y \in Nat, a \in Heap : Refilled(g, h, n, l, k, f, x, y, a)
    BY <2>1
  <2>3. PICK f \in Nat, x \in Nat : \E y \in Nat, a \in Heap : Refilled(g, h, n, l, k, f, x, y, a)
    BY <2>2
  <2>4. PICK y \in Nat, a \in Heap : Refilled(g, h, n, l, k, f, x, y, a)
    BY <2>3
  <2>5. n \in Nodes /\ l \in Nodes /\ k \in Nodes
    BY Children
  <2>6. /\ MoveAsserts(h, n, 0, l, f, x) /\ Length(h, n) + x <= NodeSize /\ a = Move(h, n, 0, l, f, x)
        /\ MoveAsserts(a, n, Length(a, n), k, 0, y) /\ Length(a, n) + y <= NodeSize
        /\ g = Move(a, n, Length(a, n), k, 0, y)
    BY <2>4 DEF Refilled
  <2>7. \A m \in Nodes : a[m].left = h[m].left /\ a[m].right = h[m].right /\ a[m].height = h[m].height
    BY <2>5, <2>6, MoveItems
  <2>8. PICK p \in Nat : p = Length(a, n)
    BY <2>5, HeapNode DEF Length
  <2>9. MoveAsserts(a, n, p, k, 0, y) /\ g = Move(a, n, p, k, 0, y) /\ Length(a, n) + y <= NodeSize
    BY <2>6, <2>8
  <2>10. \A m \in Nodes : g[m].left = a[m].left /\ g[m].right = a[m].right /\ g[m].height = a[m].height
    BY <2>5, <2>9, MoveItems
  <2> QED  BY <2>7, <2>10 DEF SameForm
<1> QED  BY <1>1, <1>2

-----------------------------------------------------------------------------
(* The invariant of the heights of a tree that is never removed from.       *)

\* Every node of the tree is level, or an insert or a load has just lifted one.
Even == \A m \in Linked : Level(heap, m)

\* One node of the tree is one level higher than its parent knows: it is the one that just grew, and the trace
\* leads to its parent.
Uneven ==
    /\ pc \in {"place", "rebalance"} /\ trace # <<>> /\ Last(trace) \in Linked
    /\ \E c \in Linked : Lifting(heap, Linked, Last(trace), c) /\ (pc = "place" => c = node)

\* What holds while a tree only grows: every stored height is exact and every node balanced but for the one that
\* just grew, which the handler under way is going to pass on its way up.
Growing ==
    /\ pc \notin {"steal", "fix"} /\ (pc # "idle" => call.op # "remove")
    /\ pc = "found" => node = Last(trace)
    /\ pc = "place" => /\ trace # <<>> /\ Last(trace) \in Linked
                       /\ node \in {heap[Last(trace)].left, heap[Last(trace)].right}
    /\ current # NIL => heap[current].height = 1
    /\ \/ Even /\ (pc = "place" => heap[node].ids # <<>>)
       \/ Uneven /\ (pc = "place" => heap[node].ids = <<>>)

\* The inductive invariant of the balance of a tree without removals.
BInv == SInv /\ Growing

\* The nodes of the tree are nodes of a tree.
LEMMA LinkedTree ==
    ASSUME SInv
    PROVE  heap \in Heap /\ Linked \subseteq Nodes /\ TreeOf(heap, Linked, root) /\ used \subseteq Nodes
           /\ trace \in Seq(Nodes) /\ node \in Ptr
BY TypeHeap DEF SInv, IInv, TypeOK, Structure, Shape, Linked

\* No step of a call that does not insert or load changes a height.
LEMMA StaysEven ==
    ASSUME SInv, Even, UNCHANGED <<used, current>>, SameForm(heap', heap, Linked),
           current # NIL => heap[current].height = 1 /\ heap'[current].height = 1,
           pc' \notin {"steal", "fix", "place"}, pc' # "idle" => call'.op # "remove",
           pc' = "found" => node' = Last(trace')
    PROVE  Growing'
<1>1. Linked' = Linked
  BY DEF Linked
<1>2. PICK g : g = heap'
  OBVIOUS
<1>3. \A m \in Linked : Level(g, m)
  BY <1>2, LinkedTree, FormLevel DEF Even
<1>4. Even'
  BY <1>1, <1>2, <1>3 DEF Even
<1> QED  BY <1>4 DEF Growing

\* An unchanged heap has its form.
LEMMA SameHeapForm ==
    ASSUME NEW S PROVE SameForm(heap, heap, S)
BY DEF SameForm

\* Balance holds at the start.
LEMMA InitGrowing == Init => BInv
<1> SUFFICES ASSUME Init PROVE BInv
  OBVIOUS
<1>1. SInv
  BY InitStructure
<1>2. Growing
  BY DEF Init, Growing, Even, Linked
<1> QED  BY <1>1, <1>2 DEF BInv

\* Starting an operation keeps the balance invariant.
LEMMA CallGrowing == ASSUME BInv, Call, Removes = {} PROVE Growing'
<1>1. ASSUME NEW c, Begin(c), c.op # "remove"
      PROVE  Growing'
  <2>1. pc = "idle" /\ pc' = "start" /\ call' = c /\ UNCHANGED <<root, heap, used, current>>
    BY <1>1 DEF Begin, memory, locals
  <2>2. SInv /\ Even /\ (current # NIL => heap[current].height = 1)
    BY <2>1 DEF BInv, Growing, Uneven
  <2>3. SameForm(heap', heap, Linked)
    BY <2>1, SameHeapForm
  <2> QED  BY <1>1, <2>1, <2>2, <2>3, StaysEven
<1>2. CASE CallGet
  BY <1>1, <1>2 DEF CallGet
<1>3. CASE CallInsert
  BY <1>1, <1>3 DEF CallInsert
<1>4. CASE CallRemove
  BY <1>4 DEF CallRemove
<1>5. CASE CallIterate
  BY <1>1, <1>5 DEF CallIterate
<1>6. CASE CallDestroy
  BY <1>1, <1>6 DEF CallDestroy
<1>7. CASE CallLoad
  BY <1>1, <1>7 DEF CallLoad
<1> QED  BY <1>2, <1>3, <1>4, <1>5, <1>6, <1>7 DEF Call

\* The steps that leave the heap alone, but for Displace's descent and the rebalancing.
LEMMA ReadingGrowing ==
    ASSUME BInv, \/ SearchSteps \/ Return \/ IterateSteps \/ InsertExisting
                 \/ StartLoad \/ AttachDescend \/ LoadEnd
    PROVE  Growing'
<1> USE DEF Goto, Settle, At, memory, locals
<1>1. UNCHANGED <<heap, used>> /\ pc \notin {"place", "rebalance"} /\ pc' \notin {"steal", "fix", "place"}
  <2>1. CASE SearchSteps
    BY <2>1 DEF SearchSteps, EmptyTree, StartSearch, SearchRight, SearchLeft, SearchHere, SearchOff, Get
  <2>2. CASE Return
    BY <2>2 DEF Return
  <2>3. CASE IterateSteps
    BY <2>3 DEF IterateSteps, StartIterate, IterDescend, IterReady, IterNext, IterClimb, IterEnd
  <2>4. CASE InsertExisting
    BY <2>4 DEF InsertExisting
  <2>5. CASE StartLoad \/ AttachDescend \/ LoadEnd
    BY <2>5 DEF StartLoad, AttachDescend, LoadEnd
  <2> QED  BY <2>1, <2>2, <2>3, <2>4, <2>5
<1>2. SInv /\ Even /\ (current # NIL => heap[current].height = 1)
  BY <1>1 DEF BInv, Growing, Uneven
<1>3. SameForm(heap', heap, Linked)
  BY <1>1, SameHeapForm
<1>4. CASE Return
  <2>1. pc = "return" /\ pc' = "idle" /\ current' = NIL
    BY <1>4 DEF Return
  <2>2. current = NIL
    BY <1>2, <2>1, Calm
  <2> QED  BY <1>1, <1>2, <1>3, <2>1, <2>2, StaysEven
<1>5. CASE SearchSteps
  <2>1. current' = current /\ call' = call /\ pc # "idle"
    BY <1>5 DEF SearchSteps, EmptyTree, StartSearch, SearchRight, SearchLeft, SearchHere, SearchOff, Get
  <2>2. call'.op # "remove"
    BY <2>1 DEF BInv, Growing
  <2>3. pc' = "found" => node' = Last(trace')
    <3>1. CASE EmptyTree \/ StartSearch \/ SearchRight \/ SearchLeft \/ Get
      BY <3>1 DEF EmptyTree, StartSearch, SearchRight, SearchLeft, Get
    <3>2. CASE SearchHere
      <4>1. trace' = Append(trace, node) /\ node' = node /\ node # NIL
        BY <3>2 DEF SearchHere
      <4>2. trace \in Seq(Nodes) /\ node \in Nodes
        BY <1>2, <4>1, LinkedTree DEF Ptr
      <4> QED  BY <4>1, <4>2, LastAppend
    <3>3. CASE SearchOff
      BY <3>3 DEF SearchOff
    <3> QED  BY <1>5, <3>1, <3>2, <3>3 DEF SearchSteps
  <2> QED  BY <1>1, <1>2, <1>3, <2>1, <2>2, <2>3, StaysEven
<1>6. CASE IterateSteps \/ InsertExisting \/ StartLoad \/ AttachDescend \/ LoadEnd
  <2>1. current' = current /\ call' = call /\ pc # "idle" /\ pc' # "found"
    <3>1. CASE IterateSteps
      BY <3>1 DEF IterateSteps, StartIterate, IterDescend, IterReady, IterNext, IterClimb, IterEnd
    <3>2. CASE InsertExisting \/ StartLoad \/ AttachDescend \/ LoadEnd
      BY <3>2 DEF InsertExisting, StartLoad, AttachDescend, LoadEnd
    <3> QED  BY <1>6, <3>1, <3>2
  <2>2. call'.op # "remove"
    BY <2>1 DEF BInv, Growing
  <2> QED  BY <1>1, <1>2, <1>3, <2>1, <2>2, StaysEven
<1> QED  BY <1>4, <1>5, <1>6

\* Destroying the tree keeps the balance invariant.
LEMMA DestroyGrowing == ASSUME BInv, Destroy PROVE Growing'
<1>1. /\ used' = {} /\ current' = current /\ pc = "start" /\ pc' = "return" /\ call' = call
  BY DEF Destroy, Goto, At, locals
<1>2. current = NIL
  BY <1>1, Calm DEF BInv
<1> QED  BY <1>1, <1>2 DEF BInv, Growing, Even, Linked

\* In a tree without removals none of removal's steps is ever taken.
LEMMA RemoveGrowing == ASSUME BInv, RemoveSteps PROVE FALSE
BY DEF RemoveSteps, RemoveMissing, RemoveFromInternal, RemoveFromOther, StealDescend, Steal,
       FixNothing, FixEmptyLeaf, FixMerge, At, BInv, Growing

\* A tree of one node.
LEMMA LoneLevel ==
    ASSUME NEW g, NEW f, g[f].left = NIL, g[f].right = NIL, g[f].height = 1
    PROVE  Level(g, f)
<1>1. Height(g, NIL) = 0
  BY DEF Height
<1>2. g[f].height = 1 + Max2(0, 0) /\ 0 - 0 \in -1 .. 1
  BY DEF Max2
<1> QED  BY <1>1, <1>2 DEF Level, BalanceFactor

\* A fresh node that holds one entry.
LEMMA StartedForm ==
    ASSUME SInv, CanAllocate, NEW e \in Entry, NEW g, g = NodeInsert([heap EXCEPT ![Fresh] = Blank], Fresh, 0, e)
    PROVE  /\ Fresh \in Nodes \ used /\ Fresh # NIL
           /\ g[Fresh].left = NIL /\ g[Fresh].right = NIL /\ g[Fresh].height = 1
           /\ SameForm(g, heap, Linked)
<1>1. PICK f \in Nodes \ used : f = Fresh
  BY LinkedTree, FreshNew
<1>2. heap[f].left = NIL /\ heap[f].right = NIL /\ heap \in Heap /\ f \notin Linked
  BY <1>1, LinkedTree, Outside DEF Linked
<1>3. g = Started(heap, f, e)
  BY <1>1 DEF Started, Cleared
<1>4. SameLinks(g, heap) /\ g[f].height = 1 /\ g \in Heap /\ \A m \in Nodes : m # f => g[m] = heap[m]
  <2>1. PICK h \in Heap : h = heap
    BY <1>2
  <2>2. PICK w : w = Started(h, f, e)
    OBVIOUS
  <2>3. f \in Nodes /\ h[f].left = NIL /\ h[f].right = NIL /\ e \in Entry
    BY <1>2, <2>1
  <2>4. SameLinks(w, h) /\ w \in Heap /\ \A m \in Nodes : m # f => w[m] = h[m]
    BY <2>2, <2>3, StartedKeeps
  <2>5. w[f].height = 1
    BY <2>2, <2>3, StartedItems
  <2> QED  BY <1>3, <2>1, <2>2, <2>4, <2>5, Zenon
<1>5. g[f].left = NIL /\ g[f].right = NIL
  BY <1>1, <1>2, <1>4, LinksSame
<1>6. SameForm(g, heap, Linked)
  BY <1>2, <1>4, LinkedTree, Zenon DEF SameForm
<1> QED  BY <1>1, <1>4, <1>5, <1>6, NILAssumption

\* The first insertion keeps the balance invariant.
LEMMA InsertRootGrowing == ASSUME BInv, InsertRoot PROVE Growing'
<1>1. /\ pc = "start" /\ pc' = "return" /\ root = NIL /\ CanAllocate /\ UNCHANGED <<current, call>>
      /\ used' = used \cup {Fresh}
      /\ heap' = NodeInsert([heap EXCEPT ![Fresh] = Blank], Fresh, 0, call.item)
      /\ call.op = "insert"
  BY DEF InsertRoot, Goto, At, locals
<1>2. call.item \in Entry
  BY <1>1, CallType DEF BInv, SInv, IInv, Control
<1>3. current = NIL /\ Linked = used
  BY <1>1, Calm DEF BInv
<1>4. used = {}
  BY <1>1, <1>3, LinkedTree, Children, NILAssumption DEF BInv
<1>5. PICK g : g = heap'
  OBVIOUS
<1>6. g[Fresh].left = NIL /\ g[Fresh].right = NIL /\ g[Fresh].height = 1
  BY <1>1, <1>2, <1>5, StartedForm, Zenon DEF BInv
<1>7. Level(g, Fresh)
  BY <1>6, LoneLevel
<1>8. Linked' = {Fresh} \ {NIL}
  BY <1>1, <1>3, <1>4 DEF Linked
<1>9. Even'
  BY <1>5, <1>7, <1>8 DEF Even
<1> QED  BY <1>1, <1>3, <1>9 DEF Growing

\* Inserting into a node changes no pointer and no height.
LEMMA SetItemsForm ==
    ASSUME NEW h \in Heap, NEW n \in Nodes, NEW i, NEW d
    PROVE  SameForm(SetItems(h, n, i, d), h, Nodes)
<1>1. h \in [Nodes -> TNode]
  BY DEF Heap
<1>2. ASSUME NEW m \in Nodes
      PROVE  /\ SetItems(h, n, i, d)[m].left = h[m].left /\ SetItems(h, n, i, d)[m].right = h[m].right
             /\ SetItems(h, n, i, d)[m].height = h[m].height
  <2>1. h[m] \in TNode
    BY <1>1
  <2>2. CASE m = n
    BY <1>1, <2>1, <2>2 DEF SetItems, TNode
  <2>3. CASE m # n
    BY <1>1, <2>1, <2>3 DEF SetItems, TNode
  <2> QED  BY <2>2, <2>3
<1> QED  BY <1>2 DEF SameForm

\* Inserting into a node changes neither links nor heights.
LEMMA NodeInsertForm ==
    ASSUME NEW h \in Heap, NEW n \in Nodes, NEW p, NEW e
    PROVE  SameForm(NodeInsert(h, n, p, e), h, Nodes)
BY SetItemsForm DEF NodeInsert

\* Displacing an item changes neither links nor heights.
LEMMA InsertRemovingFirstForm ==
    ASSUME NEW h \in Heap, NEW n \in Nodes, NEW p, NEW e
    PROVE  SameForm(InsertRemovingFirst(h, n, p, e), h, Nodes)
<1> DEFINE g == InsertRemovingFirst(h, n, p, e)
<1>1. h \in [Nodes -> TNode]
  BY DEF Heap
<1>2. ASSUME NEW m \in Nodes
      PROVE  g[m].left = h[m].left /\ g[m].right = h[m].right /\ g[m].height = h[m].height
  <2>1. h[m] \in TNode
    BY <1>1
  <2>2. CASE m = n
    BY <1>1, <2>1, <2>2 DEF InsertRemovingFirst, TNode
  <2>3. CASE m # n
    BY <1>1, <2>1, <2>3 DEF InsertRemovingFirst, TNode
  <2> QED  BY <2>2, <2>3
<1> QED  BY <1>2 DEF SameForm

\* Where a search or an insert has found a node.
LEMMA GrowingFound ==
    ASSUME BInv, pc = "found"
    PROVE  /\ current = NIL /\ Linked = used /\ used \subseteq Nodes /\ heap \in Heap
           /\ TreeOf(heap, used, root) /\ node \in used /\ node \in Nodes /\ node = Last(trace) /\ trace # <<>>
           /\ \A m \in used : Whole(heap, m) /\ Rich(heap, m)
           /\ \A m \in used : Level(heap, m)
           /\ pos \in Nat /\ pos <= Length(heap, node) /\ call.op # "remove"
<1>1. current = NIL /\ Linked = used /\ used \subseteq Nodes /\ heap \in Heap
      /\ TreeOf(heap, used, root) /\ \A m \in used : Whole(heap, m) /\ Rich(heap, m)
  BY Calm DEF BInv
<1>2. node \in used /\ node \in Nodes /\ trace # <<>> /\ pos \in Nat /\ pos <= Length(heap, node)
  BY <1>1 DEF BInv, SInv, IInv, TypeOK, Control, Structure, Cursors
<1>3. node = Last(trace) /\ call.op # "remove" /\ \A m \in used : Level(heap, m)
  BY <1>1 DEF BInv, Growing, Uneven, Even
<1> QED  BY <1>1, <1>2, <1>3

\* Inserting into the found node keeps the balance invariant.
LEMMA InsertHereGrowing == ASSUME BInv, InsertHere PROVE Growing'
<1>1. /\ pc = "found" /\ pc' = "return" /\ UNCHANGED <<used, current, call>>
      /\ heap' = NodeInsert(heap, node, pos, call.item)
  BY DEF InsertHere, Goto, At, locals
<1>2. SameForm(heap', heap, Linked)
  BY <1>1, GrowingFound, NodeInsertForm DEF SameForm
<1>3. SInv /\ Even /\ current = NIL /\ call.op # "remove"
  BY <1>1, GrowingFound DEF BInv, Even
<1> QED  BY <1>1, <1>2, <1>3, StaysEven

\* Inserting into a new child keeps the balance invariant: the parent's height is now due.
LEMMA InsertChildGrowing == ASSUME BInv, Asserted, InsertChild PROVE Growing'
<1> DEFINE side == IF pos = 0 THEN "left" ELSE "right"
<1>1. /\ pc = "found" /\ pc' = "rebalance" /\ UNCHANGED <<current, call, trace>>
      /\ heap' = WithChild(heap, node, side, call.item) /\ used' = used \cup {Fresh}
      /\ Full(node) /\ CanAllocate /\ pos \in {0, NodeSize} /\ call.op = "insert" /\ ~Exists
  BY DEF InsertChild, Goto, At, locals
<1>2. call.item \in Entry \cup {None}
  BY <1>1, CallType DEF BInv, SInv, IInv, Control
<1>3. (pos = 0 => heap[node].left = NIL) /\ (pos # 0 => heap[node].right = NIL)
  BY <1>1 DEF Asserted, InsertAsserts, At
<1>4. side \in {"left", "right"} /\ (side = "left" => heap[node].left = NIL)
      /\ (side = "right" => heap[node].right = NIL)
  BY <1>3
<1> HIDE DEF side
<1>5. Length(heap, node) >= MinLen
  <2>1. Length(heap, node) \in Nat /\ MinLen \in Nat /\ MinLen <= NodeSize /\ NodeSize \in Nat
    BY <1>1, GrowingFound, HeapNode, MinLenType, SizeAssumption
  <2> QED  BY <1>1, <2>1 DEF Full
<1>6. CanPlant(heap, root, node, side)
  BY <1>1, <1>4, <1>5, GrowingFound DEF CanPlant
<1>7. PICK f, g : f = Fresh /\ g = heap'
  OBVIOUS
<1>8. f \in Nodes \ used /\ Planted(g, heap, node, f)
  BY <1>1, <1>2, <1>6, <1>7, PlantGrows
<1>a. PICK r : r = root
  OBVIOUS
<1>9. PICK h \in Heap : h = heap /\ r = root
  BY <1>a, <1>1, GrowingFound
<1>10. PICK S, n : S = used /\ n = node
  OBVIOUS
<1>11. TreeOf(h, S, r) /\ n \in S /\ f \in Nodes \ S /\ Planted(g, h, n, f) /\ \A m \in S : Level(h, m)
  BY <1>1, <1>8, <1>9, <1>10, GrowingFound
<1>12. Lifting(g, S \cup {f}, n, f)
  BY <1>11, LeafLifts
<1>13. Linked' = S \cup {f} /\ f # NIL /\ current' = NIL
  BY <1>1, <1>7, <1>8, <1>10, GrowingFound, NILAssumption DEF Linked
<1>14. Uneven'
  BY <1>1, <1>7, <1>10, <1>11, <1>12, <1>13, GrowingFound DEF Uneven
<1> QED  BY <1>1, <1>13, <1>14 DEF Growing

\* Displacing an item keeps the balance invariant.
LEMMA DisplaceGrowing == ASSUME BInv, Asserted, Displace PROVE Growing'
<1>1. PICK shifted : shifted = InsertRemovingFirst(heap, node, pos, call.item)
  OBVIOUS
<1>2. /\ pc = "found" /\ pc' = "place" /\ UNCHANGED <<root, current, call, trace>>
      /\ Full(node) /\ pos \notin {0, NodeSize} /\ call.op = "insert" /\ node' = heap'[node].left
      /\ ~Exists
      /\ heap[node].left # NIL => heap' = shifted /\ used' = used
      /\ heap[node].left = NIL => /\ CanAllocate /\ used' = used \cup {Fresh}
                                  /\ heap' = WithChild(shifted, node, "left", None)
  BY <1>1 DEF Displace, Goto, At
<1>3. call.item \in Entry /\ Length(heap, node) \in 1 .. NodeSize /\ Length(heap, node) = NodeSize
      /\ pos \in 1 .. Length(heap, node) /\ pos < Length(heap, node) /\ MinLen <= NodeSize
  <2>1. call.item \in Entry
    BY <1>2, CallType DEF BInv, SInv, IInv, Control
  <2>2. Length(heap, node) \in 1 .. NodeSize
    BY <1>2 DEF Asserted, InsertAsserts, At
  <2>3. NodeSize \in Nat /\ MinLen <= NodeSize
    BY MinLenType, SizeAssumption
  <2> QED  BY <1>2, <2>1, <2>2, <2>3, GrowingFound DEF Full
<1>a. PICK r : r = root
  OBVIOUS
<1>4. PICK h \in Heap : h = heap /\ r = root
  BY <1>a, <1>2, GrowingFound
<1>5. PICK S, n : S = used /\ n = node
  OBVIOUS
<1>6. /\ TreeOf(h, S, r) /\ n \in S /\ n \in Nodes /\ S \subseteq Nodes /\ \A m \in S : Level(h, m)
      /\ \A m \in S : Whole(h, m) /\ Rich(h, m)
  BY <1>2, <1>4, <1>5, GrowingFound
<1>7. /\ shifted \in Heap /\ SameForm(shifted, h, Nodes) /\ SameLinks(shifted, h)
      /\ Length(shifted, n) = Length(h, n) /\ Whole(shifted, n) /\ \A m \in Nodes : m # n => shifted[m] = h[m]
  <2>1. PICK p \in Nat, e \in Entry : p = pos /\ e = call.item
    BY <1>2, <1>3, GrowingFound
  <2>2. shifted = InsertRemovingFirst(h, n, p, e) /\ p \in 1 .. Length(h, n) /\ p \in Nat /\ p < Length(h, n)
        /\ 1 <= p
    BY <1>1, <1>2, <1>3, <1>4, <1>5, <2>1, GrowingFound
  <2>3. SameForm(shifted, h, Nodes)
    BY <1>6, <2>2, InsertRemovingFirstForm
  <2>4. shifted \in Heap /\ \A m \in Nodes : m # n => shifted[m] = h[m]
    BY <1>6, <2>2, InsertRemovingFirstType
  <2>5. SameLinks(shifted, h) /\ Length(shifted, n) = Length(h, n) /\ Whole(shifted, n)
    BY <1>6, <2>2, InsertRemovingFirstKeeps
  <2> QED  BY <2>3, <2>4, <2>5
<1>8. TreeOf(shifted, S, r) /\ \A m \in S : Level(shifted, m)
  <2>1. SameForm(shifted, h, S)
    BY <1>6, <1>7 DEF SameForm
  <2> QED  BY <1>6, <1>7, <2>1, LinksSame, FormLevel
<1>9. current' = NIL /\ trace' # <<>> /\ Last(trace') = n
  BY <1>2, <1>5, GrowingFound
<1>10. CASE heap[node].left # NIL
  <2>1. heap' = shifted /\ Linked' = S /\ node' = h[n].left /\ node' \in S /\ node' # n
    <3>1. h[n].left \in S /\ h[n].left # n /\ shifted[n].left = h[n].left
      BY <1>4, <1>5, <1>6, <1>7, <1>10, Children DEF SameForm
    <3> QED  BY <1>2, <1>4, <1>5, <1>9, <1>10, <3>1, GrowingFound, NILAssumption DEF Linked
  <2>2. Even'
    BY <1>8, <2>1 DEF Even
  <2>3. heap'[node'].ids # <<>>
    <3>1. shifted[node'] = h[node'] /\ Whole(h, node')
      BY <1>6, <1>7, <2>1
    <3> QED  BY <2>1, <3>1 DEF Whole
  <2>4. node' = heap'[n].left
    BY <1>2, <1>5
  <2> QED  BY <1>2, <1>6, <1>9, <2>1, <2>2, <2>3, <2>4 DEF Growing
<1>11. CASE heap[node].left = NIL
  <2>1. PICK f, g : f = Fresh /\ g = heap'
    OBVIOUS
  <2>2. CanPlant(shifted, root, node, "left")
    <3>1. shifted[n].left = NIL
      BY <1>4, <1>5, <1>6, <1>7, <1>11 DEF SameForm
    <3>2. \A m \in S : Whole(shifted, m) /\ Rich(shifted, m)
      <4>1. \A m \in S : Rich(shifted, m)
        <5>1. \A m \in S : Length(shifted, m) = Length(h, m)
          BY <1>6, <1>7 DEF Length
        <5>2. \A m \in S : Internal(shifted, m) <=> Internal(h, m)
          BY <1>6, <1>7 DEF SameForm, Internal
        <5> QED  BY <1>6, <5>1, <5>2 DEF Rich
      <4>2. \A m \in S : Whole(shifted, m)
        BY <1>6, <1>7 DEF Whole
      <4> QED  BY <4>1, <4>2
    <3>3. Length(shifted, n) >= MinLen
      BY <1>3, <1>4, <1>5, <1>7, MinLenType, SizeAssumption
    <3> QED  BY <1>2, <1>4, <1>5, <1>6, <1>7, <1>8, <1>11, <3>1, <3>2, <3>3 DEF CanPlant
  <2>3. /\ f \in Nodes \ used /\ Planted(g, shifted, node, f) /\ g[node].left = f
        /\ g[f].ids = <<>>
    <3>1. g = WithChild(shifted, node, "left", None) /\ None \in Entry \cup {None}
      BY <1>2, <1>11, <2>1
    <3>2. f \in Nodes \ used /\ Planted(g, shifted, node, f) /\ g[node].left = f
      BY <2>1, <2>2, <3>1, PlantGrows
    <3>3. g[f].ids = <<>>
      BY <2>1, <2>2, <3>1, PlantKeeps
    <3> QED  BY <3>2, <3>3
  <2>4. f \in Nodes \ S /\ Planted(g, shifted, n, f)
    BY <1>5, <2>3
  <2>5. Lifting(g, S \cup {f}, n, f)
    BY <1>6, <1>7, <1>8, <2>4, LeafLifts
  <2>6. Linked' = S \cup {f} /\ f # NIL /\ node' = f
    <3>1. node' = f
      BY <1>2, <2>1, <2>3
    <3>2. used' = S \cup {f} /\ f # NIL /\ NIL \notin S
      BY <1>2, <1>5, <1>6, <1>11, <2>1, <2>4, NILAssumption
    <3> QED  BY <1>9, <3>1, <3>2 DEF Linked
  <2>7. Uneven'
    BY <1>2, <1>6, <1>9, <2>1, <2>5, <2>6 DEF Uneven
  <2>8. heap'[node'].ids = <<>> /\ node' = heap'[n].left
    BY <1>2, <1>5, <2>1, <2>3, <2>6
  <2> QED  BY <1>2, <1>6, <1>9, <2>6, <2>7, <2>8 DEF Growing
<1> QED  BY <1>10, <1>11

\* While the displaced entry is on its way.
LEMMA GrowingPlace ==
    ASSUME BInv, pc = "place"
    PROVE  /\ current = NIL /\ Linked = used /\ used \subseteq Nodes /\ heap \in Heap
           /\ TreeOf(heap, used, root) /\ node \in used /\ node \in Nodes /\ node # NIL
           /\ hand \in Entry /\ call.op # "remove" /\ trace \in Seq(Nodes) /\ trace # <<>> /\ Last(trace) \in used
           /\ node \in {heap[Last(trace)].left, heap[Last(trace)].right}
           /\ \/ (\A m \in used : Level(heap, m)) /\ heap[node].ids # <<>>
              \/ Lifting(heap, used, Last(trace), node) /\ heap[node].ids = <<>> /\ heap[node].right = NIL
           /\ \A m \in used : Rich(heap, m) /\ (m # node => Whole(heap, m))
           /\ heap[node].ids # <<>> => Whole(heap, node)
<1>1. /\ current = NIL /\ Linked = used /\ used \subseteq Nodes /\ heap \in Heap
      /\ TreeOf(heap, used, root) /\ node \in used /\ hand \in Entry
      /\ \A m \in used : Rich(heap, m) /\ (m # node => Whole(heap, m))
      /\ heap[node].ids # <<>> => Whole(heap, node)
      /\ heap[node].ids = <<>> => heap[node].right = NIL
  BY Placing DEF BInv
<1>2. node \in Nodes /\ node # NIL /\ trace \in Seq(Nodes)
  BY <1>1, LinkedTree, NILAssumption DEF BInv
<1>3. /\ call.op # "remove" /\ trace # <<>> /\ Last(trace) \in used
      /\ node \in {heap[Last(trace)].left, heap[Last(trace)].right}
  BY <1>1 DEF BInv, Growing
<1>4. \/ (\A m \in used : Level(heap, m)) /\ heap[node].ids # <<>>
      \/ Lifting(heap, used, Last(trace), node) /\ heap[node].ids = <<>> /\ heap[node].right = NIL
  BY <1>1 DEF BInv, Growing, Even, Uneven
<1> QED  BY <1>1, <1>2, <1>3, <1>4

\* A step down of the displaced item keeps the balance invariant.
LEMMA PlaceDescendGrowing == ASSUME BInv, PlaceDescend PROVE Growing'
<1>1. /\ pc = "place" /\ pc' = "place" /\ UNCHANGED <<heap, used, current, call>>
      /\ heap[node].right # NIL /\ trace' = Append(trace, node) /\ node' = heap[node].right
  BY DEF PlaceDescend, memory
<1>2. trace' # <<>> /\ Last(trace') = node /\ Linked' = used /\ current' = NIL
  BY <1>1, GrowingPlace, LastAppend DEF Linked
<1>3. (\A m \in used : Level(heap, m)) /\ Whole(heap, node') /\ call.op # "remove"
  <2>1. \A m \in used : Level(heap, m)
    BY <1>1, GrowingPlace
  <2>2. node' \in used /\ node' # node
    BY <1>1, GrowingPlace, Children
  <2> QED  BY <1>1, <2>1, <2>2, GrowingPlace
<1>4. Even'
  BY <1>1, <1>2, <1>3 DEF Even
<1>5. heap'[node'].ids # <<>>
  BY <1>1, <1>3 DEF Whole
<1>6. Last(trace') \in Linked' /\ node' \in {heap'[Last(trace')].left, heap'[Last(trace')].right}
  BY <1>1, <1>2, GrowingPlace
<1> QED  BY <1>1, <1>2, <1>3, <1>4, <1>5, <1>6 DEF Growing

\* Putting the displaced item into the node it reached keeps the balance invariant.
LEMMA PlaceGrowing == ASSUME BInv, Place PROVE Growing'
<1>1. /\ pc = "place" /\ UNCHANGED <<used, current, call, trace>> /\ ~Full(node)
      /\ heap' = NodeInsert(heap, node, Length(heap, node), hand)
      /\ pc' = IF Length(heap', node) > 1 THEN "return" ELSE "rebalance"
  BY DEF Place, Goto
<1>2. PICK g : g = heap'
  OBVIOUS
<1>a. PICK r : r = root
  OBVIOUS
<1>3. PICK h \in Heap : h = heap /\ r = root
  BY <1>a, <1>1, GrowingPlace
<1>4. PICK S, n : S = used /\ n = node
  OBVIOUS
<1>5. TreeOf(h, S, r) /\ n \in S /\ n \in Nodes /\ S \subseteq Nodes
  BY <1>1, <1>3, <1>4, GrowingPlace
<1>6. SameForm(g, h, S)
  BY <1>1, <1>2, <1>3, <1>4, <1>5, NodeInsertForm DEF SameForm
<1>7. Length(g, n) = Length(h, n) + 1
  <2>1. Length(h, n) \in Nat /\ NodeSize \in Nat
    BY <1>5, HeapNode, SizeAssumption
  <2>2. Length(h, n) \in 0 .. Length(h, n) /\ Length(h, n) < NodeSize
    BY <1>1, <1>3, <1>4, <2>1 DEF Full
  <2>3. PICK e \in Entry : e = hand
    BY <1>1, GrowingPlace
  <2>4. PICK w, p : p = Length(h, n) /\ w = NodeInsert(h, n, p, e)
    OBVIOUS
  <2>5. Length(w, n) = Length(h, n) + 1
    BY <1>5, <2>2, <2>3, <2>4, NodeInsertType
  <2> QED  BY <1>1, <1>2, <1>3, <1>4, <2>3, <2>4, <2>5
<1>8. Linked' = S /\ current' = NIL /\ call'.op # "remove" /\ trace' = trace
  BY <1>1, <1>4, GrowingPlace DEF Linked
<1>9. CASE (\A m \in S : Level(h, m)) /\ h[n].ids # <<>>
  <2>1. Length(h, n) \in Nat /\ Length(h, n) # 0
    BY <1>5, <1>9, HeapNode, NotEmpty DEF Length
  <2>2. pc' = "return"
    BY <1>1, <1>2, <1>4, <1>7, <2>1
  <2>3. \A m \in S : Level(g, m)
    BY <1>5, <1>6, <1>9, FormLevel
  <2>4. Even'
    BY <1>2, <1>8, <2>3 DEF Even
  <2> QED  BY <1>8, <2>2, <2>4 DEF Growing
<1>10. CASE Lifting(h, S, Last(trace), n) /\ h[n].ids = <<>>
  <2>1. pc' = "rebalance"
    BY <1>1, <1>2, <1>4, <1>7, <1>10 DEF Length
  <2>2. PICK t \in S : t = Last(trace)
    BY <1>1, <1>4, GrowingPlace
  <2>3. Lifting(g, S, t, n)
    BY <1>5, <1>6, <1>10, <2>2, FormLevel
  <2>4. Uneven'
    BY <1>1, <1>2, <1>5, <1>8, <2>1, <2>2, <2>3, GrowingPlace DEF Uneven
  <2> QED  BY <1>8, <2>1, <2>4 DEF Growing
<1> QED  BY <1>1, <1>3, <1>4, <1>9, <1>10, GrowingPlace

\* The new leaf under a full node may lift that node, and it the node above.
LEMMA PlaceBelowGrowing == ASSUME BInv, Asserted, PlaceBelow PROVE Growing'
<1>1. PICK g : g = WithChild(heap, node, "right", hand)
  OBVIOUS
<1>2. /\ pc = "place" /\ pc' = "rebalance" /\ UNCHANGED <<root, current, call, trace>>
      /\ heap' = UpdateHeight(g, node) /\ used' = used \cup {Fresh}
      /\ Full(node) /\ heap[node].right = NIL /\ CanAllocate
  BY <1>1 DEF PlaceBelow, Goto
<1>a. PICK r : r = root
  OBVIOUS
<1>3. PICK h \in Heap : h = heap /\ r = root
  BY <1>a, <1>2, GrowingPlace
<1>4. PICK S, n : S = used /\ n = node
  OBVIOUS
<1>0. PICK f : f = Fresh
  OBVIOUS
<1>5. PICK q \in S : f = Fresh /\ q = Last(trace)
  BY <1>0, <1>2, <1>4, GrowingPlace
<1>6. /\ TreeOf(h, S, r) /\ n \in S /\ n \in Nodes /\ n # NIL /\ S \subseteq Nodes /\ q # NIL
      /\ n \in {h[q].left, h[q].right}
  BY <1>2, <1>3, <1>4, <1>5, GrowingPlace, NILAssumption
<1>7. Length(h, n) >= MinLen /\ Length(h, n) > 0 /\ h[n].ids # <<>>
  <2>1. Length(h, n) \in Nat /\ MinLen \in Nat /\ MinLen <= NodeSize /\ NodeSize \in Nat /\ NodeSize > 0
    BY <1>6, HeapNode, MinLenType, SizeAssumption
  <2>2. Length(h, n) >= NodeSize
    BY <1>2, <1>3, <1>4 DEF Full
  <2>3. Length(h, n) >= MinLen /\ Length(h, n) > 0
    BY <2>1, <2>2
  <2> QED  BY <1>6, <2>3, HeapNode, NotEmpty DEF Length
<1>8. \A m \in S : Level(h, m) /\ Rich(h, m) /\ Whole(h, m)
  BY <1>2, <1>3, <1>4, <1>7, GrowingPlace
<1>9. CanPlant(heap, root, node, "right")
  BY <1>2, <1>3, <1>4, <1>6, <1>7, <1>8 DEF CanPlant
<1>10. hand \in Entry \cup {None}
  BY <1>2, GrowingPlace
<1>11. f \in Nodes \ used /\ Planted(g, heap, node, f) /\ g \in Heap /\ TreeOf(g, used \cup {f}, root)
  <2>1. Fresh \in Nodes \ used /\ Planted(g, heap, node, Fresh)
    BY <1>1, <1>9, <1>10, PlantGrows
  <2>2. g \in Heap /\ TreeOf(g, used \cup {Fresh}, root)
    BY <1>1, <1>9, <1>10, PlantKeeps, Zenon
  <2> QED  BY <1>5, <2>1, <2>2
<1>12. f \in Nodes \ S /\ Planted(g, h, n, f) /\ TreeOf(g, S \cup {f}, r)
  BY <1>3, <1>4, <1>11
<1>13. PICK T : T = S \cup {f}
  BY Zenon
<1>14. Lifting(g, T, n, f) /\ TreeOf(g, T, r) /\ n \in T /\ q \in T /\ q \in Ptr
  BY <1>6, <1>8, <1>12, <1>13, LeafLifts DEF Ptr
<1>15. PICK u : u = UpdateHeight(g, n)
  OBVIOUS
<1>16. Refreshed(u, g, n)
  BY <1>6, <1>11, <1>15, UpdateRefreshes
<1>17. g[q].left = h[q].left /\ g[q].right = h[q].right
  <2>1. q # n /\ q # f
    BY <1>6, <1>12, Children
  <2> QED  BY <1>6, <1>12, <2>1 DEF Planted
<1>18. Leads(Lefts(g), Rights(g), r, q, n)
  BY <1>6, <1>11, <1>17, HeapLinks DEF Leads
<1>19. BalanceFactor(u, n) \in -1 .. 1
  <2>1. Height(h, h[n].left) <= 1
    BY <1>2, <1>3, <1>4 DEF Asserted, InsertAsserts
  <2>2. h[n].left \in S \cup {NIL} /\ h[n].left \in Ptr
    BY <1>6, Children, HeapNode
  <2>3. Height(h, h[n].left) \in Nat
    BY <2>2, HeightAt
  <2>4. g[n].left = h[n].left /\ g[n].right = f /\ h[n].left # f
    <3>1. h[n].left = NIL => g[n].left # g[n].right
      BY <1>6, <1>11, Children, OneParent, <1>12, <1>14, NILAssumption DEF Planted
    <3>2. h[n].left # f
      BY <1>12, <2>2, NILAssumption
    <3>3. CASE h[n].left = NIL /\ g[n].left = f /\ g[n].right = h[n].right
      <4>1. Lefts(g) = Lefts(h)
        <5>1. h[f].left = NIL /\ h[f].right = NIL /\ n # f
          BY <1>6, <1>12, Outside
        <5>2. PICK e \in Entry \cup {None} : e = hand
          BY <1>10
        <5>3. h \in Heap /\ n \in Nodes /\ used \subseteq Nodes /\ CanAllocate /\ n # Fresh
              /\ h[Fresh].left = NIL /\ h[Fresh].right = NIL
          BY <1>0, <1>2, <1>4, <1>6, <5>1
        <5>4. g = WithChild(h, n, "right", e)
          BY <1>1, <1>3, <1>4, <5>2
        <5> QED  BY <5>3, <5>4, WithChildKeeps
      <4>2. g[n].left = h[n].left
        BY <1>6, <1>11, <4>1, HeapLinks
      <4> QED  BY <1>12, <3>3, <4>2, NILAssumption
    <3> QED  BY <1>12, <3>2, <3>3 DEF Planted
  <2>5. Height(g, g[n].left) = Height(h, h[n].left)
    <3>1. CASE h[n].left = NIL
      BY <2>4, <3>1 DEF Height
    <3>2. CASE h[n].left # NIL
      <4>1. h[n].left \in Nodes \ {f}
        BY <1>6, <2>2, <2>4, <3>2
      <4>2. g[h[n].left].height = h[h[n].left].height
        BY <1>12, <4>1 DEF Planted
      <4> QED  BY <2>4, <3>2, <4>2 DEF Height
    <3> QED  BY <3>1, <3>2
  <2>6. Height(g, g[n].right) = 1
    BY <1>12, <2>4, NILAssumption DEF Height, Planted
  <2>7. BalanceFactor(u, n) = BalanceFactor(g, n)
    BY <1>11, <1>14, <1>16, RefreshedHeights
  <2> QED  BY <2>1, <2>3, <2>5, <2>6, <2>7 DEF BalanceFactor
<1>20. (\A m \in T : Level(u, m)) \/ Lifting(u, T, q, n)
  BY <1>11, <1>14, <1>16, <1>18, <1>19, LiftUp
<1>21. u = heap' /\ Linked' = T /\ current' = NIL /\ call'.op # "remove" /\ q = Last(trace') /\ trace' # <<>>
  <2>1. u = heap' /\ current' = NIL /\ call'.op # "remove" /\ q = Last(trace') /\ trace' # <<>>
    BY <1>2, <1>4, <1>5, <1>15, GrowingPlace
  <2>2. used' = T /\ NIL \notin T
    BY <1>2, <1>4, <1>5, <1>6, <1>12, <1>13, NILAssumption
  <2> QED  BY <2>1, <2>2 DEF Linked
<1>22. Even' \/ Uneven'
  BY <1>2, <1>14, <1>20, <1>21 DEF Even, Uneven
<1> QED  BY <1>2, <1>21, <1>22 DEF Growing

\* What a rebalancing works on.
LEMMA GrowingTurn ==
    ASSUME BInv, Asserted, pc = "rebalance", trace # <<>>
    PROVE  /\ current = NIL /\ Linked = used /\ used \subseteq Nodes /\ heap \in Heap
           /\ TreeOf(heap, used, root) /\ Last(trace) \in used /\ Last(trace) \in Nodes
           /\ Parent(Front(trace)) \in Ptr
           /\ Leads(Lefts(heap), Rights(heap), root, Parent(Front(trace)), Last(trace))
           /\ Refreshed(Updated, heap, Last(trace)) /\ Updated \in Heap /\ TreeOf(Updated, used, root)
           /\ Leads(Lefts(Updated), Rights(Updated), root, Parent(Front(trace)), Last(trace))
           /\ Rebalancing(Rotated, Updated, used, root, Parent(Front(trace)), Last(trace), Rebalanced.top)
           /\ call.op # "remove"
           /\ \/ \A m \in used : Level(heap, m)
              \/ \E c \in used : Lifting(heap, used, Last(trace), c)
<1>1. SInv
  BY DEF BInv
<1>2. /\ current = NIL /\ Linked = used /\ used \subseteq Nodes /\ heap \in Heap /\ TreeOf(heap, used, root)
  BY <1>1, Calm
<1>3. /\ Last(trace) \in used /\ Last(trace) \in Nodes /\ Parent(Front(trace)) \in Ptr
      /\ Leads(Lefts(heap), Rights(heap), root, Parent(Front(trace)), Last(trace))
  BY <1>1, RebalancingAt
<1>4. Refreshed(Updated, heap, Last(trace))
  BY <1>2, <1>3, UpdateRefreshes DEF Updated
<1>5. /\ Updated \in Heap /\ TreeOf(Updated, used, root)
      /\ Leads(Lefts(Updated), Rights(Updated), root, Parent(Front(trace)), Last(trace))
      /\ Rebalancing(Rotated, Updated, used, root, Parent(Front(trace)), Last(trace), Rebalanced.top)
  BY <1>1, TurnedTree
<1>6. /\ call.op # "remove"
      /\ \/ \A m \in used : Level(heap, m)
         \/ \E c \in used : Lifting(heap, used, Last(trace), c)
  BY <1>2 DEF BInv, Growing, Even, Uneven
<1> QED  BY <1>2, <1>3, <1>4, <1>5, <1>6

\* A step up of the rebalancing passes the missing level on to the next parent.
LEMMA RebalanceUpGrowing == ASSUME BInv, Asserted, RebalanceUp PROVE Growing'
<1>1. /\ pc = "rebalance" /\ pc' = "rebalance" /\ UNCHANGED <<root, used, call, current>> /\ trace # <<>>
      /\ Rebalanced.top = Last(trace) /\ heap' = Rebalanced.heap /\ trace' = Front(trace)
  BY DEF RebalanceUp
<1>2. heap' = Updated
  BY <1>1, TurnedTree DEF BInv
<1>a. PICK r : r = root
  OBVIOUS
<1>3. PICK h \in Heap : h = heap /\ r = root
  BY <1>a, <1>1, GrowingTurn
<1>4. PICK S, u, g : S = used /\ u = Updated /\ g = Rotated
  OBVIOUS
<1>5. PICK n \in Nodes, q \in Ptr : n = Last(trace) /\ q = Parent(Front(trace))
  BY <1>1, GrowingTurn
<1>6. /\ TreeOf(h, S, r) /\ n \in S /\ S \subseteq Nodes /\ Leads(Lefts(h), Rights(h), r, q, n)
      /\ Refreshed(u, h, n) /\ u \in Heap /\ TreeOf(u, S, r)
      /\ Rebalancing(g, u, S, r, q, n, n)
  BY <1>1, <1>3, <1>4, <1>5, GrowingTurn
<1>7. BalanceFactor(u, n) \in -1 .. 1
  BY <1>6, TopTurned
<1>8. Linked' = S /\ current' = NIL /\ call'.op # "remove" /\ heap' = u
  BY <1>1, <1>2, <1>4, GrowingTurn DEF Linked
<1>9. CASE \A m \in S : Level(h, m)
  <2>1. SameForm(u, h, S)
    BY <1>6, <1>9, LevelRefreshed DEF SameForm
  <2>2. \A m \in S : Level(u, m)
    BY <1>6, <1>9, <2>1, FormLevel
  <2>3. Even'
    BY <1>8, <2>2 DEF Even
  <2> QED  BY <1>1, <1>8, <2>3 DEF Growing
<1>10. CASE \E c \in S : Lifting(h, S, n, c)
  <2>1. PICK c \in S : Lifting(h, S, n, c)
    BY <1>10
  <2>2. (\A m \in S : Level(u, m)) \/ (q # NIL /\ q \in S /\ Lifting(u, S, q, n))
    BY <1>6, <1>7, <2>1, LiftUp
  <2>3. q # NIL => trace' # <<>> /\ Last(trace') = q
    BY <1>1, <1>5 DEF Parent
  <2>4. Even' \/ Uneven'
    BY <1>1, <1>6, <1>8, <2>2, <2>3 DEF Even, Uneven
  <2> QED  BY <1>1, <1>8, <2>4 DEF Growing
<1> QED  BY <1>1, <1>3, <1>4, <1>5, <1>9, <1>10, GrowingTurn

\* A rotation makes up for the level the subtree grew.
LEMMA RebalanceRotateGrowing == ASSUME BInv, Asserted, RebalanceRotate PROVE Growing'
<1>1. /\ pc = "rebalance" /\ pc' \in {"load", "return"} /\ UNCHANGED <<used, call, current>> /\ trace # <<>>
      /\ Rebalanced.top # Last(trace) /\ heap' = EnsureMinLen(Rotated, Rebalanced.top)
  BY DEF RebalanceRotate, Goto, AfterRebalance
<1>a. PICK r : r = root
  OBVIOUS
<1>3. PICK h \in Heap : h = heap /\ r = root
  BY <1>a, <1>1, GrowingTurn
<1>4. PICK S, u : S = used /\ u = Updated
  OBVIOUS
<1>5. PICK n \in Nodes, q \in Ptr : n = Last(trace) /\ q = Parent(Front(trace))
  BY <1>1, GrowingTurn
<1>6. PICK g, top : g = Rotated /\ top = Rebalanced.top
  OBVIOUS
<1>7. /\ TreeOf(h, S, r) /\ n \in S /\ S \subseteq Nodes /\ Leads(Lefts(h), Rights(h), r, q, n)
      /\ Refreshed(u, h, n) /\ u \in Heap /\ TreeOf(u, S, r) /\ Leads(Lefts(u), Rights(u), r, q, n)
      /\ Rebalancing(g, u, S, r, q, n, top) /\ top # n
  BY <1>1, <1>3, <1>4, <1>5, <1>6, GrowingTurn
<1>8. Linked' = S /\ current' = NIL /\ call'.op # "remove"
  BY <1>1, <1>4, GrowingTurn DEF Linked
<1>9. PICK c \in S : Lifting(h, S, n, c)
  <2>1. ASSUME \A m \in S : Level(h, m) PROVE FALSE
    <3>1. BalanceFactor(u, n) = BalanceFactor(h, n)
      BY <1>7, RefreshedHeights
    <3>2. BalanceFactor(u, n) \in -1 .. 1
      BY <1>7, <2>1, <3>1 DEF Level
    <3> QED  BY <1>7, <3>2, TopTurned
  <2>2. (\A m \in S : Level(h, m)) \/ \E c \in S : Lifting(h, S, n, c)
    BY <1>1, <1>3, <1>4, <1>5, GrowingTurn
  <2> QED  BY <2>1, <2>2
<1>10. \A m \in S : Level(g, m)
  BY <1>7, <1>9, LiftTurned
<1>11. PICK p : p = IF q = NIL THEN top ELSE r
  OBVIOUS
<1>12. Turned(g, u, S, p, top) /\ SameLinks(u, h) /\ SameItems(u, h)
  BY <1>1, <1>3, <1>4, <1>5, <1>6, <1>11, TurnedTree DEF BInv
<1>13. /\ g \in Heap /\ TreeOf(g, S, p) /\ top \in S /\ SameItems(g, u)
       /\ \A m \in Nodes : m # top /\ Internal(g, m) => Internal(u, m)
  BY <1>12 DEF Turned
<1>14. SameItems(g, h) /\ \A m \in Nodes : m # top /\ Internal(g, m) => Internal(h, m)
  BY <1>12, <1>13, SameItemsTwice, LinksSame
<1>15. \A m \in Nodes : (Whole(g, m) <=> Whole(h, m)) /\ Length(g, m) = Length(h, m)
  BY <1>14, SameItemsWhole
<1>16. \A m \in S : Whole(h, m) /\ Rich(h, m)
  BY <1>1, <1>3, <1>4, Calm DEF BInv
<1>17. \A m \in S : Whole(g, m) /\ (m # top => Rich(g, m))
  BY <1>7, <1>14, <1>15, <1>16 DEF Rich
<1>18. EnsureMinLenAsserts(g, top)
  BY <1>1, <1>6 DEF Asserted, RebalanceAsserts
<1>19. PICK k : k = EnsureMinLen(g, top)
  OBVIOUS
<1>20. SameForm(k, g, Nodes)
  BY <1>13, <1>17, <1>18, <1>19, EnsureMinLenForm
<1>21. \A m \in S : Level(k, m)
  <2>1. SameForm(k, g, S)
    BY <1>7, <1>20 DEF SameForm
  <2> QED  BY <1>10, <1>13, <2>1, FormLevel
<1>22. heap' = k
  BY <1>1, <1>6, <1>19
<1>23. Even'
  BY <1>8, <1>21, <1>22 DEF Even
<1> QED  BY <1>1, <1>8, <1>23 DEF Growing

\* When the trace is used up nothing is left to mend.
LEMMA RebalanceEndGrowing == ASSUME BInv, RebalanceEnd PROVE Growing'
<1>1. /\ pc = "rebalance" /\ trace = <<>> /\ UNCHANGED <<heap, used, call, current>> /\ pc' \in {"load", "return"}
  BY DEF RebalanceEnd, Goto, AfterRebalance, memory, locals
<1>2. SInv /\ Even /\ call.op # "remove" /\ (current # NIL => heap[current].height = 1)
  BY <1>1 DEF BInv, Growing, Uneven
<1> QED  BY <1>1, <1>2, SameHeapForm, StaysEven

\* Between two steps of a bulk load that do not rebalance.
LEMMA GrowingLoad ==
    ASSUME BInv, pc \in {"load", "attach"}
    PROVE  /\ SInv /\ heap \in Heap /\ used \subseteq Nodes /\ current \in used \cup {NIL} /\ call.op = "load"
           /\ Linked = used \ {current} /\ TreeOf(heap, Linked, root) /\ Linked \subseteq Nodes
           /\ \A m \in Linked : Level(heap, m)
           /\ current # NIL => /\ current \in Nodes \ Linked /\ heap[current].height = 1
                               /\ heap[current].left = NIL /\ heap[current].right = NIL
<1>1. /\ SInv /\ heap \in Heap /\ used \subseteq Nodes /\ current \in used \cup {NIL} /\ call.op = "load"
      /\ Linked = used \ {current} /\ TreeOf(heap, Linked, root) /\ Linked \subseteq Nodes
  BY LoadFacts DEF BInv, Linked
<1>2. (\A m \in Linked : Level(heap, m)) /\ (current # NIL => heap[current].height = 1)
  BY DEF BInv, Growing, Even, Uneven
<1>3. current # NIL => current \in Nodes \ Linked
  BY <1>1
<1>4. current # NIL => heap[current].left = NIL /\ heap[current].right = NIL
  BY <1>1, <1>3, Outside
<1> QED  BY <1>1, <1>2, <1>3, <1>4

\* The first item of a bulk node keeps the balance invariant.
LEMMA BulkFirstGrowing == ASSUME BInv, BulkFirst PROVE Growing'
<1>1. /\ pc = "load" /\ pc' = "load" /\ call' = call /\ current = NIL /\ CanAllocate
      /\ current' = Fresh /\ used' = used \cup {Fresh} /\ pos < Len(call.items)
      /\ heap' = NodeInsert([heap EXCEPT ![Fresh] = Blank], Fresh, 0, call.items[pos + 1])
  BY DEF BulkFirst
<1>2. call.items[pos + 1] \in Entry
  <2>1. call.items \in Seq(Entry) /\ pos \in Nat /\ Len(call.items) \in Nat
    BY <1>1, LoadFacts, LenProperties DEF BInv
  <2> QED  BY <1>1, <2>1, ElementOfSeq
<1>3. PICK e \in Entry : e = call.items[pos + 1]
  BY <1>2
<1>4. PICK g, f : g = heap' /\ f = Fresh
  OBVIOUS
<1>5. /\ f \in Nodes \ used /\ f # NIL /\ g[f].height = 1 /\ SameForm(g, heap, Linked)
  BY <1>1, <1>3, <1>4, StartedForm, Zenon DEF BInv
<1>6. Linked' = Linked
  BY <1>1, <1>4, <1>5, GrowingLoad, NILAssumption DEF Linked
<1>7. \A m \in Linked : Level(g, m)
  BY <1>1, <1>5, GrowingLoad, FormLevel
<1>8. Even' /\ call'.op # "remove"
  BY <1>1, <1>4, <1>6, <1>7, GrowingLoad, Zenon DEF Even
<1> QED  BY <1>1, <1>4, <1>5, <1>8 DEF Growing

\* Appending to the bulk node keeps the balance invariant.
LEMMA BulkAppendGrowing == ASSUME BInv, BulkAppend PROVE Growing'
<1>1. /\ pc = "load" /\ pc' = "load" /\ UNCHANGED <<used, current, call>> /\ current # NIL
      /\ heap' = [heap EXCEPT ![current].ids = Append(@, call.items[pos + 1].id),
                              ![current].data = Append(@, call.items[pos + 1].rec)]
  BY DEF BulkAppend
<1>2. heap[current] \in TNode /\ current \in Nodes \ Linked
  BY <1>1, GrowingLoad, HeapNode
<1>3. \A m \in Nodes : m # current => heap'[m] = heap[m]
  BY <1>1, <1>2, GrowingLoad DEF Heap
<1>4. heap'[current].height = heap[current].height
  BY <1>1, <1>2, GrowingLoad DEF Heap, TNode
<1>5. SameForm(heap', heap, Linked)
  BY <1>1, <1>2, <1>3, GrowingLoad, Zenon DEF SameForm
<1>6. SInv /\ Even /\ call'.op # "remove" /\ heap[current].height = 1
  BY <1>1, GrowingLoad DEF Even
<1> QED  BY <1>1, <1>4, <1>5, <1>6, StaysEven

\* The last ID of the finished node.
LEMMA FinishedForm ==
    ASSUME heap \in Heap, current \in Nodes
    PROVE  SameForm(Finished, heap, Nodes)
<1>1. /\ \A m \in Nodes : m # current => Finished[m] = heap[m]
      /\ Finished[current] = [heap[current] EXCEPT !.last_id = Last(heap[current].ids)]
  BY DEF Finished, Heap
<1>2. heap[current] \in TNode
  BY HeapNode
<1>3. /\ Finished[current].left = heap[current].left /\ Finished[current].right = heap[current].right
      /\ Finished[current].height = heap[current].height
  BY <1>1, <1>2 DEF TNode
<1> QED  BY <1>1, <1>3, Zenon DEF SameForm

\* The first finished bulk node becomes the root: the balance invariant is kept.
LEMMA FinishRootGrowing == ASSUME BInv, FinishRoot PROVE Growing'
<1>1. /\ pc = "load" /\ pc' = "load" /\ UNCHANGED <<used, call>> /\ current # NIL /\ root = NIL
      /\ heap' = Finished /\ current' = NIL
  BY DEF FinishRoot, CurrentDone
<1>2. Linked = {} /\ current \in Nodes /\ current \in used /\ current # NIL
  BY <1>1, GrowingLoad, Children, NILAssumption
<1>3. PICK g, f : g = heap' /\ f = current
  OBVIOUS
<1>4. g[f].left = NIL /\ g[f].right = NIL /\ g[f].height = 1
  <2>1. SameForm(g, heap, Nodes)
    BY <1>1, <1>2, <1>3, FinishedForm, GrowingLoad
  <2> QED  BY <1>1, <1>2, <1>3, <2>1, GrowingLoad DEF SameForm
<1>5. Level(g, f)
  BY <1>4, LoneLevel
<1>6. Linked' = {f}
  BY <1>1, <1>2, <1>3, GrowingLoad, NILAssumption DEF Linked
<1>7. Even' /\ call'.op # "remove"
  BY <1>1, <1>3, <1>5, <1>6, GrowingLoad DEF Even
<1> QED  BY <1>1, <1>7 DEF Growing

\* Starting to attach a finished bulk node keeps the balance invariant.
LEMMA FinishNodeGrowing == ASSUME BInv, FinishNode PROVE Growing'
<1>1. /\ pc = "load" /\ pc' = "attach" /\ UNCHANGED <<used, current, call>> /\ current # NIL
      /\ heap' = Finished
  BY DEF FinishNode, CurrentDone, Goto
<1>2. SInv /\ Even /\ call'.op # "remove" /\ heap[current].height = 1 /\ current \in Nodes /\ heap \in Heap
      /\ Linked \subseteq Nodes
  BY <1>1, GrowingLoad DEF Even
<1>3. SameForm(heap', heap, Linked) /\ heap'[current].height = 1
  <2>1. SameForm(heap', heap, Nodes)
    BY <1>1, <1>2, FinishedForm
  <2> QED  BY <1>2, <2>1 DEF SameForm
<1> QED  BY <1>1, <1>2, <1>3, StaysEven

\* Hanging the bulk node at the end of the right spine keeps the balance invariant: the heights above are due.
LEMMA AttachGrowing == ASSUME BInv, Attach PROVE Growing'
<1>1. /\ pc = "attach" /\ pc' = "rebalance" /\ UNCHANGED <<used, call, trace>> /\ node = NIL
      /\ heap' = [heap EXCEPT ![Last(trace)].right = current] /\ current' = NIL
  BY DEF Attach, Goto
<1>2. /\ current \in Nodes /\ trace # <<>> /\ Last(trace) \in Linked /\ heap[Last(trace)].right = NIL
  BY <1>1, NILAssumption DEF BInv, SInv, IInv, Control, Structure, Cursors
<1>a. PICK r : r = root
  OBVIOUS
<1>3. PICK h \in Heap : h = heap /\ r = root
  BY <1>a, <1>1, GrowingLoad
<1>4. PICK S, g : S = Linked /\ g = heap'
  OBVIOUS
<1>5. PICK n \in S, f \in Nodes : n = Last(trace) /\ f = current
  BY <1>2, <1>4
<1>6. /\ TreeOf(h, S, r) /\ S \subseteq Nodes /\ f \in Nodes \ S /\ f # NIL /\ h[n].right = NIL /\ n # f
      /\ n \in Nodes /\ h[f].left = NIL /\ h[f].right = NIL /\ h[f].height = 1 /\ \A m \in S : Level(h, m)
  BY <1>1, <1>2, <1>3, <1>4, <1>5, GrowingLoad, NILAssumption
<1>7. g = [h EXCEPT ![n].right = f]
  BY <1>1, <1>3, <1>4, <1>5
<1>8. g \in Heap
  <2>1. f \in Ptr
    BY DEF Ptr
  <2> QED  BY <1>6, <1>7, <2>1, SetRightType, Zenon
<1>9. Planted(g, h, n, f)
  <2>1. \A m \in Nodes \ {n} : g[m] = h[m]
    BY <1>7 DEF Heap
  <2>2. h[n] \in TNode
    BY <1>6, HeapNode
  <2>3. g[n].right = f /\ g[n].left = h[n].left /\ g[n].height = h[n].height
    BY <1>6, <1>7, <2>2 DEF Heap, TNode
  <2> QED  BY <1>6, <1>8, <2>1, <2>3 DEF Planted
<1>10. Lifting(g, S \cup {f}, n, f)
  BY <1>6, <1>9, LeafLifts
<1>11. Linked' = S \cup {f} /\ call'.op # "remove"
  <2>1. used = S \cup {f} /\ NIL \notin S
    BY <1>1, <1>2, <1>4, <1>5, <1>6, GrowingLoad, NILAssumption
  <2> QED  BY <1>1, <1>6, <2>1, GrowingLoad DEF Linked
<1>12. Uneven'
  BY <1>1, <1>2, <1>4, <1>5, <1>10, <1>11 DEF Uneven
<1> QED  BY <1>1, <1>11, <1>12 DEF Growing

\* A stuttering step keeps the balance invariant.
LEMMA StutterGrowing == ASSUME BInv, UNCHANGED vars PROVE Growing'
BY Zenon DEF BInv, Growing, Even, Uneven, Linked, vars, memory, locals

\* In a tree without removals every step keeps the balance invariant.
LEMMA NextGrowing == ASSUME BInv, Removes = {}, [Next]_vars PROVE BInv'
<1>1. SInv'
  BY NextStructure DEF BInv
<1>2. CASE UNCHANGED vars
  BY <1>1, <1>2, StutterGrowing DEF BInv
<1>3. CASE Call
  BY <1>1, <1>3, CallGrowing DEF BInv
<1>4. CASE Run
  <2>1. Asserted
    BY <1>4 DEF Run
  <2>2. CASE SearchSteps \/ Return \/ IterateSteps
    BY <1>1, <2>2, ReadingGrowing DEF BInv
  <2>3. CASE InsertSteps
    BY <1>1, <2>1, <2>3, ReadingGrowing, InsertRootGrowing, InsertHereGrowing, InsertChildGrowing,
       DisplaceGrowing, PlaceDescendGrowing, PlaceGrowing, PlaceBelowGrowing DEF BInv, InsertSteps
  <2>4. CASE RemoveSteps
    BY <2>4, RemoveGrowing
  <2>5. CASE RebalanceSteps
    BY <1>1, <2>1, <2>5, RebalanceUpGrowing, RebalanceRotateGrowing, RebalanceEndGrowing
       DEF BInv, RebalanceSteps
  <2>6. CASE LoadSteps
    BY <1>1, <2>6, ReadingGrowing, BulkFirstGrowing, BulkAppendGrowing, FinishRootGrowing,
       FinishNodeGrowing, AttachGrowing DEF BInv, LoadSteps
  <2>7. CASE Destroy
    BY <1>1, <2>7, DestroyGrowing DEF BInv
  <2> QED  BY <1>4, <2>2, <2>3, <2>4, <2>5, <2>6, <2>7 DEF Run
<1> QED  BY <1>2, <1>3, <1>4 DEF Next

-----------------------------------------------------------------------------
\* What Levels chooses: f counts the levels below every node of h.
Climbs(f, h) ==
    f = [m \in Ptr |-> IF m = NIL THEN 0 ELSE 1 + Max2(f[h[m].left], f[h[m].right])]

\* Levels is the function that climbs the tree.
LEMMA LevelsDef == ASSUME NEW n PROVE Levels(n) = (CHOOSE f : Climbs(f, heap))[n]
BY DEF Levels, Climbs

\* Where every node is level that is the height it keeps.
LEMMA LevelsAre ==
    ASSUME heap \in Heap, NEW S, NEW r, TreeOf(heap, S, r), \A m \in S : Level(heap, m)
    PROVE  \A m \in S \cup {NIL} : Levels(m) = Height(heap, m)
<1>1. PICK h \in Heap : h = heap
  OBVIOUS
<1>2. /\ TreeOf(h, S, r) /\ \A m \in S : Level(h, m)
  BY <1>1
<1>3. /\ S \subseteq Nodes /\ NIL \notin Nodes
      /\ \A m \in S : h[m].left \in S \cup {NIL} /\ h[m].right \in S \cup {NIL}
      /\ \A m \in Nodes \ S : h[m].left = NIL /\ h[m].right = NIL
  BY <1>2, Children, NILAssumption
<1> DEFINE e == [m \in Ptr |-> IF m \in Nodes \ S THEN 1 ELSE Height(h, m)]
<1>4. (\A m \in S \cup {NIL} : e[m] = Height(h, m)) /\ (\A m \in Nodes \ S : e[m] = 1) /\ Height(h, NIL) = 0
  BY <1>3 DEF Ptr, Height
<1>5. e = [m \in Ptr |-> e[m]]
  OBVIOUS
<1> HIDE DEF e
<1>6. \A m \in Nodes : e[m] = 1 + Max2(e[h[m].left], e[h[m].right])
  <2> SUFFICES ASSUME NEW m \in Nodes PROVE e[m] = 1 + Max2(e[h[m].left], e[h[m].right])
    OBVIOUS
  <2>1. CASE m \in S
    <3>1. e[m] = h[m].height
      BY <1>3, <1>4, <2>1 DEF Height
    <3>2. e[h[m].left] = Height(h, h[m].left) /\ e[h[m].right] = Height(h, h[m].right)
      BY <1>3, <1>4, <2>1
    <3> QED  BY <1>2, <2>1, <3>1, <3>2 DEF Level
  <2>2. CASE m \notin S
    <3>1. e[m] = 1 /\ e[h[m].left] = 0 /\ e[h[m].right] = 0
      BY <1>3, <1>4, <2>2
    <3> QED  BY <3>1 DEF Max2
  <2> QED  BY <2>1, <2>2
<1>7. Climbs(e, h)
  <2>1. \A m \in Ptr : e[m] = IF m = NIL THEN 0 ELSE 1 + Max2(e[h[m].left], e[h[m].right])
    BY <1>4, <1>6 DEF Ptr
  <2> QED  BY <1>5, <2>1 DEF Climbs
<1>8. PICK f : f = CHOOSE x : Climbs(x, h)
  OBVIOUS
<1>9. Climbs(f, h)
  BY <1>7, <1>8
<1>10. f[NIL] = 0 /\ \A m \in Nodes : f[m] = 1 + Max2(f[h[m].left], f[h[m].right])
  <2>1. \A m \in Ptr : f[m] = IF m = NIL THEN 0 ELSE 1 + Max2(f[h[m].left], f[h[m].right])
    BY <1>9, Zenon DEF Climbs
  <2> QED  BY <1>3, <2>1 DEF Ptr
<1>11. PICK rank, b : Ranked(h, rank, b)
  BY <1>2, TreeRanked
<1> DEFINE P == {m \in Nodes : f[m] = e[m]}
<1>12. ASSUME NEW n \in Nodes, \A m \in Nodes : rank[m] < rank[n] => m \in P
       PROVE  n \in P
  <2>1. ASSUME NEW x \in {h[n].left, h[n].right} PROVE f[x] = e[x]
    <3>1. CASE x = NIL
      BY <1>4, <1>10, <3>1
    <3>2. CASE x # NIL
      BY <1>11, <1>12, <3>2 DEF Ranked
    <3> QED  BY <3>1, <3>2
  <2>2. f[h[n].left] = e[h[n].left] /\ f[h[n].right] = e[h[n].right]
    BY <2>1
  <2> QED  BY <1>6, <1>10, <2>2
<1>13. \A m \in Nodes : rank[m] \in Nat
  BY <1>11 DEF Ranked
<1>14. Nodes \subseteq P
  <2> HIDE DEF P
  <2> QED  BY <1>12, <1>13, RankInduction
<1>15. \A m \in S \cup {NIL} : f[m] = Height(h, m)
  BY <1>3, <1>4, <1>10, <1>14
<1>16. \A m \in S \cup {NIL} : Levels(m) = f[m]
  BY <1>1, <1>8, LevelsDef
<1> QED  BY <1>1, <1>15, <1>16

\* Between calls the heights are those of the subtrees, which differ by one at most.
LEMMA GrowingExact == BInv => CopiesExact /\ Balanced
<1> SUFFICES ASSUME BInv PROVE CopiesExact /\ Balanced
  OBVIOUS
<1>1. CASE pc # "idle"
  BY <1>1 DEF CopiesExact, LastIDExact, HeightExact, Balanced, Idle
<1>2. CASE pc = "idle"
  <2>1. /\ heap \in Heap /\ TreeOf(heap, used, root) /\ used \subseteq Nodes /\ Linked = used
        /\ \A m \in used : Whole(heap, m)
    BY <1>2, Calm DEF BInv
  <2>2. \A m \in used : Level(heap, m)
    BY <1>2, <2>1 DEF BInv, Growing, Even, Uneven
  <2>3. \A m \in used \cup {NIL} : Levels(m) = Height(heap, m)
    BY <2>1, <2>2, LevelsAre
  <2>4. \A m \in used : heap[m].height = Levels(m)
    <3>1. \A m \in used : m # NIL
      BY <2>1, NILAssumption
    <3> QED  BY <2>3, <3>1 DEF Height
  <2>5. \A m \in used : /\ heap[m].left \in used \cup {NIL} /\ heap[m].right \in used \cup {NIL}
    BY <2>1, Children
  <2>6. \A m \in used : Levels(heap[m].left) - Levels(heap[m].right) \in -1 .. 1
    BY <2>2, <2>3, <2>5 DEF Level, BalanceFactor
  <2> QED  BY <2>1, <2>4, <2>6 DEF CopiesExact, LastIDExact, HeightExact, Balanced, Whole
<1> QED  BY <1>1, <1>2

\* In a tree that is only inserted into, loaded and iterated every stored height is the height of its subtree
\* between operations (CopiesExact).
THEOREM CopiesExactWithoutRemoves ==
    ASSUME Removes = {}
    PROVE  Spec => []CopiesExact
<1>1. BInv /\ [Next]_vars => BInv'
  BY NextGrowing
<1> QED  BY InitGrowing, <1>1, GrowingExact, PTL DEF Spec

\* In a tree that is only inserted into, loaded and iterated the two subtrees of every node differ by at most one
\* level between operations (Balanced): one pass up the trace is enough to rebalance after an insertion.
THEOREM BalancedWithoutRemoves ==
    ASSUME Removes = {}
    PROVE  Spec => []Balanced
<1>1. BInv /\ [Next]_vars => BInv'
  BY NextGrowing
<1> QED  BY InitGrowing, <1>1, GrowingExact, PTL DEF Spec

-----------------------------------------------------------------------------
(* Which nodes have children, and how full they are.  Without removes only  *)
(* the top of a double rotation can be short, and its children are leaves:  *)
(* what it takes from them is what stands next to it.                       *)

\* m has a child.
HasChild(h, m) == h[m].left # NIL \/ h[m].right # NIL

\* Both children of t are leaves.
Leafy(g, t) ==
    /\ g[t].left \in Nodes /\ g[t].right \in Nodes
    /\ ~HasChild(g, g[t].left) /\ ~HasChild(g, g[t].right)

\* l and t are the child and the grandchild of n that a double rotation turns.
Bent(u, n, l, t, left) ==
    IF left THEN u[n].left = l /\ u[l].right = t ELSE u[n].right = l /\ u[l].left = t

\* A level node with no child has height one.
LEMMA Childless ==
    ASSUME NEW h \in Heap, NEW m \in Nodes, Level(h, m), ~HasChild(h, m)
    PROVE  h[m].height = 1
<1>1. Height(h, h[m].left) = 0 /\ Height(h, h[m].right) = 0
  BY DEF HasChild, Height
<1> QED  BY <1>1 DEF Level, Max2

\* No node but the new top of a turned subtree gets its first child by the rotation.
LEMMA RightTurnParents ==
    ASSUME NEW u \in Heap, NEW S, NEW r, NEW q, NEW n \in Nodes, NEW l \in Nodes, NEW g, RightTurn(g, u, S, r, q, n, l)
    PROVE  \A m \in Nodes \ {l} : HasChild(g, m) => HasChild(u, m)
<1>1. u[n].left = l /\ l # NIL /\ n # NIL
  BY NILAssumption DEF RightTurn
<1> SUFFICES ASSUME NEW m \in Nodes \ {l}, HasChild(g, m) PROVE HasChild(u, m)
  OBVIOUS
<1>2. /\ g[m].left = (IF m = n THEN u[l].right ELSE IF m = q /\ u[m].left = n THEN l ELSE u[m].left)
      /\ g[m].right = (IF m = l THEN n ELSE IF m = q /\ u[m].right = n THEN l ELSE u[m].right)
  BY DEF RightTurn
<1>3. CASE m = n
  BY <1>1, <1>3 DEF HasChild
<1>4. CASE m # n
  BY <1>1, <1>2, <1>4 DEF HasChild
<1> QED  BY <1>3, <1>4

\* A turn to the left gives a child to no node but the new top.
LEMMA LeftTurnParents ==
    ASSUME NEW u \in Heap, NEW S, NEW r, NEW q, NEW n \in Nodes, NEW l \in Nodes, NEW g, LeftTurn(g, u, S, r, q, n, l)
    PROVE  \A m \in Nodes \ {l} : HasChild(g, m) => HasChild(u, m)
<1>1. u[n].right = l /\ l # NIL /\ n # NIL
  BY NILAssumption DEF LeftTurn
<1> SUFFICES ASSUME NEW m \in Nodes \ {l}, HasChild(g, m) PROVE HasChild(u, m)
  OBVIOUS
<1>2. /\ g[m].right = (IF m = n THEN u[l].left ELSE IF m = q /\ u[m].right = n THEN l ELSE u[m].right)
      /\ g[m].left = (IF m = l THEN n ELSE IF m = q /\ u[m].left = n THEN l ELSE u[m].left)
  BY DEF LeftTurn
<1>3. CASE m = n
  BY <1>1, <1>3 DEF HasChild
<1>4. CASE m # n
  BY <1>1, <1>2, <1>4 DEF HasChild
<1> QED  BY <1>3, <1>4

\* A double rotation to the right may leave a node on top that had no child: both of its
\* children are leaves then.
LEMMA DoubleRightTurnLeaves ==
    ASSUME NEW u \in Heap, NEW S, NEW r, TreeOf(u, S, r), NEW n \in S, NEW l \in Nodes,
           NEW t \in Nodes, Bent(u, n, l, t, TRUE), BalanceFactor(u, n) > 1, BalanceFactor(u, l) < 0,
           Level(u, l), Level(u, t), \A m \in S \ {n} : u[m].height > 0, NEW q, q \notin {n, l, t},
           NEW w, LeftTurn(w, u, S, r, n, l, t), NEW g, RightTurn(g, w, S, r, q, n, t)
    PROVE  /\ \A m \in Nodes \ {t} : HasChild(g, m) => HasChild(u, m)
           /\ HasChild(u, t) \/ Leafy(g, t)
<1>0. u[n].left = l /\ u[l].right = t
  BY DEF Bent
<1>1. /\ n \in Nodes /\ n # NIL /\ l # NIL /\ t # NIL /\ l \in S /\ l # n /\ t \in S /\ t # l /\ t # n
      /\ u[l].left # n /\ w \in Heap /\ u[n].right # n
  <2>1. n \in Nodes /\ n # NIL /\ l # NIL /\ t # NIL
    BY <1>0, Children, NILAssumption
  <2>2. l \in S /\ l # n /\ u[l].left \notin {l, n} /\ u[l].right \notin {l, n}
    BY <1>0, <2>1, OneParent
  <2>3. t \in S /\ t # l
    BY <1>0, <2>1, OneParent
  <2>4. t # n /\ u[l].left # n
    BY <1>0, <2>2
  <2>5. u[n].right # n
    BY <2>1, Children
  <2>6. w \in Heap
    BY DEF LeftTurn
  <2> QED  BY <2>1, <2>2, <2>3, <2>4, <2>5, <2>6
<1>2. \A m \in Nodes \ {t} : HasChild(g, m) => HasChild(u, m)
  <2>1. \A m \in Nodes \ {t} : HasChild(g, m) => HasChild(w, m)
    BY <1>0, <1>1, RightTurnParents
  <2>2. \A m \in Nodes \ {t} : HasChild(w, m) => HasChild(u, m)
    BY <1>0, <1>1, LeftTurnParents
  <2> QED  BY <2>1, <2>2
<1>3. ASSUME ~HasChild(u, t) PROVE Leafy(g, t)
  <2>1. u[t].height = 1 /\ u[t].left = NIL /\ u[t].right = NIL
    BY <1>3, Childless DEF HasChild
  <2>2. Height(u, u[l].right) = 1
    BY <1>0, <1>1, <2>1 DEF Height
  <2>3. Height(u, u[l].left) \in Nat /\ Height(u, u[l].right) \in Nat /\ u[l].height \in Nat
        /\ Height(u, u[n].left) \in Nat /\ Height(u, u[n].right) \in Nat
    <3>1. u[l].left \in Ptr /\ u[l].right \in Ptr /\ u[n].left \in Ptr /\ u[n].right \in Ptr
      BY <1>0, <1>1, HeapNode
    <3> QED  BY <1>0, <1>1, <3>1, HeightAt, HeapNode, Zenon
  <2>4. Height(u, u[l].left) = 0
    BY <1>0, <2>2, <2>3 DEF BalanceFactor
  <2>5. u[l].height = 2
    BY <1>0, <2>2, <2>4 DEF Level, Max2
  <2>6. Height(u, u[n].left) = 2
    BY <1>0, <1>1, <2>5 DEF Height
  <2>7. Height(u, u[n].right) = 0
    BY <1>0, <2>3, <2>6 DEF BalanceFactor
  <2>8. \A m \in S \cup {NIL} : m # n /\ Height(u, m) = 0 => m = NIL
    BY DEF Height
  <2>9. u[l].left = NIL /\ u[n].right = NIL
    <3>1. u[l].left \in S \cup {NIL} /\ u[n].right \in S \cup {NIL}
      BY <1>0, <1>1, Children
    <3> QED  BY <1>0, <1>1, <2>4, <2>7, <2>8, <3>1
  <2>10. w[l].left = NIL /\ w[l].right = NIL /\ w[t].left = l /\ w[t].right = NIL /\ w[n].right = NIL
    <3>1. w[l].right = NIL /\ w[t].left = l
      BY <1>0, <1>1, <2>1 DEF LeftTurn
    <3>2. w[l].left = NIL
      BY <1>0, <1>1, <2>9 DEF LeftTurn
    <3>3. w[t].right = NIL /\ w[n].right = NIL
      BY <1>0, <1>1, <2>1, <2>9 DEF LeftTurn
    <3> QED  BY <3>1, <3>2, <3>3
  <2>11. g[t].left = l /\ g[t].right = n
    BY <1>0, <1>1, <2>10 DEF RightTurn
  <2>12. g[l].left = NIL /\ g[l].right = NIL /\ g[n].left = NIL /\ g[n].right = NIL
    <3>1. g[l].left = NIL /\ g[l].right = NIL
      BY <1>0, <1>1, <2>10 DEF RightTurn
    <3>2. g[n].left = NIL /\ g[n].right = NIL
      BY <1>0, <1>1, <2>10 DEF RightTurn
    <3> QED  BY <3>1, <3>2
  <2> QED  BY <1>0, <1>1, <2>11, <2>12 DEF Leafy, HasChild
<1> QED  BY <1>2, <1>3

\* A double rotation to the left may leave a node on top that had no child: both of its
\* children are leaves then.
LEMMA DoubleLeftTurnLeaves ==
    ASSUME NEW u \in Heap, NEW S, NEW r, TreeOf(u, S, r), NEW n \in S, NEW l \in Nodes,
           NEW t \in Nodes, Bent(u, n, l, t, FALSE), BalanceFactor(u, n) < -1, BalanceFactor(u, l) > 0,
           Level(u, l), Level(u, t), \A m \in S \ {n} : u[m].height > 0, NEW q, q \notin {n, l, t},
           NEW w, RightTurn(w, u, S, r, n, l, t), NEW g, LeftTurn(g, w, S, r, q, n, t)
    PROVE  /\ \A m \in Nodes \ {t} : HasChild(g, m) => HasChild(u, m)
           /\ HasChild(u, t) \/ Leafy(g, t)
<1>0. u[n].right = l /\ u[l].left = t
  BY DEF Bent
<1>1. /\ n \in Nodes /\ n # NIL /\ l # NIL /\ t # NIL /\ l \in S /\ l # n /\ t \in S /\ t # l /\ t # n
      /\ u[l].right # n /\ w \in Heap /\ u[n].left # n
  <2>1. n \in Nodes /\ n # NIL /\ l # NIL /\ t # NIL
    BY <1>0, Children, NILAssumption
  <2>2. l \in S /\ l # n /\ u[l].left \notin {l, n} /\ u[l].right \notin {l, n}
    BY <1>0, <2>1, OneParent
  <2>3. t \in S /\ t # l
    BY <1>0, <2>1, OneParent
  <2>4. t # n /\ u[l].right # n
    BY <1>0, <2>2
  <2>5. u[n].left # n
    BY <2>1, Children
  <2>6. w \in Heap
    BY DEF RightTurn
  <2> QED  BY <2>1, <2>2, <2>3, <2>4, <2>5, <2>6
<1>2. \A m \in Nodes \ {t} : HasChild(g, m) => HasChild(u, m)
  <2>1. \A m \in Nodes \ {t} : HasChild(g, m) => HasChild(w, m)
    BY <1>0, <1>1, LeftTurnParents
  <2>2. \A m \in Nodes \ {t} : HasChild(w, m) => HasChild(u, m)
    BY <1>0, <1>1, RightTurnParents
  <2> QED  BY <2>1, <2>2
<1>3. ASSUME ~HasChild(u, t) PROVE Leafy(g, t)
  <2>1. u[t].height = 1 /\ u[t].left = NIL /\ u[t].right = NIL
    BY <1>3, Childless DEF HasChild
  <2>2. Height(u, u[l].left) = 1
    BY <1>0, <1>1, <2>1 DEF Height
  <2>3. Height(u, u[l].left) \in Nat /\ Height(u, u[l].right) \in Nat /\ u[l].height \in Nat
        /\ Height(u, u[n].left) \in Nat /\ Height(u, u[n].right) \in Nat
    <3>1. u[l].left \in Ptr /\ u[l].right \in Ptr /\ u[n].left \in Ptr /\ u[n].right \in Ptr
      BY <1>0, <1>1, HeapNode
    <3> QED  BY <1>0, <1>1, <3>1, HeightAt, HeapNode, Zenon
  <2>4. Height(u, u[l].right) = 0
    BY <1>0, <2>2, <2>3 DEF BalanceFactor
  <2>5. u[l].height = 2
    BY <1>0, <2>2, <2>4 DEF Level, Max2
  <2>6. Height(u, u[n].right) = 2
    BY <1>0, <1>1, <2>5 DEF Height
  <2>7. Height(u, u[n].left) = 0
    BY <1>0, <2>3, <2>6 DEF BalanceFactor
  <2>8. \A m \in S \cup {NIL} : m # n /\ Height(u, m) = 0 => m = NIL
    BY DEF Height
  <2>9. u[l].right = NIL /\ u[n].left = NIL
    <3>1. u[l].right \in S \cup {NIL} /\ u[n].left \in S \cup {NIL}
      BY <1>0, <1>1, Children
    <3> QED  BY <1>0, <1>1, <2>4, <2>7, <2>8, <3>1
  <2>10. w[l].right = NIL /\ w[l].left = NIL /\ w[t].right = l /\ w[t].left = NIL /\ w[n].left = NIL
    <3>1. w[l].left = NIL /\ w[t].right = l
      BY <1>0, <1>1, <2>1 DEF RightTurn
    <3>2. w[l].right = NIL
      BY <1>0, <1>1, <2>9 DEF RightTurn
    <3>3. w[t].left = NIL /\ w[n].left = NIL
      BY <1>0, <1>1, <2>1, <2>9 DEF RightTurn
    <3> QED  BY <3>1, <3>2, <3>3
  <2>11. g[t].right = l /\ g[t].left = n
    BY <1>0, <1>1, <2>10 DEF LeftTurn
  <2>12. g[l].right = NIL /\ g[l].left = NIL /\ g[n].right = NIL /\ g[n].left = NIL
    <3>1. g[l].right = NIL /\ g[l].left = NIL
      BY <1>0, <1>1, <2>10 DEF LeftTurn
    <3>2. g[n].right = NIL /\ g[n].left = NIL
      BY <1>0, <1>1, <2>10 DEF LeftTurn
    <3> QED  BY <3>1, <3>2
  <2> QED  BY <1>0, <1>1, <2>11, <2>12 DEF Leafy, HasChild
<1> QED  BY <1>2, <1>3

\* What a rotation leaves on top has a child before, or two leaves after it.
LEMMA TurnedParents ==
    ASSUME NEW h \in Heap, NEW S, NEW r, TreeOf(h, S, r), NEW n \in S, NEW c, Lifting(h, S, n, c),
           NEW q \in Ptr, Leads(Lefts(h), Rights(h), r, q, n),
           NEW u \in Heap, Refreshed(u, h, n), TreeOf(u, S, r),
           NEW g, NEW top, Rebalancing(g, u, S, r, q, n, top), top # n
    PROVE  /\ \A m \in Nodes \ {top} : HasChild(g, m) => HasChild(u, m)
           /\ HasChild(u, top) \/ Leafy(g, top)
<1>1. /\ S \subseteq Nodes /\ n \in Nodes /\ n # NIL /\ q # n
      /\ \A m \in S \ {n, q} : Level(u, m)
      /\ q # NIL => q \in S /\ q \in Nodes /\ n \in {h[q].left, h[q].right}
  BY BeforeTurn
<1>2. q # NIL => n \in {u[q].left, u[q].right}
  BY <1>1 DEF Refreshed
<1>3. \A m \in S \ {n} : u[m].height > 0
  <2> SUFFICES ASSUME NEW m \in S \ {n} PROVE u[m].height > 0
    OBVIOUS
  <2>1. Level(h, m) /\ m \in Nodes
    BY <1>1 DEF Lifting
  <2>2. u[m].height = h[m].height
    BY <2>1 DEF Refreshed
  <2> QED  BY <2>1, <2>2, LevelPositive
<1>4. \A l \in Nodes : l \in {u[n].left, u[n].right} =>
         /\ l \in S /\ l # n /\ l # q /\ u[l].left # n /\ u[l].right # n /\ Level(u, l)
         /\ u[l].height \in Nat /\ Height(u, l) = u[l].height
  <2> SUFFICES ASSUME NEW l \in Nodes, l \in {u[n].left, u[n].right}
               PROVE  /\ l \in S /\ l # n /\ l # q /\ u[l].left # n /\ u[l].right # n /\ Level(u, l)
                      /\ u[l].height \in Nat /\ Height(u, l) = u[l].height
    OBVIOUS
  <2>1. l # NIL
    BY NILAssumption
  <2>2. l \in S /\ l # n /\ u[l].left # n /\ u[l].right # n
    BY <1>1, <2>1, OneParent
  <2>3. l # q
    BY <1>2, <2>1, <2>2
  <2> QED  BY <1>1, <2>1, <2>2, <2>3, HeapNode DEF Height
<1>5. Height(u, u[n].left) \in Nat /\ Height(u, u[n].right) \in Nat
  <2>1. u[n].left \in Ptr /\ u[n].right \in Ptr
    BY <1>1, HeapNode
  <2> QED  BY <2>1, HeightAt
<1>6. CASE BalanceFactor(u, n) > 1 /\ BalanceFactor(u, u[n].left) >= 0 /\ top = u[n].left
           /\ RightTurn(g, u, S, r, q, n, top)
  <2>1. top \in Nodes
    BY <1>1, <1>6 DEF RightTurn
  <2>2. \A m \in Nodes \ {top} : HasChild(g, m) => HasChild(u, m)
    BY <1>1, <1>6, <2>1, RightTurnParents
  <2>3. u[top].height # 1 /\ Level(u, top)
    BY <1>4, <1>5, <1>6, <2>1 DEF BalanceFactor
  <2> QED  BY <2>1, <2>2, <2>3, Childless
<1>7. CASE BalanceFactor(u, n) < -1 /\ BalanceFactor(u, u[n].right) <= 0 /\ top = u[n].right
           /\ LeftTurn(g, u, S, r, q, n, top)
  <2>1. top \in Nodes
    BY <1>1, <1>7 DEF LeftTurn
  <2>2. \A m \in Nodes \ {top} : HasChild(g, m) => HasChild(u, m)
    BY <1>1, <1>7, <2>1, LeftTurnParents
  <2>3. u[top].height # 1 /\ Level(u, top)
    BY <1>4, <1>5, <1>7, <2>1 DEF BalanceFactor
  <2> QED  BY <2>1, <2>2, <2>3, Childless
<1>8. CASE /\ BalanceFactor(u, n) > 1 /\ BalanceFactor(u, u[n].left) < 0 /\ top = u[u[n].left].right
           /\ \E w : LeftTurn(w, u, S, r, n, u[n].left, top) /\ RightTurn(g, w, S, r, q, n, top)
  <2>1. PICK l \in Nodes : l = u[n].left
    BY <1>1, <1>8, HighSide
  <2>2. PICK t \in Nodes : t = u[l].right
    BY <1>8, <2>1, HighSide
  <2>3. PICK w : LeftTurn(w, u, S, r, n, l, t) /\ RightTurn(g, w, S, r, q, n, t)
    BY <1>8, <2>1, <2>2
  <2>4. BalanceFactor(u, n) > 1 /\ BalanceFactor(u, l) < 0 /\ top = t
    BY <1>8, <2>1, <2>2
  <2>5. Level(u, l) /\ Level(u, t) /\ q \notin {n, l, t}
    <3>1. t # NIL /\ l \in S /\ l # q /\ t # n
      BY <1>4, <2>1, <2>2, NILAssumption
    <3>2. t \in S
      BY <2>2, <3>1, OneParent
    <3>3. q # t
      BY <2>3 DEF RightTurn
    <3> QED  BY <1>1, <1>4, <2>1, <3>1, <3>2, <3>3
  <2>6. /\ u \in Heap /\ TreeOf(u, S, r) /\ n \in S /\ l \in Nodes /\ t \in Nodes /\ Bent(u, n, l, t, TRUE)
        /\ BalanceFactor(u, n) > 1 /\ BalanceFactor(u, l) < 0 /\ Level(u, l) /\ Level(u, t)
        /\ (\A m \in S \ {n} : u[m].height > 0) /\ q \notin {n, l, t}
        /\ LeftTurn(w, u, S, r, n, l, t) /\ RightTurn(g, w, S, r, q, n, t)
    BY <1>3, <2>1, <2>2, <2>3, <2>4, <2>5 DEF Bent
  <2>7. /\ \A m \in Nodes \ {t} : HasChild(g, m) => HasChild(u, m)
        /\ HasChild(u, t) \/ Leafy(g, t)
    BY <2>6, DoubleRightTurnLeaves, Zenon
  <2> QED  BY <2>4, <2>7
<1>9. CASE /\ BalanceFactor(u, n) < -1 /\ BalanceFactor(u, u[n].right) > 0 /\ top = u[u[n].right].left
           /\ \E w : RightTurn(w, u, S, r, n, u[n].right, top) /\ LeftTurn(g, w, S, r, q, n, top)
  <2>1. PICK l \in Nodes : l = u[n].right
    BY <1>1, <1>9, HighSide
  <2>2. PICK t \in Nodes : t = u[l].left
    BY <1>9, <2>1, HighSide
  <2>3. PICK w : RightTurn(w, u, S, r, n, l, t) /\ LeftTurn(g, w, S, r, q, n, t)
    BY <1>9, <2>1, <2>2
  <2>4. BalanceFactor(u, n) < -1 /\ BalanceFactor(u, l) > 0 /\ top = t
    BY <1>9, <2>1, <2>2
  <2>5. Level(u, l) /\ Level(u, t) /\ q \notin {n, l, t}
    <3>1. t # NIL /\ l \in S /\ l # q /\ t # n
      BY <1>4, <2>1, <2>2, NILAssumption
    <3>2. t \in S
      BY <2>2, <3>1, OneParent
    <3>3. q # t
      BY <2>3 DEF LeftTurn
    <3> QED  BY <1>1, <1>4, <2>1, <3>1, <3>2, <3>3
  <2>6. /\ u \in Heap /\ TreeOf(u, S, r) /\ n \in S /\ l \in Nodes /\ t \in Nodes /\ Bent(u, n, l, t, FALSE)
        /\ BalanceFactor(u, n) < -1 /\ BalanceFactor(u, l) > 0 /\ Level(u, l) /\ Level(u, t)
        /\ (\A m \in S \ {n} : u[m].height > 0) /\ q \notin {n, l, t}
        /\ RightTurn(w, u, S, r, n, l, t) /\ LeftTurn(g, w, S, r, q, n, t)
    BY <1>3, <2>1, <2>2, <2>3, <2>4, <2>5 DEF Bent
  <2>7. /\ \A m \in Nodes \ {t} : HasChild(g, m) => HasChild(u, m)
        /\ HasChild(u, t) \/ Leafy(g, t)
    BY <2>6, DoubleLeftTurnLeaves, Zenon
  <2> QED  BY <2>4, <2>7
<1> QED  BY <1>6, <1>7, <1>8, <1>9 DEF Rebalancing

\* Every node of S with a child holds at least MinLen entries.
FullIn(h, S) == \A m \in S : HasChild(h, m) => Length(h, m) >= MinLen

\* Without removes a node that has got a child stays half full, one child or two.
FullParents == FullIn(heap, Linked)

\* The inductive invariant of a tree without removals, with its internal nodes full.
FInv == BInv /\ FullParents

\* The lengths are numbers.
LEMMA LengthNat ==
    ASSUME NEW h \in Heap, NEW m \in Nodes
    PROVE  Length(h, m) \in Nat /\ MinLen \in Nat /\ MinLen <= NodeSize /\ NodeSize \in Nat
BY HeapNode, MinLenType, SizeAssumption

\* The nodes keep their children and lose no entry.
LEMMA FullKept ==
    ASSUME NEW h \in Heap, NEW g \in Heap, NEW S \in SUBSET Nodes, FullIn(h, S),
           \A m \in S : g[m].left = h[m].left /\ g[m].right = h[m].right /\ Length(g, m) >= Length(h, m)
    PROVE  FullIn(g, S)
<1> SUFFICES ASSUME NEW m \in S, HasChild(g, m) PROVE Length(g, m) >= MinLen
  BY DEF FullIn
<1>1. HasChild(h, m)
  BY DEF HasChild
<1>2. Length(h, m) >= MinLen /\ Length(g, m) >= Length(h, m)
  BY <1>1 DEF FullIn
<1>3. Length(h, m) \in Nat /\ Length(g, m) \in Nat /\ MinLen \in Nat
  BY LengthNat
<1> QED  BY <1>2, <1>3

\* A node that holds MinLen entries gets a leaf.
LEMMA FullGrown ==
    ASSUME NEW h, NEW S \in SUBSET Nodes, FullIn(h, S), NEW n \in S, NEW f \in Nodes \ S,
           NEW g, Planted(g, h, n, f), Length(h, n) >= MinLen, \A m \in S : g[m].ids = h[m].ids
    PROVE  FullIn(g, S \cup {f})
<1>1. ~HasChild(g, f)
  BY DEF Planted, HasChild
<1>2. \A m \in S : Length(g, m) = Length(h, m)
  BY DEF Length
<1>3. \A m \in S \ {n} : HasChild(g, m) => HasChild(h, m)
  BY DEF Planted, HasChild
<1> QED  BY <1>1, <1>2, <1>3 DEF FullIn

\* A child planted under a full enough node leaves the nodes with children full.
LEMMA PlantFull ==
    ASSUME NEW h, NEW r, NEW n, NEW side, CanPlant(h, r, n, side), FullIn(h, used),
           NEW e \in Entry \cup {None}, NEW g, g = WithChild(h, n, side, e)
    PROVE  FullIn(g, used \cup {Fresh}) /\ g \in Heap /\ Fresh \in Nodes \ used
<1>1. /\ h \in Heap /\ TreeOf(h, used, r) /\ n \in used /\ used \subseteq Nodes /\ CanAllocate
      /\ side \in {"left", "right"} /\ Length(h, n) >= MinLen
  BY DEF CanPlant
<1>2. PICK f : f = Fresh
  OBVIOUS
<1>3. f \in Nodes \ used /\ Planted(g, h, n, f)
  BY <1>2, PlantGrows
<1>4. h[f].left = NIL /\ h[f].right = NIL /\ n # f /\ n \in Nodes
  BY <1>1, <1>3, Outside
<1>5. \A m \in Nodes \ {f} : g[m].ids = h[m].ids
  BY <1>1, <1>2, <1>4, WithChildKeeps
<1>6. FullIn(g, used \cup {f})
  BY <1>1, <1>3, <1>5, FullGrown
<1>7. g \in Heap
  BY <1>3 DEF Planted
<1> QED  BY <1>2, <1>3, <1>6, <1>7

\* A step that writes no node keeps the nodes with children full.
LEMMA SameFull ==
    ASSUME FInv, UNCHANGED <<heap, used, current>>
    PROVE  FullParents'
BY DEF FInv, FullParents, Linked

\* A step that gives the tree a fresh node with no child.
LEMMA LoneFull ==
    ASSUME Linked' = {} \/ \E f : Linked' = {f} /\ ~HasChild(heap', f)
    PROVE  FullParents'
<1>1. CASE Linked' = {}
  BY <1>1 DEF FullParents, FullIn
<1>2. CASE \E f : Linked' = {f} /\ ~HasChild(heap', f)
  BY <1>2 DEF FullParents, FullIn
<1> QED  BY <1>1, <1>2

\* The first insertion keeps the nodes with children full.
LEMMA InsertRootFull == ASSUME FInv, InsertRoot PROVE FullParents'
<1>1. /\ pc = "start" /\ root = NIL /\ CanAllocate /\ UNCHANGED current
      /\ used' = used \cup {Fresh}
      /\ heap' = NodeInsert([heap EXCEPT ![Fresh] = Blank], Fresh, 0, call.item)
      /\ call.op = "insert"
  BY DEF InsertRoot, Goto, At, locals
<1>2. call.item \in Entry
  BY <1>1, CallType DEF FInv, BInv, SInv, IInv, Control
<1>3. current = NIL /\ Linked = used
  BY <1>1, Calm DEF FInv, BInv
<1>4. used = {}
  BY <1>1, <1>3, LinkedTree, Children, NILAssumption DEF FInv, BInv
<1>5. PICK g, f : g = heap' /\ f = Fresh
  OBVIOUS
<1>6. g[f].left = NIL /\ g[f].right = NIL /\ f # NIL
  <2>1. PICK e \in Entry : e = call.item
    BY <1>2
  <2> QED  BY <1>1, <1>5, <2>1, StartedForm, Zenon DEF FInv, BInv
<1>7. Linked' = {f}
  BY <1>1, <1>3, <1>4, <1>5, <1>6 DEF Linked
<1> QED  BY <1>5, <1>6, <1>7, LoneFull DEF HasChild

\* Inserting into the found node keeps the nodes with children full.
LEMMA InsertHereFull == ASSUME FInv, InsertHere PROVE FullParents'
<1>1. /\ pc = "found" /\ UNCHANGED <<used, current>> /\ ~Full(node) /\ call.op = "insert"
      /\ heap' = NodeInsert(heap, node, pos, call.item)
  BY DEF InsertHere, Goto, At, locals
<1>a. PICK g : g = heap'
  OBVIOUS
<1>2. PICK h \in Heap : h = heap /\ g = heap'
  BY <1>a, <1>1, GrowingFound DEF FInv
<1>b. PICK S : S = used
  OBVIOUS
<1>3. PICK n \in Nodes : n = node /\ S = used
  BY <1>b, <1>1, GrowingFound DEF FInv
<1>4. /\ pos \in 0 .. Length(h, n) /\ call.item \in Entry /\ Length(h, n) < NodeSize /\ S \in SUBSET Nodes
  <2>1. call.item \in Entry
    BY <1>1, CallType DEF FInv, BInv, SInv, IInv, Control
  <2>2. pos \in Nat /\ pos <= Length(h, n) /\ S \in SUBSET Nodes
    BY <1>1, <1>2, <1>3, GrowingFound DEF FInv
  <2>3. Length(h, n) \in Nat /\ NodeSize \in Nat /\ ~(Length(h, n) >= NodeSize)
    BY <1>1, <1>2, <1>3, LengthNat DEF Full
  <2> QED  BY <2>1, <2>2, <2>3
<1>5. PICK p \in 0 .. Length(h, n), e \in Entry : p = pos /\ e = call.item
  BY <1>4
<1>6. g = NodeInsert(h, n, p, e)
  BY <1>1, <1>2, <1>3, <1>5
<1>7. /\ g \in Heap /\ Length(g, n) = Length(h, n) + 1
      /\ \A m \in Nodes : g[m].left = h[m].left /\ g[m].right = h[m].right /\ (m # n => g[m] = h[m])
  BY <1>4, <1>6, NodeInsertType
<1>8. \A m \in Nodes : Length(g, m) >= Length(h, m)
  <2>1. \A m \in Nodes \ {n} : Length(g, m) = Length(h, m)
    BY <1>7 DEF Length
  <2> QED  BY <1>7, <2>1, LengthNat
<1>9. FullIn(h, S)
  BY <1>1, <1>2, <1>3, GrowingFound DEF FInv, FullParents
<1>10. FullIn(g, S)
  BY <1>4, <1>7, <1>8, <1>9, FullKept
<1>11. Linked' = S
  BY <1>1, <1>3, GrowingFound DEF FInv, Linked
<1> QED  BY <1>2, <1>10, <1>11 DEF FullParents

\* Inserting into a new child keeps the nodes with children full: it is only created below a full node.
LEMMA InsertChildFull == ASSUME FInv, Asserted, InsertChild PROVE FullParents'
<1> DEFINE side == IF pos = 0 THEN "left" ELSE "right"
<1>1. /\ pc = "found" /\ UNCHANGED current
      /\ heap' = WithChild(heap, node, side, call.item) /\ used' = used \cup {Fresh}
      /\ Full(node) /\ CanAllocate /\ pos \in {0, NodeSize} /\ call.op = "insert" /\ ~Exists
  BY DEF InsertChild, Goto, At, locals
<1>2. call.item \in Entry \cup {None}
  BY <1>1, CallType DEF FInv, BInv, SInv, IInv, Control
<1>3. (pos = 0 => heap[node].left = NIL) /\ (pos # 0 => heap[node].right = NIL)
  BY <1>1 DEF Asserted, InsertAsserts, At
<1>4. side \in {"left", "right"} /\ (side = "left" => heap[node].left = NIL)
      /\ (side = "right" => heap[node].right = NIL)
  BY <1>3
<1> HIDE DEF side
<1>5. Length(heap, node) >= MinLen
  <2>1. Length(heap, node) \in Nat /\ MinLen \in Nat /\ MinLen <= NodeSize /\ NodeSize \in Nat
    BY <1>1, GrowingFound, LengthNat DEF FInv
  <2> QED  BY <1>1, <2>1 DEF Full
<1>6. CanPlant(heap, root, node, side)
  BY <1>1, <1>4, <1>5, GrowingFound DEF CanPlant, FInv
<1>7. FullIn(heap, used)
  BY <1>1, GrowingFound DEF FInv, FullParents
<1>8. FullIn(heap', used \cup {Fresh}) /\ Fresh \in Nodes \ used
  BY <1>1, <1>2, <1>6, <1>7, PlantFull
<1>9. Linked' = used \cup {Fresh}
  BY <1>1, <1>8, GrowingFound, NILAssumption DEF FInv, Linked
<1> QED  BY <1>8, <1>9 DEF FullParents

\* Displacing an item keeps the nodes with children full.
LEMMA DisplaceFull == ASSUME FInv, Asserted, Displace PROVE FullParents'
<1>1. PICK shifted : shifted = InsertRemovingFirst(heap, node, pos, call.item)
  OBVIOUS
<1>2. /\ pc = "found" /\ UNCHANGED current
      /\ Full(node) /\ pos \notin {0, NodeSize} /\ call.op = "insert" /\ ~Exists
      /\ heap[node].left # NIL => heap' = shifted /\ used' = used
      /\ heap[node].left = NIL => /\ CanAllocate /\ used' = used \cup {Fresh}
                                  /\ heap' = WithChild(shifted, node, "left", None)
  BY <1>1 DEF Displace, Goto, At
<1>3. call.item \in Entry /\ Length(heap, node) \in 1 .. NodeSize /\ Length(heap, node) = NodeSize
      /\ pos \in 1 .. Length(heap, node) /\ pos < Length(heap, node) /\ MinLen <= NodeSize
  <2>1. call.item \in Entry
    BY <1>2, CallType DEF FInv, BInv, SInv, IInv, Control
  <2>2. Length(heap, node) \in 1 .. NodeSize
    BY <1>2 DEF Asserted, InsertAsserts, At
  <2>3. NodeSize \in Nat /\ MinLen <= NodeSize
    BY MinLenType, SizeAssumption
  <2> QED  BY <1>2, <2>1, <2>2, <2>3, GrowingFound DEF Full, FInv
<1>a. PICK r : r = root
  OBVIOUS
<1>4. PICK h \in Heap : h = heap /\ r = root
  BY <1>a, <1>2, GrowingFound DEF FInv
<1>5. PICK S, n : S = used /\ n = node
  OBVIOUS
<1>6. /\ TreeOf(h, S, r) /\ n \in S /\ n \in Nodes /\ S \in SUBSET Nodes /\ Linked = S /\ current = NIL
      /\ \A m \in S : Whole(h, m) /\ Rich(h, m)
  BY <1>2, <1>4, <1>5, GrowingFound DEF FInv
<1>7. /\ shifted \in Heap /\ SameLinks(shifted, h)
      /\ Length(shifted, n) = Length(h, n) /\ Whole(shifted, n) /\ \A m \in Nodes : m # n => shifted[m] = h[m]
  <2>1. PICK p \in Nat, e \in Entry : p = pos /\ e = call.item
    BY <1>2, <1>3, GrowingFound DEF FInv
  <2>2. shifted = InsertRemovingFirst(h, n, p, e) /\ p \in 1 .. Length(h, n) /\ p \in Nat /\ p < Length(h, n)
        /\ 1 <= p
    BY <1>1, <1>2, <1>3, <1>4, <1>5, <2>1
  <2>3. shifted \in Heap /\ \A m \in Nodes : m # n => shifted[m] = h[m]
    BY <1>6, <2>2, InsertRemovingFirstType
  <2>4. SameLinks(shifted, h) /\ Length(shifted, n) = Length(h, n) /\ Whole(shifted, n)
    BY <1>6, <2>2, InsertRemovingFirstKeeps
  <2> QED  BY <2>3, <2>4
<1>8. /\ \A m \in Nodes : shifted[m].left = h[m].left /\ shifted[m].right = h[m].right
      /\ \A m \in Nodes : Length(shifted, m) = Length(h, m)
      /\ \A m \in Nodes : Internal(shifted, m) <=> Internal(h, m)
      /\ TreeOf(shifted, S, r)
  BY <1>6, <1>7, LinksSame DEF Length
<1>9. FullIn(shifted, S)
  <2>1. FullIn(h, S)
    BY <1>4, <1>6 DEF FInv, FullParents
  <2>2. \A m \in S : Length(shifted, m) >= Length(h, m)
    BY <1>6, <1>8, LengthNat
  <2> QED  BY <1>6, <1>7, <1>8, <2>1, <2>2, FullKept
<1>10. CASE heap[node].left # NIL
  <2>1. heap' = shifted /\ Linked' = S
    BY <1>2, <1>6, <1>10 DEF Linked
  <2> QED  BY <1>9, <2>1 DEF FullParents
<1>11. CASE heap[node].left = NIL
  <2>1. CanPlant(shifted, root, node, "left")
    <3>1. shifted[n].left = NIL
      BY <1>4, <1>5, <1>6, <1>8, <1>11
    <3>2. \A m \in S : Whole(shifted, m) /\ Rich(shifted, m)
      BY <1>6, <1>7, <1>8 DEF Whole, Rich
    <3>3. Length(shifted, n) >= MinLen
      BY <1>3, <1>4, <1>5, <1>7, MinLenType, SizeAssumption
    <3> QED  BY <1>2, <1>4, <1>5, <1>6, <1>7, <1>8, <1>11, <3>1, <3>2, <3>3 DEF CanPlant
  <2>2. heap' = WithChild(shifted, node, "left", None) /\ None \in Entry \cup {None} /\ FullIn(shifted, used)
    BY <1>2, <1>5, <1>9, <1>11
  <2>3. FullIn(heap', used \cup {Fresh}) /\ Fresh \in Nodes \ used
    BY <2>1, <2>2, PlantFull
  <2>4. Linked' = used \cup {Fresh}
    BY <1>2, <1>5, <1>6, <1>11, <2>3, NILAssumption DEF Linked
  <2> QED  BY <2>3, <2>4 DEF FullParents
<1> QED  BY <1>10, <1>11

\* Putting the displaced item into the node it reached keeps the nodes with children full.
LEMMA PlaceFull == ASSUME FInv, Place PROVE FullParents'
<1>1. /\ pc = "place" /\ UNCHANGED <<used, current>> /\ ~Full(node)
      /\ heap' = NodeInsert(heap, node, Length(heap, node), hand)
  BY DEF Place, Goto
<1>a. PICK g : g = heap'
  OBVIOUS
<1>2. PICK h \in Heap : h = heap /\ g = heap'
  BY <1>a, <1>1, GrowingPlace DEF FInv
<1>b. PICK S : S = used
  OBVIOUS
<1>3. PICK n \in Nodes : n = node /\ S = used
  BY <1>b, <1>1, GrowingPlace DEF FInv
<1>4. PICK p \in 0 .. Length(h, n), e \in Entry : p = Length(h, n) /\ e = hand
  <2>1. Length(h, n) \in 0 .. Length(h, n)
    BY LengthNat
  <2> QED  BY <1>1, <2>1, GrowingPlace DEF FInv
<1>5. Length(h, n) < NodeSize
  BY <1>1, <1>2, <1>3, LengthNat DEF Full
<1>6. g = NodeInsert(h, n, p, e)
  BY <1>1, <1>2, <1>3, <1>4
<1>7. /\ g \in Heap /\ Length(g, n) = Length(h, n) + 1
      /\ \A m \in Nodes : g[m].left = h[m].left /\ g[m].right = h[m].right /\ (m # n => g[m] = h[m])
  BY <1>5, <1>6, NodeInsertType
<1>8. \A m \in Nodes : Length(g, m) >= Length(h, m)
  <2>1. \A m \in Nodes \ {n} : Length(g, m) = Length(h, m)
    BY <1>7 DEF Length
  <2> QED  BY <1>7, <2>1, LengthNat
<1>9. FullIn(h, S) /\ S \in SUBSET Nodes
  BY <1>1, <1>2, <1>3, GrowingPlace DEF FInv, FullParents
<1>10. FullIn(g, S)
  BY <1>7, <1>8, <1>9, FullKept
<1>11. Linked' = S
  BY <1>1, <1>3, GrowingPlace DEF FInv, Linked
<1> QED  BY <1>2, <1>10, <1>11 DEF FullParents

\* Putting the displaced item into a new node below a full one keeps the nodes with children full.
LEMMA PlaceBelowFull == ASSUME FInv, PlaceBelow PROVE FullParents'
<1>1. PICK g : g = WithChild(heap, node, "right", hand)
  OBVIOUS
<1>2. /\ pc = "place" /\ UNCHANGED current
      /\ heap' = UpdateHeight(g, node) /\ used' = used \cup {Fresh}
      /\ Full(node) /\ heap[node].right = NIL /\ CanAllocate
  BY <1>1 DEF PlaceBelow, Goto
<1>a. PICK r : r = root
  OBVIOUS
<1>3. PICK h \in Heap : h = heap /\ r = root
  BY <1>a, <1>2, GrowingPlace DEF FInv
<1>0. PICK S : S = used
  OBVIOUS
<1>4. PICK n \in Nodes : S = used /\ n = node
  BY <1>0, <1>2, GrowingPlace DEF FInv
<1>5. TreeOf(h, S, r) /\ n \in S /\ S \in SUBSET Nodes /\ current = NIL /\ Linked = S
  BY <1>2, <1>3, <1>4, GrowingPlace DEF FInv
<1>6. Length(h, n) >= MinLen /\ h[n].ids # <<>>
  <2>1. Length(h, n) \in Nat /\ MinLen \in Nat /\ MinLen <= NodeSize /\ NodeSize \in Nat /\ NodeSize > 0
    BY LengthNat, SizeAssumption
  <2>2. Length(h, n) >= NodeSize
    BY <1>2, <1>3, <1>4 DEF Full
  <2>3. Length(h, n) >= MinLen /\ Length(h, n) > 0
    BY <2>1, <2>2
  <2> QED  BY <2>3, HeapNode, NotEmpty DEF Length
<1>7. \A m \in S : Rich(h, m) /\ Whole(h, m)
  BY <1>2, <1>3, <1>4, <1>6, GrowingPlace DEF FInv
<1>8. CanPlant(heap, root, node, "right")
  BY <1>2, <1>3, <1>4, <1>5, <1>6, <1>7 DEF CanPlant
<1>9. hand \in Entry \cup {None} /\ FullIn(heap, used)
  BY <1>2, <1>4, <1>5, GrowingPlace DEF FInv, FullParents
<1>10. FullIn(g, used \cup {Fresh}) /\ g \in Heap /\ Fresh \in Nodes \ used
  BY <1>1, <1>8, <1>9, PlantFull
<1>11. PICK T \in SUBSET Nodes : T = used \cup {Fresh}
  BY <1>4, <1>5, <1>10
<1>c. PICK k \in Heap : k = g
  BY <1>10
<1>12. PICK u : k = g /\ u = UpdateHeight(k, n)
  BY <1>c
<1>13. u \in Heap /\ SameLinks(u, g) /\ SameItems(u, g)
  BY <1>12, UpdateHeightType, UpdateHeightKeeps
<1>14. /\ \A m \in Nodes : u[m].left = g[m].left /\ u[m].right = g[m].right
       /\ \A m \in Nodes : Length(u, m) = Length(g, m)
  BY <1>13, LinksSame, SameItemsWhole
<1>15. FullIn(u, T)
  <2>1. \A m \in T : Length(u, m) >= Length(g, m)
    BY <1>10, <1>14, LengthNat
  <2> QED  BY <1>10, <1>11, <1>13, <1>14, <2>1, FullKept
<1>16. Linked' = T /\ heap' = u
  BY <1>2, <1>4, <1>5, <1>10, <1>11, <1>12, NILAssumption DEF Linked
<1> QED  BY <1>15, <1>16 DEF FullParents

\* The first item of a bulk node keeps the nodes with children full.
LEMMA BulkFirstFull == ASSUME FInv, BulkFirst PROVE FullParents'
<1>1. /\ pc = "load" /\ current = NIL /\ CanAllocate
      /\ current' = Fresh /\ used' = used \cup {Fresh} /\ pos < Len(call.items)
      /\ heap' = NodeInsert([heap EXCEPT ![Fresh] = Blank], Fresh, 0, call.items[pos + 1])
  BY DEF BulkFirst
<1>2. call.items[pos + 1] \in Entry
  <2>1. call.items \in Seq(Entry) /\ pos \in Nat /\ Len(call.items) \in Nat
    BY <1>1, LoadFacts, LenProperties DEF FInv, BInv
  <2> QED  BY <1>1, <2>1, ElementOfSeq
<1>3. PICK h \in Heap : h = heap
  BY <1>1, GrowingLoad DEF FInv
<1>4. PICK f \in Nodes \ used : f = Fresh
  BY <1>1, GrowingLoad, FreshNew DEF FInv
<1>5. PICK e \in Entry : e = call.items[pos + 1]
  BY <1>2
<1>6. PICK S : S = Linked
  OBVIOUS
<1>7. S \in SUBSET Nodes /\ Linked' = S /\ f \notin S /\ h[f].left = NIL /\ h[f].right = NIL
  BY <1>1, <1>3, <1>4, <1>6, GrowingLoad, Outside, NILAssumption DEF FInv, Linked
<1>8. PICK g : g = Started(h, f, e)
  OBVIOUS
<1>9. g \in Heap /\ SameLinks(g, h) /\ \A m \in Nodes : m # f => g[m] = h[m]
  BY <1>7, <1>8, StartedKeeps
<1>10. heap' = g
  BY <1>1, <1>3, <1>4, <1>5, <1>8 DEF Started, Cleared
<1>11. \A m \in S : g[m] = h[m]
  BY <1>7, <1>9
<1>12. FullIn(g, S)
  BY <1>3, <1>6, <1>11 DEF FInv, FullParents, FullIn, HasChild, Length
<1> QED  BY <1>7, <1>10, <1>12 DEF FullParents

\* Appending to the bulk node keeps the nodes with children full.
LEMMA BulkAppendFull == ASSUME FInv, BulkAppend PROVE FullParents'
<1>1. /\ pc = "load" /\ UNCHANGED <<used, current>> /\ current # NIL
      /\ heap' = [heap EXCEPT ![current].ids = Append(@, call.items[pos + 1].id),
                              ![current].data = Append(@, call.items[pos + 1].rec)]
  BY DEF BulkAppend
<1>2. current \in Nodes \ Linked /\ Linked \subseteq Nodes /\ heap \in Heap /\ Linked' = Linked
  BY <1>1, GrowingLoad DEF FInv, Linked
<1>3. \A m \in Nodes : m # current => heap'[m] = heap[m]
  BY <1>1, <1>2 DEF Heap
<1>4. \A m \in Linked : heap'[m] = heap[m]
  BY <1>2, <1>3
<1> QED  BY <1>2, <1>4 DEF FInv, FullParents, FullIn, HasChild, Length

\* The first finished bulk node becomes the root: the nodes with children stay full.
LEMMA FinishRootFull == ASSUME FInv, FinishRoot PROVE FullParents'
<1>1. /\ pc = "load" /\ UNCHANGED used /\ current # NIL /\ root = NIL
      /\ heap' = Finished /\ current' = NIL
  BY DEF FinishRoot, CurrentDone
<1>2. Linked = {} /\ current \in Nodes /\ current \in used /\ current # NIL
  BY <1>1, GrowingLoad, Children, NILAssumption DEF FInv
<1>3. PICK g, f : g = heap' /\ f = current
  OBVIOUS
<1>4. g[f].left = NIL /\ g[f].right = NIL
  <2>1. SameForm(g, heap, Nodes)
    BY <1>1, <1>2, <1>3, FinishedForm, GrowingLoad DEF FInv
  <2> QED  BY <1>1, <1>2, <1>3, <2>1, GrowingLoad DEF SameForm, FInv
<1>5. Linked' = {f}
  BY <1>1, <1>2, <1>3, GrowingLoad, NILAssumption DEF Linked, FInv
<1> QED  BY <1>3, <1>4, <1>5, LoneFull DEF HasChild

\* Starting to attach a finished bulk node keeps the nodes with children full.
LEMMA FinishNodeFull == ASSUME FInv, FinishNode PROVE FullParents'
<1>1. /\ pc = "load" /\ UNCHANGED <<used, current>> /\ current # NIL /\ heap' = Finished
  BY DEF FinishNode, CurrentDone, Goto
<1>2. current \in Nodes \ Linked /\ Linked \subseteq Nodes /\ heap \in Heap /\ Linked' = Linked
  BY <1>1, GrowingLoad DEF FInv, Linked
<1>3. \A m \in Linked : heap'[m] = heap[m]
  BY <1>1, <1>2 DEF Finished, Heap
<1> QED  BY <1>2, <1>3 DEF FInv, FullParents, FullIn, HasChild, Length

\* A bulk load attaches a node only where those before it are full.
LEMMA AttachFull == ASSUME FInv, Attach PROVE FullParents'
<1>1. /\ pc = "attach" /\ UNCHANGED <<used, trace>> /\ node = NIL
      /\ heap' = [heap EXCEPT ![Last(trace)].right = current] /\ current' = NIL
  BY DEF Attach, Goto
<1>2. /\ current \in Nodes /\ trace # <<>> /\ Last(trace) \in Linked
  BY <1>1, NILAssumption DEF FInv, BInv, SInv, IInv, Control, Structure, Cursors
<1>a. PICK r : r = root
  OBVIOUS
<1>3. PICK h \in Heap : h = heap /\ r = root
  BY <1>a, <1>1, GrowingLoad DEF FInv
<1>4. PICK S, g : S = Linked /\ g = heap'
  OBVIOUS
<1>5. PICK n \in S, f \in Nodes : n = Last(trace) /\ f = current
  BY <1>2, <1>4
<1>6. /\ S \in SUBSET Nodes /\ f \in Nodes \ S /\ f # NIL /\ n # f
      /\ n \in Nodes /\ h[f].left = NIL /\ h[f].right = NIL
  BY <1>1, <1>2, <1>3, <1>4, <1>5, GrowingLoad, NILAssumption DEF FInv
<1>7. g = [h EXCEPT ![n].right = f]
  BY <1>1, <1>3, <1>4, <1>5
<1>8. /\ \A m \in Nodes \ {n} : g[m] = h[m]
      /\ g[n].ids = h[n].ids
  <2>1. h[n] \in TNode
    BY <1>6, HeapNode
  <2> QED  BY <1>6, <1>7, <2>1 DEF Heap, TNode
<1>9. Length(h, n) = NodeSize
  BY <1>1, <1>3, <1>4, <1>5, <1>6, LoadFacts DEF FInv, BInv, Linked
<1>10. FullIn(h, S)
  BY <1>3, <1>4 DEF FInv, FullParents
<1>11. FullIn(g, S \cup {f})
  <2>1. \A m \in S \ {n} : HasChild(g, m) => Length(g, m) >= MinLen
    BY <1>6, <1>8, <1>10 DEF FullIn, HasChild, Length
  <2>2. Length(g, n) >= MinLen
    <3>1. Length(g, n) = NodeSize
      BY <1>8, <1>9 DEF Length
    <3> QED  BY <3>1, <1>6, LengthNat
  <2>3. ~HasChild(g, f)
    BY <1>6, <1>8 DEF HasChild
  <2> QED  BY <2>1, <2>2, <2>3 DEF FullIn
<1>12. Linked' = S \cup {f}
  <2>1. used = S \cup {f} /\ NIL \notin S
    BY <1>1, <1>2, <1>4, <1>5, <1>6, GrowingLoad, NILAssumption DEF FInv
  <2> QED  BY <1>1, <1>6, <2>1 DEF Linked
<1> QED  BY <1>4, <1>11, <1>12 DEF FullParents

\* A step up of the rebalancing keeps the nodes with children full.
LEMMA RebalanceUpFull == ASSUME FInv, Asserted, RebalanceUp PROVE FullParents'
<1>1. /\ pc = "rebalance" /\ UNCHANGED <<used, current>> /\ trace # <<>>
      /\ Rebalanced.top = Last(trace) /\ heap' = Rebalanced.heap
  BY DEF RebalanceUp
<1>2. heap' = Updated /\ Updated \in Heap /\ SameLinks(Updated, heap) /\ SameItems(Updated, heap)
  BY <1>1, TurnedTree DEF FInv, BInv
<1>3. PICK h \in Heap, g \in Heap : h = heap /\ g = heap'
  BY <1>1, <1>2, GrowingTurn DEF FInv
<1>4. PICK S : S = Linked
  OBVIOUS
<1>5. S \in SUBSET Nodes /\ Linked' = S /\ FullIn(h, S)
  BY <1>1, <1>3, <1>4, GrowingTurn DEF FInv, Linked, FullParents
<1>6. /\ \A m \in Nodes : g[m].left = h[m].left /\ g[m].right = h[m].right
      /\ \A m \in Nodes : Length(g, m) = Length(h, m)
  BY <1>2, <1>3, LinksSame, SameItemsWhole
<1>7. \A m \in S : Length(g, m) >= Length(h, m)
  BY <1>5, <1>6, LengthNat
<1>8. FullIn(g, S)
  BY <1>5, <1>6, <1>7, FullKept
<1> QED  BY <1>3, <1>5, <1>8 DEF FullParents

\* __ensure_min_len touches a node and its two children only.
LEMMA EnsureMinLenRest ==
    ASSUME NEW h \in Heap, NEW S, NEW r, TreeOf(h, S, r), NEW n \in S, EnsureMinLenAsserts(h, n),
           \A m \in S : Whole(h, m), \A m \in S : m # n => Rich(h, m),
           NEW g, g = EnsureMinLen(h, n), ShortOfRecords(h, n)
    PROVE  /\ \A m \in Nodes \ {n, h[n].left, h[n].right} : g[m] = h[m]
           /\ Length(g, n) >= MinLen
<1>1. \E l \in S, k \in S, f \in Nat, x \in Nat, y \in Nat, a \in Heap : Refilled(g, h, n, l, k, f, x, y, a)
  BY EnsureMinLenMoves
<1>2. PICK l \in S, k \in S : \E f \in Nat, x \in Nat, y \in Nat, a \in Heap : Refilled(g, h, n, l, k, f, x, y, a)
  BY <1>1
<1>3. PICK f \in Nat, x \in Nat : \E y \in Nat, a \in Heap : Refilled(g, h, n, l, k, f, x, y, a)
  BY <1>2
<1>4. PICK y \in Nat, a \in Heap : Refilled(g, h, n, l, k, f, x, y, a)
  BY <1>3
<1>5. n \in Nodes /\ l \in Nodes /\ k \in Nodes
  BY Children
<1>6. /\ MoveAsserts(h, n, 0, l, f, x) /\ Length(h, n) + x <= NodeSize /\ a = Move(h, n, 0, l, f, x)
      /\ MoveAsserts(a, n, Length(a, n), k, 0, y) /\ Length(a, n) + y <= NodeSize
      /\ g = Move(a, n, Length(a, n), k, 0, y) /\ l = h[n].left /\ k = h[n].right
  BY <1>4 DEF Refilled
<1>7. \A m \in Nodes : m \notin {n, l} => a[m] = h[m]
  BY <1>5, <1>6, MoveItems
<1>8. PICK p \in Nat : p = Length(a, n)
  BY <1>5, HeapNode DEF Length
<1>9. MoveAsserts(a, n, p, k, 0, y) /\ g = Move(a, n, p, k, 0, y) /\ Length(a, n) + y <= NodeSize
  BY <1>6, <1>8
<1>10. \A m \in Nodes : m \notin {n, k} => g[m] = a[m]
  BY <1>5, <1>9, MoveItems
<1>11. Length(g, n) >= MinLen
  BY DEF EnsureMinLenAsserts
<1> QED  BY <1>6, <1>7, <1>10, <1>11

\* A rotated tree: p is its root, top the node that came up.  A node short of records is on
\* top, over two leaves.
RotatedTree(g, S, p, top) ==
    /\ g \in Heap /\ TreeOf(g, S, p) /\ top \in S /\ S \subseteq Nodes
    /\ \A m \in S : Whole(g, m) /\ (m # top => Rich(g, m))
    /\ FullIn(g, S \ {top})
    /\ Length(g, top) >= MinLen \/ Leafy(g, top)
    /\ EnsureMinLenAsserts(g, top)

\* A rotation of the rebalancing is one that RotatedTree tells: its new top's children are as its refill needs
\* them.
LEMMA RotationIs ==
    ASSUME FInv, Asserted, pc = "rebalance", trace # <<>>, Rebalanced.top # Last(trace)
    PROVE  \E p : RotatedTree(Rotated, used, p, Rebalanced.top)
<1>0. BInv
  BY DEF FInv
<1>a. PICK r : r = root
  OBVIOUS
<1>3. PICK h \in Heap : h = heap /\ r = root
  BY <1>a, <1>0, GrowingTurn
<1>4. PICK S, u : S = used /\ u = Updated
  OBVIOUS
<1>5. PICK n \in Nodes, q \in Ptr : n = Last(trace) /\ q = Parent(Front(trace))
  BY <1>0, GrowingTurn
<1>6. PICK g, top : g = Rotated /\ top = Rebalanced.top
  OBVIOUS
<1>7. /\ TreeOf(h, S, r) /\ n \in S /\ S \subseteq Nodes /\ Leads(Lefts(h), Rights(h), r, q, n)
      /\ Refreshed(u, h, n) /\ u \in Heap /\ TreeOf(u, S, r) /\ Leads(Lefts(u), Rights(u), r, q, n)
      /\ Rebalancing(g, u, S, r, q, n, top) /\ top # n /\ Linked = S
  BY <1>0, <1>3, <1>4, <1>5, <1>6, GrowingTurn
<1>9. PICK c \in S : Lifting(h, S, n, c)
  <2>1. ASSUME \A m \in S : Level(h, m) PROVE FALSE
    <3>1. BalanceFactor(u, n) = BalanceFactor(h, n)
      BY <1>7, RefreshedHeights
    <3>2. BalanceFactor(u, n) \in -1 .. 1
      BY <1>7, <2>1, <3>1 DEF Level
    <3> QED  BY <1>7, <3>2, TopTurned
  <2>2. (\A m \in S : Level(h, m)) \/ \E c \in S : Lifting(h, S, n, c)
    BY <1>0, <1>3, <1>4, <1>5, GrowingTurn
  <2> QED  BY <2>1, <2>2
<1>10. /\ \A m \in Nodes \ {top} : HasChild(g, m) => HasChild(u, m)
       /\ HasChild(u, top) \/ Leafy(g, top)
  BY <1>7, <1>9, TurnedParents
<1>11. PICK p : p = IF q = NIL THEN top ELSE r
  OBVIOUS
<1>12. Turned(g, u, S, p, top) /\ SameLinks(u, h) /\ SameItems(u, h)
  BY <1>0, <1>3, <1>4, <1>5, <1>6, <1>11, TurnedTree DEF BInv
<1>13. /\ g \in Heap /\ TreeOf(g, S, p) /\ top \in S /\ SameItems(g, u)
       /\ \A m \in Nodes : m # top /\ Internal(g, m) => Internal(u, m)
  BY <1>12 DEF Turned
<1>14. SameItems(g, h) /\ \A m \in Nodes : m # top /\ Internal(g, m) => Internal(h, m)
  BY <1>12, <1>13, SameItemsTwice, LinksSame
<1>15. \A m \in Nodes : (Whole(g, m) <=> Whole(h, m)) /\ Length(g, m) = Length(h, m)
  BY <1>14, SameItemsWhole
<1>16. \A m \in S : Whole(h, m) /\ Rich(h, m)
  BY <1>0, <1>3, <1>4, Calm DEF BInv
<1>17. \A m \in S : Whole(g, m) /\ (m # top => Rich(g, m))
  BY <1>7, <1>14, <1>15, <1>16 DEF Rich
<1>18. EnsureMinLenAsserts(g, top)
  BY <1>6 DEF Asserted, RebalanceAsserts
<1>19. \A m \in Nodes : HasChild(u, m) <=> HasChild(h, m)
  BY <1>12, LinksSame DEF HasChild
<1>20. FullIn(h, S)
  BY <1>3, <1>7 DEF FInv, FullParents
<1>21. FullIn(g, S \ {top})
  BY <1>7, <1>10, <1>15, <1>19, <1>20 DEF FullIn
<1>22. Length(g, top) >= MinLen \/ Leafy(g, top)
  BY <1>7, <1>10, <1>13, <1>15, <1>19, <1>20 DEF FullIn
<1>23. RotatedTree(g, S, p, top)
  BY <1>7, <1>13, <1>17, <1>18, <1>21, <1>22 DEF RotatedTree
<1> QED  BY <1>4, <1>6, <1>23

\* The refill after a rotation leaves every node with children full.
LEMMA EnsureFull ==
    ASSUME NEW g, NEW S, NEW p, NEW top, RotatedTree(g, S, p, top), NEW k, k = EnsureMinLen(g, top)
    PROVE  FullIn(k, S)
<1>1. /\ g \in Heap /\ TreeOf(g, S, p) /\ top \in S /\ S \subseteq Nodes /\ top \in Nodes
      /\ \A m \in S : Whole(g, m)
      /\ \A m \in S : m # top => Rich(g, m)
      /\ FullIn(g, S \ {top}) /\ EnsureMinLenAsserts(g, top)
  BY DEF RotatedTree
<1>2. Length(g, top) \in Nat /\ MinLen \in Nat
  BY <1>1, LengthNat
<1>3. CASE ShortOfRecords(g, top)
  <2>1. ~(Length(g, top) >= MinLen)
    BY <1>2, <1>3 DEF ShortOfRecords
  <2>2. PICK l, r : l = g[top].left /\ r = g[top].right
    OBVIOUS
  <2>3. l \in Nodes /\ r \in Nodes /\ ~HasChild(g, l) /\ ~HasChild(g, r)
    BY <2>1, <2>2 DEF RotatedTree, Leafy
  <2>4. (\A m \in Nodes \ {top, l, r} : k[m] = g[m]) /\ Length(k, top) >= MinLen
    BY <1>1, <1>3, <2>2, EnsureMinLenRest
  <2>5. SameForm(k, g, Nodes)
    BY <1>1, EnsureMinLenForm
  <2>6. ~HasChild(k, l) /\ ~HasChild(k, r)
    BY <2>3, <2>5 DEF SameForm, HasChild
  <2>7. \A m \in S \ {top, l, r} : HasChild(k, m) => Length(k, m) >= MinLen
    BY <1>1, <2>4 DEF FullIn, HasChild, Length
  <2> QED  BY <2>4, <2>6, <2>7 DEF FullIn
<1>4. CASE ~ShortOfRecords(g, top)
  <2>1. k = g
    BY <1>4 DEF EnsureMinLen
  <2>2. Length(g, top) >= MinLen
    <3>1. ASSUME Leafy(g, top) PROVE Length(g, top) >= MinLen
      <4>1. Kind(g, top) = "internal"
        BY <3>1, NILAssumption DEF Leafy, Kind
      <4> QED  BY <1>2, <1>4, <4>1 DEF ShortOfRecords
    <3> QED  BY <3>1 DEF RotatedTree
  <2> QED  BY <1>1, <2>1, <2>2 DEF FullIn
<1> QED  BY <1>3, <1>4

\* A rotation and its refill keep the nodes with children full.
LEMMA RebalanceRotateFull == ASSUME FInv, Asserted, RebalanceRotate PROVE FullParents'
<1>1. /\ pc = "rebalance" /\ UNCHANGED <<used, current>> /\ trace # <<>>
      /\ Rebalanced.top # Last(trace) /\ heap' = EnsureMinLen(Rotated, Rebalanced.top)
  BY DEF RebalanceRotate
<1>2. PICK p : RotatedTree(Rotated, used, p, Rebalanced.top)
  BY <1>1, RotationIs
<1>3. PICK g, top, k : g = Rotated /\ top = Rebalanced.top /\ k = EnsureMinLen(g, top)
  OBVIOUS
<1>4. PICK S : S = used
  OBVIOUS
<1>5. RotatedTree(g, S, p, top)
  BY <1>2, <1>3, <1>4
<1>6. FullIn(k, S)
  BY <1>3, <1>5, EnsureFull
<1>7. Linked' = S /\ heap' = k
  BY <1>1, <1>3, <1>4, GrowingTurn DEF FInv, Linked
<1> QED  BY <1>6, <1>7 DEF FullParents

\* So __ensure_min_len takes only what is next to the node: the children it takes from have none.
LEMMA FullSteals ==
    ASSUME FInv, Asserted
    PROVE  StealsAtEnds
<1> SUFFICES ASSUME pc = "rebalance", trace # <<>>, Rebalanced.top # Last(trace),
                    ShortOfRecords(Rotated, Rebalanced.top)
             PROVE  /\ Rotated[Rotated[Rebalanced.top].left].right = NIL
                    /\ Rotated[Rotated[Rebalanced.top].right].left = NIL
  BY DEF StealsAtEnds
<1>1. PICK p : RotatedTree(Rotated, used, p, Rebalanced.top)
  BY RotationIs
<1>2. PICK g, top : g = Rotated /\ top = Rebalanced.top
  OBVIOUS
<1>3. g \in Heap /\ top \in Nodes /\ (Length(g, top) >= MinLen \/ Leafy(g, top))
  BY <1>1, <1>2 DEF RotatedTree
<1>4. Length(g, top) \in Nat /\ MinLen \in Nat
  BY <1>3, LengthNat
<1>5. Length(g, top) < MinLen
  BY <1>2 DEF ShortOfRecords
<1>6. Leafy(g, top)
  BY <1>3, <1>4, <1>5
<1> QED  BY <1>2, <1>6 DEF Leafy, HasChild

\* The invariant holds at the start.
LEMMA InitFull == Init => FInv
<1> SUFFICES ASSUME Init PROVE FInv
  OBVIOUS
<1>1. BInv
  BY InitGrowing
<1>2. FullParents
  BY DEF Init, FullParents, FullIn, Linked
<1> QED  BY <1>1, <1>2 DEF FInv

\* Destroying the tree keeps the invariant.
LEMMA DestroyFull == ASSUME FInv, Destroy PROVE FullParents'
BY DEF Destroy, FullParents, FullIn, Linked

\* The steps that write no node keep the nodes with children full.
LEMMA StillFull ==
    ASSUME FInv, \/ SearchSteps \/ IterateSteps \/ InsertExisting \/ PlaceDescend \/ RebalanceEnd
                 \/ StartLoad \/ AttachDescend \/ LoadEnd
    PROVE  FullParents'
<1> USE DEF Goto, Settle, At, memory, locals
<1>1. UNCHANGED <<heap, used, current>>
  <2>1. CASE SearchSteps
    BY <2>1 DEF SearchSteps, EmptyTree, StartSearch, SearchRight, SearchLeft, SearchHere, SearchOff, Get
  <2>2. CASE IterateSteps
    BY <2>2 DEF IterateSteps, StartIterate, IterDescend, IterReady, IterNext, IterClimb, IterEnd
  <2>3. CASE InsertExisting \/ PlaceDescend \/ RebalanceEnd
    BY <2>3 DEF InsertExisting, PlaceDescend, RebalanceEnd
  <2>4. CASE StartLoad \/ AttachDescend \/ LoadEnd
    BY <2>4 DEF StartLoad, AttachDescend, LoadEnd
  <2> QED  BY <2>1, <2>2, <2>3, <2>4
<1> QED  BY <1>1, SameFull

\* Starting an operation keeps the nodes with children full.
LEMMA CallFull == ASSUME FInv, Call PROVE FullParents'
<1>1. UNCHANGED <<heap, used, current>>
  BY DEF Call, CallGet, CallInsert, CallRemove, CallIterate, CallDestroy, CallLoad, Begin, memory, locals
<1> QED  BY <1>1, SameFull

\* The end of an operation keeps the nodes with children full.
LEMMA ReturnFull == ASSUME FInv, Return PROVE FullParents'
<1>1. UNCHANGED <<heap, used>> /\ pc = "return" /\ current' = NIL
  BY DEF Return, memory
<1>2. current = NIL
  BY <1>1, Calm DEF FInv, BInv
<1> QED  BY <1>1, <1>2, SameFull

\* In a tree without removals every step keeps the invariant.
LEMMA NextFull == ASSUME FInv, Removes = {}, [Next]_vars PROVE FInv'
<1>1. BInv'
  BY NextGrowing DEF FInv
<1>2. CASE UNCHANGED vars
  BY <1>1, <1>2, SameFull DEF FInv, vars, memory, locals
<1>3. CASE Call
  BY <1>1, <1>3, CallFull DEF FInv
<1>4. CASE Run
  <2>1. Asserted
    BY <1>4 DEF Run
  <2>2. CASE SearchSteps \/ Return \/ IterateSteps
    BY <1>1, <2>2, StillFull, ReturnFull DEF FInv
  <2>3. CASE InsertSteps
    BY <1>1, <2>1, <2>3, StillFull, InsertRootFull, InsertHereFull, InsertChildFull,
       DisplaceFull, PlaceFull, PlaceBelowFull DEF FInv, InsertSteps
  <2>4. CASE RemoveSteps
    BY <2>4, RemoveGrowing DEF FInv
  <2>5. CASE RebalanceSteps
    BY <1>1, <2>1, <2>5, StillFull, RebalanceUpFull, RebalanceRotateFull DEF FInv, RebalanceSteps
  <2>6. CASE LoadSteps
    BY <1>1, <2>6, StillFull, BulkFirstFull, BulkAppendFull, FinishRootFull,
       FinishNodeFull, AttachFull DEF FInv, LoadSteps
  <2>7. CASE Destroy
    BY <1>1, <2>7, DestroyFull DEF FInv
  <2> QED  BY <1>4, <2>2, <2>3, <2>4, <2>5, <2>6, <2>7 DEF Run
<1> QED  BY <1>2, <1>3, <1>4 DEF Next

\* In a tree that is only inserted into, loaded and iterated the in-order traversal ascends between
\* (SearchOrder): the refill of a short node then always takes its items from the ends.
THEOREM SearchOrderWithoutRemoves ==
    ASSUME Removes = {}, NodeSize <= 255
    PROVE  Spec => []SearchOrder
<1>1. Init => OInv /\ FInv
  BY InitStructure, InitSorted, InitFull DEF OInv
<1>2. OInv /\ FInv /\ [Next]_vars => OInv' /\ FInv'
  <2> SUFFICES ASSUME OInv, FInv, [Next]_vars PROVE OInv' /\ FInv'
    OBVIOUS
  <2>1. OrderKept
    BY FullSteals DEF OrderKept
  <2> QED  BY <2>1, NextSorted, NextFull
<1>3. OInv => SearchOrder
  BY SearchOrderHolds
<1> QED  BY <1>1, <1>2, <1>3, PTL DEF Spec

=============================================================================
