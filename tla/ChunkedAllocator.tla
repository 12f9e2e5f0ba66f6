--------------------------- MODULE ChunkedAllocator ---------------------------
(***************************************************************************)
(* The allocator of src/src/chunked-allocator.c, which t-tree.c takes its   *)
(* nodes from.  A chunk is an array of Capacity items at an address that is *)
(* a multiple of ChunkSize.  The items nobody holds form a free list inside *)
(* the array: each holds the index of the next one where its owner would    *)
(* keep data.  Chunks with free items and full chunks are on two doubly     *)
(* linked lists, and an unused chunk goes back to the system.  A call runs  *)
(* to its end before the next one, so each is one step.                     *)
(***************************************************************************)
EXTENDS Integers, Sequences, FiniteSets, Functions

CONSTANTS
    Chunks,    \* the addresses the system may give a chunk
    ChunkSize, \* CHUNK_SIZE (65536 in the code)
    ItemSize,  \* sizeof(TYPE)
    NULL,      \* the null pointer
    Garbage    \* what an item holds that is not an index of the free list

Capacity == ChunkSize \div ItemSize

ASSUME SizeAssumption == /\ ChunkSize \in Nat \ {0} /\ ItemSize \in Nat \ {0}
                         /\ ItemSize <= ChunkSize
ASSUME ChunkAssumption == \A c \in Chunks : c \in Nat /\ c % ChunkSize = 0
ASSUME ValueAssumption == NULL \notin Nat /\ Garbage \notin Nat
ASSUME FiniteAssumption == IsFiniteSet(Chunks)

VARIABLES
    created,  \* whether the tree has made its allocator yet
    head,     \* free_chunks and full_chunks, as head["free"] and head["full"]
    chunk,    \* what each chunk holds
    mapped,   \* the chunks the system has given the program
    held,     \* the items handed out and not yet freed
    item,     \* what the last call returned
    turn      \* the parity of the number of calls for an item

vars == <<created, head, chunk, mapped, held, item, turn>>

Slots == 0 .. Capacity - 1

ItemAt(c, i) == c + i * ItemSize

Items == {ItemAt(c, i) : c \in Chunks, i \in Slots}

\* The bits of CHUNK_MASK clear what an address has beyond a multiple of ChunkSize.
ChunkOf(p) == p - (p % ChunkSize)

\* ptr - chunk->memory
IndexOf(p) == (p - ChunkOf(p)) \div ItemSize

Unmapped == [memory |-> [i \in Slots |-> Garbage], free_list |-> 0, used_count |-> 0,
             prev |-> NULL, next |-> NULL]

FreshChunkLooped == \* slip: each item is followed by itself
    [Unmapped EXCEPT !.memory = [i \in Slots |-> IF i < Capacity - 1 THEN i ELSE Garbage]]

\* The last item of the free list is not initialised.
FreshChunk ==
    [Unmapped EXCEPT !.memory = [i \in Slots |-> IF i < Capacity - 1 THEN i + 1 ELSE Garbage]]

-----------------------------------------------------------------------------
(* The lists.  m is the memory: a record of head and chunk.                 *)

Memory == [head |-> head, chunk |-> chunk]

SetNext(m, c, d) == IF c = NULL THEN m ELSE [m EXCEPT !.chunk[c].next = d]
SetPrev(m, c, d) == IF c = NULL THEN m ELSE [m EXCEPT !.chunk[c].prev = d]

ListPrepend(m, list, c) ==
    SetPrev([m EXCEPT !.chunk[c].prev = NULL, !.chunk[c].next = m.head[list], !.head[list] = c],
            m.head[list], c)

ListRemoveInside(m, list, c) == \* slip: takes c for a chunk that is not the head
    LET prev == m.chunk[c].prev
        next == m.chunk[c].next
    IN  [SetPrev(SetNext(m, prev, next), next, prev) EXCEPT
            !.chunk[c].prev = NULL, !.chunk[c].next = NULL]

ListRemove(m, list, c) ==
    LET prev == m.chunk[c].prev
        next == m.chunk[c].next
    IN  [SetPrev(SetNext(m, prev, next), next, prev) EXCEPT
            !.chunk[c].prev = NULL, !.chunk[c].next = NULL,
            !.head[list] = IF @ = c THEN next ELSE @]

Full(m, c) == m.chunk[c].used_count = Capacity

\* Take the first free item of the first free chunk.
Take(m) ==
    LET c == m.head["free"]
        i == m.chunk[c].free_list
        taken == [m EXCEPT !.chunk[c].free_list = m.chunk[c].memory[i],
                           !.chunk[c].used_count = @ + 1]
    IN  IF Full(taken, c) THEN ListPrepend(ListRemove(taken, "free", c), "full", c) ELSE taken

\* Put an item back at the head of its chunk's free list.
Put(m, p) ==
    LET c == ChunkOf(p)
        put == [m EXCEPT !.chunk[c].memory[IndexOf(p)] = m.chunk[c].free_list,
                         !.chunk[c].free_list = IndexOf(p),
                         !.chunk[c].used_count = @ - 1]
    IN  IF Full(m, c) THEN ListPrepend(ListRemove(put, "full", c), "free", c) ELSE put

NeverUnused(m, c) == FALSE \* slip: chunks are never given back

Unused(m, c) == m.chunk[c].used_count = 0

-----------------------------------------------------------------------------
(* The calls.                                                               *)

Init ==
    /\ created = FALSE
    /\ head = [l \in {"free", "full"} |-> NULL]
    /\ chunk = [c \in Chunks |-> Unmapped]
    /\ mapped = {} /\ held = {} /\ item = NULL /\ turn = 0

Becomes(m) == head' = m.head /\ chunk' = m.chunk

\* The client gets the first free item and writes its own data over the index that the
\* item held (__ttree_node_create, before anything else is called).
HandOut(m) ==
    LET c == m.head["free"]
        i == m.chunk[c].free_list
    IN  /\ Becomes([Take(m) EXCEPT !.chunk[c].memory[i] = Garbage])
        /\ item' = ItemAt(c, i)
        /\ held' = held \cup {ItemAt(c, i)}
        /\ turn' = 1 - turn

\* The first TTree_insert or TTree_bulk_insert of a tree.
Create ==
    /\ ~created /\ created' = TRUE
    /\ head' = [l \in {"free", "full"} |-> NULL]
    /\ UNCHANGED <<chunk, mapped, held, item, turn>>

AllocFromChunk ==
    /\ created /\ head["free"] # NULL
    /\ HandOut(Memory)
    /\ UNCHANGED <<created, mapped>>

AllocFromNewChunk(c) ==
    /\ created /\ head["free"] = NULL /\ c \in Chunks \ mapped
    /\ HandOut(ListPrepend([Memory EXCEPT !.chunk[c] = FreshChunk], "free", c))
    /\ mapped' = mapped \cup {c}
    /\ UNCHANGED created

\* The system has no chunk to give, at any time.
AllocFails ==
    /\ created /\ head["free"] = NULL
    /\ item' = NULL /\ turn' = 1 - turn
    /\ UNCHANGED <<created, head, chunk, mapped, held>>

\* t-tree.c frees each node it was given once.
Free(p) ==
    /\ p \in held
    /\ LET m == Put(Memory, p)
           c == ChunkOf(p)
       IN  IF Unused(m, c)
           THEN /\ Becomes([ListRemove(m, "free", c) EXCEPT !.chunk[c] = Unmapped])
                /\ mapped' = mapped \ {c}
           ELSE Becomes(m) /\ mapped' = mapped
    /\ held' = held \ {p} /\ item' = NULL /\ turn' = 1 - turn
    /\ UNCHANGED created

\* The loops free what is left on the two lists.  TTree_destroy frees every node of
\* the tree first.
Destroy ==
    /\ created /\ held = {}
    /\ created' = FALSE /\ mapped' = {}
    /\ chunk' = [c \in Chunks |-> Unmapped]
    /\ head' = [l \in {"free", "full"} |-> NULL]
    /\ UNCHANGED <<held, item, turn>>

Next ==
    \/ Create \/ AllocFromChunk \/ AllocFails \/ Destroy
    \/ \E c \in Chunks : AllocFromNewChunk(c)
    \/ \E p \in Items : Free(p)

Spec == Init /\ [][Next]_vars

-----------------------------------------------------------------------------
(* Properties.                                                              *)

TypeOK ==
    /\ created \in BOOLEAN
    /\ head \in [{"free", "full"} -> Chunks \cup {NULL}]
    /\ chunk \in [Chunks -> [memory : [Slots -> Slots \cup {Garbage}],
                             free_list : Slots \cup {Garbage}, used_count : 0 .. Capacity,
                             prev : Chunks \cup {NULL}, next : Chunks \cup {NULL}]]
    /\ mapped \subseteq Chunks /\ held \subseteq Items /\ item \in Items \cup {NULL} /\ turn \in 0 .. 1

\* The ways to put the members of a finite set in a row.
Rows(S) == {s \in [1 .. Cardinality(S) -> S] : IsInjective(s)}

FreeSlots(c) == {i \in Slots : ItemAt(c, i) \notin held}

\* From free_list on, the free list of a chunk visits exactly the items nobody holds,
\* each once, and never follows an index that is garbage: neither the one the last
\* item of a new chunk was left with nor what an owner wrote over an index.
FreeListsSound ==
    \A c \in mapped :
        /\ chunk[c].used_count = Capacity - Cardinality(FreeSlots(c))
        /\ \E s \in Rows(FreeSlots(c)) :
              /\ s # <<>> => chunk[c].free_list = s[1]
              /\ \A k \in 1 .. Len(s) - 1 : chunk[c].memory[s[k]] = s[k + 1]

Listed(list) == {c \in mapped : Full(Memory, c) = (list = "full")}

\* Each chunk is on the list it belongs to and nowhere else, and the pointers of the
\* lists agree in both directions, so that a chunk can leave from anywhere in a list.
ListsSound ==
    \A list \in {"free", "full"} :
        \E s \in Rows(Listed(list)) :
            LET Nth(k) == IF k \in 1 .. Len(s) THEN s[k] ELSE NULL
            IN  /\ head[list] = Nth(1)
                /\ \A k \in 1 .. Len(s) : /\ chunk[s[k]].next = Nth(k + 1)
                                          /\ chunk[s[k]].prev = Nth(k - 1)

\* Both kinds of lists, which share the memory of the chunks.
AllListsSound == FreeListsSound /\ ListsSound

\* Once every item has been freed no chunk is left.  Allocator_destroy, which reads the
\* next pointer of each chunk it has just freed, therefore finds empty lists.
NothingKept == held = {} => mapped = {} /\ \A list \in DOMAIN head : head[list] = NULL

ItemPool == INSTANCE Pool

\* The allocator never hands out an item that is still held.
ImplementsPool == ItemPool!Spec
===============================================================================
