----------------------------- MODULE OrderedMap -----------------------------
(***************************************************************************)
(* What a T-tree promises its callers (src/src/t-tree.c, the comments above *)
(* TTree_get, TTree_insert, TTree_remove, TTree_iter_next and               *)
(* TTree_bulk_insert): a map from IDs to records in which every call takes  *)
(* effect at once, between the moment it is made and the moment it returns. *)
(* The map is the set of its entries; no two of them share an ID.           *)
(***************************************************************************)
EXTENDS SequencesExt, Integers

CONSTANTS
    ID,     \* the record IDs, ordered by <
    Record, \* the records (name, programme and mark), opaque to the tree
    None    \* no call is pending, or the pending call has no result yet

VARIABLES
    map,    \* the entries [id, rec] of the map
    call,   \* the call being served, or None
    res     \* its result once it has taken effect, or None

vars == <<map, call, res>>

Entry == [id : ID, rec : Record]

IDsOf(entries) == {e.id : e \in entries}

\* A sequence of entries in strictly ascending order of ID.
Ascending(s) == \A i \in 1 .. Len(s) - 1 : s[i].id < s[i + 1].id

-----------------------------------------------------------------------------
Init == map = {} /\ call = None /\ res = None

Invoke ==
    /\ call = None
    /\ call' # None
    /\ UNCHANGED <<map, res>>

Pending(op) == call # None /\ call.op = op /\ res = None

\* NULL, or the record stored under the ID.
Get ==
    /\ Pending("get")
    /\ res' = [found |-> {e.rec : e \in {x \in map : x.id = call.id}}]
    /\ UNCHANGED <<map, call>>

\* An ID that is present keeps its record and the call reports false.
Insert ==
    /\ Pending("insert")
    /\ res' = [inserted |-> call.item.id \notin IDsOf(map)]
    /\ map' = IF res'.inserted THEN map \cup {call.item} ELSE map
    /\ UNCHANGED call

RemoveID ==
    /\ Pending("remove")
    /\ res' = [removed |-> call.id \in IDsOf(map)]
    /\ map' = {e \in map : e.id # call.id}
    /\ UNCHANGED call

\* The iterator hands out every entry once, in ascending order of ID.
Iterate ==
    /\ Pending("iterate")
    /\ res' # None
    /\ res' = [items |-> res'.items]
    /\ ToSet(res'.items) = map
    /\ Ascending(res'.items)
    /\ UNCHANGED <<map, call>>

\* A bulk insert builds a new map out of entries given in ascending order.
Load ==
    /\ Pending("load")
    /\ map' = ToSet(call.items)
    /\ res' = [loaded |-> Len(call.items)]
    /\ UNCHANGED call

Destroy ==
    /\ Pending("destroy")
    /\ map' = {}
    /\ res' = [destroyed |-> TRUE]
    /\ UNCHANGED call

Return ==
    /\ call # None /\ res # None
    /\ call' = None /\ res' = None
    /\ UNCHANGED map

Next ==
    \/ Invoke
    \/ Get \/ Insert \/ RemoveID
    \/ Iterate \/ Load \/ Destroy
    \/ Return

Spec == Init /\ [][Next]_vars
=============================================================================
