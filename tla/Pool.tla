--------------------------------- MODULE Pool ---------------------------------
(***************************************************************************)
(* What an allocator of one kind of item promises: it never hands out an    *)
(* item that is still held, and a failed allocation changes nothing.        *)
(***************************************************************************)
EXTENDS Naturals

CONSTANTS Items, NULL

VARIABLES
    held,   \* the items handed out and not yet freed
    item,   \* what the last call returned
    turn    \* the parity of the number of calls, which tells each from the one before

Init == held = {} /\ item = NULL /\ turn = 0

Alloc(i) == i \notin held /\ held' = held \cup {i} /\ item' = i

AllocFails == item' = NULL /\ UNCHANGED held

Free(i) == i \in held /\ held' = held \ {i} /\ item' = NULL

Next ==
    /\ turn' = 1 - turn
    /\ AllocFails \/ \E i \in Items : Alloc(i) \/ Free(i)

Spec == Init /\ [][Next]_<<held, item, turn>>
===============================================================================
