------------------------------- MODULE MCTTree -------------------------------
(***************************************************************************)
(* Instances of the T-tree for TLC.  The ID of a record doubles as its      *)
(* content, so that data which parts from its ID is noticed.                *)
(***************************************************************************)
EXTENDS TTree, TLC

CONSTANTS
    MaxID,        \* the IDs are 1 .. MaxID
    InsertIDs,    \* the IDs callers insert
    Clashes,      \* those they also insert with another record
    LoadLengths   \* a bulk load inserts the multiples of LoadStep, this many
                  \* of them
CONSTANT LoadStep

MCID == 1 .. MaxID
MCRecord == 0 .. MaxID

\* A record is its ID, but for the one that clashes.
MCInserts == {[id |-> i, rec |-> i] : i \in InsertIDs} \cup {[id |-> i, rec |-> 0] : i \in Clashes}

MCLoads == {[i \in 1 .. n |-> [id |-> LoadStep * i, rec |-> LoadStep * i]] : n \in LoadLengths}

-----------------------------------------------------------------------------
(* Nodes are told apart by their place in the tree only: a state and one    *)
(* that differs from it in the addresses of the nodes have the same future  *)
(* up to those addresses.                                                   *)

View ==
    LET order == NodesBelow(root)
        place[n \in Ptr] ==
            IF n \in ToSet(order) THEN CHOOSE i \in DOMAIN order : order[i] = n ELSE 0
        content(n) == <<heap[n].ids, heap[n].data, heap[n].last_id, heap[n].height>>
    IN  <<[i \in DOMAIN order |-> <<content(order[i]), place[heap[order[i]].left],
                                    place[heap[order[i]].right]>>],
          place[root], Cardinality(used), call, res, pc, place[node], place[target],
          [i \in DOMAIN trace |-> place[trace[i]]], pos, hand, out,
          IF current = NIL THEN <<>> ELSE content(current)>>
=============================================================================
