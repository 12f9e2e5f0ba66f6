------------------------------- MODULE Queries --------------------------------
(***************************************************************************)
(* The commands that print records: SHOW ALL, QUERY and SHOW SUMMARY of     *)
(* src/src/main.c.  They walk the tree in the order of IDs, collect         *)
(* pointers to records in arrays, sort them with quicksort and print them.  *)
(* A pointer is the ID of its record.  match is the set of the IDs whose    *)
(* records fulfil the condition of the command; Parser shows which those    *)
(* are.  Commands leave nothing behind but what they wrote to temp_id.      *)
(***************************************************************************)
EXTENDS Quicksort, Records, FiniteSetsExt

CONSTANTS
    IDs,      \* the IDs of records
    Content,  \* what a record holds: name, programme, mark
    Unset,    \* what temp_id holds before it is set
    SortBys   \* the SORT BY clauses

ASSUME IDsAssumption == IDs \subseteq Int /\ IsFiniteSet(IDs)
ASSUME UnsetAssumption == Unset \in Int \ IDs
ASSUME SortBysAssumption == SortBys \subseteq Order /\ Order = [column : Column, ascending : BOOLEAN]
ASSUME ContentAssumption ==
    /\ NaN \notin Int
    /\ \A c \in Content : c.name \in Int /\ c.programme \in Int /\ c.mark \in Int \cup {NaN}
\* quicksort is called with records, and with cmp_record.
ASSUME ItemAssumption ==
    /\ \A id \in IDs, t \in IDs \cup {Unset}, c \in Content :
          [id |-> id, temp_id |-> t, name |-> c.name, programme |-> c.programme, mark |-> c.mark] \in Item
    /\ \A l, r \in Item, u \in Order : Cmp(l, r, u) = CmpRecord(l, r, u)

VARIABLES
    db,              \* the records of the tree, a function on the IDs there
    temp_id,         \* the member temp_id of each of them
    command, match,  \* the command that runs, or the last one
    todo,            \* the IDs that the iterator has still to return
    list,            \* the array or list of pointers that records are collected in
    capacity,        \* the room in each array on the heap, 0 when there is none
    highest, lowest, \* the marks of the summary and the lists of their records
    count, sum,
    out,             \* the records printed, each with the ID printed for it
    step             \* where the command is, "prompt" between two commands

found == <<highest, lowest, count, sum>>
vars == <<sortVars, db, temp_id, command, match, todo, list, capacity, found, out, step>>

InOrder(S) ==
    CHOOSE s \in [1 .. Cardinality(S) -> S] :
        Range(s) = S /\ \A i, j \in DOMAIN s : i < j => s[i] < s[j]

InIterOrderEitherWay(sort_by) == sort_by.column = "ID" \* slip: descending as well

InIterOrder(sort_by) == sort_by = [column |-> "ID", ascending |-> TRUE]

Stored(id) == [id |-> id, temp_id |-> temp_id[id], name |-> db[id].name,
               programme |-> db[id].programme, mark |-> db[id].mark]

NoArrays == [list |-> 0, highest |-> 0, lowest |-> 0]

Nobody == [mark |-> NaN, list |-> <<>>]

Init ==
    /\ SortInit /\ udata = CHOOSE u \in Order : TRUE
    /\ db \in UNION {[S -> Content] : S \in SUBSET IDs}
    /\ temp_id = [id \in DOMAIN db |-> Unset]
    /\ command = [tag |-> "NONE"] /\ match = {}
    /\ todo = <<>> /\ list = <<>> /\ capacity = NoArrays
    /\ highest = Nobody /\ lowest = Nobody /\ count = 0 /\ sum = 0
    /\ out = <<>>
    /\ step = "prompt"

-----------------------------------------------------------------------------
(* The start of a command.                                                   *)

Start(cmd, matching, where) ==
    /\ step = "prompt"
    /\ command' = cmd /\ match' = matching
    /\ todo' = IF where = "prompt" THEN <<>> ELSE InOrder(DOMAIN db)
    /\ list' = <<>> /\ out' = <<>>
    /\ highest' = Nobody /\ lowest' = Nobody /\ count' = 0 /\ sum' = 0
    /\ step' = where
    /\ UNCHANGED <<sortVars, db, temp_id>>

Empty == DOMAIN db = {}

\* SHOW ALL, when all it prints is a message.
Says(tag) == Start([tag |-> tag], {}, "prompt") /\ UNCHANGED capacity

ShowAll(sort_by) ==
    LET cmd == [tag |-> "SHOW ALL", sort_by |-> sort_by] IN
    \/ Empty /\ Says("NO RECORDS")
    \/ ~Empty /\ InIterOrder(sort_by) /\ Start(cmd, DOMAIN db, "walk") /\ UNCHANGED capacity
    \/ ~Empty /\ ~InIterOrder(sort_by) /\ Says("OUT OF MEMORY")
    \/ /\ ~Empty /\ ~InIterOrder(sort_by) /\ Start(cmd, DOMAIN db, "copy")
       /\ capacity' = [capacity EXCEPT !.list = Cardinality(DOMAIN db)]

Query(sort_by, matching) ==
    Start([tag |-> "QUERY", sort_by |-> sort_by], matching, "filter") /\ UNCHANGED capacity

\* Without a condition every record matches and none is evaluated.
Summary(filtered, matching) ==
    /\ filtered \/ matching = DOMAIN db
    /\ Start([tag |-> "SUMMARY", filtered |-> filtered], matching, "summarise")
    /\ UNCHANGED capacity

-----------------------------------------------------------------------------
(* One record of the walk.                                                   *)

NextOf(where) == step = where /\ todo # <<>> /\ todo' = Tail(todo)

Walked(where) == step = where /\ todo = <<>>

SetNever(id) == temp_id \* slip: the ID is not copied to the record

SetID(id) == [temp_id EXCEPT ![id] = id]

\* SHOW ALL in the order of IDs prints as it goes.
PrintNext ==
    /\ NextOf("walk")
    /\ temp_id' = SetID(Head(todo))
    /\ out' = Append(out, <<Head(todo), temp_id'[Head(todo)]>>)
    /\ UNCHANGED <<sortVars, db, command, match, list, capacity, found, step>>

EndWalk ==
    /\ Walked("walk")
    /\ step' = "prompt"
    /\ UNCHANGED <<sortVars, db, temp_id, command, match, todo, list, capacity, found, out>>

CopyNext ==
    /\ NextOf("copy")
    /\ temp_id' = SetID(Head(todo))
    /\ list' = Append(list, Head(todo))
    /\ UNCHANGED <<sortVars, db, command, match, capacity, found, out, step>>

-----------------------------------------------------------------------------
(* SHOW SUMMARY: the marks found so far and those who have them.             *)

Matches(id) == id \in match

Evaluated(id) == IF command.filtered THEN SetID(id) ELSE temp_id

\* The first record that matches sets both marks.
Best(best, id) == IF count = 0 THEN [best EXCEPT !.mark = db[id].mark] ELSE best

\* A mark that is at least as good joins the list, one that is better starts it anew.
JoinedKeeping(best, id, mark, better, asGood) == \* slip: the list is not cleared
    IF asGood THEN [mark |-> mark, list |-> Append(best.list, id)] ELSE best

Joined(best, id, mark, better, asGood) ==
    IF better THEN [mark |-> mark, list |-> <<id>>]
    ELSE IF asGood THEN [best EXCEPT !.list = Append(@, id)]
    ELSE best

JoinHighest(id) ==
    LET best == Best(highest, id)
        mark == db[id].mark
    IN  Joined(best, id, mark, FloatLess(best.mark, mark), FloatAtMost(best.mark, mark))

JoinLowest(id) ==
    LET best == Best(lowest, id)
        mark == db[id].mark
    IN  Joined(best, id, mark, FloatLess(mark, best.mark), FloatAtMost(mark, best.mark))

-----------------------------------------------------------------------------
(* The lists of list.c, that grow before a record is appended.               *)

Doubled(c) == c * 2 \* slip: nothing grows out of nothing

Larger(c) == c * 2 + 1

\* The room that the next record needs in each list.
Needed ==
    LET id == Head(todo) IN
    [list |-> IF step = "filter" /\ Matches(id) THEN Len(list) + 1 ELSE 0,
     highest |-> IF step = "summarise" /\ Matches(id) THEN Len(JoinHighest(id).list) ELSE 0,
     lowest |-> IF step = "summarise" /\ Matches(id) THEN Len(JoinLowest(id).list) ELSE 0]

Roomy == \A l \in DOMAIN Needed : Needed[l] <= capacity[l]

\* One round of the loop of List_ensure_capacity.
Grow(l) ==
    /\ step \in {"filter", "summarise"} /\ todo # <<>> /\ Needed[l] > capacity[l]
    /\ capacity' = [capacity EXCEPT ![l] = Larger(@)]
    /\ UNCHANGED <<sortVars, db, temp_id, command, match, todo, list, found, out, step>>

\* Condition_eval sets temp_id, and so does run_query if the record matches.
FilterNext ==
    /\ NextOf("filter") /\ Roomy
    /\ temp_id' = SetID(Head(todo))
    /\ list' = IF Matches(Head(todo)) THEN Append(list, Head(todo)) ELSE list
    /\ UNCHANGED <<sortVars, db, command, match, capacity, found, out, step>>

SummariseNext ==
    /\ NextOf("summarise") /\ Roomy
    /\ temp_id' = Evaluated(Head(todo))
    /\ IF Matches(Head(todo))
       THEN /\ highest' = JoinHighest(Head(todo)) /\ lowest' = JoinLowest(Head(todo))
            /\ count' = count + 1 /\ sum' = FloatSum(sum, db[Head(todo)].mark)
       ELSE UNCHANGED found
    /\ UNCHANGED <<sortVars, db, command, match, capacity, list, out, step>>

-----------------------------------------------------------------------------
(* The end of a command.                                                     *)

FreedList == [capacity EXCEPT !.list = 0] \* slip: the lists of the summary stay

Freed == NoArrays

NoneMatch ==
    /\ Walked("filter") /\ list = <<>>
    /\ step' = "prompt" /\ capacity' = Freed
    /\ UNCHANGED <<sortVars, db, temp_id, command, match, todo, list, found, out>>

MustSort == Walked("copy") \/ (Walked("filter") /\ list # <<>> /\ ~InIterOrder(command.sort_by))

CallSort ==
    /\ MustSort
    /\ Call([i \in 0 .. Len(list) - 1 |-> Stored(list[i + 1])], Len(list), command.sort_by)
    /\ step' = "sort"
    /\ UNCHANGED <<db, temp_id, command, match, todo, list, capacity, found, out>>

Sorting ==
    /\ step = "sort" /\ SortStep
    /\ IF Outermost
       THEN list' = [i \in 1 .. Len(list) |-> arr[i - 1].id] /\ step' = "print"
       ELSE UNCHANGED <<list, step>>
    /\ UNCHANGED <<db, temp_id, command, match, todo, capacity, found, out>>

InOrderAlready == Walked("filter") /\ list # <<>> /\ InIterOrder(command.sort_by)

PrintList ==
    /\ step = "print" \/ InOrderAlready
    /\ out' = [i \in 1 .. Len(list) |-> <<list[i], temp_id[list[i]]>>]
    /\ step' = "prompt" /\ capacity' = Freed
    /\ UNCHANGED <<sortVars, db, temp_id, command, match, todo, list, found>>

\* assert(highest_mark_records.length > 0) and the same of the lowest
ReportAsserts == count > 0 => highest.list # <<>> /\ lowest.list # <<>>

Report ==
    /\ Walked("summarise")
    /\ IF ReportAsserts
       THEN step' = "prompt" /\ capacity' = Freed
       ELSE step' = "aborted" /\ UNCHANGED capacity
    /\ UNCHANGED <<sortVars, db, temp_id, command, match, todo, list, found, out>>

-----------------------------------------------------------------------------
Continue ==
    \/ PrintNext \/ EndWalk \/ CopyNext \/ FilterNext \/ SummariseNext
    \/ \E l \in DOMAIN capacity : Grow(l)
    \/ NoneMatch \/ CallSort \/ Sorting \/ PrintList \/ Report

Next ==
    \/ \E s \in SortBys : ShowAll(s)
    \/ \E s \in SortBys, m \in SUBSET DOMAIN db : Query(s, m)
    \/ \E filtered \in BOOLEAN, m \in SUBSET DOMAIN db : Summary(filtered, m)
    \/ Continue

Spec == Init /\ [][Next]_vars

\* A command runs without waiting for anything.
FairSpec == Spec /\ WF_vars(Continue)

-----------------------------------------------------------------------------
Value(id, column) == IF column = "ID" THEN id ELSE Get(Stored(id), column)

\* What SORT BY says of two records that are printed one after the other.
InSortOrder(id, next, sort_by) ==
    LET x == Value(id, sort_by.column)
        y == Value(next, sort_by.column)
    IN  IF sort_by.ascending THEN x <= y ELSE y <= x

Listed == step = "prompt" /\ command.tag \in {"SHOW ALL", "QUERY"}

\* A command that lists records (main.c:259, 403) prints every record it should
\* once and no other, in the order of its SORT BY clause, whichever of the ways
\* through the code it takes.  Where a mark is NaN its column has no order.
ListingExact ==
    Listed =>
        /\ {o[1] : o \in Range(out)} = match /\ Len(out) = Cardinality(match)
        /\ (\A id \in match : Value(id, command.sort_by.column) # NaN) =>
              \A i \in 1 .. Len(out) - 1 : InSortOrder(out[i][1], out[i + 1][1], command.sort_by)

\* The ID printed with a record is its own: print_record and cmp_record read it from
\* temp_id, which holds garbage until the walk of the command has set it.
PrintsOwnID == \A i \in DOMAIN out : out[i][2] = out[i][1]

Marks == {db[id].mark : id \in match}

\* The summary (main.c:307) names exactly those with the highest and with the
\* lowest mark among the records that match, in the order of their IDs.
SummaryRight ==
    step = "prompt" /\ command.tag = "SUMMARY" /\ NaN \notin Marks =>
        /\ count = Cardinality(match)
        /\ sum = MapThenSumSet(LAMBDA id : db[id].mark, match)
        /\ highest.list = InOrder({id \in match : \A m \in Marks : m <= db[id].mark})
        /\ lowest.list = InOrder({id \in match : \A m \in Marks : db[id].mark <= m})

\* The asserts of the summary (main.c:368, 377) fail for one reason only: the first
\* record that matches has NaN for its mark, with which no mark compares.
AbortsOnNaNOnly == step = "aborted" => db[InOrder(match)[1]].mark = NaN

\* The same asserts as the code states them: they never fail.
AssertsHold == step # "aborted"

\* Every array is freed on every way out of a command, the early ones included.
ArraysFreed == step = "prompt" => capacity = NoArrays

\* Every command comes back to the prompt, or ends the program in an assert: the
\* partition loops of quicksort meet, its recursion ends whatever the comparator
\* says (NaN), and the lists grow from nothing.
CommandsEnd == step \notin {"prompt", "aborted"} ~> step \in {"prompt", "aborted"}
=============================================================================
