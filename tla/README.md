# Formal model of classy

classy is a command line program that keeps a table of student records: it
loads a table from a text file, runs one-line commands on it and saves it.  It
has one thread.  What makes it hard to get right is not concurrency but long
sequences of legal calls on pointer structures it builds itself, calls of the
operating system that fail half-way through a save, being killed at any moment,
and copies of state that have to be kept up to date by hand.

This directory holds TLA+ modules translated from the C code, TLC
configurations that check them on small instances, and proofs checked by TLAPS.
`PROJECT.json` ties each definition to the lines of code it stands for and
lists the hazards, the runs, the theorems and the disagreements found.

## Inventory of the system

| Part | Code | State it keeps | Operations | Module |
|---|---|---|---|---|
| T-tree | `t-tree.c` | root, nodes with up to 38 records, heights, `last_id` copies | get, insert, remove, bulk load, iterate, destroy | `TTree` implements `OrderedMap`; `MCTTree`, `TTreeProofs`, `TTreeOrderProofs` |
| Chunked allocator | `chunked-allocator.c` | chunks on a free and a full list, a free list of indices inside each chunk | create, alloc, free, destroy | `ChunkedAllocator` implements `Pool`; `ChunkedAllocatorProofs` |
| Atomic file, SAVE | `atomic-file.c`, `run_save` | temporary file, stream and its buffer, the user's files | open, print, close (rename), delete | `AtomicFile` implements `AtomicSave`; `AtomicFileProofs` |
| Command loop | `main.c` | the database, `record_count`, `last_filename`, what stdin still holds | OPEN, INSERT, UPDATE, DELETE with its question, SAVE, end of input | `Session`; `SessionProofs` |
| Listings and summary | `main.c`, `list.c` | `temp_id` of records, arrays and lists of pointers | SHOW ALL, QUERY, SHOW SUMMARY | `Queries`; `MCQueries`, `QueriesProofs` |
| Quicksort, comparators | `quicksort.c`, `record.c` | the array, the recursion | sort | `Quicksort`, `Records`; `QueriesProofs` |
| Tokenizer | `tokenizer.c` | cursor, one token of lookahead, file name mode | next, peek | `Tokenizer`; `MCTokenizer` |
| Parser, conditions | `parser.c`, `condition.c` | expression trees, who owns them | parse a command, destroy it, evaluate a condition | `Parser`; `MCParser`, `ParserProofs` |
| Database file | `db.c` | line buffer, cursor, columns, last ID, strings | load, save, destroy | `DbFile`; `MCDbFile`, `DbFileProofs` |
| Strings | `string_helper.c`, `record.c` | none | read to a delimiter, split, escape and unescape | `Strings` |
| Errors, panics, portability | `error.c`, `panic.c`, `unreachable.c`, `fmemopen.c` | none | end the program | none |

How they interact: `main` reads a line, the tokenizer and the parser turn it
into a `Command`, and a `run_` function carries it out on the `DB`.  The `DB` is
a T-tree of records plus a count and a name.  The T-tree takes its nodes from a
chunked allocator of its own.  OPEN bulk loads a new tree and replaces the old
one only when all of the file was read.  SAVE iterates over the tree and prints
it through an atomic file.  All of these are plain calls: no callbacks except the
comparator of quicksort, no shared state besides the `DB` and `last_filename`.

What makes each part correct:

- *T-tree*: it behaves as a map; iteration is in ascending order; IDs are ordered
  through the whole tree; heights are exact and the tree is balanced (the traces
  have a fixed capacity of 39, which is enough only then); internal nodes are
  not short of records; `last_id` is exact; no node leaks or is shared; no
  assert fails; every call returns.
- *Allocator*: no item is handed out twice; free lists visit the free items and
  never follow garbage; every chunk is on the list where it belongs; nothing is
  left after the last free.
- *SAVE*: the user's file is whole in every state; the user is told the truth;
  temporary files are removed; the stream is closed once.
- *Command loop*: the count is exact; SAVE without a name uses the name of the
  last OPEN or SAVE that succeeded; no string leaks or is used after it was
  freed; the tail of a line is never run as a command.
- *Listings*: every record that matches is printed once, with its own ID, in the
  order asked for; the summary names the right records; what a command
  allocates is freed on every way out.
- *Quicksort*: it permutes and sorts, stays inside its part of the array for any
  comparator, and returns.
- *Tokenizer*: a line is cut where it was meant to be; the parser gets the
  streams of tokens that it was written for.
- *Parser*: it accepts the grammar of the program's README and nothing else, binds
  operators as documented, and every condition it allocates has one owner.
- *Database file*: OPEN takes databases and nothing else; what is saved can be
  opened and is the same table; a refused file changes nothing; the cursor
  stays inside the line.
- *Strings*: a delimiter is found wherever it is; what is escaped comes back.

The hard behaviours, each at its line, are the `hazards` of `PROJECT.json`.

## Plan

1. `OrderedMap`, `TTree`, `MCTTree`: the core data structure. **Done.**
2. `TTreeProofs`: type correctness, the validity of pointers, and the structure of
   the tree, from which `NoLeak`, `InternalMinLen` and `LastIDExact` follow; then
   `TTreeOrderProofs`: the order of IDs, exact heights and the balance, which are
   false of some trees, under the conditions that make them true. **Done.**  Left to
   TLC: `NoAssertFails` and the steps mapping to `OrderedMap`.
3. `Pool`, `ChunkedAllocator`, `ChunkedAllocatorProofs`. **Done.**
4. `AtomicSave`, `AtomicFile`, `AtomicFileProofs`. **Done.**
5. `Session`, `SessionProofs`. **Done.**
6. `Records`, `Quicksort`, `Queries`, `QueriesProofs`. **Done.**
7. `Tokenizer`, `Parser`, `ParserProofs`. **Done.**
8. `Strings`, `DbFile`, `DbFileProofs`. **Done.**
9. The tree over the allocator, addresses of nodes being items of chunks: left out,
   since `TTree` takes any unused node and `Pool` promises just that.

Composition: `Session` uses the tree as a map, which `TTree` implements, a save as
one step, which `AtomicFile` implements, and an OPEN as one step that replaces the
database or leaves it, which `DbFile` takes apart.  `Queries` contains `Quicksort`
and its steps.  `Parser` reads the tokens of `Tokenizer` one by one; the run that
checks it first checks that `Tokenizer` delivers such streams.  `Queries` is given
the set of records that match, and `Parser` shows which set a condition means.

## The modules

### OrderedMap and TTree

`OrderedMap` is what the tree promises: a set of entries, and calls that take
effect in one step between an invocation and a return.

`TTree` has the tree's nodes as `heap`, a function from addresses to records with
the fields of `TTreeNode`; `ids` and `data` are separate sequences because the
code shifts them by separate memory moves, and `length` is the length of `ids`.
A call is a record in `call`, its locals are `node`, `target`, `trace`, `pos`,
`hand`, `current` and `out`, and `pc` names the loop or branch the code is in.
Each step is one iteration of a loop of the C function, so that every
intermediate shape is a state; the helpers (`Move`, `Merge`, `LeftRotate`,
`RebalanceSubtree`, `EnsureMinLen`, ...) are functions from heap to heap.

The program is built with asserts.  `Asserted` is the conjunction of the asserts
that the next step will meet, among them the capacity of the traces: a step is
taken only if they hold, and `NoAssertFails` says that they always do.  What
`__ttree_node_removable_count` computes is taken modulo 256, as its type is
`uint8_t`.

Three simplifications.  A node that has lost all its entries still has its ID in
the array's first slot and in `last_id`; the model reads it from `last_id`.  A
freed node is `Blank`, and the allocator hands out any unused one: reading a
freed node would be seen as a broken order or a leak.  Record contents are
values, and copying or freeing their strings is left out.

### ChunkedAllocator and Pool

`Pool` hands out items that nobody holds.  `ChunkedAllocator` has chunks whose
addresses are multiples of `ChunkSize`, so that `ChunkOf` and `IndexOf` are the
arithmetic of the code; the memory of a free item is the index of the next free
one, and of an item in use whatever its owner writes: a value that is no index
(`Garbage`) or one that is.  A chunk from the system comes with arbitrary
content.

### AtomicFile and AtomicSave

`AtomicSave` promises that a save replaces the file in one step or not at all,
says that it was saved only after that step and that it failed only without it.
`AtomicFile` has the temporary file, the stream with its buffer, one step for
each call, and a set `Faults` of the calls that may fail: `mkstemp`, `fdopen`, a
write while printing, the write that `fclose` makes, `rename`, and being killed
between any two steps.  A killed program loses the stream's buffer and its
locals and starts again by opening a whole file.  `unlink` is taken to succeed.

When `rename` fails, `AtomicFile_delete` closes a stream that is closed already.  That
has no defined behaviour; the model has the two outcomes that C libraries give it: it
does nothing, and the save goes on to the `unlink` (`DeleteClosesAgain`), or the allocator
finds the double free and ends the program (`DeleteAborts`), which then has died and
starts again like one that was killed.

### Session

One action per command.  A line of input has a length, ends in a newline or in
the end of the input, and may have a NUL character; `GetLine` computes what
`fgets` and the draining loop leave of it for the buffer of the commands and for
the one of DELETE's answer.  File names live in `Cells`, the places `strdup`
returns, so that comparing `last_filename` by address and freeing it mean what
they mean in C.  Contents in `Wide` are those whose line is longer than
`DB_from_file` accepts.

### Records, Quicksort and Queries

`Records` has the columns and the comparisons.  A mark is a number or `NaN`, of
which every comparison of C is false, so that `FloatAtMost` is not the negation of
`FloatLess`.

`Quicksort` is one step per iteration of the partition's loops and one per
recursive call, with the open calls as a stack of frames; `head` and `tail` are
indices into the whole array.  The comparator is a parameter and need not be an
order.  `Queries` runs the three commands that print, over a table of any
content: one step per record of the walk, `temp_id` as a function that holds
`Unset` before it is written, the lists of `list.c` with their capacity and its
growth, the sort inside, and what is printed as pairs of a record and the ID
printed for it.

### Tokenizer and Parser

`Tokenizer` cuts a line of pieces: words, and single characters.  Whether a
letter, a digit, a space or a sign follows is what the code asks, and is what is
kept of a piece.  Numbers keep their form (digits, point, exponent, more digits
than fit) and lose their value.

`Parser` makes its line while it reads it: `next` is the token of lookahead and
any token that may follow can follow.  The recursive `__parse_expression` is the
stack `calls`, and a call waits `at` an operand, a group, a prefix or an infix
operator.  Conditions are numbers in `conds`, `freed` are those passed to `free`
and `destroyed` those passed to `Condition_destroy`, which frees everything below
its argument and not the argument.  An expression that was never initialised has
an arbitrary tag when it is destroyed (`Garbage`), and `wild` is the state after
following its pointer.  `malloc` may fail at each condition.

`MCParser` has a grammar that knows nothing of binding powers: a line is split at
its weakest operator, to the right.  It says which lines are commands
(`Command`) and which rows a condition is true of (`Meaning`).  `MCTokenizer` has
ways to write a token, and says which two run into each other without a space.

### Strings and DbFile

`Strings` has `read_until_delim_or_eof` as a fold over the characters with its
partial matches, the cursor of `string_split_next`, and the two directions of
quoting.  Strings are sequences of characters there.

In `DbFile` a line is a sequence of commas and what is between them (`Token`):
IDs, other numbers, quoted strings, names of columns, and `Others`, which are none
of these; the name of a table is the rest of its line.  A foreign
file is made line by line as it is read (`ForeignLine` says of what lines, given
what was read so far); a saved one is what `DB_to_file` wrote.  `current` is the
cursor in the line, `NULL`, or `Past`: behind the end of the line, where anything
that the buffer held before may be seen (`Stale`).  A string in `Wide` is longer
than half a line, so that a line with two of them is too long to be read.  `atEnd` says
that `fgetc` has returned EOF, at the end of the file or because it failed (`cut`).
`Crash` is a character read through NULL: in a line of columns that stops behind valid
names (`LacksColumn`) and where a string is missing.  `fgetc`
may fail at any line, and `malloc` for a header.  Strings on the heap are
counted, and `lost` counts those that nothing points to any more.

## The runs

| Run | What it shows | Bounds |
|---|---|---|
| `ttree` | Inserts and removals in any order, bulk loads, lookups, iteration, a clashing insert, destroy: types, asserts, order, exact copies (`last_id`, heights), balance, no leak, minimum length; implements the map | nodes of three, nine IDs, eight nodes, loads of 0, 5, 9 |
| `ttree_returns` | Every call returns | nodes of three, five of them, a load of seven, four inserts, four removals; weak fairness |
| `ttree_order_lost` | **violated**: the order of IDs after removals | a scripted set of IDs |
| `allocator` | Free lists, chunk lists, nothing kept, implements the pool | three chunks of three items |
| `save` | Whole files, truthful answers, no temporary file left by a save that returns, implements the promise | two files, three lines with a buffer of two, two edits, two deaths (killed, or aborted by the second `fclose`) |
| `save_truncates` | **violated**: the user is told "saved" and the file is cut off | the write of `fclose` fails |
| `save_closes_twice` | **violated**: the stream is closed twice | `rename` fails |
| `session` | The count, the default file name, whole lines | two IDs, two files, buffers of 5 and 3, lines of up to 6 |
| `queries` | Listings and summary exact, IDs printed are the records' own, arrays freed; quicksort in bounds, sorts, depth; commands end | tables of up to four of four IDs, three contents (one NaN), every set of matches, four SORT BY clauses |
| `summary_nan` | **violated**: the asserts of the summary | two IDs |
| `parser` | Lines cut as written; which lines are commands; what they mean; who owns conditions; every line ends | seven alphabets of tokens, see below |
| `dbfile` | Which files are opened, as what; a saved file opens as what was saved; what leads to NULL or over the end of a line; the strings; delimiters and quoting | files of five lines, two IDs, strings of four characters, streams of five |

Why these bounds are enough to mean something.

*Tree.* Nodes of three are the smallest in which an internal node may hold fewer
records than a full one and steal.  The run reaches trees of height three, single
and double rotations on both sides, merges in both directions, stealing from both
children and chains of displaced records.  It is not enough to exclude errors in
larger trees: the two known violations need higher trees, of ten nodes and more,
reached with a chosen set of IDs.  The `VIEW` forgets the addresses of nodes: the
code only compares addresses for equality and never stores them outside the tree,
so two states that differ in addresses only have the same future up to them.  The
liveness run does without it.

*Allocator.* Three chunks are the fewest for which a chunk leaves the middle of a
list.

*Save.* A buffer of two lines for three lines to print is the smallest with both a
flush while printing and one at the end.

*Session.* Lines up to one character more than the buffer cover both sides of
every comparison in `get_line`.

*Queries.* Four records are the fewest with a partition whose two sides both hold
something besides the pivot, ties included; lists grow three times.

*Parser.* Five tokens of every kind; eight with brackets and every operator; ten
without NOT, and ten without brackets; sixteen with AND and OR alone, which is
four comparisons and so every order of three binary operators of two strengths; fourteen for pairs, one more than INSERT's.
The tokenizer is checked on three spelled tokens and on three arbitrary pieces:
its decisions look at one character past a token.  In `dbfile`, the first record
of a foreign file is anything that differs from a good one in one place; two
records are enough for an order of IDs, and a foreign file is read into an empty
session, since what was open matters at the end only, when it is destroyed
(saved files are read with records open).

Each property has a mutant in `PROJECT.json`, a change of one definition such as
a wrong offset, a missing update or a dropped branch, that TLC finds within the
same bounds.

`CHECK_DEADLOCK FALSE` is set for `AtomicFile` (edits and deaths are bounded), `Session` (it exits),
`Queries` (an assert may end the program), `Parser` and `DbFile` (a program that
follows garbage or NULL stops).

Fairness: weak fairness of the steps of the call in progress, and nothing else:
`Run` in `TTree`, `Continue` in `Queries`, `Parse` in `Parser`.  The processor
goes on executing the code of a call.  No step of these waits for a user, a file
or another thread; users need not give commands.

Four configurations reproduce the disagreements below that have no run of their
own:

```
tlc -config TTreeUnbalanced.cfg MCTTree        # Balanced
tlc -config SessionSplitsLine.cfg Session      # WholeLines
tlc -config ParserTrailing.cfg MCParser        # ConsumesAllTokens
tlc -config DbFileCrashes.cfg MCDbFile         # NeverCrashes
```

## What disagrees with the code's own documentation

With a run:

1. `__ensure_min_len_after_rebalance` (`t-tree.c:399`) takes the last records of
   a child that may have a subtree of larger IDs.  The tree is then out of
   order: a record cannot be found and its ID can be inserted again.
   (`ttree_order_lost`; replayed on the compiled tree.)
2. `AtomicFile_close` (`atomic-file.c:95`) does not look at what `fclose`
   returns, and replaces the user's file by a partial one.  (`save_truncates`;
   replayed.)
3. When `rename` fails, the stream is closed twice (`main.c:524`,
   `atomic-file.c:79`).  (`save_closes_twice`; replayed.)
4. SHOW SUMMARY fails an assert (`main.c:368`) if the first record that matches
   has NaN for its mark, which INSERT and OPEN accept.  (`summary_nan`; replayed.)

With a configuration:

5. `__rebalance_from_node_trace` (`t-tree.c:419`) stops after one rotation, which
   is right for insertions only.  After removals the tree can be unbalanced and
   the heights of ancestors too large.  (`TTreeUnbalanced.cfg`; replayed.)
6. A line that is too long and has a NUL character is not drained (`main.c:60`).
   (`SessionSplitsLine.cfg`; replayed.)
7. UPDATE swallows one token behind its pairs, so that
   `UPDATE Name="b" ID=1 =` is a command, though the end of `parse_command`
   checks that nothing is left (`parser.c:537`, `725`).  (`ParserTrailing.cfg`;
   replayed.)

Seen in the model and stated by the passing properties as they are:

8. An expression that fails to parse behind `(` or NOT leaves its result
   uninitialised, and the caller destroys it (`parser.c:451`, `469`, `507`):
   `WildOnlyInGroups` says that this is the only way, of each step that destroys one.
9. The root of every condition is leaked: `Condition_destroy` does not free it and
   no caller of `Command_destroy` does (`parser.c:241`, `condition.c:45`):
   `ConditionsOwned` counts it as destroyed and not freed.
10. The comment at `quicksort.c:105` says O(log(n)) space; on sorted input the
    recursion is one less deep than the array is long: `DepthBelowLength` is
    reached.
11. A record whose two strings were given by two UPDATEs can be saved as a line
    that OPEN refuses (`db.c:162`): `SavedOpensSame`.
12. A line of a file with too few columns makes `DB_from_file` read through NULL
    or beyond the end of the line: `__parse_columns` hands the NULL behind the last name to
    `str_to_column` before it tests it, as for `ID,Name,Programme` (`db.c:73`,
    `tokenizer.c:94`; `DbFileCrashes.cfg` finds such a file), a string is looked for at NULL
    (`db.c:184`), or behind the end of the line (`db.c:197`).  `OnlyShortLinesRunOver` says
    that these are the only ways.  Columns beyond the fourth are dropped without a word.
13. The headers of a refused file are leaked (`db.c:231`): `StringsOwned`.
14. A read error between two lines of a file is taken for its end
    (`string_helper.c:27`), and the records up to there are opened as if they were
    all: `CutOpensPart`.
15. What `strdup` returns is not looked at (`db.c:141`, `record.c:212`,
    `main.c:462`, `main.c:618`): not modelled.

The passing runs exclude causes 1 to 7 and nothing else: the tree runs by their
size, `save` by leaving `"flush"` out of `Faults` (a failing `rename`, and what
follows it, is in);
`session` by lines without NUL characters; `queries` stops at the assert, and
says that nothing but NaN leads to it (`AbortsOnNaNOnly`); `parser` allows
UPDATE its one token (`UpdateAndToken`).

## What is proved

`TTreeProofs` proves for every node size of at least two, every set of IDs,
records and addresses and every sequence of calls:

- `TypeCorrect`: `Spec => []TypeOK`.  Besides types it says that `ids` and `data`
  of a node are equally long and never longer than the node has room for: no
  memory move of the node helpers writes past a node.
- `ControlCorrect`: `Spec => []Control`: wherever the code dereferences the
  cursor or pops the trace without testing it, there is something.

Neither is inductive alone.  `IInv == TypeOK /\ Control` is: a helper keeps a heap
well-typed only if the pointers it is given are nodes, which `Control` says for
each value of `pc`, and `Control` needs the types.  The argument goes bottom up:
lemmas on slices and insertions into sequences, one lemma per node helper
(`MoveType`, `MergeType`, ...), one per rotation, then one per group of actions
(`InsertInv`, `RemoveInv`, ...) with a step for each action, and `NextInv`.  The
asserts of the code are what excludes moves that would not fit; that the asserts
hold is `NoAssertFails`, which is checked by TLC and not proved.

Above these stands the structure of the tree:

- `StructureHolds`: `Spec => []SInv`, in the middle of a call too; and from it, between
  calls, `NothingLeaked` (`NoLeak`), `MinimumLength` (`InternalMinLen`) and `LastIDCopied`
  (`LastIDExact`, the half of `CopiesExact` that is true of every tree).

`SInv` is `IInv` with six conjuncts, none of which is inductive without the others.
`Shape`: the nodes handed out, but for the one a bulk load is filling, form a tree.
`Cursors`: `node`, `target` and the top of the trace are in it; without this an unlinked
node could be the one a cursor still works on.  `Filled`: every node holds records and its
`last_id` is that of the last, but for the one that the call has just emptied (`Emptied`);
so a node is freed only when nothing is lost with it.  `Enough`: internal nodes have
`MinLen` records, but for `target` while it steals.  `Current` and `LoadFull` do the same
for a bulk load, which fills each node before it begins the next.  That the rest of a trace
is the path from the root is not needed: a step unlinks or turns a node only through the
parent it has just popped, and `PointsTo`, the assert of `__pop_node_get_pointer`, says
that this parent holds the pointer.

A tree is described by its pointers alone (`Tree`): a function `up` to the parents and a
`rank` that falls on the way down.  So a rotation, a leaf that is added, a node that is
unlinked or spliced out are lemmas about two functions (`Rotate`, `AddLeaf`, `DropLeaf`,
`Splice`), which say what `up` and `rank` become; `Mirror` gives their other side.  On top
of them are a lemma for what each helper keeps (`MoveKeeps`, `MergeTree`, `RebalanceTree`,
`EnsureMinLenKeeps`, ...), a lemma for each group of actions (`InsertStructure`,
`RemoveStructure`, `LoadStructure`, ...) and `NextStructure`.  For `NoLeak` one has to know
that the recursion of `NodesBelow` means something: that there is a function as it asks for
is shown rank by rank (`HalfExists`), and that it visits each node of the tree once by the
ranks as well (`BelowFacts`, `JoinSet`).

Balance and order, which the code can lose after removals, are no part of this invariant: a
tree without them still leaks no node.  Where the code relies on either it asserts what it
needs (that the child of a half leaf is a leaf, that the pointer popped from the trace leads
to the node), and the asserts are hypotheses of a step here as in the model, since a
program built with asserts stops where one fails.

`TTreeOrderProofs` proves when the tree is a search tree and balanced.  Both are violated
after some removals (`ttree_order_lost`, `TTreeUnbalanced.cfg`), so the theorems name what
it takes:

- `OrderUnlessStolen`: `Spec /\ []StealsAtEnds => []SearchOrder`, for every sequence of calls
  with removals.  `StealsAtEnds` says of one place in the code that it does what its author
  had in mind: when a rotation has left a node short of records and
  `__ensure_min_len_after_rebalance` (`t-tree.c:399`, `403`) takes some from a child, no
  subtree lies between those records and the node.  So the disagreement 1 below is the only
  way to lose the order: search, insertion, displacement, removal, stealing, merging, loading
  and the rotations themselves cannot.  In the run `ttree` TLC finds `StealsAtEnds` true in
  every state; in `ttree_order_lost` it fails before the order is lost.
- `CopiesExactWithoutRemoves`, `BalancedWithoutRemoves`, `SearchOrderWithoutRemoves`: trees
  that are only loaded, inserted into and read (`Removes = {}`: databases without DELETE)
  have exact heights, are balanced, and are in order, with no condition on the refills.

The order needs nodes of at most 255 records, as the code's `uint8_t` lengths do (it has
38): what `__ttree_node_removable_count` computes is a remainder modulo 256.

The invariant of the order is `OInv == SInv /\ Rises /\ Sorted`.  `Rises`: the IDs of each
node ascend.  `Sorted`: there is a division of the IDs, `span`, that gives each node a set
with its own IDs and the spans of its children in it, the left one below its IDs and the
right one above (`Spans`).  A global order by traversal is not a thing a local step can be
proved to keep; a division is, since it has to be changed only where the step writes:
a rotation (`SpansTurnRight`), a leaf hung (`SpansPlant`), a merge (`SpansMerge`), records
given to the parent (`SpansGiveRight`), the one stolen (`SpansTake`) each have a lemma.  In
the middle of a call `Sorted` says where the call stands (`Sought`, `Found`, `Placed`,
`Stolen`, `Attached`): the ID looked for is in the span of the node reached, the record
displaced fits where it is on its way to, and so on.  Last, that the traversal of a tree with
a division ascends (`SearchOrderHolds`) is shown by the ranks of its nodes.

The invariant of the heights is `BInv == SInv /\ Growing`.  Without removes every node is
level (`Level`: its height is exact and its subtrees differ by one at most) but for the
parent of the one that has just become higher, which is the next of the trace (`Lifted`):
one rotation there gives the subtree the height it had before, and the walk may stop.
`FInv` adds `FullParents`: a node with a child has at least `MinLen` records.  A rotation can
leave only one node short, the leaf that comes to the top of a double one, and then its
children are leaves, so that what it takes from them stands next to it; that is how
`StealsAtEnds` follows.

Assumptions of both: those named in `TTree` (IDs are numbers, NIL is not an address, "no entry" is
not an entry, a node has room for two, callers pass IDs, entries and sequences of entries).

`AtomicFileProofs` proves, for every number of files and lines, every size of the
buffer and any faults but, for the first and the third item, a failing write in `fclose`
(`"flush" \notin Faults`; without it they are false, see `save_truncates`):

- `FilesAlwaysWhole` and `SavedAlwaysMeansSaved`.  The inductive invariant adds
  `Progress`: at each point of a save, the lines in the temporary file and those in
  the buffer make up what has been printed, so that the file is whole when it is
  renamed.
- `TempsAlwaysRemoved`, with no condition on `fclose`: what no save will remove any
  more (`Left`: the temporary files, without that of the save in progress) grows
  only when the program dies, killed or aborted by the second `fclose` behind a `rename`
  that failed.  Every way out that returns to the prompt, that one included, has passed
  the `unlink` or the `rename`.
- `SaveIsAtomic`: `AtomicFile` implements `AtomicSave`.  `StepMaps` maps `Edit`,
  `Save`, `Rename`, `Saved`, `Failed`, `Kill` and `Restart` to steps of the
  promise, and shows that the other steps touch the temporary file only.

`SessionProofs` proves, for every set of IDs, contents, files and addresses:

- `CountAlwaysExact`: the steps that change `records` change `record_count` with it;
  DELETE's answer needs `Asking`, that the record asked about is still there.
- `NameAlwaysRight`: `FilenameKept`, which is `DefaultFilename /\ OneFilename`.  That
  `last_filename` is the only string is what makes the copy after a `free` possible
  wherever the allocator puts it.
- `LinesAlwaysWhole`, for lines without NUL characters and buffers of any size.

`QueriesProofs` first proves of `SortSpec`, the sort by itself, for arrays of every length
over any set of items and any comparator that returns integers:

- `BoundsCorrect` (`InBounds`) and `DepthCorrect` (`DepthBelowLength`).  The inductive
  invariant `Shape` says that the parts of nested calls are nested intervals, each
  inside the side of its caller's pivot that it sorts and shorter by one at least,
  and that the cursors of a partition stay in front of the pivot.
- `QuicksortCorrect` (`Sorts`): that nothing is lost (`PermutationCorrect`) holds for any
  comparator; that the array is in order in the end (`SortCorrect`) if it is a
  total preorder on the items.  The argument: `Cut`, what is left of `head` is
  below the pivot and what is right of `tail` is not; `Splits`, around the pivot of
  every open call the two sides stay on their sides whatever happens inside them;
  `Finished`, the part that was sorted last and the left sides of the calls that
  have gone on to their right sides are in order.

In `Queries` these are the steps of `Sorting`, with `CmpRecord` as the comparator.

It then proves of the commands that print, for tables of any size and content,
any set of records that match, and any order (SORT BY):

- `SortsWell`: the three properties of the sort hold in the composition.  `SortInv`, the
  invariant of the sort by itself, is kept by the steps of `Sorting` and by the call, and no
  other step touches the sort's variables.
- `OwnIDPrinted` (`PrintsOwnID`), `ListsExactly` (`ListingExact`), `NoArrayLeft`
  (`ArraysFreed`), `NaNFirstAborts` (`AbortsOnNaNOnly`) and `SummaryCorrect`
  (`SummaryRight`).

The inductive invariant is `QInv == SortInv /\ Told`.  `Told` says where the walk stands:
what the iterator has still to return is behind all that it has returned (`Walk`), the
records returned have their own ID in `temp_id` (`OwnIDs`), those that match are in the
list in the order of their IDs (`Collected`), or the summary is that of the records seen so
far (`Reporting`: count, sum, and for each end of the marks `Leads`, the list of those that
have it).  `RecordsHaveOrder` shows that `cmp_record` is a total preorder of records unless
one has NaN in the column, which is what `Sorts` asks of a comparator; `SortReturns` turns
"sorted" into the order the listing promises.  `SumOver` is a fold, and that it does not
depend on the order in which it takes its members (`SumRemoves`) is shown by looking at a
smallest set for which it would.

Assumptions, besides those of `Quicksort`: IDs are a finite set of numbers and garbage in
`temp_id` is none of them, names, programmes and marks are compared as numbers but for NaN,
and the sort's items and comparator are the records and `cmp_record`.

`ChunkedAllocatorProofs` proves, for any finite number of chunks, any size of a chunk and of
an item that fits, and any sequence of calls, whatever owners write to the items they hold:

- `TypeCorrect` (`TypeOK`), `ListsStaySound` (`AllListsSound`), `NothingIsKept`
  (`NothingKept`), and `AllocatorIsAPool`: `Spec => ImplementsPool`, where every `Create`,
  `Alloc`, `Free` and `Destroy` is a step of `Pool` or one it does not see.

The inductive invariant is `TypeOK /\ AllListsSound /\ HeldIsMapped /\ NoneUnused /\
NothingYet`: a held item is of a mapped chunk, and a mapped chunk has an item in use.  That
an item handed out is held by nobody follows from where it comes from: the free list of a
chunk on the free list visits items that nobody holds.  The proof describes a list by a row
of its members (`InARow`, `IsList`), shows what `ListPrepend` and `ListRemove` make of the row
when the chunk is at its head, in the middle or at its end, and the same for the list of
indices inside a chunk, which shares its memory with what owners write.

`ParserProofs` proves, for lines of any length and nesting and whatever `malloc` refuses:

- `ConditionsStayOwned` (`ConditionsOwned`) and `AstrayOnlyInGroups` (`WildOnlyInGroups`),
  which is about steps: the step that follows the pointer of an uninitialised expression is
  one of a call that waits for what a bracket encloses, when that has failed to parse, or
  for the condition of a NOT.

The inductive invariant `PInv` says which token the parser stands at (`TokensOK`), that an
expression is uninitialised only in a call that waits for its first operand or for what
follows `(` or NOT (`CallsOK`), and that the trees of the open calls, of the expression just
returned and of the command are apart and made in order (`CondsOK`).  A condition is made
after its operands, so that what is below it (`Below`, a recursive function) is determined
by the conditions made before; this is shown by looking at the first condition for which it
would fail, and so are the facts that making one changes nothing below the others
(`BelowStays`) and that a new one joins the trees of its operands.

`DbFileProofs` proves, for any lines of any length, any records, anything the line buffer
may hold behind the end of a line (`Stale`), and wherever reading a line or `malloc` for a
header fails:

- `StringsStayOwned` (`StringsOwned`), `LinesAreCut` (`OnlyShortLinesRunOver`) and
  `SavedOpensAgain` (`SavedIsOpened`).

The inductive invariant is `DInv == TypeOK /\ LoadOK /\ StringsOwned /\ LinesCounted /\
ReadBack`.  `LoadOK` says how much of the database being read there is at each step: the
four columns are different, those of the record that are taken are the first of them in the
order of the file, and its ID is above all that were read.  `LinesCounted`: each column that
is taken takes a comma with it, unless the line ran out, so that a line that runs out
early has fewer than three; so has a line of columns in which one is looked for behind
the end (`LackingIsShort`).  `ReadBack` says where the reading of a saved file stands: the
lines read are the first lines that `DB_to_file` made of `kept` and the unread ones are the
rest; what is loaded is its headers so far, its table, and its first records in the order
of their IDs; what is taken of a record is its first columns, and the cursor stands behind
them.  What `DB_to_file` writes is in the order of the tree, `InOrder`, which is a CHOOSE:
that there is such an order of every finite set of IDs (`CanBeOrdered`) is shown by looking
at a smallest set that has none, taking its least number away.

Assumptions, those named in `DbFile`: different IDs are different numbers, a comma is no
field, what the buffer held before is a line, and NULL and the place behind a line are no
text.  `TakesDatabases`, which files OPEN takes, is checked and not proved: it is about all
files, and says what a database is by cutting its lines with operators that TLC evaluates
and the provers have no facts about (`SetToSortSeq`, `Min`).

Only model-checked: the order, the balance and the exact heights of a tree that records are
removed from (none of which holds of all trees, see above), that the tree's asserts hold and
that it refines the map, which lines are commands and what they mean, the tokenizer, which
files are databases, reading to a delimiter and quoting (`StringsRight`), and every liveness
property.  Out of reach of the prover: liveness under
fairness, ENABLED, and the library's theorems of induction, which take an operator as a
parameter.  Where a proof needs induction (over the size of a set, the number of a
condition, or the rank of a node) it looks at a least counterexample instead, by `WFMin`; what `Meaning`, `Command`
and `ReadUntil` compute, which are RECURSIVE operators or folds over characters, stays with
TLC.

## What is not modelled and why

- `error.c`, `panic.c`, `unreachable.c` and `fmemopen.c`: numbers and macros that end
  the program, and a wrapper for the tests.
- Running out of memory while a tree grows ends the program (`PANIC`); in `TTree`
  such a call simply does not go on.  `strdup` and `realloc` are taken to succeed,
  but for the headers of a file.
- The digits of numbers: which value `strtoll` and `strtof` read, a `+` in front, the
  words `nan` and `infinity` and hexadecimal digits.  `Tokenizer` keeps what ends a
  number and whether it fits.
- Layout: columns of a listing, the help text, the startup message, the wording of
  errors and where in the line they point.
- A crash of the operating system: nothing in the code calls `fsync`, and what a
  file system keeps over a power failure is not described by this code.
- Read errors on stdin: `main` loops on `feof` only, and spins.
- Insertion into and removal from the middle of a list (`list.c`), which the program
  does not call.
- The branches for Windows and macOS.
