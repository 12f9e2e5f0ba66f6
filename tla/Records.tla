------------------------------- MODULE Records --------------------------------
(***************************************************************************)
(* Records, their columns and how they are compared: the parts of           *)
(* src/src/record.c and src/src/quicksort.c that read one record or two.    *)
(* Strings are numbers, in the order of strcmp.  Marks are integers or NaN, *)
(* which no comparison of C is true of.                                     *)
(***************************************************************************)
EXTENDS Integers

CONSTANT NaN

Column == {"ID", "Name", "Programme", "Mark"}

Column_type == [ID |-> "int", Mark |-> "float", Name |-> "string", Programme |-> "string"]

\* Record_get_int, Record_get_float and Record_get_string.  temp_id is the ID, once it is set.
Get(record, column) ==
    [ID |-> record.temp_id, Name |-> record.name,
     Programme |-> record.programme, Mark |-> record.mark][column]

FloatLess(l, r) == l # NaN /\ r # NaN /\ l < r

FloatAtMost(l, r) == l # NaN /\ r # NaN /\ l <= r

FloatSum(l, r) == IF NaN \in {l, r} THEN NaN ELSE l + r

Bit(b) == IF b THEN 1 ELSE 0

CmpFloat(l, r, asc) ==
    LET cmp == Bit(FloatLess(r, l)) - Bit(FloatLess(l, r))
    IN  IF asc THEN cmp ELSE -cmp

CmpOrdered(l, r, asc) == \* __cmp_int and __cmp_str
    LET cmp == Bit(l > r) - Bit(l < r)
    IN  IF asc THEN cmp ELSE -cmp

CmpRecord(l, r, sort_by) ==
    LET column == sort_by.column IN
    IF Column_type[column] = "float"
    THEN CmpFloat(Get(l, column), Get(r, column), sort_by.ascending)
    ELSE CmpOrdered(Get(l, column), Get(r, column), sort_by.ascending)
=============================================================================
