------------------------------ MODULE MCQueries -------------------------------
(***************************************************************************)
(* An instance of Queries for TLC.                                          *)
(***************************************************************************)
EXTENDS Queries

CONSTANTS MaxID

MCIDs == 1 .. MaxID

MCUnset == 0

Entry(name, mark) == [name |-> name, programme |-> 0, mark |-> mark]

MCContent == {Entry(1, 2), Entry(2, 1), Entry(1, NaN)}

MCOrder == [column : Column, ascending : BOOLEAN]

SortBy(column, ascending) == [column |-> column, ascending |-> ascending]

MCSortBys == {SortBy("ID", TRUE), SortBy("ID", FALSE), SortBy("Mark", TRUE), SortBy("Name", FALSE)}

\* The records of the instance, before and after their temp_id is set.
MCItem ==
    {[id |-> id, temp_id |-> t, name |-> c.name, programme |-> c.programme, mark |-> c.mark] :
        id \in MCIDs, t \in MCIDs \cup {MCUnset}, c \in MCContent}
=============================================================================
