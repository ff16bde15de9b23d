------------------------------ MODULE MCReadPlan ------------------------------
(***************************************************************************)
(* Requests and geometries for the runs of ReadPlan.                       *)
(***************************************************************************)
EXTENDS ReadPlan

CONSTANTS
    MaxRow,     \* ids are 0..MaxRow
    MaxDistinct \* distinct ids of a request

Ascending(ids) == Sorted(ids, <)
IdSets == {ids \in SUBSET (0..MaxRow) : Cardinality(ids) \in 1..MaxDistinct}

\* In order; and backwards with the first row asked for again at the end.
SomeRequests ==
    {Ascending(ids) : ids \in IdSets}
        \cup {Append(Reverse(Ascending(ids)), Last(Ascending(ids))) : ids \in IdSets}

\* Requests that are not all inside the artifact.
StrayRequests == {<<RowCount>>, <<0, -1>>, <<1, RowCount, 2>>}

AllRequests == SomeRequests \cup StrayRequests
=============================================================================
