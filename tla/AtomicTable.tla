------------------------------ MODULE AtomicTable ------------------------------
(***************************************************************************)
(* What publishing a PLE artifact promises: CURRENT moves from one whole    *)
(* table to the next in one step, each table is a copy of one version of    *)
(* the source, and a crash takes back at most publications that were not    *)
(* yet safe.                                                                *)
(***************************************************************************)
EXTENDS Naturals, Sequences

CONSTANT Tables  \* the whole tables, one per version of the source

VARIABLES
    history,  \* the tables published, the last one is the one readers get
    safe      \* how many of them no crash takes back

Init == history = <<>> /\ safe = 0

Publish(t) == history' = Append(history, t) /\ UNCHANGED safe

Secure == safe' \in safe..Len(history) /\ UNCHANGED history

Crash == \E n \in safe..Len(history) :
    history' = SubSeq(history, 1, n) /\ safe' = n

Next == (\E t \in Tables : Publish(t)) \/ Secure \/ Crash

Spec == Init /\ [][Next]_<<history, safe>>
=============================================================================
