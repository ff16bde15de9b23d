------------------------------- MODULE LeasePool -------------------------------
(***************************************************************************)
(* What the persistent reader promises its callers: a pool of slots, each  *)
(* lent to at most one client at a time, that closes only when nothing is  *)
(* lent and lends nothing afterwards.                                      *)
(***************************************************************************)
CONSTANTS Clients, Slots

VARIABLES
    held,  \* the pairs <<c, s>> such that client c holds slot s
    open   \* the pool has not been closed

Holds(c, s) == <<c, s>> \in held

Init == held = {} /\ open = TRUE

Acquire(c, s) ==
    /\ open
    /\ \A d \in Clients : ~Holds(d, s)
    /\ \A t \in Slots : ~Holds(c, t)
    /\ held' = held \cup {<<c, s>>}
    /\ UNCHANGED open

GiveBack(c, s) ==
    /\ Holds(c, s)
    /\ held' = held \ {<<c, s>>}
    /\ UNCHANGED open

Shut ==
    /\ open /\ held = {}
    /\ open' = FALSE
    /\ UNCHANGED held

Next ==
    \/ \E c \in Clients, s \in Slots : Acquire(c, s) \/ GiveBack(c, s)
    \/ Shut

Spec == Init /\ [][Next]_<<held, open>>
=============================================================================
