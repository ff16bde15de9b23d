----------------------------- MODULE MCScheduler -----------------------------
(* Scheduler for TLC: the requests are interchangeable.                    *)
EXTENDS Scheduler, TLC

Symmetry == Permutations(Requests)
=============================================================================
