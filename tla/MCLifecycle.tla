---------------------------- MODULE MCLifecycle ----------------------------
(***************************************************************************)
(* Instances of Lifecycle small enough for TLC.                            *)
(***************************************************************************)
EXTENDS Lifecycle, TLC

Symmetry == Permutations(Requests) \cup Permutations(Slots)

\* The usual setup: server and worker in one process, with a database.
UsualSpec == Init /\ cfg = [server |-> TRUE, worker |-> TRUE, testing |-> FALSE,
                            database |-> TRUE] /\ [][Next]_vars

UsualFairSpec == UsualSpec /\ Fairness

=============================================================================
