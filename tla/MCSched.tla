------------------------------ MODULE MCSched ------------------------------
(* Instances of Sched for TLC.                                             *)
EXTENDS Sched, TLC

CONSTANTS b0, b1, t1, t2

TwoCpus == 0 :> b0 @@ 1 :> b1

\* The threads are interchangeable: only the initial state tells the boot threads
\* from the others, and no step and no invariant mentions them.
Symmetry == Permutations(Threads)
============================================================================
