----------------------------- MODULE MCCoremap -----------------------------
(* Instances of Coremap for TLC.                                           *)
EXTENDS Coremap, TLC

\* Kernel threads are interchangeable.
Symmetry == Permutations(Threads)
============================================================================
