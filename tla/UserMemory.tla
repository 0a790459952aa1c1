----------------------------- MODULE UserMemory -----------------------------
(***************************************************************************)
(* What demand paging promises a program: a private memory whose pages     *)
(* start as the executable has them, change only by the program's own      *)
(* stores, and never change when they are text.  Faults, evictions, swap   *)
(* and context switches are invisible.                                     *)
(***************************************************************************)
CONSTANTS
  Pages,     \* the pages of the program
  Writable,  \* those it may store to
  Versions,  \* values a store can leave in a page
  Image(_)   \* the initial contents of a page

VARIABLES
  alive,   \* a program is running
  memory   \* its memory: page -> contents

vars == <<alive, memory>>

Fresh == [p \in Pages |-> Image(p)]

Init == alive = FALSE /\ memory = Fresh

Start == ~alive /\ alive' = TRUE /\ memory' = Fresh

Store(p, v) ==
  /\ alive
  /\ memory' = [memory EXCEPT ![p] = <<p, v>>]
  /\ UNCHANGED alive

\* The program exits or is killed, or the kernel panics.
Stop == alive /\ alive' = FALSE /\ memory' = Fresh

Next ==
  \/ Start
  \/ \E p \in Writable, v \in Versions : Store(p, v)
  \/ Stop

Spec == Init /\ [][Next]_vars
=============================================================================
