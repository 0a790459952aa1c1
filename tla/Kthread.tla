------------------------------ MODULE Kthread ------------------------------
(***************************************************************************)
(* What the device drivers use of the thread system: a program counter per *)
(* thread and the counting semaphores of kern/thread/synch.c.  P and V are *)
(* taken as atomic here; module Semaphore models their code and proves the *)
(* counts that justify this.  Interrupt handlers call V, never P.          *)
(***************************************************************************)
EXTENDS Integers

CONSTANT Threads

VARIABLES
  pc,     \* where each thread is; "idle" between calls
  sem     \* the semaphores the drivers create, by name

\* The thread goes on from one label to the next.
Step(t, from, to) ==
  /\ pc[t] = from
  /\ pc' = [pc EXCEPT ![t] = to]

\* P: wait for a positive count and take one.
P(t, s, from, to) ==
  /\ Step(t, from, to)
  /\ sem[s] > 0
  /\ sem' = [sem EXCEPT ![s] = @ - 1]

\* V: put one back.
V(s) ==
  sem' = [sem EXCEPT ![s] = @ + 1]
=============================================================================
