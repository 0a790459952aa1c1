----------------------------- MODULE Semaphore -----------------------------
(* The counting semaphore of kern/thread/synch.c, with the wait channel of *)
(* kern/thread/thread.c it sleeps on.                                      *)
(*                                                                         *)
(* sem_lock protects both the count and the wait channel.  A thread that   *)
(* finds the count at zero is put on the channel and gives up the lock in  *)
(* one go (thread_switch enqueues it and then releases the lock it is      *)
(* passed); when it is woken it has to compete for the lock again, so a    *)
(* newcomer may take the count first.  An interrupt handler that calls V   *)
(* is one more member of Threads: it never calls P.                        *)
EXTENDS Integers, Sequences, FiniteSets

CONSTANTS
  Threads,        \* the threads and interrupt handlers that use the semaphore
  NoThread,       \* splk_holder of a free spinlock
  initial_count,  \* the argument of sem_create
  MaxCount        \* bound: V is not called when the count has this value

ASSUME SemaphoreAssumption ==
  /\ NoThread \notin Threads
  /\ IsFiniteSet(Threads)
  /\ initial_count \in Nat
  /\ MaxCount \in Nat \ {0}

VARIABLES
  sem_count,   \* sem->sem_count
  sem_lock,    \* the holder of sem->sem_lock
  sem_wchan,   \* sem->sem_wchan->wc_threads, head first
  pc           \* where each thread is: outside, or at a step of P or V

semvars == <<sem_count, sem_lock, sem_wchan, pc>>

(* Outside; P before spinlock_acquire and inside; on the channel; V before *)
(* spinlock_acquire, inside, and before spinlock_release.                  *)
SemLabels == {"out", "P", "Pheld", "asleep", "V", "Vheld", "Vdone"}

sem_create ==
  /\ sem_count = initial_count
  /\ sem_lock = NoThread
  /\ sem_wchan = << >>
  /\ pc = [t \in Threads |-> "out"]

Move(t, from, to) ==
  /\ pc[t] = from
  /\ pc' = [pc EXCEPT ![t] = to]

TakeSemLock(t) ==
  /\ sem_lock = NoThread
  /\ sem_lock' = t

----------------------------------------------------------------------------
P(t) ==
  /\ Move(t, "out", "P")
  /\ UNCHANGED <<sem_count, sem_lock, sem_wchan>>

AcquireP(t) ==
  /\ Move(t, "P", "Pheld")
  /\ TakeSemLock(t)
  /\ UNCHANGED <<sem_count, sem_wchan>>

PassP(t) ==
  /\ Move(t, "Pheld", "out")
  /\ sem_count > 0
  /\ sem_count' = sem_count - 1
  /\ sem_lock' = NoThread
  /\ UNCHANGED sem_wchan

(* The count is zero: sleep, and release the lock.                         *)
wchan_sleep(t) ==
  /\ Move(t, "Pheld", "asleep")
  /\ sem_count = 0
  /\ sem_wchan' = Append(sem_wchan, t)
  /\ sem_lock' = NoThread
  /\ UNCHANGED sem_count

V(t) ==
  /\ sem_count < MaxCount
  /\ Move(t, "out", "V")
  /\ UNCHANGED <<sem_count, sem_lock, sem_wchan>>

AcquireV(t) ==
  /\ Move(t, "V", "Vheld")
  /\ TakeSemLock(t)
  /\ UNCHANGED <<sem_count, sem_wchan>>

(* Mutant: a V that wakes somebody only when the count leaves zero.        *)
wchan_wakeone_FromZero(t) ==
  /\ pc[t] = "Vheld"
  /\ IF sem_wchan = << >> \/ sem_count > 0
     THEN /\ pc' = [pc EXCEPT ![t] = "Vdone"]
          /\ UNCHANGED sem_wchan
     ELSE /\ pc' = [pc EXCEPT ![t] = "Vdone", ![Head(sem_wchan)] = "P"]
          /\ sem_wchan' = Tail(sem_wchan)

(* The thread at the head of the channel is made runnable.                 *)
wchan_wakeone(t) ==
  /\ pc[t] = "Vheld"
  /\ IF sem_wchan = << >>
     THEN /\ pc' = [pc EXCEPT ![t] = "Vdone"]
          /\ UNCHANGED sem_wchan
     ELSE /\ pc' = [pc EXCEPT ![t] = "Vdone", ![Head(sem_wchan)] = "P"]
          /\ sem_wchan' = Tail(sem_wchan)

RaiseV(t) ==
  /\ wchan_wakeone(t)
  /\ sem_count' = sem_count + 1
  /\ UNCHANGED sem_lock

ReleaseV(t) ==
  /\ Move(t, "Vdone", "out")
  /\ sem_lock' = NoThread
  /\ UNCHANGED <<sem_count, sem_wchan>>

(* The steps a thread inside P or V takes by itself.                       *)
SemStep(t) ==
  \/ AcquireP(t) \/ PassP(t) \/ wchan_sleep(t)
  \/ AcquireV(t) \/ RaiseV(t) \/ ReleaseV(t)

SemNext == \E t \in Threads : P(t) \/ V(t) \/ SemStep(t)

SemSpec == sem_create /\ [][SemNext]_semvars

(* A runnable thread that can take a step eventually takes one, which the  *)
(* round-robin run queue and the timer interrupt provide.  A spinlock is   *)
(* not assumed to be fair.                                                 *)
FairSemSpec == SemSpec /\ \A t \in Threads : WF_semvars(SemStep(t))

----------------------------------------------------------------------------
Holding == {"Pheld", "Vheld", "Vdone"}

(* Every variable has its type, sem_lock is held by exactly the thread     *)
(* that is in a critical section, and the channel lists each sleeping      *)
(* thread once (the channel's threadlist is doubly linked through the      *)
(* thread, so a second entry would corrupt it).                            *)
SemTypeOK ==
  /\ sem_count \in Nat
  /\ sem_lock \in Threads \cup {NoThread}
  /\ sem_wchan \in Seq(Threads)
  /\ pc \in [Threads -> SemLabels]
  /\ \A t \in Threads : pc[t] \in Holding <=> sem_lock = t
  /\ \A t \in Threads :
       pc[t] = "asleep" <=> \E i \in 1 .. Len(sem_wchan) : sem_wchan[i] = t
  /\ \A i, j \in 1 .. Len(sem_wchan) : sem_wchan[i] = sem_wchan[j] => i = j

(* Threads that will still test the count before they sleep.               *)
EnRoute == {t \in Threads : pc[t] \in {"P", "Pheld"}}

(* No wakeup is lost: while a thread sleeps in P, every unit of the count  *)
(* has a thread on its way to test it.  In particular nobody sleeps on a   *)
(* positive count that no thread is about to take.                         *)
NoLostWakeup == sem_wchan # << >> => sem_count <= Cardinality(EnRoute)

(* A positive count does not stay unused while a thread sleeps on it: the  *)
(* thread V woke, or a newcomer, takes it.                                 *)
CountGetsUsed == []<>(sem_count = 0 \/ sem_wchan = << >>)
============================================================================
