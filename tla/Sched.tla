------------------------------- MODULE Sched -------------------------------
(* The scheduler of kern/thread/thread.c: per-cpu run queues, the context  *)
(* switch with its idle loop, wakeups with IPIs, thread migration from the *)
(* timer interrupt, thread exit and the exorcism of zombies.               *)
(*                                                                         *)
(* The actors are cpus.  curthread[c] is also the thread on whose stack    *)
(* cpu c executes: an idle cpu stays on the stack of the thread that gave  *)
(* it up, even when that thread sleeps, is ready again, or is a zombie.    *)
(* Interrupts are off from the moment thread_switch or a handler starts    *)
(* until it ends, except while the cpu waits in cpu_idle.  One wait        *)
(* channel stands for all of them.                                         *)
EXTENDS Integers, Sequences

CONSTANTS
  ncpus,      \* cpuarray_num(&allcpus); the cpus are 0 .. ncpus - 1
  Threads,    \* thread structures
  boot,       \* boot[c]: the thread cpu_create made for cpu c
  None        \* holder of a free spinlock

Cpus == 0 .. ncpus - 1

ASSUME SchedAssumption ==
  /\ ncpus \in Nat \ {0}
  /\ boot \in [Cpus -> Threads]
  /\ \A c, d \in Cpus : boot[c] = boot[d] => c = d
  /\ None \notin Cpus

VARIABLES
  curthread, c_isidle, c_runqueue, c_zombies, c_runqueue_lock,
  ipi,        \* is the cpu's interprocessor interrupt line asserted?
  t_state, t_cpu,
  wchan,      \* threads asleep, head first
  wchan_lock, \* the spinlock that goes with it
  cpc,        \* where each cpu is
  migration   \* the locals of thread_consider_migration on each cpu

queues == <<c_runqueue, c_zombies, wchan>>
locks  == <<c_runqueue_lock, wchan_lock>>
thrd   == <<t_state, t_cpu>>
vars   == <<curthread, c_isidle, queues, locks, ipi, thrd, cpc, migration>>

CpuLabels == {"run", "sleep", "pick", "wait", "ipi", "relock", "tail", "wake",
              "count", "give", "giving", "yield"}

Idle == [ret |-> "run", i |-> 0, my |-> 0, total |-> 0, send |-> 0, victims |-> << >>]

\* thread_bootstrap and thread_start_cpus: every cpu runs its boot thread.
Init ==
  /\ curthread = boot
  /\ c_isidle = [c \in Cpus |-> FALSE]
  /\ c_runqueue = [c \in Cpus |-> << >>]
  /\ c_zombies = [c \in Cpus |-> {}]
  /\ c_runqueue_lock = [c \in Cpus |-> None]
  /\ ipi = [c \in Cpus |-> FALSE]
  /\ t_state = [t \in Threads |-> IF \E c \in Cpus : boot[c] = t THEN "RUN" ELSE "NONE"]
  /\ t_cpu = [t \in Threads |-> IF \E c \in Cpus : boot[c] = t
                                THEN CHOOSE c \in Cpus : boot[c] = t ELSE 0]
  /\ wchan = << >>
  /\ wchan_lock = None
  /\ cpc = [c \in Cpus |-> "run"]
  /\ migration = [c \in Cpus |-> Idle]

Goto(c, from, to) == cpc[c] \in from /\ cpc' = [cpc EXCEPT ![c] = to]

\* A critical section on the run queue of cpu d that is one step.
Free(d) == c_runqueue_lock[d] = None

Enqueue(d, t) == c_runqueue' = [c_runqueue EXCEPT ![d] = Append(@, t)]

\* Mutant: an idle cpu is not told.
Notify_Never(c, d) == UNCHANGED ipi

\* ipi_send(IPI_UNIDLE), when the target cpu is idle and is not this one.
Notify(c, d) == ipi' = [ipi EXCEPT ![d] = @ \/ (c_isidle[d] /\ d # c)]

----------------------------------------------------------------------------
(* thread_switch: the current thread is put where it belongs, with the run *)
(* queue locked.                                                           *)

Place(c, state) ==
  /\ Free(c)
  /\ c_runqueue_lock' = [c_runqueue_lock EXCEPT ![c] = c]
  /\ t_state' = [t_state EXCEPT ![curthread[c]] = state]
  /\ c_isidle' = [c_isidle EXCEPT ![c] = TRUE]
  /\ UNCHANGED <<curthread, ipi, t_cpu, migration>>

\* thread_yield, also at the end of hardclock; nothing to do if no other
\* thread is ready.
thread_yield(c) ==
  \/ /\ c_runqueue[c] # << >>
     /\ Goto(c, {"run", "yield"}, "pick")
     /\ Place(c, "READY")
     /\ Enqueue(c, curthread[c])
     /\ UNCHANGED <<c_zombies, wchan, wchan_lock>>
  \/ /\ Free(c) /\ c_runqueue[c] = << >>
     /\ Goto(c, {"yield"}, "run")
     /\ UNCHANGED <<curthread, c_isidle, queues, locks, ipi, thrd, migration>>

\* The caller of wchan_sleep has the channel's lock ...
StartSleep(c) ==
  /\ Goto(c, {"run"}, "sleep")
  /\ wchan_lock = None /\ wchan_lock' = c
  /\ UNCHANGED <<curthread, c_isidle, queues, c_runqueue_lock, ipi, thrd, migration>>

\* ... and keeps it until it is on the channel.
wchan_sleep(c) ==
  /\ Goto(c, {"sleep"}, "pick")
  /\ Place(c, "SLEEP")
  /\ wchan' = Append(wchan, curthread[c])
  /\ wchan_lock' = None
  /\ UNCHANGED <<c_runqueue, c_zombies>>

\* Mutant: all cpus share one zombie list.
thread_exit_SharedList(c) ==
  /\ Goto(c, {"run"}, "pick")
  /\ Place(c, "ZOMBIE")
  /\ c_zombies' = [c_zombies EXCEPT ![0] = @ \cup {curthread[c]}]
  /\ UNCHANGED <<c_runqueue, wchan, wchan_lock>>

\* Also the end of cpu_hatch.
thread_exit(c) ==
  /\ Goto(c, {"run"}, "pick")
  /\ Place(c, "ZOMBIE")
  /\ c_zombies' = [c_zombies EXCEPT ![c] = @ \cup {curthread[c]}]
  /\ UNCHANGED <<c_runqueue, wchan, wchan_lock>>

\* The head of the run queue is switched to; the lock stays held.
PickNext(c) ==
  /\ Goto(c, {"pick"}, "tail")
  /\ c_runqueue[c] # << >>
  /\ curthread' = [curthread EXCEPT ![c] = Head(c_runqueue[c])]
  /\ c_runqueue' = [c_runqueue EXCEPT ![c] = Tail(@)]
  /\ c_isidle' = [c_isidle EXCEPT ![c] = FALSE]
  /\ UNCHANGED <<c_zombies, wchan, locks, ipi, thrd, migration>>

\* No thread is ready: unlock and wait for an interrupt.
cpu_idle(c) ==
  /\ Goto(c, {"pick"}, "wait")
  /\ c_runqueue[c] = << >>
  /\ c_runqueue_lock' = [c_runqueue_lock EXCEPT ![c] = None]
  /\ UNCHANGED <<curthread, c_isidle, queues, wchan_lock, ipi, thrd, migration>>

\* mainbus_interrupt: interprocessor_interrupt takes what is pending, in a
\* running thread or in cpu_idle, where it ends the wait ...
interprocessor_interrupt(c) ==
  /\ ipi[c]
  /\ \/ cpc[c] = "run"  /\ migration' = [migration EXCEPT ![c].ret = "run"]
     \/ cpc[c] = "wait" /\ migration' = [migration EXCEPT ![c].ret = "relock"]
  /\ cpc' = [cpc EXCEPT ![c] = "ipi"]
  /\ UNCHANGED <<curthread, c_isidle, queues, locks, ipi, thrd>>

\* ... and only then is the line cleared: what was sent in between is lost.
lamebus_clear_ipi(c) ==
  /\ Goto(c, {"ipi"}, migration[c].ret)
  /\ ipi' = [ipi EXCEPT ![c] = FALSE]
  /\ migration' = [migration EXCEPT ![c].ret = "run"]
  /\ UNCHANGED <<curthread, c_isidle, queues, locks, thrd>>

\* Mutant: the run queue is searched again without its lock.
Relock_Unlocked(c) ==
  /\ Goto(c, {"relock"}, "pick")
  /\ UNCHANGED <<curthread, c_isidle, queues, locks, ipi, thrd, migration>>

Relock(c) ==
  /\ Free(c)
  /\ Goto(c, {"relock"}, "pick")
  /\ c_runqueue_lock' = [c_runqueue_lock EXCEPT ![c] = c]
  /\ UNCHANGED <<curthread, c_isidle, queues, wchan_lock, ipi, thrd, migration>>

\* The end of thread_switch, in the new thread, and the start of
\* thread_startup: unlock the run queue and exorcise the zombies.
ThreadStarts(c) ==
  /\ Goto(c, {"tail"}, "run")
  /\ c_runqueue_lock' = [c_runqueue_lock EXCEPT ![c] = None]
  /\ c_zombies' = [c_zombies EXCEPT ![c] = {}]
  /\ t_state' = [t \in Threads |-> IF t = curthread[c] THEN "RUN"
                                   ELSE IF t \in c_zombies[c] THEN "NONE"
                                   ELSE t_state[t]]
  /\ UNCHANGED <<curthread, c_isidle, c_runqueue, wchan, wchan_lock, ipi, t_cpu, migration>>

----------------------------------------------------------------------------
(* Making threads runnable.                                                *)

thread_fork(c, t) ==
  /\ Goto(c, {"run"}, "run")
  /\ t_state[t] = "NONE"
  /\ Free(c)
  /\ t_state' = [t_state EXCEPT ![t] = "READY"]
  /\ t_cpu' = [t_cpu EXCEPT ![t] = c]
  /\ Enqueue(c, t)
  /\ UNCHANGED <<curthread, c_isidle, c_zombies, wchan, locks, ipi, migration>>

\* wchan_wakeone by a thread, or by an interrupt handler that may have
\* interrupted an idle cpu: the channel is locked first.
StartWake(c) ==
  /\ \/ cpc[c] = "run"  /\ migration' = [migration EXCEPT ![c].ret = "run"]
     \/ cpc[c] = "wait" /\ migration' = [migration EXCEPT ![c].ret = "relock"]
  /\ cpc' = [cpc EXCEPT ![c] = "wake"]
  /\ wchan_lock = None /\ wchan_lock' = c
  /\ UNCHANGED <<curthread, c_isidle, queues, c_runqueue_lock, ipi, thrd>>

\* thread_make_runnable puts the thread on the run queue of its own cpu.
thread_make_runnable(c, t) ==
  /\ Free(t_cpu[t])
  /\ t_state' = [t_state EXCEPT ![t] = "READY"]
  /\ Enqueue(t_cpu[t], t)
  /\ Notify(c, t_cpu[t])

wchan_wakeone(c) ==
  /\ Goto(c, {"wake"}, migration[c].ret)
  /\ \/ /\ wchan = << >>
        /\ UNCHANGED <<c_runqueue, t_state, ipi, wchan>>
     \/ /\ wchan # << >>
        /\ thread_make_runnable(c, Head(wchan))
        /\ wchan' = Tail(wchan)
  /\ wchan_lock' = None
  /\ migration' = [migration EXCEPT ![c].ret = "run"]
  /\ UNCHANGED <<curthread, c_isidle, c_zombies, c_runqueue_lock, t_cpu>>

----------------------------------------------------------------------------
(* hardclock, with thread_consider_migration.  Between the critical        *)
(* sections on the run queues the other cpus go on.                        *)

\* The interrupt, in a thread or in cpu_idle.
hardclock(c) ==
  /\ \/ cpc[c] = "run"  /\ migration' = [migration EXCEPT ![c].ret = "yield"]
     \/ cpc[c] = "wait" /\ migration' = [migration EXCEPT ![c].ret = "relock"]
  /\ cpc' = [cpc EXCEPT ![c] = "count"]
  /\ UNCHANGED <<curthread, c_isidle, queues, locks, ipi, thrd>>

\* One iteration of the loop that counts the ready threads.
CountQueue(c) ==
  LET m == migration[c] IN
  /\ m.i < ncpus
  /\ Free(m.i)
  /\ Goto(c, {"count"}, "count")
  /\ migration' = [migration EXCEPT ![c].i = @ + 1,
                                    ![c].total = @ + Len(c_runqueue[m.i]),
                                    ![c].my = IF m.i = c THEN Len(c_runqueue[c]) ELSE @]
  /\ UNCHANGED <<curthread, c_isidle, queues, locks, ipi, thrd>>

OneShare(m) == (m.total + ncpus - 1) \div ncpus

\* This cpu has less than its share, and leaves it at that.
NothingToSend(c) ==
  LET m == migration[c] IN
  /\ m.i = ncpus
  /\ m.my < OneShare(m)
  /\ Goto(c, {"count"}, m.ret)
  /\ migration' = [migration EXCEPT ![c] = Idle]
  /\ UNCHANGED <<curthread, c_isidle, queues, locks, ipi, thrd>>

\* Or it takes what it has too much from the tail of its queue.
TakeVictims(c) ==
  LET m == migration[c]
      n == m.my - OneShare(m)
      q == c_runqueue[c]
  IN  /\ m.i = ncpus
      /\ m.my >= OneShare(m)
      /\ Free(c)
      /\ Goto(c, {"count"}, "give")
      /\ c_runqueue' = [c_runqueue EXCEPT ![c] = SubSeq(q, 1, Len(q) - n)]
      /\ migration' = [migration EXCEPT ![c].i = 0, ![c].send = n,
                         ![c].victims = SubSeq(q, Len(q) - n + 1, Len(q))]
      /\ UNCHANGED <<curthread, c_isidle, c_zombies, wchan, locks, ipi, thrd>>

\* Mutant: curthread is migrated like any other thread.
Movable_Any(c, t) == TRUE

\* curthread can be on its own cpu's run queue when the cpu is idle.
Movable(c, t) == t # curthread[c]

\* The loop over the other cpus: lock the next queue ...
LockTarget(c) ==
  LET m == migration[c] IN
  /\ m.i < ncpus /\ m.send > 0
  /\ \/ /\ m.i = c
        /\ Goto(c, {"give"}, "give")
        /\ migration' = [migration EXCEPT ![c].i = @ + 1]
        /\ UNCHANGED c_runqueue_lock
     \/ /\ m.i # c /\ Free(m.i)
        /\ Goto(c, {"give"}, "giving")
        /\ c_runqueue_lock' = [c_runqueue_lock EXCEPT ![m.i] = c]
        /\ UNCHANGED migration
  /\ UNCHANGED <<curthread, c_isidle, queues, wchan_lock, ipi, thrd>>

RoomAt(m) == Len(c_runqueue[m.i]) < OneShare(m) /\ m.send > 0

\* ... give it a victim, while it has room; curthread is passed over, which
\* uses up one of the victims ...
GiveVictim(c) ==
  LET m == migration[c]
      t == Head(m.victims)
  IN  /\ Goto(c, {"giving"}, "giving")
      /\ RoomAt(m)
      /\ \/ /\ Movable(c, t)
            /\ migration' = [migration EXCEPT ![c].victims = Tail(@), ![c].send = @ - 1]
            /\ t_cpu' = [t_cpu EXCEPT ![t] = m.i]
            /\ Enqueue(m.i, t)
            /\ Notify(c, m.i)
         \/ /\ ~Movable(c, t)
            /\ migration' = [migration EXCEPT ![c].victims = Append(Tail(@), t),
                                              ![c].send = @ - 1]
            /\ UNCHANGED <<t_cpu, c_runqueue, ipi>>
      /\ UNCHANGED <<curthread, c_isidle, c_zombies, wchan, locks, t_state>>

\* ... and unlock it.
UnlockTarget(c) ==
  LET m == migration[c] IN
  /\ Goto(c, {"giving"}, "give")
  /\ ~RoomAt(m)
  /\ c_runqueue_lock' = [c_runqueue_lock EXCEPT ![m.i] = None]
  /\ migration' = [migration EXCEPT ![c].i = @ + 1]
  /\ UNCHANGED <<curthread, c_isidle, queues, wchan_lock, ipi, thrd>>

\* Mutant: leftovers are forgotten.
PutBack_Drop(c) ==
  LET m == migration[c] IN
  /\ m.i = ncpus \/ m.send = 0
  /\ Goto(c, {"give"}, m.ret)
  /\ migration' = [migration EXCEPT ![c] = Idle]
  /\ UNCHANGED <<curthread, c_isidle, queues, locks, ipi, thrd>>

\* What is left goes back on the own queue.
PutBack(c) ==
  LET m == migration[c] IN
  /\ m.i = ncpus \/ m.send = 0
  /\ m.victims # << >> => Free(c)
  /\ Goto(c, {"give"}, m.ret)
  /\ c_runqueue' = [c_runqueue EXCEPT ![c] = @ \o m.victims]
  /\ migration' = [migration EXCEPT ![c] = Idle]
  /\ UNCHANGED <<curthread, c_isidle, c_zombies, wchan, locks, ipi, thrd>>

----------------------------------------------------------------------------
MigrationStep(c) ==
  \/ CountQueue(c) \/ NothingToSend(c) \/ TakeVictims(c)
  \/ LockTarget(c) \/ GiveVictim(c) \/ UnlockTarget(c) \/ PutBack(c)

SwitchStep(c) ==
  \/ thread_yield(c) \/ wchan_sleep(c)
  \/ PickNext(c) \/ cpu_idle(c) \/ interprocessor_interrupt(c) \/ lamebus_clear_ipi(c)
  \/ Relock(c)
  \/ ThreadStarts(c) \/ wchan_wakeone(c)

Next ==
  \E c \in Cpus :
    \/ SwitchStep(c) \/ MigrationStep(c)
    \/ StartSleep(c) \/ thread_exit(c) \/ StartWake(c) \/ hardclock(c)
    \/ \E t \in Threads : thread_fork(c, t)

Spec == Init /\ [][Next]_vars

----------------------------------------------------------------------------
States == {"NONE", "RUN", "READY", "SLEEP", "ZOMBIE"}

\* Every variable has its type; a cpu that is about to switch or to search its
\* run queue holds that queue's lock.
TypeOK ==
  /\ curthread \in [Cpus -> Threads]
  /\ c_isidle \in [Cpus -> BOOLEAN]
  /\ \A c \in Cpus : c_runqueue[c] \in Seq(Threads)
  /\ c_zombies \in [Cpus -> SUBSET Threads]
  /\ c_runqueue_lock \in [Cpus -> Cpus \cup {None}]
  /\ ipi \in [Cpus -> BOOLEAN]
  /\ t_state \in [Threads -> States]
  /\ t_cpu \in [Threads -> Cpus]
  /\ wchan \in Seq(Threads)
  /\ wchan_lock \in Cpus \cup {None}
  /\ cpc \in [Cpus -> CpuLabels]
  /\ \A c \in Cpus :
       /\ migration[c].victims \in Seq(Threads)
       /\ migration[c].send <= Len(migration[c].victims)
       /\ cpc[c] \in {"pick", "tail"} => c_runqueue_lock[c] = c

\* No two cpus execute on one stack: not when a thread that sleeps is woken
\* before its cpu has left it, not when it is migrated, not when it exits.
OneCpuPerThread == \A c, d \in Cpus : curthread[c] = curthread[d] => c = d

\* Where thread t is listed, and where its state allows it to be.
Places(t) ==
  LET ready(c)   == {<<c, "runqueue", i>> : i \in {j \in DOMAIN c_runqueue[c] : c_runqueue[c][j] = t}}
      moving(c)  == {<<c, "victims", i>> : i \in {j \in DOMAIN migration[c].victims :
                                                     migration[c].victims[j] = t}}
      zombie(c)  == IF t \in c_zombies[c] THEN {<<c, "zombies", 0>>} ELSE {}
      asleep     == {<<0, "wchan", i>> : i \in {j \in DOMAIN wchan : wchan[j] = t}}
      chosen(c)  == IF cpc[c] = "tail" /\ curthread[c] = t THEN {<<c, "chosen", 0>>} ELSE {}
  IN  asleep \cup UNION {ready(c) \cup moving(c) \cup zombie(c) \cup chosen(c) : c \in Cpus}

Allowed(t) ==
  CASE t_state[t] = "READY"  -> {<<c, l>> : c \in {t_cpu[t]}, l \in {"runqueue", "victims", "chosen"}}
    [] t_state[t] = "SLEEP"  -> {<<0, "wchan">>}
    [] t_state[t] = "ZOMBIE" -> {<<c, "zombies">> : c \in Cpus}
    [] OTHER -> {}

\* A thread that is not running is on exactly the list its state names, once:
\* a ready thread on the run queue of its own cpu or among the victims of a
\* migration, a sleeping one on the channel, a zombie on one zombie list; a
\* thread that runs, or is being switched to, is on none.  No thread is lost.
ThreadsAreListed ==
  \A t \in Threads :
    LET places == Places(t)
    IN  /\ \A x \in places : <<x[1], x[2]>> \in Allowed(t)
        /\ \A x, y \in places : x = y
        /\ t_state[t] \in {"READY", "SLEEP", "ZOMBIE"} => places # {}
        /\ t_state[t] = "RUN" => \E c \in Cpus : curthread[c] = t

\* exorcise frees only stacks that no cpu is on.
ExorcismIsSafe ==
  \A c \in Cpus : cpc[c] = "tail" =>
    \A z \in c_zombies[c] :
      t_state[z] = "ZOMBIE" /\ \A d \in Cpus : curthread[d] # z

\* A stack is executed by one cpu, and freed when none is on it, whatever
\* wakeups, migrations and exits come while a cpu idles on it.
StacksAreOwned == TypeOK /\ OneCpuPerThread /\ ExorcismIsSafe

\* A cpu does not wait in cpu_idle while a thread is ready on its run queue,
\* unless the interrupt that ends the wait is pending.
NoMissedUnidle ==
  \A c \in Cpus : cpc[c] = "wait" /\ c_runqueue[c] # << >> => ipi[c]
============================================================================
