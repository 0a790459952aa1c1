---------------------------- MODULE SchedProofs ----------------------------
(***************************************************************************)
(* Proofs about Sched, for any number of cpus and threads: every stack is  *)
(* executed by one cpu at most and freed when none is on it, no thread is  *)
(* lost or listed twice, and no idle cpu sleeps over a ready thread.       *)
(*                                                                         *)
(* None of the three is inductive.  The argument rests on t_cpu: the cpu   *)
(* whose stack a thread is, on whose run queue, migration or zombie list   *)
(* it is, is always the one t_cpu names, also while that cpu idles on the  *)
(* stack of a thread that others wake up.                                  *)
(***************************************************************************)
EXTENDS Sched, TLAPS

Elems(q) == {q[i] : i \in 1 .. Len(q)}
Once(q) == \A i, j \in 1 .. Len(q) : q[i] = q[j] => i = j

Locals ==
  [ret : {"run", "relock", "yield"}, i : Nat, my : Nat, total : Nat, send : Nat,
   victims : Seq(Threads)]

Types ==
  /\ curthread \in [Cpus -> Threads]
  /\ c_isidle \in [Cpus -> BOOLEAN]
  /\ c_runqueue \in [Cpus -> Seq(Threads)]
  /\ c_zombies \in [Cpus -> SUBSET Threads]
  /\ c_runqueue_lock \in [Cpus -> Cpus \cup {None}]
  /\ ipi \in [Cpus -> BOOLEAN]
  /\ t_state \in [Threads -> States]
  /\ t_cpu \in [Threads -> Cpus]
  /\ wchan \in Seq(Threads)
  /\ wchan_lock \in Cpus \cup {None}
  /\ cpc \in [Cpus -> CpuLabels]
  /\ migration \in [Cpus -> Locals]

(* A cpu that touches a run queue over several steps holds its lock.       *)
LockHeld(c) ==
  /\ cpc[c] \in {"pick", "tail"} => c_runqueue_lock[c] = c
  /\ cpc[c] = "giving" => /\ migration[c].i \in Cpus /\ migration[c].i # c
                          /\ c_runqueue_lock[migration[c].i] = c
QueuesLocked == \A c \in Cpus : LockHeld(c)

(* thread_consider_migration: what is left to send is still there, and the *)
(* own queue does not shrink between the count and the removal.            *)
Migrating == {"count", "give", "giving"}
Fits(c) ==
  LET m == migration[c] IN
  /\ m.send <= Len(m.victims)
  /\ cpc[c] \notin Migrating => m.my = 0
  /\ cpc[c] \notin {"give", "giving"} => m.victims = << >>
  /\ cpc[c] = "count" => m.my <= Len(c_runqueue[c])
  /\ cpc[c] \in {"ipi", "wake"} => m.ret \in {"run", "relock"}
  /\ cpc[c] \in Migrating => m.ret \in {"yield", "relock"}
MigrationFits == \A c \in Cpus : Fits(c)

(* The cpu is in the idle loop of thread_switch, or in an interrupt it     *)
(* took there.                                                             *)
Idling(c) ==
  \/ cpc[c] \in {"pick", "wait", "relock"}
  \/ cpc[c] \in {"ipi", "wake"} \cup Migrating /\ migration[c].ret = "relock"

IdleIsNoted == \A c \in Cpus : c_isidle[c] <=> Idling(c)

(* The lists, as sets.                                                     *)
Ready(c) == Elems(c_runqueue[c])
Moving(c) == Elems(migration[c].victims)
Asleep == Elems(wchan)

ListedOnce ==
  /\ \A c \in Cpus : Once(c_runqueue[c]) /\ Once(migration[c].victims)
  /\ Once(wchan)

(* What is on a list is what its state and t_cpu say.                      *)
ListsMatch ==
  /\ \A c \in Cpus : \A t \in Ready(c) \cup Moving(c) : t_state[t] = "READY" /\ t_cpu[t] = c
  /\ \A c \in Cpus : \A t \in Ready(c) : t \notin Moving(c)
  /\ \A t \in Asleep : t_state[t] = "SLEEP"
  /\ \A c \in Cpus : \A t \in c_zombies[c] : t_state[t] = "ZOMBIE" /\ t_cpu[t] = c

(* A cpu is on the stack of a thread of its own, which runs unless the cpu *)
(* idles or is switching to it.                                            *)
StacksMatch ==
  \A c \in Cpus :
    /\ t_cpu[curthread[c]] = c
    /\ Idling(c) => t_state[curthread[c]] \in {"READY", "SLEEP", "ZOMBIE"}
    /\ cpc[c] = "tail" => /\ t_state[curthread[c]] = "READY"
                          /\ curthread[c] \notin Ready(c) \cup Moving(c)
    /\ ~Idling(c) /\ cpc[c] # "tail" => t_state[curthread[c]] = "RUN"

(* And every thread that exists is where its state and t_cpu say.          *)
NoneLost ==
  \A t \in Threads :
    LET c == t_cpu[t] IN
    /\ t_state[t] = "READY" =>
         t \in Ready(c) \cup Moving(c) \/ (cpc[c] = "tail" /\ curthread[c] = t)
    /\ t_state[t] = "SLEEP" => t \in Asleep
    /\ t_state[t] = "ZOMBIE" => t \in c_zombies[c]
    /\ t_state[t] = "RUN" => curthread[c] = t

SchedInv ==
  /\ Types /\ QueuesLocked /\ MigrationFits /\ IdleIsNoted
  /\ ListedOnce /\ ListsMatch /\ StacksMatch /\ NoneLost
----------------------------------------------------------------------------
(* What the operations on a list do to its members.                        *)

(* threadlist_addtail.                                                     *)
LEMMA AppendElems ==
  ASSUME NEW q \in Seq(Threads), NEW t \in Threads
  PROVE  /\ Append(q, t) \in Seq(Threads)
         /\ Len(Append(q, t)) = Len(q) + 1
         /\ Elems(Append(q, t)) = Elems(q) \cup {t}
         /\ Once(q) /\ t \notin Elems(q) => Once(Append(q, t))
<1> DEFINE r == Append(q, t)
<1>1. /\ r \in Seq(Threads) /\ Len(q) \in Nat /\ Len(r) = Len(q) + 1
      /\ \A i \in 1 .. Len(q) : r[i] = q[i]
      /\ r[Len(q) + 1] = t
  OBVIOUS
<1> HIDE DEF r
<1>2. Elems(r) = Elems(q) \cup {t}
  <2>1. \A i \in 1 .. Len(r) : i \in 1 .. Len(q) \/ i = Len(q) + 1
    BY <1>1
  <2>2. \A i \in 1 .. Len(q) : i \in 1 .. Len(r)
    BY <1>1
  <2>3. Len(q) + 1 \in 1 .. Len(r)
    BY <1>1
  <2> QED
    BY <1>1, <2>1, <2>2, <2>3, Zenon DEF Elems
<1>3. Once(q) /\ t \notin Elems(q) => Once(r)
  BY <1>1 DEF Elems, Once
<1> QED
  BY <1>1, <1>2, <1>3, Zenon DEF r

(* threadlist_remhead.                                                     *)
LEMMA TailElems ==
  ASSUME NEW q \in Seq(Threads), q # << >>
  PROVE  /\ Head(q) \in Threads /\ Head(q) \in Elems(q)
         /\ Tail(q) \in Seq(Threads)
         /\ Len(q) \in Nat /\ Len(q) > 0 /\ Len(Tail(q)) = Len(q) - 1
         /\ Once(q) => Elems(Tail(q)) = Elems(q) \ {Head(q)} /\ Once(Tail(q))
<1> DEFINE r == Tail(q)
           h == Head(q)
<1>1. /\ r \in Seq(Threads) /\ Len(q) \in Nat /\ Len(q) > 0 /\ Len(r) = Len(q) - 1
      /\ \A i \in 1 .. Len(r) : r[i] = q[i + 1]
      /\ h = q[1] /\ h \in Threads
  OBVIOUS
<1> HIDE DEF r, h
<1>2. h \in Elems(q)
  BY <1>1 DEF Elems
<1>3. ASSUME Once(q) PROVE Elems(r) = Elems(q) \ {h} /\ Once(r)
  <2>1. \A i \in 1 .. Len(r) : i + 1 \in 1 .. Len(q) /\ i + 1 # 1
    BY <1>1
  <2>2. \A i \in 1 .. Len(q) : i # 1 => i - 1 \in 1 .. Len(r) /\ r[i - 1] = q[i]
    BY <1>1
  <2>3. Elems(r) \subseteq Elems(q) \ {h}
    BY <1>1, <1>3, <2>1 DEF Elems, Once
  <2>4. Elems(q) \ {h} \subseteq Elems(r)
    BY <1>1, <2>2 DEF Elems
  <2>5. Once(r)
    BY <1>1, <1>3, <2>1 DEF Once
  <2> QED
    BY <2>3, <2>4, <2>5, Zenon
<1> QED
  BY <1>1, <1>2, <1>3, Zenon DEF r, h

(* The victims of a migration, cut off the tail of a queue.                *)
LEMMA CutElems ==
  ASSUME NEW q \in Seq(Threads), NEW n \in 0 .. Len(q)
  PROVE  LET a == SubSeq(q, 1, Len(q) - n)
             b == SubSeq(q, Len(q) - n + 1, Len(q))
         IN  /\ a \in Seq(Threads) /\ b \in Seq(Threads)
             /\ Len(a) = Len(q) - n /\ Len(b) = n
             /\ Elems(a) \cup Elems(b) = Elems(q)
             /\ Once(q) => Once(a) /\ Once(b) /\ \A t \in Elems(a) : t \notin Elems(b)
<1> DEFINE k == Len(q) - n
           a == SubSeq(q, 1, k)
           b == SubSeq(q, k + 1, Len(q))
<1>0. Len(q) \in Nat /\ n \in Nat /\ k \in Nat /\ k <= Len(q) /\ n = Len(q) - k
  OBVIOUS
<1> HIDE DEF k
<1>1. /\ a \in Seq(Threads) /\ Len(a) = k
      /\ \A i \in 1 .. k : a[i] = q[i]
  BY <1>0
<1>2. /\ b \in Seq(Threads) /\ Len(b) = n
      /\ \A i \in 1 .. n : b[i] = q[k + i]
  BY <1>0
<1> HIDE DEF a, b
<1>3. /\ \A i \in 1 .. k : i \in 1 .. Len(q)
      /\ \A i \in 1 .. n : k + i \in 1 .. Len(q)
      /\ \A i \in 1 .. Len(q) : i \in 1 .. k \/ (i - k \in 1 .. n /\ k + (i - k) = i)
  BY <1>0
<1>4. Elems(a) \subseteq Elems(q) /\ Elems(b) \subseteq Elems(q)
  <2>1. \A i \in 1 .. k : a[i] \in Elems(q)
    BY <1>1, <1>3, Zenon DEF Elems
  <2>2. \A i \in 1 .. n : b[i] \in Elems(q)
    BY <1>2, <1>3, Zenon DEF Elems
  <2> QED
    BY <1>1, <1>2, <2>1, <2>2, Zenon DEF Elems
<1>5. Elems(q) \subseteq Elems(a) \cup Elems(b)
  BY <1>1, <1>2, <1>3 DEF Elems
<1>6. ASSUME Once(q) PROVE Once(a) /\ Once(b) /\ \A t \in Elems(a) : t \notin Elems(b)
  <2>1. Once(a)
    BY <1>1, <1>3, <1>6, Zenon DEF Once
  <2>2. Once(b)
    BY <1>0, <1>2, <1>3, <1>6 DEF Once
  <2>3. ASSUME NEW i \in 1 .. k, NEW j \in 1 .. n, a[i] = b[j] PROVE FALSE
    <3>1. i \in 1 .. Len(q) /\ k + j \in 1 .. Len(q) /\ i # k + j /\ q[i] = q[k + j]
      BY <1>0, <1>1, <1>2, <1>3, <2>3
    <3> QED
      BY <1>6, <3>1, Zenon DEF Once
  <2> QED
    BY <1>1, <1>2, <2>1, <2>2, <2>3 DEF Elems
<1> QED
  BY <1>0, <1>1, <1>2, <1>4, <1>5, <1>6, Zenon DEF a, b, k

(* What is left of them goes back.                                         *)
LEMMA ConcatElems ==
  ASSUME NEW q \in Seq(Threads), NEW r \in Seq(Threads)
  PROVE  /\ q \o r \in Seq(Threads)
         /\ Elems(q \o r) = Elems(q) \cup Elems(r)
         /\ Once(q) /\ Once(r) /\ (\A t \in Elems(q) : t \notin Elems(r)) => Once(q \o r)
<1> DEFINE s == q \o r
           k == Len(q)
           n == Len(r)
<1>1. /\ s \in Seq(Threads) /\ Len(s) = k + n /\ k \in Nat /\ n \in Nat
      /\ \A i \in 1 .. k : s[i] = q[i]
      /\ \A i \in 1 .. n : s[k + i] = r[i]
  OBVIOUS
<1> HIDE DEF s
<1>3. /\ \A i \in 1 .. k : i \in 1 .. Len(s)
      /\ \A i \in 1 .. n : k + i \in 1 .. Len(s)
      /\ \A i \in 1 .. Len(s) : i \in 1 .. k \/ (i - k \in 1 .. n /\ k + (i - k) = i)
  BY <1>1
<1>4. Elems(q) \subseteq Elems(s) /\ Elems(r) \subseteq Elems(s)
  BY <1>1, <1>3, SMTT(60) DEF Elems
<1>5. Elems(s) \subseteq Elems(q) \cup Elems(r)
  <2>1. ASSUME NEW i \in 1 .. Len(s) PROVE s[i] \in Elems(q) \cup Elems(r)
    <3>1. CASE i \in 1 .. k
      BY <1>1, <3>1, Zenon DEF Elems
    <3>2. CASE i - k \in 1 .. n /\ k + (i - k) = i
      BY <1>1, <3>2, Zenon DEF Elems
    <3> QED
      BY <1>3, <3>1, <3>2, Zenon
  <2> QED
    BY <2>1, Zenon DEF Elems
<1>6. ASSUME Once(q), Once(r), \A t \in Elems(q) : t \notin Elems(r) PROVE Once(s)
  <2> SUFFICES ASSUME NEW i \in 1 .. Len(s), NEW j \in 1 .. Len(s), s[i] = s[j], i < j
               PROVE  FALSE
    BY <1>1 DEF Once
  <2>1. CASE i \in 1 .. k /\ j \in 1 .. k
    BY <1>1, <1>6, <2>1 DEF Once
  <2>2. CASE i \in 1 .. k /\ j - k \in 1 .. n /\ k + (j - k) = j
    <3>1. s[i] \in Elems(q) /\ s[j] \in Elems(r)
      BY <1>1, <2>2, Zenon DEF Elems
    <3> QED
      BY <1>6, <3>1, Zenon
  <2>3. CASE i - k \in 1 .. n /\ j - k \in 1 .. n
    <3>1. i = k + (i - k) /\ j = k + (j - k) /\ i - k # j - k
      BY <1>1
    <3>2. s[k + (i - k)] = r[i - k] /\ s[k + (j - k)] = r[j - k]
      BY <1>1, <2>3, Zenon
    <3> QED
      BY <1>6, <2>3, <3>1, <3>2, Zenon DEF Once
  <2> QED
    BY <1>1, <1>3, <2>1, <2>2, <2>3
<1> QED
  BY <1>1, <1>4, <1>5, <1>6, Zenon DEF s

(* The length of a list.                                                   *)
LEMMA LenIsNat == \A q \in Seq(Threads) : Len(q) \in Nat /\ Len(q) <= Len(q)
  OBVIOUS

(* The empty list.                                                         *)
LEMMA NoElems == Elems(<< >>) = {} /\ Once(<< >>)
  BY DEF Elems, Once
----------------------------------------------------------------------------
(* Each lemma below takes one action, or several that are alike.           *)

(* A step of cpu c, which is at x with locals m after it.                  *)
StepTo(c, x, m) ==
  /\ cpc' = [cpc EXCEPT ![c] = x]
  /\ migration' = [migration EXCEPT ![c] = m]

(* The other cpus stay where they are.                                     *)
LEMMA OthersStay ==
  ASSUME Types, NEW c \in Cpus, NEW x \in CpuLabels, NEW m \in Locals, StepTo(c, x, m)
  PROVE  /\ cpc' \in [Cpus -> CpuLabels] /\ migration' \in [Cpus -> Locals]
         /\ cpc'[c] = x /\ migration'[c] = m
         /\ \A d \in Cpus : d # c =>
              /\ cpc'[d] = cpc[d] /\ migration'[d] = migration[d]
              /\ Idling(d)' = Idling(d) /\ Moving(d)' = Moving(d)
<1>1. /\ cpc' \in [Cpus -> CpuLabels] /\ migration' \in [Cpus -> Locals]
      /\ cpc'[c] = x /\ migration'[c] = m
      /\ \A d \in Cpus : d # c => cpc'[d] = cpc[d] /\ migration'[d] = migration[d]
  BY Zenon DEF Types, StepTo
<1> QED
  BY <1>1, Zenon DEF Idling, Moving

(* A step that does not touch the locals.                                  *)
LEMMA LocalsStay ==
  ASSUME Types, NEW c \in Cpus, NEW x, cpc' = [cpc EXCEPT ![c] = x], UNCHANGED migration
  PROVE  migration[c] \in Locals /\ StepTo(c, x, migration[c])
  BY Zenon DEF Types, StepTo

(* A cpu takes only free locks and gives up only its own, so that the      *)
(* others keep theirs.                                                     *)
LEMMA LocksKept ==
  ASSUME SchedInv, NEW c \in Cpus, NEW x \in CpuLabels, NEW m \in Locals, StepTo(c, x, m),
         \A k \in Cpus : c_runqueue_lock'[k] = c_runqueue_lock[k]
                           \/ c_runqueue_lock[k] \in {None, c},
         LockHeld(c)'
  PROVE  QueuesLocked'
<1> SUFFICES ASSUME NEW d \in Cpus, d # c PROVE LockHeld(d)'
  BY Zenon DEF QueuesLocked
<1>1. LockHeld(d) /\ cpc'[d] = cpc[d] /\ migration'[d] = migration[d] /\ d # None
  BY OthersStay, SchedAssumption DEF SchedInv, QueuesLocked
<1>2. \A k \in Cpus : c_runqueue_lock[k] = d => c_runqueue_lock'[k] = d
  BY <1>1, Zenon
<1> QED
  BY <1>1, <1>2, Zenon DEF LockHeld

(* What a step that leaves the threads and the lists where they are keeps. *)
LEMMA QuietStep ==
  ASSUME SchedInv, NEW c \in Cpus, NEW x \in CpuLabels, NEW m \in Locals, StepTo(c, x, m),
         UNCHANGED <<curthread, c_isidle, queues, thrd>>,
         c_runqueue_lock' \in [Cpus -> Cpus \cup {None}],
         wchan_lock' \in Cpus \cup {None}, ipi' \in [Cpus -> BOOLEAN],
         \A k \in Cpus : c_runqueue_lock'[k] = c_runqueue_lock[k]
                           \/ c_runqueue_lock[k] \in {None, c},
         LockHeld(c)', Fits(c)', m.victims = migration[c].victims,
         Idling(c)' = Idling(c), x # "tail", cpc[c] # "tail"
  PROVE  SchedInv'
<1>1. /\ \A d \in Cpus : Ready(d)' = Ready(d) /\ Moving(d)' = Moving(d)
      /\ \A d \in Cpus : Idling(d)' = Idling(d)
      /\ \A d \in Cpus : (cpc'[d] = "tail") = (cpc[d] = "tail")
      /\ \A d \in Cpus : migration'[d].victims = migration[d].victims
      /\ Asleep' = Asleep
  BY OthersStay DEF SchedInv, queues, Ready, Moving, Asleep
<1>2. Types'
  BY OthersStay, Zenon DEF SchedInv, Types, queues, thrd
<1>3. QueuesLocked'
  BY LocksKept, Zenon
<1>4. MigrationFits'
  <2>1. \A d \in Cpus : d # c => Fits(d)'
    BY OthersStay DEF SchedInv, MigrationFits, Fits, queues
  <2> QED
    BY <2>1, Zenon DEF MigrationFits
<1>5. IdleIsNoted'
  BY <1>1, Zenon DEF SchedInv, IdleIsNoted
<1>6. ListedOnce'
  BY <1>1, Zenon DEF SchedInv, ListedOnce, queues
<1>7. ListsMatch'
  BY <1>1 DEF SchedInv, ListsMatch, queues, thrd
<1>8. StacksMatch'
  BY <1>1, ZenonT(60) DEF SchedInv, StacksMatch, thrd
<1>9. NoneLost'
  BY <1>1, ZenonT(60) DEF SchedInv, NoneLost, Types, queues, thrd
<1> QED
  BY <1>2, <1>3, <1>4, <1>5, <1>6, <1>7, <1>8, <1>9, Zenon DEF SchedInv

(* The locals of a cpu: where an interrupt returns to.                     *)
LEMMA SetRet ==
  ASSUME NEW m \in Locals, NEW x \in {"run", "relock", "yield"}
  PROVE  LET r == [m EXCEPT !.ret = x]
         IN  /\ r \in Locals /\ r.ret = x
             /\ r.i = m.i /\ r.my = m.my /\ r.send = m.send /\ r.victims = m.victims
  BY Zenon DEF Locals

(* The next cpu of the loops of thread_consider_migration.                 *)
LEMMA SetIndex ==
  ASSUME NEW m \in Locals
  PROVE  LET r == [m EXCEPT !.i = @ + 1]
         IN  /\ r \in Locals /\ r.ret = m.ret /\ r.i = m.i + 1
             /\ r.my = m.my /\ r.send = m.send /\ r.victims = m.victims
  BY DEF Locals

(* No migration is under way.                                              *)
LEMMA IdleLocals ==
  Idle \in Locals /\ Idle.ret = "run" /\ Idle.my = 0 /\ Idle.send = 0 /\ Idle.victims = << >>
  BY DEF Idle, Locals

(* one_share.                                                              *)
LEMMA ShareIsNat ==
  ASSUME NEW m \in Locals PROVE OneShare(m) \in Nat
  BY SchedAssumption, SMTT(60) DEF OneShare, Locals

(* A cpu that has no other thread to run goes on.                          *)
LEMMA YieldNothing ==
  ASSUME SchedInv, NEW c \in Cpus, thread_yield(c), c_runqueue[c] = << >>
  PROVE  SchedInv'
<1>1. /\ Goto(c, {"yield"}, "run")
      /\ UNCHANGED <<curthread, c_isidle, queues, locks, ipi, thrd, migration>>
  BY Zenon DEF thread_yield
<1>2. migration[c] \in Locals /\ StepTo(c, "run", migration[c])
  BY <1>1, LocalsStay, Zenon DEF SchedInv, Goto
<1>3. cpc'[c] = "run" /\ migration'[c] = migration[c]
  BY <1>2, OthersStay DEF SchedInv, CpuLabels
<1>4. LockHeld(c)' /\ Fits(c)' /\ Idling(c)' = Idling(c)
  BY <1>1, <1>3, Zenon
     DEF SchedInv, Goto, LockHeld, MigrationFits, Fits, Idling, Migrating, queues
<1> QED
  BY <1>1, <1>2, <1>4, QuietStep, Zenon DEF SchedInv, Types, Goto, CpuLabels, locks

(* Taking the lock of the channel.                                         *)
LEMMA StartSleepStep ==
  ASSUME SchedInv, NEW c \in Cpus, StartSleep(c)
  PROVE  SchedInv'
<1>1. migration[c] \in Locals /\ StepTo(c, "sleep", migration[c])
  BY LocalsStay, Zenon DEF SchedInv, StartSleep, Goto
<1>2. cpc'[c] = "sleep" /\ migration'[c] = migration[c]
  BY <1>1, OthersStay, ZenonT(60) DEF SchedInv, CpuLabels
<1>3. LockHeld(c)' /\ Fits(c)' /\ Idling(c)' = Idling(c)
  BY <1>2, Zenon DEF SchedInv, StartSleep, Goto, LockHeld, MigrationFits, Fits, Idling, Migrating, queues
<1> QED
  BY <1>1, <1>3, QuietStep, Zenon DEF SchedInv, Types, StartSleep, Goto, CpuLabels

(* The run queue is unlocked and the cpu waits.                            *)
LEMMA IdleStep ==
  ASSUME SchedInv, NEW c \in Cpus, cpu_idle(c)
  PROVE  SchedInv'
<1>1. migration[c] \in Locals /\ StepTo(c, "wait", migration[c])
  BY LocalsStay, Zenon DEF SchedInv, cpu_idle, Goto
<1>2. cpc'[c] = "wait" /\ migration'[c] = migration[c]
  BY <1>1, OthersStay, Zenon DEF SchedInv, CpuLabels
<1>3. LockHeld(c)' /\ Fits(c)' /\ Idling(c)' = Idling(c)
  BY <1>2, Zenon DEF SchedInv, cpu_idle, Goto, LockHeld, MigrationFits, Fits, Idling, Migrating, queues
<1>4. c_runqueue_lock[c] = c
  BY Zenon DEF SchedInv, QueuesLocked, LockHeld, cpu_idle, Goto
<1>5. /\ c_runqueue_lock' \in [Cpus -> Cpus \cup {None}]
      /\ \A k \in Cpus : c_runqueue_lock'[k] = c_runqueue_lock[k]
                           \/ c_runqueue_lock[k] \in {None, c}
  BY <1>4, Zenon DEF SchedInv, Types, cpu_idle
<1> QED
  BY <1>1, <1>3, <1>5, QuietStep, Zenon DEF SchedInv, Types, cpu_idle, Goto, CpuLabels

(* The run queue is locked again.                                          *)
LEMMA RelockStep ==
  ASSUME SchedInv, NEW c \in Cpus, Relock(c)
  PROVE  SchedInv'
<1>1. migration[c] \in Locals /\ StepTo(c, "pick", migration[c])
  BY LocalsStay, Zenon DEF SchedInv, Relock, Goto
<1>2. cpc'[c] = "pick" /\ migration'[c] = migration[c]
  BY <1>1, OthersStay, Zenon DEF SchedInv, CpuLabels
<1>3. /\ c_runqueue_lock' \in [Cpus -> Cpus \cup {None}]
      /\ c_runqueue_lock'[c] = c
      /\ \A k \in Cpus : c_runqueue_lock'[k] = c_runqueue_lock[k]
                           \/ c_runqueue_lock[k] \in {None, c}
  BY Zenon DEF SchedInv, Types, Relock, Free
<1>4. LockHeld(c)' /\ Fits(c)' /\ Idling(c)' = Idling(c)
  BY <1>2, <1>3, Zenon DEF SchedInv, Relock, Goto, LockHeld, MigrationFits, Fits, Idling, Migrating, queues
<1> QED
  BY <1>1, <1>3, <1>4, QuietStep, Zenon DEF SchedInv, Types, Relock, Goto, CpuLabels

(* An interrupt, in a thread or in the idle loop.                          *)
LEMMA InterruptStep ==
  ASSUME SchedInv, NEW c \in Cpus, interprocessor_interrupt(c) \/ StartWake(c) \/ hardclock(c)
  PROVE  SchedInv'
<1> DEFINE x == cpc'[c]
           y == IF cpc[c] = "wait" THEN "relock" ELSE IF x = "count" THEN "yield" ELSE "run"
           m == [migration[c] EXCEPT !.ret = y]
<1>1. /\ cpc[c] \in {"run", "wait"} /\ x \in {"ipi", "wake", "count"}
      /\ cpc' = [cpc EXCEPT ![c] = x]
      /\ migration' = [migration EXCEPT ![c] = m]
      /\ UNCHANGED <<curthread, c_isidle, queues, c_runqueue_lock, ipi, thrd>>
      /\ wchan_lock' \in Cpus \cup {None}
  BY DEF SchedInv, Types, interprocessor_interrupt, StartWake, hardclock, locks
<1>2. y \in {"run", "relock", "yield"} /\ migration[c] \in Locals
  BY Zenon DEF SchedInv, Types
<1>3. /\ m \in Locals /\ m.ret = y /\ m.i = migration[c].i /\ m.my = migration[c].my
      /\ m.send = migration[c].send /\ m.victims = migration[c].victims
  BY <1>2, SetRet, ZenonT(60)
<1>4. StepTo(c, x, m) /\ x \in CpuLabels
  BY <1>1, Zenon DEF StepTo, CpuLabels
<1>9. /\ y = "relock" <=> cpc[c] = "wait"
      /\ x = "count" => y \in {"yield", "relock"}
      /\ x # "count" => y \in {"run", "relock"}
  BY <1>1, Zenon
<1> HIDE DEF m, y
<1>5. migration'[c] = m
  BY <1>3, <1>4, OthersStay, Zenon DEF SchedInv
<1>6. LockHeld(c)' /\ Fits(c)' /\ Idling(c)' = Idling(c)
  <2>1. LockHeld(c)'
    BY <1>1, Zenon DEF LockHeld
  <2>2. Idling(c)' = Idling(c)
    BY <1>1, <1>3, <1>5, <1>9, Zenon DEF Idling, Migrating
  <2>3. Fits(c) /\ Len(c_runqueue'[c]) \in Nat /\ c_runqueue' = c_runqueue
    BY <1>1 DEF SchedInv, Types, MigrationFits, queues
  <2>4. Fits(c)'
    BY <1>1, <1>3, <1>5, <1>9, <2>3 DEF Fits, Migrating
  <2> QED
    BY <2>1, <2>2, <2>4, Zenon
<1> QED
  BY <1>1, <1>3, <1>4, <1>6, QuietStep, Zenon DEF SchedInv, Types

(* The end of interprocessor_interrupt.                                    *)
LEMMA ClearIpiStep ==
  ASSUME SchedInv, NEW c \in Cpus, lamebus_clear_ipi(c)
  PROVE  SchedInv'
<1> DEFINE x == migration[c].ret
           m == [migration[c] EXCEPT !.ret = "run"]
<1>1. cpc[c] = "ipi" /\ x \in {"run", "relock"} /\ migration[c] \in Locals
  BY Zenon DEF SchedInv, Types, MigrationFits, Fits, lamebus_clear_ipi, Goto
<1>2. /\ m \in Locals /\ m.ret = "run" /\ m.i = migration[c].i /\ m.my = migration[c].my
      /\ m.send = migration[c].send /\ m.victims = migration[c].victims
  BY <1>1, SetRet, Zenon
<1>3. StepTo(c, x, m)
  BY Zenon DEF lamebus_clear_ipi, Goto, StepTo
<1> HIDE DEF m
<1>4. cpc'[c] = x /\ migration'[c] = m
  BY <1>1, <1>2, <1>3, OthersStay DEF SchedInv, CpuLabels
<1>5. LockHeld(c)' /\ Fits(c)' /\ Idling(c)' = Idling(c)
  BY <1>1, <1>2, <1>4, Zenon
     DEF SchedInv, Types, Locals, LockHeld, MigrationFits, Fits, Idling, Migrating, queues
<1>6. ipi' \in [Cpus -> BOOLEAN]
  BY Zenon DEF SchedInv, Types, lamebus_clear_ipi
<1>7. UNCHANGED <<curthread, c_isidle, queues, thrd, c_runqueue_lock, wchan_lock>>
  BY Zenon DEF lamebus_clear_ipi, locks
<1>8. x \in CpuLabels /\ x # "tail" /\ cpc[c] # "tail"
  BY <1>1, Zenon DEF CpuLabels
<1> HIDE DEF x
<1> QED
  BY <1>2, <1>3, <1>5, <1>6, <1>7, <1>8, QuietStep, Zenon DEF SchedInv, Types
(* Counting the ready threads of one more cpu.                             *)
LEMMA CountStep ==
  ASSUME SchedInv, NEW c \in Cpus, CountQueue(c)
  PROVE  SchedInv'
<1> DEFINE o == migration[c]
           i == o.i + 1
           total == o.total + Len(c_runqueue[o.i])
           my == IF o.i = c THEN Len(c_runqueue[c]) ELSE o.my
           m == [o EXCEPT !.i = i, !.total = total, !.my = my]
<1>1. /\ cpc[c] = "count" /\ StepTo(c, "count", m)
      /\ UNCHANGED <<curthread, c_isidle, queues, locks, ipi, thrd>>
  BY Zenon DEF CountQueue, Goto, StepTo
<1>2. o \in Locals /\ o.i \in Cpus /\ Fits(c)
  <2>1. o \in Locals /\ Fits(c)
    BY Zenon DEF SchedInv, Types, MigrationFits
  <2> QED
    BY <2>1, SchedAssumption DEF CountQueue, Locals, Cpus
<1>3. /\ i \in Nat /\ total \in Nat /\ my \in Nat
      /\ my <= Len(c_runqueue[c])
  <2>1. \A d \in Cpus : Len(c_runqueue[d]) \in Nat
    BY DEF SchedInv, Types
  <2>2. o.i \in Nat /\ o.total \in Nat /\ o.my \in Nat /\ o.my <= Len(c_runqueue[c])
    BY <1>1, <1>2, Zenon DEF Locals, Fits
  <2> QED
    BY <1>2, <2>1, <2>2
<1> HIDE DEF i, total, my
<1>4. /\ m \in Locals /\ m.ret = o.ret /\ m.my = my
      /\ m.send = o.send /\ m.victims = o.victims
  <2> HIDE DEF o
  <2> QED
    BY <1>2, <1>3, Zenon DEF Locals
<1> HIDE DEF m
<1>5. cpc'[c] = "count" /\ migration'[c] = m
  BY <1>1, <1>4, OthersStay, Zenon DEF SchedInv, CpuLabels
<1>6. LockHeld(c)' /\ Fits(c)' /\ Idling(c)' = Idling(c)
  BY <1>1, <1>2, <1>3, <1>4, <1>5, Zenon DEF LockHeld, Fits, Idling, Migrating, queues
<1> QED
  BY <1>1, <1>4, <1>6, QuietStep, Zenon DEF SchedInv, Types, CpuLabels, locks

(* The cpu has less than its share.                                        *)
LEMMA NothingStep ==
  ASSUME SchedInv, NEW c \in Cpus, NothingToSend(c)
  PROVE  SchedInv'
<1> DEFINE x == migration[c].ret
<1>1. /\ cpc[c] = "count" /\ StepTo(c, x, Idle)
      /\ UNCHANGED <<curthread, c_isidle, queues, locks, ipi, thrd>>
  BY Zenon DEF NothingToSend, Goto, StepTo
<1>2. x \in {"yield", "relock"} /\ migration[c].victims = << >>
  BY <1>1, Zenon DEF SchedInv, MigrationFits, Fits, Migrating
<1>3. cpc'[c] = x /\ migration'[c] = Idle
  BY <1>1, <1>2, IdleLocals, OthersStay DEF SchedInv, CpuLabels
<1>4. LockHeld(c)' /\ Fits(c)' /\ Idling(c)' = Idling(c)
  BY <1>1, <1>2, <1>3, IdleLocals DEF LockHeld, Fits, Idling, Migrating
<1>5. UNCHANGED <<curthread, c_isidle, queues, thrd, c_runqueue_lock, wchan_lock, ipi>>
  BY <1>1, Zenon DEF locks
<1>6. x \in CpuLabels /\ x # "tail" /\ cpc[c] # "tail"
  BY <1>1, <1>2, Zenon DEF CpuLabels
<1> HIDE DEF x
<1> QED
  BY <1>1, <1>2, <1>4, <1>5, <1>6, IdleLocals, QuietStep, Zenon DEF SchedInv, Types

(* The next queue of the loop over the other cpus is locked.               *)
LEMMA LockTargetStep ==
  ASSUME SchedInv, NEW c \in Cpus, LockTarget(c)
  PROVE  SchedInv'
<1> DEFINE o == migration[c]
           m == [o EXCEPT !.i = @ + 1]
<1>1. /\ cpc[c] = "give" /\ UNCHANGED <<curthread, c_isidle, queues, wchan_lock, ipi, thrd>>
  BY Zenon DEF LockTarget, Goto
<1>2. o \in Locals /\ o.i \in Cpus /\ Fits(c)
  <2>1. o \in Locals /\ Fits(c)
    BY Zenon DEF SchedInv, Types, MigrationFits
  <2> QED
    BY <2>1, SchedAssumption DEF LockTarget, Locals, Cpus
<1>3. /\ m \in Locals /\ m.ret = o.ret /\ m.my = o.my
      /\ m.send = o.send /\ m.victims = o.victims
  BY <1>2, SetIndex, Zenon
<1>4. CASE StepTo(c, "give", m) /\ UNCHANGED c_runqueue_lock
  <2> HIDE DEF m
  <2>1. cpc'[c] = "give" /\ migration'[c] = m
    BY <1>3, <1>4, OthersStay, Zenon DEF SchedInv, CpuLabels
  <2>2. LockHeld(c)' /\ Fits(c)' /\ Idling(c)' = Idling(c)
    BY <1>1, <1>2, <1>3, <2>1, Zenon DEF LockHeld, Fits, Idling, Migrating
  <2> QED
    BY <1>1, <1>3, <1>4, <2>2, QuietStep, Zenon DEF SchedInv, Types, CpuLabels
<1>5. CASE /\ o.i # c /\ Free(o.i) /\ cpc' = [cpc EXCEPT ![c] = "giving"]
           /\ c_runqueue_lock' = [c_runqueue_lock EXCEPT ![o.i] = c]
           /\ UNCHANGED migration
  <2>1. StepTo(c, "giving", o)
    BY <1>5, LocalsStay, Zenon DEF SchedInv
  <2>2. cpc'[c] = "giving" /\ migration'[c] = o
    BY <1>2, <2>1, OthersStay, ZenonT(60) DEF SchedInv, CpuLabels
  <2>3. /\ c_runqueue_lock' \in [Cpus -> Cpus \cup {None}]
        /\ c_runqueue_lock'[o.i] = c
        /\ \A k \in Cpus : c_runqueue_lock'[k] = c_runqueue_lock[k]
                             \/ c_runqueue_lock[k] \in {None, c}
    BY <1>2, <1>5, Zenon DEF SchedInv, Types, Free
  <2>4. LockHeld(c)' /\ Fits(c)' /\ Idling(c)' = Idling(c)
    BY <1>1, <1>2, <1>5, <2>2, <2>3, Zenon DEF LockHeld, Fits, Idling, Migrating
  <2> QED
    BY <1>1, <1>2, <2>1, <2>3, <2>4, QuietStep, Zenon DEF SchedInv, Types, CpuLabels
<1> QED
  BY <1>4, <1>5, Zenon DEF LockTarget, Goto, StepTo

(* The queue is unlocked.                                                  *)
LEMMA UnlockTargetStep ==
  ASSUME SchedInv, NEW c \in Cpus, UnlockTarget(c)
  PROVE  SchedInv'
<1> DEFINE o == migration[c]
           m == [o EXCEPT !.i = @ + 1]
<1>1. /\ cpc[c] = "giving" /\ StepTo(c, "give", m)
      /\ c_runqueue_lock' = [c_runqueue_lock EXCEPT ![o.i] = None]
      /\ UNCHANGED <<curthread, c_isidle, queues, wchan_lock, ipi, thrd>>
  BY Zenon DEF UnlockTarget, Goto, StepTo
<1>2. /\ o \in Locals /\ Fits(c) /\ o.i \in Cpus /\ c_runqueue_lock[o.i] = c
  BY <1>1, Zenon DEF SchedInv, Types, MigrationFits, QueuesLocked, LockHeld
<1>3. /\ m \in Locals /\ m.ret = o.ret /\ m.my = o.my
      /\ m.send = o.send /\ m.victims = o.victims
  BY <1>2, SetIndex, Zenon
<1> HIDE DEF m
<1>4. cpc'[c] = "give" /\ migration'[c] = m
  BY <1>1, <1>3, OthersStay, ZenonT(60) DEF SchedInv, CpuLabels
<1>5. /\ c_runqueue_lock' \in [Cpus -> Cpus \cup {None}]
      /\ \A k \in Cpus : c_runqueue_lock'[k] = c_runqueue_lock[k]
                           \/ c_runqueue_lock[k] \in {None, c}
  BY <1>1, <1>2, Zenon DEF SchedInv, Types
<1>6. LockHeld(c)' /\ Fits(c)' /\ Idling(c)' = Idling(c)
  BY <1>1, <1>2, <1>3, <1>4, Zenon DEF LockHeld, Fits, Idling, Migrating
<1> QED
  BY <1>1, <1>3, <1>5, <1>6, QuietStep, Zenon DEF SchedInv, Types, CpuLabels
----------------------------------------------------------------------------
(* Steps that move threads.  Each names what happens to the lists and the  *)
(* states, and the rest of the invariant follows from that.                *)

(* Queues that other cpus see only grow.                                   *)
LEMMA OthersFit ==
  ASSUME SchedInv, NEW c \in Cpus, NEW x \in CpuLabels, NEW m \in Locals, StepTo(c, x, m),
         \A d \in Cpus : d # c => /\ Len(c_runqueue'[d]) \in Nat
                                  /\ Len(c_runqueue[d]) <= Len(c_runqueue'[d]),
         Fits(c)'
  PROVE  MigrationFits'
<1> SUFFICES ASSUME NEW d \in Cpus, d # c PROVE Fits(d)'
  BY Zenon DEF MigrationFits
<1>1. /\ Fits(d) /\ cpc'[d] = cpc[d] /\ migration'[d] = migration[d]
      /\ migration[d].my \in Nat /\ Len(c_runqueue[d]) \in Nat
      /\ Len(c_runqueue'[d]) \in Nat /\ Len(c_runqueue[d]) <= Len(c_runqueue'[d])
  <2>1. migration[d] \in Locals /\ c_runqueue[d] \in Seq(Threads) /\ Fits(d)
    BY Zenon DEF SchedInv, Types, MigrationFits
  <2>2. cpc'[d] = cpc[d] /\ migration'[d] = migration[d]
    BY OthersStay, Zenon DEF SchedInv
  <2> QED
    BY <2>1, <2>2, SMTT(60) DEF Locals
<1> QED
  BY <1>1 DEF Fits

(* Only threads are listed.                                                *)
LEMMA ListedAreThreads ==
  ASSUME Types
  PROVE  /\ \A d \in Cpus : Ready(d) \subseteq Threads /\ Moving(d) \subseteq Threads
         /\ \A d \in Cpus : c_zombies[d] \subseteq Threads
         /\ Asleep \subseteq Threads
<1>1. \A q \in Seq(Threads) : Elems(q) \subseteq Threads
  BY DEF Elems
<1>2. \A d \in Cpus : c_runqueue[d] \in Seq(Threads) /\ migration[d].victims \in Seq(Threads)
  BY Zenon DEF Types, Locals
<1> QED
  BY <1>1, <1>2, Zenon DEF Types, Ready, Moving, Asleep

(* A thread that runs is on no list.                                       *)
LEMMA RunnerIsUnlisted ==
  ASSUME SchedInv, NEW c \in Cpus, ~Idling(c), cpc[c] # "tail"
  PROVE  /\ curthread[c] \in Threads /\ t_cpu[curthread[c]] = c
         /\ t_state[curthread[c]] = "RUN"
         /\ curthread[c] \notin Asleep
         /\ \A d \in Cpus : curthread[c] \notin Ready(d) \cup Moving(d) \cup c_zombies[d]
  BY ZenonT(60) DEF SchedInv, Types, StacksMatch, ListsMatch

(* thread_switch: the current thread goes from running to one list.        *)
LEMMA PlaceStep ==
  ASSUME SchedInv, NEW c \in Cpus, NEW s \in {"READY", "SLEEP", "ZOMBIE"},
         Place(c, s), Goto(c, {"run", "sleep", "yield"}, "pick"),
         c_runqueue' \in [Cpus -> Seq(Threads)], wchan' \in Seq(Threads),
         c_zombies' \in [Cpus -> SUBSET Threads], wchan_lock' \in Cpus \cup {None},
         \A d \in Cpus : Len(c_runqueue[d]) <= Len(c_runqueue'[d]),
         \A d \in Cpus : Ready(d)' = Ready(d) \cup (IF d = c /\ s = "READY" THEN {curthread[c]} ELSE {}),
         Asleep' = Asleep \cup (IF s = "SLEEP" THEN {curthread[c]} ELSE {}),
         \A d \in Cpus : c_zombies'[d] = c_zombies[d] \cup (IF d = c /\ s = "ZOMBIE" THEN {curthread[c]} ELSE {}),
         ListedOnce'
  PROVE  SchedInv'
<1> DEFINE u == curthread[c]
           m == migration[c]
<1>1. /\ cpc[c] \in {"run", "sleep", "yield"} /\ cpc' = [cpc EXCEPT ![c] = "pick"]
      /\ c_runqueue_lock[c] = None
      /\ c_runqueue_lock' = [c_runqueue_lock EXCEPT ![c] = c]
      /\ t_state' = [t_state EXCEPT ![u] = s]
      /\ c_isidle' = [c_isidle EXCEPT ![c] = TRUE]
      /\ UNCHANGED <<curthread, ipi, t_cpu, migration>>
  BY Zenon DEF Place, Goto, Free
<1>2. m \in Locals /\ StepTo(c, "pick", m)
  BY <1>1, LocalsStay, Zenon DEF SchedInv
<1>3. /\ cpc'[c] = "pick" /\ migration' = migration
      /\ cpc' \in [Cpus -> CpuLabels] /\ migration' \in [Cpus -> Locals]
      /\ \A d \in Cpus : d # c => cpc'[d] = cpc[d] /\ Idling(d)' = Idling(d)
      /\ \A d \in Cpus : Moving(d)' = Moving(d)
  BY <1>1, <1>2, OthersStay, ZenonT(60) DEF SchedInv, CpuLabels, Moving
<1>4. ~Idling(c) /\ Idling(c)'
  BY <1>1, <1>3, Zenon DEF Idling, Migrating
<1>5. /\ u \in Threads /\ t_cpu[u] = c /\ t_state[u] = "RUN" /\ u \notin Asleep
      /\ \A d \in Cpus : u \notin Ready(d) \cup Moving(d) \cup c_zombies[d]
  BY <1>1, <1>4, RunnerIsUnlisted, Zenon
<1>6. /\ t_state' \in [Threads -> States] /\ t_state'[u] = s
      /\ \A t \in Threads : t # u => t_state'[t] = t_state[t]
      /\ t_cpu' = t_cpu
  BY <1>1, <1>5, Zenon DEF SchedInv, Types, States
<1>7. Types'
  BY <1>1, <1>3, <1>6, Zenon DEF SchedInv, Types
<1>8. QueuesLocked'
  <2>1. LockHeld(c)'
    BY <1>1, <1>3, Zenon DEF SchedInv, Types, LockHeld
  <2> QED
    BY <1>1, <1>2, <2>1, LocksKept, Zenon DEF SchedInv, Types, CpuLabels
<1>9. MigrationFits'
  <2>1. Fits(c)'
    BY <1>1, <1>3, Zenon DEF SchedInv, MigrationFits, Fits, Migrating
  <2> QED
    BY <1>2, <2>1, OthersFit DEF CpuLabels
<1>10. IdleIsNoted'
  BY <1>1, <1>3, <1>4, Zenon DEF SchedInv, Types, IdleIsNoted
<1>11. ListsMatch'
  <2>1. ASSUME NEW d \in Cpus, NEW t \in Ready(d)' \cup Moving(d)'
        PROVE  t_state'[t] = "READY" /\ t_cpu'[t] = d /\ ~(t \in Ready(d)' /\ t \in Moving(d)')
    <3>1. CASE t = u
      BY <1>3, <1>5, <1>6, <2>1, <3>1, ZenonT(60)
    <3>2. CASE t # u
      <4>1. (t \in Ready(d)' <=> t \in Ready(d)) /\ (t \in Moving(d)' <=> t \in Moving(d))
        BY <1>3, <3>2, ZenonT(60)
      <4>2. t \in Threads
        BY <2>1, <4>1, ListedAreThreads, Zenon DEF SchedInv
      <4> QED
        BY <1>6, <2>1, <3>2, <4>1, <4>2, ZenonT(60) DEF SchedInv, ListsMatch
    <3> QED
      BY <3>1, <3>2, Zenon
  <2>2. ASSUME NEW t \in Asleep' PROVE t_state'[t] = "SLEEP"
    BY <1>5, <1>6, <2>2, ListedAreThreads DEF SchedInv, ListsMatch
  <2>3. ASSUME NEW d \in Cpus, NEW t \in c_zombies'[d]
        PROVE  t_state'[t] = "ZOMBIE" /\ t_cpu'[t] = d
    BY <1>5, <1>6, <2>3, ListedAreThreads DEF SchedInv, ListsMatch
  <2> QED
    BY <2>1, <2>2, <2>3, Zenon DEF ListsMatch
<1>12. StacksMatch'
  <2>1. ASSUME NEW d \in Cpus, d # c PROVE curthread[d] # u /\ curthread[d] \in Threads
    BY <1>5, <2>1, Zenon DEF SchedInv, Types, StacksMatch
  <2> QED
    BY <1>1, <1>3, <1>4, <1>5, <1>6, <2>1 DEF SchedInv, StacksMatch
<1>13. NoneLost'
  BY <1>1, <1>3, <1>5, <1>6, SMTT(60) DEF SchedInv, Types, NoneLost
<1> QED
  BY <1>7, <1>8, <1>9, <1>10, <1>11, <1>12, <1>13, Zenon DEF SchedInv
(* thread_yield puts it at the end of the run queue.                       *)
LEMMA YieldStep ==
  ASSUME SchedInv, NEW c \in Cpus, thread_yield(c), c_runqueue[c] # << >>
  PROVE  SchedInv'
<1> DEFINE u == curthread[c]
           s == "READY"
<1>1. /\ Goto(c, {"run", "yield"}, "pick") /\ Place(c, s)
      /\ c_runqueue' = [c_runqueue EXCEPT ![c] = Append(@, u)]
      /\ UNCHANGED <<c_zombies, wchan, wchan_lock>>
  BY Zenon DEF thread_yield, Enqueue
<1>2. u \in Threads /\ u \notin Ready(c)
  BY <1>1, RunnerIsUnlisted, Zenon DEF Goto, Idling, Migrating
<1>3. /\ c_runqueue[c] \in Seq(Threads) /\ Once(c_runqueue[c])
      /\ \A d \in Cpus : c_runqueue[d] \in Seq(Threads)
  BY Zenon DEF SchedInv, Types, ListedOnce
<1>4. /\ Append(c_runqueue[c], u) \in Seq(Threads) /\ Once(Append(c_runqueue[c], u))
      /\ Len(Append(c_runqueue[c], u)) = Len(c_runqueue[c]) + 1
      /\ Elems(Append(c_runqueue[c], u)) = Ready(c) \cup {u}
  BY <1>2, <1>3, AppendElems, Zenon DEF Ready
<1>5. /\ c_runqueue' \in [Cpus -> Seq(Threads)]
      /\ c_runqueue'[c] = Append(c_runqueue[c], u)
      /\ \A d \in Cpus : d # c => c_runqueue'[d] = c_runqueue[d]
  BY <1>1, <1>4, Zenon DEF SchedInv, Types
<1>6. \A d \in Cpus : /\ Ready(d)' = Ready(d) \cup (IF d = c /\ s = "READY" THEN {u} ELSE {})
                      /\ Len(c_runqueue[d]) <= Len(c_runqueue'[d])
  <2>1. Ready(c)' = Ready(c) \cup {u} /\ Len(c_runqueue[c]) <= Len(c_runqueue'[c])
    BY <1>3, <1>4, <1>5 DEF Ready
  <2>2. \A d \in Cpus : d # c => Ready(d)' = Ready(d) /\ Len(c_runqueue[d]) <= Len(c_runqueue'[d])
    BY <1>3, <1>5 DEF Ready
  <2> QED
    BY <2>1, <2>2, Zenon
<1>7. ListedOnce' /\ Asleep' = Asleep
  BY <1>1, <1>4, <1>5, Zenon DEF SchedInv, ListedOnce, Asleep, Place
<1>8. Goto(c, {"run", "sleep", "yield"}, "pick")
  BY <1>1, Zenon DEF Goto
<1>9. /\ s \in {"READY", "SLEEP", "ZOMBIE"}
      /\ Asleep' = Asleep \cup (IF s = "SLEEP" THEN {u} ELSE {})
      /\ \A d \in Cpus : Ready(d)' = Ready(d) \cup (IF d = c /\ s = "READY" THEN {u} ELSE {})
      /\ \A d \in Cpus : c_zombies'[d] = c_zombies[d] \cup (IF d = c /\ s = "ZOMBIE" THEN {u} ELSE {})
      /\ \A d \in Cpus : Len(c_runqueue[d]) <= Len(c_runqueue'[d])
      /\ c_runqueue' \in [Cpus -> Seq(Threads)] /\ wchan' \in Seq(Threads)
      /\ c_zombies' \in [Cpus -> SUBSET Threads] /\ wchan_lock' \in Cpus \cup {None}
  BY <1>1, <1>5, <1>6, <1>7, Zenon DEF SchedInv, Types
<1> HIDE DEF s
<1> QED
  BY <1>1, <1>7, <1>8, <1>9, PlaceStep, ZenonT(60)

(* wchan_sleep puts it at the end of the channel.                          *)
LEMMA SleepStep ==
  ASSUME SchedInv, NEW c \in Cpus, wchan_sleep(c)
  PROVE  SchedInv'
<1> DEFINE u == curthread[c]
           s == "SLEEP"
<1>1. /\ Goto(c, {"sleep"}, "pick") /\ Place(c, s)
      /\ wchan' = Append(wchan, u) /\ wchan_lock' = None
      /\ UNCHANGED <<c_runqueue, c_zombies>>
  BY Zenon DEF wchan_sleep
<1>2. u \in Threads /\ u \notin Asleep
  BY <1>1, RunnerIsUnlisted, Zenon DEF Goto, Idling, Migrating
<1>3. /\ wchan \in Seq(Threads) /\ Once(wchan)
      /\ \A d \in Cpus : c_runqueue[d] \in Seq(Threads)
  BY Zenon DEF SchedInv, Types, ListedOnce
<1>4. wchan' \in Seq(Threads) /\ Once(wchan') /\ Asleep' = Asleep \cup {u}
  BY <1>1, <1>2, <1>3, AppendElems, Zenon DEF Asleep
<1>5. \A d \in Cpus : Ready(d)' = Ready(d) /\ Len(c_runqueue[d]) <= Len(c_runqueue'[d])
  BY <1>1, <1>3, LenIsNat, Zenon DEF Ready
<1>6. ListedOnce'
  BY <1>1, <1>4, Zenon DEF SchedInv, ListedOnce, Place
<1>7. Goto(c, {"run", "sleep", "yield"}, "pick")
  BY <1>1, Zenon DEF Goto
<1>8. /\ s \in {"READY", "SLEEP", "ZOMBIE"}
      /\ Asleep' = Asleep \cup (IF s = "SLEEP" THEN {u} ELSE {})
      /\ \A d \in Cpus : Ready(d)' = Ready(d) \cup (IF d = c /\ s = "READY" THEN {u} ELSE {})
      /\ \A d \in Cpus : c_zombies'[d] = c_zombies[d] \cup (IF d = c /\ s = "ZOMBIE" THEN {u} ELSE {})
      /\ \A d \in Cpus : Len(c_runqueue[d]) <= Len(c_runqueue'[d])
      /\ c_runqueue' \in [Cpus -> Seq(Threads)] /\ wchan' \in Seq(Threads)
      /\ c_zombies' \in [Cpus -> SUBSET Threads] /\ wchan_lock' \in Cpus \cup {None}
  BY <1>1, <1>4, <1>5, Zenon DEF SchedInv, Types
<1> HIDE DEF s
<1> QED
  BY <1>1, <1>6, <1>7, <1>8, PlaceStep, Zenon

(* thread_exit puts it on the zombie list of the cpu.                      *)
LEMMA ExitStep ==
  ASSUME SchedInv, NEW c \in Cpus, thread_exit(c)
  PROVE  SchedInv'
<1> DEFINE u == curthread[c]
           s == "ZOMBIE"
<1>1. /\ Goto(c, {"run"}, "pick") /\ Place(c, s)
      /\ c_zombies' = [c_zombies EXCEPT ![c] = @ \cup {u}]
      /\ UNCHANGED <<c_runqueue, wchan, wchan_lock>>
  BY Zenon DEF thread_exit
<1>2. u \in Threads
  BY Zenon DEF SchedInv, Types
<1>3. /\ c_zombies' \in [Cpus -> SUBSET Threads]
      /\ \A d \in Cpus : c_zombies'[d] = c_zombies[d] \cup (IF d = c /\ s = "ZOMBIE" THEN {u} ELSE {})
  BY <1>1, <1>2, Zenon DEF SchedInv, Types
<1>4. /\ \A d \in Cpus : Ready(d)' = Ready(d) /\ Len(c_runqueue[d]) <= Len(c_runqueue'[d])
      /\ Asleep' = Asleep
  BY <1>1 DEF SchedInv, Types, Ready, Asleep
<1>5. ListedOnce'
  BY <1>1, Zenon DEF SchedInv, ListedOnce, Place
<1>6. Goto(c, {"run", "sleep", "yield"}, "pick") /\ Place(c, s)
  BY <1>1, Zenon DEF Goto
<1>7. /\ s \in {"READY", "SLEEP", "ZOMBIE"}
      /\ Asleep' = Asleep \cup (IF s = "SLEEP" THEN {u} ELSE {})
      /\ \A d \in Cpus : Ready(d)' = Ready(d) \cup (IF d = c /\ s = "READY" THEN {u} ELSE {})
      /\ \A d \in Cpus : c_zombies'[d] = c_zombies[d] \cup (IF d = c /\ s = "ZOMBIE" THEN {u} ELSE {})
      /\ \A d \in Cpus : Len(c_runqueue[d]) <= Len(c_runqueue'[d])
      /\ c_runqueue' \in [Cpus -> Seq(Threads)] /\ wchan' \in Seq(Threads)
      /\ c_zombies' \in [Cpus -> SUBSET Threads] /\ wchan_lock' \in Cpus \cup {None}
  BY <1>1, <1>3, <1>4, ZenonT(60) DEF SchedInv, Types
<1> HIDE DEF s
<1> QED
  BY <1>5, <1>6, <1>7, PlaceStep, Zenon

(* The head of the run queue is switched to.                               *)
LEMMA PickStep ==
  ASSUME SchedInv, NEW c \in Cpus, PickNext(c)
  PROVE  SchedInv'
<1> DEFINE m == migration[c]
           q == c_runqueue[c]
           h == Head(q)
<1>1. /\ cpc[c] = "pick" /\ cpc' = [cpc EXCEPT ![c] = "tail"] /\ q # << >>
      /\ curthread' = [curthread EXCEPT ![c] = h]
      /\ c_runqueue' = [c_runqueue EXCEPT ![c] = Tail(q)]
      /\ c_isidle' = [c_isidle EXCEPT ![c] = FALSE]
      /\ UNCHANGED <<c_zombies, wchan, c_runqueue_lock, wchan_lock, ipi, t_state, t_cpu, migration>>
  BY Zenon DEF PickNext, Goto, locks, thrd
<1>2. m \in Locals /\ StepTo(c, "tail", m)
  BY <1>1, LocalsStay, Zenon DEF SchedInv
<1>3. /\ cpc'[c] = "tail" /\ cpc' \in [Cpus -> CpuLabels]
      /\ \A d \in Cpus : d # c => cpc'[d] = cpc[d] /\ Idling(d)' = Idling(d)
      /\ \A d \in Cpus : Moving(d)' = Moving(d)
  BY <1>1, <1>2, OthersStay, Zenon DEF SchedInv, CpuLabels, Moving
<1>4. Idling(c) /\ ~Idling(c)' /\ Moving(c) = {}
  <2>1. m.victims = << >>
    BY <1>1, Zenon DEF SchedInv, MigrationFits, Fits
  <2> QED
    BY <1>1, <1>3, <2>1, NoElems, Zenon DEF Idling, Migrating, Moving
<1>5. q \in Seq(Threads) /\ Once(q)
  BY Zenon DEF SchedInv, Types, ListedOnce
<1>6. /\ h \in Threads /\ h \in Ready(c) /\ Elems(Tail(q)) = Ready(c) \ {h}
      /\ Tail(q) \in Seq(Threads) /\ Once(Tail(q))
  BY <1>1, <1>5, TailElems, Zenon DEF Ready
<1> HIDE DEF h
<1>7. /\ c_runqueue' \in [Cpus -> Seq(Threads)] /\ c_runqueue'[c] = Tail(q)
      /\ \A d \in Cpus : d # c => c_runqueue'[d] = c_runqueue[d]
  BY <1>1, <1>6, Zenon DEF SchedInv, Types
<1>8. /\ Ready(c)' = Ready(c) \ {h} /\ Asleep' = Asleep
      /\ \A d \in Cpus : d # c => Ready(d)' = Ready(d)
  BY <1>1, <1>6, <1>7, Zenon DEF Ready, Asleep
<1>9. /\ curthread' \in [Cpus -> Threads] /\ curthread'[c] = h
      /\ \A d \in Cpus : d # c => curthread'[d] = curthread[d]
  BY <1>1, <1>6, Zenon DEF SchedInv, Types
<1>10. t_state[h] = "READY" /\ t_cpu[h] = c
  BY <1>6, Zenon DEF SchedInv, ListsMatch
<1>11. Types'
  BY <1>1, <1>3, <1>7, <1>9, Zenon DEF SchedInv, Types
<1>12. QueuesLocked'
  <2>1. LockHeld(c)'
    BY <1>1, <1>3, Zenon DEF SchedInv, QueuesLocked, LockHeld
  <2> QED
    BY <1>1, <1>2, <2>1, LocksKept, Zenon DEF CpuLabels
<1>13. MigrationFits'
  <2>1. Fits(c)'
    BY <1>1, <1>3, Zenon DEF SchedInv, MigrationFits, Fits, Migrating
  <2>2. \A d \in Cpus : d # c => /\ Len(c_runqueue'[d]) \in Nat
                                 /\ Len(c_runqueue[d]) <= Len(c_runqueue'[d])
    BY <1>7
  <2> QED
    BY <1>2, <2>1, <2>2, OthersFit, Zenon DEF CpuLabels
<1>14. IdleIsNoted'
  BY <1>1, <1>3, <1>4, Zenon DEF SchedInv, Types, IdleIsNoted
<1>15. ListedOnce'
  BY <1>1, <1>6, <1>7, Zenon DEF SchedInv, ListedOnce
<1>16. ListsMatch'
  BY <1>1, <1>3, <1>8 DEF SchedInv, ListsMatch
<1>17. StacksMatch'
  BY <1>1, <1>3, <1>4, <1>8, <1>9, <1>10 DEF SchedInv, StacksMatch
<1>18. NoneLost'
  BY <1>1, <1>3, <1>4, <1>8, <1>9, <1>10 DEF SchedInv, Types, StacksMatch, NoneLost
<1> QED
  BY <1>11, <1>12, <1>13, <1>14, <1>15, <1>16, <1>17, <1>18, Zenon DEF SchedInv

(* The new thread runs, and the zombies of this cpu are destroyed.         *)
LEMMA StartsStep ==
  ASSUME SchedInv, NEW c \in Cpus, ThreadStarts(c)
  PROVE  SchedInv'
<1> DEFINE m == migration[c]
           u == curthread[c]
<1>1. /\ cpc[c] = "tail" /\ cpc' = [cpc EXCEPT ![c] = "run"]
      /\ c_runqueue_lock' = [c_runqueue_lock EXCEPT ![c] = None]
      /\ c_zombies' = [c_zombies EXCEPT ![c] = {}]
      /\ t_state' = [t \in Threads |-> IF t = u THEN "RUN"
                                       ELSE IF t \in c_zombies[c] THEN "NONE" ELSE t_state[t]]
      /\ UNCHANGED <<curthread, c_isidle, c_runqueue, wchan, wchan_lock, ipi, t_cpu, migration>>
  BY Zenon DEF ThreadStarts, Goto
<1>2. m \in Locals /\ StepTo(c, "run", m)
  BY <1>1, LocalsStay, Zenon DEF SchedInv
<1>3. /\ cpc'[c] = "run" /\ cpc' \in [Cpus -> CpuLabels]
      /\ \A d \in Cpus : d # c => cpc'[d] = cpc[d] /\ Idling(d)' = Idling(d)
      /\ \A d \in Cpus : Moving(d)' = Moving(d) /\ Ready(d)' = Ready(d)
      /\ Asleep' = Asleep
  BY <1>1, <1>2, OthersStay, ZenonT(60) DEF SchedInv, CpuLabels, Moving, Ready, Asleep
<1>4. ~Idling(c) /\ ~Idling(c)'
  BY <1>1, <1>3, Zenon DEF Idling, Migrating
<1>5. /\ u \in Threads /\ t_cpu[u] = c /\ t_state[u] = "READY"
      /\ u \notin Ready(c) \cup Moving(c)
  BY <1>1, Zenon DEF SchedInv, Types, StacksMatch
<1> HIDE DEF u
<1>6. /\ t_state' \in [Threads -> States] /\ t_state'[u] = "RUN"
      /\ \A t \in Threads : t \in c_zombies[c] => t_state'[t] = "NONE"
      /\ \A t \in Threads : t # u /\ t \notin c_zombies[c] => t_state'[t] = t_state[t]
  BY <1>1, <1>5, ZenonT(60) DEF SchedInv, Types, States, ListsMatch
<1>7. /\ c_zombies' \in [Cpus -> SUBSET Threads] /\ c_zombies'[c] = {}
      /\ \A d \in Cpus : d # c => c_zombies'[d] = c_zombies[d]
  BY <1>1, Zenon DEF SchedInv, Types
<1>8. c_runqueue_lock[c] = c
  BY <1>1, Zenon DEF SchedInv, QueuesLocked, LockHeld
<1>9. /\ c_runqueue_lock' \in [Cpus -> Cpus \cup {None}]
      /\ \A k \in Cpus : c_runqueue_lock'[k] = c_runqueue_lock[k]
                           \/ c_runqueue_lock[k] \in {None, c}
  BY <1>1, <1>8, Zenon DEF SchedInv, Types
<1>10. Types'
  BY <1>1, <1>3, <1>6, <1>7, <1>9, Zenon DEF SchedInv, Types
<1>11. QueuesLocked'
  <2>1. LockHeld(c)'
    BY <1>3, Zenon DEF LockHeld
  <2> QED
    BY <1>2, <1>9, <2>1, LocksKept, Zenon DEF CpuLabels
<1>12. MigrationFits'
  <2>1. Fits(c)'
    BY <1>1, <1>3, Zenon DEF SchedInv, MigrationFits, Fits, Migrating
  <2> QED
    BY <1>1, <1>2, <2>1, OthersFit, SMTT(60) DEF SchedInv, Types, CpuLabels
<1>13. IdleIsNoted'
  BY <1>1, <1>3, <1>4, Zenon DEF SchedInv, IdleIsNoted
<1>14. ListedOnce'
  BY <1>1, Zenon DEF SchedInv, ListedOnce
<1>15. \A t \in Threads : t_state[t] # "ZOMBIE" => t \notin c_zombies[c]
  BY Zenon DEF SchedInv, ListsMatch
<1>16. ListsMatch'
  <2>1. ASSUME NEW d \in Cpus, NEW t \in Ready(d) \cup Moving(d)
        PROVE  t_state'[t] = "READY" /\ t_cpu[t] = d
    <3>1. t \in Threads /\ t_state[t] = "READY" /\ t_cpu[t] = d
      BY ListedAreThreads, Zenon DEF SchedInv, ListsMatch
    <3> QED
      BY <1>5, <1>6, <1>15, <3>1, Zenon
  <2>2. ASSUME NEW t \in Asleep PROVE t_state'[t] = "SLEEP"
    <3>1. t \in Threads /\ t_state[t] = "SLEEP"
      BY ListedAreThreads, Zenon DEF SchedInv, ListsMatch
    <3> QED
      BY <1>5, <1>6, <1>15, <3>1, Zenon
  <2>3. ASSUME NEW d \in Cpus, NEW t \in c_zombies'[d]
        PROVE  t_state'[t] = "ZOMBIE" /\ t_cpu[t] = d
    <3>1. d # c /\ t \in Threads /\ t_state[t] = "ZOMBIE" /\ t_cpu[t] = d
      BY <1>7, ListedAreThreads, Zenon DEF SchedInv, ListsMatch
    <3>2. t \notin c_zombies[c]
      BY <3>1, Zenon DEF SchedInv, ListsMatch
    <3> QED
      BY <1>5, <1>6, <3>1, <3>2, Zenon
  <2>4. \A d \in Cpus : \A t \in Ready(d) : t \notin Moving(d)
    BY Zenon DEF SchedInv, ListsMatch
  <2>5. /\ \A d \in Cpus : Ready(d)' = Ready(d) /\ Moving(d)' = Moving(d)
        /\ Asleep' = Asleep /\ t_cpu' = t_cpu
    BY <1>1, <1>3, Zenon
  <2>6. \A d \in Cpus : \A t \in Ready(d)' \cup Moving(d)' : t_state'[t] = "READY" /\ t_cpu'[t] = d
    BY <2>1, <2>5, Zenon
  <2>7. \A d \in Cpus : \A t \in Ready(d)' : t \notin Moving(d)'
    BY <2>4, <2>5, Zenon
  <2>8. \A t \in Asleep' : t_state'[t] = "SLEEP"
    BY <2>2, <2>5, Zenon
  <2>9. \A d \in Cpus : \A t \in c_zombies'[d] : t_state'[t] = "ZOMBIE" /\ t_cpu'[t] = d
    BY <2>3, <2>5, Zenon
  <2> QED
    BY <2>6, <2>7, <2>8, <2>9, Zenon DEF ListsMatch
<1>17. StacksMatch'
  <2>1. ASSUME NEW d \in Cpus, d # c
        PROVE  /\ curthread[d] \in Threads /\ curthread[d] # u
               /\ curthread[d] \notin c_zombies[c]
    BY <1>5, <2>1 DEF SchedInv, Types, StacksMatch, ListsMatch
  <2>2. u = curthread[c]
    BY Zenon DEF u
  <2> QED
    BY <1>1, <1>3, <1>4, <1>5, <1>6, <2>1, <2>2 DEF SchedInv, StacksMatch
<1>18. NoneLost'
  <2>1. u = curthread[c]
    BY Zenon DEF u
  <2> QED
    BY <1>1, <1>3, <1>5, <1>6, <1>7, <2>1, SMTT(60) DEF SchedInv, Types, NoneLost
<1> QED
  BY <1>10, <1>11, <1>12, <1>13, <1>14, <1>16, <1>17, <1>18, Zenon DEF SchedInv

(* thread_make_runnable: a thread that is new or asleep goes to the end of *)
(* the run queue of its cpu k.                                             *)
LEMMA ReadyStep ==
  ASSUME SchedInv, NEW c \in Cpus, NEW x \in CpuLabels, NEW m \in Locals, StepTo(c, x, m),
         NEW t \in Threads, NEW k \in Cpus,
         t_state[t] = "NONE" \/ (t_state[t] = "SLEEP" /\ t_cpu[t] = k),
         t_state' = [t_state EXCEPT ![t] = "READY"],
         t_cpu' = [t_cpu EXCEPT ![t] = k],
         c_runqueue' = [c_runqueue EXCEPT ![k] = Append(@, t)],
         wchan' \in Seq(Threads), Once(wchan'), Asleep' = Asleep \ {t},
         UNCHANGED <<curthread, c_isidle, c_zombies, c_runqueue_lock>>,
         wchan_lock' \in Cpus \cup {None}, ipi' \in [Cpus -> BOOLEAN],
         x \notin {"tail", "pick", "giving", "count"}, cpc[c] # "tail", Fits(c)',
         m.victims = migration[c].victims, Idling(c)' = Idling(c)
  PROVE  SchedInv'
<1> DEFINE q == c_runqueue[k]
<1>1. t \notin Ready(k) /\ \A d \in Cpus : t \notin Ready(d) \cup Moving(d) \cup c_zombies[d]
  BY Zenon DEF SchedInv, ListsMatch
<1>2. q \in Seq(Threads) /\ Once(q)
  BY Zenon DEF SchedInv, Types, ListedOnce
<1>3. /\ Append(q, t) \in Seq(Threads) /\ Once(Append(q, t))
      /\ Len(Append(q, t)) = Len(q) + 1 /\ Len(q) \in Nat
      /\ Elems(Append(q, t)) = Ready(k) \cup {t}
  <2>1. q \in Seq(Threads) /\ Once(q) /\ Elems(q) = Ready(k) /\ t \notin Elems(q)
    BY <1>1, <1>2, Zenon DEF Ready
  <2> HIDE DEF q
  <2>2. Len(q) \in Nat
    BY <2>1
  <2> QED
    BY <2>1, <2>2, AppendElems, Zenon
<1>4. /\ c_runqueue' \in [Cpus -> Seq(Threads)] /\ c_runqueue'[k] = Append(q, t)
      /\ \A d \in Cpus : d # k => c_runqueue'[d] = c_runqueue[d]
  BY <1>3, Zenon DEF SchedInv, Types
<1>5. /\ Ready(k)' = Ready(k) \cup {t}
      /\ \A d \in Cpus : d # k => Ready(d)' = Ready(d)
      /\ \A d \in Cpus : Len(c_runqueue'[d]) \in Nat /\ Len(c_runqueue[d]) <= Len(c_runqueue'[d])
  <2>1. Ready(k)' = Ready(k) \cup {t} /\ \A d \in Cpus : d # k => Ready(d)' = Ready(d)
    BY <1>3, <1>4, Zenon DEF Ready
  <2>2. \A d \in Cpus : c_runqueue[d] \in Seq(Threads) /\ c_runqueue'[d] \in Seq(Threads)
    BY <1>4, Zenon DEF SchedInv, Types
  <2> QED
    BY <1>3, <1>4, <2>1, <2>2
<1>6. /\ cpc' \in [Cpus -> CpuLabels] /\ migration' \in [Cpus -> Locals]
      /\ cpc'[c] = x /\ migration'[c] = m
      /\ \A d \in Cpus : Idling(d)' = Idling(d) /\ Moving(d)' = Moving(d)
      /\ \A d \in Cpus : cpc'[d] = "tail" <=> cpc[d] = "tail"
      /\ \A d \in Cpus : migration'[d].victims = migration[d].victims
  <2>1. /\ cpc' \in [Cpus -> CpuLabels] /\ migration' \in [Cpus -> Locals]
        /\ cpc'[c] = x /\ migration'[c] = m
        /\ \A d \in Cpus : d # c =>
             /\ cpc'[d] = cpc[d] /\ migration'[d] = migration[d]
             /\ Idling(d)' = Idling(d) /\ Moving(d)' = Moving(d)
    BY OthersStay, Zenon DEF SchedInv
  <2>2. migration'[c].victims = migration[c].victims /\ Moving(c)' = Moving(c)
    BY <2>1, Zenon DEF Moving
  <2>3. cpc'[c] # "tail"
    BY <2>1, Zenon
  <2> QED
    BY <2>1, <2>2, <2>3, Zenon
<1>7. /\ t_state' \in [Threads -> States] /\ t_state'[t] = "READY"
      /\ t_cpu' \in [Threads -> Cpus] /\ t_cpu'[t] = k
      /\ \A u \in Threads : u # t => t_state'[u] = t_state[u] /\ t_cpu'[u] = t_cpu[u]
  BY Zenon DEF SchedInv, Types, States
<1>8. Types'
  BY <1>4, <1>6, <1>7, Zenon DEF SchedInv, Types
<1>9. QueuesLocked'
  <2>1. LockHeld(c)'
    BY <1>6, Zenon DEF LockHeld
  <2> QED
    BY <2>1, LocksKept, Zenon
<1>10. MigrationFits'
  BY <1>5, OthersFit, Zenon
<1>11. IdleIsNoted'
  BY <1>6, Zenon DEF SchedInv, IdleIsNoted
<1>12. ListedOnce'
  BY <1>3, <1>4, <1>6, Zenon DEF SchedInv, ListedOnce
<1>13. ListsMatch'
  <2>1. ASSUME NEW d \in Cpus, NEW u \in Ready(d)' \cup Moving(d)'
        PROVE  t_state'[u] = "READY" /\ t_cpu'[u] = d /\ ~(u \in Ready(d)' /\ u \in Moving(d)')
    <3>1. CASE u = t
      BY <1>1, <1>5, <1>6, <1>7, <2>1, <3>1, ZenonT(60)
    <3>2. CASE u # t
      <4>1. (u \in Ready(d)' <=> u \in Ready(d)) /\ (u \in Moving(d)' <=> u \in Moving(d))
        BY <1>5, <1>6, <3>2, Zenon
      <4>2. u \in Threads
        BY <2>1, <4>1, ListedAreThreads, Zenon DEF SchedInv
      <4> QED
        BY <1>7, <2>1, <3>2, <4>1, <4>2 DEF SchedInv, ListsMatch
    <3> QED
      BY <3>1, <3>2, Zenon
  <2>2. ASSUME NEW u \in Asleep' PROVE t_state'[u] = "SLEEP"
    BY <1>7, <2>2, ListedAreThreads, ZenonT(60) DEF SchedInv, ListsMatch
  <2>3. ASSUME NEW d \in Cpus, NEW u \in c_zombies'[d]
        PROVE  t_state'[u] = "ZOMBIE" /\ t_cpu'[u] = d
    <3>1. u \in Threads /\ u # t /\ t_state[u] = "ZOMBIE" /\ t_cpu[u] = d
      BY <1>1, <2>3, ListedAreThreads DEF SchedInv, ListsMatch
    <3> QED
      BY <1>7, <3>1, Zenon
  <2> QED
    BY <2>1, <2>2, <2>3, Zenon DEF ListsMatch
<1>14. StacksMatch'
  <2> SUFFICES ASSUME NEW d \in Cpus
               PROVE  /\ t_cpu'[curthread[d]] = d
                      /\ Idling(d) => t_state'[curthread[d]] \in {"READY", "SLEEP", "ZOMBIE"}
                      /\ cpc[d] = "tail" => /\ t_state'[curthread[d]] = "READY"
                                            /\ curthread[d] \notin Ready(d)' \cup Moving(d)
                      /\ ~Idling(d) /\ cpc[d] # "tail" => t_state'[curthread[d]] = "RUN"
    BY <1>6 DEF StacksMatch
  <2>1. curthread[d] \in Threads
    BY Zenon DEF SchedInv, Types
  <2>2. CASE curthread[d] # t
    <3>1. d = k \/ Ready(d)' = Ready(d)
      BY <1>5, Zenon
    <3> QED
      BY <1>5, <1>7, <2>1, <2>2, <3>1, ZenonT(60) DEF SchedInv, StacksMatch
  <2>3. CASE curthread[d] = t
    <3>1. t_state[t] = "SLEEP" /\ t_cpu[t] = k /\ Idling(d) /\ d = k /\ cpc[d] # "tail"
      BY <2>3, Zenon DEF SchedInv, StacksMatch
    <3> QED
      BY <1>7, <2>3, <3>1, Zenon
  <2> QED
    BY <2>2, <2>3, Zenon
<1>15. NoneLost'
  <2>1. UNCHANGED <<curthread, c_zombies>>
    OBVIOUS
  <2>2. \A d \in Cpus : Ready(d) \subseteq Ready(d)'
    BY <1>5, Zenon
  <2>3. \A u \in Threads : t_cpu[u] \in Cpus
    BY Zenon DEF SchedInv, Types
  <2>4. t \in Ready(k)'
    BY <1>5, Zenon
  <2>5. \A u \in Asleep : u # t => u \in Asleep'
    OBVIOUS
  <2>6. ASSUME NEW u \in Threads
        PROVE  /\ t_state'[u] = "READY" =>
                    \/ u \in Elems(c_runqueue'[t_cpu'[u]]) \cup Elems(migration'[t_cpu'[u]].victims)
                    \/ cpc'[t_cpu'[u]] = "tail" /\ curthread'[t_cpu'[u]] = u
               /\ t_state'[u] = "SLEEP" => u \in Asleep'
               /\ t_state'[u] = "ZOMBIE" => u \in c_zombies'[t_cpu'[u]]
               /\ t_state'[u] = "RUN" => curthread'[t_cpu'[u]] = u
    <3>1. CASE u = t
      BY <1>7, <2>4, <3>1, Zenon DEF Ready
    <3>2. CASE u # t
      <4>1. t_state'[u] = t_state[u] /\ t_cpu'[u] = t_cpu[u] /\ t_cpu[u] \in Cpus
        BY <1>7, <2>3, <3>2, Zenon
      <4>2. /\ Ready(t_cpu[u]) \subseteq Elems(c_runqueue'[t_cpu[u]])
            /\ Moving(t_cpu[u]) = Elems(migration'[t_cpu[u]].victims)
        BY <1>6, <2>2, <4>1, Zenon DEF Ready, Moving
      <4> QED
        BY <1>6, <2>1, <2>5, <3>2, <4>1, <4>2, SMTT(60) DEF SchedInv, NoneLost
    <3> QED
      BY <3>1, <3>2, Zenon
  <2> QED
    BY <2>6, Zenon DEF NoneLost, Ready, Moving
<1> QED
  BY <1>8, <1>9, <1>10, <1>11, <1>12, <1>13, <1>14, <1>15, Zenon DEF SchedInv

(* thread_fork.                                                            *)
LEMMA ForkStep ==
  ASSUME SchedInv, NEW c \in Cpus, NEW t \in Threads, thread_fork(c, t)
  PROVE  SchedInv'
<1>1. migration[c] \in Locals /\ StepTo(c, "run", migration[c]) /\ cpc[c] = "run"
  BY LocalsStay, Zenon DEF SchedInv, thread_fork, Goto
<1>2. cpc'[c] = "run" /\ migration'[c] = migration[c]
  BY <1>1, OthersStay, ZenonT(60) DEF SchedInv, CpuLabels
<1>3. Fits(c)' /\ Idling(c)' = Idling(c)
  BY <1>1, <1>2, Zenon DEF SchedInv, MigrationFits, Fits, Idling, Migrating
<1>4. /\ t_state[t] = "NONE"
      /\ t_state' = [t_state EXCEPT ![t] = "READY"]
      /\ t_cpu' = [t_cpu EXCEPT ![t] = c]
      /\ c_runqueue' = [c_runqueue EXCEPT ![c] = Append(@, t)]
      /\ UNCHANGED <<curthread, c_isidle, c_zombies, wchan, c_runqueue_lock, wchan_lock, ipi>>
  BY Zenon DEF thread_fork, Enqueue, locks
<1>5. /\ wchan' \in Seq(Threads) /\ Once(wchan') /\ Asleep' = Asleep \ {t}
      /\ wchan_lock' \in Cpus \cup {None} /\ ipi' \in [Cpus -> BOOLEAN]
  BY <1>4 DEF SchedInv, Types, ListedOnce, ListsMatch, Asleep
<1> QED
  BY <1>1, <1>3, <1>4, <1>5, ReadyStep, Zenon DEF CpuLabels

(* wchan_wakeone.                                                          *)
LEMMA WakeStep ==
  ASSUME SchedInv, NEW c \in Cpus, wchan_wakeone(c)
  PROVE  SchedInv'
<1> DEFINE x == migration[c].ret
           m == [migration[c] EXCEPT !.ret = "run"]
<1>1. cpc[c] = "wake" /\ x \in {"run", "relock"} /\ migration[c] \in Locals /\ Fits(c)
  BY Zenon DEF SchedInv, Types, MigrationFits, Fits, wchan_wakeone, Goto
<1>2. /\ m \in Locals /\ m.ret = "run" /\ m.i = migration[c].i /\ m.my = migration[c].my
      /\ m.send = migration[c].send /\ m.victims = migration[c].victims
  BY <1>1, SetRet, Zenon
<1>3. StepTo(c, x, m) /\ wchan_lock' \in Cpus \cup {None}
  BY Zenon DEF wchan_wakeone, Goto, StepTo
<1>4. x \in CpuLabels
  BY <1>1, Zenon DEF CpuLabels
<1> HIDE DEF m
<1>5. cpc'[c] = x /\ migration'[c] = m
  BY <1>2, <1>3, <1>4, OthersStay, Zenon DEF SchedInv
<1>6. Fits(c)' /\ LockHeld(c)' /\ Idling(c)' = Idling(c)
  BY <1>1, <1>2, <1>5, Zenon DEF Fits, LockHeld, Idling, Migrating
<1>7. UNCHANGED <<curthread, c_isidle, c_zombies, c_runqueue_lock, t_cpu>>
  BY Zenon DEF wchan_wakeone
<1>8. x \notin {"tail", "pick", "giving", "count"} /\ cpc[c] # "tail"
  BY <1>1, Zenon
<1> HIDE DEF x
<1>9. CASE wchan = << >>
  <2>1. UNCHANGED <<c_runqueue, t_state, ipi, wchan>>
    BY <1>9, Zenon DEF wchan_wakeone
  <2>2. UNCHANGED <<curthread, c_isidle, queues, thrd>>
    BY <1>7, <2>1, Zenon DEF queues, thrd
  <2> QED
    BY <1>2, <1>3, <1>4, <1>6, <1>7, <1>8, <2>1, <2>2, QuietStep, Zenon DEF SchedInv, Types
<1>10. CASE wchan # << >>
  <2> DEFINE t == Head(wchan)
             k == t_cpu[t]
  <2>1. /\ thread_make_runnable(c, t) /\ wchan' = Tail(wchan)
    BY <1>10, Zenon DEF wchan_wakeone
  <2>2. wchan \in Seq(Threads) /\ Once(wchan)
    BY Zenon DEF SchedInv, Types, ListedOnce
  <2>3. /\ t \in Threads /\ t \in Asleep
        /\ wchan' \in Seq(Threads) /\ Once(wchan') /\ Asleep' = Asleep \ {t}
    BY <1>10, <2>1, <2>2, TailElems, Zenon DEF Asleep
  <2> HIDE DEF t
  <2>4. t_state[t] = "SLEEP" /\ k \in Cpus /\ t_cpu' = [t_cpu EXCEPT ![t] = k]
    BY <1>7, <2>3, Zenon DEF SchedInv, Types, ListsMatch
  <2>5. /\ t_state' = [t_state EXCEPT ![t] = "READY"]
        /\ c_runqueue' = [c_runqueue EXCEPT ![k] = Append(@, t)]
        /\ ipi' \in [Cpus -> BOOLEAN]
    BY <2>1, <2>4, Zenon DEF thread_make_runnable, Enqueue, Notify, SchedInv, Types
  <2> QED
    BY <1>2, <1>3, <1>4, <1>6, <1>7, <1>8, <2>3, <2>4, <2>5, ReadyStep, Zenon
<1> QED
  BY <1>9, <1>10, Zenon

(* thread_consider_migration: ready threads go from the queue of a cpu to  *)
(* the list of what it sends, or back.                                     *)
LEMMA ShuffleStep ==
  ASSUME SchedInv, NEW c \in Cpus, NEW x \in CpuLabels, NEW m \in Locals, StepTo(c, x, m),
         NEW r \in Seq(Threads), c_runqueue' = [c_runqueue EXCEPT ![c] = r],
         Once(r), Once(m.victims), \A t \in Elems(r) : t \notin Elems(m.victims),
         Elems(r) \cup Elems(m.victims) = Ready(c) \cup Moving(c),
         UNCHANGED <<curthread, c_isidle, c_zombies, wchan, c_runqueue_lock, wchan_lock, ipi,
                     t_state, t_cpu>>,
         LockHeld(c)', Fits(c)', x # "tail", cpc[c] # "tail", Idling(c)' = Idling(c)
  PROVE  SchedInv'
<1>1. /\ cpc' \in [Cpus -> CpuLabels] /\ migration' \in [Cpus -> Locals]
      /\ cpc'[c] = x /\ migration'[c] = m
      /\ \A d \in Cpus : d # c =>
           /\ cpc'[d] = cpc[d] /\ migration'[d] = migration[d]
           /\ Idling(d)' = Idling(d) /\ Moving(d)' = Moving(d)
  BY OthersStay, Zenon DEF SchedInv
<1>2. /\ c_runqueue' \in [Cpus -> Seq(Threads)] /\ c_runqueue'[c] = r
      /\ \A d \in Cpus : d # c => c_runqueue'[d] = c_runqueue[d]
  BY Zenon DEF SchedInv, Types
<1>3. /\ Ready(c)' = Elems(r) /\ Moving(c)' = Elems(m.victims)
      /\ \A d \in Cpus : d # c => Ready(d)' = Ready(d)
      /\ Asleep' = Asleep
  BY <1>1, <1>2, Zenon DEF Ready, Moving, Asleep
<1>4. /\ \A d \in Cpus : Idling(d)' = Idling(d)
      /\ \A d \in Cpus : cpc'[d] = "tail" <=> cpc[d] = "tail"
      /\ \A d \in Cpus : Ready(d)' \cup Moving(d)' = Ready(d) \cup Moving(d)
  BY <1>1, <1>3, Zenon
<1>5. Types'
  BY <1>1, <1>2, Zenon DEF SchedInv, Types
<1>6. QueuesLocked'
  BY LocksKept, Zenon
<1>7. MigrationFits'
  <2>1. \A d \in Cpus : d # c => /\ Len(c_runqueue'[d]) \in Nat
                                 /\ Len(c_runqueue[d]) <= Len(c_runqueue'[d])
    <3>1. \A d \in Cpus : c_runqueue[d] \in Seq(Threads)
      BY Zenon DEF SchedInv, Types
    <3> QED
      BY <1>2, <3>1, LenIsNat, Zenon
  <2> QED
    BY <2>1, OthersFit, Zenon
<1>8. IdleIsNoted'
  BY <1>4, Zenon DEF SchedInv, IdleIsNoted
<1>9. ListedOnce'
  BY <1>1, <1>2, Zenon DEF SchedInv, ListedOnce
<1>10. ListsMatch'
  <2>1. ASSUME NEW d \in Cpus, NEW t \in Ready(d)' PROVE t \notin Moving(d)'
    <3>1. CASE d = c
      BY <1>3, <2>1, <3>1, Zenon
    <3>2. CASE d # c
      BY <1>1, <1>3, <2>1, <3>2, SMTT(60) DEF SchedInv, ListsMatch
    <3> QED
      BY <3>1, <3>2, Zenon
  <2>2. ASSUME NEW d \in Cpus, NEW t \in Ready(d)' \cup Moving(d)'
        PROVE  t_state[t] = "READY" /\ t_cpu[t] = d
    BY <1>4, <2>2, ZenonT(60) DEF SchedInv, ListsMatch
  <2> QED
    BY <1>3, <2>1, <2>2, ZenonT(60) DEF SchedInv, ListsMatch
<1>11. StacksMatch'
  BY <1>4, ZenonT(60) DEF SchedInv, StacksMatch
<1>12. NoneLost'
  BY <1>3, <1>4, Zenon DEF SchedInv, Types, NoneLost
<1> QED
  BY <1>5, <1>6, <1>7, <1>8, <1>9, <1>10, <1>11, <1>12, Zenon DEF SchedInv

(* The tail of the queue is cut off.                                       *)
LEMMA TakeStep ==
  ASSUME SchedInv, NEW c \in Cpus, TakeVictims(c)
  PROVE  SchedInv'
<1> DEFINE o == migration[c]
           q == c_runqueue[c]
           n == o.my - OneShare(o)
           a == SubSeq(q, 1, Len(q) - n)
           b == SubSeq(q, Len(q) - n + 1, Len(q))
           m == [o EXCEPT !.i = 0, !.send = n, !.victims = b]
<1>1. /\ cpc[c] = "count" /\ StepTo(c, "give", m)
      /\ c_runqueue' = [c_runqueue EXCEPT ![c] = a]
      /\ UNCHANGED <<curthread, c_isidle, c_zombies, wchan, locks, ipi, thrd>>
      /\ o.my >= OneShare(o)
  BY Zenon DEF TakeVictims, Goto, StepTo
<1>2. /\ o \in Locals /\ o.my <= Len(q) /\ o.victims = << >> /\ o.ret \in {"yield", "relock"}
      /\ q \in Seq(Threads) /\ Once(q)
  BY <1>1, Zenon DEF SchedInv, Types, MigrationFits, Fits, Migrating, ListedOnce
<1>3. n \in 0 .. Len(q) /\ n \in Nat
  <2>1. o.my \in Nat /\ OneShare(o) \in Nat /\ Len(q) \in Nat
    BY <1>2, ShareIsNat DEF Locals
  <2> QED
    BY <1>1, <1>2, <2>1
<1>4. /\ a \in Seq(Threads) /\ b \in Seq(Threads) /\ Len(b) = n
      /\ Elems(a) \cup Elems(b) = Elems(q)
      /\ Once(a) /\ Once(b) /\ \A t \in Elems(a) : t \notin Elems(b)
  <2> HIDE DEF n, q
  <2> QED
    BY <1>2, <1>3, CutElems, Zenon
<1> HIDE DEF a, b, n, o
<1>5. m \in Locals /\ m.ret = o.ret /\ m.send = n /\ m.victims = b
  BY <1>2, <1>3, <1>4, Zenon DEF Locals
<1> HIDE DEF m
<1>6. cpc'[c] = "give" /\ migration'[c] = m
  BY <1>1, <1>5, OthersStay, Zenon DEF SchedInv, CpuLabels
<1>7. LockHeld(c)' /\ Fits(c)' /\ Idling(c)' = Idling(c)
  BY <1>1, <1>2, <1>3, <1>4, <1>5, <1>6 DEF LockHeld, Fits, Idling, Migrating, o
<1>8. Elems(a) \cup Elems(m.victims) = Ready(c) \cup Moving(c)
  BY <1>2, <1>4, <1>5, NoElems, Zenon DEF Ready, Moving, o
<1>9. UNCHANGED <<curthread, c_isidle, c_zombies, wchan, c_runqueue_lock, wchan_lock, ipi,
                  t_state, t_cpu>>
  BY <1>1, Zenon DEF locks, thrd
<1> QED
  BY <1>1, <1>4, <1>5, <1>7, <1>8, <1>9, ShuffleStep, Zenon DEF CpuLabels

(* What is left over goes back.                                            *)
LEMMA PutBackStep ==
  ASSUME SchedInv, NEW c \in Cpus, PutBack(c)
  PROVE  SchedInv'
<1> DEFINE x == migration[c].ret
           q == c_runqueue[c]
           v == migration[c].victims
           r == q \o v
<1>1. /\ cpc[c] = "give" /\ StepTo(c, x, Idle)
      /\ c_runqueue' = [c_runqueue EXCEPT ![c] = r]
      /\ UNCHANGED <<curthread, c_isidle, c_zombies, wchan, locks, ipi, thrd>>
  BY Zenon DEF PutBack, Goto, StepTo
<1>2. /\ x \in {"yield", "relock"}
      /\ q \in Seq(Threads) /\ v \in Seq(Threads) /\ Once(q) /\ Once(v)
      /\ \A t \in Elems(q) : t \notin Elems(v)
  BY <1>1, ZenonT(60) DEF SchedInv, Types, Locals, MigrationFits, Fits, Migrating, ListedOnce, ListsMatch,
              Ready, Moving
<1>3. /\ r \in Seq(Threads) /\ Once(r) /\ Elems(r) = Elems(q) \cup Elems(v)
  <2> HIDE DEF q, v
  <2> QED
    BY <1>2, ConcatElems, Zenon
<1> HIDE DEF r
<1>4. cpc'[c] = x /\ migration'[c] = Idle
  BY <1>1, <1>2, IdleLocals, OthersStay DEF SchedInv, CpuLabels
<1>5. LockHeld(c)' /\ Fits(c)' /\ Idling(c)' = Idling(c)
  BY <1>1, <1>2, <1>4, IdleLocals DEF LockHeld, Fits, Idling, Migrating
<1>6. UNCHANGED <<curthread, c_isidle, c_zombies, wchan, c_runqueue_lock, wchan_lock, ipi,
                  t_state, t_cpu>>
  BY <1>1, Zenon DEF locks, thrd
<1>7. /\ Once(Idle.victims) /\ \A t \in Elems(r) : t \notin Elems(Idle.victims)
      /\ Elems(r) \cup Elems(Idle.victims) = Ready(c) \cup Moving(c)
  BY <1>3, IdleLocals, NoElems, Zenon DEF Ready, Moving
<1>8. x \in CpuLabels /\ x # "tail" /\ cpc[c] # "tail"
  BY <1>1, <1>2, Zenon DEF CpuLabels
<1> HIDE DEF x
<1> QED
  BY <1>1, <1>3, <1>5, <1>6, <1>7, <1>8, IdleLocals, ShuffleStep, Zenon

(* The next victim is given to cpu k, which is locked: it belongs to k     *)
(* from now on.                                                            *)
LEMMA MoveStep ==
  ASSUME SchedInv, NEW c \in Cpus, NEW m \in Locals, StepTo(c, "giving", m), cpc[c] = "giving",
         NEW k \in Cpus, k # c, NEW t \in Moving(c), t # curthread[c],
         Once(m.victims), Elems(m.victims) = Moving(c) \ {t},
         t_cpu' = [t_cpu EXCEPT ![t] = k],
         c_runqueue' = [c_runqueue EXCEPT ![k] = Append(@, t)],
         ipi' \in [Cpus -> BOOLEAN],
         UNCHANGED <<curthread, c_isidle, c_zombies, wchan, c_runqueue_lock, wchan_lock, t_state>>,
         LockHeld(c)', Fits(c)', Idling(c)' = Idling(c)
  PROVE  SchedInv'
<1> DEFINE q == c_runqueue[k]
<1>1. /\ cpc' \in [Cpus -> CpuLabels] /\ migration' \in [Cpus -> Locals]
      /\ cpc'[c] = "giving" /\ migration'[c] = m
      /\ \A d \in Cpus : d # c =>
           /\ cpc'[d] = cpc[d] /\ migration'[d] = migration[d]
           /\ Idling(d)' = Idling(d) /\ Moving(d)' = Moving(d)
  BY OthersStay, Zenon DEF SchedInv, CpuLabels
<1>2. t \in Threads /\ t_state[t] = "READY" /\ t_cpu[t] = c
  BY ListedAreThreads, ZenonT(60) DEF SchedInv, ListsMatch
<1>3. \A d \in Cpus : t \notin Ready(d) /\ t \notin c_zombies[d] /\ (d # c => t \notin Moving(d))
  BY <1>2, ZenonT(60) DEF SchedInv, ListsMatch
<1>4. /\ Append(q, t) \in Seq(Threads) /\ Once(Append(q, t))
      /\ Len(Append(q, t)) = Len(q) + 1 /\ Len(q) \in Nat
      /\ Elems(Append(q, t)) = Ready(k) \cup {t}
  <2>1. q \in Seq(Threads) /\ Once(q) /\ t \notin Elems(q)
    BY <1>3, Zenon DEF SchedInv, Types, ListedOnce, Ready
  <2> QED
    BY <1>2, <2>1, AppendElems DEF Ready
<1>5. /\ c_runqueue' \in [Cpus -> Seq(Threads)] /\ c_runqueue'[k] = Append(q, t)
      /\ \A d \in Cpus : d # k => c_runqueue'[d] = c_runqueue[d]
  BY <1>4, Zenon DEF SchedInv, Types
<1>6. /\ Ready(k)' = Ready(k) \cup {t} /\ Moving(c)' = Moving(c) \ {t}
      /\ \A d \in Cpus : d # k => Ready(d)' = Ready(d)
      /\ Asleep' = Asleep
  BY <1>1, <1>4, <1>5, Zenon DEF Ready, Moving, Asleep
<1>7. /\ t_cpu' \in [Threads -> Cpus] /\ t_cpu'[t] = k
      /\ \A u \in Threads : u # t => t_cpu'[u] = t_cpu[u]
  BY <1>2, Zenon DEF SchedInv, Types
<1>8. /\ \A d \in Cpus : Idling(d)' = Idling(d)
      /\ \A d \in Cpus : cpc'[d] = cpc[d]
  BY <1>1, Zenon
<1>9. \A d \in Cpus : curthread[d] \in Threads /\ curthread[d] # t
  BY <1>2, ZenonT(60) DEF SchedInv, Types, StacksMatch
<1>10. Types'
  BY <1>1, <1>5, <1>7, Zenon DEF SchedInv, Types
<1>11. QueuesLocked'
  BY LocksKept, Zenon DEF CpuLabels
<1>12. MigrationFits'
  <2>1. \A d \in Cpus : /\ Len(c_runqueue'[d]) \in Nat
                        /\ Len(c_runqueue[d]) <= Len(c_runqueue'[d])
    <3>1. \A d \in Cpus : c_runqueue[d] \in Seq(Threads)
      BY Zenon DEF SchedInv, Types
    <3> QED
      BY <1>4, <1>5, <3>1
  <2> QED
    BY <2>1, OthersFit, Zenon DEF CpuLabels
<1>13. IdleIsNoted'
  BY <1>8, Zenon DEF SchedInv, IdleIsNoted
<1>14. ListedOnce'
  BY <1>1, <1>4, <1>5, Zenon DEF SchedInv, ListedOnce
<1>15. ListsMatch'
  <2>1. ASSUME NEW d \in Cpus, NEW u \in Ready(d)' \cup Moving(d)'
        PROVE  t_state[u] = "READY" /\ t_cpu'[u] = d /\ ~(u \in Ready(d)' /\ u \in Moving(d)')
    <3>1. CASE u = t
      <4>1. d = k
        BY <1>1, <1>3, <1>6, <2>1, <3>1, Zenon
      <4> QED
        BY <1>1, <1>2, <1>3, <1>7, <3>1, <4>1, Zenon
    <3>2. CASE u # t
      <4>1. (u \in Ready(d)' <=> u \in Ready(d)) /\ (u \in Moving(d)' <=> u \in Moving(d))
        BY <1>1, <1>6, <3>2, Zenon
      <4>2. u \in Threads
        BY <2>1, <4>1, ListedAreThreads, Zenon DEF SchedInv
      <4> QED
        BY <1>7, <2>1, <3>2, <4>1, <4>2, SMTT(60) DEF SchedInv, ListsMatch
    <3> QED
      BY <3>1, <3>2, Zenon
  <2>2. ASSUME NEW d \in Cpus, NEW u \in c_zombies[d]
        PROVE  t_state[u] = "ZOMBIE" /\ t_cpu'[u] = d
    <3>1. u \in Threads /\ u # t /\ t_state[u] = "ZOMBIE" /\ t_cpu[u] = d
      BY <1>3, ListedAreThreads DEF SchedInv, ListsMatch
    <3> QED
      BY <1>7, <3>1, Zenon
  <2> QED
    BY <1>6, <2>1, <2>2, Zenon DEF SchedInv, ListsMatch
<1>16. StacksMatch'
  <2> SUFFICES ASSUME NEW d \in Cpus
               PROVE  /\ t_cpu'[curthread[d]] = d
                      /\ Idling(d) => t_state[curthread[d]] \in {"READY", "SLEEP", "ZOMBIE"}
                      /\ cpc[d] = "tail" => /\ t_state[curthread[d]] = "READY"
                                            /\ curthread[d] \notin Ready(d)' \cup Moving(d)'
                      /\ ~Idling(d) /\ cpc[d] # "tail" => t_state[curthread[d]] = "RUN"
    BY <1>8, ZenonT(60) DEF StacksMatch
  <2>1. curthread[d] \in Ready(d)' \cup Moving(d)' => curthread[d] \in Ready(d) \cup Moving(d)
    BY <1>1, <1>6, <1>9, Zenon
  <2> QED
    BY <1>7, <1>9, <2>1, Zenon DEF SchedInv, StacksMatch
<1>17. NoneLost'
  <2>1. ASSUME NEW u \in Threads
        PROVE  /\ t_state[u] = "READY" =>
                    \/ u \in Elems(c_runqueue'[t_cpu'[u]]) \cup Elems(migration'[t_cpu'[u]].victims)
                    \/ cpc'[t_cpu'[u]] = "tail" /\ curthread[t_cpu'[u]] = u
               /\ t_state[u] = "SLEEP" => u \in Asleep
               /\ t_state[u] = "ZOMBIE" => u \in c_zombies[t_cpu'[u]]
               /\ t_state[u] = "RUN" => curthread[t_cpu'[u]] = u
    <3>1. CASE u = t
      BY <1>2, <1>6, <1>7, <3>1, Zenon DEF Ready
    <3>2. CASE u # t
      <4>1. t_cpu'[u] = t_cpu[u] /\ t_cpu[u] \in Cpus
        BY <1>7, <3>2, Zenon DEF SchedInv, Types
      <4>2. u \in Ready(t_cpu[u]) \cup Moving(t_cpu[u]) =>
              u \in Elems(c_runqueue'[t_cpu[u]]) \cup Elems(migration'[t_cpu[u]].victims)
        BY <1>1, <1>6, <3>2, <4>1, Zenon DEF Ready, Moving
      <4> QED
        BY <1>8, <3>2, <4>1, <4>2 DEF SchedInv, NoneLost
    <3> QED
      BY <3>1, <3>2, Zenon
  <2> QED
    BY <1>6, <2>1, Zenon DEF NoneLost, Ready, Moving
<1> QED
  BY <1>10, <1>11, <1>12, <1>13, <1>14, <1>15, <1>16, <1>17, Zenon DEF SchedInv

(* GiveVictim: a victim is given away, or passed over.                     *)
LEMMA GiveStep ==
  ASSUME SchedInv, NEW c \in Cpus, GiveVictim(c)
  PROVE  SchedInv'
<1> DEFINE o == migration[c]
           v == o.victims
           t == Head(v)
           k == o.i
           n == o.send - 1
<1>1. cpc[c] = "giving" /\ cpc' = [cpc EXCEPT ![c] = "giving"] /\ o.send > 0
      /\ UNCHANGED <<curthread, c_isidle, c_zombies, wchan, c_runqueue_lock, wchan_lock, t_state>>
  BY Zenon DEF GiveVictim, Goto, RoomAt, locks
<1>2. /\ o \in Locals /\ v \in Seq(Threads) /\ Once(v) /\ o.send \in Nat
      /\ o.send <= Len(v) /\ o.ret \in {"yield", "relock"}
  BY <1>1, Zenon DEF SchedInv, Types, Locals, MigrationFits, Fits, Migrating, ListedOnce
<1>3. k \in Cpus /\ k # c /\ c_runqueue_lock[k] = c
  BY <1>1, Zenon DEF SchedInv, QueuesLocked, LockHeld
<1>4. v # << >>
  BY <1>1, <1>2
<1>5. /\ t \in Threads /\ t \in Elems(v) /\ Tail(v) \in Seq(Threads) /\ Once(Tail(v))
      /\ Elems(Tail(v)) = Elems(v) \ {t} /\ Len(v) \in Nat /\ Len(Tail(v)) = Len(v) - 1
  <2> HIDE DEF v
  <2> QED
    BY <1>2, <1>4, TailElems, Zenon
<1>6. Elems(v) = Moving(c) /\ n \in Nat /\ n <= Len(Tail(v))
  <2>1. Elems(v) = Moving(c)
    BY Zenon DEF Moving
  <2> HIDE DEF v
  <2> QED
    BY <1>1, <1>2, <1>5, <2>1
<1>7. CASE Movable(c, t)
  <2> DEFINE w == Tail(v)
             m == [o EXCEPT !.victims = w, !.send = n]
  <2>1. /\ migration' = [migration EXCEPT ![c] = m]
        /\ t_cpu' = [t_cpu EXCEPT ![t] = k]
        /\ Enqueue(k, t) /\ Notify(c, k)
    BY <1>7, Zenon DEF GiveVictim
  <2> HIDE DEF w, o, n
  <2>2. m \in Locals /\ m.ret = o.ret /\ m.i = o.i /\ m.send = n /\ m.victims = w
    BY <1>2, <1>5, <1>6, Zenon DEF Locals, w
  <2> HIDE DEF m
  <2>3. StepTo(c, "giving", m) /\ cpc'[c] = "giving" /\ migration'[c] = m
    BY <1>1, <2>1, <2>2, OthersStay, Zenon DEF SchedInv, CpuLabels, StepTo
  <2>4. LockHeld(c)' /\ Fits(c)' /\ Idling(c)' = Idling(c)
    BY <1>1, <1>2, <1>3, <1>6, <2>2, <2>3, Zenon DEF LockHeld, Fits, Idling, Migrating, w, o
  <2>5. /\ c_runqueue' = [c_runqueue EXCEPT ![k] = Append(@, t)]
        /\ ipi' \in [Cpus -> BOOLEAN]
    BY <1>3, <2>1, Zenon DEF Enqueue, Notify, SchedInv, Types
  <2>6. /\ Once(m.victims) /\ Elems(m.victims) = Moving(c) \ {t} /\ t \in Moving(c)
    BY <1>5, <1>6, <2>2, Zenon DEF w
  <2>7. t # curthread[c]
    BY <1>7, Zenon DEF Movable
  <2> HIDE DEF t, k
  <2> QED
    BY <1>1, <1>3, <2>1, <2>2, <2>3, <2>4, <2>5, <2>6, <2>7, MoveStep, Zenon
<1>8. CASE ~Movable(c, t)
  <2> DEFINE w == Append(Tail(v), t)
             m == [o EXCEPT !.victims = w, !.send = n]
             q == c_runqueue[c]
  <2>1. migration' = [migration EXCEPT ![c] = m] /\ UNCHANGED <<t_cpu, c_runqueue, ipi>>
    BY <1>8, Zenon DEF GiveVictim
  <2>2. /\ w \in Seq(Threads) /\ Once(w) /\ n <= Len(w) /\ Elems(w) = Moving(c)
    <3>1. t \notin Elems(Tail(v))
      BY <1>5, Zenon
    <3>2. /\ w \in Seq(Threads) /\ Once(w) /\ Len(w) = Len(Tail(v)) + 1
          /\ Elems(w) = Elems(Tail(v)) \cup {t}
      <4> HIDE DEF v, t
      <4> QED
        BY <1>5, <3>1, AppendElems, Zenon
    <3>3. n <= Len(w)
      <4>1. Len(Tail(v)) \in Nat
        BY <1>5
      <4> HIDE DEF w, n
      <4> QED
        BY <1>6, <3>2, <4>1
    <3>4. Elems(w) = Moving(c)
      BY <1>5, <1>6, <3>2, Zenon
    <3> QED
      BY <3>2, <3>3, <3>4, Zenon
  <2> HIDE DEF w, o, n
  <2>3. m \in Locals /\ m.ret = o.ret /\ m.i = o.i /\ m.send = n /\ m.victims = w
    BY <1>2, <1>6, <2>2, Zenon DEF Locals
  <2> HIDE DEF m
  <2>4. StepTo(c, "giving", m) /\ cpc'[c] = "giving" /\ migration'[c] = m
    BY <1>1, <2>1, <2>3, OthersStay, Zenon DEF SchedInv, CpuLabels, StepTo
  <2>5. LockHeld(c)' /\ Fits(c)' /\ Idling(c)' = Idling(c)
    BY <1>1, <1>2, <1>3, <1>6, <2>2, <2>3, <2>4, Zenon DEF LockHeld, Fits, Idling, Migrating, o
  <2>6. /\ q \in Seq(Threads) /\ Once(q) /\ c_runqueue' = [c_runqueue EXCEPT ![c] = q]
        /\ \A u \in Elems(q) : u \notin Elems(m.victims)
        /\ Elems(q) \cup Elems(m.victims) = Ready(c) \cup Moving(c)
    BY <2>1, <2>2, <2>3 DEF SchedInv, Types, ListedOnce, ListsMatch, Ready
  <2> HIDE DEF q
  <2> QED
    BY <1>1, <2>1, <2>2, <2>3, <2>4, <2>5, <2>6, ShuffleStep, Zenon DEF CpuLabels
<1> QED
  BY <1>7, <1>8, Zenon
----------------------------------------------------------------------------
(* thread_bootstrap: every cpu runs its boot thread, and no other exists.  *)
LEMMA SchedInit == Init => SchedInv
<1> SUFFICES ASSUME Init PROVE SchedInv
  OBVIOUS
<1>1. ASSUME NEW t \in Threads
      PROVE  /\ t_cpu[t] \in Cpus /\ t_state[t] \in {"RUN", "NONE"}
             /\ \A c \in Cpus : boot[c] = t => t_cpu[t] = c /\ t_state[t] = "RUN"
             /\ t_state[t] = "RUN" => boot[t_cpu[t]] = t
  <2>1. CASE \E c \in Cpus : boot[c] = t
    <3> DEFINE e == CHOOSE c \in Cpus : boot[c] = t
    <3>1. e \in Cpus /\ boot[e] = t
      BY <2>1, Zenon
    <3>2. t_cpu[t] = e /\ t_state[t] = "RUN"
      BY <2>1, Zenon DEF Init
    <3> HIDE DEF e
    <3> QED
      BY <3>1, <3>2, SchedAssumption, Zenon
  <2>2. CASE ~\E c \in Cpus : boot[c] = t
    <3>1. t_cpu[t] = 0 /\ t_state[t] = "NONE"
      BY <2>2, Zenon DEF Init
    <3> QED
      BY <2>2, <3>1, SchedAssumption DEF Cpus
  <2> QED
    BY <2>1, <2>2, Zenon
<1>2. \A c \in Cpus : /\ cpc[c] = "run" /\ migration[c] = Idle /\ c_runqueue[c] = << >>
                      /\ curthread[c] = boot[c] /\ boot[c] \in Threads /\ c_zombies[c] = {}
                      /\ c_isidle[c] = FALSE
  BY SchedAssumption, Zenon DEF Init
<1>3. /\ \A c \in Cpus : Ready(c) = {} /\ Moving(c) = {} /\ ~Idling(c)
      /\ Asleep = {} /\ ListedOnce
  BY <1>2, IdleLocals, NoElems, Zenon DEF Ready, Moving, Idling, Migrating, Asleep, ListedOnce, Init
<1>4. Types
  <2>1. t_cpu \in [Threads -> Cpus] /\ t_state \in [Threads -> States]
    <3>1. /\ t_cpu = [t \in Threads |-> t_cpu[t]]
          /\ t_state = [t \in Threads |-> t_state[t]]
      BY Zenon DEF Init
    <3>2. \A t \in Threads : t_cpu[t] \in Cpus /\ t_state[t] \in States
      BY <1>1, Zenon DEF States
    <3> QED
      BY <3>1, <3>2, Zenon
  <2> QED
    BY <2>1, IdleLocals, SchedAssumption DEF Init, Types, CpuLabels
<1>5. QueuesLocked /\ MigrationFits /\ IdleIsNoted
  BY <1>2, <1>3, IdleLocals
     DEF QueuesLocked, LockHeld, MigrationFits, Fits, Migrating, IdleIsNoted
<1>6. ListsMatch /\ StacksMatch /\ NoneLost
  BY <1>1, <1>2, <1>3 DEF ListsMatch, StacksMatch, NoneLost
<1> QED
  BY <1>3, <1>4, <1>5, <1>6, Zenon DEF SchedInv

(* Every step of every cpu keeps the invariant.                            *)
LEMMA SchedNext == SchedInv /\ [Next]_vars => SchedInv'
<1> SUFFICES ASSUME SchedInv, [Next]_vars PROVE SchedInv'
  OBVIOUS
<1>1. CASE UNCHANGED vars
  <2>1. /\ UNCHANGED <<curthread, c_isidle, c_runqueue, c_zombies, wchan, c_runqueue_lock>>
        /\ UNCHANGED <<wchan_lock, ipi, t_state, t_cpu, cpc, migration>>
    BY <1>1, Zenon DEF vars, queues, locks, thrd
  <2>2. /\ \A c \in Cpus : Ready(c)' = Ready(c) /\ Moving(c)' = Moving(c) /\ Idling(c)' = Idling(c)
        /\ \A c \in Cpus : LockHeld(c)' = LockHeld(c) /\ Fits(c)' = Fits(c)
        /\ Asleep' = Asleep
    BY <2>1, Zenon DEF Ready, Moving, Idling, LockHeld, Fits, Asleep
  <2>3. Types' /\ QueuesLocked' /\ MigrationFits' /\ IdleIsNoted'
    BY <2>1, <2>2, Zenon DEF SchedInv, Types, QueuesLocked, MigrationFits, IdleIsNoted
  <2>4. ListedOnce'
    BY <2>1, Zenon DEF SchedInv, ListedOnce
  <2>5. ListsMatch'
    <3>1. ListsMatch
      BY Zenon DEF SchedInv
    <3>2. ASSUME NEW c \in Cpus, NEW t \in Ready(c)' \cup Moving(c)'
          PROVE  t_state'[t] = "READY" /\ t_cpu'[t] = c
      <4>1. t \in Ready(c) \cup Moving(c)
        BY <2>2, <3>2, Zenon
      <4> QED
        BY <2>1, <3>1, <4>1, Zenon DEF ListsMatch
    <3>3. ASSUME NEW c \in Cpus, NEW t \in Ready(c)'
          PROVE  t \notin Moving(c)'
      <4>1. t \in Ready(c) /\ Moving(c)' = Moving(c)
        BY <2>2, <3>3, Zenon
      <4>2. \A d \in Cpus : \A u \in Ready(d) : u \notin Moving(d)
        BY <3>1, Zenon DEF ListsMatch
      <4> QED
        BY <4>1, <4>2, Zenon
    <3>4. \A t \in Asleep' : t_state'[t] = "SLEEP"
      BY <2>1, <2>2, <3>1, Zenon DEF ListsMatch
    <3>5. \A c \in Cpus : \A t \in c_zombies'[c] : t_state'[t] = "ZOMBIE" /\ t_cpu'[t] = c
      BY <2>1, <3>1, Zenon DEF ListsMatch
    <3> QED
      BY <3>2, <3>3, <3>4, <3>5, Zenon DEF ListsMatch
  <2>6. StacksMatch'
    BY <2>1, <2>2, Zenon DEF SchedInv, StacksMatch
  <2>7. NoneLost'
    BY <2>1, <2>2, Zenon DEF SchedInv, Types, NoneLost
  <2> QED
    BY <2>3, <2>4, <2>5, <2>6, <2>7, Zenon DEF SchedInv
<1>2. ASSUME NEW c \in Cpus, SwitchStep(c) PROVE SchedInv'
  BY <1>2, YieldNothing, YieldStep, SleepStep, PickStep, IdleStep, InterruptStep, ClearIpiStep,
     RelockStep, StartsStep, WakeStep, Zenon DEF SwitchStep
<1>3. ASSUME NEW c \in Cpus, MigrationStep(c) PROVE SchedInv'
  BY <1>3, CountStep, NothingStep, TakeStep, LockTargetStep, GiveStep, UnlockTargetStep,
     PutBackStep, Zenon DEF MigrationStep
<1>4. ASSUME NEW c \in Cpus, StartSleep(c) \/ thread_exit(c) \/ StartWake(c) \/ hardclock(c)
      PROVE  SchedInv'
  BY <1>4, StartSleepStep, ExitStep, InterruptStep, Zenon
<1>5. ASSUME NEW c \in Cpus, NEW t \in Threads, thread_fork(c, t) PROVE SchedInv'
  BY <1>5, ForkStep, Zenon
<1> QED
  BY <1>1, <1>2, <1>3, <1>4, <1>5, Zenon DEF Next

(* The inductive invariant of the scheduler.                               *)
THEOREM SchedInductive == Spec => []SchedInv
<1>1. Init => SchedInv
  BY SchedInit, Zenon
<1>2. SchedInv /\ [Next]_vars => SchedInv'
  BY SchedNext, Zenon
<1> QED
  BY <1>1, <1>2, PTL DEF Spec

(* thread_switch, exorcise: a stack is executed by at most one cpu, and a  *)
(* zombie is freed only when no cpu is on its stack any more, whatever     *)
(* wakeups, migrations and exits come while a cpu idles on it.             *)
THEOREM StacksOwned == Spec => []StacksAreOwned
<1>1. SchedInv => StacksAreOwned
  <2> SUFFICES ASSUME SchedInv PROVE StacksAreOwned
    OBVIOUS
  <2>1. TypeOK
    BY Zenon DEF SchedInv, Types, Locals, MigrationFits, Fits, QueuesLocked, LockHeld, TypeOK
  <2>2. OneCpuPerThread
    BY Zenon DEF SchedInv, StacksMatch, OneCpuPerThread
  <2>3. ExorcismIsSafe
    <3> SUFFICES ASSUME NEW c \in Cpus, cpc[c] = "tail", NEW z \in c_zombies[c], NEW d \in Cpus
                 PROVE  t_state[z] = "ZOMBIE" /\ curthread[d] # z
      BY Zenon DEF ExorcismIsSafe
    <3>1. t_state[z] = "ZOMBIE" /\ t_cpu[z] = c
      BY Zenon DEF SchedInv, ListsMatch
    <3>2. t_cpu[curthread[d]] = d /\ (d = c => t_state[curthread[d]] = "READY")
      BY Zenon DEF SchedInv, StacksMatch
    <3> QED
      BY <3>1, <3>2, Zenon
  <2> QED
    BY <2>1, <2>2, <2>3, Zenon DEF StacksAreOwned
<1> QED
  BY <1>1, SchedInductive, PTL

(* Where a thread can be listed.                                           *)
OnQueue(t, x, c) ==
  \E i \in 1 .. Len(c_runqueue[c]) : c_runqueue[c][i] = t /\ x = <<c, "runqueue", i>>
OnMove(t, x, c) ==
  \E i \in 1 .. Len(migration[c].victims) : migration[c].victims[i] = t /\ x = <<c, "victims", i>>
OnChannel(t, x) == \E i \in 1 .. Len(wchan) : wchan[i] = t /\ x = <<0, "wchan", i>>
OnZombies(t, x, c) == t \in c_zombies[c] /\ x = <<c, "zombies", 0>>
OnSwitch(t, x, c) == cpc[c] = "tail" /\ curthread[c] = t /\ x = <<c, "chosen", 0>>

(* These are all the places.                                               *)
LEMMA PlaceCases ==
  ASSUME SchedInv, NEW t
  PROVE  \A x : x \in Places(t) <=>
           \/ OnChannel(t, x)
           \/ \E c \in Cpus : \/ OnQueue(t, x, c) \/ OnMove(t, x, c)
                              \/ OnZombies(t, x, c) \/ OnSwitch(t, x, c)
<1>1. /\ DOMAIN wchan = 1 .. Len(wchan)
      /\ \A c \in Cpus : /\ DOMAIN c_runqueue[c] = 1 .. Len(c_runqueue[c])
                         /\ DOMAIN migration[c].victims = 1 .. Len(migration[c].victims)
  BY DEF SchedInv, Types, Locals
<1> DEFINE
  ready(c)   == {<<c, "runqueue", i>> : i \in {j \in DOMAIN c_runqueue[c] : c_runqueue[c][j] = t}}
  moving(c)  == {<<c, "victims", i>> : i \in {j \in DOMAIN migration[c].victims :
                                                 migration[c].victims[j] = t}}
  zombie(c)  == IF t \in c_zombies[c] THEN {<<c, "zombies", 0>>} ELSE {}
  asleep     == {<<0, "wchan", i>> : i \in {j \in DOMAIN wchan : wchan[j] = t}}
  chosen(c)  == IF cpc[c] = "tail" /\ curthread[c] = t THEN {<<c, "chosen", 0>>} ELSE {}
<1>2. Places(t) = asleep \cup UNION {ready(c) \cup moving(c) \cup zombie(c) \cup chosen(c) : c \in Cpus}
  BY Zenon DEF Places
<1>3. \A x : x \in asleep <=> OnChannel(t, x)
  BY <1>1, Zenon DEF OnChannel
<1>4. ASSUME NEW x, NEW c \in Cpus
      PROVE  /\ x \in ready(c) <=> OnQueue(t, x, c)
             /\ x \in moving(c) <=> OnMove(t, x, c)
             /\ x \in zombie(c) <=> OnZombies(t, x, c)
             /\ x \in chosen(c) <=> OnSwitch(t, x, c)
  <2>1. x \in ready(c) <=> OnQueue(t, x, c)
    BY <1>1, Zenon DEF OnQueue
  <2>2. x \in moving(c) <=> OnMove(t, x, c)
    BY <1>1, Zenon DEF OnMove
  <2>3. x \in zombie(c) <=> OnZombies(t, x, c)
    BY Zenon DEF OnZombies
  <2>4. x \in chosen(c) <=> OnSwitch(t, x, c)
    BY Zenon DEF OnSwitch
  <2> QED
    BY <2>1, <2>2, <2>3, <2>4, Zenon
<1> HIDE DEF ready, moving, zombie, asleep, chosen
<1> QED
  BY <1>2, <1>3, <1>4

(* A thread that is listed is in the state that goes with the list.        *)
LEMMA PlaceStates ==
  ASSUME SchedInv, NEW t, NEW x
  PROVE  /\ OnChannel(t, x) => t_state[t] = "SLEEP"
         /\ \A c \in Cpus :
              /\ OnZombies(t, x, c) => t_state[t] = "ZOMBIE" /\ t_cpu[t] = c
              /\ OnQueue(t, x, c) \/ OnMove(t, x, c) \/ OnSwitch(t, x, c) =>
                   t_state[t] = "READY" /\ t_cpu[t] = c
<1>1. OnChannel(t, x) => t \in Asleep
  BY Zenon DEF OnChannel, Asleep, Elems
<1>2. ASSUME NEW c \in Cpus
      PROVE  /\ OnQueue(t, x, c) => t \in Ready(c)
             /\ OnMove(t, x, c) => t \in Moving(c)
  BY Zenon DEF OnQueue, OnMove, Ready, Moving, Elems
<1> QED
  BY <1>1, <1>2, ZenonT(60) DEF SchedInv, ListsMatch, StacksMatch, OnZombies, OnSwitch

(* Two places of one thread are one.                                       *)
LEMMA PlaceIsOne ==
  ASSUME SchedInv, NEW t, NEW c \in Cpus, NEW x, NEW y,
         \/ OnQueue(t, x, c) \/ OnMove(t, x, c) \/ OnSwitch(t, x, c),
         \/ OnQueue(t, y, c) \/ OnMove(t, y, c) \/ OnSwitch(t, y, c)
  PROVE  x = y
<1>1. /\ OnQueue(t, x, c) \/ OnQueue(t, y, c) <=> t \in Ready(c) /\ (OnQueue(t, x, c) \/ OnQueue(t, y, c))
      /\ OnMove(t, x, c) \/ OnMove(t, y, c) <=> t \in Moving(c) /\ (OnMove(t, x, c) \/ OnMove(t, y, c))
  BY Zenon DEF OnQueue, OnMove, Ready, Moving, Elems
<1>2. ~(t \in Ready(c) /\ t \in Moving(c))
  BY Zenon DEF SchedInv, ListsMatch
<1>3. (OnSwitch(t, x, c) \/ OnSwitch(t, y, c)) => t \notin Ready(c) \cup Moving(c)
  BY Zenon DEF SchedInv, StacksMatch, OnSwitch
<1>4. CASE OnQueue(t, x, c) /\ OnQueue(t, y, c)
  BY <1>4, Zenon DEF OnQueue, SchedInv, ListedOnce, Once
<1>5. CASE OnMove(t, x, c) /\ OnMove(t, y, c)
  BY <1>5, Zenon DEF OnMove, SchedInv, ListedOnce, Once
<1>6. CASE OnSwitch(t, x, c) /\ OnSwitch(t, y, c)
  BY <1>6, Zenon DEF OnSwitch
<1> QED
  BY <1>1, <1>2, <1>3, <1>4, <1>5, <1>6, Zenon

(* threadlist_addtail, threadlist_remhead, thread_make_runnable: a thread  *)
(* that is not running is on exactly the list its state names, and once;   *)
(* none is lost on its way between cpus, and none that runs is listed.     *)
THEOREM ThreadsListed == Spec => []ThreadsAreListed
<1>1. SchedInv => ThreadsAreListed
  <2> SUFFICES ASSUME SchedInv, NEW t \in Threads
               PROVE  /\ \A x \in Places(t) : <<x[1], x[2]>> \in Allowed(t)
                      /\ \A x, y \in Places(t) : x = y
                      /\ t_state[t] \in {"READY", "SLEEP", "ZOMBIE"} => Places(t) # {}
                      /\ t_state[t] = "RUN" => \E c \in Cpus : curthread[c] = t
    BY Zenon DEF ThreadsAreListed
  <2>0. t_cpu[t] \in Cpus
    BY Zenon DEF SchedInv, Types
  <2>1. ASSUME NEW x \in Places(t) PROVE <<x[1], x[2]>> \in Allowed(t)
    <3>1. CASE OnChannel(t, x)
      <4>1. t_state[t] = "SLEEP" /\ x[1] = 0 /\ x[2] = "wchan"
        BY <3>1, PlaceStates DEF OnChannel
      <4> QED
        BY <4>1 DEF Allowed
    <3>2. ASSUME NEW c \in Cpus, OnZombies(t, x, c) PROVE <<x[1], x[2]>> \in Allowed(t)
      <4>1. t_state[t] = "ZOMBIE" /\ x[1] = c /\ x[2] = "zombies"
        BY <3>2, PlaceStates, Zenon DEF OnZombies
      <4> QED
        BY <4>1 DEF Allowed
    <3>3. ASSUME NEW c \in Cpus, OnQueue(t, x, c) \/ OnMove(t, x, c) \/ OnSwitch(t, x, c)
          PROVE  <<x[1], x[2]>> \in Allowed(t)
      <4>1. t_state[t] = "READY" /\ t_cpu[t] = c
        BY <3>3, PlaceStates, Zenon
      <4>2. x[1] = c /\ x[2] \in {"runqueue", "victims", "chosen"}
        BY <3>3 DEF OnQueue, OnMove, OnSwitch
      <4> QED
        BY <4>1, <4>2 DEF Allowed
    <3> QED
      BY <3>1, <3>2, <3>3, PlaceCases, Zenon
  <2>2. ASSUME NEW x \in Places(t), NEW y \in Places(t) PROVE x = y
    <3>1. CASE t_state[t] = "SLEEP"
      <4>1. OnChannel(t, x) /\ OnChannel(t, y)
        BY <3>1, PlaceCases, PlaceStates, Zenon
      <4> QED
        BY <4>1, Zenon DEF OnChannel, SchedInv, ListedOnce, Once
    <3>2. CASE t_state[t] = "ZOMBIE"
      <4>1. OnZombies(t, x, t_cpu[t]) /\ OnZombies(t, y, t_cpu[t])
        BY <3>2, PlaceCases, PlaceStates, Zenon
      <4> QED
        BY <4>1, Zenon DEF OnZombies
    <3>3. CASE t_state[t] \notin {"SLEEP", "ZOMBIE"}
      <4> DEFINE c == t_cpu[t]
      <4>1. /\ OnQueue(t, x, c) \/ OnMove(t, x, c) \/ OnSwitch(t, x, c)
            /\ OnQueue(t, y, c) \/ OnMove(t, y, c) \/ OnSwitch(t, y, c)
        BY <3>3, PlaceCases, PlaceStates, Zenon
      <4> HIDE DEF c
      <4>2. c \in Cpus
        BY <2>0, Zenon DEF c
      <4> QED
        BY <4>1, <4>2, PlaceIsOne, Zenon
    <3> QED
      BY <3>1, <3>2, <3>3, Zenon
  <2>3. ASSUME t_state[t] \in {"READY", "SLEEP", "ZOMBIE"} PROVE \E x : x \in Places(t)
    <3> DEFINE c == t_cpu[t]
    <3>1. \/ t \in Asleep \/ t \in Ready(c) \/ t \in Moving(c) \/ t \in c_zombies[c]
          \/ cpc[c] = "tail" /\ curthread[c] = t
      BY <2>3, Zenon DEF SchedInv, NoneLost
    <3>2. /\ t \in Asleep => \E x : OnChannel(t, x)
          /\ t \in Ready(c) => \E x : OnQueue(t, x, c)
          /\ t \in Moving(c) => \E x : OnMove(t, x, c)
          /\ t \in c_zombies[c] => \E x : OnZombies(t, x, c)
          /\ cpc[c] = "tail" /\ curthread[c] = t => \E x : OnSwitch(t, x, c)
      BY Zenon DEF Asleep, Ready, Moving, Elems, OnChannel, OnQueue, OnMove, OnZombies, OnSwitch
    <3>3. c \in Cpus
      BY <2>0, Zenon
    <3> HIDE DEF c
    <3> QED
      BY <3>1, <3>2, <3>3, PlaceCases, Zenon
  <2>4. ASSUME t_state[t] = "RUN" PROVE \E c \in Cpus : curthread[c] = t
    BY <2>0, <2>4, Zenon DEF SchedInv, NoneLost
  <2> QED
    BY <2>1, <2>2, <2>3, <2>4, Zenon
<1> QED
  BY <1>1, SchedInductive, PTL

(* What a step of cpu d does to the queues and interrupts of the others:   *)
(* a thread put on the queue of an idle cpu comes with an interrupt.       *)
LEMMA NotifiedStep ==
  ASSUME SchedInv, NEW d \in Cpus,
         \/ SwitchStep(d) \/ MigrationStep(d)
         \/ StartSleep(d) \/ thread_exit(d) \/ StartWake(d) \/ hardclock(d)
         \/ \E t \in Threads : thread_fork(d, t)
  PROVE  /\ cpc'[d] = "wait" => c_runqueue'[d] = << >>
         /\ \A c \in Cpus : c # d =>
              /\ cpc'[c] = cpc[c]
              /\ ipi[c] => ipi'[c]
              /\ c_runqueue'[c] = c_runqueue[c] \/ ipi'[c] \/ ~c_isidle[c]
<1> USE DEF Goto
<1>1. migration[d].ret \in {"run", "relock", "yield"}
  BY Zenon DEF SchedInv, Types, Locals
<1>2. CASE thread_yield(d) \/ wchan_sleep(d) \/ thread_exit(d) \/ PickNext(d) \/ ThreadStarts(d)
  <2>1. /\ cpc' = [cpc EXCEPT ![d] = cpc'[d]] /\ cpc'[d] \in {"pick", "tail", "run"}
        /\ ipi' = ipi
    BY <1>2, SMTT(60) DEF thread_yield, wchan_sleep, thread_exit, PickNext, ThreadStarts, Place, SchedInv, Types
  <2>2. \E q : c_runqueue' = [c_runqueue EXCEPT ![d] = q]
    <3>1. c_runqueue = [c_runqueue EXCEPT ![d] = c_runqueue[d]]
      BY DEF SchedInv, Types
    <3> QED
      BY <1>2, <3>1 DEF thread_yield, wchan_sleep, thread_exit, PickNext, ThreadStarts, Enqueue, queues
  <2> QED
    BY <2>1, <2>2 DEF SchedInv, Types
<1>3. CASE cpu_idle(d) \/ Relock(d) \/ StartSleep(d) \/ StartWake(d) \/ hardclock(d)
  BY <1>3, Zenon DEF cpu_idle, Relock, StartSleep, StartWake, hardclock, queues, SchedInv, Types
<1>4. CASE interprocessor_interrupt(d) \/ lamebus_clear_ipi(d)
  BY <1>1, <1>4, Zenon DEF interprocessor_interrupt, lamebus_clear_ipi, queues, SchedInv, Types
<1>5. CASE wchan_wakeone(d)
  <2>1. cpc'[d] # "wait" /\ \A c \in Cpus : c # d => cpc'[c] = cpc[c]
    BY <1>1, <1>5, Zenon DEF wchan_wakeone, SchedInv, Types
  <2>2. CASE wchan = << >>
    BY <1>5, <2>1, <2>2, Zenon DEF wchan_wakeone
  <2>3. CASE wchan # << >>
    <3> DEFINE k == t_cpu[Head(wchan)]
    <3>1. Enqueue(k, Head(wchan)) /\ Notify(d, k)
      BY <1>5, <2>3, Zenon DEF wchan_wakeone, thread_make_runnable
    <3> HIDE DEF k
    <3> QED
      BY <2>1, <3>1, Zenon DEF Enqueue, Notify, SchedInv, Types
  <2> QED
    BY <2>2, <2>3, Zenon
<1>6. CASE CountQueue(d) \/ NothingToSend(d) \/ LockTarget(d) \/ UnlockTarget(d)
  BY <1>1, <1>6, ZenonT(60) DEF CountQueue, NothingToSend, LockTarget, UnlockTarget, queues, SchedInv, Types
<1>7. CASE TakeVictims(d) \/ PutBack(d)
  BY <1>1, <1>7, ZenonT(60) DEF TakeVictims, PutBack, SchedInv, Types
<1>8. CASE GiveVictim(d)
  <2>1. cpc'[d] # "wait" /\ \A c \in Cpus : c # d => cpc'[c] = cpc[c]
    BY <1>8, Zenon DEF GiveVictim, SchedInv, Types
  <2> DEFINE k == migration[d].i
             t == Head(migration[d].victims)
  <2>2. UNCHANGED <<c_runqueue, ipi>> \/ (Enqueue(k, t) /\ Notify(d, k))
    BY <1>8, Zenon DEF GiveVictim
  <2> HIDE DEF k, t
  <2> QED
    BY <2>1, <2>2, Zenon DEF Enqueue, Notify, SchedInv, Types
<1>9. CASE \E t \in Threads : thread_fork(d, t)
  BY <1>9, ZenonT(60) DEF thread_fork, Enqueue, SchedInv, Types
<1> QED
  BY <1>2, <1>3, <1>4, <1>5, <1>6, <1>7, <1>8, <1>9, Zenon DEF SwitchStep, MigrationStep

(* cpu_idle, ipi_send: no cpu waits for an interrupt while a thread is     *)
(* ready on its run queue and no interrupt is on its way.  The interrupt   *)
(* is sent because c_isidle is set as long as the cpu is in the idle loop. *)
THEOREM UnidleNotMissed == Spec => []NoMissedUnidle
<1>1. Init => NoMissedUnidle
  BY Zenon DEF Init, NoMissedUnidle
<1>2. SchedInv /\ NoMissedUnidle /\ [Next]_vars => NoMissedUnidle'
  <2> SUFFICES ASSUME SchedInv, NoMissedUnidle, [Next]_vars PROVE NoMissedUnidle'
    OBVIOUS
  <2>1. CASE UNCHANGED vars
    BY <2>1, Zenon DEF vars, queues, NoMissedUnidle
  <2>2. CASE Next
    <3> SUFFICES ASSUME NEW c \in Cpus, cpc'[c] = "wait", c_runqueue'[c] # << >> PROVE ipi'[c]
      BY Zenon DEF NoMissedUnidle
    <3>1. PICK d \in Cpus : \/ SwitchStep(d) \/ MigrationStep(d)
                            \/ StartSleep(d) \/ thread_exit(d) \/ StartWake(d) \/ hardclock(d)
                            \/ \E t \in Threads : thread_fork(d, t)
      BY <2>2, Zenon DEF Next
    <3>2. /\ c # d /\ cpc[c] = "wait" /\ (ipi[c] => ipi'[c])
          /\ c_runqueue'[c] = c_runqueue[c] \/ ipi'[c] \/ ~c_isidle[c]
      BY <3>1, NotifiedStep, Zenon
    <3>3. c_isidle[c]
      BY <3>2, Zenon DEF SchedInv, IdleIsNoted, Idling
    <3> QED
      BY <3>2, <3>3, Zenon DEF NoMissedUnidle
  <2> QED
    BY <2>1, <2>2, Zenon
<1> QED
  BY <1>1, <1>2, SchedInductive, PTL DEF Spec
============================================================================
