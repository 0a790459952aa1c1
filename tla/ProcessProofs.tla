--------------------------- MODULE ProcessProofs ---------------------------
(***************************************************************************)
(* Proofs about Semaphore, for any finite set of threads and any initial   *)
(* count: the lock and the wait channel are used consistently, and no      *)
(* wakeup is lost.                                                         *)
(*                                                                         *)
(* Proofs about Process, for any number of programs' threads, exit codes,  *)
(* executables and failures: an exiting thread and the menu that destroys  *)
(* its process keep out of each other's way, and every program that exits  *)
(* delivers its status and leaves nothing behind.                          *)
(*                                                                         *)
(* The argument is about one unit of the semaphore: it is raised by the    *)
(* last step in which the exiting thread uses the process, the V of        *)
(* sys__exit, and taken by the first step after which the menu destroys    *)
(* it, the P of proc_wait; and the menu cannot take it before the thread   *)
(* has released the semaphore's lock.                                      *)
(***************************************************************************)
EXTENDS Process, FiniteSetTheorems, TLAPS

-----------------------------------------------------------------------------
(* The semaphore.                                                          *)

(* The channel lists only threads and is empty exactly when its length is  *)
(* zero; its head is asleep.                                               *)
LEMMA HeadAsleep ==
  ASSUME SemTypeOK, sem_wchan # << >>
  PROVE  /\ Len(sem_wchan) \in Nat \ {0}
         /\ Head(sem_wchan) = sem_wchan[1]
         /\ Head(sem_wchan) \in Threads
         /\ pc[Head(sem_wchan)] = "asleep"
BY DEF SemTypeOK

(* The threads on their way to test the count are finitely many.           *)
LEMMA EnRouteFinite ==
  ASSUME NEW S \in SUBSET Threads
  PROVE  IsFiniteSet(S) /\ Cardinality(S) \in Nat
BY SemaphoreAssumption, FS_Subset, FS_CardinalityType, Zenon

LEMMA SemTypeOKInit == sem_create => SemTypeOK
BY SemaphoreAssumption DEF sem_create, SemTypeOK, SemLabels, Holding

(* Steps that leave the channel alone.                                     *)
LEMMA SemTypeOKSimple ==
  ASSUME SemTypeOK, NEW t \in Threads,
         P(t) \/ V(t) \/ AcquireP(t) \/ AcquireV(t) \/ PassP(t) \/ ReleaseV(t)
  PROVE  SemTypeOK'
<1> USE SemaphoreAssumption DEF SemTypeOK, SemLabels, Holding, Move
<1>1. CASE P(t) \/ V(t)
  BY <1>1, SMTT(60) DEF P, V
<1>2. CASE AcquireP(t) \/ AcquireV(t)
  BY <1>2 DEF AcquireP, AcquireV, TakeSemLock
<1>3. CASE PassP(t) \/ ReleaseV(t)
  BY <1>3 DEF PassP, ReleaseV
<1> QED BY <1>1, <1>2, <1>3, Zenon

LEMMA SemTypeOKSleep ==
  ASSUME SemTypeOK, NEW t \in Threads, wchan_sleep(t)
  PROVE  SemTypeOK'
BY SemaphoreAssumption
   DEF SemTypeOK, SemLabels, Holding, Move, wchan_sleep

LEMMA SemTypeOKRaise ==
  ASSUME SemTypeOK, NEW t \in Threads, RaiseV(t)
  PROVE  SemTypeOK'
<1>1. CASE sem_wchan = << >>
  BY <1>1, SemaphoreAssumption
     DEF SemTypeOK, SemLabels, Holding, RaiseV, wchan_wakeone
<1>2. CASE sem_wchan # << >>
  <2> DEFINE h == Head(sem_wchan)
  <2>1. /\ h \in Threads /\ pc[h] = "asleep" /\ h # t /\ h = sem_wchan[1]
        /\ pc' = [pc EXCEPT ![t] = "Vdone", ![h] = "P"]
        /\ sem_wchan' = Tail(sem_wchan)
        /\ sem_lock' = sem_lock
        /\ sem_count' = sem_count + 1
    BY <1>2, HeadAsleep, Zenon DEF RaiseV, wchan_wakeone
  <2>2. /\ sem_wchan' \in Seq(Threads)
        /\ Len(sem_wchan') = Len(sem_wchan) - 1
        /\ \A i \in 1 .. Len(sem_wchan') : sem_wchan'[i] = sem_wchan[i + 1]
    BY <1>2, <2>1, HeadAsleep DEF SemTypeOK
  <2> HIDE DEF h
  <2>3. pc[t] = "Vheld" /\ sem_lock = t
    BY Zenon DEF RaiseV, wchan_wakeone, SemTypeOK, Holding
  <2>4. \A u \in Threads : pc'[u] \in Holding <=> sem_lock' = u
    BY <2>1, <2>3, Zenon DEF SemTypeOK, Holding
  <2>5. \A u \in Threads : pc'[u] = "asleep" <=> pc[u] = "asleep" /\ u # h
    BY <2>1, <2>3, Zenon DEF SemTypeOK
  <2>6. \A u \in Threads : (\E i \in 1 .. Len(sem_wchan') : sem_wchan'[i] = u)
                           <=> (\E i \in 2 .. Len(sem_wchan) : sem_wchan[i] = u)
    <3>1. ASSUME NEW u \in Threads, NEW i \in 2 .. Len(sem_wchan),
                 sem_wchan[i] = u
          PROVE  \E j \in 1 .. Len(sem_wchan') : sem_wchan'[j] = u
      <4>1. i - 1 \in 1 .. Len(sem_wchan') /\ sem_wchan'[i - 1] = u
        BY <2>2, <3>1 DEF SemTypeOK
      <4> QED BY <4>1, Zenon
    <3> QED BY <2>2, <3>1 DEF SemTypeOK
  <2>7. \A u \in Threads :
          pc'[u] = "asleep" <=> \E i \in 1 .. Len(sem_wchan') : sem_wchan'[i] = u
    BY <2>1, <2>5, <2>6, SMTT(60) DEF SemTypeOK
  <2>8. \A i, j \in 1 .. Len(sem_wchan') :
          sem_wchan'[i] = sem_wchan'[j] => i = j
    BY <2>2, SMTT(60) DEF SemTypeOK
  <2>9. pc' \in [Threads -> SemLabels] /\ sem_count' \in Nat
        /\ sem_lock' \in Threads \cup {NoThread}
    BY <2>1 DEF SemTypeOK, SemLabels
  <2> QED BY <2>2, <2>4, <2>7, <2>8, <2>9, Zenon DEF SemTypeOK
<1> QED BY <1>1, <1>2, Zenon

(* The count never exceeds the threads on their way while one sleeps: each *)
(* step changes the set of those threads by at most one.                   *)
LEMMA NoLostWakeupStep ==
  ASSUME SemTypeOK, NoLostWakeup, NEW t \in Threads,
         P(t) \/ V(t) \/ SemStep(t)
  PROVE  NoLostWakeup'
<1> DEFINE R == EnRoute
<1>0. /\ R \in SUBSET Threads /\ EnRoute' \in SUBSET Threads
      /\ IsFiniteSet(R) /\ Cardinality(R) \in Nat
      /\ sem_count \in Nat /\ pc \in [Threads -> SemLabels]
  <2>1. R \in SUBSET Threads /\ EnRoute' \in SUBSET Threads
    BY Zenon DEF EnRoute
  <2> QED BY <2>1, EnRouteFinite, Zenon DEF SemTypeOK
<1>1. CASE P(t)
  <2>1. EnRoute' = R \cup {t} /\ t \notin R
    BY <1>0, <1>1, Zenon DEF P, Move, EnRoute
  <2>2. Cardinality(EnRoute') = Cardinality(R) + 1
    BY <1>0, <2>1, FS_AddElement, Zenon
  <2> QED BY <1>0, <1>1, <2>2 DEF P, NoLostWakeup
<1>2. CASE V(t) \/ AcquireP(t) \/ AcquireV(t) \/ ReleaseV(t)
  <2>1. EnRoute' = R
    BY <1>0, <1>2, Zenon DEF V, AcquireP, AcquireV, ReleaseV, Move, EnRoute
  <2> QED BY <1>2, <2>1, Zenon DEF V, AcquireP, AcquireV, ReleaseV, NoLostWakeup
<1>3. CASE PassP(t)
  <2>1. EnRoute' = R \ {t} /\ t \in R
    BY <1>0, <1>3, Zenon DEF PassP, Move, EnRoute
  <2>2. Cardinality(EnRoute') = Cardinality(R) - 1
    BY <1>0, <2>1, FS_RemoveElement, Zenon
  <2> QED BY <1>0, <1>3, <2>2 DEF PassP, NoLostWakeup
<1>4. CASE wchan_sleep(t)
  <2>1. sem_count' = 0
    BY <1>4, Zenon DEF wchan_sleep
  <2> QED BY <1>0, <2>1, EnRouteFinite DEF NoLostWakeup
<1>5. CASE RaiseV(t)
  <2>1. CASE sem_wchan = << >>
    BY <1>5, <2>1, Zenon DEF RaiseV, wchan_wakeone, NoLostWakeup
  <2>2. CASE sem_wchan # << >>
    <3>1. EnRoute' = R \cup {Head(sem_wchan)} /\ Head(sem_wchan) \notin R
      BY <1>0, <1>5, <2>2, HeadAsleep, Zenon DEF RaiseV, wchan_wakeone, EnRoute
    <3>2. Cardinality(EnRoute') = Cardinality(R) + 1
      BY <1>0, <3>1, FS_AddElement, Zenon
    <3> QED BY <1>0, <1>5, <2>2, <3>2 DEF RaiseV, NoLostWakeup
  <2> QED BY <2>1, <2>2, Zenon
<1> QED BY <1>1, <1>2, <1>3, <1>4, <1>5, Zenon DEF SemStep

(* sem_lock and the wait channel are used consistently in every execution: *)
(* one thread in a critical section, every sleeper on the channel once.    *)
THEOREM SemTypeCorrect == SemSpec => []SemTypeOK
<1>1. SemTypeOK /\ [SemNext]_semvars => SemTypeOK'
  <2> SUFFICES ASSUME SemTypeOK, [SemNext]_semvars PROVE SemTypeOK'
    OBVIOUS
  <2>1. CASE UNCHANGED semvars
    BY <2>1, Zenon DEF SemTypeOK, semvars
  <2>2. CASE SemNext
    BY <2>2, SemTypeOKSimple, SemTypeOKSleep, SemTypeOKRaise, Zenon
       DEF SemNext, SemStep
  <2> QED BY <2>1, <2>2, Zenon
<1> QED BY <1>1, SemTypeOKInit, PTL DEF SemSpec

(* In every execution of P and V by any number of threads, a thread sleeps *)
(* only while each unit of the count has a thread on its way to take it.   *)
THEOREM WakeupsAreNotLost == SemSpec => []NoLostWakeup
<1>1. sem_create => NoLostWakeup
  BY Zenon DEF sem_create, NoLostWakeup
<1>2. SemTypeOK /\ NoLostWakeup /\ [SemNext]_semvars => NoLostWakeup'
  <2> SUFFICES ASSUME SemTypeOK, NoLostWakeup, [SemNext]_semvars
               PROVE  NoLostWakeup'
    OBVIOUS
  <2>1. CASE UNCHANGED semvars
    BY <2>1, Zenon DEF NoLostWakeup, EnRoute, semvars
  <2>2. CASE SemNext
    BY <2>2, NoLostWakeupStep, Zenon DEF SemNext
  <2> QED BY <2>1, <2>2, Zenon
<1> QED BY <1>1, <1>2, SemTypeCorrect, PTL DEF SemSpec

-----------------------------------------------------------------------------
(* The process.                                                            *)

(* thread_exit and after it; before it, attached to the process.           *)
Gone == {"thread_exit", "zombie", "none"}
Inside == {"vfs_open", "as_create", "load_elf", "define", "user"}

(* The unit: raised by u, and taken by the menu.                           *)
Raised(u) == exited # NULL /\ at[u] \in Gone /\ pc[u] \in {"Vdone", "out"}
Taken == \/ at[menu] \in {"close", "as_destroy", "free"}
         \/ at[menu] = "status" /\ pc[menu] = "out"

Types ==
  /\ SemTypeOK
  /\ at \in [Threads -> MenuLabels \cup UserLabels]
  /\ at[menu] \in MenuLabels
  /\ \A u \in Users : at[u] \in UserLabels
  /\ user \in Users \cup {NULL}
  /\ proc \in BOOLEAN
  /\ t_proc \in [Users -> BOOLEAN]
  /\ p_vnode \in BOOLEAN
  /\ exited \in ExitCodes \cup {NULL}
  /\ status = (IF exited = NULL THEN NULL ELSE exited % 256)
  /\ exit_status \in 0 .. 255 \cup {NULL}

(* A thread of an earlier program, or of none, is past all it did.         *)
Bystander(u) == at[u] \in Gone /\ pc[u] = "out" /\ ~t_proc[u]

(* The menu.                                                               *)
MenuInv ==
  /\ pc[menu] \in {"out", "P", "Pheld", "asleep"}
  /\ pc[menu] # "out" => at[menu] = "status"
  /\ proc <=> at[menu] # "prompt"
  /\ user = NULL <=> at[menu] \in {"prompt", "fork"}
  /\ cwd_refs = (IF at[menu] \in {"fork", "wait", "status", "close"} THEN 1 ELSE 0)
  /\ at[menu] \in {"prompt", "fork"} => p_addrspace = NULL /\ elf_opens = 0
  /\ at[menu] = "prompt" => p_numthreads = 0
  /\ at[menu] = "fork" => /\ p_numthreads = 0 /\ ~p_vnode /\ sem_count = 0
                          /\ exited = NULL
  /\ at[menu] = "close" => exit_status = status

(* The thread u of the current program.                                    *)
ThreadInv(u) ==
  /\ pc[u] \in {"out", "V", "Vheld", "Vdone"}
  /\ pc[u] # "out" => at[u] = "thread_exit" /\ exited # NULL
  /\ p_numthreads = (IF t_proc[u] THEN 1 ELSE 0)
  /\ at[u] \in Inside \cup {"remthread"} => t_proc[u]
  /\ at[u] \in {"V", "zombie", "none"} => ~t_proc[u]
  /\ at[u] = "thread_exit" => (t_proc[u] <=> exited = NULL)
  /\ at[u] \in Inside \cup {"panic"} => exited = NULL
  /\ at[u] \in {"remthread", "V"} => exited # NULL

(* What the program holds, while it runs or has failed ...                 *)
HoldingsInv(u) ==
  exited = NULL =>
    /\ elf_opens = (IF at[u] \in Gone \cup {"vfs_open"} THEN 0 ELSE 1)
    /\ p_addrspace \in 0 .. Complete \cup {NULL}
    /\ at[u] \in {"vfs_open", "as_create"} => p_addrspace = NULL
    /\ at[u] \in {"load_elf", "define"} => p_addrspace \in 0 .. 2
    /\ at[u] = "user" => p_addrspace = Complete
    /\ at[u] \in {"define", "user"} => p_vnode

(* ... and once it has called _exit.                                       *)
ExitInv(u) ==
  /\ Taken => Raised(u) /\ pc[u] = "out"
  /\ sem_count = (IF Raised(u) /\ ~Taken THEN 1 ELSE 0)
  /\ exited # NULL =>
       /\ p_vnode
       /\ elf_opens = (IF at[menu] \in {"as_destroy", "free"} THEN 0 ELSE 1)
       /\ p_addrspace = (IF at[menu] = "free" THEN NULL ELSE Complete)

ProcInv ==
  /\ Types /\ MenuInv
  /\ \A u \in Users : u # user => Bystander(u)
  /\ user # NULL => ThreadInv(user) /\ HoldingsInv(user) /\ ExitInv(user)
----------------------------------------------------------------------------
(* The menu is not a program's thread.                                     *)
LEMMA Actors ==
  /\ menu \in Threads /\ menu \notin Users /\ NULL \notin Users /\ NULL \notin Int
  /\ \A u \in Users : u \in Threads /\ u # menu /\ u # NULL
  BY ProcessAssumption, SemaphoreAssumption, Zenon

(* One thread goes on, and the others stay where they are.                 *)
LEMMA Steps ==
  ASSUME Types, NEW t \in Threads, NEW x \in MenuLabels \cup UserLabels,
         at' = [at EXCEPT ![t] = x]
  PROVE  /\ at' \in [Threads -> MenuLabels \cup UserLabels] /\ at'[t] = x
         /\ \A s \in Threads : s # t => at'[s] = at[s]
  BY Zenon DEF Types

(* A thread that is doing something for a process is the current one's.    *)
LEMMA ActiveIsCurrent ==
  ASSUME ProcInv, NEW u \in Users, at[u] \notin Gone \/ pc[u] # "out" \/ t_proc[u]
  PROVE  /\ user = u /\ user # NULL /\ at[menu] \notin {"prompt", "fork"} /\ proc
         /\ ThreadInv(u) /\ HoldingsInv(u) /\ ExitInv(u)
  BY Actors, Zenon DEF ProcInv, Bystander, MenuInv

(* What a step of the current program's thread outside P and V keeps.      *)
LEMMA ThreadStep ==
  ASSUME ProcInv, NEW u \in Users, user = u, NEW x \in UserLabels,
         at' = [at EXCEPT ![u] = x],
         UNCHANGED <<user, proc, cwd_refs, exit_status>>,
         SemTypeOK', \A s \in Threads : s # u => pc'[s] = pc[s],
         t_proc' \in [Users -> BOOLEAN], \A v \in Users : v # u => t_proc'[v] = t_proc[v],
         p_vnode' \in BOOLEAN, exited' \in ExitCodes \cup {NULL},
         status' = (IF exited' = NULL THEN NULL ELSE exited' % 256),
         at[menu] = "close" => status' = status,
         ThreadInv(u)', HoldingsInv(u)', ExitInv(u)'
  PROVE  ProcInv'
<1>1. /\ at' \in [Threads -> MenuLabels \cup UserLabels] /\ at'[u] = x
      /\ \A s \in Threads : s # u => at'[s] = at[s]
  BY Actors, Steps, Zenon DEF ProcInv
<1>2. at'[menu] = at[menu] /\ pc'[menu] = pc[menu] /\ user # NULL
  BY <1>1, Actors, Zenon
<1>3. Types'
  <2>1. \A v \in Users : at'[v] \in UserLabels
    BY <1>1, Actors, Zenon DEF ProcInv, Types
  <2> QED
    BY <1>1, <1>2, <2>1, Zenon DEF ProcInv, Types
<1>4. at[menu] \notin {"prompt", "fork"}
  BY <1>2, Zenon DEF ProcInv, MenuInv
<1>5. MenuInv'
  BY <1>2, <1>4, ZenonT(60) DEF ProcInv, MenuInv
<1>6. \A v \in Users : v # user' => Bystander(v)'
  BY <1>1, Actors, Zenon DEF ProcInv, Bystander
<1> QED
  BY <1>2, <1>3, <1>5, <1>6, Zenon DEF ProcInv

(* runprogram: each step takes or gives back one thing.                    *)
LEMMA RunStep ==
  ASSUME ProcInv, NEW u \in Users,
         \/ RunprogramFails(u) \/ vfs_open(u) \/ as_create(u)
         \/ as_define_region(u) \/ load_elf(u) \/ as_define_pt(u) \/ kill_curthread(u)
  PROVE  ProcInv'
<1>1. at[u] \in Inside
  BY Zenon DEF RunprogramFails, runprogram_fails, vfs_open, as_create, as_define_region, load_elf,
         as_define_pt, kill_curthread, Goto, Inside
<1>2. /\ user = u /\ ThreadInv(u) /\ HoldingsInv(u) /\ ExitInv(u)
  BY <1>1, ActiveIsCurrent, Zenon DEF Inside, Gone
<1>3. exited = NULL /\ t_proc[u] /\ p_numthreads = 1 /\ pc[u] = "out" /\ ~Raised(u) /\ ~Taken
      /\ sem_count = 0
  BY <1>1, <1>2, Zenon DEF ThreadInv, ExitInv, Raised, Inside, Gone
<1>4. UNCHANGED <<user, proc, cwd_refs, exit_status, semvars, t_proc, p_numthreads, exited, status>>
  BY Zenon DEF RunprogramFails, vfs_open, as_create, as_define_region, load_elf,
         as_define_pt, kill_curthread, procvars
<1> DEFINE x == at'[u]
<1>5. /\ at' = [at EXCEPT ![u] = x]
      /\ x \in Inside \cup {"panic", "thread_exit"}
  <2>1. at \in [Threads -> MenuLabels \cup UserLabels] /\ u \in Threads
    BY Actors, Zenon DEF ProcInv, Types
  <2> QED
    BY <1>1, <2>1, Zenon DEF RunprogramFails, runprogram_fails, vfs_open, as_create, as_define_region,
         load_elf, as_define_pt, kill_curthread, Goto, Panic, Inside
<1>6. /\ p_vnode' \in BOOLEAN
  BY Zenon DEF RunprogramFails, vfs_open, as_create, as_define_region, load_elf,
         as_define_pt, kill_curthread, procvars, ProcInv, Types
<1>7. HoldingsInv(u)'
  <2>1. at \in [Threads -> MenuLabels \cup UserLabels] /\ u \in Threads
    BY Actors, Zenon DEF ProcInv, Types
  <2>2. CASE RunprogramFails(u)
    BY <1>2, <1>3, <1>4, <2>1, <2>2
       DEF RunprogramFails, runprogram_fails, Goto, HoldingsInv, Gone
  <2>3. CASE vfs_open(u) \/ as_create(u)
    BY <1>2, <1>3, <1>4, <2>1, <2>3
       DEF vfs_open, as_create, Goto, HoldingsInv, Gone, Complete
  <2>4. CASE as_define_region(u)
    BY <1>2, <1>3, <1>4, <2>1, <2>4
       DEF as_define_region, Panic, HoldingsInv, Gone, Complete
  <2>5. CASE load_elf(u)
    BY <1>2, <1>3, <1>4, <2>1, <2>5, Zenon
       DEF load_elf, Goto, HoldingsInv, Gone, Complete
  <2>6. CASE as_define_pt(u)
    BY <1>2, <1>3, <1>4, <2>1, <2>6
       DEF as_define_pt, Panic, HoldingsInv, Gone, Complete
  <2>7. CASE kill_curthread(u)
    BY <1>2, <1>3, <1>4, <2>1, <2>7, Zenon
       DEF kill_curthread, procvars, Panic, HoldingsInv, Gone, Complete
  <2> QED
    BY <2>2, <2>3, <2>4, <2>5, <2>6, <2>7, Zenon
<1>8. ThreadInv(u)'
  BY <1>2, <1>3, <1>4, <1>5, Zenon DEF ThreadInv, Inside, semvars
<1>9. pc' = pc /\ sem_count' = sem_count /\ SemTypeOK'
  BY <1>4, Zenon DEF semvars, SemTypeOK, ProcInv, Types
<1>10. ExitInv(u)'
  <2>1. at'[menu] = at[menu]
    BY <1>5, Actors, Zenon DEF ProcInv, Types
  <2>2. ~Raised(u)' /\ ~Taken'
    BY <1>3, <1>4, <1>9, <2>1, Zenon DEF Raised, Taken
  <2> QED
    BY <1>3, <1>4, <1>9, <2>2, Zenon DEF ExitInv
<1>11. x \in UserLabels
  BY <1>5, Zenon DEF UserLabels, Inside
<1>12. /\ t_proc' \in [Users -> BOOLEAN] /\ exited' \in ExitCodes \cup {NULL}
       /\ status' = (IF exited' = NULL THEN NULL ELSE exited' % 256)
  BY <1>4, Zenon DEF ProcInv, Types
<1>13. UNCHANGED <<user, proc, cwd_refs, exit_status, t_proc, status>>
  BY <1>4, Zenon
<1> HIDE DEF x
<1> QED
  BY <1>2, <1>5, <1>6, <1>7, <1>8, <1>9, <1>10, <1>11, <1>12, <1>13, ThreadStep, Zenon

(* sys__exit stores the status.                                            *)
LEMMA ExitStep ==
  ASSUME ProcInv, NEW u \in Users, NEW code \in ExitCodes, sys__exit(u, code)
  PROVE  ProcInv'
<1>1. /\ at[u] = "user" /\ pc[u] = "out" /\ at' = [at EXCEPT ![u] = "remthread"]
      /\ status' = code % 256 /\ exited' = code
      /\ UNCHANGED <<sem_count, pc, user, proc, p_numthreads, t_proc, p_addrspace, p_vnode,
                     elf_opens, cwd_refs, exit_status>>
  BY Zenon DEF sys__exit, Goto, semvars
<1>2. /\ user = u /\ ThreadInv(u) /\ HoldingsInv(u) /\ ExitInv(u)
  BY <1>1, ActiveIsCurrent, Zenon DEF Gone
<1>3. /\ exited = NULL /\ t_proc[u] /\ ~Raised(u) /\ ~Taken /\ sem_count = 0
      /\ elf_opens = 1 /\ p_addrspace = Complete /\ p_vnode
  BY <1>1, <1>2, Zenon DEF ThreadInv, HoldingsInv, ExitInv, Raised, Inside, Gone
<1>4. at'[u] = "remthread" /\ at'[menu] = at[menu]
  BY <1>1, Actors, ZenonT(60) DEF ProcInv, Types
<1>5. code # NULL
  BY ProcessAssumption, Zenon
<1>6. ThreadInv(u)' /\ HoldingsInv(u)'
  BY <1>1, <1>2, <1>4, <1>5, Zenon DEF ThreadInv, HoldingsInv, Inside
<1>7. ExitInv(u)'
  <2>1. ~Raised(u)' /\ ~Taken'
    BY <1>1, <1>3, <1>4, Zenon DEF Raised, Taken, Gone
  <2>2. at'[menu] \notin {"as_destroy", "free"}
    BY <1>3, <1>4, Zenon DEF Taken
  <2> QED
    BY <1>1, <1>3, <2>1, <2>2, Zenon DEF ExitInv
<1>8. SemTypeOK'
  BY Zenon DEF sys__exit, semvars, SemTypeOK, ProcInv, Types
<1>9. /\ t_proc' \in [Users -> BOOLEAN] /\ p_vnode' \in BOOLEAN
      /\ exited' \in ExitCodes \cup {NULL}
      /\ status' = (IF exited' = NULL THEN NULL ELSE exited' % 256)
      /\ at[menu] # "close"
  BY <1>1, <1>3, <1>5, Zenon DEF ProcInv, Types, Taken
<1> QED
  BY <1>1, <1>2, <1>6, <1>7, <1>8, <1>9, ThreadStep, Zenon DEF UserLabels

(* sys__exit detaches the thread.                                          *)
LEMMA DetachStep ==
  ASSUME ProcInv, NEW u \in Users, DetachOnExit(u)
  PROVE  ProcInv'
<1>1. /\ at[u] = "remthread" /\ pc[u] = "out" /\ at' = [at EXCEPT ![u] = "V"]
      /\ p_numthreads' = p_numthreads - 1 /\ t_proc' = [t_proc EXCEPT ![u] = FALSE]
      /\ UNCHANGED <<sem_count, pc, user, proc, p_addrspace, p_vnode, elf_opens, cwd_refs,
                     status, exit_status, exited>>
  BY Zenon DEF DetachOnExit, proc_remthread, Goto, semvars
<1>2. /\ user = u /\ ThreadInv(u) /\ ExitInv(u)
  BY <1>1, ActiveIsCurrent, Zenon DEF Gone
<1>3. /\ exited # NULL /\ t_proc[u] /\ ~Raised(u) /\ ~Taken /\ p_numthreads = 1
  BY <1>1, <1>2, Zenon DEF ThreadInv, ExitInv, Raised, Inside, Gone
<1>4. at'[u] = "V" /\ at'[menu] = at[menu]
  BY <1>1, Actors, Zenon DEF ProcInv, Types
<1>5. /\ t_proc' \in [Users -> BOOLEAN] /\ ~t_proc'[u]
      /\ \A v \in Users : v # u => t_proc'[v] = t_proc[v]
  BY <1>1, Zenon DEF ProcInv, Types
<1>6. p_numthreads' = 0
  BY <1>1, <1>3
<1>7. ThreadInv(u)' /\ HoldingsInv(u)'
  BY <1>1, <1>3, <1>4, <1>5, <1>6, Zenon DEF ThreadInv, HoldingsInv, Inside
<1>8. ExitInv(u)'
  <2>1. ~Raised(u)' /\ ~Taken'
    BY <1>1, <1>3, <1>4, Zenon DEF Raised, Taken, Gone
  <2> QED
    BY <1>1, <1>2, <1>3, <1>4, <2>1, Zenon DEF ExitInv
<1>9. SemTypeOK'
  BY Zenon DEF DetachOnExit, semvars, SemTypeOK, ProcInv, Types
<1>10. /\ p_vnode' \in BOOLEAN /\ exited' \in ExitCodes \cup {NULL}
       /\ status' = (IF exited' = NULL THEN NULL ELSE exited' % 256)
  BY <1>1, ZenonT(60) DEF ProcInv, Types
<1> QED
  BY <1>1, <1>2, <1>5, <1>7, <1>8, <1>9, <1>10, ThreadStep, Zenon DEF UserLabels

(* sys__exit calls V.                                                      *)
LEMMA SignalStep ==
  ASSUME ProcInv, NEW u \in Users, SignalExit(u)
  PROVE  ProcInv'
<1>1. /\ at[u] = "V" /\ pc[u] = "out" /\ at' = [at EXCEPT ![u] = "thread_exit"]
      /\ pc' = [pc EXCEPT ![u] = "V"] /\ V(u)
      /\ UNCHANGED <<sem_count, user, proc, p_numthreads, t_proc, p_addrspace, p_vnode,
                     elf_opens, cwd_refs, status, exit_status, exited>>
  BY Zenon DEF SignalExit, V, Move, Goto, procvars
<1>2. /\ user = u /\ ThreadInv(u) /\ ExitInv(u)
  BY <1>1, ActiveIsCurrent, Zenon DEF Gone
<1>3. /\ exited # NULL /\ ~t_proc[u] /\ ~Raised(u) /\ ~Taken
  BY <1>1, <1>2, Zenon DEF ThreadInv, ExitInv, Raised, Gone
<1>4. at'[u] = "thread_exit" /\ at'[menu] = at[menu]
  BY <1>1, Actors, ZenonT(60) DEF ProcInv, Types
<1>5. SemTypeOK'
  BY <1>1, SemTypeOKSimple, Actors, Zenon DEF ProcInv, Types
<1>6. pc'[u] = "V" /\ \A s \in Threads : s # u => pc'[s] = pc[s]
  BY <1>1, Actors, Zenon DEF ProcInv, Types, SemTypeOK
<1>7. ThreadInv(u)' /\ HoldingsInv(u)'
  BY <1>1, <1>2, <1>3, <1>4, <1>6, Zenon DEF ThreadInv, HoldingsInv, Inside
<1>8. ExitInv(u)'
  <2>1. ~Raised(u)' /\ ~Taken'
    BY <1>1, <1>3, <1>4, <1>6, Actors, Zenon DEF Raised, Taken
  <2> QED
    BY <1>1, <1>2, <1>3, <1>4, <2>1, Zenon DEF ExitInv
<1>9. /\ p_vnode' \in BOOLEAN /\ exited' \in ExitCodes \cup {NULL} /\ t_proc' \in [Users -> BOOLEAN]
      /\ status' = (IF exited' = NULL THEN NULL ELSE exited' % 256)
  BY <1>1, Zenon DEF ProcInv, Types
<1> QED
  BY <1>1, <1>2, <1>5, <1>6, <1>7, <1>8, <1>9, ThreadStep, Zenon DEF UserLabels

(* A thread of an earlier program goes away.                               *)
LEMMA BystanderStep ==
  ASSUME ProcInv, NEW u \in Users, user # u, NEW x \in Gone, at' = [at EXCEPT ![u] = x],
         UNCHANGED <<semvars, user, procvars>>
  PROVE  ProcInv'
<1>1. /\ at' \in [Threads -> MenuLabels \cup UserLabels] /\ at'[u] = x
      /\ \A s \in Threads : s # u => at'[s] = at[s]
  BY Actors, Steps, Zenon DEF ProcInv, Gone, UserLabels
<1>2. at'[menu] = at[menu] /\ \A v \in Users : v # u => at'[v] = at[v]
  BY <1>1, Actors, Zenon
<1>3. UNCHANGED <<sem_count, sem_lock, sem_wchan, pc, user, proc, p_numthreads, t_proc,
                  p_addrspace, p_vnode, elf_opens, cwd_refs, status, exit_status, exited>>
  BY Zenon DEF semvars, procvars
<1>4. Types'
  <2>1. SemTypeOK'
    BY <1>3, Zenon DEF ProcInv, Types, SemTypeOK
  <2>2. \A v \in Users : at'[v] \in UserLabels
    BY <1>1, <1>2, Zenon DEF ProcInv, Types, Gone, UserLabels
  <2> QED
    BY <1>1, <1>2, <1>3, <2>1, <2>2, SMTT(60) DEF ProcInv, Types
<1>5. MenuInv'
  BY <1>2, <1>3, Zenon DEF ProcInv, MenuInv
<1>6. ASSUME NEW v \in Users, v # user PROVE Bystander(v)'
  <2>1. CASE v = u
    BY <1>1, <1>3, <1>6, <2>1, Zenon DEF ProcInv, Bystander
  <2>2. CASE v # u
    BY <1>2, <1>3, <1>6, <2>2, Zenon DEF ProcInv, Bystander
  <2> QED
    BY <2>1, <2>2, Zenon
<1>7. ASSUME user # NULL PROVE ThreadInv(user)' /\ HoldingsInv(user)' /\ ExitInv(user)'
  <2>1. user \in Users /\ at'[user] = at[user] /\ at'[menu] = at[menu]
    BY <1>2, <1>7, Zenon DEF ProcInv, Types
  <2> QED
    BY <1>3, <1>7, <2>1, Zenon DEF ProcInv, ThreadInv, HoldingsInv, ExitInv, Raised, Taken
<1> QED
  BY <1>3, <1>4, <1>5, <1>6, <1>7, Zenon DEF ProcInv

(* thread_exit detaches a thread that still is attached.                   *)
LEMMA ThreadExitStep ==
  ASSUME ProcInv, NEW u \in Users, thread_exit(u)
  PROVE  ProcInv'
<1>1. /\ at[u] = "thread_exit" /\ pc[u] = "out" /\ at' = [at EXCEPT ![u] = "zombie"]
      /\ UNCHANGED <<sem_count, pc, user, proc, p_addrspace, p_vnode, elf_opens, cwd_refs,
                     status, exit_status, exited>>
  BY Zenon DEF thread_exit, proc_remthread, procvars, Goto, semvars
<1>2. CASE user # u
  <2>1. ~t_proc[u]
    BY <1>2, Zenon DEF ProcInv, Bystander
  <2>2. UNCHANGED <<semvars, user, procvars>>
    BY <2>1, Zenon DEF thread_exit
  <2> QED
    BY <1>1, <1>2, <2>2, BystanderStep, Zenon DEF Gone
<1>3. CASE user = u
  <2>1. /\ ThreadInv(u) /\ HoldingsInv(u) /\ ExitInv(u)
    BY <1>3, Actors, Zenon DEF ProcInv
  <2>2. at'[u] = "zombie" /\ at'[menu] = at[menu]
    BY <1>1, Actors, Zenon DEF ProcInv, Types
  <2>3. /\ t_proc' \in [Users -> BOOLEAN] /\ ~t_proc'[u] /\ p_numthreads' = 0
        /\ \A v \in Users : v # u => t_proc'[v] = t_proc[v]
    <3>1. CASE t_proc[u]
      <4>1. p_numthreads' = p_numthreads - 1 /\ t_proc' = [t_proc EXCEPT ![u] = FALSE]
        BY <3>1, Zenon DEF thread_exit, proc_remthread
      <4>2. p_numthreads = 1
        BY <2>1, <3>1, Zenon DEF ThreadInv
      <4> QED
        BY <4>1, <4>2 DEF ProcInv, Types
    <3>2. CASE ~t_proc[u]
      BY <2>1, <3>2, ZenonT(60) DEF thread_exit, procvars, ThreadInv, ProcInv, Types
    <3> QED
      BY <3>1, <3>2, Zenon
  <2>4. ThreadInv(u)' /\ HoldingsInv(u)'
    BY <1>1, <2>1, <2>2, <2>3, Zenon DEF ThreadInv, HoldingsInv, Inside, Gone
  <2>5. ExitInv(u)'
    <3>1. (Raised(u)' <=> Raised(u)) /\ (Taken' <=> Taken)
      BY <1>1, <2>2, Zenon DEF Raised, Taken, Gone
    <3> QED
      BY <1>1, <2>1, <2>2, <3>1, Zenon DEF ExitInv
  <2>6. SemTypeOK'
    BY Zenon DEF thread_exit, semvars, SemTypeOK, ProcInv, Types
  <2>7. /\ p_vnode' \in BOOLEAN /\ exited' \in ExitCodes \cup {NULL}
        /\ status' = (IF exited' = NULL THEN NULL ELSE exited' % 256)
    BY <1>1, Zenon DEF ProcInv, Types
  <2> QED
    BY <1>1, <1>3, <2>3, <2>4, <2>5, <2>6, <2>7, ThreadStep, Zenon DEF UserLabels
<1> QED
  BY <1>2, <1>3, Zenon

(* exorcise frees the thread structure.                                    *)
LEMMA DestroyStep ==
  ASSUME ProcInv, NEW u \in Users, thread_destroy(u)
  PROVE  ProcInv'
<1>1. /\ at[u] = "zombie" /\ pc[u] = "out" /\ at' = [at EXCEPT ![u] = "none"]
      /\ UNCHANGED <<semvars, user, procvars>>
      /\ UNCHANGED <<sem_count, pc, user, proc, p_numthreads, t_proc, p_addrspace, p_vnode,
                     elf_opens, cwd_refs, status, exit_status, exited>>
  BY Zenon DEF thread_destroy, procvars, Goto, semvars
<1>2. CASE user # u
  BY <1>1, <1>2, BystanderStep, Zenon DEF Gone
<1>3. CASE user = u
  <2>1. /\ ThreadInv(u) /\ HoldingsInv(u) /\ ExitInv(u)
    BY <1>3, Actors, Zenon DEF ProcInv
  <2>2. at'[u] = "none" /\ at'[menu] = at[menu]
    BY <1>1, Actors, Zenon DEF ProcInv, Types
  <2>4. ThreadInv(u)' /\ HoldingsInv(u)'
    BY <1>1, <2>1, <2>2, Zenon DEF ThreadInv, HoldingsInv, Inside, Gone
  <2>5. ExitInv(u)'
    <3>1. (Raised(u)' <=> Raised(u)) /\ (Taken' <=> Taken)
      BY <1>1, <2>2, Zenon DEF Raised, Taken, Gone
    <3> QED
      BY <1>1, <2>1, <2>2, <3>1, Zenon DEF ExitInv
  <2>6. SemTypeOK'
    BY <1>1, ZenonT(60) DEF semvars, SemTypeOK, ProcInv, Types
  <2>7. /\ p_vnode' \in BOOLEAN /\ exited' \in ExitCodes \cup {NULL}
        /\ status' = (IF exited' = NULL THEN NULL ELSE exited' % 256)
        /\ t_proc' \in [Users -> BOOLEAN]
    BY <1>1, Zenon DEF ProcInv, Types
  <2> QED
    BY <1>1, <1>3, <2>4, <2>5, <2>6, <2>7, ThreadStep, Zenon DEF UserLabels
<1> QED
  BY <1>2, <1>3, Zenon

(* What a step inside P or V keeps.                                        *)
LEMMA SemFrame ==
  ASSUME ProcInv, NEW u \in Users, user = u, SemTypeOK', UNCHANGED <<at, user, procvars>>,
         \A v \in Users : v # u => pc'[v] = pc[v],
         pc'[menu] \in {"out", "P", "Pheld", "asleep"},
         pc'[menu] # "out" => at[menu] = "status",
         pc'[u] \in {"out", "V", "Vheld", "Vdone"},
         pc'[u] # "out" => at[u] = "thread_exit" /\ exited # NULL,
         Taken' => Raised(u)' /\ pc'[u] = "out",
         sem_count' = (IF Raised(u)' /\ ~Taken' THEN 1 ELSE 0)
  PROVE  ProcInv'
<1>1. UNCHANGED <<at, user, proc, p_numthreads, t_proc, p_addrspace, p_vnode, elf_opens,
                  cwd_refs, status, exit_status, exited>>
  BY Zenon DEF procvars
<1>2. user # NULL /\ ThreadInv(u) /\ HoldingsInv(u) /\ ExitInv(u)
  BY Actors, Zenon DEF ProcInv
<1>3. at[menu] \notin {"prompt", "fork"}
  BY <1>2, Zenon DEF ProcInv, MenuInv
<1>4. Types'
  BY <1>1 DEF ProcInv, Types
<1>5. MenuInv'
  BY <1>1, <1>3, Zenon DEF ProcInv, MenuInv
<1>6. \A v \in Users : v # user' => Bystander(v)'
  BY <1>1, Zenon DEF ProcInv, Bystander
<1>7. ThreadInv(u)' /\ HoldingsInv(u)'
  BY <1>1, <1>2, Zenon DEF ThreadInv, HoldingsInv
<1>8. ExitInv(u)'
  BY <1>1, <1>2, Zenon DEF ExitInv
<1> QED
  BY <1>1, <1>4, <1>5, <1>6, <1>7, <1>8, Zenon DEF ProcInv

(* The steps of a V.                                                       *)
LEMMA VStep ==
  ASSUME ProcInv, NEW u \in Users, SemStep(u), UNCHANGED <<at, user, procvars>>
  PROVE  ProcInv'
<1>1. pc[u] # "out"
  BY Zenon DEF SemStep, AcquireP, PassP, wchan_sleep, AcquireV, RaiseV, wchan_wakeone, ReleaseV, Move
<1>2. user = u /\ user # NULL /\ ThreadInv(u) /\ ExitInv(u)
  BY <1>1, ActiveIsCurrent, Zenon
<1>3. /\ pc[u] \in {"V", "Vheld", "Vdone"} /\ at[u] = "thread_exit" /\ exited # NULL /\ ~Taken
  BY <1>1, <1>2, Zenon DEF ThreadInv, ExitInv
<1>4. AcquireV(u) \/ RaiseV(u) \/ ReleaseV(u)
  BY <1>3, Zenon DEF SemStep, AcquireP, PassP, wchan_sleep, Move
<1>5. SemTypeOK /\ SemTypeOK' /\ pc \in [Threads -> SemLabels]
  BY <1>4, SemTypeOKSimple, SemTypeOKRaise, Actors, Zenon DEF ProcInv, Types, SemTypeOK
<1>6. at' = at /\ exited' = exited
  BY Zenon DEF procvars
<1>7. pc[menu] \in {"out", "P", "Pheld", "asleep"} /\ (pc[menu] # "out" => at[menu] = "status")
  BY Zenon DEF ProcInv, MenuInv
<1>8. CASE AcquireV(u) \/ ReleaseV(u)
  <2>1. /\ pc'[u] = (IF AcquireV(u) THEN "Vheld" ELSE "out") /\ sem_count' = sem_count
        /\ \A s \in Threads : s # u => pc'[s] = pc[s]
    BY <1>5, <1>8, Actors, Zenon DEF AcquireV, ReleaseV, Move
  <2>2. pc'[menu] = pc[menu] /\ \A v \in Users : v # u => pc'[v] = pc[v]
    BY <2>1, Actors, Zenon
  <2>3. (Raised(u)' <=> Raised(u)) /\ ~Taken'
    BY <1>3, <1>6, <1>8, <2>1, <2>2, Zenon DEF Raised, Taken, AcquireV, ReleaseV, Move, Gone
  <2>4. sem_count' = (IF Raised(u)' /\ ~Taken' THEN 1 ELSE 0)
    BY <1>2, <1>3, <2>1, <2>3, Zenon DEF ExitInv
  <2>5. pc'[u] \in {"out", "V", "Vheld", "Vdone"}
    BY <2>1, Zenon
  <2> QED
    BY <1>2, <1>3, <1>5, <1>7, <2>2, <2>3, <2>4, <2>5, SemFrame, Zenon
<1>9. CASE RaiseV(u)
  <2>1. pc[u] = "Vheld" /\ sem_count' = sem_count + 1
    BY <1>9, Zenon DEF RaiseV, wchan_wakeone
  <2>2. sem_count' = 1
    BY <1>2, <2>1 DEF ExitInv, Raised
  <2>3. /\ pc'[u] = "Vdone" /\ pc'[menu] \in {pc[menu], "P"}
        /\ pc'[menu] # pc[menu] => pc[menu] = "asleep"
        /\ \A v \in Users : v # u => pc'[v] = pc[v]
    <3>1. CASE sem_wchan = << >>
      BY <1>5, <1>9, <3>1, Actors, Zenon DEF RaiseV, wchan_wakeone
    <3>2. CASE sem_wchan # << >>
      <4> DEFINE h == Head(sem_wchan)
      <4>1. h \in Threads /\ pc[h] = "asleep" /\ pc' = [pc EXCEPT ![u] = "Vdone", ![h] = "P"]
        BY <1>5, <1>9, <3>2, HeadAsleep, Zenon DEF RaiseV, wchan_wakeone
      <4> HIDE DEF h
      <4>2. h \notin Users
        BY <1>2, <1>3, <4>1, Zenon DEF ProcInv, Bystander
      <4>3. h = menu
        BY <4>1, <4>2, ProcessAssumption, Zenon
      <4> QED
        BY <1>5, <4>1, <4>3, Actors, Zenon
    <3> QED
      BY <3>1, <3>2, Zenon
  <2>4. Raised(u)' /\ ~Taken'
    BY <1>3, <1>6, <2>3, Zenon DEF Raised, Taken, Gone
  <2>5. /\ pc'[menu] \in {"out", "P", "Pheld", "asleep"}
        /\ pc'[menu] # "out" => at[menu] = "status"
    BY <1>7, <2>3, Zenon
  <2> QED
    BY <1>2, <1>3, <1>5, <2>2, <2>3, <2>4, <2>5, SemFrame, Zenon
<1> QED
  BY <1>4, <1>8, <1>9, Zenon

(* The steps of the menu's P.                                              *)
LEMMA PStep ==
  ASSUME ProcInv, SemStep(menu), UNCHANGED <<at, user, procvars>>
  PROVE  ProcInv'
<1>1. pc[menu] \in {"P", "Pheld"} /\ at[menu] = "status"
  BY Zenon DEF SemStep, AcquireP, PassP, wchan_sleep, AcquireV, RaiseV, wchan_wakeone, ReleaseV, Move,
         ProcInv, MenuInv
<1>0. PICK u \in Users : user = u
  BY <1>1, Zenon DEF ProcInv, Types, MenuInv
<1>2. ThreadInv(u) /\ ExitInv(u) /\ ~Taken
  BY <1>0, <1>1, Actors, Zenon DEF ProcInv, Taken
<1>3. AcquireP(menu) \/ PassP(menu) \/ wchan_sleep(menu)
  BY <1>1, Zenon DEF SemStep, AcquireV, RaiseV, wchan_wakeone, ReleaseV, Move
<1>4. SemTypeOK /\ SemTypeOK' /\ pc \in [Threads -> SemLabels]
  BY <1>3, SemTypeOKSimple, SemTypeOKSleep, Actors, Zenon DEF ProcInv, Types, SemTypeOK
<1>5. at' = at /\ exited' = exited
  BY Zenon DEF procvars
<1>6. /\ pc'[menu] \in {"Pheld", "out", "asleep"}
      /\ \A s \in Threads : s # menu => pc'[s] = pc[s]
  BY <1>3, <1>4, Actors, Zenon DEF AcquireP, PassP, wchan_sleep, Move
<1>7. /\ pc'[u] = pc[u] /\ \A v \in Users : pc'[v] = pc[v]
      /\ pc[u] \in {"out", "V", "Vheld", "Vdone"}
      /\ pc[u] # "out" => at[u] = "thread_exit" /\ exited # NULL
  BY <1>2, <1>6, Actors, Zenon DEF ThreadInv
<1>8. Raised(u)' <=> Raised(u)
  BY <1>5, <1>7, Zenon DEF Raised
<1>9. CASE AcquireP(menu) \/ wchan_sleep(menu)
  <2>1. pc'[menu] # "out" /\ sem_count' = sem_count
    BY <1>4, <1>9, Actors, Zenon DEF AcquireP, wchan_sleep, Move
  <2>2. ~Taken'
    BY <1>1, <1>5, <2>1, Zenon DEF Taken
  <2>3. sem_count' = (IF Raised(u)' /\ ~Taken' THEN 1 ELSE 0)
    BY <1>2, <1>8, <2>1, <2>2, Zenon DEF ExitInv
  <2> QED
    BY <1>0, <1>1, <1>4, <1>6, <1>7, <2>2, <2>3, SemFrame, Zenon
<1>10. CASE PassP(menu)
  <2>1. /\ pc'[menu] = "out" /\ sem_count > 0 /\ sem_count' = sem_count - 1 /\ pc[menu] = "Pheld"
    BY <1>4, <1>10, Actors, Zenon DEF PassP, Move
  <2>2. Raised(u) /\ sem_count' = 0
    BY <1>2, <2>1 DEF ExitInv
  <2>3. pc[u] = "out"
    <3>1. pc[u] \notin Holding
      BY <1>2, <1>4, <2>1, Actors, Zenon DEF SemTypeOK, Holding
    <3> QED
      BY <2>2, <3>1, Zenon DEF Raised, Holding
  <2>4. Taken'
    BY <1>1, <1>5, <2>1, Zenon DEF Taken
  <2>5. Raised(u)' /\ sem_count' = (IF Raised(u)' /\ ~Taken' THEN 1 ELSE 0)
    BY <1>8, <2>2, <2>4, Zenon
  <2> QED
    BY <1>0, <1>1, <1>4, <1>6, <1>7, <2>1, <2>3, <2>5, SemFrame, Zenon
<1> QED
  BY <1>3, <1>9, <1>10, Zenon

(* The menu between two programs: every thread is a bystander, so that     *)
(* nobody is in the semaphore.                                             *)
LEMMA NobodyInside ==
  ASSUME ProcInv, at[menu] \in {"prompt", "fork"}
  PROVE  user = NULL /\ \A u \in Users : Bystander(u)
  BY Actors, Zenon DEF ProcInv, MenuInv

(* proc_create_runprogram.                                                 *)
LEMMA CreateStep ==
  ASSUME ProcInv, proc_create_runprogram
  PROVE  ProcInv'
<1>1. /\ at[menu] = "prompt" /\ pc[menu] = "out" /\ at' = [at EXCEPT ![menu] = "fork"]
      /\ proc' = TRUE /\ p_numthreads' = 0 /\ p_addrspace' = NULL /\ p_vnode' = FALSE
      /\ cwd_refs' = cwd_refs + 1 /\ sem_count' = 0 /\ sem_lock' = NoThread
      /\ sem_wchan' = << >> /\ status' = NULL /\ exited' = NULL
      /\ UNCHANGED <<pc, user, t_proc, elf_opens, exit_status>>
  BY Zenon DEF proc_create_runprogram, Goto
<1>2. /\ user = NULL /\ elf_opens = 0 /\ cwd_refs = 0
      /\ \A u \in Users : Bystander(u)
  BY <1>1, NobodyInside, Zenon DEF ProcInv, MenuInv
<1>3. /\ at' \in [Threads -> MenuLabels \cup UserLabels] /\ at'[menu] = "fork"
      /\ \A u \in Users : at'[u] = at[u]
  BY <1>1, Actors, Steps, Zenon DEF ProcInv, MenuLabels
<1>4. \A t \in Threads : pc[t] = "out"
  BY <1>1, <1>2, ProcessAssumption, Zenon DEF Bystander
<1>5. SemTypeOK'
  <2>1. pc \in [Threads -> SemLabels]
    BY Zenon DEF ProcInv, Types, SemTypeOK
  <2> QED
    BY <1>1, <1>4, <2>1, SemaphoreAssumption DEF SemTypeOK, Holding
<1>6. Types'
  BY <1>1, <1>3, <1>5, Zenon DEF ProcInv, Types, MenuLabels
<1>7. cwd_refs' = 1
  BY <1>1, <1>2
<1>8. MenuInv'
  BY <1>1, <1>2, <1>3, <1>7, Zenon DEF MenuInv
<1>9. \A u \in Users : Bystander(u)'
  BY <1>1, <1>2, <1>3, Zenon DEF Bystander
<1> QED
  BY <1>1, <1>2, <1>6, <1>8, <1>9, Zenon DEF ProcInv

(* thread_fork.                                                            *)
LEMMA ForkStep ==
  ASSUME ProcInv, NEW u \in Users, thread_fork(u)
  PROVE  ProcInv'
<1>1. /\ at[menu] = "fork" /\ at[u] = "none"
      /\ at' = [at EXCEPT ![menu] = "wait", ![u] = "vfs_open"]
      /\ user' = u /\ p_numthreads' = p_numthreads + 1
      /\ t_proc' = [t_proc EXCEPT ![u] = TRUE]
      /\ UNCHANGED <<sem_count, sem_lock, sem_wchan, pc, proc, p_addrspace, p_vnode, elf_opens,
                     cwd_refs, status, exit_status, exited>>
  BY Zenon DEF thread_fork, semvars
<1>2. /\ \A v \in Users : Bystander(v)
      /\ pc[menu] = "out" /\ proc /\ cwd_refs = 1 /\ p_addrspace = NULL /\ elf_opens = 0
      /\ p_numthreads = 0 /\ ~p_vnode /\ sem_count = 0 /\ exited = NULL
  BY <1>1, NobodyInside, Zenon DEF ProcInv, MenuInv
<1>3. /\ at' \in [Threads -> MenuLabels \cup UserLabels]
      /\ at'[menu] = "wait" /\ at'[u] = "vfs_open"
      /\ \A v \in Users : v # u => at'[v] = at[v]
  BY <1>1, Actors, Zenon DEF ProcInv, Types, MenuLabels, UserLabels
<1>4. /\ t_proc' \in [Users -> BOOLEAN] /\ t_proc'[u]
      /\ \A v \in Users : v # u => t_proc'[v] = t_proc[v]
  BY <1>1, Zenon DEF ProcInv, Types
<1>5. Types'
  <2>1. SemTypeOK'
    BY <1>1, ZenonT(60) DEF ProcInv, Types, SemTypeOK
  <2>2. \A v \in Users : at'[v] \in UserLabels
    BY <1>3, Zenon DEF ProcInv, Types, UserLabels
  <2>3. at'[menu] \in MenuLabels /\ user' \in Users \cup {NULL}
    BY <1>1, <1>3, Zenon DEF MenuLabels
  <2> QED
    BY <1>1, <1>3, <1>4, <2>1, <2>2, <2>3, ZenonT(60) DEF ProcInv, Types
<1>6. MenuInv'
  BY <1>1, <1>2, <1>3, Actors, Zenon DEF MenuInv
<1>7. \A v \in Users : v # u => Bystander(v)'
  BY <1>1, <1>2, <1>3, <1>4, Zenon DEF Bystander
<1>8. p_numthreads' = 1 /\ pc[u] = "out"
  BY <1>1, <1>2 DEF Bystander
<1>9. ThreadInv(u)' /\ HoldingsInv(u)'
  BY <1>1, <1>2, <1>3, <1>4, <1>8, Zenon DEF ThreadInv, HoldingsInv, Inside
<1>10. ExitInv(u)'
  <2>1. ~Raised(u)' /\ ~Taken'
    BY <1>1, <1>2, <1>3, Zenon DEF Raised, Taken
  <2> QED
    BY <1>1, <1>2, <2>1, Zenon DEF ExitInv
<1> QED
  BY <1>1, <1>5, <1>6, <1>7, <1>9, <1>10, Zenon DEF ProcInv

(* What a step of the menu while there is a process keeps.                 *)
LEMMA MenuFrame ==
  ASSUME ProcInv, NEW u \in Users, user = u, NEW x \in MenuLabels,
         at' = [at EXCEPT ![menu] = x],
         UNCHANGED <<user, p_numthreads, t_proc, p_vnode, status, exited>>,
         SemTypeOK', \A v \in Users : pc'[v] = pc[v], proc' \in BOOLEAN,
         exit_status' \in 0 .. 255 \cup {NULL},
         MenuInv', ExitInv(u)',
         exited = NULL => UNCHANGED <<elf_opens, p_addrspace>>
  PROVE  ProcInv'
<1>1. /\ at' \in [Threads -> MenuLabels \cup UserLabels] /\ at'[menu] = x
      /\ \A v \in Users : at'[v] = at[v]
  BY Actors, Steps, Zenon DEF ProcInv
<1>2. ThreadInv(u) /\ HoldingsInv(u) /\ user # NULL
  BY Actors, Zenon DEF ProcInv
<1>3. Types'
  BY <1>1, Zenon DEF ProcInv, Types
<1>4. \A v \in Users : v # user' => Bystander(v)'
  BY <1>1, Zenon DEF ProcInv, Bystander
<1>5. ThreadInv(u)'
  BY <1>1, <1>2, Zenon DEF ThreadInv
<1>6. HoldingsInv(u)'
  BY <1>1, <1>2, Zenon DEF HoldingsInv
<1> QED
  BY <1>2, <1>3, <1>4, <1>5, <1>6, Zenon DEF ProcInv

(* proc_wait starts its P.                                                 *)
LEMMA WaitStep ==
  ASSUME ProcInv, proc_wait
  PROVE  ProcInv'
<1>1. /\ at[menu] = "wait" /\ pc[menu] = "out" /\ at' = [at EXCEPT ![menu] = "status"]
      /\ P(menu) /\ pc' = [pc EXCEPT ![menu] = "P"]
      /\ UNCHANGED <<sem_count, user, proc, p_numthreads, t_proc, p_addrspace, p_vnode,
                     elf_opens, cwd_refs, status, exit_status, exited>>
  BY Zenon DEF proc_wait, Goto, P, Move, procvars
<1>2. PICK u \in Users : user = u
  BY <1>1, Zenon DEF ProcInv, Types, MenuInv
<1>3. ExitInv(u) /\ ~Taken
  BY <1>1, <1>2, Actors, Zenon DEF ProcInv, Taken
<1>4. /\ at'[menu] = "status" /\ \A v \in Users : at'[v] = at[v]
      /\ pc'[menu] = "P" /\ \A v \in Users : pc'[v] = pc[v]
  BY <1>1, Actors, ZenonT(60) DEF ProcInv, Types, SemTypeOK
<1>5. SemTypeOK'
  BY <1>1, SemTypeOKSimple, Actors, Zenon DEF ProcInv, Types
<1>6. MenuInv'
  BY <1>1, <1>4, Zenon DEF ProcInv, MenuInv
<1>7. ExitInv(u)'
  <2>1. (Raised(u)' <=> Raised(u)) /\ ~Taken'
    BY <1>1, <1>4, Zenon DEF Raised, Taken
  <2> QED
    BY <1>1, <1>3, <1>4, <2>1, Zenon DEF ExitInv
<1>8. proc' \in BOOLEAN /\ exit_status' \in 0 .. 255 \cup {NULL}
  BY <1>1, Zenon DEF ProcInv, Types
<1> QED
  BY <1>1, <1>2, <1>4, <1>5, <1>6, <1>7, <1>8, MenuFrame, Zenon DEF MenuLabels

(* The unit is taken: the program has called _exit, and its thread is done *)
(* with the process.                                                       *)
LEMMA TakenFacts ==
  ASSUME ProcInv, Taken
  PROVE  \E u \in Users :
           /\ user = u /\ exited # NULL /\ at[u] \in Gone /\ pc[u] = "out" /\ ExitInv(u)
           /\ ~t_proc[u] /\ p_numthreads = 0
           /\ status \in 0 .. 255 /\ status = exited % 256 /\ pc[menu] = "out"
<1>1. at[menu] \notin {"prompt", "fork"} /\ pc[menu] = "out"
  BY Zenon DEF Taken, ProcInv, MenuInv
<1>2. PICK u \in Users : user = u
  BY <1>1, Zenon DEF ProcInv, Types, MenuInv
<1>3. /\ ThreadInv(u) /\ ExitInv(u)
  BY <1>2, Actors, Zenon DEF ProcInv
<1>4. exited # NULL /\ at[u] \in Gone /\ pc[u] = "out"
  BY <1>3, Zenon DEF ExitInv, Raised
<1>5. ~t_proc[u] /\ p_numthreads = 0
  BY <1>3, <1>4, Zenon DEF ThreadInv, Gone
<1>6. status = exited % 256 /\ exited \in Int
  BY <1>4, ProcessAssumption, Zenon DEF ProcInv, Types
<1>7. status \in 0 .. 255
  BY <1>6
<1> QED
  BY <1>1, <1>2, <1>3, <1>4, <1>5, <1>6, <1>7, Zenon

(* proc_wait returns the status, and proc_destroy goes through what the    *)
(* process holds.                                                          *)
LEMMA DestroySteps ==
  ASSUME ProcInv, ReadStatus \/ proc_destroy \/ as_destroy
  PROVE  ProcInv'
<1> DEFINE x == IF ReadStatus THEN "close" ELSE IF proc_destroy THEN "as_destroy" ELSE "free"
<1>1. /\ at' = [at EXCEPT ![menu] = x] /\ pc[menu] = "out"
      /\ x = "close" => /\ at[menu] = "status" /\ exit_status' = status
                        /\ UNCHANGED <<elf_opens, cwd_refs, p_addrspace>>
      /\ x = "as_destroy" => /\ at[menu] = "close" /\ elf_opens' = elf_opens - 1
                             /\ cwd_refs' = cwd_refs - 1 /\ UNCHANGED <<p_addrspace, exit_status>>
      /\ x = "free" => /\ at[menu] = "as_destroy" /\ p_addrspace' = NULL
                       /\ UNCHANGED <<elf_opens, cwd_refs, exit_status>>
      /\ UNCHANGED <<sem_count, sem_lock, sem_wchan, pc, user, proc, p_numthreads, t_proc,
                     p_vnode, status, exited>>
  BY Zenon DEF ReadStatus, proc_destroy, as_destroy, Goto, semvars
<1>2. x \in {"close", "as_destroy", "free"}
  OBVIOUS
<1> HIDE DEF x
<1>3. Taken
  BY <1>1, <1>2, Zenon DEF Taken
<1>4. PICK u \in Users :
           /\ user = u /\ exited # NULL /\ at[u] \in Gone /\ pc[u] = "out" /\ ExitInv(u)
           /\ ~t_proc[u] /\ p_numthreads = 0
           /\ status \in 0 .. 255 /\ status = exited % 256 /\ pc[menu] = "out"
  BY <1>3, TakenFacts, Zenon
<1>5. at'[menu] = x /\ \A v \in Users : at'[v] = at[v]
  BY <1>1, Actors, ZenonT(60) DEF ProcInv, Types
<1>6. SemTypeOK' /\ proc' \in BOOLEAN
  BY <1>1, ZenonT(60) DEF ProcInv, Types, SemTypeOK
<1>7. exit_status' \in 0 .. 255 \cup {NULL}
  BY <1>1, <1>2, <1>4, ZenonT(60) DEF ProcInv, Types
<1>8. /\ elf_opens' = (IF x \in {"as_destroy", "free"} THEN 0 ELSE 1)
      /\ p_addrspace' = (IF x = "free" THEN NULL ELSE Complete)
      /\ cwd_refs' = (IF x \in {"fork", "wait", "status", "close"} THEN 1 ELSE 0)
  <2>1. /\ elf_opens = (IF at[menu] \in {"as_destroy", "free"} THEN 0 ELSE 1)
        /\ p_addrspace = (IF at[menu] = "free" THEN NULL ELSE Complete)
        /\ cwd_refs = (IF at[menu] \in {"fork", "wait", "status", "close"} THEN 1 ELSE 0)
    BY <1>4, Zenon DEF ExitInv, ProcInv, MenuInv
  <2> QED
    BY <1>1, <1>2, <2>1
<1>9. MenuInv'
  <2>1. proc /\ user # NULL
    BY <1>1, <1>2, <1>4, Actors, Zenon DEF ProcInv, MenuInv
  <2>2. x = "close" => exit_status' = status'
    BY <1>1, Zenon
  <2> QED
    BY <1>1, <1>2, <1>5, <1>8, <2>1, <2>2, Zenon DEF MenuInv
<1>10. ExitInv(u)'
  <2>1. Raised(u)' /\ Taken'
    BY <1>1, <1>2, <1>4, <1>5, Zenon DEF Raised, Taken
  <2>2. sem_count' = 0 /\ p_vnode'
    BY <1>1, <1>3, <1>4, Zenon DEF ExitInv
  <2> QED
    BY <1>1, <1>4, <1>5, <1>8, <2>1, <2>2, ZenonT(60) DEF ExitInv
<1>11. x \in MenuLabels
  BY <1>2, Zenon DEF MenuLabels
<1> QED
  BY <1>1, <1>4, <1>5, <1>6, <1>7, <1>9, <1>10, <1>11, MenuFrame, Zenon

(* The process is freed.                                                   *)
LEMMA FreeStep ==
  ASSUME ProcInv, proc_end_waitpid
  PROVE  ProcInv'
<1>1. /\ at[menu] = "free" /\ pc[menu] = "out" /\ at' = [at EXCEPT ![menu] = "prompt"]
      /\ proc' = FALSE /\ user' = NULL
      /\ UNCHANGED <<sem_count, sem_lock, sem_wchan, pc, p_numthreads, t_proc, p_addrspace,
                     p_vnode, elf_opens, cwd_refs, status, exit_status, exited>>
  BY Zenon DEF proc_end_waitpid, Goto, semvars
<1>2. Taken
  BY <1>1, Zenon DEF Taken
<1>3. PICK u \in Users :
           /\ user = u /\ exited # NULL /\ at[u] \in Gone /\ pc[u] = "out" /\ ExitInv(u)
           /\ ~t_proc[u] /\ p_numthreads = 0
           /\ status \in 0 .. 255 /\ status = exited % 256 /\ pc[menu] = "out"
  BY <1>2, TakenFacts, Zenon
<1>4. /\ at' \in [Threads -> MenuLabels \cup UserLabels] /\ at'[menu] = "prompt"
      /\ \A v \in Users : at'[v] = at[v]
  BY <1>1, Actors, Steps, Zenon DEF ProcInv, MenuLabels
<1>5. Types'
  <2>1. SemTypeOK'
    BY <1>1, ZenonT(60) DEF ProcInv, Types, SemTypeOK
  <2> QED
    BY <1>1, <1>4, <2>1, Zenon DEF ProcInv, Types, MenuLabels
<1>6. elf_opens = 0 /\ p_addrspace = NULL /\ cwd_refs = 0
  BY <1>1, <1>3, ZenonT(60) DEF ExitInv, ProcInv, MenuInv
<1>7. MenuInv'
  BY <1>1, <1>3, <1>4, <1>6, Zenon DEF MenuInv
<1>8. \A v \in Users : Bystander(v)'
  BY <1>1, <1>3, <1>4, ZenonT(60) DEF ProcInv, Bystander
<1> QED
  BY <1>1, <1>5, <1>7, <1>8, Zenon DEF ProcInv
----------------------------------------------------------------------------
(* Nothing runs yet.                                                       *)
LEMMA ProcInit == Init => ProcInv
<1> SUFFICES ASSUME Init PROVE ProcInv
  OBVIOUS
<1>1. /\ at[menu] = "prompt" /\ \A u \in Users : at[u] = "none" /\ pc[u] = "out" /\ ~t_proc[u]
      /\ pc[menu] = "out" /\ at \in [Threads -> MenuLabels \cup UserLabels]
  BY Actors, Zenon DEF Init, sem_create, MenuLabels, UserLabels
<1>2. Types
  BY <1>1, SemTypeOKInit, Zenon DEF Init, Types, MenuLabels, UserLabels
<1>3. MenuInv
  BY <1>1, Zenon DEF Init, MenuInv
<1> QED
  BY <1>1, <1>2, <1>3, Zenon DEF Init, ProcInv, Bystander, Gone

(* Every step keeps the invariant.                                         *)
LEMMA ProcNext == ProcInv /\ [Next]_vars => ProcInv'
<1> SUFFICES ASSUME ProcInv, [Next]_vars PROVE ProcInv'
  OBVIOUS
<1>1. CASE UNCHANGED vars
  <2>1. UNCHANGED <<sem_count, sem_lock, sem_wchan, pc, at, user, proc, p_numthreads, t_proc,
                    p_addrspace, p_vnode, elf_opens, cwd_refs, status, exit_status, exited>>
    BY <1>1, Zenon DEF vars, semvars, procvars
  <2>2. Types' /\ MenuInv'
    BY <2>1 DEF ProcInv, Types, SemTypeOK, MenuInv
  <2>3. \A u \in Users : Bystander(u)' = Bystander(u)
    BY <2>1, Zenon DEF Bystander
  <2>4. ThreadInv(user)' = ThreadInv(user) /\ HoldingsInv(user)' = HoldingsInv(user)
    BY <2>1, Zenon DEF ThreadInv, HoldingsInv
  <2>5. ExitInv(user)' = ExitInv(user)
    BY <2>1, Zenon DEF ExitInv, Raised, Taken
  <2> QED
    BY <2>1, <2>2, <2>3, <2>4, <2>5, Zenon DEF ProcInv
<1>2. CASE proc_create_runprogram
  BY <1>2, CreateStep, Zenon
<1>3. CASE MenuStep
  BY <1>3, ForkStep, WaitStep, DestroySteps, FreeStep, PStep, Zenon DEF MenuStep
<1>4. ASSUME NEW u \in Users, KernelStep(u) \/ kill_curthread(u) PROVE ProcInv'
  BY <1>4, RunStep, DetachStep, SignalStep, ThreadExitStep, DestroyStep, VStep, Zenon DEF KernelStep
<1>5. ASSUME NEW u \in Users, NEW code \in ExitCodes, sys__exit(u, code) PROVE ProcInv'
  BY <1>5, ExitStep, Zenon
<1> QED
  BY <1>1, <1>2, <1>3, <1>4, <1>5, Zenon DEF Next

(* The inductive invariant of the life of a process.                       *)
THEOREM ProcessInductive == Spec => []ProcInv
<1>1. Init => ProcInv
  BY ProcInit, Zenon
<1>2. ProcInv /\ [Next]_vars => ProcInv'
  BY ProcNext, Zenon
<1> QED
  BY <1>1, <1>2, PTL DEF Spec

(* sys__exit, proc_wait, proc_destroy: no thread uses the struct proc or   *)
(* its semaphore after the menu has freed it, although the exiting thread  *)
(* runs on, and every destructor finds what it asserts.                    *)
THEOREM ExitSafe == Spec => []ExitIsSafe
<1>1. ProcInv => ExitIsSafe
  <2> SUFFICES ASSUME ProcInv PROVE ExitIsSafe
    OBVIOUS
  <2>1. TypeOK
    <3>1. /\ p_numthreads \in 0 .. 1 /\ elf_opens \in 0 .. 1
          /\ p_addrspace \in 0 .. Complete \cup {NULL}
      <4>1. CASE user = NULL
        BY <4>1 DEF ProcInv, MenuInv
      <4>2. CASE user # NULL
        BY <4>2 DEF ProcInv, ThreadInv, HoldingsInv, ExitInv, Complete
      <4> QED
        BY <4>1, <4>2, Zenon
    <3>2. cwd_refs \in 0 .. 1
      BY DEF ProcInv, MenuInv
    <3>3. status \in 0 .. 255 \cup {NULL}
      <4>1. exited # NULL => exited \in Int /\ status = exited % 256
        BY ProcessAssumption, Zenon DEF ProcInv, Types
      <4>2. exited = NULL => status = NULL
        BY Zenon DEF ProcInv, Types
      <4> QED
        BY <4>1, <4>2
    <3> QED
      BY <3>1, <3>2, <3>3, Zenon DEF TypeOK, ProcInv, Types
  <2>2. NoUseAfterFree
    <3> SUFFICES ASSUME NEW u \in Users, Uses(u) PROVE proc /\ user = u
      BY Zenon DEF NoUseAfterFree
    <3>1. at[u] \notin Gone \/ pc[u] # "out" \/ t_proc[u]
      BY Zenon DEF Uses, Gone
    <3> QED
      BY <3>1, ActiveIsCurrent, Zenon
  <2>3. DestroyIsSafe
    <3> SUFFICES ASSUME at[menu] \in {"close", "as_destroy", "free"}
                 PROVE  /\ p_numthreads = 0 /\ \A u \in Users : ~t_proc[u]
                        /\ sem_lock = NoThread /\ sem_wchan = << >> /\ p_vnode
                        /\ at[menu] = "close" => elf_opens = 1
                        /\ at[menu] \in {"close", "as_destroy"} => p_addrspace = Complete
      BY Zenon DEF DestroyIsSafe
    <3>1. Taken
      BY Zenon DEF Taken
    <3>2. PICK u \in Users :
           /\ user = u /\ exited # NULL /\ at[u] \in Gone /\ pc[u] = "out" /\ ExitInv(u)
           /\ ~t_proc[u] /\ p_numthreads = 0
           /\ status \in 0 .. 255 /\ status = exited % 256 /\ pc[menu] = "out"
      BY <3>1, TakenFacts, Zenon
    <3>3. /\ \A v \in Users : ~t_proc[v] /\ pc[v] = "out"
          /\ \A t \in Threads : pc[t] = "out"
      BY <3>2, ProcessAssumption, ZenonT(60) DEF ProcInv, Bystander
    <3>4. sem_lock = NoThread
      BY <3>3, Zenon DEF ProcInv, Types, SemTypeOK, Holding
    <3>5. sem_wchan = << >>
      BY <3>3, HeadAsleep, Zenon DEF ProcInv, Types
    <3> QED
      BY <3>2, <3>3, <3>4, <3>5, Zenon DEF ExitInv
  <2> QED
    BY <2>1, <2>2, <2>3, Zenon DEF ExitIsSafe
<1> QED
  BY <1>1, ProcessInductive, PTL

(* runprogram, sys__exit, proc_wait: at its prompt the menu has released   *)
(* all a program acquired, and what it reported was the low byte of what   *)
(* this very program passed to _exit.                                      *)
THEOREM RunComplete == Spec => []RunIsComplete
<1>1. ProcInv => RunIsComplete
  <2> SUFFICES ASSUME ProcInv PROVE RunIsComplete
    OBVIOUS
  <2>1. NothingLeftBehind
    BY Zenon DEF ProcInv, MenuInv, NothingLeftBehind
  <2>2. StatusDelivered
    <3> SUFFICES ASSUME at[menu] = "close" PROVE exited # NULL /\ exit_status = exited % 256
      BY Zenon DEF StatusDelivered
    <3>1. Taken
      BY Zenon DEF Taken
    <3> QED
      BY <3>1, TakenFacts, Zenon DEF ProcInv, MenuInv
  <2> QED
    BY <2>1, <2>2, Zenon DEF RunIsComplete
<1> QED
  BY <1>1, ProcessInductive, PTL
============================================================================
