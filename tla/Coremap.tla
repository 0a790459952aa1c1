------------------------------ MODULE Coremap ------------------------------
(***************************************************************************)
(* The physical frame allocator, kern/vm/coremap.c, as kernel threads use  *)
(* it through alloc_kpages and free_kpages (kern/vm/vm.c).                 *)
(*                                                                         *)
(* coremap_getppages scans the array under cm_spinlock.  The scan is kept  *)
(* one loop iteration per step, because coremap_freeppages reads and       *)
(* clears cm_size_alloc of the block it frees BEFORE it takes the lock, so *)
(* that write can fall between any two iterations of another thread.       *)
(* Everything else that happens under the lock is one step.                *)
(*                                                                         *)
(* Kernel pages have cm_ptentry = NULL and are never swapped.  The user    *)
(* pages, the victim and the swap-out are in module DemandVM; here a full  *)
(* memory ends in one of the panics of coremap_swapout.                    *)
(***************************************************************************)
EXTENDS Integers

CONSTANTS
  Threads,       \* kernel threads (menu thread, test threads, exorcisers)
  NoThread,      \* holder of a free cm_spinlock
  nRamFrames,    \* number of physical frames
  kernel_pages,  \* frames taken at boot: handlers, kernel image, coremap
  MaxPages       \* bound on the npages a caller asks for

ASSUME NoThreadAssumption == NoThread \notin Threads
ASSUME FramesAssumption ==
  /\ nRamFrames \in Nat \ {0}
  /\ kernel_pages \in Nat
  /\ kernel_pages <= nRamFrames
  /\ MaxPages \in Nat

Frames == 0 .. nRamFrames - 1

VARIABLES
  cm_free,        \* cm_free[f] = 1 when frame f is in USE (sic)
  cm_size_alloc,  \* pages of the block that starts at f, 0 elsewhere
  cm_spinlock,    \* thread that holds cm_spinlock, or NoThread
  pc,             \* where each thread is
  npages,         \* argument of the coremap_getppages call of each thread
  beginning,      \* local of coremap_find_freeframes
  end,            \* local of coremap_find_freeframes
  first,          \* local of coremap_freeppages
  allocSize,      \* local of coremap_freeppages
  blocks          \* the callers' view: pages of the block they were given at
                  \* f and that is not yet returned, 0 if there is none

\* A local has its initial value outside the call it belongs to.

cmvars   == <<cm_free, cm_size_alloc>>
getvars  == <<npages, beginning, end>>
freevars == <<first, allocSize>>
vars     == <<cmvars, cm_spinlock, pc, getvars, freevars, blocks>>

Labels == {"idle", "get", "scan", "found", "free", "panic"}

\* coremap_bootstrap: the first kernel_pages frames are blocks of one page
\* that nobody ever frees.
Init ==
  /\ cm_free       = [f \in Frames |-> IF f < kernel_pages THEN 1 ELSE 0]
  /\ cm_size_alloc = [f \in Frames |-> IF f < kernel_pages THEN 1 ELSE 0]
  /\ cm_spinlock   = NoThread
  /\ pc        = [t \in Threads |-> "idle"]
  /\ npages    = [t \in Threads |-> 0]
  /\ beginning = [t \in Threads |-> -1]
  /\ end       = [t \in Threads |-> 0]
  /\ first     = [t \in Threads |-> 0]
  /\ allocSize = [t \in Threads |-> 0]
  /\ blocks    = cm_size_alloc

\* panic() stops every CPU.
Running == \A t \in Threads : pc[t] # "panic"

Goto(t, from, to) ==
  /\ Running
  /\ pc[t] = from
  /\ pc' = [pc EXCEPT ![t] = to]

----------------------------------------------------------------------------
(* coremap_getppages, reached from alloc_kpages(n) with ptentry = NULL.    *)

alloc_kpages(t, n) ==
  /\ Goto(t, "idle", "get")
  /\ npages' = [npages EXCEPT ![t] = n]
  /\ UNCHANGED <<cmvars, cm_spinlock, beginning, end, freevars, blocks>>

\* spinlock_acquire and the initialisation of the scan.
StartScan(t) ==
  /\ cm_spinlock = NoThread
  /\ Goto(t, "get", "scan")
  /\ cm_spinlock' = t
  /\ end'       = [end EXCEPT ![t] = 0]
  /\ beginning' = [beginning EXCEPT ![t] = -1]
  /\ UNCHANGED <<cmvars, npages, freevars, blocks>>

\* Mutant: the run is not reset at a used block.
SkipBlock_KeepRun(t) ==
  /\ Running
  /\ pc[t] = "scan"
  /\ end[t] < nRamFrames
  /\ cm_free[end[t]] = 1
  /\ end' = [end EXCEPT ![t] = @ + cm_size_alloc[@]]
  /\ UNCHANGED <<cmvars, cm_spinlock, pc, npages, beginning, freevars, blocks>>

\* An iteration on a used frame: skip the block.  A block that is being
\* freed has cm_size_alloc = 0, and the iteration goes nowhere.
SkipBlock(t) ==
  /\ Running
  /\ pc[t] = "scan"
  /\ end[t] < nRamFrames
  /\ cm_free[end[t]] = 1
  /\ beginning' = [beginning EXCEPT ![t] = -1]
  /\ end' = [end EXCEPT ![t] = @ + cm_size_alloc[@]]
  /\ UNCHANGED <<cmvars, cm_spinlock, pc, npages, freevars, blocks>>

\* An iteration on a free frame: extend the run, stop when it is long enough.
RunStart(t) == IF beginning[t] = -1 THEN end[t] ELSE beginning[t]

ExtendRun(t) ==
  /\ end[t] < nRamFrames
  /\ cm_free[end[t]] = 0
  /\ Goto(t, "scan", IF end[t] + 1 - RunStart(t) = npages[t] THEN "found" ELSE "scan")
  /\ beginning' = [beginning EXCEPT ![t] = RunStart(t)]
  /\ end' = [end EXCEPT ![t] = @ + 1]
  /\ UNCHANGED <<cmvars, cm_spinlock, npages, freevars, blocks>>

\* The loop ran off the array: no run of npages frames.  coremap_swapout
\* panics on npages > 1, and on npages = 1 because no frame has a ptentry.
ScanFails(t) ==
  /\ end[t] >= nRamFrames
  /\ Goto(t, "scan", "panic")
  /\ UNCHANGED <<cmvars, cm_spinlock, getvars, freevars, blocks>>

\* Marks the block used, releases cm_spinlock and returns its address.
TakeBlock(t) ==
  LET b == beginning[t]
      n == npages[t]
  IN  /\ Goto(t, "found", "idle")
      /\ cm_size_alloc' = [cm_size_alloc EXCEPT ![b] = n]
      /\ cm_free' = [f \in Frames |-> IF f \in b .. b + n - 1 THEN 1 ELSE cm_free[f]]
      /\ blocks' = [blocks EXCEPT ![b] = n]
      /\ cm_spinlock' = NoThread
      /\ npages'    = [npages EXCEPT ![t] = 0]
      /\ beginning' = [beginning EXCEPT ![t] = -1]
      /\ end'       = [end EXCEPT ![t] = 0]
      /\ UNCHANGED freevars

----------------------------------------------------------------------------
(* coremap_freeppages, reached from free_kpages with the address of a      *)
(* block that coremap_getppages returned and nobody has freed.             *)

Freeing(f) == \E t \in Threads : pc[t] = "free" /\ first[t] = f

\* The part before spinlock_acquire: read and clear cm_size_alloc.
free_kpages(t, f) ==
  /\ f >= kernel_pages /\ blocks[f] > 0 /\ ~Freeing(f)
  /\ Goto(t, "idle", "free")
  /\ first'     = [first EXCEPT ![t] = f]
  /\ allocSize' = [allocSize EXCEPT ![t] = cm_size_alloc[f]]
  /\ cm_size_alloc' = [cm_size_alloc EXCEPT ![f] = 0]
  /\ UNCHANGED <<cm_free, cm_spinlock, getvars, blocks>>

\* The critical section, on n frames.
ReleaseFrames(t, n) ==
  /\ cm_spinlock = NoThread
  /\ Goto(t, "free", "idle")
  /\ cm_free' = [f \in Frames |->
                   IF f \in first[t] .. first[t] + n - 1 THEN 0 ELSE cm_free[f]]
  /\ first'     = [first EXCEPT ![t] = 0]
  /\ allocSize' = [allocSize EXCEPT ![t] = 0]
  /\ blocks' = [blocks EXCEPT ![first[t]] = 0]
  /\ UNCHANGED <<cm_size_alloc, cm_spinlock, getvars>>

\* Mutants: the loop runs once too often, or once too few.
ReleaseBlock_OneMore(t) == ReleaseFrames(t, allocSize[t] + 1)
ReleaseBlock_OneLess(t) == ReleaseFrames(t, allocSize[t] - 1)

ReleaseBlock(t) == ReleaseFrames(t, allocSize[t])

ThreadStep(t) ==
  \/ StartScan(t)
  \/ SkipBlock(t)
  \/ ExtendRun(t)
  \/ ScanFails(t)
  \/ TakeBlock(t)
  \/ ReleaseBlock(t)

Next ==
  \E t \in Threads :
    \/ \E n \in 1 .. MaxPages : alloc_kpages(t, n)
    \/ \E f \in Frames : free_kpages(t, f)
    \/ ThreadStep(t)

Spec == Init /\ [][Next]_vars

\* A thread inside the allocator keeps running: spinlock holders are not
\* preempted and preempted threads stay on a run queue.  A spinning CPU gets
\* a lock that is released again and again.
FairSpec == Spec /\ \A t \in Threads : SF_vars(ThreadStep(t))

----------------------------------------------------------------------------
(* Properties.                                                             *)

Block(f, n) == f .. f + n - 1

FreeRun(b, n) == b + n <= nRamFrames /\ \A f \in Block(b, n) : cm_free[f] = 0

\* Every variable has its type: the indices the scan computes stay within the
\* coremap (coremap_find_freeframes reads coremap[end] after every iteration).
TypeOK ==
  /\ cm_free \in [Frames -> {0, 1}]
  /\ cm_size_alloc \in [Frames -> 0 .. nRamFrames]
  /\ cm_spinlock \in Threads \cup {NoThread}
  /\ pc \in [Threads -> Labels]
  /\ npages \in [Threads -> 0 .. MaxPages]
  /\ beginning \in [Threads -> -1 .. nRamFrames - 1]
  /\ end \in [Threads -> 0 .. nRamFrames]
  /\ first \in [Threads -> Frames]
  /\ allocSize \in [Threads -> 0 .. nRamFrames]
  /\ blocks \in [Frames -> 0 .. nRamFrames]

\* No frame is handed to two callers: the blocks in use, the boot frames among
\* them, lie inside RAM, do not overlap, and all their frames are marked used
\* (coremap_getppages, coremap_freeppages).
BlocksDisjoint ==
  \A f \in Frames : blocks[f] > 0 =>
    /\ f + blocks[f] <= nRamFrames
    /\ \A g \in Frames : f < g /\ blocks[g] > 0 => f + blocks[f] <= g
    /\ \A g \in Block(f, blocks[f]) : cm_free[g] = 1

\* A run that coremap_find_freeframes accepts is free, npages long and the
\* lowest such run of the coremap; a scan that runs off the array (and makes
\* coremap_swapout panic) has missed none.
FirstFit ==
  \A t \in Threads :
    /\ pc[t] = "found" => /\ FreeRun(beginning[t], npages[t])
                          /\ \A b \in Frames : b < beginning[t] => ~FreeRun(b, npages[t])
    /\ pc[t] = "scan" /\ end[t] = nRamFrames => \A b \in Frames : ~FreeRun(b, npages[t])

\* The KASSERTs of coremap_freeppages: allocSize > 0, and every frame of the
\* block is still marked used when the critical section clears it.
FreeAsserts ==
  \A t \in Threads : pc[t] = "free" =>
    /\ allocSize[t] > 0
    /\ \A f \in Block(first[t], allocSize[t]) : f \in Frames /\ cm_free[f] = 1

\* No frame leaks: a frame marked used belongs to a block that a caller was
\* given and that coremap_freeppages has not released.
NoLeak ==
  \A f \in Frames : cm_free[f] = 1 => \E g \in Frames : f \in Block(g, blocks[g])

\* README.md section 2.1 calls the search of coremap_find_freeframes a linear
\* scan: a call of coremap_getppages that has the lock finishes.
ScanTerminates ==
  \A t \in Threads : pc[t] = "scan" ~> pc[t] # "scan"
============================================================================
