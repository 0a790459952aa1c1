# A TLA+ model of the demand-paging OS/161 kernel

This directory specifies, model-checks and proves properties of the kernel in
`src/os161-base-2.0.3/kern`: OS/161 2.0.3 with a virtual memory system of its
own (coremap, per-process page tables, demand loading from the executable, swap
and a software-managed TLB) and simple exit/wait system calls, together with the
parts of `src/os161-base-2.0.3/common` the kernel is linked with (printf, string
functions, the compiler's long arithmetic). The modelled configuration is
`kern/conf/DEMANDVM`: swap, statistics, `waitpid`, read-only pages that are never
swapped, assertions live, no dumbvm. Paths below are relative to
`src/os161-base-2.0.3/kern`.

## 1. The system

### 1.1 What runs concurrently

There is no `fork` (`as_copy` panics), and the menu, which is the only place
that starts programs, waits for each one in `proc_wait`. So at most one
single-threaded user program exists at a time. What is concurrent:

- kernel threads (the menu, the in-kernel tests' threads) that allocate and free
  memory on any CPU;
- the exiting thread of a program, which still runs after `V(p_sem)` while the
  menu destroys its process, and even while the next program starts;
- `exorcise`, which frees dead threads' stacks on whatever CPU they died on;
- context switches of the program's thread, by the timer or because it sleeps in
  the disk I/O of a page fault, each of which ends in `as_activate`;
- interrupts (timer, interprocessor, devices) and thread migration.

Spinlocks work, and disable interrupts; so do semaphores, which are built on
them. **Sleep locks and condition variables are empty functions** in this kernel
(`thread/synch.c`), so whatever relies on them is not protected by them. The
file systems, the console's `con_io` and the emulator driver do. The models of
those parts have one caller at a time inside them, which is what the menu gives;
what would happen with two is listed among the hazards of `PROJECT.json`.

### 1.2 Inventory

| Part | Source | What makes it hard | Module |
|---|---|---|---|
| Coremap | `vm/coremap.c`, `vm/vm.c` | the release touches `cm_size_alloc` outside the lock; the lock is dropped during a swap-out | `Coremap`, `DemandVM` |
| Page faults, page table, swap | `vm/vm.c`, `vm/pt.c`, `vm/swapfile.c` | I/O in the middle of a fault; owner pointers from the coremap into the page table | `DemandVM`, `UserMemory` |
| TLB | `vm/vm_tlb.c` | invalidations at any time | `Tlb` |
| Statistics | `vm/vmstats.c` | ten counters hit from five files | `VmStats` |
| Address space | `vm/addrspace.c`, `vm/segment.c`, `syscall/loadelf.c` | unaligned segments | `AddrSpace` |
| Copies to and from user memory | `vm/copyinout.c` | the boundary of user space, addresses that wrap, a fault half way | `CopyInOut`, `Spinlock` |
| Kernel heap | `vm/kmalloc.c` | the lock is dropped around `alloc_kpages`; the heap's own bookkeeping needs pages | `Kmalloc` |
| Processes | `proc/proc.c`, `syscall/runprogram.c`, `syscall/proc_syscall.c`, `main/menu.c` | the menu frees what the exiting thread has just used | `Process` |
| Semaphores, wait channels | `thread/synch.c`, `thread/thread.c` | a woken thread competes again | `Semaphore` |
| Scheduler | `thread/thread.c`, `thread/clock.c`, `arch/mips/thread/cpu.c` | idle CPUs stay on the stack of the thread that left | `Sched` |
| Spinlocks, interrupt levels, traps, hangman | `thread/spinlock.c`, `thread/spl.c`, `thread/hangman.c`, `arch/mips/locore/trap.c` | two words per lock; calls that need not nest; faults inside faults | `Spinlock` |
| Thread lists, arrays, bitmaps, uios | `thread/threadlist.c`, `lib/array.c`, `lib/bitmap.c`, `lib/uio.c` | boundaries, growth that fails, cuts | `Threadlist`, `Array`, `Bitmap`, `Uio` |
| Bus, configuration, interrupts | `dev/lamebus/lamebus.c`, `compile/DEMANDVM/autoconf.c`, `*_att.c` | interrupts are on while devices are attached | `Devices` |
| Disk | `dev/lamebus/lhd.c` | registers, buffer and result have no lock | `Lhd` |
| Console, serial port | `dev/generic/console.c`, `dev/lamebus/lser.c` | sleeping and polling writers mixed; the input ring | `Console` |
| Clock | `thread/clock.c`, `dev/lamebus/ltimer.c` | several timers | `Devices` |
| Emulator file system | `dev/lamebus/emu.c` | transfers in pieces; one device for all files | `Emu`, `Emufs` |
| VFS | `vfs/*.c` | reference counts on every error path | `Vfs`, `Files` |
| SFS | `fs/sfs/*.c` | failures half way through an update | `Sfs` |
| semfs | `fs/semfs/*.c` | a semaphore is kept by a name or a vnode | `Semfs` |
| printf, kgets, strings, long arithmetic | `lib/kgets.c`, `../common/libc`, `../common/gcc-millicode` | widths, overflow, overlap, carries | `Printf`, `Kgets`, `Strings`, `LongLong` |

`PROJECT.json` lists the same parts as `components`, and under `hazards` the
places where these behaviours bite, with the properties that watch them.

## 2. How the project is organised

Every component has a module with its state, its initial states, one action per
operation or per stretch of code between two points where another actor can act,
and its properties. `MC*` modules give TLC the constants that a configuration
file cannot express. A definition named `X_Something` just before a definition
`X` is a plausible wrong version of `X`; each property is known to fail when one
of them takes the place of `X`.

Three runs check several small components that do not interact, side by side:
`MCMemory` and `MCServices` have a variable (`which`, `part`) that the initial
state sets and nothing changes, and a behaviour is a behaviour of that component,
the variables of the others staying as they were. A wrapper such as
`part = "spin" => Spin!HolderIsOwner` is the component's own property. `MCFiles`
has four machines in the same way, but with one specification. What does
interact is composed: `Process` extends `Semaphore`, `VmStats` extends
`DemandVM`, which extends `Tlb`; `Devices` joins `Lhd`, `Console` and the
dispatcher; `Files` joins `Vfs`, `Sfs`, `Semfs` and `Emufs`.

| Run | Component | Expected |
|---|---|---|
| `memory` | `Coremap`, `AddrSpace`, `Kmalloc`, `CopyInOut` | pass |
| `coremap_scan` | `Coremap` | violation |
| `demandvm` | `DemandVM`, `Tlb`, `VmStats`, `UserMemory` | pass |
| `demandvm_live` | `DemandVM` | pass |
| `vmstats_replace` | `VmStats` | violation |
| `process`, `process_fail` | `Process`, `Semaphore` | pass, violation |
| `sched` | `Sched` | pass |
| `devices` | `Devices`, `Lhd`, `Console`, `Kthread` | pass |
| `files`, `files_lost` | `Files`, `Vfs`, `Sfs`, `Semfs`, `Emufs`, `Outcomes` | pass, violation |
| `services` | `Semaphore`, `Spinlock`, `Emu`, `Bitmap`, `Array`, `Threadlist`, `Uio`, `Printf`, `Kgets`, `Strings`, `LongLong` | pass |

Deadlock is checked in `sched`, whose CPUs never stop. Elsewhere a model may end:
all threads asleep, a kernel that has panicked, a bound used up, or a part that
has only initial states.

## 3. The models and what the runs show

### 3.1 Coremap (`memory`, `coremap_scan`)

State: `cm_free` (which the code sets to 1 for a frame in **use**),
`cm_size_alloc`, `cm_spinlock`, and for every thread its place and the locals of
`coremap_find_freeframes` and `coremap_freeppages`. `blocks` is auxiliary: what
callers believe they hold. The scan is one iteration per step because
`coremap_freeppages` reads and clears `cm_size_alloc` before it takes the lock, so
that write may fall between any two iterations. `free_kpages` is the part before
the lock, `ReleaseBlock` the critical section. Callers free only what they were
given, once.

Three threads, five frames, blocks of up to three frames: `BlocksDisjoint`,
`NoLeak`, `FirstFit` (the scan returns the lowest fitting run and a failing scan
missed none). Three threads are one more than any race here needs; five frames
allow two blocks of different sizes with holes between them. *Violated*
(`coremap_scan`): `ScanTerminates`. A scanner that stands on a block whose size
has just been cleared adds 0 for ever, with the lock that the releasing thread
needs. Strong fairness is assumed of every thread inside the allocator, so no
scheduling excuses it.

### 3.2 Tlb, DemandVM, UserMemory, VmStats (`demandvm`, `demandvm_live`, `vmstats_replace`)

`DemandVM` follows the one user thread U through `vm_fault`: allocate (free
frame, dropped text page, or victim written to swap with `cm_spinlock`
released), map, load or read back, insert into the TLB. Between any two steps
there may be a context switch (`as_activate`), and kernel frames may be freed.
Programs come and go; `cm_ptentry` of a freed frame is left `Dangling`, as in
the code. `coremap_getppages` is one step up to the disk write and one after it:
`Coremap` shows its scan is a first fit, and U is the only allocator while it
lives. Contents are tokens: `<<p, 0>>` for page p as in the executable,
`<<p, v>>` for what was stored. `VmStats` adds the ten counters, and the bounds
`MaxFaults` and `MaxSwitches` on the length of a behaviour.

`demandvm`: four pages (text, data in the file, bss, stack), two user frames, two
swap slots, two TLB entries, any five faults and two switches: every eviction
path, a full swap file and a full TLB are reached. `FrameOwnership` ties coremap
and page table in both directions; `VictimIsResident` says no dangling owner is
followed; `SwapAccounting`, `TlbCoherent`, `StatsBalance` (the sums
`vmstats_print` shows); and `MemoryRefinement`: DemandVM implements `UserMemory`
under the mapping that reads a page where it is (frame, slot or executable).

`demandvm_live`: `WorkingSetSettles`, that two faults of one instruction do not
evict each other for ever. Weak fairness of the steps of a started fault: its
thread is runnable or waits for a disk operation that completes. The premise
rules out that the thread is switched out for ever or that fewer than two frames
are left to it. No bound on the number of faults here. *Violated*
(`vmstats_replace`): `ReplaceMeansFull`; `tlb_free` is not set again when an
eviction empties a slot.

### 3.3 AddrSpace, Kmalloc, CopyInOut (`memory`)

`AddrSpace`: byte addresses with pages of four bytes; data regions of every
alignment, up to three pages, with any number of bytes in the file (one more than
in memory included, which `segment_define` cuts), behind text of one or two pages. `LoadIsExact`: page-table indexes are a
bijection with pages, and whichever byte faults first, the frame gets exactly the
file's bytes and zeroes, read from within the segment. Executables are as the
linker makes them (no two regions on one page), which the kernel does not check.

`Kmalloc`: two threads, four pages, blocks of two sizes, two roots of two pagerefs
each. An action is what happens between two points where `kmalloc_spinlock` is
given up: before and after `alloc_kpages`, for a heap page and for a page of
pagerefs, and before `free_kpages`. `BlocksAccounted` is the client's view (no
block twice, none lost); `HeapIsSound` the bookkeeping (both lists hold the same
pages, free lists are sound, every page has one use, a pageref describes one
page). With two roots and two entries each, a root fills up, empties and is
refilled by the other thread. A failed assertion (`kmalloc.c:318`, see section 5)
is a state in which the kernel has stopped.

`CopyInOut`: every pointer, length, string and hole in an address space of eight
addresses, four of them user space: `CopyIsExact`.

### 3.4 Semaphore, Process (`services`, `process`, `process_fail`)

`Semaphore` has the steps of P and V between which other CPUs run: before the
lock, inside, asleep on the channel. Five threads: `NoLostWakeup`, and
`CountGetsUsed` under weak fairness of each runnable thread, which round-robin
scheduling with a timer gives; the spinlock is not assumed fair.

`Process` uses it as `p_sem`. Three program threads, so that two predecessors can
still be dying while a third runs: `ExitIsSafe` (nothing is used after it is
freed, and what `proc_destroy`, `as_destroy` and `sem_destroy` assert holds when
they run), `RunIsComplete` (the status is this program's, and executable,
directory and address space are gone), and `MenuReturns` under weak fairness of
kernel steps, none of the program's own. *Violated* (`process_fail`):
`FailedRunIsDestroyed`, when a program cannot be opened or loaded.

### 3.5 Sched (`sched`)

The actors are CPUs. `curthread[c]` is also the stack CPU c is on. The step
structure follows the spinlocks: what happens under a run-queue lock is one step,
and migration, which takes and drops several, is many. An interprocessor
interrupt is its pending bit and its line, because the handler reads the bits and
clears the line in two steps. Two CPUs and four threads, which
are interchangeable (only the initial state knows the boot threads): `StacksAreOwned`, `ThreadsAreListed`, `NoMissedUnidle`, and
absence of deadlock among the spinlocks. One wait channel stands for all.

### 3.6 Spinlock (`services`)

Each CPU's record has the enable bit, `t_curspl`, `t_iplhigh_count`,
`c_spinlocks`, the frames on the kernel stack, and how far a spinlock call is.
The test-and-set and the stores to `splk_holder` and to the word are steps; traps
and interrupts come between them wherever the enable bit allows. `won` is
history: the locks whose test-and-set a CPU won. `hangman.c` is included: the
configuration leaves it out, but `spinlock.c` is written around it, and each of
its functions is one step under its own lock.

Two CPUs, two locks, up to three frames on a stack: `HolderIsOwner`,
`InterruptsMatchLevel` (interrupts are off exactly while a spinlock or
splhigh wants it, however the two overlap), `HangmanIsExact` (a panic for every
deadlock and for nothing else), `NoSpuriousPanic`. Two CPUs and two locks are
what a deadlock needs; a third CPU adds nothing to a cycle of two locks. All four
are also proved without these bounds.

### 3.7 Devices: Lhd, Console, bus, clock (`devices`)

The boot CPU configures the bus with interrupts on (`autoconf`), then threads use
the disk, the console and `clocksleep`, while the dispatcher serves one interrupt
at a time, handler step by handler step. `Kthread` has P and V as one step each,
which `Semaphore` justifies. Four buses: a timer and a disk; a serial port; two
timers; a device no driver knows with two others. Two threads, a disk of two sectors, a ring
of three characters. A request may name any sector an unsigned int (of 3 bits
here) can, so the end-of-disk check of `lhd_io`, which can overflow, is passed by
requests that wrap around; the disk refuses those. No device interrupts before its
own `config_` function has enabled it, so the dud of a claimed slot without a
handler does not occur; the dud of an unclaimed slot does.

`BusMatches` (no slot claimed twice, every handler serves its own kind),
`DiskAnswers` (each thread takes away the answer to its own request although
buffer and result have no lock), `InputIsQueue` (the ring, counted by `cs_rsem`,
is a queue that drops new characters when full), `OutputIsOrderly` (no overrun
between sleeping and polling writers, the right to write is conserved), and
`DiskIsReleased` under weak fairness of the boot CPU, the disk and every thread in
a call: the timer preempts threads and the disk always finishes. Nobody has to
type. One thread reads the console at a time.

### 3.8 Files: Vfs, Sfs, Semfs, Emufs (`files`, `files_lost`)

A function of the code that may fail is an operator from a state to the set of
its outcomes (`Outcomes`: the state left, the result, the value); an error return
keeps what was done by then. So every read, every allocation of memory and every
device operation can fail at its place in the code, within the budgets `MaxEio`
and `MaxEmuFail`. A call is one step: one thread at a time is in the file
systems. `Files` calls the `vfs_` functions in any order on up to two open files.

Four machines: a disk with an SFS volume of eight blocks, one direct and two
indirect pointers per inode (so that direct, indirect and full disk all happen);
the same with current directories, raw access and swap; semfs with two
semaphores; emufs with three handles and the null device. Nothing in this kernel
calls `vfs_swapon`; its caller is modelled from its contract in
`include/vfs.h:162`: it holds the vnode it is given (`swap`) and lets go of it
before `vfs_swapoff`.

`RefsAccounted` (the reference count of every vnode, devices included, is the
number of its holders: open files, current directory, boot file system, swap),
`SfsIsConsistent` (free map, ownership of blocks, links), `CleanIsOnDisk`,
`FsNoPanic` (no panic or assertion of SFS, semfs or the VFS layer is reached,
except that `vfs_open` finds no vnode after the `semfs_creat` of section 5),
`TablesMatch` (semaphores, emulator handles, mounts). What is written to a raw
device is not kept, superblock checks of `sfs_domount` and the length of names
are left out, and the emulator's error codes are one. *Violated* (`files_lost`, where a write may fail
once): `CleanIsOnDisk`.

### 3.9 The rest of `services`

- `Emu`: the emulator's registers, buffer and interrupt for one caller:
  `EmuIsExact` (own completion, transfers in pieces are whole, close is retried).
- `Bitmap`, `Array`, `Threadlist`, `Uio`: `ContainersAgree`. Bitmaps of less than
  a word, a word, a word and a bit, and several; arrays up to five elements
  through failed growth; three threads on two lists; up to three buffers of up to
  two bytes, the empty ones included.
- `Printf`, `Kgets`, `Strings`: `TextIsExact`. The width of an int is 4 and of a
  long long 7 bits, so that the number buffer is filled to the last octal digit;
  formats of up to five characters; buffers of 0, 1, 3 and 20 bytes; every overlap
  and alignment of a memmove in seven bytes with words of two.
- `LongLong`: `ArithmeticIsExact`, for every pair of operands with digits of two
  bits, which is enough for the guessed quotient digit to be too high.

## 4. Proofs

A module `XProofs` extends the modules of its component and `TLAPS`. Everything
below holds for every value of the constants that satisfies the named `ASSUME`s of
the component modules, which TLC evaluates on the runs.

| Module | Properties proved |
|---|---|
| `MemoryProofs` | `TypeOK`, `BlocksDisjoint`, `NoLeak`, `FreeAsserts`, `FirstFit`; `LoadIsExact`; `CopyIsExact` |
| `KmallocProofs` | `BlocksAccounted`, `HeapIsSound` |
| `DemandVMProofs` | `TypeOK`, `FrameOwnership`, `VictimIsResident`, `SwapAccounting`, `TlbCoherent`, `MemoryRefinement`, `StatsBalance` |
| `ProcessProofs` | `SemTypeOK`, `NoLostWakeup`; `ExitIsSafe`, `RunIsComplete` |
| `SchedProofs` | `StacksAreOwned`, `ThreadsAreListed`, `NoMissedUnidle` |
| `SpinlockProofs` | `HolderIsOwner` |
| `InterruptProofs` | `InterruptsMatchLevel`, `NoSpuriousPanic` |
| `HangmanProofs` | `HangmanIsExact` |

### 4.1 Coremap, program loading, copying, kernel heap

Coremap, for every number of threads, frames and block sizes; `FreeAsserts` are the
KASSERTs of `coremap_freeppages`. None is inductive. The strengthening adds:
who is inside the allocator holds the lock and nobody else does;
`cm_size_alloc[f]` equals `blocks[f]` unless a release of f is between its two
halves, and then the releasing thread's `allocSize` does; two releases are never
of one block; and, for the scan, that everything below `end` has been seen: no
fitting run starts below the current run, which is free. The last part is stable
because frames are only taken by the lock's holder and a release needs the lock.

Program loading (`AddrSpaceAssumption`: the stack fits in a user space of whole
pages, a region is not empty), for every page size and every executable whose
regions share no page. `AsInv` adds
to `LoadIsExact` what is defined at each stage of loading, in the order `load_elf`
and `runprogram` do it. The rest is arithmetic on pages and on the first and last
page of a segment, the only ones that are read in part.

Copying (`CopyAssumption`: user space is the lower part of the addresses), for
addresses of any width: `CopyInOut` has no steps, so `CopyIsExact` follows from the
case analysis of `copycheck` and `copystr`, wrap-around included.

Kernel heap (`HeapAssumption`: block sizes fit a page, a root has an entry), for
any number of threads, pages, roots, pagerefs and block sizes. Neither property is
inductive, because each rests on the other. `HeapInv` joins: each size list holds
the listed pages of that size, once; the blocks not on the free list of a page are
those somebody holds, one holder each; every page has one user (`OnlyUse`: free, a
root, a heap page, a whole allocation, or in one thread's hands); an entry a thread
is about to fill is marked, on no list, and no other thread's. The last is what
carries a thread over the calls it makes without `kmalloc_spinlock`. One lemma per
action shows that `HeapInv` is preserved. The facts about finite sets it takes
(`Pigeonhole`: a free list without repetition is full when it is as long as the
page has blocks; `Counting`; `Least`) are proved at the end of the module.

### 4.2 Demand paging and its counters

For every set of pages and every number of frames, swap slots and TLB entries.
`FrameOwnership` is not inductive: an eviction is safe only because
`tlb_remove_by_paddr` finds the one entry of the frame, and a swap-in only because
the slot still holds the page. `IInv` therefore joins the properties with: the
size of a block agrees with its mark; the kernel's frames are marked, have no
owner and keep their data; text pages never go to swap and read as the
executable; invalid TLB entries name frame 0, which is the kernel's; and what U
knows at each point of `vm_fault` (the page is or is not resident, who owns the
frame, what frame and slot hold). One lemma per action shows that `IInv` is
preserved; the two evictions and the two mappings share the lemmas `EvictStep` and
`MapStep`. For the refinement, `runprogram` is `Start`, a store is `Store`, exit
and panic are `Stop`, and one lemma per kind of step shows that every other step
leaves the value of every page as it was.

`StatsBalance` needs what a fault on its way has been counted for already
(`Pending`) and the number of marked slots: swapped in plus still marked never
exceeds swapped out, but for the page whose slot is about to be unmarked. That a
swap-in unmarks a marked slot comes from `IInv`. The bounds `MaxFaults` and
`MaxSwitches` play no part.

### 4.3 Semaphores and processes

For every finite set of threads, `SemTypeOK` is inductive as it stands
(`sem_lock` is exclusive and the channel lists each sleeper once) and
`NoLostWakeup` relative to it: a V that raises the count moves a sleeper en route,
a P that lowers the count removes itself.

For any number of programs' threads, exit codes and failures, `ExitIsSafe` and
`RunIsComplete` follow from `ProcInv`, an argument about the one unit of `p_sem`.
It is raised by the last step in which the exiting thread uses the process and
taken by the first step after which the menu destroys it (`ExitInv`): the count is
1 exactly between the two, and when it is taken the thread is out of V, because
the menu needed the semaphore's lock. `HoldingsInv` says what a program holds at
each place of `runprogram`; threads of earlier programs are `Bystander`s.

### 4.4 Scheduler

For any number of CPUs and threads. The key to `SchedInv` is `t_cpu`: whatever CPU
has a thread on its run queue, among its migration's victims or zombies, or stands
on its stack, is the one `t_cpu` names (`ListsMatch`, `StacksMatch`), and every
thread is where its state and `t_cpu` say (`NoneLost`). Two CPUs therefore never
meet on a stack, not even when one idles on the stack of a thread that another has
woken and queued. `IdleIsNoted` ties `c_isidle` to the idle loop, interrupts taken
in it included, which is what `thread_make_runnable` relies on to send the
interprocessor interrupt; `MigrationFits` says that the queue a CPU has counted
does not shrink before it cuts the victims off.

### 4.5 Spinlocks, interrupt levels and hangman

For any finite set of CPUs, any set of locks, any number of locks held at once and
of frames on a stack.

- `MInv` (`SpinlockProofs`) strengthens `HolderIsOwner` with: an owner is named by
  `splk_holder` but for the moments just after it wins the word and just before it
  clears it (`OwnerIsNoted`), and what each place of a call knows (`CallsMatch`).
  Hence a CPU that runs and owns a lock finds itself in `splk_holder`, and one that
  owns none does not.
- `HangInv` (same module) adds the detector's record: `a_waiting` names the lock a
  CPU spins for and `l_holding` the owner of a lock, except between a store and
  the call of the detector that follows it. So none of its own assertions fails.
- `SpinInv` (`InterruptProofs`) adds `Levels`, which relates `c_spinlocks`,
  `t_iplhigh_count`, `t_curspl` and the enable bit to the set of locks won, and
  `Stack`, which says what kinds of frame lie on which and what each will restore.
  `Levels` alone is not inductive, since an interrupt's return brings back what its
  frame saved. `InterruptsMatchLevel` and `NoSpuriousPanic` follow. (The facts
  about finite sets, the hypothesis `Counting`, are proved at the module's end.)
- `HangmanIsExact`: the walk of `hangman_check` is a chain of CPUs, each waiting
  for a lock that the next one holds, and that closes within as many steps as there
  are CPUs (pigeonhole principle). A knot can only be closed by the CPU that starts
  to spin, and then every CPU of it is on the chain from that CPU's lock; so a walk
  that ends without coming back proves there is none, and one that comes back is a
  knot. The induction along the chain takes the least element of a set of naturals.

### 4.6 What is only model-checked

- Liveness (`MenuReturns`, `CountGetsUsed`, `DiskIsReleased`, `WorkingSetSettles`):
  everything temporal under fairness; TLAPS has no support for ENABLED.
- What recursive functions and loops over data compute as a whole (`TextIsExact`,
  `ArithmeticIsExact`, `ContainersAgree`, `EmuIsExact`, `SfsIsConsistent` and the
  other properties of `Files`): the induction theorems of the library take an
  operator as a parameter, which the provers cannot instantiate, and several of
  these modules use recursive operators, after which they have no SMT backend.
- The properties of `Devices`: no proof has been written.

`Zenon` and `SMTT(n)` in a `BY` choose the prover that needs least time.

## 5. Findings

1. `coremap_freeppages` clears `cm_size_alloc` outside the lock and a concurrent
   scan may spin for ever (`coremap_scan`).
2. "TLB Faults with Replace" also counts insertions into a TLB that is not full
   (`vmstats_replace`).
3. A program that cannot be opened or loaded leaves the menu waiting for ever
   (`process_fail`).
4. `sfs_rwblock` repeats a failed write with a uio that the first attempt has
   used up, and reports success for a block that was not written (`files_lost`).

Met while modelling, kept in the models as the code has them, and without a run
of their own:

- exhausted memory panics in `coremap_swapout`, where the comment at
  `vm/coremap.c:223` promises that `coremap_getppages` returns 0;
- `freepageref` asserts (`vm/kmalloc.c:318`) that a root without a page has
  nothing in use, but an entry is counted before the page is there and the count
  stays when no page can be had;
- `semfs_creat` returns success without a vnode when it runs out of memory
  (`fs/semfs/semfs_vnops.c:427`), and the assertion of `vfs_open` that it has one
  fails (`vfs/vfspath.c:88`);
- `config_lser` turns interrupts on before the console is attached to the port: a
  character typed then is passed through a pointer not yet set
  (`dev/lamebus/lser.c:82`);
- `sfs_itrunc` keeps one indirect block past the new end (`fs/sfs/sfs_bmap.c:266`);
- `emufs_loadvnode` does not release `vfs_biglock` when it runs out of memory;
  `vfs_mount` does not compare volume names with those in use; `vfs_setbootfs`
  rejects any name with a colon in it;
- the comments at `main/menu.c:105` ("does not wait") and `proc/proc.c:111`
  ("nothing currently calls this") are out of date; an executable with one PT_LOAD
  region ends in a panic because `as_define_pt` reads `as_data`.

## 6. Not modelled

- **Sleep locks, condition variables**: empty functions, no state. What follows
  for callers is a hazard in `PROJECT.json`.
- **Two threads in one file system, in `con_io` or in the emulator driver**: with
  empty locks the code promises nothing there.
- **Boot and shutdown, the system-call table, sys_read and sys_write, the small
  devices, sys161 registers, assembly**: fixed sequences or register moves
  without state of their own; the state they leave is the `Init` of the modules.
- **IPI_PANIC, IPI_OFFLINE, TLB shootdown**: the first two stop the machine, the
  third is never sent in this configuration.
- **dumbvm, lscreen, lnet, kmalloc's SLOW, GUARDS and LABELS**: not configured.
- **kheap_dump, kheap_printstats, vmstats_print**: print only.
- **In-kernel tests, user programs, the user C library**: clients of the modelled
  code, represented by the calls the models allow in any order.
