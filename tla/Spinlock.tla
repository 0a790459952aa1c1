------------------------------ MODULE Spinlock ------------------------------
(***************************************************************************)
(* Spinlocks, interrupt levels and traps, on several CPUs                  *)
(* (thread/spinlock.c, thread/spl.c, arch/mips/locore/trap.c), with the    *)
(* deadlock detector (thread/hangman.c) that the HANGMAN option compiles   *)
(* into spinlock_acquire and spinlock_release.                             *)
(*                                                                         *)
(* Each CPU runs one thread.  It starts in user mode and enters the kernel *)
(* through traps and interrupts, each of which saves a frame.  In the      *)
(* kernel it acquires and releases spinlocks and raises and lowers its     *)
(* interrupt level in any order, as spl.c says it may: the two need not    *)
(* nest.  It leaves an interrupt handler or a trap only when it has given  *)
(* back what it took.                                                      *)
(*                                                                         *)
(* Every access to a word other CPUs touch is a step of its own: the       *)
(* test-and-set, the stores to splk_holder and to the lock word.  The      *)
(* functions of hangman.c run under hangman_lock and are one step each.    *)
(***************************************************************************)
EXTENDS Integers, Sequences, FiniteSets

CONSTANTS Cpus, Locks, NULL,
          MaxHeld,      \* bound: spinlocks a CPU holds at once
          MaxFrames     \* bound: traps within traps on one kernel stack

ASSUME SpinAssumption ==
  /\ NULL \notin Cpus \cup Locks
  /\ IsFiniteSet(Cpus)
  /\ MaxHeld \in Nat /\ MaxFrames \in Nat \ {0}

VARIABLES cpu,      \* what is private to each CPU and its thread
          data,     \* splk_lock: 0 or 1
          holder,   \* splk_holder
          waiting,  \* a_waiting of each CPU's hangman_actor
          holding,  \* l_holding of each lock's hangman_lockable
          won,      \* history: the locks whose test-and-set a CPU won last
          dead      \* why the kernel has stopped: a panic or a failed KASSERT

spinvars == <<cpu, data, holder, waiting, holding, won, dead>>

IPL_NONE == 0
IPL_HIGH == 1

(* irq is the processor's interrupt enable bit; curspl and iplhigh are     *)
(* t_curspl and t_iplhigh_count; nspin is c_spinlocks; badfault says that  *)
(* tm_badfaultfunc is set; at and lock say how far a spinlock call is.     *)
UserThread ==
  [irq |-> TRUE, curspl |-> IPL_NONE, iplhigh |-> 0, nspin |-> 0,
   badfault |-> FALSE, frames |-> << >>, at |-> "run", lock |-> NULL]

(* spinlock_init, for every lock.                                          *)
SpinInit ==
  /\ cpu = [c \in Cpus |-> UserThread]
  /\ data = [l \in Locks |-> 0]
  /\ holder = [l \in Locks |-> NULL]
  /\ waiting = [c \in Cpus |-> NULL]
  /\ holding = [l \in Locks |-> NULL]
  /\ won = [c \in Cpus |-> {}]
  /\ dead = "no"

-----------------------------------------------------------------------------
(* Interrupt levels, as functions of one CPU's record.                     *)

splraise(p) == [p EXCEPT !.irq = (p.iplhigh # 0) /\ @,
                         !.iplhigh = @ + 1]

spllower_Any(p) == [p EXCEPT !.irq = TRUE, !.iplhigh = @ - 1]

spllower(p) == [p EXCEPT !.irq = (p.iplhigh = 1) \/ @,
                         !.iplhigh = @ - 1]

splx(p, spl) ==
  IF p.curspl < spl THEN [splraise(p) EXCEPT !.curspl = spl]
  ELSE IF p.curspl > spl THEN spllower([p EXCEPT !.curspl = spl])
  ELSE p

InKernel(c) == cpu[c].frames # << >>
Top(c) == cpu[c].frames[Len(cpu[c].frames)]
InHandler(c) == InKernel(c) /\ Top(c).kind = "irq"
Running(c) == dead = "no" /\ cpu[c].at = "run"

(* Inside the memcpy or copystr of copyin and copyout.                     *)
Copying(c) == InKernel(c) /\ Top(c).kind = "sys" /\ cpu[c].badfault
KernelCode(c) == Running(c) /\ InKernel(c) /\ ~Copying(c)

(* splhigh() and the splx that restores the old level.                     *)
splhigh(c) ==
  /\ KernelCode(c) /\ ~InHandler(c)
  /\ \E spl \in {IPL_NONE, IPL_HIGH} :
       /\ spl # cpu[c].curspl
       /\ cpu' = [cpu EXCEPT ![c] = splx(@, spl)]
  /\ UNCHANGED <<data, holder, waiting, holding, won, dead>>

-----------------------------------------------------------------------------
(* Spinlocks.                                                              *)

(* hangman_check: follow the holders and what they wait for, from l.       *)
Leads(l, target) ==
  LET actor[n \in 0..Cardinality(Cpus)] ==
        IF n = 0 THEN holding[l]
        ELSE IF actor[n-1] = NULL \/ waiting[actor[n-1]] = NULL THEN NULL
        ELSE holding[waiting[actor[n-1]]]
  IN  \E n \in 0..Cardinality(Cpus) : actor[n] = target

hangman_wait_NoCheck(c, l) ==
  /\ waiting' = [waiting EXCEPT ![c] = l]
  /\ dead' = IF waiting[c] # NULL THEN "hangman" ELSE dead

hangman_wait(c, l) ==
  /\ waiting' = [waiting EXCEPT ![c] = l]
  /\ dead' = IF waiting[c] # NULL THEN "hangman"
             ELSE IF Leads(l, c) THEN "cycle"
             ELSE dead

(* spinlock_acquire up to the loop: interrupts off, the check for this     *)
(* CPU's own lock, c_spinlocks, hangman_wait.                              *)
spinlock_acquire(c, l) ==
  /\ KernelCode(c) /\ Cardinality(won[c]) < MaxHeld
  /\ UNCHANGED <<data, holder, holding, won>>
  /\ IF holder[l] = c
       THEN /\ dead' = "self"
            /\ cpu' = [cpu EXCEPT ![c] = [splraise(cpu[c]) EXCEPT
                         !.at = "panic", !.lock = l]]
            /\ UNCHANGED waiting
       ELSE /\ hangman_wait(c, l)
            /\ cpu' = [cpu EXCEPT ![c] = [splraise(cpu[c]) EXCEPT
                         !.nspin = @ + 1, !.at = "spin", !.lock = l]]

(* An iteration of the loop that finds the word 0 and wins it.             *)
testandset(c) ==
  LET l == cpu[c].lock IN
  /\ dead = "no" /\ cpu[c].at = "spin" /\ data[l] = 0
  /\ data' = [data EXCEPT ![l] = 1]
  /\ won' = [won EXCEPT ![c] = @ \cup {l}]
  /\ cpu' = [cpu EXCEPT ![c].at = "won"]
  /\ UNCHANGED <<holder, waiting, holding, dead>>

SetHolder(c) ==
  /\ dead = "no" /\ cpu[c].at = "won"
  /\ holder' = [holder EXCEPT ![cpu[c].lock] = c]
  /\ cpu' = [cpu EXCEPT ![c].at = "noted"]
  /\ UNCHANGED <<data, waiting, holding, won, dead>>

hangman_acquire_Waiting(c) ==
  LET l == cpu[c].lock IN
  /\ dead = "no" /\ cpu[c].at = "noted"
  /\ holding' = [holding EXCEPT ![l] = c]
  /\ cpu' = [cpu EXCEPT ![c].at = "run", ![c].lock = NULL]
  /\ UNCHANGED <<data, holder, won, dead, waiting>>

hangman_acquire(c) ==
  LET l == cpu[c].lock IN
  /\ dead = "no" /\ cpu[c].at = "noted"
  /\ dead' = IF waiting[c] # l \/ holding[l] # NULL THEN "hangman" ELSE dead
  /\ holding' = [holding EXCEPT ![l] = c]
  /\ waiting' = [waiting EXCEPT ![c] = NULL]
  /\ cpu' = [cpu EXCEPT ![c].at = "run", ![c].lock = NULL]
  /\ UNCHANGED <<data, holder, won>>

spinlock_release_NoCount(c, l) ==
  /\ Running(c) /\ l \in won[c]
  /\ holding' = [holding EXCEPT ![l] = NULL]
  /\ cpu' = [cpu EXCEPT ![c].at = "leave", ![c].lock = l]
  /\ UNCHANGED <<data, holder, waiting, won, dead>>

hangman_release(c, l) ==
  /\ dead' = IF waiting[c] # NULL \/ holding[l] # c THEN "hangman" ELSE dead
  /\ holding' = [holding EXCEPT ![l] = NULL]

(* spinlock_release of a lock this CPU holds, up to hangman_release.       *)
spinlock_release(c, l) ==
  /\ Running(c) /\ l \in won[c]
  /\ IF holder[l] # c \/ cpu[c].nspin = 0
       THEN dead' = "assert" /\ UNCHANGED holding
       ELSE hangman_release(c, l)
  /\ cpu' = [cpu EXCEPT ![c].nspin = @ - 1, ![c].at = "leave", ![c].lock = l]
  /\ UNCHANGED <<data, holder, waiting, won>>

(* splk_holder is cleared before the word is: the membar between the two.  *)
ClearHolder_Late(c) ==
  LET l == cpu[c].lock IN
  /\ dead = "no" /\ cpu[c].at = "leave"
  /\ data' = [data EXCEPT ![l] = 0]
  /\ won' = [won EXCEPT ![c] = @ \ {l}]
  /\ cpu' = [cpu EXCEPT ![c].at = "clear"]
  /\ UNCHANGED <<holder, waiting, holding, dead>>

ClearHolder(c) ==
  /\ dead = "no" /\ cpu[c].at = "leave"
  /\ holder' = [holder EXCEPT ![cpu[c].lock] = NULL]
  /\ cpu' = [cpu EXCEPT ![c].at = "clear"]
  /\ UNCHANGED <<data, waiting, holding, won, dead>>

ClearData(c) ==
  LET l == cpu[c].lock IN
  /\ dead = "no" /\ cpu[c].at = "clear"
  /\ data' = [data EXCEPT ![l] = 0]
  /\ won' = [won EXCEPT ![c] = @ \ {l}]
  /\ cpu' = [cpu EXCEPT ![c] = [spllower(@) EXCEPT !.at = "run",
                                                   !.lock = NULL]]
  /\ UNCHANGED <<holder, waiting, holding, dead>>

-----------------------------------------------------------------------------
(* Interrupts and traps.  A frame keeps the enable bit the return from the *)
(* exception restores.                                                     *)

Frame(p, kind, adjust) ==
  [kind |-> kind, irq |-> p.irq, adjust |-> adjust, at |-> p.at]

(* mips_trap, EX_IRQ: up to mainbus_interrupt.                             *)
Interrupt(c) ==
  LET p == cpu[c]
      adjust == p.curspl = IPL_NONE
  IN
  /\ dead = "no" /\ p.irq /\ p.at \in {"run", "idle"}
  /\ dead' = IF adjust /\ p.iplhigh # 0 THEN "assert" ELSE dead
  /\ cpu' = [cpu EXCEPT ![c] =
       [p EXCEPT !.irq = FALSE, !.at = "run",
                 !.frames = Append(@, Frame(p, "irq", adjust)),
                 !.curspl = IPL_HIGH,
                 !.iplhigh = IF adjust THEN @ + 1 ELSE @]]
  /\ UNCHANGED <<data, holder, waiting, holding, won>>

(* mips_trap, EX_IRQ: after mainbus_interrupt, whose handlers have         *)
(* released their spinlocks.                                               *)
InterruptReturn(c) ==
  LET p == cpu[c] IN
  /\ Running(c) /\ InHandler(c) /\ won[c] = {}
  /\ dead' = IF Top(c).adjust /\ (p.curspl # IPL_HIGH \/ p.iplhigh # 1)
             THEN "assert" ELSE dead
  /\ cpu' = [cpu EXCEPT ![c] =
       [p EXCEPT !.irq = Top(c).irq, !.at = Top(c).at,
                 !.frames = SubSeq(@, 1, Len(@) - 1),
                 !.curspl = IF Top(c).adjust THEN IPL_NONE ELSE @,
                 !.iplhigh = IF Top(c).adjust THEN @ - 1 ELSE @]]
  /\ UNCHANGED <<data, holder, waiting, holding, won>>

(* cpu_idle: interrupts are let in and shut out again while t_curspl stays *)
(* high (thread_switch has called splhigh and released the run queue).     *)
cpu_idle(c) ==
  /\ dead = "no" /\ InKernel(c) /\ ~InHandler(c)
  /\ \/ /\ cpu[c].at = "run" /\ cpu[c].curspl = IPL_HIGH /\ won[c] = {}
        /\ cpu' = [cpu EXCEPT ![c].at = "idle", ![c].irq = TRUE]
     \/ /\ cpu[c].at = "idle"
        /\ cpu' = [cpu EXCEPT ![c].at = "run", ![c].irq = FALSE]
  /\ UNCHANGED <<data, holder, waiting, holding, won, dead>>

(* mips_trap, the other exceptions: the processor turns interrupts off;    *)
(* splhigh and splx bring back the level of the interrupted context.       *)
Entered(p, kind) ==
  LET off == [p EXCEPT !.irq = FALSE,
                       !.frames = Append(@, Frame(p, kind, FALSE))]
  IN  splx(splx(off, IPL_HIGH), p.curspl)

(* A system call, from user mode only; its KASSERTs on the level.          *)
Syscall(c) ==
  LET p == Entered(cpu[c], "sys") IN
  /\ Running(c) /\ ~InKernel(c)
  /\ cpu' = [cpu EXCEPT ![c] = p]
  /\ dead' = IF p.curspl # IPL_NONE \/ p.iplhigh # 0 THEN "assert" ELSE dead
  /\ UNCHANGED <<data, holder, waiting, holding, won>>

(* A TLB exception: a user access, or one the kernel makes in copyin or    *)
(* copyout, where it holds no spinlock.                                    *)
TlbFault(c) ==
  /\ Running(c) /\ (~InKernel(c) \/ Copying(c))
  /\ Len(cpu[c].frames) < MaxFrames
  /\ cpu' = [cpu EXCEPT ![c] = Entered(@, "tlb")]
  /\ UNCHANGED <<data, holder, waiting, holding, won, dead>>

(* copyin, copyout, copyinstr and copyoutstr set tm_badfaultfunc around    *)
(* their access to user memory.                                            *)
CopyBegins(c) ==
  /\ KernelCode(c) /\ Top(c).kind = "sys"
  /\ won[c] = {} /\ cpu[c].curspl = IPL_NONE
  /\ cpu' = [cpu EXCEPT ![c].badfault = TRUE]
  /\ UNCHANGED <<data, holder, waiting, holding, won, dead>>

CopyEnds(c) ==
  /\ Running(c) /\ Copying(c)
  /\ cpu' = [cpu EXCEPT ![c].badfault = FALSE]
  /\ UNCHANGED <<data, holder, waiting, holding, won, dead>>

(* The end of mips_trap: cpu_irqoff leaves the recorded level alone, and   *)
(* the return from the exception brings the enable bit back.               *)
Left(p) ==
  [p EXCEPT !.irq = p.frames[Len(p.frames)].irq,
            !.frames = SubSeq(@, 1, Len(@) - 1)]

TrapReturn(c) ==
  /\ KernelCode(c) /\ ~InHandler(c)
  /\ won[c] = {} /\ cpu[c].curspl = IPL_NONE
  /\ cpu' = [cpu EXCEPT ![c] = Left(@)]
  /\ UNCHANGED <<data, holder, waiting, holding, won, dead>>

(* vm_fault fails.  A user program's fault is fatal (kill_curthread        *)
(* panics); a fault in copyin resumes in copyfail, and copyin returns      *)
(* EFAULT after clearing tm_badfaultfunc.                                  *)
FatalFault(c) ==
  /\ KernelCode(c) /\ Top(c).kind = "tlb"
  /\ won[c] = {} /\ cpu[c].curspl = IPL_NONE
  /\ IF Len(cpu[c].frames) = 1
       THEN dead' = "killed" /\ UNCHANGED cpu
       ELSE IF cpu[c].badfault
       THEN /\ cpu' = [cpu EXCEPT ![c] = [Left(@) EXCEPT !.badfault = FALSE]]
            /\ UNCHANGED dead
       ELSE dead' = "fatal" /\ UNCHANGED cpu
  /\ UNCHANGED <<data, holder, waiting, holding, won>>

SpinNext ==
  \E c \in Cpus :
    \/ splhigh(c) \/ testandset(c) \/ SetHolder(c) \/ hangman_acquire(c)
    \/ ClearHolder(c) \/ ClearData(c)
    \/ \E l \in Locks : spinlock_acquire(c, l) \/ spinlock_release(c, l)
    \/ Interrupt(c) \/ InterruptReturn(c) \/ cpu_idle(c)
    \/ Syscall(c) \/ TlbFault(c) \/ CopyBegins(c) \/ CopyEnds(c)
    \/ TrapReturn(c) \/ FatalFault(c)

SpinSpec == SpinInit /\ [][SpinNext]_spinvars

-----------------------------------------------------------------------------
(* The state has the shape the code gives it; the counts stay in range.    *)
SpinTypeOK ==
  /\ data \in [Locks -> {0, 1}]
  /\ holder \in [Locks -> Cpus \cup {NULL}]
  /\ holding \in [Locks -> Cpus \cup {NULL}]
  /\ waiting \in [Cpus -> Locks \cup {NULL}]
  /\ won \in [Cpus -> SUBSET Locks]
  /\ \A c \in Cpus :
       /\ cpu[c].curspl \in {IPL_NONE, IPL_HIGH}
       /\ cpu[c].nspin \in 0..MaxHeld
       /\ cpu[c].iplhigh \in 0..(MaxHeld + 1)
       /\ Len(cpu[c].frames) <= MaxFrames + 1

(* A spinlock has one owner, its word is set exactly while it has one, and *)
(* splk_holder never names a CPU that is not the owner: the check for      *)
(* this CPU's own lock in spinlock_acquire raises no false alarm and       *)
(* misses no CPU about to spin on its own lock.                            *)
HolderIsOwner ==
  /\ \A l \in Locks :
       /\ data[l] = 1 <=> \E c \in Cpus : l \in won[c]
       /\ \A c, d \in Cpus : l \in won[c] \cap won[d] => c = d
       /\ holder[l] # NULL => l \in won[holder[l]]
  /\ \A c \in Cpus :
       /\ cpu[c].at = "panic" => cpu[c].lock \in won[c]
       /\ cpu[c].at = "spin" => cpu[c].lock \notin won[c]

(* No interrupt is let in while a CPU holds a spinlock, is spinning for    *)
(* one or has called splhigh, except by cpu_idle; and when it has given    *)
(* back all it took outside a handler, interrupts are on again.  The       *)
(* enable bit is on exactly when nothing has turned interrupts off: the    *)
(* spinlocks and the spl calls need not nest for that.                     *)
InterruptsMatchLevel ==
  /\ SpinTypeOK
  /\ dead = "no" =>
       \A c \in Cpus :
         LET p == cpu[c] IN
         /\ (won[c] # {} \/ p.at = "spin") => ~p.irq
         /\ p.at # "idle" => (p.irq <=> p.iplhigh = 0)
         /\ p.iplhigh = p.nspin + p.curspl
                          + (IF p.at \in {"leave", "clear"} THEN 1 ELSE 0)

(* A set of CPUs each of which spins on a lock another of them owns.       *)
WaitsFor(c, d) == cpu[c].at = "spin" /\ cpu[c].lock \in won[d]
Knot ==
  \E S \in (SUBSET Cpus) \ {{}} : \A c \in S : \E d \in S : WaitsFor(c, d)

(* hangman_check panics exactly on a real deadlock: some CPUs each spin on *)
(* a lock another of them owns.  No such knot goes unreported, and no      *)
(* report is made without one.                                             *)
HangmanIsExact == (dead = "cycle") <=> Knot

(* The assertions of mips_trap and spinlock_release and the consistency    *)
(* panics of hangman.c never fire, and a bad user pointer given to a       *)
(* system call never takes the kernel down.                                *)
NoSpuriousPanic == dead \notin {"assert", "hangman", "fatal"}

=============================================================================
