------------------------------ MODULE DemandVM ------------------------------
(***************************************************************************)
(* Demand paging of a user program: vm_fault (kern/vm/vm.c), the user side *)
(* of the coremap with victim selection and swap-out (coremap.c), the page *)
(* table (pt.c), the swap file and its bitmap (swapfile.c) and the TLB.    *)
(*                                                                         *)
(* At most one user program exists at a time: there is no fork (as_copy    *)
(* panics) and the menu waits for the program it started.  Its one thread  *)
(* U is the only allocator while it lives.  What runs beside it: the       *)
(* exorcism of dead threads, which frees kernel frames on any CPU, and     *)
(* context switches of U, each of which ends in as_activate.               *)
(*                                                                         *)
(* A call of coremap_getppages is one step up to the point where           *)
(* coremap_swapout releases cm_spinlock for the disk write, and one step   *)
(* from there on; module Coremap shows that its scan is a first fit.       *)
(* Page contents are tokens: <<p, 0>> is page p as the ELF file has it,    *)
(* <<p, v>> with v > 0 what the program stored there.                      *)
(***************************************************************************)
EXTENDS Tlb

CONSTANTS
  Pages,         \* virtual pages of the program's segments
  ReadOnly,      \* those of the text segment
  ElfPages,      \* those with bytes in the ELF file (as_check_in_elf)
  Versions,      \* values a store can leave in a page
  nRamFrames,    \* number of physical frames
  kernel_pages,  \* frames taken at boot
  nSwapPages,    \* SWAPFILE_NPAGES
  NULL,          \* cm_ptentry of a kernel frame
  Dangling,      \* cm_ptentry that points into a destroyed page table
  Zero,          \* the contents of a frame after bzero
  KData          \* the contents of a frame the kernel uses

Frames  == 0 .. nRamFrames - 1
Slots   == 0 .. nSwapPages - 1
Stored  == Pages \X Versions
Content == {Zero, KData} \cup (Pages \X {0}) \cup Stored

ASSUME VMAssumption ==
  /\ ReadOnly \subseteq Pages
  /\ ElfPages \subseteq Pages
  /\ NULL \notin Pages /\ Dangling \notin Pages /\ NULL # Dangling
  /\ NoPage \notin Pages
  /\ Versions \subseteq Nat \ {0}
  /\ nRamFrames \in Nat \ {0}
  /\ kernel_pages \in 1 .. nRamFrames
  /\ nSwapPages \in Nat

VARIABLES
  cm_free,        \* 1 when the frame is in USE (sic)
  cm_size_alloc,  \* size of the block that starts at the frame
  cm_lock,        \* 1 while the frame is being written to swap
  cm_ptentry,     \* page whose table entry owns the frame, NULL or Dangling
  victim_index,   \* round-robin pointer of coremap_get_victim
  pt,             \* page table of the program: page -> entry
  swapmap,        \* marked slots of the swap file
  swapfile,       \* slot -> contents
  mem,            \* frame -> contents
  kframes,        \* frames that callers of alloc_kpages hold
  pc,             \* where U is
  page,           \* the page vm_fault handles (NULL outside vm_fault)
  frame,          \* the victim, then page_paddr
  slot            \* swap_index of swap_out

cmvars   == <<cm_free, cm_size_alloc, cm_lock, cm_ptentry, victim_index>>
swapvars == <<swapmap, swapfile>>
locals   == <<page, frame, slot>>
vars     == <<cmvars, pt, swapvars, mem, kframes, tlbvars, pc, locals>>

NotLoaded == [status |-> "NOT_LOADED", frame |-> 0, swap |-> 0]

\* The initial contents of page p: the ELF file's bytes, or zeroes.
Image(p) == IF p \in ElfPages THEN <<p, 0>> ELSE Zero

Init ==
  /\ cm_free       = [f \in Frames |-> IF f < kernel_pages THEN 1 ELSE 0]
  /\ cm_size_alloc = [f \in Frames |-> IF f < kernel_pages THEN 1 ELSE 0]
  /\ cm_lock       = [f \in Frames |-> 0]
  /\ cm_ptentry    = [f \in Frames |-> NULL]
  /\ victim_index  = 0
  /\ pt       = [p \in Pages |-> NotLoaded]
  /\ swapmap  = {}
  /\ swapfile = [s \in Slots |-> Zero]
  /\ mem      = [f \in Frames |-> IF f < kernel_pages THEN KData ELSE Zero]
  /\ kframes  = {}
  /\ TlbInit
  /\ pc = "none"
  /\ page = NULL /\ frame = 0 /\ slot = 0

Goto(from, to) == pc = from /\ pc' = to

----------------------------------------------------------------------------
(* The coremap.                                                            *)

FirstFree(f) == cm_free[f] = 0 /\ \A g \in Frames : g < f => cm_free[g] = 1
Full         == \A f \in Frames : cm_free[f] = 1

\* Mutant: a kernel frame keeps the cm_ptentry of its last user.
TakeFrame_KeepOwner(f, owner) ==
  /\ mem'           = [mem EXCEPT ![f] = IF owner = NULL THEN KData ELSE Zero]
  /\ cm_free'       = [cm_free EXCEPT ![f] = 1]
  /\ cm_size_alloc' = [cm_size_alloc EXCEPT ![f] = 1]
  /\ cm_ptentry'    = [cm_ptentry EXCEPT ![f] = IF owner = NULL THEN @ ELSE owner]

\* Mutant: the frame is not cleared.
TakeFrame_NoBzero(f, owner) ==
  /\ mem'           = [mem EXCEPT ![f] = IF owner = NULL THEN KData ELSE @]
  /\ cm_free'       = [cm_free EXCEPT ![f] = 1]
  /\ cm_size_alloc' = [cm_size_alloc EXCEPT ![f] = 1]
  /\ cm_ptentry'    = [cm_ptentry EXCEPT ![f] = owner]

\* The tail of coremap_getppages for one page: clear the frame and give it to
\* owner.  What the kernel then writes to a frame of its own is KData.
TakeFrame(f, owner) ==
  /\ mem'           = [mem EXCEPT ![f] = IF owner = NULL THEN KData ELSE Zero]
  /\ cm_free'       = [cm_free EXCEPT ![f] = 1]
  /\ cm_size_alloc' = [cm_size_alloc EXCEPT ![f] = 1]
  /\ cm_ptentry'    = [cm_ptentry EXCEPT ![f] = owner]

\* coremap_get_victim: the first frame after victim_index, in cyclic order,
\* that has a cm_ptentry and is not locked.
Swappable(f) == cm_ptentry[f] # NULL /\ cm_lock[f] = 0

\* Mutant: the scan always starts at frame 0.
NthAfter_FromStart(k) == (k - 1) % nRamFrames

NthAfter(k) == (victim_index + k) % nRamFrames

Victim(v) ==
  \E k \in 1 .. nRamFrames :
    /\ v = NthAfter(k)
    /\ Swappable(v)
    /\ \A j \in 1 .. k - 1 : ~Swappable(NthAfter(j))

\* alloc_kpages(1) by the menu thread, between two programs.
alloc_kpages(f) ==
  /\ pc = "none"
  /\ FirstFree(f)
  /\ TakeFrame(f, NULL)
  /\ kframes' = kframes \cup {f}
  /\ UNCHANGED <<cm_lock, victim_index, pt, swapvars, tlbvars, pc, locals>>

\* coremap_swapout: "Cannot find swappable victim".
NoVictim ==
  /\ pc \in {"none", "alloc"}
  /\ Full
  /\ \A f \in Frames : ~Swappable(f)
  /\ pc' = "panic"
  /\ UNCHANGED <<cmvars, pt, swapvars, mem, kframes, tlbvars, locals>>

\* free_kpages, by the menu thread or by exorcise on any CPU.
free_kpages(f) ==
  /\ pc # "panic"
  /\ f \in kframes
  /\ cm_free' = [cm_free EXCEPT ![f] = 0]
  /\ cm_size_alloc' = [cm_size_alloc EXCEPT ![f] = 0]
  /\ kframes' = kframes \ {f}
  /\ UNCHANGED <<cm_lock, cm_ptentry, victim_index, pt, swapvars, mem, tlbvars, pc, locals>>

----------------------------------------------------------------------------
(* The life of a program.                                                  *)

\* runprogram: a page table of NOT_LOADED entries, and as_activate.
runprogram ==
  /\ Goto("none", "user")
  /\ pt' = [p \in Pages |-> NotLoaded]
  /\ tlb_invalidate
  /\ UNCHANGED <<cmvars, swapvars, mem, kframes, locals>>

\* U is switched out and in again (timer, or sleep in the I/O of a fault):
\* thread_switch ends in as_activate, which invalidates the TLB.
as_activate ==
  /\ pc \notin {"none", "exited", "panic"}
  /\ tlb_invalidate
  /\ UNCHANGED <<cmvars, pt, swapvars, mem, kframes, pc, locals>>

\* A store of the program that hits a writable TLB entry.
Store(i, v) ==
  /\ pc = "user"
  /\ tlb[i].vpn # NoPage /\ tlb[i].dirty
  /\ mem' = [mem EXCEPT ![tlb[i].frame] = <<tlb[i].vpn, v>>]
  /\ UNCHANGED <<cmvars, pt, swapvars, kframes, tlbvars, pc, locals>>

\* sys__exit: called by the program, or by vm_fault for a store to a page whose
\* TLB entry is read-only and for an address outside every segment.
sys__exit ==
  /\ Goto("user", "exited")
  /\ UNCHANGED <<cmvars, pt, swapvars, mem, kframes, tlbvars, locals>>

InMemory(p) == pt[p].status \in {"IN_MEMORY", "IN_MEMORY_RDONLY"}
InSwap(p)   == pt[p].status = "IN_SWAP"

\* The frames and the slots that pt_empty returns.
ResidentFrames == {pt[p].frame : p \in {q \in Pages : InMemory(q)}}
SwappedSlots   == {pt[p].swap : p \in {q \in Pages : InSwap(q)}}

\* Mutant: pt_empty frees only the frames with status IN_MEMORY.
pt_empty_KeepText ==
  LET freed == {pt[p].frame : p \in {q \in Pages : pt[q].status = "IN_MEMORY"}}
  IN  /\ cm_free'       = [f \in Frames |-> IF f \in freed THEN 0 ELSE cm_free[f]]
      /\ cm_size_alloc' = [f \in Frames |-> IF f \in freed THEN 0 ELSE cm_size_alloc[f]]
      /\ swapmap' = swapmap \ SwappedSlots

pt_empty ==
  /\ cm_free'       = [f \in Frames |-> IF f \in ResidentFrames THEN 0 ELSE cm_free[f]]
  /\ cm_size_alloc' = [f \in Frames |-> IF f \in ResidentFrames THEN 0 ELSE cm_size_alloc[f]]
  /\ swapmap' = swapmap \ SwappedSlots

\* as_destroy, from proc_wait in the menu thread: the frames and the slots are
\* returned, then the page table goes.  cm_ptentry is not reset.
as_destroy ==
  /\ Goto("exited", "none")
  /\ pt_empty
  /\ cm_ptentry' = [f \in Frames |-> IF cm_ptentry[f] = NULL THEN NULL ELSE Dangling]
  /\ pt' = [p \in Pages |-> NotLoaded]
  /\ UNCHANGED <<cm_lock, victim_index, swapfile, mem, kframes, tlbvars, locals>>

----------------------------------------------------------------------------
(* vm_fault on a page of the program that has no TLB entry.                *)

pt_set_entry(p, f, s, st) == pt' = [pt EXCEPT ![p] = [status |-> st, frame |-> f, swap |-> s]]

Resident(p) == IF p \in ReadOnly THEN "IN_MEMORY_RDONLY" ELSE "IN_MEMORY"

vm_fault(p) ==
  /\ ~TlbHit(p)
  /\ Goto("user", IF InMemory(p) THEN "insert" ELSE "alloc")
  /\ page' = p
  /\ UNCHANGED <<cmvars, pt, swapvars, mem, kframes, tlbvars, frame, slot>>

\* alloc_upage finds a free frame.
GetFree(f) ==
  /\ FirstFree(f)
  /\ Goto("alloc", "fill")
  /\ TakeFrame(f, page)
  /\ frame' = f
  /\ UNCHANGED <<cm_lock, victim_index, pt, swapvars, kframes, tlbvars, page, slot>>

\* alloc_upage evicts a page of the text segment, which is not written out.
DropText(v) ==
  /\ pc = "alloc" /\ Full /\ Victim(v)
  /\ pt[cm_ptentry[v]].status = "IN_MEMORY_RDONLY"
  /\ pc' = "fill"
  /\ victim_index' = v
  /\ pt_set_entry(cm_ptentry[v], 0, 0, "NOT_LOADED")
  /\ tlb_remove_by_paddr(v)
  /\ TakeFrame(v, page)
  /\ frame' = v
  /\ UNCHANGED <<cm_lock, swapvars, kframes, page, slot>>

\* alloc_upage evicts any other page: the frame is locked, cm_spinlock is
\* released, and swap_out takes the first free slot.
StartSwapOut(v) ==
  /\ pc = "alloc" /\ Full /\ Victim(v)
  /\ pt[cm_ptentry[v]].status # "IN_MEMORY_RDONLY"
  /\ cm_lock' = [cm_lock EXCEPT ![v] = 1]
  /\ victim_index' = v
  /\ frame' = v
  /\ \/ /\ swapmap = Slots                  \* "Out of swap space"
        /\ pc' = "panic"
        /\ UNCHANGED <<swapmap, slot>>
     \/ \E s \in Slots :
          /\ s \notin swapmap /\ \A r \in Slots : r < s => r \in swapmap
          /\ pc' = "write"
          /\ swapmap' = swapmap \cup {s}
          /\ slot' = s
  /\ UNCHANGED <<cm_free, cm_size_alloc, cm_ptentry, pt, swapfile, mem, kframes, tlbvars, page>>

\* The VOP_WRITE of swap_out.
WriteSlot ==
  /\ Goto("write", "evict")
  /\ swapfile' = [swapfile EXCEPT ![slot] = mem[frame]]
  /\ UNCHANGED <<cmvars, pt, swapmap, mem, kframes, tlbvars, locals>>

\* cm_spinlock is taken again; the rest of coremap_swapout and
\* coremap_getppages.
FinishSwapOut ==
  /\ Goto("evict", "fill")
  /\ cm_lock' = [cm_lock EXCEPT ![frame] = 0]
  /\ pt_set_entry(cm_ptentry[frame], 0, slot, "IN_SWAP")
  /\ tlb_remove_by_paddr(frame)
  /\ TakeFrame(frame, page)
  /\ slot' = 0
  /\ UNCHANGED <<victim_index, swapvars, kframes, page, frame>>

\* Back in vm_fault with a cleared frame, for a page that was NOT_LOADED.
MapPage ==
  /\ pc = "fill" /\ pt[page].status = "NOT_LOADED"
  /\ pc' = IF page \in ElfPages THEN "load" ELSE "insert"
  /\ pt_set_entry(page, frame, 0, Resident(page))
  /\ UNCHANGED <<cmvars, swapvars, mem, kframes, tlbvars, locals>>

\* as_load_page: the disk read from the ELF file.
as_load_page ==
  /\ Goto("load", "insert")
  /\ mem' = [mem EXCEPT ![pt[page].frame] = Image(page)]
  /\ UNCHANGED <<cmvars, pt, swapvars, kframes, tlbvars, locals>>

\* The VOP_READ of swap_in, for a page that was IN_SWAP.
ReadSlot ==
  /\ pc = "fill" /\ InSwap(page)
  /\ pc' = "unmark"
  /\ mem' = [mem EXCEPT ![frame] = swapfile[pt[page].swap]]
  /\ UNCHANGED <<cmvars, pt, swapvars, kframes, tlbvars, locals>>

\* Mutant: swap_in does not unmark the slot.
FinishSwapIn_KeepSlot ==
  /\ Goto("unmark", "insert")
  /\ pt_set_entry(page, frame, 0, Resident(page))
  /\ UNCHANGED <<cmvars, swapvars, mem, kframes, tlbvars, locals>>

\* The end of swap_in, and the page table.
FinishSwapIn ==
  /\ Goto("unmark", "insert")
  /\ swapmap' = swapmap \ {pt[page].swap}
  /\ pt_set_entry(page, frame, 0, Resident(page))
  /\ UNCHANGED <<cmvars, swapfile, mem, kframes, tlbvars, locals>>

\* tlb_insert, and the return to the program.
InsertEntry ==
  /\ Goto("insert", "user")
  /\ tlb_insert(page, pt[page].frame, page \in ReadOnly)
  /\ page' = NULL /\ frame' = 0
  /\ UNCHANGED <<cmvars, pt, swapvars, mem, kframes, slot>>

FaultStep ==
  \/ \E f \in Frames : GetFree(f) \/ DropText(f) \/ StartSwapOut(f)
  \/ NoVictim
  \/ WriteSlot
  \/ FinishSwapOut
  \/ MapPage
  \/ as_load_page
  \/ ReadSlot
  \/ FinishSwapIn
  \/ InsertEntry

Next ==
  \/ \E f \in Frames : alloc_kpages(f) \/ free_kpages(f)
  \/ runprogram
  \/ as_activate
  \/ \E i \in TlbSlots, v \in Versions : Store(i, v)
  \/ \E p \in Pages : vm_fault(p)
  \/ FaultStep
  \/ sys__exit
  \/ as_destroy

Spec == Init /\ [][Next]_vars

\* A fault handler that has started keeps running: U is runnable or waits for
\* a disk operation that completes.
FairSpec == Spec /\ WF_vars(FaultStep)

----------------------------------------------------------------------------
(* Properties.                                                             *)

Alive == pc \notin {"none", "exited", "panic"}

Entries == [status : {"NOT_LOADED", "IN_MEMORY", "IN_SWAP", "IN_MEMORY_RDONLY"},
            frame : Frames, swap : Slots \cup {0}]

TlbEntries == [vpn : Pages \cup {NoPage}, frame : Frames, dirty : BOOLEAN]

\* Every variable has its type: frame, slot and TLB indices stay in range.
TypeOK ==
  /\ cm_free \in [Frames -> {0, 1}]
  /\ cm_size_alloc \in [Frames -> {0, 1}]
  /\ cm_lock \in [Frames -> {0, 1}]
  /\ cm_ptentry \in [Frames -> Pages \cup {NULL, Dangling}]
  /\ victim_index \in Frames
  /\ pt \in [Pages -> Entries]
  /\ swapmap \subseteq Slots
  /\ swapfile \in [Slots -> Content]
  /\ mem \in [Frames -> Content]
  /\ kframes \subseteq Frames
  /\ tlb \in [TlbSlots -> TlbEntries]
  /\ tlb_victim \in TlbSlots
  /\ tlb_free \in BOOLEAN
  /\ pc \in {"none", "user", "alloc", "write", "evict", "fill", "load", "unmark",
             "insert", "exited", "panic"}
  /\ page \in Pages \cup {NULL}
  /\ frame \in Frames
  /\ slot \in Slots \cup {0}

\* The frame vm_fault has just taken for page p, and the frames of the kernel.
TakenFor(f, p) == pc \in {"fill", "unmark"} /\ frame = f /\ page = p

KernelFrame(f) == f < kernel_pages \/ f \in kframes

\* The coremap and the page table agree in both directions (alloc_upage,
\* coremap_swapout, pt_empty): a resident page owns its frame; a used frame
\* belongs to the kernel, whose data nothing overwrites, or is the frame of the
\* page its cm_ptentry names, or has just been taken for the page vm_fault
\* handles.  So no frame is shared and none leaks, across any number of
\* programs.
FrameOwnership ==
  /\ \A p \in Pages : InMemory(p) => /\ cm_ptentry[pt[p].frame] = p
                                     /\ cm_free[pt[p].frame] = 1
  /\ \A f \in Frames : cm_free[f] = 1 =>
       \/ KernelFrame(f) /\ cm_ptentry[f] = NULL /\ mem[f] = KData
       \/ /\ ~KernelFrame(f)
          /\ \E p \in Pages : /\ cm_ptentry[f] = p
                              /\ (InMemory(p) /\ pt[p].frame = f) \/ TakenFor(f, p)

\* When coremap_get_victim runs, the frames it may choose pass its KASSERTs and
\* hold a resident page of the living program: no cm_ptentry that
\* coremap_freeppages left behind is ever followed.
VictimIsResident ==
  pc \in {"none", "alloc"} /\ Full =>
    \A f \in Frames : Swappable(f) =>
      /\ cm_size_alloc[f] = 1
      /\ Alive /\ cm_ptentry[f] \in Pages
      /\ InMemory(cm_ptentry[f]) /\ pt[cm_ptentry[f]].frame = f

\* A slot is marked exactly while it holds a page that is out of memory or on
\* its way there, and two pages never share one (swap_out, swap_in, swap_free);
\* so "Out of swap space" means that the pages of the program fill the file.
SwapAccounting ==
  /\ \A p, q \in Pages : InSwap(p) /\ InSwap(q) /\ p # q => pt[p].swap # pt[q].swap
  /\ pc \in {"write", "evict"} => slot \notin SwappedSlots
  /\ swapmap = SwappedSlots \cup (IF pc \in {"write", "evict"} THEN {slot} ELSE {})

\* Every TLB entry the program can use is the current translation of its page,
\* with write permission exactly outside the text segment, and no page has two
\* (tlb_insert, tlb_remove_by_paddr, as_activate).
TlbCoherent ==
  Alive => \A i \in TlbSlots : tlb[i].vpn # NoPage =>
    /\ InMemory(tlb[i].vpn)
    /\ tlb[i].frame = pt[tlb[i].vpn].frame
    /\ tlb[i].dirty = (tlb[i].vpn \notin ReadOnly)
    /\ \A j \in TlbSlots : tlb[j].vpn = tlb[i].vpn => j = i

\* The contents of page p as the program would see it once its fault is done.
Value(p) ==
  IF InSwap(p) THEN swapfile[pt[p].swap]
  ELSE IF InMemory(p) /\ ~(pc = "load" /\ page = p) THEN mem[pt[p].frame]
  ELSE Image(p)

UM == INSTANCE UserMemory WITH
  Writable <- Pages \ ReadOnly,
  alive <- Alive,
  memory <- [p \in Pages |-> IF Alive THEN Value(p) ELSE Image(p)]

\* vm_fault, eviction and swap implement a private memory for the program: a
\* page has its initial contents until the program stores to it, and then the
\* last value stored, wherever the page has been meanwhile.
MemoryRefinement == UM!Spec

\* From some point on U is not switched out, does not end, and faults only on
\* pages of W; and at least two frames are not the kernel's.
Steady(W) ==
  /\ ~as_activate /\ ~sys__exit
  /\ \A p \in Pages : vm_fault(p) => p \in W

TwoUserFrames == \E f, g \in Frames : f # g /\ ~KernelFrame(f) /\ ~KernelFrame(g)

\* An instruction that needs two pages, its own and an operand's, completes:
\* the round-robin choices of coremap_get_victim and tlb_insert do not let the
\* two faults undo each other for ever.
WorkingSetSettles ==
  \A a, b \in Pages :
    \/ []<><<~Steady({a, b})>>_vars
    \/ []<>~TwoUserFrames
    \/ <>[](pc \in {"none", "user", "exited", "panic"})
=============================================================================
