--------------------------- MODULE DemandVMProofs ---------------------------
(***************************************************************************)
(* Proofs about DemandVM, for any set of pages and any number of frames,   *)
(* swap slots and TLB entries: the inductive invariant, that the steps     *)
(* outside the fault handler and those of the handler preserve it, the     *)
(* safety properties that follow from it, that DemandVM implements         *)
(* UserMemory (demand paging is invisible to the program), and that the    *)
(* counters of VmStats agree.                                              *)
(***************************************************************************)
EXTENDS VmStats, FiniteSetTheorems, TLAPS

Handling == {"alloc", "write", "evict", "fill", "load", "unmark", "insert"}

\* Every frame in use is one block.
SizeInv == \A f \in Frames : cm_size_alloc[f] = cm_free[f]

\* The kernel's frames are in use, have no owner and keep its data.
KernelInv ==
  /\ kframes \subseteq Frames \ (0 .. kernel_pages - 1)
  /\ \A f \in Frames :
       KernelFrame(f) => cm_free[f] = 1 /\ cm_ptentry[f] = NULL /\ mem[f] = KData

\* A resident page owns its frame, and every other frame in use is a resident
\* page's, or has just been taken for the page that is being handled.
PageInv ==
  \A p \in Pages : InMemory(p) => cm_ptentry[pt[p].frame] = p /\ cm_free[pt[p].frame] = 1

UserInv ==
  \A f \in Frames : cm_free[f] = 1 /\ ~KernelFrame(f) =>
    /\ cm_ptentry[f] \in Pages
    /\ \/ InMemory(cm_ptentry[f]) /\ pt[cm_ptentry[f]].frame = f
       \/ TakenFor(f, cm_ptentry[f])

\* Text pages have their own status and never go to swap.
StatusInv ==
  \A p \in Pages : /\ InMemory(p) => pt[p].status = Resident(p)
                   /\ InSwap(p) => p \notin ReadOnly

\* A resident text page is as the executable has it.
TextInv ==
  \A p \in ReadOnly :
    InMemory(p) /\ ~(pc = "load" /\ page = p) => mem[pt[p].frame] = Image(p)

\* Invalid TLB entries name frame 0, which the kernel has.
InvalidInv == \A i \in TlbSlots : tlb[i].vpn = NoPage => tlb[i].frame = 0

\* What U knows at each point of vm_fault.
FaultInv ==
  /\ pc \in Handling => page \in Pages
  /\ pc \in {"alloc", "write", "evict", "fill", "unmark"} => ~InMemory(page)
  /\ pc \in {"load", "insert"} => InMemory(page) /\ ~TlbHit(page)
  /\ pc \in {"write", "evict"} =>
       /\ cm_ptentry[frame] \in Pages \ ReadOnly
       /\ InMemory(cm_ptentry[frame])
       /\ pt[cm_ptentry[frame]].frame = frame
       /\ slot \in Slots
  /\ pc = "evict" => swapfile[slot] = mem[frame]
  /\ pc \in {"fill", "unmark"} => cm_ptentry[frame] = page /\ cm_free[frame] = 1
  /\ pc = "fill" => mem[frame] = Zero
  /\ pc = "unmark" => InSwap(page) /\ mem[frame] = swapfile[pt[page].swap]
  /\ pc = "none" => pt = [p \in Pages |-> NotLoaded]

IInv ==
  /\ TypeOK /\ SizeInv /\ KernelInv /\ PageInv /\ UserInv /\ StatusInv /\ TextInv
  /\ SwapAccounting /\ TlbCoherent /\ InvalidInv /\ FaultInv

USE DEF cmvars, swapvars, locals, tlbvars

----------------------------------------------------------------------------
\* The special values are not pages.
LEMMA NotPages == NULL \notin Pages /\ Dangling \notin Pages /\ NULL # Dangling /\ NoPage \notin Pages
BY VMAssumption, Zenon

\* The text segment is part of the program.
LEMMA TextPages == ReadOnly \subseteq Pages
BY VMAssumption, Zenon

\* Frame 0 exists and is the kernel's.
LEMMA FrameZero == 0 \in Frames /\ KernelFrame(0)
BY VMAssumption DEF Frames, KernelFrame

\* A page that is not loaded has a well-formed page-table entry.
LEMMA NotLoadedType == NotLoaded \in Entries
BY FrameZero, Zenon DEF NotLoaded, Entries

\* After boot, before the first program, the invariant holds.
LEMMA InitIInv == Init => IInv
<1> SUFFICES ASSUME Init PROVE IInv
  OBVIOUS
<1>1. TypeOK
  BY FrameZero, NotLoadedType, TlbAssumption DEF Init, TypeOK, TlbInit, Invalid, TlbEntries, Content, Stored, TlbSlots
<1>2. SizeInv /\ KernelInv /\ UserInv
  BY DEF Init, SizeInv, KernelInv, UserInv, KernelFrame, Frames
<1>3. PageInv /\ StatusInv /\ TextInv
  BY TextPages, Zenon DEF Init, PageInv, StatusInv, TextInv, InMemory, InSwap, NotLoaded
<1>4. SwapAccounting
  BY Zenon DEF Init, SwapAccounting, InSwap, SwappedSlots, NotLoaded
<1>5. TlbCoherent /\ InvalidInv
  BY Zenon DEF Init, TlbCoherent, InvalidInv, Alive, TlbInit, Invalid
<1>6. FaultInv
  BY Zenon DEF Init, FaultInv, Handling
<1> QED BY <1>1, <1>2, <1>3, <1>4, <1>5, <1>6, Zenon DEF IInv

\* A resident page has a frame of its own that is not the kernel's.
LEMMA ResidentFacts ==
  ASSUME IInv, NEW p \in Pages, InMemory(p)
  PROVE  /\ pt[p].frame \in Frames /\ cm_ptentry[pt[p].frame] = p
         /\ cm_free[pt[p].frame] = 1 /\ ~KernelFrame(pt[p].frame)
<1>1. pt[p].frame \in Frames
  BY Zenon DEF IInv, TypeOK, Entries
<1>2. cm_ptentry[pt[p].frame] = p /\ cm_free[pt[p].frame] = 1
  BY Zenon DEF IInv, PageInv
<1>3. p # NULL
  BY NotPages, Zenon
<1> QED BY <1>1, <1>2, <1>3, Zenon DEF IInv, KernelInv

\* The page of a fault in progress is one of the program's.
LEMMA PageFacts == ASSUME IInv, pc \in Handling PROVE page \in Pages /\ page # NULL
BY NotPages, Zenon DEF IInv, FaultInv

\* The owners of frames survive a step that changes neither coremap nor page
\* table and gives up no frame that was just taken.
LEMMA KeepUser ==
  ASSUME UserInv, UNCHANGED <<cm_free, cm_ptentry, kframes, pt>>,
         \A f, p : TakenFor(f, p) => TakenFor(f, p)'
  PROVE  UserInv'
<1>1. \A f \in Frames : KernelFrame(f)' = KernelFrame(f)
  BY Zenon DEF KernelFrame
<1>2. \A p : InMemory(p)' = InMemory(p)
  BY Zenon DEF InMemory
<1> QED BY <1>1, <1>2, Zenon DEF UserInv

\* The slots stay accounted for in a step that changes neither page table nor
\* bitmap and neither starts nor ends a swap-out.
LEMMA KeepSwap ==
  ASSUME SwapAccounting, UNCHANGED <<pt, swapmap>>,
         (pc \in {"write", "evict"}) <=> (pc' \in {"write", "evict"}),
         pc \in {"write", "evict"} => slot' = slot
  PROVE  SwapAccounting'
<1>1. SwappedSlots' = SwappedSlots /\ \A p : InSwap(p)' = InSwap(p)
  BY Zenon DEF SwappedSlots, InSwap
<1> QED BY <1>1, Zenon DEF SwapAccounting

----------------------------------------------------------------------------
\* The menu thread takes a frame for the kernel between two programs.
LEMMA StepAlloc ==
  ASSUME IInv, NEW f \in Frames, alloc_kpages(f)
  PROVE  IInv'
<1> USE DEF IInv, alloc_kpages, TakeFrame
<1>0. cm_free[f] = 0 /\ ~KernelFrame(f) /\ pc = "none" /\ pc' = "none" /\ pt' = pt
  BY DEF FirstFree, KernelInv
<1>1. TypeOK'
  BY Zenon DEF TypeOK, Content
<1>2. SizeInv'
  BY Zenon DEF SizeInv, TypeOK
<1>3. KernelInv'
  BY <1>0, VMAssumption DEF KernelInv, KernelFrame, TypeOK
<1>4. \A p \in Pages : ~InMemory(p) /\ ~InMemory(p)' /\ ~InSwap(p) /\ ~InSwap(p)'
  BY <1>0 DEF FaultInv, InMemory, InSwap, NotLoaded
<1>5. PageInv' /\ StatusInv' /\ TextInv'
  BY <1>4, TextPages, Zenon DEF PageInv, StatusInv, TextInv
<1>6. UserInv'
  BY <1>0, <1>4, Zenon DEF UserInv, KernelFrame, TypeOK, TakenFor
<1>7. SwapAccounting'
  BY <1>0, <1>4, Zenon DEF SwapAccounting, SwappedSlots, InSwap
<1>8. TlbCoherent' /\ InvalidInv'
  BY <1>0, Zenon DEF TlbCoherent, InvalidInv, Alive, tlbvars
<1>9. FaultInv'
  BY <1>0, Zenon DEF FaultInv, Handling
<1> QED BY <1>1, <1>2, <1>3, <1>5, <1>6, <1>7, <1>8, <1>9, Zenon

\* exorcise or the menu thread returns a frame of the kernel.
LEMMA StepFree ==
  ASSUME IInv, NEW f \in Frames, free_kpages(f)
  PROVE  IInv'
<1> USE DEF IInv, free_kpages
<1>0. /\ KernelFrame(f) /\ cm_ptentry[f] = NULL /\ ~KernelFrame(f)'
      /\ \A g \in Frames \ {f} : KernelFrame(g)' = KernelFrame(g)
  BY VMAssumption DEF KernelInv, KernelFrame, Frames
<1>1. TypeOK'
  BY Zenon DEF TypeOK
<1>2. SizeInv'
  BY Zenon DEF SizeInv, TypeOK
<1>3. KernelInv'
  BY <1>0, Zenon DEF KernelInv, TypeOK
<1>4. PageInv' /\ StatusInv' /\ TextInv'
  BY <1>0, NotPages DEF PageInv, StatusInv, TextInv, InMemory, InSwap, TypeOK, Entries
<1>5. UserInv'
  BY <1>0 DEF UserInv, InMemory, TakenFor, TypeOK
<1>6. SwapAccounting'
  BY Zenon DEF SwapAccounting, SwappedSlots, InSwap
<1>7. TlbCoherent' /\ InvalidInv'
  BY Zenon DEF TlbCoherent, InvalidInv, Alive, InMemory
<1>8. FaultInv'
  BY <1>0, NotPages, Zenon DEF FaultInv, Handling, InMemory, InSwap, TlbHit, TypeOK
<1> QED BY <1>1, <1>2, <1>3, <1>4, <1>5, <1>6, <1>7, <1>8, Zenon

\* A new program starts with an empty page table and an empty TLB.
LEMMA StepRun == ASSUME IInv, runprogram PROVE IInv'
<1> USE DEF IInv, runprogram, Goto
<1>0. pt' = pt
  BY Zenon DEF FaultInv
<1>1. TypeOK'
  BY <1>0, FrameZero, TlbAssumption DEF TypeOK, tlb_invalidate, Invalid, TlbEntries, TlbSlots
<1>2. SizeInv' /\ KernelInv'
  BY Zenon DEF SizeInv, KernelInv, KernelFrame
<1>3. PageInv' /\ StatusInv' /\ TextInv'
  BY <1>0, Zenon DEF PageInv, StatusInv, TextInv, InMemory, InSwap
<1>4. UserInv'
  BY <1>0, Zenon DEF UserInv, InMemory, TakenFor, KernelFrame
<1>5. SwapAccounting'
  BY <1>0 DEF SwapAccounting, SwappedSlots, InSwap
<1>6. TlbCoherent' /\ InvalidInv'
  BY Zenon DEF TlbCoherent, InvalidInv, tlb_invalidate, Invalid
<1>7. FaultInv'
  BY Zenon DEF FaultInv, Handling
<1> QED BY <1>1, <1>2, <1>3, <1>4, <1>5, <1>6, <1>7, Zenon

\* A context switch empties the TLB and changes nothing else.
LEMMA StepActivate == ASSUME IInv, as_activate PROVE IInv'
<1> USE DEF IInv, as_activate
<1>1. TypeOK'
  BY FrameZero, TlbAssumption DEF TypeOK, tlb_invalidate, Invalid, TlbEntries, TlbSlots
<1>2. SizeInv' /\ KernelInv' /\ PageInv' /\ StatusInv' /\ TextInv'
  BY Zenon DEF SizeInv, KernelInv, KernelFrame, PageInv, StatusInv, TextInv, InMemory, InSwap
<1>3. UserInv' /\ SwapAccounting'
  <2>1. UserInv'
    BY KeepUser, Zenon DEF IInv, TakenFor, as_activate
  <2>2. SwapAccounting'
    BY KeepSwap, Zenon DEF IInv, as_activate
  <2> QED BY <2>1, <2>2, Zenon
<1>4. TlbCoherent' /\ InvalidInv'
  BY Zenon DEF TlbCoherent, InvalidInv, tlb_invalidate, Invalid
<1>5. \A p \in Pages : ~TlbHit(p)'
  BY NotPages, Zenon DEF TlbHit, tlb_invalidate, Invalid
<1>6. FaultInv'
  BY <1>5, Zenon DEF FaultInv, Handling, InMemory, InSwap
<1> QED BY <1>1, <1>2, <1>3, <1>4, <1>6, Zenon

\* A store through the TLB changes the frame of one resident data page.
LEMMA StepStore ==
  ASSUME IInv, NEW i \in TlbSlots, NEW v \in Versions, Store(i, v)
  PROVE  IInv'
<1> USE DEF IInv, Store
<1> DEFINE p == tlb[i].vpn
           f == tlb[i].frame
<1>0. /\ p \in Pages \ ReadOnly /\ InMemory(p) /\ f = pt[p].frame /\ f \in Frames
      /\ cm_ptentry[f] = p /\ ~KernelFrame(f)
  BY NotPages DEF TlbCoherent, Alive, TypeOK, TlbEntries, PageInv, KernelInv
<1>1. TypeOK'
  <2>1. <<p, v>> \in Content
    BY <1>0, Zenon DEF Content, Stored
  <2> QED BY <1>0, <2>1, Zenon DEF TypeOK
<1>2. SizeInv' /\ PageInv' /\ StatusInv'
  BY Zenon DEF SizeInv, PageInv, StatusInv, InMemory, InSwap
<1>3. KernelInv'
  BY <1>0, Zenon DEF KernelInv, KernelFrame, TypeOK
<1>4. TextInv'
  <2> SUFFICES ASSUME NEW q \in ReadOnly, InMemory(q)
               PROVE  mem'[pt[q].frame] = Image(q)
    BY Zenon DEF TextInv, InMemory
  <2>0. q \in Pages /\ q # p
    BY <1>0, TextPages, Zenon
  <2>1. pt[q].frame \in Frames \ {f} /\ mem[pt[q].frame] = Image(q)
    <3>1. pt[q].frame \in Frames /\ cm_ptentry[pt[q].frame] = q
      BY <2>0, ResidentFacts, Zenon
    <3>2. mem[pt[q].frame] = Image(q)
      BY <1>0, Zenon DEF TextInv
    <3> QED BY <1>0, <2>0, <3>1, <3>2, Zenon
  <2> QED BY <2>1, Zenon DEF TypeOK
<1>5. UserInv' /\ SwapAccounting'
  <2>1. UserInv'
    BY KeepUser, Zenon DEF IInv, TakenFor, Store
  <2>2. SwapAccounting'
    BY KeepSwap, Zenon DEF IInv, Store
  <2> QED BY <2>1, <2>2, Zenon
<1>6. TlbCoherent' /\ InvalidInv'
  BY Zenon DEF TlbCoherent, InvalidInv, Alive, InMemory
<1>7. FaultInv'
  BY Zenon DEF FaultInv, Handling
<1> QED BY <1>1, <1>2, <1>3, <1>4, <1>5, <1>6, <1>7, Zenon

\* The program ends: until its memory is destroyed everything stays in place.
LEMMA StepExit == ASSUME IInv, sys__exit PROVE IInv'
<1> USE DEF IInv, sys__exit, Goto
<1>1. TypeOK'
  BY Zenon DEF TypeOK
<1>2. SizeInv' /\ KernelInv' /\ PageInv' /\ StatusInv' /\ TextInv'
  BY Zenon DEF SizeInv, KernelInv, KernelFrame, PageInv, StatusInv, TextInv, InMemory, InSwap
<1>3. UserInv' /\ SwapAccounting'
  <2>1. UserInv'
    BY KeepUser, Zenon DEF IInv, TakenFor, sys__exit, Goto
  <2>2. SwapAccounting'
    BY KeepSwap, Zenon DEF IInv, sys__exit, Goto
  <2> QED BY <2>1, <2>2, Zenon
<1>4. TlbCoherent' /\ InvalidInv' /\ FaultInv'
  BY Zenon DEF TlbCoherent, InvalidInv, Alive, FaultInv, Handling
<1> QED BY <1>1, <1>2, <1>3, <1>4, Zenon

\* as_destroy returns every frame and every slot of the program.
LEMMA StepDestroy == ASSUME IInv, as_destroy PROVE IInv'
<1> USE DEF IInv, as_destroy, Goto, pt_empty
<1>0. /\ \A p \in Pages : ~InMemory(p)' /\ ~InSwap(p)'
      /\ \A f \in Frames : KernelFrame(f)' = KernelFrame(f)
      /\ \A f \in Frames : f \in ResidentFrames <=> cm_free[f] = 1 /\ ~KernelFrame(f)
  <2>1. \A p \in Pages : ~InMemory(p)' /\ ~InSwap(p)'
    BY Zenon DEF InMemory, InSwap, NotLoaded
  <2>2. \A f \in Frames : KernelFrame(f)' = KernelFrame(f)
    BY Zenon DEF KernelFrame
  <2>3. ASSUME NEW f \in ResidentFrames PROVE cm_free[f] = 1 /\ ~KernelFrame(f)
    BY <2>3, NotPages DEF ResidentFrames, PageInv, KernelInv, TypeOK, Entries
  <2>4. ASSUME NEW f \in Frames, cm_free[f] = 1, ~KernelFrame(f) PROVE f \in ResidentFrames
    BY <2>4, Zenon DEF ResidentFrames, UserInv, TakenFor
  <2> QED BY <2>1, <2>2, <2>3, <2>4, Zenon
<1>1. TypeOK'
  BY NotLoadedType, Zenon DEF TypeOK
<1>2. SizeInv'
  BY Zenon DEF SizeInv
<1>3. KernelInv'
  BY <1>0, Zenon DEF KernelInv
<1>4. PageInv' /\ StatusInv' /\ TextInv'
  BY <1>0, TextPages, Zenon DEF PageInv, StatusInv, TextInv
<1>5. UserInv'
  <2>1. \A f \in Frames : cm_free'[f] = 1 => KernelFrame(f)
    BY <1>0 DEF TypeOK
  <2> QED BY <1>0, <2>1, Zenon DEF UserInv
<1>6. SwapAccounting'
  BY <1>0, Zenon DEF SwapAccounting, SwappedSlots
<1>7. TlbCoherent' /\ InvalidInv' /\ FaultInv'
  BY Zenon DEF TlbCoherent, InvalidInv, Alive, FaultInv, Handling
<1> QED BY Zenon, <1>1, <1>2, <1>3, <1>4, <1>5, <1>6, <1>7

\* The program faults on a page that the TLB does not map.
LEMMA StepFault == ASSUME IInv, NEW p \in Pages, vm_fault(p) PROVE IInv'
<1> USE DEF IInv, vm_fault, Goto
<1>1. TypeOK'
  BY Zenon DEF TypeOK
<1>2. SizeInv' /\ KernelInv' /\ PageInv' /\ StatusInv' /\ TextInv'
  BY Zenon DEF SizeInv, KernelInv, KernelFrame, PageInv, StatusInv, TextInv, InMemory, InSwap
<1>3. UserInv' /\ SwapAccounting'
  <2>1. UserInv'
    BY KeepUser, Zenon DEF IInv, TakenFor, vm_fault, Goto
  <2>2. SwapAccounting'
    BY KeepSwap, Zenon DEF IInv, vm_fault, Goto
  <2> QED BY <2>1, <2>2, Zenon
<1>4. TlbCoherent' /\ InvalidInv'
  BY Zenon DEF TlbCoherent, InvalidInv, Alive, InMemory
<1>5. FaultInv'
  BY Zenon DEF FaultInv, Handling, InMemory, TlbHit
<1> QED BY <1>1, <1>2, <1>3, <1>4, <1>5, Zenon

\* coremap_swapout panics for want of a victim.
LEMMA StepNoVictim == ASSUME IInv, NoVictim PROVE IInv'
<1> USE DEF IInv, NoVictim
<1>1. TypeOK'
  BY Zenon DEF TypeOK
<1>2. SizeInv' /\ KernelInv' /\ PageInv' /\ StatusInv' /\ TextInv'
  BY Zenon DEF SizeInv, KernelInv, KernelFrame, PageInv, StatusInv, TextInv, InMemory, InSwap
<1>3. UserInv' /\ SwapAccounting'
  <2>1. UserInv'
    BY KeepUser, Zenon DEF IInv, TakenFor, NoVictim
  <2>2. SwapAccounting'
    BY KeepSwap, Zenon DEF IInv, NoVictim
  <2> QED BY <2>1, <2>2, Zenon
<1>4. TlbCoherent' /\ InvalidInv' /\ FaultInv'
  BY Zenon DEF TlbCoherent, InvalidInv, Alive, FaultInv, Handling
<1> QED BY <1>1, <1>2, <1>3, <1>4, Zenon

----------------------------------------------------------------------------
\* A frame that coremap_get_victim chooses during a fault is that of another
\* resident page.
LEMMA VictimFacts ==
  ASSUME IInv, pc = "alloc", Full, NEW v \in Frames, Victim(v)
  PROVE  /\ cm_ptentry[v] \in Pages \ {page}
         /\ InMemory(cm_ptentry[v]) /\ pt[cm_ptentry[v]].frame = v
         /\ ~KernelFrame(v) /\ v # 0 /\ cm_free[v] = 1 /\ page \in Pages
<1>1. cm_ptentry[v] # NULL /\ cm_free[v] = 1
  BY Zenon DEF Victim, Swappable, Full
<1>2. ~KernelFrame(v) /\ v # 0
  BY <1>1, FrameZero, Zenon DEF IInv, KernelInv
<1>3. ~TakenFor(v, cm_ptentry[v]) /\ page \in Pages /\ ~InMemory(page)
  BY Zenon DEF TakenFor, IInv, FaultInv, Handling
<1> QED BY <1>1, <1>2, <1>3, Zenon DEF IInv, UserInv

\* tlb_remove_by_paddr, for a frame of the living program, removes every entry
\* that maps the frame and no other.
LEMMA RemoveFacts ==
  ASSUME IInv, Alive, NEW v \in Frames, v # 0, tlb_remove_by_paddr(v)
  PROVE  tlb' = [i \in TlbSlots |-> IF tlb[i].frame = v THEN Invalid ELSE tlb[i]]
<1> SUFFICES ASSUME NEW i \in TlbSlots, tlb[i].frame = v
             PROVE  FirstWithFrame(i, v)
  BY Zenon DEF tlb_remove_by_paddr, FirstWithFrame
<1> SUFFICES ASSUME NEW j \in TlbSlots, j < i, tlb[j].frame = v PROVE FALSE
  BY Zenon DEF FirstWithFrame
<1>1. tlb[i].vpn \in Pages /\ tlb[j].vpn \in Pages
  BY Zenon DEF IInv, InvalidInv, TypeOK, TlbEntries
<1>2. /\ InMemory(tlb[i].vpn) /\ pt[tlb[i].vpn].frame = v
      /\ InMemory(tlb[j].vpn) /\ pt[tlb[j].vpn].frame = v
  BY <1>1, NotPages, Zenon DEF IInv, TlbCoherent
<1>3. tlb[i].vpn = tlb[j].vpn
  BY <1>1, <1>2 DEF IInv, PageInv
<1>4. i = j
  BY <1>1, <1>3, NotPages, Zenon DEF IInv, TlbCoherent
<1> QED BY <1>4 DEF TlbSlots

----------------------------------------------------------------------------
\* alloc_upage takes a free frame for the page.
LEMMA StepGetFree == ASSUME IInv, NEW f \in Frames, GetFree(f) PROVE IInv'
<1> USE DEF IInv, GetFree, Goto, TakeFrame
<1>0. /\ cm_free[f] = 0 /\ ~KernelFrame(f) /\ page \in Pages /\ page # NULL
      /\ \A p \in Pages : /\ InMemory(p) => pt[p].frame \in Frames \ {f}
                          /\ InMemory(p)' = InMemory(p) /\ InSwap(p)' = InSwap(p)
      /\ \A g \in Frames : KernelFrame(g)' = KernelFrame(g)
  <2>1. cm_free[f] = 0 /\ ~KernelFrame(f) /\ page \in Pages /\ page # NULL
    BY PageFacts DEF FirstFree, KernelInv, Handling
  <2>2. \A p \in Pages : InMemory(p) => pt[p].frame \in Frames \ {f}
    BY <2>1, ResidentFacts
  <2> QED BY <2>1, <2>2, Zenon DEF InMemory, InSwap, KernelFrame
<1>1. TypeOK'
  BY <1>0, Zenon DEF TypeOK, Content
<1>2. SizeInv'
  BY Zenon DEF SizeInv, TypeOK
<1>3. KernelInv'
  BY <1>0, Zenon DEF KernelInv, TypeOK
<1>4. PageInv' /\ StatusInv'
  BY <1>0, Zenon DEF PageInv, StatusInv, TypeOK
<1>5. TextInv'
  BY <1>0, TextPages, Zenon DEF TextInv, TypeOK
<1>6. UserInv'
  BY <1>0, ZenonT(60) DEF UserInv, TakenFor, TypeOK
<1>7. SwapAccounting'
  BY <1>0, Zenon DEF SwapAccounting, SwappedSlots
<1>8. TlbCoherent' /\ InvalidInv'
  BY <1>0, ZenonT(60) DEF TlbCoherent, InvalidInv, Alive, TypeOK, TlbEntries
<1>9. FaultInv'
  BY <1>0, ZenonT(60) DEF FaultInv, Handling, TypeOK
<1> QED BY <1>1, <1>2, <1>3, <1>4, <1>5, <1>6, <1>7, <1>8, <1>9, Zenon

\* What the two evictions have in common: the page old in frame v leaves memory
\* with the entry e, and v is cleared and taken for the page that faulted.
Evict(v, old, e) ==
  /\ pc \in {"alloc", "evict"} /\ pc' = "fill"
  /\ cm_ptentry[v] = old /\ old \in Pages /\ InMemory(old) /\ pt[old].frame = v
  /\ ~KernelFrame(v) /\ v # 0
  /\ e.status = "NOT_LOADED" \/ (e.status = "IN_SWAP" /\ old \notin ReadOnly)
  /\ pt' = [pt EXCEPT ![old] = e]
  /\ tlb_remove_by_paddr(v)
  /\ TakeFrame(v, page)
  /\ cm_lock' \in [Frames -> {0, 1}] /\ victim_index' \in Frames
  /\ frame' = v /\ slot' \in Slots \cup {0}
  /\ UNCHANGED <<swapvars, kframes, page>>

\* Apart from the accounting of slots, an eviction preserves the invariant.
LEMMA EvictStep ==
  ASSUME IInv, NEW v \in Frames, NEW old, NEW e \in Entries, Evict(v, old, e)
  PROVE  /\ TypeOK' /\ SizeInv' /\ KernelInv' /\ PageInv' /\ UserInv' /\ StatusInv'
         /\ TextInv' /\ TlbCoherent' /\ InvalidInv' /\ FaultInv'
<1>0. /\ cm_ptentry[v] = old /\ old \in Pages \ {page} /\ InMemory(old) /\ pt[old].frame = v
      /\ ~KernelFrame(v) /\ page \in Pages /\ page # NULL /\ ~InMemory(page)
      /\ pc \in {"alloc", "evict"} /\ pc' = "fill" /\ frame' = v
      /\ kframes' = kframes /\ page' = page
  BY NotPages, Zenon DEF Evict, IInv, FaultInv, Handling
<1>1. tlb' = [i \in TlbSlots |-> IF tlb[i].frame = v THEN Invalid ELSE tlb[i]]
  BY RemoveFacts, Zenon DEF Alive, Evict
<1>2. /\ mem' = [mem EXCEPT ![v] = Zero]
      /\ cm_free' = [cm_free EXCEPT ![v] = 1]
      /\ cm_size_alloc' = [cm_size_alloc EXCEPT ![v] = 1]
      /\ cm_ptentry' = [cm_ptentry EXCEPT ![v] = page]
  BY <1>0, Zenon DEF Evict, TakeFrame
<1>3. /\ pt'[old] = e
      /\ \A p \in Pages \ {old} : pt'[p] = pt[p]
  BY <1>0, Zenon DEF Evict, IInv, TypeOK
<1>4. ~InMemory(old)' /\ (InSwap(old)' => old \notin ReadOnly)
  BY <1>3, Zenon DEF Evict, InMemory, InSwap
<1>5. \A p \in Pages \ {old} : /\ InMemory(p)' = InMemory(p) /\ InSwap(p)' = InSwap(p)
                               /\ InMemory(p) => pt[p].frame \in Frames \ {v}
  <2>1. \A p \in Pages \ {old} : InMemory(p)' = InMemory(p) /\ InSwap(p)' = InSwap(p)
    BY <1>3, Zenon DEF InMemory, InSwap
  <2>2. \A p \in Pages \ {old} : InMemory(p) => pt[p].frame \in Frames \ {v}
    BY <1>0, Zenon DEF IInv, PageInv, TypeOK, Entries
  <2> QED BY <2>1, <2>2, Zenon
<1>6. \A g \in Frames : KernelFrame(g)' = KernelFrame(g)
  BY <1>0, Zenon DEF KernelFrame
<1>7. TypeOK'
  <2>1. Invalid \in TlbEntries
    BY FrameZero, Zenon DEF Invalid, TlbEntries
  <2>2. tlb' \in [TlbSlots -> TlbEntries] /\ UNCHANGED <<tlb_victim, tlb_free>>
    BY <1>1, <2>1, ZenonT(60) DEF IInv, TypeOK, Evict, tlb_remove_by_paddr
  <2>3. Zero \in Content
    BY Zenon DEF Content
  <2> QED BY <1>0, <1>2, <2>2, <2>3, Zenon DEF IInv, TypeOK, Evict
<1>8. SizeInv'
  BY <1>2, Zenon DEF IInv, SizeInv, TypeOK
<1>9. KernelInv'
  BY <1>0, <1>2, <1>6, Zenon DEF IInv, KernelInv, TypeOK
<1>10. PageInv'
  <2> SUFFICES ASSUME NEW p \in Pages, InMemory(p)'
               PROVE  cm_ptentry'[pt'[p].frame] = p /\ cm_free'[pt'[p].frame] = 1
    BY Zenon DEF PageInv
  <2>1. p # old /\ pt'[p] = pt[p] /\ InMemory(p) /\ pt[p].frame \in Frames \ {v}
    BY <1>3, <1>4, <1>5, Zenon
  <2> QED BY <1>2, <2>1, Zenon DEF IInv, PageInv, TypeOK
<1>11. UserInv'
  <2> SUFFICES ASSUME NEW g \in Frames, cm_free'[g] = 1, ~KernelFrame(g)
               PROVE  (/\ cm_ptentry[g] \in Pages
                       /\ \/ InMemory(cm_ptentry[g]) /\ pt[cm_ptentry[g]].frame = g
                          \/ TakenFor(g, cm_ptentry[g]))'
    BY <1>6, Zenon DEF UserInv
  <2>1. CASE g = v
    BY <1>0, <1>2, <2>1, Zenon DEF IInv, TypeOK, TakenFor
  <2>2. CASE g # v
    <3>1. cm_ptentry'[g] = cm_ptentry[g] /\ cm_free[g] = 1
      BY <1>2, <2>2, Zenon DEF IInv, TypeOK
    <3>2. /\ cm_ptentry[g] \in Pages
          /\ InMemory(cm_ptentry[g]) /\ pt[cm_ptentry[g]].frame = g
      BY <1>0, <3>1, Zenon DEF IInv, UserInv, TakenFor
    <3>3. cm_ptentry[g] # old
      BY <1>0, <2>2, <3>2, Zenon
    <3> QED BY <1>3, <1>5, <3>1, <3>2, <3>3, Zenon DEF InMemory
  <2> QED BY <2>1, <2>2, Zenon
<1>12. StatusInv'
  BY <1>3, <1>4, <1>5, Zenon DEF IInv, StatusInv
<1>13. TextInv'
  <2> SUFFICES ASSUME NEW p \in ReadOnly, InMemory(p)' PROVE mem'[pt'[p].frame] = Image(p)
    BY Zenon DEF TextInv
  <2>1. p # old /\ pt'[p] = pt[p] /\ InMemory(p) /\ pt[p].frame \in Frames \ {v}
    BY TextPages, <1>3, <1>4, <1>5, Zenon
  <2> QED BY <1>0, <1>2, <2>1, Zenon DEF IInv, TextInv, TypeOK
<1>14. InvalidInv'
  BY <1>1, Zenon DEF IInv, InvalidInv, Invalid
<1>15. TlbCoherent'
  <2>1. ASSUME NEW i \in TlbSlots, tlb'[i].vpn # NoPage
        PROVE  /\ tlb'[i] = tlb[i] /\ tlb[i].vpn \in Pages \ {old} /\ InMemory(tlb[i].vpn)
    BY <1>0, <1>1, <2>1, ZenonT(60) DEF Invalid, IInv, TlbCoherent, Alive, TypeOK, TlbEntries
  <2>2. ASSUME NEW i \in TlbSlots, tlb'[i].vpn # NoPage
        PROVE  /\ InMemory(tlb[i].vpn)' /\ tlb[i].frame = pt'[tlb[i].vpn].frame
               /\ tlb[i].dirty = (tlb[i].vpn \notin ReadOnly)
    BY <1>0, <1>3, <1>5, <2>1, <2>2, ZenonT(60) DEF IInv, TlbCoherent, Alive
  <2>3. ASSUME NEW i \in TlbSlots, NEW j \in TlbSlots,
               tlb'[i].vpn # NoPage, tlb'[j].vpn = tlb'[i].vpn
        PROVE  j = i
    BY <1>0, <2>1, <2>3, ZenonT(60) DEF IInv, TlbCoherent, Alive
  <2> QED BY <2>1, <2>2, <2>3, Zenon DEF TlbCoherent, InMemory
<1>16. FaultInv'
  BY <1>0, <1>2, <1>5, Zenon DEF IInv, FaultInv, Handling, TypeOK
<1> QED BY <1>7, <1>8, <1>9, <1>10, <1>11, <1>12, <1>13, <1>14, <1>15, <1>16, Zenon

\* alloc_upage takes the frame of a text page, which becomes NOT_LOADED.
LEMMA StepDropText == ASSUME IInv, NEW v \in Frames, DropText(v) PROVE IInv'
<1>0. PICK old \in Pages : /\ old = cm_ptentry[v] /\ InMemory(old) /\ pt[old].frame = v
                           /\ ~KernelFrame(v) /\ v # 0
  BY VictimFacts, Zenon DEF DropText
<1>1. Evict(v, old, NotLoaded)
  BY <1>0, Zenon DEF DropText, Evict, NotLoaded, pt_set_entry, IInv, TypeOK
<1>2. SwapAccounting'
  <2>1. /\ \A p \in Pages : InSwap(p)' = InSwap(p)
        /\ \A p \in Pages : InSwap(p) => pt'[p] = pt[p]
    BY <1>0, <1>1, Zenon DEF Evict, InSwap, InMemory, NotLoaded, IInv, TypeOK
  <2>2. SwappedSlots' = SwappedSlots
    BY <2>1, Zenon DEF SwappedSlots
  <2> QED BY <2>1, <2>2, Zenon DEF IInv, SwapAccounting, DropText
<1> QED BY <1>1, <1>2, EvictStep, NotLoadedType, Zenon DEF IInv

\* coremap_swapout locks the victim's frame and swap_out takes a slot.
LEMMA StepStartSwapOut == ASSUME IInv, NEW v \in Frames, StartSwapOut(v) PROVE IInv'
<1> USE DEF IInv, StartSwapOut
<1> DEFINE old == cm_ptentry[v]
<1>0. /\ old \in Pages \ {page} /\ InMemory(old) /\ pt[old].frame = v /\ page \in Pages
      /\ old \notin ReadOnly
  BY VictimFacts, Zenon DEF StatusInv, Resident
<1>1. TypeOK'
  BY Zenon DEF TypeOK
<1>2. SizeInv' /\ KernelInv' /\ PageInv' /\ StatusInv' /\ TextInv'
  BY Zenon DEF SizeInv, KernelInv, KernelFrame, PageInv, StatusInv, TextInv, InMemory, InSwap
<1>3. UserInv'
  BY Zenon DEF UserInv, InMemory, TakenFor, KernelFrame
<1>4. SwapAccounting'
  BY ZenonT(60) DEF SwapAccounting, SwappedSlots, InSwap
<1>5. TlbCoherent' /\ InvalidInv'
  BY Zenon DEF TlbCoherent, InvalidInv, Alive, InMemory
<1>6. FaultInv'
  BY <1>0, Zenon DEF FaultInv, Handling, InMemory
<1> QED BY Zenon, <1>1, <1>2, <1>3, <1>4, <1>5, <1>6

\* swap_out writes the frame to its slot.
LEMMA StepWriteSlot == ASSUME IInv, WriteSlot PROVE IInv'
<1> USE DEF IInv, WriteSlot, Goto
<1>1. TypeOK'
  BY Zenon DEF TypeOK
<1>2. SizeInv' /\ KernelInv' /\ PageInv' /\ StatusInv' /\ TextInv'
  BY Zenon DEF SizeInv, KernelInv, KernelFrame, PageInv, StatusInv, TextInv, InMemory, InSwap
<1>3. UserInv' /\ SwapAccounting'
  <2>1. UserInv'
    BY KeepUser, Zenon DEF IInv, TakenFor, WriteSlot, Goto
  <2>2. SwapAccounting'
    BY KeepSwap, Zenon DEF IInv, WriteSlot, Goto
  <2> QED BY <2>1, <2>2, Zenon
<1>4. TlbCoherent' /\ InvalidInv'
  BY Zenon DEF TlbCoherent, InvalidInv, Alive, InMemory
<1>5. FaultInv'
  BY SMTT(20) DEF FaultInv, Handling, InMemory, TypeOK
<1> QED BY <1>1, <1>2, <1>3, <1>4, <1>5, Zenon

\* The rest of coremap_swapout: the page is now in its slot.
LEMMA StepFinishSwapOut == ASSUME IInv, FinishSwapOut PROVE IInv'
<1>0. PICK v \in Frames, old \in Pages \ ReadOnly, s \in Slots :
        /\ v = frame /\ old = cm_ptentry[v] /\ s = slot
        /\ InMemory(old) /\ pt[old].frame = v /\ pc = "evict"
  BY Zenon DEF FinishSwapOut, Goto, IInv, TypeOK, FaultInv
<1>1. ~KernelFrame(v) /\ v # 0
  BY <1>0, FrameZero, NotPages, Zenon DEF IInv, KernelInv
<1> DEFINE e == [status |-> "IN_SWAP", frame |-> 0, swap |-> s]
<1>2. e \in Entries
  BY <1>0, FrameZero, Zenon DEF Entries
<1>3. Evict(v, old, e)
  BY <1>0, <1>1, Zenon DEF FinishSwapOut, Goto, Evict, pt_set_entry, IInv, TypeOK
<1>4. SwapAccounting'
  <2>1. /\ InSwap(old)' /\ ~InSwap(old) /\ pt'[old].swap = s
        /\ \A p \in Pages \ {old} : InSwap(p)' = InSwap(p) /\ pt'[p] = pt[p]
    BY <1>0, <1>3, Zenon DEF Evict, InSwap, InMemory, IInv, TypeOK
  <2>2. SwappedSlots' = SwappedSlots \cup {s}
    BY ONLY <1>0, <2>1 DEF SwappedSlots
  <2>3. \A p \in Pages : InSwap(p) => pt[p].swap # s
    BY <1>0, Zenon DEF IInv, SwapAccounting, SwappedSlots
  <2>4. \A p, q \in Pages : InSwap(p)' /\ InSwap(q)' /\ p # q => pt'[p].swap # pt'[q].swap
    BY <2>1, <2>3, Zenon DEF IInv, SwapAccounting
  <2> QED BY <1>0, <2>2, <2>4, Zenon DEF IInv, SwapAccounting, FinishSwapOut, Goto
<1> HIDE DEF e
<1> QED BY <1>0, <1>2, <1>3, <1>4, EvictStep, Zenon DEF IInv

----------------------------------------------------------------------------
\* What the two ways of making a page resident have in common: the frame taken
\* for it goes into its page-table entry.
Map ==
  /\ pc \in {"fill", "unmark"} /\ pc' \in {"load", "insert"}
  /\ pt_set_entry(page, frame, 0, Resident(page))
  /\ page \in ReadOnly => pc' = "load" \/ mem[frame] = Image(page)
  /\ swapmap' \subseteq Slots
  /\ UNCHANGED <<cmvars, swapfile, mem, kframes, tlbvars, locals>>

\* Apart from the accounting of slots, mapping a page preserves the invariant.
LEMMA MapStep ==
  ASSUME IInv, Map
  PROVE  /\ TypeOK' /\ SizeInv' /\ KernelInv' /\ PageInv' /\ UserInv' /\ StatusInv'
         /\ TextInv' /\ TlbCoherent' /\ InvalidInv' /\ FaultInv'
<1>0. PICK p \in Pages, f \in Frames :
        /\ p = page /\ f = frame /\ page' = p /\ frame' = f
        /\ cm_ptentry[f] = p /\ cm_free[f] = 1 /\ ~InMemory(p)
  BY Zenon DEF Map, IInv, FaultInv, Handling, TypeOK
<1>1. UNCHANGED <<cmvars, mem, kframes, tlbvars>>
  BY Zenon DEF Map
<1> DEFINE e == [status |-> Resident(p), frame |-> f, swap |-> 0]
<1>2. pt' = [pt EXCEPT ![p] = e] /\ e \in Entries
  BY <1>0, Zenon DEF Map, pt_set_entry, Entries, Resident
<1>3. /\ pt'[p].status = Resident(p) /\ pt'[p].frame = f
      /\ \A q \in Pages \ {p} : pt'[q] = pt[q]
  BY <1>2, Zenon DEF IInv, TypeOK
<1>4. /\ InMemory(p)' /\ ~InSwap(p)'
      /\ \A q \in Pages \ {p} : InMemory(q)' = InMemory(q) /\ InSwap(q)' = InSwap(q)
  BY <1>3, Zenon DEF InMemory, InSwap, Resident
<1>5. TypeOK'
  <2>1. pt' \in [Pages -> Entries]
    BY <1>2, Zenon DEF IInv, TypeOK
  <2> QED BY <2>1, Zenon DEF IInv, TypeOK, Map
<1>6. SizeInv' /\ KernelInv' /\ InvalidInv'
  BY <1>1, Zenon DEF IInv, SizeInv, KernelInv, KernelFrame, InvalidInv
<1>7. PageInv'
  BY <1>0, <1>1, <1>3, <1>4, Zenon DEF IInv, PageInv
<1>8. UserInv'
  <2> SUFFICES ASSUME NEW g \in Frames, cm_free[g] = 1, ~KernelFrame(g)
               PROVE  /\ cm_ptentry[g] \in Pages
                      /\ \E q \in Pages : q = cm_ptentry[g] /\ InMemory(q)' /\ pt'[q].frame = g
    BY <1>1, Zenon DEF UserInv, KernelFrame, InMemory
  <2>1. CASE g = f
    BY <1>0, <1>3, <1>4, <2>1, Zenon
  <2>2. CASE g # f
    <3>1. PICK q \in Pages : q = cm_ptentry[g] /\ InMemory(q) /\ pt[q].frame = g
      BY <1>0, <2>2, Zenon DEF IInv, UserInv, TakenFor
    <3>2. q # p
      BY <1>0, <3>1, Zenon
    <3> QED BY Zenon, <1>3, <1>4, <3>1, <3>2
  <2> QED BY Zenon, <2>1, <2>2
<1>9. StatusInv'
  BY <1>3, <1>4, Zenon DEF IInv, StatusInv
<1>10. TextInv'
  <2> SUFFICES ASSUME NEW q \in ReadOnly, InMemory(q)', ~(pc' = "load" /\ page' = q)
               PROVE  mem[pt'[q].frame] = Image(q)
    BY <1>1, Zenon DEF TextInv
  <2>1. CASE q = p
    BY <1>0, <1>3, <2>1, Zenon DEF Map
  <2>2. CASE q # p
    <3>1. InMemory(q) /\ pt'[q] = pt[q] /\ pc # "load"
      BY <1>3, <1>4, <2>2, TextPages, Zenon DEF Map
    <3> QED BY <3>1, Zenon DEF IInv, TextInv
  <2> QED BY <2>1, <2>2, Zenon
<1>11. \A i \in TlbSlots : tlb[i].vpn # NoPage => tlb[i].vpn \in Pages \ {p}
  BY <1>0, Zenon DEF IInv, TlbCoherent, Alive, Map, TypeOK, TlbEntries
<1>12. TlbCoherent'
  <2>1. Alive /\ tlb' = tlb
    BY <1>1, Zenon DEF Alive, Map
  <2>2. ASSUME NEW i \in TlbSlots, tlb[i].vpn # NoPage
        PROVE  InMemory(tlb[i].vpn)' /\ pt'[tlb[i].vpn] = pt[tlb[i].vpn]
    BY <1>3, <1>4, <1>11, <2>1, <2>2, Zenon DEF IInv, TlbCoherent, InMemory
  <2> QED BY <2>1, <2>2, Zenon DEF IInv, TlbCoherent, InMemory
<1>13. FaultInv'
  <2>1. ~TlbHit(p)'
    BY <1>1, <1>11, NotPages, Zenon DEF TlbHit
  <2> QED BY <1>0, <1>4, <2>1, Zenon DEF FaultInv, Handling, Map
<1> QED BY <1>5, <1>6, <1>7, <1>8, <1>9, <1>10, <1>12, <1>13, Zenon

\* vm_fault maps a page that was not loaded.
LEMMA StepMapPage == ASSUME IInv, MapPage PROVE IInv'
<1>1. Map
  BY Zenon DEF MapPage, Map, Image, IInv, FaultInv, TypeOK
<1>2. SwapAccounting'
  <2>0. PICK p \in Pages : p = page
    BY Zenon DEF MapPage, IInv, FaultInv, Handling
  <2>1. /\ \A q \in Pages : InSwap(q)' = InSwap(q)
        /\ \A q \in Pages : InSwap(q) => pt'[q] = pt[q]
    BY <2>0, Zenon DEF MapPage, pt_set_entry, InSwap, Resident, IInv, TypeOK
  <2>2. SwappedSlots' = SwappedSlots
    BY <2>1, Zenon DEF SwappedSlots
  <2> QED BY <2>1, <2>2, Zenon DEF IInv, SwapAccounting, MapPage
<1> QED BY <1>1, <1>2, MapStep, Zenon DEF IInv

\* swap_in returns the slot and vm_fault maps the page.
LEMMA StepFinishSwapIn == ASSUME IInv, FinishSwapIn PROVE IInv'
<1>0. PICK p \in Pages : p = page /\ InSwap(p) /\ p \notin ReadOnly
  BY Zenon DEF FinishSwapIn, Goto, IInv, FaultInv, Handling, StatusInv
<1>1. Map
  BY <1>0, Zenon DEF FinishSwapIn, Goto, Map, IInv, TypeOK
<1>2. SwapAccounting'
  <2>1. /\ ~InSwap(p)'
        /\ \A q \in Pages \ {p} : InSwap(q)' = InSwap(q) /\ pt'[q] = pt[q]
    BY <1>0, Zenon DEF FinishSwapIn, pt_set_entry, InSwap, Resident, IInv, TypeOK
  <2>2. SwappedSlots' = SwappedSlots \ {pt[p].swap}
    <3>1. \A q \in Pages : InSwap(q) /\ q # p => pt[q].swap # pt[p].swap
      BY <1>0, Zenon DEF IInv, SwapAccounting
    <3> QED BY ONLY ZenonT(60), <1>0, <2>1, <3>1 DEF SwappedSlots
  <2> QED BY <1>0, <2>1, <2>2, Zenon DEF IInv, SwapAccounting, FinishSwapIn, Goto
<1> QED BY <1>1, <1>2, MapStep, Zenon DEF IInv

\* as_load_page reads the page from the executable into its frame.
LEMMA StepLoad == ASSUME IInv, as_load_page PROVE IInv'
<1> USE DEF as_load_page, Goto
<1>0. PICK p \in Pages : /\ p = page /\ InMemory(p) /\ pt[p].frame \in Frames
                         /\ cm_ptentry[pt[p].frame] = p /\ ~KernelFrame(pt[p].frame)
  <2>1. page \in Pages /\ InMemory(page)
    BY Zenon DEF IInv, FaultInv, Handling
  <2> QED BY Zenon, <2>1, ResidentFacts
<1>1. mem' = [mem EXCEPT ![pt[p].frame] = Image(p)] /\ Image(p) \in Content
  BY <1>0, Zenon DEF Image, Content
<1>2. TypeOK'
  <2>1. mem \in [Frames -> Content]
    BY Zenon DEF IInv, TypeOK
  <2>2. mem' \in [Frames -> Content]
    BY ONLY Zenon, <1>1, <2>1
  <2> QED BY <2>2, Zenon DEF IInv, TypeOK
<1>3. SizeInv' /\ PageInv' /\ StatusInv'
  BY Zenon DEF IInv, SizeInv, PageInv, StatusInv, InMemory, InSwap
<1>4. KernelInv'
  BY <1>0, <1>1, ZenonT(60) DEF IInv, KernelInv, KernelFrame, TypeOK
<1>5. TextInv'
  <2> SUFFICES ASSUME NEW q \in ReadOnly, InMemory(q) PROVE mem'[pt[q].frame] = Image(q)
    BY Zenon DEF TextInv, InMemory
  <2>1. CASE q = p
    BY <1>0, <1>1, <2>1, Zenon DEF IInv, TypeOK
  <2>2. CASE q # p
    <3>1. pt[q].frame \in Frames /\ pt[q].frame # pt[p].frame /\ mem[pt[q].frame] = Image(q)
      BY <1>0, <2>2, TextPages, Zenon DEF IInv, PageInv, TextInv, TypeOK, Entries
    <3> QED BY <1>1, <3>1, Zenon DEF IInv, TypeOK
  <2> QED BY <2>1, <2>2, Zenon
<1>6. UserInv' /\ SwapAccounting'
  <2>1. UserInv'
    BY KeepUser, Zenon DEF IInv, TakenFor, as_load_page, Goto
  <2>2. SwapAccounting'
    BY KeepSwap, Zenon DEF IInv, as_load_page, Goto
  <2> QED BY <2>1, <2>2, Zenon
<1>7. TlbCoherent' /\ InvalidInv'
  BY Zenon DEF IInv, TlbCoherent, InvalidInv, Alive, InMemory
<1>8. FaultInv'
  BY Zenon DEF IInv, FaultInv, Handling, InMemory, TlbHit
<1> QED BY <1>2, <1>3, <1>4, <1>5, <1>6, <1>7, <1>8, Zenon DEF IInv

\* swap_in reads the page from its slot into the frame taken for it.
LEMMA StepReadSlot == ASSUME IInv, ReadSlot PROVE IInv'
<1> USE DEF ReadSlot
<1>0. PICK p \in Pages, f \in Frames :
        /\ p = page /\ f = frame /\ InSwap(p) /\ cm_ptentry[f] = p /\ cm_free[f] = 1
        /\ ~InMemory(p) /\ ~KernelFrame(f)
  <2>1. page \in Pages /\ page # NULL /\ frame \in Frames
    BY PageFacts, Zenon DEF Handling, IInv, TypeOK
  <2>2. cm_ptentry[frame] = page /\ cm_free[frame] = 1 /\ ~InMemory(page)
    BY Zenon DEF IInv, FaultInv
  <2> QED BY <2>1, <2>2, Zenon DEF IInv, KernelInv
<1>1. pt[p].swap \in Slots
  BY <1>0, Zenon DEF IInv, SwapAccounting, SwappedSlots, TypeOK
<1>2. mem' = [mem EXCEPT ![f] = swapfile[pt[p].swap]]
  BY Zenon, <1>0
<1>3. \A q \in Pages : InMemory(q) => pt[q].frame \in Frames \ {f}
  BY Zenon, <1>0, ResidentFacts
<1>4. TypeOK'
  <2>1. mem' \in [Frames -> Content]
    BY <1>1, <1>2, Zenon DEF IInv, TypeOK
  <2> QED BY <2>1, Zenon DEF IInv, TypeOK
<1>5. SizeInv' /\ PageInv' /\ StatusInv'
  BY Zenon DEF IInv, SizeInv, PageInv, StatusInv, InMemory, InSwap
<1>6. KernelInv'
  BY <1>0, <1>2, Zenon DEF IInv, KernelInv, KernelFrame, TypeOK
<1>7. TextInv'
  BY <1>2, <1>3, TextPages, Zenon DEF IInv, TextInv, InMemory, TypeOK
<1>8. UserInv' /\ SwapAccounting'
  <2>1. UserInv'
    BY KeepUser, Zenon DEF IInv, TakenFor, ReadSlot
  <2>2. SwapAccounting'
    BY KeepSwap, Zenon DEF IInv, ReadSlot
  <2> QED BY <2>1, <2>2, Zenon
<1>9. TlbCoherent' /\ InvalidInv'
  BY Zenon DEF IInv, TlbCoherent, InvalidInv, Alive, InMemory
<1>10. FaultInv'
  BY <1>0, <1>2, ZenonT(60) DEF IInv, FaultInv, Handling, InMemory, InSwap, TypeOK
<1> QED BY <1>4, <1>5, <1>6, <1>7, <1>8, <1>9, <1>10, Zenon DEF IInv

\* tlb_insert maps the page, which no other TLB entry does.
LEMMA StepInsert == ASSUME IInv, InsertEntry PROVE IInv'
<1> USE DEF InsertEntry, Goto
<1>0. PICK p \in Pages, k \in TlbSlots :
        p = page /\ k = tlb_victim /\ InMemory(p) /\ ~TlbHit(p) /\ pt[p].frame \in Frames
  BY Zenon DEF IInv, FaultInv, Handling, TypeOK, Entries
<1> DEFINE e == [vpn |-> p, frame |-> pt[p].frame, dirty |-> ~(p \in ReadOnly)]
<1>1. tlb' = [tlb EXCEPT ![k] = e] /\ e \in TlbEntries
  BY <1>0, Zenon DEF tlb_insert, TlbEntries
<1>2. tlb_victim' \in TlbSlots /\ tlb_free' \in BOOLEAN
  BY <1>0, TlbAssumption, SMTT(20) DEF tlb_insert, TlbSlots, IInv, TypeOK
<1>3. TypeOK'
  <2>1. tlb' \in [TlbSlots -> TlbEntries]
    BY <1>1, Zenon DEF IInv, TypeOK
  <2> QED BY <1>2, <2>1, FrameZero, Zenon DEF IInv, TypeOK
<1>4. SizeInv' /\ KernelInv' /\ PageInv' /\ StatusInv' /\ TextInv'
  BY Zenon DEF IInv, SizeInv, KernelInv, KernelFrame, PageInv, StatusInv, TextInv, InMemory, InSwap
<1>5. UserInv' /\ SwapAccounting'
  <2>1. UserInv'
    BY KeepUser, Zenon DEF IInv, TakenFor, InsertEntry, Goto
  <2>2. SwapAccounting'
    BY KeepSwap, Zenon DEF IInv, InsertEntry, Goto
  <2> QED BY <2>1, <2>2, Zenon
<1>6. InvalidInv'
  BY <1>0, <1>1, NotPages, Zenon DEF IInv, InvalidInv, TypeOK
<1>7. TlbCoherent'
  <2>1. /\ tlb'[k].vpn = p /\ tlb'[k].frame = pt[p].frame /\ tlb'[k].dirty = (p \notin ReadOnly)
        /\ \A i \in TlbSlots \ {k} : tlb'[i] = tlb[i]
    BY <1>1, Zenon DEF IInv, TypeOK
  <2>2. \A i \in TlbSlots : tlb[i].vpn # p
    BY <1>0, Zenon DEF TlbHit
  <2>3. \A q : InMemory(q)' = InMemory(q)
    BY SMTT(20) DEF InMemory
  <2>4. Alive
    BY Zenon DEF Alive
  <2>5. \A i, j \in TlbSlots : tlb'[i].vpn # NoPage /\ tlb'[j].vpn = tlb'[i].vpn => j = i
    BY <2>1, <2>2, <2>4, SMTT(20) DEF IInv, TlbCoherent
  <2>6. ASSUME NEW i \in TlbSlots \ {k}, tlb[i].vpn # NoPage
        PROVE  /\ InMemory(tlb[i].vpn) /\ tlb[i].frame = pt[tlb[i].vpn].frame
               /\ tlb[i].dirty = (tlb[i].vpn \notin ReadOnly)
    BY <2>4, <2>6, Zenon DEF IInv, TlbCoherent
  <2>7. pt' = pt
    OBVIOUS
  <2> HIDE DEF InsertEntry
  <2> QED BY <1>0, <2>1, <2>3, <2>5, <2>6, <2>7, SMTT(20) DEF TlbCoherent
<1>8. FaultInv'
  BY Zenon DEF FaultInv, Handling
<1> QED BY <1>3, <1>4, <1>5, <1>6, <1>7, <1>8, Zenon DEF IInv

\* A step that changes nothing.
LEMMA StepStutter == ASSUME IInv, UNCHANGED vars PROVE IInv'
<1> USE DEF vars
<1>1. TypeOK' /\ SizeInv' /\ InvalidInv'
  BY Zenon DEF IInv, TypeOK, SizeInv, InvalidInv
<1>2. KernelInv' /\ PageInv' /\ StatusInv' /\ TextInv'
  BY Zenon DEF IInv, KernelInv, KernelFrame, PageInv, StatusInv, TextInv, InMemory, InSwap
<1>3. UserInv' /\ SwapAccounting'
  <2>1. UserInv'
    BY KeepUser, Zenon DEF IInv, TakenFor, vars
  <2>2. SwapAccounting'
    BY KeepSwap, Zenon DEF IInv, vars
  <2> QED BY <2>1, <2>2, Zenon
<1>4. TlbCoherent' /\ FaultInv'
  BY ZenonT(60) DEF IInv, TlbCoherent, Alive, FaultInv, Handling, InMemory, InSwap, TlbHit
<1> QED BY <1>1, <1>2, <1>3, <1>4, Zenon DEF IInv

\* The invariant is inductive.
LEMMA NextIInv == ASSUME IInv, [Next]_vars PROVE IInv'
<1>1. CASE \E f \in Frames : alloc_kpages(f) \/ free_kpages(f)
  BY <1>1, StepAlloc, StepFree, Zenon
<1>2. CASE runprogram \/ as_activate \/ sys__exit \/ as_destroy
  BY <1>2, StepRun, StepActivate, StepExit, StepDestroy, Zenon
<1>3. CASE \E i \in TlbSlots, v \in Versions : Store(i, v)
  BY <1>3, StepStore, Zenon
<1>4. CASE \E p \in Pages : vm_fault(p)
  BY <1>4, StepFault, Zenon
<1>5. CASE FaultStep
  <2>1. CASE \E f \in Frames : GetFree(f) \/ DropText(f) \/ StartSwapOut(f)
    BY <2>1, StepGetFree, StepDropText, StepStartSwapOut, Zenon
  <2>2. CASE NoVictim \/ WriteSlot \/ FinishSwapOut
    BY <2>2, StepNoVictim, StepWriteSlot, StepFinishSwapOut, Zenon
  <2>3. CASE MapPage \/ as_load_page \/ ReadSlot \/ FinishSwapIn \/ InsertEntry
    BY <2>3, StepMapPage, StepLoad, StepReadSlot, StepFinishSwapIn, StepInsert, Zenon
  <2> QED BY <1>5, <2>1, <2>2, <2>3, Zenon DEF FaultStep
<1>6. CASE UNCHANGED vars
  BY <1>6, StepStutter, Zenon
<1> QED BY <1>1, <1>2, <1>3, <1>4, <1>5, <1>6, Zenon DEF Next

----------------------------------------------------------------------------
(* The theorems.                                                           *)

\* The invariant holds in every reachable state.
THEOREM Invariance == Spec => []IInv
<1>1. Init => IInv
  BY InitIInv, Zenon
<1>2. IInv /\ [Next]_vars => IInv'
  BY NextIInv, Zenon
<1> QED BY <1>1, <1>2, PTL DEF Spec

\* Every variable keeps its type: the indices that coremap.c, pt.c, swapfile.c
\* and vm_tlb.c compute stay in range.
THEOREM VMTypeCorrect == Spec => []TypeOK
<1>1. IInv => TypeOK
  BY Zenon DEF IInv
<1> QED BY <1>1, Invariance, PTL

\* The coremap and the page table agree (alloc_upage, coremap_swapout,
\* pt_empty): no frame has two users and none leaks.
THEOREM FramesAreOwned == Spec => []FrameOwnership
<1>1. IInv => FrameOwnership
  BY Zenon DEF IInv, FrameOwnership, PageInv, UserInv, KernelInv, TypeOK, TakenFor
<1> QED BY <1>1, Invariance, PTL

\* coremap_get_victim never follows a cm_ptentry that coremap_freeppages left
\* behind: whenever it runs, what it may choose is a resident page.
THEOREM VictimsAreResident == Spec => []VictimIsResident
<1>1. ASSUME IInv PROVE VictimIsResident
  <2> SUFFICES ASSUME pc \in {"none", "alloc"}, Full, NEW f \in Frames, Swappable(f)
               PROVE  /\ cm_size_alloc[f] = 1 /\ Alive /\ cm_ptentry[f] \in Pages
                      /\ InMemory(cm_ptentry[f]) /\ pt[cm_ptentry[f]].frame = f
    BY Zenon DEF VictimIsResident
  <2>1. cm_free[f] = 1 /\ cm_size_alloc[f] = 1
    BY <1>1, Zenon DEF Full, IInv, SizeInv
  <2>2. ~KernelFrame(f) /\ ~TakenFor(f, cm_ptentry[f])
    BY <1>1, Zenon DEF Swappable, IInv, KernelInv, TakenFor
  <2>3. cm_ptentry[f] \in Pages /\ InMemory(cm_ptentry[f]) /\ pt[cm_ptentry[f]].frame = f
    BY <1>1, <2>1, <2>2, Zenon DEF IInv, UserInv
  <2>4. pc # "none"
    <3>1. pc = "none" => \A p \in Pages : pt[p].status = "NOT_LOADED"
      BY <1>1, SMTT(20) DEF IInv, FaultInv, NotLoaded
    <3> QED BY <2>3, <3>1, Zenon DEF InMemory
  <2> QED BY <2>1, <2>3, <2>4, Zenon DEF Alive
<1> QED BY <1>1, Invariance, PTL

\* swap_out, swap_in and swap_free keep the bitmap exact.
THEOREM SlotsAreAccounted == Spec => []SwapAccounting
<1>1. IInv => SwapAccounting
  BY Zenon DEF IInv
<1> QED BY <1>1, Invariance, PTL

\* No TLB entry that a program can use is stale.
THEOREM TlbIsCoherent == Spec => []TlbCoherent
<1>1. IInv => TlbCoherent
  BY Zenon DEF IInv
<1> QED BY <1>1, Invariance, PTL

----------------------------------------------------------------------------
\* A step that neither starts nor ends the program and leaves the value of
\* every page alone is invisible to it.
LEMMA Invisible ==
  ASSUME Alive' = Alive, Alive => \A p \in Pages : Value(p)' = Value(p)
  PROVE  UNCHANGED UM!vars
<1>1. \A p \in Pages : Image(p)' = Image(p)
  BY Zenon DEF Image
<1> QED BY <1>1, Zenon DEF UM!vars

\* The program, or the kernel, stops.
LEMMA Stops == ASSUME Alive, ~Alive' PROVE UM!Stop
<1>1. \A p \in Pages : Image(p)' = Image(p)
  BY Zenon DEF Image
<1> QED BY <1>1 DEF UM!Stop, UM!Fresh

\* The start of a program gives it the memory of the executable.
LEMMA RefRun == ASSUME IInv, runprogram PROVE UM!Start
<1>1. ~Alive /\ Alive'
  BY Zenon DEF runprogram, Goto, Alive
<1>2. \A p \in Pages : Value(p)' = Image(p)
  BY Zenon DEF runprogram, Goto, Value, InSwap, InMemory, NotLoaded, Image
<1> QED BY <1>1, <1>2, Zenon DEF UM!Start, UM!Fresh

\* A store changes the page that the TLB entry names, and no other.
LEMMA RefStore ==
  ASSUME IInv, NEW i \in TlbSlots, NEW v \in Versions, Store(i, v)
  PROVE  \E p \in Pages \ ReadOnly : UM!Store(p, v)
<1>0. PICK p \in Pages \ ReadOnly : /\ p = tlb[i].vpn /\ InMemory(p)
                                    /\ tlb[i].frame = pt[p].frame
  BY Zenon DEF IInv, Store, TlbCoherent, Alive, TypeOK, TlbEntries
<1>1. Alive /\ Alive'
  BY Zenon DEF Alive, Store
<1>2. /\ pt' = pt /\ swapfile' = swapfile /\ pc = "user" /\ pc' = "user"
      /\ mem' = [mem EXCEPT ![pt[p].frame] = <<p, v>>]
  BY <1>0, Zenon DEF Store
<1>3. \A q \in Pages : InMemory(q) => /\ pt[q].frame \in Frames
                                      /\ q # p => pt[q].frame # pt[p].frame
  BY <1>0, Zenon DEF IInv, PageInv, TypeOK, Entries
<1>4. \A q \in Pages : InMemory(q)' = InMemory(q) /\ InSwap(q)' = InSwap(q)
  BY <1>2, Zenon DEF InMemory, InSwap
<1>5. Value(p)' = <<p, v>>
  BY <1>0, <1>2, <1>3, <1>4, Zenon DEF Value, InMemory, InSwap, IInv, TypeOK
<1>6. \A q \in Pages \ {p} : Value(q)' = Value(q)
  BY <1>2, <1>3, <1>4, Zenon DEF Value, IInv, TypeOK, Image
<1>7. UM!Store(p, v)
  BY <1>1, <1>5, <1>6, Zenon DEF UM!Store
<1> QED BY <1>7, Zenon

\* The disk and frame steps of a fault that move no page are invisible: what
\* they write is neither in memory nor in swap yet.
LEMMA RefMove ==
  ASSUME IInv, (\E f \in Frames : GetFree(f)) \/ WriteSlot \/ ReadSlot
  PROVE  UNCHANGED UM!vars
<1>1. Alive /\ Alive'
  BY Zenon DEF GetFree, WriteSlot, ReadSlot, Goto, Alive
<1>2. pt' = pt /\ pc # "load" /\ pc' # "load"
  BY Zenon DEF GetFree, WriteSlot, ReadSlot, Goto
<1>3. \A p \in Pages : InMemory(p)' = InMemory(p) /\ InSwap(p)' = InSwap(p)
  BY <1>2, Zenon DEF InMemory, InSwap
<1>4. \A p \in Pages : InMemory(p) => mem'[pt[p].frame] = mem[pt[p].frame]
  <2>1. CASE \E f \in Frames : GetFree(f)
    <3>1. PICK f \in Frames : cm_free[f] = 0 /\ \E c : mem' = [mem EXCEPT ![f] = c]
      BY <2>1, Zenon DEF GetFree, FirstFree, TakeFrame
    <3> QED BY <3>1, ResidentFacts DEF IInv, TypeOK
  <2>2. CASE WriteSlot
    BY <2>2, Zenon DEF WriteSlot
  <2>3. CASE ReadSlot
    <3>1. cm_ptentry[frame] = page /\ ~InMemory(page) /\ \E c : mem' = [mem EXCEPT ![frame] = c]
      BY <2>3, Zenon DEF ReadSlot, IInv, FaultInv
    <3> QED BY <3>1, ResidentFacts DEF IInv, TypeOK
  <2> QED BY <2>1, <2>2, <2>3, Zenon
<1>5. \A p \in Pages : InSwap(p) => swapfile'[pt[p].swap] = swapfile[pt[p].swap]
  <2>1. CASE WriteSlot
    <3>1. \A p \in Pages : InSwap(p) => pt[p].swap \in Slots \ {slot}
      BY <2>1, Zenon DEF WriteSlot, Goto, IInv, SwapAccounting, SwappedSlots, TypeOK
    <3> QED BY <2>1, <3>1, Zenon DEF WriteSlot, IInv, TypeOK
  <2> QED BY <2>1, Zenon DEF GetFree, ReadSlot
<1>6. \A p \in Pages : Value(p)' = Value(p)
  BY <1>2, <1>3, <1>4, <1>5, Zenon DEF Value, Image
<1> QED BY <1>1, <1>6, Invisible, Zenon

\* An eviction is invisible when the page's value is kept by its new entry.
LEMMA RefEvict ==
  ASSUME IInv, NEW v \in Frames, NEW old, NEW e \in Entries, Evict(v, old, e),
         Value(old)' = Value(old)
  PROVE  UNCHANGED UM!vars
<1>1. Alive /\ Alive' /\ pc # "load" /\ pc' # "load" /\ old \in Pages /\ swapfile' = swapfile
  BY Zenon DEF Evict, Alive
<1>2. \A p \in Pages \ {old} : pt'[p] = pt[p]
  BY Zenon DEF Evict, IInv, TypeOK
<1>3. \A p \in Pages \ {old} : InMemory(p) => mem'[pt[p].frame] = mem[pt[p].frame]
  BY ZenonT(60) DEF Evict, TakeFrame, IInv, PageInv, TypeOK, Entries
<1>4. \A p \in Pages \ {old} : InMemory(p)' = InMemory(p) /\ InSwap(p)' = InSwap(p)
  BY <1>2, Zenon DEF InMemory, InSwap
<1>5. \A p \in Pages \ {old} : Value(p)' = Value(p)
  BY <1>1, <1>2, <1>3, <1>4, Zenon DEF Value, Image
<1> QED BY <1>1, <1>5, Invisible, Zenon

\* A text page that is dropped reads as the executable, as it did before.
LEMMA RefDropText == ASSUME IInv, NEW v \in Frames, DropText(v) PROVE UNCHANGED UM!vars
<1>0. PICK old \in Pages : /\ old = cm_ptentry[v] /\ InMemory(old) /\ pt[old].frame = v
                           /\ ~KernelFrame(v) /\ v # 0
  BY VictimFacts, Zenon DEF DropText
<1>1. Evict(v, old, NotLoaded)
  BY <1>0, Zenon DEF DropText, Evict, NotLoaded, pt_set_entry, IInv, TypeOK
<1>2. old \in ReadOnly
  BY <1>0, Zenon DEF DropText, IInv, StatusInv, Resident
<1>3. Value(old) = Image(old)
  BY <1>0, <1>2, Zenon DEF Value, InMemory, InSwap, DropText, IInv, TextInv
<1>4. Value(old)' = Image(old)
  <2>1. pt'[old] = NotLoaded
    BY <1>1, Zenon DEF Evict, IInv, TypeOK
  <2>2. ~InSwap(old)' /\ ~InMemory(old)'
    BY <2>1 DEF InMemory, InSwap, NotLoaded
  <2> QED BY <2>2, Zenon DEF Value, Image
<1> QED BY <1>1, <1>3, <1>4, RefEvict, NotLoadedType, Zenon

\* A page that is swapped out reads from its slot what it had in its frame.
LEMMA RefFinishSwapOut == ASSUME IInv, FinishSwapOut PROVE UNCHANGED UM!vars
<1>0. PICK v \in Frames, old \in Pages \ ReadOnly, s \in Slots :
        /\ v = frame /\ old = cm_ptentry[v] /\ s = slot
        /\ InMemory(old) /\ pt[old].frame = v /\ pc = "evict" /\ swapfile[s] = mem[v]
  BY Zenon DEF FinishSwapOut, Goto, IInv, TypeOK, FaultInv
<1>1. ~KernelFrame(v) /\ v # 0
  BY <1>0, FrameZero, NotPages, Zenon DEF IInv, KernelInv
<1> DEFINE e == [status |-> "IN_SWAP", frame |-> 0, swap |-> s]
<1>2. e \in Entries
  BY <1>0, FrameZero, Zenon DEF Entries
<1>3. Evict(v, old, e)
  BY <1>0, <1>1, Zenon DEF FinishSwapOut, Goto, Evict, pt_set_entry, IInv, TypeOK
<1>4. Value(old) = mem[v]
  BY <1>0, Zenon DEF Value, InMemory, InSwap
<1>5. Value(old)' = swapfile[s]
  <2>1. pt'[old] = e /\ swapfile' = swapfile
    BY <1>3, Zenon DEF Evict, IInv, TypeOK
  <2>2. InSwap(old)' /\ pt'[old].swap = s
    BY <2>1 DEF InSwap
  <2> QED BY <2>1, <2>2, Zenon DEF Value
<1> HIDE DEF e
<1> QED BY <1>0, <1>2, <1>3, <1>4, <1>5, RefEvict, Zenon

\* Mapping a page is invisible when its frame holds its value already, or is
\* about to be filled from the executable it would be read from.
LEMMA RefMap ==
  ASSUME IInv, Map, IF pc' = "load" THEN Value(page) = Image(page) ELSE Value(page) = mem[frame]
  PROVE  UNCHANGED UM!vars
<1>0. PICK p \in Pages : p = page /\ p = page'
  BY Zenon DEF Map, IInv, FaultInv, Handling
<1>1. /\ Alive /\ Alive' /\ pc # "load" /\ swapfile' = swapfile /\ mem' = mem
      /\ \A q \in Pages \ {p} : pt'[q] = pt[q]
      /\ pt'[p] = [status |-> Resident(p), frame |-> frame, swap |-> 0]
  BY <1>0, Zenon DEF Map, Alive, pt_set_entry, IInv, TypeOK
<1>2. \A q \in Pages \ {p} : Value(q)' = Value(q)
  BY <1>0, <1>1, Zenon DEF Value, InMemory, InSwap, Image
<1>3. Value(p)' = Value(p)
  <2>1. InMemory(p)' /\ ~InSwap(p)' /\ pt'[p].frame = frame
    <3>1. pt'[p].status = Resident(p) /\ pt'[p].frame = frame
      <4>1. pt'[p] = [status |-> Resident(p), frame |-> frame, swap |-> 0]
        BY <1>1, Zenon
      <4> QED BY <4>1
    <3>2. Resident(p) \in {"IN_MEMORY", "IN_MEMORY_RDONLY"} /\ Resident(p) # "IN_SWAP"
      BY Zenon DEF Resident
    <3> QED BY <3>1, <3>2, Zenon DEF InMemory, InSwap
  <2>2. Value(p)' = IF pc' = "load" THEN Image(p) ELSE mem[frame]
    BY <1>0, <1>1, <2>1, Zenon DEF Value, Image
  <2> QED BY <1>0, <2>2, Zenon
<1> QED BY <1>1, <1>2, <1>3, Invisible, Zenon

\* MapPage and FinishSwapIn are such steps.
LEMMA RefMapSteps == ASSUME IInv, MapPage \/ FinishSwapIn PROVE UNCHANGED UM!vars
<1>1. CASE MapPage
  <2>1. Map
    BY <1>1, Zenon DEF MapPage, Map, Image, IInv, FaultInv, TypeOK
  <2>2. Value(page) = Image(page)
    BY <1>1, Zenon DEF MapPage, Value, InSwap, InMemory
  <2>3. pc' # "load" => mem[frame] = Image(page)
    BY <1>1, Zenon DEF MapPage, Image, IInv, FaultInv
  <2> QED BY <2>1, <2>2, <2>3, RefMap, Zenon
<1>2. CASE FinishSwapIn
  <2>1. Map
    BY <1>2, Zenon DEF FinishSwapIn, Goto, Map, IInv, TypeOK, FaultInv, Handling, StatusInv
  <2>2. Value(page) = mem[frame] /\ pc' # "load"
    BY <1>2, Zenon DEF FinishSwapIn, Goto, Value, IInv, FaultInv
  <2> QED BY <2>1, <2>2, RefMap, Zenon
<1> QED BY <1>1, <1>2, Zenon

\* Reading the page from the executable gives the frame the page's value.
LEMMA RefLoad == ASSUME IInv, as_load_page PROVE UNCHANGED UM!vars
<1>0. PICK p \in Pages : p = page /\ InMemory(p) /\ pt[p].frame \in Frames
  BY Zenon DEF as_load_page, Goto, IInv, FaultInv, Handling, TypeOK, Entries
<1>1. /\ Alive /\ Alive' /\ swapfile' = swapfile /\ pt' = pt /\ pc = "load" /\ pc' = "insert"
      /\ mem' = [mem EXCEPT ![pt[p].frame] = Image(p)]
  BY <1>0, Zenon DEF as_load_page, Goto, Alive
<1>2. \A q \in Pages : InMemory(q)' = InMemory(q) /\ InSwap(q)' = InSwap(q)
  BY <1>1, Zenon DEF InMemory, InSwap
<1>3. Value(p)' = Value(p)
  <2>1. mem'[pt[p].frame] = Image(p)
    BY <1>0, <1>1, Zenon DEF IInv, TypeOK
  <2> QED BY <1>0, <1>1, <1>2, <2>1, Zenon DEF Value, InMemory, InSwap
<1>4. ASSUME NEW q \in Pages \ {p} PROVE Value(q)' = Value(q)
  <2>1. InMemory(q) => mem'[pt[q].frame] = mem[pt[q].frame]
    BY <1>0, <1>1 DEF IInv, PageInv, TypeOK, Entries
  <2> QED BY <1>0, <1>1, <1>2, <2>1, Zenon DEF Value, Image
<1> QED BY <1>1, <1>3, <1>4, Invisible, Zenon

\* The steps that touch no page-table entry, no slot and no frame of a page.
LEMMA RefSame ==
  ASSUME IInv, Alive' = Alive,
         UNCHANGED <<pt, swapfile, mem>>, (pc # "load" /\ pc' # "load") \/ UNCHANGED <<pc, page>>
  PROVE  UNCHANGED UM!vars
<1>1. \A p \in Pages : Value(p)' = Value(p)
  BY Zenon DEF Value, InMemory, InSwap, Image
<1> QED BY <1>1, Invisible, Zenon

\* Every step is one of UserMemory or invisible there.
LEMMA RefNext == ASSUME IInv, [Next]_vars PROVE [UM!Next]_(UM!vars)
<1>1. ASSUME NEW f \in Frames, alloc_kpages(f) PROVE UNCHANGED UM!vars
  BY <1>1, Invisible, Zenon DEF alloc_kpages, Alive
<1>2. ASSUME NEW f \in Frames, free_kpages(f) PROVE UNCHANGED UM!vars
  BY <1>2, RefSame, Zenon DEF free_kpages, Alive
<1>3. CASE runprogram
  BY <1>3, RefRun, Zenon DEF UM!Next
<1>4. CASE as_activate
  BY <1>4, RefSame, Zenon DEF as_activate, Alive
<1>5. ASSUME NEW i \in TlbSlots, NEW v \in Versions, Store(i, v) PROVE UM!Next
  BY <1>5, RefStore, Zenon DEF UM!Next
<1>6. ASSUME NEW p \in Pages, vm_fault(p) PROVE UNCHANGED UM!vars
  BY <1>6, RefSame, Zenon DEF vm_fault, Goto, Alive
<1>7. CASE sys__exit
  BY <1>7, Stops, Zenon DEF sys__exit, Goto, Alive, UM!Next
<1>8. CASE as_destroy
  BY <1>8, Invisible, Zenon DEF as_destroy, Goto, Alive
<1>9. CASE FaultStep
  <2>1. ASSUME NEW f \in Frames, GetFree(f) \/ DropText(f) PROVE UNCHANGED UM!vars
    BY <2>1, RefMove, RefDropText, Zenon
  <2>2. ASSUME NEW f \in Frames, StartSwapOut(f) PROVE [UM!Next]_(UM!vars)
    <3>1. CASE pc' = "panic"
      BY <2>2, <3>1, Stops, Zenon DEF StartSwapOut, Alive, UM!Next
    <3>2. CASE pc' = "write"
      <4>1. Alive' = Alive /\ UNCHANGED <<pt, swapfile, mem>> /\ pc # "load"
        BY <2>2, <3>2, Zenon DEF StartSwapOut, Alive
      <4> QED BY <3>2, <4>1, RefSame, Zenon
    <3> QED BY <2>2, <3>1, <3>2, Zenon DEF StartSwapOut
  <2>3. CASE NoVictim
    <3>1. CASE pc = "alloc"
      BY <2>3, <3>1, Stops, Zenon DEF NoVictim, Alive, UM!Next
    <3>2. CASE pc = "none"
      BY <2>3, <3>2, Invisible, Zenon DEF NoVictim, Alive
    <3> QED BY <2>3, <3>1, <3>2, Zenon DEF NoVictim
  <2>4. CASE InsertEntry
    BY <2>4, RefSame, Zenon DEF InsertEntry, Goto, Alive
  <2> QED BY <1>9, <2>1, <2>2, <2>3, <2>4, RefMove, RefFinishSwapOut, RefMapSteps, RefLoad, Zenon
          DEF FaultStep
<1>10. CASE UNCHANGED vars
  BY <1>10, RefSame, Zenon DEF vars, Alive
<1> QED BY <1>1, <1>2, <1>3, <1>4, <1>5, <1>6, <1>7, <1>8, <1>9, <1>10, Zenon DEF Next

\* Demand paging is invisible to the program: vm_fault, coremap_swapout, swap
\* and the TLB together implement the private memory of UserMemory.
THEOREM PagingIsInvisible == Spec => MemoryRefinement
<1>1. Init => UM!Init
  BY Zenon DEF Init, Alive, UM!Init, UM!Fresh
<1>2. IInv /\ [Next]_vars => [UM!Next]_(UM!vars)
  BY RefNext, Zenon
<1> QED BY <1>1, <1>2, Invariance, PTL DEF Spec, MemoryRefinement, UM!Spec
----------------------------------------------------------------------------
(* The counters of vmstats.c.                                              *)

\* vm_fault has counted the fault but not yet what resolves it.
Pending == IF pc \in {"alloc", "write", "evict", "fill"} THEN 1 ELSE 0

\* swap_in has counted the page whose slot it is about to unmark.
Counted == IF pc = "unmark" THEN 1 ELSE 0

\* StatsBalance with what the step of a fault that is on its way will add, and
\* with the slots in use: a page that is swapped in was swapped out before
\* because its slot is still marked.
Balance(n) ==
  /\ n["PAGE_FAULT_DISK"] = n["PAGE_FAULT_ELF"] + n["PAGE_FAULT_SWAP"]
  /\ n["TLB_FAULT_FREE"] + n["TLB_FAULT_REPLACE"] + InFlight
       = n["TLB_RELOAD"] + n["PAGE_FAULT_ZERO"] + n["PAGE_FAULT_DISK"]
  /\ n["TLB_RELOAD"] + n["PAGE_FAULT_ZERO"] + n["PAGE_FAULT_DISK"] + Pending
       <= n["TLB_FAULT"]
  /\ n["PAGE_FAULT_SWAP"] + Cardinality(swapmap) <= n["SWAP_WRITE"] + Counted

StatsInv == IInv /\ vmstats \in [Events -> Nat] /\ Balance(vmstats)

\* Every step of the counting specification is a step of DemandVM.
LEMMA StatsStep == ASSUME [StatsNext]_statvars PROVE [Next]_vars
<1>1. CASE CountFault
  BY <1>1, Zenon DEF CountFault, Next
<1>2. CASE CountInvalidation
  BY <1>2, Zenon DEF CountInvalidation, Next
<1>3. CASE CountMap
  BY <1>3, Zenon DEF CountMap, Next, FaultStep
<1>4. CASE CountSwapIn
  BY <1>4, Zenon DEF CountSwapIn, Next, FaultStep
<1>5. CASE CountSwapOut
  BY <1>5, Zenon DEF CountSwapOut, Next, FaultStep
<1>6. CASE CountInsert
  BY <1>6, Zenon DEF CountInsert, Next, FaultStep
<1>7. CASE Uncounted
  BY <1>7, Zenon DEF Uncounted, Next, FaultStep
<1>8. CASE UNCHANGED statvars
  BY <1>8, Zenon DEF statvars
<1> QED BY <1>1, <1>2, <1>3, <1>4, <1>5, <1>6, <1>7, <1>8, Zenon DEF StatsNext

\* A hit adds one to the counters it names and leaves the others.
LEMMA HitAdds ==
  ASSUME vmstats \in [Events -> Nat], NEW E \in SUBSET Events, vmstats_hit(E)
  PROVE  /\ vmstats' \in [Events -> Nat]
         /\ \A e \in E : vmstats'[e] = vmstats[e] + 1
         /\ \A e \in Events \ E : vmstats'[e] = vmstats[e]
<1>1. \A e \in Events : vmstats[e] \in Nat
  OBVIOUS
<1>2. \A e \in Events : vmstats'[e] = vmstats[e] + (IF e \in E THEN 1 ELSE 0)
  BY Zenon DEF vmstats_hit
<1>3. vmstats' = [e \in Events |-> vmstats'[e]]
  BY Zenon DEF vmstats_hit
<1>4. \A e \in Events : vmstats'[e] \in Nat
  BY <1>1, <1>2
<1>5. vmstats' \in [Events -> Nat]
  BY <1>3, <1>4, Zenon
<1> QED BY <1>1, <1>2, <1>5

\* Slots are finitely many: taking one adds one to their number and freeing
\* some does not add any.
LEMMA SlotsCount ==
  ASSUME TypeOK
  PROVE  /\ Cardinality(swapmap) \in Nat
         /\ \A s \in Slots \ swapmap : Cardinality(swapmap \cup {s}) = Cardinality(swapmap) + 1
         /\ \A s \in swapmap : Cardinality(swapmap \ {s}) = Cardinality(swapmap) - 1
         /\ \A S : Cardinality(swapmap \ S) \in Nat /\ Cardinality(swapmap \ S) <= Cardinality(swapmap)
         /\ swapmap # {} => Cardinality(swapmap) # 0
<1>1. IsFiniteSet(Slots)
  BY VMAssumption, FS_Interval DEF Slots
<1>2. IsFiniteSet(swapmap)
  BY <1>1, FS_Subset, Zenon DEF TypeOK
<1>3. Cardinality(swapmap) \in Nat
  BY <1>2, FS_CardinalityType, Zenon
<1>4. ASSUME NEW s \in Slots \ swapmap
      PROVE  Cardinality(swapmap \cup {s}) = Cardinality(swapmap) + 1
  BY <1>2, FS_AddElement, Zenon
<1>5. ASSUME NEW s \in swapmap PROVE Cardinality(swapmap \ {s}) = Cardinality(swapmap) - 1
  BY <1>2, FS_RemoveElement, Zenon
<1>6. ASSUME NEW S
      PROVE  /\ Cardinality(swapmap \ S) \in Nat
             /\ Cardinality(swapmap \ S) <= Cardinality(swapmap)
  <2>1. swapmap \ S \in SUBSET swapmap
    OBVIOUS
  <2>2. IsFiniteSet(swapmap \ S) /\ Cardinality(swapmap \ S) <= Cardinality(swapmap)
    BY <1>2, <2>1, FS_Subset, Zenon
  <2> QED BY <2>2, FS_CardinalityType, Zenon
<1>7. swapmap # {} => Cardinality(swapmap) # 0
  BY <1>2, FS_EmptySet, Zenon
<1> QED BY <1>3, <1>4, <1>5, <1>6, <1>7, Zenon
\* A step that counts nothing balances when it keeps the fault's stage, or
\* ends a fault in a panic, and does not take a slot.
LEMMA StillBalanced ==
  ASSUME StatsInv, vmstats' = vmstats, InFlight' = InFlight, Pending' \in {0, Pending},
         Pending \in {0, 1}, Counted \in {0, 1}, Counted' \in {0, 1},
         Cardinality(swapmap) \in Nat, Cardinality(swapmap') \in Nat,
         Cardinality(swapmap') + Counted <= Cardinality(swapmap) + Counted'
  PROVE  Balance(vmstats)'
<1>1. \A e \in Events : vmstats[e] \in Nat
  BY DEF StatsInv
<1>2. Balance(vmstats)
  BY Zenon DEF StatsInv
<1> QED BY <1>1, <1>2 DEF Balance, Events

LEMMA BalancedUncounted == ASSUME StatsInv, Uncounted PROVE Balance(vmstats)'
<1>1. TypeOK /\ SwapAccounting /\ FaultInv
  BY Zenon DEF StatsInv, IInv
<1>2. vmstats' = vmstats
  BY Zenon DEF Uncounted
<1>3. CASE UNCHANGED <<swapmap, pc>>
  BY <1>1, <1>2, <1>3, SlotsCount, StillBalanced DEF InFlight, Pending, Counted
<1>4. CASE /\ swapmap' = swapmap
           /\ \/ pc \in {"alloc", "write", "evict"} /\ pc' \in {"write", "evict", "fill", "panic"}
              \/ pc = "load" /\ pc' = "insert"
              \/ pc = "none" /\ pc' = "panic"
              \/ pc = "user" /\ pc' = "exited"
  BY <1>1, <1>2, <1>4, SlotsCount, StillBalanced DEF InFlight, Pending, Counted
<1>5. CASE FinishSwapIn
  <2>1. pc = "unmark" /\ pc' = "insert" /\ swapmap' = swapmap \ {pt[page].swap}
    BY <1>5, Zenon DEF FinishSwapIn, Goto
  <2>2. page \in Pages /\ InSwap(page)
    BY <1>1, <2>1 DEF FaultInv, Handling
  <2>3. pt[page].swap \in swapmap
    BY <1>1, <2>2, Zenon DEF SwapAccounting, SwappedSlots
  <2>4. Cardinality(swapmap') = Cardinality(swapmap) - 1 /\ Cardinality(swapmap') \in Nat
    BY <1>1, <2>1, <2>3, SlotsCount, Zenon
  <2> QED BY <1>1, <1>2, <2>1, <2>4, SlotsCount, StillBalanced DEF InFlight, Pending, Counted
<1>6. CASE as_destroy
  <2>1. pc = "exited" /\ pc' = "none" /\ swapmap' = swapmap \ SwappedSlots
    BY <1>6, Zenon DEF as_destroy, Goto, pt_empty
  <2>2. Cardinality(swapmap') <= Cardinality(swapmap) /\ Cardinality(swapmap') \in Nat
    BY <1>1, <2>1, SlotsCount, Zenon
  <2> QED BY <1>1, <1>2, <2>1, <2>2, SlotsCount, StillBalanced DEF InFlight, Pending, Counted
<1>7. ASSUME NEW f \in Frames, alloc_kpages(f) \/ free_kpages(f) \/ GetFree(f) \/ DropText(f)
      PROVE  Balance(vmstats)'
  BY <1>3, <1>4, <1>7, Zenon DEF alloc_kpages, free_kpages, GetFree, DropText, Goto
<1>8. ASSUME NEW i \in TlbSlots, NEW v \in Versions, Store(i, v) PROVE Balance(vmstats)'
  BY <1>3, <1>8, Zenon DEF Store
<1>9. CASE NoVictim
  BY <1>4, <1>9, Zenon DEF NoVictim
<1>10. CASE WriteSlot \/ FinishSwapOut \/ as_load_page \/ sys__exit
  BY <1>4, <1>10, Zenon DEF WriteSlot, FinishSwapOut, as_load_page, sys__exit, Goto
<1> QED BY <1>5, <1>6, <1>7, <1>8, <1>9, <1>10, Zenon DEF Uncounted

\* vm_fault counts the call, and a page that only lacked its TLB entry.
LEMMA BalancedFault == ASSUME StatsInv, CountFault PROVE Balance(vmstats)'
<1>1. TypeOK /\ Balance(vmstats) /\ vmstats \in [Events -> Nat]
  BY Zenon DEF StatsInv, IInv
<1>2. pc = "user" /\ swapmap' = swapmap
  BY Zenon DEF CountFault, vm_fault, sys__exit, Goto
<1>3. CASE pc' \in {"alloc", "exited"} /\ vmstats_hit({"TLB_FAULT"})
  <2>1. vmstats_hit({"TLB_FAULT"}) /\ {"TLB_FAULT"} \in SUBSET Events
    BY <1>3 DEF Events
  <2>2. /\ vmstats'["TLB_FAULT"] = vmstats["TLB_FAULT"] + 1
        /\ \A e \in Events \ {"TLB_FAULT"} : vmstats'[e] = vmstats[e]
    BY <1>1, <2>1, HitAdds, Zenon
  <2> QED BY <1>1, <1>2, <1>3, <2>2, SlotsCount
          DEF Balance, InFlight, Pending, Counted, Events
<1>4. CASE pc' = "insert" /\ vmstats_hit({"TLB_FAULT", "TLB_RELOAD"})
  <2>1. /\ vmstats_hit({"TLB_FAULT", "TLB_RELOAD"})
        /\ {"TLB_FAULT", "TLB_RELOAD"} \in SUBSET Events
    BY <1>4 DEF Events
  <2>2. /\ vmstats'["TLB_FAULT"] = vmstats["TLB_FAULT"] + 1
        /\ vmstats'["TLB_RELOAD"] = vmstats["TLB_RELOAD"] + 1
        /\ \A e \in Events \ {"TLB_FAULT", "TLB_RELOAD"} : vmstats'[e] = vmstats[e]
    BY <1>1, <2>1, HitAdds, Zenon
  <2> QED BY <1>1, <1>2, <1>4, <2>2, SlotsCount, SMTT(60)
          DEF Balance, InFlight, Pending, Counted, Events
<1>5. /\ {"TLB_FAULT"} \cup {"TLB_RELOAD"} = {"TLB_FAULT", "TLB_RELOAD"}
      /\ {"TLB_FAULT"} \cup {} = {"TLB_FAULT"}
  OBVIOUS
<1>6. ASSUME NEW p \in Pages, vm_fault(p),
             vmstats_hit({"TLB_FAULT"} \cup (IF InMemory(p) THEN {"TLB_RELOAD"} ELSE {}))
      PROVE  Balance(vmstats)'
  <2>1. CASE InMemory(p)
    BY <1>4, <1>5, <1>6, <2>1, Zenon DEF vm_fault, Goto
  <2>2. CASE ~InMemory(p)
    BY <1>3, <1>5, <1>6, <2>2, Zenon DEF vm_fault, Goto
  <2> QED BY <2>1, <2>2
<1>7. CASE sys__exit /\ vmstats_hit({"TLB_FAULT"})
  BY <1>3, <1>7, Zenon DEF sys__exit, Goto
<1> QED BY <1>6, <1>7, Zenon DEF CountFault
\* as_activate counts one invalidation, which no balance mentions.
LEMMA BalancedInvalidation == ASSUME StatsInv, CountInvalidation PROVE Balance(vmstats)'
<1>1. TypeOK /\ Balance(vmstats) /\ vmstats \in [Events -> Nat]
  BY Zenon DEF StatsInv, IInv
<1>2. swapmap' = swapmap /\ (pc' = pc \/ (pc = "none" /\ pc' = "user"))
  BY Zenon DEF CountInvalidation, runprogram, as_activate, Goto
<1>3. vmstats_hit({"TLB_INVALIDATION"}) /\ {"TLB_INVALIDATION"} \in SUBSET Events
  BY DEF CountInvalidation, Events
<1>4. \A e \in Events \ {"TLB_INVALIDATION"} : vmstats'[e] = vmstats[e]
  BY <1>1, <1>3, HitAdds, Zenon
<1> QED BY <1>1, <1>2, <1>4, SlotsCount DEF Balance, InFlight, Pending, Counted, Events

\* as_load_page counts a page of the executable twice, a zeroed page once.
LEMMA BalancedMap == ASSUME StatsInv, CountMap PROVE Balance(vmstats)'
<1>1. TypeOK /\ Balance(vmstats) /\ vmstats \in [Events -> Nat]
  BY Zenon DEF StatsInv, IInv
<1>2. pc = "fill" /\ pc' \in {"load", "insert"} /\ swapmap' = swapmap
  BY Zenon DEF CountMap, MapPage
<1>3. CASE page \in ElfPages
  <2>1. /\ vmstats_hit({"PAGE_FAULT_DISK", "PAGE_FAULT_ELF"})
        /\ {"PAGE_FAULT_DISK", "PAGE_FAULT_ELF"} \in SUBSET Events
    BY <1>3 DEF CountMap, Events
  <2>2. /\ vmstats'["PAGE_FAULT_DISK"] = vmstats["PAGE_FAULT_DISK"] + 1
        /\ vmstats'["PAGE_FAULT_ELF"] = vmstats["PAGE_FAULT_ELF"] + 1
        /\ \A e \in Events \ {"PAGE_FAULT_DISK", "PAGE_FAULT_ELF"} : vmstats'[e] = vmstats[e]
    BY <1>1, <2>1, HitAdds, Zenon
  <2> QED BY <1>1, <1>2, <2>2, SlotsCount DEF Balance, InFlight, Pending, Counted, Events
<1>4. CASE page \notin ElfPages
  <2>1. vmstats_hit({"PAGE_FAULT_ZERO"}) /\ {"PAGE_FAULT_ZERO"} \in SUBSET Events
    BY <1>4 DEF CountMap, Events
  <2>2. /\ vmstats'["PAGE_FAULT_ZERO"] = vmstats["PAGE_FAULT_ZERO"] + 1
        /\ \A e \in Events \ {"PAGE_FAULT_ZERO"} : vmstats'[e] = vmstats[e]
    BY <1>1, <2>1, HitAdds, Zenon
  <2> QED BY <1>1, <1>2, <2>2, SlotsCount DEF Balance, InFlight, Pending, Counted, Events
<1> QED BY <1>3, <1>4, Zenon

\* swap_in counts the page while its slot is still marked.
LEMMA BalancedSwapIn == ASSUME StatsInv, CountSwapIn PROVE Balance(vmstats)'
<1>1. TypeOK /\ Balance(vmstats) /\ vmstats \in [Events -> Nat]
  BY Zenon DEF StatsInv, IInv
<1>2. pc = "fill" /\ pc' = "unmark" /\ swapmap' = swapmap
  BY Zenon DEF CountSwapIn, ReadSlot
<1>3. /\ vmstats_hit({"PAGE_FAULT_DISK", "PAGE_FAULT_SWAP"})
      /\ {"PAGE_FAULT_DISK", "PAGE_FAULT_SWAP"} \in SUBSET Events
  BY DEF CountSwapIn, Events
<1>4. /\ vmstats'["PAGE_FAULT_DISK"] = vmstats["PAGE_FAULT_DISK"] + 1
      /\ vmstats'["PAGE_FAULT_SWAP"] = vmstats["PAGE_FAULT_SWAP"] + 1
      /\ \A e \in Events \ {"PAGE_FAULT_DISK", "PAGE_FAULT_SWAP"} : vmstats'[e] = vmstats[e]
  BY <1>1, <1>3, HitAdds, Zenon
<1> QED BY <1>1, <1>2, <1>4, SlotsCount DEF Balance, InFlight, Pending, Counted, Events

\* swap_out takes a slot and counts the write, or counts it and panics.
LEMMA BalancedSwapOut == ASSUME StatsInv, CountSwapOut PROVE Balance(vmstats)'
<1>1. TypeOK /\ Balance(vmstats) /\ vmstats \in [Events -> Nat]
  BY Zenon DEF StatsInv, IInv
<1>2. pc = "alloc" /\ pc' \in {"write", "panic"}
  BY Zenon DEF CountSwapOut, StartSwapOut
<1>3. swapmap' = swapmap \/ \E s \in Slots \ swapmap : swapmap' = swapmap \cup {s}
  BY Zenon DEF CountSwapOut, StartSwapOut
<1>4. /\ Cardinality(swapmap) \in Nat
      /\ Cardinality(swapmap') \in {Cardinality(swapmap), Cardinality(swapmap) + 1}
  BY <1>1, <1>3, SlotsCount, Zenon
<1>5. vmstats_hit({"SWAP_WRITE"}) /\ {"SWAP_WRITE"} \in SUBSET Events
  BY DEF CountSwapOut, Events
<1>6. /\ vmstats'["SWAP_WRITE"] = vmstats["SWAP_WRITE"] + 1
      /\ \A e \in Events \ {"SWAP_WRITE"} : vmstats'[e] = vmstats[e]
  BY <1>1, <1>5, HitAdds, Zenon
<1> QED BY <1>1, <1>2, <1>4, <1>6 DEF Balance, InFlight, Pending, Counted, Events

\* tlb_insert counts the entry as a free one or as a replacement.
LEMMA BalancedInsert == ASSUME StatsInv, CountInsert PROVE Balance(vmstats)'
<1>1. TypeOK /\ Balance(vmstats) /\ vmstats \in [Events -> Nat]
  BY Zenon DEF StatsInv, IInv
<1>2. pc = "insert" /\ pc' = "user" /\ swapmap' = swapmap
  BY Zenon DEF CountInsert, InsertEntry, Goto
<1>3. PICK x \in {"TLB_FAULT_FREE", "TLB_FAULT_REPLACE"} : vmstats_hit({x})
  BY Zenon DEF CountInsert
<1>4. {x} \in SUBSET Events
  BY <1>3 DEF Events
<1>5. vmstats'[x] = vmstats[x] + 1 /\ \A e \in Events \ {x} : vmstats'[e] = vmstats[e]
  BY <1>1, <1>3, <1>4, HitAdds, Zenon
<1>6. CASE x = "TLB_FAULT_FREE"
  BY <1>1, <1>2, <1>5, <1>6, SlotsCount DEF Balance, InFlight, Pending, Counted, Events
<1>7. CASE x = "TLB_FAULT_REPLACE"
  BY <1>1, <1>2, <1>5, <1>7, SlotsCount DEF Balance, InFlight, Pending, Counted, Events
<1> QED BY <1>6, <1>7
LEMMA StatsTyped ==
  ASSUME StatsInv, [StatsNext]_statvars PROVE vmstats' \in [Events -> Nat]
<1>1. vmstats \in [Events -> Nat]
  BY Zenon DEF StatsInv
<1>2. ASSUME NEW E, vmstats_hit(E) PROVE vmstats' \in [Events -> Nat]
  <2>1. vmstats_hit(E \cap Events)
    BY <1>2, Zenon DEF vmstats_hit
  <2> QED BY <1>1, <2>1, HitAdds
<1>3. CASE UNCHANGED vmstats
  BY <1>1, <1>3
<1> QED BY <1>2, <1>3, Zenon DEF StatsNext, statvars, CountFault, CountInvalidation, CountMap,
                              CountSwapIn, CountSwapOut, CountInsert, Uncounted

LEMMA StatsInvNext == ASSUME StatsInv, [StatsNext]_statvars PROVE StatsInv'
<1>1. IInv'
  BY StatsStep, NextIInv, Zenon DEF StatsInv
<1>2. vmstats' \in [Events -> Nat]
  BY StatsTyped, Zenon
<1>3. ASSUME UNCHANGED statvars PROVE Balance(vmstats)'
  BY <1>3, Zenon DEF StatsInv, Balance, InFlight, Pending, Counted, statvars, vars
<1>4. Balance(vmstats)'
  BY <1>3, BalancedUncounted, BalancedFault, BalancedInvalidation, BalancedMap,
     BalancedSwapIn, BalancedSwapOut, BalancedInsert, Zenon DEF StatsNext, StatsInv
<1> QED BY <1>1, <1>2, <1>4, Zenon DEF StatsInv

\* The sums vmstats_print shows agree after every step, for any number of
\* programs, faults and context switches: a disk fault is an ELF or a swap
\* fault, tlb_insert is counted once per resolved fault, and swap_in never
\* counts more pages than swap_out.
THEOREM StatsAgree == StatsSpec => []StatsBalance
<1>1. StatsInit => StatsInv
  <2> SUFFICES ASSUME StatsInit PROVE StatsInv
    OBVIOUS
  <2>1. IInv
    BY InitIInv, Zenon DEF StatsInit
  <2>2. vmstats = [e \in Events |-> 0] /\ pc = "none" /\ swapmap = {}
    BY Zenon DEF StatsInit, Init
  <2>3. Cardinality(swapmap) = 0
    BY <2>2, FS_EmptySet, Zenon
  <2>4. vmstats \in [Events -> Nat]
    BY <2>2
  <2>5. Balance(vmstats)
    BY <2>2, <2>3 DEF Balance, InFlight, Pending, Counted, Events
  <2> QED BY <2>1, <2>4, <2>5, Zenon DEF StatsInv
<1>2. StatsInv /\ [StatsNext]_statvars => StatsInv'
  BY StatsInvNext, Zenon
<1>3. StatsInv => StatsBalance
  <2> SUFFICES ASSUME StatsInv PROVE StatsBalance
    OBVIOUS
  <2>1. TypeOK /\ SwapAccounting /\ FaultInv /\ Balance(vmstats) /\ vmstats \in [Events -> Nat]
    BY Zenon DEF StatsInv, IInv
  <2>2. pc = "unmark" => swapmap # {}
    <3> SUFFICES ASSUME pc = "unmark" PROVE swapmap # {}
      OBVIOUS
    <3>1. page \in Pages /\ InSwap(page)
      BY <2>1 DEF FaultInv, Handling
    <3> QED BY <2>1, <3>1, Zenon DEF SwapAccounting, SwappedSlots
  <2>3. Cardinality(swapmap) \in Nat /\ Cardinality(swapmap) >= Counted
    BY <2>1, <2>2, SlotsCount DEF Counted
  <2> QED BY <2>1, <2>3 DEF Balance, StatsBalance, InFlight, Pending, Counted, Events
<1> QED BY <1>1, <1>2, <1>3, PTL DEF StatsSpec
=============================================================================
