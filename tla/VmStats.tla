------------------------------- MODULE VmStats -------------------------------
(***************************************************************************)
(* The counters of kern/vm/vmstats.c, hit by the steps of DemandVM.        *)
(* vmstats_hit takes a spinlock of its own and increments one counter, so  *)
(* a hit is part of the step that makes it.                                *)
(***************************************************************************)
EXTENDS DemandVM

CONSTANTS
  MaxFaults,   \* bound on the TLB faults of a behaviour
  MaxSwitches  \* bound on the TLB invalidations of a behaviour

VARIABLE vmstats   \* event -> count

Events == {"TLB_FAULT", "TLB_FAULT_FREE", "TLB_FAULT_REPLACE", "TLB_INVALIDATION",
           "TLB_RELOAD", "PAGE_FAULT_ZERO", "PAGE_FAULT_DISK", "PAGE_FAULT_ELF",
           "PAGE_FAULT_SWAP", "SWAP_WRITE"}

statvars == <<vars, vmstats>>

vmstats_hit(E) == vmstats' = [e \in Events |-> vmstats[e] + (IF e \in E THEN 1 ELSE 0)]

StatsInit == Init /\ vmstats = [e \in Events |-> 0]

\* vm_fault counts every call, the two that end the program included: a store
\* to a read-only entry and an address outside every segment.
CountFault ==
  /\ vmstats["TLB_FAULT"] < MaxFaults
  /\ \/ \E p \in Pages :
          /\ vm_fault(p)
          /\ vmstats_hit({"TLB_FAULT"} \cup (IF InMemory(p) THEN {"TLB_RELOAD"} ELSE {}))
     \/ sys__exit /\ vmstats_hit({"TLB_FAULT"})

CountInvalidation ==
  /\ vmstats["TLB_INVALIDATION"] < MaxSwitches
  /\ runprogram \/ as_activate
  /\ vmstats_hit({"TLB_INVALIDATION"})

\* Mutant: a page read from the ELF file is not counted as read from disk.
CountMap_NoDisk ==
  /\ MapPage
  /\ vmstats_hit(IF page \in ElfPages THEN {"PAGE_FAULT_ELF"} ELSE {"PAGE_FAULT_ZERO"})

\* as_load_page counts before it reads; a page outside the ELF file is zeroed.
CountMap ==
  /\ MapPage
  /\ vmstats_hit(IF page \in ElfPages THEN {"PAGE_FAULT_DISK", "PAGE_FAULT_ELF"}
                                      ELSE {"PAGE_FAULT_ZERO"})

CountSwapIn == ReadSlot /\ vmstats_hit({"PAGE_FAULT_DISK", "PAGE_FAULT_SWAP"})

CountSwapOut == (\E v \in Frames : StartSwapOut(v)) /\ vmstats_hit({"SWAP_WRITE"})

CountInsert ==
  /\ InsertEntry
  /\ vmstats_hit(IF tlb_free THEN {"TLB_FAULT_FREE"} ELSE {"TLB_FAULT_REPLACE"})

Uncounted ==
  /\ \/ \E f \in Frames : alloc_kpages(f) \/ free_kpages(f) \/ GetFree(f) \/ DropText(f)
     \/ \E i \in TlbSlots, v \in Versions : Store(i, v)
     \/ NoVictim \/ WriteSlot \/ FinishSwapOut \/ as_load_page \/ FinishSwapIn
     \/ sys__exit \/ as_destroy
  /\ UNCHANGED vmstats

StatsNext ==
  \/ CountFault
  \/ CountInvalidation
  \/ CountMap
  \/ CountSwapIn
  \/ CountSwapOut
  \/ CountInsert
  \/ Uncounted

StatsSpec == StatsInit /\ [][StatsNext]_statvars
----------------------------------------------------------------------------
(* Properties.                                                             *)

InFlight == IF pc \in {"load", "unmark", "insert"} THEN 1 ELSE 0

\* The breakdowns that vmstats_print shows add up: a disk fault is an ELF or a
\* swap fault, every TLB insertion follows exactly one reload, zeroed page or
\* disk fault, no more pages are swapped in than out, and vm_fault has counted
\* every insertion.
StatsBalance ==
  LET n == vmstats
      resolved == n["TLB_RELOAD"] + n["PAGE_FAULT_ZERO"] + n["PAGE_FAULT_DISK"]
  IN  /\ n["PAGE_FAULT_DISK"] = n["PAGE_FAULT_ELF"] + n["PAGE_FAULT_SWAP"]
      /\ n["TLB_FAULT_FREE"] + n["TLB_FAULT_REPLACE"] + InFlight = resolved
      /\ n["PAGE_FAULT_SWAP"] <= n["SWAP_WRITE"]
      /\ resolved <= n["TLB_FAULT"]

\* README.md section 7.1: an insertion counted as a replacement is made when the
\* TLB is full.
ReplaceMeansFull ==
  [][vmstats'["TLB_FAULT_REPLACE"] # vmstats["TLB_FAULT_REPLACE"]
       => \A i \in TlbSlots : tlb[i].vpn # NoPage]_statvars
==============================================================================
