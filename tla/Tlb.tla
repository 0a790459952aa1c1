-------------------------------- MODULE Tlb --------------------------------
(***************************************************************************)
(* The software-managed TLB, kern/vm/vm_tlb.c.  Each operation runs with   *)
(* interrupts off on the CPU whose TLB it writes (splhigh, or cm_spinlock  *)
(* held), so it is one step.                                               *)
(*                                                                         *)
(* An entry maps the virtual page vpn to a frame; dirty allows writes.     *)
(* TLBHI_INVALID(i) lies in kernel space and matches no user page, and     *)
(* TLBLO_INVALID is 0, so an invalid entry reads as frame 0.               *)
(***************************************************************************)
EXTENDS Integers

CONSTANTS
  NUM_TLB,   \* slots of the TLB (64 on the MIPS)
  NoPage     \* the vpn of an invalid entry

ASSUME TlbAssumption == NUM_TLB \in Nat \ {0}

VARIABLES
  tlb,         \* slot -> entry, the TLB of the CPU the program runs on
  tlb_victim,  \* next slot tlb_insert writes
  tlb_free     \* no slot has been written twice since the last invalidation

tlbvars == <<tlb, tlb_victim, tlb_free>>

TlbSlots == 0 .. NUM_TLB - 1

Invalid == [vpn |-> NoPage, frame |-> 0, dirty |-> FALSE]

TlbInit ==
  /\ tlb = [i \in TlbSlots |-> Invalid]
  /\ tlb_victim = 0
  /\ tlb_free = TRUE

TlbHit(p) == \E i \in TlbSlots : tlb[i].vpn = p

tlb_invalidate ==
  /\ tlb' = [i \in TlbSlots |-> Invalid]
  /\ tlb_victim' = 0
  /\ tlb_free' = TRUE

tlb_insert(p, f, ro) ==
  /\ tlb' = [tlb EXCEPT ![tlb_victim] = [vpn |-> p, frame |-> f, dirty |-> ~ro]]
  /\ tlb_victim' = (tlb_victim + 1) % NUM_TLB
  /\ tlb_free' = (tlb_free /\ tlb_victim' # 0)

\* The first slot that names frame f, if any; an invalid slot names frame 0.
FirstWithFrame(i, f) ==
  /\ tlb[i].frame = f
  /\ \A j \in TlbSlots : j < i => tlb[j].frame # f

\* Mutant: only the slots below the next victim are searched.
tlb_remove_by_paddr_Below(f) ==
  /\ tlb' = [i \in TlbSlots |->
              IF i < tlb_victim /\ FirstWithFrame(i, f) THEN Invalid ELSE tlb[i]]
  /\ UNCHANGED <<tlb_victim, tlb_free>>

tlb_remove_by_paddr(f) ==
  /\ tlb' = [i \in TlbSlots |-> IF FirstWithFrame(i, f) THEN Invalid ELSE tlb[i]]
  /\ UNCHANGED <<tlb_victim, tlb_free>>
============================================================================
