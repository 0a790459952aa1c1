----------------------------- MODULE AddrSpace -----------------------------
(* The layout of a program's address space and the demand loading of one   *)
(* page from its ELF file: kern/vm/addrspace.c, segment.c, pt_get_index of *)
(* pt.c, and the part of load_elf and runprogram that defines the regions. *)
(*                                                                         *)
(* Module DemandVM takes the program's pages, and which of them are in the *)
(* ELF file, as given; this module shows that the address arithmetic gives *)
(* every page one entry of the page table and loads the right bytes.       *)
(*                                                                         *)
(* Addresses are byte addresses.  A byte of a page is the offset of the    *)
(* byte of the ELF file it came from, or ZeroByte.  Executables are as the *)
(* linker makes them: each region below USERSPACETOP, and no two regions,  *)
(* nor a region and the stack, on one page.                                *)
EXTENDS Integers

CONSTANTS
  PAGE_SIZE,
  USERSPACETOP,    \* also USERSTACK, the top of the stack segment
  VM_STACKPAGES,
  TextRegions,     \* first PT_LOAD headers: [vaddr, memsz, filesz, offset]
  DataRegions,     \* second PT_LOAD headers
  NULL

ASSUME AddrSpaceAssumption ==
  /\ PAGE_SIZE \in Nat \ {0}
  /\ VM_STACKPAGES \in Nat \ {0}
  /\ USERSPACETOP \in Nat
  /\ VM_STACKPAGES * PAGE_SIZE <= USERSPACETOP
  /\ USERSPACETOP % PAGE_SIZE = 0
  /\ TextRegions \cup DataRegions \subseteq
       [vaddr : Nat, memsz : Nat \ {0}, filesz : Nat, offset : Nat]

VARIABLES
  as_text, as_data, as_stack,  \* segments, or NULL
  pt_size,                     \* entries of as_ptable, 0 before as_define_pt
  fault,                       \* the last fault address that was handled
  frame                        \* the frame it got, byte by byte

asvars == <<as_text, as_data, as_stack, pt_size, fault, frame>>

ZeroByte == -1

Offset(a)     == a % PAGE_SIZE                          \* a & ~PAGE_FRAME
Base(a)       == a - Offset(a)                          \* a & PAGE_FRAME
RoundUp(a)    == Base(a + PAGE_SIZE - 1)
DivRoundUp(a) == (a + PAGE_SIZE - 1) \div PAGE_SIZE
PageOf(a)     == a \div PAGE_SIZE
MinOf(a, b)   == IF a < b THEN a ELSE b

AsInit ==
  /\ as_text = NULL /\ as_data = NULL /\ as_stack = NULL
  /\ pt_size = 0
  /\ fault = NULL
  /\ frame = NULL

----------------------------------------------------------------------------
(* Building the address space.                                             *)

\* Mutant: the ELF size is taken as it is.
segment_define_NoCut(offset, first, last, npages, elfsize) ==
  [seg_first_vaddr |-> first, seg_last_vaddr |-> last, seg_npages |-> npages,
   seg_elf_offset |-> offset, seg_elf_size |-> elfsize]

\* An ELF size beyond the memory size is cut off.
segment_define(offset, first, last, npages, elfsize) ==
  [seg_first_vaddr |-> first, seg_last_vaddr |-> last, seg_npages |-> npages,
   seg_elf_offset |-> offset, seg_elf_size |-> MinOf(elfsize, last - first)]

RegionSegment(r) ==
  segment_define(r.offset, r.vaddr, r.vaddr + r.memsz,
                 DivRoundUp(r.memsz + Offset(r.vaddr)), r.filesz)

\* What the linker guarantees of a region.
WellPlaced(r) ==
  /\ r.vaddr + r.memsz <= USERSPACETOP - VM_STACKPAGES * PAGE_SIZE
  /\ as_text # NULL => PageOf(as_text.seg_last_vaddr - 1) < PageOf(r.vaddr)

\* The first region is the text segment, the second one the data segment
\* (module Process has the panic on a third).
as_define_region(r) ==
  /\ pt_size = 0 /\ as_stack = NULL
  /\ WellPlaced(r)
  /\ \/ /\ as_text = NULL
        /\ as_text' = RegionSegment(r)
        /\ UNCHANGED as_data
     \/ /\ as_text # NULL /\ as_data = NULL
        /\ as_data' = RegionSegment(r)
        /\ UNCHANGED as_text
  /\ UNCHANGED <<as_stack, pt_size, fault, frame>>

as_define_stack ==
  /\ as_data # NULL /\ as_stack = NULL
  /\ as_stack' = segment_define(0, USERSPACETOP - VM_STACKPAGES * PAGE_SIZE,
                                USERSPACETOP, VM_STACKPAGES, 0)
  /\ UNCHANGED <<as_text, as_data, pt_size, fault, frame>>

as_define_pt ==
  /\ as_stack # NULL /\ pt_size = 0
  /\ pt_size' = as_data.seg_npages + as_text.seg_npages + as_stack.seg_npages
  /\ UNCHANGED <<as_text, as_data, as_stack, fault, frame>>

----------------------------------------------------------------------------
(* Handling a fault.                                                       *)

Within(seg, a) == a >= seg.seg_first_vaddr /\ a < seg.seg_last_vaddr

\* as_get_segment_type followed by as_get_segment; NULL for type 0.
as_get_segment(a) ==
  CASE Within(as_text, a)  -> as_text
    [] Within(as_data, a)  -> as_data
    [] Within(as_stack, a) -> as_stack
    [] OTHER -> NULL

\* Mutant: the page number is counted from the first address, not its page.
PageInSegment_FromFirst(seg, a) == PageOf(a - seg.seg_first_vaddr)

PageInSegment(seg, a) == PageOf(a - Base(seg.seg_first_vaddr))

pt_get_index(a) ==
  CASE as_get_segment(a) = as_text  -> PageInSegment(as_text, a)
    [] as_get_segment(a) = as_data  -> as_text.seg_npages + PageInSegment(as_data, a)
    [] as_get_segment(a) = as_stack -> as_data.seg_npages + as_text.seg_npages
                                         + PageInSegment(as_stack, a)

ElfEnd(seg) == seg.seg_first_vaddr + seg.seg_elf_size

as_check_in_elf(a) == a < RoundUp(ElfEnd(as_get_segment(a)))

FirstPage(seg, a) == Base(seg.seg_first_vaddr) = Base(a)
LastPage(seg, a)  == Base(ElfEnd(seg)) = Base(a)

\* Mutant: the first page is not cut off at the end of the ELF bytes.
LoadSize_WholeFirst(seg, a) ==
  CASE FirstPage(seg, a) -> PAGE_SIZE - Offset(seg.seg_first_vaddr)
    [] ~FirstPage(seg, a) /\ LastPage(seg, a) -> Offset(ElfEnd(seg))
    [] OTHER -> PAGE_SIZE

\* Mutant: the last page is read whole.
LoadSize_WholeLast(seg, a) ==
  IF FirstPage(seg, a)
  THEN MinOf(PAGE_SIZE - Offset(seg.seg_first_vaddr), seg.seg_elf_size)
  ELSE PAGE_SIZE

\* as_load_page: how much is read, from where in the file, to where in the
\* frame.
LoadSize(seg, a) ==
  CASE FirstPage(seg, a) -> MinOf(PAGE_SIZE - Offset(seg.seg_first_vaddr), seg.seg_elf_size)
    [] ~FirstPage(seg, a) /\ LastPage(seg, a) -> Offset(ElfEnd(seg))
    [] OTHER -> PAGE_SIZE

LoadOffset(seg, a) ==
  IF FirstPage(seg, a) THEN seg.seg_elf_offset
                       ELSE seg.seg_elf_offset + Base(a) - seg.seg_first_vaddr

LoadTarget(seg, a) ==
  IF FirstPage(seg, a) THEN Offset(seg.seg_first_vaddr) ELSE 0

\* The frame, cleared by coremap_getppages, after load_page.
as_load_page(seg, a) ==
  [i \in 0 .. PAGE_SIZE - 1 |->
     IF i \in LoadTarget(seg, a) .. LoadTarget(seg, a) + LoadSize(seg, a) - 1
     THEN LoadOffset(seg, a) + i - LoadTarget(seg, a)
     ELSE ZeroByte]

\* vm_fault for a page that is NOT_LOADED.
vm_fault(a) ==
  /\ pt_size # 0
  /\ as_get_segment(a) # NULL
  /\ fault' = a
  /\ frame' = IF as_get_segment(a) # as_stack /\ as_check_in_elf(a)
              THEN as_load_page(as_get_segment(a), a)
              ELSE [i \in 0 .. PAGE_SIZE - 1 |-> ZeroByte]
  /\ UNCHANGED <<as_text, as_data, as_stack, pt_size>>

AsNext ==
  \/ \E r \in IF as_text = NULL THEN TextRegions ELSE DataRegions : as_define_region(r)
  \/ as_define_stack
  \/ as_define_pt
  \/ \E a \in 0 .. USERSPACETOP - 1 : vm_fault(a)

AsSpec == AsInit /\ [][AsNext]_asvars

----------------------------------------------------------------------------
Segment == [seg_first_vaddr : Nat, seg_last_vaddr : Nat, seg_npages : Nat,
            seg_elf_offset : Nat, seg_elf_size : Nat]

\* Every variable has its type; the ELF bytes of a segment fit into it
\* (segment_define).
AsTypeOK ==
  /\ \A seg \in {as_text, as_data, as_stack} \ {NULL} :
       /\ seg \in Segment
       /\ seg.seg_elf_size <= seg.seg_last_vaddr - seg.seg_first_vaddr
  /\ pt_size \in Nat
  /\ fault \in 0 .. USERSPACETOP - 1 \cup {NULL}
  /\ frame \in [0 .. PAGE_SIZE - 1 -> Int] \cup {NULL}

\* The address space is complete; faults do not change it any more.
Complete == pt_size # 0 /\ fault = NULL

Valid == {a \in 0 .. USERSPACETOP - 1 : as_get_segment(a) # NULL}

\* pt_get_index gives the addresses of a page one entry of the page table,
\* different pages different entries, none of them outside the table that
\* as_define_pt made, and leaves no entry unused (pt_empty frees by index).
IndexesArePages ==
  Complete =>
    /\ {pt_get_index(a) : a \in Valid} = 0 .. pt_size - 1
    /\ \A a, b \in Valid :
         pt_get_index(a) = pt_get_index(b) <=> PageOf(a) = PageOf(b)

\* The byte the program must find at address a: the ELF file's, up to the end
\* of the bytes the file has for the segment, and zero elsewhere.
Reference(seg, a) ==
  IF a >= seg.seg_first_vaddr /\ a < ElfEnd(seg)
  THEN seg.seg_elf_offset + a - seg.seg_first_vaddr
  ELSE ZeroByte

\* Whichever address of a page faults first, as_check_in_elf and as_load_page
\* fill the frame with the page's initial contents: the right bytes of the
\* file at the right place, zeroes before and behind them (the bss).
PageIsLoaded ==
  fault # NULL =>
    \A i \in 0 .. PAGE_SIZE - 1 :
      frame[i] = Reference(as_get_segment(fault), Base(fault) + i)

\* What load_page reads lies inside the bytes the ELF header promises for the
\* segment, so that its panic on a short read means a truncated file; and it
\* lands inside the frame.
ReadsWithinSegment ==
  Complete =>
    \A a \in Valid : LET seg == as_get_segment(a) IN
      seg # as_stack /\ as_check_in_elf(a) =>
        /\ LoadSize(seg, a) >= 0
        /\ LoadOffset(seg, a) >= seg.seg_elf_offset
        /\ LoadOffset(seg, a) + LoadSize(seg, a) <= seg.seg_elf_offset + seg.seg_elf_size
        /\ LoadTarget(seg, a) + LoadSize(seg, a) <= PAGE_SIZE

\* What demand loading needs of the layout: the segments have the shape that
\* segment_define gives them, pt_get_index names each page once, and a fault
\* anywhere fills the frame with the page, from within the segment's bytes.
LoadIsExact == AsTypeOK /\ IndexesArePages /\ PageIsLoaded /\ ReadsWithinSegment
============================================================================
