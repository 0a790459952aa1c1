------------------------------ MODULE MCMemory ------------------------------
(* Three allocators of memory, checked side by side: the frames of the     *)
(* coremap, the blocks of the kernel heap, and the segments of a program   *)
(* with the copying between them and the kernel.  A behaviour is one of    *)
(* one part; the variables of the others keep their initial values.        *)
EXTENDS Coremap, AddrSpace, CopyInOut, Kmalloc, TLC

VARIABLE which

copyvars == <<ptr, len, nul, hole>>

MemInit ==
  /\ Init /\ AsInit /\ HeapInit
  /\ \/ /\ which \in {"frames", "segments", "heap"}
        /\ ptr = 0 /\ len = 0 /\ nul = NoAddr /\ hole = NoAddr
     \/ which = "copies" /\ CopyInit

MemNext ==
  /\ UNCHANGED <<which, copyvars>>
  /\ \/ which = "frames" /\ Next /\ UNCHANGED <<asvars, kmvars>>
     \/ which = "segments" /\ AsNext /\ UNCHANGED <<vars, kmvars>>
     \/ which = "heap" /\ HeapNext /\ UNCHANGED <<vars, asvars>>

MemSpec ==
  MemInit /\ [][MemNext]_<<which, vars, asvars, kmvars, copyvars>>

\* The threads that use the heap are interchangeable.
Symmetry == Permutations(KThreads)

\* Two block sizes in a page of 8: two blocks of 4 or one of 6.  A request for 6
\* or more takes whole pages.
BlockSizes == <<4, 6>>

\* Pages of four bytes; data regions of every alignment, of up to three pages,
\* with any part of them in the file; filesz beyond memsz shows the cut in
\* segment_define.  Text goes through the same code; it is there to have one or
\* two pages in front of the data, full or not.
Headers(starts, sizes, offset) ==
  {r \in [vaddr : starts, memsz : sizes, filesz : 0 .. 10, offset : {offset}] :
     r.filesz <= r.memsz + 1}
SmallText == Headers({4, 7}, {1, 5}, 3)
SmallData == Headers(12 .. 15, 1 .. 8, 50)

=============================================================================
