------------------------------- MODULE Kmalloc -------------------------------
(***************************************************************************)
(* The subpage allocator of kern/vm/kmalloc.c.                             *)
(*                                                                         *)
(* A heap page is cut into blocks of one size.  Its pageref records the    *)
(* blocks that are free and is linked on two lists, the pages of that size *)
(* and all pages.  Pagerefs are carved out of at most NRoots pageref pages *)
(* allocated on demand.  kmalloc_spinlock protects all of it, and is given *)
(* up around every call of alloc_kpages and free_kpages: each action below *)
(* is what happens between two such points.  The build has SLOW, GUARDS    *)
(* and LABELS off.                                                         *)
(***************************************************************************)
EXTENDS Integers, Sequences, FiniteSets

CONSTANTS
  KThreads,     \* the kernel threads that allocate
  NPages,      \* pages alloc_kpages can hand out
  PageSize,
  Sizes,       \* sizes[]: the block sizes, increasing
  NRoots,      \* NUM_PAGEREFPAGES
  NPagerefs,   \* NPAGEREFS_PER_PAGE
  Requests,    \* the sizes asked for
  MaxHeld      \* bound on the blocks a thread holds

ASSUME HeapAssumption ==
  /\ NPages \in Nat /\ MaxHeld \in Nat
  /\ NRoots \in Nat \ {0} /\ NPagerefs \in Nat \ {0}
  /\ PageSize \in Nat
  /\ Sizes \in Seq(1 .. PageSize) /\ Sizes # << >>
  /\ Requests \subseteq Nat

VARIABLES
  kpages,     \* the pages alloc_kpages has left
  kheaproots, \* root -> [page, inuse, numinuse]
  pagerefs,   \* <<root, index>> -> the pageref there
  sizebases,  \* block type -> the pagerefs of that size, head first
  allbase,    \* all pagerefs in use, head first
  held,       \* what the clients have: [owner, pages, block]
  thread      \* thread -> where it is in kmalloc or kfree

kmvars == <<kpages, kheaproots, pagerefs, sizebases, allbase, held, thread>>

Pages == 1 .. NPages
NoPage == 0
Types == 1 .. Len(Sizes)
Refs == (1 .. NRoots) \X (0 .. NPagerefs - 1)
Blocks(bt) == PageSize \div Sizes[bt]

\* The block of a whole-page allocation, which has no pageref.
Whole == -1

Idle == [pc |-> "idle", bt |-> 1, page |-> NoPage, ref |-> <<1, 0>>, va |-> {}]
UnusedRef == [page |-> NoPage, bt |-> 1, free |-> << >>, nfree |-> 0]

HeapInit ==
  /\ kpages = Pages
  /\ kheaproots = [r \in 1 .. NRoots |-> [page |-> NoPage, inuse |-> {}, numinuse |-> 0]]
  /\ pagerefs = [p \in Refs |-> UnusedRef]
  /\ sizebases = [bt \in Types |-> << >>]
  /\ allbase = << >>
  /\ held = {}
  /\ thread = [t \in KThreads |-> Idle]

heapvars == <<kheaproots, pagerefs, sizebases, allbase>>

----------------------------------------------------------------------------
(* alloc_kpages and free_kpages belong to the coremap: any run of free     *)
(* pages may be handed out, and a request may be refused.                  *)
Runs(n) == {S \in {i .. i + n - 1 : i \in 1 .. NPages - n + 1} : S \subseteq kpages}

TakePages(n, S) == S \in Runs(n) /\ kpages' = kpages \ S

\* alloc_kpages returns 0.  (Its callers are written for that; in this kernel a
\* request that cannot be met mostly ends in a panic of coremap_swapout instead.)
Refuse == UNCHANGED kpages

blocktype(sz) == CHOOSE i \in Types : sz <= Sizes[i] /\ \A j \in 1 .. i - 1 : sz > Sizes[j]

Holds(t) == {h \in held : h.owner = t}
HeapBlock(t, p, b) == [owner |-> t, pages |-> {p}, block |-> b]

\* Mutant: the list head is not advanced when the page has one more block.
DoAlloc_KeepHead(t, ref, pr) ==
  /\ pagerefs' = [pagerefs EXCEPT ![ref] =
        [pr EXCEPT !.nfree = @ - 1, !.free = IF Len(@) = 2 THEN @ ELSE Tail(@)]]
  /\ held' = held \cup {HeapBlock(t, pr.page, Head(pr.free))}
  /\ thread' = [thread EXCEPT ![t] = Idle]

\* doalloc: the first block of the free list of pr is the result.
DoAlloc(t, ref, pr) ==
  /\ pagerefs' = [pagerefs EXCEPT ![ref] = [pr EXCEPT !.nfree = @ - 1, !.free = Tail(@)]]
  /\ held' = held \cup {HeapBlock(t, pr.page, Head(pr.free))}
  /\ thread' = [thread EXCEPT ![t] = Idle]

\* A fresh page: every block free, the last one at the head of the list.  It
\* goes to the front of both lists and the block wanted is taken from it.
NewHeapPage(t, ref) ==
  LET bt == thread[t].bt
      pr == [page |-> thread[t].page, bt |-> bt,
             free |-> [i \in 1 .. Blocks(bt) |-> Blocks(bt) - i], nfree |-> Blocks(bt)]
  IN /\ sizebases' = [sizebases EXCEPT ![bt] = <<ref>> \o @]
     /\ allbase' = <<ref>> \o allbase
     /\ DoAlloc(t, ref, pr)

HeapGoto(t, label) == thread' = [thread EXCEPT ![t].pc = label]

----------------------------------------------------------------------------
\* kmalloc of a size with a page of free blocks on its list.
KmallocFromPage(t, sz) ==
  LET list == sizebases[blocktype(sz)]
  IN /\ thread[t].pc = "idle"
     /\ Cardinality(Holds(t)) < MaxHeld
     /\ sz < Sizes[Len(Sizes)]
     /\ \E i \in 1 .. Len(list) :
          /\ pagerefs[list[i]].nfree > 0
          /\ \A j \in 1 .. i - 1 : pagerefs[list[j]].nfree = 0
          /\ DoAlloc(t, list[i], pagerefs[list[i]])
     /\ UNCHANGED <<kpages, kheaproots, sizebases, allbase>>

\* No page of that size has a free block: give up the lock to get a page.
KmallocNeedsPage(t, sz) ==
  /\ thread[t].pc = "idle"
  /\ Cardinality(Holds(t)) < MaxHeld
  /\ sz < Sizes[Len(Sizes)]
  /\ \A i \in 1 .. Len(sizebases[blocktype(sz)]) :
       pagerefs[sizebases[blocktype(sz)][i]].nfree = 0
  /\ thread' = [thread EXCEPT ![t] = [Idle EXCEPT !.pc = "page", !.bt = blocktype(sz)]]
  /\ UNCHANGED <<kpages, heapvars, held>>

\* LARGEST_SUBPAGE_SIZE is the last of sizes[]: that size and more take pages.
KmallocWholePages(t, sz) ==
  /\ thread[t].pc = "idle"
  /\ Cardinality(Holds(t)) < MaxHeld
  /\ sz >= Sizes[Len(Sizes)]
  /\ \/ /\ Refuse
        /\ UNCHANGED held
     \/ \E S \in Runs((sz + PageSize - 1) \div PageSize) :
          /\ TakePages((sz + PageSize - 1) \div PageSize, S)
          /\ held' = held \cup {[owner |-> t, pages |-> S, block |-> Whole]}
  /\ UNCHANGED <<heapvars, thread>>

GetPage(t) ==
  /\ thread[t].pc = "page"
  /\ \/ /\ Refuse
        /\ thread' = [thread EXCEPT ![t] = Idle]
     \/ \E p \in kpages :
          /\ TakePages(1, {p})
          /\ thread' = [thread EXCEPT ![t].page = p, ![t].pc = "ref"]
  /\ UNCHANGED <<heapvars, held>>

\* Mutant: the search does not mark the entry before the lock is given up.
AllocPageref_Late(t, r, k) ==
  IF kheaproots[r].page = NoPage
  THEN /\ thread' = [thread EXCEPT ![t].pc = "refpage", ![t].ref = <<r, k>>]
       /\ UNCHANGED <<kheaproots, pagerefs, sizebases, allbase, held>>
  ELSE /\ kheaproots' = [kheaproots EXCEPT ![r].inuse = @ \cup {k}, ![r].numinuse = @ + 1]
       /\ NewHeapPage(t, <<r, k>>)

\* Mutant: the entry is marked but not counted.
AllocPageref_NoCount(t, r, k) ==
  /\ kheaproots' = [kheaproots EXCEPT ![r].inuse = @ \cup {k}]
  /\ IF kheaproots[r].page = NoPage
     THEN /\ thread' = [thread EXCEPT ![t].pc = "refpage", ![t].ref = <<r, k>>]
          /\ UNCHANGED <<pagerefs, sizebases, allbase, held>>
     ELSE NewHeapPage(t, <<r, k>>)

\* Entry k of root r is marked; a root without its page needs one first.
AllocPageref(t, r, k) ==
  /\ kheaproots' = [kheaproots EXCEPT ![r].inuse = @ \cup {k}, ![r].numinuse = @ + 1]
  /\ IF kheaproots[r].page = NoPage
     THEN /\ thread' = [thread EXCEPT ![t].pc = "refpage", ![t].ref = <<r, k>>]
          /\ UNCHANGED <<pagerefs, sizebases, allbase, held>>
     ELSE NewHeapPage(t, <<r, k>>)

\* The first free entry of the first root that is not full; none left, and the
\* page is given back.
allocpageref(t) ==
  LET open == {r \in 1 .. NRoots : kheaproots[r].numinuse < NPagerefs}
  IN /\ thread[t].pc = "ref"
     /\ \/ /\ open = {}
           /\ thread' = [thread EXCEPT ![t].pc = "free", ![t].va = {thread[t].page}]
           /\ UNCHANGED <<heapvars, held>>
        \/ \E r \in open, k \in 0 .. NPagerefs - 1 :
             /\ \A s \in open : r <= s
             /\ k \notin kheaproots[r].inuse
             /\ 0 .. k - 1 \subseteq kheaproots[r].inuse
             /\ AllocPageref(t, r, k)
     /\ UNCHANGED kpages

GetRefPage(t) ==
  /\ thread[t].pc = "refpage"
  /\ \/ /\ Refuse
        /\ HeapGoto(t, "refback")
     \/ \E p \in kpages :
          /\ TakePages(1, {p})
          /\ thread' = [thread EXCEPT ![t].va = {p}, ![t].pc = "refback"]
  /\ UNCHANGED <<heapvars, held>>

\* Mutant: the root is not looked at again after the lock is taken back.
allocpagerefpage_Overwrite(t) ==
  LET ref == thread[t].ref
  IN /\ thread[t].pc = "refback"
     /\ \/ /\ thread[t].va # {}
           /\ kheaproots' = [kheaproots EXCEPT ![ref[1]].page = CHOOSE p \in thread[t].va : TRUE]
           /\ NewHeapPage(t, ref)
        \/ /\ thread[t].va = {}
           /\ kheaproots[ref[1]].page # NoPage
           /\ NewHeapPage(t, ref)
           /\ UNCHANGED kheaproots
        \/ /\ thread[t].va = {}
           /\ kheaproots[ref[1]].page = NoPage
           /\ thread' = [thread EXCEPT ![t].pc = "free", ![t].va = {thread[t].page}]
           /\ UNCHANGED <<heapvars, held>>
     /\ UNCHANGED kpages

\* Back with the lock.  The first to come back gives the root its page; a
\* thread that finds one there uses that, and frees its own if it has one.
\* Without any page the allocation fails, and the entry stays marked.
allocpagerefpage(t) ==
  LET ref == thread[t].ref
      page == kheaproots[ref[1]].page
  IN /\ thread[t].pc = "refback"
     /\ \/ /\ page = NoPage /\ thread[t].va # {}
           /\ kheaproots' = [kheaproots EXCEPT ![ref[1]].page = CHOOSE p \in thread[t].va : TRUE]
           /\ NewHeapPage(t, ref)
        \/ /\ page # NoPage /\ thread[t].va = {}
           /\ NewHeapPage(t, ref)
           /\ UNCHANGED kheaproots
        \/ /\ page # NoPage /\ thread[t].va # {}
           /\ HeapGoto(t, "freeown")
           /\ UNCHANGED <<heapvars, held>>
        \/ /\ page = NoPage /\ thread[t].va = {}
           /\ thread' = [thread EXCEPT ![t].pc = "free", ![t].va = {thread[t].page}]
           /\ UNCHANGED <<heapvars, held>>
     /\ UNCHANGED kpages

\* The page this thread got for the root is not needed: free it, take the lock
\* again and go on with the entry.
FreeOwnRefPage(t) ==
  /\ thread[t].pc = "freeown"
  /\ kpages' = kpages \cup thread[t].va
  /\ NewHeapPage(t, thread[t].ref)
  /\ UNCHANGED kheaproots

----------------------------------------------------------------------------
\* A list without its first link to ref.
Unlink(list, ref) ==
  LET k == CHOOSE k \in 1 .. Len(list) : list[k] = ref /\ \A j \in 1 .. k - 1 : list[j] # ref
  IN SubSeq(list, 1, k - 1) \o SubSeq(list, k + 1, Len(list))

\* Mutant: the pageref is left on the list of all pages.
remove_lists_SizeOnly(ref, bt) ==
  /\ sizebases' = [sizebases EXCEPT ![bt] = Unlink(@, ref)]
  /\ UNCHANGED allbase

remove_lists(ref, bt) ==
  /\ sizebases' = [sizebases EXCEPT ![bt] = Unlink(@, ref)]
  /\ allbase' = Unlink(allbase, ref)

\* The assertion freepageref makes of the roots it passes on its way.
RootAssertion(ref) ==
  \A r \in 1 .. ref[1] - 1 : kheaproots[r].page = NoPage => kheaproots[r].numinuse = 0

freepageref(ref) ==
  kheaproots' = [kheaproots EXCEPT ![ref[1]].inuse = @ \ {ref[2]}, ![ref[1]].numinuse = @ - 1]

\* Where subpage_kfree finds the pageref of heap page p on the list.
PlacesOf(p) ==
  {i \in 1 .. Len(allbase) : /\ pagerefs[allbase[i]].page = p
                             /\ \A j \in 1 .. i - 1 : pagerefs[allbase[j]].page # p}

\* kfree of a block: it goes to the front of its page's free list.
KfreeBlock(t, h, ref) ==
  LET pr == [pagerefs[ref] EXCEPT !.free = <<h.block>> \o @, !.nfree = @ + 1]
  IN /\ pr.nfree < Blocks(pr.bt)
     /\ pagerefs' = [pagerefs EXCEPT ![ref] = pr]
     /\ UNCHANGED <<kheaproots, sizebases, allbase, thread>>

\* The last block of the page: the page leaves both lists, and is freed once
\* the lock is given up.  What the pageref holds after that is never read.
KfreeLastBlock(t, h, ref) ==
  LET pr == [pagerefs[ref] EXCEPT !.free = <<h.block>> \o @, !.nfree = @ + 1]
  IN /\ pr.nfree = Blocks(pr.bt)
     /\ pagerefs' = [pagerefs EXCEPT ![ref] = UnusedRef]
     /\ remove_lists(ref, pr.bt)
     /\ IF RootAssertion(ref)
        THEN /\ freepageref(ref)
             /\ thread' = [thread EXCEPT ![t].pc = "free", ![t].va = {pr.page}]
        ELSE /\ HeapGoto(t, "panic")
             /\ UNCHANGED kheaproots

\* A pointer on no heap page is a whole-page allocation.
KfreeWholePages(t, h) ==
  /\ thread' = [thread EXCEPT ![t].pc = "free", ![t].va = h.pages]
  /\ UNCHANGED heapvars

kfree(t, h) ==
  /\ thread[t].pc = "idle"
  /\ \E p \in h.pages :
       /\ \A q \in h.pages : p <= q
       /\ \/ PlacesOf(p) = {} /\ KfreeWholePages(t, h)
          \/ \E i \in PlacesOf(p) : \/ KfreeBlock(t, h, allbase[i])
                                    \/ KfreeLastBlock(t, h, allbase[i])
  /\ held' = held \ {h}
  /\ UNCHANGED kpages

ReturnPages(t) ==
  /\ thread[t].pc = "free"
  /\ kpages' = kpages \cup thread[t].va
  /\ thread' = [thread EXCEPT ![t] = Idle]
  /\ UNCHANGED <<heapvars, held>>

----------------------------------------------------------------------------
HeapRunning == \A t \in KThreads : thread[t].pc # "panic"

HeapNext ==
  \/ /\ HeapRunning
     /\ \E t \in KThreads :
          \/ \E sz \in Requests :
               KmallocFromPage(t, sz) \/ KmallocNeedsPage(t, sz) \/ KmallocWholePages(t, sz)
          \/ GetPage(t) \/ allocpageref(t) \/ GetRefPage(t)
          \/ allocpagerefpage(t) \/ FreeOwnRefPage(t)
          \/ \E h \in Holds(t) : kfree(t, h)
          \/ ReturnPages(t)
  \/ ~HeapRunning /\ UNCHANGED kmvars

HeapSpec == HeapInit /\ [][HeapNext]_kmvars

----------------------------------------------------------------------------
\* What a list holds, and a list that meets nothing twice.
Elems(q) == {q[i] : i \in 1 .. Len(q)}
Once(q) == \A i, j \in 1 .. Len(q) : q[i] = q[j] => i = j

Listed == Elems(allbase)

(* The heap's state has the shape the code gives it.                       *)
HeapTypeOK ==
  /\ kpages \subseteq Pages
  /\ \A r \in 1 .. NRoots :
       /\ kheaproots[r].page \in Pages \cup {NoPage}
       /\ kheaproots[r].inuse \subseteq 0 .. NPagerefs - 1
       /\ kheaproots[r].numinuse \in 0 .. NPagerefs
  /\ \A p \in Refs : pagerefs[p].bt \in Types /\ pagerefs[p].nfree \in Nat
  /\ \A h \in held : h.owner \in KThreads /\ h.pages \subseteq Pages
  /\ \A t \in KThreads : thread[t].pc \in {"idle", "page", "ref", "refpage", "refback",
                                          "freeown", "free", "panic"}

(* checksubpage of a page: the free list starts at a block of the page,    *)
(* stays on blocks of the page, never meets a block twice and is as long   *)
(* as nfree says.                                                          *)
checksubpage(r) ==
  LET pr == pagerefs[r]
  IN /\ pr.nfree = Len(pr.free)
     /\ \A i \in 1 .. Len(pr.free) : pr.free[i] \in 0 .. Blocks(pr.bt) - 1
     /\ Once(pr.free)

(* What checksubpages asserts of the two lists, when SLOWER is compiled in.*)
checksubpages ==
  /\ \A bt \in Types : \A i \in 1 .. Len(sizebases[bt]) :
       /\ checksubpage(sizebases[bt][i])
       /\ pagerefs[sizebases[bt][i]].bt = bt
       /\ sizebases[bt][i] \in Listed
  /\ \A r \in Listed : checksubpage(r)
  /\ Cardinality(UNION {{bt} \X DOMAIN sizebases[bt] : bt \in Types}) = Len(allbase)

(* The map kheap_printstats prints of a page: '.' for a block on its free  *)
(* list, '*' for the others.                                               *)
subpage_stats(r) ==
  [i \in 0 .. Blocks(pagerefs[r].bt) - 1 |-> IF i \in Elems(pagerefs[r].free) THEN "." ELSE "*"]

(* The heap as a client sees it: no block is handed out twice, none is     *)
(* lost, and the map kheap_printstats prints shows a star for exactly the  *)
(* blocks somebody holds.  A page with no block in use is not kept.        *)
BlocksAccounted ==
  \A r \in Listed :
    LET starred == {i \in DOMAIN subpage_stats(r) : subpage_stats(r)[i] = "*"}
        owned == {h \in held : h.pages = {pagerefs[r].page}}
    IN /\ starred = {h.block : h \in owned}
       /\ Cardinality(owned) = Cardinality(starred)
       /\ starred # {}

(* The checks of the SLOWER build would never fail: whatever the order of  *)
(* the threads, the two lists hold the same pages and every free list is   *)
(* sound.                                                                  *)
HeapIsConsistent == Once(allbase) /\ checksubpages

(* Every page has one use: it is free, or a pageref page, or a heap page,  *)
(* or a whole-page allocation, or in the hands of one thread that is in    *)
(* the middle of an allocation or a release.                               *)
PagesAccounted ==
  LET whole == {h \in held : h.block = Whole}
      hands(t) == thread[t].va
                    \cup (IF thread[t].pc \in {"ref", "refpage", "refback", "freeown"}
                          THEN {thread[t].page} ELSE {})
      uses(p) == {r \in 1 .. NRoots : kheaproots[r].page = p}
      count(p) == (IF p \in kpages THEN 1 ELSE 0)
                    + Cardinality(uses(p))
                    + Cardinality({r \in Listed : pagerefs[r].page = p})
                    + Cardinality({h \in whole : p \in h.pages})
                    + Cardinality({t \in KThreads : p \in hands(t)})
  IN HeapRunning => \A p \in Pages : count(p) = 1

(* A pageref describes one page at a time: the entries on the lists and    *)
(* the entries threads are about to fill in are different entries, all of  *)
(* them marked in use, in a root that has its page when they are on a list.*)
PagerefsDistinct ==
  LET pending == {t \in KThreads : thread[t].pc \in {"refpage", "refback", "freeown"}}
  IN /\ \A r \in Listed : r[2] \in kheaproots[r[1]].inuse /\ kheaproots[r[1]].page # NoPage
     /\ \A t \in pending :
          /\ thread[t].ref \notin Listed
          /\ thread[t].ref[2] \in kheaproots[thread[t].ref[1]].inuse
          /\ \A u \in pending \ {t} : thread[u].ref # thread[t].ref
     /\ \A r \in 1 .. NRoots : kheaproots[r].numinuse = Cardinality(kheaproots[r].inuse)

(* The heap's own bookkeeping, between any two stretches of code that hold *)
(* kmalloc_spinlock: lists, free lists, pages and pagerefs all agree.      *)
HeapIsSound == HeapTypeOK /\ HeapIsConsistent /\ PagesAccounted /\ PagerefsDistinct
============================================================================
