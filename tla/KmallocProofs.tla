---------------------------- MODULE KmallocProofs ----------------------------
(***************************************************************************)
(* The subpage allocator keeps its books: proofs about Kmalloc, for any    *)
(* number of threads, pages, block sizes and pageref pages.                *)
(***************************************************************************)
EXTENDS Kmalloc, TLAPS

----------------------------------------------------------------------------
(* Lists that meet no element twice.                                       *)

(* A sequence in front of which an element is put.                         *)
LEMMA Push ==
  ASSUME NEW S, NEW q \in Seq(S), NEW e \in S
  PROVE  /\ <<e>> \o q \in Seq(S) /\ Len(<<e>> \o q) = Len(q) + 1
         /\ Elems(<<e>> \o q) = {e} \cup Elems(q)
         /\ Once(q) /\ e \notin Elems(q) => Once(<<e>> \o q)
<1>0. PICK c : c = <<e>> \o q
  BY Zenon
<1>1. /\ c \in Seq(S) /\ Len(c) = Len(q) + 1 /\ Len(q) \in Nat
      /\ c[1] = e /\ \A i \in 1 .. Len(q) : c[i + 1] = q[i]
  BY <1>0
<1>2. \A i \in 1 .. Len(c) : i = 1 \/ (i - 1 \in 1 .. Len(q) /\ c[i] = q[i - 1])
  <2> TAKE i \in 1 .. Len(c)
  <2>1. CASE i # 1
    <3>1. i - 1 \in 1 .. Len(q) /\ (i - 1) + 1 = i
      BY <1>1, <2>1
    <3> QED
      BY <1>1, <3>1, Zenon
  <2> QED
    BY <2>1, Zenon
<1>3. Elems(c) = {e} \cup Elems(q)
  <2>1. ASSUME NEW x \in Elems(c) PROVE x \in {e} \cup Elems(q)
    BY <1>1, <1>2 DEF Elems
  <2>2. ASSUME NEW x \in Elems(q) PROVE x \in Elems(c)
    <3>1. PICK i \in 1 .. Len(q) : x = q[i]
      BY Zenon DEF Elems
    <3>2. i + 1 \in 1 .. Len(c) /\ c[i + 1] = x
      BY <1>1, <3>1
    <3> QED
      BY <3>2, Zenon DEF Elems
  <2>3. e \in Elems(c)
    <3>1. 1 \in 1 .. Len(c)
      BY <1>1
    <3> QED
      BY <1>1, <3>1, Zenon DEF Elems
  <2> QED
    BY <2>1, <2>2, <2>3, Zenon
<1>4. ASSUME Once(q), e \notin Elems(q) PROVE Once(c)
  <2> SUFFICES ASSUME NEW i \in 1 .. Len(c), NEW j \in 1 .. Len(c), c[i] = c[j]
               PROVE  i = j
    BY Zenon DEF Once
  <2>1. CASE i = 1 /\ j # 1
    BY <1>1, <1>2, <1>4, <2>1, Zenon DEF Elems
  <2>2. CASE i # 1 /\ j = 1
    BY <1>1, <1>2, <1>4, <2>2, Zenon DEF Elems
  <2>3. CASE i # 1 /\ j # 1
    <3>1. i - 1 = j - 1
      BY <1>2, <1>4, <2>3, Zenon DEF Once
    <3> QED
      BY <1>1, <3>1
  <2> QED
    BY <2>1, <2>2, <2>3, Zenon
<1>5. Once(q) /\ e \notin Elems(q) => Once(c)
  BY <1>4, Zenon
<1>6. /\ c \in Seq(S) /\ Len(c) = Len(q) + 1 /\ Elems(c) = {e} \cup Elems(q)
      /\ Once(q) /\ e \notin Elems(q) => Once(c)
  BY <1>1, <1>3, <1>5, Zenon
<1> QED
  BY <1>0, <1>6, Zenon

(* A sequence whose first element is taken.                                *)
LEMMA Rest ==
  ASSUME NEW S, NEW q \in Seq(S), Len(q) > 0, Once(q)
  PROVE  /\ Tail(q) \in Seq(S) /\ Len(Tail(q)) = Len(q) - 1
         /\ Head(q) \in Elems(q) /\ Head(q) \in S
         /\ Elems(Tail(q)) = Elems(q) \ {Head(q)}
         /\ Once(Tail(q))
<1> DEFINE c == Tail(q)
<1>1. /\ c \in Seq(S) /\ Len(c) = Len(q) - 1 /\ Len(q) \in Nat /\ 1 \in 1 .. Len(q)
      /\ Head(q) = q[1] /\ q[1] \in S /\ \A i \in 1 .. Len(c) : c[i] = q[i + 1]
  OBVIOUS
<1> HIDE DEF c
<1>2. \A i \in 1 .. Len(c) : i + 1 \in 1 .. Len(q) /\ c[i] = q[i + 1]
  BY <1>1
<1>3. ASSUME NEW x \in Elems(c) PROVE x \in Elems(q) \ {q[1]}
  <2>1. PICK i \in 1 .. Len(c) : x = q[i + 1]
    BY <1>1, Zenon DEF Elems
  <2>2. i + 1 \in 1 .. Len(q) /\ i + 1 # 1
    BY <1>1
  <2> QED
    BY <1>1, <2>1, <2>2, Zenon DEF Elems, Once
<1>4. ASSUME NEW x \in Elems(q) \ {q[1]} PROVE x \in Elems(c)
  <2>1. PICK i \in 1 .. Len(q) : x = q[i] /\ i # 1
    BY Zenon DEF Elems
  <2>2. i - 1 \in 1 .. Len(c) /\ (i - 1) + 1 = i
    BY <1>1, <2>1
  <2>3. c[i - 1] = x
    BY <1>1, <2>1, <2>2, Zenon
  <2> QED
    BY <2>2, <2>3, Zenon DEF Elems
<1>5. Once(c)
  <2> SUFFICES ASSUME NEW i \in 1 .. Len(c), NEW j \in 1 .. Len(c), c[i] = c[j]
               PROVE  i = j
    BY Zenon DEF Once
  <2>1. i + 1 = j + 1
    BY <1>2, Zenon DEF Once
  <2> QED
    BY <2>1
<1>6. q[1] \in Elems(q)
  BY <1>1, Zenon DEF Elems
<1> QED
  BY <1>1, <1>3, <1>4, <1>5, <1>6, Zenon DEF c

(* A sequence an element is unlinked from.                                 *)
LEMMA Unlinked ==
  ASSUME NEW S, NEW q \in Seq(S), Once(q), NEW e \in Elems(q)
  PROVE  /\ Unlink(q, e) \in Seq(S)
         /\ Elems(Unlink(q, e)) = Elems(q) \ {e}
         /\ Once(Unlink(q, e))
<1>1. PICK k \in 1 .. Len(q) : q[k] = e
  BY Zenon DEF Elems
<1>2. \A i \in 1 .. Len(q) : q[i] = e => i = k
  BY <1>1, Zenon DEF Once
<1>3. \A j \in 1 .. k - 1 : j \in 1 .. Len(q) /\ j # k
  OBVIOUS
<1>4. Unlink(q, e) = SubSeq(q, 1, k - 1) \o SubSeq(q, k + 1, Len(q))
  <2> DEFINE P(i) == q[i] = e /\ \A j \in 1 .. i - 1 : q[j] # e
  <2>1. P(k)
    BY <1>1, <1>2, <1>3, Zenon
  <2>2. \A i \in 1 .. Len(q) : P(i) => i = k
    BY <1>2, Zenon
  <2>3. (CHOOSE i \in 1 .. Len(q) : P(i)) = k
    BY <2>1, <2>2, Zenon
  <2> QED
    BY <2>3, Zenon DEF Unlink
<1> DEFINE c == Unlink(q, e)
<1>5. /\ c \in Seq(S) /\ Len(q) \in Nat /\ Len(c) = Len(q) - 1
      /\ \A i \in 1 .. Len(c) : c[i] = IF i < k THEN q[i] ELSE q[i + 1]
  <2> DEFINE a == SubSeq(q, 1, k - 1)
             b == SubSeq(q, k + 1, Len(q))
  <2>1. /\ a \in Seq(S) /\ Len(a) = k - 1
        /\ \A i \in 1 .. Len(a) : a[i] = q[i]
    BY <1>1
  <2>2. /\ b \in Seq(S) /\ Len(b) = Len(q) - k
        /\ \A i \in 1 .. Len(b) : b[i] = q[k + i]
    BY <1>1
  <2> HIDE DEF a, b
  <2>3. /\ a \o b \in Seq(S) /\ Len(a \o b) = Len(a) + Len(b)
        /\ \A i \in 1 .. Len(a) + Len(b) :
             (a \o b)[i] = IF i <= Len(a) THEN a[i] ELSE b[i - Len(a)]
    <3>1. a \in Seq(S) /\ b \in Seq(S)
      BY <2>1, <2>2, Zenon
    <3> QED
      BY <3>1
  <2>4. c = a \o b
    BY <1>4, Zenon DEF a, b
  <2> HIDE DEF c
  <2>5. Len(q) \in Nat /\ Len(c) = Len(q) - 1
    <3>1. Len(q) \in Nat /\ Len(a) + Len(b) = Len(q) - 1
      BY <1>1, <2>1, <2>2
    <3> QED
      BY <2>3, <2>4, <3>1, Zenon
  <2>6. ASSUME NEW i \in 1 .. Len(c) PROVE c[i] = IF i < k THEN q[i] ELSE q[i + 1]
    <3>1. CASE i < k
      BY <2>1, <2>2, <2>3, <2>4, <2>5, <3>1
    <3>2. CASE ~(i < k)
      <4>1. /\ i \in 1 .. Len(a) + Len(b) /\ ~(i <= Len(a))
            /\ i - Len(a) \in 1 .. Len(b) /\ k + (i - Len(a)) = i + 1
        BY <2>1, <2>2, <2>5, <3>2
      <4> QED
        BY <2>2, <2>3, <2>4, <3>2, <4>1, Zenon
    <3> QED
      BY <3>1, <3>2, Zenon
  <2> QED
    BY <2>3, <2>4, <2>5, <2>6, Zenon
<1> HIDE DEF c
<1>6. ASSUME NEW i \in 1 .. Len(c)
      PROVE  \E j \in 1 .. Len(q) : c[i] = q[j] /\ j # k /\ j = IF i < k THEN i ELSE i + 1
  BY <1>5
<1>7. ASSUME NEW x \in Elems(c) PROVE x \in Elems(q) \ {e}
  <2>1. PICK i \in 1 .. Len(c) : x = c[i]
    BY Zenon DEF Elems
  <2>2. PICK j \in 1 .. Len(q) : x = q[j] /\ j # k
    BY <1>6, <2>1, Zenon
  <2> QED
    BY <1>1, <2>2, Zenon DEF Elems, Once
<1>8. ASSUME NEW x \in Elems(q) \ {e} PROVE x \in Elems(c)
  <2>1. PICK j \in 1 .. Len(q) : x = q[j] /\ j # k
    BY <1>1, Zenon DEF Elems
  <2>2. CASE j < k
    <3>1. j \in 1 .. Len(c) /\ c[j] = x
      BY <1>5, <2>1, <2>2
    <3> QED
      BY <3>1, Zenon DEF Elems
  <2>3. CASE ~(j < k)
    <3>1. j - 1 \in 1 .. Len(c) /\ ~(j - 1 < k) /\ (j - 1) + 1 = j
      BY <1>5, <2>1, <2>3
    <3>2. c[j - 1] = x
      BY <1>5, <2>1, <3>1, Zenon
    <3> QED
      BY <3>1, <3>2, Zenon DEF Elems
  <2> QED
    BY <2>2, <2>3, Zenon
<1>9. Once(c)
  <2> SUFFICES ASSUME NEW i \in 1 .. Len(c), NEW j \in 1 .. Len(c), c[i] = c[j]
               PROVE  i = j
    BY Zenon DEF Once
  <2>1. PICK m \in 1 .. Len(q) : c[i] = q[m] /\ m # k /\ m = IF i < k THEN i ELSE i + 1
    BY <1>6, Zenon
  <2>2. PICK n \in 1 .. Len(q) : c[j] = q[n] /\ n # k /\ n = IF j < k THEN j ELSE j + 1
    BY <1>6, Zenon
  <2>3. m = n
    BY <2>1, <2>2, Zenon DEF Once
  <2> QED
    BY <1>5, <2>1, <2>2, <2>3
<1>10. Elems(c) = Elems(q) \ {e}
  BY <1>7, <1>8, Zenon
<1> QED
  BY <1>5, <1>9, <1>10, Zenon DEF c

(* The free list of a fresh page: every block once, the last one first.    *)
LEMMA FreshList ==
  ASSUME NEW n \in Nat, n > 0
  PROVE  LET q == [i \in 1 .. n |-> n - i]
         IN  q \in Seq(Nat) /\ Len(q) = n /\ Once(q) /\ Elems(q) = 0 .. n - 1 /\ Head(q) = n - 1
<1> DEFINE q == [i \in 1 .. n |-> n - i]
<1>1. q \in [1 .. n -> Nat]
  OBVIOUS
<1>2. q \in Seq(Nat) /\ Len(q) = n
  BY <1>1
<1>3. \A i \in 1 .. n : q[i] = n - i
  OBVIOUS
<1> HIDE DEF q
<1>4. Once(q)
  BY <1>2, <1>3 DEF Once
<1>5. Elems(q) = 0 .. n - 1
  <2>1. ASSUME NEW x \in Elems(q) PROVE x \in 0 .. n - 1
    BY <1>2, <1>3 DEF Elems
  <2>2. ASSUME NEW x \in 0 .. n - 1 PROVE x \in Elems(q)
    <3>1. n - x \in 1 .. n /\ n - (n - x) = x
      OBVIOUS
    <3>2. q[n - x] = x
      BY <1>3, <3>1, Zenon
    <3> QED
      BY <1>2, <3>1, <3>2, Zenon DEF Elems
  <2> QED
    BY <2>1, <2>2, Zenon
<1>6. Head(q) = n - 1
  BY <1>2, <1>3
<1> QED
  BY <1>2, <1>4, <1>5, <1>6, Zenon DEF q

----------------------------------------------------------------------------
(* The inductive invariant.                                                *)
Labels == {"idle", "page", "ref", "refpage", "refback", "freeown", "free", "panic"}

\* A thread with a page for the heap in its hands, and with an entry to fill in.
Carrying == {"ref", "refpage", "refback", "freeown"}
Pending == {"refpage", "refback", "freeown"}

PageOrNone == Pages \cup {NoPage}

Roots == [page : PageOrNone, inuse : SUBSET (0 .. NPagerefs - 1), numinuse : 0 .. NPagerefs]
Pagerefs == [page : PageOrNone, bt : Types, free : Seq(Nat), nfree : Nat]
Locals == [pc : Labels, bt : Types, page : PageOrNone, ref : Refs, va : SUBSET Pages]

Typed ==
  /\ kpages \in SUBSET Pages
  /\ kheaproots \in [1 .. NRoots -> Roots]
  /\ pagerefs \in [Refs -> Pagerefs]
  /\ sizebases \in [Types -> Seq(Refs)]
  /\ allbase \in Seq(Refs)
  /\ held \in SUBSET [owner : KThreads, pages : SUBSET Pages, block : Int]
  /\ thread \in [KThreads -> Locals]

\* What a thread has in its hands, by where it is.
ThreadOK(t) ==
  /\ thread[t].pc \in {"idle", "page", "ref", "refpage", "panic"} => thread[t].va = {}
  /\ thread[t].pc \in Carrying => thread[t].page \in Pages
  /\ thread[t].pc \in {"refback", "freeown"} =>
       thread[t].va = {} \/ \E p \in Pages : thread[t].va = {p}
  /\ thread[t].pc = "freeown" => kheaproots[thread[t].ref[1]].page # NoPage

ThreadsOK == \A t \in KThreads : ThreadOK(t)

\* The list of a size holds the pages of that size and no other.
ListsOK ==
  /\ Once(allbase)
  /\ \A bt \in Types : /\ Once(sizebases[bt])
                       /\ Elems(sizebases[bt]) = {r \in Listed : pagerefs[r].bt = bt}

\* The free list of a page is sound, and somebody holds each block not on it.
Owned(p) == {h \in held : h.pages = {p}}

Stars(pr) == (0 .. Blocks(pr.bt) - 1) \ Elems(pr.free)

FreeListOK(pr) ==
  /\ pr.nfree = Len(pr.free)
  /\ Elems(pr.free) \subseteq 0 .. Blocks(pr.bt) - 1
  /\ Once(pr.free)

PageOK(r) ==
  /\ FreeListOK(pagerefs[r])
  /\ Stars(pagerefs[r]) # {}
  /\ Stars(pagerefs[r]) = {h.block : h \in Owned(pagerefs[r].page)}
  /\ \A g, h \in Owned(pagerefs[r].page) : g.block = h.block => g = h

BlocksOK ==
  /\ \A r \in Listed : PageOK(r)
  /\ \A h \in held : h.block = Whole \/ \E r \in Listed : h.pages = {pagerefs[r].page}

\* Who uses page p, and for what.
Used(p, k, x) ==
  \/ k = "free" /\ x = 0 /\ p \in kpages
  \/ k = "root" /\ x \in 1 .. NRoots /\ kheaproots[x].page = p
  \/ k = "heap" /\ x \in Listed /\ pagerefs[x].page = p
  \/ k = "whole" /\ x \in held /\ x.block = Whole /\ p \in x.pages
  \/ k = "page" /\ x \in KThreads /\ thread[x].pc \in Carrying /\ thread[x].page = p
  \/ k = "va" /\ x \in KThreads /\ p \in thread[x].va

OnlyUse(p, k, x) == \A j, y : Used(p, j, y) <=> j = k /\ y = x

PagesOK == HeapRunning => \A p \in Pages : \E k, x : OnlyUse(p, k, x)

\* The entries on the lists and those about to be filled in are different.
RefsOK ==
  /\ \A r \in Listed : r[2] \in kheaproots[r[1]].inuse /\ kheaproots[r[1]].page # NoPage
  /\ \A t \in KThreads : thread[t].pc \in Pending =>
       /\ thread[t].ref \notin Listed
       /\ thread[t].ref[2] \in kheaproots[thread[t].ref[1]].inuse
       /\ \A u \in KThreads \ {t} : thread[u].pc \in Pending => thread[u].ref # thread[t].ref
  /\ \A r \in 1 .. NRoots : kheaproots[r].numinuse = Cardinality(kheaproots[r].inuse)

HeapInv == Typed /\ ThreadsOK /\ ListsOK /\ BlocksOK /\ PagesOK /\ RefsOK

----------------------------------------------------------------------------
(* What the proofs need of finite sets, proved at the end of this module.  *)
Pigeonhole ==
  \A n \in Nat : \A q \in Seq(Nat) : Once(q) /\ Elems(q) \subseteq 0 .. n - 1 =>
    Len(q) <= n /\ (Len(q) = n <=> Elems(q) = 0 .. n - 1)

Counting ==
  /\ Cardinality({}) = 0
  /\ \A S \in SUBSET (0 .. NPagerefs - 1) :
       /\ Cardinality(S) \in 0 .. NPagerefs
       /\ \A k \in 0 .. NPagerefs - 1 :
            /\ k \notin S => Cardinality(S \cup {k}) = Cardinality(S) + 1
            /\ k \in S => Cardinality(S \ {k}) = Cardinality(S) - 1

Least == \A S \in SUBSET Nat : S # {} => \E x \in S : \A y \in S : x <= y

----------------------------------------------------------------------------
(* A page that is used is used for that alone.                             *)
LEMMA TheUse ==
  ASSUME PagesOK, HeapRunning, NEW p \in Pages, NEW k, NEW x, Used(p, k, x)
  PROVE  OnlyUse(p, k, x)
<1>1. PICK j, y : OnlyUse(p, j, y)
  BY Zenon DEF PagesOK
<1>2. Used(p, k, x) <=> k = j /\ x = y
  BY <1>1, Zenon DEF OnlyUse
<1>3. k = j /\ x = y
  BY <1>2, Zenon
<1> QED
  BY <1>1, <1>3, Zenon

(* A listed page is a page, and no other pageref describes it.             *)
LEMMA ListedPage ==
  ASSUME Typed, BlocksOK, NEW r \in Listed
  PROVE  r \in Refs /\ pagerefs[r] \in Pagerefs /\ pagerefs[r].page \in Pages
<1>1. r \in Refs
  BY DEF Typed, Listed, Elems
<1>2. pagerefs[r] \in Pagerefs
  BY <1>1, Zenon DEF Typed
<1>3. \E b : b \in {h.block : h \in Owned(pagerefs[r].page)}
  BY Zenon DEF BlocksOK, PageOK
<1>4. PICK h \in held : h.pages = {pagerefs[r].page}
  BY <1>3, Zenon DEF Owned
<1>5. h.pages \subseteq Pages
  BY Zenon DEF Typed
<1> QED
  BY <1>1, <1>2, <1>4, <1>5, Zenon

LEMMA PageOfOne ==
  ASSUME Typed, BlocksOK, PagesOK, HeapRunning, NEW r \in Listed, NEW s \in Listed,
         pagerefs[r].page = pagerefs[s].page
  PROVE  r = s
<1>1. pagerefs[r].page \in Pages
  BY ListedPage, Zenon
<1>2. Used(pagerefs[r].page, "heap", r) /\ Used(pagerefs[r].page, "heap", s)
  BY Zenon DEF Used
<1> QED
  BY <1>1, <1>2, TheUse, ZenonT(60) DEF OnlyUse

(* The page a thread carries for the heap.                                 *)
Hand(th) == IF th.pc \in Carrying THEN {th.page} ELSE {}

Apart(A, B, C) == A \cap B = {} /\ A \cap C = {} /\ B \cap C = {}

(* The three ways a page is free or in the hands of thread t.              *)
Mine(t, p, k) ==
  \/ k = "free" /\ p \in kpages
  \/ k = "page" /\ thread[t].pc \in Carrying /\ thread[t].page = p
  \/ k = "va" /\ p \in thread[t].va

LEMMA MineOnce ==
  ASSUME PagesOK, HeapRunning, NEW t \in KThreads, NEW p \in Pages, NEW j, NEW k,
         Mine(t, p, j), Mine(t, p, k)
  PROVE  j = k
<1>1. ASSUME NEW i, Mine(t, p, i) PROVE \E x : Used(p, i, x)
  BY <1>1, Zenon DEF Mine, Used
<1>2. PICK x, y : Used(p, j, x) /\ Used(p, k, y)
  BY <1>1, Zenon
<1>3. OnlyUse(p, j, x)
  BY <1>2, TheUse, Zenon
<1>4. Used(p, k, y) <=> k = j /\ y = x
  BY <1>3, Zenon DEF OnlyUse
<1> QED
  BY <1>2, <1>4, Zenon

(* The free pages, the page a thread carries and those it has for another  *)
(* purpose are different pages.                                            *)
LEMMA HandsApart ==
  ASSUME Typed, ThreadsOK, PagesOK, HeapRunning, NEW t \in KThreads
  PROVE  Apart(kpages, Hand(thread[t]), thread[t].va)
<1> SUFFICES ASSUME NEW p PROVE /\ ~(p \in kpages /\ p \in Hand(thread[t]))
                                /\ ~(p \in kpages /\ p \in thread[t].va)
                                /\ ~(p \in Hand(thread[t]) /\ p \in thread[t].va)
  BY Zenon DEF Apart
<1>1. p \in kpages => p \in Pages /\ Mine(t, p, "free")
  BY Zenon DEF Typed, Mine
<1>2. p \in Hand(thread[t]) => p \in Pages /\ Mine(t, p, "page")
  BY Zenon DEF ThreadsOK, ThreadOK, Mine, Hand
<1>3. p \in thread[t].va => Mine(t, p, "va")
  BY Zenon DEF Mine
<1>4. "free" # "page" /\ "free" # "va" /\ "page" # "va"
  OBVIOUS
<1> QED
  BY <1>1, <1>2, <1>3, <1>4, MineOnce, Zenon

(* What becomes of the pages when a thread takes free pages, gives some    *)
(* back or shifts them from one hand to the other.                         *)
LEMMA Handover ==
  ASSUME PagesOK, HeapRunning, NEW t \in KThreads,
         \A u \in KThreads \ {t} : thread'[u] = thread[u],
         \A r \in 1 .. NRoots : (kheaproots[r].page)' = kheaproots[r].page,
         UNCHANGED <<pagerefs, allbase, held>>,
         \A p \in Pages : (\E k : Mine(t, p, k)) <=> (\E k : Mine(t, p, k)'),
         \A p \in Pages : \A j, k : Mine(t, p, j)' /\ Mine(t, p, k)' => j = k
  PROVE  PagesOK'
<1> SUFFICES ASSUME NEW p \in Pages PROVE \E k, x : OnlyUse(p, k, x)'
  BY Zenon DEF PagesOK, Pages
<1> DEFINE X(k) == IF k = "free" THEN 0 ELSE t
<1>1. \A k : Mine(t, p, k) => Used(p, k, X(k))
  BY Zenon DEF Mine, Used
<1>2. \A k : Mine(t, p, k)' => Used(p, k, X(k))'
  BY Zenon DEF Mine, Used
<1>3. \A k, x : Used(p, k, x) => (Mine(t, p, k) /\ x = X(k)) \/ Used(p, k, x)'
  BY ZenonT(60) DEF Mine, Used, Listed
<1>4. \A k, x : Used(p, k, x)' => (Mine(t, p, k)' /\ x = X(k)) \/ Used(p, k, x)
  BY ZenonT(60) DEF Mine, Used, Listed
<1>5. ASSUME NEW k, NEW x, NEW j, Used(p, k, x), Mine(t, p, j)
      PROVE  Mine(t, p, k) /\ x = X(k)
  <2>1. OnlyUse(p, j, X(j))
    BY <1>1, <1>5, TheUse, Zenon
  <2>2. Used(p, k, x) <=> k = j /\ x = X(j)
    BY <2>1, Zenon DEF OnlyUse
  <2> QED
    BY <1>5, <2>2, Zenon
<1>6. \A k : Used(p, k, X(k))' /\ Mine(t, p, k) => Mine(t, p, k)'
  BY DEF Mine, Used
<1> HIDE DEF X
<1>7. CASE \E k : Mine(t, p, k)
  <2>1. PICK k : Mine(t, p, k)'
    BY <1>7, Zenon
  <2>2. ASSUME NEW j, NEW y, Used(p, j, y)' PROVE j = k /\ y = X(k)
    <3>1. Mine(t, p, j)' /\ y = X(j)
      BY <1>4, <1>5, <1>6, <1>7, <2>2, Zenon
    <3> QED
      BY <2>1, <3>1, Zenon
  <2>3. PICK x : x = X(k)
    BY Zenon
  <2>4. \A j, y : Used(p, j, y)' <=> j = k /\ y = x
    BY <1>2, <2>1, <2>2, <2>3, Zenon
  <2>5. OnlyUse(p, k, x)'
    BY <2>4, Zenon DEF OnlyUse
  <2> QED
    BY <2>5, Zenon
<1>8. CASE ~ \E k : Mine(t, p, k)
  <2>1. PICK k, x : OnlyUse(p, k, x)
    BY Zenon DEF PagesOK
  <2>2. \A j, y : Used(p, j, y)' <=> Used(p, j, y)
    BY <1>3, <1>4, <1>8, Zenon
  <2>3. \A j, y : Used(p, j, y)' <=> j = k /\ y = x
    BY <2>1, <2>2, Zenon DEF OnlyUse
  <2>4. OnlyUse(p, k, x)'
    BY <2>3, Zenon DEF OnlyUse
  <2> QED
    BY <2>4, Zenon
<1> QED
  BY <1>7, <1>8, Zenon

(* Lists and blocks are as they were when nothing they are made of changed.*)
LEMMA ListFrame ==
  ASSUME ListsOK, BlocksOK, UNCHANGED <<pagerefs, sizebases, allbase, held>>
  PROVE  ListsOK' /\ BlocksOK'
<1>1. Listed' = Listed
  BY Zenon DEF Listed
<1>2. ListsOK'
  BY <1>1, Zenon DEF ListsOK
<1>3. \A r \in Listed : PageOK(r)' <=> PageOK(r)
  BY Zenon DEF PageOK, FreeListOK, Stars, Owned
<1>4. BlocksOK'
  BY <1>1, <1>3, Zenon DEF BlocksOK
<1> QED
  BY <1>2, <1>4, Zenon

(* The entries are as they were when a thread only goes on or gives up.    *)
LEMMA RefFrame ==
  ASSUME RefsOK, NEW t \in KThreads,
         \A u \in KThreads \ {t} : thread'[u] = thread[u],
         thread'[t].pc \in Pending => thread[t].pc \in Pending /\ thread'[t].ref = thread[t].ref,
         UNCHANGED <<kheaproots, allbase>>
  PROVE  RefsOK'
<1>1. Listed' = Listed
  BY Zenon DEF Listed
<1>2. \A u \in KThreads : thread'[u].pc \in Pending =>
        thread[u].pc \in Pending /\ thread'[u].ref = thread[u].ref
  BY Zenon
<1> QED
  BY <1>1, <1>2, Zenon DEF RefsOK

(* A thread that keeps off the lists keeps the invariant, if its own       *)
(* change is sound: the pages it had or took from the free ones are in its *)
(* hands or free again, each once.                                         *)
LEMMA Quiet ==
  ASSUME HeapInv, HeapRunning, NEW t \in KThreads,
         kpages' \in SUBSET Pages, UNCHANGED <<heapvars, held>>,
         thread' \in [KThreads -> Locals],
         \A u \in KThreads \ {t} : thread'[u] = thread[u],
         ThreadOK(t)',
         thread'[t].pc \in Pending => thread[t].pc \in Pending /\ thread'[t].ref = thread[t].ref,
         kpages' \cup Hand(thread'[t]) \cup thread'[t].va
           = kpages \cup Hand(thread[t]) \cup thread[t].va,
         Apart(kpages', Hand(thread'[t]), thread'[t].va)
  PROVE  HeapInv'
<1>1. UNCHANGED <<kheaproots, pagerefs, sizebases, allbase, held>>
  BY Zenon DEF heapvars
<1>2. Typed'
  BY <1>1, Zenon DEF HeapInv, Typed
<1>3. ThreadsOK'
  BY <1>1, ZenonT(60) DEF HeapInv, ThreadsOK, ThreadOK
<1>4. ListsOK' /\ BlocksOK'
  BY <1>1, ListFrame, Zenon DEF HeapInv
<1>5. PagesOK'
  <2>1. \A p : (\E k : Mine(t, p, k)) <=> p \in kpages \cup Hand(thread[t]) \cup thread[t].va
    BY Zenon DEF Mine, Hand
  <2>2. \A p : (\E k : Mine(t, p, k)') <=> p \in kpages' \cup Hand(thread'[t]) \cup thread'[t].va
    BY Zenon DEF Mine, Hand
  <2>3. \A p, j, k : Mine(t, p, j)' /\ Mine(t, p, k)' => j = k
    <3>1. \A p, k : Mine(t, p, k)' => \/ k = "free" /\ p \in kpages'
                                      \/ k = "page" /\ p \in Hand(thread'[t])
                                      \/ k = "va" /\ p \in thread'[t].va
      BY Zenon DEF Mine, Hand
    <3> QED
      BY <3>1 DEF Apart
  <2> QED
    BY <1>1, <2>1, <2>2, <2>3, Handover, Zenon DEF HeapInv
<1>6. RefsOK'
  BY <1>1, RefFrame, Zenon DEF HeapInv
<1> QED
  BY <1>2, <1>3, <1>4, <1>5, <1>6, Zenon DEF HeapInv

----------------------------------------------------------------------------
(* Block sizes.  A page has room for a block of every size.                *)
LEMMA BlockCount ==
  ASSUME NEW bt \in Types
  PROVE  Blocks(bt) \in Nat /\ Blocks(bt) > 0
<1>1. Sizes[bt] \in 1 .. PageSize /\ PageSize \in Nat
  BY HeapAssumption DEF Types
<1>2. ASSUME NEW a \in Nat, NEW b \in 1 .. a PROVE a \div b \in Nat /\ a \div b > 0
  OBVIOUS
<1> QED
  BY <1>1, <1>2, Zenon DEF Blocks

LEMMA IdleLocals == Idle \in Locals /\ 1 \in Types /\ <<1, 0>> \in Refs
<1>1. 1 \in Types
  BY HeapAssumption DEF Types
<1>2. <<1, 0>> \in Refs
  BY HeapAssumption DEF Refs
<1> QED
  BY <1>1, <1>2, Zenon DEF Idle, Locals, Labels, PageOrNone

(* A size below the largest has a block type.                              *)
LEMMA SizeHasType ==
  ASSUME Least, NEW sz \in Nat, sz < Sizes[Len(Sizes)]
  PROVE  blocktype(sz) \in Types
<1> DEFINE T == {i \in Types : sz <= Sizes[i]}
<1>1. Len(Sizes) \in T
  BY HeapAssumption DEF Types
<1>2. T \in SUBSET Nat
  BY DEF Types
<1>3. PICK i \in T : \A j \in T : i <= j
  BY <1>1, <1>2, Zenon DEF Least
<1>4. \A j \in 1 .. i - 1 : sz > Sizes[j]
  <2> TAKE j \in 1 .. i - 1
  <2>1. j \in Types /\ ~(i <= j)
    BY HeapAssumption, <1>3 DEF Types
  <2>2. ~(sz <= Sizes[j])
    BY <1>3, <2>1, Zenon
  <2>3. Sizes[j] \in 1 .. PageSize
    BY HeapAssumption, <2>1 DEF Types
  <2> QED
    BY HeapAssumption, <2>2, <2>3
<1>5. i \in Types /\ sz <= Sizes[i]
  BY <1>3, Zenon
<1> QED
  BY <1>4, <1>5, Zenon DEF blocktype

----------------------------------------------------------------------------
(* The steps that keep off the lists.                                      *)

LEMMA NeedsPageStep ==
  ASSUME HeapInv, HeapRunning, Least, NEW t \in KThreads, NEW sz \in Requests,
         KmallocNeedsPage(t, sz)
  PROVE  HeapInv'
<1> DEFINE th == [Idle EXCEPT !.pc = "page", !.bt = blocktype(sz)]
<1>1. blocktype(sz) \in Types
  BY HeapAssumption, SizeHasType, Zenon DEF KmallocNeedsPage
<1>2. th \in Locals /\ th.pc = "page" /\ th.va = {}
  BY <1>1, IdleLocals, Zenon DEF Locals, Labels, Idle
<1>3. thread' = [thread EXCEPT ![t] = th] /\ thread \in [KThreads -> Locals]
  BY Zenon DEF KmallocNeedsPage, HeapInv, Typed
<1> HIDE DEF th
<1>4. /\ thread' \in [KThreads -> Locals] /\ thread'[t] = th
      /\ \A u \in KThreads \ {t} : thread'[u] = thread[u]
  BY <1>2, <1>3, Zenon
<1>5. thread[t].pc = "idle" /\ thread[t].va = {} /\ UNCHANGED <<kpages, heapvars, held>>
  BY Zenon DEF KmallocNeedsPage, HeapInv, ThreadsOK, ThreadOK
<1>6. ThreadOK(t)' /\ thread'[t].pc \notin Pending
  BY <1>2, <1>4, Zenon DEF ThreadOK, Carrying, Pending
<1>7. Hand(thread[t]) = {} /\ Hand(thread'[t]) = {} /\ thread'[t].va = {}
  BY <1>2, <1>4, <1>5, Zenon DEF Hand, Carrying
<1>8. Apart(kpages', Hand(thread'[t]), thread'[t].va)
  BY <1>7, Zenon DEF Apart
<1>9. kpages' \in SUBSET Pages /\ UNCHANGED <<heapvars, held>>
  BY <1>5, Zenon DEF HeapInv, Typed
<1> QED
  BY <1>4, <1>5, <1>6, <1>7, <1>8, <1>9, Quiet, Zenon

(* A thread's own record changes and nobody else's.                        *)
LEMMA OwnChange ==
  ASSUME thread \in [KThreads -> Locals], NEW t \in KThreads, NEW th \in Locals,
         thread' = [thread EXCEPT ![t] = th]
  PROVE  /\ thread' \in [KThreads -> Locals] /\ thread'[t] = th
         /\ \A u \in KThreads \ {t} : thread'[u] = thread[u]
  OBVIOUS

LEMMA GetPageStep ==
  ASSUME HeapInv, HeapRunning, NEW t \in KThreads, GetPage(t)
  PROVE  HeapInv'
<1>1. /\ thread \in [KThreads -> Locals] /\ thread[t] \in Locals /\ thread[t].pc = "page"
      /\ thread[t].va = {} /\ UNCHANGED <<heapvars, held>> /\ kpages \in SUBSET Pages
      /\ Hand(thread[t]) = {}
  BY Zenon DEF GetPage, HeapInv, Typed, ThreadsOK, ThreadOK, Hand, Carrying
<1>2. CASE thread' = [thread EXCEPT ![t] = Idle] /\ UNCHANGED kpages
  <2>1. Idle.pc = "idle" /\ Idle.va = {}
    BY Zenon DEF Idle
  <2>2. /\ thread' \in [KThreads -> Locals] /\ thread'[t] = Idle
        /\ \A u \in KThreads \ {t} : thread'[u] = thread[u]
    BY <1>1, <1>2, IdleLocals, OwnChange, Zenon
  <2>3. ThreadOK(t)' /\ thread'[t].pc \notin Pending /\ Hand(thread'[t]) = {} /\ thread'[t].va = {}
    BY <2>1, <2>2, Zenon DEF ThreadOK, Carrying, Pending, Hand
  <2>4. Apart(kpages', Hand(thread'[t]), thread'[t].va)
    BY <2>3, Zenon DEF Apart
  <2> QED
    BY <1>1, <1>2, <2>2, <2>3, <2>4, Quiet, Zenon
<1>3. ASSUME NEW p \in kpages, kpages' = kpages \ {p},
             thread' = [thread EXCEPT ![t].page = p, ![t].pc = "ref"]
      PROVE  HeapInv'
  <2> DEFINE th == [thread[t] EXCEPT !.page = p, !.pc = "ref"]
  <2>1. th \in Locals /\ th.pc = "ref" /\ th.page = p /\ th.va = {} /\ p \in Pages
    BY <1>1, Zenon DEF Locals, Labels, PageOrNone
  <2>2. thread' = [thread EXCEPT ![t] = th]
    BY <1>1, <1>3, Zenon
  <2> HIDE DEF th
  <2>3. /\ thread' \in [KThreads -> Locals] /\ thread'[t] = th
        /\ \A u \in KThreads \ {t} : thread'[u] = thread[u]
    BY <1>1, <2>1, <2>2, OwnChange, Zenon
  <2>4. ThreadOK(t)' /\ thread'[t].pc \notin Pending /\ Hand(thread'[t]) = {p} /\ thread'[t].va = {}
    BY <2>1, <2>3, Zenon DEF ThreadOK, Carrying, Pending, Hand
  <2>5. Apart(kpages', Hand(thread'[t]), thread'[t].va)
    BY <1>3, <2>4, Zenon DEF Apart
  <2>6. kpages' \in SUBSET Pages
    BY <1>1, <1>3, Zenon
  <2>7. kpages' \cup Hand(thread'[t]) \cup thread'[t].va = kpages \cup Hand(thread[t]) \cup thread[t].va
    BY <1>1, <1>3, <2>4, Zenon
  <2> QED
    BY <1>1, <2>3, <2>4, <2>5, <2>6, <2>7, Quiet, Zenon
<1> QED
  BY <1>2, <1>3, Zenon DEF GetPage, TakePages, Refuse

LEMMA GetRefPageStep ==
  ASSUME HeapInv, HeapRunning, NEW t \in KThreads, GetRefPage(t)
  PROVE  HeapInv'
<1>1. /\ thread \in [KThreads -> Locals] /\ thread[t] \in Locals /\ thread[t].pc = "refpage"
      /\ thread[t].va = {} /\ UNCHANGED <<heapvars, held>> /\ kpages \in SUBSET Pages
      /\ Hand(thread[t]) = {thread[t].page} /\ thread[t].page \in Pages
  BY Zenon DEF GetRefPage, HeapInv, Typed, ThreadsOK, ThreadOK, Hand, Carrying
<1>2. Apart(kpages, {thread[t].page}, {})
  BY <1>1, HandsApart, Zenon DEF HeapInv
<1>3. ASSUME NEW V \in SUBSET kpages, kpages' = kpages \ V, V = {} \/ \E p \in Pages : V = {p},
             thread' = [thread EXCEPT ![t] = [thread[t] EXCEPT !.va = V, !.pc = "refback"]]
      PROVE  HeapInv'
  <2> DEFINE th == [thread[t] EXCEPT !.va = V, !.pc = "refback"]
  <2>1. /\ th \in Locals /\ th.pc = "refback" /\ th.page = thread[t].page /\ th.va = V
        /\ th.ref = thread[t].ref
    BY <1>1, Zenon DEF Locals, Labels
  <2> HIDE DEF th
  <2>2. /\ thread' \in [KThreads -> Locals] /\ thread'[t] = th
        /\ \A u \in KThreads \ {t} : thread'[u] = thread[u]
    BY <1>1, <1>3, <2>1, OwnChange, Zenon DEF th
  <2>3. ThreadOK(t)'
    BY <1>1, <1>3, <2>1, <2>2, Zenon DEF ThreadOK, Carrying
  <2>4. /\ thread[t].pc \in Pending /\ thread'[t].ref = thread[t].ref
        /\ Hand(thread'[t]) = {thread[t].page} /\ thread'[t].va = V
    BY <1>1, <2>1, <2>2, Zenon DEF Pending, Hand, Carrying
  <2>5. Apart(kpages', Hand(thread'[t]), thread'[t].va)
    BY <1>2, <1>3, <2>4, Zenon DEF Apart
  <2>6. kpages' \in SUBSET Pages
    BY <1>1, <1>3, Zenon
  <2>7. kpages' \cup Hand(thread'[t]) \cup thread'[t].va = kpages \cup Hand(thread[t]) \cup thread[t].va
    BY <1>1, <1>3, <2>4, Zenon
  <2> QED
    BY <1>1, <2>2, <2>3, <2>4, <2>5, <2>6, <2>7, Quiet, Zenon
<1>4. CASE UNCHANGED kpages /\ HeapGoto(t, "refback")
  <2>1. thread' = [thread EXCEPT ![t] = [thread[t] EXCEPT !.va = {}, !.pc = "refback"]]
    BY <1>1, <1>4, Zenon DEF HeapGoto, Locals
  <2>2. kpages' = kpages \ {} /\ {} \in SUBSET kpages
    BY <1>4, Zenon
  <2> QED
    BY <1>3, <2>1, <2>2, Zenon
<1>5. ASSUME NEW p \in kpages, kpages' = kpages \ {p},
             thread' = [thread EXCEPT ![t].va = {p}, ![t].pc = "refback"]
      PROVE  HeapInv'
  <2>1. thread' = [thread EXCEPT ![t] = [thread[t] EXCEPT !.va = {p}, !.pc = "refback"]]
    BY <1>1, <1>5, Zenon
  <2>2. p \in Pages /\ {p} \in SUBSET kpages
    BY <1>1, <1>5, Zenon
  <2> QED
    BY <1>3, <1>5, <2>1, <2>2, Zenon
<1> QED
  BY <1>4, <1>5, Zenon DEF GetRefPage, TakePages, Refuse

(* No pageref is to be had: the page is to be given back.                  *)
LEMMA GiveUpStep ==
  ASSUME HeapInv, HeapRunning, NEW t \in KThreads, thread[t].pc \in {"ref", "refback"},
         thread[t].va = {}, UNCHANGED <<kpages, heapvars, held>>,
         thread' = [thread EXCEPT ![t].pc = "free", ![t].va = {thread[t].page}]
  PROVE  HeapInv'
<1>1. /\ thread \in [KThreads -> Locals] /\ thread[t] \in Locals
      /\ UNCHANGED <<heapvars, held>> /\ UNCHANGED kpages /\ kpages \in SUBSET Pages
      /\ Hand(thread[t]) = {thread[t].page} /\ thread[t].page \in Pages
  BY Zenon DEF HeapInv, Typed, ThreadsOK, ThreadOK, Hand, Carrying
<1>2. Apart(kpages, {thread[t].page}, {})
  BY <1>1, HandsApart, Zenon DEF HeapInv
<1> DEFINE th == [thread[t] EXCEPT !.pc = "free", !.va = {thread[t].page}]
<1>3. th \in Locals /\ th.pc = "free" /\ th.va = {thread[t].page}
  BY <1>1, Zenon DEF Locals, Labels
<1>4. thread' = [thread EXCEPT ![t] = th]
  BY <1>1, Zenon
<1> HIDE DEF th
<1>5. /\ thread' \in [KThreads -> Locals] /\ thread'[t] = th
      /\ \A u \in KThreads \ {t} : thread'[u] = thread[u]
  BY <1>1, <1>3, <1>4, OwnChange, Zenon
<1>6. /\ ThreadOK(t)' /\ thread'[t].pc \notin Pending /\ Hand(thread'[t]) = {}
      /\ thread'[t].va = {thread[t].page}
  BY <1>3, <1>5, Zenon DEF ThreadOK, Carrying, Pending, Hand
<1>7. Apart(kpages', Hand(thread'[t]), thread'[t].va)
  BY <1>1, <1>2, <1>6, Zenon DEF Apart
<1>8. kpages' \cup Hand(thread'[t]) \cup thread'[t].va = kpages \cup Hand(thread[t]) \cup thread[t].va
  BY <1>1, <1>6, Zenon
<1> QED
  BY <1>1, <1>5, <1>6, <1>7, <1>8, Quiet, Zenon

(* The root has its page: the thread's own page for it is to be freed.     *)
LEMMA SpareStep ==
  ASSUME HeapInv, HeapRunning, NEW t \in KThreads, thread[t].pc = "refback",
         kheaproots[thread[t].ref[1]].page # NoPage,
         UNCHANGED <<kpages, heapvars, held>>, HeapGoto(t, "freeown")
  PROVE  HeapInv'
<1>1. /\ thread \in [KThreads -> Locals] /\ thread[t] \in Locals
      /\ UNCHANGED <<heapvars, held>> /\ UNCHANGED kpages /\ UNCHANGED kheaproots
      /\ kpages \in SUBSET Pages /\ thread[t].page \in Pages
      /\ Hand(thread[t]) = {thread[t].page}
      /\ thread[t].va = {} \/ \E p \in Pages : thread[t].va = {p}
  BY Zenon DEF HeapInv, Typed, ThreadsOK, ThreadOK, Hand, Carrying, heapvars
<1>2. Apart(kpages, Hand(thread[t]), thread[t].va)
  BY <1>1, HandsApart, Zenon DEF HeapInv
<1> DEFINE th == [thread[t] EXCEPT !.pc = "freeown"]
<1>3. /\ th \in Locals /\ th.pc = "freeown" /\ th.va = thread[t].va
      /\ th.ref = thread[t].ref /\ th.page = thread[t].page
  BY <1>1, Zenon DEF Locals, Labels
<1>4. thread' = [thread EXCEPT ![t] = th]
  BY <1>1, Zenon DEF HeapGoto
<1> HIDE DEF th
<1>5. /\ thread' \in [KThreads -> Locals] /\ thread'[t] = th
      /\ \A u \in KThreads \ {t} : thread'[u] = thread[u]
  BY <1>1, <1>3, <1>4, OwnChange, Zenon
<1>6. /\ Hand(thread'[t]) = Hand(thread[t]) /\ thread'[t].va = thread[t].va
      /\ thread[t].pc \in Pending /\ thread'[t].ref = thread[t].ref
  BY <1>1, <1>3, <1>5, Zenon DEF Pending, Hand, Carrying
<1>7. ThreadOK(t)'
  BY <1>1, <1>3, <1>5, Zenon DEF ThreadOK, Carrying
<1> QED
  BY <1>1, <1>2, <1>5, <1>6, <1>7, Quiet, Zenon

LEMMA ReturnStep ==
  ASSUME HeapInv, HeapRunning, NEW t \in KThreads, ReturnPages(t)
  PROVE  HeapInv'
<1>1. /\ thread \in [KThreads -> Locals] /\ thread[t] \in Locals /\ thread[t].pc = "free"
      /\ UNCHANGED <<heapvars, held>> /\ kpages \in SUBSET Pages
      /\ kpages' = kpages \cup thread[t].va /\ thread' = [thread EXCEPT ![t] = Idle]
      /\ Hand(thread[t]) = {} /\ thread[t].va \in SUBSET Pages
  BY Zenon DEF ReturnPages, HeapInv, Typed, Locals, Hand, Carrying
<1>2. Idle.pc = "idle" /\ Idle.va = {}
  BY Zenon DEF Idle
<1>3. /\ thread' \in [KThreads -> Locals] /\ thread'[t] = Idle
      /\ \A u \in KThreads \ {t} : thread'[u] = thread[u]
  BY <1>1, IdleLocals, OwnChange, Zenon
<1>4. ThreadOK(t)' /\ thread'[t].pc \notin Pending /\ Hand(thread'[t]) = {} /\ thread'[t].va = {}
  BY <1>2, <1>3, Zenon DEF ThreadOK, Carrying, Pending, Hand
<1>5. Apart(kpages', Hand(thread'[t]), thread'[t].va)
  BY <1>4, Zenon DEF Apart
<1>6. /\ kpages' \in SUBSET Pages
      /\ kpages' \cup Hand(thread'[t]) \cup thread'[t].va = kpages \cup Hand(thread[t]) \cup thread[t].va
  BY <1>1, <1>4, Zenon
<1> QED
  BY <1>1, <1>3, <1>4, <1>5, <1>6, Quiet, Zenon

----------------------------------------------------------------------------
(* Each page is used as it was, or has one new use.                        *)
LEMMA Reuse ==
  ASSUME PagesOK, HeapRunning,
         \A p \in Pages : \/ \A k, x : Used(p, k, x)' <=> Used(p, k, x)
                          \/ \E k, x : OnlyUse(p, k, x)'
  PROVE  PagesOK'
<1> SUFFICES ASSUME NEW p \in Pages PROVE \E k, x : OnlyUse(p, k, x)'
  BY Zenon DEF PagesOK, Pages
<1>1. CASE \A k, x : Used(p, k, x)' <=> Used(p, k, x)
  <2>1. PICK k, x : OnlyUse(p, k, x)
    BY Zenon DEF PagesOK
  <2>2. \A j, y : Used(p, j, y)' <=> j = k /\ y = x
    BY <1>1, <2>1, Zenon DEF OnlyUse
  <2>3. OnlyUse(p, k, x)'
    BY <2>2, Zenon DEF OnlyUse
  <2> QED
    BY <2>3, Zenon
<1> QED
  BY <1>1, Zenon

(* A page is used as it was if each of the six ways to use it says so.     *)
LEMMA SameUses ==
  ASSUME NEW p, p \in kpages' <=> p \in kpages,
         \A r \in 1 .. NRoots : (kheaproots'[r].page = p <=> kheaproots[r].page = p),
         \A r : (r \in Listed' /\ pagerefs'[r].page = p <=> r \in Listed /\ pagerefs[r].page = p),
         \A h : (h \in held' /\ h.block = Whole /\ p \in h.pages
                  <=> h \in held /\ h.block = Whole /\ p \in h.pages),
         \A u \in KThreads : (thread'[u].pc \in Carrying /\ thread'[u].page = p
                               <=> thread[u].pc \in Carrying /\ thread[u].page = p),
         \A u \in KThreads : (p \in thread'[u].va <=> p \in thread[u].va)
  PROVE  \A k, x : Used(p, k, x)' <=> Used(p, k, x)
<1> SUFFICES ASSUME NEW k, NEW x PROVE Used(p, k, x)' <=> Used(p, k, x)
  BY Zenon
<1>1. ASSUME Used(p, k, x) PROVE Used(p, k, x)'
  BY <1>1, Zenon DEF Used
<1>2. ASSUME Used(p, k, x)' PROVE Used(p, k, x)
  BY <1>2, Zenon DEF Used
<1> QED
  BY <1>1, <1>2, Zenon

(* What is known of a page with a given use: it has none of the others.    *)
LEMMA NotElsewhere ==
  ASSUME NEW p, NEW k, NEW x, OnlyUse(p, k, x)
  PROVE  /\ k # "free" => p \notin kpages
         /\ k # "root" => \A r \in 1 .. NRoots : kheaproots[r].page # p
         /\ k # "heap" => \A r \in Listed : pagerefs[r].page # p
         /\ k # "whole" => \A h \in held : h.block = Whole => p \notin h.pages
         /\ k # "page" => \A u \in KThreads : thread[u].pc \in Carrying => thread[u].page # p
         /\ k # "va" => \A u \in KThreads : p \notin thread[u].va
         /\ k = "root" => \A r \in 1 .. NRoots : kheaproots[r].page = p => r = x
         /\ k = "heap" => \A r \in Listed : pagerefs[r].page = p => r = x
         /\ k = "whole" => \A h \in held : h.block = Whole /\ p \in h.pages => h = x
         /\ k = "page" => \A u \in KThreads : thread[u].pc \in Carrying /\ thread[u].page = p => u = x
         /\ k = "va" => \A u \in KThreads : p \in thread[u].va => u = x
<1>1. p \in kpages => Used(p, "free", 0)
  BY Zenon DEF Used
<1>2. \A r \in 1 .. NRoots : kheaproots[r].page = p => Used(p, "root", r)
  BY Zenon DEF Used
<1>3. \A r \in Listed : pagerefs[r].page = p => Used(p, "heap", r)
  BY Zenon DEF Used
<1>4. \A h \in held : h.block = Whole /\ p \in h.pages => Used(p, "whole", h)
  BY Zenon DEF Used
<1>5. \A u \in KThreads : thread[u].pc \in Carrying /\ thread[u].page = p => Used(p, "page", u)
  BY Zenon DEF Used
<1>6. \A u \in KThreads : p \in thread[u].va => Used(p, "va", u)
  BY Zenon DEF Used
<1>7. \A j, y : Used(p, j, y) => j = k /\ y = x
  BY Zenon DEF OnlyUse
<1> QED
  BY <1>1, <1>2, <1>3, <1>4, <1>5, <1>6, <1>7

(* A page nothing happened to is as it was.                                *)
LEMMA SamePage ==
  ASSUME NEW r, PageOK(r), pagerefs'[r] = pagerefs[r],
         \A h : h \in held' /\ h.pages = {pagerefs[r].page}
                  <=> h \in held /\ h.pages = {pagerefs[r].page}
  PROVE  PageOK(r)'
<1>1. Owned(pagerefs[r].page)' = Owned(pagerefs[r].page)
  BY Zenon DEF Owned
<1>2. FreeListOK(pagerefs[r])' /\ Stars(pagerefs[r])' = Stars(pagerefs[r])
  BY Zenon DEF PageOK, FreeListOK, Stars
<1> QED
  BY <1>1, <1>2, Zenon DEF PageOK

LEMMA HeapStutter == ASSUME HeapInv, UNCHANGED kmvars PROVE HeapInv'
<1>1. UNCHANGED <<kpages, kheaproots, pagerefs, sizebases, allbase, held, thread>>
  BY Zenon DEF kmvars
<1>2. Listed' = Listed /\ HeapRunning' = HeapRunning
  BY <1>1, Zenon DEF Listed, HeapRunning
<1>3. Typed' /\ ThreadsOK' /\ RefsOK'
  BY <1>1, <1>2, Zenon DEF HeapInv, Typed, ThreadsOK, ThreadOK, RefsOK
<1>4. ListsOK' /\ BlocksOK'
  BY <1>1, ListFrame, Zenon DEF HeapInv
<1>5. PagesOK'
  <2>1. \A p, k, x : Used(p, k, x)' <=> Used(p, k, x)
    BY <1>1, <1>2, SameUses, Zenon
  <2> QED
    BY <1>2, <2>1, Reuse, Zenon DEF HeapInv, PagesOK
<1> QED
  BY <1>3, <1>4, <1>5, Zenon DEF HeapInv

(* A whole-page allocation: the run of pages it got was free.              *)
LEMMA WholeStep ==
  ASSUME HeapInv, HeapRunning, NEW t \in KThreads, NEW sz \in Requests,
         KmallocWholePages(t, sz)
  PROVE  HeapInv'
<1>1. UNCHANGED <<kheaproots, pagerefs, sizebases, allbase, thread>> /\ Listed' = Listed
  BY Zenon DEF KmallocWholePages, heapvars, Listed
<1>2. CASE UNCHANGED <<kpages, held>>
  <2>1. UNCHANGED kmvars
    BY <1>1, <1>2, Zenon DEF kmvars
  <2> QED
    BY <2>1, HeapStutter, Zenon
<1>3. ASSUME NEW S \in SUBSET kpages, kpages' = kpages \ S,
             held' = held \cup {[owner |-> t, pages |-> S, block |-> Whole]}
      PROVE  HeapInv'
  <2>1. PICK g : g = [owner |-> t, pages |-> S, block |-> Whole]
    BY Zenon
  <2>2. /\ g \in [owner : KThreads, pages : SUBSET Pages, block : Int]
        /\ g.pages = S /\ g.block = Whole /\ held' = held \cup {g}
    BY <1>3, <2>1 DEF HeapInv, Typed, Whole
  <2>3. Typed'
    BY <1>1, <1>3, <2>2, Zenon DEF HeapInv, Typed
  <2>4. ThreadsOK' /\ RefsOK' /\ ListsOK'
    BY <1>1, Zenon DEF HeapInv, ThreadsOK, ThreadOK, RefsOK, ListsOK
  <2>5. ASSUME NEW p \in S PROVE p \in Pages /\ OnlyUse(p, "free", 0)
    <3>1. p \in Pages /\ Used(p, "free", 0)
      BY Zenon DEF HeapInv, Typed, Used
    <3> QED
      BY <3>1, TheUse, Zenon DEF HeapInv
  <2>6. \A r \in Listed : pagerefs[r].page \notin S
    BY <2>5, NotElsewhere, Zenon
  <2>7. BlocksOK'
    <3>1. ASSUME NEW r \in Listed PROVE PageOK(r)'
      <4>1. g.pages # {pagerefs[r].page}
        BY <2>2, <2>6, Zenon
      <4>2. \A h : h \in held' /\ h.pages = {pagerefs[r].page}
                     <=> h \in held /\ h.pages = {pagerefs[r].page}
        BY <2>2, <4>1, Zenon
      <4> QED
        BY <1>1, <4>2, SamePage, Zenon DEF HeapInv, BlocksOK
    <3> QED
      BY <1>1, <2>2, <3>1, Zenon DEF HeapInv, BlocksOK
  <2>8. PagesOK'
    <3>1. ASSUME NEW p \in Pages, p \notin S PROVE \A k, x : Used(p, k, x)' <=> Used(p, k, x)
      <4>1. \A x : x \in held' /\ x.block = Whole /\ p \in x.pages
                     <=> x \in held /\ x.block = Whole /\ p \in x.pages
        BY <2>2, <3>1, Zenon
      <4>2. p \in kpages' <=> p \in kpages
        BY <1>3, <3>1, Zenon
      <4> QED
        BY <1>1, <4>1, <4>2, SameUses, Zenon
    <3>2. ASSUME NEW p \in S PROVE OnlyUse(p, "whole", g)'
      <4>1. \A j, y : Used(p, j, y)' => j = "whole" /\ y = g
        BY <1>1, <1>3, <2>2, <2>5, NotElsewhere, Zenon DEF Used
      <4>2. Used(p, "whole", g)'
        BY <2>2, Zenon DEF Used
      <4> QED
        BY <4>1, <4>2, Zenon DEF OnlyUse
    <3> QED
      BY <3>1, <3>2, Reuse, Zenon DEF HeapInv
  <2> QED
    BY <2>3, <2>4, <2>7, <2>8, Zenon DEF HeapInv
<1> QED
  BY <1>2, <1>3, Zenon DEF KmallocWholePages, Refuse, TakePages, Runs

----------------------------------------------------------------------------
(* The first free block of a page leaves its free list for a client.       *)
LEMMA BlockTaken ==
  ASSUME NEW pr \in Pagerefs, FreeListOK(pr), pr.nfree > 0,
         NEW qr, qr = [pr EXCEPT !.nfree = @ - 1, !.free = Tail(@)]
  PROVE  /\ qr \in Pagerefs /\ qr.page = pr.page /\ qr.bt = pr.bt
         /\ FreeListOK(qr) /\ Stars(qr) = Stars(pr) \cup {Head(pr.free)}
         /\ Head(pr.free) \in Nat /\ Head(pr.free) \notin Stars(pr)
<1>1. /\ pr.free \in Seq(Nat) /\ pr.nfree = Len(pr.free) /\ pr.bt \in Types
      /\ Once(pr.free) /\ Elems(pr.free) \subseteq 0 .. Blocks(pr.bt) - 1
  BY Zenon DEF Pagerefs, FreeListOK
<1>2. /\ Tail(pr.free) \in Seq(Nat) /\ Len(Tail(pr.free)) = Len(pr.free) - 1
      /\ Head(pr.free) \in Elems(pr.free) /\ Head(pr.free) \in Nat
      /\ Elems(Tail(pr.free)) = Elems(pr.free) \ {Head(pr.free)} /\ Once(Tail(pr.free))
  BY <1>1, Rest, Zenon
<1>3. pr.nfree \in Nat /\ pr.nfree - 1 \in Nat
  BY DEF Pagerefs
<1>4. qr = [page |-> pr.page, bt |-> pr.bt, free |-> Tail(pr.free), nfree |-> pr.nfree - 1]
  BY Zenon DEF Pagerefs
<1>5. /\ qr \in Pagerefs /\ qr.page = pr.page /\ qr.bt = pr.bt
      /\ qr.free = Tail(pr.free) /\ qr.nfree = pr.nfree - 1
  BY <1>1, <1>2, <1>3, <1>4, Zenon DEF Pagerefs
<1>6. FreeListOK(qr)
  BY <1>1, <1>2, <1>5, Zenon DEF FreeListOK
<1>7. Stars(qr) = Stars(pr) \cup {Head(pr.free)} /\ Head(pr.free) \notin Stars(pr)
  BY <1>1, <1>2, <1>5, Zenon DEF Stars
<1> QED
  BY <1>2, <1>5, <1>6, <1>7, Zenon

(* A client gets a block of page r, which was on no list of holdings.      *)
LEMMA BlockGiven ==
  ASSUME NEW r, NEW b \in Nat, NEW t, NEW pg, NEW St,
         FreeListOK(pagerefs'[r]), pagerefs'[r].page = pg, Stars(pagerefs'[r]) = St \cup {b},
         St = {h.block : h \in Owned(pg)}, b \notin St,
         \A g, h \in Owned(pg) : g.block = h.block => g = h,
         held' = held \cup {HeapBlock(t, pg, b)}
  PROVE  PageOK(r)'
<1>1. PICK g : g = HeapBlock(t, pg, b)
  BY Zenon
<1>2. g.pages = {pg} /\ g.block = b /\ held' = held \cup {g}
  BY <1>1, Zenon DEF HeapBlock
<1>3. {h \in held' : h.pages = {pg}} = Owned(pg) \cup {g}
  BY <1>2, Zenon DEF Owned
<1>4. {h.block : h \in Owned(pg) \cup {g}} = St \cup {b}
  BY <1>2
<1>5. \A e, h \in Owned(pg) \cup {g} : e.block = h.block => e = h
  BY <1>2
<1>6. (Owned(pagerefs[r].page))' = Owned(pg) \cup {g}
  BY <1>3, Zenon DEF Owned
<1>7. Stars(pagerefs[r])' = St \cup {b} /\ FreeListOK(pagerefs[r])'
  BY Zenon DEF Stars, FreeListOK
<1> QED
  BY <1>4, <1>5, <1>6, <1>7, Zenon DEF PageOK

(* kmalloc finds a page of the size with a free block.                     *)
LEMMA FromPageStep ==
  ASSUME HeapInv, HeapRunning, Least, NEW t \in KThreads, NEW sz \in Requests,
         KmallocFromPage(t, sz)
  PROVE  HeapInv'
<1> DEFINE bt == blocktype(sz)
<1>1. bt \in Types /\ sizebases[bt] \in Seq(Refs)
  BY HeapAssumption, SizeHasType, Zenon DEF KmallocFromPage, HeapInv, Typed
<1>2. PICK i \in 1 .. Len(sizebases[bt]) :
        /\ pagerefs[sizebases[bt][i]].nfree > 0
        /\ DoAlloc(t, sizebases[bt][i], pagerefs[sizebases[bt][i]])
  BY Zenon DEF KmallocFromPage
<1>3. PICK r : r = sizebases[bt][i]
  BY Zenon
<1>4. r \in Elems(sizebases[bt])
  BY <1>2, <1>3, Zenon DEF Elems
<1>5. r \in Listed /\ pagerefs[r].nfree > 0 /\ DoAlloc(t, r, pagerefs[r])
  BY <1>1, <1>2, <1>3, <1>4, Zenon DEF HeapInv, ListsOK
<1> HIDE DEF bt
<1>6. /\ r \in Refs /\ pagerefs[r] \in Pagerefs /\ pagerefs[r].page \in Pages /\ PageOK(r)
  BY <1>5, ListedPage, Zenon DEF HeapInv, BlocksOK
<1>7. PICK b : b = Head(pagerefs[r].free)
  BY Zenon
<1>8. /\ pagerefs'[r] = [pagerefs[r] EXCEPT !.nfree = @ - 1, !.free = Tail(@)]
      /\ DOMAIN pagerefs' = Refs /\ \A s \in Refs \ {r} : pagerefs'[s] = pagerefs[s]
      /\ held' = held \cup {HeapBlock(t, pagerefs[r].page, b)}
      /\ thread' = [thread EXCEPT ![t] = Idle]
  BY <1>5, <1>6, <1>7, Zenon DEF DoAlloc, HeapInv, Typed
<1>9. /\ pagerefs'[r] \in Pagerefs /\ pagerefs'[r].page = pagerefs[r].page
      /\ pagerefs'[r].bt = pagerefs[r].bt /\ FreeListOK(pagerefs'[r])
      /\ Stars(pagerefs'[r]) = Stars(pagerefs[r]) \cup {b}
      /\ b \in Nat /\ b \notin Stars(pagerefs[r])
  BY <1>5, <1>6, <1>7, <1>8, BlockTaken, Zenon DEF PageOK
<1>10. UNCHANGED <<kpages, kheaproots, sizebases, allbase>> /\ Listed' = Listed
       /\ thread[t].pc = "idle" /\ thread[t].va = {}
  BY Zenon DEF KmallocFromPage, Listed, HeapInv, ThreadsOK, ThreadOK
<1>11. /\ thread' \in [KThreads -> Locals] /\ thread'[t] = Idle
       /\ \A u \in KThreads \ {t} : thread'[u] = thread[u]
  BY <1>8, IdleLocals, OwnChange, Zenon DEF HeapInv, Typed
<1>12. Idle.pc = "idle" /\ Idle.va = {}
  BY Zenon DEF Idle
<1>13. \A s \in Refs : pagerefs'[s].page = pagerefs[s].page /\ pagerefs'[s].bt = pagerefs[s].bt
  BY <1>8, <1>9, Zenon
<1>14. Listed \subseteq Refs
  BY DEF HeapInv, Typed, Listed, Elems
<1>15. PICK g : g = HeapBlock(t, pagerefs[r].page, b)
  BY Zenon
<1>16. /\ g.pages = {pagerefs[r].page} /\ g.block = b /\ held' = held \cup {g}
       /\ g \in [owner : KThreads, pages : SUBSET Pages, block : Int] /\ b # Whole
  BY <1>6, <1>8, <1>9, <1>15 DEF HeapBlock, Whole
<1>17. Typed'
  <2>1. pagerefs' \in [Refs -> Pagerefs]
    BY <1>6, <1>8, <1>9, <1>5, Zenon DEF HeapInv, Typed, DoAlloc
  <2> QED
    BY <1>10, <1>11, <1>16, <2>1, Zenon DEF HeapInv, Typed
<1>18. ThreadsOK'
  BY <1>10, <1>11, <1>12, Zenon DEF HeapInv, ThreadsOK, ThreadOK, Carrying
<1>19. ListsOK'
  BY <1>10, <1>13, <1>14, Zenon DEF HeapInv, ListsOK
<1>20. BlocksOK'
  <2>1. PageOK(r)'
    BY <1>6, <1>8, <1>9, BlockGiven, ZenonT(60) DEF PageOK
  <2>2. ASSUME NEW s \in Listed, s # r PROVE PageOK(s)'
    <3>1. pagerefs[s].page # pagerefs[r].page
      BY <1>5, <2>2, PageOfOne, Zenon DEF HeapInv
    <3>2. \A h : h \in held' /\ h.pages = {pagerefs[s].page}
                  <=> h \in held /\ h.pages = {pagerefs[s].page}
      BY <1>16, <3>1, Zenon
    <3> QED
      BY <1>8, <1>14, <2>2, <3>2, SamePage, Zenon DEF HeapInv, BlocksOK
  <2>3. \A h \in held' : h.block = Whole \/ \E s \in Listed : h.pages = {pagerefs'[s].page}
    <3>1. \A s \in Listed : pagerefs'[s].page = pagerefs[s].page
      BY <1>13, <1>14, Zenon
    <3>2. g.pages = {pagerefs'[r].page}
      BY <1>9, <1>16, Zenon
    <3> QED
      BY <1>5, <1>16, <3>1, <3>2, Zenon DEF HeapInv, BlocksOK
  <2> QED
    BY <1>10, <2>1, <2>2, <2>3, Zenon DEF BlocksOK
<1>21. PagesOK'
  <2>1. ASSUME NEW p \in Pages PROVE \A k, x : Used(p, k, x)' <=> Used(p, k, x)
    <3>1. \A h : (h \in held' /\ h.block = Whole /\ p \in h.pages
                  <=> h \in held /\ h.block = Whole /\ p \in h.pages)
      BY <1>16, Zenon
    <3>2. \A u \in KThreads : thread'[u].va = thread[u].va
      BY <1>10, <1>11, <1>12, Zenon
    <3>3. \A u \in KThreads : (thread'[u].pc \in Carrying /\ thread'[u].page = p
                               <=> thread[u].pc \in Carrying /\ thread[u].page = p)
      BY <1>10, <1>11, <1>12 DEF Carrying
    <3>4. \A s : (s \in Listed' /\ pagerefs'[s].page = p <=> s \in Listed /\ pagerefs[s].page = p)
      BY <1>10, <1>13, <1>14, Zenon
    <3> QED
      BY <1>10, <3>1, <3>2, <3>3, <3>4, SameUses, Zenon
  <2> QED
    BY <2>1, Reuse, Zenon DEF HeapInv
<1>22. RefsOK'
  BY <1>10, <1>11, <1>12, RefFrame, Zenon DEF HeapInv, Pending
<1> QED
  BY <1>17, <1>18, <1>19, <1>20, <1>21, <1>22, Zenon DEF HeapInv

----------------------------------------------------------------------------
(* A page goes on the lists and its first block to the client.             *)

(* The page a thread carries is used for nothing else.                     *)
LEMMA CarriedPage ==
  ASSUME HeapInv, HeapRunning, NEW t \in KThreads, thread[t].pc \in Carrying
  PROVE  /\ thread[t].page \in Pages /\ OnlyUse(thread[t].page, "page", t)
         /\ Owned(thread[t].page) = {}
<1>1. PICK p : p = thread[t].page
  BY Zenon
<1>2. p \in Pages /\ Used(p, "page", t)
  BY <1>1, Zenon DEF HeapInv, ThreadsOK, ThreadOK, Used
<1>3. OnlyUse(p, "page", t)
  BY <1>2, TheUse, Zenon DEF HeapInv
<1>4. /\ \A r \in Listed : pagerefs[r].page # p
      /\ \A h \in held : h.block = Whole => p \notin h.pages
  BY <1>3, NotElsewhere
<1>5. ASSUME NEW h \in held, h.pages = {p} PROVE FALSE
  <2>1. CASE h.block = Whole
    BY <1>4, <1>5, <2>1, Zenon
  <2>2. ASSUME NEW r \in Listed, h.pages = {pagerefs[r].page} PROVE FALSE
    BY <1>4, <1>5, <2>2, Zenon
  <2> QED
    BY <2>1, <2>2, Zenon DEF HeapInv, BlocksOK
<1> QED
  BY <1>1, <1>2, <1>3, <1>5, Zenon DEF Owned

(* What NewHeapPage makes of the pageref.                                  *)
LEMMA FreshRef ==
  ASSUME HeapInv, HeapRunning, NEW t \in KThreads, thread[t].pc \in Carrying,
         NEW ref \in Refs, NewHeapPage(t, ref)
  PROVE  /\ pagerefs' \in [Refs -> Pagerefs]
         /\ \A s \in Refs \ {ref} : pagerefs'[s] = pagerefs[s]
         /\ pagerefs'[ref].page = thread[t].page /\ pagerefs'[ref].bt = thread[t].bt
         /\ \E b \in Nat : /\ held' = held \cup {HeapBlock(t, thread[t].page, b)}
                           /\ FreeListOK(pagerefs'[ref]) /\ Stars(pagerefs'[ref]) = {b}
<1> DEFINE bt == thread[t].bt
           n == Blocks(bt)
           pr == [page |-> thread[t].page, bt |-> bt, free |-> [i \in 1 .. n |-> n - i], nfree |-> n]
<1>1. bt \in Types /\ thread[t].page \in PageOrNone
  BY Zenon DEF HeapInv, Typed, Locals
<1>2. n \in Nat /\ n > 0
  BY <1>1, BlockCount, Zenon
<1>3. PICK q : q = [i \in 1 .. n |-> n - i]
  BY Zenon
<1>4. q \in Seq(Nat) /\ Len(q) = n /\ Once(q) /\ Elems(q) = 0 .. n - 1
  BY <1>2, <1>3, FreshList, Zenon
<1>5. DoAlloc(t, ref, pr)
  BY Zenon DEF NewHeapPage
<1>6. pr = [page |-> thread[t].page, bt |-> bt, free |-> q, nfree |-> n]
  BY <1>3, Zenon
<1> HIDE DEF pr
<1>7. pr.page = thread[t].page /\ pr.bt = bt /\ pr.free = q /\ pr.nfree = n
  BY <1>6, Zenon
<1> HIDE DEF n
<1>8. pr \in Pagerefs
  BY <1>1, <1>2, <1>4, <1>6, Zenon DEF Pagerefs
<1>9. FreeListOK(pr) /\ Stars(pr) = {} /\ pr.nfree > 0
  BY <1>2, <1>4, <1>7, Zenon DEF FreeListOK, Stars, n
<1>10. PICK qr : qr = [pr EXCEPT !.nfree = @ - 1, !.free = Tail(@)]
  BY Zenon
<1>11. /\ qr \in Pagerefs /\ qr.page = pr.page /\ qr.bt = pr.bt
       /\ FreeListOK(qr) /\ Stars(qr) = Stars(pr) \cup {Head(pr.free)}
       /\ Head(pr.free) \in Nat
  BY <1>8, <1>9, <1>10, BlockTaken, Zenon
<1>12. /\ pagerefs' = [pagerefs EXCEPT ![ref] = qr]
       /\ held' = held \cup {HeapBlock(t, pr.page, Head(pr.free))}
  BY <1>5, <1>10, Zenon DEF DoAlloc
<1>13. pagerefs \in [Refs -> Pagerefs]
  BY Zenon DEF HeapInv, Typed
<1>14. /\ pagerefs' \in [Refs -> Pagerefs] /\ pagerefs'[ref] = qr
       /\ \A s \in Refs \ {ref} : pagerefs'[s] = pagerefs[s]
  BY <1>11, <1>12, <1>13, Zenon
<1> QED
  BY <1>7, <1>9, <1>11, <1>12, <1>14, Zenon

(* The new page is on both lists, and its blocks are accounted for.        *)
LEMMA FreshLists ==
  ASSUME HeapInv, HeapRunning, NEW t \in KThreads, thread[t].pc \in Carrying,
         NEW ref \in Refs, ref \notin Listed, NewHeapPage(t, ref)
  PROVE  /\ allbase' \in Seq(Refs) /\ sizebases' \in [Types -> Seq(Refs)]
         /\ Listed' = Listed \cup {ref} /\ ListsOK' /\ BlocksOK'
         /\ held' \in SUBSET [owner : KThreads, pages : SUBSET Pages, block : Int]
         /\ \A h : h \in held' /\ h.block = Whole <=> h \in held /\ h.block = Whole
<1>1. PICK pg, bt : pg = thread[t].page /\ bt = thread[t].bt
  BY Zenon
<1>2. pg \in Pages /\ OnlyUse(pg, "page", t) /\ Owned(pg) = {}
  BY <1>1, CarriedPage, Zenon
<1>3. /\ \A s \in Refs \ {ref} : pagerefs'[s] = pagerefs[s]
      /\ pagerefs'[ref].page = pg /\ pagerefs'[ref].bt = bt
  BY <1>1, FreshRef, Zenon
<1>4. PICK b \in Nat : /\ held' = held \cup {HeapBlock(t, pg, b)}
                       /\ FreeListOK(pagerefs'[ref]) /\ Stars(pagerefs'[ref]) = {b}
  BY <1>1, FreshRef, ZenonT(60)
<1>5. /\ sizebases' = [sizebases EXCEPT ![bt] = <<ref>> \o @] /\ allbase' = <<ref>> \o allbase
      /\ bt \in Types /\ sizebases \in [Types -> Seq(Refs)] /\ allbase \in Seq(Refs)
  BY <1>1 DEF NewHeapPage, HeapInv, Typed, Locals
<1>6. Once(allbase) /\ \A c \in Types : /\ Once(sizebases[c])
                                        /\ Elems(sizebases[c]) = {r \in Listed : pagerefs[r].bt = c}
  BY Zenon DEF HeapInv, ListsOK
<1>7. allbase' \in Seq(Refs) /\ Listed' = Listed \cup {ref} /\ Once(allbase')
  <2>1. ref \notin Elems(allbase)
    BY Zenon DEF Listed
  <2>2. allbase' \in Seq(Refs) /\ Elems(allbase') = {ref} \cup Elems(allbase) /\ Once(allbase')
    BY <1>5, <1>6, <2>1, Push, Zenon
  <2>3. Listed' = Elems(allbase')
    BY Zenon DEF Listed, Elems
  <2> QED
    BY <2>2, <2>3, Zenon DEF Listed
<1>8. Listed \subseteq Refs
  BY DEF HeapInv, Typed, Listed, Elems
<1>9. sizebases' \in [Types -> Seq(Refs)] /\ ListsOK'
  <2>1. /\ <<ref>> \o sizebases[bt] \in Seq(Refs)
        /\ Elems(<<ref>> \o sizebases[bt]) = {ref} \cup Elems(sizebases[bt])
        /\ Once(<<ref>> \o sizebases[bt])
    BY <1>5, <1>6, Push, Zenon
  <2>2. /\ sizebases' \in [Types -> Seq(Refs)]
        /\ sizebases'[bt] = <<ref>> \o sizebases[bt]
        /\ \A c \in Types \ {bt} : sizebases'[c] = sizebases[c]
    BY <1>5, <2>1, Zenon
  <2>3. ASSUME NEW c \in Types
        PROVE  Once(sizebases'[c]) /\ Elems(sizebases'[c]) = {r \in Listed' : pagerefs'[r].bt = c}
    <3>1. CASE c = bt
      <4>1. {r \in Listed' : pagerefs'[r].bt = c} = {ref} \cup {r \in Listed : pagerefs[r].bt = c}
        BY <1>3, <1>7, <1>8, <3>1, Zenon
      <4> QED
        BY <1>6, <2>1, <2>2, <3>1, <4>1, Zenon
    <3>2. CASE c # bt
      <4>1. {r \in Listed' : pagerefs'[r].bt = c} = {r \in Listed : pagerefs[r].bt = c}
        BY <1>3, <1>7, <1>8, <3>2, Zenon
      <4> QED
        BY <1>6, <2>2, <3>2, <4>1, Zenon
    <3> QED
      BY <3>1, <3>2, Zenon
  <2>4. Once(allbase)' /\ \A c \in Types : /\ Once(sizebases[c])'
                                           /\ Elems(sizebases[c])' = {r \in Listed' : pagerefs'[r].bt = c}
    BY <1>7, <2>3, Zenon DEF Once, Elems
  <2> QED
    BY <2>2, <2>4, Zenon DEF ListsOK, Types
<1>10. PICK g : g = HeapBlock(t, pg, b)
  BY Zenon
<1>11. /\ g.pages = {pg} /\ g.block = b /\ held' = held \cup {g} /\ b # Whole
       /\ g \in [owner : KThreads, pages : SUBSET Pages, block : Int]
  BY <1>2, <1>4, <1>10 DEF HeapBlock, Whole
<1>12. BlocksOK'
  <2>1. PageOK(ref)'
    <3>1. {} = {h.block : h \in Owned(pg)} /\ {b} = {} \cup {b}
      BY <1>2, Zenon
    <3>2. \A e, h \in Owned(pg) : e.block = h.block => e = h
      BY <1>2, Zenon
    <3>3. b \notin {} /\ Stars(pagerefs'[ref]) = {} \cup {b}
      BY <1>4, <3>1, Zenon
    <3> QED
      BY <1>3, <1>4, <3>1, <3>2, <3>3, BlockGiven, Zenon
  <2>2. ASSUME NEW s \in Listed PROVE PageOK(s)' /\ pagerefs'[s] = pagerefs[s]
    <3>1. pagerefs[s].page # pg
      BY <1>2, NotElsewhere
    <3>2. \A h : h \in held' /\ h.pages = {pagerefs[s].page}
                  <=> h \in held /\ h.pages = {pagerefs[s].page}
      BY <1>11, <3>1, Zenon
    <3>3. pagerefs'[s] = pagerefs[s]
      BY <1>3, <1>8, Zenon
    <3> QED
      BY <3>2, <3>3, SamePage, Zenon DEF HeapInv, BlocksOK
  <2>3. \A h \in held' : h.block = Whole \/ \E s \in Listed' : h.pages = {pagerefs'[s].page}
    <3>1. g.pages = {pagerefs'[ref].page} /\ ref \in Listed'
      BY <1>3, <1>7, <1>11, Zenon
    <3>2. \A s \in Listed : s \in Listed' /\ pagerefs'[s].page = pagerefs[s].page
      BY <1>7, <2>2, Zenon
    <3> QED
      BY <1>11, <3>1, <3>2, Zenon DEF HeapInv, BlocksOK
  <2>4. \A s \in Listed' : PageOK(s)'
    BY <1>7, <2>1, <2>2, Zenon
  <2> QED
    BY <2>3, <2>4, Zenon DEF BlocksOK
<1>13. held' \in SUBSET [owner : KThreads, pages : SUBSET Pages, block : Int]
  BY <1>11, Zenon DEF HeapInv, Typed
<1>14. \A h : h \in held' /\ h.block = Whole <=> h \in held /\ h.block = Whole
  BY <1>11, Zenon
<1> QED
  BY <1>7, <1>9, <1>12, <1>13, <1>14, Zenon

(* Where a page of V went: to the free pages or to one root.               *)
Placed(p) ==
  \/ p \in kpages /\ \A r \in 1 .. NRoots : kheaproots[r].page # p
  \/ p \notin kpages /\ \E s \in 1 .. NRoots : \A r \in 1 .. NRoots : kheaproots[r].page = p <=> r = s

(* The pages when a thread's page goes on the lists and what else it had   *)
(* to the free pages or to a root.                                         *)
LEMMA FreshPages ==
  ASSUME HeapInv, HeapRunning, NEW t \in KThreads, thread[t].pc \in Carrying,
         NEW ref \in Refs, ref \notin Listed, NewHeapPage(t, ref),
         thread'[t] = Idle, \A u \in KThreads \ {t} : thread'[u] = thread[u],
         \A p \in thread[t].va : Placed(p)',
         \A p \in Pages \ thread[t].va :
            /\ p \in kpages' <=> p \in kpages
            /\ \A r \in 1 .. NRoots : kheaproots'[r].page = p <=> kheaproots[r].page = p
  PROVE  PagesOK'
<1>1. PICK pg : pg = thread[t].page
  BY Zenon
<1>2. pg \in Pages /\ OnlyUse(pg, "page", t)
  BY <1>1, CarriedPage, Zenon
<1>3. /\ \A s \in Refs \ {ref} : pagerefs'[s] = pagerefs[s]
      /\ pagerefs'[ref].page = pg
  BY <1>1, FreshRef, Zenon
<1>4. /\ Listed' = Listed \cup {ref}
      /\ \A h : h \in held' /\ h.block = Whole <=> h \in held /\ h.block = Whole
  BY FreshLists, Zenon
<1>5. Listed \subseteq Refs
  BY DEF HeapInv, Typed, Listed, Elems
<1>6. Idle.pc \notin Carrying /\ Idle.va = {}
  BY Zenon DEF Idle, Carrying
<1>7. \A s \in Listed : pagerefs'[s].page = pagerefs[s].page
  BY <1>3, <1>5, Zenon
<1>8. /\ pg \notin kpages /\ \A r \in 1 .. NRoots : kheaproots[r].page # pg
      /\ \A r \in Listed : pagerefs[r].page # pg
      /\ \A h \in held : h.block = Whole => pg \notin h.pages
      /\ \A u \in KThreads : thread[u].pc \in Carrying /\ thread[u].page = pg => u = t
      /\ \A u \in KThreads : pg \notin thread[u].va
  BY <1>2, NotElsewhere
<1>9. OnlyUse(pg, "heap", ref)'
  <2>1. Used(pg, "heap", ref)'
    BY <1>3, <1>4, Zenon DEF Used
  <2>2. pg \in Pages \ thread[t].va
    BY <1>2, <1>8, Zenon
  <2>3. ASSUME NEW j, NEW y, Used(pg, j, y)' PROVE j = "heap" /\ y = ref
    <3>1. pg \notin kpages' /\ \A r \in 1 .. NRoots : kheaproots'[r].page # pg
      BY <1>8, <2>2, Zenon
    <3>2. \A s \in Listed' : pagerefs'[s].page = pg => s = ref
      BY <1>4, <1>7, <1>8, Zenon
    <3>3. \A h \in held' : h.block = Whole => pg \notin h.pages
      BY <1>4, <1>8, Zenon
    <3>4. \A u \in KThreads : ~(thread'[u].pc \in Carrying /\ thread'[u].page = pg)
      BY <1>6, <1>8
    <3>5. \A u \in KThreads : pg \notin thread'[u].va
      BY <1>6, <1>8, Zenon
    <3> QED
      BY <2>3, <3>1, <3>2, <3>3, <3>4, <3>5, Zenon DEF Used
  <2> QED
    BY <2>1, <2>3, Zenon DEF OnlyUse
<1>10. ASSUME NEW p \in thread[t].va PROVE \E k, x : OnlyUse(p, k, x)'
  <2>1. p \in Pages /\ Used(p, "va", t)
    BY Zenon DEF HeapInv, Typed, Locals, Used
  <2>2. OnlyUse(p, "va", t)
    BY <2>1, TheUse, Zenon DEF HeapInv
  <2>3. /\ \A r \in Listed : pagerefs[r].page # p
        /\ \A h \in held : h.block = Whole => p \notin h.pages
        /\ \A u \in KThreads : thread[u].pc \in Carrying => thread[u].page # p
        /\ \A u \in KThreads : p \in thread[u].va => u = t
    BY <2>2, NotElsewhere, Zenon
  <2>4. p # pg
    BY <1>8, Zenon
  <2>5. ASSUME NEW j, NEW y, Used(p, j, y)'
        PROVE  \/ j = "free" /\ y = 0 /\ p \in kpages'
               \/ j = "root" /\ y \in 1 .. NRoots /\ kheaproots'[y].page = p
    <3>1. \A s \in Listed' : pagerefs'[s].page # p
      BY <1>3, <1>4, <1>7, <2>3, <2>4, Zenon
    <3>2. \A h \in held' : h.block = Whole => p \notin h.pages
      BY <1>4, <2>3, Zenon
    <3>3. \A u \in KThreads : ~(thread'[u].pc \in Carrying /\ thread'[u].page = p)
      BY <1>6, <2>3
    <3>4. \A u \in KThreads : p \notin thread'[u].va
      BY <1>6, <2>3, Zenon
    <3> QED
      BY <2>5, <3>1, <3>2, <3>3, <3>4, Zenon DEF Used
  <2>6. Placed(p)'
    BY Zenon
  <2>7. CASE p \in kpages' /\ \A r \in 1 .. NRoots : kheaproots'[r].page # p
    <3>1. Used(p, "free", 0)'
      BY <2>7, Zenon DEF Used
    <3>2. OnlyUse(p, "free", 0)'
      BY <2>5, <2>7, <3>1, Zenon DEF OnlyUse
    <3> QED
      BY <3>2, Zenon
  <2>8. ASSUME p \notin kpages', NEW s \in 1 .. NRoots,
               \A r \in 1 .. NRoots : kheaproots'[r].page = p <=> r = s
        PROVE  \E k, x : OnlyUse(p, k, x)'
    <3>1. Used(p, "root", s)'
      BY <2>8, Zenon DEF Used
    <3>2. OnlyUse(p, "root", s)'
      BY <2>5, <2>8, <3>1, Zenon DEF OnlyUse
    <3> QED
      BY <3>2, Zenon
  <2> QED
    BY <2>6, <2>7, <2>8, Zenon DEF Placed
<1>11. ASSUME NEW p \in Pages, p # pg, p \notin thread[t].va
       PROVE  \A k, x : Used(p, k, x)' <=> Used(p, k, x)
  <2>1. \A s : (s \in Listed' /\ pagerefs'[s].page = p <=> s \in Listed /\ pagerefs[s].page = p)
    BY <1>3, <1>4, <1>7, <1>11, Zenon
  <2>2. \A h : (h \in held' /\ h.block = Whole /\ p \in h.pages
                <=> h \in held /\ h.block = Whole /\ p \in h.pages)
    BY <1>4, Zenon
  <2>3. \A u \in KThreads : (thread'[u].pc \in Carrying /\ thread'[u].page = p
                             <=> thread[u].pc \in Carrying /\ thread[u].page = p)
    BY <1>1, <1>6, <1>11, Zenon
  <2>4. \A u \in KThreads : (p \in thread'[u].va <=> p \in thread[u].va)
    BY <1>6, <1>11, Zenon
  <2>5. /\ p \in kpages' <=> p \in kpages
        /\ \A r \in 1 .. NRoots : kheaproots'[r].page = p <=> kheaproots[r].page = p
    BY <1>11, Zenon
  <2> QED
    BY <2>1, <2>2, <2>3, <2>4, <2>5, SameUses, Zenon
<1> QED
  BY <1>9, <1>10, <1>11, Reuse, Zenon DEF HeapInv

(* An entry is filled in: the roots have kept what they had, the entry is  *)
(* marked in a root with a page, and no other thread is about to use it.   *)
LEMMA Filled ==
  ASSUME HeapInv, HeapRunning, NEW t \in KThreads, thread[t].pc \in Carrying,
         NEW ref \in Refs, ref \notin Listed, NewHeapPage(t, ref),
         \A p \in thread[t].va : Placed(p)',
         \A p \in Pages \ thread[t].va :
            /\ p \in kpages' <=> p \in kpages
            /\ \A r \in 1 .. NRoots : kheaproots'[r].page = p <=> kheaproots[r].page = p,
         kpages' \in SUBSET Pages, kheaproots' \in [1 .. NRoots -> Roots],
         \A r \in 1 .. NRoots :
            /\ kheaproots[r].inuse \subseteq kheaproots'[r].inuse
            /\ kheaproots[r].page # NoPage => kheaproots'[r].page # NoPage
            /\ kheaproots'[r].numinuse = Cardinality(kheaproots'[r].inuse),
         ref[2] \in kheaproots'[ref[1]].inuse, kheaproots'[ref[1]].page # NoPage,
         \A u \in KThreads \ {t} : thread[u].pc \in Pending => thread[u].ref # ref
  PROVE  HeapInv'
<1>1. /\ thread' \in [KThreads -> Locals] /\ thread'[t] = Idle
      /\ \A u \in KThreads \ {t} : thread'[u] = thread[u]
  <2>1. thread' = [thread EXCEPT ![t] = Idle]
    BY Zenon DEF NewHeapPage, DoAlloc
  <2> QED
    BY <2>1, IdleLocals, OwnChange, Zenon DEF HeapInv, Typed
<1>2. PagesOK'
  BY <1>1, FreshPages, Zenon
<1>3. /\ allbase' \in Seq(Refs) /\ sizebases' \in [Types -> Seq(Refs)]
      /\ Listed' = Listed \cup {ref} /\ ListsOK' /\ BlocksOK'
      /\ held' \in SUBSET [owner : KThreads, pages : SUBSET Pages, block : Int]
  BY FreshLists, Zenon
<1>4. pagerefs' \in [Refs -> Pagerefs]
  BY FreshRef, Zenon
<1>5. Typed'
  BY <1>1, <1>3, <1>4, Zenon DEF Typed, Roots, Pagerefs, Locals, Refs, Types, Pages
<1>6. Listed \subseteq Refs
  BY DEF HeapInv, Typed, Listed, Elems
<1>7. \A s \in Refs : s[1] \in 1 .. NRoots
  BY Zenon DEF Refs
<1>8. \A u \in KThreads : thread[u].ref \in Refs
  BY Zenon DEF HeapInv, Typed, Locals
<1>9. ThreadsOK'
  <2>1. ThreadOK(t)'
    BY <1>1 DEF ThreadOK, Idle, Carrying
  <2>2. ASSUME NEW u \in KThreads \ {t} PROVE ThreadOK(u)'
    <3>1. ThreadOK(u) /\ thread'[u] = thread[u] /\ thread[u].ref[1] \in 1 .. NRoots
      BY <1>1, <1>7, <1>8, Zenon DEF HeapInv, ThreadsOK
    <3> QED
      BY <3>1, Zenon DEF ThreadOK
  <2> QED
    BY <2>1, <2>2, Zenon DEF ThreadsOK
<1>10. RefsOK'
  <2>1. Idle.pc \notin Pending
    BY Zenon DEF Idle, Pending
  <2>2. ASSUME NEW s \in Listed'
        PROVE  s[2] \in kheaproots'[s[1]].inuse /\ kheaproots'[s[1]].page # NoPage
    <3>1. CASE s = ref
      BY <3>1, Zenon
    <3>2. CASE s \in Listed
      BY <1>6, <1>7, <3>2, Zenon DEF HeapInv, RefsOK
    <3> QED
      BY <1>3, <3>1, <3>2, Zenon
  <2>3. ASSUME NEW u \in KThreads, thread'[u].pc \in Pending
        PROVE  /\ thread'[u].ref \notin Listed'
               /\ thread'[u].ref[2] \in kheaproots'[thread'[u].ref[1]].inuse
               /\ \A v \in KThreads \ {u} : thread'[v].pc \in Pending => thread'[v].ref # thread'[u].ref
    <3>1. u # t /\ thread'[u] = thread[u] /\ thread[u].pc \in Pending
      BY <1>1, <2>1, <2>3, Zenon
    <3>2. \A v \in KThreads : thread'[v].pc \in Pending => thread'[v] = thread[v]
      BY <1>1, <2>1, Zenon
    <3>3. thread[u].ref \notin Listed' /\ thread[u].ref[1] \in 1 .. NRoots
      BY <1>3, <1>7, <1>8, <3>1, Zenon DEF HeapInv, RefsOK
    <3>4. thread[u].ref[2] \in kheaproots'[thread[u].ref[1]].inuse
      BY <3>1, <3>3, Zenon DEF HeapInv, RefsOK
    <3>5. \A v \in KThreads \ {u} : thread[v].pc \in Pending => thread[v].ref # thread[u].ref
      BY <3>1, Zenon DEF HeapInv, RefsOK
    <3> QED
      BY <3>1, <3>2, <3>3, <3>4, <3>5, Zenon
  <2> QED
    BY <2>2, <2>3, Zenon DEF RefsOK
<1> QED
  BY <1>2, <1>3, <1>5, <1>9, <1>10, Zenon DEF HeapInv

----------------------------------------------------------------------------
(* The steps that fill in or reserve an entry.                             *)

(* What marking entry k makes of the roots.                                *)
LEMMA Marked ==
  ASSUME Counting, Typed, RefsOK, NEW r \in 1 .. NRoots, NEW k \in 0 .. NPagerefs - 1,
         k \notin kheaproots[r].inuse,
         kheaproots' = [kheaproots EXCEPT ![r].inuse = @ \cup {k}, ![r].numinuse = @ + 1]
  PROVE  /\ kheaproots' \in [1 .. NRoots -> Roots]
         /\ kheaproots'[r].inuse = kheaproots[r].inuse \cup {k}
         /\ \A s \in 1 .. NRoots \ {r} : kheaproots'[s] = kheaproots[s]
         /\ \A s \in 1 .. NRoots :
              /\ kheaproots[s].inuse \subseteq kheaproots'[s].inuse
              /\ kheaproots'[s].page = kheaproots[s].page
              /\ kheaproots'[s].numinuse = Cardinality(kheaproots'[s].inuse)
<1>1. PICK R : R = [kheaproots[r] EXCEPT !.inuse = @ \cup {k}, !.numinuse = @ + 1]
  BY Zenon
<1>2. kheaproots \in [1 .. NRoots -> Roots] /\ kheaproots[r] \in Roots
  BY Zenon DEF Typed
<1>3. PICK S : S = kheaproots[r].inuse
  BY Zenon
<1>4. S \in SUBSET (0 .. NPagerefs - 1) /\ S \cup {k} \in SUBSET (0 .. NPagerefs - 1)
  BY <1>2, <1>3, Zenon DEF Roots
<1>5. /\ Cardinality(S \cup {k}) = Cardinality(S) + 1
      /\ Cardinality(S \cup {k}) \in 0 .. NPagerefs
  BY <1>3, <1>4, Zenon DEF Counting
<1>6. kheaproots[r].numinuse = Cardinality(S)
  BY <1>3, Zenon DEF RefsOK
<1>7. /\ R.page = kheaproots[r].page /\ R.inuse = S \cup {k}
      /\ R.numinuse = Cardinality(S \cup {k})
  BY <1>1, <1>2, <1>3, <1>5, <1>6, Zenon DEF Roots
<1>8. R \in Roots
  <2>1. R = [page |-> kheaproots[r].page, inuse |-> S \cup {k}, numinuse |-> Cardinality(S \cup {k})]
    BY <1>1, <1>2, <1>3, <1>5, <1>6, Zenon DEF Roots
  <2>2. kheaproots[r].page \in PageOrNone
    BY <1>2, Zenon DEF Roots
  <2> QED
    BY <1>4, <1>5, <2>1, <2>2, Zenon DEF Roots
<1>9. kheaproots' = [kheaproots EXCEPT ![r] = R]
  BY <1>1, <1>2, Zenon
<1>10. /\ kheaproots' \in [1 .. NRoots -> Roots] /\ kheaproots'[r] = R
       /\ \A s \in 1 .. NRoots \ {r} : kheaproots'[s] = kheaproots[s]
  BY <1>2, <1>8, <1>9, ZenonT(60)
<1>11. ASSUME NEW s \in 1 .. NRoots
       PROVE  /\ kheaproots[s].inuse \subseteq kheaproots'[s].inuse
              /\ kheaproots'[s].page = kheaproots[s].page
              /\ kheaproots'[s].numinuse = Cardinality(kheaproots'[s].inuse)
  <2>1. CASE s = r
    BY <1>3, <1>7, <1>10, <2>1, Zenon
  <2>2. CASE s # r
    BY <1>10, <2>2, Zenon DEF RefsOK
  <2> QED
    BY <2>1, <2>2, Zenon
<1> QED
  BY <1>3, <1>7, <1>10, <1>11, Zenon

(* The entry found is marked, in a root with or without a page.            *)
LEMMA MarkStep ==
  ASSUME HeapInv, HeapRunning, Counting, NEW t \in KThreads, thread[t].pc = "ref",
         NEW r \in 1 .. NRoots, NEW k \in 0 .. NPagerefs - 1, k \notin kheaproots[r].inuse,
         AllocPageref(t, r, k), UNCHANGED kpages
  PROVE  HeapInv'
<1>1. PICK ref : ref = <<r, k>>
  BY Zenon
<1>2. ref \in Refs /\ ref[1] = r /\ ref[2] = k
  BY <1>1, Zenon DEF Refs
<1>3. /\ kheaproots' \in [1 .. NRoots -> Roots]
      /\ kheaproots'[r].inuse = kheaproots[r].inuse \cup {k}
      /\ \A s \in 1 .. NRoots \ {r} : kheaproots'[s] = kheaproots[s]
      /\ \A s \in 1 .. NRoots :
           /\ kheaproots[s].inuse \subseteq kheaproots'[s].inuse
           /\ kheaproots'[s].page = kheaproots[s].page
           /\ kheaproots'[s].numinuse = Cardinality(kheaproots'[s].inuse)
  <2>1. kheaproots' = [kheaproots EXCEPT ![r].inuse = @ \cup {k}, ![r].numinuse = @ + 1]
    BY Zenon DEF AllocPageref
  <2> QED
    BY <2>1, Marked, Zenon DEF HeapInv
<1>4. ref \notin Listed /\ \A u \in KThreads : thread[u].pc \in Pending => thread[u].ref # ref
  BY <1>2, Zenon DEF HeapInv, RefsOK
<1>5. /\ thread \in [KThreads -> Locals] /\ thread[t] \in Locals /\ thread[t].va = {}
      /\ thread[t].page \in Pages /\ thread[t].pc \in Carrying
  BY Zenon DEF HeapInv, Typed, ThreadsOK, ThreadOK, Carrying
<1>6. CASE kheaproots[r].page # NoPage
  <2>1. NewHeapPage(t, ref)
    BY <1>1, <1>6, Zenon DEF AllocPageref
  <2>2. ref[2] \in kheaproots'[ref[1]].inuse /\ kheaproots'[ref[1]].page # NoPage
    BY <1>2, <1>3, <1>6, Zenon
  <2>3. kpages' \in SUBSET Pages
    BY Zenon DEF HeapInv, Typed
  <2>4. /\ \A p \in thread[t].va : Placed(p)'
        /\ \A p \in Pages \ thread[t].va :
              /\ p \in kpages' <=> p \in kpages
              /\ \A s \in 1 .. NRoots : kheaproots'[s].page = p <=> kheaproots[s].page = p
    <3>1. \A p : p \notin thread[t].va
      BY <1>5, Zenon
    <3> QED
      BY <1>3, <3>1, Zenon
  <2>5. \A s \in 1 .. NRoots :
           /\ kheaproots[s].inuse \subseteq kheaproots'[s].inuse
           /\ kheaproots[s].page # NoPage => kheaproots'[s].page # NoPage
           /\ kheaproots'[s].numinuse = Cardinality(kheaproots'[s].inuse)
    BY <1>3, Zenon
  <2> HIDE DEF HeapInv
  <2> QED
    BY <1>2, <1>3, <1>4, <1>5, <2>1, <2>2, <2>3, <2>4, <2>5, Filled, Zenon
<1>7. CASE kheaproots[r].page = NoPage
  <2> DEFINE th == [thread[t] EXCEPT !.pc = "refpage", !.ref = ref]
  <2>1. /\ UNCHANGED <<pagerefs, sizebases, allbase, held, kpages>>
        /\ thread' = [thread EXCEPT ![t].pc = "refpage", ![t].ref = ref]
    BY <1>1, <1>7, Zenon DEF AllocPageref
  <2>2. /\ th \in Locals /\ th.pc = "refpage" /\ th.page = thread[t].page /\ th.va = {}
        /\ th.ref = ref
    BY <1>2, <1>5, Zenon DEF Locals, Labels
  <2>3. thread' = [thread EXCEPT ![t] = th]
    BY <1>5, <2>1, Zenon
  <2> HIDE DEF th
  <2>4. /\ thread' \in [KThreads -> Locals] /\ thread'[t] = th
        /\ \A u \in KThreads \ {t} : thread'[u] = thread[u]
    BY <1>5, <2>2, <2>3, OwnChange, Zenon
  <2>5. Listed' = Listed /\ \A s \in Refs : s[1] \in 1 .. NRoots
    BY <2>1, Zenon DEF Listed, Elems, Refs
  <2>6. \A u \in KThreads : thread[u].ref \in Refs
    BY Zenon DEF HeapInv, Typed, Locals
  <2>7. Typed'
    BY <1>3, <2>1, <2>4, Zenon DEF HeapInv, Typed
  <2>8. ThreadsOK'
    <3>1. ThreadOK(t)'
      BY <1>5, <2>2, <2>4, Zenon DEF ThreadOK, Carrying
    <3>2. ASSUME NEW u \in KThreads \ {t} PROVE ThreadOK(u)'
      <4>1. ThreadOK(u) /\ thread'[u] = thread[u] /\ thread[u].ref[1] \in 1 .. NRoots
        BY <2>4, <2>5, <2>6, Zenon DEF HeapInv, ThreadsOK
      <4> QED
        BY <1>3, <4>1, ZenonT(60) DEF ThreadOK
    <3> QED
      BY <3>1, <3>2, Zenon DEF ThreadsOK
  <2>9. ListsOK' /\ BlocksOK'
    BY <2>1, ListFrame, Zenon DEF HeapInv
  <2>10. PagesOK'
    <3>1. \A u \in KThreads : thread'[u].va = thread[u].va
      BY <1>5, <2>2, <2>4, Zenon
    <3>2. thread'[t].pc \in Carrying /\ thread'[t].page = thread[t].page
      BY <2>2, <2>4 DEF Carrying
    <3>3. \A p : \A u \in KThreads : (thread'[u].pc \in Carrying /\ thread'[u].page = p
                                      <=> thread[u].pc \in Carrying /\ thread[u].page = p)
      BY <1>5, <2>4, <3>2, Zenon
    <3>4. \A p : \A j, x : Used(p, j, x)' <=> Used(p, j, x)
      BY <1>3, <2>1, <2>5, <3>1, <3>3, SameUses, Zenon
    <3> QED
      BY <3>4, Reuse, Zenon DEF HeapInv
  <2>11. RefsOK'
    <3>1. \A s \in Listed : s[2] \in kheaproots'[s[1]].inuse /\ kheaproots'[s[1]].page # NoPage
      <4>1. \A s \in Listed : s[1] \in 1 .. NRoots
        BY <2>5 DEF HeapInv, Typed, Listed, Elems
      <4> QED
        BY <1>3, <4>1, ZenonT(60) DEF HeapInv, RefsOK
    <3>2. /\ thread'[t].ref \notin Listed
          /\ thread'[t].ref[2] \in kheaproots'[thread'[t].ref[1]].inuse
      BY <1>2, <1>3, <1>4, <2>2, <2>4, Zenon
    <3>3. ASSUME NEW u \in KThreads, u # t, thread'[u].pc \in Pending
          PROVE  /\ thread'[u].ref \notin Listed
                 /\ thread'[u].ref[2] \in kheaproots'[thread'[u].ref[1]].inuse
                 /\ thread'[u].ref # thread'[t].ref
                 /\ \A v \in KThreads \ {u} : v # t /\ thread'[v].pc \in Pending
                                                => thread'[v].ref # thread'[u].ref
      <4>1. thread'[u] = thread[u] /\ thread[u].ref[1] \in 1 .. NRoots
        BY <2>4, <2>5, <2>6, <3>3, Zenon
      <4>2. thread[u].ref \notin Listed /\ thread[u].ref[2] \in kheaproots'[thread[u].ref[1]].inuse
        BY <1>3, <3>3, <4>1, Zenon DEF HeapInv, RefsOK
      <4>3. thread[u].ref # ref /\ \A v \in KThreads \ {u} : v # t /\ thread'[v].pc \in Pending
                                                => thread'[v].ref # thread[u].ref
        BY <1>4, <2>4, <3>3, <4>1, Zenon DEF HeapInv, RefsOK
      <4> QED
        BY <2>2, <2>4, <4>1, <4>2, <4>3, Zenon
    <3> QED
      BY <1>3, <2>5, <3>1, <3>2, <3>3, Zenon DEF RefsOK
  <2> QED
    BY <2>7, <2>8, <2>9, <2>10, <2>11, Zenon DEF HeapInv
<1> QED
  BY <1>6, <1>7, Zenon

LEMMA AllocRefStep ==
  ASSUME HeapInv, HeapRunning, Counting, NEW t \in KThreads, allocpageref(t)
  PROVE  HeapInv'
<1>1. thread[t].pc = "ref" /\ UNCHANGED kpages
  BY Zenon DEF allocpageref
<1>2. CASE /\ thread' = [thread EXCEPT ![t].pc = "free", ![t].va = {thread[t].page}]
           /\ UNCHANGED <<heapvars, held>>
  <2>1. thread[t].va = {}
    BY <1>1, Zenon DEF HeapInv, ThreadsOK, ThreadOK
  <2>2. UNCHANGED <<kpages, heapvars, held>> /\ thread[t].pc \in {"ref", "refback"}
    BY <1>1, <1>2
  <2> QED
    BY <1>2, <2>1, <2>2, GiveUpStep, Zenon
<1>3. ASSUME NEW r \in 1 .. NRoots, NEW k \in 0 .. NPagerefs - 1, k \notin kheaproots[r].inuse,
             AllocPageref(t, r, k)
      PROVE  HeapInv'
  BY <1>1, <1>3, MarkStep, Zenon
<1> QED
  BY <1>2, <1>3, Zenon DEF allocpageref

(* The facts about a thread with an entry to fill in.                      *)
LEMMA PendingFacts ==
  ASSUME HeapInv, NEW t \in KThreads, thread[t].pc \in {"refback", "freeown"}
  PROVE  /\ thread[t].pc \in Carrying /\ thread[t].ref \in Refs /\ thread[t].ref \notin Listed
         /\ thread[t].ref[1] \in 1 .. NRoots
         /\ thread[t].ref[2] \in kheaproots[thread[t].ref[1]].inuse
         /\ \A u \in KThreads \ {t} : thread[u].pc \in Pending => thread[u].ref # thread[t].ref
         /\ thread[t].va = {} \/ \E p \in Pages : thread[t].va = {p}
         /\ kheaproots \in [1 .. NRoots -> Roots] /\ kpages \in SUBSET Pages
         /\ \A r \in 1 .. NRoots : kheaproots[r].numinuse = Cardinality(kheaproots[r].inuse)
<1>1. thread[t].pc \in Carrying /\ thread[t].pc \in Pending
  BY Zenon DEF Carrying, Pending
<1>2. thread[t].ref \in Refs /\ kheaproots \in [1 .. NRoots -> Roots] /\ kpages \in SUBSET Pages
  BY Zenon DEF HeapInv, Typed, Locals
<1>3. thread[t].ref[1] \in 1 .. NRoots
  BY <1>2, Zenon DEF Refs
<1>4. thread[t].va = {} \/ \E p \in Pages : thread[t].va = {p}
  BY Zenon DEF HeapInv, ThreadsOK, ThreadOK
<1>5. /\ thread[t].ref \notin Listed
      /\ thread[t].ref[2] \in kheaproots[thread[t].ref[1]].inuse
      /\ \A u \in KThreads \ {t} : thread[u].pc \in Pending => thread[u].ref # thread[t].ref
      /\ \A r \in 1 .. NRoots : kheaproots[r].numinuse = Cardinality(kheaproots[r].inuse)
  BY <1>1, Zenon DEF HeapInv, RefsOK
<1> QED
  BY <1>1, <1>2, <1>3, <1>4, <1>5, Zenon

(* The page the thread got for the root is its page, or goes back.         *)
LEMMA FillStep ==
  ASSUME HeapInv, HeapRunning, NEW t \in KThreads, thread[t].pc \in {"refback", "freeown"},
         kheaproots[thread[t].ref[1]].page # NoPage, NewHeapPage(t, thread[t].ref),
         UNCHANGED kheaproots, kpages' = kpages \cup thread[t].va
  PROVE  HeapInv'
<1>1. PICK ref : ref = thread[t].ref
  BY Zenon
<1>2. /\ thread[t].pc \in Carrying /\ ref \in Refs /\ ref \notin Listed
      /\ ref[2] \in kheaproots[ref[1]].inuse /\ NewHeapPage(t, ref)
      /\ \A u \in KThreads \ {t} : thread[u].pc \in Pending => thread[u].ref # ref
      /\ thread[t].va = {} \/ \E p \in Pages : thread[t].va = {p}
      /\ kheaproots' \in [1 .. NRoots -> Roots] /\ kpages \in SUBSET Pages
      /\ \A r \in 1 .. NRoots : kheaproots'[r].numinuse = Cardinality(kheaproots'[r].inuse)
  BY <1>1, PendingFacts, Zenon
<1>3. ref[2] \in kheaproots'[ref[1]].inuse /\ kheaproots'[ref[1]].page # NoPage
  BY <1>1, <1>2, Zenon
<1>4. kpages' \in SUBSET Pages
  BY <1>2, Zenon
<1>5. ASSUME NEW p \in thread[t].va PROVE Placed(p)'
  <2>1. p \in Pages
    BY <1>2, Zenon
  <2>2. Used(p, "va", t)
    BY Zenon DEF Used
  <2>3. OnlyUse(p, "va", t)
    BY <2>1, <2>2, TheUse, Zenon DEF HeapInv
  <2>4. \A r \in 1 .. NRoots : kheaproots[r].page # p
    BY <2>3, NotElsewhere, Zenon
  <2>5. p \in kpages' /\ \A r \in 1 .. NRoots : kheaproots'[r].page # p
    BY <2>4, Zenon
  <2> QED
    BY <2>5, Zenon DEF Placed
<1>6. \A p \in Pages \ thread[t].va :
        /\ p \in kpages' <=> p \in kpages
        /\ \A r \in 1 .. NRoots : kheaproots'[r].page = p <=> kheaproots[r].page = p
  BY Zenon
<1>7. \A r \in 1 .. NRoots :
        /\ kheaproots[r].inuse \subseteq kheaproots'[r].inuse
        /\ kheaproots[r].page # NoPage => kheaproots'[r].page # NoPage
        /\ kheaproots'[r].numinuse = Cardinality(kheaproots'[r].inuse)
  BY <1>2, Zenon
<1> QED
  BY <1>2, <1>3, <1>4, <1>5, <1>6, <1>7, Filled, Zenon

LEMMA RootStep ==
  ASSUME HeapInv, HeapRunning, NEW t \in KThreads, thread[t].pc = "refback",
         kheaproots[thread[t].ref[1]].page = NoPage, thread[t].va # {},
         NewHeapPage(t, thread[t].ref), UNCHANGED kpages,
         kheaproots' = [kheaproots EXCEPT ![thread[t].ref[1]].page = CHOOSE p \in thread[t].va : TRUE]
  PROVE  HeapInv'
<1>1. PICK ref : ref = thread[t].ref
  BY Zenon
<1>2. PICK s : s = ref[1]
  BY Zenon
<1>3. /\ thread[t].pc \in Carrying /\ ref \in Refs /\ ref \notin Listed /\ s \in 1 .. NRoots
      /\ ref[2] \in kheaproots[s].inuse /\ NewHeapPage(t, ref)
      /\ \A u \in KThreads \ {t} : thread[u].pc \in Pending => thread[u].ref # ref
      /\ kheaproots \in [1 .. NRoots -> Roots] /\ kpages \in SUBSET Pages
      /\ \A r \in 1 .. NRoots : kheaproots[r].numinuse = Cardinality(kheaproots[r].inuse)
  BY <1>1, <1>2, PendingFacts, Zenon
<1>4. PICK p \in Pages : thread[t].va = {p}
  BY PendingFacts, Zenon
<1>5. (CHOOSE x \in thread[t].va : TRUE) = p
  BY <1>4, Zenon
<1>6. PICK R : R = [kheaproots[s] EXCEPT !.page = p]
  BY Zenon
<1>7. kheaproots[s] \in Roots
  BY <1>3, Zenon
<1>8. /\ R \in Roots /\ R.page = p /\ R.inuse = kheaproots[s].inuse
      /\ R.numinuse = kheaproots[s].numinuse
  BY <1>6, <1>7, Zenon DEF Roots, PageOrNone
<1>9. kheaproots' = [kheaproots EXCEPT ![s] = R]
  BY <1>1, <1>2, <1>3, <1>5, <1>6, Zenon
<1>10. /\ kheaproots' \in [1 .. NRoots -> Roots] /\ kheaproots'[s] = R
       /\ \A r \in 1 .. NRoots \ {s} : kheaproots'[r] = kheaproots[r]
  BY <1>3, <1>8, <1>9, Zenon
<1>11. kpages' \in SUBSET Pages /\ p # NoPage
  BY <1>3 DEF Pages, NoPage
<1>12. ref[2] \in kheaproots'[ref[1]].inuse /\ kheaproots'[ref[1]].page # NoPage
  BY <1>2, <1>3, <1>8, <1>10, <1>11, Zenon
<1>13. OnlyUse(p, "va", t)
  <2>1. Used(p, "va", t)
    BY <1>4, Zenon DEF Used
  <2> QED
    BY <2>1, TheUse, Zenon DEF HeapInv
<1>14. p \notin kpages /\ \A r \in 1 .. NRoots : kheaproots[r].page # p
  BY <1>13, NotElsewhere
<1>15. \A q \in thread[t].va : Placed(q)'
  <2>1. \A r \in 1 .. NRoots : kheaproots'[r].page = p <=> r = s
    BY <1>3, <1>8, <1>10, <1>14, Zenon
  <2>2. p \notin kpages'
    BY <1>14, Zenon
  <2>3. Placed(p)'
    BY <1>3, <2>1, <2>2, Zenon DEF Placed
  <2> QED
    BY <1>4, <2>3, Zenon
<1>16. \A q \in Pages \ thread[t].va :
         /\ q \in kpages' <=> q \in kpages
         /\ \A r \in 1 .. NRoots : kheaproots'[r].page = q <=> kheaproots[r].page = q
  <2>1. \A q \in Pages \ thread[t].va : q # p /\ q # NoPage
    BY <1>4 DEF Pages, NoPage
  <2>2. kheaproots[s].page = NoPage
    BY <1>1, <1>2, Zenon
  <2> QED
    BY <1>8, <1>10, <2>1, <2>2, ZenonT(60)
<1>17. \A r \in 1 .. NRoots :
         /\ kheaproots[r].inuse \subseteq kheaproots'[r].inuse
         /\ kheaproots[r].page # NoPage => kheaproots'[r].page # NoPage
         /\ kheaproots'[r].numinuse = Cardinality(kheaproots'[r].inuse)
  BY <1>3, <1>8, <1>10, <1>11, ZenonT(60)
<1> QED
  BY <1>3, <1>10, <1>11, <1>12, <1>15, <1>16, <1>17, Filled, Zenon

LEMMA RefBackStep ==
  ASSUME HeapInv, HeapRunning, NEW t \in KThreads, allocpagerefpage(t)
  PROVE  HeapInv'
<1>1. thread[t].pc = "refback" /\ UNCHANGED kpages
  BY Zenon DEF allocpagerefpage
<1>2. thread[t].pc \in {"refback", "freeown"} /\ thread[t].pc \in {"ref", "refback"}
  BY <1>1
<1>3. CASE /\ kheaproots[thread[t].ref[1]].page = NoPage /\ thread[t].va # {}
           /\ kheaproots' = [kheaproots EXCEPT ![thread[t].ref[1]].page = CHOOSE p \in thread[t].va : TRUE]
           /\ NewHeapPage(t, thread[t].ref)
  BY <1>1, <1>3, RootStep, Zenon
<1>4. CASE /\ kheaproots[thread[t].ref[1]].page # NoPage /\ thread[t].va = {}
           /\ NewHeapPage(t, thread[t].ref) /\ UNCHANGED kheaproots
  <2>1. kpages' = kpages \cup thread[t].va
    BY <1>1, <1>4, Zenon
  <2> QED
    BY <1>2, <1>4, <2>1, FillStep, Zenon
<1>5. CASE /\ kheaproots[thread[t].ref[1]].page # NoPage /\ HeapGoto(t, "freeown")
           /\ UNCHANGED <<heapvars, held>>
  <2>1. UNCHANGED <<kpages, heapvars, held>>
    BY <1>1, <1>5, Zenon
  <2> QED
    BY <1>1, <1>5, <2>1, SpareStep, Zenon
<1>6. CASE /\ thread[t].va = {} /\ UNCHANGED <<heapvars, held>>
           /\ thread' = [thread EXCEPT ![t].pc = "free", ![t].va = {thread[t].page}]
  <2>1. UNCHANGED <<kpages, heapvars, held>>
    BY <1>1, <1>6, Zenon
  <2> QED
    BY <1>2, <1>6, <2>1, GiveUpStep, Zenon
<1> QED
  BY <1>3, <1>4, <1>5, <1>6, Zenon DEF allocpagerefpage

LEMMA FreeOwnStep ==
  ASSUME HeapInv, HeapRunning, NEW t \in KThreads, FreeOwnRefPage(t)
  PROVE  HeapInv'
<1>1. thread[t].pc = "freeown" /\ thread[t].pc \in {"refback", "freeown"}
  BY Zenon DEF FreeOwnRefPage
<1>2. kheaproots[thread[t].ref[1]].page # NoPage
  BY <1>1, Zenon DEF HeapInv, ThreadsOK, ThreadOK
<1> QED
  BY <1>1, <1>2, FillStep, Zenon DEF FreeOwnRefPage

----------------------------------------------------------------------------
(* kfree.                                                                  *)

(* A block goes back on the free list of its page.                         *)
Back(pr, b) == [pr EXCEPT !.free = <<b>> \o @, !.nfree = @ + 1]

LEMMA BlockBack ==
  ASSUME NEW pr \in Pagerefs, FreeListOK(pr), NEW b \in Stars(pr),
         NEW qr, qr = Back(pr, b)
  PROVE  /\ qr \in Pagerefs /\ qr.page = pr.page /\ qr.bt = pr.bt /\ qr.nfree = pr.nfree + 1
         /\ FreeListOK(qr) /\ Stars(qr) = Stars(pr) \ {b}
<1>1. /\ pr.free \in Seq(Nat) /\ pr.nfree = Len(pr.free) /\ pr.bt \in Types /\ pr.nfree \in Nat
      /\ Once(pr.free) /\ Elems(pr.free) \subseteq 0 .. Blocks(pr.bt) - 1
      /\ pr.page \in PageOrNone
  BY Zenon DEF Pagerefs, FreeListOK
<1>2. b \in 0 .. Blocks(pr.bt) - 1 /\ b \notin Elems(pr.free)
  BY Zenon DEF Stars
<1>3. b \in Nat
  BY <1>1, <1>2, BlockCount
<1>4. PICK c : c = <<b>> \o pr.free
  BY Zenon
<1>5. /\ c \in Seq(Nat) /\ Len(c) = Len(pr.free) + 1
      /\ Elems(c) = {b} \cup Elems(pr.free) /\ Once(c)
  BY <1>1, <1>2, <1>3, <1>4, Push, Zenon
<1>6. qr = [page |-> pr.page, bt |-> pr.bt, free |-> c, nfree |-> pr.nfree + 1]
  BY <1>4, Zenon DEF Pagerefs, Back
<1>7. pr.nfree + 1 \in Nat
  BY <1>1
<1>8. /\ qr \in Pagerefs /\ qr.page = pr.page /\ qr.bt = pr.bt
      /\ qr.free = c /\ qr.nfree = pr.nfree + 1
  <2>1. PICK m \in Nat : m = pr.nfree + 1
    BY <1>7, Zenon
  <2>2. qr = [page |-> pr.page, bt |-> pr.bt, free |-> c, nfree |-> m]
    BY <1>6, <2>1, Zenon
  <2>3. qr \in Pagerefs
    BY ONLY <1>1, <1>5, <2>1, <2>2, Zenon DEF Pagerefs
  <2>4. qr.page = pr.page /\ qr.bt = pr.bt /\ qr.free = c /\ qr.nfree = m
    BY ONLY <2>2, Zenon
  <2> QED
    BY <2>1, <2>3, <2>4, Zenon
<1>9. FreeListOK(qr)
  BY <1>1, <1>2, <1>5, <1>8, Zenon DEF FreeListOK
<1>10. Stars(qr) = Stars(pr) \ {b}
  BY <1>5, <1>8, Zenon DEF Stars
<1> QED
  BY <1>8, <1>9, <1>10, Zenon

(* A page has a block in use exactly when its free list is not full.       *)
LEMMA FullList ==
  ASSUME Pigeonhole, NEW pr \in Pagerefs, FreeListOK(pr)
  PROVE  Stars(pr) = {} <=> pr.nfree = Blocks(pr.bt)
<1>1. /\ pr.free \in Seq(Nat) /\ pr.nfree = Len(pr.free) /\ pr.bt \in Types
      /\ Once(pr.free) /\ Elems(pr.free) \subseteq 0 .. Blocks(pr.bt) - 1
  BY Zenon DEF Pagerefs, FreeListOK
<1>2. Blocks(pr.bt) \in Nat
  BY <1>1, BlockCount, Zenon
<1>3. Len(pr.free) = Blocks(pr.bt) <=> Elems(pr.free) = 0 .. Blocks(pr.bt) - 1
  BY <1>1, <1>2, Zenon DEF Pigeonhole
<1>4. Stars(pr) = {} <=> Elems(pr.free) = 0 .. Blocks(pr.bt) - 1
  BY <1>1, Zenon DEF Stars
<1> QED
  BY <1>1, <1>3, <1>4, Zenon

(* The page of a block that is freed: subpage_kfree finds its pageref, and *)
(* finds none for a whole-page allocation.                                 *)
LEMMA FoundRef ==
  ASSUME HeapInv, HeapRunning, NEW h \in held, NEW p \in h.pages, NEW i \in PlacesOf(p)
  PROVE  /\ allbase[i] \in Listed /\ pagerefs[allbase[i]].page = p
         /\ h.pages = {p} /\ h.block \in Stars(pagerefs[allbase[i]]) /\ h.block # Whole
<1>1. PICK r : r = allbase[i]
  BY Zenon
<1>2. r \in Listed /\ pagerefs[r].page = p
  BY <1>1, Zenon DEF PlacesOf, Listed, Elems
<1>3. p \in Pages
  BY <1>2, ListedPage, Zenon DEF HeapInv
<1>4. OnlyUse(p, "heap", r)
  <2>1. Used(p, "heap", r)
    BY <1>2, Zenon DEF Used
  <2> QED
    BY <1>3, <2>1, TheUse, Zenon DEF HeapInv
<1>5. h.block # Whole
  BY <1>4, NotElsewhere
<1>6. h.pages = {p}
  BY <1>5, Zenon DEF HeapInv, BlocksOK
<1>7. h.block \in Stars(pagerefs[r])
  <2>1. h \in Owned(pagerefs[r].page)
    BY <1>2, <1>6, Zenon DEF Owned
  <2>2. Stars(pagerefs[r]) = {g.block : g \in Owned(pagerefs[r].page)}
    BY <1>2, Zenon DEF HeapInv, BlocksOK, PageOK
  <2> QED
    BY <2>1, <2>2, Zenon
<1> QED
  BY <1>1, <1>2, <1>5, <1>6, <1>7, Zenon

LEMMA NoRef ==
  ASSUME HeapInv, HeapRunning, Least, NEW h \in held, NEW p \in h.pages, PlacesOf(p) = {}
  PROVE  h.block = Whole
<1> DEFINE T == {i \in 1 .. Len(allbase) : pagerefs[allbase[i]].page = p}
<1>1. allbase \in Seq(Refs)
  BY Zenon DEF HeapInv, Typed
<1>2. T \in SUBSET Nat
  BY <1>1
<1>3. ASSUME NEW i \in T, \A j \in T : i <= j PROVE FALSE
  <2>1. \A j \in 1 .. i - 1 : j \in 1 .. Len(allbase) /\ ~(i <= j)
    BY <1>1
  <2>2. \A j \in 1 .. i - 1 : pagerefs[allbase[j]].page # p
    BY <1>3, <2>1, Zenon
  <2> QED
    BY <2>2, Zenon DEF PlacesOf
<1>4. T = {}
  BY <1>2, <1>3, Zenon DEF Least
<1>5. \A r \in Listed : pagerefs[r].page # p
  BY <1>4, Zenon DEF Listed, Elems
<1> QED
  BY <1>5, Zenon DEF HeapInv, BlocksOK

(* The holdings on page r when one of its blocks has gone back.            *)
LEMMA OwnedBack ==
  ASSUME NEW r, NEW h \in held, PageOK(r), h.pages = {pagerefs[r].page}, held' = held \ {h}
  PROVE  /\ {g \in held' : g.pages = {pagerefs[r].page}} = Owned(pagerefs[r].page) \ {h}
         /\ {g.block : g \in Owned(pagerefs[r].page) \ {h}} = Stars(pagerefs[r]) \ {h.block}
         /\ \A e, g \in Owned(pagerefs[r].page) \ {h} : e.block = g.block => e = g
         /\ h.block \in Stars(pagerefs[r])
<1>1. PICK O : O = Owned(pagerefs[r].page)
  BY Zenon
<1>2. /\ Stars(pagerefs[r]) = {g.block : g \in O} /\ h \in O
      /\ \A e, g \in O : e.block = g.block => e = g
  BY <1>1, Zenon DEF PageOK, Owned
<1>3. {g.block : g \in O \ {h}} = Stars(pagerefs[r]) \ {h.block}
  BY <1>2, Zenon
<1>4. {g \in held' : g.pages = {pagerefs[r].page}} = O \ {h}
  BY <1>1, Zenon DEF Owned
<1>5. h.block \in Stars(pagerefs[r])
  BY <1>2, Zenon
<1> QED
  BY <1>1, <1>2, <1>3, <1>4, <1>5, Zenon

(* A block is freed and its page keeps others in use.                      *)
LEMMA FreeBlockStep ==
  ASSUME HeapInv, HeapRunning, Pigeonhole, NEW t \in KThreads, NEW h \in held,
         NEW r \in Listed, h.pages = {pagerefs[r].page}, h.block # Whole,
         KfreeBlock(t, h, r), held' = held \ {h}, UNCHANGED kpages
  PROVE  HeapInv'
<1>1. PICK qr : qr = Back(pagerefs[r], h.block)
  BY Zenon
<1>2. /\ qr.nfree < Blocks(qr.bt) /\ pagerefs' = [pagerefs EXCEPT ![r] = qr]
      /\ UNCHANGED <<kheaproots, sizebases, allbase, thread>>
  BY <1>1, Zenon DEF KfreeBlock, Back
<1>3. Listed' = Listed /\ Listed \subseteq Refs
  BY <1>2 DEF Listed, Elems, HeapInv, Typed
<1>4. r \in Refs /\ pagerefs[r] \in Pagerefs /\ pagerefs[r].page \in Pages /\ PageOK(r)
  BY ListedPage, Zenon DEF HeapInv, BlocksOK
<1>5. /\ {g \in held' : g.pages = {pagerefs[r].page}} = Owned(pagerefs[r].page) \ {h}
      /\ {g.block : g \in Owned(pagerefs[r].page) \ {h}} = Stars(pagerefs[r]) \ {h.block}
      /\ \A e, g \in Owned(pagerefs[r].page) \ {h} : e.block = g.block => e = g
      /\ h.block \in Stars(pagerefs[r])
  BY <1>4, OwnedBack, Zenon
<1>6. /\ qr \in Pagerefs /\ qr.page = pagerefs[r].page /\ qr.bt = pagerefs[r].bt
      /\ FreeListOK(qr) /\ Stars(qr) = Stars(pagerefs[r]) \ {h.block}
  <2>1. FreeListOK(pagerefs[r])
    BY <1>4, Zenon DEF PageOK
  <2>2. pagerefs[r] \in Pagerefs /\ h.block \in Stars(pagerefs[r])
    BY <1>4, <1>5, Zenon
  <2> QED
    BY <1>1, <2>1, <2>2, BlockBack
<1>7. Stars(qr) # {}
  <2>1. Blocks(qr.bt) \in Nat /\ qr.nfree \in Nat
    BY <1>6, BlockCount, Zenon DEF Pagerefs
  <2>2. qr.nfree # Blocks(qr.bt)
    BY <1>2, <2>1
  <2> QED
    BY <1>6, <2>2, FullList, Zenon
<1>8. pagerefs \in [Refs -> Pagerefs]
  BY Zenon DEF HeapInv, Typed
<1>9. /\ pagerefs' \in [Refs -> Pagerefs] /\ pagerefs'[r] = qr
      /\ \A s \in Refs \ {r} : pagerefs'[s] = pagerefs[s]
  BY <1>2, <1>4, <1>6, <1>8, Zenon
<1>10. \A s \in Refs : pagerefs'[s].page = pagerefs[s].page /\ pagerefs'[s].bt = pagerefs[s].bt
  BY <1>6, <1>9, Zenon
<1>11. Typed'
  BY <1>2, <1>9, Zenon DEF HeapInv, Typed
<1>12. ThreadsOK' /\ RefsOK'
  BY <1>2, <1>3, Zenon DEF HeapInv, ThreadsOK, ThreadOK, RefsOK
<1>13. ListsOK'
  BY <1>2, <1>3, <1>10, Zenon DEF HeapInv, ListsOK
<1>14. BlocksOK'
  <2>1. PageOK(r)'
    <3>1. Owned(pagerefs[r].page)' = Owned(pagerefs[r].page) \ {h}
      BY <1>5, <1>6, <1>9, Zenon DEF Owned
    <3>2. Stars(pagerefs[r])' = Stars(pagerefs[r]) \ {h.block} /\ FreeListOK(pagerefs[r])'
      BY <1>6, <1>9, Zenon DEF Stars, FreeListOK
    <3> QED
      BY <1>5, <1>6, <1>7, <3>1, <3>2, Zenon DEF PageOK
  <2>2. ASSUME NEW s \in Listed, s # r PROVE PageOK(s)'
    <3>1. pagerefs[s].page # pagerefs[r].page
      BY <2>2, PageOfOne, Zenon DEF HeapInv
    <3>2. \A g : g \in held' /\ g.pages = {pagerefs[s].page}
                  <=> g \in held /\ g.pages = {pagerefs[s].page}
      BY <3>1, Zenon
    <3> QED
      BY <1>3, <1>9, <2>2, <3>2, SamePage, Zenon DEF HeapInv, BlocksOK
  <2>3. \A g \in held' : g.block = Whole \/ \E s \in Listed : g.pages = {pagerefs'[s].page}
    <3>1. \A s \in Listed : pagerefs'[s].page = pagerefs[s].page
      BY <1>3, <1>10, Zenon
    <3> QED
      BY <3>1, Zenon DEF HeapInv, BlocksOK
  <2> QED
    BY <1>3, <2>1, <2>2, <2>3, Zenon DEF BlocksOK
<1>15. PagesOK'
  <2>1. ASSUME NEW p \in Pages PROVE \A k, x : Used(p, k, x)' <=> Used(p, k, x)
    <3>1. \A g : (g \in held' /\ g.block = Whole /\ p \in g.pages
                  <=> g \in held /\ g.block = Whole /\ p \in g.pages)
      OBVIOUS
    <3>2. \A s : (s \in Listed' /\ pagerefs'[s].page = p <=> s \in Listed /\ pagerefs[s].page = p)
      BY <1>3, <1>10, Zenon
    <3> QED
      BY <1>2, <3>1, <3>2, SameUses, Zenon
  <2> QED
    BY <2>1, Reuse, Zenon DEF HeapInv
<1> QED
  BY <1>11, <1>12, <1>13, <1>14, <1>15, Zenon DEF HeapInv

(* The last block of a page is freed: nobody holds another block of it,    *)
(* and the page leaves both lists.                                         *)
LEMMA LastLists ==
  ASSUME HeapInv, HeapRunning, Pigeonhole, NEW t \in KThreads, NEW h \in held,
         NEW r \in Listed, h.pages = {pagerefs[r].page}, h.block # Whole,
         KfreeLastBlock(t, h, r), held' = held \ {h}
  PROVE  /\ pagerefs' \in [Refs -> Pagerefs] /\ sizebases' \in [Types -> Seq(Refs)]
         /\ allbase' \in Seq(Refs) /\ Listed' = Listed \ {r}
         /\ \A s \in Refs \ {r} : pagerefs'[s] = pagerefs[s]
         /\ ListsOK' /\ BlocksOK'
<1>1. PICK qr : qr = Back(pagerefs[r], h.block)
  BY Zenon
<1>2. /\ qr.nfree = Blocks(qr.bt) /\ pagerefs' = [pagerefs EXCEPT ![r] = UnusedRef]
      /\ remove_lists(r, qr.bt)
  BY <1>1, Zenon DEF KfreeLastBlock, Back
<1>3. r \in Refs /\ pagerefs[r] \in Pagerefs /\ pagerefs[r].page \in Pages /\ PageOK(r)
  BY ListedPage, Zenon DEF HeapInv, BlocksOK
<1>4. Listed \subseteq Refs
  BY DEF Listed, Elems, HeapInv, Typed
<1>5. PICK O : O = Owned(pagerefs[r].page)
  BY Zenon
<1>6. /\ {g.block : g \in O \ {h}} = Stars(pagerefs[r]) \ {h.block}
      /\ h.block \in Stars(pagerefs[r])
  BY <1>3, <1>5, OwnedBack, Zenon
<1>7. qr \in Pagerefs /\ qr.bt = pagerefs[r].bt /\ FreeListOK(qr) /\ Stars(qr) = Stars(pagerefs[r]) \ {h.block}
  <2>1. FreeListOK(pagerefs[r])
    BY <1>3, Zenon DEF PageOK
  <2>2. pagerefs[r] \in Pagerefs /\ h.block \in Stars(pagerefs[r])
    BY <1>3, <1>6, Zenon
  <2> QED
    BY <1>1, <2>1, <2>2, BlockBack
<1>8. Stars(pagerefs[r]) \ {h.block} = {}
  BY <1>2, <1>7, FullList, Zenon
<1>9. \A g \in held' : g.pages # {pagerefs[r].page}
  <2>1. \A g \in O \ {h} : g.block \in {}
    BY <1>6, <1>8
  <2>2. \A g \in held' : g.pages = {pagerefs[r].page} => g \in O \ {h}
    BY <1>5, Zenon DEF Owned
  <2> QED
    BY <2>1, <2>2, Zenon
<1>10. PICK bt : bt = pagerefs[r].bt
  BY Zenon
<1>11. /\ bt \in Types /\ sizebases \in [Types -> Seq(Refs)] /\ allbase \in Seq(Refs)
       /\ sizebases' = [sizebases EXCEPT ![bt] = Unlink(@, r)] /\ allbase' = Unlink(allbase, r)
  BY <1>2, <1>3, <1>7, <1>10, Zenon DEF remove_lists, HeapInv, Typed, Pagerefs
<1>12. Once(allbase) /\ \A c \in Types : /\ Once(sizebases[c])
                                         /\ Elems(sizebases[c]) = {s \in Listed : pagerefs[s].bt = c}
  BY Zenon DEF HeapInv, ListsOK
<1>13. pagerefs' \in [Refs -> Pagerefs] /\ \A s \in Refs \ {r} : pagerefs'[s] = pagerefs[s]
  <2>1. UnusedRef \in Pagerefs
    BY IdleLocals DEF UnusedRef, Pagerefs, PageOrNone
  <2>2. pagerefs \in [Refs -> Pagerefs]
    BY Zenon DEF HeapInv, Typed
  <2> QED
    BY <1>2, <1>3, <2>1, <2>2, Zenon
<1>14. allbase' \in Seq(Refs) /\ Listed' = Listed \ {r} /\ Once(allbase')
  <2>1. r \in Elems(allbase)
    BY Zenon DEF Listed
  <2>2. /\ Unlink(allbase, r) \in Seq(Refs) /\ Elems(Unlink(allbase, r)) = Elems(allbase) \ {r}
        /\ Once(Unlink(allbase, r))
    BY <1>11, <1>12, <2>1, Unlinked, Zenon
  <2>3. Listed' = Elems(allbase')
    BY Zenon DEF Listed, Elems
  <2> QED
    BY <1>11, <2>2, <2>3, Zenon DEF Listed
<1>15. sizebases' \in [Types -> Seq(Refs)] /\ ListsOK'
  <2>1. r \in Elems(sizebases[bt])
    BY <1>10, <1>11, <1>12, Zenon
  <2>2. /\ Unlink(sizebases[bt], r) \in Seq(Refs)
        /\ Elems(Unlink(sizebases[bt], r)) = Elems(sizebases[bt]) \ {r}
        /\ Once(Unlink(sizebases[bt], r))
    BY <1>11, <1>12, <2>1, Unlinked, Zenon
  <2>3. /\ sizebases' \in [Types -> Seq(Refs)]
        /\ sizebases'[bt] = Unlink(sizebases[bt], r)
        /\ \A c \in Types \ {bt} : sizebases'[c] = sizebases[c]
    BY <1>11, <2>2, Zenon
  <2>4. ASSUME NEW c \in Types
        PROVE  Once(sizebases'[c]) /\ Elems(sizebases'[c]) = {s \in Listed' : pagerefs'[s].bt = c}
    <3>1. {s \in Listed' : pagerefs'[s].bt = c} = {s \in Listed : pagerefs[s].bt = c} \ {r}
      BY <1>4, <1>13, <1>14, Zenon
    <3>2. CASE c = bt
      BY <1>12, <2>2, <2>3, <3>1, <3>2, Zenon
    <3>3. CASE c # bt
      <4>1. r \notin {s \in Listed : pagerefs[s].bt = c}
        BY <1>10, <3>3, Zenon
      <4> QED
        BY <1>12, <2>3, <3>1, <3>3, <4>1, ZenonT(60)
    <3> QED
      BY <3>2, <3>3, Zenon
  <2>5. Once(allbase)' /\ \A c \in Types : /\ Once(sizebases[c])'
                                           /\ Elems(sizebases[c])' = {s \in Listed' : pagerefs'[s].bt = c}
    BY <1>14, <2>4 DEF Once, Elems
  <2> QED
    BY <2>3, <2>5, Zenon DEF ListsOK, Types
<1>16. BlocksOK'
  <2>1. ASSUME NEW s \in Listed, s # r PROVE PageOK(s)' /\ pagerefs'[s] = pagerefs[s]
    <3>1. pagerefs[s].page # pagerefs[r].page
      BY <2>1, PageOfOne, Zenon DEF HeapInv
    <3>2. \A g : g \in held' /\ g.pages = {pagerefs[s].page}
                  <=> g \in held /\ g.pages = {pagerefs[s].page}
      BY <3>1, Zenon
    <3>3. pagerefs'[s] = pagerefs[s]
      BY <1>4, <1>13, <2>1, Zenon
    <3> QED
      BY <3>2, <3>3, SamePage, Zenon DEF HeapInv, BlocksOK
  <2>2. ASSUME NEW g \in held', g.block # Whole PROVE \E s \in Listed' : g.pages = {pagerefs'[s].page}
    <3>1. PICK s \in Listed : g.pages = {pagerefs[s].page}
      BY <2>2, Zenon DEF HeapInv, BlocksOK
    <3>2. s # r
      BY <1>9, <3>1, Zenon
    <3> QED
      BY <1>14, <2>1, <3>1, <3>2, Zenon
  <2> QED
    BY <1>14, <2>1, <2>2, Zenon DEF BlocksOK
<1> QED
  BY <1>13, <1>14, <1>15, <1>16, Zenon

(* What freeing entry ref makes of the roots.                              *)
LEMMA Cleared ==
  ASSUME Counting, Typed, RefsOK, NEW ref \in Listed, freepageref(ref)
  PROVE  /\ kheaproots' \in [1 .. NRoots -> Roots]
         /\ \A s \in 1 .. NRoots :
              /\ kheaproots'[s].page = kheaproots[s].page
              /\ kheaproots'[s].numinuse = Cardinality(kheaproots'[s].inuse)
         /\ \A s \in Refs : s # ref /\ s[2] \in kheaproots[s[1]].inuse => s[2] \in kheaproots'[s[1]].inuse
<1>1. PICK r, k : r = ref[1] /\ k = ref[2]
  BY Zenon
<1>2. ref \in Refs
  BY DEF Typed, Listed, Elems
<1>3. r \in 1 .. NRoots /\ k \in 0 .. NPagerefs - 1 /\ ref = <<r, k>>
  BY <1>1, <1>2 DEF Refs
<1>4. PICK R : R = [kheaproots[r] EXCEPT !.inuse = @ \ {k}, !.numinuse = @ - 1]
  BY Zenon
<1>5. kheaproots \in [1 .. NRoots -> Roots] /\ kheaproots[r] \in Roots
  BY <1>3, Zenon DEF Typed
<1>6. PICK S : S = kheaproots[r].inuse
  BY Zenon
<1>7. S \in SUBSET (0 .. NPagerefs - 1) /\ S \ {k} \in SUBSET (0 .. NPagerefs - 1) /\ k \in S
  BY <1>1, <1>5, <1>6, Zenon DEF Roots, RefsOK
<1>8. /\ Cardinality(S \ {k}) = Cardinality(S) - 1
      /\ Cardinality(S \ {k}) \in 0 .. NPagerefs
  BY <1>3, <1>7, Zenon DEF Counting
<1>9. kheaproots[r].numinuse = Cardinality(S)
  BY <1>3, <1>6, Zenon DEF RefsOK
<1>10. /\ R.page = kheaproots[r].page /\ R.inuse = S \ {k}
       /\ R.numinuse = Cardinality(S \ {k})
  BY <1>4, <1>5, <1>6, <1>8, <1>9, Zenon DEF Roots
<1>11. R \in Roots
  <2>1. R = [page |-> kheaproots[r].page, inuse |-> S \ {k}, numinuse |-> Cardinality(S \ {k})]
    BY <1>4, <1>5, <1>6, <1>8, <1>9, Zenon DEF Roots
  <2>2. kheaproots[r].page \in PageOrNone
    BY <1>5, Zenon DEF Roots
  <2> QED
    BY <1>7, <1>8, <2>1, <2>2, Zenon DEF Roots
<1>12. kheaproots' = [kheaproots EXCEPT ![r] = R]
  BY <1>1, <1>4, <1>5, Zenon DEF freepageref
<1>13. /\ kheaproots' \in [1 .. NRoots -> Roots] /\ kheaproots'[r] = R
       /\ \A s \in 1 .. NRoots \ {r} : kheaproots'[s] = kheaproots[s]
  BY <1>3, <1>5, <1>11, <1>12, Zenon
<1>14. ASSUME NEW s \in 1 .. NRoots
       PROVE  /\ kheaproots'[s].page = kheaproots[s].page
              /\ kheaproots'[s].numinuse = Cardinality(kheaproots'[s].inuse)
  <2>1. CASE s = r
    BY <1>10, <1>13, <2>1, Zenon
  <2>2. CASE s # r
    BY <1>13, <2>2, Zenon DEF RefsOK
  <2> QED
    BY <2>1, <2>2, Zenon
<1>15. ASSUME NEW s \in Refs, s # ref, s[2] \in kheaproots[s[1]].inuse
       PROVE  s[2] \in kheaproots'[s[1]].inuse
  <2>1. s[1] \in 1 .. NRoots /\ s = <<s[1], s[2]>>
    BY DEF Refs
  <2>2. CASE s[1] = r
    <3>1. s[2] # k
      BY <1>3, <1>15, <2>1, <2>2, Zenon
    <3> QED
      BY <1>6, <1>10, <1>13, <1>15, <2>2, <3>1, Zenon
  <2>3. CASE s[1] # r
    BY <1>13, <1>15, <2>1, <2>3, Zenon
  <2> QED
    BY <2>2, <2>3, Zenon
<1> QED
  BY <1>13, <1>14, <1>15, Zenon

LEMMA FreeLastStep ==
  ASSUME HeapInv, HeapRunning, Pigeonhole, Counting, NEW t \in KThreads, NEW h \in held,
         NEW r \in Listed, h.pages = {pagerefs[r].page}, h.block # Whole, thread[t].pc = "idle",
         KfreeLastBlock(t, h, r), held' = held \ {h}, UNCHANGED kpages
  PROVE  HeapInv'
<1>1. /\ pagerefs' \in [Refs -> Pagerefs] /\ sizebases' \in [Types -> Seq(Refs)]
      /\ allbase' \in Seq(Refs) /\ Listed' = Listed \ {r}
      /\ \A s \in Refs \ {r} : pagerefs'[s] = pagerefs[s]
      /\ ListsOK' /\ BlocksOK'
  BY LastLists, Zenon
<1>2. PICK pg : pg = pagerefs[r].page
  BY Zenon
<1>3. r \in Refs /\ pagerefs[r] \in Pagerefs /\ pg \in Pages /\ Listed \subseteq Refs
  BY <1>2, ListedPage, Zenon DEF HeapInv, Typed, Listed, Elems
<1>4. thread \in [KThreads -> Locals] /\ thread[t] \in Locals /\ thread[t].va = {}
  BY Zenon DEF HeapInv, Typed, ThreadsOK, ThreadOK
<1>5. /\ kpages' \in SUBSET Pages /\ kheaproots \in [1 .. NRoots -> Roots]
      /\ held' \in SUBSET [owner : KThreads, pages : SUBSET Pages, block : Int]
  BY Zenon DEF HeapInv, Typed
<1>6. \A s \in Refs : s[1] \in 1 .. NRoots
  BY Zenon DEF Refs
<1>7. \A u \in KThreads : thread[u].ref \in Refs
  BY Zenon DEF HeapInv, Typed, Locals
<1>8. ASSUME NEW th \in Locals, thread' = [thread EXCEPT ![t] = th], th.pc \in {"free", "panic"},
             th.pc = "panic" => th.va = {}, th.pc = "free" => th.va = {pg},
             kheaproots' \in [1 .. NRoots -> Roots],
             \A s \in 1 .. NRoots : /\ kheaproots'[s].page = kheaproots[s].page
                                    /\ kheaproots'[s].numinuse = Cardinality(kheaproots'[s].inuse),
             \A s \in Refs : s # r /\ s[2] \in kheaproots[s[1]].inuse => s[2] \in kheaproots'[s[1]].inuse
      PROVE  HeapInv'
  <2>1. /\ thread' \in [KThreads -> Locals] /\ thread'[t] = th
        /\ \A u \in KThreads \ {t} : thread'[u] = thread[u]
    BY <1>4, <1>8, OwnChange, Zenon
  <2>2. thread'[t].pc \notin Carrying /\ thread'[t].pc \notin Pending
    BY <1>8, <2>1, Zenon DEF Carrying, Pending
  <2>3. Typed'
    BY <1>1, <1>5, <1>8, <2>1, Zenon DEF Typed
  <2>4. ThreadsOK'
    <3>1. ThreadOK(t)'
      BY <1>8, <2>1, <2>2, Zenon DEF ThreadOK
    <3>2. ASSUME NEW u \in KThreads \ {t} PROVE ThreadOK(u)'
      <4>1. ThreadOK(u) /\ thread'[u] = thread[u] /\ thread[u].ref[1] \in 1 .. NRoots
        BY <1>6, <1>7, <2>1, Zenon DEF HeapInv, ThreadsOK
      <4> QED
        BY <1>8, <4>1, Zenon DEF ThreadOK
    <3> QED
      BY <3>1, <3>2, Zenon DEF ThreadsOK
  <2>5. RefsOK'
    <3>1. ASSUME NEW s \in Listed'
          PROVE  s[2] \in kheaproots'[s[1]].inuse /\ kheaproots'[s[1]].page # NoPage
      <4>1. s \in Listed /\ s # r /\ s \in Refs /\ s[1] \in 1 .. NRoots
        BY <1>1, <1>3, <1>6, Zenon
      <4> QED
        BY <1>8, <4>1, Zenon DEF HeapInv, RefsOK
    <3>2. ASSUME NEW u \in KThreads, thread'[u].pc \in Pending
          PROVE  /\ thread'[u].ref \notin Listed'
                 /\ thread'[u].ref[2] \in kheaproots'[thread'[u].ref[1]].inuse
                 /\ \A v \in KThreads \ {u} : thread'[v].pc \in Pending => thread'[v].ref # thread'[u].ref
      <4>1. u # t /\ thread'[u] = thread[u] /\ thread[u].pc \in Pending
        BY <2>1, <2>2, <3>2, Zenon
      <4>2. thread[u].ref \notin Listed /\ thread[u].ref[2] \in kheaproots[thread[u].ref[1]].inuse
        BY <4>1, Zenon DEF HeapInv, RefsOK
      <4>3. thread[u].ref \notin Listed' /\ thread[u].ref[2] \in kheaproots'[thread[u].ref[1]].inuse
        BY <1>1, <1>7, <1>8, <4>2, Zenon
      <4>4. \A v \in KThreads \ {u} : thread'[v].pc \in Pending => thread'[v].ref # thread[u].ref
        BY <2>1, <2>2, <4>1, Zenon DEF HeapInv, RefsOK
      <4> QED
        BY <4>1, <4>3, <4>4, Zenon
    <3> QED
      BY <1>8, <3>1, <3>2, Zenon DEF RefsOK
  <2>6. PagesOK'
    <3>1. CASE th.pc = "panic"
      <4>1. ~HeapRunning'
        BY <2>1, <3>1, Zenon DEF HeapRunning
      <4> QED
        BY <4>1, Zenon DEF PagesOK
    <3>2. CASE th.pc = "free"
      <4>1. thread'[t].va = {pg}
        BY <1>8, <2>1, <3>2, Zenon
      <4>2. OnlyUse(pg, "heap", r)
        <5>1. Used(pg, "heap", r)
          BY <1>2, Zenon DEF Used
        <5> QED
          BY <1>3, <5>1, TheUse, Zenon DEF HeapInv
      <4>3. /\ pg \notin kpages /\ \A s \in 1 .. NRoots : kheaproots[s].page # pg
            /\ \A s \in Listed : pagerefs[s].page = pg => s = r
            /\ \A g \in held : g.block = Whole => pg \notin g.pages
            /\ \A u \in KThreads : thread[u].pc \in Carrying => thread[u].page # pg
            /\ \A u \in KThreads : pg \notin thread[u].va
        BY <4>2, NotElsewhere
      <4>4. OnlyUse(pg, "va", t)'
        <5>1. Used(pg, "va", t)'
          BY <4>1, Zenon DEF Used
        <5>2. ASSUME NEW j, NEW y, Used(pg, j, y)' PROVE j = "va" /\ y = t
          <6>1. pg \notin kpages' /\ \A s \in 1 .. NRoots : kheaproots'[s].page # pg
            BY <1>8, <4>3, Zenon
          <6>2. \A s \in Listed' : pagerefs'[s].page # pg
            BY <1>1, <1>3, <4>3, Zenon
          <6>3. \A g \in held' : g.block = Whole => pg \notin g.pages
            BY <4>3, Zenon
          <6>4. \A u \in KThreads : ~(thread'[u].pc \in Carrying /\ thread'[u].page = pg)
            BY <2>1, <2>2, <4>3, Zenon
          <6>5. \A u \in KThreads : pg \in thread'[u].va => u = t
            BY <2>1, <4>3, Zenon
          <6> QED
            BY <5>2, <6>1, <6>2, <6>3, <6>4, <6>5, Zenon DEF Used
        <5> QED
          BY <5>1, <5>2, Zenon DEF OnlyUse
      <4>5. ASSUME NEW p \in Pages, p # pg PROVE \A k, x : Used(p, k, x)' <=> Used(p, k, x)
        <5>1. \A s : (s \in Listed' /\ pagerefs'[s].page = p <=> s \in Listed /\ pagerefs[s].page = p)
          BY <1>1, <1>2, <1>3, <4>5, Zenon
        <5>2. \A g : (g \in held' /\ g.block = Whole /\ p \in g.pages
                      <=> g \in held /\ g.block = Whole /\ p \in g.pages)
          OBVIOUS
        <5>3. \A u \in KThreads : (thread'[u].pc \in Carrying /\ thread'[u].page = p
                                   <=> thread[u].pc \in Carrying /\ thread[u].page = p)
          <6>1. thread[t].pc \notin Carrying
            BY Zenon DEF Carrying
          <6> QED
            BY <2>1, <2>2, <6>1, Zenon
        <5>4. \A u \in KThreads : (p \in thread'[u].va <=> p \in thread[u].va)
          BY <1>4, <2>1, <4>1, <4>5, Zenon
        <5> QED
          BY <1>8, <5>1, <5>2, <5>3, <5>4, SameUses, Zenon
      <4> QED
        BY <4>4, <4>5, Reuse, Zenon DEF HeapInv
    <3> QED
      BY <1>8, <3>1, <3>2, Zenon
  <2> QED
    BY <1>1, <2>3, <2>4, <2>5, <2>6, Zenon DEF HeapInv
<1>9. CASE RootAssertion(r)
  <2> DEFINE th == [thread[t] EXCEPT !.pc = "free", !.va = {pg}]
  <2>1. /\ thread' = [thread EXCEPT ![t].pc = "free", ![t].va = {Back(pagerefs[r], h.block).page}]
        /\ freepageref(r)
    BY <1>9, Zenon DEF KfreeLastBlock, Back
  <2>2. Back(pagerefs[r], h.block).page = pg
    BY <1>2, <1>3, Zenon DEF Back, Pagerefs
  <2>3. th \in Locals /\ th.pc = "free" /\ th.va = {pg}
    BY <1>3, <1>4, Zenon DEF Locals, Labels
  <2>4. thread' = [thread EXCEPT ![t] = th]
    BY <1>4, <2>1, <2>2, Zenon
  <2> HIDE DEF th
  <2>5. th.pc \in {"free", "panic"} /\ th.pc # "panic"
    BY <2>3, Zenon
  <2>6. /\ kheaproots' \in [1 .. NRoots -> Roots]
        /\ \A s \in 1 .. NRoots : /\ kheaproots'[s].page = kheaproots[s].page
                                  /\ kheaproots'[s].numinuse = Cardinality(kheaproots'[s].inuse)
        /\ \A s \in Refs : s # r /\ s[2] \in kheaproots[s[1]].inuse => s[2] \in kheaproots'[s[1]].inuse
    BY <2>1, Cleared, Zenon DEF HeapInv
  <2> QED
    BY <1>8, <2>3, <2>4, <2>5, <2>6, Zenon
<1>10. CASE ~RootAssertion(r)
  <2> DEFINE th == [thread[t] EXCEPT !.pc = "panic"]
  <2>1. HeapGoto(t, "panic") /\ UNCHANGED kheaproots
    BY <1>10, Zenon DEF KfreeLastBlock
  <2>2. th \in Locals /\ th.pc = "panic" /\ th.va = {}
    BY <1>4, Zenon DEF Locals, Labels
  <2>3. thread' = [thread EXCEPT ![t] = th]
    BY <1>4, <2>1, Zenon DEF HeapGoto
  <2> HIDE DEF th
  <2>4. th.pc \in {"free", "panic"} /\ th.pc # "free"
    BY <2>2, Zenon
  <2>5. /\ kheaproots' \in [1 .. NRoots -> Roots]
        /\ \A s \in 1 .. NRoots : /\ kheaproots'[s].page = kheaproots[s].page
                                  /\ kheaproots'[s].numinuse = Cardinality(kheaproots'[s].inuse)
        /\ \A s \in Refs : s # r /\ s[2] \in kheaproots[s[1]].inuse => s[2] \in kheaproots'[s[1]].inuse
    BY <1>5, <2>1, Zenon DEF HeapInv, RefsOK
  <2> QED
    BY <1>8, <2>2, <2>3, <2>4, <2>5, Zenon
<1> QED
  BY <1>9, <1>10, Zenon

(* A whole-page allocation is freed: its pages are in the thread's hands.  *)
LEMMA FreeWholeStep ==
  ASSUME HeapInv, HeapRunning, NEW t \in KThreads, NEW h \in held, h.block = Whole,
         thread[t].pc = "idle", KfreeWholePages(t, h), held' = held \ {h}, UNCHANGED kpages
  PROVE  HeapInv'
<1>1. UNCHANGED <<kheaproots, pagerefs, sizebases, allbase>> /\ Listed' = Listed
  BY Zenon DEF KfreeWholePages, heapvars, Listed, Elems
<1>2. /\ thread \in [KThreads -> Locals] /\ thread[t] \in Locals /\ thread[t].va = {}
      /\ h.pages \in SUBSET Pages
  BY Zenon DEF HeapInv, Typed, ThreadsOK, ThreadOK
<1> DEFINE th == [thread[t] EXCEPT !.pc = "free", !.va = h.pages]
<1>3. th \in Locals /\ th.pc = "free" /\ th.va = h.pages
  BY <1>2, Zenon DEF Locals, Labels
<1>4. thread' = [thread EXCEPT ![t] = th]
  BY <1>2, Zenon DEF KfreeWholePages
<1> HIDE DEF th
<1>5. /\ thread' \in [KThreads -> Locals] /\ thread'[t] = th
      /\ \A u \in KThreads \ {t} : thread'[u] = thread[u]
  BY <1>2, <1>3, <1>4, OwnChange, Zenon
<1>6. /\ thread'[t].pc \notin Carrying /\ thread[t].pc \notin Carrying
      /\ thread'[t].pc \notin Pending /\ thread'[t].va = h.pages
  BY <1>3, <1>5, Zenon DEF Carrying, Pending
<1>7. Typed'
  BY <1>1, <1>5, Zenon DEF HeapInv, Typed
<1>8. ThreadsOK'
  BY <1>1, <1>3, <1>5, Zenon DEF HeapInv, ThreadsOK, ThreadOK, Carrying
<1>9. RefsOK'
  BY <1>1, <1>5, <1>6, RefFrame, Zenon DEF HeapInv
<1>10. ListsOK'
  BY <1>1, Zenon DEF HeapInv, ListsOK
<1>11. ASSUME NEW p \in h.pages PROVE p \in Pages /\ OnlyUse(p, "whole", h)
  <2>1. p \in Pages /\ Used(p, "whole", h)
    BY <1>2, Zenon DEF Used
  <2> QED
    BY <2>1, TheUse, Zenon DEF HeapInv
<1>12. BlocksOK'
  <2>1. ASSUME NEW r \in Listed PROVE PageOK(r)'
    <3>1. pagerefs[r].page \notin h.pages
      BY <1>11, NotElsewhere, Zenon
    <3>2. h.pages # {pagerefs[r].page}
      BY <3>1, Zenon
    <3>3. \A g : g \in held' /\ g.pages = {pagerefs[r].page}
                  <=> g \in held /\ g.pages = {pagerefs[r].page}
      BY <3>2, Zenon
    <3> QED
      BY <1>1, <3>3, SamePage, Zenon DEF HeapInv, BlocksOK
  <2> QED
    BY <1>1, <2>1, Zenon DEF HeapInv, BlocksOK
<1>13. PagesOK'
  <2>1. ASSUME NEW p \in h.pages PROVE OnlyUse(p, "va", t)'
    <3>1. /\ p \notin kpages /\ \A s \in 1 .. NRoots : kheaproots[s].page # p
          /\ \A s \in Listed : pagerefs[s].page # p
          /\ \A g \in held : g.block = Whole /\ p \in g.pages => g = h
          /\ \A u \in KThreads : thread[u].pc \in Carrying => thread[u].page # p
          /\ \A u \in KThreads : p \notin thread[u].va
      BY <1>11, NotElsewhere, Zenon
    <3>2. Used(p, "va", t)'
      BY <1>6, Zenon DEF Used
    <3>3. ASSUME NEW j, NEW y, Used(p, j, y)' PROVE j = "va" /\ y = t
      <4>1. p \notin kpages' /\ \A s \in 1 .. NRoots : kheaproots'[s].page # p
        BY <1>1, <3>1, Zenon
      <4>2. \A s \in Listed' : pagerefs'[s].page # p
        BY <1>1, <3>1, Zenon
      <4>3. \A g \in held' : g.block = Whole => p \notin g.pages
        BY <3>1, Zenon
      <4>4. \A u \in KThreads : ~(thread'[u].pc \in Carrying /\ thread'[u].page = p)
        BY <1>5, <1>6, <3>1, Zenon
      <4>5. \A u \in KThreads : p \in thread'[u].va => u = t
        BY <1>5, <3>1, Zenon
      <4> QED
        BY <3>3, <4>1, <4>2, <4>3, <4>4, <4>5, Zenon DEF Used
    <3> QED
      BY <3>2, <3>3, Zenon DEF OnlyUse
  <2>2. ASSUME NEW p \in Pages, p \notin h.pages PROVE \A k, x : Used(p, k, x)' <=> Used(p, k, x)
    <3>1. \A g : (g \in held' /\ g.block = Whole /\ p \in g.pages
                  <=> g \in held /\ g.block = Whole /\ p \in g.pages)
      BY <2>2, Zenon
    <3>2. \A u \in KThreads : (thread'[u].pc \in Carrying /\ thread'[u].page = p
                               <=> thread[u].pc \in Carrying /\ thread[u].page = p)
      BY <1>5, <1>6, Zenon
    <3>3. \A u \in KThreads : (p \in thread'[u].va <=> p \in thread[u].va)
      BY <1>2, <1>5, <1>6, <2>2, Zenon
    <3> QED
      BY <1>1, <3>1, <3>2, <3>3, SameUses, Zenon
  <2> QED
    BY <2>1, <2>2, Reuse, Zenon DEF HeapInv
<1> QED
  BY <1>7, <1>8, <1>9, <1>10, <1>12, <1>13, Zenon DEF HeapInv

LEMMA KfreeStep ==
  ASSUME HeapInv, HeapRunning, Pigeonhole, Counting, Least, NEW t \in KThreads, NEW h \in held,
         kfree(t, h)
  PROVE  HeapInv'
<1>1. thread[t].pc = "idle" /\ held' = held \ {h} /\ UNCHANGED kpages
  BY Zenon DEF kfree
<1>2. PICK p \in h.pages :
        \/ PlacesOf(p) = {} /\ KfreeWholePages(t, h)
        \/ \E i \in PlacesOf(p) : KfreeBlock(t, h, allbase[i]) \/ KfreeLastBlock(t, h, allbase[i])
  BY Zenon DEF kfree
<1>3. CASE PlacesOf(p) = {} /\ KfreeWholePages(t, h)
  <2>1. h.block = Whole
    BY <1>3, NoRef, Zenon
  <2> QED
    BY <1>1, <1>3, <2>1, FreeWholeStep, Zenon
<1>4. ASSUME NEW i \in PlacesOf(p),
             KfreeBlock(t, h, allbase[i]) \/ KfreeLastBlock(t, h, allbase[i])
      PROVE  HeapInv'
  <2>1. PICK r : r = allbase[i]
    BY Zenon
  <2>2. r \in Listed /\ h.pages = {pagerefs[r].page} /\ h.block # Whole
    BY <2>1, FoundRef, ZenonT(60)
  <2>3. CASE KfreeBlock(t, h, r)
    BY <1>1, <2>2, <2>3, FreeBlockStep, Zenon
  <2>4. CASE KfreeLastBlock(t, h, r)
    BY <1>1, <2>2, <2>4, FreeLastStep, Zenon
  <2> QED
    BY <1>4, <2>1, <2>3, <2>4, Zenon
<1> QED
  BY <1>2, <1>3, <1>4, Zenon

----------------------------------------------------------------------------
(* The invariant holds.                                                    *)

LEMMA HeapStart == ASSUME HeapInit, Counting PROVE HeapInv
<1>1. /\ kpages = Pages /\ allbase = << >> /\ held = {}
      /\ kheaproots = [r \in 1 .. NRoots |-> [page |-> NoPage, inuse |-> {}, numinuse |-> 0]]
      /\ pagerefs = [p \in Refs |-> UnusedRef] /\ sizebases = [bt \in Types |-> << >>]
      /\ thread = [t \in KThreads |-> Idle]
  BY Zenon DEF HeapInit
<1>2. Listed = {}
  BY <1>1 DEF Listed, Elems
<1>3. Typed
  <2>1. UnusedRef \in Pagerefs
    BY IdleLocals DEF UnusedRef, Pagerefs, PageOrNone
  <2>2. [page |-> NoPage, inuse |-> {}, numinuse |-> 0] \in Roots
    BY HeapAssumption DEF Roots, PageOrNone
  <2>3. << >> \in Seq(Refs)
    OBVIOUS
  <2> QED
    BY <1>1, <2>1, <2>2, <2>3, IdleLocals, Zenon DEF Typed
<1>4. \A t \in KThreads : thread[t] = Idle
  BY <1>1, Zenon
<1>5. Idle.pc \notin Carrying /\ Idle.pc \notin Pending /\ Idle.va = {} /\ Idle.pc = "idle"
  BY Zenon DEF Idle, Carrying, Pending
<1>6. ThreadsOK
  BY <1>4, <1>5, Zenon DEF ThreadsOK, ThreadOK
<1>7. ListsOK
  <2>1. Once(<< >>) /\ Elems(<< >>) = {}
    BY DEF Once, Elems
  <2> QED
    BY <1>1, <1>2, <2>1, Zenon DEF ListsOK
<1>8. BlocksOK
  BY <1>1, <1>2, Zenon DEF BlocksOK
<1>9. PagesOK
  <2> SUFFICES ASSUME NEW p \in Pages PROVE \E k, x : OnlyUse(p, k, x)
    BY Zenon DEF PagesOK
  <2>1. p # NoPage
    BY DEF Pages, NoPage
  <2>2. \A r \in 1 .. NRoots : kheaproots[r].page # p
    BY <1>1, <2>1, Zenon
  <2>3. Used(p, "free", 0)
    BY <1>1, Zenon DEF Used
  <2>4. ASSUME NEW j, NEW y, Used(p, j, y) PROVE j = "free" /\ y = 0
    BY <1>1, <1>2, <1>4, <1>5, <2>2, <2>4, Zenon DEF Used
  <2>5. OnlyUse(p, "free", 0)
    BY <2>3, <2>4, Zenon DEF OnlyUse
  <2> QED
    BY <2>5, Zenon
<1>10. RefsOK
  <2>1. \A r \in 1 .. NRoots : kheaproots[r].numinuse = Cardinality(kheaproots[r].inuse)
    BY <1>1, Zenon DEF Counting
  <2> QED
    BY <1>2, <1>4, <1>5, <2>1, Zenon DEF RefsOK
<1> QED
  BY <1>3, <1>6, <1>7, <1>8, <1>9, <1>10, Zenon DEF HeapInv

LEMMA HeapStep ==
  ASSUME HeapInv, [HeapNext]_kmvars, Pigeonhole, Counting, Least
  PROVE  HeapInv'
<1>1. CASE UNCHANGED kmvars
  BY <1>1, HeapStutter, Zenon
<1>2. ASSUME HeapRunning, NEW t \in KThreads, NEW sz \in Requests,
             KmallocFromPage(t, sz) \/ KmallocNeedsPage(t, sz) \/ KmallocWholePages(t, sz)
      PROVE  HeapInv'
  BY <1>2, FromPageStep, NeedsPageStep, WholeStep, Zenon
<1>3. ASSUME HeapRunning, NEW t \in KThreads,
             GetPage(t) \/ allocpageref(t) \/ GetRefPage(t) \/ allocpagerefpage(t)
               \/ FreeOwnRefPage(t) \/ ReturnPages(t)
      PROVE  HeapInv'
  BY <1>3, GetPageStep, AllocRefStep, GetRefPageStep, RefBackStep, FreeOwnStep, ReturnStep, Zenon
<1>4. ASSUME HeapRunning, NEW t \in KThreads, NEW h \in Holds(t), kfree(t, h)
      PROVE  HeapInv'
  <2>1. h \in held
    BY Zenon DEF Holds
  <2> QED
    BY <1>4, <2>1, KfreeStep, Zenon
<1> QED
  BY <1>1, <1>2, <1>3, <1>4, Zenon DEF HeapNext

----------------------------------------------------------------------------
(* What the invariant says of the heap.                                    *)

LEMMA TypesHold == HeapInv => HeapTypeOK
<1> SUFFICES ASSUME HeapInv PROVE HeapTypeOK
  OBVIOUS
<1>1. Typed
  BY Zenon DEF HeapInv
<1>2. kpages \subseteq Pages
  BY <1>1, Zenon DEF Typed
<1>3. ASSUME NEW r \in 1 .. NRoots
      PROVE  /\ kheaproots[r].page \in Pages \cup {NoPage}
             /\ kheaproots[r].inuse \subseteq 0 .. NPagerefs - 1
             /\ kheaproots[r].numinuse \in 0 .. NPagerefs
  BY <1>1, Zenon DEF Typed, Roots, PageOrNone
<1>4. \A p \in Refs : pagerefs[p].bt \in Types /\ pagerefs[p].nfree \in Nat
  BY <1>1, Zenon DEF Typed, Pagerefs
<1>5. \A h \in held : h.owner \in KThreads /\ h.pages \subseteq Pages
  BY <1>1, Zenon DEF Typed
<1>6. \A t \in KThreads : thread[t].pc \in Labels
  BY <1>1, Zenon DEF Typed, Locals
<1> QED
  BY <1>2, <1>3, <1>4, <1>5, <1>6, Zenon DEF HeapTypeOK, Labels

LEMMA RefsApart == HeapInv => PagerefsDistinct
<1> SUFFICES ASSUME HeapInv PROVE PagerefsDistinct
  OBVIOUS
<1> DEFINE pending == {t \in KThreads : thread[t].pc \in {"refpage", "refback", "freeown"}}
<1>1. RefsOK
  BY Zenon DEF HeapInv
<1>2. \A r \in Listed : r[2] \in kheaproots[r[1]].inuse /\ kheaproots[r[1]].page # NoPage
  BY <1>1, Zenon DEF RefsOK
<1>3. ASSUME NEW t \in pending
      PROVE  /\ thread[t].ref \notin Listed
             /\ thread[t].ref[2] \in kheaproots[thread[t].ref[1]].inuse
             /\ \A u \in pending \ {t} : thread[u].ref # thread[t].ref
  BY <1>1, Zenon DEF RefsOK, Pending
<1>4. \A r \in 1 .. NRoots : kheaproots[r].numinuse = Cardinality(kheaproots[r].inuse)
  BY <1>1, Zenon DEF RefsOK
<1> QED
  BY <1>2, <1>3, <1>4, Zenon DEF PagerefsDistinct

LEMMA ListsChecked ==
  ASSUME HeapInv
  PROVE  /\ Once(allbase)
         /\ \A r \in Listed : checksubpage(r)
         /\ \A bt \in Types : \A i \in 1 .. Len(sizebases[bt]) :
              /\ checksubpage(sizebases[bt][i])
              /\ pagerefs[sizebases[bt][i]].bt = bt
              /\ sizebases[bt][i] \in Listed
<1>1. ListsOK /\ BlocksOK
  BY Zenon DEF HeapInv
<1>2. ASSUME NEW r \in Listed PROVE checksubpage(r)
  <2>1. FreeListOK(pagerefs[r])
    BY <1>1, Zenon DEF BlocksOK, PageOK
  <2>2. \A i \in 1 .. Len(pagerefs[r].free) : pagerefs[r].free[i] \in Elems(pagerefs[r].free)
    BY Zenon DEF Elems
  <2> QED
    BY <2>1, <2>2, Zenon DEF FreeListOK, checksubpage
<1>3. ASSUME NEW bt \in Types, NEW i \in 1 .. Len(sizebases[bt])
      PROVE  sizebases[bt][i] \in Listed /\ pagerefs[sizebases[bt][i]].bt = bt
  <2>1. sizebases[bt][i] \in Elems(sizebases[bt])
    BY <1>3, Zenon DEF Elems
  <2>2. Elems(sizebases[bt]) = {r \in Listed : pagerefs[r].bt = bt}
    BY <1>1, <1>3, Zenon DEF ListsOK
  <2> QED
    BY <2>1, <2>2, Zenon
<1> QED
  BY <1>1, <1>2, <1>3, Zenon DEF ListsOK

(* The links of the size lists and those of allbase match one to one.      *)
LEMMA LinksMatch ==
  ASSUME HeapInv
  PROVE  LET links == UNION {{bt} \X DOMAIN sizebases[bt] : bt \in Types}
         IN  \E f \in [1 .. Len(allbase) -> links] :
               /\ \A i, j \in 1 .. Len(allbase) : f[i] = f[j] => i = j
               /\ \A u \in links : \E i \in 1 .. Len(allbase) : f[i] = u
<1> DEFINE links == UNION {{bt} \X DOMAIN sizebases[bt] : bt \in Types}
           At(u) == sizebases[u[1]][u[2]]
           f == [i \in 1 .. Len(allbase) |-> CHOOSE u \in links : At(u) = allbase[i]]
<1>1. ListsOK /\ sizebases \in [Types -> Seq(Refs)] /\ allbase \in Seq(Refs)
  BY Zenon DEF HeapInv, Typed
<1>2. \A bt \in Types : DOMAIN sizebases[bt] = 1 .. Len(sizebases[bt])
  BY <1>1
<1>3. \A u \in links : u[1] \in Types /\ u[2] \in 1 .. Len(sizebases[u[1]]) /\ u = <<u[1], u[2]>>
  BY <1>2
<1>4. \A bt \in Types : \A i \in 1 .. Len(sizebases[bt]) : <<bt, i>> \in links
  BY <1>2
<1> HIDE DEF links
<1>5. ASSUME NEW i \in 1 .. Len(allbase) PROVE \E u \in links : At(u) = allbase[i]
  <2>1. PICK bt : bt = pagerefs[allbase[i]].bt
    BY Zenon
  <2>2. allbase[i] \in Listed
    BY Zenon DEF Listed, Elems
  <2>3. allbase[i] \in Refs
    BY <1>1
  <2>4. bt \in Types
    BY <2>1, <2>3, Zenon DEF HeapInv, Typed, Pagerefs
  <2>5. allbase[i] \in Elems(sizebases[bt])
    BY <1>1, <2>1, <2>2, <2>4, Zenon DEF ListsOK
  <2>6. PICK k \in 1 .. Len(sizebases[bt]) : sizebases[bt][k] = allbase[i]
    BY <2>5, Zenon DEF Elems
  <2>7. <<bt, k>> \in links
    BY <1>4, <2>4, Zenon
  <2>8. At(<<bt, k>>) = allbase[i]
    BY <2>6, Zenon
  <2> QED
    BY <2>7, <2>8, Zenon
<1>6. \A i \in 1 .. Len(allbase) : f[i] \in links /\ At(f[i]) = allbase[i]
  <2>1. ASSUME NEW i \in 1 .. Len(allbase) PROVE f[i] \in links /\ At(f[i]) = allbase[i]
    <3>1. f[i] = CHOOSE u \in links : At(u) = allbase[i]
      BY Zenon
    <3> HIDE DEF f, At
    <3> QED
      BY <1>5, <3>1, Zenon
  <2> QED
    BY <2>1, Zenon
<1>7. f \in [1 .. Len(allbase) -> links]
  BY <1>6, Zenon
<1> HIDE DEF f
<1>8. ASSUME NEW i \in 1 .. Len(allbase), NEW j \in 1 .. Len(allbase), f[i] = f[j]
      PROVE  i = j
  <2>1. allbase[i] = allbase[j]
    BY <1>6, <1>8, Zenon
  <2> QED
    BY <1>1, <2>1, Zenon DEF ListsOK, Once
<1>9. ASSUME NEW u \in links PROVE \E i \in 1 .. Len(allbase) : f[i] = u
  <2>1. /\ u[1] \in Types /\ u[2] \in 1 .. Len(sizebases[u[1]])
        /\ At(u) \in Listed /\ pagerefs[At(u)].bt = u[1]
    BY <1>3, ListsChecked, Zenon
  <2>2. PICK i \in 1 .. Len(allbase) : allbase[i] = At(u)
    BY <2>1, Zenon DEF Listed, Elems
  <2>3. PICK w : w = f[i]
    BY Zenon
  <2>4. /\ w \in links /\ At(w) = At(u)
    BY <1>6, <2>2, <2>3, Zenon
  <2>5. w[1] \in Types /\ w[2] \in 1 .. Len(sizebases[w[1]]) /\ pagerefs[At(w)].bt = w[1]
    BY <1>3, <2>4, ListsChecked, Zenon
  <2>6. w[1] = u[1]
    BY <2>1, <2>4, <2>5, Zenon
  <2>7. w[2] = u[2]
    BY <1>1, <2>1, <2>4, <2>5, <2>6, Zenon DEF ListsOK, Once
  <2> QED
    BY <1>3, <2>3, <2>4, <2>6, <2>7, Zenon
<1> QED
  BY <1>7, <1>8, <1>9, Zenon DEF links

(* A holder of a block of a page, for each block not on the free list.     *)
LEMMA HoldersMatch ==
  ASSUME HeapInv, NEW r \in Listed
  PROVE  LET owned == {h \in held : h.pages = {pagerefs[r].page}}
             stars == Stars(pagerefs[r])
         IN  \E f \in [owned -> stars] :
               /\ \A g, h \in owned : f[g] = f[h] => g = h
               /\ \A b \in stars : \E h \in owned : f[h] = b
<1> DEFINE owned == Owned(pagerefs[r].page)
           stars == Stars(pagerefs[r])
           f == [h \in owned |-> h.block]
<1>1. /\ stars = {h.block : h \in owned}
      /\ \A g, h \in owned : g.block = h.block => g = h
  BY Zenon DEF HeapInv, BlocksOK, PageOK
<1> HIDE DEF owned, stars
<1>2. \A h \in owned : f[h] = h.block
  BY Zenon
<1>3. f \in [owned -> stars]
  BY <1>1, Zenon
<1> HIDE DEF f
<1>4. \A g, h \in owned : f[g] = f[h] => g = h
  BY <1>1, <1>2, Zenon
<1>5. \A b \in stars : \E h \in owned : f[h] = b
  BY <1>1, <1>2, Zenon
<1> QED
  BY <1>3, <1>4, <1>5, Zenon DEF owned, stars, Owned

(* What kheap_printstats draws of a page.                                  *)
LEMMA StarsDrawn ==
  ASSUME NEW r
  PROVE  {i \in DOMAIN subpage_stats(r) : subpage_stats(r)[i] = "*"} = Stars(pagerefs[r])
<1> DEFINE n == Blocks(pagerefs[r].bt) - 1
<1>1. DOMAIN subpage_stats(r) = 0 .. n
  BY Zenon DEF subpage_stats
<1>2. \A i \in 0 .. n : subpage_stats(r)[i] = "*" <=> i \notin Elems(pagerefs[r].free)
  <2>1. \A i \in 0 .. n :
          subpage_stats(r)[i] = IF i \in Elems(pagerefs[r].free) THEN "." ELSE "*"
    BY Zenon DEF subpage_stats
  <2>2. "." # "*"
    OBVIOUS
  <2> QED
    BY <2>1, <2>2, Zenon
<1> QED
  BY <1>1, <1>2, Zenon DEF Stars

\* x, if c.
If(c, x) == IF c THEN {x} ELSE {}

(* The users of a page, kind by kind.                                      *)
LEMMA UsersOf ==
  ASSUME HeapInv, HeapRunning, NEW p \in Pages
  PROVE  LET hands(t) == thread[t].va
                           \cup (IF thread[t].pc \in {"ref", "refpage", "refback", "freeown"}
                                 THEN {thread[t].page} ELSE {})
             roots == {r \in 1 .. NRoots : kheaproots[r].page = p}
             heap == {r \in Listed : pagerefs[r].page = p}
             whole == {h \in {h \in held : h.block = Whole} : p \in h.pages}
             threads == {t \in KThreads : p \in hands(t)}
         IN  \E k, x :
               /\ k \in {"free", "root", "heap", "whole", "page", "va"}
               /\ p \in kpages <=> k = "free"
               /\ roots = If(k = "root", x)
               /\ heap = If(k = "heap", x)
               /\ whole = If(k = "whole", x)
               /\ threads = If(k \in {"page", "va"}, x)
<1> DEFINE hands(t) == thread[t].va
                         \cup (IF thread[t].pc \in {"ref", "refpage", "refback", "freeown"}
                               THEN {thread[t].page} ELSE {})
           roots == {r \in 1 .. NRoots : kheaproots[r].page = p}
           heap == {r \in Listed : pagerefs[r].page = p}
           whole == {h \in {h \in held : h.block = Whole} : p \in h.pages}
           threads == {t \in KThreads : p \in hands(t)}
<1>1. PICK k, x : OnlyUse(p, k, x)
  BY Zenon DEF HeapInv, PagesOK
<1>2. /\ \A j, y : Used(p, j, y) => j = k /\ y = x
      /\ Used(p, k, x)
  BY <1>1, Zenon DEF OnlyUse
<1>3. k \in {"free", "root", "heap", "whole", "page", "va"}
  BY <1>2, Zenon DEF Used
<1>4. p \in kpages <=> k = "free"
  <2>1. p \in kpages <=> Used(p, "free", 0)
    BY Zenon DEF Used
  <2>2. k = "free" => x = 0
    BY <1>2, Zenon DEF Used
  <2> QED
    BY <1>2, <2>1, <2>2, Zenon
<1>5. roots = If(k = "root", x)
  <2>1. \A y : y \in roots <=> Used(p, "root", y)
    BY Zenon DEF Used
  <2> QED
    BY <1>2, <2>1, Zenon DEF If
<1>6. heap = If(k = "heap", x)
  <2>1. \A y : y \in heap <=> Used(p, "heap", y)
    BY Zenon DEF Used
  <2> QED
    BY <1>2, <2>1, Zenon DEF If
<1>7. whole = If(k = "whole", x)
  <2>1. \A y : y \in whole <=> Used(p, "whole", y)
    BY Zenon DEF Used
  <2> QED
    BY <1>2, <2>1, Zenon DEF If
<1>8. threads = If(k \in {"page", "va"}, x)
  <2>1. \A y : y \in threads <=> Used(p, "page", y) \/ Used(p, "va", y)
    BY Zenon DEF Used, Carrying
  <2> QED
    BY <1>2, <2>1, Zenon DEF If
<1> DEFINE Users(j, y) == /\ j \in {"free", "root", "heap", "whole", "page", "va"}
                          /\ p \in kpages <=> j = "free"
                          /\ roots = If(j = "root", y)
                          /\ heap = If(j = "heap", y)
                          /\ whole = If(j = "whole", y)
                          /\ threads = If(j \in {"page", "va"}, y)
<1> HIDE DEF roots, heap, whole, threads
<1>9. Users(k, x)
  BY <1>3, <1>4, <1>5, <1>6, <1>7, <1>8, Zenon
<1> HIDE DEF Users
<1>10. \E j, y : Users(j, y)
  BY <1>9, Zenon
<1> QED
  BY <1>10, Zenon DEF Users, roots, heap, whole, threads

----------------------------------------------------------------------------
(* The facts about finite sets, from the library.                          *)
INSTANCE FiniteSetTheorems

(* A nonempty set of naturals has a least element.                         *)
LEMMA LeastHolds == Least
<1> SUFFICES ASSUME NEW S \in SUBSET Nat, S # {}
             PROVE  \E x \in S : \A y \in S : x <= y
  BY Zenon DEF Least
<1> DEFINE R == OpToRel(<, Nat)
<1>1. IsWellFoundedOn(R, Nat)
  BY NatLessThanWellFounded, Zenon
<1>2. \A x, y \in Nat : <<x, y>> \in R <=> x < y
  BY Zenon DEF OpToRel
<1> HIDE DEF R
<1>3. \E x \in S : \A y \in S : ~ (<<y, x>> \in R)
  BY <1>1, WFMin, ZenonT(60), Zenon
<1>4. PICK x \in S : \A y \in S : ~ (<<y, x>> \in R)
  BY <1>3, Zenon
<1>5. \A y \in S : ~(y < x)
  BY <1>2, <1>4, Zenon
<1> QED
  BY <1>5

(* Entries of a pageref page marked and unmarked, one at a time.           *)
LEMMA CountingHolds == Counting
<1>1. Cardinality({}) = 0
  BY FS_EmptySet, Zenon
<1>2. ASSUME NEW S \in SUBSET (0 .. NPagerefs - 1) PROVE Cardinality(S) \in 0 .. NPagerefs
  <2>1. IsFiniteSet(0 .. NPagerefs - 1) /\ Cardinality(0 .. NPagerefs - 1) = NPagerefs
    <3>1. NPagerefs \in Nat /\ NPagerefs - 1 \in Int /\ ~(0 > NPagerefs - 1)
          /\ (NPagerefs - 1) - 0 + 1 = NPagerefs
      BY HeapAssumption
    <3> QED
      BY <3>1, FS_Interval
  <2>2. IsFiniteSet(S) /\ Cardinality(S) <= NPagerefs
    BY <2>1, FS_Subset, ZenonT(60)
  <2>3. Cardinality(S) \in Nat
    BY <2>2, FS_CardinalityType, Zenon
  <2> QED
    BY <2>2, <2>3, HeapAssumption
<1>3. ASSUME NEW S \in SUBSET (0 .. NPagerefs - 1), NEW k \in 0 .. NPagerefs - 1
      PROVE  /\ k \notin S => Cardinality(S \cup {k}) = Cardinality(S) + 1
             /\ k \in S => Cardinality(S \ {k}) = Cardinality(S) - 1
  <2>1. IsFiniteSet(0 .. NPagerefs - 1)
    BY HeapAssumption, FS_Interval
  <2>2. IsFiniteSet(S)
    BY <2>1, FS_Subset, Zenon
  <2>3. Cardinality(S \cup {k}) = IF k \in S THEN Cardinality(S) ELSE Cardinality(S) + 1
    BY <2>2, FS_AddElement, Zenon
  <2>4. Cardinality(S \ {k}) = IF k \in S THEN Cardinality(S) - 1 ELSE Cardinality(S)
    BY <2>2, FS_RemoveElement, Zenon
  <2> QED
    BY <2>3, <2>4, Zenon
<1> QED
  BY <1>1, <1>2, <1>3, Zenon DEF Counting

(* Two sets that match one to one have the same size.                      *)
LEMMA SameSize ==
  ASSUME NEW S, NEW T, IsFiniteSet(S), NEW f \in [S -> T],
         \A x, y \in S : f[x] = f[y] => x = y, \A z \in T : \E x \in S : f[x] = z
  PROVE  IsFiniteSet(T) /\ Cardinality(T) = Cardinality(S)
<1>1. f \in Injection(S, T)
  <2>1. DOMAIN f = S
    BY Zenon
  <2> QED
    BY <2>1, Zenon DEF Injection, IsInjective
<1>2. f \in Surjection(S, T)
  BY Zenon DEF Surjection
<1>3. ExistsBijection(S, T)
  BY <1>1, <1>2, Zenon DEF ExistsBijection, Bijection
<1> QED
  BY <1>3, FS_Bijection, Zenon

(* A free list that meets no block twice has every block when it is as     *)
(* long as the page has blocks.                                            *)
LEMMA PigeonholeHolds == Pigeonhole
<1> SUFFICES ASSUME NEW n \in Nat, NEW q \in Seq(Nat), Once(q), Elems(q) \subseteq 0 .. n - 1
             PROVE  Len(q) <= n /\ (Len(q) = n <=> Elems(q) = 0 .. n - 1)
  BY Zenon DEF Pigeonhole
<1>1. Len(q) \in Nat
  OBVIOUS
<1>2. IsFiniteSet(1 .. Len(q)) /\ Cardinality(1 .. Len(q)) = Len(q)
  <2>1. 1 \in Int /\ Len(q) \in Int /\ (1 > Len(q) => Len(q) = 0) /\ Len(q) - 1 + 1 = Len(q)
    BY <1>1
  <2> QED
    BY <2>1, FS_Interval, Zenon
<1>3. IsFiniteSet(0 .. n - 1) /\ Cardinality(0 .. n - 1) = n
  <2>1. 0 \in Int /\ n - 1 \in Int /\ (0 > n - 1 => n = 0) /\ (n - 1) - 0 + 1 = n
    OBVIOUS
  <2> QED
    BY <2>1, FS_Interval, Zenon
<1> DEFINE f == [i \in 1 .. Len(q) |-> q[i]]
<1>4. f \in [1 .. Len(q) -> Elems(q)] /\ \A i \in 1 .. Len(q) : f[i] = q[i]
  BY Zenon DEF Elems
<1> HIDE DEF f
<1>5. \A i, j \in 1 .. Len(q) : f[i] = f[j] => i = j
  BY <1>4, Zenon DEF Once
<1>6. \A z \in Elems(q) : \E i \in 1 .. Len(q) : f[i] = z
  BY <1>4, Zenon DEF Elems
<1>7. Cardinality(Elems(q)) = Len(q)
  BY <1>2, <1>4, <1>5, <1>6, SameSize, Zenon
<1>8. /\ Cardinality(Elems(q)) <= Cardinality(0 .. n - 1)
      /\ Cardinality(0 .. n - 1) = Cardinality(Elems(q)) => 0 .. n - 1 = Elems(q)
  BY <1>3, FS_Subset, Zenon
<1> QED
  BY <1>3, <1>7, <1>8, Zenon

(* The size lists have as many links as allbase has.                       *)
LEMMA LinksCounted ==
  ASSUME HeapInv
  PROVE  Cardinality(UNION {{bt} \X DOMAIN sizebases[bt] : bt \in Types}) = Len(allbase)
<1> DEFINE links == UNION {{bt} \X DOMAIN sizebases[bt] : bt \in Types}
           n == Len(allbase)
<1>1. n \in Nat
  BY DEF HeapInv, Typed
<1>2. PICK f \in [1 .. n -> links] :
        /\ \A i, j \in 1 .. n : f[i] = f[j] => i = j
        /\ \A u \in links : \E i \in 1 .. n : f[i] = u
  BY LinksMatch, Zenon
<1> HIDE DEF n, links
<1>3. IsFiniteSet(1 .. n) /\ Cardinality(1 .. n) = n
  <2>1. 1 \in Int /\ n \in Int /\ (1 > n => n = 0) /\ n - 1 + 1 = n
    BY <1>1
  <2> QED
    BY <2>1, FS_Interval, Zenon
<1>4. Cardinality(links) = n
  BY <1>2, <1>3, SameSize, Zenon
<1> QED
  BY <1>4, Zenon DEF links, n

LEMMA ConsistentHolds == HeapInv => HeapIsConsistent
  BY ListsChecked, LinksCounted, Zenon DEF HeapIsConsistent, checksubpages

(* Every page has one user.                                                *)
LEMMA PagesHold == HeapInv => PagesAccounted
<1> DEFINE whole == {h \in held : h.block = Whole}
           hands(t) == thread[t].va
                         \cup (IF thread[t].pc \in {"ref", "refpage", "refback", "freeown"}
                               THEN {thread[t].page} ELSE {})
           uses(p) == {r \in 1 .. NRoots : kheaproots[r].page = p}
           heap(p) == {r \in Listed : pagerefs[r].page = p}
           wholes(p) == {h \in whole : p \in h.pages}
           threads(p) == {t \in KThreads : p \in hands(t)}
           count(p) == (IF p \in kpages THEN 1 ELSE 0) + Cardinality(uses(p))
                         + Cardinality(heap(p)) + Cardinality(wholes(p))
                         + Cardinality(threads(p))
<1>1. ASSUME HeapInv, HeapRunning, NEW p \in Pages PROVE count(p) = 1
  <2>1. \E k, x :
          /\ k \in {"free", "root", "heap", "whole", "page", "va"}
          /\ p \in kpages <=> k = "free"
          /\ uses(p) = If(k = "root", x)
          /\ heap(p) = If(k = "heap", x)
          /\ wholes(p) = If(k = "whole", x)
          /\ threads(p) = If(k \in {"page", "va"}, x)
    BY <1>1, UsersOf, Zenon
  <2> HIDE DEF uses, heap, wholes, threads
  <2>2. PICK k, x :
          /\ k \in {"free", "root", "heap", "whole", "page", "va"}
          /\ p \in kpages <=> k = "free"
          /\ uses(p) = If(k = "root", x)
          /\ heap(p) = If(k = "heap", x)
          /\ wholes(p) = If(k = "whole", x)
          /\ threads(p) = If(k \in {"page", "va"}, x)
    BY <2>1, Zenon
  <2>3. Cardinality({}) = 0 /\ Cardinality({x}) = 1
    BY FS_EmptySet, FS_Singleton, Zenon
  <2>4. /\ Cardinality(uses(p)) = IF k = "root" THEN 1 ELSE 0
        /\ Cardinality(heap(p)) = IF k = "heap" THEN 1 ELSE 0
        /\ Cardinality(wholes(p)) = IF k = "whole" THEN 1 ELSE 0
        /\ Cardinality(threads(p)) = IF k \in {"page", "va"} THEN 1 ELSE 0
    BY <2>2, <2>3, Zenon DEF If
  <2> QED
    BY <2>2, <2>4
<1>2. HeapInv => (HeapRunning => \A p \in Pages : count(p) = 1)
  BY <1>1, Zenon
<1> QED
  BY <1>2, Zenon DEF PagesAccounted

LEMMA BlocksHold == HeapInv => BlocksAccounted
<1> SUFFICES ASSUME HeapInv, NEW r \in Listed
             PROVE  LET starred == {i \in DOMAIN subpage_stats(r) : subpage_stats(r)[i] = "*"}
                        owned == {h \in held : h.pages = {pagerefs[r].page}}
                    IN /\ starred = {h.block : h \in owned}
                       /\ Cardinality(owned) = Cardinality(starred)
                       /\ starred # {}
  BY Zenon DEF BlocksAccounted
<1> DEFINE stars == Stars(pagerefs[r])
           owned == {h \in held : h.pages = {pagerefs[r].page}}
<1>1. stars = {h.block : h \in owned} /\ stars # {}
  BY Zenon DEF HeapInv, BlocksOK, PageOK, Owned
<1>2. PICK f \in [owned -> stars] :
        /\ \A g, h \in owned : f[g] = f[h] => g = h
        /\ \A b \in stars : \E h \in owned : f[h] = b
  BY HoldersMatch, Zenon
<1>3. IsFiniteSet(stars)
  <2>1. Blocks(pagerefs[r].bt) \in Nat
    <3>1. pagerefs[r] \in Pagerefs
      BY ListedPage, Zenon DEF HeapInv
    <3> QED
      BY <3>1, BlockCount, Zenon DEF Pagerefs
  <2>2. IsFiniteSet(0 .. Blocks(pagerefs[r].bt) - 1)
    BY <2>1, FS_Interval
  <2>3. stars \in SUBSET (0 .. Blocks(pagerefs[r].bt) - 1)
    BY Zenon DEF Stars
  <2> QED
    BY <2>2, <2>3, FS_Subset, Zenon
<1> HIDE DEF stars, owned
<1>4. f \in Injection(owned, stars)
  <2>1. DOMAIN f = owned
    BY Zenon
  <2> QED
    BY <1>2, <2>1, Zenon DEF Injection, IsInjective
<1>5. IsFiniteSet(owned)
  BY <1>3, <1>4, FS_Injection, Zenon
<1>6. Cardinality(owned) = Cardinality(stars)
  BY <1>2, <1>5, SameSize, Zenon
<1> QED
  BY <1>1, <1>6, StarsDrawn, Zenon DEF stars, owned

----------------------------------------------------------------------------
(* HeapInv is an invariant: whatever the order in which threads allocate,  *)
(* release, look for a pageref and come back without kmalloc_spinlock, the *)
(* heap's lists, free lists, pagerefs and pages agree.                     *)
THEOREM HeapInductive == HeapSpec => []HeapInv
<1>1. HeapInit => HeapInv
  BY HeapStart, CountingHolds, Zenon
<1>2. HeapInv /\ [HeapNext]_kmvars => HeapInv'
  BY HeapStep, PigeonholeHolds, CountingHolds, LeastHolds, Zenon
<1> QED
  BY <1>1, <1>2, PTL DEF HeapSpec

(* kmalloc hands no block out twice, kfree loses none, and the map         *)
(* kheap_printstats prints shows a star for exactly the blocks held.       *)
THEOREM BlocksOwned == HeapSpec => []BlocksAccounted
<1>1. HeapInv => BlocksAccounted
  BY BlocksHold, Zenon
<1> QED
  BY <1>1, HeapInductive, PTL

(* No assertion of checksubpages fails, no page of the kernel is lost or   *)
(* used twice, and no pageref describes two pages, although kmalloc lets   *)
(* go of kmalloc_spinlock around alloc_kpages and free_kpages.             *)
THEOREM HeapSound == HeapSpec => []HeapIsSound
<1>1. HeapInv => HeapIsSound
  BY TypesHold, ConsistentHolds, PagesHold, RefsApart, Zenon DEF HeapIsSound
<1> QED
  BY <1>1, HeapInductive, PTL
=============================================================================
