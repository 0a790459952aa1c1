---------------------------- MODULE MemoryProofs ----------------------------
(***************************************************************************)
(* Proofs about the memory of the machine, for any number of frames,       *)
(* threads and pages and any page size: the frames of the coremap, the     *)
(* layout and demand loading of an address space, and copying between the  *)
(* kernel and user memory.                                                 *)
(***************************************************************************)
EXTENDS Coremap, AddrSpace, CopyInOut, TLAPS

-----------------------------------------------------------------------------
(* The address space: pages and offsets.                                   *)

\* A byte address is its page's and an offset.
LEMMA Division ==
  ASSUME NEW a \in Nat
  PROVE  /\ PageOf(a) \in Nat /\ Offset(a) \in Nat /\ Base(a) \in Nat
         /\ Offset(a) < PAGE_SIZE
         /\ Base(a) = PAGE_SIZE * PageOf(a)
         /\ a = Base(a) + Offset(a)
<1> DEFINE P == PAGE_SIZE
<1>1. P \in Nat /\ P > 0
  BY AddrSpaceAssumption
<1>2. a \div P \in Nat /\ a % P \in Nat /\ a % P < P /\ a = P * (a \div P) + (a % P)
  BY <1>1
<1> QED
  BY <1>1, <1>2 DEF PageOf, Offset, Base

\* Only one multiple of the page size is within a page of an address.
LEMMA OneBase ==
  ASSUME NEW p \in Nat, NEW q \in Nat, p < q
  PROVE  PAGE_SIZE * p + PAGE_SIZE <= PAGE_SIZE * q
<1>1. PAGE_SIZE \in Nat /\ PAGE_SIZE > 0
  BY AddrSpaceAssumption
<1>2. PAGE_SIZE * (p + 1) = PAGE_SIZE * p + PAGE_SIZE
  BY <1>1
<1>3. PICK d \in Nat : q = (p + 1) + d
  BY q - (p + 1) \in Nat, q = (p + 1) + (q - (p + 1)), Zenon
<1>4. PAGE_SIZE * q = PAGE_SIZE * (p + 1) + PAGE_SIZE * d /\ PAGE_SIZE * d >= 0
  BY <1>1, <1>3
<1> QED
  BY <1>1, <1>2, <1>4
LEMMA PageIsNat == PAGE_SIZE \in Nat /\ PAGE_SIZE > 0
BY AddrSpaceAssumption

\* An address lies in its page.
LEMMA InItsPage ==
  ASSUME NEW a \in Nat
  PROVE  /\ PageOf(a) \in Nat /\ Offset(a) \in Nat /\ Base(a) \in Nat
         /\ Offset(a) < PAGE_SIZE /\ a = Base(a) + Offset(a)
         /\ Base(a) <= a /\ a < Base(a) + PAGE_SIZE
<1>1. /\ PageOf(a) \in Nat /\ Offset(a) \in Nat /\ Base(a) \in Nat
      /\ Offset(a) < PAGE_SIZE /\ a = Base(a) + Offset(a)
  BY Division, Zenon
<1> QED
  BY <1>1, PageIsNat

\* Pages that follow each other are a page size apart.
LEMMA PagesApart ==
  ASSUME NEW a \in Nat, NEW b \in Nat
  PROVE  /\ PageOf(a) < PageOf(b) => Base(a) + PAGE_SIZE <= Base(b)
         /\ PageOf(a) = PageOf(b) <=> Base(a) = Base(b)
<1>1. /\ PageOf(a) \in Nat /\ Base(a) = PAGE_SIZE * PageOf(a) /\ Base(a) \in Nat
      /\ PageOf(b) \in Nat /\ Base(b) = PAGE_SIZE * PageOf(b) /\ Base(b) \in Nat
  BY Division, Zenon
<1>2. PageOf(a) < PageOf(b) => Base(a) + PAGE_SIZE <= Base(b)
  BY <1>1, OneBase, Zenon
<1>3. PageOf(b) < PageOf(a) => Base(b) + PAGE_SIZE <= Base(a)
  BY <1>1, OneBase, Zenon
<1>4. PageOf(a) = PageOf(b) => Base(a) = Base(b)
  BY <1>1, Zenon
<1>5. /\ PageOf(a) \in Nat /\ Base(a) \in Nat /\ PageOf(b) \in Nat /\ Base(b) \in Nat
  BY <1>1, Zenon
<1> QED
  BY <1>2, <1>3, <1>4, <1>5, PageIsNat

\* The addresses of the page at Base(a).
LEMMA SamePage ==
  ASSUME NEW a \in Nat, NEW b \in Nat, Base(a) <= b, b < Base(a) + PAGE_SIZE
  PROVE  PageOf(b) = PageOf(a) /\ Base(b) = Base(a)
<1>1. /\ PageOf(a) \in Nat /\ Base(a) \in Nat /\ PageOf(b) \in Nat /\ Base(b) \in Nat
      /\ Base(b) <= b /\ b < Base(b) + PAGE_SIZE
  BY InItsPage, Zenon
<1>2. ~(PageOf(a) < PageOf(b)) /\ ~(PageOf(b) < PageOf(a))
  BY <1>1, PagesApart, PageIsNat
<1> QED
  BY <1>1, <1>2, PagesApart

\* The address with page q and offset 0.
LEMMA PageStart ==
  ASSUME NEW q \in Nat
  PROVE  /\ PAGE_SIZE * q \in Nat /\ PageOf(PAGE_SIZE * q) = q
         /\ Base(PAGE_SIZE * q) = PAGE_SIZE * q
<1> DEFINE b == PAGE_SIZE * q
<1>1. b \in Nat
  BY PageIsNat
<1>2. /\ PageOf(b) \in Nat /\ Base(b) = PAGE_SIZE * PageOf(b)
      /\ Base(b) \in Nat /\ Base(b) <= b /\ b < Base(b) + PAGE_SIZE
  BY <1>1, Division, InItsPage, Zenon
<1> HIDE DEF b
<1>3. ~(PageOf(b) < q) /\ ~(q < PageOf(b))
  BY <1>1, <1>2, OneBase, PageIsNat DEF b
<1>4. PageOf(b) = q
  BY <1>2, <1>3
<1> QED
  BY <1>1, <1>2, <1>4, Zenon DEF b

\* Page numbers are monotonic.
LEMMA PagesInOrder ==
  ASSUME NEW a \in Nat, NEW b \in Nat, a <= b
  PROVE  PageOf(a) <= PageOf(b) /\ Base(a) <= Base(b)
<1>1. /\ PageOf(a) \in Nat /\ PageOf(b) \in Nat /\ Base(a) \in Nat /\ Base(b) \in Nat
      /\ Base(a) <= a /\ b < Base(b) + PAGE_SIZE
  BY InItsPage, Zenon
<1>2. ~(PageOf(b) < PageOf(a))
  BY <1>1, PagesApart, PageIsNat
<1> QED
  BY <1>1, <1>2, PagesApart, PageIsNat

\* Counting pages from the page of f on.
LEMMA PageFrom ==
  ASSUME NEW a \in Nat, NEW f \in Nat, Base(f) <= a
  PROVE  a - Base(f) \in Nat /\ PageOf(a - Base(f)) = PageOf(a) - PageOf(f)
<1>1. /\ PageOf(a) \in Nat /\ Base(a) = PAGE_SIZE * PageOf(a) /\ Base(a) \in Nat
      /\ PageOf(f) \in Nat /\ Base(f) = PAGE_SIZE * PageOf(f) /\ Base(f) \in Nat
      /\ Base(a) <= a /\ a < Base(a) + PAGE_SIZE
  BY Division, InItsPage, Zenon
<1>2. PageOf(f) <= PageOf(a)
  <2>1. PageOf(Base(f)) = PageOf(f)
    BY <1>1, PageStart, Zenon
  <2> QED
    BY <1>1, <2>1, PagesInOrder, Zenon
<1>n. a - Base(f) \in Nat
  BY <1>1
<1> DEFINE q == PageOf(a) - PageOf(f)
<1>3. q \in Nat /\ PAGE_SIZE * q = Base(a) - Base(f)
  BY <1>1, <1>2, PageIsNat
<1> HIDE DEF q
<1>4. PageOf(PAGE_SIZE * q) = q /\ Base(PAGE_SIZE * q) = PAGE_SIZE * q /\ PAGE_SIZE * q \in Nat
  BY <1>3, PageStart, Zenon
<1>5. PageOf(a - Base(f)) = PageOf(PAGE_SIZE * q)
  <2> DEFINE b == PAGE_SIZE * q
  <2>1. b \in Nat /\ Base(b) = b /\ b = Base(a) - Base(f)
    BY <1>3, <1>4, Zenon
  <2> HIDE DEF b
  <2>2. Base(b) <= a - Base(f) /\ a - Base(f) < Base(b) + PAGE_SIZE
    BY <1>1, <2>1, PageIsNat
  <2> QED
    BY <1>n, <2>1, <2>2, SamePage, Zenon DEF b
<1> QED
  BY <1>n, <1>4, <1>5, Zenon DEF q


\* DivRoundUp counts the pages of n bytes.
LEMMA PagesOfBytes ==
  ASSUME NEW n \in Nat, n > 0
  PROVE  DivRoundUp(n) = PageOf(n - 1) + 1
<1> DEFINE m == n - 1
<1>1. m \in Nat
  OBVIOUS
<1> HIDE DEF m
<1>2. /\ PageOf(m) \in Nat /\ Base(m) = PAGE_SIZE * PageOf(m) /\ Base(m) \in Nat
      /\ Base(m) <= m /\ m < Base(m) + PAGE_SIZE
  BY <1>1, Division, InItsPage, Zenon
<1> DEFINE b == PAGE_SIZE * (PageOf(m) + 1)
<1>3. PageOf(m) + 1 \in Nat /\ b = Base(m) + PAGE_SIZE
  BY <1>2, PageIsNat
<1>4. b \in Nat /\ PageOf(b) = PageOf(m) + 1 /\ Base(b) = b
  BY <1>3, PageStart, Zenon
<1> HIDE DEF b
<1>5. m + PAGE_SIZE \in Nat /\ Base(b) <= m + PAGE_SIZE /\ m + PAGE_SIZE < Base(b) + PAGE_SIZE
  BY <1>1, <1>2, <1>3, <1>4, PageIsNat
<1>6. PageOf(m + PAGE_SIZE) = PageOf(m) + 1
  BY <1>4, <1>5, SamePage, Zenon
<1>7. n + PAGE_SIZE - 1 = m + PAGE_SIZE
  BY PageIsNat DEF m
<1> QED
  BY <1>6, <1>7, Zenon DEF DivRoundUp, PageOf, m

\* as_check_in_elf asks whether the page starts before the end e.
LEMMA RoundedUp ==
  ASSUME NEW a \in Nat, NEW e \in Nat
  PROVE  a < RoundUp(e) <=> Base(a) < e
<1> DEFINE c == e + PAGE_SIZE - 1
<1>1. c \in Nat
  BY PageIsNat
<1>2. /\ PageOf(a) \in Nat /\ Base(a) \in Nat /\ Base(a) <= a /\ a < Base(a) + PAGE_SIZE
      /\ PageOf(c) \in Nat /\ Base(c) \in Nat /\ Base(c) <= c /\ c < Base(c) + PAGE_SIZE
  BY <1>1, InItsPage, Zenon
<1>3. PageOf(a) < PageOf(c) => Base(a) + PAGE_SIZE <= Base(c)
  BY <1>1, PagesApart, Zenon
<1>4. PageOf(c) <= PageOf(a) => Base(c) <= Base(a)
  <2> SUFFICES ASSUME PageOf(c) <= PageOf(a) PROVE Base(c) <= Base(a)
    OBVIOUS
  <2>1. CASE PageOf(c) = PageOf(a)
    BY <1>1, <1>2, <2>1, PagesApart
  <2>2. CASE PageOf(c) < PageOf(a)
    <3>1. Base(c) + PAGE_SIZE <= Base(a)
      BY <1>1, <2>2, PagesApart, Zenon
    <3> QED
      BY <1>2, <3>1, PageIsNat
  <2> QED
    BY <1>2, <2>1, <2>2
<1>5. CASE PageOf(a) < PageOf(c)
  BY <1>2, <1>3, <1>5, PageIsNat DEF RoundUp
<1>6. CASE PageOf(c) <= PageOf(a)
  BY <1>2, <1>4, <1>6, PageIsNat DEF RoundUp
<1> QED
  BY <1>2, <1>5, <1>6

-----------------------------------------------------------------------------
StackBase == USERSPACETOP - VM_STACKPAGES * PAGE_SIZE

\* A segment as segment_define leaves it: not empty, with no more bytes in the
\* file than in memory, and with the number of pages it touches.
Laid(seg) ==
  /\ seg \in Segment
  /\ seg.seg_first_vaddr < seg.seg_last_vaddr
  /\ seg.seg_last_vaddr <= USERSPACETOP
  /\ seg.seg_elf_size <= seg.seg_last_vaddr - seg.seg_first_vaddr
  /\ seg.seg_npages = PageOf(seg.seg_last_vaddr - 1) - PageOf(seg.seg_first_vaddr) + 1

\* The pages of s come before those of t.
Before(s, t) == PageOf(s.seg_last_vaddr - 1) < PageOf(t.seg_first_vaddr)

\* What is known of the address space at each stage of its construction.
Stages ==
  /\ as_text # NULL => Laid(as_text) /\ as_text.seg_last_vaddr <= StackBase
  /\ as_data # NULL => /\ as_text # NULL
                       /\ Laid(as_data) /\ as_data.seg_last_vaddr <= StackBase
                       /\ Before(as_text, as_data)
  /\ as_stack # NULL => /\ as_data # NULL
                        /\ Laid(as_stack) /\ as_stack.seg_elf_size = 0
                        /\ Before(as_data, as_stack)
  /\ pt_size # 0 =>
       /\ as_stack # NULL
       /\ pt_size = as_data.seg_npages + as_text.seg_npages + as_stack.seg_npages

\* The inductive invariant.
AsInv ==
  /\ Stages
  /\ AsTypeOK
  /\ fault # NULL => pt_size # 0 /\ as_get_segment(fault) # NULL
  /\ PageIsLoaded

\* The stack segment takes the last pages below USERSPACETOP.
LEMMA StackPages ==
  /\ StackBase \in Nat /\ StackBase < USERSPACETOP /\ USERSPACETOP \in Nat
  /\ Base(StackBase) = StackBase
  /\ VM_STACKPAGES = PageOf(USERSPACETOP - 1) - PageOf(StackBase) + 1
<1> DEFINE T == PageOf(USERSPACETOP)
           V == VM_STACKPAGES
<1>0. USERSPACETOP \in Nat /\ V \in Nat /\ V > 0 /\ V * PAGE_SIZE <= USERSPACETOP
  BY AddrSpaceAssumption
<1>1. T \in Nat /\ USERSPACETOP = PAGE_SIZE * T
  <2>1. Offset(USERSPACETOP) = 0
    BY AddrSpaceAssumption, Zenon DEF Offset
  <2>2. /\ T \in Nat /\ Base(USERSPACETOP) \in Nat /\ Base(USERSPACETOP) = PAGE_SIZE * T
        /\ USERSPACETOP = Base(USERSPACETOP) + Offset(USERSPACETOP)
    BY <1>0, Division, Zenon
  <2>3. USERSPACETOP = Base(USERSPACETOP)
    <3> HIDE DEF T
    <3> QED
      BY <2>1, <2>2
  <2> QED
    BY <2>2, <2>3, Zenon
<1> HIDE DEF T
<1>2. V * PAGE_SIZE = PAGE_SIZE * V /\ PAGE_SIZE * V \in Nat
  BY <1>0, PageIsNat
<1>3. V <= T
  <2>1. T < V => PAGE_SIZE * T + PAGE_SIZE <= PAGE_SIZE * V
    BY <1>0, <1>1, OneBase, Zenon
  <2>2. PAGE_SIZE * T \in Nat
    BY <1>0, <1>1, Zenon
  <2> DEFINE x == PAGE_SIZE * T
             y == PAGE_SIZE * V
  <2>3. x \in Nat /\ y \in Nat /\ y <= x /\ (T < V => x + PAGE_SIZE <= y)
    BY <1>0, <1>1, <1>2, <2>1, <2>2, Zenon
  <2> HIDE DEF x, y
  <2> QED
    BY <1>0, <1>1, <2>3, PageIsNat
<1>4. T - V \in Nat /\ T - 1 \in Nat
  BY <1>0, <1>1, <1>3
<1>5. StackBase = PAGE_SIZE * (T - V)
  BY <1>0, <1>1, <1>2, PageIsNat DEF StackBase
<1>6. StackBase \in Nat /\ PageOf(StackBase) = T - V /\ Base(StackBase) = StackBase
  BY <1>4, <1>5, PageStart, Zenon
<1> DEFINE z == PAGE_SIZE * (T - 1)
<1>7. z \in Nat /\ PageOf(z) = T - 1 /\ Base(z) = z
  BY <1>4, PageStart, Zenon
<1>8. z + PAGE_SIZE = USERSPACETOP
  BY <1>1, PageIsNat
<1> HIDE DEF z
<1>9. USERSPACETOP - 1 \in Nat /\ Base(z) <= USERSPACETOP - 1 /\ USERSPACETOP - 1 < Base(z) + PAGE_SIZE
  BY <1>0, <1>7, <1>8, PageIsNat
<1>10. PageOf(USERSPACETOP - 1) = T - 1
  BY <1>7, <1>9, SamePage, Zenon
<1>11. V = (T - 1) - (T - V) + 1
  BY <1>0, <1>1
<1>12. StackBase < USERSPACETOP
  <2>1. PAGE_SIZE * (T - V) <= z
    <3>1. CASE V = 1
      BY <1>1, <1>7, <3>1, PageIsNat DEF z
    <3>2. CASE T - V < T - 1
      <4>1. PAGE_SIZE * (T - V) + PAGE_SIZE <= z
        BY <1>4, <3>2, OneBase, Zenon DEF z
      <4> QED
        BY <1>5, <1>6, <1>7, <4>1, PageIsNat
    <3> QED
      BY <1>0, <1>1, <3>1, <3>2
  <2> QED
    BY <1>5, <1>6, <1>7, <1>8, <2>1, PageIsNat
<1> QED
  BY <1>0, <1>6, <1>10, <1>11, <1>12, Zenon

\* as_define_region lays out a segment.
LEMMA RegionLaid ==
  ASSUME NEW r \in TextRegions \cup DataRegions, r.vaddr + r.memsz <= StackBase
  PROVE  /\ Laid(RegionSegment(r))
         /\ RegionSegment(r).seg_last_vaddr <= StackBase
         /\ RegionSegment(r).seg_first_vaddr = r.vaddr
<1> DEFINE v == r.vaddr
           m == r.memsz
           n == DivRoundUp(m + Offset(v))
           s == RegionSegment(r)
<1>1. v \in Nat /\ m \in Nat /\ m > 0 /\ r.filesz \in Nat /\ r.offset \in Nat
  BY AddrSpaceAssumption
<1>2. /\ s.seg_first_vaddr = v /\ s.seg_last_vaddr = v + m /\ s.seg_npages = n
      /\ s.seg_elf_offset = r.offset /\ s.seg_elf_size = MinOf(r.filesz, (v + m) - v)
      /\ s = [seg_first_vaddr |-> v, seg_last_vaddr |-> v + m, seg_npages |-> n,
              seg_elf_offset |-> r.offset, seg_elf_size |-> MinOf(r.filesz, (v + m) - v)]
  BY Zenon DEF RegionSegment, segment_define
<1>3. v + m <= StackBase /\ StackBase \in Nat /\ StackBase < USERSPACETOP /\ USERSPACETOP \in Nat
  BY StackPages, Zenon
<1> HIDE DEF v, m
<1>4. MinOf(r.filesz, (v + m) - v) \in Nat /\ MinOf(r.filesz, (v + m) - v) <= (v + m) - v
  BY <1>1 DEF MinOf
<1>5. n \in Nat /\ n = PageOf((v + m) - 1) - PageOf(v) + 1
  <2>1. /\ Offset(v) \in Nat /\ Base(v) \in Nat /\ v = Base(v) + Offset(v)
        /\ PageOf(v) \in Nat
    BY <1>1, InItsPage, Zenon
  <2>2. /\ m + Offset(v) \in Nat /\ m + Offset(v) > 0 /\ (v + m) - 1 \in Nat
        /\ Base(v) <= (v + m) - 1 /\ ((v + m) - 1) - Base(v) = (m + Offset(v)) - 1
    BY <1>1, <2>1
  <2>3. n = PageOf((m + Offset(v)) - 1) + 1
    BY <2>2, PagesOfBytes, Zenon
  <2>4. /\ ((v + m) - 1) - Base(v) \in Nat
        /\ PageOf(((v + m) - 1) - Base(v)) = PageOf((v + m) - 1) - PageOf(v)
    BY <1>1, <2>2, PageFrom, Zenon
  <2>5. PageOf(((v + m) - 1) - Base(v)) \in Nat
    BY <2>4, InItsPage, Zenon
  <2> QED
    BY <2>2, <2>3, <2>4, <2>5
<1> HIDE DEF n, s
<1>6. s \in Segment
  <2>1. v + m \in Nat
    BY <1>1
  <2> QED
    BY <1>1, <1>2, <1>4, <1>5, <2>1, Zenon DEF Segment
<1>7. v < v + m /\ v + m <= USERSPACETOP
  BY <1>1, <1>3
<1>8. Laid(s)
  BY <1>2, <1>4, <1>5, <1>6, <1>7, Zenon DEF Laid
<1> QED
  BY <1>2, <1>3, <1>8, Zenon DEF s, v, m



-----------------------------------------------------------------------------
\* The address space once as_define_pt has run.
Layout ==
  /\ Laid(as_text) /\ Laid(as_data) /\ Laid(as_stack)
  /\ as_text # NULL /\ as_data # NULL /\ as_stack # NULL
  /\ Before(as_text, as_data) /\ Before(as_data, as_stack)
  /\ as_stack.seg_elf_size = 0
  /\ pt_size = as_data.seg_npages + as_text.seg_npages + as_stack.seg_npages

LEMMA LaidOut == Stages /\ pt_size # 0 => Layout
BY Zenon DEF Stages, Layout

LEMMA SegmentFields ==
  ASSUME NEW seg, Laid(seg)
  PROVE  /\ seg.seg_first_vaddr \in Nat /\ seg.seg_last_vaddr \in Nat /\ seg.seg_npages \in Nat
         /\ seg.seg_elf_offset \in Nat /\ seg.seg_elf_size \in Nat
         /\ seg.seg_last_vaddr - 1 \in Nat /\ seg.seg_first_vaddr <= seg.seg_last_vaddr - 1
         /\ seg.seg_last_vaddr <= USERSPACETOP
         /\ PageOf(seg.seg_first_vaddr) \in Nat /\ PageOf(seg.seg_last_vaddr - 1) \in Nat
         /\ PageOf(seg.seg_first_vaddr) <= PageOf(seg.seg_last_vaddr - 1)
         /\ seg.seg_npages = PageOf(seg.seg_last_vaddr - 1) - PageOf(seg.seg_first_vaddr) + 1
         /\ ElfEnd(seg) \in Nat /\ ElfEnd(seg) = seg.seg_first_vaddr + seg.seg_elf_size
<1>1. /\ seg.seg_first_vaddr \in Nat /\ seg.seg_last_vaddr \in Nat /\ seg.seg_npages \in Nat
      /\ seg.seg_elf_offset \in Nat /\ seg.seg_elf_size \in Nat
      /\ seg.seg_first_vaddr < seg.seg_last_vaddr
  BY Zenon DEF Laid, Segment
<1>2. seg.seg_last_vaddr - 1 \in Nat /\ seg.seg_first_vaddr <= seg.seg_last_vaddr - 1
  BY <1>1
<1>3. /\ PageOf(seg.seg_first_vaddr) \in Nat /\ PageOf(seg.seg_last_vaddr - 1) \in Nat
      /\ PageOf(seg.seg_first_vaddr) <= PageOf(seg.seg_last_vaddr - 1)
  BY <1>1, <1>2, InItsPage, PagesInOrder, Zenon
<1>4. ElfEnd(seg) \in Nat /\ ElfEnd(seg) = seg.seg_first_vaddr + seg.seg_elf_size
  BY <1>1 DEF ElfEnd
<1> QED
  BY <1>1, <1>2, <1>3, <1>4, Zenon DEF Laid

\* The addresses of an earlier segment are lower.
LEMMA LowerAddresses ==
  ASSUME NEW s, NEW t, Laid(s), Laid(t), Before(s, t)
  PROVE  s.seg_last_vaddr <= t.seg_first_vaddr
<1>1. /\ s.seg_last_vaddr \in Nat /\ t.seg_first_vaddr \in Nat /\ s.seg_last_vaddr - 1 \in Nat
      /\ PageOf(t.seg_first_vaddr) \in Nat /\ PageOf(s.seg_last_vaddr - 1) \in Nat
  BY SegmentFields, Zenon
<1>2. t.seg_first_vaddr <= s.seg_last_vaddr - 1
        => PageOf(t.seg_first_vaddr) <= PageOf(s.seg_last_vaddr - 1)
  BY <1>1, PagesInOrder, Zenon
<1> QED
  BY <1>1, <1>2 DEF Before

\* No address is in two segments, and as_get_segment finds the one it is in.
LEMMA Found ==
  ASSUME Layout, NEW a \in Nat
  PROVE  /\ Within(as_text, a) => as_get_segment(a) = as_text
         /\ Within(as_data, a) => as_get_segment(a) = as_data
         /\ Within(as_stack, a) => as_get_segment(a) = as_stack
         /\ as_get_segment(a) # NULL <=>
              Within(as_text, a) \/ Within(as_data, a) \/ Within(as_stack, a)
<1>1. /\ as_text.seg_last_vaddr \in Nat /\ as_text.seg_first_vaddr \in Nat
      /\ as_data.seg_last_vaddr \in Nat /\ as_data.seg_first_vaddr \in Nat
      /\ as_stack.seg_last_vaddr \in Nat /\ as_stack.seg_first_vaddr \in Nat
      /\ as_data.seg_first_vaddr <= as_data.seg_last_vaddr - 1
      /\ as_text.seg_last_vaddr <= as_data.seg_first_vaddr
      /\ as_data.seg_last_vaddr <= as_stack.seg_first_vaddr
  BY SegmentFields, LowerAddresses, Zenon DEF Layout
<1>2. /\ ~(Within(as_text, a) /\ Within(as_data, a))
      /\ ~(Within(as_text, a) /\ Within(as_stack, a))
      /\ ~(Within(as_data, a) /\ Within(as_stack, a))
  BY <1>1 DEF Within
<1>3. as_text # NULL /\ as_data # NULL /\ as_stack # NULL
  BY Zenon DEF Layout
<1> QED
  BY <1>2, <1>3, Zenon DEF as_get_segment

\* The segments differ.
LEMMA SegmentsDiffer ==
  ASSUME Layout
  PROVE  as_text # as_data /\ as_text # as_stack /\ as_data # as_stack
<1>1. /\ as_text.seg_first_vaddr \in Nat /\ as_data.seg_first_vaddr \in Nat
      /\ as_stack.seg_first_vaddr \in Nat
      /\ as_text.seg_last_vaddr \in Nat /\ as_data.seg_last_vaddr \in Nat
      /\ as_text.seg_first_vaddr <= as_text.seg_last_vaddr - 1
      /\ as_data.seg_first_vaddr <= as_data.seg_last_vaddr - 1
      /\ as_text.seg_last_vaddr <= as_data.seg_first_vaddr
      /\ as_data.seg_last_vaddr <= as_stack.seg_first_vaddr
  BY SegmentFields, LowerAddresses, Zenon DEF Layout
<1>2. /\ as_text.seg_first_vaddr # as_data.seg_first_vaddr
      /\ as_text.seg_first_vaddr # as_stack.seg_first_vaddr
      /\ as_data.seg_first_vaddr # as_stack.seg_first_vaddr
  BY <1>1
<1> QED
  BY <1>2, Zenon

\* The pages of a segment.
LEMMA PagesWithin ==
  ASSUME NEW seg, Laid(seg), NEW a \in Nat, Within(seg, a)
  PROVE  /\ PageOf(a) \in Nat
         /\ PageOf(seg.seg_first_vaddr) <= PageOf(a)
         /\ PageOf(a) <= PageOf(seg.seg_last_vaddr - 1)
         /\ PageInSegment(seg, a) = PageOf(a) - PageOf(seg.seg_first_vaddr)
<1> DEFINE f == seg.seg_first_vaddr
           l == seg.seg_last_vaddr
<1>1. f \in Nat /\ l \in Nat /\ l - 1 \in Nat /\ a >= f /\ a < l
  BY SegmentFields, Zenon DEF Within
<1> HIDE DEF f, l
<1>2. f <= a /\ a <= l - 1
  BY <1>1
<1>3. PageOf(a) \in Nat /\ PageOf(f) <= PageOf(a) /\ PageOf(a) <= PageOf(l - 1)
  BY <1>1, <1>2, PagesInOrder, InItsPage, Zenon
<1>4. Base(f) <= a
  <2>1. Base(f) \in Nat /\ Base(f) <= f
    BY <1>1, InItsPage, Zenon
  <2> QED
    BY <1>1, <1>2, <2>1
<1>5. PageOf(a - Base(f)) = PageOf(a) - PageOf(f)
  BY <1>1, <1>4, PageFrom, Zenon
<1> QED
  BY <1>3, <1>5, Zenon DEF PageInSegment, f, l

\* Every page of a segment has an address in it.
LEMMA PageHasAddress ==
  ASSUME NEW seg, Laid(seg), NEW j \in Nat, j < seg.seg_npages
  PROVE  \E a \in 0 .. USERSPACETOP - 1 :
           Within(seg, a) /\ PageOf(a) = PageOf(seg.seg_first_vaddr) + j
<1> DEFINE f == seg.seg_first_vaddr
           l == seg.seg_last_vaddr
           b == PAGE_SIZE * (PageOf(f) + j)
<1>1. /\ f \in Nat /\ l \in Nat /\ l - 1 \in Nat /\ f <= l - 1 /\ l <= USERSPACETOP
      /\ PageOf(f) \in Nat /\ PageOf(l - 1) \in Nat
      /\ seg.seg_npages = PageOf(l - 1) - PageOf(f) + 1
  BY SegmentFields, Zenon
<1>t. USERSPACETOP \in Nat
  BY AddrSpaceAssumption, Zenon
<1> HIDE DEF f, l
<1>2. CASE j = 0
  <2>1. f \in 0 .. USERSPACETOP - 1 /\ f >= f /\ f < l /\ PageOf(f) = PageOf(f) + j
    BY <1>1, <1>2, <1>t
  <2> QED
    BY <2>1, Zenon DEF Within, f, l
<1>3. CASE j > 0
  <2>1. PageOf(f) + j \in Nat /\ PageOf(f) < PageOf(f) + j /\ PageOf(f) + j <= PageOf(l - 1)
    BY <1>1, <1>3
  <2>2. b \in Nat /\ PageOf(b) = PageOf(f) + j /\ Base(b) = b
    BY <2>1, PageStart, Zenon
  <2> HIDE DEF b
  <2>3. Base(f) + PAGE_SIZE <= b
    <3>1. PageOf(f) < PageOf(b)
      BY <2>1, <2>2, Zenon
    <3>2. Base(f) + PAGE_SIZE <= Base(b)
      BY <1>1, <2>2, <3>1, PagesApart, Zenon
    <3> QED
      BY <2>2, <3>2, Zenon
  <2>4. f < Base(f) + PAGE_SIZE /\ Base(f) \in Nat
    BY <1>1, InItsPage, Zenon
  <2>5. b <= l - 1
    <3>1. Base(l - 1) \in Nat /\ Base(l - 1) <= l - 1
      BY <1>1, InItsPage, Zenon
    <3>2. CASE PageOf(b) = PageOf(l - 1)
      <4>1. Base(b) = Base(l - 1)
        BY <1>1, <2>2, <3>2, PagesApart, Zenon
      <4> QED
        BY <2>2, <3>1, <4>1, Zenon
    <3>3. CASE PageOf(b) < PageOf(l - 1)
      <4>1. Base(b) + PAGE_SIZE <= Base(l - 1)
        BY <1>1, <2>2, <3>3, PagesApart, Zenon
      <4> QED
        BY <1>1, <2>2, <3>1, <4>1, PageIsNat
    <3> QED
      BY <1>1, <2>1, <2>2, <3>2, <3>3
  <2>6. b \in 0 .. USERSPACETOP - 1 /\ b >= f /\ b < l
    BY <1>1, <1>t, <2>2, <2>3, <2>4, <2>5, PageIsNat
  <2> QED
    BY <2>2, <2>6, Zenon DEF Within, f, l
<1> QED
  BY <1>2, <1>3

\* pt_get_index, segment by segment.
LEMMA Indexes ==
  ASSUME Layout, NEW a \in Nat
  PROVE  /\ Within(as_text, a) =>
              pt_get_index(a) = PageOf(a) - PageOf(as_text.seg_first_vaddr)
         /\ Within(as_data, a) =>
              pt_get_index(a) = as_text.seg_npages
                                  + (PageOf(a) - PageOf(as_data.seg_first_vaddr))
         /\ Within(as_stack, a) =>
              pt_get_index(a) = as_data.seg_npages + as_text.seg_npages
                                  + (PageOf(a) - PageOf(as_stack.seg_first_vaddr))
<1>1. as_text # as_data /\ as_text # as_stack /\ as_data # as_stack
  BY SegmentsDiffer, Zenon
<1>2. ASSUME Within(as_text, a)
      PROVE  pt_get_index(a) = PageOf(a) - PageOf(as_text.seg_first_vaddr)
  <2>1. as_get_segment(a) = as_text
    BY <1>2, Found, Zenon
  <2>2. pt_get_index(a) = PageInSegment(as_text, a)
    BY <1>1, <2>1, Zenon DEF pt_get_index
  <2> QED
    BY <1>2, <2>2, PagesWithin, Zenon DEF Layout
<1>3. ASSUME Within(as_data, a)
      PROVE  pt_get_index(a) = as_text.seg_npages
                                 + (PageOf(a) - PageOf(as_data.seg_first_vaddr))
  <2>1. as_get_segment(a) = as_data
    BY <1>3, Found, Zenon
  <2>2. pt_get_index(a) = as_text.seg_npages + PageInSegment(as_data, a)
    BY <1>1, <2>1, Zenon DEF pt_get_index
  <2> QED
    BY <1>3, <2>2, PagesWithin, Zenon DEF Layout
<1>4. ASSUME Within(as_stack, a)
      PROVE  pt_get_index(a) = as_data.seg_npages + as_text.seg_npages
                                 + (PageOf(a) - PageOf(as_stack.seg_first_vaddr))
  <2>1. as_get_segment(a) = as_stack
    BY <1>4, Found, Zenon
  <2>2. pt_get_index(a) = as_data.seg_npages + as_text.seg_npages + PageInSegment(as_stack, a)
    BY <1>1, <2>1, Zenon DEF pt_get_index
  <2> QED
    BY <1>4, <2>2, PagesWithin, Zenon DEF Layout
<1> QED
  BY <1>2, <1>3, <1>4, Zenon

\* The first and last page of the text, the data and the stack segment, and
\* what they have to do with the entries of the page table.
PageRanges(tf, tl, df, dl, sf, sl) ==
  /\ tf \in Nat /\ tl \in Nat /\ df \in Nat /\ dl \in Nat /\ sf \in Nat /\ sl \in Nat
  /\ tf = PageOf(as_text.seg_first_vaddr) /\ df = PageOf(as_data.seg_first_vaddr)
  /\ sf = PageOf(as_stack.seg_first_vaddr)
  /\ tf <= tl /\ tl < df /\ df <= dl /\ dl < sf /\ sf <= sl
  /\ as_text.seg_npages = tl - tf + 1 /\ as_data.seg_npages = dl - df + 1
  /\ as_stack.seg_npages = sl - sf + 1
  /\ pt_size = (tl - tf + 1) + (dl - df + 1) + (sl - sf + 1)
  /\ \A a \in Valid :
       /\ PageOf(a) \in Nat
       /\ \/ /\ tf <= PageOf(a) /\ PageOf(a) <= tl
             /\ pt_get_index(a) = PageOf(a) - tf
          \/ /\ df <= PageOf(a) /\ PageOf(a) <= dl
             /\ pt_get_index(a) = (tl - tf + 1) + (PageOf(a) - df)
          \/ /\ sf <= PageOf(a) /\ PageOf(a) <= sl
             /\ pt_get_index(a) = (dl - df + 1) + (tl - tf + 1) + (PageOf(a) - sf)

LEMMA EntryOfPage ==
  ASSUME Layout
  PROVE  PageRanges(PageOf(as_text.seg_first_vaddr), PageOf(as_text.seg_last_vaddr - 1),
                    PageOf(as_data.seg_first_vaddr), PageOf(as_data.seg_last_vaddr - 1),
                    PageOf(as_stack.seg_first_vaddr), PageOf(as_stack.seg_last_vaddr - 1))
<1> DEFINE tf == PageOf(as_text.seg_first_vaddr)
           tl == PageOf(as_text.seg_last_vaddr - 1)
           df == PageOf(as_data.seg_first_vaddr)
           dl == PageOf(as_data.seg_last_vaddr - 1)
           sf == PageOf(as_stack.seg_first_vaddr)
           sl == PageOf(as_stack.seg_last_vaddr - 1)
<1>1. /\ tf \in Nat /\ tl \in Nat /\ df \in Nat /\ dl \in Nat /\ sf \in Nat /\ sl \in Nat
      /\ tf <= tl /\ df <= dl /\ sf <= sl
      /\ as_text.seg_npages = tl - tf + 1 /\ as_data.seg_npages = dl - df + 1
      /\ as_stack.seg_npages = sl - sf + 1
  BY SegmentFields, Zenon DEF Layout
<1>2. tl < df /\ dl < sf
  BY Zenon DEF Layout, Before
<1>3. pt_size = as_data.seg_npages + as_text.seg_npages + as_stack.seg_npages
  BY Zenon DEF Layout
<1>4. ASSUME NEW a \in Valid
      PROVE  /\ PageOf(a) \in Nat
             /\ \/ /\ tf <= PageOf(a) /\ PageOf(a) <= tl
                   /\ pt_get_index(a) = PageOf(a) - tf
                \/ /\ df <= PageOf(a) /\ PageOf(a) <= dl
                   /\ pt_get_index(a) = as_text.seg_npages + (PageOf(a) - df)
                \/ /\ sf <= PageOf(a) /\ PageOf(a) <= sl
                   /\ pt_get_index(a) = as_data.seg_npages + as_text.seg_npages + (PageOf(a) - sf)
  <2>1. a \in Nat
    BY AddrSpaceAssumption DEF Valid
  <2>2. Within(as_text, a) \/ Within(as_data, a) \/ Within(as_stack, a)
    BY <2>1, Found, Zenon DEF Valid
  <2>3. PageOf(a) \in Nat
    BY <2>1, InItsPage, Zenon
  <2>4. CASE Within(as_text, a)
    BY <2>1, <2>3, <2>4, PagesWithin, Indexes, Zenon DEF Layout
  <2>5. CASE Within(as_data, a)
    BY <2>1, <2>3, <2>5, PagesWithin, Indexes, Zenon DEF Layout
  <2>6. CASE Within(as_stack, a)
    BY <2>1, <2>3, <2>6, PagesWithin, Indexes, Zenon DEF Layout
  <2> QED
    BY <2>2, <2>4, <2>5, <2>6, Zenon
<1> HIDE DEF tf, tl, df, dl, sf, sl
<1>5. pt_size = (tl - tf + 1) + (dl - df + 1) + (sl - sf + 1)
  BY <1>1, <1>3
<1>6. tf = PageOf(as_text.seg_first_vaddr) /\ df = PageOf(as_data.seg_first_vaddr)
      /\ sf = PageOf(as_stack.seg_first_vaddr)
  BY Zenon DEF tf, df, sf
<1>8. \A a \in Valid :
        /\ PageOf(a) \in Nat
        /\ \/ /\ tf <= PageOf(a) /\ PageOf(a) <= tl
              /\ pt_get_index(a) = PageOf(a) - tf
           \/ /\ df <= PageOf(a) /\ PageOf(a) <= dl
              /\ pt_get_index(a) = (tl - tf + 1) + (PageOf(a) - df)
           \/ /\ sf <= PageOf(a) /\ PageOf(a) <= sl
              /\ pt_get_index(a) = (dl - df + 1) + (tl - tf + 1) + (PageOf(a) - sf)
  BY <1>1, <1>4, Zenon
<1>9. PageRanges(tf, tl, df, dl, sf, sl)
  BY <1>1, <1>2, <1>5, <1>6, <1>8, Zenon DEF PageRanges
<1> QED
  BY <1>9, Zenon DEF tf, tl, df, dl, sf, sl

\* The page table has one entry for each page, and no other.
LEMMA IndexesMatch ==
  ASSUME Layout
  PROVE  /\ {pt_get_index(a) : a \in Valid} = 0 .. pt_size - 1
         /\ \A a, b \in Valid :
              pt_get_index(a) = pt_get_index(b) <=> PageOf(a) = PageOf(b)
<1>0. PICK tf, tl, df, dl, sf, sl : PageRanges(tf, tl, df, dl, sf, sl)
  BY EntryOfPage, Zenon
<1>n. /\ PageOf(as_text.seg_first_vaddr) \in Nat /\ PageOf(as_data.seg_first_vaddr) \in Nat
      /\ PageOf(as_stack.seg_first_vaddr) \in Nat
  BY <1>0, Zenon DEF PageRanges
<1>2. ASSUME NEW a \in Valid PROVE pt_get_index(a) \in 0 .. pt_size - 1
  BY <1>0 DEF PageRanges
<1>3. ASSUME NEW a \in Valid, NEW b \in Valid
      PROVE  pt_get_index(a) = pt_get_index(b) <=> PageOf(a) = PageOf(b)
  BY <1>0 DEF PageRanges
<1>4. ASSUME NEW seg, seg \in {as_text, as_data, as_stack}, NEW j \in Nat, j < seg.seg_npages
      PROVE  \E a \in Valid : Within(seg, a) /\ a \in Nat
                              /\ PageOf(a) = PageOf(seg.seg_first_vaddr) + j
  <2>1. Laid(seg)
    BY <1>4, Zenon DEF Layout
  <2>2. PICK a \in 0 .. USERSPACETOP - 1 :
          Within(seg, a) /\ PageOf(a) = PageOf(seg.seg_first_vaddr) + j
    BY <1>4, <2>1, PageHasAddress, Zenon
  <2>3. a \in Nat
    BY AddrSpaceAssumption
  <2>4. a \in Valid
    BY <1>4, <2>2, <2>3, Found, Zenon DEF Valid
  <2> QED
    BY <2>2, <2>3, <2>4, Zenon
<1>5. ASSUME NEW i \in 0 .. pt_size - 1 PROVE \E a \in Valid : pt_get_index(a) = i
  <2> DEFINE t == tl - tf + 1
             d == dl - df + 1
             s == sl - sf + 1
  <2>1. /\ t \in Nat /\ d \in Nat /\ s \in Nat /\ pt_size = t + d + s /\ i \in Nat /\ i < pt_size
        /\ as_text.seg_npages = t /\ as_data.seg_npages = d /\ as_stack.seg_npages = s
    BY <1>0 DEF PageRanges
  <2> HIDE DEF t, d, s
  <2>2. CASE i < t
    <3>1. PICK a \in Valid : /\ Within(as_text, a) /\ a \in Nat
                             /\ PageOf(a) = PageOf(as_text.seg_first_vaddr) + i
      BY <1>4, <2>1, <2>2, Zenon
    <3>2. pt_get_index(a) = PageOf(a) - PageOf(as_text.seg_first_vaddr)
      BY <3>1, Indexes, Zenon
    <3>3. pt_get_index(a) = i
      BY <1>n, <2>1, <3>1, <3>2
    <3> QED
      BY <3>3, Zenon
  <2>3. CASE t <= i /\ i < t + d
    <3>0. i - t \in Nat /\ i - t < d
      BY <2>1, <2>3
    <3>1. PICK a \in Valid : /\ Within(as_data, a) /\ a \in Nat
                             /\ PageOf(a) = PageOf(as_data.seg_first_vaddr) + (i - t)
      BY <1>4, <2>1, <3>0, Zenon
    <3>2. pt_get_index(a) = t + (PageOf(a) - PageOf(as_data.seg_first_vaddr))
      BY <2>1, <3>1, Indexes, Zenon
    <3>3. pt_get_index(a) = i
      BY <1>n, <2>1, <3>0, <3>1, <3>2
    <3> QED
      BY <3>3, Zenon
  <2>4. CASE t + d <= i
    <3>0. i - (t + d) \in Nat /\ i - (t + d) < s
      BY <2>1, <2>4
    <3>1. PICK a \in Valid : /\ Within(as_stack, a) /\ a \in Nat
                             /\ PageOf(a) = PageOf(as_stack.seg_first_vaddr) + (i - (t + d))
      BY <1>4, <2>1, <3>0, Zenon
    <3>2. pt_get_index(a) = d + t + (PageOf(a) - PageOf(as_stack.seg_first_vaddr))
      BY <2>1, <3>1, Indexes, Zenon
    <3>3. pt_get_index(a) = i
      BY <1>n, <2>1, <3>0, <3>1, <3>2
    <3> QED
      BY <3>3, Zenon
  <2> QED
    BY <2>1, <2>2, <2>3, <2>4
<1> QED
  BY <1>2, <1>3, <1>5, Zenon


-----------------------------------------------------------------------------
\* The arguments of load_page, for an address a of a page that has bytes of the
\* file: on the segment's first page the read starts in the middle of the
\* page, and on every other one at its start.
LEMMA LoadArguments ==
  ASSUME NEW seg, Laid(seg), NEW a \in Nat, Within(seg, a), Base(a) < ElfEnd(seg)
  PROVE  \/ /\ LoadTarget(seg, a) = seg.seg_first_vaddr - Base(a)
            /\ LoadOffset(seg, a) = seg.seg_elf_offset
            /\ LoadSize(seg, a) = MinOf(PAGE_SIZE - (seg.seg_first_vaddr - Base(a)), seg.seg_elf_size)
            /\ Base(a) <= seg.seg_first_vaddr /\ seg.seg_first_vaddr < Base(a) + PAGE_SIZE
         \/ /\ LoadTarget(seg, a) = 0
            /\ LoadOffset(seg, a) = seg.seg_elf_offset + Base(a) - seg.seg_first_vaddr
            /\ LoadSize(seg, a) = MinOf(PAGE_SIZE, ElfEnd(seg) - Base(a))
            /\ seg.seg_first_vaddr < Base(a)
<1> DEFINE f == seg.seg_first_vaddr
           e == ElfEnd(seg)
           B == Base(a)
<1>1. /\ f \in Nat /\ e \in Nat /\ a >= f
      /\ Base(f) \in Nat /\ Offset(f) \in Nat /\ f = Base(f) + Offset(f) /\ Offset(f) < PAGE_SIZE
      /\ Base(e) \in Nat /\ Offset(e) \in Nat /\ e = Base(e) + Offset(e) /\ Offset(e) < PAGE_SIZE
      /\ B \in Nat /\ B <= a /\ a < B + PAGE_SIZE /\ B < e
      /\ PageOf(f) \in Nat /\ PageOf(e) \in Nat /\ PageOf(a) \in Nat
  BY SegmentFields, InItsPage, Zenon DEF Within
<1>2. CASE FirstPage(seg, a)
  <2>1. /\ LoadTarget(seg, a) = Offset(f) /\ LoadOffset(seg, a) = seg.seg_elf_offset
        /\ Base(f) = B
    BY <1>2, Zenon DEF LoadTarget, LoadOffset, FirstPage
  <2>2. LoadSize(seg, a) = MinOf(PAGE_SIZE - Offset(f), seg.seg_elf_size)
    BY <1>2, Zenon DEF LoadSize
  <2> HIDE DEF f, e, B
  <2>3. Offset(f) = f - B /\ B <= f /\ f < B + PAGE_SIZE
    BY <1>1, <2>1, PageIsNat
  <2> QED
    BY <2>1, <2>2, <2>3, Zenon DEF f, B
<1>3. CASE ~FirstPage(seg, a)
  <2>1. /\ LoadTarget(seg, a) = 0
        /\ LoadOffset(seg, a) = seg.seg_elf_offset + B - f
        /\ Base(f) # B
    BY <1>3, Zenon DEF LoadTarget, LoadOffset, FirstPage
  <2>2. f < B
    <3>0. f <= a
      BY <1>1, Zenon
    <3>1. PageOf(f) <= PageOf(a) /\ PageOf(f) # PageOf(a)
      BY <1>1, <2>1, <3>0, PagesInOrder, PagesApart, Zenon
    <3>2. PageOf(f) < PageOf(a)
      BY <1>1, <3>1
    <3>3. Base(f) + PAGE_SIZE <= B
      BY <1>1, <3>2, PagesApart, Zenon
    <3> HIDE DEF f, e, B
    <3> QED
      BY <1>1, <3>3, PageIsNat
  <2>3. CASE LastPage(seg, a)
    <3>1. LoadSize(seg, a) = Offset(e) /\ Base(e) = B
      BY <1>3, <2>3, Zenon DEF LoadSize, LastPage
    <3> HIDE DEF f, e, B
    <3>2. Offset(e) = e - B /\ ~(PAGE_SIZE < e - B)
      BY <1>1, <3>1, PageIsNat
    <3>3. Offset(e) = MinOf(PAGE_SIZE, e - B)
      BY <3>2, Zenon DEF MinOf
    <3> QED
      BY <2>1, <2>2, <3>1, <3>3, Zenon DEF f, e, B
  <2>4. CASE ~LastPage(seg, a)
    <3>1. LoadSize(seg, a) = PAGE_SIZE /\ Base(e) # B
      BY <1>3, <2>4, Zenon DEF LoadSize, LastPage
    <3>2. B + PAGE_SIZE <= e
      <4>1. PageOf(a) # PageOf(e) /\ ~(PageOf(e) < PageOf(a))
        <5>1. PageOf(a) # PageOf(e)
          BY <1>1, <3>1, PagesApart, Zenon
        <5>2. PageOf(e) < PageOf(a) => Base(e) + PAGE_SIZE <= B
          BY <1>1, PagesApart, Zenon
        <5> HIDE DEF f, e, B
        <5> QED
          BY <1>1, <5>1, <5>2, PageIsNat
      <4>2. PageOf(a) < PageOf(e)
        BY <1>1, <4>1
      <4>3. B + PAGE_SIZE <= Base(e)
        BY <1>1, <4>2, PagesApart, Zenon
      <4> HIDE DEF f, e, B
      <4> QED
        BY <1>1, <4>3, PageIsNat
    <3> HIDE DEF f, e, B
    <3>3. PAGE_SIZE = MinOf(PAGE_SIZE, e - B)
      BY <1>1, <3>2, PageIsNat DEF MinOf
    <3> QED
      BY <2>1, <2>2, <3>1, <3>3, Zenon DEF f, e, B
  <2> QED
    BY <2>3, <2>4, Zenon
<1> QED
  BY <1>2, <1>3, Zenon

\* load_page stays within the bytes of the file and within the frame.
LEMMA ReadsWithin ==
  ASSUME NEW seg, Laid(seg), NEW a \in Nat, Within(seg, a), Base(a) < ElfEnd(seg)
  PROVE  /\ LoadSize(seg, a) \in Nat /\ LoadOffset(seg, a) \in Nat /\ LoadTarget(seg, a) \in Nat
         /\ LoadOffset(seg, a) >= seg.seg_elf_offset
         /\ LoadOffset(seg, a) + LoadSize(seg, a) <= seg.seg_elf_offset + seg.seg_elf_size
         /\ LoadTarget(seg, a) + LoadSize(seg, a) <= PAGE_SIZE
<1> DEFINE f == seg.seg_first_vaddr
           e == ElfEnd(seg)
           n == seg.seg_elf_size
           o == seg.seg_elf_offset
           B == Base(a)
<1>1. /\ f \in Nat /\ e \in Nat /\ n \in Nat /\ o \in Nat /\ B \in Nat /\ e = f + n /\ B < e
  BY SegmentFields, InItsPage, Zenon
<1>2. \/ /\ LoadTarget(seg, a) = f - B /\ LoadOffset(seg, a) = o
         /\ LoadSize(seg, a) = MinOf(PAGE_SIZE - (f - B), n)
         /\ B <= f /\ f < B + PAGE_SIZE
      \/ /\ LoadTarget(seg, a) = 0 /\ LoadOffset(seg, a) = o + B - f
         /\ LoadSize(seg, a) = MinOf(PAGE_SIZE, e - B)
         /\ f < B
  BY LoadArguments, Zenon
<1> HIDE DEF f, e, n, o, B
<1>3. /\ LoadSize(seg, a) \in Nat /\ LoadOffset(seg, a) \in Nat /\ LoadTarget(seg, a) \in Nat
      /\ LoadOffset(seg, a) >= o
      /\ LoadOffset(seg, a) + LoadSize(seg, a) <= o + n
      /\ LoadTarget(seg, a) + LoadSize(seg, a) <= PAGE_SIZE
  BY <1>1, <1>2, PageIsNat DEF MinOf
<1> QED
  BY <1>3, Zenon DEF o, n

\* and fills it with the page.
LEMMA LoadedBytes ==
  ASSUME NEW seg, Laid(seg), NEW a \in Nat, Within(seg, a), Base(a) < ElfEnd(seg),
         NEW i \in 0 .. PAGE_SIZE - 1
  PROVE  /\ as_load_page(seg, a)[i] = Reference(seg, Base(a) + i)
         /\ as_load_page(seg, a)[i] \in Int
<1> DEFINE f == seg.seg_first_vaddr
           e == ElfEnd(seg)
           n == seg.seg_elf_size
           o == seg.seg_elf_offset
           B == Base(a)
           S == LoadSize(seg, a)
           O == LoadOffset(seg, a)
           T == LoadTarget(seg, a)
<1>1. /\ f \in Nat /\ e \in Nat /\ n \in Nat /\ o \in Nat /\ B \in Nat /\ e = f + n /\ B < e
  BY SegmentFields, InItsPage, Zenon
<1>2. \/ /\ T = f - B /\ O = o
         /\ S = MinOf(PAGE_SIZE - (f - B), n)
         /\ B <= f /\ f < B + PAGE_SIZE
      \/ /\ T = 0 /\ O = o + B - f
         /\ S = MinOf(PAGE_SIZE, e - B)
         /\ f < B
  BY LoadArguments, Zenon
<1>3. as_load_page(seg, a)[i] = IF i \in T .. T + S - 1 THEN O + i - T ELSE ZeroByte
  BY Zenon DEF as_load_page
<1>4. Reference(seg, Base(a) + i) = IF B + i >= f /\ B + i < e THEN o + (B + i) - f ELSE ZeroByte
  BY Zenon DEF Reference
<1>5. i \in Nat /\ i < PAGE_SIZE
  BY PageIsNat
<1> HIDE DEF f, e, n, o, B, S, O, T
<1>6. (i \in T .. T + S - 1) <=> (B + i >= f /\ B + i < e)
  BY <1>1, <1>2, <1>5, PageIsNat DEF MinOf
<1>7. B + i >= f => O + i - T = o + (B + i) - f /\ O + i - T \in Int
  BY <1>1, <1>2, <1>5, PageIsNat
<1>8. ZeroByte \in Int
  BY DEF ZeroByte
<1> QED
  BY <1>3, <1>4, <1>6, <1>7, <1>8, Zenon


-----------------------------------------------------------------------------
LEMMA AsInvAtFirst == AsInit => AsInv
<1> SUFFICES ASSUME AsInit PROVE AsInv
  OBVIOUS
<1>1. Stages /\ PageIsLoaded /\ fault = NULL
  BY Zenon DEF AsInit, Stages, PageIsLoaded
<1>2. AsTypeOK
  BY Zenon DEF AsInit, AsTypeOK
<1> QED
  BY <1>1, <1>2, Zenon DEF AsInv

\* Until as_define_pt has run no fault is handled, and the layout is all there
\* is to keep.
LEMMA BuildingStep ==
  ASSUME AsInv, Stages', fault = NULL, fault' = fault, frame' = frame, pt_size' \in Nat
  PROVE  AsInv'
<1>1. AsTypeOK'
  <2>1. ASSUME NEW seg \in {as_text, as_data, as_stack}' \ {NULL}
        PROVE  seg \in Segment /\ seg.seg_elf_size <= seg.seg_last_vaddr - seg.seg_first_vaddr
    <3>1. Laid(seg)
      BY <2>1, Zenon DEF Stages, Laid, PageOf
    <3> QED
      BY <3>1, Zenon DEF Laid
  <2>2. /\ fault' \in 0 .. USERSPACETOP - 1 \cup {NULL}
        /\ frame' \in [0 .. PAGE_SIZE - 1 -> Int] \cup {NULL}
    BY Zenon DEF AsInv, AsTypeOK
  <2> QED
    BY <2>1, <2>2, Zenon DEF AsTypeOK, Segment
<1>2. fault' = NULL
  BY Zenon
<1> QED
  BY <1>1, <1>2, Zenon DEF AsInv, PageIsLoaded

LEMMA RegionStep ==
  ASSUME AsInv, NEW r \in TextRegions \cup DataRegions, as_define_region(r)
  PROVE  AsInv'
<1>1. /\ pt_size = 0 /\ pt_size' = 0 /\ as_stack = NULL /\ as_stack' = NULL /\ fault = NULL
      /\ fault' = fault /\ frame' = frame
  BY Zenon DEF AsInv, as_define_region
<1>2. r.vaddr + r.memsz <= StackBase
  BY Zenon DEF as_define_region, WellPlaced, StackBase
<1> DEFINE s == RegionSegment(r)
<1>3. Laid(s) /\ s.seg_last_vaddr <= StackBase /\ s.seg_first_vaddr = r.vaddr
  BY <1>2, RegionLaid, Zenon
<1> HIDE DEF s
<1>4. CASE as_text = NULL /\ as_text' = s /\ as_data' = as_data
  <2>1. as_data' = NULL
    BY <1>4, Zenon DEF AsInv, Stages
  <2> QED
    BY <1>1, <1>3, <1>4, <2>1, BuildingStep, Zenon DEF Stages, Laid
<1>5. CASE as_text # NULL /\ as_data' = s /\ as_text' = as_text
  <2>1. Before(as_text, s)
    BY <1>3, <1>5, Zenon DEF Before, as_define_region, WellPlaced
  <2>2. Laid(as_text) /\ as_text.seg_last_vaddr <= StackBase
    BY <1>5, Zenon DEF AsInv, Stages
  <2>3. Stages'
    BY <1>1, <1>3, <1>5, <2>1, <2>2, Zenon DEF Stages, Laid, Before, PageOf
  <2> QED
    BY <1>1, <2>3, BuildingStep, Zenon
<1> QED
  BY <1>4, <1>5, Zenon DEF as_define_region, s

LEMMA StackStep ==
  ASSUME AsInv, as_define_stack
  PROVE  AsInv'
<1>1. /\ pt_size = 0 /\ pt_size' = 0 /\ as_data # NULL /\ fault = NULL
      /\ fault' = fault /\ frame' = frame /\ as_text' = as_text /\ as_data' = as_data
  BY Zenon DEF AsInv, as_define_stack, Stages
<1> DEFINE s == segment_define(0, StackBase, USERSPACETOP, VM_STACKPAGES, 0)
<1>2. /\ StackBase \in Nat /\ StackBase < USERSPACETOP /\ USERSPACETOP \in Nat
      /\ Base(StackBase) = StackBase
      /\ VM_STACKPAGES = PageOf(USERSPACETOP - 1) - PageOf(StackBase) + 1
  BY StackPages, Zenon
<1>3. VM_STACKPAGES \in Nat
  BY AddrSpaceAssumption, Zenon
<1>4. /\ MinOf(0, USERSPACETOP - StackBase) = 0
      /\ 0 <= USERSPACETOP - StackBase /\ USERSPACETOP <= USERSPACETOP
  BY <1>2 DEF MinOf
<1>5. s = [seg_first_vaddr |-> StackBase, seg_last_vaddr |-> USERSPACETOP,
           seg_npages |-> VM_STACKPAGES, seg_elf_offset |-> 0, seg_elf_size |-> 0]
  BY <1>4, Zenon DEF segment_define
<1>6. as_stack' = s
  BY Zenon DEF as_define_stack, StackBase
<1> HIDE DEF s
<1>7. /\ s.seg_first_vaddr = StackBase /\ s.seg_last_vaddr = USERSPACETOP
      /\ s.seg_npages = VM_STACKPAGES /\ s.seg_elf_offset = 0 /\ s.seg_elf_size = 0
      /\ s \in Segment
  BY <1>2, <1>3, <1>5, Zenon DEF Segment
<1>8. Laid(s)
  BY <1>2, <1>4, <1>7, Zenon DEF Laid
<1>9. Before(as_data, s)
  <2> DEFINE d == as_data.seg_last_vaddr - 1
  <2>1. Laid(as_data) /\ as_data.seg_last_vaddr <= StackBase
    BY <1>1, Zenon DEF AsInv, Stages
  <2>2. d \in Nat /\ as_data.seg_last_vaddr \in Nat /\ PageOf(d) \in Nat /\ PageOf(StackBase) \in Nat
    BY <1>2, <2>1, SegmentFields, InItsPage, Zenon
  <2>3. d < StackBase
    BY <1>2, <2>1, <2>2
  <2> HIDE DEF d
  <2>4. Base(d) \in Nat /\ Base(d) <= d
    BY <2>2, InItsPage, Zenon
  <2>5. PageOf(d) # PageOf(StackBase)
    <3>1. Base(d) # StackBase
      BY <1>2, <2>2, <2>3, <2>4
    <3> QED
      BY <1>2, <2>2, <3>1, PagesApart, Zenon
  <2>6. d <= StackBase
    BY <1>2, <2>2, <2>3
  <2>7. PageOf(d) <= PageOf(StackBase)
    BY <1>2, <2>2, <2>6, PagesInOrder, Zenon
  <2>8. PageOf(d) < PageOf(StackBase)
    BY <2>2, <2>5, <2>7
  <2> QED
    BY <1>7, <2>8, Zenon DEF Before, d
<1>10. Stages'
  BY <1>1, <1>6, <1>7, <1>8, <1>9, Zenon DEF AsInv, Stages, Laid, Before, PageOf
<1> QED
  BY <1>1, <1>10, BuildingStep, Zenon

LEMMA TableStep ==
  ASSUME AsInv, as_define_pt
  PROVE  AsInv'
<1>1. /\ pt_size = 0 /\ as_stack # NULL /\ fault = NULL
      /\ fault' = fault /\ frame' = frame /\ as_text' = as_text /\ as_data' = as_data
      /\ as_stack' = as_stack
      /\ pt_size' = as_data.seg_npages + as_text.seg_npages + as_stack.seg_npages
  BY Zenon DEF AsInv, as_define_pt
<1>2. Laid(as_text) /\ Laid(as_data) /\ Laid(as_stack)
  BY <1>1, Zenon DEF AsInv, Stages
<1>3. pt_size' \in Nat
  <2>1. as_data.seg_npages \in Nat /\ as_text.seg_npages \in Nat /\ as_stack.seg_npages \in Nat
    BY <1>2, SegmentFields, Zenon
  <2> QED
    BY <1>1, <2>1
<1>4. Stages'
  BY <1>1, Zenon DEF AsInv, Stages, Laid, Before, PageOf
<1> QED
  BY <1>1, <1>3, <1>4, BuildingStep, Zenon

\* vm_fault fills the frame with the page that was asked for.
LEMMA FaultStep ==
  ASSUME AsInv, NEW a \in 0 .. USERSPACETOP - 1, vm_fault(a)
  PROVE  AsInv'
<1> DEFINE seg == as_get_segment(a)
           zeroes == [i \in 0 .. PAGE_SIZE - 1 |-> ZeroByte]
<1>1. /\ pt_size # 0 /\ seg # NULL /\ fault' = a
      /\ as_text' = as_text /\ as_data' = as_data /\ as_stack' = as_stack /\ pt_size' = pt_size
      /\ frame' = IF seg # as_stack /\ as_check_in_elf(a) THEN as_load_page(seg, a) ELSE zeroes
  BY Zenon DEF vm_fault
<1>2. a \in Nat
  BY AddrSpaceAssumption
<1>3. Layout
  BY <1>1, LaidOut, Zenon DEF AsInv
<1>4. Laid(seg) /\ Within(seg, a) /\ (seg = as_stack => seg.seg_elf_size = 0)
  <2>1. CASE Within(as_text, a)
    BY <1>2, <1>3, <2>1, Found, SegmentsDiffer, Zenon DEF Layout
  <2>2. CASE Within(as_data, a)
    BY <1>2, <1>3, <2>2, Found, SegmentsDiffer, Zenon DEF Layout
  <2>3. CASE Within(as_stack, a)
    BY <1>2, <1>3, <2>3, Found, Zenon DEF Layout
  <2> QED
    BY <1>1, <1>2, <1>3, <2>1, <2>2, <2>3, Found, Zenon
<1>5. as_check_in_elf(a) <=> Base(a) < ElfEnd(seg)
  <2>1. ElfEnd(seg) \in Nat
    BY <1>4, SegmentFields, Zenon
  <2> QED
    BY <1>2, <2>1, RoundedUp, Zenon DEF as_check_in_elf
<1> HIDE DEF seg
<1>6. /\ frame' \in [0 .. PAGE_SIZE - 1 -> Int]
      /\ \A i \in 0 .. PAGE_SIZE - 1 : frame'[i] = Reference(seg, Base(a) + i)
  <2>1. CASE seg # as_stack /\ as_check_in_elf(a)
    <3>1. ASSUME NEW i \in 0 .. PAGE_SIZE - 1
          PROVE  frame'[i] = Reference(seg, Base(a) + i) /\ frame'[i] \in Int
      BY <1>1, <1>2, <1>4, <1>5, <2>1, LoadedBytes, Zenon
    <3>2. frame' = [i \in 0 .. PAGE_SIZE - 1 |-> frame'[i]]
      BY <1>1, <2>1, Zenon DEF as_load_page
    <3> QED
      BY <3>1, <3>2, Zenon
  <2>2. CASE ~(seg # as_stack /\ as_check_in_elf(a))
    <3>1. /\ seg.seg_first_vaddr \in Nat /\ ElfEnd(seg) \in Nat /\ Base(a) \in Nat
          /\ ElfEnd(seg) = seg.seg_first_vaddr + seg.seg_elf_size
      BY <1>2, <1>4, SegmentFields, InItsPage, Zenon
    <3>2. ElfEnd(seg) <= seg.seg_first_vaddr \/ ElfEnd(seg) <= Base(a)
      BY <1>4, <1>5, <2>2, <3>1
    <3>3. ASSUME NEW i \in 0 .. PAGE_SIZE - 1 PROVE Reference(seg, Base(a) + i) = ZeroByte
      <4>1. i \in Nat
        BY PageIsNat
      <4>2. ~(Base(a) + i >= seg.seg_first_vaddr /\ Base(a) + i < ElfEnd(seg))
        BY <3>1, <3>2, <4>1
      <4> QED
        BY <4>2, Zenon DEF Reference
    <3>4. frame' = zeroes /\ ZeroByte \in Int
      BY <1>1, <2>2 DEF ZeroByte
    <3> QED
      BY <3>3, <3>4, Zenon
  <2> QED
    BY <2>1, <2>2, Zenon
<1>7. as_get_segment(fault)' = seg
  BY <1>1, Zenon DEF as_get_segment, seg
<1>8. PageIsLoaded'
  BY <1>1, <1>6, <1>7, Zenon DEF PageIsLoaded, Base, Offset, Reference, ElfEnd
<1>9. Stages'
  BY <1>1, Zenon DEF AsInv, Stages, Laid, Before, PageOf
<1>10. AsTypeOK'
  BY <1>1, <1>6, Zenon DEF AsInv, AsTypeOK, Segment
<1> QED
  BY <1>1, <1>7, <1>8, <1>9, <1>10, Zenon DEF AsInv

LEMMA AsInvNext == AsInv /\ [AsNext]_asvars => AsInv'
<1> SUFFICES ASSUME AsInv, [AsNext]_asvars PROVE AsInv'
  OBVIOUS
<1>1. ASSUME NEW r \in IF as_text = NULL THEN TextRegions ELSE DataRegions, as_define_region(r)
      PROVE  AsInv'
  <2>1. r \in TextRegions \cup DataRegions
    BY <1>1, Zenon
  <2> QED
    BY <1>1, <2>1, RegionStep, Zenon
<1>2. CASE UNCHANGED asvars
  <2>1. UNCHANGED <<as_text, as_data, as_stack, pt_size, fault, frame>>
    BY <1>2, Zenon DEF asvars
  <2>2. Stages'
    BY <2>1, Zenon DEF AsInv, Stages, Laid, Before, PageOf
  <2>3. AsTypeOK' /\ PageIsLoaded'
    BY <2>1, Zenon DEF AsInv, AsTypeOK, Segment, PageIsLoaded, Base, Offset, Reference, ElfEnd,
       as_get_segment
  <2> QED
    BY <2>1, <2>2, <2>3, Zenon DEF AsInv, as_get_segment
<1> QED
  BY <1>1, <1>2, StackStep, TableStep, FaultStep, Zenon DEF AsNext

THEOREM AsInductive == AsSpec => []AsInv
<1> QED
  BY AsInvAtFirst, AsInvNext, PTL DEF AsSpec

\* What demand loading rests on, for any page size, any user space and any
\* executable whose regions the linker has placed: pt_get_index gives every page
\* of the program an entry of its own and leaves none unused, and whichever
\* address of a page faults first, as_load_page reads within the segment's bytes
\* of the ELF file and fills the frame with exactly the page's initial contents.
THEOREM LoadExact == AsSpec => []LoadIsExact
<1>1. AsInv => LoadIsExact
  <2> SUFFICES ASSUME AsInv PROVE LoadIsExact
    OBVIOUS
  <2>1. IndexesArePages
    BY LaidOut, IndexesMatch, Zenon DEF AsInv, Complete, IndexesArePages
  <2>2. ReadsWithinSegment
    <3> SUFFICES ASSUME pt_size # 0, NEW a \in Valid,
                        as_get_segment(a) # as_stack, as_check_in_elf(a)
                 PROVE  LET seg == as_get_segment(a) IN
                        /\ LoadSize(seg, a) >= 0
                        /\ LoadOffset(seg, a) >= seg.seg_elf_offset
                        /\ LoadOffset(seg, a) + LoadSize(seg, a)
                             <= seg.seg_elf_offset + seg.seg_elf_size
                        /\ LoadTarget(seg, a) + LoadSize(seg, a) <= PAGE_SIZE
      BY Zenon DEF ReadsWithinSegment, Complete
    <3> DEFINE seg == as_get_segment(a)
    <3>1. Layout
      BY LaidOut, Zenon DEF AsInv
    <3>2. a \in Nat /\ seg # NULL
      BY AddrSpaceAssumption DEF Valid
    <3>3. Laid(seg) /\ Within(seg, a)
      BY <3>1, <3>2, Found, Zenon DEF Layout
    <3>4. Base(a) < ElfEnd(seg)
      <4>1. ElfEnd(seg) \in Nat
        BY <3>3, SegmentFields, Zenon
      <4> QED
        BY <3>2, <4>1, RoundedUp, Zenon DEF as_check_in_elf
    <3> HIDE DEF seg
    <3>5. /\ LoadSize(seg, a) \in Nat /\ LoadOffset(seg, a) >= seg.seg_elf_offset
          /\ LoadOffset(seg, a) + LoadSize(seg, a) <= seg.seg_elf_offset + seg.seg_elf_size
          /\ LoadTarget(seg, a) + LoadSize(seg, a) <= PAGE_SIZE
      BY <3>2, <3>3, <3>4, ReadsWithin, Zenon
    <3>6. LoadSize(seg, a) >= 0
      BY <3>5
    <3> QED
      BY <3>5, <3>6, Zenon DEF seg
  <2> QED
    BY <2>1, <2>2, Zenon DEF AsInv, LoadIsExact
<1> QED
  BY <1>1, AsInductive, PTL

-----------------------------------------------------------------------------
(* Copying.                                                                *)

LEMMA CopyCheck ==
  ASSUME NEW p \in 0 .. 2^ADDR_BITS - 1, NEW n \in 0 .. 2^ADDR_BITS - 1
  PROVE  /\ copycheck(p, n) # NoAddr =>
              /\ copycheck(p, n) \in Nat /\ p < CopyTop
              /\ n > 0 => copycheck(p, n) > 0
              /\ p + copycheck(p, n) <= CopyTop
         /\ n > 0 /\ p + n <= CopyTop => copycheck(p, n) = n
         /\ copycheck(p, n) = n => n > 0 /\ p + n <= CopyTop
<1> DEFINE M == 2^ADDR_BITS
           top == (p + n + M - 1) % M
<1>1. M \in Nat /\ M > 0 /\ CopyTop \in 0 .. M - 1 /\ NoAddr \notin Int
  BY CopyAssumption
<1>2. copycheck(p, n) = IF top < p \/ p >= CopyTop THEN NoAddr
                             ELSE IF top >= CopyTop THEN CopyTop - p ELSE n
  BY Zenon DEF copycheck
<1> QED
  BY <1>1, <1>2

\* A string that does not wrap is looked at up to the end of user space.
LEMMA CopyReach ==
  ASSUME NEW p \in 0 .. 2^ADDR_BITS - 1, NEW n \in 0 .. 2^ADDR_BITS - 1,
         n > 0, p + n <= 2^ADDR_BITS
  PROVE  /\ copycheck(p, n) = NoAddr <=> p >= CopyTop
         /\ p < CopyTop => copycheck(p, n) = IF n <= CopyTop - p THEN n ELSE CopyTop - p
<1> DEFINE M == 2^ADDR_BITS
           top == (p + n + M - 1) % M
<1>1. M \in Nat /\ M > 0 /\ CopyTop \in 0 .. M - 1 /\ NoAddr \notin Int
  BY CopyAssumption
<1>2. copycheck(p, n) = IF top < p \/ p >= CopyTop THEN NoAddr
                             ELSE IF top >= CopyTop THEN CopyTop - p ELSE n
  BY Zenon DEF copycheck
<1>3. top = p + n - 1
  BY <1>1
<1> QED
  BY <1>1, <1>2, <1>3

LEMMA BlockExact == CopyInit => BlockCopyIsExact
<1> SUFFICES ASSUME CopyInit PROVE BlockCopyIsExact
  OBVIOUS
<1> DEFINE M == 2^ADDR_BITS
           stop == copycheck(ptr, len)
           r == copyin(ptr, len)
<1>1. /\ M \in Nat /\ CopyTop \in 0 .. M - 1 /\ NoAddr \notin Int
      /\ ptr \in 0 .. M - 1 /\ len \in 0 .. M - 1
  BY CopyAssumption, Zenon DEF CopyInit, Address
<1>2. CASE len > 0 /\ ptr + len <= CopyTop
  <2>1. stop = len /\ stop # NoAddr
    BY <1>1, <1>2, CopyCheck
  <2>2. r = [touched |-> ptr .. ptr + len - 1,
             ret |-> IF hole \in ptr .. ptr + len - 1 THEN "EFAULT" ELSE "ok"]
    BY <2>1, Zenon DEF copyin, Span
  <2>3. ptr .. ptr + len - 1 \subseteq 0 .. CopyTop - 1
    BY <1>1, <1>2
  <2> HIDE DEF r
  <2> QED
    BY <1>2, <2>2, <2>3 DEF BlockCopyIsExact, Span, InUser, UserSpace, r
<1>3. CASE ~(len > 0 /\ ptr + len <= CopyTop)
  <2>1. stop # len
    BY <1>1, <1>3, CopyCheck, Zenon
  <2>2. r = [touched |-> {}, ret |-> "EFAULT"]
    BY <2>1, Zenon DEF copyin
  <2>3. ~InUser(ptr, len)
    BY <1>1, <1>3 DEF InUser, Span, UserSpace
  <2> QED
    BY <2>2, <2>3 DEF BlockCopyIsExact
<1> QED
  BY <1>2, <1>3, Zenon

LEMMA LeastOfTwo ==
  ASSUME NEW S, S # {}, S \subseteq Int, NEW x, NEW y, S \subseteq {x, y}
  PROVE  Min(S) \in S /\ \A z \in S : Min(S) <= z
<1>1. PICK u \in S : TRUE
  BY Zenon
<1>3. ASSUME NEW z \in S, ~(u <= z) PROVE \A w \in S : z <= w
  <2>1. u \in Int /\ z \in Int /\ z < u
    BY <1>3
  <2>2. \A w \in S : w = u \/ w = z
    BY <1>3, <2>1
  <2> QED
    BY <2>1, <2>2
<1>4. \E m \in S : \A z \in S : m <= z
  BY <1>3, Zenon
<1> QED
  BY <1>4, Zenon DEF Min

LEMMA StringExact == CopyInit => StringCopyIsExact
<1> SUFFICES ASSUME CopyInit PROVE StringCopyIsExact
  OBVIOUS
<1> DEFINE M == 2^ADDR_BITS
           stop == copycheck(ptr, len)
           r == copyinstr(ptr, len)
           Ends(n) == /\ n <= len /\ InUser(ptr, n) /\ nul = ptr + n - 1
                      /\ hole \notin Span(ptr, n)
           Result ==
             /\ r.ret = "ok" <=> \E n \in 1 .. len : Ends(n)
             /\ r.ret = "ok" => Ends(r.got)
             /\ r.ret = "ENAMETOOLONG" <=>
                  /\ InUser(ptr, len)
                  /\ nul \notin Span(ptr, len) /\ hole \notin Span(ptr, len)
<1>1. /\ M \in Nat /\ CopyTop \in 0 .. M - 1 /\ NoAddr \notin Int
      /\ ptr \in 0 .. M - 1 /\ len \in 0 .. M - 1
  BY CopyAssumption, Zenon DEF CopyInit, Address
<1>2. SUFFICES /\ r.touched \subseteq UserSpace
               /\ len > 0 /\ ptr + len <= M => Result
  BY Zenon DEF StringCopyIsExact
<1>3. ASSUME NEW n \in Nat, n > 0
      PROVE  /\ InUser(ptr, n) <=> ptr + n <= CopyTop
             /\ Span(ptr, n) = ptr .. ptr + n - 1
  BY <1>1, <1>3 DEF InUser, Span, UserSpace
<1>4. CASE stop = NoAddr
  <2>1. r = [touched |-> {}, got |-> 0, ret |-> "EFAULT"]
    BY <1>4, Zenon DEF copyinstr
  <2>2. len > 0 /\ ptr + len <= M => ptr >= CopyTop
    BY <1>1, <1>4, CopyReach, Zenon
  <2>3. len > 0 /\ ptr + len <= M => \A n \in 1 .. len : ~InUser(ptr, n)
    BY <1>1, <1>3, <2>2
  <2>4. r.touched = {} /\ r.ret = "EFAULT"
    BY <2>1
  <2> HIDE DEF r
  <2> QED
    BY <1>1, <2>3, <2>4
<1>5. CASE stop # NoAddr
  <2> DEFINE n == Min({len, stop})
             stops == {i \in 0 .. n - 1 : ptr + i \in {nul, hole}}
             m == Min(stops)
  <2>1. /\ stop \in Nat /\ ptr + stop <= CopyTop
        /\ n \in {len, stop} /\ n <= len /\ n <= stop
    <3>1. stop \in Nat /\ ptr + stop <= CopyTop
      BY <1>1, <1>5, CopyCheck, Zenon
    <3>2. {len, stop} # {} /\ {len, stop} \subseteq Int /\ {len, stop} \subseteq {len, stop}
      BY <1>1, <3>1
    <3>3. n \in {len, stop} /\ \A z \in {len, stop} : n <= z
      BY <3>2, LeastOfTwo, Zenon
    <3> QED
      BY <3>1, <3>3, Zenon
  <2>2. len > 0 /\ ptr + len <= M => stop = IF len <= CopyTop - ptr THEN len ELSE CopyTop - ptr
    BY <1>1, <1>5, CopyReach
  <2>3. r = IF stops = {}
            THEN [touched |-> Span(ptr, n), got |-> 0,
                  ret |-> IF stop < len THEN "EFAULT" ELSE "ENAMETOOLONG"]
            ELSE [touched |-> Span(ptr, m + 1), got |-> m + 1,
                  ret |-> IF ptr + m = hole THEN "EFAULT" ELSE "ok"]
    BY <1>5, Zenon DEF copyinstr, copystr
  <2>4. \A k \in Nat : k <= stop => Span(ptr, k) \subseteq UserSpace
    BY <1>1, <2>1 DEF Span, UserSpace
  <2>n. n \in Nat /\ ptr \in Nat /\ len \in Nat
    BY <1>1, <2>1
  <2>5. CASE stops = {}
    <3>1. /\ r.touched = Span(ptr, n) /\ r.ret = IF stop < len THEN "EFAULT" ELSE "ENAMETOOLONG"
      BY <2>3, <2>5
    <3>2. r.touched \subseteq UserSpace
      BY <2>1, <2>4, <2>n, <3>1, Zenon
    <3>3. ASSUME len > 0, ptr + len <= M PROVE Result
      <4>1. \A i \in 0 .. n - 1 : ptr + i # nul /\ ptr + i # hole
        BY <2>5, Zenon
      <4>2. n = stop /\ (stop < len => stop = CopyTop - ptr) /\ (~(stop < len) => stop = len)
        BY <1>1, <2>1, <2>2, <3>3
      <4> HIDE DEF n, stop, r, stops
      <4>3. \A k \in 1 .. len : ~Ends(k)
        <5> SUFFICES ASSUME NEW k \in 1 .. len, ptr + k <= CopyTop, nul = ptr + k - 1 PROVE FALSE
          BY <1>3
        <5>1. k - 1 \in 0 .. n - 1 /\ ptr + (k - 1) = nul
          BY <1>1, <2>1, <2>n, <4>2
        <5> QED
          BY <4>1, <5>1, Zenon
      <4>4. CASE stop < len
        <5>1. ~InUser(ptr, len)
          BY <1>1, <1>3, <2>1, <2>n, <3>3, <4>2, <4>4
        <5> QED
          BY <3>1, <4>3, <4>4, <5>1, Zenon
      <4>5. CASE ~(stop < len)
        <5>1. InUser(ptr, len) /\ Span(ptr, len) = ptr .. ptr + len - 1
          BY <1>1, <1>3, <2>1, <2>n, <3>3, <4>2, <4>5, Zenon
        <5>2. ASSUME NEW x \in ptr .. ptr + len - 1 PROVE x # nul /\ x # hole
          <6>1. x - ptr \in 0 .. n - 1 /\ ptr + (x - ptr) = x
            BY <1>1, <2>n, <4>2, <4>5
          <6> QED
            BY <4>1, <6>1, Zenon
        <5> QED
          BY <3>1, <4>3, <4>5, <5>1, <5>2, Zenon
      <4> QED
        BY <4>4, <4>5, Zenon
    <3> QED
      BY <3>2, <3>3, Zenon
  <2>6. CASE stops # {}
    <3>1. m \in stops /\ \A z \in stops : m <= z
      <4>1. stops \subseteq Int /\ stops \subseteq {nul - ptr, hole - ptr}
        BY <1>1, <2>n
      <4> QED
        BY <2>6, <4>1, LeastOfTwo, Zenon
    <3>2. /\ r.touched = Span(ptr, m + 1) /\ r.got = m + 1
          /\ r.ret = IF ptr + m = hole THEN "EFAULT" ELSE "ok"
      <4> HIDE DEF r, n, m, stops
      <4> QED
        BY <2>3, <2>6, Zenon
    <3>3. m \in Nat /\ m < n /\ (ptr + m = nul \/ ptr + m = hole)
      BY <2>n, <3>1
    <3>4. \A i \in 0 .. n - 1 : ptr + i = nul \/ ptr + i = hole => m <= i
      BY <3>1, Zenon
    <3>5. r.touched \subseteq UserSpace
      <4>1. m + 1 \in Nat /\ m + 1 <= stop
        BY <2>1, <2>n, <3>3
      <4> QED
        BY <2>4, <3>2, <4>1, Zenon
    <3>6. ASSUME len > 0, ptr + len <= M PROVE Result
      <4> HIDE DEF n, stop, r, stops, m
      <4>0. m + 1 \in 1 .. len /\ m + 1 \in Nat /\ m + 1 > 0 /\ ptr + (m + 1) <= CopyTop
        BY <1>1, <2>1, <2>n, <3>3
      <4>s. n = stop
        BY <1>1, <2>1, <2>2, <3>6, Zenon
      <4>t. len \in Nat /\ ptr + m \in ptr .. ptr + len - 1
        BY <1>1, <2>1, <2>n, <3>3
      <4>u. Span(ptr, len) = ptr .. ptr + len - 1
        BY <1>3, <2>n, <3>6, Zenon
      <4>1. CASE ptr + m = hole
        <5>1. \A k \in 1 .. len : ~Ends(k)
          <6> SUFFICES ASSUME NEW k \in 1 .. len, Ends(k) PROVE FALSE
            OBVIOUS
          <6>k. k \in Nat /\ k > 0
            BY <2>n
          <6>0. ptr + k <= CopyTop /\ nul = ptr + k - 1 /\ hole \notin ptr .. ptr + k - 1
            BY <1>3, <6>k, Zenon
          <6>1. k - 1 \in 0 .. n - 1 /\ ptr + (k - 1) = nul
            BY <1>1, <2>2, <2>n, <3>6, <4>s, <6>k, <6>0
          <6>2. m <= k - 1
            BY <3>4, <6>1, Zenon
          <6> QED
            BY <2>n, <3>3, <4>1, <6>k, <6>0, <6>2
        <5> QED
          BY <3>2, <4>1, <4>t, <4>u, <5>1, Zenon
      <4>2. CASE ptr + m # hole
        <5>1. nul = ptr + m /\ r.ret = "ok" /\ r.got = m + 1
          BY <3>2, <3>3, <4>2, Zenon
        <5>2. hole \notin ptr .. ptr + m
          <6> SUFFICES ASSUME hole \in ptr .. ptr + m PROVE FALSE
            OBVIOUS
          <6>1. hole - ptr \in 0 .. n - 1 /\ ptr + (hole - ptr) = hole
            BY <2>n, <3>3
          <6>2. m <= hole - ptr
            BY <3>4, <6>1, Zenon
          <6> QED
            BY <2>n, <3>3, <4>2, <6>2
        <5>3. Ends(m + 1)
          <6>1. /\ InUser(ptr, m + 1) /\ Span(ptr, m + 1) = ptr .. ptr + (m + 1) - 1
            BY <1>3, <4>0, Zenon
          <6>2. m + 1 <= len /\ nul = ptr + (m + 1) - 1 /\ ptr + (m + 1) - 1 = ptr + m
            BY <2>n, <3>3, <4>0, <5>1
          <6> QED
            BY <5>2, <6>1, <6>2, Zenon
        <5> QED
          BY <4>0, <4>t, <4>u, <5>1, <5>3, Zenon
      <4> QED
        BY <4>1, <4>2, Zenon
    <3> QED
      BY <3>5, <3>6, Zenon
  <2> QED
    BY <2>5, <2>6, Zenon
<1> QED
  BY <1>4, <1>5, Zenon

(* copyin, copyout, copyinstr and copyoutstr do exactly what their callers *)
(* rely on, for addresses of any width: whatever the address, the length,  *)
(* the string and the page that faults.                                    *)
THEOREM CopyExact == CopySpec => []CopyIsExact
<1>1. CopyInit => CopyIsExact
  BY BlockExact, StringExact, Zenon DEF CopyIsExact
<1>2. CopyIsExact /\ [FALSE]_<<ptr, len, nul, hole>> => CopyIsExact'
  <2> SUFFICES ASSUME CopyIsExact, UNCHANGED <<ptr, len, nul, hole>> PROVE CopyIsExact'
    BY Zenon
  <2>1. copyin(ptr, len)' = copyin(ptr, len) /\ copyinstr(ptr, len)' = copyinstr(ptr, len)
    BY Zenon DEF copyin, copyinstr, copystr, copycheck, Span
  <2>2. BlockCopyIsExact'
    BY <2>1, Zenon DEF CopyIsExact, BlockCopyIsExact, Span, InUser, UserSpace
  <2>3. StringCopyIsExact'
    BY <2>1, Zenon DEF CopyIsExact, StringCopyIsExact, Span, InUser, UserSpace
  <2> QED
    BY <2>2, <2>3, Zenon DEF CopyIsExact
<1> QED
  BY <1>1, <1>2, PTL DEF CopySpec

-----------------------------------------------------------------------------
(* The coremap.                                                            *)

\* cm_spinlock is held by the thread that scans or takes a block.
LockInv ==
  \A t \in Threads : pc[t] \in {"scan", "found"} => cm_spinlock = t

\* cm_size_alloc describes every block in use, except that a block inside
\* coremap_freeppages already has 0 there and its size is in allocSize.
SizeInv ==
  /\ \A f \in Frames : cm_size_alloc[f] = blocks[f] \/ Freeing(f)
  /\ \A t \in Threads : pc[t] = "free" =>
       /\ allocSize[t] = blocks[first[t]]
       /\ blocks[first[t]] > 0
       /\ cm_size_alloc[first[t]] = 0
       /\ \A u \in Threads : pc[u] = "free" /\ first[u] = first[t] => u = t

\* Blocks lie inside RAM and do not overlap.
TilingInv ==
  \A f \in Frames : blocks[f] > 0 =>
    /\ f + blocks[f] <= nRamFrames
    /\ \A g \in Frames : f < g /\ blocks[g] > 0 => f + blocks[f] <= g

\* The used frames are exactly those of the blocks.
UsedInv ==
  \A f \in Frames : cm_free[f] = 1 <=> \E g \in Frames : g <= f /\ f < g + blocks[g]

\* No run of n free frames ends at or below frame e.
NoRunBelow(n, e) ==
  \A b \in Frames : b + n <= e => \E f \in Frames : b <= f /\ f < b + n /\ cm_free[f] = 1

\* The scan at frame e, with the run that starts at b, for n frames: it never
\* stands inside a block; the run it has collected is free and starts at the
\* array's start or after a used frame.  (The last disjunct for b = -1 is the
\* scan that stands still on a block that is being freed.)
ScanOK(n, b, e) ==
  /\ n > 0
  /\ \A g \in Frames : g < e => g + blocks[g] <= e
  /\ b # -1 =>
       /\ b < e
       /\ \A f \in Frames : b <= f /\ f < e => cm_free[f] = 0
       /\ b = 0 \/ cm_free[b - 1] = 1
  /\ b = -1 =>
       \/ e = 0
       \/ cm_free[e - 1] = 1
       \/ e < nRamFrames /\ cm_free[e] = 1

\* Every run below the scan is too short, and so far its own; the run that
\* was found is the first that is long enough.
ScanAt(t) ==
  /\ pc[t] = "get" => npages[t] > 0
  /\ pc[t] = "scan" =>
       /\ ScanOK(npages[t], beginning[t], end[t])
       /\ NoRunBelow(npages[t], end[t])
       /\ beginning[t] # -1 => end[t] - beginning[t] < npages[t]
  /\ pc[t] = "found" =>
       /\ ScanOK(npages[t], beginning[t], end[t])
       /\ NoRunBelow(npages[t], end[t] - 1)
       /\ beginning[t] # -1
       /\ end[t] - beginning[t] = npages[t]

ScanInv == \A t \in Threads : ScanAt(t)

IInv == TypeOK /\ LockInv /\ SizeInv /\ TilingInv /\ UsedInv /\ ScanInv

USE NoThreadAssumption, FramesAssumption DEF Frames, Labels

----------------------------------------------------------------------------
\* While the frames stay as they are, so does what is known of a scan.
LEMMA ScanFrame ==
  ASSUME UNCHANGED <<cm_free, blocks>>, NEW n, NEW b, NEW e
  PROVE  (ScanOK(n, b, e) <=> ScanOK(n, b, e)') /\ (NoRunBelow(n, e) <=> NoRunBelow(n, e)')
BY Zenon DEF ScanOK, NoRunBelow

\* While no thread enters or leaves coremap_freeppages, sizes stay right.
LEMMA SizeFrame ==
  ASSUME SizeInv, UNCHANGED <<cm_size_alloc, blocks, first, allocSize>>,
         \A t \in Threads : pc'[t] = "free" <=> pc[t] = "free"
  PROVE  SizeInv'
BY Zenon DEF SizeInv, Freeing

LEMMA OtherScan ==
  ASSUME UNCHANGED <<cm_free, blocks>>, NEW u \in Threads,
         pc'[u] = pc[u], npages'[u] = npages[u],
         beginning'[u] = beginning[u], end'[u] = end[u], ScanAt(u)
  PROVE  ScanAt(u)'
BY ScanFrame, Zenon DEF ScanAt

\* coremap_bootstrap establishes the invariant.
LEMMA InitIInv == Init => IInv
<1> SUFFICES ASSUME Init PROVE IInv
  OBVIOUS
<1>1. TypeOK
  BY DEF Init, TypeOK
<1>2. LockInv /\ SizeInv /\ TilingInv /\ ScanInv
  BY DEF Init, LockInv, SizeInv, TilingInv, ScanInv, ScanAt
<1>3. UsedInv
  BY SMTT(60) DEF Init, UsedInv
<1> QED
  BY <1>1, <1>2, <1>3, Zenon DEF IInv

\* A call of alloc_kpages touches only the caller's pc and npages.
LEMMA AllocIInv ==
  ASSUME IInv, NEW t \in Threads, NEW n \in 1 .. MaxPages, alloc_kpages(t, n)
  PROVE  IInv'
<1> USE DEF alloc_kpages, Goto, cmvars, freevars
<1>0. TypeOK
  BY Zenon DEF IInv
<1>1. TypeOK'
  <2>1. pc' \in [Threads -> Labels]
    BY <1>0, Zenon DEF TypeOK
  <2>2. npages' \in [Threads -> 0 .. MaxPages]
    BY <1>0 DEF TypeOK
  <2> QED
    BY <1>0, <2>1, <2>2, Zenon DEF TypeOK
<1>2. LockInv'
  BY Zenon DEF IInv, TypeOK, LockInv
<1>3. SizeInv'
  BY ZenonT(30), Zenon DEF IInv, TypeOK, SizeInv, Freeing
<1>4. TilingInv' /\ UsedInv'
  BY Zenon DEF IInv, TilingInv, UsedInv
<1>5. ScanInv'
  <2>1. ScanAt(t)'
    BY <1>0 DEF ScanAt, TypeOK
  <2>2. ASSUME NEW u \in Threads \ {t} PROVE ScanAt(u)'
    BY <1>0, OtherScan, Zenon DEF IInv, ScanInv, TypeOK
  <2> QED
    BY <2>1, <2>2, Zenon DEF ScanInv
<1> QED
  BY <1>1, <1>2, <1>3, <1>4, <1>5, Zenon DEF IInv

\* The scan starts at frame 0 with an empty run.
LEMMA StartScanIInv ==
  ASSUME IInv, NEW t \in Threads, StartScan(t)
  PROVE  IInv'
<1> USE DEF StartScan, Goto, cmvars, freevars
<1>0. TypeOK
  BY Zenon DEF IInv
<1>1. TypeOK'
  <2>1. pc' \in [Threads -> Labels]
    BY <1>0, Zenon DEF TypeOK
  <2>1a. cm_spinlock' \in Threads \cup {NoThread}
    BY <1>0, Zenon DEF TypeOK
  <2>2. end' \in [Threads -> 0 .. nRamFrames] /\ beginning' \in [Threads -> -1 .. nRamFrames - 1]
    BY <1>0, SMTT(60) DEF TypeOK
  <2> QED
    BY <1>0, <2>1, <2>1a, <2>2, Zenon DEF TypeOK
<1>2. LockInv'
  BY Zenon DEF IInv, TypeOK, LockInv
<1>3. SizeInv'
  BY SMTT(60) DEF IInv, TypeOK, SizeInv, Freeing
<1>4. TilingInv' /\ UsedInv'
  BY Zenon DEF IInv, TilingInv, UsedInv
<1>5. ScanInv'
  <2>1. ScanOK(npages[t], -1, 0)' /\ NoRunBelow(npages[t], 0)'
    BY <1>0, SMTT(60) DEF IInv, ScanInv, ScanAt, ScanOK, NoRunBelow, TypeOK
  <2>2. ScanAt(t)'
    BY <1>0, <2>1, Zenon DEF ScanAt, TypeOK
  <2>3. ASSUME NEW u \in Threads \ {t} PROVE ScanAt(u)'
    BY <1>0, OtherScan, Zenon DEF IInv, ScanInv, TypeOK
  <2> QED
    BY <2>2, <2>3, Zenon DEF ScanInv
<1> QED
  BY <1>1, <1>2, <1>3, <1>4, <1>5, Zenon DEF IInv

\* A used frame where the scan stands is the first frame of a block.
LEMMA ScanAtBlock ==
  ASSUME IInv, NEW t \in Threads, pc[t] = "scan", end[t] < nRamFrames, cm_free[end[t]] = 1
  PROVE  /\ blocks[end[t]] > 0
         /\ cm_size_alloc[end[t]] \in {0, blocks[end[t]]}
<1>a. TypeOK
  BY Zenon DEF IInv
<1>b. end[t] \in Frames
  BY <1>a, SMTT(30) DEF TypeOK
<1>0. TypeOK /\ end[t] \in Frames
  BY <1>a, <1>b, Zenon
<1>1. PICK g \in Frames : g <= end[t] /\ end[t] < g + blocks[g]
  BY <1>0, Zenon DEF IInv, UsedInv
<1>2. ~(g < end[t])
  BY <1>0, <1>1, SMTT(60) DEF IInv, ScanInv, ScanAt, ScanOK, TypeOK
<1>3. g = end[t]
  BY <1>0, <1>1, <1>2, SMTT(60)
<1>4. blocks[end[t]] > 0
  BY <1>0, <1>1, <1>3, SMTT(60) DEF TypeOK
<1>5. cm_size_alloc[end[t]] \in {0, blocks[end[t]]}
  BY <1>0 DEF IInv, SizeInv, Freeing
<1> QED
  BY <1>4, <1>5, Zenon

\* Skipping a block moves the scan to the edge of that block, and no free run
\* ends inside it.
LEMMA ScanPastBlock ==
  ASSUME TypeOK, TilingInv, UsedInv, NEW e \in Frames, NEW n \in Nat, NEW r,
         ScanOK(n, r, e), NoRunBelow(n, e), blocks[e] > 0
  PROVE  ScanOK(n, -1, e + blocks[e]) /\ NoRunBelow(n, e + blocks[e])
<1>0. blocks \in [Frames -> 0 .. nRamFrames]
  BY Zenon DEF TypeOK
<1>1. PICK s \in Nat : s = blocks[e]
  BY <1>0
<1>2. e + s <= nRamFrames
  BY <1>1, Zenon DEF TilingInv
<1>3. ASSUME NEW g \in Frames, g < e + s PROVE g + blocks[g] <= e + s
  <2>1. CASE g < e
    BY <1>0, <1>1, <2>1, SMTT(30) DEF ScanOK
  <2>2. CASE g > e
    <3>1. ~(blocks[g] > 0)
      BY <1>0, <1>1, <1>3, <2>2 DEF TilingInv
    <3> QED
      BY <1>0, <1>3, <3>1
  <2> QED
    BY <1>1, <2>1, <2>2
<1>4. ASSUME NEW f \in Frames, e <= f, f < e + s PROVE cm_free[f] = 1
  BY <1>1, <1>4, Zenon DEF UsedInv
<1>5. cm_free[e + s - 1] = 1
  BY <1>1, <1>2, <1>4
<1>6. ASSUME NEW b \in Frames, b + n <= e + s
      PROVE  \E f \in Frames : b <= f /\ f < b + n /\ cm_free[f] = 1
  <2>1. CASE b + n <= e
    BY <2>1, Zenon DEF NoRunBelow
  <2>2. CASE ~(b + n <= e)
    <3>1. n > 0 /\ b + n - 1 \in Frames
      BY <1>2, <1>6 DEF ScanOK
    <3>2. cm_free[b + n - 1] = 1
      BY <1>4, <1>6, <2>2, <3>1
    <3> QED
      BY <3>1, <3>2
  <2> QED
    BY <2>1, <2>2, Zenon
<1>7. ScanOK(n, -1, e + s)
  BY <1>3, <1>5 DEF ScanOK
<1>8. NoRunBelow(n, e + s)
  BY <1>6, Zenon DEF NoRunBelow
<1> QED
  BY <1>1, <1>7, <1>8, Zenon

LEMMA SkipBlockIInv ==
  ASSUME IInv, NEW t \in Threads, SkipBlock(t)
  PROVE  IInv'
<1>1. TypeOK /\ TilingInv /\ UsedInv
  BY Zenon DEF IInv
<1>2. /\ pc[t] = "scan" /\ end[t] < nRamFrames /\ cm_free[end[t]] = 1
      /\ beginning' = [beginning EXCEPT ![t] = -1]
      /\ end' = [end EXCEPT ![t] = end[t] + cm_size_alloc[end[t]]]
      /\ UNCHANGED <<cm_free, cm_size_alloc, cm_spinlock, pc, npages, first, allocSize, blocks>>
  BY Zenon DEF SkipBlock, cmvars, freevars
<1>3. PICK e \in Frames, n \in Nat : e = end[t] /\ n = npages[t]
  BY <1>1, <1>2, SMTT(30) DEF TypeOK
<1>4. PICK s \in Nat : s = cm_size_alloc[e]
  BY <1>1, <1>3 DEF TypeOK
<1>5. blocks[e] > 0 /\ s \in {0, blocks[e]}
  BY <1>2, <1>3, <1>4, ScanAtBlock, Zenon
<1>6. e + s <= nRamFrames
  BY <1>1, <1>5 DEF TilingInv
<1>7. TypeOK'
  <2>1. end' \in [Threads -> 0 .. nRamFrames]
    <3>1. end' = [end EXCEPT ![t] = e + s] /\ e + s \in 0 .. nRamFrames
      BY <1>2, <1>3, <1>4, <1>6
    <3> QED
      BY <1>1, <3>1, Zenon DEF TypeOK
  <2>2. beginning' \in [Threads -> -1 .. nRamFrames - 1]
    BY <1>1, <1>2 DEF TypeOK
  <2> QED
    BY <1>1, <1>2, <2>1, <2>2, Zenon DEF TypeOK
<1>8. LockInv' /\ SizeInv' /\ TilingInv' /\ UsedInv'
  BY <1>2 DEF IInv, LockInv, SizeInv, Freeing, TilingInv, UsedInv
<1>9. ScanOK(n, -1, e + s) /\ NoRunBelow(n, e + s)
  <2>0. ScanOK(n, beginning[t], e) /\ NoRunBelow(n, e)
    BY <1>2, <1>3, Zenon DEF IInv, ScanInv, ScanAt
  <2>1. CASE s = 0
    BY <1>2, <1>3, <2>0, <2>1 DEF ScanOK
  <2>2. CASE s = blocks[e]
    BY <1>1, <1>5, <2>0, <2>2, ScanPastBlock, Zenon
  <2> QED
    BY <1>5, <2>1, <2>2, Zenon
<1>10. ScanInv'
  <2>1. ScanAt(t)'
    <3>1. pc'[t] = "scan" /\ npages'[t] = n /\ beginning'[t] = -1 /\ end'[t] = e + s
      BY <1>1, <1>2, <1>3, <1>4, Zenon DEF TypeOK
    <3>2. ScanOK(n, -1, e + s)' /\ NoRunBelow(n, e + s)'
      BY <1>2, <1>9, ScanFrame, Zenon
    <3> QED
      BY <3>1, <3>2, Zenon DEF ScanAt
  <2>2. ASSUME NEW u \in Threads \ {t} PROVE ScanAt(u)'
    BY <1>1, <1>2, OtherScan, Zenon DEF IInv, ScanInv, TypeOK
  <2> QED
    BY <2>1, <2>2, Zenon DEF ScanInv
<1> QED
  BY <1>7, <1>8, <1>10, Zenon DEF IInv

\* A scan that fails ends in a panic and changes nothing else.
LEMMA ScanFailsIInv ==
  ASSUME IInv, NEW t \in Threads, ScanFails(t)
  PROVE  IInv'
<1> USE DEF ScanFails, Goto, cmvars, freevars, getvars
<1>0. TypeOK
  BY Zenon DEF IInv
<1>1. TypeOK'
  <2>1. pc' \in [Threads -> Labels]
    BY <1>0, Zenon DEF TypeOK
  <2> QED
    BY <1>0, <2>1, Zenon DEF TypeOK
<1>2. LockInv' /\ SizeInv' /\ TilingInv' /\ UsedInv'
  BY SMTT(60) DEF IInv, TypeOK, LockInv, SizeInv, Freeing, TilingInv, UsedInv
<1>3. ScanInv'
  <2>1. ScanAt(t)'
    BY <1>0, Zenon DEF ScanAt, TypeOK
  <2>2. ASSUME NEW u \in Threads \ {t} PROVE ScanAt(u)'
    BY <1>0, OtherScan, Zenon DEF IInv, ScanInv, TypeOK
  <2> QED
    BY <2>1, <2>2, Zenon DEF ScanInv
<1> QED
  BY <1>1, <1>2, <1>3, Zenon DEF IInv

\* A free frame extends the run; no run of n frames is passed over.
LEMMA ScanPastFree ==
  ASSUME TypeOK, UsedInv, NEW e \in Frames, NEW n \in Nat, NEW r \in -1 .. nRamFrames - 1,
         ScanOK(n, r, e), NoRunBelow(n, e), r # -1 => e - r < n, cm_free[e] = 0,
         NEW b, b = IF r = -1 THEN e ELSE r
  PROVE  /\ b \in 0 .. e
         /\ ScanOK(n, b, e + 1)
         /\ e + 1 - b # n => NoRunBelow(n, e + 1) /\ e + 1 - b < n
<1>0. blocks \in [Frames -> 0 .. nRamFrames] /\ cm_free \in [Frames -> {0, 1}]
  BY Zenon DEF TypeOK
<1>1. b \in 0 .. e
  BY DEF ScanOK
<1>2. blocks[e] = 0
  BY <1>0, SMTT(30) DEF UsedInv
<1>3. ASSUME NEW g \in Frames, g < e + 1 PROVE g + blocks[g] <= e + 1
  <2>1. CASE g = e
    BY <1>2, <2>1
  <2>2. CASE g < e
    BY <1>0, <2>2 DEF ScanOK
  <2> QED
    BY <1>3, <2>1, <2>2
<1>4. b = 0 \/ cm_free[b - 1] = 1
  BY <1>0 DEF ScanOK
<1>5. \A f \in Frames : b <= f /\ f < e + 1 => cm_free[f] = 0
  <2> SUFFICES ASSUME NEW f \in Frames, b <= f, f < e + 1 PROVE cm_free[f] = 0
    OBVIOUS
  <2>1. CASE f = e
    BY <2>1, Zenon
  <2>2. CASE f < e
    BY <1>1, <2>2 DEF ScanOK
  <2> QED
    BY <2>1, <2>2
<1>6. ScanOK(n, b, e + 1)
  BY <1>1, <1>3, <1>4, <1>5 DEF ScanOK
<1>7. ASSUME e + 1 - b # n PROVE NoRunBelow(n, e + 1) /\ e + 1 - b < n
  <2>1. e + 1 - b < n
    BY <1>1, <1>7 DEF ScanOK
  <2>2. ASSUME NEW c \in Frames, c + n <= e + 1
        PROVE  \E f \in Frames : c <= f /\ f < c + n /\ cm_free[f] = 1
    <3>1. CASE c + n <= e
      BY <3>1, Zenon DEF NoRunBelow
    <3>2. CASE c + n = e + 1
      <4>1. c <= b - 1 /\ b - 1 < c + n /\ b - 1 \in Frames
        BY <1>1, <2>1, <3>2
      <4> QED
        BY <1>4, <4>1
    <3> QED
      BY <2>2, <3>1, <3>2
  <2> QED
    BY <2>1, <2>2, Zenon DEF NoRunBelow
<1> QED
  BY <1>1, <1>6, <1>7, Zenon

LEMMA ExtendRunIInv ==
  ASSUME IInv, NEW t \in Threads, ExtendRun(t)
  PROVE  IInv'
<1>1. TypeOK /\ UsedInv
  BY Zenon DEF IInv
<1>2. PICK b : b = RunStart(t)
  OBVIOUS
<1>3. /\ pc[t] = "scan" /\ end[t] < nRamFrames /\ cm_free[end[t]] = 0
      /\ pc' = [pc EXCEPT ![t] = IF end[t] + 1 - b = npages[t] THEN "found" ELSE "scan"]
      /\ beginning' = [beginning EXCEPT ![t] = b]
      /\ end' = [end EXCEPT ![t] = end[t] + 1]
      /\ UNCHANGED <<cm_free, cm_size_alloc, cm_spinlock, npages, first, allocSize, blocks>>
  BY <1>2, Zenon DEF ExtendRun, Goto, cmvars, freevars
<1>4. PICK e \in Frames, n \in Nat, r \in -1 .. nRamFrames - 1 :
        e = end[t] /\ n = npages[t] /\ r = beginning[t]
  BY <1>1, <1>3, SMTT(30) DEF TypeOK
<1>5. /\ b \in 0 .. e
      /\ ScanOK(n, b, e + 1)
      /\ e + 1 - b # n => NoRunBelow(n, e + 1) /\ e + 1 - b < n
      /\ NoRunBelow(n, e)
  <2>1. ScanOK(n, r, e) /\ NoRunBelow(n, e) /\ (r # -1 => e - r < n)
    BY <1>3, <1>4, Zenon DEF IInv, ScanInv, ScanAt
  <2>2. cm_free[e] = 0 /\ b = IF r = -1 THEN e ELSE r
    BY <1>2, <1>3, <1>4, Zenon DEF RunStart
  <2> QED
    BY <1>1, <2>1, <2>2, ScanPastFree, Zenon
<1>6. TypeOK'
  <2>1. pc' \in [Threads -> Labels]
    BY <1>1, <1>3, Zenon DEF TypeOK
  <2>2. beginning' \in [Threads -> -1 .. nRamFrames - 1]
    <3>1. b \in -1 .. nRamFrames - 1
      BY <1>5
    <3> QED
      BY <1>1, <1>3, <3>1, Zenon DEF TypeOK
  <2>3. end' \in [Threads -> 0 .. nRamFrames]
    <3>1. end[t] + 1 \in 0 .. nRamFrames
      BY <1>4
    <3> QED
      BY <1>1, <1>3, <3>1, Zenon DEF TypeOK
  <2> QED
    BY <1>1, <1>3, <2>1, <2>2, <2>3, Zenon DEF TypeOK
<1>7. LockInv' /\ SizeInv' /\ TilingInv' /\ UsedInv'
  <2>1. LockInv'
    BY <1>1, <1>3, Zenon DEF IInv, TypeOK, LockInv
  <2>2. SizeInv'
    <3>1. \A u \in Threads : pc'[u] = "free" <=> pc[u] = "free"
      BY <1>1, <1>3, Zenon DEF TypeOK
    <3> QED
      BY <1>3, <3>1, SizeFrame, Zenon DEF IInv
  <2>3. TilingInv' /\ UsedInv'
    BY <1>3, Zenon DEF IInv, TilingInv, UsedInv
  <2> QED
    BY <2>1, <2>2, <2>3, Zenon
<1>8. ScanInv'
  <2>1. ScanAt(t)'
    <3>1. /\ pc'[t] = IF e + 1 - b = n THEN "found" ELSE "scan"
          /\ npages'[t] = n /\ beginning'[t] = b /\ end'[t] = e + 1
      BY <1>1, <1>3, <1>4, Zenon DEF TypeOK
    <3>2. ScanOK(n, b, e + 1)' /\ NoRunBelow(n, e)' /\ (e + 1 - b # n => NoRunBelow(n, e + 1)')
      BY <1>3, <1>5, ScanFrame, Zenon
    <3>3. e + 1 - 1 = e /\ b # -1
      BY <1>5, SMTT(30)
    <3> QED
      BY <1>5, <3>1, <3>2, <3>3 DEF ScanAt
  <2>2. ASSUME NEW u \in Threads \ {t} PROVE ScanAt(u)'
    BY <1>1, <1>3, OtherScan, Zenon DEF IInv, ScanInv, TypeOK
  <2> QED
    BY <2>1, <2>2, Zenon DEF ScanInv
<1> QED
  BY <1>6, <1>7, <1>8, Zenon DEF IInv

\* A block is taken only from free frames, so it overlaps no other.
LEMMA TakeBlockIInv ==
  ASSUME IInv, NEW t \in Threads, TakeBlock(t)
  PROVE  IInv'
<1>1. TypeOK /\ LockInv /\ SizeInv /\ TilingInv /\ UsedInv
  BY Zenon DEF IInv
<1>2. PICK b \in Frames, n \in Nat :
        b = beginning[t] /\ n = npages[t] /\ n > 0 /\ b + n <= nRamFrames
        /\ \A f \in Frames : b <= f /\ f < b + n => cm_free[f] = 0
  <2>0. pc[t] = "found"
    BY Zenon DEF TakeBlock, Goto
  <2>1. beginning[t] \in Frames /\ npages[t] \in Nat /\ end[t] \in 0 .. nRamFrames
    BY <1>1, <2>0, SMTT(60) DEF TypeOK, IInv, ScanInv, ScanAt
  <2>2. /\ ScanOK(npages[t], beginning[t], end[t])
        /\ end[t] - beginning[t] = npages[t]
    BY <2>0, Zenon DEF IInv, ScanInv, ScanAt
  <2>2a. npages[t] > 0
    BY <2>2, Zenon DEF ScanOK
  <2>2b. beginning[t] # -1
    BY <2>1
  <2>3. npages[t] > 0 /\ beginning[t] + npages[t] = end[t]
    BY <2>1, <2>2, <2>2a
  <2>4. \A f \in Frames : beginning[t] <= f /\ f < end[t] => cm_free[f] = 0
    BY <2>2, <2>2b, Zenon DEF ScanOK
  <2> QED
    BY <2>1, <2>3, <2>4
<1>3. /\ pc[t] = "found" /\ pc' = [pc EXCEPT ![t] = "idle"]
      /\ cm_size_alloc' = [cm_size_alloc EXCEPT ![b] = n]
      /\ cm_free' = [f \in Frames |-> IF f \in b .. b + n - 1 THEN 1 ELSE cm_free[f]]
      /\ blocks' = [blocks EXCEPT ![b] = n]
      /\ cm_spinlock' = NoThread
      /\ npages'    = [npages EXCEPT ![t] = 0]
      /\ beginning' = [beginning EXCEPT ![t] = -1]
      /\ end'       = [end EXCEPT ![t] = 0]
      /\ UNCHANGED <<first, allocSize>>
  BY <1>2, SMTT(30) DEF TakeBlock, Goto, freevars
<1>4. TypeOK'
  <2>1. pc' \in [Threads -> Labels]
    BY <1>1, <1>3, Zenon DEF TypeOK
  <2>1a. cm_spinlock' \in Threads \cup {NoThread}
    BY <1>1, <1>3, Zenon DEF TypeOK
  <2>2. cm_free' \in [Frames -> {0, 1}]
    BY <1>1, <1>3, Zenon DEF TypeOK
  <2>3. cm_size_alloc' \in [Frames -> 0 .. nRamFrames] /\ blocks' \in [Frames -> 0 .. nRamFrames]
    <3>1. n \in 0 .. nRamFrames
      BY <1>2
    <3> QED
      BY <1>1, <1>3, <3>1, Zenon DEF TypeOK
  <2>4. npages' \in [Threads -> 0 .. MaxPages]
    BY <1>1, <1>3 DEF TypeOK
  <2>5. beginning' \in [Threads -> -1 .. nRamFrames - 1]
    BY <1>1, <1>3 DEF TypeOK
  <2>6. end' \in [Threads -> 0 .. nRamFrames]
    BY <1>1, <1>3 DEF TypeOK
  <2> QED
    BY <1>1, <1>3, <2>1, <2>1a, <2>2, <2>3, <2>4, <2>5, <2>6, Zenon DEF TypeOK
<1>5. \A u \in Threads \ {t} : pc'[u] = pc[u] /\ pc[u] \notin {"scan", "found"}
  BY <1>1, <1>3, Zenon DEF LockInv, TypeOK
<1>6. LockInv'
  BY <1>1, <1>3, <1>5, Zenon DEF LockInv, TypeOK
<1>7. blocks[b] = 0 /\ cm_free[b] = 0 /\ blocks \in [Frames -> 0 .. nRamFrames]
  <2>1. cm_free[b] = 0
    BY <1>2
  <2>2. blocks \in [Frames -> 0 .. nRamFrames]
    BY <1>1, Zenon DEF TypeOK
  <2>3. ~(b < b + blocks[b])
    BY <1>1, <2>1 DEF UsedInv
  <2> QED
    BY <2>1, <2>2, <2>3
<1>8. SizeInv'
  <2>0. first \in [Threads -> Frames]
    BY <1>1, Zenon DEF TypeOK
  <2>1. \A u \in Threads : pc'[u] = "free" <=> pc[u] = "free"
    BY <1>1, <1>3, Zenon DEF TypeOK
  <2>2. \A u \in Threads : pc[u] = "free" => first[u] # b
    BY <1>1, <1>7 DEF SizeInv
  <2>3. \A f \in Frames : cm_size_alloc'[f] = IF f = b THEN n ELSE cm_size_alloc[f]
    BY <1>1, <1>3, Zenon DEF TypeOK
  <2>4. \A f \in Frames : blocks'[f] = IF f = b THEN n ELSE blocks[f]
    BY <1>3, <1>7, Zenon
  <2>5. \A f \in Frames : (cm_size_alloc[f] = blocks[f] \/ Freeing(f))'
    BY <1>1, <1>3, <2>1, <2>3, <2>4, SMTT(60) DEF SizeInv, Freeing
  <2>6. ASSUME NEW u \in Threads, pc'[u] = "free"
        PROVE  /\ allocSize'[u] = blocks'[first'[u]]
               /\ blocks'[first'[u]] > 0
               /\ cm_size_alloc'[first'[u]] = 0
               /\ \A w \in Threads : pc'[w] = "free" /\ first'[w] = first'[u] => w = u
    BY <1>1, <1>3, <2>0, <2>1, <2>2, <2>3, <2>4, <2>6 DEF SizeInv
  <2> QED
    BY <2>5, <2>6, Zenon DEF SizeInv
<1>9. TilingInv'
  <2>1. ASSUME NEW f \in Frames, f < b PROVE f + blocks[f] <= b
    <3>1. ASSUME b < f + blocks[f] PROVE FALSE
      <4>1. \E g \in Frames : g <= b /\ b < g + blocks[g]
        BY <2>1, <3>1
      <4>2. cm_free[b] = 1
        BY <1>1, <4>1, Zenon DEF UsedInv
      <4> QED
        BY <1>7, <4>2
    <3> QED
      BY <1>7, <3>1
  <2>2. ASSUME NEW g \in Frames, b < g, blocks[g] > 0 PROVE b + n <= g
    <3>1. cm_free[g] = 1
      BY <1>1, <1>7, <2>2 DEF UsedInv
    <3> QED
      BY <1>2, <2>2, <3>1
  <2>3. \A f \in Frames : blocks'[f] = IF f = b THEN n ELSE blocks[f]
    BY <1>3, <1>7, Zenon
  <2>4. ASSUME NEW f \in Frames, blocks'[f] > 0
        PROVE  /\ f + blocks'[f] <= nRamFrames
               /\ \A g \in Frames : f < g /\ blocks'[g] > 0 => f + blocks'[f] <= g
    <3>1. CASE f = b
      BY <1>2, <2>2, <2>3, <3>1
    <3>2. CASE f # b
      BY <1>1, <2>1, <2>3, <2>4, <3>2, Zenon DEF TilingInv
    <3> QED
      BY <3>1, <3>2, Zenon
  <2> QED
    BY <2>4, Zenon DEF TilingInv
<1>10. UsedInv'
  <2>1. \A f \in Frames : blocks'[f] = IF f = b THEN n ELSE blocks[f]
    BY <1>3, <1>7, Zenon
  <2>2. ASSUME NEW f \in Frames PROVE cm_free'[f] = 1 <=> \E g \in Frames : g <= f /\ f < g + blocks'[g]
    <3>1. CASE b <= f /\ f < b + n
      BY <1>2, <1>3, <2>1, <3>1, SMTT(60)
    <3>2. CASE ~(b <= f /\ f < b + n)
      <4>1. cm_free'[f] = cm_free[f]
        BY <1>2, <1>3, <3>2, SMTT(60)
      <4>2. \A g \in Frames : (g <= f /\ f < g + blocks'[g]) <=> (g <= f /\ f < g + blocks[g])
        <5> SUFFICES ASSUME NEW g \in Frames
                     PROVE  (g <= f /\ f < g + blocks'[g]) <=> (g <= f /\ f < g + blocks[g])
          OBVIOUS
        <5>1. CASE g = b
          BY <1>2, <1>7, <2>1, <3>2, <5>1, SMTT(60)
        <5>2. CASE g # b
          BY <2>1, <5>2, Zenon
        <5> QED
          BY <5>1, <5>2, Zenon
      <4> QED
        BY <1>1, <4>1, <4>2, Zenon DEF UsedInv
    <3> QED
      BY <3>1, <3>2, Zenon
  <2> QED
    BY <2>2, Zenon DEF UsedInv
<1>11. ScanInv'
  <2>1. ScanAt(t)'
    BY <1>1, <1>3, SMTT(30) DEF ScanAt, TypeOK
  <2>2. ASSUME NEW u \in Threads \ {t} PROVE ScanAt(u)'
    <3>1. npages'[u] = npages[u]
      BY <1>1, <1>3, Zenon DEF TypeOK
    <3> QED
      BY <1>5, <3>1, Zenon DEF IInv, ScanInv, ScanAt
  <2> QED
    BY <2>1, <2>2, Zenon DEF ScanInv
<1> QED
  BY <1>4, <1>6, <1>8, <1>9, <1>10, <1>11, Zenon DEF IInv

\* The unlocked prefix of coremap_freeppages moves the size of the block from
\* cm_size_alloc to allocSize; the frames stay used.
LEMMA FreeIInv ==
  ASSUME IInv, NEW t \in Threads, NEW f \in Frames, free_kpages(t, f)
  PROVE  IInv'
<1>1. TypeOK /\ LockInv /\ SizeInv /\ TilingInv /\ UsedInv
  BY Zenon DEF IInv
<1>2. /\ blocks[f] > 0 /\ ~Freeing(f)
      /\ pc[t] = "idle" /\ pc' = [pc EXCEPT ![t] = "free"]
      /\ first'     = [first EXCEPT ![t] = f]
      /\ allocSize' = [allocSize EXCEPT ![t] = cm_size_alloc[f]]
      /\ cm_size_alloc' = [cm_size_alloc EXCEPT ![f] = 0]
      /\ UNCHANGED <<cm_free, cm_spinlock, npages, beginning, end, blocks>>
  BY Zenon DEF free_kpages, Goto, getvars
<1>3. TypeOK'
  <2>1. pc' \in [Threads -> Labels]
    BY <1>1, <1>2, Zenon DEF TypeOK
  <2>1a. first' \in [Threads -> Frames]
    BY <1>1, <1>2, Zenon DEF TypeOK
  <2>2. allocSize' \in [Threads -> 0 .. nRamFrames]
    BY <1>1, <1>2, Zenon DEF TypeOK
  <2>3. cm_size_alloc' \in [Frames -> 0 .. nRamFrames]
    <3>1. 0 \in 0 .. nRamFrames
      OBVIOUS
    <3>2. cm_size_alloc \in [Frames -> 0 .. nRamFrames]
      BY <1>1, Zenon DEF TypeOK
    <3> QED
      BY <1>2, <3>1, <3>2, Zenon
  <2> QED
    BY <1>1, <1>2, <2>1, <2>1a, <2>2, <2>3, Zenon DEF TypeOK
<1>4. LockInv' /\ TilingInv' /\ UsedInv'
  BY <1>1, <1>2, Zenon DEF LockInv, TypeOK, TilingInv, UsedInv
<1>5. SizeInv'
  <2>1. /\ pc'[t] = "free" /\ first'[t] = f /\ allocSize'[t] = blocks[f] /\ cm_size_alloc'[f] = 0
    BY <1>1, <1>2, Zenon DEF TypeOK, SizeInv
  <2>2. \A u \in Threads \ {t} : pc'[u] = pc[u] /\ first'[u] = first[u] /\ allocSize'[u] = allocSize[u]
    BY <1>1, <1>2, Zenon DEF TypeOK
  <2>3. \A g \in Frames \ {f} : cm_size_alloc'[g] = cm_size_alloc[g]
    BY <1>1, <1>2, Zenon DEF TypeOK
  <2>4. \A u \in Threads \ {t} : pc'[u] = "free" => first[u] \in Frames \ {f}
    BY <1>1, <1>2, <2>2, Zenon DEF Freeing, TypeOK
  <2>5. \A g \in Frames : (cm_size_alloc[g] = blocks[g] \/ Freeing(g))'
    <3> SUFFICES ASSUME NEW g \in Frames PROVE (cm_size_alloc[g] = blocks[g] \/ Freeing(g))'
      OBVIOUS
    <3>1. CASE g = f
      BY <2>1, <3>1, Zenon DEF Freeing
    <3>2. CASE g # f
      BY <1>1, <1>2, <2>2, <2>3, <3>2, SMTT(30) DEF SizeInv, Freeing
    <3> QED
      BY <3>1, <3>2, Zenon
  <2>6. ASSUME NEW u \in Threads, pc'[u] = "free"
        PROVE  /\ allocSize'[u] = blocks'[first'[u]]
               /\ blocks'[first'[u]] > 0
               /\ cm_size_alloc'[first'[u]] = 0
               /\ \A w \in Threads : pc'[w] = "free" /\ first'[w] = first'[u] => w = u
    <3>1. CASE u = t
      BY <1>2, <2>1, <2>2, <2>4, <3>1, SMTT(30)
    <3>2. CASE u # t
      BY <1>1, <1>2, <2>1, <2>2, <2>3, <2>4, <2>6, <3>2 DEF SizeInv
    <3> QED
      BY <3>1, <3>2, Zenon
  <2> QED
    BY <2>5, <2>6, Zenon DEF SizeInv
<1>6. ScanInv'
  <2>1. ScanAt(t)'
    BY <1>1, <1>2, SMTT(30) DEF ScanAt, TypeOK
  <2>2. ASSUME NEW u \in Threads \ {t} PROVE ScanAt(u)'
    BY <1>1, <1>2, OtherScan, Zenon DEF IInv, ScanInv, TypeOK
  <2> QED
    BY <2>1, <2>2, Zenon DEF ScanInv
<1> QED
  BY <1>3, <1>4, <1>5, <1>6, Zenon DEF IInv

\* The critical section of coremap_freeppages gives up exactly the frames of
\* the block, and no scan is in progress meanwhile.
LEMMA ReleaseBlockIInv ==
  ASSUME IInv, NEW t \in Threads, ReleaseBlock(t)
  PROVE  IInv'
<1>1. TypeOK /\ LockInv /\ SizeInv /\ TilingInv /\ UsedInv
  BY Zenon DEF IInv
<1>2. PICK h \in Frames, n \in Nat : h = first[t] /\ n = allocSize[t]
  BY <1>1, SMTT(60) DEF TypeOK
<1>3. /\ pc[t] = "free" /\ pc' = [pc EXCEPT ![t] = "idle"] /\ cm_spinlock = NoThread
      /\ cm_free' = [f \in Frames |-> IF f \in h .. h + n - 1 THEN 0 ELSE cm_free[f]]
      /\ first'     = [first EXCEPT ![t] = 0]
      /\ allocSize' = [allocSize EXCEPT ![t] = 0]
      /\ blocks' = [blocks EXCEPT ![h] = 0]
      /\ UNCHANGED <<cm_size_alloc, cm_spinlock, npages, beginning, end>>
  BY <1>2, Zenon DEF ReleaseBlock, ReleaseFrames, Goto, getvars
<1>4. n = blocks[h] /\ n > 0 /\ cm_size_alloc[h] = 0
  BY <1>1, <1>2, <1>3, Zenon DEF SizeInv
<1>5. \A f \in Frames : blocks'[f] = (IF f = h THEN 0 ELSE blocks[f]) /\ blocks[f] \in Nat
  BY <1>1, <1>3, SMTT(60) DEF TypeOK
<1>6. TypeOK'
  <2>1. pc' \in [Threads -> Labels]
    BY <1>1, <1>3, Zenon DEF TypeOK
  <2>1a. first' \in [Threads -> Frames]
    BY <1>1, <1>3 DEF TypeOK
  <2>2. allocSize' \in [Threads -> 0 .. nRamFrames]
    BY <1>1, <1>3 DEF TypeOK
  <2>3. cm_free' \in [Frames -> {0, 1}]
    BY <1>1, <1>3, Zenon DEF TypeOK
  <2>4. blocks' \in [Frames -> 0 .. nRamFrames]
    BY <1>1, <1>3, SMTT(60) DEF TypeOK
  <2> QED
    BY <1>1, <1>3, <2>1, <2>1a, <2>2, <2>3, <2>4, Zenon DEF TypeOK
<1>7. LockInv'
  BY <1>1, <1>3, Zenon DEF LockInv, TypeOK
<1>8. SizeInv'
  <2>1. \A u \in Threads \ {t} : pc'[u] = pc[u] /\ first'[u] = first[u] /\ allocSize'[u] = allocSize[u]
    BY <1>1, <1>3, Zenon DEF TypeOK
  <2>2. pc'[t] = "idle"
    BY <1>1, <1>3, Zenon DEF TypeOK
  <2>3. \A u \in Threads \ {t} : pc[u] = "free" => first[u] \in Frames \ {h}
    BY <1>1, <1>2, <1>3, Zenon DEF SizeInv, TypeOK
  <2>4. \A g \in Frames : (cm_size_alloc[g] = blocks[g] \/ Freeing(g))'
    <3> SUFFICES ASSUME NEW g \in Frames PROVE (cm_size_alloc[g] = blocks[g] \/ Freeing(g))'
      OBVIOUS
    <3>1. CASE g = h
      BY <1>3, <1>4, <1>5, <3>1, SMTT(30)
    <3>2. CASE g # h
      BY <1>1, <1>2, <1>3, <1>5, <2>1, <3>2, SMTT(60) DEF SizeInv, Freeing
    <3> QED
      BY <3>1, <3>2, Zenon
  <2>5. ASSUME NEW u \in Threads, pc'[u] = "free"
        PROVE  /\ allocSize'[u] = blocks'[first'[u]]
               /\ blocks'[first'[u]] > 0
               /\ cm_size_alloc'[first'[u]] = 0
               /\ \A w \in Threads : pc'[w] = "free" /\ first'[w] = first'[u] => w = u
    BY <1>1, <1>3, <1>5, <2>1, <2>2, <2>3, <2>5, SMTT(60) DEF SizeInv
  <2> QED
    BY <2>4, <2>5, Zenon DEF SizeInv
<1>9. TilingInv'
  BY <1>1, <1>5 DEF TilingInv
<1>10. UsedInv'
  <2>1. ASSUME NEW f \in Frames PROVE cm_free'[f] = 1 <=> \E g \in Frames : g <= f /\ f < g + blocks'[g]
    <3>1. CASE h <= f /\ f < h + n
      <4>1. cm_free'[f] = 0
        BY <1>3, <3>1
      <4>2. ASSUME NEW g \in Frames, g <= f, f < g + blocks'[g] PROVE FALSE
        <5>1. g # h /\ blocks[g] > 0 /\ f < g + blocks[g]
          BY <1>5, <4>2
        <5>2. CASE g < h
          BY <1>1, <1>4, <1>5, <3>1, <5>1, <5>2 DEF TilingInv
        <5>3. CASE h < g
          BY <1>1, <1>4, <1>5, <3>1, <4>2, <5>1, <5>3 DEF TilingInv
        <5> QED
          BY <5>1, <5>2, <5>3
      <4> QED
        BY <4>1, <4>2
    <3>2. CASE ~(h <= f /\ f < h + n)
      <4>1. cm_free'[f] = cm_free[f]
        BY <1>3, <3>2
      <4>2. \A g \in Frames : (g <= f /\ f < g + blocks'[g]) <=> (g <= f /\ f < g + blocks[g])
        <5> SUFFICES ASSUME NEW g \in Frames
                     PROVE  (g <= f /\ f < g + blocks'[g]) <=> (g <= f /\ f < g + blocks[g])
          OBVIOUS
        <5>1. CASE g = h
          BY <1>4, <1>5, <3>2, <5>1
        <5>2. CASE g # h
          BY <1>5, <5>2, Zenon
        <5> QED
          BY <5>1, <5>2, Zenon
      <4> QED
        BY <1>1, <4>1, <4>2, Zenon DEF UsedInv
    <3> QED
      BY <3>1, <3>2, Zenon
  <2> QED
    BY <2>1, Zenon DEF UsedInv
<1>11. ScanInv'
  <2>1. ScanAt(t)'
    BY <1>1, <1>3, SMTT(30) DEF ScanAt, TypeOK
  <2>2. ASSUME NEW u \in Threads \ {t} PROVE ScanAt(u)'
    <3>1. pc'[u] = pc[u] /\ pc[u] \notin {"scan", "found"} /\ npages'[u] = npages[u]
      BY <1>1, <1>3, Zenon DEF TypeOK, LockInv
    <3>2. pc[u] = "get" => npages[u] > 0
      BY Zenon DEF IInv, ScanInv, ScanAt
    <3> QED
      BY <3>1, <3>2, Zenon DEF ScanAt
  <2> QED
    BY <2>1, <2>2, Zenon DEF ScanInv
<1> QED
  BY <1>6, <1>7, <1>8, <1>9, <1>10, <1>11, Zenon DEF IInv

----------------------------------------------------------------------------
\* The conjunction of the parts is inductive: it holds after
\* coremap_bootstrap, and every step of every thread keeps it.
THEOREM Inductive == Spec => []IInv
<1>1. IInv /\ [Next]_vars => IInv'
  <2> SUFFICES ASSUME IInv, [Next]_vars PROVE IInv'
    OBVIOUS
  <2>1. ASSUME NEW t \in Threads, NEW n \in 1 .. MaxPages, alloc_kpages(t, n) PROVE IInv'
    BY <2>1, AllocIInv, Zenon
  <2>2. ASSUME NEW t \in Threads, NEW f \in Frames, free_kpages(t, f) PROVE IInv'
    BY <2>2, FreeIInv, Zenon
  <2>3. ASSUME NEW t \in Threads, ThreadStep(t) PROVE IInv'
    BY <2>3, StartScanIInv, SkipBlockIInv, ExtendRunIInv, ScanFailsIInv, TakeBlockIInv,
       ReleaseBlockIInv, Zenon DEF ThreadStep
  <2>4. CASE UNCHANGED vars
    <3>1. UNCHANGED <<cm_free, cm_size_alloc, cm_spinlock, pc, npages, beginning, end, first,
                      allocSize, blocks>>
      BY <2>4, Zenon DEF vars, cmvars, getvars, freevars
    <3>2. TypeOK' /\ LockInv' /\ SizeInv' /\ TilingInv' /\ UsedInv'
      BY <3>1, Zenon DEF IInv, TypeOK, LockInv, SizeInv, Freeing, TilingInv, UsedInv
    <3>3. ASSUME NEW u \in Threads PROVE ScanAt(u)'
      <4>1. ScanAt(u)
        BY Zenon DEF IInv, ScanInv
      <4>2. /\ pc'[u] = pc[u] /\ npages'[u] = npages[u]
            /\ beginning'[u] = beginning[u] /\ end'[u] = end[u]
        BY <3>1, Zenon
      <4> QED
        BY <3>1, <4>1, <4>2, OtherScan, Zenon
    <3> QED
      BY <3>2, <3>3, Zenon DEF IInv, ScanInv
  <2> QED
    BY <2>1, <2>2, <2>3, <2>4, Zenon DEF Next
<1> QED
  BY InitIInv, <1>1, PTL DEF Spec

\* Every variable of the allocator keeps its type; in particular the scan of
\* coremap_find_freeframes never leaves the coremap array.
THEOREM TypeCorrect == Spec => []TypeOK
<1>1. IInv => TypeOK
  BY Zenon DEF IInv
<1> QED
  BY <1>1, Inductive, PTL

\* No frame is ever in two blocks, for any number of threads that allocate
\* and free at once, the unlocked write of coremap_freeppages included.
THEOREM NoDoubleAllocation == Spec => []BlocksDisjoint
<1>1. IInv => BlocksDisjoint
  <2> SUFFICES ASSUME IInv, NEW f \in Frames, blocks[f] > 0
               PROVE  /\ f + blocks[f] <= nRamFrames
                      /\ \A g \in Frames : f < g /\ blocks[g] > 0 => f + blocks[f] <= g
                      /\ \A g \in Block(f, blocks[f]) : cm_free[g] = 1
    BY Zenon DEF BlocksDisjoint
  <2>1. blocks[f] \in Nat
    BY DEF IInv, TypeOK
  <2>2. /\ f + blocks[f] <= nRamFrames
        /\ \A g \in Frames : f < g /\ blocks[g] > 0 => f + blocks[f] <= g
    BY Zenon DEF IInv, TilingInv
  <2>3. ASSUME NEW g \in Block(f, blocks[f]) PROVE cm_free[g] = 1
    <3>1. g \in Frames /\ f <= g /\ g < f + blocks[f]
      BY <2>1, <2>2, <2>3 DEF Block
    <3> QED
      BY <3>1, Zenon DEF IInv, UsedInv
  <2> QED
    BY <2>2, <2>3, Zenon
<1> QED
  BY <1>1, Inductive, PTL

\* The frames marked used are frames of blocks in use.
THEOREM NoFrameLeaks == Spec => []NoLeak
<1>1. IInv => NoLeak
  <2> SUFFICES ASSUME IInv, NEW f \in Frames, cm_free[f] = 1
               PROVE  \E g \in Frames : f \in Block(g, blocks[g])
    BY Zenon DEF NoLeak
  <2>1. PICK g \in Frames : g <= f /\ f < g + blocks[g]
    BY Zenon DEF IInv, UsedInv
  <2>2. blocks \in [Frames -> 0 .. nRamFrames]
    BY Zenon DEF IInv, TypeOK
  <2>3. blocks[g] \in Nat
    BY <2>2
  <2> QED
    BY <2>1, <2>3 DEF Block
<1> QED
  BY <1>1, Inductive, PTL

\* The KASSERTs of coremap_freeppages never fail.
THEOREM FreeAssertsHold == Spec => []FreeAsserts
<1>1. IInv => FreeAsserts
  <2> SUFFICES ASSUME IInv, NEW t \in Threads, pc[t] = "free"
               PROVE  /\ allocSize[t] > 0
                      /\ \A f \in Block(first[t], allocSize[t]) : f \in Frames /\ cm_free[f] = 1
    BY Zenon DEF FreeAsserts
  <2>1. first[t] \in Frames /\ allocSize[t] \in Nat
    BY DEF IInv, TypeOK
  <2>2. allocSize[t] = blocks[first[t]] /\ allocSize[t] > 0
    BY Zenon DEF IInv, SizeInv
  <2>3. first[t] + allocSize[t] <= nRamFrames
    BY <2>1, <2>2, Zenon DEF IInv, TilingInv
  <2>4. ASSUME NEW f \in Block(first[t], allocSize[t]) PROVE f \in Frames /\ cm_free[f] = 1
    <3>1. f \in Frames /\ first[t] <= f /\ f < first[t] + blocks[first[t]]
      BY <2>1, <2>2, <2>3, <2>4 DEF Block
    <3> QED
      BY <2>1, <3>1, Zenon DEF IInv, UsedInv
  <2> QED
    BY <2>2, <2>4, Zenon
<1> QED
  BY <1>1, Inductive, PTL

\* coremap_find_freeframes returns the lowest free run, and fails only when
\* there is none.
THEOREM ScanIsFirstFit == Spec => []FirstFit
<1>1. IInv => FirstFit
  <2> SUFFICES ASSUME IInv, NEW t \in Threads
               PROVE  /\ pc[t] = "found" =>
                           /\ FreeRun(beginning[t], npages[t])
                           /\ \A b \in Frames : b < beginning[t] => ~FreeRun(b, npages[t])
                      /\ pc[t] = "scan" /\ end[t] = nRamFrames =>
                           \A b \in Frames : ~FreeRun(b, npages[t])
    BY Zenon DEF FirstFit
  <2>1. TypeOK
    BY Zenon DEF IInv
  <2>2. PICK n \in Nat, e \in 0 .. nRamFrames, r \in -1 .. nRamFrames - 1 :
          n = npages[t] /\ e = end[t] /\ r = beginning[t]
    BY <2>1, SMTT(60) DEF TypeOK
  <2>3. ASSUME NEW b \in Frames, NEW k \in Int, NoRunBelow(n, k), b + n <= k PROVE ~FreeRun(b, n)
    BY <2>3 DEF NoRunBelow, FreeRun, Block
  <2>4. ASSUME pc[t] = "found"
        PROVE  FreeRun(r, n) /\ \A b \in Frames : b < r => ~FreeRun(b, n)
    <3>1. ScanOK(n, r, e) /\ NoRunBelow(n, e - 1) /\ r # -1 /\ e - r = n
      BY <2>2, <2>4, Zenon DEF IInv, ScanInv, ScanAt
    <3>2. FreeRun(r, n)
      BY <3>1 DEF ScanOK, FreeRun, Block
    <3>3. \A b \in Frames : b < r => b + n <= e - 1
      BY <3>1
    <3> QED
      BY <2>3, <3>1, <3>2, <3>3, SMTT(30)
  <2>5. ASSUME pc[t] = "scan", e = nRamFrames PROVE \A b \in Frames : ~FreeRun(b, n)
    <3>1. NoRunBelow(n, nRamFrames)
      BY <2>2, <2>5, Zenon DEF IInv, ScanInv, ScanAt
    <3> QED
      BY <2>3, <3>1, SMTT(30) DEF FreeRun
  <2> QED
    BY <2>2, <2>4, <2>5, Zenon
<1> QED
  BY <1>1, Inductive, PTL

=============================================================================
