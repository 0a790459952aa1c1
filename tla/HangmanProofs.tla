--------------------------- MODULE HangmanProofs ---------------------------
(***************************************************************************)
(* The deadlock detector of thread/hangman.c is exact, for any number of   *)
(* CPUs and spinlocks.                                                     *)
(*                                                                         *)
(* HangInv (SpinlockProofs) says that waiting and holding are what the     *)
(* CPUs wait for and hold, but for the moments between a store to the lock *)
(* word and the call of the detector.  hangman_check's walk over them is a *)
(* chain of CPUs, each waiting for a lock the next one holds.  That the    *)
(* chain exists, and where it goes, is shown with the least element of a   *)
(* set of naturals; that it must repeat a CPU, with the pigeonhole         *)
(* principle.  Only spinlock_acquire can close a knot, so one that         *)
(* hangman_check lets pass would have been there before.                   *)
(***************************************************************************)
EXTENDS SpinlockProofs, FiniteSetTheorems, WellFoundedInduction

-----------------------------------------------------------------------------
(* Chains of holders and what they wait for.                               *)

(* < is well-founded on the naturals.                                      *)
LEMMA LessIsWellFounded ==
  \E R : IsWellFoundedOn(R, Nat) /\ \A x, y \in Nat : <<x, y>> \in R <=> x < y
<1> DEFINE R == OpToRel(<, Nat)
<1>1. IsWellFoundedOn(R, Nat)
  BY NatLessThanWellFounded, Zenon
<1>2. \A x, y \in Nat : <<x, y>> \in R <=> x < y
  BY DEF OpToRel
<1> HIDE DEF R
<1> QED
  BY <1>1, <1>2, Zenon

(* A nonempty set of naturals has a least element.                         *)
LEMMA LeastNat ==
  ASSUME NEW T, T \subseteq Nat, T # {}
  PROVE  \E x \in T : \A y \in T : x <= y
<1>1. PICK R : IsWellFoundedOn(R, Nat) /\ \A x, y \in Nat : <<x, y>> \in R <=> x < y
  BY LessIsWellFounded, Zenon
<1>2. IsWellFoundedOn(R, Nat)
  BY <1>1, Zenon
<1>3. \E x \in T : \A y \in T : ~ (<<y, x>> \in R)
  BY <1>2, WFMin, ZenonT(60)
<1>4. PICK x \in T : \A y \in T : ~ (<<y, x>> \in R)
  BY <1>3, Zenon
<1>5. \A y \in T : ~(y < x)
  BY <1>1, <1>4, Zenon
<1> QED
  BY <1>5

(* One turn of the loop of hangman_check.                                  *)
After(a) == IF a = NULL \/ waiting[a] = NULL THEN NULL ELSE holding[waiting[a]]

Chain(g, l, m) == g = [n \in 0..m |-> IF n = 0 THEN holding[l] ELSE After(g[n-1])]

(* What a chain is, turn by turn.                                          *)
LEMMA ChainTurns ==
  ASSUME NEW g, NEW l, NEW m \in Nat, Chain(g, l, m)
  PROVE  /\ DOMAIN g = 0..m /\ g[0] = holding[l]
         /\ \A n \in 0..m : n # 0 => g[n] = After(g[n-1])
<1>1. g = [n \in 0..m |-> IF n = 0 THEN holding[l] ELSE After(g[n-1])]
  BY Zenon DEF Chain
<1>2. DOMAIN g = 0..m
  BY <1>1, Zenon
<1>3. \A n \in 0..m : g[n] = IF n = 0 THEN holding[l] ELSE After(g[n-1])
  BY <1>1, Zenon
<1>4. 0 \in 0..m
  OBVIOUS
<1> QED
  BY <1>2, <1>3, <1>4, Zenon

(* The chain exists, however long: each turn adds one.                     *)
LEMMA ChainExists ==
  ASSUME NEW l, NEW m \in Nat
  PROVE  \E g : Chain(g, l, m)
<1> DEFINE T == {k \in Nat : ~\E g : Chain(g, l, k)}
<1> SUFFICES ASSUME T # {} PROVE FALSE
  BY Zenon
<1>1. PICK k \in T : \A y \in T : k <= y
  BY LeastNat, Zenon
<1>2. CASE k = 0
  <2> DEFINE g == [n \in 0..0 |-> holding[l]]
  <2>1. g = [n \in 0..0 |-> IF n = 0 THEN holding[l] ELSE After(g[n-1])]
    OBVIOUS
  <2> QED
    BY <1>2, <2>1, Zenon DEF Chain
<1>3. CASE k # 0
  <2>1. k \in Nat /\ k - 1 \in Nat /\ k - 1 \notin T
    BY <1>1, <1>3
  <2>2. PICK f : Chain(f, l, k - 1)
    BY <2>1, Zenon
  <2>3. /\ f[0] = holding[l]
        /\ \A n \in 0..(k-1) : n # 0 => f[n] = After(f[n-1])
    BY <2>1, <2>2, ChainTurns, Zenon
  <2>4. PICK last : last = After(f[k-1])
    BY Zenon
  <2> DEFINE g == [n \in 0..k |-> IF n = k THEN last ELSE f[n]]
  <2>5. \A n \in 0..k : g[n] = IF n = 0 THEN holding[l] ELSE After(g[n-1])
    <3> SUFFICES ASSUME NEW n \in 0..k
                 PROVE  g[n] = IF n = 0 THEN holding[l] ELSE After(g[n-1])
      BY Zenon
    <3>1. CASE n = 0
      BY <1>3, <2>1, <2>3, <3>1
    <3>2. CASE n # 0
      <4>1. n - 1 \in 0..k /\ n - 1 # k
        BY <2>1, <3>2
      <4>2. g[n-1] = f[n-1]
        BY <4>1
      <4>3. g[n] = After(f[n-1])
        <5>1. CASE n = k
          BY <2>4, <5>1, Zenon
        <5>2. CASE n # k
          <6>1. n \in 0..(k-1)
            BY <2>1, <5>2
          <6> QED
            BY <2>3, <3>2, <5>2, <6>1, Zenon
        <5> QED
          BY <5>1, <5>2, Zenon
      <4> QED
        BY <3>2, <4>2, <4>3, Zenon
    <3> QED
      BY <3>1, <3>2, Zenon
  <2>6. g = [n \in 0..k |-> g[n]]
    BY Zenon
  <2> HIDE DEF g
  <2>7. Chain(g, l, k)
    BY <2>5, <2>6, Zenon DEF Chain
  <2> QED
    BY <1>1, <2>7, Zenon
<1> QED
  BY <1>2, <1>3, Zenon

(* hangman_check follows such a chain.                                     *)
LEMMA LeadsIsChain ==
  ASSUME NEW l, NEW t
  PROVE  \E g : /\ Chain(g, l, Cardinality(Cpus))
                /\ Leads(l, t) <=> \E n \in 0..Cardinality(Cpus) : g[n] = t
<1> DEFINE h == CHOOSE h : h = [n \in 0..Cardinality(Cpus) |->
        IF n = 0 THEN holding[l]
        ELSE IF h[n-1] = NULL \/ waiting[h[n-1]] = NULL THEN NULL
        ELSE holding[waiting[h[n-1]]]]
<1>0. Cardinality(Cpus) \in Nat
  BY SpinAssumption, FS_CardinalityType
<1>1. PICK f : Chain(f, l, Cardinality(Cpus))
  BY <1>0, ChainExists, Zenon
<1>2. f = [n \in 0..Cardinality(Cpus) |->
        IF n = 0 THEN holding[l]
        ELSE IF f[n-1] = NULL \/ waiting[f[n-1]] = NULL THEN NULL
        ELSE holding[waiting[f[n-1]]]]
  BY <1>1, Zenon DEF Chain, After
<1>3. h = [n \in 0..Cardinality(Cpus) |->
        IF n = 0 THEN holding[l]
        ELSE IF h[n-1] = NULL \/ waiting[h[n-1]] = NULL THEN NULL
        ELSE holding[waiting[h[n-1]]]]
  BY <1>2, Zenon
<1>4. Chain(h, l, Cardinality(Cpus))
  BY <1>3, Zenon DEF Chain, After
<1>5. Leads(l, t) <=> \E n \in 0..Cardinality(Cpus) : h[n] = t
  BY Zenon DEF Leads
<1> QED
  BY <1>4, <1>5, Zenon

(* A chain that has not ended has not ended before.                        *)
LEMMA ChainBack ==
  ASSUME NEW g, NEW l, NEW m \in Nat, Chain(g, l, m), NEW n \in 0..m, g[n] # NULL
  PROVE  \A k \in 0..n : g[k] # NULL
<1> DEFINE T == {k \in 0..n : g[n - k] = NULL}
<1>1. CASE T = {}
  <2> SUFFICES ASSUME NEW k \in 0..n PROVE g[k] # NULL
    BY Zenon
  <2>1. n - k \in 0..n /\ n - (n - k) = k
    OBVIOUS
  <2> QED
    BY <1>1, <2>1, Zenon
<1>2. CASE T # {}
  <2>0. T \subseteq Nat
    OBVIOUS
  <2>1. PICK k \in T : \A y \in T : k <= y
    BY <1>2, <2>0, LeastNat, Zenon
  <2>2. k \in 0..n /\ g[n - k] = NULL
    BY <2>1, Zenon
  <2>3. k # 0
    <3>1. n - 0 = n
      OBVIOUS
    <3> QED
      BY <2>2, <3>1, Zenon
  <2>4. /\ k - 1 \in 0..n /\ ~(k <= k - 1)
        /\ n - (k - 1) \in 0..m /\ n - (k - 1) # 0 /\ (n - (k - 1)) - 1 = n - k
    BY <2>2, <2>3
  <2>5. g[n - (k - 1)] = After(g[n - k])
    BY <2>4, ChainTurns, ZenonT(60)
  <2>6. g[n - (k - 1)] = NULL
    BY <2>2, <2>5, Zenon DEF After
  <2> QED
    BY <2>1, <2>4, <2>6, Zenon
<1> QED
  BY <1>1, <1>2, Zenon

(* A chain that never meets c stays in a set closed but for c.             *)
LEMMA ChainStays ==
  ASSUME NEW g, NEW l, NEW m \in Nat, Chain(g, l, m), NEW S, NEW c, holding[l] \in S,
         \A d \in S : d # c => After(d) \in S,
         \A n \in 0..m : g[n] # c
  PROVE  \A n \in 0..m : g[n] \in S
<1> DEFINE T == {n \in 0..m : g[n] \notin S}
<1> SUFFICES ASSUME T # {} PROVE FALSE
  BY Zenon
<1>0. T \subseteq Nat
  OBVIOUS
<1>1. PICK k \in T : \A y \in T : k <= y
  BY <1>0, LeastNat, Zenon
<1>2. k \in 0..m /\ g[k] \notin S
  BY <1>1, Zenon
<1>3. k # 0
  BY <1>2, ChainTurns, Zenon
<1>4. k - 1 \in 0..m /\ ~(k <= k - 1)
  BY <1>2, <1>3
<1>5. g[k - 1] \in S
  BY <1>1, <1>4, Zenon
<1>6. g[k] = After(g[k - 1])
  BY <1>2, <1>3, ChainTurns, Zenon
<1> QED
  BY <1>2, <1>4, <1>5, <1>6, Zenon

(* A chain as long as there are CPUs meets one of them twice.              *)
LEMMA ChainLoops ==
  ASSUME NEW g, NEW l, Chain(g, l, Cardinality(Cpus)),
         \A n \in 0..Cardinality(Cpus) : g[n] \in Cpus
  PROVE  \E i, j \in 0..Cardinality(Cpus) : i < j /\ g[i] = g[j]
<1>n. PICK N : N = Cardinality(Cpus)
  BY Zenon
<1>0. N \in Nat /\ IsFiniteSet(Cpus)
  BY <1>n, SpinAssumption, FS_CardinalityType
<1>1. IsFiniteSet(0..N) /\ Cardinality(0..N) = N + 1
  BY <1>0, FS_Interval
<1>2. DOMAIN g = 0..N /\ g = [n \in 0..N |-> g[n]]
  BY <1>0, <1>n, ChainTurns, Zenon DEF Chain
<1>3. g \in [0..N -> Cpus]
  BY <1>2, <1>n, Zenon
<1>4. Cardinality(Cpus) < Cardinality(0..N)
  BY <1>0, <1>1, <1>n
<1>5. \E x, y \in 0..N : x # y /\ g[x] = g[y]
  BY <1>0, <1>1, <1>3, <1>4, FS_PigeonHole, Zenon
<1>6. PICK x, y \in 0..N : x # y /\ g[x] = g[y]
  BY <1>5, Zenon
<1>7. x < y \/ y < x
  BY <1>0, <1>6
<1> QED
  BY <1>6, <1>7, <1>n, Zenon

(* When it finds nothing, the target is nowhere on the chain.              *)
LEMMA LeadsNowhere ==
  ASSUME NEW l, NEW t
  PROVE  ~Leads(l, t) =>
           \E g : /\ Chain(g, l, Cardinality(Cpus))
                  /\ \A n \in 0..Cardinality(Cpus) : g[n] # t
<1>1. PICK g : /\ Chain(g, l, Cardinality(Cpus))
               /\ Leads(l, t) <=> \E n \in 0..Cardinality(Cpus) : g[n] = t
  BY LeadsIsChain, Zenon
<1> QED
  BY <1>1, Zenon

-----------------------------------------------------------------------------
(* The detector's record and the deadlocks there are.                      *)

(* A turn of the loop goes from a spinning CPU to the owner of its lock.   *)
LEMMA TurnIsWait ==
  ASSUME MInv, WaitsMatch, HoldsMatch, NEW d \in Cpus
  PROVE  /\ After(d) \in Cpus \cup {NULL}
         /\ After(d) # NULL => WaitsFor(d, After(d))
         /\ \A e \in Cpus : WaitsFor(d, e) /\ cpu[e].at = "spin" => After(d) = e
<1>0. /\ d # NULL
      /\ \A e \in Cpus : e # NULL
  BY SpinAssumption
<1>2. waiting[d] = IF Waits(cpu[d]) THEN cpu[d].lock ELSE NULL
  BY Zenon DEF WaitsMatch
<1>3. Waits(cpu[d]) => cpu[d].lock \in Locks /\ (cpu[d].at = "spin" \/ cpu[d].lock \in won[d])
  BY DEF MInv, CallsMatch, WordTypes, Waits
<1>4. ASSUME Waits(cpu[d])
      PROVE  After(d) = holding[cpu[d].lock]
  <2>1. cpu[d].lock # NULL
    BY <1>3, <1>4, SpinAssumption
  <2> QED
    BY <1>0, <1>2, <1>4, <2>1, Zenon DEF After
<1>5. ~Waits(cpu[d]) => After(d) = NULL
  BY <1>2, Zenon DEF After
<1>6. After(d) \in Cpus \cup {NULL}
  <2>1. Waits(cpu[d]) => After(d) \in Cpus \cup {NULL}
    BY <1>3, <1>4 DEF HoldsMatch
  <2> QED
    BY <1>5, <2>1
<1>7. ASSUME After(d) # NULL
      PROVE  WaitsFor(d, After(d))
  <2>1. PICK e \in Cpus : e = After(d)
    BY <1>6, <1>7
  <2>2. Waits(cpu[d]) /\ holding[cpu[d].lock] = e
    BY <1>4, <1>5, <1>7, <2>1, Zenon
  <2>3. cpu[d].lock \in won[e] /\ ~Moving(cpu[e], cpu[d].lock)
    <3>1. PICK k \in Locks : k = cpu[d].lock
      BY <1>3, <2>2, Zenon
    <3>2. holding[k] = e
      BY <2>2, <3>1, Zenon
    <3> QED
      BY <3>1, <3>2, Zenon DEF HoldsMatch
  <2>4. cpu[d].at = "spin"
    <3>1. ASSUME cpu[d].at # "spin"
          PROVE  FALSE
      <4>1. cpu[d].lock \in won[d] /\ cpu[d].lock \in Locks
        BY <1>3, <2>2, <3>1, Zenon
      <4>2. d = e
        BY <2>3, <4>1, Zenon DEF MInv, WordIsOwned
      <4>3. Moving(cpu[d], cpu[d].lock)
        BY <2>2, <3>1 DEF Moving, Waits
      <4> QED
        BY <2>3, <4>2, <4>3, Zenon
    <3> QED
      BY <3>1, Zenon
  <2> QED
    BY <2>1, <2>3, <2>4, Zenon DEF WaitsFor
<1>8. ASSUME NEW e \in Cpus, WaitsFor(d, e), cpu[e].at = "spin"
      PROVE  After(d) = e
  <2>1. cpu[d].at = "spin" /\ cpu[d].lock \in won[e]
    BY <1>8, Zenon DEF WaitsFor
  <2>2. Waits(cpu[d]) /\ ~Moving(cpu[e], cpu[d].lock)
    BY <1>8, <2>1 DEF Waits, Moving
  <2>3. holding[cpu[d].lock] = e
    BY <1>3, <2>1, <2>2, Zenon DEF HoldsMatch
  <2> QED
    BY <1>4, <2>2, <2>3, Zenon
<1> QED
  BY <1>6, <1>7, <1>8, Zenon

(* A knot that the CPU that steps is no part of was there before.          *)
LEMMA KnotWithout ==
  ASSUME NEW c \in Cpus, Alone(c), NEW S \in SUBSET Cpus, S # {}, c \notin S,
         \A d \in S : \E e \in S : WaitsFor(d, e)'
  PROVE  Knot
<1>1. ASSUME NEW d \in S
      PROVE  \E e \in S : WaitsFor(d, e)
  <2>1. PICK e \in S : WaitsFor(d, e)'
    BY Zenon
  <2>2. d \in Cpus /\ e \in Cpus /\ d # c /\ e # c
    BY Zenon
  <2>3. cpu'[d] = cpu[d] /\ won'[e] = won[e]
    BY <2>2, Zenon DEF Alone
  <2> QED
    BY <2>1, <2>3, Zenon DEF WaitsFor
<1>2. S \in (SUBSET Cpus) \ {{}}
  OBVIOUS
<1> QED
  BY <1>1, <1>2, Zenon DEF Knot

(* A CPU that does not come to spin makes no knot.                         *)
LEMMA NoNewKnot ==
  ASSUME NEW c \in Cpus, Alone(c), ~Knot, cpu'[c].at # "spin"
  PROVE  ~Knot'
<1> SUFFICES ASSUME Knot' PROVE FALSE
  BY Zenon
<1>1. PICK S \in (SUBSET Cpus) \ {{}} : \A d \in S : \E e \in S : WaitsFor(d, e)'
  BY Zenon DEF Knot
<1>2. c \notin S
  BY <1>1, Zenon DEF WaitsFor
<1>3. S \in SUBSET Cpus /\ S # {}
  OBVIOUS
<1> QED
  BY <1>1, <1>2, <1>3, KnotWithout, Zenon

(* A wait that hangman_check lets pass closes no knot.                     *)
LEMMA UnreportedIsNoKnot ==
  ASSUME MInv, WaitsMatch, HoldsMatch, ~Knot, NEW c \in Cpus, NEW l \in Locks, Alone(c), won' = won,
         cpu[c].at = "run", cpu'[c].at = "spin", cpu'[c].lock = l, ~Leads(l, c)
  PROVE  ~Knot'
<1> SUFFICES ASSUME Knot' PROVE FALSE
  BY Zenon
<1>n. PICK N : N = Cardinality(Cpus)
  BY Zenon
<1>N. N \in Nat
  BY <1>n, SpinAssumption, FS_CardinalityType
<1>1. PICK S \in (SUBSET Cpus) \ {{}} : \A d \in S : \E e \in S : WaitsFor(d, e)'
  BY Zenon DEF Knot
<1>2. S \in SUBSET Cpus /\ S # {}
  OBVIOUS
<1>3. c \in S
  BY <1>1, <1>2, KnotWithout, Zenon
<1>4. \A d \in S : cpu'[d].at = "spin"
  BY <1>1, Zenon DEF WaitsFor
<1>5. ASSUME NEW d \in S, d # c
      PROVE  cpu[d].at = "spin" /\ cpu[d] = cpu'[d]
  BY <1>2, <1>4, <1>5, Zenon DEF Alone
<1>6. holding[l] \in S
  <2>1. PICK e \in S : WaitsFor(c, e)'
    BY <1>1, <1>3, Zenon
  <2>2. l \in won[e]
    BY <2>1, Zenon DEF WaitsFor
  <2>3. cpu[e].at = "spin" \/ cpu[e].at = "run"
    BY <1>5, Zenon
  <2>4. ~Moving(cpu[e], l)
    BY <2>3 DEF Moving
  <2>5. holding[l] = e
    BY <1>2, <2>2, <2>4, Zenon DEF HoldsMatch
  <2> QED
    BY <2>5, Zenon
<1>7. ASSUME NEW d \in S, d # c
      PROVE  After(d) \in S /\ WaitsFor(d, After(d))
  <2>1. PICK e \in S : WaitsFor(d, e)'
    BY <1>1, Zenon
  <2>2. WaitsFor(d, e)
    BY <1>5, <1>7, <2>1, Zenon DEF WaitsFor
  <2>3. ~Moving(cpu[e], cpu[d].lock)
    <3>1. cpu[e].at = "spin" \/ cpu[e].at = "run"
      BY <1>5, Zenon
    <3> QED
      BY <3>1 DEF Moving
  <2>4. After(d) = e
    <3>1. cpu[d].at = "spin" /\ cpu[d].lock \in won[e] /\ cpu[d].lock \in Locks
      BY <1>2, <2>2, Zenon DEF WaitsFor, MInv, CallsMatch
    <3>2. waiting[d] = cpu[d].lock
      BY <1>2, <3>1 DEF WaitsMatch, Waits
    <3>3. holding[cpu[d].lock] = e
      BY <1>2, <2>3, <3>1, Zenon DEF HoldsMatch
    <3>4. d # NULL /\ cpu[d].lock # NULL
      BY <1>2, <3>1, SpinAssumption
    <3> QED
      BY <3>2, <3>3, <3>4, Zenon DEF After
  <2> QED
    BY <2>2, <2>4, Zenon
<1>8. PICK g : Chain(g, l, N) /\ \A n \in 0..N : g[n] # c
  BY <1>n, LeadsNowhere, Zenon
<1>9. \A n \in 0..N : g[n] \in S
  BY <1>6, <1>7, <1>8, <1>N, ChainStays, Zenon
<1>10. PICK i, j \in 0..N : i < j /\ g[i] = g[j]
  <2>1. \A n \in 0..N : g[n] \in Cpus
    BY <1>2, <1>9, Zenon
  <2> QED
    BY <1>8, <1>n, <2>1, ChainLoops, Zenon
<1> DEFINE Q == {g[k] : k \in i..(j-1)}
<1>11. ASSUME NEW d \in Q
       PROVE  d \in S /\ \E e \in Q : WaitsFor(d, e)
  <2>1. PICK k \in i..(j-1) : d = g[k]
    BY Zenon
  <2>2. k \in 0..N /\ k + 1 \in 0..N /\ k + 1 # 0 /\ (k + 1) - 1 = k
    BY <1>10, <1>N, <2>1
  <2>3. d \in S /\ d # c
    BY <1>8, <1>9, <2>1, <2>2, Zenon
  <2>4. g[k + 1] = After(d)
    <3>1. g[k + 1] = After(g[(k + 1) - 1])
      BY <1>8, <1>N, <2>2, ChainTurns, Zenon
    <3> QED
      BY <2>1, <2>2, <3>1, Zenon
  <2>5. After(d) \in Q
    <3>1. CASE k + 1 = j
      <4>1. i \in i..(j-1)
        BY <1>10, <1>N
      <4> QED
        BY <1>10, <2>4, <3>1, <4>1, Zenon
    <3>2. CASE k + 1 # j
      <4>1. k + 1 \in i..(j-1)
        BY <1>10, <1>N, <2>1, <3>2
      <4> QED
        BY <2>4, <4>1, Zenon
    <3> QED
      BY <3>1, <3>2, Zenon
  <2> QED
    BY <1>7, <2>3, <2>5, Zenon
<1>12. Q \in (SUBSET Cpus) \ {{}}
  <2>1. g[i] \in Q
    <3>1. i \in i..(j-1)
      BY <1>10, <1>N
    <3> QED
      BY <3>1, Zenon
  <2>2. Q \subseteq Cpus
    BY <1>2, <1>11, Zenon
  <2> HIDE DEF Q
  <2> QED
    BY <2>1, <2>2
<1>13. Knot
  BY <1>11, <1>12, Zenon DEF Knot
<1> QED
  BY <1>13, Zenon

(* A wait that hangman_check reports closes a knot: the CPUs of the chain. *)
LEMMA ReportedIsKnot ==
  ASSUME MInv, WaitsMatch, HoldsMatch, NEW c \in Cpus, NEW l \in Locks, Alone(c), won' = won,
         cpu'[c].at = "spin", cpu'[c].lock = l, Leads(l, c)
  PROVE  Knot'
<1>n. PICK N : N = Cardinality(Cpus)
  BY Zenon
<1>N. N \in Nat
  BY <1>n, SpinAssumption, FS_CardinalityType
<1>0. c # NULL /\ l # NULL
  BY SpinAssumption
<1>1. PICK g : Chain(g, l, N) /\ \E n \in 0..N : g[n] = c
  <2>1. PICK g : /\ Chain(g, l, Cardinality(Cpus))
                 /\ Leads(l, c) <=> \E n \in 0..Cardinality(Cpus) : g[n] = c
    BY LeadsIsChain, ZenonT(60)
  <2> QED
    BY <1>n, <2>1, Zenon
<1>2. PICK n \in 0..N : g[n] = c
  BY <1>1, Zenon
<1>3. \A k \in 0..n : g[k] # NULL
  BY <1>0, <1>1, <1>2, <1>N, ChainBack, Zenon
<1>4. holding[l] \in Cpus \cup {NULL} /\ g[0] = holding[l]
  BY <1>1, <1>N, ChainTurns, ZenonT(60) DEF HoldsMatch
<1>5. \A k \in 0..n : g[k] \in Cpus
  <2> DEFINE T == {k \in 0..n : g[k] \notin Cpus}
  <2> SUFFICES ASSUME T # {} PROVE FALSE
    BY Zenon
  <2>0. T \subseteq Nat
    OBVIOUS
  <2>1. PICK k \in T : \A y \in T : k <= y
    BY <2>0, LeastNat, Zenon
  <2>2. k \in 0..n /\ g[k] \notin Cpus
    BY <2>1, Zenon
  <2>3. k # 0
    BY <1>3, <1>4, <2>2
  <2>4. k \in 0..N /\ k - 1 \in 0..n /\ ~(k <= k - 1)
    BY <1>2, <1>N, <2>2, <2>3
  <2>5. g[k - 1] \in Cpus
    BY <2>1, <2>4, Zenon
  <2>6. g[k] = After(g[k - 1])
    BY <1>1, <1>N, <2>3, <2>4, ChainTurns, Zenon
  <2>7. g[k] \in Cpus \cup {NULL}
    BY <2>5, <2>6, TurnIsWait, Zenon
  <2> QED
    BY <1>3, <2>2, <2>7
<1> DEFINE S == {g[k] : k \in 0..n}
<1>6. ASSUME NEW d \in S
      PROVE  \E e \in S : WaitsFor(d, e)'
  <2>1. PICK k \in 0..n : d = g[k]
    BY Zenon
  <2>2. d \in Cpus
    BY <1>5, <2>1, Zenon
  <2>3. CASE d = c
    <3>1. 0 \in 0..n
      BY <1>2, <1>N
    <3>2. g[0] \in S /\ g[0] \in Cpus
      BY <1>5, <3>1, Zenon
    <3>3. l \in won[g[0]]
      BY <1>4, <3>2, Zenon DEF HoldsMatch
    <3>4. WaitsFor(c, g[0])'
      BY <3>3, Zenon DEF WaitsFor
    <3> QED
      BY <2>3, <3>2, <3>4, Zenon
  <2>4. CASE d # c
    <3>1. k # n
      BY <1>2, <2>1, <2>4, Zenon
    <3>2. k + 1 \in 0..n /\ k + 1 \in 0..N /\ k + 1 # 0 /\ (k + 1) - 1 = k
      BY <1>2, <1>N, <2>1, <3>1
    <3>3. g[k + 1] = After(g[(k + 1) - 1])
      BY <1>1, <1>N, <3>2, ChainTurns, Zenon
    <3>4. g[k + 1] = After(d) /\ After(d) # NULL
      BY <1>3, <2>1, <3>2, <3>3, Zenon
    <3>5. WaitsFor(d, g[k + 1])
      BY <2>2, <3>4, TurnIsWait, Zenon
    <3>6. WaitsFor(d, g[k + 1])'
      BY <2>2, <2>4, <3>5, Zenon DEF WaitsFor, Alone
    <3> QED
      BY <3>2, <3>6, Zenon
  <2> QED
    BY <2>3, <2>4, Zenon
<1>7. S \in (SUBSET Cpus) \ {{}}
  <2>1. g[n] \in S
    <3>1. n \in 0..n
      BY <1>2, <1>N
    <3> QED
      BY <3>1, Zenon
  <2>2. S \subseteq Cpus
    BY <1>5, Zenon
  <2> HIDE DEF S
  <2> QED
    BY <2>1, <2>2
<1> QED
  BY <1>6, <1>7, Zenon DEF Knot

(* Only spinlock_acquire leaves its CPU spinning or reports a cycle.       *)
LEMMA OthersDoNotAsk ==
  ASSUME MInv, NEW c \in Cpus, Step(c), \A l \in Locks : ~spinlock_acquire(c, l)
  PROVE  cpu'[c].at # "spin" /\ dead' # "cycle"
<1>p. PICK p : p = cpu[c]
  BY Zenon
<1>r. PICK r : r = spllower(p)
  BY Zenon
<1>0. IsCpu(p) /\ IsCpu(r) /\ cpu = [d \in Cpus |-> cpu[d]] /\ dead = "no"
  BY <1>p, <1>r, LowerKeepsCall, StepsAlive, Zenon DEF MInv, WordTypes
<1>1. CASE Quiet(c)
  <2>1. cpu'[c].at \in {"run", "idle"}
    BY <1>1, QuietAts, Zenon
  <2>2. cpu'[c].at # "spin"
    BY <2>1
  <2>3. dead' # "cycle"
    BY <1>0, <1>1, Zenon DEF Quiet, splhigh, Interrupt, InterruptReturn, cpu_idle,
         Syscall, TlbFault, CopyBegins, CopyEnds, TrapReturn, FatalFault
  <2> QED
    BY <2>2, <2>3, Zenon
<1>2. CASE testandset(c) \/ SetHolder(c) \/ hangman_acquire(c) \/ ClearHolder(c)
  <2>1. cpu'[c].at = "won" \/ cpu'[c].at = "noted" \/ cpu'[c].at = "run" \/ cpu'[c].at = "clear"
    BY <1>0, <1>2, <1>p, ZenonT(60) DEF testandset, SetHolder, hangman_acquire, ClearHolder, IsCpu
  <2>2. dead' = "no" \/ dead' = "hangman"
    BY <1>0, <1>2, Zenon DEF testandset, SetHolder, hangman_acquire, ClearHolder
  <2> QED
    BY <2>1, <2>2, Zenon
<1>3. CASE ClearData(c)
  <2>1. cpu'[c].at = "run"
    BY <1>0, <1>3, <1>p, <1>r, Zenon DEF ClearData, IsCpu
  <2> QED
    BY <1>0, <1>3, <2>1, Zenon DEF ClearData
<1>4. CASE \E l \in Locks : spinlock_release(c, l)
  <2>0. PICK l \in Locks : spinlock_release(c, l)
    BY <1>4, Zenon
  <2>1. cpu'[c].at = "leave"
    BY <1>0, <1>p, <2>0, Zenon DEF spinlock_release, IsCpu
  <2>2. dead' = "no" \/ dead' = "hangman" \/ dead' = "assert"
    BY <1>0, <2>0, Zenon DEF spinlock_release, hangman_release
  <2> QED
    BY <2>1, <2>2, Zenon
<1> QED
  BY <1>1, <1>2, <1>3, <1>4, Zenon DEF Step, Stores

(* spinlock_acquire keeps the detector exact.                              *)
LEMMA AskIsExact ==
  ASSUME MInv, WaitsMatch, HoldsMatch, dead = "no", ~Knot,
         NEW c \in Cpus, NEW l \in Locks, spinlock_acquire(c, l)
  PROVE  HangmanIsExact'
<1>1. Alone(c)
  BY StepsAlone, Zenon DEF Step
<1>p. PICK p : p = cpu[c]
  BY Zenon
<1>r. PICK r : r = splraise(p)
  BY Zenon
<1>t. IsCpu(r) /\ cpu = [d \in Cpus |-> cpu[d]]
  BY <1>p, <1>r, RaiseKeepsCall, Zenon DEF MInv, WordTypes
<1>2. waiting[c] = NULL
  BY HangAsk, Zenon
<1>3. CASE holder[l] = c
  <2>1. cpu'[c] = [r EXCEPT !.at = "panic", !.lock = l] /\ dead' = "self"
    BY <1>3, <1>p, <1>r, <1>t, Zenon DEF spinlock_acquire
  <2>2. cpu'[c].at = "panic"
    BY <1>t, <2>1, Zenon DEF IsCpu
  <2>3. cpu'[c].at # "spin"
    BY <2>2, Zenon
  <2>4. ~Knot'
    BY <1>1, <2>3, NoNewKnot, Zenon
  <2> QED
    BY <2>1, <2>4, Zenon DEF HangmanIsExact
<1>4. CASE holder[l] # c
  <2>1. cpu'[c] = [r EXCEPT !.nspin = @ + 1, !.at = "spin", !.lock = l]
    BY <1>4, <1>p, <1>r, <1>t, Zenon DEF spinlock_acquire
  <2>2. cpu'[c].at = "spin" /\ cpu'[c].lock = l
    BY <1>t, <2>1, Zenon DEF IsCpu
  <2>3. won' = won /\ cpu[c].at = "run"
    BY Zenon DEF spinlock_acquire, KernelCode, Running
  <2>4. CASE Leads(l, c)
    <3>1. dead' = "cycle"
      BY <1>2, <1>4, <2>4, Zenon DEF spinlock_acquire, hangman_wait
    <3>2. Knot'
      BY <1>1, <2>2, <2>3, <2>4, ReportedIsKnot, Zenon
    <3> QED
      BY <3>1, <3>2, Zenon DEF HangmanIsExact
  <2>5. CASE ~Leads(l, c)
    <3>1. dead' = "no"
      BY <1>2, <1>4, <2>5, Zenon DEF spinlock_acquire, hangman_wait
    <3>2. ~Knot'
      BY <1>1, <2>2, <2>3, <2>5, UnreportedIsNoKnot, Zenon
    <3> QED
      BY <3>1, <3>2, Zenon DEF HangmanIsExact
  <2> QED
    BY <2>4, <2>5, Zenon
<1> QED
  BY <1>3, <1>4, Zenon

(* Every step keeps the detector exact.                                    *)
LEMMA HangmanNext ==
  ASSUME HangInv, HangmanIsExact, [SpinNext]_spinvars
  PROVE  HangmanIsExact'
<1>1. CASE UNCHANGED spinvars
  BY <1>1, Zenon DEF spinvars, HangmanIsExact, Knot, WaitsFor
<1>2. CASE SpinNext
  <2>1. PICK c \in Cpus : Step(c)
    BY <1>2, NextIsStep, Zenon
  <2>2. dead = "no"
    BY <2>1, StepsAlive, Zenon
  <2>3. ~Knot /\ MInv /\ WaitsMatch /\ HoldsMatch
    BY <2>2, Zenon DEF HangmanIsExact, HangInv
  <2>4. CASE \E l \in Locks : spinlock_acquire(c, l)
    BY <2>2, <2>3, <2>4, AskIsExact, Zenon
  <2>5. CASE \A l \in Locks : ~spinlock_acquire(c, l)
    <3>1. cpu'[c].at # "spin" /\ dead' # "cycle"
      BY <2>1, <2>3, <2>5, OthersDoNotAsk, Zenon
    <3>2. Alone(c)
      BY <2>1, <2>3, StepsAlone, Zenon
    <3>3. ~Knot'
      BY <2>3, <3>1, <3>2, NoNewKnot, Zenon
    <3> QED
      BY <3>1, <3>3, Zenon DEF HangmanIsExact
  <2> QED
    BY <2>4, <2>5, Zenon
<1> QED
  BY <1>1, <1>2, Zenon

(* hangman_check panics exactly when the wait it is called for closes a    *)
(* knot of CPUs that spin on one another's locks: for any number of CPUs   *)
(* and locks no deadlock goes unreported and no report is false, though    *)
(* the detector's record lags behind the lock words by several steps.  The *)
(* walk needs no more turns than there are CPUs: one that does not reach   *)
(* the caller would otherwise go round a knot that was there before.       *)
THEOREM HangmanExact == SpinSpec => []HangmanIsExact
<1>1. SpinInit => HangmanIsExact
  <2> SUFFICES ASSUME SpinInit PROVE HangmanIsExact
    BY Zenon
  <2>1. dead = "no" /\ \A c \in Cpus : cpu[c].at = "run"
    BY DEF SpinInit, UserThread
  <2>2. \A c, d \in Cpus : ~WaitsFor(c, d)
    BY <2>1, Zenon DEF WaitsFor
  <2>3. ~Knot
    BY <2>2 DEF Knot
  <2> QED
    BY <2>1, <2>3, Zenon DEF HangmanIsExact
<1>2. HangInv /\ HangmanIsExact /\ [SpinNext]_spinvars => HangmanIsExact'
  BY HangmanNext, Zenon
<1> QED
  BY <1>1, <1>2, HangInductive, PTL DEF SpinSpec

=============================================================================
