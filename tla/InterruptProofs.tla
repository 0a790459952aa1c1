-------------------------- MODULE InterruptProofs --------------------------
(***************************************************************************)
(* Interrupts are off exactly while a CPU holds or spins for a spinlock or *)
(* has called splhigh, and no assertion on the level fires, for any number *)
(* of CPUs, spinlocks and nested traps (thread/spl.c, thread/spinlock.c,   *)
(* arch/mips/locore/trap.c).                                               *)
(*                                                                         *)
(* Levels relates the counts of one CPU to the locks it has won.  It is    *)
(* not inductive alone: what an interrupt or a trap restores is in the     *)
(* saved frames, so Stack says which kinds of frame lie on which and what  *)
(* each of them will bring back.  SpinInv adds what SpinlockProofs shows   *)
(* of the lock words and of the deadlock detector's record.                *)
(***************************************************************************)
EXTENDS SpinlockProofs

-----------------------------------------------------------------------------
(* Interrupt levels and the stack of frames.                               *)

(* What the counts rest on, proved from the library at the end.            *)
Counting ==
  /\ IsFiniteSet({}) /\ Cardinality({}) = 0
  /\ \A S : IsFiniteSet(S) =>
       /\ Cardinality(S) \in Nat /\ (Cardinality(S) = 0 <=> S = {})
       /\ \A x : /\ IsFiniteSet(S \cup {x}) /\ IsFiniteSet(S \ {x})
                 /\ x \notin S => Cardinality(S \cup {x}) = Cardinality(S) + 1
                 /\ x \in S => Cardinality(S \ {x}) = Cardinality(S) - 1

Raised == {"leave", "clear", "panic"}

OnTop(p, kind) == p.frames # << >> /\ p.frames[Len(p.frames)].kind = kind

(* c_spinlocks counts the locks won and the one asked for, until the       *)
(* release of one begins; t_iplhigh_count counts those, the level, and one *)
(* call more on the way in or out of a spinlock; the enable bit is on when *)
(* that count is 0, or in cpu_idle.                                        *)
Levels(p, W) ==
  /\ IsFiniteSet(W)
  /\ p.curspl \in {IPL_NONE, IPL_HIGH}
  /\ p.nspin = Cardinality(W) + (IF p.at = "spin" THEN 1 ELSE 0)
                              - (IF p.at \in {"leave", "clear"} THEN 1 ELSE 0)
  /\ p.iplhigh = p.nspin + p.curspl + (IF p.at \in Raised THEN 1 ELSE 0)
  /\ Cardinality(W) + (IF p.at \in {"spin", "panic"} THEN 1 ELSE 0) <= MaxHeld
  /\ p.at # "idle" => (p.irq <=> p.iplhigh = 0)
  /\ p.at = "idle" => p.irq /\ p.curspl = IPL_HIGH /\ W = {}

(* A system call or a fault of the user program is at the bottom of the    *)
(* stack, a fault within copyin above the system call, an interrupt on     *)
(* top.  Each frame will turn interrupts on again, and an interrupt that   *)
(* found t_curspl high has found the CPU idle.                             *)
Stack(p, W) ==
  /\ p.frames = << >> => p.at = "run" /\ W = {} /\ p.curspl = IPL_NONE /\ ~p.badfault
  /\ p.at = "idle" => ~OnTop(p, "irq")
  /\ OnTop(p, "irq") => p.curspl = IPL_HIGH
  /\ OnTop(p, "sys") /\ p.badfault => p.at = "run" /\ W = {} /\ p.curspl = IPL_NONE
  /\ Len(p.frames) <= MaxFrames + (IF OnTop(p, "irq") THEN 1 ELSE 0)
  /\ \A i \in 1..Len(p.frames) :
       /\ p.frames[i].irq
       /\ p.frames[i].kind = "sys" => i = 1
       /\ p.frames[i].kind = "tlb" => i \in {1, 2} /\ (p.badfault <=> i = 2)
       /\ p.frames[i].kind = "irq" =>
            /\ i = Len(p.frames)
            /\ i = 1 => ~p.badfault
            /\ p.frames[i].adjust <=> p.frames[i].at = "run"
            /\ ~p.frames[i].adjust =>
                 i > 1 /\ (p.frames[i-1].kind = "sys" => ~p.badfault)

(* The fields of a CPU's record, one by one.                               *)
Looks(p, irq, curspl, iplhigh, nspin, badfault, frames, at, lock) ==
  /\ p.irq <=> irq
  /\ p.curspl = curspl /\ p.iplhigh = iplhigh /\ p.nspin = nspin
  /\ p.badfault <=> badfault
  /\ p.frames = frames /\ p.at = at /\ p.lock = lock

(* What splraise leaves in each field.                                     *)
LEMMA RaiseFields ==
  ASSUME NEW p, IsCpu(p)
  PROVE  Looks(splraise(p), p.iplhigh # 0 /\ p.irq, p.curspl, p.iplhigh + 1, p.nspin,
               p.badfault, p.frames, p.at, p.lock)
  BY ZenonT(60) DEF IsCpu, Looks, splraise

(* What spllower leaves in each field.                                     *)
LEMMA LowerFields ==
  ASSUME NEW p, IsCpu(p)
  PROVE  Looks(spllower(p), p.iplhigh = 1 \/ p.irq, p.curspl, p.iplhigh - 1, p.nspin,
               p.badfault, p.frames, p.at, p.lock)
  BY Zenon DEF IsCpu, Looks, spllower

(* splx up and splx down.                                                  *)
LEMMA SplxFields ==
  ASSUME NEW p, IsCpu(p)
  PROVE  /\ p.curspl = IPL_NONE =>
              Looks(splx(p, IPL_HIGH), p.iplhigh # 0 /\ p.irq, IPL_HIGH, p.iplhigh + 1,
                    p.nspin, p.badfault, p.frames, p.at, p.lock)
         /\ p.curspl = IPL_HIGH =>
              Looks(splx(p, IPL_NONE), p.iplhigh = 1 \/ p.irq, IPL_NONE, p.iplhigh - 1,
                    p.nspin, p.badfault, p.frames, p.at, p.lock)
<1>0. IPL_NONE < IPL_HIGH /\ ~(IPL_HIGH < IPL_NONE) /\ IPL_HIGH > IPL_NONE
  BY DEF IPL_NONE, IPL_HIGH
<1>1. ASSUME p.curspl = IPL_NONE
      PROVE  Looks(splx(p, IPL_HIGH), p.iplhigh # 0 /\ p.irq, IPL_HIGH, p.iplhigh + 1,
                   p.nspin, p.badfault, p.frames, p.at, p.lock)
  <2>r. PICK r : r = splraise(p)
    BY Zenon
  <2>1. splx(p, IPL_HIGH) = [r EXCEPT !.curspl = IPL_HIGH]
    BY <1>0, <1>1, <2>r, Zenon DEF splx
  <2>2. IsCpu(r)
    BY <2>r, RaiseKeepsCall, Zenon
  <2>3. Looks([r EXCEPT !.curspl = IPL_HIGH], r.irq, IPL_HIGH, r.iplhigh, r.nspin,
              r.badfault, r.frames, r.at, r.lock)
    BY <2>2, Zenon DEF IsCpu, Looks
  <2>4. Looks(r, p.iplhigh # 0 /\ p.irq, p.curspl, p.iplhigh + 1, p.nspin, p.badfault,
              p.frames, p.at, p.lock)
    BY <2>r, RaiseFields, Zenon
  <2> QED
    BY <2>1, <2>3, <2>4, Zenon DEF Looks
<1>2. ASSUME p.curspl = IPL_HIGH
      PROVE  Looks(splx(p, IPL_NONE), p.iplhigh = 1 \/ p.irq, IPL_NONE, p.iplhigh - 1,
                   p.nspin, p.badfault, p.frames, p.at, p.lock)
  <2>r. PICK r : r = [p EXCEPT !.curspl = IPL_NONE]
    BY Zenon
  <2>1. splx(p, IPL_NONE) = spllower(r)
    BY <1>0, <1>2, <2>r, Zenon DEF splx
  <2>2. IsCpu(r)
    BY <2>r, SetSpl, Zenon
  <2>3. Looks(r, p.irq, IPL_NONE, p.iplhigh, p.nspin, p.badfault, p.frames, p.at, p.lock)
    BY <2>r, Zenon DEF IsCpu, Looks
  <2>4. Looks(spllower(r), r.iplhigh = 1 \/ r.irq, r.curspl, r.iplhigh - 1, r.nspin,
              r.badfault, r.frames, r.at, r.lock)
    BY <2>2, LowerFields, Zenon
  <2>5. r.iplhigh = p.iplhigh /\ r.curspl = IPL_NONE
    BY <2>3, Zenon DEF Looks
  <2> QED
    BY <2>1, <2>3, <2>4, <2>5, Zenon DEF Looks
<1> QED
  BY <1>1, <1>2, Zenon

(* mips_trap enters at level 0 and leaves interrupts on.                   *)
LEMMA EnteredFields ==
  ASSUME NEW p, IsCpu(p), NEW kind \in {"sys", "tlb"}, p.at \in {"run", "idle"},
         p.curspl = IPL_NONE, p.iplhigh = 0
  PROVE  Looks(Entered(p, kind), TRUE, IPL_NONE, 0, p.nspin, p.badfault,
               Append(p.frames, Frame(p, kind, FALSE)), p.at, p.lock)
<1> DEFINE no == FALSE
           pushed == Append(p.frames, Frame(p, kind, no))
           masked == [p EXCEPT !.irq = no]
<1>1. no \in BOOLEAN /\ pushed \in Seq(Frames) /\ ~no
  BY PushKeepsCall, ZenonT(60)
<1>o. PICK off : off = [masked EXCEPT !.frames = pushed]
  BY Zenon
<1>h. PICK high : high = splx(off, IPL_HIGH)
  BY Zenon
<1>2. Entered(p, kind) = splx(high, IPL_NONE)
  BY <1>o, <1>h, Zenon DEF Entered
<1> HIDE DEF pushed, no
<1>3. IsCpu(masked)
  BY <1>1, SetIrq, Zenon
<1> HIDE DEF masked
<1>4. IsCpu(off)
  BY <1>1, <1>3, <1>o, SetFrames, Zenon DEF SameCall
<1>5. Looks(off, no, IPL_NONE, 0, p.nspin, p.badfault, pushed, p.at, p.lock)
  BY <1>o, Zenon DEF masked, IsCpu, Looks
<1>6. off.curspl = IPL_NONE /\ off.iplhigh = 0 /\ ~off.irq
  BY <1>1, <1>5, Zenon DEF Looks
<1>7. Looks(high, off.iplhigh # 0 /\ off.irq, IPL_HIGH, off.iplhigh + 1, off.nspin,
            off.badfault, off.frames, off.at, off.lock)
  BY <1>4, <1>6, <1>h, SplxFields, Zenon
<1>8. IsCpu(high) /\ high.curspl = IPL_HIGH
  BY <1>4, <1>7, <1>h, SplxKeepsCall, Zenon DEF Looks
<1>9. high.iplhigh = 1
  BY <1>6, <1>7 DEF Looks
<1>10. Looks(splx(high, IPL_NONE), high.iplhigh = 1 \/ high.irq, IPL_NONE, high.iplhigh - 1,
             high.nspin, high.badfault, high.frames, high.at, high.lock)
  BY <1>8, SplxFields, Zenon
<1>11. high.iplhigh - 1 = 0
  BY <1>9
<1>12. Looks(splx(high, IPL_NONE), TRUE, IPL_NONE, 0, p.nspin, p.badfault, pushed,
             p.at, p.lock)
  BY <1>5, <1>7, <1>9, <1>10, <1>11, Zenon DEF Looks
<1> QED
  BY <1>2, <1>12, Zenon DEF pushed, no

(* mips_trap, on its way out, restores the enable bit.                     *)
LEMMA LeftFields ==
  ASSUME NEW p, IsCpu(p)
  PROVE  Looks(Left(p), p.frames[Len(p.frames)].irq, p.curspl, p.iplhigh, p.nspin,
               p.badfault, SubSeq(p.frames, 1, Len(p.frames) - 1), p.at, p.lock)
  BY Zenon DEF IsCpu, Looks, Left

(* A saved frame goes on top of the others.                                *)
LEMMA Pushed ==
  ASSUME NEW fs \in Seq(Frames), NEW f \in Frames, NEW gs, gs = Append(fs, f)
  PROVE  /\ Len(fs) \in Nat /\ Len(gs) = Len(fs) + 1 /\ gs # << >>
         /\ gs[Len(gs)] = f
         /\ \A i \in 1..Len(fs) : gs[i] = fs[i]
  OBVIOUS

(* A stack has a top unless it is empty.                                   *)
LEMMA StackHasTop ==
  ASSUME NEW fs \in Seq(Frames)
  PROVE  /\ Len(fs) \in Nat
         /\ fs # << >> => Len(fs) \in 1..Len(fs)
         /\ fs = << >> <=> Len(fs) = 0
         /\ \A i \in 1..Len(fs) : fs[i] \in Frames
  OBVIOUS

(* The frames below the top one, n of them.                                *)
LEMMA BelowTop ==
  ASSUME NEW fs \in Seq(Frames), NEW n \in Nat, Len(fs) = n + 1
  PROVE  /\ SubSeq(fs, 1, n) \in Seq(Frames) /\ Len(SubSeq(fs, 1, n)) = n
         /\ \A i \in 1..n : SubSeq(fs, 1, n)[i] = fs[i]
  OBVIOUS

(* Of n frames the top one goes and the others stay.                       *)
IsPopped(gs, fs, n) ==
  /\ n \in Nat /\ n \in 1..n
  /\ Len(gs) = n - 1
  /\ \A i \in 1..(n - 1) : gs[i] = fs[i]
  /\ gs = << >> <=> n = 1

(* That is what SubSeq(fs, 1, Len(fs) - 1) does.                           *)
LEMMA Popped ==
  ASSUME NEW fs \in Seq(Frames), fs # << >>, NEW gs, gs = SubSeq(fs, 1, Len(fs) - 1),
         NEW n, n = Len(fs)
  PROVE  IsPopped(gs, fs, n)
<1>1. PICK m \in Nat : n = m + 1 /\ Len(fs) = m + 1 /\ n - 1 = m /\ Len(fs) - 1 = m
  BY StackHasTop
<1>2. gs \in Seq(Frames) /\ Len(gs) = m /\ \A i \in 1..m : gs[i] = fs[i]
  BY <1>1, BelowTop, ZenonT(60)
<1>3. gs = << >> <=> m = 0
  BY <1>2, StackHasTop, Zenon
<1> QED
  BY <1>1, <1>2, <1>3 DEF IsPopped

(* A step within the kernel that saves and restores no frame.              *)
LEMMA StackKept ==
  ASSUME NEW p, NEW q, NEW W, NEW V, Stack(p, W),
         q.frames = p.frames, q.badfault <=> p.badfault,
         p.frames # << >>, ~(OnTop(p, "sys") /\ p.badfault),
         q.curspl = p.curspl \/ ~OnTop(p, "irq"),
         q.at = "idle" => ~OnTop(p, "irq")
  PROVE  Stack(q, V)
<1>1. \A kind : OnTop(q, kind) <=> OnTop(p, kind)
  BY Zenon DEF OnTop
<1>2. /\ q.frames = << >> => q.at = "run" /\ V = {} /\ q.curspl = IPL_NONE /\ ~q.badfault
      /\ q.at = "idle" => ~OnTop(q, "irq")
      /\ OnTop(q, "irq") => q.curspl = IPL_HIGH
      /\ OnTop(q, "sys") /\ q.badfault => q.at = "run" /\ V = {} /\ q.curspl = IPL_NONE
      /\ Len(q.frames) <= MaxFrames + (IF OnTop(q, "irq") THEN 1 ELSE 0)
  BY <1>1, Zenon DEF Stack
<1>3. \A i \in 1..Len(q.frames) :
        /\ q.frames[i].irq
        /\ q.frames[i].kind = "sys" => i = 1
        /\ q.frames[i].kind = "tlb" => i \in {1, 2} /\ (q.badfault <=> i = 2)
        /\ q.frames[i].kind = "irq" =>
             /\ i = Len(q.frames)
             /\ i = 1 => ~q.badfault
             /\ q.frames[i].adjust <=> q.frames[i].at = "run"
             /\ ~q.frames[i].adjust =>
                  i > 1 /\ (q.frames[i-1].kind = "sys" => ~q.badfault)
  BY ZenonT(60) DEF Stack
<1> QED
  BY <1>2, <1>3, Zenon DEF Stack

(* copyin and copyout, begun and ended in a system call.                   *)
LEMMA StackCopies ==
  ASSUME NEW p, NEW q, NEW W, IsCpu(p), Stack(p, W), OnTop(p, "sys"),
         q.frames = p.frames, q.at = "run", W = {}, q.curspl = IPL_NONE
  PROVE  Stack(q, W)
<1>1. p.frames \in Seq(Frames) /\ p.frames # << >>
  BY Zenon DEF IsCpu, OnTop
<1>2. Len(p.frames) = 1 /\ p.frames[1].kind = "sys" /\ p.frames[1].irq
  <2>1. PICK n : n = Len(p.frames) /\ n \in 1..n
    BY <1>1, StackHasTop
  <2>2. p.frames[n].kind = "sys"
    BY <2>1, Zenon DEF OnTop
  <2>3. n = 1 /\ p.frames[n].irq
    BY <2>1, <2>2, Zenon DEF Stack
  <2> QED
    BY <2>1, <2>2, <2>3, Zenon
<1> QED
  BY <1>1, <1>2, SpinAssumption DEF Stack, OnTop

(* An interrupt: the CPU was not in a handler.                             *)
LEMMA StackInterrupted ==
  ASSUME NEW p, NEW q, NEW W, IsCpu(p), Stack(p, W), NEW f \in Frames,
         ~OnTop(p, "irq"), q.frames = Append(p.frames, f),
         f.kind = "irq", f.irq, f.adjust <=> f.at = "run",
         ~f.adjust => p.frames # << >> /\ ~(OnTop(p, "sys") /\ p.badfault),
         q.badfault <=> p.badfault, q.curspl = IPL_HIGH, q.at = "run"
  PROVE  Stack(q, W)
<1>0. p.frames \in Seq(Frames)
  BY Zenon DEF IsCpu
<1>1. PICK n \in Nat : n = Len(p.frames)
  BY <1>0
<1>2. /\ Len(q.frames) = n + 1 /\ q.frames # << >>
      /\ q.frames[n + 1] = f
      /\ \A i \in 1..n : q.frames[i] = p.frames[i]
  BY <1>0, <1>1, Pushed
<1>3. OnTop(q, "irq") /\ ~OnTop(q, "sys")
  BY <1>2, Zenon DEF OnTop
<1>4. /\ n <= MaxFrames
      /\ p.frames = << >> <=> n = 0
      /\ n = 0 => ~p.badfault
      /\ \A i \in 1..n : p.frames[i].kind # "irq" \/ (i = n /\ p.frames[n].kind = "irq")
  <2>1. p.frames = << >> <=> n = 0
    BY <1>0, <1>1, StackHasTop
  <2>2. n <= MaxFrames + 0
    BY <1>1, Zenon DEF Stack
  <2>3. n <= MaxFrames
    BY <2>2, SpinAssumption
  <2>4. \A i \in 1..n : p.frames[i].kind # "irq" \/ (i = n /\ p.frames[n].kind = "irq")
    BY <1>1, Zenon DEF Stack
  <2> QED
    BY <2>1, <2>3, <2>4, Zenon DEF Stack
<1>5. \A i \in 1..n : p.frames[i].kind # "irq"
  BY <1>1, <1>4 DEF OnTop
<1>6. \A i \in 1..n :
        /\ q.frames[i].irq
        /\ q.frames[i].kind = "sys" => i = 1
        /\ q.frames[i].kind = "tlb" => i \in {1, 2} /\ (q.badfault <=> i = 2)
        /\ q.frames[i].kind # "irq"
  BY <1>1, <1>2, <1>5, ZenonT(60) DEF Stack
<1>7. /\ q.frames[n + 1].irq /\ q.frames[n + 1].kind = "irq"
      /\ n + 1 = 1 => ~q.badfault
      /\ q.frames[n + 1].adjust <=> q.frames[n + 1].at = "run"
      /\ ~q.frames[n + 1].adjust => n # 0 /\ (q.frames[n].kind = "sys" => ~q.badfault)
  BY <1>1, <1>2, <1>4 DEF OnTop
<1>8. \A i \in 1..Len(q.frames) : i \in 1..n \/ i = n + 1
  BY <1>2
<1>9. n + 1 <= MaxFrames + 1 /\ n + 1 - 1 = n /\ (n # 0 => n + 1 > 1)
  BY <1>4, SpinAssumption
<1> QED
  BY <1>2, <1>3, <1>6, <1>7, <1>8, <1>9, SMTT(60) DEF Stack

(* A system call or a fault of the user program, or a fault in copyin.     *)
LEMMA StackEntered ==
  ASSUME NEW p, NEW q, NEW W, IsCpu(p), Stack(p, W), NEW f \in Frames, f.irq,
         \/ p.frames = << >> /\ f.kind \in {"sys", "tlb"}
         \/ /\ OnTop(p, "sys") /\ p.badfault /\ f.kind = "tlb"
            /\ Len(p.frames) < MaxFrames,
         q.frames = Append(p.frames, f),
         q.badfault <=> p.badfault, q.curspl = p.curspl, q.at = p.at
  PROVE  Stack(q, W)
<1>0. p.frames \in Seq(Frames)
  BY Zenon DEF IsCpu
<1>1. /\ q.frames # << >> /\ Len(q.frames) = Len(p.frames) + 1
      /\ q.frames[Len(q.frames)] = f
      /\ \A i \in 1..Len(p.frames) : q.frames[i] = p.frames[i]
  BY <1>0, Pushed
<1>2. ~OnTop(q, "irq") /\ q.at = "run" /\ q.curspl = IPL_NONE /\ W = {}
  BY <1>1, Zenon DEF Stack, OnTop
<1>3. CASE p.frames = << >> /\ f.kind \in {"sys", "tlb"}
  <2>1. Len(q.frames) = 1 /\ q.frames[1] = f /\ ~q.badfault
    BY <1>1, <1>3 DEF Stack
  <2> QED
    BY <1>1, <1>2, <1>3, <2>1, SpinAssumption, SMTT(60) DEF Stack
<1>4. CASE /\ OnTop(p, "sys") /\ p.badfault /\ f.kind = "tlb"
           /\ Len(p.frames) < MaxFrames
  <2>1. PICK n : n = Len(p.frames) /\ n \in 1..n
    BY <1>0, <1>4, StackHasTop DEF OnTop
  <2>2. p.frames[n].kind = "sys"
    BY <1>4, <2>1, Zenon DEF OnTop
  <2>3. n = 1 /\ p.frames[n].irq
    BY <2>1, <2>2, Zenon DEF Stack
  <2>4. /\ Len(q.frames) = 2 /\ q.frames[2] = f /\ q.badfault
        /\ q.frames[1].kind = "sys" /\ q.frames[1].irq
        /\ 2 <= MaxFrames + 0
    BY <1>1, <1>4, <2>1, <2>2, <2>3, SpinAssumption
  <2>5. \A i \in 1..2 : i = 1 \/ i = 2
    OBVIOUS
  <2> QED
    BY <1>1, <1>2, <1>4, <2>4, <2>5, ZenonT(60) DEF Stack
<1> QED
  BY <1>3, <1>4, Zenon

(* The return from a system call or a fault, whether copyin goes on or has *)
(* failed.                                                                 *)
LEMMA StackLeft ==
  ASSUME NEW p, NEW q, NEW W, IsCpu(p), Stack(p, W), p.frames # << >>,
         ~OnTop(p, "irq"), ~(OnTop(p, "sys") /\ p.badfault),
         q.frames = SubSeq(p.frames, 1, Len(p.frames) - 1),
         (q.badfault <=> p.badfault) \/ ~q.badfault,
         W = {}, q.curspl = IPL_NONE, q.at = "run"
  PROVE  Stack(q, W)
<1>0. p.frames \in Seq(Frames)
  BY Zenon DEF IsCpu
<1>n. PICK n : n = Len(p.frames)
  BY Zenon
<1>o. IsPopped(q.frames, p.frames, n)
  BY <1>0, <1>n, Popped, Zenon
<1>1. n = Len(p.frames) /\ n \in 1..n /\ n \in Nat
  BY <1>n, <1>o, Zenon DEF IsPopped
<1>2. /\ Len(q.frames) = n - 1
      /\ \A i \in 1..(n - 1) : q.frames[i] = p.frames[i]
      /\ q.frames = << >> <=> n = 1
  BY <1>o, Zenon DEF IsPopped
<1>3. p.frames[n].kind \in {"irq", "sys", "tlb"}
  <2>1. p.frames[n] \in Frames
    BY <1>0, <1>1, PopKeepsFrames, Zenon
  <2> QED
    BY <2>1 DEF Frames
<1>4. p.frames[n].kind = "tlb" \/ (p.frames[n].kind = "sys" /\ ~p.badfault)
  BY <1>1, <1>3, Zenon DEF OnTop
<1>5. CASE n = 1
  <2>1. ~q.badfault
    <3>1. p.frames[n].kind = "tlb" => (p.badfault <=> n = 2)
      BY <1>1, Zenon DEF Stack
    <3> QED
      BY <1>4, <1>5, <3>1
  <2> QED
    BY <1>2, <1>5, <2>1, SpinAssumption, SMTT(60) DEF Stack, OnTop
<1>6. CASE n # 1
  <2>1. n = 2 /\ p.badfault
    <3>1. /\ p.frames[n].kind = "sys" => n = 1
          /\ p.frames[n].kind = "tlb" => n \in {1, 2} /\ (p.badfault <=> n = 2)
      BY <1>1, Zenon DEF Stack
    <3> QED
      BY <1>4, <1>6, <3>1, Zenon
  <2>2. 1 \in 1..2 /\ 1 # 2 /\ n = 2
    BY <2>1
  <2>3. /\ p.frames[1].irq
        /\ p.frames[1].kind = "tlb" => (p.badfault <=> 1 = 2)
        /\ p.frames[1].kind = "irq" => 1 = 2
    BY <1>1, <2>2, ZenonT(60) DEF Stack
  <2>4. p.frames[1].kind = "sys"
    <3>0. p.frames[1] \in Frames
      BY <1>0, <1>1, <2>2, StackHasTop, Zenon
    <3>1. p.frames[1].kind \in {"irq", "sys", "tlb"}
      BY <3>0 DEF Frames
    <3> QED
      BY <2>1, <2>2, <2>3, <3>1, Zenon
  <2>5. /\ Len(q.frames) = 1 /\ q.frames # << >> /\ q.frames[1].irq
        /\ q.frames[1].kind = "sys" /\ 1 <= MaxFrames + 0
    BY <1>2, <2>2, <2>3, <2>4, SpinAssumption
  <2>6. \A i \in 1..1 : i = 1
    OBVIOUS
  <2> QED
    BY <2>5, <2>6, Zenon DEF Stack, OnTop
<1> QED
  BY <1>5, <1>6, Zenon

(* The return from an interrupt.                                           *)
LEMMA StackReturned ==
  ASSUME NEW p, NEW q, NEW W, IsCpu(p), Stack(p, W), OnTop(p, "irq"), W = {},
         q.frames = SubSeq(p.frames, 1, Len(p.frames) - 1),
         q.badfault <=> p.badfault, NEW top, top = p.frames[Len(p.frames)],
         q.at = top.at, q.curspl = IF top.adjust THEN IPL_NONE ELSE p.curspl
  PROVE  Stack(q, W)
<1>0. p.frames \in Seq(Frames) /\ p.frames # << >>
  BY Zenon DEF IsCpu, OnTop
<1>n. PICK n : n = Len(p.frames)
  BY Zenon
<1>o. IsPopped(q.frames, p.frames, n)
  BY <1>0, <1>n, Popped, Zenon
<1>1. n = Len(p.frames) /\ n \in 1..n /\ n \in Nat
  BY <1>n, <1>o, Zenon DEF IsPopped
<1>2. /\ Len(q.frames) = n - 1
      /\ \A i \in 1..(n - 1) : q.frames[i] = p.frames[i]
      /\ q.frames = << >> <=> n = 1
  BY <1>o, Zenon DEF IsPopped
<1>t. top = p.frames[n]
  BY <1>1, Zenon
<1>3. /\ top.irq /\ (n = 1 => ~p.badfault) /\ (top.adjust <=> top.at = "run")
      /\ ~top.adjust => n > 1 /\ (p.frames[n-1].kind = "sys" => ~p.badfault)
      /\ n <= MaxFrames + 1
  BY <1>1, <1>t, ZenonT(60) DEF Stack, OnTop
<1>4. \A i \in 1..(n - 1) : i \in 1..n /\ i # n
  BY <1>1
<1>5. \A i \in 1..(n - 1) :
        /\ q.frames[i].irq
        /\ q.frames[i].kind = "sys" => i = 1
        /\ q.frames[i].kind = "tlb" => i \in {1, 2} /\ (q.badfault <=> i = 2)
        /\ q.frames[i].kind # "irq"
  <2> TAKE i \in 1..(n - 1)
  <2>1. i \in 1..Len(p.frames) /\ i # n /\ q.frames[i] = p.frames[i]
    BY <1>1, <1>2, <1>4, Zenon
  <2>2. /\ p.frames[i].irq
        /\ p.frames[i].kind = "sys" => i = 1
        /\ p.frames[i].kind = "tlb" => i \in {1, 2} /\ (p.badfault <=> i = 2)
        /\ p.frames[i].kind = "irq" => i = Len(p.frames)
    BY <2>1, Zenon DEF Stack
  <2> QED
    BY <1>1, <2>1, <2>2, Zenon
<1>6. q.frames # << >> => n - 1 \in 1..(n - 1)
  BY <1>1, <1>2
<1>7. ~OnTop(q, "irq")
  BY <1>2, <1>5, <1>6, Zenon DEF OnTop
<1>8. n - 1 <= MaxFrames + 0
  BY <1>1, <1>3, SpinAssumption
<1>9. /\ q.at = "run" <=> top.adjust
      /\ top.adjust => q.curspl = IPL_NONE
  BY <1>1, <1>3, <1>t, Zenon
<1>10. q.frames = << >> => q.at = "run" /\ W = {} /\ q.curspl = IPL_NONE /\ ~q.badfault
  <2>1. n = 1 => ~(n > 1)
    BY <1>1
  <2> QED
    BY <1>2, <1>3, <1>9, <2>1, Zenon
<1>11. OnTop(q, "sys") /\ q.badfault => q.at = "run" /\ W = {} /\ q.curspl = IPL_NONE
  BY <1>2, <1>3, <1>6, <1>9, Zenon DEF OnTop
<1> QED
  BY <1>2, <1>5, <1>7, <1>8, <1>10, <1>11, Zenon DEF Stack

-----------------------------------------------------------------------------
(* The count and the enable bit, call by call.                             *)

(* The counts are numbers.                                                 *)
LEMMA LevelsAreNats ==
  ASSUME Counting, NEW p, NEW W, Levels(p, W)
  PROVE  /\ Cardinality(W) \in Nat /\ p.curspl \in {0, 1}
         /\ W = {} => Cardinality(W) = 0
         /\ p.at \notin {"leave", "clear"} => p.nspin \in Nat
         /\ p.at \in {"leave", "clear"} /\ W # {} => p.nspin \in Nat
<1>1. Cardinality(W) \in Nat /\ (Cardinality(W) = 0 <=> W = {})
  BY DEF Counting, Levels
<1> QED
  BY <1>1 DEF Levels, IPL_NONE, IPL_HIGH

(* splhigh.                                                                *)
LEMMA LevelsUp ==
  ASSUME Counting, NEW p, NEW q, NEW W, Levels(p, W), p.at = "run", p.curspl = IPL_NONE,
         q.irq <=> (p.iplhigh # 0 /\ p.irq), q.curspl = IPL_HIGH,
         q.iplhigh = p.iplhigh + 1, q.nspin = p.nspin, q.at = p.at
  PROVE  Levels(q, W)
  BY LevelsAreNats, SpinAssumption DEF Levels, IPL_NONE, IPL_HIGH, Raised

(* The splx that brings the old level back.                                *)
LEMMA LevelsDown ==
  ASSUME Counting, NEW p, NEW q, NEW W, Levels(p, W), p.at = "run", p.curspl = IPL_HIGH,
         q.irq <=> (p.iplhigh = 1 \/ p.irq), q.curspl = IPL_NONE,
         q.iplhigh = p.iplhigh - 1, q.nspin = p.nspin, q.at = p.at
  PROVE  Levels(q, W)
  BY LevelsAreNats, SpinAssumption DEF Levels, IPL_NONE, IPL_HIGH, Raised

(* spinlock_acquire, on the way in.                                        *)
LEMMA LevelsAsk ==
  ASSUME Counting, NEW p, NEW q, NEW W, Levels(p, W), p.at = "run", Cardinality(W) < MaxHeld,
         q.irq <=> (p.iplhigh # 0 /\ p.irq), q.curspl = p.curspl,
         q.iplhigh = p.iplhigh + 1,
         \/ q.at = "panic" /\ q.nspin = p.nspin
         \/ q.at = "spin" /\ q.nspin = p.nspin + 1
  PROVE  Levels(q, W)
  BY LevelsAreNats, SpinAssumption DEF Levels, IPL_NONE, IPL_HIGH, Raised

(* The test-and-set is won.                                                *)
LEMMA LevelsWin ==
  ASSUME Counting, NEW p, NEW q, NEW W, NEW l, l \notin W, Levels(p, W), p.at = "spin",
         q.irq <=> p.irq, q.curspl = p.curspl, q.iplhigh = p.iplhigh,
         q.nspin = p.nspin, q.at = "won"
  PROVE  Levels(q, W \cup {l})
<1>1. IsFiniteSet(W \cup {l}) /\ Cardinality(W \cup {l}) = Cardinality(W) + 1
  BY DEF Counting, Levels
<1> QED
  BY <1>1, LevelsAreNats, SpinAssumption DEF Levels, IPL_NONE, IPL_HIGH, Raised

(* The later steps of spinlock_acquire leave the counts alone.             *)
LEMMA LevelsHeld ==
  ASSUME Counting, NEW p, NEW q, NEW W, Levels(p, W),
         \/ p.at \in {"won", "noted"} /\ q.at \in {"noted", "run"}
         \/ p.at = "leave" /\ q.at = "clear",
         q.irq <=> p.irq, q.curspl = p.curspl, q.iplhigh = p.iplhigh, q.nspin = p.nspin
  PROVE  Levels(q, W)
  BY LevelsAreNats, SpinAssumption DEF Levels, IPL_NONE, IPL_HIGH, Raised

(* spinlock_release, on the way in.                                        *)
LEMMA LevelsRelease ==
  ASSUME Counting, NEW p, NEW q, NEW W, W # {}, Levels(p, W), p.at = "run",
         q.irq <=> p.irq, q.curspl = p.curspl, q.iplhigh = p.iplhigh,
         q.nspin = p.nspin - 1, q.at = "leave"
  PROVE  Levels(q, W) /\ p.nspin # 0
<1>1. Cardinality(W) # 0
  BY DEF Counting, Levels
<1> QED
  BY <1>1, LevelsAreNats, SpinAssumption DEF Levels, IPL_NONE, IPL_HIGH, Raised

(* The lock word is cleared and the level lowered.                         *)
LEMMA LevelsFree ==
  ASSUME Counting, NEW p, NEW q, NEW W, NEW l \in W, Levels(p, W), p.at = "clear",
         q.irq <=> (p.iplhigh = 1 \/ p.irq), q.curspl = p.curspl,
         q.iplhigh = p.iplhigh - 1, q.nspin = p.nspin, q.at = "run"
  PROVE  Levels(q, W \ {l})
<1>1. IsFiniteSet(W \ {l}) /\ Cardinality(W \ {l}) = Cardinality(W) - 1
  BY DEF Counting, Levels
<1>2. Cardinality(W) \in Nat /\ Cardinality(W) # 0
  BY DEF Counting, Levels
<1>3. /\ p.curspl \in {0, 1} /\ p.nspin = Cardinality(W) - 1
      /\ p.iplhigh = p.nspin + p.curspl + 1 /\ Cardinality(W) <= MaxHeld
      /\ p.irq <=> p.iplhigh = 0
  BY <1>2, SpinAssumption DEF Levels, IPL_NONE, IPL_HIGH, Raised
<1>4. /\ q.curspl \in {0, 1} /\ q.nspin = Cardinality(W \ {l})
      /\ q.iplhigh = q.nspin + q.curspl /\ Cardinality(W \ {l}) <= MaxHeld
      /\ q.irq <=> q.iplhigh = 0
  BY <1>1, <1>2, <1>3, SpinAssumption
<1> QED
  BY <1>1, <1>2, <1>4, SpinAssumption DEF Levels, IPL_NONE, IPL_HIGH, Raised

(* Outside the spinlock calls and cpu_idle.                                *)
LEMMA LevelsRun ==
  ASSUME Counting, NEW p, NEW W, p.at = "run"
  PROVE  Levels(p, W) <=>
           /\ IsFiniteSet(W) /\ p.curspl \in {0, 1} /\ p.nspin = Cardinality(W)
           /\ p.iplhigh = p.nspin + p.curspl /\ Cardinality(W) <= MaxHeld
           /\ p.irq <=> p.iplhigh = 0
<1>1. ASSUME IsFiniteSet(W)
      PROVE  Cardinality(W) \in Nat
  BY <1>1 DEF Counting
<1> QED
  BY <1>1, SpinAssumption DEF Levels, IPL_NONE, IPL_HIGH, Raised

(* In cpu_idle.                                                            *)
LEMMA LevelsIdle ==
  ASSUME Counting, NEW p, NEW W, p.at = "idle"
  PROVE  Levels(p, W) <=> W = {} /\ p.curspl = 1 /\ p.nspin = 0 /\ p.iplhigh = 1 /\ p.irq
<1>1. IsFiniteSet({}) /\ Cardinality({}) = 0
  BY DEF Counting
<1>2. ASSUME W = {} /\ p.curspl = 1 /\ p.nspin = 0 /\ p.iplhigh = 1 /\ p.irq
      PROVE  Levels(p, W)
  BY <1>1, <1>2, SpinAssumption DEF Levels, IPL_NONE, IPL_HIGH, Raised
<1>3. ASSUME Levels(p, W)
      PROVE  W = {} /\ p.curspl = 1 /\ p.nspin = 0 /\ p.iplhigh = 1 /\ p.irq
  <2>1. W = {} /\ p.curspl = 1 /\ p.irq
    BY <1>3, Zenon DEF Levels, IPL_HIGH
  <2> QED
    BY <1>1, <1>3, <2>1 DEF Levels, Raised
<1> QED
  BY <1>2, <1>3, Zenon

(* An interrupt: KASSERT(curthread->t_iplhigh_count == 0) holds.           *)
LEMMA LevelsInterrupted ==
  ASSUME Counting, NEW p, NEW q, NEW W, Levels(p, W), p.irq, p.at \in {"run", "idle"},
         ~q.irq, q.curspl = IPL_HIGH, q.nspin = p.nspin, q.at = "run",
         q.iplhigh = IF p.curspl = IPL_NONE THEN p.iplhigh + 1 ELSE p.iplhigh
  PROVE  /\ Levels(q, W) /\ W = {}
         /\ p.curspl = IPL_NONE => p.iplhigh = 0 /\ p.at = "run"
         /\ p.curspl # IPL_NONE => p.at = "idle"
<1>0. IsFiniteSet({}) /\ Cardinality({}) = 0
  BY DEF Counting
<1>1. CASE p.at = "run"
  <2>1. Cardinality(W) \in Nat /\ (Cardinality(W) = 0 <=> W = {})
    BY DEF Counting, Levels
  <2>2. /\ p.curspl \in {0, 1} /\ p.nspin = Cardinality(W)
        /\ p.iplhigh = p.nspin + p.curspl /\ p.iplhigh = 0
    BY <1>1, LevelsRun, Zenon
  <2>3. W = {} /\ p.curspl = 0 /\ p.nspin = 0 /\ p.iplhigh = 0
    BY <2>1, <2>2
  <2>4. q.curspl = 1 /\ q.nspin = 0 /\ q.iplhigh = 1 /\ 0 <= MaxHeld
    BY <2>3, SpinAssumption DEF IPL_NONE, IPL_HIGH
  <2>5. q.curspl \in {0, 1} /\ q.nspin = Cardinality(W) /\ q.iplhigh = q.nspin + q.curspl
        /\ Cardinality(W) <= MaxHeld /\ q.iplhigh # 0 /\ IsFiniteSet(W)
    BY <1>0, <2>3, <2>4
  <2>6. Levels(q, W)
    BY <2>5, LevelsRun, Zenon
  <2> QED
    BY <1>1, <2>3, <2>6 DEF IPL_NONE
<1>2. CASE p.at = "idle"
  <2>1. W = {} /\ p.curspl = 1 /\ p.nspin = 0 /\ p.iplhigh = 1
    BY <1>2, LevelsIdle, Zenon
  <2>2. q.curspl = 1 /\ q.nspin = 0 /\ q.iplhigh = 1 /\ 0 <= MaxHeld
    BY <2>1, SpinAssumption DEF IPL_NONE, IPL_HIGH
  <2>3. q.curspl \in {0, 1} /\ q.nspin = Cardinality(W) /\ q.iplhigh = q.nspin + q.curspl
        /\ Cardinality(W) <= MaxHeld /\ q.iplhigh # 0 /\ IsFiniteSet(W)
    BY <1>0, <2>1, <2>2
  <2>4. Levels(q, W)
    BY <2>3, LevelsRun, Zenon
  <2> QED
    BY <1>2, <2>1, <2>4 DEF IPL_NONE
<1> QED
  BY <1>1, <1>2, Zenon

(* With nothing held, the level is all there is to count.                  *)
LEMMA NothingHeld ==
  ASSUME Counting, NEW p, Levels(p, {}), p.at = "run"
  PROVE  p.curspl \in {0, 1} /\ p.nspin = 0 /\ p.iplhigh = p.curspl /\ (p.irq <=> p.curspl = 0)
<1>1. p.curspl \in {0, 1} /\ p.nspin = 0 /\ p.iplhigh = p.nspin + p.curspl
  BY LevelsRun, Zenon DEF Counting
<1>2. p.irq <=> p.iplhigh = 0
  BY LevelsRun, Zenon
<1> QED
  BY <1>1, <1>2

(* And the other way round.                                                *)
LEMMA HoldsNothing ==
  ASSUME Counting, NEW q, q.at = "run", q.curspl \in {0, 1}, q.nspin = 0, q.iplhigh = q.curspl,
         q.irq <=> q.curspl = 0
  PROVE  Levels(q, {})
<1>1. /\ IsFiniteSet({}) /\ q.nspin = Cardinality({}) /\ Cardinality({}) <= MaxHeld
      /\ q.iplhigh = q.nspin + q.curspl
  BY SpinAssumption DEF Counting
<1>2. q.irq <=> q.iplhigh = 0
  BY Zenon
<1> QED
  BY <1>1, <1>2, LevelsRun, Zenon

(* The return from an interrupt that raised the level, or that found the   *)
(* CPU idle.                                                               *)
LEMMA LevelsReturned ==
  ASSUME Counting, NEW p, NEW q, Levels(p, {}), p.at = "run", p.curspl = IPL_HIGH,
         q.irq, q.nspin = p.nspin,
         \/ q.at = "run" /\ q.curspl = IPL_NONE /\ q.iplhigh = p.iplhigh - 1
         \/ q.at = "idle" /\ q.curspl = p.curspl /\ q.iplhigh = p.iplhigh
  PROVE  Levels(q, {}) /\ p.iplhigh = 1
<1>1. p.nspin = 0 /\ p.iplhigh = 1 /\ p.curspl = 1
  BY NothingHeld, Zenon DEF IPL_HIGH
<1>2. CASE q.at = "run" /\ q.curspl = IPL_NONE /\ q.iplhigh = p.iplhigh - 1
  <2>1. q.curspl = 0 /\ q.iplhigh = 0
    BY <1>1, <1>2 DEF IPL_NONE
  <2>2. q.curspl \in {0, 1} /\ q.nspin = 0 /\ q.iplhigh = q.curspl
    BY <1>1, <2>1
  <2> QED
    BY <1>1, <1>2, <2>1, <2>2, HoldsNothing, Zenon
<1>3. CASE q.at = "idle" /\ q.curspl = p.curspl /\ q.iplhigh = p.iplhigh
  BY <1>1, <1>3, LevelsIdle, Zenon
<1> QED
  BY <1>2, <1>3, Zenon

(* cpu_idle, both ways.                                                    *)
LEMMA LevelsIdles ==
  ASSUME Counting, NEW p, NEW q, Levels(p, {}), p.curspl = IPL_HIGH,
         q.curspl = p.curspl, q.iplhigh = p.iplhigh, q.nspin = p.nspin,
         \/ p.at = "run" /\ q.at = "idle" /\ q.irq
         \/ p.at = "idle" /\ q.at = "run" /\ ~q.irq
  PROVE  Levels(q, {})
<1>1. p.curspl = 1 /\ p.nspin = 0 /\ p.iplhigh = 1
  BY NothingHeld, LevelsIdle, Zenon DEF IPL_HIGH
<1>2. q.curspl \in {0, 1} /\ q.curspl # 0 /\ q.nspin = 0 /\ q.iplhigh = q.curspl /\ q.curspl = 1
  BY <1>1
<1> QED
  BY <1>2, HoldsNothing, LevelsIdle, Zenon

(* Traps and copies happen with nothing held and interrupts on.            *)
LEMMA LevelsCalm ==
  ASSUME Counting, NEW p, NEW q, Levels(p, {}), p.curspl = IPL_NONE, p.at = "run",
         q.curspl = p.curspl, q.iplhigh = p.iplhigh, q.nspin = p.nspin,
         q.at = p.at, q.irq
  PROVE  Levels(q, {}) /\ p.iplhigh = 0 /\ p.irq
<1>1. p.curspl = 0 /\ p.nspin = 0 /\ p.iplhigh = 0 /\ p.irq
  BY NothingHeld, Zenon DEF IPL_NONE
<1>2. q.curspl \in {0, 1} /\ q.curspl = 0 /\ q.nspin = 0 /\ q.iplhigh = q.curspl
  BY <1>1
<1> QED
  BY <1>1, <1>2, HoldsNothing, Zenon

-----------------------------------------------------------------------------
(* One step of one CPU keeps its count, its enable bit and its stack.      *)

Sound(p, W) == Levels(p, W) /\ Stack(p, W)

(* Kernel code in front of the user program's memory is not copying.       *)
LEMMA InKernelCode ==
  ASSUME NEW c \in Cpus, KernelCode(c), NEW p, p = cpu[c]
  PROVE  /\ p.at = "run" /\ p.frames # << >> /\ dead = "no"
         /\ ~(OnTop(p, "sys") /\ p.badfault)
         /\ InHandler(c) <=> OnTop(p, "irq")
  BY Zenon DEF KernelCode, Running, InKernel, Copying, InHandler, Top, OnTop

(* splhigh and its splx.                                                   *)
LEMMA SplSound ==
  ASSUME Counting, MInv, NEW c \in Cpus, Sound(cpu[c], won[c]), splhigh(c)
  PROVE  Sound(cpu'[c], won'[c])
<1>p. PICK p : p = cpu[c]
  BY Zenon
<1>q. PICK q : q = cpu'[c]
  BY Zenon
<1>0. IsCpu(p) /\ won' = won
  BY <1>p, Zenon DEF MInv, WordTypes, splhigh
<1>1. /\ p.at = "run" /\ p.frames # << >>
      /\ ~(OnTop(p, "sys") /\ p.badfault) /\ ~OnTop(p, "irq")
  BY <1>p, InKernelCode, Zenon DEF splhigh
<1>2. PICK spl \in {IPL_NONE, IPL_HIGH} : spl # p.curspl /\ q = splx(p, spl)
  BY <1>p, <1>q, Zenon DEF splhigh, MInv, WordTypes
<1>3. p.curspl \in {IPL_NONE, IPL_HIGH}
  BY <1>p, Zenon DEF Sound, Levels
<1>4. CASE p.curspl = IPL_NONE /\ spl = IPL_HIGH
  <2>1. Looks(q, p.iplhigh # 0 /\ p.irq, IPL_HIGH, p.iplhigh + 1,
              p.nspin, p.badfault, p.frames, p.at, p.lock)
    BY <1>0, <1>2, <1>4, SplxFields, Zenon
  <2>2. Levels(q, won[c])
    BY <1>1, <1>4, <1>p, <2>1, LevelsUp, Zenon DEF Looks, Sound
  <2>3. Stack(q, won[c])
    BY <1>1, <1>p, <2>1, StackKept, Zenon DEF Looks, Sound
  <2> QED
    BY <1>0, <1>q, <2>2, <2>3, Zenon DEF Sound
<1>5. CASE p.curspl = IPL_HIGH /\ spl = IPL_NONE
  <2>1. Looks(q, p.iplhigh = 1 \/ p.irq, IPL_NONE, p.iplhigh - 1,
              p.nspin, p.badfault, p.frames, p.at, p.lock)
    BY <1>0, <1>2, <1>5, SplxFields, Zenon
  <2>2. Levels(q, won[c])
    BY <1>1, <1>5, <1>p, <2>1, LevelsDown, Zenon DEF Looks, Sound
  <2>3. Stack(q, won[c])
    BY <1>1, <1>p, <2>1, StackKept, Zenon DEF Looks, Sound
  <2> QED
    BY <1>0, <1>q, <2>2, <2>3, Zenon DEF Sound
<1> QED
  BY <1>2, <1>3, <1>4, <1>5, Zenon

(* A CPU in a spinlock call is in the kernel and not copying.              *)
LEMMA CallsInKernel ==
  ASSUME Counting, NEW p, NEW W, Sound(p, W), p.at \notin {"run", "idle"} \/ W # {}
  PROVE  /\ p.frames # << >> /\ ~(OnTop(p, "sys") /\ p.badfault)
         /\ p.curspl \in {IPL_NONE, IPL_HIGH}
  BY Zenon DEF Sound, Stack, Levels

(* spinlock_acquire up to its loop.                                        *)
LEMMA AskSound ==
  ASSUME Counting, MInv, NEW c \in Cpus, NEW l \in Locks, Sound(cpu[c], won[c]), spinlock_acquire(c, l)
  PROVE  Sound(cpu'[c], won'[c])
<1>p. PICK p : p = cpu[c]
  BY Zenon
<1>q. PICK q : q = cpu'[c]
  BY Zenon
<1>r. PICK r : r = splraise(p)
  BY Zenon
<1>0. IsCpu(p) /\ won' = won /\ Cardinality(won[c]) < MaxHeld
  BY <1>p, Zenon DEF MInv, WordTypes, spinlock_acquire
<1>1. p.at = "run" /\ p.frames # << >> /\ ~(OnTop(p, "sys") /\ p.badfault)
  BY <1>p, InKernelCode, Zenon DEF spinlock_acquire
<1>2. IsCpu(r) /\ Looks(r, p.iplhigh # 0 /\ p.irq, p.curspl, p.iplhigh + 1, p.nspin,
                        p.badfault, p.frames, p.at, p.lock)
  BY <1>0, <1>r, RaiseFields, RaiseKeepsCall, Zenon
<1>3. \/ q = [r EXCEPT !.at = "panic", !.lock = l]
      \/ q = [r EXCEPT !.nspin = @ + 1, !.at = "spin", !.lock = l]
  BY <1>p, <1>q, <1>r, Zenon DEF spinlock_acquire, MInv, WordTypes
<1>4. \/ Looks(q, r.irq, r.curspl, r.iplhigh, r.nspin, r.badfault, r.frames, "panic", l)
      \/ Looks(q, r.irq, r.curspl, r.iplhigh, r.nspin + 1, r.badfault, r.frames, "spin", l)
  BY <1>2, <1>3, ZenonT(60) DEF IsCpu, Looks
<1>5. Levels(q, won[c])
  BY <1>0, <1>1, <1>2, <1>4, <1>p, LevelsAsk, ZenonT(60) DEF Looks, Sound
<1>6. Stack(q, won[c])
  BY <1>1, <1>2, <1>4, <1>p, StackKept, ZenonT(60) DEF Looks, Sound
<1> QED
  BY <1>0, <1>q, <1>5, <1>6, Zenon DEF Sound

(* The test-and-set that wins the lock word.                               *)
LEMMA WinSound ==
  ASSUME Counting, MInv, NEW c \in Cpus, Sound(cpu[c], won[c]), testandset(c)
  PROVE  Sound(cpu'[c], won'[c])
<1>p. PICK p : p = cpu[c]
  BY Zenon
<1>q. PICK q : q = cpu'[c]
  BY Zenon
<1>0. IsCpu(p) /\ p.at = "spin" /\ q = [p EXCEPT !.at = "won"]
  BY <1>p, <1>q, Zenon DEF MInv, WordTypes, testandset
<1>1. Looks(q, p.irq, p.curspl, p.iplhigh, p.nspin, p.badfault, p.frames, "won", p.lock)
  BY <1>0, Zenon DEF IsCpu, Looks
<1>2. won'[c] = won[c] \cup {p.lock} /\ p.lock \notin won[c]
  BY <1>0, <1>p DEF MInv, WordTypes, CallsMatch, testandset
<1>3. p.frames # << >> /\ ~(OnTop(p, "sys") /\ p.badfault)
  BY <1>0, <1>p, CallsInKernel
<1>4. Levels(q, won[c] \cup {p.lock})
  <2>1. /\ q.irq <=> p.irq
        /\ q.curspl = p.curspl /\ q.iplhigh = p.iplhigh /\ q.nspin = p.nspin
        /\ q.at = "won"
    BY <1>1, Zenon DEF Looks
  <2>2. Levels(p, won[c])
    BY <1>p, Zenon DEF Sound
  <2> QED
    BY <1>0, <1>2, <2>1, <2>2, LevelsWin, ZenonT(60)
<1>5. Stack(q, won[c] \cup {p.lock})
  BY <1>1, <1>3, <1>p, StackKept, Zenon DEF Looks, Sound
<1> QED
  BY <1>2, <1>4, <1>5, <1>q, Zenon DEF Sound

(* The stores to splk_holder, and the end of hangman_acquire.              *)
LEMMA HeldSound ==
  ASSUME Counting, MInv, NEW c \in Cpus, Sound(cpu[c], won[c]),
         SetHolder(c) \/ hangman_acquire(c) \/ ClearHolder(c)
  PROVE  Sound(cpu'[c], won'[c])
<1>p. PICK p : p = cpu[c]
  BY Zenon
<1>q. PICK q : q = cpu'[c]
  BY Zenon
<1>0. IsCpu(p) /\ won' = won
  BY <1>p, Zenon DEF MInv, WordTypes, SetHolder, hangman_acquire, ClearHolder
<1>1. \/ p.at = "won" /\ q = [p EXCEPT !.at = "noted"]
      \/ p.at = "noted" /\ q = [p EXCEPT !.at = "run", !.lock = NULL]
      \/ p.at = "leave" /\ q = [p EXCEPT !.at = "clear"]
  BY <1>p, <1>q, Zenon DEF MInv, WordTypes, SetHolder, hangman_acquire, ClearHolder
<1>2. /\ q.irq <=> p.irq
      /\ q.curspl = p.curspl /\ q.iplhigh = p.iplhigh /\ q.nspin = p.nspin
      /\ q.badfault <=> p.badfault
      /\ q.frames = p.frames
      /\ \/ p.at \in {"won", "noted"} /\ q.at \in {"noted", "run"}
         \/ p.at = "leave" /\ q.at = "clear"
  BY <1>0, <1>1, ZenonT(60) DEF IsCpu
<1>3. p.at \notin {"run", "idle"} /\ q.at # "idle"
  BY <1>2
<1>4. p.frames # << >> /\ ~(OnTop(p, "sys") /\ p.badfault)
  BY <1>3, <1>p, CallsInKernel, Zenon
<1>5. Levels(q, won[c])
  BY <1>2, <1>p, LevelsHeld, Zenon DEF Sound
<1>6. Stack(q, won[c])
  BY <1>2, <1>3, <1>4, <1>p, StackKept, Zenon DEF Sound
<1> QED
  BY <1>0, <1>5, <1>6, <1>q, Zenon DEF Sound

(* spinlock_release up to its stores: c_spinlocks is not 0.                *)
LEMMA ReleaseSound ==
  ASSUME Counting, MInv, NEW c \in Cpus, NEW l \in Locks, Sound(cpu[c], won[c]), spinlock_release(c, l)
  PROVE  Sound(cpu'[c], won'[c]) /\ cpu[c].nspin # 0
<1>p. PICK p : p = cpu[c]
  BY Zenon
<1>q. PICK q : q = cpu'[c]
  BY Zenon
<1>0. IsCpu(p) /\ won' = won /\ p.at = "run" /\ won[c] # {}
  BY <1>p, Zenon DEF MInv, WordTypes, spinlock_release, Running
<1>1. q = [p EXCEPT !.nspin = @ - 1, !.at = "leave", !.lock = l]
  BY <1>p, <1>q, Zenon DEF MInv, WordTypes, spinlock_release
<1>2. Looks(q, p.irq, p.curspl, p.iplhigh, p.nspin - 1, p.badfault, p.frames, "leave", l)
  BY <1>0, <1>1, Zenon DEF IsCpu, Looks
<1>3. p.frames # << >> /\ ~(OnTop(p, "sys") /\ p.badfault)
  BY <1>0, <1>p, CallsInKernel, Zenon
<1>4. Levels(q, won[c]) /\ p.nspin # 0
  BY <1>0, <1>2, <1>p, LevelsRelease, Zenon DEF Looks, Sound
<1>5. Stack(q, won[c])
  BY <1>2, <1>3, <1>p, StackKept, Zenon DEF Looks, Sound
<1> QED
  BY <1>0, <1>4, <1>5, <1>p, <1>q, Zenon DEF Sound

(* The store that frees the lock, and the spllower after it.               *)
LEMMA FreeSound ==
  ASSUME Counting, MInv, NEW c \in Cpus, Sound(cpu[c], won[c]), ClearData(c)
  PROVE  Sound(cpu'[c], won'[c])
<1>p. PICK p : p = cpu[c]
  BY Zenon
<1>q. PICK q : q = cpu'[c]
  BY Zenon
<1>r. PICK r : r = spllower(p)
  BY Zenon
<1>0. IsCpu(p) /\ p.at = "clear" /\ q = [r EXCEPT !.at = "run", !.lock = NULL]
  BY <1>p, <1>q, <1>r, Zenon DEF MInv, WordTypes, ClearData
<1>1. IsCpu(r) /\ Looks(r, p.iplhigh = 1 \/ p.irq, p.curspl, p.iplhigh - 1, p.nspin,
                        p.badfault, p.frames, p.at, p.lock)
  BY <1>0, <1>r, LowerFields, LowerKeepsCall, Zenon
<1>2. Looks(q, r.irq, r.curspl, r.iplhigh, r.nspin, r.badfault, r.frames, "run", NULL)
  BY <1>0, <1>1, Zenon DEF IsCpu, Looks
<1>3. won'[c] = won[c] \ {p.lock} /\ p.lock \in won[c]
  BY <1>0, <1>p DEF MInv, WordTypes, CallsMatch, ClearData
<1>4. p.frames # << >> /\ ~(OnTop(p, "sys") /\ p.badfault)
  BY <1>0, <1>p, CallsInKernel
<1>5. Levels(q, won[c] \ {p.lock})
  <2>1. /\ q.irq <=> (p.iplhigh = 1 \/ p.irq)
        /\ q.curspl = p.curspl /\ q.iplhigh = p.iplhigh - 1 /\ q.nspin = p.nspin
        /\ q.at = "run"
    BY <1>1, <1>2, Zenon DEF Looks
  <2> QED
    BY <1>0, <1>3, <1>p, <2>1, LevelsFree, ZenonT(60) DEF Sound
<1>6. Stack(q, won[c] \ {p.lock})
  BY <1>1, <1>2, <1>4, <1>p, StackKept, ZenonT(60) DEF Looks, Sound
<1> QED
  BY <1>3, <1>5, <1>6, <1>q, Zenon DEF Sound

(* The frame an exception saves.                                           *)
LEMMA FrameFields ==
  ASSUME NEW p, IsCpu(p), NEW kind \in {"irq", "sys", "tlb"}, NEW adjust \in BOOLEAN,
         p.at \in {"run", "idle"}, NEW f, f = Frame(p, kind, adjust)
  PROVE  /\ f \in Frames /\ f.kind = kind /\ (f.irq <=> p.irq) /\ (f.adjust <=> adjust)
         /\ f.at = p.at
<1>1. f \in Frames
  BY DEF Frame, Frames, IsCpu
<1> QED
  BY <1>1, Zenon DEF Frame

(* An interrupt: the KASSERT of mips_trap holds.                           *)
LEMMA InterruptSound ==
  ASSUME Counting, MInv, NEW c \in Cpus, Sound(cpu[c], won[c]), Interrupt(c)
  PROVE  Sound(cpu'[c], won'[c]) /\ dead' = dead
<1>p. PICK p : p = cpu[c]
  BY Zenon
<1>q. PICK q : q = cpu'[c]
  BY Zenon
<1>a. PICK adjust \in BOOLEAN : adjust = (p.curspl = IPL_NONE)
  BY Zenon
<1>0. IsCpu(p) /\ won' = won /\ p.irq /\ p.at \in {"run", "idle"}
  BY <1>p, Zenon DEF MInv, WordTypes, Interrupt
<1>f. PICK f : f = Frame(p, "irq", p.curspl = IPL_NONE)
  BY Zenon
<1>1. /\ f \in Frames /\ f.kind = "irq" /\ f.irq /\ f.at = p.at
      /\ f.adjust <=> p.curspl = IPL_NONE
  <2>1. f = Frame(p, "irq", adjust) /\ "irq" \in {"irq", "sys", "tlb"}
    BY <1>a, <1>f, Zenon
  <2>2. f \in Frames /\ f.kind = "irq" /\ (f.irq <=> p.irq) /\ (f.adjust <=> adjust) /\ f.at = p.at
    BY <1>0, <2>1, FrameFields
  <2> QED
    BY <1>0, <1>a, <2>2, Zenon
<1>2. q = [p EXCEPT !.irq = FALSE, !.at = "run",
                    !.frames = Append(@, f), !.curspl = IPL_HIGH,
                    !.iplhigh = IF p.curspl = IPL_NONE THEN @ + 1 ELSE @]
  BY <1>p, <1>q, <1>f, Zenon DEF MInv, WordTypes, Interrupt
<1>3. Looks(q, FALSE, IPL_HIGH, IF p.curspl = IPL_NONE THEN p.iplhigh + 1 ELSE p.iplhigh,
            p.nspin, p.badfault, Append(p.frames, f), "run", p.lock)
  BY <1>0, <1>2, Zenon DEF IsCpu, Looks
<1>4. /\ Levels(q, won[c]) /\ won[c] = {}
      /\ p.curspl = IPL_NONE => p.iplhigh = 0 /\ p.at = "run"
      /\ p.curspl # IPL_NONE => p.at = "idle"
  BY <1>0, <1>3, <1>p, LevelsInterrupted, Zenon DEF Looks, Sound
<1>5. ~OnTop(p, "irq")
  <2>1. IPL_NONE # IPL_HIGH
    BY DEF IPL_NONE, IPL_HIGH
  <2> QED
    BY <1>4, <1>p, <2>1, Zenon DEF Sound, Stack
<1>6. ~f.adjust => p.frames # << >> /\ ~(OnTop(p, "sys") /\ p.badfault)
  BY <1>1, <1>4, <1>p, Zenon DEF Sound, Stack
<1>7. f.adjust <=> f.at = "run"
  BY <1>1, <1>4
<1>8. Stack(q, won[c])
  BY <1>0, <1>1, <1>3, <1>5, <1>6, <1>7, <1>p, StackInterrupted, Zenon DEF Looks, Sound
<1>9. dead' = dead
  BY <1>4, <1>p, Zenon DEF Interrupt
<1> QED
  BY <1>0, <1>4, <1>8, <1>9, <1>q, Zenon DEF Sound

(* The return from an interrupt: the KASSERTs of mips_trap hold.           *)
LEMMA ReturnSound ==
  ASSUME Counting, MInv, NEW c \in Cpus, Sound(cpu[c], won[c]), InterruptReturn(c)
  PROVE  Sound(cpu'[c], won'[c]) /\ dead' = dead
<1>p. PICK p : p = cpu[c]
  BY Zenon
<1>q. PICK q : q = cpu'[c]
  BY Zenon
<1>0. IsCpu(p) /\ won' = won /\ won[c] = {} /\ p.at = "run" /\ OnTop(p, "irq")
  BY <1>p, Zenon DEF MInv, WordTypes, InterruptReturn, Running, InHandler, InKernel, Top, OnTop
<1>t. PICK top : top = p.frames[Len(p.frames)]
  BY Zenon
<1>1. q = [p EXCEPT !.irq = top.irq, !.at = top.at,
                    !.frames = SubSeq(@, 1, Len(@) - 1),
                    !.curspl = IF top.adjust THEN IPL_NONE ELSE @,
                    !.iplhigh = IF top.adjust THEN @ - 1 ELSE @]
  BY <1>p, <1>q, <1>t, Zenon DEF MInv, WordTypes, InterruptReturn, Top
<1>2. Looks(q, top.irq, IF top.adjust THEN IPL_NONE ELSE p.curspl,
            IF top.adjust THEN p.iplhigh - 1 ELSE p.iplhigh, p.nspin, p.badfault,
            SubSeq(p.frames, 1, Len(p.frames) - 1), top.at, p.lock)
  BY <1>0, <1>1, Zenon DEF IsCpu, Looks
<1>3. Stack(q, won[c])
  BY <1>0, <1>2, <1>p, <1>t, StackReturned, Zenon DEF Looks, Sound
<1>4. p.frames \in Seq(Frames) /\ p.frames # << >>
  BY <1>0, Zenon DEF IsCpu, OnTop
<1>5. Len(p.frames) \in 1..Len(p.frames) /\ top \in Frames
  BY <1>4, <1>t, StackHasTop, Zenon
<1>6. /\ top.irq /\ (top.adjust <=> top.at = "run") /\ p.curspl = IPL_HIGH
  BY <1>0, <1>5, <1>p, <1>t, Zenon DEF Sound, Stack, OnTop
<1>7. top.at \in {"run", "idle"}
  BY <1>5 DEF Frames
<1>8. Levels(p, {}) /\ q.irq /\ q.nspin = p.nspin
      /\ \/ q.at = "run" /\ q.curspl = IPL_NONE /\ q.iplhigh = p.iplhigh - 1
         \/ q.at = "idle" /\ q.curspl = p.curspl /\ q.iplhigh = p.iplhigh
  BY <1>0, <1>2, <1>6, <1>7, <1>p, Zenon DEF Looks, Sound
<1>9. Levels(q, {}) /\ p.iplhigh = 1
  BY <1>0, <1>6, <1>8, LevelsReturned, Zenon
<1>10. dead' = dead
  BY <1>6, <1>9, <1>p, Zenon DEF InterruptReturn
<1> QED
  BY <1>0, <1>3, <1>9, <1>10, <1>q, Zenon DEF Sound

(* cpu_idle, both ways.                                                    *)
LEMMA IdleSound ==
  ASSUME Counting, MInv, NEW c \in Cpus, Sound(cpu[c], won[c]), cpu_idle(c)
  PROVE  Sound(cpu'[c], won'[c])
<1>p. PICK p : p = cpu[c]
  BY Zenon
<1>q. PICK q : q = cpu'[c]
  BY Zenon
<1>0. IsCpu(p) /\ won' = won /\ p.frames # << >> /\ ~OnTop(p, "irq")
  BY <1>p, Zenon DEF MInv, WordTypes, cpu_idle, InHandler, InKernel, Top, OnTop
<1>1. \/ p.at = "run" /\ p.curspl = IPL_HIGH /\ won[c] = {} /\ q = [p EXCEPT !.at = "idle", !.irq = TRUE]
      \/ p.at = "idle" /\ q = [p EXCEPT !.at = "run", !.irq = FALSE]
  BY <1>p, <1>q, Zenon DEF MInv, WordTypes, cpu_idle
<1>2. p.curspl = IPL_HIGH /\ won[c] = {} /\ Levels(p, {})
  BY <1>1, <1>p, Zenon DEF Sound, Levels
<1>3. /\ q.curspl = p.curspl /\ q.iplhigh = p.iplhigh /\ q.nspin = p.nspin
      /\ q.badfault <=> p.badfault
      /\ q.frames = p.frames
      /\ \/ p.at = "run" /\ q.at = "idle" /\ q.irq
         \/ p.at = "idle" /\ q.at = "run" /\ ~q.irq
  BY <1>0, <1>1, Zenon DEF IsCpu
<1>4. Levels(q, {})
  BY <1>2, <1>3, LevelsIdles, Zenon
<1>5. ~(OnTop(p, "sys") /\ p.badfault)
  <2>1. IPL_NONE # IPL_HIGH
    BY DEF IPL_NONE, IPL_HIGH
  <2> QED
    BY <1>2, <1>p, <2>1, Zenon DEF Sound, Stack
<1>6. Stack(q, won[c])
  BY <1>0, <1>3, <1>5, <1>p, StackKept, Zenon DEF Sound
<1> QED
  BY <1>0, <1>2, <1>4, <1>6, <1>q, Zenon DEF Sound

(* A trap from the user program, or from copyin: interrupts are on after   *)
(* it, and the KASSERTs on the level of a system call hold.                *)
LEMMA TrapSound ==
  ASSUME Counting, MInv, NEW c \in Cpus, Sound(cpu[c], won[c]), Syscall(c) \/ TlbFault(c)
  PROVE  Sound(cpu'[c], won'[c]) /\ dead' = dead
<1>p. PICK p : p = cpu[c]
  BY Zenon
<1>q. PICK q : q = cpu'[c]
  BY Zenon
<1>k. PICK kind \in {"sys", "tlb"} :
        /\ q = Entered(p, kind) /\ won' = won
        /\ \/ p.frames = << >>
           \/ kind = "tlb" /\ OnTop(p, "sys") /\ p.badfault /\ Len(p.frames) < MaxFrames
  BY <1>p, <1>q, Zenon DEF MInv, WordTypes, Syscall, TlbFault, InKernel, Copying, Top, OnTop
<1>0. IsCpu(p)
  BY <1>p, Zenon DEF MInv, WordTypes
<1>1. p.at = "run" /\ won[c] = {} /\ p.curspl = IPL_NONE
  BY <1>k, <1>p, Zenon DEF Sound, Stack
<1>2. Levels(p, {})
  BY <1>1, <1>p, Zenon DEF Sound
<1>3. p.nspin = 0 /\ p.iplhigh = 0 /\ p.irq
  BY <1>1, <1>2, NothingHeld, Zenon DEF IPL_NONE
<1>f. PICK f : f = Frame(p, kind, FALSE)
  BY Zenon
<1>4. f \in Frames /\ f.kind = kind /\ f.irq
  <2> DEFINE no == FALSE
  <2>1. /\ no \in BOOLEAN /\ f = Frame(p, kind, no)
        /\ kind \in {"irq", "sys", "tlb"} /\ p.at \in {"run", "idle"}
    BY <1>1, <1>f, Zenon
  <2> HIDE DEF no
  <2>2. f \in Frames /\ f.kind = kind /\ (f.irq <=> p.irq)
    BY <1>0, <2>1, FrameFields, SMT
  <2> QED
    BY <1>3, <2>2, Zenon
<1>5. Looks(q, TRUE, IPL_NONE, 0, p.nspin, p.badfault, Append(p.frames, f), p.at, p.lock)
  BY <1>0, <1>1, <1>3, <1>f, <1>k, EnteredFields, Zenon
<1>6. Levels(q, {})
  BY <1>1, <1>2, <1>3, <1>5, LevelsCalm, Zenon DEF Looks
<1>7. Stack(q, won[c])
  <2>1. /\ q.frames = Append(p.frames, f) /\ (q.badfault <=> p.badfault)
        /\ q.curspl = p.curspl /\ q.at = p.at
    BY <1>1, <1>5, Zenon DEF Looks
  <2>2. Stack(p, won[c])
    BY <1>p, Zenon DEF Sound
  <2>3. \/ p.frames = << >> /\ f.kind \in {"sys", "tlb"}
        \/ OnTop(p, "sys") /\ p.badfault /\ f.kind = "tlb" /\ Len(p.frames) < MaxFrames
    BY <1>k, <1>4, Zenon
  <2> QED
    BY <1>0, <1>4, <2>1, <2>2, <2>3, StackEntered, Zenon
<1>8. ASSUME Syscall(c)
      PROVE  dead' = dead
  <2>1. cpu'[c] = Entered(cpu[c], "sys")
    BY <1>8, Zenon DEF Syscall, MInv, WordTypes
  <2>2. q.curspl = IPL_NONE /\ q.iplhigh = 0
    BY <1>5, Zenon DEF Looks
  <2> QED
    BY <1>8, <1>q, <2>1, <2>2, Zenon DEF Syscall
<1> QED
  BY <1>1, <1>6, <1>7, <1>8, <1>k, <1>q, Zenon DEF Sound, TlbFault

(* copyin and copyout, begun and ended.                                    *)
LEMMA CopySound ==
  ASSUME Counting, MInv, NEW c \in Cpus, Sound(cpu[c], won[c]), CopyBegins(c) \/ CopyEnds(c)
  PROVE  Sound(cpu'[c], won'[c])
<1>p. PICK p : p = cpu[c]
  BY Zenon
<1>q. PICK q : q = cpu'[c]
  BY Zenon
<1>0. IsCpu(p) /\ won' = won
  BY <1>p, Zenon DEF MInv, WordTypes, CopyBegins, CopyEnds
<1>b. PICK b : q = [p EXCEPT !.badfault = b]
  BY <1>p, <1>q, Zenon DEF MInv, WordTypes, CopyBegins, CopyEnds
<1>1. p.at = "run" /\ OnTop(p, "sys") /\ won[c] = {} /\ p.curspl = IPL_NONE
  BY <1>p, Zenon DEF CopyBegins, CopyEnds, KernelCode, Running, InKernel, Copying, Top, OnTop,
                     Sound, Stack
<1>2. Looks(q, p.irq, p.curspl, p.iplhigh, p.nspin, b, p.frames, p.at, p.lock)
  BY <1>0, <1>b, Zenon DEF IsCpu, Looks
<1>3. Levels(p, {})
  BY <1>1, <1>p, Zenon DEF Sound
<1>4. p.irq
  BY <1>1, <1>3, NothingHeld, Zenon DEF IPL_NONE
<1>5. Levels(q, {})
  BY <1>1, <1>2, <1>3, <1>4, LevelsCalm, Zenon DEF Looks
<1>6. Stack(q, won[c])
  BY <1>0, <1>1, <1>2, <1>p, StackCopies, Zenon DEF Looks, Sound
<1> QED
  BY <1>0, <1>1, <1>5, <1>6, <1>q, Zenon DEF Sound

(* The return from a trap, and a fault that fails: a fault of the kernel   *)
(* in copyin finds tm_badfaultfunc set.                                    *)
LEMMA LeaveSound ==
  ASSUME Counting, MInv, NEW c \in Cpus, Sound(cpu[c], won[c]), TrapReturn(c) \/ FatalFault(c)
  PROVE  Sound(cpu'[c], won'[c]) /\ (dead' = dead \/ dead' = "killed")
<1>p. PICK p : p = cpu[c]
  BY Zenon
<1>q. PICK q : q = cpu'[c]
  BY Zenon
<1>0. IsCpu(p) /\ won' = won /\ won[c] = {} /\ p.curspl = IPL_NONE
  BY <1>p, Zenon DEF MInv, WordTypes, TrapReturn, FatalFault
<1>1. /\ p.at = "run" /\ p.frames # << >> /\ ~(OnTop(p, "sys") /\ p.badfault)
      /\ ~OnTop(p, "irq")
  <2>1. KernelCode(c)
    BY Zenon DEF TrapReturn, FatalFault
  <2>2. OnTop(p, "tlb") => ~OnTop(p, "irq")
    BY Zenon DEF OnTop
  <2>3. ~OnTop(p, "irq")
    BY <1>p, <2>1, <2>2, InKernelCode, Zenon DEF TrapReturn, FatalFault, Top, OnTop
  <2> QED
    BY <1>p, <2>1, <2>3, InKernelCode, Zenon
<1>2. PICK n : n = Len(p.frames) /\ n \in 1..n /\ p.frames \in Seq(Frames)
  BY <1>0, <1>1, StackHasTop, Zenon DEF IsCpu
<1>3. p.frames[n].irq
  BY <1>2, <1>p, Zenon DEF Sound, Stack
<1>4. Looks(Left(p), TRUE, p.curspl, p.iplhigh, p.nspin, p.badfault,
            SubSeq(p.frames, 1, Len(p.frames) - 1), p.at, p.lock)
  BY <1>0, <1>2, <1>3, LeftFields, Zenon DEF Looks
<1>5. Levels(p, {}) /\ Stack(p, {})
  BY <1>0, <1>p, Zenon DEF Sound
<1>6. ASSUME FatalFault(c), n # 1
      PROVE  p.badfault
  <2>1. p.frames[n].kind = "tlb"
    BY <1>2, <1>6, <1>p, Zenon DEF FatalFault, Top
  <2>2. n \in {1, 2} /\ (p.badfault <=> n = 2)
    BY <1>2, <1>5, <2>1, Zenon DEF Stack
  <2> QED
    BY <1>6, <2>2, Zenon
<1>7. CASE q = p
  BY <1>0, <1>2, <1>6, <1>7, <1>p, <1>q, Zenon DEF TrapReturn, FatalFault
<1>8. CASE q # p
  <2>r. PICK r : r = Left(p)
    BY Zenon
  <2>1. IsCpu(r)
    BY <1>0, <1>1, <2>r, LeftKeepsCall, Zenon
  <2>2. (q = r \/ q = [r EXCEPT !.badfault = FALSE]) /\ dead' = dead
    BY <1>p, <1>q, <1>8, <2>r, Zenon DEF MInv, WordTypes, TrapReturn, FatalFault
  <2>3. /\ q.irq /\ q.curspl = p.curspl /\ q.iplhigh = p.iplhigh /\ q.nspin = p.nspin
        /\ q.at = p.at /\ q.frames = SubSeq(p.frames, 1, Len(p.frames) - 1)
        /\ (q.badfault <=> p.badfault) \/ ~q.badfault
    BY <1>4, <2>1, <2>2, <2>r, Zenon DEF Looks, IsCpu
  <2>4. Levels(q, {})
    BY <1>0, <1>1, <1>5, <2>3, LevelsCalm, Zenon
  <2>5. Stack(q, {})
    BY <1>0, <1>1, <1>5, <2>3, StackLeft, Zenon
  <2> QED
    BY <1>0, <1>q, <2>2, <2>4, <2>5, Zenon DEF Sound
<1> QED
  BY <1>7, <1>8, Zenon

-----------------------------------------------------------------------------
(* All of it is kept by every step.                                        *)

(* A CPU that has panicked has stopped the kernel.                         *)
PanicStops == dead = "no" => \A c \in Cpus : cpu[c].at # "panic"

SpinInv ==
  /\ HangInv /\ PanicStops /\ NoSpuriousPanic
  /\ \A c \in Cpus : Sound(cpu[c], won[c])

(* A step keeps its CPU's levels and stack in order.                       *)
LEMMA StepSound ==
  ASSUME Counting, MInv, NEW c \in Cpus, Sound(cpu[c], won[c]), Step(c)
  PROVE  Sound(cpu'[c], won'[c])
<1>1. CASE \E l \in Locks : spinlock_acquire(c, l) \/ spinlock_release(c, l)
  BY <1>1, AskSound, ReleaseSound, Zenon
<1>2. CASE Stores(c) \/ hangman_acquire(c)
  BY <1>2, WinSound, HeldSound, FreeSound, Zenon DEF Stores
<1>3. CASE Quiet(c)
  BY <1>3, SplSound, InterruptSound, ReturnSound, IdleSound, TrapSound, CopySound, LeaveSound,
     Zenon DEF Quiet
<1> QED
  BY <1>1, <1>2, <1>3, Zenon DEF Step

(* What spinlock_acquire does to the kernel: go on, or one of two panics.  *)
LEMMA AskStops ==
  ASSUME MInv, WaitsMatch, HoldsMatch, dead = "no",
         NEW c \in Cpus, NEW l \in Locks, spinlock_acquire(c, l)
  PROVE  \/ dead' = "no" /\ cpu'[c].at # "panic"
         \/ dead' = "self" \/ dead' = "cycle"
<1>p. PICK p : p = cpu[c]
  BY Zenon
<1>r. PICK r : r = splraise(p)
  BY Zenon
<1>t. IsCpu(r) /\ cpu = [d \in Cpus |-> cpu[d]]
  BY <1>p, <1>r, RaiseKeepsCall, Zenon DEF MInv, WordTypes
<1>1. waiting[c] = NULL
  BY HangAsk, Zenon
<1>2. CASE holder[l] = c
  BY <1>2, Zenon DEF spinlock_acquire
<1>3. CASE holder[l] # c
  <2>1. cpu'[c] = [r EXCEPT !.nspin = @ + 1, !.at = "spin", !.lock = l]
    BY <1>3, <1>p, <1>r, <1>t, Zenon DEF spinlock_acquire
  <2>2. cpu'[c].at = "spin"
    BY <1>t, <2>1, Zenon DEF IsCpu
  <2>3. cpu'[c].at # "panic"
    BY <2>2, Zenon
  <2>4. dead' = "no" \/ dead' = "cycle"
    BY <1>1, <1>3, Zenon DEF spinlock_acquire, hangman_wait
  <2> QED
    BY <2>3, <2>4, Zenon
<1> QED
  BY <1>2, <1>3, Zenon

(* A step other than spinlock_acquire ends in no panic of that function.   *)
LEMMA NoPanicHere ==
  ASSUME MInv, NEW c \in Cpus, Step(c), \A l \in Locks : ~spinlock_acquire(c, l)
  PROVE  cpu'[c].at # "panic"
<1>p. PICK p : p = cpu[c]
  BY Zenon
<1>r. PICK r : r = spllower(p)
  BY Zenon
<1>0. IsCpu(p) /\ IsCpu(r) /\ cpu = [d \in Cpus |-> cpu[d]]
  BY <1>p, <1>r, LowerKeepsCall, Zenon DEF MInv, WordTypes
<1>1. CASE testandset(c) \/ SetHolder(c) \/ hangman_acquire(c) \/ ClearHolder(c)
  <2>1. cpu'[c].at = "won" \/ cpu'[c].at = "noted" \/ cpu'[c].at = "run" \/ cpu'[c].at = "clear"
    BY <1>0, <1>1, <1>p, ZenonT(60) DEF testandset, SetHolder, hangman_acquire, ClearHolder, IsCpu
  <2> QED
    BY <2>1, Zenon
<1>2. CASE ClearData(c)
  <2>1. cpu'[c].at = "run"
    BY <1>0, <1>2, <1>p, <1>r, Zenon DEF ClearData, IsCpu
  <2> QED
    BY <2>1, Zenon
<1>3. CASE \E l \in Locks : spinlock_release(c, l)
  <2>0. PICK l \in Locks : spinlock_release(c, l)
    BY <1>3, Zenon
  <2>1. cpu'[c].at = "leave"
    BY <1>0, <1>p, <2>0, Zenon DEF spinlock_release, IsCpu
  <2> QED
    BY <2>1, Zenon
<1>4. CASE Quiet(c)
  <2>1. cpu'[c].at \in {"run", "idle"}
    BY <1>4, QuietAts, Zenon
  <2> QED
    BY <2>1
<1> QED
  BY <1>1, <1>2, <1>3, <1>4, Zenon DEF Step, Stores

(* What can stop the kernel: spinlock_acquire of this CPU's own lock, a    *)
(* deadlock hangman_check sees, a fatal fault of a user program.           *)
LEMMA StepStops ==
  ASSUME Counting, MInv, WaitsMatch, HoldsMatch, dead = "no", NEW c \in Cpus,
         Sound(cpu[c], won[c]), Step(c)
  PROVE  \/ dead' = "no" /\ cpu'[c].at # "panic"
         \/ dead' = "self" \/ dead' = "cycle" \/ dead' = "killed"
<1>1. CASE \E l \in Locks : spinlock_acquire(c, l)
  BY <1>1, AskStops, Zenon
<1>2. CASE \A l \in Locks : ~spinlock_acquire(c, l)
  <2>1. cpu'[c].at # "panic"
    BY <1>2, NoPanicHere, Zenon
  <2>2. CASE \E l \in Locks : spinlock_release(c, l)
    BY <2>1, <2>2, ReleaseSound, HangRelease, Zenon
  <2>3. CASE hangman_acquire(c)
    BY <2>1, <2>3, HangAcquire, Zenon
  <2>4. CASE Stores(c)
    BY <2>1, <2>4, Zenon DEF Stores, testandset, SetHolder, ClearHolder, ClearData
  <2>5. CASE Quiet(c)
    <3>1. dead' = dead \/ dead' = "killed"
      BY <2>5, InterruptSound, ReturnSound, TrapSound, LeaveSound, Zenon
         DEF Quiet, splhigh, cpu_idle, CopyBegins, CopyEnds
    <3> QED
      BY <2>1, <3>1, Zenon
  <2> QED
    BY <1>2, <2>2, <2>3, <2>4, <2>5, Zenon DEF Step
<1> QED
  BY <1>1, <1>2, Zenon

(* The boot state.                                                         *)
LEMMA SpinInvAtFirst ==
  ASSUME Counting, SpinInit
  PROVE  SpinInv
<1>1. HangInv
  BY HangInvAtFirst, Zenon
<1>2. dead = "no" /\ \A c \in Cpus : cpu[c] = UserThread /\ won[c] = {}
  BY DEF SpinInit
<1>3. /\ UserThread.at = "run" /\ UserThread.frames = << >> /\ UserThread.irq = TRUE
      /\ UserThread.curspl = IPL_NONE /\ UserThread.iplhigh = 0 /\ UserThread.nspin = 0
      /\ UserThread.badfault = FALSE
  BY DEF UserThread
<1>4. Sound(UserThread, {})
  <2>1. Levels(UserThread, {})
    BY <1>3, SpinAssumption DEF Counting, Levels, IPL_NONE, IPL_HIGH, Raised
  <2>2. Stack(UserThread, {})
    BY <1>3, SpinAssumption DEF Stack, OnTop
  <2> QED
    BY <2>1, <2>2, Zenon DEF Sound
<1>5. PanicStops /\ NoSpuriousPanic
  BY <1>2, <1>3 DEF PanicStops, NoSpuriousPanic
<1> QED
  BY <1>1, <1>2, <1>4, <1>5, Zenon DEF SpinInv

(* And every step.                                                         *)
LEMMA SpinInvNext ==
  ASSUME Counting, SpinInv, [SpinNext]_spinvars
  PROVE  SpinInv'
<1>0. HangInv'
  BY HangInvNext, Zenon DEF SpinInv
<1>1. CASE UNCHANGED spinvars
  <2>1. cpu' = cpu /\ won' = won /\ dead' = dead
    BY <1>1, Zenon DEF spinvars
  <2> QED
    BY <1>0, <2>1, Zenon DEF SpinInv, PanicStops, NoSpuriousPanic
<1>2. CASE SpinNext
  <2>1. PICK c \in Cpus : Step(c)
    BY <1>2, NextIsStep, Zenon
  <2>2. dead = "no"
    BY <2>1, StepsAlive, Zenon
  <2>3. MInv /\ WaitsMatch /\ HoldsMatch /\ Sound(cpu[c], won[c])
    BY <2>2, Zenon DEF SpinInv, HangInv
  <2>4. Sound(cpu'[c], won'[c])
    BY <2>1, <2>3, StepSound, Zenon
  <2>5. \/ dead' = "no" /\ cpu'[c].at # "panic"
        \/ dead' = "self" \/ dead' = "cycle" \/ dead' = "killed"
    BY <2>1, <2>2, <2>3, StepStops, Zenon
  <2>6. Alone(c)
    BY <2>1, <2>3, StepsAlone, Zenon
  <2>7. \A d \in Cpus : Sound(cpu'[d], won'[d])
    BY <2>4, <2>6, Zenon DEF SpinInv, Alone
  <2>8. NoSpuriousPanic'
    BY <2>5 DEF NoSpuriousPanic
  <2>9. PanicStops'
    BY <2>2, <2>5, <2>6, Zenon DEF SpinInv, PanicStops, Alone
  <2> QED
    BY <1>0, <2>7, <2>8, <2>9, Zenon DEF SpinInv
<1> QED
  BY <1>1, <1>2, Zenon

(* The counts and levels of one CPU, as the run states them.               *)
LEMMA LevelsInRange ==
  ASSUME Counting, NEW p, NEW W, Levels(p, W), Stack(p, W),
         p.at \in {"leave", "clear"} => W # {}
  PROVE  /\ p.curspl \in {IPL_NONE, IPL_HIGH}
         /\ p.nspin \in 0..MaxHeld /\ p.iplhigh \in 0..(MaxHeld + 1)
         /\ Len(p.frames) <= MaxFrames + 1
<1>1. p.curspl \in {0, 1} /\ Cardinality(W) \in Nat /\ MaxHeld \in Nat /\ MaxFrames \in Nat
  BY SpinAssumption DEF Counting, Levels, IPL_NONE, IPL_HIGH
<1>2. p.curspl \in {IPL_NONE, IPL_HIGH}
  BY Zenon DEF Levels
<1>3. p.at \in {"leave", "clear"} => Cardinality(W) # 0
  BY DEF Counting, Levels
<1>4. Cardinality(W) + (IF p.at \in {"spin", "panic"} THEN 1 ELSE 0) <= MaxHeld
  BY Zenon DEF Levels
<1>5. p.nspin = Cardinality(W) + (IF p.at = "spin" THEN 1 ELSE 0)
                               - (IF p.at \in {"leave", "clear"} THEN 1 ELSE 0)
  BY Zenon DEF Levels
<1>6. p.nspin \in 0..MaxHeld
  BY <1>1, <1>3, <1>4, <1>5
<1>7. p.nspin + (IF p.at \in Raised THEN 1 ELSE 0) \in 0..MaxHeld
  BY <1>1, <1>3, <1>4, <1>5 DEF Raised
<1>8. p.iplhigh = p.nspin + p.curspl + (IF p.at \in Raised THEN 1 ELSE 0)
  BY Zenon DEF Levels
<1>9. p.iplhigh \in 0..(MaxHeld + 1)
  BY <1>1, <1>6, <1>7, <1>8
<1>10. Len(p.frames) <= MaxFrames + 1
  BY <1>1 DEF Stack
<1> QED
  BY <1>2, <1>6, <1>9, <1>10, Zenon

(* What a CPU's level says of its enable bit.                              *)
LEMMA LevelsShow ==
  ASSUME Counting, NEW p, NEW W, Levels(p, W), p.at # "panic",
         p.at \in {"leave", "clear"} => W # {}
  PROVE  /\ (W # {} \/ p.at = "spin") => ~p.irq
         /\ p.at # "idle" => (p.irq <=> p.iplhigh = 0)
         /\ p.iplhigh = p.nspin + p.curspl + (IF p.at \in {"leave", "clear"} THEN 1 ELSE 0)
<1>1. p.at \in Raised <=> p.at \in {"leave", "clear"}
  BY DEF Raised
<1>2. p.curspl \in {0, 1} /\ Cardinality(W) \in Nat
  BY DEF Counting, Levels, IPL_NONE, IPL_HIGH
<1>3. p.iplhigh = p.nspin + p.curspl + (IF p.at \in {"leave", "clear"} THEN 1 ELSE 0)
  BY <1>1, Zenon DEF Levels
<1>4. p.at # "idle" => (p.irq <=> p.iplhigh = 0)
  BY Zenon DEF Levels
<1>5. ASSUME W # {} \/ p.at = "spin"
      PROVE  ~p.irq
  <2>1. p.at # "idle"
    BY <1>5 DEF Levels
  <2>2. Cardinality(W) # 0 \/ p.at = "spin"
    BY <1>5 DEF Counting, Levels
  <2>3. p.nspin = Cardinality(W) + (IF p.at = "spin" THEN 1 ELSE 0)
                                 - (IF p.at \in {"leave", "clear"} THEN 1 ELSE 0)
    BY Zenon DEF Levels
  <2>4. p.iplhigh # 0
    BY <1>2, <1>3, <2>2, <2>3
  <2> QED
    BY <1>4, <2>1, <2>4, Zenon
<1> QED
  BY <1>3, <1>4, <1>5, Zenon

(* The invariant gives what the run states of the levels.                  *)
LEMMA LevelsAgree ==
  ASSUME Counting, SpinInv
  PROVE  InterruptsMatchLevel
<1>1. \A c \in Cpus :
        /\ Levels(cpu[c], won[c]) /\ Stack(cpu[c], won[c])
        /\ cpu[c].at \in {"leave", "clear"} => won[c] # {}
  BY DEF SpinInv, HangInv, Sound, MInv, CallsMatch
<1>2. /\ data \in [Locks -> {0, 1}]
      /\ holder \in [Locks -> Cpus \cup {NULL}]
      /\ holding \in [Locks -> Cpus \cup {NULL}]
      /\ won \in [Cpus -> SUBSET Locks]
      /\ waiting \in [Cpus -> Locks \cup {NULL}]
  BY Zenon DEF SpinInv, HangInv, MInv, WordTypes, HangTypes
<1>4. SpinTypeOK
  BY <1>1, <1>2, LevelsInRange, Zenon DEF SpinTypeOK
<1>5. ASSUME dead = "no", NEW c \in Cpus
      PROVE  /\ (won[c] # {} \/ cpu[c].at = "spin") => ~cpu[c].irq
             /\ cpu[c].at # "idle" => (cpu[c].irq <=> cpu[c].iplhigh = 0)
             /\ cpu[c].iplhigh = cpu[c].nspin + cpu[c].curspl
                  + (IF cpu[c].at \in {"leave", "clear"} THEN 1 ELSE 0)
  <2>1. cpu[c].at # "panic"
    BY <1>5, Zenon DEF SpinInv, PanicStops
  <2> QED
    BY <1>1, <2>1, LevelsShow, Zenon
<1> QED
  BY <1>4, <1>5, Zenon DEF InterruptsMatchLevel


-----------------------------------------------------------------------------
(* The results, with what they need to know of finite sets taken from the  *)
(* library.                                                                *)
INSTANCE FiniteSetTheorems

(* Finite sets count as they should.                                       *)
LEMMA SetsCount == Counting
<1>1. /\ IsFiniteSet({}) /\ Cardinality({}) = 0
      /\ \A S : IsFiniteSet(S) => (Cardinality(S) = 0 <=> S = {})
  BY FS_EmptySet, Zenon
<1>2. ASSUME NEW S, IsFiniteSet(S)
      PROVE  Cardinality(S) \in Nat
  BY <1>2, FS_CardinalityType
<1>3. ASSUME NEW S, IsFiniteSet(S), NEW x
      PROVE  /\ IsFiniteSet(S \cup {x})
             /\ x \notin S => Cardinality(S \cup {x}) = Cardinality(S) + 1
  BY <1>3, FS_AddElement
<1>4. ASSUME NEW S, IsFiniteSet(S), NEW x
      PROVE  /\ IsFiniteSet(S \ {x})
             /\ x \in S => Cardinality(S \ {x}) = Cardinality(S) - 1
  BY <1>4, FS_RemoveElement
<1> QED
  BY <1>1, <1>2, <1>3, <1>4, Zenon DEF Counting

(* The whole invariant, for any number of CPUs, locks, nested traps and    *)
(* spinlocks held at once: who owns each lock, and what the levels, the    *)
(* counts, the saved frames and the detector say of it, in every state.    *)
THEOREM SpinInductive == SpinSpec => []SpinInv
<1>1. SpinInit => SpinInv
  BY SetsCount, SpinInvAtFirst, Zenon
<1>2. SpinInv /\ [SpinNext]_spinvars => SpinInv'
  BY SetsCount, SpinInvNext, Zenon
<1> QED
  BY <1>1, <1>2, PTL DEF SpinSpec

(* The assertions of mips_trap on the interrupt level, those of            *)
(* spinlock_release and the consistency panics of hangman.c never fire,    *)
(* and a fault in copyin or copyout is never fatal to the kernel, whatever *)
(* nests in whatever.                                                      *)
THEOREM SpuriousPanicNever == SpinSpec => []NoSpuriousPanic
<1>1. SpinInv => NoSpuriousPanic
  BY Zenon DEF SpinInv
<1> QED
  BY <1>1, SpinInductive, PTL

(* No interrupt is let in while a CPU holds or spins for a spinlock or has *)
(* called splhigh, and when it has given back all it took interrupts are   *)
(* on again: splraise and spllower count right through calls that do not   *)
(* nest, traps within copyin and interrupts of an idle CPU.                *)
THEOREM LevelsMatch == SpinSpec => []InterruptsMatchLevel
<1>1. SpinInv => InterruptsMatchLevel
  BY SetsCount, LevelsAgree, Zenon
<1> QED
  BY <1>1, SpinInductive, PTL

=============================================================================
