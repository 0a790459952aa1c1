--------------------------- MODULE SpinlockProofs ---------------------------
(***************************************************************************)
(* For any number of CPUs and spinlocks, a spinlock has one owner and      *)
(* splk_holder names nobody else.  HolderIsOwner is not inductive: that    *)
(* the check for this CPU's own lock misses nothing needs OwnerIsNoted     *)
(* (an owner is in splk_holder but for the moments just after it wins the  *)
(* lock word and just before it clears it).                                *)
(*                                                                         *)
(* The second half is what the deadlock detector records: l_holding and    *)
(* a_waiting follow splk_holder and the CPUs that spin (HangInv), and none *)
(* of the assertions of hangman.c fails.  InterruptProofs and              *)
(* HangmanProofs build on it.                                              *)
(***************************************************************************)
EXTENDS Spinlock, TLAPS

Ats == {"run", "idle", "spin", "won", "noted", "leave", "clear", "panic"}

Frames ==
  [kind : {"irq", "sys", "tlb"}, irq : BOOLEAN, adjust : BOOLEAN, at : {"run", "idle"}]

(* The record of a CPU, with types for the fields the argument is about.   *)
IsCpu(p) ==
  /\ p = [irq |-> p.irq, curspl |-> p.curspl, iplhigh |-> p.iplhigh, nspin |-> p.nspin,
          badfault |-> p.badfault, frames |-> p.frames, at |-> p.at, lock |-> p.lock]
  /\ p.irq \in BOOLEAN
  /\ p.frames \in Seq(Frames)
  /\ p.at \in Ats
  /\ p.lock \in Locks \cup {NULL}

(* Two records in the same place of the same spinlock call.                *)
SameCall(p, q) == p.at = q.at /\ p.lock = q.lock /\ p.frames = q.frames

WordTypes ==
  /\ cpu = [c \in Cpus |-> cpu[c]] /\ \A c \in Cpus : IsCpu(cpu[c])
  /\ data \in [Locks -> {0, 1}]
  /\ holder \in [Locks -> Cpus \cup {NULL}]
  /\ won \in [Cpus -> SUBSET Locks]

WordIsOwned ==
  /\ \A l \in Locks : data[l] = 1 <=> \E c \in Cpus : l \in won[c]
  /\ \A l \in Locks : \A c, d \in Cpus : l \in won[c] /\ l \in won[d] => c = d

HolderOwns ==
  \A l \in Locks : holder[l] # NULL => holder[l] \in Cpus /\ l \in won[holder[l]]

OwnerIsNoted ==
  \A c \in Cpus : \A l \in won[c] :
    holder[l] = c \/ (cpu[c].at \in {"won", "clear"} /\ cpu[c].lock = l)

CallsMatch ==
  \A c \in Cpus :
    /\ cpu[c].at \in {"won", "noted", "leave", "clear", "panic"} =>
         cpu[c].lock \in won[c]
    /\ cpu[c].at = "spin" => cpu[c].lock \in Locks /\ cpu[c].lock \notin won[c]
    /\ cpu[c].at = "clear" => holder[cpu[c].lock] = NULL

MInv == WordTypes /\ WordIsOwned /\ HolderOwns /\ OwnerIsNoted /\ CallsMatch

-----------------------------------------------------------------------------
(* Raising and lowering the interrupt level touches three fields.          *)

(* The enable bit is no part of a spinlock call.  (Each field of the       *)
(* record has its lemma; an EXCEPT of several is taken one at a time.)     *)
LEMMA SetIrq ==
  ASSUME NEW p, IsCpu(p), NEW b \in BOOLEAN
  PROVE  IsCpu([p EXCEPT !.irq = b]) /\ SameCall([p EXCEPT !.irq = b], p)
  BY DEF IsCpu, SameCall

(* Pushing or popping a frame leaves the spinlock call where it is.        *)
LEMMA SetFrames ==
  ASSUME NEW p, IsCpu(p), NEW fs \in Seq(Frames)
  PROVE  /\ IsCpu([p EXCEPT !.frames = fs])
         /\ [p EXCEPT !.frames = fs].at = p.at /\ [p EXCEPT !.frames = fs].lock = p.lock
  BY SMTT(60) DEF IsCpu

(* Going on to the next step of a call leaves its lock alone.              *)
LEMMA SetAt ==
  ASSUME NEW p, IsCpu(p), NEW a \in Ats
  PROVE  /\ IsCpu([p EXCEPT !.at = a])
         /\ [p EXCEPT !.at = a].at = a /\ [p EXCEPT !.at = a].lock = p.lock
  BY DEF IsCpu

(* Naming the lock of a call leaves its step alone.                        *)
LEMMA SetLock ==
  ASSUME NEW p, IsCpu(p), NEW l \in Locks \cup {NULL}
  PROVE  /\ IsCpu([p EXCEPT !.lock = l])
         /\ [p EXCEPT !.lock = l].at = p.at /\ [p EXCEPT !.lock = l].lock = l
  BY DEF IsCpu

(* t_curspl is no part of a spinlock call.                                 *)
LEMMA SetSpl ==
  ASSUME NEW p, IsCpu(p), NEW x
  PROVE  IsCpu([p EXCEPT !.curspl = x]) /\ SameCall([p EXCEPT !.curspl = x], p)
  BY DEF IsCpu, SameCall

(* t_iplhigh_count is no part of a spinlock call.                          *)
LEMMA SetLevel ==
  ASSUME NEW p, IsCpu(p), NEW x
  PROVE  IsCpu([p EXCEPT !.iplhigh = x]) /\ SameCall([p EXCEPT !.iplhigh = x], p)
  BY DEF IsCpu, SameCall

(* c_spinlocks is no part of the argument.                                 *)
LEMMA SetSpins ==
  ASSUME NEW p, IsCpu(p), NEW x
  PROVE  IsCpu([p EXCEPT !.nspin = x]) /\ SameCall([p EXCEPT !.nspin = x], p)
  BY DEF IsCpu, SameCall

(* tm_badfaultfunc is no part of a spinlock call.                          *)
LEMMA SetBadfault ==
  ASSUME NEW p, IsCpu(p), NEW x
  PROVE  IsCpu([p EXCEPT !.badfault = x]) /\ SameCall([p EXCEPT !.badfault = x], p)
  BY DEF IsCpu, SameCall

(* splraise changes the enable bit and the count only.                     *)
LEMMA RaiseKeepsCall ==
  ASSUME NEW p, IsCpu(p)
  PROVE  IsCpu(splraise(p)) /\ SameCall(splraise(p), p)
<1> DEFINE b == ((p.iplhigh # 0) /\ p.irq)
           i == p.iplhigh + 1
           q == [p EXCEPT !.irq = b]
<1>1. b \in BOOLEAN
  BY Zenon
<1>2. splraise(p) = [p EXCEPT !.irq = b, !.iplhigh = i]
  BY Zenon DEF splraise
<1> HIDE DEF b, i
<1>3. splraise(p) = [q EXCEPT !.iplhigh = i]
  BY <1>2, Zenon
<1>4. IsCpu(q) /\ SameCall(q, p)
  BY <1>1, SetIrq, Zenon
<1> HIDE DEF q
<1>5. IsCpu([q EXCEPT !.iplhigh = i]) /\ SameCall([q EXCEPT !.iplhigh = i], q)
  BY <1>4, SetLevel, Zenon
<1> QED
  BY <1>3, <1>4, <1>5, Zenon DEF SameCall

(* spllower changes the enable bit and the count only.                     *)
LEMMA LowerKeepsCall ==
  ASSUME NEW p, IsCpu(p)
  PROVE  IsCpu(spllower(p)) /\ SameCall(spllower(p), p)
<1> DEFINE b == ((p.iplhigh = 1) \/ p.irq)
           i == p.iplhigh - 1
           q == [p EXCEPT !.irq = b]
<1>1. b \in BOOLEAN
  BY Zenon
<1>2. spllower(p) = [p EXCEPT !.irq = b, !.iplhigh = i]
  BY Zenon DEF spllower
<1> HIDE DEF b, i
<1>3. spllower(p) = [q EXCEPT !.iplhigh = i]
  BY <1>2, Zenon
<1>4. IsCpu(q) /\ SameCall(q, p)
  BY <1>1, SetIrq, Zenon
<1> HIDE DEF q
<1>5. IsCpu([q EXCEPT !.iplhigh = i]) /\ SameCall([q EXCEPT !.iplhigh = i], q)
  BY <1>4, SetLevel, Zenon
<1> QED
  BY <1>3, <1>4, <1>5, Zenon DEF SameCall

(* splx stays outside the spinlock calls.                                  *)
LEMMA SplxKeepsCall ==
  ASSUME NEW p, IsCpu(p), NEW spl
  PROVE  IsCpu(splx(p, spl)) /\ SameCall(splx(p, spl), p)
<1> DEFINE q == [p EXCEPT !.curspl = spl]
<1>1. CASE p.curspl < spl
  <2> DEFINE r == splraise(p)
  <2>1. splx(p, spl) = [r EXCEPT !.curspl = spl]
    BY <1>1, Zenon DEF splx
  <2>2. IsCpu(r) /\ SameCall(r, p)
    BY RaiseKeepsCall, Zenon
  <2> HIDE DEF r
  <2> QED
    BY <2>1, <2>2, Zenon DEF IsCpu, SameCall
<1>2. CASE ~(p.curspl < spl) /\ p.curspl > spl
  <2>1. splx(p, spl) = spllower(q)
    BY <1>2, Zenon DEF splx
  <2>2. IsCpu(q) /\ SameCall(q, p)
    BY DEF IsCpu, SameCall
  <2> HIDE DEF q
  <2> QED
    BY <2>1, <2>2, LowerKeepsCall, Zenon DEF SameCall
<1>3. CASE ~(p.curspl < spl) /\ ~(p.curspl > spl)
  BY <1>3, Zenon DEF splx, SameCall
<1> QED
  BY <1>1, <1>2, <1>3, Zenon

(* The frame an exception saves is a frame.                                *)
LEMMA PushKeepsCall ==
  ASSUME NEW p, IsCpu(p), NEW kind \in {"irq", "sys", "tlb"}, NEW adjust \in BOOLEAN,
         p.at \in {"run", "idle"}
  PROVE  Append(p.frames, Frame(p, kind, adjust)) \in Seq(Frames)
<1>1. Frame(p, kind, adjust) \in Frames
  BY Zenon DEF Frame, Frames, IsCpu
<1> QED
  BY <1>1 DEF IsCpu

(* mips_trap, on its way in, stays outside the spinlock calls.             *)
LEMMA EnteredKeepsCall ==
  ASSUME NEW p, IsCpu(p), NEW kind \in {"sys", "tlb"}, p.at \in {"run", "idle"}
  PROVE  IsCpu(Entered(p, kind)) /\ Entered(p, kind).at = p.at
                                 /\ Entered(p, kind).lock = p.lock
<1> DEFINE no == FALSE
           pushed == Append(p.frames, Frame(p, kind, no))
           masked == [p EXCEPT !.irq = no]
           off == [masked EXCEPT !.frames = pushed]
<1>1. no \in BOOLEAN /\ pushed \in Seq(Frames)
  BY PushKeepsCall, Zenon
<1>2. Entered(p, kind) = splx(splx(off, IPL_HIGH), p.curspl)
  BY Zenon DEF Entered
<1> HIDE DEF no, pushed
<1>3. IsCpu(masked) /\ SameCall(masked, p)
  BY <1>1, SetIrq, Zenon
<1> HIDE DEF masked
<1>4. IsCpu(off) /\ off.at = p.at /\ off.lock = p.lock
  BY <1>1, <1>3, SetFrames, Zenon DEF SameCall
<1> HIDE DEF off
<1>5. IsCpu(splx(off, IPL_HIGH)) /\ SameCall(splx(off, IPL_HIGH), off)
  BY <1>4, SplxKeepsCall, Zenon
<1> QED
  BY <1>2, <1>4, <1>5, SplxKeepsCall DEF SameCall

(* The frame an exception leaves through is one that was saved.            *)
LEMMA PopKeepsFrames ==
  ASSUME NEW fs \in Seq(Frames), fs # << >>
  PROVE  SubSeq(fs, 1, Len(fs) - 1) \in Seq(Frames) /\ fs[Len(fs)] \in Frames
  OBVIOUS

(* mips_trap, on its way out, stays outside the spinlock calls.            *)
LEMMA LeftKeepsCall ==
  ASSUME NEW p, IsCpu(p), p.frames # << >>
  PROVE  IsCpu(Left(p)) /\ Left(p).at = p.at /\ Left(p).lock = p.lock
<1> DEFINE popped == SubSeq(p.frames, 1, Len(p.frames) - 1)
           top == p.frames[Len(p.frames)]
           q == [p EXCEPT !.irq = top.irq]
<1>1. popped \in Seq(Frames) /\ top.irq \in BOOLEAN
  BY PopKeepsFrames, Zenon DEF IsCpu, Frames
<1>2. Left(p) = [q EXCEPT !.frames = popped]
  BY Zenon DEF Left
<1> HIDE DEF popped, top
<1>3. IsCpu(q) /\ SameCall(q, p)
  BY <1>1, SetIrq, Zenon
<1> HIDE DEF q
<1> QED
  BY <1>1, <1>2, <1>3, SetFrames, ZenonT(60) DEF SameCall

-----------------------------------------------------------------------------
(* A step of CPU c that is not part of a spinlock call.                    *)

(* A step that touches no lock and goes into no call keeps MInv.           *)
LEMMA QuietStep ==
  ASSUME MInv, NEW c \in Cpus, NEW q, IsCpu(q),
         q.lock = cpu[c].lock,
         q.at = cpu[c].at \/ (cpu[c].at \in {"run", "idle"} /\ q.at \in {"run", "idle"}),
         cpu' = [cpu EXCEPT ![c] = q],
         UNCHANGED <<data, holder, won>>
  PROVE  MInv'
<1>1. /\ cpu'[c] = q
      /\ \A d \in Cpus : d # c => cpu'[d] = cpu[d]
      /\ cpu' = [d \in Cpus |-> cpu'[d]]
  BY Zenon DEF MInv, WordTypes
<1>2. WordTypes'
  BY <1>1, Zenon DEF MInv, WordTypes
<1>3. WordIsOwned' /\ HolderOwns'
  BY Zenon DEF MInv, WordIsOwned, HolderOwns
<1>4. OwnerIsNoted'
  BY <1>1, ZenonT(60) DEF MInv, OwnerIsNoted
<1>5. CallsMatch'
  BY <1>1 DEF MInv, CallsMatch
<1> QED
  BY <1>2, <1>3, <1>4, <1>5, Zenon DEF MInv

(* Interrupts, traps, spl calls and copies to and from user memory.        *)
LEMMA QuietActions ==
  ASSUME MInv, NEW c \in Cpus,
         \/ splhigh(c) \/ Interrupt(c) \/ InterruptReturn(c) \/ cpu_idle(c)
         \/ Syscall(c) \/ TlbFault(c) \/ CopyBegins(c) \/ CopyEnds(c)
         \/ TrapReturn(c) \/ FatalFault(c)
  PROVE  MInv'
<1>a. PICK p : p = cpu[c]
  OBVIOUS
<1>0. IsCpu(p)
  BY <1>a, Zenon DEF MInv, WordTypes
<1>1. CASE splhigh(c)
  <2>1. PICK spl : cpu' = [cpu EXCEPT ![c] = splx(p, spl)]
    BY <1>a, <1>1, Zenon DEF splhigh
  <2> QED
    BY <1>a, <1>0, <1>1, <2>1, SplxKeepsCall, QuietStep, Zenon DEF splhigh, SameCall
<1>2. CASE Interrupt(c)
  <2> DEFINE adjust == p.curspl = IPL_NONE
             no == FALSE
             pushed == Append(p.frames, Frame(p, "irq", adjust))
             level == IF adjust THEN p.iplhigh + 1 ELSE p.iplhigh
             q == [p EXCEPT !.irq = no, !.at = "run", !.frames = pushed,
                            !.curspl = IPL_HIGH, !.iplhigh = level]
  <2>1. adjust \in BOOLEAN /\ no \in BOOLEAN
    BY Zenon
  <2>2. p.at \in {"run", "idle"}
    BY <1>a, <1>2, Zenon DEF Interrupt
  <2>3. pushed \in Seq(Frames)
    BY <1>0, <2>1, <2>2, PushKeepsCall, Zenon
  <2>4. cpu' = [cpu EXCEPT ![c] = q] /\ UNCHANGED <<data, holder, won>>
    BY <1>a, <1>2, Zenon DEF Interrupt
  <2> HIDE DEF no, pushed, level
  <2> DEFINE q1 == [p EXCEPT !.irq = no]
             q2 == [q1 EXCEPT !.at = "run"]
             q3 == [q2 EXCEPT !.frames = pushed]
             q4 == [q3 EXCEPT !.curspl = IPL_HIGH]
  <2>5. q = [q4 EXCEPT !.iplhigh = level]
    OBVIOUS
  <2>6. IsCpu(q1) /\ SameCall(q1, p)
    BY <1>0, <2>1, SetIrq, Zenon
  <2> HIDE DEF q, q1
  <2>7. IsCpu(q2) /\ q2.lock = p.lock /\ q2.at = "run"
    BY <2>6, SetAt, ZenonT(60) DEF SameCall, Ats
  <2> HIDE DEF q2
  <2>8. IsCpu(q3) /\ q3.lock = p.lock /\ q3.at = "run"
    BY <2>3, <2>7, SetFrames, Zenon
  <2> HIDE DEF q3
  <2>9. IsCpu(q4) /\ SameCall(q4, q3)
    BY <2>8, SetSpl, Zenon
  <2> HIDE DEF q4
  <2>10. IsCpu(q) /\ SameCall(q, q4)
    BY <2>5, <2>9, SetLevel, Zenon
  <2> QED
    BY <1>0, <2>2, <2>4, <2>8, <2>9, <2>10, <1>a, QuietStep, Zenon DEF SameCall
<1>3. CASE InterruptReturn(c)
  <2> DEFINE top == p.frames[Len(p.frames)]
             popped == SubSeq(p.frames, 1, Len(p.frames) - 1)
             spl == IF top.adjust THEN IPL_NONE ELSE p.curspl
             level == IF top.adjust THEN p.iplhigh - 1 ELSE p.iplhigh
             q == [p EXCEPT !.irq = top.irq, !.at = top.at, !.frames = popped,
                            !.curspl = spl, !.iplhigh = level]
  <2>1. p.at = "run" /\ p.frames # << >>
    BY <1>a, <1>3, Zenon DEF InterruptReturn, Running, InHandler, InKernel
  <2>2. popped \in Seq(Frames) /\ top.irq \in BOOLEAN /\ top.at \in {"run", "idle"}
    BY <1>0, <2>1, PopKeepsFrames, Zenon DEF IsCpu, Frames
  <2>3. cpu' = [cpu EXCEPT ![c] = q] /\ UNCHANGED <<data, holder, won>>
    BY <1>a, <1>3, Zenon DEF InterruptReturn, Top
  <2> HIDE DEF top, popped, spl, level
  <2> DEFINE q1 == [p EXCEPT !.irq = top.irq]
             q2 == [q1 EXCEPT !.at = top.at]
             q3 == [q2 EXCEPT !.frames = popped]
             q4 == [q3 EXCEPT !.curspl = spl]
  <2>4. q = [q4 EXCEPT !.iplhigh = level]
    OBVIOUS
  <2>5. IsCpu(q1) /\ SameCall(q1, p)
    BY <1>0, <2>2, SetIrq, Zenon
  <2> HIDE DEF q, q1
  <2>x. top.at \in Ats
    BY <2>2, Zenon DEF Ats
  <2>6. IsCpu(q2) /\ q2.lock = p.lock /\ q2.at = top.at
    BY <2>x, <2>5, SetAt, Zenon DEF SameCall
  <2> HIDE DEF q2
  <2>7. IsCpu(q3) /\ q3.lock = p.lock /\ q3.at = top.at
    BY <2>2, <2>6, SetFrames, Zenon
  <2> HIDE DEF q3
  <2>8. IsCpu(q4) /\ SameCall(q4, q3)
    BY <2>7, SetSpl, Zenon
  <2> HIDE DEF q4
  <2>9. IsCpu(q) /\ SameCall(q, q4)
    BY <2>4, <2>8, SetLevel, Zenon
  <2> QED
    BY <1>0, <2>1, <2>2, <2>3, <2>7, <2>8, <2>9, <1>a, QuietStep, Zenon DEF SameCall
<1>4. CASE cpu_idle(c)
  <2> DEFINE no == FALSE
             yes == TRUE
             q == [p EXCEPT !.at = "idle", !.irq = yes]
             r == [p EXCEPT !.at = "run", !.irq = no]
  <2>1. yes \in BOOLEAN /\ no \in BOOLEAN
    BY Zenon
  <2>2. /\ p.at \in {"run", "idle"} /\ UNCHANGED <<data, holder, won>>
        /\ \/ cpu' = [cpu EXCEPT ![c] = q]
           \/ cpu' = [cpu EXCEPT ![c] = r]
    BY <1>a, <1>4, Zenon DEF cpu_idle
  <2> HIDE DEF yes, no
  <2> DEFINE q1 == [p EXCEPT !.at = "idle"]
             r1 == [p EXCEPT !.at = "run"]
  <2>3. q = [q1 EXCEPT !.irq = yes] /\ r = [r1 EXCEPT !.irq = no]
    OBVIOUS
  <2>4. /\ IsCpu(q1) /\ q1.lock = p.lock /\ q1.at = "idle"
        /\ IsCpu(r1) /\ r1.lock = p.lock /\ r1.at = "run"
    BY <1>0, SetAt, Zenon DEF Ats
  <2> HIDE DEF q, r, q1, r1
  <2>6. IsCpu(q) /\ q.lock = p.lock /\ q.at = "idle"
    BY <2>1, <2>3, <2>4, SetIrq, Zenon DEF SameCall
  <2>7. IsCpu(r) /\ r.lock = p.lock /\ r.at = "run"
    BY <2>1, <2>3, <2>4, SetIrq, Zenon DEF SameCall
  <2> QED
    BY <1>0, <2>2, <2>6, <2>7, <1>a, QuietStep, Zenon
<1>5. CASE Syscall(c)
  <2>1. /\ p.at = "run" /\ UNCHANGED <<data, holder, won>>
        /\ cpu' = [cpu EXCEPT ![c] = Entered(p, "sys")]
    BY <1>a, <1>5, Zenon DEF Syscall, Running
  <2> QED
    BY <1>0, <2>1, EnteredKeepsCall, <1>a, QuietStep, Zenon
<1>6. CASE TlbFault(c)
  <2>1. /\ p.at = "run" /\ UNCHANGED <<data, holder, won>>
        /\ cpu' = [cpu EXCEPT ![c] = Entered(p, "tlb")]
    BY <1>a, <1>6, Zenon DEF TlbFault, Running
  <2> QED
    BY <1>0, <2>1, EnteredKeepsCall, <1>a, QuietStep, Zenon
<1>7. CASE CopyBegins(c) \/ CopyEnds(c)
  <2>1. PICK b : cpu' = [cpu EXCEPT ![c] = [p EXCEPT !.badfault = b]]
    BY <1>a, <1>7, Zenon DEF CopyBegins, CopyEnds
  <2> DEFINE q == [p EXCEPT !.badfault = b]
  <2>2. IsCpu(q) /\ q.lock = p.lock /\ q.at = p.at
    BY <1>0 DEF IsCpu
  <2>3. UNCHANGED <<data, holder, won>>
    BY <1>a, <1>7, Zenon DEF CopyBegins, CopyEnds
  <2>4. cpu' = [cpu EXCEPT ![c] = q]
    BY <2>1, Zenon
  <2> HIDE DEF q
  <2> QED
    BY <1>0, <2>2, <2>3, <2>4, <1>a, QuietStep, Zenon
<1>8. CASE TrapReturn(c)
  <2>1. /\ p.frames # << >> /\ UNCHANGED <<data, holder, won>>
        /\ cpu' = [cpu EXCEPT ![c] = Left(p)]
    BY <1>a, <1>8, Zenon DEF TrapReturn, KernelCode, InKernel
  <2> QED
    BY <1>0, <2>1, LeftKeepsCall, <1>a, QuietStep, Zenon
<1>9. CASE FatalFault(c)
  <2> DEFINE no == FALSE
             left == Left(p)
             q == [left EXCEPT !.badfault = no]
  <2>1. /\ p.frames # << >> /\ UNCHANGED <<data, holder, won>>
        /\ cpu' = cpu \/ cpu' = [cpu EXCEPT ![c] = q]
    BY <1>a, <1>9, Zenon DEF FatalFault, KernelCode, InKernel
  <2>2. IsCpu(left) /\ left.at = p.at /\ left.lock = p.lock
    BY <1>0, <2>1, LeftKeepsCall, Zenon
  <2> HIDE DEF left, no
  <2>3. IsCpu(q) /\ q.at = p.at /\ q.lock = p.lock
    BY <2>2 DEF IsCpu
  <2> HIDE DEF q
  <2>4. CASE cpu' = cpu
    BY <2>1, <2>4, ZenonT(60) DEF MInv, WordTypes, WordIsOwned, HolderOwns, OwnerIsNoted, CallsMatch
  <2> QED
    BY <1>0, <2>1, <2>3, <2>4, <1>a, QuietStep, Zenon
<1> QED
  BY <1>1, <1>2, <1>3, <1>4, <1>5, <1>6, <1>7, <1>8, <1>9, Zenon
-----------------------------------------------------------------------------
(* What a step that writes one CPU's record leaves as it is.               *)
LEMMA OneCpu ==
  ASSUME MInv, NEW c \in Cpus, NEW q, IsCpu(q), cpu' = [cpu EXCEPT ![c] = q]
  PROVE  /\ cpu'[c] = q
         /\ \A d \in Cpus : d # c => cpu'[d] = cpu[d]
         /\ cpu' = [d \in Cpus |-> cpu'[d]]
         /\ \A d \in Cpus : IsCpu(cpu'[d])
  BY Zenon DEF MInv, WordTypes

(* A CPU that runs asks for a lock: its own, and it panics, or another's   *)
(* and it spins.                                                           *)
LEMMA AskStep ==
  ASSUME MInv, NULL \notin Cpus, NEW c \in Cpus, NEW l \in Locks, NEW q, IsCpu(q),
         q.lock = l, q.at = (IF holder[l] = c THEN "panic" ELSE "spin"),
         cpu[c].at = "run",
         cpu' = [cpu EXCEPT ![c] = q], UNCHANGED <<data, holder, won>>
  PROVE  MInv'
<1>1. /\ cpu'[c] = q
      /\ \A d \in Cpus : d # c => cpu'[d] = cpu[d]
      /\ cpu' = [d \in Cpus |-> cpu'[d]]
      /\ \A d \in Cpus : IsCpu(cpu'[d])
  BY OneCpu, Zenon
<1>2. WordTypes'
  BY <1>1, Zenon DEF MInv, WordTypes
<1>3. WordIsOwned' /\ HolderOwns'
  BY Zenon DEF MInv, WordIsOwned, HolderOwns
<1>4. \A k \in won[c] : holder[k] = c
  BY Zenon DEF MInv, OwnerIsNoted
<1>5. OwnerIsNoted'
  BY <1>1, <1>4, ZenonT(60) DEF MInv, OwnerIsNoted
<1>6. holder[l] = c <=> l \in won[c]
  BY <1>4, Zenon DEF MInv, HolderOwns
<1>7. CallsMatch'
  BY <1>1, <1>6, Zenon DEF MInv, CallsMatch
<1> QED
  BY <1>2, <1>3, <1>5, <1>7, Zenon DEF MInv

(* The CPU that finds the word 0 becomes the only owner.                   *)
LEMMA WinStep ==
  ASSUME MInv, NULL \notin Cpus, NEW c \in Cpus, NEW q, IsCpu(q),
         q.lock = cpu[c].lock, q.at = "won", cpu[c].at = "spin",
         data[cpu[c].lock] = 0,
         data' = [data EXCEPT ![cpu[c].lock] = 1],
         won' = [won EXCEPT ![c] = @ \cup {cpu[c].lock}],
         cpu' = [cpu EXCEPT ![c] = q], UNCHANGED holder
  PROVE  MInv'
<1>1. /\ cpu'[c] = q
      /\ \A d \in Cpus : d # c => cpu'[d] = cpu[d]
      /\ cpu' = [d \in Cpus |-> cpu'[d]]
      /\ \A d \in Cpus : IsCpu(cpu'[d])
  BY OneCpu, Zenon
<1>2. PICK l \in Locks : l = cpu[c].lock
  BY Zenon DEF MInv, CallsMatch
<1>3. /\ won'[c] = won[c] \cup {l} /\ \A d \in Cpus : d # c => won'[d] = won[d]
      /\ data'[l] = 1 /\ \A k \in Locks : k # l => data'[k] = data[k]
      /\ \A d \in Cpus : l \notin won[d]
  BY <1>2 DEF MInv, WordTypes, WordIsOwned
<1>4. WordTypes'
  BY <1>1, <1>2, <1>3, Zenon DEF MInv, WordTypes
<1>5. WordIsOwned'
  BY <1>3 DEF MInv, WordIsOwned
<1>6. HolderOwns'
  BY <1>3 DEF MInv, HolderOwns
<1>7. OwnerIsNoted'
  BY <1>1, <1>2, <1>3 DEF MInv, OwnerIsNoted
<1>8. CallsMatch'
  BY <1>1, <1>2, <1>3, ZenonT(60) DEF MInv, CallsMatch
<1> QED
  BY <1>4, <1>5, <1>6, <1>7, <1>8, Zenon DEF MInv

(* The owner writes its name into splk_holder.                             *)
LEMMA NoteStep ==
  ASSUME MInv, NULL \notin Cpus, NEW c \in Cpus, NEW q, IsCpu(q),
         q.lock = cpu[c].lock, q.at = "noted", cpu[c].at = "won",
         holder' = [holder EXCEPT ![cpu[c].lock] = c],
         cpu' = [cpu EXCEPT ![c] = q], UNCHANGED <<data, won>>
  PROVE  MInv'
<1>1. /\ cpu'[c] = q
      /\ \A d \in Cpus : d # c => cpu'[d] = cpu[d]
      /\ cpu' = [d \in Cpus |-> cpu'[d]]
      /\ \A d \in Cpus : IsCpu(cpu'[d])
  BY OneCpu, Zenon
<1>2. PICK l \in Locks : l = cpu[c].lock /\ l \in won[c]
  BY Zenon DEF MInv, CallsMatch, WordTypes
<1>3. /\ holder'[l] = c /\ \A k \in Locks : k # l => holder'[k] = holder[k]
      /\ \A d \in Cpus : l \in won[d] => d = c
      /\ \A d \in Cpus : won[d] \subseteq Locks
  BY <1>2, Zenon DEF MInv, WordTypes, WordIsOwned
<1>4. WordTypes'
  BY <1>1, <1>2, <1>3, Zenon DEF MInv, WordTypes
<1>5. WordIsOwned'
  BY Zenon DEF MInv, WordIsOwned
<1>6. HolderOwns'
  BY <1>2, <1>3, ZenonT(60) DEF MInv, HolderOwns
<1>7. OwnerIsNoted'
  BY <1>1, <1>2, <1>3 DEF MInv, OwnerIsNoted
<1>8. CallsMatch'
  BY <1>1, <1>2, <1>3 DEF MInv, CallsMatch
<1> QED
  BY <1>4, <1>5, <1>6, <1>7, <1>8, Zenon DEF MInv

(* The last part of spinlock_acquire and the first part of                 *)
(* spinlock_release write neither the word nor splk_holder.                *)
LEMMA HeldStep ==
  ASSUME MInv, NEW c \in Cpus, NEW q, IsCpu(q),
         \/ cpu[c].at = "noted" /\ q.at = "run"
         \/ cpu[c].at = "run" /\ q.at = "leave" /\ q.lock \in won[c],
         cpu' = [cpu EXCEPT ![c] = q], UNCHANGED <<data, holder, won>>
  PROVE  MInv'
<1>1. /\ cpu'[c] = q
      /\ \A d \in Cpus : d # c => cpu'[d] = cpu[d]
      /\ cpu' = [d \in Cpus |-> cpu'[d]]
      /\ \A d \in Cpus : IsCpu(cpu'[d])
  BY OneCpu, Zenon
<1>2. WordTypes'
  BY <1>1, Zenon DEF MInv, WordTypes
<1>3. WordIsOwned' /\ HolderOwns'
  BY Zenon DEF MInv, WordIsOwned, HolderOwns
<1>4. OwnerIsNoted'
  BY <1>1, ZenonT(60) DEF MInv, OwnerIsNoted
<1>5. CallsMatch'
  BY <1>1, Zenon DEF MInv, CallsMatch
<1> QED
  BY <1>2, <1>3, <1>4, <1>5, Zenon DEF MInv

(* The owner takes its name out of splk_holder.                            *)
LEMMA ForgetStep ==
  ASSUME MInv, NEW c \in Cpus, NEW q, IsCpu(q),
         q.lock = cpu[c].lock, q.at = "clear", cpu[c].at = "leave",
         holder' = [holder EXCEPT ![cpu[c].lock] = NULL],
         cpu' = [cpu EXCEPT ![c] = q], UNCHANGED <<data, won>>
  PROVE  MInv'
<1>1. /\ cpu'[c] = q
      /\ \A d \in Cpus : d # c => cpu'[d] = cpu[d]
      /\ cpu' = [d \in Cpus |-> cpu'[d]]
      /\ \A d \in Cpus : IsCpu(cpu'[d])
  BY OneCpu, Zenon
<1>2. PICK l \in Locks : l = cpu[c].lock /\ l \in won[c]
  BY Zenon DEF MInv, CallsMatch, WordTypes
<1>3. /\ holder'[l] = NULL /\ \A k \in Locks : k # l => holder'[k] = holder[k]
      /\ \A d \in Cpus : l \in won[d] => d = c
      /\ \A d \in Cpus : won[d] \subseteq Locks
  BY <1>2, Zenon DEF MInv, WordTypes, WordIsOwned
<1>4. WordTypes'
  BY <1>1, <1>2, <1>3, Zenon DEF MInv, WordTypes
<1>5. WordIsOwned'
  BY Zenon DEF MInv, WordIsOwned
<1>6. HolderOwns'
  BY <1>2, <1>3, Zenon DEF MInv, HolderOwns
<1>7. OwnerIsNoted'
  BY <1>1, <1>2, <1>3 DEF MInv, OwnerIsNoted
<1>8. CallsMatch'
  BY <1>1, <1>2, <1>3 DEF MInv, CallsMatch
<1> QED
  BY <1>4, <1>5, <1>6, <1>7, <1>8, Zenon DEF MInv

(* The owner clears the word: nobody owns the lock, and splk_holder named  *)
(* nobody already.                                                         *)
LEMMA FreeStep ==
  ASSUME MInv, NEW c \in Cpus, NEW q, IsCpu(q),
         q.at = "run", cpu[c].at = "clear",
         data' = [data EXCEPT ![cpu[c].lock] = 0],
         won' = [won EXCEPT ![c] = @ \ {cpu[c].lock}],
         cpu' = [cpu EXCEPT ![c] = q], UNCHANGED holder
  PROVE  MInv'
<1>1. /\ cpu'[c] = q
      /\ \A d \in Cpus : d # c => cpu'[d] = cpu[d]
      /\ cpu' = [d \in Cpus |-> cpu'[d]]
      /\ \A d \in Cpus : IsCpu(cpu'[d])
  BY OneCpu, Zenon
<1>2. PICK l \in Locks : l = cpu[c].lock /\ l \in won[c]
  BY Zenon DEF MInv, CallsMatch, WordTypes
<1>3. /\ won'[c] = won[c] \ {l} /\ \A d \in Cpus : d # c => won'[d] = won[d]
      /\ data'[l] = 0 /\ \A k \in Locks : k # l => data'[k] = data[k]
      /\ \A d \in Cpus : l \notin won'[d]
      /\ holder[l] = NULL
  BY <1>2, ZenonT(60) DEF MInv, WordTypes, WordIsOwned, CallsMatch
<1>4. WordTypes'
  BY <1>1, <1>2, <1>3, Zenon DEF MInv, WordTypes
<1>5. WordIsOwned'
  BY <1>3 DEF MInv, WordIsOwned
<1>6. HolderOwns'
  BY <1>3 DEF MInv, HolderOwns
<1>7. OwnerIsNoted'
  BY <1>1, <1>2, <1>3 DEF MInv, OwnerIsNoted
<1>8. CallsMatch'
  BY <1>1, <1>2, <1>3, ZenonT(60) DEF MInv, CallsMatch
<1> QED
  BY <1>4, <1>5, <1>6, <1>7, <1>8, Zenon DEF MInv

-----------------------------------------------------------------------------
(* spinlock_acquire up to its loop.                                        *)
LEMMA AcquireKeeps ==
  ASSUME MInv, NULL \notin Cpus, NEW c \in Cpus, NEW l \in Locks, spinlock_acquire(c, l)
  PROVE  MInv'
<1>a. PICK p : p = cpu[c]
  OBVIOUS
<1>0. IsCpu(p)
  BY <1>a, Zenon DEF MInv, WordTypes
<1>r. PICK r : r = splraise(p)
  OBVIOUS
<1>1. IsCpu(r)
  BY <1>0, <1>r, RaiseKeepsCall, Zenon
<1>2. p.at = "run" /\ UNCHANGED <<data, holder, won>>
  BY <1>a, Zenon DEF spinlock_acquire, KernelCode, Running
<1>3. CASE holder[l] = c
  <2> DEFINE q1 == [r EXCEPT !.at = "panic"]
             q == [q1 EXCEPT !.lock = l]
  <2>1. cpu' = [cpu EXCEPT ![c] = q]
    BY <1>a, <1>r, <1>3, Zenon DEF spinlock_acquire
  <2>2. IsCpu(q1) /\ q1.at = "panic"
    BY <1>1, SetAt, Zenon DEF Ats
  <2> HIDE DEF q1
  <2>3. IsCpu(q) /\ q.at = "panic" /\ q.lock = l
    BY <2>2, SetLock, Zenon
  <2> HIDE DEF q
  <2> QED
    BY <1>a, <1>2, <1>3, <2>1, <2>3, AskStep, Zenon
<1>4. CASE holder[l] # c
  <2> DEFINE n == r.nspin + 1
             q1 == [r EXCEPT !.nspin = n]
             q2 == [q1 EXCEPT !.at = "spin"]
             q == [q2 EXCEPT !.lock = l]
  <2>0. cpu' = [cpu EXCEPT ![c] = [r EXCEPT !.nspin = n, !.at = "spin", !.lock = l]]
    BY <1>a, <1>r, <1>4, Zenon DEF spinlock_acquire
  <2> HIDE DEF n
  <2>1. cpu' = [cpu EXCEPT ![c] = q]
    BY <2>0, Zenon
  <2>2. IsCpu(q1)
    BY <1>1, SetSpins, Zenon
  <2> HIDE DEF q1
  <2>3. IsCpu(q2) /\ q2.at = "spin"
    BY <2>2, SetAt, Zenon DEF Ats
  <2> HIDE DEF q2
  <2>4. IsCpu(q) /\ q.at = "spin" /\ q.lock = l
    BY <2>3, SetLock, Zenon
  <2> HIDE DEF q
  <2> QED
    BY <1>a, <1>2, <1>4, <2>1, <2>4, AskStep, Zenon
<1> QED
  BY <1>3, <1>4, Zenon

(* spinlock_release up to its stores.                                      *)
LEMMA ReleaseKeeps ==
  ASSUME MInv, NEW c \in Cpus, NEW l \in Locks, spinlock_release(c, l)
  PROVE  MInv'
<1>a. PICK p : p = cpu[c]
  OBVIOUS
<1>0. IsCpu(p)
  BY <1>a, Zenon DEF MInv, WordTypes
<1> DEFINE n == p.nspin - 1
           q1 == [p EXCEPT !.nspin = n]
           q2 == [q1 EXCEPT !.at = "leave"]
           q == [q2 EXCEPT !.lock = l]
<1>1. p.at = "run" /\ l \in won[c] /\ UNCHANGED <<data, holder, won>>
  BY <1>a, Zenon DEF spinlock_release, Running
<1>2. cpu' = [cpu EXCEPT ![c] = q]
  BY <1>a, Zenon DEF spinlock_release
<1> HIDE DEF n
<1>3. IsCpu(q1)
  BY <1>0, SetSpins, Zenon
<1> HIDE DEF q1
<1>4. IsCpu(q2) /\ q2.at = "leave"
  BY <1>3, SetAt, Zenon DEF Ats
<1> HIDE DEF q2
<1>5. IsCpu(q) /\ q.at = "leave" /\ q.lock = l
  BY <1>4, SetLock, Zenon
<1> HIDE DEF q
<1> QED
  BY <1>a, <1>1, <1>2, <1>5, HeldStep, Zenon

(* The stores of both calls, one by one.                                   *)
LEMMA StoresKeep ==
  ASSUME MInv, NULL \notin Cpus, NEW c \in Cpus,
         \/ testandset(c) \/ SetHolder(c) \/ hangman_acquire(c)
         \/ ClearHolder(c) \/ ClearData(c)
  PROVE  MInv'
<1>a. PICK p : p = cpu[c]
  OBVIOUS
<1>0. IsCpu(p)
  BY <1>a, Zenon DEF MInv, WordTypes
<1>1. CASE testandset(c)
  <2> DEFINE q == [p EXCEPT !.at = "won"]
  <2>1. cpu' = [cpu EXCEPT ![c] = q]
    BY <1>a, <1>1, Zenon DEF testandset
  <2>2. IsCpu(q) /\ q.at = "won" /\ q.lock = p.lock
    BY <1>0, SetAt, Zenon DEF Ats
  <2> HIDE DEF q
  <2> QED
    BY <1>a, <1>1, <2>1, <2>2, WinStep, Zenon DEF testandset
<1>2. CASE SetHolder(c)
  <2> DEFINE q == [p EXCEPT !.at = "noted"]
  <2>1. cpu' = [cpu EXCEPT ![c] = q]
    BY <1>a, <1>2, Zenon DEF SetHolder
  <2>2. IsCpu(q) /\ q.at = "noted" /\ q.lock = p.lock
    BY <1>0, SetAt, Zenon DEF Ats
  <2> HIDE DEF q
  <2> QED
    BY <1>a, <1>2, <2>1, <2>2, NoteStep, Zenon DEF SetHolder
<1>3. CASE hangman_acquire(c)
  <2> DEFINE q1 == [p EXCEPT !.at = "run"]
             q == [q1 EXCEPT !.lock = NULL]
  <2>1. cpu' = [cpu EXCEPT ![c] = q]
    BY <1>a, <1>3, Zenon DEF hangman_acquire
  <2>2. IsCpu(q1) /\ q1.at = "run"
    BY <1>0, SetAt, Zenon DEF Ats
  <2> HIDE DEF q1
  <2>3. IsCpu(q) /\ q.at = "run"
    BY <2>2, SetLock, Zenon
  <2> HIDE DEF q
  <2> QED
    BY <1>a, <1>3, <2>1, <2>3, HeldStep, Zenon DEF hangman_acquire
<1>4. CASE ClearHolder(c)
  <2> DEFINE q == [p EXCEPT !.at = "clear"]
  <2>1. cpu' = [cpu EXCEPT ![c] = q]
    BY <1>a, <1>4, Zenon DEF ClearHolder
  <2>2. IsCpu(q) /\ q.at = "clear" /\ q.lock = p.lock
    BY <1>0, SetAt, Zenon DEF Ats
  <2> HIDE DEF q
  <2> QED
    BY <1>a, <1>4, <2>1, <2>2, ForgetStep, Zenon DEF ClearHolder
<1>5. CASE ClearData(c)
  <2>r. PICK r : r = spllower(p)
    OBVIOUS
  <2> DEFINE q1 == [r EXCEPT !.at = "run"]
             q == [q1 EXCEPT !.lock = NULL]
  <2>1. cpu' = [cpu EXCEPT ![c] = q]
    BY <1>a, <1>5, <2>r, Zenon DEF ClearData
  <2>2. IsCpu(r)
    BY <1>0, <2>r, LowerKeepsCall, Zenon
  <2>3. IsCpu(q1) /\ q1.at = "run"
    BY <2>2, SetAt, Zenon DEF Ats
  <2> HIDE DEF q1
  <2>4. IsCpu(q) /\ q.at = "run"
    BY <2>3, SetLock, Zenon
  <2> HIDE DEF q
  <2> QED
    BY <1>a, <1>5, <2>1, <2>4, FreeStep, Zenon DEF ClearData
<1> QED
  BY <1>1, <1>2, <1>3, <1>4, <1>5, Zenon

(* spinlock_init leaves every lock free and every CPU outside the calls.   *)
LEMMA MInvAtFirst ==
  ASSUME SpinInit
  PROVE  MInv
<1>1. \A c \in Cpus : IsCpu(cpu[c]) /\ cpu[c].at = "run"
  <2>1. TRUE \in BOOLEAN /\ << >> \in Seq(Frames) /\ "run" \in Ats
    BY DEF Ats
  <2>2. IsCpu(UserThread) /\ UserThread.at = "run"
    BY <2>1, Zenon DEF IsCpu, UserThread
  <2> QED
    BY <2>2, Zenon DEF SpinInit
<1>2. WordTypes
  BY <1>1, Zenon DEF SpinInit, WordTypes
<1>3. WordIsOwned /\ HolderOwns /\ OwnerIsNoted /\ CallsMatch
  BY <1>1 DEF SpinInit, WordIsOwned, HolderOwns, OwnerIsNoted, CallsMatch
<1> QED
  BY <1>2, <1>3, Zenon DEF MInv

(* Every step of every CPU keeps MInv.                                     *)
LEMMA MInvNext ==
  ASSUME MInv, [SpinNext]_spinvars
  PROVE  MInv'
<1>0. NULL \notin Cpus
  BY SpinAssumption, Zenon
<1>1. CASE UNCHANGED spinvars
  BY <1>1, Zenon DEF spinvars, MInv, WordTypes, WordIsOwned, HolderOwns, OwnerIsNoted, CallsMatch
<1>2. CASE SpinNext
  <2>1. PICK c \in Cpus :
          \/ \/ testandset(c) \/ SetHolder(c) \/ hangman_acquire(c)
             \/ ClearHolder(c) \/ ClearData(c)
          \/ \E l \in Locks : spinlock_acquire(c, l) \/ spinlock_release(c, l)
          \/ \/ splhigh(c) \/ Interrupt(c) \/ InterruptReturn(c) \/ cpu_idle(c)
             \/ Syscall(c) \/ TlbFault(c) \/ CopyBegins(c) \/ CopyEnds(c)
             \/ TrapReturn(c) \/ FatalFault(c)
    BY <1>2, Zenon DEF SpinNext
  <2> QED
    BY <1>0, <2>1, StoresKeep, AcquireKeeps, ReleaseKeeps, QuietActions, Zenon
<1> QED
  BY <1>1, <1>2, Zenon

(* For any number of CPUs and spinlocks, whatever traps, interrupts and    *)
(* other calls come between the stores of spinlock_acquire and             *)
(* spinlock_release: a lock has one owner, its word is set exactly while   *)
(* it has one, splk_holder names nobody else, and spinlock_acquire panics  *)
(* on this CPU's own lock and spins on any other.                          *)
THEOREM MutualExclusion == SpinSpec => []HolderIsOwner
<1>1. SpinInit => MInv
  BY MInvAtFirst, Zenon
<1>2. MInv /\ [SpinNext]_spinvars => MInv'
  BY MInvNext, Zenon
<1>3. MInv => HolderIsOwner
  BY Zenon DEF MInv, WordIsOwned, HolderOwns, CallsMatch, HolderIsOwner
<1> QED
  BY <1>1, <1>2, <1>3, PTL DEF SpinSpec

-----------------------------------------------------------------------------
(* The deadlock detector's record of who waits for and who holds what.     *)

Waits(p) == p.at \in {"spin", "won", "noted"}

(* A lock that is won and not yet, or no longer, noted by the detector.    *)
Moving(p, l) == p.at \in {"won", "noted", "leave", "clear"} /\ p.lock = l

WaitsMatch ==
  /\ waiting = [c \in Cpus |-> waiting[c]]
  /\ \A c \in Cpus : waiting[c] = IF Waits(cpu[c]) THEN cpu[c].lock ELSE NULL

HoldsMatch ==
  /\ holding \in [Locks -> Cpus \cup {NULL}]
  /\ \A l \in Locks : \A c \in Cpus :
       holding[l] = c <=> l \in won[c] /\ ~Moving(cpu[c], l)

(* A step outside the spinlock calls, and any step.                        *)
Quiet(c) ==
  \/ splhigh(c) \/ Interrupt(c) \/ InterruptReturn(c) \/ cpu_idle(c)
  \/ Syscall(c) \/ TlbFault(c) \/ CopyBegins(c) \/ CopyEnds(c)
  \/ TrapReturn(c) \/ FatalFault(c)

Stores(c) == testandset(c) \/ SetHolder(c) \/ ClearHolder(c) \/ ClearData(c)

Step(c) ==
  \/ Quiet(c) \/ Stores(c) \/ hangman_acquire(c)
  \/ \E l \in Locks : spinlock_acquire(c, l) \/ spinlock_release(c, l)

(* What a step of one CPU leaves to the others.                            *)
Alone(c) ==
  \A d \in Cpus : d # c => cpu'[d] = cpu[d] /\ won'[d] = won[d] /\ waiting'[d] = waiting[d]

(* A CPU writes only its own record, its own wins and what it waits for.   *)
LEMMA StepsAlone ==
  ASSUME MInv, WaitsMatch, NEW c \in Cpus, Step(c)
  PROVE  Alone(c)
<1>0. /\ cpu = [d \in Cpus |-> cpu[d]] /\ won = [d \in Cpus |-> won[d]]
      /\ waiting = [d \in Cpus |-> waiting[d]]
  BY DEF MInv, WordTypes, WaitsMatch
<1>1. CASE testandset(c) \/ SetHolder(c) \/ hangman_acquire(c) \/ ClearHolder(c) \/ ClearData(c)
  BY <1>0, <1>1, Zenon DEF Alone, testandset, SetHolder, hangman_acquire, ClearHolder, ClearData
<1>2. CASE \E l \in Locks : spinlock_acquire(c, l) \/ spinlock_release(c, l)
  BY <1>0, <1>2, Zenon DEF Alone, spinlock_acquire, hangman_wait, spinlock_release
<1>3. CASE splhigh(c) \/ Interrupt(c) \/ InterruptReturn(c) \/ cpu_idle(c)
  BY <1>0, <1>3, Zenon DEF Alone, splhigh, Interrupt, InterruptReturn, cpu_idle
<1>4. CASE Syscall(c) \/ TlbFault(c) \/ CopyBegins(c) \/ CopyEnds(c)
  BY <1>0, <1>4, Zenon DEF Alone, Syscall, TlbFault, CopyBegins, CopyEnds
<1>5. CASE TrapReturn(c) \/ FatalFault(c)
  BY <1>0, <1>5, Zenon DEF Alone, TrapReturn, FatalFault
<1> QED
  BY <1>1, <1>2, <1>3, <1>4, <1>5, Zenon DEF Step, Quiet, Stores

(* The detector's record stands when the calls and the wins stay as they   *)
(* are for its purposes.                                                   *)
LEMMA HangKept ==
  ASSUME MInv, WaitsMatch, HoldsMatch, NEW c \in Cpus, Alone(c),
         waiting' = waiting, holding' = holding,
         Waits(cpu'[c]) <=> Waits(cpu[c]),
         Waits(cpu[c]) => cpu'[c].lock = cpu[c].lock,
         \A l \in Locks : /\ l \in won[c] /\ ~Moving(cpu[c], l)
                          <=> l \in won'[c] /\ ~Moving(cpu'[c], l)
  PROVE  WaitsMatch' /\ HoldsMatch'
<1>1. WaitsMatch'
  BY Zenon DEF WaitsMatch, Alone, Waits
<1>2. HoldsMatch'
  <2>1. holding' \in [Locks -> Cpus \cup {NULL}]
    BY Zenon DEF HoldsMatch
  <2>2. ASSUME NEW l \in Locks, NEW d \in Cpus
        PROVE  holding'[l] = d <=> l \in won'[d] /\ ~Moving(cpu'[d], l)
    <3>1. holding[l] = d <=> l \in won[d] /\ ~Moving(cpu[d], l)
      BY Zenon DEF HoldsMatch
    <3>2. CASE d = c
      BY <3>1, <3>2, Zenon
    <3>3. CASE d # c
      BY <3>1, <3>3, Zenon DEF Alone
    <3> QED
      BY <3>2, <3>3, Zenon
  <2> QED
    BY <2>1, <2>2, Zenon DEF HoldsMatch, Moving
<1> QED
  BY <1>1, <1>2, Zenon

(* Interrupts, traps, spl calls and copies are outside the spinlock calls. *)
LEMMA QuietAts ==
  ASSUME MInv, NEW c \in Cpus, Quiet(c)
  PROVE  cpu[c].at \in {"run", "idle"} /\ cpu'[c].at \in {"run", "idle"}
<1>p. PICK p : p = cpu[c]
  BY Zenon
<1>q. PICK q : q = cpu'[c]
  BY Zenon
<1>0. IsCpu(p) /\ cpu = [d \in Cpus |-> cpu[d]]
  BY <1>p, Zenon DEF MInv, WordTypes
<1>1. CASE splhigh(c)
  <2>1. PICK spl : q = splx(p, spl)
    BY <1>0, <1>1, <1>p, <1>q, Zenon DEF splhigh
  <2>2. p.at = "run"
    BY <1>1, <1>p, Zenon DEF splhigh, KernelCode, Running
  <2>3. q.at = p.at
    BY <1>0, <2>1, SplxKeepsCall, Zenon DEF SameCall
  <2> QED
    BY <1>p, <1>q, <2>2, <2>3, Zenon
<1>2. CASE Interrupt(c)
  <2>1. p.at \in {"run", "idle"}
    BY <1>2, <1>p, Zenon DEF Interrupt
  <2>2. q.at = "run"
    BY <1>0, <1>2, <1>p, <1>q, Zenon DEF Interrupt, IsCpu
  <2> QED
    BY <1>p, <1>q, <2>1, <2>2, Zenon
<1>3. CASE InterruptReturn(c)
  <2>1. p.at = "run" /\ p.frames \in Seq(Frames) /\ p.frames # << >>
    BY <1>0, <1>3, <1>p, Zenon DEF InterruptReturn, Running, InHandler, InKernel, IsCpu
  <2>2. q.at = p.frames[Len(p.frames)].at
    BY <1>0, <1>3, <1>p, <1>q, Zenon DEF InterruptReturn, IsCpu, Top
  <2>3. p.frames[Len(p.frames)] \in Frames
    BY <2>1, PopKeepsFrames, Zenon
  <2>4. q.at \in {"run", "idle"}
    BY <2>2, <2>3 DEF Frames
  <2> QED
    BY <1>p, <1>q, <2>1, <2>4, Zenon
<1>4. CASE cpu_idle(c)
  <2>1. \/ p.at = "run" /\ q = [p EXCEPT !.at = "idle", !.irq = TRUE]
        \/ p.at = "idle" /\ q = [p EXCEPT !.at = "run", !.irq = FALSE]
    BY <1>0, <1>4, <1>p, <1>q, Zenon DEF cpu_idle
  <2>2. \/ p.at = "run" /\ q.at = "idle"
        \/ p.at = "idle" /\ q.at = "run"
    BY <1>0, <2>1, Zenon DEF IsCpu
  <2> QED
    BY <1>p, <1>q, <2>2, Zenon
<1>5. CASE Syscall(c) \/ TlbFault(c)
  <2>1. PICK kind \in {"sys", "tlb"} : q = Entered(p, kind)
    BY <1>0, <1>5, <1>p, <1>q, Zenon DEF Syscall, TlbFault
  <2>2. p.at = "run"
    BY <1>5, <1>p, Zenon DEF Syscall, TlbFault, Running
  <2>3. p.at \in {"run", "idle"}
    BY <2>2
  <2>4. q.at = p.at
    BY <1>0, <2>1, <2>3, EnteredKeepsCall, Zenon
  <2> QED
    BY <1>p, <1>q, <2>2, <2>4, Zenon
<1>6. CASE CopyBegins(c) \/ CopyEnds(c)
  <2>1. PICK b : q = [p EXCEPT !.badfault = b]
    BY <1>0, <1>6, <1>p, <1>q, Zenon DEF CopyBegins, CopyEnds
  <2>2. p.at = "run" /\ q.at = p.at
    BY <1>0, <1>6, <1>p, <2>1, Zenon DEF CopyBegins, CopyEnds, KernelCode, Running, IsCpu
  <2> QED
    BY <1>p, <1>q, <2>2, Zenon
<1>7. CASE TrapReturn(c) \/ FatalFault(c)
  <2>1. p.at = "run" /\ p.frames # << >>
    BY <1>7, <1>p, Zenon DEF TrapReturn, FatalFault, KernelCode, Running, InKernel
  <2>r. PICK r : r = Left(p)
    BY Zenon
  <2>2. IsCpu(r) /\ r.at = p.at
    BY <1>0, <2>1, <2>r, LeftKeepsCall, Zenon
  <2>3. q = p \/ q = r \/ q = [r EXCEPT !.badfault = FALSE]
    BY <1>0, <1>7, <1>p, <1>q, <2>r, Zenon DEF TrapReturn, FatalFault
  <2>4. q.at = p.at
    BY <2>2, <2>3, Zenon DEF IsCpu
  <2> QED
    BY <1>p, <1>q, <2>1, <2>4, Zenon
<1> QED
  BY <1>1, <1>2, <1>3, <1>4, <1>5, <1>6, <1>7, Zenon DEF Quiet

(* They leave the detector alone.                                          *)
LEMMA HangQuiet ==
  ASSUME MInv, WaitsMatch, HoldsMatch, NEW c \in Cpus, Quiet(c)
  PROVE  WaitsMatch' /\ HoldsMatch'
<1>1. Alone(c)
  BY StepsAlone, Zenon DEF Step, Stores
<1>2. cpu[c].at \in {"run", "idle"} /\ cpu'[c].at \in {"run", "idle"}
  BY QuietAts, Zenon
<1>3. waiting' = waiting /\ holding' = holding /\ won' = won
  BY Zenon DEF Quiet, splhigh, Interrupt, InterruptReturn, cpu_idle, Syscall, TlbFault, CopyBegins,
               CopyEnds, TrapReturn, FatalFault
<1>4. /\ ~Waits(cpu[c]) /\ ~Waits(cpu'[c])
      /\ \A l \in Locks : ~Moving(cpu[c], l) /\ ~Moving(cpu'[c], l)
  BY <1>2 DEF Waits, Moving
<1> QED
  BY <1>1, <1>3, <1>4, HangKept, Zenon

(* spinlock_acquire: hangman_wait finds nothing waited for.                *)
LEMMA HangAsk ==
  ASSUME MInv, WaitsMatch, HoldsMatch, NEW c \in Cpus, NEW l \in Locks, spinlock_acquire(c, l)
  PROVE  WaitsMatch' /\ HoldsMatch' /\ waiting[c] = NULL
<1>p. PICK p : p = cpu[c]
  BY Zenon
<1>q. PICK q : q = cpu'[c]
  BY Zenon
<1>r. PICK r : r = splraise(p)
  BY Zenon
<1>0. /\ IsCpu(p) /\ p.at = "run" /\ won' = won /\ holding' = holding
      /\ IsCpu(r) /\ cpu = [d \in Cpus |-> cpu[d]]
  BY <1>p, <1>r, RaiseKeepsCall, Zenon DEF MInv, WordTypes, spinlock_acquire, KernelCode, Running
<1>1. Alone(c)
  BY StepsAlone, Zenon DEF Step, Stores
<1>2. waiting[c] = NULL /\ ~Waits(p)
  BY <1>0, <1>p DEF WaitsMatch, Waits
<1>3. \/ q.at = "panic" /\ waiting' = waiting
      \/ q.at = "spin" /\ q.lock = l /\ waiting' = [waiting EXCEPT ![c] = l]
  <2>1. \/ q = [r EXCEPT !.at = "panic", !.lock = l] /\ waiting' = waiting
        \/ /\ q = [r EXCEPT !.nspin = @ + 1, !.at = "spin", !.lock = l]
           /\ waiting' = [waiting EXCEPT ![c] = l]
    BY <1>0, <1>p, <1>q, <1>r, Zenon DEF spinlock_acquire, hangman_wait
  <2> QED
    BY <1>0, <2>1, Zenon DEF IsCpu
<1>4. \A k \in Locks : ~Moving(p, k) /\ ~Moving(q, k)
  BY <1>0, <1>3 DEF Moving
<1>5. HoldsMatch'
  <2>2. ASSUME NEW k \in Locks, NEW d \in Cpus
        PROVE  holding'[k] = d <=> k \in won'[d] /\ ~Moving(cpu'[d], k)
    <3>1. holding[k] = d <=> k \in won[d] /\ ~Moving(cpu[d], k)
      BY Zenon DEF HoldsMatch
    <3>2. CASE d = c
      BY <1>0, <1>4, <1>p, <1>q, <3>1, <3>2, Zenon
    <3>3. CASE d # c
      BY <1>0, <1>1, <3>1, <3>3, Zenon DEF Alone
    <3> QED
      BY <3>2, <3>3, Zenon
  <2> QED
    BY <1>0, <2>2, Zenon DEF HoldsMatch, Moving
<1>6. CASE q.at = "panic" /\ waiting' = waiting
  <2>1. ~Waits(q)
    BY <1>6 DEF Waits
  <2>2. WaitsMatch'
    BY <1>1, <1>2, <1>6, <1>p, <1>q, <2>1, Zenon DEF WaitsMatch, Alone, Waits
  <2> QED
    BY <1>2, <1>5, <2>2, Zenon
<1>7. CASE q.at = "spin" /\ q.lock = l /\ waiting' = [waiting EXCEPT ![c] = l]
  <2>1. Waits(q)
    BY <1>7 DEF Waits
  <2>2. waiting'[c] = l /\ waiting' = [d \in Cpus |-> waiting'[d]]
    BY <1>7 DEF WaitsMatch
  <2>3. ASSUME NEW d \in Cpus
        PROVE  waiting'[d] = IF Waits(cpu'[d]) THEN cpu'[d].lock ELSE NULL
    <3>1. CASE d = c
      BY <1>7, <1>q, <2>1, <2>2, <3>1, Zenon
    <3>2. CASE d # c
      BY <1>1, <3>2, Zenon DEF WaitsMatch, Alone
    <3> QED
      BY <3>1, <3>2, Zenon
  <2>4. WaitsMatch'
    BY <2>2, <2>3, Zenon DEF WaitsMatch, Waits
  <2> QED
    BY <1>2, <1>5, <2>4, Zenon
<1> QED
  BY <1>3, <1>6, <1>7, Zenon

(* The test-and-set and the stores to splk_holder and to the lock word.    *)
LEMMA HangStores ==
  ASSUME MInv, WaitsMatch, HoldsMatch, NEW c \in Cpus,
         Stores(c)
  PROVE  WaitsMatch' /\ HoldsMatch'
<1>p. PICK p : p = cpu[c]
  BY Zenon
<1>q. PICK q : q = cpu'[c]
  BY Zenon
<1>0. /\ IsCpu(p) /\ cpu = [d \in Cpus |-> cpu[d]] /\ won = [d \in Cpus |-> won[d]]
      /\ waiting' = waiting /\ holding' = holding
  BY <1>p DEF MInv, WordTypes, Stores, testandset, SetHolder, ClearHolder, ClearData
<1>1. Alone(c)
  BY StepsAlone, Zenon DEF Step, Stores
<1>2. CASE testandset(c)
  <2>1. p.at = "spin" /\ q.at = "won" /\ q.lock = p.lock /\ won'[c] = won[c] \cup {p.lock}
    BY <1>0, <1>2, <1>p, <1>q, Zenon DEF testandset, IsCpu
  <2>2. p.lock \notin won[c]
    BY <1>p, <2>1, Zenon DEF MInv, CallsMatch
  <2>3. \A l \in Locks : (l \in won[c] /\ ~Moving(p, l)) <=> (l \in won'[c] /\ ~Moving(q, l))
    BY <2>1, <2>2 DEF Moving
  <2>4. Waits(q) /\ Waits(p)
    BY <2>1 DEF Waits
  <2> QED
    BY <1>0, <1>1, <1>p, <1>q, <2>1, <2>3, <2>4, HangKept, Zenon
<1>3. CASE SetHolder(c)
  <2>1. p.at = "won" /\ q.at = "noted" /\ q.lock = p.lock /\ won'[c] = won[c]
    BY <1>0, <1>3, <1>p, <1>q, Zenon DEF SetHolder, IsCpu
  <2>3. \A l \in Locks : (l \in won[c] /\ ~Moving(p, l)) <=> (l \in won'[c] /\ ~Moving(q, l))
    BY <2>1 DEF Moving
  <2>4. Waits(q) /\ Waits(p)
    BY <2>1 DEF Waits
  <2> QED
    BY <1>0, <1>1, <1>p, <1>q, <2>1, <2>3, <2>4, HangKept, Zenon
<1>4. CASE ClearHolder(c)
  <2>1. p.at = "leave" /\ q.at = "clear" /\ q.lock = p.lock /\ won'[c] = won[c]
    BY <1>0, <1>4, <1>p, <1>q, Zenon DEF ClearHolder, IsCpu
  <2>3. \A l \in Locks : (l \in won[c] /\ ~Moving(p, l)) <=> (l \in won'[c] /\ ~Moving(q, l))
    BY <2>1 DEF Moving
  <2>4. ~Waits(q) /\ ~Waits(p)
    BY <2>1 DEF Waits
  <2> QED
    BY <1>0, <1>1, <1>p, <1>q, <2>3, <2>4, HangKept, Zenon
<1>5. CASE ClearData(c)
  <2>r. PICK r : r = spllower(p)
    BY Zenon
  <2>0. IsCpu(r)
    BY <1>0, <2>r, LowerKeepsCall, Zenon
  <2>1. p.at = "clear" /\ q.at = "run" /\ won'[c] = won[c] \ {p.lock}
    BY <1>0, <1>5, <1>p, <1>q, <2>0, <2>r, Zenon DEF ClearData, IsCpu
  <2>3. \A l \in Locks : (l \in won[c] /\ ~Moving(p, l)) <=> (l \in won'[c] /\ ~Moving(q, l))
    BY <2>1 DEF Moving
  <2>4. ~Waits(q) /\ ~Waits(p)
    BY <2>1 DEF Waits
  <2> QED
    BY <1>0, <1>1, <1>p, <1>q, <2>3, <2>4, HangKept, Zenon
<1> QED
  BY <1>2, <1>3, <1>4, <1>5, Zenon DEF Stores

(* hangman_acquire finds the wait it expects and nobody holding the lock.  *)
LEMMA HangAcquire ==
  ASSUME MInv, WaitsMatch, HoldsMatch, NEW c \in Cpus, hangman_acquire(c)
  PROVE  WaitsMatch' /\ HoldsMatch' /\ dead' = dead
<1>p. PICK p : p = cpu[c]
  BY Zenon
<1>q. PICK q : q = cpu'[c]
  BY Zenon
<1>0. /\ IsCpu(p) /\ cpu = [d \in Cpus |-> cpu[d]] /\ won' = won /\ p.at = "noted"
      /\ won \in [Cpus -> SUBSET Locks]
  BY <1>p, Zenon DEF MInv, WordTypes, hangman_acquire
<1>1. Alone(c)
  BY StepsAlone, Zenon DEF Step, Stores
<1>l. PICK l \in Locks : l = p.lock /\ l \in won[c]
  BY <1>0, <1>p DEF MInv, CallsMatch
<1>2. q.at = "run" /\ waiting' = [waiting EXCEPT ![c] = NULL] /\ holding' = [holding EXCEPT ![l] = c]
  BY <1>0, <1>l, <1>p, <1>q, Zenon DEF hangman_acquire, IsCpu
<1>3. waiting[c] = l
  BY <1>0, <1>l, <1>p DEF WaitsMatch, Waits
<1>4. \A d \in Cpus : l \in won[d] => d = c
  BY <1>l, Zenon DEF MInv, WordIsOwned
<1>5. Moving(p, l) /\ ~Waits(q) /\ \A k \in Locks : ~Moving(q, k) /\ (k # l => ~Moving(p, k))
  BY <1>0, <1>2, <1>l DEF Moving, Waits
<1>6. holding[l] = NULL
  <2>1. holding[l] \in Cpus \cup {NULL}
    BY DEF HoldsMatch
  <2>2. holding[l] \notin Cpus
    BY <1>4, <1>5, <1>p, Zenon DEF HoldsMatch
  <2> QED
    BY <2>1, <2>2, Zenon
<1>7. dead' = dead
  BY <1>3, <1>6, <1>l, <1>p, Zenon DEF hangman_acquire
<1>8. WaitsMatch'
  <2>1. waiting'[c] = NULL /\ waiting' = [d \in Cpus |-> waiting'[d]]
    BY <1>2 DEF WaitsMatch
  <2>2. ASSUME NEW d \in Cpus
        PROVE  waiting'[d] = IF Waits(cpu'[d]) THEN cpu'[d].lock ELSE NULL
    <3>1. CASE d = c
      BY <1>5, <1>q, <2>1, <3>1, Zenon
    <3>2. CASE d # c
      BY <1>1, <3>2, Zenon DEF WaitsMatch, Alone
    <3> QED
      BY <3>1, <3>2, Zenon
  <2> QED
    BY <2>1, <2>2, Zenon DEF WaitsMatch, Waits
<1>9. HoldsMatch'
  <2>0. /\ holding' \in [Locks -> Cpus \cup {NULL}] /\ holding'[l] = c
        /\ \A k \in Locks : k # l => holding'[k] = holding[k]
    BY <1>2 DEF HoldsMatch
  <2>2. ASSUME NEW k \in Locks, NEW d \in Cpus
        PROVE  holding'[k] = d <=> k \in won'[d] /\ ~Moving(cpu'[d], k)
    <3>1. holding[k] = d <=> k \in won[d] /\ ~Moving(cpu[d], k)
      BY Zenon DEF HoldsMatch
    <3>2. CASE k = l
      BY <1>0, <1>4, <1>5, <1>l, <1>q, <2>0, <3>2, Zenon
    <3>3. CASE k # l /\ d = c
      <4>1. ~Moving(cpu[c], k) /\ ~Moving(cpu'[c], k)
        BY <1>5, <1>p, <1>q, <3>3, Zenon
      <4> QED
        BY <1>0, <2>0, <3>1, <3>3, <4>1, Zenon
    <3>4. CASE k # l /\ d # c
      BY <1>0, <1>1, <2>0, <3>1, <3>4, Zenon DEF Alone
    <3> QED
      BY <3>2, <3>3, <3>4, Zenon
  <2> QED
    BY <2>0, <2>2, Zenon DEF HoldsMatch, Moving
<1> QED
  BY <1>7, <1>8, <1>9, Zenon

(* spinlock_release: the holder is this CPU, and hangman_release finds     *)
(* nothing waited for and the lock held by it.                             *)
LEMMA HangRelease ==
  ASSUME MInv, WaitsMatch, HoldsMatch, NEW c \in Cpus, NEW l \in Locks,
         cpu[c].nspin # 0, spinlock_release(c, l)
  PROVE  WaitsMatch' /\ HoldsMatch' /\ dead' = dead
<1>p. PICK p : p = cpu[c]
  BY Zenon
<1>q. PICK q : q = cpu'[c]
  BY Zenon
<1>0. /\ IsCpu(p) /\ cpu = [d \in Cpus |-> cpu[d]] /\ won' = won /\ waiting' = waiting
      /\ p.at = "run" /\ l \in won[c]
  BY <1>p, Zenon DEF MInv, WordTypes, spinlock_release, Running
<1>1. Alone(c)
  BY StepsAlone, Zenon DEF Step, Stores
<1>2. q.at = "leave" /\ q.lock = l
  BY <1>0, <1>p, <1>q, Zenon DEF spinlock_release, IsCpu
<1>3. holder[l] = c
  <2>1. p.at \notin {"won", "clear"}
    BY <1>0
  <2> QED
    BY <1>0, <1>p, <2>1, Zenon DEF MInv, OwnerIsNoted
<1>4. /\ ~Waits(p) /\ ~Waits(q) /\ Moving(q, l)
      /\ \A k \in Locks : ~Moving(p, k) /\ (k # l => ~Moving(q, k))
  BY <1>0, <1>2 DEF Waits, Moving
<1>5. holding[l] = c /\ waiting[c] = NULL
  BY <1>0, <1>4, <1>p, Zenon DEF HoldsMatch, WaitsMatch
<1>6. dead' = dead /\ holding' = [holding EXCEPT ![l] = NULL]
  BY <1>3, <1>5, <1>p, Zenon DEF spinlock_release, hangman_release
<1>7. \A d \in Cpus : l \in won[d] => d = c
  BY <1>0, Zenon DEF MInv, WordIsOwned
<1>8. WaitsMatch'
  BY <1>0, <1>1, <1>4, <1>p, <1>q, Zenon DEF WaitsMatch, Alone, Waits
<1>9. HoldsMatch'
  <2>0. /\ holding' \in [Locks -> Cpus \cup {NULL}] /\ holding'[l] = NULL
        /\ \A k \in Locks : k # l => holding'[k] = holding[k]
    BY <1>6 DEF HoldsMatch
  <2>2. ASSUME NEW k \in Locks, NEW d \in Cpus
        PROVE  holding'[k] = d <=> k \in won'[d] /\ ~Moving(cpu'[d], k)
    <3>1. holding[k] = d <=> k \in won[d] /\ ~Moving(cpu[d], k)
      BY Zenon DEF HoldsMatch
    <3>2. CASE k = l
      <4>1. NULL # d
        BY SpinAssumption
      <4> QED
        BY <1>0, <1>4, <1>7, <1>q, <2>0, <3>2, <4>1, Zenon
    <3>3. CASE k # l /\ d = c
      BY <1>0, <1>4, <1>p, <1>q, <2>0, <3>1, <3>3, Zenon
    <3>4. CASE k # l /\ d # c
      BY <1>0, <1>1, <2>0, <3>1, <3>4, Zenon DEF Alone
    <3> QED
      BY <3>2, <3>3, <3>4, Zenon
  <2> QED
    BY <2>0, <2>2, Zenon DEF HoldsMatch, Moving
<1> QED
  BY <1>6, <1>8, <1>9, Zenon

(* What waiting and holding can name, whatever has become of the kernel.   *)
HangTypes ==
  /\ waiting \in [Cpus -> Locks \cup {NULL}]
  /\ holding \in [Locks -> Cpus \cup {NULL}]

HangInv ==
  /\ MInv /\ HangTypes /\ dead # "hangman"
  /\ dead = "no" => WaitsMatch /\ HoldsMatch

(* A step of the kernel is a step of one of its CPUs.                      *)
LEMMA NextIsStep == SpinNext => \E c \in Cpus : Step(c)
  BY Zenon DEF SpinNext, Step, Quiet, Stores

(* After a panic nothing runs.                                             *)
LEMMA StepsAlive ==
  ASSUME NEW c \in Cpus, Step(c)
  PROVE  dead = "no"
<1>1. CASE Quiet(c)
  BY <1>1, Zenon DEF Quiet, splhigh, Interrupt, InterruptReturn, cpu_idle, Syscall, TlbFault,
       CopyBegins, CopyEnds, TrapReturn, FatalFault, KernelCode, Running
<1>2. CASE Stores(c) \/ hangman_acquire(c)
  BY <1>2, Zenon DEF Stores, testandset, SetHolder, ClearHolder, ClearData, hangman_acquire
<1>3. CASE \E l \in Locks : spinlock_acquire(c, l) \/ spinlock_release(c, l)
  BY <1>3, Zenon DEF spinlock_acquire, spinlock_release, KernelCode, Running
<1> QED
  BY <1>1, <1>2, <1>3, Zenon DEF Step

(* The detector is told of locks and of CPUs.                              *)
LEMMA HangTyped ==
  ASSUME HangTypes, NEW c \in Cpus, Step(c)
  PROVE  HangTypes'
<1>1. \/ waiting' = waiting
      \/ waiting' = [waiting EXCEPT ![c] = NULL]
      \/ \E l \in Locks : waiting' = [waiting EXCEPT ![c] = l]
  <2>1. CASE Quiet(c) \/ Stores(c)
    BY <2>1, Zenon DEF Quiet, splhigh, Interrupt, InterruptReturn, cpu_idle, Syscall, TlbFault,
         CopyBegins, CopyEnds, TrapReturn, FatalFault,
         Stores, testandset, SetHolder, ClearHolder, ClearData
  <2>2. CASE hangman_acquire(c)
    BY <2>2, Zenon DEF hangman_acquire
  <2>3. CASE \E l \in Locks : spinlock_acquire(c, l) \/ spinlock_release(c, l)
    BY <2>3, Zenon DEF spinlock_acquire, hangman_wait, spinlock_release
  <2> QED
    BY <2>1, <2>2, <2>3, Zenon DEF Step
<1>2. \/ holding' = holding
      \/ \E k : holding' = [holding EXCEPT ![k] = c]
      \/ \E k : holding' = [holding EXCEPT ![k] = NULL]
  <2>1. CASE Quiet(c) \/ Stores(c)
    BY <2>1, Zenon DEF Quiet, splhigh, Interrupt, InterruptReturn, cpu_idle, Syscall, TlbFault,
         CopyBegins, CopyEnds, TrapReturn, FatalFault,
         Stores, testandset, SetHolder, ClearHolder, ClearData
  <2>2. CASE hangman_acquire(c)
    BY <2>2, Zenon DEF hangman_acquire
  <2>3. CASE \E l \in Locks : spinlock_acquire(c, l) \/ spinlock_release(c, l)
    BY <2>3, Zenon DEF spinlock_acquire, spinlock_release, hangman_release
  <2> QED
    BY <2>1, <2>2, <2>3, Zenon DEF Step
<1>3. waiting' \in [Cpus -> Locks \cup {NULL}]
  BY <1>1 DEF HangTypes
<1>4. holding' \in [Locks -> Cpus \cup {NULL}]
  BY <1>2 DEF HangTypes
<1> QED
  BY <1>3, <1>4, Zenon DEF HangTypes

(* A release that fails its own assertions stops the kernel for them.      *)
LEMMA HangReleased ==
  ASSUME MInv, WaitsMatch, HoldsMatch, dead = "no",
         NEW c \in Cpus, NEW l \in Locks, spinlock_release(c, l)
  PROVE  dead' # "hangman" /\ (dead' = "no" => WaitsMatch' /\ HoldsMatch')
<1>1. CASE cpu[c].nspin # 0
  BY <1>1, HangRelease, Zenon
<1>2. CASE cpu[c].nspin = 0
  BY <1>2, Zenon DEF spinlock_release
<1> QED
  BY <1>1, <1>2, Zenon

(* Every step keeps the detector's record.                                 *)
LEMMA HangInvNext ==
  ASSUME HangInv, [SpinNext]_spinvars
  PROVE  HangInv'
<1>0. MInv'
  BY MInvNext, Zenon DEF HangInv
<1>1. CASE UNCHANGED spinvars
  <2>1. /\ cpu' = cpu /\ holding' = holding /\ waiting' = waiting
        /\ won' = won /\ dead' = dead
    BY <1>1, Zenon DEF spinvars
  <2> QED
    BY <1>0, <2>1, Zenon DEF HangInv, HangTypes, WaitsMatch, HoldsMatch
<1>2. CASE SpinNext
  <2>1. PICK c \in Cpus : Step(c)
    BY <1>2, NextIsStep, Zenon
  <2>2. HangTypes'
    BY <2>1, HangTyped, Zenon DEF HangInv
  <2>3. dead = "no"
    BY <2>1, StepsAlive, Zenon
  <2>4. MInv /\ WaitsMatch /\ HoldsMatch
    BY <2>3, Zenon DEF HangInv
  <2>5. dead' # "hangman" /\ (dead' = "no" => WaitsMatch' /\ HoldsMatch')
    <3>1. CASE Quiet(c)
      <4>1. dead' # "hangman"
        BY <2>3, <3>1, Zenon DEF Quiet, splhigh, Interrupt, InterruptReturn, cpu_idle,
             Syscall, TlbFault, CopyBegins, CopyEnds, TrapReturn, FatalFault
      <4> QED
        BY <2>4, <3>1, <4>1, HangQuiet, Zenon
    <3>2. CASE Stores(c)
      <4>1. dead' = dead
        BY <3>2, Zenon DEF Stores, testandset, SetHolder, ClearHolder, ClearData
      <4> QED
        BY <2>3, <2>4, <3>2, <4>1, HangStores, Zenon
    <3>3. CASE hangman_acquire(c)
      BY <2>3, <2>4, <3>3, HangAcquire, Zenon
    <3>4. CASE \E l \in Locks : spinlock_release(c, l)
      BY <2>3, <2>4, <3>4, HangReleased, Zenon
    <3>5. CASE \E l \in Locks : spinlock_acquire(c, l)
      <4>1. PICK l \in Locks : spinlock_acquire(c, l)
        BY <3>5, Zenon
      <4>2. WaitsMatch' /\ HoldsMatch' /\ waiting[c] = NULL
        BY <2>4, <4>1, HangAsk, Zenon
      <4>3. dead' # "hangman"
        BY <2>3, <4>1, <4>2, Zenon DEF spinlock_acquire, hangman_wait
      <4> QED
        BY <4>2, <4>3, Zenon
    <3> QED
      BY <2>1, <3>1, <3>2, <3>3, <3>4, <3>5, Zenon DEF Step
  <2> QED
    BY <1>0, <2>2, <2>5, Zenon DEF HangInv
<1> QED
  BY <1>1, <1>2, Zenon

(* At boot nobody waits and nothing is held.                               *)
LEMMA HangInvAtFirst ==
  ASSUME SpinInit
  PROVE  HangInv
<1>1. MInv
  BY MInvAtFirst, Zenon
<1>2. /\ dead = "no" /\ waiting = [c \in Cpus |-> NULL] /\ holding = [l \in Locks |-> NULL]
      /\ \A c \in Cpus : cpu[c] = UserThread /\ won[c] = {}
  BY DEF SpinInit
<1>3. ~Waits(UserThread)
  BY DEF UserThread, Waits
<1>4. WaitsMatch
  BY <1>2, <1>3 DEF WaitsMatch
<1>5. HoldsMatch
  BY <1>2, SpinAssumption DEF HoldsMatch
<1>6. HangTypes
  BY <1>2 DEF HangTypes
<1>7. dead # "hangman"
  BY <1>2
<1> QED
  BY <1>1, <1>4, <1>5, <1>6, <1>7, Zenon DEF HangInv

(* In every state of the kernel the words, splk_holder and the detector's  *)
(* record agree with who has won which lock, and hangman.c has found       *)
(* nothing amiss with what it was told.                                    *)
THEOREM HangInductive == SpinSpec => []HangInv
<1>1. SpinInit => HangInv
  BY HangInvAtFirst, Zenon
<1>2. HangInv /\ [SpinNext]_spinvars => HangInv'
  BY HangInvNext, Zenon
<1> QED
  BY <1>1, <1>2, PTL DEF SpinSpec
=============================================================================
