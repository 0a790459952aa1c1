----------------------------- MODULE CopyInOut -----------------------------
(***************************************************************************)
(* Copying between the kernel and user memory (vm/copyinout.c), for every  *)
(* address, length and string of a small machine: addresses are ADDR_BITS  *)
(* wide and wrap, user space is the part below CopyTop.                    *)
(*                                                                         *)
(* An access to the address hole faults for good: mips_trap resumes in     *)
(* copyfail and the function returns EFAULT.  The string at ptr ends at    *)
(* the first address that is nul.                                          *)
(***************************************************************************)
EXTENDS Integers, FiniteSets, FiniteSetsExt

CONSTANTS
  ADDR_BITS,
  CopyTop,    \* USERSPACETOP of this machine
  NoAddr      \* no address

ASSUME CopyAssumption ==
  /\ 2^ADDR_BITS \in Nat
  /\ CopyTop \in 0 .. 2^ADDR_BITS - 1
  /\ NoAddr \notin Int

VARIABLES ptr, len, nul, hole

Address == 0 .. 2^ADDR_BITS - 1

CopyInit ==
  /\ ptr \in Address /\ len \in Address
  /\ nul \in Address \cup {NoAddr} /\ hole \in Address \cup {NoAddr}

Span(p, n) == p .. p + n - 1

(* The length that may be copied; NoAddr: EFAULT.                          *)
copycheck_NoWrap(p, n) ==
  LET top == p + n - 1 IN
  IF p >= CopyTop THEN NoAddr
  ELSE IF top % 2^ADDR_BITS >= CopyTop THEN CopyTop - p
  ELSE n

copycheck(p, n) ==
  LET top == (p + n + 2^ADDR_BITS - 1) % 2^ADDR_BITS IN
  IF top < p \/ p >= CopyTop THEN NoAddr
  ELSE IF top >= CopyTop THEN CopyTop - p
  ELSE n

(* copyin and copyout: the addresses touched and the result.               *)
copyin(p, n) ==
  LET stoplen == copycheck(p, n) IN
  IF stoplen = NoAddr \/ stoplen # n THEN [touched |-> {}, ret |-> "EFAULT"]
  ELSE [touched |-> Span(p, n),
        ret |-> IF hole \in Span(p, n) THEN "EFAULT" ELSE "ok"]

(* copystr: the bytes up to and including the first that stops it.         *)
copystr_Max(p, maxlen, stoplen) ==
  LET stops == {i \in 0 .. maxlen - 1 : p + i \in {nul, hole}}
  IN
  IF stops = {}
    THEN [touched |-> Span(p, maxlen), got |-> 0, ret |-> "ENAMETOOLONG"]
    ELSE [touched |-> Span(p, Min(stops) + 1), got |-> Min(stops) + 1,
          ret |-> IF p + Min(stops) = hole THEN "EFAULT" ELSE "ok"]

copystr(p, maxlen, stoplen) ==
  LET n == Min({maxlen, stoplen})
      stops == {i \in 0 .. n - 1 : p + i \in {nul, hole}}
  IN
  IF stops = {}
    THEN [touched |-> Span(p, n), got |-> 0,
          ret |-> IF stoplen < maxlen THEN "EFAULT" ELSE "ENAMETOOLONG"]
    ELSE [touched |-> Span(p, Min(stops) + 1), got |-> Min(stops) + 1,
          ret |-> IF p + Min(stops) = hole THEN "EFAULT" ELSE "ok"]

(* copyinstr and copyoutstr.                                               *)
copyinstr(p, n) ==
  LET stoplen == copycheck(p, n) IN
  IF stoplen = NoAddr THEN [touched |-> {}, got |-> 0, ret |-> "EFAULT"]
  ELSE copystr(p, n, stoplen)

CopySpec == CopyInit /\ [][FALSE]_<<ptr, len, nul, hole>>

-----------------------------------------------------------------------------
UserSpace == 0 .. CopyTop - 1
InUser(p, n) == n > 0 /\ Span(p, n) \subseteq UserSpace

(* A block is copied exactly when it is not empty and lies in user space,  *)
(* with every address it needs, and nothing outside user space is ever     *)
(* touched: not at the boundary, and not when the address wraps.           *)
BlockCopyIsExact ==
  LET r == copyin(ptr, len) IN
  /\ r.ret = "ok" <=> InUser(ptr, len) /\ hole \notin Span(ptr, len)
  /\ r.touched \subseteq UserSpace

(* A string is copied when it ends within the length allowed, in user      *)
(* space and before a hole, with its length; one that does not fit is too  *)
(* long only if user space does not end first (for a buffer that is not    *)
(* empty and does not wrap); nothing outside user space is touched.        *)
StringCopyIsExact ==
  LET r == copyinstr(ptr, len)
      upto(n) == Span(ptr, n)
      ends(n) == n <= len /\ InUser(ptr, n) /\ nul = ptr + n - 1
                 /\ hole \notin upto(n)
  IN
  /\ r.touched \subseteq UserSpace
  /\ len > 0 /\ ptr + len <= 2^ADDR_BITS =>
       /\ r.ret = "ok" <=> \E n \in 1..len : ends(n)
       /\ r.ret = "ok" => ends(r.got)
       /\ r.ret = "ENAMETOOLONG" <=>
            InUser(ptr, len) /\ nul \notin upto(len) /\ hole \notin upto(len)

(* Copying as its callers need it.                                         *)
CopyIsExact == BlockCopyIsExact /\ StringCopyIsExact
=============================================================================
