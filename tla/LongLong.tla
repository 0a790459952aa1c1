------------------------------ MODULE LongLong ------------------------------
(***************************************************************************)
(* The 64-bit arithmetic the compiler calls on this 32-bit machine,        *)
(* common/gcc-millicode, for ints of any width.  A long long is its bit    *)
(* pattern, a number below LL; an unsigned int is one below UI, and a      *)
(* digit, half an int, one below B.  The digits of a number are a sequence *)
(* of five, uspace[0] .. uspace[4], most significant first.                *)
(***************************************************************************)
EXTENDS Integers, Sequences

CONSTANT HALF_BITS    \* bits in half an unsigned int

VARIABLES a, b        \* the operands

B == 2^HALF_BITS
UI == B * B
LL == UI * UI

HHALF(x) == x \div B
LHALF(x) == x % B
LHUP(x) == (x * B) % UI
COMBINE(x, y) == LHUP(x) + y

\* The two ints of a long long, and the other way round.
H(x) == x \div UI
L(x) == x % UI
uu(h, l) == (h % UI) * UI + (l % UI)

If(p) == IF p THEN 1 ELSE 0

\* A bit pattern as a signed number of the given size.
Signed(x, size) == IF x >= size \div 2 THEN x - size ELSE x
Negative(x) == Signed(x, LL) < 0

Zeros == <<0, 0, 0, 0, 0>>
Digits(x) == <<0, HHALF(H(x)), LHALF(H(x)), HHALF(L(x)), LHALF(L(x))>>
Number(p) == uu(COMBINE(p[2], p[3]), COMBINE(p[4], p[5]))

-----------------------------------------------------------------------------
(* qdivrem.c: Knuth's algorithm D *)

\* How many of the digits 1 .. 4 are leading zeros.
LeadingZeros(p) ==
  CHOOSE k \in 0 .. 3 : p[k + 2] # 0 /\ \A i \in 0 .. k - 1 : p[i + 2] = 0

\* Division by a single digit, from the left.
ShortDivide(u, t) ==
  LET r2 == COMBINE(u[2] % t, u[3])
      r3 == COMBINE(r2 % t, u[4])
      r4 == COMBINE(r3 % t, u[5]) IN
  [q |-> Number(<<0, u[2] \div t, r2 \div t, r3 \div t, r4 \div t>>), r |-> r4 % t]

\* Shift p[from] .. p[from + len] left, each digit taking bits of the next one.
shl(p, from, len, sh) ==
  LET at(i) == IF i \notin from .. from + len THEN p[i + 1]
               ELSE LHALF(p[i + 1] * 2^sh) +
                    (IF i = from + len THEN 0 ELSE p[i + 2] \div 2^(HALF_BITS - sh)) IN
  IF sh = 0 THEN p ELSE <<at(0), at(1), at(2), at(3), at(4)>>

\* D1: by how much to shift for v[1] >= B/2.
Shift(v1) == CHOOSE d \in 0 .. HALF_BITS - 1 : v1 * 2^d \in (B \div 2) .. B - 1

\* D3: lower qhat while it is too big by the second digit of v.
RECURSIVE LowerQhat(_, _, _, _, _)
LowerQhat(qhat, rhat, v1, v2, uj2) ==
  LET lower == IF rhat + v1 >= B THEN qhat - 1 ELSE LowerQhat(qhat - 1, rhat + v1, v1, v2, uj2) IN
  CASE qhat = B -> lower                                      \* goto qhat_too_big
    [] qhat # B /\ (v2 * qhat) % UI > COMBINE(rhat, uj2) -> lower
    [] OTHER -> qhat

\* D3: the guess for one digit of the quotient from the leading digits.
Qhat(uj0, uj1, uj2, v1, v2) ==
  IF uj0 = v1 THEN LowerQhat(B, uj1, v1, v2, uj2)
  ELSE LowerQhat(COMBINE(uj0, uj1) \div v1, COMBINE(uj0, uj1) % v1, v1, v2, uj2)

\* D4: multiply and subtract; t holds the borrow.  pu and pv are where digits
\* u[j] and v[0] are.
RECURSIVE MultiplySubtract(_, _, _, _, _, _, _)
MultiplySubtract(u, v, pu, pv, i, qhat, t) ==
  IF i = 0 THEN [u |-> [u EXCEPT ![pu + 1] = LHALF((u[pu + 1] - t) % UI)],
                 borrow |-> HHALF((u[pu + 1] - t) % UI) # 0]
  ELSE LET x == (u[pu + i + 1] - v[pv + i + 1] * qhat - t) % UI IN
       MultiplySubtract([u EXCEPT ![pu + i + 1] = LHALF(x)], v, pu, pv, i - 1, qhat, (B - HHALF(x)) % B)

\* D6: add back.
RECURSIVE AddBack(_, _, _, _, _, _)
AddBack(u, v, pu, pv, i, t) ==
  IF i = 0 THEN [u EXCEPT ![pu + 1] = LHALF(u[pu + 1] + t)]
  ELSE LET x == t + u[pu + i + 1] + v[pv + i + 1] IN
       AddBack([u EXCEPT ![pu + i + 1] = LHALF(x)], v, pu, pv, i - 1, HHALF(x))

\* Mutant: a qhat that was too large is not corrected.
Correct_Never(d, v, pu, pv, n, qhat) == [u |-> d.u, qhat |-> qhat]

\* D5: a borrow says that qhat was too large by one.
Correct(d, v, pu, pv, n, qhat) ==
  IF d.borrow THEN [u |-> AddBack(d.u, v, pu, pv, n, 0), qhat |-> qhat - 1]
  ELSE [u |-> d.u, qhat |-> qhat]

\* D7: one digit of the quotient for every j from 0 to m; pq is where digit q[0]
\* goes.
RECURSIVE QuotientDigits(_, _, _, _, _, _, _, _)
QuotientDigits(u, q, v, pu, pv, pq, n, last) ==
  LET qhat == Qhat(u[pu + 1], u[pu + 2], u[pu + 3], v[pv + 2], v[pv + 3])
      c == Correct(MultiplySubtract(u, v, pu, pv, n, qhat, 0), v, pu, pv, n, qhat)
      newq == [q EXCEPT ![pq + 1] = c.qhat % B] IN
  IF pu = last THEN [u |-> c.u, q |-> newq]
  ELSE QuotientDigits(c.u, newq, v, pu + 1, pv, pq + 1, n, last)

\* The remainder is the digits from u[m] on, shifted back.
Remainder(u, m, uo, n, d) ==
  LET at(i) == CASE i <= uo + m \/ i > uo + m + n -> IF i = uo + m THEN 0 ELSE u[i + 1]
                 [] OTHER -> u[i + 1] \div 2^d + LHALF(u[i] * 2^(HALF_BITS - d)) IN
  IF d = 0 THEN Number(u) ELSE Number(<<at(0), at(1), at(2), at(3), at(4)>>)

\* Quotient and remainder; v is not 0 (1 / zero traps).  n digits of v and m + n
\* of u are not leading zeros.
qdivrem(u, v) ==
  LET vo == LeadingZeros(Digits(v))
      uo == LeadingZeros(Digits(u))
      n == 4 - vo
      m == vo - uo
      d == Shift(Digits(v)[vo + 2])
      res == QuotientDigits(shl(Digits(u), uo, m + n, d), Zeros, shl(Digits(v), vo + 1, n - 1, d),
                            uo, vo, 4 - m, n, uo + m) IN
  CASE u < v -> [q |-> 0, r |-> u]
    [] u >= v /\ n = 1 -> ShortDivide(Digits(u), Digits(v)[5])
    [] u >= v /\ n > 1 -> [q |-> Number(res.q), r |-> Remainder(res.u, m, uo, n, d)]

Neg(x) == (LL - x) % LL
Abs(x) == IF Negative(x) THEN Neg(x) ELSE x

udivdi3(x, y) == qdivrem(x, y).q
umoddi3(x, y) == qdivrem(x, y).r
divdi3(x, y) ==
  LET uq == qdivrem(Abs(x), Abs(y)).q IN
  IF Negative(x) # Negative(y) THEN Neg(uq) ELSE uq
moddi3(x, y) ==
  LET ur == qdivrem(Abs(x), Abs(y)).r IN
  IF Negative(x) THEN Neg(ur) ELSE ur

-----------------------------------------------------------------------------
(* muldi3.c *)

\* Mutant: the carry out of the low half of the middle term is forgotten.
AddMiddle_NoCarry(prodh, prodl, mid, neg) ==
  IF neg THEN <<(prodh - HHALF(mid)) % UI, (prodl - LHUP(mid)) % UI>>
  ELSE <<(prodh + HHALF(mid)) % UI, (prodl + LHUP(mid)) % UI>>

\* prod += mid << N, or -= when neg.
AddMiddle(prodh, prodl, mid, neg) ==
  LET l == IF neg THEN (prodl - LHUP(mid)) % UI ELSE (prodl + LHUP(mid)) % UI IN
  IF neg THEN <<(prodh - (HHALF(mid) + If(l > prodl))) % UI, l>>
  ELSE <<(prodh + HHALF(mid) + If(l < prodl)) % UI, l>>

Distance(x, y) == IF x >= y THEN x - y ELSE y - x

\* The product of two ints as a long long, by halves.
lmulq(u, v) ==
  LET u1 == HHALF(u)  u0 == LHALF(u)
      v1 == HHALF(v)  v0 == LHALF(v)
      low == u0 * v0
      high == u1 * v1
      neg == (u1 < u0) # (v0 < v1)
      p == AddMiddle((high + HHALF(high)) % UI, LHUP(high), Distance(u1, u0) * Distance(v0, v1), neg)
      l == (p[2] + LHUP(low)) % UI
      h == p[1] + HHALF(low) + If(l < p[2])
      l2 == (l + low) % UI IN
  IF u1 = 0 /\ v1 = 0 THEN low ELSE uu(h + If(l2 < low), l2)

muldi3(x, y) ==
  LET u1 == H(Abs(x))  u0 == L(Abs(x))
      v1 == H(Abs(y))  v0 == L(Abs(y))
      low == lmulq(u0, v0)
      mid == Distance(u1, u0) * Distance(v0, v1)
      neg == (u1 < u0) # (v0 < v1)
      prod == IF u1 = 0 /\ v1 = 0 THEN low
              ELSE uu(u1 * v1 + (IF neg THEN -mid ELSE mid) + L(low) + H(low), L(low)) IN
  IF Negative(x) # Negative(y) THEN Neg(prod) ELSE prod

-----------------------------------------------------------------------------
(* Operations on the two ints of a long long: adddi3.c and the others *)

adddi3(x, y) ==
  LET l == (L(x) + L(y)) % UI IN uu(H(x) + H(y) + If(l < L(y)), l)

\* Mutant: the borrow is found by comparing with the wrong operand.
subdi3_WrongBorrow(x, y) ==
  LET l == (L(x) - L(y)) % UI IN uu(H(x) - H(y) - If(l > L(y)), l)

subdi3(x, y) ==
  LET l == (L(x) - L(y)) % UI IN uu(H(x) - H(y) - If(l > L(x)), l)

negdi2(x) ==
  LET l == (-L(x)) % UI IN uu(-H(x) - If(l > 0), l)

Compare(h1, h2, l1, l2) ==
  CASE h1 < h2 -> 0 [] h1 > h2 -> 2 [] h1 = h2 /\ l1 < l2 -> 0 [] h1 = h2 /\ l1 > l2 -> 2 [] OTHER -> 1

cmpdi2(x, y) == Compare(Signed(H(x), UI), Signed(H(y), UI), L(x), L(y))
ucmpdi2(x, y) == Compare(H(x), H(y), L(x), L(y))

INT_BITS == 2 * HALF_BITS

\* An int shifted left.
LowBits(x, n) == (x * 2^n) % UI

ashldi3(x, shift) ==
  CASE shift = 0 -> x
    [] shift >= INT_BITS -> uu(L(x) * 2^(shift - INT_BITS), 0)
    [] OTHER -> uu(H(x) * 2^shift + L(x) \div 2^(INT_BITS - shift), L(x) * 2^shift)

lshldi3(x, shift) == ashldi3(x, shift)

lshrdi3(x, shift) ==
  CASE shift = 0 -> x
    [] shift >= INT_BITS -> uu(0, H(x) \div 2^(shift - INT_BITS))
    [] OTHER -> uu(H(x) \div 2^shift, L(x) \div 2^shift + LowBits(H(x), INT_BITS - shift))

\* A signed right shift of the machine fills with the sign.
ashrdi3(x, shift) ==
  LET sh == Signed(H(x), UI) IN
  CASE shift = 0 -> x
    [] shift >= INT_BITS -> uu((sh \div 2^(INT_BITS - 1)) \div 2, sh \div 2^(shift - INT_BITS))
    [] OTHER -> uu(sh \div 2^shift, L(x) \div 2^shift + LowBits(H(x), INT_BITS - shift))

-----------------------------------------------------------------------------
(* Properties, over all pairs of operands *)

LLInit == a \in 0 .. LL - 1 /\ b \in 0 .. LL - 1

\* The quotient of C truncates towards zero.
Truncated(x, y) ==
  LET ax == IF x < 0 THEN -x ELSE x
      ay == IF y < 0 THEN -y ELSE y IN
  IF (x < 0) # (y < 0) THEN -(ax \div ay) ELSE ax \div ay

\* Division and remainder are exact for every pair of operands, signed and
\* unsigned: qhat is never off by more than the one that D5 repairs, no
\* intermediate value overflows an int, and the most negative number divided by
\* -1 wraps (__qdivrem, __udivdi3, __umoddi3, __divdi3, __moddi3).
DivisionIsExact ==
  b # 0 =>
    LET q == Truncated(Signed(a, LL), Signed(b, LL)) IN
    /\ udivdi3(a, b) = a \div b
    /\ umoddi3(a, b) = a % b
    /\ divdi3(a, b) = q % LL
    /\ moddi3(a, b) = (Signed(a, LL) - q * Signed(b, LL)) % LL

\* The product, put together from half-size products of which the middle one
\* may be negative, is the product modulo the size (__muldi3, __lmulq).
ProductIsExact == muldi3(a, b) = (a * b) % LL

\* Carries and borrows between the halves, the sign in comparisons, and shifts
\* by less and by more than an int are those of whole long longs.
HalvesAgree ==
  /\ adddi3(a, b) = (a + b) % LL
  /\ subdi3(a, b) = (a - b) % LL
  /\ negdi2(a) = (-a) % LL
  /\ ucmpdi2(a, b) = CASE a < b -> 0 [] a = b -> 1 [] OTHER -> 2
  /\ cmpdi2(a, b) = LET x == Signed(a, LL) y == Signed(b, LL) IN CASE x < y -> 0 [] x = y -> 1 [] OTHER -> 2
  /\ b < 2 * INT_BITS =>
       /\ ashldi3(a, b) = (a * 2^b) % LL /\ lshldi3(a, b) = (a * 2^b) % LL
       /\ lshrdi3(a, b) = a \div 2^b
       /\ ashrdi3(a, b) = (Signed(a, LL) \div 2^b) % LL
=============================================================================
