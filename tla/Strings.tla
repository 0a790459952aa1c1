------------------------------- MODULE Strings -------------------------------
(***************************************************************************)
(* The memory and string functions the kernel is built on                  *)
(* (common/libc/string, common/libc/stdlib/atoi.c), for every small input. *)
(*                                                                         *)
(* Memory is a function from addresses to bytes; a copy is the sequence of *)
(* its stores, a word or a byte at a time, in the order of the loop.  A    *)
(* string is a sequence of characters; its terminator is its end.          *)
(***************************************************************************)
EXTENDS Integers, Sequences, SequencesExt, FiniteSets, FiniteSetsExt

CONSTANTS MEMSIZE, WORD,        \* bytes of memory, sizeof(long)
          UNSIGNED_BITS,        \* bits of an unsigned
          MaxString             \* bound: length of a string

VARIABLES dst, src, len, str

Memory == 0 .. MEMSIZE - 1
Alphabet == {" ", "-", "+", "1", "9", "x"}

StrInit ==
  \/ /\ dst \in Memory /\ src \in Memory
     /\ len \in 0 .. MEMSIZE - (IF dst > src THEN dst ELSE src)
     /\ str = << >>
  \/ /\ dst = 0 /\ src = 0 /\ len = 0
     /\ str \in UNION {[1..k -> Alphabet] : k \in 1..MaxString}

StrSpec == StrInit /\ [][FALSE]_<<dst, src, len, str>>

-----------------------------------------------------------------------------
(* Blocks of memory.                                                       *)

Unit(d, s, n) ==
  IF d % WORD = 0 /\ s % WORD = 0 /\ n % WORD = 0 THEN WORD ELSE 1

\* One store: unit i of the block, of u bytes.
Store(m, d, s, i, u) ==
  [a \in Memory |-> IF a \in d + i * u .. d + i * u + u - 1
                      THEN m[a - d + s] ELSE m[a]]

Indexes(n) == [k \in 1..n |-> k - 1]

memcpy(m, d, s, n) ==
  LET u == Unit(d, s, n) IN
  FoldLeft(LAMBDA acc, i : Store(acc, d, s, i, u), m, Indexes(n \div u))

memmove_Forward(m, d, s, n) == memcpy(m, d, s, n)

memmove(m, d, s, n) ==
  LET u == Unit(d, s, n) IN
  IF d < s THEN memcpy(m, d, s, n)
  ELSE FoldLeft(LAMBDA acc, i : Store(acc, d, s, i, u), m,
                Reverse(Indexes(n \div u)))

-----------------------------------------------------------------------------
(* Strings.                                                                *)

(* strchr(seps, c), for the separators of a command line.                  *)
Separator(c) == c = " "

(* One call of strtok_r on what is left of the string: where the word      *)
(* begins and ends, and where the next call goes on; 0 is NULL.            *)
strtok_r_SkipTwo(s, context) ==
  LET heads == {i \in context .. Len(s) : ~Separator(s[i])}
      head == Min(heads)
      tails == {i \in head .. Len(s) : Separator(s[i])}
  IN
  IF context = 0 \/ heads = {} THEN [word |-> << >>, context |-> 0]
  ELSE IF tails = {} THEN [word |-> <<head, Len(s)>>, context |-> 0]
  ELSE [word |-> <<head, Min(tails) - 1>>, context |-> Min(tails) + 2]

strtok_r(s, context) ==
  LET heads == {i \in context .. Len(s) : ~Separator(s[i])}
      head == Min(heads)
      tails == {i \in head .. Len(s) : Separator(s[i])}
  IN
  IF context = 0 \/ heads = {} THEN [word |-> << >>, context |-> 0]
  ELSE IF tails = {} THEN [word |-> <<head, Len(s)>>, context |-> 0]
  ELSE [word |-> <<head, Min(tails) - 1>>, context |-> Min(tails) + 1]

\* The loop of cmd_dispatch: words until strtok_r gives none.
RECURSIVE Words(_, _)
Words(s, context) ==
  LET r == strtok_r(s, context) IN
  IF r.word = << >> THEN << >> ELSE <<r.word>> \o Words(s, r.context)

(* atoi: blanks, a sign, digits; the value wraps in an unsigned.           *)
Digit(c) == c \in {"1", "9"}
Value(c) == IF c = "1" THEN 1 ELSE 9
After(s, n) == SubSeq(s, n + 1, Len(s))

atoi_NoSign(s) ==
  LET blanks == Min({Len(s) + 1} \cup {i \in DOMAIN s : s[i] # " "}) - 1
      rest == After(s, blanks)
      ndigits == Min({Len(rest) + 1} \cup {i \in DOMAIN rest : ~Digit(rest[i])}) - 1
  IN  FoldLeft(LAMBDA acc, c : (acc * 10 + Value(c)) % 2^UNSIGNED_BITS, 0,
               SubSeq(rest, 1, ndigits))

atoi(s) ==
  LET blanks == Min({Len(s) + 1} \cup {i \in DOMAIN s : s[i] # " "}) - 1
      signed == After(s, blanks)
      sign == signed # << >> /\ signed[1] \in {"-", "+"}
      rest == IF sign THEN Tail(signed) ELSE signed
      ndigits == Min({Len(rest) + 1} \cup {i \in DOMAIN rest : ~Digit(rest[i])}) - 1
      val == FoldLeft(LAMBDA acc, c : (acc * 10 + Value(c)) % 2^UNSIGNED_BITS, 0,
                      SubSeq(rest, 1, ndigits))
      ret == IF sign /\ signed[1] = "-" THEN (-val) % 2^UNSIGNED_BITS ELSE val
  IN  IF ret >= 2^(UNSIGNED_BITS - 1) THEN ret - 2^UNSIGNED_BITS ELSE ret

-----------------------------------------------------------------------------
(* memmove leaves in the destination what the source held before, whatever *)
(* the overlap, and nothing else changes; so does memcpy when the blocks   *)
(* do not overlap, or the destination is below the source, which is what   *)
(* memmove relies on.                                                      *)
MemmoveIsCopy ==
  LET before == [a \in Memory |-> a]
      wanted == [a \in Memory |-> IF a \in dst .. dst + len - 1 THEN a - dst + src
                                  ELSE a]
  IN  /\ memmove(before, dst, src, len) = wanted
      /\ dst + len <= src \/ src + len <= dst \/ dst < src =>
           memcpy(before, dst, src, len) = wanted

(* The words strtok_r gives, call after call, are all the maximal runs of  *)
(* characters that are not separators, in order, each once.                *)
TokensAreWords ==
  LET words == Words(str, 1)
      sep(i) == i \in {0, Len(str) + 1} \/ Separator(str[i])
      runs == {<<i, j>> \in (DOMAIN str) \X (DOMAIN str) :
                 i <= j /\ sep(i - 1) /\ sep(j + 1) /\ \A k \in i..j : ~sep(k)}
  IN  /\ {words[k] : k \in DOMAIN words} = runs
      /\ \A k \in 1 .. Len(words) - 1 : words[k][2] < words[k + 1][1]

(* The numbers a string spells: blanks, one sign, digits.                  *)
Spelled(s) ==
  {[neg |-> i < j /\ s[j] = "-", digits |-> SubSeq(s, j + 1, k)] :
     <<i, j, k>> \in {t \in (0 .. Len(s)) \X (0 .. Len(s)) \X (0 .. Len(s)) :
       /\ t[1] <= t[2] /\ t[2] <= t[3] /\ t[2] <= t[1] + 1
       /\ \A x \in 1 .. t[1] : s[x] = " "
       /\ t[1] < t[2] => s[t[2]] \in {"-", "+"}
       /\ \A x \in t[2] + 1 .. t[3] : Digit(s[x])
       /\ t[3] = Len(s) \/ ~Digit(s[t[3] + 1])
       /\ t[2] = t[1] => t[3] > t[2]}}

(* atoi gives the number a string spells, if an int can hold it: leading   *)
(* blanks, one sign, digits, then anything.                                *)
AtoiReadsNumber ==
  \A w \in Spelled(str) :
    LET n == FoldLeft(LAMBDA acc, c : acc * 10 + Value(c), 0, w.digits) IN
    n < 2^(UNSIGNED_BITS - 1) => atoi(str) = IF w.neg THEN -n ELSE n

=============================================================================
