------------------------------- MODULE Bitmap -------------------------------
(***************************************************************************)
(* Bitmaps (lib/bitmap.c), on which the swap slots and the SFS free map    *)
(* are kept: an array of words, whose last one may be longer than the      *)
(* bitmap.  A word is the set of its bits that are 1.                      *)
(***************************************************************************)
EXTENDS Integers, FiniteSets, FiniteSetsExt

CONSTANTS BITS_PER_WORD,
          Sizes         \* the sizes bitmaps are created with

VARIABLES nbits, v,
          marked,       \* history: the indexes callers have been given
          bmret         \* what the last call returned: an index, "ok", ENOSPC,
                        \* or a failed KASSERT

bmvars == <<nbits, v, marked, bmret>>

Offsets == 0 .. BITS_PER_WORD - 1
WORD_ALLBITS == Offsets
Words(n) == (n + BITS_PER_WORD - 1) \div BITS_PER_WORD

ix(index) == index \div BITS_PER_WORD
offset(index) == index % BITS_PER_WORD
bitmap_isset(index) == offset(index) \in v[ix(index)]

(* The bits of the last word past the end are marked in use.               *)
Leftover_None(n, w) == {}

Leftover(n, w) ==
  IF w = Words(n) - 1 /\ Words(n) > n \div BITS_PER_WORD
    THEN {j \in Offsets : j >= n - w * BITS_PER_WORD}
    ELSE {}

bitmap_create ==
  /\ nbits \in Sizes
  /\ v = [w \in 0 .. Words(nbits) - 1 |-> Leftover(nbits, w)]
  /\ marked = {} /\ bmret = "ok"

Asserts(cond, ret) == IF cond THEN ret ELSE "assert"

bitmap_alloc ==
  LET room == {w \in DOMAIN v : v[w] # WORD_ALLBITS}
      w == Min(room)
      off == Min(Offsets \ v[w])
      index == w * BITS_PER_WORD + off
  IN
  IF room = {} THEN bmret' = "ENOSPC" /\ UNCHANGED <<nbits, v, marked>>
  ELSE /\ v' = [v EXCEPT ![w] = @ \cup {off}]
       /\ marked' = marked \cup {index}
       /\ bmret' = Asserts(index < nbits, "ok")
       /\ UNCHANGED nbits

(* Callers mark an index that is free and unmark one they were given.      *)
bitmap_mark ==
  \E index \in 0 .. nbits - 1 :
    /\ index \notin marked
    /\ bmret' = Asserts(~bitmap_isset(index), "ok")
    /\ v' = [v EXCEPT ![ix(index)] = @ \cup {offset(index)}]
    /\ marked' = marked \cup {index}
    /\ UNCHANGED nbits

bitmap_unmark_Word ==
  \E index \in marked :
    /\ bmret' = Asserts(bitmap_isset(index), "ok")
    /\ v' = [v EXCEPT ![ix(index)] = {}]
    /\ marked' = marked \ {index}
    /\ UNCHANGED nbits

bitmap_unmark ==
  \E index \in marked :
    /\ bmret' = Asserts(bitmap_isset(index), "ok")
    /\ v' = [v EXCEPT ![ix(index)] = @ \ {offset(index)}]
    /\ marked' = marked \ {index}
    /\ UNCHANGED nbits

BitmapNext == bmret # "assert" /\ (bitmap_alloc \/ bitmap_mark \/ bitmap_unmark)

BitmapSpec == bitmap_create /\ [][BitmapNext]_bmvars

-----------------------------------------------------------------------------
(* The bits that are 1 within the bitmap are exactly the indexes callers   *)
(* hold, and no KASSERT of bitmap.c fails: no index is given out twice.    *)
BitsAreMarks ==
  /\ {i \in 0 .. nbits - 1 : bitmap_isset(i)} = marked
  /\ bmret # "assert"

(* bitmap_alloc never gives out an index past the end, fails only when     *)
(* every index is in use, and otherwise gives the lowest free one.         *)
AllocIsFirstFree ==
  [][bitmap_alloc =>
       IF marked = 0 .. nbits - 1 THEN bmret' = "ENOSPC"
       ELSE marked' = marked \cup {Min((0 .. nbits - 1) \ marked)}]_bmvars
=============================================================================
