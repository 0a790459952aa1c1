-------------------------------- MODULE Array --------------------------------
(***************************************************************************)
(* Growable arrays (lib/array.c, include/array.h): the tables of vnodes,   *)
(* mounts, CPUs and semaphores.  The storage past num is not initialised:  *)
(* its slots hold Junk, and so do the ones array_setsize exposes.          *)
(***************************************************************************)
EXTENDS Integers, Sequences, SequencesExt

CONSTANTS Values, Junk,
          MaxNum        \* bound: elements in the array

VARIABLES num, max, slots,
          list,         \* history: what a list would hold
          arret         \* what the last call returned, or a failed assertion

arvars == <<num, max, slots, list, arret>>

array_init ==
  /\ num = 0 /\ max = 0 /\ slots = << >>
  /\ list = << >> /\ arret = "ok"

(* The size array_preallocate grows to: 4, then doubled until it suffices. *)
NewMax(n) ==
  LET first == IF max = 0 THEN 4 ELSE max IN
  IF n <= max THEN max ELSE Min({m \in {first * 2^k : k \in 0..n} : m >= n})

Grown_NoCopy(n) == [i \in 1 .. NewMax(n) |-> Junk]

(* The block after array_preallocate: the first num slots are copied.      *)
Grown(n) ==
  IF n <= max THEN slots
  ELSE [i \in 1 .. NewMax(n) |-> IF i <= num THEN slots[i] ELSE Junk]

\* No memory: the array is as it was.
NoMemory(n) ==
  /\ n > max /\ arret' = "ENOMEM"
  /\ UNCHANGED <<num, max, slots, list>>

array_setsize ==
  \E n \in 0..MaxNum :
    \/ NoMemory(n)
    \/ /\ slots' = Grown(n) /\ max' = NewMax(n) /\ num' = n
       /\ list' = [i \in 1..n |-> IF i <= num THEN list[i] ELSE slots'[i]]
       /\ arret' = "ok"

array_add ==
  /\ num < MaxNum
  /\ \/ NoMemory(num + 1)
     \/ \E val \in Values :
          /\ slots' = [Grown(num + 1) EXCEPT ![num + 1] = val]
          /\ max' = NewMax(num + 1) /\ num' = num + 1
          /\ list' = Append(list, val) /\ arret' = "ok"

array_set ==
  \E i \in 1..num, val \in Values :
    /\ slots' = [slots EXCEPT ![i] = val]
    /\ list' = [list EXCEPT ![i] = val]
    /\ arret' = "ok" /\ UNCHANGED <<num, max>>

(* memmove of the elements after i down by one; the last stays behind.     *)
Moved(i) ==
  [j \in 1..max |-> IF j >= i /\ j < num THEN slots[j + 1] ELSE slots[j]]

array_remove ==
  \E i \in 1..num :
    /\ slots' = Moved(i) /\ num' = num - 1
    /\ list' = RemoveAt(list, i)
    /\ arret' = IF num > max THEN "assert" ELSE "ok"
    /\ UNCHANGED max

ArrayNext == array_setsize \/ array_add \/ array_set \/ array_remove

ArraySpec == array_init /\ [][ArrayNext]_arvars

-----------------------------------------------------------------------------
(* The array is the list its callers built, through every growth, removal  *)
(* and failed allocation; it never has more elements than slots.           *)
ArrayIsList ==
  /\ num <= max /\ Len(slots) = max
  /\ SubSeq(slots, 1, num) = list
  /\ arret # "assert"

=============================================================================
