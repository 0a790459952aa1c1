----------------------------- MODULE Threadlist -----------------------------
(***************************************************************************)
(* Thread lists (thread/threadlist.c): the run queues, the zombie lists    *)
(* and the wait channels.  Two lists share the threads; a thread's one     *)
(* list node moves between them.  Each list is doubly linked between a     *)
(* head and a tail node of its own.                                        *)
(***************************************************************************)
EXTENDS Integers, Sequences, SequencesExt, FiniteSets

CONSTANTS Threads, Lists, NULL

VARIABLES next, prev,   \* tln_next and tln_prev of every node
          tl_count,
          order         \* history: the threads on every list, in order

tlvars == <<next, prev, tl_count, order>>

Head_(l) == <<l, "head">>
Tail_(l) == <<l, "tail">>
Node(t) == <<t, "thread">>
Nodes == {Node(t) : t \in Threads} \cup {Head_(l) : l \in Lists}
         \cup {Tail_(l) : l \in Lists}
Self(n) == n[1]

(* threadlistnode_init and threadlist_init.                                *)
TlInit ==
  /\ next = [n \in Nodes |-> IF n[2] = "head" THEN Tail_(n[1]) ELSE NULL]
  /\ prev = [n \in Nodes |-> IF n[2] = "tail" THEN Head_(n[1]) ELSE NULL]
  /\ tl_count = [l \in Lists |-> 0]
  /\ order = [l \in Lists |-> << >>]

OnList(t, l) == Contains(order[l], t)
OffList(t) == \A l \in Lists : ~OnList(t, l)

InsertBetween_OneWay(before, after, n) ==
  /\ prev' = [prev EXCEPT ![n] = before]
  /\ next' = [next EXCEPT ![n] = after, ![before] = n]

InsertBetween(before, after, n) ==
  /\ prev' = [prev EXCEPT ![n] = before, ![after] = n]
  /\ next' = [next EXCEPT ![n] = after, ![before] = n]

threadlist_insertafternode(onlist, t) ==
  InsertBetween(onlist, next[onlist], Node(t))

threadlist_insertbeforenode(t, onlist) ==
  InsertBetween(prev[onlist], onlist, Node(t))

threadlist_removenode(n) ==
  /\ next' = [next EXCEPT ![prev[n]] = next[n], ![n] = NULL]
  /\ prev' = [prev EXCEPT ![next[n]] = prev[n], ![n] = NULL]

Counted(l, d) == tl_count' = [tl_count EXCEPT ![l] = @ + d]

threadlist_addhead(l, t) ==
  /\ OffList(t)
  /\ threadlist_insertafternode(Head_(l), t) /\ Counted(l, 1)
  /\ order' = [order EXCEPT ![l] = <<t>> \o @]

threadlist_addtail(l, t) ==
  /\ OffList(t)
  /\ threadlist_insertbeforenode(t, Tail_(l)) /\ Counted(l, 1)
  /\ order' = [order EXCEPT ![l] = Append(@, t)]

Place(l, t) == CHOOSE i \in DOMAIN order[l] : order[l][i] = t

threadlist_insertafter(l, onlist, t) ==
  /\ OffList(t) /\ OnList(onlist, l)
  /\ threadlist_insertafternode(Node(onlist), t) /\ Counted(l, 1)
  /\ order' = [order EXCEPT ![l] = InsertAt(@, Place(l, onlist) + 1, t)]

threadlist_insertbefore(l, onlist, t) ==
  /\ OffList(t) /\ OnList(onlist, l)
  /\ threadlist_insertbeforenode(t, Node(onlist)) /\ Counted(l, 1)
  /\ order' = [order EXCEPT ![l] = InsertAt(@, Place(l, onlist), t)]

(* An empty list gives NULL and is left alone.                             *)
threadlist_remhead(l) ==
  LET n == next[Head_(l)] IN
  /\ next[n] # NULL
  /\ threadlist_removenode(n) /\ Counted(l, -1)
  /\ order' = [order EXCEPT ![l] = Tail(@)]

threadlist_remtail(l) ==
  LET n == prev[Tail_(l)] IN
  /\ prev[n] # NULL
  /\ threadlist_removenode(n) /\ Counted(l, -1)
  /\ order' = [order EXCEPT ![l] = Front(@)]

threadlist_remove(l, t) ==
  /\ OnList(t, l)
  /\ threadlist_removenode(Node(t)) /\ Counted(l, -1)
  /\ order' = [order EXCEPT ![l] = Remove(@, t)]

TlNext ==
  \E l \in Lists :
    \/ threadlist_remhead(l) \/ threadlist_remtail(l)
    \/ \E t \in Threads :
         \/ threadlist_addhead(l, t) \/ threadlist_addtail(l, t)
         \/ threadlist_remove(l, t)
         \/ \E o \in Threads : \/ threadlist_insertafter(l, o, t)
                               \/ threadlist_insertbefore(l, o, t)

TlSpec == TlInit /\ [][TlNext]_tlvars

-----------------------------------------------------------------------------
(* The nodes of a list in the order of the calls, its ends included.       *)
Walk(l) == <<Head_(l)>> \o [i \in DOMAIN order[l] |-> Node(order[l][i])]
             \o <<Tail_(l)>>

(* Every list, walked from either end, is the sequence of the calls made   *)
(* on it: no thread is lost, duplicated or on two lists.  tl_count is its  *)
(* length, and a thread on no list has no links left (what                 *)
(* threadlistnode_cleanup asserts when the thread is destroyed).           *)
ListsAreLinked ==
  /\ \A l \in Lists :
       LET w == Walk(l) IN
       /\ \A i \in 1 .. Len(w) - 1 : next[w[i]] = w[i + 1] /\ prev[w[i + 1]] = w[i]
       /\ next[Tail_(l)] = NULL /\ prev[Head_(l)] = NULL
       /\ tl_count[l] = Len(order[l])
  /\ \A t \in Threads : OffList(t) => next[Node(t)] = NULL /\ prev[Node(t)] = NULL
=============================================================================
