------------------------------- MODULE Semfs -------------------------------
(***************************************************************************)
(* The semaphore file system, kern/fs/semfs: a table of semaphores, one    *)
(* directory of names for them, and vnodes that come and go.  The locks    *)
(* are the sleep locks of synch.c, which do nothing in this kernel; an     *)
(* operation is one step (see Files).                                      *)
(*                                                                         *)
(* The state is one record:                                                *)
(*   sems   semfs_sems: the semaphore of every slot, NoSem if empty        *)
(*   dents  semfs_dents: the name and semaphore of every slot, or NoDent   *)
(*   vn     semfs_vnodes: reference counts, by semaphore number; 0 is no   *)
(*          vnode                                                          *)
(*   panic  has an assertion been reached?                                 *)
(* An array that has grown keeps its empty slots and reuses the lowest     *)
(* one, so a slot past its end is like an empty one.                       *)
(***************************************************************************)
EXTENDS Integers, FiniteSets, FiniteSetsExt, Outcomes

CONSTANTS
  MaxSems,       \* bound: slots of the two arrays
  MaxSemCount    \* the largest unsigned value, (unsigned)-1

SEMFS_ROOTDIR == MaxSems    \* a number no semaphore has
SemSlots == 0 .. MaxSems - 1
NoSem == [count |-> -1, hasvnode |-> FALSE, linked |-> FALSE]
NoDent == [name |-> "", semnum |-> -1]

\* semfs_create
semfs_create ==
  [sems |-> [i \in SemSlots |-> NoSem], dents |-> [i \in SemSlots |-> NoDent],
   vn |-> [i \in 0 .. MaxSems |-> 0], panic |-> FALSE]

FreeSemSlots(a, none) == {i \in SemSlots : a[i] = none}

SemPanic(s) == Fails([s EXCEPT !.panic = TRUE], "panic")

-----------------------------------------------------------------------------
(* vnode lifecycle *)

\* Find the vnode in the table, or make it.
semfs_getvnode(s, n) ==
  IF s.vn[n] > 0 THEN Succeeds([s EXCEPT !.vn[n] = @ + 1], n)
  ELSE LET made == [s EXCEPT !.vn[n] = 1] IN
       Fails(s, "ENOMEM") \cup
       IF n = SEMFS_ROOTDIR THEN Succeeds(made, n)
       ELSE IF s.sems[n] = NoSem \/ s.sems[n].hasvnode THEN SemPanic(made)
       ELSE Succeeds([made EXCEPT !.sems[n].hasvnode = TRUE], n)

\* The last reference is gone; a semaphore no name refers to goes with it.
semfs_reclaim(s, n) ==
  LET gone == [s EXCEPT !.vn[n] = 0] IN
  IF n = SEMFS_ROOTDIR THEN Succeeds(gone, NULL)
  ELSE IF ~s.sems[n].hasvnode THEN SemPanic(gone)
  ELSE Succeeds([gone EXCEPT !.sems[n] = IF @.linked THEN [@ EXCEPT !.hasvnode = FALSE] ELSE NoSem], NULL)

SemDecref(s, n) ==
  IF s.vn[n] > 1 THEN Succeeds([s EXCEPT !.vn[n] = @ - 1], NULL) ELSE semfs_reclaim(s, n)

semfs_getroot(s) == semfs_getvnode(s, SEMFS_ROOTDIR)

-----------------------------------------------------------------------------
(* directory operations *)

DentsOf(s, name) == {i \in SemSlots : s.dents[i].name = name}

semfs_lookup(s, name) ==
  IF DentsOf(s, name) = {} THEN Fails(s, "ENOENT")
  ELSE semfs_getvnode(s, s.dents[Min(DentsOf(s, name))].semnum)

\* The part of semfs_creat that makes a semaphore.  Out of memory for the
\* semaphore, its place in the table, the directory entry, its place in the
\* directory, and the vnode are undone in turn.  When there is no memory for
\* the entry, result is still 0 from semfs_sem_insert, and that is what is
\* returned, without a vnode.
MakeSem(s, name) ==
  LET n == Min(FreeSemSlots(s.sems, NoSem))
      d == Min(FreeSemSlots(s.dents, NoDent))
      sem == [count |-> 0, hasvnode |-> FALSE, linked |-> FALSE]
      inserted == [s EXCEPT !.sems[n] = sem, !.dents[d] = [name |-> name, semnum |-> n]]
      undo(x) == [x EXCEPT !.sems[n] = NoSem, !.dents[d] = NoDent] IN
  Fails(s, "ENOMEM") \cup
  Succeeds(s, NULL) \cup
  Then(OnError(semfs_getvnode(inserted, n), LAMBDA o : Succeeds(undo(o.s), NULL)),
       LAMBDA o : Succeeds([o.s EXCEPT !.sems[n].linked = TRUE], n))

semfs_creat(s, name, excl) ==
  CASE DentsOf(s, name) # {} /\ excl -> Fails(s, "EEXIST")
    [] DentsOf(s, name) # {} /\ ~excl ->
         semfs_getvnode(s, s.dents[Min(DentsOf(s, name))].semnum)
    [] DentsOf(s, name) = {} /\ FreeSemSlots(s.sems, NoSem) # {} -> MakeSem(s, name)
    [] OTHER -> Fails(s, "ENOMEM")    \* the bound MaxSems

\* Mutant: an open semaphore is destroyed with its name.
semfs_remove_Destroy(s, name) ==
  IF DentsOf(s, name) = {} THEN Fails(s, "ENOENT")
  ELSE LET i == Min(DentsOf(s, name))
           n == s.dents[i].semnum IN
       Succeeds([s EXCEPT !.dents[i] = NoDent, !.sems[n] = NoSem], NULL)

\* Unlink: the semaphore goes too, unless it is open.
semfs_remove(s, name) ==
  IF DentsOf(s, name) = {} THEN Fails(s, "ENOENT")
  ELSE LET i == Min(DentsOf(s, name))
           n == s.dents[i].semnum IN
       IF ~s.sems[n].linked THEN SemPanic(s)
       ELSE Succeeds([s EXCEPT !.dents[i] = NoDent,
                               !.sems[n] = IF @.hasvnode THEN [@ EXCEPT !.linked = FALSE] ELSE NoSem], NULL)

-----------------------------------------------------------------------------
(* semaphore operations.  cv_wait returns at once in this kernel, so a       *)
(* reader that is short goes round its loop, holding what it has taken.      *)

\* One round of the loop of semfs_read; the value is what is still missing.
semfs_read(s, n, resid) ==
  LET consume == Min({resid, s.sems[n].count}) IN
  Succeeds([s EXCEPT !.sems[n].count = @ - consume], resid - consume)

\* Overflow of the unsigned count is refused.
semfs_write(s, n, len) ==
  LET newcount == (s.sems[n].count + len) % (MaxSemCount + 1) IN
  IF newcount < s.sems[n].count THEN Fails(s, "EFBIG")
  ELSE Succeeds([s EXCEPT !.sems[n].count = newcount], NULL)

semfs_truncate(s, n, len) ==
  IF len > MaxSemCount THEN Fails(s, "EFBIG")
  ELSE Succeeds([s EXCEPT !.sems[n].count = len], NULL)
=============================================================================
