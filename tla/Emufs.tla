------------------------------- MODULE Emufs -------------------------------
(***************************************************************************)
(* The file-system half of the emulator file system, kern/dev/lamebus/     *)
(* emu.c: its vnode table over the handles of the device.  How the device  *)
(* is driven is in module Emu; here a device operation is one step.        *)
(*                                                                         *)
(* The state is one record:                                                *)
(*   open   external: what every handle of the device refers to, or NULL   *)
(*   exist  external: the files there are                                  *)
(*   vn     ef_vnodes: reference counts, by handle; 0 is no vnode          *)
(*   fail   how many more device operations may fail for good              *)
(*   leaked has vfs_biglock been left acquired for good?                   *)
(***************************************************************************)
EXTENDS Integers, FiniteSets, FiniteSetsExt, Outcomes

CONSTANTS
  MaxHandles,   \* handles the device has
  MaxEmuFail    \* bound: device operations that fail

EMU_ROOTHANDLE == 0
Handles == 0 .. MaxHandles - 1
RootDir == "root"

\* emufs_addtovfs loads the root directory and keeps the reference.
emufs_addtovfs(exist) ==
  [open |-> [h \in Handles |-> IF h = EMU_ROOTHANDLE THEN RootDir ELSE NULL], exist |-> exist,
   vn |-> [h \in Handles |-> IF h = EMU_ROOTHANDLE THEN 1 ELSE 0], fail |-> MaxEmuFail, leaked |-> FALSE]

-----------------------------------------------------------------------------
(* External: the device.  Every open gives a new handle.                     *)

MediaError(s) == IF s.fail > 0 THEN Fails([s EXCEPT !.fail = @ - 1], "EIO") ELSE {}

DeviceOpen(s, name, create, excl) ==
  LET free == {h \in Handles : s.open[h] = NULL}
      new == Min(free) IN
  MediaError(s) \cup
  CASE name \in s.exist /\ excl -> Fails(s, "EEXIST")
    [] name \notin s.exist /\ ~create -> Fails(s, "ENOENT")
    [] free = {} /\ ~(name \in s.exist /\ excl) /\ (name \in s.exist \/ create) -> Fails(s, "ENFILE")
    [] OTHER -> Succeeds([s EXCEPT !.exist = @ \cup {name}, !.open[new] = name], new)

DeviceClose(s, h) ==
  MediaError(s) \cup
  Succeeds([s EXCEPT !.open[h] = NULL], NULL)

\* emu_getsize, emu_trunc, emu_read, emu_write: the file's contents are not
\* modelled.
DeviceIo(s) == MediaError(s) \cup Succeeds(s, NULL)

-----------------------------------------------------------------------------
(* vnodes *)

\* Find the vnode of a handle or make one.  With no memory for the vnode the
\* big lock is not released; with none for the table it is.
emufs_loadvnode(s, h) ==
  IF s.vn[h] > 0 THEN Succeeds([s EXCEPT !.vn[h] = @ + 1], h)
  ELSE Succeeds([s EXCEPT !.vn[h] = 1], h)
       \cup Fails(s, "ENOMEM")
       \cup Fails([s EXCEPT !.leaked = TRUE], "ENOMEM")

\* Mutant: the handle is not closed when there is no memory for the vnode.
OpenAndLoad_Leak(s, name, create, excl) ==
  Then(DeviceOpen(s, name, create, excl), LAMBDA o : emufs_loadvnode(o.s, o.v))

\* emufs_creat and emufs_lookup
OpenAndLoad(s, name, create, excl) ==
  Then(DeviceOpen(s, name, create, excl),
       LAMBDA o : OnError(emufs_loadvnode(o.s, o.v), LAMBDA e : DeviceClose(e.s, o.v)))

emufs_creat(s, name, excl) == OpenAndLoad(s, name, TRUE, excl)

emufs_lookup(s, name) == OpenAndLoad(s, name, FALSE, FALSE)

\* The last reference is gone: close the handle, drop the vnode.  When the
\* close fails the vnode stays.
emufs_reclaim(s, h) ==
  Then(DeviceClose(s, h),
       LAMBDA o : Succeeds([o.s EXCEPT !.vn[h] = 0], NULL))

EmuDecref(s, h) ==
  IF s.vn[h] > 1 THEN Succeeds([s EXCEPT !.vn[h] = @ - 1], NULL) ELSE emufs_reclaim(s, h)

emufs_getroot(s) == Succeeds([s EXCEPT !.vn[EMU_ROOTHANDLE] = @ + 1], EMU_ROOTHANDLE)
=============================================================================
