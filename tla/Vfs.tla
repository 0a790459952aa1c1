-------------------------------- MODULE Vfs --------------------------------
(***************************************************************************)
(* The VFS layer, kern/vfs: the table of known devices and what is mounted *)
(* on them (vfslist.c), path lookup (vfslookup.c), operations on paths     *)
(* (vfspath.c), the current directory (vfscwd.c), device vnodes            *)
(* (device.c), and the dispatch of vnode and file-system operations to     *)
(* Sfs, Semfs, Emufs and devices (the ops tables and vfsfail.c).           *)
(*                                                                         *)
(* The state is one record S:                                              *)
(*   sfs, sem, emu  the file systems                                       *)
(*   dev            reference counts of the device vnodes                  *)
(*   kd             knowndevs: name, raw (mountable?), fs                  *)
(*   cwd, bootfs    p_cwd of the one process, bootfs_vnode                 *)
(*   panic          the function whose assertion has failed, "" if none    *)
(* A vnode is <<fs, number>>, a device vnode <<"dev", name>>.  A path is   *)
(* the place it starts from (a device or volume name, "/", ":" or "") and  *)
(* the rest; a name has no directory part.                                 *)
(***************************************************************************)
EXTENDS Sfs, Semfs, Emufs

SWAP_FS == "swap"
NoFs == "none"
NoVnode == <<>>

VfsPanic(S, where) == Fails([S EXCEPT !.panic = where], "panic")

OnSfs(S, outs) == {[o EXCEPT !.s = [S EXCEPT !.sfs = o.s]] : o \in outs}
OnSem(S, outs) == {[o EXCEPT !.s = [S EXCEPT !.sem = o.s]] : o \in outs}
OnEmu(S, outs) == {[o EXCEPT !.s = [S EXCEPT !.emu = o.s]] : o \in outs}

\* What a file system hands back, as a vnode.
AsVnode(fs, outs) ==
  {IF o.r # "0" THEN o ELSE [o EXCEPT !.v = IF @ = NULL THEN NoVnode ELSE <<fs, @>>] : o \in outs}

-----------------------------------------------------------------------------
(* vnode.c and the vnode operations *)

vn_fs(v) == IF v[1] = "dev" THEN NoFs ELSE v[1]

VOP_GETTYPE(S, v) ==
  CASE v[1] = "sfs" -> S.sfs.vn[v[2]].i.type
    [] v[1] = "sem" -> IF v[2] = SEMFS_ROOTDIR THEN "dir" ELSE "file"
    [] v[1] = "emu" -> IF S.emu.open[v[2]] = RootDir THEN "dir" ELSE "file"
    [] v[1] = "dev" -> "device"

IsDir(S, v) == VOP_GETTYPE(S, v) = "dir"

VOP_INCREF(S, v) ==
  CASE v[1] = "sfs" -> [S EXCEPT !.sfs = vnode_incref(@, v[2])]
    [] v[1] = "sem" -> [S EXCEPT !.sem.vn[v[2]] = @ + 1]
    [] v[1] = "emu" -> [S EXCEPT !.emu.vn[v[2]] = @ + 1]
    [] v[1] = "dev" -> [S EXCEPT !.dev[v[2]] = @ + 1]

\* A device vnode is permanent: dev_reclaim leaves it its last reference.
DevDecref(S, name) == Succeeds(IF S.dev[name] > 1 THEN [S EXCEPT !.dev[name] = @ - 1] ELSE S, NULL)

\* The result of VOP_RECLAIM goes no further than a warning.
VOP_DECREF(S, v) ==
  Ignore(CASE v[1] = "sfs" -> OnSfs(S, vnode_decref(S.sfs, v[2]))
           [] v[1] = "sem" -> OnSem(S, SemDecref(S.sem, v[2]))
           [] v[1] = "emu" -> OnEmu(S, EmuDecref(S.emu, v[2]))
           [] v[1] = "dev" -> DevDecref(S, v[2]))

\* Let go of v and pass o's result and value on.
Release(o, v) == Keeping(o, VOP_DECREF(o.s, v))

\* Directories are opened for reading only, devices with no flags.
VOP_EACHOPEN(S, v, flags) ==
  CASE v[1] = "dev" /\ flags \cap {"creat", "excl", "trunc", "append"} # {} -> Fails(S, "EINVAL")
    [] v[1] # "dev" /\ IsDir(S, v) /\ flags \cap {"write", "append"} # {} -> Fails(S, "EISDIR")
    [] OTHER -> Succeeds(S, NULL)

\* A mountable device is a block device and has a size; the others have none.
DevSize(S, name) ==
  IF \E i \in DOMAIN S.kd : S.kd[i].name = name /\ S.kd[i].raw THEN NBlocks * BlockSize ELSE 0

\* Block devices are read and written from the start of one of their blocks.
dev_tryseek(S, name, off) ==
  IF DevSize(S, name) > 0 /\ (off % BlockSize # 0 \/ off >= DevSize(S, name))
  THEN Fails(S, "EINVAL") ELSE Succeeds(S, NULL)

\* A device can be cut to the size it has.
dev_truncate(S, name, len) ==
  IF DevSize(S, name) > 0 /\ len = DevSize(S, name) THEN Succeeds(S, NULL) ELSE Fails(S, "EINVAL")

VOP_TRUNCATE(S, v, len) ==
  CASE v[1] = "dev" -> dev_truncate(S, v[2], len)
    [] v[1] # "dev" /\ IsDir(S, v) -> Fails(S, IF v[1] = "emu" THEN "ENOTDIR" ELSE "EISDIR")
    [] v[1] = "sfs" /\ ~IsDir(S, v) -> OnSfs(S, sfs_itrunc(S.sfs, v[2], len))
    [] v[1] = "sem" /\ ~IsDir(S, v) -> OnSem(S, semfs_truncate(S.sem, v[2], len))
    [] v[1] = "emu" /\ ~IsDir(S, v) -> OnEmu(S, DeviceIo(S.emu))

\* Reading and writing; the value of a short read of a semaphore is what is
\* missing.  What is read and written past the file system, on the device, is
\* not kept.
VOP_IO(S, v, off, len, rw) ==
  CASE v[1] = "dev" -> Then(dev_tryseek(S, v[2], off), LAMBDA o : Succeeds(o.s, NULL) \cup Fails(o.s, "EIO"))
    [] v[1] # "dev" /\ IsDir(S, v) -> Fails(S, "EISDIR")
    [] v[1] = "sfs" /\ ~IsDir(S, v) -> OnSfs(S, sfs_io(S.sfs, v[2], off, len, rw))
    [] v[1] = "emu" /\ ~IsDir(S, v) -> OnEmu(S, DeviceIo(S.emu))
    [] v[1] = "sem" /\ ~IsDir(S, v) ->
         OnSem(S, IF rw = "read" THEN semfs_read(S.sem, v[2], len) ELSE semfs_write(S.sem, v[2], len))

VOP_FSYNC(S, v) ==
  CASE v[1] = "sfs" -> OnSfs(S, sfs_sync_inode(S.sfs, v[2]))
    [] v[1] = "emu" /\ IsDir(S, v) -> Fails(S, "EISDIR")
    [] OTHER -> Succeeds(S, NULL)

VOP_CREAT(S, dir, name, excl) ==
  CASE dir[1] = "sfs" -> AsVnode("sfs", OnSfs(S, sfs_creat(S.sfs, dir[2], name, excl)))
    [] dir[1] = "sem" -> AsVnode("sem", OnSem(S, semfs_creat(S.sem, name, excl)))
    [] dir[1] = "emu" -> AsVnode("emu", OnEmu(S, emufs_creat(S.emu, name, excl)))

\* (A path with a name in it never starts at a device: dev_lookup.)
VOP_LOOKUP(S, dir, name) ==
  CASE dir[1] = "dev" -> Fails(S, "ENOENT")
    [] dir[1] = "sfs" -> AsVnode("sfs", OnSfs(S, sfs_lookup(S.sfs, dir[2], name)))
    [] dir[1] = "sem" -> AsVnode("sem", OnSem(S, semfs_lookup(S.sem, name)))
    [] dir[1] = "emu" -> AsVnode("emu", OnEmu(S, emufs_lookup(S.emu, name)))

\* A name has no directory part: the directory itself, once more.
VOP_LOOKPARENT(S, dir, name) ==
  IF dir[1] = "dev" \/ ~IsDir(S, dir) THEN Fails(S, "ENOTDIR")
  ELSE Succeeds(VOP_INCREF(S, dir), dir)

\* VOP_SYMLINK, VOP_MKDIR, VOP_RMDIR
VOP_NOSYS(S) == Fails(S, "ENOSYS")

\* emufs_symlink, _mkdir, _link, _remove, _rmdir, _rename
emufs_nosys(S) == Fails(S, "ENOSYS")

\* Operations that change names.  Only SFS has them all; emufs has none.
VOP_REMOVE(S, dir, name) ==
  CASE dir[1] = "sfs" -> OnSfs(S, sfs_remove(S.sfs, dir[2], name))
    [] dir[1] = "sem" -> OnSem(S, semfs_remove(S.sem, name))
    [] dir[1] = "emu" -> emufs_nosys(S)

VOP_RENAME(S, dir, n1, n2) ==
  CASE dir[1] = "sfs" -> OnSfs(S, sfs_rename(S.sfs, dir[2], n1, n2))
    [] dir[1] = "sem" -> VOP_NOSYS(S)
    [] dir[1] = "emu" -> emufs_nosys(S)

VOP_LINK(S, dir, name, v) ==
  CASE dir[1] = "sfs" -> OnSfs(S, sfs_link(S.sfs, dir[2], name, v[2]))
    [] dir[1] = "sem" -> VOP_NOSYS(S)
    [] dir[1] = "emu" -> emufs_nosys(S)

-----------------------------------------------------------------------------
(* vfslist.c *)

FSOP_GETROOT(S, fs) ==
  CASE fs = "sfs" -> AsVnode("sfs", OnSfs(S, sfs_getroot(S.sfs)))
    [] fs = "sem" -> AsVnode("sem", OnSem(S, semfs_getroot(S.sem)))
    [] fs = "emu" -> AsVnode("emu", OnEmu(S, emufs_getroot(S.emu)))

FSOP_SYNC(S, fs) == IF fs = "sfs" THEN OnSfs(S, sfs_sync(S.sfs)) ELSE Succeeds(S, NULL)

\* Only SFS volumes are on mountable devices.
FSOP_UNMOUNT(S, fs) == OnSfs(S, sfs_unmount(S.sfs))

\* emufs has no volume name; semfs has "sem", the volume of SFS is called "vol".
FSOP_GETVOLNAME(fs) == CASE fs = "sfs" -> "vol" [] fs = "sem" -> "sem" [] OTHER -> ""

HasFs(kd) == kd.fs \notin {NoFs, SWAP_FS}
RawName(kd) == IF kd.raw THEN kd.name \o "raw" ELSE ""

\* The first entry that has the name: the root of its file system, ENXIO for a
\* mountable device with none, or the device itself.
vfs_getroot(S, name) ==
  LET matches(kd) == \/ kd.name = name
                     \/ RawName(kd) = name
                     \/ HasFs(kd) /\ FSOP_GETVOLNAME(kd.fs) = name
      hits == {i \in DOMAIN S.kd : matches(S.kd[i])}
      kd == S.kd[Min(hits)] IN
  CASE hits = {} -> Fails(S, "ENODEV")
    [] hits # {} /\ HasFs(kd) /\ RawName(kd) # name -> FSOP_GETROOT(S, kd.fs)
    [] hits # {} /\ ~HasFs(kd) /\ kd.raw /\ kd.name = name -> Fails(S, "ENXIO")
    [] OTHER -> Succeeds(VOP_INCREF(S, <<"dev", kd.name>>), <<"dev", kd.name>>)

\* Mutant: a device that is in use is not refused.
findmount_Any(S, name, oks) ==
  {i \in DOMAIN S.kd : S.kd[i].raw /\ S.kd[i].name = name}

\* The mountable device of that name, if its use is one of oks.
findmount(S, name, oks) ==
  {i \in DOMAIN S.kd : S.kd[i].raw /\ S.kd[i].name = name /\ S.kd[i].fs \in oks}

\* There is none: no such device, or the wrong use.
NotFound(S, name, errno) ==
  Fails(S, IF \E i \in DOMAIN S.kd : S.kd[i].raw /\ S.kd[i].name = name THEN errno ELSE "ENODEV")

vfs_mount(S, name) ==
  LET found == findmount(S, name, {NoFs}) IN
  IF found = {} THEN NotFound(S, name, "EBUSY")
  ELSE Then(OnSfs(S, sfs_domount(S.sfs)),
            LAMBDA o : Succeeds([o.s EXCEPT !.kd[Min(found)].fs = "sfs"], NULL))

\* Mutant: the file system is not synced first.
vfs_unmount_NoSync(S, name) ==
  LET found == findmount(S, name, {"sfs"}) IN
  IF found = {} THEN Fails(S, "EINVAL")
  ELSE Then(FSOP_UNMOUNT(S, "sfs"), LAMBDA u : Succeeds([u.s EXCEPT !.kd[Min(found)].fs = NoFs], NULL))

vfs_unmount(S, name) ==
  LET found == findmount(S, name, {"sfs"}) IN
  IF found = {} THEN NotFound(S, name, "EINVAL")
  ELSE Then(FSOP_SYNC(S, "sfs"),
            LAMBDA o : Then(FSOP_UNMOUNT(o.s, "sfs"),
                            LAMBDA u : Succeeds([u.s EXCEPT !.kd[Min(found)].fs = NoFs], NULL)))

\* Attaching swap hands back the raw device, which the caller lets go of before
\* it detaches it.
vfs_swapon(S, name) ==
  LET found == findmount(S, name, {NoFs}) IN
  IF found = {} THEN NotFound(S, name, "EBUSY")
  ELSE Succeeds(VOP_INCREF([S EXCEPT !.kd[Min(found)].fs = SWAP_FS], <<"dev", name>>), <<"dev", name>>)

vfs_swapoff(S, name) ==
  LET found == findmount(S, name, {SWAP_FS}) IN
  IF found = {} THEN NotFound(S, name, "EINVAL")
  ELSE Succeeds([S EXCEPT !.kd[Min(found)].fs = NoFs], NULL)

vfs_sync(S) ==
  IF \E i \in DOMAIN S.kd : S.kd[i].fs = "sfs"
  THEN Ignore(FSOP_SYNC(S, "sfs")) ELSE Succeeds(S, NULL)

\* Every mountable device in turn: swap is dropped, a file system is synced, at
\* most twice, and unmounted unless it is busy.
RECURSIVE UnmountFrom(_, _)
UnmountFrom(S, i) ==
  IF i > Len(S.kd) THEN Succeeds(S, NULL)
  ELSE LET kd == S.kd[i]
           drop(o) == UnmountFrom([o EXCEPT !.kd[i].fs = NoFs], i + 1)
           skip(o) == UnmountFrom(o, i + 1) IN
       CASE ~kd.raw \/ kd.fs = NoFs -> skip(S)
         [] kd.raw /\ kd.fs = SWAP_FS -> drop(S)
         [] OTHER ->
              Always(Always(FSOP_SYNC(S, kd.fs),
                            LAMBDA o : IF o.r = "0" THEN {o} ELSE FSOP_SYNC(o.s, kd.fs)),
                     LAMBDA o : IF o.r # "0" THEN skip(o.s)
                                ELSE Always(FSOP_UNMOUNT(o.s, kd.fs),
                                            LAMBDA u : IF u.r = "0" THEN drop(u.s) ELSE skip(u.s)))

vfs_unmountall(S) == UnmountFrom(S, 1)

-----------------------------------------------------------------------------
(* vfslookup.c and vfscwd.c *)

vfs_getcurdir(S) ==
  IF S.cwd = NoVnode THEN Fails(S, "ENOENT") ELSE Succeeds(VOP_INCREF(S, S.cwd), S.cwd)

\* The vnode a path starts from, by the form of the path.
getdevice(S, path) ==
  CASE path.from = "" -> IF path.name = "" THEN Fails(S, "EINVAL") ELSE vfs_getcurdir(S)
    [] path.from = "/" -> IF S.bootfs = NoVnode THEN Fails(S, "ENOENT")
                          ELSE Succeeds(VOP_INCREF(S, S.bootfs), S.bootfs)
    [] path.from = ":" -> Then(vfs_getcurdir(S),
                               LAMBDA c : IF vn_fs(c.v) = NoFs THEN VfsPanic(c.s, "getdevice")
                                          ELSE Always(FSOP_GETROOT(c.s, vn_fs(c.v)), LAMBDA g : Release(g, c.v)))
    [] OTHER -> vfs_getroot(S, path.from)

vfs_lookparent(S, path) ==
  Then(getdevice(S, path),
       LAMBDA d : Always(IF path.name = "" THEN Fails(d.s, "EINVAL") ELSE VOP_LOOKPARENT(d.s, d.v, path.name),
                         LAMBDA p : Release(p, d.v)))

\* Mutant: the starting vnode is kept when the lookup fails.
vfs_lookup_Keep(S, path) ==
  Then(getdevice(S, path),
       LAMBDA d : IF path.name = "" THEN {d}
                  ELSE Then(VOP_LOOKUP(d.s, d.v, path.name), LAMBDA l : Release(l, d.v)))

vfs_lookup(S, path) ==
  Then(getdevice(S, path),
       LAMBDA d : IF path.name = "" THEN {d}
                  ELSE Always(VOP_LOOKUP(d.s, d.v, path.name), LAMBDA l : Release(l, d.v)))

\* Mutant: anything can be the current directory.
vfs_setcurdir_Any(S, v) ==
  LET new == [VOP_INCREF(S, v) EXCEPT !.cwd = v] IN
  IF S.cwd = NoVnode THEN Succeeds(new, NULL) ELSE VOP_DECREF(new, S.cwd)

vfs_setcurdir(S, v) ==
  IF ~IsDir(S, v) THEN Fails(S, "ENOTDIR")
  ELSE LET new == [VOP_INCREF(S, v) EXCEPT !.cwd = v] IN
       IF S.cwd = NoVnode THEN Succeeds(new, NULL) ELSE VOP_DECREF(new, S.cwd)

vfs_clearcurdir(S) ==
  IF S.cwd = NoVnode THEN Succeeds(S, NULL) ELSE VOP_DECREF([S EXCEPT !.cwd = NoVnode], S.cwd)

vfs_chdir(S, path) ==
  Then(vfs_lookup(S, path), LAMBDA v : Always(vfs_setcurdir(v.s, v.v), LAMBDA o : Release(o, v.v)))

vfs_getcwd(S) ==
  Then(vfs_getcurdir(S), LAMBDA c : IF vn_fs(c.v) = NoFs THEN VfsPanic(c.s, "vfs_getcwd") ELSE Release(c, c.v))

change_bootfs(S, v) ==
  IF S.bootfs = NoVnode THEN Succeeds([S EXCEPT !.bootfs = v], NULL)
  ELSE VOP_DECREF([S EXCEPT !.bootfs = v], S.bootfs)

\* The new root of paths that begin with a slash is also the new current
\* directory.  (A name with a colon in it is refused before any of this.)
vfs_setbootfs(S, name) ==
  Then(vfs_chdir(S, [from |-> name, name |-> ""]),
       LAMBDA o : Then(vfs_getcurdir(o.s), LAMBDA c : change_bootfs(c.s, c.v)))

vfs_clearbootfs(S) == change_bootfs(S, NoVnode)

-----------------------------------------------------------------------------
(* vfspath.c *)

\* Mutant: a vnode that refuses to be opened is kept.
OpenVnode_Keep(S, v, flags) ==
  IF v = NoVnode THEN VfsPanic(S, "vfs_open")
  ELSE Then(VOP_EACHOPEN(S, v, flags),
            LAMBDA o : Always(CASE "trunc" \notin flags -> Succeeds(o.s, v)
                                [] "trunc" \in flags /\ "write" \notin flags -> Fails(o.s, "EINVAL")
                                [] OTHER -> Then(VOP_TRUNCATE(o.s, v, 0), LAMBDA t : Succeeds(t.s, v)),
                              LAMBDA e : IF e.r = "0" THEN {e} ELSE Release(e, v)))

\* vfs_open from where the vnode is in hand: a directory or device may refuse,
\* and the file is cut if that was asked.
OpenVnode(S, v, flags) ==
  IF v = NoVnode THEN VfsPanic(S, "vfs_open")
  ELSE Always(Then(VOP_EACHOPEN(S, v, flags),
                   LAMBDA o : CASE "trunc" \notin flags -> Succeeds(o.s, v)
                                [] "trunc" \in flags /\ "write" \notin flags -> Fails(o.s, "EINVAL")
                                [] OTHER -> Then(VOP_TRUNCATE(o.s, v, 0), LAMBDA t : Succeeds(t.s, v))),
              LAMBDA e : IF e.r = "0" THEN {e} ELSE Release(e, v))

vfs_open(S, path, flags) ==
  Then(IF "creat" \in flags
       THEN Then(vfs_lookparent(S, path),
                 LAMBDA d : Always(VOP_CREAT(d.s, d.v, path.name, "excl" \in flags), LAMBDA c : Release(c, d.v)))
       ELSE vfs_lookup(S, path),
       LAMBDA o : OpenVnode(o.s, o.v, flags))

vfs_close(S, v) == VOP_DECREF(S, v)

vfs_remove(S, path) ==
  Then(vfs_lookparent(S, path),
       LAMBDA d : Always(VOP_REMOVE(d.s, d.v, path.name), LAMBDA o : Release(o, d.v)))

\* vfs_symlink, vfs_mkdir, vfs_rmdir
vfs_nosys(S, path) ==
  Then(vfs_lookparent(S, path), LAMBDA d : Always(VOP_NOSYS(d.s), LAMBDA o : Release(o, d.v)))

\* Both names must be on one file system.
vfs_rename(S, p1, p2) ==
  Then(vfs_lookparent(S, p1),
       LAMBDA d1 : Always(
         Then(vfs_lookparent(d1.s, p2),
              LAMBDA d2 : Always(IF vn_fs(d1.v) # vn_fs(d2.v) THEN Fails(d2.s, "EXDEV")
                                 ELSE VOP_RENAME(d2.s, d1.v, p1.name, p2.name),
                                 LAMBDA o : Release(o, d2.v))),
         LAMBDA o : Release(o, d1.v)))

vfs_link(S, p1, p2) ==
  Then(vfs_lookup(S, p1),
       LAMBDA f : Always(
         Then(vfs_lookparent(f.s, p2),
              LAMBDA d : Always(IF vn_fs(f.v) = NoFs \/ vn_fs(f.v) # vn_fs(d.v) THEN Fails(d.s, "EXDEV")
                                ELSE VOP_LINK(d.s, d.v, p2.name, f.v),
                                LAMBDA o : Release(o, d.v))),
         LAMBDA o : Release(o, f.v)))
=============================================================================
