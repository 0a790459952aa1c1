------------------------------- MODULE Files -------------------------------
(***************************************************************************)
(* A kernel thread using files: it opens, reads, writes, cuts, links and   *)
(* closes them by the vfs_ functions, changes directory, mounts and        *)
(* unmounts, while reads of the disk and the emulator's device fail and    *)
(* memory runs out.  Every call is one step: the locks of the file systems *)
(* are no-ops in this kernel, and this is what they promise while one      *)
(* thread at a time is inside them.                                        *)
(***************************************************************************)
EXTENDS Vfs

CONSTANT
  Machines     \* what is attached (kd, devs, exist), and what is used of it:
               \* paths, directories, devices to mount and to swap on, whether
               \* there are syncs, flags of open, offsets
               \* and lengths of reads and writes, lengths files are cut to, and
               \* (a bound) how many files are open at a time

VARIABLES
  machine,
  fs,          \* the state of Vfs
  fd,          \* the open files
  reader,      \* a read of a semaphore that is still short
  swap         \* the vnode that vfs_swapon gave the swap code

Fds == 1 .. machine.nfds

filevars == <<machine, fs, fd, reader, swap>>

NoReader == [v |-> NoVnode, resid |-> 0]

Init ==
  /\ machine \in Machines
  /\ fs = [sfs |-> Mkfs, sem |-> semfs_create, emu |-> emufs_addtovfs(machine.exist),
           dev |-> [d \in machine.devs |-> 1], kd |-> machine.kd,
           cwd |-> NoVnode, bootfs |-> NoVnode, panic |-> ""]
  /\ fd = [f \in Fds |-> NoVnode]
  /\ reader = NoReader
  /\ swap = NoVnode

\* The blocks in use, by the free map in memory or, unmounted, on the disk.
UsedMap(s) == IF s.mounted THEN s.map ELSE s.disk[SFS_FREEMAP_START].used

\* A free block is cleared before it is used, and what is dirty in memory is
\* written before it is read again: while no write is lost, what the disk holds
\* of them, and the data of files, makes no difference and is not kept.
Settled(S) ==
  LET s == S.sfs
      dead == (Blocks \ UsedMap(s)) \cup {i \in Loaded(s) : s.vn[i].dirty}
                \cup (IF s.mapdirty THEN {SFS_FREEMAP_START} ELSE {}) IN
  IF MaxLost > 0 \/ s.panic THEN S
  ELSE [S EXCEPT !.sfs.disk = [b \in Blocks |-> IF b \in dead \/ s.disk[b] = Data THEN Zeroed ELSE s.disk[b]]]

Panicked == fs.panic # "" \/ fs.sfs.panic \/ fs.sem.panic

\* A call of the VFS layer; what it hands back is let go or not looked at.
Call(outs) ==
  /\ ~Panicked
  /\ \E o \in outs : fs' = Settled(o.s)
  /\ UNCHANGED <<machine, fd, reader, swap>>

Open(f, path, flags) ==
  /\ ~Panicked
  /\ fd[f] = NoVnode
  /\ \E o \in vfs_open(fs, path, flags) :
       /\ fs' = Settled(o.s)
       /\ fd' = [fd EXCEPT ![f] = IF o.r = "0" THEN o.v ELSE NoVnode]
  /\ UNCHANGED <<machine, reader, swap>>

Close(f) ==
  /\ ~Panicked
  /\ fd[f] # NoVnode
  /\ reader.v # fd[f]
  /\ \E o \in vfs_close(fs, fd[f]) : fs' = Settled(o.s)
  /\ fd' = [fd EXCEPT ![f] = NoVnode]
  /\ UNCHANGED <<machine, reader, swap>>

Write(f, off, len) ==
  /\ fd[f] # NoVnode
  /\ Call(VOP_IO(fs, fd[f], off, len, "write"))

\* A read of a semaphore goes on until it has all it asked for.
Read(f, off, len) ==
  /\ ~Panicked
  /\ fd[f] # NoVnode
  /\ reader = NoReader
  /\ \E o \in VOP_IO(fs, fd[f], off, len, "read") :
       /\ fs' = Settled(o.s)
       /\ reader' = IF o.r = "0" /\ fd[f][1] = "sem" /\ o.v > 0 THEN [v |-> fd[f], resid |-> o.v] ELSE NoReader
  /\ UNCHANGED <<machine, fd, swap>>

ReadOn ==
  /\ ~Panicked
  /\ reader # NoReader
  /\ \E o \in VOP_IO(fs, reader.v, 0, reader.resid, "read") :
       /\ fs' = Settled(o.s)
       /\ reader' = IF o.v > 0 THEN [reader EXCEPT !.resid = o.v] ELSE NoReader
  /\ UNCHANGED <<machine, fd, swap>>

Truncate(f, len) == fd[f] # NoVnode /\ Call(VOP_TRUNCATE(fs, fd[f], len))

Fsync(f) == fd[f] # NoVnode /\ Call(VOP_FSYNC(fs, fd[f]))

\* Two paths on one file system or on two.
TwoPaths(p1, p2) == Call(vfs_rename(fs, p1, p2)) \/ Call(vfs_link(fs, p1, p2))

OnePath(p) == Call(vfs_remove(fs, p)) \/ Call(vfs_nosys(fs, p))

Directories(p) ==
  \/ Call(vfs_chdir(fs, p))
  \/ Call(vfs_clearcurdir(fs))
  \/ Call(vfs_getcwd(fs))
  \/ Call(vfs_setbootfs(fs, p.from))
  \/ Call(vfs_clearbootfs(fs))

\* Only what is unused can be mounted or used for swap: lhd0.
Mounts(d) ==
  \/ Call(vfs_mount(fs, d))
  \/ Call(vfs_unmount(fs, d))

\* External: the swap code keeps the vnode it gets, and lets go of it before it
\* detaches the device, as vfs.h tells it to (bound: one such vnode).
SwapOn(d) ==
  /\ ~Panicked
  /\ swap = NoVnode
  /\ \E o \in vfs_swapon(fs, d) :
       /\ fs' = Settled(o.s)
       /\ swap' = IF o.r = "0" THEN o.v ELSE NoVnode
  /\ UNCHANGED <<machine, fd, reader>>

SwapOff(d) ==
  /\ ~Panicked
  /\ \E o \in IF swap = NoVnode THEN vfs_swapoff(fs, d)
              ELSE Then(VOP_DECREF(fs, swap), LAMBDA s : vfs_swapoff(s.s, d)) : fs' = Settled(o.s)
  /\ swap' = NoVnode
  /\ UNCHANGED <<machine, fd, reader>>

Syncs == Call(vfs_unmountall(fs)) \/ Call(vfs_sync(fs)) \/ \E f \in Fds : Fsync(f)

Next ==
  \/ \E f \in Fds, p \in machine.paths, flags \in machine.flags : Open(f, p, flags)
  \/ \E f \in Fds : Close(f)
  \/ \E f \in Fds, io \in machine.ios : Write(f, io[1], io[2]) \/ Read(f, io[1], io[2])
  \/ ReadOn
  \/ \E f \in Fds, len \in machine.cuts : Truncate(f, len)
  \/ \E p \in machine.paths : OnePath(p)
  \/ \E p \in machine.dirs : Directories(p)
  \/ \E p1, p2 \in machine.paths : TwoPaths(p1, p2)
  \/ \E d \in machine.mountable : Mounts(d)
  \/ \E d \in machine.swappable : SwapOn(d) \/ SwapOff(d)
  \/ machine.syncs /\ Syncs

Spec == Init /\ [][Next]_filevars

-----------------------------------------------------------------------------
(* Properties *)

Holders(v) ==
  Cardinality({f \in Fds : fd[f] = v}) + Cardinality({x \in {"cwd", "bootfs"} : fs[x] = v})
    + (IF swap = v THEN 1 ELSE 0)

Faults == fs.sfs.eio < MaxEio \/ fs.emu.fail < MaxEmuFail

\* Every vnode's reference count is the number of its holders: no path, error
\* paths included, loses or doubles a reference.  Only a vnode whose reclaim
\* failed (VOP_RECLAIM's result is only reported) is left with one reference
\* that nobody holds; the root of emufs and every device have one of their own.
RefsAccounted ==
  LET ok(ref, v) == ref = Holders(v) \/ (Faults /\ Holders(v) = 0 /\ ref = 1) IN
  /\ \A i \in Loaded(fs.sfs) : ok(fs.sfs.vn[i].ref, <<"sfs", i>>)
  /\ \A n \in 0 .. MaxSems : fs.sem.vn[n] = Holders(<<"sem", n>>)
  /\ \A h \in Handles :
       ok(fs.emu.vn[h] - (IF h = EMU_ROOTHANDLE THEN 1 ELSE 0), <<"emu", h>>)
  /\ \A d \in machine.devs : fs.dev[d] = 1 + Holders(<<"dev", d>>)
  /\ \A f \in Fds : fd[f] # NoVnode /\ fd[f][1] = "sfs" => fd[f][2] \in Loaded(fs.sfs)

\* The inode of a file as the kernel sees it, and the blocks it maps.
InodeOf(ino) == IF ino \in Loaded(fs.sfs) THEN fs.sfs.vn[ino].i ELSE AsInode(fs.sfs.disk[ino])

IdbOf(ino) == IF InodeOf(ino).indirect = 0 THEN AsIdb(Zeroed) ELSE AsIdb(fs.sfs.disk[InodeOf(ino).indirect])

\* The block pointers of a file: where they are, and the block.
Pointers(ino) ==
  {p \in ({<<ino, "d", x, InodeOf(ino).direct[x]>> : x \in 0 .. NDirect - 1}
          \cup {<<ino, "i", 0, InodeOf(ino).indirect>>}
          \cup {<<ino, "j", j, IdbOf(ino).b[j]>> : j \in 0 .. PerIdb - 1}) : p[4] # 0}

BlockOfSlot(i) ==
  LET b == i \div BlockSize IN
  IF b < NDirect THEN InodeOf(SFS_ROOTDIR_INO).direct[b] ELSE IdbOf(SFS_ROOTDIR_INO).b[b - NDirect]

\* The entries of the directory: slot, name, inode.
Entries ==
  {e \in {LET b == BlockOfSlot(i)
              sd == IF b = 0 THEN NoEntry ELSE AsDir(fs.sfs.disk[b]).e[i % BlockSize] IN
          <<i, sd.name, sd.ino>> : i \in 0 .. InodeOf(SFS_ROOTDIR_INO).size - 1} : e[3] # SFS_NOINO}

Inodes == {SFS_ROOTDIR_INO} \cup {e[3] : e \in Entries} \cup Loaded(fs.sfs)

\* The free map marks exactly the blocks in use, and every block belongs to one
\* place: after any sequence of calls, a read error or a full disk in the middle
\* of any of them, no block is lost and no block is shared (sfs_balloc, sfs_bfree,
\* sfs_bmap, sfs_itrunc, sfs_reclaim).
BlocksAccountedSfs ==
  LET pointers == UNION {Pointers(i) : i \in Inodes} IN
  /\ UsedMap(fs.sfs) = System \cup Inodes \cup {p[4] : p \in pointers}
  /\ \A p, q \in pointers : p[4] = q[4] => p = q
  /\ \A p \in pointers : p[4] \notin Inodes \cup System

\* The link count of a file is the number of its names, each name is there once,
\* and a file with no name is open (sfs_creat, sfs_link, sfs_remove, sfs_rename).
LinksMatch ==
  /\ \A i \in Inodes \ {SFS_ROOTDIR_INO} :
       InodeOf(i).links = Cardinality({e \in Entries : e[3] = i})
  /\ \A e1, e2 \in Entries : e1[2] = e2[2] => e1 = e2
  /\ \A i \in Loaded(fs.sfs) : InodeOf(i).links = 0 => Holders(<<"sfs", i>>) > 0 \/ Faults

\* What the file system has not marked dirty is on the disk: the inode of every
\* clean vnode and the free map.  So a sync that succeeds leaves nothing behind.
CleanIsOnDisk ==
  /\ \A i \in Loaded(fs.sfs) : ~fs.sfs.vn[i].dirty => AsInode(fs.sfs.disk[i]) = fs.sfs.vn[i].i
  /\ fs.sfs.mounted /\ ~fs.sfs.mapdirty => fs.sfs.disk[SFS_FREEMAP_START].used = fs.sfs.map

\* No call sequence reaches a panic or a failed assertion of SFS or semfs (an
\* inode in a free block, a name without links, a block marked free, a volume
\* unmounted with a dirty free map) or of the VFS layer (getdevice and
\* vfs_getcwd find a current directory on no file system).  One assertion does
\* fail: vfs_open gets no vnode from a semfs_creat that ran out of memory and
\* reports success.  It is allowed there, and nowhere else.
FsNoPanic ==
  /\ ~fs.sfs.panic /\ ~fs.sem.panic
  /\ fs.panic # "" => fs.panic = "vfs_open" /\ \E i \in DOMAIN fs.kd : fs.kd[i].fs = "sem"

\* A semaphore is in the table as long as a name or a vnode refers to it
\* (semfs_creat, semfs_remove and semfs_reclaim each drop it when the other
\* reference is already gone).
SemTableConsistent ==
  \A n \in SemSlots :
    LET sem == fs.sem.sems[n]
        names == {i \in SemSlots : fs.sem.dents[i].semnum = n} IN
    /\ sem.linked <=> names # {}
    /\ Cardinality(names) <= 1
    /\ sem.hasvnode <=> fs.sem.vn[n] > 0
    /\ sem # NoSem <=> sem.linked \/ sem.hasvnode

\* The device's open handles are the handles of the vnodes, unless closing one
\* failed (emufs_creat, emufs_lookup, emufs_reclaim).
HandlesAccounted ==
  \A h \in Handles :
    /\ fs.emu.vn[h] > 0 => fs.emu.open[h] # NULL
    /\ fs.emu.fail = MaxEmuFail => (fs.emu.open[h] # NULL => fs.emu.vn[h] > 0)

\* A device has one use at a time, and a volume is mounted exactly when its
\* device says so: vnodes of SFS exist only then.
MountsMatch ==
  /\ fs.sfs.mounted <=> \E i \in DOMAIN fs.kd : fs.kd[i].fs = "sfs"
  /\ ~fs.sfs.mounted => Loaded(fs.sfs) = {} /\ fs.sfs.map = {}

\* SFS as a file-system checker would want it: blocks and links accounted for.
SfsIsConsistent == BlocksAccountedSfs /\ LinksMatch

\* The tables in memory match what they describe: semaphores, the emulator's
\* handles, and mounted volumes.
TablesMatch == SemTableConsistent /\ HandlesAccounted /\ MountsMatch
=============================================================================
