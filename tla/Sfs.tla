-------------------------------- MODULE Sfs --------------------------------
(***************************************************************************)
(* The SFS file system, kern/fs/sfs: block allocation, block mapping and   *)
(* truncation, directory and file I/O, the vnode table, and the vnode and  *)
(* file-system operations.  File data is abstracted to nothing: what is    *)
(* kept is which block belongs to what.  A file-system operation runs      *)
(* under the VFS big lock and is one step.                                 *)
(*                                                                         *)
(* The state is one record:                                                *)
(*   disk     external: the contents of every block                        *)
(*   map      the blocks the free map in memory says are used; mapdirty    *)
(*   vn       the vnode of every inode: inode, dirty, reference count, or  *)
(*            NULL when it is not loaded                                   *)
(*   mounted  is the volume mounted?                                       *)
(*   eio      how many more reads the disk may fail for good               *)
(*   lost     how many more writes the disk may fail once                  *)
(*   panic    has a panic or an assertion been reached?                    *)
(***************************************************************************)
EXTENDS Integers, Sequences, FiniteSets, FiniteSetsExt, Outcomes

CONSTANTS
  NBlocks,    \* sb_nblocks
  NDirect,    \* SFS_NDIRECT
  PerIdb,     \* SFS_DBPERIDB
  BlockSize,  \* SFS_BLOCKSIZE, in units of data; a directory entry is one unit
  MaxEio,     \* bound: reads that fail for good
  MaxLost     \* bound: writes that fail

Blocks == 0 .. NBlocks - 1
SFS_SUPER_BLOCK == 0
SFS_ROOTDIR_INO == 1
SFS_FREEMAP_START == 2
SFS_NOINO == 0
System == {SFS_SUPER_BLOCK, SFS_ROOTDIR_INO, SFS_FREEMAP_START}

Zeroed == [k |-> "zero"]
NoEntry == [ino |-> SFS_NOINO, name |-> ""]

ZeroInode ==
  [k |-> "inode", type |-> "inval", size |-> 0, links |-> 0,
   direct |-> [i \in 0 .. NDirect - 1 |-> 0], indirect |-> 0]
ZeroIdb == [k |-> "idb", b |-> [j \in 0 .. PerIdb - 1 |-> 0]]
ZeroDir == [k |-> "dir", e |-> [j \in 0 .. BlockSize - 1 |-> NoEntry]]
Data == [k |-> "data"]

\* A block read as what it is meant to hold; a cleared block is all zeros.
AsInode(c) == IF c = Zeroed THEN ZeroInode ELSE c
AsIdb(c) == IF c = Zeroed THEN ZeroIdb ELSE c
AsDir(c) == IF c = Zeroed THEN ZeroDir ELSE c

RootInode == [ZeroInode EXCEPT !.type = "dir", !.links = 1]

\* External: a volume as mksfs makes it.
Mkfs ==
  [disk |-> [b \in Blocks |->
               CASE b = SFS_ROOTDIR_INO -> RootInode
                 [] b = SFS_FREEMAP_START -> [k |-> "map", used |-> System]
                 [] b = SFS_SUPER_BLOCK -> [k |-> "super"]
                 [] OTHER -> Zeroed],
   map |-> {}, mapdirty |-> FALSE, vn |-> [b \in Blocks |-> NULL], mounted |-> FALSE, eio |-> MaxEio,
   lost |-> MaxLost, panic |-> FALSE]

Panic(s) == Fails([s EXCEPT !.panic = TRUE], "panic")

-----------------------------------------------------------------------------
(* sfs_io.c: block I/O; sfs_balloc.c *)

\* A read that fails is tried again; after ten retries it is an error.
sfs_readblock(s, b) ==
  Succeeds(s, s.disk[b]) \cup
  IF s.eio > 0 THEN Fails([s EXCEPT !.eio = @ - 1], "EIO") ELSE {}

\* A write that fails is tried again with the same uio, which the first try has
\* used up: lhd_io moves the data to the disk's buffer before it starts the
\* transfer.  The retry has nothing left to write and succeeds.
sfs_writeblock(s, b, c) ==
  Succeeds([s EXCEPT !.disk[b] = c], NULL) \cup
  IF s.lost > 0 THEN Succeeds([s EXCEPT !.lost = @ - 1], NULL) ELSE {}

sfs_bused(s, b) == b \in s.map

\* Mutant: the free map is not marked dirty.
sfs_bfree_NotDirty(s, b) == [s EXCEPT !.map = @ \ {b}]

\* bitmap_unmark asserts that the bit is set.
sfs_bfree(s, b) ==
  [s EXCEPT !.map = @ \ {b}, !.mapdirty = TRUE, !.panic = @ \/ b \notin s.map]

\* The lowest free block, cleared on the disk before it is handed out.
sfs_balloc(s) ==
  LET free == Blocks \ s.map IN
  IF free = {} THEN Fails(s, "ENOSPC")
  ELSE LET b == Min(free) IN
       Then(OnError(sfs_writeblock([s EXCEPT !.map = @ \cup {b}, !.mapdirty = TRUE], b, Zeroed),
                    LAMBDA o : Succeeds([o.s EXCEPT !.map = @ \ {b}], NULL)),
            LAMBDA o : Succeeds(o.s, b))

-----------------------------------------------------------------------------
(* sfs_bmap.c *)

SetInode(s, ino, i) == [s EXCEPT !.vn[ino].i = i, !.vn[ino].dirty = TRUE]

\* A block that is handed back must be marked used.
CheckUsed(s, b) == IF b # 0 /\ ~sfs_bused(s, b) THEN Panic(s) ELSE Succeeds(s, b)

\* sfs_bmap for a direct block
BmapDirect(s, ino, fb, doalloc) ==
  LET i == s.vn[ino].i
      block == i.direct[fb] IN
  IF block # 0 \/ ~doalloc THEN CheckUsed(s, block)
  ELSE Then(sfs_balloc(s),
            LAMBDA o : CheckUsed(SetInode(o.s, ino, [i EXCEPT !.direct[fb] = o.v]), o.v))

\* The second half of sfs_bmap: the block is looked up, or put, in the
\* indirect block, which is written back at once.
BmapIndirect(s, idblock, idbuf, idoff, doalloc) ==
  IF idbuf.b[idoff] # 0 \/ ~doalloc THEN CheckUsed(s, idbuf.b[idoff])
  ELSE Then(sfs_balloc(s),
            LAMBDA o : Then(sfs_writeblock(o.s, idblock, [idbuf EXCEPT !.b[idoff] = o.v]),
                            LAMBDA w : CheckUsed(w.s, o.v)))

\* The disk block of a block of a file; 0 is a hole.  With doalloc set, holes
\* are filled.
sfs_bmap(s, ino, fb, doalloc) ==
  LET i == s.vn[ino].i
      idoff == fb - NDirect IN
  CASE fb < NDirect -> BmapDirect(s, ino, fb, doalloc)
    [] idoff >= PerIdb -> Fails(s, "EFBIG")
    [] fb >= NDirect /\ idoff < PerIdb /\ i.indirect = 0 /\ ~doalloc -> Succeeds(s, 0)
    [] fb >= NDirect /\ idoff < PerIdb /\ i.indirect = 0 /\ doalloc ->
         Then(sfs_balloc(s),
              LAMBDA o : BmapIndirect(SetInode(o.s, ino, [i EXCEPT !.indirect = o.v]), o.v,
                                      ZeroIdb, idoff, doalloc))
    [] fb >= NDirect /\ idoff < PerIdb /\ i.indirect # 0 ->
         Then(sfs_readblock(s, i.indirect),
              LAMBDA o : BmapIndirect(o.s, i.indirect, AsIdb(o.v), idoff, doalloc))

RECURSIVE BfreeAll(_, _)
BfreeAll(s, bs) == IF bs = {} THEN s ELSE BfreeAll(sfs_bfree(s, Min(bs)), bs \ {Min(bs)})

\* The entries of the indirect block that sfs_itrunc discards.
PastEnd(idbuf, blocklen) ==
  {j \in 0 .. PerIdb - 1 : blocklen < NDirect + j /\ idbuf.b[j] # 0}

\* The part of sfs_itrunc for the indirect block: discard, and free the whole
\* block when nothing is left in it, or write it back.
TruncIndirect(s, ino, blocklen) ==
  LET idblock == s.vn[ino].i.indirect IN
  IF ~(blocklen < NDirect + PerIdb - 1 /\ idblock # 0) THEN Succeeds(s, NULL)
  ELSE Then(sfs_readblock(s, idblock),
         LAMBDA o :
           LET idbuf == AsIdb(o.v)
               past == PastEnd(idbuf, blocklen)
               left == [idbuf EXCEPT !.b = [j \in 0 .. PerIdb - 1 |-> IF j \in past THEN 0 ELSE idbuf.b[j]]]
               freed == BfreeAll(o.s, {idbuf.b[j] : j \in past}) IN
           IF \A j \in 0 .. PerIdb - 1 : left.b[j] = 0
           THEN Succeeds(SetInode(sfs_bfree(freed, idblock), ino,
                                  [freed.vn[ino].i EXCEPT !.indirect = 0]), NULL)
           ELSE IF past # {} THEN sfs_writeblock(freed, idblock, left)
           ELSE Succeeds(freed, NULL))

BlockLen(len) == (len + BlockSize - 1) \div BlockSize

\* Discard the direct blocks past the limit, then those of the indirect block,
\* then set the size.
sfs_itrunc(s, ino, len) ==
  LET i == s.vn[ino].i
      past == {x \in 0 .. NDirect - 1 : x >= BlockLen(len) /\ i.direct[x] # 0}
      freed == BfreeAll(s, {i.direct[x] : x \in past})
      cut == IF past = {} THEN freed
             ELSE SetInode(freed, ino, [i EXCEPT !.direct =
                    [x \in 0 .. NDirect - 1 |-> IF x \in past THEN 0 ELSE i.direct[x]]]) IN
  Then(TruncIndirect(cut, ino, BlockLen(len)),
       LAMBDA o : Succeeds(SetInode(o.s, ino, [o.s.vn[ino].i EXCEPT !.size = len]), NULL))

-----------------------------------------------------------------------------
(* sfs_io.c: file and metadata I/O *)

\* sfs_blockio does a whole block directly; sfs_partialio reads the block,
\* changes it in a buffer and writes it back.
ChunkIo(s, ino, off, n, rw) ==
  Then(sfs_bmap(s, ino, off \div BlockSize, rw = "write"),
       LAMBDA o :
         IF o.v = 0 THEN Succeeds(o.s, off + n)
         ELSE LET write(x) == IF rw = "write" THEN sfs_writeblock(x.s, o.v, Data) ELSE {x} IN
              Then(IF n = BlockSize
                   THEN IF rw = "write" THEN write(o) ELSE sfs_readblock(o.s, o.v)
                   ELSE Then(sfs_readblock(o.s, o.v), write),
                   LAMBDA w : Succeeds(w.s, off + n)))

\* The chunks of sfs_io: a leading partial block, whole blocks, the rest.  An
\* outcome's value is how far it got, on an error as well.
RECURSIVE IoLoop(_, _, _, _, _)
IoLoop(s, ino, off, end, rw) ==
  IF off = end THEN Succeeds(s, off)
  ELSE LET n == Min({end - off, BlockSize - (off % BlockSize)}) IN
       UNION {IF o.r = "0" THEN IoLoop(o.s, ino, off + n, end, rw) ELSE {[o EXCEPT !.v = off]} :
              o \in ChunkIo(s, ino, off, n, rw)}

\* Reads stop at the end of the file; a write that got anywhere, even one that
\* failed later, moves the end of the file.
sfs_io(s, ino, off, len, rw) ==
  LET size == s.vn[ino].i.size
      end == IF rw = "read" /\ off + len > size THEN size ELSE off + len IN
  IF rw = "read" /\ off >= size THEN Succeeds(s, off)
  ELSE Always(IoLoop(s, ino, off, end, rw),
              LAMBDA o : {IF rw = "write" /\ o.v # off /\ o.v > o.s.vn[ino].i.size
                          THEN [o EXCEPT !.s = SetInode(o.s, ino, [o.s.vn[ino].i EXCEPT !.size = o.v])]
                          ELSE o})

\* sfs_metaio for one directory entry
sfs_readdir(s, dir, slot) ==
  Then(sfs_bmap(s, dir, slot \div BlockSize, FALSE),
       LAMBDA o : IF o.v = 0 THEN Succeeds(o.s, NoEntry)
                  ELSE Then(sfs_readblock(o.s, o.v),
                            LAMBDA c : Succeeds(c.s, AsDir(c.v).e[slot % BlockSize])))

sfs_writedir(s, dir, slot, sd) ==
  Then(sfs_bmap(s, dir, slot \div BlockSize, TRUE),
       LAMBDA o : Then(sfs_readblock(o.s, o.v),
         LAMBDA c : Then(sfs_writeblock(c.s, o.v, [AsDir(c.v) EXCEPT !.e[slot % BlockSize] = sd]),
           LAMBDA w : LET i == w.s.vn[dir].i IN
                      Succeeds(IF slot + 1 > i.size
                               THEN SetInode(w.s, dir, [i EXCEPT !.size = slot + 1]) ELSE w.s, NULL))))

-----------------------------------------------------------------------------
(* sfs_dir.c *)

sfs_dir_nentries(s, dir) == s.vn[dir].i.size

\* The loop of sfs_dir_findname, from slot i on.  The value is what was found:
\* inode, slot, and the last empty slot (-1 when there is none).
RECURSIVE FindFrom(_, _, _, _, _)
FindFrom(s, dir, name, i, acc) ==
  IF i = sfs_dir_nentries(s, dir) THEN Succeeds(s, acc)
  ELSE Then(sfs_readdir(s, dir, i),
         LAMBDA o :
           CASE o.v.ino = SFS_NOINO -> FindFrom(o.s, dir, name, i + 1, [acc EXCEPT !.empty = i])
             [] o.v.ino # SFS_NOINO /\ o.v.name # name -> FindFrom(o.s, dir, name, i + 1, acc)
             [] o.v.ino # SFS_NOINO /\ o.v.name = name ->
                  IF acc.slot >= 0 THEN Panic(o.s)   \* each name may legally appear only once
                  ELSE FindFrom(o.s, dir, name, i + 1, [acc EXCEPT !.ino = o.v.ino, !.slot = i]))

sfs_dir_findname(s, dir, name) ==
  FindFrom(s, dir, name, 0, [ino |-> SFS_NOINO, slot |-> -1, empty |-> -1])

\* Enter a name in an empty slot or at the end; the value is the slot.
sfs_dir_link(s, dir, name, ino) ==
  Then(sfs_dir_findname(s, dir, name),
       LAMBDA o : IF o.v.slot >= 0 THEN Fails(o.s, "EEXIST")
                  ELSE LET slot == IF o.v.empty < 0 THEN sfs_dir_nentries(o.s, dir) ELSE o.v.empty IN
                       Then(sfs_writedir(o.s, dir, slot, [ino |-> ino, name |-> name]),
                            LAMBDA w : Succeeds(w.s, slot)))

sfs_dir_unlink(s, dir, slot) == sfs_writedir(s, dir, slot, NoEntry)

-----------------------------------------------------------------------------
(* sfs_inode.c, vnode.c *)

Loaded(s) == {b \in Blocks : s.vn[b] # NULL}

sfs_sync_inode(s, ino) ==
  IF ~s.vn[ino].dirty THEN Succeeds(s, NULL)
  ELSE Then(sfs_writeblock(s, ino, s.vn[ino].i),
            LAMBDA o : Succeeds([o.s EXCEPT !.vn[ino].dirty = FALSE], NULL))

Forget(s, ino) == [s EXCEPT !.vn[ino] = NULL]

\* The last reference is gone: an unlinked file is erased, the inode written,
\* the vnode dropped from the table.  (The reference count is 1: nobody can
\* have picked the vnode up since.)
sfs_reclaim(s, ino) ==
  Then(IF s.vn[ino].i.links = 0 THEN sfs_itrunc(s, ino, 0) ELSE Succeeds(s, NULL),
       LAMBDA o : Then(sfs_sync_inode(o.s, ino),
         LAMBDA w : Succeeds(Forget(IF w.s.vn[ino].i.links = 0 THEN sfs_bfree(w.s, ino) ELSE w.s, ino), NULL)))

\* VOP_DECREF; the result of VOP_RECLAIM is only reported, and the vnode of a
\* failed one stays in the table with its reference.
vnode_decref(s, ino) ==
  IF s.vn[ino].ref > 1 THEN Succeeds([s EXCEPT !.vn[ino].ref = @ - 1], NULL)
  ELSE Ignore(sfs_reclaim(s, ino))

vnode_incref(s, ino) == [s EXCEPT !.vn[ino].ref = @ + 1]

\* Find the vnode in the table or load it.  type is "inval" unless the object
\* is being created.  (The table is searched up to the vnode that is wanted,
\* and each vnode it passes must be in a used block.)
sfs_loadvnode(s, ino, type) ==
  CASE \E x \in Loaded(s) : ~sfs_bused(s, x) -> Panic(s)
    [] (\A x \in Loaded(s) : sfs_bused(s, x)) /\ ino \in Loaded(s) ->
         IF type # "inval" THEN Panic(s) ELSE Succeeds(vnode_incref(s, ino), ino)
    [] OTHER ->
         Fails(s, "ENOMEM") \cup
         IF ~sfs_bused(s, ino) THEN Panic(s)
         ELSE Then(sfs_readblock(s, ino),
                LAMBDA o :
                  LET d == AsInode(o.v)
                      i == IF type = "inval" THEN d ELSE [d EXCEPT !.type = type]
                      vnode == [i |-> i, dirty |-> type # "inval", ref |-> 1] IN
                  IF i.type = "inval" \/ (type # "inval" /\ d.type # "inval") THEN Panic(o.s)
                  ELSE Succeeds([o.s EXCEPT !.vn[ino] = vnode], ino))

\* Mutant: the inode's block is lost when its vnode cannot be loaded.
sfs_makeobj_Leak(s, type) ==
  Then(sfs_balloc(s), LAMBDA o : sfs_loadvnode(o.s, o.v, type))

sfs_makeobj(s, type) ==
  Then(sfs_balloc(s),
       LAMBDA o : OnError(sfs_loadvnode(o.s, o.v, type),
                          LAMBDA e : Succeeds(sfs_bfree(e.s, o.v), NULL)))

sfs_getroot(s) == sfs_loadvnode(s, SFS_ROOTDIR_INO, "inval")

\* A vnode for a name; a name whose file has no links is a panic.
sfs_lookonce(s, dir, name) ==
  Then(sfs_dir_findname(s, dir, name),
       LAMBDA o : IF o.v.slot < 0 THEN Fails(o.s, "ENOENT")
                  ELSE Then(sfs_loadvnode(o.s, o.v.ino, "inval"),
                            LAMBDA l : IF l.s.vn[l.v].i.links = 0 THEN Panic(l.s)
                                       ELSE Succeeds(l.s, [ino |-> l.v, slot |-> o.v.slot])))

-----------------------------------------------------------------------------
(* sfs_vnops.c *)

AddLinks(s, ino, n) == SetInode(s, ino, [s.vn[ino].i EXCEPT !.links = @ + n])

sfs_creat(s, dir, name, excl) ==
  Then(sfs_dir_findname(s, dir, name),
       LAMBDA f :
         CASE f.v.slot >= 0 /\ excl -> Fails(f.s, "EEXIST")
           [] f.v.slot >= 0 /\ ~excl -> sfs_loadvnode(f.s, f.v.ino, "inval")
           [] f.v.slot < 0 ->
                Then(sfs_makeobj(f.s, "file"),
                  LAMBDA o : Then(OnError(sfs_dir_link(o.s, dir, name, o.v),
                                          LAMBDA e : vnode_decref(e.s, o.v)),
                    LAMBDA l : Succeeds(AddLinks(l.s, o.v, 1), o.v))))

sfs_link(s, dir, name, ino) ==
  IF s.vn[ino].i.type = "dir" THEN Fails(s, "EINVAL")
  ELSE Then(sfs_dir_link(s, dir, name, ino), LAMBDA o : Succeeds(AddLinks(o.s, ino, 1), NULL))

\* Mutant: the link count is taken down even when the entry was not erased.
sfs_remove_Always(s, dir, name) ==
  Then(sfs_lookonce(s, dir, name),
       LAMBDA v : Always(sfs_dir_unlink(v.s, dir, v.v.slot),
         LAMBDA u : vnode_decref(AddLinks(u.s, v.v.ino, -1), v.v.ino)))

\* Erase the entry, take the link count down, let go of the file.
sfs_remove(s, dir, name) ==
  Then(sfs_lookonce(s, dir, name),
       LAMBDA v : Always(sfs_dir_unlink(v.s, dir, v.v.slot),
         LAMBDA u : Keeping(u, vnode_decref(IF u.r = "0" THEN AddLinks(u.s, v.v.ino, -1) ELSE u.s, v.v.ino))))

\* Link the file under the new name, then unlink the old one; when that fails
\* the new link is taken back, and failing to is a panic.
sfs_rename(s, dir, n1, n2) ==
  Then(sfs_lookonce(s, dir, n1),
    LAMBDA g :
      LET ino == g.v.ino
          done(o, s2) == Keeping(o, vnode_decref(s2, ino)) IN
      Always(sfs_dir_link(g.s, dir, n2, ino),
        LAMBDA l : IF l.r # "0" THEN done(l, l.s)
                   ELSE Always(sfs_dir_unlink(AddLinks(l.s, ino, 1), dir, g.v.slot),
                     LAMBDA u : IF u.r = "0" THEN done(u, AddLinks(u.s, ino, -1))
                                ELSE Always(sfs_dir_unlink(u.s, dir, l.v),
                                  LAMBDA h : IF h.r # "0" THEN Panic(h.s)
                                             ELSE done(u, [h.s EXCEPT !.vn[ino].i.links = @ - 1])))))

sfs_lookup(s, dir, name) ==
  IF s.vn[dir].i.type # "dir" THEN Fails(s, "ENOTDIR")
  ELSE Then(sfs_lookonce(s, dir, name), LAMBDA o : Succeeds(o.s, o.v.ino))

-----------------------------------------------------------------------------
(* sfs_fsops.c *)

\* Every loaded vnode is written; errors are not looked at.
RECURSIVE SyncVnodes(_, _)
SyncVnodes(s, inos) ==
  IF inos = {} THEN Succeeds(s, NULL)
  ELSE LET ino == Min(inos) IN
       Always(sfs_sync_inode(s, ino), LAMBDA o : SyncVnodes(o.s, inos \ {ino}))

sfs_sync_freemap(s) ==
  IF ~s.mapdirty THEN Succeeds(s, NULL)
  ELSE Then(sfs_writeblock(s, SFS_FREEMAP_START, [k |-> "map", used |-> s.map]),
            LAMBDA o : Succeeds([o.s EXCEPT !.mapdirty = FALSE], NULL))

\* (The superblock never becomes dirty.)
sfs_sync(s) == Then(SyncVnodes(s, Loaded(s)), LAMBDA o : sfs_sync_freemap(o.s))

sfs_unmount(s) ==
  IF Loaded(s) # {} THEN Fails(s, "EBUSY")
  ELSE Succeeds([s EXCEPT !.mounted = FALSE, !.map = {}, !.panic = @ \/ s.mapdirty], NULL)

sfs_domount(s) ==
  Fails(s, "ENOMEM") \cup
  Then(sfs_readblock(s, SFS_SUPER_BLOCK),
       LAMBDA o : Then(sfs_readblock(o.s, SFS_FREEMAP_START),
         LAMBDA m : Succeeds([m.s EXCEPT !.map = m.v.used, !.mapdirty = FALSE, !.mounted = TRUE], NULL)))
=============================================================================
