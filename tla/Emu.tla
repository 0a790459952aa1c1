-------------------------------- MODULE Emu --------------------------------
(***************************************************************************)
(* How the emulator file system drives its device (dev/lamebus/emu.c): the *)
(* registers, the transfer buffer, the completion interrupt, and the loops *)
(* that cut a transfer into pieces the buffer can hold.                    *)
(*                                                                         *)
(* e_lock is a sleep lock, and sleep locks do nothing in this kernel: the  *)
(* module has one caller, the thread the menu waits for.  The device is    *)
(* external: it performs the operation in REG_OPER some time later, may    *)
(* report a media error, may read less than was asked (never nothing       *)
(* before the end of the file), and interrupts once.                       *)
(***************************************************************************)
EXTENDS Integers, Sequences

CONSTANTS EmuFiles,     \* the handles that are open
          EMU_MAXIO,    \* size of the transfer buffer
          MaxOffset,    \* the largest offset and the largest file size the
                        \* registers can hold: 0xffffffff in the code
          MaxLen,       \* bound: length of a transfer
          MaxRetries,   \* attempts emu_close repeats: 10 in the code
          NULL

VARIABLES disk,     \* external: the contents of every open file
          regs,     \* external: HANDLE, IOLEN, OFFSET, OPER and RESULT
          iobuf,    \* e_iobuf
          e_result, e_sem,
          emucall,  \* the VOP the caller is in, and where
          uio       \* its uio: resid, offset, and the bytes moved

emuvars == <<disk, regs, iobuf, e_result, e_sem, emucall, uio>>

NoCall == [op |-> "none", at |-> "idle", h |-> NULL, start |-> 0,
           data |-> << >>, tries |-> 0, ret |-> NULL]
NoUio == [resid |-> 0, offset |-> 0, moved |-> << >>]
Quiet == [handle |-> NULL, iolen |-> 0, offset |-> 0, oper |-> NULL,
          result |-> NULL]

EmuInit ==
  /\ disk = [h \in EmuFiles |-> << >>]
  /\ regs = Quiet /\ iobuf = << >>
  /\ e_result = NULL /\ e_sem = 0
  /\ emucall = NoCall /\ uio = NoUio

Lesser(a, b) == IF a < b THEN a ELSE b

-----------------------------------------------------------------------------
(* External: the device and its files.                                     *)

\* The file after data is written at off; a gap reads as zeros.
Written(f, off, bytes) ==
  [i \in 1 .. (IF Len(f) > off + Len(bytes) THEN Len(f) ELSE off + Len(bytes)) |->
     IF i > off /\ i <= off + Len(bytes) THEN bytes[i - off]
     ELSE IF i <= Len(f) THEN f[i] ELSE 0]

Resized(f, n) == [i \in 1..n |-> IF i <= Len(f) THEN f[i] ELSE 0]

Answer(result) ==
  regs' = [regs EXCEPT !.oper = NULL, !.result = result]

DeviceFails ==
  /\ regs.oper # NULL
  /\ Answer("media")
  /\ UNCHANGED <<disk, iobuf, e_result, e_sem, emucall, uio>>

DeviceReads ==
  LET f == disk[regs.handle] IN
  /\ regs.oper = "read"
  /\ \E n \in 0..MaxLen :
       /\ n <= regs.iolen
       /\ IF regs.offset < Len(f) THEN n > 0 /\ regs.offset + n <= Len(f)
          ELSE n = 0
       /\ iobuf' = SubSeq(f, regs.offset + 1, regs.offset + n)
       /\ regs' = [regs EXCEPT !.oper = NULL, !.result = "ok", !.iolen = n,
                               !.offset = @ + n]
  /\ UNCHANGED <<disk, e_result, e_sem, emucall, uio>>

DeviceWrites ==
  /\ regs.oper = "write" /\ regs.offset + regs.iolen <= MaxOffset
  /\ disk' = [disk EXCEPT ![regs.handle] =
                Written(@, regs.offset, SubSeq(iobuf, 1, regs.iolen))]
  /\ regs' = [regs EXCEPT !.oper = NULL, !.result = "ok",
                          !.offset = @ + regs.iolen]
  /\ UNCHANGED <<iobuf, e_result, e_sem, emucall, uio>>

DeviceOther ==
  /\ \/ /\ regs.oper = "getsize"
        /\ regs' = [regs EXCEPT !.oper = NULL, !.result = "ok",
                                !.iolen = Len(disk[regs.handle])]
        /\ UNCHANGED disk
     \/ /\ regs.oper = "trunc"
        /\ disk' = [disk EXCEPT ![regs.handle] = Resized(@, regs.iolen)]
        /\ Answer("ok")
     \/ /\ regs.oper = "close"
        /\ Answer("ok") /\ UNCHANGED disk
  /\ UNCHANGED <<iobuf, e_result, e_sem, emucall, uio>>

-----------------------------------------------------------------------------
(* The interrupt handler.                                                  *)
emu_irq_Keep ==
  /\ regs.result # NULL
  /\ e_result' = regs.result
  /\ e_sem' = e_sem + 1
  /\ UNCHANGED <<disk, iobuf, emucall, uio, regs>>

emu_irq ==
  /\ regs.result # NULL
  /\ e_result' = regs.result
  /\ regs' = [regs EXCEPT !.result = NULL]
  /\ e_sem' = e_sem + 1
  /\ UNCHANGED <<disk, iobuf, emucall, uio>>

(* translate_err: the codes that mean a mistake in emu.c panic; this       *)
(* caller never provokes them.                                             *)
translate_err(code) == IF code = "ok" THEN "ok" ELSE "EIO"

-----------------------------------------------------------------------------
(* The caller.                                                             *)

\* A VOP is called: emufs_read and emufs_write with a uio (the bytes to be
\* written are told apart by their place), emufs_stat,
\* emufs_truncate, and emufs_reclaim, which closes the handle.
Vop ==
  /\ emucall.at = "idle"
  /\ \E h \in EmuFiles, off \in 0..(MaxOffset + 1) :
       \/ \E n \in 1..MaxLen, op \in {"read", "write"} :
            /\ emucall' = [NoCall EXCEPT !.op = op, !.at = "loop", !.h = h,
                             !.start = off, !.data = [i \in 1..n |-> i]]
            /\ uio' = [resid |-> n, offset |-> off, moved |-> << >>]
       \/ \E op \in {"getsize", "trunc", "close"} :
            /\ op # "trunc" => off = 0
            /\ off <= MaxOffset
            /\ emucall' = [NoCall EXCEPT !.op = op, !.at = "loop", !.h = h,
                                         !.start = off]
            /\ uio' = NoUio
  /\ UNCHANGED <<disk, regs, iobuf, e_result, e_sem>>

Return(ret) == emucall' = [emucall EXCEPT !.at = "ret", !.ret = ret]

\* What is left of a write's data.
Rest == SubSeq(emucall.data, Len(emucall.data) - uio.resid + 1,
               Len(emucall.data))

Transfer_Start(n) ==
  [regs EXCEPT !.handle = emucall.h, !.iolen = n, !.offset = emucall.start]

(* HANDLE, IOLEN and OFFSET, for a transfer.                               *)
Transfer(n) ==
  [regs EXCEPT !.handle = emucall.h, !.iolen = n, !.offset = uio.offset]

(* emu_doread up to REG_OPER, from the loop of emufs_read.                 *)
emu_doread ==
  /\ emucall.op = "read" /\ emucall.at = "loop"
  /\ IF uio.resid = 0 \/ uio.offset > MaxOffset
       THEN Return("ok") /\ UNCHANGED regs
       ELSE /\ regs' = [Transfer(Lesser(uio.resid, EMU_MAXIO))
                          EXCEPT !.oper = "read"]
            /\ emucall' = [emucall EXCEPT !.at = "wait"]
  /\ UNCHANGED <<disk, iobuf, e_result, e_sem, uio>>

(* emu_write up to REG_OPER, from the loop of emufs_write.  uiomove may    *)
(* meet a bad user address, and then no operation is started.              *)
emu_write ==
  LET n == Lesser(uio.resid, EMU_MAXIO) IN
  /\ emucall.op = "write" /\ emucall.at = "loop"
  /\ IF uio.resid = 0 THEN Return("ok") /\ UNCHANGED <<regs, iobuf, uio>>
     ELSE IF uio.offset > MaxOffset
       THEN Return("EFBIG") /\ UNCHANGED <<regs, iobuf, uio>>
     ELSE
       \/ /\ regs' = [Transfer(n) EXCEPT !.oper = "write"]
          /\ iobuf' = SubSeq(Rest, 1, n)
          /\ uio' = [uio EXCEPT !.resid = @ - n, !.offset = @ + n,
                                !.moved = @ \o SubSeq(Rest, 1, n)]
          /\ emucall' = [emucall EXCEPT !.at = "wait"]
       \/ /\ regs' = Transfer(n)
          /\ Return("EFAULT") /\ UNCHANGED <<iobuf, uio>>
  /\ UNCHANGED <<disk, e_result, e_sem>>

(* emu_getsize, emu_trunc and an attempt of emu_close up to REG_OPER.      *)
emu_operate ==
  /\ emucall.op \in {"getsize", "trunc", "close"} /\ emucall.at = "loop"
  /\ regs' = [regs EXCEPT !.handle = emucall.h, !.oper = emucall.op,
                !.iolen = IF emucall.op = "trunc" THEN emucall.start ELSE @]
  /\ emucall' = [emucall EXCEPT !.at = "wait", !.tries = @ + 1]
  /\ UNCHANGED <<disk, iobuf, e_result, e_sem, uio>>

(* emu_waitdone, and the rest of the call: the loop goes round, the close  *)
(* is repeated, or the call returns.                                       *)
MovedIn ==
  LET n == Lesser(regs.iolen, uio.resid) IN
  [resid |-> uio.resid - n, offset |-> regs.offset,
   moved |-> uio.moved \o SubSeq(iobuf, 1, n)]

AfterRead_KeepOffset ==
  /\ uio' = [MovedIn EXCEPT !.offset = uio.offset]
  /\ IF uio'.resid = uio.resid THEN Return("ok")
     ELSE emucall' = [emucall EXCEPT !.at = "loop"]

(* uiomove may meet a bad user address here too; the offset moves even so. *)
AfterRead ==
  \/ /\ uio' = MovedIn
     /\ IF uio'.resid = uio.resid THEN Return("ok")
        ELSE emucall' = [emucall EXCEPT !.at = "loop"]
  \/ /\ regs.iolen > 0
     /\ uio' = [uio EXCEPT !.offset = regs.offset]
     /\ Return("EFAULT")

AfterClose_NoRetry(err) == Return(err)

AfterClose(err) ==
  IF err = "EIO" /\ emucall.tries <= MaxRetries
    THEN emucall' = [emucall EXCEPT !.at = "loop"]
    ELSE Return(err)

emu_waitdone ==
  LET err == translate_err(e_result) IN
  /\ emucall.at = "wait" /\ e_sem > 0
  /\ e_sem' = e_sem - 1
  /\ IF emucall.op = "close" THEN AfterClose(err) /\ UNCHANGED uio
     ELSE IF err # "ok" THEN Return(err) /\ UNCHANGED uio
     ELSE IF emucall.op = "read" THEN AfterRead
     ELSE IF emucall.op = "write"
       THEN emucall' = [emucall EXCEPT !.at = "loop"] /\ UNCHANGED uio
     ELSE /\ emucall' = [emucall EXCEPT !.at = "ret", !.ret = "ok", !.start =
                           IF emucall.op = "getsize" THEN regs.iolen ELSE @]
          /\ UNCHANGED uio
  /\ UNCHANGED <<disk, regs, iobuf, e_result>>

\* Nothing reads the registers and the buffer before the next call sets
\* them: they are put back to one value here.
Returned ==
  /\ emucall.at = "ret"
  /\ emucall' = NoCall /\ uio' = NoUio
  /\ regs' = Quiet /\ iobuf' = << >> /\ e_result' = NULL
  /\ UNCHANGED <<disk, e_sem>>

EmuNext ==
  \/ DeviceFails \/ DeviceReads \/ DeviceWrites \/ DeviceOther
  \/ emu_irq \/ Vop \/ emu_doread \/ emu_write \/ emu_operate
  \/ emu_waitdone \/ Returned

EmuSpec == EmuInit /\ [][EmuNext]_emuvars

-----------------------------------------------------------------------------
(* One operation at the device, one interrupt, one P: the semaphore never  *)
(* counts past 1, and a caller that is not waiting leaves nothing behind   *)
(* (no operation, no unserved result, no count) for the next operation to  *)
(* take for its own answer.                                                *)
AnswersMatch ==
  e_sem + (IF regs.result # NULL THEN 1 ELSE 0)
        + (IF regs.oper # NULL THEN 1 ELSE 0)
    = (IF emucall.at = "wait" THEN 1 ELSE 0)

(* A read that succeeds has moved the file's bytes from the offset asked   *)
(* for, in order and without a gap or a repetition between the pieces, and *)
(* it is short only at the end of the file.                                *)
ReadIsFile ==
  (emucall.op = "read" /\ emucall.at = "ret" /\ emucall.ret = "ok") =>
    LET f == disk[emucall.h]
        n == Len(uio.moved)
    IN  /\ n > 0 => emucall.start + n <= Len(f)
        /\ uio.moved = SubSeq(f, emucall.start + 1, emucall.start + n)
        /\ n < Len(emucall.data) =>
             emucall.start + n >= Len(f)

(* A write that succeeds has put all its bytes in the file, at the offset  *)
(* asked for, whatever the pieces it was cut into.                         *)
WriteReachesFile ==
  (emucall.op = "write" /\ emucall.at = "ret" /\ emucall.ret = "ok") =>
    LET f == disk[emucall.h]
        end == emucall.start + Len(emucall.data)
    IN  /\ end <= Len(f)
        /\ SubSeq(f, emucall.start + 1, end) = emucall.data

(* emu_close gives up on a media error only after its repetitions: the     *)
(* first attempt and MaxRetries more.                                      *)
CloseIsRetried ==
  (emucall.op = "close" /\ emucall.at = "ret" /\ emucall.ret = "EIO") =>
    emucall.tries = MaxRetries + 1

=============================================================================
