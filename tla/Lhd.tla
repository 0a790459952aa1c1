-------------------------------- MODULE Lhd --------------------------------
(***************************************************************************)
(* The LAMEbus disk driver, kern/dev/lamebus/lhd.c.  One request at a time *)
(* owns the device (semaphore lh_clear); it fills the on-card buffer,      *)
(* starts the operation, and waits (lh_done) for the interrupt handler,    *)
(* which clears the status register and leaves the result in lh_result.    *)
(* Buffer, registers and result are shared by every thread and by the      *)
(* handler and have no lock of their own.                                  *)
(***************************************************************************)
EXTENDS Kthread

CONSTANTS
  NSect,      \* d_blocks: sectors on the disk
  Width,      \* bits of an unsigned int
  MaxLen,     \* bound: sectors in one request
  Values,     \* contents of a sector
  Zero        \* contents of a sector never written

VARIABLES
  lh_result,  \* saved by the interrupt handler
  lh_buf,     \* the on-card buffer
  stat,       \* the status register ("idle" is 0)
  sect,       \* the sector register, with the direction of the operation
  disk,       \* external: the sectors
  uio,        \* the request of each thread
  served      \* history: the last operation the disk carried out

Errors == {"EINVAL", "EIO", "EFAULT"}

NoRequest == [rw |-> "read", sector |-> 0, len |-> 0, i |-> 0, data |-> Zero, result |-> "0"]

NoSect == [n |-> 0, rw |-> "read"]
NoneServed == [n |-> 0, rw |-> "read", value |-> Zero, result |-> "0"]

lhdvars == <<lh_result, lh_buf, stat, sect, disk, uio, served>>

LhdInit ==
  /\ lh_result = "0"
  /\ lh_buf = Zero
  /\ stat = "idle"
  /\ sect = NoSect
  /\ disk = [s \in 0 .. NSect - 1 |-> Zero]
  /\ uio = [t \in Threads |-> NoRequest]
  /\ served = NoneServed

\* lhd_io is entered.  Sector alignment is the caller's; the sector is cut to an
\* unsigned int, and the end-of-disk check is made in unsigned arithmetic: a
\* request close to 2^Width wraps and passes it.
lhd_io(t, rw, s, n, v) ==
  /\ pc[t] = "idle"
  /\ IF (s + n) % 2^Width > NSect
     THEN UNCHANGED <<pc, uio>>   \* EINVAL
     ELSE /\ uio' = [uio EXCEPT ![t] = [rw |-> rw, sector |-> s % 2^Width, len |-> n, i |-> 0,
                                        data |-> IF rw = "write" THEN v ELSE Zero,
                                        result |-> "0"]]
          /\ pc' = [pc EXCEPT ![t] = "clear"]
  /\ UNCHANGED <<sem, lh_result, lh_buf, stat, sect, disk, served>>

\* Wait until nobody else is using the device.
TakeDevice(t) ==
  /\ P(t, "lh_clear", "clear", IF uio[t].rw = "write" THEN "fill" ELSE "start")
  /\ UNCHANGED lhdvars

\* A write moves the data to the on-card buffer; a fault gives up the device.
FillBuffer(t) ==
  \/ /\ Step(t, "fill", "start")
     /\ lh_buf' = uio[t].data
     /\ UNCHANGED <<sem, lh_result, stat, sect, disk, uio, served>>
  \/ /\ Step(t, "fill", "idle")
     /\ V("lh_clear")
     /\ uio' = [uio EXCEPT ![t] = NoRequest]   \* EFAULT
     /\ UNCHANGED <<lh_result, lh_buf, stat, sect, disk, served>>

\* The sector an operation is on.
Current(t) == (uio[t].sector + uio[t].i) % 2^Width

\* Mutant: the device is given up as soon as the operation is started.
StartIo_ClearEarly(t) ==
  /\ Step(t, "start", "done")
  /\ sect' = [n |-> Current(t), rw |-> uio[t].rw]
  /\ stat' = "working"
  /\ V("lh_clear")
  /\ UNCHANGED <<lh_result, lh_buf, disk, uio, served>>

\* Tell it what sector we want, and start the operation.
StartIo(t) ==
  /\ Step(t, "start", "done")
  /\ sect' = [n |-> Current(t), rw |-> uio[t].rw]
  /\ stat' = "working"
  /\ UNCHANGED <<sem, lh_result, lh_buf, disk, uio, served>>

\* Wait for the interrupt handler.
AwaitDone(t) ==
  /\ P(t, "lh_done", "done", "result")
  /\ UNCHANGED lhdvars

\* Take the result and, for a read that succeeded, the data, which may fault.
TakeResult(t) ==
  /\ Step(t, "result", "release")
  /\ \E r \in {lh_result} \cup {e \in {"EFAULT"} : lh_result = "0" /\ uio[t].rw = "read"} :
       uio' = [uio EXCEPT ![t].result = r,
                          ![t].data = IF r = "0" /\ uio[t].rw = "read" THEN lh_buf ELSE @]
  /\ UNCHANGED <<sem, lh_result, lh_buf, stat, sect, disk, served>>

\* Let another thread go ahead; return on an error or after the last sector.
\* (The result, the buffer, the sector register and the history are not read
\* again before the next operation sets them; they go back to their first values.)
ReleaseDevice(t) ==
  LET last == uio[t].result # "0" \/ uio[t].i + 1 = uio[t].len IN
  /\ Step(t, "release", IF last THEN "idle" ELSE "clear")
  /\ V("lh_clear")
  /\ uio' = [uio EXCEPT ![t] = IF last THEN NoRequest
                               ELSE [@ EXCEPT !.i = @ + 1]]
  /\ lh_result' = "0"
  /\ lh_buf' = Zero
  /\ sect' = NoSect
  /\ served' = NoneServed
  /\ UNCHANGED <<stat, disk>>

\* External: the disk finishes the operation it was told to do.
DiskCompletes ==
  /\ stat = "working"
  /\ \E code \in IF sect.n < NSect THEN {"ok", "media"} ELSE {"invsect"} :
       /\ stat' = code
       /\ disk' = IF code = "ok" /\ sect.rw = "write" THEN [disk EXCEPT ![sect.n] = lh_buf] ELSE disk
       /\ lh_buf' = IF code = "ok" /\ sect.rw = "read" THEN disk[sect.n] ELSE lh_buf
       /\ served' = [n |-> sect.n, rw |-> sect.rw, value |-> lh_buf',
                     result |-> IF code = "ok" THEN "0" ELSE IF code = "media" THEN "EIO" ELSE "EINVAL"]
  /\ UNCHANGED <<pc, sem, lh_result, sect, uio>>

\* Mutant: a sector the disk does not have is no error.
lhd_code_to_errno_NoSector(code) == IF code = "media" THEN "EIO" ELSE "0"

lhd_code_to_errno(code) ==
  CASE code = "ok" -> "0" [] code = "invsect" -> "EINVAL" [] code = "media" -> "EIO"

\* Is the disk asserting its interrupt?
LhdAsserts == stat \in {"ok", "invsect", "media"}

-----------------------------------------------------------------------------
(* Properties *)

LhdTypeOK ==
  /\ lh_result \in Errors \cup {"0"}
  /\ lh_buf \in Values \cup {Zero}
  /\ stat \in {"idle", "working", "ok", "invsect", "media"}
  /\ sect \in [n : 0 .. 2^Width - 1, rw : {"read", "write"}]
  /\ disk \in [0 .. NSect - 1 -> Values \cup {Zero}]
  /\ uio \in [Threads -> [rw : {"read", "write"}, sector : 0 .. 2^Width - 1, len : 0 .. MaxLen,
                          i : 0 .. MaxLen, data : Values \cup {Zero}, result : Errors \cup {"0"}]]

\* lhd_io: the result and the data a thread takes away are those of its own
\* operation, on its own sector, whatever the other threads, the handler and
\* the disk did in the meantime; a completed write put the thread's data on
\* the disk, and a transfer that succeeds is on a sector of the disk, although
\* the check of lhd_io can overflow: what wraps around is refused by the disk.
OwnCompletion ==
  \A t \in Threads : pc[t] = "release" =>
    /\ served.n = Current(t) /\ served.rw = uio[t].rw
    /\ uio[t].result = "0" => Current(t) < NSect /\ served.value = uio[t].data
    /\ uio[t].result # "EFAULT" => served.result = uio[t].result

\* The threads that own the device: between P(lh_clear) and V(lh_clear).
Owners == {t \in Threads : pc[t] \in {"fill", "start", "done", "result", "release"}}

\* Nobody fills the buffer or starts an operation while one is in progress or
\* its completion has not been collected: status register, buffer and result
\* have one user at a time although no lock protects them.
DeviceHasOneOwner ==
  \A t, u \in Owners : t = u
=============================================================================
