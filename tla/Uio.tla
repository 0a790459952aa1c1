--------------------------------- MODULE Uio ---------------------------------
(***************************************************************************)
(* uiomove and uiomovezeros (lib/uio.c): one transfer described by a uio,  *)
(* moved in as many calls as its user likes, over a list of buffers some   *)
(* of which may be empty.  Every iteration of the loop of uiomove is a     *)
(* step; with user buffers, each may fail with EFAULT.                     *)
(***************************************************************************)
EXTENDS Integers, Sequences, SequencesExt, Folds

CONSTANTS MaxIov,       \* bound: buffers of a uio
          MaxIovLen,    \* bound: length of a buffer
          MaxMove,      \* bound: what one call is asked to move
          ZEROS         \* size of the block of zeros: 16 in the code

VARIABLES iov,      \* the lengths of the buffers that are left
          resid, uoffset,
          left,     \* n of the uiomove in progress
          zleft,    \* n of the uiomovezeros in progress
          moving,   \* "idle", "move", or how the transfer ended
          request   \* history: the buffers and resid the uio began with, and
                    \* what the call in progress still has to move

uiovars == <<iov, resid, uoffset, left, zleft, moving, request>>

Lower(a, b) == IF a < b THEN a ELSE b
Total(lens) == FoldSeq(LAMBDA x, y : x + y, 0, lens)

(* uio_kinit and the uios of the system calls set resid to what the        *)
(* buffers hold; sfs_io lowers it at the end of the file.                  *)
UioInit ==
  /\ iov \in UNION {[1..k -> 0..MaxIovLen] : k \in 1..MaxIov}
  /\ resid \in 0 .. Total(iov)
  /\ uoffset = 0 /\ left = 0 /\ zleft = 0 /\ moving = "idle"
  /\ request = [total |-> Total(iov), resid |-> resid, call |-> 0]

\* uiomove does not look at resid when it cuts a piece: whoever has lowered
\* it asks for no more than it (sfs_io).
MayAsk(n) == n <= resid \/ resid = Total(iov)

uiomove ==
  /\ moving = "idle"
  /\ \E n \in 1..MaxMove :
       /\ MayAsk(n)
       /\ left' = n
       /\ request' = [request EXCEPT !.call = Lower(n, resid)]
  /\ moving' = "move"
  /\ UNCHANGED <<iov, resid, uoffset, zleft>>

(* uiomovezeros: a call of uiomove for each piece, whether or not the uio  *)
(* can still take it.                                                      *)
uiomovezeros ==
  /\ moving = "idle"
  /\ \E n \in 1..MaxMove :
       /\ MayAsk(n)
       /\ left' = Lower(ZEROS, n) /\ zleft' = n - Lower(ZEROS, n)
       /\ request' = [request EXCEPT !.call = Lower(n, resid)]
  /\ moving' = "move"
  /\ UNCHANGED <<iov, resid, uoffset>>

More == moving = "move" /\ left > 0 /\ resid > 0

(* The first buffer is used up: go to the next one.                        *)
NextIov_Skip ==
  /\ More /\ Head(iov) <= 1
  /\ iov' = Tail(iov)
  /\ moving' = IF iov' = << >> THEN "panic" ELSE moving
  /\ UNCHANGED <<resid, uoffset, left, zleft, request>>

NextIov ==
  /\ More /\ Head(iov) = 0
  /\ iov' = Tail(iov)
  /\ moving' = IF iov' = << >> THEN "panic" ELSE moving
  /\ UNCHANGED <<resid, uoffset, left, zleft, request>>

MoveSome_Size(size) ==
  /\ iov' = [iov EXCEPT ![1] = @ - size]
  /\ resid' = resid - size /\ uoffset' = uoffset + size
  /\ left' = 0

MoveSome(size) ==
  /\ iov' = [iov EXCEPT ![1] = @ - size]
  /\ resid' = resid - size /\ uoffset' = uoffset + size
  /\ left' = left - size

Iterate ==
  /\ More /\ Head(iov) > 0
  /\ \/ LET size == Lower(Head(iov), left) IN
        /\ MoveSome(size)
        /\ request' = [request EXCEPT !.call = @ - size]
        /\ UNCHANGED moving
     \/ moving' = "EFAULT" /\ UNCHANGED <<iov, resid, uoffset, left, request>>
  /\ UNCHANGED zleft

Done ==
  /\ moving = "move" /\ ~More
  /\ IF zleft > 0
       THEN /\ left' = Lower(ZEROS, zleft) /\ zleft' = zleft - Lower(ZEROS, zleft)
            /\ UNCHANGED moving
       ELSE moving' = "idle" /\ left' = 0 /\ UNCHANGED zleft
  /\ UNCHANGED <<iov, resid, uoffset, request>>

UioNext == uiomove \/ uiomovezeros \/ NextIov \/ Iterate \/ Done

UioSpec == UioInit /\ [][UioNext]_uiovars

-----------------------------------------------------------------------------
(* However the transfer is cut into calls, resid, the offset and the       *)
(* buffers go on agreeing, also after an EFAULT in the middle, and uiomove *)
(* never runs out of buffers.                                              *)
UioAgrees ==
  /\ uoffset = request.resid - resid
  /\ uoffset = request.total - Total(iov)
  /\ resid >= 0 /\ moving # "panic"

(* A call that returns 0 has moved all it was asked for, or all the uio    *)
(* had left.                                                               *)
UioCallComplete == moving = "idle" => request.call = 0
=============================================================================
