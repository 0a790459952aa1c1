------------------------------ MODULE Console ------------------------------
(***************************************************************************)
(* The console, kern/dev/generic/console.c, on the serial port,            *)
(* kern/dev/lamebus/lser.c.  Output waits for cs_wsem, which the           *)
(* write-done interrupt raises, or polls the port when it may not sleep;   *)
(* input goes from the interrupt handler to the readers through a ring of  *)
(* CONSOLE_INPUT_BUFFER_SIZE characters counted by cs_rsem.  The locks     *)
(* con_io takes are sleep locks, which do nothing in this kernel.          *)
(***************************************************************************)
EXTENDS Kthread, Sequences

CONSTANTS
  Readers,    \* the threads that read the console
  RingSize,   \* CONSOLE_INPUT_BUFFER_SIZE
  Chars,      \* characters that can be typed; "cr" is a carriage return
  Line        \* the characters a write sends; "nl" is a newline

VARIABLES
  gotchars, head, tail,   \* the ring
  unread,                 \* history: accepted and not yet delivered, in order
  ls_wbusy,
  ls_lock,                \* held for long only while lser_writepolled polls
  wirq,                   \* write interrupt register
  rirq,                   \* read interrupt register and the character
  sending,                \* external: is the port shifting a character out?
  tty                     \* what each thread still has to do

convars == <<gotchars, head, tail, unread, ls_wbusy, ls_lock, wirq, rirq, sending, tty>>

NoChar == "none"
Free == "free"
NoTty == [left |-> <<>>, nl |-> FALSE, ch |-> NoChar, pending |-> FALSE]

ConInit ==
  /\ gotchars = [i \in 0 .. RingSize - 1 |-> NoChar]
  /\ head = 0 /\ tail = 0 /\ unread = <<>>
  /\ ls_wbusy = FALSE /\ ls_lock = Free
  /\ wirq = [active |-> FALSE, enable |-> FALSE, force |-> FALSE]
  /\ rirq = [active |-> FALSE, enable |-> FALSE, ch |-> NoChar]
  /\ sending = FALSE
  /\ tty = [t \in Threads |-> NoTty]

\* con_io for a write: the user's characters are sent one at a time.
con_write(t) ==
  /\ Step(t, "idle", "write")
  /\ tty' = [tty EXCEPT ![t].left = Line]
  /\ UNCHANGED <<sem, gotchars, head, tail, unread, ls_wbusy, ls_lock, wirq, rirq, sending>>

\* The next character; a newline sends a carriage return first.  The copy from
\* the user's buffer may fault, which ends the write.
NextChar(t) ==
  /\ pc[t] = "write"
  /\ LET left == tty[t].left IN
     \/ /\ left # <<>>
        /\ pc' = [pc EXCEPT ![t] = "wwait"]
        /\ tty' = [tty EXCEPT ![t] = IF Head(left) = "nl" /\ ~tty[t].nl
                                     THEN [@ EXCEPT !.nl = TRUE]
                                     ELSE [@ EXCEPT !.nl = FALSE, !.left = Tail(left)]]
     \/ /\ left = <<>> \/ ~tty[t].nl
        /\ pc' = [pc EXCEPT ![t] = "idle"]
        /\ tty' = [tty EXCEPT ![t] = NoTty]
  /\ UNCHANGED <<sem, gotchars, head, tail, unread, ls_wbusy, ls_lock, wirq, rirq, sending>>

\* putch_intr waits until the port is clear to write ...
putch_intr(t) ==
  /\ P(t, "wsem", "wwait", "send")
  /\ UNCHANGED convars

\* ... and sends.  lser_write panics when ls_wbusy is set (see ClearToWrite).
lser_write(t) ==
  /\ Step(t, "send", "write")
  /\ ls_lock = Free /\ ~ls_wbusy
  /\ ls_wbusy' = TRUE
  /\ sending' = TRUE
  /\ UNCHANGED <<sem, gotchars, head, tail, unread, ls_lock, wirq, rirq, tty>>

\* Mutant: a character on its way is not waited out.
PolledStart_NoWait(t) ==
  /\ Step(t, "idle", "psend")
  /\ ls_lock = Free
  /\ ls_lock' = t
  /\ tty' = [tty EXCEPT ![t].pending = ls_wbusy]
  /\ wirq' = IF ls_wbusy THEN wirq ELSE [active |-> FALSE, enable |-> FALSE, force |-> FALSE]
  /\ UNCHANGED <<sem, gotchars, head, tail, unread, ls_wbusy, rirq, sending>>

\* putch where the thread may not sleep: lser_writepolled takes the port ...
PolledStart(t) ==
  /\ Step(t, "idle", IF ls_wbusy THEN "ppoll" ELSE "psend")
  /\ ls_lock = Free
  /\ ls_lock' = t
  /\ tty' = [tty EXCEPT ![t].pending = ls_wbusy]
  /\ wirq' = IF ls_wbusy THEN wirq ELSE [active |-> FALSE, enable |-> FALSE, force |-> FALSE]
  /\ UNCHANGED <<sem, gotchars, head, tail, unread, ls_wbusy, rirq, sending>>

\* ... waits out a character already on its way, leaving its interrupt forced,
PolledReady(t) ==
  /\ Step(t, "ppoll", "psend")
  /\ wirq.active
  /\ wirq' = [active |-> FALSE, enable |-> TRUE, force |-> TRUE]
  /\ UNCHANGED <<sem, gotchars, head, tail, unread, ls_wbusy, ls_lock, rirq, sending, tty>>

\* ... sends its own,
PolledSend(t) ==
  /\ Step(t, "psend", "pwait")
  /\ sending' = TRUE
  /\ UNCHANGED <<sem, gotchars, head, tail, unread, ls_wbusy, ls_lock, wirq, rirq, tty>>

\* ... and puts the interrupt register back unless one was pending.
PolledEnd(t) ==
  /\ Step(t, "pwait", "idle")
  /\ wirq.active
  /\ wirq' = IF tty[t].pending THEN wirq ELSE [active |-> FALSE, enable |-> TRUE, force |-> FALSE]
  /\ ls_lock' = Free
  /\ tty' = [tty EXCEPT ![t] = NoTty]
  /\ UNCHANGED <<sem, gotchars, head, tail, unread, ls_wbusy, rirq, sending>>

\* con_io for a read: getch until a newline (the copy out may fault as well).
con_read(t) ==
  /\ t \in Readers
  /\ Step(t, "idle", "rwait")
  /\ UNCHANGED <<sem, convars>>

getch_intr(t) ==
  /\ P(t, "rsem", "rwait", "fetch")
  /\ UNCHANGED convars

\* ret = gotchars[tail]: the character is read ...
FetchChar(t) ==
  /\ Step(t, "fetch", "advance")
  /\ tty' = [tty EXCEPT ![t].ch = gotchars[tail]]
  /\ UNCHANGED <<sem, gotchars, head, tail, unread, ls_wbusy, ls_lock, wirq, rirq, sending>>

\* Mutant: the tail does not wrap around.
AdvanceTail_NoWrap(t) ==
  /\ pc[t] = "advance"
  /\ pc' = [pc EXCEPT ![t] = IF tty[t].ch = "cr" THEN "idle" ELSE "reading"]
  /\ tail' = tail + 1
  /\ unread' = IF unread = <<>> THEN <<>> ELSE Tail(unread)
  /\ gotchars' = [gotchars EXCEPT ![tail] = NoChar]
  /\ tty' = [tty EXCEPT ![t] = NoTty]
  /\ UNCHANGED <<sem, head, ls_wbusy, ls_lock, wirq, rirq, sending>>

\* ... and the tail moved on: delivered.  (The slot is overwritten before it is
\* read again; the model forgets what it held.)
AdvanceTail(t) ==
  /\ pc[t] = "advance"
  /\ pc' = [pc EXCEPT ![t] = IF tty[t].ch = "cr" THEN "idle" ELSE "reading"]
  /\ tail' = (tail + 1) % RingSize
  /\ unread' = IF unread = <<>> THEN <<>> ELSE Tail(unread)
  /\ gotchars' = [gotchars EXCEPT ![tail] = NoChar]
  /\ tty' = [tty EXCEPT ![t] = NoTty]
  /\ UNCHANGED <<sem, head, ls_wbusy, ls_lock, wirq, rirq, sending>>

\* The loop of con_io: another character is wanted, or the buffer is full.
ReadOn(t) ==
  /\ \E l \in {"rwait", "idle"} : Step(t, "reading", l)
  /\ UNCHANGED <<sem, convars>>

\* External: the port finishes a character; the ready condition is set.
PortSent ==
  /\ sending
  /\ sending' = FALSE
  /\ wirq' = [wirq EXCEPT !.active = TRUE]
  /\ UNCHANGED <<pc, sem, gotchars, head, tail, unread, ls_wbusy, ls_lock, rirq, tty>>

\* External: a character is typed; the port holds one at a time (bound: one
\* typed before the port is set up is left for later).
PortReceives ==
  /\ rirq.enable /\ ~rirq.active
  /\ \E ch \in Chars : rirq' = [rirq EXCEPT !.active = TRUE, !.ch = ch]
  /\ UNCHANGED <<pc, sem, gotchars, head, tail, unread, ls_wbusy, ls_lock, wirq, sending, tty>>

LserAsserts ==
  \/ wirq.enable /\ (wirq.active \/ wirq.force)
  \/ rirq.enable /\ rirq.active

ConThread(t) ==
  \/ con_write(t) \/ NextChar(t) \/ putch_intr(t) \/ lser_write(t)
  \/ PolledStart(t) \/ PolledReady(t) \/ PolledSend(t) \/ PolledEnd(t)
  \/ con_read(t) \/ getch_intr(t) \/ FetchChar(t) \/ AdvanceTail(t) \/ ReadOn(t)

-----------------------------------------------------------------------------
(* Properties *)

ConTypeOK ==
  /\ gotchars \in [0 .. RingSize - 1 -> Chars \cup {NoChar}]
  /\ head \in 0 .. RingSize - 1 /\ tail \in 0 .. RingSize - 1
  /\ ls_lock \in Threads \cup {Free}
  /\ \A t \in Threads : tty[t].ch \in Chars \cup {NoChar}

\* What the ring holds, oldest first.
Ring ==
  [i \in 1 .. (head - tail) % RingSize |-> gotchars[(tail + i - 1) % RingSize]]

\* con_input, getch_intr: the ring holds exactly the characters accepted and
\* not yet read, in the order typed; a reader that has one in hand has the
\* oldest; a full ring loses new characters, never old ones.
RingIsFifo ==
  /\ Ring = unread
  /\ \A t \in Threads : pc[t] = "advance" => unread # <<>> /\ tty[t].ch = Head(unread)

\* putch_intr, lser_write, lser_writepolled: the port is never given a
\* character while it is still sending one, by any mix of sleeping writers,
\* polling writers and interrupts; the panic of lser_write cannot happen.
ClearToWrite ==
  \A t \in Threads :
    /\ pc[t] = "send" => ~ls_wbusy /\ (ls_lock = Free => ~sending)
    /\ pc[t] = "psend" => ~sending
=============================================================================
