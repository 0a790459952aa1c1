------------------------------ MODULE Devices ------------------------------
(***************************************************************************)
(* The devices on the LAMEbus: their configuration at boot                 *)
(* (compile/DEMANDVM/autoconf.c and the *_att.c files), the interrupt      *)
(* dispatcher (kern/dev/lamebus/lamebus.c) that the boot cpu runs, and the *)
(* disk, console and timer drivers under it, used by threads on any cpu.   *)
(* Interrupts are on while the devices are configured.                     *)
(***************************************************************************)
EXTENDS Lhd, Console, FiniteSets, FiniteSetsExt

CONSTANTS
  NSlots,     \* LB_NSLOTS
  Buses,      \* the machines: what is in each slot
  MaxDuds,    \* the 10000 of lamebus_interrupt
  MaxNap      \* bound: seconds in one clocksleep

VARIABLES
  bus,                    \* the machine this is
  slotsinuse, irqfuncs,   \* lamebus_softc
  duds,                   \* bogus interrupts in a row
  boot,                   \* autoconf_lamebus: driver, step and slot
  conready,               \* the console: "none", "attached" to the port, "ready"
  ticking,                \* does a timer run the timer clock, and is its line asserted?
  alien,                  \* external: is a device without a driver interrupting?
  nap,                    \* seconds each thread still has to sleep
  intr,                   \* the interrupt handler of the boot cpu
  dead                    \* panicked, or called through a pointer never set

busvars == <<bus, slotsinuse, irqfuncs, duds, boot, conready, ticking, alien, nap>>
vars == <<pc, sem, lhdvars, convars, busvars, intr, dead>>

Slots == 0 .. NSlots - 1
NoHandler == "none"

\* autoconf_lamebus tries the drivers in this order.
Drivers == <<"emu", "ltrace", "ltimer", "lrandom", "lhd", "lser">>

\* ltrace and lrandom do not attach an interrupt handler.
Interrupting == {"emu", "ltimer", "lhd", "lser"}

NoIntr == [at |-> "off", irqs |-> {}, slot |-> 0, dud |-> FALSE, input |-> NoChar, errno |-> "0"]

Init ==
  /\ bus \in Buses
  /\ pc = [t \in Threads |-> "idle"]
  /\ sem = [s \in {"lh_clear", "lh_done", "wsem", "rsem"} |-> 0]
  /\ LhdInit /\ ConInit
  /\ slotsinuse = {} /\ irqfuncs = [s \in Slots |-> NoHandler] /\ duds = 0
  /\ boot = [driver |-> 1, step |-> "probe", slot |-> 0]
  /\ conready = "none"
  /\ ticking = [on |-> FALSE, irq |-> {}]
  /\ alien = FALSE
  /\ nap = [t \in Threads |-> 0]
  /\ intr = NoIntr
  /\ dead = FALSE

-----------------------------------------------------------------------------
(* Boot: autoconf_lamebus, on the boot cpu, so never inside a handler *)

Kind == Drivers[boot.driver]
Booting == intr.at = "off" /\ boot.step # "up"

\* The do-while loop over units of one driver ends: on to the next driver.
NextDriver ==
  IF boot.driver = Len(Drivers) THEN [boot EXCEPT !.step = "up", !.slot = 0]
  ELSE [driver |-> boot.driver + 1, step |-> "probe", slot |-> 0]

SameDriver == [boot EXCEPT !.step = "probe", !.slot = 0]

\* Mutant: the slots already in use are looked at again.
lamebus_probe_InUse(kind) == {s \in Slots : bus[s] = kind}

\* lamebus_probe: the first slot not in use with the driver's ids.
lamebus_probe(kind) == {s \in Slots \ slotsinuse : bus[s] = kind}

\* attach_X_to_lamebus finds a device and allocates its softc, or gives up.
AttachProbe ==
  /\ Booting /\ boot.step = "probe"
  /\ \/ /\ lamebus_probe(Kind) # {}
        /\ boot' = [boot EXCEPT !.step = "mark", !.slot = Min(lamebus_probe(Kind))]
     \/ boot' = NextDriver
  /\ UNCHANGED <<pc, sem, lhdvars, convars, bus, slotsinuse, irqfuncs, duds, conready, ticking, alien,
                 nap, intr, dead>>

\* lamebus_mark
lamebus_mark ==
  /\ Booting /\ boot.step = "mark"
  /\ IF boot.slot \in slotsinuse
     THEN dead' = TRUE /\ UNCHANGED <<slotsinuse, boot>>
     ELSE /\ slotsinuse' = slotsinuse \cup {boot.slot}
          /\ boot' = [boot EXCEPT !.step = IF Kind \in Interrupting THEN "attach" ELSE "config"]
          /\ UNCHANGED dead
  /\ UNCHANGED <<pc, sem, lhdvars, convars, bus, irqfuncs, duds, conready, ticking, alien, nap, intr>>

lamebus_attach_interrupt ==
  /\ Booting /\ boot.step = "attach"
  /\ IF boot.slot \notin slotsinuse \/ irqfuncs[boot.slot] # NoHandler
     THEN dead' = TRUE /\ UNCHANGED <<irqfuncs, boot>>
     ELSE /\ irqfuncs' = [irqfuncs EXCEPT ![boot.slot] = Kind]
          /\ boot' = [boot EXCEPT !.step = "config"]
          /\ UNCHANGED dead
  /\ UNCHANGED <<pc, sem, lhdvars, convars, bus, slotsinuse, duds, conready, ticking, alien, nap, intr>>

\* config_X fails: the slot stays marked and the handler attached.
ConfigFails ==
  /\ Booting /\ boot.step = "config" /\ Kind \in {"lhd", "emu"}
  /\ boot' = NextDriver
  /\ UNCHANGED <<pc, sem, lhdvars, convars, bus, slotsinuse, irqfuncs, duds, conready, ticking, alien,
                 nap, intr, dead>>

config_lhd ==
  /\ Booting /\ boot.step = "config" /\ Kind = "lhd"
  /\ sem' = [sem EXCEPT !["lh_clear"] = 1, !["lh_done"] = 0]
  /\ boot' = SameDriver
  /\ UNCHANGED <<pc, lhdvars, convars, bus, slotsinuse, irqfuncs, duds, conready, ticking, alien, nap,
                 intr, dead>>

\* The first timer runs the timer clock.
config_ltimer ==
  /\ Booting /\ boot.step = "config" /\ Kind = "ltimer"
  /\ ticking' = [ticking EXCEPT !.on = TRUE]
  /\ boot' = SameDriver
  /\ UNCHANGED <<pc, sem, lhdvars, convars, bus, slotsinuse, irqfuncs, duds, conready, alien, nap, intr,
                 dead>>

\* The drivers without state here (emu, ltrace, lrandom).
ConfigOther ==
  /\ Booting /\ boot.step = "config" /\ Kind \in {"emu", "ltrace", "lrandom"}
  /\ boot' = SameDriver
  /\ UNCHANGED <<pc, sem, lhdvars, convars, bus, slotsinuse, irqfuncs, duds, conready, ticking, alien,
                 nap, intr, dead>>

\* config_lser turns the port's interrupts on; autoconf_lser then attaches the
\* console to the first port.
config_lser ==
  /\ Booting /\ boot.step = "config" /\ Kind = "lser"
  /\ rirq' = [rirq EXCEPT !.enable = TRUE]
  /\ wirq' = [wirq EXCEPT !.enable = TRUE]
  /\ ls_wbusy' = FALSE
  /\ boot' = IF conready # "ready" THEN [boot EXCEPT !.step = "con"] ELSE SameDriver
  /\ UNCHANGED <<pc, sem, lhdvars, gotchars, head, tail, unread, ls_lock, sending, tty, bus, slotsinuse,
                 irqfuncs, duds, conready, ticking, alien, nap, intr, dead>>

\* attach_con_to_lser sets the callbacks of the port, config_con the rest.
attach_con_to_lser ==
  /\ Booting /\ boot.step = "con"
  /\ \/ conready' = "attached" /\ boot' = [boot EXCEPT !.step = "confcon"]
     \/ boot' = SameDriver /\ UNCHANGED conready
  /\ UNCHANGED <<pc, sem, lhdvars, convars, bus, slotsinuse, irqfuncs, duds, ticking, alien, nap, intr,
                 dead>>

config_con ==
  /\ Booting /\ boot.step = "confcon"
  /\ boot' = SameDriver
  /\ \/ /\ sem' = [sem EXCEPT !["rsem"] = 0, !["wsem"] = 1]
        /\ head' = 0 /\ tail' = 0
        /\ conready' = "ready"
     \/ UNCHANGED <<sem, head, tail, conready>>
  /\ UNCHANGED <<pc, lhdvars, gotchars, unread, ls_wbusy, ls_lock, wirq, rirq, sending, tty, bus,
                 slotsinuse, irqfuncs, duds, ticking, alien, nap, intr, dead>>

autoconf ==
  \/ AttachProbe \/ lamebus_mark \/ lamebus_attach_interrupt \/ ConfigFails \/ config_lhd
  \/ config_ltimer \/ ConfigOther \/ config_lser \/ attach_con_to_lser \/ config_con

-----------------------------------------------------------------------------
(* Interrupts.  Every slot is routed to the boot cpu alone. *)

\* The LAMEbus controller register IRQS.
IRQS ==
  {s \in Slots : \/ bus[s] = "lhd" /\ LhdAsserts
                 \/ bus[s] = "lser" /\ LserAsserts
                 \/ s \in ticking.irq
                 \/ bus[s] = "alien" /\ alien}

\* A slot interrupts the boot cpu.
Interrupted ==
  /\ intr.at = "off" /\ IRQS # {}
  /\ intr' = [NoIntr EXCEPT !.at = "enter"]
  /\ UNCHANGED <<pc, sem, lhdvars, convars, busvars, dead>>

\* lamebus_interrupt reads IRQS; by now there may be none (a stray interrupt).
lamebus_interrupt ==
  /\ intr.at = "enter"
  /\ intr' = [NoIntr EXCEPT !.at = "scan", !.irqs = IRQS, !.dud = (IRQS = {})]
  /\ duds' = IF IRQS = {} THEN duds + 1 ELSE duds
  /\ UNCHANGED <<pc, sem, lhdvars, convars, bus, slotsinuse, irqfuncs, boot, conready, ticking, alien,
                 nap, dead>>

Pending == {s \in intr.irqs : s >= intr.slot}

\* The next slot that signals: its handler is called with the bus unlocked; a
\* slot without a driver or a handler is a dud.
ScanSlot ==
  /\ intr.at = "scan" /\ Pending # {}
  /\ LET s == Min(Pending)
         handled == s \in slotsinuse /\ irqfuncs[s] # NoHandler IN
     /\ intr' = [intr EXCEPT !.slot = IF handled THEN s ELSE s + 1,
                             !.at = IF handled THEN irqfuncs[s] ELSE "scan",
                             !.dud = @ \/ ~handled]
     /\ duds' = IF handled THEN duds ELSE duds + 1
  /\ UNCHANGED <<pc, sem, lhdvars, convars, bus, slotsinuse, irqfuncs, boot, conready, ticking, alien,
                 nap, dead>>

\* No slot is left: without duds this time the count starts again; too many
\* are a panic.
ScanEnd ==
  /\ intr.at = "scan" /\ Pending = {}
  /\ intr' = NoIntr
  /\ duds' = IF intr.dud THEN duds ELSE 0
  /\ dead' = (duds' > MaxDuds)
  /\ UNCHANGED <<pc, sem, lhdvars, convars, bus, slotsinuse, irqfuncs, boot, conready, ticking, alien,
                 nap>>

\* A handler has returned: IRQS is read again.
Reload ==
  /\ intr.at = "reload"
  /\ intr' = [intr EXCEPT !.at = "scan", !.irqs = IRQS, !.slot = @ + 1]
  /\ UNCHANGED <<pc, sem, lhdvars, convars, busvars, dead>>

\* Mutant: the completion is signalled before the status register is cleared.
lhd_irq_Late ==
  /\ intr.at = "lhd"
  /\ IF LhdAsserts
     THEN intr' = [intr EXCEPT !.at = "iodone", !.errno = lhd_code_to_errno(stat)]
     ELSE intr' = [intr EXCEPT !.at = "reload"]
  /\ IF LhdAsserts /\ sem["lh_done"] = 0 THEN V("lh_done") ELSE UNCHANGED sem
  /\ UNCHANGED <<pc, lh_result, lh_buf, stat, sect, disk, uio, served, convars, busvars, dead>>

\* Mutant: only a successful operation is reported.
lhd_irq_OnlyOk ==
  /\ intr.at = "lhd"
  /\ IF stat = "ok"
     THEN /\ intr' = [intr EXCEPT !.at = "iodone", !.errno = lhd_code_to_errno(stat)]
          /\ stat' = "idle"
     ELSE intr' = [intr EXCEPT !.at = "reload"] /\ UNCHANGED stat
  /\ UNCHANGED <<pc, sem, lh_result, lh_buf, sect, disk, uio, served, convars, busvars, dead>>

\* lhd_irq clears the status register of a finished operation ...
lhd_irq ==
  /\ intr.at = "lhd"
  /\ IF LhdAsserts
     THEN /\ intr' = [intr EXCEPT !.at = "iodone", !.errno = lhd_code_to_errno(stat)]
          /\ stat' = "idle"
     ELSE intr' = [intr EXCEPT !.at = "reload"] /\ UNCHANGED stat
  /\ UNCHANGED <<pc, sem, lh_result, lh_buf, sect, disk, uio, served, convars, busvars, dead>>

\* ... and lhd_iodone reports it.
lhd_iodone ==
  /\ intr.at = "iodone"
  /\ lh_result' = intr.errno
  /\ V("lh_done")
  /\ intr' = [intr EXCEPT !.at = "reload", !.errno = "0"]
  /\ UNCHANGED <<pc, lh_buf, stat, sect, disk, uio, served, convars, busvars, dead>>

\* ltimer_irq, timerclock: reading the register clears it; the timer that runs
\* the timer clock wakes every thread on lbolt.
ltimer_irq ==
  /\ intr.at = "ltimer"
  /\ LET woken == {t \in Threads : pc[t] = "lbolt"} IN
     /\ ticking' = [ticking EXCEPT !.irq = @ \ {intr.slot}]
     /\ nap' = [t \in Threads |-> IF t \in woken THEN nap[t] - 1 ELSE nap[t]]
     /\ pc' = [t \in Threads |-> IF t \in woken THEN "woken" ELSE pc[t]]
  /\ intr' = [intr EXCEPT !.at = "reload"]
  /\ UNCHANGED <<sem, lhdvars, convars, bus, slotsinuse, irqfuncs, duds, boot, conready, alien, dead>>

\* Mutant: the write callback is made for every interrupt of the port.
lser_irq_AlwaysStart ==
  /\ intr.at = "lser" /\ ls_lock = Free
  /\ ls_wbusy' = (ls_wbusy /\ ~wirq.active)
  /\ wirq' = IF wirq.active THEN [active |-> FALSE, enable |-> TRUE, force |-> FALSE] ELSE wirq
  /\ rirq' = [rirq EXCEPT !.active = FALSE, !.ch = NoChar]
  /\ intr' = [intr EXCEPT !.at = "start",
                          !.input = IF rirq.active THEN rirq.ch ELSE NoChar]
  /\ UNCHANGED <<pc, sem, lhdvars, gotchars, head, tail, unread, ls_lock, sending, tty, busvars, dead>>

\* lser_irq under ls_lock: a finished write frees the port, a character read
\* is held in hand.  The callbacks come after the lock is released.
lser_irq ==
  /\ intr.at = "lser" /\ ls_lock = Free
  /\ ls_wbusy' = (ls_wbusy /\ ~wirq.active)
  /\ wirq' = IF wirq.active THEN [active |-> FALSE, enable |-> TRUE, force |-> FALSE] ELSE wirq
  /\ rirq' = [rirq EXCEPT !.active = FALSE, !.ch = NoChar]
  /\ intr' = [intr EXCEPT !.at = IF wirq.active THEN "start" ELSE IF rirq.active THEN "input" ELSE "reload",
                          !.input = IF rirq.active THEN rirq.ch ELSE NoChar]
  /\ UNCHANGED <<pc, sem, lhdvars, gotchars, head, tail, unread, ls_lock, sending, tty, busvars, dead>>

con_start ==
  /\ intr.at = "start"
  /\ V("wsem")
  /\ intr' = [intr EXCEPT !.at = IF intr.input # NoChar THEN "input" ELSE "reload"]
  /\ UNCHANGED <<pc, lhdvars, convars, busvars, dead>>

\* Mutant: the check for a full ring is left out.
con_input_NoCheck ==
  /\ intr.at = "input"
  /\ gotchars' = [gotchars EXCEPT ![head] = intr.input]
  /\ head' = (head + 1) % RingSize
  /\ unread' = Append(unread, intr.input)
  /\ intr' = [intr EXCEPT !.at = "vrsem", !.input = NoChar]
  /\ UNCHANGED <<pc, sem, lhdvars, tail, ls_wbusy, ls_lock, wirq, rirq, sending, tty, busvars, dead>>

\* Mutant: a dropped character is counted as well.
con_input_CountDropped ==
  /\ intr.at = "input"
  /\ dead' \in CASE conready = "ready" -> {FALSE} [] conready = "none" -> BOOLEAN [] OTHER -> {TRUE}
  /\ LET nexthead == (head + 1) % RingSize
         stored == conready = "ready" /\ nexthead # tail IN
     /\ gotchars' = IF stored THEN [gotchars EXCEPT ![head] = intr.input] ELSE gotchars
     /\ head' = IF stored THEN nexthead ELSE head
     /\ unread' = IF stored THEN Append(unread, intr.input) ELSE unread
     /\ intr' = [intr EXCEPT !.at = "vrsem", !.input = NoChar]
  /\ UNCHANGED <<pc, sem, lhdvars, tail, ls_wbusy, ls_lock, wirq, rirq, sending, tty, busvars>>

\* con_input drops the character when the ring is full, else stores it ...
\* Before config_con there is no ring and no semaphore to use, and before
\* attach_con_to_lser the port's ls_input was never set: whatever it holds is
\* called unless it is NULL.
con_input ==
  /\ intr.at = "input"
  /\ dead' \in CASE conready = "ready" -> {FALSE} [] conready = "none" -> BOOLEAN [] OTHER -> {TRUE}
  /\ LET nexthead == (head + 1) % RingSize
         stored == conready = "ready" /\ nexthead # tail IN
     /\ gotchars' = IF stored THEN [gotchars EXCEPT ![head] = intr.input] ELSE gotchars
     /\ head' = IF stored THEN nexthead ELSE head
     /\ unread' = IF stored THEN Append(unread, intr.input) ELSE unread
     /\ intr' = [intr EXCEPT !.at = IF stored THEN "vrsem" ELSE "reload", !.input = NoChar]
  /\ UNCHANGED <<pc, sem, lhdvars, tail, ls_wbusy, ls_lock, wirq, rirq, sending, tty, busvars>>

\* ... and counts it.
CountInput ==
  /\ intr.at = "vrsem"
  /\ V("rsem")
  /\ intr' = [intr EXCEPT !.at = "reload"]
  /\ UNCHANGED <<pc, lhdvars, convars, busvars, dead>>

Handler ==
  \/ Interrupted \/ lamebus_interrupt \/ ScanSlot \/ ScanEnd \/ Reload
  \/ lhd_irq \/ lhd_iodone \/ ltimer_irq \/ lser_irq \/ con_start \/ con_input \/ CountInput

-----------------------------------------------------------------------------
(* Threads, and the devices themselves *)

Up == boot.step = "up"

\* clocksleep: one second at a time, on lbolt (bound: nobody sleeps on a
\* machine without a timer).
clocksleep(t) ==
  \/ /\ Up /\ ticking.on /\ Step(t, "idle", "lbolt")
     /\ nap' \in {[nap EXCEPT ![t] = n] : n \in 1 .. MaxNap}
  \/ Step(t, "woken", IF nap[t] > 0 THEN "lbolt" ELSE "idle") /\ UNCHANGED nap

\* Was the disk configured, so that the VFS knows it?
HasDisk == sem["lh_clear"] + Cardinality(Owners) > 0

DiskThread(t) ==
  \/ /\ Up /\ pc[t] = "idle" /\ HasDisk
     /\ \E rw \in {"read", "write"}, s \in 0 .. 2^Width - 1, n \in 1 .. MaxLen, v \in Values :
          (rw = "read" => v = CHOOSE x \in Values : TRUE) /\ lhd_io(t, rw, s, n, v)
  \/ TakeDevice(t) \/ FillBuffer(t) \/ StartIo(t) \/ AwaitDone(t) \/ TakeResult(t) \/ ReleaseDevice(t)

Thread(t) ==
  /\ \/ DiskThread(t) /\ UNCHANGED <<convars, nap>>
     \/ Up /\ conready = "ready" /\ ConThread(t) /\ UNCHANGED <<lhdvars, nap>>
     \/ clocksleep(t) /\ UNCHANGED <<sem, lhdvars, convars>>
  /\ UNCHANGED <<bus, slotsinuse, irqfuncs, duds, boot, conready, ticking, alien, intr, dead>>

\* External: a second passes on a timer that was told to interrupt (bound: a
\* second in which nobody sleeps is left out, it would wake nobody).
Tick ==
  /\ ticking.on /\ \E t \in Threads : pc[t] = "lbolt"
  /\ ticking' = [ticking EXCEPT !.irq = {Min({s \in slotsinuse : bus[s] = "ltimer"})}]
  /\ UNCHANGED <<pc, sem, lhdvars, convars, bus, slotsinuse, irqfuncs, duds, boot, conready, alien, nap,
                 intr, dead>>

\* External: a device nobody drives asserts its line, or lets go of it (bound:
\* it starts to only while the bus is being configured).
Alien ==
  /\ \E s \in Slots : bus[s] = "alien"
  /\ alien \/ ~Up
  /\ alien' = ~alien
  /\ UNCHANGED <<pc, sem, lhdvars, convars, bus, slotsinuse, irqfuncs, duds, boot, conready, ticking,
                 nap, intr, dead>>

Hardware ==
  \/ DiskCompletes /\ UNCHANGED <<convars, busvars, intr, dead>>
  \/ PortSent /\ UNCHANGED <<lhdvars, busvars, intr, dead>>
  \/ PortReceives /\ UNCHANGED <<lhdvars, busvars, intr, dead>>
  \/ Tick \/ Alien

Next ==
  /\ ~dead
  /\ \/ autoconf \/ Handler \/ Hardware
     \/ \E t \in Threads : Thread(t)

Spec == Init /\ [][Next]_vars

\* The steps of a call that has been made, as opposed to making one.
Continue(t) ==
  pc[t] # "idle" /\ Thread(t) /\ ~dead

\* The boot cpu goes on configuring and serving interrupts, the scheduler runs
\* every thread that can run, and the devices finish what they are told to do.
\* Nobody has to type.
FairSpec ==
  /\ Spec
  /\ WF_vars(~dead /\ (autoconf \/ Handler))
  /\ WF_vars(~dead /\ DiskCompletes /\ UNCHANGED <<convars, busvars, intr, dead>>)
  /\ \A t \in Threads : WF_vars(Continue(t))

\* Every variable has its type; no semaphore counts past the ring.
TypeOK ==
  /\ sem \in [{"lh_clear", "lh_done", "wsem", "rsem"} -> 0 .. RingSize]
  /\ slotsinuse \subseteq Slots
  /\ duds \in 0 .. MaxDuds + 1 + NSlots
  /\ nap \in [Threads -> 0 .. MaxNap]
  /\ dead \in BOOLEAN

CountAt(labels) == Cardinality({t \in Threads : pc[t] \in labels})
One(b) == IF b THEN 1 ELSE 0

\* lamebus_probe, _mark, _attach_interrupt: no slot is claimed twice and every
\* handler serves a device of its own kind, so that neither of the panics of
\* the configuration can happen and an interrupt reaches the right driver,
\* wherever in the configuration it arrives.
AttachmentsMatch ==
  /\ \A s \in Slots : irqfuncs[s] # NoHandler => s \in slotsinuse /\ irqfuncs[s] = bus[s]
  /\ boot.step = "mark" => boot.slot \notin slotsinuse
  /\ boot.step = "attach" => irqfuncs[boot.slot] = NoHandler

\* putch_intr, lser_irq, con_start: the right to write is never lost and never
\* doubled: it is the count of cs_wsem, a writer about to send, a character on
\* its way, or a write-done interrupt being reported.
WriteTokenConserved ==
  conready = "ready" =>
    sem["wsem"] + CountAt({"send"}) + One(ls_wbusy) + One(intr.at = "start") = 1

\* con_input, getch_intr: cs_rsem counts the characters in the ring that no
\* reader has been let through to, so no reader waits for a character that is
\* there or takes one that is not.
RingCounted ==
  sem["rsem"] + CountAt({"fetch", "advance"}) + One(intr.at = "vrsem") = Len(unread)

\* The state has its shape and the dispatcher's table matches the bus, while
\* devices are configured and ever after.
BusMatches == TypeOK /\ AttachmentsMatch

\* Requests and the completions the handler reports never get mixed up: the
\* device has one user, and each takes away the answer to its own request.
DiskAnswers == LhdTypeOK /\ OwnCompletion /\ DeviceHasOneOwner

\* Typed characters reach readers in order, each once, and nobody waits for one
\* that is there, through a full ring and interrupts at any point.
InputIsQueue == ConTypeOK /\ RingIsFifo /\ RingCounted

\* Sleeping writers, polling writers and write-done interrupts share the port
\* without overrunning it, and the right to write is not lost.
OutputIsOrderly == ClearToWrite /\ WriteTokenConserved

\* lhd_io, lhd_irq: an operation that was started is completed and collected,
\* and the device given up for the next one, unless the kernel has panicked.
DiskIsReleased ==
  (Owners # {}) ~> (Owners = {} \/ dead)
=============================================================================
