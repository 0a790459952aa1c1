----------------------------- MODULE MCServices -----------------------------
(* What the rest of the kernel is built on, checked side by side:          *)
(* semaphores, spinlocks and traps, the emulator's device protocol, the    *)
(* containers, uios, text formatting and input, string functions and long  *)
(* arithmetic.  A behaviour is one of the part its first state names; the  *)
(* variables of the other parts do not change.                             *)
EXTENDS Semaphore, Spinlock

CONSTANTS
  HALF_BITS,
  EmuFiles, EMU_MAXIO, MaxOffset, MaxLen, MaxRetries,
  BITS_PER_WORD, BitmapSizes, Values, Junk, MaxNum, ListThreads, Lists,
  MaxIov, MaxIovLen, MaxMove, ZEROS,
  INT_WIDTH, LLONG_WIDTH, Arguments, Lengths, MaxFormat, MaxSpacing, maxlen,
  MEMSIZE, WORD, UNSIGNED_BITS, MaxString

VARIABLES
  part,
  a, b,
  disk, regs, iobuf, e_result, e_sem, emucall, uio,
  nbits, v, marked, bmret,
  num, max, slots, list, arret,
  next, prev, tl_count, order,
  iov, resid, uoffset, left, zleft, moving, request,
  pf, out, snp, last, nformat,
  line, screen, typed, returned,
  dst, src, len, str

Arith == INSTANCE LongLong
Emulator == INSTANCE Emu
Bits == INSTANCE Bitmap WITH Sizes <- BitmapSizes
Table == INSTANCE Array
Queues == INSTANCE Threadlist WITH Threads <- ListThreads
Transfer == INSTANCE Uio
Format == INSTANCE Printf
Input == INSTANCE Kgets
String == INSTANCE Strings

arith == <<a, b>>
emu == <<disk, regs, iobuf, e_result, e_sem, emucall, uio>>
bitmap == <<nbits, v, marked, bmret>>
array == <<num, max, slots, list, arret>>
threadlist == <<next, prev, tl_count, order>>
uiomoves == <<iov, resid, uoffset, left, zleft, moving, request>>
printf == <<pf, out, snp, last, nformat>>
kgets == <<line, screen, typed, returned>>
strings == <<dst, src, len, str>>

svcvars == <<part, semvars, arith, spinvars, emu, bitmap, array, threadlist,
             uiomoves, printf, kgets, strings>>

(* Parts with many initial states start in all of them when their turn     *)
(* comes, and in one otherwise.                                            *)
SvcInit ==
  /\ part \in {"semaphore", "arith", "spin", "emu", "bitmap", "array",
               "threadlist", "uio", "printf", "kgets", "strings"}
  /\ sem_create
  /\ IF part = "arith" THEN Arith!LLInit
     ELSE /\ a = 0 /\ b = 0
  /\ SpinInit
  /\ Emulator!EmuInit
  /\ IF part = "bitmap" THEN Bits!bitmap_create
     ELSE /\ nbits = 0 /\ v = << >> /\ marked = {} /\ bmret = "ok"
  /\ Table!array_init
  /\ Queues!TlInit
  /\ IF part = "uio" THEN Transfer!UioInit
     ELSE /\ iov = NULL /\ resid = 0 /\ uoffset = 0 /\ left = NULL
          /\ zleft = NULL /\ moving = NULL /\ request = NULL
  /\ IF part = "printf" THEN Format!vsnprintf
     ELSE /\ pf = NULL /\ out = NULL /\ snp = NULL
          /\ last = NULL /\ nformat = 0
  /\ Input!KgInit
  /\ IF part = "strings" THEN String!StrInit
     ELSE /\ dst = 0 /\ src = 0 /\ len = 0 /\ str = << >>

SvcNext ==
  /\ UNCHANGED <<part, arith, strings>>
  /\ \/ /\ part = "semaphore" /\ SemNext
        /\ UNCHANGED <<spinvars, emu, bitmap, array, threadlist, uiomoves, printf, kgets>>
     \/ /\ part = "spin" /\ SpinNext
        /\ UNCHANGED <<semvars, emu, bitmap, array, threadlist, uiomoves, printf, kgets>>
     \/ /\ part = "emu" /\ Emulator!EmuNext
        /\ UNCHANGED <<semvars, spinvars, bitmap, array, threadlist, uiomoves, printf, kgets>>
     \/ /\ part = "bitmap" /\ Bits!BitmapNext
        /\ UNCHANGED <<semvars, spinvars, emu, array, threadlist, uiomoves, printf, kgets>>
     \/ /\ part = "array" /\ Table!ArrayNext
        /\ UNCHANGED <<semvars, spinvars, emu, bitmap, threadlist, uiomoves, printf, kgets>>
     \/ /\ part = "threadlist" /\ Queues!TlNext
        /\ UNCHANGED <<semvars, spinvars, emu, bitmap, array, uiomoves, printf, kgets>>
     \/ /\ part = "uio" /\ Transfer!UioNext
        /\ UNCHANGED <<semvars, spinvars, emu, bitmap, array, threadlist, printf, kgets>>
     \/ /\ part = "printf" /\ Format!PrintfNext
        /\ UNCHANGED <<semvars, spinvars, emu, bitmap, array, threadlist, uiomoves, kgets>>
     \/ /\ part = "kgets" /\ Input!KgNext
        /\ UNCHANGED <<semvars, spinvars, emu, bitmap, array, threadlist, uiomoves, printf>>

(* The fairness of FairSemSpec; nothing is asked of the other parts.       *)
SvcSpec ==
  /\ SvcInit /\ [][SvcNext]_svcvars
  /\ \A t \in Threads : WF_semvars(SemStep(t))

-----------------------------------------------------------------------------
(* The properties of the parts, each of its own behaviours.                *)

\* Sums, differences, comparisons, shifts, products, quotients and remainders of
\* any two long longs are exact, modulo the size (__muldi3, __qdivrem and the
\* functions that work on halves).
ArithmeticIsExact ==
  part = "arith" =>
    Arith!DivisionIsExact /\ Arith!ProductIsExact /\ Arith!HalvesAgree

\* Every operation of the emulator gets its own completion, reads and writes cut
\* into pieces are whole, and a close fails only after all its repetitions
\* (emu_irq, emu_waitdone, emufs_read, emufs_write, emu_close).
EmuIsExact ==
  part = "emu" =>
    /\ Emulator!AnswersMatch
    /\ Emulator!ReadIsFile /\ Emulator!WriteReachesFile
    /\ Emulator!CloseIsRetried

\* Containers hold what their callers put there: a bitmap the indexes given out,
\* an array through growth and failures, a list walked either way; and a uio's
\* resid, offset and buffers agree however a transfer is cut (bitmap_*, array_*,
\* threadlist_*, uiomove).
ContainersAgree ==
  /\ part = "bitmap" => Bits!BitsAreMarks
  /\ part = "array" => Table!ArrayIsList
  /\ part = "threadlist" => Queues!ListsAreLinked
  /\ part = "uio" => Transfer!UioAgrees /\ Transfer!UioCallComplete

\* Text is what it stands for: a printed number reads back, in its field and its
\* buffer, snprintf stores a terminated prefix, kgets returns the line that was
\* edited, memmove copies whatever the overlap, strtok_r gives each word once, and
\* atoi the number that is spelled.
TextIsExact ==
  /\ part = "printf" =>
       Format!NumberReadsBack /\ Format!NumberFitsBuffer /\ Format!SnprintfIsPrefix
  /\ part = "kgets" => Input!LineIsEdited
  /\ part = "strings" =>
       String!MemmoveIsCopy /\ String!TokensAreWords /\ String!AtoiReadsNumber
=============================================================================
