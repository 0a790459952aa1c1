-------------------------------- MODULE Kgets --------------------------------
(***************************************************************************)
(* Reading a command line from the console (kern/lib/kgets.c): a step per  *)
(* character typed.  The characters are classes: a letter, a space, and    *)
(* the control characters kgets knows.                                     *)
(***************************************************************************)
EXTENDS Integers, Sequences, SequencesExt, FiniteSetsExt

CONSTANTS maxlen        \* size of the caller's buffer

VARIABLES line,     \* what is in buf below pos
          screen,   \* external: the text on the terminal's current line
          typed,    \* history: the line as its typist means it
          returned  \* has kgets returned?

kgvars == <<line, screen, typed, returned>>

KgInit == line = << >> /\ screen = << >> /\ typed = << >> /\ returned = FALSE

Without(s, n) == SubSeq(s, 1, Len(s) - n)

(* backsp, n times, and pos -= n.                                          *)
Erase_Screen(n) == screen' = Without(screen, n) /\ UNCHANGED line

Erase(n) == line' = Without(line, n) /\ screen' = Without(screen, n)

(* Reference: a line without its last word, and the spaces after it.       *)
LastLetter(s) == Max({0} \cup {i \in DOMAIN s : s[i] # " "})
WordStart(s) == Max({0} \cup {i \in 1 .. LastLetter(s) : s[i] = " "})

\* ^W: over the spaces at the end, then over what is not a space.
RECURSIVE Back(_, _)
Back(pos, spaces) ==
  IF pos > 0 /\ (line[pos] = " ") = spaces THEN Back(pos - 1, spaces) ELSE pos

Reading == ~returned /\ UNCHANGED returned

\* With the buffer full there is a beep, and the letter is lost.
Letter(ch) ==
  /\ Reading
  /\ IF Len(line) < maxlen - 1
       THEN line' = Append(line, ch) /\ screen' = Append(screen, ch)
       ELSE UNCHANGED <<line, screen>>
  /\ typed' = IF Len(typed) < maxlen - 1 THEN Append(typed, ch) ELSE typed

Backspace ==
  /\ Reading
  /\ IF line # << >> THEN Erase(1) ELSE UNCHANGED <<line, screen>>
  /\ typed' = Without(typed, IF typed # << >> THEN 1 ELSE 0)

EraseLine ==                                    \* ^U
  Reading /\ Erase(Len(line)) /\ typed' = << >>

EraseWord ==                                    \* ^W
  /\ Reading
  /\ Erase(Len(line) - Back(Back(Len(line), TRUE), FALSE))
  /\ typed' = SubSeq(typed, 1, WordStart(typed))

Reprint ==                                      \* ^R, on a new line
  Reading /\ screen' = line /\ UNCHANGED <<line, typed>>

GiveUp ==                                       \* ^C
  /\ ~returned /\ returned' = TRUE
  /\ line' = << >> /\ screen' = << >> /\ typed' = << >>

Newline ==
  /\ ~returned /\ returned' = TRUE
  /\ screen' = << >> /\ UNCHANGED <<line, typed>>

KgNext ==
  \/ \E ch \in {"a", " "} : Letter(ch)
  \/ Backspace \/ EraseLine \/ EraseWord \/ Reprint \/ GiveUp \/ Newline

KgSpec == KgInit /\ [][KgNext]_kgvars

-----------------------------------------------------------------------------
(* What kgets returns is the line as it was edited, what the typist sees   *)
(* is what is in the buffer, and the terminator always has room.           *)
LineIsEdited ==
  /\ line = typed /\ Len(line) < maxlen
  /\ ~returned => screen = line
=============================================================================
