------------------------------- MODULE Printf -------------------------------
(***************************************************************************)
(* printf formatting and snprintf (common/libc/printf), which every        *)
(* message of the kernel, and the names vfs and the drivers build, go      *)
(* through.  The format arrives one character at a time; the conversions   *)
(* are modelled by what they do to the text, since the properties are      *)
(* about the text.  The widths of int and long long are parameters; a long *)
(* and a size_t are as wide as an int.                                     *)
(***************************************************************************)
EXTENDS Integers, Sequences, SequencesExt, FiniteSetsExt

CONSTANTS INT_WIDTH, LLONG_WIDTH,
          Arguments,    \* values passed; taken to the width of the conversion
          Lengths,      \* len arguments of snprintf
          MaxFormat,    \* bound: characters of a format
          MaxSpacing    \* bound: field width

VARIABLES pf,       \* the PF structure
          out,      \* history: all the text sent on
          snp,      \* snprintf's context: its len argument and its buffer
          last,     \* history: the last number printed, and its field's text
          nformat   \* characters of the format so far

pfvars == <<pf, out, snp, last, nformat>>

EndField == [in_pct |-> FALSE, size |-> "INTSZ", spacing |-> 0,
             rightspc |-> FALSE, fillchar |-> " ", altformat |-> FALSE]

NoNumber == [num |-> 0, base |-> 10, text |-> << >>, field |-> EndField,
             lowest |-> 1]

vsnprintf ==
  /\ pf = EndField @@ [charcount |-> 0]
  /\ out = << >> /\ last = NoNumber /\ nformat = 0
  /\ \E len \in Lengths : snp = [len |-> len, buf |-> << >>, ended |-> FALSE]

-----------------------------------------------------------------------------
(* Sending text.                                                           *)

buflen == IF snp.len = 0 THEN 0 ELSE snp.len - 1

snprintf_send_Len(text) ==
  SubSeq(snp.buf \o text, 1, Min({snp.len, Len(snp.buf \o text)}))

snprintf_send(text) ==
  SubSeq(snp.buf \o text, 1, Min({buflen, Len(snp.buf \o text)}))

\* __pf_print, for the texts of one field together.
pf_print(text) ==
  /\ out' = out \o text
  /\ snp' = [snp EXCEPT !.buf = snprintf_send(text)]

Fill(n, c) == [i \in 1..n |-> c]

(* __pf_printstuff: spaces go before the prefixes, zeros after them.       *)
Padded_NoPrefix(prefix, stuff) ==
  LET spc == Max({0, pf.spacing - Len(stuff)})
      pad == Fill(spc, pf.fillchar)
  IN  IF pf.rightspc THEN prefix \o stuff \o pad
      ELSE IF pf.fillchar # "0" THEN pad \o prefix \o stuff
      ELSE prefix \o pad \o stuff

Padded(prefix, stuff) ==
  LET spc == Max({0, pf.spacing - Len(prefix) - Len(stuff)})
      pad == Fill(spc, pf.fillchar)
  IN  IF pf.rightspc THEN prefix \o stuff \o pad
      ELSE IF pf.fillchar # "0" THEN pad \o prefix \o stuff
      ELSE prefix \o pad \o stuff

-----------------------------------------------------------------------------
(* Numbers.                                                                *)

Digits == <<"0", "1", "2", "3", "4", "5", "6", "7", "8", "9",
            "a", "b", "c", "d", "e", "f">>

NUMBER_BUF_SIZE_Less == LLONG_WIDTH \div 3 + 1

NUMBER_BUF_SIZE == LLONG_WIDTH \div 3 + 2

RECURSIVE Text(_, _)
Text(xnum, base) ==
  LET digit == <<Digits[(xnum % base) + 1]>> IN
  IF xnum \div base = 0 THEN digit ELSE Text(xnum \div base, base) \o digit

Bits(size) == IF size = "LLONGSZ" THEN LLONG_WIDTH ELSE INT_WIDTH

(* va_arg: the argument as an integer of the size asked for.               *)
Unsigned(arg, size) == arg % 2^Bits(size)
AsSigned(arg, size) ==
  LET u == Unsigned(arg, size) IN
  IF u >= 2^(Bits(size) - 1) THEN u - 2^Bits(size) ELSE u

(* __pf_getnum: the magnitude, in an unsigned long long, and the sign.     *)
getnum(ch, arg) ==
  LET n == AsSigned(arg, pf.size) IN
  IF ch # "d" THEN [num |-> Unsigned(arg, IF ch = "p" THEN "INTSZ" ELSE pf.size),
                    sign |-> FALSE]
  ELSE IF n < 0 THEN [num |-> (-n) % 2^LLONG_WIDTH, sign |-> TRUE]
  ELSE [num |-> n, sign |-> FALSE]

Base(ch) == IF ch \in {"d", "u"} THEN 10 ELSE IF ch = "o" THEN 8 ELSE 16

BasePrefix(ch) ==
  IF ~(pf.altformat \/ ch = "p") THEN << >>
  ELSE IF Base(ch) = 16 THEN <<"0", "x">>
  ELSE IF Base(ch) = 8 THEN <<"0">>
  ELSE << >>

(* __pf_printnum and __pf_endfield.                                        *)
Number(ch, arg) ==
  LET n == getnum(ch, arg)
      digits == Text(n.num, Base(ch))
      text == Padded((IF n.sign THEN <<"-">> ELSE << >>) \o BasePrefix(ch), digits)
  IN
  /\ pf_print(text)
  /\ pf' = EndField @@ [charcount |-> pf.charcount + Len(text)]
  /\ last' = [num |-> IF ch = "d" THEN AsSigned(arg, pf.size) ELSE n.num,
              base |-> Base(ch), text |-> text, field |-> pf,
              lowest |-> NUMBER_BUF_SIZE - 1 - Len(digits)]

-----------------------------------------------------------------------------
(* __pf_send, for each character of the format.                            *)

Modifier(ch) ==
  /\ pf' = CASE ch = "#" -> [pf EXCEPT !.altformat = TRUE]
             [] ch = "-" -> [pf EXCEPT !.rightspc = TRUE]
             [] ch = "l" -> [pf EXCEPT !.size = IF @ = "LONGSZ" THEN "LLONGSZ"
                                                ELSE "LONGSZ"]
             [] ch = "z" -> [pf EXCEPT !.size = "SIZETSZ"]
             [] ch = "0" /\ pf.spacing = 0 -> [pf EXCEPT !.fillchar = "0"]
             [] ch = "0" /\ pf.spacing > 0 -> [pf EXCEPT !.spacing = @ * 10]
             [] ch = "4" -> [pf EXCEPT !.spacing = @ * 10 + 4]
  /\ pf'.spacing <= MaxSpacing
  /\ UNCHANGED <<out, snp, last>>

\* %s, %c, %% and illegal characters: a string in the field.
Stuff(str) ==
  /\ pf_print(Padded(<< >>, str))
  /\ pf' = EndField @@ [charcount |-> pf.charcount + Len(Padded(<< >>, str))]
  /\ UNCHANGED last

pf_send ==
  /\ ~snp.ended /\ nformat < MaxFormat /\ nformat' = nformat + 1
  /\ IF ~pf.in_pct
       THEN \/ /\ pf_print(<<"k">>) /\ UNCHANGED last
               /\ pf' = [pf EXCEPT !.charcount = @ + 1]
            \/ pf' = [pf EXCEPT !.in_pct = TRUE] /\ UNCHANGED <<out, snp, last>>
       ELSE \/ \E ch \in {"#", "-", "l", "z", "0", "4"} : Modifier(ch)
            \/ \E ch \in {"d", "o", "u", "p", "x"}, arg \in Arguments : Number(ch, arg)
            \/ \E str \in {<< >>, <<"k">>, <<"s", "t", "r">>} : Stuff(str)

(* The end of vsnprintf: the terminator, if there is room for anything.    *)
vsnprintf_end ==
  /\ ~snp.ended /\ ~pf.in_pct
  /\ snp' = [snp EXCEPT !.ended = TRUE,
                         !.buf = IF snp.len > 0 THEN Append(@, "NUL") ELSE @]
  /\ UNCHANGED <<pf, out, last, nformat>>

PrintfNext == pf_send \/ vsnprintf_end

PrintfSpec == vsnprintf /\ [][PrintfNext]_pfvars

-----------------------------------------------------------------------------
(* The number a printed text spells.                                       *)
DigitValue(c) == (CHOOSE i \in DOMAIN Digits : Digits[i] = c) - 1
ReadsAs(text, base) ==
  LET bare == SelectSeq(text, LAMBDA c : c # " ")
      neg == bare[1] = "-"
      digits == SelectSeq(bare, LAMBDA c : c \notin {"-", "x"})
      value == FoldLeft(LAMBDA acc, c : acc * base + DigitValue(c), 0, digits)
  IN  IF neg THEN -value ELSE value

(* A number printed fills its field and no more, and reads back as the     *)
(* value that was passed: sign, base prefix, padding and digits are in the *)
(* right order, also for the most negative value of every width.  (Padding *)
(* with zeros on the right, %-0, is the one combination that does not.)    *)
NumberReadsBack ==
  last.text # << >> =>
    /\ Len(last.text) >= last.field.spacing
    /\ Len(last.text) > last.field.spacing =>
         last.text[1] # " " /\ last.text[Len(last.text)] # " "
    /\ (last.field.rightspc /\ last.field.fillchar = "0")
         \/ ReadsAs(last.text, last.base) = last.num

(* The digits of the largest number, in octal, fit the buffer they are     *)
(* built in from the right: no digit is stored below its start.            *)
NumberFitsBuffer == last.lowest >= 0

(* snprintf stores a prefix of the text, as long as the buffer allows,     *)
(* then a terminator, and never past the length it was given; it returns   *)
(* the length of the whole text, stored or not.                            *)
SnprintfIsPrefix ==
  /\ Len(snp.buf) <= snp.len
  /\ pf.charcount = Len(out)
  /\ snp.ended /\ snp.len > 0 =>
       snp.buf = SubSeq(out, 1, Min({snp.len - 1, Len(out)})) \o <<"NUL">>
=============================================================================
