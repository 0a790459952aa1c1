----------------------------- MODULE Outcomes -----------------------------
(***************************************************************************)
(* Kernel functions that may fail.  A function is an operator from a state *)
(* to the set of its possible outcomes: the state it leaves, its result    *)
(* ("0" or an error) and the value it hands back.  An error return keeps   *)
(* whatever the function had done by then, as the code does.               *)
(***************************************************************************)

CONSTANT NULL    \* no value

Ok(s, v) == [s |-> s, r |-> "0", v |-> v]

Err(s, e) == [s |-> s, r |-> e, v |-> NULL]

Succeeds(s, v) == {Ok(s, v)}

Fails(s, e) == {Err(s, e)}

\* Go on with F after success; hand an error up at once.
Then(outs, F(_)) ==
  UNION {IF o.r = "0" THEN F(o) ELSE {o} : o \in outs}

\* Go on with F whatever the result was, short of a panic.
Always(outs, F(_)) ==
  UNION {IF o.r = "panic" THEN {o} ELSE F(o) : o \in outs}

\* On an error, undo with G and hand the error up.
OnError(outs, G(_)) ==
  UNION {IF o.r \in {"0", "panic"} THEN {o} ELSE {[x EXCEPT !.r = o.r] : x \in G(o)} : o \in outs}

\* The result is not looked at.
Ignore(outs) == {[o EXCEPT !.r = IF @ = "panic" THEN @ ELSE "0"] : o \in outs}

\* The outcomes of some clean-up that keeps the result and value o had.
Keeping(o, outs) == {IF x.r = "panic" THEN x ELSE [o EXCEPT !.s = x.s] : x \in outs}
=============================================================================
