----------------------------- MODULE MCProcess -----------------------------
(* Instances of Process for TLC.                                           *)
EXTENDS Process

\* Success, a code that does not fit a byte, and a negative one.
Codes == {0, 257, -1}
============================================================================
