----------------------------- MODULE MCDevices -----------------------------
EXTENDS Devices, TLC

CONSTANTS t1, t2, v1, zero

\* Four machines: a timer and a disk; the console; two timers; and one with a
\* device that no driver knows.
TheBuses == {(0 :> "ltimer") @@ (1 :> "lhd") @@ (2 :> "empty"),
             (0 :> "empty") @@ (1 :> "lser") @@ (2 :> "empty"),
             (0 :> "ltimer") @@ (1 :> "empty") @@ (2 :> "ltimer"),
             (0 :> "alien") @@ (1 :> "emu") @@ (2 :> "lrandom")}

OneLine == <<"nl">>
=============================================================================
