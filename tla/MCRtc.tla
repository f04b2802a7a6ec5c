-------------------------------- MODULE MCRtc --------------------------------
(* Rtc with three chips, over two updates. *)
EXTENDS Rtc

Date(m, s) == [minutes |-> m, seconds |-> s]
Chip(a, b, c) == [d \in 0 .. MaxDate |-> <<a, b, c>>[d + 1]]

\* Both fields change and gain a digit; a leap second, which is no time to chrono; and
\* registers that hold no date from the first update on.
MCChips == {Chip(Date(9, 9), Date(10, 10), Date(10, 9)),
            Chip(Date(9, 59), Date(9, 60), Date(10, 0)),
            Chip(Date(9, 9), Date(60, 10), Date(60, 11))}
=============================================================================
