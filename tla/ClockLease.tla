----------------------------- MODULE ClockLease -----------------------------
(***************************************************************************)
(* What the latency boost promises about the clock of a GPU it does not    *)
(* own: whoever raises it has first taken on the duty to lower it again,   *)
(* and the clock moves only under that duty.                               *)
(***************************************************************************)
VARIABLES
  clock,    \* "default" or "peak"
  owed,     \* somebody has to lower it
  gaveUp    \* somebody who had to has given up

vars == <<clock, owed, gaveUp>>

Init == clock = "default" /\ ~owed /\ ~gaveUp

Borrow == ~owed /\ owed' = TRUE /\ UNCHANGED <<clock, gaveUp>>
Raise  == owed /\ clock' = "peak" /\ UNCHANGED <<owed, gaveUp>>
Return == owed /\ clock' = "default" /\ owed' = FALSE /\ UNCHANGED gaveUp

\* The driver has refused often enough.
GiveUp == owed /\ owed' = FALSE /\ gaveUp' = TRUE /\ UNCHANGED clock

Next == Borrow \/ Raise \/ Return \/ GiveUp

Spec == Init /\ [][Next]_vars

=============================================================================
