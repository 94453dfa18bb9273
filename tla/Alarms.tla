-------------------------------- MODULE Alarms --------------------------------
(* What a schedule promises: an alarm that opens the blind, an alarm that       *)
(* closes it, and between them nothing happens.  The two may be set anew at     *)
(* midnight.  Schedule, which knows no alarms and works out from the clock      *)
(* alone what the blind should be, implements it.                               *)
EXTENDS Integers

CONSTANT Day    \* minutes in a day

VARIABLES
  mins,             \* the minute of the day
  openAt, closeAt,  \* today's alarms
  isAwake           \* has the last alarm opened the blind?

vars == <<mins, openAt, closeAt, isAwake>>

Minutes == 0..(Day - 1)

Init ==
  /\ mins \in Minutes /\ openAt \in Minutes /\ closeAt \in Minutes
  /\ isAwake \in BOOLEAN

\* At the same minute the closing alarm wins.
Minute ==
  /\ mins' = (mins + 1) % Day
  /\ openAt' \in Minutes /\ closeAt' \in Minutes
  /\ mins' # 0 => UNCHANGED <<openAt, closeAt>>
  /\ isAwake' = (mins' # closeAt' /\ (mins' = openAt' \/ isAwake))

Spec == Init /\ [][Minute]_vars
===============================================================================
