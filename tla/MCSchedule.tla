------------------------------ MODULE MCSchedule ------------------------------
(* Schedules for TLC: a week of two days of eight minutes.                     *)
EXTENDS Schedule

Rule1(days, open, close, pos, ramp, rise, set) ==
  [days |-> days, openAt |-> open, closeAt |-> close,
   sleepHA |-> pos[1], openHA |-> pos[2], ramp |-> ramp,
   notBeforeSunrise |-> rise, notAfterSunset |-> set]

\* Sleeping and open position, and the ramp between them.
Ramps == {<<0, 100, 0>>, <<0, 100, 2>>, <<80, 25, 4>>}

\* Every window, ramp and clamp, with one rule for every day.
Daily ==
  {<<Rule1({}, o, c, p, p[3], b, a)>> :
     o \in Minutes, c \in Minutes, p \in Ramps, b \in BOOLEAN, a \in BOOLEAN}

\* One rule for the first day and one for the rest.
TwoRules ==
  {<<Rule1({0}, o1, c1, <<0, 100>>, 0, b, a), Rule1({}, o2, c2, <<0, 100>>, 2, FALSE, FALSE)>> :
     o1 \in {0, 3}, c1 \in {5, 7}, o2 \in {0, 2, 4}, c2 \in {4, 6},
     b \in BOOLEAN, a \in BOOLEAN}

\* One rule for one of the days.
OneDay ==
  {<<Rule1({0}, o, c, <<0, 100>>, r, FALSE, FALSE)>> :
     o \in {1, 5, 7}, c \in {3, 6}, r \in {0, 4}}

RegularSchedules == Daily \cup TwoRules

\* And with days that have no rule.
AnySchedules == Daily \cup OneDay

MCSuns ==
  {[normal |-> FALSE, sunrise |-> 0, sunset |-> 0],
   [normal |-> TRUE, sunrise |-> 2, sunset |-> 6],
   [normal |-> TRUE, sunrise |-> 4, sunset |-> 5],
   [normal |-> TRUE, sunrise |-> 1, sunset |-> 0]}
===============================================================================
