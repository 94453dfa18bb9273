------------------------------ MODULE MCSession ------------------------------
(* Lines for TLC.                                                              *)
EXTENDS Session

Line(c, n) == [cmd |-> c, n |-> n]

\* Commands of every kind, with numbers at the edges of what is accepted and of a byte.
MCLines ==
  {Line(c, 0) : c \in {"none", "quit", "other", "clear"}}
  \cup {Line("pos", n) : n \in {-1, 30, 101}}
  \cup {Line("del", n) : n \in {0, TimerSlots, 257}}
  \cup {Line("add", n) : n \in {1, TimerSlots + 1, 258}}
==============================================================================
