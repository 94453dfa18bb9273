------------------------------ MODULE MCProtocol ------------------------------
(* Requests and reports for TLC.                                               *)
EXTENDS Protocol

Timer(slot, days, time, percent, silent) ==
  [op |-> "addTimer", slot |-> slot, days |-> days, time |-> time, percent |-> percent,
   silent |-> silent]

\* Every position, every set of days, every speed a byte can name and some it cannot.
MCRequests ==
  Plain \cup Goto \cup DeleteTimer
  \cup {[op |-> "speed", percent |-> p] : p \in -1..256}
  \cup {Timer(16, d, <<23, 59, 30>>, 37, FALSE) : d \in SUBSET WeekdayBits}
  \cup {Timer(s, {0, 6}, t, p, b) :
          s \in {1, 16}, t \in {<<0, 0, 0>>, <<23, 59, 30>>}, p \in {0, 37, 100, 101}, b \in BOOLEAN}
  \cup {[op |-> "setClock", time |-> t] : t \in {<<2026, 12, 31, 23, 59, 58>>, <<2000, 1, 2, 3, 4, 5>>}}

\* Single bytes up to the largest, none, and the 16-bit one.
MCRanges == {-1, 0, 1, 2, 50, 99, 100, 101, 128, 250, 255, 1000}

\* Two bytes would be needed, and one is used.
WideRanges == {256, 500}

MCReports ==
  {[op |-> "status", percent |-> 0, battery |-> "normal", reversed |-> FALSE],
   [op |-> "status", percent |-> 100, battery |-> "low", reversed |-> TRUE],
   [op |-> "status", percent |-> 100, battery |-> "none", reversed |-> FALSE],
   [op |-> "login", success |-> TRUE], [op |-> "login", success |-> FALSE],
   [op |-> "password", success |-> TRUE], [op |-> "timerSet", success |-> TRUE],
   [op |-> "timerDelete", success |-> FALSE], [op |-> "timerIndex", index |-> 10]}
===============================================================================
