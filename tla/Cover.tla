-------------------------------- MODULE Cover --------------------------------
(* What a blind promises to those who look at it: a cover that moves only while *)
(* somebody attends to it, and that comes to rest, or is found at rest, in a    *)
(* state that agrees with the position the automation goes by.  Manager, which  *)
(* knows the position only from late, lost and stale replies over a link that   *)
(* drops, implements it.                                                        *)
EXTENDS Integers

VARIABLES
  state,        \* the cover state that is shown
  seen,         \* the position that the automation goes by
  attended,     \* is an operation being carried out?
  gone          \* has the program been told to end?

vars == <<state, seen, attended, gone>>

Moving   == {"opening", "closing"}
Percent  == 0..100
Rests(p) == CASE p = 100 -> "open" [] p = 0 -> "closed" [] OTHER -> "stopped"

Init == state = "unset" /\ seen = 0 /\ attended = FALSE /\ gone = FALSE

Attend ==
  /\ ~attended /\ attended'
  /\ UNCHANGED <<state, seen, gone>>

\* An operation says what it is about to do, another one perhaps on top of it.
Announce ==
  /\ attended /\ attended'
  /\ state' \in Moving \cup {"stopped"}
  /\ UNCHANGED <<seen, gone>>

\* The blind is looked at, and has come to rest.
Rest ==
  /\ ~attended'
  /\ seen' \in Percent /\ state' = Rests(seen')
  /\ UNCHANGED gone

\* Nobody turns away from a blind that is shown moving, unless the program ends.
Leave ==
  /\ attended /\ ~attended'
  /\ state \notin Moving \/ gone
  /\ UNCHANGED <<state, seen, gone>>

End == ~gone /\ gone' /\ UNCHANGED <<state, seen, attended>>

Next == Attend \/ Announce \/ Rest \/ Leave \/ End

Spec == Init /\ [][Next]_vars
==============================================================================
