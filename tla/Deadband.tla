------------------------------- MODULE Deadband -------------------------------
(* How near a blind comes to what its policy wants (pkg/blissha/controller.go,   *)
(* applyGuards): the target is quantized to the step, and the deadband decides   *)
(* whether the difference is worth a move.  The motor stops anywhere within the  *)
(* deadband of the position it was sent to (an assumption about the motor).  The *)
(* guards on the number and the spacing of moves are Controller's subject; here  *)
(* every evaluation may move.                                                    *)
EXTENDS Integers

CONSTANTS
  Steps, Deadbands,   \* the settings explored
  Wants,              \* what the policy may want
  Starts              \* where the blind may be before its first move

ASSUME DeadbandAssumption ==
  /\ Steps \subseteq 1..100 /\ Deadbands \subseteq 1..100    \* validate, applyDefaults
  /\ Wants \subseteq 0..100 /\ Starts \subseteq 0..100

VARIABLES
  step, deadband,
  want,         \* the policy's target
  current       \* the blind's position

deadbandVars == <<step, deadband, want, current>>

DeadbandInit ==
  /\ step \in Steps /\ deadband \in Deadbands
  /\ want \in Wants /\ current \in Starts

Smaller(a, b) == IF a < b THEN a ELSE b
Apart(x) == IF x < 0 THEN -x ELSE x

\* A bug: integer division rounds down.
quantizeDown(v, s) == (v \div s) * s

\* Rounds half up to a multiple of the step.
quantize(v, s) == ((2 * v + s) \div (2 * s)) * s

Target == Smaller(quantize(want, step), 100)

InDeadband == Apart(Target - current) < deadband \/ Target = current

\* An evaluation that moves the blind.
Move ==
  /\ ~InDeadband
  /\ current' \in {p \in 0..100 : Apart(p - Target) < deadband}
  /\ UNCHANGED <<step, deadband, want>>

WantChanges ==
  /\ want' \in Wants \ {want}
  /\ UNCHANGED <<step, deadband, current>>

DeadbandNext == Move \/ WantChanges

DeadbandSpec == DeadbandInit /\ [][DeadbandNext]_deadbandVars

-----------------------------------------------------------------------------
\* A blind that is left where it is is nearly where the policy wants it: within the
\* deadband and half a step, at the end stops too, where the target is clamped.
AtRestIsNear ==
  InDeadband => 2 * Apart(want - current) <= 2 * (deadband - 1) + step
===============================================================================
