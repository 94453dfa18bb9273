---------------------------- MODULE SettleTracker ----------------------------
(* The pure helpers of the manager: pkg/blissha/settle.go (the tracker that   *)
(* tells when a moving blind has stopped, and the resting cover state) and    *)
(* toHA of pkg/blissha/hass.go.                                               *)
EXTENDS Integers

CONSTANT Positions      \* device positions (uint8) that occur in an instance

\* A position is a byte; both end stops of the motor occur.
ASSUME PositionsAssumption ==
  /\ Positions \subseteq 0..255
  /\ {0, 100} \subseteq Positions

\* A bug: one repeated sample is enough.
settleStableReadsOne == 1

settleStableReads == 2

\* A bug: the zero value of the position is a position.
newSettleTrackerAtZero == [last |-> 0, stable |-> 0]

\* last = -1 is no position, so that a first sample never counts as a repeat.
newSettleTracker == [last |-> -1, stable |-> 0]

Trackers == [last : Positions \cup {-1}, stable : Nat]

\* The tracker after sample pos.
Observed(tr, pos) ==
  IF pos = tr.last
  THEN [tr EXCEPT !.stable = @ + 1]
  ELSE [last |-> pos, stable |-> 0]

\* What observe returns for a tracker that has just taken sample pos.
IsSettled(tr) == tr.stable >= settleStableReads

\* Device position to Home Assistant position: clamped to 100, and mirrored for
\* a blind that is mounted the other way round.
toHA(pos, invert) ==
  LET p == IF pos > 100 THEN 100 ELSE pos
  IN IF invert THEN 100 - p ELSE p

\* Its inverse on the percentages.
toDevice(ha, invert) ==
  LET p == CASE ha > 100 -> 100 [] ha < 0 -> 0 [] OTHER -> ha
  IN IF invert THEN 100 - p ELSE p

restingState(haPos) ==
  CASE haPos >= 100 -> "open"
    [] haPos <= 0   -> "closed"
    [] OTHER        -> "stopped"

absInt(n) == IF n < 0 THEN -n ELSE n
=============================================================================
