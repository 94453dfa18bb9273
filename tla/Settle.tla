------------------------------- MODULE Settle -------------------------------
(* The settle tracker of trackUntilSettled, fed one position sample per tick  *)
(* and replaced by a fresh one when a new movement starts.  `hist' keeps the  *)
(* samples of the current tracker, which the code does not, and gives the     *)
(* reference definition of "settled".                                         *)
EXTENDS SettleTracker, Sequences

CONSTANT MaxSamples     \* bound: samples taken by one tracker

ASSUME MaxSamplesAssumption == MaxSamples \in Nat

VARIABLES
  tracker,              \* settleTracker
  settled,              \* what the last observe returned
  hist                  \* history: the samples since the tracker was created

settleVars == <<tracker, settled, hist>>

TypeOK ==
  /\ tracker \in Trackers
  /\ settled \in BOOLEAN
  /\ hist \in Seq(Positions)

SettleInit ==
  /\ tracker = newSettleTracker
  /\ settled = FALSE
  /\ hist = <<>>

Restart ==
  /\ tracker' = newSettleTracker
  /\ settled' = FALSE
  /\ hist' = <<>>

Observe(pos) ==
  /\ Len(hist) < MaxSamples
  /\ tracker' = Observed(tracker, pos)
  /\ settled' = IsSettled(tracker')
  /\ hist' = Append(hist, pos)

SettleNext == Restart \/ \E pos \in Positions : Observe(pos)

SettleSpec == SettleInit /\ [][SettleNext]_settleVars

\* The blind counts as stopped exactly when the last sample equals each of the
\* settleStableReads samples before it, all taken since this movement began
\* (settleTracker.observe): never on the position the movement started from
\* alone, and never later than the third equal sample.
SettledIffStable ==
  LET n == Len(hist)
  IN settled <=> /\ n > settleStableReads
                 /\ \A i \in (n - settleStableReads)..n : hist[i] = hist[n]
=============================================================================
