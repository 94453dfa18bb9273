----------------------------- MODULE Algorithms_proofs -----------------------------
(* Proofs about the pure algorithms, which share no state: the settle tracker, the *)
(* clock schedule, the deadband and the protocol's frames, for all values of their *)
(* constants.                                                                      *)
EXTENDS Settle, Schedule, Deadband, Protocol, SequenceTheorems, TLAPS

--------------------------------------------------------------------------------
(* The settle tracker: any set of positions, any number of samples.          *)

(****************************************************************************)
(* The tracker keeps two numbers of the whole history.  The strengthening   *)
(* says what they stand for: `last' is the last sample, and `stable' is one *)
(* less than the length of the longest constant suffix of the samples.      *)
(****************************************************************************)
LastIsLast ==
  IF Len(hist) = 0
  THEN tracker = newSettleTracker /\ settled = FALSE
  ELSE tracker.last = hist[Len(hist)] /\ settled = IsSettled(tracker)

StableCountsSuffix ==
  LET n == Len(hist)
      k == tracker.stable
  IN n > 0 => /\ k < n
              /\ \A i \in (n - k)..n : hist[i] = hist[n]
              /\ k + 1 < n => hist[n - k - 1] # hist[n]

SettleInv == TypeOK /\ LastIsLast /\ StableCountsSuffix

LEMMA PositionsAreNat == Positions \subseteq Nat /\ -1 \notin Positions
  BY PositionsAssumption

LEMMA FreshTracker == newSettleTracker \in Trackers /\ <<>> \in Seq(Positions)
<1>1. newSettleTracker \in Trackers
  BY DEF newSettleTracker, Trackers
<1>2. <<>> \in Seq(Positions)
  OBVIOUS
<1> QED BY <1>1, <1>2

\* The initial state satisfies the strengthening.
LEMMA SettleInitInv == SettleInit => SettleInv
<1> SUFFICES ASSUME SettleInit PROVE SettleInv
  OBVIOUS
<1>1. Len(hist) = 0
  BY DEF SettleInit
<1>2. TypeOK
  BY FreshTracker DEF SettleInit, TypeOK
<1>3. LastIsLast
  BY <1>1 DEF SettleInit, LastIsLast
<1>4. StableCountsSuffix
  BY <1>1 DEF StableCountsSuffix
<1> QED BY <1>2, <1>3, <1>4 DEF SettleInv

\* One sample: the tracker's two numbers still describe the longer history.
LEMMA ObserveInv ==
  ASSUME SettleInv, NEW pos \in Positions, Observe(pos)
  PROVE  SettleInv'
<1> DEFINE n == Len(hist)
           k == tracker.stable
<1>0. /\ tracker \in Trackers /\ hist \in Seq(Positions)
      /\ n \in Nat /\ k \in Nat
  BY DEF SettleInv, TypeOK, Trackers
<1>1. /\ hist' = Append(hist, pos) /\ tracker' = Observed(tracker, pos)
      /\ settled' = IsSettled(tracker')
  BY DEF Observe
<1>2. /\ Len(hist') = n + 1 /\ hist'[n + 1] = pos
      /\ \A i \in 1..n : hist'[i] = hist[i]
      /\ hist' \in Seq(Positions)
  BY <1>0, <1>1
<1>3. TypeOK'
  BY <1>0, <1>1, <1>2 DEF TypeOK, Observed, Trackers, IsSettled, settleStableReads
<1>4. tracker'.last = pos
  BY <1>0, <1>1 DEF Observed, Trackers
<1>5. LastIsLast'
  BY <1>0, <1>1, <1>2, <1>4 DEF LastIsLast
<1>6. StableCountsSuffix'
  <2>1. CASE n = 0
    <3>1. tracker'.stable = 0
      BY <2>1, <1>0, <1>1, PositionsAreNat
      DEF SettleInv, LastIsLast, Observed, newSettleTracker
    <3> QED BY <3>1, <2>1, <1>2 DEF StableCountsSuffix
  <2>2. CASE n > 0 /\ pos # hist[n]
    <3>1. tracker'.stable = 0
      BY <2>2, <1>0, <1>1 DEF SettleInv, LastIsLast, Observed
    <3> QED BY <3>1, <2>2, <1>0, <1>2 DEF StableCountsSuffix
  <2>3. CASE n > 0 /\ pos = hist[n]
    <3>1. tracker'.stable = k + 1
      BY <2>3, <1>0, <1>1 DEF SettleInv, LastIsLast, Observed, Trackers
    <3>2. /\ k < n /\ \A i \in (n - k)..n : hist[i] = hist[n]
          /\ k + 1 < n => hist[n - k - 1] # hist[n]
      BY <2>3 DEF SettleInv, StableCountsSuffix
    <3>3. \A i \in ((n + 1) - (k + 1))..(n + 1) : hist'[i] = hist'[n + 1]
      <4> SUFFICES ASSUME NEW i \in ((n + 1) - (k + 1))..(n + 1), i # n + 1
                   PROVE  hist'[i] = pos
        BY <1>2
      <4>1. i \in (n - k)..n /\ i \in 1..n
        BY <3>2, <1>0
      <4> QED BY <4>1, <3>2, <2>3, <1>2
    <3>4. (k + 1) + 1 < n + 1 => hist'[(n + 1) - (k + 1) - 1] # hist'[n + 1]
      <4> SUFFICES ASSUME k + 1 < n
                   PROVE  hist'[n - k - 1] # pos
        BY <1>0, <1>2
      <4>1. n - k - 1 \in 1..n
        BY <3>2, <1>0
      <4> QED BY <4>1, <3>2, <2>3, <1>2
    <3> QED BY <3>1, <3>2, <3>3, <3>4, <1>0, <1>2 DEF StableCountsSuffix
  <2> QED BY <2>1, <2>2, <2>3, <1>0
<1> QED BY <1>3, <1>5, <1>6 DEF SettleInv

LEMMA SettleStepInv == SettleInv /\ [SettleNext]_settleVars => SettleInv'
<1> SUFFICES ASSUME SettleInv, [SettleNext]_settleVars PROVE SettleInv'
  OBVIOUS
<1>1. CASE Restart
  <2>1. Len(hist') = 0
    BY <1>1 DEF Restart
  <2>2. TypeOK'
    BY <1>1, FreshTracker DEF Restart, TypeOK
  <2>3. LastIsLast'
    BY <1>1, <2>1 DEF Restart, LastIsLast
  <2>4. StableCountsSuffix'
    BY <2>1 DEF StableCountsSuffix
  <2> QED BY <2>2, <2>3, <2>4 DEF SettleInv
<1>2. ASSUME NEW pos \in Positions, Observe(pos) PROVE SettleInv'
  BY <1>2, ObserveInv
<1>3. CASE UNCHANGED settleVars
  BY <1>3 DEF settleVars, SettleInv, TypeOK, LastIsLast, StableCountsSuffix
<1> QED BY <1>1, <1>2, <1>3 DEF SettleNext

\* The strengthening gives the property: the suffix of equal samples is long
\* enough exactly when the counter reached settleStableReads.
LEMMA SettleInvSettled == SettleInv => SettledIffStable
<1> SUFFICES ASSUME SettleInv PROVE SettledIffStable
  OBVIOUS
<1> DEFINE n == Len(hist)
           k == tracker.stable
<1>0. n \in Nat /\ k \in Nat /\ tracker \in Trackers
  BY DEF SettleInv, TypeOK, Trackers
<1>1. CASE n = 0
  BY <1>1 DEF SettleInv, LastIsLast, SettledIffStable, settleStableReads
<1>2. CASE n > 0
  <2> DEFINE Repeats == n > 2 /\ \A i \in (n - 2)..n : hist[i] = hist[n]
  <2>0. settled = (k >= 2)
    BY <1>2 DEF SettleInv, LastIsLast, IsSettled, settleStableReads
  <2>1. /\ k < n
        /\ \A i \in (n - k)..n : hist[i] = hist[n]
        /\ k + 1 < n => hist[n - k - 1] # hist[n]
    BY <1>2 DEF SettleInv, StableCountsSuffix
  <2>2. k >= 2 => Repeats
    BY <2>1, <1>0
  <2>3. Repeats => k >= 2
    <3> SUFFICES ASSUME Repeats, ~(k >= 2) PROVE FALSE
      OBVIOUS
    <3>1. n - k - 1 \in (n - 2)..n /\ k + 1 < n
      BY <1>0
    <3> QED BY <3>1, <2>1
  <2>4. settled <=> Repeats
    BY <2>0, <2>2, <2>3, Zenon
  <2> QED BY <2>4 DEF SettledIffStable, settleStableReads
<1> QED BY <1>0, <1>1, <1>2

\* Every value of the tracker is well typed in every behaviour
\* (settleTracker.observe).
THEOREM SettleTypeCorrect == SettleSpec => []TypeOK
<1>1. SettleInv => TypeOK BY DEF SettleInv
<1> QED BY <1>1, SettleInitInv, SettleStepInv, PTL DEF SettleSpec

\* For any positions and any number of samples, the two numbers the tracker
\* keeps decide exactly whether the last three samples are equal
\* (settleTracker.observe).
THEOREM SettledCorrect == SettleSpec => []SettledIffStable
  BY SettleInitInv, SettleStepInv, SettleInvSettled, PTL DEF SettleSpec

--------------------------------------------------------------------------------
(* The schedule: every length of day and week, every schedule and every sun. *)

USE ScheduleAssumption

(*****************************************************************************)
(* Clock arithmetic.                                                         *)
(*****************************************************************************)

\* What the modular difference is, without a modulus.
LEMMA MinutesAfter ==
  ASSUME NEW t \in Minutes, NEW ref \in Minutes
  PROVE  /\ minutesAfter(t, ref) = IF t >= ref THEN t - ref ELSE t - ref + Day
         /\ minutesAfter(t, ref) \in Minutes
<1>1. CASE t >= ref
  BY <1>1, SMT DEF minutesAfter, Minutes
<1>2. CASE t < ref
  <2>1. t - ref + Day \in 0..(Day - 1)
    BY <1>2, SMT DEF Minutes
  <2>2. (t - ref) % Day = t - ref + Day
    BY <1>2, <2>1, SMT DEF Minutes
  <2> QED BY <1>2, <2>1, <2>2, SMT DEF minutesAfter, Minutes
<1> QED BY <1>1, <1>2, SMT DEF Minutes

\* The next minute, without a modulus.
LEMMA NextMinute ==
  ASSUME NEW m \in Minutes
  PROVE  /\ (m + 1) % Day = IF m = Day - 1 THEN 0 ELSE m + 1
         /\ (m + 1) % Day \in Minutes
BY SMT DEF Minutes

\* A minute is in the waking window exactly if it is closer to the opening than the
\* closing is: the two ways in which the code treats midnight agree (awake,
\* minutesAfter).
THEOREM WindowIsInterval ==
  ASSUME NEW m \in Minutes, NEW o \in Minutes, NEW c \in Minutes
  PROVE  awake(m, o, c) <=> minutesAfter(m, o) < minutesAfter(c, o)
<1>1. minutesAfter(m, o) = IF m >= o THEN m - o ELSE m - o + Day
  BY MinutesAfter
<1>2. minutesAfter(c, o) = IF c >= o THEN c - o ELSE c - o + Day
  BY MinutesAfter
<1> QED BY <1>1, <1>2, SMT DEF awake, Minutes

(*****************************************************************************)
(* Rules and windows.                                                        *)
(*****************************************************************************)

LEMMA EntryTyped ==
  ASSUME NEW s \in Schedules, NEW w \in Weekdays, Rule(s, w) # {}
  PROVE  Entry(s, w) \in ScheduleEntry
<1>1. (CHOOSE i \in Rule(s, w) : TRUE) \in Rule(s, w)
  OBVIOUS
<1>2. (CHOOSE i \in Rule(s, w) : TRUE) \in DOMAIN s
  BY <1>1 DEF Rule
<1>3. s \in Seq(ScheduleEntry)
  OBVIOUS
<1> QED BY <1>2, <1>3 DEF Entry

LEMMA WindowTyped ==
  ASSUME NEW e \in ScheduleEntry, NEW sn \in Suns
  PROVE  openMin(e, sn) \in Minutes /\ closeMin(e, sn) \in Minutes
BY DEF openMin, closeMin, ScheduleEntry, Sun

\* While the ramp ends with the window, the blind is asleep exactly outside it.
LEMMA AsleepOutside ==
  ASSUME NEW e \in ScheduleEntry, NEW sn \in Suns, NEW m \in Minutes,
         e.ramp <= minutesAfter(closeMin(e, sn), openMin(e, sn))
  PROVE  ruleTarget(e, sn, m).reason # "asleep"
           <=> awake(m, openMin(e, sn), closeMin(e, sn))
<1> DEFINE o == openMin(e, sn)
           c == closeMin(e, sn)
<1>1. o \in Minutes /\ c \in Minutes
  BY WindowTyped
<1> HIDE DEF o, c
<1>2. awake(m, o, c) <=> minutesAfter(m, o) < minutesAfter(c, o)
  BY <1>1, WindowIsInterval
<1>3. minutesAfter(m, o) \in Int /\ minutesAfter(c, o) \in Int /\ e.ramp \in Int
  <2>1. minutesAfter(m, o) \in Minutes /\ minutesAfter(c, o) \in Minutes
    BY <1>1, MinutesAfter, Zenon
  <2>2. e.ramp \in Nat
    BY DEF ScheduleEntry
  <2> QED BY <2>1, <2>2, SMT DEF Minutes
<1>4. e.ramp <= minutesAfter(c, o)
  BY DEF o, c
<1>5. inRamp(e, sn, m) => minutesAfter(m, o) < e.ramp
  BY DEF inRamp, sinceOpen, o
<1>6. inRamp(e, sn, m) => awake(m, o, c)
  BY <1>2, <1>3, <1>4, <1>5, SMT
<1> QED BY <1>6 DEF ruleTarget, o, c

(*****************************************************************************)
(* The invariant: the types, and that the schedule stays regular.            *)
(*****************************************************************************)
ScheduleInv ==
  /\ entries \in Schedules /\ sun \in Suns
  /\ wd \in Weekdays /\ mins \in Minutes
  /\ Regular(entries, sun)

LEMMA ScheduleStepInv == ScheduleInv /\ [Minute]_scheduleVars => ScheduleInv'
<1> SUFFICES ASSUME ScheduleInv, [Minute]_scheduleVars PROVE ScheduleInv'
  OBVIOUS
<1>1. CASE Minute
  <2>1. mins' \in Minutes
    BY <1>1, NextMinute DEF Minute, ScheduleInv
  <2>2. wd' \in Weekdays
    BY <1>1, SMT DEF Minute, ScheduleInv, Weekdays
  <2> QED BY <1>1, <2>1, <2>2 DEF Minute, ScheduleInv
<1>2. CASE UNCHANGED scheduleVars
  BY <1>2 DEF scheduleVars, ScheduleInv
<1> QED BY <1>1, <1>2

\* The clock stays within the day and the week, and the schedule regular.
THEOREM ScheduleInvHolds == RegularSpec => []ScheduleInv
<1>1. ScheduleInit /\ Regular(entries, sun) => ScheduleInv
  BY DEF ScheduleInit, ScheduleInv
<1> QED BY <1>1, ScheduleStepInv, PTL DEF RegularSpec

\* On a regular day the decision is "asleep" exactly outside the window.
LEMMA AsleepByClock ==
  ASSUME NEW s \in Schedules, NEW sn \in Suns, Regular(s, sn),
         NEW w \in Weekdays, NEW m \in Minutes
  PROVE  /\ scheduleTarget(s, sn, w, m) = ruleTarget(Entry(s, w), sn, m)
         /\ Opens(s, sn, w) \in Minutes /\ Closes(s, sn, w) \in Minutes
         /\ scheduleTarget(s, sn, w, m).reason # "asleep"
              <=> awake(m, Opens(s, sn, w), Closes(s, sn, w))
<1>1. Rule(s, w) # {} /\ Entry(s, w).ramp <= minutesAfter(Closes(s, sn, w), Opens(s, sn, w))
  BY DEF Regular
<1>2. Entry(s, w) \in ScheduleEntry
  BY <1>1, EntryTyped
<1>3. scheduleTarget(s, sn, w, m) = ruleTarget(Entry(s, w), sn, m)
  BY <1>1 DEF scheduleTarget
<1>4. ruleTarget(Entry(s, w), sn, m).reason # "asleep"
        <=> awake(m, Opens(s, sn, w), Closes(s, sn, w))
  BY <1>1, <1>2, AsleepOutside DEF Opens, Closes
<1> QED BY <1>2, <1>3, <1>4, WindowTyped DEF Opens, Closes

(*****************************************************************************)
(* The schedule implements the two alarms.                                   *)
(*****************************************************************************)

\* One minute of the window [o, c), which becomes [p, d): it is entered at its
\* opening and left at its closing only.
LEMMA WindowStep ==
  ASSUME NEW m \in Minutes, NEW n \in Minutes,
         NEW o \in Minutes, NEW c \in Minutes, NEW p \in Minutes, NEW d \in Minutes,
         n = IF m = Day - 1 THEN 0 ELSE m + 1,
         n # 0 => p = o /\ d = c,
         (o <= c /\ p <= d) \/ (p = o /\ d = c)
  PROVE  awake(n, p, d) <=> (n # d /\ (n = p \/ awake(m, o, c)))
BY SMT DEF awake, Minutes

\* RegularSpec implements Alarms: clamps, ramps, weekdays and midnight notwithstanding,
\* the blind opens at the opening time and closes at the closing time only.
THEOREM ImplementsAlarms == RegularSpec => AlarmsRing
<1>1. ScheduleInit /\ Regular(entries, sun) => TwoAlarms!Init
  <2> SUFFICES ASSUME ScheduleInit, Regular(entries, sun) PROVE TwoAlarms!Init
    OBVIOUS
  <2>1. Opens(entries, sun, wd) \in Minutes /\ Closes(entries, sun, wd) \in Minutes
    BY AsleepByClock DEF ScheduleInit
  <2>2. (Decision.reason # "asleep") \in BOOLEAN
    OBVIOUS
  <2> QED BY <2>1, <2>2 DEF ScheduleInit, TwoAlarms!Init, TwoAlarms!Minutes, Minutes
<1>2. ScheduleInv /\ ScheduleInv' /\ [Minute]_scheduleVars => [TwoAlarms!Minute]_(TwoAlarms!vars)
  <2> SUFFICES ASSUME ScheduleInv, ScheduleInv', [Minute]_scheduleVars
               PROVE  [TwoAlarms!Minute]_(TwoAlarms!vars)
    OBVIOUS
  <2>1. CASE Minute
    <3> DEFINE o == Opens(entries, sun, wd)
               c == Closes(entries, sun, wd)
               p == Opens(entries, sun, wd')
               d == Closes(entries, sun, wd')
    <3>1. mins \in Minutes /\ wd \in Weekdays /\ entries \in Schedules /\ sun \in Suns
          /\ Regular(entries, sun)
      BY DEF ScheduleInv
    <3>2. mins' \in Minutes /\ wd' \in Weekdays
      BY DEF ScheduleInv
    <3>3. mins' = (IF mins = Day - 1 THEN 0 ELSE mins + 1)
      BY <2>1, <3>1, NextMinute DEF Minute
    <3>4. entries' = entries /\ sun' = sun /\ (mins' # 0 => wd' = wd)
      BY <2>1 DEF Minute
    <3>5. /\ o \in Minutes /\ c \in Minutes
          /\ Decision.reason # "asleep" <=> awake(mins, o, c)
      BY <3>1, AsleepByClock DEF Decision
    <3>6. /\ p \in Minutes /\ d \in Minutes
          /\ scheduleTarget(entries, sun, wd', mins').reason # "asleep" <=> awake(mins', p, d)
      BY <3>1, <3>2, AsleepByClock
    <3>7. mins' # 0 => p = o /\ d = c
      BY <3>4
    <3>8. (o <= c /\ p <= d) \/ (p = o /\ d = c)
      BY <3>1, <3>2 DEF Regular
    <3>9. Opens(entries, sun, wd)' = p /\ Closes(entries, sun, wd)' = d
          /\ Decision' = scheduleTarget(entries, sun, wd', mins')
      BY <3>4 DEF Decision
    <3> HIDE DEF o, c, p, d
    <3>10. awake(mins', p, d) <=> (mins' # d /\ (mins' = p \/ awake(mins, o, c)))
      <4>1. /\ mins \in Minutes /\ mins' \in Minutes
            /\ o \in Minutes /\ c \in Minutes /\ p \in Minutes /\ d \in Minutes
        BY <3>1, <3>2, <3>5, <3>6
      <4> QED BY ONLY <4>1, <3>3, <3>7, <3>8, WindowStep, SMTT(20)
    <3>11. (Decision'.reason # "asleep")
             <=> (mins' # d /\ (mins' = p \/ Decision.reason # "asleep"))
      BY <3>5, <3>6, <3>9, <3>10
    <3>12. TwoAlarms!Minute
      BY <2>1, <3>6, <3>7, <3>9, <3>11
         DEF Minute, TwoAlarms!Minute, TwoAlarms!Minutes, Minutes, o, c
    <3> QED BY <3>12
  <2>2. CASE UNCHANGED scheduleVars
    BY <2>2 DEF scheduleVars, TwoAlarms!vars, Decision
  <2> QED BY <2>1, <2>2
<1> QED BY <1>1, <1>2, ScheduleInvHolds, PTL DEF RegularSpec, AlarmsRing, TwoAlarms!Spec

(*****************************************************************************)
(* The sunset clamp.                                                         *)
(*****************************************************************************)

\* If the sun has set since the opening, the window is over.
LEMMA ClosedAfterSunset ==
  ASSUME NEW e \in ScheduleEntry, NEW sn \in Suns, NEW m \in Minutes,
         e.notAfterSunset, sn.normal,
         sinceOpen(e, sn, m) >= minutesAfter(m, sn.sunset)
  PROVE  ~awake(m, openMin(e, sn), closeMin(e, sn))
<1> DEFINE o == openMin(e, sn)
           c == closeMin(e, sn)
           set == sn.sunset
<1>1. o \in Minutes /\ c \in Minutes
  BY WindowTyped
<1>2. set \in Minutes /\ e.closeAt \in Minutes
  BY DEF Sun, ScheduleEntry
<1>3. minutesAfter(c, o) = minutesAfter(set, o)
      \/ (c = e.closeAt /\ ~(minutesAfter(set, o) < minutesAfter(e.closeAt, o)))
  BY DEF closeMin
<1>4. minutesAfter(m, o) >= minutesAfter(m, set)
  BY DEF sinceOpen
<1> HIDE DEF o, c, set
<1>5. awake(m, o, c) <=> minutesAfter(m, o) < minutesAfter(c, o)
  BY <1>1, WindowIsInterval
<1>6. /\ minutesAfter(m, o) = IF m >= o THEN m - o ELSE m - o + Day
      /\ minutesAfter(m, set) = IF m >= set THEN m - set ELSE m - set + Day
      /\ minutesAfter(set, o) = IF set >= o THEN set - o ELSE set - o + Day
      /\ minutesAfter(c, o) = IF c >= o THEN c - o ELSE c - o + Day
  BY <1>1, <1>2, MinutesAfter
<1>7. minutesAfter(c, o) <= minutesAfter(set, o)
  BY <1>1, <1>2, <1>3, <1>6, SMT DEF Minutes
<1>8. minutesAfter(set, o) <= minutesAfter(m, o)
  BY <1>1, <1>2, <1>4, <1>6, SMT DEF Minutes
<1>9. ~(minutesAfter(m, o) < minutesAfter(c, o))
  BY <1>1, <1>2, <1>6, <1>7, <1>8, SMT DEF Minutes
<1> QED BY <1>5, <1>9 DEF o, c

\* With the sunset clamp a regular schedule is asleep from the first sunset after the
\* opening, wherever midnight is.
THEOREM SunsetClampHolds == RegularSpec => []AsleepAfterSunset
<1>1. ScheduleInv => AsleepAfterSunset
  <2> SUFFICES ASSUME ScheduleInv, Today.notAfterSunset, sun.normal,
                      sinceOpen(Today, sun, mins) >= minutesAfter(mins, sun.sunset)
               PROVE  Decision.reason = "asleep"
    BY DEF AsleepAfterSunset
  <2>1. entries \in Schedules /\ sun \in Suns /\ wd \in Weekdays /\ mins \in Minutes
        /\ Regular(entries, sun)
    BY DEF ScheduleInv
  <2>2. Rule(entries, wd) # {}
    BY <2>1 DEF Regular
  <2>3. Today \in ScheduleEntry
    BY <2>1, <2>2, EntryTyped DEF Today
  <2>4. ~awake(mins, openMin(Today, sun), closeMin(Today, sun))
    BY <2>1, <2>3, ClosedAfterSunset
  <2>5. Decision.reason # "asleep"
          <=> awake(mins, Opens(entries, sun, wd), Closes(entries, sun, wd))
    BY <2>1, AsleepByClock DEF Decision
  <2> QED BY <2>4, <2>5 DEF Opens, Closes, Today
<1> QED BY <1>1, ScheduleInvHolds, PTL

(*****************************************************************************)
(* The wake ramp.                                                            *)
(*****************************************************************************)

\* Rounding keeps the order, and a whole number of parts stays what it is.
LEMMA RoundedMonotone ==
  ASSUME NEW n \in Int, NEW k \in Int, NEW d \in Nat \ {0}, n <= k
  PROVE  Rounded(n, d) <= Rounded(k, d)
BY SMT DEF Rounded

LEMMA RoundedWhole ==
  ASSUME NEW x \in Int, NEW d \in Nat \ {0}
  PROVE  Rounded(d * x, d) = x /\ Rounded(0, d) = 0
BY SMT DEF Rounded

\* Where a + f, a + g and a + x lie when f, g and x are in order.
LEMMA BetweenShifted ==
  ASSUME NEW a \in Int, NEW f \in Int, NEW g \in Int, NEW x \in Int,
         (0 <= f /\ f <= g /\ g <= x) \/ (x <= g /\ g <= f /\ f <= 0)
  PROVE  Between(a + f, a + g, a + x) /\ Between(a, a + g, a + x)
BY SMT DEF Between

\* Later in the ramp the target is nearer the open position, and never past it.
LEMMA RampBetween ==
  ASSUME NEW e \in ScheduleEntry, e.ramp > 0,
         NEW s \in Nat, NEW t \in Nat, s <= t, t < e.ramp
  PROVE  /\ Between(rampTarget(e, s), rampTarget(e, t), e.openHA)
         /\ Between(e.sleepHA, rampTarget(e, t), e.openHA)
         /\ rampTarget(e, 0) = e.sleepHA
<1> DEFINE r == e.ramp
           a == e.sleepHA
           b == e.openHA
           x == b - a
<1>1. r \in Nat \ {0} /\ a \in Int /\ b \in Int
  <2>1. e.ramp \in Nat /\ e.openHA \in 0..100 /\ e.sleepHA \in 0..100
    BY DEF ScheduleEntry
  <2>2. \A n \in Nat : n > 0 => n \in Nat \ {0}
    OBVIOUS
  <2>3. \A n \in 0..100 : n \in Int
    OBVIOUS
  <2> QED BY <2>1, <2>2, <2>3, Zenon
<1>2. \A u \in Nat : rampTarget(e, u) = a + Rounded(u * x, r)
  BY DEF rampTarget
<1> HIDE DEF r, a, b
<1>3. x \in Int /\ b = a + x
  BY <1>1
<1> HIDE DEF x
<1>4. t < r
  BY DEF r
<1>5. s * x \in Int /\ t * x \in Int /\ r * x \in Int
  BY <1>1, <1>3, SMT
<1>6. Rounded(r * x, r) = x /\ Rounded(0, r) = 0 /\ 0 * x = 0
  <2>1. Rounded(r * x, r) = x /\ Rounded(0, r) = 0
    BY <1>1, <1>3, RoundedWhole, Zenon
  <2> QED BY <1>3, <2>1, SMT
<1>7. \A n \in Int : Rounded(n, r) \in Int
  BY <1>1, SMT DEF Rounded
<1> DEFINE f == Rounded(s * x, r)
           g == Rounded(t * x, r)
<1>8. f \in Int /\ g \in Int /\ rampTarget(e, s) = a + f /\ rampTarget(e, t) = a + g
       /\ rampTarget(e, 0) = a
  BY <1>1, <1>2, <1>5, <1>6, <1>7, SMT
<1>9. (0 <= f /\ f <= g /\ g <= x) \/ (x <= g /\ g <= f /\ f <= 0)
  <2>1. CASE x >= 0
    <3>1. 0 <= s * x /\ s * x <= t * x /\ t * x <= r * x
      BY <1>1, <1>3, <1>4, <2>1, SMT
    <3>2. Rounded(0, r) <= f /\ f <= g /\ g <= Rounded(r * x, r)
      BY <1>1, <1>5, <3>1, RoundedMonotone
    <3> QED BY <1>6, <3>2
  <2>2. CASE x < 0
    <3>1. s * x <= 0 /\ t * x <= s * x /\ r * x <= t * x
      BY <1>1, <1>3, <1>4, <2>2, SMT
    <3>2. f <= Rounded(0, r) /\ g <= f /\ Rounded(r * x, r) <= g
      BY <1>1, <1>5, <3>1, RoundedMonotone
    <3> QED BY <1>6, <3>2
  <2> QED BY <1>3, <2>1, <2>2, SMT
<1> HIDE DEF f, g
<1>10. Between(a + f, a + g, a + x) /\ Between(a, a + g, a + x)
  BY <1>1, <1>3, <1>9, <1>8, BetweenShifted
<1> QED BY <1>3, <1>10, <1>8 DEF a, b

\* While a regular schedule ramps, the target comes from its rule's ramp.
LEMMA RampDecision ==
  ASSUME NEW s \in Schedules, NEW sn \in Suns, Regular(s, sn),
         NEW w \in Weekdays, NEW m \in Minutes,
         scheduleTarget(s, sn, w, m).reason = "ramp"
  PROVE  /\ Entry(s, w) \in ScheduleEntry /\ Entry(s, w).ramp > 0
         /\ sinceOpen(Entry(s, w), sn, m) \in Nat
         /\ sinceOpen(Entry(s, w), sn, m) < Entry(s, w).ramp
         /\ scheduleTarget(s, sn, w, m).target
              = rampTarget(Entry(s, w), sinceOpen(Entry(s, w), sn, m))
<1>1. Rule(s, w) # {}
  BY DEF Regular
<1>2. Entry(s, w) \in ScheduleEntry
  BY <1>1, EntryTyped
<1>3. scheduleTarget(s, sn, w, m) = ruleTarget(Entry(s, w), sn, m)
  BY <1>1 DEF scheduleTarget
<1>4. inRamp(Entry(s, w), sn, m)
  BY <1>3 DEF ruleTarget
<1>5. openMin(Entry(s, w), sn) \in Minutes
  BY <1>2, WindowTyped
<1>6. sinceOpen(Entry(s, w), sn, m) \in Minutes
  BY <1>5, MinutesAfter DEF sinceOpen
<1>7. sinceOpen(Entry(s, w), sn, m) \in Nat
  BY <1>6, SMT DEF Minutes
<1> QED BY <1>2, <1>3, <1>4, <1>7 DEF inRamp, ruleTarget

\* The wake ramp of a regular schedule starts at the sleeping position and rises (or
\* sinks) to the open one without a step back.
THEOREM RampRisesHolds == RegularSpec => RampRises
<1> DEFINE Rises ==
      Decision'.reason = "ramp" =>
        /\ Between(Today'.sleepHA, Decision'.target, Today'.openHA)
        /\ mins' = Opens(entries, sun, wd)' => Decision'.target = Today'.sleepHA
        /\ Decision.reason = "ramp" /\ Today' = Today /\ mins' # Opens(entries, sun, wd)
             => Between(Decision.target, Decision'.target, Today.openHA)
<1>1. ScheduleInv /\ ScheduleInv' /\ [Minute]_scheduleVars => [Rises]_scheduleVars
  <2> SUFFICES ASSUME ScheduleInv, ScheduleInv', Minute, Decision'.reason = "ramp"
               PROVE  Rises
    BY DEF scheduleVars
  <2>1. mins \in Minutes /\ wd \in Weekdays /\ entries \in Schedules /\ sun \in Suns
        /\ Regular(entries, sun)
    BY DEF ScheduleInv
  <2>2. mins' \in Minutes /\ wd' \in Weekdays
    BY DEF ScheduleInv
  <2>3. entries' = entries /\ sun' = sun
    BY DEF Minute
  <2> DEFINE e == Entry(entries, wd')
             t == sinceOpen(e, sun, mins')
  <2>4. Decision' = scheduleTarget(entries, sun, wd', mins') /\ Today' = e
        /\ Opens(entries, sun, wd)' = openMin(e, sun)
    BY <2>3 DEF Decision, Today, Opens
  <2>5. /\ e \in ScheduleEntry /\ e.ramp > 0 /\ t \in Nat /\ t < e.ramp
        /\ Decision'.target = rampTarget(e, t)
    BY <2>1, <2>2, <2>4, RampDecision
  <2>6. openMin(e, sun) \in Minutes
    BY <2>1, <2>5, WindowTyped
  <2>7. /\ Between(e.sleepHA, rampTarget(e, t), e.openHA)
        /\ rampTarget(e, 0) = e.sleepHA
    BY <2>5, RampBetween, 0 \in Nat, 0 <= t
  <2>8. mins' = openMin(e, sun) => t = 0
    BY <2>2, <2>6, MinutesAfter, SMT DEF sinceOpen, Minutes
  <2>9. ASSUME Decision.reason = "ramp", e = Today, mins' # Opens(entries, sun, wd)
        PROVE  Between(Decision.target, rampTarget(e, t), e.openHA)
    <3> DEFINE s == sinceOpen(e, sun, mins)
    <3>1. Opens(entries, sun, wd) = openMin(e, sun) /\ Entry(entries, wd) = e
      BY <2>9 DEF Opens, Today
    <3>2. s \in Nat /\ Decision.target = rampTarget(e, s)
      BY <2>1, <2>9, <3>1, RampDecision DEF Decision
    <3>3. mins' = (IF mins = Day - 1 THEN 0 ELSE mins + 1)
      BY <2>1, NextMinute DEF Minute
    <3>4. s <= t
      <4>1. s = minutesAfter(mins, openMin(e, sun)) /\ t = minutesAfter(mins', openMin(e, sun))
        BY DEF sinceOpen
      <4>2. mins' # openMin(e, sun)
        BY <2>9, <3>1
      <4>3. /\ s = IF mins >= openMin(e, sun) THEN mins - openMin(e, sun)
                   ELSE mins - openMin(e, sun) + Day
            /\ t = IF mins' >= openMin(e, sun) THEN mins' - openMin(e, sun)
                   ELSE mins' - openMin(e, sun) + Day
        BY <2>1, <2>2, <2>6, <4>1, MinutesAfter
      <4> QED BY <2>1, <2>2, <2>6, <3>3, <4>2, <4>3, SMT DEF Minutes
    <3> QED BY <2>5, <3>2, <3>4, RampBetween
  <2> QED BY <2>4, <2>5, <2>7, <2>8, <2>9
<1> QED BY <1>1, ScheduleInvHolds, PTL DEF RegularSpec, RampRises

HIDE ScheduleAssumption

--------------------------------------------------------------------------------
(* The deadband: all steps, deadbands, targets and positions.                *)

USE DeadbandAssumption

DeadbandTypeOK ==
  /\ step \in 1..100 /\ deadband \in 1..100
  /\ want \in 0..100 /\ current \in 0..100

\* A quantized value is within half a step of what it stands for, above or below.
LEMMA QuantizeIsNear ==
  ASSUME NEW v \in 0..100, NEW s \in 1..100
  PROVE  /\ quantize(v, s) \in Nat
         /\ 2 * quantize(v, s) <= 2 * v + s
         /\ 2 * v < 2 * quantize(v, s) + s
<1> DEFINE q == (2 * v + s) \div (2 * s)
<1>1. q \in Nat /\ 2 * s * q <= 2 * v + s /\ 2 * v + s < 2 * s * (q + 1)
  BY SMTT(30)
<1> HIDE DEF q
<1>2. q * s \in Nat /\ 2 * (q * s) = 2 * s * q /\ 2 * s * (q + 1) = 2 * (q * s) + 2 * s
  BY <1>1, SMT
<1>3. quantize(v, s) = q * s
  BY DEF quantize, q
<1> QED BY <1>1, <1>2, <1>3, SMT

\* The clamp brings the target no farther from what is wanted.
LEMMA TargetIsNear ==
  ASSUME DeadbandTypeOK
  PROVE  /\ Target \in 0..100
         /\ 2 * Apart(want - Target) <= step
<1>1. /\ quantize(want, step) \in Nat
      /\ 2 * quantize(want, step) <= 2 * want + step
      /\ 2 * want < 2 * quantize(want, step) + step
  BY QuantizeIsNear DEF DeadbandTypeOK
<1> QED BY <1>1, SMT DEF DeadbandTypeOK, Target, Smaller, Apart

\* The settings, the wanted position and the blind's own stay in their ranges (Move,
\* WantChanges).
THEOREM DeadbandTypeCorrect == DeadbandSpec => []DeadbandTypeOK
<1>1. DeadbandInit => DeadbandTypeOK
  BY DEF DeadbandInit, DeadbandTypeOK
<1>2. DeadbandTypeOK /\ [DeadbandNext]_deadbandVars => DeadbandTypeOK'
  BY DEF DeadbandTypeOK, DeadbandNext, Move, WantChanges, deadbandVars
<1> QED BY <1>1, <1>2, PTL DEF DeadbandSpec

\* Whatever the step and the deadband, a blind that is left alone is within the
\* deadband and half a step of what the policy wants.
THEOREM AtRestIsNearHolds == DeadbandSpec => []AtRestIsNear
<1>1. DeadbandTypeOK => AtRestIsNear
  <2> SUFFICES ASSUME DeadbandTypeOK, InDeadband
               PROVE  2 * Apart(want - current) <= 2 * (deadband - 1) + step
    BY DEF AtRestIsNear
  <2>1. Target \in 0..100 /\ 2 * Apart(want - Target) <= step
    BY TargetIsNear
  <2>2. Apart(Target - current) < deadband \/ Target = current
    BY DEF InDeadband
  <2> HIDE DEF Target
  <2> QED BY <2>1, <2>2, SMT DEF DeadbandTypeOK, Apart
<1> QED BY <1>1, DeadbandTypeCorrect, PTL

HIDE DeadbandAssumption
--------------------------------------------------------------------------------
(* The protocol: all requests, ranges and reports, any number under way.     *)

(*****************************************************************************)
(* Commands.                                                                 *)
(*****************************************************************************)

\* A set of weekdays survives its byte.
LEMMA DaysUnderstood ==
  ASSUME NEW days \in SUBSET WeekdayBits
  PROVE  motorDays(dayMask(days)) = days
<1> DEFINE b0 == IF 0 \in days THEN 1 ELSE 0
           b1 == IF 1 \in days THEN 1 ELSE 0
           b2 == IF 2 \in days THEN 1 ELSE 0
           b3 == IF 3 \in days THEN 1 ELSE 0
           b4 == IF 4 \in days THEN 1 ELSE 0
           b5 == IF 5 \in days THEN 1 ELSE 0
           b6 == IF 6 \in days THEN 1 ELSE 0
           mask == b0 + 2 * b1 + 4 * b2 + 8 * b3 + 16 * b4 + 32 * b5 + 64 * b6
<1>1. dayMask(days) = mask
  BY DEF dayMask, DayBit, WeekdayBits
<1>2. /\ b0 \in {0,1} /\ b1 \in {0,1} /\ b2 \in {0,1} /\ b3 \in {0,1} /\ b4 \in {0,1}
      /\ b5 \in {0,1} /\ b6 \in {0,1}
  OBVIOUS
<1> HIDE DEF b0, b1, b2, b3, b4, b5, b6
<1>3. /\ (mask \div 1) % 2 = b0 /\ (mask \div 2) % 2 = b1 /\ (mask \div 4) % 2 = b2
      /\ (mask \div 8) % 2 = b3 /\ (mask \div 16) % 2 = b4 /\ (mask \div 32) % 2 = b5
      /\ (mask \div 64) % 2 = b6
  BY <1>2
<1>4. /\ b0 = 1 <=> 0 \in days
      /\ b1 = 1 <=> 1 \in days
      /\ b2 = 1 <=> 2 \in days
      /\ b3 = 1 <=> 3 \in days
      /\ b4 = 1 <=> 4 \in days
      /\ b5 = 1 <=> 5 \in days
      /\ b6 = 1 <=> 6 \in days
  BY DEF b0, b1, b2, b3, b4, b5, b6
<1>5. /\ DayBit[0] = 1 /\ DayBit[1] = 2 /\ DayBit[2] = 4 /\ DayBit[3] = 8 /\ DayBit[4] = 16
      /\ DayBit[5] = 32 /\ DayBit[6] = 64
  BY DEF DayBit, WeekdayBits
<1> HIDE DEF mask
<1>6. ASSUME NEW d \in WeekdayBits PROVE (mask \div DayBit[d]) % 2 = 1 <=> d \in days
  <2>0. CASE d = 0
    BY <2>0, <1>3, <1>4, <1>5
  <2>1. CASE d = 1
    BY <2>1, <1>3, <1>4, <1>5
  <2>2. CASE d = 2
    BY <2>2, <1>3, <1>4, <1>5
  <2>3. CASE d = 3
    BY <2>3, <1>3, <1>4, <1>5
  <2>4. CASE d = 4
    BY <2>4, <1>3, <1>4, <1>5
  <2>5. CASE d = 5
    BY <2>5, <1>3, <1>4, <1>5
  <2>6. CASE d = 6
    BY <2>6, <1>3, <1>4, <1>5
  <2> QED BY <2>0, <2>1, <2>2, <2>3, <2>4, <2>5, <2>6 DEF WeekdayBits
<1> QED BY <1>1, <1>6 DEF motorDays

LEMMA TupleTyped ==
  ASSUME NEW n \in Nat, NEW t \in [1..n -> Int] PROVE t \in Seq(Int) /\ Len(t) = n
OBVIOUS

\* One part of a frame after another.
LEMMA Joined ==
  ASSUME NEW a \in Seq(Int), NEW b \in Seq(Int), NEW c, c = a \o b
  PROVE  /\ c \in Seq(Int) /\ Len(c) = Len(a) + Len(b)
         /\ \A i \in 1..Len(a) : c[i] = a[i]
         /\ \A i \in 1..Len(b) : c[Len(a) + i] = b[i]
<1>1. /\ Len(a) \in Nat /\ Len(b) \in Nat
      /\ c \in Seq(Int) /\ Len(c) = Len(a) + Len(b)
      /\ \A i \in 1..(Len(a) + Len(b)) : c[i] = IF i <= Len(a) THEN a[i] ELSE b[i - Len(a)]
  BY ConcatProperties, LenProperties
<1>2. \A i \in 1..Len(a) : c[i] = a[i]
  BY <1>1
<1>3. ASSUME NEW i \in 1..Len(b) PROVE c[Len(a) + i] = b[i]
  <2>1. Len(a) + i \in 1..(Len(a) + Len(b)) /\ ~(Len(a) + i <= Len(a)) /\ Len(a) + i - Len(a) = i
    BY <1>1
  <2> QED BY <1>1, <2>1
<1> QED BY <1>1, <1>2, <1>3

\* What follows the first bytes of a frame is found again.
LEMMA RestOfFrame ==
  ASSUME NEW h \in Seq(Int), NEW s \in Seq(Int), NEW f, f = h \o s, NEW k, k = Len(h) + 1
  PROVE  SubSeq(f, k, Len(f)) = s
<1> DEFINE t == SubSeq(f, k, Len(f))
<1>1. /\ Len(h) \in Nat /\ Len(s) \in Nat /\ k \in Nat
      /\ f \in Seq(Int) /\ Len(f) = Len(h) + Len(s)
      /\ \A i \in 1..Len(s) : f[Len(h) + i] = s[i]
  BY Joined, LenProperties
<1>2. \A i \in k..Len(f) : f[i] \in Int
  BY <1>1, ElementOfSeq
<1>3. /\ t \in Seq(Int)
      /\ Len(t) = IF k <= Len(f) THEN Len(f) - k + 1 ELSE 0
      /\ \A i \in 1..(Len(f) - k + 1) : t[i] = f[k + i - 1]
  <2>1. k \in Int /\ Len(f) \in Int
    BY <1>1
  <2> QED BY <1>2, <2>1, SubSeqProperties
<1> HIDE DEF t
<1>4. Len(t) = Len(s)
  BY <1>1, <1>3
<1>5. ASSUME NEW i \in 1..Len(t) PROVE t[i] = s[i]
  <2>1. t[i] = f[k + i - 1]
    BY <1>1, <1>3, <1>4
  <2>2. k + i - 1 = Len(h) + i
    BY <1>1
  <2> QED BY <1>1, <1>4, <2>1, <2>2
<1>6. t = s
  BY <1>3, <1>4, <1>5, SeqEqual
<1> QED BY <1>6 DEF t

\* The frame of each kind of request.
LEMMA FrameOf ==
  ASSUME NEW q, NEW r
  PROVE  /\ q.op = "goto" => commandFrame(q, r) = GotoCommand(q.percent, r)
         /\ q.op = "speed" => commandFrame(q, r) = SpeedCommand(q.percent)
         /\ q.op = "addTimer" => commandFrame(q, r) = AddTimerCommand(q, r)
         /\ q.op = "deleteTimer" => commandFrame(q, r) = DeleteTimerCommand(q.slot)
         /\ q.op = "setClock" => commandFrame(q, r) = SetClockCommand(q.time)
BY DEF commandFrame, Short

\* The motor reads the position that was meant, to less than one of its units.
LEMMA PositionUnderstood ==
  ASSUME NEW p \in Byte, NEW r \in Int, Fits(r)
  PROVE  /\ positionBytes(p, r) \in Seq(Int)
         /\ Reaches(motorUnits(positionBytes(p, r)), p, r)
<1> DEFINE e == effectiveRange(r)
           asked == Lesser(p, 100) * e
           scaled == asked \div 100
<1>1. e \in 1..255 \/ e = 1000
  BY DEF Fits
<1> HIDE DEF e
<1>2. Lesser(p, 100) \in 0..100
  BY DEF Lesser, Byte
<1>3. asked \in Nat /\ (e = 1000 => asked <= 100000) /\ (e # 1000 => asked <= 25500)
  <2>1. ASSUME NEW x \in 0..100, NEW y \in 1..255 PROVE x * y \in Nat /\ x * y <= 25500
    <3>1. x * y <= 100 * y
      OBVIOUS
    <3> QED BY <3>1
  <2>2. CASE e = 1000
    BY <1>2, <2>2
  <2>3. CASE e # 1000
    <3>1. e \in 1..255
      BY <1>1, <2>3
    <3>2. Lesser(p, 100) * e \in Nat /\ Lesser(p, 100) * e <= 25500
      BY <1>2, <2>1, <3>1
    <3> QED BY <2>3, <3>2
  <2> QED BY <2>2, <2>3
<1> HIDE DEF asked
<1>4. /\ scaled \in Nat /\ 100 * scaled <= asked /\ asked < 100 * (scaled + 1)
      /\ (e = 1000 => scaled <= 1000) /\ (e # 1000 => scaled <= 255)
  BY <1>3
<1> HIDE DEF scaled
<1>5. CASE e = 1000
  <2>1. positionBytes(p, r) = <<scaled % 256, (scaled \div 256) % 256>>
    BY <1>5 DEF positionBytes, e, asked, scaled
  <2>2. (scaled % 256) + 256 * ((scaled \div 256) % 256) = scaled
    BY <1>4, <1>5
  <2>3. motorUnits(positionBytes(p, r)) = scaled
    BY <2>1, <2>2 DEF motorUnits
  <2>4. positionBytes(p, r) \in Seq(Int)
    BY <1>4, <2>1
  <2> QED BY <1>4, <2>3, <2>4 DEF Reaches, asked, e
<1>6. CASE e # 1000
  <2>1. positionBytes(p, r) = <<scaled % 256>>
    BY <1>6 DEF positionBytes, e, asked, scaled
  <2>2. scaled % 256 = scaled
    BY <1>4, <1>6
  <2>3. motorUnits(positionBytes(p, r)) = scaled
    BY <2>1, <2>2 DEF motorUnits
  <2>4. positionBytes(p, r) \in Seq(Int)
    BY <1>4, <2>1
  <2> QED BY <1>4, <2>3, <2>4 DEF Reaches, asked, e
<1> QED BY <1>5, <1>6

\* The preset that is nearest to a speed.
LEMMA NearestPreset ==
  ASSUME NEW p \in Int
  PROVE  /\ SpeedCommand(p)[1] \in DOMAIN motorSpeed
         /\ \A preset \in {25, 50, 75, 100} :
              Distance(p, motorSpeed[SpeedCommand(p)[1]]) <= Distance(p, preset)
<1>1. /\ SpeedCommand(p)[1] \in 240..243
      /\ motorSpeed[SpeedCommand(p)[1]] =
           IF p <= 37 THEN 25 ELSE IF p <= 62 THEN 50 ELSE IF p <= 87 THEN 75 ELSE 100
      /\ DOMAIN motorSpeed = 240..243
  BY DEF SpeedCommand, motorSpeed
<1>2. \A preset \in {25, 50, 75, 100} :
        Distance(p, motorSpeed[SpeedCommand(p)[1]]) <= Distance(p, preset)
  BY <1>1 DEF Distance
<1> QED BY <1>1, <1>2

\* The opcodes of the frames without parameters differ from each other and from all
\* others.
LEMMA OpcodesDiffer ==
  /\ \A o \in DOMAIN opcode :
       opcode[o] \in Int /\ opcode[o] \notin {2, 3, 191} \cup 240..243
  /\ \A o, u \in DOMAIN opcode : opcode[o] = opcode[u] => o = u
<1>1. DOMAIN opcode = {"up", "down", "stop", "fineUp", "fineDown", "status", "favoriteGoto",
                       "favoriteSet", "favoriteDelete", "querySlots"}
  BY DEF opcode
<1> QED BY <1>1 DEF opcode

\* Each frame is read as the request it was built from.
LEMMA PlainUnderstood ==
  ASSUME NEW q \in Plain, NEW r \in Int
  PROVE  Understood(q, r, motorReads(commandFrame(q, r)))
<1> DEFINE f == commandFrame(q, r)
<1>1. q.op \in DOMAIN opcode
  BY DEF Plain, opcode
<1>2. q.op \notin {"goto", "speed", "addTimer", "deleteTimer", "setClock"}
  BY DEF Plain
<1>3. f[1] = opcode[q.op]
  <2>1. f = <<opcode[q.op]>> \/ f = <<opcode[q.op], 3, 1>>
    BY <1>2 DEF commandFrame
  <2> QED BY <2>1
<1> HIDE DEF f
<1>4. motorReads(f) = [op |-> CHOOSE o \in DOMAIN opcode : opcode[o] = f[1]]
  BY <1>1, <1>3, OpcodesDiffer DEF motorReads, motorSpeed
<1>5. (CHOOSE o \in DOMAIN opcode : opcode[o] = f[1]) = q.op
  BY <1>1, <1>3, OpcodesDiffer
<1>6. motorReads(f).op = q.op
  BY <1>4, <1>5
<1> QED BY <1>2, <1>6 DEF Understood, f

LEMMA GotoUnderstood ==
  ASSUME NEW q \in Goto, NEW r \in Int, Fits(r)
  PROVE  Understood(q, r, motorReads(commandFrame(q, r)))
<1> DEFINE f == commandFrame(q, r)
           h == <<191, 3>>
           s == positionBytes(q.percent, r)
<1>1. q.op = "goto" /\ q.percent \in Byte
  BY DEF Goto
<1>2. s \in Seq(Int) /\ Reaches(motorUnits(s), q.percent, r)
  BY <1>1, PositionUnderstood
<1>3. f = h \o s
  BY <1>1, FrameOf DEF GotoCommand
<1>4. h \in Seq(Int) /\ Len(h) = 2 /\ h[1] = 191
  OBVIOUS
<1> HIDE DEF f, h, s
<1>5. f[1] = 191 /\ SubSeq(f, 3, Len(f)) = s
  <2>1. 3 = Len(h) + 1 /\ 1 \in 1..Len(h)
    BY <1>4
  <2>2. h \in Seq(Int) /\ s \in Seq(Int) /\ 3 = Len(h) + 1
    BY <1>2, <1>4
  <2>3. SubSeq(f, 3, Len(f)) = s
    BY <1>3, <2>2, RestOfFrame, Zenon
  <2>4. \A i \in 1..Len(h) : f[i] = h[i]
    BY <1>3, <2>2, Joined
  <2> QED BY <1>4, <2>1, <2>3, <2>4
<1>6. motorReads(f) = [op |-> "goto", units |-> motorUnits(SubSeq(f, 3, Len(f)))]
  BY <1>5 DEF motorReads, motorSpeed
<1>7. motorReads(f).op = "goto" /\ motorReads(f).units = motorUnits(s)
  <2>1. /\ motorReads(f).op = "goto"
        /\ motorReads(f).units = motorUnits(SubSeq(f, 3, Len(f)))
    BY <1>6
  <2> QED BY <1>5, <2>1, Zenon
<1> QED BY <1>1, <1>2, <1>7 DEF Understood, f

LEMMA SpeedUnderstood ==
  ASSUME NEW q \in Speed, NEW r \in Int
  PROVE  Understood(q, r, motorReads(commandFrame(q, r)))
<1> DEFINE f == commandFrame(q, r)
<1>1. q.op = "speed" /\ q.percent \in Int
  BY DEF Speed
<1>2. f = SpeedCommand(q.percent)
  BY <1>1, FrameOf
<1> HIDE DEF f
<1>3. f[1] = SpeedCommand(q.percent)[1]
  BY <1>2
<1>4. f[1] \in DOMAIN motorSpeed /\ DOMAIN motorSpeed = 240..243
  BY <1>1, <1>3, NearestPreset DEF motorSpeed
<1>5. motorReads(f) = [op |-> "speed", preset |-> motorSpeed[f[1]]]
  BY <1>4 DEF motorReads
<1>6. motorReads(f).op = "speed" /\ motorReads(f).preset = motorSpeed[SpeedCommand(q.percent)[1]]
  BY <1>3, <1>5
<1> QED BY <1>1, <1>6, NearestPreset DEF Understood, f

LEMMA AddTimerUnderstood ==
  ASSUME NEW q \in AddTimer, NEW r \in Int, Fits(r)
  PROVE  Understood(q, r, motorReads(commandFrame(q, r)))
<1> DEFINE f == commandFrame(q, r)
           flag == IF q.silent THEN 128 ELSE 0
           mask == dayMask(q.days)
           h == <<3, flag, q.slot, 178, 63, mask, q.time[1], q.time[2], q.time[3]>>
           s == positionBytes(q.percent, r)
<1>1. /\ q.op = "addTimer" /\ q.percent \in Byte /\ q.slot \in Byte
      /\ q.days \in SUBSET WeekdayBits /\ q.time \in [1..3 -> Byte] /\ q.silent \in BOOLEAN
  BY DEF AddTimer
<1>2. s \in Seq(Int) /\ Reaches(motorUnits(s), q.percent, r)
  BY <1>1, PositionUnderstood
<1>3. mask \in Int /\ motorDays(mask) = q.days
  <2>1. mask \in Int
    BY DEF dayMask, DayBit, WeekdayBits
  <2> QED BY <1>1, <2>1, DaysUnderstood
<1>4. f = h \o s
  BY <1>1, FrameOf DEF AddTimerCommand
<1>5. /\ flag \in Int /\ flag # 1 /\ ((flag = 128) = q.silent)
      /\ q.slot \in Int /\ q.time[1] \in Int /\ q.time[2] \in Int /\ q.time[3] \in Int
  BY <1>1 DEF Byte
<1> HIDE DEF f, flag, mask, s
<1>6. /\ h \in Seq(Int) /\ Len(h) = 9 /\ h[1] = 3 /\ h[2] = flag /\ h[3] = q.slot /\ h[6] = mask
      /\ h[7] = q.time[1] /\ h[8] = q.time[2] /\ h[9] = q.time[3]
  BY <1>3, <1>5
<1> HIDE DEF h
<1>7. /\ f[1] = 3 /\ f[2] = flag /\ f[3] = q.slot /\ f[6] = mask
      /\ f[7] = q.time[1] /\ f[8] = q.time[2] /\ f[9] = q.time[3]
      /\ SubSeq(f, 10, Len(f)) = s
  <2>1. 10 = Len(h) + 1 /\ 1..Len(h) = 1..9
    BY <1>6
  <2>2. h \in Seq(Int) /\ s \in Seq(Int) /\ 10 = Len(h) + 1
    BY <1>2, <1>6
  <2>3. SubSeq(f, 10, Len(f)) = s
    BY <1>4, <2>2, RestOfFrame, ZenonT(40)
  <2>4. \A i \in 1..Len(h) : f[i] = h[i]
    BY <1>4, <2>2, Joined
  <2> QED BY <1>6, <2>1, <2>3, <2>4, SMTT(30)
<1>8. SubSeq(f, 7, 9) = q.time
  <2>1. \A i \in 7..9 : f[i] \in Int
    BY <1>5, <1>7
  <2>2. /\ SubSeq(f, 7, 9) \in Seq(Int) /\ Len(SubSeq(f, 7, 9)) = 3
        /\ \A i \in 1..3 : SubSeq(f, 7, 9)[i] = f[7 + i - 1]
    BY <2>1, SubSeqProperties
  <2>3. q.time \in Seq(Int) /\ Len(q.time) = 3
    <3>1. q.time \in [1..3 -> Int]
      BY <1>1 DEF Byte
    <3> QED BY <3>1, TupleTyped, 3 \in Nat, Zenon
  <2>4. \A i \in 1..3 : SubSeq(f, 7, 9)[i] = q.time[i]
    BY <1>7, <2>2
  <2> QED BY <2>2, <2>3, <2>4, SeqEqual
<1>9. motorReads(f) =
        [op |-> "addTimer", silent |-> f[2] = 128, slot |-> f[3], days |-> motorDays(f[6]),
         time |-> SubSeq(f, 7, 9), units |-> motorUnits(SubSeq(f, 10, Len(f)))]
  BY <1>5, <1>7 DEF motorReads, motorSpeed
<1>10. /\ motorReads(f).op = "addTimer" /\ motorReads(f).slot = f[3]
       /\ motorReads(f).days = motorDays(f[6]) /\ motorReads(f).time = SubSeq(f, 7, 9)
       /\ motorReads(f).units = motorUnits(SubSeq(f, 10, Len(f)))
  BY <1>9
<1>11. motorReads(f).silent = q.silent
  <2>1. motorReads(f).silent = (f[2] = 128)
    BY <1>9
  <2> QED BY <1>5, <1>7, <2>1, Zenon
<1>12. /\ motorReads(f).slot = q.slot /\ motorReads(f).days = q.days
       /\ motorReads(f).time = q.time /\ motorReads(f).units = motorUnits(s)
  BY <1>3, <1>7, <1>8, <1>10
<1> QED BY <1>1, <1>2, <1>10, <1>11, <1>12 DEF Understood, f, s

LEMMA DeleteTimerUnderstood ==
  ASSUME NEW q \in DeleteTimer, NEW r \in Int
  PROVE  Understood(q, r, motorReads(commandFrame(q, r)))
<1> DEFINE f == commandFrame(q, r)
<1>1. q.op = "deleteTimer"
  BY DEF DeleteTimer
<1>2. f = <<3, 1, q.slot>>
  BY <1>1, FrameOf DEF DeleteTimerCommand
<1> HIDE DEF f
<1>3. motorReads(f) = [op |-> "deleteTimer", slot |-> q.slot]
  BY <1>2 DEF motorReads, motorSpeed
<1> QED BY <1>1, <1>3 DEF Understood, f

\* A time of which the year and the rest were sent apart.
LEMMA TimeRestored ==
  ASSUME NEW time \in [1..6 -> Int],
         NEW y \in Seq(Int), Len(y) = 1, y[1] = time[1],
         NEW s \in Seq(Int), Len(s) = 5, \A i \in 1..5 : s[i] = time[i + 1],
         NEW t, t = y \o s
  PROVE  t = time
<1>1. /\ t \in Seq(Int) /\ Len(t) = Len(y) + Len(s)
      /\ \A i \in 1..Len(y) : t[i] = y[i]
      /\ \A i \in 1..Len(s) : t[Len(y) + i] = s[i]
  <2>1. y \in Seq(Int) /\ s \in Seq(Int) /\ t = y \o s
    OBVIOUS
  <2> QED BY ONLY <2>1, Joined
<1>2. time \in Seq(Int) /\ Len(time) = 6
  <2>1. time \in [1..6 -> Int] /\ 6 \in Nat
    OBVIOUS
  <2> QED BY <2>1, TupleTyped, Zenon
<1>3. Len(t) = 6
  BY <1>1
<1>4. ASSUME NEW i \in 1..Len(t) PROVE t[i] = time[i]
  <2>1. CASE i = 1
    BY <2>1, <1>1, SMTT(30)
  <2>2. CASE i # 1
    <3>1. i - 1 \in 1..5 /\ 1 + (i - 1) = i /\ (i - 1) + 1 = i
      BY <1>3, <2>2
    <3>2. t[1 + (i - 1)] = s[i - 1]
      BY <1>1, <3>1
    <3> QED BY <3>1, <3>2
  <2> QED BY <2>1, <2>2
<1> QED BY <1>1, <1>2, <1>3, <1>4, SeqEqual

LEMMA SetClockUnderstood ==
  ASSUME NEW q \in SetClock, NEW r \in Int
  PROVE  Understood(q, r, motorReads(commandFrame(q, r)))
<1> DEFINE f == commandFrame(q, r)
           h == <<2, 0, (q.time[1] - 2000) % 256>>
           s == SubSeq(q.time, 2, 6)
<1>1. q.op = "setClock" /\ q.time \in [1..6 -> Int] /\ q.time[1] \in 2000..2255
  BY DEF SetClock, Years
<1>2. f = h \o s
  BY <1>1, FrameOf DEF SetClockCommand
<1>3. (q.time[1] - 2000) % 256 = q.time[1] - 2000
  BY <1>1
<1>4. h \in Seq(Int) /\ Len(h) = 3 /\ h[1] = 2 /\ h[3] = q.time[1] - 2000
  BY <1>1, <1>3
<1>5. /\ s \in Seq(Int) /\ Len(s) = 5
      /\ \A i \in 1..5 : s[i] = q.time[i + 1]
  <2>1. \A i \in 2..6 : q.time[i] \in Int
    BY <1>1
  <2> QED BY <2>1, SubSeqProperties
<1> HIDE DEF f, h, s
<1>6. f[1] = 2 /\ f[3] = q.time[1] - 2000 /\ Len(f) = 8 /\ SubSeq(f, 4, Len(f)) = s
  <2>1. 4 = Len(h) + 1 /\ 1..Len(h) = 1..3
    BY <1>4
  <2>2. h \in Seq(Int) /\ s \in Seq(Int) /\ 4 = Len(h) + 1
    BY <1>4, <1>5
  <2>3. SubSeq(f, 4, Len(f)) = s
    BY <1>2, <2>2, RestOfFrame, Zenon
  <2>4. \A i \in 1..Len(h) : f[i] = h[i]
    BY <1>2, <2>2, Joined
  <2>5. Len(f) = Len(h) + Len(s)
    BY <1>2, <2>2, Joined
  <2> QED BY <1>4, <1>5, <2>1, <2>3, <2>4, <2>5
<1>7. motorReads(f) = [op |-> "setClock", time |-> <<2000 + f[3]>> \o SubSeq(f, 4, 8)]
  BY <1>6 DEF motorReads, motorSpeed
<1>8. SubSeq(f, 4, 8) = s
  BY <1>6
<1> DEFINE y == <<2000 + f[3]>>
           t == y \o SubSeq(f, 4, 8)
<1>9. y \in Seq(Int) /\ Len(y) = 1 /\ y[1] = q.time[1]
  BY <1>1, <1>6
<1>10. motorReads(f).op = "setClock" /\ motorReads(f).time = t
  BY <1>7
<1> HIDE DEF y
<1>11. t = y \o s
  BY <1>8, Zenon
<1> HIDE DEF t
<1>12. t = q.time
  <2>1. q.time \in [1..6 -> Int]
    BY <1>1
  <2> QED BY ONLY <1>5, <1>9, <1>11, <2>1, TimeRestored, ZenonT(40)
<1> QED BY <1>1, <1>10, <1>12 DEF Understood, f

\* The frame that is under way is that of the request, which is one of those explored.
CommandInv ==
  /\ range \in Ranges
  /\ request = NoRequest \/ (request \in Requests /\ command = commandFrame(request, range))

LEMMA CommandStepInv == CommandInv /\ [ProtocolNext]_protocolVars => CommandInv'
<1> SUFFICES ASSUME CommandInv, [ProtocolNext]_protocolVars PROVE CommandInv'
  OBVIOUS
<1>1. ASSUME NEW q \in Requests, Send(q) PROVE CommandInv'
  BY <1>1 DEF Send, CommandInv
<1>2. CASE Taken
  BY <1>2 DEF Taken, CommandInv, NoRequest
<1>3. CASE Reporting \/ UNCHANGED protocolVars
  <2>1. UNCHANGED <<range, request, command>>
    BY <1>3 DEF Reporting, Report, ReportUnknown, Notified, protocolVars
  <2> QED BY <2>1 DEF CommandInv, NoRequest
<1> QED BY <1>1, <1>2, <1>3 DEF ProtocolNext, Commanding

\* Whatever the requests and the ranges, every frame the client builds means to the
\* motor what the caller asked for (the command builders of protocol.go).
THEOREM CommandsUnderstoodHolds == ProtocolSpec => []CommandsUnderstood
<1>1. ProtocolInit => CommandInv
  BY DEF ProtocolInit, CommandInv
<1>2. CommandInv => CommandsUnderstood
  <2> SUFFICES ASSUME CommandInv, request # NoRequest, Fits(range)
               PROVE  Understood(request, range, motorReads(command))
    BY DEF CommandsUnderstood
  <2>1. /\ command = commandFrame(request, range) /\ range \in Int
        /\ request \in Plain \cup Goto \cup Speed \cup AddTimer \cup DeleteTimer \cup SetClock
    BY ProtocolAssumption DEF CommandInv
  <2> QED BY <2>1, PlainUnderstood, GotoUnderstood, SpeedUnderstood, AddTimerUnderstood,
             DeleteTimerUnderstood, SetClockUnderstood
<1> QED BY <1>1, <1>2, CommandStepInv, PTL DEF ProtocolSpec

(*****************************************************************************)
(* Reports.                                                                  *)
(*****************************************************************************)

Known == 209..216 \ {213}      \* the opcodes of the responses that are parsed
Unknown == [op |-> "unknown"]

\* What the client makes of a response, by its opcode.
LEMMA ParseOf ==
  ASSUME NEW p \in Seq(Int)
  PROVE  /\ p = <<>> => ParseResponse(p) = NoEvent
         /\ p # <<>> /\ p[1] \notin Known => ParseResponse(p) = Unknown
         /\ p # <<>> /\ p[1] \in Known /\ Len(p) < 3 => ParseResponse(p) = NoEvent
         /\ p # <<>> /\ Len(p) >= 3 =>
              /\ p[1] \in {209, 210} => ParseResponse(p) =
                   [op |-> "status", percent |-> p[3], battery |-> batteryLevel(p[2]),
                    reversed |-> p[2] % 2 = 1]
              /\ p[1] = 212 => ParseResponse(p) = [op |-> "login", success |-> p[3] > 0]
              /\ p[1] = 211 => ParseResponse(p) = [op |-> "password", success |-> p[3] > 0]
              /\ p[1] = 214 => ParseResponse(p) = [op |-> "timerIndex", index |-> p[3]]
              /\ p[1] = 215 => ParseResponse(p) = [op |-> "timerSet", success |-> p[3] > 0]
              /\ p[1] = 216 => ParseResponse(p) = [op |-> "timerDelete", success |-> p[3] > 0]
<1>1. Len(p) \in Nat /\ (p # <<>> => Len(p) # 0)
  BY EmptySeq, LenProperties
<1>2. p = <<>> => Len(p) = 0
  OBVIOUS
<1>3. p # <<>> => p[1] \in Int
  BY <1>1, ElementOfSeq
<1>4. p = <<>> => ParseResponse(p) = NoEvent
  BY <1>2 DEF ParseResponse
<1>5. p # <<>> /\ p[1] \notin Known => ParseResponse(p) = Unknown
  BY <1>3 DEF ParseResponse, Known, Unknown
<1>6. p # <<>> /\ p[1] \in Known /\ Len(p) < 3 => ParseResponse(p) = NoEvent
  BY <1>1 DEF ParseResponse, Known
<1>7. ASSUME p # <<>>, Len(p) >= 3, p[1] \in {209, 210}
      PROVE  ParseResponse(p) =
               [op |-> "status", percent |-> p[3], battery |-> batteryLevel(p[2]),
                reversed |-> p[2] % 2 = 1]
  BY <1>1, <1>7 DEF ParseResponse
<1>8. ASSUME p # <<>>, Len(p) >= 3
      PROVE  /\ p[1] = 212 => ParseResponse(p) = [op |-> "login", success |-> p[3] > 0]
             /\ p[1] = 211 => ParseResponse(p) = [op |-> "password", success |-> p[3] > 0]
             /\ p[1] = 214 => ParseResponse(p) = [op |-> "timerIndex", index |-> p[3]]
             /\ p[1] = 215 => ParseResponse(p) = [op |-> "timerSet", success |-> p[3] > 0]
             /\ p[1] = 216 => ParseResponse(p) = [op |-> "timerDelete", success |-> p[3] > 0]
  BY <1>1, <1>8 DEF ParseResponse
<1> QED BY <1>4, <1>5, <1>6, <1>7, <1>8

\* The first three bytes of a report's frame.
Begins(g, m) ==
  /\ g \in Seq(Int) /\ Len(g) >= 3
  /\ m.op = "status" =>
       /\ g[1] \in {209, 210} /\ g[3] = m.percent
       /\ g[2] = BatteryFlag[m.battery] + (IF m.reversed THEN 1 ELSE 0)
  /\ m.op = "timerIndex" => g[1] = 214 /\ g[3] = m.index
  /\ m.op \in {"login", "password", "timerSet", "timerDelete"} =>
       g[1] = ResultOpcode[m.op] /\ g[3] = IF m.success THEN 1 ELSE 0

LEMMA FrameBytes ==
  ASSUME NEW m \in Status \cup Result \cup TimerIndex, NEW pushed \in BOOLEAN, NEW raw \in BOOLEAN,
         NEW g, g = reportFrame(m, pushed, raw)
  PROVE  Begins(g, m)
<1>1. CASE m \in Status
  <2> DEFINE flags == BatteryFlag[m.battery] + (IF m.reversed THEN 1 ELSE 0)
             opc == IF pushed THEN 210 ELSE 209
             a == <<opc, flags, m.percent>>
             b == IF raw THEN <<(10 * m.percent) % 256, (10 * m.percent) \div 256>> ELSE <<>>
  <2>1. m.op = "status" /\ m.percent \in 0..100 /\ m.battery \in {"normal", "low", "none"}
    BY <1>1 DEF Status
  <2>2. g = a \o b
    BY <2>1 DEF reportFrame
  <2>3. flags \in Int /\ opc \in {209, 210}
    BY <2>1 DEF BatteryFlag
  <2> HIDE DEF flags, opc
  <2>4. a \in Seq(Int) /\ Len(a) = 3 /\ a[1] = opc /\ a[2] = flags /\ a[3] = m.percent
    BY <2>1, <2>3
  <2>5. b \in Seq(Int) /\ Len(b) \in Nat
    <3>1. CASE raw
      <4>1. b = <<(10 * m.percent) % 256, (10 * m.percent) \div 256>>
        BY <3>1
      <4>2. (10 * m.percent) % 256 \in Int /\ (10 * m.percent) \div 256 \in Int
        BY <2>1
      <4> QED BY <4>1, <4>2
    <3>2. CASE ~raw
      <4>1. b = <<>>
        BY <3>2
      <4> QED BY <4>1
    <3> QED BY <3>1, <3>2
  <2> HIDE DEF a, b
  <2>6. g \in Seq(Int) /\ Len(g) = Len(a) + Len(b) /\ \A i \in 1..Len(a) : g[i] = a[i]
    <3>1. a \in Seq(Int) /\ b \in Seq(Int)
      BY <2>4, <2>5
    <3> QED BY ONLY <2>2, <3>1, Joined
  <2>7. Len(g) >= 3 /\ g[1] = opc /\ g[2] = flags /\ g[3] = m.percent
    BY <2>4, <2>5, <2>6
  <2> QED BY <2>1, <2>3, <2>6, <2>7 DEF flags, Begins
<1>2. CASE m \in TimerIndex
  <2>1. m.op = "timerIndex" /\ m.index \in Int
    BY <1>2 DEF TimerIndex, Byte
  <2>2. g = <<214, 0, m.index>>
    BY <2>1 DEF reportFrame
  <2> QED BY <2>1, <2>2 DEF Begins
<1>3. CASE m \in Result
  <2>1. m.op \in {"login", "password", "timerSet", "timerDelete"}
    BY <1>3 DEF Result
  <2> DEFINE opc == ResultOpcode[m.op]
             ok == IF m.success THEN 1 ELSE 0
  <2>2. g = <<opc, 0, ok>>
    BY <2>1 DEF reportFrame
  <2>3. opc \in Int /\ ok \in Int
    BY <2>1 DEF ResultOpcode
  <2> HIDE DEF opc, ok
  <2>4. g \in Seq(Int) /\ Len(g) = 3 /\ g[1] = opc /\ g[3] = ok
    BY <2>2, <2>3
  <2> QED BY <2>1, <2>4 DEF opc, ok, Begins
<1> QED BY <1>1, <1>2, <1>3

\* A whole frame is parsed into the report it was made of.
LEMMA WholeFrameParsed ==
  ASSUME NEW m \in Status \cup Result \cup TimerIndex, NEW pushed \in BOOLEAN, NEW raw \in BOOLEAN,
         NEW g, g = reportFrame(m, pushed, raw)
  PROVE  ParseResponse(g) = m
<1>0. Begins(g, m)
  BY FrameBytes
<1>1. g \in Seq(Int) /\ Len(g) >= 3 /\ g # <<>>
  <2>1. g \in Seq(Int) /\ Len(g) >= 3
    BY <1>0 DEF Begins
  <2>2. g = <<>> => Len(g) = 0
    OBVIOUS
  <2> QED BY <2>1, <2>2
<1>2. CASE m \in Status
  <2>1. /\ m.op = "status" /\ m.percent \in 0..100 /\ m.battery \in {"normal", "low", "none"}
        /\ m.reversed \in BOOLEAN
        /\ m = [op |-> m.op, percent |-> m.percent, battery |-> m.battery, reversed |-> m.reversed]
    BY <1>2 DEF Status
  <2>2. /\ g[1] \in {209, 210} /\ g[3] = m.percent
        /\ g[2] = BatteryFlag[m.battery] + (IF m.reversed THEN 1 ELSE 0)
    BY <1>0, <2>1 DEF Begins
  <2>3. BatteryFlag["normal"] = 0 /\ BatteryFlag["low"] = 8 /\ BatteryFlag["none"] = 16
    BY DEF BatteryFlag
  <2>4. batteryLevel(g[2]) = m.battery
    <3>1. \A r \in {0, 1} : /\ 1 + (((0 + r) \div 8) % 4) = 1
                           /\ 1 + (((8 + r) \div 8) % 4) = 2
                           /\ 1 + (((16 + r) \div 8) % 4) = 3
      OBVIOUS
    <3>2. PICK r \in {0, 1} : g[2] = BatteryFlag[m.battery] + r
      BY <2>2
    <3>3. /\ <<"normal", "low", "none", "unknown">>[1] = "normal"
          /\ <<"normal", "low", "none", "unknown">>[2] = "low"
          /\ <<"normal", "low", "none", "unknown">>[3] = "none"
      OBVIOUS
    <3>4. CASE m.battery = "normal"
      BY <2>3, <3>1, <3>2, <3>3, <3>4 DEF batteryLevel
    <3>5. CASE m.battery = "low"
      BY <2>3, <3>1, <3>2, <3>3, <3>5 DEF batteryLevel
    <3>6. CASE m.battery = "none"
      BY <2>3, <3>1, <3>2, <3>3, <3>6 DEF batteryLevel
    <3> QED BY <2>1, <3>4, <3>5, <3>6
  <2>5. (g[2] % 2 = 1) = m.reversed
    <3>1. BatteryFlag[m.battery] \in {0, 8, 16}
      BY <2>1, <2>3
    <3>2. CASE m.reversed
      <4>1. g[2] % 2 = 1
        BY <2>2, <3>1, <3>2
      <4> QED BY <2>1, <3>2, <4>1, Zenon
    <3>3. CASE ~m.reversed
      <4>1. ~(g[2] % 2 = 1)
        BY <2>2, <3>1, <3>3
      <4> QED BY <2>1, <3>3, <4>1, Zenon
    <3> QED BY <3>2, <3>3
  <2>6. ParseResponse(g) =
          [op |-> "status", percent |-> g[3], battery |-> batteryLevel(g[2]),
           reversed |-> g[2] % 2 = 1]
    BY <1>1, <2>2, ParseOf
  <2> QED BY <2>1, <2>2, <2>4, <2>5, <2>6, Zenon
<1>3. CASE m \in TimerIndex
  <2>1. m.op = "timerIndex" /\ m = [op |-> m.op, index |-> m.index]
    BY <1>3 DEF TimerIndex
  <2>2. g[1] = 214 /\ g[3] = m.index
    BY <1>0, <2>1 DEF Begins
  <2>3. ParseResponse(g) = [op |-> "timerIndex", index |-> g[3]]
    BY <1>1, <2>2, ParseOf
  <2> QED BY <2>1, <2>2, <2>3
<1>4. CASE m \in Result
  <2>1. /\ m.op \in {"login", "password", "timerSet", "timerDelete"} /\ m.success \in BOOLEAN
        /\ m = [op |-> m.op, success |-> m.success]
    BY <1>4 DEF Result
  <2>2. g[1] = ResultOpcode[m.op] /\ g[3] = IF m.success THEN 1 ELSE 0
    BY <1>0, <2>1 DEF Begins
  <2>3. (g[3] > 0) = m.success
    <3>1. CASE m.success
      <4>1. g[3] > 0
        BY <2>2, <3>1
      <4> QED BY <2>1, <3>1, <4>1, Zenon
    <3>2. CASE ~m.success
      <4>1. (g[3] > 0) = FALSE
        BY <2>2, <3>2
      <4>2. m.success = FALSE
        BY <2>1, <3>2, Zenon
      <4> QED BY <4>1, <4>2, Zenon
    <3> QED BY <3>1, <3>2
  <2>4. ParseResponse(g) = [op |-> m.op, success |-> g[3] > 0]
    <3>1. /\ ResultOpcode["password"] = 211 /\ ResultOpcode["login"] = 212
          /\ ResultOpcode["timerSet"] = 215 /\ ResultOpcode["timerDelete"] = 216
      BY DEF ResultOpcode
    <3>2. CASE m.op = "login"
      BY <1>1, <2>2, <3>1, <3>2, ParseOf
    <3>3. CASE m.op = "password"
      BY <1>1, <2>2, <3>1, <3>3, ParseOf
    <3>4. CASE m.op = "timerSet"
      BY <1>1, <2>2, <3>1, <3>4, ParseOf
    <3>5. CASE m.op = "timerDelete"
      BY <1>1, <2>2, <3>1, <3>5, ParseOf
    <3> QED BY <2>1, <3>2, <3>3, <3>4, <3>5
  <2> QED BY <2>1, <2>3, <2>4, Zenon
<1> QED BY <1>2, <1>3, <1>4

\* A frame that is cut short is parsed into nothing.
LEMMA CutFrameParsed ==
  ASSUME NEW m \in Status \cup Result \cup TimerIndex, NEW pushed \in BOOLEAN, NEW raw \in BOOLEAN,
         NEW g, g = reportFrame(m, pushed, raw), NEW n \in 0..2,
         NEW f, f = SubSeq(g, 1, n)
  PROVE  f \in Seq(Int) /\ ParseResponse(f) = NoEvent
<1>0. Begins(g, m)
  BY FrameBytes
<1>1. g \in Seq(Int) /\ Len(g) >= 3 /\ Len(g) \in Nat /\ g[1] \in Known
  <2>1. g \in Seq(Int) /\ Len(g) >= 3
    BY <1>0 DEF Begins
  <2>2. CASE m \in Status
    <3>1. m.op = "status"
      BY <2>2 DEF Status
    <3> QED BY <1>0, <2>1, <3>1, LenProperties DEF Begins, Known
  <2>3. CASE m \in TimerIndex
    <3>1. m.op = "timerIndex"
      BY <2>3 DEF TimerIndex
    <3> QED BY <1>0, <2>1, <3>1, LenProperties DEF Begins, Known
  <2>4. CASE m \in Result
    <3>1. m.op \in {"login", "password", "timerSet", "timerDelete"}
      BY <2>4 DEF Result
    <3>2. g[1] = ResultOpcode[m.op]
      BY <1>0, <3>1 DEF Begins
    <3> QED BY <2>1, <3>1, <3>2, LenProperties DEF Known, ResultOpcode
  <2> QED BY <2>2, <2>3, <2>4
<1>2. \A i \in 1..n : g[i] \in Int
  BY <1>1, ElementOfSeq
<1>3. /\ f \in Seq(Int) /\ Len(f) = IF 1 <= n THEN n - 1 + 1 ELSE 0
      /\ \A i \in 1..(n - 1 + 1) : f[i] = g[1 + i - 1]
  <2>1. 1 \in Int /\ n \in Int
    OBVIOUS
  <2> QED BY <1>2, <2>1, SubSeqProperties
<1>4. Len(f) = n /\ Len(f) < 3
  BY <1>3
<1>5. f # <<>> => f[1] \in Known
  <2> SUFFICES ASSUME f # <<>> PROVE f[1] \in Known
    OBVIOUS
  <2>1. Len(f) # 0
    BY <1>3, EmptySeq
  <2>2. n >= 1
    BY <1>4, <2>1
  <2>3. f[1] = g[1]
    BY <1>3, <2>2
  <2> QED BY <1>1, <2>3
<1> QED BY <1>3, <1>4, <1>5, ParseOf

\* What the motor may have reported.
Told == Status \cup Result \cup TimerIndex \cup {Unknown}

\* Every frame under way is parsed into its report, or into nothing; and of a status
\* the state has what was reported.
ReportInv ==
  /\ flight \in Seq(Seq(Int)) /\ sent \in Seq(Told) /\ Len(sent) = Len(flight)
  /\ \A i \in 1..Len(flight) : ParseResponse(flight[i]) \in {sent[i], NoEvent, Unknown}
  /\ DOMAIN state = {"percent", "battery", "reversed", "loggedIn"}
  /\ ReportsUnderstood

\* One more notification under way.
LEMMA ReportedInv ==
  ASSUME ReportInv, NEW f \in Seq(Int), NEW m \in Told,
         ParseResponse(f) \in {m, NoEvent, Unknown},
         flight' = Append(flight, f), sent' = Append(sent, m), UNCHANGED <<told, event, state>>
  PROVE  ReportInv'
<1>1. /\ flight' \in Seq(Seq(Int)) /\ Len(flight') = Len(flight) + 1
      /\ flight'[Len(flight) + 1] = f /\ \A i \in 1..Len(flight) : flight'[i] = flight[i]
      /\ Len(flight) \in Nat
  BY DEF ReportInv
<1>2. /\ sent' \in Seq(Told) /\ Len(sent') = Len(sent) + 1
      /\ sent'[Len(sent) + 1] = m /\ \A i \in 1..Len(sent) : sent'[i] = sent[i]
  BY DEF ReportInv
<1>3. ASSUME NEW i \in 1..Len(flight')
      PROVE  ParseResponse(flight'[i]) \in {sent'[i], NoEvent, Unknown}
  <2>1. Len(sent) = Len(flight)
    BY DEF ReportInv
  <2>2. CASE i \in 1..Len(flight)
    <3>1. flight'[i] = flight[i] /\ sent'[i] = sent[i]
      BY <1>1, <1>2, <2>1, <2>2
    <3> QED BY <2>2, <3>1 DEF ReportInv
  <2>3. CASE i \notin 1..Len(flight)
    <3>1. i = Len(flight) + 1
      BY <1>1, <2>3
    <3>2. flight'[i] = f /\ sent'[i] = m
      BY <1>1, <1>2, <2>1, <3>1
    <3> QED BY <3>2
  <2> QED BY <2>2, <2>3
<1>4. ReportsUnderstood'
  BY DEF ReportInv, ReportsUnderstood
<1> QED BY <1>1, <1>2, <1>3, <1>4 DEF ReportInv

LEMMA NotifiedInv ==
  ASSUME ReportInv, Notified PROVE ReportInv'
<1>1. flight # <<>> /\ flight \in Seq(Seq(Int)) /\ Len(flight) \in Nat \ {0}
  BY EmptySeq DEF ReportInv, Notified
<1>2. sent # <<>> /\ sent \in Seq(Told)
  BY <1>1 DEF ReportInv
<1>3. /\ flight' \in Seq(Seq(Int)) /\ Len(flight') = Len(flight) - 1
      /\ \A i \in 1..Len(flight') : flight'[i] = flight[i + 1]
      /\ Head(flight) = flight[1]
  BY <1>1, HeadTailProperties DEF Notified
<1>4. /\ sent' \in Seq(Told) /\ Len(sent') = Len(sent) - 1
      /\ \A i \in 1..Len(sent') : sent'[i] = sent[i + 1]
      /\ Head(sent) = sent[1] /\ sent[1] \in Told
  BY <1>2, HeadTailProperties DEF Notified
<1>5. Len(sent) = Len(flight)
  BY DEF ReportInv
<1>6. ASSUME NEW i \in 1..Len(flight')
      PROVE  ParseResponse(flight'[i]) \in {sent'[i], NoEvent, Unknown}
  <2>1. i + 1 \in 1..Len(flight) /\ flight'[i] = flight[i + 1] /\ sent'[i] = sent[i + 1]
    BY <1>1, <1>3, <1>4, <1>5
  <2> QED BY <2>1 DEF ReportInv
<1>7. event' \in {told', NoEvent, Unknown} /\ told' \in Told
  <2>1. event' = ParseResponse(flight[1]) /\ told' = sent[1]
    BY <1>3, <1>4 DEF Notified
  <2>2. 1 \in 1..Len(flight)
    BY <1>1
  <2> QED BY <1>4, <2>1, <2>2 DEF ReportInv
<1>8. DOMAIN state = {"percent", "battery", "reversed", "loggedIn"} /\ state' = applyEvent(state, event')
  BY DEF ReportInv, Notified
<1>9. DOMAIN state' = {"percent", "battery", "reversed", "loggedIn"}
  BY <1>8 DEF applyEvent
<1>10. ASSUME event'.op = "status"
       PROVE  /\ state'.percent = told'.percent /\ state'.battery = told'.battery
              /\ state'.reversed = told'.reversed
  <2>1. event' = told'
    BY <1>7, <1>10 DEF NoEvent, Unknown
  <2>2. state' = [state EXCEPT !.percent = event'.percent, !.battery = event'.battery,
                               !.reversed = event'.reversed]
    BY <1>8, <1>10 DEF applyEvent
  <2> QED BY <1>8, <2>1, <2>2
<1>11. ReportsUnderstood'
  BY <1>7, <1>10 DEF ReportsUnderstood, Unknown
<1> QED BY <1>3, <1>4, <1>5, <1>6, <1>9, <1>11 DEF ReportInv

LEMMA ReportStepInv == ReportInv /\ [ProtocolNext]_protocolVars => ReportInv'
<1> SUFFICES ASSUME ReportInv, [ProtocolNext]_protocolVars PROVE ReportInv'
  OBVIOUS
<1>1. ASSUME NEW m \in Reports, Report(m) PROVE ReportInv'
  <2>1. m \in Status \cup Result \cup TimerIndex /\ m \in Told
    BY ProtocolAssumption DEF Told
  <2>2. PICK pushed \in BOOLEAN, raw \in BOOLEAN : \E n \in 0..3 :
          flight' = Append(flight, IF n = 3 THEN reportFrame(m, pushed, raw)
                                   ELSE SubSeq(reportFrame(m, pushed, raw), 1, n))
    BY <1>1 DEF Report
  <2> DEFINE g == reportFrame(m, pushed, raw)
  <2>3. PICK n \in 0..3 : flight' = Append(flight, IF n = 3 THEN g ELSE SubSeq(g, 1, n))
    BY <2>2
  <2>4. sent' = Append(sent, m) /\ UNCHANGED <<told, event, state>>
    BY <1>1 DEF Report
  <2>5. CASE n = 3
    <3>1. g \in Seq(Int) /\ ParseResponse(g) = m
      BY <2>1, FrameBytes, WholeFrameParsed DEF Begins
    <3>2. flight' = Append(flight, g)
      BY <2>3, <2>5
    <3> HIDE DEF g
    <3> QED BY <2>1, <2>4, <3>1, <3>2, ReportedInv
  <2>6. CASE n # 3
    <3> DEFINE f == SubSeq(g, 1, n)
    <3>1. n \in 0..2
      BY <2>6
    <3>2. f \in Seq(Int) /\ ParseResponse(f) = NoEvent
      BY <2>1, <3>1, CutFrameParsed
    <3>3. flight' = Append(flight, f)
      BY <2>3, <2>6
    <3> HIDE DEF f
    <3> QED BY <2>1, <2>4, <3>2, <3>3, ReportedInv
  <2> QED BY <2>5, <2>6
<1>2. CASE ReportUnknown
  <2> DEFINE f == <<217, 0, 1>>
  <2>1. f \in Seq(Int) /\ f # <<>> /\ f[1] \notin Known
    BY DEF Known
  <2>2. flight' = Append(flight, f) /\ sent' = Append(sent, Unknown)
        /\ UNCHANGED <<told, event, state>>
    BY <1>2 DEF ReportUnknown, Unknown
  <2> HIDE DEF f
  <2>3. ParseResponse(f) = Unknown /\ Unknown \in Told
    BY <2>1, ParseOf DEF Told
  <2> QED BY <2>1, <2>2, <2>3, ReportedInv
<1>3. CASE Notified
  BY <1>3, NotifiedInv
<1>4. CASE Commanding \/ UNCHANGED protocolVars
  <2>1. UNCHANGED <<sent, flight, told, event, state>>
    BY <1>4 DEF Commanding, Send, Taken, protocolVars
  <2>2. ReportsUnderstood'
    BY <2>1 DEF ReportInv, ReportsUnderstood
  <2> QED BY <2>1, <2>2 DEF ReportInv
<1> QED BY <1>1, <1>2, <1>3, <1>4 DEF ProtocolNext, Reporting

\* Whatever the motor reports, cut short or not, and however many notifications are
\* under way, the client takes a notification for what was reported or for nothing, and
\* after a status its state is what the motor reported (ParseResponse, onNotify).
THEOREM ReportsUnderstoodHolds == ProtocolSpec => []ReportsUnderstood
<1>1. ProtocolInit => ReportInv
  <2> SUFFICES ASSUME ProtocolInit PROVE ReportInv
    OBVIOUS
  <2>1. flight = <<>> /\ sent = <<>> /\ told = NoEvent /\ event = NoEvent
        /\ DOMAIN state = {"percent", "battery", "reversed", "loggedIn"}
    BY DEF ProtocolInit
  <2>2. flight \in Seq(Seq(Int)) /\ sent \in Seq(Told) /\ Len(flight) = 0 /\ Len(sent) = 0
    BY <2>1
  <2>3. ReportsUnderstood
    BY <2>1 DEF ReportsUnderstood, NoEvent
  <2> QED BY <2>1, <2>2, <2>3 DEF ReportInv
<1>2. ReportInv => ReportsUnderstood
  BY DEF ReportInv
<1> QED BY <1>1, <1>2, ReportStepInv, PTL DEF ProtocolSpec
====================================================================================
