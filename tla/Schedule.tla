------------------------------- MODULE Schedule -------------------------------
(* The clock schedule of pkg/blissha/controller.go (scheduleTarget): the rule    *)
(* of the day, the clamps to sunrise and sunset, the wake ramp, and windows that *)
(* wrap past midnight, minute by minute through the days of a week.  All times   *)
(* are minutes of a day of Day minutes, which is 1440 in the code.               *)
(*                                                                               *)
(* Sunrise and sunset are inputs, the same for every day of a behaviour; they    *)
(* may be any minutes, since a summer sunset can be after midnight.  Clock       *)
(* changes are left out.  How often the schedule is looked at is Controller's    *)
(* subject.                                                                      *)
EXTENDS Integers, Sequences

CONSTANTS
  Day, Week,    \* minutes in a day, days in a week
  Schedules,    \* the schedules explored: sequences of entries
  Suns          \* the suns explored

Minutes == 0..(Day - 1)
Weekdays == 0..(Week - 1)

\* What validate leaves of a schedule entry.
ScheduleEntry ==
  [days : SUBSET Weekdays, openAt : Minutes, closeAt : Minutes,
   sleepHA : 0..100, openHA : 0..100, ramp : Nat,
   notBeforeSunrise : BOOLEAN, notAfterSunset : BOOLEAN]

\* DayEvents: on a polar day or in a polar night there is neither.
Sun == [normal : BOOLEAN, sunrise : Minutes, sunset : Minutes]

ASSUME ScheduleAssumption ==
  /\ Day \in Nat \ {0} /\ Week \in Nat \ {0}
  /\ Schedules \subseteq Seq(ScheduleEntry)
  /\ Suns \subseteq Sun

VARIABLES
  entries,      \* the schedule
  sun,          \* the sun
  wd, mins      \* the local time: weekday and minute

scheduleVars == <<entries, sun, wd, mins>>

ScheduleInit ==
  /\ entries \in Schedules /\ sun \in Suns
  /\ wd \in Weekdays /\ mins \in Minutes

\* A bug: the remainder of a negative difference, as Go computes it, is negative.
minutesAfterSameDay(t, ref) == t - ref

\* Minutes from ref to t, past midnight if need be.
minutesAfter(t, ref) == (t - ref) % Day

\* DaySet.Contains: an empty set is every day.
Contains(days, w) == days = {} \/ w \in days

\* The first rule of a schedule that has this weekday, if there is one.
Rule(s, w) ==
  {i \in DOMAIN s :
     Contains(s[i].days, w) /\ \A j \in 1..(i - 1) : ~Contains(s[j].days, w)}
Entry(s, w) == s[CHOOSE i \in Rule(s, w) : TRUE]

\* NotBeforeSunrise: the later of the two, by the clock.
openMin(e, sn) ==
  IF e.notBeforeSunrise /\ sn.normal /\ sn.sunrise > e.openAt
  THEN sn.sunrise ELSE e.openAt

\* A bug: the earlier of the two by the clock, although the window may wrap.
closeMinByClock(e, sn) ==
  IF e.notAfterSunset /\ sn.normal /\ sn.sunset < e.closeAt
  THEN sn.sunset ELSE e.closeAt

\* NotAfterSunset: whichever comes first after the opening.
closeMin(e, sn) ==
  IF /\ e.notAfterSunset /\ sn.normal
     /\ minutesAfter(sn.sunset, openMin(e, sn)) < minutesAfter(e.closeAt, openMin(e, sn))
  THEN sn.sunset ELSE e.closeAt

\* A bug: a window that wraps is empty.
awakeSameDay(m, open, close) == open <= m /\ m < close

\* Is minute m in the window [open, close), which may wrap past midnight?
awake(m, open, close) ==
  IF open <= close THEN open <= m /\ m < close ELSE open <= m \/ m < close

\* math.Round(n / d): halves away from zero (in floating point a half may also come
\* out just below, one percent less; nothing here depends on it).
Rounded(n, d) ==
  IF n >= 0 THEN (2 * n + d) \div (2 * d) ELSE -((d - 2 * n) \div (2 * d))

sinceOpen(e, sn, m) == minutesAfter(m, openMin(e, sn))
inRamp(e, sn, m) == e.ramp > 0 /\ sinceOpen(e, sn, m) < e.ramp
rampTarget(e, since) == e.sleepHA + Rounded(since * (e.openHA - e.sleepHA), e.ramp)

\* What rule e wants at minute m.
ruleTarget(e, sn, m) ==
  IF inRamp(e, sn, m)
  THEN [reason |-> "ramp", target |-> rampTarget(e, sinceOpen(e, sn, m))]
  ELSE IF awake(m, openMin(e, sn), closeMin(e, sn))
       THEN [reason |-> "awake", target |-> e.openHA]
       ELSE [reason |-> "asleep", target |-> e.sleepHA]

\* What schedule s wants on weekday w; without a rule, an open blind.
scheduleTarget(s, sn, w, m) ==
  IF Rule(s, w) = {} THEN [reason |-> "idle", target |-> 100]
  ELSE ruleTarget(Entry(s, w), sn, m)

Decision == scheduleTarget(entries, sun, wd, mins)

\* A minute passes.
Minute ==
  /\ mins' = (mins + 1) % Day
  /\ wd' = IF mins' = 0 THEN (wd + 1) % Week ELSE wd
  /\ UNCHANGED <<entries, sun>>

ScheduleSpec == ScheduleInit /\ [][Minute]_scheduleVars

-----------------------------------------------------------------------------
Opens(s, sn, w) == openMin(Entry(s, w), sn)
Closes(s, sn, w) == closeMin(Entry(s, w), sn)
Today == Entry(entries, wd)

\* The schedules that mean what they say: every weekday has a rule, the ramp is over
\* when the window closes, and either no window wraps past midnight or every day's is
\* the same.
Regular(s, sn) ==
  /\ \A w \in Weekdays : Rule(s, w) # {}
  /\ \A w \in Weekdays :
       Entry(s, w).ramp <= minutesAfter(Closes(s, sn, w), Opens(s, sn, w))
  /\ \/ \A w \in Weekdays : Opens(s, sn, w) <= Closes(s, sn, w)
     \/ \A v, w \in Weekdays :
          Opens(s, sn, v) = Opens(s, sn, w) /\ Closes(s, sn, v) = Closes(s, sn, w)

RegularSpec == ScheduleInit /\ Regular(entries, sun) /\ [][Minute]_scheduleVars

\* A regular schedule behaves like two alarms, clamps, ramps and midnights included:
\* it opens at the opening time, closes at the closing time, and changes its mind at
\* no other (scheduleTarget, awake, minutesAfter).
TwoAlarms == INSTANCE Alarms WITH
  openAt <- Opens(entries, sun, wd), closeAt <- Closes(entries, sun, wd),
  isAwake <- Decision.reason # "asleep"
AlarmsRing == TwoAlarms!Spec

\* m is between a and b: a, m, b in this order or reversed.
Between(a, m, b) == (a <= m /\ m <= b) \/ (b <= m /\ m <= a)

\* The wake ramp begins at the sleeping position and goes to the open one without a
\* step back, and never past either, also over midnight (scheduleTarget).
RampRises ==
  [][Decision'.reason = "ramp" =>
       /\ Between(Today'.sleepHA, Decision'.target, Today'.openHA)
       /\ mins' = Opens(entries, sun, wd)' => Decision'.target = Today'.sleepHA
       /\ Decision.reason = "ramp" /\ Today' = Today /\ mins' # Opens(entries, sun, wd)
            => Between(Decision.target, Decision'.target, Today.openHA)]_scheduleVars

\* With not_after_sunset the blind does not stay awake past the first sunset after
\* its opening, wherever midnight is (ScheduleEntry, comment in scheduleTarget).
AsleepAfterSunset ==
  /\ Today.notAfterSunset /\ sun.normal
  /\ sinceOpen(Today, sun, mins) >= minutesAfter(mins, sun.sunset)
  => Decision.reason = "asleep"

-----------------------------------------------------------------------------
(* What documentation, comments and tests say and the code does not keep (README, *)
(* section 5).                                                                   *)

\* TestDecideScheduleSunriseClamp: "clamped open time keeps it asleep until sunrise".
AsleepUntilSunrise ==
  /\ Rule(entries, wd) # {} /\ Today.notBeforeSunrise /\ sun.normal
  /\ Today.openAt < Today.closeAt /\ mins < sun.sunrise
  => Decision.reason = "asleep"

\* config.example.yaml on not_after_sunset: "don't close before actual sunset".
ClosesAfterSunset ==
  [][/\ Rule(entries, wd) # {} /\ Today.notAfterSunset /\ sun.normal
     /\ Today.openAt < mins /\ mins' < sun.sunset
     /\ Decision.reason = "awake"
     => Decision'.reason # "asleep"]_scheduleVars

\* Comment in scheduleTarget: "so a late-night wake ramp isn't truncated at 00:00".
RampCrossesMidnight ==
  [][Decision.reason = "ramp" /\ sinceOpen(Today, sun, mins) + 1 < Today.ramp
       => Decision'.reason = "ramp"]_scheduleVars
===============================================================================
