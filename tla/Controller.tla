------------------------------ MODULE Controller ------------------------------
(* The automation of one blind (pkg/blissha/controller.go) in time: the       *)
(* decision engine Decide with its policies and battery guards, the           *)
(* evaluation timer of the manager, external signals, the moves it queues,    *)
(* what the manager takes for the blind's position, and a person who moves    *)
(* the blind.                                                                 *)
(*                                                                            *)
(* Time passes in ticks.  A time stamp of ControllerState appears as its age, *)
(* which stops counting where no comparison can tell it from an older one.    *)
(* The sun is abstracted to what the gate compares: in the range in which     *)
(* shading engages, only in that in which it holds, or off the window.        *)
EXTENDS Integers, Sequences

CONSTANTS
  Cfgs,             \* the configurations explored
  Profiles,         \* what the glare geometry may ask for (HA positions)
  Deadband, Step, MaxMovesPerHour,
  Hour, MinMoveInterval, OverrideTimeout, Recompute,    \* in ticks
  Disturbances      \* bound: moves by a person, moves that fail and replies that come late,
                    \* together

Modes == {"off", "sun_glare", "sun_shade", "thermal", "schedule"}
Tristate == {"unknown", "no", "yes"}

externalMoveTolerance == 5

\* The automation of a blind, and of its configuration whether it is polled (not in
\* command-only mode) and whether it is inverted.
Automation ==
  [polls : BOOLEAN, invert : BOOLEAN,
   mode : Modes, shadeClosed : 0..100, summerClose : 0..100, winterOpen : 0..100,
   sleep : 0..100, open : 0..100,
   presenceSim : BOOLEAN, afterDark : BOOLEAN, occupiedOnly : BOOLEAN,
   requireOccupancy : BOOLEAN, whenUnoccupied : {"off", "thermal", "sun_shade"},
   occupancyUnknown : {"no", "yes"}]

\* What applyDefaults and validate leave of the numbers: none of them is 0.
Validated ==
  /\ Deadband \in 1..100 /\ Step \in 1..100
  /\ {MaxMovesPerHour, MinMoveInterval, OverrideTimeout, Recompute} \subseteq Nat \ {0}

ASSUME ControllerAssumption ==
  /\ \A c \in Cfgs : c \in Automation
  /\ Profiles \subseteq 0..100
  /\ Validated
  /\ Hour \in Nat \ {0} /\ Disturbances \in Nat

VARIABLES
  cfg,          \* Automation
  env,          \* the signals, and where the sun and the clock are
  st,           \* ControllerState (fields: see TypeOK)
  blindAt,      \* where the blind is
  lastPos,      \* manager.lastPosHA, None before the first status
  queued,       \* the move of automation in the actions queue, None without one
  evalIn,       \* ticks until the evaluation timer fires
  recent,       \* history: ages of the moves decided in the last hour, newest first
  sunKept,      \* history: has the sun stayed on the window since shading was decided?
  left          \* disturbances that are left

history == <<recent, sunKept>>
vars == <<cfg, env, st, blindAt, lastPos, queued, evalIn, history, left>>

None == -1

\* What a position that a Disconnect has zeroed reads as (toHA).
Zeroed == IF cfg.invert THEN 100 ELSE 0

Smaller(a, b) == IF a < b THEN a ELSE b
absInt(x) == IF x < 0 THEN -x ELSE x

\* Every reading of the world a configuration can tell apart; a field it does not
\* read stays at one value.
Envs(c) ==
  {e \in [zone     : IF {c.mode, c.whenUnoccupied} \cap {"sun_glare", "sun_shade", "thermal"} # {}
                     THEN {"engage", "hold", "off"} ELSE {"off"},
          profile  : IF c.mode = "sun_glare" THEN Profiles ELSE {100},
          dark     : IF c.afterDark THEN BOOLEAN ELSE {FALSE},
          away     : IF c.presenceSim THEN BOOLEAN ELSE {FALSE},
          evening  : IF c.presenceSim THEN BOOLEAN ELSE {FALSE},
          occupied : IF c.requireOccupancy \/ c.occupiedOnly THEN Tristate ELSE {"unknown"},
          season   : IF "thermal" \in {c.mode, c.whenUnoccupied}
                     THEN {"hot", "cold", "mild"} ELSE {"mild"},
          clock    : IF c.mode = "schedule" THEN {"asleep", "ramp", "awake"} ELSE {"awake"}] :
     e.dark => e.zone # "engage"}

\* The override's remaining ticks, the ages of the last move and of the hourly
\* window, the moves in it, and the latch of the sun gate.
ControllerState ==
  [overrideLeft : 0..OverrideTimeout, sinceMove : 0..MinMoveInterval, sinceHour : 0..Hour,
   movesThisHour : 0..MaxMovesPerHour, latched : BOOLEAN]

TypeOK ==
  /\ cfg \in Cfgs /\ env \in Envs(cfg)
  /\ st \in ControllerState
  /\ blindAt \in 0..100
  /\ lastPos \in 0..100 \cup {None} /\ queued \in 0..100 \cup {None}
  /\ evalIn \in Nat
  /\ recent \in Seq(0..(Hour - 1)) /\ sunKept \in BOOLEAN
  /\ left \in 0..Disturbances

Init ==
  /\ cfg \in Cfgs /\ env \in Envs(cfg)
  /\ st = [overrideLeft |-> 0, sinceMove |-> MinMoveInterval, sinceHour |-> Hour,
           movesThisHour |-> 0, latched |-> FALSE]
  /\ blindAt \in {0, 100} /\ lastPos = None /\ queued = None
  /\ evalIn = Recompute
  /\ recent = <<>> /\ sunKept = FALSE
  /\ left = Disturbances

-----------------------------------------------------------------------------
(* The policies: what they want in a world e, and what becomes of the latch.  *)

resolveOccupied(e) == IF e.occupied = "unknown" THEN cfg.occupancyUnknown ELSE e.occupied

\* A bug: without hysteresis the engage thresholds also end the shading.
sunOnWindowNoHysteresis(e) == e.zone = "engage"

\* The engage thresholds start the shading, the hold thresholds end it.
sunOnWindow(e) == e.zone = "engage" \/ (st.latched /\ e.zone = "hold")

\* A policyResult: the target, the hint for the next evaluation, the latch.
wants(target) ==
  [opinion |-> TRUE, target |-> target, next |-> Recompute, latched |-> st.latched]
noOpinion == [wants(0) EXCEPT !.opinion = FALSE]
sunGated(e, target) ==
  [wants(IF sunOnWindow(e) THEN target ELSE 100) EXCEPT !.latched = sunOnWindow(e)]

\* The cut-off of the sun's profile angle, as a position.
glareTarget(e) == e.profile

\* The latch is only looked at, and set, when it is hot.
thermalTarget(e) ==
  CASE e.season = "hot"  -> sunGated(e, cfg.summerClose)
    [] e.season = "cold" -> wants(cfg.winterOpen)
    [] OTHER             -> wants(100)

\* The wake ramp is somewhere between the two positions, and evaluated more often.
scheduleTarget(e) ==
  CASE e.clock = "asleep" -> wants(cfg.sleep)
    [] e.clock = "ramp"   -> [wants((cfg.sleep + cfg.open) \div 2) EXCEPT !.next = 1]
    [] OTHER              -> wants(cfg.open)

presenceTarget(e) == wants(IF e.evening THEN 0 ELSE 100)

\* The primary mode, or what replaces it in an unoccupied room.
activeMode(e) ==
  IF cfg.requireOccupancy /\ resolveOccupied(e) = "no" THEN cfg.whenUnoccupied ELSE cfg.mode

\* The precedence ladder.
modePolicy(e) ==
  CASE activeMode(e) = "sun_glare" -> sunGated(e, glareTarget(e))
    [] activeMode(e) = "sun_shade" -> sunGated(e, cfg.shadeClosed)
    [] activeMode(e) = "thermal"   -> thermalTarget(e)
    [] activeMode(e) = "schedule"  -> scheduleTarget(e)
    [] OTHER                       -> noOpinion

privacy(e) ==
  cfg.afterDark /\ e.dark /\ (cfg.occupiedOnly => resolveOccupied(e) = "yes")

policy(e) ==
  IF cfg.presenceSim /\ e.away THEN presenceTarget(e)
  ELSE IF privacy(e) THEN wants(0)
  ELSE modePolicy(e)

\* quantize (rounding half up) and clampInt.
quantize(v) == Smaller(((2 * v + Step) \div (2 * Step)) * Step, 100)

-----------------------------------------------------------------------------
(* Decide, a function of the world and the state: a Decision has the move, its *)
(* target, the hint for the next evaluation and the state that is kept.        *)

hold(s, next) == [move |-> FALSE, target |-> 0, next |-> next, st |-> s]

\* A move for which there is no reason: the blind is there, or nearly.
inDeadband(target, at) ==
  absInt(target - at) < Deadband \/ target = at


\* The hourly window is over, or none has begun.
windowOver(s) == s.sinceHour = Hour

hourlyWindow(s) ==
  IF windowOver(s) THEN [s EXCEPT !.sinceHour = 0, !.movesThisHour = 0] ELSE s

\* Bugs: the move is not counted; its time is not kept.
moveUncounted(s) == [s EXCEPT !.sinceMove = 0]
moveUntimed(s) == [s EXCEPT !.movesThisHour = @ + 1]

\* What a decided move leaves in the state.
moveNoted(s) == [s EXCEPT !.sinceMove = 0, !.movesThisHour = @ + 1]

\* The hourly cap, the last of the guards.
rateCap(s, target, next) ==
  IF s.movesThisHour >= MaxMovesPerHour
  THEN hold(s, Hour - s.sinceHour)
  ELSE [move |-> TRUE, target |-> target, next |-> next, st |-> moveNoted(s)]

\* Unknown position, deadband, minimum interval, hourly cap.
applyGuards(s, target, next) ==
  CASE lastPos = None /\ cfg.mode = "sun_glare" -> hold(s, Recompute)
    [] lastPos # None /\ inDeadband(target, lastPos)     -> hold(s, next)
    [] OTHER ->
         IF s.sinceMove < MinMoveInterval
         THEN hold(s, Smaller(MinMoveInterval - s.sinceMove, next))
         ELSE rateCap(hourlyWindow(s), target, next)

Decide(e) ==
  LET p == policy(e)
      s == [st EXCEPT !.latched = p.latched]
  IN CASE st.overrideLeft > 0 -> hold(st, st.overrideLeft)
       [] st.overrideLeft = 0 /\ ~p.opinion -> hold(s, p.next)
       [] OTHER -> applyGuards(s, quantize(p.target), p.next)

-----------------------------------------------------------------------------
(* The manager: evaluations, and the moves they queue.                        *)

\* evaluate and submit: a full queue drops the move, but the state has noted it.
evaluate(e) ==
  LET d == Decide(e)
      shades == cfg.mode = "sun_shade" /\ d.target < quantize(100)
  IN /\ st' = d.st
     /\ queued' = IF d.move /\ queued = None THEN d.target ELSE queued
     /\ recent' = IF d.move THEN <<0>> \o recent ELSE recent
     /\ sunKept' = (e.zone # "off" /\ IF d.move THEN shades ELSE sunKept)

\* The evaluation timer fires and is set again from the hint.
Evaluate ==
  /\ evalIn = 0
  /\ evaluate(env)
  /\ evalIn' = Decide(env).next
  /\ UNCHANGED <<cfg, env, blindAt, lastPos, left>>

\* applyControl: a signal changes the world and is evaluated at once; the timer
\* runs on.
applyControl ==
  \E e \in Envs(cfg) :
    /\ e # env
    /\ e.dark = env.dark /\ e.clock = env.clock /\ e.evening = env.evening
    /\ e.profile = env.profile
    /\ env' = e
    /\ evaluate(e)
    /\ UNCHANGED <<cfg, blindAt, lastPos, evalIn, left>>

\* The sun and the clock move on; nobody is told.
SkyChanges ==
  \E e \in Envs(cfg) :
    /\ e # env
    /\ e.away = env.away /\ e.occupied = env.occupied
    /\ env' = e
    /\ sunKept' = (sunKept /\ e.zone # "off")
    /\ UNCHANGED <<cfg, st, blindAt, lastPos, queued, evalIn, recent, left>>

-----------------------------------------------------------------------------
(* The blind, and what the manager takes for its position.                    *)

paused == [st EXCEPT !.overrideLeft = OverrideTimeout]

\* publishSettled and observe: the client's position is recorded, and on a poll a
\* jump since the last one is taken for a move of somebody else.
observe(seen, poll) ==
  /\ lastPos' = seen
  /\ st' = IF /\ poll /\ lastPos # None /\ cfg.mode # "off" /\ st.overrideLeft = 0
              /\ absInt(seen - lastPos) > externalMoveTolerance
           THEN paused ELSE st

\* A queued move is carried out and the blind settles at its target.
MoveDone ==
  /\ queued # None
  /\ queued' = None /\ blindAt' = queued
  /\ observe(queued, FALSE)
  /\ UNCHANGED <<cfg, env, evalIn, history, left>>

\* Send fails, with or without effect on the blind, and its reconnect has zeroed the
\* client's position.  The blind is tracked all the same, until three reads agree: on
\* what a reply has brought by then, or on the zero.
MoveFails ==
  /\ queued # None /\ left > 0
  /\ left' = left - 1
  /\ queued' = None /\ blindAt' \in {blindAt, queued}
  /\ \E seen \in {blindAt', Zeroed} : observe(seen, FALSE)
  /\ UNCHANGED <<cfg, env, evalIn, history>>

\* submit finds the queue full of commands.
MoveDropped ==
  /\ queued # None /\ left > 0
  /\ left' = left - 1
  /\ queued' = None
  /\ UNCHANGED <<cfg, env, st, blindAt, lastPos, evalIn, history>>

\* A refresh: repeated when the blind is polled, and one at the start otherwise.
Poll ==
  /\ cfg.polls \/ lastPos = None
  /\ observe(blindAt, TRUE)
  /\ UNCHANGED <<cfg, env, blindAt, queued, evalIn, history, left>>

\* A refresh over a new connection, whose reply is not there in time.
PollUnanswered ==
  /\ cfg.polls \/ lastPos = None
  /\ left > 0 /\ left' = left - 1
  /\ observe(Zeroed, TRUE)
  /\ UNCHANGED <<cfg, env, blindAt, queued, evalIn, history>>

\* A command of a person (noteOrigin), which may fail like any other move.
ManualMove ==
  /\ left > 0
  /\ left' = left - 1
  /\ blindAt' \in {0, 100, blindAt} /\ lastPos' \in {blindAt', Zeroed}
  /\ st' = paused
  /\ UNCHANGED <<cfg, env, queued, evalIn, history>>

\* A person moves the blind with its remote; nobody is told.
RemoteMove ==
  /\ left > 0
  /\ left' = left - 1
  /\ blindAt' \in {0, 100}
  /\ UNCHANGED <<cfg, env, st, lastPos, queued, evalIn, history>>

Blind ==
  \/ MoveDone \/ MoveFails \/ MoveDropped
  \/ Poll \/ PollUnanswered
  \/ ManualMove \/ RemoteMove

-----------------------------------------------------------------------------
\* A tick of time.  The evaluation may come late: the goroutine may be busy.
Tick ==
  /\ st' = [st EXCEPT !.overrideLeft = IF @ > 0 THEN @ - 1 ELSE 0,
                      !.sinceMove = Smaller(@ + 1, MinMoveInterval),
                      !.sinceHour = Smaller(@ + 1, Hour)]
  /\ evalIn' = IF evalIn > 0 THEN evalIn - 1 ELSE 0
  /\ recent' = [i \in {j \in DOMAIN recent : recent[j] + 1 < Hour} |-> recent[i] + 1]
  /\ UNCHANGED <<cfg, env, blindAt, lastPos, queued, sunKept, left>>

Next ==
  \/ Evaluate \/ applyControl \/ SkyChanges
  \/ Blind
  \/ Tick

Spec == Init /\ [][Next]_vars

\* Time passes, the timer's case is served, a polled blind answers again and again, and
\* a queued move is carried out unless it fails.
FairSpec ==
  Spec /\ WF_vars(Tick) /\ WF_vars(Evaluate) /\ WF_vars(cfg.polls /\ Poll) /\ WF_vars(MoveDone)

-----------------------------------------------------------------------------
\* In any hour, however it lies across the fixed windows in which moves are counted,
\* automation decides fewer than twice the hourly cap (applyGuards).
HourlyMovesBounded == Len(recent) < 2 * MaxMovesPerHour

\* Any two decided moves are at least the minimum interval apart, also when a
\* signal is evaluated between two timer evaluations (applyGuards).
SpacedMoves ==
  \A i \in 1..(Len(recent) - 1) : recent[i + 1] - recent[i] >= MinMoveInterval

\* What the guards promise of the moves of any hour.
MovesBounded == HourlyMovesBounded /\ SpacedMoves

\* Nothing but the sun gate decides.
SunOnly ==
  cfg.mode = "sun_shade" /\ ~(cfg.presenceSim \/ cfg.afterDark \/ cfg.requireOccupancy)

\* Once shading was decided, the jitter of a sun that stays in the range in which
\* shading holds never opens the blind, through overrides, failed moves and
\* evaluations that come late (sunOnWindow).
HysteresisHolds ==
  [][SunOnly /\ sunKept /\ recent' = <<0>> \o recent => sunKept' \/ env'.zone = "off"]_vars

\* The blind is where the policy wants it, to within the deadband, and no move is
\* pending.
Followed ==
  LET p == policy(env)
  IN queued = None /\ (p.opinion => inDeadband(quantize(p.target), blindAt))

=============================================================================
