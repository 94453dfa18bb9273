--------------------------- MODULE Controller_proofs ---------------------------
(* Proofs about Controller, for every set of configurations and every value of  *)
(* the limits.                                                                   *)
EXTENDS Controller, SequenceTheorems, TLAPS

(*****************************************************************************)
(* The inductive invariant.                                                  *)
(*****************************************************************************)

\* Moves are listed newest first and are the minimum interval apart, whether they
\* are neighbours or not; sinceMove is the age of the newest, or less.
Spaced ==
  /\ \A i, j \in 1..Len(recent) : i < j => recent[j] - recent[i] >= MinMoveInterval
  /\ recent # <<>> => st.sinceMove <= recent[1]

\* A window begins with a move, so the oldest move it counts is as old as the window;
\* of the window before, that first move has left the hour, and with it all older
\* ones: of what is left there are fewer than the cap.
Counted ==
  IF st.sinceHour < Hour
  THEN /\ st.movesThisHour \in 1..Len(recent)
       /\ recent[st.movesThisHour] = st.sinceHour
       /\ Len(recent) < st.movesThisHour + MaxMovesPerHour
  ELSE Len(recent) < MaxMovesPerHour

\* While the sun has stayed on the window since shading was decided, the gate is
\* latched, and what shading wants is not fully open.
Latched ==
  SunOnly /\ sunKept => st.latched /\ env.zone # "off" /\ quantize(cfg.shadeClosed) < quantize(100)

IInv == TypeOK /\ Spaced /\ Counted /\ Latched

(*****************************************************************************)
(* What the decision engine returns.                                         *)
(*****************************************************************************)

\* What every policy returns.
PolicyResults ==
  [opinion : BOOLEAN, target : 0..100, next : Nat, latched : BOOLEAN]

LEMMA ConstantsTyped ==
  /\ Deadband \in 1..100 /\ Step \in 1..100
  /\ MaxMovesPerHour \in Nat \ {0} /\ Hour \in Nat \ {0}
  /\ MinMoveInterval \in Nat \ {0} /\ OverrideTimeout \in Nat \ {0} /\ Recompute \in Nat \ {0}
  /\ Disturbances \in Nat
BY ControllerAssumption DEF Validated

\* The rounded position is one, whatever the step (quantize, clampInt).
LEMMA QuantizeTyped == ASSUME NEW v \in 0..100 PROVE quantize(v) \in 0..100
<1> DEFINE q == (2 * v + Step) \div (2 * Step)
<1>1. 2 * v + Step \in Nat /\ 2 * Step \in Nat \ {0}
  BY ConstantsTyped
<1>2. q \in Nat
  <2> DEFINE a == 2 * v + Step
             b == 2 * Step
  <2>1. \A x \in Nat, y \in Nat \ {0} : x \div y \in Nat
    OBVIOUS
  <2> QED BY <1>1, <2>1
<1>3. q * Step \in Nat
  BY <1>2, ConstantsTyped
<1> QED BY <1>3 DEF quantize, Smaller

LEMMA PolicyTyped ==
  ASSUME TypeOK, NEW e \in Envs(cfg)
  PROVE  policy(e) \in PolicyResults
<1>1. cfg \in Automation
  BY ControllerAssumption DEF TypeOK
<1>2. st.latched \in BOOLEAN
  BY DEF TypeOK, ControllerState
<1>3. \A target \in 0..100 : wants(target) \in PolicyResults
  BY <1>2, ConstantsTyped DEF wants, PolicyResults
<1>4. noOpinion \in PolicyResults
  <2>1. wants(0) \in PolicyResults
    BY <1>3
  <2> QED BY <2>1 DEF noOpinion, PolicyResults
<1>5. \A target \in 0..100 : sunGated(e, target) \in PolicyResults
  <2> TAKE target \in 0..100
  <2>1. sunOnWindow(e) \in BOOLEAN
    BY <1>2 DEF sunOnWindow
  <2>2. wants(IF sunOnWindow(e) THEN target ELSE 100) \in PolicyResults
    BY <1>3
  <2> QED BY <2>1, <2>2 DEF sunGated, PolicyResults
<1>6. glareTarget(e) \in 0..100
  <2>1. e.profile \in IF cfg.mode = "sun_glare" THEN Profiles ELSE {100}
    BY Zenon DEF Envs
  <2>2. Profiles \subseteq 0..100 /\ 100 \in 0..100
    BY ControllerAssumption
  <2> QED BY <2>1, <2>2, Zenon DEF glareTarget
<1>7. thermalTarget(e) \in PolicyResults
  BY <1>1, <1>3, <1>5 DEF thermalTarget, Automation
<1>8. scheduleTarget(e) \in PolicyResults
  <2>1. /\ cfg.sleep \in 0..100 /\ cfg.open \in 0..100
        /\ (cfg.sleep + cfg.open) \div 2 \in 0..100
    BY <1>1 DEF Automation
  <2>2. wants((cfg.sleep + cfg.open) \div 2) \in PolicyResults
    BY <2>1, <1>3, Zenon
  <2>3. \A r \in PolicyResults : [r EXCEPT !.next = 1] \in PolicyResults
    BY DEF PolicyResults
  <2>4. [wants((cfg.sleep + cfg.open) \div 2) EXCEPT !.next = 1] \in PolicyResults
    BY <2>2, <2>3, Zenon
  <2> QED BY <2>1, <2>4, <1>3 DEF scheduleTarget
<1>9. modePolicy(e) \in PolicyResults
  BY <1>1, <1>4, <1>5, <1>6, <1>7, <1>8 DEF modePolicy, Automation
<1> QED BY <1>3, <1>9 DEF policy, presenceTarget

\* A move is decided when the interval is over and the cap allows it, and it is noted;
\* without a move nothing is noted but the latch.
MoveDecided(d) ==
  /\ st.sinceMove = MinMoveInterval /\ d.st.sinceMove = 0
  /\ IF st.sinceHour = Hour
     THEN d.st.sinceHour = 0 /\ d.st.movesThisHour = 1
     ELSE /\ st.movesThisHour < MaxMovesPerHour
          /\ d.st.sinceHour = st.sinceHour
          /\ d.st.movesThisHour = st.movesThisHour + 1

HoldDecided(d) ==
  /\ d.st.sinceMove = st.sinceMove /\ d.st.sinceHour = st.sinceHour
  /\ d.st.movesThisHour = st.movesThisHour

\* What the policy leaves of the latch.
LatchAfter(e) == IF st.overrideLeft > 0 THEN st.latched ELSE policy(e).latched

\* The whole outcome of an evaluation.
Outcome(d, e) ==
  /\ d.move \in BOOLEAN /\ d.target \in 0..100 /\ d.next \in Nat
  /\ d.st \in ControllerState
  /\ d.move => MoveDecided(d)
  /\ ~d.move => HoldDecided(d)
  /\ st.overrideLeft > 0 => ~d.move
  /\ d.st.latched = LatchAfter(e)
  /\ d.move => d.target = quantize(policy(e).target)

LEMMA HoldOutcome ==
  ASSUME NEW e, NEW s \in ControllerState, NEW next \in Nat,
         s.sinceMove = st.sinceMove, s.sinceHour = st.sinceHour,
         s.movesThisHour = st.movesThisHour, s.latched = LatchAfter(e)
  PROVE  Outcome(hold(s, next), e)
<1>1. /\ hold(s, next).move = FALSE /\ hold(s, next).target = 0
      /\ hold(s, next).next = next /\ hold(s, next).st = s
  BY DEF hold
<1>2. 0 \in 0..100
  OBVIOUS
<1> QED BY <1>1, <1>2, Zenon DEF Outcome, HoldDecided

LEMMA RateCapOutcome ==
  ASSUME TypeOK, NEW e, NEW s \in ControllerState, NEW t \in 0..100, NEW next \in Nat,
         s.sinceMove = st.sinceMove, s.sinceHour = st.sinceHour,
         s.movesThisHour = st.movesThisHour, s.latched = LatchAfter(e),
         st.overrideLeft = 0, st.sinceMove >= MinMoveInterval, t = quantize(policy(e).target)
  PROVE  Outcome(rateCap(hourlyWindow(s), t, next), e)
<1>1. st \in ControllerState
  BY DEF TypeOK
<1>2. st.sinceMove = MinMoveInterval
  BY <1>1, ConstantsTyped DEF ControllerState
<1>3. CASE st.sinceHour # Hour /\ st.movesThisHour >= MaxMovesPerHour
  <2>1. hourlyWindow(s) = s
    BY <1>3 DEF hourlyWindow, windowOver
  <2>2. rateCap(hourlyWindow(s), t, next) = hold(s, Hour - s.sinceHour)
    BY <1>3, <2>1 DEF rateCap
  <2>3. Hour - s.sinceHour \in Nat
    BY ConstantsTyped DEF ControllerState
  <2> QED BY <2>2, <2>3, HoldOutcome
<1>4. CASE st.sinceHour = Hour \/ st.movesThisHour < MaxMovesPerHour
  <2>1. PICK w \in ControllerState :
          /\ hourlyWindow(s) = w /\ w.latched = s.latched /\ w.movesThisHour < MaxMovesPerHour
          /\ IF st.sinceHour = Hour THEN w.sinceHour = 0 /\ w.movesThisHour = 0
             ELSE w.sinceHour = st.sinceHour /\ w.movesThisHour = st.movesThisHour
    <3>1. CASE st.sinceHour = Hour
      <4> DEFINE v == [s EXCEPT !.sinceHour = 0, !.movesThisHour = 0]
      <4>1. hourlyWindow(s) = v
        BY <3>1 DEF hourlyWindow, windowOver
      <4>2. /\ v \in ControllerState /\ v.sinceHour = 0 /\ v.movesThisHour = 0
            /\ v.latched = s.latched
        <5>1. 0 \in 0..Hour /\ 0 \in 0..MaxMovesPerHour
          BY ConstantsTyped
        <5> QED BY <5>1 DEF ControllerState
      <4> HIDE DEF v
      <4> QED BY <4>1, <4>2, <3>1, ConstantsTyped
    <3>2. CASE st.sinceHour # Hour
      <4>1. hourlyWindow(s) = s
        BY <3>2 DEF hourlyWindow, windowOver
      <4> QED BY <4>1, <3>2, <1>4
    <3> QED BY <3>1, <3>2
  <2> DEFINE v == moveNoted(w)
             r == rateCap(w, t, next)
  <2>2. r.move = TRUE /\ r.target = t /\ r.next = next /\ r.st = v
    <3>1. ~(w.movesThisHour >= MaxMovesPerHour)
      BY <2>1, ConstantsTyped DEF ControllerState
    <3> QED BY <3>1 DEF rateCap
  <2>3. /\ v \in ControllerState /\ v.sinceMove = 0 /\ v.latched = w.latched
        /\ v.sinceHour = w.sinceHour /\ v.movesThisHour = w.movesThisHour + 1
    <3>1. w.movesThisHour + 1 \in 0..MaxMovesPerHour /\ 0 \in 0..MinMoveInterval
      BY <2>1, ConstantsTyped DEF ControllerState
    <3> QED BY <3>1 DEF moveNoted, ControllerState
  <2> HIDE DEF v, r
  <2>4. MoveDecided(r)
    BY <2>1, <2>2, <2>3, <1>2, <1>4 DEF MoveDecided
  <2>5. Outcome(r, e)
    <3>1. r.st.latched = LatchAfter(e)
      BY <2>1, <2>2, <2>3
    <3>2. ~(st.overrideLeft > 0)
      OBVIOUS
    <3> QED BY <2>2, <2>3, <2>4, <3>1, <3>2, Zenon DEF Outcome
  <2> QED BY <2>1, <2>5 DEF r
<1>5. st.sinceHour = Hour \/ st.movesThisHour < MaxMovesPerHour
      \/ (st.sinceHour # Hour /\ st.movesThisHour >= MaxMovesPerHour)
  BY <1>1, ConstantsTyped DEF ControllerState
<1> QED BY <1>3, <1>4, <1>5

LEMMA DecideFacts ==
  ASSUME TypeOK, NEW e \in Envs(cfg)
  PROVE  Outcome(Decide(e), e)
<1> DEFINE p == policy(e)
           s == [st EXCEPT !.latched = p.latched]
           t == quantize(p.target)
<1>1. p \in PolicyResults /\ t \in 0..100 /\ p.next \in Nat
  BY PolicyTyped, QuantizeTyped DEF PolicyResults
<1>2. st \in ControllerState /\ s \in ControllerState
  BY <1>1 DEF TypeOK, ControllerState, PolicyResults
<1>3. /\ s.overrideLeft = st.overrideLeft /\ s.sinceMove = st.sinceMove
      /\ s.sinceHour = st.sinceHour /\ s.movesThisHour = st.movesThisHour
      /\ s.latched = p.latched
  BY <1>2 DEF ControllerState
<1>4. CASE st.overrideLeft > 0
  <2>1. Decide(e) = hold(st, st.overrideLeft)
    BY <1>4 DEF Decide
  <2>2. st.overrideLeft \in Nat
    BY <1>2, ConstantsTyped DEF ControllerState
  <2>3. st.latched = LatchAfter(e)
    BY <1>4 DEF LatchAfter
  <2> QED BY <2>1, <2>2, <2>3, <1>2, HoldOutcome
<1>5. CASE st.overrideLeft = 0
  <2>1. LatchAfter(e) = p.latched
    BY <1>5 DEF LatchAfter
  <2>2. \A next \in Nat : Outcome(hold(s, next), e)
    <3> HIDE DEF s
    <3> QED BY <2>1, <1>2, <1>3, HoldOutcome
  <2>3. CASE ~p.opinion
    <3>1. Decide(e) = hold(s, p.next)
      BY <1>5, <2>3 DEF Decide
    <3> QED BY <3>1, <2>2, <1>1
  <2>4. CASE p.opinion
    <3>1. Decide(e) = applyGuards(s, t, p.next)
      BY <1>5, <2>4 DEF Decide
    <3>2. CASE lastPos = None /\ cfg.mode = "sun_glare"
      <4>1. Decide(e) = hold(s, Recompute)
        BY <3>1, <3>2 DEF applyGuards
      <4> QED BY <4>1, <2>2, ConstantsTyped
    <3>3. CASE lastPos # None /\ inDeadband(t, lastPos)
      <4>1. Decide(e) = hold(s, p.next)
        BY <3>1, <3>3 DEF applyGuards
      <4> QED BY <4>1, <2>2, <1>1
    <3>4. CASE ~(lastPos = None /\ cfg.mode = "sun_glare") /\ ~(lastPos # None /\ inDeadband(t, lastPos))
      <4>1. CASE s.sinceMove < MinMoveInterval
        <5>1. Decide(e) = hold(s, Smaller(MinMoveInterval - s.sinceMove, p.next))
          BY <3>1, <3>4, <4>1 DEF applyGuards
        <5>2. s.sinceMove \in Nat
          BY <1>2 DEF ControllerState
        <5>3. Smaller(MinMoveInterval - s.sinceMove, p.next) \in Nat
          BY <4>1, <5>2, <1>1, ConstantsTyped DEF Smaller
        <5> QED BY <5>1, <5>3, <2>2
      <4>2. CASE ~(s.sinceMove < MinMoveInterval)
        <5>1. Decide(e) = rateCap(hourlyWindow(s), t, p.next)
          BY <3>1, <3>4, <4>2 DEF applyGuards
        <5>2. st.sinceMove >= MinMoveInterval
          BY <4>2, <1>2, <1>3, ConstantsTyped DEF ControllerState
        <5>3. Outcome(rateCap(hourlyWindow(s), t, p.next), e)
          <6> HIDE DEF s
          <6> QED BY <5>2, <2>1, <1>1, <1>2, <1>3, <1>5, RateCapOutcome
        <5> QED BY <5>1, <5>3
      <4> QED BY <4>1, <4>2
    <3> QED BY <3>2, <3>3, <3>4
  <2> QED BY <2>3, <2>4
<1>6. st.overrideLeft > 0 \/ st.overrideLeft = 0
  BY <1>2, ConstantsTyped DEF ControllerState
<1> QED BY <1>4, <1>5, <1>6

(*****************************************************************************)
(* The initial state, and the steps that leave the moves alone.              *)
(*****************************************************************************)

LEMMA SeqFacts ==
  ASSUME NEW S, NEW s \in Seq(S)
  PROVE  /\ Len(s) \in Nat /\ DOMAIN s = 1..Len(s) /\ \A i \in 1..Len(s) : s[i] \in S
         /\ s # <<>> <=> Len(s) > 0
<1>1. s # <<>> => Len(s) \in Nat \ {0}
  BY EmptySeq
<1>2. Len(<<>>) = 0
  OBVIOUS
<1> QED BY <1>1, <1>2, LenProperties

LEMMA InitIInv == Init => IInv
<1> SUFFICES ASSUME Init PROVE IInv
  OBVIOUS
<1>1. recent = <<>> /\ Len(recent) = 0 /\ recent \in Seq(0..(Hour - 1))
  BY DEF Init
<1>2. /\ st \in ControllerState /\ st.sinceHour = Hour
  BY ConstantsTyped DEF Init, ControllerState
<1>3. TypeOK
  <2>1. cfg \in Cfgs /\ env \in Envs(cfg) /\ evalIn \in Nat /\ sunKept \in BOOLEAN
    BY ConstantsTyped DEF Init
  <2>2. /\ lastPos \in 0..100 \cup {None} /\ queued \in 0..100 \cup {None}
        /\ blindAt \in 0..100 /\ left \in 0..Disturbances
    BY ConstantsTyped DEF Init
  <2> QED BY <1>1, <1>2, <2>1, <2>2 DEF TypeOK
<1>4. Spaced
  BY <1>1 DEF Spaced
<1>5. Counted
  BY <1>1, <1>2, ConstantsTyped DEF Counted
<1>6. Latched
  BY DEF Init, Latched
<1> QED BY <1>3, <1>4, <1>5, <1>6 DEF IInv

\* A blind that moves, is asked or is told to, and the sky: of the state, only the
\* override changes, and of the history only what the sky does.
LEMMA OthersKeep ==
  ASSUME IInv, SkyChanges \/ Blind
  PROVE  IInv'
<1>1. recent' = recent /\ cfg' = cfg /\ evalIn' = evalIn /\ st' \in {st, paused}
  <2>1. CASE SkyChanges
    BY <2>1 DEF SkyChanges
  <2>2. CASE MoveDone \/ MoveFails \/ Poll \/ PollUnanswered
    BY <2>2, Zenon DEF MoveDone, MoveFails, Poll, PollUnanswered, observe, history
  <2>3. CASE MoveDropped \/ ManualMove \/ RemoteMove
    BY <2>3, Zenon DEF MoveDropped, ManualMove, RemoteMove, history
  <2> QED BY <2>1, <2>2, <2>3 DEF Blind
<1>2. /\ st' \in ControllerState /\ st'.latched = st.latched
      /\ st'.sinceMove = st.sinceMove /\ st'.sinceHour = st.sinceHour
      /\ st'.movesThisHour = st.movesThisHour
  <2>1. st \in ControllerState /\ OverrideTimeout \in 0..OverrideTimeout
    BY ConstantsTyped DEF IInv, TypeOK
  <2>2. /\ paused \in ControllerState /\ paused.latched = st.latched
        /\ paused.sinceMove = st.sinceMove /\ paused.sinceHour = st.sinceHour
        /\ paused.movesThisHour = st.movesThisHour
    BY <2>1 DEF paused, ControllerState
  <2> QED BY <1>1, <2>1, <2>2
<1>3. /\ env' \in Envs(cfg) /\ sunKept' \in BOOLEAN
      /\ sunKept' => sunKept /\ (env' = env \/ env'.zone # "off")
  <2>1. env \in Envs(cfg) /\ sunKept \in BOOLEAN
    BY DEF IInv, TypeOK
  <2>2. CASE SkyChanges
    BY <2>1, <2>2 DEF SkyChanges
  <2>3. CASE Blind
    <3>1. env' = env /\ sunKept' = sunKept
      BY <2>3, Zenon
      DEF Blind, MoveDone, MoveFails, MoveDropped, Poll, PollUnanswered, ManualMove, RemoteMove,
          history
    <3> QED BY <2>1, <3>1
  <2> QED BY <2>2, <2>3
<1>4. /\ lastPos' \in 0..100 \cup {None} /\ queued' \in 0..100 \cup {None}
      /\ blindAt' \in 0..100 /\ left' \in 0..Disturbances
  <2>1. /\ lastPos \in 0..100 \cup {None} /\ queued \in 0..100 \cup {None}
        /\ blindAt \in 0..100 /\ left \in 0..Disturbances
    BY DEF IInv, TypeOK
  <2>2. 0 \in 0..100 /\ 100 \in 0..100 /\ Zeroed \in 0..100
    BY DEF Zeroed
  <2>3. queued # None => queued \in 0..100
    BY <2>1
  <2>4. left' \in 0..Disturbances
    <3>1. left' = left \/ (left > 0 /\ left' = left - 1)
      BY Zenon
      DEF SkyChanges, Blind, MoveDone, MoveFails, MoveDropped, Poll, PollUnanswered, ManualMove,
          RemoteMove
    <3> QED BY <2>1, <3>1, ConstantsTyped
  <2>5. queued' \in 0..100 \cup {None} /\ blindAt' \in 0..100
    BY <2>1, <2>2, <2>3, Zenon
    DEF SkyChanges, Blind, MoveDone, MoveFails, MoveDropped, Poll, PollUnanswered, ManualMove,
        RemoteMove
  <2>6. lastPos' \in 0..100 \cup {None}
    BY <2>1, <2>2, <2>3, <2>5, Zenon
    DEF SkyChanges, Blind, MoveDone, MoveFails, MoveDropped, Poll, PollUnanswered, ManualMove,
        RemoteMove, observe
  <2> QED BY <2>4, <2>5, <2>6
<1>5. TypeOK'
  BY <1>1, <1>2, <1>3, <1>4 DEF IInv, TypeOK
<1>6. Spaced' /\ Counted'
  BY <1>1, <1>2 DEF IInv, Spaced, Counted
<1>7. Latched'
  BY <1>1, <1>2, <1>3 DEF IInv, Latched, SunOnly, quantize
<1> QED BY <1>5, <1>6, <1>7 DEF IInv

(*****************************************************************************)
(* Time.                                                                     *)
(*****************************************************************************)

\* A tick drops at most one move: the oldest, when it becomes an hour old.
LEMMA Aged ==
  ASSUME TypeOK, Spaced, Tick
  PROVE  LET n == IF recent # <<>> /\ recent[Len(recent)] = Hour - 1
                  THEN Len(recent) - 1 ELSE Len(recent)
         IN  /\ recent' \in Seq(0..(Hour - 1)) /\ Len(recent') = n
             /\ \A i \in 1..n : recent'[i] = recent[i] + 1
<1> DEFINE L == Len(recent)
           n == IF recent # <<>> /\ recent[L] = Hour - 1 THEN L - 1 ELSE L
<1>1. /\ recent \in Seq(0..(Hour - 1)) /\ L \in Nat /\ DOMAIN recent = 1..L
      /\ \A i \in 1..L : recent[i] \in 0..(Hour - 1)
      /\ recent # <<>> <=> L > 0
  BY SeqFacts DEF TypeOK
<1>2. n \in 0..L
  BY <1>1
<1>3. {j \in DOMAIN recent : recent[j] + 1 < Hour} = 1..n
  <2>1. ASSUME NEW j \in 1..L PROVE recent[j] + 1 < Hour <=> j <= n
    <3>1. CASE j < L
      <4>1. recent[L] - recent[j] >= MinMoveInterval
        BY <3>1, <1>1 DEF Spaced
      <4> QED BY <4>1, <3>1, <1>1, ConstantsTyped, SMTT(30)
    <3>2. CASE j = L
      <4>1. L > 0 /\ recent[L] \in 0..(Hour - 1)
        BY <3>2, <1>1
      <4>2. CASE recent[L] = Hour - 1
        <5>1. n = L - 1
          BY <4>1, <4>2, <1>1
        <5> HIDE DEF n
        <5>2. recent[j] = Hour - 1
          BY <4>2, <3>2
        <5> QED BY <5>1, <5>2, <4>1, <3>2, ConstantsTyped
      <4>3. CASE recent[L] # Hour - 1
        <5>1. n = L
          BY <4>1, <4>3, <1>1
        <5> HIDE DEF n
        <5>2. recent[j] # Hour - 1 /\ recent[j] \in 0..(Hour - 1)
          BY <4>1, <4>3, <3>2
        <5> QED BY <5>1, <5>2, <4>1, <3>2, ConstantsTyped
      <4> QED BY <4>2, <4>3
    <3>3. j < L \/ j = L
      <4>1. L \in Nat
        BY <1>1
      <4> HIDE DEF L
      <4> QED BY <4>1
    <3> HIDE DEF n, L
    <3> QED BY <3>1, <3>2, <3>3
  <2> HIDE DEF n, L
  <2>2. \A j : j \in 1..n <=> j \in 1..L /\ j <= n
    BY <1>1, <1>2
  <2>3. DOMAIN recent = 1..L
    BY <1>1
  <2> QED BY <2>1, <2>2, <2>3
<1>4. recent' = [i \in 1..n |-> recent[i] + 1]
  BY <1>3 DEF Tick
<1>5. \A i \in 1..n : recent[i] + 1 \in 0..(Hour - 1)
  <2> TAKE i \in 1..n
  <2>1. i \in {j \in DOMAIN recent : recent[j] + 1 < Hour}
    BY <1>3
  <2> QED BY <2>1, <1>1, ConstantsTyped
<1>6. recent' \in Seq(0..(Hour - 1)) /\ Len(recent') = n
  BY <1>2, <1>4, <1>5
<1> QED BY <1>4, <1>6

LEMMA TickKeeps == ASSUME IInv, Tick PROVE IInv'
<1> DEFINE L == Len(recent)
           n == IF recent # <<>> /\ recent[L] = Hour - 1 THEN L - 1 ELSE L
<1>1. /\ recent' \in Seq(0..(Hour - 1)) /\ Len(recent') = n
      /\ \A i \in 1..n : recent'[i] = recent[i] + 1
  BY Aged DEF IInv
<1>2. /\ recent \in Seq(0..(Hour - 1)) /\ L \in Nat /\ n \in 0..L
      /\ \A i \in 1..L : recent[i] \in 0..(Hour - 1)
      /\ recent # <<>> <=> L > 0
      /\ recent' # <<>> <=> n > 0
  <2>1. /\ recent \in Seq(0..(Hour - 1)) /\ L \in Nat
        /\ \A i \in 1..L : recent[i] \in 0..(Hour - 1)
        /\ recent # <<>> <=> L > 0
    BY SeqFacts DEF IInv, TypeOK
  <2>2. recent' # <<>> <=> Len(recent') > 0
    BY <1>1, SeqFacts
  <2>3. n \in 0..L
    BY <2>1
  <2> QED BY <1>1, <2>1, <2>2, <2>3
<1>3. st \in ControllerState
  BY DEF IInv, TypeOK
<1>4. /\ st'.sinceMove = Smaller(st.sinceMove + 1, MinMoveInterval)
      /\ st'.sinceHour = Smaller(st.sinceHour + 1, Hour)
      /\ st'.movesThisHour = st.movesThisHour /\ st'.latched = st.latched
      /\ st' \in ControllerState
  <2> DEFINE o == IF st.overrideLeft > 0 THEN st.overrideLeft - 1 ELSE 0
             m == Smaller(st.sinceMove + 1, MinMoveInterval)
             h == Smaller(st.sinceHour + 1, Hour)
  <2>1. o \in 0..OverrideTimeout /\ m \in 0..MinMoveInterval /\ h \in 0..Hour
    BY <1>3, ConstantsTyped DEF ControllerState, Smaller
  <2>2. st' = [st EXCEPT !.overrideLeft = o, !.sinceMove = m, !.sinceHour = h]
    BY DEF Tick
  <2> HIDE DEF o, m, h
  <2>3. /\ st'.sinceMove = m /\ st'.sinceHour = h
        /\ st'.movesThisHour = st.movesThisHour /\ st'.latched = st.latched
        /\ st' \in ControllerState
    BY <1>3, <2>1, <2>2 DEF ControllerState
  <2> QED BY <2>3 DEF m, h
<1>5. cfg' = cfg /\ env' = env /\ sunKept' = sunKept
  BY DEF Tick
<1>6. evalIn' \in Nat
  BY DEF IInv, TypeOK, Tick
<1>7. TypeOK'
  BY <1>1, <1>4, <1>5, <1>6 DEF IInv, TypeOK, Tick
<1>8. Spaced'
  <2>1. \A i, j \in 1..n : i < j => recent'[j] - recent'[i] >= MinMoveInterval
    <3> TAKE i, j \in 1..n
    <3>1. i \in 1..L /\ j \in 1..L
      BY <1>2
    <3>2. i < j => recent[j] - recent[i] >= MinMoveInterval
      BY <3>1 DEF IInv, Spaced
    <3>3. recent'[i] = recent[i] + 1 /\ recent'[j] = recent[j] + 1
      BY <1>1
    <3> HIDE DEF n, L
    <3> QED BY <3>1, <3>2, <3>3, <1>2, ConstantsTyped, SMTT(30)
  <2>2. n > 0 => st'.sinceMove <= recent'[1]
    <3> SUFFICES ASSUME n > 0 PROVE st'.sinceMove <= recent'[1]
      OBVIOUS
    <3>1. st.sinceMove <= recent[1] /\ recent'[1] = recent[1] + 1 /\ recent[1] \in Nat
      BY <1>1, <1>2 DEF IInv, Spaced
    <3> QED BY <3>1, <1>3, <1>4, ConstantsTyped, SMTT(30) DEF Smaller, ControllerState
  <2> QED BY <1>1, <1>2, <2>1, <2>2 DEF Spaced
<1>9. Counted'
  <2> DEFINE H == st.sinceHour
             M == st.movesThisHour
  <2>1. H \in 0..Hour /\ M \in 0..MaxMovesPerHour
    BY <1>3 DEF ControllerState
  <2>2. CASE H = Hour
    <3>1. st'.sinceHour = Hour /\ L < MaxMovesPerHour
      BY <1>4, <2>2, ConstantsTyped DEF IInv, Counted, Smaller
    <3> QED BY <3>1, <1>1, <1>2, ConstantsTyped DEF Counted
  <2>3. CASE H = Hour - 1
    <3>1. st'.sinceHour = Hour
      BY <1>4, <2>3, ConstantsTyped DEF Smaller
    <3>2. M \in 1..L /\ recent[M] = Hour - 1
      BY <2>3, ConstantsTyped DEF IInv, Counted
    <3>3. M = L
      <4> SUFFICES ASSUME M # L PROVE FALSE
        OBVIOUS
      <4>1. recent[L] - recent[M] >= MinMoveInterval
        BY <3>2, <1>2 DEF IInv, Spaced
      <4> QED BY <4>1, <3>2, <1>2, ConstantsTyped
    <3>4. n = L - 1
      BY <3>2, <3>3, <1>2
    <3> QED BY <3>1, <3>3, <3>4, <2>1, <1>1, ConstantsTyped DEF Counted
  <2>4. CASE H < Hour - 1
    <3>1. st'.sinceHour = H + 1 /\ H + 1 < Hour
      BY <1>4, <2>1, <2>4, ConstantsTyped DEF Smaller
    <3>2. M \in 1..L /\ recent[M] = H /\ L < M + MaxMovesPerHour
      BY <2>1, <2>4, ConstantsTyped DEF IInv, Counted
    <3>3. M \in 1..n
      <4>1. M = L => recent[L] # Hour - 1
        BY <3>2, <2>1, <2>4, ConstantsTyped
      <4> QED BY <4>1, <3>2, <1>2
    <3>4. recent'[M] = H + 1
      BY <3>2, <3>3, <1>1
    <3>5. n < M + MaxMovesPerHour
      BY <3>2, <2>1, <1>2, ConstantsTyped
    <3> HIDE DEF n, L
    <3> QED BY <3>1, <3>3, <3>4, <3>5, <1>1, <1>4 DEF Counted
  <2> QED BY <2>1, <2>2, <2>3, <2>4, ConstantsTyped
<1>10. Latched'
  BY <1>4, <1>5 DEF IInv, Latched, SunOnly, quantize
<1> QED BY <1>7, <1>8, <1>9, <1>10 DEF IInv

(*****************************************************************************)
(* Evaluations.                                                              *)
(*****************************************************************************)

\* What an evaluation leaves of the history.
LEMMA EvaluateKeeps ==
  ASSUME IInv, NEW e \in Envs(cfg), evaluate(e), cfg' = cfg, env' = e
  PROVE  /\ st' \in ControllerState /\ queued' \in 0..100 \cup {None}
         /\ recent' \in Seq(0..(Hour - 1)) /\ sunKept' \in BOOLEAN
         /\ Spaced' /\ Counted' /\ Latched'
<1> DEFINE d == Decide(e)
           L == Len(recent)
<1>1. TypeOK /\ st \in ControllerState /\ Outcome(d, e)
  BY DecideFacts DEF IInv, TypeOK
<1> HIDE DEF d
<1>2. /\ st' = d.st /\ queued' = (IF d.move /\ queued = None THEN d.target ELSE queued)
      /\ recent' = IF d.move THEN <<0>> \o recent ELSE recent
      /\ sunKept' = (e.zone # "off"
                     /\ IF d.move THEN cfg.mode = "sun_shade" /\ d.target < quantize(100) ELSE sunKept)
  BY DEF evaluate, d
<1>3. /\ st' \in ControllerState /\ queued' \in 0..100 \cup {None}
      /\ sunKept' \in BOOLEAN
  BY <1>1, <1>2 DEF Outcome, TypeOK
<1>4. /\ recent \in Seq(0..(Hour - 1)) /\ L \in Nat
      /\ \A i \in 1..L : recent[i] \in 0..(Hour - 1)
      /\ recent # <<>> <=> L > 0
  BY <1>1, SeqFacts DEF TypeOK
<1>5. ASSUME ~d.move
      PROVE  recent' \in Seq(0..(Hour - 1)) /\ Spaced' /\ Counted'
  <2>1. HoldDecided(d) /\ recent' = recent
    BY <1>1, <1>2, <1>5 DEF Outcome
  <2> QED BY <2>1, <1>2, <1>4 DEF HoldDecided, IInv, Spaced, Counted
<1>6. ASSUME d.move
      PROVE  recent' \in Seq(0..(Hour - 1)) /\ Spaced' /\ Counted'
  <2>1. MoveDecided(d) /\ recent' = <<0>> \o recent
    BY <1>1, <1>2, <1>6 DEF Outcome
  <2>2. /\ <<0>> \in Seq(0..(Hour - 1)) /\ Len(<<0>>) = 1 /\ <<0>>[1] = 0
    BY ConstantsTyped
  <2>3. /\ recent' \in Seq(0..(Hour - 1)) /\ Len(recent') = L + 1
        /\ recent'[1] = 0 /\ \A i \in 2..(L + 1) : recent'[i] = recent[i - 1]
    <3>1. /\ <<0>> \o recent \in Seq(0..(Hour - 1)) /\ Len(<<0>> \o recent) = 1 + L
          /\ \A i \in 1..(1 + L) :
               (<<0>> \o recent)[i] = IF i <= 1 THEN <<0>>[i] ELSE recent[i - 1]
      BY <1>4, <2>2, ConcatProperties
    <3> QED BY <3>1, <2>1, <2>2, <1>4
  <2>4. Spaced'
    <3>1. \A i, j \in 1..(L + 1) : i < j => recent'[j] - recent'[i] >= MinMoveInterval
      <4> SUFFICES ASSUME NEW i \in 1..(L + 1), NEW j \in 1..(L + 1), i < j
                   PROVE  recent'[j] - recent'[i] >= MinMoveInterval
        OBVIOUS
      <4>1. /\ j - 1 \in 1..L /\ recent'[j] = recent[j - 1]
            /\ recent[j - 1] \in Nat
        BY <2>3, <1>4
      <4>2. CASE i = 1
        <5>1. recent[1] >= MinMoveInterval /\ recent[1] \in Nat
          BY <4>1, <1>4, <2>1, ConstantsTyped DEF MoveDecided, IInv, Spaced
        <5>2. recent[j - 1] >= recent[1]
          <6>1. CASE j - 1 = 1
            BY <6>1, <5>1
          <6>2. CASE j - 1 > 1
            <7>1. recent[j - 1] - recent[1] >= MinMoveInterval
              BY <6>2, <4>1, <1>4 DEF IInv, Spaced
            <7> QED BY <7>1, <5>1, <4>1, ConstantsTyped
          <6> QED BY <6>1, <6>2, <4>1
        <5> QED BY <5>1, <5>2, <4>1, <4>2, <2>3, ConstantsTyped
      <4>3. CASE i > 1
        <5>1. i - 1 \in 1..L /\ recent'[i] = recent[i - 1]
          BY <4>3, <2>3, <1>4
        <5>2. recent[j - 1] - recent[i - 1] >= MinMoveInterval
          BY <5>1, <4>1 DEF IInv, Spaced
        <5> QED BY <5>1, <5>2, <4>1
      <4> QED BY <4>2, <4>3
    <3>2. st'.sinceMove <= recent'[1]
      BY <1>2, <2>1, <2>3 DEF MoveDecided
    <3> QED BY <3>1, <3>2, <2>3 DEF Spaced
  <2>5. Counted'
    <3> DEFINE H == st.sinceHour
               M == st.movesThisHour
    <3>1. H \in 0..Hour /\ M \in 0..MaxMovesPerHour
      BY <1>1 DEF ControllerState
    <3>2. CASE H = Hour
      <4>1. st'.sinceHour = 0 /\ st'.movesThisHour = 1 /\ L < MaxMovesPerHour
        BY <3>2, <1>2, <2>1, ConstantsTyped DEF MoveDecided, IInv, Counted
      <4> QED BY <4>1, <2>3, <1>4, ConstantsTyped DEF Counted
    <3>3. CASE H # Hour
      <4>1. st'.sinceHour = H /\ st'.movesThisHour = M + 1
        BY <3>3, <1>2, <2>1 DEF MoveDecided
      <4>2. H < Hour /\ M \in 1..L /\ recent[M] = H /\ L < M + MaxMovesPerHour
        BY <3>1, <3>3, ConstantsTyped DEF IInv, Counted
      <4>3. M + 1 \in 2..(L + 1) /\ recent'[M + 1] = H
        BY <4>2, <2>3, <1>4
      <4>4. L + 1 < M + 1 + MaxMovesPerHour
        BY <4>2, <1>4, ConstantsTyped
      <4> HIDE DEF L, H, M
      <4> QED BY <4>1, <4>2, <4>3, <4>4, <2>3, <1>4 DEF Counted
    <3> QED BY <3>2, <3>3
  <2> QED BY <2>3, <2>4, <2>5
<1>7. Latched'
  <2> SUFFICES ASSUME SunOnly, sunKept'
               PROVE  st'.latched /\ e.zone # "off" /\ quantize(cfg.shadeClosed) < quantize(100)
    BY DEF Latched, SunOnly, quantize, Smaller
  <2>1. e.zone # "off" /\ (IF d.move THEN d.target < quantize(100) ELSE sunKept)
    BY <1>2
  <2>2. policy(e) = sunGated(e, cfg.shadeClosed)
    BY DEF SunOnly, policy, privacy, modePolicy, activeMode
  <2>3. /\ policy(e).latched = sunOnWindow(e)
        /\ policy(e).target = IF sunOnWindow(e) THEN cfg.shadeClosed ELSE 100
    BY <2>2 DEF sunGated, wants
  <2>4. CASE d.move
    <3>1. d.target = quantize(policy(e).target) /\ st'.latched = sunOnWindow(e)
      BY <1>1, <1>2, <2>3, <2>4 DEF Outcome, LatchAfter
    <3>2. quantize(100) \in Nat
      BY QuantizeTyped
    <3>3. sunOnWindow(e)
      BY <3>1, <3>2, <2>1, <2>3, <2>4
    <3> QED BY <3>1, <3>3, <2>1, <2>3, <2>4
  <2>5. CASE ~d.move
    <3>1. st.latched /\ quantize(cfg.shadeClosed) < quantize(100)
      BY <2>1, <2>5 DEF IInv, Latched
    <3>2. e.zone \in {"engage", "hold"}
      BY <2>1 DEF Envs
    <3>3. sunOnWindow(e)
      BY <3>1, <3>2 DEF sunOnWindow
    <3>4. st'.latched = LatchAfter(e)
      BY <1>1, <1>2 DEF Outcome
    <3> QED BY <3>1, <3>3, <3>4, <2>1, <2>3 DEF LatchAfter
  <2> QED BY <2>4, <2>5
<1> QED BY <1>1, <1>3, <1>5, <1>6, <1>7 DEF Outcome

(*****************************************************************************)
(* The invariant, and what follows from it.                                  *)
(*****************************************************************************)

LEMMA NextIInv == IInv /\ [Next]_vars => IInv'
<1> SUFFICES ASSUME IInv, [Next]_vars PROVE IInv'
  OBVIOUS
<1>1. env \in Envs(cfg)
  BY DEF IInv, TypeOK
<1>2. CASE Evaluate
  <2>1. evaluate(env) /\ cfg' = cfg /\ env' = env /\ lastPos' = lastPos /\ blindAt' = blindAt
        /\ left' = left
    BY <1>2 DEF Evaluate
  <2>2. /\ st' \in ControllerState /\ queued' \in 0..100 \cup {None}
        /\ recent' \in Seq(0..(Hour - 1)) /\ sunKept' \in BOOLEAN
        /\ Spaced' /\ Counted' /\ Latched'
    BY <1>1, <2>1, EvaluateKeeps
  <2>3. evalIn' \in Nat
    <3>1. Outcome(Decide(env), env)
      BY <1>1, DecideFacts DEF IInv
    <3> QED BY <1>2, <3>1 DEF Evaluate, Outcome
  <2>4. TypeOK'
    BY <2>1, <2>2, <2>3 DEF IInv, TypeOK
  <2> QED BY <2>2, <2>4 DEF IInv
<1>3. CASE applyControl
  <2>1. PICK e \in Envs(cfg) :
          /\ evaluate(e) /\ env' = e /\ cfg' = cfg
          /\ lastPos' = lastPos /\ blindAt' = blindAt /\ left' = left /\ evalIn' = evalIn
    BY <1>3 DEF applyControl
  <2>2. /\ st' \in ControllerState /\ queued' \in 0..100 \cup {None}
        /\ recent' \in Seq(0..(Hour - 1)) /\ sunKept' \in BOOLEAN
        /\ Spaced' /\ Counted' /\ Latched'
    BY <2>1, EvaluateKeeps
  <2>3. TypeOK'
    BY <2>1, <2>2 DEF IInv, TypeOK
  <2> QED BY <2>2, <2>3 DEF IInv
<1>4. CASE SkyChanges \/ Blind
  BY <1>4, OthersKeep
<1>5. CASE Tick
  BY <1>5, TickKeeps
<1>6. CASE UNCHANGED vars
  <2>1. /\ cfg' = cfg /\ env' = env /\ st' = st /\ lastPos' = lastPos /\ queued' = queued
        /\ blindAt' = blindAt
        /\ evalIn' = evalIn /\ recent' = recent /\ sunKept' = sunKept /\ left' = left
    BY <1>6 DEF vars, history
  <2> QED BY <2>1 DEF IInv, TypeOK, Spaced, Counted, Latched, SunOnly, quantize
<1> QED BY <1>2, <1>3, <1>4, <1>5, <1>6 DEF Next

\* The inductive invariant.
THEOREM InvariantHolds == Spec => []IInv
<1> QED BY InitIInv, NextIInv, PTL DEF Spec

\* Every state has its type: whatever the limits, the counters stay within them and
\* every wanted and decided position is one (ControllerState, quantize, clampInt).
THEOREM TypeCorrect == Spec => []TypeOK
<1>1. IInv => TypeOK
  BY DEF IInv
<1> QED BY <1>1, InvariantHolds, PTL

\* For every cap and every length of the hour: although the window is fixed, no hour
\* sees twice the cap (applyGuards).
THEOREM HourlyMovesBoundedHolds == Spec => []HourlyMovesBounded
<1>1. IInv => HourlyMovesBounded
  <2> SUFFICES ASSUME IInv PROVE Len(recent) < 2 * MaxMovesPerHour
    BY DEF HourlyMovesBounded
  <2>1. /\ Len(recent) \in Nat
        /\ st.sinceHour \in 0..Hour /\ st.movesThisHour \in 0..MaxMovesPerHour
    BY SeqFacts DEF IInv, TypeOK, ControllerState
  <2>2. Len(recent) < st.movesThisHour + MaxMovesPerHour \/ Len(recent) < MaxMovesPerHour
    BY DEF IInv, Counted
  <2> QED BY <2>1, <2>2, ConstantsTyped
<1> QED BY <1>1, InvariantHolds, PTL

\* For every minimum interval: the moves that are decided are that far apart, whether
\* the timer or a signal led to the evaluation (applyGuards).
THEOREM SpacedMovesHolds == Spec => []SpacedMoves
<1>1. IInv => SpacedMoves
  <2> SUFFICES ASSUME IInv, NEW i \in 1..(Len(recent) - 1)
               PROVE  recent[i + 1] - recent[i] >= MinMoveInterval
    BY DEF SpacedMoves
  <2>1. Len(recent) \in Nat
    BY SeqFacts DEF IInv, TypeOK
  <2>2. i \in 1..Len(recent) /\ i + 1 \in 1..Len(recent) /\ i < i + 1
    BY <2>1
  <2> QED BY <2>2 DEF IInv, Spaced
<1> QED BY <1>1, InvariantHolds, PTL

\* Both promises of the guards.
THEOREM MovesBoundedHolds == Spec => []MovesBounded
<1>1. HourlyMovesBounded /\ SpacedMoves => MovesBounded
  BY DEF MovesBounded
<1> QED BY <1>1, HourlyMovesBoundedHolds, SpacedMovesHolds, PTL

\* For every configuration and every step: shading that was decided is not undone
\* while the sun stays in the range in which it holds (sunOnWindow).
THEOREM ShadingHolds == Spec => HysteresisHolds
<1>1. IInv /\ [Next]_vars =>
        [SunOnly /\ sunKept /\ recent' = <<0>> \o recent => sunKept' \/ env'.zone = "off"]_vars
  <2> SUFFICES ASSUME IInv, Next, SunOnly, sunKept, env'.zone # "off"
               PROVE  sunKept'
    OBVIOUS
  <2>1. ASSUME NEW e \in Envs(cfg), evaluate(e), env' = e
        PROVE  sunKept'
    <3> DEFINE d == Decide(e)
    <3>1. Outcome(d, e)
      BY DecideFacts DEF IInv
    <3>2. sunKept' = (e.zone # "off"
                      /\ IF d.move THEN cfg.mode = "sun_shade" /\ d.target < quantize(100)
                                   ELSE sunKept)
      BY <2>1 DEF evaluate
    <3>3. st.latched /\ quantize(cfg.shadeClosed) < quantize(100)
      BY DEF IInv, Latched
    <3>4. e.zone \in {"engage", "hold"}
      BY <2>1 DEF Envs
    <3>5. policy(e).target = cfg.shadeClosed
      BY <3>3, <3>4
      DEF SunOnly, policy, privacy, modePolicy, activeMode, sunGated, sunOnWindow, wants
    <3>6. d.move => d.target < quantize(100)
      BY <3>1, <3>3, <3>5 DEF Outcome
    <3> QED BY <3>2, <3>6, <2>1 DEF SunOnly
  <2>2. CASE Evaluate
    <3>1. env \in Envs(cfg)
      BY DEF IInv, TypeOK
    <3> QED BY <2>1, <2>2, <3>1 DEF Evaluate
  <2>3. CASE applyControl
    BY <2>1, <2>3 DEF applyControl
  <2>4. CASE SkyChanges
    BY <2>4 DEF SkyChanges
  <2>5. CASE Blind
    BY <2>5, Zenon
    DEF Blind, MoveDone, MoveFails, MoveDropped, Poll, PollUnanswered, ManualMove, RemoteMove,
        history
  <2>6. CASE Tick
    BY <2>6 DEF Tick
  <2> QED BY <2>2, <2>3, <2>4, <2>5, <2>6 DEF Next
<1> QED BY <1>1, InvariantHolds, PTL DEF Spec, HysteresisHolds
================================================================================
