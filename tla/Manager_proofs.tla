---------------------------- MODULE Manager_proofs ----------------------------
(* Proofs about Manager: for every set of positions, every capacity of the    *)
(* queues, every number of commands, moves and drops, in all three modes, with *)
(* a reliable or an unreliable radio.                                         *)
EXTENDS Manager, SequenceTheorems, TLAPS

(****************************************************************************)
(* The inductive invariant.  Besides the properties themselves it says that *)
(* the radio link is only up while the client believes it is, and where the *)
(* goroutine may be while Home Assistant shows a movement.                  *)
(****************************************************************************)

\* A link that is up is one the client knows of.
LinkKnown == link => connected

\* A movement is only shown between its announcement and the end of its tracking, or
\* while the op that interrupts it is prepared.
MovingWhileTracked ==
  haState \in MovingStates /\ ~cancelled =>
    \/ pc \in {"opSend", "track", "tickSend", "tickRead"}
    \/ pc = "opEnsure" /\ tracking

\* When an op's function is called, its state has been announced.
StateAnnounced == pc = "opSend" => haState = cur.state

LinkInv ==
  /\ LinkKnown
  /\ IdleTimerGuardsLink
  /\ PollKeepsScheduled
  /\ ConnectedShownOnline
  /\ ReconnectsOnlyWhenDown
  /\ ExitDropsLink

MovementInv ==
  /\ MovingWhileTracked
  /\ StateAnnounced

IInv == TypeOK /\ LinkInv /\ MovementInv

-----------------------------------------------------------------------------
(* Lemmas about the operators.                                                *)

\* The end stops of the motor are positions, and every position is a byte.
LEMMA PositionFacts == 0 \in Positions /\ 100 \in Positions /\ Positions \subseteq 0..255
  BY PositionsAssumption

\* toHA returns a percentage.
LEMMA ToHAInRange == ASSUME NEW pos \in Positions PROVE toHA(pos, Invert) \in 0..100
<1>1. pos \in 0..255
  BY PositionFacts
<1> QED BY <1>1, ManagerAssumption DEF toHA

\* restingState returns a resting state.
LEMMA RestingStateRests == ASSUME NEW h \in Int PROVE restingState(h) \in RestingStates
  BY DEF restingState, RestingStates

\* No cover state is both a moving and a resting one.
LEMMA RestingIsNotMoving == RestingStates \cap MovingStates = {} /\ "unset" \notin MovingStates
  BY DEF RestingStates, MovingStates

\* The ops that handlers and the controller build are ops.
LEMMA OpsFacts ==
  /\ stop \in Ops /\ NoOp \in Ops
  /\ \A target \in Positions, state \in MovingStates, origin \in {"manual", "auto"} :
       move(target, state, origin) \in Ops
  /\ \A op \in Ops : /\ op.target \in Positions
                     /\ op.state \in MovingStates \cup {"stopped"}
                     /\ op.track \in BOOLEAN
                     /\ ~op.track => op.state = "stopped"
  BY PositionFacts DEF Ops, move, stop, NoOp, MovingStates

\* The tracker stays a tracker.
LEMMA TrackerFacts ==
  /\ newSettleTracker \in Trackers
  /\ \A tr \in Trackers, pos \in Positions : Observed(tr, pos) \in Trackers
<1>1. newSettleTracker \in Trackers
  BY DEF newSettleTracker, Trackers
<1>2. ASSUME NEW tr \in Trackers, NEW pos \in Positions PROVE Observed(tr, pos) \in Trackers
  BY <1>2, PositionFacts DEF Observed, Trackers
<1> QED BY <1>1, <1>2

\* What publishSettled leaves: a resting state, and a view that is well typed.
Published ==
  /\ haState \in RestingStates
  /\ lastPos \in 0..100 /\ posKnown \in BOOLEAN /\ override \in BOOLEAN

\* Publishing the settled position ends a movement and keeps the view well typed.
LEMMA PublishFacts ==
  ASSUME TypeOK, NEW poll \in BOOLEAN, publishSettled(poll), position' \in Positions
  PROVE  Published'
<1>1. toHA(position', Invert) \in 0..100
  BY ToHAInRange
<1>2. haState' = restingState(toHA(position', Invert)) /\ lastPos' = toHA(position', Invert)
  BY DEF publishSettled
<1>3. posKnown' \in BOOLEAN /\ override' \in BOOLEAN
  BY ZenonT(30) DEF publishSettled, TypeOK
<1> QED BY <1>1, <1>2, <1>3, RestingStateRests DEF Published

\* The goroutine back in its loop.
Looping ==
  /\ pc = "select" /\ caller = "none" /\ tracking \in BOOLEAN
  /\ cur \in Ops /\ tracker \in Trackers
  /\ idleArmed \in BOOLEAN /\ refreshArmed \in BOOLEAN

\* Returning to the loop leaves the goroutine's variables and its timers well typed,
\* and on demand with the timers that the state of the link calls for.
LEMMA ResumeFacts ==
  ASSUME TypeOK, Resume
  PROVE  /\ Looping'
         /\ onDemand /\ connected' => idleArmed'
         /\ mode = "poll" => refreshArmed'
         /\ mode = "command" /\ ~refreshArmed => ~refreshArmed'
BY OpsFacts, TrackerFacts DEF Resume, scheduleRefresh, timers, onDemand, TypeOK, Looping

\* A disconnect takes down the link that the client knows of.
LEMMA DisconnectFacts ==
  ASSUME TypeOK, LinkKnown, Disconnect
  PROVE  /\ ~connected' /\ ~link' /\ position' \in Positions
         /\ connected' \in BOOLEAN /\ link' \in BOOLEAN
         /\ inflight' \in Seq(Positions) /\ Len(inflight') <= 1
<1>1. ~connected' /\ connected' \in BOOLEAN /\ position' \in Positions
  BY PositionFacts DEF Disconnect
<1>2. CASE connected
  <2>1. ~link' /\ link' \in BOOLEAN /\ (inflight' = <<>> \/ inflight' = inflight)
    BY <1>2 DEF Disconnect
  <2>2. inflight \in Seq(Positions) /\ Len(inflight) <= 1
    BY DEF TypeOK
  <2>3. <<>> \in Seq(Positions) /\ Len(<<>>) <= 1
    OBVIOUS
  <2>4. inflight' \in Seq(Positions) /\ Len(inflight') <= 1
    BY <2>1, <2>2, <2>3, Zenon
  <2> QED BY <1>1, <2>1, <2>4
<1>3. CASE ~connected
  <2>1. link' = link /\ inflight' = inflight /\ ~link
    BY <1>3 DEF Disconnect, LinkKnown
  <2> QED BY <1>1, <2>1 DEF TypeOK
<1> QED BY <1>2, <1>3

\* Connecting if need be leaves a known link and, with the link up, "online".
LEMMA EnsureFacts ==
  ASSUME TypeOK, LinkKnown, ensureConnected
  PROVE  /\ connected' \in BOOLEAN /\ link' \in BOOLEAN /\ position' \in Positions
         /\ avail' \in {"online", "offline"}
         /\ link' => connected'
         /\ connected' => avail' = "online"
<1>1. CASE connected /\ avail' = "online" /\ UNCHANGED <<connected, position, link>>
  BY <1>1 DEF TypeOK, LinkKnown
<1>2. CASE ~connected /\ ConnectOk /\ UNCHANGED position
  BY <1>2 DEF TypeOK, ConnectOk
<1>3. CASE ~connected /\ ConnectFails /\ avail' = "offline"
  <2>1. position' \in {position, 0} /\ connected' = connected /\ link' = link
    BY <1>3 DEF ConnectFails
  <2> QED BY <1>3, <2>1, PositionFacts DEF TypeOK, LinkKnown
<1> QED BY <1>1, <1>2, <1>3 DEF ensureConnected

\* A Send that gives up leaves the link as it was, or takes it down.
LEMMA SendFailsFacts ==
  ASSUME TypeOK, LinkKnown, SendFails
  PROVE  /\ connected' \in BOOLEAN /\ link' \in BOOLEAN /\ position' \in Positions
         /\ inflight' \in Seq(Positions) /\ Len(inflight') <= 1
         /\ retried' \in BOOLEAN
         /\ link' => connected'
         /\ connected' => connected
<1>1. retried' = FALSE
  BY DEF SendFails, SendGivesUp
<1>2. CASE UNCHANGED <<connected, position, link, inflight>>
  BY <1>1, <1>2 DEF TypeOK, LinkKnown
<1>3. CASE Disconnect
  BY <1>1, <1>3, DisconnectFacts
<1> QED BY <1>2, <1>3 DEF SendFails

\* At most one reply is on its way.
LEMMA ReplyFacts ==
  ASSUME TypeOK, Reply
  PROVE  inflight' \in Seq(Positions) /\ Len(inflight') <= 1
<1>1. CASE inflight' = <<motor>>
  <2>1. motor \in Positions
    BY DEF TypeOK
  <2>2. <<motor>> \in Seq(Positions) /\ Len(<<motor>>) <= 1
    BY <2>1
  <2> QED BY <1>1, <2>2, Zenon
<1>2. CASE UNCHANGED inflight
  BY <1>2 DEF TypeOK
<1> QED BY <1>1, <1>2 DEF Reply

\* The queue holds ops, and no more than its capacity.
LEMMA SubmitFacts ==
  ASSUME TypeOK, NEW op \in Ops, submit(op)
  PROVE  actions' \in Seq(Ops) /\ Len(actions') <= ActionsCap
<1>1. actions \in Seq(Ops) /\ Len(actions) \in Nat /\ Len(actions) <= ActionsCap
  BY DEF TypeOK
<1>2. CASE Len(actions) < ActionsCap
  <2>1. Append(actions, op) \in Seq(Ops) /\ Len(Append(actions, op)) <= ActionsCap
    BY <1>1, <1>2, ManagerAssumption
  <2> QED BY <1>2, <2>1, Zenon DEF submit
<1>3. CASE ~(Len(actions) < ActionsCap)
  BY <1>1, <1>3, Zenon DEF submit
<1> QED BY <1>2, <1>3

\* A decision of the controller queues ops only, within the capacity and the bound.
LEMMA EvaluateFacts ==
  ASSUME TypeOK, evaluate
  PROVE  /\ actions' \in Seq(Ops) /\ Len(actions') <= ActionsCap
         /\ left' \in [ops : Nat, auto : Nat, remote : Nat]
<1>1. CASE UNCHANGED <<actions, left>>
  BY <1>1 DEF TypeOK
<1>2. CASE /\ left.auto > 0 /\ left' = [left EXCEPT !.auto = @ - 1]
           /\ \E target \in Positions, state \in MovingStates :
                submit(move(target, state, "auto"))
  <2>1. left' \in [ops : Nat, auto : Nat, remote : Nat]
    BY <1>2 DEF TypeOK
  <2>2. PICK op \in Ops : submit(op)
    BY <1>2, OpsFacts
  <2> QED BY <2>1, <2>2, SubmitFacts
<1> QED BY <1>1, <1>2 DEF evaluate, MovingStates

\* A Send that reconnects ends with the link up and the blind shown online.
LEMMA SendReconnectsFacts ==
  ASSUME TypeOK, SendReconnects
  PROVE  /\ connected' \in BOOLEAN /\ link' \in BOOLEAN /\ position' \in Positions
         /\ inflight' \in Seq(Positions) /\ Len(inflight') <= 1
         /\ retried' \in BOOLEAN
         /\ connected' /\ avail' = "online"
<1>1. connected' /\ connected' \in BOOLEAN /\ link' \in BOOLEAN /\ avail' = "online"
  BY DEF SendReconnects, ConnectOk
<1>2. retried' \in BOOLEAN /\ position' \in Positions
  BY PositionFacts DEF SendReconnects
<1>3. inflight' = <<>> \/ inflight' = inflight
  BY DEF SendReconnects
<1>4. <<>> \in Seq(Positions) /\ Len(<<>>) <= 1
  OBVIOUS
<1>5. inflight \in Seq(Positions) /\ Len(inflight) <= 1
  BY DEF TypeOK
<1>6. inflight' \in Seq(Positions) /\ Len(inflight') <= 1
  BY <1>3, <1>4, <1>5, Zenon
<1> QED BY <1>1, <1>2, <1>6

-----------------------------------------------------------------------------
(* The initial state, and type correctness of every step.                     *)

\* The initial states of all three modes satisfy the invariant.
LEMMA InitIInv == Init => IInv
<1> SUFFICES ASSUME Init PROVE IInv
  OBVIOUS
<1>1. TypeOK
  <2>1. /\ <<>> \in Seq(Ops) /\ Len(<<>>) <= ActionsCap
        /\ <<>> \in Seq(Positions) /\ Len(<<>>) <= 1
    BY ManagerAssumption
  <2>2. cur \in Ops /\ tracker \in Trackers
    BY OpsFacts, TrackerFacts DEF Init
  <2>3. /\ left \in [ops : Nat, auto : Nat, remote : Nat]
        /\ control \in 0..ControlCap
    BY ManagerAssumption DEF Init
  <2>4. actions \in Seq(Ops) /\ Len(actions) <= ActionsCap
    BY <2>1, Zenon DEF Init
  <2>5. inflight \in Seq(Positions) /\ Len(inflight) <= 1
    BY <2>1, Zenon DEF Init
  <2>6. motor \in Positions /\ goal \in Positions /\ position \in Positions
    BY PositionFacts DEF Init
  <2>7. refreshArmed \in BOOLEAN /\ reach \in BOOLEAN
    BY Zenon DEF Init, onDemand
  <2>8. /\ mode \in Modes /\ pc \in {"select", "top"} /\ caller = "none"
        /\ avail \in {"online", "unset"}
    BY DEF Init
  <2>9. /\ tracking \in BOOLEAN /\ retried \in BOOLEAN /\ idleArmed \in BOOLEAN
        /\ posKnown \in BOOLEAN /\ override \in BOOLEAN
        /\ connected \in BOOLEAN /\ link \in BOOLEAN /\ cancelled \in BOOLEAN
        /\ touched \in BOOLEAN /\ cut \in BOOLEAN /\ moved \in BOOLEAN
        /\ haState = "unset" /\ haPos = NoPos /\ shutdown = "no"
    BY Zenon DEF Init
  <2>10. lastPos = 0
    BY Zenon DEF Init
  <2> QED BY <2>2, <2>3, <2>4, <2>5, <2>6, <2>7, <2>8, <2>9, <2>10 DEF TypeOK
<1>2. LinkInv
  BY ManagerAssumption
  DEF Init, onDemand, LinkInv, LinkKnown, IdleTimerGuardsLink, PollKeepsScheduled,
      ConnectedShownOnline, ReconnectsOnlyWhenDown, ExitDropsLink
<1>3. MovementInv
  BY DEF Init, onDemand, MovementInv, MovingWhileTracked, StateAnnounced, MovingStates
<1> QED BY <1>1, <1>2, <1>3 DEF IInv

\* An op's function leaves the client's state well typed, also when Send gives up.
LEMMA OpSendFacts ==
  ASSUME TypeOK, LinkKnown, OpSend
  PROVE  /\ connected' \in BOOLEAN /\ link' \in BOOLEAN /\ position' \in Positions
         /\ inflight' \in Seq(Positions) /\ Len(inflight') <= 1
         /\ retried' \in BOOLEAN
         /\ goal' \in Positions /\ avail' \in {"unset", "online", "offline"}
<1>1. CASE /\ SendOk
           /\ goal' = IF cur.track THEN cur.target ELSE motor
           /\ avail' = IF tracking THEN avail ELSE "online"
           /\ UNCHANGED <<client, link, inflight>>
  BY <1>1, OpsFacts DEF SendOk, TypeOK, client
<1>2. CASE SendFails /\ UNCHANGED <<goal, avail>>
  BY <1>2, SendFailsFacts DEF TypeOK
<1> QED BY <1>1, <1>2 DEF OpSend

\* The steps of the goroutine that wait for the radio preserve the types.
LEMMA StepsTypeOK ==
  ASSUME TypeOK, LinkKnown, Steps PROVE TypeOK'
<1> USE DEF Goto, thread, queues, timers, view, ha, client, air, blind, history, run
<1>1. CASE Connect
  <2>1. CASE ConnectOk /\ UNCHANGED position /\ pc' = "refEnsure" /\ caller' = "start"
    BY <1>1, <2>1 DEF Connect, ConnectOk, TypeOK
  <2>2. CASE ConnectFails /\ avail' = "offline" /\ pc' = "backoff" /\ UNCHANGED caller
    <3>1. position' \in Positions
      BY <2>2, PositionFacts DEF ConnectFails, TypeOK
    <3> QED BY <1>1, <2>2, <3>1 DEF Connect, ConnectFails, TypeOK
  <2> QED BY <1>1, <2>1, <2>2 DEF Connect
<1>2. CASE Backoff
  BY <1>2 DEF Backoff, TypeOK
<1>3. CASE OpEnsure
  BY <1>3, EnsureFacts, OpsFacts DEF TypeOK, OpEnsure, RestingStates
<1>4. CASE OpSend
  <2>1. /\ connected' \in BOOLEAN /\ link' \in BOOLEAN /\ position' \in Positions
        /\ inflight' \in Seq(Positions) /\ Len(inflight') <= 1
        /\ retried' \in BOOLEAN
        /\ goal' \in Positions /\ avail' \in {"unset", "online", "offline"}
    BY <1>4, OpSendFacts
  <2>2. AfterOp /\ UNCHANGED <<mode, queues, haPos, motor, reach, run, touched, moved, left>>
    BY <1>4 DEF OpSend
  <2>3. CASE cur.track /\ UNCHANGED <<caller, timers, view, haState, cut>>
              /\ pc' = "track" /\ tracker' = newSettleTracker
              /\ cur' = NoOp /\ tracking' = FALSE
    <3>1. cur' \in Ops /\ tracker' \in Trackers /\ tracking' \in BOOLEAN
      BY <2>3, OpsFacts, TrackerFacts
    <3>2. pc' = "track" /\ UNCHANGED <<caller, timers, view, haState, cut>>
      BY <2>3
    <3> QED BY <2>1, <2>2, <3>1, <3>2 DEF TypeOK
  <2>4. CASE publishSettled(FALSE) /\ cut' = TRUE /\ Resume
    <3>1. Published' /\ Looping'
      BY <2>1, <2>4, PublishFacts, ResumeFacts
    <3> QED BY <2>1, <2>2, <2>4, <3>1 DEF TypeOK, Published, Looping
  <2>5. CASE pc' = "refEnsure" /\ cur' = NoOp
              /\ UNCHANGED <<caller, tracking, tracker, timers, view, haState, cut>>
    BY <2>1, <2>2, <2>5, OpsFacts DEF TypeOK
  <2> QED BY <2>2, <2>3, <2>4, <2>5 DEF AfterOp
<1>5. CASE Reconnect
  BY <1>5, SendReconnectsFacts DEF Reconnect, TypeOK
<1>6. CASE TrackTick
  BY <1>6, EnsureFacts DEF TrackTick, TypeOK
<1>7. CASE TickSend
  <2>1. /\ connected' \in BOOLEAN /\ link' \in BOOLEAN /\ position' \in Positions
        /\ inflight' \in Seq(Positions) /\ Len(inflight') <= 1
        /\ retried' \in BOOLEAN
    <3>1. CASE SendOk /\ Reply /\ UNCHANGED <<client, link>>
      BY <3>1, ReplyFacts DEF SendOk, TypeOK
    <3>2. CASE SendFails
      BY <3>2, SendFailsFacts DEF TypeOK
    <3> QED BY <1>7, <3>1, <3>2 DEF TickSend
  <2>2. moved' \in BOOLEAN
    BY <1>7 DEF TickSend
  <2>3. /\ pc' = "tickRead" /\ UNCHANGED <<caller, cur, tracking, tracker>>
        /\ UNCHANGED <<mode, queues, timers, view, ha, reach, blind, run, touched, cut, left>>
    BY <1>7 DEF TickSend
  <2> QED BY <2>1, <2>2, <2>3 DEF TypeOK
<1>8. CASE TickRead
  <2>1. /\ UNCHANGED client
        /\ UNCHANGED <<mode, retried, queues, avail, haPos, air, blind, run,
                       moved, left>>
    BY <1>8 DEF TickRead
  <2>2. CASE publishSettled(FALSE) /\ Noticed /\ Resume
    <3>1. touched' \in BOOLEAN /\ cut' \in BOOLEAN
      BY <2>2, Zenon DEF Noticed
    <3>2. Published' /\ Looping'
      BY <2>1, <2>2, PublishFacts, ResumeFacts DEF TypeOK
    <3> QED BY <2>1, <3>1, <3>2 DEF TypeOK, Published, Looping
  <2>3. CASE /\ pc' = "track" /\ tracker' = Observed(tracker, position)
             /\ UNCHANGED <<caller, cur, tracking, timers, view, haState, touched, cut>>
    BY <2>1, <2>3, TrackerFacts DEF TypeOK
  <2> QED BY <1>8, <2>2, <2>3 DEF TickRead
<1>9. CASE RefreshEnsure
  BY <1>9, EnsureFacts DEF RefreshEnsure, TypeOK
<1>10. CASE RefreshSend
  <2>1. UNCHANGED <<mode, queues, view, haState, haPos, reach, blind, run,
                    history, left>>
    BY <1>10 DEF RefreshSend
  <2>2. CASE SendOk /\ Reply /\ Goto("refWait") /\ UNCHANGED <<timers, client, link, avail>>
    <3>1. retried' \in BOOLEAN
      BY <2>2 DEF SendOk
    <3> QED BY <2>1, <2>2, <3>1, ReplyFacts DEF TypeOK
  <2>3. CASE pollFails
    <3>1. retried' \in BOOLEAN
      BY <2>3 DEF pollFails, SendGivesUp
    <3> QED BY <2>1, <2>3, <3>1, DisconnectFacts DEF pollFails, TypeOK
  <2>4. CASE SendFails /\ Resume /\ UNCHANGED avail
    <3>1. Looping'
      BY <2>4, ResumeFacts
    <3> QED BY <2>1, <2>4, <3>1, SendFailsFacts DEF TypeOK, Looping
  <2> QED BY <1>10, <2>2, <2>3, <2>4 DEF RefreshSend
<1>11. CASE RefreshWait
  <2>1. touched' \in BOOLEAN /\ cut' \in BOOLEAN
    BY <1>11, Zenon DEF RefreshWait, Noticed
  <2>2. PICK poll \in BOOLEAN : publishSettled(poll)
    BY <1>11 DEF RefreshWait
  <2>3. UNCHANGED client /\ Resume
        /\ UNCHANGED <<mode, retried, queues, avail, haPos, air, blind, run,
                       moved, left>>
    BY <1>11 DEF RefreshWait
  <2>4. Published' /\ Looping'
    BY <2>2, <2>3, PublishFacts, ResumeFacts DEF TypeOK
  <2> QED BY <2>1, <2>3, <2>4 DEF TypeOK, Published, Looping
<1> QED
  BY <1>1, <1>2, <1>3, <1>4, <1>5, <1>6, <1>7, <1>8, <1>9, <1>10, <1>11 DEF Steps

\* The cases of the goroutine's selects preserve the types.
LEMMA SelectsTypeOK ==
  ASSUME TypeOK, LinkKnown, Selects PROVE TypeOK'
<1> USE DEF Goto, thread, queues, timers, view, ha, client, air, blind, history, run
<1>1. CASE TakeOp
  <2>1. cur' \in Ops /\ actions' \in Seq(Ops) /\ Len(actions') <= ActionsCap
    <3>1. actions \in Seq(Ops) /\ Len(actions) <= ActionsCap /\ actions # <<>>
      BY <1>1 DEF TakeOp, TypeOK
    <3>2. Head(actions) \in Ops /\ Tail(actions) \in Seq(Ops)
          /\ Len(Tail(actions)) <= ActionsCap
      BY <3>1, ManagerAssumption
    <3> QED BY <1>1, <3>2, Zenon DEF TakeOp
  <2>2. tracking' \in BOOLEAN /\ override' \in BOOLEAN
    BY <1>1, Zenon DEF TakeOp, noteOrigin
  <2>3. /\ pc' = "opEnsure" /\ caller' = "op"
        /\ UNCHANGED <<mode, tracker, retried, control, timers, lastPos, posKnown, ha,
                       client, air, blind, run, history, left>>
    BY <1>1 DEF TakeOp
  <2> QED BY <2>1, <2>2, <2>3 DEF TypeOK
<1>2. CASE SelectRefresh
  <2>1. /\ refreshArmed' \in BOOLEAN /\ pc' = "refEnsure" /\ caller' = "tick"
        /\ UNCHANGED <<mode, cur, tracking, tracker, retried, queues, idleArmed, view, ha,
                       client, air, blind, run, history, left>>
    BY <1>2 DEF SelectRefresh
  <2> QED BY <2>1 DEF TypeOK
<1>3. CASE SelectIdle
  <2>1. idleArmed' \in BOOLEAN /\ Disconnect
        /\ UNCHANGED <<mode, thread, queues, refreshArmed, view, ha, reach, blind,
                       run, history, left>>
    BY <1>3 DEF SelectIdle
  <2> QED BY <2>1, DisconnectFacts DEF TypeOK
<1>4. CASE Evaluate \/ applyControl
  <2>1. evaluate /\ control' \in 0..ControlCap
    <3>1. CASE Evaluate
      BY <3>1 DEF Evaluate, TypeOK
    <3>2. CASE applyControl
      BY <3>2, ManagerAssumption DEF applyControl, TypeOK
    <3> QED BY <1>4, <3>1, <3>2
  <2>2. UNCHANGED <<mode, thread, timers, view, ha, client, air, blind, run, history>>
    BY <1>4 DEF Evaluate, applyControl
  <2>3. /\ actions' \in Seq(Ops) /\ Len(actions') <= ActionsCap
        /\ left' \in [ops : Nat, auto : Nat, remote : Nat]
    BY <2>1, EvaluateFacts
  <2> QED BY <2>1, <2>2, <2>3 DEF TypeOK
<1>5. CASE TrackTimeout
  <2>1. touched' \in BOOLEAN /\ cut' \in BOOLEAN
    BY <1>5, Zenon DEF TrackTimeout, Noticed
  <2>2. /\ publishSettled(FALSE) /\ Resume /\ UNCHANGED client
        /\ UNCHANGED <<mode, retried, queues, avail, haPos, air, blind, run,
                       moved, left>>
    BY <1>5 DEF TrackTimeout
  <2>3. Published' /\ Looping'
    BY <2>2, PublishFacts, ResumeFacts DEF TypeOK
  <2> QED BY <2>1, <2>2, <2>3 DEF TypeOK, Published, Looping
<1>6. CASE TrackDone
  <2>1. Looping'
    BY <1>6, ResumeFacts DEF TrackDone
  <2> QED BY <1>6, <2>1 DEF TrackDone, TypeOK, Looping
<1>7. CASE Exit
  <2>1. pc' = "exit" /\ UNCHANGED <<caller, cur, tracking, tracker>>
        /\ UNCHANGED <<mode, retried, queues, timers, view, ha, reach, blind,
                       run, history, left>>
    BY <1>7 DEF Exit
  <2>2. CASE Disconnect
    BY <2>1, <2>2, DisconnectFacts DEF TypeOK
  <2>3. CASE UNCHANGED <<client, link, inflight>>
    BY <2>1, <2>3 DEF TypeOK
  <2> QED BY <1>7, <2>2, <2>3 DEF Exit
<1>8. CASE Strand
  <2>1. pc' = "stranded" /\ UNCHANGED <<caller, cur, tracking, tracker>>
        /\ UNCHANGED <<mode, retried, queues, timers, view, ha, reach, blind, run,
                       history, left>>
    BY <1>8 DEF Strand
  <2>2. CASE Disconnect
    BY <2>1, <2>2, DisconnectFacts DEF TypeOK
  <2>3. CASE UNCHANGED <<client, link, inflight>>
    BY <2>1, <2>3 DEF TypeOK
  <2> QED BY <1>8, <2>2, <2>3 DEF Strand
<1> QED BY <1>1, <1>2, <1>3, <1>4, <1>5, <1>6, <1>7, <1>8 DEF Selects

\* The handlers, the notification callback and the world preserve the types.
LEMMA EnvironmentTypeOK ==
  ASSUME TypeOK, LinkKnown, Environment PROVE TypeOK'
<1> USE DEF thread, queues, timers, view, ha, client, air, blind, history, run
<1>1. ASSUME NEW op \in Ops, Submit(op) PROVE TypeOK'
  <2>1. actions' \in Seq(Ops) /\ Len(actions') <= ActionsCap
    BY <1>1, SubmitFacts DEF Submit
  <2>2. left' \in [ops : Nat, auto : Nat, remote : Nat]
    BY <1>1 DEF Submit, TypeOK
  <2> QED BY <1>1, <2>1, <2>2 DEF Submit, TypeOK
<1>2. CASE handleCommand
  BY <1>1, <1>2, OpsFacts, PositionFacts DEF handleCommand, MovingStates
<1>3. CASE handleSetPosition
  BY <1>1, <1>3, OpsFacts DEF handleSetPosition, MovingStates
<1>4. CASE handleButton
  BY <1>1, <1>4, OpsFacts DEF handleButton, MovingStates
<1>5. CASE sendControl
  <2>1. left' \in [ops : Nat, auto : Nat, remote : Nat]
    <3>1. left \in [ops : Nat, auto : Nat, remote : Nat] /\ left.ops > 0
          /\ left' = [left EXCEPT !.ops = @ - 1]
      BY <1>5 DEF sendControl, TypeOK
    <3> QED BY <3>1
  <2>2. control' \in 0..ControlCap
    BY <1>5, ManagerAssumption DEF sendControl, TypeOK
  <2>3. UNCHANGED <<mode, thread, actions, timers, view, ha, client, air, blind,
                    run, history>>
    BY <1>5 DEF sendControl
  <2> QED BY <2>1, <2>2, <2>3 DEF TypeOK
<1>6. CASE onBLEEvent
  <2>1. inflight \in Seq(Positions) /\ Len(inflight) <= 1 /\ inflight # <<>>
    BY <1>6 DEF onBLEEvent, TypeOK
  <2>2. /\ Head(inflight) \in Positions
        /\ Tail(inflight) \in Seq(Positions) /\ Len(Tail(inflight)) <= 1
    BY <2>1
  <2>3. inflight' = Tail(inflight) /\ position' = Head(inflight)
        /\ haPos' = toHA(Head(inflight), Invert)
    BY <1>6 DEF onBLEEvent
  <2>4. inflight' \in Seq(Positions) /\ Len(inflight') <= 1 /\ position' \in Positions
    BY <2>2, <2>3, Zenon
  <2>5. haPos' \in 0..100
    BY <2>2, <2>3, ToHAInRange
  <2> QED BY <1>6, <2>4, <2>5 DEF onBLEEvent, TypeOK
<1>7. CASE Cancel
  BY <1>7 DEF Cancel, TypeOK
<1>8. CASE MotorStep
  BY <1>8, ManagerAssumption DEF MotorStep, TypeOK
<1>9. CASE RemoteMove
  BY <1>9 DEF RemoteMove, TypeOK
<1>10. CASE LinkDrop
  <2>1. link' \in BOOLEAN
    BY <1>10 DEF LinkDrop
  <2>2. UNCHANGED <<mode, thread, queues, timers, view, ha, client, reach, inflight,
                    blind, run, history, left>>
    BY <1>10 DEF LinkDrop
  <2> QED BY <2>1, <2>2 DEF TypeOK
<1>11. CASE ReachChanges
  <2>1. link' \in BOOLEAN /\ reach' \in BOOLEAN
    BY <1>11, Zenon DEF ReachChanges
  <2>2. UNCHANGED <<mode, thread, queues, timers, view, ha, client, inflight, blind,
                    run, history, left>>
    BY <1>11 DEF ReachChanges
  <2> QED BY <2>1, <2>2 DEF TypeOK
<1>12. CASE OverrideExpires
  <2>1. override' \in BOOLEAN
    BY <1>12 DEF OverrideExpires
  <2>2. UNCHANGED <<mode, thread, queues, timers, lastPos, posKnown, ha, client, air,
                    blind, run, history, left>>
    BY <1>12 DEF OverrideExpires
  <2> QED BY <2>1, <2>2 DEF TypeOK
<1>13. CASE ShutdownOffline
  BY <1>13 DEF ShutdownOffline, TypeOK
<1>14. CASE ShutdownDisconnect
  <2>1. shutdown' = "done" /\ Disconnect
        /\ UNCHANGED <<mode, thread, queues, timers, view, ha, reach, blind, cancelled,
                       history, left>>
    BY <1>14 DEF ShutdownDisconnect
  <2> QED BY <2>1, DisconnectFacts DEF TypeOK
<1> QED
  BY <1>2, <1>3, <1>4, <1>5, <1>6, <1>7, <1>8, <1>9, <1>10, <1>11, <1>12, <1>13, <1>14
  DEF Environment

-----------------------------------------------------------------------------
(* The link.                                                                  *)

\* The steps that wait for the radio keep link, timers and availability in agreement.
LEMMA StepsLinkInv ==
  ASSUME TypeOK, LinkInv, Steps PROVE LinkInv'
<1> USE DEF LinkInv, LinkKnown, IdleTimerGuardsLink, PollKeepsScheduled, ConnectedShownOnline,
            ReconnectsOnlyWhenDown, ExitDropsLink, onDemand, run
<1>1. CASE Connect
  BY <1>1 DEF Connect, ConnectOk, ConnectFails
<1>2. CASE Backoff
  BY <1>2 DEF Backoff, Goto, client, air, ha
<1>3. CASE OpEnsure
  BY <1>3, EnsureFacts DEF OpEnsure, Goto
<1>4. CASE OpSend
  <2>1. /\ link' => connected'
        /\ connected' /\ ~cancelled' => avail' = "online"
    <3> cancelled' = cancelled
      BY <1>4 DEF OpSend
    <3>1. CASE /\ SendOk /\ UNCHANGED <<client, link>>
               /\ avail' = IF tracking THEN avail ELSE "online"
      BY <3>1 DEF client
    <3>2. CASE SendFails /\ UNCHANGED avail
      BY <3>2, SendFailsFacts
    <3> QED BY <1>4, <3>1, <3>2 DEF OpSend
  <2>2. CASE Resume
    BY <1>4, <2>1, <2>2, ResumeFacts DEF OpSend, Looping
  <2>3. CASE pc' \in {"track", "refEnsure"}
    BY <2>1, <2>3
  <2> QED BY <1>4, <2>2, <2>3 DEF OpSend, AfterOp
<1>5. CASE Reconnect
  BY <1>5, SendReconnectsFacts DEF Reconnect
<1>6. CASE TrackTick
  BY <1>6, EnsureFacts DEF TrackTick, Goto
<1>7. CASE TickSend
  <2>1. CASE UNCHANGED <<client, link>>
    BY <1>7, <2>1 DEF TickSend, Goto, client, ha
  <2>2. CASE SendFails
    BY <1>7, <2>2, SendFailsFacts DEF TickSend, Goto, ha
  <2> QED BY <1>7, <2>1, <2>2 DEF TickSend
<1>8. CASE TickRead
  <2>1. CASE Resume
    BY <1>8, <2>1, ResumeFacts DEF TickRead, Looping, client, air
  <2>2. CASE pc' = "track"
    BY <1>8, <2>2 DEF TickRead, client, air
  <2> QED BY <1>8, <2>1, <2>2 DEF TickRead
<1>9. CASE RefreshEnsure
  BY <1>9, EnsureFacts DEF RefreshEnsure, Goto
<1>10. CASE RefreshSend
  <2>1. CASE Goto("refWait") /\ UNCHANGED <<client, link, avail>>
    BY <1>10, <2>1 DEF RefreshSend, Goto, client
  <2>2. CASE pollFails
    BY <1>10, <2>2, DisconnectFacts DEF pollFails
  <2>3. CASE SendFails /\ Resume /\ UNCHANGED avail
    BY <1>10, <2>3, SendFailsFacts, ResumeFacts DEF RefreshSend, Looping
  <2> QED BY <1>10, <2>1, <2>2, <2>3 DEF RefreshSend
<1>11. CASE RefreshWait
  BY <1>11, ResumeFacts DEF RefreshWait, Looping, client, air
<1> QED
  BY <1>1, <1>2, <1>3, <1>4, <1>5, <1>6, <1>7, <1>8, <1>9, <1>10, <1>11 DEF Steps

\* So do the cases of the selects, the exit included ...
LEMMA SelectsLinkInv ==
  ASSUME TypeOK, LinkInv, Selects PROVE LinkInv'
<1> USE DEF LinkInv, LinkKnown, IdleTimerGuardsLink, PollKeepsScheduled, ConnectedShownOnline,
            ReconnectsOnlyWhenDown, ExitDropsLink, onDemand, run
<1>1. CASE TakeOp
  BY <1>1 DEF TakeOp, client, air, ha
<1>2. CASE SelectRefresh
  BY <1>2 DEF SelectRefresh, client, air, ha
<1>3. CASE SelectIdle
  BY <1>3, DisconnectFacts DEF SelectIdle, thread, ha
<1>4. CASE Evaluate \/ applyControl
  BY <1>4 DEF Evaluate, applyControl, thread, timers, client, air, ha
<1>5. CASE TrackTimeout
  BY <1>5, ResumeFacts DEF TrackTimeout, Looping, client, air
<1>6. CASE TrackDone
  BY <1>6, ResumeFacts DEF TrackDone, Looping, client, air, ha
<1>7. CASE Exit
  <2>1. CASE onDemand
    BY <1>7, <2>1, DisconnectFacts DEF Exit, Goto, ha
  <2>2. CASE ~onDemand
    BY <1>7, <2>2 DEF Exit, Goto, client, ha
  <2> QED BY <2>1, <2>2
<1>8. CASE Strand
  <2>1. pc' = "stranded" /\ cancelled' /\ UNCHANGED <<mode, avail>>
    BY <1>8 DEF Strand, Goto, ha
  <2>2. CASE Disconnect
    BY <2>1, <2>2, DisconnectFacts
  <2>3. CASE UNCHANGED <<client, link, inflight>>
    BY <2>1, <2>3 DEF client
  <2> QED BY <1>8, <2>2, <2>3 DEF Strand
<1> QED BY <1>1, <1>2, <1>3, <1>4, <1>5, <1>6, <1>7, <1>8 DEF Selects

\* ... and everything else, which never brings a link up.
LEMMA EnvironmentLinkInv ==
  ASSUME TypeOK, LinkInv, Environment PROVE LinkInv'
<1>1. /\ UNCHANGED <<mode, thread, timers>>
      /\ link' = link \/ link' = FALSE
      /\ UNCHANGED connected \/ (~connected' /\ ~link')
      /\ avail' \in {avail, "online"} \/ cancelled
      /\ cancelled => cancelled'
  <2>1. CASE ShutdownDisconnect
    BY <2>1, DisconnectFacts DEF ShutdownDisconnect, ha, LinkInv
  <2>2. CASE ~ShutdownDisconnect
    BY <2>2
    DEF Environment, handleCommand, handleSetPosition, handleButton, Submit, sendControl,
        onBLEEvent, Cancel, ShutdownOffline, MotorStep, RemoteMove, LinkDrop, ReachChanges,
        OverrideExpires, air, client, ha, run
  <2> QED BY <2>1, <2>2
<1> QED BY <1>1
  DEF LinkInv, LinkKnown, IdleTimerGuardsLink, PollKeepsScheduled, ConnectedShownOnline,
      ReconnectsOnlyWhenDown, ExitDropsLink, onDemand, thread, timers

-----------------------------------------------------------------------------
(* Movements.                                                                 *)

\* A step shows a movement only when it goes on to track it.
LEMMA StepsMovementInv ==
  ASSUME TypeOK, LinkKnown, MovementInv, Steps PROVE MovementInv'
<1> USE RestingIsNotMoving DEF MovementInv, MovingWhileTracked, StateAnnounced, run
<1>1. CASE Connect
  BY <1>1 DEF Connect
<1>2. CASE Backoff
  BY <1>2 DEF Backoff, Goto, ha
<1>3. CASE OpEnsure
  BY <1>3 DEF OpEnsure, Goto
<1>4. CASE OpSend
  <2>1. CASE cur.track /\ pc' = "track"
    BY <2>1
  <2>2. CASE publishSettled(FALSE) /\ Resume
    <3>1. position' \in Positions
      BY <1>4, OpSendFacts
    <3> QED BY <2>2, <3>1, PublishFacts, ResumeFacts DEF Published, Looping
  <2>3. CASE ~cur.track /\ pc' = "refEnsure" /\ UNCHANGED haState
    <3>1. haState' = "stopped"
      BY <1>4, <2>3, OpsFacts DEF OpSend, TypeOK
    <3> QED BY <2>3, <3>1 DEF MovingStates
  <2> QED BY <1>4, <2>1, <2>2, <2>3 DEF OpSend, AfterOp
<1>5. CASE Reconnect
  BY <1>5 DEF Reconnect
<1>6. CASE TrackTick \/ TickSend
  BY <1>6 DEF TrackTick, TickSend, Goto, ha
<1>7. CASE TickRead
  <2>1. CASE publishSettled(FALSE) /\ Resume
    BY <1>7, <2>1, PublishFacts, ResumeFacts DEF TickRead, TypeOK, client, Published, Looping
  <2>2. CASE pc' = "track"
    BY <2>2
  <2> QED BY <1>7, <2>1, <2>2 DEF TickRead
<1>8. CASE RefreshEnsure
  BY <1>8 DEF RefreshEnsure, Goto
<1>9. CASE RefreshSend
  <2>1. haState \in MovingStates => cancelled
    BY <1>9 DEF RefreshSend
  <2>2. pc' \in {"refWait", "top", "select"}
    BY <1>9 DEF RefreshSend, Goto, pollFails, Resume
  <2> QED BY <1>9, <2>1, <2>2 DEF RefreshSend, history
<1>10. CASE RefreshWait
  <2>1. PICK poll \in BOOLEAN : publishSettled(poll)
    BY <1>10 DEF RefreshWait
  <2> QED
    BY <1>10, <2>1, PublishFacts, ResumeFacts DEF RefreshWait, TypeOK, client, Published, Looping
<1> QED
  BY <1>1, <1>2, <1>3, <1>4, <1>5, <1>6, <1>7, <1>8, <1>9, <1>10 DEF Steps

\* A command taken from inside a movement is marked as such; a timeout ends it.
LEMMA SelectsMovementInv ==
  ASSUME TypeOK, MovementInv, Selects PROVE MovementInv'
<1> USE RestingIsNotMoving DEF MovementInv, MovingWhileTracked, StateAnnounced, run
<1>1. CASE TakeOp
  BY <1>1 DEF TakeOp, ha
<1>2. CASE SelectRefresh
  BY <1>2 DEF SelectRefresh, ha
<1>3. CASE SelectIdle
  BY <1>3 DEF SelectIdle, thread, ha
<1>4. CASE Evaluate \/ applyControl
  BY <1>4 DEF Evaluate, applyControl, thread, ha
<1>5. CASE TrackTimeout
  BY <1>5, PublishFacts, ResumeFacts DEF TrackTimeout, TypeOK, client, Published, Looping
<1>6. CASE TrackDone
  BY <1>6, ResumeFacts DEF TrackDone, Looping
<1>7. CASE Exit \/ Strand
  BY <1>7 DEF Exit, Strand, Goto
<1> QED BY <1>1, <1>2, <1>3, <1>4, <1>5, <1>6, <1>7 DEF Selects

\* Nothing but the goroutine moves it or publishes cover states.
LEMMA EnvironmentMovementInv ==
  ASSUME TypeOK, MovementInv, Environment PROVE MovementInv'
<1>1. UNCHANGED <<thread, haState>> /\ (cancelled => cancelled')
  BY DEF Environment, handleCommand, handleSetPosition, handleButton, Submit, sendControl,
         onBLEEvent, Cancel, ShutdownOffline, ShutdownDisconnect, MotorStep, RemoteMove,
         LinkDrop, ReachChanges, OverrideExpires, ha, run
<1> QED BY <1>1 DEF MovementInv, MovingWhileTracked, StateAnnounced, thread

-----------------------------------------------------------------------------
(* The theorems.                                                              *)

\* Every step preserves the invariant.
LEMMA NextIInv == IInv /\ [Next]_vars => IInv'
<1> SUFFICES ASSUME IInv, [Next]_vars PROVE IInv'
  OBVIOUS
<1>1. TypeOK /\ LinkInv /\ MovementInv /\ LinkKnown
  BY DEF IInv, LinkInv
<1>2. CASE Steps
  BY <1>1, <1>2, StepsTypeOK, StepsLinkInv, StepsMovementInv DEF IInv
<1>3. CASE Selects
  BY <1>1, <1>3, SelectsTypeOK, SelectsLinkInv, SelectsMovementInv DEF IInv
<1>4. CASE Environment
  BY <1>1, <1>4, EnvironmentTypeOK, EnvironmentLinkInv, EnvironmentMovementInv DEF IInv
<1>5. CASE UNCHANGED vars
  <2> USE <1>5 DEF vars, thread, queues, timers, view, ha, client, air, blind, history, run
  <2>1. TypeOK'
    BY <1>1 DEF TypeOK
  <2>2. LinkInv'
    BY <1>1 DEF LinkInv, LinkKnown, IdleTimerGuardsLink, PollKeepsScheduled, onDemand,
                ConnectedShownOnline, ReconnectsOnlyWhenDown, ExitDropsLink
  <2>3. MovementInv'
    BY <1>1 DEF MovementInv, MovingWhileTracked, StateAnnounced
  <2> QED BY <2>1, <2>2, <2>3 DEF IInv
<1> QED BY <1>2, <1>3, <1>4, <1>5 DEF Next

\* The invariant holds in every reachable state, for all values of the constants.
THEOREM InvariantHolds == Spec => []IInv
  BY InitIInv, NextIInv, PTL DEF Spec

\* Every variable of the manager, its queues and the radio keeps its type; no queue
\* grows beyond its capacity (newManager's channels, submit, sendControl).
THEOREM TypeCorrect == Spec => []TypeOK
<1>1. IInv => TypeOK BY DEF IInv
<1> QED BY <1>1, InvariantHolds, PTL

\* An on-demand manager that waits has the timers running that it needs: the idle timer
\* with the link up, the refresh timer if it polls (scheduleRefresh).
THEOREM TimersArmedHolds == Spec => []TimersArmed
<1>1. IInv => TimersArmed
  BY DEF IInv, LinkInv, TimersArmed
<1> QED BY <1>1, InvariantHolds, PTL

\* Until Run is told to end, a blind that is connected and logged in is never shown
\* offline (ensureConnected, onBLEEvent).
THEOREM ConnectedShownOnlineHolds == Spec => []ConnectedShownOnline
<1>1. IInv => ConnectedShownOnline BY DEF IInv, LinkInv
<1> QED BY <1>1, InvariantHolds, PTL

\* A manager that is through with a connection has dropped the link: a persistent one
\* before it connects anew, an on-demand one when it returns (pollLoop, runOnDemand).
THEOREM LinkDroppedFirstHolds == Spec => []LinkDroppedFirst
<1>1. IInv => LinkDroppedFirst
  BY DEF IInv, LinkInv, LinkDroppedFirst
<1> QED BY <1>1, InvariantHolds, PTL

\* Home Assistant is never left with a movement, however commands, timeouts and
\* failures interleave (runOp, trackUntilSettled).
THEOREM MovementConcludedHolds == Spec => []MovementConcluded
<1>1. IInv => MovementConcluded
  BY DEF IInv, MovementInv, MovingWhileTracked, MovementConcluded
<1> QED BY <1>1, InvariantHolds, PTL

\* In command-only mode the refresh timer is never armed again (scheduleRefresh).
THEOREM CommandOnlyHolds == Spec => CommandOnlyNeverPolls
<1> DEFINE A == mode = "command" /\ ~refreshArmed => ~refreshArmed'
<1>1. ASSUME TypeOK, Next PROVE A
  <2>1. ASSUME Resume PROVE A
    BY <1>1, <2>1, ResumeFacts
  <2>2. CASE Steps
    BY <2>1, <2>2
    DEF Steps, Connect, Backoff, OpEnsure, OpSend, AfterOp, Reconnect, TrackTick, TickSend,
        TickRead, RefreshEnsure, RefreshSend, RefreshWait, pollFails, timers
  <2>3. CASE Selects
    BY <2>1, <2>3
    DEF Selects, TakeOp, SelectRefresh, SelectIdle, Evaluate, applyControl, TrackTimeout,
        TrackDone, Exit, Strand, timers
  <2>4. CASE Environment
    BY <2>4
    DEF Environment, handleCommand, handleSetPosition, handleButton, Submit, sendControl,
        onBLEEvent, Cancel, ShutdownOffline, ShutdownDisconnect, MotorStep, RemoteMove,
        LinkDrop, ReachChanges, OverrideExpires, timers
  <2> QED BY <1>1, <2>2, <2>3, <2>4 DEF Next
<1>2. TypeOK /\ [Next]_vars => [A]_vars
  BY <1>1
<1> QED BY <1>2, TypeCorrect, PTL DEF Spec, CommandOnlyNeverPolls

-----------------------------------------------------------------------------
(* The refinement.                                                            *)

\* Publishing the settled position shows a cover at rest.
LEMMA PublishedRests ==
  ASSUME TypeOK, NEW poll \in BOOLEAN, publishSettled(poll),
         position' \in Positions, pc' \notin Operating, UNCHANGED cancelled
  PROVE  C!Rest
<1>1. /\ lastPos' = toHA(position', Invert)
      /\ haState' = restingState(toHA(position', Invert))
  BY DEF publishSettled
<1>2. lastPos' \in 0..100
  BY <1>1, ToHAInRange
<1>3. restingState(lastPos') = C!Rests(lastPos')
  BY <1>2 DEF restingState, C!Rests
<1> QED
  BY <1>1, <1>2, <1>3 DEF C!Rest, C!Percent

\* A step that shows nothing new and neither takes an op nor ends one.
LEMMA UnseenStutters ==
  ASSUME UNCHANGED <<haState, lastPos, cancelled>>, (pc \in Operating) = (pc' \in Operating)
  PROVE  UNCHANGED C!vars
  BY DEF C!vars

LEMMA StepsImplement ==
  ASSUME TypeOK, LinkKnown, MovementInv, Steps
  PROVE  C!Next \/ UNCHANGED C!vars
<1> USE DEF Operating, run
<1>1. CASE Connect \/ Backoff \/ Reconnect \/ TrackTick \/ TickSend \/ RefreshEnsure
  <2>1. UNCHANGED <<haState, lastPos, cancelled>>
    BY <1>1 DEF Connect, Backoff, Reconnect, TrackTick, TickSend, RefreshEnsure, ha, view
  <2>2. (pc \in Operating) = (pc' \in Operating)
    BY <1>1 DEF Connect, Backoff, Reconnect, TrackTick, TickSend, RefreshEnsure, Goto
  <2> QED
    BY <2>1, <2>2, UnseenStutters
<1>2. CASE OpEnsure
  <2>1. pc = "opEnsure" /\ pc' = "opSend" /\ haState' = cur.state /\ UNCHANGED <<lastPos, cancelled>>
    BY <1>2 DEF OpEnsure, Goto, view
  <2>2. cur.state \in MovingStates \cup {"stopped"}
    BY OpsFacts DEF TypeOK
  <2> QED
    BY <2>1, <2>2 DEF C!Next, C!Announce, C!Moving, MovingStates
<1>3. CASE OpSend
  <2>1. CASE pc' = "track" /\ UNCHANGED <<view, haState>>
    BY <1>3, <2>1, UnseenStutters DEF OpSend, view
  <2>2. CASE publishSettled(FALSE) /\ Resume
    BY <1>3, <2>2, OpSendFacts, PublishedRests DEF OpSend, Resume, C!Next
  <2>3. CASE ~cur.track /\ pc' = "refEnsure" /\ UNCHANGED <<view, haState>>
    <3>1. haState = "stopped"
      BY <1>3, <2>3, OpsFacts DEF OpSend, TypeOK, MovementInv, StateAnnounced
    <3> QED
      BY <1>3, <2>3, <3>1 DEF OpSend, view, C!Next, C!Leave, C!Moving
  <2> QED
    BY <1>3, <2>1, <2>2, <2>3 DEF OpSend, AfterOp
<1>4. CASE TickRead
  <2>1. CASE publishSettled(FALSE) /\ Resume
    BY <1>4, <2>1, PublishedRests DEF TickRead, Resume, TypeOK, client, C!Next
  <2>2. CASE pc' = "track" /\ UNCHANGED <<view, haState>>
    BY <1>4, <2>2, UnseenStutters DEF TickRead, view
  <2> QED
    BY <1>4, <2>1, <2>2 DEF TickRead
<1>5. CASE RefreshSend
  <2>1. UNCHANGED <<haState, lastPos, cancelled>>
    BY <1>5 DEF RefreshSend, view
  <2>2. pc = "refSend" /\ pc' \in {"refWait", "top", "select"}
    BY <1>5 DEF RefreshSend, Goto, pollFails, Resume
  <2> QED
    BY <2>1, <2>2, UnseenStutters
<1>6. CASE RefreshWait
  <2>1. PICK poll \in BOOLEAN : publishSettled(poll)
    BY <1>6 DEF RefreshWait
  <2> QED
    BY <1>6, <2>1, PublishedRests DEF RefreshWait, Resume, TypeOK, client, C!Next
<1> QED
  BY <1>1, <1>2, <1>3, <1>4, <1>5, <1>6 DEF Steps

LEMMA SelectsImplement ==
  ASSUME TypeOK, Selects
  PROVE  C!Next \/ UNCHANGED C!vars
<1> USE DEF Operating, run
<1>1. CASE TakeOp
  <2>1. UNCHANGED <<haState, lastPos, cancelled>> /\ pc' = "opEnsure" /\ pc \in {"select", "track"}
    BY <1>1 DEF TakeOp, ha
  <2>2. CASE pc = "select"
    BY <2>1, <2>2 DEF C!Next, C!Attend
  <2>3. CASE pc = "track"
    BY <2>1, <2>3, UnseenStutters
  <2> QED
    BY <2>1, <2>2, <2>3
<1>2. CASE SelectRefresh \/ SelectIdle \/ Evaluate \/ applyControl \/ Exit
  <2>1. UNCHANGED <<haState, lastPos, cancelled>>
    BY <1>2 DEF SelectRefresh, SelectIdle, Evaluate, applyControl, Exit, ha, view
  <2>2. pc \notin Operating /\ pc' \notin Operating
    BY <1>2 DEF SelectRefresh, SelectIdle, Evaluate, applyControl, Exit, Goto, thread
  <2> QED
    BY <2>1, <2>2, UnseenStutters
<1>3. CASE TrackTimeout
  BY <1>3, PublishedRests DEF TrackTimeout, Resume, TypeOK, client, C!Next
<1>4. CASE TrackDone
  BY <1>4 DEF TrackDone, Resume, ha, view, C!Next, C!Leave
<1>5. CASE Strand
  <2>1. UNCHANGED <<haState, lastPos, cancelled>> /\ pc' = "stranded" /\ cancelled
    BY <1>5 DEF Strand, Goto, ha, view
  <2>2. CASE pc \in Operating
    BY <2>1, <2>2 DEF C!Next, C!Leave
  <2>3. CASE pc \notin Operating
    BY <2>1, <2>3, UnseenStutters
  <2> QED
    BY <2>2, <2>3
<1> QED
  BY <1>1, <1>2, <1>3, <1>4, <1>5 DEF Selects

LEMMA EnvironmentImplements ==
  ASSUME TypeOK, Environment
  PROVE  C!Next \/ UNCHANGED C!vars
<1>1. CASE Cancel
  BY <1>1 DEF Cancel, thread, view, ha, C!Next, C!End
<1>2. CASE ~Cancel
  <2>1. UNCHANGED <<pc, haState, lastPos, cancelled>>
    BY <1>2 DEF Environment, handleCommand, handleSetPosition, handleButton, Submit,
      sendControl, onBLEEvent, ShutdownOffline, ShutdownDisconnect, MotorStep, RemoteMove,
      LinkDrop, ReachChanges, OverrideExpires, thread, view, ha, run
  <2> QED
    BY <2>1, UnseenStutters
<1> QED
  BY <1>1, <1>2

\* The manager implements the abstract cover, whatever the radio does: a movement is
\* shown only while it is attended to, and Home Assistant and the controller are told
\* the same of a blind at rest (runOp, trackUntilSettled, refreshState, observe).
THEOREM ImplementsCoverHolds == Spec => ImplementsCover
<1>1. Init => C!Init
  BY DEF Init, C!Init, Operating, onDemand
<1>2. IInv /\ [Next]_vars => [C!Next]_C!vars
  <2>1. CASE UNCHANGED vars
    <3>1. UNCHANGED C!vars
      BY <2>1 DEF vars, thread, view, ha, run, C!vars
    <3> QED
      BY <3>1
  <2>2. ASSUME IInv, Next PROVE C!Next \/ UNCHANGED C!vars
    BY <2>2, StepsImplement, SelectsImplement, EnvironmentImplements DEF IInv, LinkInv, Next
  <2> QED
    BY <2>1, <2>2
<1> QED
  BY <1>1, <1>2, InvariantHolds, PTL DEF Spec, ImplementsCover, C!Spec

-----------------------------------------------------------------------------
(* A reliable radio.  While nobody else moves the blind, what is shown of it at rest *)
(* is where it is, and no observation looks like somebody else's move.               *)

\* What the client makes of the blind once every reply on its way is in.
LastReply == IF inflight = <<>> THEN position ELSE Head(inflight)

\* No command is under way, or one that does not interrupt a movement is taken.
AtRest ==
  \/ pc \in {"top", "backoff", "select", "refEnsure", "refSend", "refWait"}
  \/ pc \in {"opEnsure", "opSend"} /\ ~tracking

\* Where the goroutine relies on the link.
OnAir == {"opSend", "track", "tickSend", "tickRead", "refSend", "refWait"}

\* The radio link is what the client believes, and is there when it is needed.
LinkSteady ==
  /\ reach
  /\ link = connected
  /\ ~cancelled /\ pc \in OnAir => connected

\* A blind that nobody touched rests; if no STOP cut its last movement short either, it
\* does where it was last seen, and no reply on its way says otherwise.
RestKnown ==
  AtRest /\ ~touched =>
    /\ motor = goal
    /\ ~cut =>
         /\ inflight \in {<<>>, <<motor>>}
         /\ posKnown => lastPos = toHA(motor, Invert) /\ haPos = toHA(motor, Invert)

RestShown ==
  pc = "select" /\ posKnown /\ ~touched /\ ~cut => haState = restingState(toHA(motor, Invert))

\* A refresh reads the reply to its own request.
RefreshAnswered ==
  pc = "refWait" =>
    /\ inflight = <<>> => haPos = toHA(position, Invert)
    /\ ~touched => LastReply = motor

\* A tracker without a position has no samples.
TrackerNew == tracker.last = -1 => tracker = newSettleTracker

\* Once a status was asked for, the blind goes on from the last reply to its goal.
ReplyAlong ==
  /\ pc = "tickRead" \/ (pc \in {"track", "tickSend"} /\ tracker # newSettleTracker)
  /\ ~touched
  => /\ motor \in LastReply..goal \cup goal..LastReply
     /\ moved => LastReply # motor
     /\ ~moved => LastReply = motor

\* From the second sample on the position that is shown is the one that is read.
PositionShown ==
  /\ pc \in {"tickSend", "tickRead"} /\ tracker # newSettleTracker =>
       haPos = toHA(position, Invert)
  /\ pc = "track" /\ tracker # newSettleTracker =>
       inflight # <<>> \/ haPos = toHA(position, Invert)
  /\ pc = "tickRead" => inflight # <<>>

\* Of two replies in a row one shows another position, unless the blind has stopped.
SecondSample ==
  /\ pc = "tickRead" /\ tracker # newSettleTracker /\ ~touched =>
       \/ motor = goal /\ inflight = <<motor>>
       \/ Head(inflight) # position
  /\ pc \in {"track", "tickSend"} /\ tracker.stable >= 1 /\ ~touched =>
       \/ motor = goal /\ LastReply = motor
       \/ LastReply # tracker.last

\* So three equal samples are those of a blind that has stopped.
ThirdSample ==
  pc = "tickRead" /\ tracker.stable >= 1 /\ position = tracker.last /\ ~touched =>
    motor = goal /\ position = motor /\ inflight = <<motor>>

TrackingTrue ==
  TrackerNew /\ ReplyAlong /\ PositionShown /\ SecondSample /\ ThirdSample

Truth == RestKnown /\ RestShown /\ RefreshAnswered /\ TrackingTrue

\* The inductive invariant of a manager with a reliable radio, until it is cancelled.
ReliableInv == LinkSteady /\ (~cancelled => Truth)

\* At most one reply is on its way, and the last one is a position.
LEMMA InflightFacts ==
  ASSUME TypeOK
  PROVE  /\ inflight # <<>> => Head(inflight) \in Positions /\ Tail(inflight) = <<>>
         /\ LastReply \in Positions
<1>1. inflight \in Seq(Positions) /\ Len(inflight) <= 1 /\ position \in Positions
  BY DEF TypeOK
<1>2. ASSUME inflight # <<>>
      PROVE  Head(inflight) \in Positions /\ Tail(inflight) = <<>>
  <2>1. Len(inflight) \in Nat \ {0}
    BY <1>1, <1>2, EmptySeq, Zenon
  <2>2. /\ Head(inflight) \in Positions
        /\ Tail(inflight) \in Seq(Positions) /\ Len(Tail(inflight)) = Len(inflight) - 1
    BY <1>1, <1>2, HeadTailProperties, Zenon
  <2>3. Len(Tail(inflight)) = 0
    BY <1>1, <2>1, <2>2
  <2>4. Tail(inflight) = <<>>
    BY <2>2, <2>3, EmptySeq, 0 \notin Nat \ {0}, Zenon
  <2> QED BY <2>2, <2>4
<1> QED BY <1>1, <1>2 DEF LastReply

\* With a steady link nothing fails while the manager is not cancelled.
LEMMA NothingFails ==
  ASSUME Reliable, LinkSteady, ~cancelled
  PROVE  /\ ~ConnectFails
         /\ pc \in OnAir => ~WriteFails
         /\ ~LinkDrop /\ ~ReachChanges /\ ~TrackTimeout /\ ~TrackDone /\ ~Exit /\ ~Strand
         /\ ~ShutdownOffline /\ ~ShutdownDisconnect
BY DEF LinkSteady, ConnectFails, WriteFails, LinkDrop, ReachChanges, TrackTimeout,
       TrackDone, Exit, Strand, ShutdownOffline, ShutdownDisconnect

LEMMA SendsSucceed ==
  ASSUME Reliable, LinkSteady, ~cancelled, pc \in OnAir
  PROVE  ~SendFails /\ ~pollFails /\ ~SendReconnects
BY NothingFails DEF SendFails, pollFails, SendGivesUp, SendReconnects

\* Disconnecting drops the link that the client knows of; nothing else does.
LEMMA DisconnectSteady ==
  ASSUME connected \in BOOLEAN, link = connected, Disconnect PROVE link' = connected'
BY DEF Disconnect

LEMMA SendFailsSteady ==
  ASSUME connected \in BOOLEAN, link = connected, SendFails PROVE link' = connected'
BY DisconnectSteady DEF SendFails

LEMMA EnsureSteady ==
  ASSUME link = connected, reach, ensureConnected
  PROVE  link' = connected' /\ (~cancelled => connected' /\ position' = position)
<1>1. CASE connected /\ UNCHANGED <<connected, position, link>>
  BY <1>1
<1>2. CASE ConnectOk /\ UNCHANGED position
  BY <1>2 DEF ConnectOk
<1>3. CASE ConnectFails
  BY <1>3 DEF ConnectFails
<1> QED BY <1>1, <1>2, <1>3 DEF ensureConnected

\* The link stays steady.
LEMMA LinkSteadyStep ==
  ASSUME Reliable, TypeOK, LinkSteady, Next PROVE LinkSteady'
<1> USE DEF LinkSteady, OnAir, run
<1> connected \in BOOLEAN
  BY DEF TypeOK
<1>1. CASE Connect
  BY <1>1 DEF Connect, ConnectOk, ConnectFails
<1>2. CASE Backoff
  BY <1>2 DEF Backoff, Goto, client, air
<1>3. CASE OpEnsure
  BY <1>3, EnsureSteady DEF OpEnsure, Goto
<1>4. CASE OpSend
  <2>1. CASE SendOk /\ UNCHANGED <<client, link, inflight>>
    BY <1>4, <2>1 DEF OpSend, SendOk, client
  <2>2. CASE SendFails
    BY <1>4, <2>2, SendFailsSteady, SendsSucceed DEF OpSend
  <2> QED BY <1>4, <2>1, <2>2 DEF OpSend
<1>5. CASE Reconnect
  BY <1>5 DEF Reconnect, SendReconnects, ConnectOk
<1>6. CASE TrackTick
  BY <1>6, EnsureSteady DEF TrackTick, Goto
<1>7. CASE TickSend
  <2>1. CASE SendOk /\ UNCHANGED <<client, link>>
    BY <1>7, <2>1 DEF TickSend, SendOk, client
  <2>2. CASE SendFails
    BY <1>7, <2>2, SendFailsSteady, SendsSucceed DEF TickSend
  <2> QED BY <1>7, <2>1, <2>2 DEF TickSend
<1>8. CASE TickRead
  BY <1>8 DEF TickRead, client, air
<1>9. CASE RefreshEnsure
  BY <1>9, EnsureSteady DEF RefreshEnsure, Goto
<1>10. CASE RefreshSend
  <2>1. CASE SendOk /\ UNCHANGED <<client, link>>
    BY <1>10, <2>1 DEF RefreshSend, SendOk, client
  <2>2. CASE pollFails
    BY <1>10, <2>2, DisconnectSteady, SendsSucceed DEF RefreshSend, pollFails
  <2>3. CASE SendFails
    BY <1>10, <2>3, SendFailsSteady, SendsSucceed DEF RefreshSend
  <2> QED BY <1>10, <2>1, <2>2, <2>3 DEF RefreshSend
<1>11. CASE RefreshWait
  BY <1>11 DEF RefreshWait, client, air
<1>12. CASE TakeOp
  BY <1>12 DEF TakeOp, client, air
<1>13. CASE SelectRefresh
  BY <1>13 DEF SelectRefresh, client, air
<1>14. CASE SelectIdle
  BY <1>14, DisconnectSteady DEF SelectIdle, thread
<1>15. CASE Evaluate \/ applyControl
  BY <1>15 DEF Evaluate, applyControl, thread, client, air
<1>16. CASE TrackTimeout
  BY <1>16 DEF TrackTimeout
<1>17. CASE TrackDone
  BY <1>17 DEF TrackDone, client, air
<1>18. CASE Exit
  BY <1>18, DisconnectSteady DEF Exit, client
<1>19. CASE Strand
  <2>1. cancelled' /\ UNCHANGED reach
    BY <1>19 DEF Strand
  <2> QED BY <1>19, <2>1, DisconnectSteady DEF Strand, client
<1>20. CASE ShutdownDisconnect
  <2>1. cancelled /\ cancelled' /\ UNCHANGED reach /\ Disconnect
    BY <1>20 DEF ShutdownDisconnect
  <2> QED BY <2>1, DisconnectSteady
<1>21. CASE Environment /\ ~ShutdownDisconnect
  <2>1. ~LinkDrop /\ ~ReachChanges
    BY Zenon DEF LinkDrop, ReachChanges
  <2>2. UNCHANGED <<pc, connected, link, reach>>
    BY <1>21, <2>1 DEF Environment, handleCommand, handleSetPosition, handleButton, Submit,
       sendControl, onBLEEvent, Cancel, ShutdownOffline, MotorStep, RemoteMove, OverrideExpires,
       air, client, thread
  <2>3. ~cancelled' => ~cancelled
    BY <1>21, <2>1 DEF Environment, handleCommand, handleSetPosition, handleButton, Submit,
       sendControl, onBLEEvent, Cancel, ShutdownOffline, MotorStep, RemoteMove, OverrideExpires
  <2> QED BY <2>2, <2>3
<1> QED
  BY <1>1, <1>2, <1>3, <1>4, <1>5, <1>6, <1>7, <1>8, <1>9, <1>10, <1>11, <1>12, <1>13,
     <1>14, <1>15, <1>16, <1>17, <1>18, <1>19, <1>20, <1>21 DEF Next, Steps, Selects

\* What the truth is about.
shown == <<pc, tracking, tracker, touched, cut, moved, motor, goal, inflight, position, posKnown,
           lastPos, haPos, haState>>

LEMMA TruthStutters == ASSUME Truth, UNCHANGED shown PROVE Truth'
BY DEF Truth, TrackingTrue, shown, RestKnown, RestShown, RefreshAnswered, TrackerNew,
       ReplyAlong, PositionShown, SecondSample, ThirdSample, AtRest, LastReply

\* Only the place changes, and none of those where more is known is entered.
LEMMA MovesOnAtRest ==
  ASSUME Truth, AtRest, AtRest', pc' \notin {"select", "refWait"},
         UNCHANGED <<tracker, touched, cut, motor, posKnown, lastPos, haPos>>,
         goal' \in {goal, motor}, inflight' \in {<<>>, inflight}
  PROVE  Truth'
<1>1. pc' \notin {"select", "refWait", "track", "tickSend", "tickRead"}
  BY DEF AtRest
<1>2. RestKnown'
  BY DEF Truth, RestKnown
<1>3. RestShown' /\ RefreshAnswered'
  BY <1>1 DEF RestShown, RefreshAnswered
<1>4. TrackingTrue'
  BY <1>1 DEF Truth, TrackingTrue, TrackerNew, ReplyAlong, PositionShown, SecondSample, ThirdSample
<1> QED BY <1>2, <1>3, <1>4 DEF Truth

\* An observation of the blind that is published: the truth, or somebody touched it.
LEMMA PublishedTruth ==
  ASSUME TypeOK, NEW poll \in BOOLEAN, publishSettled(poll), Noticed, Resume,
         UNCHANGED <<motor, goal, inflight, position, haPos>>,
         haPos = toHA(position, Invert),
         ~touched => /\ motor = goal /\ position = motor /\ inflight \in {<<>>, <<motor>>}
  PROVE  Truth'
<1>1. pc' = "select" /\ tracker' = newSettleTracker
  BY DEF Resume
<1>2. /\ haState' = restingState(toHA(position, Invert))
      /\ lastPos' = toHA(position, Invert)
  BY DEF publishSettled
<1>3. ASSUME ~touched'
      PROVE  motor = goal /\ position = motor /\ inflight \in {<<>>, <<motor>>}
  BY <1>3, Zenon DEF Noticed, Accurate
<1>4. RestKnown'
  BY <1>1, <1>2, <1>3 DEF RestKnown
<1>5. RestShown'
  BY <1>2, <1>3 DEF RestShown
<1>6. RefreshAnswered' /\ TrackingTrue'
  BY <1>1 DEF RefreshAnswered, TrackingTrue, TrackerNew, ReplyAlong, PositionShown,
              SecondSample, ThirdSample, newSettleTracker
<1> QED BY <1>4, <1>5, <1>6 DEF Truth

\* Asking for the status: the reply to come is where the blind is now.
LEMMA TickSendTruth ==
  ASSUME Reliable, TypeOK, LinkSteady, Truth, ~cancelled, TickSend PROVE Truth'
<1>1. /\ pc = "tickSend" /\ pc' = "tickRead"
      /\ motor = goal \/ moved \/ tracker = newSettleTracker
      /\ ~moved'
      /\ UNCHANGED <<tracker, tracking, motor, goal, touched, cut, posKnown, lastPos, haPos, haState>>
  BY DEF TickSend, Goto, view, ha, blind
<1>2. SendOk /\ Reply /\ UNCHANGED <<client, link>>
  BY <1>1, SendsSucceed DEF TickSend, OnAir
<1>3. inflight = <<>> /\ inflight' = <<motor>> /\ position' = position
  BY <1>2 DEF Reply, client
<1>4. /\ inflight' # <<>> /\ Head(inflight') = motor
      /\ LastReply = position /\ LastReply' = motor
  <2>1. Head(<<motor>>) = motor /\ <<motor>> # <<>>
    OBVIOUS
  <2> QED BY <1>3, <2>1, Zenon DEF LastReply
<1>5. motor \in Int /\ goal \in Int
  BY PositionFacts DEF TypeOK
<1>6. ReplyAlong'
  BY <1>1, <1>4, <1>5 DEF ReplyAlong
<1>7. PositionShown'
  BY <1>1, <1>3, <1>4 DEF PositionShown, Truth, TrackingTrue
<1>8. SecondSample'
  <2>1. ASSUME tracker # newSettleTracker, ~touched, motor # goal PROVE position # motor
    BY <1>1, <1>4, <2>1 DEF Truth, TrackingTrue, ReplyAlong
  <2> QED BY <1>1, <1>3, <1>4, <2>1 DEF SecondSample
<1>9. ThirdSample'
  BY <1>1, <1>3, <1>4 DEF ThirdSample, Truth, TrackingTrue, SecondSample
<1>10. TrackerNew'
  BY <1>1 DEF TrackerNew, Truth, TrackingTrue
<1>11. RestKnown' /\ RestShown' /\ RefreshAnswered'
  BY <1>1 DEF RestKnown, RestShown, RefreshAnswered, AtRest
<1> QED BY <1>6, <1>7, <1>8, <1>9, <1>10, <1>11 DEF Truth, TrackingTrue

\* A sample that does not settle, or the third equal one.
LEMMA TickReadTruth ==
  ASSUME Reliable, TypeOK, Truth, TickRead PROVE Truth'
<1> DEFINE tr == Observed(tracker, position)
<1>1. /\ pc = "tickRead" /\ inflight # <<>>
      /\ UNCHANGED <<motor, goal, inflight, haPos, position, moved>>
  BY DEF TickRead, client, air, blind, Truth, TrackingTrue, PositionShown
<1>2. tracker \in Trackers /\ position \in Positions /\ position # -1 /\ tracker.stable \in Nat
  BY PositionFacts DEF TypeOK, Trackers
<1>3. /\ position = tracker.last => /\ tr.last = position
                                    /\ tr.stable = tracker.stable + 1
                                    /\ tracker # newSettleTracker
      /\ position # tracker.last => tr.last = position /\ tr.stable = 0
  BY <1>2 DEF Observed, Trackers, newSettleTracker
<1>4. CASE IsSettled(tr)
  <2>1. position = tracker.last /\ tracker.stable >= 1 /\ tracker # newSettleTracker
    BY <1>2, <1>3, <1>4 DEF IsSettled, settleStableReads
  <2>2. haPos = toHA(position, Invert)
    BY <1>1, <2>1 DEF Truth, TrackingTrue, PositionShown
  <2>3. ~touched => motor = goal /\ position = motor /\ inflight \in {<<>>, <<motor>>}
    BY <1>1, <2>1 DEF Truth, TrackingTrue, ThirdSample
  <2>4. publishSettled(FALSE) /\ Noticed /\ Resume
    BY <1>4, Zenon DEF TickRead
  <2> HIDE DEF tr
  <2> QED BY <1>1, <2>2, <2>3, <2>4, PublishedTruth
<1>5. CASE ~IsSettled(tr)
  <2>1. /\ pc' = "track" /\ tracker' = tr
        /\ UNCHANGED <<posKnown, lastPos, haState, touched, cut>>
    BY <1>5 DEF TickRead, view
  <2>2. tracker'.last = position /\ tracker' # newSettleTracker
    BY <1>2, <1>3, <2>1 DEF newSettleTracker
  <2>3. LastReply = Head(inflight) /\ LastReply' = LastReply
    BY <1>1, Zenon DEF LastReply
  <2>4. ReplyAlong'
    BY <1>1, <2>1, <2>3 DEF ReplyAlong, Truth, TrackingTrue
  <2>5. PositionShown' /\ TrackerNew' /\ ThirdSample'
    BY <1>1, <1>2, <2>1, <2>2 DEF PositionShown, TrackerNew, ThirdSample
  <2>6. SecondSample'
    <3> SUFFICES ASSUME tracker'.stable >= 1, ~touched
                 PROVE  (motor = goal /\ LastReply = motor) \/ LastReply # position
      BY <1>1, <2>1, <2>2, <2>3 DEF SecondSample
    <3>1. tracker # newSettleTracker
      BY <1>3, <2>1
    <3>2. (motor = goal /\ inflight = <<motor>>) \/ Head(inflight) # position
      BY <1>1, <3>1 DEF Truth, TrackingTrue, SecondSample
    <3>3. inflight = <<motor>> => Head(inflight) = motor
      OBVIOUS
    <3> QED BY <2>3, <3>2, <3>3
  <2>7. RestKnown' /\ RestShown' /\ RefreshAnswered'
    BY <2>1 DEF RestKnown, RestShown, RefreshAnswered, AtRest
  <2> QED BY <2>4, <2>5, <2>6, <2>7 DEF Truth, TrackingTrue
<1> QED BY <1>4, <1>5

\* The reply to a refresh.
LEMMA RefreshTruth ==
  ASSUME Reliable, TypeOK, LinkSteady, Truth, ~cancelled, RefreshSend \/ RefreshWait
  PROVE  Truth'
<1>1. CASE RefreshSend
  <2>1. pc = "refSend"
    BY <1>1 DEF RefreshSend
  <2>2. /\ Reply /\ pc' = "refWait"
        /\ UNCHANGED <<tracker, tracking, position, motor, goal, touched, cut, posKnown, lastPos,
                       haPos>>
    BY <1>1, <2>1, SendsSucceed DEF RefreshSend, OnAir, Goto, client, view, blind, history, run
  <2>3. inflight = <<>> /\ inflight' = <<motor>>
    BY <2>2 DEF Reply
  <2>4. inflight' # <<>> /\ LastReply' = motor
    <3>1. Head(<<motor>>) = motor /\ <<motor>> # <<>>
      OBVIOUS
    <3> QED BY <2>3, <3>1, Zenon DEF LastReply
  <2>5. RestKnown'
    BY <2>1, <2>2, <2>3 DEF Truth, RestKnown, AtRest
  <2>6. RestShown' /\ RefreshAnswered'
    BY <2>2, <2>4 DEF RestShown, RefreshAnswered
  <2>7. TrackingTrue'
    BY <2>2 DEF Truth, TrackingTrue, TrackerNew, ReplyAlong, PositionShown, SecondSample, ThirdSample
  <2> QED BY <2>5, <2>6, <2>7 DEF Truth
<1>2. CASE RefreshWait
  <2>1. /\ pc = "refWait" /\ inflight = <<>>
        /\ Noticed /\ Resume
        /\ UNCHANGED <<motor, goal, inflight, position, haPos>>
    BY <1>2 DEF RefreshWait, air, blind, client
  <2>2. PICK poll \in BOOLEAN : publishSettled(poll)
    BY <1>2 DEF RefreshWait
  <2>3. haPos = toHA(position, Invert)
    BY <2>1 DEF Truth, RefreshAnswered
  <2>4. ~touched => motor = goal /\ position = motor
    BY <2>1 DEF Truth, RefreshAnswered, RestKnown, AtRest, LastReply
  <2> QED BY <2>1, <2>2, <2>3, <2>4, PublishedTruth
<1> QED BY <1>1, <1>2

\* A command reaches the motor.
LEMMA OpSendTruth ==
  ASSUME Reliable, TypeOK, LinkSteady, Truth, ~cancelled, OpSend PROVE Truth'
<1>1. /\ pc = "opSend" /\ AfterOp
      /\ goal' = IF cur.track THEN cur.target ELSE motor
      /\ UNCHANGED <<motor, inflight, haPos, position, touched>>
  <2>1. pc = "opSend"
    BY DEF OpSend
  <2> QED BY <2>1, SendsSucceed DEF OpSend, OnAir, client
<1>2. CASE cur.track /\ pc' = "track" /\ tracker' = newSettleTracker
  BY <1>2 DEF Truth, TrackingTrue, RestKnown, RestShown, RefreshAnswered, TrackerNew,
     ReplyAlong, PositionShown, SecondSample, ThirdSample, AtRest, newSettleTracker
<1>3. CASE ~cur.track /\ cut' = TRUE /\ Resume
  <2>1. pc' = "select" /\ tracker' = newSettleTracker /\ cut' /\ motor' = goal'
    BY <1>1, <1>3 DEF Resume
  <2> QED BY <2>1 DEF Truth, TrackingTrue, RestKnown, RestShown, RefreshAnswered,
             TrackerNew, ReplyAlong, PositionShown, SecondSample, ThirdSample
<1>4. CASE ~cur.track /\ ~tracking /\ pc' = "refEnsure"
           /\ UNCHANGED <<tracking, tracker, view, cut>>
  BY <1>1, <1>4, MovesOnAtRest DEF AtRest, view
<1> QED BY <1>1, <1>2, <1>3, <1>4 DEF AfterOp

\* The steps that wait for the radio keep to the truth.
LEMMA StepsTruth ==
  ASSUME Reliable, TypeOK, LinkSteady, Truth, ~cancelled, Steps PROVE Truth'
<1>1. CASE Connect
  <2>1. pc = "top" /\ pc' = "refEnsure"
        /\ UNCHANGED <<tracker, touched, cut, motor, goal, inflight, posKnown, lastPos, haPos>>
    BY <1>1, NothingFails DEF Connect, view, blind, history, run
  <2> QED BY <2>1, MovesOnAtRest DEF AtRest
<1>2. CASE Backoff
  <2>1. pc = "backoff" /\ pc' = "top"
        /\ UNCHANGED <<tracker, touched, cut, motor, goal, inflight, posKnown, lastPos, haPos>>
    BY <1>2 DEF Backoff, Goto, view, ha, air, blind, history, run
  <2> QED BY <2>1, MovesOnAtRest DEF AtRest
<1>3. CASE OpEnsure
  <2>1. pc = "opEnsure" /\ pc' = "opSend"
        /\ UNCHANGED <<tracking, tracker, touched, cut, motor, goal, inflight, posKnown, lastPos, haPos>>
    BY <1>3 DEF OpEnsure, Goto, view, blind, history, run
  <2>2. CASE tracking
    BY <2>1, <2>2 DEF Truth, TrackingTrue, RestKnown, RestShown, RefreshAnswered,
       TrackerNew, ReplyAlong, PositionShown, SecondSample, ThirdSample, AtRest
  <2>3. CASE ~tracking
    BY <2>1, <2>3, MovesOnAtRest DEF AtRest
  <2> QED BY <2>2, <2>3
<1>4. CASE Reconnect
  BY <1>4, SendsSucceed DEF Reconnect, OnAir
<1>5. CASE TrackTick
  <2>1. /\ pc = "track" /\ pc' = "tickSend" /\ inflight = <<>>
        /\ UNCHANGED <<tracker, tracking, touched, cut, moved, motor, goal, inflight, posKnown,
                       lastPos, haPos>>
        /\ position' = position
    BY <1>5, EnsureSteady DEF TrackTick, Goto, view, blind, history, LinkSteady
  <2>2. LastReply' = LastReply
    BY <2>1, Zenon DEF LastReply
  <2> QED BY <2>1, <2>2 DEF Truth, TrackingTrue, RestKnown, RestShown, RefreshAnswered,
     TrackerNew, ReplyAlong, PositionShown, SecondSample, ThirdSample, AtRest
<1>6. CASE RefreshEnsure
  <2>1. pc = "refEnsure" /\ pc' = "refSend"
        /\ UNCHANGED <<tracker, touched, cut, motor, goal, inflight, posKnown, lastPos, haPos>>
    BY <1>6 DEF RefreshEnsure, Goto, view, blind, history, run
  <2> QED BY <2>1, MovesOnAtRest DEF AtRest
<1> QED
  BY <1>1, <1>2, <1>3, <1>4, <1>5, <1>6, OpSendTruth, TickSendTruth, TickReadTruth,
     RefreshTruth DEF Steps

\* So do the cases of the selects ...
LEMMA SelectsTruth ==
  ASSUME Reliable, TypeOK, LinkSteady, Truth, ~cancelled, Selects PROVE Truth'
<1>1. CASE TakeOp
  <2>1. pc \in {"select", "track"} /\ pc' = "opEnsure" /\ tracking' = (pc = "track")
        /\ UNCHANGED <<tracker, touched, cut, motor, goal, inflight, posKnown, lastPos, haPos>>
    BY <1>1 DEF TakeOp, ha, air, blind, history, run
  <2>2. CASE pc = "select"
    BY <2>1, <2>2, MovesOnAtRest DEF AtRest
  <2>3. CASE pc = "track"
    BY <2>1, <2>3 DEF Truth, TrackingTrue, RestKnown, RestShown, RefreshAnswered,
       TrackerNew, ReplyAlong, PositionShown, SecondSample, ThirdSample, AtRest
  <2> QED BY <2>1, <2>2, <2>3
<1>2. CASE SelectRefresh
  <2>1. pc = "select" /\ pc' = "refEnsure"
        /\ UNCHANGED <<tracker, touched, cut, motor, goal, inflight, posKnown, lastPos, haPos>>
    BY <1>2 DEF SelectRefresh, view, ha, air, blind, history, run
  <2> QED BY <2>1, MovesOnAtRest DEF AtRest
<1>3. CASE SelectIdle
  <2>1. /\ pc = "select" /\ inflight' \in {<<>>, inflight}
        /\ UNCHANGED <<pc, tracking, tracker, touched, cut, motor, goal, posKnown, lastPos,
                       haPos, haState>>
    BY <1>3 DEF SelectIdle, Disconnect, thread, view, ha, blind, history, run
  <2> QED BY <2>1 DEF Truth, TrackingTrue, RestKnown, RestShown, RefreshAnswered,
     TrackerNew, ReplyAlong, PositionShown, SecondSample, ThirdSample, AtRest
<1>4. CASE Evaluate \/ applyControl
  BY <1>4, TruthStutters DEF Evaluate, applyControl, shown, thread, view, ha, client, air,
     blind, history, run
<1> QED BY <1>1, <1>2, <1>3, <1>4, NothingFails DEF Selects

\* ... a reply that arrives, the motor on its way, and a person.
LEMMA EnvironmentTruth ==
  ASSUME Reliable, TypeOK, LinkSteady, Truth, ~cancelled, Environment PROVE Truth'
<1>1. CASE handleCommand \/ handleSetPosition \/ handleButton \/ sendControl \/ Cancel
             \/ OverrideExpires
  BY <1>1, TruthStutters DEF handleCommand, handleSetPosition, handleButton, Submit,
     sendControl, Cancel, OverrideExpires, shown, thread, view, ha, client, air, blind, history, run
<1>2. CASE onBLEEvent
  <2> DEFINE p == Head(inflight)
  <2>1. /\ inflight # <<>> /\ pc # "tickRead"
        /\ inflight' = <<>> /\ position' = p /\ haPos' = toHA(p, Invert)
        /\ UNCHANGED <<pc, tracking, tracker, touched, cut, moved, motor, goal, posKnown, lastPos,
                       haState>>
    BY <1>2, InflightFacts DEF onBLEEvent, thread, view, blind, history, run
  <2>2. LastReply = p /\ LastReply' = p
    BY <2>1, Zenon DEF LastReply
  <2>3. inflight = <<motor>> => p = motor
    OBVIOUS
  <2> HIDE DEF p
  <2>4. RestKnown'
    BY <2>1, <2>3 DEF Truth, RestKnown, AtRest
  <2>5. RestShown' /\ RefreshAnswered'
    BY <2>1, <2>2 DEF Truth, RestShown, RefreshAnswered
  <2>6. ReplyAlong' /\ SecondSample'
    BY <2>1, <2>2 DEF Truth, TrackingTrue, ReplyAlong, SecondSample
  <2>7. PositionShown' /\ TrackerNew' /\ ThirdSample'
    BY <2>1 DEF Truth, TrackingTrue, PositionShown, TrackerNew, ThirdSample
  <2> QED BY <2>4, <2>5, <2>6, <2>7 DEF Truth, TrackingTrue
<1>3. CASE MotorStep
  <2>1. /\ motor # goal /\ moved'
        /\ motor' \in (motor + 1)..goal \cup goal..(motor - 1)
        /\ UNCHANGED <<pc, tracking, tracker, touched, cut, goal, inflight, position, posKnown,
                       lastPos, haPos, haState>>
    BY <1>3 DEF MotorStep, thread, view, ha, client, air
  <2>2. motor \in Int /\ goal \in Int /\ LastReply \in Int
    <3>1. motor \in Positions /\ goal \in Positions
      BY DEF TypeOK
    <3>2. LastReply \in Positions
      BY InflightFacts, Zenon
    <3>3. Positions \subseteq Int
      BY PositionFacts
    <3> QED BY <3>1, <3>2, <3>3, Zenon
  <2>3. LastReply' = LastReply
    BY <2>1, Zenon DEF LastReply
  <2>4. AtRest => touched
    BY <2>1 DEF Truth, RestKnown
  <2>5. RestKnown' /\ RestShown' /\ RefreshAnswered'
    BY <2>1, <2>4 DEF Truth, RestKnown, RestShown, RefreshAnswered, AtRest
  <2>6. ReplyAlong'
    BY <2>1, <2>2, <2>3 DEF Truth, TrackingTrue, ReplyAlong
  <2>7. SecondSample' /\ ThirdSample'
    BY <2>1, <2>3 DEF Truth, TrackingTrue, SecondSample, ThirdSample
  <2>8. PositionShown' /\ TrackerNew'
    BY <2>1 DEF Truth, TrackingTrue, PositionShown, TrackerNew
  <2> QED BY <2>5, <2>6, <2>7, <2>8 DEF Truth, TrackingTrue
<1>4. CASE RemoteMove
  <2>1. /\ touched'
        /\ UNCHANGED <<pc, tracker, inflight, position, haPos>>
    BY <1>4 DEF RemoteMove, thread, ha, client, air
  <2> QED BY <2>1 DEF Truth, TrackingTrue, RestKnown, RestShown, RefreshAnswered,
     TrackerNew, ReplyAlong, PositionShown, SecondSample, ThirdSample
<1> QED BY <1>1, <1>2, <1>3, <1>4, NothingFails DEF Environment

LEMMA ReliableStep ==
  ASSUME Reliable PROVE IInv /\ ReliableInv /\ [Next]_vars => ReliableInv'
<1> SUFFICES ASSUME IInv, ReliableInv, [Next]_vars PROVE ReliableInv'
  OBVIOUS
<1>1. TypeOK
  BY DEF IInv
<1>2. CASE Next
  <2>1. LinkSteady'
    BY <1>1, <1>2, LinkSteadyStep DEF ReliableInv
  <2>2. ASSUME ~cancelled' PROVE Truth'
    <3>1. ~cancelled
      BY <1>2, <2>2 DEF Next, Steps, Selects, Environment, Connect, Backoff, OpEnsure,
         OpSend, Reconnect, TrackTick, TickSend, TickRead, RefreshEnsure, RefreshSend,
         RefreshWait, TakeOp, SelectRefresh, SelectIdle, Evaluate, applyControl,
         TrackTimeout, TrackDone, Exit, Strand, handleCommand, handleSetPosition, handleButton,
         Submit, sendControl, onBLEEvent, Cancel, ShutdownOffline, ShutdownDisconnect,
         MotorStep, RemoteMove, LinkDrop, ReachChanges, OverrideExpires, run
    <3> QED BY <1>1, <1>2, <3>1, StepsTruth, SelectsTruth, EnvironmentTruth
            DEF ReliableInv, Next
  <2> QED BY <2>1, <2>2 DEF ReliableInv
<1>3. CASE UNCHANGED vars
  <2>1. UNCHANGED shown /\ UNCHANGED <<cancelled, reach, link, connected>>
    BY <1>3 DEF vars, shown, thread, view, ha, client, air, blind, history, run
  <2>2. Truth => Truth'
    BY <2>1, TruthStutters
  <2>3. LinkSteady'
    BY <2>1 DEF ReliableInv, LinkSteady, shown
  <2> QED BY <2>1, <2>2, <2>3 DEF ReliableInv
<1> QED BY <1>2, <1>3

\* With a reliable radio the client's link is there when it is needed, three equal
\* samples are those of a blind at rest, and a rest is seen as what it is.
THEOREM ReliableInvHolds == ASSUME Reliable PROVE Spec => []ReliableInv
<1>1. Init => ReliableInv
  <2> SUFFICES ASSUME Init PROVE ReliableInv
    OBVIOUS
  <2>1. LinkSteady
    BY DEF Init, LinkSteady, OnAir, onDemand
  <2>2. /\ pc \in {"select", "top"} /\ ~posKnown /\ motor = goal /\ inflight = <<>>
        /\ tracker = newSettleTracker
    BY DEF Init
  <2>3. Truth
    BY <2>2 DEF Truth, TrackingTrue, RestKnown, RestShown, RefreshAnswered, TrackerNew,
       ReplyAlong, PositionShown, SecondSample, ThirdSample
  <2> QED BY <2>1, <2>3 DEF ReliableInv
<1> QED BY <1>1, ReliableStep, InvariantHolds, PTL DEF Spec

\* For every set of positions, every mode and any number of commands and people: when
\* the radio is reliable, a blind that nobody moved with the remote since it was last
\* observed rests, and Home Assistant shows where, except after a STOP that cut its
\* movement short, until it is observed again (publishSettled, trackUntilSettled,
\* refreshState).
THEOREM RestingStateTrueHolds == ASSUME Reliable PROVE Spec => []RestingStateTrue
<1>1. ReliableInv => RestingStateTrue
  BY DEF ReliableInv, Truth, RestKnown, RestShown, AtRest, RestingStateTrue
<1> QED BY <1>1, ReliableInvHolds, PTL

\* When the radio is reliable, only commands (a STOP that left a stale sample behind
\* among them) and people pause automation, never a move of its own (observe).
THEOREM OverrideOnlyForOthersHolds == ASSUME Reliable PROVE Spec => OverrideOnlyForOthers
<1>1. IInv /\ ReliableInv /\ [Next]_vars =>
        [~override /\ override' /\ ~cancelled =>
           touched \/ cut \/ (pc' = "opEnsure" /\ cur'.origin = "manual")]_vars
  <2> SUFFICES ASSUME IInv, ReliableInv, Next, ~override, override', ~cancelled,
                      ~touched, ~cut
               PROVE  pc' = "opEnsure" /\ cur'.origin = "manual"
    OBVIOUS
  <2>1. CASE TakeOp
    BY <2>1, Zenon DEF TakeOp, noteOrigin
  <2>2. ~publishSettled(FALSE)
    BY Zenon DEF publishSettled, MovedByOthers
  <2>3. CASE RefreshWait
    <3>1. pc = "refWait" /\ inflight = <<>>
      BY <2>3 DEF RefreshWait
    <3>2. posKnown => toHA(position, Invert) = lastPos
      BY <3>1 DEF ReliableInv, Truth, RefreshAnswered, RestKnown, AtRest, LastReply
    <3>3. lastPos \in Int
      BY DEF IInv, TypeOK
    <3>4. ~(absInt(lastPos - lastPos) > externalMoveTolerance)
      BY <3>3 DEF absInt, externalMoveTolerance
    <3>5. PICK poll \in BOOLEAN : publishSettled(poll)
      BY <2>3 DEF RefreshWait
    <3>6. ~MovedByOthers(toHA(position', Invert), poll) /\ position' = position
      BY <2>3, <3>2, <3>4, Zenon DEF MovedByOthers, RefreshWait, client
    <3> QED BY <3>5, <3>6, Zenon DEF publishSettled
  <2>4. CASE override' = override
    BY <2>4
  <2>5. TakeOp \/ RefreshWait \/ override' = override \/ publishSettled(FALSE) \/ ~override'
    BY DEF Next, Steps, Selects, Environment, Connect, Backoff, OpEnsure, AfterOp,
       OpSend, Reconnect, TrackTick, TickSend, TickRead, RefreshEnsure, RefreshSend,
       pollFails, SelectRefresh, SelectIdle, Evaluate, applyControl, TrackTimeout,
       TrackDone, Exit, Strand, handleCommand, handleSetPosition, handleButton, Submit,
       sendControl, onBLEEvent, Cancel, ShutdownOffline, ShutdownDisconnect, MotorStep,
       RemoteMove, LinkDrop, ReachChanges, OverrideExpires, view
  <2> QED BY <2>1, <2>2, <2>3, <2>4, <2>5
<1> QED BY <1>1, InvariantHolds, ReliableInvHolds, PTL DEF Spec, OverrideOnlyForOthers
=============================================================================
