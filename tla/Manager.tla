------------------------------- MODULE Manager -------------------------------
(* One blind's manager goroutine (pkg/blissha/manager.go) with everything it  *)
(* interleaves with: MQTT handlers that queue commands, the BLE notification  *)
(* callback, signals for the controller, the blind itself with a person and   *)
(* an RF remote, a link that drops silently, and the cancellation of Run.     *)
(*                                                                            *)
(* Time is abstract: a timer is armed or not, and an armed timer may fire.    *)
(* The BLE client appears through what its calls do to the state the manager  *)
(* sees; module BlindClient models it in detail.  The decision of the         *)
(* controller is any target at all while the override is not in force.        *)
EXTENDS SettleTracker, Sequences, FiniteSets

CONSTANTS
  Modes,        \* the configurations explored
  Automating,   \* BOOLEAN: is a controller mode configured?
  Invert,       \* BOOLEAN: BlindConfig.Invert
  Reliable,     \* BOOLEAN: the radio loses nothing and replies come in time
  ActionsCap,   \* capacity of the actions channel (8 in the code)
  ControlCap,   \* capacity of the control channel (8 in the code)
  Budget        \* bounds: how many commands and signals, auto and remote moves; whether
                \* the link drops silently; whether Run's shutdown is followed

ASSUME ManagerAssumption ==
  /\ Modes \subseteq {"persistent", "poll", "command"}
  /\ Automating \in BOOLEAN /\ Invert \in BOOLEAN /\ Reliable \in BOOLEAN
  /\ ActionsCap \in Nat \ {0} /\ ControlCap \in Nat \ {0}
  /\ Budget \in [ops : Nat, auto : Nat, remote : Nat, drops : BOOLEAN, shutdown : BOOLEAN]

VARIABLES
  mode,         \* "persistent", or on demand with ("poll") or without ("command") polling
  \* the manager goroutine
  pc, caller, cur, tracking, tracker, retried,
  \* its channels and timers
  actions, control, idleArmed, refreshArmed,
  \* the controller's view of the blind
  lastPos, posKnown, override,
  \* what Home Assistant was told (retained topics)
  avail, haState, haPos,
  \* bliss.Blind: state.Connected and state.Position
  connected, position,
  \* the blind and the radio
  motor, goal, link, reach, inflight,
  \* Run's context, and how far Run has got with this blind's shutdown
  cancelled, shutdown,
  \* history: did a person with the remote move the blind since it was last observed?
  \* did Home Assistant stop it on its way since then?  did the motor move since the
  \* last reply?  and what the bounds leave
  touched, cut, moved, left

thread  == <<pc, caller, cur, tracking, tracker, retried>>
queues  == <<actions, control>>
timers  == <<idleArmed, refreshArmed>>
view    == <<lastPos, posKnown, override>>
ha      == <<avail, haState, haPos>>
client  == <<connected, position>>
air     == <<link, reach, inflight>>
blind   == <<motor, goal>>
history == <<touched, cut, moved>>
run     == <<cancelled, shutdown>>
vars == <<mode, thread, queues, timers, view, ha, client, air, blind,
          run, history, left>>

externalMoveTolerance == 5

MovingStates  == {"opening", "closing"}
RestingStates == {"open", "closed", "stopped"}
NoPos == -1

\* blindOp: `track' marks movements, `target' is where the blind will go.
Ops == {op \in [track : BOOLEAN, target : Positions,
                state : MovingStates \cup {"stopped"}, origin : {"manual", "auto"}] :
          op.track <=> op.state \in MovingStates}

move(target, state, origin) ==
  [track |-> TRUE, target |-> target, state |-> state, origin |-> origin]
stop == [track |-> FALSE, target |-> 0, state |-> "stopped", origin |-> "manual"]
NoOp == stop        \* value of cur while no op is being run

onDemand == mode # "persistent"

TypeOK ==
  /\ mode \in Modes
  /\ pc \in {"top", "backoff", "select", "opEnsure", "opSend", "track", "tickSend",
             "tickRead", "refEnsure", "refSend", "refWait", "exit", "stranded"}
  /\ caller \in {"none", "start", "tick", "op"}
  /\ cur \in Ops
  /\ tracking \in BOOLEAN /\ retried \in BOOLEAN
  /\ tracker \in Trackers
  /\ actions \in Seq(Ops) /\ Len(actions) <= ActionsCap
  /\ control \in 0..ControlCap
  /\ idleArmed \in BOOLEAN /\ refreshArmed \in BOOLEAN
  /\ lastPos \in 0..100 /\ posKnown \in BOOLEAN /\ override \in BOOLEAN
  /\ avail \in {"unset", "online", "offline"}
  /\ haState \in {"unset"} \cup MovingStates \cup RestingStates
  /\ haPos \in 0..100 \cup {NoPos}
  /\ connected \in BOOLEAN /\ position \in Positions
  /\ motor \in Positions /\ goal \in Positions
  /\ link \in BOOLEAN /\ reach \in BOOLEAN
  /\ inflight \in Seq(Positions) /\ Len(inflight) <= 1
  /\ cancelled \in BOOLEAN /\ shutdown \in {"no", "said", "done"}
  /\ touched \in BOOLEAN /\ cut \in BOOLEAN /\ moved \in BOOLEAN
  /\ left \in [ops : Nat, auto : Nat, remote : Nat]

\* newManager, and the first statements of runPersistent and runOnDemand: an
\* on-demand manager announces itself online and starts with its refresh timer due.
Init ==
  /\ mode \in Modes
  /\ pc = IF onDemand THEN "select" ELSE "top"
  /\ caller = "none" /\ cur = NoOp /\ tracking = FALSE
  /\ tracker = newSettleTracker /\ retried = FALSE
  /\ actions = <<>> /\ control = 0
  /\ idleArmed = FALSE /\ refreshArmed = onDemand
  /\ lastPos = 0 /\ posKnown = FALSE /\ override = FALSE
  /\ avail = IF onDemand THEN "online" ELSE "unset"
  /\ haState = "unset" /\ haPos = NoPos
  /\ connected = FALSE /\ position = 0
  /\ motor \in Positions /\ goal = motor
  /\ link = FALSE /\ inflight = <<>>
  /\ reach \in IF Reliable THEN {TRUE} ELSE BOOLEAN
  /\ cancelled = FALSE /\ shutdown = "no"
  /\ touched = FALSE /\ cut = FALSE /\ moved = FALSE
  /\ left = [ops |-> Budget.ops, auto |-> Budget.auto, remote |-> Budget.remote]

-----------------------------------------------------------------------------
(* What the client's calls do to the state the manager sees.                *)

\* Blind.Disconnect: the cached state is zeroed; a notification that was already
\* on its way may still be delivered afterwards.
Disconnect ==
  /\ connected' = FALSE
  /\ position' = 0
  /\ IF connected
     THEN link' = FALSE /\ inflight' \in {<<>>, inflight}
     ELSE UNCHANGED <<link, inflight>>

\* A bug: the login frame does not count as a sign of life.
ConnectOkQuiet ==
  reach /\ connected' = TRUE /\ link' = TRUE /\ UNCHANGED avail

\* connectOnce succeeds only with the login result, a frame that passes through
\* onBLEEvent on its way and so publishes "online".  One step stands for all that lies
\* between State.Connected and that callback: nothing is said of a blind that is
\* logging in.
ConnectOk ==
  reach /\ connected' = TRUE /\ link' = TRUE /\ avail' = "online"

\* It fails before or after the link came up; in the second case doLogin's error
\* path disconnects, which zeroes the cached position.
ConnectFails ==
  /\ ~reach \/ cancelled
  /\ position' \in {position, 0}
  /\ UNCHANGED <<connected, link>>

ensureConnected ==
  \/ connected /\ avail' = "online" /\ UNCHANGED <<connected, position, link>>
  \/ ~connected /\ ConnectOk /\ UNCHANGED position
  \/ ~connected /\ ConnectFails /\ avail' = "offline"

\* Send: writeRaw reaches the blind.
SendOk == connected /\ link /\ retried' = FALSE

WriteFails == ~(connected /\ link)

\* Send after a failed write: tear down, connect and log in again; the caller
\* then writes a second time.
SendReconnects ==
  /\ WriteFails /\ ~retried /\ ~cancelled
  /\ ConnectOk
  /\ position' = 0
  /\ inflight' \in IF connected THEN {<<>>, inflight} ELSE {inflight}
  /\ retried' = TRUE

\* Send returns an error: the second write failed, or the context was already
\* cancelled (nothing is torn down), or reconnecting failed (the link is gone).
SendGivesUp ==
  WriteFails /\ (retried \/ cancelled \/ ~reach) /\ retried' = FALSE

SendFails ==
  /\ SendGivesUp
  /\ \/ /\ retried \/ cancelled
        /\ UNCHANGED <<connected, position, link, inflight>>
     \/ /\ ~retried
        /\ ~reach \/ cancelled
        /\ Disconnect

\* The blind's answer to a status request, unless the radio loses it.
Reply ==
  \/ inflight = <<>> /\ inflight' = <<motor>>
  \/ ~Reliable /\ UNCHANGED inflight

-----------------------------------------------------------------------------
(* Publishing, and what the controller learns from it.                      *)

\* A bug: the settle after one of our own moves is taken for a poll.
MovedByOthersAnytime(haNow, poll) ==
  posKnown /\ Automating /\ absInt(haNow - lastPos) > externalMoveTolerance

\* observe: a routine poll finds the blind elsewhere than it was last seen.
MovedByOthers(haNow, poll) ==
  /\ poll /\ posKnown /\ Automating
  /\ absInt(haNow - lastPos) > externalMoveTolerance

\* A bug: what is published on the way of an op is not kept for the controller.
publishSettledUnseen(poll) ==
  LET haNow == toHA(position', Invert)
  IN /\ haState' = restingState(haNow)
     /\ IF poll THEN lastPos' = haNow ELSE UNCHANGED lastPos
     /\ posKnown' = TRUE
     /\ override' = (override \/ MovedByOthers(haNow, poll))

\* publishSettled and observe: publish the resting state of the cached position
\* and keep it for the controller; an external move pauses automation.  The position
\* is what the calls before it have left: zero after a Send that could not reconnect.
publishSettled(poll) ==
  LET haNow == toHA(position', Invert)
  IN /\ haState' = restingState(haNow)
     /\ lastPos' = haNow
     /\ posKnown' = TRUE
     /\ override' = (override \/ MovedByOthers(haNow, poll))

\* The cached position is that of a blind at rest, and no reply on its way says otherwise.
Accurate == position = motor /\ motor = goal /\ inflight \in {<<>>, <<motor>>}

\* History: from an accurate observation on nobody has moved the blind or stopped it.
Noticed == touched' = (touched /\ ~Accurate) /\ cut' = (cut /\ ~Accurate)

\* noteOrigin
noteOrigin(op) == override' = (override \/ (op.origin = "manual" /\ Automating))

\* A bug: a refresh that found the link up does not arm the idle timer.
scheduleRefreshNoIdle ==
  IF ~connected'
  THEN refreshArmed' = (refreshArmed \/ mode = "poll") /\ UNCHANGED idleArmed
  ELSE refreshArmed' = (refreshArmed \/ mode = "poll") /\ UNCHANGED idleArmed

\* A bug: after a failed attempt no other one is scheduled.
scheduleRefreshNoRetry ==
  IF ~connected'
  THEN UNCHANGED timers
  ELSE idleArmed' = TRUE /\ refreshArmed' = (refreshArmed \/ mode = "poll")

\* scheduleRefresh: retry soon while the link is down (never in command-only
\* mode); otherwise restart the idle window and the poll interval.
scheduleRefresh ==
  IF ~connected'
  THEN refreshArmed' = (refreshArmed \/ mode = "poll") /\ UNCHANGED idleArmed
  ELSE idleArmed' = TRUE /\ refreshArmed' = (refreshArmed \/ mode = "poll")

\* Back in the select of pollLoop or runOnDemand after an op or a refresh.
Resume ==
  /\ pc' = "select"
  /\ caller' = "none" /\ cur' = NoOp /\ tracking' = FALSE
  /\ tracker' = newSettleTracker
  /\ IF onDemand THEN scheduleRefresh ELSE UNCHANGED timers

Goto(label) == pc' = label /\ UNCHANGED <<caller, cur, tracking, tracker>>
-----------------------------------------------------------------------------
(* The manager goroutine: connecting (persistent mode), the select of its     *)
(* loop, runOp, trackUntilSettled and refreshState, cut where the goroutine   *)
(* waits for the radio or for time.                                           *)

\* runPersistent, top of the loop.
Connect ==
  /\ pc = "top" /\ ~cancelled
  /\ \/ /\ ConnectOk
        /\ pc' = "refEnsure" /\ caller' = "start"
        /\ UNCHANGED position
     \/ /\ ConnectFails
        /\ avail' = "offline" /\ pc' = "backoff"
        /\ UNCHANGED caller
  /\ UNCHANGED <<mode, cur, tracking, tracker, retried, queues, timers, view,
                 haState, haPos, reach, inflight, blind, run, history, left>>

\* The backoff elapses.
Backoff ==
  /\ pc = "backoff"
  /\ Goto("top")
  /\ UNCHANGED <<mode, retried, queues, timers, view, ha, client, air, blind,
                 run, history, left>>

\* A bug: the select of the loop has no case for the cancellation.
ExitNotFromSelect ==
  /\ cancelled
  /\ pc \in {"top", "backoff"}
  /\ Goto("exit")
  /\ UNCHANGED <<mode, retried, queues, timers, view, ha, client, air, blind,
                 run, history, left>>

\* run returns once Run's context is cancelled; runOnDemand drops the link.
\* runPersistent also leaves when Connect fails because of the cancellation.
Exit ==
  /\ cancelled
  /\ pc \in {"top", "backoff", "select"}
  /\ Goto("exit")
  /\ IF onDemand THEN Disconnect ELSE UNCHANGED <<client, link, inflight>>
  /\ UNCHANGED <<mode, retried, queues, timers, view, ha, reach, blind,
                 run, history, left>>

\* A bug: commands are only served while the link is up.
TakeOpWhenConnected ==
  /\ pc \in {"select", "track"} /\ connected
  /\ actions # <<>>
  /\ cur' = Head(actions) /\ actions' = Tail(actions)
  /\ noteOrigin(Head(actions))
  /\ tracking' = (pc = "track")
  /\ caller' = "op"
  /\ pc' = "opEnsure"
  /\ UNCHANGED <<mode, tracker, retried, control, timers, lastPos, posKnown, ha,
                 client, air, blind, run, history, left>>

\* case op := <-m.actions, in the loop and inside trackUntilSettled.
TakeOp ==
  /\ pc \in {"select", "track"}
  /\ actions # <<>>
  /\ cur' = Head(actions) /\ actions' = Tail(actions)
  /\ noteOrigin(Head(actions))
  /\ tracking' = (pc = "track")
  /\ caller' = "op"
  /\ pc' = "opEnsure"
  /\ UNCHANGED <<mode, tracker, retried, control, timers, lastPos, posKnown, ha,
                 client, air, blind, run, history, left>>

\* Connect if need be, then announce the op's state.
OpEnsure ==
  /\ pc = "opEnsure"
  /\ ensureConnected
  /\ haState' = cur.state
  /\ Goto("opSend")
  /\ UNCHANGED <<mode, retried, queues, timers, view, haPos, reach, inflight, blind,
                 run, history, left>>

\* Where runOp and trackUntilSettled go on after op.fn(), also one that failed: a
\* movement is tracked with a fresh tracker, a stop settles at once (inside a movement,
\* with the last sample for the position) or is followed by a status refresh.
AfterOp ==
  \/ /\ cur.track
     /\ pc' = "track" /\ tracker' = newSettleTracker
     /\ cur' = NoOp /\ tracking' = FALSE
     /\ UNCHANGED <<caller, timers, view, haState, cut>>
  \/ /\ ~cur.track /\ tracking
     /\ publishSettled(FALSE) /\ cut' = TRUE
     /\ Resume
  \/ /\ ~cur.track /\ ~tracking
     /\ pc' = "refEnsure" /\ cur' = NoOp
     /\ UNCHANGED <<caller, tracking, tracker, timers, view, haState, cut>>

\* op.fn(): the frame reaches the motor, or Send gives up.
OpSend ==
  /\ pc = "opSend"
  /\ \/ /\ SendOk
        /\ goal' = IF cur.track THEN cur.target ELSE motor
        /\ avail' = IF tracking THEN avail ELSE "online"
        /\ UNCHANGED <<client, link, inflight>>
     \/ /\ SendFails
        /\ UNCHANGED <<goal, avail>>
  /\ AfterOp
  /\ UNCHANGED <<mode, queues, haPos, motor, reach, run, touched, moved, left>>

\* Send's reconnect, at each of the places that call it.
Reconnect ==
  /\ pc \in {"opSend", "tickSend", "refSend"}
  /\ SendReconnects
  /\ UNCHANGED <<mode, pc, caller, cur, tracking, tracker, queues, timers, view,
                 haState, haPos, reach, blind, run, history, left>>

\* trackUntilSettled: the two-second ticker fires.  With a reliable radio the
\* last reply is in by then.
TrackTick ==
  /\ pc = "track"
  /\ Reliable => inflight = <<>>
  /\ ensureConnected
  /\ Goto("tickSend")
  /\ UNCHANGED <<mode, retried, queues, timers, view, haState, haPos, reach, inflight,
                 blind, run, history, left>>

\* requestStatus: its error is only logged.  With a reliable radio two replies in
\* a row show a moving blind at two places, but it may be slow to start.
TickSend ==
  /\ pc = "tickSend"
  /\ Reliable => motor = goal \/ moved \/ tracker = newSettleTracker
  /\ moved' = FALSE
  /\ \/ SendOk /\ Reply /\ UNCHANGED <<client, link>>
     \/ SendFails
  /\ Goto("tickRead")
  /\ UNCHANGED <<mode, queues, timers, view, ha, reach, blind, run, touched, cut, left>>

\* The sample is the cached position, whether or not the reply is in.
TickRead ==
  /\ pc = "tickRead"
  /\ UNCHANGED client
  /\ LET tr == Observed(tracker, position)
     IN IF IsSettled(tr)
        THEN publishSettled(FALSE) /\ Noticed /\ Resume
        ELSE /\ pc' = "track" /\ tracker' = tr
             /\ UNCHANGED <<caller, cur, tracking, timers, view, haState, touched, cut>>
  /\ UNCHANGED <<mode, retried, queues, avail, haPos, air, blind, run,
                 moved, left>>

\* A bug: at the safety timeout the tracking just stops.
TrackTimeoutSilent ==
  /\ pc = "track" /\ ~Reliable
  /\ UNCHANGED client
  /\ Resume
  /\ UNCHANGED <<mode, retried, queues, view, ha, air, blind, run,
                 history, left>>

\* The 90 s safety cap (a movement takes about 40 s when the radio is reliable).
TrackTimeout ==
  /\ pc = "track" /\ ~Reliable
  /\ UNCHANGED client
  /\ publishSettled(FALSE) /\ Noticed
  /\ Resume
  /\ UNCHANGED <<mode, retried, queues, avail, haPos, air, blind, run,
                 moved, left>>

\* trackUntilSettled returns on cancellation and leaves the state as announced.
TrackDone ==
  /\ pc = "track" /\ cancelled
  /\ UNCHANGED client
  /\ Resume
  /\ UNCHANGED <<mode, retried, queues, view, ha, air, blind, run,
                 history, left>>

\* refreshState: connect if need be ...
RefreshEnsure ==
  /\ pc = "refEnsure"
  /\ ensureConnected
  /\ Goto("refSend")
  /\ UNCHANGED <<mode, retried, queues, timers, view, haState, haPos, reach, inflight,
                 blind, run, history, left>>

\* A bug: the dead link is not torn down before runPersistent connects again.
pollFailsKeepsLink ==
  /\ ~onDemand /\ caller = "tick"
  /\ SendFails
  /\ avail' = "offline"
  /\ pc' = "top" /\ caller' = "none"
  /\ UNCHANGED <<cur, tracking, tracker, timers>>

\* A failed poll of a persistent connection ends pollLoop.
pollFails ==
  /\ ~onDemand /\ caller = "tick"
  /\ SendGivesUp /\ Disconnect
  /\ avail' = "offline"
  /\ pc' = "top" /\ caller' = "none"
  /\ UNCHANGED <<cur, tracking, tracker, timers>>

\* ... ask for the status; any other error than that of a poll is ignored ...
RefreshSend ==
  /\ pc = "refSend"
  /\ \/ /\ SendOk /\ Reply
        /\ Goto("refWait")
        /\ UNCHANGED <<timers, client, link, avail>>
     \/ pollFails
     \/ /\ onDemand \/ caller # "tick"
        /\ SendFails /\ Resume
        /\ UNCHANGED avail
  /\ UNCHANGED <<mode, queues, view, haState, haPos, reach, blind, run, history,
                 left>>

\* ... wait 500 ms for the reply, or for the cancellation, and publish what is
\* cached by then.
RefreshWait ==
  /\ pc = "refWait"
  /\ Reliable => inflight = <<>> \/ cancelled
  /\ UNCHANGED client
  /\ publishSettled(caller # "op") /\ Noticed
  /\ Resume
  /\ UNCHANGED <<mode, retried, queues, avail, haPos, air, blind, run,
                 moved, left>>

\* The ticker of pollLoop, the refresh timer of runOnDemand.
SelectRefresh ==
  /\ pc = "select"
  /\ refreshArmed \/ ~onDemand
  /\ refreshArmed' = FALSE
  /\ pc' = "refEnsure" /\ caller' = "tick"
  /\ UNCHANGED <<mode, cur, tracking, tracker, retried, queues, idleArmed, view, ha,
                 client, air, blind, run, history, left>>

\* The idle window elapsed.
SelectIdle ==
  /\ pc = "select" /\ idleArmed
  /\ idleArmed' = FALSE
  /\ Disconnect
  /\ UNCHANGED <<mode, thread, queues, refreshArmed, view, ha, reach, blind, run,
                 history, left>>

\* A bug: the channel's capacity is off by one.
submitOneMore(op) ==
  actions' = IF Len(actions) <= ActionsCap THEN Append(actions, op) ELSE actions

\* submit drops the op when the queue is full.
submit(op) ==
  actions' = IF Len(actions) < ActionsCap THEN Append(actions, op) ELSE actions

\* evaluate: the controller holds, or it queues a move.  While the override is in
\* force it holds; with a known position it moves only to another one.
evaluate ==
  \/ UNCHANGED <<actions, left>>
  \/ /\ Automating /\ ~override /\ left.auto > 0
     /\ \E target \in Positions :
          LET haTarget == toHA(target, Invert)
          IN /\ posKnown => haTarget # lastPos
             /\ submit(move(target, IF haTarget < lastPos THEN "closing" ELSE "opening",
                            "auto"))
     /\ left' = [left EXCEPT !.auto = @ - 1]

\* case <-evalC
Evaluate ==
  /\ pc = "select" /\ Automating
  /\ evaluate
  /\ UNCHANGED <<mode, thread, control, timers, view, ha, client, air, blind, run,
                 history>>

\* case msg := <-m.control (the signal itself only matters to the decision).
applyControl ==
  /\ pc = "select" /\ control > 0
  /\ control' = control - 1
  /\ evaluate
  /\ UNCHANGED <<mode, thread, timers, view, ha, client, air, blind, run, history>>

\* A scan that is cancelled before the library has begun its discovery waits for ever
\* for it to end (module Scan, run scan_cancel), and with it whoever called Connect, or
\* Send once it has torn down the link.
Strand ==
  /\ cancelled
  /\ \/ /\ pc \in {"top", "opEnsure", "track", "refEnsure"} /\ ~connected
        /\ UNCHANGED <<client, link, inflight>>
     \/ /\ pc \in {"opSend", "tickSend", "refSend"} /\ WriteFails /\ ~retried
        /\ Disconnect
  /\ Goto("stranded")
  /\ UNCHANGED <<mode, retried, queues, timers, view, ha, reach, blind, run, history, left>>

-----------------------------------------------------------------------------
(* The other goroutines and the world.                                        *)

\* An MQTT handler queues a command.
Submit(op) ==
  /\ left.ops > 0
  /\ left' = [left EXCEPT !.ops = @ - 1]
  /\ submit(op)
  /\ UNCHANGED <<mode, thread, control, timers, view, ha, client, air, blind, run,
                 history>>

\* Open and Close are "travel to the limit" commands of the device: Invert does
\* not reach them.
handleCommand ==
  \/ Submit(move(100, "opening", "manual"))
  \/ Submit(move(0, "closing", "manual"))
  \/ Submit(stop)

\* The direction announced is judged by the client's cached position.
handleSetPosition ==
  \E target \in Positions :
    Submit(move(target,
                IF toHA(target, Invert) < toHA(position, Invert) THEN "closing" ELSE "opening",
                "manual"))

\* A fine adjustment stops somewhere short of the other end; the fast buttons
\* queue what handleCommand does.
handleButton ==
  \E target \in Positions :
    \/ target > 0 /\ Submit(move(target, "opening", "manual"))
    \/ target < 100 /\ Submit(move(target, "closing", "manual"))

\* sendControl drops a signal when the queue is full.
sendControl ==
  /\ Automating /\ left.ops > 0
  /\ left' = [left EXCEPT !.ops = @ - 1]
  /\ control' = IF control < ControlCap THEN control + 1 ELSE control
  /\ UNCHANGED <<mode, thread, actions, timers, view, ha, client, air, blind, run,
                 history>>

\* onNotify and onBLEEvent: a status frame updates the client's state and the
\* position topic, and proves the blind is there.  A reply takes longer to come
\* than TickRead to read the cached position.
onBLEEvent ==
  /\ inflight # <<>>
  /\ Reliable => pc # "tickRead"
  /\ inflight' = Tail(inflight)
  /\ position' = Head(inflight)
  /\ haPos' = toHA(Head(inflight), Invert)
  /\ avail' = "online"
  /\ UNCHANGED <<mode, thread, queues, timers, view, haState, connected, link, reach,
                 blind, run, history, left>>

\* Run's context is cancelled ...
Cancel ==
  /\ ~cancelled
  /\ cancelled' = TRUE
  /\ UNCHANGED <<mode, thread, queues, timers, view, ha, client, air, blind, shutdown,
                 history, left>>

\* ... and Run, beside the manager that may still be anywhere, publishes "offline" ...
ShutdownOffline ==
  /\ cancelled /\ shutdown = "no" /\ Budget.shutdown
  /\ shutdown' = "said" /\ avail' = "offline"
  /\ UNCHANGED <<mode, thread, queues, timers, view, haState, haPos, client, air, blind,
                 cancelled, history, left>>

\* ... and drops the link.
ShutdownDisconnect ==
  /\ cancelled /\ shutdown = "said"
  /\ shutdown' = "done"
  /\ Disconnect
  /\ UNCHANGED <<mode, thread, queues, timers, view, ha, reach, blind, cancelled,
                 history, left>>

\* The blind travels towards its goal.
MotorStep ==
  /\ motor # goal
  /\ \E p \in Positions :
       /\ p \in (motor + 1)..goal \/ p \in goal..(motor - 1)
       /\ motor' = p
  /\ moved' = Reliable
  /\ UNCHANGED <<mode, thread, queues, timers, view, ha, client, air, goal, run,
                 touched, cut, left>>

\* Somebody moves the blind with the RF remote.
RemoteMove ==
  /\ left.remote > 0
  /\ left' = [left EXCEPT !.remote = @ - 1]
  /\ goal' \in Positions \ {goal}
  /\ touched' = TRUE
  /\ UNCHANGED <<mode, thread, queues, timers, view, ha, client, air, motor, run,
                 cut, moved>>

\* The motor drops the link after a while without telling anybody.
LinkDrop ==
  /\ ~Reliable /\ link /\ Budget.drops
  /\ link' = FALSE
  /\ UNCHANGED <<mode, thread, queues, timers, view, ha, client, reach, inflight, blind,
                 run, history, left>>

\* The blind goes out of range, or comes back.
ReachChanges ==
  /\ ~Reliable
  /\ reach' = ~reach
  /\ link' = FALSE
  /\ UNCHANGED <<mode, thread, queues, timers, view, ha, client, inflight, blind,
                 run, history, left>>

\* OverrideTimeout elapses.
OverrideExpires ==
  /\ override
  /\ override' = FALSE
  /\ UNCHANGED <<mode, thread, queues, timers, lastPos, posKnown, ha, client, air, blind,
                 run, history, left>>

-----------------------------------------------------------------------------
Steps ==
  \/ Connect \/ Backoff \/ OpEnsure \/ OpSend \/ Reconnect
  \/ TrackTick \/ TickSend \/ TickRead
  \/ RefreshEnsure \/ RefreshSend \/ RefreshWait

Selects ==
  \/ TakeOp \/ SelectRefresh \/ SelectIdle \/ Evaluate \/ applyControl
  \/ TrackTimeout \/ TrackDone \/ Exit \/ Strand

Environment ==
  \/ handleCommand \/ handleSetPosition \/ handleButton \/ sendControl
  \/ onBLEEvent \/ Cancel \/ ShutdownOffline \/ ShutdownDisconnect
  \/ MotorStep \/ RemoteMove \/ LinkDrop \/ ReachChanges \/ OverrideExpires

Next == Steps \/ Selects \/ Environment

\* Go's select takes a ready case at random, so a case that is ready again and
\* again is taken some day (SF); timers and I/O that are due happen (WF).
Fairness ==
  /\ WF_vars(Steps)
  /\ SF_vars(TakeOp) /\ SF_vars(SelectRefresh) /\ WF_vars(SelectIdle)
  /\ SF_vars(TrackTimeout) /\ SF_vars(TrackDone) /\ SF_vars(Exit)
  /\ WF_vars(onBLEEvent) /\ WF_vars(MotorStep)

Spec == Init /\ [][Next]_vars

FairSpec == Spec /\ Fairness

-----------------------------------------------------------------------------
(* Safety.                                                                    *)

\* Whenever an on-demand manager waits in its loop with the link up, the idle
\* timer runs (scheduleRefresh): no sequence of commands, refreshes, reconnects
\* inside Send and controller steps leaves a link up for good.
IdleTimerGuardsLink == pc = "select" /\ onDemand /\ connected => idleArmed

\* A polling on-demand manager that waits in its loop has its next refresh
\* scheduled, however the last command or refresh ended (scheduleRefresh).
PollKeepsScheduled == pc = "select" /\ mode = "poll" => refreshArmed

\* An on-demand manager that waits in its loop has the timers running that end its
\* link and its blindness.
TimersArmed == IdleTimerGuardsLink /\ PollKeepsScheduled

\* In command-only mode the refresh timer fires once, at startup, and is never
\* armed again: only a command wakes the link (scheduleRefresh, poll == 0).
CommandOnlyNeverPolls == [][mode = "command" /\ ~refreshArmed => ~refreshArmed']_vars

\* Home Assistant is never left with a movement: whenever the manager is back in
\* its loop, or reconnecting, the last cover state published is a resting one,
\* also after a failed command, a timeout, a stop or a second command that
\* interrupted the first (runOp, trackUntilSettled).
MovementConcluded ==
  pc \in {"select", "top", "backoff"} /\ ~cancelled => haState \notin MovingStates

\* Until the shutdown a blind that is connected and logged in is not shown offline:
\* every path that reconnects, the one hidden inside Send included, corrects an earlier
\* "offline" (ensureConnected, onBLEEvent).  Nothing is claimed of a blind that is still
\* logging in (ConnectOk), nor of the shutdown, which says "offline" before it
\* disconnects.
ConnectedShownOnline == connected /\ ~cancelled => avail = "online"

\* runPersistent only connects with the link torn down: a second Connect over a
\* live link would leak a notification subscription (pollLoop's error path,
\* Disconnect).
ReconnectsOnlyWhenDown == pc \in {"top", "backoff"} => ~connected /\ ~link

\* An on-demand manager that has returned left no link behind (the deferred
\* Disconnect of runOnDemand).
ExitDropsLink == pc = "exit" /\ onDemand => ~connected /\ ~link

\* A manager that is through with a connection, to make another or for good, has
\* dropped the link.
LinkDroppedFirst == ReconnectsOnlyWhenDown /\ ExitDropsLink

\* The places where an op is being run, its movement tracked.
Operating == {"opEnsure", "opSend", "track", "tickSend", "tickRead"}

C == INSTANCE Cover WITH
       state <- haState, seen <- lastPos, attended <- pc \in Operating, gone <- cancelled

\* What Home Assistant and the controller are shown of a blind is that of a cover
\* (module Cover): every movement is announced and attended to until the blind rests,
\* and whenever it is found at rest both are told the same (publishState, observe).
ImplementsCover == C!Spec

-----------------------------------------------------------------------------
(* What only holds when the radio is reliable, or not at all.                 *)

\* As long as replies come in time, the override is armed only by a command, its STOP's
\* stale sample included (cut), or when a person moved the blind: automation's own
\* moves are never misread as external moves (comment of observe).
OverrideOnlyForOthers ==
  [][~override /\ override' /\ ~cancelled =>
       touched \/ cut \/ (pc' = "opEnsure" /\ cur'.origin = "manual")]_vars

\* As long as replies come in time, a blind that nobody moved with the remote since it
\* was last observed rests whenever the manager is back in its loop, and what Home
\* Assistant shows is where it is (publishSettled after refreshState and
\* trackUntilSettled).  The exception is of the code's own making: a STOP that cuts a
\* movement short settles at once with the last sample (trackUntilSettled), and what is
\* shown is right again only with the next refresh or move, which in command-only mode
\* takes another command.
RestingStateTrue ==
  pc = "select" /\ ~touched /\ ~cancelled /\ posKnown =>
    /\ motor = goal
    /\ ~cut => haPos = toHA(motor, Invert) /\ haState = restingState(haPos)

\* A movement announced as opening never leaves a blind that nobody else touched
\* more closed, in Home Assistant's eyes, than it was last seen (README: invert is
\* for a blind whose open and closed end up swapped).  With Invert the code does not
\* keep it.
OpeningNeverCloses ==
  [][haState = "opening" /\ haState' \in RestingStates /\ posKnown
        /\ ~touched /\ ~cancelled => lastPos' >= lastPos]_vars

\* An automation move is not carried out while the override is in force
\* (README: a manual move pauses automation so that it never fights the user).
AutoNeverFightsUser == pc = "opSend" /\ cur.origin = "auto" => ~override

-----------------------------------------------------------------------------
(* Liveness, under FairSpec.                                                  *)

\* A movement announced to Home Assistant is concluded some day, whatever the
\* radio does (trackUntilSettled's tracker and safety timeout).
MovementEnds == haState \in MovingStates ~> (haState \notin MovingStates \/ cancelled)

\* A command that was queued is taken by an on-demand manager, or given up to
\* the cancellation.
CommandsTaken == onDemand /\ actions # <<>> ~> actions = <<>> \/ cancelled

\* A blind that stays in range is shown online again and stays so (the retries
\* of runPersistent and scheduleRefresh); command-only mode does not chase.
ReachableShownOnline ==
  mode # "command" => ((<>[]reach) => <>([](avail = "online") \/ cancelled))

\* A blind that stays out of range is shown offline for good, although nothing
\* tells the client that the link dropped (the polls find out).
UnreachableShownOffline ==
  mode # "command" => ((<>[]~reach) => <>([](avail = "offline") \/ cancelled))

\* In the end Home Assistant is shown whether the blind can be reached.
AvailabilityFollows == ReachableShownOnline /\ UnreachableShownOffline

\* In command-only mode the link does not stay up: once the commands are done it
\* is dropped after the idle window.
IdleLinkDropped == mode = "command" => []<>~connected

\* The goroutine waits in a scan that was cancelled too soon, for ever.
Stranded == pc = "stranded"

\* Cancelling Run ends the manager goroutine wherever it waits, be it in its select, a
\* backoff, a tracked movement or a failing Send (runPersistent, runOnDemand,
\* trackUntilSettled), except in the one place where it can be stranded: the scan.
CancelExits == cancelled ~> (pc = "exit" \/ Stranded)
=============================================================================
