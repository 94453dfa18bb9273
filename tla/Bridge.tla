-------------------------------- MODULE Bridge --------------------------------
(* The bridge (pkg/blissha/bridge.go): Run from the first connection to MQTT to *)
(* its return, the connect handler, and the availability that Home Assistant is *)
(* shown.  Three kinds of goroutine report a blind's availability: its manager, *)
(* the Bluetooth callback and, at shutdown, Run.  A report is decided under     *)
(* availMu and published after it, so the two are separate steps.               *)
(*                                                                              *)
(* Assumed of the MQTT client (paho, which is not part of this code): it keeps  *)
(* what is published while it is not connected, before the first connection as  *)
(* well as later, and hands it over in order; the broker acknowledges within    *)
(* the 2 s that Run waits while the connection is up.  What a manager reports,  *)
(* and when, is module Manager's subject: here it may report anything at any    *)
(* time.                                                                        *)
EXTENDS Sequences, Naturals

CONSTANTS
  Blinds,       \* the blinds whose adapter was found
  MaxConnects,  \* bound: connections to the broker
  MaxReports    \* bound: changes of availability that managers and callbacks report

\* The id of a blind, of which its topics are made, is its MAC address.
ASSUME BridgeAssumption ==
  MaxConnects \in Nat /\ MaxReports \in Nat /\ "bridge" \notin Blinds

VARIABLES
  run,          \* where Run is
  todo,         \* the blinds that Run has not yet marked offline
  mgr,          \* manager goroutines: "new", "running", "exit" or "stranded"
  cancelled,    \* Run's context
  availState,   \* per blind: the availability last decided
  pending,      \* per reporter and blind: decided but not yet published
  mqtt,         \* the connection: "down", "up", or "closed" for good
  handlers,     \* per connection: what its connect handler does next
  outbox,       \* published but not yet at the broker
  retained,     \* the broker's retained messages, by topic
  forgot,       \* history: has it restarted without them?
  subs,         \* blinds whose command topics are subscribed
  connects,     \* how many connections there were
  \* history: blinds that two reporters handled at once; did MQTT connect, or a connect
  \* handler run, after Run had marked the bridge offline?  and what the bound leaves
  raced, late, reports

shutdown == <<run, todo, cancelled>>
report   == <<availState, pending, raced, reports>>
broker   == <<retained, forgot, subs>>
link     == <<mqtt, connects>>
vars == <<shutdown, mgr, report, link, handlers, outbox, broker, late>>

Reporters == {"manager", "callback", "run"}
Bridge == <<"bridge", "availability">>
Avail(b) == <<b, "availability">>
Discovery == <<"discovery", "config">>   \* all blinds' discovery configs together
Topics == {Bridge, Discovery} \cup {Avail(b) : b \in Blinds}
Payloads == {"online", "offline"}
Msg(topic, payload) == [topic |-> topic, payload |-> payload]

TypeOK ==
  /\ run \in {"connecting", "serving", "token", "managers", "done"}
  /\ todo \subseteq Blinds
  /\ mgr \in [Blinds -> {"new", "running", "exit", "stranded"}]
  /\ cancelled \in BOOLEAN
  /\ availState \in [Blinds -> {"unset", "online", "offline"}]
  /\ pending \in [Reporters \X Blinds -> {"none", "online", "offline"}]
  /\ mqtt \in {"down", "up", "closed"} /\ connects \in 0..MaxConnects
  /\ handlers \in [1..MaxConnects -> {"idle", "bridge", "managers"}]
  /\ outbox \in Seq([topic : Topics, payload : Payloads])
  /\ retained \in [Topics -> {"unset", "config"} \cup Payloads]
  /\ forgot \in BOOLEAN /\ subs \subseteq Blinds
  /\ raced \subseteq Blinds /\ late \in BOOLEAN /\ reports \in 0..MaxReports

\* Run has begun to connect, and no manager runs.
Init ==
  /\ run = "connecting" /\ todo = Blinds /\ cancelled = FALSE
  /\ mgr = [b \in Blinds |-> "new"]
  /\ availState = [b \in Blinds |-> "unset"]
  /\ pending = [rb \in Reporters \X Blinds |-> "none"]
  /\ mqtt = "down" /\ connects = 0
  /\ handlers = [i \in 1..MaxConnects |-> "idle"]
  /\ outbox = <<>>
  /\ retained = [t \in Topics |-> "unset"]
  /\ forgot = FALSE /\ subs = {}
  /\ raced = {} /\ late = FALSE /\ reports = MaxReports

-----------------------------------------------------------------------------
(* The MQTT client and the broker.                                            *)

\* A bug: with QoS 0 a message published while the client reconnects is lost.
HandOverQoS0(msgs) == outbox' = IF mqtt = "up" THEN outbox \o msgs ELSE outbox

\* client.Publish with QoS 1: kept until the client is connected, refused once closed.  That
\* it keeps what managers publish before the very first connection (Run starts them after
\* 10 s without one) is an assumption about the library, not something the code ensures.
HandOver(msgs) == outbox' = IF mqtt = "closed" THEN outbox ELSE outbox \o msgs

\* Run has handed over the bridge's "offline".
BridgeMarked == run \in {"token", "managers", "done"}

\* The connection comes up, for the first time or again: a clean session, without
\* subscriptions, and a new goroutine runs the connect handler.
MqttConnects ==
  /\ mqtt = "down" /\ connects < MaxConnects
  /\ mqtt' = "up" /\ connects' = connects + 1
  /\ handlers' = [handlers EXCEPT ![connects + 1] = "bridge"]
  /\ late' = (late \/ BridgeMarked)
  /\ UNCHANGED <<shutdown, mgr, report, outbox, broker>>

\* The connection is lost: the broker publishes the will.
MqttDrops ==
  /\ mqtt = "up"
  /\ mqtt' = "down" /\ subs' = {}
  /\ retained' = [retained EXCEPT ![Bridge] = "offline"]
  /\ UNCHANGED <<shutdown, mgr, report, connects, handlers, outbox, forgot, late>>

\* The broker restarts without having stored its retained messages.
BrokerRestarts ==
  /\ mqtt = "up"
  /\ mqtt' = "down" /\ subs' = {}
  /\ retained' = [t \in Topics |-> "unset"] /\ forgot' = TRUE
  /\ UNCHANGED <<shutdown, mgr, report, connects, handlers, outbox, late>>

Deliver ==
  /\ mqtt = "up" /\ outbox # <<>>
  /\ retained' = [retained EXCEPT ![Head(outbox).topic] = Head(outbox).payload]
  /\ outbox' = Tail(outbox)
  /\ UNCHANGED <<shutdown, mgr, report, link, handlers, forgot, subs, late>>

-----------------------------------------------------------------------------
(* Bridge.onMQTTConnect: the bridge's availability, then every manager's      *)
(* discovery and subscriptions.                                               *)

AnnounceBridge(i) ==
  /\ handlers[i] = "bridge"
  /\ handlers' = [handlers EXCEPT ![i] = "managers"]
  /\ HandOver(<<Msg(Bridge, "online")>>)
  /\ late' = (late \/ BridgeMarked)
  /\ UNCHANGED <<shutdown, mgr, report, link, broker>>

\* A bug: the subscriptions are believed to survive the connection.
AnnounceManagersOnce(i) ==
  /\ handlers[i] = "managers"
  /\ handlers' = [handlers EXCEPT ![i] = "idle"]
  /\ IF mqtt = "up"
     THEN /\ retained' = [retained EXCEPT ![Discovery] = "config"]
          /\ subs' = IF i = 1 THEN Blinds ELSE subs
     ELSE UNCHANGED <<retained, subs>>
  /\ UNCHANGED <<shutdown, mgr, report, link, outbox, forgot, late>>

\* manager.onMQTTConnect for each manager: a subscription needs the connection.  The
\* discovery configs are at the broker at once, since no order with other messages
\* matters; without a connection, those of the next one take their place.
AnnounceManagers(i) ==
  /\ handlers[i] = "managers"
  /\ handlers' = [handlers EXCEPT ![i] = "idle"]
  /\ IF mqtt = "up"
     THEN retained' = [retained EXCEPT ![Discovery] = "config"] /\ subs' = Blinds
     ELSE UNCHANGED <<retained, subs>>
  /\ UNCHANGED <<shutdown, mgr, report, link, outbox, forgot, late>>

OnMQTTConnect(i) == AnnounceBridge(i) \/ AnnounceManagers(i)

-----------------------------------------------------------------------------
(* publishAvailability.                                                       *)

\* The decision, under availMu; whoever decides while another report is being
\* published races with it.
Decided(r, b, state) ==
  /\ pending[r, b] = "none"
  /\ availState' = [availState EXCEPT ![b] = state]
  /\ pending' = [pending EXCEPT ![<<r, b>>] = IF state # availState[b] THEN state ELSE "none"]
  /\ raced' = IF \E q \in Reporters : pending[q, b] # "none" THEN raced \cup {b} ELSE raced

\* A manager or the callback reports a change (what is unchanged is not published).
Report(r, b, state) ==
  /\ r = "manager" => mgr[b] = "running"
  /\ r = "callback" => state = "online" /\ mgr[b] # "new" /\ run # "done"
  /\ state # availState[b] /\ reports > 0
  /\ reports' = reports - 1
  /\ Decided(r, b, state)
  /\ UNCHANGED <<shutdown, mgr, link, handlers, outbox, broker, late>>

\* The publication, without the lock.
Publish(r, b) ==
  /\ pending[r, b] # "none"
  /\ HandOver(<<Msg(Avail(b), pending[r, b])>>)
  /\ pending' = [pending EXCEPT ![<<r, b>>] = "none"]
  /\ UNCHANGED <<shutdown, mgr, availState, raced, reports, link, handlers, broker, late>>

-----------------------------------------------------------------------------
(* Run and the managers' goroutines.                                          *)

\* After 10 s at the latest, connected or not, the managers are started.
StartManagers ==
  /\ run = "connecting"
  /\ run' = "serving"
  /\ mgr' = [b \in Blinds |-> "running"]
  /\ UNCHANGED <<todo, cancelled, report, link, handlers, outbox, broker, late>>

\* A manager whose context is cancelled returns ...
ManagerExits(b) ==
  /\ cancelled /\ mgr[b] = "running" /\ pending["manager", b] = "none"
  /\ mgr' = [mgr EXCEPT ![b] = "exit"]
  /\ UNCHANGED <<shutdown, report, link, handlers, outbox, broker, late>>

\* ... unless it is in a scan, which may then never end (Manager's Strand).
ManagerStrands(b) ==
  /\ cancelled /\ mgr[b] = "running" /\ pending["manager", b] = "none"
  /\ mgr' = [mgr EXCEPT ![b] = "stranded"]
  /\ UNCHANGED <<shutdown, report, link, handlers, outbox, broker, late>>

Cancel ==
  /\ ~cancelled
  /\ cancelled' = TRUE
  /\ UNCHANGED <<run, todo, mgr, report, link, handlers, outbox, broker, late>>

\* <-ctx.Done(), and what Run decided last is published.
ShuttingDown ==
  run = "serving" /\ cancelled /\ \A b \in Blinds : pending["run", b] = "none"

\* The loop over the managers; Disconnect is BlindClient's subject.
MarkBlind(b) ==
  /\ ShuttingDown /\ b \in todo
  /\ todo' = todo \ {b}
  /\ Decided("run", b, "offline")
  /\ UNCHANGED <<run, cancelled, mgr, reports, link, handlers, outbox, broker, late>>

\* A bug: the bridge relies on its will, which a clean disconnection does not trigger.
MarkBridgeByWill ==
  /\ ShuttingDown /\ todo = {}
  /\ run' = "token"
  /\ UNCHANGED <<todo, cancelled, mgr, report, link, handlers, outbox, broker, late>>

MarkBridge ==
  /\ ShuttingDown /\ todo = {}
  /\ HandOver(<<Msg(Bridge, "offline")>>)
  /\ run' = "token"
  /\ UNCHANGED <<todo, cancelled, mgr, report, link, handlers, broker, late>>

\* A bug: Run waits for the broker, however long it is away.
TokenAcked ==
  /\ run = "token"
  /\ \A i \in DOMAIN outbox : outbox[i] # Msg(Bridge, "offline")
  /\ run' = "managers"
  /\ UNCHANGED <<todo, cancelled, mgr, report, link, handlers, outbox, broker, late>>

\* WaitTimeout(2 s): the acknowledgement, or a connection that is not up.
Token ==
  /\ run = "token"
  /\ mqtt # "up" \/ \A i \in DOMAIN outbox : outbox[i] # Msg(Bridge, "offline")
  /\ run' = "managers"
  /\ UNCHANGED <<todo, cancelled, mgr, report, link, handlers, outbox, broker, late>>

\* wg.Wait, then a clean disconnection, which drops what is still in the outbox.
Return ==
  /\ run = "managers" /\ \A b \in Blinds : mgr[b] = "exit"
  /\ run' = "done"
  /\ mqtt' = "closed" /\ subs' = {} /\ outbox' = <<>>
  /\ UNCHANGED <<todo, cancelled, mgr, report, connects, handlers, retained, forgot, late>>

RunStep ==
  \/ StartManagers \/ (\E b \in Blinds : MarkBlind(b)) \/ MarkBridge \/ Token \/ Return

Next ==
  \/ RunStep \/ Cancel
  \/ MqttConnects \/ MqttDrops \/ BrokerRestarts \/ Deliver
  \/ \E i \in 1..MaxConnects : OnMQTTConnect(i)
  \/ \E b \in Blinds :
       \/ ManagerExits(b) \/ ManagerStrands(b)
       \/ \E r \in Reporters : Publish(r, b)
       \/ \E r \in {"manager", "callback"}, s \in {"online", "offline"} : Report(r, b, s)

Spec == Init /\ [][Next]_vars

Goroutines ==
  \/ RunStep
  \/ \E i \in 1..MaxConnects : OnMQTTConnect(i)
  \/ \E b \in Blinds : ManagerExits(b) \/ \E r \in Reporters : Publish(r, b)

\* While some goroutine can go on, one does (each has but a few steps to go, so that is
\* enough); a connected broker takes what it is sent.
FairSpec == Spec /\ WF_vars(Goroutines) /\ WF_vars(Deliver)

-----------------------------------------------------------------------------
\* What Home Assistant makes of the two topics (availability_mode "all").
Available(b) == retained[Bridge] = "online" /\ retained[Avail(b)] = "online"

\* The connection is up, its handlers are through, and every report of this blind is
\* at the broker.
Reported(b) ==
  /\ mqtt = "up" /\ \A i \in 1..MaxConnects : handlers[i] = "idle"
  /\ \A r \in Reporters : pending[r, b] = "none"
  /\ \A i \in DOMAIN outbox : outbox[i].topic # Avail(b)

\* Unless two reporters handle a blind at the same time, the broker ends up with
\* what was decided last, through lost and restored connections: change tracking
\* never suppresses a report that the broker does not have (publishAvailability).
\* The exception is a broker that forgot it: it then has nothing, but nothing wrong.
AvailabilityShown ==
  \A b \in Blinds \ raced : Reported(b) =>
    \/ retained[Avail(b)] = availState[b]
    \/ forgot /\ retained[Avail(b)] = "unset"

\* After Run has returned no blind is shown available, whether the connection was
\* up, down, or lost on the way, unless MQTT connected during the shutdown (Run,
\* SetWill).
GoneIsUnavailable == run = "done" /\ ~late => \A b \in Blinds : ~Available(b)

\* A manager waits for ever in a scan that was cancelled.
Stranded == \E b \in Blinds : mgr[b] = "stranded"

\* After the cancellation Run marks everything offline and returns, with or without a
\* broker.  The one thing that keeps it is wg.Wait on a manager stranded in a scan; by then
\* it has marked everything all the same.
RunReturns == cancelled ~> run = "done" \/ (run = "managers" /\ Stranded)

\* While the connection stays up the bridge is shown online for good (the will of a
\* lost connection never has the last word), and every blind is known to Home Assistant
\* and takes commands again, also after a broker restart (onMQTTConnect).
EntitiesRestored ==
  (<>[](mqtt = "up" /\ ~cancelled)) =>
    <>[](retained[Bridge] = "online" /\ retained[Discovery] = "config" /\ subs = Blinds)
=============================================================================
