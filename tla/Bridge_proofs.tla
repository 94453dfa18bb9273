----------------------------- MODULE Bridge_proofs -----------------------------
(* Proofs about Bridge, for any number of blinds, connections and reports.       *)
EXTENDS Bridge, SequenceTheorems, TLAPS

(*****************************************************************************)
(* The inductive invariant.                                                  *)
(*****************************************************************************)

\* Nobody is about to publish a report of this blind.
Idle(b) == \A r \in Reporters : pending[r, b] = "none"

\* Is message i the last one of its topic that is on its way?
LastOf(msgs, i, topic) ==
  msgs[i].topic = topic /\ \A j \in 1..Len(msgs) : j > i => msgs[j].topic # topic

Absent(msgs, topic) == \A i \in 1..Len(msgs) : msgs[i].topic # topic

\* Of a blind that no two reporters handled at once at most one report is to be
\* published, and it is what was decided last.
PendingIsDecided ==
  \A b \in Blinds \ raced : \A r \in Reporters :
    pending[r, b] # "none" =>
      /\ pending[r, b] = availState[b]
      /\ \A q \in Reporters : q # r => pending[q, b] = "none"

\* Once it is published, it is the last of the blind's messages that are on their
\* way, or else what the broker retains, unless the broker forgot it.
DecidedArrives ==
  \A b \in Blinds \ raced : mqtt # "closed" /\ Idle(b) =>
    /\ \A i \in 1..Len(outbox) :
         LastOf(outbox, i, Avail(b)) => outbox[i].payload = availState[b]
    /\ Absent(outbox, Avail(b)) =>
         retained[Avail(b)] = availState[b] \/ (forgot /\ retained[Avail(b)] = "unset")

\* Without a connection the will, or a broker that forgot, has the last word.
WillHasSpoken == mqtt = "down" => retained[Bridge] # "online"

\* The bridge is not shown online, and nothing that is on its way will change that.
GoneForGood ==
  /\ retained[Bridge] # "online"
  /\ mqtt = "up" => \A i \in 1..Len(outbox) : outbox[i] # Msg(Bridge, "online")

\* The bridge's "offline" is on its way, behind every "online".
OfflineUnderway ==
  \E i \in 1..Len(outbox) :
    /\ outbox[i] = Msg(Bridge, "offline")
    /\ \A j \in 1..Len(outbox) : j > i => outbox[j] # Msg(Bridge, "online")

\* What marking the bridge offline achieves, as long as MQTT does not connect again.
MarkedStays ==
  /\ BridgeMarked /\ ~late /\ mqtt = "up" => OfflineUnderway \/ GoneForGood
  /\ run \in {"managers", "done"} /\ ~late => GoneForGood
  /\ mqtt = "closed" <=> run = "done"

IInv == TypeOK /\ PendingIsDecided /\ DecidedArrives /\ WillHasSpoken /\ MarkedStays

(*****************************************************************************)
(* Topics and messages.                                                      *)
(*****************************************************************************)

Messages == [topic : Topics, payload : Payloads]

LEMMA TopicFacts ==
  /\ Bridge \in Topics /\ Discovery \in Topics /\ Bridge # Discovery
  /\ \A b \in Blinds : Avail(b) \in Topics /\ Avail(b) # Bridge /\ Avail(b) # Discovery
  /\ \A b, c \in Blinds : b # c => Avail(b) # Avail(c)
BY BridgeAssumption DEF Topics, Bridge, Discovery, Avail

LEMMA MsgFacts ==
  ASSUME NEW t \in Topics, NEW p \in Payloads
  PROVE  Msg(t, p) \in Messages /\ Msg(t, p).topic = t /\ Msg(t, p).payload = p
BY DEF Msg, Messages

LEMMA BoundsTyped == MaxConnects \in Nat /\ MaxReports \in Nat
BY BridgeAssumption

\* A message that is handed over comes last, unless the client is closed.
LEMMA HandOverFacts ==
  ASSUME outbox \in Seq(Messages), NEW m \in Messages, HandOver(<<m>>)
  PROVE  /\ outbox' \in Seq(Messages)
         /\ mqtt = "closed" => outbox' = outbox
         /\ mqtt # "closed" =>
              /\ Len(outbox') = Len(outbox) + 1 /\ outbox'[Len(outbox) + 1] = m
              /\ \A i \in 1..Len(outbox) : outbox'[i] = outbox[i]
<1>1. CASE mqtt = "closed"
  BY <1>1 DEF HandOver
<1>2. CASE mqtt # "closed"
  <2>1. outbox' = outbox \o <<m>>
    BY <1>2 DEF HandOver
  <2>2. <<m>> \in Seq(Messages) /\ Len(<<m>>) = 1 /\ <<m>>[1] = m
    OBVIOUS
  <2>3. /\ outbox \o <<m>> \in Seq(Messages) /\ Len(outbox \o <<m>>) = Len(outbox) + 1
        /\ \A i \in 1..(Len(outbox) + 1) :
             (outbox \o <<m>>)[i] = IF i <= Len(outbox) THEN outbox[i] ELSE <<m>>[i - Len(outbox)]
    BY <2>2, ConcatProperties
  <2>4. Len(outbox) \in Nat
    BY LenProperties
  <2> QED BY <1>2, <2>1, <2>2, <2>3, <2>4
<1> QED BY <1>1, <1>2

LEMMA DeliverFacts ==
  ASSUME outbox \in Seq(Messages), retained \in [Topics -> {"unset", "config"} \cup Payloads],
         Deliver
  PROVE  /\ Len(outbox) \in Nat \ {0}
         /\ outbox' \in Seq(Messages) /\ Len(outbox') = Len(outbox) - 1
         /\ \A i \in 1..(Len(outbox) - 1) : outbox'[i] = outbox[i + 1]
         /\ outbox[1] \in Messages
         /\ retained' \in [Topics -> {"unset", "config"} \cup Payloads]
         /\ \A t \in Topics : retained'[t] =
              IF t = outbox[1].topic THEN outbox[1].payload ELSE retained[t]
<1>1. outbox # <<>> /\ outbox' = Tail(outbox)
  BY DEF Deliver
<1>2. /\ Len(outbox) \in Nat \ {0} /\ Head(outbox) = outbox[1] /\ outbox[1] \in Messages
      /\ Tail(outbox) \in Seq(Messages) /\ Len(Tail(outbox)) = Len(outbox) - 1
      /\ \A i \in 1..Len(Tail(outbox)) : Tail(outbox)[i] = outbox[i + 1]
  BY <1>1, EmptySeq, HeadTailProperties
<1>3. retained' = [retained EXCEPT ![outbox[1].topic] = outbox[1].payload]
  BY <1>2 DEF Deliver
<1>4. outbox[1].topic \in Topics /\ outbox[1].payload \in Payloads
  BY <1>2 DEF Messages
<1> QED BY <1>1, <1>2, <1>3, <1>4

LEMMA OutboxTyped ==
  ASSUME TypeOK
  PROVE  /\ outbox \in Seq(Messages) /\ Len(outbox) \in Nat /\ DOMAIN outbox = 1..Len(outbox)
         /\ \A i \in 1..Len(outbox) : outbox[i] \in Messages
<1>1. outbox \in Seq(Messages)
  BY DEF TypeOK, Messages
<1>2. outbox \in [1..Len(outbox) -> Messages]
  BY <1>1, LenProperties
<1> QED BY <1>1, <1>2, LenProperties

(*****************************************************************************)
(* Types.                                                                    *)
(*****************************************************************************)

LEMMA InitIInv == Init => IInv
<1> SUFFICES ASSUME Init PROVE IInv
  OBVIOUS
<1>1. outbox \in Seq(Messages) /\ Len(outbox) = 0 /\ retained[Bridge] = "unset"
      /\ \A b \in Blinds : retained[Avail(b)] = "unset"
  BY TopicFacts DEF Init
<1>2. TypeOK
  <2>1. outbox \in Seq([topic : Topics, payload : Payloads])
    BY <1>1 DEF Messages
  <2>2. /\ pending \in [Reporters \X Blinds -> {"none", "online", "offline"}]
        /\ handlers \in [1..MaxConnects -> {"idle", "bridge", "managers"}]
        /\ retained \in [Topics -> {"unset", "config"} \cup Payloads]
    BY DEF Init
  <2>3. connects \in 0..MaxConnects /\ reports \in 0..MaxReports
    BY BoundsTyped DEF Init
  <2> QED BY <2>1, <2>2, <2>3 DEF Init, TypeOK
<1>3. PendingIsDecided /\ DecidedArrives
  <2>1. /\ \A b \in Blinds : availState[b] = "unset"
        /\ \A b \in Blinds, q \in Reporters : pending[q, b] = "none"
    BY DEF Init
  <2>2. PendingIsDecided
    BY <2>1 DEF PendingIsDecided
  <2>3. ~\E i \in 1..Len(outbox) : TRUE
    BY <1>1
  <2>4. DecidedArrives
    BY <1>1, <2>1, <2>3 DEF DecidedArrives
  <2> QED BY <2>2, <2>4
<1>4. WillHasSpoken /\ MarkedStays
  BY <1>1 DEF Init, WillHasSpoken, MarkedStays, BridgeMarked
<1> QED BY <1>2, <1>3, <1>4 DEF IInv

LEMMA DecidedTyped ==
  ASSUME TypeOK, NEW r \in Reporters, NEW b \in Blinds, NEW state \in {"online", "offline"},
         Decided(r, b, state)
  PROVE  /\ availState' \in [Blinds -> {"unset", "online", "offline"}]
         /\ pending' \in [Reporters \X Blinds -> {"none", "online", "offline"}]
         /\ raced' \subseteq Blinds
BY DEF Decided, TypeOK

LEMMA NextType == ASSUME TypeOK, [Next]_vars PROVE TypeOK'
<1> USE DEF TypeOK
<1>1. CASE StartManagers
  BY <1>1 DEF StartManagers, report, link, broker
<1>2. ASSUME NEW b \in Blinds, MarkBlind(b) PROVE TypeOK'
  <2>1. "run" \in Reporters
    BY DEF Reporters
  <2> QED BY <1>2, <2>1, DecidedTyped DEF MarkBlind, link, broker
<1>3. CASE MarkBridge
  <2>1. outbox' \in Seq(Messages)
    BY <1>3, OutboxTyped, TopicFacts, MsgFacts, HandOverFacts DEF MarkBridge, Payloads
  <2> QED BY <1>3, <2>1 DEF MarkBridge, report, link, broker, Messages
<1>4. CASE Token \/ Return
  <2>1. CASE Token
    BY <2>1 DEF Token, report, link, broker
  <2>2. CASE Return
    BY <2>2 DEF Return, report
  <2> QED BY <1>4, <2>1, <2>2
<1>5. CASE Cancel
  BY <1>5 DEF Cancel, report, link, broker
<1>6. CASE MqttConnects
  <2>1. connects + 1 \in 1..MaxConnects
    BY <1>6, BoundsTyped DEF MqttConnects
  <2> QED BY <1>6, <2>1 DEF MqttConnects, shutdown, report, broker, BridgeMarked
<1>7. CASE MqttDrops
  <2>1. retained' \in [Topics -> {"unset", "config"} \cup Payloads]
    BY <1>7 DEF MqttDrops, Payloads
  <2> QED BY <1>7, <2>1 DEF MqttDrops, shutdown, report
<1>8. CASE BrokerRestarts
  BY <1>8 DEF BrokerRestarts, shutdown, report
<1>9. CASE Deliver
  <2>1. outbox' \in Seq(Messages) /\ retained' \in [Topics -> {"unset", "config"} \cup Payloads]
    BY <1>9, OutboxTyped, DeliverFacts
  <2> QED BY <1>9, <2>1 DEF Deliver, shutdown, report, link, Messages
<1>10. ASSUME NEW i \in 1..MaxConnects, AnnounceBridge(i) PROVE TypeOK'
  <2>1. outbox' \in Seq(Messages)
    BY <1>10, OutboxTyped, TopicFacts, MsgFacts, HandOverFacts DEF AnnounceBridge, Payloads
  <2> QED BY <1>10, <2>1 DEF AnnounceBridge, shutdown, report, link, broker, Messages, BridgeMarked
<1>11. ASSUME NEW i \in 1..MaxConnects, AnnounceManagers(i) PROVE TypeOK'
  BY <1>11 DEF AnnounceManagers, shutdown, report, link
<1>12. ASSUME NEW b \in Blinds, ManagerExits(b) \/ ManagerStrands(b) PROVE TypeOK'
  BY <1>12 DEF ManagerExits, ManagerStrands, shutdown, report, link, broker
<1>13. ASSUME NEW b \in Blinds, NEW r \in Reporters, Publish(r, b) PROVE TypeOK'
  <2>1. Msg(Avail(b), pending[r, b]) \in Messages
    <3>1. pending[r, b] \in Payloads
      BY <1>13 DEF Publish, Payloads
    <3> QED BY <3>1, TopicFacts, MsgFacts
  <2>2. outbox' \in Seq(Messages)
    BY <1>13, <2>1, OutboxTyped, HandOverFacts DEF Publish
  <2> QED BY <1>13, <2>2 DEF Publish, shutdown, link, broker, Messages
<1>14. ASSUME NEW b \in Blinds, NEW r \in {"manager", "callback"},
              NEW s \in {"online", "offline"}, Report(r, b, s)
       PROVE  TypeOK'
  <2>1. r \in Reporters
    BY DEF Reporters
  <2>2. reports' \in 0..MaxReports
    BY <1>14, BoundsTyped DEF Report
  <2> QED BY <1>14, <2>1, <2>2, DecidedTyped DEF Report, shutdown, link, broker
<1>15. CASE UNCHANGED vars
  BY <1>15 DEF vars, shutdown, report, link, broker
<1> QED
  BY <1>1, <1>2, <1>3, <1>4, <1>5, <1>6, <1>7, <1>8, <1>9, <1>10, <1>11, <1>12, <1>13,
     <1>14, <1>15
  DEF Next, RunStep, OnMQTTConnect

(*****************************************************************************)
(* What was decided last.                                                    *)
(*****************************************************************************)

\* A decision: unless two reporters race, the state decided is the one that is going
\* to be published.
LEMMA DecidedKeeps ==
  ASSUME IInv, NEW r \in Reporters, NEW b \in Blinds, NEW state \in {"online", "offline"},
         Decided(r, b, state),
         UNCHANGED <<mqtt, outbox, retained, forgot>>
  PROVE  PendingIsDecided' /\ DecidedArrives'
<1>1. /\ availState \in [Blinds -> {"unset", "online", "offline"}]
      /\ pending \in [Reporters \X Blinds -> {"none", "online", "offline"}]
  BY DEF IInv, TypeOK
<1>2. /\ availState'[b] = state
      /\ \A c \in Blinds : c # b => availState'[c] = availState[c]
      /\ pending'[r, b] = IF state # availState[b] THEN state ELSE "none"
      /\ \A q \in Reporters, c \in Blinds :
           c # b \/ q # r => pending'[q, c] = pending[q, c]
      /\ pending[r, b] = "none"
  BY <1>1 DEF Decided
<1>3. /\ raced \subseteq raced'
      /\ b \notin raced' => \A q \in Reporters : pending[q, b] = "none"
  BY DEF Decided
<1>4. ASSUME NEW c \in Blinds \ raced', NEW q \in Reporters, pending'[q, c] # "none"
      PROVE  /\ pending'[q, c] = availState'[c]
             /\ \A p \in Reporters : p # q => pending'[p, c] = "none"
  <2>1. CASE c = b
    BY <2>1, <1>2, <1>3, <1>4
  <2>2. CASE c # b
    <3>1. c \in Blinds \ raced /\ pending[q, c] # "none" /\ availState'[c] = availState[c]
          /\ \A p \in Reporters : pending'[p, c] = pending[p, c]
      BY <2>2, <1>2, <1>3, <1>4
    <3>2. /\ pending[q, c] = availState[c]
          /\ \A p \in Reporters : p # q => pending[p, c] = "none"
      BY <3>1 DEF IInv, PendingIsDecided
    <3> QED BY <3>1, <3>2
  <2> QED BY <2>1, <2>2
<1>5. ASSUME NEW c \in Blinds \ raced', Idle(c)'
      PROVE  c \in Blinds \ raced /\ Idle(c) /\ availState'[c] = availState[c]
  <2>1. CASE c = b
    BY <2>1, <1>2, <1>3, <1>5 DEF Idle
  <2>2. CASE c # b
    BY <2>2, <1>2, <1>3, <1>5 DEF Idle
  <2> QED BY <2>1, <2>2
<1>6. DecidedArrives'
  BY <1>5 DEF IInv, DecidedArrives, LastOf, Absent
<1> QED BY <1>4, <1>6 DEF PendingIsDecided

\* A message of another topic changes nothing for a blind.
LEMMA OtherMessageKeeps ==
  ASSUME IInv, NEW m \in Messages, \A b \in Blinds : m.topic # Avail(b),
         HandOver(<<m>>),
         UNCHANGED <<pending, availState, raced, mqtt, retained, forgot>>
  PROVE  PendingIsDecided' /\ DecidedArrives'
<1>1. PendingIsDecided'
  BY ZenonT(40) DEF IInv, PendingIsDecided
<1>2. ASSUME NEW b \in Blinds \ raced, mqtt # "closed", Idle(b)
      PROVE  /\ \A i \in 1..Len(outbox') :
                  LastOf(outbox', i, Avail(b)) => outbox'[i].payload = availState[b]
             /\ Absent(outbox', Avail(b)) =>
                  retained[Avail(b)] = availState[b] \/ (forgot /\ retained[Avail(b)] = "unset")
  <2>1. /\ outbox \in Seq(Messages) /\ Len(outbox) \in Nat
        /\ Len(outbox') = Len(outbox) + 1 /\ outbox'[Len(outbox) + 1] = m
        /\ \A i \in 1..Len(outbox) : outbox'[i] = outbox[i]
    BY <1>2, HandOverFacts, OutboxTyped DEF IInv
  <2>2. ASSUME NEW i \in 1..Len(outbox'), LastOf(outbox', i, Avail(b))
        PROVE  outbox'[i].payload = availState[b]
    <3>1. i \in 1..Len(outbox)
      BY <2>1, <2>2 DEF LastOf
    <3>2. LastOf(outbox, i, Avail(b))
      BY <2>1, <2>2, <3>1 DEF LastOf
    <3> QED BY <2>1, <3>1, <3>2, <1>2 DEF IInv, DecidedArrives
  <2>3. Absent(outbox', Avail(b)) => Absent(outbox, Avail(b))
    BY <2>1 DEF Absent
  <2> QED BY <2>2, <2>3, <1>2 DEF IInv, DecidedArrives
<1>3. DecidedArrives'
  BY <1>2 DEF DecidedArrives, Idle
<1> QED BY <1>1, <1>3

\* The publication of what was decided.
LEMMA PublishKeeps ==
  ASSUME IInv, NEW r \in Reporters, NEW b \in Blinds, Publish(r, b)
  PROVE  PendingIsDecided' /\ DecidedArrives'
<1> DEFINE m == Msg(Avail(b), pending[r, b])
<1>1. /\ pending \in [Reporters \X Blinds -> {"none", "online", "offline"}]
      /\ pending[r, b] # "none" /\ HandOver(<<m>>)
      /\ UNCHANGED <<availState, raced, mqtt, retained, forgot>>
  BY DEF IInv, TypeOK, Publish, link, broker
<1>2. /\ pending'[r, b] = "none"
      /\ \A q \in Reporters, c \in Blinds :
           c # b \/ q # r => pending'[q, c] = pending[q, c]
  BY <1>1 DEF Publish
<1>3. m \in Messages /\ m.topic = Avail(b) /\ m.payload = pending[r, b]
  <2>1. pending[r, b] \in Payloads
    BY <1>1 DEF Payloads
  <2> QED BY <2>1, TopicFacts, MsgFacts
<1> HIDE DEF m
<1>4. PendingIsDecided'
  <2> SUFFICES ASSUME NEW c \in Blinds \ raced, NEW q \in Reporters, pending'[q, c] # "none"
               PROVE  /\ pending'[q, c] = availState[c]
                      /\ \A p \in Reporters : p # q => pending'[p, c] = "none"
    BY <1>1 DEF PendingIsDecided
  <2>1. pending[q, c] # "none" /\ pending'[q, c] = pending[q, c]
    BY <1>2
  <2>2. /\ pending[q, c] = availState[c]
        /\ \A p \in Reporters : p # q => pending[p, c] = "none"
    BY <2>1 DEF IInv, PendingIsDecided
  <2> QED BY <2>1, <2>2, <1>2
<1>5. ASSUME NEW c \in Blinds \ raced, mqtt # "closed", Idle(c)'
      PROVE  /\ \A i \in 1..Len(outbox') :
                  LastOf(outbox', i, Avail(c)) => outbox'[i].payload = availState[c]
             /\ Absent(outbox', Avail(c)) =>
                  retained[Avail(c)] = availState[c] \/ (forgot /\ retained[Avail(c)] = "unset")
  <2>1. /\ outbox \in Seq(Messages) /\ Len(outbox) \in Nat
        /\ Len(outbox') = Len(outbox) + 1 /\ outbox'[Len(outbox) + 1] = m
        /\ \A i \in 1..Len(outbox) : outbox'[i] = outbox[i]
    BY <1>1, <1>3, <1>5, HandOverFacts, OutboxTyped DEF IInv
  <2>2. CASE c = b
    <3>1. pending[r, b] = availState[b]
      BY <2>2, <1>1 DEF IInv, PendingIsDecided
    <3>0. /\ Len(outbox) + 1 \in 1..Len(outbox') /\ outbox'[Len(outbox) + 1].topic = Avail(c)
          /\ outbox'[Len(outbox) + 1].payload = pending[r, b]
      <4>1. Len(outbox) + 1 \in 1..Len(outbox')
        BY <2>1
      <4> QED BY <4>1, <2>1, <2>2, <1>3, Zenon
    <3>2. ASSUME NEW i \in 1..Len(outbox'), LastOf(outbox', i, Avail(c))
          PROVE  i = Len(outbox) + 1
      <4>1. ~(Len(outbox) + 1 > i)
        BY <3>0, <3>2 DEF LastOf
      <4> QED BY <4>1, <2>1
    <3>3. ~Absent(outbox', Avail(c))
      BY <3>0 DEF Absent
    <3> QED BY <2>2, <3>0, <3>1, <3>2, <3>3
  <2>3. CASE c # b
    <3>1. m.topic # Avail(c)
      BY <1>3, <2>3, TopicFacts
    <3>2. Idle(c)
      BY <1>2, <1>5, <2>3 DEF Idle
    <3>3. ASSUME NEW i \in 1..Len(outbox'), LastOf(outbox', i, Avail(c))
          PROVE  outbox'[i].payload = availState[c]
      <4>1. i \in 1..Len(outbox)
        BY <2>1, <3>1, <3>3 DEF LastOf
      <4>2. LastOf(outbox, i, Avail(c))
        BY <2>1, <3>3, <4>1 DEF LastOf
      <4> QED BY <2>1, <4>1, <4>2, <3>2, <1>5 DEF IInv, DecidedArrives
    <3>4. Absent(outbox', Avail(c)) => Absent(outbox, Avail(c))
      BY <2>1 DEF Absent
    <3> QED BY <3>2, <3>3, <3>4, <1>5 DEF IInv, DecidedArrives
  <2> QED BY <2>2, <2>3
<1>6. DecidedArrives'
  BY <1>1, <1>5 DEF DecidedArrives
<1> QED BY <1>4, <1>6

\* The delivery of the oldest message: if it was a blind's last one, the broker now
\* retains what was decided.
LEMMA DeliverKeeps ==
  ASSUME IInv, Deliver
  PROVE  PendingIsDecided' /\ DecidedArrives'
<1>1. UNCHANGED <<pending, availState, raced, mqtt, forgot>>
  BY DEF Deliver, report, link
<1>2. PendingIsDecided'
  BY <1>1, ZenonT(40) DEF IInv, PendingIsDecided
<1>3. /\ Len(outbox) \in Nat \ {0}
      /\ outbox' \in Seq(Messages) /\ Len(outbox') = Len(outbox) - 1
      /\ \A i \in 1..(Len(outbox) - 1) : outbox'[i] = outbox[i + 1]
      /\ \A t \in Topics : retained'[t] =
           IF t = outbox[1].topic THEN outbox[1].payload ELSE retained[t]
  <2>1. outbox \in Seq(Messages) /\ retained \in [Topics -> {"unset", "config"} \cup Payloads]
    BY OutboxTyped DEF IInv, TypeOK
  <2> QED BY <2>1, DeliverFacts
<1>4. ASSUME NEW b \in Blinds \ raced, mqtt # "closed", Idle(b)
      PROVE  /\ \A i \in 1..Len(outbox') :
                  LastOf(outbox', i, Avail(b)) => outbox'[i].payload = availState[b]
             /\ Absent(outbox', Avail(b)) =>
                  retained'[Avail(b)] = availState[b] \/ (forgot /\ retained'[Avail(b)] = "unset")
  <2>1. /\ \A i \in 1..Len(outbox) :
             LastOf(outbox, i, Avail(b)) => outbox[i].payload = availState[b]
        /\ Absent(outbox, Avail(b)) =>
             retained[Avail(b)] = availState[b] \/ (forgot /\ retained[Avail(b)] = "unset")
    BY <1>4 DEF IInv, DecidedArrives
  <2>2. ASSUME NEW i \in 1..Len(outbox'), LastOf(outbox', i, Avail(b))
        PROVE  outbox'[i].payload = availState[b]
    <3>1. i + 1 \in 1..Len(outbox) /\ outbox'[i] = outbox[i + 1]
      BY <1>3
    <3>2. LastOf(outbox, i + 1, Avail(b))
      <4>1. outbox[i + 1].topic = Avail(b)
        BY <2>2, <3>1 DEF LastOf
      <4>2. ASSUME NEW j \in 1..Len(outbox), j > i + 1 PROVE outbox[j].topic # Avail(b)
        <5>1. j - 1 \in 1..Len(outbox') /\ j - 1 > i /\ outbox'[j - 1] = outbox[j]
          BY <1>3, <4>2
        <5> QED BY <5>1, <2>2 DEF LastOf
      <4> QED BY <4>1, <4>2 DEF LastOf
    <3> QED BY <2>1, <3>1, <3>2
  <2>3. ASSUME Absent(outbox', Avail(b))
        PROVE  retained'[Avail(b)] = availState[b] \/ (forgot /\ retained'[Avail(b)] = "unset")
    <3>1. \A j \in 2..Len(outbox) : outbox[j].topic # Avail(b)
      <4> TAKE j \in 2..Len(outbox)
      <4>1. j - 1 \in 1..Len(outbox') /\ outbox'[j - 1] = outbox[j]
        BY <1>3
      <4> QED BY <4>1, <2>3 DEF Absent
    <3>2. Avail(b) \in Topics
      BY TopicFacts
    <3>3. CASE outbox[1].topic = Avail(b)
      <4>1. LastOf(outbox, 1, Avail(b))
        BY <3>1, <3>3, <1>3 DEF LastOf
      <4> QED BY <4>1, <2>1, <3>2, <3>3, <1>3
    <3>4. CASE outbox[1].topic # Avail(b)
      <4>1. Absent(outbox, Avail(b))
        BY <3>1, <3>4, <1>3 DEF Absent
      <4> QED BY <4>1, <2>1, <3>2, <3>4, <1>3
    <3> QED BY <3>3, <3>4
  <2> QED BY <2>2, <2>3
<1>5. DecidedArrives'
  BY <1>1, <1>4 DEF DecidedArrives, Idle
<1> QED BY <1>2, <1>5

\* A step that publishes nothing and changes no report: what is on its way, and what
\* the broker retains, stays, or the broker forgot it.
LEMMA UnsentKeeps ==
  ASSUME IInv, UNCHANGED <<pending, availState, raced, outbox>>,
         mqtt' # "closed" => mqtt # "closed", forgot => forgot',
         \A b \in Blinds : retained'[Avail(b)] = retained[Avail(b)]
                           \/ (forgot' /\ retained'[Avail(b)] = "unset")
  PROVE  PendingIsDecided' /\ DecidedArrives'
<1>1. PendingIsDecided'
  <2>1. PendingIsDecided
    BY DEF IInv
  <2>2. pending' = pending /\ availState' = availState /\ raced' = raced
    OBVIOUS
  <2> QED BY ONLY <2>1, <2>2, ZenonT(40) DEF PendingIsDecided
<1>2. ASSUME NEW b \in Blinds \ raced, mqtt' # "closed", Idle(b)
      PROVE  /\ \A i \in 1..Len(outbox) :
                  LastOf(outbox, i, Avail(b)) => outbox[i].payload = availState[b]
             /\ Absent(outbox, Avail(b)) =>
                  retained'[Avail(b)] = availState[b] \/ (forgot' /\ retained'[Avail(b)] = "unset")
  BY <1>2 DEF IInv, DecidedArrives
<1>3. DecidedArrives'
  BY <1>2, ZenonT(60) DEF DecidedArrives, Idle, LastOf, Absent
<1> QED BY <1>1, <1>3

LEMMA NextDecided ==
  ASSUME IInv, [Next]_vars PROVE PendingIsDecided' /\ DecidedArrives'
<1>1. ASSUME UNCHANGED <<pending, availState, raced, mqtt, outbox, retained, forgot>>
      PROVE  PendingIsDecided' /\ DecidedArrives'
  BY <1>1, UnsentKeeps
<1>2. CASE StartManagers \/ Token \/ Cancel
  BY <1>1, <1>2 DEF StartManagers, Token, Cancel, report, link, broker
<1>3. ASSUME NEW b \in Blinds, MarkBlind(b) PROVE PendingIsDecided' /\ DecidedArrives'
  <2>1. "run" \in Reporters /\ Decided("run", b, "offline")
        /\ UNCHANGED <<mqtt, outbox, retained, forgot>>
    BY <1>3 DEF Reporters, MarkBlind, link, broker
  <2> QED BY <2>1, DecidedKeeps
<1>4. CASE MarkBridge
  <2>1. /\ Msg(Bridge, "offline") \in Messages
        /\ \A b \in Blinds : Msg(Bridge, "offline").topic # Avail(b)
    BY TopicFacts, MsgFacts DEF Payloads
  <2>2. /\ HandOver(<<Msg(Bridge, "offline")>>)
        /\ UNCHANGED <<pending, availState, raced, mqtt, retained, forgot>>
    BY <1>4 DEF MarkBridge, report, link, broker
  <2> QED BY <2>1, <2>2, OtherMessageKeeps
<1>5. CASE Return
  <2>1. mqtt' = "closed" /\ UNCHANGED <<pending, availState, raced>>
    BY <1>5 DEF Return, report
  <2>2. PendingIsDecided'
    BY <2>1, ZenonT(40) DEF IInv, PendingIsDecided
  <2> QED BY <2>1, <2>2 DEF DecidedArrives
<1>6. CASE MqttConnects
  <2>1. mqtt # "closed" /\ UNCHANGED <<pending, availState, raced, outbox, retained, forgot>>
    BY <1>6 DEF MqttConnects, report, broker
  <2> QED BY <2>1, UnsentKeeps
<1>7. CASE MqttDrops
  <2>1. /\ mqtt # "closed" /\ UNCHANGED <<pending, availState, raced, outbox, forgot>>
        /\ \A b \in Blinds : retained'[Avail(b)] = retained[Avail(b)]
    BY <1>7, TopicFacts DEF IInv, TypeOK, MqttDrops, report
  <2> QED BY <2>1, UnsentKeeps
<1>8. CASE BrokerRestarts
  <2>1. /\ mqtt # "closed" /\ UNCHANGED <<pending, availState, raced, outbox>>
        /\ forgot' /\ \A b \in Blinds : retained'[Avail(b)] = "unset"
    BY <1>8, TopicFacts DEF BrokerRestarts, report
  <2> QED BY <2>1, UnsentKeeps
<1>9. CASE Deliver
  BY <1>9, DeliverKeeps
<1>10. ASSUME NEW i \in 1..MaxConnects, AnnounceBridge(i)
       PROVE  PendingIsDecided' /\ DecidedArrives'
  <2>1. /\ Msg(Bridge, "online") \in Messages
        /\ \A b \in Blinds : Msg(Bridge, "online").topic # Avail(b)
    BY TopicFacts, MsgFacts DEF Payloads
  <2>2. /\ HandOver(<<Msg(Bridge, "online")>>)
        /\ UNCHANGED <<pending, availState, raced, mqtt, retained, forgot>>
    BY <1>10 DEF AnnounceBridge, report, link, broker
  <2> QED BY <2>1, <2>2, OtherMessageKeeps
<1>11. ASSUME NEW i \in 1..MaxConnects, AnnounceManagers(i)
       PROVE  PendingIsDecided' /\ DecidedArrives'
  <2>1. /\ UNCHANGED <<pending, availState, raced, mqtt, outbox, forgot>>
        /\ \A b \in Blinds : retained'[Avail(b)] = retained[Avail(b)]
    BY <1>11, TopicFacts DEF IInv, TypeOK, AnnounceManagers, report, link
  <2> QED BY <2>1, UnsentKeeps
<1>12. ASSUME NEW b \in Blinds, ManagerExits(b) \/ ManagerStrands(b) PROVE PendingIsDecided' /\ DecidedArrives'
  BY <1>1, <1>12 DEF ManagerExits, ManagerStrands, report, link, broker
<1>13. ASSUME NEW b \in Blinds, NEW r \in Reporters, Publish(r, b)
       PROVE  PendingIsDecided' /\ DecidedArrives'
  BY <1>13, PublishKeeps
<1>14. ASSUME NEW b \in Blinds, NEW r \in {"manager", "callback"},
              NEW s \in {"online", "offline"}, Report(r, b, s)
       PROVE  PendingIsDecided' /\ DecidedArrives'
  <2>1. r \in Reporters /\ Decided(r, b, s) /\ UNCHANGED <<mqtt, outbox, retained, forgot>>
    BY <1>14 DEF Reporters, Report, link, broker
  <2> QED BY <2>1, DecidedKeeps
<1>15. CASE UNCHANGED vars
  BY <1>1, <1>15 DEF vars, report, link, broker
<1> QED
  BY <1>2, <1>3, <1>4, <1>5, <1>6, <1>7, <1>8, <1>9, <1>10, <1>11, <1>12, <1>13, <1>14, <1>15
  DEF Next, RunStep, OnMQTTConnect

(*****************************************************************************)
(* The bridge's own availability, once Run has marked it offline.            *)
(*****************************************************************************)

\* A step that publishes nothing leaves all of it as it is.
LEMMA QuietKeeps ==
  ASSUME IInv, UNCHANGED <<run, late, mqtt, outbox>>, retained'[Bridge] = retained[Bridge]
  PROVE  WillHasSpoken' /\ MarkedStays'
<1>1. WillHasSpoken /\ MarkedStays
  BY DEF IInv
<1>2. WillHasSpoken'
  BY <1>1 DEF WillHasSpoken
<1>3. run' = run /\ late' = late /\ mqtt' = mqtt /\ outbox' = outbox
  OBVIOUS
<1>4. (GoneForGood' <=> GoneForGood) /\ (OfflineUnderway' <=> OfflineUnderway)
  BY <1>3 DEF GoneForGood, OfflineUnderway
<1>5. MarkedStays'
  BY <1>1, <1>3, <1>4 DEF MarkedStays, BridgeMarked
<1> QED BY <1>2, <1>5

\* So does a blind's availability.
LEMMA PublishMarked ==
  ASSUME IInv, NEW r \in Reporters, NEW b \in Blinds, Publish(r, b)
  PROVE  WillHasSpoken' /\ MarkedStays'
<1> DEFINE m == Msg(Avail(b), pending[r, b])
<1>1. /\ HandOver(<<m>>) /\ run' = run /\ late' = late /\ mqtt' = mqtt /\ retained' = retained
      /\ WillHasSpoken /\ MarkedStays
  BY DEF Publish, shutdown, link, broker, IInv
<1>2. m \in Messages /\ m # Msg(Bridge, "online") /\ m # Msg(Bridge, "offline")
  <2>1. pending[r, b] \in Payloads
    BY DEF Publish, IInv, TypeOK, Payloads
  <2>2. m \in Messages /\ m.topic = Avail(b)
    BY <2>1, TopicFacts, MsgFacts
  <2>3. Msg(Bridge, "online").topic = Bridge /\ Msg(Bridge, "offline").topic = Bridge
    BY DEF Msg
  <2> QED BY <2>2, <2>3, TopicFacts, Zenon
<1> HIDE DEF m
<1>3. CASE mqtt = "closed"
  <2>1. outbox' = outbox
    BY <1>1, <1>3 DEF HandOver
  <2> QED BY <1>1, <2>1, QuietKeeps
<1>4. CASE mqtt # "closed"
  <2>1. /\ Len(outbox) \in Nat
        /\ Len(outbox') = Len(outbox) + 1 /\ outbox'[Len(outbox) + 1] = m
        /\ \A i \in 1..Len(outbox) : outbox'[i] = outbox[i]
    BY <1>1, <1>2, <1>4, HandOverFacts, OutboxTyped DEF IInv
  <2>2. ASSUME OfflineUnderway PROVE OfflineUnderway'
    <3>1. PICK i \in 1..Len(outbox) :
            /\ outbox[i] = Msg(Bridge, "offline")
            /\ \A j \in 1..Len(outbox) : j > i => outbox[j] # Msg(Bridge, "online")
      BY <2>2 DEF OfflineUnderway
    <3>2. i \in 1..Len(outbox') /\ outbox'[i] = Msg(Bridge, "offline")
      BY <2>1, <3>1
    <3>3. ASSUME NEW j \in 1..Len(outbox'), j > i PROVE outbox'[j] # Msg(Bridge, "online")
      <4>1. CASE j \in 1..Len(outbox)
        BY <4>1, <2>1, <3>1, <3>3
      <4>2. CASE j \notin 1..Len(outbox)
        <5>1. j = Len(outbox) + 1
          BY <4>2, <2>1
        <5> QED BY <5>1, <2>1, <1>2
      <4> QED BY <4>1, <4>2
    <3> QED BY <3>2, <3>3 DEF OfflineUnderway, Msg
  <2>3. ASSUME GoneForGood PROVE GoneForGood'
    <3>1. ASSUME mqtt = "up", NEW i \in 1..Len(outbox')
          PROVE  outbox'[i] # Msg(Bridge, "online")
      <4>1. CASE i \in 1..Len(outbox)
        BY <4>1, <2>1, <2>3, <3>1 DEF GoneForGood
      <4>2. CASE i \notin 1..Len(outbox)
        <5>1. i = Len(outbox) + 1
          BY <4>2, <2>1
        <5> QED BY <5>1, <2>1, <1>2
      <4> QED BY <4>1, <4>2
    <3>2. retained'[Bridge] # "online"
      BY <1>1, <2>3 DEF GoneForGood
    <3> QED BY <1>1, <3>1, <3>2 DEF GoneForGood
  <2>4. MarkedStays'
    BY <1>1, <2>2, <2>3 DEF MarkedStays, BridgeMarked
  <2> QED BY <1>1, <2>4 DEF WillHasSpoken
<1> QED BY <1>3, <1>4

\* When the "offline" arrives, the bridge is gone for good.
LEMMA DeliverMarked ==
  ASSUME IInv, Deliver
  PROVE  WillHasSpoken' /\ MarkedStays'
<1>1. /\ run' = run /\ late' = late /\ mqtt' = mqtt /\ mqtt = "up" /\ MarkedStays
  BY DEF Deliver, shutdown, link, IInv
<1>2. /\ Len(outbox) \in Nat \ {0} /\ outbox[1] \in Messages
      /\ Len(outbox') = Len(outbox) - 1
      /\ \A i \in 1..(Len(outbox) - 1) : outbox'[i] = outbox[i + 1]
      /\ retained'[Bridge] =
           IF outbox[1].topic = Bridge THEN outbox[1].payload ELSE retained[Bridge]
  <2>1. outbox \in Seq(Messages) /\ retained \in [Topics -> {"unset", "config"} \cup Payloads]
    BY OutboxTyped DEF IInv, TypeOK
  <2> QED BY <2>1, DeliverFacts, TopicFacts
<1>3. ASSUME retained[Bridge] # "online", outbox[1] # Msg(Bridge, "online")
      PROVE  retained'[Bridge] # "online"
  <2>1. outbox[1] = [topic |-> outbox[1].topic, payload |-> outbox[1].payload]
    BY <1>2 DEF Messages
  <2> QED BY <1>2, <1>3, <2>1 DEF Msg
<1>4. ASSUME GoneForGood PROVE GoneForGood'
  <2>1. 1 \in 1..Len(outbox)
    BY <1>2
  <2>2. retained'[Bridge] # "online"
    BY <1>1, <1>3, <1>4, <2>1 DEF GoneForGood
  <2>3. ASSUME NEW i \in 1..Len(outbox') PROVE outbox'[i] # Msg(Bridge, "online")
    <3>1. i + 1 \in 1..Len(outbox) /\ outbox'[i] = outbox[i + 1]
      BY <1>2
    <3> QED BY <3>1, <1>1, <1>4 DEF GoneForGood
  <2> QED BY <2>2, <2>3 DEF GoneForGood, Msg
<1>5. ASSUME OfflineUnderway PROVE OfflineUnderway' \/ GoneForGood'
  <2>1. PICK i \in 1..Len(outbox) :
          /\ outbox[i] = Msg(Bridge, "offline")
          /\ \A j \in 1..Len(outbox) : j > i => outbox[j] # Msg(Bridge, "online")
    BY <1>5 DEF OfflineUnderway
  <2>2. ASSUME NEW j \in 1..Len(outbox'), j + 1 > i
        PROVE  outbox'[j] # Msg(Bridge, "online")
    <3>1. j + 1 \in 1..Len(outbox) /\ outbox'[j] = outbox[j + 1]
      BY <1>2
    <3> QED BY <3>1, <2>1, <2>2
  <2>3. CASE i = 1
    <3>1. outbox[1].topic = Bridge /\ outbox[1].payload = "offline"
      BY <2>1, <2>3 DEF Msg
    <3>2. retained'[Bridge] # "online"
      BY <1>2, <3>1
    <3>3. \A j \in 1..Len(outbox') : outbox'[j] # Msg(Bridge, "online")
      BY <2>2, <2>3, <1>2
    <3> QED BY <3>2, <3>3 DEF GoneForGood, Msg
  <2>4. CASE i # 1
    <3>1. i - 1 \in 1..Len(outbox') /\ outbox'[i - 1] = Msg(Bridge, "offline")
      BY <1>2, <2>1, <2>4
    <3>2. \A j \in 1..Len(outbox') : j > i - 1 => outbox'[j] # Msg(Bridge, "online")
      BY <2>2, <1>2
    <3> QED BY <3>1, <3>2 DEF OfflineUnderway, Msg
  <2> QED BY <2>3, <2>4
<1>6. MarkedStays'
  BY <1>1, <1>4, <1>5 DEF MarkedStays, BridgeMarked
<1> QED BY <1>1, <1>6 DEF WillHasSpoken

LEMMA NextMarked ==
  ASSUME IInv, [Next]_vars PROVE WillHasSpoken' /\ MarkedStays'
<1>0. TypeOK /\ WillHasSpoken /\ MarkedStays
  BY DEF IInv
<1>1. CASE StartManagers
  <2>1. run = "connecting" /\ run' = "serving" /\ mqtt' = mqtt /\ retained' = retained
    BY <1>1 DEF StartManagers, link, broker
  <2> QED BY <1>0, <2>1 DEF WillHasSpoken, MarkedStays, BridgeMarked
<1>2. ASSUME NEW b \in Blinds, MarkBlind(b) PROVE WillHasSpoken' /\ MarkedStays'
  BY <1>2, QuietKeeps DEF MarkBlind, link, broker
<1>3. CASE MarkBridge
  <2>1. /\ run = "serving" /\ run' = "token" /\ mqtt' = mqtt /\ retained' = retained
        /\ HandOver(<<Msg(Bridge, "offline")>>)
    BY <1>3 DEF MarkBridge, ShuttingDown, link, broker
  <2>2. mqtt # "closed" /\ WillHasSpoken'
    BY <1>0, <2>1 DEF WillHasSpoken, MarkedStays
  <2>3. /\ Len(outbox) \in Nat /\ Len(outbox') = Len(outbox) + 1
        /\ outbox'[Len(outbox) + 1] = Msg(Bridge, "offline")
    BY <1>0, <2>1, <2>2, OutboxTyped, TopicFacts, MsgFacts, HandOverFacts DEF Payloads
  <2>4. OfflineUnderway'
    <3>1. Len(outbox) + 1 \in 1..Len(outbox')
      BY <2>3
    <3>2. \A j \in 1..Len(outbox') : ~(j > Len(outbox) + 1)
      BY <2>3
    <3> QED BY <2>3, <3>1, <3>2 DEF OfflineUnderway, Msg
  <2> QED BY <1>0, <2>1, <2>2, <2>4 DEF MarkedStays
<1>4. CASE Token
  <2>1. /\ run = "token" /\ run' = "managers" /\ late' = late
        /\ mqtt' = mqtt /\ outbox' = outbox /\ retained' = retained
        /\ mqtt # "up" \/ \A i \in DOMAIN outbox : outbox[i] # Msg(Bridge, "offline")
    BY <1>4 DEF Token, link, broker
  <2>2. ~late => GoneForGood
    <3>1. CASE mqtt = "up"
      BY <1>0, <2>1, <3>1, OutboxTyped DEF MarkedStays, BridgeMarked, OfflineUnderway
    <3>2. CASE mqtt # "up"
      <4>1. mqtt = "down"
        BY <1>0, <2>1, <3>2 DEF MarkedStays, TypeOK
      <4> QED BY <1>0, <4>1 DEF WillHasSpoken, GoneForGood
    <3> QED BY <3>1, <3>2
  <2>3. GoneForGood' <=> GoneForGood
    BY <2>1 DEF GoneForGood
  <2>4. MarkedStays'
    BY <1>0, <2>1, <2>2, <2>3 DEF MarkedStays
  <2> QED BY <1>0, <2>1, <2>4 DEF WillHasSpoken
<1>5. CASE Return
  <2>1. /\ run = "managers" /\ run' = "done" /\ late' = late
        /\ mqtt' = "closed" /\ retained' = retained
    BY <1>5 DEF Return
  <2> QED BY <1>0, <2>1 DEF WillHasSpoken, MarkedStays, GoneForGood
<1>6. CASE MqttConnects
  <2>1. /\ mqtt = "down" /\ mqtt' = "up" /\ run' = run
        /\ late' = (late \/ BridgeMarked) /\ (BridgeMarked' <=> BridgeMarked)
    BY <1>6 DEF MqttConnects, shutdown, BridgeMarked
  <2>2. ~late' => run' \notin {"token", "managers", "done"}
    BY <2>1 DEF BridgeMarked
  <2> QED BY <1>0, <2>1, <2>2 DEF WillHasSpoken, MarkedStays, BridgeMarked
<1>7. CASE MqttDrops \/ BrokerRestarts
  <2>1. /\ mqtt = "up" /\ mqtt' = "down" /\ run' = run /\ late' = late
        /\ retained'[Bridge] # "online"
    <3>1. CASE MqttDrops
      BY <1>0, <3>1, TopicFacts DEF MqttDrops, shutdown, TypeOK
    <3>2. CASE BrokerRestarts
      BY <3>2, TopicFacts DEF BrokerRestarts, shutdown
    <3> QED BY <1>7, <3>1, <3>2
  <2>2. GoneForGood'
    BY <2>1 DEF GoneForGood
  <2> QED BY <1>0, <2>1, <2>2 DEF WillHasSpoken, MarkedStays
<1>8. CASE Deliver
  BY <1>8, DeliverMarked
<1>9. ASSUME NEW i \in 1..MaxConnects, AnnounceBridge(i)
      PROVE  WillHasSpoken' /\ MarkedStays'
  <2>1. /\ mqtt' = mqtt /\ run' = run /\ retained' = retained
        /\ late' = (late \/ BridgeMarked)
    BY <1>9 DEF AnnounceBridge, shutdown, link, broker
  <2>2. ~late' => run' \notin {"token", "managers", "done"}
    BY <2>1 DEF BridgeMarked
  <2> QED BY <1>0, <2>1, <2>2 DEF WillHasSpoken, MarkedStays, BridgeMarked
<1>10. ASSUME NEW i \in 1..MaxConnects, AnnounceManagers(i)
       PROVE  WillHasSpoken' /\ MarkedStays'
  <2>1. retained'[Bridge] = retained[Bridge] /\ UNCHANGED <<run, late, mqtt, outbox>>
    BY <1>0, <1>10, TopicFacts DEF AnnounceManagers, TypeOK, shutdown, link
  <2> QED BY <2>1, QuietKeeps
<1>11. ASSUME NEW b \in Blinds, ManagerExits(b) \/ ManagerStrands(b) PROVE WillHasSpoken' /\ MarkedStays'
  BY <1>11, QuietKeeps DEF ManagerExits, ManagerStrands, shutdown, link, broker
<1>12. ASSUME NEW b \in Blinds, NEW r \in Reporters, Publish(r, b)
       PROVE  WillHasSpoken' /\ MarkedStays'
  BY <1>12, PublishMarked
<1>13. ASSUME NEW b \in Blinds, NEW r \in {"manager", "callback"},
              NEW s \in {"online", "offline"}, Report(r, b, s)
       PROVE  WillHasSpoken' /\ MarkedStays'
  BY <1>13, QuietKeeps DEF Report, shutdown, link, broker
<1>14. CASE Cancel
  BY <1>14, QuietKeeps DEF Cancel, link, broker
<1>15. CASE UNCHANGED vars
  BY <1>15, QuietKeeps DEF vars, shutdown, link, broker
<1> QED
  BY <1>1, <1>2, <1>3, <1>4, <1>5, <1>6, <1>7, <1>8, <1>9, <1>10, <1>11, <1>12, <1>13, <1>14,
     <1>15
  DEF Next, RunStep, OnMQTTConnect

(*****************************************************************************)
(* The theorems.                                                             *)
(*****************************************************************************)

\* The invariant that all the others follow from: what is decided, what is about to be
\* published, what is on its way and what the broker retains agree, blind by blind, and
\* an "offline" of the bridge is never overtaken (bridge.go, manager.go's
\* publishAvailability).
THEOREM InvariantHolds == Spec => []IInv
<1>1. IInv /\ [Next]_vars => IInv'
  <2> SUFFICES ASSUME IInv, [Next]_vars PROVE IInv'
    OBVIOUS
  <2>1. TypeOK'
    BY NextType DEF IInv
  <2>2. PendingIsDecided' /\ DecidedArrives'
    BY NextDecided
  <2>3. WillHasSpoken' /\ MarkedStays'
    BY NextMarked
  <2> QED BY <2>1, <2>2, <2>3 DEF IInv
<1> QED BY InitIInv, <1>1, PTL DEF Spec

\* Types, for every set of blinds and every bound.
THEOREM TypeCorrect == Spec => []TypeOK
<1>1. IInv => TypeOK
  BY DEF IInv
<1> QED BY <1>1, InvariantHolds, PTL

\* Unless two reporters handle a blind at the same time, the broker ends up with the
\* availability that was decided last: change tracking never suppresses a report that
\* the broker does not have (publishAvailability), however often the connection is lost.
THEOREM AvailabilityShownHolds == Spec => []AvailabilityShown
<1>1. IInv => AvailabilityShown
  <2> SUFFICES ASSUME IInv, NEW b \in Blinds \ raced, Reported(b)
               PROVE  \/ retained[Avail(b)] = availState[b]
                      \/ forgot /\ retained[Avail(b)] = "unset"
    BY DEF AvailabilityShown
  <2>1. mqtt # "closed" /\ Idle(b)
    BY DEF Reported, Idle
  <2>2. Absent(outbox, Avail(b))
    BY OutboxTyped DEF IInv, Reported, Absent
  <2> QED BY <2>1, <2>2 DEF IInv, DecidedArrives
<1> QED BY <1>1, InvariantHolds, PTL

\* After Run has returned no blind is shown available, unless MQTT connected during the
\* shutdown (Run, SetWill).
THEOREM GoneIsUnavailableHolds == Spec => []GoneIsUnavailable
<1>1. IInv => GoneIsUnavailable
  BY DEF IInv, MarkedStays, GoneForGood, GoneIsUnavailable, Available
<1> QED BY <1>1, InvariantHolds, PTL

(*****************************************************************************)
(* The safety half of RunReturns: what the shutdown waits for.               *)
(*****************************************************************************)

\* No manager is left that was never started: wg.Wait has only running ones to wait for.
ManagersStarted == run # "connecting" => \A b \in Blinds : mgr[b] # "new"

\* Run's next step needs nobody.
RunReady ==
  \/ run = "connecting" \/ ShuttingDown
  \/ run = "token" /\ (mqtt # "up" \/ \A i \in DOMAIN outbox : outbox[i] # Msg(Bridge, "offline"))
  \/ run = "managers" /\ \A b \in Blinds : mgr[b] = "exit"

\* A manager that was cancelled and has nothing to publish any more returns, and one that
\* has publishes it.
ManagerReady(b) == mgr[b] = "running" /\ cancelled

\* After the cancellation Run waits for nobody, for its own publication, for a broker that
\* is connected and has messages to take, for a manager that is on its way out, or, in
\* wg.Wait, for one that is stranded in a scan.
ShutdownGoesOn ==
  cancelled /\ run # "done" =>
    \/ RunReady
    \/ run = "serving" /\ \E b \in Blinds : pending["run", b] # "none"
    \/ run = "token" /\ mqtt = "up" /\ outbox # <<>>
    \/ run = "managers" /\ ((\E b \in Blinds : ManagerReady(b)) \/ Stranded)

LEMMA StartedKept ==
  ASSUME TypeOK, ManagersStarted, [Next]_vars PROVE ManagersStarted'
<1> USE DEF ManagersStarted
<1>0. mgr \in [Blinds -> {"new", "running", "exit", "stranded"}]
  BY DEF TypeOK
<1>1. CASE StartManagers
  BY <1>1 DEF StartManagers, report, link, broker
<1>2. ASSUME NEW b \in Blinds, ManagerExits(b) \/ ManagerStrands(b) PROVE ManagersStarted'
  <2>1. (\E end \in {"exit", "stranded"} : mgr' = [mgr EXCEPT ![b] = end]) /\ run' = run
    BY <1>2, Zenon DEF ManagerExits, ManagerStrands, shutdown
  <2> QED BY <1>0, <2>1
<1>3. ASSUME mgr' = mgr, run' = run \/ run # "connecting" PROVE ManagersStarted'
  BY <1>3
<1>4. ASSUME NEW b \in Blinds, MarkBlind(b) PROVE ManagersStarted'
  <2>1. mgr' = mgr /\ run' = run
    BY <1>4 DEF MarkBlind, report, link, broker
  <2> QED BY <1>3, <2>1
<1>5. CASE MarkBridge \/ Token \/ Return
  <2>1. run # "connecting"
    BY <1>5, Zenon DEF MarkBridge, ShuttingDown, Token, Return
  <2>2. mgr' = mgr
    BY <1>5, Zenon DEF MarkBridge, Token, Return
  <2> QED BY <1>3, <2>1, <2>2
<1>6. CASE \/ Cancel \/ MqttConnects \/ MqttDrops \/ BrokerRestarts \/ Deliver
           \/ UNCHANGED vars
  <2>1. mgr' = mgr /\ run' = run
    BY <1>6 DEF Cancel, MqttConnects, MqttDrops, BrokerRestarts, Deliver,
      shutdown, report, link, broker, vars
  <2> QED BY <1>3, <2>1
<1>7. ASSUME NEW i \in 1..MaxConnects, OnMQTTConnect(i) PROVE ManagersStarted'
  <2>1. mgr' = mgr /\ run' = run
    BY <1>7 DEF OnMQTTConnect, AnnounceBridge, AnnounceManagers, shutdown, report, link, broker
  <2> QED BY <1>3, <2>1
<1>8. ASSUME NEW b \in Blinds, NEW r \in Reporters, Publish(r, b) PROVE ManagersStarted'
  <2>1. mgr' = mgr /\ run' = run
    BY <1>8, Zenon DEF Publish, shutdown
  <2> QED BY <1>3, <2>1
<1>9. ASSUME NEW b \in Blinds, NEW r \in {"manager", "callback"},
             NEW s \in {"online", "offline"}, Report(r, b, s)
      PROVE  ManagersStarted'
  <2>1. mgr' = mgr /\ run' = run
    BY <1>9 DEF Report, shutdown, report, link, broker
  <2> QED BY <1>3, <2>1
<1> QED
  BY <1>1, <1>2, <1>4, <1>5, <1>6, <1>7, <1>8, <1>9, Zenon DEF Next, RunStep

\* For any number of blinds, connections and reports: at no point of the shutdown does Run
\* wait for something that nobody is going to do (Run's token.WaitTimeout), but for a
\* manager that a cancelled scan has stranded (wg.Wait).
THEOREM ShutdownGoesOnHolds == Spec => []ShutdownGoesOn
<1>1. Init => ManagersStarted
  <2>1. Init => run = "connecting"
    BY Zenon DEF Init
  <2> QED BY <2>1 DEF ManagersStarted
<1>2. TypeOK /\ ManagersStarted /\ [Next]_vars => ManagersStarted'
  BY StartedKept
<1>3. TypeOK /\ ManagersStarted => ShutdownGoesOn
  <2> SUFFICES ASSUME TypeOK, ManagersStarted, cancelled, run # "done", ~RunReady
               PROVE  \/ run = "serving" /\ \E b \in Blinds : pending["run", b] # "none"
                      \/ run = "token" /\ mqtt = "up" /\ outbox # <<>>
                      \/ run = "managers" /\ ((\E b \in Blinds : ManagerReady(b)) \/ Stranded)
    BY Zenon DEF ShutdownGoesOn
  <2>1. run \in {"serving", "token", "managers"}
    BY DEF TypeOK, RunReady
  <2>2. CASE run = "serving"
    BY <2>2, Zenon DEF RunReady, ShuttingDown
  <2>3. CASE run = "token"
    BY <2>3 DEF RunReady
  <2>4. CASE run = "managers"
    BY <2>4 DEF RunReady, ManagersStarted, ManagerReady, Stranded, TypeOK
  <2> QED BY <2>1, <2>2, <2>3, <2>4, Zenon
<1> QED
  BY <1>1, <1>2, <1>3, TypeCorrect, PTL DEF Spec
================================================================================
