------------------------------- MODULE Protocol -------------------------------
(* The frames of pkg/bliss/protocol.go: what the client writes, what the motor   *)
(* makes of it, what the motor notifies, and what the client makes of that       *)
(* (client.go, applyEvent).  Every frame is modelled without the four bytes that *)
(* all commands, or all responses, begin with.                                   *)
(*                                                                               *)
(* The motor is external: it reads commands and writes responses as the README's *)
(* protocol notes have it, which were validated on the device.  Login and        *)
(* heartbeat, whose frames begin differently, and the parser's flags that nobody *)
(* reads are left out.                                                           *)
EXTENDS Integers, Sequences

CONSTANTS
  Requests,    \* the requests explored
  Ranges,      \* the motor ranges explored
  Reports,     \* the reports of the motor explored
  MaxFlight    \* bound on the notifications under way

Byte == 0..255
WeekdayBits == 0..6      \* Sunday is 0
Years == 2000..2255      \* that the byte of a year tells apart; SyncClock sends time.Now()

\* What the callers may ask for: uint8 everywhere but for speeds.
Plain == [op : {"up", "down", "stop", "fineUp", "fineDown", "status",
                "favoriteGoto", "favoriteSet", "favoriteDelete", "querySlots"}]
Goto == [op : {"goto"}, percent : Byte]
Speed == [op : {"speed"}, percent : Int]
AddTimer == [op : {"addTimer"}, slot : Byte, days : SUBSET WeekdayBits, time : [1..3 -> Byte],
             percent : Byte, silent : BOOLEAN]
DeleteTimer == [op : {"deleteTimer"}, slot : Byte]
SetClock == [op : {"setClock"}, time : {t \in [1..6 -> Int] : t[1] \in Years}]

\* The reports a motor makes.
Status == [op : {"status"}, percent : 0..100, battery : {"normal", "low", "none"},
           reversed : BOOLEAN]
Result == [op : {"login", "password", "timerSet", "timerDelete"}, success : BOOLEAN]
TimerIndex == [op : {"timerIndex"}, index : Byte]

ASSUME ProtocolAssumption ==
  /\ Requests \subseteq Plain \cup Goto \cup Speed \cup AddTimer \cup DeleteTimer \cup SetClock
  /\ Ranges \subseteq Int
  /\ Reports \subseteq Status \cup Result \cup TimerIndex
  /\ MaxFlight \in Nat \ {0}

VARIABLES
  range,       \* Config.Range
  request,     \* the request whose frame is under way
  command,     \* its frame
  sent,        \* history: the reports whose frames are under way
  flight,      \* the notifications under way, oldest first
  told,        \* history: the report the last notification was about
  event,       \* what the client made of it
  state        \* Blind.state

protocolVars == <<range, request, command, sent, flight, told, event, state>>

NoRequest == [op |-> "none"]
NoEvent == [op |-> "unparsed"]

ProtocolInit ==
  /\ range \in Ranges
  /\ request = NoRequest /\ command = <<>>
  /\ sent = <<>> /\ flight = <<>> /\ told = NoEvent /\ event = NoEvent
  /\ state = [percent |-> 0, battery |-> "normal", reversed |-> FALSE, loggedIn |-> FALSE]

-----------------------------------------------------------------------------
(* Commands                                                                    *)

Lesser(a, b) == IF a < b THEN a ELSE b

\* New, positionBytes: no range is the default one.
DefaultRange == 1000
effectiveRange(r) == IF r <= 0 THEN DefaultRange ELSE r

\* A bug: the bytes of a 16-bit position are the wrong way round.
positionBytesSwapped(percent, r) ==
  LET scaled == (Lesser(percent, 100) * effectiveRange(r)) \div 100
  IN IF effectiveRange(r) = 1000 THEN <<(scaled \div 256) % 256, scaled % 256>> ELSE <<scaled % 256>>

\* Two bytes, the lesser one first, for a range of 1000, otherwise one.
positionBytes(percent, r) ==
  LET scaled == (Lesser(percent, 100) * effectiveRange(r)) \div 100
  IN IF effectiveRange(r) = 1000 THEN <<scaled % 256, (scaled \div 256) % 256>> ELSE <<scaled % 256>>

\* The frames without parameters.
opcode ==
  [up |-> \hCF, down |-> \h1F, stop |-> \h5F, fineUp |-> \h22, fineDown |-> \h23,
   status |-> \hD1, favoriteGoto |-> \h93, favoriteSet |-> \h91, favoriteDelete |-> \h92,
   querySlots |-> \h04]

\* The frames that say no more than their opcode.
Short == {"favoriteGoto", "favoriteSet", "favoriteDelete", "querySlots"}

GotoCommand(percent, r) == <<\hBF, 3>> \o positionBytes(percent, r)

\* A speed is snapped to the nearest preset.
SpeedCommand(percent) ==
  <<IF percent <= 37 THEN \hF3 ELSE IF percent <= 62 THEN \hF2
    ELSE IF percent <= 87 THEN \hF1 ELSE \hF0, 3, 1>>

\* Sunday, Monday, ..., Saturday.
DayBit == [d \in WeekdayBits |-> <<1, 2, 4, 8, 16, 32, 64>>[d + 1]]

dayMask(days) ==
  LET bit(d) == IF d \in days THEN DayBit[d] ELSE 0
  IN bit(0) + bit(1) + bit(2) + bit(3) + bit(4) + bit(5) + bit(6)

AddTimerCommand(q, r) ==
  <<3, IF q.silent THEN \h80 ELSE 0, q.slot, \hB2, \h3F, dayMask(q.days),
    q.time[1], q.time[2], q.time[3]>> \o positionBytes(q.percent, r)

DeleteTimerCommand(slot) == <<3, 1, slot>>

SetClockCommand(time) == <<2, 0, (time[1] - 2000) % 256>> \o SubSeq(time, 2, 6)

\* The frame of a request.
commandFrame(q, r) ==
  CASE q.op = "goto" -> GotoCommand(q.percent, r)
    [] q.op = "speed" -> SpeedCommand(q.percent)
    [] q.op = "addTimer" -> AddTimerCommand(q, r)
    [] q.op = "deleteTimer" -> DeleteTimerCommand(q.slot)
    [] q.op = "setClock" -> SetClockCommand(q.time)
    [] q.op \in Short -> <<opcode[q.op]>>
    [] OTHER -> <<opcode[q.op], 3, 1>>

Send(q) ==
  /\ request = NoRequest
  /\ request' = q /\ command' = commandFrame(q, range)
  /\ UNCHANGED <<range, sent, flight, told, event, state>>

-----------------------------------------------------------------------------
(* The motor (external)                                                        *)

\* A position in units of the motor's range.
motorUnits(bytes) == IF Len(bytes) = 2 THEN bytes[1] + 256 * bytes[2] ELSE bytes[1]

motorDays(mask) == {d \in WeekdayBits : (mask \div DayBit[d]) % 2 = 1}

motorSpeed == [b \in \hF0..\hF3 |-> 100 - 25 * (b - \hF0)]

\* What the motor understands.
motorReads(f) ==
  CASE f[1] = \hBF -> [op |-> "goto", units |-> motorUnits(SubSeq(f, 3, Len(f)))]
    [] f[1] \in DOMAIN motorSpeed -> [op |-> "speed", preset |-> motorSpeed[f[1]]]
    [] f[1] = 3 /\ f[2] = 1 -> [op |-> "deleteTimer", slot |-> f[3]]
    [] f[1] = 3 /\ f[2] # 1 ->
         [op |-> "addTimer", silent |-> f[2] = \h80, slot |-> f[3], days |-> motorDays(f[6]),
          time |-> SubSeq(f, 7, 9), units |-> motorUnits(SubSeq(f, 10, Len(f)))]
    [] f[1] = 2 -> [op |-> "setClock", time |-> <<2000 + f[3]>> \o SubSeq(f, 4, 8)]
    [] OTHER -> [op |-> CHOOSE o \in DOMAIN opcode : opcode[o] = f[1]]

\* The motor has read the frame: the write with response returns.
Taken ==
  /\ request # NoRequest
  /\ request' = NoRequest /\ command' = <<>>
  /\ UNCHANGED <<range, sent, flight, told, event, state>>

BatteryFlag == [normal |-> 0, low |-> \h08, none |-> \h10]
ResultOpcode == [password |-> \hD3, login |-> \hD4, timerSet |-> \hD7, timerDelete |-> \hD8]

\* The frame of a report: the raw position only if `raw`, and a status by either opcode.
reportFrame(m, pushed, raw) ==
  CASE m.op = "status" ->
         <<IF pushed THEN \hD2 ELSE \hD1, BatteryFlag[m.battery] + (IF m.reversed THEN 1 ELSE 0),
           m.percent>>
         \o IF raw THEN <<(10 * m.percent) % 256, (10 * m.percent) \div 256>> ELSE <<>>
    [] m.op = "timerIndex" -> <<\hD6, 0, m.index>>
    [] OTHER -> <<ResultOpcode[m.op], 0, IF m.success THEN 1 ELSE 0>>

\* A report, or a part of it, is notified; there are also responses nobody knows.
Report(m) ==
  /\ Len(flight) < MaxFlight
  /\ \E pushed, raw \in BOOLEAN : \E n \in 0..3 :
       LET f == reportFrame(m, pushed, raw)
       IN flight' = Append(flight, IF n = 3 THEN f ELSE SubSeq(f, 1, n))
  /\ sent' = Append(sent, m)
  /\ UNCHANGED <<range, request, command, told, event, state>>

ReportUnknown ==
  /\ Len(flight) < MaxFlight
  /\ flight' = Append(flight, <<\hD9, 0, 1>>)
  /\ sent' = Append(sent, [op |-> "unknown"])
  /\ UNCHANGED <<range, request, command, told, event, state>>

-----------------------------------------------------------------------------
(* Responses                                                                   *)

\* The bits 3 and 4.
batteryLevel(flags) ==
  <<"normal", "low", "none", "unknown">>[1 + ((flags \div 8) % 4)]

\* A bug: the length is not checked, and what is missing is zero.
ParseResponseUnchecked(p) ==
  LET at(i) == IF i <= Len(p) THEN p[i] ELSE 0
  IN CASE at(1) \in {\hD1, \hD2} ->
            [op |-> "status", percent |-> at(3), battery |-> batteryLevel(at(2)),
             reversed |-> at(2) % 2 = 1]
       [] at(1) \in {\hD3, \hD4, \hD7, \hD8} ->
            [op |-> CHOOSE o \in DOMAIN ResultOpcode : ResultOpcode[o] = at(1), success |-> at(3) > 0]
       [] at(1) = \hD6 -> [op |-> "timerIndex", index |-> at(3)]
       [] OTHER -> [op |-> "unknown"]

\* ParseResponse of what follows the header.
ParseResponse(p) ==
  CASE p = <<>> -> NoEvent
    [] p # <<>> /\ p[1] \notin \hD1..\hD8 \ {\hD5} -> [op |-> "unknown"]
    [] p # <<>> /\ p[1] \in \hD1..\hD8 \ {\hD5} /\ Len(p) < 3 -> NoEvent
    [] Len(p) >= 3 /\ p[1] \in {\hD1, \hD2} ->
         [op |-> "status", percent |-> p[3], battery |-> batteryLevel(p[2]),
          reversed |-> p[2] % 2 = 1]
    [] Len(p) >= 3 /\ p[1] = \hD4 -> [op |-> "login", success |-> p[3] > 0]
    [] Len(p) >= 3 /\ p[1] = \hD3 -> [op |-> "password", success |-> p[3] > 0]
    [] Len(p) >= 3 /\ p[1] = \hD6 -> [op |-> "timerIndex", index |-> p[3]]
    [] Len(p) >= 3 /\ p[1] = \hD7 -> [op |-> "timerSet", success |-> p[3] > 0]
    [] Len(p) >= 3 /\ p[1] = \hD8 -> [op |-> "timerDelete", success |-> p[3] > 0]

applyEvent(s, e) ==
  CASE e.op = "status" ->
         [s EXCEPT !.percent = e.percent, !.battery = e.battery, !.reversed = e.reversed]
    [] e.op = "login" -> [s EXCEPT !.loggedIn = e.success]
    [] OTHER -> s

\* onNotify.
Notified ==
  /\ flight # <<>>
  /\ flight' = Tail(flight) /\ sent' = Tail(sent) /\ told' = Head(sent)
  /\ event' = ParseResponse(Head(flight))
  /\ state' = applyEvent(state, event')
  /\ UNCHANGED <<range, request, command>>

Commanding == (\E q \in Requests : Send(q)) \/ Taken
Reporting == (\E m \in Reports : Report(m)) \/ ReportUnknown \/ Notified

ProtocolNext == Commanding \/ Reporting

ProtocolSpec == ProtocolInit /\ [][ProtocolNext]_protocolVars

-----------------------------------------------------------------------------
\* Units of range r are percent, less than a unit short of it.
Reaches(units, percent, r) ==
  LET asked == Lesser(percent, 100) * effectiveRange(r)
  IN 100 * units <= asked /\ asked < 100 * (units + 1)

Distance(a, b) == IF a < b THEN b - a ELSE a - b

\* Does the motor understand what was asked?
Understood(q, r, m) ==
  /\ m.op = q.op
  /\ q.op \in {"goto", "addTimer"} => Reaches(m.units, q.percent, r)
  /\ q.op = "speed" =>
       \A preset \in {25, 50, 75, 100} :
         Distance(q.percent, m.preset) <= Distance(q.percent, preset)
  /\ q.op \in {"addTimer", "deleteTimer"} => m.slot = q.slot
  /\ q.op = "addTimer" => m.silent = q.silent /\ m.days = q.days
  /\ q.op \in {"addTimer", "setClock"} => m.time = q.time

\* The ranges the documentation names.
Fits(r) == effectiveRange(r) \in 1..255 \cup {1000}

\* Every frame the client builds means to the motor what the caller asked for, over
\* the whole range of the arguments (the command builders of protocol.go).
CommandsUnderstood ==
  request # NoRequest /\ Fits(range) => Understood(request, range, motorReads(command))

\* The client takes a notification for what the motor reported or for nothing, cut
\* short or not, never for another kind, and after a status its state is what the motor
\* reported (ParseResponse, onNotify, applyEvent).
ReportsUnderstood ==
  /\ event \in {told, NoEvent, [op |-> "unknown"]}
  /\ event.op = "status" =>
       /\ state.percent = told.percent /\ state.battery = told.battery
       /\ state.reversed = told.reversed

-----------------------------------------------------------------------------
(* What documentation, comments and tests say and the code does not keep (README, *)
(* section 5).                                                                   *)

\* Comment on Config.Range: it "is the motor's position range for GotoCommand".
AnyRangeUnderstood ==
  request # NoRequest => Understood(request, range, motorReads(command))
===============================================================================
