------------------------------- MODULE Session -------------------------------
(* A session of the console (cmd/blissctl): the goroutine that reads standard   *)
(* input, the loop that runs one line at a time, and the client's one-line      *)
(* commands with Send's single retry (pkg/bliss/client.go).  The user types,    *)
(* ends the input and interrupts at any time; the motor drops the link at any   *)
(* time.                                                                        *)
(*                                                                              *)
(* A line is the command it is parsed as and the number that goes with it;      *)
(* "other" stands for the commands whose one frame no property looks into (open,  *)
(* close, stop, nudges, speed, favourites, clock, status, slot query), "none"   *)
(* for empty lines, help and what is not understood.  A connect or reconnect is one *)
(* step here (module BlindClient has its details), which an interrupt can leave *)
(* waiting in the scan for ever (module Scan has how), and the frames are those of *)
(* module Protocol.                                                             *)
EXTENDS Integers, Sequences

CONSTANTS
  Lines,        \* the lines a user may type
  TimerSlots,   \* the motor's schedule slots
  MaxLines      \* bound on the lines typed

Commands == {"none", "quit", "other", "pos", "del", "add", "clear"}

ASSUME SessionAssumption ==
  /\ Lines \subseteq [cmd : Commands, n : Int]
  /\ \A l \in Lines : l.cmd \notin {"pos", "del", "add"} => l.n = 0
  /\ TimerSlots \in 1..255 /\ MaxLines \in Nat

Frame(op, n) == [op |-> op, n |-> n]
Frames == [op : Commands, n : 0..255]
NoLine == [cmd |-> "none", n |-> 0]

VARIABLES
  typed, lines, eof,   \* standard input: what is there to read, lines typed, end of input
  offered, closed,     \* the reading goroutine: the line it offers, <<>> while it reads;
                       \* has it closed the channel?
  pc,                  \* the main goroutine
  line, next, tries,   \* the line it runs, the index of the frame it sends, writes of it
  cancelled,           \* ctx
  connected,           \* Blind.connected
  link, timers,        \* is the link up?  the motor's timers
  sent,                \* history: the frames of this line that reached the motor
  result               \* what the line ended with

input == <<typed, lines, eof>>
reader == <<offered, closed>>
motor == <<timers, sent>>
vars == <<input, reader, pc, line, next, tries, cancelled, connected, link, motor, result>>

TypeOK ==
  /\ typed \in Seq(Lines) /\ lines \in 0..MaxLines /\ eof \in BOOLEAN
  /\ offered \in {<<>>} \cup {<<l>> : l \in Lines} /\ closed \in BOOLEAN
  /\ pc \in {"connect", "select", "send", "reconnect", "disconnect", "exit", "stranded"}
  /\ line \in Lines \cup {NoLine} /\ next \in 1..TimerSlots + 1 /\ tries \in 0..1
  /\ cancelled \in BOOLEAN /\ connected \in BOOLEAN /\ link \in BOOLEAN
  /\ timers \subseteq 0..255 /\ sent \subseteq Frames
  /\ result \in {"none", "ok", "error"}

Init ==
  /\ typed = <<>> /\ lines = 0 /\ eof = FALSE
  /\ offered = <<>> /\ closed = FALSE
  /\ pc = "connect" /\ line = NoLine /\ next = 1 /\ tries = 0
  /\ cancelled = FALSE
  /\ connected = FALSE /\ link = FALSE
  /\ timers \in SUBSET (1..TimerSlots) /\ sent = {} /\ result = "none"

-----------------------------------------------------------------------------
(* The user, standard input and the goroutine that reads it.                   *)

Type(l) ==
  /\ ~eof /\ lines < MaxLines
  /\ typed' = Append(typed, l) /\ lines' = lines + 1
  /\ UNCHANGED <<eof, reader, pc, line, next, tries, cancelled, connected, link, motor, result>>

EndInput ==
  /\ ~eof
  /\ eof' = TRUE
  /\ UNCHANGED <<typed, lines, reader, pc, line, next, tries, cancelled, connected, link, motor, result>>

Interrupt ==
  /\ ~cancelled
  /\ cancelled' = TRUE
  /\ UNCHANGED <<input, reader, pc, line, next, tries, connected, link, motor, result>>

\* scanner.Scan: the next line, or the end.
Scan ==
  /\ offered = <<>> /\ ~closed
  /\ \/ typed # <<>> /\ offered' = <<Head(typed)>> /\ typed' = Tail(typed) /\ UNCHANGED closed
     \/ typed = <<>> /\ eof /\ closed' = TRUE /\ UNCHANGED <<offered, typed>>
  /\ UNCHANGED <<lines, eof, pc, line, next, tries, cancelled, connected, link, motor, result>>

-----------------------------------------------------------------------------
(* From a line to frames: handleCommand, handleTimer.                          *)

\* A bug: a slot is only checked from below before it becomes a byte.
acceptedFromBelow(l) ==
  /\ l.cmd \notin {"none", "quit", "clear"}
  /\ l.cmd = "pos" => l.n \in 0..100
  /\ l.cmd \in {"del", "add"} => l.n >= 1

\* Is there a frame for the line, or only an explanation?
accepted(l) ==
  /\ l.cmd \notin {"none", "quit", "clear"}
  /\ l.cmd = "pos" => l.n \in 0..100
  /\ l.cmd \in {"del", "add"} => l.n \in 1..TimerSlots

\* A bug: the loop ends before the last slot.
ClearTimersShort == [i \in 1..TimerSlots - 1 |-> Frame("del", i)]

ClearTimers == [i \in 1..TimerSlots |-> Frame("del", i)]

\* The frames of a line, in their order.
frames(l) ==
  IF l.cmd = "clear" THEN ClearTimers
  ELSE IF accepted(l) THEN <<Frame(l.cmd, l.n % 256)>>
  ELSE <<>>

-----------------------------------------------------------------------------
(* The main goroutine.                                                         *)

\* An interrupt whose StopScan comes before the discovery has begun: scan waits for an
\* end of the discovery that nothing brings about, and there is no link yet.
Stranded == cancelled /\ pc' = "stranded" /\ connected' = FALSE /\ link' = FALSE

\* main: without a connection the program exits.
Connect ==
  /\ pc = "connect"
  /\ \/ \E ok \in BOOLEAN :
          /\ connected' = ok /\ link' = ok
          /\ pc' = IF ok THEN "select" ELSE "exit"
     \/ Stranded
  /\ UNCHANGED <<input, reader, line, next, tries, cancelled, motor, result>>

\* The select receives a line, and quit also cancels the context.
Receive ==
  /\ pc = "select" /\ offered # <<>>
  /\ offered' = <<>> /\ line' = offered[1]
  /\ next' = 1 /\ tries' = 0
  /\ sent' = {} /\ result' = "none"
  /\ cancelled' = (cancelled \/ offered[1].cmd = "quit")
  /\ pc' = IF offered[1].cmd = "quit" THEN "disconnect"
           ELSE IF frames(offered[1]) = <<>> THEN "select"
           ELSE "send"
  /\ UNCHANGED <<input, closed, connected, link, timers>>

InputEnded ==
  /\ pc = "select" /\ closed
  /\ pc' = "disconnect"
  /\ UNCHANGED <<input, reader, line, next, tries, cancelled, connected, link, motor, result>>

\* A bug: an interrupt is only seen after a line.
InterruptedByLine ==
  /\ pc = "select" /\ cancelled /\ offered # <<>>
  /\ pc' = "disconnect"
  /\ UNCHANGED <<input, reader, line, next, tries, cancelled, connected, link, motor, result>>

Interrupted ==
  /\ pc = "select" /\ cancelled
  /\ pc' = "disconnect"
  /\ UNCHANGED <<input, reader, line, next, tries, cancelled, connected, link, motor, result>>

\* The deferred Disconnect.
Disconnect ==
  /\ pc = "disconnect"
  /\ pc' = "exit"
  /\ connected' = FALSE /\ link' = FALSE
  /\ UNCHANGED <<input, reader, line, next, tries, cancelled, motor, result>>

\* The line is through.
LineEnds(r) == pc' = "select" /\ result' = r

-----------------------------------------------------------------------------
(* Send.                                                                       *)

frame == frames(line)[next]

\* The frame reaches the motor, which does what it says or refuses: of a schedule it
\* reports that later by an event of its own, which Send does not wait for.
Reaches ==
  /\ link /\ connected
  /\ sent' = sent \cup {frame}
  /\ \/ timers' = (timers \cup {n \in {frame.n} : frame.op = "add"})
                  \ {n \in {frame.n} : frame.op = "del"}
     \/ UNCHANGED timers

\* The write is confirmed by the motor: the next frame, or the end of the line.
WriteOk ==
  /\ pc = "send" /\ Reaches
  /\ tries' = 0 /\ next' = next + 1
  /\ UNCHANGED <<input, reader, line, cancelled, connected, link>>
  /\ IF next < Len(frames(line))
     THEN UNCHANGED <<pc, result>>
     ELSE LineEnds("ok")

\* The first failure leads to a reconnect unless the context is cancelled, which is an
\* error like the second one, and ends ClearTimers.
Failed ==
  IF tries = 0 /\ ~cancelled
  THEN pc' = "reconnect" /\ tries' = 1 /\ UNCHANGED result
  ELSE LineEnds("error") /\ UNCHANGED tries

\* writeRaw fails: the frame got lost, or only the motor's confirmation did.
WriteFails ==
  /\ pc = "send"
  /\ UNCHANGED motor \/ Reaches
  /\ UNCHANGED <<input, reader, line, next, cancelled, connected, link>>
  /\ Failed

\* Send's reconnect: Disconnect and connectOnce.
Reconnect ==
  /\ pc = "reconnect"
  /\ \/ \E ok \in BOOLEAN :
          /\ connected' = ok /\ link' = ok
          /\ IF ok THEN pc' = "send" /\ UNCHANGED result ELSE LineEnds("error")
     \/ Stranded /\ UNCHANGED result
  /\ UNCHANGED <<input, reader, line, next, tries, cancelled, motor>>

-----------------------------------------------------------------------------
(* The motor.                                                                  *)

LinkDrop ==
  /\ link
  /\ link' = FALSE
  /\ UNCHANGED <<input, reader, pc, line, next, tries, cancelled, connected, motor, result>>

Main ==
  \/ Connect \/ Receive \/ InputEnded \/ Interrupted \/ Disconnect
  \/ WriteOk \/ WriteFails \/ Reconnect

Next ==
  \/ \E l \in Lines : Type(l)
  \/ EndInput \/ Interrupt
  \/ Scan \/ Main
  \/ LinkDrop

Spec == Init /\ [][Next]_vars

\* Both goroutines go on while they can, and select does not pass over ctx.Done for ever.
FairSpec == Spec /\ WF_vars(Scan) /\ WF_vars(Main) /\ SF_vars(Interrupted)

-----------------------------------------------------------------------------
\* What the motor should get for a line: its command with the number that was typed.
Wanted(l) ==
  IF l.cmd = "clear" THEN {Frame("del", s) : s \in 1..TimerSlots}
  ELSE {Frame(l.cmd, l.n)}

\* A line that ends without an error had every frame it stands for written and confirmed
\* by the motor, "timer clear" the one of every slot, whatever was lost, repeated or
\* reconnected meanwhile (Send, ClearTimers).  It does not say that the motor agreed: it
\* reports its refusals to OnEvent, and no command's error knows of them.
NoErrorMeansSent == result = "ok" => Wanted(line) \subseteq sent

\* The motor never gets a slot or position other than the one typed: a number that does
\* not fit is refused, never cut to a byte that is another slot, and a retry or a next
\* line sends nothing of the line before (handleTimer, handleCommand, Send).
OnlyWhatIsTyped == sent \subseteq Wanted(line)

\* The program never leaves the link behind, whichever way it ends (main's deferred
\* Disconnect; help text: "disconnect and exit").
ExitDropsLink == pc = "exit" => ~link

\* An interrupt ends the program, in the middle of a line too, and so does the end of
\* the input, after the lines before it; and no link is left (runREPL).  The exception
\* is an interrupt that leaves a connect or reconnect waiting in its scan.
ProgramEnds == cancelled \/ eof ~> pc = "stranded" \/ (pc = "exit" /\ ~link)
==============================================================================
