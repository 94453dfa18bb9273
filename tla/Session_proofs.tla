---------------------------- MODULE Session_proofs ----------------------------
(* Proofs about Session: for every set of lines and number of slots, a line that *)
(* ends without an error had every frame confirmed, the motor never gets a slot  *)
(* or position other than the one typed, and the program leaves no link behind.  *)
EXTENDS Session, TLAPS

\* The frames sent so far of the line being run reached the motor.
Progress ==
  pc \in {"send", "reconnect"} =>
    /\ next \in 1..Len(frames(line))
    /\ \A i \in 1..next - 1 : frames(line)[i] \in sent

IInv ==
  /\ TypeOK
  /\ Progress
  /\ NoErrorMeansSent
  /\ OnlyWhatIsTyped
  /\ ExitDropsLink

\* What handleCommand makes of a line: frames with numbers in range, at most one a
\* slot, and exactly the frames that are wanted, if any.
LEMMA FramesOfLine ==
  ASSUME NEW l \in Lines \cup {NoLine}
  PROVE  /\ frames(l) \in Seq(Frames)
         /\ Len(frames(l)) \in 0..TimerSlots
         /\ \A i \in 1..Len(frames(l)) : frames(l)[i] \in Frames \cap Wanted(l)
         /\ frames(l) # <<>> =>
              \A w \in Wanted(l) : \E i \in 1..Len(frames(l)) : w = frames(l)[i]
         /\ frames(l) = <<>> <=> Len(frames(l)) = 0
<1> USE SessionAssumption
<1>1. /\ l \in [cmd : Commands, n : Int]
      /\ l.cmd \notin {"pos", "del", "add"} => l.n = 0
  BY DEF NoLine, Commands
<1>2. CASE l.cmd = "clear"
  <2>1. frames(l) = [i \in 1..TimerSlots |-> Frame("del", i)]
    BY <1>2 DEF frames, ClearTimers
  <2>2. \A i \in 1..TimerSlots : Frame("del", i) \in Frames
    BY DEF Frames, Frame, Commands
  <2>3. frames(l) \in Seq(Frames) /\ Len(frames(l)) = TimerSlots
    BY <2>1, <2>2
  <2>5. Wanted(l) = {Frame("del", s) : s \in 1..TimerSlots}
    BY <1>2 DEF Wanted
  <2>6. \A w \in Wanted(l) : \E i \in 1..TimerSlots : w = frames(l)[i]
    BY <2>1, <2>5
  <2>7. frames(l) # <<>>
    BY <2>3
  <2>8. \A i \in 1..TimerSlots : frames(l)[i] \in Frames \cap Wanted(l)
    BY <2>1, <2>2, <2>5
  <2> QED
    BY <2>3, <2>6, <2>7, <2>8
<1>3. CASE l.cmd # "clear" /\ accepted(l)
  <2>1. frames(l) = <<Frame(l.cmd, l.n % 256)>>
    BY <1>3 DEF frames
  <2>2. l.n \in 0..255 /\ l.n % 256 = l.n
    BY <1>1, <1>3 DEF accepted
  <2>3. Frame(l.cmd, l.n) \in Frames
    BY <1>1, <2>2 DEF Frames, Frame
  <2>4. frames(l) = <<Frame(l.cmd, l.n)>>
    BY <2>1, <2>2
  <2>5. Wanted(l) = {Frame(l.cmd, l.n)}
    BY <1>3 DEF Wanted
  <2>6. /\ frames(l) \in Seq(Frames) /\ Len(frames(l)) = 1
        /\ frames(l)[1] = Frame(l.cmd, l.n)
    BY <2>3, <2>4
  <2>7. frames(l) # <<>>
    <3>1. Len(frames(l)) = 1
      BY <2>6
    <3> QED
      BY <3>1
  <2>8. \A i \in 1..Len(frames(l)) : i = 1
    BY <2>6
  <2>9. frames(l)[1] \in Frames \cap Wanted(l) /\ 1 \in 1..Len(frames(l))
    BY <2>3, <2>5, <2>6
  <2>10. \A i \in 1..Len(frames(l)) : frames(l)[i] \in Frames \cap Wanted(l)
    BY <2>8, <2>9
  <2>11. \A w \in Wanted(l) : w = frames(l)[1]
    BY <2>5, <2>6
  <2>12. \A w \in Wanted(l) : \E i \in 1..Len(frames(l)) : w = frames(l)[i]
    BY <2>9, <2>11
  <2>13. Len(frames(l)) \in 0..TimerSlots
    BY <2>6
  <2> QED
    BY <2>6, <2>7, <2>10, <2>12, <2>13
<1>4. CASE l.cmd # "clear" /\ ~accepted(l)
  <2>1. frames(l) = <<>>
    BY <1>4 DEF frames
  <2>2. frames(l) \in Seq(Frames) /\ Len(frames(l)) = 0
    BY <2>1
  <2> QED
    BY <2>1, <2>2
<1> QED
  BY <1>2, <1>3, <1>4

-----------------------------------------------------------------------------
(* Type correctness.                                                           *)

\* The frame that Send works on.
LEMMA FrameInRange ==
  ASSUME TypeOK, Progress, pc \in {"send", "reconnect"}
  PROVE  frame \in Frames \cap Wanted(line)
<1>1. line \in Lines \cup {NoLine}
  BY DEF TypeOK
<1>2. next \in 1..Len(frames(line))
  BY DEF Progress
<1> QED
  BY <1>1, <1>2, FramesOfLine DEF frame

\* What the motor does leaves it timers.
LEMMA ReachesType ==
  ASSUME TypeOK, Progress, pc \in {"send", "reconnect"}, Reaches
  PROVE  timers' \subseteq 0..255 /\ sent' \subseteq Frames
<1>1. frame \in Frames
  BY FrameInRange
<1>2. frame.n \in 0..255
  BY <1>1 DEF Frames
<1>3. timers \subseteq 0..255 /\ sent \subseteq Frames
  BY DEF TypeOK
<1> QED
  BY <1>1, <1>2, <1>3 DEF Reaches

LEMMA InitInv == Init => IInv
<1> SUFFICES ASSUME Init PROVE IInv
  OBVIOUS
<1> USE SessionAssumption
<1>1. TypeOK
  <2>1. timers \subseteq 0..255
    BY DEF Init
  <2>2. typed \in Seq(Lines) /\ lines \in 0..MaxLines /\ sent \subseteq Frames
    BY DEF Init
  <2>3. line \in Lines \cup {NoLine} /\ next \in 1..TimerSlots + 1 /\ tries \in 0..1
    BY DEF Init
  <2>4. /\ eof \in BOOLEAN /\ closed \in BOOLEAN /\ cancelled \in BOOLEAN
        /\ connected \in BOOLEAN /\ link \in BOOLEAN
    BY DEF Init
  <2>5. /\ offered \in {<<>>} \cup {<<l>> : l \in Lines} /\ result \in {"none", "ok", "error"}
        /\ pc \in {"connect", "select", "send", "reconnect", "disconnect", "exit", "stranded"}
    BY DEF Init
  <2> QED
    BY <2>1, <2>2, <2>3, <2>4, <2>5, Zenon DEF TypeOK
<1>2. Progress /\ NoErrorMeansSent /\ ExitDropsLink
  BY DEF Init, Progress, NoErrorMeansSent, ExitDropsLink
<1>3. OnlyWhatIsTyped
  BY DEF Init, OnlyWhatIsTyped
<1> QED
  BY <1>1, <1>2, <1>3 DEF IInv

\* Where the main goroutine can be.
Places == {"connect", "select", "send", "reconnect", "disconnect", "exit", "stranded"}

\* The parts of TypeOK that a step changes as a whole or not at all.
InputType ==
  /\ typed \in Seq(Lines) /\ lines \in 0..MaxLines /\ eof \in BOOLEAN
  /\ offered \in {<<>>} \cup {<<l>> : l \in Lines} /\ closed \in BOOLEAN

MainType ==
  /\ pc \in Places
  /\ line \in Lines \cup {NoLine} /\ next \in 1..TimerSlots + 1 /\ tries \in 0..1
  /\ cancelled \in BOOLEAN /\ connected \in BOOLEAN /\ link \in BOOLEAN
  /\ result \in {"none", "ok", "error"}

MotorType == timers \subseteq 0..255 /\ sent \subseteq Frames

LEMMA TypeParts ==
  /\ TypeOK <=> InputType /\ MainType /\ MotorType
  /\ TypeOK' <=> InputType' /\ MainType' /\ MotorType'
BY Zenon DEF TypeOK, InputType, MainType, MotorType, Places

\* What no step changes keeps its type.
LEMMA TypeStays ==
  ASSUME TypeOK
  PROVE  /\ UNCHANGED <<input, reader>> => InputType'
         /\ /\ UNCHANGED <<line, next, tries, cancelled, connected, link, result>>
            /\ pc' \in Places
            => MainType'
         /\ UNCHANGED motor => MotorType'
<1>1. UNCHANGED <<input, reader>> => InputType'
  BY Zenon DEF TypeOK, InputType, input, reader
<1>2. /\ UNCHANGED <<line, next, tries, cancelled, connected, link, result>>
      /\ pc' \in Places
      => MainType'
  BY DEF TypeOK, Places, MainType
<1>3. UNCHANGED motor => MotorType'
  BY DEF TypeOK, MotorType, motor
<1> QED
  BY <1>1, <1>2, <1>3

\* Every step preserves the types.
LEMMA NextType ==
  ASSUME IInv, Next
  PROVE  TypeOK'
<1> USE SessionAssumption
<1>0. TypeOK /\ Progress
  BY DEF IInv
<1>1. ASSUME NEW l \in Lines, Type(l) PROVE TypeOK'
  <2>1. typed' \in Seq(Lines) /\ lines' \in 0..MaxLines
    BY <1>0, <1>1 DEF TypeOK, Type
  <2>2. InputType'
    BY <1>0, <1>1, <2>1, Zenon DEF TypeOK, InputType, Type, reader
  <2>3. pc' \in Places
    BY <1>0, <1>1 DEF TypeOK, Type, Places
  <2> QED
    BY <1>0, <1>1, <2>2, <2>3, TypeParts, TypeStays DEF Type
<1>2. ASSUME EndInput PROVE TypeOK'
  <2>1. InputType'
    BY <1>0, <1>2, Zenon DEF TypeOK, InputType, EndInput, reader
  <2>2. pc' \in Places
    BY <1>0, <1>2 DEF TypeOK, EndInput, Places
  <2> QED
    BY <1>0, <1>2, <2>1, <2>2, TypeParts, TypeStays DEF EndInput
<1>3. ASSUME Scan PROVE TypeOK'
  <2>1. InputType'
    <3>1. CASE typed # <<>> /\ offered' = <<Head(typed)>> /\ typed' = Tail(typed)
               /\ UNCHANGED closed
      <4>1. Head(typed) \in Lines /\ Tail(typed) \in Seq(Lines)
        BY <1>0, <3>1 DEF TypeOK
      <4>2. offered' \in {<<>>} \cup {<<l>> : l \in Lines}
        BY <3>1, <4>1, Zenon
      <4> QED
        BY <1>0, <1>3, <3>1, <4>1, <4>2, Zenon DEF TypeOK, InputType, Scan
    <3>2. CASE closed' = TRUE /\ UNCHANGED <<offered, typed>>
      BY <1>0, <1>3, <3>2, Zenon DEF TypeOK, InputType, Scan
    <3> QED
      BY <1>3, <3>1, <3>2 DEF Scan
  <2>2. pc' \in Places
    BY <1>0, <1>3 DEF TypeOK, Scan, Places
  <2> QED
    BY <1>0, <1>3, <2>1, <2>2, TypeParts, TypeStays DEF Scan
<1>4. ASSUME Interrupt \/ LinkDrop PROVE TypeOK'
  <2>1. MainType'
    BY <1>0, <1>4 DEF TypeOK, Places, MainType, Interrupt, LinkDrop
  <2> QED
    BY <1>0, <1>4, <2>1, TypeParts, TypeStays DEF Interrupt, LinkDrop
<1>5. ASSUME InputEnded \/ Interrupted PROVE TypeOK'
  <2>1. pc' \in Places
    BY <1>5 DEF InputEnded, Interrupted, Places
  <2> QED
    BY <1>0, <1>5, <2>1, TypeParts, TypeStays DEF InputEnded, Interrupted
<1>6. ASSUME Connect \/ Disconnect PROVE TypeOK'
  <2>1. connected' \in BOOLEAN /\ link' \in BOOLEAN /\ pc' \in {"select", "exit", "stranded"}
    BY <1>6, Zenon DEF Connect, Disconnect, Stranded
  <2>2. MainType'
    BY <1>0, <1>6, <2>1 DEF TypeOK, Places, MainType, Connect, Disconnect
  <2> QED
    BY <1>0, <1>6, <2>2, TypeParts, TypeStays DEF Connect, Disconnect
<1>7. ASSUME Receive PROVE TypeOK'
  <2>1. PICK l \in Lines : offered = <<l>>
    BY <1>0, <1>7 DEF TypeOK, Receive
  <2>2. line' \in Lines /\ pc' \in {"disconnect", "select", "send"} /\ cancelled' \in BOOLEAN
    BY <1>0, <1>7, <2>1 DEF TypeOK, Receive
  <2>3. next' \in 1..TimerSlots + 1 /\ tries' \in 0..1
    BY <1>7 DEF Receive
  <2>4. MainType'
    BY <1>0, <1>7, <2>2, <2>3 DEF TypeOK, Places, MainType, Receive
  <2>5. InputType'
    BY <1>0, <1>7, Zenon DEF TypeOK, InputType, Receive, input
  <2>6. MotorType'
    BY <1>0, <1>7 DEF TypeOK, MotorType, Receive
  <2> QED
    BY <2>4, <2>5, <2>6, TypeParts
<1>8. ASSUME WriteOk PROVE TypeOK'
  <2>1. MotorType'
    BY <1>0, <1>8, ReachesType DEF WriteOk, MotorType
  <2>2. next' \in 1..TimerSlots + 1
    <3>1. next \in 1..Len(frames(line)) /\ line \in Lines \cup {NoLine}
      BY <1>0, <1>8 DEF WriteOk, Progress, TypeOK
    <3>2. Len(frames(line)) \in 0..TimerSlots
      BY <3>1, FramesOfLine
    <3> QED
      BY <1>8, <3>1, <3>2 DEF WriteOk
  <2>3. pc' \in {"send", "select"} /\ result' \in {"none", "ok", "error"}
    BY <1>0, <1>8 DEF TypeOK, WriteOk, LineEnds
  <2>4. MainType'
    BY <1>0, <1>8, <2>2, <2>3 DEF TypeOK, Places, MainType, WriteOk
  <2> QED
    BY <1>0, <1>8, <2>1, <2>4, TypeParts, TypeStays DEF WriteOk
<1>9. ASSUME WriteFails PROVE TypeOK'
  <2>1. MotorType'
    BY <1>0, <1>9, ReachesType, TypeStays DEF WriteFails, MotorType
  <2>2. /\ pc' \in {"reconnect", "select"} /\ result' \in {"none", "ok", "error"}
        /\ tries' \in 0..1
    BY <1>0, <1>9 DEF TypeOK, WriteFails, Failed, LineEnds
  <2>3. MainType'
    BY <1>0, <1>9, <2>2 DEF TypeOK, Places, MainType, WriteFails
  <2> QED
    BY <1>0, <1>9, <2>1, <2>3, TypeParts, TypeStays DEF WriteFails
<1>10. ASSUME Reconnect PROVE TypeOK'
  <2>1. /\ connected' \in BOOLEAN /\ link' \in BOOLEAN
        /\ pc' \in {"send", "select", "stranded"} /\ result' \in {"none", "ok", "error"}
    <3>1. result \in {"none", "ok", "error"}
      BY <1>0 DEF TypeOK
    <3> QED
      BY <1>10, <3>1, Zenon DEF Reconnect, LineEnds, Stranded
  <2>2. MainType'
    BY <1>0, <1>10, <2>1 DEF TypeOK, Places, MainType, Reconnect
  <2> QED
    BY <1>0, <1>10, <2>2, TypeParts, TypeStays DEF Reconnect
<1> QED
  BY <1>1, <1>2, <1>3, <1>4, <1>5, <1>6, <1>7, <1>8, <1>9, <1>10 DEF Next, Main

-----------------------------------------------------------------------------
(* The other parts of the invariant, each along the steps that can disturb it. *)

LEMMA NextProgress ==
  ASSUME IInv, Next
  PROVE  Progress'
<1> USE SessionAssumption
<1>0. TypeOK /\ Progress
  BY DEF IInv
<1>1. ASSUME UNCHANGED <<line, next, sent>>, pc' = pc \/ pc' \notin {"send", "reconnect"}
      PROVE  Progress'
  BY <1>0, <1>1 DEF Progress
<1>2. ASSUME Receive PROVE Progress'
  <2>1. PICK l \in Lines : offered = <<l>>
    BY <1>0, <1>2 DEF TypeOK, Receive
  <2>2. CASE pc' \in {"send", "reconnect"}
    <3>1. line' = l /\ frames(l) # <<>> /\ next' = 1
      BY <1>2, <2>1, <2>2 DEF Receive
    <3>2. Len(frames(l)) \in 1..TimerSlots
      BY <3>1, FramesOfLine
    <3>3. frames(line)' = frames(l)
      BY <3>1 DEF frames, accepted, ClearTimers, Frame
    <3> QED
      BY <3>1, <3>2, <3>3 DEF Progress
  <2>3. CASE pc' \notin {"send", "reconnect"}
    BY <2>3 DEF Progress
  <2> QED
    BY <2>2, <2>3
<1>3. ASSUME WriteOk PROVE Progress'
  <2>1. line' = line /\ next' = next + 1 /\ sent' = sent \cup {frame}
    BY <1>3 DEF WriteOk, Reaches
  <2>2. /\ next \in 1..Len(frames(line))
        /\ \A i \in 1..next - 1 : frames(line)[i] \in sent
    BY <1>0, <1>3 DEF WriteOk, Progress
  <2>3. \A i \in 1..next : frames(line)[i] \in sent'
    BY <2>1, <2>2 DEF frame
  <2>4. line \in Lines \cup {NoLine}
    BY <1>0 DEF TypeOK
  <2>5. Len(frames(line)) \in Nat
    BY <2>4, FramesOfLine
  <2>6. frames(line)' = frames(line)
    BY <2>1 DEF frames, accepted, ClearTimers, Frame
  <2>7. CASE next < Len(frames(line))
    BY <2>1, <2>2, <2>3, <2>5, <2>6, <2>7 DEF Progress
  <2>8. CASE ~(next < Len(frames(line)))
    BY <1>3, <2>8 DEF WriteOk, LineEnds, Progress
  <2> QED
    BY <2>7, <2>8
<1>4. ASSUME WriteFails PROVE Progress'
  <2>1. line' = line /\ next' = next /\ sent \subseteq sent'
    BY <1>4 DEF WriteFails, Reaches, motor
  <2>2. /\ next \in 1..Len(frames(line))
        /\ \A i \in 1..next - 1 : frames(line)[i] \in sent
    BY <1>0, <1>4 DEF WriteFails, Progress
  <2>3. frames(line)' = frames(line)
    BY <2>1 DEF frames, accepted, ClearTimers, Frame
  <2> QED
    BY <2>1, <2>2, <2>3 DEF Progress
<1>5. ASSUME Reconnect PROVE Progress'
  <2>1. UNCHANGED <<line, next, sent>> /\ pc = "reconnect"
    BY <1>5 DEF Reconnect, motor
  <2> QED
    BY <1>0, <2>1 DEF Progress
<1>6. ASSUME NEW l \in Lines, Type(l) PROVE Progress'
  BY <1>1, <1>6 DEF Type, motor
<1>7. ASSUME EndInput \/ Interrupt \/ Scan \/ LinkDrop PROVE Progress'
  BY <1>1, <1>7 DEF EndInput, Interrupt, Scan, LinkDrop, motor
<1>8. ASSUME Connect \/ InputEnded \/ Interrupted \/ Disconnect PROVE Progress'
  BY <1>1, <1>8 DEF Connect, InputEnded, Interrupted, Disconnect, Stranded, motor
<1> QED
  BY <1>2, <1>3, <1>4, <1>5, <1>6, <1>7, <1>8 DEF Next, Main

LEMMA NextNoErrorMeansSent ==
  ASSUME IInv, Next
  PROVE  NoErrorMeansSent'
<1> USE SessionAssumption
<1>0. TypeOK /\ Progress /\ NoErrorMeansSent
  BY DEF IInv
<1>1. ASSUME line' = line, result' = result, sent \subseteq sent'
      PROVE  NoErrorMeansSent'
  <2>1. Wanted(line)' = Wanted(line)
    BY <1>1 DEF Wanted, Frame
  <2> QED
    BY <1>0, <1>1, <2>1 DEF NoErrorMeansSent
<1>2. ASSUME result' # "ok" PROVE NoErrorMeansSent'
  BY <1>2 DEF NoErrorMeansSent
<1>3. ASSUME WriteOk PROVE NoErrorMeansSent'
  <2>1. CASE next < Len(frames(line))
    BY <1>1, <1>3, <2>1 DEF WriteOk, Reaches
  <2>2. CASE ~(next < Len(frames(line)))
    <3>1. line' = line /\ sent' = sent \cup {frame}
      BY <1>3 DEF WriteOk, Reaches
    <3>2. /\ next \in 1..Len(frames(line))
          /\ \A i \in 1..next - 1 : frames(line)[i] \in sent
      BY <1>0, <1>3 DEF WriteOk, Progress
    <3>3. line \in Lines \cup {NoLine}
      BY <1>0 DEF TypeOK
    <3>4. Len(frames(line)) \in Nat
      BY <3>3, FramesOfLine
    <3>5. \A i \in 1..Len(frames(line)) : frames(line)[i] \in sent'
      BY <2>2, <3>1, <3>2, <3>4 DEF frame
    <3>6. frames(line) # <<>>
      BY <3>2, <3>3, FramesOfLine
    <3>7. \A w \in Wanted(line) : \E i \in 1..Len(frames(line)) : w = frames(line)[i]
      BY <3>3, <3>6, FramesOfLine
    <3>8. Wanted(line) \subseteq sent'
      BY <3>5, <3>7
    <3>9. Wanted(line)' = Wanted(line)
      BY <3>1 DEF Wanted, Frame
    <3> QED
      BY <3>8, <3>9 DEF NoErrorMeansSent
  <2> QED
    BY <2>1, <2>2
<1>4. ASSUME WriteFails PROVE NoErrorMeansSent'
  <2>1. line' = line /\ sent \subseteq sent'
    BY <1>4 DEF WriteFails, Reaches, motor
  <2>2. result' = result \/ result' = "error"
    BY <1>4 DEF WriteFails, Failed, LineEnds
  <2> QED
    BY <1>1, <1>2, <2>1, <2>2
<1>5. ASSUME Reconnect PROVE NoErrorMeansSent'
  <2>1. UNCHANGED <<line, sent>>
    BY <1>5 DEF Reconnect, motor
  <2>2. result' = result \/ result' = "error"
    BY <1>5 DEF Reconnect, LineEnds, Stranded
  <2> QED
    BY <1>1, <1>2, <2>1, <2>2
<1>6. ASSUME Receive PROVE NoErrorMeansSent'
  BY <1>2, <1>6 DEF Receive
<1>7. ASSUME NEW l \in Lines, Type(l) PROVE NoErrorMeansSent'
  BY <1>1, <1>7 DEF Type, motor
<1>8. ASSUME EndInput \/ Interrupt \/ Scan \/ LinkDrop PROVE NoErrorMeansSent'
  BY <1>1, <1>8 DEF EndInput, Interrupt, Scan, LinkDrop, motor
<1>9. ASSUME Connect \/ InputEnded \/ Interrupted \/ Disconnect PROVE NoErrorMeansSent'
  BY <1>1, <1>9 DEF Connect, InputEnded, Interrupted, Disconnect, motor
<1> QED
  BY <1>3, <1>4, <1>5, <1>6, <1>7, <1>8, <1>9 DEF Next, Main

LEMMA NextOnlyWhatIsTyped ==
  ASSUME IInv, Next
  PROVE  OnlyWhatIsTyped'
<1> USE SessionAssumption
<1>0. TypeOK /\ Progress /\ OnlyWhatIsTyped
  BY DEF IInv
<1>1. ASSUME UNCHANGED <<line, sent>> PROVE OnlyWhatIsTyped'
  <2>1. Wanted(line)' = Wanted(line)
    BY <1>1 DEF Wanted, Frame
  <2> QED
    BY <1>0, <1>1, <2>1 DEF OnlyWhatIsTyped
<1>2. ASSUME Reaches, pc = "send", UNCHANGED line PROVE OnlyWhatIsTyped'
  <2>1. frame \in Wanted(line)
    BY <1>0, <1>2, FrameInRange
  <2>2. sent' = sent \cup {frame}
    BY <1>2 DEF Reaches
  <2>3. Wanted(line)' = Wanted(line)
    BY <1>2 DEF Wanted, Frame
  <2> QED
    BY <1>0, <2>1, <2>2, <2>3 DEF OnlyWhatIsTyped
<1>3. ASSUME WriteOk \/ WriteFails PROVE OnlyWhatIsTyped'
  BY <1>1, <1>2, <1>3 DEF WriteOk, WriteFails, motor
<1>4. ASSUME NEW l \in Lines, Type(l) PROVE OnlyWhatIsTyped'
  BY <1>1, <1>4 DEF Type, motor
<1>5. ASSUME EndInput \/ Interrupt \/ Scan \/ LinkDrop PROVE OnlyWhatIsTyped'
  BY <1>1, <1>5 DEF EndInput, Interrupt, Scan, LinkDrop, motor
<1>6. ASSUME Connect \/ InputEnded \/ Interrupted \/ Disconnect \/ Reconnect
      PROVE  OnlyWhatIsTyped'
  BY <1>1, <1>6 DEF Connect, InputEnded, Interrupted, Disconnect, Reconnect, motor
<1>7. ASSUME Receive PROVE OnlyWhatIsTyped'
  BY <1>7 DEF Receive, OnlyWhatIsTyped
<1> QED
  BY <1>3, <1>4, <1>5, <1>6, <1>7 DEF Next, Main

LEMMA NextExitDropsLink ==
  ASSUME IInv, Next
  PROVE  ExitDropsLink'
<1>0. ExitDropsLink
  BY DEF IInv
<1>1. ASSUME NEW l \in Lines, Type(l) PROVE ExitDropsLink'
  BY <1>0, <1>1 DEF Type, ExitDropsLink
<1>2. ASSUME EndInput \/ Interrupt \/ Scan \/ LinkDrop PROVE ExitDropsLink'
  BY <1>0, <1>2 DEF EndInput, Interrupt, Scan, LinkDrop, ExitDropsLink
<1>3. ASSUME Connect \/ Receive \/ InputEnded \/ Interrupted \/ Disconnect PROVE ExitDropsLink'
  BY <1>3 DEF Connect, Receive, InputEnded, Interrupted, Disconnect, ExitDropsLink, Stranded
<1>4. ASSUME WriteOk \/ WriteFails PROVE ExitDropsLink'
  BY <1>4 DEF WriteOk, WriteFails, Failed, LineEnds, ExitDropsLink
<1>5. ASSUME Reconnect PROVE ExitDropsLink'
  BY <1>5 DEF Reconnect, LineEnds, ExitDropsLink, Stranded
<1> QED
  BY <1>1, <1>2, <1>3, <1>4, <1>5 DEF Next, Main

-----------------------------------------------------------------------------
\* The inductive invariant of a session, for every set of lines and number of slots.
THEOREM InvariantHolds == Spec => []IInv
<1>1. Init => IInv
  BY InitInv
<1>2. IInv /\ [Next]_vars => IInv'
  <2>1. IInv /\ Next => IInv'
    BY NextType, NextProgress, NextNoErrorMeansSent, NextOnlyWhatIsTyped, NextExitDropsLink DEF IInv
  <2>2. IInv /\ UNCHANGED vars => IInv'
    <3> SUFFICES ASSUME IInv, UNCHANGED vars PROVE IInv'
      OBVIOUS
    <3>1. TypeOK'
      <4>1. pc' \in Places /\ TypeOK
        BY DEF IInv, vars, TypeOK, Places
      <4> QED
        BY <4>1, TypeStays, TypeParts DEF vars
    <3>2. Wanted(line)' = Wanted(line) /\ frames(line)' = frames(line)
      BY DEF vars, Wanted, frames, accepted, ClearTimers, Frame
    <3>3. Progress' /\ NoErrorMeansSent'
      BY <3>2 DEF IInv, vars, Progress, NoErrorMeansSent, motor
    <3>4. OnlyWhatIsTyped' /\ ExitDropsLink'
      BY DEF IInv, vars, OnlyWhatIsTyped, ExitDropsLink, motor
    <3> QED
      BY <3>1, <3>3, <3>4 DEF IInv
  <2> QED
    BY <2>1, <2>2
<1> QED
  BY <1>1, <1>2, PTL DEF Spec

\* Types, for every value of the constants.
THEOREM TypeCorrect == Spec => []TypeOK
<1>1. IInv => TypeOK
  BY DEF IInv
<1> QED
  BY <1>1, InvariantHolds, PTL

\* A line reported without an error had every frame it stands for written and confirmed,
\* however many slots the motor has and whatever is lost, repeated or reconnected on the
\* way.  Whether the motor then agreed is not in it.
THEOREM NoErrorMeansSentHolds == Spec => []NoErrorMeansSent
<1>1. IInv => NoErrorMeansSent
  BY DEF IInv
<1> QED
  BY <1>1, InvariantHolds, PTL

\* Whatever number is typed, the motor gets that number or nothing.
THEOREM OnlyWhatIsTypedHolds == Spec => []OnlyWhatIsTyped
<1>1. IInv => OnlyWhatIsTyped
  BY DEF IInv
<1> QED
  BY <1>1, InvariantHolds, PTL

\* However the program ends, the link is down.
THEOREM ExitDropsLinkHolds == Spec => []ExitDropsLink
<1>1. IInv => ExitDropsLink
  BY DEF IInv
<1> QED
  BY <1>1, InvariantHolds, PTL
==============================================================================
