----------------------------- MODULE MCAlgorithms ------------------------------
(* The pure algorithms of the program, which share no state: the settle        *)
(* tracker, the clock schedule, the deadband, the configuration, and the two   *)
(* directions of the protocol.  A behaviour explores one of them, from any of  *)
(* its initial states; the others rest in one of theirs.                       *)
EXTENDS Settle, MCSchedule, MCDeadband, MCConfiguration, MCProtocol

VARIABLE turn   \* the algorithm that is explored

vars ==
  <<turn, settleVars, scheduleVars, deadbandVars, configurationVars, protocolVars>>

One(S) == CHOOSE x \in S : TRUE

ScheduleRests ==
  /\ LET regular == CHOOSE p \in Schedules \X Suns : Regular(p[1], p[2])
     IN entries = regular[1] /\ sun = regular[2]
  /\ wd = 0 /\ mins = 0
DeadbandRests ==
  /\ step = One(Steps) /\ deadband = One(Deadbands)
  /\ want = One(Wants) /\ current = One(Starts)
ConfigurationRests ==
  phase = "struct" /\ file = Nil /\ asked = One(Structs) /\ cfg = asked

Init ==
  /\ turn \in {"settle", "schedule", "deadband", "configuration", "commands", "reports"}
  /\ SettleInit
  /\ IF turn = "schedule"
     THEN /\ entries \in Schedules /\ sun \in Suns /\ Regular(entries, sun)
          /\ ScheduleInit
     ELSE ScheduleRests
  /\ IF turn = "deadband" THEN DeadbandInit ELSE DeadbandRests
  /\ IF turn = "configuration" THEN ConfigurationInit ELSE ConfigurationRests
  /\ turn # "commands" => range = One(Ranges)
  /\ ProtocolInit

Next ==
  /\ UNCHANGED turn
  /\ \/ /\ turn = "settle" /\ SettleNext
        /\ UNCHANGED <<scheduleVars, deadbandVars, configurationVars, protocolVars>>
     \/ /\ turn = "schedule" /\ Minute
        /\ UNCHANGED <<settleVars, deadbandVars, configurationVars, protocolVars>>
     \/ /\ turn = "deadband" /\ DeadbandNext
        /\ UNCHANGED <<settleVars, scheduleVars, configurationVars, protocolVars>>
     \/ /\ turn = "configuration" /\ ConfigurationNext
        /\ UNCHANGED <<settleVars, scheduleVars, deadbandVars, protocolVars>>
     \/ /\ turn = "commands" /\ Commanding
        /\ UNCHANGED <<settleVars, scheduleVars, deadbandVars, configurationVars>>
     \/ /\ turn = "reports" /\ Reporting
        /\ UNCHANGED <<settleVars, scheduleVars, deadbandVars, configurationVars>>

Spec == Init /\ [][Next]_vars
===============================================================================
