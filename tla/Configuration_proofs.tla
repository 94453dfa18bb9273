------------------------- MODULE Configuration_proofs -------------------------
(* Proofs about Configuration, for every file and every struct of the right      *)
(* types.                                                                        *)
EXTENDS Configuration, TLAPS

USE ConfigurationAssumption

(*****************************************************************************)
(* Types.                                                                    *)
(*****************************************************************************)

LEMMA IntOrTyped ==
  ASSUME NEW p \in Int \cup {Nil}, NEW d \in Int
  PROVE  intOr(p, d) \in Int
BY DEF intOr

LEMMA Literals == 20 \in Int /\ 24 \in Int /\ 10 \in Int /\ 25 \in Int
OBVIOUS

LEMMA BuiltThermalTyped ==
  ASSUME NEW t \in FileThermals \cup {Nil}
  PROVE  builtThermal(t) \in Thermals
<1>1. CASE t = Nil
  BY <1>1 DEF builtThermal, zeroThermal, Thermals
<1>2. CASE t \in FileThermals /\ t # Nil
  <2>1. /\ t.summerCloseHA \in Int \cup {Nil} /\ t.winterOpenHA \in Int
        /\ t.hotTempC \in Int \cup {Nil} /\ t.coldTempC \in Int \cup {Nil}
    BY <1>2, Zenon DEF FileThermals
  <2>2. /\ intOr(t.summerCloseHA, 20) \in Int
        /\ intOr(t.hotTempC, 24) \in Int /\ intOr(t.coldTempC, 10) \in Int
    BY <2>1, IntOrTyped, Literals, Zenon
  <2> QED BY <1>2, <2>1, <2>2, Zenon DEF builtThermal, Thermals
<1> QED BY <1>1, <1>2

LEMMA ZeroAutomationTyped == zeroAutomation \in Automations
<1>1. <<>> \in Seq(Rules)
  OBVIOUS
<1>2. zeroNumbers \in [Positives -> Int]
  BY DEF zeroNumbers
<1>3. zeroThermal \in Thermals
  BY DEF zeroThermal, Thermals
<1> QED
  BY <1>1, <1>2, <1>3 DEF zeroAutomation, Automations, Modes, PresenceSims, Privacies

LEMMA BuiltAutomationTyped ==
  ASSUME NEW a \in FileAutomations \cup {Nil},
         a # Nil => "typo" \notin {a.mode, a.whenUnoccupied}
  PROVE  builtAutomation(a) \in Automations
<1>1. CASE a = Nil
  BY <1>1, ZeroAutomationTyped DEF builtAutomation
<1>2. CASE a \in FileAutomations /\ a # Nil
  <2>1. /\ a.mode \in Modes /\ a.whenUnoccupied \in Modes
        /\ a.numbers \in [Positives -> Int] /\ a.azimuth \in Int /\ a.sensitivity \in Int
        /\ a.schedule \in Seq(Rules) /\ a.presenceSim \in PresenceSims
        /\ a.privacy \in Privacies
    BY <1>2 DEF FileAutomations
  <2> a.shadeClosedHA \in Int \cup {Nil}
    BY <1>2, Zenon DEF FileAutomations
  <2>2. intOr(a.shadeClosedHA, 25) \in Int
    BY IntOrTyped, Literals, Zenon
  <2>3. builtThermal(a.thermal) \in Thermals
    BY <1>2, BuiltThermalTyped DEF FileAutomations
  <2> QED BY <1>2, <2>1, <2>2, <2>3 DEF builtAutomation, Automations
<1> QED BY <1>1, <1>2

LEMMA BuiltTyped ==
  ASSUME NEW f \in FileConfigs, Readable(f)
  PROVE  built(f) \in Configs
<1> DEFINE b == [i \in DOMAIN f.blinds |->
                  [name |-> f.blinds[i].name, mac |-> f.blinds[i].mac,
                   automation |-> builtAutomation(f.blinds[i].automation)]]
<1>1. f.blinds \in Seq(FileBlinds)
  BY DEF FileConfigs
<1>3. DOMAIN f.blinds = 1..Len(f.blinds) /\ Len(f.blinds) \in Nat
  BY <1>1
<1>2. ASSUME NEW i \in DOMAIN f.blinds
      PROVE  [name |-> f.blinds[i].name, mac |-> f.blinds[i].mac,
              automation |-> builtAutomation(f.blinds[i].automation)] \in Blinds
  <2>1. f.blinds[i] \in FileBlinds
    BY <1>1, <1>3
  <2>2. builtAutomation(f.blinds[i].automation) \in Automations
    BY <2>1, BuiltAutomationTyped DEF Readable, FileBlinds
  <2> QED BY <2>1, <2>2 DEF Blinds, FileBlinds
<1>4. b \in Seq(Blinds)
  BY <1>2, <1>3
<1>5. builtPoll(f) \in Int
  BY DEF builtPoll, FileConfigs
<1> HIDE DEF b
<1>6. built(f) = [broker |-> f.broker, poll |-> builtPoll(f),
                  idleDisconnect |-> f.idleDisconnect, location |-> f.location, blinds |-> b]
  BY DEF built, b
<1>7. /\ f.broker \in STRING /\ f.idleDisconnect \in Int
      /\ f.location \in Locations \cup {Nil}
  BY DEF FileConfigs
<1> QED BY <1>4, <1>5, <1>6, <1>7 DEF Configs, Blinds

LEMMA Unless0Typed ==
  ASSUME NEW x \in Int, NEW d \in Int \ {0}
  PROVE  /\ Unless0(x, d) \in Int /\ Unless0(x, d) # 0
         /\ Unless0(Unless0(x, d), d) = Unless0(x, d)
         /\ x >= 0 /\ d > 0 => Unless0(x, d) > 0
BY DEF Unless0

LEMMA Defaults ==
  100 \in Int \ {0} /\ 50 \in Int \ {0} /\ 420 \in Int \ {0} /\ 1260 \in Int \ {0}
OBVIOUS

LEMMA RuleDefaulted ==
  ASSUME NEW e \in Rules
  PROVE  /\ defaultedRule(e) \in Rules
         /\ defaultedRule(defaultedRule(e)) = defaultedRule(e)
         /\ validRule(defaultedRule(e)) =>
              defaultedRule(e) \in Clock!ScheduleEntry /\ defaultedRule(e).openHA > 0
<1> DEFINE d == defaultedRule(e)
<1>1. e.openHA \in Int
  BY DEF Rules
<1>2. /\ Unless0(e.openHA, 100) \in Int /\ Unless0(e.openHA, 100) # 0
      /\ Unless0(Unless0(e.openHA, 100), 100) = Unless0(e.openHA, 100)
  BY <1>1, SMT DEF Unless0
<1>3. d = [days |-> e.days, openAt |-> e.openAt, closeAt |-> e.closeAt, sleepHA |-> e.sleepHA,
           openHA |-> Unless0(e.openHA, 100), ramp |-> e.ramp,
           notBeforeSunrise |-> e.notBeforeSunrise, notAfterSunset |-> e.notAfterSunset]
  BY DEF defaultedRule, Rules
<1>4. d \in Rules
  BY <1>2, <1>3 DEF Rules
<1>5. defaultedRule(d) = d
  <2>1. defaultedRule(d) = [d EXCEPT !.openHA = Unless0(d.openHA, 100)]
    BY DEF defaultedRule
  <2>2. d.openHA = Unless0(e.openHA, 100)
    BY <1>3
  <2>3. Unless0(d.openHA, 100) = d.openHA
    BY <1>2, <2>2
  <2> HIDE DEF d
  <2> QED BY <2>1, <2>3, <1>4 DEF Rules
<1>6. ASSUME validRule(d)
      PROVE  d \in Clock!ScheduleEntry /\ d.openHA > 0
  <2> HIDE DEF d
  <2>1. /\ d.closeAt \in 0..1439 /\ d.openAt \in 0..1439 /\ d.sleepHA \in 0..100
        /\ d.openHA \in 0..100 /\ d.ramp >= 0
    BY <1>6 DEF validRule, inHA, Times
  <2>2. d.ramp \in Nat
    <3>1. d.ramp \in Int
      BY <1>4 DEF Rules
    <3>2. \A n \in Int : n >= 0 => n \in Nat
      OBVIOUS
    <3> QED BY <3>1, <3>2, <2>1
  <2>3. d.openHA > 0
    <3>1. d.openHA # 0
      BY <1>2, <1>3 DEF d
    <3>2. \A n \in 0..100 : n # 0 => n > 0
      OBVIOUS
    <3> QED BY <3>1, <3>2, <2>1
  <2>4. Clock!Minutes = 0..1439 /\ Clock!Weekdays = 0..6
    BY DEF Clock!Minutes, Clock!Weekdays
  <2> QED BY <1>4, <2>1, <2>2, <2>3, <2>4 DEF Rules, Clock!ScheduleEntry
<1> QED BY <1>4, <1>5, <1>6

LEMMA NumbersDefaulted ==
  ASSUME NEW m \in [Positives -> Int]
  PROVE  /\ defaultedNumbers(m) \in [Positives -> Int]
         /\ \A n \in Positives : defaultedNumbers(m)[n] > 0
         /\ defaultedNumbers(defaultedNumbers(m)) = defaultedNumbers(m)
<1> DEFINE d == defaultedNumbers(m)
<1>1. \A n \in Positives : positiveDefault[n] \in Int /\ positiveDefault[n] > 0
  BY DEF Positives, positiveDefault
<1>2. \A n \in Positives : d[n] = IF m[n] <= 0 THEN positiveDefault[n] ELSE m[n]
  BY DEF defaultedNumbers
<1>3. \A n \in Positives : d[n] \in Int /\ d[n] > 0
  BY <1>1, <1>2
<1>4. d \in [Positives -> Int]
  BY <1>3 DEF defaultedNumbers
<1> HIDE DEF d
<1>5. \A n \in Positives : defaultedNumbers(d)[n] = d[n]
  BY <1>3 DEF defaultedNumbers
<1>6. defaultedNumbers(d) = [n \in Positives |-> defaultedNumbers(d)[n]]
  BY DEF defaultedNumbers
<1>7. d = [n \in Positives |-> d[n]]
  BY <1>4
<1>8. defaultedNumbers(d) = d
  BY <1>5, <1>6, <1>7
<1> QED BY <1>3, <1>4, <1>8 DEF d

LEMMA ThermalDefaulted ==
  ASSUME NEW t \in Thermals
  PROVE  /\ defaultedThermal(t) \in Thermals
         /\ defaultedThermal(defaultedThermal(t)) = defaultedThermal(t)
BY DEF defaultedThermal, Thermals, Unless0

LEMMA PresenceSimDefaulted ==
  ASSUME NEW p \in PresenceSims
  PROVE  /\ defaultedPresenceSim(p) \in PresenceSims
         /\ defaultedPresenceSim(defaultedPresenceSim(p)) = defaultedPresenceSim(p)
BY DEF defaultedPresenceSim, PresenceSims, Unless0

defaultedSchedule(s) == [i \in DOMAIN s |-> defaultedRule(s[i])]

LEMMA ScheduleDefaulted ==
  ASSUME NEW s \in Seq(Rules)
  PROVE  /\ defaultedSchedule(s) \in Seq(Rules)
         /\ defaultedSchedule(defaultedSchedule(s)) = defaultedSchedule(s)
         /\ (\A i \in DOMAIN defaultedSchedule(s) : validRule(defaultedSchedule(s)[i])) =>
              /\ defaultedSchedule(s) \in Seq(Clock!ScheduleEntry)
              /\ \A i \in DOMAIN defaultedSchedule(s) : defaultedSchedule(s)[i].openHA > 0
<1> DEFINE d == defaultedSchedule(s)
<1>1. /\ DOMAIN s = 1..Len(s) /\ Len(s) \in Nat
      /\ \A i \in DOMAIN s : s[i] \in Rules
  OBVIOUS
<1>2. /\ d = [i \in 1..Len(s) |-> d[i]]
      /\ DOMAIN d = 1..Len(s) /\ \A i \in 1..Len(s) : d[i] = defaultedRule(s[i])
  BY <1>1 DEF defaultedSchedule
<1>3. \A i \in 1..Len(s) : d[i] \in Rules /\ defaultedRule(d[i]) = d[i]
  BY <1>1, <1>2, RuleDefaulted
<1> HIDE DEF d
<1>4. d \in Seq(Rules)
  BY <1>1, <1>2, <1>3
<1>5. defaultedSchedule(d) = d
  BY <1>2, <1>3 DEF defaultedSchedule
<1>6. ASSUME \A i \in DOMAIN d : validRule(d[i])
      PROVE  d \in Seq(Clock!ScheduleEntry) /\ \A i \in DOMAIN d : d[i].openHA > 0
  <2>1. \A i \in 1..Len(s) : d[i] \in Clock!ScheduleEntry /\ d[i].openHA > 0
    BY <1>1, <1>2, <1>6, RuleDefaulted
  <2> QED BY <1>1, <1>2, <2>1
<1> QED BY <1>4, <1>5, <1>6 DEF d

\* One automation: its defaults are of the right types, applied once and for all, and
\* what validate then accepts is sound, given a place where one is needed.
LEMMA AutomationDefaulted ==
  ASSUME NEW a \in Automations
  PROVE  /\ defaultedAutomation(a) \in Automations
         /\ defaultedAutomation(defaultedAutomation(a)) = defaultedAutomation(a)
<1>1. CASE a.mode = "off"
  BY <1>1 DEF defaultedAutomation
<1>2. CASE a.mode # "off"
  <2>1. /\ a.mode \in Modes /\ a.whenUnoccupied \in Modes /\ a.shadeClosedHA \in Int
        /\ a.numbers \in [Positives -> Int] /\ a.azimuth \in Int /\ a.sensitivity \in Int
        /\ a.schedule \in Seq(Rules) /\ a.thermal \in Thermals
        /\ a.presenceSim \in PresenceSims /\ a.privacy \in Privacies
    BY DEF Automations
  <2> DEFINE d == defaultedAutomation(a)
             n == defaultedNumbers(a.numbers)
             v == Unless0(a.sensitivity, 50)
             s == defaultedSchedule(a.schedule)
             t == defaultedThermal(a.thermal)
             p == defaultedPresenceSim(a.presenceSim)
  <2>n. n \in [Positives -> Int] /\ defaultedNumbers(n) = n
    BY <2>1, NumbersDefaulted, Zenon
  <2>v. v \in Int /\ Unless0(v, 50) = v
    BY <2>1, SMT DEF Unless0
  <2>s. s \in Seq(Rules) /\ defaultedSchedule(s) = s
    BY <2>1, ScheduleDefaulted, Zenon
  <2>t. t \in Thermals /\ defaultedThermal(t) = t
    BY <2>1, ThermalDefaulted, Zenon
  <2>p. p \in PresenceSims /\ defaultedPresenceSim(p) = p
    BY <2>1, PresenceSimDefaulted, Zenon
  <2>4. d = [mode |-> a.mode, whenUnoccupied |-> a.whenUnoccupied,
             shadeClosedHA |-> a.shadeClosedHA, numbers |-> n, azimuth |-> a.azimuth,
             sensitivity |-> v, schedule |-> s, thermal |-> t, presenceSim |-> p,
             privacy |-> a.privacy]
    BY <1>2 DEF defaultedAutomation, defaultedSchedule
  <2> HIDE DEF n, v, s, t, p
  <2>5. d \in Automations
    BY <2>1, <2>n, <2>v, <2>s, <2>t, <2>p, <2>4 DEF Automations
  <2>6. /\ d.mode = a.mode /\ d.whenUnoccupied = a.whenUnoccupied
        /\ d.shadeClosedHA = a.shadeClosedHA /\ d.numbers = n /\ d.azimuth = a.azimuth
        /\ d.sensitivity = v /\ d.schedule = s /\ d.thermal = t /\ d.presenceSim = p
        /\ d.privacy = a.privacy
    BY <2>4
  <2> HIDE DEF d
  <2>7. defaultedAutomation(d)
          = [mode |-> d.mode, whenUnoccupied |-> d.whenUnoccupied,
             shadeClosedHA |-> d.shadeClosedHA, numbers |-> defaultedNumbers(d.numbers),
             azimuth |-> d.azimuth, sensitivity |-> Unless0(d.sensitivity, 50),
             schedule |-> defaultedSchedule(d.schedule),
             thermal |-> defaultedThermal(d.thermal),
             presenceSim |-> defaultedPresenceSim(d.presenceSim), privacy |-> d.privacy]
    BY <1>2, <2>6 DEF defaultedAutomation, defaultedSchedule
  <2>8. defaultedAutomation(d) = d
    BY <2>n, <2>v, <2>s, <2>t, <2>p, <2>4, <2>6, <2>7
  <2> QED BY <2>5, <2>8 DEF d
<1> QED BY <1>1, <1>2

LEMMA AutomationSound ==
  ASSUME NEW a \in Automations, NEW location,
         defaultedAutomation(a).mode # "off",
         validAutomation(defaultedAutomation(a)),
         needsGeo(defaultedAutomation(a)) => location # Nil,
         needsZone(defaultedAutomation(a)) => location # Nil /\ location.zone # Nil
  PROVE  SoundAutomation(defaultedAutomation(a), location)
<1> DEFINE d == defaultedAutomation(a)
<1>1. a.mode # "off"
  BY DEF defaultedAutomation
<1>2. d.numbers = defaultedNumbers(a.numbers) /\ d.schedule = defaultedSchedule(a.schedule)
  BY <1>1 DEF defaultedAutomation, defaultedSchedule
<1>3. a.numbers \in [Positives -> Int] /\ a.schedule \in Seq(Rules)
  BY DEF Automations
<1>4. d.numbers \in [Positives -> Int] /\ \A n \in Positives : d.numbers[n] > 0
  BY <1>2, <1>3, NumbersDefaulted, Zenon
<1>5. (\A i \in DOMAIN d.schedule : validRule(d.schedule[i])) =>
        /\ d.schedule \in Seq(Clock!ScheduleEntry)
        /\ \A i \in DOMAIN d.schedule : d.schedule[i].openHA > 0
  BY <1>2, <1>3, ScheduleDefaulted, Zenon
<1>6. d.schedule \in Seq(Rules)
  BY <1>2, <1>3, ScheduleDefaulted, Zenon
<1> HIDE DEF d
<1>7. validAutomation(d) /\ d.mode # "off"
  BY DEF d
<1>8. d.numbers.step \in 1..100 /\ d.numbers.deadband \in 0..100
  BY <1>7 DEF validAutomation
<1>9. d.numbers.deadband > 0
  BY <1>4 DEF Positives
<1>10. d.numbers.deadband \in 1..100
  BY <1>8, <1>9
<1>11. d.whenUnoccupied \in {"off", "thermal", "sun_shade"}
  BY <1>7 DEF validAutomation
<1>12. {d.mode, d.whenUnoccupied} \cap {"sun_glare", "sun_shade", "thermal"} # {}
         => location # Nil
  BY DEF d, needsGeo, usesSun
<1>13. ASSUME d.mode = "schedule"
       PROVE  /\ location # Nil /\ location.zone # Nil
              /\ d.schedule \in Seq(Clock!ScheduleEntry) /\ Len(d.schedule) > 0
              /\ \A i \in DOMAIN d.schedule : d.schedule[i].openHA > 0
  <2>1. location # Nil /\ location.zone # Nil
    BY <1>13 DEF d, needsZone
  <2>2. d.schedule # <<>> /\ \A i \in DOMAIN d.schedule : validRule(d.schedule[i])
    BY <1>7, <1>13, Zenon DEF validAutomation
  <2>3. Len(d.schedule) > 0
    BY <2>2, <1>6
  <2> QED BY <2>1, <2>2, <2>3, <1>5, Zenon
<1>14. SoundAutomation(d, location)
  BY <1>4, <1>8, <1>10, <1>11, <1>12, <1>13, Zenon DEF SoundAutomation
<1> QED BY <1>14 DEF d

(*****************************************************************************)
(* Configurations.                                                           *)
(*****************************************************************************)

LEMMA PollCadence ==
  ASSUME NEW p \in Int, NEW d \in Int
  PROVE  /\ pollCadence(p, d) \in Int /\ AtLeast0(d) \in Int
         /\ pollCadence(p, d) >= 0 /\ AtLeast0(d) >= 0
         /\ pollCadence(p, d) = 0 => AtLeast0(d) > 0
         /\ pollCadence(pollCadence(p, d), AtLeast0(d)) = pollCadence(p, d)
         /\ AtLeast0(AtLeast0(d)) = AtLeast0(d)
BY SMT DEF pollCadence, AtLeast0

defaultedBlinds(b) ==
  [i \in DOMAIN b |-> [name |-> b[i].name, mac |-> b[i].mac,
                       automation |-> defaultedAutomation(b[i].automation)]]

LEMMA BlindsDefaulted ==
  ASSUME NEW b \in Seq(Blinds)
  PROVE  /\ defaultedBlinds(b) \in Seq(Blinds)
         /\ DOMAIN defaultedBlinds(b) = DOMAIN b
         /\ \A i \in DOMAIN b :
              /\ b[i].automation \in Automations
              /\ defaultedBlinds(b)[i].automation = defaultedAutomation(b[i].automation)
         /\ defaultedBlinds(defaultedBlinds(b)) = defaultedBlinds(b)
<1> DEFINE d == defaultedBlinds(b)
<1>1. /\ DOMAIN b = 1..Len(b) /\ Len(b) \in Nat
      /\ \A i \in DOMAIN b : b[i] \in Blinds
  OBVIOUS
<1>2. /\ d = [i \in 1..Len(b) |-> d[i]] /\ DOMAIN d = 1..Len(b)
      /\ \A i \in 1..Len(b) :
           d[i] = [name |-> b[i].name, mac |-> b[i].mac,
                   automation |-> defaultedAutomation(b[i].automation)]
  BY <1>1 DEF defaultedBlinds
<1>3. ASSUME NEW i \in 1..Len(b)
      PROVE  /\ b[i].automation \in Automations
             /\ d[i] \in Blinds
             /\ d[i].automation = defaultedAutomation(b[i].automation)
             /\ [name |-> d[i].name, mac |-> d[i].mac,
                 automation |-> defaultedAutomation(d[i].automation)] = d[i]
  <2>1. b[i].name \in STRING /\ b[i].mac \in MACs /\ b[i].automation \in Automations
    BY <1>1 DEF Blinds
  <2> DEFINE a == defaultedAutomation(b[i].automation)
  <2>2. a \in Automations /\ defaultedAutomation(a) = a
    BY <2>1, AutomationDefaulted
  <2>3. d[i] = [name |-> b[i].name, mac |-> b[i].mac, automation |-> a]
    BY <1>2
  <2> HIDE DEF a, d
  <2>4. d[i].name = b[i].name /\ d[i].mac = b[i].mac /\ d[i].automation = a
    BY <2>3
  <2>5. d[i] \in Blinds
    BY <2>1, <2>2, <2>3 DEF Blinds
  <2>6. [name |-> d[i].name, mac |-> d[i].mac,
         automation |-> defaultedAutomation(d[i].automation)] = d[i]
    BY <2>2, <2>3, <2>4, Zenon
  <2> QED BY <2>1, <2>4, <2>5, <2>6 DEF a
<1> HIDE DEF d
<1>4. d \in Seq(Blinds)
  BY <1>1, <1>2, <1>3
<1>5. defaultedBlinds(d) = d
  BY <1>2, <1>3 DEF defaultedBlinds
<1> QED BY <1>1, <1>2, <1>3, <1>4, <1>5 DEF d

LEMMA Defaulted ==
  ASSUME NEW c \in Configs
  PROVE  /\ defaulted(c) \in Configs
         /\ defaulted(defaulted(c)) = defaulted(c)
<1> DEFINE d == defaulted(c)
           p == pollCadence(c.poll, c.idleDisconnect)
           l == AtLeast0(c.idleDisconnect)
           b == defaultedBlinds(c.blinds)
<1>1. /\ c.broker \in STRING /\ c.poll \in Int /\ c.idleDisconnect \in Int
      /\ c.location \in Locations \cup {Nil} /\ c.blinds \in Seq(Blinds)
  BY DEF Configs
<1>2. p \in Int /\ l \in Int /\ pollCadence(p, l) = p /\ AtLeast0(l) = l
  BY <1>1, PollCadence, Zenon
<1>3. b \in Seq(Blinds) /\ defaultedBlinds(b) = b
  BY <1>1, BlindsDefaulted, Zenon
<1>4. d = [broker |-> c.broker, poll |-> p, idleDisconnect |-> l,
           location |-> c.location, blinds |-> b]
  BY DEF defaulted, defaultedBlinds
<1> HIDE DEF p, l, b
<1>5. /\ d.broker = c.broker /\ d.poll = p /\ d.idleDisconnect = l
      /\ d.location = c.location /\ d.blinds = b
  BY <1>4
<1>6. d \in Configs
  BY <1>1, <1>2, <1>3, <1>4 DEF Configs
<1> HIDE DEF d
<1>7. defaulted(d) = [broker |-> d.broker, poll |-> pollCadence(d.poll, d.idleDisconnect),
                      idleDisconnect |-> AtLeast0(d.idleDisconnect),
                      location |-> d.location, blinds |-> defaultedBlinds(d.blinds)]
  BY DEF defaulted, defaultedBlinds
<1>8. defaulted(d) = d
  BY <1>2, <1>3, <1>4, <1>5, <1>7
<1> QED BY <1>6, <1>8 DEF d

Sound(c) ==
  /\ c.poll >= 0 /\ c.idleDisconnect >= 0
  /\ c.poll = 0 => c.idleDisconnect > 0
  /\ \A i, j \in DOMAIN c.blinds : c.blinds[i].mac.addr = c.blinds[j].mac.addr => i = j
  /\ \A i \in Active(c) : SoundAutomation(c.blinds[i].automation, c.location)

LEMMA ValidIsSound ==
  ASSUME NEW c \in Configs, valid(defaulted(c))
  PROVE  Sound(defaulted(c))
<1> DEFINE d == defaulted(c)
<1>1. c.poll \in Int /\ c.idleDisconnect \in Int /\ c.blinds \in Seq(Blinds)
  BY DEF Configs
<1>2. /\ d.poll = pollCadence(c.poll, c.idleDisconnect)
      /\ d.idleDisconnect = AtLeast0(c.idleDisconnect)
      /\ d.blinds = defaultedBlinds(c.blinds)
  BY DEF defaulted, defaultedBlinds
<1> HIDE DEF d
<1>3. d.poll >= 0 /\ d.idleDisconnect >= 0 /\ (d.poll = 0 => d.idleDisconnect > 0)
  <2> DEFINE p == c.poll
             l == c.idleDisconnect
  <2>1. p \in Int /\ l \in Int
    BY <1>1
  <2> HIDE DEF p, l
  <2>2. /\ pollCadence(p, l) >= 0 /\ AtLeast0(l) >= 0
        /\ pollCadence(p, l) = 0 => AtLeast0(l) > 0
    BY <2>1, PollCadence
  <2> QED BY <1>2, <2>2 DEF p, l
<1>4. valid(d)
  BY DEF d
<1>5. \A i, j \in DOMAIN d.blinds : d.blinds[i].mac.addr = d.blinds[j].mac.addr => i = j
  BY <1>4, Zenon DEF valid, blindID
<1>6. ASSUME NEW i \in Active(d)
      PROVE  SoundAutomation(d.blinds[i].automation, d.location)
  <2>1. i \in DOMAIN d.blinds /\ d.blinds[i].automation.mode # "off"
    BY Zenon DEF Active
  <2> DEFINE a == c.blinds[i].automation
  <2>2. a \in Automations /\ d.blinds[i].automation = defaultedAutomation(a)
    BY <1>1, <1>2, <2>1, BlindsDefaulted, Zenon
  <2>3. /\ validAutomation(d.blinds[i].automation)
        /\ needsGeo(d.blinds[i].automation) => d.location # Nil
        /\ needsZone(d.blinds[i].automation) => d.location # Nil /\ d.location.zone # Nil
    BY <1>4, <2>1, Zenon DEF valid
  <2> HIDE DEF a
  <2> QED BY <2>1, <2>2, <2>3, AutomationSound, Zenon
<1>7. Sound(d)
  BY <1>3, <1>5, <1>6, Zenon DEF Sound
<1> QED BY <1>7 DEF d

(*****************************************************************************)
(* The life of a configuration.                                              *)
(*****************************************************************************)

\* An accepted configuration is the defaulted form of some configuration.
IInv ==
  /\ phase \in {"file", "struct", "normalized", "running", "unreadable", "rejected"}
  /\ phase = "file" => file \in Files
  /\ phase = "struct" => cfg \in Configs
  /\ Accepted => \E c \in Configs : cfg = defaulted(c) /\ valid(defaulted(c))

\* The invariant holds (Build, Normalize, New).
THEOREM InvariantHolds == ConfigurationSpec => []IInv
<1>1. ConfigurationInit => IInv
  BY DEF ConfigurationInit, IInv, Accepted
<1>2. ASSUME IInv, [ConfigurationNext]_configurationVars PROVE IInv'
  <2>1. CASE Build
    <3>1. CASE Readable(file)
      <4>1. file \in FileConfigs
        BY <1>2, <2>1 DEF Build, IInv
      <4>2. built(file) \in Configs
        BY <3>1, <4>1, BuiltTyped
      <4>3. phase' = "struct" /\ cfg' = built(file)
        BY <2>1, <3>1 DEF Build
      <4> QED BY <4>2, <4>3 DEF IInv, Accepted
    <3>2. CASE ~Readable(file)
      <4>1. phase' = "unreadable"
        BY <2>1, <3>2 DEF Build
      <4> QED BY <4>1 DEF IInv, Accepted
    <3> QED BY <3>1, <3>2
  <2>2. ASSUME phase \in {"struct", "normalized"}, NEW next \in {"normalized", "running"},
               Normalized(next)
        PROVE  IInv'
    <3>1. cfg \in Configs
      BY <1>2, <2>2, Defaulted DEF IInv, Accepted
    <3>2. cfg' = defaulted(cfg)
      BY <2>2 DEF Normalized
    <3>3. phase' = IF valid(defaulted(cfg)) THEN next ELSE "rejected"
      BY <2>2 DEF Normalized
    <3> QED BY <2>2, <3>1, <3>2, <3>3 DEF IInv, Accepted
  <2>3. CASE UNCHANGED configurationVars
    BY <1>2, <2>3 DEF IInv, Accepted, configurationVars
  <2> QED BY <1>2, <2>1, <2>2, <2>3 DEF ConfigurationNext, Normalize, New
<1> QED BY <1>1, <1>2, PTL DEF ConfigurationSpec

\* Whatever is accepted is sound: polled when persistent, no two blinds with one name,
\* automations as the other modules assume them (applyDefaults, validate).
THEOREM AcceptedIsSoundHolds == ConfigurationSpec => []AcceptedIsSound
<1>1. IInv => AcceptedIsSound
  <2> SUFFICES ASSUME IInv, Accepted PROVE Sound(cfg)
    BY Zenon DEF AcceptedIsSound, Sound
  <2>1. PICK c \in Configs : cfg = defaulted(c) /\ valid(defaulted(c))
    BY DEF IInv
  <2> QED BY <2>1, ValidIsSound
<1> QED BY <1>1, InvariantHolds, PTL

\* Normalizing twice is normalizing once: a dry run shows what New will run.
THEOREM NormalizedOnceHolds == ConfigurationSpec => NormalizedOnce
<1>1. IInv /\ [ConfigurationNext]_configurationVars => [phase = "normalized" => phase' # "rejected" /\ cfg' = cfg]_configurationVars
  <2> SUFFICES ASSUME IInv, ConfigurationNext, phase = "normalized"
               PROVE  phase' # "rejected" /\ cfg' = cfg
    OBVIOUS
  <2>1. PICK c \in Configs : cfg = defaulted(c) /\ valid(defaulted(c))
    BY DEF IInv, Accepted
  <2>2. defaulted(cfg) = cfg /\ valid(cfg)
    BY <2>1, Defaulted
  <2>3. ~Build
    BY DEF Build
  <2>4. PICK next \in {"normalized", "running"} : Normalized(next)
    BY <2>3 DEF ConfigurationNext, Normalize, New
  <2> QED BY <2>2, <2>4 DEF Normalized
<1> QED BY <1>1, InvariantHolds, PTL DEF ConfigurationSpec, NormalizedOnce

(*****************************************************************************)
(* Keys.                                                                     *)
(*****************************************************************************)

\* What a file says of an automation is what defaults leave of it: they replace zeros
\* only where zero has no meaning of its own.
LEMMA AutomationKept ==
  ASSUME NEW key \in FileAutomations \cup {Nil},
         defaultedAutomation(builtAutomation(key)).mode # "off"
  PROVE  LET value == defaultedAutomation(builtAutomation(key))
         IN /\ Honoured(key.shadeClosedHA, 25, value.shadeClosedHA)
            /\ key.thermal # Nil =>
                 /\ Honoured(key.thermal.summerCloseHA, 20, value.thermal.summerCloseHA)
                 /\ Honoured(key.thermal.hotTempC, 24, value.thermal.hotTempC)
                 /\ Honoured(key.thermal.coldTempC, 10, value.thermal.coldTempC)
<1> DEFINE b == builtAutomation(key)
           v == defaultedAutomation(b)
<1>1. b.mode # "off"
  BY DEF defaultedAutomation
<1>2. key # Nil
  BY <1>1 DEF builtAutomation, zeroAutomation
<1>3. /\ b.shadeClosedHA = intOr(key.shadeClosedHA, 25)
      /\ b.thermal = builtThermal(key.thermal)
  BY <1>2 DEF builtAutomation
<1> HIDE DEF b
<1>4. v.shadeClosedHA = b.shadeClosedHA /\ v.thermal = defaultedThermal(b.thermal)
  BY <1>1 DEF defaultedAutomation
<1> HIDE DEF v
<1>5. Honoured(key.shadeClosedHA, 25, v.shadeClosedHA)
  BY <1>3, <1>4 DEF Honoured, intOr
<1>6. ASSUME key.thermal # Nil
      PROVE  /\ Honoured(key.thermal.summerCloseHA, 20, v.thermal.summerCloseHA)
             /\ Honoured(key.thermal.hotTempC, 24, v.thermal.hotTempC)
             /\ Honoured(key.thermal.coldTempC, 10, v.thermal.coldTempC)
  BY <1>3, <1>4, <1>6 DEF Honoured, intOr, builtThermal, defaultedThermal
<1> QED BY <1>5, <1>6, Zenon DEF v, b

\* The same of a whole file.
HonouredBy(c, f) ==
  /\ f.poll # Nil /\ f.poll > 0 => c.poll = f.poll
  /\ f.poll = 0 /\ f.idleDisconnect > 0 => c.poll = 0
  /\ f.poll = Nil => c.poll = IF c.idleDisconnect > 0 THEN 3600 ELSE 30
  /\ \A i \in Active(c) :
       LET key == f.blinds[i].automation
           value == c.blinds[i].automation
       IN /\ Honoured(key.shadeClosedHA, 25, value.shadeClosedHA)
          /\ key.thermal # Nil =>
               /\ Honoured(key.thermal.summerCloseHA, 20, value.thermal.summerCloseHA)
               /\ Honoured(key.thermal.hotTempC, 24, value.thermal.hotTempC)
               /\ Honoured(key.thermal.coldTempC, 10, value.thermal.coldTempC)

LEMMA FileKept ==
  ASSUME NEW f \in FileConfigs
  PROVE  HonouredBy(defaulted(built(f)), f)
<1> DEFINE c == built(f)
           d == defaulted(c)
<1>1. /\ f.poll \in Int \cup {Nil} /\ f.idleDisconnect \in Int
      /\ f.blinds \in Seq(FileBlinds)
  BY DEF FileConfigs
<1>2. /\ c.poll = builtPoll(f) /\ c.idleDisconnect = f.idleDisconnect
      /\ DOMAIN c.blinds = DOMAIN f.blinds
      /\ \A i \in DOMAIN f.blinds :
           c.blinds[i].automation = builtAutomation(f.blinds[i].automation)
  BY DEF built
<1> HIDE DEF c
<1>3. /\ d.poll = pollCadence(c.poll, c.idleDisconnect)
      /\ d.idleDisconnect = AtLeast0(c.idleDisconnect)
      /\ DOMAIN d.blinds = DOMAIN c.blinds
      /\ \A i \in DOMAIN c.blinds :
           d.blinds[i].automation = defaultedAutomation(c.blinds[i].automation)
  BY DEF defaulted
<1> HIDE DEF d
<1>4. /\ f.poll # Nil /\ f.poll > 0 => d.poll = f.poll
      /\ f.poll = 0 /\ f.idleDisconnect > 0 => d.poll = 0
      /\ f.poll = Nil => d.poll = IF d.idleDisconnect > 0 THEN 3600 ELSE 30
  <2> DEFINE p == f.poll
             l == f.idleDisconnect
             q == d.poll
             m == d.idleDisconnect
  <2>1. p \in Int \cup {Nil} /\ l \in Int
    BY <1>1
  <2>2. /\ m = AtLeast0(l)
        /\ q = pollCadence(IF p = Nil \/ p < 0 THEN IF l > 0 THEN 3600 ELSE 30 ELSE p, l)
    BY <1>2, <1>3 DEF builtPoll
  <2> HIDE DEF p, l, q, m
  <2>3. p = Nil => q = IF m > 0 THEN 3600 ELSE 30
    BY <2>1, <2>2 DEF pollCadence, AtLeast0
  <2>4. p # Nil /\ p > 0 => q = p
    BY <2>1, <2>2 DEF pollCadence, AtLeast0
  <2>5. p = 0 /\ l > 0 => q = 0
    BY <2>1, <2>2 DEF pollCadence, AtLeast0
  <2> QED BY <2>3, <2>4, <2>5 DEF p, l, q, m
<1>5. ASSUME NEW i \in Active(d)
      PROVE  LET key == f.blinds[i].automation
                 value == d.blinds[i].automation
             IN /\ Honoured(key.shadeClosedHA, 25, value.shadeClosedHA)
                /\ key.thermal # Nil =>
                     /\ Honoured(key.thermal.summerCloseHA, 20, value.thermal.summerCloseHA)
                     /\ Honoured(key.thermal.hotTempC, 24, value.thermal.hotTempC)
                     /\ Honoured(key.thermal.coldTempC, 10, value.thermal.coldTempC)
  <2>1. i \in DOMAIN f.blinds /\ d.blinds[i].automation.mode # "off"
    BY <1>2, <1>3, Zenon DEF Active
  <2>2. f.blinds[i].automation \in FileAutomations \cup {Nil}
    <3>1. f.blinds[i] \in FileBlinds
      BY <1>1, <2>1
    <3> QED BY <3>1 DEF FileBlinds
  <2>3. d.blinds[i].automation = defaultedAutomation(builtAutomation(f.blinds[i].automation))
    BY <1>2, <1>3, <2>1, Zenon
  <2> QED BY <2>1, <2>2, <2>3, AutomationKept, Zenon
<1>6. HonouredBy(d, f)
  BY <1>4, <1>5, Zenon DEF HonouredBy
<1> QED BY <1>6 DEF d, c

\* What became of the file: Build's result, and then its defaults, however often they
\* are applied.
FileInv ==
  /\ file # Nil => file \in Files
  /\ phase = "struct" /\ file # Nil => cfg = built(file) /\ Readable(file)
  /\ Accepted /\ file # Nil => cfg = defaulted(built(file)) /\ Readable(file)

LEMMA FileStep == FileInv /\ [ConfigurationNext]_configurationVars => FileInv'
<1> SUFFICES ASSUME FileInv, [ConfigurationNext]_configurationVars PROVE FileInv'
  OBVIOUS
<1>1. CASE Build
  <2>1. file' = file
    BY <1>1 DEF Build
  <2>2. CASE Readable(file)
    <3>1. phase' = "struct" /\ cfg' = built(file)
      BY <1>1, <2>2 DEF Build
    <3>2. ~Accepted'
      BY <3>1 DEF Accepted
    <3> QED BY <2>1, <2>2, <3>1, <3>2, Zenon DEF FileInv
  <2>3. CASE ~Readable(file)
    <3>1. phase' = "unreadable"
      BY <1>1, <2>3 DEF Build
    <3> QED BY <2>1, <3>1 DEF FileInv, Accepted
  <2> QED BY <2>2, <2>3
<1>2. ASSUME phase \in {"struct", "normalized"}, NEW next \in {"normalized", "running"},
             Normalized(next)
      PROVE  FileInv'
  <2>1. /\ file' = file /\ cfg' = defaulted(cfg)
        /\ phase' \in {next, "rejected"} /\ phase' # "struct"
    BY <1>2 DEF Normalized
  <2>2. ASSUME file # Nil
        PROVE  defaulted(cfg) = defaulted(built(file)) /\ Readable(file)
    <3>1. CASE phase = "struct"
      BY <2>2, <3>1 DEF FileInv
    <3>2. CASE phase = "normalized"
      <4>1. cfg = defaulted(built(file)) /\ Readable(file) /\ file \in FileConfigs
        BY <2>2, <3>2 DEF FileInv, Accepted
      <4>2. built(file) \in Configs
        BY <4>1, BuiltTyped
      <4> QED BY <4>1, <4>2, Defaulted, Zenon
    <3> QED BY <1>2, <3>1, <3>2
  <2>3. (file # Nil)' = (file # Nil)
    BY <2>1
  <2> QED BY <2>1, <2>2, Zenon DEF FileInv
<1>3. CASE UNCHANGED configurationVars
  BY <1>3, Zenon DEF FileInv, Accepted, configurationVars
<1> QED BY <1>1, <1>2, <1>3 DEF ConfigurationNext, Normalize, New

\* poll_interval, shade_closed and the three keys of a thermal block that intOr reads mean what they
\* say, zero included, and their default when they are absent, for every file, through Build
\* and however often the defaults are applied (intOr, applyDefaults).
THEOREM KeysHonouredHolds == ConfigurationSpec => []KeysHonoured
<1>1. ConfigurationInit => FileInv
  BY DEF ConfigurationInit, FileInv, Accepted
<1>2. FileInv => KeysHonoured
  <2> SUFFICES ASSUME FileInv, Accepted, file # Nil PROVE HonouredBy(cfg, file)
    BY Zenon DEF KeysHonoured, HonouredBy
  <2>1. file \in FileConfigs /\ cfg = defaulted(built(file))
    BY DEF FileInv
  <2> QED BY <2>1, FileKept
<1> QED BY <1>1, <1>2, FileStep, PTL DEF ConfigurationSpec
===============================================================================
