---------------------------- MODULE Configuration ----------------------------
(* From a configuration to a running bridge (pkg/blissha/config.go and           *)
(* automation.go, pkg/blissha/yamlcfg): a YAML file is built into a Config, or   *)
(* an embedding program makes one; Normalize applies the defaults and validates; *)
(* New normalizes (again) and runs what came out.                                *)
(*                                                                               *)
(* Nil is an absent YAML key or a nil pointer.  A field a program leaves out is  *)
(* zero, as in Go.  Durations are seconds, sensitivities per cent, and degrees   *)
(* and temperatures whole; of a PEM file only what is wrong with it is kept.     *)
(* Left out are texts that are only passed on (topics, credentials), the parsing *)
(* of times and weekdays, the lux gate, and the window's measures, which are     *)
(* treated like its azimuth.                                                     *)
EXTENDS Integers, Sequences

CONSTANTS
  Nil,
  Files,     \* the YAML files explored
  Structs    \* the configurations an embedding program may make

Modes == {"off", "sun_glare", "sun_shade", "schedule", "thermal"}
Times == 0..1439

\* A rule of a schedule as written, before validation.
Rules ==
  [days : SUBSET (0..6), openAt : Int, closeAt : Int, sleepHA : Int, openHA : Int,
   ramp : Int, notBeforeSunrise : BOOLEAN, notAfterSunset : BOOLEAN]

Thermals == [summerCloseHA : Int, winterOpenHA : Int, hotTempC : Int, coldTempC : Int]
FileThermals ==
  [summerCloseHA : Int \cup {Nil}, winterOpenHA : Int,
   hotTempC : Int \cup {Nil}, coldTempC : Int \cup {Nil}]
PresenceSims ==
  [enabled : BOOLEAN, morningOpen : Int, eveningClose : Int, openHA : Int, closeHA : Int]
Privacies == [afterDark : BOOLEAN, closeHA : Int]

\* The numbers applyDefaults replaces when they are not positive.
Positives == {"recompute", "minMoveInterval", "overrideTimeout", "deadband", "step", "maxMovesPerHour"}
positiveDefault ==
  [recompute |-> 300, minMoveInterval |-> 600, overrideTimeout |-> 7200,
   deadband |-> 5, step |-> 5, maxMovesPerHour |-> 8]

Automations ==
  [mode : Modes, whenUnoccupied : Modes, shadeClosedHA : Int, numbers : [Positives -> Int],
   azimuth : Int, sensitivity : Int, schedule : Seq(Rules), thermal : Thermals,
   presenceSim : PresenceSims, privacy : Privacies]
FileAutomations ==
  [mode : Modes \cup {"typo"}, whenUnoccupied : Modes \cup {"typo"},
   shadeClosedHA : Int \cup {Nil}, numbers : [Positives -> Int],
   azimuth : Int, sensitivity : Int, schedule : Seq(Rules), thermal : FileThermals \cup {Nil},
   presenceSim : PresenceSims, privacy : Privacies]

\* A MAC address is the address and the way it is written.
MACs == [addr : STRING, spelling : STRING]
Locations == [inRange : BOOLEAN, zone : STRING \cup {Nil}]

Blinds == [name : STRING, mac : MACs, automation : Automations]
FileBlinds == [name : STRING, mac : MACs, automation : FileAutomations \cup {Nil}]

Configs ==
  [broker : STRING, poll : Int, idleDisconnect : Int, location : Locations \cup {Nil},
   blinds : Seq(Blinds)]
\* The PEM files of a tls block: "" is no file.
TLS == [caCert : {"", "good", "bad"}, cert : {"", "good", "bad"}, key : {"", "good", "bad"}]

FileConfigs ==
  [broker : STRING, tls : TLS \cup {Nil}, poll : Int \cup {Nil}, idleDisconnect : Int, location : Locations \cup {Nil},
   blinds : Seq(FileBlinds)]

ASSUME ConfigurationAssumption ==
  /\ Nil \notin Int /\ Nil \notin STRING
  /\ Nil \notin TLS /\ Nil \notin FileThermals /\ Nil \notin FileAutomations
  /\ Nil \notin Configs /\ Nil \notin FileConfigs /\ Nil \notin Locations
  /\ Files \subseteq FileConfigs /\ Structs \subseteq Configs

VARIABLES
  phase,    \* "file", "struct", "normalized", "running", "unreadable" or "rejected"
  file,     \* the YAML file, Nil for an embedding program
  asked,    \* history: the configuration before its defaults
  cfg       \* the configuration

configurationVars == <<phase, file, asked, cfg>>

ConfigurationInit ==
  \/ phase = "file" /\ file \in Files /\ asked = Nil /\ cfg = Nil
  \/ phase = "struct" /\ file = Nil /\ asked \in Structs /\ cfg = asked

-----------------------------------------------------------------------------
(* yamlcfg: Build                                                              *)

zeroNumbers == [n \in Positives |-> 0]
zeroThermal == [summerCloseHA |-> 0, winterOpenHA |-> 0, hotTempC |-> 0, coldTempC |-> 0]
zeroAutomation ==
  [mode |-> "off", whenUnoccupied |-> "off", shadeClosedHA |-> 0, numbers |-> zeroNumbers,
   azimuth |-> 0, sensitivity |-> 0, schedule |-> <<>>, thermal |-> zeroThermal,
   presenceSim |-> [enabled |-> FALSE, morningOpen |-> 0, eveningClose |-> 0,
                    openHA |-> 0, closeHA |-> 0],
   privacy |-> [afterDark |-> FALSE, closeHA |-> 0]]

\* A bug: zero is taken for absent.
intOrUnset(p, default) == IF p = Nil \/ p = 0 THEN default ELSE p

intOr(p, default) == IF p = Nil THEN default ELSE p

builtThermal(t) ==
  IF t = Nil THEN zeroThermal
  ELSE [summerCloseHA |-> intOr(t.summerCloseHA, 20), winterOpenHA |-> t.winterOpenHA,
        hotTempC |-> intOr(t.hotTempC, 24), coldTempC |-> intOr(t.coldTempC, 10)]

builtAutomation(a) ==
  IF a = Nil THEN zeroAutomation
  ELSE [mode |-> a.mode, whenUnoccupied |-> a.whenUnoccupied,
        shadeClosedHA |-> intOr(a.shadeClosedHA, 25), numbers |-> a.numbers,
        azimuth |-> a.azimuth, sensitivity |-> a.sensitivity, schedule |-> a.schedule,
        thermal |-> builtThermal(a.thermal),
        presenceSim |-> a.presenceSim, privacy |-> a.privacy]

builtPoll(f) ==
  IF f.poll = Nil \/ f.poll < 0
  THEN IF f.idleDisconnect > 0 THEN 3600 ELSE 30
  ELSE f.poll

built(f) ==
  [broker |-> f.broker, poll |-> builtPoll(f), idleDisconnect |-> f.idleDisconnect,
   location |-> f.location,
   blinds |-> [i \in DOMAIN f.blinds |->
                [name |-> f.blinds[i].name, mac |-> f.blinds[i].mac,
                 automation |-> builtAutomation(f.blinds[i].automation)]]]

tlsBuilds(t) ==
  /\ t.caCert # "bad"
  /\ t.cert = "" <=> t.key = ""
  /\ t.cert # "bad" /\ t.key # "bad"

\* The certificates and the zone are loaded and the modes parsed while a file is built.
Readable(f) ==
  /\ f.tls # Nil => tlsBuilds(f.tls)
  /\ f.location # Nil => f.location.zone # "Nowhere"
  /\ \A i \in DOMAIN f.blinds :
       f.blinds[i].automation # Nil =>
         "typo" \notin {f.blinds[i].automation.mode, f.blinds[i].automation.whenUnoccupied}

-----------------------------------------------------------------------------
(* Config: Normalize                                                           *)

Unless0(x, default) == IF x = 0 THEN default ELSE x
AtLeast0(x) == IF x < 0 THEN 0 ELSE x

defaultedNumbers(m) ==
  [n \in Positives |-> IF m[n] <= 0 THEN positiveDefault[n] ELSE m[n]]
defaultedRule(e) == [e EXCEPT !.openHA = Unless0(@, 100)]
defaultedThermal(t) ==
  [summerCloseHA |-> t.summerCloseHA, winterOpenHA |-> Unless0(t.winterOpenHA, 100),
   hotTempC |-> t.hotTempC, coldTempC |-> t.coldTempC]
defaultedPresenceSim(p) ==
  [enabled |-> p.enabled, morningOpen |-> Unless0(p.morningOpen, 420),
   eveningClose |-> Unless0(p.eveningClose, 1260), openHA |-> Unless0(p.openHA, 100),
   closeHA |-> p.closeHA]

\* Automation.applyDefaults.
defaultedAutomation(a) ==
  IF a.mode = "off" THEN a
  ELSE [mode |-> a.mode, whenUnoccupied |-> a.whenUnoccupied, shadeClosedHA |-> a.shadeClosedHA,
        numbers |-> defaultedNumbers(a.numbers),
        azimuth |-> a.azimuth, sensitivity |-> Unless0(a.sensitivity, 50),
        schedule |-> [i \in DOMAIN a.schedule |-> defaultedRule(a.schedule[i])],
        thermal |-> defaultedThermal(a.thermal),
        presenceSim |-> defaultedPresenceSim(a.presenceSim), privacy |-> a.privacy]

\* A bug: the cadence is chosen before a negative idle time is taken for none.
pollCadenceFirst(poll, idle) ==
  IF AtLeast0(poll) = 0 /\ idle = 0 THEN 30 ELSE AtLeast0(poll)

\* A persistent connection is always polled.
pollCadence(poll, idle) ==
  IF AtLeast0(poll) = 0 /\ AtLeast0(idle) = 0 THEN 30 ELSE AtLeast0(poll)

\* Config.applyDefaults.
defaulted(c) ==
  [broker |-> c.broker, poll |-> pollCadence(c.poll, c.idleDisconnect),
   idleDisconnect |-> AtLeast0(c.idleDisconnect), location |-> c.location,
   blinds |-> [i \in DOMAIN c.blinds |->
                [name |-> c.blinds[i].name, mac |-> c.blinds[i].mac,
                 automation |-> defaultedAutomation(c.blinds[i].automation)]]]

usesSun(mode) == mode \in {"sun_glare", "sun_shade", "thermal"}
needsGeo(a) ==
  \/ usesSun(a.mode) \/ usesSun(a.whenUnoccupied) \/ a.privacy.afterDark
  \/ /\ a.mode = "schedule"
     /\ \E i \in DOMAIN a.schedule :
          a.schedule[i].notBeforeSunrise \/ a.schedule[i].notAfterSunset
needsZone(a) == a.mode = "schedule" \/ a.presenceSim.enabled

inHA(p) == p \in 0..100

validRule(e) ==
  /\ e.closeAt \in Times /\ e.openAt \in Times
  /\ inHA(e.sleepHA) /\ inHA(e.openHA) /\ e.ramp >= 0

\* Automation.validate.
validAutomation(a) ==
  a.mode # "off" =>
    /\ a.numbers.deadband \in 0..100 /\ a.numbers.step \in 1..100
    /\ inHA(a.shadeClosedHA)
    /\ a.whenUnoccupied \in {"off", "thermal", "sun_shade"}
    /\ usesSun(a.mode) \/ usesSun(a.whenUnoccupied) =>
         a.azimuth \in 0..359 /\ a.sensitivity \in 0..100
    /\ a.mode = "schedule" =>
         a.schedule # <<>> /\ \A i \in DOMAIN a.schedule : validRule(a.schedule[i])
    /\ inHA(a.thermal.summerCloseHA) /\ inHA(a.thermal.winterOpenHA)
    /\ a.presenceSim.enabled => inHA(a.presenceSim.openHA) /\ inHA(a.presenceSim.closeHA)
    /\ a.privacy.afterDark => inHA(a.privacy.closeHA)

\* A bug: two spellings of one address are two blinds.
blindIDAsWritten(mac) == mac

\* Neither case nor separators count.
blindID(mac) == mac.addr

\* Config.validate.
valid(c) ==
  /\ c.broker # ""
  /\ c.location # Nil => c.location.inRange
  /\ \A i \in DOMAIN c.blinds : c.blinds[i].name # "" /\ c.blinds[i].mac.addr # ""
  /\ \A i, j \in DOMAIN c.blinds : blindID(c.blinds[i].mac) = blindID(c.blinds[j].mac) => i = j
  /\ \A i \in DOMAIN c.blinds :
       /\ validAutomation(c.blinds[i].automation)
       /\ needsGeo(c.blinds[i].automation) => c.location # Nil
       /\ needsZone(c.blinds[i].automation) => c.location # Nil /\ c.location.zone # Nil

-----------------------------------------------------------------------------
Build ==
  /\ phase = "file"
  /\ IF Readable(file)
     THEN asked' = built(file) /\ cfg' = built(file) /\ phase' = "struct"
     ELSE phase' = "unreadable" /\ UNCHANGED <<asked, cfg>>
  /\ UNCHANGED file

\* Config.Normalize, which leaves its defaults behind even when it fails.
Normalized(next) ==
  /\ cfg' = defaulted(cfg)
  /\ phase' = IF valid(defaulted(cfg)) THEN next ELSE "rejected"
  /\ UNCHANGED <<file, asked>>

\* A dry run, or a program that normalizes by itself, and may call New next.
Normalize == phase \in {"struct", "normalized"} /\ Normalized("normalized")
New == phase \in {"struct", "normalized"} /\ Normalized("running")

ConfigurationNext == Build \/ Normalize \/ New

ConfigurationSpec == ConfigurationInit /\ [][ConfigurationNext]_configurationVars

-----------------------------------------------------------------------------
Accepted == phase \in {"normalized", "running"}
Active(c) == {i \in DOMAIN c.blinds : c.blinds[i].automation.mode # "off"}

\* The modules about schedules take what validate leaves of them.
Clock == INSTANCE Schedule WITH
  Day <- 1440, Week <- 7, Schedules <- {}, Suns <- {},
  entries <- <<>>, sun <- Nil, wd <- 0, mins <- 0

\* What the bridge takes for granted of one active automation: the deadband and the
\* quantization are defined (applyGuards), the caps and intervals bound something, the
\* schedule is one, and there is a place and a zone for what needs them (Decide).
SoundAutomation(a, location) ==
  /\ a.numbers.step \in 1..100 /\ a.numbers.deadband \in 1..100
  /\ \A n \in Positives : a.numbers[n] > 0
  /\ a.whenUnoccupied \in {"off", "thermal", "sun_shade"}
  /\ {a.mode, a.whenUnoccupied} \cap {"sun_glare", "sun_shade", "thermal"} # {} => location # Nil
  /\ a.mode = "schedule" =>
       /\ location # Nil /\ location.zone # Nil
       /\ a.schedule \in Seq(Clock!ScheduleEntry) /\ Len(a.schedule) > 0
       /\ \A i \in DOMAIN a.schedule : a.schedule[i].openHA > 0

\* Whatever file or structs a configuration came from: once accepted, a persistent
\* connection is polled (the manager would never notice a dropped link otherwise), no
\* two blinds share their topics and signals, and the automations are sound.
AcceptedIsSound ==
  Accepted =>
    /\ cfg.poll >= 0 /\ cfg.idleDisconnect >= 0
    /\ cfg.poll = 0 => cfg.idleDisconnect > 0
    /\ \A i, j \in DOMAIN cfg.blinds :
         cfg.blinds[i].mac.addr = cfg.blinds[j].mac.addr => i = j
    /\ \A i \in Active(cfg) : SoundAutomation(cfg.blinds[i].automation, cfg.location)

\* What a dry run shows is what runs: a configuration that has been normalized is
\* accepted again, unchanged (Normalize, which New calls once more).
NormalizedOnce ==
  [][phase = "normalized" => phase' # "rejected" /\ cfg' = cfg]_configurationVars

\* A key's value, or the default when the key is absent.
Honoured(key, default, value) == value = IF key = Nil THEN default ELSE key

\* The keys whose absence the loader keeps apart from zero: poll_interval and, of an
\* active automation, shade_closed and, in a thermal block, summer_close, hot_temp_c and
\* cold_temp_c.  One that is there means what it says, zero included (a poll_interval of 0
\* only on demand), and one that is not means its default, through both layers of
\* defaults.  Nothing is claimed of the other keys, most of which have their zero replaced,
\* nor of an absent thermal block (Build, intOr, applyDefaults).
KeysHonoured ==
  Accepted /\ file # Nil =>
    /\ file.poll # Nil /\ file.poll > 0 => cfg.poll = file.poll
    /\ file.poll = 0 /\ file.idleDisconnect > 0 => cfg.poll = 0
    /\ file.poll = Nil => cfg.poll = IF cfg.idleDisconnect > 0 THEN 3600 ELSE 30
    /\ \A i \in Active(cfg) :
         LET key == file.blinds[i].automation
             value == cfg.blinds[i].automation
         IN /\ Honoured(key.shadeClosedHA, 25, value.shadeClosedHA)
            /\ key.thermal # Nil =>
                 /\ Honoured(key.thermal.summerCloseHA, 20, value.thermal.summerCloseHA)
                 /\ Honoured(key.thermal.hotTempC, 24, value.thermal.hotTempC)
                 /\ Honoured(key.thermal.coldTempC, 10, value.thermal.coldTempC)

-----------------------------------------------------------------------------
(* What documentation, comments and tests say and the code does not keep (README, *)
(* section 5).                                                                   *)

\* Comment in applyDefaults on the thermal thresholds: "The YAML loader resolves their
\* defaults from an absent key (a nil pointer)".
AbsentThermalDefaults ==
  Accepted /\ file # Nil =>
    \A i \in Active(cfg) :
      /\ file.blinds[i].automation.thermal = Nil
      /\ "thermal" \in {cfg.blinds[i].automation.mode, cfg.blinds[i].automation.whenUnoccupied}
      =>
        /\ cfg.blinds[i].automation.thermal.summerCloseHA = 20
        /\ cfg.blinds[i].automation.thermal.hotTempC = 24
        /\ cfg.blinds[i].automation.thermal.coldTempC = 10

\* Comment on BlindConfig.Automation: "The zero value (ModeOff) disables it".  So what
\* else a disabled automation says should not get a configuration rejected.
WithoutDisabled(c) ==
  [c EXCEPT !.blinds =
     [i \in DOMAIN c.blinds |->
        [c.blinds[i] EXCEPT !.automation = IF i \in Active(c) THEN @ ELSE zeroAutomation]]]
DisabledIsIgnored == phase = "rejected" => ~valid(WithoutDisabled(cfg))

\* Comment on Config.Poll: "0 disables periodic refresh entirely (command-only)", and
\* the README's example of an embedding program: "Poll: 0, // command-only".
ZeroPollIsCommandOnly ==
  phase = "running" /\ file = Nil /\ asked.poll = 0 => cfg.poll = 0

\* presenceTarget: is the blind open at minute m?
presenceOpen(p, m) == p.morningOpen <= m /\ m < p.eveningClose

\* Comment on PresenceSim: it "opens/closes on a natural pattern".
PresenceOpens ==
  Accepted => \A i \in Active(cfg) :
    LET p == cfg.blinds[i].automation.presenceSim
    IN p.enabled => \E m \in Times : presenceOpen(p, m)
===============================================================================
