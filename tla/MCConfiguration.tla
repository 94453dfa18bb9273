--------------------------- MODULE MCConfiguration ---------------------------
(* Configurations for TLC: around a plain one, every combination of the fields *)
(* that interact.                                                              *)
EXTENDS Configuration

Spellings == {[addr |-> "aa", spelling |-> "AA"], [addr |-> "aa", spelling |-> "a-a"],
              [addr |-> "bb", spelling |-> "BB"]}
MAC1 == [addr |-> "aa", spelling |-> "AA"]

AnyRule(open, close, sleep, openHA, rise) ==
  [days |-> {}, openAt |-> open, closeAt |-> close, sleepHA |-> sleep, openHA |-> openHA,
   ramp |-> 0, notBeforeSunrise |-> rise, notAfterSunset |-> FALSE]

SomeSchedules ==
  {<<>>, <<AnyRule(420, 1320, 0, 0, FALSE)>>, <<AnyRule(420, 30, 0, 60, TRUE)>>,
   <<AnyRule(420, 1320, 0, 100, FALSE), AnyRule(1440, 0, 101, -1, FALSE)>>}

\* An automation block with no keys but those given.
Block == [zeroAutomation EXCEPT !.shadeClosedHA = Nil, !.thermal = Nil]

SomeThermals ==
  {Nil} \cup [summerCloseHA : {Nil, 0, 101}, winterOpenHA : {0, 40},
              hotTempC : {Nil, 0}, coldTempC : {Nil, 0}]

\* Numbers that are absent, given, or out of range.
SomeNumbers ==
  {zeroNumbers, [positiveDefault EXCEPT !.step = 30, !.deadband = 100],
   [zeroNumbers EXCEPT !.deadband = 101], [zeroNumbers EXCEPT !.step = -1]}

Blocks ==
  {[Block EXCEPT !.mode = m, !.whenUnoccupied = u, !.thermal = t, !.shadeClosedHA = s,
                 !.azimuth = z] :
     m \in Modes, u \in {"off", "thermal", "sun_glare", "typo"}, t \in SomeThermals,
     s \in {Nil, 0}, z \in {90, 360}}
  \cup
  {[Block EXCEPT !.mode = m, !.numbers = n, !.schedule = s, !.privacy.afterDark = p,
                 !.presenceSim.enabled = e, !.presenceSim.eveningClose = c] :
     m \in {"off", "sun_shade", "schedule"}, n \in SomeNumbers, s \in SomeSchedules,
     p \in BOOLEAN, e \in BOOLEAN, c \in {0, 30}}

SomeLocations ==
  {Nil} \cup [inRange : BOOLEAN, zone : {Nil, "Europe/Oslo", "Nowhere"}]
AtHome == [inRange |-> TRUE, zone |-> "Europe/Oslo"]

Struct(poll, idle, location, blinds) ==
  [broker |-> "tcp", poll |-> poll, idleDisconnect |-> idle, location |-> location,
   blinds |-> blinds]
File(poll, idle, location, blinds) ==
  [broker |-> "tcp", tls |-> Nil, poll |-> poll, idleDisconnect |-> idle,
   location |-> location, blinds |-> blinds]
Named(mac, automation) == [name |-> "blind", mac |-> mac, automation |-> automation]

MCFiles ==
  {File(Nil, 0, l, <<Named(MAC1, a)>>) : l \in {Nil, AtHome, [AtHome EXCEPT !.zone = Nil]}, a \in Blocks}
  \cup
  {File(p, d, l, <<Named(m, Nil), Named(n, [Block EXCEPT !.mode = "schedule", !.schedule = s])>>) :
     p \in {Nil, -1, 0, 5}, d \in {-1, 0, 20}, l \in SomeLocations,
     m \in Spellings, n \in Spellings, s \in SomeSchedules}
  \cup
  {[File(Nil, 0, Nil, <<Named(MAC1, Nil)>>) EXCEPT !.tls = t] : t \in TLS}

MCStructs ==
  {Struct(p, d, AtHome, <<Named(MAC1, [zeroAutomation EXCEPT !.mode = m, !.numbers = n])>>) :
     p \in {-1, 0, 5}, d \in {-1, 0, 20}, m \in Modes, n \in SomeNumbers}
  \cup
  {[Struct(0, 20, Nil, <<>>) EXCEPT !.broker = b] : b \in {"", "tcp"}}
  \cup
  {Struct(0, 20, Nil, <<[Named(m, zeroAutomation) EXCEPT !.name = n]>>) :
     n \in {"", "blind"}, m \in {MAC1, [addr |-> "", spelling |-> ""]}}
===============================================================================
