\* Three slots, and two lines of any kind.
SPECIFICATION FairSpec
CONSTANTS
  Lines <- MCLines
  TimerSlots = 3
  MaxLines = 2
INVARIANTS
  NoErrorMeansSent
  OnlyWhatIsTyped
PROPERTIES
  ProgramEnds
\* The program exits.
CHECK_DEADLOCK FALSE
