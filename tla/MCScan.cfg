CONSTANTS
  Blinds = {b1, b2}
  NoOne = NoOne
SPECIFICATION FairSpec
INVARIANTS
  ScansApart
  NoStandstill

  
