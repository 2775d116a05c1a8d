SPECIFICATION FairSpec
CONSTANTS
  NoOne = NoOne
  CheckerCases = {accepted, tampered}
  EmptyCases = {empty}
  Requests = {q1, q2}
  MaxTotal = 4
  MaxCheckers = 3
  MaxKills = 2
  MaxFaults = 1
INVARIANTS
  JournalSound
  FlightSound
PROPERTIES
  GateReleased
CHECK_DEADLOCK FALSE
