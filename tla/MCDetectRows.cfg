CONSTANTS
  MaxTime = 5
  EnterSog = 1
  DepartSog = 2
  Dwell = 1
  DepartGap = 2
  StaleAfter = 2
  NoSog = NoSog
  Kinds <- AllKinds
  NoFix = NoFix
  Lateness = 1
  Sinces = {0, 2}
SPECIFICATION Spec
INVARIANTS BerthingsAreVisits SteadyStayIsDetected DeparturesEndBerthings
PROPERTIES RowsFollowTheTrack DeadFeedClosesNothing
