CONSTANTS
  MaxRows = 3
  Limit = 2
  Workers = {w1}
  MaxMishaps = 1
  visit = visit
  clash = clash
  Contents <- MCContents
  Blank = Blank
  NoReading = NoReading
  Readings <- MCReadings
  Refused <- MCRefused
SPECIFICATION FairSpec
INVARIANTS TypeOK TriagedWasRead RecordedOncePerRun UnmarkedIsRemembered
PROPERTY RequestsAreTriaged
