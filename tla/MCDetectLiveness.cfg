CONSTANTS
  MaxTime = 4
  EnterSog = 1
  DepartSog = 2
  Dwell = 1
  DepartGap = 2
  StaleAfter = 2
  NoSog = NoSog
  Kinds <- TwoKinds
  NoFix = NoFix
  Lateness = 0
  Sinces = {0}
  MissedBeats = 2
SPECIFICATION WorkerSpec
PROPERTIES SilentBerthingCloses IdleWorkerShows
