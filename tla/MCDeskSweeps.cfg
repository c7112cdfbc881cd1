CONSTANTS
  MaxTime = 1
  MooringGap = 75
  b1 = b1
  b2 = b2
  v1 = v1
  north = north
  south = south
  Bookings = {b1}
  Vessels = {v1}
  v2 = v2
  NoVessel = NoVessel
  Berths = {north, south}
  NoBerth = NoBerth
  Catalog <- MCCatalog
  Loa <- MCLoa
  Shoals <- NoShoals
  DockOrigin = 1000
  Grace = 0
  Operators = {o1}
  Sweepers = {s1}
  Moorings <- OneMooring
  Requests <- PanelRequests
  Patches <- PanelPatches
  Idle = Idle
SPECIFICATION FairSpec
PROPERTIES ArchivedOnEvidence WorkerSeesArrivals OverdueIsJudged RefinesWharf
INVARIANTS ArchivingNeverBlocked AlertsReachThePresent SweepAgreesWithPanel
