CONSTANTS
  MaxTime = 1
  MooringGap = 1
  DockOrigin = 0
  MaxEvents = 2
  MaxBookings = 2
  MaxOpen = 2
  c1 = c1
  c2 = c2
  s1 = s1
  n1 = n1
  Clerks <- MCClerks
  Imos = {s1}
  NoImo = NoImo
  Names = {n1}
  NoName = NoName
  Tracked = {}
  Lengths = {1, 2}
  Unknown = 0
  Forms <- MCForms
  Operators = {o1}
  Patches <- MCPatches
  NoHeading = NoHeading
  NoLink = NoLink
  Unused = Unused
  Gone = Gone
  Idle = Idle
SYMMETRY ClerkSymmetry
SPECIFICATION Spec
INVARIANTS OneRequestPerContent ScheduleMirrorsTrail
PROPERTIES BowsAreHeld FootprintsFollow
