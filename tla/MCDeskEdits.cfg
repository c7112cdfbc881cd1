CONSTANTS
  MaxTime = 1
  MooringGap = 75
  b1 = b1
  b2 = b2
  v1 = v1
  north = north
  south = south
  Bookings = {b1, b2}
  Vessels = {v1}
  v2 = v2
  NoVessel = NoVessel
  Berths = {north, south}
  NoBerth = NoBerth
  Catalog <- MCCatalog
  Loa <- MCLoa
  Shoals <- ShoalSouth
  DockOrigin = 1000
  Grace = 0
  Operators = {o1}
  Sweepers = {}
  Moorings = {}
  Requests <- MCRequests
  Patches <- MCPatches
  Idle = Idle
SYMMETRY BookingSymmetry
SPECIFICATION Spec
INVARIANTS TypeOK NoWharfOverlap NoShallowBooking
PROPERTIES PartialEditKeepsTheRest
