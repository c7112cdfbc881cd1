CONSTANTS
  Files <- MCFiles
  Far = 100
  Bin = 10
  OffsetBin = 10
  Toe = 10
  Reach = 25
  MaxDate = 1
  MaxSurveys = 3
  Uploaders = {u1, u2}
  east = east
  west = west
  Bookings = {east, west}
  Hull <- MCHull
  Draft <- MCDraft
  Clearance = 2
  Clerks = {c1}
  Viewers = {v1}
  Unknown = Unknown
  None = None
SYMMETRY MCSymmetry
SPECIFICATION Spec
INVARIANTS GateMissesNoShoal BookingStandsOnItsSurvey ProfileIsOneSurvey
PROPERTY OnlyTheNewestDecides
