CONSTANTS
  Ids = {1, 2}
  s1 = s1
  Ships = {s1}
  NoShip = NoShip
  Lengths = {1, 2}
  Unknown = 0
  BatchSize = 2
  MaxLosses = 1
  Editors = {e}
  Keepers = {k}
  Names = {s1}
  Forms <- MCForms
  Edits <- MCEdits
  Idle = Idle
SPECIFICATION FairSpec
PROPERTIES PinStands RevertRestores DriftHeals RequestsEnd
