CONSTANTS
  a = a
  b = b
  Imos = {a, b}
  Bad = Bad
  OnFile = {a}
  Tracked = {a}
  Edits = {e}
  ImoOf <- MCImoOf
  Lookups = {1, 2}
  Typed = Typed
  Blank = Blank
  None = None
SPECIFICATION FairSpec
INVARIANT NothingCrossesOver
PROPERTY SubmitEnds
