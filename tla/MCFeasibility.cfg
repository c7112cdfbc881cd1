CONSTANTS
  MaxTime = 2
  MooringGap = 2
  DockOrigin = 50
  Extent <- MCExtent
  Hull = 2
  Catalog <- MCCatalog
  Rows <- MCRows
  MaxRows = 3
  Subjects <- MCSubjects
  Shoals <- MCShoals
  MaxCandidates = 1
  NoOffer = NoOffer
SPECIFICATION Spec
INVARIANTS BandsAreTheRoom FreshOfferConfirms SlotsCoverTheBands
