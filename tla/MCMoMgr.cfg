SPECIFICATION Spec
CONSTANTS
  Plugins <- MCPlugins
  Root = "root"
  MO <- MCMO
  Uris <- MCUris
  Ops = {"exec"}
  Starts <- MCStarts
  Urns = {"dmacc", "all"}
  Criteria <- MCCriteria
  Number <- MCNumber
INVARIANTS
  MoMgrTypeOK
  ListingExact
PROPERTIES
  DispatchNearest
  RegistrationLocal
  FailedAddHarmless
  SearchFinds
