SPECIFICATION Spec
CONSTANT Scenarios <- Runs
INVARIANTS
  DecoderTypeOK
  WireTypeOK
  EndsMatch
  GroupsNest
  RoundTrip
  LeaksKnown
PROPERTIES
  DesyncFatal
  DecoderSpec
CHECK_DEADLOCK FALSE
