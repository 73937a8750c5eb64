SPECIFICATION FairSpec
CONSTANTS
  MaxFrames = 2
  Requests = {0, 1, 2, 3}
  Internal = FALSE
  Faults <- AnythingBad
  ClientRules <- OnlyStops
INVARIANTS TypeOK AbortedOnlyIfAsked
PROPERTIES StopEndsAcquisition
