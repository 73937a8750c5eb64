SPECIFICATION FairSpec
CONSTANTS
  MaxFrames = 2
  Requests = {0, 1, 2}
  Internal = FALSE
  Faults <- Reliable
  ClientRules <- StopsAnyTime
PROPERTIES StopEndsAcquisition
