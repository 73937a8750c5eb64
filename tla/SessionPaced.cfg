SPECIFICATION FairPacedSpec
CONSTANTS
  MaxFrames = 3
  Requests = {0, 1, 2, 3}
  Internal = TRUE
  Faults <- BadReads
  ClientRules <- CourteousRuns
PROPERTIES AcquireFallsBack ImplementsFairSession
