SPECIFICATION MemorySpec
CONSTANTS
  MaxFrames = 3
  Requests = {0, 1, 2, 3}
  Internal = TRUE
  Faults <- BadConfig
  ClientRules <- PacedRuns
  EraseOnStart = TRUE
  LetRunsFinish = TRUE
INVARIANTS PureFrames EraseIsEnough
