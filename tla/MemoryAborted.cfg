SPECIFICATION MemorySpec
CONSTANTS
  MaxFrames = 3
  Requests = {0, 1, 2, 3}
  Internal = TRUE
  Faults <- Reliable
  ClientRules <- Polite
  EraseOnStart = TRUE
  LetRunsFinish = FALSE
INVARIANTS PureFrames
