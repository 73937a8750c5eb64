SPECIFICATION FramesSpec
CONSTANTS
  MaxFrames = 4
  Requests = {1, 4}
  Internal = TRUE
  Faults <- BadReads
  ClientRules <- QuietRuns
  Ring = 2
  EraseOnStart = TRUE
INVARIANTS FramesTypeOK OverrunIsFlagged EveryFrameAcknowledged FiguresOfThisRun
