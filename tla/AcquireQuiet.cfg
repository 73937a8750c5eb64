SPECIFICATION Spec
CONSTANTS
  MaxFrames = 2
  Requests = {0, 1, 2, 3}
  Internal = TRUE
  Faults <- BadDetector
  ClientRules <- QuietRuns
INVARIANTS AcquireReadback ReadsFinishedFrames FramesInOrderOnce SessionIsStoppable CountersAgree
