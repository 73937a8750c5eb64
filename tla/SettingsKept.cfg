SPECIFICATION Spec
CONSTANTS
  Faults <- AnyCall
  FileWindow <- InFile
  FileThreshold = 0
  Spectra = 3
  UintRange = 16
  Kinds = {"detector", "simulator"}
  Generations = {2}
  NumCards = 1
  TotalChannels = 2
  MaxFrames = 2
  MaxDriverFrames = 3
  MiniFrames = 1
  RawWindow <- NeverSet
  Limits = {3}
  Edited <- LastWindow
  RunFlagValues = {0, 2}
  FrameRequests = {2, 3}
  Dirs = {"dir"}
  ClientRules <- Careful
INVARIANTS TypeOK LimitsOrdered LimitsInDevice ConnectedIsSetUp ImagesInMemory SavePathIsFresh RoisInSpectrum
PROPERTIES SuccessNeedsConnection
