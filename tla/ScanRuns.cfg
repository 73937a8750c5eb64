SPECIFICATION FairSpec
CONSTANTS
  Faults <- StartStopRead
  FileWindow <- NoFile
  FileThreshold = 0
  Spectra = 4
  UintRange = 64
  Kinds = {"detector", "simulator"}
  NumCards = 1
  NumChannels = 2
  Images <- Few
  Exposures = {1}
  Modes = {1, 3, 7}
  Memory = 3
  CheckTimes = 3
INVARIANTS TypeOK StoppedMeansIdle NoFrameBeforeItsTime
PROPERTIES ScanEnds ScanIsFairSession
