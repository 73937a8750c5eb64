SPECIFICATION Spec
CONSTANTS
  NumCards = 3
  ModeValues <- Modes
  Debounces = {0, 5, 256}
  PulseCounts = {0, 4}
  Faults <- BadDetector
  PulsesLast = TRUE
INVARIANTS TypeOK SettingsInCards ItfgDrivesCards LastCardAgrees
