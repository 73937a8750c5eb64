SPECIFICATION Spec
CONSTANTS
  MaxFrames = 2
  Requests = {0, 1, 2}
  Internal = TRUE
  Faults <- Reliable
  ClientRules <- SavesAnyTime
INVARIANTS SessionIsStoppable
