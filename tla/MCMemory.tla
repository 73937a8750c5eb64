------------------------------ MODULE MCMemory ------------------------------
(* Instances of the histogram memory for TLC; see MCAcquire for the rules. *)
EXTENDS XspressMemory

Reliable   == {}
BadConfig  == {"config"}
PacedRuns  == {"StartWhenDone", "ConnectWhenDone", "SetWhenDone"}
Polite     == PacedRuns \union {"StopWhenAcquiring", "SettingsWhenDone"}
=============================================================================
