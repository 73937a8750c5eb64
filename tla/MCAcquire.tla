----------------------------- MODULE MCAcquire -----------------------------
(***************************************************************************)
(* Instances of the acquisition engine for TLC: what may go wrong and what *)
(* the clients refrain from, by name.                                      *)
(***************************************************************************)
EXTENDS XspressSession

(* Faults. *)
Reliable     == {}
BadReads     == {"config", "read"}
BadDetector  == {"config", "api", "read"}
AnythingBad  == {"config", "api", "alloc", "read"}

(* Clients.  A polite client follows every rule. *)
Polite       == {"StartWhenDone", "StopWhenAcquiring", "SetWhenDone",
                 "ConnectWhenDone", "SettingsWhenDone"}

OnlyStops    == {"StopWhenAcquiring"}
OneRunAtATime == {"StartWhenDone", "ConnectWhenDone"}
QuietRuns    == OneRunAtATime \union {"SettingsWhenDone"}
PacedRuns    == OneRunAtATime \union {"SetWhenDone"}
CourteousRuns == PacedRuns \union {"StopWhenAcquiring"}

StopsAnyTime == Polite \ {"StopWhenAcquiring"}
SetsAnyTime  == Polite \ {"SetWhenDone"}
SavesAnyTime == Polite \ {"SettingsWhenDone"}
=============================================================================
