------------------------------- MODULE MCFrames -------------------------------
(* An instance of the circular buffer for TLC; see MCAcquire for the rules. *)
EXTENDS XspressFrames

BadReads  == {"read", "config"}
QuietRuns == {"StartWhenDone", "ConnectWhenDone", "SettingsWhenDone"}
=============================================================================
