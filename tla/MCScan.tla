-------------------------------- MODULE MCScan --------------------------------
(* An instance of the scan for TLC: a detector and a simulator, each with   *)
(* calls that fail.                                                         *)
EXTENDS XspressScanSession

StartStopRead == {"histogram_start", "histogram_stop", "histogram_clear",
                  "histogram_is_any_busy", "histogram_read4d", "hist_dtc_read4d",
                  "scaler_read", "set_glob_timeA"}
Few == [detector |-> {0-1, 2}, simulator |-> {9, 10}]

NoFile == <<0, 0>>
=============================================================================
