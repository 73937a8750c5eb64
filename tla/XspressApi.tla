------------------------------ MODULE XspressApi ------------------------------
(***************************************************************************)
(* xsp3Api, the interface the driver calls the detector through.  A public *)
(* method traces the call, makes the virtual call of its name and returns  *)
(* its status; which class answers was settled by the driver's constructor.*)
(*                                                                         *)
(* A device is a record.  What is in it:                                   *)
(*   kind, generation   the class, and the generation of the hardware      *)
(*   path               the handle that is open, or NoPath                 *)
(*   frames, channels   the memory xsp3_config laid out                    *)
(*   clocked            cards whose clocks are set up                      *)
(*   formatted          channels whose runs are formatted                  *)
(*   runFlags           the run flags, or "none"                           *)
(*   window, thres      limits <<low, high>> of a channel's two windows,   *)
(*                      and its threshold                                  *)
(*   timer              the timing register of a card                      *)
(*   itfgFrames, itfgTime, itfgTrigger   the program of the time-frame     *)
(*                      generator: frames, time of a frame, what starts it *)
(*   itfgPaused         the generator waits for a restart                  *)
(*   armed, running, halting, counting   the histogram                     *)
(*   progress, elapsed  frames finished and time passed since its start    *)
(***************************************************************************)
EXTENDS XspressTypes

CONSTANTS
  Faults,         (* The methods of the library that may fail.               *)
  FileWindow,     (* The limits in the settings file, <<low, high>>.         *)
  FileThreshold,  (* The threshold there.                                    *)
  Spectra,        (* maxSpectra: the points of a spectrum.                   *)
  UintRange       (* The number of values of an unsigned int.                *)

ASSUME SpectraAssumption == Spectra \in Nat \ {0} /\ UintRange \in Nat /\ Spectra < UintRange

Det == INSTANCE XspressDetector
Sim == INSTANCE XspressSimulator

Simulated(d) == d.kind = "simulator"

(* What the driver's constructor makes, for a system of so many cards and  *)
(* channels.  The windows of the simulator are not initialised.            *)
NewDevice(kind, generation, cards, windows) ==
  [kind |-> kind, generation |-> generation, path |-> NoPath,
   frames |-> 0, channels |-> 0, clocked |-> {}, formatted |-> {}, runFlags |-> "none",
   window |-> windows, thres |-> [c \in DOMAIN windows |-> 0],
   timer |-> [c \in cards |-> Blank], itfgFrames |-> 0, itfgTime |-> 0,
   itfgTrigger |-> "none", itfgPaused |-> FALSE,
   armed |-> FALSE, running |-> FALSE, halting |-> FALSE, counting |-> FALSE,
   progress |-> 0, elapsed |-> 0]

clocks_setup(d, path, card) ==
  IF Simulated(d) THEN Sim!xsp3Api_clocks_setup(d, path, card)
  ELSE Det!xsp3Api_clocks_setup(d, path, card)

close(d, path) ==
  IF Simulated(d) THEN Sim!xsp3Api_close(d, path)
  ELSE Det!xsp3Api_close(d, path)

config(d, frames, channels) ==
  IF Simulated(d) THEN Sim!xsp3Api_config(d, frames, channels)
  ELSE Det!xsp3Api_config(d, frames, channels)

format_run(d, path, chan) ==
  IF Simulated(d) THEN Sim!xsp3Api_format_run(d, path, chan)
  ELSE Det!xsp3Api_format_run(d, path, chan)

getDeadtimeCorrectionParameters(d, path, chan) ==
  IF Simulated(d) THEN Sim!xsp3Api_getDeadtimeCorrectionParameters(d, path, chan)
  ELSE Det!xsp3Api_getDeadtimeCorrectionParameters(d, path, chan)

get_good_thres(d, path, chan) ==
  IF Simulated(d) THEN Sim!xsp3Api_get_good_thres(d, path, chan)
  ELSE Det!xsp3Api_get_good_thres(d, path, chan)

get_window(d, path, chan, win) ==
  IF Simulated(d) THEN Sim!xsp3Api_get_window(d, path, chan, win)
  ELSE Det!xsp3Api_get_window(d, path, chan, win)

hist_dtc_read4d(d, path, frame) ==
  IF Simulated(d) THEN Sim!xsp3Api_hist_dtc_read4d(d, path, frame)
  ELSE Det!xsp3Api_hist_dtc_read4d(d, path, frame)

histogram_clear(d, path) ==
  IF Simulated(d) THEN Sim!xsp3Api_histogram_clear(d, path)
  ELSE Det!xsp3Api_histogram_clear(d, path)

histogram_pause(d, path) ==
  IF Simulated(d) THEN Sim!xsp3Api_histogram_pause(d, path)
  ELSE Det!xsp3Api_histogram_pause(d, path)

histogram_arm(d, path) ==
  IF Simulated(d) THEN Sim!xsp3Api_histogram_arm(d, path)
  ELSE Det!xsp3Api_histogram_arm(d, path)

histogram_continue(d, path) ==
  IF Simulated(d) THEN Sim!xsp3Api_histogram_continue(d, path)
  ELSE Det!xsp3Api_histogram_continue(d, path)

histogram_is_any_busy(d, path) ==
  IF Simulated(d) THEN Sim!xsp3Api_histogram_is_any_busy(d, path)
  ELSE Det!xsp3Api_histogram_is_any_busy(d, path)

histogram_read4d(d, path, frame) ==
  IF Simulated(d) THEN Sim!xsp3Api_histogram_read4d(d, path, frame)
  ELSE Det!xsp3Api_histogram_read4d(d, path, frame)

histogram_start(d, path) ==
  IF Simulated(d) THEN Sim!xsp3Api_histogram_start(d, path)
  ELSE Det!xsp3Api_histogram_start(d, path)

histogram_stop(d, path) ==
  IF Simulated(d) THEN Sim!xsp3Api_histogram_stop(d, path)
  ELSE Det!xsp3Api_histogram_stop(d, path)

restore_settings(d, path) ==
  IF Simulated(d) THEN Sim!xsp3Api_restore_settings(d, path)
  ELSE Det!xsp3Api_restore_settings(d, path)

save_settings(d, path) ==
  IF Simulated(d) THEN Sim!xsp3Api_save_settings(d, path)
  ELSE Det!xsp3Api_save_settings(d, path)

scaler_check_progress(d, path) ==
  IF Simulated(d) THEN Sim!xsp3Api_scaler_check_progress(d, path)
  ELSE Det!xsp3Api_scaler_check_progress(d, path)

set_glob_timeA(d, path, card, word) ==
  IF Simulated(d) THEN Sim!xsp3Api_set_glob_timeA(d, path, card, word)
  ELSE Det!xsp3Api_set_glob_timeA(d, path, card, word)

set_good_thres(d, path, chan, value) ==
  IF Simulated(d) THEN Sim!xsp3Api_set_good_thres(d, path, chan, value)
  ELSE Det!xsp3Api_set_good_thres(d, path, chan, value)

set_run_flags(d, path, flags) ==
  IF Simulated(d) THEN Sim!xsp3Api_set_run_flags(d, path, flags)
  ELSE Det!xsp3Api_set_run_flags(d, path, flags)

set_window(d, path, chan, win, low, high) ==
  IF Simulated(d) THEN Sim!xsp3Api_set_window(d, path, chan, win, low, high)
  ELSE Det!xsp3Api_set_window(d, path, chan, win, low, high)

itfg_setup(d, path, frames, time, trigger) ==
  IF Simulated(d) THEN Sim!xsp3Api_itfg_setup(d, path, frames, time, trigger)
  ELSE Det!xsp3Api_itfg_setup(d, path, frames, time, trigger)

itfg_setup2(d, path, frames, time, trigger) ==
  IF Simulated(d) THEN Sim!xsp3Api_itfg_setup2(d, path, frames, time, trigger)
  ELSE Det!xsp3Api_itfg_setup2(d, path, frames, time, trigger)

itfg_start(d, path) ==
  IF Simulated(d) THEN Sim!xsp3Api_itfg_start(d, path)
  ELSE Det!xsp3Api_itfg_start(d, path)

itfg_stop(d, path) ==
  IF Simulated(d) THEN Sim!xsp3Api_itfg_stop(d, path)
  ELSE Det!xsp3Api_itfg_stop(d, path)

has_itfg(d, path) ==
  IF Simulated(d) THEN Sim!xsp3Api_has_itfg(d, path)
  ELSE Det!xsp3Api_has_itfg(d, path)

scaler_read(d, path, frame) ==
  IF Simulated(d) THEN Sim!xsp3Api_scaler_read(d, path, frame)
  ELSE Det!xsp3Api_scaler_read(d, path, frame)

get_trigger_b(d, path, chan) ==
  IF Simulated(d) THEN Sim!xsp3Api_get_trigger_b(d, path, chan)
  ELSE Det!xsp3Api_get_trigger_b(d, path, chan)

get_generation(d) ==
  IF Simulated(d) THEN Sim!xsp3Api_get_generation(d) ELSE Det!xsp3Api_get_generation(d)
=============================================================================
