--------------------------- MODULE XspressDetector ---------------------------
(***************************************************************************)
(* xsp3Detector: every method of the interface goes to the library         *)
(* function of its name, and the library's status comes back.  What the    *)
(* library then does is external; it is modelled by what the driver counts *)
(* on.  A method is an operator from the device and the arguments to the   *)
(* set of possible answers; fields of the device are listed in XspressApi. *)
(***************************************************************************)
EXTENDS XspressTypes

CONSTANTS
  Faults,         (* The methods that may fail.                              *)
  FileWindow,     (* The limits in the settings file, <<low, high>>.         *)
  FileThreshold,  (* The threshold there.                                    *)
  Spectra         (* maxSpectra: the points of a spectrum.                   *)

(* A method refuses a path that is not open, and may fail; then nothing is *)
(* changed and nothing is written to the caller's variables.               *)
Reply(method, d, path, value, after) ==
  IF path = NoPath \/ path # d.path THEN {Answer("error", <<>>, d)}
  ELSE {Answer("ok", value, after)}
       \union (IF method \in Faults THEN {Answer("error", <<>>, d)} ELSE {})

Does(method, d, path, after) == Reply(method, d, path, <<>>, after)
Tells(method, d, path, value) == Reply(method, d, path, value, d)

xsp3Api_clocks_setup(d, path, card) ==
  Does("clocks_setup", d, path, [d EXCEPT !.clocked = @ \union {card}])

xsp3Api_close(d, path) == Does("close", d, path, [d EXCEPT !.path = NoPath])

(* A new system: memory laid out, nothing set up on it yet. *)
xsp3Api_config(d, frames, channels) ==
  {Answer("ok", <<LibraryPath>>,
     [d EXCEPT !.path = LibraryPath, !.frames = frames, !.channels = channels,
               !.clocked = {}, !.formatted = {}, !.runFlags = "none"])}
  \union (IF "config" \in Faults
          THEN {Answer("error", <<NoPath>>, [d EXCEPT !.path = NoPath])} ELSE {})

xsp3Api_format_run(d, path, chan) ==
  Does("format_run", d, path, [d EXCEPT !.formatted = @ \union {chan}])

xsp3Api_getDeadtimeCorrectionParameters(d, path, chan) ==
  Tells("getDeadtimeCorrectionParameters", d, path, <<chan>>)

xsp3Api_get_good_thres(d, path, chan) ==
  Tells("get_good_thres", d, path, <<d.thres[chan]>>)

xsp3Api_get_window(d, path, chan, win) ==
  Tells("get_window", d, path, d.window[chan][win])

(* What is read out: the frame, how many points of it, and sums. *)
Histogram(frame) == <<frame, Spectra, {}>>

xsp3Api_hist_dtc_read4d(d, path, frame) ==
  Tells("hist_dtc_read4d", d, path, Histogram(frame))

xsp3Api_histogram_clear(d, path) == Does("histogram_clear", d, path, d)

(* With software timing a frame starts with continue and ends with pause. *)
xsp3Api_histogram_continue(d, path) ==
  Does("histogram_continue", d, path,
       [d EXCEPT !.counting = d.running /\ d.itfgTrigger = "software"])

xsp3Api_histogram_arm(d, path) == Does("histogram_arm", d, path, [d EXCEPT !.armed = TRUE])

xsp3Api_histogram_pause(d, path) ==
  Does("histogram_pause", d, path,
       [d EXCEPT !.counting = FALSE,
                 !.progress = IF d.counting /\ @ < d.itfgFrames THEN @ + 1 ELSE @])

xsp3Api_histogram_is_any_busy(d, path) ==
  Tells("histogram_is_any_busy", d, path, <<IF d.running THEN 1 ELSE 0>>)

xsp3Api_histogram_read4d(d, path, frame) ==
  Tells("histogram_read4d", d, path, Histogram(frame))

xsp3Api_histogram_start(d, path) ==
  Does("histogram_start", d, path,
       [d EXCEPT !.running = TRUE, !.halting = FALSE, !.counting = FALSE,
                 !.progress = 0, !.elapsed = 0])

(* A histogram that is stopped ends with its frame, a little later. *)
xsp3Api_histogram_stop(d, path) ==
  Does("histogram_stop", d, path, [d EXCEPT !.halting = d.running])

(* The processing registers of every channel come from the file. *)
xsp3Api_restore_settings(d, path) ==
  Does("restore_settings", d, path,
       [d EXCEPT !.window = [c \in DOMAIN @ |-> [w \in DOMAIN @[c] |-> FileWindow]],
                 !.thres  = [c \in DOMAIN @ |-> FileThreshold]])

xsp3Api_save_settings(d, path) == Does("save_settings", d, path, d)

xsp3Api_scaler_check_progress(d, path) ==
  Tells("scaler_check_progress", d, path, <<d.progress>>)

xsp3Api_set_glob_timeA(d, path, card, word) ==
  Does("set_glob_timeA", d, path, [d EXCEPT !.timer[card] = word])

xsp3Api_set_good_thres(d, path, chan, value) ==
  Does("set_good_thres", d, path, [d EXCEPT !.thres[chan] = value])

xsp3Api_set_run_flags(d, path, flags) ==
  Does("set_run_flags", d, path, [d EXCEPT !.runFlags = flags])

xsp3Api_set_window(d, path, chan, win, low, high) ==
  Does("set_window", d, path, [d EXCEPT !.window[chan][win] = <<low, high>>])

Programmed(d, frames, time, trigger) ==
  [d EXCEPT !.itfgFrames = frames, !.itfgTime = time, !.itfgTrigger = trigger]

xsp3Api_itfg_setup(d, path, frames, time, trigger) ==
  Does("itfg_setup", d, path, Programmed(d, frames, time, trigger))

xsp3Api_itfg_setup2(d, path, frames, time, trigger) ==
  Does("itfg_setup2", d, path, Programmed(d, frames, time, trigger))

xsp3Api_itfg_start(d, path) == Does("itfg_start", d, path, [d EXCEPT !.itfgPaused = FALSE])

xsp3Api_itfg_stop(d, path) == Does("itfg_stop", d, path, [d EXCEPT !.itfgPaused = TRUE])

xsp3Api_has_itfg(d, path) == Tells("has_itfg", d, path, <<1>>)

xsp3Api_scaler_read(d, path, frame) == Tells("scaler_read", d, path, <<frame>>)

xsp3Api_get_trigger_b(d, path, chan) == Tells("get_trigger_b", d, path, <<chan>>)

xsp3Api_get_generation(d) == d.generation
=============================================================================
