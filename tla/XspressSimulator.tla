--------------------------- MODULE XspressSimulator ---------------------------
(***************************************************************************)
(* xsp3Simulator, what runs behind the driver in simulation mode, with the *)
(* timing register (xsp3TimeRegister) and the spectra (xsp3SimElement) it  *)
(* is made of.  The operators have the names and the form of those of      *)
(* XspressDetector: from the device and the arguments to the answers.      *)
(*                                                                         *)
(* No method fails, and most ignore their path; many do nothing.  What the *)
(* simulator does keep is a window and a threshold per channel, one timing *)
(* register for all cards, the program of the time-frame generator, and    *)
(* the frame count, which it works out only when it is asked for it.       *)
(***************************************************************************)
EXTENDS XspressTypes

CONSTANTS
  Spectra,    (* maxSpectra: the points of a spectrum.                       *)
  UintRange   (* The number of values of an unsigned int: 2^32 in the code.  *)

SimulatorHandle == 314158

AlwaysOk(value, d) == {Answer("ok", value, d)}
Ignored(d)         == AlwaysOk(<<>>, d)

(***************************************************************************)
(* xsp3TimeRegister::set().  The debounce bits are masked with the field's *)
(* old place and shifted by its new one: nothing is left of them.          *)
(***************************************************************************)
TimeRegister(word) == [word EXCEPT !.debounce = 0]

(***************************************************************************)
(* xsp3SimElement: how many points of n from start on are in the spectrum. *)
(* Both sides are unsigned.                                                *)
(***************************************************************************)
(* Mutant of Clipped: a range that ends with the spectrum is let through, *)
(* and so is one that ends a point later.                                 *)
ClippedLate(start, n) ==
  IF (start + n) % UintRange > Spectra + 1 THEN (Spectra - start) % UintRange ELSE n

Clipped(start, n) ==
  IF (start + n) % UintRange > Spectra THEN (Spectra - start) % UintRange ELSE n

RoiStart(window)  == window[1] % UintRange
RoiPoints(window) ==
  Clipped(RoiStart(window), (window[2] - window[1] + 1) % UintRange)

(***************************************************************************)
(* The methods, in the order of the class.                                 *)
(***************************************************************************)
xsp3Api_clocks_setup(d, path, card) == Ignored(d)

xsp3Api_close(d, path) ==
  {Answer(IF path = SimulatorHandle THEN "ok" ELSE "error", <<>>, d)}

xsp3Api_config(d, frames, channels) == AlwaysOk(<<SimulatorHandle>>, d)

xsp3Api_format_run(d, path, chan) == Ignored(d)

xsp3Api_getDeadtimeCorrectionParameters(d, path, chan) == AlwaysOk(<<0>>, d)

xsp3Api_get_good_thres(d, path, chan) == AlwaysOk(<<d.thres[chan]>>, d)

xsp3Api_get_window(d, path, chan, win) == AlwaysOk(d.window[chan][win], d)

(* A spectrum for every channel, and the sums over its two windows. *)
Rois(d) == {RoiPoints(d.window[c][w]) : c \in DOMAIN d.window, w \in {0, 1}}

xsp3Api_hist_dtc_read4d(d, path, frame) ==
  AlwaysOk(<<frame, Clipped(0, Spectra), Rois(d)>>, d)

xsp3Api_histogram_clear(d, path)    == Ignored(d)
xsp3Api_histogram_continue(d, path) == Ignored(d)
xsp3Api_histogram_pause(d, path)    == Ignored(d)
xsp3Api_histogram_arm(d, path)      == Ignored(d)

xsp3Api_histogram_is_any_busy(d, path) == AlwaysOk(<<0>>, d)

xsp3Api_histogram_read4d(d, path, frame) ==
  AlwaysOk(<<frame, Clipped(0, Spectra), {}>>, d)

(* Mutant of xsp3Api_histogram_start: scanStart is not set. *)
StartKeepsClock(d, path) == AlwaysOk(<<>>, [d EXCEPT !.progress = 0])

xsp3Api_histogram_start(d, path) ==
  AlwaysOk(<<>>, [d EXCEPT !.progress = 0, !.elapsed = 0])

xsp3Api_histogram_stop(d, path)   == Ignored(d)
xsp3Api_restore_settings(d, path) == Ignored(d)
xsp3Api_save_settings(d, path)    == Ignored(d)

(***************************************************************************)
(* The frames finished so far.  With the internal generator they follow    *)
(* from the time since the start; a frame time of 0 makes the quotient     *)
(* unrepresentable, which comes out as the most negative integer.  With    *)
(* any other source the count grows by a number of 0 to 9 at every look.   *)
(***************************************************************************)
Finished(d) ==
  IF d.timer[0].source # SRC_INTERNAL THEN d.progress + ((d.progress + 1) % 10)
  ELSE IF d.itfgTime = 0 THEN -1
  ELSE IF d.elapsed \div d.itfgTime > d.itfgFrames THEN d.itfgFrames
  ELSE d.elapsed \div d.itfgTime

xsp3Api_scaler_check_progress(d, path) ==
  LET seen == [d EXCEPT !.progress = Finished(d)]
  IN  IF Finished(d) < 0 THEN {Answer("error", <<>>, seen)}
      ELSE AlwaysOk(<<Finished(d)>>, seen)

(* One register: the last card that is written decides for all. *)
xsp3Api_set_glob_timeA(d, path, card, word) ==
  AlwaysOk(<<>>, [d EXCEPT !.timer = [c \in DOMAIN @ |-> TimeRegister(word)]])

xsp3Api_set_good_thres(d, path, chan, value) ==
  AlwaysOk(<<>>, [d EXCEPT !.thres[chan] = value])

xsp3Api_set_run_flags(d, path, flags) == Ignored(d)

xsp3Api_set_window(d, path, chan, win, low, high) ==
  AlwaysOk(<<>>, [d EXCEPT !.window[chan][win] = <<low, high>>])

xsp3Api_itfg_setup(d, path, frames, time, trigger) ==
  AlwaysOk(<<>>, [d EXCEPT !.itfgFrames = frames, !.itfgTime = time,
                                !.itfgTrigger = trigger])

xsp3Api_itfg_setup2(d, path, frames, time, trigger) ==
  AlwaysOk(<<>>, [d EXCEPT !.itfgFrames = frames, !.itfgTime = time,
                                !.itfgTrigger = trigger])

xsp3Api_itfg_start(d, path) == Ignored(d)
xsp3Api_itfg_stop(d, path)  == Ignored(d)

xsp3Api_has_itfg(d, path) == AlwaysOk(<<1>>, d)

(* Returns success and writes nothing. *)
xsp3Api_scaler_read(d, path, frame)  == Ignored(d)
xsp3Api_get_trigger_b(d, path, chan) == Ignored(d)

xsp3Api_get_generation(d) == 0
=============================================================================
