----------------------------- MODULE XspressScan -----------------------------
(***************************************************************************)
(* An acquisition, library call by library call, against a detector and    *)
(* against the simulator: the start and stop handlers with the calls they  *)
(* make, the trigger mode and the time-frame generator they depend on, the *)
(* poll for finished frames, the read-out, and checkHistBusy() after a     *)
(* stop.  XspressAcquire has the parameters and the interleavings of the   *)
(* same handlers in full; here the device answers each call by itself.     *)
(* Settings are changed, and an acquisition is started, only when the      *)
(* previous one is done.                                                   *)
(***************************************************************************)
EXTENDS XspressApi, FiniteSets

CONSTANTS
  Kinds,          (* Classes of device, "detector" or "simulator".           *)
  NumCards,       (* xsp3NumCardsParam.                                      *)
  NumChannels,    (* xsp3NumChannelsParam.                                   *)
  Images,         (* Values of ADNumImages, by class of device.              *)
  Exposures,      (* Values of ADAcquireTime, in ticks of the generator.     *)
  Modes,          (* Trigger modes.                                          *)
  Memory,         (* Frames of the detector's memory.                        *)
  CheckTimes      (* How often checkHistBusy() looks.                        *)

ASSUME ScanAssumption ==
  /\ NumCards \in Nat \ {0} /\ NumChannels \in Nat \ {0} /\ CheckTimes \in Nat \ {0}
  /\ \A e \in Exposures : e \in 1 .. UintRange - 1
  /\ \A kind \in Kinds : Images[kind] \subseteq Int

VARIABLES
  dev,          (* The device behind the interface; it is connected.         *)
  handle,       (* xsp3_handle_.                                             *)
  set,          (* Parameters: trigger mode, images, exposure time.         *)
  adStatus,     (* ADStatus.                                                 *)
  startEvent, stopEvent,
  pc,           (* The data task's next step.                                *)
  frame,        (* Its frameNumber; its numFrames is ADNumImages, which is   *)
                (* not changed meanwhile.                                    *)
  chan, idleChans, idle, looks,   (* Locals of checkHistBusy().              *)
  verdict,      (* History: what checkHistBusy() returned.                   *)
  since         (* History: time since the latest histogram_start.           *)

check == <<chan, idleChans, idle, looks, verdict>>
task  == <<pc, frame, check>>
vars  == <<dev, handle, set, adStatus, startEvent, stopEvent, task, since>>

Cards   == 0 .. NumCards - 1
Session == {"poll", "read", "checkStop", "busy", "stopped"}

(* A client that waits for the previous acquisition finds ADAcquire at 0. *)
Settled == ~startEvent /\ pc \in {"top", "wait"}

(* The state after a connect(), with nothing taken yet. *)
Init ==
  /\ \E kind \in Kinds :
       LET d == NewDevice(kind, 3, Cards, [c \in 0 .. NumChannels - 1 |-> [w \in {0, 1} |-> <<0, 0>>]])
       IN  \E a \in config(d, Memory, NumChannels) :
             a.value[1] >= 0 /\ dev = a.dev /\ handle = a.value[1]
  /\ set = [mode |-> 0, images |-> 0, exposure |-> 1]
  /\ adStatus = "Idle" /\ startEvent = FALSE /\ stopEvent = FALSE
  /\ pc = "top" /\ frame = 0
  /\ chan = 0 /\ idleChans = 0 /\ idle = 0 /\ looks = 0 /\ verdict = "none"
  /\ since = 0

(***************************************************************************)
(* Settings.  The parameter is stored when the handler succeeds.           *)
(***************************************************************************)
SetParameters ==
  /\ Settled
  /\ \E images \in Images[dev.kind], exposure \in Exposures :
       set' = [set EXCEPT !.images = images, !.exposure = exposure]
  /\ UNCHANGED <<dev, handle, adStatus, startEvent, stopEvent, task, since>>

(* setTriggerMode(): every card in turn, up to the first that refuses. *)
TimerCalls(s) ==
  LET after[k \in 0 .. NumCards] ==
        IF k = 0 THEN {Answer("ok", <<>>, dev)}
        ELSE UNION {IF a.status = "ok"
                    THEN set_glob_timeA(a.dev, handle, k - 1, Word(k - 1, s)) ELSE {a} :
                      a \in after[k - 1]}
  IN  after[NumCards]

SetTriggerMode ==
  /\ Settled
  /\ \E mode \in Modes :
       \E a \in TimerCalls([mode |-> mode, f0 |-> FALSE, veto |-> FALSE, debounce |-> 0]) :
         /\ dev' = a.dev
         /\ set' = IF a.status = "ok" THEN [set EXCEPT !.mode = mode] ELSE set
  /\ UNCHANGED <<handle, adStatus, startEvent, stopEvent, task, since>>

(***************************************************************************)
(* ADAcquire := 1.  The errors of the calls before histogram_start are not *)
(* looked at; the generator is set up and the histogram started twice.     *)
(* Whether it erases first is a parameter: it does or it does not.         *)
(***************************************************************************)
Devices(answers) == {a.dev : a \in answers}

Ticks == set.exposure % UintRange

(* setupITFG(), with no pulses per trigger. *)
setupITFG(d) ==
  CASE set.mode = SOFTWARE_INTERNAL ->
         UNION {Devices(histogram_arm(e, LibraryPath)) :
                  e \in Devices(itfg_setup2(d, handle, set.images, Ticks, "software"))}
    [] set.mode = INTERNAL ->
         UNION {IF a.status = "ok" /\ a.value[1] > 0
                THEN Devices(itfg_setup(d, handle, set.images, Ticks, "burst")) ELSE {d} :
                  a \in has_itfg(d, handle)}
    [] OTHER -> {d}

Stopped(d) == Devices(histogram_stop(d, handle))
Erased(d)  == {d} \union Devices(histogram_clear(d, handle))
Starts(d)  == UNION {histogram_start(e, handle) : e \in setupITFG(d)}

StartCalls ==
  LET first == UNION {Starts(e) : e \in UNION {Erased(d) : d \in Stopped(dev)}}
  IN  UNION {IF a.status = "ok" THEN Starts(a.dev) ELSE {a} : a \in first}

AcquireOn ==
  /\ Settled /\ adStatus # "Acquire"
  /\ \E a \in StartCalls : dev' = a.dev /\ startEvent' = (a.status = "ok")
  /\ since' = 0
  /\ UNCHANGED <<handle, set, adStatus, stopEvent, task>>

AcquireOff ==
  /\ adStatus = "Acquire"
  /\ \E a \in histogram_stop(dev, handle) :
       a.status = "ok" /\ dev' = a.dev /\ stopEvent' = TRUE
  /\ UNCHANGED <<handle, set, adStatus, startEvent, task, since>>

(* Soft trigger 1 and "trigger", soft trigger 0; restart and pause. *)
Trigger(answers) ==
  /\ dev' \in Devices(answers)
  /\ UNCHANGED <<handle, set, adStatus, startEvent, stopEvent, task, since>>

SoftTriggerOn  == Trigger(histogram_continue(dev, handle))
SoftTriggerOff == Trigger(histogram_pause(dev, handle))
TriggerFrame   == adStatus = "Acquire" /\ Trigger(histogram_continue(dev, handle))
ITFGStart      == Trigger(itfg_start(dev, handle))
ITFGStop       == Trigger(itfg_stop(dev, handle))

Client ==
  \/ SetParameters \/ SetTriggerMode \/ AcquireOn \/ AcquireOff
  \/ SoftTriggerOn \/ SoftTriggerOff \/ TriggerFrame \/ ITFGStart \/ ITFGStop

(***************************************************************************)
(* The data task.                                                          *)
(***************************************************************************)
GoTo(from, to) == pc = from /\ pc' = to

(* Mutant of Top: the count of the acquisition before is left. *)
TopKeepsFrame ==
  /\ GoTo("top", "wait")
  /\ stopEvent' = FALSE
  /\ UNCHANGED <<dev, handle, set, adStatus, startEvent, frame, check, since>>

Top ==
  /\ GoTo("top", "wait")
  /\ stopEvent' = FALSE /\ frame' = 0
  /\ UNCHANGED <<dev, handle, set, adStatus, startEvent, check, since>>

Begin ==
  /\ GoTo("wait", "poll") /\ startEvent
  /\ startEvent' = FALSE /\ adStatus' = "Acquire"
  /\ UNCHANGED <<dev, handle, set, stopEvent, frame, check, since>>

(* Mutant of Poll: the last frame counts as one that is still being taken. *)
PollBehind ==
  /\ pc = "poll" /\ frame < set.images
  /\ \E a \in scaler_check_progress(dev, handle) :
       /\ dev' = a.dev
       /\ pc' = IF a.status = "ok" /\ frame + 1 < a.value[1] THEN "read" ELSE "checkStop"
  /\ UNCHANGED <<handle, set, adStatus, startEvent, stopEvent, frame, check, since>>

(* getNumFramesRead(): no frames after an error. *)
Poll ==
  /\ pc = "poll" /\ frame < set.images
  /\ \E a \in scaler_check_progress(dev, handle) :
       /\ dev' = a.dev
       /\ pc' = IF a.status = "ok" /\ frame < a.value[1] THEN "read" ELSE "checkStop"
  /\ UNCHANGED <<handle, set, adStatus, startEvent, stopEvent, frame, check, since>>

(* readFrame(): corrected, or raw with the scalers after the histogram. *)
ReadCalls ==
  hist_dtc_read4d(dev, handle, frame) \union
  UNION {IF a.status = "ok" THEN scaler_read(a.dev, handle, frame) ELSE {a} :
           a \in histogram_read4d(dev, handle, frame)}

ReadFrame ==
  /\ GoTo("read", "checkStop")
  /\ dev' \in Devices(ReadCalls)
  /\ frame' = frame + 1
  /\ UNCHANGED <<handle, set, adStatus, startEvent, stopEvent, check, since>>

CheckStop ==
  /\ pc = "checkStop"
  /\ pc' = IF stopEvent THEN "busy" ELSE "poll"
  /\ stopEvent' = FALSE
  /\ UNCHANGED <<dev, handle, set, adStatus, startEvent, frame, check, since>>

(* Mutant of AskBusy: an error is taken for an idle histogram. *)
AskBusyOnce ==
  /\ pc = "busy" /\ chan < NumChannels
  /\ \E a \in histogram_is_any_busy(dev, handle) :
       idleChans' = IF a.value = <<1>> THEN idleChans ELSE idleChans + 1
  /\ chan' = chan + 1
  /\ UNCHANGED <<dev, handle, set, adStatus, startEvent, stopEvent, pc, frame,
                 idle, looks, verdict, since>>

(* checkHistBusy() asks once for every channel... *)
AskBusy ==
  /\ pc = "busy" /\ chan < NumChannels
  /\ \E a \in histogram_is_any_busy(dev, handle) :
       idleChans' = IF a.value = <<0>> THEN idleChans + 1 ELSE idleChans
  /\ chan' = chan + 1
  /\ UNCHANGED <<dev, handle, set, adStatus, startEvent, stopEvent, pc, frame,
                 idle, looks, verdict, since>>

IdleNow == IF idleChans = NumChannels THEN idle + 1 ELSE idle

(* Mutant of Look: it never gives up. *)
LookForever ==
  /\ pc = "busy" /\ chan = NumChannels
  /\ chan' = 0 /\ idleChans' = 0 /\ idle' = IdleNow
  /\ pc' = IF IdleNow = 2 THEN "stopped" ELSE "busy"
  /\ verdict' = IF IdleNow = 2 THEN "ok" ELSE verdict
  /\ UNCHANGED <<dev, handle, set, adStatus, startEvent, stopEvent, frame,
                 looks, since>>

(* Mutant of Look: the channels that were idle are not counted anew. *)
LookKeepsCount ==
  /\ pc = "busy" /\ chan = NumChannels
  /\ chan' = 0 /\ idle' = IdleNow /\ looks' = looks + 1
  /\ \/ /\ looks' = CheckTimes
        /\ pc' = "stopped" /\ verdict' = "error" /\ adStatus' = "Error"
     \/ /\ looks' # CheckTimes
        /\ pc' = IF IdleNow = 2 THEN "stopped" ELSE "busy"
        /\ verdict' = IF IdleNow = 2 THEN "ok" ELSE verdict
        /\ UNCHANGED adStatus
  /\ UNCHANGED <<dev, handle, set, startEvent, stopEvent, frame, idleChans, since>>

(* ...and counts the passes that found all idle.  The last look is a       *)
(* failure whatever it found.                                              *)
Look ==
  /\ pc = "busy" /\ chan = NumChannels
  /\ chan' = 0 /\ idleChans' = 0 /\ idle' = IdleNow /\ looks' = looks + 1
  /\ \/ /\ looks' = CheckTimes
        /\ pc' = "stopped" /\ verdict' = "error" /\ adStatus' = "Error"
     \/ /\ looks' # CheckTimes
        /\ pc' = IF IdleNow = 2 THEN "stopped" ELSE "busy"
        /\ verdict' = IF IdleNow = 2 THEN "ok" ELSE verdict
        /\ UNCHANGED adStatus
  /\ UNCHANGED <<dev, handle, set, startEvent, stopEvent, frame, since>>

(* setAcqStopParameters(), after a stop whatever checkHistBusy() said. *)
Aborted ==
  /\ GoTo("stopped", "top")
  /\ adStatus' = "Aborted"
  /\ idle' = 0 /\ looks' = 0 /\ verdict' = "none"
  /\ UNCHANGED <<dev, handle, set, startEvent, stopEvent, frame, chan, idleChans, since>>

Completed ==
  /\ GoTo("poll", "top") /\ frame >= set.images
  /\ adStatus' = "Idle"
  /\ UNCHANGED <<dev, handle, set, startEvent, stopEvent, frame, check, since>>

DataTask ==
  Top \/ Begin \/ Poll \/ ReadFrame \/ CheckStop \/ AskBusy \/ Look \/ Aborted \/ Completed

(***************************************************************************)
(* The world: time, until the last frame is due, and a detector.  The      *)
(* generator ends its frames on time and stops after the last; an external *)
(* or fixed trigger ends one at any time.  A software frame ends with a    *)
(* call.                                                                   *)
(***************************************************************************)
Tick ==
  /\ pc \in Session /\ since < set.images * set.exposure
  /\ since' = since + 1
  /\ dev' = [dev EXCEPT !.elapsed = @ + 1]
  /\ UNCHANGED <<handle, set, adStatus, startEvent, stopEvent, task>>

Changes(d) ==
  /\ dev' = d
  /\ UNCHANGED <<handle, set, adStatus, startEvent, stopEvent, task, since>>

Bursting == dev.timer[0].source = SRC_INTERNAL /\ dev.itfgTrigger = "burst"

(* A generated frame is over, and may be the last. *)
BurstFrame ==
  /\ dev.running /\ Bursting /\ ~dev.itfgPaused /\ dev.progress < dev.itfgFrames
  /\ dev.elapsed >= (dev.progress + 1) * dev.itfgTime
  /\ Changes([dev EXCEPT !.progress = @ + 1, !.running = dev.progress + 1 < dev.itfgFrames])

TriggeredFrame ==
  /\ dev.running /\ dev.timer[0].source # SRC_INTERNAL /\ dev.progress < dev.frames
  /\ Changes([dev EXCEPT !.progress = @ + 1])

Rest ==
  /\ dev.running /\ dev.halting
  /\ Changes([dev EXCEPT !.running = FALSE, !.halting = FALSE, !.counting = FALSE])

World == Tick \/ BurstFrame \/ TriggeredFrame \/ Rest

Next == Client \/ DataTask \/ World
Spec == Init /\ [][Next]_vars

(* The thread keeps running, time passes, the generator does its work. *)
FairSpec == Spec /\ WF_vars(DataTask) /\ WF_vars(Tick) /\ WF_vars(BurstFrame)

(***************************************************************************)
(* Properties.                                                             *)
(***************************************************************************)
(* Shapes; the counts of checkHistBusy() stay in their ranges. *)
TypeOK ==
  /\ pc \in Session \union {"top", "wait"}
  /\ adStatus \in {"Idle", "Acquire", "Error", "Aborted"}
  /\ set.images \in Images[dev.kind] \union {0} /\ set.mode \in Modes \union {0}
  /\ frame \in Nat /\ (pc # "top" => frame = 0 \/ frame <= set.images)
  /\ chan \in 0 .. NumChannels /\ idleChans \in 0 .. chan
  /\ idle \in 0 .. 2 /\ looks \in 0 .. CheckTimes
  /\ verdict \in {"none", "ok", "error"}

(***************************************************************************)
(* When checkHistBusy() is content, the histogram is at rest: no call that *)
(* failed was taken for an answer, and nothing set it off in between.      *)
(***************************************************************************)
StoppedMeansIdle == pc = "stopped" /\ verdict = "ok" => ~dev.running

(***************************************************************************)
(* With the internal generator no frame is handed on before its time has   *)
(* passed since this acquisition was started, whatever the one before left *)
(* in the device.  (A system of one card; see the README for more.)        *)
(***************************************************************************)
NoFrameBeforeItsTime ==
  set.mode = INTERNAL /\ pc \in Session => frame * set.exposure <= since

(***************************************************************************)
(* An acquisition comes to an end with the simulator in every trigger mode *)
(* and with a detector that times its own frames, after any acquisition    *)
(* before it and with any read-out or stop failing, unless a client leaves *)
(* the generator paused.                                                   *)
(***************************************************************************)
ScanEnds ==
  pc = "poll" /\ (Simulated(dev) \/ set.mode = INTERNAL) ~> pc = "top" \/ dev.itfgPaused
=============================================================================
