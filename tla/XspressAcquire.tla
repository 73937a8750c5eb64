--------------------------- MODULE XspressAcquire ---------------------------
(***************************************************************************)
(* The acquisition engine of the Xspress3 areaDetector driver.             *)
(*                                                                         *)
(* Two parties run it.  Clients write parameters; asynPortDriver calls     *)
(* Xspress3::writeInt32 / writeOctet with the driver lock held, so a       *)
(* handler is one step.  The data task, xsp3DataTaskC, is a thread that    *)
(* takes the lock only around a few blocks, so it is cut into one step per *)
(* access to something the handlers share with it.  The two meet in        *)
(*   - the parameter library (ADStatus, ADAcquire, ADNumImages, counters), *)
(*   - two binary events, startEvent_ and stopEvent_,                      *)
(*   - the detector behind xsp3_handle_, which fills frames on its own.    *)
(*                                                                         *)
(* A handler that returns an error without changing any of this state is a *)
(* stuttering step and has no disjunct.                                    *)
(***************************************************************************)
EXTENDS Integers

CONSTANTS
  MaxFrames,    (* xsp3NumFramesDriverParam: frames the detector can hold. *)
  Requests,     (* The values clients write to ADNumImages.                *)
  Internal,     (* Trigger mode INTERNAL: the ITFG paces the frames.       *)
  Faults,       (* What may go wrong: "config", "api", "alloc", "read".    *)
  ClientRules   (* What the clients refrain from, see Busy below.          *)

ASSUME MaxFramesAssumption == MaxFrames \in Nat \ {0}
ASSUME RequestsAssumption  == Requests \subseteq Int
ASSUME InternalAssumption  == Internal \in BOOLEAN

VARIABLES
  adStatus,     (* ADStatus, read back as DetectorState_RBV.               *)
  adAcquire,    (* ADAcquire.                                              *)
  numImages,    (* ADNumImages.                                            *)
  ndCounter,    (* NDArrayCounter.                                         *)
  frameCount,   (* xsp3FrameCountParam.                                    *)
  connected,    (* xsp3ConnectedParam.                                     *)
  startEvent,   (* startEvent_ is full.                                    *)
  stopEvent,    (* stopEvent_ is full.                                     *)
  handleOk,     (* The library accepts xsp3_handle_.                       *)
  hw,           (* The detector: "idle", "running" or "stopping".          *)
  hwFrames,     (* Frames finished since the last histogram_start.         *)
  hwLimit,      (* Frames the detector was programmed to take.             *)
  pc,           (* The data task's next step.                              *)
  frameNumber,  (* Local of the data task.                                 *)
  numFrames,    (* Local of the data task.                                 *)
  delivered,    (* History: frames of this detector run handed on.         *)
  stopAsked     (* History: a write of 0 to ADAcquire returned asynSuccess *)
                (* while an acquisition was pending or in progress.        *)

params  == <<adStatus, adAcquire, numImages, ndCounter, frameCount, connected>>
events  == <<startEvent, stopEvent>>
device  == <<handleOk, hw, hwFrames, hwLimit>>
task    == <<pc, frameNumber, numFrames>>
history == <<delivered, stopAsked>>
vars    == <<params, events, device, task, history>>

Status     == {"Idle", "Acquire", "Error", "Aborted", "Disconnected"}
Collecting == {"Snapshot", "Loop", "Alloc", "Read", "Publish", "CheckStop"}
Stopping   == {"HistBusy", "StopParams"}
InSession  == Collecting \union Stopping
TaskSteps  == {"CheckStale", "WaitStart", "Begin"} \union InSession

(* An acquisition has been started and the data task is not done with it. *)
Pending == startEvent \/ pc = "Begin" \/ pc \in InSession

(***************************************************************************)
(* The state after the constructor.                                        *)
(***************************************************************************)
Init ==
  /\ adStatus = "Disconnected" /\ adAcquire = FALSE /\ numImages = 0
  /\ ndCounter = 0 /\ frameCount = 0 /\ connected = FALSE
  /\ startEvent = FALSE /\ stopEvent = FALSE
  /\ handleOk = FALSE /\ hw = "idle" /\ hwFrames = 0 /\ hwLimit = 0
  /\ pc = "CheckStale" /\ frameNumber = 0 /\ numFrames = 0
  /\ delivered = 0 /\ stopAsked = FALSE

(***************************************************************************)
(* The detector library, used through xsp3_handle_.  It refuses a bad      *)
(* handle and, with the fault "api", fails any call.  With "config" it     *)
(* refuses a connection, with "read" a read-out.                           *)
(***************************************************************************)
MayFail == ~handleOk \/ "api" \in Faults

(* histogram_stop ends a running histogram at the end of its frame. *)
Halted == IF hw = "running" THEN "stopping" ELSE hw

(* The detector finishes a frame; an ITFG run ends with its last frame. *)
HwFrame ==
  /\ hw = "running" /\ hwFrames < hwLimit
  /\ hwFrames' = hwFrames + 1
  /\ hw' = IF Internal /\ hwFrames' = hwLimit THEN "idle" ELSE "running"
  /\ UNCHANGED <<params, events, handleOk, hwLimit, task, history>>

(* A stopped detector falls idle, with or without the frame it was taking. *)
HwQuiesce ==
  /\ hw = "stopping"
  /\ hw' = "idle"
  /\ \/ hwFrames' = hwFrames
     \/ hwFrames < hwLimit /\ hwFrames' = hwFrames + 1
  /\ UNCHANGED <<params, events, handleOk, hwLimit, task, history>>

Detector == HwFrame \/ HwQuiesce

(***************************************************************************)
(* Clients.  A client that follows rule r does what r names only while     *)
(* ADAcquire reads 0, as one that waits for the previous acquisition does. *)
(* "StopWhenAcquiring": it stops only what DetectorState shows as Acquire. *)
(***************************************************************************)
Busy(rule) == rule \in ClientRules /\ adAcquire

(* What erase() leaves in the counters: eraseSCAMCAROI() zeroes them. *)
EraseOutcomes == {"off"} \union (IF handleOk THEN {"ok"} ELSE {})
                         \union (IF MayFail THEN {"fail"} ELSE {})
Erasing(outcome) ==
  /\ adStatus'   = IF outcome = "fail" THEN "Error" ELSE adStatus
  /\ ndCounter'  = IF outcome = "ok" THEN 0 ELSE ndCounter
  /\ frameCount' = IF outcome = "ok" THEN 0 ELSE frameCount

Erase ==
  /\ ~Busy("SettingsWhenDone")
  /\ adStatus # "Acquire" /\ connected
  /\ \E outcome \in EraseOutcomes \ {"off"} : Erasing(outcome)
  /\ UNCHANGED <<adAcquire, numImages, connected, events, device, task, history>>

(* What setupITFG() programs; its error is ignored by the caller. *)
Programmed == IF ~Internal THEN MaxFrames
              ELSE IF numImages < 0 THEN 0 ELSE numImages
ItfgLimits == {Programmed} \union (IF "api" \in Faults THEN {hwLimit} ELSE {})

(***************************************************************************)
(* ADAcquire := 1.  histogram_stop, an optional erase, setupITFG and       *)
(* histogram_start, and then setupITFG and histogram_start again: each     *)
(* start rewinds the detector, and only the second success signals the     *)
(* data task.  While ADStatus is Acquire only the parameter is written.    *)
(***************************************************************************)
AcquireOnIgnored ==
  /\ ~Busy("StartWhenDone")
  /\ adStatus = "Acquire"
  /\ adAcquire' = TRUE
  /\ UNCHANGED <<adStatus, numImages, ndCounter, frameCount, connected,
                 events, device, task, history>>

AcquireOnRefused ==
  /\ ~Busy("StartWhenDone")
  /\ adStatus # "Acquire" /\ connected /\ MayFail
  /\ \E outcome \in EraseOutcomes : Erasing(outcome)
  /\ hw' \in {hw} \union (IF handleOk THEN {Halted} ELSE {})
  /\ hwLimit' \in {hwLimit} \union (IF handleOk THEN ItfgLimits ELSE {})
  /\ UNCHANGED <<adAcquire, numImages, connected, events, handleOk, hwFrames,
                 task, history>>

HistogramStart ==
  /\ hw' = "running" /\ hwFrames' = 0 /\ hwLimit' \in ItfgLimits
  /\ delivered' = 0

AcquireOnHalfDone ==
  /\ ~Busy("StartWhenDone")
  /\ adStatus # "Acquire" /\ connected /\ handleOk /\ "api" \in Faults
  /\ \E outcome \in EraseOutcomes : Erasing(outcome)
  /\ HistogramStart
  /\ UNCHANGED <<adAcquire, numImages, connected, events, handleOk, task, stopAsked>>

AcquireOn ==
  /\ ~Busy("StartWhenDone")
  /\ adStatus # "Acquire" /\ connected /\ handleOk
  /\ \E outcome \in EraseOutcomes : Erasing(outcome)
  /\ HistogramStart
  /\ startEvent' = TRUE
  /\ adAcquire' = TRUE
  /\ UNCHANGED <<numImages, connected, stopEvent, handleOk, task, stopAsked>>

(***************************************************************************)
(* ADAcquire := 0.  Only while ADStatus is Acquire is the detector stopped *)
(* and the data task signalled; otherwise the handler returns asynSuccess  *)
(* and does nothing.  ADAcquire itself is left to the data task.           *)
(***************************************************************************)
(* Mutant of AcquireOff: it writes the parameter library at once. *)
AcquireOffAtOnce ==
  /\ adStatus = "Acquire" /\ connected /\ handleOk
  /\ adAcquire' = FALSE /\ stopEvent' = TRUE /\ stopAsked' = TRUE /\ hw' = Halted
  /\ UNCHANGED <<adStatus, numImages, ndCounter, frameCount, connected, startEvent,
                 handleOk, hwFrames, hwLimit, task, delivered>>

AcquireOff ==
  /\ adStatus = "Acquire" /\ connected /\ handleOk
  /\ hw' = Halted
  /\ stopEvent' = TRUE
  /\ stopAsked' = TRUE
  /\ UNCHANGED <<params, startEvent, handleOk, hwFrames, hwLimit, task, delivered>>

AcquireOffIgnored ==
  /\ "StopWhenAcquiring" \notin ClientRules
  /\ adStatus # "Acquire" /\ Pending
  /\ stopAsked' = TRUE
  /\ UNCHANGED <<params, events, device, task, delivered>>

(* Mutant of SetNumImages: the bound is not checked. *)
SetAnyNumImages ==
  /\ ~Busy("SetWhenDone")
  /\ numImages' \in Requests
  /\ UNCHANGED <<adStatus, adAcquire, ndCounter, frameCount, connected,
                 events, device, task, history>>

(* ADNumImages: only the upper bound is checked. *)
SetNumImages ==
  /\ ~Busy("SetWhenDone")
  /\ numImages' \in {n \in Requests : n <= MaxFrames}
  /\ UNCHANGED <<adStatus, adAcquire, ndCounter, frameCount, connected,
                 events, device, task, history>>

(***************************************************************************)
(* XSP3_CONNECT.  A refused xsp3_config has already overwritten the handle *)
(* and leaves XSP3_CONNECTED alone; a later failure, such as a directory   *)
(* with no settings to restore, disconnects.  A new connection finds the   *)
(* detector at rest with no frame taken.                                   *)
(***************************************************************************)
ConnectRefused ==
  /\ ~Busy("ConnectWhenDone")
  /\ "config" \in Faults
  /\ handleOk' = FALSE
  /\ UNCHANGED <<params, events, hw, hwFrames, hwLimit, task, history>>

Connect ==
  /\ ~Busy("ConnectWhenDone")
  /\ \/ adStatus' = "Idle" /\ connected' = TRUE
     \/ adStatus' = "Disconnected" /\ connected' = FALSE
  /\ handleOk' = TRUE /\ hw' = "idle" /\ hwFrames' = 0 /\ delivered' = 0
  /\ UNCHANGED <<adAcquire, numImages, ndCounter, frameCount, events,
                 hwLimit, task, stopAsked>>

(* XSP3_DISCONNECT: disconnected whether or not xsp3_close succeeds. *)
Disconnect ==
  /\ ~Busy("ConnectWhenDone")
  /\ connected
  /\ connected' = FALSE /\ adStatus' = "Disconnected"
  /\ handleOk' = FALSE \/ ("api" \in Faults /\ UNCHANGED handleOk)
  /\ UNCHANGED <<adAcquire, numImages, ndCounter, frameCount, events,
                 hw, hwFrames, hwLimit, task, history>>

(***************************************************************************)
(* The settings handlers, for what they do to ADStatus.                    *)
(***************************************************************************)
Report(status) ==
  /\ ~Busy("SettingsWhenDone")
  /\ adStatus' = status
  /\ UNCHANGED <<adAcquire, numImages, ndCounter, frameCount, connected,
                 events, device, task, history>>

(* CONFIG_SAVE_PATH: checkSaveDir() accepts or refuses the directory. *)
SetSavePath == \E status \in {"Idle", "Error"} : Report(status)

(* SCA limits and trigger mode: an inverted window, an unknown mode. *)
SetWindow      == connected /\ Report("Error")
SetTriggerMode == connected /\ Report("Error")

(* Not allowed while ADStatus is Acquire. *)
SaveSettings    == adStatus # "Acquire" /\ (~connected \/ MayFail) /\ Report("Error")
RestoreSettings == adStatus # "Acquire" /\ Report("Error")

Client ==
  \/ Erase
  \/ AcquireOnIgnored \/ AcquireOnRefused \/ AcquireOnHalfDone \/ AcquireOn
  \/ AcquireOff \/ AcquireOffIgnored
  \/ SetNumImages
  \/ ConnectRefused \/ Connect \/ Disconnect
  \/ SetSavePath \/ SetWindow \/ SetTriggerMode \/ SaveSettings \/ RestoreSettings

(***************************************************************************)
(* The data task.  The top of its loop drops a stop event that is left     *)
(* over and waits, without a limit, for a start event.                     *)
(***************************************************************************)
GoTo(from, to) == pc = from /\ pc' = to

(* Mutants of CheckStale: a stop that is left over stays; the count goes on. *)
KeepStaleStop ==
  /\ GoTo("CheckStale", "WaitStart")
  /\ frameNumber' = 0
  /\ UNCHANGED <<params, events, device, numFrames, history>>

KeepFrameNumber ==
  /\ GoTo("CheckStale", "WaitStart")
  /\ stopEvent' = FALSE
  /\ UNCHANGED <<params, startEvent, device, frameNumber, numFrames, history>>

CheckStale ==
  /\ GoTo("CheckStale", "WaitStart")
  /\ stopEvent' = FALSE
  /\ frameNumber' = 0
  /\ UNCHANGED <<params, startEvent, device, numFrames, history>>

WaitStart ==
  /\ GoTo("WaitStart", "Begin")
  /\ startEvent /\ startEvent' = FALSE
  /\ UNCHANGED <<params, stopEvent, device, frameNumber, numFrames, history>>

(* Mutant of Begin: NDArrayCounter is left as it was. *)
BeginKeepsCounter ==
  /\ GoTo("Begin", "Snapshot")
  /\ frameCount' = 0 /\ adStatus' = "Acquire"
  /\ UNCHANGED <<adAcquire, numImages, ndCounter, connected, events, device,
                 frameNumber, numFrames, history>>

(* setStartingParameters(), under the lock. *)
Begin ==
  /\ GoTo("Begin", "Snapshot")
  /\ ndCounter' = 0 /\ frameCount' = 0 /\ adStatus' = "Acquire"
  /\ UNCHANGED <<adAcquire, numImages, connected, events, device,
                 frameNumber, numFrames, history>>

(* ADNumImages is read after the lock has been released. *)
Snapshot ==
  /\ GoTo("Snapshot", "Loop")
  /\ numFrames' = numImages
  /\ UNCHANGED <<params, events, device, frameNumber, history>>

(* Mutants of Poll: off by one, towards the frame that is being taken and *)
(* away from the last one that is finished.                               *)
PollAhead ==
  /\ pc = "Loop" /\ frameNumber < numFrames /\ handleOk
  /\ frameCount' = hwFrames
  /\ pc' = IF frameNumber <= hwFrames THEN "Alloc" ELSE "CheckStop"
  /\ UNCHANGED <<adStatus, adAcquire, numImages, ndCounter, connected, events,
                 device, frameNumber, numFrames, history>>

PollBehind ==
  /\ pc = "Loop" /\ frameNumber < numFrames
  /\ frameCount' = IF handleOk THEN hwFrames ELSE frameCount
  /\ pc' = IF handleOk /\ frameNumber + 1 < hwFrames THEN "Alloc" ELSE "CheckStop"
  /\ UNCHANGED <<adStatus, adAcquire, numImages, ndCounter, connected, events,
                 device, frameNumber, numFrames, history>>

(* getNumFramesRead(): a failed poll counts as no frame. *)
Poll ==
  /\ pc = "Loop" /\ frameNumber < numFrames
  /\ \/ /\ handleOk
        /\ frameCount' = hwFrames
        /\ pc' = IF frameNumber < hwFrames THEN "Alloc" ELSE "CheckStop"
     \/ /\ MayFail
        /\ frameCount' = frameCount
        /\ pc' = "CheckStop"
  /\ UNCHANGED <<adStatus, adAcquire, numImages, ndCounter, connected, events,
                 device, frameNumber, numFrames, history>>

Alloc ==
  /\ GoTo("Alloc", "Read")
  /\ UNCHANGED <<params, events, device, frameNumber, numFrames, history>>

(* Mutant of AllocFails: the loop goes on at its top. *)
AllocFailsContinues ==
  /\ "alloc" \in Faults
  /\ GoTo("Alloc", "Loop")
  /\ adStatus' = "Error" /\ adAcquire' = FALSE
  /\ UNCHANGED <<numImages, ndCounter, frameCount, connected, events, device,
                 frameNumber, numFrames, history>>

(* createMCAArray() found no array: adReportError(), and the loop goes on. *)
AllocFails ==
  /\ "alloc" \in Faults
  /\ GoTo("Alloc", "CheckStop")
  /\ adStatus' = "Error" /\ adAcquire' = FALSE
  /\ UNCHANGED <<numImages, ndCounter, frameCount, connected, events, device,
                 frameNumber, numFrames, history>>

(* Mutant of Read: a failure is reported as createMCAArray() reports its own. *)
ReadReportsError ==
  /\ GoTo("Read", "Publish")
  /\ \/ handleOk /\ ndCounter' = frameNumber + 1 /\ UNCHANGED adStatus
     \/ "read" \in Faults /\ adStatus' = "Error" /\ UNCHANGED ndCounter
  /\ UNCHANGED <<adAcquire, numImages, frameCount, connected, events, device,
                 frameNumber, numFrames, history>>

(* readFrame() fails before the histogram or, uncorrected, after it. *)
Read ==
  /\ GoTo("Read", "Publish")
  /\ \/ handleOk /\ ndCounter' = frameNumber + 1
     \/ /\ MayFail \/ "read" \in Faults
        /\ ndCounter' \in {ndCounter} \union (IF handleOk THEN {frameNumber} ELSE {})
  /\ UNCHANGED <<adStatus, adAcquire, numImages, frameCount, connected, events,
                 device, frameNumber, numFrames, history>>

(* The scalers and the array of the frame go out, read or not. *)
Publish ==
  /\ GoTo("Publish", "CheckStop")
  /\ frameNumber' = frameNumber + 1
  /\ delivered' = frameNumber'
  /\ UNCHANGED <<params, events, device, numFrames, stopAsked>>

NoStop ==
  /\ GoTo("CheckStop", "Loop")
  /\ ~stopEvent
  /\ UNCHANGED <<params, events, device, frameNumber, numFrames, history>>

TakeStop ==
  /\ GoTo("CheckStop", "HistBusy")
  /\ stopEvent /\ stopEvent' = FALSE
  /\ UNCHANGED <<params, startEvent, device, frameNumber, numFrames, history>>

(* checkHistBusy(): the detector was seen idle, or the polls ran out. *)
HistBusy ==
  /\ GoTo("HistBusy", "StopParams")
  /\ \/ handleOk /\ hw = "idle" /\ UNCHANGED adStatus
     \/ (MayFail \/ hw # "idle") /\ adStatus' = "Error"
  /\ UNCHANGED <<adAcquire, numImages, ndCounter, frameCount, connected, events,
                 device, frameNumber, numFrames, history>>

(* setAcqStopParameters(), after a stop and after the last frame. *)
EndSession(status) ==
  /\ pc' = "CheckStale"
  /\ adAcquire' = FALSE /\ adStatus' = status
  /\ stopAsked' = FALSE
  /\ UNCHANGED <<numImages, ndCounter, frameCount, connected, events, device,
                 frameNumber, numFrames, delivered>>

StopParams == pc = "StopParams" /\ EndSession("Aborted")
Finish     == pc = "Loop" /\ frameNumber >= numFrames /\ EndSession("Idle")

DataTask ==
  \/ CheckStale \/ WaitStart \/ Begin \/ Snapshot \/ Poll \/ Alloc \/ AllocFails
  \/ Read \/ Publish \/ NoStop \/ TakeStop \/ HistBusy \/ StopParams \/ Finish

Next == Client \/ DataTask \/ Detector
Spec == Init /\ [][Next]_vars

(***************************************************************************)
(* Fairness: the data task is a thread of high priority that blocks only   *)
(* on startEvent_.  Clients owe nothing.  The detector owes frames only    *)
(* when its own ITFG paces them.                                           *)
(***************************************************************************)
FairSpec      == Spec /\ WF_vars(DataTask)
FairPacedSpec == FairSpec /\ WF_vars(HwFrame)

(***************************************************************************)
(* Properties.                                                             *)
(***************************************************************************)

(* Every parameter, event and local of the driver has its type and range. *)
FlagTypes ==
  /\ adAcquire \in BOOLEAN /\ connected \in BOOLEAN /\ handleOk \in BOOLEAN
  /\ startEvent \in BOOLEAN /\ stopEvent \in BOOLEAN /\ stopAsked \in BOOLEAN

ValueTypes ==
  /\ adStatus \in Status /\ pc \in TaskSteps /\ hw \in {"idle", "running", "stopping"}
  /\ numImages \in Int /\ numImages <= MaxFrames
  /\ numFrames \in Int /\ numFrames <= MaxFrames
  /\ ndCounter \in 0 .. MaxFrames /\ frameCount \in 0 .. MaxFrames
  /\ hwFrames \in 0 .. MaxFrames /\ hwLimit \in 0 .. MaxFrames
  /\ frameNumber \in 0 .. MaxFrames /\ delivered \in 0 .. MaxFrames

TypeOK == FlagTypes /\ ValueTypes

(***************************************************************************)
(* Aborted means asked: the data task abandons an acquisition only if a    *)
(* client stopped that acquisition.  A stop that arrives after the task's  *)
(* last look at stopEvent_ stays behind; it must not end the next one.     *)
(***************************************************************************)
AbortedOnlyIfAsked == pc \in Stopping => stopAsked

(***************************************************************************)
(* While the data task collects, ADStatus reads Acquire, which is what the *)
(* handlers consult to accept a stop and to refuse a second start.         *)
(***************************************************************************)
SessionIsStoppable == pc \in Collecting => adStatus = "Acquire"

(***************************************************************************)
(* A client that waits for ADAcquire to read 0 waits long enough: there is *)
(* then no start event pending and no acquisition in progress; and never   *)
(* is a start pending behind an acquisition in progress.                   *)
(***************************************************************************)
AcquireReadback ==
  /\ Pending => adAcquire
  /\ ~(startEvent /\ pc \in {"Begin"} \union InSession)

(***************************************************************************)
(* The data task reads only frames the detector has finished in the run it *)
(* is in: the count it compared with is not overtaken by a restart.        *)
(***************************************************************************)
ReadsFinishedFrames == pc \in {"Alloc", "Read"} => frameNumber < hwFrames

(***************************************************************************)
(* Within one run of the detector every frame is handed on once, and in    *)
(* order: the frame about to be read is the next one.                      *)
(***************************************************************************)
FramesInOrderOnce == pc \in Collecting \ {"Snapshot"} => frameNumber = delivered

(***************************************************************************)
(* NDArrayCounter never runs ahead of the frames reported as acquired.     *)
(***************************************************************************)
CountersAgree == ndCounter <= frameCount

(* A stop that returned success ends the acquisition: the data task leaves *)
(* its loop, and ADAcquire reads 0.                                        *)
StopEndsAcquisition == stopAsked ~> (pc = "CheckStale" /\ ~adAcquire)

(* Every accepted start is answered: ADAcquire goes back to 0. *)
AcquireFallsBack == adAcquire ~> ~adAcquire
=============================================================================
