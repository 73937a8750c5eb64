--------------------------- MODULE XspressSettings ---------------------------
(***************************************************************************)
(* Connection and settings: how connect() and restoreSettings() bring the  *)
(* detector and the parameter library together, call by call, and the      *)
(* handlers that change one of the two afterwards.                         *)
(*                                                                         *)
(* A handler runs under the driver lock, so no other handler comes in      *)
(* between; but any call of the library may fail, and the code goes on in  *)
(* its own way after each.  connect() and restoreSettings() are cut into a *)
(* step per pass of a loop; pc is "idle" when no handler is running.       *)
(* What they leave in ADStatus is in XspressAcquire, and the writes of     *)
(* trigger parameters are in XspressTrigger: here these are still 0.       *)
(***************************************************************************)
EXTENDS XspressApi, FiniteSets

CONSTANTS
  Kinds,            (* Classes of device, "detector" or "simulator".         *)
  Generations,      (* Generations of hardware, 2 is a Mini.                 *)
  NumCards,         (* xsp3NumCardsParam.                                    *)
  TotalChannels,    (* numChannels_, of the constructor.                     *)
  MaxFrames,        (* xsp3MaxFramesParam.                                   *)
  MaxDriverFrames,  (* What xsp3NumFramesDriverParam starts with.            *)
  MiniFrames,       (* The frames of a Mini with several channels.           *)
  RawWindow,        (* What a window holds before it is set.                 *)
  Limits,           (* What clients write to window limits and thresholds.   *)
  Edited,           (* The windows they write to: <<channel, window>>.       *)
  RunFlagValues,    (* What they write to RunFlags: 0, 1 or invalid.         *)
  FrameRequests,    (* What they write to ADNumImages and NumFramesConfig.   *)
  Dirs,             (* Directories, for saved settings.                      *)
  ClientRules       (* What the clients refrain from, by name: to connect    *)
                    (* again without a disconnect, to change NumChannels      *)
                    (* while connected, to set ADNumImages while not, and to  *)
                    (* set NumFramesConfig below NumFramesDriver.             *)

ASSUME SizesAssumption ==
  /\ NumCards \in Nat \ {0} /\ TotalChannels \in Nat \ {0}
  /\ MaxFrames \in Nat /\ MaxDriverFrames \in Nat /\ MiniFrames \in Nat
ASSUME RequestAssumption == Limits \subseteq Int /\ FrameRequests \subseteq Int
ASSUME EditedAssumption == Edited \subseteq (0 .. TotalChannels - 1) \X {0, 1}
ASSUME FileAssumption ==
  FileWindow \in Int \X Int /\ FileWindow[1] <= FileWindow[2] /\ FileThreshold \in Int

VARIABLES
  dev,         (* The device behind the interface.                           *)
  handle,      (* xsp3_handle_.                                              *)
  connected,   (* xsp3ConnectedParam.                                        *)
  par,         (* Parameters: numChannels, configFrames, driverFrames,       *)
               (* numImages, runFlag, savePath; limits[channel][window],     *)
               (* thres[channel].                                            *)
  shown,       (* History: channels whose dead-time parameters, and whose    *)
               (* event widths, connect() or restoreSettings() has read;     *)
               (* none when it fails.                                        *)
  files,       (* What each directory holds.                                 *)
  pc, index,   (* The next step of the handler that runs, and its loop.      *)
  command,     (* Which one it is: "connect" or "restore".                   *)
  status,      (* Its status so far.                                         *)
  complete     (* History: the latest connect() or restoreSettings() got     *)
               (* through.                                                   *)

run  == <<pc, index, command, status, complete>>
vars == <<dev, handle, connected, par, shown, files, run>>

Cards    == 0 .. NumCards - 1
Channels == 0 .. TotalChannels - 1
InUse    == 0 .. par.numChannels - 1

NothingShown == [dtc |-> {}, width |-> {}]

Init ==
  /\ \E kind \in Kinds, g \in Generations :
       dev = NewDevice(kind, g, Cards, [c \in Channels |-> [w \in {0, 1} |-> RawWindow]])
  /\ handle = 0 /\ connected = FALSE
  /\ par = [numChannels |-> TotalChannels, configFrames |-> MaxFrames,
            driverFrames |-> MaxDriverFrames, numImages |-> 0, runFlag |-> 0,
            savePath |-> "none", thres |-> [c \in Channels |-> 0],
            limits |-> [c \in Channels |-> [w \in {0, 1} |-> <<0, 0>>]]]
  /\ shown = NothingShown
  /\ files = [dir \in Dirs |-> "empty"]
  /\ pc = "idle" /\ index = 0 /\ command = "none" /\ status = "ok" /\ complete = FALSE

(***************************************************************************)
(* The frame of a handler in steps.                                        *)
(***************************************************************************)
GoTo(step) == pc' = step /\ index' = 0
Again      == pc' = pc /\ index' = index + 1

Proceed(step) == GoTo(step) /\ UNCHANGED <<connected, shown, command, status, complete>>

(* The end of both: connect() settles the connection by the status. *)
Return(result) ==
  /\ GoTo("idle")
  /\ connected' = IF command = "connect" THEN result = "ok" ELSE connected
  /\ complete' = (result = "ok")
  /\ shown' = IF result = "ok" THEN shown ELSE NothingShown
  /\ command' = "none" /\ status' = "ok"

Call(answers) == \E a \in answers : dev' = a.dev /\ status' = a.status

(* A failure is remembered; the loop goes on. *)
CallOn(answers) ==
  \E a \in answers : /\ dev' = a.dev
                     /\ status' = IF a.status = "ok" THEN status ELSE "error"

(***************************************************************************)
(* connect(): xsp3_config, then the clocks of all cards.  A handle that is *)
(* refused overwrites the one before and leaves the connection as it was.  *)
(***************************************************************************)
StartsConnect ==
  /\ pc = "idle"
  /\ "ConnectWhenDisconnected" \in ClientRules => ~connected
  /\ shown' = NothingShown
  /\ \E a \in config(dev, par.configFrames, par.numChannels) :
       /\ dev' = a.dev /\ handle' = a.value[1]
       /\ \/ /\ handle' >= 0
             /\ GoTo("clocks") /\ connected' = TRUE
             /\ command' = "connect" /\ status' = "ok" /\ UNCHANGED complete
          \/ /\ handle' < 0
             /\ complete' = FALSE
             /\ UNCHANGED <<connected, pc, index, command, status>>
  /\ UNCHANGED <<par, files>>

SetUpClocks ==
  /\ pc = "clocks" /\ index < NumCards /\ status = "ok"
  /\ Call(clocks_setup(dev, handle, index))
  /\ Again
  /\ UNCHANGED <<handle, connected, par, shown, files, command, complete>>

(* Mutant of Shrunk: only the frames for the next xsp3_config. *)
ShrunkConfig ==
  IF get_generation(dev) = 2 /\ TotalChannels > 1
  THEN [par EXCEPT !.configFrames = MiniFrames] ELSE par

(* A Mini with several channels has fewer frames. *)
Shrunk ==
  IF get_generation(dev) = 2 /\ TotalChannels > 1
  THEN [par EXCEPT !.configFrames = MiniFrames, !.driverFrames = MiniFrames] ELSE par

ClocksDone ==
  /\ pc = "clocks" /\ (index = NumCards \/ status # "ok")
  /\ par' = Shrunk
  /\ IF status = "ok" THEN Proceed("restore") ELSE Return("error")
  /\ UNCHANGED <<dev, handle, files>>

(***************************************************************************)
(* restoreSettings(), also a command of its own.  The file is loaded only  *)
(* with a connection; the runs are formatted and the flags set in any case.*)
(***************************************************************************)
StartsRestore ==
  /\ pc = "idle"
  /\ GoTo("restore")
  /\ command' = "restore" /\ status' = "ok" /\ shown' = NothingShown
  /\ UNCHANGED <<dev, handle, connected, par, files, complete>>

RestoreFile ==
  /\ pc = "restore"
  /\ IF connected THEN Call(restore_settings(dev, handle))
                  ELSE status' = "error" /\ UNCHANGED dev
  /\ GoTo("format")
  /\ UNCHANGED <<handle, connected, par, shown, files, command, complete>>

(* Mutant of FormatRuns: a run that is formatted clears the error. *)
FormatRunsForgets ==
  /\ pc = "format"
  /\ \/ /\ index < par.numChannels
        /\ Call(format_run(dev, handle, index)) /\ Again
     \/ /\ index = par.numChannels
        /\ GoTo("flags") /\ UNCHANGED <<dev, status>>
  /\ UNCHANGED <<handle, connected, par, shown, files, command, complete>>

FormatRuns ==
  /\ pc = "format"
  /\ \/ /\ index < par.numChannels
        /\ CallOn(format_run(dev, handle, index)) /\ Again
     \/ /\ index = par.numChannels
        /\ GoTo("flags") /\ UNCHANGED <<dev, status>>
  /\ UNCHANGED <<handle, connected, par, shown, files, command, complete>>

Flags == <<"scalers+hist", "playback+scalers+hist">>

(* The settings that follow are left out after any error so far. *)
SetRunFlags ==
  /\ pc = "flags"
  /\ \/ /\ par.runFlag \in {0, 1}
        /\ \E a \in set_run_flags(dev, handle, Flags[par.runFlag + 1]) :
             /\ dev' = a.dev
             /\ IF {status, a.status} = {"ok"} THEN Proceed("sca5") ELSE Return("error")
     \/ par.runFlag \notin {0, 1} /\ Return("error") /\ UNCHANGED dev
  /\ UNCHANGED <<handle, par, files>>

(* setWindow(): an inverted window does not reach the library. *)
setWindow(c, w, window) ==
  IF ~connected \/ window[1] > window[2] THEN {Answer("error", <<>>, dev)}
  ELSE set_window(dev, handle, c, w, window[1], window[2])

(* The two windows of every channel, up to the first that is refused. *)
WriteWindows(step, w, after) ==
  /\ pc = step
  /\ \/ /\ index < par.numChannels /\ status = "ok"
        /\ Call(setWindow(index, w, par.limits[index][w])) /\ Again
     \/ /\ index = par.numChannels \/ status # "ok"
        /\ GoTo(after) /\ UNCHANGED <<dev, status>>
  /\ UNCHANGED <<handle, connected, par, shown, files, command, complete>>

(* Mutant of WriteWindow5: the limits are read back first, and only that. *)
SkipWindow5 ==
  /\ pc = "sca5" /\ GoTo("readback")
  /\ UNCHANGED <<dev, handle, connected, par, shown, files, command, status, complete>>

WriteWindow5 == WriteWindows("sca5", 0, "sca6")

WriteWindow6 == WriteWindows("sca6", 1, "readback")

(***************************************************************************)
(* readSCAParams().  Its status replaces the one of the windows.           *)
(***************************************************************************)
ReadBack(c, w5, w6, th) ==
  [par EXCEPT !.limits[c] = [w \in {0, 1} |->
                 LET a == IF w = 0 THEN w5 ELSE w6
                 IN  IF a.status = "ok" THEN a.value ELSE @[w]],
              !.thres[c] = IF th.status = "ok" THEN th.value[1] ELSE @]

readSCAParams ==
  /\ pc = "readback"
  /\ \/ /\ index < par.numChannels
        /\ \E w5 \in get_window(dev, handle, index, 0),
              w6 \in get_window(dev, handle, index, 1),
              th \in get_good_thres(dev, handle, index) :
             /\ par' = ReadBack(index, w5, w6, th)
             /\ status' = IF {w5.status, w6.status, th.status} # {"ok"} THEN "error"
                          ELSE IF index = 0 THEN "ok" ELSE status
        /\ Again /\ UNCHANGED <<connected, shown, command, complete>>
     \/ /\ index = par.numChannels /\ UNCHANGED par
        /\ IF status = "ok" THEN Proceed("trigger") ELSE Return("error")
  /\ UNCHANGED <<dev, handle, files>>

(* setTriggerMode() with the parameters as the constructor left them. *)
WriteTriggerMode ==
  /\ pc = "trigger"
  /\ \/ /\ index < NumCards /\ status = "ok"
        /\ Call(set_glob_timeA(dev, handle, index,
                  Word(index, [mode |-> 0, f0 |-> FALSE, veto |-> FALSE, debounce |-> 0])))
        /\ Again /\ UNCHANGED <<connected, shown, command, complete>>
     \/ /\ index = NumCards \/ status # "ok"
        /\ UNCHANGED dev
        /\ IF status = "ok" THEN Proceed("dtc") ELSE Return("error")
  /\ UNCHANGED <<handle, par, files>>

(* Mutant of readDTCParams: an error ends the loop, not the restore. *)
readDTCParamsBreaks ==
  /\ pc = "dtc"
  /\ \/ /\ index < par.numChannels
        /\ \E a \in getDeadtimeCorrectionParameters(dev, handle, index) :
             /\ shown' = IF a.status = "ok" THEN [shown EXCEPT !.dtc = @ \union {index}]
                                            ELSE shown
             /\ IF a.status = "ok" THEN Again ELSE GoTo("width")
        /\ UNCHANGED <<connected, command, complete, status>>
     \/ index = par.numChannels /\ Proceed("width")
  /\ UNCHANGED <<dev, handle, par, files>>

readDTCParams ==
  /\ pc = "dtc"
  /\ \/ /\ index < par.numChannels
        /\ \E a \in getDeadtimeCorrectionParameters(dev, handle, index) :
             IF a.status = "ok"
             THEN shown' = [shown EXCEPT !.dtc = @ \union {index}] /\ UNCHANGED status
             ELSE status' = "error" /\ UNCHANGED shown
        /\ Again /\ UNCHANGED <<connected, command, complete>>
     \/ /\ index = par.numChannels
        /\ IF status = "ok" THEN Proceed("width") ELSE Return("error")
  /\ UNCHANGED <<dev, handle, par, files>>

(* readTrigB(): the event width is stored whenever the call succeeds; it   *)
(* is one that was read only if the call wrote it.                         *)
readTrigB ==
  /\ pc = "width"
  /\ \/ /\ index < par.numChannels
        /\ \E a \in get_trigger_b(dev, handle, index) :
             /\ shown' = IF a.value = <<>> THEN [shown EXCEPT !.width = @ \ {index}]
                         ELSE [shown EXCEPT !.width = @ \union {index}]
             /\ status' = IF a.status = "ok" THEN status ELSE "error"
        /\ Again /\ UNCHANGED <<connected, command, complete>>
     \/ index = par.numChannels /\ Return(status)
  /\ UNCHANGED <<dev, handle, par, files>>

Steps ==
  \/ SetUpClocks \/ ClocksDone \/ RestoreFile \/ FormatRuns \/ SetRunFlags
  \/ WriteWindow5 \/ WriteWindow6 \/ readSCAParams \/ WriteTriggerMode
  \/ readDTCParams \/ readTrigB

(***************************************************************************)
(* The other handlers, a step each.                                        *)
(***************************************************************************)
Stores(change) ==
  /\ par' = change
  /\ UNCHANGED <<dev, handle, connected, shown, files, run>>

(* disconnect(): disconnected whether or not xsp3_close succeeds. *)
Disconnect ==
  /\ pc = "idle" /\ connected
  /\ \E a \in close(dev, handle) : dev' = a.dev
  /\ connected' = FALSE
  /\ UNCHANGED <<handle, par, shown, files, run>>

(* A low or a high limit.  The parameter is stored after the detector's. *)
SetLimit ==
  /\ pc = "idle" /\ connected
  /\ \E cell \in Edited, value \in Limits, side \in {1, 2} :
       LET c == cell[1]  w == cell[2]
           window == [par.limits[c][w] EXCEPT ![side] = value]
       IN  \E a \in setWindow(c, w, window) :
             /\ a.status = "ok" /\ dev' = a.dev
             /\ par' = [par EXCEPT !.limits[c][w] = window]
  /\ UNCHANGED <<handle, connected, shown, files, run>>

(* Mutant of SetThreshold: the parameter is stored, success or not. *)
SetThresholdAnyway ==
  /\ pc = "idle" /\ connected
  /\ \E cell \in Edited, value \in Limits :
       \E a \in set_good_thres(dev, handle, cell[1], value) :
         /\ dev' = a.dev
         /\ par' = [par EXCEPT !.thres[cell[1]] = value]
  /\ UNCHANGED <<handle, connected, shown, files, run>>

SetThreshold ==
  /\ pc = "idle" /\ connected
  /\ \E cell \in Edited, value \in Limits :
       \E a \in set_good_thres(dev, handle, cell[1], value) :
         /\ a.status = "ok" /\ dev' = a.dev
         /\ par' = [par EXCEPT !.thres[cell[1]] = value]
  /\ UNCHANGED <<handle, connected, shown, files, run>>

SetNumChannels ==
  /\ pc = "idle"
  /\ "ChannelsWhenDisconnected" \in ClientRules => ~connected
  /\ \E n \in 1 .. TotalChannels : Stores([par EXCEPT !.numChannels = n])

(* Mutant of SetNumImages: the driver's limit only. *)
SetNumImagesOneLimit ==
  /\ pc = "idle"
  /\ "ImagesWhenConnected" \in ClientRules => connected
  /\ \E n \in FrameRequests : /\ n <= par.driverFrames
                              /\ Stores([par EXCEPT !.numImages = n])

(* ADNumImages: the driver's limit and the constructor's. *)
SetNumImages ==
  /\ pc = "idle"
  /\ "ImagesWhenConnected" \in ClientRules => connected
  /\ \E n \in FrameRequests : /\ n <= par.driverFrames /\ n <= MaxFrames
                              /\ Stores([par EXCEPT !.numImages = n])

SetNumFramesConfig ==
  /\ pc = "idle"
  /\ \E n \in FrameRequests :
       /\ n <= MaxFrames
       /\ "ConfigCoversDriver" \in ClientRules => n >= par.driverFrames
       /\ Stores([par EXCEPT !.configFrames = n])

(* Any value is stored; what it means comes up at the next restore. *)
SetRunFlagsParam ==
  /\ pc = "idle"
  /\ \E value \in RunFlagValues : Stores([par EXCEPT !.runFlag = value])

(* checkSaveDir(): only a directory without files is accepted. *)
SetSavePath ==
  /\ pc = "idle"
  /\ \E dir \in Dirs : /\ files[dir] = "empty"
                       /\ Stores([par EXCEPT !.savePath = dir])

(***************************************************************************)
(* saveSettings().  The path is cleared after a success, so that the next  *)
(* save needs a new one.  A save that fails may have written some files.   *)
(* Without a path the library is called all the same, and has no place to  *)
(* write to.                                                               *)
(***************************************************************************)
Saved(dir, result) ==
  IF dir = "none" \/ Simulated(dev) THEN {files}
  ELSE {[files EXCEPT ![dir] = content] :
          content \in IF result = "ok" THEN {"config"} ELSE {files[dir], "partial"}}

(* Mutant of SaveSettings: the path stays. *)
SaveKeepsPath ==
  /\ pc = "idle" /\ connected
  /\ \E a \in save_settings(dev, handle) : files' \in Saved(par.savePath, a.status)
  /\ UNCHANGED <<dev, handle, connected, par, shown, run>>

SaveSettings ==
  /\ pc = "idle" /\ connected
  /\ \E a \in save_settings(dev, handle) :
       /\ files' \in Saved(par.savePath, a.status)
       /\ par' = IF a.status = "ok" THEN [par EXCEPT !.savePath = "none"] ELSE par
  /\ UNCHANGED <<dev, handle, connected, shown, run>>

Clients ==
  \/ StartsConnect \/ StartsRestore \/ Disconnect \/ SetLimit \/ SetThreshold
  \/ SetNumChannels \/ SetNumImages \/ SetNumFramesConfig \/ SetRunFlagsParam
  \/ SetSavePath \/ SaveSettings

Next == Steps \/ Clients
Spec == Init /\ [][Next]_vars

(***************************************************************************)
(* Properties.                                                             *)
(***************************************************************************)
Windows == [Channels -> [{0, 1} -> Int \X Int]]

(* Shapes of the parameters and of what the driver keeps of a connection. *)
TypeOK ==
  /\ handle \in Int /\ connected \in BOOLEAN /\ complete \in BOOLEAN
  /\ par.numChannels \in 1 .. TotalChannels
  /\ par.limits \in Windows /\ par.thres \in [Channels -> Int]
  /\ par.numImages <= MaxFrames
  /\ shown.dtc \subseteq Channels /\ shown.width \subseteq Channels
  /\ files \in [Dirs -> {"empty", "partial", "config"}]
  /\ status \in {"ok", "error"} /\ index \in 0 .. NumCards + TotalChannels

(***************************************************************************)
(* The limits a client reads are never inverted, whatever was restored,    *)
(* refused or read back, from a device whose windows were never set, too.  *)
(***************************************************************************)
LimitsOrdered ==
  \A c \in Channels, w \in {0, 1} : par.limits[c][w][1] <= par.limits[c][w][2]

(***************************************************************************)
(* After a connect or restore that got through, the limits and thresholds  *)
(* of the channels in use are those of the device, although a window that  *)
(* could not be written is not reported: its read-back replaces the value. *)
(***************************************************************************)
Settled == connected /\ complete /\ pc = "idle"

LimitsInDevice ==
  Settled => \A c \in InUse : par.limits[c] = dev.window[c] /\ par.thres[c] = dev.thres[c]

(***************************************************************************)
(* Connected means set up: clocks, runs, flags, and what dead-time figures *)
(* are worked out from.  A simulator has none of these.                    *)
(***************************************************************************)
ConnectedIsSetUp ==
  Settled /\ ~Simulated(dev) =>
    /\ handle = dev.path /\ dev.clocked = Cards
    /\ InUse \subseteq dev.formatted /\ dev.runFlags # "none"
    /\ InUse \subseteq shown.dtc /\ InUse \subseteq shown.width

(***************************************************************************)
(* A connect or restore that reports success has a connection.  A restore  *)
(* without one goes on to format the runs and to set the flags, and keeps  *)
(* its error across all calls of these that succeed; past them the status  *)
(* is overwritten by that of the read-back, which needs no connection.     *)
(***************************************************************************)
SuccessNeedsConnection ==
  [][pc # "idle" /\ pc' = "idle" /\ complete' => connected']_vars

(***************************************************************************)
(* An acquisition that can be asked for fits the memory of the detector as *)
(* it was laid out by the connection.                                      *)
(***************************************************************************)
ImagesInMemory == connected /\ ~Simulated(dev) => par.numImages <= dev.frames

(***************************************************************************)
(* No saved configuration is written over: a directory that holds one is   *)
(* not where the next save goes.                                           *)
(***************************************************************************)
SavePathIsFresh == par.savePath # "none" => files[par.savePath] # "config"

(***************************************************************************)
(* The region a simulator sums for a scaler lies in its spectrum.          *)
(***************************************************************************)
RoisInSpectrum ==
  Settled /\ Simulated(dev) =>
    \A c \in InUse, w \in {0, 1} :
      Sim!RoiStart(dev.window[c][w]) + Sim!RoiPoints(dev.window[c][w]) <= Spectra
=============================================================================
