---------------------------- MODULE XspressFrames ----------------------------
(***************************************************************************)
(* What the data task hands on, with the detector in circular buffer mode: *)
(* the array of a frame, its scalers and the dead-time figures worked out  *)
(* from them.  The memory holds Ring frames; the detector wraps round, and *)
(* when it begins a frame in a place that has not been acknowledged since, *)
(* it sets an error flag and overwrites what is there.                     *)
(*                                                                         *)
(* Every step of XspressAcquire is a step here.  An acknowledgement, and   *)
(* the first half of an uncorrected read-out, are steps of their own: the  *)
(* detector goes on counting between the calls of the library.             *)
(***************************************************************************)
EXTENDS XspressAcquire

CONSTANTS
  Ring,           (* Frames the circular buffer holds.                       *)
  EraseOnStart    (* xsp3EraseStartParam.                                    *)

ASSUME RingAssumption == Ring \in Nat \ {0}
ASSUME EraseStartAssumption == EraseOnStart \in BOOLEAN

(* Contents that are not a frame of the latest run. *)
Zero    == -1
Earlier == -2
Unset   == -3

VARIABLES
  acks,       (* Frames of the latest run that have been acknowledged.       *)
  overrun,    (* The detector's circular buffer overrun flag.                *)
  dtc,        (* The task's dataType is NDFloat64, not NDUInt32.             *)
  pMCA,       (* Its array: the frame it holds, or Unset.                    *)
  half,       (* The histogram of the frame is read, its scalers are not.    *)
  pSCA,       (* The buffer for scalers, used for one frame after another.   *)
  sca, fig,   (* The frame whose scalers, and dead-time figures, are shown.  *)
  failed      (* History: a read-out of the latest run has failed.           *)

buffer == <<dtc, pMCA, half, pSCA>>
panel  == <<sca, fig>>
frames == <<acks, overrun, buffer, panel, failed>>

FramesInit ==
  /\ Init
  /\ acks = 0 /\ overrun = FALSE /\ dtc = FALSE /\ pMCA = Unset /\ half = FALSE
  /\ pSCA = Unset /\ sca = Zero /\ fig = Zero /\ failed = FALSE

(***************************************************************************)
(* The detector.  A frame is cleared as it begins.                         *)
(***************************************************************************)
Begun == IF hw # "idle" /\ hwFrames < hwLimit THEN hwFrames ELSE hwFrames - 1

(* The latest frame that went to the place of frame n. *)
InPlaceOf(n) == Begun - ((Begun - n) % Ring)

CircularFrame ==
  /\ HwFrame
  /\ overrun' = (overrun \/ (Begun' > Begun /\ Begun' - Ring >= acks))
  /\ UNCHANGED <<acks, buffer, panel, failed>>

(***************************************************************************)
(* eraseSCAMCAROI() zeroes scalers and figures; so a start may do, too.    *)
(* What is left of them belongs to an earlier run from then on.            *)
(***************************************************************************)
Aged(content) == IF content >= 0 THEN Earlier ELSE content

(* Mutant of eraseSCAMCAROI: the figures are left as they were. *)
eraseScalersOnly(outcome, a, b) ==
  /\ Erasing(outcome)
  /\ sca' = IF outcome = "ok" THEN Zero ELSE a
  /\ fig' = b

eraseSCAMCAROI(outcome, a, b) ==
  /\ Erasing(outcome)
  /\ sca' = IF outcome = "ok" THEN Zero ELSE a
  /\ fig' = IF outcome = "ok" THEN Zero ELSE b

EraseFigures ==
  /\ Erase
  /\ \E outcome \in EraseOutcomes \ {"off"} : eraseSCAMCAROI(outcome, sca, fig)
  /\ UNCHANGED <<acks, overrun, buffer, failed>>

StartOutcomes == IF EraseOnStart THEN EraseOutcomes \ {"off"} ELSE {"off"}

StartRing ==
  /\ AcquireOn \/ AcquireOnHalfDone
  /\ \E outcome \in StartOutcomes : eraseSCAMCAROI(outcome, Aged(sca), Aged(fig))
  /\ acks' = 0 /\ overrun' = FALSE /\ failed' = FALSE
  /\ pSCA' = Aged(pSCA) /\ UNCHANGED <<dtc, pMCA, half>>

StartRefused ==
  /\ AcquireOnRefused
  /\ \E outcome \in StartOutcomes : eraseSCAMCAROI(outcome, sca, fig)
  /\ UNCHANGED <<acks, overrun, buffer, failed>>

(***************************************************************************)
(* The data task, from the choice of the data type to the hand-over.       *)
(***************************************************************************)
ChooseType ==
  /\ Snapshot
  /\ dtc' \in BOOLEAN
  /\ UNCHANGED <<acks, overrun, pMCA, half, pSCA, panel, failed>>

NewArray ==
  /\ Alloc
  /\ pMCA' = Unset
  /\ UNCHANGED <<acks, overrun, dtc, half, pSCA, panel, failed>>

(* Uncorrected, the histogram is read first and the scalers after it. *)
ReadHistogram ==
  /\ pc = "Read" /\ ~dtc /\ ~half /\ handleOk
  /\ pMCA' = InPlaceOf(frameNumber) /\ half' = TRUE
  /\ UNCHANGED <<vars, acks, overrun, dtc, pSCA, panel, failed>>

(* Mutant of ReadScalers: after a failure the histogram still counts as read. *)
ReadScalersOnce ==
  /\ half /\ Read
  /\ \/ /\ ndCounter' = frameNumber + 1 /\ half' = FALSE
        /\ pSCA' = InPlaceOf(frameNumber) /\ UNCHANGED failed
     \/ ndCounter' = frameNumber /\ failed' = TRUE /\ UNCHANGED <<half, pSCA>>
  /\ UNCHANGED <<acks, overrun, dtc, pMCA, panel>>

ReadScalers ==
  /\ half /\ Read
  /\ half' = FALSE
  /\ \/ /\ ndCounter' = frameNumber + 1
        /\ pSCA' = InPlaceOf(frameNumber) /\ UNCHANGED failed
     \/ ndCounter' = frameNumber /\ failed' = TRUE /\ UNCHANGED pSCA
  /\ UNCHANGED <<acks, overrun, dtc, pMCA, panel>>

ReadCorrected ==
  /\ dtc /\ Read
  /\ ndCounter' = frameNumber + 1
  /\ pMCA' = InPlaceOf(frameNumber) /\ pSCA' = InPlaceOf(frameNumber)
  /\ UNCHANGED <<acks, overrun, dtc, half, panel, failed>>

(* Nothing has been read: the array holds what the pool left in it. *)
ReadNothing ==
  /\ ~half /\ Read
  /\ ndCounter' = ndCounter
  /\ failed' = TRUE
  /\ UNCHANGED <<acks, overrun, buffer, panel>>

(* Mutant of circ_ack: the acknowledgement may come before the read. *)
circ_ackEarly ==
  /\ pc \in {"Read", "Publish"} /\ acks <= frameNumber
  /\ acks' = frameNumber + 1
  /\ UNCHANGED <<vars, overrun, buffer, panel, failed>>

(* readFrame() acknowledges the frame, whether or not it was read. *)
circ_ack ==
  /\ pc = "Publish" /\ acks <= frameNumber
  /\ acks' = frameNumber + 1
  /\ UNCHANGED <<vars, overrun, buffer, panel, failed>>

(***************************************************************************)
(* writeOutScas() shows what is in the buffer of scalers, read or not.     *)
(* The figures follow only if the frame counted for more than 10 ticks.    *)
(***************************************************************************)
(* Mutant of writeOutScas: a frame that was not read is not acknowledged. *)
writeOutScasAnyway ==
  /\ Publish /\ (acks > frameNumber \/ ndCounter # frameNumber + 1)
  /\ sca' = pSCA /\ fig' \in {fig, pSCA}
  /\ UNCHANGED <<acks, overrun, buffer, failed>>

writeOutScas ==
  /\ Publish /\ acks > frameNumber
  /\ sca' = pSCA /\ fig' \in {fig, pSCA}
  /\ UNCHANGED <<acks, overrun, buffer, failed>>

(* The other steps of XspressAcquire. *)
Elsewhere ==
  /\ \/ AcquireOnIgnored \/ AcquireOff \/ AcquireOffIgnored \/ SetNumImages
     \/ ConnectRefused \/ Connect \/ Disconnect
     \/ SetSavePath \/ SetWindow \/ SetTriggerMode \/ SaveSettings \/ RestoreSettings
     \/ CheckStale \/ WaitStart \/ Begin \/ Poll \/ AllocFails \/ NoStop \/ TakeStop
     \/ HistBusy \/ StopParams \/ Finish \/ HwQuiesce
  /\ UNCHANGED frames

FramesNext ==
  \/ CircularFrame \/ EraseFigures \/ StartRing \/ StartRefused
  \/ ChooseType \/ NewArray \/ ReadHistogram \/ ReadScalers \/ ReadCorrected
  \/ ReadNothing \/ circ_ack \/ writeOutScas \/ Elsewhere

FramesSpec == FramesInit /\ [][FramesNext]_<<vars, frames>>

(***************************************************************************)
(* Properties.                                                             *)
(***************************************************************************)
(* Ranges; a frame is half read only in an uncorrected read-out. *)
FramesTypeOK ==
  /\ acks \in 0 .. MaxFrames /\ overrun \in BOOLEAN /\ dtc \in BOOLEAN
  /\ half \in BOOLEAN /\ (half => pc = "Read" /\ ~dtc) /\ failed \in BOOLEAN
  /\ {pMCA, pSCA, sca, fig} \subseteq Unset .. MaxFrames

(***************************************************************************)
(* An array that was read holds the frame it is handed on as, and its      *)
(* scalers are of the same frame, or the detector has flagged an overrun:  *)
(* no frame is acknowledged, and so given away, while it is being read.    *)
(***************************************************************************)
OverrunIsFlagged ==
  pc = "Publish" /\ ~overrun =>
    /\ pMCA \in {frameNumber, Unset}
    /\ ndCounter = frameNumber + 1 => pSCA = frameNumber

(***************************************************************************)
(* Every frame that is handed on has been acknowledged, read or not: the   *)
(* detector of a Mini stops at one that has not.                           *)
(***************************************************************************)
EveryFrameAcknowledged ==
  pc \in Collecting \ {"Snapshot", "Read", "Publish"} => acks = frameNumber

(***************************************************************************)
(* With EraseOnStart, scalers and figures of an earlier acquisition are    *)
(* shown in this one only after a read-out that failed.                    *)
(***************************************************************************)
FiguresOfThisRun == Pending /\ (sca = Earlier \/ fig = Earlier) => failed
=============================================================================
