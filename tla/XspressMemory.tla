---------------------------- MODULE XspressMemory ----------------------------
(***************************************************************************)
(* The histogram memory behind the acquisition engine, and what erase()    *)
(* clears of it.                                                           *)
(*                                                                         *)
(* The detector adds counts to what a frame of its memory holds, so a      *)
(* frame is the picture of one acquisition only if it was cleared before.  *)
(* Clearing all frames is slow; erase() clears as many as NDArrayCounter   *)
(* and ADNumImages make it believe are in use.  This module adds the       *)
(* memory to every step of XspressAcquire.                                 *)
(***************************************************************************)
EXTENDS XspressAcquire

CONSTANTS
  EraseOnStart,   (* xsp3EraseStartParam: every start erases first.          *)
  LetRunsFinish   (* The clients never write 0 to ADAcquire.                 *)

ASSUME EraseOnStartAssumption  == EraseOnStart \in BOOLEAN
ASSUME LetRunsFinishAssumption == LetRunsFinish \in BOOLEAN

VARIABLES
  old,      (* Frames that hold counts of an earlier run of the detector.    *)
  fresh     (* Frames that hold counts of its latest run.                    *)

memory == <<old, fresh>>

MemoryInit == Init /\ old = {} /\ fresh = {}

(***************************************************************************)
(* erase() clears the frames below ADNumImages + 1 or NDArrayCounter, the  *)
(* larger; but only the first one when NDArrayCounter says none was read.  *)
(***************************************************************************)
InUse ==
  LET wanted == IF ndCounter = 0 THEN 1 ELSE numImages + 1
  IN  IF ndCounter > wanted THEN ndCounter ELSE wanted

(* Mutants of EraseRange: NDArrayCounter is not consulted; one too few. *)
EraseWanted  == IF numImages < MaxFrames THEN numImages + 1 ELSE MaxFrames
EraseOneLess == IF InUse > MaxFrames THEN MaxFrames - 1 ELSE InUse - 1

EraseRange == IF InUse > MaxFrames THEN MaxFrames ELSE InUse

Cleared(outcome) == IF outcome = "ok" THEN 0 .. EraseRange - 1 ELSE {}

(* The frame a detector that is not at rest is counting into. *)
Counting(state, frame, limit) == IF state # "idle" /\ frame < limit THEN {frame} ELSE {}

EraseMemory ==
  /\ \E outcome \in EraseOutcomes \ {"off"} :
       /\ Erasing(outcome)
       /\ old'   = old \ Cleared(outcome)
       /\ fresh' = (fresh \ Cleared(outcome)) \union Counting(hw, hwFrames, hwLimit)
  /\ Erase

(* A start erases or not as EraseOnStart says. *)
StartOutcomes == IF EraseOnStart THEN EraseOutcomes \ {"off"} ELSE {"off"}

StartMemory ==
  /\ \E outcome \in StartOutcomes :
       /\ Erasing(outcome)
       /\ old' = (old \union fresh) \ Cleared(outcome)
  /\ AcquireOn \/ AcquireOnHalfDone
  /\ fresh' = Counting(hw', hwFrames', hwLimit')

RefusedMemory ==
  /\ \E outcome \in StartOutcomes :
       /\ Erasing(outcome)
       /\ old'   = old \ Cleared(outcome)
       /\ fresh' = (fresh \ Cleared(outcome)) \union Counting(hw, hwFrames, hwLimit)
  /\ AcquireOnRefused

(* A frame ends, and the next one begins. *)
FrameMemory ==
  /\ HwFrame
  /\ fresh' = fresh \union Counting(hw', hwFrames', hwLimit)
  /\ UNCHANGED old

(* xsp3_config finds or makes the memory empty. *)
ConnectMemory == Connect /\ old' = {} /\ fresh' = {}

StopRequest == ~LetRunsFinish /\ (AcquireOff \/ AcquireOffIgnored)

(* The steps that leave the memory alone. *)
Elsewhere ==
  /\ \/ AcquireOnIgnored \/ StopRequest \/ SetNumImages
     \/ ConnectRefused \/ Disconnect
     \/ SetSavePath \/ SetWindow \/ SetTriggerMode \/ SaveSettings \/ RestoreSettings
     \/ DataTask \/ HwQuiesce
  /\ UNCHANGED memory

MemoryNext ==
  \/ EraseMemory \/ StartMemory \/ RefusedMemory \/ FrameMemory \/ ConnectMemory
  \/ Elsewhere

MemorySpec == MemoryInit /\ [][MemoryNext]_<<vars, memory>>

(***************************************************************************)
(* Properties.                                                             *)
(***************************************************************************)

(***************************************************************************)
(* With EraseOnStart, a frame that is read holds the counts of its own     *)
(* acquisition and of no earlier one.                                      *)
(***************************************************************************)
PureFrames == pc \in {"Alloc", "Read"} => frameNumber \notin old

(***************************************************************************)
(* Between two acquisitions an erase would leave nothing behind: the two   *)
(* parameters erase() goes by account for every frame that holds counts.   *)
(***************************************************************************)
EraseIsEnough == ~Pending => old \union fresh \subseteq 0 .. EraseRange - 1
=============================================================================
