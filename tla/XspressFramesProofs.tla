------------------------- MODULE XspressFramesProofs -------------------------
(***************************************************************************)
(* Proofs of the properties of XspressFrames.  What is proved of           *)
(* XspressAcquire carries over, for every behaviour here is one there.     *)
(***************************************************************************)
EXTENDS XspressFrames, XspressAcquireProofs

USE DEF params, events, device, task, history, vars, buffer, panel, frames,
        Status, Collecting, Stopping, InSession, TaskSteps

LEMMA FramesStep == [FramesNext]_<<vars, frames>> => [Next]_vars
  <1> SUFFICES ASSUME [FramesNext]_<<vars, frames>> PROVE [Next]_vars
    OBVIOUS
  <1>1. CASE CircularFrame
    BY <1>1 DEF CircularFrame, Next, Detector
  <1>2. CASE EraseFigures \/ StartRing \/ StartRefused
    BY <1>2 DEF EraseFigures, StartRing, StartRefused, Next, Client
  <1>3. CASE ChooseType \/ NewArray
    BY <1>3 DEF ChooseType, NewArray, Next, DataTask
  <1>4. CASE ReadHistogram \/ circ_ack
    BY <1>4 DEF ReadHistogram, circ_ack
  <1>5. CASE ReadScalers \/ ReadCorrected \/ ReadNothing \/ writeOutScas
    BY <1>5 DEF ReadScalers, ReadCorrected, ReadNothing, writeOutScas, Next, DataTask
  <1>6. CASE Elsewhere
    BY <1>6 DEF Elsewhere, Next, Client, DataTask, Detector
  <1>7. CASE UNCHANGED <<vars, frames>>
    BY <1>7
  <1>8. QED
    BY <1>1, <1>2, <1>3, <1>4, <1>5, <1>6, <1>7 DEF FramesNext

(***************************************************************************)
(* Seen without its arrays, its scalers and its acknowledgements, this is  *)
(* the acquisition engine.                                                 *)
(***************************************************************************)
THEOREM FramesAreAcquisitions == FramesSpec => Spec
  <1>1. FramesInit => Init
    BY DEF FramesInit
  <1>2. QED
    BY <1>1, FramesStep, PTL DEF FramesSpec, Spec

(***************************************************************************)
(* Acknowledgements.                                                       *)
(***************************************************************************)
Engine == ValueInv /\ AcquireReadback /\ FrameInv

AckInv ==
  /\ startEvent \/ pc \in {"Begin", "Snapshot"} => acks = 0
  /\ pc \in Collecting \ {"Snapshot", "Publish"} => acks = frameNumber
  /\ pc = "Publish" => acks \in {frameNumber, frameNumber + 1}

LEMMA AckInit == FramesInit => AckInv
  BY DEF FramesInit, Init, AckInv

(* A start finds no acquisition pending. *)
LEMMA StartsAlone ==
  ASSUME OneStart, AcquireReadback, AcquireOn \/ AcquireOnHalfDone \/ AcquireOnRefused
  PROVE  ~Pending
  BY DEF OneStart, AcquireReadback, AcquireOn, AcquireOnHalfDone, AcquireOnRefused, Busy

LEMMA AckStep ==
  ASSUME OneRun
  PROVE  AckInv /\ Engine /\ [FramesNext]_<<vars, frames>> => AckInv'
  <1> SUFFICES ASSUME AckInv, Engine, [FramesNext]_<<vars, frames>> PROVE AckInv'
    OBVIOUS
  <1>a. OneStart /\ AcquireReadback /\ FreshCount /\ "alloc" \notin Faults
    BY OneRun DEF OneRun, OneStart, Engine, FrameInv
  <1>b. frameNumber \in Int
    BY DEF Engine, ValueInv, ValueTypes
  <1> USE DEF AckInv, GoTo
  <1>1. CASE CircularFrame
    BY <1>1 DEF CircularFrame, HwFrame
  <1>2. CASE EraseFigures
    BY <1>2 DEF EraseFigures, Erase
  <1>3. CASE StartRing
    <2>1. ~Pending
      BY <1>3, <1>a, StartsAlone DEF StartRing
    <2>2. acks' = 0 /\ pc' = pc
      BY <1>3 DEF StartRing, AcquireOn, AcquireOnHalfDone
    <2>3. QED
      BY <2>1, <2>2 DEF Pending
  <1>4. CASE StartRefused
    BY <1>4 DEF StartRefused, AcquireOnRefused
  <1>5. CASE ChooseType \/ NewArray
    BY <1>5, <1>a DEF ChooseType, NewArray, Snapshot, Alloc, FreshCount, AcquireReadback
  <1>6. CASE ReadHistogram \/ circ_ack
    BY <1>6, <1>a DEF ReadHistogram, circ_ack, AcquireReadback
  <1>7. CASE ReadScalers \/ ReadCorrected \/ ReadNothing
    BY <1>7 DEF ReadScalers, ReadCorrected, ReadNothing, Read
  <1>8. CASE writeOutScas
    BY <1>8, <1>b DEF writeOutScas, Publish
  <1>9. CASE Elsewhere
    <2>1. acks' = acks
      BY <1>9 DEF Elsewhere
    <2>2. CASE \/ AcquireOnIgnored \/ AcquireOff \/ AcquireOffIgnored \/ SetNumImages
               \/ ConnectRefused \/ Connect \/ Disconnect
               \/ SetSavePath \/ SetWindow \/ SetTriggerMode \/ SaveSettings
               \/ RestoreSettings \/ HwQuiesce
      BY <2>1, <2>2
      DEF AcquireOnIgnored, AcquireOff, AcquireOffIgnored, SetNumImages, ConnectRefused,
          Connect, Disconnect, SetSavePath, SetWindow, SetTriggerMode, SaveSettings,
          RestoreSettings, Report, HwQuiesce
    <2>3. CASE CheckStale \/ WaitStart \/ Begin \/ Poll
      BY <2>1, <2>3 DEF CheckStale, WaitStart, Begin, Poll
    <2>4. CASE AllocFails \/ NoStop \/ TakeStop \/ HistBusy \/ StopParams \/ Finish
      BY <1>a, <2>1, <2>4
      DEF AllocFails, NoStop, TakeStop, HistBusy, StopParams, Finish, EndSession
    <2>5. QED
      BY <1>9, <2>2, <2>3, <2>4 DEF Elsewhere
  <1>10. CASE UNCHANGED <<vars, frames>>
    BY <1>10
  <1>11. QED
    BY <1>1, <1>2, <1>3, <1>4, <1>5, <1>6, <1>7, <1>8, <1>9, <1>10 DEF FramesNext

LEMMA EngineHere ==
  ASSUME OneRun
  PROVE  FramesSpec => []Engine
  <1>1. OneStart
    BY OneRun DEF OneRun
  <1>2. Spec => [](AcquireReadback /\ FrameInv)
    BY <1>1, ReadbackIsHonest, FrameInvariant, PTL
  <1>3. ValueInv /\ AcquireReadback /\ FrameInv => Engine
    BY DEF Engine
  <1>4. QED
    BY <1>2, <1>3, FramesAreAcquisitions, TypeInvariant, PTL

LEMMA AckInvariant ==
  ASSUME OneRun
  PROVE  FramesSpec => []AckInv
  BY EngineHere, AckInit, AckStep, PTL DEF FramesSpec

(***************************************************************************)
(* Every frame that is handed on has been acknowledged once it is, whether *)
(* or not its read-out succeeded.                                          *)
(***************************************************************************)
THEOREM AllFramesAcknowledged ==
  ASSUME OneRun
  PROVE  FramesSpec => []EveryFrameAcknowledged
  <1>1. AckInv => EveryFrameAcknowledged
    BY DEF AckInv, EveryFrameAcknowledged
  <1>2. QED
    BY <1>1, AckInvariant, PTL

(***************************************************************************)
(* Contents.  As long as the detector has not flagged an overrun, the      *)
(* place of a frame that is not acknowledged holds that frame: what the    *)
(* detector has begun since is less than a round ahead.                    *)
(***************************************************************************)
LEMMA WithinRound == \A x \in Nat : x % Ring \in 0 .. x
  BY RingAssumption

LEMMA LessThanRound == \A x \in 0 .. Ring - 1 : x % Ring = x
  BY RingAssumption

LEMMA PlaceBounds ==
  ASSUME Engine, pc = "Read"
  PROVE  /\ InPlaceOf(frameNumber) \in 0 .. MaxFrames
         /\ Begun < frameNumber + Ring => InPlaceOf(frameNumber) = frameNumber
  <1>1. frameNumber \in Nat /\ hwFrames \in 0 .. MaxFrames /\ hwLimit \in 0 .. MaxFrames
    BY MaxFramesAssumption DEF Engine, ValueInv, ValueTypes
  <1>2. frameNumber < hwFrames
    BY DEF Engine, FrameInv, ReadBehindDetector
  <1>3. Begun \in frameNumber .. MaxFrames
    BY <1>1, <1>2, MaxFramesAssumption DEF Begun
  <1>4. Begun - frameNumber \in Nat
    BY <1>1, <1>3, MaxFramesAssumption
  <1>5. (Begun - frameNumber) % Ring \in 0 .. Begun - frameNumber
    BY <1>4, WithinRound
  <1>6. InPlaceOf(frameNumber) \in 0 .. MaxFrames
    BY <1>1, <1>3, <1>5, MaxFramesAssumption DEF InPlaceOf
  <1>7. ASSUME Begun < frameNumber + Ring
        PROVE  InPlaceOf(frameNumber) = frameNumber
    <2>1. Begun - frameNumber \in 0 .. Ring - 1
      BY <1>1, <1>3, <1>7, RingAssumption, MaxFramesAssumption
    <2>2. QED
      BY <1>1, <1>3, <2>1, LessThanRound, MaxFramesAssumption DEF InPlaceOf
  <1>8. QED
    BY <1>6, <1>7

(***************************************************************************)
(* Types of what is kept here.                                             *)
(***************************************************************************)
Contents == Unset .. MaxFrames

FrameTypes ==
  /\ acks \in 0 .. MaxFrames
  /\ overrun \in BOOLEAN /\ dtc \in BOOLEAN /\ half \in BOOLEAN /\ failed \in BOOLEAN
  /\ half => pc = "Read" /\ ~dtc
  /\ pMCA \in Contents /\ pSCA \in Contents /\ sca \in Contents /\ fig \in Contents

LEMMA FrameTypesInit == FramesInit => FrameTypes
  <1>1. Unset \in Contents /\ Zero \in Contents /\ 0 \in 0 .. MaxFrames
    BY MaxFramesAssumption DEF Contents, Unset, Zero
  <1>2. QED
    BY <1>1 DEF FramesInit, FrameTypes

LEMMA FrameTypesStep ==
  ASSUME OneRun
  PROVE  FrameTypes /\ Engine /\ [FramesNext]_<<vars, frames>> => FrameTypes'
  <1> SUFFICES ASSUME FrameTypes, Engine, [FramesNext]_<<vars, frames>>
               PROVE FrameTypes'
    OBVIOUS
  <1> USE MaxFramesAssumption DEF FrameTypes, GoTo
  <1>a. \A c \in Contents : Aged(c) \in Contents
    BY DEF Aged, Contents, Earlier, Unset
  <1>b. Unset \in Contents /\ Zero \in Contents
    BY DEF Contents, Unset, Zero
  <1>c. pc = "Read" => InPlaceOf(frameNumber) \in Contents
    BY PlaceBounds DEF Contents, Unset
  <1>d. /\ pc = "Publish" => frameNumber + 1 \in 0 .. MaxFrames
        /\ frameNumber \in 0 .. MaxFrames
    BY DEF Engine, ValueInv, ValueTypes, FrameInRange
  <1>1. CASE CircularFrame
    BY <1>1 DEF CircularFrame, HwFrame
  <1>2. CASE EraseFigures
    BY <1>2, <1>b DEF EraseFigures, Erase, eraseSCAMCAROI
  <1>3. CASE StartRing
    <2>1. pc' = pc /\ UNCHANGED <<dtc, pMCA, half>> /\ pSCA' = Aged(pSCA)
          /\ acks' = 0 /\ overrun' = FALSE /\ failed' = FALSE
      BY <1>3 DEF StartRing, AcquireOn, AcquireOnHalfDone
    <2>2. sca' \in {Zero, Aged(sca)} /\ fig' \in {Zero, Aged(fig)}
      BY <1>3 DEF StartRing, eraseSCAMCAROI
    <2>3. QED
      <3>1. sca' \in Contents /\ fig' \in Contents /\ pSCA' \in Contents
        BY <1>a, <1>b, <2>1, <2>2
      <3>2. acks' \in 0 .. MaxFrames
        BY <2>1
      <3>3. half' => pc' = "Read" /\ ~dtc'
        BY <2>1
      <3>4. overrun' \in BOOLEAN /\ failed' \in BOOLEAN
        BY <2>1
      <3>5. QED
        BY <3>1, <3>2, <3>3, <3>4, <2>1
  <1>4. CASE StartRefused
    BY <1>4, <1>b DEF StartRefused, AcquireOnRefused, eraseSCAMCAROI
  <1>5. CASE ChooseType \/ NewArray
    <2>1. CASE ChooseType
      BY <2>1 DEF ChooseType, Snapshot
    <2>2. CASE NewArray
      BY <2>2, <1>b DEF NewArray, Alloc
    <2>3. QED
      BY <1>5, <2>1, <2>2
  <1>6. CASE ReadHistogram
    BY <1>6, <1>c DEF ReadHistogram
  <1>7. CASE circ_ack
    BY <1>7, <1>d DEF circ_ack
  <1>8. CASE ReadScalers \/ ReadCorrected \/ ReadNothing
    <2>1. CASE ReadScalers
      BY <2>1, <1>c DEF ReadScalers, Read
    <2>2. CASE ReadCorrected
      BY <2>2, <1>c DEF ReadCorrected, Read
    <2>3. CASE ReadNothing
      BY <2>3 DEF ReadNothing, Read
    <2>4. QED
      BY <1>8, <2>1, <2>2, <2>3
  <1>9. CASE writeOutScas
    BY <1>9 DEF writeOutScas, Publish
  <1>10. CASE Elsewhere
    <2>1. UNCHANGED frames
      BY <1>10 DEF Elsewhere
    <2>2. pc = "Read" => pc' = "Read"
      BY <1>10
      DEF Elsewhere, AcquireOnIgnored, AcquireOff, AcquireOffIgnored, SetNumImages,
          ConnectRefused, Connect, Disconnect, SetSavePath, SetWindow, SetTriggerMode,
          SaveSettings, RestoreSettings, Report, CheckStale, WaitStart, Begin, Poll,
          AllocFails, NoStop, TakeStop, HistBusy, StopParams, Finish, EndSession, HwQuiesce
    <2>3. QED
      BY <2>1, <2>2
  <1>11. CASE UNCHANGED <<vars, frames>>
    BY <1>11
  <1>12. QED
    BY <1>1, <1>2, <1>3, <1>4, <1>5, <1>6, <1>7, <1>8, <1>9, <1>10, <1>11 DEF FramesNext

LEMMA FrameTypesInvariant ==
  ASSUME OneRun
  PROVE  FramesSpec => []FrameTypes
  BY EngineHere, FrameTypesInit, FrameTypesStep, PTL DEF FramesSpec

(***************************************************************************)
(* Every acknowledgement, array and figure stays in its range, for every   *)
(* size of the ring: no read-out goes to a place outside it.               *)
(***************************************************************************)
THEOREM FramesTypeCorrect ==
  ASSUME OneRun
  PROVE  FramesSpec => []FramesTypeOK
  <1>1. FrameTypes => FramesTypeOK
    BY DEF FrameTypes, Contents, FramesTypeOK
  <1>2. QED
    BY <1>1, FrameTypesInvariant, PTL

(***************************************************************************)
(* The ring.  An unflagged detector is less than a round ahead of what has *)
(* been acknowledged; what is read from it then is the frame asked for.    *)
(***************************************************************************)
RingInv == Pending /\ ~overrun => Begun < acks + Ring

ContentInv ==
  /\ pc = "Read" /\ ~half => pMCA = Unset
  /\ half /\ ~overrun => pMCA = frameNumber
  /\ OverrunIsFlagged

LEMMA RingInit == FramesInit => RingInv /\ ContentInv
  BY DEF FramesInit, Init, RingInv, ContentInv, OverrunIsFlagged, Pending

LEMMA RingStep ==
  ASSUME OneRun
  PROVE  RingInv /\ FrameTypes /\ Engine /\ [FramesNext]_<<vars, frames>> => RingInv'
  <1> SUFFICES ASSUME RingInv, FrameTypes, Engine, [FramesNext]_<<vars, frames>>
               PROVE RingInv'
    OBVIOUS
  <1>a. OneStart /\ AcquireReadback
    BY OneRun DEF OneRun, Engine
  <1>b. /\ hwFrames \in Int /\ hwLimit \in Int /\ acks \in Int
        /\ Ring \in Int /\ Ring > 0 /\ frameNumber \in Int
    BY RingAssumption, MaxFramesAssumption DEF Engine, ValueInv, ValueTypes, FrameTypes
  <1> USE DEF RingInv
  <1>1. CASE CircularFrame
    <2>1. Begun \in Int /\ Begun' \in Int /\ acks' = acks
      BY <1>1, <1>b DEF CircularFrame, HwFrame, Begun
    <2>2. Pending' <=> Pending
      BY <1>1 DEF CircularFrame, HwFrame, Pending
    <2>3. ~overrun' => ~overrun /\ ~(Begun' > Begun /\ Begun' - Ring >= acks)
      BY <1>1 DEF CircularFrame
    <2>4. SUFFICES ASSUME Pending, ~overrun' PROVE Begun' < acks' + Ring
      BY <2>2
    <2>5. Begun < acks + Ring
      BY <2>3, <2>4
    <2>6. \A a, b, c, r \in Int : b < a + r /\ ~(c > b /\ c - r >= a) => c < a + r
      OBVIOUS
    <2>7. QED
      BY <1>b, <2>1, <2>3, <2>4, <2>5, <2>6
  <1>2. CASE EraseFigures
    BY <1>2 DEF EraseFigures, Erase, Pending, Begun
  <1>3. CASE StartRing
    <2>1. acks' = 0 /\ hwFrames' = 0
      BY <1>3 DEF StartRing, AcquireOn, AcquireOnHalfDone, HistogramStart
    <2>2. Begun' <= 0
      BY <2>1 DEF Begun
    <2>3. Begun' \in Int
      BY <2>1 DEF Begun
    <2>4. QED
      BY <1>b, <2>1, <2>2, <2>3
  <1>4. CASE StartRefused
    <2>1. ~Pending
      BY <1>4, <1>a, StartsAlone DEF StartRefused
    <2>2. ~Pending'
      BY <1>4, <2>1 DEF StartRefused, AcquireOnRefused, Pending
    <2>3. QED
      BY <2>2
  <1>5. CASE ChooseType \/ NewArray
    <2>1. (Pending' => Pending) /\ UNCHANGED <<hw, hwFrames, hwLimit, acks, overrun>>
      BY <1>5 DEF ChooseType, NewArray, Snapshot, Alloc, GoTo, Pending
    <2>2. QED
      BY <2>1 DEF Begun
  <1>6. CASE ReadHistogram
    BY <1>6 DEF ReadHistogram, Pending, Begun
  <1>7. CASE circ_ack
    <2>1. acks' >= acks /\ acks' \in Int /\ UNCHANGED <<vars, overrun>>
      BY <1>7, <1>b DEF circ_ack
    <2>2. Begun' = Begun /\ (Pending' <=> Pending)
      BY <2>1 DEF Begun, Pending
    <2>3. Begun \in Int
      BY <1>b DEF Begun
    <2>4. SUFFICES ASSUME Pending, ~overrun PROVE Begun < acks' + Ring
      BY <2>1, <2>2
    <2>5. Begun < acks + Ring
      BY <2>4
    <2>6. \A a, b, c, r \in Int : b < a + r /\ c >= a => b < c + r
      OBVIOUS
    <2>7. QED
      BY <1>b, <2>1, <2>3, <2>5, <2>6
  <1>8. CASE ReadScalers \/ ReadCorrected \/ ReadNothing
    <2>1. (Pending' => Pending) /\ UNCHANGED <<hw, hwFrames, hwLimit, acks, overrun>>
      BY <1>8 DEF ReadScalers, ReadCorrected, ReadNothing, Read, GoTo, Pending
    <2>2. QED
      BY <2>1 DEF Begun
  <1>9. CASE writeOutScas
    <2>1. (Pending' => Pending) /\ UNCHANGED <<hw, hwFrames, hwLimit, acks, overrun>>
      BY <1>9 DEF writeOutScas, Publish, GoTo, Pending
    <2>2. QED
      BY <2>1 DEF Begun
  <1>10. CASE Elsewhere
    <2>1. UNCHANGED frames
      BY <1>10 DEF Elsewhere
    <2>2. CASE AcquireOnIgnored \/ AcquireOff \/ AcquireOffIgnored \/ SetNumImages
      BY <2>1, <2>2, <1>b
      DEF AcquireOnIgnored, AcquireOff, AcquireOffIgnored, SetNumImages, Halted,
          Pending, Begun
    <2>3. CASE ConnectRefused \/ Connect \/ Disconnect
      <3>1. CASE Connect
        <4>1. ~adAcquire /\ ~Pending /\ ~Pending'
          BY <3>1, <1>a, OneRun DEF Connect, OneRun, Busy, AcquireReadback, Pending
        <4>2. QED
          BY <4>1
      <3>2. QED
        BY <2>1, <2>3, <3>1 DEF ConnectRefused, Disconnect, Pending, Begun
    <2>4. CASE SetSavePath \/ SetWindow \/ SetTriggerMode \/ SaveSettings \/ RestoreSettings
      BY <2>1, <2>4
      DEF SetSavePath, SetWindow, SetTriggerMode, SaveSettings, RestoreSettings, Report,
          Pending, Begun
    <2>5. CASE CheckStale \/ WaitStart \/ Begin \/ Poll \/ AllocFails
      <3>1. (Pending' => Pending) /\ UNCHANGED <<hw, hwFrames, hwLimit>>
        BY <2>5 DEF CheckStale, WaitStart, Begin, Poll, AllocFails, GoTo, Pending
      <3>2. QED
        BY <2>1, <3>1 DEF Begun
    <2>6. CASE NoStop \/ TakeStop \/ HistBusy \/ StopParams \/ Finish
      BY <2>1, <2>6
      DEF NoStop, TakeStop, HistBusy, StopParams, Finish, EndSession, GoTo, Pending, Begun
    <2>7. CASE HwQuiesce
      <3>1. Begun' <= Begun /\ Begun' \in Int /\ Begun \in Int
        BY <2>7, <1>b DEF HwQuiesce, Begun
      <3>2. Pending' <=> Pending
        BY <2>7 DEF HwQuiesce, Pending
      <3>3. QED
        BY <1>b, <2>1, <3>1, <3>2
    <2>8. QED
      BY <1>10, <2>2, <2>3, <2>4, <2>5, <2>6, <2>7 DEF Elsewhere
  <1>11. CASE UNCHANGED <<vars, frames>>
    BY <1>11 DEF Pending, Begun
  <1>12. QED
    BY <1>1, <1>2, <1>3, <1>4, <1>5, <1>6, <1>7, <1>8, <1>9, <1>10, <1>11 DEF FramesNext

LEMMA ContentStep ==
  ASSUME OneRun
  PROVE  ContentInv /\ RingInv /\ FrameTypes /\ AckInv /\ CounterTrailsLoop /\ Engine
           /\ [FramesNext]_<<vars, frames>> => ContentInv'
  <1> SUFFICES ASSUME ContentInv, RingInv, FrameTypes, AckInv, CounterTrailsLoop, Engine,
                      [FramesNext]_<<vars, frames>>
               PROVE  ContentInv'
    OBVIOUS
  <1>a. OneStart /\ AcquireReadback
    BY OneRun DEF OneRun, Engine
  <1>b. frameNumber \in Nat /\ ndCounter \in Nat
    BY MaxFramesAssumption DEF Engine, ValueInv, ValueTypes
  <1>c. half => pc = "Read"
    BY DEF FrameTypes
  <1>d. pc = "Read" => ndCounter # frameNumber + 1
    BY <1>b DEF CounterTrailsLoop
  <1>e. pc = "Read" /\ ~overrun => InPlaceOf(frameNumber) = frameNumber
    BY PlaceBounds DEF RingInv, AckInv, Pending
  <1> USE DEF ContentInv, OverrunIsFlagged
  <1>1. CASE CircularFrame
    BY <1>1 DEF CircularFrame, HwFrame
  <1>2. CASE EraseFigures
    <2>1. ndCounter' # ndCounter => ndCounter' = 0
      BY <1>2 DEF EraseFigures, Erase, Erasing
    <2>2. ndCounter' = frameNumber + 1 => ndCounter = frameNumber + 1
      BY <1>b, <2>1
    <2>3. QED
      BY <1>2, <2>2 DEF EraseFigures, Erase
  <1>3. CASE StartRing \/ StartRefused
    <2>1. ~Pending /\ ~half
      BY <1>3, <1>a, <1>c, StartsAlone DEF StartRing, StartRefused, Pending
    <2>2. pc' = pc /\ half' = half
      BY <1>3 DEF StartRing, StartRefused, AcquireOn, AcquireOnHalfDone, AcquireOnRefused
    <2>3. QED
      BY <2>1, <2>2 DEF Pending
  <1>4. CASE ChooseType \/ NewArray
    BY <1>4, <1>c DEF ChooseType, NewArray, Snapshot, Alloc, GoTo
  <1>5. CASE ReadHistogram
    BY <1>5, <1>e DEF ReadHistogram
  <1>6. CASE circ_ack
    BY <1>6 DEF circ_ack
  <1>7. CASE ReadScalers
    <2>1. pc = "Read" /\ pc' = "Publish" /\ half /\ ~half'
          /\ UNCHANGED <<pMCA, overrun, frameNumber>>
      BY <1>7 DEF ReadScalers, Read, GoTo
    <2>2. \/ pSCA' = InPlaceOf(frameNumber)
          \/ ndCounter' = frameNumber
      BY <1>7 DEF ReadScalers
    <2>3. frameNumber # frameNumber + 1
      BY <1>b
    <2>4. QED
      BY <1>e, <2>1, <2>2, <2>3
  <1>8. CASE ReadCorrected
    BY <1>8, <1>c, <1>e DEF ReadCorrected, Read, GoTo
  <1>9. CASE ReadNothing
    BY <1>9, <1>d DEF ReadNothing, Read, GoTo
  <1>10. CASE writeOutScas
    BY <1>10, <1>c DEF writeOutScas, Publish, GoTo
  <1>11. CASE Elsewhere
    <2>1. UNCHANGED frames
      BY <1>11 DEF Elsewhere
    <2>2. CASE \/ AcquireOnIgnored \/ AcquireOff \/ AcquireOffIgnored \/ SetNumImages
               \/ ConnectRefused \/ Connect \/ Disconnect
               \/ SetSavePath \/ SetWindow \/ SetTriggerMode \/ SaveSettings
               \/ RestoreSettings \/ HwQuiesce
      BY <2>1, <2>2
      DEF AcquireOnIgnored, AcquireOff, AcquireOffIgnored, SetNumImages, ConnectRefused,
          Connect, Disconnect, SetSavePath, SetWindow, SetTriggerMode, SaveSettings,
          RestoreSettings, Report, HwQuiesce
    <2>3. CASE \/ CheckStale \/ WaitStart \/ Begin \/ Poll \/ AllocFails \/ NoStop
               \/ TakeStop \/ HistBusy \/ StopParams \/ Finish
      <3>1. pc # "Read" /\ pc' \notin {"Read", "Publish"}
        BY <2>3
        DEF CheckStale, WaitStart, Begin, Poll, AllocFails, NoStop, TakeStop, HistBusy,
            StopParams, Finish, EndSession, GoTo
      <3>2. QED
        BY <1>c, <2>1, <3>1
    <2>4. QED
      BY <1>11, <2>2, <2>3 DEF Elsewhere
  <1>12. CASE UNCHANGED <<vars, frames>>
    BY <1>12
  <1>13. QED
    BY <1>1, <1>2, <1>3, <1>4, <1>5, <1>6, <1>7, <1>8, <1>9, <1>10, <1>11, <1>12
    DEF FramesNext

(***************************************************************************)
(* Unless the detector has flagged an overrun, an array that is handed on  *)
(* is empty or holds the frame it is handed on as, and scalers that were   *)
(* read are of that frame: for every number of frames in the ring.         *)
(***************************************************************************)
THEOREM ArraysAreTheirFrames ==
  ASSUME QuietRun
  PROVE  FramesSpec => []OverrunIsFlagged
  <1>1. OneRun
    BY QuietRun DEF QuietRun
  <1>2. CountersInv => CounterTrailsLoop
    BY DEF CountersInv
  <1>3. FramesSpec => []CounterTrailsLoop
    BY <1>2, CountersInvariant, FramesAreAcquisitions, PTL
  <1>4. FramesSpec => [](RingInv /\ ContentInv)
    BY <1>1, <1>3, EngineHere, FrameTypesInvariant, AckInvariant, RingInit, RingStep,
       ContentStep, PTL DEF FramesSpec
  <1>5. ContentInv => OverrunIsFlagged
    BY DEF ContentInv
  <1>6. QED
    BY <1>4, <1>5, PTL

(***************************************************************************)
(* Figures.  With EraseOnStart, and a library that fails only its reads, a *)
(* start zeroes what is shown; scalers are shown before they are read only *)
(* after a failure.                                                        *)
(***************************************************************************)
CleanStarts == OneRun /\ EraseOnStart = TRUE /\ "api" \notin Faults

PanelInv ==
  /\ Pending /\ ~failed => sca # Earlier /\ fig # Earlier
  /\ pc = "Publish" /\ ~failed => pSCA # Earlier

LEMMA PanelStep ==
  ASSUME CleanStarts
  PROVE  PanelInv /\ FrameTypes /\ Engine /\ [FramesNext]_<<vars, frames>> => PanelInv'
  <1> SUFFICES ASSUME PanelInv, FrameTypes, Engine, [FramesNext]_<<vars, frames>>
               PROVE PanelInv'
    OBVIOUS
  <1>a. OneRun /\ OneStart /\ AcquireReadback /\ "api" \notin Faults /\ EraseOnStart = TRUE
    BY DEF CleanStarts, OneRun, Engine
  <1>b. Zero # Earlier
    BY DEF Zero, Earlier
  <1>c. pc = "Read" => InPlaceOf(frameNumber) # Earlier
    BY <1>a, PlaceBounds DEF Earlier
  <1> USE DEF PanelInv
  <1>1. CASE CircularFrame
    BY <1>1 DEF CircularFrame, HwFrame, Pending
  <1>2. CASE EraseFigures
    BY <1>2, <1>b DEF EraseFigures, Erase, eraseSCAMCAROI, Pending
  <1>3. CASE StartRing
    <2>1. pc' = pc /\ ~Pending /\ handleOk
      BY <1>3, <1>a, StartsAlone DEF StartRing, AcquireOn, AcquireOnHalfDone
    <2>2. StartOutcomes = {"ok"}
      BY <1>a, <2>1 DEF StartOutcomes, EraseOutcomes, MayFail
    <2>3. sca' = Zero /\ fig' = Zero
      BY <1>3, <2>2 DEF StartRing, eraseSCAMCAROI
    <2>4. QED
      BY <1>b, <2>1, <2>3 DEF Pending
  <1>4. CASE StartRefused
    <2>1. ~Pending
      BY <1>4, <1>a, StartsAlone DEF StartRefused
    <2>2. UNCHANGED <<pc, startEvent>>
      BY <1>4 DEF StartRefused, AcquireOnRefused
    <2>3. QED
      BY <2>1, <2>2 DEF Pending
  <1>5. CASE ChooseType \/ NewArray
    BY <1>5 DEF ChooseType, NewArray, Snapshot, Alloc, GoTo, Pending
  <1>6. CASE ReadHistogram \/ circ_ack
    BY <1>6 DEF ReadHistogram, circ_ack, Pending
  <1>7. CASE ReadScalers \/ ReadCorrected \/ ReadNothing
    BY <1>7, <1>c DEF ReadScalers, ReadCorrected, ReadNothing, Read, GoTo, Pending
  <1>8. CASE writeOutScas
    BY <1>8 DEF writeOutScas, Publish, GoTo, Pending
  <1>9. CASE Elsewhere
    <2>1. UNCHANGED frames
      BY <1>9 DEF Elsewhere
    <2>2. (Pending' => Pending) /\ (pc' = "Publish" => pc = "Publish")
      <3>1. CASE \/ AcquireOnIgnored \/ AcquireOff \/ AcquireOffIgnored \/ SetNumImages
                 \/ ConnectRefused \/ Connect \/ Disconnect
                 \/ SetSavePath \/ SetWindow \/ SetTriggerMode \/ SaveSettings
                 \/ RestoreSettings \/ HwQuiesce
        BY <3>1
        DEF AcquireOnIgnored, AcquireOff, AcquireOffIgnored, SetNumImages, ConnectRefused,
            Connect, Disconnect, SetSavePath, SetWindow, SetTriggerMode, SaveSettings,
            RestoreSettings, Report, HwQuiesce, Pending
      <3>2. CASE \/ CheckStale \/ WaitStart \/ Begin \/ Poll \/ AllocFails \/ NoStop
                 \/ TakeStop \/ HistBusy \/ StopParams \/ Finish
        BY <3>2
        DEF CheckStale, WaitStart, Begin, Poll, AllocFails, NoStop, TakeStop, HistBusy,
            StopParams, Finish, EndSession, GoTo, Pending
      <3>3. QED
        BY <1>9, <3>1, <3>2 DEF Elsewhere
    <2>3. QED
      BY <2>1, <2>2
  <1>10. CASE UNCHANGED <<vars, frames>>
    BY <1>10 DEF Pending
  <1>11. QED
    BY <1>1, <1>2, <1>3, <1>4, <1>5, <1>6, <1>7, <1>8, <1>9, <1>10 DEF FramesNext

(***************************************************************************)
(* Scalers and dead-time figures shown during an acquisition are none of   *)
(* an earlier one, unless a read-out of this one has failed.               *)
(***************************************************************************)
THEOREM FiguresAreCurrent ==
  ASSUME CleanStarts
  PROVE  FramesSpec => []FiguresOfThisRun
  <1>1. FramesInit => PanelInv
    BY DEF FramesInit, Init, PanelInv, Pending
  <1>2. OneRun
    BY DEF CleanStarts
  <1>3. PanelInv => FiguresOfThisRun
    BY DEF PanelInv, FiguresOfThisRun
  <1>4. QED
    BY <1>1, <1>2, <1>3, EngineHere, FrameTypesInvariant, PanelStep, PTL DEF FramesSpec
=============================================================================
