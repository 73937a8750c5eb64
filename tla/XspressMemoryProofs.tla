------------------------- MODULE XspressMemoryProofs -------------------------
(***************************************************************************)
(* Proofs about the histogram memory: when clients wait for ADAcquire to   *)
(* fall, every start erases, no run is stopped and the ITFG paces the      *)
(* frames, then what erase() guesses is enough.                            *)
(***************************************************************************)
EXTENDS XspressMemory, XspressAcquireProofs

USE DEF params, events, device, task, history, vars, memory,
        Status, Collecting, Stopping, InSession, TaskSteps

CleanRuns ==
  /\ EraseOnStart /\ LetRunsFinish /\ Internal
  /\ {"StartWhenDone", "ConnectWhenDone", "SetWhenDone"} \subseteq ClientRules
  /\ Faults \subseteq {"config"}

(***************************************************************************)
(* Every step of the composed module is a step of the engine.              *)
(***************************************************************************)
LEMMA MemoryIsEngine == MemorySpec => Spec
  <1>1. MemoryInit => Init
    BY DEF MemoryInit
  <1>2. MemoryNext => Next
    <2>1. StopRequest => Client
      BY DEF StopRequest, Client
    <2>2. Elsewhere => Next
      BY <2>1 DEF Elsewhere, Next, Client, Detector
    <2>3. (EraseMemory \/ StartMemory \/ RefusedMemory \/ FrameMemory \/ ConnectMemory) => Next
      BY DEF EraseMemory, StartMemory, RefusedMemory, FrameMemory, ConnectMemory,
             Next, Client, Detector
    <2>4. QED
      BY <2>2, <2>3 DEF MemoryNext
  <1>3. [MemoryNext]_<<vars, memory>> => [Next]_vars
    BY <1>2 DEF memory
  <1>4. QED
    BY <1>1, <1>3, PTL DEF MemorySpec, Spec

(***************************************************************************)
(* A run nobody stops: no stop event, and the detector is never halted.    *)
(***************************************************************************)
NeverStopped == ~stopEvent /\ pc \notin Stopping /\ hw # "stopping"

(* What the detector was programmed for is what the data task waits for. *)
RunAsProgrammed ==
  /\ Pending => handleOk /\ hwLimit = Programmed
  /\ pc \in Collecting \ {"Snapshot"} => numFrames = numImages
  /\ pc \in {"Loop", "CheckStop"} => frameNumber <= hwFrames

(* Between two acquisitions the detector counts into no frame. *)
AtRest == ~Pending => hw = "idle" \/ hwFrames >= hwLimit

(* The last frame has been read: the loop is about to end. *)
LastRead ==
  \/ pc \in {"Loop", "CheckStop"} /\ frameNumber >= numFrames
  \/ pc = "Publish" /\ frameNumber + 1 >= numFrames

(***************************************************************************)
(* The frames that hold counts are those the detector was programmed for;  *)
(* from the last read-out on, those NDArrayCounter counts.                 *)
(***************************************************************************)
MemoryAccounted ==
  /\ old = {}
  /\ Pending => fresh \subseteq 0 .. hwLimit - 1
  /\ LastRead \/ ~Pending => fresh \subseteq 0 .. ndCounter - 1

CleanInv == NeverStopped /\ RunAsProgrammed /\ AtRest /\ MemoryAccounted

LEMMA CleanInit == MemoryInit => CleanInv
  BY DEF MemoryInit, Init, CleanInv, NeverStopped, RunAsProgrammed, AtRest,
         MemoryAccounted, LastRead, Pending

(***************************************************************************)
(* What the client rules of CleanRuns amount to: whatever touches the      *)
(* detector happens while no acquisition is pending.                       *)
(***************************************************************************)
LEMMA NotPending ==
  ASSUME CleanRuns, AcquireReadback
  PROVE  /\ (AcquireOn \/ AcquireOnIgnored) => ~Pending
         /\ (ConnectRefused \/ Connect \/ Disconnect) => ~Pending
         /\ SetNumImages => ~Pending
         /\ ~AcquireOnHalfDone /\ ~AllocFails
  BY DEF CleanRuns, AcquireReadback, AcquireOn, AcquireOnIgnored, ConnectRefused,
         Connect, Disconnect, SetNumImages, AcquireOnHalfDone, AllocFails, Busy

(* A start is refused only without a handle, and then changes no detector. *)
LEMMA RefusedTouchesNothing ==
  ASSUME CleanRuns, AcquireOnRefused
  PROVE  /\ ~handleOk /\ UNCHANGED <<device, task, events, numImages, adAcquire>>
         /\ \A outcome \in EraseOutcomes \ {"off"} :
              Erasing(outcome) => outcome = "fail" /\ ndCounter' = ndCounter
  BY DEF CleanRuns, AcquireOnRefused, MayFail, Erasing, EraseOutcomes

(***************************************************************************)
(* The settings handlers report a status and change nothing else.          *)
(***************************************************************************)
LEMMA ReportsOnly ==
  ASSUME SetSavePath \/ SetWindow \/ SetTriggerMode \/ SaveSettings \/ RestoreSettings
  PROVE  UNCHANGED <<adAcquire, numImages, ndCounter, frameCount, connected,
                     events, device, task, history>>
  BY DEF SetSavePath, SetWindow, SetTriggerMode, SaveSettings, RestoreSettings, Report

LEMMA NeverStoppedStep ==
  ASSUME CleanRuns
  PROVE  NeverStopped /\ [MemoryNext]_<<vars, memory>> => NeverStopped'
  <1> SUFFICES ASSUME NeverStopped, [MemoryNext]_<<vars, memory>> PROVE NeverStopped'
    OBVIOUS
  <1> USE CleanRuns DEF NeverStopped, GoTo
  <1>1. CASE EraseMemory \/ StartMemory
    BY <1>1 DEF EraseMemory, Erase, StartMemory, AcquireOn, AcquireOnHalfDone, HistogramStart
  <1>2. CASE RefusedMemory
    BY <1>2, RefusedTouchesNothing DEF RefusedMemory
  <1>3. CASE FrameMemory \/ ConnectMemory
    BY <1>3 DEF FrameMemory, HwFrame, ConnectMemory, Connect
  <1>4. CASE Elsewhere
    <2>1. CASE AcquireOnIgnored \/ StopRequest \/ SetNumImages \/ ConnectRefused \/ Disconnect
      BY <2>1 DEF AcquireOnIgnored, StopRequest, SetNumImages, ConnectRefused, Disconnect, CleanRuns
    <2>2. CASE SetSavePath \/ SetWindow \/ SetTriggerMode \/ SaveSettings \/ RestoreSettings
      BY <2>2, ReportsOnly
    <2>3. CASE DataTask
      <3>1. CASE CheckStale \/ WaitStart \/ Begin \/ Snapshot \/ Poll \/ Alloc \/ AllocFails
        BY <3>1 DEF CheckStale, WaitStart, Begin, Snapshot, Poll, Alloc, AllocFails
      <3>2. CASE Read \/ Publish \/ NoStop \/ TakeStop \/ HistBusy \/ StopParams \/ Finish
        BY <3>2 DEF Read, Publish, NoStop, TakeStop, HistBusy, StopParams, Finish, EndSession
      <3>3. QED
        BY <2>3, <3>1, <3>2 DEF DataTask
    <2>4. CASE HwQuiesce
      BY <2>4 DEF HwQuiesce
    <2>5. QED
      BY <1>4, <2>1, <2>2, <2>3, <2>4 DEF Elsewhere
  <1>5. CASE UNCHANGED <<vars, memory>>
    BY <1>5
  <1>6. QED
    BY <1>1, <1>2, <1>3, <1>4, <1>5 DEF MemoryNext

LEMMA RunStep ==
  ASSUME CleanRuns
  PROVE  NeverStopped /\ RunAsProgrammed /\ AtRest /\ FrameInv /\ ValueTypes
         /\ AcquireReadback /\ [MemoryNext]_<<vars, memory>>
           => RunAsProgrammed' /\ AtRest'
  <1> SUFFICES ASSUME NeverStopped, RunAsProgrammed, AtRest, FrameInv, ValueTypes,
                      AcquireReadback, [MemoryNext]_<<vars, memory>>
               PROVE RunAsProgrammed' /\ AtRest'
    OBVIOUS
  <1> USE CleanRuns DEF RunAsProgrammed, AtRest, Pending, Programmed, ValueTypes, GoTo
  <1>a. /\ (AcquireOn \/ AcquireOnIgnored) => ~Pending
        /\ (ConnectRefused \/ Connect \/ Disconnect) => ~Pending
        /\ SetNumImages => ~Pending
        /\ ~AcquireOnHalfDone /\ ~AllocFails
    BY NotPending
  <1>1. CASE EraseMemory
    BY <1>1 DEF EraseMemory, Erase
  <1>2. CASE StartMemory
    <2>1. AcquireOn
      BY <1>2, <1>a DEF StartMemory
    <2>2. hwLimit' = Programmed /\ hwFrames' = 0 /\ handleOk' = handleOk /\ handleOk
      BY <2>1 DEF AcquireOn, HistogramStart, ItfgLimits, CleanRuns
    <2>3. startEvent' /\ UNCHANGED <<numImages, task>>
      BY <2>1 DEF AcquireOn
    <2>4. QED
      BY <1>a, <2>1, <2>2, <2>3
  <1>3. CASE RefusedMemory
    BY <1>3, RefusedTouchesNothing DEF RefusedMemory
  <1>4. CASE FrameMemory
    BY <1>4 DEF FrameMemory, HwFrame, CleanRuns
  <1>5. CASE ConnectMemory
    BY <1>5, <1>a DEF ConnectMemory, Connect
  <1>6. CASE Elsewhere
    <2>1. CASE AcquireOnIgnored \/ ConnectRefused \/ Disconnect
      BY <2>1, <1>a DEF AcquireOnIgnored, ConnectRefused, Disconnect
    <2>2. CASE StopRequest
      BY <2>2 DEF StopRequest, CleanRuns
    <2>3. CASE SetNumImages
      BY <2>3, <1>a DEF SetNumImages
    <2>4. CASE SetSavePath \/ SetWindow \/ SetTriggerMode \/ SaveSettings \/ RestoreSettings
      BY <2>4, ReportsOnly
    <2>5. CASE DataTask
      <3>1. CASE CheckStale \/ WaitStart \/ Begin
        BY <3>1 DEF CheckStale, WaitStart, Begin
      <3>2. CASE Snapshot
        BY <3>2 DEF Snapshot, FrameInv, FreshCount
      <3>3. CASE Poll
        BY <3>3 DEF Poll
      <3>4. CASE Alloc \/ Read
        BY <3>4 DEF Alloc, Read
      <3>5. CASE Publish
        <4>1. frameNumber < hwFrames
          BY <3>5 DEF Publish, FrameInv, ReadBehindDetector
        <4>2. frameNumber' <= hwFrames'
          BY <4>1, <3>5 DEF Publish
        <4>3. QED
          BY <4>2, <3>5 DEF Publish
      <3>6. CASE NoStop \/ TakeStop \/ HistBusy \/ StopParams
        BY <3>6 DEF NoStop, TakeStop, HistBusy, StopParams, NeverStopped
      <3>7. CASE Finish
        BY <3>7 DEF Finish, EndSession, CleanRuns
      <3>8. QED
        BY <2>5, <1>a, <3>1, <3>2, <3>3, <3>4, <3>5, <3>6, <3>7 DEF DataTask
    <2>6. CASE HwQuiesce
      BY <2>6 DEF HwQuiesce, NeverStopped
    <2>7. QED
      BY <1>6, <2>1, <2>2, <2>3, <2>4, <2>5, <2>6 DEF Elsewhere
  <1>7. CASE UNCHANGED <<vars, memory>>
    BY <1>7
  <1>8. QED
    BY <1>1, <1>2, <1>3, <1>4, <1>5, <1>6, <1>7 DEF MemoryNext

(***************************************************************************)
(* The memory.  EraseRange reaches at least as far as NDArrayCounter.      *)
(***************************************************************************)
LEMMA EraseReachesCounter ==
  ASSUME ValueTypes
  PROVE  /\ EraseRange \in Nat
         /\ ndCounter <= EraseRange
  BY MaxFramesAssumption DEF ValueTypes, EraseRange, InUse

LEMMA EraseClears ==
  ASSUME ValueTypes, NEW S, S \subseteq 0 .. ndCounter - 1, NEW outcome, outcome = "ok"
  PROVE  S \ Cleared(outcome) = {}
  <1>1. EraseRange \in Nat /\ ndCounter <= EraseRange /\ ndCounter \in Nat
    BY EraseReachesCounter DEF ValueTypes
  <1>2. QED
    BY <1>1 DEF Cleared

LEMMA CountingInRange ==
  ASSUME NEW state, NEW frame \in Nat, NEW limit \in Nat
  PROVE  Counting(state, frame, limit) \subseteq 0 .. limit - 1
  BY DEF Counting

(***************************************************************************)
(* A step that moves neither the detector, the memory nor NDArrayCounter,  *)
(* and leaves the data task where it is.                                   *)
(***************************************************************************)
LEMMA AccountKept ==
  ASSUME MemoryAccounted,
         UNCHANGED <<memory, ndCounter, hwLimit, task, startEvent>>
  PROVE  MemoryAccounted'
  BY DEF MemoryAccounted, LastRead, Pending

LEMMA MemoryStep ==
  ASSUME CleanRuns
  PROVE  CleanInv /\ RunAsProgrammed' /\ FrameInv /\ ValueTypes /\ ValueTypes'
         /\ AcquireReadback /\ [MemoryNext]_<<vars, memory>>
           => MemoryAccounted'
  <1> SUFFICES ASSUME CleanInv, RunAsProgrammed', FrameInv, ValueTypes, ValueTypes',
                      AcquireReadback, [MemoryNext]_<<vars, memory>>
               PROVE MemoryAccounted'
    OBVIOUS
  <1> USE CleanRuns
  <1>a. /\ (AcquireOn \/ AcquireOnIgnored) => ~Pending
        /\ (ConnectRefused \/ Connect \/ Disconnect) => ~Pending
        /\ SetNumImages => ~Pending
        /\ ~AcquireOnHalfDone /\ ~AllocFails
    BY NotPending
  <1>b. NeverStopped /\ RunAsProgrammed /\ AtRest /\ MemoryAccounted
    BY DEF CleanInv
  <1>c. LastRead \/ ~Pending => hw = "idle" \/ hwFrames >= hwLimit
    <2>1. LastRead => pc \in Collecting \ {"Snapshot"} /\ pc \notin {"Alloc", "Read"}
      BY DEF LastRead
    <2>2. LastRead => hwLimit = Programmed /\ numFrames = numImages
      BY <1>b, <2>1 DEF RunAsProgrammed, Pending
    <2>3. LastRead => numFrames <= hwFrames /\ 0 <= hwFrames
      BY <1>b DEF LastRead, RunAsProgrammed, FrameInv, ReadBehindDetector, ValueTypes
    <2>4. LastRead => hwFrames >= hwLimit
      BY <2>2, <2>3 DEF Programmed, ValueTypes, CleanRuns
    <2>5. QED
      BY <1>b, <2>4 DEF AtRest
  <1>1. CASE EraseMemory
    <2>1. PICK outcome \in EraseOutcomes \ {"off"} :
            /\ Erasing(outcome)
            /\ old'   = old \ Cleared(outcome)
            /\ fresh' = (fresh \ Cleared(outcome)) \union Counting(hw, hwFrames, hwLimit)
      BY <1>1 DEF EraseMemory
    <2>2. UNCHANGED <<device, task, startEvent>>
      BY <1>1 DEF EraseMemory, Erase
    <2>3. Pending => fresh' \subseteq 0 .. hwLimit - 1
      BY <2>1, <1>b DEF Counting, ValueTypes, MemoryAccounted
    <2>4. ASSUME LastRead \/ ~Pending PROVE fresh' \subseteq 0 .. ndCounter' - 1
      <3>1. Counting(hw, hwFrames, hwLimit) = {}
        BY <1>c, <2>4 DEF Counting, ValueTypes
      <3>2. fresh \subseteq 0 .. ndCounter - 1
        BY <1>b, <2>4 DEF MemoryAccounted
      <3>3. CASE outcome = "ok"
        BY <3>1, <3>2, <3>3, <2>1, EraseClears
      <3>4. CASE outcome = "fail"
        BY <3>1, <3>2, <3>4, <2>1 DEF Cleared, Erasing
      <3>5. QED
        BY <3>3, <3>4 DEF EraseOutcomes
    <2>5. QED
      BY <1>b, <2>1, <2>2, <2>3, <2>4 DEF MemoryAccounted, LastRead, Pending
  <1>2. CASE StartMemory
    <2>1. AcquireOn /\ ~Pending
      BY <1>2, <1>a DEF StartMemory
    <2>2. StartOutcomes = {"ok"}
      BY <2>1 DEF StartOutcomes, EraseOutcomes, MayFail, AcquireOn, CleanRuns
    <2>3. old' = (old \union fresh) \ Cleared("ok")
      BY <1>2, <2>2 DEF StartMemory
    <2>4. old' = {}
      BY <2>3, <1>b, <2>1, EraseClears DEF MemoryAccounted
    <2>5. fresh' \subseteq 0 .. hwLimit' - 1
      <3>1. hwFrames' = 0 /\ hwLimit' \in Nat
        BY <2>1 DEF AcquireOn, HistogramStart, ValueTypes
      <3>2. fresh' = Counting(hw', hwFrames', hwLimit')
        BY <1>2 DEF StartMemory
      <3>3. QED
        BY <3>1, <3>2, CountingInRange
    <2>6. Pending' /\ ~LastRead'
      BY <2>1 DEF AcquireOn, Pending, LastRead
    <2>7. QED
      BY <2>4, <2>5, <2>6 DEF MemoryAccounted
  <1>3. CASE RefusedMemory
    <2>1. AcquireOnRefused
      BY <1>3 DEF RefusedMemory
    <2>2. /\ UNCHANGED <<device, task, events, numImages, adAcquire>>
          /\ \A outcome \in EraseOutcomes \ {"off"} :
               Erasing(outcome) => outcome = "fail" /\ ndCounter' = ndCounter
      BY <2>1, RefusedTouchesNothing
    <2>3. PICK outcome \in StartOutcomes :
            /\ Erasing(outcome)
            /\ old'   = old \ Cleared(outcome)
            /\ fresh' = (fresh \ Cleared(outcome)) \union Counting(hw, hwFrames, hwLimit)
      BY <1>3 DEF RefusedMemory
    <2>4. outcome = "fail" /\ ndCounter' = ndCounter
      BY <2>2, <2>3 DEF StartOutcomes, CleanRuns
    <2>5. old' = old /\ fresh' = fresh \union Counting(hw, hwFrames, hwLimit)
      BY <2>3, <2>4 DEF Cleared
    <2>6. Pending => fresh' \subseteq 0 .. hwLimit - 1
      BY <2>5, <1>b DEF Counting, ValueTypes, MemoryAccounted
    <2>7. LastRead \/ ~Pending => fresh' = fresh
      BY <2>5, <1>c DEF Counting, ValueTypes
    <2>8. QED
      BY <1>b, <2>2, <2>4, <2>5, <2>6, <2>7 DEF MemoryAccounted, LastRead, Pending
  <1>4. CASE FrameMemory
    <2>1. HwFrame /\ fresh' = fresh \union Counting(hw', hwFrames', hwLimit) /\ old' = old
      BY <1>4 DEF FrameMemory
    <2>2. hw = "running" /\ hwFrames < hwLimit /\ UNCHANGED <<params, events, hwLimit, task>>
      BY <2>1 DEF HwFrame
    <2>3. Pending /\ ~LastRead
      BY <2>2, <1>c DEF ValueTypes
    <2>4. Counting(hw', hwFrames', hwLimit) \subseteq 0 .. hwLimit - 1
      BY <2>2 DEF Counting, ValueTypes
    <2>5. QED
      BY <1>b, <2>1, <2>2, <2>3, <2>4 DEF MemoryAccounted, LastRead, Pending
  <1>5. CASE ConnectMemory
    BY <1>5 DEF ConnectMemory, MemoryAccounted
  <1>6. CASE Elsewhere
    <2>1. CASE AcquireOnIgnored \/ StopRequest \/ SetNumImages \/ ConnectRefused \/ Disconnect
      <3>1. UNCHANGED <<memory, ndCounter, hwLimit, task, startEvent>>
        BY <1>6, <2>1 DEF Elsewhere, AcquireOnIgnored, StopRequest, SetNumImages,
                          ConnectRefused, Disconnect, CleanRuns
      <3>2. QED
        BY <3>1, <1>b, AccountKept
    <2>2. CASE SetSavePath \/ SetWindow \/ SetTriggerMode \/ SaveSettings \/ RestoreSettings
      <3>1. UNCHANGED <<memory, ndCounter, hwLimit, task, startEvent>>
        BY <1>6, <2>2, ReportsOnly DEF Elsewhere
      <3>2. QED
        BY <3>1, <1>b, AccountKept
    <2>3. CASE HwQuiesce
      BY <1>b, <2>3 DEF HwQuiesce, NeverStopped
    <2>4. CASE DataTask
      <3> USE DEF GoTo
      <3>0. UNCHANGED memory
        BY <1>6 DEF Elsewhere
      <3>1. CASE CheckStale \/ WaitStart \/ Begin
        BY <1>b, <3>0, <3>1 DEF CheckStale, WaitStart, Begin, MemoryAccounted, LastRead, Pending
      <3>2. CASE Snapshot
        <4>1. pc = "Snapshot" /\ UNCHANGED <<ndCounter, hwLimit>> /\ pc' = "Loop"
          BY <3>2 DEF Snapshot
        <4>2. hwLimit = Programmed /\ numFrames' = numImages /\ frameNumber' = 0
          BY <1>b, <3>2 DEF Snapshot, RunAsProgrammed, Pending, FrameInv, FreshCount
        <4>3. fresh \subseteq 0 .. hwLimit - 1
          BY <1>b, <4>1 DEF MemoryAccounted, Pending
        <4>4. LastRead' => hwLimit = 0
          BY <4>1, <4>2 DEF LastRead, Programmed, ValueTypes, CleanRuns
        <4>5. LastRead' => fresh = {}
          BY <4>3, <4>4
        <4>6. Pending'
          BY <4>1 DEF Pending
        <4>7. QED
          BY <1>b, <3>0, <4>1, <4>3, <4>5, <4>6 DEF MemoryAccounted
      <3>3. CASE Poll
        BY <1>b, <3>0, <3>3 DEF Poll, MemoryAccounted, LastRead, Pending
      <3>4. CASE Alloc
        BY <1>b, <3>0, <3>4 DEF Alloc, MemoryAccounted, LastRead, Pending
      <3>5. CASE Read
        <4>1. pc = "Read" /\ pc' = "Publish" /\ UNCHANGED <<hwLimit, numFrames, numImages, frameNumber>>
          BY <3>5 DEF Read
        <4>2. handleOk /\ hwLimit = Programmed /\ numFrames = numImages
          BY <1>b, <4>1 DEF RunAsProgrammed, Pending
        <4>3. ndCounter' = frameNumber + 1
          BY <3>5, <4>2 DEF Read, MayFail, CleanRuns
        <4>4. fresh \subseteq 0 .. hwLimit - 1
          BY <1>b, <4>1 DEF MemoryAccounted, Pending
        <4>5. LastRead' => hwLimit <= ndCounter'
          BY <4>1, <4>2, <4>3 DEF LastRead, Programmed, ValueTypes, CleanRuns
        <4>6. LastRead' => fresh \subseteq 0 .. ndCounter' - 1
          BY <4>3, <4>4, <4>5 DEF ValueTypes
        <4>7. Pending'
          BY <4>1 DEF Pending
        <4>8. QED
          BY <1>b, <3>0, <4>1, <4>4, <4>6, <4>7 DEF MemoryAccounted
      <3>6. CASE Publish
        <4>1. pc = "Publish" /\ pc' = "CheckStop" /\ frameNumber' = frameNumber + 1
              /\ UNCHANGED <<hwLimit, numFrames, ndCounter>>
          BY <3>6 DEF Publish
        <4>2. LastRead' => LastRead
          BY <4>1 DEF LastRead
        <4>3. Pending /\ Pending'
          BY <4>1 DEF Pending
        <4>4. QED
          BY <1>b, <3>0, <4>1, <4>2, <4>3 DEF MemoryAccounted
      <3>7. CASE NoStop
        BY <1>b, <3>0, <3>7 DEF NoStop, MemoryAccounted, LastRead, Pending
      <3>8. CASE TakeStop \/ HistBusy \/ StopParams
        BY <1>b, <3>8 DEF TakeStop, HistBusy, StopParams, NeverStopped
      <3>9. CASE Finish
        <4>1. LastRead /\ pc' = "CheckStale" /\ UNCHANGED <<hwLimit, ndCounter, startEvent>>
          BY <3>9 DEF Finish, EndSession, LastRead
        <4>2. ~startEvent /\ ~LastRead'
          BY <4>1 DEF AcquireReadback, LastRead
        <4>3. ~Pending'
          BY <4>1, <4>2 DEF Pending
        <4>4. QED
          BY <1>b, <3>0, <4>1, <4>2, <4>3 DEF MemoryAccounted
      <3>10. QED
        BY <2>4, <1>a, <3>1, <3>2, <3>3, <3>4, <3>5, <3>6, <3>7, <3>8, <3>9 DEF DataTask
    <2>5. QED
      BY <1>6, <2>1, <2>2, <2>3, <2>4 DEF Elsewhere
  <1>7. CASE UNCHANGED <<vars, memory>>
    BY <1>7, <1>b, AccountKept
  <1>8. QED
    BY <1>1, <1>2, <1>3, <1>4, <1>5, <1>6, <1>7 DEF MemoryNext

LEMMA CleanInvariant ==
  ASSUME CleanRuns
  PROVE  MemorySpec => [](CleanInv /\ ValueTypes)
  <1>1. OneRun /\ OneStart
    BY DEF CleanRuns, OneRun, OneStart
  <1>2. FlagTypes /\ ValueInv => ValueTypes
    BY DEF ValueInv
  <1>3. MemorySpec => [](ValueTypes /\ FrameInv /\ AcquireReadback)
    BY <1>1, <1>2, MemoryIsEngine, TypeInvariant, FrameInvariant, ReadbackIsHonest, PTL
  <1>4. CleanInv /\ ValueTypes /\ ValueTypes' /\ FrameInv /\ AcquireReadback
        /\ [MemoryNext]_<<vars, memory>> => CleanInv'
    BY NeverStoppedStep, RunStep, MemoryStep DEF CleanInv
  <1>5. QED
    BY <1>3, <1>4, CleanInit, PTL DEF MemorySpec

(***************************************************************************)
(* A frame that is read holds the counts of its own acquisition only.      *)
(***************************************************************************)
THEOREM FramesArePure ==
  ASSUME CleanRuns
  PROVE  MemorySpec => []PureFrames
  <1>1. CleanInv => PureFrames
    BY DEF CleanInv, MemoryAccounted, PureFrames
  <1>2. QED
    BY <1>1, CleanInvariant, PTL

(***************************************************************************)
(* Between two acquisitions NDArrayCounter and ADNumImages account for     *)
(* every frame of the memory that holds counts.                            *)
(***************************************************************************)
THEOREM EraseReachesAll ==
  ASSUME CleanRuns
  PROVE  MemorySpec => []EraseIsEnough
  <1>1. CleanInv /\ ValueTypes => EraseIsEnough
    <2> SUFFICES ASSUME CleanInv, ValueTypes, ~Pending
                 PROVE  old \union fresh \subseteq 0 .. EraseRange - 1
      BY DEF EraseIsEnough
    <2>1. old = {} /\ fresh \subseteq 0 .. ndCounter - 1
      BY DEF CleanInv, MemoryAccounted
    <2>2. EraseRange \in Nat /\ ndCounter <= EraseRange /\ ndCounter \in Nat
      BY EraseReachesCounter DEF ValueTypes
    <2>3. QED
      BY <2>1, <2>2
  <1>2. QED
    BY <1>1, CleanInvariant, PTL
=============================================================================
