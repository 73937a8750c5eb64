------------------------ MODULE XspressSessionProofs ------------------------
(***************************************************************************)
(* The proof that XspressAcquire implements AcqSession (its safety part).  *)
(***************************************************************************)
EXTENDS XspressSession, XspressAcquireProofs

USE DEF params, events, device, task, history, vars,
        Status, Collecting, Stopping, InSession, TaskSteps

(* The clients of the refinement: they also set ADNumImages between runs.  *)
CourteousRun == OneRun /\ "SetWhenDone" \in ClientRules

(***************************************************************************)
(* numFrames was copied from ADNumImages without the lock; the copy stays  *)
(* current because ADNumImages then stays put.                             *)
(***************************************************************************)
SnapshotIsCurrent == pc \in InSession \ {"Snapshot"} => numFrames = numImages

LEMMA SnapshotStep ==
  ASSUME CourteousRun
  PROVE  SnapshotIsCurrent /\ AcquireReadback /\ [Next]_vars => SnapshotIsCurrent'
  <1> SUFFICES ASSUME SnapshotIsCurrent, AcquireReadback, [Next]_vars
               PROVE SnapshotIsCurrent'
    OBVIOUS
  <1> USE DEF SnapshotIsCurrent, GoTo
  <1>1. CASE Client
    <2>1. CASE Erase \/ AcquireOnRefused \/ AcquireOnIgnored
      BY <2>1 DEF Erase, AcquireOnRefused, AcquireOnIgnored
    <2>2. CASE AcquireOnHalfDone \/ AcquireOn
      BY <2>2 DEF AcquireOnHalfDone, AcquireOn
    <2>3. CASE AcquireOff \/ AcquireOffIgnored
      BY <2>3 DEF AcquireOff, AcquireOffIgnored
    <2>4. CASE SetNumImages
      <3>1. ~adAcquire
        BY <2>4, CourteousRun DEF SetNumImages, CourteousRun, Busy
      <3>2. pc' \notin InSession
        BY <2>4, <3>1 DEF SetNumImages, AcquireReadback, Pending
      <3>3. QED
        BY <3>2
    <2>5. CASE ConnectRefused \/ Connect \/ Disconnect
      BY <2>5 DEF ConnectRefused, Connect, Disconnect
    <2>6. CASE SetSavePath \/ SetWindow \/ SetTriggerMode \/ SaveSettings \/ RestoreSettings
      BY <2>6 DEF SetSavePath, SetWindow, SetTriggerMode, SaveSettings, RestoreSettings, Report
    <2>7. QED
      BY <1>1, <2>1, <2>2, <2>3, <2>4, <2>5, <2>6 DEF Client
  <1>2. CASE DataTask
    <2>1. CASE CheckStale \/ WaitStart \/ Begin \/ Snapshot
      BY <2>1 DEF CheckStale, WaitStart, Begin, Snapshot
    <2>2. CASE Poll
      BY <2>2 DEF Poll
    <2>3. CASE Alloc \/ AllocFails \/ Read \/ Publish
      BY <2>3 DEF Alloc, AllocFails, Read, Publish
    <2>4. CASE NoStop \/ TakeStop \/ HistBusy
      BY <2>4 DEF NoStop, TakeStop, HistBusy
    <2>5. CASE StopParams \/ Finish
      BY <2>5 DEF StopParams, Finish, EndSession
    <2>6. QED
      BY <1>2, <2>1, <2>2, <2>3, <2>4, <2>5 DEF DataTask
  <1>3. CASE Detector
    BY <1>3 DEF Detector, HwFrame, HwQuiesce
  <1>4. CASE UNCHANGED vars
    BY <1>4
  <1>5. QED
    BY <1>1, <1>2, <1>3, <1>4 DEF Next

(* Everything the step of the refinement relies on. *)
RefineInv ==
  /\ AcquireReadback /\ FrameInv /\ StopInv /\ SnapshotIsCurrent
  /\ ValueInv

LEMMA RefineInvariant ==
  ASSUME CourteousRun
  PROVE  Spec => []RefineInv
  <1>1. OneRun /\ OneStart
    BY CourteousRun DEF CourteousRun, OneRun
  <1>2. Spec => []AcquireReadback
    BY <1>1, ReadbackIsHonest
  <1>3. Spec => []FrameInv
    BY <1>1, FrameInvariant
  <1>4. Spec => []StopInv
    BY StopInvInit, StopInvStep, PTL DEF Spec
  <1>5. Init => SnapshotIsCurrent
    BY DEF Init, SnapshotIsCurrent
  <1>6. Spec => []SnapshotIsCurrent
    BY <1>2, <1>5, SnapshotStep, PTL DEF Spec
  <1>7. QED
    BY <1>2, <1>3, <1>4, <1>6, TypeInvariant, PTL DEF RefineInv

LEMMA RefineInit == Init => Session!Init
  BY DEF Init, Session!Init, phaseBar, framesBar, Pending

LEMMA RefineStep ==
  ASSUME CourteousRun
  PROVE  RefineInv /\ [Next]_vars => [Session!Next]_Session!vars
  <1> SUFFICES ASSUME RefineInv, [Next]_vars
               PROVE  Session!Next \/ UNCHANGED Session!vars
    OBVIOUS
  <1> USE DEF RefineInv, Session!vars, phaseBar, framesBar, Pending, GoTo
  <1>1. CASE Client
    <2>1. CASE Erase \/ AcquireOnRefused
      BY <2>1 DEF Erase, AcquireOnRefused
    <2>2. CASE AcquireOnIgnored
      <3>1. adAcquire' = adAcquire
        BY <2>2 DEF AcquireOnIgnored, StopInv, AcquireIsASession, AcquireReadback
      <3>2. QED
        BY <2>2, <3>1 DEF AcquireOnIgnored
    <2>3. CASE AcquireOnHalfDone
      BY <2>3 DEF AcquireOnHalfDone
    <2>4. CASE AcquireOn
      <3>1. ~adAcquire
        BY <2>4, CourteousRun DEF AcquireOn, CourteousRun, OneRun, OneStart, Busy
      <3>2. Session!Start
        BY <2>4, <3>1 DEF AcquireOn, AcquireReadback, Session!Start
      <3>3. QED
        BY <3>2 DEF Session!Next
    <2>5. CASE AcquireOff
      <3>1. Session!AskStop
        BY <2>5 DEF AcquireOff, StopInv, AcquireIsASession, Session!AskStop
      <3>2. QED
        BY <3>1 DEF Session!Next
    <2>6. CASE AcquireOffIgnored
      <3>1. Session!AskStop
        BY <2>6 DEF AcquireOffIgnored, Session!AskStop
      <3>2. QED
        BY <3>1 DEF Session!Next
    <2>7. CASE SetNumImages
      <3>1. ~adAcquire
        BY <2>7, CourteousRun DEF SetNumImages, CourteousRun, Busy
      <3>2. Session!Configure
        BY <2>7, <3>1 DEF SetNumImages, AcquireReadback, Session!Configure
      <3>3. QED
        BY <3>2 DEF Session!Next
    <2>8. CASE ConnectRefused \/ Connect \/ Disconnect
      BY <2>8 DEF ConnectRefused, Connect, Disconnect
    <2>9. CASE SetSavePath \/ SetWindow \/ SetTriggerMode \/ SaveSettings \/ RestoreSettings
      BY <2>9 DEF SetSavePath, SetWindow, SetTriggerMode, SaveSettings, RestoreSettings, Report
    <2>10. QED
      BY <1>1, <2>1, <2>2, <2>3, <2>4, <2>5, <2>6, <2>7, <2>8, <2>9 DEF Client
  <1>2. CASE DataTask
    <2>1. CASE CheckStale \/ WaitStart
      BY <2>1 DEF CheckStale, WaitStart
    <2>2. CASE Begin
      <3>1. Session!Collect
        BY <2>2 DEF Begin, FrameInv, FreshCount, Session!Collect
      <3>2. QED
        BY <3>1 DEF Session!Next
    <2>3. CASE Snapshot \/ NoStop \/ TakeStop
      BY <2>3 DEF Snapshot, NoStop, TakeStop
    <2>4. CASE Poll
      BY <2>4 DEF Poll
    <2>5. CASE Alloc \/ AllocFails
      <3>1. Alloc
        BY <2>5, CourteousRun DEF AllocFails, CourteousRun, OneRun, OneStart
      <3>2. QED
        BY <3>1 DEF Alloc
    <2>6. CASE Read
      BY <2>6 DEF Read
    <2>7. CASE Publish
      <3>1. frameNumber < numImages
        BY <2>7 DEF Publish, SnapshotIsCurrent, ValueInv, FrameInRange
      <3>2. Session!Deliver
        BY <2>7, <3>1 DEF Publish, Session!Deliver
      <3>3. QED
        BY <3>2 DEF Session!Next
    <2>8. CASE HistBusy
      BY <2>8 DEF HistBusy
    <2>9. CASE StopParams
      <3>1. Session!Abort
        BY <2>9 DEF StopParams, EndSession, StopInv, AbortedOnlyIfAsked, AcquireReadback,
                    Session!Abort, Session!End
      <3>2. QED
        BY <3>1 DEF Session!Next
    <2>10. CASE Finish
      <3>1. Session!Complete
        BY <2>10 DEF Finish, EndSession, SnapshotIsCurrent, AcquireReadback,
                     Session!Complete, Session!End
      <3>2. QED
        BY <3>1 DEF Session!Next
    <2>11. QED
      BY <1>2, <2>1, <2>2, <2>3, <2>4, <2>5, <2>6, <2>7, <2>8, <2>9, <2>10 DEF DataTask
  <1>3. CASE Detector
    BY <1>3 DEF Detector, HwFrame, HwQuiesce
  <1>4. CASE UNCHANGED vars
    BY <1>4
  <1>5. QED
    BY <1>1, <1>2, <1>3, <1>4 DEF Next

(***************************************************************************)
(* The driver keeps the promise of AcqSession to clients that start, set   *)
(* ADNumImages and connect only while ADAcquire reads 0.                   *)
(***************************************************************************)
THEOREM SessionIsImplemented ==
  ASSUME CourteousRun
  PROVE  Spec => ImplementsSession
  BY RefineInit, RefineStep, RefineInvariant, PTL
  DEF Spec, ImplementsSession, Session!Spec
=============================================================================
