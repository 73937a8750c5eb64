------------------------ MODULE XspressAcquireProofs ------------------------
(***************************************************************************)
(* Proofs of the safety properties of XspressAcquire.                      *)
(***************************************************************************)
EXTENDS XspressAcquire, TLAPS

USE DEF params, events, device, task, history, vars,
        Status, Collecting, Stopping, InSession, TaskSteps

(***************************************************************************)
(* Types.  TypeOK is not inductive: readFrame() stores frameNumber + 1, so *)
(* it must be known that a frame is only read below numFrames.             *)
(***************************************************************************)
FrameInRange == pc \in {"Alloc", "Read", "Publish"} => frameNumber < numFrames

LEMMA FlagsInit == Init => FlagTypes
  BY DEF Init, FlagTypes

LEMMA FlagsStep == FlagTypes /\ [Next]_vars => FlagTypes'
  <1> SUFFICES ASSUME FlagTypes, [Next]_vars PROVE FlagTypes'
    OBVIOUS
  <1> USE DEF FlagTypes
  <1>1. CASE Client
    <2>1. CASE Erase \/ AcquireOnIgnored \/ AcquireOnRefused \/ AcquireOnHalfDone
      BY <2>1 DEF Erase, AcquireOnIgnored, AcquireOnRefused, AcquireOnHalfDone
    <2>2. CASE AcquireOn \/ AcquireOff \/ AcquireOffIgnored \/ SetNumImages
      BY <2>2 DEF AcquireOn, AcquireOff, AcquireOffIgnored, SetNumImages
    <2>3. CASE ConnectRefused \/ Connect \/ Disconnect
      BY <2>3 DEF ConnectRefused, Connect, Disconnect
    <2>4. CASE SetSavePath \/ SetWindow \/ SetTriggerMode \/ SaveSettings \/ RestoreSettings
      BY <2>4 DEF SetSavePath, SetWindow, SetTriggerMode, SaveSettings, RestoreSettings, Report
    <2>5. QED
      BY <1>1, <2>1, <2>2, <2>3, <2>4 DEF Client
  <1>2. CASE DataTask
    <2>1. CASE CheckStale \/ WaitStart \/ Begin \/ Snapshot \/ Poll
      BY <2>1 DEF CheckStale, WaitStart, Begin, Snapshot, Poll
    <2>2. CASE Alloc \/ AllocFails \/ Read \/ Publish
      BY <2>2 DEF Alloc, AllocFails, Read, Publish
    <2>3. CASE NoStop \/ TakeStop \/ HistBusy \/ StopParams \/ Finish
      BY <2>3 DEF NoStop, TakeStop, HistBusy, StopParams, Finish, EndSession
    <2>4. QED
      BY <1>2, <2>1, <2>2, <2>3 DEF DataTask
  <1>3. CASE Detector
    BY <1>3 DEF Detector, HwFrame, HwQuiesce
  <1>4. CASE UNCHANGED vars
    BY <1>4
  <1>5. QED
    BY <1>1, <1>2, <1>3, <1>4 DEF Next

ValueInv == ValueTypes /\ FrameInRange

LEMMA ValuesInit == Init => ValueInv
  BY MaxFramesAssumption DEF Init, ValueInv, ValueTypes, FrameInRange

LEMMA ValuesClient == ValueInv /\ Client => ValueInv'
  <1> SUFFICES ASSUME ValueInv, Client PROVE ValueInv'
    OBVIOUS
  <1> USE MaxFramesAssumption, RequestsAssumption DEF ValueInv, ValueTypes, FrameInRange
  <1>1. CASE Erase
    BY <1>1 DEF Erase, Erasing
  <1>2. CASE AcquireOnIgnored
    BY <1>2 DEF AcquireOnIgnored
  <1>3. CASE AcquireOnRefused
    BY <1>3 DEF AcquireOnRefused, Erasing, Halted, ItfgLimits, Programmed
  <1>4. CASE AcquireOnHalfDone
    BY <1>4 DEF AcquireOnHalfDone, Erasing, HistogramStart, ItfgLimits, Programmed
  <1>5. CASE AcquireOn
    BY <1>5 DEF AcquireOn, Erasing, HistogramStart, ItfgLimits, Programmed
  <1>6. CASE AcquireOff
    BY <1>6 DEF AcquireOff, Halted
  <1>7. CASE AcquireOffIgnored
    BY <1>7 DEF AcquireOffIgnored
  <1>8. CASE SetNumImages
    BY <1>8 DEF SetNumImages
  <1>9. CASE ConnectRefused \/ Connect \/ Disconnect
    <2>1. CASE ConnectRefused
      BY <2>1 DEF ConnectRefused
    <2>2. CASE Connect
      BY <2>2 DEF Connect
    <2>3. CASE Disconnect
      BY <2>3 DEF Disconnect
    <2>4. QED
      BY <1>9, <2>1, <2>2, <2>3
  <1>10. CASE SetSavePath \/ SetWindow \/ SetTriggerMode \/ SaveSettings \/ RestoreSettings
    BY <1>10 DEF SetSavePath, SetWindow, SetTriggerMode, SaveSettings, RestoreSettings, Report
  <1>11. QED
    BY <1>1, <1>2, <1>3, <1>4, <1>5, <1>6, <1>7, <1>8, <1>9, <1>10 DEF Client

LEMMA ValuesDataTask == ValueInv /\ DataTask => ValueInv'
  <1> SUFFICES ASSUME ValueInv, DataTask PROVE ValueInv'
    OBVIOUS
  <1> USE MaxFramesAssumption DEF ValueInv, ValueTypes, FrameInRange, GoTo
  <1>1. CASE CheckStale \/ WaitStart \/ Begin \/ Snapshot
    BY <1>1 DEF CheckStale, WaitStart, Begin, Snapshot
  <1>2. CASE Poll
    BY <1>2 DEF Poll
  <1>3. CASE Alloc \/ AllocFails
    BY <1>3 DEF Alloc, AllocFails
  <1>4. CASE Read
    BY <1>4 DEF Read
  <1>5. CASE Publish
    BY <1>5 DEF Publish
  <1>6. CASE NoStop \/ TakeStop \/ HistBusy
    BY <1>6 DEF NoStop, TakeStop, HistBusy
  <1>7. CASE StopParams \/ Finish
    BY <1>7 DEF StopParams, Finish, EndSession
  <1>8. QED
    BY <1>1, <1>2, <1>3, <1>4, <1>5, <1>6, <1>7 DEF DataTask

LEMMA ValuesDetector == ValueInv /\ Detector => ValueInv'
  BY MaxFramesAssumption
  DEF ValueInv, ValueTypes, FrameInRange, Detector, HwFrame, HwQuiesce

LEMMA ValuesStep == ValueInv /\ [Next]_vars => ValueInv'
  <1>1. ValueInv /\ UNCHANGED vars => ValueInv'
    BY DEF ValueInv, ValueTypes, FrameInRange
  <1>2. QED
    BY <1>1, ValuesClient, ValuesDataTask, ValuesDetector DEF Next

LEMMA TypeInvariant == Spec => [](FlagTypes /\ ValueInv)
  BY FlagsInit, FlagsStep, ValuesInit, ValuesStep, PTL DEF Spec

(***************************************************************************)
(* Every variable of the driver stays in its type, whatever clients,       *)
(* detector and faults do; in particular no frame is read past the memory. *)
(***************************************************************************)
THEOREM TypeCorrect == Spec => []TypeOK
  <1>1. FlagTypes /\ ValueInv => TypeOK
    BY DEF TypeOK, ValueInv
  <1>2. QED
    BY <1>1, TypeInvariant, PTL

(***************************************************************************)
(* Stops.  AbortedOnlyIfAsked needs to know where a stop event can come    *)
(* from: a stop is accepted only while ADStatus is Acquire, which only     *)
(* setStartingParameters() sets and the end of the session takes back, so  *)
(* the event is full only during a session that was asked to stop or, left *)
(* over, between its end and the top of the loop.                          *)
(***************************************************************************)
AcquireIsASession == adStatus = "Acquire" => pc \in InSession

StopEventIsFresh ==
  stopEvent => \/ pc = "CheckStale"
               \/ pc \in InSession /\ stopAsked

StopInv == AcquireIsASession /\ StopEventIsFresh /\ AbortedOnlyIfAsked

LEMMA StopInvInit == Init => StopInv
  BY DEF Init, StopInv, AcquireIsASession, StopEventIsFresh, AbortedOnlyIfAsked

LEMMA StopInvStep == StopInv /\ [Next]_vars => StopInv'
  <1> SUFFICES ASSUME StopInv, [Next]_vars PROVE StopInv'
    OBVIOUS
  <1> USE DEF StopInv, AcquireIsASession, StopEventIsFresh, AbortedOnlyIfAsked, GoTo
  <1>1. CASE Client
    <2>1. CASE Erase \/ AcquireOnRefused
      BY <2>1 DEF Erase, AcquireOnRefused, Erasing
    <2>2. CASE AcquireOnIgnored
      BY <2>2 DEF AcquireOnIgnored
    <2>3. CASE AcquireOnHalfDone
      BY <2>3 DEF AcquireOnHalfDone, Erasing, HistogramStart
    <2>4. CASE AcquireOn
      BY <2>4 DEF AcquireOn, Erasing, HistogramStart
    <2>5. CASE AcquireOff
      BY <2>5 DEF AcquireOff
    <2>6. CASE AcquireOffIgnored
      BY <2>6 DEF AcquireOffIgnored
    <2>7. CASE SetNumImages
      BY <2>7 DEF SetNumImages
    <2>8. CASE ConnectRefused \/ Connect \/ Disconnect
      <3>1. CASE ConnectRefused
        BY <3>1 DEF ConnectRefused
      <3>2. CASE Connect
        BY <3>2 DEF Connect
      <3>3. CASE Disconnect
        BY <3>3 DEF Disconnect
      <3>4. QED
        BY <2>8, <3>1, <3>2, <3>3
    <2>9. CASE SetSavePath \/ SetWindow \/ SetTriggerMode \/ SaveSettings \/ RestoreSettings
      BY <2>9 DEF SetSavePath, SetWindow, SetTriggerMode, SaveSettings, RestoreSettings, Report
    <2>10. QED
      BY <1>1, <2>1, <2>2, <2>3, <2>4, <2>5, <2>6, <2>7, <2>8, <2>9 DEF Client
  <1>2. CASE DataTask
    <2>1. CASE CheckStale \/ WaitStart \/ Begin \/ Snapshot
      BY <2>1 DEF CheckStale, WaitStart, Begin, Snapshot
    <2>2. CASE Poll
      BY <2>2 DEF Poll
    <2>3. CASE Alloc \/ AllocFails
      BY <2>3 DEF Alloc, AllocFails
    <2>4. CASE Read \/ Publish
      BY <2>4 DEF Read, Publish
    <2>5. CASE NoStop \/ TakeStop
      BY <2>5 DEF NoStop, TakeStop
    <2>6. CASE HistBusy
      BY <2>6 DEF HistBusy
    <2>7. CASE StopParams \/ Finish
      BY <2>7 DEF StopParams, Finish, EndSession
    <2>8. QED
      BY <1>2, <2>1, <2>2, <2>3, <2>4, <2>5, <2>6, <2>7 DEF DataTask
  <1>3. CASE Detector
    BY <1>3 DEF Detector, HwFrame, HwQuiesce
  <1>4. CASE UNCHANGED vars
    BY <1>4
  <1>5. QED
    BY <1>1, <1>2, <1>3, <1>4 DEF Next

(***************************************************************************)
(* No acquisition ends as Aborted because of a stop meant for another one. *)
(***************************************************************************)
THEOREM AbortIsAsked == Spec => []AbortedOnlyIfAsked
  <1>1. StopInv => AbortedOnlyIfAsked
    BY DEF StopInv
  <1>2. QED
    BY <1>1, StopInvInit, StopInvStep, PTL DEF Spec

(***************************************************************************)
(* One acquisition at a time.  From here on the clients write ADAcquire :=  *)
(* 1 only while it reads 0, and an array is always found (an alloc failure *)
(* lets ADAcquire fall while the task goes on).                            *)
(***************************************************************************)
OneStart == "StartWhenDone" \in ClientRules /\ "alloc" \notin Faults

LEMMA ReadbackInit == Init => AcquireReadback
  BY DEF Init, AcquireReadback, Pending

LEMMA ReadbackStep ==
  ASSUME OneStart
  PROVE  AcquireReadback /\ [Next]_vars => AcquireReadback'
  <1> SUFFICES ASSUME AcquireReadback, [Next]_vars PROVE AcquireReadback'
    OBVIOUS
  <1> USE OneStart DEF OneStart, Busy, AcquireReadback, Pending, GoTo
  <1>1. CASE Client
    <2>1. CASE Erase \/ AcquireOnRefused \/ AcquireOnHalfDone \/ SetNumImages
      BY <2>1 DEF Erase, AcquireOnRefused, AcquireOnHalfDone, SetNumImages
    <2>2. CASE AcquireOnIgnored
      BY <2>2 DEF AcquireOnIgnored
    <2>3. CASE AcquireOn
      BY <2>3 DEF AcquireOn
    <2>4. CASE AcquireOff \/ AcquireOffIgnored
      BY <2>4 DEF AcquireOff, AcquireOffIgnored
    <2>5. CASE ConnectRefused \/ Connect \/ Disconnect
      BY <2>5 DEF ConnectRefused, Connect, Disconnect
    <2>6. CASE SetSavePath \/ SetWindow \/ SetTriggerMode \/ SaveSettings \/ RestoreSettings
      BY <2>6 DEF SetSavePath, SetWindow, SetTriggerMode, SaveSettings, RestoreSettings, Report
    <2>7. QED
      BY <1>1, <2>1, <2>2, <2>3, <2>4, <2>5, <2>6 DEF Client
  <1>2. CASE DataTask
    <2>1. CASE CheckStale \/ WaitStart \/ Begin \/ Snapshot
      BY <2>1 DEF CheckStale, WaitStart, Begin, Snapshot
    <2>2. CASE Poll
      BY <2>2 DEF Poll
    <2>3. CASE Alloc \/ AllocFails
      BY <2>3 DEF Alloc, AllocFails
    <2>4. CASE Read \/ Publish
      BY <2>4 DEF Read, Publish
    <2>5. CASE NoStop \/ TakeStop
      BY <2>5 DEF NoStop, TakeStop
    <2>6. CASE HistBusy
      BY <2>6 DEF HistBusy
    <2>7. CASE StopParams \/ Finish
      BY <2>7 DEF StopParams, Finish, EndSession
    <2>8. QED
      BY <1>2, <2>1, <2>2, <2>3, <2>4, <2>5, <2>6, <2>7 DEF DataTask
  <1>3. CASE Detector
    BY <1>3 DEF Detector, HwFrame, HwQuiesce
  <1>4. CASE UNCHANGED vars
    BY <1>4
  <1>5. QED
    BY <1>1, <1>2, <1>3, <1>4 DEF Next

(***************************************************************************)
(* ADAcquire reads 1 from the accepted start until the data task is done,  *)
(* and no start waits behind an acquisition.                               *)
(***************************************************************************)
THEOREM ReadbackIsHonest ==
  ASSUME OneStart
  PROVE  Spec => []AcquireReadback
  BY ReadbackInit, ReadbackStep, PTL DEF Spec

(***************************************************************************)
(* Frames.  With the detector restarted only between acquisitions (clients *)
(* also connect only while ADAcquire reads 0) the detector's count never   *)
(* falls behind what has been delivered, and the data task's count of      *)
(* frames is the detector run's.                                           *)
(***************************************************************************)
OneRun == OneStart /\ "ConnectWhenDone" \in ClientRules

FreshRun == startEvent \/ pc \in {"Begin", "Snapshot"} => delivered = 0

FreshCount == pc \in {"WaitStart", "Begin", "Snapshot"} => frameNumber = 0

ReadBehindDetector ==
  pc \in {"Alloc", "Read", "Publish"} => frameNumber < hwFrames

FrameInv ==
  /\ FreshRun /\ FreshCount /\ FramesInOrderOnce
  /\ ReadBehindDetector

LEMMA FrameInvInit == Init => FrameInv
  BY DEF Init, FrameInv, FreshRun, FreshCount, FramesInOrderOnce, ReadBehindDetector

LEMMA FrameInvStep ==
  ASSUME OneRun
  PROVE  FrameInv /\ ValueTypes /\ AcquireReadback /\ [Next]_vars => FrameInv'
  <1> SUFFICES ASSUME FrameInv, ValueTypes, AcquireReadback, [Next]_vars
               PROVE FrameInv'
    OBVIOUS
  <1> USE DEF FrameInv, FreshRun, FreshCount, FramesInOrderOnce, ReadBehindDetector, GoTo
  <1>a. adAcquire \/ ~Pending
    BY DEF AcquireReadback
  <1>1. CASE Client
    <2>1. CASE Erase \/ AcquireOnRefused \/ SetNumImages
      BY <2>1 DEF Erase, AcquireOnRefused, SetNumImages
    <2>2. CASE AcquireOnIgnored
      BY <2>2 DEF AcquireOnIgnored
    <2>3. CASE AcquireOnHalfDone
      BY <1>a, <2>3, OneRun DEF AcquireOnHalfDone, HistogramStart, OneRun, OneStart, Busy, Pending
    <2>4. CASE AcquireOn
      BY <1>a, <2>4, OneRun DEF AcquireOn, HistogramStart, OneRun, OneStart, Busy, Pending
    <2>5. CASE AcquireOff \/ AcquireOffIgnored
      BY <2>5 DEF AcquireOff, AcquireOffIgnored
    <2>6. CASE ConnectRefused \/ Disconnect
      BY <2>6 DEF ConnectRefused, Disconnect
    <2>7. CASE Connect
      BY <1>a, <2>7, OneRun DEF Connect, OneRun, Busy, Pending
    <2>8. CASE SetSavePath \/ SetWindow \/ SetTriggerMode \/ SaveSettings \/ RestoreSettings
      BY <2>8 DEF SetSavePath, SetWindow, SetTriggerMode, SaveSettings, RestoreSettings, Report
    <2>9. QED
      BY <1>1, <2>1, <2>2, <2>3, <2>4, <2>5, <2>6, <2>7, <2>8 DEF Client
  <1>2. CASE DataTask
    <2>1. CASE CheckStale
      BY <2>1 DEF CheckStale
    <2>2. CASE WaitStart \/ Begin \/ Snapshot
      BY <2>2 DEF WaitStart, Begin, Snapshot
    <2>3. CASE Poll
      BY <2>3 DEF Poll
    <2>4. CASE Alloc \/ AllocFails
      BY <2>4 DEF Alloc, AllocFails
    <2>5. CASE Read
      BY <2>5 DEF Read
    <2>6. CASE Publish
      BY <2>6 DEF Publish, AcquireReadback
    <2>7. CASE NoStop \/ TakeStop \/ HistBusy
      BY <2>7 DEF NoStop, TakeStop, HistBusy
    <2>8. CASE StopParams \/ Finish
      BY <2>8 DEF StopParams, Finish, EndSession
    <2>9. QED
      BY <1>2, <2>1, <2>2, <2>3, <2>4, <2>5, <2>6, <2>7, <2>8 DEF DataTask
  <1>3. CASE Detector
    BY <1>3 DEF Detector, HwFrame, HwQuiesce, ValueTypes
  <1>4. CASE UNCHANGED vars
    BY <1>4
  <1>5. QED
    BY <1>1, <1>2, <1>3, <1>4 DEF Next

LEMMA FrameInvariant ==
  ASSUME OneRun
  PROVE  Spec => []FrameInv
  <1>1. FlagTypes /\ ValueInv => ValueTypes
    BY DEF ValueInv
  <1>2. OneStart
    BY OneRun DEF OneRun
  <1>3. Spec => []AcquireReadback
    BY <1>2, ReadbackIsHonest
  <1>4. QED
    BY <1>1, <1>3, TypeInvariant, FrameInvInit, FrameInvStep, PTL DEF Spec

(***************************************************************************)
(* The data task never reads a frame the detector has not finished.        *)
(***************************************************************************)
THEOREM NoEarlyRead ==
  ASSUME OneRun
  PROVE  Spec => []ReadsFinishedFrames
  <1>1. FrameInv => ReadsFinishedFrames
    BY DEF FrameInv, ReadBehindDetector, ReadsFinishedFrames
  <1>2. QED
    BY <1>1, FrameInvariant, PTL

(***************************************************************************)
(* Every frame of a detector run goes out at most once and in order.       *)
(***************************************************************************)
THEOREM EachFrameOnce ==
  ASSUME OneRun
  PROVE  Spec => []FramesInOrderOnce
  <1>1. FrameInv => FramesInOrderOnce
    BY DEF FrameInv
  <1>2. QED
    BY <1>1, FrameInvariant, PTL

(***************************************************************************)
(* Status and counters, for clients that also leave the settings alone     *)
(* while ADAcquire reads 1.                                                *)
(***************************************************************************)
QuietRun == OneRun /\ "SettingsWhenDone" \in ClientRules

LEMMA StoppableStep ==
  ASSUME QuietRun
  PROVE  SessionIsStoppable /\ AcquireReadback /\ [Next]_vars => SessionIsStoppable'
  <1> SUFFICES ASSUME SessionIsStoppable, AcquireReadback, [Next]_vars
               PROVE SessionIsStoppable'
    OBVIOUS
  <1> USE QuietRun DEF QuietRun, OneRun, OneStart, Busy, SessionIsStoppable, GoTo
  <1>a. adAcquire \/ ~(pc \in Collecting)
    BY DEF AcquireReadback, Pending
  <1>1. CASE Client
    <2>1. CASE Erase \/ AcquireOnRefused
      BY <1>a, <2>1 DEF Erase, AcquireOnRefused
    <2>2. CASE AcquireOnIgnored
      BY <2>2 DEF AcquireOnIgnored
    <2>3. CASE AcquireOnHalfDone \/ AcquireOn
      BY <1>a, <2>3 DEF AcquireOnHalfDone, AcquireOn
    <2>4. CASE AcquireOff \/ AcquireOffIgnored \/ SetNumImages
      BY <2>4 DEF AcquireOff, AcquireOffIgnored, SetNumImages
    <2>5. CASE ConnectRefused \/ Connect \/ Disconnect
      BY <1>a, <2>5 DEF ConnectRefused, Connect, Disconnect
    <2>6. CASE SetSavePath \/ SetWindow \/ SetTriggerMode \/ SaveSettings \/ RestoreSettings
      BY <1>a, <2>6
      DEF SetSavePath, SetWindow, SetTriggerMode, SaveSettings, RestoreSettings, Report
    <2>7. QED
      BY <1>1, <2>1, <2>2, <2>3, <2>4, <2>5, <2>6 DEF Client
  <1>2. CASE DataTask
    <2>1. CASE CheckStale \/ WaitStart \/ Begin \/ Snapshot
      BY <2>1 DEF CheckStale, WaitStart, Begin, Snapshot
    <2>2. CASE Poll
      BY <2>2 DEF Poll
    <2>3. CASE Alloc \/ AllocFails \/ Read \/ Publish
      BY <2>3 DEF Alloc, AllocFails, Read, Publish
    <2>4. CASE NoStop \/ TakeStop \/ HistBusy
      BY <2>4 DEF NoStop, TakeStop, HistBusy
    <2>5. CASE StopParams \/ Finish
      BY <2>5 DEF StopParams, Finish, EndSession
    <2>6. QED
      BY <1>2, <2>1, <2>2, <2>3, <2>4, <2>5 DEF DataTask
  <1>3. CASE Detector
    BY <1>3 DEF Detector, HwFrame, HwQuiesce
  <1>4. CASE UNCHANGED vars
    BY <1>4
  <1>5. QED
    BY <1>1, <1>2, <1>3, <1>4 DEF Next

(***************************************************************************)
(* As long as frames are collected DetectorState shows it, so that a stop  *)
(* is accepted and a start refused.                                        *)
(***************************************************************************)
THEOREM AlwaysStoppable ==
  ASSUME QuietRun
  PROVE  Spec => []SessionIsStoppable
  <1>1. Init => SessionIsStoppable
    BY DEF Init, SessionIsStoppable
  <1>2. OneStart
    BY QuietRun DEF QuietRun, OneRun
  <1>3. Spec => []AcquireReadback
    BY <1>2, ReadbackIsHonest
  <1>4. QED
    BY <1>1, <1>3, StoppableStep, PTL DEF Spec

(***************************************************************************)
(* The counters: what has been delivered has been taken, a frame is read   *)
(* below the count last reported, and NDArrayCounter trails the loop.      *)
(***************************************************************************)
DeliveredWereTaken == delivered <= hwFrames

ReadBehindReport == pc \in {"Alloc", "Read"} => frameNumber < frameCount

CounterTrailsLoop ==
  /\ pc \in Collecting => ndCounter <= frameNumber + (IF pc = "Publish" THEN 1 ELSE 0)

CountersInv ==
  CountersAgree /\ DeliveredWereTaken /\ ReadBehindReport /\ CounterTrailsLoop

LEMMA CountersInit == Init => CountersInv
  BY DEF Init, CountersInv, CountersAgree, DeliveredWereTaken, ReadBehindReport,
         CounterTrailsLoop

LEMMA CountersStep ==
  ASSUME QuietRun
  PROVE  CountersInv /\ FrameInv /\ ValueTypes /\ AcquireReadback /\ [Next]_vars
           => CountersInv'
  <1> SUFFICES ASSUME CountersInv, FrameInv, ValueTypes, AcquireReadback, [Next]_vars
               PROVE CountersInv'
    OBVIOUS
  <1> USE QuietRun
      DEF QuietRun, OneRun, OneStart, Busy, CountersInv, CountersAgree,
          DeliveredWereTaken, ReadBehindReport, CounterTrailsLoop, ValueTypes, GoTo
  <1>a. adAcquire \/ ~(pc \in Collecting)
    BY DEF AcquireReadback, Pending
  <1>1. CASE Client
    <2>1. CASE Erase
      BY <1>a, <2>1 DEF Erase, Erasing
    <2>2. CASE AcquireOnRefused
      BY <1>a, <2>2 DEF AcquireOnRefused, Erasing
    <2>3. CASE AcquireOnIgnored \/ SetNumImages
      BY <2>3 DEF AcquireOnIgnored, SetNumImages
    <2>4. CASE AcquireOnHalfDone
      BY <1>a, <2>4 DEF AcquireOnHalfDone, HistogramStart, Erasing
    <2>5. CASE AcquireOn
      BY <1>a, <2>5 DEF AcquireOn, HistogramStart, Erasing
    <2>6. CASE AcquireOff \/ AcquireOffIgnored
      BY <2>6 DEF AcquireOff, AcquireOffIgnored
    <2>7. CASE ConnectRefused \/ Connect \/ Disconnect
      BY <2>7 DEF ConnectRefused, Connect, Disconnect
    <2>8. CASE SetSavePath \/ SetWindow \/ SetTriggerMode \/ SaveSettings \/ RestoreSettings
      BY <2>8
      DEF SetSavePath, SetWindow, SetTriggerMode, SaveSettings, RestoreSettings, Report
    <2>9. QED
      BY <1>1, <2>1, <2>2, <2>3, <2>4, <2>5, <2>6, <2>7, <2>8 DEF Client
  <1>2. CASE DataTask
    <2>1. CASE CheckStale \/ WaitStart
      BY <2>1 DEF CheckStale, WaitStart
    <2>2. CASE Begin \/ Snapshot
      BY <2>2 DEF Begin, Snapshot, FrameInv, FreshCount
    <2>3. CASE Poll
      BY <2>3 DEF Poll, FrameInv, FramesInOrderOnce
    <2>4. CASE Alloc \/ AllocFails
      BY <2>4 DEF Alloc, AllocFails
    <2>5. CASE Read
      BY <2>5 DEF Read
    <2>6. CASE Publish
      BY <2>6 DEF Publish, FrameInv, ReadBehindDetector
    <2>7. CASE NoStop \/ TakeStop \/ HistBusy
      BY <2>7 DEF NoStop, TakeStop, HistBusy
    <2>8. CASE StopParams \/ Finish
      BY <2>8 DEF StopParams, Finish, EndSession
    <2>9. QED
      BY <1>2, <2>1, <2>2, <2>3, <2>4, <2>5, <2>6, <2>7, <2>8 DEF DataTask
  <1>3. CASE Detector
    BY <1>3 DEF Detector, HwFrame, HwQuiesce
  <1>4. CASE UNCHANGED vars
    BY <1>4
  <1>5. QED
    BY <1>1, <1>2, <1>3, <1>4 DEF Next

LEMMA CountersInvariant ==
  ASSUME QuietRun
  PROVE  Spec => []CountersInv
  <1>1. FlagTypes /\ ValueInv => ValueTypes
    BY DEF ValueInv
  <1>2. OneRun /\ OneStart
    BY QuietRun DEF QuietRun, OneRun
  <1>3. Spec => [](AcquireReadback /\ FrameInv)
    BY <1>2, ReadbackIsHonest, FrameInvariant, PTL
  <1>4. QED
    BY <1>1, <1>3, TypeInvariant, CountersInit, CountersStep, PTL DEF Spec

(***************************************************************************)
(* NDArrayCounter never exceeds the number of frames reported as acquired. *)
(***************************************************************************)
THEOREM CountersNeverCross ==
  ASSUME QuietRun
  PROVE  Spec => []CountersAgree
  <1>1. CountersInv => CountersAgree
    BY DEF CountersInv
  <1>2. QED
    BY <1>1, CountersInvariant, PTL
=============================================================================
