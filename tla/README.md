# TLA+ models of the Xspress3 areaDetector driver

The driver (`src/xspress3App/src/`) lets EPICS clients run a Quantum Detectors
Xspress3: they write parameters, a thread reads frames out of the detector and
hands them to areaDetector plugins. These modules model the part of it that is
concurrent and stateful, check it with TLC on small instances and prove its
safety properties with TLAPS for every value of the constants.

Line numbers below are of `xspress3App/src/xspress3Epics.cpp` unless said
otherwise. `PROJECT.json` has the map from definitions to lines, the runs, the
mutants, the hazards, the theorems and the findings.

## The system

| Part | State it keeps | Operations | How it is right |
|---|---|---|---|
| Handlers of an acquisition (`writeInt32`, 1170-1544) | `ADStatus`, `ADAcquire`, `ADNumImages`, counters | one per parameter, under the driver lock | accepted requests are carried out, refused ones change nothing |
| Data task (`xsp3DataTaskC`, 1997-2082) | `frameNumber`, `numFrames`; `startEvent_`, `stopEvent_` | wait for a start, poll, read, publish, look for a stop, end | every frame once, in order; every acquisition ends; a stop works |
| Library calls of an acquisition (1034-1080, 1217-1260, 1595-1634) | the detector | stop, erase, set up the generator, start, poll, read, check that it is idle | no frame before its time; a stop comes back and tells the truth |
| Connection and settings (347-765) | `XSP3_CONNECTED`, `xsp3_handle_`, save and config paths | connect, disconnect, save, restore | parameters, device and files agree; an error leaves a state one can go on from |
| Windows and thresholds (433-566, 813-847) | limits per channel | set limits, read back | low <= high; parameter and device agree |
| Histogram memory and `erase()` (893-1009) | the detector's frames, `NDArrayCounter`, `EraseOnStart` | erase, erase on start | a frame holds the counts of one acquisition |
| Circular buffer, scalers, dead-time figures (1696-1846, 2040-2060) | arrays, the scaler buffer, what is shown of the last frame | read, acknowledge, publish, write out | what is handed on is the frame it says |
| Trigger parameters (1087-1165, 1405-1436) | four parameters, one register per card | set mode, invert, debounce, pulses per trigger | registers agree with the parameters on every card |
| Simulator (`xsp3Simulator`, `xsp3SimElement`, `xsp3TimeRegister`) | progress, windows, one time register | the library's interface | behaves as the library does |
| Interface (`xsp3Api`, `xsp3Detector`) | none | trace and forward | - |

The handlers and the data task share the parameter library, the two binary
events and the detector. The handlers hold the driver lock; the data task holds
it only in a few blocks (2025-2027, 2051-2053, 2056-2058, 2071-2073, 2077-2079),
so a handler may run between almost any two of its statements. What is hard to
test follows from that: requests in the window between an accepted start and the
data task's first step, `ADStatus` used both as a report and as the handlers'
guard, values copied outside the lock, a detector that is restarted or
disconnected under the data task, and sequences of calls of which any may fail.

## Modules

    XspressTypes <- XspressDetector, XspressSimulator <- XspressApi
    XspressApi     <- XspressSettings
                   <- XspressScan <- XspressScanSession (-> AcqSession)
    XspressAcquire <- XspressMemory
                   <- XspressFrames
                   <- XspressSession (-> AcqSession)
    XspressTypes   <- XspressTrigger

`XspressAcquire` - the acquisition engine. A handler is one action. The data
task is a thread with a program counter `pc`, cut at each access to shared
state:

| `pc` | code |
|---|---|
| `CheckStale` | 2020-2022, drop a left-over stop event |
| `WaitStart`, `Begin` | 2023-2028, take the start event, `setStartingParameters()` |
| `Snapshot` | 2029-2033, copy `ADNumImages` |
| `Loop` | 2036-2038, `getNumFramesRead()`; or the end of the loop, 2076-2080 |
| `Alloc`, `Read`, `Publish` | 2040-2060 |
| `CheckStop` | 2067 |
| `HistBusy`, `StopParams` | 2070-2073 |

The detector finishes frames on its own (`HwFrame`) up to the limit it was
programmed with, and falls idle some time after `histogram_stop` (`HwQuiesce`).
`Internal` selects trigger mode INTERNAL, where the generator counts
`ADNumImages` frames; in every other mode frames come from outside, perhaps never.
Two history variables serve the properties: `delivered`, the frames handed on in
this run of the detector, and `stopAsked`, a stop that returned success.

`Faults` says what may go wrong: `config` (a connection is refused), `api` (any
library call fails), `read` (a read-out fails), `alloc` (no NDArray). `ClientRules`
says what clients refrain from; each rule forbids one kind of request while
`ADAcquire` reads 1 (`StartWhenDone`, `SetWhenDone`, `ConnectWhenDone`,
`SettingsWhenDone`), or a stop while `DetectorState` does not read Acquire
(`StopWhenAcquiring`). The driver enforces none of these rules, so each property
is stated with the rules it needs, and those are what the project has to tell the
author of a client.

`AcqSession` - what the driver promises for one acquisition, without thread,
event or detector: armed, running, frames one by one, complete or aborted if asked.
`XspressSession` maps the engine to it (`phaseBar`, `framesBar`).

`XspressMemory` - adds the histogram memory to every step of the engine: `fresh`
and `old` are the frames with counts of the latest and of earlier runs. The
detector adds to what a frame holds (the library has `histogram_clear` for that,
which `erase()` calls before each start), so reading a frame in `old` gives a sum
of two acquisitions.

`XspressFrames` - adds, to every step of the engine, the detector in circular
buffer mode and what is handed on: the array (`pMCA`), the buffer for scalers
(`pSCA`), the scalers and figures shown (`sca`, `fig`), each as the number of the
frame it is from. The memory has `Ring` places; frame n goes to place n modulo
`Ring` and is cleared as it begins. A frame that begins where the one before has
not been acknowledged sets `overrun`. Acknowledgements and the two halves of an
uncorrected read-out (histogram, then scalers) are steps of their own, so the
detector may wrap round between them.

`XspressTrigger` - the four trigger parameters (`settings`), `pulses`, and one
timing `register` per card. Each write of a parameter calls `setTriggerMode()`,
which writes card after card and stops at the first error; the operator's `n` is
how many were written. `complete` is a history variable: the last call got through.
`PulsesLast` is its one rule for clients: set a pulse count after everything else,
and go back to 0 before anything else is changed, connected or restored.

`XspressTypes`, `XspressDetector`, `XspressSimulator`, `XspressApi` - the interface
to the detector and the two classes behind it. A device is a record; a method is an
operator with the class's name for it, from the device and the arguments to the set
of possible answers, each a status, a value and the device afterwards. The
forwarding detector refuses a handle that is not open and may fail in any method
that `Faults` names; what a success does to the hardware is external, and as weak as
the driver can rely on. The simulator never fails: most of its methods do nothing,
and the rest is modelled as it is written, the single register for all cards, the
count worked out when it is asked for, and unsigned arithmetic (`UintRange`) in the
clipping of a region to the spectrum.

`XspressSettings` - `connect()` and `restoreSettings()` with a step per pass of each
loop, each early return and each status that is carried on, overwritten or dropped;
and a step for each handler that changes parameter, device or save path afterwards.
`pc` is `idle` when none of the two is running: they hold the driver lock. `shown`
and `complete` are history variables. Its client rules are `ConnectWhenDisconnected`,
`ChannelsWhenDisconnected` (NumChannels), `ImagesWhenConnected` (ADNumImages) and
`ConfigCoversDriver` (NumFramesConfig is not set below NumFramesDriver).

`XspressScan` - an acquisition call by call, the device answering for itself: the
start with its stop, erase, generator set-up and two starts, the poll, the
read-out, the stop with `checkHistBusy()` as the bounded loop it is, software
triggers, restart and pause of the generator. `XspressAcquire` has the parameters
and the interleavings of the same handlers in full, and abstracts the answers to
success and failure. Here clients start and change settings only when the
previous acquisition is done, and connect once. `elapsed` and `since` are time in
ticks of the generator. `XspressScanSession` maps it to `AcqSession` as well: the
session is armed while the start event is set, runs while the data task is in its
loop, and is asked to stop while the stop event is set or being carried out.

`XspressAcquireProofs`, `XspressSessionProofs`, `XspressMemoryProofs`,
`XspressFramesProofs`, `XspressTriggerProofs`, `XspressSettingsProofs` (memory, paths,
order of limits), `XspressLimitsProofs` (types, set-up and limits over whole methods),
`XspressScanProofs` - the theorems.
`MCAcquire`, `MCMemory`, `MCFrames`, `MCTrigger`, `MCSettings`, `MCScan` - named
values for the configurations.

Definitions that begin with "Mutant" in their comment are wrong on purpose: each
replaces one definition to show that a property would notice.

## Properties and runs

| Run | Question | Assumes | Distinct states |
|---|---|---|---|
| `AcquireStop` | `TypeOK`, `AbortedOnlyIfAsked`, `StopEndsAcquisition` | rule StopWhenAcquiring; every fault; external trigger | 525 k |
| `AcquireQuiet` | `AcquireReadback`, `ReadsFinishedFrames`, `FramesInOrderOnce`, `SessionIsStoppable`, `CountersAgree` | rules Start, Connect, Settings; no `alloc` fault; INTERNAL | 51 k |
| `SessionPaced` | `AcquireFallsBack`, `ImplementsFairSession` | rules Start, Connect, Set, StopWhenAcquiring; faults `config`, `read`; INTERNAL | 20 k |
| `MemoryFinished` | `PureFrames`, `EraseIsEnough` | rules Start, Connect, Set; no stop; INTERNAL; erase on start | 3 k |
| `CircularFrames` | `FramesTypeOK`, `OverrunIsFlagged`, `EveryFrameAcknowledged`, `FiguresOfThisRun` | rules Start, Connect, Settings; faults `config`, `read`; INTERNAL; erase on start | 371 k |
| `TriggerCards` | `TypeOK`, `SettingsInCards`, `ItfgDrivesCards`, `LastCardAgrees` | rule PulsesLast; every fault; three cards | 7 k |
| `SettingsKept` | `TypeOK`, `LimitsOrdered`, `LimitsInDevice`, `ConnectedIsSetUp`, `ImagesInMemory`, `SavePathIsFresh`, `RoisInSpectrum`, `SuccessNeedsConnection` | its four rules; any call may fail; a Mini and a simulator | 7.2 M |
| `ScanRuns` | `TypeOK`, `StoppedMeansIdle`, `NoFrameBeforeItsTime`, `ScanEnds`, `ScanIsFairSession` | starts, stops, read-outs, erasures and trigger writes may fail; one card; a detector and a simulator | 210 k |

The other runs are expected to fail; see Findings. What the properties say:

- `AbortedOnlyIfAsked`: the data task gives an acquisition up only if a stop of
  that acquisition was accepted. A stop event left over from the last one is
  dropped in time.
- `AcquireReadback`: while `ADAcquire` reads 0 nothing is pending or in progress,
  and a start never waits behind an acquisition.
- `ReadsFinishedFrames`, `FramesInOrderOnce`: the frame that is read is one the
  detector has finished in this run, and the next one to hand on. A frame whose
  read-out fails counts as handed on: the code publishes it (2047-2059).
- `SessionIsStoppable`: `ADStatus` reads Acquire while frames are collected, so a
  stop is not ignored and a second start is.
- `CountersAgree`: `NDArrayCounter <= FrameCount`.
- `StopEndsAcquisition`, `AcquireFallsBack`: a stop that was accepted, or with
  generated frames the last frame, brings `ADAcquire` back to 0; after a stop the
  data task is back at the top of its loop as well.
- `ImplementsFairSession`: all of that in one statement, against `AcqSession`.
- `ScanIsFairSession`: the same promise, kept with the calls and answers of the
  library in place of success and failure: a frame count left by the acquisition
  before, a stop event that came too late and a `checkHistBusy()` that fails do not
  get in the way, and a stop comes back even from a detector that is never idle.
- `PureFrames`, `EraseIsEnough`: a frame that is read holds the counts of its own
  acquisition; between two acquisitions the range `erase()` would clear covers
  every frame with counts.
- `OverrunIsFlagged`: what is handed on is the frame it says, histogram and scalers
  alike, or was not read, or the detector has flagged an overrun. It holds because
  the acknowledgement comes after both reads.
- `EveryFrameAcknowledged`: a frame whose read-out failed is acknowledged as well;
  a Mini would stop at one that is not.
- `FiguresOfThisRun`: the scaler buffer outlives acquisitions and is shown whether
  it was read or not (2052); with erase on start, figures of an earlier acquisition
  appear only after a read-out that failed.
- `SettingsInCards`, `LastCardAgrees`: after a write that got through, all cards hold
  what the parameters ask for; after one that did not, the last of several cards
  still does.
- `ItfgDrivesCards`: `setupITFG()` goes by the parameters at the time of the start,
  card 0 by an earlier write; the generator is programmed exactly when card 0 listens
  to it. It fails for clients that touch a trigger parameter while a pulse count is
  set (1298 puts TTL veto back), and for negative counts (1415 against 1062).
- `LimitsOrdered`: no window a client reads is inverted. A simulator's windows start
  out uninitialised and are read back at every connect; that this shows nothing
  inverted hangs on the order of writing and reading back.
- `LimitsInDevice`: after a connect or restore that got through, limits and
  thresholds are the device's, although `restoreSettings()` drops the status of a
  window that was refused (741): its read-back replaces the parameter. It says
  nothing after a restore that failed half way, which leaves the file's limits in
  the device and the old ones in the parameters.
- `ConnectedIsSetUp`: then also all clocks, runs and flags are set and all dead-time
  parameters read.
- `SuccessNeedsConnection`: a step that ends `connect()` or `restoreSettings()` with
  success ends it with a connection. A restore without one goes on to format the runs
  and set the flags on the former handle (690), whose calls may succeed, and 741
  overwrites the status; what saves it is that the flags give up after any error.
- `ImagesInMemory`: what `ADNumImages` asks for fits the memory the connection laid
  out, on a Mini too, whose limit is lowered after the memory was laid out (401).
- `SavePathIsFresh`: the next save never goes to a directory that holds a saved
  configuration, although the directory is checked when the path is written only.
- `RoisInSpectrum`: the region a simulator sums for a window ends in the spectrum,
  in unsigned arithmetic.
- `StoppedMeansIdle`: when `checkHistBusy()` is content the histogram is at rest; an
  error of the call is not taken for idle.
- `NoFrameBeforeItsTime`: no frame is handed on before its time has passed since this
  start; a start resets the simulator's clock and count. It holds for one card: with
  several, the simulator's one register ends up with the last card's TTL veto.
- `ScanEnds`: an acquisition that times its own frames ends, and so does every one of
  the simulator, whose count would stand still at a number that ends in 9
  (`xsp3Simulator.cpp` 171) and, counted from 0, does not meet one; unless a client
  leaves the generator paused.

Bounds.
- Engine: `MaxFrames` is 2 or 3, and 3 for the memory. With two frames there is a
  first, a last and a next one, an acquisition shorter than the memory, counters that
  can cross and a frame index that can be left over; the memory needs a third, so that
  a range of `ADNumImages + 1` can fall short of it. `Requests` has 0, every legal
  value and one above the limit.
- Circular buffer: four frames in two places, so each place is used twice in an
  acquisition and the detector can be more than one frame ahead of the reader.
- Trigger: three cards are a first, a middle and a last one; the modes have one that
  is passed on as it is, one that is not, TTL veto, internal and an unknown one; 256 is
  a debounce time too long for its register.
- Settings: two channels, of which one or two are in use; a driver limit above, a
  Mini's below the memory of the detector; a limit beyond the spectrum, and the raw
  window inverted; a valid and an invalid run flag; one directory. On its one
  detector, a Mini with room for one frame, every request is above the limit, so
  `ImagesInMemory` is tested here by what is refused; for requests that are accepted
  there is the proof (`AcquisitionsFit`). A request of 1 would double the states.
- Scan: -1 or 2 images for a detector (`ADNumImages` may be negative), 9 or 10
  for a simulator, around the number at which its count would stand still; modes
  internal, TTL veto and software; three looks of `checkHistBusy()` in place of 20,
  with two channels: enough for two idle passes, for one broken by a busy channel, and
  for the last look that fails though it is the second idle one.
  `Tick` stops once the last frame is due; nothing depends on time after that.
  Exposures are of a tick or more and below 2^32 ticks (`ScanAssumption`).

No other counter is unbounded, so the state spaces are complete for these
constants. Deadlock is checked in every run.

Fairness. `FairSpec` of the engine assumes weak fairness of the data task only: a
thread of high priority that blocks on nothing but `startEvent_`. `FairPacedSpec`
adds weak fairness of `HwFrame`, for runs in INTERNAL mode, where the detector's own
generator ends the frames. `FairSpec` of `XspressScan` assumes weak fairness of the
data task, of time, and of the end of a generated frame that is due. Clients owe
nothing; in particular no client is assumed ever to stop, start or reconnect.
`XspressSettings` has no fairness: what its handlers do is a matter of safety, and
their loops are bounded.

## Findings

- `LostStop` - a 0 written to `ADAcquire` after a start was accepted and before the
  data task has run `setStartingParameters()` returns success and is dropped
  (1257): `ADStatus` does not read Acquire yet.
- `RaisedNumImages` - `ADNumImages` raised in the same window makes the data task
  wait for frames that the generator was not programmed to take (2033 against 1045).
- `OverwrittenStatus` - the save path handler writes Idle or Error to `ADStatus`
  during an acquisition (1581), which then ignores stops and admits a second start.
- `MemoryAborted` - after an acquisition aborted before its first read-out
  `NDArrayCounter` is 0 and `erase()` clears one frame (915); the next acquisition
  adds to the counts left in the others.

Not in the runs, but worth a look by whoever maintains the code: properties above
that need a client rule say what happens without it (`ImagesInMemory` without
ConfigCoversDriver, `LimitsInDevice` and `ConnectedIsSetUp` without ChannelsWhenDisconnected). A hazard in
`PROJECT.json` names the properties that would catch it in a run as it stands; where
a client rule or a constant of the run keeps it out, its note names the property that
does not hold otherwise.

## What is proved

The theorems about the engine hold for all `MaxFrames` > 0, all `Requests` in Int,
both trigger kinds and all fault sets, under the client rules named in the ASSUME.

- `TypeCorrect` (`TypeOK`, no rule). Not inductive alone: `readFrame()` stores
  `frameNumber + 1` in `NDArrayCounter`, so `ValueInv` adds that a frame is only read
  below `numFrames` (`FrameInRange`). The flags and the numbers are two lemmas
  because no one prover does Booleans and arithmetic well.
- `AbortIsAsked` (`AbortedOnlyIfAsked`, no rule). `StopInv` says where a stop event
  can be: in a session that was asked to stop, or between its end and the top of
  the loop; and that `ADStatus` reads Acquire only in a session.
- `ReadbackIsHonest` (`AcquireReadback`; rule StartWhenDone, no `alloc` fault).
- `NoEarlyRead`, `EachFrameOnce` (`ReadsFinishedFrames`, `FramesInOrderOnce`; and
  ConnectWhenDone). `FrameInv` relates the thread's count to the detector's run.
- `AlwaysStoppable`, `CountersNeverCross` (`SessionIsStoppable`, `CountersAgree`; and
  SettingsWhenDone).
- `SessionIsImplemented` (`Spec => ImplementsSession`; rules Start, Connect, Set):
  every step is a step of `AcqSession` or a stutter. Beside the invariants above it
  needs `SnapshotIsCurrent`: the unlocked copy of `ADNumImages` stays current because
  these clients leave it alone.

About the circular buffer, for every length of it:

- `FramesAreAcquisitions` (`FramesSpec => Spec`): the module only adds to the engine,
  so the invariants above can be used in what follows.
- `FramesTypeCorrect`, `AllFramesAcknowledged` (rules Start, Connect; no `alloc`
  fault). `AckInv` counts acknowledgements against the loop's `frameNumber`.
- `ArraysAreTheirFrames` (`OverrunIsFlagged`; and SettingsWhenDone). `RingInv`: a
  detector without the flag is less than a round ahead of what is acknowledged; a
  place then holds the frame asked for (`PlaceBounds`, the arithmetic of the ring).
  `ContentInv` follows array and scalers from the calls to the hand-over.
- `FiguresAreCurrent` (`FiguresOfThisRun`; rules Start, Connect, erase on start, a
  library that fails only its reads). `PanelInv` adds what the scaler buffer holds.

About the settings:

- `AcquisitionsFit` (`ImagesInMemory`; rules ConnectWhenDisconnected,
  ImagesWhenConnected, ConfigCoversDriver, and `MiniFrames <= MaxDriverFrames`:
  otherwise connecting a Mini would raise the driver's limit above the memory just
  laid out). `MemInv` adds that the configured frames cover the driver's limit, that
  the memory of a connection does, and that a Mini's limit is lowered before
  anything was asked for.
- `SavesAreFresh` (`SavePathIsFresh`) with no assumption on clients or faults.
- `LimitsNeverInverted` (`LimitsOrdered`), for any clients, faults and raw windows.
  `OrderInv` says what is known of the windows between the file and the read-back: of
  a detector all are ordered once the file is loaded; of a simulator those that have
  been written so far, which it never refuses.
- `SettingsTypes` (`TypeOK`, no rule for clients). `TypeInv` adds, per place in
  `connect()` and `restoreSettings()`, which loop its index belongs to.
- `ConnectionIsSetUp` (`ConnectedIsSetUp`; rule ChannelsWhenDisconnected). An error
  met in a loop is only looked at after it, so `ClocksInv`, `RunsInv` and `ShownInv`
  say "as long as the status is ok, everything below the index is done", and what is
  done at the places after the loop. Failed attempts before do not matter, nor do
  connects over a connection.
- `SuccessIsConnected` (`SuccessNeedsConnection`, an action property; no rule).
  `LinkInv`: without a connection a handler is at rest, about to load the file, or
  carries an error no later than the flags. It is inductive next to `TypeInv`, and a
  step that ends a handler from any other place has a connection to keep.
- `LimitsAreTheDevices` (`LimitsInDevice`; rule ChannelsWhenDisconnected). `CopyInv`: what the
  read-back has passed is copied. A window whose writing failed is not looked for:
  the read-back comes later on every path that ends well.
- `RegionsFit` (`RoisInSpectrum`; the same rule, and `LimitsAreBins`: clients ask a
  simulator for limits from 0 to the length of its spectrum, and an unsigned int can
  hold that length and one more). `EchoInv`: the windows written so far hold the
  parameters, so reading them back brings nothing of the raw memory in (`BinsInv`);
  the rest is modular arithmetic (`RegionFits`).

In these, `RawWindow \in Pairs` says only that an uninitialised window is two
integers.

About the trigger registers, for any number of cards: `TriggerTypes`,
`LastCardFollows` (no rule), `CardsFollowSettings`, `ItfgIsListenedTo` (rule
PulsesLast). One lemma says what a call of `setTriggerMode()` does
(`SetTriggerModeFacts`); with it each property is inductive next to `TypeOK`, and
the last follows from the third.

About the histogram memory, for any length of it: `FramesArePure` (`PureFrames`) and
`EraseReachesAll` (`EraseIsEnough`), for `CleanRuns`: erase on start, INTERNAL mode,
no stop, clients that start, set and connect while `ADAcquire` reads 0, and no fault
but a refused connection. `CleanInv` is the argument: the frames with counts
are among those the detector was programmed for, which are those the data task waits
for; from the last read-out on they are those below `NDArrayCounter`, which is what
`erase()` goes by; and at rest the detector fills no more. The finding `MemoryAborted` is what becomes of it with a stop.

About the calls of an acquisition, for any number of channels, looks, images and
exposures:

- `ScanTypes` (`TypeOK`) and `StopIsHonest` (`StoppedMeansIdle`), whatever fails.
  `ScanInv` carries the loop and the counts of `checkHistBusy()`; its heart is
  `FoundIdle`: once a channel has been found idle in a check the detector is at rest,
  and no step of a session sets it off again (`DeviceStep`).
- `FramesTakeTheirTime` (`NoFrameBeforeItsTime`; one card and a generator whose set-up
  does not fail). `TimeInv`: from the accepted start on the device runs this
  acquisition's program, its clock reads `since`, and what it has counted is due; for
  the simulator that comes from its quotient of elapsed by frame time
  (`FinishedIsDue`). If the set-up of the generator fails the start goes on, and frames
  are taken by the program before: the property is then false.
- `ScanImplementsSession` (`Spec => ScanIsSession`), whatever fails. `StopInv`: no
  acquisition is armed while one runs, `ADStatus` reads Acquire in a session only, and
  no stop event outlives `Top`.

Every safety invariant and action property that a run checks is a theorem, and so is
the safety half of both refinements. `TimerCalls` (a recursive function over the cards) needs an
induction: the library's induction theorems take a predicate, so `SetInduction` derives
it for a set from `WFMin`.

Only model-checked: liveness (`StopEndsAcquisition`, `AcquireFallsBack`, `ScanEnds`,
the fairness halves of `ImplementsFairSession` and
`ScanIsFairSession`), because TLAPS has no ENABLED.

## Not modelled

- The insides of the detector library (its headers in `xspress3Support` are in the
  repository, its code is not). What a failing call leaves behind is the weakest the
  driver can rely on: nothing. A new connection is taken to find the memory empty, no
  frame done and nothing set up. `xsp3_restore_settings` loads processing registers
  only (`xspress3Support/mainpage.h:53`).
- `FixedTime` (`set_glob_timeFixed`): its value is handed to the library and nothing
  else depends on it. `get_dtcfactor`, `checkRoi()` and `xsp3TimeRegister::get()` have
  no caller; `get_error_message` only words a message.
- The floating-point formulas of the dead-time figures (1784-1846) and the shapes of
  simulated spectra: real numbers. Which frame the figures are of is modelled.
- Sizes of arrays: the array is sized by the NumChannels parameter and the read-out
  by `numChannels_` (1886). What a write past an array does is not a behaviour of states.
- Attributes, plugins (`doCallbacksGenericPointer` is a publish), and start-up: the
  constructor's parameter creation, iocsh registration, `xspress3Main.cpp`.
- Two writes of one unlocked function in the data task (`adReportError()`) are one step.
- A change of trigger mode during a run of `XspressAcquire`: `Internal` is a constant
  there; `XspressScan` has the modes. A connection during an acquisition is in
  `XspressAcquire` and not in `XspressScan`.
- Direct writes to read-back parameters such as `NDArrayCounter`, which asyn permits.
