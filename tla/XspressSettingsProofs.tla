------------------------ MODULE XspressSettingsProofs ------------------------
(***************************************************************************)
(* Proofs of properties of XspressSettings that need no picture of the     *)
(* whole connection: the memory a run asks for, the save path, and the     *)
(* order of the limits a client reads.                                     *)
(***************************************************************************)
EXTENDS XspressSettings, TLAPS

(***************************************************************************)
(* What a method of the library leaves alone: the class and generation of  *)
(* the device, and the memory laid out on it.                              *)
(***************************************************************************)
IsDevice(d) == {"kind", "generation", "frames"} \subseteq DOMAIN d

SameMemory(d, e) ==
  IsDevice(e) /\ e.kind = d.kind /\ e.generation = d.generation /\ e.frames = d.frames

(* A call leaves the device as it was or as its success leaves it. *)
LEMMA ReplyLeaves ==
  ASSUME NEW method, NEW d, NEW path, NEW value, NEW after
  PROVE  \A a \in Det!Reply(method, d, path, value, after) : a.dev \in {d, after}
  BY DEF Det!Reply, Det!Answer

LEMMA SetUpKeepsMemory ==
  ASSUME NEW d, IsDevice(d), NEW path, NEW i, NEW v
  PROVE  /\ \A a \in clocks_setup(d, path, i) : SameMemory(d, a.dev)
         /\ \A a \in format_run(d, path, i) : SameMemory(d, a.dev)
         /\ \A a \in set_run_flags(d, path, v) : SameMemory(d, a.dev)
         /\ \A a \in close(d, path) : SameMemory(d, a.dev)
  <1> USE DEF IsDevice, SameMemory,
              Det!Does, Det!Reply, Det!Answer, Sim!Ignored, Sim!AlwaysOk, Sim!Answer
  <1>1. \A a \in clocks_setup(d, path, i) : SameMemory(d, a.dev)
    BY DEF clocks_setup, Det!xsp3Api_clocks_setup, Sim!xsp3Api_clocks_setup
  <1>2. \A a \in format_run(d, path, i) : SameMemory(d, a.dev)
    BY DEF format_run, Det!xsp3Api_format_run, Sim!xsp3Api_format_run
  <1>3. \A a \in set_run_flags(d, path, v) : SameMemory(d, a.dev)
    BY DEF set_run_flags, Det!xsp3Api_set_run_flags, Sim!xsp3Api_set_run_flags
  <1>4. \A a \in close(d, path) : SameMemory(d, a.dev)
    BY DEF close, Det!xsp3Api_close, Sim!xsp3Api_close
  <1> HIDE DEF IsDevice, SameMemory
  <1>5. QED
    BY <1>1, <1>2, <1>3, <1>4

LEMMA WritesKeepMemory ==
  ASSUME NEW d, IsDevice(d), NEW path, NEW c, NEW w, NEW low, NEW high, NEW v
  PROVE  /\ \A a \in restore_settings(d, path) : SameMemory(d, a.dev)
         /\ \A a \in set_window(d, path, c, w, low, high) : SameMemory(d, a.dev)
         /\ \A a \in set_good_thres(d, path, c, v) : SameMemory(d, a.dev)
         /\ \A a \in set_glob_timeA(d, path, c, v) : SameMemory(d, a.dev)
  <1> USE DEF IsDevice, SameMemory,
              Det!Does, Det!Reply, Det!Answer, Sim!Ignored, Sim!AlwaysOk, Sim!Answer
  <1>1. \A a \in restore_settings(d, path) : SameMemory(d, a.dev)
    <2> DEFINE W == [c1 \in DOMAIN d.window |-> [w1 \in DOMAIN d.window[c1] |-> FileWindow]]
               T == [c1 \in DOMAIN d.thres |-> FileThreshold]
               after == [d EXCEPT !.window = W, !.thres = T]
    <2>1. SameMemory(d, after) /\ SameMemory(d, d)
      <3> HIDE DEF W, T
      <3>1. QED
        OBVIOUS
    <2>2. ASSUME ~Simulated(d), NEW a \in restore_settings(d, path)
          PROVE  a.dev \in {d, after}
      <3>1. a \in Det!Reply("restore_settings", d, path, <<>>, after)
        BY <2>2, Zenon DEF restore_settings, Det!xsp3Api_restore_settings
      <3> HIDE DEF after
      <3>2. QED
        BY <3>1, ReplyLeaves
    <2>3. ASSUME Simulated(d), NEW a \in restore_settings(d, path)
          PROVE  a.dev = d
      BY <2>3 DEF restore_settings, Sim!xsp3Api_restore_settings
    <2> HIDE DEF after, SameMemory
    <2>4. QED
      BY <2>1, <2>2, <2>3
  <1>2. \A a \in set_window(d, path, c, w, low, high) : SameMemory(d, a.dev)
    BY DEF set_window, Det!xsp3Api_set_window, Sim!xsp3Api_set_window
  <1>3. \A a \in set_good_thres(d, path, c, v) : SameMemory(d, a.dev)
    BY DEF set_good_thres, Det!xsp3Api_set_good_thres, Sim!xsp3Api_set_good_thres
  <1>4. \A a \in set_glob_timeA(d, path, c, v) : SameMemory(d, a.dev)
    BY DEF set_glob_timeA, Det!xsp3Api_set_glob_timeA, Sim!xsp3Api_set_glob_timeA
  <1> HIDE DEF IsDevice, SameMemory
  <1>5. QED
    BY <1>1, <1>2, <1>3, <1>4

LEMMA WindowKeepsMemory ==
  ASSUME IsDevice(dev), NEW c, NEW w, NEW window
  PROVE  \A a \in setWindow(c, w, window) : SameMemory(dev, a.dev)
  <1>1. \A low, high : \A a \in set_window(dev, handle, c, w, low, high) :
          SameMemory(dev, a.dev)
    BY WritesKeepMemory
  <1>2. SameMemory(dev, dev)
    BY DEF IsDevice, SameMemory
  <1>3. ASSUME NEW a \in setWindow(c, w, window)
        PROVE  a.dev = dev \/ a \in set_window(dev, handle, c, w, window[1], window[2])
    <2>1. \/ a = Answer("error", <<>>, dev)
          \/ a \in set_window(dev, handle, c, w, window[1], window[2])
      BY <1>3, Zenon DEF setWindow
    <2>2. QED
      BY <2>1 DEF Answer
  <1>4. QED
    BY <1>1, <1>2, <1>3

(* xsp3_config lays out the frames it is asked for; a simulator has none. *)
LEMMA ConfigLaysOut ==
  ASSUME NEW d, IsDevice(d), NEW n, NEW m, NEW a \in config(d, n, m)
  PROVE  /\ IsDevice(a.dev) /\ a.dev.kind = d.kind /\ a.dev.generation = d.generation
         /\ a.value[1] \in Int
         /\ a.value[1] >= 0 => Simulated(d) \/ a.dev.frames = n
         /\ a.value[1] < 0 => SameMemory(d, a.dev)
  <1> DEFINE laid == [d EXCEPT !.path = LibraryPath, !.frames = n, !.channels = m,
                               !.clocked = {}, !.formatted = {}, !.runFlags = "none"]
             lost == [d EXCEPT !.path = NoPath]
  <1> USE DEF IsDevice, SameMemory, LibraryPath, NoPath
  <1>1. IsDevice(laid) /\ laid.kind = d.kind /\ laid.generation = d.generation /\ laid.frames = n
    OBVIOUS
  <1>2. SameMemory(d, lost) /\ SameMemory(d, d)
    OBVIOUS
  <1>3. CASE Simulated(d)
    <2>1. a = [status |-> "ok", value |-> <<314158>>, dev |-> d]
      BY <1>3 DEF config, Sim!xsp3Api_config, Sim!AlwaysOk, Sim!Answer, Sim!SimulatorHandle
    <2>2. QED
      BY <1>2, <1>3, <2>1
  <1>4. CASE ~Simulated(d)
    <2>1. a \in {[status |-> "ok", value |-> <<LibraryPath>>, dev |-> laid],
                 [status |-> "error", value |-> <<NoPath>>, dev |-> lost]}
      BY <1>4, Zenon DEF config, Det!xsp3Api_config, Det!Answer, Det!LibraryPath, Det!NoPath
    <2> HIDE DEF laid, lost, IsDevice, SameMemory
    <2>2. QED
      BY <1>1, <1>2, <2>1 DEF SameMemory
  <1>5. QED
    BY <1>3, <1>4

(***************************************************************************)
(* An acquisition fits the memory.  Assumed of clients: they connect after *)
(* a disconnect, set ADNumImages while connected, and never configure      *)
(* fewer frames than the driver's limit; and of the installation, that the *)
(* limit of a Mini is not above the one the driver starts with.            *)
(***************************************************************************)
MemoryRules ==
  /\ {"ConnectWhenDisconnected", "ImagesWhenConnected", "ConfigCoversDriver"}
       \subseteq ClientRules
  /\ MiniFrames <= MaxDriverFrames

HasFields(p) ==
  {"numChannels", "configFrames", "driverFrames", "numImages", "runFlag", "savePath",
   "limits", "thres"} \subseteq DOMAIN p

IsCramped(d) == get_generation(d) = 2 /\ TotalChannels > 1

(* The parameters. *)
ImagesInv ==
  /\ HasFields(par)
  /\ par.configFrames \in Int /\ par.numImages \in Int
  /\ par.driverFrames \in {MaxDriverFrames, MiniFrames}
  /\ par.numImages <= MaxFrames /\ par.numImages <= par.driverFrames
  /\ par.configFrames >= par.driverFrames \/ par.configFrames >= MaxFrames

(* The memory of a connection covers what may be asked for. *)
LaidOutInv ==
  connected /\ ~Simulated(dev) =>
    dev.frames \in Int /\ (dev.frames >= par.driverFrames \/ dev.frames >= MaxFrames)

(* The handler in progress. *)
HandlerInv ==
  /\ pc = "idle" => command = "none"
  /\ command = "connect" => connected
  /\ pc = "clocks" => command = "connect"

(* The driver's limit of a Mini is lowered before anything is asked of it. *)
LoweredInv ==
  IsCramped(dev) =>
    \/ par.driverFrames = MiniFrames
    \/ par.numImages = 0 /\ (connected => pc = "clocks")

MemInv == IsDevice(dev) /\ ImagesInv /\ LaidOutInv /\ HandlerInv /\ LoweredInv

LEMMA MemInit == Init => MemInv
  <1> SUFFICES ASSUME Init PROVE MemInv
    OBVIOUS
  <1>1. IsDevice(dev)
    BY DEF Init, NewDevice, IsDevice
  <1>2. ImagesInv /\ par.numImages = 0
    BY SizesAssumption DEF Init, ImagesInv, HasFields
  <1>3. ~connected /\ pc = "idle" /\ command = "none"
    BY DEF Init
  <1>4. QED
    BY <1>1, <1>2, <1>3 DEF MemInv, LaidOutInv, HandlerInv, LoweredInv

(* Most steps leave both limits and the memory as they are. *)
KeepsFrames ==
  /\ SameMemory(dev, dev') /\ HasFields(par')
  /\ par'.configFrames = par.configFrames /\ par'.driverFrames = par.driverFrames
  /\ par'.numImages = par.numImages

KeepsHandler == HandlerInv' /\ (connected' => connected /\ (pc = "clocks" => pc' = "clocks"))

LEMMA QuietStep == MemInv /\ KeepsFrames /\ KeepsHandler => MemInv'
  <1> SUFFICES ASSUME MemInv, KeepsFrames, KeepsHandler PROVE MemInv'
    OBVIOUS
  <1>1. IsDevice(dev') /\ (Simulated(dev') <=> Simulated(dev)) /\ dev'.frames = dev.frames
        /\ IsCramped(dev') = IsCramped(dev)
    BY DEF KeepsFrames, SameMemory, Simulated, IsCramped, get_generation,
           Sim!xsp3Api_get_generation, Det!xsp3Api_get_generation
  <1>2. ImagesInv'
    BY DEF MemInv, KeepsFrames, ImagesInv
  <1>3. LaidOutInv'
    BY <1>1 DEF MemInv, KeepsFrames, KeepsHandler, LaidOutInv
  <1>4. LoweredInv'
    BY <1>1 DEF MemInv, KeepsFrames, KeepsHandler, LoweredInv
  <1>5. QED
    BY <1>1, <1>2, <1>3, <1>4 DEF MemInv, KeepsHandler

LEMMA SameDevice == MemInv => SameMemory(dev, dev) /\ HasFields(par)
  BY DEF MemInv, IsDevice, SameMemory, ImagesInv

LEMMA ReturnKeepsHandler ==
  ASSUME MemInv, NEW result, Return(result), pc # "clocks"
  PROVE  KeepsHandler
  BY DEF MemInv, Return, GoTo, KeepsHandler, HandlerInv

LEMMA RestoreSteps ==
  ASSUME MemInv, RestoreFile \/ FormatRuns \/ SetRunFlags \/ WriteTriggerMode
  PROVE  MemInv'
  <1>1. SameMemory(dev, dev) /\ HasFields(par) /\ IsDevice(dev)
    BY SameDevice DEF MemInv
  <1>2. SameMemory(dev, dev') /\ UNCHANGED par
    <2>1. CASE RestoreFile
      BY <1>1, <2>1, WritesKeepMemory DEF RestoreFile, Call
    <2>2. CASE FormatRuns
      BY <1>1, <2>2, SetUpKeepsMemory DEF FormatRuns, CallOn
    <2>3. CASE SetRunFlags
      BY <1>1, <2>3, SetUpKeepsMemory DEF SetRunFlags
    <2>4. CASE WriteTriggerMode
      BY <1>1, <2>4, WritesKeepMemory DEF WriteTriggerMode, Call
    <2>5. QED
      BY <2>1, <2>2, <2>3, <2>4
  <1>3. KeepsFrames
    BY <1>1, <1>2 DEF KeepsFrames
  <1>4. KeepsHandler
    <2>1. CASE RestoreFile \/ FormatRuns
      BY <2>1 DEF MemInv, RestoreFile, FormatRuns, GoTo, Again, KeepsHandler, HandlerInv
    <2>2. CASE SetRunFlags
      <3>1. pc # "clocks" /\ (Proceed("sca5") \/ Return("error"))
        BY <2>2 DEF SetRunFlags
      <3>2. QED
        BY <3>1, ReturnKeepsHandler DEF MemInv, Proceed, GoTo, KeepsHandler, HandlerInv
    <2>3. CASE WriteTriggerMode
      <3>1. /\ pc = "trigger"
            /\ \/ Again /\ UNCHANGED <<connected, command>>
               \/ Proceed("dtc") \/ Return("error")
        BY <2>3 DEF WriteTriggerMode
      <3>2. QED
        BY <3>1, ReturnKeepsHandler DEF MemInv, Proceed, Again, GoTo, KeepsHandler, HandlerInv
    <2>4. QED
      BY <2>1, <2>2, <2>3
  <1>5. QED
    BY <1>3, <1>4, QuietStep

LEMMA WindowSteps ==
  ASSUME MemInv, WriteWindow5 \/ WriteWindow6
  PROVE  MemInv'
  <1>1. SameMemory(dev, dev) /\ HasFields(par) /\ IsDevice(dev)
    BY SameDevice DEF MemInv
  <1>2. ASSUME NEW step, NEW after, NEW w, WriteWindows(step, w, after),
               step # "clocks", after \notin {"idle", "clocks"}, step # "idle"
        PROVE  MemInv'
    <2>1. SameMemory(dev, dev') /\ UNCHANGED par
      <3>1. \/ dev' = dev
            \/ \E a \in setWindow(index, w, par.limits[index][w]) : dev' = a.dev
        BY <1>2 DEF WriteWindows, Call
      <3>2. \A a \in setWindow(index, w, par.limits[index][w]) : SameMemory(dev, a.dev)
        BY <1>1, WindowKeepsMemory
      <3>3. QED
        BY <1>1, <1>2, <3>1, <3>2 DEF WriteWindows
    <2>2. KeepsFrames
      BY <1>1, <2>1 DEF KeepsFrames
    <2>3. KeepsHandler
      BY <1>2 DEF MemInv, WriteWindows, GoTo, Again, KeepsHandler, HandlerInv
    <2>4. QED
      BY <2>2, <2>3, QuietStep
  <1>3. QED
    BY <1>2 DEF WriteWindow5, WriteWindow6

LEMMA ReadingSteps ==
  ASSUME MemInv, readSCAParams \/ readDTCParams \/ readTrigB
  PROVE  MemInv'
  <1>1. SameMemory(dev, dev) /\ HasFields(par)
    BY SameDevice
  <1>2. UNCHANGED dev
    BY DEF readSCAParams, readDTCParams, readTrigB
  <1>3. KeepsFrames
    <2>1. CASE readSCAParams
      <3>1. \A c, w5, w6, th :
              LET p == ReadBack(c, w5, w6, th)
              IN  /\ HasFields(p) /\ p.configFrames = par.configFrames
                  /\ p.driverFrames = par.driverFrames /\ p.numImages = par.numImages
        BY <1>1 DEF ReadBack, HasFields
      <3>2. \/ UNCHANGED par
            \/ \E w5, w6, th : par' = ReadBack(index, w5, w6, th)
        BY <2>1 DEF readSCAParams
      <3>3. QED
        BY <1>1, <1>2, <3>1, <3>2 DEF KeepsFrames
    <2>2. CASE readDTCParams \/ readTrigB
      BY <1>1, <1>2, <2>2 DEF readDTCParams, readTrigB, KeepsFrames
    <2>3. QED
      BY <2>1, <2>2
  <1>4. KeepsHandler
    <2>1. /\ pc \in {"readback", "dtc", "width"}
          /\ \/ Again /\ UNCHANGED <<connected, command>>
             \/ Proceed("trigger") \/ Proceed("width") \/ \E result : Return(result)
      BY DEF readSCAParams, readDTCParams, readTrigB
    <2>2. QED
      BY <2>1, ReturnKeepsHandler DEF MemInv, Proceed, Again, GoTo, KeepsHandler, HandlerInv
  <1>5. QED
    BY <1>3, <1>4, QuietStep

LEMMA ConnectSteps ==
  ASSUME MemoryRules, MemInv, StartsConnect \/ SetUpClocks \/ ClocksDone
  PROVE  MemInv'
  <1>a. SameMemory(dev, dev) /\ HasFields(par) /\ IsDevice(dev) /\ ImagesInv
    BY SameDevice DEF MemInv
  <1>b. MiniFrames \in Int /\ MaxDriverFrames \in Int /\ MaxFrames \in Int
        /\ 0 <= MiniFrames /\ MiniFrames <= MaxDriverFrames
    BY SizesAssumption DEF MemoryRules
  <1>1. CASE StartsConnect
    <2>1. PICK a \in config(dev, par.configFrames, par.numChannels) :
            /\ dev' = a.dev /\ handle' = a.value[1]
            /\ \/ /\ handle' >= 0 /\ pc' = "clocks" /\ connected' = TRUE
                  /\ command' = "connect"
               \/ handle' < 0 /\ UNCHANGED <<connected, pc, command>>
      BY <1>1 DEF StartsConnect, GoTo
    <2>2. pc = "idle" /\ ~connected /\ par' = par
      BY <1>1 DEF StartsConnect, MemoryRules
    <2>3. /\ IsDevice(dev') /\ (Simulated(dev') <=> Simulated(dev))
          /\ IsCramped(dev') = IsCramped(dev)
      BY <1>a, <2>1, ConfigLaysOut
      DEF Simulated, IsCramped, get_generation, Sim!xsp3Api_get_generation,
          Det!xsp3Api_get_generation
    <2>4. connected' => pc' = "clocks" /\ (Simulated(dev) \/ dev'.frames = par.configFrames)
      BY <1>a, <2>1, <2>2, ConfigLaysOut
    <2>5. ImagesInv' /\ LoweredInv'
      BY <1>a, <2>2, <2>3, <2>4 DEF MemInv, ImagesInv, LoweredInv
    <2>6. LaidOutInv'
      BY <1>a, <2>2, <2>3, <2>4 DEF ImagesInv, LaidOutInv
    <2>7. HandlerInv'
      BY <2>1, <2>2 DEF MemInv, HandlerInv
    <2>8. QED
      BY <2>3, <2>5, <2>6, <2>7 DEF MemInv
  <1>2. CASE SetUpClocks
    <2>1. SameMemory(dev, dev') /\ UNCHANGED par
      BY <1>2, <1>a, SetUpKeepsMemory DEF SetUpClocks, Call
    <2>2. KeepsFrames
      BY <1>a, <2>1 DEF KeepsFrames
    <2>3. KeepsHandler
      BY <1>2 DEF MemInv, SetUpClocks, Again, KeepsHandler, HandlerInv
    <2>4. QED
      BY <2>2, <2>3, QuietStep
  <1>3. CASE ClocksDone
    <2>1. pc = "clocks" /\ par' = Shrunk /\ dev' = dev
      BY <1>3 DEF ClocksDone
    <2>2. HandlerInv' /\ (connected' => connected) /\ connected
      BY <1>3 DEF ClocksDone, Proceed, Return, GoTo, MemInv, HandlerInv
    <2>3. CASE IsCramped(dev)
      <3>1. /\ HasFields(par') /\ par'.configFrames = MiniFrames
            /\ par'.driverFrames = MiniFrames /\ par'.numImages = par.numImages
        BY <1>a, <2>1, <2>3 DEF Shrunk, IsCramped, HasFields
      <3>2. par.numImages <= MiniFrames
        BY <1>a, <1>b, <2>3 DEF MemInv, ImagesInv, LoweredInv
      <3>3. ImagesInv' /\ LoweredInv'
        BY <1>a, <1>b, <3>1, <3>2 DEF ImagesInv, LoweredInv
      <3>4. LaidOutInv'
        BY <1>a, <1>b, <2>1, <2>2, <3>1 DEF MemInv, ImagesInv, LaidOutInv
      <3>5. QED
        BY <1>a, <2>1, <2>2, <3>3, <3>4 DEF MemInv
    <2>4. CASE ~IsCramped(dev)
      <3>1. par' = par
        BY <2>1, <2>4 DEF Shrunk, IsCramped
      <3>2. ImagesInv' /\ LoweredInv' /\ LaidOutInv'
        BY <1>a, <2>1, <2>2, <2>4, <3>1 DEF MemInv, ImagesInv, LoweredInv, LaidOutInv
      <3>3. QED
        BY <1>a, <2>1, <2>2, <3>2 DEF MemInv
    <2>5. QED
      BY <2>3, <2>4
  <1>4. QED
    BY <1>1, <1>2, <1>3

LEMMA FrameRequestSteps ==
  ASSUME MemoryRules, MemInv, SetNumImages \/ SetNumFramesConfig
  PROVE  MemInv'
  <1>a. HasFields(par) /\ IsDevice(dev) /\ ImagesInv
    BY SameDevice DEF MemInv
  <1>b. MiniFrames \in Int /\ MaxDriverFrames \in Int /\ MaxFrames \in Int
    BY SizesAssumption
  <1>1. UNCHANGED <<dev, connected, pc, command>> /\ pc = "idle"
    BY DEF SetNumImages, SetNumFramesConfig, Stores, run
  <1>2. CASE SetNumImages
    <2>1. connected
      BY <1>2 DEF SetNumImages, MemoryRules
    <2>2. PICK n \in FrameRequests : n <= par.driverFrames /\ n <= MaxFrames
                                    /\ par' = [par EXCEPT !.numImages = n]
      BY <1>2 DEF SetNumImages, Stores
    <2>3. /\ HasFields(par') /\ par'.configFrames = par.configFrames
          /\ par'.driverFrames = par.driverFrames /\ par'.numImages = n
      BY <1>a, <2>2 DEF HasFields
    <2>4. n \in Int
      BY RequestAssumption
    <2>5. ImagesInv'
      BY <1>a, <2>2, <2>3, <2>4 DEF ImagesInv
    <2>6. LoweredInv' /\ LaidOutInv' /\ HandlerInv'
      BY <1>1, <2>1, <2>3 DEF MemInv, LoweredInv, LaidOutInv, HandlerInv
    <2>7. QED
      BY <1>a, <1>1, <2>5, <2>6 DEF MemInv
  <1>3. CASE SetNumFramesConfig
    <2>1. PICK n \in FrameRequests : n >= par.driverFrames
                                    /\ par' = [par EXCEPT !.configFrames = n]
      BY <1>3 DEF SetNumFramesConfig, Stores, MemoryRules
    <2>2. /\ HasFields(par') /\ par'.configFrames = n
          /\ par'.driverFrames = par.driverFrames /\ par'.numImages = par.numImages
      BY <1>a, <2>1 DEF HasFields
    <2>3. n \in Int
      BY RequestAssumption
    <2>4. ImagesInv'
      BY <1>a, <2>1, <2>2, <2>3 DEF ImagesInv
    <2>5. LoweredInv' /\ LaidOutInv' /\ HandlerInv'
      BY <1>1, <2>2 DEF MemInv, LoweredInv, LaidOutInv, HandlerInv
    <2>6. QED
      BY <1>a, <1>1, <2>4, <2>5 DEF MemInv
  <1>4. QED
    BY <1>2, <1>3

LEMMA OtherClients ==
  ASSUME MemInv, \/ StartsRestore \/ Disconnect \/ SetLimit \/ SetThreshold \/ SetNumChannels
                 \/ SetRunFlagsParam \/ SetSavePath \/ SaveSettings
  PROVE  MemInv'
  <1>a. SameMemory(dev, dev) /\ HasFields(par) /\ IsDevice(dev)
    BY SameDevice DEF MemInv
  <1>1. KeepsHandler
    <2>1. CASE StartsRestore
      BY <2>1 DEF MemInv, StartsRestore, GoTo, KeepsHandler, HandlerInv
    <2>2. CASE ~StartsRestore
      <3>1. UNCHANGED <<pc, command>> /\ pc = "idle" /\ (connected' => connected)
        <4>1. CASE Disconnect
          BY <4>1 DEF Disconnect, run
        <4>2. CASE SetLimit
          BY <4>2 DEF SetLimit, run
        <4>3. CASE SetThreshold \/ SaveSettings
          BY <4>3 DEF SetThreshold, SaveSettings, run
        <4>4. CASE SetNumChannels \/ SetRunFlagsParam \/ SetSavePath
          BY <4>4 DEF SetNumChannels, SetRunFlagsParam, SetSavePath, Stores, run
        <4>5. QED
          BY <2>2, <4>1, <4>2, <4>3, <4>4
      <3>2. QED
        BY <3>1 DEF MemInv, KeepsHandler, HandlerInv
    <2>3. QED
      BY <2>1, <2>2
  <1>2. KeepsFrames
    <2>1. CASE StartsRestore
      BY <1>a, <2>1 DEF StartsRestore, KeepsFrames
    <2>2. CASE Disconnect
      BY <1>a, <2>2, SetUpKeepsMemory DEF Disconnect, KeepsFrames
    <2>3. CASE SetLimit
      <3>0. PICK cell \in Edited, value \in Limits, side \in {1, 2} :
              LET window == [par.limits[cell[1]][cell[2]] EXCEPT ![side] = value]
              IN  \E a \in setWindow(cell[1], cell[2], window) :
                    /\ dev' = a.dev
                    /\ par' = [par EXCEPT !.limits[cell[1]][cell[2]] = window]
        BY <2>3, Zenon DEF SetLimit
      <3> DEFINE c == cell[1]  w == cell[2]
                 window == [par.limits[c][w] EXCEPT ![side] = value]
      <3>1. /\ \E a \in setWindow(c, w, window) : dev' = a.dev
            /\ par' = [par EXCEPT !.limits[c][w] = window]
        BY <3>0, Zenon
      <3> HIDE DEF c, w, window
      <3>2. SameMemory(dev, dev')
        BY <1>a, <3>1, WindowKeepsMemory
      <3>3. QED
        BY <1>a, <3>1, <3>2 DEF KeepsFrames, HasFields
    <2>4. CASE SetThreshold
      <3>1. PICK c, v :
              /\ \E a \in set_good_thres(dev, handle, c, v) : dev' = a.dev
              /\ par' = [par EXCEPT !.thres[c] = v]
        BY <2>4 DEF SetThreshold
      <3>2. SameMemory(dev, dev')
        BY <1>a, <3>1, WritesKeepMemory
      <3>3. QED
        BY <1>a, <3>1, <3>2 DEF KeepsFrames, HasFields
    <2>5. CASE SetNumChannels \/ SetRunFlagsParam \/ SetSavePath
      <3>1. dev' = dev
        BY <2>5 DEF SetNumChannels, SetRunFlagsParam, SetSavePath, Stores
      <3>2. \E v : \/ par' = [par EXCEPT !.numChannels = v]
                  \/ par' = [par EXCEPT !.runFlag = v]
                  \/ par' = [par EXCEPT !.savePath = v]
        BY <2>5 DEF SetNumChannels, SetRunFlagsParam, SetSavePath, Stores
      <3>3. QED
        BY <1>a, <3>1, <3>2 DEF KeepsFrames, HasFields
    <2>6. CASE SaveSettings
      BY <1>a, <2>6 DEF SaveSettings, KeepsFrames, HasFields
    <2>7. QED
      BY <2>1, <2>2, <2>3, <2>4, <2>5, <2>6
  <1>3. QED
    BY <1>1, <1>2, QuietStep

LEMMA MemStep ==
  ASSUME MemoryRules
  PROVE  MemInv /\ [Next]_vars => MemInv'
  <1> SUFFICES ASSUME MemInv, [Next]_vars PROVE MemInv'
    OBVIOUS
  <1>1. CASE Steps
    BY <1>1, ConnectSteps, RestoreSteps, WindowSteps, ReadingSteps DEF Steps
  <1>2. CASE Clients
    BY <1>2, ConnectSteps, FrameRequestSteps, OtherClients DEF Clients
  <1>3. CASE UNCHANGED vars
    BY <1>3 DEF vars, run, MemInv, ImagesInv, LaidOutInv, HandlerInv, LoweredInv
  <1>4. QED
    BY <1>1, <1>2, <1>3 DEF Next

(***************************************************************************)
(* What ADNumImages asks for fits the memory the connection laid out, on a *)
(* Mini, whose limit is lowered after the memory is laid out, too.         *)
(***************************************************************************)
THEOREM AcquisitionsFit ==
  ASSUME MemoryRules
  PROVE  Spec => []ImagesInMemory
  <1>1. MemInv => ImagesInMemory
    BY SizesAssumption DEF MemInv, ImagesInv, LaidOutInv, ImagesInMemory
  <1>2. QED
    BY <1>1, MemInit, MemStep, PTL DEF Spec

(***************************************************************************)
(* Saved settings.                                                         *)
(***************************************************************************)
PathInv ==
  /\ HasFields(par) /\ DOMAIN files = Dirs /\ par.savePath \in Dirs \union {"none"}
  /\ SavePathIsFresh

LEMMA PathInit == Init => PathInv
  BY DEF Init, PathInv, HasFields, SavePathIsFresh

(* Every other step leaves the path and the directories alone. *)
LEMMA PathKept ==
  PathInv /\ [Next]_vars /\ ~SetSavePath /\ ~SaveSettings =>
    HasFields(par') /\ par'.savePath = par.savePath /\ files' = files
  <1> SUFFICES ASSUME PathInv, [Next]_vars, ~SetSavePath, ~SaveSettings
               PROVE  HasFields(par') /\ par'.savePath = par.savePath /\ files' = files
    OBVIOUS
  <1>a. HasFields(par)
    BY DEF PathInv
  <1>1. CASE Steps
    <2>1. files' = files
      BY <1>1
      DEF Steps, SetUpClocks, ClocksDone, RestoreFile, FormatRuns, SetRunFlags,
          WriteWindow5, WriteWindow6, WriteWindows, readSCAParams, WriteTriggerMode,
          readDTCParams, readTrigB
    <2>2. CASE ClocksDone
      BY <1>a, <2>1, <2>2 DEF ClocksDone, Shrunk, HasFields
    <2>3. CASE readSCAParams
      <3>1. \/ par' = par
            \/ \E w5, w6, th : par' = ReadBack(index, w5, w6, th)
        BY <2>3 DEF readSCAParams
      <3>2. \A c, w5, w6, th : /\ HasFields(ReadBack(c, w5, w6, th))
                              /\ ReadBack(c, w5, w6, th).savePath = par.savePath
        BY <1>a DEF ReadBack, HasFields
      <3>3. QED
        BY <1>a, <2>1, <3>1, <3>2
    <2>4. CASE ~ClocksDone /\ ~readSCAParams
      BY <1>a, <1>1, <2>1, <2>4
      DEF Steps, SetUpClocks, RestoreFile, FormatRuns, SetRunFlags, WriteWindow5,
          WriteWindow6, WriteWindows, WriteTriggerMode, readDTCParams, readTrigB
    <2>5. QED
      BY <2>2, <2>3, <2>4
  <1>2. CASE Clients
    <2>1. files' = files
      BY <1>2
      DEF Clients, StartsConnect, StartsRestore, Disconnect, SetLimit, SetThreshold,
          SetNumChannels, SetNumImages, SetNumFramesConfig, SetRunFlagsParam, Stores
    <2>2. CASE StartsConnect \/ StartsRestore \/ Disconnect
      BY <1>a, <2>1, <2>2 DEF StartsConnect, StartsRestore, Disconnect
    <2>3. CASE SetLimit
      <3>1. \E cell \in Edited, value \in Limits, side \in {1, 2} :
              par' = [par EXCEPT !.limits[cell[1]][cell[2]] =
                                    [par.limits[cell[1]][cell[2]] EXCEPT ![side] = value]]
        BY <2>3, Zenon DEF SetLimit
      <3>2. QED
        BY <1>a, <2>1, <3>1 DEF HasFields
    <2>4. CASE SetThreshold
      <3>1. \E c, v : par' = [par EXCEPT !.thres[c] = v]
        BY <2>4 DEF SetThreshold
      <3>2. QED
        BY <1>a, <2>1, <3>1 DEF HasFields
    <2>5. CASE \/ SetNumChannels \/ SetNumImages \/ SetNumFramesConfig \/ SetRunFlagsParam
      <3>1. \E v : \/ par' = [par EXCEPT !.numChannels = v]
                  \/ par' = [par EXCEPT !.numImages = v]
                  \/ par' = [par EXCEPT !.configFrames = v]
                  \/ par' = [par EXCEPT !.runFlag = v]
        BY <2>5 DEF SetNumChannels, SetNumImages, SetNumFramesConfig, SetRunFlagsParam, Stores
      <3>2. QED
        BY <1>a, <2>1, <3>1 DEF HasFields
    <2>6. QED
      BY <1>2, <2>2, <2>3, <2>4, <2>5 DEF Clients
  <1>3. CASE UNCHANGED vars
    BY <1>a, <1>3 DEF vars
  <1>4. QED
    BY <1>1, <1>2, <1>3 DEF Next

LEMMA PathStep == PathInv /\ [Next]_vars => PathInv'
  <1> SUFFICES ASSUME PathInv, [Next]_vars PROVE PathInv'
    OBVIOUS
  <1> USE DEF PathInv, SavePathIsFresh
  <1>1. CASE SetSavePath
    <2>1. PICK dir \in Dirs : files[dir] = "empty" /\ par' = [par EXCEPT !.savePath = dir]
      BY <1>1 DEF SetSavePath, Stores
    <2>2. HasFields(par') /\ par'.savePath = dir /\ files' = files
      BY <1>1, <2>1 DEF SetSavePath, Stores, HasFields
    <2>3. QED
      BY <2>1, <2>2
  <1>2. CASE SaveSettings
    <2>1. PICK a \in save_settings(dev, handle) :
            /\ files' \in Saved(par.savePath, a.status)
            /\ par' = IF a.status = "ok" THEN [par EXCEPT !.savePath = "none"] ELSE par
      BY <1>2 DEF SaveSettings
    <2>2. DOMAIN files' = Dirs
      BY <2>1 DEF Saved
    <2>3. CASE a.status = "ok"
      <3>1. HasFields(par') /\ par'.savePath = "none"
        BY <2>1, <2>3 DEF HasFields
      <3>2. QED
        BY <2>2, <3>1
    <2>4. CASE a.status # "ok"
      <3>1. par' = par
        BY <2>1, <2>4
      <3>2. \/ files' = files
            \/ /\ par.savePath # "none"
               /\ \E content \in {files[par.savePath], "partial"} :
                    files' = [files EXCEPT ![par.savePath] = content]
        BY <2>1, <2>4 DEF Saved
      <3>3. QED
        BY <2>2, <3>1, <3>2
    <2>5. QED
      BY <2>3, <2>4
  <1>3. CASE ~SetSavePath /\ ~SaveSettings
    BY <1>3, PathKept
  <1>4. QED
    BY <1>1, <1>2, <1>3

(***************************************************************************)
(* The next save never goes to a directory that holds a configuration,     *)
(* whichever saves and calls of the library have failed before.            *)
(***************************************************************************)
THEOREM SavesAreFresh == Spec => []SavePathIsFresh
  <1>1. PathInv => SavePathIsFresh
    BY DEF PathInv
  <1>2. QED
    BY <1>1, PathInit, PathStep, PTL DEF Spec
-----------------------------------------------------------------------------
(***************************************************************************)
(* The limits a client reads are never inverted.  They come from clients,  *)
(* who are checked, and from the device, where the windows of a simulator  *)
(* start out with whatever was in memory.                                  *)
(***************************************************************************)
Pairs        == Int \X Int
OrderedPairs == {x \in Pairs : x[1] <= x[2]}

HasWindow(d) == {"kind", "window"} \subseteq DOMAIN d

SameWindow(d, e) == HasWindow(e) /\ e.kind = d.kind /\ e.window = d.window

(***************************************************************************)
(* What the methods do to the windows.                                     *)
(***************************************************************************)
LEMMA SetUpKeepsWindow ==
  ASSUME NEW d, HasWindow(d), NEW path, NEW i, NEW v
  PROVE  /\ \A a \in clocks_setup(d, path, i) : SameWindow(d, a.dev)
         /\ \A a \in format_run(d, path, i) : SameWindow(d, a.dev)
         /\ \A a \in set_run_flags(d, path, v) : SameWindow(d, a.dev)
         /\ \A a \in close(d, path) : SameWindow(d, a.dev)
  <1> USE DEF HasWindow, SameWindow,
              Det!Does, Det!Reply, Det!Answer, Sim!Ignored, Sim!AlwaysOk, Sim!Answer
  <1>1. \A a \in clocks_setup(d, path, i) : SameWindow(d, a.dev)
    BY DEF clocks_setup, Det!xsp3Api_clocks_setup, Sim!xsp3Api_clocks_setup
  <1>2. \A a \in format_run(d, path, i) : SameWindow(d, a.dev)
    BY DEF format_run, Det!xsp3Api_format_run, Sim!xsp3Api_format_run
  <1>3. \A a \in set_run_flags(d, path, v) : SameWindow(d, a.dev)
    BY DEF set_run_flags, Det!xsp3Api_set_run_flags, Sim!xsp3Api_set_run_flags
  <1>4. \A a \in close(d, path) : SameWindow(d, a.dev)
    BY DEF close, Det!xsp3Api_close, Sim!xsp3Api_close
  <1> HIDE DEF HasWindow, SameWindow
  <1>5. QED
    BY <1>1, <1>2, <1>3, <1>4

LEMMA WritesKeepWindow ==
  ASSUME NEW d, HasWindow(d), NEW path, NEW c, NEW v
  PROVE  /\ \A a \in set_good_thres(d, path, c, v) : SameWindow(d, a.dev)
         /\ \A a \in set_glob_timeA(d, path, c, v) : SameWindow(d, a.dev)
  <1> USE DEF HasWindow, SameWindow,
              Det!Does, Det!Reply, Det!Answer, Sim!Ignored, Sim!AlwaysOk, Sim!Answer
  <1>1. \A a \in set_good_thres(d, path, c, v) : SameWindow(d, a.dev)
    BY DEF set_good_thres, Det!xsp3Api_set_good_thres, Sim!xsp3Api_set_good_thres
  <1>2. \A a \in set_glob_timeA(d, path, c, v) : SameWindow(d, a.dev)
    BY DEF set_glob_timeA, Det!xsp3Api_set_glob_timeA, Sim!xsp3Api_set_glob_timeA
  <1> HIDE DEF HasWindow, SameWindow
  <1>3. QED
    BY <1>1, <1>2

LEMMA ConfigKeepsWindow ==
  ASSUME NEW d, HasWindow(d), NEW n, NEW m, NEW a \in config(d, n, m)
  PROVE  SameWindow(d, a.dev)
  <1> DEFINE laid == [d EXCEPT !.path = LibraryPath, !.frames = n, !.channels = m,
                               !.clocked = {}, !.formatted = {}, !.runFlags = "none"]
             lost == [d EXCEPT !.path = NoPath]
  <1> USE DEF HasWindow, SameWindow, LibraryPath, NoPath
  <1>1. SameWindow(d, laid) /\ SameWindow(d, lost) /\ SameWindow(d, d)
    OBVIOUS
  <1>2. CASE Simulated(d)
    <2>1. a = [status |-> "ok", value |-> <<314158>>, dev |-> d]
      BY <1>2 DEF config, Sim!xsp3Api_config, Sim!AlwaysOk, Sim!Answer, Sim!SimulatorHandle
    <2>2. QED
      BY <1>1, <2>1
  <1>3. CASE ~Simulated(d)
    <2>1. a \in {[status |-> "ok", value |-> <<LibraryPath>>, dev |-> laid],
                 [status |-> "error", value |-> <<NoPath>>, dev |-> lost]}
      BY <1>3, Zenon DEF config, Det!xsp3Api_config, Det!Answer, Det!LibraryPath, Det!NoPath
    <2> HIDE DEF laid, lost, HasWindow, SameWindow
    <2>2. QED
      BY <1>1, <2>1
  <1>4. QED
    BY <1>2, <1>3

(* A detector takes all its windows from the file, or none. *)
LEMMA RestoreWindows ==
  ASSUME NEW d, HasWindow(d), d.window \in Windows, NEW path,
         NEW a \in restore_settings(d, path)
  PROVE  /\ HasWindow(a.dev) /\ a.dev.kind = d.kind /\ a.dev.window \in Windows
         /\ a.status = "ok" /\ ~Simulated(d) =>
              a.dev.window \in [Channels -> [{0, 1} -> OrderedPairs]]
  <1> DEFINE W == [c1 \in DOMAIN d.window |-> [w1 \in DOMAIN d.window[c1] |-> FileWindow]]
             T == [c1 \in DOMAIN d.thres |-> FileThreshold]
             after == [d EXCEPT !.window = W, !.thres = T]
  <1>1. W \in [Channels -> [{0, 1} -> OrderedPairs]] /\ W \in Windows
    BY FileAssumption DEF Windows, OrderedPairs, Pairs
  <1>2. HasWindow(after) /\ after.kind = d.kind /\ after.window = W
    <2> HIDE DEF W, T
    <2>1. QED
      BY DEF HasWindow
  <1>3. CASE ~Simulated(d)
    <2>1. a \in Det!Reply("restore_settings", d, path, <<>>, after)
      BY <1>3, Zenon DEF restore_settings, Det!xsp3Api_restore_settings, Det!Does
    <2> HIDE DEF after, W
    <2>2. \/ a.dev = d /\ a.status = "error"
          \/ a.dev = after
      BY <2>1 DEF Det!Reply, Det!Answer
    <2>3. QED
      BY <1>1, <1>2, <2>2
  <1>4. CASE Simulated(d)
    <2>1. a.dev = d
      BY <1>4 DEF restore_settings, Sim!xsp3Api_restore_settings, Sim!Ignored,
                  Sim!AlwaysOk, Sim!Answer
    <2>2. QED
      BY <1>4, <2>1
  <1>5. QED
    BY <1>3, <1>4

(* A table of windows with one cell written. *)
WithCell(f, i, w, y) == [f EXCEPT ![i][w] = y]

(* A window is written as it is asked for; a simulator always does it. *)
LEMMA SetOneWindow ==
  ASSUME NEW d, HasWindow(d), NEW path, NEW c, NEW w, NEW low, NEW high,
         NEW a \in set_window(d, path, c, w, low, high)
  PROVE  /\ HasWindow(a.dev) /\ a.dev.kind = d.kind
         /\ \/ a.dev.window = d.window /\ ~Simulated(d)
            \/ a.dev.window = WithCell(d.window, c, w, <<low, high>>)
         /\ Simulated(d) => a.status = "ok"
  <1> DEFINE W == [d.window EXCEPT ![c][w] = <<low, high>>]
             after == [d EXCEPT !.window = W]
  <1>1. /\ HasWindow(after) /\ after.kind = d.kind
        /\ after.window = WithCell(d.window, c, w, <<low, high>>)
    <2>1. W = WithCell(d.window, c, w, <<low, high>>)
      BY DEF WithCell
    <2> HIDE DEF W
    <2>2. QED
      BY <2>1 DEF HasWindow
  <1>2. CASE ~Simulated(d)
    <2>1. a \in Det!Reply("set_window", d, path, <<>>, after)
      BY <1>2, Zenon DEF set_window, Det!xsp3Api_set_window, Det!Does
    <2> HIDE DEF after
    <2>2. a.dev \in {d, after}
      BY <2>1, ReplyLeaves
    <2>3. QED
      BY <1>1, <1>2, <2>2
  <1>3. CASE Simulated(d)
    <2>1. a = [status |-> "ok", value |-> <<>>, dev |-> after]
      BY <1>3 DEF set_window, Sim!xsp3Api_set_window, Sim!AlwaysOk, Sim!Answer
    <2> HIDE DEF after
    <2>2. QED
      BY <1>1, <2>1
  <1>4. QED
    BY <1>2, <1>3

(* A read tells what is there, or fails. *)
LEMMA GetWindow ==
  ASSUME NEW d, NEW path, NEW c, NEW w, NEW a \in get_window(d, path, c, w), a.status = "ok"
  PROVE  a.value = d.window[c][w]
  BY DEF get_window, Det!xsp3Api_get_window, Det!Tells, Det!Reply, Det!Answer,
         Sim!xsp3Api_get_window, Sim!AlwaysOk, Sim!Answer

(***************************************************************************)
(* The invariant: what is known of the windows on the way from the file to *)
(* the read-back.  Of a detector, all windows are ordered once the file is *)
(* loaded; of a simulator, those that have been written.                   *)
(***************************************************************************)
AllOrdered == dev.window \in [Channels -> [{0, 1} -> OrderedPairs]]

(* The channels below n have an ordered window w. *)
OrderedBelow(n, w) == \A c \in Channels : c < n => dev.window[c][w] \in OrderedPairs

ShapeInv ==
  /\ HasWindow(dev) /\ dev.window \in Windows
  /\ HasFields(par) /\ par.limits \in [Channels -> [{0, 1} -> OrderedPairs]]
  /\ par.numChannels \in 1 .. TotalChannels
  /\ index \in Nat

LoadedInv ==
  /\ pc \in {"format", "flags"} /\ status = "ok" =>
       connected /\ (~Simulated(dev) => AllOrdered)
  /\ pc \in {"sca5", "sca6", "readback"} => connected /\ (~Simulated(dev) => AllOrdered)

WrittenInv ==
  Simulated(dev) =>
    /\ pc \in {"sca5", "sca6"} => status = "ok"
    /\ pc = "sca5" => OrderedBelow(index, 0)
    /\ pc = "sca6" => OrderedBelow(par.numChannels, 0) /\ OrderedBelow(index, 1)
    /\ pc = "readback" => \A w \in {0, 1} : OrderedBelow(par.numChannels, w)

OrderInv == ShapeInv /\ LoadedInv /\ WrittenInv

LEMMA OrderInit == RawWindow \in Pairs /\ Init => OrderInv
  <1> SUFFICES ASSUME RawWindow \in Pairs, Init PROVE OrderInv
    OBVIOUS
  <1>1. HasWindow(dev) /\ dev.window = [c \in Channels |-> [w \in {0, 1} |-> RawWindow]]
    BY DEF Init, NewDevice, HasWindow
  <1>2. dev.window \in Windows
    BY <1>1 DEF Windows, Pairs
  <1>3. /\ HasFields(par) /\ par.numChannels = TotalChannels
        /\ par.limits = [c \in Channels |-> [w \in {0, 1} |-> <<0, 0>>]]
    BY DEF Init, HasFields
  <1>4. <<0, 0>> \in OrderedPairs
    BY DEF OrderedPairs, Pairs
  <1>5. par.limits \in [Channels -> [{0, 1} -> OrderedPairs]]
    BY <1>3, <1>4
  <1>6. ShapeInv
    BY <1>1, <1>2, <1>3, <1>5, SizesAssumption DEF ShapeInv, Init
  <1>7. QED
    BY <1>6 DEF OrderInv, LoadedInv, WrittenInv, Init

(* Steps outside of the loading and writing of windows. *)
Loading == {"format", "flags", "sca5", "sca6", "readback"}

LEMMA AsideStep ==
  ASSUME OrderInv, SameWindow(dev, dev'), HasFields(par'), par'.limits = par.limits,
         par'.numChannels \in 1 .. TotalChannels, index' \in Nat, pc' \notin Loading
  PROVE  OrderInv'
  BY DEF OrderInv, ShapeInv, LoadedInv, WrittenInv, SameWindow, Loading, HasWindow

(* Steps within it that touch neither. *)
LEMMA WithinStep ==
  ASSUME OrderInv, SameWindow(dev, dev'), UNCHANGED <<par, connected>>, index' \in Nat,
         pc \in {"format", "flags"}, pc' \in {"format", "flags"}, status' = "ok" => status = "ok"
  PROVE  OrderInv'
  <1>1. ShapeInv'
    BY DEF OrderInv, ShapeInv, SameWindow, HasWindow
  <1>2. (Simulated(dev') <=> Simulated(dev)) /\ (AllOrdered' <=> AllOrdered)
    BY DEF SameWindow, Simulated, AllOrdered
  <1>3. LoadedInv' /\ WrittenInv'
    BY <1>2 DEF OrderInv, LoadedInv, WrittenInv
  <1>4. QED
    BY <1>1, <1>3 DEF OrderInv

LEMMA ShapeFacts ==
  OrderInv => /\ HasWindow(dev) /\ HasFields(par) /\ SameWindow(dev, dev) /\ index \in Nat
              /\ par.numChannels \in 1 .. TotalChannels /\ index + 1 \in Nat /\ 0 \in Nat
  BY DEF OrderInv, ShapeInv, SameWindow

LEMMA ReturnAside ==
  ASSUME OrderInv, UNCHANGED <<dev, par>>, NEW result, Return(result)
  PROVE  OrderInv'
  BY ShapeFacts, AsideStep DEF Return, GoTo, Loading

LEMMA LoadSteps ==
  ASSUME OrderInv, RestoreFile \/ FormatRuns \/ SetRunFlags
  PROVE  OrderInv'
  <1>a. /\ HasWindow(dev) /\ HasFields(par) /\ SameWindow(dev, dev) /\ index \in Nat
        /\ par.numChannels \in 1 .. TotalChannels /\ index + 1 \in Nat /\ 0 \in Nat
    BY ShapeFacts
  <1>1. CASE RestoreFile
    <2>1. /\ HasWindow(dev') /\ dev'.kind = dev.kind /\ dev'.window \in Windows
          /\ status' = "ok" => connected /\ (~Simulated(dev) => AllOrdered')
      <3>1. CASE connected
        BY <1>1, <1>a, <3>1, RestoreWindows
        DEF RestoreFile, Call, OrderInv, ShapeInv, AllOrdered
      <3>2. CASE ~connected
        BY <1>1, <1>a, <3>2 DEF RestoreFile, OrderInv, ShapeInv
      <3>3. QED
        BY <3>1, <3>2
    <2>2. UNCHANGED <<par, connected>> /\ pc' = "format" /\ index' = 0
      BY <1>1 DEF RestoreFile, GoTo
    <2>3. ShapeInv'
      BY <1>a, <2>1, <2>2 DEF OrderInv, ShapeInv
    <2>4. LoadedInv' /\ WrittenInv'
      BY <2>1, <2>2 DEF LoadedInv, WrittenInv, Simulated
    <2>5. QED
      BY <2>3, <2>4 DEF OrderInv
  <1>2. CASE FormatRuns
    <2>1. SameWindow(dev, dev') /\ (status' = "ok" => status = "ok")
      BY <1>2, <1>a, SetUpKeepsWindow DEF FormatRuns, CallOn
    <2>2. /\ UNCHANGED <<par, connected>> /\ pc = "format" /\ pc' \in {"format", "flags"}
          /\ index' \in Nat
      BY <1>2, <1>a DEF FormatRuns, GoTo, Again
    <2>3. QED
      BY <2>1, <2>2, WithinStep
  <1>3. CASE SetRunFlags
    <2>1. /\ SameWindow(dev, dev') /\ UNCHANGED par /\ pc = "flags"
          /\ (Proceed("sca5") /\ status = "ok") \/ Return("error")
      BY <1>3, <1>a, SetUpKeepsWindow DEF SetRunFlags
    <2>2. CASE Return("error")
      BY <1>a, <2>1, <2>2, AsideStep DEF Return, GoTo, Loading
    <2>3. CASE Proceed("sca5") /\ status = "ok"
      <3>1. UNCHANGED <<connected, status>> /\ pc' = "sca5" /\ index' = 0
        BY <2>3 DEF Proceed, GoTo
      <3>2. (Simulated(dev') <=> Simulated(dev)) /\ (AllOrdered' <=> AllOrdered)
        BY <2>1 DEF SameWindow, Simulated, AllOrdered
      <3>3. ShapeInv'
        BY <1>a, <2>1, <3>1 DEF OrderInv, ShapeInv, SameWindow
      <3>4. LoadedInv'
        BY <2>1, <2>3, <3>1, <3>2 DEF OrderInv, LoadedInv
      <3>5. OrderedBelow(0, 0)'
        BY DEF OrderedBelow, Channels
      <3>6. WrittenInv'
        BY <2>3, <3>1, <3>5 DEF WrittenInv
      <3>7. QED
        BY <3>3, <3>4, <3>6 DEF OrderInv
    <2>4. QED
      BY <2>1, <2>2, <2>3
  <1>4. QED
    BY <1>1, <1>2, <1>3

LEMMA PairWritten ==
  ASSUME NEW f, f \in [Channels -> [{0, 1} -> Pairs]], NEW i \in Channels,
         NEW w \in {0, 1}, NEW y \in OrderedPairs
  PROVE  /\ WithCell(f, i, w, y) \in [Channels -> [{0, 1} -> Pairs]]
         /\ f \in [Channels -> [{0, 1} -> OrderedPairs]] =>
              WithCell(f, i, w, y) \in [Channels -> [{0, 1} -> OrderedPairs]]
         /\ WithCell(f, i, w, y)[i][w] \in OrderedPairs
         /\ \A c \in Channels, v \in {0, 1} :
              f[c][v] \in OrderedPairs => WithCell(f, i, w, y)[c][v] \in OrderedPairs
  <1> DEFINE row == [f[i] EXCEPT ![w] = y]
             g   == [f EXCEPT ![i] = row]
  <1>1. y \in Pairs
    BY DEF OrderedPairs
  <1>2. f[i] \in [{0, 1} -> Pairs]
    OBVIOUS
  <1>3. /\ row \in [{0, 1} -> Pairs]
        /\ f[i] \in [{0, 1} -> OrderedPairs] => row \in [{0, 1} -> OrderedPairs]
        /\ row[w] = y /\ \A v \in {0, 1} : row[v] = f[i][v] \/ row[v] = y
    BY <1>1, <1>2
  <1> HIDE DEF row
  <1>4. /\ g \in [Channels -> [{0, 1} -> Pairs]]
        /\ f \in [Channels -> [{0, 1} -> OrderedPairs]] =>
             g \in [Channels -> [{0, 1} -> OrderedPairs]]
        /\ g[i] = row /\ \A c \in Channels : c # i => g[c] = f[c]
    BY <1>3
  <1>5. g = WithCell(f, i, w, y)
    BY DEF row, WithCell
  <1> HIDE DEF g
  <1>6. g[i][w] \in OrderedPairs
    BY <1>3, <1>4
  <1>7. \A c \in Channels, v \in {0, 1} : f[c][v] \in OrderedPairs => g[c][v] \in OrderedPairs
    BY <1>3, <1>4
  <1>8. QED
    BY <1>4, <1>5, <1>6, <1>7

(* Writing one window of a channel in use, whatever comes of it. *)
LEMMA OneWrite ==
  ASSUME OrderInv, NEW w \in {0, 1}, index < par.numChannels, connected,
         ~Simulated(dev) => AllOrdered,
         NEW a \in setWindow(index, w, par.limits[index][w])
  PROVE  /\ HasWindow(a.dev) /\ a.dev.kind = dev.kind /\ a.dev.window \in Windows
         /\ ~Simulated(dev) => a.dev.window \in [Channels -> [{0, 1} -> OrderedPairs]]
         /\ Simulated(dev) =>
              /\ a.status = "ok" /\ a.dev.window[index][w] \in OrderedPairs
              /\ \A c \in Channels, v \in {0, 1} :
                   dev.window[c][v] \in OrderedPairs => a.dev.window[c][v] \in OrderedPairs
  <1> DEFINE x == par.limits[index][w]
  <1>1. index \in Channels /\ dev.window \in Windows /\ HasWindow(dev)
    BY SizesAssumption DEF OrderInv, ShapeInv, Channels
  <1>2. x \in OrderedPairs
    BY <1>1 DEF OrderInv, ShapeInv
  <1>3. x[1] \in Int /\ x[2] \in Int /\ ~(x[1] > x[2])
    BY <1>2 DEF OrderedPairs, Pairs
  <1>4. <<x[1], x[2]>> \in OrderedPairs
    BY <1>2 DEF OrderedPairs, Pairs
  <1>5. <<x[1], x[2]>> \in Pairs
    BY <1>3 DEF Pairs
  <1> HIDE DEF x
  <1>6. a \in setWindow(index, w, x)
    BY DEF x
  <1>7. a \in set_window(dev, handle, index, w, x[1], x[2])
    <2>1. ~(~connected \/ x[1] > x[2])
      BY <1>3
    <2>2. QED
      BY <1>6, <2>1, Zenon DEF setWindow
  <1>8. /\ HasWindow(a.dev) /\ a.dev.kind = dev.kind
        /\ \/ a.dev.window = dev.window /\ ~Simulated(dev)
           \/ a.dev.window = WithCell(dev.window, index, w, <<x[1], x[2]>>)
        /\ Simulated(dev) => a.status = "ok"
    BY <1>1, <1>7, SetOneWindow
  <1> DEFINE g == WithCell(dev.window, index, w, <<x[1], x[2]>>)
  <1>9. /\ dev.window \in [Channels -> [{0, 1} -> Pairs]]
        /\ ~Simulated(dev) => dev.window \in [Channels -> [{0, 1} -> OrderedPairs]]
    BY <1>1 DEF AllOrdered, Windows, Pairs
  <1>10. /\ g \in [Channels -> [{0, 1} -> Pairs]]
         /\ ~Simulated(dev) => g \in [Channels -> [{0, 1} -> OrderedPairs]]
         /\ g[index][w] \in OrderedPairs
         /\ \A c \in Channels, v \in {0, 1} :
              dev.window[c][v] \in OrderedPairs => g[c][v] \in OrderedPairs
    <2> HIDE DEF g
    <2>1. /\ WithCell(dev.window, index, w, <<x[1], x[2]>>) \in [Channels -> [{0, 1} -> Pairs]]
          /\ dev.window \in [Channels -> [{0, 1} -> OrderedPairs]] => 
               WithCell(dev.window, index, w, <<x[1], x[2]>>)
                 \in [Channels -> [{0, 1} -> OrderedPairs]]
          /\ WithCell(dev.window, index, w, <<x[1], x[2]>>)[index][w] \in OrderedPairs
          /\ \A c \in Channels, v \in {0, 1} :
               dev.window[c][v] \in OrderedPairs
                 => WithCell(dev.window, index, w, <<x[1], x[2]>>)[c][v] \in OrderedPairs
      BY <1>1, <1>4, <1>9, PairWritten
    <2>2. QED
      BY <1>9, <2>1 DEF g
  <1> HIDE DEF g
  <1>11. (a.dev.window = dev.window /\ ~Simulated(dev)) \/ a.dev.window = g
    BY <1>8 DEF g
  <1>12. a.dev.window \in [Channels -> [{0, 1} -> Pairs]]
    BY <1>9, <1>10, <1>11
  <1>13. QED
    BY <1>8, <1>9, <1>10, <1>11, <1>12 DEF Windows, Pairs

LEMMA WriteSteps ==
  ASSUME OrderInv, WriteWindow5 \/ WriteWindow6
  PROVE  OrderInv'
  <1>a. /\ HasWindow(dev) /\ HasFields(par) /\ SameWindow(dev, dev) /\ index \in Nat
        /\ par.numChannels \in 1 .. TotalChannels /\ index + 1 \in Nat /\ 0 \in Nat
    BY ShapeFacts
  <1>b. pc \in {"sca5", "sca6"} /\ connected /\ (~Simulated(dev) => AllOrdered)
    BY DEF WriteWindow5, WriteWindow6, WriteWindows, OrderInv, LoadedInv
  <1> DEFINE Pass(w) ==
        /\ (w = 0 /\ pc = "sca5") \/ (w = 1 /\ pc = "sca6")
        /\ UNCHANGED <<par, connected>>
        /\ \/ /\ index < par.numChannels /\ status = "ok" /\ pc' = pc /\ index' = index + 1
              /\ \E a \in setWindow(index, w, par.limits[index][w]) :
                   dev' = a.dev /\ status' = a.status
           \/ /\ index = par.numChannels \/ status # "ok"
              /\ (w = 0 /\ pc' = "sca6") \/ (w = 1 /\ pc' = "readback")
              /\ index' = 0
              /\ UNCHANGED <<dev, status>>
  <1>c. PICK w \in {0, 1} : Pass(w)
    <2>1. WriteWindow5 => Pass(0)
      BY DEF WriteWindow5, WriteWindows, Call, GoTo, Again
    <2>2. WriteWindow6 => Pass(1)
      BY DEF WriteWindow6, WriteWindows, Call, GoTo, Again
    <2> HIDE DEF Pass
    <2>3. QED
      BY <2>1, <2>2
  <1>1. CASE /\ UNCHANGED <<dev, status>> /\ index' = 0
             /\ (index = par.numChannels \/ status # "ok")
             /\ ((w = 0 /\ pc' = "sca6") \/ (w = 1 /\ pc' = "readback"))
    <2>1. ShapeInv' /\ LoadedInv'
      BY <1>a, <1>b, <1>c, <1>1 DEF OrderInv, ShapeInv, LoadedInv, AllOrdered
    <2>2. OrderedBelow(0, 1)'
      BY DEF OrderedBelow, Channels
    <2>3. \A n, v : OrderedBelow(n, v)' <=> \A c \in Channels :
                         c < n => dev.window[c][v] \in OrderedPairs
      BY <1>1 DEF OrderedBelow
    <2>4. ASSUME Simulated(dev) PROVE index = par.numChannels
      BY <1>b, <1>1, <2>4 DEF OrderInv, WrittenInv
    <2>5. WrittenInv'
      <3>1. CASE w = 0
        BY <1>c, <1>1, <2>2, <2>4, <3>1 DEF OrderInv, WrittenInv, OrderedBelow
      <3>2. CASE w = 1
        BY <1>c, <1>1, <2>4, <3>2 DEF OrderInv, WrittenInv, OrderedBelow
      <3>3. QED
        BY <3>1, <3>2
    <2>6. QED
      BY <2>1, <2>5 DEF OrderInv
  <1>2. CASE /\ index < par.numChannels /\ pc' = pc /\ index' = index + 1
             /\ \E a \in setWindow(index, w, par.limits[index][w]) :
                  dev' = a.dev /\ status' = a.status
    <2>1. /\ HasWindow(dev') /\ dev'.kind = dev.kind /\ dev'.window \in Windows
          /\ ~Simulated(dev) => AllOrdered'
          /\ Simulated(dev) =>
               /\ status' = "ok" /\ dev'.window[index][w] \in OrderedPairs
               /\ \A c \in Channels, v \in {0, 1} :
                    dev.window[c][v] \in OrderedPairs => dev'.window[c][v] \in OrderedPairs
      BY <1>b, <1>2, OneWrite DEF AllOrdered
    <2>2. ShapeInv' /\ LoadedInv'
      BY <1>a, <1>b, <1>c, <1>2, <2>1 DEF OrderInv, ShapeInv, LoadedInv, Simulated
    <2>3. ASSUME Simulated(dev), OrderedBelow(index, w) PROVE OrderedBelow(index, w)'
      <3>1. \A c \in Channels : c < index + 1 => c < index \/ c = index
        BY <1>a DEF Channels
      <3>2. QED
        BY <1>2, <2>1, <2>3, <3>1 DEF OrderedBelow
    <2>4. ASSUME Simulated(dev), OrderedBelow(par.numChannels, 0)
          PROVE  OrderedBelow(par.numChannels, 0)'
      BY <1>c, <2>1, <2>4 DEF OrderedBelow
    <2>5. WrittenInv'
      <3>1. Simulated(dev') => Simulated(dev)
        BY <2>1 DEF Simulated
      <3>2. CASE w = 0
        BY <1>c, <1>2, <2>1, <2>3, <3>1, <3>2 DEF OrderInv, WrittenInv
      <3>3. CASE w = 1
        BY <1>c, <1>2, <2>1, <2>3, <2>4, <3>1, <3>3 DEF OrderInv, WrittenInv
      <3>4. QED
        BY <3>2, <3>3
    <2>6. QED
      BY <2>2, <2>5 DEF OrderInv
  <1>3. QED
    BY <1>c, <1>1, <1>2

(* The read-back finds ordered windows, or keeps what it has. *)
LEMMA ReadBackStep ==
  ASSUME OrderInv, readSCAParams
  PROVE  OrderInv'
  <1>a. /\ HasWindow(dev) /\ HasFields(par) /\ SameWindow(dev, dev) /\ index \in Nat
        /\ par.numChannels \in 1 .. TotalChannels /\ index + 1 \in Nat /\ 0 \in Nat
    BY ShapeFacts
  <1>b. /\ pc = "readback" /\ UNCHANGED <<dev, handle, files>>
        /\ par.limits \in [Channels -> [{0, 1} -> OrderedPairs]]
    BY DEF readSCAParams, OrderInv, ShapeInv
  <1>1. CASE index = par.numChannels /\ UNCHANGED par
             /\ IF status = "ok" THEN Proceed("trigger") ELSE Return("error")
    BY <1>a, <1>b, <1>1, AsideStep DEF Return, Proceed, GoTo, Loading
  <1>2. ASSUME index < par.numChannels, Again, UNCHANGED connected,
               NEW w5 \in get_window(dev, handle, index, 0),
               NEW w6 \in get_window(dev, handle, index, 1),
               NEW th \in get_good_thres(dev, handle, index),
               par' = ReadBack(index, w5, w6, th)
        PROVE  OrderInv'
    <2>1. index \in Channels
      BY <1>a, <1>2, SizesAssumption DEF Channels
    <2>2. \A w \in {0, 1} : dev.window[index][w] \in OrderedPairs
      <3>1. CASE Simulated(dev)
        BY <1>2, <1>b, <2>1, <3>1 DEF OrderInv, WrittenInv, OrderedBelow
      <3>2. CASE ~Simulated(dev)
        BY <1>b, <2>1, <3>2 DEF OrderInv, LoadedInv, AllOrdered
      <3>3. QED
        BY <3>1, <3>2
    <2>3. /\ w5.status = "ok" => w5.value \in OrderedPairs
          /\ w6.status = "ok" => w6.value \in OrderedPairs
      BY <1>2, <2>2, GetWindow
    <2> DEFINE row == [w \in {0, 1} |-> LET a == IF w = 0 THEN w5 ELSE w6
                                       IN  IF a.status = "ok" THEN a.value
                                           ELSE par.limits[index][w]]
    <2>4. row \in [{0, 1} -> OrderedPairs]
      BY <1>b, <2>1, <2>3
    <2>5. /\ HasFields(par') /\ par'.numChannels = par.numChannels
          /\ par'.limits = [par.limits EXCEPT ![index] = row]
      BY <1>2, <1>a DEF ReadBack, HasFields
    <2> HIDE DEF row
    <2>6. ShapeInv'
      BY <1>2, <1>a, <1>b, <2>1, <2>4, <2>5 DEF OrderInv, ShapeInv, Again
    <2>7. LoadedInv' /\ WrittenInv'
      BY <1>2, <1>b, <2>5 DEF OrderInv, LoadedInv, WrittenInv, Again, AllOrdered, OrderedBelow
    <2>8. QED
      BY <2>6, <2>7 DEF OrderInv
  <1>3. QED
    BY <1>1, <1>2 DEF readSCAParams

(* A limit a client writes goes to both sides, in order. *)
LEMMA SetLimitStep ==
  ASSUME OrderInv, SetLimit
  PROVE  OrderInv'
  <1>1. PICK cell \in Edited, value \in Limits, side \in {1, 2} :
          LET window == [par.limits[cell[1]][cell[2]] EXCEPT ![side] = value]
          IN  \E a \in setWindow(cell[1], cell[2], window) :
                /\ a.status = "ok" /\ dev' = a.dev
                /\ par' = [par EXCEPT !.limits[cell[1]][cell[2]] = window]
    BY Zenon DEF SetLimit
  <1> DEFINE c == cell[1]
             w == cell[2]
             x == [par.limits[c][w] EXCEPT ![side] = value]
  <1>2. PICK a \in setWindow(c, w, x) :
          /\ a.status = "ok" /\ dev' = a.dev
          /\ par' = [par EXCEPT !.limits[c][w] = x]
    BY <1>1, Zenon
  <1>3. c \in Channels /\ w \in {0, 1}
    BY EditedAssumption DEF Channels
  <1> HIDE DEF c, w
  <1>4. par.limits \in [Channels -> [{0, 1} -> OrderedPairs]]
    BY DEF OrderInv, ShapeInv
  <1>5. par.limits[c][w] \in OrderedPairs
    BY <1>3, <1>4
  <1>6. x \in Pairs
    <2>1. value \in Int
      BY RequestAssumption
    <2>2. par.limits[c][w] \in Pairs
      BY <1>5 DEF OrderedPairs
    <2>3. QED
      BY <2>1, <2>2 DEF Pairs
  <1> HIDE DEF x
  <1>7. connected /\ ~(x[1] > x[2]) /\ a \in set_window(dev, handle, c, w, x[1], x[2])
    <2>1. CASE ~connected \/ x[1] > x[2]
      <3>1. a = Answer("error", <<>>, dev)
        BY <1>2, <2>1, Zenon DEF setWindow
      <3>2. a.status = "error"
        BY <3>1 DEF Answer
      <3>3. QED
        BY <1>2, <3>2
    <2>2. CASE ~(~connected \/ x[1] > x[2])
      BY <1>2, <2>2, Zenon DEF setWindow
    <2>3. QED
      BY <2>1, <2>2
  <1>8. x \in OrderedPairs /\ x = <<x[1], x[2]>>
    BY <1>6, <1>7 DEF OrderedPairs, Pairs
  <1>9. /\ HasWindow(dev) /\ dev.window \in [Channels -> [{0, 1} -> Pairs]]
        /\ HasFields(par) /\ index \in Nat /\ par.numChannels \in 1 .. TotalChannels
    BY DEF OrderInv, ShapeInv, Windows, Pairs
  <1>10. /\ HasWindow(dev')
         /\ dev'.window = dev.window \/ dev'.window = WithCell(dev.window, c, w, x)
    BY <1>2, <1>7, <1>8, <1>9, SetOneWindow
  <1>11. dev'.window \in [Channels -> [{0, 1} -> Pairs]]
    <2>1. WithCell(dev.window, c, w, x) \in [Channels -> [{0, 1} -> Pairs]]
      BY <1>3, <1>8, <1>9, PairWritten
    <2>2. QED
      BY <1>9, <1>10, <2>1
  <1>12. /\ HasFields(par') /\ par'.numChannels = par.numChannels
         /\ par'.limits = WithCell(par.limits, c, w, x)
    BY <1>2, <1>9 DEF HasFields, WithCell
  <1>13. par'.limits \in [Channels -> [{0, 1} -> OrderedPairs]]
    <2>1. par.limits \in [Channels -> [{0, 1} -> Pairs]]
      BY <1>4 DEF OrderedPairs
    <2>2. WithCell(par.limits, c, w, x) \in [Channels -> [{0, 1} -> OrderedPairs]]
      BY <1>3, <1>4, <1>8, <2>1, PairWritten
    <2>3. QED
      BY <1>12, <2>2
  <1>14. pc' = "idle" /\ index' = index
    BY DEF SetLimit, run
  <1>15. ShapeInv'
    BY <1>9, <1>10, <1>11, <1>12, <1>13, <1>14 DEF ShapeInv, Windows, Pairs
  <1>16. LoadedInv' /\ WrittenInv'
    BY <1>14 DEF LoadedInv, WrittenInv
  <1>17. QED
    BY <1>15, <1>16 DEF OrderInv

(* The other handlers and steps touch neither windows nor limits. *)
LEMMA SetUpSteps ==
  ASSUME OrderInv, StartsConnect \/ SetUpClocks \/ ClocksDone \/ StartsRestore
  PROVE  OrderInv'
  <1>a. /\ HasWindow(dev) /\ HasFields(par) /\ SameWindow(dev, dev) /\ index \in Nat
        /\ par.numChannels \in 1 .. TotalChannels /\ index + 1 \in Nat /\ 0 \in Nat
    BY ShapeFacts
  <1>1. CASE StartsConnect
    <2>1. SameWindow(dev, dev')
      BY <1>1, <1>a, ConfigKeepsWindow DEF StartsConnect
    <2>2. UNCHANGED par /\ index' \in Nat /\ pc' \notin Loading
      BY <1>1, <1>a DEF StartsConnect, GoTo, Loading
    <2>3. QED
      BY <1>a, <2>1, <2>2, AsideStep
  <1>2. CASE SetUpClocks
    <2>1. SameWindow(dev, dev')
      BY <1>2, <1>a, SetUpKeepsWindow DEF SetUpClocks, Call
    <2>2. UNCHANGED par /\ index' \in Nat /\ pc' \notin Loading
      BY <1>2, <1>a DEF SetUpClocks, Again, Loading
    <2>3. QED
      BY <1>a, <2>1, <2>2, AsideStep
  <1>3. CASE ClocksDone
    <2>1. /\ HasFields(Shrunk) /\ Shrunk.limits = par.limits
          /\ Shrunk.numChannels = par.numChannels
      BY <1>a DEF Shrunk, HasFields
    <2>2. UNCHANGED dev /\ par' = Shrunk /\ index' = 0 /\ pc' \notin Loading
      BY <1>3 DEF ClocksDone, Proceed, Return, GoTo, Loading
    <2>3. QED
      BY <1>a, <2>1, <2>2, AsideStep
  <1>4. CASE StartsRestore
    BY <1>a, <1>4, AsideStep DEF StartsRestore, GoTo, Loading
  <1>5. QED
    BY <1>1, <1>2, <1>3, <1>4

LEMMA LateSteps ==
  ASSUME OrderInv, WriteTriggerMode \/ readDTCParams \/ readTrigB
  PROVE  OrderInv'
  <1>a. /\ HasWindow(dev) /\ HasFields(par) /\ SameWindow(dev, dev) /\ index \in Nat
        /\ par.numChannels \in 1 .. TotalChannels /\ index + 1 \in Nat /\ 0 \in Nat
    BY ShapeFacts
  <1>1. UNCHANGED par
    BY DEF WriteTriggerMode, readDTCParams, readTrigB
  <1>2. SameWindow(dev, dev')
    <2>1. CASE WriteTriggerMode
      BY <1>a, <2>1, WritesKeepWindow DEF WriteTriggerMode, Call
    <2>2. CASE readDTCParams \/ readTrigB
      BY <1>a, <2>2 DEF readDTCParams, readTrigB
    <2>3. QED
      BY <2>1, <2>2
  <1>3. index' \in Nat /\ pc' \notin Loading
    BY <1>a DEF WriteTriggerMode, readDTCParams, readTrigB, Again, Proceed, Return, GoTo, Loading
  <1>4. QED
    BY <1>a, <1>1, <1>2, <1>3, AsideStep

LEMMA OtherHandlers ==
  ASSUME OrderInv, \/ Disconnect \/ SetThreshold \/ SetNumChannels \/ SetNumImages
                   \/ SetNumFramesConfig \/ SetRunFlagsParam \/ SetSavePath \/ SaveSettings
  PROVE  OrderInv'
  <1>a. /\ HasWindow(dev) /\ HasFields(par) /\ SameWindow(dev, dev) /\ index \in Nat
        /\ par.numChannels \in 1 .. TotalChannels /\ index + 1 \in Nat /\ 0 \in Nat
    BY ShapeFacts
  <1>1. pc' = "idle" /\ index' = index
    BY DEF Disconnect, SetThreshold, SetNumChannels, SetNumImages, SetNumFramesConfig,
           SetRunFlagsParam, SetSavePath, SaveSettings, Stores, run
  <1>2. /\ SameWindow(dev, dev') /\ HasFields(par') /\ par'.limits = par.limits
        /\ par'.numChannels \in 1 .. TotalChannels
    <2>1. CASE Disconnect
      BY <1>a, <2>1, SetUpKeepsWindow DEF Disconnect
    <2>2. CASE SetThreshold
      <3>1. PICK c, v : /\ \E a \in set_good_thres(dev, handle, c, v) : dev' = a.dev
                        /\ par' = [par EXCEPT !.thres[c] = v]
        BY <2>2 DEF SetThreshold
      <3>2. SameWindow(dev, dev')
        BY <1>a, <3>1, WritesKeepWindow
      <3>3. QED
        BY <1>a, <3>1, <3>2 DEF HasFields
    <2>3. CASE SetNumChannels
      <3>1. PICK n \in 1 .. TotalChannels : par' = [par EXCEPT !.numChannels = n]
        BY <2>3 DEF SetNumChannels, Stores
      <3>2. UNCHANGED dev
        BY <2>3 DEF SetNumChannels, Stores
      <3>3. QED
        BY <1>a, <3>1, <3>2 DEF HasFields
    <2>4. CASE SetNumImages \/ SetNumFramesConfig \/ SetRunFlagsParam \/ SetSavePath
      <3>1. \E v : \/ par' = [par EXCEPT !.numImages = v]
                  \/ par' = [par EXCEPT !.configFrames = v]
                  \/ par' = [par EXCEPT !.runFlag = v]
                  \/ par' = [par EXCEPT !.savePath = v]
        BY <2>4 DEF SetNumImages, SetNumFramesConfig, SetRunFlagsParam, SetSavePath, Stores
      <3>2. UNCHANGED dev
        BY <2>4 DEF SetNumImages, SetNumFramesConfig, SetRunFlagsParam, SetSavePath, Stores
      <3>3. QED
        BY <1>a, <3>1, <3>2 DEF HasFields
    <2>5. CASE SaveSettings
      BY <1>a, <2>5 DEF SaveSettings, HasFields
    <2>6. QED
      BY <2>1, <2>2, <2>3, <2>4, <2>5
  <1>3. pc' \notin Loading
    BY <1>1 DEF Loading
  <1>4. QED
    BY <1>a, <1>1, <1>2, <1>3, AsideStep

LEMMA OrderStep == OrderInv /\ [Next]_vars => OrderInv'
  <1> SUFFICES ASSUME OrderInv, [Next]_vars PROVE OrderInv'
    OBVIOUS
  <1>1. CASE Steps
    BY <1>1, SetUpSteps, LoadSteps, WriteSteps, ReadBackStep, LateSteps DEF Steps
  <1>2. CASE Clients
    BY <1>2, SetUpSteps, SetLimitStep, OtherHandlers DEF Clients
  <1>3. CASE UNCHANGED vars
    BY <1>3 DEF vars, run, OrderInv, ShapeInv, LoadedInv, WrittenInv, AllOrdered, OrderedBelow
  <1>4. QED
    BY <1>1, <1>2, <1>3 DEF Next

(***************************************************************************)
(* The limits a client reads are never inverted, whatever the windows of a *)
(* simulator start out with, and whichever calls have failed on the way.   *)
(***************************************************************************)
THEOREM LimitsNeverInverted ==
  ASSUME RawWindow \in Pairs
  PROVE  Spec => []LimitsOrdered
  <1>1. OrderInv => LimitsOrdered
    BY DEF OrderInv, ShapeInv, LimitsOrdered, OrderedPairs, Pairs
  <1>2. QED
    BY <1>1, OrderInit, OrderStep, PTL DEF Spec
=============================================================================
