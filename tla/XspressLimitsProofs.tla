------------------------- MODULE XspressLimitsProofs -------------------------
(***************************************************************************)
(* Proofs of properties of XspressSettings that follow a whole method: the *)
(* types, that a connection is set up when connect() has returned, and     *)
(* that limits read back are those of the device and fit the spectrum.     *)
(***************************************************************************)
EXTENDS XspressSettingsProofs

(***************************************************************************)
(* What the methods do to the parts of a device that connect() and         *)
(* restoreSettings() set up.  A detector answers "ok" only on its handle.  *)
(***************************************************************************)
SetUpFields == {"kind", "path", "clocked", "formatted", "runFlags", "window", "thres"}

HasSetUp(d) == SetUpFields \subseteq DOMAIN d

Still(d, e) == HasSetUp(e) /\ e.kind = d.kind /\ e.path = d.path

SameRuns(d, e) ==
  e.clocked = d.clocked /\ e.formatted = d.formatted /\ e.runFlags = d.runFlags

SameRegisters(d, e) == e.window = d.window /\ e.thres = d.thres

(* Nothing a handler reads back, and nothing it has set up, has changed. *)
Untouched(d, e) == Still(d, e) /\ SameRuns(d, e) /\ SameRegisters(d, e)

Result(a) == a.status \in {"ok", "error"}

(* An answer of a detector, of a method that leaves it as "after". *)
Done(d, a, after) ==
  \/ a.status = "error" /\ a.dev = d
  \/ a.status = "ok" /\ a.dev = after

LEMMA Replies ==
  ASSUME NEW method, NEW d, NEW path, NEW value, NEW after,
         NEW a \in Det!Reply(method, d, path, value, after)
  PROVE  Done(d, a, after) /\ Result(a)
  BY DEF Det!Reply, Det!Answer, Done, Result

LEMMA UntouchedItself ==
  ASSUME NEW d, HasSetUp(d)
  PROVE  Untouched(d, d)
  BY DEF Untouched, Still, SameRuns, SameRegisters

(* clocks_setup and format_run add a card and a channel. *)
ClocksSet(d, a, card) ==
  /\ Result(a) /\ Still(d, a.dev) /\ SameRegisters(d, a.dev)
  /\ a.dev.formatted = d.formatted /\ a.dev.runFlags = d.runFlags
  /\ a.dev.clocked \in {d.clocked, d.clocked \union {card}}
  /\ ~Simulated(d) /\ a.status = "ok" => a.dev.clocked = d.clocked \union {card}

LEMMA ClocksCall ==
  ASSUME NEW d, HasSetUp(d), NEW path, NEW card, NEW a \in clocks_setup(d, path, card)
  PROVE  ClocksSet(d, a, card)
  <1> DEFINE after == [d EXCEPT !.clocked = @ \union {card}]
  <1>1. /\ HasSetUp(after) /\ Still(d, after) /\ SameRegisters(d, after)
        /\ after.formatted = d.formatted /\ after.runFlags = d.runFlags
        /\ after.clocked = d.clocked \union {card}
    BY DEF HasSetUp, SetUpFields, Still, SameRegisters
  <1>2. Untouched(d, d)
    BY UntouchedItself
  <1> HIDE DEF after
  <1>3. CASE Simulated(d)
    <2>1. a.status = "ok" /\ a.dev = d
      BY <1>3 DEF clocks_setup, Sim!xsp3Api_clocks_setup, Sim!Ignored, Sim!AlwaysOk, Sim!Answer
    <2>2. QED
      BY <1>2, <1>3, <2>1 DEF ClocksSet, Result, Untouched, SameRuns
  <1>4. CASE ~Simulated(d)
    <2>1. Done(d, a, after) /\ Result(a)
      BY <1>4, Replies DEF clocks_setup, Det!xsp3Api_clocks_setup, Det!Does, after
    <2>2. QED
      BY <1>1, <1>2, <2>1 DEF ClocksSet, Done, Untouched, SameRuns
  <1>5. QED
    BY <1>3, <1>4

RunFormatted(d, a, chan) ==
  /\ Result(a) /\ Still(d, a.dev) /\ SameRegisters(d, a.dev)
  /\ a.dev.clocked = d.clocked /\ a.dev.runFlags = d.runFlags
  /\ a.dev.formatted \in {d.formatted, d.formatted \union {chan}}
  /\ ~Simulated(d) /\ a.status = "ok" => a.dev.formatted = d.formatted \union {chan}

LEMMA FormatCall ==
  ASSUME NEW d, HasSetUp(d), NEW path, NEW chan, NEW a \in format_run(d, path, chan)
  PROVE  RunFormatted(d, a, chan)
  <1> DEFINE after == [d EXCEPT !.formatted = @ \union {chan}]
  <1>1. /\ HasSetUp(after) /\ Still(d, after) /\ SameRegisters(d, after)
        /\ after.clocked = d.clocked /\ after.runFlags = d.runFlags
        /\ after.formatted = d.formatted \union {chan}
    BY DEF HasSetUp, SetUpFields, Still, SameRegisters
  <1>2. Untouched(d, d)
    BY UntouchedItself
  <1> HIDE DEF after
  <1>3. CASE Simulated(d)
    <2>1. a.status = "ok" /\ a.dev = d
      BY <1>3 DEF format_run, Sim!xsp3Api_format_run, Sim!Ignored, Sim!AlwaysOk, Sim!Answer
    <2>2. QED
      BY <1>2, <1>3, <2>1 DEF RunFormatted, Result, Untouched, SameRuns
  <1>4. CASE ~Simulated(d)
    <2>1. Done(d, a, after) /\ Result(a)
      BY <1>4, Replies DEF format_run, Det!xsp3Api_format_run, Det!Does, after
    <2>2. QED
      BY <1>1, <1>2, <2>1 DEF RunFormatted, Done, Untouched, SameRuns
  <1>5. QED
    BY <1>3, <1>4

FlagsSet(d, a, flags) ==
  /\ Result(a) /\ Still(d, a.dev) /\ SameRegisters(d, a.dev)
  /\ a.dev.clocked = d.clocked /\ a.dev.formatted = d.formatted
  /\ ~Simulated(d) /\ a.status = "ok" => a.dev.runFlags = flags

LEMMA FlagsCall ==
  ASSUME NEW d, HasSetUp(d), NEW path, NEW flags, NEW a \in set_run_flags(d, path, flags)
  PROVE  FlagsSet(d, a, flags)
  <1> DEFINE after == [d EXCEPT !.runFlags = flags]
  <1>1. /\ HasSetUp(after) /\ Still(d, after) /\ SameRegisters(d, after)
        /\ after.clocked = d.clocked /\ after.formatted = d.formatted
        /\ after.runFlags = flags
    BY DEF HasSetUp, SetUpFields, Still, SameRegisters
  <1>2. Untouched(d, d)
    BY UntouchedItself
  <1> HIDE DEF after
  <1>3. CASE Simulated(d)
    <2>1. a.status = "ok" /\ a.dev = d
      BY <1>3 DEF set_run_flags, Sim!xsp3Api_set_run_flags, Sim!Ignored, Sim!AlwaysOk, Sim!Answer
    <2>2. QED
      BY <1>2, <1>3, <2>1 DEF FlagsSet, Result, Untouched, SameRuns
  <1>4. CASE ~Simulated(d)
    <2>1. Done(d, a, after) /\ Result(a)
      BY <1>4, Replies DEF set_run_flags, Det!xsp3Api_set_run_flags, Det!Does, after
    <2>2. QED
      BY <1>1, <1>2, <2>1 DEF FlagsSet, Done, Untouched, SameRuns
  <1>5. QED
    BY <1>3, <1>4

(* A new system has nothing set up; one that is refused keeps what it had. *)
Configured(d, a) ==
  /\ HasSetUp(a.dev) /\ a.dev.kind = d.kind /\ SameRegisters(d, a.dev)
  /\ a.value[1] \in Int
  /\ ~Simulated(d) =>
       /\ a.dev.path = a.value[1]
       /\ a.value[1] < 0 => SameRuns(d, a.dev)
       /\ a.value[1] >= 0 => a.dev.clocked = {}

LEMMA ConfigCall ==
  ASSUME NEW d, HasSetUp(d), NEW n, NEW m, NEW a \in config(d, n, m)
  PROVE  Configured(d, a)
  <1> DEFINE laid == [d EXCEPT !.path = LibraryPath, !.frames = n, !.channels = m,
                               !.clocked = {}, !.formatted = {}, !.runFlags = "none"]
             lost == [d EXCEPT !.path = NoPath]
  <1>1. /\ HasSetUp(laid) /\ laid.kind = d.kind /\ SameRegisters(d, laid)
        /\ laid.path = LibraryPath /\ laid.clocked = {}
    BY DEF HasSetUp, SetUpFields, SameRegisters
  <1>2. /\ HasSetUp(lost) /\ lost.kind = d.kind /\ SameRegisters(d, lost)
        /\ lost.path = NoPath /\ SameRuns(d, lost)
    BY DEF HasSetUp, SetUpFields, SameRegisters, SameRuns
  <1>3. CASE Simulated(d)
    BY <1>3 DEF config, Sim!xsp3Api_config, Sim!AlwaysOk, Sim!Answer, Sim!SimulatorHandle,
                Configured, SameRegisters
  <1>4. CASE ~Simulated(d)
    <2>1. a \in {[status |-> "ok", value |-> <<LibraryPath>>, dev |-> laid],
                 [status |-> "error", value |-> <<NoPath>>, dev |-> lost]}
      BY <1>4 DEF config, Det!xsp3Api_config, Det!Answer, Det!LibraryPath, Det!NoPath,
                  LibraryPath, NoPath
    <2> HIDE DEF laid, lost
    <2>2. CASE a.value[1] = LibraryPath /\ a.dev = laid
      BY <1>1, <2>2 DEF Configured, LibraryPath
    <2>3. CASE a.value[1] = NoPath /\ a.dev = lost
      BY <1>2, <2>3 DEF Configured, NoPath
    <2>4. QED
      BY <2>1, <2>2, <2>3
  <1>5. QED
    BY <1>3, <1>4

(* xsp3_close takes the handle away. *)
Closed(d, a) ==
  /\ HasSetUp(a.dev) /\ a.dev.kind = d.kind
  /\ SameRuns(d, a.dev) /\ SameRegisters(d, a.dev)

LEMMA CloseCall ==
  ASSUME NEW d, HasSetUp(d), NEW path, NEW a \in close(d, path)
  PROVE  Closed(d, a)
  <1> DEFINE after == [d EXCEPT !.path = NoPath]
  <1>1. /\ HasSetUp(after) /\ after.kind = d.kind /\ SameRuns(d, after)
        /\ SameRegisters(d, after)
    BY DEF HasSetUp, SetUpFields, SameRuns, SameRegisters
  <1>2. Untouched(d, d)
    BY UntouchedItself
  <1> HIDE DEF after
  <1>3. CASE Simulated(d)
    <2>1. a.dev = d
      BY <1>3 DEF close, Sim!xsp3Api_close, Sim!Answer
    <2>2. QED
      BY <1>2, <2>1 DEF Closed, Untouched, Still
  <1>4. CASE ~Simulated(d)
    <2>1. Done(d, a, after)
      BY <1>4, Replies DEF close, Det!xsp3Api_close, Det!Does, after, Det!NoPath, NoPath
    <2>2. QED
      BY <1>1, <1>2, <2>1 DEF Closed, Done, Untouched, Still
  <1>5. QED
    BY <1>3, <1>4

(* The file's windows and thresholds replace all, or nothing is changed. *)
Restored(d, a) ==
  /\ Result(a) /\ Still(d, a.dev) /\ SameRuns(d, a.dev)
  /\ a.dev.thres \in {d.thres, [c \in DOMAIN d.thres |-> FileThreshold]}
  /\ Simulated(d) => a.dev = d

LEMMA RestoreCall ==
  ASSUME NEW d, HasSetUp(d), NEW path, NEW a \in restore_settings(d, path)
  PROVE  Restored(d, a)
  <1> DEFINE W == [c1 \in DOMAIN d.window |-> [w1 \in DOMAIN d.window[c1] |-> FileWindow]]
             T == [c1 \in DOMAIN d.thres |-> FileThreshold]
             after == [d EXCEPT !.window = W, !.thres = T]
  <1>1. HasSetUp(after) /\ Still(d, after) /\ SameRuns(d, after) /\ after.thres = T
    <2> HIDE DEF W, T
    <2>1. QED
      BY DEF HasSetUp, SetUpFields, Still, SameRuns
  <1>2. Untouched(d, d)
    BY UntouchedItself
  <1>3. CASE Simulated(d)
    <2>1. a.status = "ok" /\ a.dev = d
      BY <1>3 DEF restore_settings, Sim!xsp3Api_restore_settings, Sim!Ignored, Sim!AlwaysOk,
                  Sim!Answer
    <2>2. QED
      BY <1>2, <2>1 DEF Restored, Result, Untouched
  <1>4. CASE ~Simulated(d)
    <2>1. a \in Det!Reply("restore_settings", d, path, <<>>, after)
      BY <1>4 DEF restore_settings, Det!xsp3Api_restore_settings, Det!Does
    <2> HIDE DEF after
    <2>2. Done(d, a, after) /\ Result(a)
      BY <2>1, Replies
    <2>3. QED
      BY <1>1, <1>2, <1>4, <2>2 DEF Restored, Done, Untouched
  <1>5. QED
    BY <1>3, <1>4

(* A window is written when the answer is "ok"; a simulator's always is. *)
WindowSet(d, a, c, w, x) ==
  /\ Result(a) /\ Still(d, a.dev) /\ SameRuns(d, a.dev) /\ a.dev.thres = d.thres
  /\ a.status = "ok" => a.dev.window = WithCell(d.window, c, w, x)
  /\ a.status = "error" => ~Simulated(d) /\ a.dev = d

LEMMA WindowCall ==
  ASSUME NEW d, HasSetUp(d), NEW path, NEW c, NEW w, NEW low, NEW high,
         NEW a \in set_window(d, path, c, w, low, high)
  PROVE  WindowSet(d, a, c, w, <<low, high>>)
  <1> DEFINE W == [d.window EXCEPT ![c][w] = <<low, high>>]
             after == [d EXCEPT !.window = W]
  <1>1. /\ HasSetUp(after) /\ Still(d, after) /\ SameRuns(d, after)
        /\ after.thres = d.thres /\ after.window = W
    <2> HIDE DEF W
    <2>1. QED
      BY DEF HasSetUp, SetUpFields, Still, SameRuns
  <1>2. W = WithCell(d.window, c, w, <<low, high>>)
    BY DEF WithCell
  <1>3. Untouched(d, d)
    BY UntouchedItself
  <1>4. CASE Simulated(d)
    <2>1. a.status = "ok" /\ a.dev = after
      BY <1>4 DEF set_window, Sim!xsp3Api_set_window, Sim!AlwaysOk, Sim!Answer
    <2> HIDE DEF after, W
    <2>2. QED
      BY <1>1, <1>2, <2>1 DEF WindowSet, Result
  <1>5. CASE ~Simulated(d)
    <2>1. a \in Det!Reply("set_window", d, path, <<>>, after)
      BY <1>5 DEF set_window, Det!xsp3Api_set_window, Det!Does
    <2> HIDE DEF after, W
    <2>2. Done(d, a, after) /\ Result(a)
      BY <2>1, Replies
    <2>3. QED
      BY <1>1, <1>2, <1>3, <1>5, <2>2 DEF WindowSet, Done, Untouched, SameRegisters
  <1>6. QED
    BY <1>4, <1>5

ThresSet(d, a, c, v) ==
  /\ Result(a) /\ Still(d, a.dev) /\ SameRuns(d, a.dev) /\ a.dev.window = d.window
  /\ a.status = "ok" => a.dev.thres = [d.thres EXCEPT ![c] = v]
  /\ a.status = "error" => a.dev = d

LEMMA ThresCall ==
  ASSUME NEW d, HasSetUp(d), NEW path, NEW c, NEW v, NEW a \in set_good_thres(d, path, c, v)
  PROVE  ThresSet(d, a, c, v)
  <1> DEFINE T == [d.thres EXCEPT ![c] = v]
             after == [d EXCEPT !.thres = T]
  <1>1. /\ HasSetUp(after) /\ Still(d, after) /\ SameRuns(d, after)
        /\ after.window = d.window /\ after.thres = T
    <2> HIDE DEF T
    <2>1. QED
      BY DEF HasSetUp, SetUpFields, Still, SameRuns
  <1>2. Untouched(d, d)
    BY UntouchedItself
  <1>3. CASE Simulated(d)
    <2>1. a.status = "ok" /\ a.dev = after
      BY <1>3 DEF set_good_thres, Sim!xsp3Api_set_good_thres, Sim!AlwaysOk, Sim!Answer
    <2> HIDE DEF after
    <2>2. QED
      BY <1>1, <2>1 DEF ThresSet, Result
  <1>4. CASE ~Simulated(d)
    <2>1. a \in Det!Reply("set_good_thres", d, path, <<>>, after)
      BY <1>4 DEF set_good_thres, Det!xsp3Api_set_good_thres, Det!Does
    <2> HIDE DEF after
    <2>2. Done(d, a, after) /\ Result(a)
      BY <2>1, Replies
    <2>3. QED
      BY <1>1, <1>2, <2>2 DEF ThresSet, Done, Untouched, SameRegisters
  <1>5. QED
    BY <1>3, <1>4

LEMMA CardCall ==
  ASSUME NEW d, HasSetUp(d), NEW path, NEW card, NEW word,
         NEW a \in set_glob_timeA(d, path, card, word)
  PROVE  Untouched(d, a.dev) /\ Result(a)
  <1>1. ASSUME NEW T
        PROVE  Untouched(d, [d EXCEPT !.timer = T])
    BY DEF HasSetUp, SetUpFields, Still, SameRuns, SameRegisters, Untouched
  <1>2. Untouched(d, d)
    BY UntouchedItself
  <1>3. CASE Simulated(d)
    <2> DEFINE T == [c \in DOMAIN d.timer |-> Sim!TimeRegister(word)]
    <2>1. a.status = "ok" /\ a.dev = [d EXCEPT !.timer = T]
      BY <1>3 DEF set_glob_timeA, Sim!xsp3Api_set_glob_timeA, Sim!AlwaysOk, Sim!Answer
    <2> HIDE DEF T
    <2>2. QED
      BY <1>1, <2>1 DEF Result
  <1>4. CASE ~Simulated(d)
    <2> DEFINE T == [d.timer EXCEPT ![card] = word]
    <2>1. a \in Det!Reply("set_glob_timeA", d, path, <<>>, [d EXCEPT !.timer = T])
      BY <1>4 DEF set_glob_timeA, Det!xsp3Api_set_glob_timeA, Det!Does
    <2> HIDE DEF T
    <2>2. Done(d, a, [d EXCEPT !.timer = T]) /\ Result(a)
      BY <2>1, Replies
    <2>3. QED
      BY <1>1, <1>2, <2>2 DEF Done
  <1>5. QED
    BY <1>3, <1>4

(* A read tells what is there, or fails and tells nothing. *)
LEMMA Reads ==
  ASSUME NEW d, NEW path, NEW c
  PROVE  /\ \A w : \A a \in get_window(d, path, c, w) :
              Result(a) /\ (a.status = "ok" => a.value = d.window[c][w])
         /\ \A a \in get_good_thres(d, path, c) :
              Result(a) /\ (a.status = "ok" => a.value[1] = d.thres[c])
         /\ \A a \in getDeadtimeCorrectionParameters(d, path, c) : Result(a)
         /\ \A a \in get_trigger_b(d, path, c) :
              Result(a) /\ (a.status = "ok" => Simulated(d) \/ a.value # <<>>)
  <1> USE DEF Det!Tells, Det!Reply, Det!Answer, Sim!Ignored, Sim!AlwaysOk, Sim!Answer, Result
  <1>1. \A w : \A a \in get_window(d, path, c, w) :
          Result(a) /\ (a.status = "ok" => a.value = d.window[c][w])
    BY DEF get_window, Sim!xsp3Api_get_window, Det!xsp3Api_get_window
  <1>2. \A a \in get_good_thres(d, path, c) :
          Result(a) /\ (a.status = "ok" => a.value[1] = d.thres[c])
    BY DEF get_good_thres, Sim!xsp3Api_get_good_thres, Det!xsp3Api_get_good_thres
  <1>3. \A a \in getDeadtimeCorrectionParameters(d, path, c) : Result(a)
    BY DEF getDeadtimeCorrectionParameters, Sim!xsp3Api_getDeadtimeCorrectionParameters,
           Det!xsp3Api_getDeadtimeCorrectionParameters
  <1>4. \A a \in get_trigger_b(d, path, c) :
          Result(a) /\ (a.status = "ok" => Simulated(d) \/ a.value # <<>>)
    <2>1. <<c>> # <<>>
      OBVIOUS
    <2>2. QED
      BY <2>1 DEF get_trigger_b, Sim!xsp3Api_get_trigger_b, Det!xsp3Api_get_trigger_b
  <1>5. QED
    BY <1>1, <1>2, <1>3, <1>4

(***************************************************************************)
(* Shapes.  Each step of a handler has its loop: over the cards, or over   *)
(* the channels in use, whose number no other handler changes meanwhile.   *)
(***************************************************************************)
PerChannel == {"format", "sca5", "sca6", "readback", "dtc", "width"}
PerCard    == {"clocks", "trigger"}
Once       == {"idle", "restore", "flags"}

PlaceInv ==
  /\ pc \in PerChannel \union PerCard \union Once
  /\ index \in Nat
  /\ pc \in PerCard => index <= NumCards
  /\ pc \in PerChannel => index <= par.numChannels
  /\ pc \in Once => index = 0
  /\ pc = "idle" => command = "none"
  /\ command = "connect" => connected
  /\ pc = "clocks" => command = "connect"

ThresInv ==
  dev.thres \in [Channels -> Int] /\ par.thres \in [Channels -> Int]

DriverInv ==
  /\ HasFields(par) /\ par.numChannels \in 1 .. TotalChannels
  /\ handle \in Int /\ connected \in BOOLEAN /\ complete \in BOOLEAN
  /\ par.numImages <= MaxFrames
  /\ {"dtc", "width"} \subseteq DOMAIN shown
  /\ shown.dtc \subseteq Channels /\ shown.width \subseteq Channels
  /\ files \in [Dirs -> {"empty", "partial", "config"}]
  /\ status \in {"ok", "error"}

TypeInv == HasSetUp(dev) /\ PlaceInv /\ ThresInv /\ DriverInv

LEMMA TypeInit == Init => TypeInv
  <1> SUFFICES ASSUME Init PROVE TypeInv
    OBVIOUS
  <1>1. PICK kind \in Kinds, g \in Generations :
          dev = NewDevice(kind, g, Cards, [c \in Channels |-> [w \in {0, 1} |-> RawWindow]])
    BY DEF Init
  <1>2. HasSetUp(dev) /\ dev.thres = [c \in Channels |-> 0]
    BY <1>1 DEF NewDevice, HasSetUp, SetUpFields
  <1>3. /\ HasFields(par) /\ par.numChannels = TotalChannels /\ par.numImages = 0
        /\ par.thres = [c \in Channels |-> 0]
    BY DEF Init, HasFields
  <1>4. ThresInv
    BY <1>2, <1>3 DEF ThresInv
  <1>5. PlaceInv
    BY DEF Init, PlaceInv, PerChannel, PerCard, Once
  <1>6. DriverInv
    <2>1. /\ handle \in Int /\ connected \in BOOLEAN /\ complete \in BOOLEAN
          /\ status \in {"ok", "error"}
      <3>1. handle = 0 /\ status = "ok"
        BY DEF Init
      <3>2. connected \in BOOLEAN /\ complete \in BOOLEAN
        BY Zenon DEF Init
      <3>3. QED
        BY <3>1, <3>2
    <2>2. /\ {"dtc", "width"} \subseteq DOMAIN shown
          /\ shown.dtc \subseteq Channels /\ shown.width \subseteq Channels
      BY DEF Init, NothingShown
    <2>3. files \in [Dirs -> {"empty", "partial", "config"}]
      BY DEF Init
    <2>4. par.numChannels \in 1 .. TotalChannels /\ par.numImages <= MaxFrames
      BY <1>3, SizesAssumption
    <2>5. QED
      BY <1>3, <2>1, <2>2, <2>3, <2>4, Zenon DEF DriverInv
  <1>7. QED
    BY <1>2, <1>4, <1>5, <1>6 DEF TypeInv

LEMMA ReturnPlace ==
  ASSUME NEW result, Return(result)
  PROVE  PlaceInv' /\ pc' = "idle" /\ index' = 0
  BY DEF Return, GoTo, PlaceInv, PerChannel, PerCard, Once

(* The place in a handler, step by step. *)
LEMMA PlaceSteps ==
  ASSUME PlaceInv, HasFields(par), par.numChannels \in 1 .. TotalChannels, Steps
  PROVE  PlaceInv'
  <1> USE DEF PlaceInv, PerChannel, PerCard, Once, GoTo, Again, Proceed, Return
  <1>a. NumCards \in Nat /\ par.numChannels \in Nat
    BY SizesAssumption
  <1>1. CASE SetUpClocks
    BY <1>a, <1>1 DEF SetUpClocks
  <1>2. CASE ClocksDone
    <2>1. CASE Return("error")
      BY <2>1, ReturnPlace
    <2>2. CASE Proceed("restore")
      BY <2>2, <1>2 DEF ClocksDone
    <2>3. QED
      BY <1>2, <2>1, <2>2 DEF ClocksDone
  <1>3. CASE RestoreFile
    BY <1>a, <1>3 DEF RestoreFile
  <1>4. CASE FormatRuns
    BY <1>a, <1>4 DEF FormatRuns
  <1>5. CASE SetRunFlags
    BY <1>a, <1>5 DEF SetRunFlags
  <1>6. CASE WriteWindow5
    BY <1>a, <1>6 DEF WriteWindow5, WriteWindows
  <1>7. CASE WriteWindow6
    BY <1>a, <1>7 DEF WriteWindow6, WriteWindows
  <1>8. CASE readSCAParams
    <2>1. \A c, w5, w6, th : ReadBack(c, w5, w6, th).numChannels = par.numChannels
      BY DEF ReadBack, HasFields
    <2>2. CASE index < par.numChannels /\ Again
      BY <1>a, <1>8, <2>1, <2>2 DEF readSCAParams
    <2>3. CASE Return("error")
      BY <2>3, ReturnPlace
    <2>4. CASE Proceed("trigger")
      BY <1>a, <1>8, <2>4 DEF readSCAParams
    <2>5. QED
      BY <1>8, <2>2, <2>3, <2>4 DEF readSCAParams
  <1>9. CASE WriteTriggerMode
    BY <1>a, <1>9 DEF WriteTriggerMode
  <1>10. CASE readDTCParams
    BY <1>a, <1>10 DEF readDTCParams
  <1>11. CASE readTrigB
    BY <1>a, <1>11 DEF readTrigB
  <1>12. QED
    BY <1>1, <1>2, <1>3, <1>4, <1>5, <1>6, <1>7, <1>8, <1>9, <1>10, <1>11 DEF Steps

LEMMA PlaceClients ==
  ASSUME PlaceInv, Clients
  PROVE  PlaceInv'
  <1> USE DEF PlaceInv, PerChannel, PerCard, Once
  <1>1. CASE StartsConnect
    BY <1>1, SizesAssumption DEF StartsConnect, GoTo
  <1>2. CASE StartsRestore
    BY <1>2 DEF StartsRestore, GoTo
  <1>3. CASE ~StartsConnect /\ ~StartsRestore
    <2>1. pc = "idle" /\ UNCHANGED run
      BY <1>3 DEF Clients, Disconnect, SetLimit, SetThreshold, SetNumChannels, SetNumImages,
                  SetNumFramesConfig, SetRunFlagsParam, SetSavePath, SaveSettings, Stores, run
    <2>2. QED
      BY <2>1 DEF run
  <1>4. QED
    BY <1>1, <1>2, <1>3

(* The parameters a step may leave aside. *)
SameTypes(p, q) ==
  HasFields(q) /\ q.numChannels = p.numChannels /\ q.numImages = p.numImages

LEMMA LoopTypes ==
  ASSUME TypeInv, PlaceInv', HasSetUp(dev'), ThresInv', SameTypes(par, par'),
         UNCHANGED <<handle, connected, complete, files>>, status' \in {"ok", "error"},
         \/ UNCHANGED shown
         \/ \E s \in SUBSET Channels : \/ shown' = [shown EXCEPT !.dtc = s]
                                       \/ shown' = [shown EXCEPT !.width = s]
  PROVE  TypeInv'
  <1>1. /\ {"dtc", "width"} \subseteq DOMAIN shown'
        /\ shown'.dtc \subseteq Channels /\ shown'.width \subseteq Channels
    BY DEF TypeInv, DriverInv
  <1>2. /\ HasFields(par') /\ par'.numChannels \in 1 .. TotalChannels
        /\ par'.numImages <= MaxFrames
    BY DEF TypeInv, DriverInv, SameTypes
  <1>3. /\ handle' \in Int /\ connected' \in BOOLEAN /\ complete' \in BOOLEAN
        /\ files' \in [Dirs -> {"empty", "partial", "config"}]
    BY Zenon DEF TypeInv, DriverInv
  <1>4. DriverInv'
    BY <1>1, <1>2, <1>3, Zenon DEF DriverInv
  <1>5. QED
    BY <1>4 DEF TypeInv

LEMMA ReturnTypes ==
  ASSUME TypeInv, NEW result \in {"ok", "error"}, Return(result), HasSetUp(dev'), ThresInv',
         SameTypes(par, par'), UNCHANGED <<handle, files>>
  PROVE  TypeInv'
  <1>1. PlaceInv'
    BY ReturnPlace
  <1>2. connected' \in BOOLEAN /\ complete' \in BOOLEAN
    <2>1. connected \in BOOLEAN
      BY DEF TypeInv, DriverInv
    <2>2. QED
      BY <2>1, Zenon DEF Return
  <1>3. /\ {"dtc", "width"} \subseteq DOMAIN shown'
        /\ shown'.dtc \subseteq Channels /\ shown'.width \subseteq Channels
    BY DEF TypeInv, DriverInv, Return, NothingShown
  <1>4. /\ HasFields(par') /\ par'.numChannels \in 1 .. TotalChannels
        /\ par'.numImages <= MaxFrames
    BY DEF TypeInv, DriverInv, SameTypes
  <1>5. /\ handle' \in Int /\ files' \in [Dirs -> {"empty", "partial", "config"}]
        /\ status' \in {"ok", "error"}
    BY DEF TypeInv, DriverInv, Return
  <1>6. DriverInv'
    BY <1>2, <1>3, <1>4, <1>5, Zenon DEF DriverInv
  <1>7. QED
    BY <1>1, <1>6 DEF TypeInv

LEMMA ThresKept ==
  ASSUME ThresInv, dev'.thres = dev.thres, par'.thres = par.thres
  PROVE  ThresInv'
  BY DEF ThresInv

LEMMA SetUpTypes ==
  ASSUME TypeInv, SetUpClocks \/ ClocksDone \/ FormatRuns \/ SetRunFlags \/ WriteTriggerMode
  PROVE  TypeInv'
  <1>a. /\ HasSetUp(dev) /\ HasFields(par) /\ SameTypes(par, par) /\ ThresInv /\ PlaceInv
        /\ par.numChannels \in 1 .. TotalChannels /\ status \in {"ok", "error"}
    BY DEF TypeInv, DriverInv, SameTypes
  <1>b. PlaceInv'
    BY <1>a, PlaceSteps DEF Steps
  <1>1. HasSetUp(dev') /\ dev'.thres = dev.thres
    <2>1. CASE SetUpClocks
      BY <1>a, <2>1, ClocksCall DEF SetUpClocks, Call, ClocksSet, Still, SameRegisters
    <2>2. CASE ClocksDone
      BY <1>a, <2>2 DEF ClocksDone
    <2>3. CASE FormatRuns
      BY <1>a, <2>3, FormatCall DEF FormatRuns, CallOn, RunFormatted, Still, SameRegisters
    <2>4. CASE SetRunFlags
      BY <1>a, <2>4, FlagsCall DEF SetRunFlags, FlagsSet, Still, SameRegisters
    <2>5. CASE WriteTriggerMode
      BY <1>a, <2>5, CardCall DEF WriteTriggerMode, Call, Untouched, Still, SameRegisters
    <2>6. QED
      BY <2>1, <2>2, <2>3, <2>4, <2>5
  <1>2. SameTypes(par, par') /\ par'.thres = par.thres /\ UNCHANGED <<handle, files>>
    <2>1. SameTypes(par, Shrunk) /\ Shrunk.thres = par.thres
      BY <1>a DEF Shrunk, HasFields, SameTypes
    <2>2. QED
      BY <1>a, <2>1 DEF SetUpClocks, ClocksDone, FormatRuns, SetRunFlags, WriteTriggerMode
  <1>3. ThresInv'
    BY <1>a, <1>1, <1>2, ThresKept
  <1>4. \/ Return("error")
        \/ UNCHANGED <<connected, complete, shown>> /\ status' \in {"ok", "error"}
    <2>1. CASE SetUpClocks
      BY <1>a, <2>1, ClocksCall DEF SetUpClocks, Call, ClocksSet, Result
    <2>2. CASE ClocksDone
      BY <1>a, <2>2 DEF ClocksDone, Proceed
    <2>3. CASE FormatRuns
      BY <1>a, <2>3 DEF FormatRuns, CallOn
    <2>4. CASE SetRunFlags
      BY <1>a, <2>4 DEF SetRunFlags, Proceed
    <2>5. CASE WriteTriggerMode
      BY <1>a, <2>5, CardCall DEF WriteTriggerMode, Call, Proceed, Result
    <2>6. QED
      BY <2>1, <2>2, <2>3, <2>4, <2>5
  <1>5. QED
    BY <1>b, <1>1, <1>2, <1>3, <1>4, ReturnTypes, LoopTypes

(* setWindow() changes windows only; refused, it changes nothing. *)
SetWindowDone(a, c, w, window) ==
  \/ a.status = "error" /\ a.dev = dev
     /\ (~connected \/ window[1] > window[2] \/ ~Simulated(dev))
  \/ WindowSet(dev, a, c, w, <<window[1], window[2]>>)

LEMMA SetWindowCall ==
  ASSUME HasSetUp(dev), NEW c, NEW w, NEW window, NEW a \in setWindow(c, w, window)
  PROVE  /\ SetWindowDone(a, c, w, window)
         /\ Result(a) /\ HasSetUp(a.dev) /\ a.dev.thres = dev.thres
         /\ a.dev.path = dev.path /\ a.dev.kind = dev.kind /\ SameRuns(dev, a.dev)
  <1>1. CASE ~connected \/ window[1] > window[2]
    <2>1. a.status = "error" /\ a.dev = dev
      BY <1>1 DEF setWindow, Answer
    <2>2. QED
      BY <1>1, <2>1 DEF SetWindowDone, Result, SameRuns
  <1>2. CASE ~(~connected \/ window[1] > window[2])
    <2>1. a \in set_window(dev, handle, c, w, window[1], window[2])
      BY <1>2, Zenon DEF setWindow
    <2>2. WindowSet(dev, a, c, w, <<window[1], window[2]>>)
      BY <2>1, WindowCall
    <2>3. QED
      BY <2>2 DEF SetWindowDone, WindowSet, Still
  <1>3. QED
    BY <1>1, <1>2

LEMMA WriteTypes ==
  ASSUME TypeInv, RestoreFile \/ WriteWindow5 \/ WriteWindow6
  PROVE  TypeInv'
  <1>a. /\ HasSetUp(dev) /\ HasFields(par) /\ SameTypes(par, par) /\ ThresInv /\ PlaceInv
        /\ par.numChannels \in 1 .. TotalChannels /\ status \in {"ok", "error"}
    BY DEF TypeInv, DriverInv, SameTypes
  <1>b. PlaceInv'
    BY <1>a, PlaceSteps DEF Steps
  <1>1. UNCHANGED <<par, handle, files, connected, complete, shown>>
    BY DEF RestoreFile, WriteWindow5, WriteWindow6, WriteWindows
  <1>2. CASE RestoreFile
    <2>1. \/ UNCHANGED dev /\ status' = "error"
          \/ \E a \in restore_settings(dev, handle) : dev' = a.dev /\ status' = a.status
      BY <1>2 DEF RestoreFile, Call
    <2>2. HasSetUp(dev') /\ dev'.thres \in {dev.thres, [c \in DOMAIN dev.thres |-> FileThreshold]}
          /\ status' \in {"ok", "error"}
      BY <1>a, <2>1, RestoreCall DEF Restored, Still, Result
    <2>3. dev'.thres \in [Channels -> Int]
      BY <1>a, <2>2, FileAssumption DEF ThresInv
    <2>4. ThresInv'
      BY <1>a, <1>1, <2>3 DEF ThresInv
    <2>5. QED
      BY <1>a, <1>b, <1>1, <2>2, <2>4, LoopTypes
  <1>3. CASE WriteWindow5 \/ WriteWindow6
    <2>1. \/ UNCHANGED <<dev, status>>
          \/ \E c, w, x : \E a \in setWindow(c, w, x) : dev' = a.dev /\ status' = a.status
      BY <1>3 DEF WriteWindow5, WriteWindow6, WriteWindows, Call
    <2>2. HasSetUp(dev') /\ dev'.thres = dev.thres /\ status' \in {"ok", "error"}
      BY <1>a, <2>1, SetWindowCall DEF Result
    <2>3. ThresInv'
      BY <1>a, <1>1, <2>2, ThresKept
    <2>4. QED
      BY <1>a, <1>b, <1>1, <2>2, <2>3, LoopTypes
  <1>4. QED
    BY <1>2, <1>3

LEMMA InUseChannels ==
  ASSUME par.numChannels \in 1 .. TotalChannels
  PROVE  InUse \subseteq Channels /\ \A c \in Nat : c < par.numChannels => c \in Channels
  BY SizesAssumption DEF InUse, Channels

LEMMA ReadingTypes ==
  ASSUME TypeInv, readSCAParams \/ readDTCParams \/ readTrigB
  PROVE  TypeInv'
  <1>a. /\ HasSetUp(dev) /\ HasFields(par) /\ SameTypes(par, par) /\ ThresInv /\ PlaceInv
        /\ par.numChannels \in 1 .. TotalChannels /\ status \in {"ok", "error"}
        /\ index \in Nat /\ {"dtc", "width"} \subseteq DOMAIN shown
        /\ shown.dtc \subseteq Channels /\ shown.width \subseteq Channels
    BY DEF TypeInv, DriverInv, SameTypes, PlaceInv
  <1>b. PlaceInv'
    BY <1>a, PlaceSteps DEF Steps
  <1>c. index < par.numChannels => index \in Channels
    BY <1>a, InUseChannels
  <1>1. UNCHANGED <<dev, handle, files>>
    BY DEF readSCAParams, readDTCParams, readTrigB
  <1>2. CASE readSCAParams
    <2>1. \A w5, w6, th : LET p == ReadBack(index, w5, w6, th) IN
            /\ SameTypes(par, p)
            /\ p.thres = [par.thres EXCEPT ![index] =
                            IF th.status = "ok" THEN th.value[1] ELSE @]
      BY <1>a DEF ReadBack, HasFields, SameTypes
    <2>2. CASE index < par.numChannels
      <3>1. PICK th \in get_good_thres(dev, handle, index) :
              \E w5, w6 : par' = ReadBack(index, w5, w6, th)
        BY <1>2, <2>2, <1>a DEF readSCAParams
      <3>2. SameTypes(par, par') /\ par'.thres = [par.thres EXCEPT ![index] =
                                       IF th.status = "ok" THEN th.value[1] ELSE @]
        BY <2>1, <3>1
      <3>3. th.status = "ok" => th.value[1] \in Int
        BY <1>a, <1>c, <2>2, <3>1, Reads DEF ThresInv
      <3>4. par'.thres \in [Channels -> Int]
        BY <1>a, <3>2, <3>3 DEF ThresInv
      <3>5. ThresInv'
        BY <1>1, <1>a, <3>4 DEF ThresInv
      <3>6. status' \in {"ok", "error"} /\ UNCHANGED <<connected, complete, shown>>
        BY <1>2, <2>2, <1>a DEF readSCAParams
      <3>7. QED
        BY <1>a, <1>b, <1>1, <3>2, <3>5, <3>6, LoopTypes
    <2>3. CASE ~(index < par.numChannels)
      <3>1. UNCHANGED par /\ (Proceed("trigger") \/ Return("error"))
        BY <1>2, <2>3 DEF readSCAParams
      <3>2. ThresInv'
        BY <1>a, <1>1, <3>1, ThresKept
      <3>3. QED
        BY <1>a, <1>b, <1>1, <3>1, <3>2, LoopTypes, ReturnTypes DEF Proceed
    <2>4. QED
      BY <2>2, <2>3
  <1>3. CASE readDTCParams \/ readTrigB
    <2>1. UNCHANGED par
      BY <1>3 DEF readDTCParams, readTrigB
    <2>2. ThresInv'
      BY <1>a, <1>1, <2>1, ThresKept
    <2>3. \/ Return("ok") \/ Return("error")
          \/ /\ UNCHANGED <<connected, complete>> /\ status' \in {"ok", "error"}
             /\ \/ UNCHANGED shown
                \/ \E s \in SUBSET Channels : \/ shown' = [shown EXCEPT !.dtc = s]
                                              \/ shown' = [shown EXCEPT !.width = s]
      <3>1. CASE readDTCParams
        <4>1. shown.dtc \union {index} \subseteq Channels \/ ~(index < par.numChannels)
          BY <1>a, <1>c
        <4>2. QED
          BY <3>1, <4>1, <1>a DEF readDTCParams, Proceed
      <3>2. CASE readTrigB
        <4>1. shown.width \union {index} \subseteq Channels \/ ~(index < par.numChannels)
          BY <1>a, <1>c
        <4>2. shown.width \ {index} \subseteq Channels
          BY <1>a
        <4>3. QED
          BY <3>2, <4>1, <4>2, <1>a DEF readTrigB
      <3>3. QED
        BY <1>3, <3>1, <3>2
    <2>4. QED
      BY <1>a, <1>b, <1>1, <2>1, <2>2, <2>3, LoopTypes, ReturnTypes
  <1>4. QED
    BY <1>2, <1>3

(* The other handlers: what each may change. *)
LEMMA ClientTypes ==
  ASSUME TypeInv, Clients
  PROVE  TypeInv'
  <1>a. /\ HasSetUp(dev) /\ HasFields(par) /\ SameTypes(par, par) /\ ThresInv /\ PlaceInv
        /\ par.numChannels \in 1 .. TotalChannels /\ status \in {"ok", "error"}
        /\ par.numImages <= MaxFrames
    BY DEF TypeInv, DriverInv, SameTypes
  <1>b. PlaceInv'
    BY <1>a, PlaceClients
  <1>c. UNCHANGED status \/ status' = "ok"
    BY DEF Clients, StartsConnect, StartsRestore, Disconnect, SetLimit, SetThreshold,
           SetNumChannels, SetNumImages, SetNumFramesConfig, SetRunFlagsParam, SetSavePath,
           SaveSettings, Stores, run
  <1>d. /\ handle \in Int /\ connected \in BOOLEAN /\ complete \in BOOLEAN
        /\ {"dtc", "width"} \subseteq DOMAIN shown
        /\ shown.dtc \subseteq Channels /\ shown.width \subseteq Channels
        /\ files \in [Dirs -> {"empty", "partial", "config"}]
    BY Zenon DEF TypeInv, DriverInv
  <1>1. CASE StartsConnect
    <2>1. PICK a \in config(dev, par.configFrames, par.numChannels) :
            /\ dev' = a.dev /\ handle' = a.value[1]
            /\ \/ connected' = TRUE /\ UNCHANGED complete
               \/ complete' = FALSE /\ UNCHANGED connected
      BY <1>1 DEF StartsConnect
    <2>2. HasSetUp(dev') /\ dev'.thres = dev.thres /\ handle' \in Int
      BY <1>a, <2>1, ConfigCall DEF Configured, SameRegisters
    <2>3. UNCHANGED <<par, files>> /\ shown' = NothingShown
      BY <1>1 DEF StartsConnect
    <2>4. ThresInv'
      BY <1>a, <2>2, <2>3, ThresKept
    <2>5. connected' \in BOOLEAN /\ complete' \in BOOLEAN
      BY <1>d, <2>1, Zenon
    <2>6. /\ {"dtc", "width"} \subseteq DOMAIN shown'
          /\ shown'.dtc \subseteq Channels /\ shown'.width \subseteq Channels
      BY <2>3 DEF NothingShown
    <2>7. status' \in {"ok", "error"}
      BY <1>a, <1>c
    <2>8. DriverInv'
      BY <1>a, <1>d, <2>2, <2>3, <2>5, <2>6, <2>7, Zenon DEF DriverInv
    <2>9. QED
      BY <1>b, <2>2, <2>4, <2>8 DEF TypeInv
  <1>2. CASE StartsRestore
    <2>1. UNCHANGED <<dev, handle, connected, par, files, complete>> /\ shown' = NothingShown
          /\ status' = "ok"
      BY <1>2 DEF StartsRestore
    <2>2. ThresInv'
      BY <1>a, <2>1, ThresKept
    <2>3. /\ {"dtc", "width"} \subseteq DOMAIN shown'
          /\ shown'.dtc \subseteq Channels /\ shown'.width \subseteq Channels
      BY <2>1 DEF NothingShown
    <2>4. DriverInv'
      BY <1>a, <1>d, <2>1, <2>3, Zenon DEF DriverInv
    <2>5. QED
      BY <1>a, <1>b, <2>1, <2>2, <2>4 DEF TypeInv
  <1>3. CASE Disconnect
    <2>1. PICK a \in close(dev, handle) : dev' = a.dev
      BY <1>3 DEF Disconnect
    <2>2. HasSetUp(dev') /\ dev'.thres = dev.thres
      BY <1>a, <2>1, CloseCall DEF Closed, SameRegisters
    <2>3. connected' = FALSE /\ UNCHANGED <<handle, par, shown, files, complete, status>>
      BY <1>3 DEF Disconnect, run
    <2>4. ThresInv'
      BY <1>a, <2>2, <2>3, ThresKept
    <2>5. DriverInv'
      BY <1>a, <1>d, <2>3, Zenon DEF DriverInv
    <2>6. QED
      BY <1>b, <2>2, <2>4, <2>5 DEF TypeInv
  <1>4. CASE SetLimit \/ SetThreshold
    <2>1. UNCHANGED <<handle, connected, complete, shown, files, status>>
      BY <1>4 DEF SetLimit, SetThreshold, run
    <2>2. CASE SetLimit
      <3>1. PICK cell \in Edited, value \in Limits, side \in {1, 2} :
              LET window == [par.limits[cell[1]][cell[2]] EXCEPT ![side] = value]
              IN  \E a \in setWindow(cell[1], cell[2], window) :
                    /\ dev' = a.dev
                    /\ par' = [par EXCEPT !.limits[cell[1]][cell[2]] = window]
        BY <2>2 DEF SetLimit
      <3>2. HasSetUp(dev') /\ dev'.thres = dev.thres
        BY <1>a, <3>1, SetWindowCall
      <3>3. SameTypes(par, par') /\ par'.thres = par.thres
        BY <1>a, <3>1 DEF HasFields, SameTypes
      <3>4. QED
        BY <1>a, <1>b, <2>1, <3>2, <3>3, ThresKept, LoopTypes
    <2>3. CASE SetThreshold
      <3>1. PICK cell \in Edited, value \in Limits :
              \E a \in set_good_thres(dev, handle, cell[1], value) :
                /\ a.status = "ok" /\ dev' = a.dev
                /\ par' = [par EXCEPT !.thres[cell[1]] = value]
        BY <2>3 DEF SetThreshold
      <3>2. cell[1] \in Channels /\ value \in Int
        BY EditedAssumption, RequestAssumption DEF Channels
      <3>3. HasSetUp(dev') /\ dev'.thres = [dev.thres EXCEPT ![cell[1]] = value]
        <4>1. PICK a \in set_good_thres(dev, handle, cell[1], value) :
                a.status = "ok" /\ dev' = a.dev
          BY <3>1
        <4>2. ThresSet(dev, a, cell[1], value)
          BY <1>a, ThresCall
        <4>3. QED
          BY <4>1, <4>2 DEF ThresSet, Still
      <3>4. SameTypes(par, par') /\ par'.thres = [par.thres EXCEPT ![cell[1]] = value]
        BY <1>a, <3>1 DEF HasFields, SameTypes
      <3>5. ThresInv'
        BY <1>a, <3>2, <3>3, <3>4 DEF ThresInv
      <3>6. QED
        BY <1>a, <1>b, <2>1, <3>3, <3>4, <3>5, LoopTypes
    <2>4. QED
      BY <1>4, <2>2, <2>3
  <1>5. CASE SetNumFramesConfig \/ SetRunFlagsParam \/ SetSavePath
    <2>1. UNCHANGED <<dev, handle, connected, complete, shown, files, status>>
      BY <1>5 DEF SetNumFramesConfig, SetRunFlagsParam, SetSavePath, Stores, run
    <2>2. \E v : \/ par' = [par EXCEPT !.configFrames = v]
                 \/ par' = [par EXCEPT !.runFlag = v]
                 \/ par' = [par EXCEPT !.savePath = v]
      BY <1>5 DEF SetNumFramesConfig, SetRunFlagsParam, SetSavePath, Stores
    <2>3. SameTypes(par, par') /\ par'.thres = par.thres
      BY <1>a, <2>2 DEF HasFields, SameTypes
    <2>4. QED
      BY <1>a, <1>b, <2>1, <2>3, ThresKept, LoopTypes
  <1>6. CASE SetNumChannels \/ SetNumImages
    <2>1. UNCHANGED <<dev, handle, connected, complete, shown, files, status>>
      BY <1>6 DEF SetNumChannels, SetNumImages, Stores, run
    <2>2. /\ HasFields(par') /\ par'.thres = par.thres
          /\ par'.numChannels \in 1 .. TotalChannels /\ par'.numImages <= MaxFrames
      <3>1. CASE SetNumChannels
        BY <1>a, <3>1 DEF SetNumChannels, Stores, HasFields
      <3>2. CASE SetNumImages
        BY <1>a, <3>2 DEF SetNumImages, Stores, HasFields
      <3>3. QED
        BY <1>6, <3>1, <3>2
    <2>3. ThresInv'
      BY <1>a, <2>1, <2>2, ThresKept
    <2>4. DriverInv'
      BY <1>a, <1>d, <2>1, <2>2, Zenon DEF DriverInv
    <2>5. QED
      BY <1>a, <1>b, <2>1, <2>3, <2>4 DEF TypeInv
  <1>7. CASE SaveSettings
    <2>1. UNCHANGED <<dev, handle, connected, complete, shown, status>>
      BY <1>7 DEF SaveSettings, run
    <2>2. SameTypes(par, par') /\ par'.thres = par.thres
      BY <1>a, <1>7 DEF SaveSettings, HasFields, SameTypes
    <2>3. files' \in [Dirs -> {"empty", "partial", "config"}]
      <3>1. PICK a \in save_settings(dev, handle) : files' \in Saved(par.savePath, a.status)
        BY <1>7 DEF SaveSettings
      <3>2. \/ files' = files
            \/ \E content \in {files[par.savePath], "config", "partial"} :
                 files' = [files EXCEPT ![par.savePath] = content]
        BY <3>1 DEF Saved
      <3>3. QED
        BY <1>d, <3>2
    <2>4. ThresInv'
      BY <1>a, <2>1, <2>2, ThresKept
    <2>5. /\ HasFields(par') /\ par'.numChannels \in 1 .. TotalChannels
          /\ par'.numImages <= MaxFrames
      BY <1>a, <2>2 DEF SameTypes
    <2>6. DriverInv'
      BY <1>a, <1>d, <2>1, <2>3, <2>5, Zenon DEF DriverInv
    <2>7. QED
      BY <1>a, <1>b, <2>1, <2>4, <2>6 DEF TypeInv
  <1>8. QED
    BY <1>1, <1>2, <1>3, <1>4, <1>5, <1>6, <1>7 DEF Clients

LEMMA TypeStep == TypeInv /\ [Next]_vars => TypeInv'
  <1> SUFFICES ASSUME TypeInv, [Next]_vars PROVE TypeInv'
    OBVIOUS
  <1>1. CASE Steps
    BY <1>1, SetUpTypes, WriteTypes, ReadingTypes DEF Steps
  <1>2. CASE Clients
    BY <1>2, ClientTypes
  <1>3. CASE UNCHANGED vars
    BY <1>3 DEF vars, run, TypeInv, PlaceInv, ThresInv, DriverInv
  <1>4. QED
    BY <1>1, <1>2, <1>3 DEF Next

(***************************************************************************)
(* The parameters and the connection keep their shapes: every pass of      *)
(* connect() and restoreSettings() stays within the cards or the channels. *)
(***************************************************************************)
THEOREM SettingsTypes ==
  ASSUME RawWindow \in Pairs
  PROVE  Spec => []TypeOK
  <1>1. OrderInv /\ TypeInv => TypeOK
    <2> SUFFICES ASSUME OrderInv, TypeInv PROVE TypeOK
      OBVIOUS
    <2>1. par.limits \in Windows
      BY DEF OrderInv, ShapeInv, Windows, OrderedPairs, Pairs
    <2>2. index \in 0 .. NumCards + TotalChannels
      <3>1. index \in Nat /\ (index <= NumCards \/ index <= par.numChannels \/ index = 0)
        BY DEF TypeInv, PlaceInv
      <3>2. par.numChannels \in 1 .. TotalChannels
        BY DEF TypeInv, DriverInv
      <3>3. QED
        BY <3>1, <3>2, SizesAssumption
    <2>3. QED
      BY <2>1, <2>2, Zenon DEF TypeInv, DriverInv, ThresInv, TypeOK
  <1>2. QED
    BY <1>1, OrderInit, OrderStep, TypeInit, TypeStep, PTL DEF Spec

(***************************************************************************)
(* Connected means set up.  Of a detector, what each step has added is     *)
(* counted up to where its loop is; what a step of an earlier restore left *)
(* counts as long as the connection does.                                  *)
(***************************************************************************)
Late == {"sca5", "sca6", "readback", "trigger", "dtc", "width"}

(* The members of a loop below n are in S. *)
Upto(n, S) == \A c \in Channels : c < n => c \in S

(* The handle and the clocks. *)
ClocksInv == ~Simulated(dev) =>
  /\ dev.clocked \subseteq Cards
  /\ connected => handle = dev.path
  /\ connected /\ pc # "clocks" => dev.clocked = Cards
  /\ pc = "clocks" /\ status = "ok" => \A k \in Cards : k < index => k \in dev.clocked

(* The runs and their flags. *)
RunsInv == ~Simulated(dev) =>
  /\ pc = "format" /\ status = "ok" => Upto(index, dev.formatted)
  /\ pc = "flags" /\ status = "ok" => InUse \subseteq dev.formatted
  /\ pc \in Late \/ Settled => InUse \subseteq dev.formatted /\ dev.runFlags # "none"

(* What dead-time figures are worked out from. *)
ShownInv == ~Simulated(dev) =>
  /\ pc = "dtc" /\ status = "ok" => Upto(index, shown.dtc)
  /\ pc = "width" \/ Settled => InUse \subseteq shown.dtc
  /\ pc = "width" /\ status = "ok" => Upto(index, shown.width)
  /\ Settled => InUse \subseteq shown.width

LEMMA ReturnSettles ==
  ASSUME PlaceInv, NEW result, Return(result)
  PROVE  /\ connected' => connected
         /\ Settled' => result = "ok"
         /\ pc' = "idle"
  <1>1. connected' => connected
    <2>1. connected' = IF command = "connect" THEN result = "ok" ELSE connected
      BY DEF Return
    <2>2. command = "connect" => connected
      BY DEF PlaceInv
    <2>3. QED
      BY <2>1, <2>2
  <1>2. Settled' => result = "ok"
    BY DEF Return, Settled
  <1>3. QED
    BY <1>1, <1>2 DEF Return, GoTo

LEMMA SimulatedStays ==
  ASSUME NEW d, NEW e, e.kind = d.kind
  PROVE  Simulated(e) <=> Simulated(d)
  BY DEF Simulated

(* The steps that set nothing up and take nothing away. *)
LoadOrRead ==
  \/ RestoreFile \/ WriteWindow5 \/ WriteWindow6 \/ readSCAParams
  \/ WriteTriggerMode \/ readDTCParams \/ readTrigB

Setting ==
  \/ StartsRestore \/ SetLimit \/ SetThreshold \/ SetNumChannels \/ SetNumImages
  \/ SetNumFramesConfig \/ SetRunFlagsParam \/ SetSavePath \/ SaveSettings

(* SetLimit, with its cell and the window it asks for. *)
LEMMA SetLimitDoes ==
  ASSUME SetLimit
  PROVE  /\ pc = "idle" /\ connected /\ UNCHANGED <<handle, connected, shown, files, run>>
         /\ \E c \in Channels, w \in {0, 1} : \E x : \E a \in setWindow(c, w, x) :
              /\ a.status = "ok" /\ dev' = a.dev
              /\ par' = [par EXCEPT !.limits = WithCell(par.limits, c, w, x)]
  <1>1. PICK cell \in Edited, value \in Limits, side \in {1, 2} :
          LET window == [par.limits[cell[1]][cell[2]] EXCEPT ![side] = value]
          IN  \E a \in setWindow(cell[1], cell[2], window) :
                /\ a.status = "ok" /\ dev' = a.dev
                /\ par' = [par EXCEPT !.limits[cell[1]][cell[2]] = window]
    BY DEF SetLimit
  <1> DEFINE window == [par.limits[cell[1]][cell[2]] EXCEPT ![side] = value]
  <1>2. PICK a \in setWindow(cell[1], cell[2], window) :
          /\ a.status = "ok" /\ dev' = a.dev
          /\ par' = [par EXCEPT !.limits[cell[1]][cell[2]] = window]
    BY <1>1
  <1> HIDE DEF window
  <1>3. par' = [par EXCEPT !.limits = WithCell(par.limits, cell[1], cell[2], window)]
    BY <1>2 DEF WithCell
  <1>4. cell[1] \in Channels /\ cell[2] \in {0, 1}
    BY EditedAssumption DEF Channels
  <1>5. pc = "idle" /\ connected /\ UNCHANGED <<handle, connected, shown, files, run>>
    BY DEF SetLimit
  <1>6. QED
    BY <1>2, <1>3, <1>4, <1>5

(* The window it asks for is the one there is with one side replaced. *)
LEMMA SetLimitAsks ==
  ASSUME SetLimit, par.limits \in [Channels -> [{0, 1} -> Pairs]]
  PROVE  \E c \in Channels, w \in {0, 1}, x \in Pairs : \E a \in setWindow(c, w, x) :
              /\ \A side \in {1, 2} : x[side] \in {par.limits[c][w][side]} \union Limits
              /\ a.status = "ok" /\ dev' = a.dev
              /\ par' = [par EXCEPT !.limits = WithCell(par.limits, c, w, x)]
  <1>1. PICK cell \in Edited, value \in Limits, side \in {1, 2} :
          LET window == [par.limits[cell[1]][cell[2]] EXCEPT ![side] = value]
          IN  \E a \in setWindow(cell[1], cell[2], window) :
                /\ a.status = "ok" /\ dev' = a.dev
                /\ par' = [par EXCEPT !.limits[cell[1]][cell[2]] = window]
    BY DEF SetLimit
  <1> DEFINE window == [par.limits[cell[1]][cell[2]] EXCEPT ![side] = value]
  <1>2. PICK a \in setWindow(cell[1], cell[2], window) :
          /\ a.status = "ok" /\ dev' = a.dev
          /\ par' = [par EXCEPT !.limits[cell[1]][cell[2]] = window]
    BY <1>1
  <1>3. cell[1] \in Channels /\ cell[2] \in {0, 1} /\ value \in Int
    BY EditedAssumption, RequestAssumption DEF Channels
  <1>4. par.limits[cell[1]][cell[2]] \in Pairs
    BY <1>3
  <1>5. /\ window \in Pairs
        /\ \A s \in {1, 2} : window[s] \in {par.limits[cell[1]][cell[2]][s]} \union Limits
    BY <1>3, <1>4 DEF Pairs
  <1> HIDE DEF window
  <1>6. par' = [par EXCEPT !.limits = WithCell(par.limits, cell[1], cell[2], window)]
    BY <1>2 DEF WithCell
  <1>7. QED
    BY <1>2, <1>3, <1>5, <1>6

LEMMA RunsKept ==
  ASSUME HasSetUp(dev), LoadOrRead \/ Setting
  PROVE  Still(dev, dev') /\ SameRuns(dev, dev')
  <1>a. Untouched(dev, dev)
    BY UntouchedItself
  <1>1. CASE RestoreFile
    <2>1. dev' = dev \/ \E a \in restore_settings(dev, handle) : dev' = a.dev
      BY <1>1 DEF RestoreFile, Call
    <2>2. QED
      BY <1>a, <2>1, RestoreCall DEF Restored, Untouched
  <1>2. CASE WriteWindow5 \/ WriteWindow6 \/ SetLimit
    <2>1. \/ UNCHANGED dev
          \/ \E c, w, x : \E a \in setWindow(c, w, x) : dev' = a.dev
      <3>1. CASE WriteWindow5 \/ WriteWindow6
        BY <3>1 DEF WriteWindow5, WriteWindow6, WriteWindows, Call
      <3>2. CASE SetLimit
        BY <3>2, SetLimitDoes
      <3>3. QED
        BY <1>2, <3>1, <3>2
    <2>2. QED
      BY <1>a, <2>1, SetWindowCall DEF Still, SameRuns, Untouched
  <1>3. CASE WriteTriggerMode
    BY <1>a, <1>3, CardCall DEF WriteTriggerMode, Call, Untouched
  <1>4. CASE SetThreshold
    <2>1. PICK c, v : \E a \in set_good_thres(dev, handle, c, v) : dev' = a.dev
      BY <1>4 DEF SetThreshold
    <2>2. PICK a \in set_good_thres(dev, handle, c, v) : dev' = a.dev
      BY <2>1
    <2>3. ThresSet(dev, a, c, v)
      BY ThresCall
    <2>4. QED
      BY <2>2, <2>3 DEF ThresSet
  <1>5. CASE \/ readSCAParams \/ readDTCParams \/ readTrigB \/ StartsRestore \/ SetNumChannels
             \/ SetNumImages \/ SetNumFramesConfig \/ SetRunFlagsParam \/ SetSavePath
             \/ SaveSettings
    <2>1. UNCHANGED dev
      BY <1>5 DEF readSCAParams, readDTCParams, readTrigB, StartsRestore, SetNumChannels,
                  SetNumImages, SetNumFramesConfig, SetRunFlagsParam, SetSavePath,
                  SaveSettings, Stores
    <2>2. QED
      BY <1>a, <2>1 DEF Untouched
  <1>6. QED
    BY <1>1, <1>2, <1>3, <1>4, <1>5 DEF LoadOrRead, Setting

(* Where they go: on, around a loop, or back to idle. *)
Moves ==
  /\ UNCHANGED connected /\ pc' \in Late \union {"format"}
  /\ pc' = "format" => index' = 0
  /\ pc' \in Late => pc \in Late

LEMMA LoadOrReadGoes ==
  ASSUME LoadOrRead, HasFields(par)
  PROVE  /\ pc \in Late \union {"restore"} /\ handle' = handle
         /\ par'.numChannels = par.numChannels
         /\ Return("error") \/ (pc = "width" /\ Return(status)) \/ Moves
  <1> USE DEF Moves, Late, Proceed, GoTo, Again
  <1>1. CASE RestoreFile
    BY <1>1 DEF RestoreFile
  <1>2. CASE WriteWindow5 \/ WriteWindow6
    BY <1>2 DEF WriteWindow5, WriteWindow6, WriteWindows
  <1>3. CASE readSCAParams
    <2>1. \A c, w5, w6, th : ReadBack(c, w5, w6, th).numChannels = par.numChannels
      BY DEF ReadBack, HasFields
    <2>2. par'.numChannels = par.numChannels
      BY <1>3, <2>1 DEF readSCAParams
    <2>3. QED
      BY <1>3, <2>2 DEF readSCAParams
  <1>4. CASE WriteTriggerMode
    BY <1>4 DEF WriteTriggerMode
  <1>5. CASE readDTCParams
    BY <1>5 DEF readDTCParams
  <1>6. CASE readTrigB
    BY <1>6 DEF readTrigB
  <1>7. QED
    BY <1>1, <1>2, <1>3, <1>4, <1>5, <1>6 DEF LoadOrRead

LEMMA SettingStays ==
  ASSUME Setting, HasFields(par)
  PROVE  /\ pc = "idle" /\ UNCHANGED <<handle, connected, complete>>
         /\ pc' \in {"idle", "restore"}
         /\ ~SetNumChannels => par'.numChannels = par.numChannels
         /\ ~StartsRestore => pc' = "idle" /\ UNCHANGED shown
  <1>1. CASE StartsRestore
    <2>1. pc' = "restore" /\ pc = "idle"
          /\ UNCHANGED <<handle, connected, complete, par>>
      BY <1>1 DEF StartsRestore, GoTo
    <2>2. QED
      BY <1>1, <2>1
  <1>2. CASE ~StartsRestore
    <2>1. pc = "idle" /\ UNCHANGED <<handle, connected, shown, run>>
      BY <1>2 DEF Setting, SetLimit, SetThreshold, SetNumChannels, SetNumImages,
           SetNumFramesConfig, SetRunFlagsParam, SetSavePath, SaveSettings, Stores
    <2>2. CASE SetLimit \/ SetThreshold
      <3>1. \E c, v : \/ par' = [par EXCEPT !.limits = v]
                      \/ par' = [par EXCEPT !.thres[c] = v]
        BY <2>2, SetLimitDoes DEF SetThreshold
      <3>2. par'.numChannels = par.numChannels
        BY <3>1 DEF HasFields
      <3>3. QED
        BY <1>2, <2>1, <3>2 DEF run
    <2>3. CASE ~SetLimit /\ ~SetThreshold
      <3>1. ~SetNumChannels =>
              \E v : \/ par' = [par EXCEPT !.configFrames = v]
                    \/ par' = [par EXCEPT !.numImages = v]
                    \/ par' = [par EXCEPT !.runFlag = v]
                    \/ par' = [par EXCEPT !.savePath = v]
                    \/ par' = par
        BY <1>2, <2>3 DEF Setting, SetNumImages, SetNumFramesConfig, SetRunFlagsParam,
                          SetSavePath, SaveSettings, Stores
      <3>2. ~SetNumChannels => par'.numChannels = par.numChannels
        BY <3>1 DEF HasFields
      <3>3. QED
        BY <1>2, <2>1, <3>2 DEF run
    <2>4. QED
      BY <2>2, <2>3
  <1>3. QED
    BY <1>1, <1>2

(* Neither touches the handle or the clocks. *)
Aside ==
  /\ Still(dev, dev') /\ dev'.clocked = dev.clocked /\ handle' = handle
  /\ connected' => connected
  /\ pc # "clocks" /\ pc' # "clocks"

LEMMA RestoreAside ==
  ASSUME TypeInv, LoadOrRead \/ Setting \/ FormatRuns \/ SetRunFlags
  PROVE  Aside
  <1>a. HasSetUp(dev) /\ HasFields(par) /\ Untouched(dev, dev) /\ PlaceInv
    BY UntouchedItself DEF TypeInv, DriverInv
  <1>1. ASSUME NEW result, Return(result)
        PROVE  (connected' => connected) /\ pc' # "clocks"
    BY <1>a, <1>1, ReturnSettles
  <1>2. CASE LoadOrRead
    BY <1>a, <1>1, <1>2, RunsKept, LoadOrReadGoes DEF Aside, SameRuns, Late, Moves
  <1>3. CASE Setting
    BY <1>a, <1>3, RunsKept, SettingStays DEF Aside, SameRuns
  <1>4. CASE FormatRuns
    <2>1. Still(dev, dev') /\ dev'.clocked = dev.clocked
      BY <1>a, <1>4, FormatCall DEF FormatRuns, CallOn, RunFormatted, SameRuns, Untouched
    <2>2. QED
      BY <1>4, <2>1 DEF FormatRuns, GoTo, Again, Aside
  <1>5. CASE SetRunFlags
    <2>1. Still(dev, dev') /\ dev'.clocked = dev.clocked
      BY <1>a, <1>5, FlagsCall DEF SetRunFlags, FlagsSet, SameRuns, Untouched
    <2>2. pc = "flags" /\ handle' = handle /\ (Return("error") \/ Proceed("sca5"))
      BY <1>5 DEF SetRunFlags
    <2>3. QED
      BY <1>1, <2>1, <2>2 DEF Proceed, GoTo, Aside
  <1>6. QED
    BY <1>2, <1>3, <1>4, <1>5

LEMMA NextSteps ==
  Next => \/ SetUpClocks \/ ClocksDone \/ FormatRuns \/ SetRunFlags \/ LoadOrRead
          \/ StartsConnect \/ Disconnect \/ Setting
  BY DEF Next, Steps, Clients, LoadOrRead, Setting

LEMMA AsideKeepsClocks ==
  ASSUME ClocksInv, Aside
  PROVE  ClocksInv'
  <1>1. Simulated(dev') <=> Simulated(dev)
    BY SimulatedStays DEF Aside, Still
  <1>2. QED
    BY <1>1 DEF Aside, Still, ClocksInv, Cards

LEMMA ClocksStep == TypeInv /\ ClocksInv /\ [Next]_vars => ClocksInv'
  <1> SUFFICES ASSUME TypeInv, ClocksInv, [Next]_vars PROVE ClocksInv'
    OBVIOUS
  <1>a. HasSetUp(dev) /\ PlaceInv /\ index \in Nat /\ NumCards \in Nat
    BY SizesAssumption DEF TypeInv, PlaceInv
  <1>1. CASE SetUpClocks
    <2>1. PICK a \in clocks_setup(dev, handle, index) : dev' = a.dev /\ status' = a.status
      BY <1>1 DEF SetUpClocks, Call
    <2>2. ClocksSet(dev, a, index)
      BY <1>a, ClocksCall
    <2>3. /\ pc = "clocks" /\ pc' = "clocks" /\ index' = index + 1 /\ status = "ok"
          /\ index \in Cards /\ UNCHANGED <<handle, connected>>
      BY <1>1, <1>a DEF SetUpClocks, Again, Cards
    <2>4. Simulated(dev') <=> Simulated(dev)
      BY <2>1, <2>2, SimulatedStays DEF ClocksSet, Still
    <2>5. ASSUME ~Simulated(dev) PROVE ClocksInv'
      <3>1. dev'.path = dev.path /\ dev'.clocked \subseteq Cards
        BY <2>1, <2>2, <2>3, <2>5 DEF ClocksSet, Still, ClocksInv
      <3>2. status' = "ok" => dev'.clocked = dev.clocked \union {index}
        BY <2>1, <2>2, <2>5 DEF ClocksSet
      <3>3. status' = "ok" => \A k \in Cards : k < index' => k \in dev'.clocked
        BY <1>a, <2>3, <2>5, <3>2 DEF ClocksInv, Cards
      <3>4. QED
        BY <2>3, <2>5, <3>1, <3>3 DEF ClocksInv, Cards
    <2>6. QED
      BY <2>4, <2>5 DEF ClocksInv
  <1>2. CASE ClocksDone
    <2>1. UNCHANGED <<dev, handle>> /\ pc = "clocks" /\ (index = NumCards \/ status # "ok")
      BY <1>2 DEF ClocksDone
    <2>2. CASE status = "ok"
      <3>1. UNCHANGED connected /\ pc' = "restore" /\ index = NumCards
        BY <1>2, <2>1, <2>2 DEF ClocksDone, Proceed, GoTo
      <3>2. ~Simulated(dev) => dev.clocked = Cards
        <4>1. \A k \in Cards : k < index
          BY <1>a, <3>1 DEF Cards
        <4>2. QED
          BY <2>1, <2>2, <4>1 DEF ClocksInv
      <3>3. QED
        BY <2>1, <3>1, <3>2 DEF ClocksInv, Cards
    <2>3. CASE status # "ok"
      <3>1. Return("error") /\ command = "connect"
        BY <1>2, <1>a, <2>1, <2>3 DEF ClocksDone, PlaceInv
      <3>2. ~connected' /\ pc' = "idle"
        BY <3>1 DEF Return, GoTo
      <3>3. QED
        BY <2>1, <3>2 DEF ClocksInv, Cards
    <2>4. QED
      BY <2>2, <2>3
  <1>3. CASE StartsConnect
    <2>1. PICK a \in config(dev, par.configFrames, par.numChannels) :
            /\ dev' = a.dev /\ handle' = a.value[1] /\ pc = "idle"
            /\ \/ handle' >= 0 /\ pc' = "clocks" /\ index' = 0
               \/ handle' < 0 /\ UNCHANGED <<connected, pc, index, status>>
      BY <1>3 DEF StartsConnect, GoTo
    <2>2. Configured(dev, a)
      BY <1>a, ConfigCall
    <2>3. (Simulated(dev') <=> Simulated(dev)) /\ a.value[1] \in Int
      BY <2>1, <2>2, SimulatedStays DEF Configured
    <2>4. CASE handle' >= 0 /\ pc' = "clocks" /\ index' = 0
      <3>1. ~Simulated(dev) => dev'.path = handle' /\ dev'.clocked = {}
        BY <2>1, <2>2, <2>4 DEF Configured
      <3>2. \A k \in Cards : ~(k < 0)
        BY <1>a DEF Cards
      <3>3. QED
        BY <2>3, <2>4, <3>1, <3>2 DEF ClocksInv, Cards
    <2>5. CASE handle' < 0 /\ UNCHANGED <<connected, pc, index, status>>
      <3>1. ~Simulated(dev) => dev'.path = handle' /\ dev'.clocked = dev.clocked
        BY <2>1, <2>2, <2>5 DEF Configured, SameRuns
      <3>2. QED
        BY <2>1, <2>3, <2>5, <3>1 DEF ClocksInv, Cards
    <2>6. QED
      BY <2>1, <2>4, <2>5
  <1>4. CASE Disconnect
    <2>1. PICK a \in close(dev, handle) : dev' = a.dev
      BY <1>4 DEF Disconnect
    <2>2. Closed(dev, a)
      BY <1>a, CloseCall
    <2>3. ~connected' /\ pc' = "idle"
      BY <1>4 DEF Disconnect, run
    <2>4. (Simulated(dev') <=> Simulated(dev)) /\ dev'.clocked = dev.clocked
      BY <2>1, <2>2, SimulatedStays DEF Closed, SameRuns
    <2>5. QED
      BY <2>3, <2>4 DEF ClocksInv, Cards
  <1>5. CASE LoadOrRead \/ Setting \/ FormatRuns \/ SetRunFlags
    BY <1>5, RestoreAside, AsideKeepsClocks
  <1>6. CASE UNCHANGED vars
    BY <1>6 DEF vars, run, ClocksInv, Cards
  <1>7. QED
    BY <1>1, <1>2, <1>3, <1>4, <1>5, <1>6, NextSteps

(* A step after which nothing is claimed of the runs. *)
LEMMA RunsIdle ==
  ASSUME pc' \in {"clocks", "restore"} \/ (pc' = "idle" /\ ~Settled')
  PROVE  RunsInv' /\ ShownInv'
  BY DEF RunsInv, ShownInv, Late, Settled

LEMMA ConnectSettlesNothing ==
  ASSUME PlaceInv, SetUpClocks \/ ClocksDone \/ StartsConnect \/ Disconnect
  PROVE  pc' \in {"clocks", "restore"} \/ (pc' = "idle" /\ ~Settled')
  <1>1. CASE SetUpClocks
    BY <1>1 DEF SetUpClocks, Again
  <1>2. CASE ClocksDone
    BY <1>2, ReturnSettles DEF ClocksDone, Proceed, GoTo
  <1>3. CASE StartsConnect
    BY <1>3 DEF StartsConnect, GoTo, Settled
  <1>4. CASE Disconnect
    BY <1>4 DEF Disconnect, run, Settled
  <1>5. QED
    BY <1>1, <1>2, <1>3, <1>4

(* What clients are taken to leave alone while connected. *)
ChannelsRule == "ChannelsWhenDisconnected" \in ClientRules

(* A loop over the channels in use, when it has come to its end. *)
LEMMA WholeLoop ==
  ASSUME NEW S, NEW n, n = par.numChannels, Upto(n, S), par.numChannels \in 1 .. TotalChannels
  PROVE  InUse \subseteq S
  BY SizesAssumption DEF Upto, InUse, Channels

LEMMA NextPass ==
  ASSUME NEW S, NEW n \in Nat, Upto(n, S)
  PROVE  Upto(n + 1, S \union {n})
  BY DEF Upto, Channels

LEMMA RunsStep ==
  ASSUME ChannelsRule
  PROVE  TypeInv /\ RunsInv /\ [Next]_vars => RunsInv'
  <1> SUFFICES ASSUME TypeInv, RunsInv, [Next]_vars PROVE RunsInv'
    OBVIOUS
  <1>a. /\ HasSetUp(dev) /\ HasFields(par) /\ PlaceInv /\ index \in Nat
        /\ par.numChannels \in 1 .. TotalChannels
    BY DEF TypeInv, PlaceInv, DriverInv
  <1>1. CASE SetUpClocks \/ ClocksDone \/ StartsConnect \/ Disconnect
    BY <1>1, <1>a, ConnectSettlesNothing, RunsIdle
  <1>2. CASE FormatRuns
    <2>1. CASE index < par.numChannels
      <3>1. PICK a \in format_run(dev, handle, index) :
              dev' = a.dev /\ status' = IF a.status = "ok" THEN status ELSE "error"
        BY <1>2, <2>1, <1>a DEF FormatRuns, CallOn
      <3>2. RunFormatted(dev, a, index)
        BY <1>a, FormatCall
      <3>3. pc = "format" /\ pc' = "format" /\ index' = index + 1
        BY <1>2, <2>1, <1>a DEF FormatRuns, Again
      <3>4. Simulated(dev') <=> Simulated(dev)
        BY <3>1, <3>2, SimulatedStays DEF RunFormatted, Still
      <3>5. ASSUME ~Simulated(dev), status' = "ok" PROVE Upto(index', dev'.formatted)
        <4>1. status = "ok" /\ a.status = "ok"
          BY <3>1, <3>5
        <4>2. dev'.formatted = dev.formatted \union {index}
          BY <3>1, <3>2, <3>5, <4>1 DEF RunFormatted
        <4>3. QED
          BY <1>a, <3>3, <3>5, <4>1, <4>2, NextPass DEF RunsInv
      <3>6. QED
        BY <3>3, <3>4, <3>5 DEF RunsInv, Late, Settled
    <2>2. CASE ~(index < par.numChannels)
      <3>1. UNCHANGED <<dev, status, par>> /\ pc = "format" /\ pc' = "flags"
            /\ index = par.numChannels
        BY <1>2, <2>2 DEF FormatRuns, GoTo
      <3>2. ~Simulated(dev) /\ status = "ok" => InUse \subseteq dev.formatted
        BY <1>a, <3>1, WholeLoop DEF RunsInv
      <3>3. QED
        BY <3>1, <3>2 DEF RunsInv, Late, Settled, InUse
    <2>3. QED
      BY <2>1, <2>2
  <1>3. CASE SetRunFlags
    <2>1. CASE Return("error")
      BY <1>a, <2>1, ReturnSettles, RunsIdle
    <2>2. CASE ~Return("error")
      <3>1. PICK a \in set_run_flags(dev, handle, Flags[par.runFlag + 1]) :
              dev' = a.dev /\ {status, a.status} = {"ok"} /\ Proceed("sca5")
        BY <1>3, <2>2 DEF SetRunFlags
      <3>2. FlagsSet(dev, a, Flags[par.runFlag + 1])
        BY <1>a, FlagsCall
      <3>3. Flags[par.runFlag + 1] # "none"
        <4>1. par.runFlag \in {0, 1}
          BY <1>3, <2>2 DEF SetRunFlags
        <4>2. Flags[0 + 1] # "none" /\ Flags[1 + 1] # "none"
          BY DEF Flags
        <4>3. QED
          BY <4>1, <4>2
      <3>4. status = "ok" /\ a.status = "ok" /\ pc' = "sca5" /\ UNCHANGED par /\ pc = "flags"
        BY <1>3, <3>1 DEF SetRunFlags, Proceed, GoTo
      <3>5. (Simulated(dev') <=> Simulated(dev)) /\ dev'.formatted = dev.formatted
        BY <3>1, <3>2, SimulatedStays DEF FlagsSet, Still
      <3>6. ~Simulated(dev) => dev'.runFlags # "none" /\ InUse \subseteq dev.formatted
        BY <3>1, <3>2, <3>3, <3>4 DEF FlagsSet, RunsInv
      <3>7. QED
        BY <3>4, <3>5, <3>6 DEF RunsInv, InUse
    <2>3. QED
      BY <2>1, <2>2
  <1>4. CASE LoadOrRead
    <2>1. /\ pc \in Late \union {"restore"} /\ par'.numChannels = par.numChannels
          /\ dev'.formatted = dev.formatted /\ dev'.runFlags = dev.runFlags
          /\ Simulated(dev') <=> Simulated(dev)
          /\ Return("error") \/ (pc = "width" /\ Return(status)) \/ Moves
      BY <1>a, <1>4, RunsKept, LoadOrReadGoes, SimulatedStays DEF Still, SameRuns
    <2>2. CASE Return("error")
      BY <1>a, <2>2, ReturnSettles, RunsIdle
    <2>3. CASE pc = "width" /\ Return(status)
      <3>1. pc' = "idle" /\ pc \in Late
        BY <1>a, <2>3, ReturnSettles DEF Late
      <3>2. QED
        BY <2>1, <3>1 DEF RunsInv, InUse
    <2>4. CASE Moves
      <3>1. CASE pc' = "format"
        <4>1. Upto(0, dev'.formatted)
          BY DEF Upto, Channels
        <4>2. QED
          BY <2>4, <3>1, <4>1 DEF Moves, RunsInv, Late, Settled
      <3>2. CASE pc' \in Late
        <4>1. pc \in Late /\ pc' \notin {"format", "flags", "idle"}
          BY <2>4, <3>2 DEF Moves, Late
        <4>2. QED
          BY <2>1, <3>2, <4>1 DEF RunsInv, InUse, Settled
      <3>3. QED
        BY <2>4, <3>1, <3>2 DEF Moves
    <2>5. QED
      BY <2>1, <2>2, <2>3, <2>4
  <1>5. CASE Setting
    <2>1. /\ pc = "idle" /\ UNCHANGED <<connected, complete>> /\ pc' \in {"idle", "restore"}
          /\ dev'.formatted = dev.formatted /\ dev'.runFlags = dev.runFlags
          /\ Simulated(dev') <=> Simulated(dev)
      BY <1>a, <1>5, RunsKept, SettingStays, SimulatedStays DEF Still, SameRuns
    <2>2. CASE SetNumChannels
      <3>1. ~connected
        BY <2>2 DEF SetNumChannels, ChannelsRule
      <3>2. QED
        BY <2>1, <3>1, RunsIdle DEF Settled
    <2>3. CASE ~SetNumChannels
      <3>1. par'.numChannels = par.numChannels
        BY <1>a, <1>5, <2>3, SettingStays
      <3>2. QED
        BY <2>1, <3>1 DEF RunsInv, InUse, Settled, Late
    <2>4. QED
      BY <2>2, <2>3
  <1>6. CASE UNCHANGED vars
    BY <1>6 DEF vars, run, RunsInv, InUse, Settled
  <1>7. QED
    BY <1>1, <1>2, <1>3, <1>4, <1>5, <1>6, NextSteps

LEMMA ShownStep ==
  ASSUME ChannelsRule
  PROVE  TypeInv /\ ShownInv /\ [Next]_vars => ShownInv'
  <1> SUFFICES ASSUME TypeInv, ShownInv, [Next]_vars PROVE ShownInv'
    OBVIOUS
  <1>a. /\ HasSetUp(dev) /\ HasFields(par) /\ PlaceInv /\ index \in Nat
        /\ par.numChannels \in 1 .. TotalChannels /\ {"dtc", "width"} \subseteq DOMAIN shown
    BY DEF TypeInv, PlaceInv, DriverInv
  <1>1. CASE SetUpClocks \/ ClocksDone \/ StartsConnect \/ Disconnect
    BY <1>1, <1>a, ConnectSettlesNothing, RunsIdle
  <1>2. CASE readDTCParams
    <2>1. UNCHANGED <<dev, par>> /\ pc = "dtc"
      BY <1>2 DEF readDTCParams
    <2>2. CASE index < par.numChannels
      <3>1. /\ pc' = "dtc" /\ index' = index + 1
            /\ \/ shown' = [shown EXCEPT !.dtc = @ \union {index}] /\ UNCHANGED status
               \/ status' = "error"
        BY <1>2, <2>2, <1>a DEF readDTCParams, Again
      <3>2. ~Simulated(dev) /\ status' = "ok" => Upto(index', shown'.dtc)
        BY <1>a, <2>1, <3>1, NextPass DEF ShownInv
      <3>3. QED
        BY <2>1, <3>1, <3>2 DEF ShownInv, Settled
    <2>3. CASE ~(index < par.numChannels)
      <3>1. index = par.numChannels /\ ((status = "ok" /\ Proceed("width")) \/ Return("error"))
        BY <1>2, <2>3 DEF readDTCParams
      <3>2. CASE Return("error")
        BY <1>a, <3>2, ReturnSettles, RunsIdle
      <3>3. CASE status = "ok" /\ Proceed("width")
        <4>1. ~Simulated(dev) => InUse \subseteq shown.dtc
          BY <1>a, <2>1, <3>1, <3>3, WholeLoop DEF ShownInv
        <4>2. Upto(0, shown.width)
          BY DEF Upto, Channels
        <4>3. pc' = "width" /\ index' = 0 /\ UNCHANGED shown
          BY <3>3 DEF Proceed, GoTo
        <4>4. QED
          BY <2>1, <4>1, <4>2, <4>3 DEF ShownInv, Settled, InUse
      <3>4. QED
        BY <3>1, <3>2, <3>3
    <2>4. QED
      BY <2>2, <2>3
  <1>3. CASE readTrigB
    <2>1. UNCHANGED <<dev, par>> /\ pc = "width"
      BY <1>3 DEF readTrigB
    <2>2. CASE index < par.numChannels
      <3>1. PICK a \in get_trigger_b(dev, handle, index) :
              /\ shown' = IF a.value = <<>> THEN [shown EXCEPT !.width = @ \ {index}]
                          ELSE [shown EXCEPT !.width = @ \union {index}]
              /\ status' = IF a.status = "ok" THEN status ELSE "error"
        BY <1>3, <2>2, <1>a DEF readTrigB
      <3>2. pc' = "width" /\ index' = index + 1
        BY <1>3, <2>1, <2>2, <1>a DEF readTrigB, Again
      <3>3. shown'.dtc = shown.dtc
        BY <1>a, <3>1
      <3>4. ASSUME ~Simulated(dev), status' = "ok" PROVE Upto(index', shown'.width)
        <4>1. status = "ok" /\ a.status = "ok"
          BY <3>1, <3>4
        <4>2. a.value # <<>>
          BY <3>4, <4>1, Reads
        <4>3. shown'.width = shown.width \union {index}
          BY <1>a, <3>1, <4>2
        <4>4. QED
          BY <1>a, <2>1, <3>2, <3>4, <4>1, <4>3, NextPass DEF ShownInv
      <3>5. QED
        BY <2>1, <3>2, <3>3, <3>4 DEF ShownInv, Settled, InUse
    <2>3. CASE ~(index < par.numChannels)
      <3>1. index = par.numChannels /\ Return(status)
        BY <1>3, <2>3 DEF readTrigB
      <3>2. Settled' => status = "ok"
        BY <1>a, <3>1, ReturnSettles
      <3>3. CASE status = "ok"
        <4>1. ~Simulated(dev) => InUse \subseteq shown.width /\ InUse \subseteq shown.dtc
          BY <1>a, <2>1, <3>1, <3>3, WholeLoop DEF ShownInv
        <4>2. pc' = "idle" /\ UNCHANGED shown
          BY <3>1, <3>3 DEF Return, GoTo
        <4>3. QED
          BY <2>1, <4>1, <4>2 DEF ShownInv, InUse
      <3>4. CASE status # "ok"
        BY <1>a, <3>1, <3>2, <3>4, ReturnSettles, RunsIdle
      <3>5. QED
        BY <3>3, <3>4
    <2>4. QED
      BY <2>2, <2>3
  <1>4. CASE FormatRuns \/ SetRunFlags \/ (LoadOrRead /\ ~readDTCParams /\ ~readTrigB)
    <2>1. \/ Return("error")
          \/ pc' \notin {"idle", "dtc", "width"}
          \/ pc' = "dtc" /\ index' = 0
      BY <1>4 DEF FormatRuns, SetRunFlags, LoadOrRead, RestoreFile, WriteWindow5, WriteWindow6,
                  WriteWindows, readSCAParams, WriteTriggerMode, Proceed, GoTo, Again
    <2>2. CASE Return("error")
      BY <1>a, <2>2, ReturnSettles, RunsIdle
    <2>3. CASE pc' \notin {"idle", "dtc", "width"}
      BY <2>3 DEF ShownInv, Settled
    <2>4. CASE pc' = "dtc" /\ index' = 0
      <3>1. Upto(0, shown'.dtc)
        BY DEF Upto, Channels
      <3>2. QED
        BY <2>4, <3>1 DEF ShownInv, Settled
    <2>5. QED
      BY <2>1, <2>2, <2>3, <2>4
  <1>5. CASE Setting
    <2>1. /\ pc = "idle" /\ UNCHANGED <<connected, complete>> /\ pc' \in {"idle", "restore"}
          /\ Simulated(dev') <=> Simulated(dev)
          /\ ~StartsRestore => pc' = "idle" /\ UNCHANGED shown
      BY <1>a, <1>5, RunsKept, SettingStays, SimulatedStays DEF Still
    <2>2. CASE SetNumChannels
      <3>1. ~connected
        BY <2>2 DEF SetNumChannels, ChannelsRule
      <3>2. QED
        BY <2>1, <3>1, RunsIdle DEF Settled
    <2>3. CASE StartsRestore
      BY <2>3, RunsIdle DEF StartsRestore, GoTo
    <2>4. CASE ~SetNumChannels /\ ~StartsRestore
      <3>1. par'.numChannels = par.numChannels
        BY <1>a, <1>5, <2>4, SettingStays
      <3>2. QED
        BY <2>1, <2>4, <3>1 DEF ShownInv, InUse, Settled
    <2>5. QED
      BY <2>2, <2>3, <2>4
  <1>6. CASE UNCHANGED vars
    BY <1>6 DEF vars, run, ShownInv, InUse, Settled
  <1>7. QED
    BY <1>1, <1>2, <1>3, <1>4, <1>5, <1>6, NextSteps

(***************************************************************************)
(* A detector that is connected, after a connect or a restore that got     *)
(* through, has clocks on every card and, for every channel in use, a run, *)
(* flags and dead-time figures that have been read, whatever calls failed  *)
(* before.  Assumed of clients: NumChannels is left alone while connected. *)
(***************************************************************************)
THEOREM ConnectionIsSetUp ==
  ASSUME ChannelsRule
  PROVE  Spec => []ConnectedIsSetUp
  <1>1. Init => TypeInv /\ ClocksInv /\ RunsInv /\ ShownInv
    <2> SUFFICES ASSUME Init PROVE ClocksInv /\ RunsInv /\ ShownInv
      BY TypeInit
    <2>1. ~connected /\ pc = "idle"
      BY DEF Init
    <2>2. dev.clocked = {}
      BY DEF Init, NewDevice
    <2>3. QED
      BY <2>1, <2>2 DEF ClocksInv, RunsInv, ShownInv, Settled, Late
  <1>2. TypeInv /\ ClocksInv /\ RunsInv /\ ShownInv => ConnectedIsSetUp
    BY DEF ClocksInv, RunsInv, ShownInv, ConnectedIsSetUp, Settled
  <1>3. QED
    BY <1>1, <1>2, TypeStep, ClocksStep, RunsStep, ShownStep, PTL DEF Spec

(***************************************************************************)
(* Success means connected.  A restore that found no connection keeps its  *)
(* error up to the flags, where it ends; past them there is a connection.  *)
(***************************************************************************)
LinkInv == ~connected =>
  \/ pc \in {"idle", "restore"}
  \/ pc \in {"format", "flags"} /\ status = "error"

EndsConnected == pc # "idle" /\ pc' = "idle" /\ complete' => connected'

LEMMA LinkStep ==
  ASSUME TypeInv, LinkInv, [Next]_vars
  PROVE  LinkInv' /\ EndsConnected
  <1>a. HasFields(par) /\ status \in {"ok", "error"}
    BY DEF TypeInv, DriverInv
  <1>1. ASSUME Return("error") PROVE LinkInv' /\ EndsConnected
    <2>1. pc' = "idle" /\ ~complete'
      BY <1>1 DEF Return, GoTo
    <2>2. QED
      BY <2>1 DEF LinkInv, EndsConnected
  <1>2. CASE LoadOrRead
    <2>1. CASE RestoreFile
      <3>1. pc' = "format" /\ UNCHANGED connected /\ (~connected => status' = "error")
        BY <2>1 DEF RestoreFile, GoTo
      <3>2. QED
        BY <3>1 DEF LinkInv, EndsConnected
    <2>2. CASE ~RestoreFile
      <3>1. pc \in Late
        BY <1>2, <2>2 DEF LoadOrRead, WriteWindow5, WriteWindow6, WriteWindows, readSCAParams,
                          WriteTriggerMode, readDTCParams, readTrigB, Late
      <3>2. connected
        BY <3>1 DEF LinkInv, Late
      <3>3. CASE Return(status)
        <4>1. pc' = "idle" /\ (complete' => connected')
          BY <3>2, <3>3 DEF Return, GoTo
        <4>2. QED
          BY <4>1 DEF LinkInv, EndsConnected
      <3>4. CASE Moves
        <4>1. connected' /\ pc' # "idle"
          BY <3>2, <3>4 DEF Moves, Late
        <4>2. QED
          BY <4>1 DEF LinkInv, EndsConnected
      <3>5. QED
        BY <1>a, <1>1, <1>2, <3>3, <3>4, LoadOrReadGoes
    <2>3. QED
      BY <2>1, <2>2
  <1>3. CASE SetUpClocks \/ ClocksDone
    <2>1. pc = "clocks" /\ connected
      BY <1>3 DEF SetUpClocks, ClocksDone, LinkInv
    <2>2. Return("error") \/ (UNCHANGED connected /\ pc' \in {"clocks", "restore"})
      BY <1>3, <2>1 DEF SetUpClocks, ClocksDone, Proceed, GoTo, Again
    <2>3. QED
      BY <1>1, <2>1, <2>2 DEF LinkInv, EndsConnected
  <1>4. CASE FormatRuns
    <2>1. UNCHANGED connected /\ pc = "format" /\ pc' \in {"format", "flags"}
      BY <1>4 DEF FormatRuns, GoTo, Again
    <2>2. status = "error" => status' = "error"
      BY <1>4 DEF FormatRuns, CallOn
    <2>3. QED
      BY <2>1, <2>2 DEF LinkInv, EndsConnected
  <1>5. CASE SetRunFlags
    <2>1. Return("error") \/ (status = "ok" /\ Proceed("sca5"))
      BY <1>5 DEF SetRunFlags
    <2>2. ASSUME status = "ok", Proceed("sca5") PROVE LinkInv' /\ EndsConnected
      <3>1. connected' /\ pc' = "sca5"
        BY <1>5, <2>2 DEF SetRunFlags, LinkInv, Proceed, GoTo
      <3>2. QED
        BY <3>1 DEF LinkInv, EndsConnected
    <2>3. QED
      BY <1>1, <2>1, <2>2
  <1>6. CASE StartsConnect
    <2>1. pc = "idle" /\ (connected' \/ UNCHANGED pc)
      BY <1>6 DEF StartsConnect
    <2>2. QED
      BY <2>1 DEF LinkInv, EndsConnected
  <1>7. CASE Disconnect \/ Setting
    <2>1. pc = "idle" /\ pc' \in {"idle", "restore"}
      BY <1>a, <1>7, SettingStays DEF Disconnect, run
    <2>2. QED
      BY <2>1 DEF LinkInv, EndsConnected
  <1>8. CASE UNCHANGED vars
    BY <1>8 DEF vars, run, LinkInv, EndsConnected
  <1>9. QED
    BY <1>2, <1>3, <1>4, <1>5, <1>6, <1>7, <1>8, NextSteps

(***************************************************************************)
(* No connect and no restore reports success without a connection, with    *)
(* any number of channels and whatever calls fail; nothing is assumed of   *)
(* the clients.                                                            *)
(***************************************************************************)
THEOREM SuccessIsConnected == Spec => SuccessNeedsConnection
  <1>1. Init => LinkInv
    BY DEF Init, LinkInv
  <1>2. TypeInv /\ LinkInv /\ [Next]_vars => LinkInv'
    BY LinkStep
  <1>3. TypeInv /\ LinkInv /\ [Next]_vars
          => [pc # "idle" /\ pc' = "idle" /\ complete' => connected']_vars
    BY LinkStep DEF EndsConnected
  <1>4. QED
    BY <1>1, <1>2, <1>3, TypeInit, TypeStep, PTL DEF Spec, SuccessNeedsConnection

(***************************************************************************)
(* After a connect or a restore that got through, what a client reads is   *)
(* what the device works with: the read-back makes it so, channel by       *)
(* channel, and the handlers that write a limit keep it so.                *)
(***************************************************************************)
Copied(c) == par.limits[c] = dev.window[c] /\ par.thres[c] = dev.thres[c]

CopyInv ==
  /\ pc = "readback" /\ status = "ok" => \A c \in Channels : c < index => Copied(c)
  /\ pc \in {"trigger", "dtc", "width"} \/ Settled => \A c \in InUse : Copied(c)

LEMMA CopyIdle ==
  ASSUME \/ pc' \notin {"idle", "readback", "trigger", "dtc", "width"}
         \/ pc' = "idle" /\ ~Settled'
         \/ pc' = "readback" /\ index' = 0
  PROVE  CopyInv'
  <1>1. \A c \in Channels : ~(c < 0)
    BY SizesAssumption DEF Channels
  <1>2. QED
    BY <1>1 DEF CopyInv, Settled

LEMMA CopyKept ==
  ASSUME CopyInv, SameRegisters(dev, dev'), par'.limits = par.limits, par'.thres = par.thres,
         par'.numChannels = par.numChannels,
         pc \in {"trigger", "dtc", "width"} \/ Settled,
         pc' # "readback"
  PROVE  CopyInv'
  BY DEF CopyInv, SameRegisters, Copied, InUse

(* One cell of two tables that agree on a row. *)
LEMMA CellOfBoth ==
  ASSUME NEW f, NEW g, f \in Windows, g \in Windows, NEW i \in Channels, NEW w \in {0, 1}, NEW y,
         NEW c \in Channels, f[c] = g[c]
  PROVE  WithCell(f, i, w, y)[c] = WithCell(g, i, w, y)[c]
  <1>1. \A h : h \in Windows => WithCell(h, i, w, y)[c] = IF c = i THEN [h[c] EXCEPT ![w] = y]
                                                          ELSE h[c]
    BY DEF WithCell, Windows
  <1>2. QED
    BY <1>1

LEMMA ReadBackCopies ==
  ASSUME TypeInv, OrderInv, readSCAParams, CopyInv
  PROVE  CopyInv'
  <1>a. /\ HasFields(par) /\ PlaceInv /\ index \in Nat /\ par.numChannels \in 1 .. TotalChannels
        /\ par.limits \in Windows /\ dev.window \in Windows /\ par.thres \in [Channels -> Int]
    BY DEF TypeInv, PlaceInv, DriverInv, ThresInv, OrderInv, ShapeInv, Windows, OrderedPairs, Pairs
  <1>b. pc = "readback" /\ UNCHANGED dev
    BY DEF readSCAParams
  <1>1. ASSUME index < par.numChannels, Again,
               NEW w5 \in get_window(dev, handle, index, 0),
               NEW w6 \in get_window(dev, handle, index, 1),
               NEW th \in get_good_thres(dev, handle, index),
               par' = ReadBack(index, w5, w6, th),
               status' = IF {w5.status, w6.status, th.status} # {"ok"} THEN "error"
                         ELSE IF index = 0 THEN "ok" ELSE status
        PROVE  CopyInv'
    <2>1. index \in Channels /\ pc' = "readback" /\ index' = index + 1
      BY <1>a, <1>b, <1>1, InUseChannels DEF Again
    <2> DEFINE row == [w \in {0, 1} |-> LET a == IF w = 0 THEN w5 ELSE w6
                                       IN  IF a.status = "ok" THEN a.value
                                           ELSE par.limits[index][w]]
               level == IF th.status = "ok" THEN th.value[1] ELSE par.thres[index]
    <2>2. /\ par'.limits = [par.limits EXCEPT ![index] = row]
          /\ par'.thres = [par.thres EXCEPT ![index] = level]
      BY <1>a, <1>1 DEF ReadBack, HasFields
    <2>3. ASSUME status' = "ok"
          PROVE  \A c \in Channels : c < index' => Copied(c)'
      <3>1. w5.status = "ok" /\ w6.status = "ok" /\ th.status = "ok"
            /\ (index = 0 \/ status = "ok")
        BY <1>1, <2>3
      <3>2. w5.value = dev.window[index][0] /\ w6.value = dev.window[index][1]
            /\ th.value[1] = dev.thres[index]
        BY <3>1, Reads
      <3>3. row = dev.window[index] /\ level = dev.thres[index]
        <4>1. dev.window[index] \in [{0, 1} -> Int \X Int]
          BY <1>a, <2>1 DEF Windows
        <4>2. dev.window[index] = [w \in {0, 1} |-> dev.window[index][w]]
          BY <4>1
        <4>3. \A w \in {0, 1} : row[w] = dev.window[index][w]
          BY <3>1, <3>2
        <4> HIDE DEF row
        <4>4. row = [w \in {0, 1} |-> row[w]]
          BY DEF row
        <4>5. QED
          BY <3>1, <3>2, <4>2, <4>3, <4>4
      <3> HIDE DEF row, level
      <3>a. \A c \in Channels :
              /\ par'.limits[c] = IF c = index THEN row ELSE par.limits[c]
              /\ par'.thres[c] = IF c = index THEN level ELSE par.thres[c]
        <4>1. DOMAIN par.limits = Channels /\ DOMAIN par.thres = Channels
          BY <1>a DEF Windows
        <4>2. QED
          BY <2>1, <2>2, <4>1
      <3>4. par'.limits[index] = dev'.window[index] /\ par'.thres[index] = dev'.thres[index]
        BY <1>b, <2>1, <3>3, <3>a
      <3>5. ASSUME NEW c \in Channels, c < index, c # index PROVE Copied(c)'
        <4>1. Copied(c)
          <5>1. index # 0
            BY <3>5, SizesAssumption DEF Channels
          <5>2. QED
            BY <1>b, <3>1, <3>5, <5>1 DEF CopyInv
        <4>2. QED
          BY <1>b, <2>1, <3>5, <3>a, <4>1 DEF Copied
      <3>6. \A c \in Channels : c < index + 1 => c = index \/ (c < index /\ c # index)
        BY <2>1 DEF Channels
      <3>7. QED
        BY <2>1, <3>4, <3>5, <3>6 DEF Copied
    <2>4. QED
      BY <2>1, <2>3 DEF CopyInv, Settled
  <1>2. CASE index = par.numChannels /\ UNCHANGED par
             /\ IF status = "ok" THEN Proceed("trigger") ELSE Return("error")
    <2>1. CASE status = "ok"
      <3>1. \A c \in InUse : Copied(c)
        <4>1. \A c \in InUse : c \in Channels /\ c < index
          BY <1>a, <1>2, SizesAssumption DEF InUse, Channels
        <4>2. QED
          BY <1>b, <2>1, <4>1 DEF CopyInv
      <3>2. pc' = "trigger"
        BY <1>2, <2>1 DEF Proceed, GoTo
      <3>3. QED
        BY <1>b, <1>2, <3>1, <3>2 DEF CopyInv, Copied, InUse
    <2>2. CASE status # "ok"
      BY <1>a, <1>2, <2>2, ReturnSettles, CopyIdle
    <2>3. QED
      BY <2>1, <2>2
  <1>3. QED
    BY <1>1, <1>2 DEF readSCAParams

LEMMA CopyStep ==
  ASSUME ChannelsRule
  PROVE  TypeInv /\ OrderInv /\ CopyInv /\ [Next]_vars => CopyInv'
  <1> SUFFICES ASSUME TypeInv, OrderInv, CopyInv, [Next]_vars PROVE CopyInv'
    OBVIOUS
  <1>a. /\ HasSetUp(dev) /\ HasFields(par) /\ PlaceInv /\ index \in Nat
        /\ par.numChannels \in 1 .. TotalChannels
        /\ par.limits \in Windows /\ dev.window \in Windows
        /\ par.thres \in [Channels -> Int] /\ dev.thres \in [Channels -> Int]
    BY DEF TypeInv, PlaceInv, DriverInv, ThresInv, OrderInv, ShapeInv, Windows, OrderedPairs, Pairs
  <1>b. Untouched(dev, dev)
    BY <1>a, UntouchedItself
  <1>c. InUse \subseteq Channels
    BY <1>a, InUseChannels
  <1>1. CASE SetUpClocks \/ ClocksDone \/ StartsConnect \/ Disconnect
    BY <1>1, <1>a, ConnectSettlesNothing, CopyIdle
  <1>2. CASE FormatRuns \/ SetRunFlags \/ RestoreFile \/ WriteWindow5 \/ WriteWindow6
    <2>1. \/ Return("error")
          \/ pc' \in {"format", "flags", "sca5", "sca6"}
          \/ pc' = "readback" /\ index' = 0
      BY <1>2 DEF FormatRuns, SetRunFlags, RestoreFile, WriteWindow5, WriteWindow6, WriteWindows,
                  Proceed, GoTo, Again
    <2>2. QED
      BY <1>a, <2>1, ReturnSettles, CopyIdle
  <1>3. CASE readSCAParams
    BY <1>3, ReadBackCopies
  <1>4. CASE WriteTriggerMode \/ readDTCParams \/ readTrigB
    <2>1. SameRegisters(dev, dev') /\ UNCHANGED par /\ pc \in {"trigger", "dtc", "width"}
      <3>1. CASE WriteTriggerMode
        <4>1. dev' = dev \/ \E c, v : \E a \in set_glob_timeA(dev, handle, c, v) : dev' = a.dev
          BY <3>1 DEF WriteTriggerMode, Call
        <4>2. SameRegisters(dev, dev')
          BY <1>a, <1>b, <4>1, CardCall DEF Untouched
        <4>3. QED
          BY <3>1, <4>2 DEF WriteTriggerMode
      <3>2. CASE readDTCParams \/ readTrigB
        BY <1>b, <3>2 DEF readDTCParams, readTrigB, Untouched
      <3>3. QED
        BY <1>4, <3>1, <3>2
    <2>2. pc' # "readback"
      BY <1>4 DEF WriteTriggerMode, readDTCParams, readTrigB, Proceed, Return, GoTo, Again
    <2>3. QED
      BY <2>1, <2>2, CopyKept
  <1>5. CASE SetLimit
    <2>0. par.limits \in [Channels -> [{0, 1} -> Pairs]]
      BY <1>a DEF Windows, Pairs
    <2>1. PICK c0 \in Channels, w \in {0, 1}, x \in Pairs : \E a \in setWindow(c0, w, x) :
            /\ a.status = "ok" /\ dev' = a.dev
            /\ par' = [par EXCEPT !.limits = WithCell(par.limits, c0, w, x)]
      BY <1>5, <2>0, SetLimitAsks
    <2>2. PICK a \in setWindow(c0, w, x) : a.status = "ok" /\ dev' = a.dev
      BY <2>1
    <2>3. dev'.window = WithCell(dev.window, c0, w, <<x[1], x[2]>>) /\ dev'.thres = dev.thres
      BY <1>a, <2>2, SetWindowCall DEF SetWindowDone, WindowSet
    <2>4. x = <<x[1], x[2]>>
      BY DEF Pairs
    <2>5. /\ par'.limits = WithCell(par.limits, c0, w, x) /\ par'.thres = par.thres
          /\ par'.numChannels = par.numChannels
      BY <1>a, <2>1 DEF HasFields
    <2>6. pc = "idle" /\ UNCHANGED <<connected, run>>
      BY <1>5, SetLimitDoes
    <2>7. ASSUME Settled, NEW c \in InUse
          PROVE  par'.limits[c] = dev'.window[c] /\ par'.thres[c] = dev'.thres[c]
      <3>1. c \in Channels /\ Copied(c)
        BY <1>c, <2>7 DEF CopyInv
      <3>2. QED
        BY <1>a, <2>3, <2>4, <2>5, <3>1, CellOfBoth DEF Copied
    <2>8. QED
      BY <2>5, <2>6, <2>7 DEF CopyInv, Copied, Settled, run, InUse
  <1>6. CASE SetThreshold
    <2>1. PICK c0, v : \E a \in set_good_thres(dev, handle, c0, v) :
            /\ a.status = "ok" /\ dev' = a.dev
            /\ par' = [par EXCEPT !.thres[c0] = v]
      BY <1>6 DEF SetThreshold
    <2>2. PICK a \in set_good_thres(dev, handle, c0, v) : a.status = "ok" /\ dev' = a.dev
      BY <2>1
    <2>3. ThresSet(dev, a, c0, v)
      BY <1>a, ThresCall
    <2>4. dev'.window = dev.window /\ dev'.thres = [dev.thres EXCEPT ![c0] = v]
      BY <2>2, <2>3 DEF ThresSet
    <2>5. /\ par'.limits = par.limits /\ par'.thres = [par.thres EXCEPT ![c0] = v]
          /\ par'.numChannels = par.numChannels
      BY <1>a, <2>1 DEF HasFields
    <2>6. pc = "idle" /\ UNCHANGED <<connected, run>>
      BY <1>6 DEF SetThreshold
    <2>7. ASSUME Settled, NEW c \in InUse
          PROVE  par'.limits[c] = dev'.window[c] /\ par'.thres[c] = dev'.thres[c]
      <3>1. c \in Channels /\ Copied(c)
        BY <1>c, <2>7 DEF CopyInv
      <3>2. QED
        BY <1>a, <2>4, <2>5, <3>1 DEF Copied
    <2>8. QED
      BY <2>5, <2>6, <2>7 DEF CopyInv, Copied, Settled, run, InUse
  <1>7. CASE SetNumChannels
    <2>1. ~connected /\ UNCHANGED <<connected, run>> /\ pc = "idle"
      BY <1>7 DEF SetNumChannels, ChannelsRule, Stores
    <2>2. QED
      BY <2>1, CopyIdle DEF Settled, run
  <1>8. CASE StartsRestore
    BY <1>8, CopyIdle DEF StartsRestore, GoTo
  <1>9. CASE \/ SetNumImages \/ SetNumFramesConfig \/ SetRunFlagsParam \/ SetSavePath
             \/ SaveSettings
    <2>1. UNCHANGED dev /\ pc = "idle" /\ UNCHANGED <<connected, run>>
      BY <1>9 DEF SetNumImages, SetNumFramesConfig, SetRunFlagsParam, SetSavePath, SaveSettings,
                  Stores
    <2>2. \E v : \/ par' = [par EXCEPT !.configFrames = v]
                 \/ par' = [par EXCEPT !.numImages = v]
                 \/ par' = [par EXCEPT !.runFlag = v]
                 \/ par' = [par EXCEPT !.savePath = v]
                 \/ par' = par
      BY <1>9 DEF SetNumImages, SetNumFramesConfig, SetRunFlagsParam, SetSavePath, SaveSettings,
                  Stores
    <2>3. /\ par'.limits = par.limits /\ par'.thres = par.thres
          /\ par'.numChannels = par.numChannels
      BY <1>a, <2>2 DEF HasFields
    <2>4. QED
      BY <2>1, <2>3 DEF CopyInv, Copied, Settled, run, InUse
  <1>10. CASE UNCHANGED vars
    BY <1>10 DEF vars, run, CopyInv, Copied, InUse, Settled
  <1>11. QED
    BY <1>1, <1>2, <1>3, <1>4, <1>5, <1>6, <1>7, <1>8, <1>9, <1>10, NextSteps
       DEF LoadOrRead, Setting

(***************************************************************************)
(* The limits and thresholds of the channels in use are those of the       *)
(* device after a connect or a restore that got through, and stay so,      *)
(* although a window that could not be written has not been reported.      *)
(***************************************************************************)
THEOREM LimitsAreTheDevices ==
  ASSUME RawWindow \in Pairs, ChannelsRule
  PROVE  Spec => []LimitsInDevice
  <1>1. Init => CopyInv
    BY DEF Init, CopyInv, Settled
  <1>2. CopyInv => LimitsInDevice
    BY DEF CopyInv, LimitsInDevice, Copied
  <1>3. QED
    BY <1>1, <1>2, OrderInit, OrderStep, TypeInit, TypeStep, CopyStep, PTL DEF Spec

(***************************************************************************)
(* The regions of a simulator.  Its windows may hold anything before the   *)
(* first restore writes them; what is then read back is what was written,  *)
(* so that limits within the spectrum stay there.                          *)
(***************************************************************************)
EchoBelow(n, w) == \A c \in Channels : c < n => dev.window[c][w] = par.limits[c][w]

EchoInv == Simulated(dev) =>
  /\ pc = "sca5" => EchoBelow(index, 0)
  /\ pc = "sca6" => EchoBelow(par.numChannels, 0) /\ EchoBelow(index, 1)
  /\ pc = "readback" => \A w \in {0, 1} : EchoBelow(par.numChannels, w)

InSpectrum(x) == 0 <= x[1] /\ x[2] <= Spectra

BinsInv == Simulated(dev) => \A c \in Channels, w \in {0, 1} : InSpectrum(par.limits[c][w])

LEMMA EchoIdle ==
  ASSUME pc' \notin {"sca5", "sca6", "readback"} \/ (pc' = "sca5" /\ index' = 0)
  PROVE  EchoInv'
  <1>1. \A c \in Channels : ~(c < 0)
    BY SizesAssumption DEF Channels
  <1>2. QED
    BY <1>1 DEF EchoInv, EchoBelow

LEMMA CellWritten ==
  ASSUME NEW f, f \in Windows, NEW i \in Channels, NEW w \in {0, 1}, NEW y
  PROVE  \A c \in Channels, v \in {0, 1} :
           WithCell(f, i, w, y)[c][v] = IF c = i /\ v = w THEN y ELSE f[c][v]
  <1> DEFINE row == [f[i] EXCEPT ![w] = y]
  <1>1. f[i] \in [{0, 1} -> Int \X Int] /\ DOMAIN f = Channels
    BY DEF Windows
  <1>2. \A v \in {0, 1} : row[v] = IF v = w THEN y ELSE f[i][v]
    BY <1>1
  <1>3. WithCell(f, i, w, y) = [f EXCEPT ![i] = row]
    BY DEF WithCell
  <1> HIDE DEF row
  <1>4. QED
    BY <1>1, <1>2, <1>3

(* A pass over the windows w of a simulator writes the one it has come to. *)
LEMMA EchoPass ==
  ASSUME TypeInv, OrderInv, Simulated(dev), NEW w \in {0, 1}, connected,
         index < par.numChannels,
         NEW a \in setWindow(index, w, par.limits[index][w]), dev' = a.dev, UNCHANGED par
  PROVE  /\ Simulated(dev')
         /\ \A c \in Channels, v \in {0, 1} :
              dev'.window[c][v] = IF c = index /\ v = w THEN par.limits[c][v] ELSE dev.window[c][v]
  <1>a. /\ HasSetUp(dev) /\ index \in Nat /\ par.numChannels \in 1 .. TotalChannels
        /\ par.limits \in [Channels -> [{0, 1} -> OrderedPairs]] /\ dev.window \in Windows
    BY DEF TypeInv, PlaceInv, DriverInv, OrderInv, ShapeInv
  <1>1. index \in Channels
    BY <1>a, InUseChannels
  <1> DEFINE x == par.limits[index][w]
  <1>2. x \in OrderedPairs
    BY <1>a, <1>1
  <1>3. x[1] <= x[2] /\ ~(x[1] > x[2]) /\ <<x[1], x[2]>> = x
    BY <1>2 DEF OrderedPairs, Pairs
  <1> HIDE DEF x
  <1>4. a.dev.kind = dev.kind /\ SetWindowDone(a, index, w, x)
    BY <1>a, SetWindowCall DEF x
  <1>5. a.dev.window = WithCell(dev.window, index, w, x)
    <2>1. WindowSet(dev, a, index, w, <<x[1], x[2]>>)
      BY <1>3, <1>4 DEF SetWindowDone
    <2>2. WindowSet(dev, a, index, w, x)
      BY <1>3, <2>1
    <2>3. QED
      BY <2>2 DEF WindowSet, Result
  <1>6. Simulated(dev')
    BY <1>4 DEF Simulated
  <1>7. \A c \in Channels, v \in {0, 1} :
          a.dev.window[c][v] = IF c = index /\ v = w THEN x ELSE dev.window[c][v]
    <2>1. \A c \in Channels, v \in {0, 1} :
            WithCell(dev.window, index, w, x)[c][v]
              = IF c = index /\ v = w THEN x ELSE dev.window[c][v]
      BY <1>a, <1>1, CellWritten
    <2>2. QED
      BY <1>5, <2>1, Zenon
  <1>8. QED
    BY <1>6, <1>7, Zenon DEF x

LEMMA EchoWrites ==
  ASSUME TypeInv, OrderInv, EchoInv, WriteWindow5 \/ WriteWindow6
  PROVE  EchoInv'
  <1>a. index \in Nat /\ par.numChannels \in 1 .. TotalChannels /\ HasSetUp(dev)
    BY DEF TypeInv, PlaceInv, DriverInv
  <1>b. UNCHANGED par /\ Still(dev, dev')
    BY <1>a, RunsKept DEF WriteWindow5, WriteWindow6, WriteWindows, LoadOrRead
  <1>c. (Simulated(dev') <=> Simulated(dev)) /\ \A c \in Channels : ~(c < 0)
    BY <1>b, SimulatedStays, SizesAssumption DEF Still, Channels
  <1>1. SUFFICES ASSUME Simulated(dev) PROVE EchoInv'
    BY <1>c DEF EchoInv
  <1>2. connected /\ status = "ok"
    BY <1>1 DEF WriteWindow5, WriteWindow6, WriteWindows, OrderInv, LoadedInv, WrittenInv
  <1>3. \A c \in Channels : c < index + 1 => c < index \/ c = index
    BY <1>a DEF Channels
  <1>4. CASE WriteWindow5
    <2>1. CASE index < par.numChannels
      <3>1. /\ pc = "sca5" /\ pc' = "sca5" /\ index' = index + 1
            /\ \E a \in setWindow(index, 0, par.limits[index][0]) : dev' = a.dev
        BY <1>4, <2>1, <1>2, <1>a DEF WriteWindow5, WriteWindows, Call, Again
      <3>2. \A c \in Channels, v \in {0, 1} :
              dev'.window[c][v] = IF c = index /\ v = 0 THEN par.limits[c][v]
                                  ELSE dev.window[c][v]
        BY <1>1, <1>2, <1>b, <2>1, <3>1, EchoPass
      <3>3. QED
        BY <1>1, <1>3, <1>b, <3>1, <3>2 DEF EchoInv, EchoBelow
    <2>2. CASE ~(index < par.numChannels)
      <3>1. pc = "sca5" /\ pc' = "sca6" /\ index' = 0 /\ index = par.numChannels /\ UNCHANGED dev
        BY <1>4, <2>2, <1>2, <1>a DEF WriteWindow5, WriteWindows, GoTo
      <3>2. QED
        BY <1>1, <1>b, <1>c, <3>1 DEF EchoInv, EchoBelow
    <2>3. QED
      BY <2>1, <2>2
  <1>5. CASE WriteWindow6
    <2>1. CASE index < par.numChannels
      <3>1. /\ pc = "sca6" /\ pc' = "sca6" /\ index' = index + 1
            /\ \E a \in setWindow(index, 1, par.limits[index][1]) : dev' = a.dev
        BY <1>5, <2>1, <1>2, <1>a DEF WriteWindow6, WriteWindows, Call, Again
      <3>2. \A c \in Channels, v \in {0, 1} :
              dev'.window[c][v] = IF c = index /\ v = 1 THEN par.limits[c][v]
                                  ELSE dev.window[c][v]
        BY <1>1, <1>2, <1>b, <2>1, <3>1, EchoPass
      <3>3. QED
        BY <1>1, <1>3, <1>b, <3>1, <3>2 DEF EchoInv, EchoBelow
    <2>2. CASE ~(index < par.numChannels)
      <3>1. pc = "sca6" /\ pc' = "readback" /\ index = par.numChannels /\ UNCHANGED dev
        BY <1>5, <2>2, <1>2, <1>a DEF WriteWindow6, WriteWindows, GoTo
      <3>2. QED
        BY <1>1, <1>b, <3>1 DEF EchoInv, EchoBelow
    <2>3. QED
      BY <2>1, <2>2
  <1>6. QED
    BY <1>4, <1>5

(* Reading back changes no limit of a simulator. *)
LEMMA EchoReads ==
  ASSUME TypeInv, OrderInv, EchoInv, Simulated(dev), readSCAParams
  PROVE  /\ UNCHANGED dev /\ par'.numChannels = par.numChannels
         /\ \A c \in Channels, w \in {0, 1} : par'.limits[c][w] = par.limits[c][w]
  <1>a. /\ HasFields(par) /\ index \in Nat /\ par.numChannels \in 1 .. TotalChannels
        /\ par.limits \in [Channels -> [{0, 1} -> OrderedPairs]]
    BY DEF TypeInv, PlaceInv, DriverInv, OrderInv, ShapeInv
  <1>b. pc = "readback" /\ UNCHANGED dev
    BY DEF readSCAParams
  <1>1. ASSUME index < par.numChannels,
               NEW w5 \in get_window(dev, handle, index, 0),
               NEW w6 \in get_window(dev, handle, index, 1),
               NEW th \in get_good_thres(dev, handle, index),
               par' = ReadBack(index, w5, w6, th)
        PROVE  /\ par'.numChannels = par.numChannels
               /\ \A c \in Channels, w \in {0, 1} : par'.limits[c][w] = par.limits[c][w]
    <2>1. index \in Channels
      BY <1>a, <1>1, InUseChannels
    <2>2. \A w \in {0, 1} : dev.window[index][w] = par.limits[index][w]
      BY <1>b, <1>1, <2>1 DEF EchoInv, EchoBelow
    <2> DEFINE row == [w \in {0, 1} |-> LET a == IF w = 0 THEN w5 ELSE w6
                                       IN  IF a.status = "ok" THEN a.value
                                           ELSE par.limits[index][w]]
    <2>3. \A w \in {0, 1} : row[w] = par.limits[index][w]
      <3>1. w5.status = "ok" => w5.value = dev.window[index][0]
        BY Reads
      <3>2. w6.status = "ok" => w6.value = dev.window[index][1]
        BY Reads
      <3>3. QED
        BY <2>2, <3>1, <3>2
    <2>4. par'.limits = [par.limits EXCEPT ![index] = row] /\ par'.numChannels = par.numChannels
      BY <1>a, <1>1 DEF ReadBack, HasFields
    <2> HIDE DEF row
    <2>5. QED
      BY <1>a, <2>1, <2>3, <2>4
  <1>2. CASE UNCHANGED par
    BY <1>b, <1>2
  <1>3. QED
    BY <1>1, <1>2, <1>b DEF readSCAParams

LEMMA KindStays ==
  TypeInv /\ [Next]_vars => dev'.kind = dev.kind
  <1> SUFFICES ASSUME TypeInv, [Next]_vars PROVE dev'.kind = dev.kind
    OBVIOUS
  <1>a. HasSetUp(dev)
    BY DEF TypeInv
  <1>1. CASE SetUpClocks
    BY <1>a, <1>1, ClocksCall DEF SetUpClocks, Call, ClocksSet, Still
  <1>2. CASE ClocksDone \/ UNCHANGED vars
    BY <1>2 DEF ClocksDone, vars
  <1>3. CASE StartsConnect
    BY <1>a, <1>3, ConfigCall DEF StartsConnect, Configured
  <1>4. CASE Disconnect
    BY <1>a, <1>4, CloseCall DEF Disconnect, Closed
  <1>5. CASE LoadOrRead \/ Setting \/ FormatRuns \/ SetRunFlags
    BY <1>5, RestoreAside DEF Aside, Still
  <1>6. QED
    BY <1>1, <1>2, <1>3, <1>4, <1>5, NextSteps

(* What a client may ask of a simulator: limits within its spectrum, which *)
(* an unsigned int can tell from what is past it.                          *)
LimitsAreBins == Limits \subseteq 0 .. Spectra /\ Spectra + 1 < UintRange

LEMMA EchoStep == TypeInv /\ OrderInv /\ EchoInv /\ [Next]_vars => EchoInv'
  <1> SUFFICES ASSUME TypeInv, OrderInv, EchoInv, [Next]_vars PROVE EchoInv'
    OBVIOUS
  <1>1. CASE WriteWindow5 \/ WriteWindow6
    BY <1>1, EchoWrites
  <1>2. CASE readSCAParams
    <2>1. Simulated(dev') <=> Simulated(dev)
      BY <1>2 DEF readSCAParams
    <2>2. pc = "readback" /\ pc' \notin {"sca5", "sca6"}
      BY <1>2 DEF readSCAParams, Proceed, Return, GoTo, Again
    <2>3. QED
      BY <1>2, <2>1, <2>2, EchoReads DEF EchoInv, EchoBelow
  <1>3. CASE UNCHANGED vars
    BY <1>3 DEF vars, run, EchoInv, EchoBelow
  <1>4. CASE Next /\ ~WriteWindow5 /\ ~WriteWindow6 /\ ~readSCAParams
    <2>1. PlaceInv /\ (Steps \/ Clients)
      BY <1>4 DEF TypeInv, Next
    <2>2. pc' \notin {"sca5", "sca6", "readback"} \/ (pc' = "sca5" /\ index' = 0)
      <3>1. CASE SetUpClocks \/ ClocksDone \/ StartsConnect \/ Disconnect
        BY <2>1, <3>1, ConnectSettlesNothing
      <3>2. CASE FormatRuns \/ SetRunFlags
        BY <3>2 DEF FormatRuns, SetRunFlags, Proceed, Return, GoTo, Again
      <3>3. CASE LoadOrRead
        BY <1>4, <3>3 DEF LoadOrRead, RestoreFile, WriteTriggerMode, readDTCParams, readTrigB,
                          Proceed, Return, GoTo, Again
      <3>4. CASE Setting
        BY <3>4, SettingStays DEF TypeInv, DriverInv
      <3>5. QED
        BY <1>4, <3>1, <3>2, <3>3, <3>4, NextSteps
    <2>3. QED
      BY <2>2, EchoIdle
  <1>5. QED
    BY <1>1, <1>2, <1>3, <1>4

(* Limits come from clients and from the read-back only. *)
LEMMA LimitsLeft ==
  ASSUME HasFields(par), [Next]_vars, ~SetLimit, ~readSCAParams
  PROVE  par'.limits = par.limits
  <1>1. CASE ClocksDone
    BY <1>1 DEF ClocksDone, Shrunk, HasFields
  <1>2. CASE SetThreshold
    BY <1>2 DEF SetThreshold, HasFields
  <1>3. CASE SetNumChannels
    BY <1>3 DEF SetNumChannels, Stores, HasFields
  <1>4. CASE \/ SetNumImages \/ SetNumFramesConfig \/ SetRunFlagsParam \/ SetSavePath
             \/ SaveSettings
    <2>1. \E v : \/ par' = [par EXCEPT !.configFrames = v]
                 \/ par' = [par EXCEPT !.numImages = v]
                 \/ par' = [par EXCEPT !.runFlag = v]
                 \/ par' = [par EXCEPT !.savePath = v]
                 \/ par' = par
      BY <1>4 DEF SetNumImages, SetNumFramesConfig, SetRunFlagsParam, SetSavePath, SaveSettings,
                  Stores
    <2>2. QED
      BY <2>1 DEF HasFields
  <1>5. CASE \/ SetUpClocks \/ FormatRuns \/ SetRunFlags \/ RestoreFile \/ WriteWindow5
             \/ WriteWindow6 \/ WriteTriggerMode \/ readDTCParams \/ readTrigB
             \/ StartsConnect \/ Disconnect \/ StartsRestore \/ UNCHANGED vars
    BY <1>5 DEF SetUpClocks, FormatRuns, SetRunFlags, RestoreFile, WriteWindow5, WriteWindow6,
                WriteWindows, WriteTriggerMode, readDTCParams, readTrigB, StartsConnect,
                Disconnect, StartsRestore, vars
  <1>6. QED
    BY <1>1, <1>2, <1>3, <1>4, <1>5, NextSteps DEF LoadOrRead, Setting

LEMMA BinsStep ==
  ASSUME LimitsAreBins
  PROVE  TypeInv /\ OrderInv /\ EchoInv /\ BinsInv /\ [Next]_vars => BinsInv'
  <1> SUFFICES ASSUME TypeInv, OrderInv, EchoInv, BinsInv, [Next]_vars PROVE BinsInv'
    OBVIOUS
  <1>a. /\ HasFields(par) /\ PlaceInv
        /\ par.limits \in [Channels -> [{0, 1} -> OrderedPairs]]
    BY DEF TypeInv, DriverInv, OrderInv, ShapeInv
  <1>b. Simulated(dev') <=> Simulated(dev)
    BY KindStays DEF Simulated
  <1>1. CASE SetLimit
    <2>1. par.limits \in [Channels -> [{0, 1} -> Pairs]]
      BY <1>a DEF OrderedPairs
    <2>2. PICK i \in Channels, v \in {0, 1}, x \in Pairs : \E a \in setWindow(i, v, x) :
            /\ \A side \in {1, 2} : x[side] \in {par.limits[i][v][side]} \union Limits
            /\ a.status = "ok" /\ dev' = a.dev
            /\ par' = [par EXCEPT !.limits = WithCell(par.limits, i, v, x)]
      BY <1>1, <2>1, SetLimitAsks
    <2>3. par'.limits = WithCell(par.limits, i, v, x)
      BY <1>a, <2>2 DEF HasFields
    <2>4. \A c \in Channels, w \in {0, 1} :
            par'.limits[c][w] = IF c = i /\ w = v THEN x ELSE par.limits[c][w]
      BY <2>1, <2>3, CellWritten DEF Windows, Pairs
    <2>5. ASSUME Simulated(dev) PROVE InSpectrum(x)
      <3>1. InSpectrum(par.limits[i][v])
        BY <2>5 DEF BinsInv
      <3>2. par.limits[i][v] \in Pairs
        BY <2>1
      <3>3. par.limits[i][v][1] \in Int /\ par.limits[i][v][2] \in Int
            /\ par.limits[i][v][1] <= par.limits[i][v][2]
        BY <1>a DEF OrderedPairs, Pairs
      <3>4. x[1] \in {par.limits[i][v][1]} \union Limits
            /\ x[2] \in {par.limits[i][v][2]} \union Limits
        BY <2>2
      <3>5. x[1] = par.limits[i][v][1] \/ x[1] \in 0 .. Spectra
        BY <3>4 DEF LimitsAreBins
      <3>6. x[2] = par.limits[i][v][2] \/ x[2] \in 0 .. Spectra
        BY <3>4 DEF LimitsAreBins
      <3>7. QED
        BY <3>1, <3>5, <3>6, SpectraAssumption DEF InSpectrum
    <2>6. QED
      BY <1>b, <2>4, <2>5 DEF BinsInv
  <1>2. CASE readSCAParams
    BY <1>b, <1>2, EchoReads DEF BinsInv
  <1>3. CASE ~SetLimit /\ ~readSCAParams
    <2>1. par'.limits = par.limits
      BY <1>3, <1>a, LimitsLeft
    <2>2. QED
      BY <1>b, <2>1 DEF BinsInv
  <1>4. QED
    BY <1>1, <1>2, <1>3

(* A region between two limits within the spectrum does not leave it. *)
LEMMA RegionFits ==
  ASSUME LimitsAreBins, NEW x \in Pairs, InSpectrum(x), x[1] <= x[2]
  PROVE  Sim!RoiStart(x) + Sim!RoiPoints(x) <= Spectra
  <1>1. /\ Spectra \in Nat /\ UintRange \in Nat /\ Spectra + 1 < UintRange
        /\ x[1] \in 0 .. Spectra /\ x[2] \in 0 .. Spectra /\ x[2] - x[1] + 1 \in 0 .. Spectra + 1
    BY SpectraAssumption DEF LimitsAreBins, InSpectrum, Pairs
  <1>2. \A n \in 0 .. Spectra + 1 : n % UintRange = n
    BY <1>1
  <1>3. Sim!RoiStart(x) = x[1] /\ (x[2] - x[1] + 1) % UintRange = x[2] - x[1] + 1
    BY <1>1, <1>2 DEF Sim!RoiStart
  <1>4. x[1] + (x[2] - x[1] + 1) = x[2] + 1 /\ x[2] + 1 \in 0 .. Spectra + 1
    BY <1>1
  <1>5. Sim!RoiPoints(x) = IF x[2] + 1 > Spectra THEN (Spectra - x[1]) % UintRange
                           ELSE x[2] - x[1] + 1
    BY <1>2, <1>3, <1>4 DEF Sim!RoiPoints, Sim!Clipped
  <1>6. (Spectra - x[1]) % UintRange = Spectra - x[1]
    BY <1>1, <1>2
  <1>7. QED
    BY <1>1, <1>3, <1>5, <1>6

(***************************************************************************)
(* A scaler of a simulator never sums past the end of its spectrum, from   *)
(* windows that held anything at all before they were first written.       *)
(***************************************************************************)
THEOREM RegionsFit ==
  ASSUME RawWindow \in Pairs, ChannelsRule, LimitsAreBins
  PROVE  Spec => []RoisInSpectrum
  <1>1. Init => EchoInv /\ BinsInv /\ CopyInv
    <2> SUFFICES ASSUME Init PROVE EchoInv /\ BinsInv /\ CopyInv
      OBVIOUS
    <2>1. pc = "idle" /\ ~connected
      BY DEF Init
    <2>2. \A c \in Channels, w \in {0, 1} : par.limits[c][w] = <<0, 0>>
      BY DEF Init
    <2>3. InSpectrum(<<0, 0>>)
      BY SpectraAssumption DEF InSpectrum
    <2>4. QED
      BY <2>1, <2>2, <2>3 DEF EchoInv, BinsInv, CopyInv, Settled
  <1>2. TypeInv /\ OrderInv /\ CopyInv /\ BinsInv => RoisInSpectrum
    <2> SUFFICES ASSUME TypeInv, OrderInv, CopyInv, BinsInv, Settled, Simulated(dev),
                        NEW c \in InUse, NEW w \in {0, 1}
                 PROVE  Sim!RoiStart(dev.window[c][w]) + Sim!RoiPoints(dev.window[c][w]) <= Spectra
      BY DEF RoisInSpectrum
    <2>1. c \in Channels
      BY InUseChannels DEF TypeInv, DriverInv
    <2>2. par.limits[c][w] \in OrderedPairs /\ InSpectrum(par.limits[c][w])
      BY <2>1 DEF OrderInv, ShapeInv, BinsInv
    <2>3. dev.window[c][w] = par.limits[c][w]
      BY DEF CopyInv, Copied
    <2>4. QED
      BY <2>2, <2>3, RegionFits DEF OrderedPairs
  <1>3. QED
    BY <1>1, <1>2, OrderInit, OrderStep, TypeInit, TypeStep, CopyStep, EchoStep, BinsStep, PTL
       DEF Spec
=============================================================================
