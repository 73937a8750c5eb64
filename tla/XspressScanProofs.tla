-------------------------- MODULE XspressScanProofs --------------------------
(***************************************************************************)
(* Proofs about an acquisition as a sequence of library calls: what        *)
(* checkHistBusy() concludes after a stop, that no frame is handed on      *)
(* before its time, and that these calls make up the acquisition session   *)
(* of AcqSession.                                                          *)
(***************************************************************************)
EXTENDS XspressScanSession, TLAPS, WellFoundedInduction

(***************************************************************************)
(* Induction up to a number of cards, for a set instead of a predicate.    *)
(***************************************************************************)
LEMMA LeastOf ==
  ASSUME NEW T, T \subseteq Nat, T # {}
  PROVE  \E x \in T : \A y \in T : x <= y
  <1> DEFINE Less == OpToRel(<, Nat)
  <1>1. \A x, y \in Nat : <<y, x>> \in Less <=> y < x
    BY DEF OpToRel
  <1>2. IsWellFoundedOn(Less, Nat)
    BY NatLessThanWellFounded
  <1> HIDE DEF Less
  <1>3. PICK x \in T : \A y \in T : ~(<<y, x>> \in Less)
    BY <1>2, WFMin
  <1>4. \A y \in T : ~(y < x)
    BY <1>1, <1>3, Zenon
  <1>5. QED
    BY <1>4

LEMMA SetInduction ==
  ASSUME NEW S, NEW n \in Nat, 0 \in S, \A k \in 1 .. n : k - 1 \in S => k \in S
  PROVE  \A k \in 0 .. n : k \in S
  <1> SUFFICES ASSUME \E k \in 0 .. n : k \notin S PROVE FALSE
    OBVIOUS
  <1> DEFINE T == {k \in 0 .. n : k \notin S}
  <1>1. T \subseteq Nat /\ T # {}
    OBVIOUS
  <1>2. PICK x \in T : \A y \in T : x <= y
    BY <1>1, LeastOf
  <1>3. x # 0 /\ x \in 1 .. n /\ x - 1 \in 0 .. n
    BY <1>2
  <1>4. x - 1 \notin T
    BY <1>2, <1>3
  <1>5. QED
    BY <1>2, <1>3, <1>4

(***************************************************************************)
(* setTriggerMode(), card by card: TimerCalls is a recursive function.     *)
(* That there is one that satisfies its equation takes an induction over   *)
(* the number of cards already written.                                    *)
(***************************************************************************)
CardStep(k, s, answers) ==
  UNION {IF a.status = "ok"
         THEN set_glob_timeA(a.dev, handle, k - 1, Word(k - 1, s)) ELSE {a} : a \in answers}

IsTimerCalls(f, n, s) ==
  f = [k \in 0 .. n |->
         IF k = 0 THEN {Answer("ok", <<>>, dev)} ELSE CardStep(k, s, f[k - 1])]

After(s) == CHOOSE f : IsTimerCalls(f, NumCards, s)

LEMMA TimerCallsAre == \A s : TimerCalls(s) = After(s)[NumCards]
  BY DEF TimerCalls, After, IsTimerCalls, CardStep

LEMMA AfterExists == \A s : IsTimerCalls(After(s), NumCards, s)
  <1> SUFFICES ASSUME NEW s PROVE \E f : IsTimerCalls(f, NumCards, s)
    BY DEF After
  <1> DEFINE S == {n \in 0 .. NumCards : \E f : IsTimerCalls(f, n, s)}
  <1>1. NumCards \in Nat
    BY ScanAssumption
  <1>2. 0 \in S
    <2> DEFINE f0 == [k \in 0 .. 0 |-> {Answer("ok", <<>>, dev)}]
    <2>1. IsTimerCalls(f0, 0, s)
      BY DEF IsTimerCalls
    <2>2. QED
      BY <2>1, <1>1
  <1>3. ASSUME NEW n \in 1 .. NumCards, n - 1 \in S PROVE n \in S
    <2>1. PICK f : IsTimerCalls(f, n - 1, s)
      BY <1>3
    <2> DEFINE g == [k \in 0 .. n |-> IF k < n THEN f[k] ELSE CardStep(k, s, f[k - 1])]
    <2>2. ASSUME NEW k \in 0 .. n
          PROVE  g[k] = IF k = 0 THEN {Answer("ok", <<>>, dev)} ELSE CardStep(k, s, g[k - 1])
      <3>1. CASE k = 0
        BY <2>1, <3>1 DEF IsTimerCalls
      <3>2. CASE k # 0
        <4>1. k - 1 \in 0 .. n /\ k - 1 < n /\ g[k - 1] = f[k - 1]
          BY <3>2
        <4>2. k < n => f[k] = CardStep(k, s, f[k - 1])
          <5>1. SUFFICES ASSUME k \in 0 .. n - 1
                         PROVE  f[k] = CardStep(k, s, f[k - 1])
            OBVIOUS
          <5>2. QED
            BY <2>1, <3>2, <5>1, Zenon DEF IsTimerCalls
        <4>3. g[k] = CardStep(k, s, f[k - 1])
          BY <4>2
        <4>4. QED
          BY <3>2, <4>1, <4>3
      <3>3. QED
        BY <3>1, <3>2
    <2>3. IsTimerCalls(g, n, s)
      <3> DEFINE h == [k \in 0 .. n |->
                         IF k = 0 THEN {Answer("ok", <<>>, dev)} ELSE CardStep(k, s, g[k - 1])]
      <3>1. \A k \in 0 .. n : g[k] = h[k]
        BY <2>2
      <3>2. g = h
        BY <3>1
      <3>3. QED
        BY <3>2 DEF IsTimerCalls
    <2>4. QED
      BY <2>3
  <1>4. \A n \in 0 .. NumCards : n \in S
    <2> HIDE DEF S
    <2>1. QED
      BY <1>1, <1>2, <1>3, SetInduction
  <1>5. QED
    BY <1>1, <1>4

LEMMA AfterSteps ==
  ASSUME NEW s
  PROVE  /\ After(s)[0] = {Answer("ok", <<>>, dev)}
         /\ \A k \in 1 .. NumCards : After(s)[k] = CardStep(k, s, After(s)[k - 1])
  <1> DEFINE f == After(s)
  <1>1. IsTimerCalls(f, NumCards, s)
    BY AfterExists
  <1>2. NumCards \in Nat
    BY ScanAssumption
  <1> HIDE DEF f
  <1>3. f[0] = {Answer("ok", <<>>, dev)}
    BY <1>1, <1>2 DEF IsTimerCalls
  <1>4. ASSUME NEW k \in 1 .. NumCards PROVE f[k] = CardStep(k, s, f[k - 1])
    <2>1. k \in 0 .. NumCards /\ k # 0
      BY <1>2
    <2>2. QED
      BY <1>1, <2>1, Zenon DEF IsTimerCalls
  <1>5. QED
    BY <1>3, <1>4 DEF f

(***************************************************************************)
(* The device, as far as these proofs look at it.  A detector is behind    *)
(* the open handle; a simulator never runs by itself.                      *)
(***************************************************************************)
Fields == {"kind", "path", "timer", "itfgFrames", "itfgTime", "itfgTrigger", "itfgPaused",
           "armed", "running", "halting", "counting", "progress", "elapsed"}

Device(d) ==
  /\ Fields \subseteq DOMAIN d
  /\ d.kind \in Kinds /\ DOMAIN d.timer = Cards
  /\ d.progress \in Int /\ d.elapsed \in Nat /\ d.itfgFrames \in Int /\ d.itfgTime \in Nat
  /\ Simulated(d) => ~d.running
  /\ ~Simulated(d) => d.path = handle /\ handle = LibraryPath

(* e is d but for what is done to the frames that are counted. *)
SameSetup(d, e) ==
  /\ DOMAIN e = DOMAIN d /\ e.kind = d.kind /\ e.path = d.path /\ e.timer = d.timer
  /\ e.itfgFrames = d.itfgFrames /\ e.itfgTime = d.itfgTime /\ e.itfgTrigger = d.itfgTrigger

SameCount(d, e) ==
  /\ e.counting = d.counting /\ e.progress = d.progress /\ e.elapsed = d.elapsed

SameRun(d, e) == SameSetup(d, e) /\ SameCount(d, e) /\ e.running = d.running

LEMMA SameRunIsDevice ==
  ASSUME NEW d, NEW e, Device(d), SameRun(d, e)
  PROVE  Device(e)
  BY DEF Device, SameRun, SameSetup, SameCount, Simulated

(***************************************************************************)
(* What the calls do to a device.  First those that touch neither the run  *)
(* nor the set-up.                                                         *)
(***************************************************************************)
LEMMA QuietCalls ==
  ASSUME NEW d, Device(d), NEW path, NEW n,
         NEW a \in histogram_clear(d, path) \union histogram_arm(d, path)
                   \union histogram_stop(d, path) \union has_itfg(d, path)
                   \union histogram_is_any_busy(d, path)
                   \union itfg_start(d, path) \union itfg_stop(d, path)
                   \union hist_dtc_read4d(d, path, n) \union histogram_read4d(d, path, n)
                   \union scaler_read(d, path, n)
  PROVE  SameRun(d, a.dev)
  <1> USE DEF Device, Fields, SameRun, SameSetup, SameCount, Det!Does, Det!Tells, Det!Reply,
              Det!Answer, Sim!Answer, Sim!AlwaysOk, Sim!Ignored
  <1>1. CASE a \in histogram_clear(d, path) \union histogram_arm(d, path)
    BY <1>1 DEF histogram_clear, Det!xsp3Api_histogram_clear, Sim!xsp3Api_histogram_clear,
                histogram_arm, Det!xsp3Api_histogram_arm, Sim!xsp3Api_histogram_arm
  <1>2. CASE a \in histogram_stop(d, path) \union has_itfg(d, path)
    BY <1>2 DEF histogram_stop, Det!xsp3Api_histogram_stop, Sim!xsp3Api_histogram_stop,
                has_itfg, Det!xsp3Api_has_itfg, Sim!xsp3Api_has_itfg
  <1>3. CASE a \in histogram_is_any_busy(d, path)
    BY <1>3 DEF histogram_is_any_busy, Det!xsp3Api_histogram_is_any_busy,
                Sim!xsp3Api_histogram_is_any_busy
  <1>4. CASE a \in itfg_start(d, path) \union itfg_stop(d, path)
    BY <1>4 DEF itfg_start, Det!xsp3Api_itfg_start, Sim!xsp3Api_itfg_start,
                itfg_stop, Det!xsp3Api_itfg_stop, Sim!xsp3Api_itfg_stop
  <1>5. CASE a \in hist_dtc_read4d(d, path, n) \union histogram_read4d(d, path, n)
    BY <1>5 DEF hist_dtc_read4d, Det!xsp3Api_hist_dtc_read4d, Sim!xsp3Api_hist_dtc_read4d,
                histogram_read4d, Det!xsp3Api_histogram_read4d, Sim!xsp3Api_histogram_read4d
  <1>6. CASE a \in scaler_read(d, path, n)
    BY <1>6 DEF scaler_read, Det!xsp3Api_scaler_read, Sim!xsp3Api_scaler_read
  <1>7. QED
    BY <1>1, <1>2, <1>3, <1>4, <1>5, <1>6

(* An idle histogram is reported as such only when it is idle. *)
LEMMA IdleAnswer ==
  ASSUME NEW d, Device(d), NEW path, NEW a \in histogram_is_any_busy(d, path),
         a.value = << 0 >>
  PROVE  ~d.running
  <1>1. CASE Simulated(d)
    BY <1>1 DEF Device
  <1>2. CASE ~Simulated(d)
    <2>1. a.value = <<>> \/ a.value = <<IF d.running THEN 1 ELSE 0>>
      BY <1>2 DEF histogram_is_any_busy, Det!xsp3Api_histogram_is_any_busy,
                  Det!Tells, Det!Reply, Det!Answer
    <2>2. <<IF d.running THEN 1 ELSE 0>> = << 0 >> /\ <<>> # << 0 >>
      BY <2>1
    <2>3. QED
      BY <2>2
  <1>3. QED
    BY <1>1, <1>2

(* The histogram starts: whatever was counted before is gone. *)
LEMMA StartCall ==
  ASSUME NEW d, Device(d), NEW a \in histogram_start(d, handle)
  PROVE  /\ Device(a.dev) /\ SameSetup(d, a.dev)
         /\ a.status = "ok" => /\ a.dev.progress = 0 /\ a.dev.elapsed = 0
                               /\ ~Simulated(d) => a.dev.counting = FALSE
  <1> DEFINE e == a.dev
  <1>1. CASE Simulated(d)
    <2>1. e = [d EXCEPT !.progress = 0, !.elapsed = 0]
      BY <1>1 DEF histogram_start, Sim!xsp3Api_histogram_start, Sim!AlwaysOk, Sim!Answer
    <2> HIDE DEF e
    <2>2. SameSetup(d, e) /\ e.running = d.running /\ e.progress = 0 /\ e.elapsed = 0
      BY <2>1 DEF SameSetup, Device, Fields
    <2>3. Device(e)
      BY <1>1, <2>2 DEF SameSetup, Device, Simulated
    <2>4. QED
      BY <1>1, <2>2, <2>3 DEF e
  <1>2. CASE ~Simulated(d)
    <2>1. \/ e = d /\ a.status = "error"
          \/ e = [d EXCEPT !.running = TRUE, !.halting = FALSE, !.counting = FALSE,
                           !.progress = 0, !.elapsed = 0]
      BY <1>2 DEF histogram_start, Det!xsp3Api_histogram_start, Det!Does, Det!Reply, Det!Answer
    <2> HIDE DEF e
    <2>2. /\ SameSetup(d, e)
          /\ \/ e = d /\ a.status = "error"
             \/ e.progress = 0 /\ e.elapsed = 0 /\ e.counting = FALSE
      BY <2>1 DEF SameSetup, Device, Fields
    <2>3. Device(e)
      BY <1>2, <2>2 DEF SameSetup, Device, Simulated
    <2>4. QED
      BY <1>2, <2>2, <2>3 DEF e
  <1>3. QED
    BY <1>1, <1>2

(* A call that programs the generator changes nothing but its program. *)
SameButProgram(d, e) ==
  /\ DOMAIN e = DOMAIN d /\ e.kind = d.kind /\ e.path = d.path /\ e.timer = d.timer
  /\ SameCount(d, e) /\ e.running = d.running

HasProgram(e, frames, time, trigger) ==
  e.itfgFrames = frames /\ e.itfgTime = time /\ e.itfgTrigger = trigger

LEMMA ProgramCall ==
  ASSUME NEW d, Device(d), NEW frames \in Int, NEW time \in Nat, NEW trigger,
         NEW a \in itfg_setup(d, handle, frames, time, trigger)
                   \union itfg_setup2(d, handle, frames, time, trigger)
  PROVE  /\ Device(a.dev) /\ SameButProgram(d, a.dev)
         /\ a.status = "ok" => HasProgram(a.dev, frames, time, trigger)
  <1> DEFINE e == a.dev
             written == [d EXCEPT !.itfgFrames = frames, !.itfgTime = time,
                                  !.itfgTrigger = trigger]
  <1>1. e = written \/ (e = d /\ a.status = "error")
    <2>1. CASE Simulated(d)
      BY <2>1 DEF itfg_setup, Sim!xsp3Api_itfg_setup, itfg_setup2, Sim!xsp3Api_itfg_setup2,
                  Sim!AlwaysOk, Sim!Answer
    <2>2. CASE ~Simulated(d)
      BY <2>2 DEF itfg_setup, Det!xsp3Api_itfg_setup, itfg_setup2, Det!xsp3Api_itfg_setup2,
                  Det!Does, Det!Reply, Det!Answer, Det!Programmed
    <2>3. QED
      BY <2>1, <2>2
  <1> HIDE DEF e
  <1>2. SameButProgram(d, e) /\ (HasProgram(e, frames, time, trigger) \/ a.status = "error")
    BY <1>1 DEF SameButProgram, SameCount, HasProgram, Device, Fields
  <1>3. Device(e)
    <2>1. CASE HasProgram(e, frames, time, trigger)
      BY <1>2, <2>1 DEF SameButProgram, SameCount, HasProgram, Device, Simulated
    <2>2. CASE e = d
      BY <2>2
    <2>3. QED
      BY <1>1, <1>2, <2>1, <2>2 DEF HasProgram, Device, Fields
  <1>4. QED
    BY <1>2, <1>3 DEF e

(* Without faults the calls that set the generator up succeed. *)
LEMMA GeneratorAnswers ==
  ASSUME NEW d, Device(d), "itfg_setup" \notin Faults, "has_itfg" \notin Faults
  PROVE  /\ \A frames, time, trigger : \A a \in itfg_setup(d, handle, frames, time, trigger) :
              a.status = "ok"
         /\ \A a \in has_itfg(d, handle) : a.status = "ok" /\ a.value[1] > 0
  <1>1. CASE Simulated(d)
    <2>1. \A frames, time, trigger : \A a \in itfg_setup(d, handle, frames, time, trigger) :
            a.status = "ok"
      BY <1>1 DEF itfg_setup, Sim!xsp3Api_itfg_setup, Sim!AlwaysOk, Sim!Answer
    <2>2. \A a \in has_itfg(d, handle) : a.status = "ok" /\ a.value[1] > 0
      BY <1>1 DEF has_itfg, Sim!xsp3Api_has_itfg, Sim!AlwaysOk, Sim!Answer
    <2>3. QED
      BY <2>1, <2>2
  <1>2. CASE ~Simulated(d)
    <2>1. handle # Det!NoPath /\ handle = d.path
      BY <1>2 DEF Device, LibraryPath, Det!NoPath
    <2>2. QED
      BY <1>2, <2>1 DEF itfg_setup, Det!xsp3Api_itfg_setup, has_itfg, Det!xsp3Api_has_itfg,
                        Det!Does, Det!Tells, Det!Reply, Det!Answer
  <1>3. QED
    BY <1>1, <1>2

(* Triggers by software: the calls that may end a frame. *)
LEMMA TriggerCalls ==
  ASSUME NEW d, Device(d),
         NEW a \in histogram_continue(d, handle) \union histogram_pause(d, handle)
  PROVE  /\ Device(a.dev) /\ SameSetup(d, a.dev) /\ a.dev.running = d.running
         /\ a.dev.elapsed = d.elapsed
         /\ Simulated(d) => SameCount(d, a.dev)
         /\ d.itfgTrigger # "software" /\ d.counting = FALSE
              => a.dev.counting = FALSE /\ a.dev.progress = d.progress
  <1> DEFINE e == a.dev
  <1>1. CASE Simulated(d)
    <2>1. e = d
      BY <1>1 DEF histogram_continue, Sim!xsp3Api_histogram_continue, histogram_pause,
                  Sim!xsp3Api_histogram_pause, Sim!Ignored, Sim!AlwaysOk, Sim!Answer
    <2>2. QED
      BY <2>1 DEF SameSetup, SameCount
  <1>2. CASE ~Simulated(d)
    <2>1. \/ e = d
          \/ e = [d EXCEPT !.counting = d.running /\ d.itfgTrigger = "software"]
          \/ e = [d EXCEPT !.counting = FALSE,
                           !.progress = IF d.counting /\ @ < d.itfgFrames THEN @ + 1 ELSE @]
      BY <1>2 DEF histogram_continue, Det!xsp3Api_histogram_continue, histogram_pause,
                  Det!xsp3Api_histogram_pause, Det!Does, Det!Reply, Det!Answer
    <2> HIDE DEF e
    <2>2. /\ SameSetup(d, e) /\ e.running = d.running /\ e.elapsed = d.elapsed
          /\ e.progress \in Int
          /\ d.itfgTrigger # "software" /\ d.counting = FALSE
               => e.counting = FALSE /\ e.progress = d.progress
      <3>1. CASE e = d
        BY <3>1 DEF SameSetup, Device
      <3>2. CASE e = [d EXCEPT !.counting = d.running /\ d.itfgTrigger = "software"]
        BY <3>2 DEF SameSetup, Device, Fields
      <3>3. CASE e = [d EXCEPT !.counting = FALSE,
                               !.progress = IF d.counting /\ @ < d.itfgFrames THEN @ + 1 ELSE @]
        <4>1. e.progress = IF d.counting /\ d.progress < d.itfgFrames
                           THEN d.progress + 1 ELSE d.progress
          BY <3>3 DEF Device, Fields
        <4>2. SameSetup(d, e) /\ e.running = d.running /\ e.elapsed = d.elapsed
              /\ e.counting = FALSE
          BY <3>3 DEF SameSetup, Device, Fields
        <4>3. QED
          BY <4>1, <4>2 DEF Device
      <3>4. QED
        BY <2>1, <3>1, <3>2, <3>3
    <2>3. Device(e)
      BY <1>2, <2>2 DEF SameSetup, Device, Simulated
    <2>4. QED
      BY <1>2, <2>2, <2>3 DEF e
  <1>3. QED
    BY <1>1, <1>2

(***************************************************************************)
(* The poll: the frames the caller is told of are those the device has     *)
(* counted; the simulator counts them at this moment.                      *)
(***************************************************************************)
LEMMA FinishedIsInt ==
  ASSUME NEW d, Device(d)
  PROVE  Sim!Finished(d) \in Int
  <1>1. CASE d.timer[0].source # Sim!SRC_INTERNAL
    BY <1>1 DEF Sim!Finished, Device
  <1>2. CASE d.timer[0].source = Sim!SRC_INTERNAL /\ d.itfgTime # 0
    BY <1>2 DEF Sim!Finished, Device
  <1>3. CASE d.timer[0].source = Sim!SRC_INTERNAL /\ d.itfgTime = 0
    BY <1>3 DEF Sim!Finished
  <1>4. QED
    BY <1>1, <1>2, <1>3

LEMMA PollCall ==
  ASSUME NEW d, Device(d), NEW a \in scaler_check_progress(d, handle)
  PROVE  /\ Device(a.dev) /\ SameSetup(d, a.dev) /\ a.dev.running = d.running
         /\ a.dev.elapsed = d.elapsed /\ a.dev.counting = d.counting
         /\ a.dev.progress = IF Simulated(d) THEN Sim!Finished(d) ELSE d.progress
         /\ a.status = "ok" => a.value[1] = a.dev.progress
  <1> DEFINE e == a.dev
  <1>1. CASE Simulated(d)
    <2>1. /\ e = [d EXCEPT !.progress = Sim!Finished(d)]
          /\ a.status = "ok" => a.value[1] = Sim!Finished(d)
      BY <1>1 DEF scaler_check_progress, Sim!xsp3Api_scaler_check_progress, Sim!AlwaysOk,
                  Sim!Answer
    <2> HIDE DEF e
    <2>2. /\ SameSetup(d, e) /\ e.running = d.running /\ e.progress = Sim!Finished(d)
          /\ e.elapsed = d.elapsed /\ e.counting = d.counting
      BY <2>1 DEF SameSetup, Device, Fields
    <2>3. Device(e)
      BY <1>1, <2>2, FinishedIsInt DEF SameSetup, Device, Simulated
    <2>4. QED
      BY <1>1, <2>1, <2>2, <2>3 DEF e
  <1>2. CASE ~Simulated(d)
    <2>1. e = d /\ (a.status = "ok" => a.value[1] = d.progress)
      BY <1>2 DEF scaler_check_progress, Det!xsp3Api_scaler_check_progress, Det!Tells,
                  Det!Reply, Det!Answer
    <2>2. QED
      BY <1>2, <2>1 DEF SameSetup
  <1>3. QED
    BY <1>1, <1>2

(***************************************************************************)
(* The timing register: one card is written, or, in the simulator, all.    *)
(***************************************************************************)
SameButTimer(d, e) ==
  /\ DOMAIN e = DOMAIN d /\ e.kind = d.kind /\ e.path = d.path /\ DOMAIN e.timer = DOMAIN d.timer
  /\ e.itfgFrames = d.itfgFrames /\ e.itfgTime = d.itfgTime /\ e.itfgTrigger = d.itfgTrigger
  /\ SameCount(d, e) /\ e.running = d.running

LEMMA SameButTimerIsDevice ==
  ASSUME NEW d, NEW e, Device(d), SameButTimer(d, e)
  PROVE  Device(e)
  BY DEF Device, SameButTimer, SameCount, Simulated

LEMMA TimerCall ==
  ASSUME NEW d, Device(d), NEW card \in Cards, NEW word,
         NEW a \in set_glob_timeA(d, handle, card, word)
  PROVE  /\ SameButTimer(d, a.dev)
         /\ \/ a.status = "error" /\ a.dev = d
            \/ a.status = "ok" /\ a.dev.timer[card] \in {word, Sim!TimeRegister(word)}
  <1> DEFINE e == a.dev
  <1>1. CASE Simulated(d)
    <2> DEFINE timers == [c \in DOMAIN d.timer |-> Sim!TimeRegister(word)]
    <2>1. a.status = "ok" /\ e = [d EXCEPT !.timer = timers]
      BY <1>1 DEF set_glob_timeA, Sim!xsp3Api_set_glob_timeA, Sim!AlwaysOk, Sim!Answer
    <2>2. DOMAIN timers = DOMAIN d.timer /\ timers[card] = Sim!TimeRegister(word)
      BY DEF Device
    <2> HIDE DEF e, timers
    <2>3. SameButTimer(d, e) /\ e.timer[card] = Sim!TimeRegister(word)
      BY <2>1, <2>2 DEF SameButTimer, SameCount, Device, Fields
    <2>4. QED
      BY <2>1, <2>3 DEF e
  <1>2. CASE ~Simulated(d)
    <2> DEFINE timers == [d.timer EXCEPT ![card] = word]
    <2>1. \/ a.status = "error" /\ e = d
          \/ a.status = "ok" /\ e = [d EXCEPT !.timer = timers]
      BY <1>2 DEF set_glob_timeA, Det!xsp3Api_set_glob_timeA, Det!Does, Det!Reply, Det!Answer
    <2>2. DOMAIN timers = DOMAIN d.timer /\ timers[card] = word
      BY DEF Device
    <2> HIDE DEF e, timers
    <2>3. CASE a.status = "ok" /\ e = [d EXCEPT !.timer = timers]
      <3>1. SameButTimer(d, e) /\ e.timer[card] = word
        BY <2>2, <2>3 DEF SameButTimer, SameCount, Device, Fields
      <3>2. QED
        BY <2>3, <3>1 DEF e
    <2>4. CASE a.status = "error" /\ e = d
      BY <2>4 DEF e, SameButTimer, SameCount
    <2>5. QED
      BY <2>1, <2>3, <2>4
  <1>3. QED
    BY <1>1, <1>2

(* However many cards there are, setTriggerMode() touches only registers. *)
LEMMA TimerCallsKeep ==
  ASSUME Device(dev), NEW s, NEW a \in TimerCalls(s)
  PROVE  SameButTimer(dev, a.dev)
  <1> DEFINE S == {k \in 0 .. NumCards : \A b \in After(s)[k] : SameButTimer(dev, b.dev)}
  <1>1. NumCards \in Nat
    BY ScanAssumption
  <1>2. 0 \in S
    <2>1. After(s)[0] = {Answer("ok", <<>>, dev)}
      BY AfterSteps
    <2>2. \A b \in After(s)[0] : b.dev = dev
      BY <2>1 DEF Answer
    <2>3. \A b \in After(s)[0] : SameButTimer(dev, b.dev)
      BY <2>2 DEF SameButTimer, SameCount
    <2>4. QED
      BY <2>3, <1>1
  <1>3. ASSUME NEW k \in 1 .. NumCards, k - 1 \in S PROVE k \in S
    <2> SUFFICES ASSUME NEW b \in After(s)[k] PROVE SameButTimer(dev, b.dev)
      OBVIOUS
    <2>1. After(s)[k] = CardStep(k, s, After(s)[k - 1])
      BY AfterSteps
    <2>2. PICK c \in After(s)[k - 1] :
            b \in IF c.status = "ok"
                  THEN set_glob_timeA(c.dev, handle, k - 1, Word(k - 1, s)) ELSE {c}
      BY <2>1, Zenon DEF CardStep
    <2>3. SameButTimer(dev, c.dev)
      BY <1>3
    <2>4. Device(c.dev)
      BY <2>3, SameButTimerIsDevice
    <2>5. k - 1 \in Cards
      BY <1>1 DEF Cards
    <2>6. c = b \/ SameButTimer(c.dev, b.dev)
      BY <2>2, <2>4, <2>5, TimerCall, Zenon
    <2>7. QED
      BY <2>3, <2>6 DEF SameButTimer, SameCount
  <1>4. \A k \in 0 .. NumCards : k \in S
    <2> HIDE DEF S
    <2>1. QED
      BY <1>1, <1>2, <1>3, SetInduction
  <1>5. a \in After(s)[NumCards]
    BY TimerCallsAre
  <1>6. QED
    BY <1>1, <1>4, <1>5

(* On a system of one card the mode that is stored is the mode of the card. *)
LEMMA OneCardTimer ==
  ASSUME Device(dev), NumCards = 1, NEW mode,
         NEW a \in TimerCalls([mode |-> mode, f0 |-> FALSE, veto |-> FALSE, debounce |-> 0])
  PROVE  \/ a.status = "error" /\ a.dev = dev
         \/ a.status = "ok" /\ a.dev.timer[0].source = Source(mode)
  <1> DEFINE s == [mode |-> mode, f0 |-> FALSE, veto |-> FALSE, debounce |-> 0]
  <1>1. a \in After(s)[1]
    BY TimerCallsAre
  <1>2. After(s)[0] = {Answer("ok", <<>>, dev)} /\ After(s)[1] = CardStep(1, s, After(s)[0])
    BY AfterSteps
  <1>3. a \in set_glob_timeA(dev, handle, 0, Word(0, s))
    <2> HIDE DEF s
    <2>1. PICK c \in After(s)[0] :
            a \in IF c.status = "ok"
                  THEN set_glob_timeA(c.dev, handle, 1 - 1, Word(1 - 1, s)) ELSE {c}
      BY <1>1, <1>2, Zenon DEF CardStep
    <2>2. c.status = "ok" /\ c.dev = dev
      BY <1>2 DEF Answer
    <2>3. 1 - 1 = 0
      OBVIOUS
    <2>4. QED
      BY <2>1, <2>2, <2>3
  <1>4. 0 \in Cards
    BY DEF Cards
  <1>5. \/ a.status = "error" /\ a.dev = dev
        \/ a.status = "ok" /\ a.dev.timer[0] \in {Word(0, s), Sim!TimeRegister(Word(0, s))}
    BY <1>3, <1>4, TimerCall
  <1>6. Word(0, s).source = Source(mode) /\ {"source", "debounce"} \subseteq DOMAIN Word(0, s)
    BY DEF Word
  <1>7. \A word : {"source", "debounce"} \subseteq DOMAIN word =>
                  Sim!TimeRegister(word).source = word.source
    BY DEF Sim!TimeRegister
  <1>8. Sim!TimeRegister(Word(0, s)).source = Source(mode)
    BY <1>6, <1>7
  <1>9. QED
    BY <1>5, <1>6, <1>8

(***************************************************************************)
(* Starting.  The generator is taken to answer: its set-up is the one call *)
(* before histogram_start whose error would be felt later.                 *)
(***************************************************************************)
GeneratorWorks == "itfg_setup" \notin Faults /\ "has_itfg" \notin Faults

SettingsInRange ==
  /\ {"mode", "images", "exposure"} \subseteq DOMAIN set
  /\ set.images \in Int /\ set.exposure \in 1 .. UintRange - 1

LEMMA TicksAreExposure ==
  ASSUME SettingsInRange
  PROVE  Ticks = set.exposure /\ Ticks \in Nat
  BY SpectraAssumption DEF SettingsInRange, Ticks

BurstSetUp(e) ==
  GeneratorWorks /\ set.mode = INTERNAL => HasProgram(e, set.images, set.exposure, "burst")

LEMMA SetupCalls ==
  ASSUME NEW d, Device(d), SettingsInRange, NEW e \in setupITFG(d)
  PROVE  Device(e) /\ e.kind = d.kind /\ e.timer = d.timer /\ BurstSetUp(e)
  <1>a. set.images \in Int /\ Ticks \in Nat /\ Ticks = set.exposure
    BY TicksAreExposure DEF SettingsInRange
  <1> HIDE DEF Ticks
  <1>1. CASE set.mode = SOFTWARE_INTERNAL
    <2>1. PICK a \in itfg_setup2(d, handle, set.images, Ticks, "software") :
            e \in Devices(histogram_arm(a.dev, LibraryPath))
      <3>1. e \in UNION {Devices(histogram_arm(f, LibraryPath)) :
                           f \in Devices(itfg_setup2(d, handle, set.images, Ticks, "software"))}
        <4>1. setupITFG(d) =
                UNION {Devices(histogram_arm(f, LibraryPath)) :
                         f \in Devices(itfg_setup2(d, handle, set.images, Ticks, "software"))}
          BY <1>1 DEF setupITFG, INTERNAL, SOFTWARE_INTERNAL
        <4>2. QED
          BY <4>1, Zenon
      <3>2. PICK f \in Devices(itfg_setup2(d, handle, set.images, Ticks, "software")) :
              e \in Devices(histogram_arm(f, LibraryPath))
        BY <3>1, Zenon
      <3>3. PICK b \in itfg_setup2(d, handle, set.images, Ticks, "software") : f = b.dev
        BY DEF Devices
      <3>4. QED
        BY <3>2, <3>3
    <2>2. Device(a.dev) /\ SameButProgram(d, a.dev)
      BY <2>1, <1>a, ProgramCall
    <2>3. PICK b \in histogram_arm(a.dev, LibraryPath) : e = b.dev
      BY <2>1 DEF Devices
    <2>4. SameRun(a.dev, e)
      BY <2>2, <2>3, QuietCalls
    <2>5. Device(e)
      BY <2>2, <2>4, SameRunIsDevice
    <2>6. ~(set.mode = INTERNAL)
      BY <1>1 DEF INTERNAL, SOFTWARE_INTERNAL
    <2>7. QED
      BY <2>2, <2>4, <2>5, <2>6 DEF SameRun, SameSetup, SameButProgram, BurstSetUp
  <1>2. CASE set.mode = INTERNAL
    <2>1. PICK a \in has_itfg(d, handle) :
            e \in IF a.status = "ok" /\ a.value[1] > 0
                  THEN Devices(itfg_setup(d, handle, set.images, Ticks, "burst")) ELSE {d}
      <3>1. set.mode # SOFTWARE_INTERNAL
        BY <1>2 DEF INTERNAL, SOFTWARE_INTERNAL
      <3>2. e \in UNION {IF a.status = "ok" /\ a.value[1] > 0
                         THEN Devices(itfg_setup(d, handle, set.images, Ticks, "burst"))
                         ELSE {d} : a \in has_itfg(d, handle)}
        BY <1>2, <3>1 DEF setupITFG
      <3>3. QED
        BY <3>2, Zenon
    <2>2. CASE e \in Devices(itfg_setup(d, handle, set.images, Ticks, "burst"))
      <3>1. PICK b \in itfg_setup(d, handle, set.images, Ticks, "burst") : e = b.dev
        BY <2>2 DEF Devices
      <3>2. /\ Device(e) /\ SameButProgram(d, e)
            /\ b.status = "ok" => HasProgram(e, set.images, Ticks, "burst")
        BY <3>1, <1>a, ProgramCall
      <3>3. GeneratorWorks => b.status = "ok"
        BY <3>1, GeneratorAnswers DEF GeneratorWorks
      <3>4. QED
        BY <3>2, <3>3, <1>a DEF BurstSetUp, SameButProgram
    <2>3. CASE ~(a.status = "ok" /\ a.value[1] > 0)
      <3>1. ~GeneratorWorks
        BY <2>1, <2>3, GeneratorAnswers DEF GeneratorWorks
      <3>2. e = d
        BY <2>1, <2>3
      <3>3. QED
        BY <3>1, <3>2 DEF BurstSetUp
    <2>4. QED
      BY <2>1, <2>2, <2>3
  <1>3. CASE set.mode # SOFTWARE_INTERNAL /\ set.mode # INTERNAL
    <2>1. e = d
      BY <1>3 DEF setupITFG
    <2>2. QED
      BY <1>3, <2>1 DEF BurstSetUp
  <1>4. QED
    BY <1>1, <1>2, <1>3

(* e is a device that has just been started, on the set-up d had. *)
StartedFrom(d, e) ==
  /\ e.progress = 0 /\ e.elapsed = 0 /\ (~Simulated(d) => e.counting = FALSE)
  /\ BurstSetUp(e)

LEMMA StartsCall ==
  ASSUME NEW d, Device(d), SettingsInRange, NEW a \in Starts(d)
  PROVE  /\ Device(a.dev) /\ a.dev.kind = d.kind /\ a.dev.timer = d.timer
         /\ a.status = "ok" => StartedFrom(d, a.dev)
  <1>1. PICK e \in setupITFG(d) : a \in histogram_start(e, handle)
    BY Zenon DEF Starts
  <1>2. Device(e) /\ e.kind = d.kind /\ e.timer = d.timer /\ BurstSetUp(e)
    BY <1>1, SetupCalls
  <1>3. /\ Device(a.dev) /\ SameSetup(e, a.dev)
        /\ a.status = "ok" => /\ a.dev.progress = 0 /\ a.dev.elapsed = 0
                              /\ ~Simulated(e) => a.dev.counting = FALSE
    BY <1>1, <1>2, StartCall
  <1>4. BurstSetUp(a.dev)
    BY <1>2, <1>3 DEF SameSetup, BurstSetUp, HasProgram
  <1>5. QED
    BY <1>2, <1>3, <1>4 DEF SameSetup, StartedFrom, Simulated

LEMMA StartCallsDo ==
  ASSUME Device(dev), SettingsInRange, NEW a \in StartCalls
  PROVE  /\ Device(a.dev) /\ a.dev.kind = dev.kind /\ a.dev.timer = dev.timer
         /\ a.status = "ok" => StartedFrom(dev, a.dev)
  <1> DEFINE ready == UNION {Erased(d) : d \in Stopped(dev)}
             first == UNION {Starts(e) : e \in ready}
  <1>1. ASSUME NEW e \in ready
        PROVE  Device(e) /\ e.kind = dev.kind /\ e.timer = dev.timer
    <2>1. PICK b \in histogram_stop(dev, handle) : e \in Erased(b.dev)
      BY Zenon DEF Stopped, Devices
    <2>2. Device(b.dev) /\ SameRun(dev, b.dev)
      BY <2>1, QuietCalls, SameRunIsDevice
    <2>3. e = b.dev \/ \E c \in histogram_clear(b.dev, handle) : e = c.dev
      BY <2>1 DEF Erased, Devices
    <2>4. e = b.dev \/ SameRun(b.dev, e)
      BY <2>2, <2>3, QuietCalls
    <2>5. Device(e)
      BY <2>2, <2>4, SameRunIsDevice
    <2>6. QED
      BY <2>2, <2>4, <2>5 DEF SameRun, SameSetup
  <1>2. ASSUME NEW b \in first
        PROVE  /\ Device(b.dev) /\ b.dev.kind = dev.kind /\ b.dev.timer = dev.timer
               /\ b.status = "ok" => StartedFrom(dev, b.dev)
    <2>1. PICK e \in ready : b \in Starts(e)
      BY Zenon
    <2>2. Device(e) /\ e.kind = dev.kind /\ e.timer = dev.timer
      BY <1>1, <2>1
    <2>3. /\ Device(b.dev) /\ b.dev.kind = e.kind /\ b.dev.timer = e.timer
          /\ b.status = "ok" => StartedFrom(e, b.dev)
      BY <2>1, <2>2, StartsCall
    <2>4. QED
      BY <2>2, <2>3 DEF StartedFrom, Simulated
  <1>3. StartCalls = UNION {IF b.status = "ok" THEN Starts(b.dev) ELSE {b} : b \in first}
    BY DEF StartCalls
  <1> HIDE DEF first
  <1>4. PICK b \in first : a \in IF b.status = "ok" THEN Starts(b.dev) ELSE {b}
    BY <1>3, Zenon
  <1>5. Device(b.dev) /\ b.dev.kind = dev.kind /\ b.dev.timer = dev.timer
    BY <1>2, <1>4
  <1>6. CASE b.status = "ok"
    <2>1. a \in Starts(b.dev)
      BY <1>4, <1>6
    <2>2. /\ Device(a.dev) /\ a.dev.kind = b.dev.kind /\ a.dev.timer = b.dev.timer
          /\ a.status = "ok" => StartedFrom(b.dev, a.dev)
      BY <2>1, <1>5, StartsCall
    <2>3. QED
      BY <2>2, <1>5 DEF StartedFrom, Simulated
  <1>7. CASE b.status # "ok"
    <2>1. a = b
      BY <1>4, <1>7
    <2>2. QED
      BY <2>1, <1>5, <1>7
  <1>8. QED
    BY <1>6, <1>7

(***************************************************************************)
(* What a step does to the device: nobody changes its class, and only a    *)
(* start sets it off.                                                      *)
(***************************************************************************)
LEMMA ReadCallsKeep ==
  ASSUME Device(dev), NEW a \in ReadCalls
  PROVE  SameRun(dev, a.dev)
  <1>1. CASE a \in hist_dtc_read4d(dev, handle, frame)
    BY <1>1, QuietCalls
  <1>2. CASE a \notin hist_dtc_read4d(dev, handle, frame)
    <2>1. PICK b \in histogram_read4d(dev, handle, frame) :
            a \in IF b.status = "ok" THEN scaler_read(b.dev, handle, frame) ELSE {b}
      BY <1>2, Zenon DEF ReadCalls
    <2>2. SameRun(dev, b.dev)
      BY <2>1, QuietCalls
    <2>3. Device(b.dev)
      BY <2>2, SameRunIsDevice
    <2>4. a = b \/ a \in scaler_read(b.dev, handle, frame)
      BY <2>1
    <2>5. a = b \/ SameRun(b.dev, a.dev)
      BY <2>3, <2>4, QuietCalls
    <2>6. QED
      BY <2>2, <2>5 DEF SameRun, SameSetup, SameCount
  <1>3. QED
    BY <1>1, <1>2

Quiet ==
  \/ SetParameters \/ Top \/ Begin \/ CheckStop \/ AskBusy \/ Look \/ Aborted \/ Completed
  \/ UNCHANGED vars

LEMMA QuietSteps == Quiet => UNCHANGED <<dev, handle>>
  BY DEF Quiet, SetParameters, Top, Begin, CheckStop, AskBusy, Look, Aborted, Completed, vars

LEMMA SmallSteps ==
  ASSUME Device(dev), AcquireOff \/ ITFGStart \/ ITFGStop \/ ReadFrame
  PROVE  SameRun(dev, dev') /\ handle' = handle
  <1>1. CASE AcquireOff
    <2>1. PICK a \in histogram_stop(dev, handle) : dev' = a.dev
      BY <1>1 DEF AcquireOff
    <2>2. QED
      BY <1>1, <2>1, QuietCalls DEF AcquireOff
  <1>2. CASE ITFGStart \/ ITFGStop
    <2>1. PICK a \in itfg_start(dev, handle) \union itfg_stop(dev, handle) : dev' = a.dev
      BY <1>2 DEF ITFGStart, ITFGStop, Trigger, Devices
    <2>2. QED
      BY <1>2, <2>1, QuietCalls DEF ITFGStart, ITFGStop, Trigger
  <1>3. CASE ReadFrame
    <2>1. PICK a \in ReadCalls : dev' = a.dev
      BY <1>3 DEF ReadFrame, Devices
    <2>2. QED
      BY <1>3, <2>1, ReadCallsKeep DEF ReadFrame
  <1>4. QED
    BY <1>1, <1>2, <1>3

LEMMA TriggerSteps ==
  ASSUME Device(dev), SoftTriggerOn \/ SoftTriggerOff \/ TriggerFrame
  PROVE  /\ Device(dev') /\ SameSetup(dev, dev') /\ dev'.running = dev.running
         /\ dev'.elapsed = dev.elapsed
         /\ Simulated(dev) => SameCount(dev, dev')
         /\ dev.itfgTrigger # "software" /\ dev.counting = FALSE
              => dev'.counting = FALSE /\ dev'.progress = dev.progress
         /\ UNCHANGED <<handle, set, adStatus, startEvent, stopEvent, task, since>>
  <1>1. PICK a \in histogram_continue(dev, handle) \union histogram_pause(dev, handle) :
          dev' = a.dev
    BY DEF SoftTriggerOn, SoftTriggerOff, TriggerFrame, Trigger, Devices
  <1>2. UNCHANGED <<handle, set, adStatus, startEvent, stopEvent, task, since>>
    BY DEF SoftTriggerOn, SoftTriggerOff, TriggerFrame, Trigger
  <1>3. QED
    BY <1>1, <1>2, TriggerCalls

LEMMA PollStep ==
  ASSUME Device(dev), Poll
  PROVE  /\ Device(dev') /\ SameSetup(dev, dev') /\ dev'.running = dev.running
         /\ dev'.elapsed = dev.elapsed /\ dev'.counting = dev.counting
         /\ dev'.progress = IF Simulated(dev) THEN Sim!Finished(dev) ELSE dev.progress
         /\ pc = "poll" /\ frame < set.images /\ pc' \in {"read", "checkStop"}
         /\ pc' = "read" => frame < dev'.progress
         /\ UNCHANGED <<handle, set, adStatus, startEvent, stopEvent, frame, check, since>>
  <1>1. PICK a \in scaler_check_progress(dev, handle) :
          /\ dev' = a.dev
          /\ pc' = IF a.status = "ok" /\ frame < a.value[1] THEN "read" ELSE "checkStop"
    BY DEF Poll
  <1>2. /\ pc = "poll" /\ frame < set.images
        /\ UNCHANGED <<handle, set, adStatus, startEvent, stopEvent, frame, check, since>>
    BY DEF Poll
  <1>3. QED
    BY <1>1, <1>2, PollCall

LEMMA WorldSteps ==
  ASSUME Device(dev), World
  PROVE  /\ Device(dev') /\ SameSetup(dev, dev') /\ (~dev.running => ~dev'.running)
         /\ UNCHANGED <<handle, set, adStatus, startEvent, stopEvent, task>>
  <1> DEFINE e == dev'
  <1>1. CASE Tick
    <2>1. e = [dev EXCEPT !.elapsed = @ + 1] /\ handle' = handle
      BY <1>1 DEF Tick
    <2> HIDE DEF e
    <2>2. SameSetup(dev, e) /\ e.running = dev.running /\ e.progress = dev.progress
          /\ e.elapsed = dev.elapsed + 1
      BY <2>1 DEF SameSetup, Device, Fields
    <2>3. Device(e)
      BY <2>2 DEF SameSetup, Device, Simulated
    <2>4. QED
      BY <1>1, <2>1, <2>2, <2>3 DEF e, Tick
  <1>2. CASE BurstFrame
    <2>1. dev.running
          /\ e = [dev EXCEPT !.progress = @ + 1, !.running = dev.progress + 1 < dev.itfgFrames]
      BY <1>2 DEF BurstFrame, Changes
    <2> HIDE DEF e
    <2>2. SameSetup(dev, e) /\ e.progress = dev.progress + 1 /\ e.elapsed = dev.elapsed
      BY <2>1 DEF SameSetup, Device, Fields
    <2>3. Device(e)
      BY <2>1, <2>2 DEF SameSetup, Device, Simulated
    <2>4. QED
      BY <1>2, <2>1, <2>2, <2>3 DEF e, BurstFrame, Changes
  <1>3. CASE TriggeredFrame
    <2>1. dev.running /\ e = [dev EXCEPT !.progress = @ + 1]
      BY <1>3 DEF TriggeredFrame, Changes
    <2> HIDE DEF e
    <2>2. SameSetup(dev, e) /\ e.progress = dev.progress + 1 /\ e.elapsed = dev.elapsed
      BY <2>1 DEF SameSetup, Device, Fields
    <2>3. Device(e)
      BY <2>1, <2>2 DEF SameSetup, Device, Simulated
    <2>4. QED
      BY <1>3, <2>1, <2>2, <2>3 DEF e, TriggeredFrame, Changes
  <1>4. CASE Rest
    <2>1. dev.running
          /\ e = [dev EXCEPT !.running = FALSE, !.halting = FALSE, !.counting = FALSE]
      BY <1>4 DEF Rest, Changes
    <2> HIDE DEF e
    <2>2. SameSetup(dev, e) /\ e.progress = dev.progress /\ e.elapsed = dev.elapsed
      BY <2>1 DEF SameSetup, Device, Fields
    <2>3. Device(e)
      BY <2>1, <2>2 DEF SameSetup, Device, Simulated
    <2>4. QED
      BY <1>4, <2>1, <2>2, <2>3 DEF e, Rest, Changes
  <1>5. QED
    BY <1>1, <1>2, <1>3, <1>4 DEF World

LEMMA DeviceStep ==
  ASSUME Device(dev), SettingsInRange, [Next]_vars
  PROVE  /\ Device(dev)' /\ dev'.kind = dev.kind /\ handle' = handle
         /\ ~AcquireOn /\ ~dev.running => ~dev'.running
  <1>a. ASSUME Device(dev'), handle' = handle PROVE Device(dev)'
    BY <1>a DEF Device, Simulated
  <1>1. CASE Quiet
    BY <1>1, <1>a, QuietSteps
  <1>2. CASE AcquireOff \/ ITFGStart \/ ITFGStop \/ ReadFrame
    BY <1>2, <1>a, SmallSteps, SameRunIsDevice DEF SameRun, SameSetup
  <1>3. CASE SoftTriggerOn \/ SoftTriggerOff \/ TriggerFrame
    BY <1>3, <1>a, TriggerSteps DEF SameSetup
  <1>4. CASE Poll
    BY <1>4, <1>a, PollStep DEF SameSetup
  <1>5. CASE World
    BY <1>5, <1>a, WorldSteps DEF SameSetup
  <1>6. CASE SetTriggerMode
    <2>1. PICK mode \in Modes :
            \E a \in TimerCalls([mode |-> mode, f0 |-> FALSE, veto |-> FALSE, debounce |-> 0]) :
              dev' = a.dev
      BY <1>6 DEF SetTriggerMode
    <2>2. SameButTimer(dev, dev')
      BY <2>1, TimerCallsKeep
    <2>3. Device(dev') /\ handle' = handle
      BY <1>6, <2>2, SameButTimerIsDevice DEF SetTriggerMode
    <2>4. QED
      BY <1>a, <2>2, <2>3 DEF SameButTimer
  <1>7. CASE AcquireOn
    <2>1. PICK a \in StartCalls : dev' = a.dev
      BY <1>7 DEF AcquireOn
    <2>2. handle' = handle
      BY <1>7 DEF AcquireOn
    <2>3. QED
      BY <1>7, <1>a, <2>1, <2>2, StartCallsDo
  <1>8. QED
    BY <1>1, <1>2, <1>3, <1>4, <1>5, <1>6, <1>7 DEF Next, Client, DataTask, Quiet

(***************************************************************************)
(* The first invariant: the settings and the loop, and what checkHistBusy()*)
(* has found so far.  As long as it has found anything idle, the histogram *)
(* is at rest, for only a start sets it off and none is made in a session. *)
(***************************************************************************)
SettingsKnown ==
  /\ SettingsInRange
  /\ set.images \in Images[dev.kind] \union {0} /\ set.mode \in Modes \union {0}

LoopInv ==
  /\ pc \in Session \union {"top", "wait"}
  /\ adStatus \in {"Idle", "Acquire", "Error", "Aborted"}
  /\ frame \in Nat /\ since \in Nat
  /\ pc # "top" => frame = 0 \/ frame <= set.images
  /\ pc = "wait" => frame = 0
  /\ pc = "read" => frame < set.images

CountsInRange ==
  /\ chan \in 0 .. NumChannels /\ idleChans \in 0 .. chan
  /\ idle \in 0 .. 2 /\ looks \in 0 .. CheckTimes
  /\ verdict \in {"none", "ok", "error"}

LooksInv ==
  /\ CountsInRange
  /\ pc # "busy" => chan = 0
  /\ pc = "busy" => idle < 2 /\ looks < CheckTimes /\ verdict = "none"
  /\ pc \notin {"busy", "stopped"} => idle = 0 /\ looks = 0 /\ verdict = "none"

FoundIdle == pc = "busy" /\ (idle > 0 \/ idleChans > 0) => ~dev.running

ScanInv ==
  Device(dev) /\ SettingsKnown /\ LoopInv /\ LooksInv /\ FoundIdle /\ StoppedMeansIdle

(* e is the device a connect() of a class opened, behind this handle. *)
Opened(e, kind, path) ==
  /\ Fields \subseteq DOMAIN e
  /\ e.kind = kind /\ e.timer = [c \in Cards |-> Blank]
  /\ e.progress = 0 /\ e.elapsed = 0
  /\ e.itfgFrames = 0 /\ e.itfgTime = 0 /\ e.running = FALSE
  /\ kind # "simulator" => e.path = LibraryPath /\ path = LibraryPath

LEMMA ConfigOpens ==
  ASSUME NEW kind \in Kinds, NEW windows,
         NEW a \in config(NewDevice(kind, 3, Cards, windows), Memory, NumChannels),
         a.value[1] >= 0
  PROVE  Opened(a.dev, kind, a.value[1])
  <1> USE DEF Opened
  <1> DEFINE d == NewDevice(kind, 3, Cards, windows)
             e == a.dev
  <1>1. /\ Fields \subseteq DOMAIN d
        /\ {"frames", "channels", "clocked", "formatted", "runFlags"} \subseteq DOMAIN d
        /\ d.kind = kind /\ d.timer = [c \in Cards |-> Blank]
        /\ d.progress = 0 /\ d.elapsed = 0
        /\ d.itfgFrames = 0 /\ d.itfgTime = 0 /\ d.running = FALSE
    BY DEF NewDevice, Fields
  <1> HIDE DEF d
  <1>2. CASE kind = "simulator"
    <2>1. e = d
      BY <1>1, <1>2 DEF d, config, Simulated, Sim!xsp3Api_config, Sim!AlwaysOk, Sim!Answer
    <2>2. QED
      BY <1>1, <1>2, <2>1
  <1>3. CASE kind # "simulator"
    <2>1. a \in Det!xsp3Api_config(d, Memory, NumChannels)
      BY <1>1, <1>3 DEF d, config, Simulated
    <2>2. \/ /\ a.value = <<Det!LibraryPath>>
             /\ e = [d EXCEPT !.path = Det!LibraryPath, !.frames = Memory,
                              !.channels = NumChannels, !.clocked = {}, !.formatted = {},
                              !.runFlags = "none"]
          \/ a.value = <<Det!NoPath>>
      BY <2>1 DEF Det!xsp3Api_config, Det!Answer
    <2>3. a.value # <<Det!NoPath>>
      BY DEF Det!NoPath
    <2> HIDE DEF e
    <2>4. /\ DOMAIN e = DOMAIN d /\ e.kind = kind /\ e.timer = [c \in Cards |-> Blank]
          /\ e.progress = 0 /\ e.elapsed = 0 /\ e.itfgFrames = 0 /\ e.itfgTime = 0
          /\ e.running = FALSE /\ e.path = Det!LibraryPath
      BY <1>1, <2>2, <2>3 DEF Fields
    <2>5. a.value[1] = Det!LibraryPath /\ Det!LibraryPath = LibraryPath
      BY <2>2, <2>3 DEF Det!LibraryPath, LibraryPath
    <2>6. QED
      BY <1>1, <2>4, <2>5 DEF e
  <1>4. QED
    BY <1>2, <1>3

LEMMA ScanInit == Init => ScanInv /\ dev.timer[0].source = Source(set.mode)
  <1> SUFFICES ASSUME Init PROVE ScanInv /\ dev.timer[0].source = Source(set.mode)
    OBVIOUS
  <1> DEFINE windows == [c \in 0 .. NumChannels - 1 |-> [w \in {0, 1} |-> <<0, 0>>]]
  <1>1. PICK kind \in Kinds :
          \E a \in config(NewDevice(kind, 3, Cards, windows), Memory, NumChannels) :
            a.value[1] >= 0 /\ dev = a.dev /\ handle = a.value[1]
    BY DEF Init
  <1> HIDE DEF windows
  <1>2. Opened(dev, kind, handle)
    <2>1. PICK a \in config(NewDevice(kind, 3, Cards, windows), Memory, NumChannels) :
            a.value[1] >= 0 /\ dev = a.dev /\ handle = a.value[1]
      BY <1>1
    <2>2. QED
      BY <2>1, ConfigOpens
  <1> USE DEF Opened
  <1>3. Device(dev)
    BY <1>2 DEF Device, Simulated
  <1>4. set = [mode |-> 0, images |-> 0, exposure |-> 1]
    BY DEF Init
  <1>5. SettingsKnown
    BY <1>4, SpectraAssumption DEF SettingsKnown, SettingsInRange
  <1>6. LoopInv /\ LooksInv /\ FoundIdle /\ StoppedMeansIdle
    <2>0. pc = "top" /\ adStatus = "Idle" /\ frame = 0 /\ since = 0
      BY DEF Init
    <2>1. LoopInv
      BY <2>0 DEF LoopInv
    <2>2. NumChannels \in Nat /\ CheckTimes \in Nat
      BY ScanAssumption
    <2>3. LooksInv /\ FoundIdle /\ StoppedMeansIdle
      BY <2>2 DEF Init, LooksInv, CountsInRange, FoundIdle, StoppedMeansIdle
    <2>4. QED
      BY <2>1, <2>3
  <1>7. 0 \in Cards
    BY ScanAssumption DEF Cards
  <1>8. dev.timer[0].source = Source(set.mode)
    BY <1>2, <1>4, <1>7 DEF Blank, Source, INTERNAL, SOFTWARE_INTERNAL
  <1>9. QED
    BY <1>3, <1>5, <1>6, <1>8 DEF ScanInv

LEMMA SettingsStep ==
  ASSUME Device(dev), SettingsKnown, [Next]_vars
  PROVE  SettingsKnown'
  <1>1. dev'.kind = dev.kind
    BY DeviceStep DEF SettingsKnown
  <1>2. CASE set' = set
    BY <1>1, <1>2 DEF SettingsKnown, SettingsInRange
  <1>3. CASE SetParameters
    <2>1. PICK images \in Images[dev.kind], exposure \in Exposures :
            set' = [set EXCEPT !.images = images, !.exposure = exposure]
      BY <1>3 DEF SetParameters
    <2>2. images \in Int /\ exposure \in 1 .. UintRange - 1
      BY ScanAssumption DEF Device
    <2>3. /\ DOMAIN set' = DOMAIN set /\ set'.images = images /\ set'.exposure = exposure
          /\ set'.mode = set.mode
      BY <2>1 DEF SettingsKnown, SettingsInRange
    <2>4. QED
      BY <1>1, <2>2, <2>3 DEF SettingsKnown, SettingsInRange
  <1>4. CASE SetTriggerMode
    <2>1. PICK mode \in Modes : set' = [set EXCEPT !.mode = mode] \/ set' = set
      BY <1>4 DEF SetTriggerMode
    <2>2. CASE set' = [set EXCEPT !.mode = mode]
      <3>1. /\ DOMAIN set' = DOMAIN set /\ set'.images = set.images
            /\ set'.exposure = set.exposure /\ set'.mode = mode
        BY <2>2 DEF SettingsKnown, SettingsInRange
      <3>2. QED
        BY <1>1, <3>1 DEF SettingsKnown, SettingsInRange
    <2>3. QED
      BY <1>2, <2>1, <2>2
  <1>5. SetParameters \/ SetTriggerMode \/ set' = set
    BY DEF Next, Client, DataTask, World, vars, AcquireOn, AcquireOff, SoftTriggerOn,
           SoftTriggerOff, TriggerFrame, ITFGStart, ITFGStop, Trigger, Top, Begin, Poll,
           ReadFrame, CheckStop, AskBusy, Look, Aborted, Completed, Tick, BurstFrame,
           TriggeredFrame, Rest, Changes
  <1>6. QED
    BY <1>2, <1>3, <1>4, <1>5

(* The steps that leave the data task and its settings alone. *)
Aside ==
  \/ AcquireOff \/ SoftTriggerOn \/ SoftTriggerOff \/ TriggerFrame \/ ITFGStart \/ ITFGStop
  \/ World \/ UNCHANGED vars

LEMMA AsideSteps == Aside => UNCHANGED <<handle, set, adStatus, startEvent, task>>
  BY DEF Aside, AcquireOff, SoftTriggerOn, SoftTriggerOff, TriggerFrame, ITFGStart, ITFGStop,
         Trigger, World, Tick, BurstFrame, TriggeredFrame, Rest, Changes, vars

LEMMA SinceStep ==
  ASSUME since \in Nat, [Next]_vars
  PROVE  since' \in Nat
  <1>1. CASE Client
    <2>1. CASE SetParameters \/ SetTriggerMode
      BY <2>1 DEF SetParameters, SetTriggerMode
    <2>2. CASE AcquireOn \/ AcquireOff
      BY <2>2 DEF AcquireOn, AcquireOff
    <2>3. CASE SoftTriggerOn \/ SoftTriggerOff \/ TriggerFrame \/ ITFGStart \/ ITFGStop
      BY <2>3 DEF SoftTriggerOn, SoftTriggerOff, TriggerFrame, ITFGStart, ITFGStop, Trigger
    <2>4. QED
      BY <1>1, <2>1, <2>2, <2>3 DEF Client
  <1>2. CASE DataTask
    BY <1>2 DEF DataTask, Top, Begin, Poll, ReadFrame, CheckStop, AskBusy, Look, Aborted,
                Completed
  <1>3. CASE World
    BY <1>3 DEF World, Tick, BurstFrame, TriggeredFrame, Rest, Changes
  <1>4. CASE UNCHANGED vars
    BY <1>4 DEF vars
  <1>5. QED
    BY <1>1, <1>2, <1>3, <1>4 DEF Next

LEMMA LoopStep ==
  ASSUME SettingsKnown, LoopInv, [Next]_vars
  PROVE  LoopInv'
  <1> USE DEF LoopInv, Session, GoTo
  <1>a. since' \in Nat
    BY SinceStep
  <1>1. CASE Aside
    BY <1>1, <1>a, AsideSteps DEF task
  <1>2. CASE SetParameters \/ SetTriggerMode
    <2>1. pc \in {"top", "wait"} /\ UNCHANGED <<adStatus, task>>
      BY <1>2 DEF SetParameters, SetTriggerMode, Settled
    <2>2. QED
      BY <2>1, <1>a DEF task
  <1>3. CASE AcquireOn
    BY <1>3, <1>a DEF AcquireOn, task
  <1>4. CASE Top \/ Begin
    BY <1>4, <1>a DEF Top, Begin
  <1>5. CASE Poll
    BY <1>5, <1>a DEF Poll
  <1>6. CASE ReadFrame
    BY <1>6, <1>a DEF ReadFrame, SettingsKnown, SettingsInRange
  <1>7. CASE CheckStop
    BY <1>7, <1>a DEF CheckStop
  <1>8. CASE AskBusy \/ Look
    BY <1>8, <1>a DEF AskBusy, Look
  <1>9. CASE Aborted \/ Completed
    BY <1>9, <1>a DEF Aborted, Completed
  <1>10. QED
    BY <1>1, <1>2, <1>3, <1>4, <1>5, <1>6, <1>7, <1>8, <1>9
    DEF Next, Client, DataTask, Aside

LEMMA LooksStep ==
  ASSUME Device(dev), SettingsInRange, LoopInv, LooksInv, FoundIdle, StoppedMeansIdle,
         [Next]_vars
  PROVE  LooksInv' /\ FoundIdle' /\ StoppedMeansIdle'
  <1> USE DEF LooksInv, CountsInRange, FoundIdle, StoppedMeansIdle, GoTo
  <1>a. ~AcquireOn /\ ~dev.running => ~dev'.running
    BY DeviceStep
  <1>b. NumChannels \in Nat \ {0} /\ CheckTimes \in Nat \ {0}
    BY ScanAssumption
  <1>1. CASE Aside
    <2>1. UNCHANGED <<pc, chan, idleChans, idle, looks, verdict>>
      BY <1>1, AsideSteps DEF task, check
    <2>2. ~dev.running => ~dev'.running
      <3>1. AcquireOn => pc \notin {"busy", "stopped"}
        BY DEF AcquireOn, Settled
      <3>2. CASE UNCHANGED vars
        BY <3>2 DEF vars
      <3>3. CASE World
        BY <3>3, WorldSteps
      <3>4. CASE AcquireOff \/ ITFGStart \/ ITFGStop
        BY <3>4, SmallSteps DEF SameRun
      <3>5. CASE SoftTriggerOn \/ SoftTriggerOff \/ TriggerFrame
        BY <3>5, TriggerSteps
      <3>6. QED
        BY <1>1, <3>2, <3>3, <3>4, <3>5 DEF Aside
    <2>3. QED
      BY <2>1, <2>2
  <1>2. CASE SetParameters \/ SetTriggerMode \/ AcquireOn
    <2>1. pc \in {"top", "wait"} /\ UNCHANGED <<pc, chan, idleChans, idle, looks, verdict>>
      BY <1>2 DEF SetParameters, SetTriggerMode, AcquireOn, Settled, task, check
    <2>2. QED
      BY <2>1
  <1>3. CASE Top \/ Begin \/ Poll \/ ReadFrame
    <2>1. UNCHANGED <<chan, idleChans, idle, looks, verdict>>
      BY <1>3 DEF Top, Begin, Poll, ReadFrame, check
    <2>2. pc \notin {"busy", "stopped"} /\ pc' \notin {"busy", "stopped"}
      BY <1>3 DEF Top, Begin, Poll, ReadFrame
    <2>3. QED
      BY <2>1, <2>2
  <1>4. CASE CheckStop
    BY <1>4, <1>b DEF CheckStop, check
  <1>5. CASE AskBusy
    <2>1. PICK a \in histogram_is_any_busy(dev, handle) :
            idleChans' = IF a.value = <<0>> THEN idleChans + 1 ELSE idleChans
      BY <1>5 DEF AskBusy
    <2>2. a.value = <<0>> => ~dev.running
      BY <2>1, IdleAnswer
    <2>3. /\ pc = "busy" /\ pc' = pc /\ chan < NumChannels /\ chan' = chan + 1 /\ dev' = dev
          /\ UNCHANGED <<idle, looks, verdict>>
      BY <1>5 DEF AskBusy
    <2>4. idleChans' = idleChans \/ ~dev'.running
      BY <2>1, <2>2, <2>3
    <2>5. idleChans' \in 0 .. chan' /\ chan' \in 0 .. NumChannels
      BY <2>1, <2>3, <1>b
    <2>6. QED
      BY <2>3, <2>4, <2>5
  <1>6. CASE Look
    <2>1. /\ pc = "busy" /\ chan = NumChannels /\ chan' = 0 /\ idleChans' = 0 /\ idle' = IdleNow
          /\ looks' = looks + 1 /\ dev' = dev
      BY <1>6 DEF Look
    <2>2. IdleNow # idle => ~dev.running
      BY <2>1, <1>b DEF IdleNow
    <2>3. IdleNow \in 0 .. 2 /\ (IdleNow > 0 => ~dev.running)
      BY <2>1, <2>2 DEF IdleNow
    <2>4. \/ looks' = CheckTimes /\ pc' = "stopped" /\ verdict' = "error"
          \/ looks' # CheckTimes /\ IdleNow = 2 /\ pc' = "stopped" /\ verdict' = "ok"
          \/ looks' # CheckTimes /\ IdleNow # 2 /\ pc' = "busy" /\ verdict' = verdict
      BY <1>6 DEF Look
    <2>5. QED
      BY <2>1, <2>3, <2>4, <1>b
  <1>7. CASE Aborted \/ Completed
    BY <1>7, <1>b DEF Aborted, Completed, check
  <1>8. QED
    BY <1>1, <1>2, <1>3, <1>4, <1>5, <1>6, <1>7 DEF Next, Client, DataTask, Aside

LEMMA ScanStep == ScanInv /\ [Next]_vars => ScanInv'
  <1> SUFFICES ASSUME ScanInv, [Next]_vars PROVE ScanInv'
    OBVIOUS
  <1>1. SettingsInRange
    BY DEF ScanInv, SettingsKnown
  <1>2. QED
    BY <1>1, DeviceStep, SettingsStep, LoopStep, LooksStep DEF ScanInv

LEMMA ScanInvariant == Spec => []ScanInv
  BY ScanInit, ScanStep, PTL DEF Spec

(***************************************************************************)
(* The locals of the data task and of checkHistBusy() keep their ranges.   *)
(***************************************************************************)
THEOREM ScanTypes == Spec => []TypeOK
  <1>1. ScanInv => TypeOK
    BY DEF ScanInv, SettingsKnown, LoopInv, LooksInv, CountsInRange, TypeOK
  <1>2. QED
    BY <1>1, ScanInvariant, PTL

(***************************************************************************)
(* When checkHistBusy() says that the histogram has stopped, it has.       *)
(***************************************************************************)
THEOREM StopIsHonest == Spec => []StoppedMeansIdle
  <1>1. ScanInv => StoppedMeansIdle
    BY DEF ScanInv
  <1>2. QED
    BY <1>1, ScanInvariant, PTL

(***************************************************************************)
(* The second invariant, for a system of one card whose generator answers: *)
(* from the accepted start on, the generator runs this acquisition's       *)
(* program, the device's clock shows the time since the start, and what it *)
(* has counted is due.                                                     *)
(***************************************************************************)
OneCard == NumCards = 1 /\ GeneratorWorks

Due(n) == n * set.exposure <= since

Timed(d) ==
  /\ HasProgram(d, set.images, set.exposure, "burst")
  /\ ~Simulated(d) => d.counting = FALSE
  /\ d.elapsed = since /\ Due(d.progress)

TimeInv ==
  /\ dev.timer[0].source = Source(set.mode)
  /\ set.mode = INTERNAL =>
       /\ startEvent \/ pc \in Session => Timed(dev)
       /\ pc \in Session => Due(frame)
       /\ pc = "read" => Due(frame + 1)

LEMMA TimesMono == \A m, n \in Int, e \in Nat : m <= n => m * e <= n * e
  OBVIOUS

LEMMA QuotientFits == \A x \in Nat, e \in Nat \ {0} : (x \div e) * e <= x /\ x \div e \in Int
  OBVIOUS

LEMMA EarlierIsDue ==
  ASSUME SettingsInRange, since \in Nat, NEW m \in Int, NEW n \in Int, m <= n, Due(n)
  PROVE  Due(m)
  <1>1. set.exposure \in Nat
    BY SpectraAssumption DEF SettingsInRange
  <1>2. m * set.exposure <= n * set.exposure
    BY <1>1, TimesMono
  <1>3. m * set.exposure \in Int /\ n * set.exposure \in Int
    BY <1>1
  <1>4. QED
    BY <1>2, <1>3 DEF Due

LEMMA NothingIsDue ==
  ASSUME SettingsInRange, since \in Nat
  PROVE  Due(0)
  BY DEF SettingsInRange, Due

(* The simulator finds no frame that is not due. *)
LEMMA FinishedIsDue ==
  ASSUME Device(dev), SettingsInRange, since \in Nat, Timed(dev),
         dev.timer[0].source = SRC_INTERNAL
  PROVE  Due(Sim!Finished(dev))
  <1>1. set.exposure \in Nat \ {0}
    BY SpectraAssumption DEF SettingsInRange
  <1>2. /\ dev.elapsed = since /\ dev.itfgTime = set.exposure /\ dev.itfgFrames \in Int
        /\ Due(dev.progress)
    BY DEF Timed, HasProgram, Device
  <1>3. Due(since \div set.exposure) /\ since \div set.exposure \in Int
    BY <1>1, QuotientFits DEF Due
  <1>4. Sim!Finished(dev) =
          IF since \div set.exposure > dev.itfgFrames THEN dev.itfgFrames
          ELSE since \div set.exposure
    BY <1>1, <1>2 DEF Sim!Finished, Sim!SRC_INTERNAL, SRC_INTERNAL
  <1>5. CASE since \div set.exposure > dev.itfgFrames
    BY <1>2, <1>3, <1>4, <1>5, EarlierIsDue
  <1>6. CASE ~(since \div set.exposure > dev.itfgFrames)
    BY <1>3, <1>4, <1>6
  <1>7. QED
    BY <1>5, <1>6

(* A step that keeps the count and the set-up keeps what is due. *)
LEMMA TimedKept ==
  ASSUME Timed(dev), SameSetup(dev, dev'), SameCount(dev, dev'), UNCHANGED <<set, since>>
  PROVE  Timed(dev)'
  BY DEF Timed, SameSetup, SameCount, HasProgram, Simulated, Due

LEMMA InternalSource ==
  Source(INTERNAL) = SRC_INTERNAL
  BY DEF Source, INTERNAL, SRC_INTERNAL

LEMMA TimeStep ==
  ASSUME OneCard
  PROVE  ScanInv /\ TimeInv /\ [Next]_vars => TimeInv'
  <1> SUFFICES ASSUME ScanInv, TimeInv, [Next]_vars PROVE TimeInv'
    OBVIOUS
  <1>a. Device(dev) /\ SettingsInRange /\ LoopInv /\ since \in Nat /\ frame \in Nat
    BY DEF ScanInv, SettingsKnown, LoopInv
  <1>b. set.exposure \in Nat /\ set.exposure >= 1
    BY <1>a, SpectraAssumption DEF SettingsInRange
  <1> USE DEF TimeInv
  <1>1. CASE AcquireOff \/ ITFGStart \/ ITFGStop \/ ReadFrame
    <2>1. SameSetup(dev, dev') /\ SameCount(dev, dev')
      BY <1>1, <1>a, SmallSteps DEF SameRun
    <2>2. UNCHANGED <<set, since, startEvent>>
      BY <1>1 DEF AcquireOff, ITFGStart, ITFGStop, Trigger, ReadFrame
    <2>3. dev'.timer[0].source = Source(set'.mode)
      BY <2>1, <2>2 DEF SameSetup
    <2>4. Timed(dev) => Timed(dev)'
      BY <2>1, <2>2, TimedKept
    <2>5. CASE UNCHANGED <<pc, frame>>
      BY <2>2, <2>3, <2>4, <2>5 DEF Due
    <2>6. CASE ReadFrame
      <3>1. pc = "read" /\ pc' = "checkStop" /\ frame' = frame + 1
        BY <2>6 DEF ReadFrame, GoTo
      <3>2. QED
        BY <2>2, <2>3, <2>4, <3>1 DEF Due, Session
    <2>7. QED
      BY <1>1, <2>5, <2>6 DEF AcquireOff, ITFGStart, ITFGStop, Trigger, task
  <1>2. CASE SoftTriggerOn \/ SoftTriggerOff \/ TriggerFrame
    <2>1. /\ SameSetup(dev, dev') /\ dev'.elapsed = dev.elapsed
          /\ Simulated(dev) => SameCount(dev, dev')
          /\ dev.itfgTrigger # "software" /\ dev.counting = FALSE
               => dev'.counting = FALSE /\ dev'.progress = dev.progress
          /\ UNCHANGED <<handle, set, adStatus, startEvent, stopEvent, task, since>>
      BY <1>2, <1>a, TriggerSteps
    <2>2. Timed(dev) => Timed(dev)'
      BY <2>1 DEF Timed, HasProgram, SameSetup, SameCount, Simulated, Due
    <2>3. QED
      BY <2>1, <2>2 DEF SameSetup, Due, task
  <1>3. CASE Poll
    <2>1. /\ SameSetup(dev, dev') /\ dev'.elapsed = dev.elapsed /\ dev'.counting = dev.counting
          /\ dev'.progress = IF Simulated(dev) THEN Sim!Finished(dev) ELSE dev.progress
          /\ pc = "poll" /\ pc' \in {"read", "checkStop"}
          /\ pc' = "read" => frame < dev'.progress
          /\ UNCHANGED <<set, startEvent, frame, since>> /\ Device(dev')
      BY <1>3, <1>a, PollStep
    <2>2. dev'.timer[0].source = Source(set'.mode)
      BY <2>1 DEF SameSetup
    <2>3. ASSUME set.mode = INTERNAL PROVE Due(dev'.progress)
      <3>1. Timed(dev) /\ dev.timer[0].source = SRC_INTERNAL
        BY <2>1, <2>3, InternalSource DEF Session
      <3>2. Due(Sim!Finished(dev)) /\ Due(dev.progress)
        BY <3>1, <1>a, FinishedIsDue DEF Timed
      <3>3. QED
        BY <2>1, <3>2
    <2>4. set.mode = INTERNAL => Timed(dev)'
      BY <2>1, <2>3 DEF Timed, HasProgram, SameSetup, Simulated, Due, Session
    <2>5. ASSUME set.mode = INTERNAL, pc' = "read" PROVE Due(frame + 1)
      <3>1. frame + 1 <= dev'.progress /\ dev'.progress \in Int /\ frame + 1 \in Int
        BY <2>1, <2>5, <1>a DEF Device
      <3>2. QED
        BY <3>1, <2>3, <2>5, <1>a, EarlierIsDue
    <2>6. set.mode = INTERNAL => Due(frame)
      BY <2>1 DEF Session
    <2>7. QED
      BY <2>1, <2>2, <2>4, <2>5, <2>6 DEF Due
  <1>4. CASE World
    <2>1. /\ SameSetup(dev, dev')
          /\ UNCHANGED <<handle, set, adStatus, startEvent, stopEvent, task>>
      BY <1>4, <1>a, WorldSteps
    <2>2. dev'.timer[0].source = Source(set'.mode)
      BY <2>1 DEF SameSetup
    <2>3. CASE Tick
      <3>1. since' = since + 1 /\ dev' = [dev EXCEPT !.elapsed = @ + 1]
        BY <2>3 DEF Tick
      <3>2. dev'.elapsed = dev.elapsed + 1 /\ dev'.progress = dev.progress
            /\ dev'.counting = dev.counting
        BY <3>1, <1>a DEF Device, Fields
      <3>3. \A n \in Int : Due(n) => n * set.exposure <= since + 1
        BY <1>a, <1>b DEF Due
      <3>4. Timed(dev) => Timed(dev)'
        BY <2>1, <3>1, <3>2, <3>3, <1>a
        DEF Timed, HasProgram, SameSetup, Simulated, Due, Device
      <3>5. (Due(frame) => Due(frame)') /\ (Due(frame + 1) => Due(frame + 1)')
        BY <2>1, <3>1, <3>3, <1>a DEF Due, task
      <3>6. QED
        BY <2>1, <2>2, <3>4, <3>5 DEF task
    <2>4. CASE BurstFrame
      <3>1. /\ dev.elapsed >= (dev.progress + 1) * dev.itfgTime /\ since' = since
            /\ dev' = [dev EXCEPT !.progress = @ + 1,
                                  !.running = dev.progress + 1 < dev.itfgFrames]
        BY <2>4 DEF BurstFrame, Changes
      <3>2. dev'.elapsed = dev.elapsed /\ dev'.progress = dev.progress + 1
            /\ dev'.counting = dev.counting
        BY <3>1, <1>a DEF Device, Fields
      <3>3. Timed(dev) => (dev.progress + 1) * set.exposure <= since
        BY <3>1 DEF Timed, HasProgram
      <3>4. Timed(dev) => Timed(dev)'
        BY <2>1, <3>1, <3>2, <3>3 DEF Timed, HasProgram, SameSetup, Simulated, Due
      <3>5. QED
        BY <2>1, <2>2, <3>1, <3>4 DEF task, Due
    <2>5. CASE TriggeredFrame
      <3>1. dev.timer[0].source # SRC_INTERNAL /\ since' = since
        BY <2>5 DEF TriggeredFrame, Changes
      <3>2. set.mode # INTERNAL
        BY <3>1, InternalSource
      <3>3. QED
        BY <2>1, <2>2, <3>2
    <2>6. CASE Rest
      <3>1. /\ since' = since
            /\ dev' = [dev EXCEPT !.running = FALSE, !.halting = FALSE, !.counting = FALSE]
        BY <2>6 DEF Rest, Changes
      <3>2. dev'.elapsed = dev.elapsed /\ dev'.progress = dev.progress /\ dev'.counting = FALSE
        BY <3>1, <1>a DEF Device, Fields
      <3>3. Timed(dev) => Timed(dev)'
        BY <2>1, <3>1, <3>2 DEF Timed, HasProgram, SameSetup, Simulated, Due
      <3>4. QED
        BY <2>1, <2>2, <3>1, <3>3 DEF task, Due
    <2>7. QED
      BY <1>4, <2>3, <2>4, <2>5, <2>6 DEF World
  <1>5. CASE SetTriggerMode
    <2>1. PICK mode \in Modes :
            \E a \in TimerCalls([mode |-> mode, f0 |-> FALSE, veto |-> FALSE, debounce |-> 0]) :
              /\ dev' = a.dev
              /\ set' = IF a.status = "ok" THEN [set EXCEPT !.mode = mode] ELSE set
      BY <1>5 DEF SetTriggerMode
    <2>2. PICK a \in TimerCalls([mode |-> mode, f0 |-> FALSE, veto |-> FALSE, debounce |-> 0]) :
              /\ dev' = a.dev
              /\ set' = IF a.status = "ok" THEN [set EXCEPT !.mode = mode] ELSE set
      BY <2>1
    <2>3. \/ a.status = "error" /\ a.dev = dev
          \/ a.status = "ok" /\ a.dev.timer[0].source = Source(mode)
      BY <2>2, <1>a, OneCardTimer DEF OneCard
    <2>4. ~(startEvent' \/ pc' \in Session) /\ pc' # "read"
      BY <1>5 DEF SetTriggerMode, Settled, task, Session
    <2>5. dev'.timer[0].source = Source(set'.mode)
      <3>1. CASE a.status = "error" /\ a.dev = dev
        BY <2>2, <3>1
      <3>2. CASE a.status = "ok" /\ a.dev.timer[0].source = Source(mode)
        <4>1. set'.mode = mode
          BY <2>2, <3>2, <1>a DEF SettingsInRange
        <4>2. QED
          BY <2>2, <3>2, <4>1
      <3>3. QED
        BY <2>3, <3>1, <3>2
    <2>6. QED
      BY <2>4, <2>5
  <1>6. CASE SetParameters
    <2>1. PICK images \in Images[dev.kind], exposure \in Exposures :
            set' = [set EXCEPT !.images = images, !.exposure = exposure]
      BY <1>6 DEF SetParameters
    <2>2. set'.mode = set.mode /\ dev' = dev
      BY <1>6, <2>1, <1>a DEF SettingsInRange, SetParameters
    <2>3. ~(startEvent' \/ pc' \in Session) /\ pc' # "read"
      BY <1>6 DEF SetParameters, Settled, task, Session
    <2>4. QED
      BY <2>2, <2>3
  <1>7. CASE AcquireOn
    <2>1. PICK a \in StartCalls : dev' = a.dev /\ startEvent' = (a.status = "ok")
      BY <1>7 DEF AcquireOn
    <2>2. /\ a.dev.kind = dev.kind /\ a.dev.timer = dev.timer
          /\ a.status = "ok" => StartedFrom(dev, a.dev)
      BY <2>1, <1>a, StartCallsDo
    <2>3. since' = 0 /\ set' = set /\ pc' = pc /\ pc \notin Session /\ pc # "read"
      BY <1>7 DEF AcquireOn, Settled, task, Session
    <2>4. ASSUME startEvent', set.mode = INTERNAL PROVE Timed(dev)'
      <3>1. StartedFrom(dev, dev') /\ dev'.kind = dev.kind
        BY <2>1, <2>2, <2>4
      <3>2. HasProgram(dev', set.images, set.exposure, "burst") /\ dev'.progress = 0
            /\ dev'.elapsed = 0 /\ (~Simulated(dev) => dev'.counting = FALSE)
        BY <3>1, <2>4 DEF StartedFrom, BurstSetUp, OneCard
      <3>3. 0 * set.exposure <= 0
        BY <1>b
      <3>4. QED
        BY <3>1, <3>2, <3>3, <2>3 DEF Timed, HasProgram, Simulated, Due
    <2>5. dev'.timer[0].source = Source(set'.mode)
      BY <2>1, <2>2, <2>3
    <2>6. QED
      BY <2>3, <2>4, <2>5
  <1>8. CASE Begin
    <2>1. /\ dev' = dev /\ set' = set /\ since' = since /\ frame' = frame
          /\ pc = "wait" /\ startEvent /\ pc' = "poll"
      BY <1>8 DEF Begin, GoTo
    <2>2. frame = 0 /\ Due(0)
      BY <2>1, <1>a, NothingIsDue DEF LoopInv
    <2>3. QED
      BY <2>1, <2>2 DEF Timed, HasProgram, Due
  <1>9. CASE Top \/ CheckStop \/ AskBusy \/ Look \/ Aborted \/ Completed \/ UNCHANGED vars
    <2>1. UNCHANGED <<dev, set, since, startEvent>>
      BY <1>9 DEF Top, CheckStop, AskBusy, Look, Aborted, Completed, vars
    <2>2. /\ pc' \in Session => pc \in Session /\ frame' = frame
          /\ pc' = "read" => pc = "read" /\ frame' = frame
      BY <1>9 DEF Top, CheckStop, AskBusy, Look, Aborted, Completed, vars, task, GoTo, Session
    <2>3. QED
      BY <2>1, <2>2 DEF Timed, HasProgram, Due
  <1>10. QED
    BY <1>1, <1>2, <1>3, <1>4, <1>5, <1>6, <1>7, <1>8, <1>9 DEF Next, Client, DataTask

(***************************************************************************)
(* On one card with a generator that answers, no frame goes out before its *)
(* time has passed since this acquisition was started.                     *)
(***************************************************************************)
THEOREM FramesTakeTheirTime ==
  ASSUME OneCard
  PROVE  Spec => []NoFrameBeforeItsTime
  <1>1. Init => ScanInv /\ TimeInv
    <2> SUFFICES ASSUME Init PROVE ScanInv /\ TimeInv
      OBVIOUS
    <2>1. set.mode # INTERNAL
      BY DEF Init, INTERNAL
    <2>2. QED
      BY <2>1, ScanInit DEF TimeInv
  <1>2. ScanInv /\ TimeInv => NoFrameBeforeItsTime
    BY DEF TimeInv, Due, NoFrameBeforeItsTime
  <1>3. QED
    BY <1>1, <1>2, ScanStep, TimeStep, PTL DEF Spec

(***************************************************************************)
(* The scan as a session.  None is armed while another runs; ADStatus lets *)
(* a stop through in a session only, and Top clears what a stop that came  *)
(* too late has left.                                                      *)
(***************************************************************************)
StopInv ==
  /\ startEvent \in BOOLEAN /\ (pc \in Session => ~startEvent)
  /\ adStatus = "Acquire" => pc \in Session
  /\ pc = "wait" => ~stopEvent

LEMMA StopStep == LoopInv /\ StopInv /\ [Next]_vars => StopInv'
  <1> SUFFICES ASSUME LoopInv, StopInv, [Next]_vars PROVE StopInv'
    OBVIOUS
  <1> USE DEF StopInv, LoopInv, Session, GoTo
  <1>1. CASE AcquireOff
    BY <1>1 DEF AcquireOff, task
  <1>2. CASE Aside /\ ~AcquireOff
    <2>1. stopEvent' = stopEvent
      BY <1>2 DEF Aside, SoftTriggerOn, SoftTriggerOff, TriggerFrame, ITFGStart, ITFGStop,
                  Trigger, World, Tick, BurstFrame, TriggeredFrame, Rest, Changes, vars
    <2>2. QED
      BY <1>2, <2>1, AsideSteps DEF task
  <1>3. CASE SetParameters \/ SetTriggerMode \/ AcquireOn
    <2>1. pc \notin Session /\ UNCHANGED <<adStatus, stopEvent, pc>>
      BY <1>3 DEF SetParameters, SetTriggerMode, AcquireOn, Settled, task
    <2>2. startEvent' \in BOOLEAN
      BY <1>3 DEF SetParameters, SetTriggerMode, AcquireOn
    <2>3. QED
      BY <2>1, <2>2
  <1>4. CASE Top \/ Begin
    BY <1>4 DEF Top, Begin
  <1>5. CASE Poll \/ ReadFrame
    BY <1>5 DEF Poll, ReadFrame
  <1>6. CASE CheckStop
    BY <1>6 DEF CheckStop
  <1>7. CASE AskBusy \/ Look
    BY <1>7 DEF AskBusy, Look
  <1>8. CASE Aborted \/ Completed
    BY <1>8 DEF Aborted, Completed
  <1>9. QED
    BY <1>1, <1>2, <1>3, <1>4, <1>5, <1>6, <1>7, <1>8 DEF Next, Client, DataTask, Aside

PromiseInv == Device(dev) /\ SettingsKnown /\ LoopInv /\ StopInv

LEMMA PromiseInit == Init => StopInv /\ Promise!Init
  <1> SUFFICES ASSUME Init PROVE StopInv /\ Promise!Init
    OBVIOUS
  <1>1. pc = "top" /\ startEvent = FALSE /\ adStatus = "Idle" /\ set.images = 0
    BY DEF Init
  <1>2. QED
    BY <1>1 DEF StopInv, Session, Promise!Init, phaseBar, askedBar

(* Nothing the promise speaks of has changed. *)
LEMMA Unseen ==
  ASSUME UNCHANGED <<set, startEvent, stopEvent, pc, frame>>
  PROVE  UNCHANGED Promise!vars
  BY DEF Promise!vars, phaseBar, askedBar

LEMMA PromiseStep ==
  PromiseInv /\ [Next]_vars => [Promise!Next]_(Promise!vars)
  <1> SUFFICES ASSUME PromiseInv, [Next]_vars
               PROVE  Promise!Next \/ UNCHANGED Promise!vars
    OBVIOUS
  <1> USE DEF PromiseInv, phaseBar, askedBar, Session, GoTo
  <1>1. CASE SetParameters
    <2>1. PICK images \in Images[dev.kind], exposure \in Exposures :
            set' = [set EXCEPT !.images = images, !.exposure = exposure]
      BY <1>1 DEF SetParameters
    <2>2. set'.images \in UNION {Images[kind] : kind \in Kinds}
      BY <2>1 DEF Device, SettingsKnown, SettingsInRange
    <2>3. pc \notin Session /\ ~startEvent /\ UNCHANGED <<startEvent, stopEvent, pc, frame>>
      BY <1>1 DEF SetParameters, Settled, task
    <2>4. Promise!Configure
      BY <2>2, <2>3 DEF Promise!Configure
    <2>5. QED
      BY <2>4 DEF Promise!Next
  <1>2. CASE SetTriggerMode
    <2>1. PICK mode \in Modes : set' = [set EXCEPT !.mode = mode] \/ set' = set
      BY <1>2 DEF SetTriggerMode
    <2>2. set'.images = set.images
      BY <2>1 DEF SettingsKnown, SettingsInRange
    <2>3. UNCHANGED <<startEvent, stopEvent, pc, frame>>
      BY <1>2 DEF SetTriggerMode, task
    <2>4. QED
      BY <2>2, <2>3 DEF Promise!vars
  <1>3. CASE AcquireOn
    <2>1. pc \notin Session /\ ~startEvent /\ UNCHANGED <<set, stopEvent, pc, frame>>
      BY <1>3 DEF AcquireOn, Settled, task
    <2>2. CASE startEvent' = TRUE
      <3>1. Promise!Start
        BY <2>1, <2>2 DEF Promise!Start
      <3>2. QED
        BY <3>1 DEF Promise!Next
    <2>3. CASE startEvent' = FALSE
      BY <2>1, <2>3, Unseen DEF StopInv
    <2>4. QED
      BY <1>3, <2>2, <2>3 DEF AcquireOn
  <1>4. CASE AcquireOff
    <2>1. pc \in Session /\ stopEvent' = TRUE /\ UNCHANGED <<set, startEvent, pc, frame>>
      BY <1>4 DEF AcquireOff, StopInv, task
    <2>2. Promise!AskStop
      BY <2>1 DEF Promise!AskStop
    <2>3. QED
      BY <2>2 DEF Promise!Next
  <1>5. CASE Aside /\ ~AcquireOff
    <2>1. stopEvent' = stopEvent
      BY <1>5 DEF Aside, SoftTriggerOn, SoftTriggerOff, TriggerFrame, ITFGStart, ITFGStop,
                  Trigger, World, Tick, BurstFrame, TriggeredFrame, Rest, Changes, vars
    <2>2. QED
      BY <1>5, <2>1, AsideSteps, Unseen DEF task
  <1>6. CASE Top
    BY <1>6 DEF Top, Promise!vars
  <1>7. CASE Begin
    <2>1. Promise!Collect
      BY <1>7 DEF Begin, LoopInv, StopInv, Promise!Collect
    <2>2. QED
      BY <2>1 DEF Promise!Next
  <1>8. CASE Poll \/ AskBusy \/ Look
    BY <1>8 DEF Poll, AskBusy, Look, Promise!vars
  <1>9. CASE ReadFrame
    <2>1. Promise!Deliver
      BY <1>9 DEF ReadFrame, LoopInv, Promise!Deliver
    <2>2. QED
      BY <2>1 DEF Promise!Next
  <1>10. CASE CheckStop
    BY <1>10 DEF CheckStop, Promise!vars
  <1>11. CASE Aborted
    <2>1. Promise!Abort
      BY <1>11 DEF Aborted, StopInv, Promise!Abort, Promise!End
    <2>2. QED
      BY <2>1 DEF Promise!Next
  <1>12. CASE Completed
    <2>1. Promise!Complete
      BY <1>12 DEF Completed, StopInv, Promise!Complete, Promise!End
    <2>2. QED
      BY <2>1 DEF Promise!Next
  <1>13. QED
    BY <1>1, <1>2, <1>3, <1>4, <1>5, <1>6, <1>7, <1>8, <1>9, <1>10, <1>11, <1>12
    DEF Next, Client, DataTask, Aside

(***************************************************************************)
(* Whatever detector or simulator answers, and whatever fails, the calls   *)
(* of the handlers and of the data task make up an acquisition session:    *)
(* AcquireOn arms it, every read-out is the next frame, and it ends with   *)
(* the last frame or by an accepted stop.                                  *)
(***************************************************************************)
THEOREM ScanImplementsSession == Spec => ScanIsSession
  <1>1. ScanInv => Device(dev) /\ SettingsKnown /\ LoopInv
    BY DEF ScanInv
  <1>2. Spec => []PromiseInv
    BY <1>1, ScanInvariant, PromiseInit, StopStep, PTL DEF Spec, PromiseInv
  <1>3. QED
    BY <1>2, PromiseInit, PromiseStep, PTL DEF Spec, ScanIsSession, Promise!Spec
=============================================================================
