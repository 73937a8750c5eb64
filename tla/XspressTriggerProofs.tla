------------------------- MODULE XspressTriggerProofs -------------------------
(***************************************************************************)
(* Proofs about the trigger registers, for any number of cards.            *)
(***************************************************************************)
EXTENDS XspressTrigger, TLAPS

USE NumCardsAssumption, ModeValuesAssumption, DebouncesAssumption, PulseCountsAssumption

(* A request is a set of settings, but for its mode. *)
Requests == [mode : Int, f0 : BOOLEAN, veto : BOOLEAN, debounce : Debounces]

(* mapTriggerMode() always yields a register's value. *)
LEMMA WordType == \A s \in Requests, c \in Cards : Word(c, s) \in Words
<1> SUFFICES ASSUME NEW s \in Requests, NEW c \in Cards
             PROVE  Word(c, s) \in Words
  OBVIOUS
<1>1. Source(s.mode) \in Sources /\ SRC_TTL_VETO \in Sources
  BY DEF Requests, Source, Sources, SRC_FIXED, SRC_INTERNAL, SRC_TTL_VETO
<1>2. s.debounce % 256 \in 0 .. 255
  <2>1. s.debounce \in Int
    BY DebouncesAssumption DEF Requests
  <2>2. \A d \in Int : d % 256 \in 0 .. 255
    OBVIOUS
  <2> QED
    BY <2>1, <2>2, Zenon
<1>3. s.f0 \in BOOLEAN /\ (c = 0 /\ s.veto) \in BOOLEAN
  BY Zenon DEF Requests
<1>4. (IF c = 0 THEN Source(s.mode) ELSE SRC_TTL_VETO) \in Sources
  BY <1>1, Zenon
<1> QED
  BY <1>2, <1>3, <1>4, Zenon DEF Word, Words

(* Writing any number of cards leaves one register's value per card. *)
LEMMA WrittenType ==
  ASSUME NEW registers \in [Cards -> Words], NEW s \in Requests, NEW n \in Int
  PROVE  Written(registers, n, s) \in [Cards -> Words]
BY WordType, Zenon DEF Written

(* Writing all cards, or all but the last at most. *)
LEMMA WrittenAll ==
  ASSUME NEW registers, NEW s
  PROVE  Written(registers, NumCards, s) = [c \in Cards |-> Word(c, s)]
BY DEF Written, Cards

LEMMA WrittenFew ==
  ASSUME NEW registers, NEW s, NEW n \in 0 .. LastCard
  PROVE  Written(registers, n, s)[LastCard] = registers[LastCard]
BY DEF Written, Cards, LastCard

LEMMA BlankType == [c \in Cards |-> Blank] \in [Cards -> Words]
<1>1. Blank \in Words
  BY DEF Blank, Words, Sources, SRC_FIXED
<1> QED
  BY <1>1

(* Every request is well typed, and so is what WritePulses asks for. *)
LEMMA RequestTypes ==
  ASSUME settings \in Settings
  PROVE  /\ settings \in Requests
         /\ Requested \subseteq Requests
         /\ \A value \in PulseCounts : WithPulses(value) \in Settings
<1>1. \A m \in KnownModes : m \in Int
  BY DEF KnownModes
<1>2. settings \in Requests
  BY <1>1 DEF Settings, Requests
<1>3. Requested \subseteq Requests
  <2>1. \A m \in ModeValues : [settings EXCEPT !.mode = m] \in Requests
    BY <1>2 DEF Requests
  <2>2. \A b \in BOOLEAN : [settings EXCEPT !.f0 = b] \in Requests
    BY <1>2 DEF Requests
  <2>3. \A b \in BOOLEAN : [settings EXCEPT !.veto = b] \in Requests
    BY <1>2 DEF Requests
  <2>4. \A d \in Debounces : [settings EXCEPT !.debounce = d] \in Requests
    BY <1>2 DEF Requests
  <2> QED
    BY <2>1, <2>2, <2>3, <2>4, Zenon DEF Requested
<1>4. \A value \in PulseCounts : WithPulses(value) \in Settings
  BY DEF WithPulses, Settings, KnownModes, INTERNAL
<1> QED
  BY <1>2, <1>3, <1>4

(* What one call of setTriggerMode() does, in the terms the proofs need. *)
LEMMA SetTriggerModeFacts ==
  ASSUME register \in [Cards -> Words], NEW s \in Requests, SetTriggerMode(s)
  PROVE  /\ register' \in [Cards -> Words]
         /\ complete' \in BOOLEAN
         /\ complete' => /\ s.mode \in KnownModes
                         /\ register' = [c \in Cards |-> Word(c, s)]
         /\ ~complete' /\ NumCards > 1 => register'[LastCard] = register[LastCard]
<1>1. PICK n \in CardsWritten(s) : /\ register' = Written(register, n, s)
                                   /\ complete' = Succeeded(n, s)
  BY DEF SetTriggerMode
<1>2. n \in 0 .. NumCards
  BY <1>1 DEF CardsWritten
<1>3. register' \in [Cards -> Words]
  BY <1>1, <1>2, WrittenType
<1>4. complete' \in BOOLEAN
  BY <1>1, Zenon DEF Succeeded
<1>5. ASSUME complete'
      PROVE  s.mode \in KnownModes /\ register' = [c \in Cards |-> Word(c, s)]
  BY <1>1, <1>5, WrittenAll DEF Succeeded
<1>6. ASSUME ~complete', NumCards > 1
      PROVE  register'[LastCard] = register[LastCard]
  <2>1. n # NumCards
    <3>1. CASE s.mode \in KnownModes
      BY <1>1, <1>6, <3>1, Zenon DEF Succeeded
    <3>2. CASE s.mode \notin KnownModes
      BY <1>1, <1>6, <3>2 DEF CardsWritten, Reach
    <3> QED
      BY <3>1, <3>2
  <2> QED
    BY <1>1, <1>2, <2>1, WrittenFew DEF LastCard
<1> QED
  BY <1>3, <1>4, <1>5, <1>6

(***************************************************************************)
(* The parameters, the registers and the connection keep their types; a    *)
(* stored trigger mode is a known one, because an unknown mode never       *)
(* completes.                                                              *)
(***************************************************************************)
LEMMA TypeInit == Init => TypeOK
<1> SUFFICES ASSUME Init PROVE TypeOK
  OBVIOUS
<1>1. settings \in Settings
  BY DEF Init, Settings, KnownModes
<1>2. register \in [Cards -> Words]
  BY BlankType DEF Init
<1> QED
  BY <1>1, <1>2 DEF Init, TypeOK

LEMMA TypeStep == TypeOK /\ [Next]_vars => TypeOK'
<1> SUFFICES ASSUME TypeOK, [Next]_vars PROVE TypeOK'
  OBVIOUS
<1> USE DEF TypeOK
<1>1. CASE WriteTrigger
  <2>1. PICK s \in Requested : SetTriggerMode(s) /\ settings' = Stored(s)
    BY <1>1 DEF WriteTrigger
  <2>2. s \in Requests
    BY <2>1, RequestTypes
  <2>3. /\ register' \in [Cards -> Words] /\ complete' \in BOOLEAN
        /\ complete' => s.mode \in KnownModes
    BY <2>1, <2>2, SetTriggerModeFacts
  <2>4. settings' \in Settings
    <3>1. CASE complete'
      <4>1. s \in Settings
        BY <2>2, <2>3, <3>1 DEF Requests, Settings
      <4> QED
        BY <2>1, <3>1, <4>1, Zenon DEF Stored
    <3>2. CASE ~complete'
      BY <2>1, <3>2, Zenon DEF Stored
    <3> QED
      BY <3>1, <3>2
  <2> QED
    BY <1>1, <2>3, <2>4, Zenon DEF WriteTrigger
<1>2. CASE WritePulses
  <2>1. PICK value \in PulseCounts :
          \/ /\ SetTriggerMode(WithPulses(value))
             /\ pulses' = IF complete' THEN value ELSE pulses
          \/ pulses' = value /\ UNCHANGED <<register, complete>>
    BY <1>2 DEF WritePulses
  <2>2. WithPulses(value) \in Requests
    BY RequestTypes DEF Settings, Requests, KnownModes
  <2>3. register' \in [Cards -> Words] /\ complete' \in BOOLEAN
    BY <2>1, <2>2, SetTriggerModeFacts
  <2>4. pulses' \in PulseCounts
    BY <2>1
  <2> QED
    BY <1>2, <2>3, <2>4, Zenon DEF WritePulses
<1>3. CASE Connect
  <2>1. PICK n \in 0 .. NumCards :
          /\ register' = Written([c \in Cards |-> Blank], n, settings)
          /\ complete' = (n = NumCards)
          /\ connected' \in {FALSE, n = NumCards}
    BY <1>3 DEF Connect
  <2>2. register' \in [Cards -> Words]
    BY <2>1, WrittenType, BlankType, RequestTypes
  <2>3. complete' \in BOOLEAN /\ connected' \in BOOLEAN
    BY <2>1, Zenon
  <2> QED
    BY <1>3, <2>2, <2>3, Zenon DEF Connect
<1>4. CASE ConnectRefused
  <2>1. register' \in [Cards -> Words]
    BY <1>4, BlankType, Zenon DEF ConnectRefused
  <2> QED
    BY <1>4, <2>1, Zenon DEF ConnectRefused
<1>5. CASE RestoreSettings
  <2>1. register' \in [Cards -> Words] /\ complete' \in BOOLEAN
    BY <1>5, RequestTypes, SetTriggerModeFacts DEF RestoreSettings
  <2> QED
    BY <1>5, <2>1, Zenon DEF RestoreSettings
<1>6. CASE Disconnect
  BY <1>6, Zenon DEF Disconnect
<1>7. CASE UNCHANGED vars
  BY <1>7, Zenon DEF vars
<1> QED
  BY <1>1, <1>2, <1>3, <1>4, <1>5, <1>6, <1>7 DEF Next

THEOREM TriggerTypes == Spec => []TypeOK
BY TypeInit, TypeStep, PTL DEF Spec

(***************************************************************************)
(* A write that is refused on the way never reaches the last of several    *)
(* cards: whatever fails, that card follows the stored parameters.         *)
(***************************************************************************)
LEMMA LastWord ==
  ASSUME NumCards > 1, NEW s
  PROVE  Word(LastCard, s) = [source |-> SRC_TTL_VETO, f0 |-> s.f0, veto |-> FALSE,
                              debounce |-> s.debounce % 256]
<1>1. LastCard # 0
  BY DEF LastCard
<1>2. (LastCard = 0 /\ s.veto) = FALSE
  BY <1>1, Zenon
<1> QED
  BY <1>1, <1>2, Zenon DEF Word

LEMMA LastCardStep == TypeOK /\ LastCardAgrees /\ [Next]_vars => LastCardAgrees'
<1> SUFFICES ASSUME TypeOK, LastCardAgrees, [Next]_vars,
                    NumCards > 1, connected', handleOk'
             PROVE  register'[LastCard] =
                      [source |-> SRC_TTL_VETO, f0 |-> settings'.f0, veto |-> FALSE,
                       debounce |-> settings'.debounce % 256]
  BY Zenon DEF LastCardAgrees
<1> LastCard \in Cards
  BY DEF LastCard, Cards
<1>1. CASE WriteTrigger
  <2>1. PICK s \in Requested : SetTriggerMode(s) /\ settings' = Stored(s)
    BY <1>1 DEF WriteTrigger
  <2>2. s \in Requests
    BY <2>1, RequestTypes DEF TypeOK
  <2>3. /\ complete' => register' = [c \in Cards |-> Word(c, s)]
        /\ ~complete' => register'[LastCard] = register[LastCard]
    BY <2>1, <2>2, SetTriggerModeFacts DEF TypeOK
  <2>4. CASE complete'
    <3>1. register'[LastCard] = Word(LastCard, s) /\ settings' = s
      BY <2>1, <2>3, <2>4, Zenon DEF Stored
    <3> QED
      BY <3>1, LastWord, Zenon
  <2>5. CASE ~complete'
    <3>1. settings' = settings
      BY <2>1, <2>5, Zenon DEF Stored
    <3>2. connected /\ handleOk
      BY <1>1, Zenon DEF WriteTrigger
    <3> QED
      BY <2>3, <2>5, <3>1, <3>2, Zenon DEF LastCardAgrees
  <2> QED
    BY <2>4, <2>5
<1>2. CASE WritePulses
  <2>1. settings' = settings /\ connected /\ handleOk
    BY <1>2, Zenon DEF WritePulses
  <2>2. PICK value \in PulseCounts :
          SetTriggerMode(WithPulses(value)) \/ register' = register
    BY <1>2, Zenon DEF WritePulses
  <2>3. CASE register' = register
    BY <2>1, <2>3, Zenon DEF LastCardAgrees
  <2>4. CASE SetTriggerMode(WithPulses(value))
    <3>1. /\ WithPulses(value) \in Requests
          /\ WithPulses(value).f0 = settings.f0
          /\ WithPulses(value).debounce = settings.debounce
      BY RequestTypes DEF TypeOK, WithPulses, Settings, Requests, KnownModes
    <3>2. /\ complete' => register' = [c \in Cards |-> Word(c, WithPulses(value))]
          /\ ~complete' => register'[LastCard] = register[LastCard]
      BY <2>4, <3>1, SetTriggerModeFacts DEF TypeOK
    <3>3. CASE complete'
      BY <2>1, <3>1, <3>2, <3>3, LastWord, Zenon
    <3>4. CASE ~complete'
      BY <2>1, <3>2, <3>4, Zenon DEF LastCardAgrees
    <3> QED
      BY <3>3, <3>4
  <2> QED
    BY <2>2, <2>3, <2>4
<1>3. CASE Connect
  <2>1. PICK n \in 0 .. NumCards :
          /\ register' = Written([c \in Cards |-> Blank], n, settings)
          /\ connected' \in {FALSE, n = NumCards}
    BY <1>3 DEF Connect
  <2>2. n = NumCards
    BY <2>1, Zenon
  <2>3. register'[LastCard] = Word(LastCard, settings)
    BY <2>1, <2>2, WrittenAll
  <2> QED
    BY <1>3, <2>3, LastWord, Zenon DEF Connect
<1>4. CASE ConnectRefused
  BY <1>4, Zenon DEF ConnectRefused
<1>5. CASE RestoreSettings
  <2>1. settings' = settings /\ connected /\ handleOk
    BY <1>5, Zenon DEF RestoreSettings
  <2>2. /\ complete' => register' = [c \in Cards |-> Word(c, settings)]
        /\ ~complete' => register'[LastCard] = register[LastCard]
    BY <1>5, RequestTypes, SetTriggerModeFacts DEF RestoreSettings, TypeOK
  <2>3. CASE complete'
    BY <2>1, <2>2, <2>3, LastWord, Zenon
  <2>4. CASE ~complete'
    BY <2>1, <2>2, <2>4, Zenon DEF LastCardAgrees
  <2> QED
    BY <2>3, <2>4
<1>6. CASE Disconnect
  BY <1>6, Zenon DEF Disconnect
<1>7. CASE UNCHANGED vars
  BY <1>7, Zenon DEF vars, LastCardAgrees
<1> QED
  BY <1>1, <1>2, <1>3, <1>4, <1>5, <1>6, <1>7 DEF Next

THEOREM LastCardFollows == Spec => []LastCardAgrees
<1>1. Init => LastCardAgrees
  BY Zenon DEF Init, LastCardAgrees
<1> QED
  BY <1>1, TriggerTypes, LastCardStep, PTL DEF Spec

(***************************************************************************)
(* With clients that set a pulse count last, a complete write leaves all   *)
(* cards as the parameters, read together, ask for.                        *)
(***************************************************************************)
LEMMA SettingsStep ==
  ASSUME PulsesLast
  PROVE  TypeOK /\ SettingsInCards /\ [Next]_vars => SettingsInCards'
<1> SUFFICES ASSUME TypeOK, SettingsInCards, [Next]_vars, complete'
             PROVE  register' = [c \in Cards |-> Word(c, Effective')]
  BY Zenon DEF SettingsInCards
<1>0. ASSUME MayWrite, UNCHANGED pulses
      PROVE  Effective' = settings'
  BY <1>0, PulsesLast DEF MayWrite, Effective, WithPulses
<1>1. CASE WriteTrigger
  <2>1. PICK s \in Requested : SetTriggerMode(s) /\ settings' = Stored(s)
    BY <1>1 DEF WriteTrigger
  <2>2. register' = [c \in Cards |-> Word(c, s)]
    BY <2>1, RequestTypes, SetTriggerModeFacts DEF TypeOK
  <2>3. settings' = s
    BY <2>1, Zenon DEF Stored
  <2>4. Effective' = settings'
    BY <1>0, <1>1 DEF WriteTrigger
  <2> QED
    BY <2>2, <2>3, <2>4, Zenon
<1>2. CASE WritePulses
  <2>1. settings' = settings
    BY <1>2 DEF WritePulses
  <2>2. CASE settings.mode = TTLVETO
    <3>1. PICK value \in PulseCounts :
            SetTriggerMode(WithPulses(value)) /\ pulses' = IF complete' THEN value ELSE pulses
      BY <1>2, <2>2, Zenon DEF WritePulses
    <3>2. WithPulses(value) \in Requests
      BY RequestTypes DEF TypeOK, Settings, Requests, KnownModes
    <3>3. register' = [c \in Cards |-> Word(c, WithPulses(value))]
      BY <3>1, <3>2, SetTriggerModeFacts DEF TypeOK
    <3>4. Effective' = WithPulses(value)
      BY <2>1, <2>2, <3>1 DEF Effective, WithPulses
    <3> QED
      BY <3>3, <3>4, Zenon
  <2>3. CASE settings.mode # TTLVETO
    <3>1. UNCHANGED <<register, complete>>
      BY <1>2, <2>3, Zenon DEF WritePulses
    <3>2. Effective' = Effective
      BY <2>1, <2>3, Zenon DEF Effective
    <3> QED
      BY <3>1, <3>2, Zenon DEF SettingsInCards
  <2> QED
    BY <2>2, <2>3
<1>3. CASE Connect
  <2>1. register' = Written([c \in Cards |-> Blank], NumCards, settings)
    BY <1>3, Zenon DEF Connect
  <2>2. Effective' = settings
    BY <1>0, <1>3 DEF Connect
  <2> QED
    BY <2>1, <2>2, WrittenAll, Zenon
<1>4. CASE ConnectRefused
  BY <1>4, Zenon DEF ConnectRefused
<1>5. CASE RestoreSettings
  <2>1. register' = [c \in Cards |-> Word(c, settings)]
    BY <1>5, RequestTypes, SetTriggerModeFacts DEF RestoreSettings, TypeOK
  <2>2. Effective' = settings
    BY <1>0, <1>5 DEF RestoreSettings
  <2> QED
    BY <2>1, <2>2, Zenon
<1>6. CASE Disconnect
  BY <1>6, Zenon DEF Disconnect, SettingsInCards, Effective, WithPulses
<1>7. CASE UNCHANGED vars
  BY <1>7, Zenon DEF vars, SettingsInCards, Effective, WithPulses
<1> QED
  BY <1>1, <1>2, <1>3, <1>4, <1>5, <1>6, <1>7 DEF Next

THEOREM CardsFollowSettings ==
  ASSUME PulsesLast
  PROVE  Spec => []SettingsInCards
<1>1. Init => SettingsInCards
  BY Zenon DEF Init, SettingsInCards
<1>2. TypeOK /\ SettingsInCards /\ [Next]_vars => SettingsInCards'
  BY SettingsStep
<1> QED
  BY <1>1, <1>2, TriggerTypes, PTL DEF Spec

(***************************************************************************)
(* For the same clients, what the next start programs is what card 0       *)
(* listens to.                                                             *)
(***************************************************************************)
LEMMA ItfgFromSettings == TypeOK /\ SettingsInCards => ItfgDrivesCards
<1> SUFFICES ASSUME TypeOK, SettingsInCards, complete
             PROVE  ItfgTrigger # "none" <=> register[0].source = SRC_INTERNAL
  BY DEF ItfgDrivesCards
<1>1. register[0].source = Source(Effective.mode)
  <2>1. 0 \in Cards
    BY DEF Cards
  <2>2. register[0] = Word(0, Effective)
    BY <2>1, Zenon DEF SettingsInCards
  <2> QED
    BY <2>2 DEF Word
<1>2. settings.mode \in 0 .. 7 /\ pulses \in Nat
  BY DEF TypeOK, Settings, KnownModes
<1>3. Effective.mode = IF settings.mode = 3 /\ pulses > 0 THEN 1 ELSE settings.mode
  BY DEF Effective, WithPulses, TypeOK, Settings, TTLVETO, INTERNAL
<1>4. Source(Effective.mode) = SRC_INTERNAL
        <=> settings.mode \in {1, 7} \/ (settings.mode = 3 /\ pulses > 0)
  BY <1>2, <1>3 DEF Source, INTERNAL, SOFTWARE_INTERNAL, SRC_INTERNAL, SRC_FIXED
<1>5. ItfgTrigger # "none"
        <=> settings.mode \in {1, 7} \/ (settings.mode = 3 /\ pulses # 0)
  BY <1>2 DEF ItfgTrigger, INTERNAL, SOFTWARE_INTERNAL, TTLVETO
<1> QED
  BY <1>1, <1>2, <1>4, <1>5

THEOREM ItfgIsListenedTo ==
  ASSUME PulsesLast
  PROVE  Spec => []ItfgDrivesCards
<1>1. Spec => []SettingsInCards
  BY CardsFollowSettings
<1> QED
  BY <1>1, TriggerTypes, ItfgFromSettings, PTL
=============================================================================
