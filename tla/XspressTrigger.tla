---------------------------- MODULE XspressTrigger ----------------------------
(***************************************************************************)
(* The trigger parameters and the registers they are written to.           *)
(*                                                                         *)
(* A detector is a stack of cards with one timing register each.  Card 0   *)
(* listens to the source chosen by TriggerMode; every other card follows   *)
(* it through TTL veto.  Any write of a trigger parameter writes all cards *)
(* again, card after card, and stops at the first error; the parameter is  *)
(* stored only after the last card.  PulsePerTrigger, too, writes the      *)
(* register of card 0, but stores its own parameter only.                  *)
(*                                                                         *)
(* A library call that fails leaves its register as it was, and            *)
(* restore_settings loads processing registers, not this one.  The cards   *)
(* have an internal time-frame generator (has_itfg > 0).                   *)
(***************************************************************************)
EXTENDS XspressTypes

CONSTANTS
  NumCards,      (* xsp3NumCardsParam.                                      *)
  ModeValues,    (* What clients write to TriggerMode, known or not.        *)
  Debounces,     (* What clients write to DEBOUNCE.                         *)
  PulseCounts,   (* What clients write to PulsePerTrigger.                  *)
  Faults,        (* "config": it may refuse a connection; "api": any call.  *)
  PulsesLast     (* Clients set a pulse count after all else, and 0 first.  *)

ASSUME NumCardsAssumption    == NumCards \in Nat \ {0}
ASSUME ModeValuesAssumption  == ModeValues \subseteq Int
ASSUME DebouncesAssumption   == Debounces \subseteq Int /\ 0 \in Debounces
ASSUME PulseCountsAssumption == PulseCounts \subseteq Nat /\ 0 \in PulseCounts

VARIABLES
  settings,      (* TriggerMode, INVERT_F0, INVERT_VETO and DEBOUNCE.       *)
  pulses,        (* xsp3PulsePerTriggerParam.                               *)
  connected,     (* xsp3ConnectedParam.                                     *)
  handleOk,      (* The library accepts xsp3_handle_.                       *)
  register,      (* The timing register of each card.                       *)
  complete       (* History: the latest setTriggerMode() was a success, and *)
                 (* no connection was attempted since.                      *)

vars == <<settings, pulses, connected, handleOk, register, complete>>

Cards    == 0 .. NumCards - 1
LastCard == NumCards - 1

Settings == [mode : KnownModes, f0 : BOOLEAN, veto : BOOLEAN, debounce : Debounces]
Words    == [source : Sources, f0 : BOOLEAN, veto : BOOLEAN, debounce : 0 .. 255]

Init ==
  /\ settings = [mode |-> 0, f0 |-> FALSE, veto |-> FALSE, debounce |-> 0]
  /\ pulses = 0 /\ connected = FALSE /\ handleOk = FALSE
  /\ register = [c \in Cards |-> Blank] /\ complete = FALSE

(***************************************************************************)
(* setTriggerMode(): the first n cards are written.  An unknown mode is    *)
(* still written to card 0, and no further.                                *)
(***************************************************************************)
Written(registers, n, s) ==
  [c \in Cards |-> IF c < n THEN Word(c, s) ELSE registers[c]]

Reach(s) == IF s.mode \in KnownModes THEN NumCards ELSE 1

(* Mutant of Succeeded: an unknown mode goes through like a known one. *)
SucceededAnyMode(n, s) == n = Reach(s)

Succeeded(n, s) == n = NumCards /\ s.mode \in KnownModes

CardsWritten(s) ==
  IF ~handleOk THEN {0}
  ELSE {n \in 0 .. NumCards : n = Reach(s) \/ ("api" \in Faults /\ n < Reach(s))}

SetTriggerMode(s) ==
  \E n \in CardsWritten(s) :
    /\ register' = Written(register, n, s)
    /\ complete' = Succeeded(n, s)

(***************************************************************************)
(* Writes of the four trigger parameters.                                  *)
(***************************************************************************)
MayWrite == ~PulsesLast \/ pulses = 0

Requested ==
  {[settings EXCEPT !.mode = m] : m \in ModeValues}
  \union {[settings EXCEPT !.f0 = b] : b \in BOOLEAN}
  \union {[settings EXCEPT !.veto = b] : b \in BOOLEAN}
  \union {[settings EXCEPT !.debounce = d] : d \in Debounces}

(* Mutant of Stored: the parameter is stored before the cards answer. *)
StoredAnyway(s) == s

Stored(s) == IF complete' THEN s ELSE settings

WriteTrigger ==
  /\ MayWrite /\ connected
  /\ \E s \in Requested : SetTriggerMode(s) /\ settings' = Stored(s)
  /\ UNCHANGED <<pulses, connected, handleOk>>

(***************************************************************************)
(* A write of PulsePerTrigger.  In TTL veto mode a positive count turns    *)
(* card 0 over to its time-frame generator, 0 turns it back.  There is no  *)
(* check of the connection.                                                *)
(***************************************************************************)
WithPulses(value) == IF value > 0 THEN [settings EXCEPT !.mode = INTERNAL] ELSE settings

(* Mutant of WritePulses: a count of 0 is stored and nothing is reset. *)
WritePulsesNoReset ==
  /\ \E value \in PulseCounts :
       \/ /\ settings.mode = TTLVETO /\ value > 0
          /\ SetTriggerMode(WithPulses(value))
          /\ pulses' = IF complete' THEN value ELSE pulses
       \/ /\ settings.mode # TTLVETO \/ value = 0
          /\ pulses' = value /\ UNCHANGED <<register, complete>>
  /\ UNCHANGED <<settings, connected, handleOk>>

WritePulses ==
  /\ \E value \in PulseCounts :
       \/ /\ settings.mode = TTLVETO
          /\ SetTriggerMode(WithPulses(value))
          /\ pulses' = IF complete' THEN value ELSE pulses
       \/ /\ settings.mode # TTLVETO
          /\ pulses' = value /\ UNCHANGED <<register, complete>>
  /\ UNCHANGED <<settings, connected, handleOk>>

(***************************************************************************)
(* connect() ends in restoreSettings(), which writes the trigger mode      *)
(* after its other stages: it may stop before, on the way, or after it.    *)
(* Only a complete restore leaves the driver connected.                    *)
(***************************************************************************)
Connect ==
  /\ MayWrite
  /\ \E n \in 0 .. NumCards :
       /\ register'  = Written([c \in Cards |-> Blank], n, settings)
       /\ complete'  = (n = NumCards)
       /\ connected' \in {FALSE, n = NumCards}
  /\ handleOk' = TRUE
  /\ UNCHANGED <<settings, pulses>>

(* xsp3_config fails: the parameter Connected keeps its value. *)
ConnectRefused ==
  /\ MayWrite /\ "config" \in Faults
  /\ handleOk' = FALSE /\ complete' = FALSE
  /\ register' \in {register, [c \in Cards |-> Blank]}
  /\ UNCHANGED <<settings, pulses, connected>>

(* A restore that stops before the trigger mode changes nothing here. *)
RestoreSettings ==
  /\ MayWrite /\ connected
  /\ SetTriggerMode(settings)
  /\ UNCHANGED <<settings, pulses, connected, handleOk>>

(* xsp3_close; if it fails the handle may still be good. *)
Disconnect ==
  /\ connected
  /\ connected' = FALSE
  /\ \/ handleOk' = FALSE
     \/ "api" \in Faults /\ UNCHANGED handleOk
  /\ UNCHANGED <<settings, pulses, register, complete>>

Next ==
  \/ WriteTrigger \/ WritePulses \/ Connect \/ ConnectRefused
  \/ RestoreSettings \/ Disconnect

Spec == Init /\ [][Next]_vars

(***************************************************************************)
(* Properties.                                                             *)
(***************************************************************************)

(* Shapes; a trigger mode that is stored is one the driver knows. *)
TypeOK ==
  /\ settings \in Settings
  /\ pulses \in PulseCounts
  /\ connected \in BOOLEAN /\ handleOk \in BOOLEAN /\ complete \in BOOLEAN
  /\ register \in [Cards -> Words]

(***************************************************************************)
(* After a successful write the registers hold what the parameters, read   *)
(* together, ask for, whatever was written, refused or reset before:       *)
(* card 0 the chosen source, or its generator when pulses are counted.     *)
(***************************************************************************)
Effective == IF settings.mode = TTLVETO THEN WithPulses(pulses) ELSE settings
SettingsInCards == complete => register = [c \in Cards |-> Word(c, Effective)]

(***************************************************************************)
(* What setupITFG() programs when an acquisition starts goes by TriggerMode*)
(* and PulsePerTrigger; what card 0 listens to was written earlier.  After *)
(* a successful write the two agree: the generator is programmed exactly   *)
(* if card 0 takes its frames from it.                                     *)
(***************************************************************************)
ItfgTrigger ==
  CASE settings.mode = SOFTWARE_INTERNAL       -> "SOFTWARE"
    [] settings.mode = INTERNAL                -> "BURST"
    [] settings.mode = TTLVETO /\ pulses # 0   -> "HARDWARE"
    [] OTHER                                   -> "none"

ItfgDrivesCards ==
  complete => (ItfgTrigger # "none" <=> register[0].source = SRC_INTERNAL)

(***************************************************************************)
(* A write that is refused on the way disturbs leading cards only: while   *)
(* connected, the last of several cards follows the stored parameters.     *)
(***************************************************************************)
LastCardAgrees ==
  NumCards > 1 /\ connected /\ handleOk =>
    register[LastCard] = [source   |-> SRC_TTL_VETO, f0 |-> settings.f0, veto |-> FALSE,
                          debounce |-> settings.debounce % 256]
=============================================================================
