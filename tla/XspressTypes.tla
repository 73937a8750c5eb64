----------------------------- MODULE XspressTypes -----------------------------
(***************************************************************************)
(* What the driver and the detector library exchange: trigger modes and    *)
(* timing-register words, handles, and the answer of a library call.       *)
(***************************************************************************)
EXTENDS Integers

(* mbboTrigger*_ of the driver and XSP3_GTIMA_SRC_* of the library. *)
INTERNAL == 1
TTLVETO  == 3
SOFTWARE_INTERNAL == 7
KnownModes  == 0 .. 7

SRC_FIXED    == 0
SRC_INTERNAL == 1
SRC_TTL_VETO == 4
Sources      == 0 .. 7

(***************************************************************************)
(* mapTriggerMode(): the register's value.  "Software + Internal" is       *)
(* INTERNAL for the card; an unknown mode is an error that has already     *)
(* been mapped to FIXED.  The debounce field has eight bits.               *)
(***************************************************************************)
(* Mutant of Source: mode 7 is passed on as it is. *)
SourceAsIs(mode) ==
  IF mode \in 2 .. 7 THEN (IF mode = 7 THEN 7 ELSE mode + 1)
  ELSE IF mode = INTERNAL THEN SRC_INTERNAL ELSE SRC_FIXED

Source(mode) ==
  IF mode \in {INTERNAL, SOFTWARE_INTERNAL} THEN SRC_INTERNAL
  ELSE IF mode \in 2 .. 6 THEN mode + 1 ELSE SRC_FIXED

(* Card 0 takes the chosen source; every other card follows it. *)
Word(card, s) ==
  [source   |-> IF card = 0 THEN Source(s.mode) ELSE SRC_TTL_VETO,
   f0       |-> s.f0,
   veto     |-> card = 0 /\ s.veto,
   debounce |-> s.debounce % 256]

(* A register after xsp3_config. *)
Blank == [source |-> SRC_FIXED, f0 |-> FALSE, veto |-> FALSE, debounce |-> 0]

(***************************************************************************)
(* Handles and answers.  A call that fails writes nothing to its caller's  *)
(* variables: its value is empty.                                          *)
(***************************************************************************)
NoPath      == -1   (* A negative handle is an error code.                   *)
LibraryPath == 0    (* The path of the only system.                          *)

Answer(status, value, d) == [status |-> status, value |-> value, dev |-> d]
=============================================================================
