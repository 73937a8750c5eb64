------------------------------ MODULE MCTrigger ------------------------------
(* An instance of the trigger registers for TLC: modes of every kind, one  *)
(* of them unknown, and a debounce time above the eight bits it is given.  *)
EXTENDS XspressTrigger

Modes       == {0, INTERNAL, TTLVETO, SOFTWARE_INTERNAL, 8}
BadDetector == {"config", "api"}
=============================================================================
