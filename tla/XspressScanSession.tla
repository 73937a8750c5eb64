-------------------------- MODULE XspressScanSession --------------------------
(***************************************************************************)
(* XspressScan implements AcqSession as well: what the data task does with *)
(* the answers of the library keeps the promise that XspressAcquire keeps  *)
(* with success and failure only.  ADAcquire is not a variable of the      *)
(* scan; it reads 1 from the signal of startEvent_ to                      *)
(* setAcqStopParameters().                                                 *)
(***************************************************************************)
EXTENDS XspressScan

phaseBar == IF pc \in Session THEN "running"
            ELSE IF startEvent THEN "armed" ELSE "ready"

(* A stop is asked for while its event is set, and then being carried out. *)
askedBar == pc \in Session /\ (stopEvent \/ pc \in {"busy", "stopped"})

Promise == INSTANCE AcqSession WITH
  Wanted  <- UNION {Images[kind] : kind \in Kinds},
  phase   <- phaseBar,
  acquire <- phaseBar # "ready",
  wanted  <- set.images,
  frames  <- IF pc \in Session THEN frame ELSE 0,
  asked   <- askedBar

(***************************************************************************)
(* Whatever the detector or the simulator answers, an acquisition delivers *)
(* its frames one by one and ends with all of them or by a stop: a count   *)
(* left by the acquisition before, an event left by its stop, and a        *)
(* checkHistBusy() that fails do not get in the way.                       *)
(***************************************************************************)
ScanIsSession == Promise!Spec

(***************************************************************************)
(* And an accepted start is taken up; an accepted stop, like the last      *)
(* frame, ends the acquisition: checkHistBusy() comes back even when the   *)
(* detector never falls idle.                                              *)
(***************************************************************************)
ScanIsFairSession == Promise!FairSpec
=============================================================================
