--------------------------- MODULE XspressSession ---------------------------
(***************************************************************************)
(* XspressAcquire implements AcqSession.  An acquisition is armed from the *)
(* signal of startEvent_ until setStartingParameters(), and runs from      *)
(* there until setAcqStopParameters().                                     *)
(***************************************************************************)
EXTENDS XspressAcquire

phaseBar == IF pc \in InSession THEN "running"
            ELSE IF Pending THEN "armed" ELSE "ready"

(* The local that counts frames means nothing between two acquisitions. *)
framesBar == IF pc \in InSession THEN frameNumber ELSE 0

Session == INSTANCE AcqSession WITH
  Wanted    <- {n \in Requests : n <= MaxFrames},
  phase     <- phaseBar,
  acquire   <- adAcquire,
  wanted    <- numImages,
  frames    <- framesBar,
  asked     <- stopAsked

(***************************************************************************)
(* For clients that start, configure and connect only while ADAcquire      *)
(* reads 0, every acquisition delivers its frames in order and ends either *)
(* with all of them or by a stop that was asked for.                       *)
(***************************************************************************)
ImplementsSession == Session!Spec

(***************************************************************************)
(* If those clients also stop only what reads Acquire, an accepted start   *)
(* is always taken up and an accepted stop always carried out.             *)
(***************************************************************************)
ImplementsFairSession == Session!FairSpec
=============================================================================
