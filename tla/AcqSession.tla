----------------------------- MODULE AcqSession -----------------------------
(***************************************************************************)
(* What the driver promises the client of an acquisition, with no thread,  *)
(* event or detector in sight: write ADAcquire := 1 and the frames come    *)
(* one by one, in order, until all that were wanted are out; or until a    *)
(* stop that was asked for is carried out.  ADAcquire reads 1 for exactly  *)
(* that long.                                                              *)
(***************************************************************************)
EXTENDS Integers

CONSTANT Wanted      (* The numbers ADNumImages can be set to. *)

VARIABLES
  phase,    (* "ready", "armed" once started, "running" while collecting.   *)
  acquire,  (* ADAcquire.                                                   *)
  wanted,   (* ADNumImages.                                                 *)
  frames,   (* Frames delivered in the acquisition in progress.             *)
  asked     (* A stop of the current acquisition has been accepted.         *)

vars == <<phase, acquire, wanted, frames, asked>>

Init ==
  /\ phase = "ready" /\ acquire = FALSE
  /\ wanted = 0 /\ frames = 0 /\ asked = FALSE

Configure ==
  /\ phase = "ready"
  /\ wanted' \in Wanted
  /\ UNCHANGED <<phase, acquire, frames, asked>>

Start ==
  /\ phase = "ready"
  /\ phase' = "armed" /\ acquire' = TRUE
  /\ UNCHANGED <<wanted, frames, asked>>

Collect ==
  /\ phase = "armed"
  /\ phase' = "running"
  /\ UNCHANGED <<acquire, wanted, frames, asked>>

Deliver ==
  /\ phase = "running" /\ frames < wanted
  /\ frames' = frames + 1
  /\ UNCHANGED <<phase, acquire, wanted, asked>>

AskStop ==
  /\ phase # "ready"
  /\ asked' = TRUE
  /\ UNCHANGED <<phase, acquire, wanted, frames>>

End ==
  /\ phase' = "ready" /\ acquire' = FALSE
  /\ frames' = 0 /\ asked' = FALSE
  /\ UNCHANGED wanted

Complete == phase = "running" /\ frames >= wanted /\ End
Abort    == phase = "running" /\ asked /\ End

Next == Configure \/ Start \/ Collect \/ Deliver \/ AskStop \/ Complete \/ Abort

Spec     == Init /\ [][Next]_vars
FairSpec == Spec /\ WF_vars(Collect) /\ WF_vars(Complete \/ Abort)
=============================================================================
