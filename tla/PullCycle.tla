----------------------------- MODULE PullCycle -----------------------------
(***************************************************************************)
(* What a manager may believe about start and stop: the node is stopped,   *)
(* running, or, after a stop, draining; a draining node hands on at most   *)
(* one more frame and then is stopped.  There is never a second worker to  *)
(* speak of.                                                               *)
(***************************************************************************)
EXTENDS Naturals

VARIABLES phase, late

Init == phase = "stopped" /\ late = 0

Begin == phase = "stopped" /\ phase' = "running" /\ late' = 0
Halt == phase = "running" /\ phase' = "draining" /\ UNCHANGED late
TakeLate == phase = "draining" /\ late = 0 /\ late' = 1 /\ UNCHANGED phase
Drained == phase = "draining" /\ phase' = "stopped" /\ UNCHANGED late

Next == Begin \/ Halt \/ TakeLate \/ Drained

Spec == Init /\ [][Next]_<<phase, late>> /\ WF_<<phase, late>>(Drained)
=============================================================================
