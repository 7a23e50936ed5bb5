---------------------------- MODULE MCCanReceive ----------------------------
(***************************************************************************)
(* Instance of CanReceive for TLC.  Four frames fill both buffers and the  *)
(* ISR's hands and leave one over to be dropped; one restart shows that a  *)
(* stall ends there and that nothing of the past is left.                  *)
(***************************************************************************)
EXTENDS CanReceive

=============================================================================
