------------------------------ MODULE MCCanBus ------------------------------
(***************************************************************************)
(* Two clients, so that one waits while the other is served, and three     *)
(* frames: one handed over, one held by receive() and one in the socket.   *)
(***************************************************************************)
EXTENDS CanBus
=============================================================================
