--------------------------- MODULE MCCanTransmit ---------------------------
(***************************************************************************)
(* Instance of CanTransmit for TLC: two identifiers and two bodies, so     *)
(* that a frame mixed of two others differs from both, and two retries, so *)
(* that there is a first poll, one between and a last.                     *)
(***************************************************************************)
EXTENDS CanTransmit
=============================================================================
