----------------------------- MODULE MCSigPluck -----------------------------
(***************************************************************************)
(* The instance of SigPluck for TLC: at the widths of the code, every      *)
(* start, size and byte order in a frame of every legal DLC.               *)
(***************************************************************************)
EXTENDS SigPluck
=============================================================================
