--------------------------- MODULE MCTableLookup ---------------------------
(***************************************************************************)
(* Instance of TableLookup for TLC: three rows, so that there is one with  *)
(* neighbours on both sides; keys far enough apart to overflow differences *)
(* and products, and near enough not to.                                   *)
(***************************************************************************)
EXTENDS TableLookup
=============================================================================
