------------------------------ MODULE MCEeprom ------------------------------
(***************************************************************************)
(* Instance of Eeprom for TLC: two pages of two bytes, requests of up to   *)
(* three.  A request of three bytes covers one page and a part of another, *)
(* from the start of a page or from its middle, as a row of a calibration  *)
(* table (6 bytes) does with the pages of the chip (16 bytes).             *)
(***************************************************************************)
EXTENDS Eeprom
=============================================================================
