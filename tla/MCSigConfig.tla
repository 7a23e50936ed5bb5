---------------------------- MODULE MCSigConfig ----------------------------
(***************************************************************************)
(* Instance of SigConfig for TLC: two signals that share a page.  The high *)
(* bits of an identifier are zero or not, which is what cutting it to 11   *)
(* bits tells apart; two encodings differ in everything, so that a mix of  *)
(* two formats shows.  Of either kind of identifier there is one that the  *)
(* stored form does not keep, and there is a standard one that it keeps    *)
(* and that comes with high bits set, which the device has to drop.        *)
(***************************************************************************)
EXTENDS SigConfig

MCEncodings ==
  {ZeroEncoding, [place |-> 1, order |-> "LITTLE_ENDIAN", isSigned |-> TRUE]}

MCSent ==
  {[exide |-> TRUE, number |-> [high |-> 1, bit7 |-> FALSE]],
   [exide |-> FALSE, number |-> [high |-> 0, bit7 |-> TRUE]],
   [exide |-> FALSE, number |-> [high |-> 1, bit7 |-> FALSE]]}
=============================================================================
