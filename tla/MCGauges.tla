------------------------------ MODULE MCGauges ------------------------------
(***************************************************************************)
(* Frames with two and more signals, a signal that cannot be used          *)
(* ahead of one that can, the smallest and largest pulse rates on either   *)
(* side of what the timers can give, and levels up to 5 V.  TMR1 may be    *)
(* found at 0 or far beyond it when it is set again.                       *)
(***************************************************************************)
EXTENDS Gauges, TLC

MCFrames == {
  (SIG_TACH :> 229 @@ SIG_SPEED :> 10044 @@ NoFrame),
  (SIG_TACH :> 228 @@ 2 :> 4999 @@ NoFrame),
  (SIG_TACH :> Bad @@ SIG_SPEED :> 35157 @@ 3 :> 5000 @@ 4 :> 2500 @@ NoFrame),
  (SIG_TACH :> 65535 @@ SIG_SPEED :> 1 @@ NoFrame)}

MCCounts == {20000}
=============================================================================
