----------------------------- MODULE FrameQueue -----------------------------
(***************************************************************************)
(* What the calibration tool relies on when it receives frames: they come  *)
(* in the order in which they arrived at the socket and none comes twice;  *)
(* none is lost until the bus is closed.  Frames are numbered.             *)
(***************************************************************************)
EXTENDS Naturals, Sequences

VARIABLES
  arrived,    \* how many frames have arrived
  pending,    \* frames that arrived and were not delivered yet
  delivered,  \* frames that were, in the order of delivery
  open

vars == <<arrived, pending, delivered, open>>

Init == arrived = 0 /\ pending = <<>> /\ delivered = <<>> /\ open = TRUE

Arrive ==
  /\ arrived' = arrived + 1
  /\ pending' = Append(pending, arrived')
  /\ UNCHANGED <<delivered, open>>

Deliver ==
  /\ pending # <<>>
  /\ delivered' = Append(delivered, Head(pending))
  /\ pending' = Tail(pending)
  /\ UNCHANGED <<arrived, open>>

Close ==
  /\ open' = FALSE
  /\ UNCHANGED <<arrived, pending, delivered>>

\* What is on its way to a receiver is lost.
Discard ==
  /\ ~open
  /\ pending # <<>>
  /\ pending' = Tail(pending)
  /\ UNCHANGED <<arrived, delivered, open>>

Next == Arrive \/ Deliver \/ Close \/ Discard

Spec == Init /\ [][Next]_vars
=============================================================================
