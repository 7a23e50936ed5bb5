-------------------------- MODULE CanReceiveProofs --------------------------
(***************************************************************************)
(* Proofs about CanReceive, for any number of frames and restarts.  The    *)
(* invariants are not inductive one by one: that the ISR finds a full      *)
(* buffer rests on how INTF follows the line, and that frames differ       *)
(* rests on the order in which they arrived.  IInv holds all of it.        *)
(***************************************************************************)
EXTENDS CanReceive, TLAPS

\* The filters route control frames to RXB0 and the rest to RXB1.
Routed == \A b \in Buffers : full[b] => BufferOf(buf[b].kind) = b

\* Frames are numbered as they arrive, so the next one is new.
Numbered == \A f \in accepted : f.id <= arrivals

\* INTF stays set from the interrupt's entry until ClearFlag, and nothing sets it
\* between INTCON = 0 and INTEDG = 0.
LatchKnown == (pc \in Isr => intf) /\ (pc = "arm" => ~intf)

\* Without overlap there is one frame at a time, and the ISR knows of it.
OneAtATime ==
  ~overlap =>
    /\ lost = {}
    /\ ~(full["RXB0"] /\ full["RXB1"])
    /\ pc \in Boot \cup {"serve", "clear"} => ~IntLow
    /\ pc = "idle" /\ IntLow => intf

IInv ==
  /\ TypeOK
  /\ Routed
  /\ Numbered
  /\ LatchKnown
  /\ NoStaleWakeup
  /\ RightHandler
  /\ ExactlyOnce
  /\ OneAtATime

-----------------------------------------------------------------------------

\* The filter hit tells which buffer a frame is in.
LEMMA HitNamesBuffer ==
  ASSUME NEW kind \in Kinds
  PROVE  /\ BufferOf(kind) \in Buffers
         /\ HitOf(kind) \in 0..2
         /\ HitOf(kind) \in {0, 1} <=> BufferOf(kind) = "RXB0"
BY DEF Kinds, BufferOf, HitOf, Buffers

LEMMA NoFrameType == NoFrame \in Frame
BY DEF NoFrame, Frame, Kinds

LEMMA InitInv == ASSUME Init PROVE IInv
<1>1. TypeOK
  <2>1. pc \in Boot /\ intf \in BOOLEAN /\ overlap \in BOOLEAN
    BY DEF Init, Boot
  <2>2. full \in [Buffers -> BOOLEAN]
    BY DEF Init
  <2>3. buf \in [Buffers -> Frame] /\ frame \in Frame /\ hit \in 0..2
    BY NoFrameType DEF Init
  <2>4. /\ arrivals \in Nat /\ restarts \in Nat
        /\ accepted \subseteq Frame /\ served \subseteq Frame /\ lost \subseteq Frame
    BY DEF Init
  <2> QED
    BY <2>1, <2>2, <2>3, <2>4 DEF TypeOK
<1>2. ~IntLow
  BY DEF Init, IntLow
<1>3. Routed /\ Numbered /\ ExactlyOnce
  BY DEF Init, Routed, Numbered, ExactlyOnce, InService, InBuffer
<1>4. LatchKnown /\ NoStaleWakeup /\ RightHandler
  BY DEF Init, LatchKnown, NoStaleWakeup, RightHandler, Isr
<1>5. OneAtATime
  BY <1>2 DEF Init, OneAtATime, IntLow, Buffers
<1> QED
  BY <1>1, <1>3, <1>4, <1>5 DEF IInv

\* A restart forgets everything but the count of arrivals.
LEMMA RestartInv == ASSUME IInv, Restart PROVE IInv'
<1>1. TypeOK'
  <2>1. pc' \in Boot /\ intf' \in BOOLEAN /\ overlap' \in BOOLEAN
    BY DEF Restart, Boot
  <2>2. full' \in [Buffers -> BOOLEAN]
    BY DEF Restart
  <2>3. buf' \in [Buffers -> Frame] /\ frame' \in Frame /\ hit' \in 0..2
    BY NoFrameType DEF Restart
  <2>4. /\ arrivals' \in Nat /\ restarts' \in Nat
        /\ accepted' \subseteq Frame /\ served' \subseteq Frame /\ lost' \subseteq Frame
    BY DEF Restart, IInv, TypeOK
  <2> QED
    BY <2>1, <2>2, <2>3, <2>4 DEF TypeOK
<1>2. ~IntLow'
  BY DEF Restart, IntLow
<1>3. Routed' /\ Numbered' /\ ExactlyOnce'
  BY DEF Restart, Routed, Numbered, ExactlyOnce, InService, InBuffer
<1>4. LatchKnown' /\ NoStaleWakeup' /\ RightHandler'
  BY DEF Restart, LatchKnown, NoStaleWakeup, RightHandler, Isr
<1>5. OneAtATime'
  BY <1>2 DEF Restart, OneAtATime, IntLow, Buffers
<1> QED
  BY <1>1, <1>3, <1>4, <1>5 DEF IInv

\* Steps of main() that touch neither the frames nor the buffers.
LEMMA BootInv == ASSUME IInv, GoNormal \/ LoadOk \/ Arm PROVE IInv'
<1> USE DEF IInv, GoNormal, LoadOk, Arm, controller, history, bounds
<1>1. TypeOK'
  BY DEF TypeOK, Boot
<1>2. Routed' /\ Numbered'
  BY DEF Routed, Numbered
<1>3. LatchKnown' /\ NoStaleWakeup' /\ RightHandler'
  BY DEF TypeOK, LatchKnown, NoStaleWakeup, RightHandler, Isr, IntLow
<1>4. ExactlyOnce'
  BY DEF ExactlyOnce, InService, InBuffer
<1>5. OneAtATime'
  BY DEF OneAtATime, Boot, IntLow
<1> QED
  BY <1>1, <1>2, <1>3, <1>4, <1>5

-----------------------------------------------------------------------------

\* A frame that arrives is new to every history and every buffer.
LEMMA NextIsNew ==
  ASSUME IInv, NEW kind \in Kinds
  PROVE  /\ NextFrame(kind) \in Frame
         /\ NextFrame(kind) \notin accepted \cup served \cup InService \cup InBuffer
<1>1. NextFrame(kind) \in Frame
  BY DEF NextFrame, Frame, IInv, TypeOK
<1>2. NextFrame(kind) \notin accepted
  BY DEF NextFrame, IInv, Numbered, TypeOK, Frame
<1> QED
  BY <1>1, <1>2 DEF IInv, ExactlyOnce

LEMMA AcceptInv ==
  ASSUME IInv, NEW kind \in Kinds, Accept(kind)
  PROVE  IInv'
<1> DEFINE b == BufferOf(kind)
           new == NextFrame(kind)
<1>1. b \in Buffers /\ BufferOf(new.kind) = b
  BY HitNamesBuffer DEF NextFrame
<1>2. new \in Frame /\ new \notin accepted \cup served \cup InService \cup InBuffer
  BY NextIsNew
<1>3. new.id = arrivals + 1 /\ arrivals' = arrivals + 1 /\ arrivals \in Nat
  BY DEF NextFrame, Accept, Arrive, IInv, TypeOK
<1>4. /\ ~full[b] /\ full' = [full EXCEPT ![b] = TRUE]
      /\ buf' = [buf EXCEPT ![b] = new]
      /\ full \in [Buffers -> BOOLEAN] /\ buf \in [Buffers -> Frame]
      /\ UNCHANGED <<pc, hit, frame, restarts, served, lost>>
      /\ accepted' = accepted \cup {new}
  BY DEF Accept, IInv, TypeOK
<1>5. intf' = (intf \/ (~IntLow /\ FallingEdgeLatched))
  BY DEF Accept
<1>6. overlap' = (overlap \/ ~Quiet) /\ pc # "setup"
  BY DEF Accept, Arrive
<1>7. IntLow'
  BY <1>1, <1>4 DEF IntLow
<1> HIDE DEF b, new
<1>8. TypeOK'
  <2>1. full' \in [Buffers -> BOOLEAN]
    BY <1>1, <1>4
  <2>2. buf' \in [Buffers -> Frame]
    BY <1>1, <1>2, <1>4
  <2>3. intf' \in BOOLEAN /\ overlap' \in BOOLEAN
    BY <1>5, <1>6 DEF IInv, TypeOK
  <2>4. arrivals' \in Nat /\ accepted' \subseteq Frame
    BY <1>2, <1>3, <1>4 DEF IInv, TypeOK
  <2> QED
    BY <1>4, <2>1, <2>2, <2>3, <2>4 DEF IInv, TypeOK
<1>9. Routed'
  BY <1>1, <1>4 DEF IInv, Routed
<1>10. Numbered'
  BY <1>3, <1>4 DEF IInv, Numbered, TypeOK, Frame
<1>11. LatchKnown' /\ NoStaleWakeup'
  BY <1>4, <1>5, <1>7 DEF IInv, LatchKnown, NoStaleWakeup, Isr, FallingEdgeLatched, Boot
<1>12. RightHandler'
  <2>1. Selected' = Selected /\ Selected \in Buffers
    BY <1>4 DEF Selected, Buffers
  <2>2. pc = "read" => Selected # b
    BY <1>4 DEF IInv, RightHandler
  <2> QED
    BY <1>4, <2>1, <2>2 DEF IInv, RightHandler
<1>13. ExactlyOnce'
  <2>1. InBuffer' = InBuffer \cup {new}
    BY <1>1, <1>4 DEF InBuffer
  <2>2. InService' = InService
    BY <1>4 DEF InService
  <2>3. \A c, d \in Buffers : full'[c] /\ full'[d] /\ c # d => buf'[c] # buf'[d]
    <3>1. \A c \in Buffers : full[c] => buf[c] # new
      BY <1>2 DEF InBuffer
    <3> QED
      BY <1>1, <1>4, <3>1 DEF IInv, ExactlyOnce
  <2> QED
    BY <1>2, <1>4, <2>1, <2>2, <2>3 DEF IInv, ExactlyOnce
<1>14. OneAtATime'
  <2> SUFFICES ASSUME ~overlap' PROVE OneAtATime'
    BY DEF OneAtATime
  <2>1. ~overlap /\ pc = "idle" /\ ~IntLow
    BY <1>6 DEF Quiet
  <2>2. \A c \in Buffers : c # b => ~full'[c]
    BY <1>4, <2>1 DEF IntLow
  <2>3. intf'
    BY <1>5, <2>1 DEF FallingEdgeLatched, Boot
  <2> QED
    BY <1>4, <2>1, <2>2, <2>3 DEF IInv, OneAtATime, Buffers, Boot
<1> QED
  BY <1>8, <1>9, <1>10, <1>11, <1>12, <1>13, <1>14 DEF IInv

LEMMA OverflowInv ==
  ASSUME IInv, NEW kind \in Kinds, Overflow(kind)
  PROVE  IInv'
<1>1. /\ UNCHANGED <<pc, intf, full, buf, hit, frame, restarts, accepted, served>>
      /\ arrivals' = arrivals + 1
      /\ overlap' = (overlap \/ ~Quiet)
      /\ lost' = lost \cup {NextFrame(kind)}
  BY DEF Overflow, Arrive, controller
<1>2. overlap'
  BY HitNamesBuffer DEF Overflow, Arrive, Quiet, IntLow
<1>3. TypeOK'
  BY <1>1, <1>2, NextIsNew DEF IInv, TypeOK
<1>4. Routed' /\ LatchKnown' /\ NoStaleWakeup' /\ OneAtATime'
  BY <1>1, <1>2 DEF IInv, Routed, LatchKnown, NoStaleWakeup, OneAtATime, IntLow
<1>5. Numbered'
  BY <1>1 DEF IInv, Numbered, TypeOK, Frame
<1>6. RightHandler'
  BY <1>1 DEF IInv, RightHandler, Selected
<1>7. ExactlyOnce'
  BY <1>1 DEF IInv, ExactlyOnce, InService, InBuffer
<1> QED
  BY <1>3, <1>4, <1>5, <1>6, <1>7 DEF IInv

-----------------------------------------------------------------------------

\* Entering the ISR and leaving it.
LEMMA EnterClearInv == ASSUME IInv, Enter \/ ClearFlag PROVE IInv'
<1>1. UNCHANGED <<full, buf, hit, frame, arrivals, restarts, accepted, served, lost, overlap>>
  BY DEF Enter, ClearFlag, controller, bounds, history
<1>2. \/ pc = "idle" /\ pc' = "status" /\ intf /\ intf'
      \/ pc = "clear" /\ pc' = "idle" /\ ~intf'
  BY DEF Enter, ClearFlag
<1>3. TypeOK'
  BY <1>1, <1>2 DEF IInv, TypeOK, Isr, Enter, ClearFlag
<1>4. Routed' /\ Numbered' /\ RightHandler'
  BY <1>1, <1>2 DEF IInv, Routed, Numbered, RightHandler
<1>5. LatchKnown' /\ NoStaleWakeup' /\ OneAtATime'
  BY <1>1, <1>2 DEF IInv, LatchKnown, NoStaleWakeup, OneAtATime, Isr, Boot, IntLow
<1>6. ExactlyOnce'
  BY <1>1, <1>2 DEF IInv, ExactlyOnce, InService, InBuffer
<1> QED
  BY <1>3, <1>4, <1>5, <1>6 DEF IInv

\* RX STATUS names a full buffer and the filter that filled it.
LEMMA CheckInv == ASSUME IInv, CheckFilterHit PROVE IInv'
<1>1. /\ UNCHANGED <<intf, full, buf, frame, arrivals, restarts, accepted, served, lost, overlap>>
      /\ pc = "status" /\ pc' = "read" /\ hit' \in RxStatus
  BY DEF CheckFilterHit, controller, bounds, history
<1>2. PICK b \in Buffers : /\ full[b] /\ hit' = HitOf(buf[b].kind)
                           /\ buf[b].kind \in Kinds /\ BufferOf(buf[b].kind) = b
  <2>1. IntLow
    BY <1>1 DEF IInv, NoStaleWakeup
  <2> QED
    BY <1>1, <2>1 DEF RxStatus, IntLow, Buffers, IInv, Routed, TypeOK, Frame
<1>3. Selected' = b /\ hit' \in 0..2
  BY <1>2, HitNamesBuffer DEF Selected, Buffers
<1>4. TypeOK'
  BY <1>1, <1>3 DEF IInv, TypeOK, Isr
<1>5. RightHandler'
  BY <1>1, <1>2, <1>3 DEF RightHandler
<1>6. Routed' /\ Numbered' /\ LatchKnown' /\ NoStaleWakeup'
  BY <1>1 DEF IInv, Routed, Numbered, LatchKnown, NoStaleWakeup, Isr
<1>7. OneAtATime' /\ ExactlyOnce'
  BY <1>1 DEF IInv, OneAtATime, ExactlyOnce, InService, InBuffer, Boot, IntLow
<1> QED
  BY <1>4, <1>5, <1>6, <1>7 DEF IInv

\* The frame moves from the selected buffer into the ISR's hands.
LEMMA ReadInv == ASSUME IInv, ReadRxb PROVE IInv'
<1> DEFINE b == Selected
<1>1. /\ UNCHANGED <<intf, buf, hit, arrivals, restarts, accepted, served, lost, overlap>>
      /\ pc = "read" /\ pc' = "serve" /\ frame' = buf[b]
      /\ full' = [full EXCEPT ![b] = FALSE]
  BY DEF ReadRxb, bounds, history
<1>2. b \in Buffers /\ full[b] /\ HitOf(buf[b].kind) = hit
  BY <1>1 DEF IInv, RightHandler, Selected, Buffers
<1>3. full \in [Buffers -> BOOLEAN] /\ buf \in [Buffers -> Frame]
  BY DEF IInv, TypeOK
<1> HIDE DEF b
<1>4. TypeOK'
  BY <1>1, <1>2, <1>3 DEF IInv, TypeOK, Isr
<1>5. Routed' /\ Numbered' /\ LatchKnown' /\ NoStaleWakeup' /\ RightHandler'
  BY <1>1, <1>2, <1>3 DEF IInv, Routed, Numbered, LatchKnown, NoStaleWakeup, RightHandler, Isr
<1>6. ExactlyOnce'
  <2>1. InService = {} /\ InService' = {buf[b]}
    BY <1>1 DEF InService
  <2>2. InBuffer' = InBuffer \ {buf[b]} /\ buf[b] \in InBuffer
    BY <1>1, <1>2, <1>3 DEF InBuffer, IInv, ExactlyOnce
  <2>3. \A c, d \in Buffers : full'[c] /\ full'[d] /\ c # d => buf'[c] # buf'[d]
    BY <1>1, <1>2, <1>3 DEF IInv, ExactlyOnce
  <2> QED
    BY <1>1, <2>1, <2>2, <2>3 DEF IInv, ExactlyOnce
<1>7. OneAtATime'
  BY <1>1, <1>2, <1>3 DEF IInv, OneAtATime, Boot, IntLow, Buffers
<1> QED
  BY <1>4, <1>5, <1>6, <1>7 DEF IInv

LEMMA ServeInv == ASSUME IInv, Serve PROVE IInv'
<1>1. /\ UNCHANGED <<intf, full, buf, hit, frame, arrivals, restarts, accepted, lost, overlap>>
      /\ pc = "serve" /\ pc' = "clear" /\ served' = served \cup {frame}
  BY DEF Serve, controller, bounds
<1>2. TypeOK'
  BY <1>1 DEF IInv, TypeOK, Isr
<1>3. Routed' /\ Numbered' /\ LatchKnown' /\ NoStaleWakeup' /\ RightHandler'
  BY <1>1 DEF IInv, Routed, Numbered, LatchKnown, NoStaleWakeup, RightHandler, Isr
<1>4. ExactlyOnce'
  BY <1>1 DEF IInv, ExactlyOnce, InService, InBuffer
<1>5. OneAtATime'
  BY <1>1 DEF IInv, OneAtATime, Boot, IntLow
<1> QED
  BY <1>2, <1>3, <1>4, <1>5 DEF IInv

-----------------------------------------------------------------------------

LEMMA StepInv == ASSUME IInv, [Next]_vars PROVE IInv'
<1>1. CASE UNCHANGED vars
  BY <1>1 DEF vars, controller, IInv, TypeOK, Routed, Numbered, LatchKnown,
     NoStaleWakeup, RightHandler, Selected, ExactlyOnce, InService, InBuffer,
     OneAtATime, IntLow
<1>2. CASE LoadFails \/ PowerFails
  BY <1>2, RestartInv DEF LoadFails, PowerFails
<1> QED
  BY <1>1, <1>2, BootInv, AcceptInv, OverflowInv, EnterClearInv, CheckInv,
     ReadInv, ServeInv DEF Next, IsrStep

THEOREM Invariance == Spec => []IInv
<1>1. Init => IInv
  BY InitInv
<1>2. IInv /\ [Next]_vars => IInv'
  BY StepInv
<1> QED
  BY <1>1, <1>2, PTL DEF Spec

\* Every variable keeps its type, whatever the number of frames and restarts.
THEOREM TypeCorrect == Spec => []TypeOK
BY Invariance, PTL DEF IInv

\* isr() never starts on a CAN interrupt to find both receive buffers empty.
THEOREM WakeupsAreReal == Spec => []NoStaleWakeup
BY Invariance, PTL DEF IInv

\* The buffer the ISR reads is full and its frame is for the chosen handler,
\* although frames arrive between RX STATUS and READ RX BUFFER.
THEOREM DispatchCorrect == Spec => []RightHandler
BY Invariance, PTL DEF IInv

\* An accepted frame is in one place: a buffer, the ISR or the served ones.
THEOREM ServedExactlyOnce == Spec => []ExactlyOnce
BY Invariance, PTL DEF IInv

\* A lost wake-up or a dropped frame means that frames overlapped.
THEOREM NoLossWithoutOverlap == Spec => []OnlyOverlapHurts
<1>1. IInv => OnlyOverlapHurts
  BY DEF IInv, OneAtATime, OnlyOverlapHurts, Stalled
<1> QED
  BY <1>1, Invariance, PTL

\* A lost wake-up is final: only a restart ends the stall it causes.
THEOREM StallsLast == Spec => StallIsForever
<1>1. IInv /\ [Next]_vars => [Stalled => Stalled' \/ pc' = "setup"]_vars
  <2> SUFFICES ASSUME IInv, Next, Stalled, pc' # "setup" PROVE Stalled'
    BY DEF vars
  <2>1. pc = "idle" /\ ~intf /\ IntLow
    BY DEF Stalled
  <2>2. PICK kind \in Kinds : Accept(kind) \/ Overflow(kind)
    BY <2>1 DEF Next, GoNormal, LoadOk, Arm, LoadFails, PowerFails, Restart,
       IsrStep, Enter, CheckFilterHit, ReadRxb, Serve, ClearFlag
  <2>3. pc' = "idle" /\ ~intf'
    <3>1. CASE Accept(kind)
      BY <2>1, <3>1, Zenon DEF Accept
    <3>2. CASE Overflow(kind)
      BY <2>1, <3>2, Zenon DEF Overflow
    <3> QED
      BY <2>2, <3>1, <3>2
  <2>4. \A b \in Buffers : full[b] => full'[b]
    <3>1. full \in [Buffers -> BOOLEAN] /\ BufferOf(kind) \in Buffers
      BY HitNamesBuffer DEF IInv, TypeOK
    <3>2. full' = full \/ full' = [full EXCEPT ![BufferOf(kind)] = TRUE]
      BY <2>2 DEF Accept, Overflow, controller
    <3> QED
      BY <3>1, <3>2
  <2> QED
    BY <2>1, <2>3, <2>4 DEF Stalled, IntLow
<1> QED
  BY <1>1, Invariance, PTL DEF Spec, StallIsForever
=============================================================================
