---------------------------- MODULE CanBusProofs ----------------------------
(***************************************************************************)
(* Proofs about CanBus, for any clients and any number of frames.  That a  *)
(* client gets its own answer rests on the meeting at the channels: while  *)
(* transmit() works for a client, that client and no other waits for it.   *)
(***************************************************************************)
EXTENDS CanBus, SequenceTheorems, TLAPS

Transmitting == {"check", "try", "answer"}

\* transmit() and the client it works for agree on how far they are.
InTouch ==
  /\ tpc = "request" => pc[client] = "request"
  /\ tpc \in Transmitting => pc[client] = "answer"
  /\ \A c \in Clients :
       /\ pc[c] = "request" => client = c /\ tpc = "request"
       /\ pc[c] = "answer" => client = c /\ tpc \in Transmitting

\* What is on the wire of the frame a client waits for.
OnWire ==
  /\ \A c \in Clients :
       /\ pc[c] # "idle" => result[c] = "none"
       /\ pc[c] \in {"port", "request"} => onWire[c] = 0
  /\ tpc \in {"check", "try"} => onWire[client] = 0
  /\ tpc = "answer" => \/ err = "sent" /\ onWire[client] = 1
                       \/ err = "failed" /\ onWire[client] = 0

\* A goroutine that has returned was told to.
Told == tpc = "done" \/ rpc = "done" => cancelled

IInv ==
  /\ TypeOK
  /\ InTouch
  /\ OnWire
  /\ AnswersOwn
  /\ Told
  /\ OnlyClosedMisleads

USE DEF Transmitting, clientVars, txVars, rxVars, busVars

LEMMA Initially == Init => IInv
<1> SUFFICES ASSUME Init PROVE IInv
  OBVIOUS
<1>1. TypeOK
  <2>1. inq \in Seq(Nat) /\ delivered \in Seq(Nat)
    BY DEF Init
  <2>2. /\ pc \in [Clients -> {"idle", "port", "request", "answer", "receive", "stuck"}]
        /\ result \in [Clients -> {"none", "sent", "failed", "frame", "zero", "timeout", "empty"}]
        /\ onWire \in [Clients -> Nat]
    BY DEF Init
  <2> QED
    BY <2>1, <2>2 DEF Init, TypeOK
<1>2. InTouch /\ OnWire /\ AnswersOwn /\ Told /\ OnlyClosedMisleads
  BY SMT DEF Init, InTouch, OnWire, AnswersOwn, Told, OnlyClosedMisleads
<1> QED
  BY <1>1, <1>2 DEF IInv

-----------------------------------------------------------------------------
(* Sending                                                                 *)

LEMMA SendKeeps ==
  ASSUME IInv, NEW c \in Clients, Send(c) \/ TakePort(c) \/ TakeClosedPort(c)
  PROVE  IInv'
<1> USE DEF Send, TakePort, TakeClosedPort, Go, IInv
<1>1. TypeOK'
  <2>1. CASE Send(c)
    BY <2>1 DEF TypeOK
  <2>2. CASE TakePort(c) \/ TakeClosedPort(c)
    BY <2>2 DEF TypeOK
  <2> QED
    BY <2>1, <2>2
<1>2. InTouch'
  BY DEF TypeOK, InTouch
<1>3. OnWire' /\ AnswersOwn'
  BY DEF TypeOK, InTouch, OnWire, AnswersOwn
<1>4. Told' /\ OnlyClosedMisleads'
  BY DEF TypeOK, Told, OnlyClosedMisleads
<1> QED
  BY <1>1, <1>2, <1>3, <1>4

LEMMA TransmitKeeps ==
  ASSUME IInv, GiveRequest \/ Expire \/ CheckLimit \/ TransmitStops
  PROVE  IInv'
<1> USE DEF GiveRequest, Expire, CheckLimit, TransmitStops, Go, IInv
<1>1. TypeOK'
  BY DEF TypeOK
<1>2. InTouch'
  BY DEF TypeOK, InTouch
<1>3. OnWire' /\ AnswersOwn'
  BY DEF TypeOK, InTouch, OnWire, AnswersOwn
<1>4. Told' /\ OnlyClosedMisleads'
  BY DEF TypeOK, Told, OnlyClosedMisleads
<1> QED
  BY <1>1, <1>2, <1>3, <1>4

LEMMA FrameKeeps ==
  ASSUME IInv, Transmitted \/ NoBuffer \/ TransmitFails
  PROVE  IInv'
<1> USE DEF Transmitted, NoBuffer, TransmitFails, TransmitFrame, IInv
<1>1. TypeOK'
  BY DEF TypeOK
<1>2. InTouch'
  BY DEF TypeOK, InTouch
<1>3. OnWire' /\ AnswersOwn'
  BY DEF TypeOK, InTouch, OnWire, AnswersOwn
<1>4. Told' /\ OnlyClosedMisleads'
  BY DEF TypeOK, Told, OnlyClosedMisleads
<1> QED
  BY <1>1, <1>2, <1>3, <1>4

LEMMA AnswerKeeps == IInv /\ Answer => IInv'
<1> SUFFICES ASSUME IInv, Answer PROVE IInv'
  OBVIOUS
<1> USE DEF Answer, Return, Go, IInv
<1>1. TypeOK'
  BY DEF TypeOK
<1>2. InTouch'
  BY DEF TypeOK, InTouch
<1>3. OnWire' /\ AnswersOwn'
  BY DEF TypeOK, InTouch, OnWire, AnswersOwn
<1>4. Told' /\ OnlyClosedMisleads'
  BY DEF TypeOK, Told, OnlyClosedMisleads, OnWire
<1> QED
  BY <1>1, <1>2, <1>3, <1>4

-----------------------------------------------------------------------------
(* Receiving, the socket and Close()                                       *)

LEMMA ReceiveKeeps ==
  ASSUME IInv, NEW c \in Clients,
         Receive(c) \/ TakeFrame(c) \/ TakeZeroFrame(c) \/ ReceiveTimesOut(c) \/ TryReceive(c)
  PROVE  IInv'
<1> USE DEF Receive, TakeFrame, TakeZeroFrame, ReceiveTimesOut, TryReceive, HandOver,
            Return, Go, IInv
<1>1. TypeOK'
  <2>1. CASE Receive(c) \/ TakeZeroFrame(c) \/ ReceiveTimesOut(c)
    BY <2>1 DEF TypeOK
  <2>2. CASE HandOver
    <3>1. delivered' \in Seq(Nat)
      BY <2>2, AppendProperties DEF TypeOK
    <3>2. pc' \in [Clients -> {"idle", "port", "request", "answer", "receive", "stuck"}]
      BY DEF TypeOK
    <3>3. result' \in [Clients -> {"none", "sent", "failed", "frame", "zero", "timeout", "empty"}]
      BY DEF TypeOK
    <3> QED
      BY <2>2, <3>1, <3>2, <3>3 DEF TypeOK
  <2>3. CASE TryReceive(c) /\ ~HandOver
    BY <2>3 DEF TypeOK
  <2> QED
    BY <2>1, <2>2, <2>3
<1>2. InTouch'
  BY DEF TypeOK, InTouch
<1>3. OnWire' /\ AnswersOwn'
  BY DEF TypeOK, InTouch, OnWire, AnswersOwn
<1>4. Told' /\ OnlyClosedMisleads'
  BY DEF TypeOK, Told, OnlyClosedMisleads
<1> QED
  BY <1>1, <1>2, <1>3, <1>4

LEMMA SocketKeeps ==
  ASSUME IInv,
         \/ ReadFrame \/ ReadFails \/ ReceiveStops
         \/ Arrive \/ Break \/ Cancel \/ CloseConn
  PROVE  IInv'
<1> USE DEF ReadFrame, ReadFails, ReceiveStops, Arrive, Break, Cancel, CloseConn, IInv
<1>1. TypeOK'
  <2>1. CASE ReadFrame
    <3>1. Head(inq) \in Nat /\ Tail(inq) \in Seq(Nat)
      BY <2>1, HeadTailProperties DEF TypeOK
    <3> QED
      BY <2>1, <3>1 DEF TypeOK
  <2>2. CASE Arrive
    <3>1. arrived + 1 \in Nat
      BY DEF TypeOK
    <3>2. Append(inq, arrived + 1) \in Seq(Nat)
      BY <3>1, AppendProperties DEF TypeOK
    <3> QED
      BY <2>2, <3>1, <3>2 DEF TypeOK
  <2>3. CASE ReadFails \/ ReceiveStops \/ Break \/ Cancel \/ CloseConn
    BY <2>3 DEF TypeOK
  <2> QED
    BY <2>1, <2>2, <2>3
<1>2. InTouch' /\ OnWire' /\ AnswersOwn'
  BY DEF InTouch, OnWire, AnswersOwn
<1>3. Told' /\ OnlyClosedMisleads'
  BY DEF TypeOK, Told, OnlyClosedMisleads
<1> QED
  BY <1>1, <1>2, <1>3

LEMMA StepKeeps == IInv /\ [Next]_vars => IInv'
<1> SUFFICES ASSUME IInv, [Next]_vars PROVE IInv'
  OBVIOUS
<1>1. CASE UNCHANGED vars
  BY <1>1 DEF vars, IInv, TypeOK, InTouch, OnWire, AnswersOwn, Told, OnlyClosedMisleads
<1>2. ASSUME NEW c \in Clients,
             \/ Send(c) \/ TakePort(c) \/ TakeClosedPort(c)
             \/ Receive(c) \/ TakeFrame(c) \/ TakeZeroFrame(c) \/ ReceiveTimesOut(c) \/ TryReceive(c)
      PROVE  IInv'
  BY <1>2, SendKeeps, ReceiveKeeps
<1>3. CASE GiveRequest \/ Expire \/ CheckLimit \/ TransmitStops
  BY <1>3, TransmitKeeps
<1>4. CASE Transmitted \/ NoBuffer \/ TransmitFails \/ Answer
  BY <1>4, FrameKeeps, AnswerKeeps
<1>5. CASE \/ ReadFrame \/ ReadFails \/ ReceiveStops
           \/ Arrive \/ Break \/ Cancel \/ CloseConn
  BY <1>5, SocketKeeps
<1> QED
  BY <1>1, <1>2, <1>3, <1>4, <1>5 DEF Next, Transmit

-----------------------------------------------------------------------------
(* Frames in order                                                         *)

LEMMA Queued ==
  ASSUME TypeOK
  PROVE  Held \o inq = IF rpc = "offer" THEN <<held>> \o inq ELSE inq
BY DEF TypeOK, Held

\* Taking a frame off the socket to hold it, and giving away the one held.
LEMMA Holding ==
  ASSUME NEW q \in Seq(Nat), NEW f \in Nat
  PROVE  /\ <<f>> \o q # <<>> /\ Head(<<f>> \o q) = f /\ Tail(<<f>> \o q) = q
         /\ q # <<>> => <<Head(q)>> \o Tail(q) = q
BY HeadTailProperties

LEMMA InitRefines == ASSUME Init PROVE FQ!Init
<1>1. Held \o inq = <<>>
  BY DEF Init, Held
<1> QED
  BY <1>1 DEF Init, FQ!Init

\* What leaves the frames and the bus alone is no step of the queue.
LEMMA Apart ==
  ASSUME UNCHANGED <<rxVars, cancelled>>
  PROVE  UNCHANGED FQ!vars
BY DEF FQ!vars, Held

LEMMA HandOverRefines == ASSUME TypeOK, HandOver PROVE FQ!Deliver
<1>1. inq \in Seq(Nat) /\ held \in Nat /\ rpc = "offer" /\ rpc' = "read"
  BY DEF TypeOK, HandOver
<1>2. Held \o inq = <<held>> \o inq /\ (Held \o inq)' = inq
  BY <1>1 DEF Held, HandOver
<1> QED
  BY <1>1, <1>2, Holding DEF HandOver, FQ!Deliver

LEMMA ReceiveRefines ==
  ASSUME TypeOK, NEW c \in Clients,
         Receive(c) \/ TakeFrame(c) \/ TakeZeroFrame(c) \/ ReceiveTimesOut(c) \/ TryReceive(c)
  PROVE  [FQ!Next]_(FQ!vars)
<1>1. HandOver \/ UNCHANGED <<rxVars, cancelled>>
  BY DEF Receive, TakeFrame, TakeZeroFrame, ReceiveTimesOut, TryReceive
<1> QED
  BY <1>1, HandOverRefines, Apart DEF FQ!Next

LEMMA ReadRefines == ASSUME TypeOK, ReadFrame \/ ReadFails PROVE UNCHANGED FQ!vars
<1>1. inq \in Seq(Nat)
  BY DEF TypeOK
<1>2. CASE ReadFrame
  <2>1. Held \o inq = inq /\ (Held \o inq)' = <<Head(inq)>> \o Tail(inq)
    BY <1>1, <1>2 DEF ReadFrame, Held
  <2> QED
    BY <1>1, <1>2, <2>1, Holding, HeadTailProperties DEF ReadFrame, FQ!vars
<1>3. CASE ReadFails
  <2>1. Held' = Held
    BY <1>3 DEF ReadFails, Held
  <2> QED
    BY <1>3, <2>1 DEF ReadFails, FQ!vars
<1> QED
  BY <1>2, <1>3

LEMMA StopRefines == ASSUME TypeOK, ReceiveStops PROVE FQ!Discard
<1>1. inq \in Seq(Nat) /\ held \in Nat /\ rpc = "offer" /\ rpc' = "done"
  BY DEF TypeOK, ReceiveStops
<1>2. Held \o inq = <<held>> \o inq /\ (Held \o inq)' = inq
  BY <1>1 DEF Held, ReceiveStops
<1> QED
  BY <1>1, <1>2, Holding DEF ReceiveStops, FQ!Discard

LEMMA ArriveRefines == ASSUME TypeOK, Arrive PROVE FQ!Arrive
<1>1. inq \in Seq(Nat) /\ Held \in Seq(Nat) /\ arrived + 1 \in Nat
  BY DEF TypeOK, Held
<1>2. (Held \o inq)' = Held \o Append(inq, arrived + 1)
  BY DEF Arrive, Held
<1>3. Held \o Append(inq, arrived + 1) = Append(Held \o inq, arrived + 1)
  BY <1>1
<1> QED
  BY <1>2, <1>3 DEF Arrive, FQ!Arrive

LEMMA StepRefines == ASSUME IInv, [Next]_vars PROVE [FQ!Next]_(FQ!vars)
<1>0. TypeOK
  BY DEF IInv
<1>1. CASE UNCHANGED vars
  BY <1>1, Apart DEF vars
<1>2. ASSUME NEW c \in Clients, Send(c) \/ TakePort(c) \/ TakeClosedPort(c)
      PROVE  UNCHANGED <<rxVars, cancelled>>
  BY <1>2 DEF Send, TakePort, TakeClosedPort
<1>3. ASSUME NEW c \in Clients,
             Receive(c) \/ TakeFrame(c) \/ TakeZeroFrame(c) \/ ReceiveTimesOut(c) \/ TryReceive(c)
      PROVE  [FQ!Next]_(FQ!vars)
  BY <1>0, <1>3, ReceiveRefines
<1>4. ASSUME Transmit \/ Expire \/ TransmitStops \/ Break \/ CloseConn
      PROVE  UNCHANGED <<rxVars, cancelled>>
  BY <1>4 DEF Transmit, GiveRequest, CheckLimit, Transmitted, NoBuffer, TransmitFails,
              TransmitFrame, Answer, Expire, TransmitStops, Break, CloseConn
<1>5. CASE ReadFrame \/ ReadFails \/ ReceiveStops \/ Arrive
  BY <1>0, <1>5, ReadRefines, StopRefines, ArriveRefines DEF FQ!Next
<1>6. CASE Cancel
  <2>1. FQ!Close
    BY <1>6 DEF Cancel, FQ!Close, Held
  <2> QED
    BY <2>1 DEF FQ!Next
<1> QED
  BY <1>1, <1>2, <1>3, <1>4, <1>5, <1>6, Apart DEF Next

-----------------------------------------------------------------------------
(* Theorems                                                                *)

\* The invariant the rest follows from, for any clients.
THEOREM Invariance == Spec => []IInv
<1>1. Init => IInv
  BY Initially
<1>2. IInv /\ [Next]_vars => IInv'
  BY StepKeeps
<1> QED
  BY <1>1, <1>2, PTL DEF Spec

THEOREM TypeCorrect == Spec => []TypeOK
<1>1. IInv => TypeOK
  BY DEF IInv
<1> QED
  BY <1>1, Invariance, PTL

\* However many clients send at once, each hears of its own frame what happened
\* to it, and no frame goes out twice for all the attempts.
THEOREM AnswersAreOwn == Spec => []AnswersOwn
<1>1. IInv => AnswersOwn
  BY DEF IInv
<1> QED
  BY <1>1, Invariance, PTL

\* No client is stuck for ever or given a frame that never was, before Close().
THEOREM OpenBusIsTrue == Spec => []OnlyClosedMisleads
<1>1. IInv => OnlyClosedMisleads
  BY DEF IInv
<1> QED
  BY <1>1, Invariance, PTL

\* The goroutine, its channel and its clients together are a queue of frames.
THEOREM Refinement == Spec => IsFrameQueue
<1>1. Init => FQ!Init
  BY InitRefines
<1>2. IInv /\ [Next]_vars => [FQ!Next]_(FQ!vars)
  BY StepRefines
<1> QED
  BY <1>1, <1>2, Invariance, PTL DEF Spec, IsFrameQueue, FQ!Spec
=============================================================================
