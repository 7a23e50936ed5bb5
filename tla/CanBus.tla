------------------------------- MODULE CanBus -------------------------------
(***************************************************************************)
(* The calibration tool's access to the CAN bus: the goroutines transmit() *)
(* and receive() behind a Bus, and the clients that call Send(), Receive() *)
(* and TryReceive() on it.  They meet at unbuffered channels, so a channel *)
(* operation is one step of both sides.                                    *)
(***************************************************************************)
EXTENDS Naturals, Sequences

CONSTANTS
  Clients,   \* callers of the Bus
  MaxFrames  \* bound on the frames that arrive

ASSUME BoundsAssumption == MaxFrames \in Nat

VARIABLES
  \* The clients
  pc,         \* the call a client is in and what it waits for
  result,     \* how its last call ended
  \* transmit()
  tpc,
  client,     \* whose transmission it handles
  late,       \* the time limit of that transmission has passed
  err,        \* what it will answer
  \* receive()
  rpc,
  held,       \* the frame it has read and not handed over
  \* The Bus and the socket
  cancelled,  \* Close() has cancelled the context
  conn,       \* "open", "broken", or "closed" by Close()
  inq,        \* frames in the socket
  \* History
  onWire,     \* transmissions of a client's current or last frame
  arrived,    \* frames that have arrived
  delivered   \* frames clients received

clientVars == <<pc, result>>
txVars == <<tpc, client, late, err, onWire>>
rxVars == <<rpc, held, inq, arrived, delivered>>
busVars == <<cancelled, conn>>
vars == <<pc, result, tpc, client, late, err, onWire,
          rpc, held, inq, arrived, delivered, cancelled, conn>>

Init ==
  /\ pc = [c \in Clients |-> "idle"]
  /\ result = [c \in Clients |-> "none"]
  /\ tpc = "offer"
  /\ client \in Clients
  /\ late = FALSE
  /\ err = "none"
  /\ onWire = [c \in Clients |-> 0]
  /\ rpc = "read"
  /\ held = 0
  /\ inq = <<>>
  /\ arrived = 0
  /\ delivered = <<>>
  /\ cancelled = FALSE
  /\ conn = "open"

-----------------------------------------------------------------------------
(* Send() and transmit()                                                   *)

Go(c, from, to) ==
  /\ pc[c] = from
  /\ pc' = [pc EXCEPT ![c] = to]

Return(c, from, how) ==
  /\ Go(c, from, "idle")
  /\ result' = [result EXCEPT ![c] = how]

Send(c) ==
  /\ Go(c, "idle", "port")
  /\ result' = [result EXCEPT ![c] = "none"]
  /\ onWire' = [onWire EXCEPT ![c] = 0]
  /\ UNCHANGED <<tpc, client, late, err, rxVars, busVars>>

\* tx <- txChan meets c := <-b.tx; the channels in it are the client's alone.
TakePort(c) ==
  /\ tpc = "offer"
  /\ Go(c, "port", "request")
  /\ tpc' = "request"
  /\ client' = c
  /\ UNCHANGED <<result, late, err, onWire, rxVars, busVars>>

\* transmit() has closed tx: the client gets nil channels and waits for ever.
TakeClosedPort(c) ==
  /\ tpc = "done"
  /\ Go(c, "port", "stuck")
  /\ UNCHANGED <<result, txVars, rxVars, busVars>>

GiveRequest ==
  /\ tpc = "request"
  /\ Go(client, "request", "answer")
  /\ tpc' = "check"
  /\ late' = FALSE
  /\ UNCHANGED <<result, client, err, onWire, rxVars, busVars>>

\* The time limit of transmission.transmit()
Expire ==
  /\ tpc \in {"check", "try"}
  /\ ~late
  /\ late' = TRUE
  /\ UNCHANGED <<clientVars, tpc, client, err, onWire, rxVars, busVars>>

\* (Mutant: the time limit is not looked at between attempts.)
CheckNothing ==
  /\ tpc = "check"
  /\ tpc' = "try" /\ UNCHANGED err
  /\ UNCHANGED <<clientVars, client, late, onWire, rxVars, busVars>>

CheckLimit ==
  /\ tpc = "check"
  /\ IF late THEN tpc' = "answer" /\ err' = "failed"
             ELSE tpc' = "try" /\ UNCHANGED err
  /\ UNCHANGED <<clientVars, client, late, onWire, rxVars, busVars>>

TransmitFrame ==
  /\ tpc = "try"
  /\ UNCHANGED <<clientVars, client, late, rxVars, busVars>>

Transmitted ==
  /\ TransmitFrame
  /\ conn = "open"
  /\ onWire' = [onWire EXCEPT ![client] = @ + 1]
  /\ tpc' = "answer"
  /\ err' = "sent"

\* (Mutant: after an error of any kind the frame counts as sent.)
NoBufferIsSent ==
  /\ TransmitFrame
  /\ tpc' = "answer"
  /\ err' = "sent"
  /\ UNCHANGED onWire

\* "no buffer space available": try again.
NoBuffer ==
  /\ TransmitFrame
  /\ tpc' = "check"
  /\ UNCHANGED <<err, onWire>>

TransmitFails ==
  /\ TransmitFrame
  /\ tpc' = "answer"
  /\ err' = "failed"
  /\ UNCHANGED onWire

Answer ==
  /\ tpc = "answer"
  /\ Return(client, "answer", err)
  /\ tpc' = "offer"
  /\ UNCHANGED <<client, late, err, onWire, rxVars, busVars>>

TransmitStops ==
  /\ tpc = "offer"
  /\ cancelled
  /\ tpc' = "done"
  /\ UNCHANGED <<clientVars, client, late, err, onWire, rxVars, busVars>>

-----------------------------------------------------------------------------
(* Receive(), TryReceive() and receive()                                   *)

Receive(c) ==
  /\ Go(c, "idle", "receive")
  /\ result' = [result EXCEPT ![c] = "none"]
  /\ UNCHANGED <<txVars, rxVars, busVars>>

ReadFrame ==
  /\ rpc = "read"
  /\ conn = "open"
  /\ inq # <<>>
  /\ held' = Head(inq)
  /\ inq' = Tail(inq)
  /\ rpc' = "offer"
  /\ UNCHANGED <<clientVars, txVars, arrived, delivered, busVars>>

\* (Mutant: the error is dropped and rx closed, as after a cancellation.)
ReadFailsAndCloses ==
  /\ rpc = "read"
  /\ conn # "open"
  /\ rpc' = "done"
  /\ UNCHANGED <<clientVars, txVars, held, inq, arrived, delivered, busVars>>

\* The error goes to rxErr, which nobody reads: receive() stays there.
ReadFails ==
  /\ rpc = "read"
  /\ conn # "open"
  /\ rpc' = "error"
  /\ UNCHANGED <<clientVars, txVars, held, inq, arrived, delivered, busVars>>

\* rx <- frame meets frame := <-b.rx.
HandOver ==
  /\ rpc = "offer"
  /\ delivered' = Append(delivered, held)
  /\ rpc' = "read"
  /\ UNCHANGED <<txVars, held, inq, arrived, busVars>>

TakeFrame(c) == Return(c, "receive", "frame") /\ HandOver

\* A receive from the closed rx gives a zero frame and no error.
TakeZeroFrame(c) ==
  /\ rpc = "done"
  /\ Return(c, "receive", "zero")
  /\ UNCHANGED <<txVars, rxVars, busVars>>

\* (Mutant: the time limit takes the frame on offer with it.)
ReceiveTimesOutAndDrops(c) ==
  /\ Return(c, "receive", "timeout")
  /\ rpc' = IF rpc = "offer" THEN "read" ELSE rpc
  /\ UNCHANGED <<txVars, held, inq, arrived, delivered, busVars>>

\* Of two ready cases select takes any, so also with a frame on offer.
ReceiveTimesOut(c) ==
  /\ Return(c, "receive", "timeout")
  /\ UNCHANGED <<txVars, rxVars, busVars>>

\* The default is taken if receive() has not got to the channel with its frame.
TryReceive(c) ==
  \/ Return(c, "idle", "frame") /\ HandOver
  \/ /\ Return(c, "idle", IF rpc = "done" THEN "zero" ELSE "empty")
     /\ UNCHANGED <<txVars, rxVars, busVars>>

ReceiveStops ==
  /\ rpc = "offer"
  /\ cancelled
  /\ rpc' = "done"
  /\ UNCHANGED <<clientVars, txVars, held, inq, arrived, delivered, busVars>>

-----------------------------------------------------------------------------
(* The socket, and Close()                                                 *)

Arrive ==
  /\ conn = "open"
  /\ arrived < MaxFrames
  /\ arrived' = arrived + 1
  /\ inq' = Append(inq, arrived + 1)
  /\ UNCHANGED <<clientVars, txVars, rpc, held, delivered, busVars>>

Break ==
  /\ conn = "open"
  /\ conn' = "broken"
  /\ UNCHANGED <<clientVars, txVars, rxVars, cancelled>>

\* Close() cancels first and then closes the connection.
Cancel ==
  /\ ~cancelled
  /\ cancelled' = TRUE
  /\ UNCHANGED <<clientVars, txVars, rxVars, conn>>

CloseConn ==
  /\ cancelled
  /\ conn # "closed"
  /\ conn' = "closed"
  /\ UNCHANGED <<clientVars, txVars, rxVars, cancelled>>

Transmit == \/ GiveRequest \/ CheckLimit
            \/ Transmitted \/ NoBuffer \/ TransmitFails \/ Answer

Next ==
  \/ \E c \in Clients :
       \/ Send(c) \/ TakePort(c) \/ TakeClosedPort(c)
       \/ Receive(c) \/ TakeFrame(c) \/ TakeZeroFrame(c) \/ ReceiveTimesOut(c)
       \/ TryReceive(c)
  \/ Transmit \/ Expire \/ TransmitStops
  \/ ReadFrame \/ ReadFails \/ ReceiveStops
  \/ Arrive \/ Break \/ Cancel \/ CloseConn

Spec == Init /\ [][Next]_vars

\* The goroutine runs, the time limits expire, and of the clients that wait at
\* a channel each gets its turn, as the runtime serves them in order.
FairSpec ==
  /\ Spec
  /\ WF_vars(Transmit) /\ WF_vars(Expire)
  /\ \A c \in Clients : SF_vars(TakePort(c)) /\ WF_vars(ReceiveTimesOut(c))

-----------------------------------------------------------------------------
(* Properties                                                              *)

TypeOK ==
  /\ pc \in [Clients -> {"idle", "port", "request", "answer", "receive", "stuck"}]
  /\ result \in [Clients -> {"none", "sent", "failed", "frame", "zero", "timeout", "empty"}]
  /\ tpc \in {"offer", "request", "check", "try", "answer", "done"}
  /\ client \in Clients
  /\ late \in BOOLEAN
  /\ err \in {"none", "sent", "failed"}
  /\ onWire \in [Clients -> Nat]
  /\ rpc \in {"read", "offer", "error", "done"}
  /\ held \in Nat
  /\ inq \in Seq(Nat)
  /\ arrived \in Nat
  /\ delivered \in Seq(Nat)
  /\ cancelled \in BOOLEAN
  /\ conn \in {"open", "broken", "closed"}

\* Clients share one goroutine.  Each still gets the answer to its own frame:
\* "sent" if it went out, once, and an error if it did not, however often it was
\* tried and whatever the others send.
AnswersOwn ==
  \A c \in Clients :
    /\ onWire[c] <= 1
    /\ result[c] = "sent" => onWire[c] = 1
    /\ result[c] = "failed" => onWire[c] = 0

\* Send() on a closed Bus waits for ever, and Receive() on one may report a
\* frame that never was.  A broken connection does neither: its error is lost,
\* but with it rx stays open.
OnlyClosedMisleads ==
  \A c \in Clients : pc[c] = "stuck" \/ result[c] = "zero" => cancelled

Held == IF rpc = "offer" THEN <<held>> ELSE <<>>

FQ == INSTANCE FrameQueue WITH
        pending <- Held \o inq,
        open <- ~cancelled

\* Frames are received in order, each once, though receive() holds one that
\* nobody has asked for, calls time out with it on offer, and several clients
\* take frames in turn.
IsFrameQueue == FQ!Spec

\* While the Bus is open every call returns, if the kernel never has room for a
\* frame and if none ever arrives.
CallsReturn == \A c \in Clients : pc[c] # "idle" ~> pc[c] = "idle" \/ cancelled
=============================================================================
