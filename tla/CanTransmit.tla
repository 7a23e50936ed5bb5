---------------------------- MODULE CanTransmit ----------------------------
(***************************************************************************)
(* Transmission of CAN frames by the gauge interface: canTx(), which fills *)
(* the registers of transmit buffer 0, requests the transmission and polls *)
(* for its end, and the MCP2515, which tries to send what is in the        *)
(* registers for as long as the request stands, whatever canTx() does      *)
(* meanwhile.  A frame that has to wait longer than canTx() does is still  *)
(* requested when the next call starts.                                    *)
(***************************************************************************)
EXTENDS Naturals, Sequences

CONSTANTS
  Ids,        \* identifiers of the frames the device sends
  Bodies,     \* what may follow: DLC, RTR and DATA FIELD
  TX_RETRIES  \* polls after the first

ASSUME FramesAssumption == Ids # {} /\ Bodies # {}
ASSUME RetriesAssumption == TX_RETRIES \in Nat

VARIABLES
  \* The PIC
  pc,       \* "idle", or what canTx() does next
  call,     \* the frame of the current or last call
  k,        \* polls so far
  result,   \* what canTx() returned, "none" while it runs
  \* The controller
  txb,      \* the registers of the buffer
  txreq,    \* TXREQ: transmission is requested
  txerr,    \* TXERR: an attempt ended in a bus error
  attempt,  \* the fields of the frame that are on the bus so far
  \* History
  sent,     \* how many frames were transmitted since the call started
  last,     \* the last of them
  clean     \* nothing was left over from earlier calls when it started

pic == <<pc, call, k, result>>
controller == <<txb, txreq, txerr, attempt>>
history == <<sent, last, clean>>
vars == <<pc, call, k, result, txb, txreq, txerr, attempt, sent, last, clean>>

Frames == Ids \X Bodies
NoFrame == <<>>

Init ==
  /\ pc = "idle"
  /\ call = NoFrame
  /\ k = 0
  /\ result = "none"
  /\ txb \in Frames
  /\ txreq = FALSE
  /\ txerr = FALSE
  /\ attempt = <<>>
  /\ sent = 0
  /\ last = NoFrame
  /\ clean = TRUE

-----------------------------------------------------------------------------
(* canTx()                                                                 *)

\* A handler sends a response, or isr() the error frame for one that failed.
Call(f) ==
  /\ pc = "idle"
  /\ pc' = "id"
  /\ call' = f
  /\ k' = 0
  /\ result' = "none"
  /\ sent' = 0
  /\ last' = NoFrame
  /\ clean' = (~txreq /\ attempt = <<>>)
  /\ UNCHANGED controller

\* (Mutant: the frame is taken to be a remote one, without data.)
WriteIdOnly ==
  /\ pc = "id"
  /\ pc' = "request"
  /\ txb' = <<call[1], txb[2]>>
  /\ UNCHANGED <<call, k, result, txreq, txerr, attempt, history>>

\* writeId()
WriteId ==
  /\ pc = "id"
  /\ pc' = "body"
  /\ txb' = <<call[1], txb[2]>>
  /\ UNCHANGED <<call, k, result, txreq, txerr, attempt, history>>

\* DLC and RTR, and the data registers.
WriteBody ==
  /\ pc = "body"
  /\ pc' = "request"
  /\ txb' = <<txb[1], call[2]>>
  /\ UNCHANGED <<call, k, result, txreq, txerr, attempt, history>>

\* Setting TXREQ clears TXERR, or not if the bit was set already.
RequestToSend ==
  /\ pc = "request"
  /\ pc' = "poll"
  /\ txreq' = TRUE
  /\ txerr' \in (IF txreq THEN {txerr, FALSE} ELSE {FALSE})
  /\ UNCHANGED <<call, k, result, txb, attempt, history>>

Return(status) ==
  /\ pc' = "idle"
  /\ result' = status
  /\ UNCHANGED <<call, k>>

PollError ==
  /\ pc = "poll"
  /\ txerr
  /\ pc' = "cancel"
  /\ UNCHANGED <<call, k, result, controller, history>>

\* (Mutant: only the error is looked for.)
PollNoError ==
  /\ pc = "poll"
  /\ ~txerr
  /\ Return("OK")
  /\ UNCHANGED <<controller, history>>

PollSent ==
  /\ pc = "poll"
  /\ ~txerr /\ ~txreq
  /\ Return("OK")
  /\ UNCHANGED <<controller, history>>

\* (Mutant: there is no limit to the retries.)
PollForever ==
  /\ pc = "poll"
  /\ ~txerr /\ txreq
  /\ UNCHANGED vars

PollPending ==
  /\ pc = "poll"
  /\ ~txerr /\ txreq
  /\ k < TX_RETRIES
  /\ k' = k + 1
  /\ UNCHANGED <<pc, call, result, controller, history>>

\* The last poll finds the transmission pending; the request is not taken back.
PollGivesUp ==
  /\ pc = "poll"
  /\ ~txerr /\ txreq
  /\ k = TX_RETRIES
  /\ Return("FAIL")
  /\ UNCHANGED <<controller, history>>

\* (Mutant: the request stands after an error.)
CancelNothing ==
  /\ pc = "cancel"
  /\ Return("FAIL")
  /\ UNCHANGED <<controller, history>>

\* Clearing TXREQ keeps the controller from another attempt.
Cancel ==
  /\ pc = "cancel"
  /\ txreq' = FALSE
  /\ Return("FAIL")
  /\ UNCHANGED <<txb, txerr, attempt, history>>

-----------------------------------------------------------------------------
(* The controller                                                          *)

StartAttempt ==
  /\ txreq
  /\ attempt = <<>>
  /\ attempt' = <<txb[1]>>
  /\ UNCHANGED <<pic, txb, txreq, txerr, history>>

\* The identifier has won the arbitration.
GoOn ==
  /\ Len(attempt) = 1
  /\ attempt' = <<attempt[1], txb[2]>>
  /\ UNCHANGED <<pic, txb, txreq, txerr, history>>

EndAttempt ==
  /\ attempt' = <<>>
  /\ UNCHANGED <<pic, txb, clean>>

Transmitted ==
  /\ Len(attempt) = 2
  /\ sent' = sent + 1
  /\ last' = attempt
  /\ txreq' = FALSE
  /\ EndAttempt
  /\ UNCHANGED txerr

LoseArbitration ==
  /\ Len(attempt) = 1
  /\ EndAttempt
  /\ UNCHANGED <<txreq, txerr, sent, last>>

BusError ==
  /\ attempt # <<>>
  /\ txerr' = TRUE
  /\ EndAttempt
  /\ UNCHANGED <<txreq, sent, last>>

\* The device starts again; canInit() resets the controller.
Restart ==
  /\ pc' = "idle"
  /\ call' = NoFrame
  /\ k' = 0
  /\ result' = "none"
  /\ txb' \in Frames
  /\ txreq' = FALSE
  /\ txerr' = FALSE
  /\ attempt' = <<>>
  /\ sent' = 0
  /\ last' = NoFrame
  /\ clean' = TRUE

Step ==
  \/ WriteId \/ WriteBody \/ RequestToSend
  \/ PollError \/ PollSent \/ PollPending \/ PollGivesUp
  \/ Cancel

ControllerStep ==
  StartAttempt \/ GoOn \/ Transmitted \/ LoseArbitration \/ BusError

Next == (\E f \in Frames : Call(f)) \/ Step \/ ControllerStep \/ Restart

Spec == Init /\ [][Next]_vars

\* The PIC executes its program; nothing is asked of the controller or the bus.
FairSpec == Spec /\ WF_vars(Step)

-----------------------------------------------------------------------------
(* Properties                                                              *)

TypeOK ==
  /\ pc \in {"idle", "id", "body", "request", "poll", "cancel"}
  /\ call \in Frames \cup {NoFrame}
  /\ pc # "idle" => call \in Frames
  /\ k \in 0..TX_RETRIES
  /\ result \in {"none", "OK", "FAIL"}
  /\ txb \in Frames
  /\ txreq \in BOOLEAN
  /\ txerr \in BOOLEAN
  /\ attempt \in {<<>>} \cup {<<i>> : i \in Ids} \cup Frames
  /\ sent \in Nat
  /\ last \in Frames \cup {NoFrame}
  /\ clean \in BOOLEAN

\* If nothing was left over when the call started, its frame is on the bus once
\* and whole when canTx() returns OK; when it returns FAIL the frame may be on
\* the bus or get there later, but once at the most.
SentOnce ==
  clean =>
    /\ sent = 0 \/ (sent = 1 /\ last = call)
    /\ result = "OK" => sent = 1

\* What is left over of an earlier call may go out in between, mixed with the
\* new registers, and may even end the wait for the new frame.  But no more than
\* that one frame: if two are transmitted the second is the one of this call.
LeftoverOnce ==
  /\ sent <= 2
  /\ sent = 2 => last = call

\* Only a call that ran out of polls leaves a request behind, and after a call
\* that returned OK the controller is idle: one success ends all confusion.
CleansUp ==
  pc = "idle" =>
    /\ txreq => result = "FAIL" /\ k = TX_RETRIES
    /\ result = "OK" => attempt = <<>>

\* canTx() returns whatever the bus does; it runs with interrupts off.
CallReturns == pc # "idle" ~> pc = "idle"
=============================================================================
