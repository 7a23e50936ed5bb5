------------------------- MODULE CanTransmitProofs -------------------------
(***************************************************************************)
(* Proofs about CanTransmit, for any frames and number of retries.  What   *)
(* canTx() may conclude from TXREQ depends on whose request it is: IInv    *)
(* follows the frame of the call from the registers through the attempts   *)
(* to the bus, apart from what an earlier call may have left over.         *)
(***************************************************************************)
EXTENDS CanTransmit, TLAPS

Writing == {"id", "body", "request"}
Written == {"poll", "cancel", "idle"}

Nothing == ~txreq /\ attempt = <<>>

\* The registers hold the frame of the call, and so does an attempt under way.
Fresh == txb = call /\ attempt \in {<<>>, <<call[1]>>, call}

Registers ==
  /\ pc = "body" => txb[1] = call[1]
  /\ pc = "request" => txb = call

\* Before the first call there is nothing to send.
NoCall == call = NoFrame => pc = "idle" /\ result = "none" /\ Nothing /\ sent = 0

CleanRun ==
  clean /\ call # NoFrame =>
    /\ pc \in Writing => Nothing /\ sent = 0
    /\ pc \in Written => \/ sent = 0 /\ Fresh
                         \/ sent = 1 /\ last = call /\ Nothing

\* A request that is gone was fulfilled.
Fulfilled ==
  /\ pc # "idle" => result = "none"
  /\ pc = "poll" /\ ~txreq => attempt = <<>> /\ sent # 0
  /\ result = "OK" => Nothing /\ sent # 0

\* After the leftover frame only the new one can follow.
Leftover ==
  /\ pc \in Writing => sent <= 1 /\ (sent # 0 => Nothing)
  /\ pc \in Written /\ sent = 1 => Nothing \/ Fresh
  /\ sent = 2 => Nothing

IInv ==
  /\ TypeOK
  /\ LeftoverOnce
  /\ CleansUp
  /\ Registers
  /\ NoCall
  /\ CleanRun
  /\ Fulfilled
  /\ Leftover

-----------------------------------------------------------------------------
(* Frames and attempts as sequences                                        *)

LEMMA Pair ==
  ASSUME NEW f \in Frames
  PROVE  f[1] \in Ids /\ f[2] \in Bodies /\ f = <<f[1], f[2]>> /\ f # <<>> /\ Len(f) = 2
BY DEF Frames

LEMMA Single == ASSUME NEW x PROVE <<x>> # <<>> /\ Len(<<x>>) = 1
OBVIOUS

Attempts == {<<>>} \cup {<<i>> : i \in Ids} \cup Frames

LEMMA NoAttempt == <<>> \in Attempts
BY Zenon DEF Attempts

LEMMA AttemptShape ==
  ASSUME TypeOK
  PROVE  /\ attempt # <<>> <=> Len(attempt) \in {1, 2}
         /\ Len(attempt) = 1 => attempt \in {<<i>> : i \in Ids}
         /\ Len(attempt) = 2 => attempt \in Frames
<1>1. Len(<<>>) = 0
  OBVIOUS
<1>2. \A i \in Ids : Len(<<i>>) = 1 /\ <<i>> # <<>>
  BY Single
<1>3. \A f \in Frames : Len(f) = 2 /\ f # <<>>
  BY Pair
<1> QED
  BY <1>1, <1>2, <1>3 DEF TypeOK

-----------------------------------------------------------------------------
(* The invariant                                                           *)

LEMMA InitInv == ASSUME Init PROVE IInv
<1>1. TypeOK
  <2>1. attempt \in Attempts
    BY NoAttempt, Zenon DEF Init
  <2>2. k \in 0..TX_RETRIES /\ sent \in Nat
    BY RetriesAssumption DEF Init
  <2> QED
    BY <2>1, <2>2 DEF Init, TypeOK, Attempts
<1> QED
  BY <1>1 DEF Init, IInv, LeftoverOnce, CleansUp, Registers, NoCall, CleanRun,
     Fulfilled, Leftover, Nothing, Writing

LEMMA RestartInv == ASSUME IInv, Restart PROVE IInv'
<1>1. TypeOK'
  <2>1. attempt' \in Attempts
    BY NoAttempt, Zenon DEF Restart
  <2>2. k' \in 0..TX_RETRIES /\ sent' \in Nat
    BY RetriesAssumption DEF Restart
  <2> QED
    BY <2>1, <2>2 DEF Restart, TypeOK, Attempts
<1> QED
  BY <1>1 DEF Restart, IInv, LeftoverOnce, CleansUp, Registers, NoCall, CleanRun,
     Fulfilled, Leftover, Nothing, Writing

LEMMA CallInv == ASSUME IInv, NEW f \in Frames, Call(f) PROVE IInv'
<1>1. TypeOK'
  BY RetriesAssumption DEF IInv, Call, TypeOK, controller
<1>2. f # NoFrame
  BY Pair DEF NoFrame
<1>3. CleanRun'
  BY DEF Call, controller, CleanRun, Nothing, Writing, Written
<1> QED
  BY <1>1, <1>2, <1>3 DEF Call, controller, IInv, LeftoverOnce, CleansUp, Registers, NoCall,
     Fulfilled, Leftover, Nothing, Writing, Written

LEMMA WriteInv == ASSUME IInv, WriteId \/ WriteBody PROVE IInv'
<1>1. call \in Frames /\ txb \in Frames
  BY DEF IInv, TypeOK, history, WriteId, WriteBody
<1>2. /\ call[1] \in Ids /\ call[2] \in Bodies /\ call = <<call[1], call[2]>>
      /\ txb[1] \in Ids /\ txb[2] \in Bodies
  BY <1>1, Pair
<1>3. TypeOK'
  BY <1>2 DEF IInv, TypeOK, history, WriteId, WriteBody, Frames
<1> QED
  BY <1>2, <1>3 DEF history, WriteId, WriteBody, IInv, LeftoverOnce, CleansUp, Registers,
     NoCall, CleanRun, Fulfilled, Leftover, Nothing, Writing, Written

LEMMA RequestInv == ASSUME IInv, RequestToSend PROVE IInv'
<1>1. TypeOK'
  BY DEF IInv, TypeOK, history, RequestToSend
<1>2. Leftover'
  BY DEF history, RequestToSend, IInv, TypeOK, Registers, Leftover, Nothing, Fresh, Writing,
     Written
<1> QED
  BY <1>1, <1>2 DEF history, RequestToSend, IInv, LeftoverOnce, CleansUp, Registers, NoCall,
     CleanRun, Fulfilled, Nothing, Fresh, Writing, Written

\* canTx() looks, and changes nothing but how it goes on.
LEMMA PollInv ==
  ASSUME IInv, PollError \/ PollSent \/ PollPending \/ PollGivesUp
  PROVE  IInv'
<1>1. TypeOK'
  BY RetriesAssumption DEF IInv, TypeOK, history, PollError, PollSent, PollPending, PollGivesUp,
     Return, controller
<1>2. UNCHANGED <<call, txb, txreq, txerr, attempt, sent, last, clean>>
  BY DEF history, PollError, PollSent, PollPending, PollGivesUp, Return, controller
<1>3. pc = "poll" /\ pc' \in Written
  BY DEF history, PollError, PollSent, PollPending, PollGivesUp, Return, Written
<1>4. Fulfilled' /\ CleansUp'
  BY <1>2 DEF IInv, Fulfilled, CleansUp, Nothing, history, PollError, PollSent, PollPending,
     PollGivesUp, Return
<1>5. Registers' /\ NoCall' /\ CleanRun' /\ LeftoverOnce' /\ Leftover'
  BY <1>2, <1>3 DEF IInv, Registers, NoCall, CleanRun, LeftoverOnce, Leftover, Nothing, Fresh,
     Writing, Written
<1> QED
  BY <1>1, <1>4, <1>5 DEF IInv

LEMMA CancelInv == ASSUME IInv, Cancel PROVE IInv'
<1>1. TypeOK'
  BY DEF IInv, TypeOK, history, Cancel, Return
<1> QED
  BY <1>1 DEF history, Cancel, Return, IInv, LeftoverOnce, CleansUp, Registers, NoCall, CleanRun,
     Fulfilled, Leftover, Nothing, Fresh, Writing, Written

LEMMA StartInv == ASSUME IInv, StartAttempt PROVE IInv'
<1>1. txb \in Frames /\ txb[1] \in Ids
  BY Pair DEF IInv, TypeOK
<1>2. TypeOK'
  BY <1>1 DEF IInv, TypeOK, history, StartAttempt, pic
<1>3. txreq /\ attempt = <<>> /\ attempt' = <<txb[1]>>
      /\ UNCHANGED <<pc, call, k, result, txb, txreq, txerr, sent, last, clean>>
  BY DEF history, StartAttempt, pic
<1> QED
  BY <1>2, <1>3 DEF IInv, LeftoverOnce, CleansUp, Registers, NoCall, CleanRun, Fulfilled,
     Leftover, Nothing, Fresh, Writing, Written

LEMMA GoOnInv == ASSUME IInv, GoOn PROVE IInv'
<1>1. /\ Len(attempt) = 1 /\ attempt' = <<attempt[1], txb[2]>>
      /\ UNCHANGED <<pc, call, k, result, txb, txreq, txerr, sent, last, clean>>
  BY DEF history, GoOn, pic
<1>2. PICK i \in Ids : attempt = <<i>>
  BY <1>1, AttemptShape DEF IInv
<1>3. txb \in Frames /\ txb[2] \in Bodies /\ txb = <<txb[1], txb[2]>>
  BY Pair DEF IInv, TypeOK
<1>4. attempt' = <<i, txb[2]>> /\ attempt # <<>>
  BY <1>1, <1>2, Single
<1>5. TypeOK'
  BY <1>1, <1>3, <1>4 DEF IInv, TypeOK, Frames
<1>6. Fresh => Fresh'
  <2>1. SUFFICES ASSUME Fresh PROVE attempt' = call
    BY <1>1 DEF Fresh
  <2>2. call \in Frames /\ Len(call) = 2
    BY <1>3, <2>1, Pair DEF Fresh
  <2>3. attempt = <<call[1]>>
    BY <1>1, <1>4, <2>1, <2>2 DEF Fresh
  <2> QED
    BY <1>2, <1>3, <1>4, <2>1, <2>3 DEF Fresh
<1> QED
  BY <1>1, <1>4, <1>5, <1>6 DEF IInv, LeftoverOnce, CleansUp, Registers, NoCall, CleanRun,
     Fulfilled, Leftover, Nothing, Writing, Written

LEMMA TransmittedInv == ASSUME IInv, Transmitted PROVE IInv'
<1>1. /\ attempt \in Frames /\ attempt # <<>> /\ Len(attempt) = 2
      /\ sent' = sent + 1 /\ last' = attempt
      /\ txreq' = FALSE /\ Nothing'
      /\ UNCHANGED <<pc, call, k, result, txb, txerr, clean>>
  BY AttemptShape DEF IInv, Transmitted, EndAttempt, pic, Nothing
<1>2. sent \in Nat
  BY DEF IInv, TypeOK
<1>3. TypeOK'
  <2>1. attempt' \in Attempts
    BY <1>1, NoAttempt DEF Nothing
  <2>2. sent' \in Nat
    BY <1>1, <1>2
  <2>3. last' \in Frames
    BY <1>1, Zenon
  <2> QED
    BY <1>1, <2>1, <2>2, <2>3 DEF IInv, TypeOK, Attempts
<1>4. Fresh => attempt = call
  <2>1. SUFFICES ASSUME Fresh, attempt = <<call[1]>> PROVE FALSE
    BY <1>1 DEF Fresh
  <2> QED
    BY <1>1, <2>1, Single
<1>5. sent # 2
  BY <1>1 DEF IInv, Leftover, Nothing
<1>6. sent = 1 => pc \in Written /\ Fresh
  BY <1>1 DEF IInv, TypeOK, Leftover, Nothing, Writing, Written
<1>7. LeftoverOnce' /\ Leftover'
  BY <1>1, <1>2, <1>4, <1>5, <1>6 DEF IInv, LeftoverOnce, Leftover, Writing, Written
<1>8. CleanRun'
  BY <1>1, <1>2, <1>4 DEF IInv, CleanRun, Nothing, Writing, Written
<1>9. Registers' /\ NoCall' /\ Fulfilled' /\ CleansUp'
  BY <1>1, <1>2 DEF IInv, Registers, NoCall, Fulfilled, CleansUp, Nothing
<1> QED
  BY <1>3, <1>7, <1>8, <1>9 DEF IInv

\* The attempt comes to nothing; the request stands if it stood.
LEMMA AttemptFailsInv == ASSUME IInv, LoseArbitration \/ BusError PROVE IInv'
<1>1. /\ attempt # <<>> /\ attempt' = <<>> /\ txerr' \in BOOLEAN
      /\ UNCHANGED <<pc, call, k, result, txb, txreq, sent, last, clean>>
  BY AttemptShape DEF IInv, TypeOK, LoseArbitration, BusError, EndAttempt, pic
<1>2. TypeOK'
  BY <1>1 DEF IInv, TypeOK
<1> QED
  BY <1>1, <1>2 DEF IInv, LeftoverOnce, CleansUp, Registers, NoCall, CleanRun, Fulfilled,
     Leftover, Nothing, Fresh, Writing, Written

LEMMA StepInv == ASSUME IInv, [Next]_vars PROVE IInv'
<1>1. ASSUME UNCHANGED vars PROVE IInv'
  BY <1>1 DEF vars, IInv, TypeOK, LeftoverOnce, CleansUp, Registers, NoCall, CleanRun,
     Fulfilled, Leftover, Nothing, Fresh
<1> QED
  BY <1>1, RestartInv, CallInv, WriteInv, RequestInv, PollInv, CancelInv, StartInv, GoOnInv,
     TransmittedInv, AttemptFailsInv DEF Next, Step, ControllerStep

\* The inductive invariant holds in every reachable state.
THEOREM Invariance == Spec => []IInv
<1>1. Init => IInv
  BY InitInv
<1>2. IInv /\ [Next]_vars => IInv'
  BY StepInv
<1> QED
  BY <1>1, <1>2, PTL DEF Spec

\* Every variable of CanTransmit keeps its type.
THEOREM TypeCorrect == Spec => []TypeOK
BY Invariance, PTL DEF IInv

\* canTx() started on an idle controller sends its frame once and whole, and
\* returns OK only when it has been sent.
THEOREM DeliversOnce == Spec => []SentOnce
<1>1. IInv => SentOnce
  BY DEF IInv, TypeOK, SentOnce, CleanRun, NoCall, Fulfilled, Writing, Written
<1> QED
  BY <1>1, Invariance, PTL

\* At most one frame left over from an earlier call gets between.
THEOREM AtMostOneLeftover == Spec => []LeftoverOnce
BY Invariance, PTL DEF IInv

\* Only a call that ran out of polls leaves a request behind.
THEOREM OneSuccessCleansUp == Spec => []CleansUp
BY Invariance, PTL DEF IInv
=============================================================================
