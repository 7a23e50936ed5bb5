----------------------------- MODULE CanReceive -----------------------------
(***************************************************************************)
(* Reception of CAN frames by the gauge interface: the two receive         *)
(* buffers of the MCP2515 and its INT line, the INTF latch of the PIC that *)
(* turns a falling edge of that line into an interrupt, the boot sequence  *)
(* of main() and the CAN branch of isr().                                  *)
(*                                                                         *)
(* The ISR and the controller run concurrently: between any two steps of   *)
(* the ISR a frame may arrive.  What a handler does with a frame is the    *)
(* business of the other modules; here it is one step of any duration.     *)
(***************************************************************************)
EXTENDS Naturals

CONSTANTS
  MaxArrivals,  \* bound on the frames the bus carries
  MaxRestarts   \* bound on the restarts of the device

ASSUME BoundsAssumption == MaxArrivals \in Nat /\ MaxRestarts \in Nat

VARIABLES
  pc,        \* where the PIC is: boot, main loop or a step of the ISR
  intf,      \* INTF, the edge latch of the INT pin
  full,      \* RXnIF of each receive buffer
  buf,       \* contents of each receive buffer; reading leaves them there
  hit,       \* filter hit the ISR read with RX STATUS
  frame,     \* the ISR's local copy of a frame
  arrivals,  \* frames seen on the bus so far
  restarts,  \* restarts so far
  accepted,  \* history: frames that entered a buffer since boot
  served,    \* history: frames whose handler has run since boot
  lost,      \* history: frames dropped because their buffer was full
  overlap    \* history: a frame arrived before its predecessor was done with

controller == <<full, buf>>
history == <<accepted, served, lost, overlap>>
bounds == <<arrivals, restarts>>
vars == <<pc, intf, full, buf, hit, frame, arrivals, restarts,
          accepted, served, lost, overlap>>

Buffers == {"RXB0", "RXB1"}

\* Table Control, Signal Control, and everything else.
Kinds == {"table", "signal", "value"}
Frame == [kind : Kinds, id : Nat]
NoFrame == [kind |-> "value", id |-> 0]

\* Where the acceptance filters set up by main() route a frame, and the
\* number RX STATUS reports for it (2 stands for RXF2 to RXF5).
BufferOf(kind) == IF kind = "value" THEN "RXB1" ELSE "RXB0"
HitOf(kind) == CASE kind = "table"  -> 0
                 [] kind = "signal" -> 1
                 [] kind = "value"  -> 2

Boot == {"setup", "load", "arm"}
Isr == {"status", "read", "serve", "clear"}

\* The INT pin is low as long as some receive flag is set.
IntLow == \E b \in Buffers : full[b]

\* Until main() clears INTEDG the latch follows rising edges.
\* (Mutant: main() leaves INTEDG as the reset sets it.)
RisingEdgeOnly == FALSE
FallingEdgeLatched == pc \notin Boot

\* No frame waits and none is being worked on.
Quiet == pc = "idle" /\ ~IntLow

Init ==
  /\ pc = "setup"
  /\ intf = FALSE
  /\ full = [b \in Buffers |-> FALSE]
  /\ buf = [b \in Buffers |-> NoFrame]
  /\ hit = 0
  /\ frame = NoFrame
  /\ arrivals = 0
  /\ restarts = 0
  /\ accepted = {}
  /\ served = {}
  /\ lost = {}
  /\ overlap = FALSE

-----------------------------------------------------------------------------
(* Boot: main()                                                            *)

\* sysInit() to canSetMode(CAN_MODE_NORMAL): the controller starts receiving.
\* Resetting it may have raised the INT line, an edge the latch then holds.
GoNormal ==
  /\ pc = "setup"
  /\ pc' = "load"
  /\ intf' \in BOOLEAN
  /\ UNCHANGED <<controller, hit, frame, bounds, history>>

\* (Mutant: INTCON is not cleared.)
LoadOkKeepsFlag ==
  /\ pc = "load"
  /\ pc' = "arm"
  /\ UNCHANGED <<intf, controller, hit, frame, bounds, history>>

\* loadSigFmts() succeeds; INTCON = 0 drops whatever the latch holds.
LoadOk ==
  /\ pc = "load"
  /\ pc' = "arm"
  /\ intf' = FALSE
  /\ UNCHANGED <<controller, hit, frame, bounds, history>>

\* INTEDG = 0, then interrupts on.  Turning the edge detector round while
\* the line is already low may or may not set the latch.
Arm ==
  /\ pc = "arm"
  /\ pc' = "idle"
  /\ intf' \in IF IntLow THEN {intf, TRUE} ELSE {intf}
  /\ UNCHANGED <<controller, hit, frame, bounds, history>>

\* The PIC starts again, and resets the controller on its way up.
Restart ==
  /\ restarts < MaxRestarts
  /\ restarts' = restarts + 1
  /\ pc' = "setup"
  /\ intf' = FALSE
  /\ full' = [b \in Buffers |-> FALSE]
  /\ buf' = [b \in Buffers |-> NoFrame]
  /\ hit' = 0
  /\ frame' = NoFrame
  /\ accepted' = {}
  /\ served' = {}
  /\ lost' = {}
  /\ overlap' = FALSE
  /\ UNCHANGED arrivals

\* loadSigFmts() fails: main() sends an error frame and executes RESET.
LoadFails == pc = "load" /\ Restart

\* Power loss or brown-out, at any time.
PowerFails == pc # "setup" /\ Restart

-----------------------------------------------------------------------------
(* The controller                                                          *)

NextFrame(kind) == [kind |-> kind, id |-> arrivals + 1]

Arrive(kind) ==
  /\ pc # "setup"
  /\ arrivals < MaxArrivals
  /\ arrivals' = arrivals + 1
  /\ overlap' = (overlap \/ ~Quiet)

\* (Mutant: every frame makes an edge, whether the line was high or not.)
AcceptPulsesInt(kind) ==
  LET b == BufferOf(kind) IN
  /\ Arrive(kind)
  /\ ~full[b]
  /\ full' = [full EXCEPT ![b] = TRUE]
  /\ buf' = [buf EXCEPT ![b] = NextFrame(kind)]
  /\ intf' = (intf \/ FallingEdgeLatched)
  /\ accepted' = accepted \cup {NextFrame(kind)}
  /\ UNCHANGED <<pc, hit, frame, restarts, served, lost>>

\* A frame enters the free buffer its filter selects; INT falls if it was high.
Accept(kind) ==
  LET b == BufferOf(kind) IN
  /\ Arrive(kind)
  /\ ~full[b]
  /\ full' = [full EXCEPT ![b] = TRUE]
  /\ buf' = [buf EXCEPT ![b] = NextFrame(kind)]
  /\ intf' = (intf \/ (~IntLow /\ FallingEdgeLatched))
  /\ accepted' = accepted \cup {NextFrame(kind)}
  /\ UNCHANGED <<pc, hit, frame, restarts, served, lost>>

\* Rollover is disabled: a frame whose buffer is taken is dropped.
Overflow(kind) ==
  /\ Arrive(kind)
  /\ full[BufferOf(kind)]
  /\ lost' = lost \cup {NextFrame(kind)}
  /\ UNCHANGED <<pc, intf, controller, hit, frame, restarts, accepted, served>>

-----------------------------------------------------------------------------
(* isr(): the CAN branch                                                   *)

Enter ==
  /\ pc = "idle"
  /\ intf
  /\ pc' = "status"
  /\ UNCHANGED <<intf, controller, hit, frame, bounds, history>>

\* What RX STATUS may report: RXB0 has priority, and with both buffers empty
\* the bits mean nothing.
RxStatus ==
  IF full["RXB0"] THEN {HitOf(buf["RXB0"].kind)}
  ELSE IF full["RXB1"] THEN {HitOf(buf["RXB1"].kind)}
  ELSE {HitOf(k) : k \in Kinds}

CheckFilterHit ==
  /\ pc = "status"
  /\ pc' = "read"
  /\ hit' \in RxStatus
  /\ UNCHANGED <<intf, controller, frame, bounds, history>>

\* (Mutant: no case for the second filter.)
SelectedFirstFilterOnly == IF hit = 0 THEN "RXB0" ELSE "RXB1"
\* The buffer the switch on the filter hit goes to.
Selected == IF hit \in {0, 1} THEN "RXB0" ELSE "RXB1"

\* (Mutant: the frame is read register by register, which clears no flag.)
ReadKeepsFull ==
  /\ pc = "read"
  /\ pc' = "serve"
  /\ frame' = buf[Selected]
  /\ UNCHANGED <<intf, full, buf, hit, bounds, history>>

\* READ RX BUFFER; the end of the transaction clears the buffer's flag.
ReadRxb ==
  /\ pc = "read"
  /\ pc' = "serve"
  /\ frame' = buf[Selected]
  /\ full' = [full EXCEPT ![Selected] = FALSE]
  /\ UNCHANGED <<intf, buf, hit, bounds, history>>

\* The handler chosen by the filter hit runs to its end.
Serve ==
  /\ pc = "serve"
  /\ pc' = "clear"
  /\ served' = served \cup {frame}
  /\ UNCHANGED <<intf, controller, hit, frame, bounds, accepted, lost, overlap>>

\* (Mutant: the ISR waits for the line before it returns.)
ClearWaitsForLine ==
  /\ pc = "clear"
  /\ ~IntLow
  /\ pc' = "idle"
  /\ intf' = FALSE
  /\ UNCHANGED <<controller, hit, frame, bounds, history>>

\* INTF = 0, return from interrupt.
ClearFlag ==
  /\ pc = "clear"
  /\ pc' = "idle"
  /\ intf' = FALSE
  /\ UNCHANGED <<controller, hit, frame, bounds, history>>

IsrStep == Enter \/ CheckFilterHit \/ ReadRxb \/ Serve \/ ClearFlag

Next ==
  \/ GoNormal \/ LoadOk \/ Arm \/ LoadFails \/ PowerFails
  \/ \E kind \in Kinds : Accept(kind) \/ Overflow(kind)
  \/ IsrStep

Spec == Init /\ [][Next]_vars

\* The PIC keeps executing: boot ends if the EEPROM answers, and an interrupt
\* that is pending is taken and served to its end.
Fairness == WF_vars(GoNormal) /\ WF_vars(LoadOk) /\ WF_vars(Arm) /\ WF_vars(IsrStep)

FairSpec == Spec /\ Fairness

-----------------------------------------------------------------------------
(* Properties                                                              *)

InService == IF pc = "serve" THEN {frame} ELSE {}
InBuffer == {buf[b] : b \in {c \in Buffers : full[c]}}

\* The main loop idles, a frame waits, and no interrupt will announce it.
Stalled == pc = "idle" /\ ~intf /\ IntLow

TypeOK ==
  /\ pc \in Boot \cup {"idle"} \cup Isr
  /\ intf \in BOOLEAN
  /\ full \in [Buffers -> BOOLEAN]
  /\ buf \in [Buffers -> Frame]
  /\ hit \in 0..2
  /\ frame \in Frame
  /\ arrivals \in Nat
  /\ restarts \in Nat
  /\ accepted \subseteq Frame
  /\ served \subseteq Frame
  /\ lost \subseteq Frame
  /\ overlap \in BOOLEAN

\* isr() trusts INTF and never asks whether a buffer is full: whenever it
\* starts on a CAN interrupt a frame is there, so it cannot take the stale
\* contents of an empty buffer for a new frame and serve it twice.
NoStaleWakeup == (pc = "idle" /\ intf) \/ pc = "status" => IntLow

\* The filter hit is a snapshot, and frames arrive between RX STATUS and READ
\* RX BUFFER.  All the same the buffer the switch reads is full, and what it
\* holds matched that filter: no Table Control frame reaches the handler of
\* Signal Control frames, or the other way round.
RightHandler ==
  /\ pc = "read" => full[Selected] /\ HitOf(buf[Selected].kind) = hit
  /\ pc = "serve" => HitOf(frame.kind) = hit

\* Nothing between the controller and the handlers loses, duplicates or
\* overwrites a frame once it was accepted: it is in a buffer, in the ISR's
\* hands or served, and in only one of these places.
ExactlyOnce ==
  /\ accepted = served \cup InService \cup InBuffer
  /\ InBuffer \cap (served \cup InService) = {}
  /\ InService \cap served = {}
  /\ \A b, c \in Buffers : full[b] /\ full[c] /\ b # c => buf[b] # buf[c]

\* The lost wake-up and the dropped frame both need a frame that arrives
\* before the device is done with the one ahead of it, or during boot.
OnlyOverlapHurts == Stalled \/ lost # {} => overlap

\* Once the wake-up is lost nothing that arrives on the bus brings it back:
\* the INT line stays low, so it never falls again, until the next restart.
StallIsForever == [][Stalled => Stalled' \/ pc' = "setup"]_vars

\* Every accepted frame leaves its buffer unless the device stalls.
ServedOrStalled == \A b \in Buffers : full[b] ~> (~full[b] \/ Stalled)

\* What the report and the format document say: a frame that is received gets
\* acted upon, here one that is in its buffer while the ISR runs.  The code does
\* not do this: isr() serves one frame per edge of INT and drops later edges.
EveryFrameServed == \A b \in Buffers : pc \in Isr /\ full[b] ~> ~full[b]
=============================================================================
