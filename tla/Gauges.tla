------------------------------- MODULE Gauges -------------------------------
(***************************************************************************)
(* The gauge outputs: the timer branches of isr(), which toggle the        *)
(* tachometer and speedometer pins, and the handler of signal frames that  *)
(* runs before them in the same interrupt and sets what they generate, and *)
(* the levels of the four analog outputs.  Timers and bus go on while the  *)
(* routine runs, so a flag may be set at any step of it, and TMR1 counts   *)
(* on from its overflow until the routine comes to set it again.           *)
(***************************************************************************)
EXTENDS Integers

CONSTANTS
  Frames,  \* what frames hold for the signals
  Counts   \* what TMR1 may be found to have counted to after an overflow

NSIG == 6
Signals == 0..(NSIG - 1)
SIG_TACH == 0
SIG_SPEED == 1
Analog == 2..5

U16_SIZE == 65536
U16 == 0..(U16_SIZE - 1)

\* A frame has a table value for a signal, or does not match its identifier, or
\* the value cannot be extracted or looked up.
Absent == -1
Bad == -2

ASSUME FramesAssumption == Frames \subseteq [Signals -> U16 \cup {Absent, Bad}]
ASSUME CountsAssumption == Counts \subseteq U16

VARIABLES
  \* isr()
  pc,          \* "main", or the branch it is in
  k,           \* the signal handleSigFrame() looks at
  frame,       \* what the frame in hand holds
  intf,        \* a CAN interrupt is pending
  \* Tachometer
  tmr1ie, tmr1if,
  tmr1,        \* where the timer started to count or, with its flag up, has got to
  tmr1Start,
  tmr1Ctr,
  tach,        \* TACH_PIN
  \* Speedometer
  tmr2ie, tmr2if, tmr2Period, tmr2Ctr,
  speed,       \* SPEED_PIN
  \* The DACs
  dac,         \* level of each analog output
  \* History
  wanted,      \* the last value that arrived for each signal
  tachRun,     \* counts of TMR1 since the last edge
  tachLate,    \* those of them that setting it again has thrown away
  tachSteady,  \* no change of the setting and no overflow missed since then
  speedRun,    \* ticks served since the last edge or change of the period
  speedSteady

isrVars == <<pc, k, frame>>
tachVars == <<tmr1ie, tmr1if, tmr1, tmr1Start, tmr1Ctr, tach,
              tachRun, tachLate, tachSteady>>
speedVars == <<tmr2ie, tmr2if, tmr2Period, tmr2Ctr, speed, speedRun, speedSteady>>
vars == <<pc, k, frame, intf,
          tmr1ie, tmr1if, tmr1, tmr1Start, tmr1Ctr, tach, tachRun, tachLate, tachSteady,
          tmr2ie, tmr2if, tmr2Period, tmr2Ctr, speed, speedRun, speedSteady,
          dac, wanted>>

NoFrame == [s \in Signals |-> Absent]

Init ==
  /\ pc = "main" /\ k = 0 /\ frame = NoFrame /\ intf = FALSE
  /\ tmr1ie = FALSE /\ tmr1if = FALSE /\ tmr1 = 0
  /\ tmr1Start = 0 /\ tmr1Ctr = 0 /\ tach = FALSE
  /\ tmr2ie = FALSE /\ tmr2if = FALSE
  /\ tmr2Period = 0 /\ tmr2Ctr = 0 /\ speed = FALSE
  /\ dac = [a \in Analog |-> 0]
  /\ wanted = [s \in Signals |-> Absent]
  /\ tachRun = 0 /\ tachLate = 0 /\ tachSteady = FALSE
  /\ speedRun = 0 /\ speedSteady = FALSE

-----------------------------------------------------------------------------
(* The hardware                                                            *)

\* A second overflow before the first is served goes unnoticed.
Tmr1Overflows ==
  /\ tmr1if' = TRUE
  /\ tmr1' = 0
  /\ tachSteady' = (tachSteady /\ ~tmr1if)
  /\ tachRun' = IF tachSteady' THEN tachRun + U16_SIZE - tmr1 ELSE 0
  /\ tachLate' = IF tachSteady' THEN tachLate ELSE 0
  /\ UNCHANGED <<isrVars, intf, tmr1ie, tmr1Start, tmr1Ctr, tach, speedVars, dac, wanted>>

\* It goes on from 0 while its flag waits: isr() may be in the CAN branch, which
\* reads the EEPROM and sends frames, or has just begun.
Tmr1Counts ==
  /\ tmr1if
  /\ \E c \in Counts :
       /\ tmr1 < c
       /\ tmr1' = c
       /\ tachRun' = IF tachSteady THEN tachRun + c - tmr1 ELSE 0
  /\ UNCHANGED <<isrVars, intf, tmr1ie, tmr1if, tmr1Start, tmr1Ctr, tach, tachLate,
                 tachSteady, speedVars, dac, wanted>>

Tmr2Matches ==
  /\ tmr2if' = TRUE
  /\ speedSteady' = (speedSteady /\ ~tmr2if)
  /\ UNCHANGED <<isrVars, intf, tachVars, tmr2ie, tmr2Period, tmr2Ctr, speed, speedRun,
                 dac, wanted>>

\* The CAN controller pulls the INT line down.
CanInterrupts ==
  /\ intf' = TRUE
  /\ UNCHANGED <<isrVars, tachVars, speedVars, dac, wanted>>

-----------------------------------------------------------------------------
(* isr(): the CAN branch                                                   *)

\* A frame is read, if INTF is set.  One that is not for the gauges has nothing.
Enter ==
  /\ pc = "main"
  /\ intf \/ (tmr1ie /\ tmr1if) \/ (tmr2ie /\ tmr2if)
  /\ IF intf
     THEN \E f \in Frames \cup {NoFrame} :
            /\ pc' = "signals"
            /\ frame' = f
            /\ wanted' = [s \in Signals |-> IF f[s] \in U16 THEN f[s] ELSE wanted[s]]
     ELSE pc' = "tmr1" /\ UNCHANGED <<frame, wanted>>
  /\ UNCHANGED <<k, intf, tachVars, speedVars, dac>>

HandleSignal ==
  /\ pc = "signals"
  /\ k < NSIG
  /\ k' = k + 1
  /\ UNCHANGED <<pc, frame, intf, wanted>>

\* (Mutant: the first signal that cannot be used ends the search.)
StopAtBadSignal ==
  /\ pc = "signals" /\ k < NSIG
  /\ frame[k] \notin U16
  /\ k' = IF frame[k] = Bad THEN NSIG ELSE k + 1
  /\ UNCHANGED <<pc, frame, intf, wanted, tachVars, speedVars, dac>>

\* Another identifier, or sigPluck() or tabLookup() fails.
SkipSignal ==
  /\ HandleSignal
  /\ frame[k] \notin U16
  /\ UNCHANGED <<tachVars, speedVars, dac>>

TACH_FACTOR == 15000000
MIN_TACH_PULSE_PER_MIN == 229

\* driveGauge() and driveTach(); the frame driveGauge() sends for debugging is a
\* matter of CanTransmit.
DriveTach ==
  LET pulsePerMin == frame[k] IN
  /\ HandleSignal
  /\ k = SIG_TACH
  /\ frame[k] \in U16
  /\ IF pulsePerMin < MIN_TACH_PULSE_PER_MIN
     THEN tmr1ie' = FALSE /\ UNCHANGED tmr1Start
     ELSE tmr1ie' = TRUE /\ tmr1Start' = (U16_SIZE - TACH_FACTOR \div pulsePerMin) % U16_SIZE
  /\ tachSteady' = (tachSteady /\ tmr1Start' = tmr1Start)
  /\ tachRun' = IF tachSteady' THEN tachRun ELSE 0
  /\ tachLate' = IF tachSteady' THEN tachLate ELSE 0
  /\ UNCHANGED <<tmr1if, tmr1, tmr1Ctr, tach, speedVars, dac>>

SPEED_FACTOR == 70313
MIN_SPEED_PULSE_PER_MIN == 2

\* driveGauge() and driveSpeed()
DriveSpeed ==
  LET pulsePerMin == frame[k] IN
  /\ HandleSignal
  /\ k = SIG_SPEED
  /\ frame[k] \in U16
  /\ IF pulsePerMin < MIN_SPEED_PULSE_PER_MIN
     THEN tmr2ie' = FALSE /\ UNCHANGED tmr2Period
     ELSE tmr2ie' = TRUE /\ tmr2Period' = (SPEED_FACTOR \div pulsePerMin) % U16_SIZE
  /\ speedSteady' = (speedSteady /\ tmr2Period' = tmr2Period)
  /\ speedRun' = IF tmr2Period' = tmr2Period THEN speedRun ELSE 0
  /\ UNCHANGED <<tachVars, tmr2if, tmr2Ctr, speed, dac>>

VREF_MV == 5000
CONFA == 28672
CONFB == 61440

\* The word set() transmits: the level modulo 10 bits, with bits 0 and 1 unused.
DacWord(conf, mv) ==
  LET clamped == IF mv < VREF_MV THEN mv ELSE VREF_MV
  IN  conf + ((4 * ((clamped * 1024) \div VREF_MV)) % 4096)

\* The output a word is for, by chip and top bit, and its level.
DacOutput(dacNum, word) == 2 * dacNum + (word \div 32768)
DacLevel(word) == (word % 4096) \div 4

\* dacSet1a() to dacSet2b(), as driveGauge() chooses among them.
DacArgs(s) == CASE s = 2 -> <<1, CONFA>> [] s = 3 -> <<1, CONFB>>
                [] s = 4 -> <<2, CONFA>> [] s = 5 -> <<2, CONFB>>

DriveAnalog ==
  LET word == DacWord(DacArgs(k)[2], frame[k]) IN
  /\ HandleSignal
  /\ k \in Analog
  /\ frame[k] \in U16
  /\ dac' = [dac EXCEPT ![DacOutput(DacArgs(k)[1], word)] = DacLevel(word)]
  /\ UNCHANGED <<tachVars, speedVars>>

CanDone == pc = "signals" /\ k = NSIG

\* (Mutant: the routine returns, to be entered again for the timers.)
ReturnFromCan ==
  /\ CanDone
  /\ pc' = "main" /\ k' = 0 /\ frame' = NoFrame
  /\ intf' = FALSE
  /\ UNCHANGED <<tachVars, speedVars, dac, wanted>>

EndCan ==
  /\ CanDone
  /\ pc' = "tmr1" /\ k' = 0 /\ frame' = NoFrame
  /\ intf' = FALSE
  /\ UNCHANGED <<tachVars, speedVars, dac, wanted>>

-----------------------------------------------------------------------------
(* isr(): the timer branches, which ask for the flag and not for its enable *)

TMR1_POST == 6
EDGE_PER_PULSE == 2

\* (Mutant: the timer is not set again between edges.)
TachTickNoReload ==
  /\ pc = "tmr1" /\ tmr1if
  /\ pc' = "tmr2"
  /\ tmr1if' = FALSE
  /\ tmr1Ctr + 1 < TMR1_POST \div EDGE_PER_PULSE
  /\ tmr1Ctr' = tmr1Ctr + 1
  /\ UNCHANGED <<k, frame, intf, tmr1, tmr1ie, tmr1Start, tach, tachRun, tachLate, tachSteady,
                 speedVars, dac, wanted>>

ServeTmr1 ==
  /\ pc = "tmr1" /\ tmr1if
  /\ pc' = "tmr2"
  /\ tmr1if' = FALSE
  /\ tmr1' = tmr1Start
  /\ UNCHANGED <<k, frame, intf, tmr1ie, tmr1Start, speedVars, dac, wanted>>

TachTick ==
  /\ ServeTmr1
  /\ tmr1Ctr + 1 < TMR1_POST \div EDGE_PER_PULSE
  /\ tmr1Ctr' = tmr1Ctr + 1
  /\ tachLate' = IF tachSteady THEN tachLate + tmr1 ELSE 0
  /\ UNCHANGED <<tach, tachRun, tachSteady>>

TachEdge ==
  /\ ServeTmr1
  /\ tmr1Ctr + 1 >= TMR1_POST \div EDGE_PER_PULSE
  /\ tmr1Ctr' = 0
  /\ tach' = ~tach
  /\ tachRun' = 0 /\ tachLate' = 0 /\ tachSteady' = TRUE

NoTachTick ==
  /\ pc = "tmr1" /\ ~tmr1if
  /\ pc' = "tmr2"
  /\ UNCHANGED <<k, frame, intf, tachVars, speedVars, dac, wanted>>

ServeTmr2 ==
  /\ pc = "tmr2" /\ tmr2if
  /\ pc' = "main"
  /\ tmr2if' = FALSE
  /\ UNCHANGED <<k, frame, intf, tachVars, tmr2ie, tmr2Period, dac, wanted>>

\* (Mutant: the counter is compared for equality, as in the test of the tachometer.)
IsSpeedEdgeExactly == tmr2Ctr + 1 = tmr2Period \div EDGE_PER_PULSE
IsSpeedEdge == tmr2Ctr + 1 >= tmr2Period \div EDGE_PER_PULSE

SpeedTick ==
  /\ ServeTmr2
  /\ ~IsSpeedEdge
  /\ tmr2Ctr' = tmr2Ctr + 1
  /\ speedRun' = speedRun + 1
  /\ UNCHANGED <<speed, speedSteady>>

SpeedEdge ==
  /\ ServeTmr2
  /\ IsSpeedEdge
  /\ tmr2Ctr' = 0
  /\ speed' = ~speed
  /\ speedRun' = 0 /\ speedSteady' = TRUE

NoSpeedTick ==
  /\ pc = "tmr2" /\ ~tmr2if
  /\ pc' = "main"
  /\ UNCHANGED <<k, frame, intf, tachVars, speedVars, dac, wanted>>

IsrStep ==
  \/ Enter
  \/ SkipSignal \/ DriveTach \/ DriveSpeed \/ DriveAnalog \/ EndCan
  \/ TachTick \/ TachEdge \/ NoTachTick
  \/ SpeedTick \/ SpeedEdge \/ NoSpeedTick

Next == IsrStep \/ Tmr1Overflows \/ Tmr1Counts \/ Tmr2Matches \/ CanInterrupts

Spec == Init /\ [][Next]_vars

\* The PIC executes isr() when an enabled interrupt is pending.
FairSpec == Spec /\ WF_vars(IsrStep)

-----------------------------------------------------------------------------
(* Properties                                                              *)

TypeOK ==
  /\ pc \in {"main", "signals", "tmr1", "tmr2"}
  /\ k \in 0..NSIG
  /\ frame \in [Signals -> U16 \cup {Absent, Bad}]
  /\ {intf, tmr1ie, tmr1if, tach, tachSteady} \subseteq BOOLEAN
  /\ {tmr2ie, tmr2if, speed, speedSteady} \subseteq BOOLEAN
  /\ tmr1 \in U16 /\ tmr1Start \in U16 /\ tmr1Ctr \in 0..2
  /\ tmr2Period \in U16 /\ tmr2Ctr \in U16
  /\ dac \in [Analog -> 0..1023]
  /\ wanted \in [Signals -> U16 \cup {Absent}]
  /\ tachRun \in Nat /\ tachLate \in Nat /\ speedRun \in Nat

TachFollows ==
  LET v == wanted[SIG_TACH] IN
  IF v > 0 /\ TACH_FACTOR \div v < U16_SIZE
  THEN tmr1ie /\ U16_SIZE - tmr1Start = TACH_FACTOR \div v
  ELSE ~tmr1ie

SpeedFollows ==
  LET v == wanted[SIG_SPEED] IN
  IF v > 0 /\ SPEED_FACTOR \div v < U16_SIZE
  THEN tmr2ie /\ tmr2Period = SPEED_FACTOR \div v
  ELSE ~tmr2ie

\* Below 5 V; of what comes from there on nothing is said, see DacClamps.
DacFollows(a) ==
  /\ wanted[a] \in 0..(VREF_MV - 1) => dac[a] = (wanted[a] * 1024) \div VREF_MV
  /\ wanted[a] = Absent => dac[a] = 0

\* A frame may carry several signals and some of them may be unusable.  When
\* its handler is done every output is set to the last value that came for its
\* signal: the square waves are on exactly if a timer can count that long, with
\* the count the comments on the factors give, and each level below 5 V is at the
\* output of its channel.
OutputsFollow == pc # "signals" => TachFollows /\ SpeedFollows /\ \A a \in Analog : DacFollows(a)

SpeedHalfPeriod == IF tmr2Period < 4 THEN 1 ELSE tmr2Period \div 2

TachEdgeComes == tach' # tach /\ tachSteady /\ tmr1ie
SpeedEdgeComes == speed' # speed /\ speedSteady /\ tmr2ie

\* The edges of an output that is on and whose setting does not change.  Those of
\* the tachometer are three full counts of TMR1 apart and as much longer as isr()
\* was late to serve its three overflows, no more and never less, whatever it had
\* to do before: these counts are lost when TMR1 is set again.  Those of the
\* speedometer are half a period of TMR2's ticks apart, rounded down and one at
\* least, so that odd periods run faster and a period of 1 slower than asked for.
\* (As long as no overflow or tick is missed.)
EdgesOnTime ==
  [][/\ TachEdgeComes => tachRun = 3 * (U16_SIZE - tmr1Start) + tachLate + tmr1
     /\ SpeedEdgeComes => speedRun + 1 = SpeedHalfPeriod]_vars

\* The claim of main.c:26-30, "(pulse/min) = 60 * (Fosc/4) / ((pre)*(post)*(2^16 - TMR1))":
\* a pulse is six counts of TMR1 from where it was set to its overflow.
TachRateExact == [][TachEdgeComes => tachRun = 3 * (U16_SIZE - tmr1Start)]_vars

\* The claim of main.c:34-37, "(pulse/min) = [...] 70313 / (period)": a pulse, of two
\* edges, is as many ticks of TMR2 as the period says.
SpeedRateExact == [][SpeedEdgeComes => 2 * (speedRun + 1) = tmr2Period]_vars

\* The claim of report.tex:376, "Upon overflow, the timers trigger the ISR to toggle
\* the appropriate GPIO [...] pin": with its interrupt disabled a timer triggers
\* nothing, and the output that was switched off has no edges.
OffIsSilent == [][(~tmr1ie => tach' = tach) /\ (~tmr2ie => speed' = speed)]_vars

\* The claim of dac.c:41, "clamp to 5V": from there on the level is the highest.
DacClamps == pc # "signals" => \A a \in Analog : wanted[a] >= VREF_MV => dac[a] = 1023

\* When the period shrinks the counter may already be beyond its end; the edge
\* comes at the next tick and not after the counter has run round.
NoLateEdge == speedRun < SpeedHalfPeriod

\* Frames that arrive without a pause do not starve the timers: an enabled
\* timer interrupt is served in the end.
TimersServed ==
  /\ (tmr1ie /\ tmr1if) ~> ~tmr1if
  /\ (tmr2ie /\ tmr2if) ~> ~tmr2if
=============================================================================
