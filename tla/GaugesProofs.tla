---------------------------- MODULE GaugesProofs ----------------------------
(***************************************************************************)
(* Proofs about Gauges, for frames with any values.                        *)
(***************************************************************************)
EXTENDS Gauges, TLAPS

\* What isr() has left to set in this run.
Handled(s) == pc = "signals" /\ frame[s] \in U16 => s < k

\* Each output is at the last value for its signal once that signal's turn has
\* come, and before if the frame holds nothing of use for it.
Following ==
  /\ Handled(SIG_TACH) => TachFollows
  /\ Handled(SIG_SPEED) => SpeedFollows
  /\ \A a \in Analog : Handled(a) => DacFollows(a)

\* The frame in hand is what is wanted.
InHand ==
  /\ pc = "signals" => \A s \in Signals : frame[s] \in U16 => wanted[s] = frame[s]
  /\ pc # "signals" => k = 0

\* Since the last edge TMR1 has counted in full as often as the counter says,
\* and once more if its flag is up; and what is more it counted after overflows.
TachInStep ==
  tachSteady =>
    IF tmr1if THEN tachRun = (tmr1Ctr + 1) * (U16_SIZE - tmr1Start) + tachLate + tmr1
    ELSE tachRun = tmr1Ctr * (U16_SIZE - tmr1Start) + tachLate /\ tmr1 = tmr1Start

SpeedInStep ==
  /\ speedRun <= tmr2Ctr
  /\ speedRun < SpeedHalfPeriod
  /\ speedSteady => speedRun = tmr2Ctr

IInv == TypeOK /\ InHand /\ Following /\ TachInStep /\ SpeedInStep

-----------------------------------------------------------------------------
(* The arithmetic of the two factors                                       *)

LEMMA Word ==
  ASSUME NEW v
  PROVE  v \in U16 <=> v \in Nat /\ v < U16_SIZE
<1>1. U16_SIZE \in Nat
  BY SMT DEF U16_SIZE
<1> QED
  BY <1>1, SMT DEF U16

LEMMA Product ==
  ASSUME NEW a \in Nat, NEW b \in Nat, NEW x \in Nat, NEW y \in Nat, a <= x, b <= y
  PROVE  a * b <= x * y
<1>1. a * b <= x * b
  BY SMT
<1>2. x * b <= x * y
  BY SMT
<1> QED
  BY <1>1, <1>2, SMT

LEMMA Quotients ==
  ASSUME NEW f \in Nat, NEW v \in Nat, v > 0
  PROVE  f \div v \in Nat /\ v * (f \div v) <= f /\ f < v * (f \div v) + v
BY SMT

\* A quotient is at least m if the divisor is small enough, and below m if not.
LEMMA QuotientBound ==
  ASSUME NEW f \in Nat, NEW v \in Nat, NEW m \in Nat, NEW min \in Nat, v > 0,
         f < min * m, (min - 1) * m <= f, min > 0
  PROVE  v >= min <=> f \div v < m
<1> DEFINE d == f \div v
<1>1. d \in Nat /\ v * d <= f /\ f < v * d + v
  BY Quotients
<1> HIDE DEF d
<1>2. ASSUME v >= min, d >= m PROVE FALSE
  <2>1. min * m <= v * d
    BY Product, <1>1, <1>2
  <2> QED
    BY <2>1, <1>1, SMT
<1>3. ASSUME v < min, d < m PROVE FALSE
  <2>1. v * (d + 1) <= (min - 1) * m
    <3>1. v <= min - 1 /\ d + 1 <= m /\ min - 1 \in Nat /\ d + 1 \in Nat
      BY <1>1, <1>3, SMT
    <3> QED
      BY <3>1, Product
  <2>2. v * (d + 1) = v * d + v
    BY <1>1, SMT
  <2> QED
    BY <2>1, <2>2, <1>1, SMT
<1>4. v >= min \/ v < min
  BY SMT
<1>5. d < m \/ d >= m
  BY <1>1, SMT
<1> QED
  BY <1>2, <1>3, <1>4, <1>5, <1>1, SMT DEF d

\* 229 is the smallest rate whose count fits TMR1, and 2 the one whose period
\* fits tmr2Period.
LEMMA TachRange ==
  ASSUME NEW v \in U16
  PROVE  /\ v >= MIN_TACH_PULSE_PER_MIN <=> v > 0 /\ TACH_FACTOR \div v < U16_SIZE
         /\ v > 0 => TACH_FACTOR \div v \in Nat /\ TACH_FACTOR \div v > 0
<1>1. CASE v = 0
  BY <1>1, Word, SMT DEF U16_SIZE, MIN_TACH_PULSE_PER_MIN
<1>2. CASE v > 0
  <2>1. v \in Nat /\ TACH_FACTOR \in Nat /\ U16_SIZE \in Nat /\ TACH_FACTOR < 229 * U16_SIZE /\ (229 - 1) * U16_SIZE <= TACH_FACTOR
    BY Word, SMT DEF U16_SIZE, TACH_FACTOR
  <2>2. v >= 229 <=> TACH_FACTOR \div v < U16_SIZE
    BY <1>2, <2>1, QuotientBound, SMT
  <2>3. v < TACH_FACTOR
    BY Word, SMT DEF U16_SIZE, TACH_FACTOR
  <2>4. TACH_FACTOR \div v \in Nat /\ TACH_FACTOR < v * (TACH_FACTOR \div v) + v
    BY <1>2, <2>1, Quotients
  <2>5. TACH_FACTOR \div v > 0
    BY <2>1, <2>3, <2>4, SMT
  <2> QED
    BY <1>2, <2>2, <2>4, <2>5, SMT DEF MIN_TACH_PULSE_PER_MIN
<1>3. v = 0 \/ v > 0
  BY Word, SMT DEF U16_SIZE
<1> QED
  BY <1>1, <1>2, <1>3

LEMMA SpeedRange ==
  ASSUME NEW v \in U16
  PROVE  /\ v >= MIN_SPEED_PULSE_PER_MIN <=> v > 0 /\ SPEED_FACTOR \div v < U16_SIZE
         /\ v > 0 => SPEED_FACTOR \div v \in Nat
<1>1. CASE v = 0
  BY <1>1, Word, SMT DEF U16_SIZE, MIN_SPEED_PULSE_PER_MIN
<1>2. CASE v > 0
  <2>1. v \in Nat /\ SPEED_FACTOR \in Nat /\ U16_SIZE \in Nat /\ SPEED_FACTOR < 2 * U16_SIZE /\ (2 - 1) * U16_SIZE <= SPEED_FACTOR
    BY Word, SMT DEF U16_SIZE, SPEED_FACTOR
  <2>2. v >= 2 <=> SPEED_FACTOR \div v < U16_SIZE
    BY <1>2, <2>1, QuotientBound, SMT
  <2>3. SPEED_FACTOR \div v \in Nat
    BY <1>2, <2>1, Quotients
  <2> QED
    BY <1>2, <2>2, <2>3, SMT DEF MIN_SPEED_PULSE_PER_MIN
<1>3. v = 0 \/ v > 0
  BY Word, SMT DEF U16_SIZE
<1> QED
  BY <1>1, <1>2, <1>3

\* A level reaches the output of its signal and no other.
LEMMA DacReached ==
  ASSUME NEW a \in Analog, NEW mv \in U16
  PROVE  LET word == DacWord(DacArgs(a)[2], mv) IN
         /\ DacOutput(DacArgs(a)[1], word) = a
         /\ DacLevel(word) = IF mv \in 0..(VREF_MV - 1) THEN (mv * 1024) \div VREF_MV ELSE 0
         /\ DacLevel(word) \in 0..1023
<1> DEFINE clamped == IF mv < VREF_MV THEN mv ELSE VREF_MV
           level == (clamped * 1024) \div VREF_MV
           low == (4 * level) % 4096
<1>1. /\ level \in 0..1024
      /\ mv < VREF_MV => level <= 1023 /\ level = (mv * 1024) \div VREF_MV
      /\ ~(mv < VREF_MV) => level = 1024
  <2>1. CASE mv < VREF_MV
    <3>1. level = (mv * 1024) \div VREF_MV
      BY <2>1
    <3>2. mv \in Int /\ 0 <= mv /\ mv < 5000
      BY <2>1, Word, SMT DEF U16_SIZE, VREF_MV
    <3>3. (mv * 1024) \div 5000 \in 0..1023
      BY <3>2, SMT
    <3> QED
      BY <2>1, <3>1, <3>3, SMT DEF VREF_MV
  <2>2. CASE ~(mv < VREF_MV)
    <3>1. level = (VREF_MV * 1024) \div VREF_MV
      BY <2>2
    <3> QED
      BY <2>2, <3>1, SMT DEF VREF_MV
  <2> QED
    BY <2>1, <2>2
<1> HIDE DEF level
<1>2. /\ low \in 0..4095
      /\ low \div 4 \in 0..1023
      /\ low \div 4 = IF mv < VREF_MV THEN level ELSE 0
  BY <1>1, SMT
<1> HIDE DEF low
<1>3. DacWord(DacArgs(a)[2], mv) = DacArgs(a)[2] + low
  BY DEF DacWord, low, level, clamped
<1>4. \/ a = 2 /\ DacArgs(a) = <<1, CONFA>>
      \/ a = 3 /\ DacArgs(a) = <<1, CONFB>>
      \/ a = 4 /\ DacArgs(a) = <<2, CONFA>>
      \/ a = 5 /\ DacArgs(a) = <<2, CONFB>>
  BY SMT DEF Analog, DacArgs
<1>5. /\ (CONFA + low) \div 32768 = 0 /\ (CONFA + low) % 4096 = low
      /\ (CONFB + low) \div 32768 = 1 /\ (CONFB + low) % 4096 = low
  BY <1>2, SMT DEF CONFA, CONFB
<1>6. mv \in 0..(VREF_MV - 1) <=> mv < VREF_MV
  <2>1. VREF_MV \in Nat
    BY SMT DEF VREF_MV
  <2> QED
    BY <2>1, Word, SMT
<1>7. DacOutput(DacArgs(a)[1], DacArgs(a)[2] + low) = a
  BY <1>4, <1>5, SMT DEF DacOutput
<1>8. DacLevel(DacArgs(a)[2] + low) = low \div 4
  BY <1>4, <1>5, SMT DEF DacLevel
<1> QED
  BY <1>1, <1>2, <1>3, <1>6, <1>7, <1>8, SMT

-----------------------------------------------------------------------------
(* Initial states and the hardware                                         *)

USE DEF Signals, NSIG, SIG_TACH, SIG_SPEED, Analog, Absent, Bad

LEMMA Initially == Init => IInv
<1> SUFFICES ASSUME Init PROVE IInv
  OBVIOUS
<1>1. TypeOK
  <2>1. NoFrame \in [Signals -> U16 \cup {Absent, Bad}]
    BY SMT DEF NoFrame
  <2>2. wanted \in [Signals -> U16 \cup {Absent}] /\ dac \in [Analog -> 0..1023]
    BY SMT DEF Init
  <2>3. {intf, tmr1ie, tmr1if, tach, tachSteady} \subseteq BOOLEAN /\ {tmr2ie, tmr2if, speed, speedSteady} \subseteq BOOLEAN
    BY Zenon DEF Init
  <2>4. pc = "main" /\ k \in 0..NSIG /\ tmr1Ctr \in 0..2 /\ tachRun \in Nat /\ tachLate \in Nat /\ speedRun \in Nat
    BY SMT DEF Init
  <2>5. tmr1 \in U16 /\ tmr1Start \in U16 /\ tmr2Period \in U16 /\ tmr2Ctr \in U16
    BY Word, SMT DEF Init, U16_SIZE
  <2> QED
    BY <2>1, <2>2, <2>3, <2>4, <2>5 DEF Init, TypeOK
<1>2. InHand
  BY DEF Init, InHand
<1>3. Following
  BY SMT DEF Init, Following, TachFollows, SpeedFollows, DacFollows, VREF_MV
<1>4. TachInStep /\ SpeedInStep
  BY SMT DEF Init, TachInStep, SpeedInStep, SpeedHalfPeriod
<1> QED
  BY <1>1, <1>2, <1>3, <1>4 DEF IInv

LEMMA OverflowKeeps == IInv /\ Tmr1Overflows => IInv'
<1> SUFFICES ASSUME IInv, Tmr1Overflows PROVE IInv'
  OBVIOUS
<1> TypeOK /\ InHand /\ Following /\ TachInStep /\ SpeedInStep
  BY DEF IInv
<1>a. /\ tachRun' = IF tachSteady' THEN tachRun + U16_SIZE - tmr1 ELSE 0
      /\ tachLate' = IF tachSteady' THEN tachLate ELSE 0
  BY DEF Tmr1Overflows
<1>0. tachSteady' \in BOOLEAN /\ (tachSteady' => tachSteady /\ ~tmr1if)
  BY Zenon DEF Tmr1Overflows
<1> DEFINE count == U16_SIZE - tmr1Start
<1>1. /\ tmr1 \in Nat /\ tmr1 < U16_SIZE /\ U16_SIZE \in Nat /\ tachRun \in Nat
      /\ count \in Nat /\ tmr1Ctr \in Nat /\ tmr1Start \in Nat /\ tachLate \in Nat
  <2>1. /\ tmr1 \in U16 /\ tmr1Start \in U16 /\ tmr1Ctr \in 0..2
        /\ tachRun \in Nat /\ tachLate \in Nat
    BY Zenon DEF TypeOK
  <2> QED
    BY <2>1, Word, SMT DEF U16_SIZE
<1>2. tachRun' \in Nat /\ tachLate' \in Nat
  BY <1>a, <1>1, SMT
<1> USE DEF Tmr1Overflows, isrVars, speedVars
<1>3. TypeOK'
  <2>1. tmr1' \in U16
    BY Word, SMT DEF U16_SIZE
  <2> QED
    BY <1>0, <1>2, <2>1, Zenon DEF TypeOK
<1>4. InHand' /\ Following'
  BY DEF InHand, Following, Handled, TachFollows, SpeedFollows, DacFollows
<1>5. ASSUME tachSteady' PROVE tachRun' = (tmr1Ctr + 1) * count + tachLate' + tmr1'
  <2>1. tachRun = tmr1Ctr * count + tachLate /\ tmr1 = tmr1Start
    BY <1>0, <1>5 DEF TachInStep
  <2>2. tachRun' = tachRun + count /\ tachLate' = tachLate /\ tmr1' = 0
    BY <1>a, <1>1, <1>5, <2>1, SMT
  <2>3. (tmr1Ctr + 1) * count = tmr1Ctr * count + count /\ tmr1Ctr * count \in Nat
    <3> HIDE DEF count
    <3> QED
      BY <1>1, SMT
  <2> QED
    BY <1>1, <2>1, <2>2, <2>3, SMT
<1>6. TachInStep'
  BY <1>5 DEF TachInStep
<1>7. SpeedInStep'
  BY DEF SpeedInStep, SpeedHalfPeriod
<1> QED
  BY <1>3, <1>4, <1>6, <1>7 DEF IInv

LEMMA CountsKeep == IInv /\ Tmr1Counts => IInv'
<1> SUFFICES ASSUME IInv, Tmr1Counts PROVE IInv'
  OBVIOUS
<1> TypeOK /\ InHand /\ Following /\ TachInStep /\ SpeedInStep
  BY DEF IInv
<1>0. PICK c \in Counts :
        tmr1 < c /\ tmr1' = c /\ tachRun' = IF tachSteady THEN tachRun + c - tmr1 ELSE 0
  BY DEF Tmr1Counts
<1>1. /\ tmr1 \in Nat /\ c \in U16 /\ c \in Nat
      /\ tachRun \in Nat /\ tachLate \in Nat /\ tmr1Ctr \in Nat
      /\ (tmr1Ctr + 1) * (U16_SIZE - tmr1Start) \in Int
  <2>1. tmr1 \in U16 /\ tmr1Start \in U16 /\ tmr1Ctr \in 0..2 /\ tachRun \in Nat /\ tachLate \in Nat
    BY Zenon DEF TypeOK
  <2>2. tmr1 \in Nat /\ c \in U16 /\ c \in Nat /\ tmr1Ctr + 1 \in Int /\ tmr1Ctr \in Nat
    BY <2>1, CountsAssumption, Word, SMT
  <2>3. U16_SIZE - tmr1Start \in Int
    BY <2>1, Word, SMT DEF U16_SIZE
  <2> QED
    BY <2>1, <2>2, <2>3, SMT
<1>2. tachRun' \in Nat
  BY <1>0, <1>1, SMT
<1> USE DEF Tmr1Counts, isrVars, speedVars
<1>3. TypeOK'
  BY <1>0, <1>1, <1>2 DEF TypeOK
<1>4. InHand' /\ Following'
  BY DEF InHand, Following, Handled, TachFollows, SpeedFollows, DacFollows
<1>5. TachInStep'
  <2>1. tmr1if /\ tmr1if' /\ tachSteady' = tachSteady /\ tachLate' = tachLate
    BY Zenon
  <2>2. ASSUME tachSteady
        PROVE  tachRun' = (tmr1Ctr + 1) * (U16_SIZE - tmr1Start) + tachLate + tmr1'
    <3>1. tachRun = (tmr1Ctr + 1) * (U16_SIZE - tmr1Start) + tachLate + tmr1
      BY <2>1, <2>2 DEF TachInStep
    <3>2. PICK full \in Int : full = (tmr1Ctr + 1) * (U16_SIZE - tmr1Start)
      BY <1>1
    <3> QED
      BY <1>0, <1>1, <2>2, <3>1, <3>2, SMT
  <2> QED
    BY <2>1, <2>2 DEF TachInStep
<1>6. SpeedInStep'
  BY DEF SpeedInStep, SpeedHalfPeriod
<1> QED
  BY <1>3, <1>4, <1>5, <1>6 DEF IInv

LEMMA MatchKeeps == IInv /\ Tmr2Matches => IInv'
<1> SUFFICES ASSUME IInv, Tmr2Matches PROVE IInv'
  OBVIOUS
<1> USE DEF IInv, Tmr2Matches, isrVars, tachVars
<1>0. speedSteady' \in BOOLEAN /\ (speedSteady' => speedSteady)
  BY Zenon
<1>1. TypeOK'
  BY <1>0, SMT DEF TypeOK
<1>2. InHand' /\ Following' /\ TachInStep' /\ SpeedInStep'
  BY <1>0 DEF InHand, Following, Handled, TachFollows, SpeedFollows, DacFollows,
         TachInStep, SpeedInStep, SpeedHalfPeriod
<1> QED
  BY <1>1, <1>2

LEMMA InterruptKeeps == IInv /\ CanInterrupts => IInv'
<1> SUFFICES ASSUME IInv, CanInterrupts PROVE IInv'
  OBVIOUS
<1> USE DEF IInv, CanInterrupts, isrVars, tachVars, speedVars
<1>1. TypeOK'
  BY SMT DEF TypeOK
<1>2. InHand' /\ Following' /\ TachInStep' /\ SpeedInStep'
  BY DEF InHand, Following, Handled, TachFollows, SpeedFollows, DacFollows,
         TachInStep, SpeedInStep, SpeedHalfPeriod
<1> QED
  BY <1>1, <1>2

-----------------------------------------------------------------------------
(* The CAN branch of isr()                                                 *)

LEMMA EnterKeeps == IInv /\ Enter => IInv'
<1> SUFFICES ASSUME IInv, Enter PROVE IInv'
  OBVIOUS
<1> USE DEF IInv, tachVars, speedVars
<1>1. TachInStep' /\ SpeedInStep'
  BY DEF Enter, TachInStep, SpeedInStep, SpeedHalfPeriod
<1>2. CASE intf
  <2>1. PICK f \in Frames \cup {NoFrame} :
          /\ pc = "main" /\ pc' = "signals"
          /\ frame' = f
          /\ wanted' = [s \in Signals |-> IF f[s] \in U16 THEN f[s] ELSE wanted[s]]
          /\ UNCHANGED <<k, intf, tachVars, speedVars, dac>>
    BY <1>2 DEF Enter
  <2>2. f \in [Signals -> U16 \cup {Absent, Bad}]
    BY FramesAssumption, SMT DEF NoFrame
  <2>3. TypeOK'
    BY <2>1, <2>2, SMT DEF TypeOK
  <2>4. InHand'
    BY <2>1 DEF InHand
  <2>5. \A s \in Signals : f[s] \notin U16 => wanted'[s] = wanted[s]
    BY <2>1
  <2>6. Following'
    <3>1. k = 0
      BY <2>1 DEF InHand
    <3>2. Handled(SIG_TACH)' => TachFollows'
      BY <2>1, <2>5, <3>1, SMT DEF Handled, Following, TachFollows
    <3>3. Handled(SIG_SPEED)' => SpeedFollows'
      BY <2>1, <2>5, <3>1, SMT DEF Handled, Following, SpeedFollows
    <3>4. ASSUME NEW a \in Analog, Handled(a)' PROVE DacFollows(a)'
      BY <2>1, <2>5, <3>1, <3>4, SMT DEF Handled, Following, DacFollows
    <3> QED
      BY <3>2, <3>3, <3>4 DEF Following
  <2> QED
    BY <1>1, <2>3, <2>4, <2>6
<1>3. CASE ~intf
  <2>1. pc = "main" /\ pc' = "tmr1" /\ UNCHANGED <<frame, wanted, k, intf, tachVars, speedVars, dac>>
    BY <1>3 DEF Enter
  <2>2. TypeOK'
    BY <2>1, SMT DEF TypeOK
  <2>3. InHand'
    BY <2>1 DEF InHand
  <2>4. Following'
    BY <2>1 DEF Following, Handled, TachFollows, SpeedFollows, DacFollows
  <2> QED
    BY <1>1, <2>2, <2>3, <2>4
<1> QED
  BY <1>2, <1>3

\* What one turn of the loop does to the signals it does not look at.
LEMMA Turn ==
  ASSUME TypeOK, InHand, HandleSignal
  PROVE  /\ InHand'
         /\ k \in Signals /\ k' = k + 1 /\ k' \in 0..NSIG
         /\ \A s \in Signals : s # k /\ Handled(s)' => Handled(s)
         /\ frame[k] \in U16 => wanted[k] = frame[k] /\ wanted'[k] = frame[k]
         /\ frame[k] \notin U16 => Handled(k)
<1> USE DEF HandleSignal
<1>1. k \in Signals /\ k' = k + 1 /\ k' \in 0..NSIG
  BY SMT DEF TypeOK
<1>2. InHand'
  BY DEF InHand
<1>3. \A s \in Signals : s # k /\ Handled(s)' => Handled(s)
  BY <1>1, SMT DEF Handled
<1> QED
  BY <1>1, <1>2, <1>3 DEF InHand, Handled

LEMMA SkipKeeps == IInv /\ SkipSignal => IInv'
<1> SUFFICES ASSUME IInv, SkipSignal PROVE IInv'
  OBVIOUS
<1>0. TypeOK /\ InHand /\ Following /\ TachInStep /\ SpeedInStep
  BY DEF IInv
<1>1. HandleSignal /\ frame[k] \notin U16 /\ UNCHANGED <<tachVars, speedVars, dac>>
  BY DEF SkipSignal
<1>2. /\ InHand' /\ k' \in 0..NSIG
      /\ \A s \in Signals : Handled(s)' => Handled(s)
  BY <1>0, <1>1, Turn
<1> USE DEF tachVars, speedVars, HandleSignal
<1>3. TypeOK'
  BY <1>0, <1>1, <1>2 DEF TypeOK
<1>4. Following'
  BY <1>0, <1>1, <1>2 DEF Following, TachFollows, SpeedFollows, DacFollows
<1>5. TachInStep' /\ SpeedInStep'
  BY <1>0, <1>1 DEF TachInStep, SpeedInStep, SpeedHalfPeriod
<1> QED
  BY <1>2, <1>3, <1>4, <1>5 DEF IInv

LEMMA DriveTachKeeps == IInv /\ DriveTach => IInv'
<1> SUFFICES ASSUME IInv, DriveTach PROVE IInv'
  OBVIOUS
<1>0. TypeOK /\ InHand /\ Following /\ TachInStep /\ SpeedInStep
  BY DEF IInv
<1> DEFINE v == frame[k]
           d == TACH_FACTOR \div v
<1>1. /\ HandleSignal /\ k = SIG_TACH /\ v \in U16
      /\ IF v < MIN_TACH_PULSE_PER_MIN
         THEN tmr1ie' = FALSE /\ UNCHANGED tmr1Start
         ELSE tmr1ie' = TRUE /\ tmr1Start' = (U16_SIZE - d) % U16_SIZE
      /\ tachSteady' = (tachSteady /\ tmr1Start' = tmr1Start)
      /\ tachRun' = IF tachSteady' THEN tachRun ELSE 0
      /\ tachLate' = IF tachSteady' THEN tachLate ELSE 0
      /\ UNCHANGED <<tmr1if, tmr1, tmr1Ctr, tach, speedVars, dac>>
      /\ UNCHANGED <<pc, frame, intf, wanted>>
  BY Zenon DEF DriveTach, HandleSignal
<1>2. /\ InHand' /\ k' \in 0..NSIG
      /\ \A s \in Signals : s # SIG_TACH /\ Handled(s)' => Handled(s)
      /\ wanted'[SIG_TACH] = v
  BY <1>0, <1>1, Turn
<1>3. /\ v \in Nat /\ (v >= MIN_TACH_PULSE_PER_MIN <=> v > 0 /\ d < U16_SIZE)
      /\ v > 0 => d \in Nat /\ d > 0
  BY <1>1, TachRange, Word
<1> HIDE DEF d, v
<1>4. ASSUME v < MIN_TACH_PULSE_PER_MIN
      PROVE  tmr1ie' \in BOOLEAN /\ tmr1Start' \in U16 /\ TachFollows'
  <2>1. tmr1ie' = FALSE /\ tmr1Start' = tmr1Start
    BY <1>1, <1>4
  <2>2. ~(v > 0 /\ d < U16_SIZE)
    BY <1>3, <1>4, SMT DEF MIN_TACH_PULSE_PER_MIN
  <2>3. tmr1Start' \in U16
    BY <1>0, <2>1 DEF TypeOK
  <2>4. TachFollows'
    BY <1>2, <2>1, <2>2 DEF TachFollows, d, v
  <2> QED
    BY <2>1, <2>3, <2>4
<1>5. ASSUME ~(v < MIN_TACH_PULSE_PER_MIN)
      PROVE  tmr1ie' \in BOOLEAN /\ tmr1Start' \in U16 /\ TachFollows'
  <2>1. v > 0 /\ d < U16_SIZE /\ d \in Nat /\ d > 0
    BY <1>3, <1>5, SMT DEF MIN_TACH_PULSE_PER_MIN
  <2>2. tmr1Start' = U16_SIZE - d /\ tmr1ie' = TRUE
    BY <1>1, <1>5, <2>1, SMT DEF U16_SIZE
  <2>3. tmr1Start' \in U16 /\ U16_SIZE - tmr1Start' = d
    BY <2>1, <2>2, Word, SMT DEF U16_SIZE
  <2>4. TachFollows'
    BY <1>2, <2>1, <2>2, <2>3 DEF TachFollows, d, v
  <2> QED
    BY <2>2, <2>3, <2>4
<1>6. tmr1ie' \in BOOLEAN /\ tmr1Start' \in U16 /\ TachFollows'
  BY <1>4, <1>5
<1>7. tachSteady' \in BOOLEAN /\ (tachSteady' => tachSteady /\ tmr1Start' = tmr1Start)
  BY <1>1, Zenon
<1>8. TypeOK'
  <2>1. tachRun' \in Nat /\ tachLate' \in Nat
    BY <1>0, <1>1 DEF TypeOK
  <2> QED
    BY <1>0, <1>1, <1>2, <1>6, <1>7, <2>1 DEF TypeOK, speedVars
<1>9. Following'
  BY <1>0, <1>1, <1>2, <1>6, SMT DEF Following, SpeedFollows, DacFollows, speedVars
<1>10. TachInStep' /\ SpeedInStep'
  BY <1>0, <1>1, <1>7 DEF TachInStep, SpeedInStep, SpeedHalfPeriod, speedVars
<1> QED
  BY <1>2, <1>8, <1>9, <1>10 DEF IInv

LEMMA DriveSpeedKeeps == IInv /\ DriveSpeed => IInv'
<1> SUFFICES ASSUME IInv, DriveSpeed PROVE IInv'
  OBVIOUS
<1>0. TypeOK /\ InHand /\ Following /\ TachInStep /\ SpeedInStep
  BY DEF IInv
<1> DEFINE v == frame[k]
           d == SPEED_FACTOR \div v
<1>1. /\ HandleSignal /\ k = SIG_SPEED /\ v \in U16
      /\ IF v < MIN_SPEED_PULSE_PER_MIN
         THEN tmr2ie' = FALSE /\ UNCHANGED tmr2Period
         ELSE tmr2ie' = TRUE /\ tmr2Period' = d % U16_SIZE
      /\ speedSteady' = (speedSteady /\ tmr2Period' = tmr2Period)
      /\ speedRun' = IF tmr2Period' = tmr2Period THEN speedRun ELSE 0
      /\ UNCHANGED <<tachVars, tmr2if, tmr2Ctr, speed, dac>>
      /\ UNCHANGED <<pc, frame, intf, wanted>>
  BY Zenon DEF DriveSpeed, HandleSignal
<1>2. /\ InHand' /\ k' \in 0..NSIG
      /\ \A s \in Signals : s # SIG_SPEED /\ Handled(s)' => Handled(s)
      /\ wanted'[SIG_SPEED] = v
  BY <1>0, <1>1, Turn
<1>3. /\ v \in Nat /\ (v >= MIN_SPEED_PULSE_PER_MIN <=> v > 0 /\ d < U16_SIZE)
      /\ v > 0 => d \in Nat
  BY <1>1, SpeedRange, Word
<1> HIDE DEF d, v
<1>4. ASSUME v < MIN_SPEED_PULSE_PER_MIN
      PROVE  tmr2ie' \in BOOLEAN /\ tmr2Period' \in U16 /\ SpeedFollows'
  <2>1. tmr2ie' = FALSE /\ tmr2Period' = tmr2Period
    BY <1>1, <1>4
  <2>2. ~(v > 0 /\ d < U16_SIZE)
    BY <1>3, <1>4, SMT DEF MIN_SPEED_PULSE_PER_MIN
  <2>3. tmr2Period' \in U16
    BY <1>0, <2>1 DEF TypeOK
  <2>4. SpeedFollows'
    BY <1>2, <2>1, <2>2 DEF SpeedFollows, d, v
  <2> QED
    BY <2>1, <2>3, <2>4
<1>5. ASSUME ~(v < MIN_SPEED_PULSE_PER_MIN)
      PROVE  tmr2ie' \in BOOLEAN /\ tmr2Period' \in U16 /\ SpeedFollows'
  <2>1. v > 0 /\ d < U16_SIZE /\ d \in Nat
    BY <1>3, <1>5, SMT DEF MIN_SPEED_PULSE_PER_MIN
  <2>2. tmr2Period' = d /\ tmr2ie' = TRUE
    BY <1>1, <1>5, <2>1, SMT DEF U16_SIZE
  <2>3. tmr2Period' \in U16
    BY <2>1, <2>2, Word
  <2>4. SpeedFollows'
    BY <1>2, <2>1, <2>2, <2>3 DEF SpeedFollows, d, v
  <2> QED
    BY <2>2, <2>3, <2>4
<1>6. tmr2ie' \in BOOLEAN /\ tmr2Period' \in U16 /\ SpeedFollows'
  BY <1>4, <1>5
<1>7. speedSteady' \in BOOLEAN /\ (speedSteady' => speedSteady /\ tmr2Period' = tmr2Period)
  BY <1>1, Zenon
<1>8. TypeOK'
  <2>1. speedRun' \in Nat
    BY <1>0, <1>1 DEF TypeOK
  <2> QED
    BY <1>0, <1>1, <1>2, <1>6, <1>7, <2>1 DEF TypeOK, tachVars
<1>9. Following'
  BY <1>0, <1>1, <1>2, <1>6, SMT DEF Following, TachFollows, DacFollows, tachVars
<1>10. TachInStep'
  BY <1>0, <1>1 DEF TachInStep, tachVars
<1>11. SpeedInStep'
  <2>1. CASE tmr2Period' = tmr2Period
    BY <1>0, <1>1, <1>7, <2>1 DEF SpeedInStep, SpeedHalfPeriod
  <2>2. CASE tmr2Period' # tmr2Period
    <3>1. speedRun' = 0 /\ ~speedSteady' /\ tmr2Ctr' = tmr2Ctr /\ tmr2Ctr \in Nat
      BY <1>0, <1>1, <1>7, <2>2, Word DEF TypeOK
    <3>2. SpeedHalfPeriod' > 0
      BY <1>6, Word, SMT DEF SpeedHalfPeriod
    <3> QED
      BY <3>1, <3>2, SMT DEF SpeedInStep
  <2> QED
    BY <2>1, <2>2
<1> QED
  BY <1>2, <1>8, <1>9, <1>10, <1>11 DEF IInv

LEMMA DriveAnalogKeeps == IInv /\ DriveAnalog => IInv'
<1> SUFFICES ASSUME IInv, DriveAnalog PROVE IInv'
  OBVIOUS
<1>0. TypeOK /\ InHand /\ Following /\ TachInStep /\ SpeedInStep
  BY DEF IInv
<1> DEFINE word == DacWord(DacArgs(k)[2], frame[k])
<1>1. /\ HandleSignal /\ k \in Analog /\ frame[k] \in U16
      /\ dac' = [dac EXCEPT ![DacOutput(DacArgs(k)[1], word)] = DacLevel(word)]
      /\ UNCHANGED <<tachVars, speedVars>>
      /\ UNCHANGED <<pc, frame, intf, wanted>>
  BY DEF DriveAnalog, HandleSignal
<1>2. /\ InHand' /\ k' \in 0..NSIG
      /\ \A s \in Signals : s # k /\ Handled(s)' => Handled(s)
      /\ wanted'[k] = frame[k]
  BY <1>0, <1>1, Turn
<1>3. /\ DacOutput(DacArgs(k)[1], word) = k
      /\ DacLevel(word) = IF frame[k] \in 0..(VREF_MV - 1) THEN (frame[k] * 1024) \div VREF_MV ELSE 0
      /\ DacLevel(word) \in 0..1023
  BY <1>1, DacReached
<1> HIDE DEF word
<1>4. dac \in [Analog -> 0..1023] /\ dac' = [dac EXCEPT ![k] = DacLevel(word)]
  BY <1>0, <1>1, <1>3 DEF TypeOK
<1>5. TypeOK'
  <2>1. dac' \in [Analog -> 0..1023]
    BY <1>1, <1>3, <1>4
  <2> QED
    BY <1>0, <1>1, <1>2, <2>1 DEF TypeOK, tachVars, speedVars
<1>6. Following'
  <2>1. ASSUME NEW a \in Analog, Handled(a)' PROVE DacFollows(a)'
    <3>1. CASE a = k
      BY <1>1, <1>2, <1>3, <1>4, <3>1 DEF DacFollows
    <3>2. CASE a # k
      BY <1>0, <1>1, <1>2, <1>4, <2>1, <3>2 DEF DacFollows, Following
    <3> QED
      BY <3>1, <3>2
  <2>2. (Handled(SIG_TACH)' => TachFollows') /\ (Handled(SIG_SPEED)' => SpeedFollows')
    BY <1>0, <1>1, <1>2, SMT DEF Following, TachFollows, SpeedFollows, tachVars, speedVars
  <2> QED
    BY <2>1, <2>2 DEF Following
<1>7. TachInStep' /\ SpeedInStep'
  BY <1>0, <1>1 DEF TachInStep, SpeedInStep, SpeedHalfPeriod, tachVars, speedVars
<1> QED
  BY <1>2, <1>5, <1>6, <1>7 DEF IInv

LEMMA EndCanKeeps == IInv /\ EndCan => IInv'
<1> SUFFICES ASSUME IInv, EndCan PROVE IInv'
  OBVIOUS
<1>0. TypeOK /\ InHand /\ Following /\ TachInStep /\ SpeedInStep
  BY DEF IInv
<1> USE DEF EndCan, CanDone, tachVars, speedVars
<1>1. TypeOK'
  <2>1. frame' \in [Signals -> U16 \cup {Absent, Bad}]
    BY SMT DEF NoFrame
  <2>2. k' \in 0..NSIG
    BY SMT
  <2> QED
    BY <1>0, <2>1, <2>2 DEF TypeOK
<1>2. InHand'
  BY DEF InHand
<1>3. Following'
  <2>1. \A s \in Signals : Handled(s)
    BY SMT DEF Handled
  <2> QED
    BY <1>0, <2>1, SMT DEF Following, TachFollows, SpeedFollows, DacFollows
<1>4. TachInStep' /\ SpeedInStep'
  BY <1>0 DEF TachInStep, SpeedInStep, SpeedHalfPeriod
<1> QED
  BY <1>1, <1>2, <1>3, <1>4 DEF IInv

-----------------------------------------------------------------------------
(* The timer branches of isr()                                             *)

\* They leave the settings alone.
LEMMA TimerBranch ==
  ASSUME IInv, pc # "signals", pc' # "signals",
         UNCHANGED <<k, frame, wanted, dac, tmr1ie, tmr1Start, tmr2ie, tmr2Period>>
  PROVE  InHand' /\ Following'
<1>1. InHand'
  BY DEF IInv, InHand
<1>2. Following'
  BY DEF IInv, Following, Handled, TachFollows, SpeedFollows, DacFollows
<1> QED
  BY <1>1, <1>2

LEMMA TachTickKeeps == IInv /\ TachTick => IInv'
<1> SUFFICES ASSUME IInv, TachTick PROVE IInv'
  OBVIOUS
<1>0. TypeOK /\ TachInStep /\ SpeedInStep
  BY DEF IInv
<1> USE DEF TachTick, ServeTmr1, speedVars
<1>1. InHand' /\ Following'
  BY TimerBranch
<1>2. tmr1Ctr \in 0..2 /\ tmr1Ctr' = tmr1Ctr + 1 /\ tmr1Ctr + 1 < 3
  <2>1. TMR1_POST \div EDGE_PER_PULSE = 3
    BY SMT DEF TMR1_POST, EDGE_PER_PULSE
  <2> QED
    BY <1>0, <2>1 DEF TypeOK
<1>3. TypeOK'
  <2>1. tmr1Ctr' \in 0..2
    BY <1>2, SMT
  <2>2. tachLate' \in Nat
    <3>1. tmr1 \in Nat /\ tachLate \in Nat
      BY <1>0, Word DEF TypeOK
    <3> QED
      BY <3>1, SMT
  <2> QED
    BY <1>0, <2>1, <2>2 DEF TypeOK
<1>4. TachInStep'
  <2>1. /\ tmr1if /\ tmr1if' = FALSE /\ tmr1' = tmr1Start /\ tmr1Start' = tmr1Start
        /\ tachSteady' = tachSteady /\ tachRun' = tachRun
        /\ tachLate' = IF tachSteady THEN tachLate + tmr1 ELSE 0
    BY Zenon
  <2>2. ASSUME tachSteady
        PROVE  tachRun' = tmr1Ctr' * (U16_SIZE - tmr1Start) + tachLate'
    <3>1. tachRun = (tmr1Ctr + 1) * (U16_SIZE - tmr1Start) + tachLate + tmr1
      BY <1>0, <2>1, <2>2 DEF TachInStep
    <3>2. PICK full \in Int : full = (tmr1Ctr + 1) * (U16_SIZE - tmr1Start)
      <4>1. U16_SIZE - tmr1Start \in Int /\ tmr1Ctr + 1 \in Int
        BY <1>0, <1>2, Word, SMT DEF TypeOK, U16_SIZE
      <4> QED
        BY <4>1, SMT
    <3>3. tmr1 \in Nat /\ tachLate \in Nat
      BY <1>0, Word DEF TypeOK
    <3> QED
      BY <1>2, <2>1, <2>2, <3>1, <3>2, <3>3, SMT
  <2> QED
    BY <2>1, <2>2 DEF TachInStep
<1>5. SpeedInStep'
  BY <1>0, <1>2 DEF SpeedInStep, SpeedHalfPeriod
<1> QED
  BY <1>1, <1>3, <1>4, <1>5 DEF IInv

LEMMA TachEdgeKeeps == IInv /\ TachEdge => IInv'
<1> SUFFICES ASSUME IInv, TachEdge PROVE IInv'
  OBVIOUS
<1>0. TypeOK /\ TachInStep /\ SpeedInStep
  BY DEF IInv
<1> USE DEF TachEdge, ServeTmr1, speedVars
<1>1. InHand' /\ Following'
  BY TimerBranch
<1>2. TypeOK'
  <2>1. tmr1Ctr' \in 0..2 /\ tachRun' \in Nat /\ tachLate' \in Nat /\ pc' \in {"main", "signals", "tmr1", "tmr2"}
    BY SMT
  <2>2. tach' \in BOOLEAN
    BY Zenon
  <2> QED
    BY <1>0, <2>1, <2>2 DEF TypeOK
<1>3. TachInStep'
  <2>1. U16_SIZE - tmr1Start \in Int
    BY <1>0, Word, SMT DEF TypeOK, U16_SIZE
  <2>2. 0 * (U16_SIZE - tmr1Start) = 0
    BY <2>1, SMT
  <2> QED
    BY <2>2 DEF TachInStep
<1>4. SpeedInStep'
  BY <1>0 DEF SpeedInStep, SpeedHalfPeriod
<1> QED
  BY <1>1, <1>2, <1>3, <1>4 DEF IInv

LEMMA NoTickKeeps == IInv /\ (NoTachTick \/ NoSpeedTick) => IInv'
<1> SUFFICES ASSUME IInv, NoTachTick \/ NoSpeedTick PROVE IInv'
  OBVIOUS
<1>0. TypeOK /\ TachInStep /\ SpeedInStep
  BY DEF IInv
<1> USE DEF NoTachTick, NoSpeedTick, tachVars, speedVars
<1>1. InHand' /\ Following'
  BY TimerBranch
<1>2. TypeOK' /\ TachInStep' /\ SpeedInStep'
  BY <1>0 DEF TypeOK, TachInStep, SpeedInStep, SpeedHalfPeriod
<1> QED
  BY <1>1, <1>2 DEF IInv

LEMMA SpeedTickKeeps == IInv /\ SpeedTick => IInv'
<1> SUFFICES ASSUME IInv, SpeedTick PROVE IInv'
  OBVIOUS
<1>0. TypeOK /\ TachInStep /\ SpeedInStep
  BY DEF IInv
<1> USE DEF SpeedTick, ServeTmr2, tachVars
<1>1. InHand' /\ Following'
  BY TimerBranch
<1>2. /\ tmr2Ctr \in Nat /\ speedRun \in Nat /\ tmr2Period \in Nat /\ tmr2Period < U16_SIZE
      /\ speedRun <= tmr2Ctr
  BY <1>0, Word DEF TypeOK, SpeedInStep
<1>3. tmr2Ctr + 1 < tmr2Period \div 2
  BY <1>2, SMT DEF IsSpeedEdge, EDGE_PER_PULSE
<1>4. TypeOK'
  <2>1. tmr2Ctr' \in Nat /\ tmr2Ctr' < U16_SIZE
    BY <1>2, <1>3, SMT DEF U16_SIZE
  <2>2. tmr2Ctr' \in U16 /\ speedRun' \in Nat
    BY <1>2, <2>1, Word, SMT
  <2> QED
    BY <1>0, <2>2 DEF TypeOK
<1>5. TachInStep'
  BY <1>0 DEF TachInStep
<1>6. SpeedInStep'
  BY <1>0, <1>2, <1>3, SMT DEF SpeedInStep, SpeedHalfPeriod
<1> QED
  BY <1>1, <1>4, <1>5, <1>6 DEF IInv

LEMMA SpeedEdgeKeeps == IInv /\ SpeedEdge => IInv'
<1> SUFFICES ASSUME IInv, SpeedEdge PROVE IInv'
  OBVIOUS
<1>0. TypeOK /\ TachInStep /\ SpeedInStep
  BY DEF IInv
<1> USE DEF SpeedEdge, ServeTmr2, tachVars
<1>1. InHand' /\ Following'
  BY TimerBranch
<1>2. TypeOK'
  <2>1. tmr2Ctr' \in U16 /\ speedRun' \in Nat /\ pc' \in {"main", "signals", "tmr1", "tmr2"}
    BY Word, SMT DEF U16_SIZE
  <2>2. speed' \in BOOLEAN
    BY Zenon
  <2>3. {tmr2ie, tmr2if, speed, speedSteady}' \subseteq BOOLEAN
    BY <1>0, <2>2, Zenon DEF TypeOK
  <2> QED
    BY <1>0, <2>1, <2>3 DEF TypeOK
<1>3. TachInStep'
  BY <1>0 DEF TachInStep
<1>4. SpeedInStep'
  <2>1. tmr2Period \in Nat
    BY <1>0, Word DEF TypeOK
  <2> QED
    BY <2>1, SMT DEF SpeedInStep, SpeedHalfPeriod
<1> QED
  BY <1>1, <1>2, <1>3, <1>4 DEF IInv

-----------------------------------------------------------------------------
(* Theorems                                                                *)

LEMMA StepKeeps == IInv /\ [Next]_vars => IInv'
<1> SUFFICES ASSUME IInv, [Next]_vars PROVE IInv'
  OBVIOUS
<1>1. CASE UNCHANGED vars
  <2>1. TypeOK'
    BY <1>1 DEF IInv, vars, TypeOK
  <2>2. InHand' /\ Following' /\ TachInStep' /\ SpeedInStep'
    BY <1>1 DEF IInv, vars, InHand, Following, Handled, TachFollows, SpeedFollows, DacFollows,
                TachInStep, SpeedInStep, SpeedHalfPeriod
  <2> QED
    BY <2>1, <2>2 DEF IInv
<1>2. CASE Enter \/ SkipSignal \/ DriveTach \/ DriveSpeed \/ DriveAnalog \/ EndCan
  BY <1>2, EnterKeeps, SkipKeeps, DriveTachKeeps, DriveSpeedKeeps, DriveAnalogKeeps, EndCanKeeps
<1>3. CASE TachTick \/ TachEdge \/ NoTachTick \/ SpeedTick \/ SpeedEdge \/ NoSpeedTick
  BY <1>3, TachTickKeeps, TachEdgeKeeps, NoTickKeeps, SpeedTickKeeps, SpeedEdgeKeeps
<1>4. CASE Tmr1Overflows \/ Tmr1Counts \/ Tmr2Matches \/ CanInterrupts
  BY <1>4, OverflowKeeps, CountsKeep, MatchKeeps, InterruptKeeps
<1> QED
  BY <1>1, <1>2, <1>3, <1>4 DEF Next, IsrStep

\* The invariant the rest follows from, for frames with any values.
THEOREM Invariance == Spec => []IInv
<1>1. Init => IInv
  BY Initially
<1>2. IInv /\ [Next]_vars => IInv'
  BY StepKeeps
<1> QED
  BY <1>1, <1>2, PTL DEF Spec

\* No start of TMR1, period of TMR2, counter or level leaves its register.
THEOREM TypeCorrect == Spec => []TypeOK
<1>1. IInv => TypeOK
  BY DEF IInv
<1> QED
  BY <1>1, Invariance, PTL

\* Outside the handler of a frame both waves are set to the last value for their
\* signal, for every 16-bit value, and so is the level of an analog output whose last
\* value is below 5 V; whatever the tables hold and whichever signals of a frame fail.
THEOREM OutputsAreTrue == Spec => []OutputsFollow
<1>1. IInv => OutputsFollow
  BY DEF IInv, Following, Handled, OutputsFollow
<1> QED
  BY <1>1, Invariance, PTL

\* However the period changes, the speedometer's next edge is at most half a
\* period of the new one away.
THEOREM EdgesComeInTime == Spec => []NoLateEdge
<1>1. IInv => NoLateEdge
  BY DEF IInv, SpeedInStep, NoLateEdge
<1> QED
  BY <1>1, Invariance, PTL

\* The edges of a wave that is on are as far apart as its setting says: of the
\* tachometer's, for every delay with which isr() serves its overflows, as much
\* further as these delays add up to; of the speedometer's, half a period rounded.
THEOREM EdgesComeAsSet == Spec => EdgesOnTime
<1> DEFINE Even == /\ TachEdgeComes => tachRun = 3 * (U16_SIZE - tmr1Start) + tachLate + tmr1
                   /\ SpeedEdgeComes => speedRun + 1 = SpeedHalfPeriod
<1>1. ASSUME IInv, [Next]_vars PROVE [Even]_vars
  <2>0. TypeOK /\ TachInStep /\ SpeedInStep
    BY <1>1 DEF IInv
  <2>1. ASSUME tach' # tach, tachSteady
        PROVE  tachRun = 3 * (U16_SIZE - tmr1Start) + tachLate + tmr1
    <3>1. TachEdge
      BY <1>1, <2>1 DEF Next, IsrStep, Enter, SkipSignal, DriveTach, DriveSpeed, DriveAnalog,
                        EndCan, TachTick, NoTachTick, SpeedTick, SpeedEdge, NoSpeedTick,
                        ServeTmr2, Tmr1Overflows, Tmr1Counts, Tmr2Matches, CanInterrupts,
                        vars, tachVars
    <3>2. tmr1if /\ tmr1Ctr + 1 >= TMR1_POST \div EDGE_PER_PULSE
      BY <3>1 DEF TachEdge, ServeTmr1
    <3>3. tmr1Ctr + 1 = 3
      BY <2>0, <3>2, SMT DEF TypeOK, TMR1_POST, EDGE_PER_PULSE
    <3> QED
      BY <2>0, <2>1, <3>2, <3>3 DEF TachInStep
  <2>2. ASSUME speed' # speed, speedSteady PROVE speedRun + 1 = SpeedHalfPeriod
    <3>1. SpeedEdge
      BY <1>1, <2>2 DEF Next, IsrStep, Enter, SkipSignal, DriveTach, DriveSpeed, DriveAnalog,
                        EndCan, TachTick, TachEdge, ServeTmr1, NoTachTick, SpeedTick, NoSpeedTick,
                        Tmr1Overflows, Tmr1Counts, Tmr2Matches, CanInterrupts, vars, speedVars
    <3>2. tmr2Ctr + 1 >= tmr2Period \div 2
      BY <3>1, SMT DEF SpeedEdge, IsSpeedEdge, EDGE_PER_PULSE
    <3>3. /\ speedRun = tmr2Ctr /\ speedRun < SpeedHalfPeriod
          /\ speedRun \in Nat /\ tmr2Period \in Nat
      BY <2>0, <2>2, Word DEF TypeOK, SpeedInStep
    <3> QED
      BY <3>2, <3>3, SMT DEF SpeedHalfPeriod
  <2> QED
    BY <2>1, <2>2 DEF TachEdgeComes, SpeedEdgeComes
<1> QED
  BY <1>1, Invariance, PTL DEF Spec, EdgesOnTime
=============================================================================
