------------------------------ MODULE SigPluck ------------------------------
(***************************************************************************)
(* Extraction of a signal from the DATA FIELD of a frame: sigPluck() with  *)
(* the loops of pluckLE() and pluckBE(), one step an iteration.            *)
(*                                                                         *)
(* Data are symbolic.  A bit of the result is not 0 or 1 but the set of    *)
(* data bits that were OR-ed into it, so a check of one signal format      *)
(* covers every frame.  Bit b of the DATA FIELD is bit b % 8 of byte b/8.  *)
(*                                                                         *)
(* The names of the specification are prefixed: a module can extend this   *)
(* one and TableLookup, what handleSigFrame() does with a signal next.     *)
(***************************************************************************)
EXTENDS Naturals, FiniteSets

CONSTANTS
  BYTE,    \* bits of a byte
  WORD,    \* bits of the result
  MaxDlc   \* bytes a DATA FIELD can have

ASSUME PluckWidthsAssumption ==
  BYTE \in Nat \ {0} /\ WORD \in Nat \ {0} /\ MaxDlc \in Nat

VARIABLES
  pluckPc,     \* "check", "pluck" or "done"
  sig,         \* the signal's format: start, size, order, isSigned
  dlc,         \* length of the frame's DATA FIELD
  i,           \* loop counter: the first data bit not looked at yet
  raw,         \* the result: for each bit the data bits OR-ed into it
  pluckStatus  \* what sigPluck() returned

pluckVars == <<pluckPc, sig, dlc, i, raw, pluckStatus>>

\* setSigFmt() takes any start and size, so those beyond the field occur too.
Formats == [start : 0..(BYTE * MaxDlc), size : 0..(BYTE * MaxDlc + 1),
            order : {"LITTLE_ENDIAN", "BIG_ENDIAN"}, isSigned : BOOLEAN]

Bits == 0..(BYTE * MaxDlc - 1)
Word == 0..(WORD - 1)
Zero == [j \in Word |-> {}]

end == sig.start + sig.size

PluckInit ==
  /\ pluckPc = "check"
  /\ sig \in Formats
  /\ dlc \in 0..MaxDlc
  /\ i = 0
  /\ raw = Zero
  /\ pluckStatus = "none"

\* The preconditions of sigPluck().
StartsOutside == sig.start >= BYTE * dlc

\* (Mutant: the room is counted from the start of the field.)
ExtendsOutsideField == sig.size > BYTE * dlc
ExtendsOutside == sig.size > (BYTE * dlc) - sig.start
Empty == sig.size < 1

Refuse ==
  /\ pluckPc = "check"
  /\ StartsOutside \/ ExtendsOutside \/ Empty
  /\ pluckPc' = "done"
  /\ pluckStatus' = "FAIL"
  /\ UNCHANGED <<sig, dlc, i, raw>>

Begin ==
  /\ pluckPc = "check"
  /\ ~(StartsOutside \/ ExtendsOutside \/ Empty)
  /\ pluckPc' = "pluck"
  /\ i' = sig.start
  /\ raw' = Zero
  /\ UNCHANGED <<sig, dlc, pluckStatus>>

\* (Mutant: every byte is taken to start at its bit 0.)
NextByteAligned == i + BYTE

\* (Mutant: rounded up, which leaves the start of a byte where it is.)
RoundUp == i + ((BYTE - (i % BYTE)) % BYTE)

\* Where the byte after this one starts: i += 8 - i % 8.
NextByte == i + (BYTE - (i % BYTE))

\* The data bits of this iteration: the rest of the byte, less those past end.
Upto == IF i \div BYTE = end \div BYTE THEN end ELSE NextByte

\* byte << by, for a byte that holds the data bits from i up to Upto.
Shifted(by) == [j \in Word |-> {b \in i..(Upto - 1) : b - i + by = j}]

Or(x, y) == [j \in Word |-> x[j] \cup y[j]]

\* A shift by the width of the word or more is undefined in C: it gives 0, as
\* the PIC's shift loops do, or shifts by the remainder, as a PC does.
Shift(by) == IF by < WORD THEN {Shifted(by)} ELSE {Zero, Shifted(by % WORD)}

PluckLE ==
  /\ pluckPc = "pluck" /\ sig.order = "LITTLE_ENDIAN" /\ i < end
  /\ \E byte \in Shift(i - sig.start) : raw' = Or(raw, byte)
  /\ i' = NextByte
  /\ UNCHANGED <<pluckPc, sig, dlc, pluckStatus>>

\* (Mutant: room for a whole byte, also when the signal ends within it.)
ShiftRawWholeByte(by) == [j \in Word |-> IF j < BYTE THEN {} ELSE raw[j - BYTE]]

\* raw << by
ShiftRaw(by) == [j \in Word |-> IF j < by THEN {} ELSE raw[j - by]]

PluckBE ==
  /\ pluckPc = "pluck" /\ sig.order = "BIG_ENDIAN" /\ i < end
  /\ raw' = Or(ShiftRaw(Upto - i), Shifted(0))
  /\ i' = NextByte
  /\ UNCHANGED <<pluckPc, sig, dlc, pluckStatus>>

\* The bits above the signal stay 0, whatever sig.isSigned says.
Finish ==
  /\ pluckPc = "pluck"
  /\ i >= end
  /\ pluckPc' = "done"
  /\ pluckStatus' = "OK"
  /\ UNCHANGED <<sig, dlc, i, raw>>

PluckNext == Refuse \/ Begin \/ PluckLE \/ PluckBE \/ Finish

PluckSpec == PluckInit /\ [][PluckNext]_pluckVars

PluckFairSpec == PluckSpec /\ WF_pluckVars(PluckNext)

-----------------------------------------------------------------------------
(* Properties                                                              *)

PluckTypeOK ==
  /\ pluckPc \in {"check", "pluck", "done"}
  /\ sig \in Formats
  /\ dlc \in 0..MaxDlc
  /\ i \in 0..(BYTE * MaxDlc)
  /\ raw \in [Word -> SUBSET Bits]
  /\ pluckStatus \in {"none", "OK", "FAIL"}

\* The order of significance, low to high: by position for little-endian; for
\* big-endian later bytes are lower, and positions count within a byte.
LessSignificant(b, c) ==
  IF sig.order = "LITTLE_ENDIAN" \/ b \div BYTE = c \div BYTE
  THEN b < c ELSE b > c

SignalBits == sig.start..(end - 1)

\* The signal's value, without reference to any loop: each of its bits goes
\* where the number of its bits of lower significance says.
Value == [j \in Word |->
           {b \in SignalBits : Cardinality({c \in SignalBits : LessSignificant(c, b)}) = j}]

\* The loops put every bit of the signal where its byte order says, wherever the
\* signal starts and ends within bytes, if the word can hold it; and the bits above
\* an unsigned signal are 0.  (Nothing is said of the bits above a signed one, see
\* SignRespected; and sig.start is the lowest position of the signal's first byte,
\* as signal.c and testPluckBE of its unit tests have it, see StartAsInDbc.)
PlucksValue ==
  pluckStatus = "OK" /\ sig.size <= WORD =>
    \A j \in Word : j < sig.size \/ ~sig.isSigned => raw[j] = Value[j]

\* The claim of calfmt.ms:202-213, "Sign specifies the signal as being of type
\* unsigned or signed": the bits above a signed one are copies of its highest bit.
SignRespected ==
  pluckStatus = "OK" /\ sig.size <= WORD /\ sig.isSigned =>
    \A j \in Word : j >= sig.size => raw[j] = Value[sig.size - 1]

\* The position of a bit counted from the highest bit of byte 0 downwards.
Sawtooth(b) == (b \div BYTE) * BYTE + (BYTE - 1) - (b % BYTE)

\* The claim of calfmt.ms:176-180, "Start [...] corresponds to start_bit in DBC": the
\* start bit of a big-endian signal is its highest, and the lower ones follow it
\* downwards and into the next byte (if they are all within the frame).
StartAsInDbc ==
  /\ pluckStatus = "OK" /\ sig.size <= WORD /\ sig.order = "BIG_ENDIAN"
  /\ Sawtooth(sig.start) + sig.size <= BYTE * dlc
  => \A j \in Word : j < sig.size =>
       raw[j] = {b \in Bits : Sawtooth(b) + j + 1 = Sawtooth(sig.start) + sig.size}

\* sigPluck() fails exactly when the signal is empty or not within the frame.
FailsOutside ==
  pluckPc = "done" =>
    (pluckStatus = "OK" <=> SignalBits # {} /\ SignalBits \subseteq 0..(BYTE * dlc - 1))

\* No iteration looks at a byte the frame does not have.
ReadsWithinFrame == pluckPc = "pluck" /\ i < end => i \div BYTE < dlc

\* Every extraction comes to an end, with the loop counter stepping past end.
Ends == <>(pluckPc = "done")
=============================================================================
