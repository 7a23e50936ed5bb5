---------------------------- MODULE TableLookup ----------------------------
(***************************************************************************)
(* tabLookup(): the value of a gauge for the raw value of a signal, by a   *)
(* scan of a calibration table in the EEPROM and interpolation in the      *)
(* arithmetic of the PIC.  The table may hold anything: a device that was  *)
(* never calibrated is blank, and one that is being calibrated has a table *)
(* of which some rows are new and some are old.                            *)
(***************************************************************************)
EXTENDS Integers

CONSTANTS
  TAB_ROWS,  \* rows of a table
  HALF,      \* I32 is -HALF to HALF-1
  VALS       \* U16 is 0 to VALS-1

ASSUME RowsAssumption == TAB_ROWS \in Nat \ {0}
\* An I32 holds every U16.
ASSUME WidthsAssumption == HALF \in Nat \ {0} /\ VALS \in 1..HALF

VARIABLES
  tab,     \* the table
  key,     \* what is looked up
  pc,      \* "scan", "interp" or "done"
  row,     \* the row of this iteration
  val,     \* *val
  status   \* what tabLookup() returned

vars == <<tab, key, pc, row, val, status>>

Rows == 0..(TAB_ROWS - 1)
I32 == -HALF..(HALF - 1)
U16 == 0..(VALS - 1)
Row == [key : I32, val : U16]

\* What fits no I32 wraps around: XC8 adds and multiplies modulo the word.
Wrap(n) == ((n + HALF) % (2 * HALF)) - HALF

\* C's division: towards zero.
Quotient(a, b) ==
  IF (a < 0) = (b < 0)
  THEN (IF a < 0 THEN -a ELSE a) \div (IF b < 0 THEN -b ELSE b)
  ELSE -((IF a < 0 THEN -a ELSE a) \div (IF b < 0 THEN -b ELSE b))

\* The differences of interp(), for the row above the key and one below it.
Run(upper, lower) == Wrap(lower.key - upper.key)
Reach(upper) == Wrap(key - upper.key)
Rise(upper, lower) == lower.val - upper.val

\* (Mutant: added to the wrong end.)
InterpFromLower(upper, lower) ==
  Wrap(lower.val + Quotient(Wrap(Rise(upper, lower) * Reach(upper)), Run(upper, lower))) % VALS

interp(upper, lower) ==
  Wrap(upper.val + Quotient(Wrap(Rise(upper, lower) * Reach(upper)), Run(upper, lower))) % VALS

Init ==
  /\ tab \in [Rows -> Row]
  /\ key \in I32
  /\ pc = "scan"
  /\ row = 0
  /\ val = 0
  /\ status = "none"

Return(s) ==
  /\ pc' = "done"
  /\ status' = s
  /\ UNCHANGED <<tab, key, row>>

\* tabRead() fails, of this row or of the one before.
ReadFails ==
  /\ pc \in {"scan", "interp"}
  /\ Return("FAIL")
  /\ UNCHANGED val

Exact ==
  /\ pc = "scan"
  /\ key = tab[row].key
  /\ val' = tab[row].val
  /\ Return("OK")

\* The key is below that of the first row.
BelowFirst ==
  /\ pc = "scan"
  /\ key < tab[row].key
  /\ row = 0
  /\ val' = tab[row].val
  /\ Return("OK")

Between ==
  /\ pc = "scan"
  /\ key < tab[row].key
  /\ row > 0
  /\ pc' = "interp"
  /\ UNCHANGED <<tab, key, row, val, status>>

Interpolate ==
  /\ pc = "interp"
  /\ val' = interp(tab[row], tab[row - 1])
  /\ Return("OK")

\* (Mutant: an equal key goes on to the next row.)
AboveOrEqual == key >= tab[row].key
Above == key > tab[row].key

NextRow ==
  /\ pc = "scan"
  /\ Above
  /\ row < TAB_ROWS - 1
  /\ row' = row + 1
  /\ UNCHANGED <<tab, key, pc, val, status>>

\* The key is above the last row's.
AboveLast ==
  /\ pc = "scan"
  /\ Above
  /\ row = TAB_ROWS - 1
  /\ val' = tab[row].val
  /\ Return("OK")

Next ==
  \/ ReadFails \/ Exact \/ BelowFirst \/ Between \/ Interpolate
  \/ NextRow \/ AboveLast

Spec == Init /\ [][Next]_vars

-----------------------------------------------------------------------------
(* Properties                                                              *)

TypeOK ==
  /\ tab \in [Rows -> Row]
  /\ key \in I32
  /\ pc \in {"scan", "interp", "done"}
  /\ row \in Rows
  /\ pc = "interp" => row > 0
  /\ val \in U16
  /\ status \in {"none", "OK", "FAIL"}

\* interp() never divides by zero, nor the least number by -1, whatever the
\* table holds: keys that repeat or fall, or differ by more than an I32.
DivisionDefined == pc = "interp" => Run(tab[row], tab[row - 1]) \notin {0, -1}

\* Keys ascend; the last row may be repeated to fill the table.
Ordered == \A r, s \in Rows : r < s => tab[r].key < tab[s].key \/ tab[r] = tab[s]

\* The rows next to the key in the order of keys, wherever they are.
Below == {r \in Rows : tab[r].key < key}
Beyond == {r \in Rows : tab[r].key > key}
Equal == {r \in Rows : tab[r].key = key}
Nearest(r, S) == r \in S /\ \A s \in S : tab[r].key <= tab[s].key
Highest(r, S) == r \in S /\ \A s \in S : tab[r].key >= tab[s].key

\* The value lies on the line between two rows, less than one unit off.
OnLine(lo, hi) ==
  LET run == tab[hi].key - tab[lo].key
      off == val * run - (tab[lo].val * (tab[hi].key - key) + tab[hi].val * (key - tab[lo].key))
  IN  -run < off /\ off < run

\* The value is the one of the row with this key, or on the line between the
\* neighbours, or that of the nearest row if all of them are on one side.
Interpolates ==
  IF Equal # {} THEN \E r \in Equal : val = tab[r].val
  ELSE IF Below = {} THEN \E r \in Rows : Nearest(r, Beyond) /\ val = tab[r].val
  ELSE IF Beyond = {} THEN \E r \in Rows : Highest(r, Below) /\ val = tab[r].val
  ELSE \E lo, hi \in Rows : Highest(lo, Below) /\ Nearest(hi, Beyond) /\ OnLine(lo, hi)

\* Nothing overflows in interp(): the difference of the two rows' keys and the product
\* are I32s.  (The difference to the key lies between the former and 0.)
NoOverflow(upper, lower) ==
  /\ lower.key - upper.key \in I32
  /\ (lower.val - upper.val) * (key - upper.key) \in I32

\* This is so of the key's neighbours; of the tables in src/sw/cal/example, at any key.
Fits ==
  \A r \in Rows \ {0} :
    tab[r - 1].key < key /\ key < tab[r].key => NoOverflow(tab[r], tab[r - 1])

\* In a table in order, at a key where nothing overflows, the scan finds the
\* function that the table describes.
LookupInterpolates == status = "OK" /\ Ordered /\ Fits => Interpolates

\* The claim of table.h:40-41, "If key falls between two rows, the value is
\* interpolated from the two adjacent", for every table in order.
LookupAsPromised == status = "OK" /\ Ordered => Interpolates
=============================================================================
