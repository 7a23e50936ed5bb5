---------------------------- MODULE SignalProofs ----------------------------
(***************************************************************************)
(* Proofs about the two calculations handleSigFrame() makes of a frame:    *)
(* the raw value of the signal (SigPluck) and the gauge's value that the   *)
(* table gives for it (TableLookup).  They hold for any width of byte,     *)
(* word, key and value, any length of frame and any number of rows.        *)
(*                                                                         *)
(* That interp() never divides by zero or overflows in its division does   *)
(* not depend on what the table holds: the scan itself puts the key        *)
(* strictly between the two rows, two apart at the least.                  *)
(***************************************************************************)
EXTENDS SigPluck, TableLookup, FiniteSetTheorems, TLAPS

-----------------------------------------------------------------------------
(* The lookup in a table, and the arithmetic of both.                      *)

LEMMA WrapOnce ==
  ASSUME NEW n \in Int, -(2 * HALF) < n, n < 0
  PROVE  Wrap(n) = n \/ Wrap(n) = n + 2 * HALF
<1>1. HALF \in Nat \ {0}
  BY WidthsAssumption
<1>2. CASE 0 <= n + HALF
  <2>1. (n + HALF) % (2 * HALF) = n + HALF
    BY <1>1, <1>2
  <2> QED
    BY <1>1, <2>1 DEF Wrap
<1>3. CASE n + HALF < 0
  <2>1. (n + HALF) % (2 * HALF) = n + HALF + 2 * HALF
    BY <1>1, <1>3
  <2> QED
    BY <1>1, <2>1 DEF Wrap
<1> QED
  BY <1>1, <1>2, <1>3

LEMMA WrapFits == ASSUME NEW n \in Int, -HALF <= n, n < HALF PROVE Wrap(n) = n
<1>1. HALF \in Nat \ {0} /\ n + HALF \in Nat /\ n + HALF < 2 * HALF
  BY WidthsAssumption
<1>2. (n + HALF) % (2 * HALF) = n + HALF
  BY <1>1
<1> QED
  BY <1>1, <1>2 DEF Wrap

LEMMA WrapType == ASSUME NEW n \in Int PROVE Wrap(n) \in Int
<1>1. 2 * HALF \in Nat \ {0} /\ HALF \in Int
  BY WidthsAssumption
<1>2. \A m \in Nat \ {0} : (n + HALF) % m \in Int
  BY <1>1
<1> QED
  BY <1>1, <1>2 DEF Wrap

\* The rows that the scan has passed have smaller keys.
Passed == \A r \in Rows : r < row => tab[r].key < key

\* An interpolation is between the row found and the one before it.
Bracketed == pc = "interp" => row > 0 /\ key < tab[row].key

Unfinished == pc # "done" => status = "none"

IInv ==
  /\ TypeOK
  /\ Passed
  /\ Bracketed
  /\ Unfinished
  /\ LookupInterpolates

LEMMA Typed ==
  ASSUME TypeOK, NEW r \in Rows
  PROVE  /\ tab[r].key \in Int /\ -HALF <= tab[r].key /\ tab[r].key < HALF
         /\ tab[r].val \in U16 /\ tab[r].val \in Int
         /\ key \in Int /\ HALF \in Nat \ {0}
<1>1. tab[r].key \in I32 /\ tab[r].val \in U16 /\ key \in I32
  BY DEF TypeOK, Row
<1> QED
  BY <1>1, WidthsAssumption DEF I32, U16

LEMMA RowsType ==
  ASSUME TypeOK
  PROVE  row \in Int /\ TAB_ROWS \in Int /\ 0 <= row /\ row < TAB_ROWS
BY RowsAssumption DEF TypeOK, Rows

\* Two rows with a key strictly between them have a run that can be divided by.
LEMMA RunDefined ==
  ASSUME IInv, pc = "interp"
  PROVE  Run(tab[row], tab[row - 1]) \in Int \ {0, -1}
<1> DEFINE n == tab[row - 1].key - tab[row].key
<1>1. row \in Rows /\ row - 1 \in Rows
  BY RowsType DEF IInv, Bracketed, Rows
<1>2. tab[row - 1].key < key /\ key < tab[row].key
  BY <1>1, RowsType DEF IInv, Passed, Bracketed
<1>3. n \in Int /\ -(2 * HALF) < n /\ n <= -2 /\ HALF \in Nat \ {0}
  <2>1. /\ tab[row].key \in Int /\ tab[row].key < HALF
        /\ key \in Int /\ HALF \in Nat \ {0}
    BY <1>1, Typed DEF IInv
  <2>2. tab[row - 1].key \in Int /\ -HALF <= tab[row - 1].key
    BY <1>1, Typed DEF IInv
  <2> QED
    BY <1>2, <2>1, <2>2
<1>4. Wrap(n) = n \/ Wrap(n) = n + 2 * HALF
  BY <1>3, WrapOnce
<1> QED
  BY <1>3, <1>4 DEF Run

LEMMA ProductOrder ==
  ASSUME NEW x \in Int, NEW y \in Int, NEW z \in Nat, x <= y
  PROVE  x * z <= y * z
<1>1. (y - x) * z >= 0
  <2>1. PICK w \in Nat : w = y - x
    OBVIOUS
  <2>2. w * z >= 0
    OBVIOUS
  <2> QED
    BY <2>1, <2>2
<1>2. (y - x) * z = y * z - x * z
  OBVIOUS
<1>3. x * z \in Int /\ y * z \in Int
  OBVIOUS
<1> QED
  BY <1>1, <1>2, <1>3

LEMMA ProductCancel ==
  ASSUME NEW x \in Int, NEW y \in Int, NEW z \in Nat \ {0}, x * z <= y * z
  PROVE  x <= y
<1> SUFFICES ASSUME y < x PROVE FALSE
  OBVIOUS
<1>1. (y + 1) * z <= x * z
  BY ProductOrder
<1>2. (y + 1) * z = y * z + z
  OBVIOUS
<1>3. x * z \in Int /\ y * z \in Int
  OBVIOUS
<1> QED
  BY <1>1, <1>2, <1>3

LEMMA Division ==
  ASSUME NEW x \in Nat, NEW r \in Nat \ {0}
  PROVE  /\ x \div r \in Nat
         /\ (x \div r) * r <= x /\ x < (x \div r) * r + r
<1>1. x \div r \in Int
  OBVIOUS
<1>2. (x \div r) * r <= x /\ x < (x \div r) * r + r
  OBVIOUS
<1>3. x \div r >= 0
  OBVIOUS
<1> QED
  BY <1>1, <1>2, <1>3

LEMMA Truncates ==
  ASSUME NEW m \in Int, NEW r \in Nat \ {0}, NEW q, q = Quotient(-m, -r)
  PROVE  /\ q \in Int
         /\ -r < q * r - m /\ q * r - m < r
         /\ m >= 0 => 0 <= q /\ q * r <= m
         /\ m < 0 => q <= 0 /\ m <= q * r
<1>1. CASE m >= 0
  <2>1. Quotient(-m, -r) = m \div r
    <3>1. CASE m > 0
      BY <3>1 DEF Quotient
    <3>2. CASE m = 0
      <4>1. Quotient(-m, -r) = -(0 \div r)
        BY <3>2 DEF Quotient
      <4>2. 0 \div r = 0
        OBVIOUS
      <4> QED
        BY <3>2, <4>1, <4>2
    <3> QED
      BY <1>1, <3>1, <3>2
  <2>2. PICK p \in Nat : p = m \div r /\ p * r <= m /\ m < p * r + r
    BY <1>1, Division
  <2>3. p * r \in Int /\ q = p
    BY <2>1, <2>2
  <2> QED
    BY <1>1, <2>2, <2>3
<1>2. CASE m < 0
  <2>1. Quotient(-m, -r) = -((-m) \div r)
    BY <1>2 DEF Quotient
  <2>2. PICK p \in Nat : p = (-m) \div r /\ p * r <= -m /\ -m < p * r + r
    BY <1>2, Division
  <2>3. p * r \in Int /\ (-p) * r = -(p * r)
    OBVIOUS
  <2>4. q = -p
    BY <2>1, <2>2
  <2> QED
    BY <1>2, <2>1, <2>2, <2>3, <2>4
<1> QED
  BY <1>1, <1>2

LEMMA QuotientType ==
  ASSUME NEW a \in Int, NEW b \in Int \ {0}
  PROVE  Quotient(a, b) \in Int
<1> DEFINE A == IF a < 0 THEN -a ELSE a
           B == IF b < 0 THEN -b ELSE b
<1>1. A \in Nat /\ B \in Nat \ {0}
  OBVIOUS
<1>2. A \div B \in Int
  BY <1>1
<1> HIDE DEF A, B
<1>3. Quotient(a, b) = IF (a < 0) = (b < 0) THEN A \div B ELSE -(A \div B)
  BY DEF Quotient, A, B
<1> QED
  BY <1>2, <1>3

LEMMA InterpType ==
  ASSUME IInv, pc = "interp"
  PROVE  interp(tab[row], tab[row - 1]) \in U16
<1> DEFINE up == tab[row]
           lo == tab[row - 1]
           q == Quotient(Wrap(Rise(up, lo) * Reach(up)), Run(up, lo))
<1>1. row \in Rows /\ row - 1 \in Rows
  BY RowsType DEF IInv, Bracketed, Rows
<1>2. up.val \in Int /\ lo.val \in Int /\ up.key \in Int /\ key \in Int
  BY <1>1, Typed DEF IInv
<1>3. Rise(up, lo) \in Int /\ Reach(up) \in Int
  BY <1>2, WrapType DEF Rise, Reach
<1>4. Rise(up, lo) * Reach(up) \in Int
  BY <1>3
<1>5. q \in Int
  BY <1>4, WrapType, RunDefined, QuotientType
<1> HIDE DEF q
<1>6. Wrap(up.val + q) \in Int
  BY <1>2, <1>5, WrapType
<1>7. Wrap(up.val + q) % VALS \in 0..(VALS - 1)
  BY <1>6, WidthsAssumption
<1> QED
  BY <1>7 DEF interp, q, U16

-----------------------------------------------------------------------------
(* Interpolation in a table in order                                       *)

\* What interp() computes of a key that is above the lower and below the upper row.
LEMMA OnTheLine ==
  ASSUME NEW up \in Row, NEW lo \in Row, key \in Int, lo.key < key, key < up.key,
         NoOverflow(up, lo),
         interp(up, lo) \in U16
  PROVE  LET run == up.key - lo.key
             off == interp(up, lo) * run - (lo.val * (up.key - key) + up.val * (key - lo.key))
         IN  -run < off /\ off < run
<1>0. VALS \in Nat \ {0} /\ HALF \in Nat \ {0}
  BY WidthsAssumption
<1>1. PICK a \in 0..(VALS - 1), b \in 0..(VALS - 1), r \in Nat, d \in Nat, m \in Int, v \in Nat :
        /\ a = lo.val /\ b = up.val /\ r = up.key - lo.key /\ d = up.key - key
        /\ m = (a - b) * d /\ v = VALS - 1
  <2>1. lo.val \in 0..(VALS - 1) /\ up.val \in 0..(VALS - 1) /\ lo.key \in Int /\ up.key \in Int
    BY <1>0 DEF Row, U16, I32
  <2>2. lo.val \in Int /\ up.val \in Int
    BY <1>0, <2>1
  <2>3. up.key - lo.key \in Nat /\ up.key - key \in Nat /\ VALS - 1 \in Nat
    BY <1>0, <2>1
  <2>4. (lo.val - up.val) * (up.key - key) \in Int
    BY <2>2, <2>3
  <2> QED
    BY <2>1, <2>3, <2>4
<1>2. /\ a \in Int /\ b \in Int /\ 0 < d /\ d < r /\ r > 1
      /\ 0 <= a /\ a <= v /\ 0 <= b /\ b <= v
      /\ key - lo.key = r - d /\ key - up.key = -d /\ lo.key - up.key = -r
  <2>1. lo.key \in Int /\ up.key \in Int
    BY DEF Row, I32
  <2>2. r = up.key - lo.key /\ d = up.key - key
    BY <1>1
  <2>3. /\ 0 < d /\ d < r /\ r > 1
        /\ key - lo.key = r - d /\ key - up.key = -d /\ lo.key - up.key = -r
    BY <2>1, <2>2
  <2>4. a \in Int /\ b \in Int /\ 0 <= a /\ a <= v /\ 0 <= b /\ b <= v
    <3>1. v = VALS - 1
      BY <1>1
    <3> QED
      BY <1>0, <3>1
  <2> QED
    BY <2>3, <2>4
<1>3. r <= HALF /\ v < HALF
  <2>1. -HALF <= -r /\ HALF \in Nat
    BY <1>0, <1>1, <1>2 DEF I32, NoOverflow
  <2> QED
    BY <1>1, <2>1, WidthsAssumption
<1>4. -HALF <= -m /\ -m < HALF
  <2>1. (a - b) * (-d) = -m
    BY <1>1, <1>2
  <2>2. -m \in I32
    BY <1>1, <1>2, <2>1 DEF NoOverflow
  <2> QED
    BY <1>0, <2>2 DEF I32
<1>5. PICK q : q = Quotient(-m, -r)
  OBVIOUS
<1>6. /\ q \in Int
      /\ -r < q * r - m /\ q * r - m < r
      /\ m >= 0 => 0 <= q /\ q * r <= m
      /\ m < 0 => q <= 0 /\ m <= q * r
  <2>1. r \in Nat \ {0}
    BY <1>2
  <2> QED
    BY <1>5, <2>1, Truncates
\* The result is between the values of the two rows.
<1>7. 0 <= b + q /\ b + q <= v
  <2>1. q * r \in Int /\ (a - b) * r \in Int /\ a - b \in Int /\ r \in Nat \ {0}
    BY <1>2, <1>6
  <2>2. CASE m >= 0
    <3>1. a - b >= 0
      <4> SUFFICES ASSUME a - b <= -1 PROVE FALSE
        BY <2>1
      <4>1. (a - b) * d <= (-1) * d
        BY <2>1, ProductOrder
      <4> QED
        BY <1>1, <1>2, <2>2, <4>1
    <3>2. d * (a - b) <= r * (a - b) /\ d * (a - b) = m /\ r * (a - b) = (a - b) * r
      BY <1>1, <1>2, <2>1, <3>1, ProductOrder
    <3>3. q * r <= (a - b) * r
      BY <1>1, <1>6, <2>1, <2>2, <3>2
    <3>4. q <= a - b
      BY <1>6, <2>1, <3>3, ProductCancel
    <3> QED
      BY <1>2, <1>6, <2>2, <3>4
  <2>3. CASE m < 0
    <3>1. b - a >= 0
      <4> SUFFICES ASSUME a - b >= 0 PROVE FALSE
        BY <1>2
      <4>1. 0 * d <= (a - b) * d
        BY <2>1, ProductOrder
      <4> QED
        BY <1>1, <1>2, <2>3, <4>1
    <3>2. d * (b - a) <= r * (b - a)
      BY <1>1, <1>2, <2>1, <3>1, ProductOrder
    <3>3. d * (b - a) = -m /\ r * (b - a) = -((a - b) * r)
      BY <1>1, <1>2
    <3>4. (a - b) * r <= q * r
      BY <1>1, <1>6, <2>1, <2>3, <3>2, <3>3
    <3>5. a - b <= q
      BY <1>6, <2>1, <3>4, ProductCancel
    <3> QED
      BY <1>2, <1>6, <2>3, <3>5
  <2> QED
    BY <1>1, <2>2, <2>3
\* Nothing on the way to it wraps around.
<1>8. interp(up, lo) = b + q
  <2>1. Run(up, lo) = -r /\ Reach(up) = -d /\ Rise(up, lo) = a - b
    <3>1. Wrap(-r) = -r /\ Wrap(-d) = -d
      BY <1>0, <1>2, <1>3, WrapFits
    <3> QED
      BY <1>1, <1>2, <3>1 DEF Run, Reach, Rise
  <2>2. (a - b) * (-d) = -m
    BY <1>1, <1>2
  <2>3. Wrap(-m) = -m
    BY <1>0, <1>1, <1>4, WrapFits
  <2>4. Wrap(b + q) = b + q
    BY <1>0, <1>2, <1>3, <1>6, <1>7, WrapFits
  <2>5. interp(up, lo) = (b + q) % VALS
    <3>1. Wrap(Rise(up, lo) * Reach(up)) = -m
      BY <2>1, <2>2, <2>3
    <3>2. Quotient(Wrap(Rise(up, lo) * Reach(up)), Run(up, lo)) = q
      BY <1>5, <2>1, <3>1
    <3> QED
      BY <1>1, <2>4, <3>2 DEF interp
  <2>6. b + q \in 0..(VALS - 1)
    BY <1>0, <1>1, <1>2, <1>6, <1>7
  <2>7. \A w \in 0..(VALS - 1) : w % VALS = w
    BY <1>0
  <2> QED
    BY <2>5, <2>6, <2>7
<1>9. (b + q) * r - (a * d + b * (r - d)) = q * r - m
  <2>1. (b + q) * r = b * r + q * r /\ b * (r - d) = b * r - b * d /\ m = a * d - b * d
    BY <1>1, <1>2, <1>6
  <2>2. b * r \in Int /\ q * r \in Int /\ b * d \in Int /\ a * d \in Int
    BY <1>2, <1>6
  <2> QED
    BY <2>1, <2>2
<1> QED
  BY <1>1, <1>2, <1>6, <1>8, <1>9

-----------------------------------------------------------------------------
(* The scan                                                                *)

LEMMA KeysAscend ==
  ASSUME TypeOK, Ordered, NEW r \in Rows, NEW s \in Rows, r <= s
  PROVE  tab[r].key <= tab[s].key
<1>1. r \in Int /\ s \in Int /\ tab[r].key \in Int /\ tab[s].key \in Int
  BY Typed, RowsAssumption DEF Rows
<1>2. CASE r = s
  BY <1>1, <1>2
<1>3. CASE r < s
  BY <1>1, <1>3 DEF Ordered
<1> QED
  BY <1>1, <1>2, <1>3

\* The key splits a table in order: rows below it up to the one before row, and
\* from row on rows that are not.
LEMMA KeySplits ==
  ASSUME IInv, Ordered, pc # "done", key <= tab[row].key
  PROVE  /\ row \in Rows
         /\ \A r \in Rows : IF r < row THEN tab[r].key < key
                                       ELSE key <= tab[row].key /\ tab[row].key <= tab[r].key
<1>1. row \in Rows /\ row \in Int
  BY RowsType DEF IInv, TypeOK
<1> SUFFICES ASSUME NEW r \in Rows, ~(r < row) PROVE tab[row].key <= tab[r].key
  BY <1>1 DEF IInv, Passed
<1>2. r \in Int
  BY RowsAssumption DEF Rows
<1>3. row <= r
  BY <1>1, <1>2
<1> QED
  BY <1>1, <1>3, KeysAscend DEF IInv

LEMMA SameNeighbours ==
  ASSUME UNCHANGED <<tab, key>>
  PROVE  Equal' = Equal /\ Below' = Below /\ Beyond' = Beyond
BY DEF Equal, Below, Beyond

LEMMA ExactFits == ASSUME IInv, Exact PROVE Interpolates'
<1>1. UNCHANGED <<tab, key>> /\ val' = tab[row].val /\ row \in Equal
  BY DEF Exact, Return, IInv, TypeOK, Equal
<1>2. Equal' # {} /\ \E r \in Equal' : val' = tab'[r].val
  BY <1>1, SameNeighbours
<1> QED
  BY <1>2 DEF Interpolates

LEMMA BelowFirstFits == ASSUME IInv, Ordered, BelowFirst PROVE Interpolates'
<1>1. UNCHANGED <<tab, key>> /\ val' = tab[0].val /\ row = 0 /\ key < tab[0].key /\ pc = "scan"
  BY DEF BelowFirst, Return
<1>2. 0 \in Rows /\ key \in Int /\ tab[0].key \in Int
  BY <1>1, Typed DEF IInv, TypeOK
<1>3. \A r \in Rows : ~(r < 0)
  BY RowsAssumption DEF Rows
<1>4. \A r \in Rows : tab[0].key <= tab[r].key /\ tab[r].key \in Int
  BY <1>1, <1>2, <1>3, KeySplits, Typed DEF IInv
<1>5. Equal = {} /\ Below = {} /\ 0 \in Beyond
  BY <1>1, <1>2, <1>4 DEF Equal, Below, Beyond
<1>6. \A r \in Beyond : tab[0].key <= tab[r].key
  BY <1>4 DEF Beyond
<1>7. Nearest(0, Beyond)'
  BY <1>1, <1>5, <1>6, SameNeighbours DEF Nearest
<1> QED
  BY <1>1, <1>2, <1>5, <1>7, SameNeighbours DEF Interpolates

LEMMA AboveLastFits == ASSUME IInv, Ordered, AboveLast PROVE Interpolates'
<1>1. UNCHANGED <<tab, key>> /\ val' = tab[row].val /\ row = TAB_ROWS - 1 /\ key > tab[row].key
  BY DEF AboveLast, Above, Return
<1>2. row \in Rows /\ key \in Int /\ tab[row].key \in Int
  BY Typed DEF IInv, TypeOK
<1>3. \A r \in Rows : r <= row /\ r \in Int
  BY <1>1, RowsAssumption DEF Rows
<1>4. \A r \in Rows : tab[r].key <= tab[row].key /\ tab[r].key \in Int
  BY <1>2, <1>3, KeysAscend, Typed DEF IInv
<1>5. Equal = {} /\ Beyond = {} /\ row \in Below
  <2>1. \A r \in Rows : tab[r].key # key /\ ~(tab[r].key > key)
    BY <1>1, <1>2, <1>4
  <2> QED
    BY <1>1, <1>2, <2>1 DEF Equal, Below, Beyond
<1>6. \A r \in Below : tab[row].key >= tab[r].key
  BY <1>2, <1>4 DEF Below
<1>7. PICK last \in Rows : last = row
  BY <1>2
<1>8. Highest(last, Below)'
  BY <1>1, <1>5, <1>6, <1>7, SameNeighbours DEF Highest
<1> QED
  BY <1>1, <1>5, <1>7, <1>8, SameNeighbours DEF Interpolates

LEMMA InterpolateFits == ASSUME IInv, Ordered, Fits, Interpolate PROVE Interpolates'
<1>1. /\ UNCHANGED <<tab, key>> /\ val' = interp(tab[row], tab[row - 1]) /\ pc = "interp"
      /\ row > 0 /\ key < tab[row].key
  BY DEF Interpolate, Return, IInv, Bracketed
<1>2. PICK hi \in Rows, lo \in Rows : hi = row /\ lo = row - 1
  BY <1>1, RowsType DEF IInv, Rows
<1>3. hi \in Int /\ lo = hi - 1 /\ hi \in Rows \ {0} /\ key \in Int
  BY <1>1, <1>2, RowsType, Typed DEF IInv
<1>4. \A r \in Rows : r \in Int /\ tab[r].key \in Int /\ tab[r] \in Row
  BY Typed, RowsAssumption DEF IInv, TypeOK, Rows
<1>5. \A r \in Rows : /\ r < hi => tab[r].key < key
                      /\ ~(r < hi) => key < tab[r].key /\ tab[hi].key <= tab[r].key
  <2>1. key <= tab[row].key
    BY <1>1, <1>2, <1>3, <1>4
  <2>2. \A r \in Rows : /\ r < hi => tab[r].key < key
                        /\ ~(r < hi) => tab[hi].key <= tab[r].key
    BY <1>1, <1>2, <2>1, KeySplits
  <2>3. key < tab[hi].key /\ tab[hi].key \in Int
    BY <1>1, <1>2, <1>4
  <2>4. \A r \in Rows : ~(r < hi) => key < tab[r].key
    <3> SUFFICES ASSUME NEW r \in Rows, ~(r < hi) PROVE key < tab[r].key
      OBVIOUS
    <3>1. tab[hi].key <= tab[r].key /\ tab[r].key \in Int
      BY <1>4, <2>2
    <3> QED
      BY <1>3, <2>3, <3>1
  <2> QED
    BY <2>2, <2>4
<1>6. Equal = {} /\ lo \in Below /\ hi \in Beyond
  <2>1. \A r \in Rows : tab[r].key # key
    BY <1>3, <1>4, <1>5
  <2>2. tab[lo].key < key /\ tab[hi].key > key
    BY <1>2, <1>3, <1>4, <1>5
  <2> QED
    BY <2>1, <2>2 DEF Equal, Below, Beyond
<1>7. \A r \in Below : tab[lo].key >= tab[r].key
  <2> SUFFICES ASSUME NEW r \in Rows, tab[r].key < key PROVE tab[r].key <= tab[lo].key
    BY <1>2, <1>4 DEF Below
  <2>1. r <= lo
    BY <1>3, <1>4, <1>5
  <2> QED
    BY <1>2, <2>1, KeysAscend DEF IInv
<1>8. \A r \in Beyond : tab[hi].key <= tab[r].key
  BY <1>3, <1>4, <1>5 DEF Beyond
<1>9. NoOverflow(tab[hi], tab[lo])
  BY <1>3, <1>6 DEF Fits, Below, Beyond
<1>10. interp(tab[hi], tab[lo]) \in U16
  BY <1>1, <1>2, InterpType
<1>11. tab[lo].key < key /\ key < tab[hi].key
  BY <1>6 DEF Below, Beyond
<1>12. OnLine(lo, hi)'
  <2>1. PICK v : v = interp(tab[hi], tab[lo])
    OBVIOUS
  <2>2. LET run == tab[hi].key - tab[lo].key
            off == v * run - (tab[lo].val * (tab[hi].key - key) + tab[hi].val * (key - tab[lo].key))
        IN  -run < off /\ off < run
    BY <1>3, <1>4, <1>9, <1>10, <1>11, <2>1, OnTheLine
  <2> QED
    BY <1>1, <1>2, <2>1, <2>2 DEF OnLine
<1>13. Highest(lo, Below)' /\ Nearest(hi, Beyond)'
  BY <1>1, <1>6, <1>7, <1>8, SameNeighbours DEF Highest, Nearest
<1>14. Equal' = {} /\ Below' # {} /\ Beyond' # {}
  BY <1>1, <1>6, SameNeighbours
<1> QED
  BY <1>12, <1>13, <1>14 DEF Interpolates

-----------------------------------------------------------------------------
(* The invariant holds                                                     *)

LEMMA InitInv == ASSUME Init PROVE IInv
<1>1. 0 \in Rows /\ 0 \in U16
  BY RowsAssumption, WidthsAssumption DEF Rows, U16
<1> QED
  BY <1>1 DEF Init, IInv, TypeOK, Passed, Bracketed, Unfinished, LookupInterpolates, Rows

\* The scan ends with a value that the table describes, or with none.
LEMMA DoneInv ==
  ASSUME IInv, NEW s \in {"OK", "FAIL"}, Return(s), val' \in U16,
         s = "OK" /\ Ordered /\ Fits => Interpolates'
  PROVE  IInv'
<1>1. UNCHANGED <<tab, key, row>> /\ pc' = "done" /\ status' = s
  BY DEF Return
<1>2. Ordered' = Ordered /\ Fits' = Fits
  BY <1>1 DEF Ordered, Fits, NoOverflow
<1>3. LookupInterpolates'
  BY <1>1, <1>2 DEF LookupInterpolates
<1> QED
  BY <1>1, <1>3 DEF IInv, TypeOK, Passed, Bracketed, Unfinished

LEMMA RowFound ==
  ASSUME IInv, ReadFails \/ Exact \/ BelowFirst \/ AboveLast
  PROVE  IInv'
<1>1. tab[row].val \in U16 /\ val \in U16
  BY Typed DEF IInv, TypeOK
<1>2. val' \in U16
  BY <1>1 DEF ReadFails, Exact, BelowFirst, AboveLast
<1>3. CASE ReadFails
  BY <1>2, <1>3, DoneInv DEF ReadFails
<1>4. CASE Exact \/ BelowFirst \/ AboveLast
  <2>1. Ordered => Interpolates'
    BY <1>4, ExactFits, BelowFirstFits, AboveLastFits
  <2> QED
    BY <1>2, <1>4, <2>1, DoneInv DEF Exact, BelowFirst, AboveLast
<1> QED
  BY <1>3, <1>4

LEMMA InterpolateInv == ASSUME IInv, Interpolate PROVE IInv'
<1>1. val' \in U16 /\ Return("OK")
  BY InterpType DEF Interpolate
<1> QED
  BY <1>1, InterpolateFits, DoneInv

\* While the scan goes on nothing is returned.
LEMMA ScanGoesOn ==
  ASSUME IInv, pc = "scan", UNCHANGED status
  PROVE  LookupInterpolates' /\ Unfinished'
BY DEF IInv, Unfinished, LookupInterpolates

LEMMA BetweenInv == ASSUME IInv, Between PROVE IInv'
BY ScanGoesOn DEF Between, IInv, TypeOK, Passed, Bracketed

LEMMA NextRowInv == ASSUME IInv, NextRow PROVE IInv'
<1>1. UNCHANGED <<tab, key, pc, val, status>> /\ row' = row + 1 /\ pc = "scan"
  BY DEF NextRow
<1>2. row' \in Rows
  BY <1>1, RowsType DEF NextRow, IInv, Rows
<1>3. TypeOK' /\ Bracketed'
  BY <1>1, <1>2 DEF IInv, TypeOK, Bracketed
<1>4. Passed'
  <2> SUFFICES ASSUME NEW r \in Rows, r < row + 1 PROVE tab[r].key < key
    BY <1>1 DEF Passed
  <2>1. r < row \/ r = row
    BY RowsType DEF IInv, Rows
  <2> QED
    BY <2>1 DEF IInv, Passed, NextRow, Above
<1> QED
  BY <1>1, <1>3, <1>4, ScanGoesOn DEF IInv

LEMMA StutterInv == ASSUME IInv, UNCHANGED vars PROVE IInv'
<1> USE DEF vars
<1>1. TypeOK' /\ Passed' /\ Bracketed' /\ Unfinished'
  BY DEF IInv, TypeOK, Passed, Bracketed, Unfinished
<1>2. Ordered' = Ordered /\ Fits' = Fits
  BY DEF Ordered, Fits, NoOverflow
<1>3. Interpolates' = Interpolates
  BY SameNeighbours DEF Interpolates, Nearest, Highest, OnLine
<1> QED
  BY <1>1, <1>2, <1>3 DEF IInv, LookupInterpolates

LEMMA StepInv == ASSUME IInv, [Next]_vars PROVE IInv'
BY StutterInv, RowFound, BetweenInv, InterpolateInv, NextRowInv DEF Next

\* The inductive invariant holds of every behaviour.
THEOREM Invariance == Spec => []IInv
<1>1. Init => IInv
  BY InitInv
<1>2. IInv /\ [Next]_vars => IInv'
  BY StepInv
<1> QED
  BY <1>1, <1>2, PTL DEF Spec

\* Every variable keeps its type; in particular the value fits a U16.
THEOREM TypeCorrect == Spec => []TypeOK
BY Invariance, PTL DEF IInv

\* No division by zero and no overflow of a division, for any table.
THEOREM DivisionsDefined == Spec => []DivisionDefined
<1>1. IInv => DivisionDefined
  BY RunDefined DEF DivisionDefined
<1> QED
  BY <1>1, Invariance, PTL

\* In a table in order, at a key where no operation of interp() overflows, tabLookup()
\* returns the value of the row with the key, of the nearest row at the ends, or one
\* less than a unit off the line between the key's neighbours: for any number of
\* rows, keys and values, in the PIC's arithmetic that truncates and wraps.  Where
\* interp() does overflow nothing is proved, see LookupAsPromised.
THEOREM LookupCorrect == Spec => []LookupInterpolates
<1>1. IInv => LookupInterpolates
  BY DEF IInv
<1> QED
  BY <1>1, Invariance, PTL

-----------------------------------------------------------------------------
(* The extraction of a signal.                                             *)

\* The first bit of the byte that data bit b is in.
ByteStart(b) == (b \div BYTE) * BYTE

\* Two bits are in one byte, or their bytes do not overlap.
LEMMA Bytes ==
  ASSUME NEW b \in Nat, NEW c \in Nat
  PROVE  /\ ByteStart(b) \in Nat /\ ByteStart(b) <= b /\ b < ByteStart(b) + BYTE
         /\ b \div BYTE = c \div BYTE <=> ByteStart(b) = ByteStart(c)
         /\ \/ ByteStart(b) = ByteStart(c)
            \/ ByteStart(b) + BYTE <= ByteStart(c)
            \/ ByteStart(c) + BYTE <= ByteStart(b)
<1>1. BYTE \in Nat \ {0}
  BY PluckWidthsAssumption
<1>2. \A n \in Nat : ByteStart(n) \in Nat /\ ByteStart(n) <= n /\ n < ByteStart(n) + BYTE
  <2> SUFFICES ASSUME NEW n \in Nat
               PROVE  ByteStart(n) \in Nat /\ ByteStart(n) <= n /\ n < ByteStart(n) + BYTE
    OBVIOUS
  <2>1. n \div BYTE \in Nat /\ ByteStart(n) <= n /\ n < ByteStart(n) + BYTE
    BY <1>1, Division DEF ByteStart
  <2>2. \A x, y \in Nat : x * y \in Nat
    OBVIOUS
  <2> QED
    BY <1>1, <2>1, <2>2 DEF ByteStart
<1>3. ASSUME NEW x \in Nat, NEW y \in Nat, x \div BYTE < y \div BYTE
      PROVE  ByteStart(x) + BYTE <= ByteStart(y)
  <2>1. PICK u \in Nat : u = x \div BYTE
    BY <1>1, Division
  <2>2. PICK v \in Nat : v = y \div BYTE
    BY <1>1, Division
  <2>3. (u + 1) * BYTE <= v * BYTE
    BY <1>1, <1>3, <2>1, <2>2, ProductOrder
  <2>4. (u + 1) * BYTE = u * BYTE + BYTE
    BY <1>1
  <2> QED
    BY <2>1, <2>2, <2>3, <2>4 DEF ByteStart
<1>4. b \div BYTE \in Nat /\ c \div BYTE \in Nat
  BY <1>1, Division
<1>5. CASE b \div BYTE = c \div BYTE
  BY <1>2, <1>5 DEF ByteStart
<1>6. CASE b \div BYTE < c \div BYTE
  <2>1. ByteStart(b) + BYTE <= ByteStart(c)
    BY <1>3, <1>6
  <2> QED
    BY <1>1, <1>2, <1>4, <1>6, <2>1
<1>7. CASE c \div BYTE < b \div BYTE
  <2>1. ByteStart(c) + BYTE <= ByteStart(b)
    BY <1>3, <1>7
  <2> QED
    BY <1>1, <1>2, <1>4, <1>7, <2>1
<1> QED
  BY <1>4, <1>5, <1>6, <1>7

LEMMA NextByteStarts ==
  ASSUME i \in Nat
  PROVE  NextByte = ByteStart(i) + BYTE /\ ByteStart(NextByte) = NextByte
<1>1. BYTE \in Nat \ {0}
  BY PluckWidthsAssumption
<1>2. NextByte = ByteStart(i) + BYTE
  <2>1. i = (i \div BYTE) * BYTE + (i % BYTE) /\ i % BYTE \in Nat
    BY <1>1
  <2>2. ByteStart(i) \in Nat
    BY Bytes
  <2> QED
    BY <1>1, <2>1, <2>2 DEF NextByte, ByteStart
<1>3. ByteStart(i) \in Nat
  BY Bytes
<1>4. NextByte \in Nat
  BY <1>1, <1>2, <1>3
<1>5. /\ ByteStart(NextByte) \in Nat
      /\ ByteStart(NextByte) <= NextByte /\ NextByte < ByteStart(NextByte) + BYTE
      /\ \/ ByteStart(i) = ByteStart(NextByte)
         \/ ByteStart(i) + BYTE <= ByteStart(NextByte)
         \/ ByteStart(NextByte) + BYTE <= ByteStart(i)
  BY <1>4, Bytes
<1> QED
  BY <1>1, <1>2, <1>3, <1>4, <1>5

LittleEndian == sig.order = "LITTLE_ENDIAN"

\* The loops have looked at the bits of the signal up to here.
Seen == IF i < end THEN i ELSE end

\* Of the byte of b, the first bit in the signal, and one past the last below m.
FirstOf(b) == IF ByteStart(b) < sig.start THEN sig.start ELSE ByteStart(b)
PastOf(b, m) == IF ByteStart(b) + BYTE < m THEN ByteStart(b) + BYTE ELSE m

\* How many bits of the signal below m are less significant than bit b.
Rank(b, m) ==
  IF LittleEndian THEN b - sig.start ELSE (m - PastOf(b, m)) + (b - FirstOf(b))

\* The value of that part of the signal which ends at m.
Gathered(m) == [j \in Word |-> {b \in sig.start..(m - 1) : Rank(b, m) = j}]

\* sigPluck() enters a loop only with a signal that is not empty and in the frame.
WithinField == pluckPc = "pluck" => sig.size >= 1 /\ end <= BYTE * dlc

\* Every iteration but the first begins at the start of a byte.
Aligned ==
  pluckPc = "pluck" => sig.start <= i /\ (i = sig.start \/ ByteStart(i) = i)

\* The result so far is the value of the part of the signal looked at so far.
Plucked == pluckPc = "pluck" /\ (LittleEndian => sig.size <= WORD) => raw = Gathered(Seen)

Undecided == pluckPc # "done" => pluckStatus = "none"

PluckIInv ==
  /\ PluckTypeOK
  /\ WithinField
  /\ Aligned
  /\ Plucked
  /\ Undecided
  /\ PlucksValue
  /\ FailsOutside

LEMMA PluckTyped ==
  ASSUME PluckTypeOK
  PROVE  /\ BYTE \in Nat \ {0} /\ WORD \in Nat \ {0} /\ MaxDlc \in Nat /\ BYTE * MaxDlc \in Nat
         /\ sig.start \in Nat /\ sig.size \in Nat /\ sig.isSigned \in BOOLEAN
         /\ sig.order \in {"LITTLE_ENDIAN", "BIG_ENDIAN"}
         /\ end \in Nat /\ end = sig.start + sig.size
         /\ dlc \in Nat /\ dlc <= MaxDlc /\ BYTE * dlc \in Nat /\ BYTE * dlc <= BYTE * MaxDlc
         /\ i \in Nat /\ i <= BYTE * MaxDlc
<1>1. BYTE \in Nat \ {0} /\ WORD \in Nat \ {0} /\ MaxDlc \in Nat
  BY PluckWidthsAssumption
<1>2. \A x, y \in Nat : x * y \in Nat
  OBVIOUS
<1>3. dlc \in Nat /\ dlc <= MaxDlc /\ dlc * BYTE <= MaxDlc * BYTE
  BY <1>1, ProductOrder DEF PluckTypeOK
<1>4. \A x \in Nat : x * BYTE = BYTE * x
  BY <1>1
<1>5. BYTE * MaxDlc \in Nat /\ BYTE * dlc \in Nat /\ BYTE * dlc <= BYTE * MaxDlc
  BY <1>1, <1>2, <1>3, <1>4
<1>6. sig \in Formats /\ i \in 0..(BYTE * MaxDlc)
  BY DEF PluckTypeOK
<1>7. i \in Nat /\ i <= BYTE * MaxDlc
  BY <1>5, <1>6
<1>8. /\ sig.start \in Nat /\ sig.size \in Nat /\ sig.isSigned \in BOOLEAN
      /\ sig.order \in {"LITTLE_ENDIAN", "BIG_ENDIAN"}
  BY <1>5, <1>6 DEF Formats
<1>9. end \in Nat /\ end = sig.start + sig.size
  BY <1>8 DEF end
<1> QED
  BY <1>1, <1>3, <1>5, <1>7, <1>8, <1>9

\* An iteration looks at the bits from i up to the next byte or the end of the
\* signal; the byte is one the frame has.
LEMMA Iteration ==
  ASSUME PluckTypeOK, WithinField, Aligned, pluckPc = "pluck", i < end
  PROVE  /\ i \div BYTE < dlc
         /\ NextByte \in Nat /\ NextByte = ByteStart(i) + BYTE /\ ByteStart(NextByte) = NextByte
         /\ i < NextByte /\ NextByte <= BYTE * dlc
         /\ Upto = IF NextByte < end THEN NextByte ELSE end
         /\ Upto \in Nat /\ i < Upto
<1>1. /\ BYTE \in Nat \ {0} /\ i \in Nat /\ end \in Nat /\ dlc \in Nat
      /\ BYTE * dlc \in Nat /\ end <= BYTE * dlc
  BY PluckTyped DEF WithinField
<1>2. /\ ByteStart(i) \in Nat /\ ByteStart(i) <= i /\ i < ByteStart(i) + BYTE
      /\ ByteStart(end) \in Nat /\ ByteStart(end) <= end /\ end < ByteStart(end) + BYTE
      /\ i \div BYTE = end \div BYTE <=> ByteStart(i) = ByteStart(end)
      /\ \/ ByteStart(i) = ByteStart(end)
         \/ ByteStart(i) + BYTE <= ByteStart(end)
         \/ ByteStart(end) + BYTE <= ByteStart(i)
  BY <1>1, Bytes
<1>3. NextByte = ByteStart(i) + BYTE /\ ByteStart(NextByte) = NextByte
  BY <1>1, NextByteStarts
<1>4. i < NextByte /\ NextByte \in Nat
  BY <1>1, <1>2, <1>3
<1>5. i \div BYTE < dlc /\ NextByte <= BYTE * dlc
  <2>1. PICK u \in Nat : u = i \div BYTE
    BY <1>1, Division
  <2>2. u * BYTE <= i
    BY <1>2, <2>1 DEF ByteStart
  <2>3. BYTE * dlc = dlc * BYTE
    BY <1>1
  <2>4. ~(dlc <= u)
    <3> SUFFICES ASSUME dlc <= u PROVE FALSE
      OBVIOUS
    <3>1. dlc * BYTE <= u * BYTE
      BY <1>1, ProductOrder
    <3>2. u * BYTE \in Nat
      BY <1>2, <2>1 DEF ByteStart
    <3> QED
      BY <1>1, <2>2, <2>3, <3>1, <3>2
  <2>5. (u + 1) * BYTE <= dlc * BYTE
    BY <1>1, <2>4, ProductOrder
  <2>6. (u + 1) * BYTE = u * BYTE + BYTE
    BY <1>1
  <2> QED
    BY <1>1, <1>3, <2>1, <2>3, <2>4, <2>5, <2>6 DEF ByteStart
<1>6. Upto = IF NextByte < end THEN NextByte ELSE end
  BY <1>1, <1>2, <1>3 DEF Upto
<1> QED
  BY <1>1, <1>3, <1>4, <1>5, <1>6

\* Of a signal in the frame, the bits in a little-endian word go in by position.
LEMMA ShiftFits ==
  ASSUME PluckTypeOK, Aligned, pluckPc = "pluck", i < end, sig.size <= WORD
  PROVE  Shift(i - sig.start) = {Shifted(i - sig.start)}
<1>1. i - sig.start < WORD
  BY PluckTyped
<1> QED
  BY <1>1 DEF Shift

LEMMA PluckLEGathers ==
  ASSUME PluckTypeOK, WithinField, Aligned, Plucked, PluckLE, sig.size <= WORD
  PROVE  raw' = Gathered(Upto)
<1>1. pluckPc = "pluck" /\ i < end /\ LittleEndian
  BY DEF PluckLE, LittleEndian
<1>2. raw' = Or(raw, Shifted(i - sig.start))
  BY <1>1, ShiftFits DEF PluckLE
<1>3. raw = [j \in Word |-> {b \in sig.start..(i - 1) : b - sig.start = j}]
  BY <1>1 DEF Plucked, Gathered, Seen, Rank
<1>4. Gathered(Upto) = [j \in Word |-> {b \in sig.start..(Upto - 1) : b - sig.start = j}]
  BY <1>1 DEF Gathered, Rank
<1>5. sig.start \in Nat /\ i \in Nat /\ sig.start <= i /\ Upto \in Nat /\ i < Upto
  BY <1>1, PluckTyped, Iteration DEF Aligned
<1>6. ASSUME NEW j \in Word
      PROVE  raw[j] \cup Shifted(i - sig.start)[j] = Gathered(Upto)[j]
  <2>1. raw[j] = {b \in sig.start..(i - 1) : b - sig.start = j}
    BY <1>3
  <2>2. Shifted(i - sig.start)[j] = {b \in i..(Upto - 1) : b - i + (i - sig.start) = j}
    BY DEF Shifted
  <2>3. Gathered(Upto)[j] = {b \in sig.start..(Upto - 1) : b - sig.start = j}
    BY <1>4
  <2>4. \A b \in i..(Upto - 1) : b - i + (i - sig.start) = b - sig.start
    BY <1>5
  <2>5. sig.start..(Upto - 1) = (sig.start..(i - 1)) \cup (i..(Upto - 1))
    BY <1>5
  <2> QED
    BY <2>1, <2>2, <2>3, <2>4, <2>5
<1>7. Or(raw, Shifted(i - sig.start)) = [j \in Word |-> raw[j] \cup Shifted(i - sig.start)[j]]
  BY DEF Or
<1>8. Gathered(Upto) = [j \in Word |-> Gathered(Upto)[j]]
  BY <1>4
<1> QED
  BY <1>2, <1>6, <1>7, <1>8

\* A byte further on is less significant: it lifts the bits before it by the
\* number of its own, which go in below by their position.
LEMMA Lifts ==
  ASSUME PluckTypeOK, WithinField, Aligned, pluckPc = "pluck", i < end, ~LittleEndian
  PROVE  /\ \A b \in sig.start..(i - 1) :
              Rank(b, i) \in Nat /\ Rank(b, Upto) = Rank(b, i) + (Upto - i)
         /\ \A b \in i..(Upto - 1) : Rank(b, Upto) = b - i
<1>1. /\ BYTE \in Nat \ {0} /\ sig.start \in Nat /\ i \in Nat /\ sig.start <= i
      /\ Upto \in Nat /\ i < Upto /\ end \in Nat /\ NextByte \in Nat
      /\ NextByte = ByteStart(i) + BYTE
      /\ Upto = IF NextByte < end THEN NextByte ELSE end
  BY PluckTyped, Iteration DEF Aligned
<1>2. Upto <= ByteStart(i) + BYTE
  BY <1>1
<1>3. ByteStart(i) \in Nat /\ ByteStart(i) <= i
  BY <1>1, Bytes
<1>4. ASSUME NEW b \in sig.start..(i - 1)
      PROVE  Rank(b, i) \in Nat /\ Rank(b, Upto) = Rank(b, i) + (Upto - i)
  <2>1. b \in Nat /\ sig.start <= b /\ b < i /\ ByteStart(i) = i
    BY <1>1 DEF Aligned
  <2>2. /\ ByteStart(b) \in Nat /\ ByteStart(b) <= b /\ b < ByteStart(b) + BYTE
        /\ \/ ByteStart(b) = ByteStart(i)
           \/ ByteStart(b) + BYTE <= ByteStart(i)
           \/ ByteStart(i) + BYTE <= ByteStart(b)
    BY <1>1, <2>1, Bytes
  <2>3. ByteStart(b) + BYTE <= i
    BY <1>1, <2>1, <2>2
  <2>4. PastOf(b, i) = ByteStart(b) + BYTE /\ PastOf(b, Upto) = ByteStart(b) + BYTE
    BY <1>1, <2>2, <2>3 DEF PastOf
  <2>5. FirstOf(b) \in Nat /\ FirstOf(b) <= b
    BY <1>1, <2>1, <2>2 DEF FirstOf
  <2>6. /\ Rank(b, i) = (i - (ByteStart(b) + BYTE)) + (b - FirstOf(b))
        /\ Rank(b, Upto) = (Upto - (ByteStart(b) + BYTE)) + (b - FirstOf(b))
    BY <2>4 DEF Rank
  <2> QED
    BY <1>1, <2>1, <2>2, <2>3, <2>5, <2>6
<1>5. ASSUME NEW b \in i..(Upto - 1)
      PROVE  Rank(b, Upto) = b - i
  <2>1. b \in Nat /\ i <= b /\ b < Upto
    BY <1>1
  <2>2. /\ ByteStart(b) \in Nat /\ ByteStart(b) <= b /\ b < ByteStart(b) + BYTE
        /\ i < ByteStart(i) + BYTE
        /\ \/ ByteStart(b) = ByteStart(i)
           \/ ByteStart(b) + BYTE <= ByteStart(i)
           \/ ByteStart(i) + BYTE <= ByteStart(b)
    BY <1>1, <2>1, Bytes
  <2>3. ByteStart(b) = ByteStart(i)
    BY <1>1, <1>2, <1>3, <2>1, <2>2
  <2>4. PastOf(b, Upto) = Upto
    BY <1>1, <1>2, <1>3, <2>3 DEF PastOf
  <2>5. FirstOf(b) = i
    BY <1>1, <1>3, <2>3 DEF FirstOf, Aligned
  <2> QED
    BY <1>1, <2>1, <2>4, <2>5 DEF Rank
<1> QED
  BY <1>4, <1>5

LEMMA PluckBEGathers ==
  ASSUME PluckTypeOK, WithinField, Aligned, Plucked, PluckBE
  PROVE  raw' = Gathered(Upto)
<1>1. pluckPc = "pluck" /\ i < end /\ ~LittleEndian
  BY DEF PluckBE, LittleEndian
<1>2. raw' = Or(ShiftRaw(Upto - i), Shifted(0))
  BY DEF PluckBE
<1>3. raw = Gathered(i)
  BY <1>1 DEF Plucked, Seen
<1>4. sig.start \in Nat /\ i \in Nat /\ sig.start <= i /\ Upto \in Nat /\ i < Upto /\ WORD \in Nat
  BY <1>1, PluckTyped, Iteration DEF Aligned
<1>5. /\ \A b \in sig.start..(i - 1) :
           Rank(b, i) \in Nat /\ Rank(b, Upto) = Rank(b, i) + (Upto - i)
      /\ \A b \in i..(Upto - 1) : Rank(b, Upto) = b - i
  BY <1>1, Lifts
<1>6. ASSUME NEW j \in Word
      PROVE  ShiftRaw(Upto - i)[j] \cup Shifted(0)[j] = Gathered(Upto)[j]
  <2>1. Gathered(Upto)[j] = {b \in sig.start..(Upto - 1) : Rank(b, Upto) = j}
    BY DEF Gathered
  <2>2. Shifted(0)[j] = {b \in i..(Upto - 1) : Rank(b, Upto) = j}
    <3>1. Shifted(0)[j] = {b \in i..(Upto - 1) : b - i + 0 = j}
      BY DEF Shifted
    <3>2. \A b \in i..(Upto - 1) : b - i + 0 = Rank(b, Upto)
      BY <1>4, <1>5
    <3> QED
      BY <3>1, <3>2
  <2>3. ShiftRaw(Upto - i)[j] = {b \in sig.start..(i - 1) : Rank(b, Upto) = j}
    <3>1. j \in Nat /\ j < WORD
      BY <1>4 DEF Word
    <3>2. CASE j < Upto - i
      <4>1. ShiftRaw(Upto - i)[j] = {}
        BY <3>2 DEF ShiftRaw
      <4>2. \A b \in sig.start..(i - 1) : Rank(b, Upto) # j
        BY <1>4, <1>5, <3>1, <3>2
      <4> QED
        BY <4>1, <4>2
    <3>3. CASE ~(j < Upto - i)
      <4>1. j - (Upto - i) \in Word
        BY <1>4, <3>1, <3>3 DEF Word
      <4>2. ShiftRaw(Upto - i)[j] = raw[j - (Upto - i)]
        BY <3>3 DEF ShiftRaw
      <4>3. raw[j - (Upto - i)] = {b \in sig.start..(i - 1) : Rank(b, i) = j - (Upto - i)}
        BY <1>3, <4>1 DEF Gathered
      <4>4. \A b \in sig.start..(i - 1) : Rank(b, i) = j - (Upto - i) <=> Rank(b, Upto) = j
        BY <1>4, <1>5, <3>1
      <4> QED
        BY <4>2, <4>3, <4>4
    <3> QED
      BY <3>2, <3>3
  <2>4. sig.start..(Upto - 1) = (sig.start..(i - 1)) \cup (i..(Upto - 1))
    BY <1>4
  <2> QED
    BY <2>1, <2>2, <2>3, <2>4
<1>7. Or(ShiftRaw(Upto - i), Shifted(0))
        = [j \in Word |-> ShiftRaw(Upto - i)[j] \cup Shifted(0)[j]]
  BY DEF Or
<1>8. Gathered(Upto) = [j \in Word |-> Gathered(Upto)[j]]
  BY DEF Gathered
<1> QED
  BY <1>2, <1>6, <1>7, <1>8

\* Rank() counts what Value counts.
LEMMA RankCounts ==
  ASSUME PluckTypeOK, NEW b \in SignalBits
  PROVE  Rank(b, end) = Cardinality({c \in SignalBits : LessSignificant(c, b)})
<1>1. BYTE \in Nat \ {0} /\ sig.start \in Nat /\ end \in Nat
  BY PluckTyped
<1>2. b \in Nat /\ sig.start <= b /\ b < end
  BY <1>1 DEF SignalBits
<1>3. \A c \in SignalBits : c \in Nat /\ sig.start <= c /\ c < end
  BY <1>1 DEF SignalBits
<1>4. CASE LittleEndian
  <2>1. \A c \in SignalBits : LessSignificant(c, b) <=> c < b
    BY <1>4 DEF LittleEndian, LessSignificant
  <2>2. {c \in SignalBits : LessSignificant(c, b)} = sig.start..(b - 1)
    BY <1>1, <1>2, <2>1 DEF SignalBits
  <2>3. Cardinality(sig.start..(b - 1)) = b - sig.start
    <3>1. b - 1 \in Int /\ sig.start \in Int
      BY <1>1, <1>2
    <3>2. Cardinality(sig.start..(b - 1))
            = IF sig.start > b - 1 THEN 0 ELSE (b - 1) - sig.start + 1
      BY <3>1, FS_Interval
    <3> QED
      BY <1>1, <1>2, <3>2
  <2> QED
    BY <1>4, <2>2, <2>3 DEF Rank
<1>5. CASE ~LittleEndian
  <2> DEFINE later == PastOf(b, end)..(end - 1)
             before == FirstOf(b)..(b - 1)
  <2>1. ByteStart(b) \in Nat /\ ByteStart(b) <= b /\ b < ByteStart(b) + BYTE
    BY <1>2, Bytes
  <2>2. /\ PastOf(b, end) \in Nat /\ b < PastOf(b, end) /\ PastOf(b, end) <= end
        /\ FirstOf(b) \in Nat /\ FirstOf(b) <= b /\ sig.start <= FirstOf(b)
    BY <1>1, <1>2, <2>1 DEF PastOf, FirstOf
  <2>3. \A c \in SignalBits : LessSignificant(c, b) <=> c \in later \/ c \in before
    <3> SUFFICES ASSUME NEW c \in SignalBits
                 PROVE  LessSignificant(c, b) <=> c \in later \/ c \in before
      OBVIOUS
    <3>1. c \in Nat /\ sig.start <= c /\ c < end
      BY <1>3
    <3>2. /\ ByteStart(c) \in Nat /\ ByteStart(c) <= c /\ c < ByteStart(c) + BYTE
          /\ c \div BYTE = b \div BYTE <=> ByteStart(c) = ByteStart(b)
          /\ \/ ByteStart(c) = ByteStart(b)
             \/ ByteStart(c) + BYTE <= ByteStart(b)
             \/ ByteStart(b) + BYTE <= ByteStart(c)
      BY <1>2, <3>1, Bytes
    <3>3. LessSignificant(c, b) <=> IF ByteStart(c) = ByteStart(b) THEN c < b ELSE c > b
      BY <1>5, <3>2 DEF LessSignificant, LittleEndian
    <3>4. c \in later <=> ByteStart(b) + BYTE <= c
      BY <1>1, <2>1, <2>2, <3>1 DEF PastOf
    <3>5. c \in before <=> ByteStart(b) <= c /\ c < b
      BY <1>1, <1>2, <2>1, <2>2, <3>1 DEF FirstOf
    <3> QED
      BY <1>1, <1>2, <2>1, <3>1, <3>2, <3>3, <3>4, <3>5
  <2>4. {c \in SignalBits : LessSignificant(c, b)} = later \cup before
    <3>1. later \subseteq SignalBits /\ before \subseteq SignalBits
      BY <1>1, <1>2, <2>2 DEF SignalBits
    <3> QED
      BY <2>3, <3>1
  <2>5. IsFiniteSet(later) /\ Cardinality(later) = end - PastOf(b, end)
    <3>1. PastOf(b, end) \in Int /\ end - 1 \in Int
      BY <1>1, <2>2
    <3>2. /\ IsFiniteSet(later)
          /\ Cardinality(later)
               = IF PastOf(b, end) > end - 1 THEN 0 ELSE (end - 1) - PastOf(b, end) + 1
      BY <3>1, FS_Interval
    <3> QED
      BY <1>1, <2>2, <3>2
  <2>6. IsFiniteSet(before) /\ Cardinality(before) = b - FirstOf(b)
    <3>1. FirstOf(b) \in Int /\ b - 1 \in Int
      BY <1>2, <2>2
    <3>2. /\ IsFiniteSet(before)
          /\ Cardinality(before) = IF FirstOf(b) > b - 1 THEN 0 ELSE (b - 1) - FirstOf(b) + 1
      BY <3>1, FS_Interval
    <3> QED
      BY <1>2, <2>2, <3>2
  <2>7. later \cap before = {}
    BY <1>1, <1>2, <2>2
  <2>8. Cardinality(later \cup before) = (end - PastOf(b, end)) + (b - FirstOf(b))
    <3>1. Cardinality(later \cap before) = 0
      BY <2>7, FS_EmptySet
    <3>2. Cardinality(later \cup before)
            = Cardinality(later) + Cardinality(before) - Cardinality(later \cap before)
      BY <2>5, <2>6, FS_Union
    <3>3. end - PastOf(b, end) \in Int /\ b - FirstOf(b) \in Int
      BY <1>1, <1>2, <2>2
    <3> HIDE DEF later, before
    <3> QED
      BY <2>5, <2>6, <3>1, <3>2, <3>3
  <2> HIDE DEF later, before
  <2> QED
    BY <1>5, <2>4, <2>8 DEF Rank
<1> QED
  BY <1>4, <1>5

\* What the loops leave behind is the signal's value.
LEMMA GatheredIsValue ==
  ASSUME PluckTypeOK
  PROVE  Gathered(end) = Value
<1>1. \A b \in SignalBits :
        Rank(b, end) = Cardinality({c \in SignalBits : LessSignificant(c, b)})
  BY RankCounts
<1>2. ASSUME NEW j \in Word
      PROVE  {b \in SignalBits : Rank(b, end) = j}
               = {b \in SignalBits : Cardinality({c \in SignalBits : LessSignificant(c, b)}) = j}
  BY <1>1
<1>3. Gathered(end) = [j \in Word |-> {b \in SignalBits : Rank(b, end) = j}]
  BY DEF Gathered, SignalBits
<1>4. Value = [j \in Word |->
                {b \in SignalBits : Cardinality({c \in SignalBits : LessSignificant(c, b)}) = j}]
  BY DEF Value
<1> QED
  BY <1>2, <1>3, <1>4

LEMMA WithinBits ==
  ASSUME PluckTypeOK, WithinField, Aligned, pluckPc = "pluck", i < end
  PROVE  i..(Upto - 1) \subseteq Bits
<1>1. /\ i \in Nat /\ Upto \in Nat /\ end \in Nat /\ NextByte \in Nat /\ Upto <= end
      /\ end <= BYTE * dlc /\ BYTE * dlc \in Nat
      /\ BYTE * MaxDlc \in Nat /\ BYTE * dlc <= BYTE * MaxDlc
  BY PluckTyped, Iteration DEF WithinField
<1> QED
  BY <1>1 DEF Bits

LEMMA OrTyped ==
  ASSUME NEW x \in [Word -> SUBSET Bits], NEW y \in [Word -> SUBSET Bits]
  PROVE  Or(x, y) \in [Word -> SUBSET Bits]
BY DEF Or

LEMMA ShiftedTyped ==
  ASSUME i..(Upto - 1) \subseteq Bits, NEW n
  PROVE  Shifted(n) \in [Word -> SUBSET Bits]
BY DEF Shifted

\* The extraction of a signal starts with nothing decided.
LEMMA InitPluck == PluckInit => PluckIInv
<1> SUFFICES ASSUME PluckInit PROVE PluckIInv
  OBVIOUS
<1>1. pluckPc = "check" /\ pluckStatus = "none" /\ i = 0 /\ raw = Zero
  BY DEF PluckInit
<1>2. PluckTypeOK
  <2>1. BYTE * MaxDlc \in Nat
    <3>1. \A x, y \in Nat : x * y \in Nat
      OBVIOUS
    <3> QED
      BY <3>1, PluckWidthsAssumption
  <2>2. i \in 0..(BYTE * MaxDlc)
    BY <1>1, <2>1
  <2> QED
    BY <2>2 DEF PluckInit, PluckTypeOK, Zero
<1> QED
  BY <1>1, <1>2 DEF PluckIInv, WithinField, Aligned, Plucked, Undecided, PlucksValue, FailsOutside

LEMMA RefusePluck == ASSUME PluckIInv, Refuse PROVE PluckIInv'
<1>1. /\ pluckPc' = "done" /\ pluckStatus' = "FAIL" /\ sig' = sig /\ dlc' = dlc
      /\ i' = i /\ raw' = raw
  BY DEF Refuse
<1>2. /\ BYTE * dlc \in Nat /\ sig.start \in Nat /\ sig.size \in Nat
      /\ end \in Nat /\ end = sig.start + sig.size
  BY PluckTyped DEF PluckIInv
<1>3. StartsOutside \/ ExtendsOutside \/ Empty
  BY DEF Refuse
<1>4. ~(SignalBits # {} /\ SignalBits \subseteq 0..(BYTE * dlc - 1))
  <2> SUFFICES ASSUME SignalBits # {}, SignalBits \subseteq 0..(BYTE * dlc - 1)
               PROVE  FALSE
    OBVIOUS
  <2>1. sig.start < end
    BY <1>2 DEF SignalBits
  <2>2. sig.start \in SignalBits /\ end - 1 \in SignalBits
    BY <1>2, <2>1 DEF SignalBits
  <2>3. sig.start < BYTE * dlc /\ end - 1 < BYTE * dlc
    BY <1>2, <2>2
  <2> QED
    BY <1>2, <1>3, <2>1, <2>3 DEF StartsOutside, ExtendsOutside, Empty
<1>5. PluckTypeOK'
  BY <1>1 DEF PluckIInv, PluckTypeOK
<1>6. FailsOutside'
  BY <1>1, <1>4 DEF FailsOutside, SignalBits, end
<1> QED
  BY <1>1, <1>5, <1>6 DEF PluckIInv, WithinField, Aligned, Plucked, Undecided, PlucksValue

LEMMA BeginPluck == ASSUME PluckIInv, Begin PROVE PluckIInv'
<1>1. /\ pluckPc' = "pluck" /\ pluckStatus' = pluckStatus /\ sig' = sig /\ dlc' = dlc
      /\ i' = sig.start /\ raw' = Zero /\ pluckStatus = "none"
  BY DEF Begin, PluckIInv, Undecided
<1>2. /\ BYTE * dlc \in Nat /\ sig.start \in Nat /\ sig.size \in Nat
      /\ BYTE * MaxDlc \in Nat /\ BYTE * dlc <= BYTE * MaxDlc
      /\ end \in Nat /\ end = sig.start + sig.size
  BY PluckTyped DEF PluckIInv
<1>3. sig.start < BYTE * dlc /\ sig.size >= 1 /\ end <= BYTE * dlc
  BY <1>2 DEF Begin, StartsOutside, ExtendsOutside, Empty
<1>4. PluckTypeOK'
  <2>1. i' \in 0..(BYTE * MaxDlc)
    BY <1>1, <1>2, <1>3
  <2> QED
    BY <1>1, <2>1 DEF PluckIInv, PluckTypeOK, Zero
<1>5. WithinField'
  BY <1>1, <1>3 DEF WithinField, end
<1>6. Aligned'
  BY <1>1, <1>2 DEF Aligned
<1>7. Plucked'
  <2>1. Gathered(sig.start) = Zero
    <3>1. sig.start..(sig.start - 1) = {}
      BY <1>2
    <3> QED
      BY <3>1 DEF Gathered, Zero
  <2>2. Seen' = sig.start
    BY <1>1, <1>2, <1>3 DEF Seen, end
  <2>3. raw' = Gathered(sig.start)
    BY <1>1, <2>1
  <2> QED
    BY <1>1, <2>2, <2>3
       DEF Plucked, Gathered, Rank, FirstOf, PastOf, ByteStart, LittleEndian
<1> QED
  BY <1>1, <1>4, <1>5, <1>6, <1>7 DEF PluckIInv, Undecided, PlucksValue, FailsOutside

\* An iteration of either loop, once it is known what it makes of the result.
LEMMA IteratePluck ==
  ASSUME PluckIInv, pluckPc = "pluck", i < end, i' = NextByte,
         UNCHANGED <<pluckPc, sig, dlc, pluckStatus>>,
         raw' \in [Word -> SUBSET Bits],
         (LittleEndian => sig.size <= WORD) => raw' = Gathered(Upto)
  PROVE  PluckIInv'
<1>1. /\ pluckPc' = "pluck" /\ sig' = sig /\ dlc' = dlc
      /\ pluckStatus' = pluckStatus /\ pluckStatus = "none" /\ i' = NextByte
  BY DEF PluckIInv, Undecided
<1>2. /\ i \in Nat /\ end \in Nat /\ sig.start \in Nat /\ sig.start <= i
      /\ BYTE * dlc \in Nat /\ BYTE * MaxDlc \in Nat /\ BYTE * dlc <= BYTE * MaxDlc
  BY PluckTyped DEF PluckIInv, Aligned
<1>3. /\ NextByte \in Nat /\ ByteStart(NextByte) = NextByte
      /\ i < NextByte /\ NextByte <= BYTE * dlc
      /\ Upto = IF NextByte < end THEN NextByte ELSE end
  BY Iteration DEF PluckIInv
<1>4. PluckTypeOK'
  <2>1. i' \in 0..(BYTE * MaxDlc)
    BY <1>1, <1>2, <1>3
  <2> QED
    BY <1>1, <2>1 DEF PluckIInv, PluckTypeOK
<1>5. WithinField'
  BY <1>1 DEF PluckIInv, WithinField, end
<1>6. Aligned'
  <2>1. PICK n \in Nat : n = NextByte
    BY <1>3
  <2>2. ByteStart(n) = n /\ sig.start <= n /\ i' = n
    BY <1>1, <1>2, <1>3, <2>1
  <2> QED
    BY <1>1, <2>2 DEF Aligned, ByteStart
<1>7. Plucked'
  <2>1. PICK m \in Nat : m = Upto
    BY <1>2, <1>3
  <2>2. Seen' = m
    <3>1. end' = end
      BY <1>1 DEF end
    <3> QED
      BY <1>1, <1>3, <2>1, <3>1 DEF Seen
  <2>3. (LittleEndian => sig.size <= WORD) => raw' = Gathered(m)
    BY <2>1
  <2> QED
    BY <1>1, <2>2, <2>3
       DEF Plucked, Gathered, Rank, FirstOf, PastOf, ByteStart, LittleEndian
<1> QED
  BY <1>1, <1>4, <1>5, <1>6, <1>7 DEF PluckIInv, Undecided, PlucksValue, FailsOutside

LEMMA PluckLEInv == ASSUME PluckIInv, PluckLE PROVE PluckIInv'
<1>1. /\ pluckPc = "pluck" /\ i < end /\ i' = NextByte /\ LittleEndian
      /\ UNCHANGED <<pluckPc, sig, dlc, pluckStatus>>
  BY DEF PluckLE, LittleEndian
<1>2. raw' \in [Word -> SUBSET Bits]
  <2>1. i..(Upto - 1) \subseteq Bits
    BY <1>1, WithinBits DEF PluckIInv
  <2>2. PICK byte \in Shift(i - sig.start) : raw' = Or(raw, byte)
    BY DEF PluckLE
  <2>3. byte \in [Word -> SUBSET Bits]
    <3>1. \A n : Shifted(n) \in [Word -> SUBSET Bits]
      BY <2>1, ShiftedTyped
    <3>2. Zero \in [Word -> SUBSET Bits]
      BY DEF Zero
    <3> QED
      BY <2>2, <3>1, <3>2 DEF Shift
  <2> QED
    BY <2>2, <2>3, OrTyped DEF PluckIInv, PluckTypeOK
<1>3. sig.size <= WORD => raw' = Gathered(Upto)
  BY PluckLEGathers DEF PluckIInv
<1> QED
  BY <1>1, <1>2, <1>3, IteratePluck

LEMMA PluckBEInv == ASSUME PluckIInv, PluckBE PROVE PluckIInv'
<1>1. /\ pluckPc = "pluck" /\ i < end /\ i' = NextByte
      /\ UNCHANGED <<pluckPc, sig, dlc, pluckStatus>>
  BY DEF PluckBE
<1>2. raw' \in [Word -> SUBSET Bits]
  <2>1. i..(Upto - 1) \subseteq Bits
    BY <1>1, WithinBits DEF PluckIInv
  <2>2. Shifted(0) \in [Word -> SUBSET Bits]
    BY <2>1, ShiftedTyped
  <2>3. ShiftRaw(Upto - i) \in [Word -> SUBSET Bits]
    <3>1. PICK w \in Nat : w = Upto - i /\ w > 0
      BY <1>1, PluckTyped, Iteration DEF PluckIInv
    <3>2. raw \in [Word -> SUBSET Bits]
      BY DEF PluckIInv, PluckTypeOK
    <3>3. \A j \in Word : ~(j < w) => j - w \in Word
      BY <3>1, PluckWidthsAssumption DEF Word
    <3>4. \A j \in Word : (IF j < w THEN {} ELSE raw[j - w]) \in SUBSET Bits
      BY <3>2, <3>3
    <3> QED
      BY <3>1, <3>4 DEF ShiftRaw
  <2> QED
    BY <2>2, <2>3, OrTyped DEF PluckBE
<1>3. raw' = Gathered(Upto)
  BY PluckBEGathers DEF PluckIInv
<1> QED
  BY <1>1, <1>2, <1>3, IteratePluck

LEMMA FinishPluck == ASSUME PluckIInv, Finish PROVE PluckIInv'
<1>1. /\ pluckPc = "pluck" /\ pluckPc' = "done" /\ pluckStatus' = "OK" /\ i >= end
      /\ sig' = sig /\ dlc' = dlc /\ i' = i /\ raw' = raw
  BY DEF Finish
<1>2. /\ BYTE * dlc \in Nat /\ sig.start \in Nat /\ sig.size \in Nat /\ i \in Nat
      /\ end \in Nat /\ end = sig.start + sig.size /\ sig.size >= 1 /\ end <= BYTE * dlc
  BY <1>1, PluckTyped DEF PluckIInv, WithinField
<1>3. sig.size <= WORD => raw = Value
  <2>1. Seen = end
    BY <1>1, <1>2 DEF Seen
  <2> QED
    BY <1>1, <2>1, GatheredIsValue DEF PluckIInv, Plucked
<1>4. SignalBits # {} /\ SignalBits \subseteq 0..(BYTE * dlc - 1)
  <2>1. sig.start \in SignalBits
    BY <1>2 DEF SignalBits
  <2>2. SignalBits \subseteq 0..(BYTE * dlc - 1)
    BY <1>2 DEF SignalBits
  <2> QED
    BY <2>1, <2>2
<1>5. PluckTypeOK'
  BY <1>1 DEF PluckIInv, PluckTypeOK
<1>6. PlucksValue'
  BY <1>1, <1>3 DEF PlucksValue, Value, SignalBits, end, LessSignificant
<1>7. FailsOutside'
  BY <1>1, <1>4 DEF FailsOutside, SignalBits, end
<1> QED
  BY <1>1, <1>5, <1>6, <1>7 DEF PluckIInv, WithinField, Aligned, Plucked, Undecided

LEMMA StutterPluck == ASSUME PluckIInv, UNCHANGED pluckVars PROVE PluckIInv'
<1>1. /\ pluckPc' = pluckPc /\ sig' = sig /\ dlc' = dlc /\ i' = i /\ raw' = raw
      /\ pluckStatus' = pluckStatus
  BY DEF pluckVars
<1>2. PluckTypeOK' /\ WithinField' /\ Undecided'
  BY <1>1 DEF PluckIInv, PluckTypeOK, WithinField, Undecided, end
<1>3. Aligned'
  BY <1>1 DEF PluckIInv, Aligned, ByteStart
<1>4. Plucked'
  BY <1>1
     DEF PluckIInv, Plucked, Gathered, Seen, Rank, FirstOf, PastOf, ByteStart, LittleEndian, end
<1>5. PlucksValue'
  BY <1>1 DEF PluckIInv, PlucksValue, Value, SignalBits, end, LessSignificant
<1>6. FailsOutside'
  BY <1>1 DEF PluckIInv, FailsOutside, SignalBits, end
<1> QED
  BY <1>2, <1>3, <1>4, <1>5, <1>6 DEF PluckIInv

\* Every extraction keeps the inductive invariant, whatever the format of the
\* signal and the length of the frame.
THEOREM PluckInvariance == PluckSpec => []PluckIInv
<1>1. PluckInit => PluckIInv
  BY InitPluck
<1>2. PluckIInv /\ [PluckNext]_pluckVars => PluckIInv'
  BY RefusePluck, BeginPluck, PluckLEInv, PluckBEInv, FinishPluck, StutterPluck DEF PluckNext
<1> QED
  BY <1>1, <1>2, PTL DEF PluckSpec

\* The variables of sigPluck() keep their types: the loop counter does not
\* pass the longest DATA FIELD, and only its bits get into the result.
THEOREM PluckTypeCorrect == PluckSpec => []PluckTypeOK
<1>1. PluckIInv => PluckTypeOK
  BY DEF PluckIInv
<1> QED
  BY <1>1, PluckInvariance, PTL

\* For every width of byte and word: when sigPluck() succeeds and the word can
\* hold the signal, every bit of the signal is where its byte order says, and the
\* bits above an unsigned signal are 0.
THEOREM ValuePlucked == PluckSpec => []PlucksValue
<1>1. PluckIInv => PlucksValue
  BY DEF PluckIInv
<1> QED
  BY <1>1, PluckInvariance, PTL

\* For every length of frame: the three preconditions of sigPluck() refuse
\* exactly the signals that are empty or not within the frame.
THEOREM OutsideFails == PluckSpec => []FailsOutside
<1>1. PluckIInv => FailsOutside
  BY DEF PluckIInv
<1> QED
  BY <1>1, PluckInvariance, PTL

\* No iteration of pluckLE() or pluckBE() reads past the DATA FIELD received.
THEOREM ReadsStayWithin == PluckSpec => []ReadsWithinFrame
<1>1. PluckIInv => ReadsWithinFrame
  BY Iteration DEF PluckIInv, ReadsWithinFrame
<1> QED
  BY <1>1, PluckInvariance, PTL
=============================================================================
