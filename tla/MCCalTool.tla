----------------------------- MODULE MCCalTool -----------------------------
(***************************************************************************)
(* Two signals and their tables of two rows.  The DBC file has two         *)
(* messages, each with either, both or none of the signals, or with one    *)
(* that does not fit.  A table's file is empty, in order, out of order,    *)
(* too long, has a key twice or a bad line: two rows leave no other order. *)
(* Three attempts and two faults: a lost frame and a foreign one can meet  *)
(* in one command, and together exhaust its attempts.                      *)
(***************************************************************************)
EXTENDS CalTool

CONSTANTS e1, e2

MCEncodings == {e1, e2}
MCHeld == {e1}
Messages(e) == UNION {[S -> {e}] : S \in SUBSET Signals}
MCDbcs == (Messages(e1) \X Messages(e2)) \cup {<<[s \in {1} |-> Unfit]>>}

MCLines == [key : 1..3, val : {0}]
File(keys) == [j \in DOMAIN keys |-> [key |-> keys[j], val |-> 0]]
MCFiles == {File(keys) : keys \in {<<>>, <<1>>, <<1, 2>>, <<2, 1>>, <<1, 1>>, <<1, 2, 3>>}}
           \cup {<<BadLine>>}
=============================================================================
