------------------------------ MODULE NvMemory ------------------------------
(***************************************************************************)
(* What the EEPROM driver promises its callers: a byte-addressed memory    *)
(* that survives power loss.  One call is under way at a time.  A write    *)
(* stores its bytes in ascending order, some at a time, and returns OK     *)
(* once the last ones are on their way; it may also fail part-way.  Until  *)
(* the bytes stored last have settled a power loss may leave anything in   *)
(* their place.  Nothing else is ever disturbed.                           *)
(***************************************************************************)
EXTENDS Naturals

CONSTANTS Addr, Byte, Requests, NoRequest

VARIABLES
  cell,       \* what a read returns
  unsettled,  \* addresses a power loss may spoil
  request,    \* the call under way
  next,       \* the first address the call has not stored
  result,     \* of the last call: "none" while it runs
  got         \* what the last call read

vars == <<cell, unsettled, request, next, result, got>>

\* A request reads or writes the addresses from lo to hi-1.
Span(r) == r.lo..(r.hi - 1)

Init ==
  /\ cell \in [Addr -> Byte]
  /\ unsettled = {}
  /\ request = NoRequest
  /\ next = 0
  /\ result = "none"
  /\ got = <<>>

Call(r) ==
  /\ request = NoRequest
  /\ request' = r
  /\ next' = r.lo
  /\ result' = "none"
  /\ got' = <<>>
  /\ UNCHANGED <<cell, unsettled>>

Finish(status) ==
  /\ request' = NoRequest
  /\ result' = status
  /\ next' = 0

\* The bytes up to the address n are stored; the write is over when that is all.
Store(n) ==
  /\ request # NoRequest
  /\ request.op = "write"
  /\ unsettled = {}
  /\ next < n /\ n <= request.hi
  /\ cell' = [a \in Addr |-> IF next <= a /\ a < n THEN request.data[a] ELSE cell[a]]
  /\ unsettled' \subseteq Addr
  /\ next..(n - 1) \subseteq unsettled'
  /\ \/ n = request.hi /\ Finish("OK")
     \/ n < request.hi /\ next' = n /\ UNCHANGED <<request, result>>
  /\ UNCHANGED got

Fetch ==
  /\ request # NoRequest
  /\ request.op = "read"
  /\ unsettled = {}
  /\ got' = [a \in Span(request) |-> cell[a]]
  /\ Finish("OK")
  /\ UNCHANGED <<cell, unsettled>>

Fail ==
  /\ request # NoRequest
  /\ Finish("FAIL")
  /\ UNCHANGED <<cell, unsettled, got>>

Settle ==
  /\ unsettled # {}
  /\ unsettled' = {}
  /\ UNCHANGED <<cell, request, next, result, got>>

PowerLoss ==
  /\ cell' \in [Addr -> Byte]
  /\ \A a \in Addr \ unsettled : cell'[a] = cell[a]
  /\ unsettled' = {}
  /\ request' = NoRequest
  /\ next' = 0
  /\ result' = "none"
  /\ got' = <<>>

Next ==
  \/ \E r \in Requests : Call(r)
  \/ \E n \in Addr : Store(n + 1)
  \/ Fetch \/ Fail \/ Settle \/ PowerLoss

Spec == Init /\ [][Next]_vars
=============================================================================
