------------------------------- MODULE Eeprom -------------------------------
(***************************************************************************)
(* The driver of the 25LC160C EEPROM (eeprom.c) and the chip.  The driver  *)
(* runs one call at a time, step by step as it talks to the chip; the chip *)
(* ends a write cycle whenever it likes, and the power may fail between    *)
(* any two steps.  A write that crosses a page boundary is split, because  *)
(* the chip's address counter wraps within a page.                         *)
(***************************************************************************)
EXTENDS Integers

CONSTANTS
  Size,       \* bytes of memory
  PAGE_SIZE,  \* bytes of a page
  BAILOUT,    \* polls before the driver gives up
  MaxLength,  \* bound on the length of a request
  Byte,       \* values of a byte
  NoRequest

ASSUME SizeAssumption == Size \in Nat \ {0} /\ MaxLength \in Nat
ASSUME PageAssumption == PAGE_SIZE \in Nat \ {0}
ASSUME BailoutAssumption == BAILOUT \in Nat \ {0}
ASSUME ByteAssumption == Byte # {}

VARIABLES
  \* The driver
  request,  \* the call under way, or NoRequest
  pc,       \* where it is
  addr,     \* next address of the call
  k,        \* polls of waitForWrite()
  busy,     \* WIP as waitForWrite() read it last
  result,   \* what the last call returned, "none" while it runs
  got,      \* bytes the last call read
  sawBusy,  \* history: how often this waitForWrite() has read WIP as set
  \* The chip
  mem,      \* the memory array
  latch,    \* bytes of the page being written, by address
  ptr,      \* its address counter
  wip,      \* a write cycle is in progress
  wel       \* the write enable latch

driver == <<request, pc, addr, k, busy, result, got, sawBusy>>
chip == <<mem, latch, ptr, wip, wel>>
vars == <<request, pc, addr, k, busy, result, got, sawBusy, mem, latch, ptr, wip, wel>>

Addr == 0..(Size - 1)
None == <<>>

\* Calls of eepromRead() and eepromWrite() on the addresses from lo to hi-1.
Spans == {s \in (0..Size) \X (0..Size) : s[1] < s[2] /\ s[2] <= s[1] + MaxLength}
Reads == {[op |-> "read", lo |-> s[1], hi |-> s[2]] : s \in Spans}
Writes == UNION {{[op |-> "write", lo |-> s[1], hi |-> s[2], data |-> d] :
                    d \in [s[1]..(s[2] - 1) -> Byte]} : s \in Spans}
Requests == Reads \cup Writes

ASSUME NoRequestAssumption == NoRequest \notin Requests

\* (Mutant: the boundary is found one byte early.)
IsPageEnd(a) == a % PAGE_SIZE = PAGE_SIZE - 1
IsPageStart(a) == a % PAGE_SIZE = 0

\* The chip counts modulo the page.
NextInPage(a) == IF (a + 1) % PAGE_SIZE = 0 THEN a + 1 - PAGE_SIZE ELSE a + 1

PageOf(a) == {b \in Addr : b \div PAGE_SIZE = a \div PAGE_SIZE}

Init ==
  /\ request = NoRequest
  /\ pc = "idle"
  /\ addr = 0
  /\ k = 0
  /\ busy = FALSE
  /\ result = "none"
  /\ got = None
  /\ sawBusy = 0
  /\ mem \in [Addr -> Byte]
  /\ latch = None
  /\ ptr = 0
  /\ wip = FALSE
  /\ wel = FALSE

-----------------------------------------------------------------------------
(* The driver                                                              *)

Return(status) ==
  /\ pc' = "idle"
  /\ request' = NoRequest
  /\ addr' = 0
  /\ k' = 0
  /\ busy' = FALSE
  /\ sawBusy' = 0
  /\ result' = status

\* (Mutant: the polls of the first page count for the second.)
StartWaitOn(writing) ==
  /\ pc' = "wait"
  /\ busy' = writing
  /\ k' = k
  /\ sawBusy' = IF writing THEN 1 ELSE 0

\* waitForWrite() starts by reading the status.
StartWait(writing) ==
  /\ pc' = "wait"
  /\ busy' = writing
  /\ k' = 0
  /\ sawBusy' = IF writing THEN 1 ELSE 0

\* A call of eepromWrite() or eepromRead().
Call(r) ==
  /\ pc = "idle"
  /\ request' = r
  /\ addr' = r.lo
  /\ result' = "none"
  /\ got' = None
  /\ StartWait(wip)
  /\ UNCHANGED chip

\* (Mutant: waitForWrite() never gives up.)
PollForever ==
  /\ pc = "wait"
  /\ busy
  /\ busy' = wip
  /\ UNCHANGED <<request, pc, addr, k, result, got, sawBusy, chip>>

\* One more round of waitForWrite().
Poll ==
  /\ pc = "wait"
  /\ busy /\ k < BAILOUT
  /\ busy' = wip
  /\ k' = k + 1
  /\ sawBusy' = IF wip THEN sawBusy + 1 ELSE sawBusy
  /\ UNCHANGED <<request, pc, addr, result, got, chip>>

WaitOk ==
  /\ pc = "wait"
  /\ ~busy /\ k < BAILOUT
  /\ pc' = IF request.op = "write" THEN "enable" ELSE "fetch"
  /\ UNCHANGED <<request, addr, k, busy, result, got, sawBusy, chip>>

\* The last poll counts as a timeout whatever it read.
WaitFails ==
  /\ pc = "wait"
  /\ k = BAILOUT
  /\ Return("FAIL")
  /\ UNCHANGED <<got, chip>>

\* writeEnable(), and WRITE with the address, which empties the page latch.
Enable ==
  /\ pc = "enable"
  /\ pc' = "data"
  /\ wel' = TRUE
  /\ latch' = None
  /\ ptr' = addr
  /\ UNCHANGED <<request, addr, k, busy, result, got, sawBusy, mem, wip>>

\* writeEnable() reads the latch back and finds it unset.
EnableFails ==
  /\ pc = "enable"
  /\ Return("FAIL")
  /\ UNCHANGED <<got, chip>>

\* The byte is clocked into the page latch.
ShiftIn ==
  /\ latch' = [a \in DOMAIN latch \cup {ptr} |->
                IF a = ptr THEN request.data[addr] ELSE latch[a]]
  /\ ptr' = NextInPage(ptr)

\* The next byte stays within the page.
SendByte ==
  /\ pc = "data"
  /\ addr + 1 < request.hi
  /\ ~IsPageStart(addr + 1)
  /\ ShiftIn
  /\ addr' = addr + 1
  /\ UNCHANGED <<request, pc, k, busy, result, got, sawBusy, mem, wip, wel>>

\* (Mutant: the next page starts without a wait.)
CrossPageNoWait ==
  /\ pc = "data"
  /\ addr + 1 < request.hi
  /\ IsPageStart(addr + 1)
  /\ ShiftIn
  /\ wip' = TRUE
  /\ addr' = addr + 1
  /\ pc' = "enable"
  /\ UNCHANGED <<request, k, busy, result, got, sawBusy, mem, wel>>

\* The last byte of a page with more to come: end the WRITE, wait, start over.
CrossPage ==
  /\ pc = "data"
  /\ addr + 1 < request.hi
  /\ IsPageStart(addr + 1)
  /\ ShiftIn
  /\ wip' = TRUE
  /\ addr' = addr + 1
  /\ StartWait(wip')
  /\ UNCHANGED <<request, result, got, mem, wel>>

\* The last byte: eepromWrite() returns while the chip starts to write.
LastByte ==
  /\ pc = "data"
  /\ addr + 1 = request.hi
  /\ ShiftIn
  /\ wip' = TRUE
  /\ Return("OK")
  /\ UNCHANGED <<got, mem, wel>>

\* READ, the address and the bytes.
Fetch ==
  /\ pc = "fetch"
  /\ got' = [a \in request.lo..(request.hi - 1) |-> mem[a]]
  /\ Return("OK")
  /\ UNCHANGED chip

\* eepromInit() after a reset of the PIC alone; WRDI is ignored during a cycle.
Reset ==
  /\ pc = "idle"
  /\ wel' = (wel /\ wip)
  /\ UNCHANGED <<driver, mem, latch, ptr, wip>>

-----------------------------------------------------------------------------
(* The chip and its supply                                                 *)

Latched(a) == IF a \in DOMAIN latch THEN latch[a] ELSE mem[a]

\* The write cycle ends.
WriteCycleEnds ==
  /\ wip
  /\ mem' = [a \in Addr |-> Latched(a)]
  /\ latch' = None
  /\ wip' = FALSE
  /\ wel' = FALSE
  /\ UNCHANGED <<driver, ptr>>

\* The page a write cycle is rewriting, none if there is no cycle.
Unsettled == IF wip THEN UNION {PageOf(a) : a \in DOMAIN latch} ELSE {}

\* The power fails, which spoils the page in a write cycle; PIC and chip restart.
PowerLoss ==
  /\ mem' \in [Addr -> Byte]
  /\ \A a \in Addr \ Unsettled : mem'[a] = mem[a]
  /\ latch' = None
  /\ ptr' = 0
  /\ wip' = FALSE
  /\ wel' = FALSE
  /\ Return("none")
  /\ got' = None

Step == \/ Poll \/ WaitOk \/ WaitFails
        \/ Enable \/ EnableFails
        \/ SendByte \/ CrossPage \/ LastByte
        \/ Fetch

Next ==
  \/ \E r \in Requests : Call(r)
  \/ Step
  \/ Reset \/ WriteCycleEnds \/ PowerLoss

Spec == Init /\ [][Next]_vars

\* The PIC executes its program; nothing is asked of the chip.
FairSpec == Spec /\ WF_vars(Step)

-----------------------------------------------------------------------------
(* Properties                                                              *)

TypeOK ==
  /\ request \in Requests \cup {NoRequest}
  /\ pc \in {"idle", "wait", "enable", "data", "fetch"}
  /\ pc = "idle" <=> request = NoRequest
  /\ addr \in Addr
  /\ k \in 0..BAILOUT
  /\ busy \in BOOLEAN
  /\ result \in {"none", "OK", "FAIL"}
  /\ sawBusy \in Nat
  /\ got = None \/ \E s \in Spans : got \in [s[1]..(s[2] - 1) -> Byte]
  /\ mem \in [Addr -> Byte]
  /\ DOMAIN latch \subseteq Addr
  /\ \A a \in DOMAIN latch : latch[a] \in Byte
  /\ ptr \in Int
  /\ wip \in BOOLEAN
  /\ wel \in BOOLEAN

\* The chip ignores everything but a status read during a write cycle.  The
\* driver never sends it anything else then, although what it knows of the
\* cycle is the answer to an earlier poll, and a write starts cycles itself.
ReadyWhenAddressed == pc \in {"enable", "data", "fetch"} => ~wip

\* A call times out only on a chip that this very wait has found busy BAILOUT
\* times, whatever it took to wait for the pages before; the last of BAILOUT + 1
\* looks does not count, so the chip may have got ready by then.
TimesOutForCause == [][pc = "wait" /\ result' = "FAIL" => sawBusy >= BAILOUT]_vars

Least(S) == CHOOSE a \in S : \A b \in S : a <= b

\* The first address of the current call that has not been handed to a cycle.
NextToStore == IF pc = "data" THEN Least(DOMAIN latch \cup {addr}) ELSE addr

\* What a read at the end of the write cycle will find.
Cell == [a \in Addr |-> IF wip THEN Latched(a) ELSE mem[a]]

NV == INSTANCE NvMemory WITH
        cell <- Cell,
        unsettled <- Unsettled,
        next <- NextToStore

\* The driver and the chip together are the memory NvMemory promises: bytes go
\* where they were addressed to however the request lies across pages, OK means
\* that all of them went, a failure leaves a prefix, and a read sees the writes
\* before it even when the last of them was still in the chip's latch.
IsNvMemory == NV!Spec

\* Every call returns, even if the chip never ends its write cycle: waitForWrite()
\* runs inside the interrupt routine, with interrupts off.
CallReturns == pc # "idle" ~> pc = "idle"
=============================================================================
