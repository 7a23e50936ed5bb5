---------------------------- MODULE EepromProofs ----------------------------
(***************************************************************************)
(* Proofs about Eeprom for any memory and page size, number of polls and   *)
(* set of byte values: the chip is ready whenever the driver addresses it, *)
(* and the two together implement NvMemory.                                *)
(***************************************************************************)
EXTENDS Eeprom, TLAPS

\* A poll that found the chip ready stays right: only the driver starts cycles.
PollIsFresh == pc = "wait" /\ ~busy => ~wip

\* The call is within its addresses and unanswered, and a branch of the driver is
\* its own.
OnCourse ==
  /\ request # NoRequest => request.lo <= addr /\ addr < request.hi /\ result = "none"
  /\ pc \in {"enable", "data"} => request.op = "write"
  /\ pc = "fetch" => request.op = "read"

\* From s on the latch holds the bytes of the request that were sent.
Sent(s) ==
  /\ s \in request.lo..addr
  /\ ptr = addr
  /\ DOMAIN latch = s..(addr - 1)
  /\ \A a \in DOMAIN latch : latch[a] = request.data[a]

LatchInOrder == pc = "data" => \E s \in Addr : Sent(s)

\* Every poll but the one that ends the wait has found the chip busy.
PollsCounted == pc = "wait" => sawBusy >= k /\ (busy => sawBusy = k + 1)

IInv ==
  /\ TypeOK
  /\ ReadyWhenAddressed
  /\ PollIsFresh
  /\ OnCourse
  /\ LatchInOrder
  /\ PollsCounted

-----------------------------------------------------------------------------
(* Facts about the operators                                               *)

\* A request is one of the two records of its span.
LEMMA RequestShape ==
  ASSUME NEW r \in Requests
  PROVE  \E s \in Spans :
           /\ r.lo = s[1] /\ r.hi = s[2]
           /\ r.op \in {"read", "write"}
           /\ r.op = "write" => r.data \in [s[1]..(s[2] - 1) -> Byte]
<1>1. CASE r \in Reads
  <2>1. PICK s \in Spans : r = [op |-> "read", lo |-> s[1], hi |-> s[2]]
    BY <1>1 DEF Reads
  <2> QED
    BY <2>1
<1>2. CASE r \in Writes
  <2>1. PICK s \in Spans : \E d \in [s[1]..(s[2] - 1) -> Byte] :
                r = [op |-> "write", lo |-> s[1], hi |-> s[2], data |-> d]
    BY <1>2 DEF Writes
  <2> QED
    BY <2>1
<1> QED
  BY <1>1, <1>2 DEF Requests

LEMMA RequestBounds ==
  ASSUME NEW r \in Requests
  PROVE  r.lo \in 0..Size /\ r.hi \in 0..Size /\ r.lo < r.hi /\ r.lo \in Addr
<1>1. PICK s \in Spans : r.lo = s[1] /\ r.hi = s[2]
  BY RequestShape
<1>2. s[1] \in 0..Size /\ s[2] \in 0..Size /\ s[1] < s[2]
  BY DEF Spans
<1> QED
  BY <1>1, <1>2, SizeAssumption DEF Addr

LEMMA RequestSpan ==
  ASSUME NEW r \in Requests
  PROVE  /\ r # NoRequest
         /\ \E s \in Spans : s[1] = r.lo /\ s[2] = r.hi
         /\ r.op \in {"read", "write"}
         /\ r.op = "write" => r.data \in [r.lo..(r.hi - 1) -> Byte]
BY RequestShape, NoRequestAssumption

\* In a call the address is one of the request's.
LEMMA CallFacts ==
  ASSUME IInv, pc # "idle"
  PROVE  /\ request \in Requests
         /\ request.lo \in Nat /\ request.hi \in 0..Size
         /\ request.lo <= addr /\ addr < request.hi
         /\ addr \in Addr /\ addr \in Int
<1>1. request \in Requests /\ request # NoRequest /\ addr \in Addr
  BY DEF IInv, TypeOK
<1>2. request.lo <= addr /\ addr < request.hi
  BY <1>1 DEF IInv, OnCourse
<1>3. request.lo \in 0..Size /\ request.hi \in 0..Size
  BY <1>1, RequestBounds
<1>4. addr \in Int
  BY <1>1, SizeAssumption DEF Addr
<1> QED
  BY <1>1, <1>2, <1>3, <1>4, SizeAssumption

LEMMA OnePage == ASSUME NEW a \in Addr PROVE a \in PageOf(a) /\ PageOf(a) \subseteq Addr
BY DEF PageOf

LEMMA LatchedType == ASSUME TypeOK, NEW a \in Addr PROVE Latched(a) \in Byte
BY DEF TypeOK, Latched

-----------------------------------------------------------------------------
(* Types.  Most steps change only the driver or only the chip.             *)

GotType == got = None \/ \E s \in Spans : got \in [s[1]..(s[2] - 1) -> Byte]

DriverType ==
  /\ request \in Requests \cup {NoRequest}
  /\ pc \in {"idle", "wait", "enable", "data", "fetch"}
  /\ pc = "idle" <=> request = NoRequest
  /\ addr \in Addr
  /\ k \in 0..BAILOUT
  /\ busy \in BOOLEAN
  /\ result \in {"none", "OK", "FAIL"}
  /\ sawBusy \in Nat

ChipType ==
  /\ mem \in [Addr -> Byte]
  /\ DOMAIN latch \subseteq Addr
  /\ \A a \in DOMAIN latch : latch[a] \in Byte
  /\ ptr \in Int
  /\ wip \in BOOLEAN
  /\ wel \in BOOLEAN

LEMMA TypeParts == TypeOK <=> DriverType /\ GotType /\ ChipType
BY DEF TypeOK, DriverType, GotType, ChipType

LEMMA SameChip == ASSUME ChipType, UNCHANGED chip PROVE ChipType'
BY DEF ChipType, chip

LEMMA SameGot == ASSUME GotType, got' = got \/ got' = None PROVE GotType'
BY DEF GotType, None

\* After a return there is no call, and nothing to say about one.
LEMMA AfterReturn ==
  ASSUME NEW status \in {"none", "OK", "FAIL"}, Return(status)
  PROVE  /\ DriverType'
         /\ ReadyWhenAddressed' /\ PollIsFresh' /\ OnCourse' /\ LatchInOrder' /\ PollsCounted'
<1>1. 0 \in Addr /\ 0 \in 0..BAILOUT
  BY SizeAssumption, BailoutAssumption DEF Addr
<1> QED
  BY <1>1 DEF Return, DriverType, ReadyWhenAddressed, PollIsFresh, OnCourse, LatchInOrder,
     PollsCounted

-----------------------------------------------------------------------------
(* The invariant                                                           *)

LEMMA InitInv == ASSUME Init PROVE IInv
<1>1. 0 \in Addr /\ 0 \in 0..BAILOUT
  BY SizeAssumption, BailoutAssumption DEF Addr
<1>2. DriverType /\ GotType
  BY <1>1 DEF Init, DriverType, GotType
<1>3. ChipType
  <2>1. DOMAIN latch \subseteq Addr /\ \A a \in DOMAIN latch : latch[a] \in Byte
    BY DEF Init, None
  <2>2. mem \in [Addr -> Byte] /\ ptr \in Int
    BY DEF Init
  <2>3. wip \in BOOLEAN /\ wel \in BOOLEAN
    BY DEF Init
  <2> QED
    BY <2>1, <2>2, <2>3 DEF ChipType
<1> QED
  BY <1>2, <1>3
     DEF TypeOK, DriverType, GotType, ChipType, Init, IInv, ReadyWhenAddressed, PollIsFresh, OnCourse,
     LatchInOrder, PollsCounted

LEMMA CallInv == ASSUME IInv, NEW r \in Requests, Call(r) PROVE IInv'
<1>1. r # NoRequest /\ r.lo \in Addr /\ r.lo <= r.lo /\ r.lo < r.hi
  BY RequestBounds, RequestSpan, SizeAssumption DEF Addr
<1>2. ChipType' /\ GotType'
  BY SameChip, SameGot, TypeParts DEF IInv, Call
<1>3. DriverType'
  BY <1>1, BailoutAssumption DEF IInv, TypeOK, DriverType, Call, StartWait
<1>4. ReadyWhenAddressed' /\ PollIsFresh' /\ OnCourse' /\ LatchInOrder' /\ PollsCounted'
  BY <1>1 DEF Call, StartWait, chip, ReadyWhenAddressed, PollIsFresh, OnCourse, LatchInOrder,
     PollsCounted
<1> QED
  BY <1>2, <1>3, <1>4 DEF IInv, TypeOK, DriverType, GotType, ChipType

LEMMA WaitInv == ASSUME IInv, Poll \/ WaitOk PROVE IInv'
<1>1. ChipType' /\ GotType'
  BY SameChip, SameGot, TypeParts DEF IInv, Poll, WaitOk
<1>2. DriverType'
  BY BailoutAssumption DEF IInv, TypeOK, DriverType, Poll, WaitOk
<1>3. ReadyWhenAddressed' /\ PollIsFresh' /\ LatchInOrder'
  BY DEF IInv, Poll, WaitOk, chip, ReadyWhenAddressed, PollIsFresh, LatchInOrder
<1>4. OnCourse'
  BY CallFacts, RequestSpan DEF IInv, Poll, WaitOk, OnCourse
<1>5. PollsCounted'
  BY DEF IInv, TypeOK, Poll, WaitOk, PollsCounted
<1> QED
  BY <1>1, <1>2, <1>3, <1>4, <1>5 DEF IInv, TypeOK, DriverType, GotType, ChipType

LEMMA FailInv == ASSUME IInv, WaitFails \/ EnableFails PROVE IInv'
<1>1. ChipType' /\ GotType'
  BY SameChip, SameGot, TypeParts DEF IInv, WaitFails, EnableFails
<1>2. Return("FAIL")
  BY DEF WaitFails, EnableFails
<1> QED
  BY <1>1, <1>2, AfterReturn DEF IInv, TypeOK, DriverType, GotType, ChipType

LEMMA EnableInv == ASSUME IInv, Enable PROVE IInv'
<1>1. GotType'
  BY SameGot, TypeParts DEF IInv, Enable
<1>2. DriverType'
  BY DEF IInv, TypeOK, DriverType, Enable
<1>3. ChipType'
  BY CallFacts DEF IInv, TypeOK, ChipType, Enable, None
<1>4. ReadyWhenAddressed' /\ PollIsFresh' /\ OnCourse' /\ PollsCounted'
  BY DEF IInv, Enable, ReadyWhenAddressed, PollIsFresh, OnCourse, PollsCounted
<1>5. Sent(addr)'
  BY CallFacts DEF Enable, Sent, None
<1>6. LatchInOrder'
  BY <1>5, CallFacts DEF Enable, LatchInOrder
<1> QED
  BY <1>1, <1>2, <1>3, <1>4, <1>6 DEF IInv, TypeOK, DriverType, GotType, ChipType

\* What a byte clocked in does to the latch.
LEMMA ShiftInFacts ==
  ASSUME IInv, pc = "data", ShiftIn
  PROVE  /\ \E s \in request.lo..addr :
              /\ DOMAIN latch = s..(addr - 1)
              /\ DOMAIN latch' = s..addr
         /\ \A a \in DOMAIN latch' : latch'[a] = request.data[a] /\ latch'[a] \in Byte
         /\ DOMAIN latch' \subseteq Addr
         /\ ptr' = NextInPage(addr)
<1>1. PICK s \in Addr : Sent(s)
  BY DEF IInv, LatchInOrder
<1>2. request.op = "write"
  BY DEF IInv, OnCourse
<1>3. /\ s \in request.lo..addr /\ ptr = addr /\ DOMAIN latch = s..(addr - 1)
      /\ \A a \in DOMAIN latch : latch[a] = request.data[a]
  BY <1>1 DEF Sent
<1>4. DOMAIN latch' = s..addr
  BY <1>3, CallFacts DEF ShiftIn
<1>5. \A a \in DOMAIN latch' : latch'[a] = request.data[a]
  BY <1>3, <1>4, CallFacts DEF ShiftIn
<1>6. \A a \in DOMAIN latch' : a \in request.lo..(request.hi - 1) /\ a \in Addr
  BY <1>3, <1>4, CallFacts, SizeAssumption DEF Addr
<1>7. \A a \in DOMAIN latch' : latch'[a] \in Byte
  BY <1>2, <1>5, <1>6, CallFacts, RequestSpan
<1> QED
  BY <1>3, <1>4, <1>5, <1>6, <1>7 DEF ShiftIn

LEMMA ShiftInType ==
  ASSUME IInv, pc = "data", ShiftIn, mem' = mem, wel' = wel, wip' \in BOOLEAN
  PROVE  ChipType'
<1>1. NextInPage(addr) \in Int
  BY CallFacts, PageAssumption DEF NextInPage
<1> QED
  BY <1>1, ShiftInFacts DEF IInv, TypeOK, ChipType

LEMMA SendInv == ASSUME IInv, SendByte PROVE IInv'
<1>1. /\ pc = "data" /\ pc' = "data" /\ addr' = addr + 1 /\ addr + 1 < request.hi
      /\ ShiftIn /\ ~IsPageStart(addr + 1)
      /\ UNCHANGED <<request, k, busy, result, got, sawBusy, mem, wip, wel>>
  BY DEF SendByte
<1>2. GotType' /\ ChipType'
  BY <1>1, SameGot, ShiftInType, TypeParts DEF IInv, TypeOK
<1>3. addr + 1 \in Addr /\ request.lo <= addr + 1
  BY <1>1, CallFacts, SizeAssumption DEF Addr
<1>4. DriverType'
  BY <1>1, <1>3 DEF IInv, TypeOK, DriverType
<1>5. ReadyWhenAddressed' /\ PollIsFresh' /\ OnCourse' /\ PollsCounted'
  BY <1>1, <1>3 DEF IInv, ReadyWhenAddressed, PollIsFresh, OnCourse, PollsCounted
<1>6. LatchInOrder'
  <2>1. PICK s \in request.lo..addr : DOMAIN latch' = s..addr
    BY <1>1, ShiftInFacts
  <2>2. ptr' = addr + 1
    BY <1>1, ShiftInFacts DEF NextInPage, IsPageStart
  <2>3. s \in Addr /\ s \in request.lo..(addr + 1) /\ addr' - 1 = addr
    BY <1>1, CallFacts, SizeAssumption DEF Addr
  <2>4. \A a \in DOMAIN latch' : latch'[a] = request'.data[a]
    BY <1>1, ShiftInFacts
  <2>5. ptr' = addr' /\ s \in request'.lo..addr' /\ DOMAIN latch' = s..(addr' - 1)
    BY <1>1, <2>1, <2>2, <2>3
  <2>6. Sent(s)'
    BY <2>4, <2>5 DEF Sent
  <2> QED
    BY <2>3, <2>6 DEF LatchInOrder
<1> QED
  BY <1>2, <1>4, <1>5, <1>6 DEF IInv, TypeOK, DriverType, GotType, ChipType

LEMMA CrossInv == ASSUME IInv, CrossPage PROVE IInv'
<1>1. /\ pc = "data" /\ pc' = "wait" /\ addr' = addr + 1 /\ addr + 1 < request.hi
      /\ ShiftIn /\ wip' = TRUE /\ busy' = TRUE /\ k' = 0 /\ sawBusy' = 1
      /\ UNCHANGED <<request, result, got, mem, wel>>
  BY DEF CrossPage, StartWait
<1>2. GotType' /\ ChipType'
  BY <1>1, SameGot, ShiftInType, TypeParts DEF IInv
<1>3. addr + 1 \in Addr /\ request.lo <= addr + 1
  BY <1>1, CallFacts, SizeAssumption DEF Addr
<1>4. DriverType'
  BY <1>1, <1>3, BailoutAssumption DEF IInv, TypeOK, DriverType
<1>5. ReadyWhenAddressed' /\ PollIsFresh' /\ OnCourse' /\ LatchInOrder' /\ PollsCounted'
  BY <1>1, <1>3 DEF IInv, ReadyWhenAddressed, PollIsFresh, OnCourse, LatchInOrder,
     PollsCounted
<1> QED
  BY <1>2, <1>4, <1>5 DEF IInv, TypeOK, DriverType, GotType, ChipType

LEMMA LastInv == ASSUME IInv, LastByte PROVE IInv'
<1>1. pc = "data" /\ ShiftIn /\ wip' = TRUE /\ Return("OK") /\ UNCHANGED <<got, mem, wel>>
  BY DEF LastByte
<1>2. GotType' /\ ChipType'
  BY <1>1, SameGot, ShiftInType, TypeParts DEF IInv
<1> QED
  BY <1>1, <1>2, AfterReturn DEF IInv, TypeOK, DriverType, GotType, ChipType

LEMMA FetchInv == ASSUME IInv, Fetch PROVE IInv'
<1>1. Return("OK") /\ ChipType'
  BY SameChip, TypeParts DEF IInv, Fetch
<1>2. GotType'
  <2>1. request.lo..(request.hi - 1) \subseteq Addr
    BY CallFacts, SizeAssumption DEF Fetch, Addr
  <2>2. got' \in [request.lo..(request.hi - 1) -> Byte]
    BY <2>1 DEF Fetch, IInv, TypeOK
  <2>3. PICK s \in Spans : s[1] = request.lo /\ s[2] = request.hi
    BY CallFacts, RequestSpan DEF Fetch
  <2> QED
    BY <2>2, <2>3 DEF GotType
<1> QED
  BY <1>1, <1>2, AfterReturn DEF IInv, TypeOK, DriverType, GotType, ChipType

\* Steps of the chip and its supply, and a reset of the PIC.
LEMMA ChipInv == ASSUME IInv, Reset \/ WriteCycleEnds PROVE IInv'
<1>1. UNCHANGED driver
  BY DEF Reset, WriteCycleEnds
<1>2. GotType' /\ DriverType'
  BY <1>1, TypeParts DEF IInv, GotType, DriverType, driver
<1>3. ChipType'
  <2>1. CASE Reset
    BY <2>1 DEF Reset, IInv, TypeOK, ChipType
  <2>2. CASE WriteCycleEnds
    <3>1. DOMAIN latch' \subseteq Addr /\ \A a \in DOMAIN latch' : latch'[a] \in Byte
      BY <2>2 DEF WriteCycleEnds, None
    <3>2. mem' \in [Addr -> Byte]
      BY <2>2, LatchedType DEF WriteCycleEnds, IInv
    <3> QED
      BY <2>2, <3>1, <3>2 DEF WriteCycleEnds, IInv, TypeOK, ChipType
  <2> QED
    BY <2>1, <2>2
<1>4. ReadyWhenAddressed' /\ PollIsFresh' /\ OnCourse' /\ PollsCounted'
  BY <1>1 DEF driver, Reset, WriteCycleEnds, IInv, ReadyWhenAddressed, PollIsFresh, OnCourse,
     PollsCounted
<1>5. LatchInOrder'
  BY <1>1 DEF driver, Reset, WriteCycleEnds, IInv, ReadyWhenAddressed, LatchInOrder
<1> QED
  BY <1>2, <1>3, <1>4, <1>5 DEF IInv, TypeOK, DriverType, GotType, ChipType

LEMMA PowerInv == ASSUME IInv, PowerLoss PROVE IInv'
<1>1. Return("none") /\ GotType'
  BY SameGot, TypeParts DEF IInv, PowerLoss
<1>2. ChipType'
  <2>1. DOMAIN latch' \subseteq Addr /\ \A a \in DOMAIN latch' : latch'[a] \in Byte
    BY DEF PowerLoss, None
  <2>2. mem' \in [Addr -> Byte] /\ ptr' \in Int
    BY DEF PowerLoss
  <2>3. wip' \in BOOLEAN /\ wel' \in BOOLEAN
    BY DEF PowerLoss
  <2> QED
    BY <2>1, <2>2, <2>3 DEF ChipType
<1> QED
  BY <1>1, <1>2, AfterReturn DEF IInv, TypeOK, DriverType, GotType, ChipType

LEMMA StepInv == ASSUME IInv, [Next]_vars PROVE IInv'
<1>1. CASE UNCHANGED vars
  BY <1>1 DEF vars, IInv, TypeOK, ReadyWhenAddressed, PollIsFresh, OnCourse,
     LatchInOrder, Sent, PollsCounted
<1> QED
  BY <1>1, CallInv, WaitInv, FailInv, EnableInv, SendInv, CrossInv, LastInv,
     FetchInv, ChipInv, PowerInv DEF Next, Step

THEOREM Invariance == Spec => []IInv
<1>1. Init => IInv
  BY InitInv
<1>2. IInv /\ [Next]_vars => IInv'
  BY StepInv
<1> QED
  BY <1>1, <1>2, PTL DEF Spec

\* Every variable keeps its type, whatever the sizes.
THEOREM TypeCorrect == Spec => []TypeOK
BY Invariance, PTL DEF IInv

\* The driver never addresses the chip during a write cycle, which the chip
\* would ignore, although it only knows the answer to an earlier poll.
THEOREM NeverTalksToBusyChip == Spec => []ReadyWhenAddressed
BY Invariance, PTL DEF IInv

\* waitForWrite() gives up only after BAILOUT polls of its own found the chip busy,
\* for any BAILOUT: polls spent on an earlier page are not held against it.
THEOREM TimeoutsAreEarned == Spec => TimesOutForCause
<1>1. ASSUME IInv, [Next]_vars
      PROVE  [pc = "wait" /\ result' = "FAIL" => sawBusy >= BAILOUT]_vars
  <2>1. SUFFICES ASSUME pc = "wait", result' = "FAIL", Next
                 PROVE  sawBusy >= BAILOUT
    BY <1>1 DEF vars
  <2>2. WaitFails \/ Poll \/ WaitOk \/ Reset \/ WriteCycleEnds \/ PowerLoss
    BY <2>1 DEF Next, Step, Call, Enable, EnableFails, SendByte, CrossPage, LastByte, Fetch
  <2>3. result = "none"
    BY <1>1, <2>1 DEF IInv, TypeOK, OnCourse
  <2>4. WaitFails
    BY <2>1, <2>2, <2>3 DEF Poll, WaitOk, Reset, WriteCycleEnds, PowerLoss, Return, driver
  <2> QED
    BY <1>1, <2>1, <2>4, BailoutAssumption DEF WaitFails, IInv, TypeOK, PollsCounted
<1> QED
  BY <1>1, Invariance, PTL DEF Spec, TimesOutForCause

-----------------------------------------------------------------------------
(* Refinement of NvMemory.  A page goes to the abstract memory as a whole  *)
(* when its write cycle starts; the bytes sent before that are not yet     *)
(* stored.                                                                 *)

LEMMA CellAtRest ==
  ASSUME IInv, ~wip
  PROVE  Cell = mem /\ Unsettled = {}
BY DEF IInv, TypeOK, Cell, Unsettled

LEMMA SameCell ==
  ASSUME UNCHANGED <<mem, latch, wip>>
  PROVE  Cell' = Cell /\ Unsettled' = Unsettled
BY DEF Cell, Latched, Unsettled

LEMMA NextElsewhere == ASSUME pc # "data" PROVE NextToStore = addr
BY DEF NextToStore

LEMMA LeastOfInterval ==
  ASSUME NEW s \in Int, NEW n \in Int, s <= n
  PROVE  Least(s..n) = s
<1> DEFINE IsLeast(a) == a \in s..n /\ \A b \in s..n : a <= b
<1>1. IsLeast(s)
  OBVIOUS
<1>2. \A a : IsLeast(a) => a = s
  OBVIOUS
<1>3. IsLeast(CHOOSE a : IsLeast(a))
  BY <1>1
<1>4. Least(s..n) = CHOOSE a : IsLeast(a)
  BY Zenon DEF Least
<1> QED
  BY <1>2, <1>3, <1>4

-----------------------------------------------------------------------------
(* The steps                                                               *)

LEMMA InitRefines == ASSUME Init PROVE NV!Init
<1>1. Cell = mem /\ Unsettled = {}
  BY DEF Init, Cell, Unsettled
<1>2. NextToStore = 0
  BY NextElsewhere DEF Init
<1> QED
  BY <1>1, <1>2 DEF Init, NV!Init, None

LEMMA CallRefines == ASSUME IInv, NEW r \in Requests, Call(r) PROVE NV!Call(r)
<1>1. Cell' = Cell /\ Unsettled' = Unsettled
  BY SameCell DEF Call, chip
<1>2. NextToStore' = r.lo
  BY DEF Call, StartWait, NextToStore
<1>3. request = NoRequest
  BY DEF Call, IInv, TypeOK
<1> QED
  BY <1>1, <1>2, <1>3 DEF Call, NV!Call, None

\* Steps on the way to the chip.
LEMMA WaitRefines == ASSUME IInv, Poll \/ WaitOk PROVE UNCHANGED NV!vars
<1>1. Cell' = Cell /\ Unsettled' = Unsettled
  BY SameCell DEF Poll, WaitOk, chip
<1>2. NextToStore' = NextToStore
  BY DEF Poll, WaitOk, NextToStore
<1> QED
  BY <1>1, <1>2 DEF Poll, WaitOk, NV!vars

LEMMA EnableRefines == ASSUME IInv, Enable PROVE UNCHANGED NV!vars
<1>1. ~wip /\ ~wip' /\ mem' = mem
  BY DEF Enable, IInv, ReadyWhenAddressed
<1>2. Cell' = Cell /\ Unsettled' = Unsettled
  BY <1>1 DEF Cell, Unsettled
<1>3. NextToStore = addr
  BY NextElsewhere DEF Enable
<1>4. NextToStore' = addr
  <2>1. addr' = addr /\ addr \in Int
    BY CallFacts DEF Enable
  <2>2. pc' = "data" /\ DOMAIN latch' = addr..(addr - 1)
    BY <2>1 DEF Enable, None
  <2>3. DOMAIN latch' \cup {addr'} = addr..addr
    BY <2>1, <2>2
  <2>4. Least(addr..addr) = addr
    BY <2>1, LeastOfInterval
  <2> QED
    BY <2>2, <2>3, <2>4 DEF NextToStore
<1> QED
  BY <1>2, <1>3, <1>4 DEF Enable, NV!vars

LEMMA FailRefines == ASSUME IInv, WaitFails \/ EnableFails PROVE NV!Fail
<1>1. Cell' = Cell /\ Unsettled' = Unsettled
  BY SameCell DEF WaitFails, EnableFails, chip
<1>2. NextToStore' = 0
  BY DEF WaitFails, EnableFails, Return, NextToStore
<1>3. request # NoRequest
  BY CallFacts, RequestSpan DEF WaitFails, EnableFails
<1> QED
  BY <1>1, <1>2, <1>3 DEF WaitFails, EnableFails, Return, NV!Fail, NV!Finish

\* What the latch holds after a byte was clocked in.
LEMMA ShiftInRefines ==
  ASSUME IInv, pc = "data", ShiftIn
  PROVE  \E s \in Addr :
           /\ s <= addr /\ NextToStore = s
           /\ DOMAIN latch' = s..addr
           /\ \A a \in s..addr : latch'[a] = request.data[a]
<1>1. PICK s \in request.lo..addr : /\ DOMAIN latch = s..(addr - 1)
                                    /\ DOMAIN latch' = s..addr
  BY ShiftInFacts
<1>2. s \in Int /\ addr \in Int /\ s <= addr /\ s \in Addr
  BY CallFacts, SizeAssumption DEF Addr
<1>3. NextToStore = s
  <2>1. DOMAIN latch \cup {addr} = s..addr
    BY <1>1, <1>2
  <2> QED
    BY <1>2, <2>1, LeastOfInterval DEF NextToStore
<1> QED
  BY <1>1, <1>2, <1>3, ShiftInFacts

LEMMA SendRefines == ASSUME IInv, SendByte PROVE UNCHANGED NV!vars
<1>1. /\ pc = "data" /\ pc' = "data" /\ ShiftIn /\ addr' = addr + 1
      /\ UNCHANGED <<request, result, got, mem, wip>>
  BY DEF SendByte
<1>2. ~wip
  BY <1>1 DEF IInv, ReadyWhenAddressed
<1>3. Cell' = Cell /\ Unsettled' = Unsettled
  BY <1>1, <1>2 DEF Cell, Unsettled
<1>4. NextToStore' = NextToStore
  <2>1. PICK s \in Addr : s <= addr /\ NextToStore = s /\ DOMAIN latch' = s..addr
    BY <1>1, ShiftInRefines
  <2>2. addr' \in Int /\ s \in Int /\ s <= addr' /\ addr' - 1 = addr
    BY <1>1, <2>1, CallFacts, SizeAssumption DEF Addr
  <2>3. DOMAIN latch' \cup {addr'} = s..addr'
    BY <2>1, <2>2
  <2>4. Least(s..addr') = s
    BY <2>2, LeastOfInterval
  <2>5. NextToStore' = s
    BY <1>1, <2>3, <2>4 DEF NextToStore
  <2> QED
    BY <2>1, <2>5
<1> QED
  BY <1>1, <1>3, <1>4 DEF NV!vars

\* The end of a WRITE stores its bytes, which are those up to addr.
LEMMA CycleStarts ==
  ASSUME IInv, pc = "data", ShiftIn, mem' = mem, wip' = TRUE
  PROVE  /\ Unsettled = {}
         /\ NextToStore < addr + 1
         /\ Cell' = [a \in Addr |-> IF NextToStore <= a /\ a < addr + 1
                                    THEN request.data[a] ELSE Cell[a]]
         /\ Unsettled' \subseteq Addr
         /\ NextToStore..(addr + 1 - 1) \subseteq Unsettled'
<1>1. PICK s \in Addr : /\ s <= addr /\ NextToStore = s
                        /\ DOMAIN latch' = s..addr
                        /\ \A a \in s..addr : latch'[a] = request.data[a]
  BY ShiftInRefines
<1>2. ~wip
  BY DEF IInv, ReadyWhenAddressed
<1>3. Cell = mem /\ Unsettled = {}
  BY <1>2, CellAtRest
<1>4. addr \in Int /\ s \in Int /\ addr \in Addr /\ s..addr \subseteq Addr
  BY CallFacts, SizeAssumption DEF Addr
<1>5. Cell' = [a \in Addr |-> IF s <= a /\ a < addr + 1 THEN request.data[a] ELSE Cell[a]]
  <2>1. \A a \in Addr : Latched(a)' = IF s <= a /\ a < addr + 1 THEN request.data[a] ELSE mem[a]
    <3> SUFFICES ASSUME NEW a \in Addr
                 PROVE  Latched(a)' = IF s <= a /\ a < addr + 1 THEN request.data[a] ELSE mem[a]
      OBVIOUS
    <3>1. a \in DOMAIN latch' <=> s <= a /\ a < addr + 1
      BY <1>1, <1>4, SizeAssumption DEF Addr
    <3> QED
      BY <1>1, <3>1 DEF Latched
  <2> QED
    BY <1>3, <2>1 DEF Cell
<1>6. Unsettled' = UNION {PageOf(a) : a \in s..addr}
  BY <1>1 DEF Unsettled
<1> QED
  BY <1>1, <1>3, <1>4, <1>5, <1>6, OnePage

LEMMA CrossRefines == ASSUME IInv, CrossPage PROVE NV!Store(addr + 1)
<1>1. /\ pc = "data" /\ pc' = "wait" /\ ShiftIn /\ addr' = addr + 1
      /\ addr + 1 < request.hi /\ wip' = TRUE
      /\ UNCHANGED <<request, result, got, mem>>
  BY DEF CrossPage, StartWait
<1>2. NextToStore' = addr + 1
  BY <1>1 DEF NextToStore
<1>3. request # NoRequest /\ request.op = "write" /\ request.hi \in Int /\ addr \in Int
  BY <1>1, CallFacts, RequestSpan DEF IInv, OnCourse
<1> QED
  BY <1>1, <1>2, <1>3, CycleStarts DEF NV!Store

LEMMA LastRefines == ASSUME IInv, LastByte PROVE NV!Store(addr + 1)
<1>1. /\ pc = "data" /\ pc' = "idle" /\ ShiftIn /\ addr' = 0
      /\ addr + 1 = request.hi /\ wip' = TRUE
      /\ request' = NoRequest /\ result' = "OK"
      /\ UNCHANGED <<got, mem>>
  BY DEF LastByte, Return
<1>2. NextToStore' = 0
  BY <1>1 DEF NextToStore
<1>3. request # NoRequest /\ request.op = "write" /\ addr \in Int
  BY <1>1, CallFacts, RequestSpan DEF IInv, OnCourse
<1> QED
  BY <1>1, <1>2, <1>3, CycleStarts DEF NV!Store, NV!Finish

LEMMA FetchRefines == ASSUME IInv, Fetch PROVE NV!Fetch
<1>1. Cell = mem /\ Unsettled = {}
  BY CellAtRest DEF IInv, ReadyWhenAddressed, Fetch
<1>2. Cell' = Cell /\ Unsettled' = Unsettled
  BY SameCell DEF Fetch, chip
<1>3. NextToStore' = 0
  BY DEF Fetch, Return, NextToStore
<1>4. request # NoRequest /\ request.op = "read"
  BY CallFacts, RequestSpan DEF Fetch, IInv, OnCourse
<1> QED
  BY <1>1, <1>2, <1>3, <1>4 DEF Fetch, Return, NV!Fetch, NV!Finish, NV!Span

LEMMA ResetRefines == ASSUME IInv, Reset PROVE UNCHANGED NV!vars
<1>1. Cell' = Cell /\ Unsettled' = Unsettled
  BY SameCell DEF Reset
<1>2. NextToStore' = NextToStore
  BY DEF Reset, driver, NextToStore
<1> QED
  BY <1>1, <1>2 DEF Reset, driver, NV!vars

LEMMA SettleRefines == ASSUME IInv, WriteCycleEnds PROVE [NV!Settle]_(NV!vars)
<1>1. Cell' = Cell
  BY LatchedType DEF WriteCycleEnds, Cell, IInv
<1>2. Unsettled' = {}
  BY DEF WriteCycleEnds, Unsettled
<1>3. NextToStore' = NextToStore
  <2>1. pc # "data" /\ pc' = pc /\ addr' = addr
    BY DEF WriteCycleEnds, driver, IInv, ReadyWhenAddressed
  <2> QED
    BY <2>1 DEF NextToStore
<1> QED
  BY <1>1, <1>2, <1>3 DEF WriteCycleEnds, driver, NV!Settle, NV!vars

LEMMA PowerRefines == ASSUME IInv, PowerLoss PROVE NV!PowerLoss
<1>1. Cell' = mem' /\ Unsettled' = {}
  BY DEF PowerLoss, Cell, Unsettled
<1>2. \A a \in Addr \ Unsettled : Cell[a] = mem[a]
  BY OnePage DEF Cell, Latched, Unsettled
<1>3. NextToStore' = 0
  BY DEF PowerLoss, Return, NextToStore
<1> QED
  BY <1>1, <1>2, <1>3 DEF PowerLoss, Return, NV!PowerLoss, None

LEMMA StepRefines == ASSUME IInv, [Next]_vars PROVE [NV!Next]_(NV!vars)
<1>1. CASE UNCHANGED vars
  <2>1. Cell' = Cell /\ Unsettled' = Unsettled
    BY <1>1, SameCell DEF vars
  <2>2. NextToStore' = NextToStore
    BY <1>1 DEF vars, NextToStore
  <2> QED
    BY <1>1, <2>1, <2>2 DEF vars, NV!vars
<1>2. CASE CrossPage \/ LastByte
  <2>1. addr \in Addr
    BY <1>2, CallFacts DEF CrossPage, LastByte
  <2> QED
    BY <1>2, <2>1, CrossRefines, LastRefines DEF NV!Next
<1>3. CASE \E r \in Requests : Call(r)
  BY <1>3, CallRefines DEF NV!Next
<1>4. CASE Fetch \/ WaitFails \/ EnableFails \/ WriteCycleEnds \/ PowerLoss
  BY <1>4, FetchRefines, FailRefines, SettleRefines, PowerRefines DEF NV!Next
<1>5. CASE Poll \/ WaitOk \/ Enable \/ SendByte \/ Reset
  BY <1>5, WaitRefines, EnableRefines, SendRefines, ResetRefines
<1> QED
  BY <1>1, <1>2, <1>3, <1>4, <1>5 DEF Next, Step

\* The driver and the chip together behave as the memory NvMemory describes:
\* for every memory size, page size and number of polls, whatever is read,
\* written, cut off by a failing wait or by the power supply.
THEOREM Refinement == Spec => IsNvMemory
<1>1. Init => NV!Init
  BY InitRefines
<1>2. IInv /\ [Next]_vars => [NV!Next]_(NV!vars)
  BY StepRefines
<1> QED
  BY <1>1, <1>2, Invariance, PTL DEF Spec, IsNvMemory, NV!Spec
=============================================================================
