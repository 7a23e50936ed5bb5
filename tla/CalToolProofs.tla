--------------------------- MODULE CalToolProofs ---------------------------
(***************************************************************************)
(* Proofs about CalTool, for any signals, files, faults and attempts.      *)
(*                                                                         *)
(* That a verified row is stored rests on a file in ascending order having *)
(* one line for each row, so that answers to whichever attempt agree; that *)
(* a verified signal is, on the exchange being in step as long as nothing  *)
(* goes wrong; and that the tool gives up for a cause, on counting the     *)
(* answers under way that it will not take.                                *)
(***************************************************************************)
EXTENDS CalTool, FiniteSetTheorems, SequenceTheorems, TLAPS

Phases == {"search", "signals", "tables", "parse", "rows",
           "done", "failed", "unverified", "panic"}
RowNumbers == 0..(maxTabRows - 1)
Messages == UNION {[S -> Encodings \cup {Unfit}] : S \in SUBSET Signals}
Contents == Encodings \cup Lines
Stored == Contents \cup Held \cup {Junk}
Commands == [slot : Slots, content : Contents]
WriteFrames == [op : {"write"}, slot : Slots, content : Contents]
RequestFrames == [op : {"request"}, slot : Slots]
Replies == [kind : {"reply"}, slot : Slots, content : Stored]
Frames == {Other, Malformed} \cup Replies
TableRow(i, line) == [rowIndex |-> i, key |-> line.key, val |-> line.val]
TableRows == {TableRow(i, line) : i \in RowNumbers, line \in Lines}

-----------------------------------------------------------------------------
(* The inductive invariant                                                 *)

PlanType ==
  /\ phase \in Phases
  /\ given \subseteq Signals /\ sought \subseteq given
  /\ dbc \in Seq(Messages)
  /\ found \in Seq([signal : sought, encoding : Encodings])
  /\ csv \in [Signals -> Seq(Lines \cup {BadLine})]
  /\ left \subseteq Signals
  /\ phase = "search" => left \subseteq sought
  /\ phase \in {"parse", "rows"} => tbl \in Signals \ left
  /\ n \in Nat
  /\ phase = "rows" => n <= maxTabRows /\ rows # <<>>
  /\ rows \in Seq(TableRows)

ExchangeType ==
  /\ cmd \in Commands \cup {NoCommand}
  /\ stage \in {"none", "write", "request", "receive"}
  /\ stage = "none" <=> cmd = NoCommand
  /\ stage # "none" => phase \in {"signals", "rows"}
  /\ retry \in Nat
  /\ verified \subseteq Commands

OutsideType ==
  /\ toDevice \in Seq(WriteFrames \cup RequestFrames)
  /\ toTool \in Seq(Frames)
  /\ dev \in [Slots -> Stored]
  /\ faults \in Nat

Typed == PlanType /\ ExchangeType /\ OutsideType

\* parseSignals() only succeeds with all the signals or the first ones.
FoundFit == phase = "signals" => Len(found) = Cardinality(sought) \/ AsNamed

\* Of a file in ascending order the lines parsed are the rows, in place.
InPlace ==
  phase \in {"parse", "rows"} /\ InOrder(tbl) =>
    /\ Len(rows) = IF phase = "parse" THEN n ELSE Len(csv[tbl])
    /\ Len(rows) <= Len(csv[tbl])
    /\ \A j \in 1..Len(rows) : csv[tbl][j] \in Lines /\ rows[j] = TableRow(j - 1, csv[tbl][j])

\* The files of tables that are not started are not read yet.
Unread ==
  /\ phase \in {"search", "signals"} => \A t \in Signals : csv[t] = <<>>
  /\ phase \in {"tables", "parse", "rows"} => \A t \in left : csv[t] = <<>>

\* The line that belongs in a row.
LineFor(t, r) == IF r < Len(csv[t]) THEN csv[t][r + 1] ELSE csv[t][Len(csv[t])]

\* Everything that is about a slot is about one content, or the slot is as it was.
Follows(slot, content) ==
  /\ cmd.slot = slot => cmd.content = content
  /\ \A k \in 1..Len(toDevice) :
       toDevice[k].op = "write" /\ toDevice[k].slot = slot => toDevice[k].content = content
  /\ dev[slot] \in {Junk, content}
  /\ \A k \in 1..Len(toTool) :
       toTool[k].kind = "reply" /\ toTool[k].slot = slot => toTool[k].content \in {Junk, dev[slot]}
  /\ \A c \in verified : c.slot = slot => c.content = content /\ dev[slot] = content

RowsFollow ==
  \A t \in Signals, r \in RowNumbers :
    /\ csv[t] = <<>> => Follows(<<"row", t, r>>, Junk)
    /\ csv[t] # <<>> /\ InOrder(t) => Follows(<<"row", t, r>>, LineFor(t, r))

RowCommand(t, r) == [slot |-> <<"row", t, r>>, content |-> LineFor(t, r)]

\* Rows of table t that are sent and verified.
RowsDone(t) ==
  CASE ~(phase \in {"parse", "rows"} /\ t = tbl) -> maxTabRows
    [] phase = "parse" /\ t = tbl -> 0
    [] phase = "rows" /\ t = tbl -> IF cmd = NoCommand THEN n ELSE n - 1

RowInHand ==
  phase = "rows" /\ cmd # NoCommand /\ InOrder(tbl) => n > 0 /\ cmd = RowCommand(tbl, n - 1)

AllVerified ==
  phase \in {"tables", "parse", "rows", "done"} =>
    \A t \in given \ left :
      InOrder(t) /\ RowsDone(t) > 0 =>
        /\ csv[t] # <<>>
        /\ \A r \in 0..(RowsDone(t) - 1) : RowCommand(t, r) \in verified

\* The tool is done when no table is left.
AllStarted == phase = "done" => left = {}

WriteOf(c) == [op |-> "write", slot |-> c.slot, content |-> c.content]
RequestOf(c) == [op |-> "request", slot |-> c.slot]
ReplyTo(c) == [kind |-> "reply", slot |-> c.slot, content |-> c.content]

\* While nothing goes wrong, nothing is under way but what the command is about.
Lockstep ==
  faults = 0 =>
    /\ stage = "none" /\ ~Ended => toDevice = <<>> /\ toTool = <<>>
    /\ stage = "write" => toDevice = <<>> /\ toTool = <<>>
    /\ stage = "request" =>
         /\ toTool = <<>>
         /\ toDevice = <<WriteOf(cmd)>> \/ (toDevice = <<>> /\ dev[cmd.slot] = cmd.content)
    /\ stage = "receive" =>
         \/ toDevice = <<WriteOf(cmd), RequestOf(cmd)>> /\ toTool = <<>>
         \/ toDevice = <<RequestOf(cmd)>> /\ toTool = <<>> /\ dev[cmd.slot] = cmd.content
         \/ toDevice = <<>> /\ toTool = <<ReplyTo(cmd)>> /\ dev[cmd.slot] = cmd.content

\* No write is under way to a slot that is verified.
Undisturbed ==
  faults = 0 =>
    \A c \in verified :
      /\ dev[c.slot] = c.content
      /\ c.slot # cmd.slot
      /\ \A k \in 1..Len(toDevice) : toDevice[k].op = "write" => toDevice[k].slot # c.slot

\* Answers to come: at most one of them is not due to a fault.
Requests == {k \in 1..Len(toDevice) : toDevice[k].op = "request"}
Surplus ==
  ~Ended => Len(toTool) + Cardinality(Requests) <= faults + (IF stage = "receive" THEN 1 ELSE 0)

\* The command's content is in its slot when the k-th frame is handled.
Prepared(k) ==
  IF k = 1 THEN dev[cmd.slot] = cmd.content ELSE toDevice[k - 1] = WriteOf(cmd)

\* Answers that the command may not take: frames that are none, answers to requests
\* that no write of the command prepared, and the one to the request it is about
\* to send.  For each it may have to make an attempt.
Useless == {k \in 1..Len(toTool) : ~Verify(toTool[k])}
Unprepared == {k \in Requests : toDevice[k].slot # cmd.slot \/ ~Prepared(k)}
Owed == IF stage = "request" /\ ~Prepared(Len(toDevice) + 1) THEN 1 ELSE 0

Accounted ==
  stage # "none" => retry + Cardinality(Useless) + Cardinality(Unprepared) + Owed <= 2 * faults

IInv ==
  /\ Typed
  /\ FoundFit
  /\ InPlace
  /\ Unread
  /\ RowsFollow
  /\ RowInHand
  /\ AllVerified
  /\ AllStarted
  /\ Lockstep
  /\ Undisturbed
  /\ Surplus
  /\ Accounted
  /\ GivesUpForCause

-----------------------------------------------------------------------------
(* Facts about the constants and operators                                 *)

LEMMA ConstantFacts ==
  /\ maxTabRows \in Nat \ {0} /\ maxRetries \in Nat \ {0} /\ MaxFaults \in Nat
  /\ IsFiniteSet(Signals) /\ Signals \subseteq Nat
  /\ \A line \in Lines : line.key \in Int /\ line = [key |-> line.key, val |-> line.val]
  /\ Junk \notin Contents /\ BadLine \notin Lines
<1>1. Signals \subseteq Nat
  <2>1. \A c : 0..c \subseteq Nat
    OBVIOUS
  <2> QED
    BY <2>1, SignalsAssumption
<1>2. \A line \in Lines : line.key \in Int /\ line = [key |-> line.key, val |-> line.val]
  BY FilesAssumption
<1> QED
  BY <1>1, <1>2, BoundsAssumption, SignalsAssumption, FilesAssumption, JunkAssumption
  DEF Contents

LEMMA RowSlot ==
  ASSUME NEW t \in Signals, NEW r \in RowNumbers
  PROVE  /\ <<"row", t, r>> \in Slots
         /\ ~IsSignal(<<"row", t, r>>)
         /\ <<"row", t, r>> # <<>>
BY DEF Slots, IsSignal, RowNumbers

LEMMA SignalSlot ==
  ASSUME NEW s \in Signals
  PROVE  <<"signal", s, 0>> \in Slots /\ IsSignal(<<"signal", s, 0>>)
BY DEF Slots, IsSignal

LEMMA SlotKinds ==
  ASSUME NEW slot \in Slots
  PROVE  /\ slot # <<>>
         /\ IsSignal(slot) \/ \E t \in Signals, r \in RowNumbers : slot = <<"row", t, r>>
BY DEF Slots, IsSignal, RowNumbers

LEMMA NoCommandFacts ==
  /\ NoCommand \notin Commands
  /\ \A slot \in Slots : NoCommand.slot # slot
BY SlotKinds DEF NoCommand, Commands

\* The place of a key is among the rows.
LEMMA PlaceType ==
  ASSUME NEW key, rows \in Seq(TableRows)
  PROVE  Place(key) \in 0..Len(rows)
<1> DEFINE S == {j \in DOMAIN rows : rows[j].key < key}
<1>0. Len(rows) \in Nat /\ 1 \in Int
  OBVIOUS
<1>1. IsFiniteSet(1..Len(rows)) /\ Cardinality(1..Len(rows)) = Len(rows)
  BY <1>0, FS_Interval
<1>2. S \subseteq 1..Len(rows)
  OBVIOUS
<1>3. Cardinality(S) \in Nat /\ Cardinality(S) <= Len(rows)
  BY <1>1, <1>2, FS_Subset, FS_CardinalityType
<1> QED
  BY <1>0, <1>3 DEF Place

-----------------------------------------------------------------------------
(* Groups of steps                                                         *)

\* Steps that end the program before it is done.
Halts ==
  /\ \E how \in {"failed", "unverified"} : Stop(how)
  /\ toTool' = toTool \/ (toTool # <<>> /\ toTool' = Tail(toTool))
  /\ UNCHANGED <<args, dbc, found, csv, left, tbl, n, rows, retry, verified, toDevice, dev, faults>>

LEMMA HaltingSteps ==
  ASSUME \/ OpenFails \/ SendFails \/ ParseFails \/ GiveUp \/ ReplyFails \/ Timeout
         \/ \E s \in Signals : SearchFails(s)
  PROVE  Halts
BY DEF Halts, OpenFails, SendFails, ParseFails, GiveUp, ReplyFails, Timeout, SearchFails,
       Received, Stop, outside

USE DEF args

LEMMA HaltsTyped == ASSUME Typed, Halts PROVE Typed'
<1>1. toTool' \in Seq(Frames)
  BY HeadTailProperties DEF Halts, Typed, OutsideType
<1>2. phase' \in {"failed", "unverified"} /\ cmd' = NoCommand /\ stage' = "none"
  BY DEF Halts, Stop
<1>3. PlanType'
  BY <1>2 DEF Halts, Typed, PlanType, Phases
<1>4. ExchangeType'
  BY <1>2 DEF Halts, Typed, ExchangeType
<1> QED
  BY <1>1, <1>3, <1>4 DEF Halts, Typed, OutsideType

LEMMA InitTyped == ASSUME Init PROVE Typed
<1>1. dbc \in Seq(Messages)
  BY DbcsAssumption DEF Init, Messages
<1>2. /\ found \in Seq([signal : sought, encoding : Encodings])
      /\ rows \in Seq(TableRows)
      /\ csv \in [Signals -> Seq(Lines \cup {BadLine})]
      /\ toTool \in Seq(Frames)
      /\ toDevice \in Seq(WriteFrames \cup RequestFrames)
  BY DEF Init
<1>3. PlanType
  BY <1>1, <1>2 DEF Init, PlanType, Phases
<1>4. ExchangeType
  BY DEF Init, ExchangeType
<1>5. OutsideType
  BY <1>2 DEF Init, OutsideType, Stored
<1> QED
  BY <1>3, <1>4, <1>5 DEF Typed

LEMMA SearchTyped ==
  ASSUME Typed, NEW s \in Signals, Search(s)
  PROVE  PlanType'
<1> DEFINE message == dbc[n + 1]
<1>1. message \in Messages
  BY DEF Search, Typed, PlanType
<1>2. s \in DOMAIN message => message[s] \in Encodings
  <2>1. PICK S \in SUBSET Signals : message \in [S -> Encodings \cup {Unfit}]
    BY <1>1 DEF Messages
  <2> QED
    BY <2>1 DEF Search
<1>3. found' \in Seq([signal : sought, encoding : Encodings])
  <2>1. CASE s \in DOMAIN message
    <3>1. [signal |-> s, encoding |-> message[s]] \in [signal : sought, encoding : Encodings]
      BY <1>2, <2>1 DEF Search, Typed, PlanType
    <3> QED
      BY <2>1, <3>1, AppendProperties DEF Search, Typed, PlanType
  <2> QED
    BY <2>1 DEF Search, Typed, PlanType
<1> QED
  BY <1>3 DEF Search, Typed, PlanType

LEMMA ParseRowTyped == ASSUME Typed, ParseRow PROVE PlanType'
<1> DEFINE line == csv[tbl][n + 1]
           i == Place(line.key)
           before == SubSeq(rows, 1, i)
           after == SubSeq(rows, i + 1, Len(rows))
<1>1. rows \in Seq(TableRows) /\ Len(rows) \in Nat /\ n \in Nat /\ phase = "parse"
  BY DEF ParseRow, Typed, PlanType
<1>2. i \in 0..Len(rows)
  BY <1>1, PlaceType
<1>3. line \in Lines
  BY DEF ParseRow, Typed, PlanType
<1>4. i \in RowNumbers
  BY <1>1, <1>2, ConstantFacts DEF ParseRow, IsFull, RowNumbers
<1>5. TableRow(i, line) \in TableRows
  BY <1>3, <1>4 DEF TableRows
<1> HIDE DEF line, i
<1>6. before \in Seq(TableRows) /\ after \in Seq(TableRows)
  BY <1>1, <1>2, SubSeqProperties, ElementOfSeq
<1>7. <<TableRow(i, line)>> \in Seq(TableRows)
  BY <1>5
<1>8. rows' = before \o <<TableRow(i, line)>> \o after
  BY DEF ParseRow, TableRow, line, i
<1> HIDE DEF before, after
<1>9. rows' \in Seq(TableRows)
  BY <1>6, <1>7, <1>8, ConcatProperties
<1>10. n' \in Nat /\ phase' = "parse"
  BY <1>1 DEF ParseRow
<1> QED
  BY <1>9, <1>10 DEF ParseRow, Typed, PlanType

\* The other steps that only concern what to send.
PlanStep ==
  \/ MessageSearched \/ SearchEnds \/ EncodingsSent
  \/ \E t \in Signals, file \in Files : StartTable(t, file)
  \/ Parsed \/ TableSent \/ Done

LEMMA PlanStepTyped == ASSUME Typed, PlanStep PROVE PlanType'
<1> USE DEF Typed, PlanType, Phases
<1>1. CASE MessageSearched
  BY <1>1 DEF MessageSearched
<1>2. CASE SearchEnds
  <2>1. dbc' \in Seq(Messages)
    BY <1>2 DEF SearchEnds
  <2> QED
    BY <1>2, <2>1 DEF SearchEnds, Stop
<1>3. CASE EncodingsSent
  <2>1. found' \in Seq([signal : sought, encoding : Encodings])
    BY <1>3 DEF EncodingsSent
  <2> QED
    BY <1>3, <2>1 DEF EncodingsSent
<1>4. ASSUME NEW t \in Signals, NEW file \in Files, StartTable(t, file) PROVE PlanType'
  <2>1. file \in Seq(Lines \cup {BadLine}) /\ rows' \in Seq(TableRows)
    BY <1>4, FilesAssumption DEF StartTable
  <2> QED
    BY <1>4, <2>1 DEF StartTable
<1>5. CASE Parsed
  BY <1>5, ConstantFacts DEF Parsed
<1>6. CASE TableSent
  <2>1. rows' \in Seq(TableRows)
    BY <1>6 DEF TableSent
  <2> QED
    BY <1>6, <2>1 DEF TableSent
<1>7. CASE Done
  BY <1>7 DEF Done
<1> QED
  BY <1>1, <1>2, <1>3, <1>4, <1>5, <1>6, <1>7 DEF PlanStep

\* No command is in hand in a phase other than those that send.
LEMMA PlanStepExchange ==
  ASSUME Typed, PlanStep \/ ParseRow \/ \E s \in Signals : Search(s)
  PROVE  /\ stage = "none" /\ cmd = NoCommand /\ stage' = "none" /\ cmd' = NoCommand
         /\ UNCHANGED <<retry, verified, outside>>
<1> USE DEF Typed, ExchangeType, exchange
<1>1. CASE PlanStep
  BY <1>1 DEF PlanStep, MessageSearched, SearchEnds, EncodingsSent, StartTable, Parsed,
     TableSent, Done, Stop
<1>2. CASE ParseRow \/ \E s \in Signals : Search(s)
  BY <1>2 DEF ParseRow, Search
<1> QED
  BY <1>1, <1>2

LEMMA PlanTyped ==
  ASSUME Typed, PlanStep \/ ParseRow \/ \E s \in Signals : Search(s)
  PROVE  Typed'
<1>1. PlanType'
  BY PlanStepTyped, ParseRowTyped, SearchTyped
<1>2. ExchangeType'
  BY PlanStepExchange DEF Typed, ExchangeType
<1>3. OutsideType'
  BY PlanStepExchange DEF Typed, OutsideType, outside
<1> QED
  BY <1>1, <1>2, <1>3 DEF Typed

\* A row of a table that is sent holds a line.
LEMMA RowLineType ==
  ASSUME PlanType, phase = "rows", n < maxTabRows
  PROVE  RowNumber(n) \in RowNumbers /\ RowLine(n) \in Lines
<1>1. /\ rows \in Seq(TableRows) /\ Len(rows) \in Nat \ {0}
      /\ n \in Nat /\ n + 1 \in Int
  BY EmptySeq DEF PlanType
<1>2. \A j \in 1..Len(rows) :
        rows[j].rowIndex \in RowNumbers /\ [key |-> rows[j].key, val |-> rows[j].val] \in Lines
  <2> SUFFICES ASSUME NEW j \in 1..Len(rows)
               PROVE  /\ rows[j].rowIndex \in RowNumbers
                      /\ [key |-> rows[j].key, val |-> rows[j].val] \in Lines
    OBVIOUS
  <2>1. rows[j] \in TableRows
    BY <1>1
  <2>2. PICK i \in RowNumbers, line \in Lines : rows[j] = TableRow(i, line)
    BY <2>1 DEF TableRows
  <2>3. [key |-> line.key, val |-> line.val] = line
    BY ConstantFacts
  <2> QED
    BY <2>2, <2>3 DEF TableRow
<1>3. CASE n < Len(rows)
  <2>1. n + 1 \in 1..Len(rows)
    BY <1>1, <1>3
  <2> QED
    BY <1>2, <1>3, <2>1 DEF RowNumber, RowLine
<1>4. CASE ~(n < Len(rows))
  <2>1. Len(rows) \in 1..Len(rows)
    BY <1>1
  <2>2. n \in RowNumbers
    BY <1>1, ConstantFacts DEF RowNumbers
  <2> QED
    BY <1>2, <1>4, <2>1, <2>2 DEF RowNumber, RowLine, LastRow
<1> QED
  BY <1>3, <1>4

LEMMA StartTyped ==
  ASSUME Typed, NEW slot \in Slots, NEW content \in Contents, Start(slot, content)
  PROVE  cmd' \in Commands /\ stage' = "write" /\ retry' = 0 /\ verified' \subseteq Commands
BY DEF Start, Commands, Typed, ExchangeType

LEMMA SendEncodingTyped ==
  ASSUME Typed, SendEncoding
  PROVE  /\ Typed'
         /\ \E s \in Signals, e \in Encodings : Start(<<"signal", s, 0>>, e)
<1>1. found[n + 1] \in [signal : sought, encoding : Encodings]
  <2>1. n + 1 \in 1..Len(found)
    BY DEF SendEncoding, Typed, PlanType
  <2>2. found \in Seq([signal : sought, encoding : Encodings])
    BY DEF Typed, PlanType
  <2> QED
    BY <2>1, <2>2, ElementOfSeq
<1>2. found[n + 1].signal \in Signals /\ found[n + 1].encoding \in Encodings
  BY <1>1 DEF Typed, PlanType
<1>3. Start(<<"signal", found[n + 1].signal, 0>>, found[n + 1].encoding)
  BY DEF SendEncoding
<1>4. cmd' \in Commands /\ stage' = "write" /\ retry' = 0 /\ verified' \subseteq Commands
  BY <1>2, <1>3, StartTyped, SignalSlot DEF Contents
<1>5. PlanType'
  BY DEF SendEncoding, Typed, PlanType
<1>6. ExchangeType'
  BY <1>4, NoCommandFacts DEF SendEncoding, ExchangeType
<1>7. OutsideType'
  BY DEF SendEncoding, Typed, OutsideType, outside
<1> QED
  BY <1>2, <1>3, <1>5, <1>6, <1>7 DEF Typed

LEMMA SendRowTyped ==
  ASSUME Typed, SendRow
  PROVE  /\ Typed'
         /\ RowNumber(n) \in RowNumbers /\ RowLine(n) \in Lines
<1>1. phase = "rows" /\ n < maxTabRows /\ n' = n + 1 /\ Start(<<"row", tbl, RowNumber(n)>>, RowLine(n))
  BY DEF SendRow
<1>2. RowNumber(n) \in RowNumbers /\ RowLine(n) \in Lines
  BY <1>1, RowLineType DEF Typed
<1>3. <<"row", tbl, RowNumber(n)>> \in Slots
  BY <1>1, <1>2, RowSlot DEF Typed, PlanType
<1>4. cmd' \in Commands /\ stage' = "write" /\ retry' = 0 /\ verified' \subseteq Commands
  BY <1>1, <1>2, <1>3, StartTyped DEF Contents
<1>5. PlanType'
  BY <1>1, ConstantFacts DEF SendRow, Typed, PlanType
<1>6. ExchangeType'
  BY <1>1, <1>4, NoCommandFacts DEF SendRow, ExchangeType
<1>7. OutsideType'
  BY DEF SendRow, Typed, OutsideType, outside
<1> QED
  BY <1>2, <1>5, <1>6, <1>7 DEF Typed

\* The tool's steps of an exchange.
ExchangeStep == Write \/ Request \/ ReceiveReply \/ Retry

LEMMA ExchangeTyped == ASSUME Typed, ExchangeStep PROVE Typed'
<1>0. cmd \in Commands /\ UNCHANGED <<args, main, dev, faults>>
  BY DEF ExchangeStep, Write, Request, ReceiveReply, Retry, Received, Typed, ExchangeType
<1>1. PlanType'
  BY <1>0 DEF main, Typed, PlanType
<1>2. ExchangeType'
  <2>1. CASE Write \/ Request
    BY <2>1, <1>0 DEF Write, Request, main, Typed, ExchangeType
  <2>2. CASE ReceiveReply
    BY <2>2, <1>0 DEF ReceiveReply, main, Typed, ExchangeType
  <2>3. CASE Retry
    BY <2>3, <1>0 DEF Retry, Received, main, Typed, ExchangeType
  <2> QED
    BY <2>1, <2>2, <2>3 DEF ExchangeStep
<1>3. OutsideType'
  <2>1. CASE Write
    <3>1. toDevice' = Append(toDevice, WriteOf(cmd)) /\ WriteOf(cmd) \in WriteFrames
      BY <2>1, <1>0 DEF Write, WriteOf, WriteFrames, Commands
    <3> QED
      BY <2>1, <3>1, AppendProperties DEF Write, Typed, OutsideType
  <2>2. CASE Request
    <3>1. toDevice' = Append(toDevice, RequestOf(cmd)) /\ RequestOf(cmd) \in RequestFrames
      BY <2>2, <1>0 DEF Request, RequestOf, RequestFrames, Commands
    <3> QED
      BY <2>2, <3>1, AppendProperties DEF Request, Typed, OutsideType
  <2>3. CASE ReceiveReply \/ Retry
    BY <2>3, HeadTailProperties DEF ReceiveReply, Retry, Received, Typed, OutsideType
  <2> QED
    BY <2>1, <2>2, <2>3 DEF ExchangeStep
<1> QED
  BY <1>1, <1>2, <1>3 DEF Typed

\* The steps of the bus and the device.
OutsideStep ==
  \/ DeviceStep \/ DeviceFailsToStore \/ DeviceFailsToRead
  \/ LoseToDevice \/ LoseToTool \/ Foreign

LEMMA NextToHandle ==
  ASSUME Typed, NEW op, Handle(op)
  PROVE  /\ toDevice # <<>> /\ Len(toDevice) \in Nat \ {0}
         /\ Head(toDevice) = toDevice[1] /\ toDevice[1] \in WriteFrames \cup RequestFrames
         /\ toDevice[1].op = op /\ toDevice[1].slot \in Slots
         /\ op = "write" => toDevice[1].content \in Contents
<1>1. toDevice # <<>> /\ toDevice \in Seq(WriteFrames \cup RequestFrames)
  BY DEF Handle, Typed, OutsideType
<1>2. Len(toDevice) \in Nat \ {0} /\ Head(toDevice) = toDevice[1]
  BY <1>1, EmptySeq
<1>3. toDevice[1] \in WriteFrames \cup RequestFrames
  BY <1>1, <1>2
<1> QED
  BY <1>1, <1>2, <1>3 DEF Handle, WriteFrames, RequestFrames

LEMMA OutsideTyped == ASSUME Typed, OutsideStep PROVE Typed' /\ UNCHANGED tool
<1>1. UNCHANGED tool
  BY DEF OutsideStep, DeviceStep, DeviceStores, DeviceReplies, DeviceFailsToStore,
     DeviceFailsToRead, LoseToDevice, LoseToTool, Foreign, Handle
<1>2. PlanType' /\ ExchangeType'
  BY <1>1 DEF tool, main, exchange, Typed, PlanType, ExchangeType
<1>3. toDevice' \in Seq(WriteFrames \cup RequestFrames)
  BY HeadTailProperties DEF OutsideStep, DeviceStep, DeviceStores, DeviceReplies,
     DeviceFailsToStore, DeviceFailsToRead, LoseToDevice, LoseToTool, Foreign, Handle,
     Typed, OutsideType
<1>4. faults' \in Nat
  BY DEF OutsideStep, DeviceStep, DeviceStores, DeviceReplies, DeviceFailsToStore,
     DeviceFailsToRead, LoseToDevice, LoseToTool, Foreign, Fault, Typed, OutsideType
<1>5. toTool' \in Seq(Frames) /\ dev' \in [Slots -> Stored]
  <2> USE DEF Typed, OutsideType
  <2>1. CASE DeviceStores
    BY <2>1, NextToHandle DEF DeviceStores, Stored
  <2>2. CASE DeviceReplies
    <3>1. [kind |-> "reply", slot |-> Head(toDevice).slot, content |-> dev[Head(toDevice).slot]] \in Frames
      BY <2>2, NextToHandle DEF DeviceReplies, Frames, Replies
    <3> QED
      BY <2>2, <3>1, AppendProperties DEF DeviceReplies
  <2>3. CASE DeviceFailsToStore
    <3>1. Other \in Frames
      BY DEF Frames
    <3>2. \E c : dev' = [dev EXCEPT ![Head(toDevice).slot] = c] /\ c \in Stored
      BY <2>3, NextToHandle DEF DeviceFailsToStore, Stored
    <3> QED
      BY <2>3, <3>1, <3>2, AppendProperties DEF DeviceFailsToStore
  <2>4. CASE DeviceFailsToRead
    BY <2>4, AppendProperties DEF DeviceFailsToRead, Frames
  <2>5. CASE LoseToDevice \/ LoseToTool
    BY <2>5, HeadTailProperties DEF LoseToDevice, LoseToTool
  <2>6. CASE Foreign
    BY <2>6, AppendProperties DEF Foreign, Frames
  <2> QED
    BY <2>1, <2>2, <2>3, <2>4, <2>5, <2>6 DEF OutsideStep, DeviceStep
<1> QED
  BY <1>1, <1>2, <1>3, <1>4, <1>5 DEF Typed, OutsideType

LEMMA StepCases ==
  ASSUME Next
  PROVE  \/ Halts \/ PlanStep \/ ParseRow \/ (\E s \in Signals : Search(s))
         \/ SendEncoding \/ SendRow \/ ExchangeStep \/ OutsideStep
BY HaltingSteps DEF Next, ToolStep, PlanStep, ExchangeStep, OutsideStep

LEMMA StepTyped == ASSUME Typed, [Next]_vars PROVE Typed'
<1>1. CASE UNCHANGED vars
  BY <1>1 DEF vars, main, exchange, Typed, PlanType, ExchangeType, OutsideType
<1> QED
  BY <1>1, StepCases, HaltsTyped, PlanTyped, SendEncodingTyped, SendRowTyped, ExchangeTyped,
     OutsideTyped

-----------------------------------------------------------------------------
(* The DBC file                                                            *)

LEMMA InitFoundFit == ASSUME Init PROVE FoundFit
BY DEF Init, FoundFit

LEMMA StepFoundFit == ASSUME Typed, FoundFit, Next PROVE FoundFit'
<1>1. CASE SearchEnds
  BY <1>1 DEF SearchEnds, Stop, FoundFit, AsNamed
<1>2. CASE phase' # "signals"
  BY <1>2 DEF FoundFit
<1>3. CASE phase = "signals" /\ UNCHANGED <<sought, found>>
  BY <1>3 DEF FoundFit, AsNamed
<1>4. Next => SearchEnds \/ phase' # "signals" \/ (phase = "signals" /\ UNCHANGED <<sought, found>>)
  <2>1. Halts => phase' # "signals"
    BY DEF Halts, Stop
  <2>2. PlanStep => SearchEnds \/ phase' # "signals"
    BY DEF PlanStep, MessageSearched, EncodingsSent, StartTable, Parsed, TableSent, Done
  <2>3. ParseRow \/ (\E s \in Signals : Search(s)) => phase' # "signals"
    BY DEF ParseRow, Search
  <2>4. SendEncoding \/ SendRow \/ ExchangeStep \/ OutsideStep =>
          UNCHANGED <<sought, found>> /\ phase' = phase
    BY OutsideTyped DEF SendEncoding, SendRow, ExchangeStep, Write, Request, ReceiveReply, Retry,
       main, tool
  <2> QED
    BY <2>1, <2>2, <2>3, <2>4, StepCases
<1> QED
  BY <1>1, <1>2, <1>3, <1>4

\* Signals found without a repetition are all that were sought, or the first.
LEMMA FoundOrFirst == ASSUME Typed, FoundFit PROVE MissingReported
<1> SUFFICES ASSUME phase = "signals", Cardinality(Found) = Len(found),
                    NEW s \in sought \ Found, NEW f \in Found
             PROVE  f < s
  BY DEF MissingReported
<1>1. /\ found \in Seq([signal : sought, encoding : Encodings]) /\ sought \subseteq Signals
      /\ IsFiniteSet(sought)
  BY ConstantFacts, FS_Subset DEF Typed, PlanType
<1>2. \A i \in 1..Len(found) : found[i].signal \in sought
  <2>1. \A i \in 1..Len(found) : found[i] \in [signal : sought, encoding : Encodings]
    BY <1>1, ElementOfSeq
  <2> QED
    BY <2>1
<1>3. Found \subseteq sought
  BY <1>1, <1>2 DEF Found
<1>4. Len(found) # Cardinality(sought)
  BY <1>1, <1>3, FS_Subset
<1>5. AsNamed
  BY <1>4 DEF FoundFit
<1>6. PICK i \in DOMAIN found : f = found[i].signal
  BY DEF Found
<1>7. Len(found) \in Nat /\ i \in 1..Len(found) /\ f = i - 1 /\ s \in Nat
  BY <1>1, <1>5, <1>6, ConstantFacts DEF AsNamed
<1>8. s + 1 \notin 1..Len(found)
  <2>1. s + 1 \in DOMAIN found => found[s + 1].signal = s
    BY <1>5, <1>7 DEF AsNamed
  <2> QED
    BY <1>1, <2>1 DEF Found
<1> QED
  BY <1>7, <1>8

-----------------------------------------------------------------------------
(* The table's file                                                        *)

LEMMA InitUnread == ASSUME Init PROVE Unread /\ InPlace
BY DEF Init, Unread, InPlace

LEMMA StepUnread == ASSUME Typed, Unread, Next PROVE Unread'
<1> USE DEF Unread
<1>1. CASE Halts
  BY <1>1 DEF Halts, Stop
<1>2. CASE PlanStep
  BY <1>2 DEF PlanStep, MessageSearched, SearchEnds, EncodingsSent, StartTable, Parsed, TableSent,
     Done, Stop, Typed, PlanType
<1>3. CASE ParseRow \/ \E s \in Signals : Search(s)
  BY <1>3 DEF ParseRow, Search
<1>4. CASE SendEncoding \/ SendRow \/ ExchangeStep \/ OutsideStep
  BY <1>4, OutsideTyped DEF SendEncoding, SendRow, ExchangeStep, Write, Request, ReceiveReply,
     Retry, main, tool
<1> QED
  BY <1>1, <1>2, <1>3, <1>4, StepCases

LEMMA ParseRowInPlace == ASSUME Typed, InPlace, ParseRow PROVE InPlace'
<1> SUFFICES ASSUME InOrder(tbl)
             PROVE  /\ Len(rows') = n + 1
                    /\ Len(rows') <= Len(csv[tbl])
                    /\ \A j \in 1..Len(rows') :
                         csv[tbl][j] \in Lines /\ rows'[j] = TableRow(j - 1, csv[tbl][j])
  BY DEF ParseRow, InPlace, InOrder, Key
<1> DEFINE file == csv[tbl]
           line == file[n + 1]
<1>1. /\ phase = "parse" /\ tbl \in Signals /\ n \in Nat /\ n < Len(file)
      /\ file \in Seq(Lines \cup {BadLine}) /\ Len(file) \in Nat
      /\ rows \in Seq(TableRows) /\ line # BadLine
  BY DEF ParseRow, Typed, PlanType
<1>2. line \in Lines
  BY <1>1
<1>3. /\ Len(rows) = n
      /\ \A j \in 1..n : file[j] \in Lines /\ rows[j] = TableRow(j - 1, file[j])
  BY <1>1 DEF InPlace
<1>4. Place(line.key) = n
  <2>1. \A j \in 1..n : rows[j].key < line.key
    <3>1. \A j \in 1..n : j \in DOMAIN file /\ n + 1 \in DOMAIN file /\ j < n + 1
      BY <1>1
    <3>2. \A j \in 1..n : file[j].key < line.key
      BY <3>1 DEF InOrder, Key
    <3> QED
      BY <1>3, <3>2 DEF TableRow
  <2>2. {j \in DOMAIN rows : rows[j].key < line.key} = 1..n
    BY <1>1, <1>3, <2>1
  <2>3. Cardinality(1..n) = n
    BY <1>1, FS_Interval
  <2> QED
    BY <2>2, <2>3 DEF Place
<1> HIDE DEF line
<1>5. rows' = SubSeq(rows, 1, n) \o <<TableRow(n, line)>> \o SubSeq(rows, n + 1, Len(rows))
  BY <1>4 DEF ParseRow, TableRow, line
<1>6. SubSeq(rows, 1, n) = rows /\ SubSeq(rows, n + 1, Len(rows)) = <<>>
  BY <1>1, <1>3, SubSeqFull, SubSeqEmpty
<1>7. TableRow(n, line) \in TableRows
  <2>1. n \in RowNumbers
    BY <1>1, <1>3, ConstantFacts DEF ParseRow, IsFull, RowNumbers
  <2> QED
    BY <1>2, <2>1 DEF TableRows
<1>8. rows' = Append(rows, TableRow(n, line))
  <2>1. rows \o <<TableRow(n, line)>> \in Seq(TableRows)
    BY <1>1, <1>7, ConcatProperties
  <2>2. rows' = rows \o <<TableRow(n, line)>>
    BY <1>5, <1>6, <2>1, ConcatEmptySeq
  <2> QED
    BY <1>1, <1>7, <2>2, AppendIsConcat
<1>9. /\ Len(rows') = n + 1 /\ rows'[n + 1] = TableRow(n, line)
      /\ \A j \in 1..n : rows'[j] = rows[j]
  BY <1>1, <1>3, <1>7, <1>8, AppendProperties
<1>10. n < Len(file) => n + 1 <= Len(file)
  BY <1>1
<1>11. ASSUME NEW j \in 1..(n + 1)
       PROVE  file[j] \in Lines /\ rows'[j] = TableRow(j - 1, file[j])
  <2>1. CASE j \in 1..n
    BY <1>3, <1>9, <2>1
  <2>2. CASE j = n + 1
    BY <1>1, <1>2, <1>9, <2>2 DEF line
  <2> QED
    BY <1>1, <2>1, <2>2
<1> QED
  BY <1>1, <1>9, <1>10, <1>11

LEMMA StepInPlace == ASSUME Typed, InPlace, Next PROVE InPlace'
<1> USE DEF InPlace, InOrder, Key
<1>1. CASE Halts
  BY <1>1 DEF Halts, Stop
<1>2. CASE PlanStep
  <2>1. ASSUME NEW t \in Signals, NEW file \in Files, StartTable(t, file) PROVE InPlace'
    <3>1. file \in Seq(Lines \cup {BadLine}) /\ csv'[t] = file /\ tbl' = t
      BY <2>1, FilesAssumption DEF StartTable, Typed, PlanType
    <3>2. Len(rows') = 0 /\ n' = 0 /\ phase' = "parse" /\ Len(csv'[t]) \in Nat
      BY <2>1, <3>1 DEF StartTable
    <3> QED
      BY <3>1, <3>2
  <2>2. CASE Parsed
    BY <2>2 DEF Parsed
  <2>3. CASE MessageSearched \/ SearchEnds \/ EncodingsSent \/ TableSent \/ Done
    BY <2>3 DEF MessageSearched, SearchEnds, EncodingsSent, TableSent, Done, Stop
  <2> QED
    BY <1>2, <2>1, <2>2, <2>3 DEF PlanStep
<1>3. CASE ParseRow
  BY <1>3, ParseRowInPlace
<1>4. CASE \E s \in Signals : Search(s)
  BY <1>4 DEF Search
<1>5. CASE SendEncoding \/ SendRow
  BY <1>5 DEF SendEncoding, SendRow
<1>6. CASE ExchangeStep \/ OutsideStep
  BY <1>6, OutsideTyped DEF ExchangeStep, Write, Request, ReceiveReply, Retry, main, tool
<1> QED
  BY <1>1, <1>2, <1>3, <1>4, <1>5, <1>6, StepCases

-----------------------------------------------------------------------------
(* What is about a row                                                     *)

LEMMA ShorterQueue ==
  ASSUME NEW S, NEW q \in Seq(S), q # <<>>
  PROVE  \A k \in 1..Len(Tail(q)) : k + 1 \in 1..Len(q) /\ Tail(q)[k] = q[k + 1]
BY HeadTailProperties

LEMMA LongerQueue ==
  ASSUME NEW S, NEW q \in Seq(S), NEW e \in S
  PROVE  \A k \in 1..Len(Append(q, e)) :
           \/ k \in 1..Len(q) /\ Append(q, e)[k] = q[k]
           \/ k = Len(q) + 1 /\ Append(q, e)[k] = e
BY AppendProperties

\* A slot nobody touched follows any content.
LEMMA FollowsAny ==
  ASSUME Typed, NEW slot \in Slots, NEW x, Follows(slot, Junk)
  PROVE  Follows(slot, x)
<1>1. cmd.slot # slot
  BY NoCommandFacts, ConstantFacts DEF Follows, Typed, ExchangeType, Commands
<1>2. \A k \in 1..Len(toDevice) : toDevice[k].op = "write" => toDevice[k].slot # slot
  <2> SUFFICES ASSUME NEW k \in 1..Len(toDevice), toDevice[k].op = "write", toDevice[k].slot = slot
               PROVE  FALSE
    OBVIOUS
  <2>1. toDevice[k] \in WriteFrames \cup RequestFrames
    BY ElementOfSeq DEF Typed, OutsideType
  <2>2. toDevice[k].content \in Contents
    BY <2>1 DEF WriteFrames, RequestFrames
  <2> QED
    BY <2>2, ConstantFacts DEF Follows
<1>3. \A c \in verified : c.slot # slot
  BY ConstantFacts DEF Follows, Typed, ExchangeType, Commands
<1> QED
  BY <1>1, <1>2, <1>3 DEF Follows

LEMMA PlanFollows ==
  ASSUME Typed, NEW slot \in Slots, NEW x, Follows(slot, x),
         UNCHANGED <<verified, outside>>, cmd' = cmd
  PROVE  Follows(slot, x)'
BY DEF Follows, outside

LEMMA HaltsFollows ==
  ASSUME Typed, NEW slot \in Slots, NEW x, Follows(slot, x), Halts
  PROVE  Follows(slot, x)'
<1>1. cmd'.slot # slot
  BY NoCommandFacts DEF Halts, Stop
<1>2. toTool # <<>> => \A k \in 1..Len(Tail(toTool)) : k + 1 \in 1..Len(toTool) /\ Tail(toTool)[k] = toTool[k + 1]
  BY ShorterQueue DEF Typed, OutsideType
<1> QED
  BY <1>1, <1>2 DEF Follows, Halts

LEMMA StartFollows ==
  ASSUME Typed, NEW slot \in Slots, NEW x, Follows(slot, x),
         NEW s \in Slots, NEW content, Start(s, content), s = slot => content = x,
         UNCHANGED outside
  PROVE  Follows(slot, x)'
BY DEF Follows, Start, outside

LEMMA ExchangeFollows ==
  ASSUME Typed, NEW slot \in Slots, NEW x, Follows(slot, x), ~IsSignal(slot), ExchangeStep
  PROVE  Follows(slot, x)'
<1>0. toTool # <<>> => \A k \in 1..Len(Tail(toTool)) : k + 1 \in 1..Len(toTool) /\ Tail(toTool)[k] = toTool[k + 1]
  BY ShorterQueue DEF Typed, OutsideType
<1>1. CASE Write
  <2>1. toDevice' = Append(toDevice, WriteOf(cmd)) /\ WriteOf(cmd) \in WriteFrames
    BY <1>1 DEF Write, WriteOf, WriteFrames, Commands, Typed, ExchangeType
  <2>2. \A k \in 1..Len(toDevice') : \/ k \in 1..Len(toDevice) /\ toDevice'[k] = toDevice[k]
                                     \/ toDevice'[k] = WriteOf(cmd)
    BY <2>1, LongerQueue DEF Typed, OutsideType
  <2> QED
    BY <1>1, <2>2 DEF Follows, Write, WriteOf
<1>2. CASE Request
  <2>1. toDevice' = Append(toDevice, RequestOf(cmd)) /\ RequestOf(cmd) \in RequestFrames
    BY <1>2 DEF Request, RequestOf, RequestFrames, Commands, Typed, ExchangeType
  <2>2. \A k \in 1..Len(toDevice') : \/ k \in 1..Len(toDevice) /\ toDevice'[k] = toDevice[k]
                                     \/ toDevice'[k] = RequestOf(cmd)
    BY <2>1, LongerQueue DEF Typed, OutsideType
  <2> QED
    BY <1>2, <2>2 DEF Follows, Request, RequestOf
<1>3. CASE ReceiveReply
  <2>1. cmd'.slot # slot
    BY <1>3, NoCommandFacts DEF ReceiveReply
  <2>2. cmd.slot = slot => cmd.content = x /\ dev[slot] = x
    <3> SUFFICES ASSUME cmd.slot = slot PROVE cmd.content = x /\ dev[slot] = x
      OBVIOUS
    <3>1. Head(toTool) = toTool[1] /\ 1 \in 1..Len(toTool)
      BY <1>3, EmptySeq DEF ReceiveReply, Received, Typed, OutsideType
    <3>2. /\ toTool[1].kind = "reply" /\ toTool[1].slot = slot
          /\ toTool[1].content = cmd.content
      BY <1>3, <3>1 DEF ReceiveReply, Verify, IsReply
    <3>3. cmd.content \in Contents
      BY NoCommandFacts DEF Typed, ExchangeType, Commands
    <3> QED
      BY <3>1, <3>2, <3>3, ConstantFacts DEF Follows
  <2>3. \A k \in 1..Len(toTool') : k + 1 \in 1..Len(toTool) /\ toTool'[k] = toTool[k + 1]
    BY <1>0, <1>3 DEF ReceiveReply, Received
  <2> QED
    BY <1>3, <2>1, <2>2, <2>3 DEF Follows, ReceiveReply
<1>4. CASE Retry
  BY <1>0, <1>4 DEF Follows, Retry, Received
<1> QED
  BY <1>1, <1>2, <1>3, <1>4 DEF ExchangeStep

LEMMA OutsideFollows ==
  ASSUME Typed, NEW slot \in Slots, NEW x, Follows(slot, x), ~IsSignal(slot), OutsideStep
  PROVE  Follows(slot, x)'
<1>0. /\ toTool # <<>> =>
           \A k \in 1..Len(Tail(toTool)) : k + 1 \in 1..Len(toTool) /\ Tail(toTool)[k] = toTool[k + 1]
      /\ toDevice # <<>> =>
           \A k \in 1..Len(Tail(toDevice)) :
             k + 1 \in 1..Len(toDevice) /\ Tail(toDevice)[k] = toDevice[k + 1]
  BY ShorterQueue DEF Typed, OutsideType
<1>1. cmd' = cmd /\ verified' = verified
  BY OutsideTyped DEF tool, exchange
<1>2. ASSUME NEW frame \in Frames, toTool' = Append(toTool, frame),
             frame.kind = "reply" /\ frame.slot = slot => frame.content = dev[slot]
      PROVE  \A k \in 1..Len(toTool') :
               toTool'[k].kind = "reply" /\ toTool'[k].slot = slot =>
                 toTool'[k].content \in {Junk, dev[slot]}
  <2>1. \A k \in 1..Len(toTool') : \/ k \in 1..Len(toTool) /\ toTool'[k] = toTool[k]
                                   \/ toTool'[k] = frame
    BY <1>2, LongerQueue DEF Typed, OutsideType
  <2> QED
    BY <1>2, <2>1 DEF Follows
<1>3. Other \in Frames /\ Malformed \in Frames /\ Other.kind # "reply" /\ Malformed.kind # "reply"
  BY DEF Frames, Other, Malformed
<1>4. CASE DeviceStores
  <2>1. /\ toDevice # <<>> /\ Head(toDevice) = toDevice[1] /\ 1 \in 1..Len(toDevice)
        /\ toDevice[1].op = "write" /\ toDevice[1].slot \in Slots
    BY <1>4, NextToHandle DEF DeviceStores
  <2>2. dev'[slot] = IF toDevice[1].slot = slot THEN x ELSE dev[slot]
    BY <1>4, <2>1 DEF DeviceStores, Follows, Typed, OutsideType
  <2> QED
    BY <1>0, <1>1, <1>4, <2>1, <2>2 DEF DeviceStores, Handle, Follows
<1>5. CASE DeviceFailsToStore
  <2>1. /\ toDevice # <<>> /\ Head(toDevice) = toDevice[1] /\ 1 \in 1..Len(toDevice)
        /\ toDevice[1].op = "write" /\ toDevice[1].slot \in Slots
    BY <1>5, NextToHandle DEF DeviceFailsToStore
  <2>2. /\ dev'[slot] \in {Junk, x}
        /\ dev[slot] # Junk => dev'[slot] = dev[slot]
    <3>1. PICK c : /\ dev' = [dev EXCEPT ![toDevice[1].slot] = c]
                   /\ c \in IF IsSignal(toDevice[1].slot) \/ dev[toDevice[1].slot] = toDevice[1].content
                            THEN {dev[toDevice[1].slot]}
                            ELSE {dev[toDevice[1].slot], toDevice[1].content, Junk}
      BY <1>5, <2>1 DEF DeviceFailsToStore
    <3>2. dev[slot] \in {Junk, x} /\ (toDevice[1].slot = slot => toDevice[1].content = x)
      BY <2>1 DEF Follows
    <3> QED
      BY <2>1, <3>1, <3>2 DEF Typed, OutsideType
  <2>3. \A k \in 1..Len(toTool') :
          toTool'[k].kind = "reply" /\ toTool'[k].slot = slot =>
            toTool'[k].content \in {Junk, dev[slot]}
    BY <1>2, <1>3, <1>5 DEF DeviceFailsToStore
  <2>4. \A c \in verified : c.slot = slot => dev'[slot] = dev[slot]
    <3>1. \A c \in verified : c.slot = slot => dev[slot] # Junk
      BY ConstantFacts DEF Follows, Typed, ExchangeType, Commands
    <3> QED
      BY <2>2, <3>1
  <2> QED
    BY <1>0, <1>1, <1>5, <2>1, <2>2, <2>3, <2>4 DEF DeviceFailsToStore, Handle, Follows
<1>6. CASE DeviceReplies
  <2> DEFINE frame == [kind |-> "reply", slot |-> Head(toDevice).slot,
                       content |-> dev[Head(toDevice).slot]]
  <2>1. frame \in Frames
    BY <1>6, NextToHandle DEF DeviceReplies, Frames, Replies, Typed, OutsideType
  <2>2. toTool' = Append(toTool, frame) /\ dev' = dev /\ toDevice # <<>> /\ toDevice' = Tail(toDevice)
    BY <1>6 DEF DeviceReplies, Handle
  <2>3. frame.slot = slot => frame.content = dev[slot]
    OBVIOUS
  <2> HIDE DEF frame
  <2> QED
    BY <1>0, <1>1, <1>2, <2>1, <2>2, <2>3 DEF Follows
<1>7. CASE DeviceFailsToRead \/ Foreign
  <2>1. \E frame \in Frames : toTool' = Append(toTool, frame) /\ frame.kind # "reply"
    BY <1>3, <1>7 DEF DeviceFailsToRead, Foreign
  <2>2. /\ dev' = dev
        /\ toDevice' = toDevice \/ (toDevice # <<>> /\ toDevice' = Tail(toDevice))
    BY <1>7 DEF DeviceFailsToRead, Foreign, Handle
  <2>3. \A k \in 1..Len(toTool') :
          toTool'[k].kind = "reply" /\ toTool'[k].slot = slot =>
            toTool'[k].content \in {Junk, dev[slot]}
    BY <1>2, <2>1
  <2> QED
    BY <1>0, <1>1, <2>2, <2>3 DEF Follows
<1>8. CASE LoseToDevice \/ LoseToTool
  BY <1>0, <1>1, <1>8 DEF LoseToDevice, LoseToTool, Follows
<1> QED
  BY <1>4, <1>5, <1>6, <1>7, <1>8 DEF OutsideStep, DeviceStep

\* Of a file in ascending order the n-th command sets row n to the line that belongs there.
LEMMA RowToSend ==
  ASSUME Typed, InPlace, phase = "rows", n < maxTabRows, InOrder(tbl)
  PROVE  RowNumber(n) = n /\ RowLine(n) = LineFor(tbl, n) /\ csv[tbl] # <<>>
<1> DEFINE file == csv[tbl]
<1>1. /\ rows \in Seq(TableRows) /\ rows # <<>> /\ Len(rows) \in Nat \ {0} /\ n \in Nat
      /\ Len(rows) = Len(file) /\ file # <<>>
      /\ \A j \in 1..Len(rows) : file[j] \in Lines /\ rows[j] = TableRow(j - 1, file[j])
  <2>1. rows \in Seq(TableRows) /\ rows # <<>> /\ n \in Nat
    BY DEF Typed, PlanType
  <2>2. Len(rows) \in Nat \ {0}
    BY <2>1, EmptySeq
  <2>3. Len(rows) = Len(file)
    BY DEF InPlace
  <2>4. file # <<>>
    BY <2>2, <2>3
  <2> QED
    BY <2>1, <2>2, <2>3, <2>4 DEF InPlace
<1>2. \A j \in 1..Len(rows) : /\ rows[j].rowIndex = j - 1
                              /\ [key |-> rows[j].key, val |-> rows[j].val] = file[j]
  <2> SUFFICES ASSUME NEW j \in 1..Len(rows)
               PROVE  /\ rows[j].rowIndex = j - 1
                      /\ [key |-> rows[j].key, val |-> rows[j].val] = file[j]
    OBVIOUS
  <2>1. rows[j] = TableRow(j - 1, file[j]) /\ file[j] \in Lines
    BY <1>1
  <2>2. [key |-> file[j].key, val |-> file[j].val] = file[j]
    BY <2>1, ConstantFacts
  <2> QED
    BY <2>1, <2>2 DEF TableRow
<1>3. CASE n < Len(rows)
  <2>1. n + 1 \in 1..Len(rows) /\ (n + 1) - 1 = n
    BY <1>1, <1>3
  <2>2. rows[n + 1].rowIndex = n /\ [key |-> rows[n + 1].key, val |-> rows[n + 1].val] = file[n + 1]
    BY <1>2, <2>1
  <2> QED
    BY <1>1, <1>3, <2>2 DEF RowNumber, RowLine, LineFor
<1>4. CASE ~(n < Len(rows))
  <2>1. Len(rows) \in 1..Len(rows)
    BY <1>1
  <2> QED
    BY <1>1, <1>2, <1>4, <2>1 DEF RowNumber, RowLine, LastRow, LineFor
<1> QED
  BY <1>3, <1>4

LEMMA InitFollows == ASSUME Init PROVE RowsFollow
<1> SUFFICES ASSUME NEW t \in Signals, NEW r \in RowNumbers
             PROVE  Follows(<<"row", t, r>>, Junk)
  BY DEF Init, RowsFollow
<1>1. <<"row", t, r>> \in Slots /\ ~IsSignal(<<"row", t, r>>)
  BY RowSlot
<1>2. NoCommand.slot # <<"row", t, r>>
  BY <1>1, NoCommandFacts
<1> QED
  BY <1>1, <1>2 DEF Init, Follows

LEMMA StepFollowsSlot ==
  ASSUME Typed, InPlace, NEW t \in Signals, NEW r \in RowNumbers, NEW x,
         Follows(<<"row", t, r>>, x), Next,
         csv[t] = <<>> \/ (InOrder(t) /\ x = LineFor(t, r))
  PROVE  Follows(<<"row", t, r>>, x)'
<1> DEFINE slot == <<"row", t, r>>
<1>1. slot \in Slots /\ ~IsSignal(slot)
  BY RowSlot
<1>2. CASE SendEncoding
  <2>1. PICK s \in Signals, e \in Encodings : Start(<<"signal", s, 0>>, e)
    BY <1>2, SendEncodingTyped
  <2>2. <<"signal", s, 0>> \in Slots /\ <<"signal", s, 0>> # slot
    BY <1>1, SignalSlot
  <2>3. UNCHANGED outside
    BY <1>2 DEF SendEncoding
  <2> QED
    BY <1>1, <2>1, <2>2, <2>3, StartFollows
<1>3. CASE SendRow
  <2>1. phase = "rows" /\ n < maxTabRows /\ Start(<<"row", tbl, RowNumber(n)>>, RowLine(n))
    BY <1>3 DEF SendRow
  <2>2. <<"row", tbl, RowNumber(n)>> \in Slots
    BY <1>3, <2>1, RowSlot, SendRowTyped DEF Typed, PlanType
  <2>3. ASSUME <<"row", tbl, RowNumber(n)>> = slot PROVE RowLine(n) = x
    <3>1. tbl = t /\ RowNumber(n) = r
      BY <2>3
    <3>2. InOrder(tbl)
      BY <3>1 DEF InOrder, Typed, PlanType
    <3> QED
      BY <2>1, <3>1, <3>2, RowToSend
  <2>4. UNCHANGED outside
    BY <1>3 DEF SendRow
  <2>5. Follows(slot, x)
    OBVIOUS
  <2> HIDE DEF slot
  <2>6. Follows(slot, x)'
    BY <1>1, <2>1, <2>2, <2>3, <2>4, <2>5, StartFollows
  <2> QED
    BY <2>6 DEF slot
<1> HIDE DEF slot
<1>4. CASE Halts
  BY <1>1, <1>4, HaltsFollows DEF slot
<1>5. CASE PlanStep \/ ParseRow \/ \E s \in Signals : Search(s)
  BY <1>1, <1>5, PlanStepExchange, PlanFollows DEF slot
<1>6. CASE ExchangeStep
  BY <1>1, <1>6, ExchangeFollows DEF slot
<1>7. CASE OutsideStep
  BY <1>1, <1>7, OutsideFollows DEF slot
<1> QED
  BY <1>2, <1>3, <1>4, <1>5, <1>6, <1>7, StepCases

\* A file, once read, does not change.
LEMMA FileKept ==
  ASSUME Typed, Unread, Next, NEW t \in Signals
  PROVE  csv'[t] = csv[t] \/ (csv[t] = <<>> /\ \E file \in Files : StartTable(t, file))
<1>1. csv' = csv \/ \E u \in Signals, file \in Files : StartTable(u, file)
  BY StepCases, OutsideTyped DEF Halts, PlanStep, MessageSearched, SearchEnds, EncodingsSent, Parsed,
     TableSent, Done, ParseRow, Search, SendEncoding, SendRow, ExchangeStep, Write, Request,
     ReceiveReply, Retry, main, tool
<1>2. ASSUME NEW u \in Signals, NEW file \in Files, StartTable(u, file), u # t
      PROVE  csv'[t] = csv[t]
  BY <1>2 DEF StartTable, Typed, PlanType
<1>3. ASSUME NEW file \in Files, StartTable(t, file) PROVE csv[t] = <<>>
  BY <1>3 DEF StartTable, Unread
<1> QED
  BY <1>1, <1>2, <1>3

LEMMA StepFollows == ASSUME Typed, InPlace, Unread, RowsFollow, Next PROVE RowsFollow'
<1> SUFFICES ASSUME NEW t \in Signals, NEW r \in RowNumbers
             PROVE  /\ csv'[t] = <<>> => Follows(<<"row", t, r>>, Junk)'
                    /\ csv'[t] # <<>> /\ InOrder(t)' => Follows(<<"row", t, r>>, LineFor(t, r))'
  BY DEF RowsFollow
<1>1. <<"row", t, r>> \in Slots
  BY RowSlot
<1>3. CASE csv[t] = <<>>
  <2>1. Follows(<<"row", t, r>>, Junk)
    BY <1>3 DEF RowsFollow
  <2>2. Follows(<<"row", t, r>>, Junk)'
    BY <1>3, <2>1, StepFollowsSlot
  <2>3. PICK x : x = LineFor(t, r)'
    BY DEF LineFor
  <2>4. Follows(<<"row", t, r>>, x)'
    BY <1>1, <1>3, <2>1, FollowsAny, StepFollowsSlot
  <2> QED
    BY <2>2, <2>3, <2>4 DEF Follows, LineFor
<1>4. CASE csv[t] # <<>> /\ csv'[t] = csv[t]
  <2>1. InOrder(t)' = InOrder(t) /\ LineFor(t, r)' = LineFor(t, r)
    BY <1>4 DEF InOrder, Key, LineFor
  <2>2. ASSUME InOrder(t) PROVE Follows(<<"row", t, r>>, LineFor(t, r))'
    <3>1. PICK x : x = LineFor(t, r)
      OBVIOUS
    <3>2. Follows(<<"row", t, r>>, x)
      BY <1>4, <2>2, <3>1 DEF RowsFollow
    <3>3. Follows(<<"row", t, r>>, x)'
      BY <2>2, <3>1, <3>2, StepFollowsSlot
    <3>4. x = LineFor(t, r)'
      BY <2>1, <3>1
    <3> QED
      BY <3>3, <3>4 DEF Follows, LineFor
  <2> QED
    BY <1>4, <2>1, <2>2
<1> QED
  BY <1>3, <1>4, FileKept

-----------------------------------------------------------------------------
(* What is verified of a table                                             *)

LEMMA StepRowInHand == ASSUME Typed, InPlace, RowInHand, Next PROVE RowInHand'
<1> USE DEF RowInHand, RowCommand
<1>1. CASE SendRow
  <2>1. /\ phase = "rows" /\ n < maxTabRows /\ n' = n + 1 /\ n \in Nat /\ UNCHANGED <<tbl, csv>>
        /\ cmd' = [slot |-> <<"row", tbl, RowNumber(n)>>, content |-> RowLine(n)]
    BY <1>1 DEF SendRow, Start, Typed, PlanType
  <2>2. InOrder(tbl)' = InOrder(tbl) /\ LineFor(tbl, n - 1)' = LineFor(tbl, n)
    BY <2>1 DEF InOrder, Key, LineFor
  <2>3. SUFFICES ASSUME InOrder(tbl) PROVE n' > 0 /\ cmd' = RowCommand(tbl, n - 1)'
    BY <2>2
  <2>4. RowNumber(n) = n /\ RowLine(n) = LineFor(tbl, n)
    BY <2>1, <2>3, RowToSend
  <2>5. n' > 0 /\ n' - 1 = n
    BY <2>1
  <2> QED
    BY <2>1, <2>2, <2>4, <2>5
<1>2. CASE phase' # "rows" \/ cmd' = NoCommand
  BY <1>2
<1>3. CASE UNCHANGED <<phase, cmd, n, tbl, csv>>
  BY <1>3 DEF InOrder, Key, LineFor
<1>4. SendRow \/ phase' # "rows" \/ cmd' = NoCommand \/ UNCHANGED <<phase, cmd, n, tbl, csv>>
  <2>1. Halts => cmd' = NoCommand
    BY DEF Halts, Stop
  <2>2. PlanStep \/ ParseRow \/ (\E s \in Signals : Search(s)) => cmd' = NoCommand
    BY PlanStepExchange
  <2>3. SendEncoding => phase' # "rows"
    BY DEF SendEncoding
  <2>4. ExchangeStep \/ OutsideStep => cmd' = NoCommand \/ UNCHANGED <<phase, cmd, n, tbl, csv>>
    BY OutsideTyped DEF ExchangeStep, Write, Request, ReceiveReply, Retry, main, tool, exchange
  <2> QED
    BY <2>1, <2>2, <2>3, <2>4, StepCases
<1> QED
  BY <1>1, <1>2, <1>3, <1>4

\* A table keeps what was verified of it if no command is about its rows.
LEMMA KeptVerified ==
  ASSUME Typed, AllVerified, NEW t \in Signals,
         phase \in {"tables", "parse", "rows", "done"}, t \in given \ left,
         csv'[t] = csv[t], InOrder(t),
         RowsDone(t)' <= RowsDone(t), RowsDone(t)' > 0, RowsDone(t) \in Int, RowsDone(t)' \in Int,
         \A r \in 0..(RowsDone(t) - 1) : RowCommand(t, r) \in verified => RowCommand(t, r) \in verified'
  PROVE  /\ csv'[t] # <<>>
         /\ \A r \in 0..(RowsDone(t)' - 1) : RowCommand(t, r)' \in verified'
<1>1. csv[t] # <<>> /\ \A r \in 0..(RowsDone(t) - 1) : RowCommand(t, r) \in verified
  BY DEF AllVerified
<1>2. \A r : RowCommand(t, r)' = RowCommand(t, r)
  BY DEF RowCommand, LineFor
<1>3. 0..(RowsDone(t)' - 1) \subseteq 0..(RowsDone(t) - 1)
  OBVIOUS
<1> QED
  BY <1>1, <1>2, <1>3

LEMMA RowsDoneCases ==
  ASSUME Typed, NEW t
  PROVE  /\ RowsDone(t) \in Int
         /\ ~(phase \in {"parse", "rows"} /\ t = tbl) => RowsDone(t) = maxTabRows
         /\ phase = "parse" /\ t = tbl => RowsDone(t) = 0
         /\ phase = "rows" /\ t = tbl => RowsDone(t) = IF cmd = NoCommand THEN n ELSE n - 1
BY ConstantFacts DEF RowsDone, Typed, PlanType

\* Steps after which as much of each table is verified as before.
LEMMA VerifiedUnchanged ==
  ASSUME Typed, AllVerified, phase \in {"tables", "parse", "rows", "done"},
         UNCHANGED <<given, left, csv, verified>>,
         \A t \in Signals : RowsDone(t)' = RowsDone(t)
  PROVE  AllVerified'
<1> SUFFICES ASSUME NEW t \in given \ left, InOrder(t)', RowsDone(t)' > 0
             PROVE  /\ csv'[t] # <<>>
                    /\ \A r \in 0..(RowsDone(t)' - 1) : RowCommand(t, r)' \in verified'
  BY DEF AllVerified
<1>1. t \in Signals /\ InOrder(t)
  BY DEF InOrder, Key, Typed, PlanType
<1>2. RowsDone(t) \in Int
  BY RowsDoneCases
<1> QED
  BY <1>1, <1>2, KeptVerified

LEMMA StepAllVerified ==
  ASSUME Typed, Unread, InPlace, RowsFollow, RowInHand, AllVerified, Next
  PROVE  AllVerified'
<1>0. maxTabRows \in Nat \ {0} /\ Typed'
  BY ConstantFacts, StepTyped
<1>1. CASE phase' \notin {"tables", "parse", "rows", "done"}
  BY <1>1 DEF AllVerified
<1>2. CASE EncodingsSent
  BY <1>2 DEF EncodingsSent, AllVerified
<1>3. ASSUME NEW u \in Signals, NEW file \in Files, StartTable(u, file)
      PROVE  AllVerified'
  <2> SUFFICES ASSUME NEW t \in given \ left', InOrder(t)', RowsDone(t)' > 0
               PROVE  /\ csv'[t] # <<>>
                      /\ \A r \in 0..(RowsDone(t)' - 1) : RowCommand(t, r)' \in verified'
    BY <1>3 DEF AllVerified, StartTable
  <2>1. /\ phase = "tables" /\ phase' = "parse" /\ tbl' = u /\ left' = left \ {u}
        /\ csv' = [csv EXCEPT ![u] = file] /\ UNCHANGED exchange
    BY <1>3 DEF StartTable
  <2>2. t # u
    BY <2>1 DEF RowsDone
  <2>3. t \in Signals /\ t \in given \ left /\ csv'[t] = csv[t]
    BY <2>1, <2>2 DEF Typed, PlanType
  <2>4. InOrder(t)
    BY <2>3 DEF InOrder, Key
  <2>5. RowsDone(t) = maxTabRows /\ RowsDone(t)' = maxTabRows
    BY <2>1, <2>2 DEF RowsDone
  <2> QED
    BY <1>0, <2>1, <2>3, <2>4, <2>5, KeptVerified DEF exchange
<1>4. CASE ParseRow
  BY <1>4, VerifiedUnchanged DEF ParseRow, exchange, RowsDone
<1>5. CASE Parsed /\ phase' = "rows"
  <2>1. /\ phase = "parse" /\ n' = 0 /\ cmd' = NoCommand
        /\ UNCHANGED <<given, left, tbl, csv, verified>>
    BY <1>5, PlanStepExchange DEF Parsed, PlanStep
  <2>2. \A t \in Signals : RowsDone(t)' = RowsDone(t)
    BY <1>5, <2>1 DEF RowsDone
  <2> QED
    BY <2>1, <2>2, VerifiedUnchanged
<1>6. CASE TableSent \/ Done
  <2>1. /\ phase \in {"tables", "rows"} /\ phase' \in {"tables", "done"} /\ cmd = NoCommand
        /\ phase = "rows" => n = maxTabRows
        /\ UNCHANGED <<given, left, csv, verified>>
    BY <1>6, PlanStepExchange DEF TableSent, Done, PlanStep
  <2>2. \A t \in Signals : RowsDone(t)' = RowsDone(t)
    BY <2>1 DEF RowsDone
  <2> QED
    BY <2>1, <2>2, VerifiedUnchanged
<1>7. CASE SendRow
  <2> SUFFICES ASSUME NEW t \in given \ left, InOrder(t)', RowsDone(t)' > 0
               PROVE  /\ csv'[t] # <<>>
                      /\ \A r \in 0..(RowsDone(t)' - 1) : RowCommand(t, r)' \in verified'
    BY <1>7 DEF AllVerified, SendRow
  <2>1. /\ phase = "rows" /\ phase' = "rows" /\ n' = n + 1 /\ n \in Nat /\ n < maxTabRows
        /\ cmd = NoCommand /\ cmd' # NoCommand /\ UNCHANGED <<tbl, csv, left, given>>
        /\ verified' = {c \in verified : c.slot # <<"row", tbl, RowNumber(n)>>}
    BY <1>0, <1>7 DEF SendRow, Start, Typed, PlanType, ExchangeType
  <2>2. InOrder(t) /\ t \in Signals
    BY <2>1 DEF InOrder, Key, Typed, PlanType
  <2>3. RowsDone(t)' = RowsDone(t) /\ RowsDone(t) \in Int
    <3>1. n' - 1 = n
      BY <2>1
    <3> QED
      BY <2>1, <3>1, RowsDoneCases DEF RowsDone
  <2>4. ASSUME NEW r \in 0..(RowsDone(t) - 1)
        PROVE  RowCommand(t, r).slot # <<"row", tbl, RowNumber(n)>>
    <3>1. CASE t # tbl
      BY <3>1 DEF RowCommand
    <3>2. CASE t = tbl
      <4>1. RowNumber(n) = n /\ RowsDone(t) = n
        BY <2>1, <2>2, <3>2, RowToSend, RowsDoneCases
      <4>2. r # n
        BY <2>1, <4>1
      <4> QED
        BY <4>1, <4>2 DEF RowCommand
    <3> QED
      BY <3>1, <3>2
  <2>5. \A r \in 0..(RowsDone(t) - 1) : RowCommand(t, r) \in verified => RowCommand(t, r) \in verified'
    BY <2>1, <2>4
  <2>6. /\ phase \in {"tables", "parse", "rows", "done"} /\ csv'[t] = csv[t]
        /\ RowsDone(t)' <= RowsDone(t) /\ RowsDone(t)' \in Int
    BY <2>1, <2>3
  <2> QED
    BY <2>2, <2>3, <2>5, <2>6, KeptVerified
<1>8. CASE ReceiveReply /\ phase = "rows"
  <2> SUFFICES ASSUME NEW t \in given \ left, InOrder(t)', RowsDone(t)' > 0
               PROVE  /\ csv'[t] # <<>>
                      /\ \A r \in 0..(RowsDone(t)' - 1) : RowCommand(t, r)' \in verified'
    BY <1>8 DEF AllVerified, ReceiveReply, main
  <2>1. /\ phase = "rows" /\ UNCHANGED <<phase, n, tbl, csv, left, given, rows>>
        /\ n \in Nat /\ n <= maxTabRows /\ cmd # NoCommand /\ cmd' = NoCommand
        /\ verified' = verified \cup {cmd}
    BY <1>8 DEF ReceiveReply, Received, main, Typed, PlanType, ExchangeType
  <2>2. InOrder(t) /\ t \in Signals /\ \A r : RowCommand(t, r)' = RowCommand(t, r)
    BY <2>1 DEF InOrder, Key, Typed, PlanType, RowCommand, LineFor
  <2>3. CASE t # tbl
    <3>1. RowsDone(t)' = RowsDone(t) /\ RowsDone(t) \in Int
      BY <2>1, <2>3, RowsDoneCases DEF RowsDone
    <3> QED
      BY <2>1, <2>2, <3>1, KeptVerified
  <2>4. CASE t = tbl
    <3>1. RowsDone(t) = n - 1 /\ RowsDone(t)' = n /\ n > 0 /\ cmd = RowCommand(t, n - 1)
      BY <2>1, <2>2, <2>4, RowsDoneCases DEF RowsDone, RowInHand
    <3>2. csv[t] # <<>>
      <4>1. Len(rows) <= Len(csv[t]) /\ Len(rows) \in Nat \ {0}
        BY <2>1, <2>2, <2>4, EmptySeq DEF InPlace, Typed, PlanType
      <4> QED
        BY <4>1
    <3>3. ASSUME NEW r \in 0..(n - 1) PROVE RowCommand(t, r) \in verified'
      <4>1. CASE r = n - 1
        BY <2>1, <3>1, <4>1
      <4>2. CASE r # n - 1
        <5>1. r \in 0..(RowsDone(t) - 1) /\ RowsDone(t) > 0
          BY <2>1, <3>1, <4>2
        <5> QED
          BY <2>1, <2>2, <5>1 DEF AllVerified
      <4> QED
        BY <4>1, <4>2
    <3> QED
      BY <2>1, <2>2, <3>1, <3>2, <3>3
  <2> QED
    BY <2>3, <2>4
<1>9. CASE phase \in {"tables", "parse", "rows", "done"} /\ UNCHANGED <<args, main, cmd, verified>>
  BY <1>9, VerifiedUnchanged DEF RowsDone, main
<1>10. \/ phase' \notin {"tables", "parse", "rows", "done"} \/ EncodingsSent
       \/ \E u \in Signals, file \in Files : StartTable(u, file)
       \/ ParseRow \/ (Parsed /\ phase' = "rows") \/ TableSent \/ Done \/ SendRow
       \/ (ReceiveReply /\ phase = "rows")
       \/ (phase \in {"tables", "parse", "rows", "done"} /\ UNCHANGED <<args, main, cmd, verified>>)
  <2>1. Halts => phase' \notin {"tables", "parse", "rows", "done"}
    BY DEF Halts, Stop
  <2>2. MessageSearched \/ SearchEnds \/ SendEncoding \/ (\E s \in Signals : Search(s)) =>
          phase' \notin {"tables", "parse", "rows", "done"}
    BY DEF MessageSearched, SearchEnds, SendEncoding, Search, Stop
  <2>3. Parsed => phase' \in {"rows", "panic"}
    BY DEF Parsed
  <2>4. ExchangeStep \/ OutsideStep =>
          ReceiveReply \/ UNCHANGED <<args, main, cmd, verified>>
    BY OutsideTyped DEF ExchangeStep, Write, Request, Retry, tool, exchange
  <2>5. ReceiveReply => phase' = phase /\ phase \in {"signals", "rows"}
    BY DEF ReceiveReply, Received, main, Typed, ExchangeType
  <2>6. UNCHANGED main => phase' = phase
    BY DEF main
  <2> QED
    BY <2>1, <2>2, <2>3, <2>4, <2>5, <2>6, StepCases DEF PlanStep
<1> QED
  BY <1>1, <1>2, <1>3, <1>4, <1>5, <1>6, <1>7, <1>8, <1>9, <1>10

-----------------------------------------------------------------------------
(* The exchange while nothing goes wrong                                   *)

LEMMA ShortQueues ==
  ASSUME NEW a, NEW b
  PROVE  /\ Append(<<a>>, b) = <<a, b>> /\ Append(<<>>, b) = <<b>>
         /\ Tail(<<a>>) = <<>> /\ Tail(<<a, b>>) = <<b>>
         /\ Head(<<a>>) = a /\ Head(<<a, b>>) = a
<1> DEFINE S == {a, b}
<1>1. <<>> \in Seq(S) /\ <<a>> \in Seq(S) /\ <<b>> \in Seq(S) /\ <<a, b>> \in Seq(S)
  OBVIOUS
<1>2. Append(<<a>>, b) = <<a, b>>
  <2>1. /\ Append(<<a>>, b) \in Seq(S) /\ Len(Append(<<a>>, b)) = 2
        /\ Append(<<a>>, b)[1] = a /\ Append(<<a>>, b)[2] = b
    BY <1>1, AppendProperties
  <2>2. \A i \in 1..2 : Append(<<a>>, b)[i] = <<a, b>>[i]
    BY <2>1
  <2> QED
    BY <1>1, <2>1, <2>2, SeqEqual
<1>3. Tail(<<a, b>>) = <<b>>
  <2>1. /\ Tail(<<a, b>>) \in Seq(S) /\ Len(Tail(<<a, b>>)) = 1 /\ Tail(<<a, b>>)[1] = b
    BY <1>1, HeadTailProperties
  <2>2. \A i \in 1..1 : Tail(<<a, b>>)[i] = <<b>>[i]
    BY <2>1
  <2> QED
    BY <1>1, <2>1, <2>2, SeqEqual
<1> QED
  BY <1>2, <1>3

LEMMA NoFault ==
  ASSUME Typed, faults' = 0, Next
  PROVE  /\ faults = 0
         /\ \/ Halts \/ PlanStep \/ ParseRow \/ (\E s \in Signals : Search(s))
            \/ SendEncoding \/ SendRow \/ ExchangeStep \/ DeviceStores \/ DeviceReplies
<1>1. OutsideStep => faults = 0 /\ (DeviceStores \/ DeviceReplies)
  BY DEF OutsideStep, DeviceStep, DeviceStores, DeviceReplies, DeviceFailsToStore,
     DeviceFailsToRead, LoseToDevice, LoseToTool, Foreign, Fault, Typed, OutsideType
<1>2. Halts \/ PlanStep \/ ParseRow \/ (\E s \in Signals : Search(s)) => faults = 0
  BY PlanStepExchange DEF Halts, outside
<1>3. SendEncoding \/ SendRow \/ ExchangeStep => faults = 0
  BY DEF SendEncoding, SendRow, outside, ExchangeStep, Write, Request, ReceiveReply, Retry
<1> QED
  BY <1>1, <1>2, <1>3, StepCases

\* The answer is the command's.
LEMMA AnswerTaken ==
  ASSUME Lockstep, faults = 0, stage = "receive", toTool # <<>>
  PROVE  /\ Head(toTool) = ReplyTo(cmd) /\ Tail(toTool) = <<>> /\ toDevice = <<>>
         /\ dev[cmd.slot] = cmd.content
         /\ Verify(Head(toTool))
<1>1. toDevice = <<>> /\ toTool = <<ReplyTo(cmd)>> /\ dev[cmd.slot] = cmd.content
  BY DEF Lockstep
<1>2. Head(toTool) = ReplyTo(cmd) /\ Tail(toTool) = <<>>
  BY <1>1
<1> QED
  BY <1>1, <1>2 DEF Verify, IsReply, ReplyTo

LEMMA StepLockstep == ASSUME Typed, Lockstep, Next PROVE Lockstep'
<1> SUFFICES ASSUME faults' = 0 PROVE Lockstep'
  BY DEF Lockstep
<1>0. faults = 0
  BY NoFault
<1>1. CASE Halts
  BY <1>1 DEF Halts, Stop, Lockstep, Ended
<1>2. CASE PlanStep \/ ParseRow \/ \E s \in Signals : Search(s)
  <2>1. ~Ended
    BY <1>2 DEF PlanStep, MessageSearched, SearchEnds, EncodingsSent, StartTable, Parsed, TableSent,
       Done, ParseRow, Search, Ended
  <2> QED
    BY <1>0, <1>2, <2>1, PlanStepExchange DEF Lockstep, outside
<1>3. CASE SendEncoding \/ SendRow
  <2>1. phase \in {"signals", "rows"} /\ stage = "none" /\ stage' = "write" /\ UNCHANGED outside
    BY <1>3 DEF SendEncoding, SendRow, Start, Typed, ExchangeType
  <2> QED
    BY <1>0, <2>1 DEF Lockstep, Ended, outside
<1>4. CASE Write
  <2>1. stage' = "request" /\ cmd' = cmd /\ toTool' = toTool /\ toTool = <<>> /\ toDevice = <<>>
    BY <1>0, <1>4 DEF Write, Lockstep
  <2>2. toDevice' = <<WriteOf(cmd)>>
    BY <1>4, <2>1 DEF Write, WriteOf
  <2> QED
    BY <2>1, <2>2 DEF Lockstep, WriteOf
<1>5. CASE Request
  <2>1. /\ stage' = "receive" /\ cmd' = cmd /\ toTool' = <<>> /\ dev' = dev
        /\ toDevice' = Append(toDevice, RequestOf(cmd))
        /\ toDevice = <<WriteOf(cmd)>> \/ (toDevice = <<>> /\ dev[cmd.slot] = cmd.content)
    BY <1>0, <1>5 DEF Request, RequestOf, Lockstep
  <2>2. Append(<<WriteOf(cmd)>>, RequestOf(cmd)) = <<WriteOf(cmd), RequestOf(cmd)>>
    BY ShortQueues
  <2>3. Append(<<>>, RequestOf(cmd)) = <<RequestOf(cmd)>>
    BY ShortQueues
  <2> QED
    BY <2>1, <2>2, <2>3 DEF Lockstep, WriteOf, RequestOf
<1>6. CASE ReceiveReply \/ Retry
  <2>1. stage = "receive" /\ toTool # <<>> /\ toTool' = Tail(toTool)
    BY <1>6 DEF ReceiveReply, Retry, Received
  <2>2. ~Retry
    BY <1>0, <2>1, AnswerTaken DEF Retry, Continue
  <2> QED
    BY <1>0, <1>6, <2>1, <2>2, AnswerTaken DEF ReceiveReply, Lockstep
<1>7. CASE DeviceStores
  <2>1. /\ UNCHANGED <<cmd, stage, phase, toTool>>
        /\ toDevice # <<>> /\ toDevice' = Tail(toDevice) /\ Head(toDevice).op = "write"
        /\ dev' = [dev EXCEPT ![Head(toDevice).slot] = Head(toDevice).content]
        /\ Head(toDevice).slot \in Slots
    BY <1>7, NextToHandle DEF DeviceStores, Handle, tool, main, exchange
  <2>2. CASE toDevice = <<WriteOf(cmd)>> \/ toDevice = <<WriteOf(cmd), RequestOf(cmd)>>
    <3>1. Head(toDevice) = WriteOf(cmd)
      BY <2>2
    <3>2. dev'[cmd.slot] = cmd.content
      BY <2>1, <3>1 DEF WriteOf, Typed, OutsideType
    <3>3. \/ toDevice = <<WriteOf(cmd)>> /\ toDevice' = <<>>
          \/ toDevice = <<WriteOf(cmd), RequestOf(cmd)>> /\ toDevice' = <<RequestOf(cmd)>>
      BY <2>1, <2>2, ShortQueues
    <3>4. stage = "request" => toDevice' = <<>>
      BY <1>0, <2>1, <3>3 DEF Lockstep
    <3>5. stage = "receive" => toDevice' = <<RequestOf(cmd)>> /\ toTool = <<>>
      BY <1>0, <2>1, <3>3 DEF Lockstep, RequestOf, WriteOf
    <3> QED
      BY <1>0, <2>1, <3>2, <3>4, <3>5 DEF Lockstep, RequestOf, Ended
  <2>3. CASE stage = "none" /\ Ended
    BY <2>1, <2>3 DEF Lockstep, Ended
  <2>4. toDevice = <<RequestOf(cmd)>> => FALSE
    BY <2>1 DEF RequestOf
  <2> QED
    BY <1>0, <2>1, <2>2, <2>3, <2>4 DEF Lockstep, Typed, ExchangeType
<1>8. CASE DeviceReplies
  <2>1. /\ UNCHANGED <<cmd, stage, phase, dev>>
        /\ toDevice # <<>> /\ toDevice' = Tail(toDevice) /\ Head(toDevice).op = "request"
        /\ toTool' = Append(toTool, [kind |-> "reply", slot |-> Head(toDevice).slot,
                                     content |-> dev[Head(toDevice).slot]])
    BY <1>8 DEF DeviceReplies, Handle, tool, main, exchange
  <2>2. CASE toDevice = <<RequestOf(cmd)>> /\ toTool = <<>> /\ dev[cmd.slot] = cmd.content
    <3>1. Head(toDevice) = RequestOf(cmd) /\ toDevice' = <<>>
      BY <2>1, <2>2
    <3>2. toTool' = <<ReplyTo(cmd)>>
      BY <2>1, <2>2, <3>1 DEF RequestOf, ReplyTo
    <3>3. stage # "request"
      BY <1>0, <2>2 DEF Lockstep, WriteOf, RequestOf
    <3> QED
      BY <1>0, <2>1, <2>2, <3>1, <3>2, <3>3 DEF Lockstep, ReplyTo, Ended
  <2>3. CASE stage = "none" /\ Ended
    BY <2>1, <2>3 DEF Lockstep, Ended
  <2>4. toDevice # <<WriteOf(cmd)>> /\ toDevice # <<WriteOf(cmd), RequestOf(cmd)>>
    BY <2>1 DEF WriteOf
  <2> QED
    BY <1>0, <2>1, <2>2, <2>3, <2>4 DEF Lockstep, Typed, ExchangeType
<1> QED
  BY <1>1, <1>2, <1>3, <1>4, <1>5, <1>6, <1>7, <1>8, NoFault DEF ExchangeStep

LEMMA StepUndisturbed == ASSUME Typed, Lockstep, Undisturbed, Next PROVE Undisturbed'
<1> SUFFICES ASSUME faults' = 0 PROVE Undisturbed'
  BY DEF Undisturbed
<1>0. /\ faults = 0
      /\ \A c \in verified :
           /\ dev[c.slot] = c.content /\ c.slot # cmd.slot
           /\ \A k \in 1..Len(toDevice) : toDevice[k].op = "write" => toDevice[k].slot # c.slot
  BY NoFault DEF Undisturbed
<1>1. \A c \in Commands : c.slot # NoCommand.slot /\ c.slot \in Slots
  BY NoCommandFacts DEF Commands
<1>2. verified \subseteq Commands
  BY DEF Typed, ExchangeType
<1>3. CASE Halts \/ PlanStep \/ ParseRow \/ \E s \in Signals : Search(s)
  <2>1. cmd' = NoCommand /\ UNCHANGED <<verified, dev, toDevice>>
    BY <1>3, PlanStepExchange DEF Halts, Stop, outside
  <2> QED
    BY <1>0, <1>1, <1>2, <2>1 DEF Undisturbed
<1>4. CASE SendEncoding \/ SendRow
  BY <1>0, <1>4 DEF SendEncoding, SendRow, Start, outside, Undisturbed
<1>5. CASE Write
  <2>1. toDevice' = Append(toDevice, WriteOf(cmd)) /\ WriteOf(cmd) \in WriteFrames
    BY <1>5 DEF Write, WriteOf, WriteFrames, Commands, Typed, ExchangeType
  <2>2. \A k \in 1..Len(toDevice') : \/ k \in 1..Len(toDevice) /\ toDevice'[k] = toDevice[k]
                                     \/ toDevice'[k] = WriteOf(cmd)
    BY <2>1, LongerQueue DEF Typed, OutsideType
  <2>3. \A c \in verified : WriteOf(cmd).slot # c.slot
    BY <1>0 DEF WriteOf
  <2> QED
    BY <1>0, <1>5, <2>2, <2>3 DEF Write, Undisturbed
<1>6. CASE Request
  <2>1. toDevice' = Append(toDevice, RequestOf(cmd)) /\ RequestOf(cmd) \in RequestFrames
    BY <1>6 DEF Request, RequestOf, RequestFrames, Commands, Typed, ExchangeType
  <2>2. \A k \in 1..Len(toDevice') : \/ k \in 1..Len(toDevice) /\ toDevice'[k] = toDevice[k]
                                     \/ toDevice'[k] = RequestOf(cmd)
    BY <2>1, LongerQueue DEF Typed, OutsideType
  <2> QED
    BY <1>0, <1>6, <2>2 DEF Request, RequestOf, Undisturbed
<1>7. CASE ReceiveReply
  <2>1. /\ verified' = verified \cup {cmd} /\ cmd' = NoCommand /\ UNCHANGED <<dev, toDevice>>
        /\ cmd \in Commands
    BY <1>7 DEF ReceiveReply, Received, Typed, ExchangeType
  <2>2. toDevice = <<>> /\ dev[cmd.slot] = cmd.content
    BY <1>0, <1>7, AnswerTaken DEF ReceiveReply, Received
  <2>3. Len(toDevice') = 0
    BY <2>1, <2>2
  <2> QED
    BY <1>0, <1>1, <1>2, <2>1, <2>2, <2>3 DEF Undisturbed
<1>8. CASE Retry
  BY <1>0, <1>8 DEF Retry, Undisturbed
<1>9. CASE DeviceStores \/ DeviceReplies
  <2>1. UNCHANGED <<cmd, verified>> /\ toDevice # <<>> /\ toDevice' = Tail(toDevice)
    BY <1>9 DEF DeviceStores, DeviceReplies, Handle, tool, exchange
  <2>2. \A k \in 1..Len(toDevice') : k + 1 \in 1..Len(toDevice) /\ toDevice'[k] = toDevice[k + 1]
    BY <2>1, ShorterQueue DEF Typed, OutsideType
  <2>3. ASSUME NEW c \in verified PROVE dev'[c.slot] = dev[c.slot]
    <3>1. CASE DeviceStores
      <4>1. Handle("write") /\ dev' = [dev EXCEPT ![Head(toDevice).slot] = Head(toDevice).content]
        BY <3>1 DEF DeviceStores
      <4>2. Head(toDevice) = toDevice[1] /\ Len(toDevice) \in Nat \ {0} /\ toDevice[1].op = "write"
        BY <4>1, NextToHandle
      <4>3. Head(toDevice).slot # c.slot /\ c.slot \in Slots
        BY <1>0, <1>1, <1>2, <4>2
      <4> QED
        BY <4>1, <4>3 DEF Typed, OutsideType
    <3>2. CASE DeviceReplies
      BY <3>2 DEF DeviceReplies
    <3> QED
      BY <1>9, <3>1, <3>2
  <2> QED
    BY <1>0, <2>1, <2>2, <2>3 DEF Undisturbed
<1> QED
  BY <1>3, <1>4, <1>5, <1>6, <1>7, <1>8, <1>9, NoFault DEF ExchangeStep

-----------------------------------------------------------------------------
(* Counting                                                                *)

\* Places of a queue whose head is gone.
LEMMA CountShifted ==
  ASSUME NEW S, IsFiniteSet(S), S \subseteq Int, NEW T, T \subseteq Int, \A k \in T : k + 1 \in S
  PROVE  /\ IsFiniteSet(T) /\ Cardinality(T) \in Nat /\ Cardinality(T) <= Cardinality(S)
         /\ Cardinality(S) \in Nat
<1> DEFINE f == [k \in T |-> k + 1]
<1>1. f \in Injection(T, S)
  BY DEF Injection, IsInjective
<1> QED
  BY <1>1, FS_Injection, FS_CardinalityType

LEMMA CountWithoutHead ==
  ASSUME NEW S, IsFiniteSet(S), S \subseteq Int, NEW T, T \subseteq Int, \A k \in T : k + 1 \in S,
         1 \in S, 0 \notin T
  PROVE  /\ IsFiniteSet(T) /\ Cardinality(T) \in Nat /\ Cardinality(T) <= Cardinality(S) - 1
         /\ Cardinality(S) \in Nat
<1> DEFINE R == S \ {1}
<1>1. IsFiniteSet(R) /\ Cardinality(R) = Cardinality(S) - 1
  BY FS_RemoveElement
<1>2. \A k \in T : k + 1 \in R
  <2> SUFFICES ASSUME NEW k \in T PROVE k + 1 # 1
    OBVIOUS
  <2> QED
    OBVIOUS
<1> HIDE DEF R
<1>3. R \subseteq Int
  BY DEF R
<1> QED
  BY <1>1, <1>2, <1>3, CountShifted, FS_CardinalityType

LEMMA CountOneMore ==
  ASSUME NEW S, IsFiniteSet(S), NEW x, NEW T, T \subseteq S \cup {x}
  PROVE  /\ IsFiniteSet(T) /\ Cardinality(T) \in Nat /\ Cardinality(T) <= Cardinality(S) + 1
         /\ Cardinality(S) \in Nat
<1>0. Cardinality(S) \in Nat
  BY FS_CardinalityType
<1>1. IsFiniteSet(S \cup {x}) /\ Cardinality(S \cup {x}) <= Cardinality(S) + 1
  <2>1. /\ IsFiniteSet(S \cup {x})
        /\ Cardinality(S \cup {x}) = IF x \in S THEN Cardinality(S) ELSE Cardinality(S) + 1
    BY FS_AddElement
  <2> QED
    BY <1>0, <2>1
<1> QED
  BY <1>1, FS_Subset, FS_CardinalityType

LEMMA CountPart ==
  ASSUME NEW S, IsFiniteSet(S), NEW T, T \subseteq S
  PROVE  /\ IsFiniteSet(T) /\ Cardinality(T) \in Nat /\ Cardinality(T) <= Cardinality(S)
         /\ Cardinality(S) \in Nat
BY FS_Subset, FS_CardinalityType

LEMMA Countable ==
  ASSUME Typed
  PROVE  /\ Len(toTool) \in Nat /\ Len(toDevice) \in Nat /\ faults \in Nat /\ retry \in Nat
         /\ IsFiniteSet(Requests) /\ Requests \subseteq Int /\ Cardinality(Requests) \in Nat
         /\ IsFiniteSet(Useless) /\ Useless \subseteq Int
         /\ Cardinality(Useless) \in Nat /\ Cardinality(Useless) <= Len(toTool)
         /\ IsFiniteSet(Unprepared) /\ Unprepared \subseteq Int
         /\ Cardinality(Unprepared) \in Nat /\ Cardinality(Unprepared) <= Cardinality(Requests)
         /\ Owed \in {0, 1}
<1>1. Len(toTool) \in Nat /\ Len(toDevice) \in Nat /\ faults \in Nat /\ retry \in Nat
  BY DEF Typed, OutsideType, ExchangeType
<1>2. /\ IsFiniteSet(1..Len(toTool)) /\ Cardinality(1..Len(toTool)) = Len(toTool)
      /\ IsFiniteSet(1..Len(toDevice))
  <2>1. \A m \in Nat : IsFiniteSet(1..m) /\ Cardinality(1..m) = m
    <3> TAKE m \in Nat
    <3>1. 1 \in Int /\ m \in Int
      OBVIOUS
    <3>2. IsFiniteSet(1..m) /\ Cardinality(1..m) = IF 1 > m THEN 0 ELSE m - 1 + 1
      BY <3>1, FS_Interval
    <3> QED
      BY <3>2
  <2> QED
    BY <1>1, <2>1
<1>3. Requests \subseteq 1..Len(toDevice) /\ Useless \subseteq 1..Len(toTool)
  BY DEF Requests, Useless
<1>4. Unprepared \subseteq Requests
  BY DEF Unprepared
<1>5. IsFiniteSet(Requests) /\ Cardinality(Requests) \in Nat
  BY <1>2, <1>3, CountPart
<1>6. IsFiniteSet(Useless) /\ Cardinality(Useless) \in Nat /\ Cardinality(Useless) <= Len(toTool)
  BY <1>2, <1>3, CountPart
<1>7. /\ IsFiniteSet(Unprepared) /\ Cardinality(Unprepared) \in Nat
      /\ Cardinality(Unprepared) <= Cardinality(Requests)
  BY <1>4, <1>5, CountPart
<1>8. Owed \in {0, 1}
  BY DEF Owed
<1> QED
  BY <1>1, <1>3, <1>4, <1>5, <1>6, <1>7, <1>8

LEMMA RequestHandled ==
  ASSUME Typed, toDevice # <<>>, toDevice' = Tail(toDevice)
  PROVE  /\ Cardinality(Requests') \in Nat
         /\ Cardinality(Requests') <= Cardinality(Requests)
         /\ toDevice[1].op = "request" => Cardinality(Requests') <= Cardinality(Requests) - 1
<1>1. \A k \in 1..Len(toDevice') : k + 1 \in 1..Len(toDevice) /\ toDevice'[k] = toDevice[k + 1]
  BY ShorterQueue DEF Typed, OutsideType
<1>2. /\ Requests' \subseteq Int /\ 0 \notin Requests'
      /\ \A k \in Requests' : k + 1 \in Requests
  BY <1>1 DEF Requests
<1>3. toDevice[1].op = "request" => 1 \in Requests
  BY EmptySeq DEF Requests, Typed, OutsideType
<1>4. Cardinality(Requests') \in Nat /\ Cardinality(Requests') <= Cardinality(Requests)
  BY <1>2, Countable, CountShifted
<1>5. toDevice[1].op = "request" => Cardinality(Requests') <= Cardinality(Requests) - 1
  BY <1>2, <1>3, Countable, CountWithoutHead
<1> QED
  BY <1>4, <1>5

LEMMA AnswerRead ==
  ASSUME Typed, toTool # <<>>, toTool' = Tail(toTool), cmd' = cmd
  PROVE  /\ Cardinality(Useless') \in Nat
         /\ Cardinality(Useless') <= Cardinality(Useless)
         /\ ~Verify(Head(toTool)) => Cardinality(Useless') <= Cardinality(Useless) - 1
<1>1. \A k \in 1..Len(toTool') : k + 1 \in 1..Len(toTool) /\ toTool'[k] = toTool[k + 1]
  BY ShorterQueue DEF Typed, OutsideType
<1>2. /\ Useless' \subseteq Int /\ 0 \notin Useless'
      /\ \A k \in Useless' : k + 1 \in Useless
  BY <1>1 DEF Useless, Verify, IsReply
<1>3. ~Verify(Head(toTool)) => 1 \in Useless
  <2>1. Head(toTool) = toTool[1] /\ 1 \in 1..Len(toTool)
    BY EmptySeq DEF Typed, OutsideType
  <2> QED
    BY <2>1 DEF Useless
<1>4. Cardinality(Useless') \in Nat /\ Cardinality(Useless') <= Cardinality(Useless)
  BY <1>2, Countable, CountShifted
<1>5. ~Verify(Head(toTool)) => Cardinality(Useless') <= Cardinality(Useless) - 1
  BY <1>2, <1>3, Countable, CountWithoutHead
<1> QED
  BY <1>4, <1>5

LEMMA AnswerAdded ==
  ASSUME Typed, NEW frame \in Frames, toTool' = Append(toTool, frame), cmd' = cmd
  PROVE  /\ Cardinality(Useless') \in Nat
         /\ Cardinality(Useless') <= Cardinality(Useless) + 1
         /\ Verify(frame) => Cardinality(Useless') <= Cardinality(Useless)
         /\ Len(toTool') = Len(toTool) + 1
<1>1. /\ Len(toTool') = Len(toTool) + 1
      /\ \A k \in 1..Len(toTool') : \/ k \in 1..Len(toTool) /\ toTool'[k] = toTool[k]
                                    \/ k = Len(toTool) + 1 /\ toTool'[k] = frame
  BY LongerQueue, AppendProperties DEF Typed, OutsideType
<1>2. /\ Useless' \subseteq Useless \cup {Len(toTool) + 1}
      /\ Verify(frame) => Useless' \subseteq Useless
  BY <1>1 DEF Useless, Verify, IsReply
<1>3. Cardinality(Useless') \in Nat /\ Cardinality(Useless') <= Cardinality(Useless) + 1
  BY <1>2, Countable, CountOneMore
<1>4. Verify(frame) => Cardinality(Useless') <= Cardinality(Useless)
  BY <1>2, Countable, CountPart
<1> QED
  BY <1>1, <1>3, <1>4

-----------------------------------------------------------------------------
(* Answers to come                                                         *)

LEMMA RequestAdded ==
  ASSUME Typed, NEW frame \in WriteFrames \cup RequestFrames, toDevice' = Append(toDevice, frame)
  PROVE  /\ Cardinality(Requests') \in Nat
         /\ Cardinality(Requests') <= Cardinality(Requests) + 1
         /\ frame.op = "write" => Cardinality(Requests') <= Cardinality(Requests)
<1>1. \A k \in 1..Len(toDevice') : \/ k \in 1..Len(toDevice) /\ toDevice'[k] = toDevice[k]
                                   \/ k = Len(toDevice) + 1 /\ toDevice'[k] = frame
  BY LongerQueue DEF Typed, OutsideType
<1>2. /\ Requests' \subseteq Requests \cup {Len(toDevice) + 1}
      /\ frame.op = "write" => Requests' \subseteq Requests
  BY <1>1 DEF Requests
<1>3. Cardinality(Requests') \in Nat /\ Cardinality(Requests') <= Cardinality(Requests) + 1
  BY <1>2, Countable, CountOneMore
<1>4. frame.op = "write" => Cardinality(Requests') <= Cardinality(Requests)
  BY <1>2, Countable, CountPart
<1> QED
  BY <1>3, <1>4

LEMMA FrameSent ==
  ASSUME Typed, cmd \in Commands
  PROVE  WriteOf(cmd) \in WriteFrames /\ RequestOf(cmd) \in RequestFrames
BY DEF WriteOf, WriteFrames, RequestOf, RequestFrames, Commands

LEMMA FrameTaken ==
  ASSUME Typed, toTool # <<>>, toTool' = Tail(toTool)
  PROVE  Len(toTool') \in Nat /\ Len(toTool') = Len(toTool) - 1 /\ Head(toTool) \in Frames
BY HeadTailProperties DEF Typed, OutsideType

LEMMA StepSurplus == ASSUME Typed, Surplus, Next PROVE Surplus'
<1> SUFFICES ASSUME ~Ended' PROVE Surplus'
  BY DEF Surplus
<1> DEFINE due == IF stage = "receive" THEN 1 ELSE 0
           R == Cardinality(Requests)
<1>0. R \in Nat /\ Len(toTool) \in Nat /\ faults \in Nat
  BY Countable
<1>1. CASE Halts
  BY <1>1 DEF Halts, Stop, Ended
<1>2. CASE PlanStep \/ ParseRow \/ \E s \in Signals : Search(s)
  <2>1. ~Ended
    BY <1>2 DEF PlanStep, MessageSearched, SearchEnds, EncodingsSent, StartTable, Parsed, TableSent,
       Done, ParseRow, Search, Ended
  <2>2. stage = "none" /\ stage' = "none" /\ UNCHANGED outside
    BY <1>2, PlanStepExchange
  <2> QED
    BY <2>1, <2>2 DEF Surplus, Requests, outside
<1>3. CASE SendEncoding \/ SendRow
  <2>1. phase \in {"signals", "rows"} /\ stage = "none" /\ stage' = "write" /\ UNCHANGED outside
    BY <1>3 DEF SendEncoding, SendRow, Start, Typed, ExchangeType
  <2> QED
    BY <2>1 DEF Surplus, Requests, Ended, outside
<1>4. CASE Write \/ Request \/ ReceiveReply \/ Retry
  <2>0. ~Ended /\ cmd \in Commands
    BY <1>4 DEF Write, Request, ReceiveReply, Retry, Received, Typed, ExchangeType, Ended
  <2>1. Len(toTool) + R <= faults + due
    BY <2>0 DEF Surplus
  <2>2. CASE Write
    <3>1. /\ stage = "write" /\ stage' = "request" /\ UNCHANGED <<toTool, faults>>
          /\ toDevice' = Append(toDevice, WriteOf(cmd))
      BY <2>2 DEF Write, WriteOf
    <3>2. WriteOf(cmd) \in WriteFrames /\ WriteOf(cmd).op = "write"
      BY <2>0, FrameSent DEF WriteOf
    <3>3. Cardinality(Requests') \in Nat /\ Cardinality(Requests') <= R
      BY <3>1, <3>2, RequestAdded
    <3> QED
      BY <1>0, <2>1, <3>1, <3>3 DEF Surplus
  <2>3. CASE Request
    <3>1. /\ stage = "request" /\ stage' = "receive" /\ UNCHANGED <<toTool, faults>>
          /\ toDevice' = Append(toDevice, RequestOf(cmd))
      BY <2>3 DEF Request, RequestOf
    <3>2. Cardinality(Requests') \in Nat /\ Cardinality(Requests') <= R + 1
      BY <2>0, <3>1, FrameSent, RequestAdded
    <3> QED
      BY <1>0, <2>1, <3>1, <3>2 DEF Surplus
  <2>4. CASE ReceiveReply \/ Retry
    <3>1. /\ stage = "receive" /\ stage' \in {"none", "write"} /\ UNCHANGED <<toDevice, faults>>
          /\ toTool # <<>> /\ toTool' = Tail(toTool)
      BY <2>4 DEF ReceiveReply, Retry, Received
    <3>2. Len(toTool') \in Nat /\ Len(toTool') = Len(toTool) - 1
      BY <3>1, FrameTaken
    <3>3. Requests' = Requests
      BY <3>1 DEF Requests
    <3> QED
      BY <1>0, <2>1, <3>1, <3>2, <3>3 DEF Surplus
  <2> QED
    BY <1>4, <2>2, <2>3, <2>4
<1>5. CASE OutsideStep
  <2>0. UNCHANGED tool
    BY <1>5, OutsideTyped
  <2>1. ~Ended /\ stage' = stage
    BY <2>0 DEF Ended, tool, main, exchange
  <2>2. Len(toTool) + R <= faults + due
    BY <2>1 DEF Surplus
  <2>3. CASE \/ DeviceStores \/ DeviceFailsToStore \/ DeviceReplies \/ DeviceFailsToRead
             \/ LoseToDevice
    <3>1. toDevice # <<>> /\ toDevice' = Tail(toDevice)
      BY <2>3 DEF DeviceStores, DeviceFailsToStore, DeviceReplies, DeviceFailsToRead, LoseToDevice,
         Handle
    <3>2. /\ Cardinality(Requests') \in Nat /\ Cardinality(Requests') <= R
          /\ toDevice[1].op = "request" => Cardinality(Requests') <= R - 1
      BY <3>1, RequestHandled
    <3>3. /\ DeviceReplies \/ DeviceFailsToRead => toDevice[1].op = "request"
          /\ DeviceFailsToStore \/ DeviceFailsToRead \/ LoseToDevice => faults' = faults + 1
          /\ DeviceReplies \/ DeviceStores => faults' = faults
      BY NextToHandle DEF DeviceFailsToStore, DeviceStores, DeviceReplies, DeviceFailsToRead,
         LoseToDevice, Fault
    <3>4. /\ DeviceFailsToStore \/ DeviceReplies \/ DeviceFailsToRead =>
               \E frame : toTool' = Append(toTool, frame)
          /\ DeviceStores \/ LoseToDevice => toTool' = toTool
      BY DEF DeviceFailsToStore, DeviceStores, DeviceReplies, DeviceFailsToRead, LoseToDevice
    <3>5. DeviceFailsToStore \/ DeviceReplies \/ DeviceFailsToRead => Len(toTool') = Len(toTool) + 1
      BY <3>4, AppendProperties DEF Typed, OutsideType
    <3>6. CASE DeviceStores
      BY <1>0, <2>1, <2>2, <3>2, <3>3, <3>4, <3>6 DEF Surplus
    <3>7. CASE LoseToDevice
      BY <1>0, <2>1, <2>2, <3>2, <3>3, <3>4, <3>7 DEF Surplus
    <3>8. CASE DeviceFailsToStore
      BY <1>0, <2>1, <2>2, <3>2, <3>3, <3>5, <3>8 DEF Surplus
    <3>9. CASE DeviceReplies
      BY <1>0, <2>1, <2>2, <3>2, <3>3, <3>5, <3>9 DEF Surplus
    <3>10. CASE DeviceFailsToRead
      BY <1>0, <2>1, <2>2, <3>2, <3>3, <3>5, <3>10 DEF Surplus
    <3> QED
      BY <2>3, <3>6, <3>7, <3>8, <3>9, <3>10
  <2>4. CASE LoseToTool \/ Foreign
    <3>1. toDevice' = toDevice /\ faults' = faults + 1
      BY <2>4 DEF LoseToTool, Foreign, Fault
    <3>2. Requests' = Requests
      BY <3>1 DEF Requests
    <3>3. Len(toTool') \in Nat /\ Len(toTool') <= Len(toTool) + 1
      <4>1. CASE LoseToTool
        BY <1>0, <4>1, FrameTaken DEF LoseToTool
      <4>2. CASE Foreign
        <5>1. PICK frame \in {Other, Malformed} : toTool' = Append(toTool, frame)
          BY <4>2 DEF Foreign
        <5> QED
          BY <1>0, <5>1, AppendProperties DEF Typed, OutsideType
      <4> QED
        BY <2>4, <4>1, <4>2
    <3> QED
      BY <1>0, <2>1, <2>2, <3>1, <3>2, <3>3 DEF Surplus
  <2> QED
    BY <1>5, <2>3, <2>4 DEF OutsideStep, DeviceStep
<1> QED
  BY <1>1, <1>2, <1>3, <1>4, <1>5, StepCases DEF ExchangeStep

-----------------------------------------------------------------------------
(* Answers that the command may not take                                   *)

\* What is counted, as numbers.
LEMMA Counts ==
  ASSUME Typed
  PROVE  /\ faults \in Nat /\ retry \in Nat /\ Len(toDevice) \in Nat
         /\ Cardinality(Useless) \in Nat /\ Cardinality(Unprepared) \in Nat /\ Owed \in {0, 1}
BY Countable

\* The frame ahead of the k-th is the same one after the head is gone.
LEMMA PreparedShifted ==
  ASSUME Typed, toDevice # <<>>, toDevice' = Tail(toDevice), cmd' = cmd,
         NEW k \in 1..Len(toDevice)
  PROVE  /\ k > 1 => (Prepared(k)' <=> Prepared(k + 1))
         /\ k = 1 => (Prepared(k)' <=> dev'[cmd.slot] = cmd.content)
         /\ k = 1 => (Prepared(k + 1) <=> toDevice[1] = WriteOf(cmd))
<1>1. Len(toDevice) \in Nat /\ Len(toDevice') = Len(toDevice) - 1
  BY HeadTailProperties DEF Typed, OutsideType
<1>2. CASE k = 1
  BY <1>2 DEF Prepared
<1>3. CASE k > 1
  <2>1. k - 1 \in 1..Len(toDevice') /\ k + 1 # 1 /\ k # 1 /\ (k + 1) - 1 = k /\ (k - 1) + 1 = k
    BY <1>1, <1>3
  <2>2. toDevice'[k - 1] = toDevice[k]
    BY <2>1, ShorterQueue DEF Typed, OutsideType
  <2>3. WriteOf(cmd)' = WriteOf(cmd)
    BY DEF WriteOf
  <2> QED
    BY <2>1, <2>2, <2>3, <1>3 DEF Prepared
<1> QED
  BY <1>2, <1>3

\* The head is gone and has prepared nothing, or prepared what it should.
LEMMA UnpreparedShifted ==
  ASSUME Typed, toDevice # <<>>, toDevice' = Tail(toDevice), UNCHANGED <<cmd, stage>>,
         toDevice[1] = WriteOf(cmd) => dev'[cmd.slot] = cmd.content
  PROVE  /\ Cardinality(Unprepared') \in Nat
         /\ Cardinality(Unprepared') <= Cardinality(Unprepared)
         /\ 1 \in Unprepared => Cardinality(Unprepared') <= Cardinality(Unprepared) - 1
         /\ Owed' \in {0, 1} /\ Owed' <= Owed
<1>1. \A k \in 1..Len(toDevice') : k + 1 \in 1..Len(toDevice) /\ toDevice'[k] = toDevice[k + 1]
  BY ShorterQueue DEF Typed, OutsideType
<1>2. Len(toDevice) \in Nat \ {0} /\ Len(toDevice') = Len(toDevice) - 1
  BY HeadTailProperties, EmptySeq DEF Typed, OutsideType
<1>3. ASSUME NEW k \in 1..Len(toDevice), Prepared(k + 1) PROVE Prepared(k)'
  BY <1>3, PreparedShifted
<1>4. /\ Unprepared' \subseteq Int /\ 0 \notin Unprepared'
      /\ \A k \in Unprepared' : k + 1 \in Unprepared
  <2>1. \A k \in Unprepared' : /\ k \in 1..Len(toDevice') /\ k \in 1..Len(toDevice)
                               /\ toDevice'[k].op = "request"
                               /\ toDevice'[k].slot # cmd.slot \/ ~Prepared(k)'
    BY <1>2 DEF Unprepared, Requests
  <2>2. \A k \in Unprepared' : k + 1 \in Unprepared
    BY <1>1, <1>3, <2>1 DEF Unprepared, Requests
  <2> QED
    BY <2>1, <2>2
<1>5. Cardinality(Unprepared') \in Nat /\ Cardinality(Unprepared') <= Cardinality(Unprepared)
  BY <1>4, Countable, CountShifted
<1>6. 1 \in Unprepared => Cardinality(Unprepared') <= Cardinality(Unprepared) - 1
  BY <1>4, Countable, CountWithoutHead
<1>7. Owed' \in {0, 1} /\ Owed' <= Owed
  <2>1. PICK m : m = Len(toDevice)
    OBVIOUS
  <2>2. m \in 1..Len(toDevice) /\ Len(toDevice') + 1 = m /\ Len(toDevice) + 1 = m + 1
    BY <1>2, <2>1
  <2>3. Owed' = IF stage = "request" /\ ~Prepared(m)' THEN 1 ELSE 0
    BY <2>2 DEF Owed, Prepared
  <2>4. Owed = IF stage = "request" /\ ~Prepared(m + 1) THEN 1 ELSE 0
    BY <2>2 DEF Owed
  <2> QED
    BY <1>3, <2>2, <2>3, <2>4
<1> QED
  BY <1>5, <1>6, <1>7

\* The head is gone without its effect: one request is not prepared any more.
LEMMA UnpreparedLeft ==
  ASSUME Typed, toDevice # <<>>, toDevice' = Tail(toDevice), UNCHANGED <<cmd, stage>>
  PROVE  /\ Cardinality(Unprepared') \in Nat /\ Owed' \in {0, 1}
         /\ Cardinality(Unprepared') + Owed' <= Cardinality(Unprepared) + Owed + 1
<1>1. \A k \in 1..Len(toDevice') : k + 1 \in 1..Len(toDevice) /\ toDevice'[k] = toDevice[k + 1]
  BY ShorterQueue DEF Typed, OutsideType
<1>2. Len(toDevice) \in Nat \ {0} /\ Len(toDevice') = Len(toDevice) - 1
  BY HeadTailProperties, EmptySeq DEF Typed, OutsideType
<1> DEFINE T == Unprepared' \ {1}
<1>3. Unprepared' \subseteq 1..Len(toDevice')
  BY DEF Unprepared, Requests
<1>4. T \subseteq Int /\ \A k \in T : k + 1 \in Unprepared
  <2>1. \A k \in T : /\ k \in 1..Len(toDevice') /\ k \in 1..Len(toDevice) /\ k > 1
                     /\ toDevice'[k].op = "request"
                     /\ toDevice'[k].slot # cmd.slot \/ ~Prepared(k)'
    BY <1>2 DEF Unprepared, Requests
  <2>2. \A k \in T : k + 1 \in Unprepared
    BY <1>1, <2>1, PreparedShifted DEF Unprepared, Requests
  <2> QED
    BY <2>1, <2>2
<1>5. Unprepared' \subseteq T \cup {1}
  OBVIOUS
<1> HIDE DEF T
<1>6. IsFiniteSet(T) /\ Cardinality(T) \in Nat /\ Cardinality(T) <= Cardinality(Unprepared)
  BY <1>4, Countable, CountShifted
<1>7. Cardinality(Unprepared') \in Nat /\ Cardinality(Unprepared') <= Cardinality(T) + 1
  BY <1>5, <1>6, CountOneMore
<1>8. Owed' \in {0, 1} /\ Owed \in {0, 1} /\ Cardinality(Unprepared) \in Nat
  BY Countable DEF Owed
<1>9. CASE Len(toDevice') = 0
  <2>1. Unprepared' = {}
    <3>1. \A m : m = 0 => 1..m = {}
      OBVIOUS
    <3>2. 1..Len(toDevice') = {}
      BY <1>9, <3>1
    <3> QED
      BY <1>3, <3>2
  <2>2. Cardinality(Unprepared') = 0
    BY <2>1, FS_EmptySet
  <2> QED
    BY <1>8, <2>2
<1>10. CASE Len(toDevice') # 0
  <2>1. PICK m : m = Len(toDevice)
    OBVIOUS
  <2>2. m \in 1..Len(toDevice) /\ m > 1 /\ Len(toDevice') + 1 = m /\ Len(toDevice) + 1 = m + 1
    BY <1>2, <1>10, <2>1
  <2>3. Owed' = IF stage = "request" /\ ~Prepared(m)' THEN 1 ELSE 0
    BY <2>2 DEF Owed, Prepared
  <2>4. Owed = IF stage = "request" /\ ~Prepared(m + 1) THEN 1 ELSE 0
    BY <2>2 DEF Owed
  <2>5. Owed' = Owed
    BY <2>2, <2>3, <2>4, PreparedShifted
  <2> QED
    BY <1>6, <1>7, <1>8, <2>5
<1> QED
  BY <1>7, <1>8, <1>9, <1>10

LEMMA DeviceAccounted ==
  ASSUME Typed, Accounted, OutsideStep, stage # "none"
  PROVE  Accounted'
<1> DEFINE L == Cardinality(Useless)
           U == Cardinality(Unprepared)
<1>0. /\ faults \in Nat /\ retry \in Nat /\ L \in Nat /\ U \in Nat /\ Owed \in {0, 1}
      /\ retry + L + U + Owed <= 2 * faults
  BY Counts DEF Accounted
<1>1. UNCHANGED tool
  BY OutsideTyped
<1>2. UNCHANGED <<cmd, stage, retry>> /\ UNCHANGED exchange
  BY <1>1 DEF tool, exchange
<1>3. toTool' = toTool => Useless' = Useless
  BY <1>2 DEF Useless, Verify, IsReply
<1>4. toDevice' = toDevice /\ dev' = dev => Unprepared' = Unprepared /\ Owed' = Owed
  BY <1>2 DEF Unprepared, Requests, Owed, Prepared, WriteOf
<1>5. CASE DeviceStores
  <2>1. /\ toDevice # <<>> /\ toDevice' = Tail(toDevice) /\ UNCHANGED <<toTool, faults>>
        /\ toDevice[1] = WriteOf(cmd) => dev'[cmd.slot] = cmd.content
    <3>1. Handle("write") /\ dev' = [dev EXCEPT ![Head(toDevice).slot] = Head(toDevice).content]
      BY <1>5 DEF DeviceStores
    <3>2. Head(toDevice) = toDevice[1] /\ toDevice[1].slot \in Slots
      BY <3>1, NextToHandle
    <3>3. dev'[toDevice[1].slot] = toDevice[1].content
      BY <3>1, <3>2 DEF Typed, OutsideType
    <3> QED
      BY <1>5, <3>3 DEF DeviceStores, Handle, WriteOf
  <2>2. /\ Cardinality(Unprepared') \in Nat /\ Cardinality(Unprepared') <= U
        /\ Owed' \in {0, 1} /\ Owed' <= Owed
    BY <1>2, <2>1, UnpreparedShifted
  <2> QED
    BY <1>0, <1>2, <1>3, <2>1, <2>2 DEF Accounted
<1>6. CASE DeviceReplies
  <2>1. /\ toDevice # <<>> /\ toDevice' = Tail(toDevice) /\ UNCHANGED <<dev, faults>>
        /\ toDevice[1].op = "request" /\ toDevice[1].slot \in Slots
        /\ 1 \in 1..Len(toDevice) /\ Head(toDevice) = toDevice[1]
    <3>1. Handle("request") /\ UNCHANGED <<dev, faults>>
      BY <1>6 DEF DeviceReplies
    <3> QED
      BY <3>1, NextToHandle DEF Handle
  <2> DEFINE answer == [kind |-> "reply", slot |-> toDevice[1].slot,
                        content |-> dev[toDevice[1].slot]]
  <2>2. toTool' = Append(toTool, answer)
    BY <1>6, <2>1 DEF DeviceReplies
  <2>3. answer \in Frames
    BY <2>1 DEF Frames, Replies, Typed, OutsideType
  <2>4. toDevice[1] # WriteOf(cmd)
    BY <2>1 DEF WriteOf
  <2>5. /\ Cardinality(Unprepared') \in Nat /\ Cardinality(Unprepared') <= U
        /\ 1 \in Unprepared => Cardinality(Unprepared') <= U - 1
        /\ Owed' \in {0, 1} /\ Owed' <= Owed
    BY <1>2, <2>1, <2>4, UnpreparedShifted
  <2>6. 1 \notin Unprepared => Verify(answer)
    <3>1. 1 \notin Unprepared => toDevice[1].slot = cmd.slot /\ dev[cmd.slot] = cmd.content
      BY <2>1 DEF Unprepared, Requests, Prepared
    <3> QED
      BY <3>1 DEF Verify, IsReply
  <2> HIDE DEF answer
  <2>7. /\ Cardinality(Useless') \in Nat /\ Cardinality(Useless') <= L + 1
        /\ Verify(answer) => Cardinality(Useless') <= L
    BY <1>2, <2>2, <2>3, AnswerAdded
  <2>8. CASE 1 \in Unprepared
    BY <1>0, <1>2, <2>1, <2>5, <2>7, <2>8 DEF Accounted
  <2>9. CASE 1 \notin Unprepared
    BY <1>0, <1>2, <2>1, <2>5, <2>6, <2>7, <2>9 DEF Accounted
  <2> QED
    BY <2>8, <2>9
<1>7. CASE DeviceFailsToStore \/ DeviceFailsToRead \/ LoseToDevice
  <2>1. toDevice # <<>> /\ toDevice' = Tail(toDevice) /\ faults' = faults + 1
    BY <1>7 DEF DeviceFailsToStore, DeviceFailsToRead, LoseToDevice, Handle, Fault
  <2>2. toTool' = toTool \/ toTool' = Append(toTool, Other)
    BY <1>7 DEF DeviceFailsToStore, DeviceFailsToRead, LoseToDevice
  <2>3. Cardinality(Useless') \in Nat /\ Cardinality(Useless') <= L + 1
    <3>1. Other \in Frames
      BY DEF Frames
    <3>2. CASE toTool' = Append(toTool, Other)
      BY <1>2, <3>1, <3>2, AnswerAdded
    <3>3. CASE toTool' = toTool
      BY <1>0, <1>3, <3>3
    <3> QED
      BY <2>2, <3>2, <3>3
  <2>4. /\ Cardinality(Unprepared') \in Nat /\ Owed' \in {0, 1}
        /\ Cardinality(Unprepared') + Owed' <= U + Owed + 1
    BY <1>2, <2>1, UnpreparedLeft
  <2> QED
    BY <1>0, <1>2, <2>1, <2>3, <2>4 DEF Accounted
<1>8. CASE LoseToTool \/ Foreign
  <2>1. UNCHANGED <<toDevice, dev>> /\ faults' = faults + 1
    BY <1>8 DEF LoseToTool, Foreign, Fault
  <2>2. Cardinality(Useless') \in Nat /\ Cardinality(Useless') <= L + 1
    <3>1. CASE LoseToTool
      BY <1>0, <1>2, <3>1, AnswerRead DEF LoseToTool
    <3>2. CASE Foreign
      <4>1. PICK frame \in {Other, Malformed} : toTool' = Append(toTool, frame)
        BY <3>2 DEF Foreign
      <4>2. frame \in Frames
        BY DEF Frames
      <4> QED
        BY <1>2, <4>1, <4>2, AnswerAdded
    <3> QED
      BY <1>8, <3>1, <3>2
  <2> QED
    BY <1>0, <1>2, <1>4, <2>1, <2>2 DEF Accounted
<1> QED
  BY <1>5, <1>6, <1>7, <1>8 DEF OutsideStep, DeviceStep

LEMMA StepAccounted == ASSUME Typed, Surplus, Accounted, Next PROVE Accounted'
<1> SUFFICES ASSUME stage' # "none" PROVE Accounted'
  BY DEF Accounted
<1> DEFINE L == Cardinality(Useless)
           U == Cardinality(Unprepared)
<1>0. /\ faults \in Nat /\ retry \in Nat /\ L \in Nat /\ U \in Nat /\ Owed \in {0, 1}
      /\ Len(toDevice) \in Nat
      /\ stage # "none" => retry + L + U + Owed <= 2 * faults
  BY Counts DEF Accounted
<1>1. CASE SendEncoding \/ SendRow
  <2>1. /\ phase \in {"signals", "rows"} /\ stage = "none" /\ stage' = "write" /\ retry' = 0
        /\ UNCHANGED outside
    BY <1>1 DEF SendEncoding, SendRow, Start, Typed, ExchangeType
  <2>2. Len(toTool) + Cardinality(Requests) <= faults
    BY <2>1, Countable DEF Surplus, Ended
  <2>3. Useless' \subseteq 1..Len(toTool) /\ Unprepared' \subseteq Requests
    BY <2>1 DEF Useless, Unprepared, Requests, outside
  <2>4. IsFiniteSet(1..Len(toTool)) /\ Cardinality(1..Len(toTool)) = Len(toTool)
    <3>1. Len(toTool) \in Nat /\ 1 \in Int
      BY Countable
    <3>2. Len(toTool) \in Int
      BY <3>1
    <3>3. IsFiniteSet(1..Len(toTool))
          /\ Cardinality(1..Len(toTool)) = IF 1 > Len(toTool) THEN 0 ELSE Len(toTool) - 1 + 1
      BY <3>1, <3>2, FS_Interval
    <3> QED
      BY <3>1, <3>3
  <2>5. Cardinality(Useless') \in Nat /\ Cardinality(Useless') <= Len(toTool)
    BY <2>3, <2>4, CountPart
  <2>6. Cardinality(Unprepared') \in Nat /\ Cardinality(Unprepared') <= Cardinality(Requests)
    BY <2>3, Countable, CountPart
  <2>7. Owed' = 0
    BY <2>1 DEF Owed
  <2>8. Len(toTool) \in Nat /\ Cardinality(Requests) \in Nat
    BY Countable
  <2> QED
    BY <1>0, <2>1, <2>2, <2>5, <2>6, <2>7, <2>8 DEF Accounted, outside
<1>2. CASE Write
  <2>1. /\ stage = "write" /\ stage' = "request" /\ UNCHANGED <<cmd, retry, toTool, dev, faults>>
        /\ toDevice' = Append(toDevice, WriteOf(cmd))
    BY <1>2 DEF Write, WriteOf
  <2>2. /\ Len(toDevice') = Len(toDevice) + 1 /\ toDevice'[Len(toDevice) + 1] = WriteOf(cmd)
        /\ \A k \in 1..Len(toDevice) : toDevice'[k] = toDevice[k]
    BY <2>1, AppendProperties DEF Typed, OutsideType
  <2>3. Unprepared' \subseteq Unprepared
    BY <1>0, <2>1, <2>2 DEF Unprepared, Requests, Prepared, WriteOf
  <2>4. Cardinality(Unprepared') \in Nat /\ Cardinality(Unprepared') <= U
    BY <2>3, Countable, CountPart
  <2>5. Owed' = 0
    BY <1>0, <2>1, <2>2 DEF Owed, Prepared, WriteOf
  <2>6. Useless' = Useless
    BY <2>1 DEF Useless, Verify, IsReply
  <2> QED
    BY <1>0, <2>1, <2>4, <2>5, <2>6 DEF Accounted
<1>3. CASE Request
  <2>1. /\ stage = "request" /\ stage' = "receive" /\ UNCHANGED <<cmd, retry, toTool, dev, faults>>
        /\ toDevice' = Append(toDevice, RequestOf(cmd))
    BY <1>3 DEF Request, RequestOf
  <2>2. /\ Len(toDevice') = Len(toDevice) + 1 /\ toDevice'[Len(toDevice) + 1] = RequestOf(cmd)
        /\ \A k \in 1..Len(toDevice) : toDevice'[k] = toDevice[k]
    BY <2>1, AppendProperties DEF Typed, OutsideType
  <2>3. \A k \in 1..(Len(toDevice) + 1) : Prepared(k)' = Prepared(k)
    BY <1>0, <2>1, <2>2 DEF Prepared, WriteOf
  <2>4. /\ Unprepared' \subseteq Unprepared \cup {Len(toDevice) + 1}
        /\ Prepared(Len(toDevice) + 1) => Unprepared' \subseteq Unprepared
    BY <1>0, <2>1, <2>2, <2>3 DEF Unprepared, Requests, RequestOf
  <2>5. Cardinality(Unprepared') \in Nat /\ Cardinality(Unprepared') <= U + 1
    BY <2>4, Countable, CountOneMore
  <2>6. Prepared(Len(toDevice) + 1) => Cardinality(Unprepared') <= U
    BY <2>4, Countable, CountPart
  <2>7. Owed = (IF Prepared(Len(toDevice) + 1) THEN 0 ELSE 1) /\ Owed' = 0
    BY <2>1 DEF Owed
  <2>8. Useless' = Useless
    BY <2>1 DEF Useless, Verify, IsReply
  <2>9. Cardinality(Unprepared') <= U + Owed
    BY <1>0, <2>5, <2>6, <2>7
  <2> QED
    BY <1>0, <2>1, <2>5, <2>7, <2>8, <2>9 DEF Accounted
<1>4. CASE Retry
  <2>1. /\ stage = "receive" /\ stage' = "write" /\ UNCHANGED <<cmd, toDevice, dev, faults>>
        /\ retry' = retry + 1
        /\ toTool # <<>> /\ toTool' = Tail(toTool) /\ ~Verify(Head(toTool))
    BY <1>4 DEF Retry, Received, Continue
  <2>2. Cardinality(Useless') \in Nat /\ Cardinality(Useless') <= L - 1
    BY <2>1, AnswerRead
  <2>3. Unprepared' = Unprepared /\ Owed' = 0
    BY <2>1 DEF Unprepared, Requests, Owed, Prepared, WriteOf
  <2> QED
    BY <1>0, <2>1, <2>2, <2>3 DEF Accounted
<1>5. CASE OutsideStep
  <2>1. stage # "none"
    BY <1>5, OutsideTyped DEF tool, exchange
  <2> QED
    BY <1>5, <2>1, DeviceAccounted
<1>6. Halts \/ PlanStep \/ ParseRow \/ (\E s \in Signals : Search(s)) \/ ReceiveReply => FALSE
  BY PlanStepExchange DEF Halts, Stop, ReceiveReply
<1> QED
  BY <1>1, <1>2, <1>3, <1>4, <1>5, <1>6, StepCases DEF ExchangeStep

LEMMA StepAllStarted == ASSUME AllStarted, Next PROVE AllStarted'
BY DEF AllStarted, Next, ToolStep, OpenFails, SendFails, ParseFails, GiveUp, ReplyFails, Timeout,
       SearchFails, Search, MessageSearched, SearchEnds, SendEncoding, EncodingsSent, StartTable,
       ParseRow, Parsed, SendRow, TableSent, Done, Write, Request, ReceiveReply, Retry, Received,
       Stop, DeviceStep, DeviceStores, DeviceReplies, DeviceFailsToStore, DeviceFailsToRead,
       LoseToDevice, LoseToTool, Foreign, Handle, tool, main

LEMMA StepGivesUp == ASSUME Typed, Accounted, GivesUpForCause, Next PROVE GivesUpForCause'
<1> SUFFICES ASSUME phase' = "unverified" PROVE 2 * faults' >= maxRetries
  BY DEF GivesUpForCause
<1>0. /\ faults \in Nat /\ retry \in Nat
      /\ Cardinality(Useless) \in Nat /\ Cardinality(Unprepared) \in Nat /\ Owed \in {0, 1}
      /\ maxRetries \in Nat
  BY Counts, BoundsAssumption
<1>1. CASE GiveUp
  <2>1. /\ stage = "receive" /\ toTool # <<>> /\ ~Verify(Head(toTool))
        /\ retry + 1 >= maxRetries /\ faults' = faults
    BY <1>1 DEF GiveUp, Received, Continue, LastAttempt
  <2>2. retry + Cardinality(Useless) + Cardinality(Unprepared) + Owed <= 2 * faults
    BY <2>1 DEF Accounted
  <2>3. 1 \in Useless
    <3>1. Head(toTool) = toTool[1] /\ 1 \in 1..Len(toTool)
      BY <2>1, EmptySeq DEF Typed, OutsideType
    <3> QED
      BY <2>1, <3>1 DEF Useless
  <2>4. Cardinality(Useless) # 0
    BY <2>3, Countable, FS_EmptySet
  <2>5. Cardinality(Useless) >= 1
    BY <1>0, <2>4
  <2>6. retry + 1 <= 2 * faults
    BY <1>0, <2>2, <2>5
  <2> QED
    BY <1>0, <2>1, <2>6
<1>2. CASE ~GiveUp
  <2>1. phase = "unverified" /\ faults' \in {faults, faults + 1}
    BY <1>2 DEF Next, ToolStep, OpenFails, SendFails, ParseFails, ReplyFails, Timeout, SearchFails,
       Search, MessageSearched, SearchEnds, SendEncoding, EncodingsSent, StartTable, ParseRow,
       Parsed, SendRow, TableSent, Done, Write, Request, ReceiveReply, Retry, Received, Stop,
       DeviceStep, DeviceStores, DeviceReplies, DeviceFailsToStore, DeviceFailsToRead,
       LoseToDevice, LoseToTool, Foreign, Fault, Handle, tool, main, outside
  <2>2. 2 * faults >= maxRetries
    BY <2>1 DEF GivesUpForCause
  <2>3. \A f \in {faults, faults + 1} : 2 * f >= maxRetries
    BY <1>0, <2>2
  <2> QED
    BY <2>1, <2>3
<1> QED
  BY <1>1, <1>2

-----------------------------------------------------------------------------
(* The invariant holds                                                     *)

LEMMA InitInv == ASSUME Init PROVE IInv
<1>1. Typed
  BY InitTyped
<1>2. FoundFit /\ InPlace /\ Unread /\ RowsFollow
  BY <1>1, InitFoundFit, InitUnread, InitFollows
<1>3. RowInHand /\ Lockstep /\ Undisturbed /\ GivesUpForCause
  BY DEF Init, RowInHand, Lockstep, Undisturbed, GivesUpForCause
<1>4. AllVerified /\ AllStarted /\ Accounted
  BY DEF Init, AllVerified, AllStarted, Accounted
<1>5. Surplus
  <2>1. Requests = {} /\ Len(toTool) = 0 /\ faults = 0 /\ stage = "none"
    <3>1. Len(toDevice) = 0
      BY DEF Init
    <3>2. \A m : m = 0 => 1..m = {}
      OBVIOUS
    <3> QED
      BY <3>1, <3>2 DEF Init, Requests
  <2>2. Cardinality(Requests) = 0
    BY <2>1, FS_EmptySet
  <2> QED
    BY <2>1, <2>2 DEF Surplus
<1> QED
  BY <1>1, <1>2, <1>3, <1>4, <1>5 DEF IInv

LEMMA StutterInv == ASSUME IInv, UNCHANGED vars PROVE IInv'
<1> USE DEF vars, main, exchange
<1>1. Typed'
  BY DEF IInv, Typed, PlanType, ExchangeType, OutsideType
<1>2. FoundFit' /\ GivesUpForCause' /\ Unread'
  BY DEF IInv, FoundFit, AsNamed, GivesUpForCause, Unread
<1>3. InPlace' /\ RowInHand'
  BY DEF IInv, InPlace, InOrder, Key, RowInHand, RowCommand, LineFor
<1>4. RowsFollow'
  <2> SUFFICES ASSUME NEW t \in Signals, NEW r \in RowNumbers
               PROVE  /\ csv'[t] = <<>> => Follows(<<"row", t, r>>, Junk)'
                      /\ csv'[t] # <<>> /\ InOrder(t)' => Follows(<<"row", t, r>>, LineFor(t, r))'
    BY DEF RowsFollow
  <2>1. PICK slot, x : slot = <<"row", t, r>> /\ x = LineFor(t, r)
    OBVIOUS
  <2>2. /\ csv[t] = <<>> => Follows(slot, Junk)
        /\ csv[t] # <<>> /\ InOrder(t) => Follows(slot, x)
    BY <2>1 DEF IInv, RowsFollow
  <2>3. \A y : Follows(slot, y) => Follows(slot, y)'
    BY DEF Follows
  <2>4. LineFor(t, r)' = x /\ csv'[t] = csv[t] /\ InOrder(t)' = InOrder(t)
    BY <2>1 DEF LineFor, InOrder, Key
  <2>5. csv'[t] # <<>> /\ InOrder(t)' => Follows(slot, x)'
    BY <2>2, <2>3, <2>4
  <2> QED
    BY <2>1, <2>2, <2>3, <2>4, <2>5
<1>5. AllVerified' /\ AllStarted'
  BY DEF IInv, AllVerified, AllStarted, InOrder, Key, RowsDone, RowCommand, LineFor
<1>6. Lockstep' /\ Undisturbed'
  BY DEF IInv, Lockstep, Ended, WriteOf, RequestOf, ReplyTo, Undisturbed
<1>7. Requests' = Requests /\ Useless' = Useless
  BY DEF Requests, Useless, Verify, IsReply
<1>8. Unprepared' = Unprepared /\ Owed' = Owed
  BY <1>7 DEF Unprepared, Owed, Prepared, WriteOf
<1>9. Surplus' /\ Accounted'
  BY <1>7, <1>8 DEF IInv, Surplus, Ended, Accounted
<1> QED
  BY <1>1, <1>2, <1>3, <1>4, <1>5, <1>6, <1>9 DEF IInv

LEMMA StepInv == ASSUME IInv, [Next]_vars PROVE IInv'
<1>1. CASE UNCHANGED vars
  BY <1>1, StutterInv
<1>2. CASE Next
  <2>1. Typed' /\ FoundFit' /\ InPlace' /\ Unread' /\ RowsFollow'
    BY <1>2, StepTyped, StepFoundFit, StepInPlace, StepUnread, StepFollows DEF IInv
  <2>2. RowInHand' /\ AllVerified' /\ AllStarted'
    BY <1>2, StepRowInHand, StepAllVerified, StepAllStarted DEF IInv
  <2>3. Lockstep' /\ Undisturbed'
    BY <1>2, StepLockstep, StepUndisturbed DEF IInv
  <2>4. Surplus' /\ Accounted' /\ GivesUpForCause'
    BY <1>2, StepSurplus, StepAccounted, StepGivesUp DEF IInv
  <2> QED
    BY <2>1, <2>2, <2>3, <2>4 DEF IInv
<1> QED
  BY <1>1, <1>2

\* The inductive invariant holds of every behaviour.
THEOREM Invariance == Spec => []IInv
<1>1. Init => IInv
  BY InitInv
<1>2. IInv /\ [Next]_vars => IInv'
  BY StepInv
<1> QED
  BY <1>1, <1>2, PTL DEF Spec

-----------------------------------------------------------------------------
(* What follows                                                            *)

LEMMA VerifiedStored == ASSUME IInv PROVE VerifiedIsStored
<1> SUFFICES ASSUME NEW c \in verified,
                    IF IsSignal(c.slot) THEN faults = 0 ELSE InOrder(c.slot[2])
             PROVE  dev[c.slot] = c.content
  BY DEF VerifiedIsStored
<1>1. CASE IsSignal(c.slot)
  BY <1>1 DEF IInv, Undisturbed
<1>2. CASE ~IsSignal(c.slot)
  <2>1. c.slot \in Slots /\ c.content \in Contents
    BY DEF IInv, Typed, ExchangeType, Commands
  <2>2. PICK t \in Signals, r \in RowNumbers : c.slot = <<"row", t, r>>
    BY <1>2, <2>1, SlotKinds
  <2>3. InOrder(t)
    BY <1>2, <2>2
  <2>4. PICK x : x = (IF csv[t] = <<>> THEN Junk ELSE LineFor(t, r))
    OBVIOUS
  <2>5. Follows(c.slot, x)
    BY <2>2, <2>3, <2>4 DEF IInv, RowsFollow
  <2> QED
    BY <2>5 DEF Follows
<1> QED
  BY <1>1, <1>2

\* Of a file in ascending order, as many lines are below a line as are ahead of it.
LEMMA LinesBelow ==
  ASSUME NEW t \in Signals, InOrder(t), NEW m \in Nat, DOMAIN csv[t] = 1..m,
         \A k \in 1..m : csv[t][k] \in Lines,
         NEW j \in 1..m
  PROVE  Cardinality({k \in DOMAIN csv[t] : Key(t, k) < Key(t, j)}) = j - 1
<1>1. \A k \in 1..m : Key(t, k) \in Int
  BY ConstantFacts DEF Key
<1>2. \A k \in 1..m : Key(t, k) < Key(t, j) <=> k < j
  <2> TAKE k \in 1..m
  <2>1. k < j => Key(t, k) < Key(t, j)
    BY DEF InOrder
  <2>2. j < k => Key(t, j) < Key(t, k)
    BY DEF InOrder
  <2>3. Key(t, k) \in Int /\ Key(t, j) \in Int
    BY <1>1
  <2>4. k < j \/ k = j \/ j < k
    OBVIOUS
  <2> QED
    BY <2>1, <2>2, <2>3, <2>4
<1>3. {k \in DOMAIN csv[t] : Key(t, k) < Key(t, j)} = {k \in 1..m : k < j}
  BY <1>2
<1>4. {k \in 1..m : k < j} = 1..(j - 1)
  OBVIOUS
<1>5. Cardinality(1..(j - 1)) = j - 1
  <2>1. 1 \in Int /\ j - 1 \in Int
    OBVIOUS
  <2>2. Cardinality(1..(j - 1)) = IF 1 > j - 1 THEN 0 ELSE (j - 1) - 1 + 1
    BY <2>1, FS_Interval
  <2> QED
    BY <2>2
<1> QED
  BY <1>3, <1>4, <1>5

LEMMA TablesInOrderStored == ASSUME IInv PROVE OrderedTablesStored
<1> SUFFICES ASSUME phase = "done", NEW t \in given, InOrder(t), NEW r \in RowNumbers
             PROVE  \E j \in DOMAIN csv[t] :
                      Belongs(t, j, r) /\ dev[<<"row", t, r>>] = csv[t][j]
  BY DEF OrderedTablesStored, TableStored, RowNumbers
<1>0. t \in Signals /\ maxTabRows \in Nat \ {0}
  BY ConstantFacts DEF IInv, Typed, PlanType
<1>1. RowsDone(t) = maxTabRows
  BY DEF RowsDone
<1>2. csv[t] # <<>> /\ RowCommand(t, r) \in verified
  <2>1. t \in given \ left /\ RowsDone(t) > 0 /\ r \in 0..(RowsDone(t) - 1)
    BY <1>0, <1>1 DEF IInv, AllStarted, RowNumbers
  <2> QED
    BY <2>1 DEF IInv, AllVerified
<1>3. LineFor(t, r) \in Contents
  BY <1>2 DEF IInv, Typed, ExchangeType, Commands, RowCommand
<1>4. dev[<<"row", t, r>>] = LineFor(t, r)
  BY <1>0, <1>2, VerifiedStored, RowSlot DEF VerifiedIsStored, RowCommand
<1>5. PICK m \in Nat \ {0} : m = Len(csv[t]) /\ DOMAIN csv[t] = 1..m
  <2>1. csv[t] \in Seq(Lines \cup {BadLine})
    BY <1>0 DEF IInv, Typed, PlanType
  <2> QED
    BY <1>2, <2>1, EmptySeq
<1>6. r \in Nat
  BY <1>0 DEF RowNumbers
<1>7. \A k \in 1..m : csv[t][k] \in Lines
  <2> TAKE k \in 1..m
  <2>1. csv[t][k] \in Lines \cup {BadLine}
    BY <1>0, <1>5 DEF IInv, Typed, PlanType
  <2>2. CASE m = 1
    <3>1. LineFor(t, r) = csv[t][k]
      BY <1>5, <1>6, <2>2 DEF LineFor
    <3> QED
      BY <1>3, <2>1, <3>1, FilesAssumption DEF Contents
  <2>3. CASE k < m
    BY <1>5, <2>1, <2>3 DEF InOrder
  <2>4. CASE 1 < k
    <3>1. 1 \in DOMAIN csv[t] /\ k \in DOMAIN csv[t]
      BY <1>5
    <3>2. csv[t][k] # BadLine
      BY <2>4, <3>1 DEF InOrder
    <3> QED
      BY <2>1, <3>2
  <2> QED
    BY <2>2, <2>3, <2>4
<1>8. PICK j \in 1..m : j = IF r < m THEN r + 1 ELSE m
  BY <1>6
<1>9. csv[t][j] = LineFor(t, r)
  BY <1>5, <1>8 DEF LineFor
<1>10. Cardinality({k \in DOMAIN csv[t] : Key(t, k) < Key(t, j)}) = j - 1
  BY <1>0, <1>5, <1>7, LinesBelow
<1>11. Belongs(t, j, r)
  <2>1. PICK lower : lower = Cardinality({k \in DOMAIN csv[t] : Key(t, k) < Key(t, j)})
    OBVIOUS
  <2>2. lower = r \/ (lower = m - 1 /\ lower < r)
    BY <1>6, <1>8, <1>10, <2>1
  <2> QED
    BY <1>5, <2>1, <2>2 DEF Belongs
<1> QED
  BY <1>4, <1>5, <1>9, <1>11

\* Every variable keeps its type; what the device is sent names a slot that it has,
\* and the tool holds no more rows than the device does.
THEOREM TypeCorrect == Spec => []Typed
<1>1. IInv => Typed
  BY DEF IInv
<1> QED
  BY <1>1, Invariance, PTL

\* A signal that the DBC file lacks is never passed over ahead of one that was found:
\* parseSignals() fails instead, whatever the DBC file and the arguments.
THEOREM MissingNamesReported == Spec => []MissingReported
<1>1. IInv => MissingReported
  BY FoundOrFirst DEF IInv
<1> QED
  BY <1>1, Invariance, PTL

\* What sendCtrlFrame() reported as verified is in the device: rows of a file in
\* ascending order whatever is lost, late or fails to be stored, signals while
\* nothing goes wrong.
THEOREM VerifiedCommandsStored == Spec => []VerifiedIsStored
<1>1. IInv => VerifiedIsStored
  BY VerifiedStored
<1> QED
  BY <1>1, Invariance, PTL

\* When the tool is done the device holds all rows of each table whose file is in
\* ascending order, whatever the files' lengths and the faults on the way.
THEOREM DoneTablesStored == Spec => []OrderedTablesStored
<1>1. IInv => OrderedTablesStored
  BY TablesInOrderStored
<1> QED
  BY <1>1, Invariance, PTL

\* A command is given up after no fewer faults than half the attempts it has: however
\* frames are lost, delayed or added, two attempts per fault are enough.
THEOREM GivingUpHasCause == Spec => []GivesUpForCause
<1>1. IInv => GivesUpForCause
  BY DEF IInv
<1> QED
  BY <1>1, Invariance, PTL
=============================================================================
