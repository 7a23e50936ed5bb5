------------------------------ MODULE CalTool ------------------------------
(***************************************************************************)
(* The calibration tool and the device.  The tool looks the signals up in  *)
(* the DBC file and sends the encoding of each, and then the rows of each  *)
(* table, one command at a time, and reads each of them back; the device   *)
(* works through the frames it gets.  Frames travel in order but may be    *)
(* lost, other nodes transmit too, and the device may fail to store what   *)
(* it is told.  All of these are faults.                                   *)
(***************************************************************************)
EXTENDS Integers, Sequences, FiniteSets

CONSTANTS
  Signals,     \* signals, and their tables, by number
  Encodings,   \* encodings of signals, with their identifier
  Unfit,       \* an encoding whose start or size does not fit a byte
  Dbcs,        \* DBC files: a sequence of messages, with the encodings of signals
  Lines,       \* lines of a table's file: records of key and val
  BadLine,     \* a line that is not two numbers
  Files,       \* files of tables: sequences of lines
  Junk,        \* what a device may hold that no command sends
  Held,        \* what it holds of a signal at first
  maxTabRows,
  maxRetries,
  MaxFaults    \* bound on faults

ASSUME BoundsAssumption ==
  maxTabRows \in Nat \ {0} /\ maxRetries \in Nat \ {0} /\ MaxFaults \in Nat
ASSUME SignalsAssumption == IsFiniteSet(Signals) /\ Signals = 0..(Cardinality(Signals) - 1)
ASSUME DbcsAssumption ==
  Dbcs \subseteq Seq(UNION {[S -> Encodings \cup {Unfit}] : S \in SUBSET Signals})
ASSUME FilesAssumption ==
  /\ Lines \subseteq [key : Int, val : {line.val : line \in Lines}]
  /\ BadLine \notin Encodings \cup Lines
  /\ Files \subseteq Seq(Lines \cup {BadLine})
ASSUME JunkAssumption == Junk \notin Encodings \cup Lines

VARIABLES
  \* The tool
  phase,     \* what main() is at, or how it ended
  sought,    \* signals whose name is given
  given,     \* tables whose file is given
  dbc,       \* the DBC file, until parseSignals() is done with it
  found,     \* the encodings parseSignals() has found, until they are sent
  csv,       \* the lines of each table's file, once it is opened
  left,      \* signals to look for in a message, or tables still to be sent
  tbl,       \* the table being parsed or sent
  n,         \* messages searched, encodings sent, lines parsed or rows sent
  rows,      \* tbl.rows
  cmd,       \* the command in sendCtrlFrame(), or NoCommand
  stage,     \* what sendCtrlFrame() does next
  retry,
  verified,  \* history: commands for which it returned nil, the last of each slot
  \* The bus and the device
  toDevice,
  toTool,
  dev,       \* what the device holds in each slot
  faults     \* faults so far

args == <<sought, given>>
main == <<phase, dbc, found, csv, left, tbl, n, rows>>
exchange == <<cmd, stage, retry, verified>>
vars == <<args, main, exchange, toDevice, toTool, dev, faults>>
tool == <<args, main, exchange>>
outside == <<toDevice, toTool, dev, faults>>

\* A control frame's identifier names a signal, or a row of a table.
Slots == ({"signal"} \X Signals \X {0}) \cup ({"row"} \X Signals \X (0..(maxTabRows - 1)))
IsSignal(slot) == slot[1] = "signal"

NoCommand == [slot |-> <<>>, content |-> Junk]
\* Frames that are no answers: without a control frame's identifier, or with
\* one but not the DLC an answer has.
Other == [kind |-> "other"]
Malformed == [kind |-> "malformed"]

\* Arguments checkTablesProvided() accepts.
Init ==
  /\ phase = "search"
  /\ given \in SUBSET Signals
  /\ sought \in SUBSET given
  /\ dbc \in Dbcs
  /\ found = <<>>
  /\ csv = [t \in Signals |-> <<>>]
  /\ left = sought
  /\ tbl = 0
  /\ n = 0
  /\ rows = <<>>
  /\ cmd = NoCommand
  /\ stage = "none"
  /\ retry = 0
  /\ verified = {}
  /\ toDevice = <<>>
  /\ toTool = <<>>
  /\ dev \in [Slots -> Held \cup {Junk}]
  /\ \A s \in Slots : ~IsSignal(s) => dev[s] = Junk
  /\ faults = 0

-----------------------------------------------------------------------------
(* main(): what to send                                                    *)

\* A command makes what was verified of its slot a thing of the past.
Start(slot, content) ==
  /\ cmd' = [slot |-> slot, content |-> content]
  /\ stage' = "write"
  /\ retry' = 0
  /\ verified' = {c \in verified : c.slot # slot}

Stop(how) ==
  /\ phase' = how
  /\ cmd' = NoCommand
  /\ stage' = "none"

\* The bus or the DBC file, or later a table's file, cannot be opened.
OpenFails ==
  /\ (phase = "search" /\ n = 0) \/ (phase = "tables" /\ left # {})
  /\ Stop("failed")
  /\ UNCHANGED <<args, dbc, found, csv, left, tbl, n, rows, retry, verified, outside>>

\* parseSignals() looks in each message for each name; the names are in a map, so
\* in any order.
Search(s) ==
  LET message == dbc[n + 1] IN
  /\ phase = "search" /\ n < Len(dbc)
  /\ s \in left
  /\ left' = left \ {s}
  /\ s \in DOMAIN message => message[s] # Unfit
  /\ found' = IF s \in DOMAIN message
              THEN Append(found, [signal |-> s, encoding |-> message[s]])
              ELSE found
  /\ UNCHANGED <<args, phase, dbc, csv, tbl, n, rows, exchange, outside>>

\* NewSignalDef() fails.
SearchFails(s) ==
  /\ phase = "search" /\ n < Len(dbc)
  /\ s \in left \cap DOMAIN dbc[n + 1]
  /\ dbc[n + 1][s] = Unfit
  /\ Stop("failed")
  /\ UNCHANGED <<args, dbc, found, csv, left, tbl, n, rows, retry, verified, outside>>

MessageSearched ==
  /\ phase = "search" /\ n < Len(dbc)
  /\ left = {}
  /\ n' = n + 1
  /\ left' = sought
  /\ UNCHANGED <<args, phase, dbc, found, csv, tbl, rows, exchange, outside>>

\* (Mutant: the last signal found is not compared.)
AllButLastAsNamed == \A i \in 1..(Len(found) - 1) : found[i].signal = i - 1
\* The i-th signal found has the i-th name.
AsNamed == \A i \in DOMAIN found : found[i].signal = i - 1

SearchEnds ==
  /\ phase = "search"
  /\ n = Len(dbc)
  /\ IF Len(found) = Cardinality(sought) \/ AsNamed
     THEN phase' = "signals" /\ UNCHANGED <<cmd, stage>>
     ELSE Stop("failed")
  /\ n' = 0
  /\ dbc' = <<>>
  /\ UNCHANGED <<args, found, csv, left, tbl, rows, retry, verified, outside>>

\* sendEncodings(), in the order parseSignals() found them.
SendEncoding ==
  /\ phase = "signals" /\ cmd = NoCommand
  /\ n < Len(found)
  /\ n' = n + 1
  /\ Start(<<"signal", found[n + 1].signal, 0>>, found[n + 1].encoding)
  /\ UNCHANGED <<args, phase, dbc, found, csv, left, tbl, rows, outside>>

EncodingsSent ==
  /\ phase = "signals" /\ cmd = NoCommand
  /\ n = Len(found)
  /\ phase' = "tables"
  /\ left' = given
  /\ found' = <<>>
  /\ n' = 0
  /\ UNCHANGED <<args, dbc, csv, tbl, rows, exchange, outside>>

\* sendTables() iterates over a map, so in any order.
StartTable(t, file) ==
  /\ phase = "tables"
  /\ t \in left
  /\ left' = left \ {t}
  /\ csv' = [csv EXCEPT ![t] = file]
  /\ tbl' = t
  /\ rows' = <<>>
  /\ n' = 0
  /\ phase' = "parse"
  /\ UNCHANGED <<args, dbc, found, exchange, outside>>

\* The place BinarySearchFunc() finds for a key.
Place(key) == Cardinality({j \in DOMAIN rows : rows[j].key < key})

IsFull == Len(rows) >= maxTabRows

IsDuplicate(key) == \E j \in DOMAIN rows : rows[j].key = key

\* parseRow() and Insert(); a row keeps the number it is inserted at.
ParseRow ==
  LET line == csv[tbl][n + 1]
      i == Place(line.key)
  IN
  /\ phase = "parse"
  /\ n < Len(csv[tbl])
  /\ line # BadLine /\ ~IsFull /\ ~IsDuplicate(line.key)
  /\ rows' = SubSeq(rows, 1, i) \o <<[rowIndex |-> i, key |-> line.key, val |-> line.val]>>
               \o SubSeq(rows, i + 1, Len(rows))
  /\ n' = n + 1
  /\ UNCHANGED <<args, phase, dbc, found, csv, left, tbl, exchange, outside>>

ParseFails ==
  /\ phase = "parse"
  /\ n < Len(csv[tbl])
  /\ csv[tbl][n + 1] = BadLine \/ IsFull \/ IsDuplicate(csv[tbl][n + 1].key)
  /\ Stop("failed")
  /\ UNCHANGED <<args, dbc, found, csv, left, tbl, n, rows, retry, verified, outside>>

\* The end of the file.  Send() looks for the last row and panics without one.
Parsed ==
  /\ phase = "parse"
  /\ n = Len(csv[tbl])
  /\ phase' = IF rows = <<>> THEN "panic" ELSE "rows"
  /\ n' = 0
  /\ UNCHANGED <<args, dbc, found, csv, left, tbl, rows, exchange, outside>>

LastRow == rows[Len(rows)]

\* (Mutant: the last row is sent as itself again.)
RowNumberOfLast(i) == IF i < Len(rows) THEN rows[i + 1].rowIndex ELSE LastRow.rowIndex
\* The row of the table that the i-th command sets.
RowNumber(i) == IF i < Len(rows) THEN rows[i + 1].rowIndex ELSE i
RowLine(i) == LET r == IF i < Len(rows) THEN rows[i + 1] ELSE LastRow
              IN  [key |-> r.key, val |-> r.val]

\* Table.Send(): the rows, and the last of them until the table is full.
SendRow ==
  /\ phase = "rows" /\ cmd = NoCommand
  /\ n < maxTabRows
  /\ n' = n + 1
  /\ Start(<<"row", tbl, RowNumber(n)>>, RowLine(n))
  /\ UNCHANGED <<args, phase, dbc, found, csv, left, tbl, rows, outside>>

TableSent ==
  /\ phase = "rows" /\ cmd = NoCommand
  /\ n = maxTabRows
  /\ phase' = "tables"
  /\ tbl' = 0
  /\ rows' = <<>>
  /\ n' = 0
  /\ UNCHANGED <<args, dbc, found, csv, left, exchange, outside>>

Done ==
  /\ phase = "tables"
  /\ left = {}
  /\ phase' = "done"
  /\ UNCHANGED <<args, dbc, found, csv, left, tbl, n, rows, exchange, outside>>

-----------------------------------------------------------------------------
(* sendCtrlFrame(): one command                                            *)

Write ==
  /\ stage = "write"
  /\ stage' = "request"
  /\ toDevice' = Append(toDevice, [op |-> "write", slot |-> cmd.slot, content |-> cmd.content])
  /\ UNCHANGED <<args, main, cmd, retry, verified, toTool, dev, faults>>

Request ==
  /\ stage = "request"
  /\ stage' = "receive"
  /\ toDevice' = Append(toDevice, [op |-> "request", slot |-> cmd.slot])
  /\ UNCHANGED <<args, main, cmd, retry, verified, toTool, dev, faults>>

SendFails ==
  /\ stage \in {"write", "request"}
  /\ Stop("failed")
  /\ UNCHANGED <<args, dbc, found, csv, left, tbl, n, rows, retry, verified, outside>>

\* (Mutant: an answer about any row will do.)
IsAnyReply(frame) == frame.kind = "reply" /\ frame.slot[1] = cmd.slot[1]
\* An answer of the command's kind, for a row also one about this row.
IsReply(frame) ==
  /\ frame.kind = "reply"
  /\ frame.slot[1] = cmd.slot[1]
  /\ ~IsSignal(cmd.slot) => frame.slot = cmd.slot

Verify(frame) == IsReply(frame) /\ frame.content = cmd.content

\* isReply() of a malformed frame looks at the answer before it, if there is one;
\* for a signal it always says yes.
Continue(frame) == ~Verify(frame) /\ ~(frame = Malformed /\ IsSignal(cmd.slot))

Received ==
  /\ stage = "receive"
  /\ toTool # <<>>
  /\ toTool' = Tail(toTool)

\* (Mutant: one attempt is left out.)
LastAttemptEarly == retry + 1 >= maxRetries - 1
LastAttempt == retry + 1 >= maxRetries

ReceiveReply ==
  /\ Received
  /\ Verify(Head(toTool))
  /\ verified' = verified \cup {cmd}
  /\ cmd' = NoCommand
  /\ stage' = "none"
  /\ UNCHANGED <<args, main, retry, toDevice, dev, faults>>

Retry ==
  /\ Received
  /\ Continue(Head(toTool)) /\ ~LastAttempt
  /\ retry' = retry + 1
  /\ stage' = "write"
  /\ UNCHANGED <<args, main, cmd, verified, toDevice, dev, faults>>

GiveUp ==
  /\ Received
  /\ Continue(Head(toTool)) /\ LastAttempt
  /\ Stop("unverified")
  /\ UNCHANGED <<args, dbc, found, csv, left, tbl, n, rows, retry, verified, toDevice, dev, faults>>

ReplyFails ==
  /\ Received
  /\ Head(toTool) = Malformed
  /\ Stop("failed")
  /\ UNCHANGED <<args, dbc, found, csv, left, tbl, n, rows, retry, verified, toDevice, dev, faults>>

\* (Mutant: Receive() waits without a limit.)
WaitOn == FALSE /\ UNCHANGED vars
\* The time limit passes, which is an error at once.  A frame may be there all
\* the same, as Bus.Receive() takes whichever it sees first.
Timeout ==
  /\ stage = "receive"
  /\ Stop("failed")
  /\ UNCHANGED <<args, dbc, found, csv, left, tbl, n, rows, retry, verified, outside>>

-----------------------------------------------------------------------------
(* The bus and the device                                                  *)

Fault ==
  /\ faults < MaxFaults
  /\ faults' = faults + 1

Handle(op) ==
  /\ toDevice # <<>>
  /\ Head(toDevice).op = op
  /\ toDevice' = Tail(toDevice)
  /\ UNCHANGED tool

\* setSigFmt(), or handleTblCtrlFrame() and tabWrite().
DeviceStores ==
  /\ Handle("write")
  /\ dev' = [dev EXCEPT ![Head(toDevice).slot] = Head(toDevice).content]
  /\ UNCHANGED <<toTool, faults>>

\* The EEPROM fails: an error frame, a signal as it was, and of a row any part.
DeviceFailsToStore ==
  LET slot == Head(toDevice).slot
      content == Head(toDevice).content
  IN
  /\ Handle("write")
  /\ Fault
  /\ dev' \in {[dev EXCEPT ![slot] = c] :
                c \in IF IsSignal(slot) \/ dev[slot] = content
                      THEN {dev[slot]} ELSE {dev[slot], content, Junk}}
  /\ toTool' = Append(toTool, Other)

\* respondSigCtrl(), or handleTblCtrlFrame() and tabRead().
DeviceReplies ==
  LET slot == Head(toDevice).slot IN
  /\ Handle("request")
  /\ toTool' = Append(toTool, [kind |-> "reply", slot |-> slot, content |-> dev[slot]])
  /\ UNCHANGED <<dev, faults>>

\* The row cannot be read: an error frame.
DeviceFailsToRead ==
  /\ Handle("request")
  /\ ~IsSignal(Head(toDevice).slot)
  /\ Fault
  /\ toTool' = Append(toTool, Other)
  /\ UNCHANGED dev

\* A frame is lost on its way, for one in the device's receive buffers.
LoseToDevice ==
  /\ toDevice # <<>>
  /\ Fault
  /\ toDevice' = Tail(toDevice)
  /\ UNCHANGED <<tool, toTool, dev>>

LoseToTool ==
  /\ toTool # <<>>
  /\ Fault
  /\ toTool' = Tail(toTool)
  /\ UNCHANGED <<tool, toDevice, dev>>

\* A frame from another node.  It is assumed that none transmits under an identifier
\* that differs from a control frame's in bits 25 to 28 only: the tool's masks leave
\* these out, so it would take such a frame for an answer.
Foreign ==
  /\ phase \in {"signals", "rows"}
  /\ Fault
  /\ \E frame \in {Other, Malformed} : toTool' = Append(toTool, frame)
  /\ UNCHANGED <<tool, toDevice, dev>>

ToolStep ==
  \/ \E s \in Signals : Search(s) \/ SearchFails(s)
  \/ MessageSearched \/ SearchEnds
  \/ SendEncoding \/ EncodingsSent
  \/ \E t \in Signals, file \in Files : StartTable(t, file)
  \/ ParseRow \/ ParseFails \/ Parsed
  \/ SendRow \/ TableSent \/ Done
  \/ Write \/ Request \/ ReceiveReply \/ Retry \/ GiveUp
  \/ ReplyFails \/ Timeout

DeviceStep == DeviceStores \/ DeviceReplies

Next ==
  \/ ToolStep \/ OpenFails \/ SendFails
  \/ DeviceStep \/ DeviceFailsToStore \/ DeviceFailsToRead
  \/ LoseToDevice \/ LoseToTool \/ Foreign

Spec == Init /\ [][Next]_vars

\* The tool keeps running; the time limits need nothing of the device.
FairSpec == Spec /\ WF_vars(ToolStep)

-----------------------------------------------------------------------------
(* Properties                                                              *)

Ended == phase \in {"done", "failed", "unverified", "panic"}

Found == {found[i].signal : i \in DOMAIN found}

\* parseSignals() passes over a signal that the DBC file lacks only behind all those
\* that it found: no signal is sent in the place of one that was named before it.
MissingReported ==
  phase = "signals" /\ Cardinality(Found) = Len(found) =>
    \A s \in sought \ Found, f \in Found : f < s

Key(t, j) == csv[t][j].key
InOrder(t) == \A j, k \in DOMAIN csv[t] :
                j < k => csv[t][j] # BadLine /\ csv[t][k] # BadLine /\ Key(t, j) < Key(t, k)

\* The device holds what was verified: a row of a file in ascending order always,
\* although the answer read may be one to an earlier attempt and further writes
\* may be under way or fail; a signal if nothing went wrong.
VerifiedIsStored ==
  \A c \in verified :
    (IF IsSignal(c.slot) THEN faults = 0 ELSE InOrder(c.slot[2])) => dev[c.slot] = c.content

\* The line of the file that belongs into a row: by the order of keys, and the
\* one with the highest key into the rows that are left.
Belongs(t, j, r) ==
  LET lower == Cardinality({k \in DOMAIN csv[t] : Key(t, k) < Key(t, j)})
  IN  lower = r \/ (lower = Len(csv[t]) - 1 /\ lower < r)

TableStored(t) ==
  \A r \in 0..(maxTabRows - 1) :
    \E j \in DOMAIN csv[t] : Belongs(t, j, r) /\ dev[<<"row", t, r>>] = csv[t][j]

\* When the tool reports success the device has every table whose file is in
\* ascending order, all rows of it, in the order tabLookup() relies on.
OrderedTablesStored == phase = "done" => \A t \in given : InOrder(t) => TableStored(t)

\* The tool gives up on a command only for a cause: a fault costs two attempts
\* at the most, although what it leaves behind is read by later commands.
GivesUpForCause == phase = "unverified" => 2 * faults >= maxRetries

\* Whatever is lost, the tool comes to an end.
Terminates == <>Ended

\* The comment in parseSignals(), "Check all signals are present".  The check compares
\* names at places only if the numbers differ, and no further than was found.
AllSignalsPresent == phase = "signals" => sought \subseteq Found

\* The comment at verifySigCtrlReply(), that the answer "is the same as what was
\* commanded to be written": whatever goes wrong, the device holds of a signal what was
\* verified, once no write is under way.  The tool ignores which signal an answer is
\* about, so that one left over from a retry can stand for another signal's.
VerifiedSignalsStored ==
  toDevice = <<>> => \A c \in verified : IsSignal(c.slot) => dev[c.slot] = c.content

\* What the comment on Send() says, for a file in any order.  The code gives a
\* row the number of the place it was inserted at, and keeps it when a later
\* line is inserted before it.
TablesStored == phase = "done" => \A t \in given : TableStored(t)
=============================================================================
