----------------------------- MODULE SigConfig -----------------------------
(***************************************************************************)
(* The signal formats of the device: how Signal Control frames set and ask *)
(* for them, how they are stored in the EEPROM, and how main() gets them   *)
(* back after a restart.  The EEPROM is what NvMemory promises, with the   *)
(* fields of a format for its cells: a write stores them in one piece,     *)
(* since none crosses a page, and a power loss may spoil the page that was *)
(* written last.                                                           *)
(***************************************************************************)
EXTENDS Naturals

CONSTANTS
  NSIG,       \* number of signals
  Highs,      \* values of the bits of an identifier above the lower eleven
  Encodings,  \* encodings that occur: the start and size, the order, the sign
  Sent,       \* identifiers that occur in Signal Control frames, as transmitted
  Nothing     \* no format, no request

ASSUME SignalsAssumption == NSIG \in Nat \ {0}
ASSUME HighsAssumption == 0 \in Highs

\* What a reset leaves in RAM.
ZeroEncoding == [place |-> 0, order |-> "BIG_ENDIAN", isSigned |-> FALSE]

ASSUME EncodingsAssumption ==
  /\ ZeroEncoding \in Encodings
  /\ Encodings \subseteq [place : Nat, order : {"BIG_ENDIAN", "LITTLE_ENDIAN"},
                          isSigned : BOOLEAN]

VARIABLES
  pc,         \* "load", "idle", or which part of a format is to be written
  next,       \* boot: the signal whose format is loaded next
  ram,        \* sigFmts
  new,        \* the signal and format a Signal Control frame sets
  reply,      \* the frame the device transmitted in the last step, if any
  idCell,     \* EEPROM: the identifier of each signal
  encCell,    \* EEPROM: its encoding
  unsettled,  \* signals whose page the EEPROM is still rewriting
  wanted,     \* history: the format of each signal last set with success, Nothing
              \* when a power loss has since come upon its page being rewritten
  cut         \* history: a format of which since then only the identifier has
              \* been stored, its encoding not yet or never

eeprom == <<idCell, encCell, unsettled>>
history == <<wanted, cut>>
vars == <<pc, next, ram, new, reply, idCell, encCell, unsettled, wanted, cut>>

Signals == 0..(NSIG - 1)

\* A format takes 8 bytes, so two signals share a page of 16.
PageMates(s) == {t \in Signals : t \div 2 = s \div 2}

\* An identifier by its bits 28-11 and 7; a standard one has 11 bits.  The bits
\* left out go unchanged through every conversion.
Number == [high : Highs, bit7 : BOOLEAN]
Id == {id \in [isExt : BOOLEAN, number : Number] : ~id.isExt => id.number.high = 0}
SigFmt == [id : Id, encoding : Encodings]
Settings == [sig : Signals, fmt : SigFmt]

ASSUME NothingAssumption == Nothing \notin Settings \cup SigFmt

\* & 0x7FF
Low11(n) == [n EXCEPT !.high = 0]

\* The byte that holds the order in bit 7 and the sign in bit 6.
Flags(e) == {b \in {6, 7} : \/ b = 7 /\ e.order = "LITTLE_ENDIAN"
                            \/ b = 6 /\ e.isSigned}
PackEncoding(e) == [place |-> e.place, flags |-> Flags(e)]
UnpackEncoding(c) ==
  [place |-> c.place,
   order |-> IF 7 \in c.flags THEN "LITTLE_ENDIAN" ELSE "BIG_ENDIAN",
   isSigned |-> 6 \in c.flags]

\* The identifier in a Signal Control frame: EXIDE is bit 31, apart from the rest.
Wire == [exide : BOOLEAN, number : Number]

ASSUME SentAssumption == Sent \subseteq Wire

\* (Mutant: the flag goes where the stored form has it.)
PackWireAsStored(id) ==
  [exide |-> FALSE, number |-> [id.number EXCEPT !.bit7 = @ \/ id.isExt]]
PackWire(id) == [exide |-> id.isExt, number |-> id.number]
UnpackWire(w) ==
  [isExt |-> w.exide, number |-> IF w.exide THEN w.number ELSE Low11(w.number)]

\* The calibration tool decodes it without cutting it to 11 bits.
DecodeWire(w) == [isExt |-> w.exide, number |-> w.number]

\* The identifier in the EEPROM: the flag is bit 7 of the last byte, which is
\* bit 7 of the number.
PackId(id) == [id.number EXCEPT !.bit7 = @ \/ id.isExt]
UnpackId(n) == [isExt |-> n.bit7, number |-> IF n.bit7 THEN n ELSE Low11(n)]

ZeroFmt == [id |-> [isExt |-> FALSE, number |-> [high |-> 0, bit7 |-> FALSE]],
            encoding |-> ZeroEncoding]

EncodingCell == {PackEncoding(e) : e \in Encodings}
ErrFrame == [kind |-> "error"]
NoFrame == [kind |-> "none"]

Init ==
  /\ pc = "load"
  /\ next = 0
  /\ ram = [s \in Signals |-> ZeroFmt]
  /\ new = Nothing
  /\ reply = NoFrame
  /\ idCell \in [Signals -> Number]
  /\ encCell \in [Signals -> EncodingCell]
  /\ unsettled = {}
  /\ wanted = [s \in Signals |-> Nothing]
  /\ cut = [s \in Signals |-> Nothing]

-----------------------------------------------------------------------------
(* Boot: loadSigFmts()                                                     *)

\* (Mutant: the loop ends one signal early.)
LoadAllButLast ==
  /\ pc = "load"
  /\ ram' = [ram EXCEPT ![next] = [id |-> UnpackId(idCell[next]),
                                   encoding |-> UnpackEncoding(encCell[next])]]
  /\ next' = IF next + 1 = NSIG - 1 THEN 0 ELSE next + 1
  /\ pc' = IF next + 1 = NSIG - 1 THEN "idle" ELSE "load"
  /\ unsettled' = {}
  /\ reply' = NoFrame
  /\ UNCHANGED <<new, idCell, encCell, history>>

Load ==
  /\ pc = "load"
  /\ ram' = [ram EXCEPT ![next] = [id |-> UnpackId(idCell[next]),
                                   encoding |-> UnpackEncoding(encCell[next])]]
  /\ next' = IF next = NSIG - 1 THEN 0 ELSE next + 1
  /\ pc' = IF next = NSIG - 1 THEN "idle" ELSE "load"
  /\ unsettled' = {}
  /\ reply' = NoFrame
  /\ UNCHANGED <<new, idCell, encCell, history>>

StartAgain ==
  /\ pc' = "load"
  /\ next' = 0
  /\ ram' = [s \in Signals |-> ZeroFmt]
  /\ new' = Nothing

\* A read fails: main() transmits an error frame and resets the PIC.
LoadFails ==
  /\ pc = "load"
  /\ StartAgain
  /\ reply' = ErrFrame
  /\ UNCHANGED <<eeprom, history>>

-----------------------------------------------------------------------------
(* Signal Control frames: handleSigCtrlFrame()                             *)

Valid(sig) == sig < NSIG

\* setSigFmt() with a frame it refuses: no such signal, or DLC not 7.
Refuse(sig, dlcIs7) ==
  /\ pc = "idle"
  /\ ~Valid(sig) \/ ~dlcIs7
  /\ reply' = ErrFrame
  /\ UNCHANGED <<pc, next, ram, new, eeprom, history>>

\* setSigFmt() unpacks the DATA FIELD.
Accept(sig, wire, cell) ==
  /\ pc = "idle"
  /\ Valid(sig)
  /\ new' = [sig |-> sig, fmt |-> [id |-> UnpackWire(wire),
                                   encoding |-> UnpackEncoding(cell)]]
  /\ pc' = "writeId"
  /\ reply' = NoFrame
  /\ UNCHANGED <<next, ram, eeprom, history>>

\* (Mutant: the copy in RAM is updated field by field.)
WriteIdAndRam ==
  /\ pc = "writeId"
  /\ idCell' = [idCell EXCEPT ![new.sig] = PackId(new.fmt.id)]
  /\ ram' = [ram EXCEPT ![new.sig].id = new.fmt.id]
  /\ unsettled' = PageMates(new.sig)
  /\ cut' = [cut EXCEPT ![new.sig] = new.fmt]
  /\ reply' = NoFrame
  /\ pc' = "writeEncoding"
  /\ UNCHANGED <<next, new, encCell, wanted>>

\* serWriteSigFmt(): first the identifier.
WriteId ==
  /\ pc = "writeId"
  /\ idCell' = [idCell EXCEPT ![new.sig] = PackId(new.fmt.id)]
  /\ unsettled' = PageMates(new.sig)
  /\ cut' = [cut EXCEPT ![new.sig] = new.fmt]
  /\ reply' = NoFrame
  /\ pc' = "writeEncoding"
  /\ UNCHANGED <<next, ram, new, encCell, wanted>>

\* (Mutant: the status of the second write is not looked at.)
WriteEncodingUnchecked ==
  /\ pc = "writeEncoding"
  /\ encCell' \in {encCell, [encCell EXCEPT ![new.sig] = PackEncoding(new.fmt.encoding)]}
  /\ unsettled' = PageMates(new.sig)
  /\ ram' = [ram EXCEPT ![new.sig] = new.fmt]
  /\ wanted' = [wanted EXCEPT ![new.sig] = new.fmt]
  /\ cut' = [cut EXCEPT ![new.sig] = Nothing]
  /\ new' = Nothing
  /\ reply' = NoFrame
  /\ pc' = "idle"
  /\ UNCHANGED <<next, idCell>>

\* Then the encoding; after that setSigFmt() updates the copy in RAM.
WriteEncoding ==
  /\ pc = "writeEncoding"
  /\ encCell' = [encCell EXCEPT ![new.sig] = PackEncoding(new.fmt.encoding)]
  /\ unsettled' = PageMates(new.sig)
  /\ ram' = [ram EXCEPT ![new.sig] = new.fmt]
  /\ wanted' = [wanted EXCEPT ![new.sig] = new.fmt]
  /\ cut' = [cut EXCEPT ![new.sig] = Nothing]
  /\ new' = Nothing
  /\ reply' = NoFrame
  /\ pc' = "idle"
  /\ UNCHANGED <<next, idCell>>

\* Either write fails; what the other one stored stays.
WriteFails ==
  /\ pc \in {"writeId", "writeEncoding"}
  /\ new' = Nothing
  /\ reply' = ErrFrame
  /\ pc' = "idle"
  /\ UNCHANGED <<next, ram, eeprom, history>>

\* A REMOTE frame: respondSigCtrl() answers from the copy in RAM.
Respond(sig) ==
  /\ pc = "idle"
  /\ reply' = IF Valid(sig)
              THEN [kind |-> "format", sig |-> sig, id |-> PackWire(ram[sig].id),
                    encoding |-> PackEncoding(ram[sig].encoding)]
              ELSE ErrFrame
  /\ UNCHANGED <<pc, next, ram, new, eeprom, history>>

-----------------------------------------------------------------------------
(* The EEPROM and the supply                                               *)

Settle ==
  /\ unsettled # {}
  /\ unsettled' = {}
  /\ UNCHANGED <<pc, next, ram, new, reply, idCell, encCell, history>>

\* The power fails: the page being rewritten may hold anything.
PowerLoss ==
  /\ StartAgain
  /\ reply' = NoFrame
  /\ idCell' \in {c \in [Signals -> Number] :
                   \A s \in Signals \ unsettled : c[s] = idCell[s]}
  /\ encCell' \in {c \in [Signals -> EncodingCell] :
                    \A s \in Signals \ unsettled : c[s] = encCell[s]}
  /\ wanted' = [s \in Signals |-> IF s \in unsettled THEN Nothing ELSE wanted[s]]
  /\ cut' = [s \in Signals |-> IF s \in unsettled THEN Nothing ELSE cut[s]]
  /\ unsettled' = {}

\* The signal's number is the low nibble of the frame's identifier.
Next ==
  \/ Load \/ LoadFails
  \/ \E sig \in 0..NSIG :
       \/ \E dlcIs7 \in BOOLEAN : Refuse(sig, dlcIs7)
       \/ \E wire \in Sent, cell \in EncodingCell : Accept(sig, wire, cell)
       \/ Respond(sig)
  \/ WriteId \/ WriteEncoding \/ WriteFails
  \/ Settle \/ PowerLoss

Spec == Init /\ [][Next]_vars

-----------------------------------------------------------------------------
(* Properties                                                              *)

Fmts == SigFmt \cup {Nothing}

TypeOK ==
  /\ pc \in {"load", "idle", "writeId", "writeEncoding"}
  /\ next \in Signals
  /\ ram \in [Signals -> SigFmt]
  /\ new \in Settings \cup {Nothing}
  /\ reply \in {NoFrame, ErrFrame} \cup
       [kind : {"format"}, sig : Signals, id : Wire, encoding : EncodingCell]
  /\ idCell \in [Signals -> Number]
  /\ encCell \in [Signals -> EncodingCell]
  /\ unsettled \subseteq Signals
  /\ wanted \in [Signals -> Fmts]
  /\ cut \in [Signals -> Fmts]

\* A format that was set with success is in the EEPROM until the signal is set again,
\* through failing writes, and power losses while its page is at rest; setting another
\* signal leaves it alone, although the two share a page.  A frame for the same signal
\* that is refused or not stored at all changes nothing; one of which only the
\* identifier was stored, that and no more.
StaysStored ==
  \A s \in Signals : wanted[s] # Nothing =>
    /\ idCell[s] = PackId(IF cut[s] = Nothing THEN wanted[s].id ELSE cut[s].id)
    /\ UnpackEncoding(encCell[s]) = wanted[s].encoding

\* Identifiers that the stored form keeps apart from the other kind.
Survives(id) == id.isExt <=> id.number.bit7

\* What a boot makes of a format that was stored.
Reloaded(f) == [id |-> UnpackId(PackId(f.id)), encoding |-> f.encoding]

\* The device works with the format that was set, before and after restarts, if bit 7
\* of its identifier happens to be what serWriteCanId() makes of it, and if not, with
\* what the EEPROM holds of it.  Of a format that another frame has begun to replace
\* this is said for the encoding, see WorksWithOneFormat.
ConfigSurvives ==
  pc = "idle" =>
    \A s \in Signals : wanted[s] # Nothing =>
      /\ ram[s].encoding = wanted[s].encoding
      /\ cut[s] = Nothing =>
           \/ ram[s].id = wanted[s].id
           \/ ~Survives(wanted[s].id) /\ ram[s] = Reloaded(wanted[s])

\* How the format of a signal in RAM may change, if one was set with success: to the
\* one just set, identifier and encoding at once; at a reset to zeros; at boot to what
\* was set, but for what the stored form makes of its identifier, unless another frame
\* has begun to replace it.  (In that case the boot does mix two formats.)
ChangesAsWhole ==
  [][\A s \in Signals : ram'[s] # ram[s] /\ wanted'[s] # Nothing =>
       \/ ram'[s] = wanted'[s]
       \/ pc' = "load" /\ ram'[s] = ZeroFmt
       \/ pc = "load" /\ (cut[s] # Nothing \/ ram'[s] = Reloaded(wanted[s]))]_vars

\* An answer comes from RAM, but what the calibration tool decodes of it is what the
\* EEPROM holds, and the identifier is the one that was set or what a boot makes of
\* it; unless another frame has begun to replace the format, see AnswersStored.
AnswersConfirm ==
  LET s == reply.sig IN
  reply.kind = "format" /\ wanted[s] # Nothing /\ cut[s] = Nothing =>
    /\ PackId(DecodeWire(reply.id)) = idCell[s]
    /\ UnpackEncoding(reply.encoding) = UnpackEncoding(encCell[s])
    /\ DecodeWire(reply.id) \in {wanted[s].id, Reloaded(wanted[s]).id}

\* The claim of calfmt.ms:107, "the Interface will respond with a DATA FRAME containing
\* the signal's ID and encoding which were retrieved from the EEPROM".
AnswersStored ==
  LET s == reply.sig IN
  reply.kind = "format" /\ wanted[s] # Nothing =>
    /\ PackId(DecodeWire(reply.id)) = idCell[s]
    /\ UnpackEncoding(reply.encoding) = UnpackEncoding(encCell[s])

\* The claim of calfmt.ms:106, "the Interface will write the signal's new ID and
\* encoding to the EEPROM": once one was set, the device works with the identifier
\* and the encoding of one frame, the last that was stored or the one it cut short.
WorksWithOneFormat ==
  pc = "idle" =>
    \A s \in Signals : wanted[s] # Nothing =>
      ram[s] \in UNION {{f, Reloaded(f)} : f \in {wanted[s], cut[s]} \ {Nothing}}

\* The claim of serial.h:37 of the stored form, that it tells standard from extended
\* identifiers: after a restart the device works with the format that was set last
\* with success, or the one of a frame that was cut short, as it did before.  The code
\* does not, because bit 7 of the last byte is not bit 31; with an identifier that
\* this spares it may still combine these two, see WorksWithOneFormat.
RestartKeepsConfig ==
  pc = "idle" =>
    \A s \in Signals : wanted[s] # Nothing =>
      ram[s] \in {wanted[s], cut[s]} \ {Nothing}

\* The claim of serial.h:50 of the stored form, "Byte order: [6][7] = {0=>LE, 1=>BE}".
OrderAsDocumented ==
  \A s \in Signals : wanted[s] # Nothing =>
    (7 \in encCell[s].flags <=> wanted[s].encoding.order = "BIG_ENDIAN")
=============================================================================
