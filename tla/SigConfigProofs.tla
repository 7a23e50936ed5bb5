-------------------------- MODULE SigConfigProofs --------------------------
(***************************************************************************)
(* Proofs about SigConfig for any number of signals, identifiers and       *)
(* encodings.  What is in RAM agrees with what was set only through the    *)
(* EEPROM, so the invariant has to say what both hold while a format is on *)
(* its way from one to the other: half written, or half loaded.            *)
(***************************************************************************)
EXTENDS SigConfig, TLAPS

\* A format on its way to the EEPROM: its identifier is there first.
Pending ==
  /\ pc \in {"writeId", "writeEncoding"} => new \in Settings
  /\ pc = "writeEncoding" =>
       idCell[new.sig] = PackId(new.fmt.id) /\ cut[new.sig] = new.fmt

\* RAM holds the format f of the signal s, as it was set or as a boot reads it;
\* if another has been begun, its encoding.
Holds(s, f) ==
  /\ ram[s].encoding = f.encoding
  /\ cut[s] = Nothing => \/ ram[s].id = f.id
                         \/ ~Survives(f.id) /\ ram[s] = Reloaded(f)

\* It does for every signal set with success that the boot has come past.
Loaded ==
  \A s \in Signals :
    wanted[s] # Nothing /\ (pc = "load" => s < next) => Holds(s, wanted[s])

IInv ==
  /\ TypeOK
  /\ Pending
  /\ StaysStored
  /\ Loaded
  /\ AnswersConfirm

-----------------------------------------------------------------------------
(* What survives the conversions                                           *)

LEMMA NumberShape ==
  ASSUME NEW n \in Number
  PROVE  /\ n = [high |-> n.high, bit7 |-> n.bit7]
         /\ n.high \in Highs /\ n.bit7 \in BOOLEAN
         /\ Low11(n) = [high |-> 0, bit7 |-> n.bit7]
         /\ Low11(n) \in Number
BY HighsAssumption DEF Number, Low11

LEMMA IdShape ==
  ASSUME NEW id \in Id
  PROVE  /\ id = [isExt |-> id.isExt, number |-> id.number]
         /\ id.isExt \in BOOLEAN /\ id.number \in Number
         /\ ~id.isExt => id.number.high = 0
BY DEF Id

\* Any stored number is read back as an identifier.
LEMMA UnpackIdType == ASSUME NEW n \in Number PROVE UnpackId(n) \in Id
<1>1. Low11(n).high = 0 /\ n.bit7 \in BOOLEAN /\ Low11(n) \in Number
  BY NumberShape
<1> QED
  BY <1>1 DEF UnpackId, Id

LEMMA UnpackWireType == ASSUME NEW w \in Wire PROVE UnpackWire(w) \in Id
<1>1. w.exide \in BOOLEAN /\ w.number \in Number
  BY DEF Wire
<1>2. Low11(w.number).high = 0 /\ Low11(w.number) \in Number
  BY <1>1, NumberShape
<1> QED
  BY <1>1, <1>2 DEF UnpackWire, Id

LEMMA PackIdType == ASSUME NEW id \in Id PROVE PackId(id) \in Number
<1>1. id.number \in Number /\ id.isExt \in BOOLEAN
  BY IdShape
<1>2. PackId(id) = [high |-> id.number.high, bit7 |-> id.number.bit7 \/ id.isExt]
  BY <1>1, NumberShape DEF PackId, Number
<1> QED
  BY <1>1, <1>2, NumberShape DEF Number

\* The stored form keeps an identifier whose bit 7 is its kind.
LEMMA IdRoundTrip ==
  ASSUME NEW id \in Id, Survives(id)
  PROVE  UnpackId(PackId(id)) = id
<1>1. /\ id.number \in Number /\ id.isExt \in BOOLEAN
      /\ id = [isExt |-> id.isExt, number |-> id.number]
      /\ ~id.isExt => id.number.high = 0
  BY IdShape
<1>2. /\ id.number = [high |-> id.number.high, bit7 |-> id.number.bit7]
      /\ Low11(id.number) = [high |-> 0, bit7 |-> id.number.bit7]
      /\ id.number.bit7 \in BOOLEAN
  BY <1>1, NumberShape
<1>3. PackId(id) = id.number
  BY <1>1, <1>2 DEF PackId, Survives
<1> QED
  BY <1>1, <1>2, <1>3 DEF UnpackId, Survives

\* What is read back is stored as the same number again.
LEMMA StoredAgain ==
  ASSUME NEW id \in Id
  PROVE  UnpackId(PackId(id)) \in Id /\ PackId(UnpackId(PackId(id))) = PackId(id)
<1>1. UnpackId(PackId(id)) \in Id
  BY PackIdType, UnpackIdType
<1>2. CASE Survives(id)
  BY <1>1, <1>2, IdRoundTrip
<1>3. CASE ~Survives(id)
  <2>1. /\ id.number \in Number /\ id.isExt \in BOOLEAN
        /\ id.number.bit7 \in BOOLEAN
        /\ id.number = [high |-> id.number.high, bit7 |-> id.number.bit7]
    BY IdShape, NumberShape
  <2> DEFINE n == [high |-> id.number.high, bit7 |-> TRUE]
             again == [isExt |-> TRUE, number |-> n]
  <2>2. PackId(id) = [high |-> id.number.high, bit7 |-> id.number.bit7 \/ id.isExt]
    BY <2>1 DEF PackId, Number
  <2>3. (id.number.bit7 \/ id.isExt) = TRUE
    BY <1>3, <2>1 DEF Survives
  <2>4. PackId(id) = n
    BY <2>2, <2>3
  <2>5. UnpackId(n) = again
    BY DEF UnpackId
  <2>6. PackId(again) = n
    <3>1. again.number = n /\ again.isExt = TRUE
      OBVIOUS
    <3>2. PackId(again) = [n EXCEPT !.bit7 = TRUE]
      BY <3>1 DEF PackId
    <3> QED
      BY <3>2
  <2> QED
    BY <1>1, <2>4, <2>5, <2>6
<1> QED
  BY <1>2, <1>3

\* The tool decodes what the device holds.
LEMMA WireRoundTrip ==
  ASSUME NEW id \in Id
  PROVE  PackWire(id) \in Wire /\ DecodeWire(PackWire(id)) = id
BY IdShape DEF PackWire, DecodeWire, Wire

LEMMA EncodingRoundTrip ==
  ASSUME NEW e \in Encodings
  PROVE  PackEncoding(e) \in EncodingCell /\ UnpackEncoding(PackEncoding(e)) = e
<1>1. /\ e = [place |-> e.place, order |-> e.order, isSigned |-> e.isSigned]
      /\ e.order \in {"BIG_ENDIAN", "LITTLE_ENDIAN"} /\ e.isSigned \in BOOLEAN
  BY EncodingsAssumption
<1>2. 7 \in Flags(e) <=> e.order = "LITTLE_ENDIAN"
  BY DEF Flags
<1>3. 6 \in Flags(e) <=> e.isSigned
  BY DEF Flags
<1>4. (6 \in Flags(e)) = e.isSigned
  BY <1>1, <1>3
<1> QED
  BY <1>1, <1>2, <1>4 DEF PackEncoding, UnpackEncoding, EncodingCell

LEMMA UnpackEncodingType ==
  ASSUME NEW c \in EncodingCell
  PROVE  UnpackEncoding(c) \in Encodings
BY EncodingRoundTrip DEF EncodingCell

LEMMA ZeroFmtType == ZeroFmt \in SigFmt
<1>1. ZeroFmt.id \in Id
  BY HighsAssumption DEF ZeroFmt, Id, Number
<1> QED
  BY <1>1, EncodingsAssumption DEF ZeroFmt, SigFmt

-----------------------------------------------------------------------------
(* Types, one lemma per group of variables                                 *)

StateType ==
  /\ pc \in {"load", "idle", "writeId", "writeEncoding"}
  /\ next \in Signals
  /\ ram \in [Signals -> SigFmt]
  /\ new \in Settings \cup {Nothing}

ReplyType ==
  reply \in {NoFrame, ErrFrame} \cup
    [kind : {"format"}, sig : Signals, id : Wire, encoding : EncodingCell]

EepromType ==
  /\ idCell \in [Signals -> Number]
  /\ encCell \in [Signals -> EncodingCell]
  /\ unsettled \subseteq Signals
  /\ wanted \in [Signals -> Fmts]
  /\ cut \in [Signals -> Fmts]

LEMMA SettingShape ==
  ASSUME NEW n \in Settings
  PROVE  /\ n.sig \in Signals /\ n.fmt \in SigFmt /\ n # Nothing
         /\ n.fmt # Nothing /\ n.fmt.id \in Id /\ n.fmt.encoding \in Encodings
BY NothingAssumption DEF Settings, SigFmt

\* A frame without a format makes no statement about one.
LEMMA NoAnswer ==
  ASSUME NEW r \in {NoFrame, ErrFrame}, reply' = r
  PROVE  ReplyType' /\ AnswersConfirm'
BY DEF ReplyType, AnswersConfirm, NoFrame, ErrFrame

-----------------------------------------------------------------------------
(* The invariant                                                           *)

LEMMA InitInv == ASSUME Init PROVE IInv
<1>1. 0 \in Signals
  BY SignalsAssumption DEF Signals
<1>2. StateType
  BY <1>1, ZeroFmtType DEF Init, StateType
<1>3. ReplyType /\ AnswersConfirm
  BY DEF Init, ReplyType, AnswersConfirm, NoFrame
<1>4. EepromType
  BY DEF Init, EepromType, Fmts
<1>5. Pending /\ StaysStored /\ Loaded
  BY DEF Init, Pending, StaysStored, Loaded
<1> QED
  BY <1>2, <1>3, <1>4, <1>5 DEF IInv, TypeOK, StateType, ReplyType, EepromType

\* What the EEPROM gives back of a format that was set, and not replaced in part.
ComesBack(s, f) ==
  /\ f.encoding = wanted[s].encoding
  /\ cut[s] = Nothing => /\ f = Reloaded(wanted[s])
                         /\ Survives(wanted[s].id) => f.id = wanted[s].id

LEMMA ReadBack ==
  ASSUME TypeOK, StaysStored, NEW s \in Signals, wanted[s] # Nothing
  PROVE  ComesBack(s, [id |-> UnpackId(idCell[s]), encoding |-> UnpackEncoding(encCell[s])])
<1>1. wanted[s].id \in Id /\ wanted[s].encoding \in Encodings
  BY DEF TypeOK, Fmts, SigFmt
<1>2. /\ UnpackEncoding(encCell[s]) = wanted[s].encoding
      /\ cut[s] = Nothing => idCell[s] = PackId(wanted[s].id)
  BY DEF StaysStored
<1> QED
  BY <1>1, <1>2, IdRoundTrip DEF ComesBack, Reloaded

LEMMA LoadInv == ASSUME IInv, Load PROVE IInv'
<1> DEFINE fmt == [id |-> UnpackId(idCell[next]), encoding |-> UnpackEncoding(encCell[next])]
<1>1. /\ pc = "load" /\ ram' = [ram EXCEPT ![next] = fmt]
      /\ unsettled' = {} /\ reply' = NoFrame
      /\ UNCHANGED <<new, idCell, encCell, wanted, cut>>
  BY DEF Load, history
<1>2. next \in Signals /\ fmt \in SigFmt
  BY UnpackIdType, UnpackEncodingType DEF IInv, TypeOK, SigFmt
<1>3. \/ next = NSIG - 1 /\ next' = 0 /\ pc' = "idle"
      \/ next # NSIG - 1 /\ next' = next + 1 /\ pc' = "load"
  BY DEF Load
<1>4. next' \in Signals
  BY <1>2, <1>3, SignalsAssumption DEF Signals
<1>5. wanted[next] # Nothing => ComesBack(next, fmt)
  BY <1>2, ReadBack DEF IInv
<1> HIDE DEF fmt
<1>6. StateType'
  BY <1>1, <1>2, <1>3, <1>4 DEF IInv, TypeOK, StateType
<1>7. EepromType'
  BY <1>1 DEF IInv, TypeOK, EepromType
<1>8. Pending' /\ StaysStored'
  BY <1>1, <1>3 DEF IInv, Pending, StaysStored
<1>9. Loaded'
  <2> SUFFICES ASSUME NEW s \in Signals, wanted'[s] # Nothing, pc' = "load" => s < next'
               PROVE  Holds(s, wanted[s])'
    BY DEF Loaded
  <2>1. s = next \/ s < next
    BY <1>2, <1>3, SignalsAssumption DEF Signals
  <2>2. CASE s = next
    BY <1>1, <1>2, <1>5, <2>2 DEF IInv, TypeOK, Holds, ComesBack
  <2>3. CASE s # next
    <3>1. Holds(s, wanted[s])
      BY <1>1, <2>1, <2>3 DEF IInv, Loaded
    <3>2. ram'[s] = ram[s] /\ wanted'[s] = wanted[s] /\ cut'[s] = cut[s]
      BY <1>1, <2>3 DEF IInv, TypeOK
    <3> QED
      BY <3>1, <3>2 DEF Holds
  <2> QED
    BY <2>2, <2>3
<1> QED
  BY <1>1, <1>6, <1>7, <1>8, <1>9, NoAnswer DEF IInv, TypeOK, StateType, ReplyType, EepromType

\* A restart: nothing has been loaded yet.
LEMMA StartInv ==
  ASSUME StartAgain
  PROVE  StateType' /\ Pending' /\ Loaded'
<1>1. 0 \in Signals /\ \A s \in Signals : ~(s < 0)
  BY SignalsAssumption DEF Signals
<1>2. StateType'
  BY <1>1, ZeroFmtType DEF StartAgain, StateType
<1> QED
  BY <1>1, <1>2 DEF StartAgain, Pending, Loaded

LEMMA RestartInv == ASSUME IInv, LoadFails \/ PowerLoss PROVE IInv'
<1>1. StateType' /\ Pending' /\ Loaded'
  BY StartInv DEF LoadFails, PowerLoss
<1>2. ReplyType' /\ AnswersConfirm'
  BY NoAnswer DEF LoadFails, PowerLoss
<1>3. EepromType' /\ StaysStored'
  <2>1. CASE LoadFails
    BY <2>1 DEF LoadFails, eeprom, history, IInv, TypeOK, EepromType, StaysStored
  <2>2. CASE PowerLoss
    <3>1. EepromType'
      BY <2>2 DEF PowerLoss, IInv, TypeOK, EepromType, Fmts
    <3>2. StaysStored'
      BY <2>2 DEF PowerLoss, IInv, StaysStored
    <3> QED
      BY <3>1, <3>2
  <2> QED
    BY <2>1, <2>2
<1> QED
  BY <1>1, <1>2, <1>3 DEF IInv, TypeOK, StateType, ReplyType, EepromType

\* What an idle device works with is what the EEPROM holds.
LEMMA InUseIsStored ==
  ASSUME TypeOK, StaysStored, Loaded, pc = "idle",
         NEW s \in Signals, wanted[s] # Nothing, cut[s] = Nothing
  PROVE  /\ PackId(ram[s].id) = idCell[s]
         /\ ram[s].encoding = UnpackEncoding(encCell[s])
         /\ ram[s].id \in {wanted[s].id, Reloaded(wanted[s]).id}
<1>1. wanted[s].id \in Id
  BY DEF TypeOK, Fmts, SigFmt
<1>2. Holds(s, wanted[s])
  BY DEF Loaded
<1>3. /\ idCell[s] = PackId(wanted[s].id)
      /\ UnpackEncoding(encCell[s]) = wanted[s].encoding
  BY DEF StaysStored
<1>4. CASE ram[s].id = wanted[s].id
  BY <1>2, <1>3, <1>4 DEF Holds
<1>5. CASE ~Survives(wanted[s].id) /\ ram[s] = Reloaded(wanted[s])
  <2>1. ram[s].id = UnpackId(PackId(wanted[s].id))
    BY <1>5 DEF Reloaded
  <2> QED
    BY <1>1, <1>2, <1>3, <1>5, <2>1, StoredAgain DEF Holds
<1> QED
  BY <1>2, <1>4, <1>5 DEF Holds

\* Frames that change nothing but the reply.
LEMMA AnswerInv ==
  ASSUME IInv, NEW sig \in 0..NSIG,
         \/ \E dlcIs7 \in BOOLEAN : Refuse(sig, dlcIs7)
         \/ Respond(sig)
  PROVE  IInv'
<1>1. UNCHANGED <<pc, next, ram, new, idCell, encCell, unsettled, wanted, cut>>
  BY DEF Refuse, Respond, eeprom, history
<1>2. StateType' /\ EepromType' /\ Pending' /\ StaysStored' /\ Loaded'
  BY <1>1 DEF IInv, TypeOK, StateType, EepromType, Pending, StaysStored, Loaded, Holds
<1>3. ReplyType' /\ AnswersConfirm'
  <2>1. CASE reply' = ErrFrame
    BY <2>1, NoAnswer
  <2>2. CASE reply' # ErrFrame
    <3>1. pc = "idle" /\ sig \in Signals /\ reply' = [kind |-> "format", sig |-> sig,
              id |-> PackWire(ram[sig].id), encoding |-> PackEncoding(ram[sig].encoding)]
      BY <2>2, SignalsAssumption DEF Refuse, Respond, Valid, Signals
    <3>2. ram[sig].id \in Id /\ ram[sig].encoding \in Encodings
      BY <3>1 DEF IInv, TypeOK, SigFmt
    <3>3. /\ DecodeWire(reply'.id) = ram[sig].id
          /\ UnpackEncoding(reply'.encoding) = ram[sig].encoding
      BY <3>1, <3>2, WireRoundTrip, EncodingRoundTrip
    <3>4. ReplyType'
      BY <3>1, <3>2, WireRoundTrip, EncodingRoundTrip DEF ReplyType
    <3>5. wanted[sig] # Nothing /\ cut[sig] = Nothing =>
            /\ PackId(ram[sig].id) = idCell[sig]
            /\ ram[sig].encoding = UnpackEncoding(encCell[sig])
            /\ ram[sig].id \in {wanted[sig].id, Reloaded(wanted[sig]).id}
      BY <3>1, InUseIsStored DEF IInv
    <3> QED
      BY <1>1, <3>1, <3>3, <3>4, <3>5 DEF AnswersConfirm
  <2> QED
    BY <2>1, <2>2
<1> QED
  BY <1>2, <1>3 DEF IInv, TypeOK, StateType, ReplyType, EepromType

LEMMA AcceptInv ==
  ASSUME IInv, NEW sig \in 0..NSIG, NEW wire \in Sent, NEW cell \in EncodingCell,
         Accept(sig, wire, cell)
  PROVE  IInv'
<1>1. /\ UNCHANGED <<next, ram, idCell, encCell, unsettled, wanted, cut>>
      /\ pc = "idle" /\ pc' = "writeId" /\ reply' = NoFrame
  BY DEF Accept, eeprom, history
<1>2. new' \in Settings
  <2>1. sig \in Signals
    BY SignalsAssumption DEF Accept, Valid, Signals
  <2> QED
    BY <2>1, UnpackWireType, UnpackEncodingType, SentAssumption DEF Accept, Settings, SigFmt
<1>3. StateType' /\ EepromType' /\ Pending' /\ StaysStored' /\ Loaded'
  BY <1>1, <1>2 DEF IInv, TypeOK, StateType, EepromType, Pending, StaysStored, Loaded, Holds
<1> QED
  BY <1>1, <1>3, NoAnswer DEF IInv, TypeOK, StateType, ReplyType, EepromType

LEMMA WriteIdInv == ASSUME IInv, WriteId PROVE IInv'
<1>1. /\ UNCHANGED <<next, ram, new, encCell, wanted>>
      /\ idCell' = [idCell EXCEPT ![new.sig] = PackId(new.fmt.id)]
      /\ cut' = [cut EXCEPT ![new.sig] = new.fmt]
      /\ unsettled' = PageMates(new.sig)
      /\ pc = "writeId" /\ pc' = "writeEncoding" /\ reply' = NoFrame
  BY DEF WriteId
<1>2. /\ new \in Settings /\ new.sig \in Signals /\ new.fmt \in SigFmt
      /\ new.fmt # Nothing /\ PackId(new.fmt.id) \in Number
  BY <1>1, SettingShape, PackIdType DEF IInv, Pending
<1>3. StateType'
  BY <1>1 DEF IInv, TypeOK, StateType
<1>4. EepromType'
  BY <1>1, <1>2 DEF IInv, TypeOK, EepromType, Fmts, PageMates
<1>5. Pending' /\ StaysStored'
  BY <1>1, <1>2 DEF IInv, TypeOK, Pending, StaysStored
<1>6. Loaded'
  BY <1>1, <1>2 DEF IInv, TypeOK, Loaded, Holds
<1> QED
  BY <1>1, <1>3, <1>4, <1>5, <1>6, NoAnswer
     DEF IInv, TypeOK, StateType, ReplyType, EepromType

LEMMA WriteEncodingInv == ASSUME IInv, WriteEncoding PROVE IInv'
<1>1. /\ UNCHANGED <<next, idCell>>
      /\ encCell' = [encCell EXCEPT ![new.sig] = PackEncoding(new.fmt.encoding)]
      /\ ram' = [ram EXCEPT ![new.sig] = new.fmt]
      /\ wanted' = [wanted EXCEPT ![new.sig] = new.fmt]
      /\ cut' = [cut EXCEPT ![new.sig] = Nothing]
      /\ unsettled' = PageMates(new.sig) /\ new' = Nothing
      /\ pc = "writeEncoding" /\ pc' = "idle" /\ reply' = NoFrame
  BY DEF WriteEncoding
<1>2. /\ new \in Settings /\ new.sig \in Signals /\ new.fmt \in SigFmt
      /\ PackEncoding(new.fmt.encoding) \in EncodingCell
      /\ UnpackEncoding(PackEncoding(new.fmt.encoding)) = new.fmt.encoding
      /\ idCell[new.sig] = PackId(new.fmt.id)
  BY <1>1, SettingShape, EncodingRoundTrip DEF IInv, Pending
<1>3. StateType'
  BY <1>1, <1>2 DEF IInv, TypeOK, StateType
<1>4. EepromType'
  BY <1>1, <1>2 DEF IInv, TypeOK, EepromType, Fmts, PageMates
<1>5. Pending' /\ StaysStored'
  BY <1>1, <1>2 DEF IInv, TypeOK, Pending, StaysStored
<1>6. Loaded'
  BY <1>1, <1>2 DEF IInv, TypeOK, Loaded, Holds
<1> QED
  BY <1>1, <1>3, <1>4, <1>5, <1>6, NoAnswer
     DEF IInv, TypeOK, StateType, ReplyType, EepromType

LEMMA WriteFailsInv == ASSUME IInv, WriteFails PROVE IInv'
<1>1. /\ UNCHANGED <<next, ram, idCell, encCell, unsettled, wanted, cut>>
      /\ pc # "load" /\ pc' = "idle" /\ new' = Nothing /\ reply' = ErrFrame
  BY DEF WriteFails, eeprom, history
<1>2. StateType' /\ EepromType' /\ Pending' /\ StaysStored' /\ Loaded'
  BY <1>1 DEF IInv, TypeOK, StateType, EepromType, Pending, StaysStored, Loaded, Holds
<1> QED
  BY <1>1, <1>2, NoAnswer DEF IInv, TypeOK, StateType, ReplyType, EepromType

LEMMA SettleInv == ASSUME IInv, Settle \/ UNCHANGED vars PROVE IInv'
<1>1. /\ UNCHANGED <<pc, next, ram, new, reply, idCell, encCell, wanted, cut>>
      /\ unsettled' \subseteq unsettled
  BY DEF Settle, vars, history
<1> QED
  BY <1>1 DEF IInv, TypeOK, Pending, StaysStored, Loaded, Holds, AnswersConfirm

LEMMA StepInv == ASSUME IInv, [Next]_vars PROVE IInv'
BY LoadInv, RestartInv, AnswerInv, AcceptInv, WriteIdInv, WriteEncodingInv,
   WriteFailsInv, SettleInv DEF Next

THEOREM Invariance == Spec => []IInv
<1>1. Init => IInv
  BY InitInv
<1>2. IInv /\ [Next]_vars => IInv'
  BY StepInv
<1> QED
  BY <1>1, <1>2, PTL DEF Spec

\* Every variable keeps its type, whatever the EEPROM held at first.
THEOREM TypeCorrect == Spec => []TypeOK
BY Invariance, PTL DEF IInv

\* A format set with success is in the EEPROM until its signal is set again, but for
\* the identifier of a frame whose encoding was not stored, and for a power loss
\* while its page is being rewritten; other signals on the page do not disturb it.
THEOREM FormatsStayStored == Spec => []StaysStored
BY Invariance, PTL DEF IInv

\* The device works with the format that was set, before and after restarts, as far
\* as the stored form of its identifier allows; while another frame has replaced it
\* in part, with its encoding.
THEOREM ConfigurationSurvives == Spec => []ConfigSurvives
<1>1. IInv => ConfigSurvives
  BY DEF IInv, Loaded, Holds, ConfigSurvives
<1> QED
  BY <1>1, Invariance, PTL

\* What the tool decodes of an answer is what the EEPROM holds of the format set last,
\* unless another frame has replaced it in part.
THEOREM AnswersAreTrue == Spec => []AnswersConfirm
BY Invariance, PTL DEF IInv

\* A format that was set gives way in RAM only to the whole of another, to zeros at a
\* reset, and at boot to what the EEPROM holds: itself as the stored form leaves it,
\* unless another frame has replaced it in part, which a boot mixes with it.
THEOREM FormatsChangeAsWhole == Spec => ChangesAsWhole
<1> DEFINE Whole(s) == ram'[s] # ram[s] /\ wanted'[s] # Nothing =>
             \/ ram'[s] = wanted'[s]
             \/ pc' = "load" /\ ram'[s] = ZeroFmt
             \/ pc = "load" /\ (cut[s] # Nothing \/ ram'[s] = Reloaded(wanted[s]))
<1>1. IInv /\ [Next]_vars => [\A s \in Signals : Whole(s)]_vars
  <2> SUFFICES ASSUME IInv, Next, NEW s \in Signals, ram'[s] # ram[s], wanted'[s] # Nothing
               PROVE  Whole(s)
    OBVIOUS
  <2>1. CASE Load
    <3>1. /\ pc = "load" /\ wanted' = wanted
          /\ ram' = [ram EXCEPT ![next] = [id |-> UnpackId(idCell[next]),
                                           encoding |-> UnpackEncoding(encCell[next])]]
      BY <2>1 DEF Load, history
    <3>2. s = next /\ ram'[s] = [id |-> UnpackId(idCell[s]),
                                 encoding |-> UnpackEncoding(encCell[s])]
      BY <3>1 DEF IInv, TypeOK
    <3>3. ComesBack(s, ram'[s])
      BY <3>1, <3>2, ReadBack DEF IInv
    <3> QED
      BY <3>1, <3>3 DEF ComesBack
  <2>2. CASE LoadFails \/ PowerLoss
    BY <2>2 DEF LoadFails, PowerLoss, StartAgain
  <2>3. CASE WriteEncoding
    <3>1. new \in Settings /\ new.sig \in Signals
      BY <2>3, SettingShape DEF WriteEncoding, IInv, Pending
    <3> QED
      BY <2>3, <3>1 DEF WriteEncoding, IInv, TypeOK
  <2> QED
    BY <2>1, <2>2, <2>3
       DEF Next, Refuse, Accept, Respond, WriteId, WriteFails, Settle
<1> QED
  BY <1>1, Invariance, PTL DEF Spec, ChangesAsWhole
=============================================================================
