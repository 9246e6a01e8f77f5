--------------------------- MODULE Measurements ---------------------------
(***************************************************************************)
(* How harness/tamper_proxy.py reads a MEASUREMENTS response: what it      *)
(* learns from the messages before it, the walk over the measurement       *)
(* record, the layout with its closing equation, and the byte a requested  *)
(* change selects.  A message is the sequence of its bytes; offsets count  *)
(* from 0, as the code's do.                                               *)
(***************************************************************************)
EXTENDS Integers, Sequences, SequencesExt

NonceSize == 32         \* SPDM_NONCE_SIZE
ContextSize == 8        \* SPDM_REQ_CONTEXT_SIZE
Unknown == -1           \* Python's None, for a length

\* BASE_ASYM: BaseAsymSel -> the size of a signature.
BaseAsym == [s \in {1, 2, 4, 8, 16, 32, 64, 128, 256, 512, 1024, 2048} |->
    IF s \in {1, 2} THEN 256
    ELSE IF s \in {4, 8} THEN 384
    ELSE IF s \in {16, 512, 1024} THEN 64
    ELSE IF s \in {32, 64} THEN 512
    ELSE IF s = 128 THEN 96
    ELSE IF s = 256 THEN 132
    ELSE 114]
SignatureSizes == {BaseAsym[s] : s \in DOMAIN BaseAsym}

At(b, off)  == b[off + 1]
U16(b, off) == At(b, off) + 256 * At(b, off + 1)
U24(b, off) == U16(b, off) + 65536 * At(b, off + 2)

-----------------------------------------------------------------------------
(* What the proxy has learned: the sizes the layout must agree with.       *)

Conversation == [signature : {Unknown} \cup SignatureSizes, pqc : BOOLEAN,
                 context : {Unknown, 0, ContextSize}, requested : BOOLEAN]
NewConversation ==
    [signature |-> Unknown, pqc |-> FALSE, context |-> Unknown, requested |-> FALSE]

\* An ALGORITHMS response: whether it is shorter than 36 bytes, whether its
\* Length is the number of bytes that arrived, whether its version is 1.4 or
\* later, and its two selectors (pqc: PqcAsymSel # 0).
ObserveAlgorithms(conv, a) ==
    IF a.short \/ ~a.lengthAgrees THEN conv
    ELSE [conv EXCEPT
            !.pqc = IF a.from14 THEN a.pqc ELSE @,
            !.signature = IF a.asym \in DOMAIN BaseAsym THEN BaseAsym[a.asym] ELSE @]

\* A GET_MEASUREMENTS request: whether it asks for a signature, and the bytes
\* it has beyond the fixed ones.
ObserveAnySpan(conv, g) ==
    [conv EXCEPT !.requested = g.signature, !.context = g.span]

ObserveGetMeasurements(conv, g) ==
    [conv EXCEPT !.requested = g.signature,
                 !.context = IF g.span \in {0, ContextSize} THEN g.span ELSE Unknown]

-----------------------------------------------------------------------------
(* walk_record: tile the record with exactly n blocks.                     *)

\* One block.  Only the DMTF format (bit 0 of MeasurementSpecification) has a
\* value field, and only when the value fits in the measurement.
Block(record, p) ==
    LET size == U16(record, p + 2) IN
    [index |-> At(record, p),
     dmtf  |-> /\ At(record, p + 1) % 2 = 1
               /\ size >= 3
               /\ 3 + U16(record, p + 5) <= size,
     valueAt    |-> p + 7,
     valueBytes |-> IF size >= 3 THEN U16(record, p + 5) ELSE 0]

WalkStart == [at |-> 0, blocks |-> <<>>, check |-> "closed"]

Refuse(w, check) == [at |-> w.at, blocks |-> w.blocks, check |-> check]

\* One turn of the loop; a refusal ends it where it is.
WalkStep(record, w) ==
    IF w.check # "closed" THEN w
    ELSE IF w.at + 4 > Len(record) THEN Refuse(w, "block-header-overruns")
    ELSE IF w.at + 4 + U16(record, w.at + 2) > Len(record)
      THEN Refuse(w, "block-size-overruns")
    ELSE [at     |-> w.at + 4 + U16(record, w.at + 2),
          blocks |-> Append(w.blocks, Block(record, w.at)),
          check  |-> "closed"]

WalkRecord(record, n) ==
    LET walk[k \in 0 .. n] ==
          IF k = 0 THEN WalkStart ELSE WalkStep(record, walk[k - 1])
        last == walk[n]
    IN IF last.check = "closed" /\ last.at # Len(record)
       THEN Refuse(last, "walk-does-not-tile") ELSE last

-----------------------------------------------------------------------------
(* parse_measurements: the layout, or the check that refuses it.           *)

RecordOffset == 8
RecordBytes(msg) == U24(msg, 5)
OpaqueLengthAt(msg) == RecordOffset + RecordBytes(msg) + NonceSize
SignatureOffset(msg, conv) ==
    OpaqueLengthAt(msg) + 2 + U16(msg, OpaqueLengthAt(msg)) + conv.context
SignatureBytes(msg, conv) == Len(msg) - SignatureOffset(msg, conv)
Walk(msg) ==
    WalkRecord(SubSeq(msg, RecordOffset + 1, RecordOffset + RecordBytes(msg)),
               At(msg, 4))

ParseCheckNotClosing(msg, conv) ==
    IF conv.signature = Unknown THEN "no-algorithms"
    ELSE IF conv.pqc THEN "pqc-unsized"
    ELSE IF conv.context = Unknown THEN "no-context"
    ELSE IF Len(msg) < RecordOffset THEN "index-error"
    ELSE IF RecordOffset + RecordBytes(msg) > Len(msg) THEN "record-overruns-message"
    ELSE IF OpaqueLengthAt(msg) + 2 > Len(msg) THEN "no-room-after-record"
    ELSE IF SignatureOffset(msg, conv) > Len(msg) THEN "opaque-overruns-message"
    ELSE Walk(msg).check

ParseCheck(msg, conv) ==
    IF conv.signature = Unknown THEN "no-algorithms"
    ELSE IF conv.pqc THEN "pqc-unsized"
    ELSE IF conv.context = Unknown THEN "no-context"
    ELSE IF Len(msg) < RecordOffset THEN "index-error"
    ELSE IF RecordOffset + RecordBytes(msg) > Len(msg) THEN "record-overruns-message"
    ELSE IF OpaqueLengthAt(msg) + 2 > Len(msg) THEN "no-room-after-record"
    ELSE IF SignatureOffset(msg, conv) > Len(msg) THEN "opaque-overruns-message"
    ELSE IF Walk(msg).check # "closed" THEN Walk(msg).check
    ELSE IF SignatureBytes(msg, conv) # (IF conv.requested THEN conv.signature ELSE 0)
      THEN "signature-length"
    ELSE "closed"

-----------------------------------------------------------------------------
(* apply_tamper: the byte to change in a message whose layout has closed.  *)

Matches(msg, index) ==
    LET blocks == Walk(msg).blocks
    IN {i \in DOMAIN blocks : blocks[i].index = index}
FirstMatch(msg, index) ==
    LET found == Matches(msg, index)
    IN Walk(msg).blocks[CHOOSE i \in found : \A j \in found : i <= j]

\* A negative signature offset counts back from the end.
SignatureIndex(msg, conv, offset) ==
    IF offset >= 0 THEN offset ELSE SignatureBytes(msg, conv) + offset

TamperCheck(msg, conv, args) ==
    IF args.mode = "record" THEN
         IF Matches(msg, args.block) = {} THEN "no-such-block"
         ELSE LET b == FirstMatch(msg, args.block) IN
              IF ~b.dmtf THEN "block-not-dmtf-format"
              ELSE IF args.offset \in 0 .. b.valueBytes - 1 THEN "applied"
              ELSE "offset-outside-field"
    ELSE IF SignatureIndex(msg, conv, args.offset) \in 0 .. SignatureBytes(msg, conv) - 1
         THEN "applied" ELSE "offset-outside-field"

Target(msg, conv, args) ==
    IF args.mode = "record"
    THEN RecordOffset + FirstMatch(msg, args.block).valueAt + args.offset
    ELSE SignatureOffset(msg, conv) + SignatureIndex(msg, conv, args.offset)

-----------------------------------------------------------------------------
(* A responder's MEASUREMENTS response: the structure it means, with the   *)
(* counts and lengths it writes, and the bytes of it.                      *)

Blocks == [index : Nat, spec : Nat, value : Nat]
Pad(n) == [i \in 1 .. n |-> 0]
Le16(n) == <<n % 256, n \div 256>>
EncodeBlock(b) ==
    <<b.index, b.spec>> \o Le16(3 + b.value) \o <<1>> \o Le16(b.value) \o Pad(b.value)

EncodeRecord(blocks) == FlattenSeq([i \in DOMAIN blocks |-> EncodeBlock(blocks[i])])

\* The bytes that matter, by their place; nonce, opaque data, requester context
\* and signature have places and no contents.  A cut message ends after its
\* record.
Encode(m) ==
    LET record == EncodeRecord(m.blocks)
        opaqueAt == 8 + Len(record) + NonceSize
        size == IF m.cut THEN 8 + Len(record)
                ELSE opaqueAt + 2 + (m.opaque + m.context + m.signature)
    IN [i \in 1 .. size |->
          IF i = 5 THEN m.count
          ELSE IF i = 6 THEN m.recordSays % 256
          ELSE IF i = 7 THEN m.recordSays \div 256
          ELSE IF i \in 9 .. 8 + Len(record) THEN record[i - 8]
          ELSE IF i = opaqueAt + 1 THEN m.opaqueSays % 256
          ELSE IF i = opaqueAt + 2 THEN m.opaqueSays \div 256
          ELSE 0]

\* What a responder can write.
Response(m) ==
    /\ m.count \in Nat /\ m.cut \in BOOLEAN
    /\ m.recordSays \in Nat /\ m.recordSays < 65536
    /\ m.opaqueSays \in Nat /\ m.opaqueSays < 65536
    /\ m.opaque \in Nat /\ m.context \in Nat /\ m.signature \in Nat
    /\ m.blocks \in Seq(Blocks)

\* The response says of itself what is in it, in sizes SPDM has.
Honest(m) ==
    /\ ~m.cut
    /\ m.count = Len(m.blocks) /\ m.recordSays = Len(EncodeRecord(m.blocks))
    /\ m.opaqueSays = m.opaque
    /\ m.context \in {0, ContextSize} /\ m.signature \in {0} \cup SignatureSizes

\* Where the byte the arguments name really is.
TrueTarget(m, args) ==
    IF args.mode = "record"
    THEN LET i == CHOOSE i \in DOMAIN m.blocks :
                    /\ m.blocks[i].index = args.block
                    /\ \A j \in 1 .. i - 1 : m.blocks[j].index # args.block
         IN RecordOffset + Len(EncodeRecord(SubSeq(m.blocks, 1, i - 1))) + 7 + args.offset
    ELSE Len(Encode(m))
           - (IF args.offset >= 0 THEN m.signature - args.offset ELSE -args.offset)
=============================================================================
