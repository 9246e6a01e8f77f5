------------------------------- MODULE Layout -------------------------------
(***************************************************************************)
(* harness/fields.py: the layouts it rebuilds from a capture's bytes, and  *)
(* the equations each must satisfy before an offset is believed.           *)
(*                                                                         *)
(* A message is [seq, code, dir, raw, carried]: its packet, its code, who   *)
(* sent it, its bytes with offsets from 0, and the messages that travelled  *)
(* inside it.  A reading is [why, ...]: "closed" and what was placed, or    *)
(* the reason it was refused.                                               *)
(***************************************************************************)
EXTENDS Integers, Sequences, SequencesExt, FiniteSets
LOCAL B == INSTANCE Measurements

CONSTANTS HashOf(_)     \* the hash the connection negotiated

Unknown == -1           \* Python's None
ContextBytes == 8       \* CONTEXT_BYTES
NonceBytes == 32
At(raw, off)  == raw[off + 1]
U16(raw, off) == B!U16(raw, off)
U24(raw, off) == B!U24(raw, off)
U32(raw, off) == U24(raw, off) + 16777216 * At(raw, off + 3)
Slice(raw, from, n) == SubSeq(raw, from + 1, from + n)
Refuse(why) == [why |-> why]

\* _request_before: the last message of that code before message i whose bytes
\* were read.
RequestFirst(ordered, i, code) ==
    LET before == {j \in 1 .. i - 1 : ordered[j].code = code /\ ordered[j].raw # <<>>} IN
    IF before = {} THEN 0 ELSE CHOOSE j \in before : \A k \in before : j <= k

RequestBefore(ordered, i, code) ==
    LET before == {j \in 1 .. i - 1 : ordered[j].code = code /\ ordered[j].raw # <<>>} IN
    IF before = {} THEN 0 ELSE CHOOSE j \in before : \A k \in before : k <= j

\* _context_span: RequesterContext, from the length of the request.
ContextSpan(req, fixed) ==
    IF Len(req.raw) - fixed \in {0, ContextBytes} THEN Len(req.raw) - fixed ELSE Unknown

\* _settle: exactly one hypothesis closes, and the context comes back.
SettleAny(closed, rsp, req, ctx, contextAt) ==
    IF closed = {} THEN Refuse("does-not-close")
    ELSE CHOOSE c \in closed : TRUE

Settle(closed, rsp, req, ctx, contextAt) ==
    IF closed = {} THEN Refuse("does-not-close")
    ELSE IF Cardinality(closed) > 1 THEN Refuse("ambiguous")
    ELSE LET placed == CHOOSE c \in closed : TRUE IN
         IF Slice(rsp.raw, placed.context, ctx) # Slice(req.raw, contextAt, ctx)
         THEN Refuse("no-echo") ELSE placed

-----------------------------------------------------------------------------
(* The signed responses.                                                   *)

\* _place_challenge_auth: a summary is absent, or sized by one hash or the other.
PlaceChallengeAuth(rsp, req, base, meas, sig) ==
    LET raw == rsp.raw
        ctx == ContextSpan(req, 4 + NonceBytes)
        hypotheses ==
          IF At(req.raw, 3) = 0 THEN {<<0, "absent">>}
          ELSE {<<base, "BaseHashAlgo">>, <<meas, "MeasurementHashAlgo">>}
        OpaqueAt(h) == 4 + base + NonceBytes + h[1]
        ContextAt(h) == OpaqueAt(h) + 2 + U16(raw, OpaqueAt(h))
        closes(h) ==
          /\ base # Unknown
          /\ h[1] # Unknown
          /\ OpaqueAt(h) + 2 <= Len(raw)
          /\ ContextAt(h) + ctx <= Len(raw)
          /\ Len(raw) - (ContextAt(h) + ctx) = sig
    IN IF ctx = Unknown THEN Refuse("request-length")
       ELSE Settle({[why |-> "closed", by |-> h[2], nonce |-> 4 + base, summary |-> h[1],
                     opaque |-> OpaqueAt(h), context |-> ContextAt(h),
                     signature |-> ContextAt(h) + ctx] : h \in {g \in hypotheses : closes(g)}},
                   rsp, req, ctx, 4 + NonceBytes)

\* _place_measurements: a nonce and a slot are asked for with a signature.
PlaceMeasurements(rsp, req, sig) ==
    LET raw == rsp.raw
        signed == At(req.raw, 2) % 2 = 1
        fixed == 4 + (IF signed THEN NonceBytes + 1 ELSE 0)
        ctx == ContextSpan(req, fixed)
        opaque == 8 + U24(raw, 5) + NonceBytes
        context == opaque + 2 + U16(raw, opaque)
    IN IF ctx = Unknown THEN Refuse("request-length")
       ELSE IF opaque + 2 > Len(raw) THEN Refuse("record-overruns-message")
       ELSE IF context + ctx > Len(raw) THEN Refuse("opaque-overruns-message")
       ELSE Settle(IF Len(raw) - (context + ctx) # (IF signed THEN sig ELSE 0) THEN {}
                   ELSE {[why |-> "closed", signed |-> signed, nonce |-> 8 + U24(raw, 5),
                          opaque |-> opaque, context |-> context,
                          signature |-> context + ctx]},
                   rsp, req, ctx, fixed)

\* _measurement_record: the blocks in their order, "blocks" by their index.  The
\* walk stops at the first block whose sizes disagree.
MeasurementRecord(raw, offset, length, declared) ==
    LET end == offset + length
        walk[k \in 0 .. length] ==
          IF k = 0 THEN [at |-> offset, blocks |-> <<>>, why |-> "closed"]
          ELSE LET w == walk[k - 1] IN
               IF w.why # "closed" \/ w.at >= end THEN w
               ELSE IF w.at + 4 > end THEN [w EXCEPT !.why = "header_past_end"]
               ELSE LET size == U16(raw, w.at + 2) IN
                    IF w.at + 4 + size > end THEN [w EXCEPT !.why = "block_past_end"]
                    ELSE IF size < 3 THEN [w EXCEPT !.why = "block_too_small"]
                    ELSE IF size # 3 + U16(raw, w.at + 5)
                      THEN [w EXCEPT !.why = "size_disagrees"]
                    ELSE [at |-> w.at + 4 + size, why |-> "closed",
                          blocks |-> Append(w.blocks,
                            [index |-> At(raw, w.at),
                             type  |-> At(raw, w.at + 4) % 128,
                             isRaw |-> At(raw, w.at + 4) >= 128,
                             value |-> Slice(raw, w.at + 7, size - 3)])]
        Walked(last) ==
          IF last.why # "closed" THEN Refuse(last.why)
          ELSE IF Len(last.blocks) # declared THEN Refuse("count_mismatch") ELSE last
    IN IF length <= 0 \/ end > Len(raw) THEN Refuse("record_outside_message")
       ELSE Walked(walk[length])

-----------------------------------------------------------------------------
(* The certificate chain.                                                  *)

\* _der_sequences: whole SEQUENCEs, each length in its one encoding; how many
\* bytes each takes.
DerLength(buf, i) ==
    LET lead == At(buf, i + 1)
        count == lead % 128
        body == FoldLeftDomain(LAMBDA acc, k : acc * 256 + At(buf, i + 1 + k), 0,
                               [k \in 1 .. count |-> k])
    IN IF At(buf, i) # 48 \/ i + 1 >= Len(buf) \/ lead = 128 THEN Unknown
       ELSE IF lead < 128 THEN 2 + lead
       ELSE IF count > 4 \/ i + 2 + count > Len(buf) THEN Unknown
       ELSE IF body < 128 \/ body < 256 ^ (count - 1) THEN Unknown
       ELSE 2 + count + body

DerSequences(buf) ==
    LET Further(w, n) ==
          IF n = Unknown \/ w.at + n > Len(buf) THEN [at |-> Unknown, lengths |-> <<>>]
          ELSE [at |-> w.at + n, lengths |-> Append(w.lengths, n)]
        walk[k \in 0 .. Len(buf)] ==
          IF k = 0 THEN [at |-> 0, lengths |-> <<>>]
          ELSE LET w == walk[k - 1] IN
               IF w.at = Unknown \/ w.at >= Len(buf) THEN w ELSE Further(w, DerLength(buf, w.at))
    IN walk[Len(buf)].lengths

\* _place_digests: what the length says each provisioned slot carries.
PlaceDigests(rsp, hash) ==
    LET raw == rsp.raw
        slots == Cardinality({b \in 0 .. 7 : (At(raw, 3) \div 2 ^ b) % 2 = 1})
        extras == {x \in {0, 4} : Len(raw) = 4 + slots * (hash + x)}
    IN IF hash = Unknown THEN Refuse("no-hash")
       ELSE IF slots = 0 THEN Refuse("no-slot")
       ELSE IF Cardinality(extras) # 1 THEN Refuse("does-not-close")
       ELSE [why |-> "closed", slots |-> slots, extra |-> CHOOSE x \in extras : TRUE]

\* _place_certificate: closure and, in a first portion, agreement, structure and
\* the digest of the first certificate.
PlaceCertificate(rsp, req, hash) ==
    LET raw == rsp.raw
        large == At(raw, 2) >= 128
        portion == IF large THEN U32(raw, 8) ELSE U16(raw, 4)
        remainder == IF large THEN U32(raw, 12) ELSE U16(raw, 6)
        chainAt == IF large THEN 16 ELSE 8
        first == (IF large THEN U32(req.raw, 8) ELSE U16(req.raw, 4)) = 0
        root == Slice(raw, chainAt + 4, hash)
        placed == [why |-> "closed", slot |-> At(raw, 2) % 16, first |-> first,
                   portion |-> portion, remainder |-> remainder,
                   chain |-> Unknown, root |-> <<>>, certificates |-> Unknown,
                   rootMatches |-> FALSE]
        WholeChain(certs, lengths) ==
          IF lengths = <<>> THEN Refuse("certificates-do-not-parse")
          ELSE [placed EXCEPT
                  !.chain = portion, !.root = root, !.certificates = Len(lengths),
                  !.rootMatches = HashOf(Slice(certs, 0, lengths[1])) = root]
        Whole(certs) == WholeChain(certs, DerSequences(certs))
    IN IF Len(raw) < 8 THEN Refuse("shorter-than-header")
       ELSE IF large # (At(req.raw, 2) >= 128) THEN Refuse("large-bit-disagrees")
       ELSE IF Len(req.raw) # (IF large THEN 16 ELSE 8) THEN Refuse("request-length")
       ELSE IF Len(raw) # chainAt + portion THEN Refuse("does-not-close")
       ELSE IF ~first \/ hash = Unknown THEN placed
       ELSE IF chainAt + 4 + hash > Len(raw) THEN Refuse("too-short")
       ELSE IF U32(raw, chainAt) # portion + remainder THEN Refuse("lengths-disagree")
       ELSE IF remainder # 0
         THEN [placed EXCEPT !.chain = portion + remainder, !.root = root]
       ELSE Whole(Slice(raw, chainAt + 4 + hash, U32(raw, chainAt) - 4 - hash))

-----------------------------------------------------------------------------
(* reconstruct: every message that has a layout, in the order of the wire, *)
(* with what was carried before its carrier.  neg holds the sizes of the   *)
(* negotiated algorithms: [hash, meas, sig, reqSig].                       *)

OnTheWire(messages) ==
    FlattenSeq([k \in DOMAIN messages |-> messages[k].carried \o <<messages[k]>>])

RequestFor == [CERTIFICATE |-> "GET_CERTIFICATE", CHALLENGE_AUTH |-> "CHALLENGE",
               MEASUREMENTS |-> "GET_MEASUREMENTS"]

\* Who sent the response signed it.
SignatureBytes(msg, neg) == IF msg.dir = "RSP" THEN neg.sig ELSE neg.reqSig

\* A message's reading, given the request it answers.
PlacedFor(msg, req, neg) ==
    LET sig == SignatureBytes(msg, neg) IN
    IF msg.code = "CERTIFICATE" THEN PlaceCertificate(msg, req, neg.hash)
    ELSE IF sig = Unknown THEN Refuse("no-algorithm")
    ELSE IF msg.code = "CHALLENGE_AUTH"
      THEN PlaceChallengeAuth(msg, req, neg.hash, neg.meas, sig)
    ELSE PlaceMeasurements(msg, req, sig)
Placed(ordered, i, neg) ==
    LET msg == ordered[i]
        Answering(before) ==
          IF before = 0 THEN Refuse("no-request") ELSE PlacedFor(msg, ordered[before], neg)
    IN IF msg.code = "DIGESTS" THEN PlaceDigests(msg, neg.hash)
       ELSE Answering(RequestBefore(ordered, i, RequestFor[msg.code]))

\* The records of the responder's MEASUREMENTS that closed, walked or not.
RecordOf(msg) ==
    LET bytes == U24(msg.raw, 5) IN
    [packet |-> msg.seq, bytes |-> bytes, declared |-> At(msg.raw, 4),
     walk |-> MeasurementRecord(msg.raw, 8, bytes, At(msg.raw, 4))]
Records(ordered, neg) ==
    LET closed == SelectSeq([i \in DOMAIN ordered |-> i], LAMBDA i :
          /\ ordered[i].code = "MEASUREMENTS" /\ ordered[i].dir = "RSP"
          /\ Placed(ordered, i, neg).why = "closed")
        Walked(all) == [k \in DOMAIN all |-> RecordOf(ordered[all[k]])]
    IN Walked(closed)

\* max by record_bytes: the first of the largest.
Largest(records) ==
    CHOOSE k \in DOMAIN records : \A j \in DOMAIN records :
      records[j].bytes <= records[k].bytes
      /\ (records[j].bytes = records[k].bytes => k <= j)
=============================================================================
