---------------------------- MODULE Attestation ----------------------------
(***************************************************************************)
(* A device that is updated, the MEASUREMENTS exchanges a capture keeps of *)
(* it, the reference values published from such a capture, and             *)
(* rats/appraise.py, which reads the layout (Layout), verifies the         *)
(* reference (Cose) and asks the policy (Corim).                           *)
(***************************************************************************)
EXTENDS Corim

CONSTANTS
    Devices,            \* the block sequences a device can hold
    Exchanges,          \* the shapes of a GET_MEASUREMENTS and its response
    Ecdsa,              \* the signatures openssl makes with each key, in DER
    SigBytes,           \* the size of the responder's signature
    MaxMessages,        \* captured exchanges in one capture
    Budget              \* steps of the environment

L == INSTANCE Layout WITH HashOf <- LAMBDA bytes : bytes

ASSUME AttestationAssumption ==
    /\ SigBytes \in Nat \ {0, L!ContextBytes}
    /\ \A x \in Exchanges : Len(x.ctx) \in {0, L!ContextBytes}
    /\ MaxMessages \in Nat /\ Budget \in Nat

VARIABLES
    device,             \* what the device holds
    algorithms,         \* the capture has the ALGORITHMS response
    wire,               \* the capture: messages, with their packets
    written,            \* what was written in each message, and what it answers
    file,               \* the published reference: its bytes
    published,          \* what it was made of, and what has befallen it
    signatures,         \* what openssl has signed
    outcome,            \* how the last appraisal ended
    spent
vars == <<device, algorithms, wire, written, file, published, signatures, outcome, spent>>

Trusted == "ref-signer"
Keys == {Trusted, "other"}
Alg == 7
Kid == <<107>>
Negotiated == [hash |-> 2, meas |-> 2, sig |-> SigBytes, reqSig |-> L!Unknown]
NoFile == <<>>
NotYet == [exit |-> -1, by |-> "nothing"]

Init ==
    /\ device \in Devices
    /\ algorithms = TRUE
    /\ wire = <<>> /\ written = <<>>
    /\ file = NoFile
    /\ published = [blocks |-> <<>>, form |-> "none", key |-> "", spoiled |-> FALSE]
    /\ signatures = {}
    /\ outcome = NotYet
    /\ spent = 0

\* Whatever changes, the next appraisal is another one.
Spend == spent < Budget /\ spent' = spent + 1 /\ outcome' = NotYet

-----------------------------------------------------------------------------
(* The bytes the two emulators write (SPDM messages; not in src/).         *)

LE(n, w) == [k \in 1 .. w |-> (n \div 256 ^ (k - 1)) % 256]
Fill(b, n) == [k \in 1 .. n |-> b]
BlockBytes(b) ==
    <<b.index, 1>> \o LE(Len(b.value) + 3, 2)
      \o <<IF b.isRaw THEN b.type + 128 ELSE b.type>> \o LE(Len(b.value), 2) \o b.value
Record(blocks) == FlattenSeq([k \in DOMAIN blocks |-> BlockBytes(blocks[k])])

GetMeasurements(signed, ctx) ==
    <<18, 224, IF signed THEN 1 ELSE 0, 255>>
      \o (IF signed THEN Fill(9, L!NonceBytes) \o <<0>> ELSE <<>>) \o ctx
Measurements(blocks, signed, ctx, opaque) ==
    <<18, 96, 0, 0, Len(blocks)>> \o LE(Len(Record(blocks)), 3) \o Record(blocks)
      \o Fill(8, L!NonceBytes) \o LE(Len(opaque), 2) \o opaque \o ctx
      \o (IF signed THEN Fill(200, SigBytes) ELSE <<>>)
\* The last CHUNK_RESPONSE: its header and the end of what it completes.
Chunk(raw) == <<18, 6, 0, 0, 1, 0, 0, 0>> \o LE(12, 4)
                \o SubSeq(raw, Len(raw) - 11, Len(raw))

Message(seq, code, dir, raw, carried) ==
    [seq |-> seq, code |-> code, dir |-> dir, raw |-> raw, carried |-> carried]

\* The requester asks for all blocks or for one, with a signature or without; the
\* capture keeps the response, whole or as the end of its chunks, and keeps or
\* loses the request.
Measure ==
    /\ Spend
    /\ Cardinality({k \in DOMAIN written : written[k].kind = "response"}) < MaxMessages
    /\ \E x \in Exchanges :
         \E blocks \in IF x.all THEN {device} ELSE {<<device[k]>> : k \in DOMAIN device} :
           LET n == Len(wire) + (IF x.heard THEN 1 ELSE 0)
               request == Message(n, "GET_MEASUREMENTS", "REQ",
                                  GetMeasurements(x.signed, x.ctx), <<>>)
               raw == Measurements(blocks, x.signed, x.ctx, x.opaque)
               whole == Message(n + 1, "MEASUREMENTS", "RSP", raw, <<>>)
               response == IF x.chunked
                 THEN Message(n + 1, "CHUNK_RESPONSE", "RSP", Chunk(raw), <<whole>>)
                 ELSE whole
               opaqueAt == 8 + Len(Record(blocks)) + L!NonceBytes
           IN /\ wire' = wire \o (IF x.heard THEN <<request, response>> ELSE <<response>>)
              /\ written' = written
                   \o (IF x.heard THEN <<[kind |-> "request"]>> ELSE <<>>)
                   \o <<[kind |-> "response", blocks |-> blocks, x |-> x,
                         opaque |-> opaqueAt, context |-> opaqueAt + 2 + Len(x.opaque)]>>
    /\ UNCHANGED <<device, algorithms, file, published, signatures>>

\* The device's measurements change: an update, a rollback or an intrusion.
Update ==
    /\ Spend
    /\ device' \in Devices \ {device}
    /\ UNCHANGED <<algorithms, wire, written, file, published, signatures>>

\* Another capture is taken, with its ALGORITHMS response or without, of the
\* device as it is by then.
NewCapture ==
    /\ Spend
    /\ wire # <<>>
    /\ wire' = <<>> /\ written' = <<>>
    /\ algorithms' \in BOOLEAN
    /\ device' \in Devices
    /\ UNCHANGED <<file, published, signatures>>

-----------------------------------------------------------------------------
(* read_capture: the promoted record, sliced out of the message with its   *)
(* packet and walked again.                                                *)

ReadCapture ==
    LET Walked(walk) ==
          IF walk.why # "closed" THEN Refused("does-not-re-walk")
          ELSE [why |-> "ok", blocks |-> walk.blocks]
        Blob(msg, record) ==
          SubSeq(msg.raw, 9, IF 8 + record.bytes < Len(msg.raw) THEN 8 + record.bytes
                             ELSE Len(msg.raw))
        Again(blob, record) == Walked(L!MeasurementRecord(blob, 0, Len(blob), record.declared))
        Promoted(record) ==
          IF record.walk.why # "closed" THEN Refused("record-does-not-close")
          ELSE Again(Blob(wire[CHOOSE k \in DOMAIN wire : wire[k].seq = record.packet], record),
                     record)
        Read(records) ==
          IF records = <<>> THEN Refused("no-record") ELSE Promoted(records[L!Largest(records)])
    IN IF wire = <<>> THEN Refused("no-messages")
       ELSE IF ~algorithms THEN Refused("no-hash")
       ELSE Read(L!Records(L!OnTheWire(wire), Negotiated))

\* appraise reference, appraise to-cbor and cose sign: a reference document made
\* from the capture.  A "map" is the document's map without its two tags, which
\* to-cbor never writes and any other encoder may.
Payload(doc, form) ==
    IF form = "reference" THEN JsonToCbor(doc) ELSE Dumps(ToCbor(doc, "unsigned_corim_map"))
Signed(payload, key, der, corim) ==
    /\ file' = Sign1(payload, Kid, der, corim)
    /\ signatures' = signatures \cup
         {[key |-> key, tbs |-> SigStructure(Protected(Kid), payload), der |-> der]}
Publish ==
    /\ Spend
    /\ \E cap \in {ReadCapture}, key \in Keys, corim \in BOOLEAN, form \in {"reference", "map"} :
         /\ cap.why = "ok"
         /\ \E der \in Ecdsa[key] :
              Signed(Payload(ReferenceFromWalk(cap.blocks, Alg), form), key, der, corim)
         /\ published' = [blocks |-> cap.blocks, form |-> form, key |-> key, spoiled |-> FALSE]
    /\ UNCHANGED <<device, algorithms, wire, written>>

\* The file is cut, extended, or changed by a byte of its signature or of the
\* end of its payload.
Spoil ==
    /\ Spend
    /\ file # NoFile /\ ~published.spoiled
    /\ LET n == Len(file)
           Change(k) == [file EXCEPT ![k] = IF @ < 255 THEN @ + 1 ELSE 0]
       IN file' \in {SubSeq(file, 1, n - 1), file \o <<0>>, Change(n),
                     Change(n - 2 * Half - 1)}
    /\ published' = [published EXCEPT !.spoiled = TRUE]
    /\ UNCHANGED <<device, algorithms, wire, written, signatures>>

-----------------------------------------------------------------------------
(* appraise(), and main()'s exit status: 0 and 1 are verdicts, 2 is a       *)
(* refusal, and an exception nothing catches exits 1.                       *)

Ends(exit, by) == [exit |-> exit, by |-> by]

Appraisal(policy) ==
    LET Judged(verdict) ==
          IF verdict = "error" THEN Ends(2, "refusal")
          ELSE Ends(IF verdict = "pass" THEN 0 ELSE 1, "verdict")
        Against(cap, reference) ==
          IF reference.why # "ok" THEN Ends(1, "exception")
          ELSE Judged(Verdict(policy, EvidenceFromWalk(cap.blocks, Alg), reference.json))
        Endorsed(cap, endorsed) ==
          IF cap.why # "ok" \/ endorsed.why # "ok" THEN Ends(2, "refusal")
          ELSE Against(cap, CborToJson(endorsed.payload))
    IN Endorsed(ReadCapture, Verify1(file, Trusted, signatures))

\* The reference exists: --reference names one, by default the committed one.
Appraise ==
    /\ outcome = NotYet
    /\ file # NoFile
    /\ outcome' = Appraisal("floor")
    /\ UNCHANGED <<device, algorithms, wire, written, file, published, signatures, spent>>

Next == Measure \/ Update \/ NewCapture \/ Publish \/ Spoil \/ Appraise
Spec == Init /\ [][Next]_vars

-----------------------------------------------------------------------------
\* What is placed in a response is what was written there: one whose request was
\* captured is always placed, and one whose request was lost is placed only when
\* the request before it had the same context and asked for the same thing
\* (fields.py: _request_before, _place_measurements, _settle).
PlacedIsWritten ==
    \A ordered \in {L!OnTheWire(wire)} :
      \A i \in DOMAIN ordered :
        LET w == written[Len(written)]
            IsLast == /\ ordered[i].code = "MEASUREMENTS"
                      /\ \A j \in DOMAIN ordered : j > i => ordered[j].code # "MEASUREMENTS"
            asked == ordered[L!RequestBefore(ordered, i, "GET_MEASUREMENTS")]
        IN IsLast =>
             \A placed \in {L!Placed(ordered, i, Negotiated)},
               walk \in {L!MeasurementRecord(ordered[i].raw, 8, Len(Record(w.blocks)), Len(w.blocks))} :
                 /\ w.x.heard => placed.why = "closed"
                 /\ placed.why = "closed" =>
                      /\ placed.opaque = w.opaque /\ placed.context = w.context
                      /\ asked.raw = GetMeasurements(w.x.signed, w.x.ctx)
                      /\ walk.why = "closed" /\ walk.blocks = w.blocks

\* The claims of a sequence of blocks: what is measured at each index.
Digests(blocks) == {<<blocks[k].index, blocks[k].value>> :
                    k \in {j \in DOMAIN blocks : ~blocks[j].isRaw}}
Versions(blocks) == {<<blocks[k].index, LittleEndian(blocks[k].value)>> :
                     k \in {j \in DOMAIN blocks : blocks[j].isRaw /\ blocks[j].type = 7
                                                  /\ Len(blocks[j].value) = 8}}
Unambiguous(blocks) == \A j, k \in DOMAIN blocks : blocks[j].index = blocks[k].index => j = k

\* written satisfies the reference made of ref.
Meets(blocks, ref) ==
    /\ Digests(blocks) = Digests(ref) /\ Digests(ref) # {} /\ Versions(ref) # {}
    /\ Indexes(Versions(blocks)) = Indexes(Versions(ref))
    /\ \A v \in Versions(blocks), r \in Versions(ref) : v[1] = r[1] => v[2] >= r[2]

Responses == {k \in DOMAIN written : written[k].kind = "response"}

\* A pass is about this device and this reference: the file is as the trusted key
\* signed it, and some response of the capture was written with every digest the
\* reference names, no other, and no version below its own, whatever was
\* captured, lost, updated or altered (appraise.py: appraise, policy.rego).
PassMeansReference ==
    outcome.exit = 0 /\ Unambiguous(published.blocks)
      /\ (\A k \in Responses : Unambiguous(written[k].blocks)) =>
      /\ published.form = "reference" /\ published.key = Trusted /\ ~published.spoiled
      /\ \E k \in Responses : Meets(written[k].blocks, published.blocks)

\* An honest device passes: a capture of one whole response, with its request,
\* that meets an unaltered reference of the trusted key is appraised to a pass,
\* whatever integers its signature has (cose.py: der_to_raw, raw_to_der).
GoodDevicePasses ==
    outcome # NotYet /\ Cardinality(Responses) = 1 /\ algorithms
      /\ published.form = "reference" /\ published.key = Trusted /\ ~published.spoiled
      /\ (\A k \in Responses : written[k].x.heard /\ ~written[k].x.chunked
            /\ Meets(written[k].blocks, published.blocks)
            /\ Unambiguous(written[k].blocks)) =>
      outcome.exit = 0

\* An exit of 1 speaks of the device: the reference is the trusted key's, unaltered,
\* and some response of the capture does not meet it.  A reference that cannot be
\* verified or a capture that cannot be read never ends so (appraise.py:65, "1 and
\* 2 are kept apart on purpose"); what does, besides, is a signed payload that is
\* no document, which is decoded outside the try.
FailIsOfTheDevice ==
    outcome.exit = 1 =>
      /\ published.key = Trusted /\ ~published.spoiled
      /\ \/ published.form = "map"
         \/ \E k \in Responses : ~Unambiguous(written[k].blocks)
                               \/ ~Meets(written[k].blocks, published.blocks)
=============================================================================
