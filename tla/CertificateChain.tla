-------------------------- MODULE CertificateChain --------------------------
(***************************************************************************)
(* certs/check_chain.py: a three-layer certificate chain checked from its  *)
(* DER, the byte of each certificate that harness/tamper.sh flips in the   *)
(* bundle a responder serves, and the checker's own test of itself.        *)
(*                                                                         *)
(* A directory is [pem, der, bundle]: the .cert and .cert.der file of each *)
(* certificate, and the two bundles, as bytes.  A PEM file is the bytes it *)
(* encodes.  Offsets are from zero.                                        *)
(***************************************************************************)
EXTENDS Integers, Sequences, SequencesExt, FiniteSets, Functions, TLC

CONSTANT Generations    \* of the keys and certificates gen_chain.sh makes

ASSUME GenerationsAssumption == Generations \subseteq 1 .. 30 /\ 1 \in Generations

At(buf, i) == buf[i + 1]
Put(buf, i, b) == [buf EXCEPT ![i + 1] = b]
Take(buf, i, n) == SubSeq(buf, i + 1, i + n)
Refused == [why |-> "refused"]
Ok(x) == x.why = "ok"
\* What is made of a reading: one refused stays so, and of several all are read or none.
Then(x, F(_)) == IF Ok(x) THEN F(x) ELSE x
Every(s) == IF \E x \in s : ~Ok(x) THEN Refused ELSE [why |-> "ok", found |-> s]

-----------------------------------------------------------------------------
(* DER.  A value is [tag, at, start, len]: its tag's and its body's place. *)

DerTlv(buf, i) ==
    IF i + 1 >= Len(buf) \/ At(buf, i) % 32 = 31 THEN Refused
    ELSE LET lead == At(buf, i + 1)
             count == IF lead < 128 THEN 0 ELSE lead - 128
             long[k \in 0 .. count] ==
               IF k = 0 THEN 0 ELSE 256 * long[k - 1] + At(buf, i + 1 + k)
         IN IF lead < 128 THEN [why |-> "ok", tag |-> At(buf, i), at |-> i, start |-> i + 2, len |-> lead]
            ELSE IF count \notin 1 .. 4 \/ i + 2 + count > Len(buf) THEN Refused
            ELSE IF long[count] < 128 \/ long[count] < 256 ^ (count - 1) THEN Refused
            ELSE [why |-> "ok", tag |-> At(buf, i), at |-> i, start |-> i + 2 + count, len |-> long[count]]

End(v) == v.start + v.len
Child(buf, i, end) ==
    Then(DerTlv(buf, i), LAMBDA v : IF End(v) > end THEN Refused ELSE v)

\* der_children: every value directly inside [start, end); and the first of them.
DerChildren(buf, start, end) ==
    LET from[i \in start .. end] ==
          IF i = end THEN [why |-> "ok", items |-> <<>>]
          ELSE Then(Child(buf, i, end), LAMBDA v :
                 Then(from[End(v)], LAMBDA rest : [rest EXCEPT !.items = <<v>> \o @]))
    IN from[start]
First(buf, start, end) == IF start >= end THEN Refused ELSE Child(buf, start, end)
Inside(buf, v) == DerChildren(buf, v.start, End(v))

\* der_oid: the arcs, of which the first byte holds two.
DerOid(buf, v) ==
    LET arc[k \in 0 .. v.len - 1] ==
          IF k = 0 THEN [arcs |-> <<At(buf, v.start) \div 40, At(buf, v.start) % 40>>,
                         value |-> 0, seen |-> FALSE, bad |-> FALSE]
          ELSE LET a == arc[k - 1]
                   b == At(buf, v.start + k)
                   value == 128 * a.value + (b % 128)
               IN [arcs |-> IF b < 128 THEN Append(a.arcs, value) ELSE a.arcs,
                   value |-> IF b < 128 THEN 0 ELSE value, seen |-> b >= 128,
                   bad |-> a.bad \/ (~a.seen /\ b = 128)]
        Whole(a) == IF a.bad \/ a.seen THEN Refused ELSE [why |-> "ok", oid |-> a.arcs]
    IN IF v.len = 0 THEN Refused ELSE Whole(arc[v.len - 1])

\* der_sequences: a bundle is certificates and nothing else.
DerSequences(buf) ==
    Then(DerChildren(buf, 0, Len(buf)), LAMBDA all :
      IF all.items = <<>> \/ \E v \in Range(all.items) : v.tag # 48 THEN Refused ELSE all)

-----------------------------------------------------------------------------
(* Extensions and names.                                                   *)

DeviceInfo == <<1, 3, 6, 1, 4, 1, 412, 274, 1>>
HwIdentity == <<1, 3, 6, 1, 4, 1, 412, 274, 2>>
SpdmExt == <<1, 3, 6, 1, 4, 1, 412, 274, 6>>
PcieDeviceId == <<2, 23, 147>>
SubjectAltName == <<2, 5, 29, 17>>
BasicConstraints == <<2, 5, 29, 19>>

\* An extension: its OID, whether it is critical, and its value.
ExtensionOf(der, f) ==
    LET flagged == Len(f) > 1 /\ f[2].tag = 1
        v == IF flagged THEN 3 ELSE 2
    IN Then(DerOid(der, f[1]), LAMBDA name :
         IF f[1].tag # 6 \/ Len(f) < v THEN Refused
         ELSE IF f[v].tag # 4 THEN Refused
         ELSE [why |-> "ok", oid |-> name.oid, value |-> f[v],
               critical |-> flagged /\ At(der, f[2].start) # 0])
Extension(der, e) ==
    Then(Inside(der, e), LAMBDA fields :
      IF fields.items = <<>> THEN Refused ELSE ExtensionOf(der, fields.items))

\* What is inside the first value of v, which is a SEQUENCE.
Sequence(der, v) ==
    Then(First(der, v.start, End(v)), LAMBDA seq :
      IF seq.tag # 48 THEN Refused ELSE Inside(der, seq))
CertificateExtensions(der) ==
    Then(DerTlv(der, 0), LAMBDA cert :
      Then(Sequence(der, cert), LAMBDA tbs :
        Then(Every({Sequence(der, c) : c \in {p \in Range(tbs.items) : p.tag = 163}}),
             LAMBDA lists : Every({Extension(der, e) : e \in
                              UNION {Range(l.items) : l \in lists.found}}))))
Of(exts, oid) == {x \in exts.found : x.oid = oid}

\* subject_alt_names: the otherNames, by OID, with the bytes of their text.
OtherNameOf(der, name, p) ==
    Then(First(der, p[2].start, End(p[2])), LAMBDA text :
      IF p[1].tag # 6 \/ p[2].tag # 160 \/ text.tag # 12 THEN Refused
      ELSE [why |-> "ok", oid |-> name.oid, text |-> Take(der, text.start, text.len)])
OtherName(der, n) ==
    Then(Inside(der, n), LAMBDA parts :
      IF Len(parts.items) # 2 THEN Refused
      ELSE Then(DerOid(der, parts.items[1]), LAMBDA name : OtherNameOf(der, name, parts.items)))
SubjectAltNames(der, ext) ==
    Then(Sequence(der, ext.value), LAMBDA general :
      Every({OtherName(der, n) : n \in {g \in Range(general.items) : g.tag = 160}}))

-----------------------------------------------------------------------------
(* openssl: what it makes of a certificate, and what it verifies.  A key   *)
(* is a number; a signature is an ECDSA-Sig-Value of the key and a digest  *)
(* that tells bytes apart when the lowest bit of one of them has changed.  *)

DerLength(n) == IF n < 128 THEN <<n>> ELSE <<129, n>>
Tlv(tag, body) == <<tag>> \o DerLength(Len(body)) \o body
Digest(bytes) == Cardinality({k \in DOMAIN bytes : bytes[k] % 2 = 1})
Sign(key, tbs) ==
    Tlv(48, Tlv(2, [k \in 1 .. 1 + (key % 2) |-> key]) \o Tlv(2, <<1 + key, Digest(tbs), key>>))

\* A certificate's tbsCertificate, reduced to the parts something here reads.
DecodedOf(der, p, t) ==
    LET body(v) == Take(der, v.start, v.len) IN
    [why |-> "ok", serial |-> body(t[1]), issuer |-> body(t[2]), subject |-> body(t[3]),
     key |-> body(t[4]), tbs |-> Take(der, p[1].at, End(p[1]) - p[1].at),
     signature |-> Tail(body(p[3]))]
\* Three values: two SEQUENCEs and a BIT STRING of whole bytes.
Shaped(der, cert, p) ==
    /\ cert.tag = 48 /\ Len(p) = 3 /\ p[1].tag = 48 /\ p[2].tag = 48
    /\ p[3].tag = 3 /\ p[3].len > 0 /\ At(der, p[3].start) = 0
Decoded(der) ==
    Then(DerTlv(der, 0), LAMBDA cert :
      Then(Inside(der, cert), LAMBDA parts :
        IF ~Shaped(der, cert, parts.items) THEN Refused
        ELSE Then(Inside(der, parts.items[1]), LAMBDA tbs :
               IF Len(tbs.items) # 5 THEN Refused
               ELSE DecodedOf(der, parts.items, tbs.items))))
Signed(cert, by) ==
    /\ Ok(cert) /\ Ok(by) /\ cert.issuer = by.subject
    /\ Len(by.key) = 1 /\ cert.signature = Sign(by.key[1], cert.tbs)
OpensslVerify(ca, inter, leaf) ==
    Signed(Decoded(leaf), Decoded(inter)) /\ Signed(Decoded(inter), Decoded(ca))
CertName(der, which) ==
    LET Named(cert) == IF Ok(cert) THEN cert[which] ELSE <<"none">> IN Named(Decoded(der))

-----------------------------------------------------------------------------
(* check: the problems, in the order they are found, as <<what, of which>>. *)

Stems == <<"ca", "inter", "end_responder", "end_requester">>
Leaves == {"end_responder", "end_requester"}
BundleOf(leaf) == <<"ca", "inter", leaf>>
When(problem, what, which) == IF problem THEN << <<what, which>> >> ELSE <<>>

\* By name, then by signature: both from the PEM files.
LinkProblems(dir) ==
    LET subject(s) == CertName(dir.pem[s], "subject")
        issuer(s) == CertName(dir.pem[s], "issuer")
        verifies(leaf) == OpensslVerify(dir.pem["ca"], dir.pem["inter"], dir.pem[leaf])
    IN When(subject("ca") # issuer("ca"), "self-signed", "ca")
       \o When(issuer("inter") # subject("ca"), "issuer", "inter")
       \o When(issuer("end_responder") # subject("inter"), "issuer", "end_responder")
       \o When(issuer("end_requester") # subject("inter"), "issuer", "end_requester")
       \o When(~verifies("end_responder"), "verify", "end_responder")
       \o When(~verifies("end_requester"), "verify", "end_requester")

Positive(serial) == serial # <<>> /\ serial[1] < 128 /\ \E k \in DOMAIN serial : serial[k] # 0

\* basicConstraints, from the DER; the serial number, from the PEM.
LayerProblems(dir, stem) ==
    LET der == dir.der[stem]
        isCa == stem \notin Leaves
        Stated(bc, ca) ==
          When(ca # isCa, "is a CA", stem)
            \o When(ca = isCa /\ ~isCa /\ ~bc.critical, "not critical", stem)
            \o When(~Positive(CertName(dir.pem[stem], "serial")), "serial", stem)
        Inner(bc, kids) ==
          IF ~Ok(kids) THEN When(TRUE, "raises", stem)
          ELSE IF kids.items = <<>> THEN Stated(bc, FALSE)
          ELSE Stated(bc, kids.items[1].tag = 1 /\ At(der, kids.items[1].start) # 0)
        Constrained(bc) ==
          Inner(bc, Then(Inside(der, bc.value), LAMBDA inner :
                      IF inner.items = <<>> THEN Refused ELSE Inside(der, inner.items[1])))
        Layer(exts) ==
          IF ~Ok(exts) THEN When(TRUE, "unreadable", stem)
          ELSE IF Of(exts, BasicConstraints) = {} THEN When(TRUE, "no constraints", stem)
          ELSE Constrained(CHOOSE x \in Of(exts, BasicConstraints) : TRUE)
    IN Layer(CertificateExtensions(der))

\* The identity OIDs of a leaf, from the DER.
ThreeFields(text) == Cardinality({k \in DOMAIN text : text[k] = 58}) = 2
HardwareOids(der, ext) ==
    Then(First(der, ext.value.start, End(ext.value)), LAMBDA outer :
      Then(Inside(der, outer), LAMBDA instances :
        Then(Every({Inside(der, i) : i \in Range(instances.items)}), LAMBDA parts :
          Every({DerOid(der, v) : v \in
            {x \in UNION {Range(p.items) : p \in parts.found} : x.tag = 6}}))))
IdentityProblems(dir, leaf) ==
    LET der == dir.der[leaf]
        The(exts, oid) == CHOOSE x \in Of(exts, oid) : TRUE
        Stated(names, oids, absent) ==
          LET texts == {n.text : n \in Of(names, DeviceInfo)} IN
          When(texts = {}, "no device info", leaf)
            \o When(texts # {} /\ \A t \in texts : ~ThreeFields(t), "device info", leaf)
            \o When(Of(names, PcieDeviceId) = {}, "no PCIe id", leaf)
            \o When(absent, "no SPDM extension", leaf)
            \o When(~absent /\ ~Ok(oids), "raises", leaf)
            \o When(Ok(oids) /\ Of(oids, HwIdentity) = {}, "no hardware id", leaf)
        Named(exts, names) ==
          IF ~Ok(names) THEN When(TRUE, "names", leaf)
          ELSE IF Of(exts, SpdmExt) = {} THEN Stated(names, Refused, TRUE)
          ELSE Stated(names, HardwareOids(der, The(exts, SpdmExt)), FALSE)
        Identified(exts) ==
          IF ~Ok(exts) THEN When(TRUE, "raises", leaf)
          ELSE IF Of(exts, SubjectAltName) = {} THEN When(TRUE, "no names", leaf)
          ELSE Named(exts, SubjectAltNames(der, The(exts, SubjectAltName)))
    IN Identified(CertificateExtensions(der))

\* The bundles: walked, then compared with the files they are put together from.
Concatenated(dir, leaf) == FlattenSeq([k \in 1 .. 3 |-> dir.der[BundleOf(leaf)[k]]])
AsBundledOfResponder(dir, leaf) ==
    dir.bundle["end_responder"] = Concatenated(dir, "end_responder")
AsBundled(dir, leaf) == dir.bundle[leaf] = Concatenated(dir, leaf)
BundleProblems(dir, leaf) ==
    LET Walked(certs) ==
          IF ~Ok(certs) THEN When(TRUE, "does not parse", leaf)
          ELSE IF ~AsBundled(dir, leaf) THEN When(TRUE, "is not the files", leaf)
          ELSE When([k \in DOMAIN certs.items |-> End(certs.items[k]) - certs.items[k].at]
                      # [k \in 1 .. 3 |-> Len(dir.der[BundleOf(leaf)[k]])], "lengths", leaf)
    IN Walked(DerSequences(dir.bundle[leaf]))

Problems(dir) ==
    LinkProblems(dir) \o FlattenSeq([k \in 1 .. 4 |-> LayerProblems(dir, Stems[k])])
      \o IdentityProblems(dir, "end_responder") \o IdentityProblems(dir, "end_requester")
      \o BundleProblems(dir, "end_responder") \o BundleProblems(dir, "end_requester")

-----------------------------------------------------------------------------
(* self_test: four breaks, each refused, and each for a reason of its own.  *)

Rebundled(dir) == [dir EXCEPT !.bundle["end_responder"] = Concatenated(dir, "end_responder")]

\* The last arc of the first otherName's OID.
BreakOid(dir) ==
    LET der == dir.der["end_responder"]
        san == CHOOSE x \in Of(CertificateExtensions(der), SubjectAltName) : TRUE
        other == SelectSeq(Sequence(der, san.value).items, LAMBDA n : n.tag = 160)
        Broken(last) == Put(der, last, At(der, last) + 7 - 2 * (At(der, last) % 8))
    IN Rebundled([dir EXCEPT !.der["end_responder"] =
                    Broken(End(First(der, other[1].start, End(other[1]))) - 1)])
BreakOrder(dir) ==
    [dir EXCEPT !.bundle["end_responder"] = dir.der["inter"] \o dir.der["ca"] \o dir.der["end_responder"]]
BreakTruncate(dir) == [dir EXCEPT !.bundle["end_responder"] = Front(@)]
BreakSignature(dir) ==
    LET der == dir.der["end_responder"]
        broken == Put(der, Len(der) - 1, 255 - At(der, Len(der) - 1))
    IN Rebundled([dir EXCEPT !.der["end_responder"] = broken, !.pem["end_responder"] = broken])

Aborts(problems) == \E k \in DOMAIN problems : problems[k][1] = "raises"
SelfTest(dir) ==
    LET Refuses(found) ==
          /\ <<>> \notin found /\ ~\E p \in found : Aborts(p)
          /\ Cardinality({Head(p) : p \in found}) = 4
        broken == {BreakOid(dir), BreakOrder(dir), BreakTruncate(dir), BreakSignature(dir)}
    IN IF Problems(dir) = <<>> /\ Refuses({Problems(d) : d \in broken}) THEN 0 ELSE 1

-----------------------------------------------------------------------------
(* --locate: the byte of each certificate of a bundle whose change breaks  *)
(* one signature and nothing else; tamper.sh changes its lowest bit in the *)
(* bundle it has staged.                                                   *)

\* signature_span: where the signature is, and the middle of its s or, if it is not
\* two INTEGERs, of itself.
FlipOfMiddle(bits, ints, ecdsa) == bits.start + 1 + ((bits.len - 1) \div 2)
Flip(bits, ints, ecdsa) ==
    IF ecdsa THEN ints.items[2].start + (ints.items[2].len \div 2)
    ELSE bits.start + 1 + ((bits.len - 1) \div 2)
SpanOf(der, bits, inner) ==
    LET ints == IF Ok(inner) /\ inner.items # <<>> THEN Inside(der, inner.items[1]) ELSE Refused
        Span(read) ==
          LET ecdsa == /\ Ok(read) /\ inner.items[1].tag = 48
                       /\ Len(read.items) = 2 /\ \A k \in 1 .. 2 : read.items[k].tag = 2
          IN [why |-> "ok", ecdsa |-> ecdsa, flip |-> Flip(bits, read, ecdsa)]
    IN Span(ints)
SignatureSpan(der) ==
    Then(DerTlv(der, 0), LAMBDA cert :
      Then(Inside(der, cert), LAMBDA parts :
        IF cert.tag # 48 \/ Len(parts.items) # 3 THEN Refused
        ELSE LET bits == parts.items[3] IN
             IF parts.items[1].tag # 48 \/ bits.tag # 3 \/ bits.len < 1 THEN Refused
             ELSE IF At(der, bits.start) # 0 THEN Refused
             ELSE SpanOf(der, bits, DerChildren(der, bits.start + 1, End(bits)))))

\* locate: certificates are named by the files they are the bytes of.
Named(dir, der) ==
    LET same == {k \in 1 .. 4 : dir.der[Stems[k]] = der} IN
    IF same = {} THEN "unnamed" ELSE Stems[CHOOSE k \in same : \A j \in same : j <= k]
Locate(dir, bundle) ==
    LET cut(v) == Take(bundle, v.at, End(v) - v.at)
        Certified(v) == Then(SignatureSpan(cut(v)), LAMBDA span :
          [why |-> "ok", name |-> Named(dir, cut(v)), at |-> v.at, bytes |-> End(v) - v.at,
           der |-> cut(v), ecdsa |-> span.ecdsa, flip |-> v.at + span.flip])
        Whole(found) == IF \E k \in DOMAIN found : ~Ok(found[k]) THEN Refused
                        ELSE [why |-> "ok", certificates |-> found]
    IN Then(DerSequences(bundle), LAMBDA certs :
         Whole([k \in DOMAIN certs.items |-> Certified(certs.items[k])]))
FlipLow(buf, i) == Put(buf, i, IF At(buf, i) % 2 = 0 THEN At(buf, i) + 1 ELSE At(buf, i) - 1)

\* What a reader of a bundle verifies: the root by itself, each other by the one
\* before it.
Links(certificates) ==
    [k \in DOMAIN certificates |->
       Signed(Decoded(certificates[k].der),
              Decoded(certificates[IF k = 1 THEN 1 ELSE k - 1].der))]

-----------------------------------------------------------------------------
(* certs/gen_chain.sh: what openssl writes of a certificate for a          *)
(* generation of keys, and a copy of it with one bit changed.  The names   *)
(* are the script's and so those of every generation.                      *)

EncodeOid(oid) ==
    LET arc(n) == IF n < 128 THEN <<n>> ELSE <<128 + (n \div 128), n % 128>> IN
    Tlv(6, <<40 * oid[1] + oid[2]>> \o FlattenSeq([k \in 1 .. Len(oid) - 2 |-> arc(oid[k + 2])]))
EncodeExtension(oid, critical, value) ==
    Tlv(48, EncodeOid(oid) \o (IF critical THEN Tlv(1, <<255>>) ELSE <<>>) \o Tlv(4, value))
EncodeName(oid, text) == Tlv(160, EncodeOid(oid) \o Tlv(160, Tlv(12, text)))
Constraints(isCa) ==
    EncodeExtension(BasicConstraints, TRUE, Tlv(48, IF isCa THEN Tlv(1, <<255>>) ELSE <<>>))
Identity ==
    EncodeExtension(SubjectAltName, FALSE,
        Tlv(48, EncodeName(DeviceInfo, <<65, 66, 58, 67, 68, 58, 69, 70>>) \o EncodeName(PcieDeviceId, <<68>>)))
      \o EncodeExtension(SpdmExt, FALSE, Tlv(48, Tlv(48, EncodeOid(HwIdentity))))

Serial(stem) == CHOOSE k \in 1 .. 4 : Stems[k] = stem
Issuer(stem) == IF stem \in Leaves THEN "inter" ELSE "ca"
KeyOf(stem, gen) == 4 * gen + Serial(stem)
Certificate(stem, gen) ==
    LET tbs == Tlv(48, Tlv(2, <<Serial(stem)>>) \o Tlv(48, <<Serial(Issuer(stem))>>)
                 \o Tlv(48, <<Serial(stem)>>) \o Tlv(48, <<KeyOf(stem, gen)>>)
                 \o Tlv(163, Tlv(48, Constraints(stem \notin Leaves)
                                   \o IF stem \in Leaves THEN Identity ELSE <<>>)))
    IN Tlv(48, tbs \o Tlv(48, <<>>) \o Tlv(3, <<0>> \o Sign(KeyOf(Issuer(stem), gen), tbs)))

\* A file is named by what it holds: [stem, gen, part], the certificate of a
\* generation with the last byte changed of its signature or of its extensions, or
\* its signature's tag; the directory of bytes those of such names are.
Parts == {"intact", "signature", "tag", "extensions"}
Place(der, part) ==
    LET parts == Inside(der, DerTlv(der, 0)).items IN
    CASE part = "signature" -> Len(der) - 1
      [] part = "tag" -> parts[3].start + 1
      [] part = "extensions" -> End(parts[1]) - 1
FileNames == [stem : Range(Stems), gen : Generations, part : Parts]
BytesOf == [file \in FileNames |->
              LET der == Certificate(file.stem, file.gen) IN
              IF file.part = "intact" THEN der ELSE FlipLow(der, Place(der, file.part))]
File(stem, gen) == [stem |-> stem, gen |-> gen, part |-> "intact"]
Content(file) == BytesOf[file]
Directory(files) ==
    [pem |-> [s \in Range(Stems) |-> Content(files.pem[s])],
     der |-> [s \in Range(Stems) |-> Content(files.der[s])],
     bundle |-> [leaf \in Leaves |->
                   FlattenSeq([k \in DOMAIN files.bundle[leaf] |-> Content(files.bundle[leaf][k])])]]

\* gen_chain.sh writes the certificates, then their DER, then the bundles, and may
\* be stopped after any of them.
Bundled(files, leaf) == [k \in 1 .. 3 |-> files.der[BundleOf(leaf)[k]]]
GenChain(files, gen, steps) ==
    LET pem == [s \in Range(Stems) |-> IF Serial(s) <= steps THEN File(s, gen) ELSE files.pem[s]]
        der == [s \in Range(Stems) |-> IF 4 + Serial(s) <= steps THEN pem[s] ELSE files.der[s]]
    IN [pem |-> pem, der |-> der,
        bundle |-> [leaf \in Leaves |->
          IF (IF leaf = "end_responder" THEN 9 ELSE 10) <= steps
          THEN Bundled([der |-> der], leaf) ELSE files.bundle[leaf]]]
=============================================================================
