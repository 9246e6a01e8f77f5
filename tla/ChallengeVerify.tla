-------------------------- MODULE ChallengeVerify --------------------------
(***************************************************************************)
(* harness/challenge_verify.py: a capture split into its connections, the  *)
(* certificate chains it completes, the transcript M1M2 of the first       *)
(* CHALLENGE of each connection, and what is concluded of the signatures.  *)
(*                                                                         *)
(* A message is [code, raw, ...], its bytes from offset 0.  A reading is    *)
(* [why, ...]: "ok" or the refusal.                                         *)
(***************************************************************************)
EXTENDS Integers, Sequences, SequencesExt

CONSTANTS
    AsymSig,            \* ASYM_SIG and BASE_ASYM: BaseAsymSel -> signature bytes
    HashBytes,          \* BASE_HASH_BYTES: BaseHashSel -> hash bytes
    KeyOf(_)            \* the public key of a leaf certificate

ASequence == <<"GET_VERSION", "VERSION", "GET_CAPABILITIES", "CAPABILITIES",
               "NEGOTIATE_ALGORITHMS", "ALGORITHMS">>
BCodes == {"GET_DIGESTS", "DIGESTS", "GET_CERTIFICATE", "CERTIFICATE"}
Unmodelled == {"ERROR", "CHUNK_SEND", "CHUNK_GET"}
NonceSize == 32
U16(raw, off) == raw[off + 1] + 256 * raw[off + 2]
Refused(why) == [why |-> why]
Codes(seg) == {seg[k].code : k \in DOMAIN seg}
Places(seg, code) == {k \in DOMAIN seg : seg[k].code = code}
Least(S) == CHOOSE k \in S : \A j \in S : k <= j
Raws(msgs) == FlattenSeq([k \in DOMAIN msgs |-> msgs[k].raw])

\* segments: a connection begins at a GET_VERSION, and what is before the first
\* belongs to none.
Segmented(segs, m) ==
    IF m.code = "GET_VERSION" THEN Append(segs, <<m>>)
    ELSE IF segs = <<>> THEN segs
    ELSE [segs EXCEPT ![Len(segs)] = Append(@, m)]
Segments(msgs) ==
    LET segs[k \in 0 .. Len(msgs)] ==
          IF k = 0 THEN <<>> ELSE Segmented(segs[k - 1], msgs[k])
    IN segs[Len(msgs)]

\* certificate_chains: of a slot, the bytes since its last completed chain, and the
\* chains it completed; connections do not matter.
Portion(m) == U16(m.raw, 4)
IsPortion(m, slot) ==
    /\ m.code = "CERTIFICATE" /\ Len(m.raw) >= 8
    /\ m.raw[3] % 16 = slot /\ Len(m.raw) >= 8 + Portion(m)
Collected(acc, m, slot) ==
    LET partial == acc.partial \o SubSeq(m.raw, 9, 8 + Portion(m)) IN
    IF ~IsPortion(m, slot) THEN acc
    ELSE IF U16(m.raw, 6) = 0
      THEN [partial |-> <<>>, done |-> Append(acc.done, partial)]
    ELSE [partial |-> partial, done |-> acc.done]
NoPortions == [partial |-> <<>>, done |-> <<>>]
Assembled(msgs, slot) ==
    LET acc[k \in 0 .. Len(msgs)] ==
          IF k = 0 THEN NoPortions ELSE Collected(acc[k - 1], msgs[k], slot)
    IN acc[Len(msgs)]

\* Per slot, the first chain it completed.
CertificateChains(msgs) ==
    [slot \in {s \in 0 .. 15 : Assembled(msgs, s).done # <<>>} |-> Assembled(msgs, slot).done[1]]

\* der_certificates: where each top-level SEQUENCE begins, and where they end.  A
\* length is one byte below 128, or 128 and how many bytes hold it.  A last 0x30
\* alone, where the code would read past the end, ends the walk here.
LengthOf(blob, at, count) ==
    FoldLeftDomain(LAMBDA acc, k : 256 * acc + blob[at + k - 1], 0, [k \in 1 .. count |-> k])
NextStart(blob, at) ==
    LET lead == blob[at + 1]
        count == lead - 128
    IN IF lead < 128 THEN at + 2 + lead
       ELSE IF count = 0 \/ at + 1 + count > Len(blob) THEN Len(blob) + 2
       ELSE at + 2 + count + LengthOf(blob, at + 2, count)
Walked(w, blob) ==
    IF w.at >= Len(blob) \/ blob[w.at] # 48 \/ NextStart(blob, w.at) > Len(blob) + 1 THEN w
    ELSE [at |-> NextStart(blob, w.at), starts |-> Append(w.starts, w.at)]
DerCertificates(blob) ==
    LET walk[k \in 0 .. Len(blob)] ==
          IF k = 0 THEN [at |-> 1, starts |-> <<>>] ELSE Walked(walk[k - 1], blob)
    IN walk[Len(blob)]

\* leaf_certificate: the last certificate of a chain whose length and tiling agree.
LeafCertificateLoose(chain, hash) ==
    LET certs == SubSeq(chain, 5 + hash, Len(chain))
        der == DerCertificates(certs)
    IN IF Len(chain) <= 4 + hash THEN Refused("header")
       ELSE IF der.starts = <<>> THEN Refused("no-certificate")
       ELSE IF der.at # Len(certs) + 1 THEN Refused("does-not-tile")
       ELSE [why |-> "ok", leaf |-> SubSeq(certs, Last(der.starts), Len(certs))]

LeafCertificate(chain, hash) ==
    LET certs == SubSeq(chain, 5 + hash, Len(chain))
        der == DerCertificates(certs)
    IN IF Len(chain) <= 4 + hash THEN Refused("header")
       ELSE IF U16(chain, 0) # Len(chain) THEN Refused("length")
       ELSE IF der.starts = <<>> THEN Refused("no-certificate")
       ELSE IF der.at # Len(certs) + 1 THEN Refused("does-not-tile")
       ELSE [why |-> "ok", leaf |-> SubSeq(certs, Last(der.starts), Len(certs))]

\* negotiated: from the connection's first ALGORITHMS.
ChosenOf(seg) ==
    LET algs == Places(seg, "ALGORITHMS")
        raw == seg[Least(algs)].raw
        asym == U16(raw, 12)
        hash == U16(raw, 16)
    IN IF algs = {} THEN Refused("no-algorithms")
       ELSE IF Len(raw) < 20 THEN Refused("short-algorithms")
       ELSE IF asym \notin DOMAIN AsymSig THEN Refused("asym")
       ELSE IF hash \notin DOMAIN HashBytes THEN Refused("hash")
       ELSE [why |-> "ok", sig |-> AsymSig[asym], hash |-> HashBytes[hash]]

\* A: each code of A_SEQUENCE, where it first follows the one before; past the end
\* when it does not.
Following(seg, i, code) ==
    Least({j \in Places(seg, code) : j > i} \cup {Len(seg) + 1})
APlaces(seg) ==
    LET at[k \in 0 .. Len(ASequence)] ==
          IF k = 0 THEN 0 ELSE Following(seg, at[k - 1], ASequence[k])
    IN [k \in 1 .. Len(ASequence) |-> at[k]]
ABytes(seg) == FlattenSeq([k \in DOMAIN ASequence |-> seg[APlaces(seg)[k]].raw])

\* B: what comes before the first CHALLENGE.
BBytesOfSegment(seg, challenge) ==
    FlattenSeq([k \in DOMAIN seg |-> IF seg[k].code \in BCodes THEN seg[k].raw ELSE <<>>])

BBytes(seg, challenge) ==
    FlattenSeq([k \in 1 .. challenge - 1 |->
                  IF seg[k].code \in BCodes THEN seg[k].raw ELSE <<>>])

\* build: M1M2 of the connection's first CHALLENGE, and its signature.
Build(seg) ==
    LET alg == ChosenOf(seg)
        at == Least(Places(seg, "CHALLENGE"))
        challenge == seg[at].raw
        auth == seg[at + 1].raw
        fixed == 4 + alg.hash + NonceSize + (IF challenge[4] = 0 THEN 0 ELSE alg.hash)
        sigAt == fixed + 2 + U16(auth, fixed)
    IN IF Codes(seg) \cap Unmodelled # {} THEN Refused("not-modelled")
       ELSE IF Places(seg, "CHALLENGE") = {} THEN Refused("no-challenge")
       ELSE IF alg.why # "ok" THEN alg
       ELSE IF Last(APlaces(seg)) > Len(seg) THEN Refused("incomplete")
       ELSE IF at = Len(seg) THEN Refused("no-auth")
       ELSE IF seg[at + 1].code # "CHALLENGE_AUTH" THEN Refused("no-auth")
       ELSE IF auth[1] > 17 THEN Refused("signing-context")
       ELSE IF Len(auth) < fixed + 2 THEN Refused("short-auth")
       ELSE IF Len(auth) - sigAt # alg.sig THEN Refused("does-not-close")
       ELSE [why |-> "ok", slot |-> challenge[3] % 16, hash |-> alg.hash, sigAt |-> sigAt,
             fetched |-> \E k \in 1 .. at - 1 : seg[k].code = "CERTIFICATE",
             m1m2 |-> ABytes(seg) \o BBytes(seg, at) \o challenge \o SubSeq(auth, 1, sigAt),
             signature |-> SubSeq(auth, sigAt + 1, Len(auth))]

\* analyse: of each connection that can be read, whether its signature verifies:
\* "yes", "no", or "unknown" when no chain of the slot has a leaf.  signatures
\* holds what was signed: [key, m1m2, raw].
Verified(read, chains, signatures) ==
    LET leaf == LeafCertificate(chains[read.slot], read.hash) IN
    IF read.slot \notin DOMAIN chains THEN "unknown"
    ELSE IF leaf.why # "ok" THEN "unknown"
    ELSE IF [key |-> KeyOf(leaf.leaf), m1m2 |-> read.m1m2, raw |-> read.signature]
              \in signatures THEN "yes" ELSE "no"

\* The rows: [connection, fetched, verified].
Analyse(msgs, signatures) ==
    LET segs == Segments(msgs)
        chains == CertificateChains(msgs)
    IN {[connection |-> n, fetched |-> Build(segs[n]).fetched,
         verified |-> Verified(Build(segs[n]), chains, signatures)] :
          n \in {k \in DOMAIN segs : Build(segs[k]).why = "ok"}}

\* report: its conclusion; the first two exit 1.
Report(rows) ==
    LET calibration == {r \in rows : r.fetched}
        disputed == rows \ calibration
    IN IF calibration = {} THEN "no-calibration"
       ELSE IF \E r \in calibration : r.verified # "yes" THEN "calibration-failed"
       ELSE IF disputed = {} THEN "nothing-disputed"
       ELSE IF \A r \in disputed : r.verified = "yes" THEN "signatures-good"
       ELSE IF \A r \in disputed : r.verified # "yes" THEN "responder"
       ELSE "mixed"
=============================================================================
