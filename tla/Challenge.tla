----------------------------- MODULE Challenge -----------------------------
(***************************************************************************)
(* Connections in which a requester may or may not fetch certificates      *)
(* before it sends a CHALLENGE, a capture of them that may miss a message, *)
(* and what harness/challenge_verify.py and the layouts of                 *)
(* harness/fields.py make of that capture.  The responder signs what it    *)
(* heard, or, being faulty, something else; every state is a capture.      *)
(***************************************************************************)
EXTENDS Integers, Sequences, SequencesExt, FiniteSets, TLC

CONSTANTS
    Slots,              \* the slots with a chain
    Certificates,       \* their certificates, in DER, the leaf last
    Shapes,             \* per slot, of a CHALLENGE: [type |-> 0, 1 or 255, opaque |-> bytes]
    Versions,           \* 17 is SPDM 1.1; from 19 there is a context
    MaxPortion, SigBytes,
    MaxLost, Budget     \* bounds: lost messages, exchanges and connections

Asym == 128
Hash == 1
HashSize == 2
HashOf(bytes) == <<Len(bytes), bytes[Len(bytes)]>>
\* A leaf's public key: its last byte.
KeyOf(leaf) == leaf[Len(leaf)]

V == INSTANCE ChallengeVerify WITH AsymSig <- [s \in {Asym} |-> SigBytes],
                                   HashBytes <- [s \in {Hash} |-> HashSize]
L == INSTANCE Layout

LE(n) == <<n % 256, n \div 256>>
Fill(b, n) == [k \in 1 .. n |-> b]
Flat(seqs) == FlattenSeq(seqs)
Chain(s) ==
    LET certs == Flat(Certificates[s]) IN
    LE(4 + HashSize + Len(certs)) \o <<0, 0>> \o HashOf(Certificates[s][1]) \o certs
TwoBytes(n) == n \in Nat /\ n < 65536

\* A certificate is a DER SEQUENCE, with a length of one byte.
AreCertificates(certs) ==
    /\ certs \in Seq(Seq(Nat)) \ {<<>>}
    /\ \A k \in DOMAIN certs : /\ Len(certs[k]) >= 3 /\ Len(certs[k]) <= 129
                               /\ certs[k][1] = 48 /\ certs[k][2] = Len(certs[k]) - 2

IsShape(shape) ==
    /\ shape.type \in {0, 1, 255}
    /\ shape.opaque \in Seq(Nat) /\ TwoBytes(Len(shape.opaque))

ASSUME ChallengeAssumption ==
    /\ SigBytes \in Nat \ {0} /\ MaxPortion > 1 /\ TwoBytes(MaxPortion)
    /\ MaxLost \in Nat /\ Budget \in Nat
    /\ Slots \subseteq 0 .. 7 /\ Versions \subseteq Nat
    /\ \A s \in Slots : AreCertificates(Certificates[s]) /\ TwoBytes(Len(Chain(s)))
    /\ \A s \in Slots : \A shape \in Shapes[s] : IsShape(shape)

VARIABLES
    capture,            \* the messages captured
    conns,              \* per connection, what the two ends know of it
    fetch,              \* the slot being fetched and how much has come
    fetched,            \* per slot: "none", "begun", "whole", or "spoiled"
    signatures,         \* what was signed: [key, m1m2, raw]
    latest,             \* the last response: what was written in it, if captured
    lost, spent
challengeVars == <<capture, conns, fetch, fetched, signatures, latest, lost, spent>>

NotFetching == [slot |-> -1, at |-> 0]
Nothing == [code |-> "none"]
Negotiated == [hash |-> HashSize, meas |-> HashSize + 1, sig |-> SigBytes,
               reqSig |-> L!Unknown]
Now == conns[Len(conns)]

ChallengeInit ==
    /\ capture = <<>> /\ conns = <<>> /\ fetch = NotFetching
    /\ fetched = [s \in Slots |-> "none"]
    /\ signatures = {} /\ latest = Nothing /\ lost = 0 /\ spent = 0

-----------------------------------------------------------------------------
(* The capture sees msgs, or all but one of them.                          *)

Message(code, dir, raw) ==
    [seq |-> 0, code |-> code, dir |-> dir, raw |-> raw, carried |-> <<>>]

\* written describes the last of msgs; heard: the request before it was captured.
Exchange(msgs, written) ==
    /\ spent < Budget /\ spent' = spent + 1
    /\ \/ /\ capture' = capture \o msgs /\ UNCHANGED lost
          /\ latest' = [heard |-> TRUE] @@ written
       \/ /\ lost < MaxLost /\ lost' = lost + 1
          /\ \E k \in DOMAIN msgs :
               /\ capture' = capture \o RemoveAt(msgs, k)
               /\ latest' = IF k = Len(msgs) THEN Nothing ELSE [heard |-> FALSE] @@ written

\* What is said: a connection's opening; DIGESTS, with a key's attributes from 1.3;
\* a portion of a chain; a CHALLENGE; and a refusal.
Opening(v) ==
    <<Message("GET_VERSION", "REQ", <<16, 132, 0, 0>>),
      Message("VERSION", "RSP", <<16, 4, 0, 0>>),
      Message("GET_CAPABILITIES", "REQ", <<v, 225, 0, 0>>),
      Message("CAPABILITIES", "RSP", <<v, 97, 0, 0>>),
      Message("NEGOTIATE_ALGORITHMS", "REQ", <<v, 227, 0, 0>>),
      Message("ALGORITHMS", "RSP",
              <<v, 99, 0, 0>> \o Fill(0, 8) \o LE(Asym) \o <<0, 0>> \o LE(Hash) \o <<0, 0>>)>>

SlotMask ==
    LET Bit(s, mask) == IF s \in Slots THEN mask ELSE 0 IN
    Bit(0, 1) + Bit(1, 2) + Bit(2, 4) + Bit(3, 8) + Bit(4, 16) + Bit(5, 32) + Bit(6, 64) + Bit(7, 128)
ExtraOf(v) == IF v >= 19 THEN 4 ELSE 0
Digests(v) ==
    <<Message("GET_DIGESTS", "REQ", <<v, 129, 0, 0>>),
      Message("DIGESTS", "RSP", <<v, 1, 0, SlotMask>>
                 \o Fill(5, Cardinality(Slots) * (HashSize + ExtraOf(v))))>>

RestOf(s, at) == Len(Chain(s)) - at
PortionOf(s, at) == IF RestOf(s, at) < MaxPortion THEN RestOf(s, at) ELSE MaxPortion
Portions(v, s, at) ==
    LET portion == PortionOf(s, at) IN
    <<Message("GET_CERTIFICATE", "REQ", <<v, 130, s, 0>> \o LE(at) \o LE(MaxPortion)),
      Message("CERTIFICATE", "RSP",
              <<v, 2, s, 0>> \o LE(portion) \o LE(RestOf(s, at) - portion)
                \o SubSeq(Chain(s), at + 1, at + portion))>>

ContextOf(v) == IF v >= 19 THEN Fill(3, L!ContextBytes) ELSE <<>>
Asked(v, s, shape) == <<v, 131, s, shape.type>> \o Fill(9, L!NonceBytes) \o ContextOf(v)
Unsigned(v, s, shape) ==
    <<v, 3, s, 0>> \o HashOf(Certificates[s][1]) \o Fill(8, L!NonceBytes)
      \o (IF shape.type = 0 THEN <<>> ELSE Fill(7, HashSize))
      \o LE(Len(shape.opaque)) \o shape.opaque \o ContextOf(v)
Authentication(v, s, shape, raw) ==
    <<Message("CHALLENGE", "REQ", Asked(v, s, shape)),
      Message("CHALLENGE_AUTH", "RSP", Unsigned(v, s, shape) \o raw)>>

Busy(v) ==
    <<Message("GET_DIGESTS", "REQ", <<v, 129, 0, 0>>),
      Message("ERROR", "RSP", <<v, 127, 3, 0>>)>>

\* A connection begins, whatever the one before it was doing.
Connect ==
    \E v \in Versions :
      /\ Exchange(Opening(v), Nothing)
      /\ conns' = Append(conns, [version |-> v, a |-> V!Raws(Opening(v)), b |-> <<>>,
                                 cert |-> FALSE, error |-> FALSE,
                                 first |-> "none", slot |-> -1, withCert |-> FALSE])
      /\ fetch' = NotFetching
      /\ UNCHANGED <<fetched, signatures>>

\* c is what is known of the connection now.
NowIs(c) == conns' = [conns EXCEPT ![Len(conns)] = c]
Heard(msgs) == [Now EXCEPT !.b = @ \o V!Raws(msgs)]

GetDigests ==
    /\ conns # <<>>
    /\ Exchange(Digests(Now.version), [code |-> "DIGESTS", extra |-> ExtraOf(Now.version)])
    /\ NowIs(Heard(Digests(Now.version)))
    /\ UNCHANGED <<fetch, fetched, signatures>>

\* The next portion of a chain, or the first of another: a fetch may be given up.
GetCertificate ==
    /\ conns # <<>>
    /\ \E s \in Slots :
         LET at == IF fetch.slot = s THEN fetch.at ELSE 0
             portion == PortionOf(s, at)
             rest == RestOf(s, at)
             msgs == Portions(Now.version, s, at)
         IN /\ Exchange(msgs, [code |-> "CERTIFICATE", slot |-> s, at |-> at,
                               portion |-> portion, rest |-> rest - portion])
            /\ NowIs([Heard(msgs) EXCEPT !.cert = TRUE])
            /\ fetch' = IF portion = rest THEN NotFetching
                        ELSE [slot |-> s, at |-> at + portion]
            /\ fetched' = [fetched EXCEPT ![s] =
                 IF @ \in {"whole", "spoiled"} THEN @
                 ELSE IF @ = "begun" /\ at = 0 THEN "spoiled"
                 ELSE IF portion = rest THEN "whole" ELSE "begun"]
    /\ UNCHANGED signatures

\* The signature covers what this connection said, and after it B and C begin
\* anew.  A faulty responder forgets A.
Challenge ==
    /\ conns # <<>>
    /\ \E s \in Slots : \E shape \in Shapes[s] :
         LET v == Now.version
             raw == Fill(100 + spent, SigBytes)
             right == Now.a \o Now.b \o Asked(v, s, shape) \o Unsigned(v, s, shape)
             faulty == Now.b \o Asked(v, s, shape) \o Unsigned(v, s, shape)
         IN /\ Exchange(Authentication(v, s, shape, raw),
                        [code |-> "CHALLENGE_AUTH", type |-> shape.type,
                         signature |-> Len(Unsigned(v, s, shape))])
            /\ \E m1m2 \in {right, faulty} :
                 /\ signatures' = signatures \cup
                      {[key |-> KeyOf(Last(Certificates[s])), m1m2 |-> m1m2, raw |-> raw]}
                 /\ NowIs(IF Now.first # "none" THEN [Now EXCEPT !.b = <<>>]
                          ELSE [Now EXCEPT
                                  !.b = <<>>, !.slot = s, !.withCert = Now.cert,
                                  !.first = IF m1m2 = right THEN "good" ELSE "faulty"])
    /\ UNCHANGED <<fetch, fetched>>

\* The responder is busy.
Error ==
    /\ conns # <<>>
    /\ Exchange(Busy(Now.version), Nothing)
    /\ NowIs([Now EXCEPT !.error = TRUE])
    /\ UNCHANGED <<fetch, fetched, signatures>>

ChallengeNext == Connect \/ GetDigests \/ GetCertificate \/ Challenge \/ Error
ChallengeSpec == ChallengeInit /\ [][ChallengeNext]_challengeVars

-----------------------------------------------------------------------------
Rows == V!Analyse(capture, signatures)

\* Of a capture that missed nothing, every connection whose first CHALLENGE can
\* be judged is judged, and judged rightly: with the certificate or without, what
\* is said to verify was signed as the specification asks, and what is said not
\* to was not; and nothing is left unknown whose chain was fetched in one go
\* (challenge_verify.py: segments, build, analyse).
JudgedRightly ==
    lost = 0 =>
      /\ {r.connection : r \in Rows} =
           {n \in DOMAIN conns : conns[n].first # "none" /\ ~conns[n].error
                                 /\ conns[n].version <= 17}
      /\ \A r \in Rows :
           LET c == conns[r.connection] IN
           /\ r.fetched = c.withCert
           /\ r.verified = "yes" => c.first = "good"
           /\ r.verified = "no" => c.first = "faulty"
           /\ fetched[c.slot] = "whole" => r.verified # "unknown"

\* A leaf is taken only from the slot's own chain, whole: not from one that missed
\* a portion, nor from what two fetches left together.  The two at once it does not
\* notice: a portion that comes twice can stand for one that was lost
\* (challenge_verify.py: certificate_chains, leaf_certificate).
ChainIsTheSlots ==
    LET chains == V!CertificateChains(capture) IN
    \A s \in DOMAIN chains :
      /\ lost = 0 \/ (lost = 1 /\ fetched[s] # "spoiled")
      /\ V!LeafCertificate(chains[s], HashSize).why = "ok"
      =>
        /\ chains[s] = Chain(s)
        /\ V!LeafCertificate(chains[s], HashSize).leaf = Last(Certificates[s])

\* The layouts, of the last response captured: one whose request was captured is
\* placed where it was written, or refused as ambiguous; and a portion is taken
\* for the first of a chain only when it is, whichever request was captured before
\* it (fields.py: _place_challenge_auth, _place_certificate, _place_digests).
PlacedAsSent ==
    LET n == Len(capture)
        placed == L!Placed(capture, n, Negotiated)
        closed == placed.why = "closed"
    IN CASE latest.code = "DIGESTS" ->
              closed /\ placed.slots = Cardinality(Slots) /\ placed.extra = latest.extra
         [] latest.code = "CERTIFICATE" ->
              /\ latest.heard => closed /\ placed.first = (latest.at = 0)
              /\ closed => placed.portion = latest.portion /\ placed.remainder = latest.rest
              /\ closed /\ placed.chain # L!Unknown =>
                   /\ latest.at = 0
                   /\ placed.chain = Len(Chain(latest.slot))
                   /\ placed.certificates # L!Unknown =>
                        placed.rootMatches
                        /\ placed.certificates = Len(Certificates[latest.slot])
         [] latest.code = "CHALLENGE_AUTH" ->
              latest.heard => \/ closed /\ placed.signature = latest.signature
                              \/ placed.why = "ambiguous" /\ latest.type # 0
         [] OTHER -> TRUE

\* "The responder's signatures do NOT verify here either" and "the root cause is
\* in the responder" (challenge_verify.py:475): said only when one did not.
BlamedWhenFaulty ==
    lost = 0 /\ V!Report(Rows) = "responder" => \E n \in DOMAIN conns : conns[n].first = "faulty"
=============================================================================
