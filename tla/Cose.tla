------------------------------- MODULE Cose -------------------------------
(***************************************************************************)
(* rats/cose.py: CBOR items as bytes and back, ECDSA signatures in their   *)
(* two encodings, and the COSE_Sign1 that carries a reference value.       *)
(*                                                                         *)
(* An item is [t, v]: its kind and its value; a tag is [t, n, v], and a    *)
(* map's value is the sequence of its pairs.  A text is the sequence of    *)
(* its characters' codes, one byte each, and False, True and None are      *)
(* "simple" 20 to 22.  Reading gives [why, ...]: "ok" or the refusal.      *)
(***************************************************************************)
EXTENDS Integers, Sequences, SequencesExt, FiniteSets

CONSTANTS Half          \* CURVE_HALF: the bytes of one of a signature's integers

ASSUME CoseAssumption == Half \in 1 .. 60

Num(n) == [t |-> "int", v |-> n]
Bytes(s) == [t |-> "bytes", v |-> s]
Text(s) == [t |-> "text", v |-> s]
List(s) == [t |-> "list", v |-> s]
Map(s) == [t |-> "map", v |-> s]
Tagged(n, item) == [t |-> "tag", n |-> n, v |-> item]
Simple(n) == [t |-> "simple", v |-> n]
Major == [int |-> 0, bytes |-> 2, text |-> 3, list |-> 4, map |-> 5, tag |-> 6]
Refused(why) == [why |-> why]
\* What is made of a reading, if it was not refused.
Then(x, F(_)) == IF x.why = "ok" THEN F(x) ELSE x

\* n in w bytes, the most significant first; and the number of w bytes at i.
BigEndian(n, w) == [k \in 1 .. w |-> (n \div 256 ^ (w - k)) % 256]
Number(buf, i, w) == FoldLeftDomain(LAMBDA acc, k : acc * 256 + buf[i + k - 1], 0,
                                    [k \in 1 .. w |-> k])

-----------------------------------------------------------------------------
(* Heads: a major type and an argument in the fewest bytes.  The form of   *)
(* eight bytes is for arguments no TLC integer holds, and not written.     *)

ItemHead(major, n) ==
    IF n < 24 THEN <<32 * major + n>>
    ELSE IF n < 256 THEN <<32 * major + 24>> \o BigEndian(n, 1)
    ELSE IF n < 65536 THEN <<32 * major + 25>> \o BigEndian(n, 2)
    ELSE <<32 * major + 26>> \o BigEndian(n, 4)

\* dumps: one item's bytes.
RECURSIVE Dumps(_)
Dumps(item) ==
    LET All(items) == FlattenSeq([k \in DOMAIN items |-> Dumps(items[k])]) IN
    CASE item.t = "int" -> IF item.v >= 0 THEN ItemHead(0, item.v) ELSE ItemHead(1, -1 - item.v)
      [] item.t \in {"bytes", "text"} -> ItemHead(Major[item.t], Len(item.v)) \o item.v
      [] item.t = "list" -> ItemHead(4, Len(item.v)) \o All(item.v)
      [] item.t = "map" -> ItemHead(5, Len(item.v)) \o All(FlattenSeq(item.v))
      [] item.t = "tag" -> ItemHead(6, item.n) \o Dumps(item.v)
      [] item.t = "simple" -> ItemHead(7, item.v)

\* _read_arg: the head at i (from 1), and where it ends.
ReadArg(buf, i) ==
    IF i > Len(buf) THEN Refused("truncated")
    ELSE LET low == buf[i] % 32
             n == IF low < 24 THEN 0 ELSE 2 ^ (low - 24)
         IN IF low > 27 THEN Refused("reserved")
            ELSE IF i + n > Len(buf) THEN Refused("truncated")
            ELSE [why |-> "ok", major |-> buf[i] \div 32, next |-> i + 1 + n,
                  arg |-> IF low < 24 THEN low ELSE Number(buf, i + 1, n)]

\* _load: the item at i, and where it ends.
RECURSIVE Load(_, _), LoadMany(_, _, _)
LoadMany(buf, i, n) ==
    IF n = 0 THEN [why |-> "ok", items |-> <<>>, next |-> i]
    ELSE Then(Load(buf, i), LAMBDA one :
           Then(LoadMany(buf, one.next, n - 1), LAMBDA rest :
             [rest EXCEPT !.items = <<one.item>> \o @]))

Load(buf, i) ==
    LET Item(x, next) == [why |-> "ok", item |-> x, next |-> next]
        \* of 2 * n items, n keys and their values
        MapOf(many, n) ==
          IF \E k \in 1 .. n : many.items[2 * k - 1].t \in {"list", "map"}
          THEN Refused("container-key")
          ELSE Item(Map([k \in 1 .. n |-> <<many.items[2 * k - 1], many.items[2 * k]>>]),
                    many.next)
        Of(major, n, from) ==
          CASE major = 0 -> Item(Num(n), from)
            [] major = 1 -> Item(Num(-1 - n), from)
            [] major \in {2, 3} ->
                 IF from + n - 1 > Len(buf) THEN Refused("truncated")
                 ELSE Item([t |-> IF major = 2 THEN "bytes" ELSE "text",
                            v |-> SubSeq(buf, from, from + n - 1)], from + n)
            [] major = 4 ->
                 Then(LoadMany(buf, from, n), LAMBDA many : Item(List(many.items), many.next))
            [] major = 5 -> Then(LoadMany(buf, from, 2 * n), LAMBDA many : MapOf(many, n))
            [] major = 6 ->
                 Then(Load(buf, from), LAMBDA one : Item(Tagged(n, one.item), one.next))
            [] major = 7 -> IF n \in 20 .. 22 THEN Item(Simple(n), from) ELSE Refused("simple")
    IN Then(ReadArg(buf, i), LAMBDA head : Of(head.major, head.arg, head.next))

\* loads: exactly one item.
Loads(buf) ==
    Then(Load(buf, 1), LAMBDA one :
      IF one.next # Len(buf) + 1 THEN Refused("trailing") ELSE one)

-----------------------------------------------------------------------------
(* DER and raw r||s.                                                       *)

Strip(v) ==
    LET nonzero == {k \in DOMAIN v : v[k] # 0} IN
    IF nonzero = {} THEN <<>>
    ELSE SubSeq(v, CHOOSE k \in nonzero : \A j \in nonzero : k <= j, Len(v))

\* _der_int: minimal, and not negative.
DerIntUnsigned(v) ==
    LET s == IF Strip(v) = <<>> THEN <<0>> ELSE Strip(v) IN <<2, Len(s)>> \o s

DerInt(v) ==
    LET s == IF Strip(v) = <<>> THEN <<0>> ELSE Strip(v)
        p == IF s[1] >= 128 THEN <<0>> \o s ELSE s
    IN <<2, Len(p)>> \o p

RawToDer(raw) ==
    LET half == Len(raw) \div 2
        body == DerInt(SubSeq(raw, 1, half)) \o DerInt(SubSeq(raw, half + 1, Len(raw)))
    IN <<48, Len(body)>> \o body

\* der_to_raw, of a signature openssl answered with: a SEQUENCE in the short form
\* (CoseAssumption) of two INTEGERs that fit, so that it has nothing to refuse.
DerToRaw(der, half) ==
    LET r == SubSeq(der, 5, 4 + der[4])
        s == SubSeq(der, 7 + der[4], Len(der))
        Fit(v) == [k \in 1 .. half - Len(v) |-> 0] \o v
    IN Fit(Strip(r)) \o Fit(Strip(s))

-----------------------------------------------------------------------------
(* COSE_Sign1.  openssl is a relation: signatures is the set of            *)
(* [key, tbs, der] it has made, and it verifies exactly those.             *)

ES256 == -7
HdrAlg == 1
HdrContentType == 3
HdrKid == 4
Sign1Tag == 18
CorimTag == 500
SignedCorimTag == 502

\* sig_structure: what is signed holds the header's bytes as transmitted.
SigStructure(protected, payload) ==
    Dumps(List(<<Text(<<83, 49>>), Bytes(protected), Bytes(<<>>), Bytes(payload)>>))

\* The protected header main() passes on: a content type, a key identifier and
\* sign1's algorithm.
Protected(kid) ==
    Dumps(Map(<<<<Num(HdrContentType), Text(<<114>>)>>, <<Num(HdrKid), Bytes(kid)>>,
                <<Num(HdrAlg), Num(ES256)>>>>))

\* sign1, given the DER signature openssl answered with.
Sign1(payload, kid, der, corim) ==
    LET msg == Tagged(Sign1Tag, List(<<Bytes(Protected(kid)), Map(<<>>),
                                       Bytes(payload), Bytes(DerToRaw(der, Half))>>))
    IN Dumps(IF corim THEN Tagged(CorimTag, Tagged(SignedCorimTag, msg)) ELSE msg)

\* parse1: the four fields of a bare or a wrapped COSE_Sign1.
IsTag(x, n) == x.t = "tag" /\ (x.t = "tag" => x.n = n)
Fields(f) ==
    Then(IF f[1].v = <<>> THEN [why |-> "ok", item |-> Map(<<>>)] ELSE Loads(f[1].v),
         LAMBDA phdr :
           IF phdr.item.t # "map" THEN Refused("header")
           ELSE [why |-> "ok", protected |-> f[1].v, header |-> phdr.item.v,
                 payload |-> f[3].v, signature |-> f[4].v])
Parse1(blob) ==
    LET kinds == <<"bytes", "map", "bytes", "bytes">>
        Message(msg) ==
          IF ~IsTag(msg, Sign1Tag) THEN Refused("not-sign1")
          ELSE IF msg.v.t # "list" THEN Refused("not-four")
          ELSE IF Len(msg.v.v) # 4 THEN Refused("not-four")
          ELSE IF \E k \in 1 .. 4 : msg.v.v[k].t # kinds[k] THEN Refused("field")
          ELSE Fields(msg.v.v)
    IN Then(Loads(blob), LAMBDA file :
         IF ~IsTag(file.item, CorimTag) THEN Message(file.item)
         ELSE IF ~IsTag(file.item.v, SignedCorimTag) THEN Refused("not-signed-corim")
         ELSE Message(file.item.v.v))

\* verify1: "unverified" is VerifyFailed; anything else but "ok" is a CborError.
HasAlg(header) == <<Num(HdrAlg), Num(ES256)>> \in Range(header)
Signature(key, p) ==
    [key |-> key, tbs |-> SigStructure(p.protected, p.payload), der |-> RawToDer(p.signature)]

Verify1AnyKey(blob, key, signatures) ==
    Then(Parse1(blob), LAMBDA p :
      IF HasAlg(p.header) /\ Len(p.signature) = 2 * Half
         /\ \E s \in signatures : s = Signature(s.key, p)
      THEN p ELSE Refused("unverified"))

Verify1(blob, key, signatures) ==
    Then(Parse1(blob), LAMBDA p :
      IF HasAlg(p.header) /\ Len(p.signature) = 2 * Half
         /\ Signature(key, p) \in signatures
      THEN p ELSE Refused("unverified"))
=============================================================================
