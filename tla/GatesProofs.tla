----------------------------- MODULE GatesProofs -----------------------------
(* Proofs that the outcomes a green gate lets pass are those expected,     *)
(* that the verdicts it lets a document state are those of the tree, and   *)
(* that a chain it lets pass is served so that a reader can follow it.     *)
EXTENDS Gates, Recursion, FiniteSetTheorems

-----------------------------------------------------------------------------
(* fix_state.                                                              *)

\* Two routes that agree, or one that knows, decide; two that differ do not.
LEMMA TwoRoutes ==
    ASSUME NEW ev,
           ByLine(ev) \in {"unknown", "present", "absent"},
           ByAncestry(ev) \in {"unknown", "present", "absent"},
           NEW state \in {"present", "absent"}, FixState(ev) = state
    PROVE  {ByLine(ev), ByAncestry(ev)} \in {{state}, {state, "unknown"}}
<1> DEFINE routes == {ByLine(ev), ByAncestry(ev)} \ {"unknown"}
<1>1. /\ routes # {} /\ Cardinality(routes) # 2
      /\ state = CHOOSE r \in routes : TRUE
  BY DEF FixState
<1>2. state \in routes
  BY <1>1
<1>3. ASSUME NEW other \in routes, other # state PROVE FALSE
  <2>1. routes = {state} \cup {other}
    BY <1>2, <1>3
  <2>2. IsFiniteSet({state}) /\ Cardinality({state}) = 1
    BY FS_Singleton
  <2>3. other \notin {state}
    BY <1>3
  <2>4. Cardinality({state} \cup {other}) = 1 + 1
    BY <2>2, <2>3, FS_AddElement
  <2> QED BY <1>1, <2>1, <2>4
<1>4. routes = {state}
  BY <1>2, <1>3
<1> QED BY <1>4

\* With upstream's answer about both fixes, or the right line in the source, a
\* decision is the truth.
LEMMA DecisionIsTrue ==
    ASSUME NEW t \in [1 .. 2 -> BOOLEAN], NEW ev, EvidenceIsOf(ev, t),
           \/ "query-failed" \notin {ev.ancestry[1], ev.ancestry[2]}
           \/ ev.fixed = (t[1] \/ t[2]) /\ ev.defective = ~(t[1] \/ t[2])
    PROVE  /\ FixState(ev) = "present" => t[1] \/ t[2]
           /\ FixState(ev) = "absent" => ~(t[1] \/ t[2])
<1>1. /\ ev.fixed \in BOOLEAN /\ ev.defective \in BOOLEAN
      /\ ev.ancestry[1] \in {"query-failed", IF t[1] THEN "ahead" ELSE "diverged"}
      /\ ev.ancestry[2] \in {"query-failed", IF t[2] THEN "ahead" ELSE "diverged"}
  BY DEF EvidenceIsOf
<1>2. {ev.ancestry[i] : i \in 1 .. 2} = {ev.ancestry[1], ev.ancestry[2]}
  OBVIOUS
<1>3. /\ ByLine(ev) \in {"unknown", "present", "absent"}
      /\ ByAncestry(ev) \in {"unknown", "present", "absent"}
  BY DEF ByLine, ByAncestry
<1>4. ByAncestry(ev) = "present" => t[1] \/ t[2]
  BY <1>1, <1>2 DEF ByAncestry, Known, Included
<1>5. CASE "query-failed" \notin {ev.ancestry[1], ev.ancestry[2]}
  <2>1. ByAncestry(ev) = IF t[1] \/ t[2] THEN "present" ELSE "absent"
    BY <1>1, <1>2, <1>5 DEF ByAncestry, Known, Included
  <2> QED BY <1>3, <2>1, TwoRoutes
<1>6. CASE ev.fixed = (t[1] \/ t[2]) /\ ev.defective = ~(t[1] \/ t[2])
  <2>1. ByLine(ev) = IF t[1] \/ t[2] THEN "present" ELSE "absent"
    BY <1>1, <1>6 DEF ByLine
  <2> QED BY <1>3, <1>4, <2>1, TwoRoutes
<1> QED BY <1>5, <1>6

\* A verdict is a decision about the fix before it is one about reachability.
LEMMA VerdictIsDecision ==
    ASSUME NEW a \in {"0001", "0002"}, NEW ev, NEW build, NEW shown
    PROVE  /\ VerdictFor(a, ev, build, shown) = "NOT-AFFECTED" => FixState(ev) = "present"
           /\ VerdictFor(a, ev, build, shown) \in {"AFFECTED", "PRESENT-NOT-REACHABLE"} =>
                FixState(ev) = "absent"
<1>1. FixState(ev) \in {"disagreement", "indeterminate", "present", "absent"}
  <2>1. ByLine(ev) \in {"unknown", "present", "absent"}
    BY DEF ByLine
  <2>2. ByAncestry(ev) \in {"unknown", "present", "absent"}
    BY DEF ByAncestry
  <2> QED BY <2>1, <2>2 DEF FixState
<1> QED BY <1>1 DEF VerdictFor

-----------------------------------------------------------------------------
(* The encoding: der_tlv, der_children and what gen_chain.sh writes.       *)

\* Where a value is that der_tlv has read.
LEMMA TlvPlace ==
    ASSUME NEW buf \in Seq(Nat), NEW i \in Nat, NEW v, v = DerTlv(buf, i), Ok(v)
    PROVE  v.at = i /\ v.start \in Nat /\ v.len \in Nat /\ v.start > i /\ End(v) \in Nat
<1> DEFINE lead == At(buf, i + 1)
           count == IF lead < 128 THEN 0 ELSE lead - 128
           long == CHOOSE long : long = [k \in 0 .. count |->
                     IF k = 0 THEN 0 ELSE 256 * long[k - 1] + At(buf, i + 1 + k)]
<1>1. /\ v.at = i
      /\ i + 1 < Len(buf)
      /\ \/ lead < 128 /\ v.start = i + 2 /\ v.len = lead
         \/ /\ ~(lead < 128) /\ count \in 1 .. 4 /\ i + 2 + count <= Len(buf)
            /\ v.start = i + 2 + count /\ v.len = long[count]
  <2> DEFINE open == i + 1 >= Len(buf) \/ At(buf, i) % 32 = 31
             short == [why |-> "ok", tag |-> At(buf, i), at |-> i, start |-> i + 2, len |-> lead]
             full == [why |-> "ok", tag |-> At(buf, i), at |-> i, start |-> i + 2 + count,
                      len |-> long[count]]
  <2>1. v = IF open THEN Refused
            ELSE IF lead < 128 THEN short
            ELSE IF count \notin 1 .. 4 \/ i + 2 + count > Len(buf) THEN Refused
            ELSE IF long[count] < 128 \/ long[count] < 256 ^ (count - 1) THEN Refused
            ELSE full
    BY DEF DerTlv
  <2>2. v # Refused
    BY DEF Ok, Refused
  <2>3. ~open => i + 1 < Len(buf)
    OBVIOUS
  <2> HIDE DEF lead, count, long, open
  <2>4. ~open /\ (v = short \/ v = full)
    BY <2>1, <2>2
  <2>5. CASE lead < 128
    BY <2>1, <2>3, <2>4, <2>5
  <2>6. CASE ~(lead < 128)
    <3>1. count \in 1 .. 4 /\ ~(i + 2 + count > Len(buf)) /\ v = full
      BY <2>1, <2>2, <2>4, <2>6
    <3>2. Len(buf) \in Nat
      OBVIOUS
    <3> QED BY <2>3, <2>4, <2>6, <3>1, <3>2
  <2> QED BY <2>5, <2>6
<1>2. \A j \in Nat : j < Len(buf) => At(buf, j) \in Nat
  BY DEF At
<1>3. lead \in Nat
  BY <1>1, <1>2
<1>4. CASE lead < 128
  <2> HIDE DEF lead, long
  <2> QED BY <1>1, <1>3, <1>4 DEF End
<1>5. CASE ~(lead < 128)
  <2>1. count \in 1 .. 4 /\ i + 2 + count <= Len(buf) /\ v.start = i + 2 + count /\ v.len = long[count]
    <3> HIDE DEF lead, count, long
    <3> QED BY <1>1, <1>5
  <2> DEFINE G == [k \in 1 .. count |-> [y \in Nat |-> 256 * y + At(buf, i + 1 + k)]]
  <2> HIDE DEF count
  <2>2. \A k \in 1 .. count : At(buf, i + 1 + k) \in Nat
    BY <1>2, <2>1
  <2>3. G \in [1 .. count -> [Nat -> Nat]]
    BY <2>2
  <2>4. \A k \in 1 .. count : \A y \in Nat : G[k][y] = 256 * y + At(buf, i + 1 + k)
    OBVIOUS
  <2> HIDE DEF G
  <2>5. PICK f : Solves(f, Nat, 0, count, G)
    BY <2>1, <2>3, count \in Nat, 0 \in Nat, Solution
  <2>6. \A k \in 1 .. count : f[k - 1] \in Nat
    BY <2>1, <2>5 DEF Solves
  <2>7. f = [k \in 0 .. count |-> IF k = 0 THEN 0 ELSE 256 * f[k - 1] + At(buf, i + 1 + k)]
    <3>1. ASSUME NEW k \in 0 .. count
          PROVE  f[k] = IF k = 0 THEN 0 ELSE 256 * f[k - 1] + At(buf, i + 1 + k)
      <4>1. CASE k = 0
        BY <2>5, <4>1 DEF Solves
      <4>2. CASE k # 0
        <5>1. k \in 1 .. count
          BY <2>1, <4>2
        <5>2. f[k] = G[k][f[k - 1]]
          BY <2>5, <5>1 DEF Solves
        <5> QED BY <2>4, <2>6, <4>2, <5>1, <5>2
      <4> QED BY <4>1, <4>2
    <3> QED BY <2>5, <3>1 DEF Solves
  <2>8. long = [k \in 0 .. count |-> IF k = 0 THEN 0 ELSE 256 * long[k - 1] + At(buf, i + 1 + k)]
    BY <2>7, ZenonT(60)
  <2> HIDE DEF long
  <2>9. long[0] = 0
    BY <2>1, <2>8
  <2>10. ASSUME NEW k \in 1 .. count, long[k - 1] \in Nat PROVE long[k] \in Nat
    <3>1. long[k] = 256 * long[k - 1] + At(buf, i + 1 + k)
      BY <2>1, <2>8
    <3> QED BY <2>2, <2>10, <3>1
  <2>11. long[count] \in Nat
    <3>1. long[1] \in Nat
      BY <2>1, <2>9, <2>10
    <3>2. 2 <= count => long[2] \in Nat
      BY <2>1, <2>10, <3>1
    <3>3. 3 <= count => long[3] \in Nat
      BY <2>1, <2>10, <3>2
    <3>4. 4 <= count => long[4] \in Nat
      BY <2>1, <2>10, <3>3
    <3> QED BY <2>1, <3>1, <3>2, <3>3, <3>4
  <2> QED BY <1>1, <2>1, <2>11 DEF End
<1> QED BY <1>3, <1>4, <1>5

\* A value between two places lies between them.
LEMMA ChildPlace ==
    ASSUME NEW buf \in Seq(Nat), NEW i \in Nat, NEW end \in Nat,
           NEW v, v = Child(buf, i, end), Ok(v)
    PROVE  v.at = i /\ v.start \in Nat /\ v.len \in Nat /\ End(v) \in i + 1 .. end
<1>1. v = DerTlv(buf, i) /\ ~(End(v) > end)
  BY DEF Child, Then, Ok, Refused
<1>2. v.at = i /\ v.start \in Nat /\ v.len \in Nat /\ v.start > i /\ End(v) \in Nat
  BY <1>1, TlvPlace
<1> QED BY <1>1, <1>2 DEF End

\* Values one after the other from i on, each read where it stands.
Values(buf, end) == {v \in {Child(buf, i, end) : i \in 0 .. end} : Ok(v)}
Tiled(items, i) ==
    /\ items # <<>> => items[1].at = i
    /\ \A k \in 1 .. Len(items) - 1 : items[k + 1].at = End(items[k])

\* What der_children yields from i on, of what it yields further on.
Rest(f, buf, end, i) ==
    LET v == Child(buf, i, end) IN
    IF i = end THEN [why |-> "ok", items |-> <<>>]
    ELSE IF ~Ok(v) THEN v
    ELSE IF ~Ok(f[End(v)]) THEN f[End(v)]
    ELSE [f[End(v)] EXCEPT !.items = <<v>> \o @]

\* The function der_children is chosen to be exists, by recursion downwards from the end.
LEMMA ChildrenExist ==
    ASSUME NEW buf \in Seq(Nat), NEW start \in Nat, NEW end \in Nat, start <= end
    PROVE  \E f : f = [i \in start .. end |-> Rest(f, buf, end, i)]
<1> DEFINE T == {j \in Nat : j <= end - start =>
                   \E f : f = [i \in end - j .. end |-> Rest(f, buf, end, i)]}
<1>1. 0 \in T
  <2> DEFINE f == [i \in end .. end |-> [why |-> "ok", items |-> <<>>]]
  <2>1. f = [i \in end .. end |-> Rest(f, buf, end, i)]
    <3>1. \A i \in end .. end : i = end
      OBVIOUS
    <3> QED BY <3>1 DEF Rest
  <2> HIDE DEF f
  <2>2. end - 0 = end
    OBVIOUS
  <2> QED BY <2>1, <2>2
<1>2. ASSUME NEW j \in Nat, j \in T PROVE j + 1 \in T
  <2> DEFINE low == end - (j + 1)
  <2> SUFFICES ASSUME j + 1 <= end - start
               PROVE  \E f : f = [i \in low .. end |-> Rest(f, buf, end, i)]
    OBVIOUS
  <2>1. low \in Nat /\ end - j = low + 1 /\ low < end
    OBVIOUS
  <2>2. PICK f : f = [i \in low + 1 .. end |-> Rest(f, buf, end, i)]
    BY <1>2, <2>1
  <2> HIDE DEF low
  <2> DEFINE g == [i \in low .. end |-> IF i = low THEN Rest(f, buf, end, low) ELSE f[i]]
  <2>3. ASSUME NEW i \in low .. end PROVE Rest(g, buf, end, i) = Rest(f, buf, end, i)
    <3>1. ASSUME i # end, Ok(Child(buf, i, end))
          PROVE  g[End(Child(buf, i, end))] = f[End(Child(buf, i, end))]
      <4> DEFINE e == End(Child(buf, i, end))
      <4>1. e \in i + 1 .. end
        BY <2>1, <3>1, i \in Nat, ChildPlace
      <4> HIDE DEF e
      <4>2. e \in low .. end /\ e # low
        BY <2>1, <4>1
      <4>3. g[e] = f[e]
        BY <4>2
      <4> QED BY <4>3 DEF e
    <3> HIDE DEF g
    <3> QED BY <3>1 DEF Rest
  <2>4. ASSUME NEW i \in low .. end PROVE g[i] = Rest(g, buf, end, i)
    <3>1. CASE i = low
      BY <2>3, <3>1
    <3>2. CASE i # low
      <4>1. i \in low + 1 .. end
        BY <2>1, <3>2
      <4>2. g[i] = f[i] /\ f[i] = Rest(f, buf, end, i)
        BY <2>2, <3>2, <4>1
      <4> HIDE DEF g
      <4> QED BY <2>3, <4>2
    <3> QED BY <3>1, <3>2
  <2>5. g = [i \in low .. end |-> g[i]]
    OBVIOUS
  <2> HIDE DEF g
  <2> QED BY <2>4, <2>5
<1>3. Nat \subseteq T
  <2> HIDE DEF T
  <2> QED BY <1>1, <1>2, Induct
<1>4. end - start \in T /\ end - (end - start) = start
  <2> HIDE DEF T
  <2> QED BY <1>3
<1> QED BY <1>4

\* der_children returns values that follow one another from the first place to the last.
LEMMA ChildrenTile ==
    ASSUME NEW buf \in Seq(Nat), NEW start \in Nat, NEW end \in Nat, start <= end,
           NEW c, c = DerChildren(buf, start, end), Ok(c)
    PROVE  c.items \in Seq(Values(buf, end)) /\ Tiled(c.items, start)
<1> DEFINE from == CHOOSE from : from = [i \in start .. end |-> Rest(from, buf, end, i)]
           Placed(i) == Ok(from[i]) => /\ "items" \in DOMAIN from[i]
                                       /\ from[i].items \in Seq(Values(buf, end))
                                       /\ Tiled(from[i].items, i)
           T == {j \in Nat : \A i \in start .. end : i >= end - j => Placed(i)}
<1>1. c = from[start]
  BY DEF DerChildren, Then, Rest
<1>2. from = [i \in start .. end |-> Rest(from, buf, end, i)]
  BY ChildrenExist
<1> HIDE DEF from
<1>3. \A i \in start .. end : from[i] = Rest(from, buf, end, i)
  BY <1>2
<1>4. ASSUME NEW i \in start .. end, i # end, \A e \in start .. end : e > i => Placed(e)
      PROVE  Placed(i)
  <2> DEFINE v == Child(buf, i, end)
             e == End(v)
  <2> SUFFICES ASSUME Ok(from[i])
               PROVE  /\ "items" \in DOMAIN from[i]
                      /\ from[i].items \in Seq(Values(buf, end)) /\ Tiled(from[i].items, i)
    OBVIOUS
  <2>1. Ok(v) /\ Ok(from[e]) /\ from[i] = [from[e] EXCEPT !.items = <<v>> \o @]
    BY <1>3, <1>4 DEF Rest
  <2>2. v.at = i /\ e \in i + 1 .. end /\ v \in Values(buf, end)
    BY <1>4, <2>1, i \in Nat, ChildPlace DEF Values
  <2> HIDE DEF v, e
  <2>3. /\ "items" \in DOMAIN from[e]
        /\ from[e].items \in Seq(Values(buf, end)) /\ Tiled(from[e].items, e)
    BY <1>4, <2>1, <2>2
  <2>4. "items" \in DOMAIN from[i] /\ from[i].items = <<v>> \o from[e].items
    BY <2>1, <2>3
  <2> DEFINE rest == from[e].items
             all == <<v>> \o rest
  <2>5. /\ all \in Seq(Values(buf, end)) /\ Len(all) = 1 + Len(rest) /\ Len(rest) \in Nat
        /\ all[1] = v /\ \A k \in 1 .. Len(rest) : all[1 + k] = rest[k]
    BY <2>2, <2>3
  <2>6. Tiled(rest, e) /\ (Len(rest) # 0 => rest # <<>>)
    BY <2>3
  <2> HIDE DEF rest, all
  <2>7. Tiled(all, i)
    <3>1. ASSUME NEW k \in 1 .. Len(all) - 1 PROVE all[k + 1].at = End(all[k])
      <4>1. k \in 1 .. Len(rest) /\ all[k + 1] = rest[k]
        BY <2>5, <3>1
      <4>2. CASE k = 1
        BY <2>5, <2>6, <4>1, <4>2 DEF Tiled, e
      <4>3. CASE k # 1
        <5>1. k - 1 \in 1 .. Len(rest) - 1 /\ 1 + (k - 1) = k /\ (k - 1) + 1 = k
          BY <4>1, <4>3, <2>5
        <5>2. rest[(k - 1) + 1].at = End(rest[k - 1])
          BY <2>6, <5>1 DEF Tiled
        <5>3. k - 1 \in 1 .. Len(rest)
          BY <4>1, <4>3, <2>5
        <5>4. all[1 + (k - 1)] = rest[k - 1]
          BY <2>5, <5>3
        <5> QED BY <4>1, <5>1, <5>2, <5>4
      <4> QED BY <4>2, <4>3
    <3> QED BY <2>2, <2>5, <3>1 DEF Tiled
  <2> QED BY <2>4, <2>5, <2>7 DEF all, rest
<1>5. Placed(end)
  <2>1. from[end] = [why |-> "ok", items |-> <<>>]
    BY <1>3, end \in start .. end DEF Rest
  <2>2. Tiled(<<>>, end)
    BY DEF Tiled
  <2> QED BY <2>1, <2>2
<1>6. 0 \in T
  <2>1. \A i \in start .. end : i >= end - 0 => i = end
    OBVIOUS
  <2> HIDE DEF Placed
  <2> QED BY <1>5, <2>1
<1>7. ASSUME NEW j \in Nat, j \in T PROVE j + 1 \in T
  <2> HIDE DEF Placed
  <2> SUFFICES ASSUME NEW i \in start .. end, i >= end - (j + 1) PROVE Placed(i)
    OBVIOUS
  <2>1. \A h \in start .. end : h > i => h >= end - j
    BY <1>7
  <2>2. \A h \in start .. end : h > i => Placed(h)
    BY <1>7, <2>1
  <2> QED BY <1>4, <1>5, <2>2
<1>8. Placed(start)
  <2> HIDE DEF Placed, T
  <2>1. Nat \subseteq T
    BY <1>6, <1>7, Induct
  <2>2. end - start \in T
    BY <2>1
  <2> USE DEF T
  <2>3. start \in start .. end /\ start >= end - (end - start)
    OBVIOUS
  <2> QED BY <2>2, <2>3
<1> QED BY <1>1, <1>8

-----------------------------------------------------------------------------
(* The files.                                                              *)

\* Byte strings put together are a byte string.
LEMMA FlattenBytes ==
    ASSUME NEW ss \in Seq(Seq(Nat))
    PROVE  FlattenSeq(ss) \in Seq(Nat)
<1>1. PICK f : Runs(ss, f, Nat)
  BY RunsExist
<1>2. f[Len(ss)] \in Seq(Nat)
  BY <1>1, Len(ss) \in Nat DEF Runs
<1> QED BY <1>1, <1>2, FlattenIs

\* So is an encoding of one.
LEMMA TlvBytes ==
    ASSUME NEW tag \in Nat, NEW body \in Seq(Nat)
    PROVE  Tlv(tag, body) \in Seq(Nat)
<1>1. DerLength(Len(body)) \in Seq(Nat) /\ <<tag>> \in Seq(Nat)
  BY DEF DerLength
<1> QED BY <1>1 DEF Tlv

\* The values of two and of three bodies in one.
LEMMA JoinedBytes == \A s, t \in Seq(Nat) : s \o t \in Seq(Nat)
OBVIOUS

\* Every encoding gen_chain.sh has openssl make consists of bytes: an extension, a name,
LEMMA OidBytes ==
    ASSUME NEW oid \in Seq(Nat), Len(oid) >= 2
    PROVE  EncodeOid(oid) \in Seq(Nat)
<1> DEFINE arc(n) == IF n < 128 THEN <<n>> ELSE <<128 + (n \div 128), n % 128>>
           n == Len(oid) - 2
           arcs == [k \in 1 .. n |-> arc(oid[k + 2])]
           first == <<40 * oid[1] + oid[2]>>
<1>1. ASSUME NEW b \in Nat PROVE arc(b) \in Seq(Nat)
  <2>1. b % 128 \in Nat /\ 128 + (b \div 128) \in Nat
    OBVIOUS
  <2>2. <<b>> \in Seq(Nat) /\ <<128 + (b \div 128), b % 128>> \in Seq(Nat)
    BY <2>1
  <2> QED BY <2>2
<1>2. n \in Nat /\ \A k \in 1 .. n : oid[k + 2] \in Nat
  OBVIOUS
<1> HIDE DEF arc, n
<1>3. arcs \in Seq(Seq(Nat))
  <2>1. \A k \in 1 .. n : arc(oid[k + 2]) \in Seq(Nat)
    BY <1>1, <1>2
  <2>2. arcs \in [1 .. n -> Seq(Nat)]
    BY <2>1
  <2> HIDE DEF arcs
  <2> QED BY <1>2, <2>2
<1>4. first \in Seq(Nat)
  OBVIOUS
<1>5. EncodeOid(oid) = Tlv(6, first \o FlattenSeq(arcs))
  BY DEF EncodeOid, arc, n
<1> HIDE DEF arcs, first
<1>6. first \o FlattenSeq(arcs) \in Seq(Nat)
  BY <1>3, <1>4, FlattenBytes
<1> HIDE DEF EncodeOid
<1>7. Tlv(6, first \o FlattenSeq(arcs)) \in Seq(Nat)
  BY <1>6, 6 \in Nat, TlvBytes
<1> QED BY <1>5, <1>7

LEMMA ExtensionBytes ==
    ASSUME NEW oid \in Seq(Nat), Len(oid) >= 2, NEW critical \in BOOLEAN, NEW value \in Seq(Nat)
    PROVE  EncodeExtension(oid, critical, value) \in Seq(Nat)
<1> DEFINE flag == IF critical THEN Tlv(1, <<255>>) ELSE <<>>
           body == EncodeOid(oid) \o flag \o Tlv(4, value)
<1>1. Tlv(1, <<255>>) \in Seq(Nat) /\ Tlv(4, value) \in Seq(Nat)
  BY 1 \in Nat, 4 \in Nat, <<255>> \in Seq(Nat), TlvBytes
<1>2. flag \in Seq(Nat)
  BY <1>1, <<>> \in Seq(Nat)
<1>3. EncodeOid(oid) \in Seq(Nat)
  BY OidBytes
<1>4. EncodeExtension(oid, critical, value) = Tlv(48, body)
  BY DEF EncodeExtension
<1> HIDE DEF flag
<1>5. body \in Seq(Nat)
  BY <1>1, <1>2, <1>3
<1> HIDE DEF body
<1> QED BY <1>4, <1>5, 48 \in Nat, TlvBytes

LEMMA NameBytes ==
    ASSUME NEW oid \in Seq(Nat), Len(oid) >= 2, NEW text \in Seq(Nat)
    PROVE  EncodeName(oid, text) \in Seq(Nat)
<1> DEFINE body == EncodeOid(oid) \o Tlv(160, Tlv(12, text))
<1>1. Tlv(12, text) \in Seq(Nat)
  BY 12 \in Nat, TlvBytes
<1>2. Tlv(160, Tlv(12, text)) \in Seq(Nat)
  BY <1>1, 160 \in Nat, TlvBytes
<1>3. body \in Seq(Nat)
  BY <1>2, OidBytes
<1>4. EncodeName(oid, text) = Tlv(160, body)
  BY DEF EncodeName
<1> HIDE DEF body
<1> QED BY <1>3, <1>4, 160 \in Nat, TlvBytes

LEMMA OidsAreBytes ==
    \A oid \in {DeviceInfo, HwIdentity, SpdmExt, PcieDeviceId, SubjectAltName, BasicConstraints} :
      oid \in Seq(Nat) /\ Len(oid) >= 2
<1>1. DeviceInfo \in Seq(Nat) /\ Len(DeviceInfo) >= 2
  BY DEF DeviceInfo
<1>2. HwIdentity \in Seq(Nat) /\ Len(HwIdentity) >= 2
  BY DEF HwIdentity
<1>3. SpdmExt \in Seq(Nat) /\ Len(SpdmExt) >= 2
  BY DEF SpdmExt
<1>4. PcieDeviceId \in Seq(Nat) /\ Len(PcieDeviceId) >= 2
  BY DEF PcieDeviceId
<1>5. SubjectAltName \in Seq(Nat) /\ Len(SubjectAltName) >= 2
  BY DEF SubjectAltName
<1>6. BasicConstraints \in Seq(Nat) /\ Len(BasicConstraints) >= 2
  BY DEF BasicConstraints
<1> QED BY <1>1, <1>2, <1>3, <1>4, <1>5, <1>6

LEMMA IdentityBytes == Identity \in Seq(Nat)
<1> DEFINE info == EncodeName(DeviceInfo, <<65, 66, 58, 67, 68, 58, 69, 70>>)
           id == EncodeName(PcieDeviceId, <<68>>)
           names == Tlv(48, info \o id)
           hw == Tlv(48, Tlv(48, EncodeOid(HwIdentity)))
<1>1. info \in Seq(Nat) /\ id \in Seq(Nat)
  BY OidsAreBytes, <<65, 66, 58, 67, 68, 58, 69, 70>> \in Seq(Nat), <<68>> \in Seq(Nat), NameBytes
<1>2. EncodeOid(HwIdentity) \in Seq(Nat)
  BY OidsAreBytes, OidBytes
<1>3. hw \in Seq(Nat)
  <2>1. Tlv(48, EncodeOid(HwIdentity)) \in Seq(Nat)
    BY <1>2, 48 \in Nat, TlvBytes
  <2> QED BY <2>1, 48 \in Nat, TlvBytes
<1>4. Identity = EncodeExtension(SubjectAltName, FALSE, names) \o EncodeExtension(SpdmExt, FALSE, hw)
  BY DEF Identity
<1> HIDE DEF info, id, hw
<1>5. names \in Seq(Nat)
  BY <1>1, JoinedBytes, 48 \in Nat, TlvBytes
<1> HIDE DEF names
<1>6. /\ EncodeExtension(SubjectAltName, FALSE, names) \in Seq(Nat)
      /\ EncodeExtension(SpdmExt, FALSE, hw) \in Seq(Nat)
  BY <1>3, <1>5, OidsAreBytes, FALSE \in BOOLEAN, ExtensionBytes
<1> QED BY <1>4, <1>6, JoinedBytes

LEMMA ConstraintsBytes ==
    ASSUME NEW isCa \in BOOLEAN
    PROVE  Constraints(isCa) \in Seq(Nat)
<1> DEFINE ca == IF isCa THEN Tlv(1, <<255>>) ELSE <<>>
<1>1. Tlv(1, <<255>>) \in Seq(Nat)
  BY 1 \in Nat, <<255>> \in Seq(Nat), TlvBytes
<1>2. ca \in Seq(Nat)
  BY <1>1, <<>> \in Seq(Nat)
<1>3. Constraints(isCa) = EncodeExtension(BasicConstraints, TRUE, Tlv(48, ca))
  BY DEF Constraints
<1> HIDE DEF ca
<1>4. Tlv(48, ca) \in Seq(Nat)
  BY <1>2, 48 \in Nat, TlvBytes
<1> QED BY <1>3, <1>4, OidsAreBytes, TRUE \in BOOLEAN, ExtensionBytes

LEMMA SignatureBytes ==
    ASSUME NEW key \in Nat, NEW tbs \in Seq(Nat)
    PROVE  Sign(key, tbs) \in Seq(Nat)
<1> DEFINE r == [k \in 1 .. 1 + (key % 2) |-> key]
           s == <<1 + key, Digest(tbs), key>>
<1>1. Digest(tbs) \in Nat
  <2>1. IsFiniteSet(1 .. Len(tbs)) /\ DOMAIN tbs = 1 .. Len(tbs)
    BY FS_Interval, Len(tbs) \in Nat
  <2>2. IsFiniteSet({k \in DOMAIN tbs : tbs[k] % 2 = 1})
    BY <2>1, FS_Subset
  <2> QED BY <2>2, FS_CardinalityType DEF Digest
<1>2. r \in Seq(Nat)
  <2>1. 1 + (key % 2) \in Nat
    OBVIOUS
  <2> QED BY <2>1
<1>3. s \in Seq(Nat)
  BY <1>1
<1>4. Sign(key, tbs) = Tlv(48, Tlv(2, r) \o Tlv(2, s))
  BY DEF Sign
<1> HIDE DEF r, s
<1>5. Tlv(2, r) \in Seq(Nat) /\ Tlv(2, s) \in Seq(Nat)
  BY <1>2, <1>3, 2 \in Nat, TlvBytes
<1>6. Tlv(2, r) \o Tlv(2, s) \in Seq(Nat)
  BY <1>5, JoinedBytes
<1> QED BY <1>4, <1>6, 48 \in Nat, TlvBytes

LEMMA CertificateBytes ==
    ASSUME NEW stem \in Range(Stems), NEW gen \in Generations
    PROVE  Certificate(stem, gen) \in Seq(Nat)
<1>1. \A s \in Range(Stems) : Serial(s) \in 1 .. 4
  BY DEF Serial, Stems, Range
<1>2. Issuer(stem) \in Range(Stems)
  BY DEF Issuer, Stems, Range
<1>3. /\ Serial(stem) \in Nat /\ Serial(Issuer(stem)) \in Nat
      /\ KeyOf(stem, gen) \in Nat /\ KeyOf(Issuer(stem), gen) \in Nat
  BY <1>1, <1>2, GenerationsAssumption DEF KeyOf
<1> DEFINE exts == Constraints(stem \notin Leaves) \o IF stem \in Leaves THEN Identity ELSE <<>>
           fields == Tlv(2, <<Serial(stem)>>) \o Tlv(48, <<Serial(Issuer(stem))>>)
                       \o Tlv(48, <<Serial(stem)>>) \o Tlv(48, <<KeyOf(stem, gen)>>)
                       \o Tlv(163, Tlv(48, exts))
           tbs == Tlv(48, fields)
<1>4. exts \in Seq(Nat)
  <2>1. (IF stem \in Leaves THEN Identity ELSE <<>>) \in Seq(Nat)
    BY IdentityBytes, <<>> \in Seq(Nat)
  <2>2. Constraints(stem \notin Leaves) \in Seq(Nat)
    BY ConstraintsBytes, (stem \notin Leaves) \in BOOLEAN
  <2> QED BY <2>1, <2>2, JoinedBytes
<1>5. Tlv(163, Tlv(48, exts)) \in Seq(Nat)
  <2> HIDE DEF exts
  <2>1. Tlv(48, exts) \in Seq(Nat)
    BY <1>4, 48 \in Nat, TlvBytes
  <2> QED BY <2>1, 163 \in Nat, TlvBytes
<1>6. /\ Tlv(2, <<Serial(stem)>>) \in Seq(Nat) /\ Tlv(48, <<Serial(Issuer(stem))>>) \in Seq(Nat)
      /\ Tlv(48, <<Serial(stem)>>) \in Seq(Nat) /\ Tlv(48, <<KeyOf(stem, gen)>>) \in Seq(Nat)
  <2>1. \A b \in Nat : <<b>> \in Seq(Nat)
    OBVIOUS
  <2> QED BY <1>3, <2>1, 2 \in Nat, 48 \in Nat, TlvBytes
<1>7. tbs \in Seq(Nat)
  <2> HIDE DEF exts
  <2>1. fields \in Seq(Nat)
    BY <1>5, <1>6
  <2> HIDE DEF fields
  <2> QED BY <2>1, 48 \in Nat, TlvBytes
<1>8. Certificate(stem, gen)
        = Tlv(48, tbs \o Tlv(48, <<>>) \o Tlv(3, <<0>> \o Sign(KeyOf(Issuer(stem), gen), tbs)))
  BY DEF Certificate
<1> HIDE DEF tbs
<1> DEFINE sig == Sign(KeyOf(Issuer(stem), gen), tbs)
<1>9. sig \in Seq(Nat)
  BY <1>3, <1>7, SignatureBytes
<1> HIDE DEF sig
<1>10. Tlv(48, <<>>) \in Seq(Nat) /\ Tlv(3, <<0>> \o sig) \in Seq(Nat)
  <2>1. <<0>> \o sig \in Seq(Nat) /\ <<>> \in Seq(Nat)
    BY <1>9, <<0>> \in Seq(Nat)
  <2> QED BY <2>1, 3 \in Nat, 48 \in Nat, TlvBytes
<1>11. tbs \o Tlv(48, <<>>) \o Tlv(3, <<0>> \o sig) \in Seq(Nat)
  BY <1>7, <1>10, JoinedBytes
<1>12. Tlv(48, tbs \o Tlv(48, <<>>) \o Tlv(3, <<0>> \o sig)) \in Seq(Nat)
  BY <1>11, 48 \in Nat, TlvBytes
<1> QED BY <1>8, <1>12 DEF sig

\* So does what a file holds, a copy that is not intact included.
LEMMA ContentBytes ==
    ASSUME NEW file \in FileNames
    PROVE  Content(file) \in Seq(Nat)
<1> DEFINE der == Certificate(file.stem, file.gen)
           at == Place(der, file.part)
<1>1. file.stem \in Range(Stems) /\ file.gen \in Generations /\ file.part \in Parts
  BY DEF FileNames
<1>2. der \in Seq(Nat)
  BY <1>1, CertificateBytes
<1>3. Content(file) = IF file.part = "intact" THEN der ELSE FlipLow(der, at)
  BY <1>1 DEF Content, BytesOf
<1> HIDE DEF der, at
<1>4. FlipLow(der, at) \in Seq(Nat)
  <2> DEFINE b == IF At(der, at) % 2 = 0 THEN At(der, at) + 1 ELSE At(der, at) - 1
           x == at + 1
           put == [der EXCEPT ![x] = b]
  <2>1. FlipLow(der, at) = put
    BY DEF FlipLow, Put
  <2>2. x \in 1 .. Len(der) => b \in Nat
    BY <1>2 DEF At
  <2> HIDE DEF b, x
  <2>3. \A k \in 1 .. Len(der) : put[k] \in Nat
    BY <1>2, <2>2
  <2>4. put = [k \in 1 .. Len(der) |-> put[k]]
    BY <1>2
  <2> HIDE DEF put
  <2>5. Len(der) \in Nat
    BY <1>2
  <2> QED BY <2>1, <2>3, <2>4, <2>5
<1> QED BY <1>2, <1>3, <1>4

-----------------------------------------------------------------------------
(* The problems check finds.                                               *)

\* What check says of which certificate.
Complaints ==
    {"self-signed", "issuer", "verify", "is a CA", "not critical", "serial", "raises", "unreadable",
     "no constraints", "no device info", "device info", "no PCIe id", "no SPDM extension",
     "no hardware id", "names", "no names", "does not parse", "is not the files", "lengths"}
Certs == {"ca", "inter", "end_responder", "end_requester"}
Found == Seq(Complaints \X Certs)

\* A complaint is made exactly when its condition holds.
LEMMA WhenFound ==
    ASSUME NEW problem, NEW what \in Complaints, NEW which \in Certs
    PROVE  When(problem, what, which) \in Found /\ (When(problem, what, which) = <<>> => ~problem)
<1> DEFINE x == <<what, which>>
<1>1. x \in Complaints \X Certs
  OBVIOUS
<1> HIDE DEF x
<1>2. <<x>> \in Found /\ <<>> \in Found /\ Len(<<x>>) = 1 /\ Len(<<>>) = 0
  BY <1>1 DEF Found
<1> QED BY <1>2 DEF When, x

\* Two lists of complaints are empty together when both are.
LEMMA BothFound ==
    ASSUME NEW p \in Found, NEW q \in Found
    PROVE  p \o q \in Found /\ (p \o q = <<>> => p = <<>> /\ q = <<>>)
<1>1. Len(p) \in Nat /\ Len(q) \in Nat /\ Len(p \o q) = Len(p) + Len(q)
  BY DEF Found
<1>2. p \o q = <<>> => Len(p) = 0 /\ Len(q) = 0
  BY <1>1
<1> QED BY <1>2 DEF Found

\* Every part of check is a list of complaints; what an empty one says is in each lemma.
LEMMA LayerFound ==
    ASSUME NEW dir, NEW stem \in Certs
    PROVE  LayerProblems(dir, stem) \in Found
<1>1. \A c : /\ When(c, "is a CA", stem) \in Found
             /\ When(c, "not critical", stem) \in Found
             /\ When(c, "serial", stem) \in Found
             /\ When(c, "raises", stem) \in Found
             /\ When(c, "unreadable", stem) \in Found
             /\ When(c, "no constraints", stem) \in Found
  <2>1. /\ "is a CA" \in Complaints
        /\ "not critical" \in Complaints
        /\ "serial" \in Complaints
        /\ "raises" \in Complaints
        /\ "unreadable" \in Complaints
        /\ "no constraints" \in Complaints
    BY DEF Complaints
  <2> QED BY <2>1, WhenFound
<1>2. \A p, q \in Found : p \o q \in Found
  BY BothFound
<1> QED BY <1>1, <1>2 DEF LayerProblems

LEMMA IdentityFound ==
    ASSUME NEW dir, NEW leaf \in Certs
    PROVE  IdentityProblems(dir, leaf) \in Found
<1>1. \A c : /\ When(c, "no device info", leaf) \in Found
             /\ When(c, "device info", leaf) \in Found
             /\ When(c, "no PCIe id", leaf) \in Found
             /\ When(c, "no SPDM extension", leaf) \in Found
             /\ When(c, "raises", leaf) \in Found
             /\ When(c, "no hardware id", leaf) \in Found
             /\ When(c, "names", leaf) \in Found
             /\ When(c, "no names", leaf) \in Found
  <2>1. /\ "no device info" \in Complaints
        /\ "device info" \in Complaints
        /\ "no PCIe id" \in Complaints
        /\ "no SPDM extension" \in Complaints
        /\ "raises" \in Complaints
        /\ "no hardware id" \in Complaints
        /\ "names" \in Complaints
        /\ "no names" \in Complaints
    BY DEF Complaints
  <2> QED BY <2>1, WhenFound
<1>2. \A p, q \in Found : p \o q \in Found
  BY BothFound
<1> QED BY <1>1, <1>2 DEF IdentityProblems

\* openssl verified both certificates against their issuers, when no link is complained of.
LEMMA LinksFound ==
    ASSUME NEW dir
    PROVE  /\ LinkProblems(dir) \in Found
           /\ LinkProblems(dir) = <<>> =>
                \A leaf \in Leaves : OpensslVerify(dir.pem["ca"], dir.pem["inter"], dir.pem[leaf])
<1>1. /\ "self-signed" \in Complaints /\ "issuer" \in Complaints /\ "verify" \in Complaints
      /\ "ca" \in Certs /\ "inter" \in Certs /\ "end_responder" \in Certs /\ "end_requester" \in Certs
  BY DEF Complaints, Certs
<1> DEFINE subject(s) == CertName(dir.pem[s], "subject")
           issuer(s) == CertName(dir.pem[s], "issuer")
           verifies(leaf) == OpensslVerify(dir.pem["ca"], dir.pem["inter"], dir.pem[leaf])
           p1 == When(subject("ca") # issuer("ca"), "self-signed", "ca")
           p2 == When(issuer("inter") # subject("ca"), "issuer", "inter")
           p3 == When(issuer("end_responder") # subject("inter"), "issuer", "end_responder")
           p4 == When(issuer("end_requester") # subject("inter"), "issuer", "end_requester")
           p5 == When(~verifies("end_responder"), "verify", "end_responder")
           p6 == When(~verifies("end_requester"), "verify", "end_requester")
<1>2. LinkProblems(dir) = p1 \o p2 \o p3 \o p4 \o p5 \o p6
  BY DEF LinkProblems
<1>3. /\ p1 \in Found /\ p2 \in Found /\ p3 \in Found /\ p4 \in Found
  <2> HIDE DEF subject, issuer
  <2> QED BY <1>1, WhenFound
<1>4. /\ p5 \in Found /\ (p5 = <<>> => verifies("end_responder"))
      /\ p6 \in Found /\ (p6 = <<>> => verifies("end_requester"))
  <2> HIDE DEF verifies
  <2> QED BY <1>1, WhenFound
<1> HIDE DEF p1, p2, p3, p4, p5, p6
<1>5. /\ p1 \o p2 \in Found /\ p1 \o p2 \o p3 \in Found /\ p1 \o p2 \o p3 \o p4 \in Found
      /\ p1 \o p2 \o p3 \o p4 \o p5 \in Found
  BY <1>3, <1>4, BothFound
<1>6. /\ LinkProblems(dir) \in Found
      /\ LinkProblems(dir) = <<>> => p5 = <<>> /\ p6 = <<>>
  BY <1>2, <1>4, <1>5, <1>3, BothFound
<1> QED BY <1>4, <1>6 DEF Leaves

\* No problem with a bundle: it parses, is the files, and its lengths are theirs.
LEMMA BundleFound ==
    ASSUME NEW dir, NEW leaf \in Leaves
    PROVE  /\ BundleProblems(dir, leaf) \in Found
           /\ BundleProblems(dir, leaf) = <<>> =>
                LET certs == DerSequences(dir.bundle[leaf]) IN
                /\ Ok(certs) /\ AsBundled(dir, leaf)
                /\ [k \in DOMAIN certs.items |-> End(certs.items[k]) - certs.items[k].at]
                     = [k \in 1 .. 3 |-> Len(dir.der[BundleOf(leaf)[k]])]
<1>1. /\ "does not parse" \in Complaints /\ "is not the files" \in Complaints
      /\ "lengths" \in Complaints /\ leaf \in Certs
  BY DEF Complaints, Certs, Leaves
<1> DEFINE certs == DerSequences(dir.bundle[leaf])
           lengths == [k \in DOMAIN certs.items |-> End(certs.items[k]) - certs.items[k].at]
                        # [k \in 1 .. 3 |-> Len(dir.der[BundleOf(leaf)[k]])]
           p1 == When(TRUE, "does not parse", leaf)
           p2 == When(TRUE, "is not the files", leaf)
           p3 == When(lengths, "lengths", leaf)
<1>2. BundleProblems(dir, leaf) = IF ~Ok(certs) THEN p1 ELSE IF ~AsBundled(dir, leaf) THEN p2 ELSE p3
  BY DEF BundleProblems
<1>3. /\ p1 \in Found /\ p1 # <<>> /\ p2 \in Found /\ p2 # <<>>
  BY <1>1, WhenFound
<1>4. p3 \in Found /\ (p3 = <<>> => ~lengths)
  <2> HIDE DEF lengths
  <2> QED BY <1>1, WhenFound
<1>5. BundleProblems(dir, leaf) \in Found
  <2> HIDE DEF p1, p2, p3, certs
  <2> QED BY <1>2, <1>3, <1>4
<1>6. BundleProblems(dir, leaf) = <<>> => Ok(certs) /\ AsBundled(dir, leaf) /\ ~lengths
  <2> HIDE DEF p1, p2, p3, certs, lengths
  <2> QED BY <1>2, <1>3, <1>4
<1> QED BY <1>5, <1>6

\* check finds no problem only when no part of it does.
LEMMA NoProblems ==
    ASSUME NEW dir, Problems(dir) = <<>>
    PROVE  /\ LinkProblems(dir) = <<>>
           /\ \A leaf \in Leaves : BundleProblems(dir, leaf) = <<>>
<1> DEFINE layers == [k \in 1 .. 4 |-> LayerProblems(dir, Stems[k])]
           p1 == LinkProblems(dir)
           p2 == FlattenSeq(layers)
           p3 == IdentityProblems(dir, "end_responder")
           p4 == IdentityProblems(dir, "end_requester")
           p5 == BundleProblems(dir, "end_responder")
           p6 == BundleProblems(dir, "end_requester")
<1>1. p1 \o p2 \o p3 \o p4 \o p5 \o p6 = <<>>
  BY DEF Problems
<1>2. layers \in Seq(Found)
  <2>1. \A k \in 1 .. 4 : Stems[k] \in Certs
    BY DEF Stems, Certs
  <2> QED BY <2>1, LayerFound
<1>3. p2 \in Found
  <2> HIDE DEF layers
  <2>1. PICK f : Runs(layers, f, Complaints \X Certs)
    BY <1>2, RunsExist DEF Found
  <2>2. f[Len(layers)] \in Found
    BY <1>2, <2>1, Len(layers) \in Nat DEF Runs, Found
  <2> QED BY <1>2, <2>1, <2>2, FlattenIs DEF Found
<1>4. "end_responder" \in Leaves /\ "end_requester" \in Leaves
      /\ "end_responder" \in Certs /\ "end_requester" \in Certs
  BY DEF Leaves, Certs
<1>5. p1 \in Found /\ p3 \in Found /\ p4 \in Found /\ p5 \in Found /\ p6 \in Found
  BY <1>4, LinksFound, IdentityFound, BundleFound
<1> HIDE DEF p1, p2, p3, p4, p5, p6
<1>6. /\ p1 \o p2 \in Found /\ p1 \o p2 \o p3 \in Found /\ p1 \o p2 \o p3 \o p4 \in Found
      /\ p1 \o p2 \o p3 \o p4 \o p5 \in Found
  BY <1>3, <1>5, BothFound
<1>7. p6 = <<>> /\ p1 \o p2 \o p3 \o p4 \o p5 = <<>>
  BY <1>1, <1>5, <1>6, BothFound
<1>8. p5 = <<>> /\ p1 \o p2 \o p3 \o p4 = <<>>
  BY <1>7, <1>5, <1>6, BothFound
<1>9. p1 \o p2 = <<>>
  <2>1. p1 \o p2 \o p3 = <<>>
    BY <1>8, <1>5, <1>6, BothFound
  <2> QED BY <2>1, <1>5, <1>6, BothFound
<1>10. p1 = <<>>
  BY <1>9, <1>3, <1>5, BothFound
<1> QED BY <1>7, <1>8, <1>10 DEF p1, p5, p6, Leaves

-----------------------------------------------------------------------------
(* A chain without problems.                                               *)

\* What openssl can decode, --locate finds the signature of.
LEMMA DecodedHasSpan ==
    ASSUME NEW der \in Seq(Nat), Ok(Decoded(der))
    PROVE  Ok(SignatureSpan(der))
<1> DEFINE cert == DerTlv(der, 0)
           parts == Inside(der, cert)
           p == parts.items
<1>1. Ok(cert) /\ Ok(parts) /\ Shaped(der, cert, p)
  BY DEF Decoded, Then, Ok, Refused
<1> DEFINE bits == p[3]
           inner == DerChildren(der, bits.start + 1, End(bits))
<1>2. cert.tag = 48 /\ Len(p) = 3 /\ p[1].tag = 48 /\ bits.tag = 3 /\ bits.len > 0
      /\ At(der, bits.start) = 0
  BY <1>1 DEF Shaped
<1>3. bits.len \in Nat
  <2>1. p \in Seq(Values(der, End(cert)))
    <3>1. cert.start \in Nat /\ cert.len \in Nat /\ End(cert) \in Nat
      BY <1>1, 0 \in Nat, TlvPlace
    <3>2. cert.start <= End(cert)
      BY <3>1 DEF End
    <3> HIDE DEF cert, p
    <3> QED BY <1>1, <3>1, <3>2, ChildrenTile DEF Inside, p
  <2>2. bits \in Values(der, End(cert))
    BY <1>2, <2>1
  <2>3. PICK i \in 0 .. End(cert) : bits = Child(der, i, End(cert)) /\ Ok(bits)
    BY <2>2 DEF Values
  <2>4. bits = DerTlv(der, i)
    BY <2>3 DEF Child, Then, Ok, Refused
  <2> QED BY <2>3, <2>4, i \in Nat, TlvPlace
<1>4. SignatureSpan(der) = SpanOf(der, bits, inner)
  BY <1>1, <1>2, <1>3 DEF SignatureSpan, Then
<1>5. Ok(SpanOf(der, bits, inner))
  BY DEF SpanOf, Ok
<1> QED BY <1>4, <1>5

\* The three byte strings of c stand in buf one after the other, and items are
\* the values read from it.
Three(c, buf, items) ==
    /\ c \in Seq(Seq(Nat)) /\ Len(c) = 3
    /\ buf = FlattenSeq(c)
    /\ items \in Seq(Values(buf, Len(buf))) /\ Len(items) = 3 /\ Tiled(items, 0)
    /\ \A k \in 1 .. 3 : End(items[k]) - items[k].at = Len(c[k])

\* What stands in a sequence over a set is a member of it.
LEMMA Member ==
    ASSUME NEW S, NEW s \in Seq(S), NEW j \in 1 .. Len(s)
    PROVE  s[j] \in S
OBVIOUS

\* The n-th of three values that stand one after the other is the n-th file.
LEMMA CutIsFile ==
    ASSUME NEW c, NEW buf, NEW items, Three(c, buf, items), NEW n \in 1 .. 3
    PROVE  Take(buf, items[n].at, End(items[n]) - items[n].at) = c[n]
<1>0. c \in Seq(Seq(Nat)) /\ Len(c) = 3 /\ buf = FlattenSeq(c)
  BY DEF Three
<1>1. PICK f : Runs(c, f, Nat)
  BY <1>0, RunsExist
<1>2. buf = f[3] /\ buf \in Seq(Nat) /\ Len(buf) \in Nat
  <2>1. FlattenSeq(c) = f[Len(c)]
    BY <1>0, <1>1, FlattenIs
  <2>2. FlattenSeq(c) \in Seq(Nat)
    BY <1>0, FlattenBytes
  <2>3. Len(FlattenSeq(c)) \in Nat
    BY <2>2
  <2> QED BY <1>0, <2>1, <2>2, <2>3
<1>3. \A j \in 1 .. 3 : Stands(c, f, j)
  <2>1. \A j \in 1 .. Len(c) : Stands(c, f, j)
    BY <1>0, <1>1, RunsPlace
  <2> QED BY <1>0, <2>1
<1>4. \A j \in 1 .. 3 : /\ Len(f[j - 1]) \in Nat /\ Len(f[j]) = Len(f[j - 1]) + Len(c[j])
                       /\ Len(f[j]) <= Len(buf)
                       /\ \A p \in 1 .. Len(c[j]) : buf[Len(f[j - 1]) + p] = c[j][p]
  <2> TAKE j \in 1 .. 3
  <2>1. Stands(c, f, j) /\ j \in 1 .. Len(c)
    BY <1>0, <1>3
  <2>2. f[Len(c)] = buf
    BY <1>0, <1>2
  <2> QED BY <2>1, <2>2 DEF Stands
<1>5. Len(f[0]) = 0
  BY <1>1 DEF Runs
<1>6. \A j \in 1 .. 3 : items[j].at \in Nat /\ End(items[j]) \in Nat
  <2> TAKE j \in 1 .. 3
  <2>1. items[j] \in Values(buf, Len(buf))
    <3>1. items \in Seq(Values(buf, Len(buf))) /\ Len(items) = 3
      BY DEF Three
    <3> QED BY <3>1
  <2>2. PICK i \in 0 .. Len(buf) : items[j] = Child(buf, i, Len(buf)) /\ Ok(items[j])
    BY <2>1 DEF Values
  <2>3. items[j].at = i /\ End(items[j]) \in i + 1 .. Len(buf)
    BY <1>2, <2>2, i \in Nat, ChildPlace
  <2> QED BY <1>2, <2>3
<1>7. items[1].at = 0 /\ items[2].at = End(items[1]) /\ items[3].at = End(items[2])
  <2>1. Tiled(items, 0) /\ items \in Seq(Values(buf, Len(buf))) /\ Len(items) = 3
    BY DEF Three
  <2>2. items # <<>>
    BY <2>1
  <2>3. 1 \in 1 .. Len(items) - 1 /\ 2 \in 1 .. Len(items) - 1
    BY <2>1
  <2> QED BY <2>1, <2>2, <2>3, 1 + 1 = 2, 2 + 1 = 3 DEF Tiled
<1>8. \A j \in 1 .. 3 : c[j] \in Seq(Nat) /\ Len(c[j]) \in Nat
  <2> TAKE j \in 1 .. 3
  <2>1. c[j] \in Seq(Nat)
    BY <1>0, Member
  <2> QED BY <2>1
<1>9. items[n].at = Len(f[n - 1])
  <2> DEFINE at(j) == items[j].at
             l(j) == Len(f[j])
  <2>1. l(0) = 0 /\ at(1) = 0
    BY <1>5, <1>7
  <2>2. at(2) = at(1) + Len(c[1]) /\ at(3) = at(2) + Len(c[2])
    <3>1. End(items[1]) - at(1) = Len(c[1]) /\ End(items[2]) - at(2) = Len(c[2])
      BY DEF Three
    <3>2. at(1) \in Nat /\ at(2) \in Nat /\ End(items[1]) \in Nat /\ End(items[2]) \in Nat
      BY <1>6
    <3>3. at(2) = End(items[1]) /\ at(3) = End(items[2])
      BY <1>7
    <3>4. Len(c[1]) \in Nat /\ Len(c[2]) \in Nat
      BY <1>8
    <3> HIDE DEF at
    <3> QED BY <3>1, <3>2, <3>3, <3>4
  <2>3. l(1) = l(0) + Len(c[1]) /\ l(2) = l(1) + Len(c[2])
    <3>1. 1 - 1 = 0 /\ 2 - 1 = 1 /\ 1 \in 1 .. 3 /\ 2 \in 1 .. 3
      OBVIOUS
    <3> QED BY <1>4, <3>1
  <2>4. at(n) = l(n - 1)
    <3>1. at(1) = l(0) /\ at(2) = l(1) /\ at(3) = l(2)
      BY <2>1, <2>2, <2>3
    <3>2. (n = 1 /\ n - 1 = 0) \/ (n = 2 /\ n - 1 = 1) \/ (n = 3 /\ n - 1 = 2)
      OBVIOUS
    <3> HIDE DEF at, l
    <3> QED BY <3>1, <3>2
  <2> QED BY <2>4
<1> DEFINE l == Len(f[n - 1])
           m == Len(c[n])
<1>10. End(items[n]) - items[n].at = m
  BY DEF Three
<1>11. Take(buf, items[n].at, End(items[n]) - items[n].at) = SubSeq(buf, l + 1, l + m)
  <2> HIDE DEF l, m
  <2>1. items[n].at = l
    BY <1>9 DEF l
  <2> QED BY <1>10, <2>1 DEF Take
<1>12. /\ l \in Nat /\ m \in Nat /\ l + m <= Len(buf)
       /\ \A p \in 1 .. m : buf[l + p] = c[n][p]
  <2>1. /\ Len(f[n - 1]) \in Nat /\ Len(f[n]) = Len(f[n - 1]) + Len(c[n])
        /\ Len(f[n]) <= Len(buf)
        /\ \A p \in 1 .. Len(c[n]) : buf[Len(f[n - 1]) + p] = c[n][p]
    BY <1>4
  <2>2. m \in Nat
    BY <1>8
  <2> QED BY <2>1, <2>2
<1>13. c[n] = [i \in 1 .. m |-> c[n][i]]
  <2>1. c[n] \in Seq(Nat)
    BY <1>8
  <2> QED BY <2>1
<1> HIDE DEF l, m
<1>14. SubSeq(buf, l + 1, l + m) = [i \in 1 .. m |-> buf[l + i]]
  <2>1. l + 1 \in 1 .. Len(buf) + 1 /\ l + m \in (l + 1) - 1 .. Len(buf) /\ (l + m) - (l + 1) + 1 = m
    BY <1>2, <1>12
  <2>2. \A i \in 1 .. m : (l + 1) + i - 1 = l + i
    BY <1>12
  <2>3. SubSeq(buf, l + 1, l + m) = [i \in 1 .. m |-> buf[(l + 1) + i - 1]]
    BY <1>2, <2>1, SliceOf, SMTT(40) DEF Slice
  <2> QED BY <2>2, <2>3
<1>15. [i \in 1 .. m |-> buf[l + i]] = [i \in 1 .. m |-> c[n][i]]
  BY <1>12
<1> QED BY <1>11, <1>13, <1>14, <1>15

\* The bundle check finds no problem with is followed by a reader, when the two files of
\* each certificate are the same: it is cut into the files, and openssl verified those.
LEMMA ServedFollows ==
    ASSUME NEW dir, Problems(dir) = <<>>, dir.pem = dir.der,
           \A s \in Certs : dir.der[s] \in Seq(Nat),
           NEW leaf \in Leaves
    PROVE  LET found == Locate(dir, dir.bundle[leaf]) IN
           /\ Ok(found) /\ Len(found.certificates) = 3
           /\ \A k \in 2 .. 3 : Links(found.certificates)[k]
<1> DEFINE buf == dir.bundle[leaf]
           c == [k \in 1 .. 3 |-> dir.der[BundleOf(leaf)[k]]]
           certs == DerSequences(buf)
           items == certs.items
<1>1. /\ BundleOf(leaf)[1] = "ca" /\ BundleOf(leaf)[2] = "inter" /\ BundleOf(leaf)[3] = leaf
      /\ leaf \in Certs /\ "ca" \in Certs /\ "inter" \in Certs
  BY DEF BundleOf, Leaves, Certs
<1>2. c \in Seq(Seq(Nat)) /\ Len(c) = 3 /\ \A k \in 1 .. 3 : c[k] \in Seq(Nat)
  <2>1. \A k \in 1 .. 3 : dir.der[BundleOf(leaf)[k]] \in Seq(Nat)
    BY <1>1
  <2> QED BY <2>1
<1>3. /\ Ok(certs) /\ buf = FlattenSeq(c)
      /\ [k \in DOMAIN items |-> End(items[k]) - items[k].at] = [k \in 1 .. 3 |-> Len(c[k])]
  <2>1. BundleProblems(dir, leaf) = <<>>
    BY NoProblems
  <2>2. [k \in 1 .. 3 |-> Len(c[k])] = [k \in 1 .. 3 |-> Len(dir.der[BundleOf(leaf)[k]])]
    OBVIOUS
  <2> HIDE DEF Concatenated
  <2> QED BY <2>1, <2>2, BundleFound DEF AsBundled, Concatenated
<1>4. buf \in Seq(Nat) /\ Len(buf) \in Nat
  <2> HIDE DEF c, buf
  <2>1. buf \in Seq(Nat)
    BY <1>2, <1>3, FlattenBytes
  <2> QED BY <2>1
<1>5. items \in Seq(Values(buf, Len(buf))) /\ Tiled(items, 0)
  <2> DEFINE all == DerChildren(buf, 0, Len(buf))
  <2>1. Ok(all) /\ certs = all
    BY <1>3 DEF DerSequences, Then, Ok, Refused
  <2> HIDE DEF all, buf
  <2> QED BY <1>4, <2>1, ChildrenTile, 0 \in Nat, 0 <= Len(buf) DEF all
<1>6. /\ Len(items) = 3 /\ DOMAIN items = 1 .. 3
      /\ \A k \in 1 .. 3 : End(items[k]) - items[k].at = Len(c[k])
  <2> HIDE DEF items, c, buf
  <2>1. DOMAIN items = 1 .. 3
    BY <1>3
  <2>2. \A k \in 1 .. 3 : End(items[k]) - items[k].at = Len(c[k])
    BY <1>3, <2>1
  <2> QED BY <1>5, <2>1, <2>2
<1>7. \A k \in 1 .. 3 : Take(buf, items[k].at, End(items[k]) - items[k].at) = c[k]
  <2> HIDE DEF items, c, buf
  <2>1. Three(c, buf, items)
    BY <1>2, <1>3, <1>5, <1>6 DEF Three
  <2> QED BY <2>1, CutIsFile
<1>8. Signed(Decoded(c[3]), Decoded(c[2])) /\ Signed(Decoded(c[2]), Decoded(c[1]))
  <2>1. OpensslVerify(dir.pem["ca"], dir.pem["inter"], dir.pem[leaf])
    BY NoProblems, LinksFound
  <2> QED BY <1>1, <2>1 DEF OpensslVerify
<1>9. \A k \in 1 .. 3 : Ok(SignatureSpan(c[k]))
  <2>1. Ok(Decoded(c[1])) /\ Ok(Decoded(c[2])) /\ Ok(Decoded(c[3]))
    BY <1>8 DEF Signed
  <2> HIDE DEF c
  <2> QED BY <1>2, <2>1, DecodedHasSpan
<1> DEFINE cut(v) == Take(buf, v.at, End(v) - v.at)
           Certified(v) == Then(SignatureSpan(cut(v)), LAMBDA span :
              [why |-> "ok", name |-> Named(dir, cut(v)), at |-> v.at, bytes |-> End(v) - v.at,
               der |-> cut(v), ecdsa |-> span.ecdsa, flip |-> v.at + span.flip])
           list == [k \in DOMAIN items |-> Certified(items[k])]
<1>10. \A k \in 1 .. 3 : Ok(list[k]) /\ list[k].der = c[k]
  <2> TAKE k \in 1 .. 3
  <2>1. list[k] = Certified(items[k])
    BY <1>6
  <2>2. Ok(SignatureSpan(cut(items[k]))) /\ cut(items[k]) = c[k]
    BY <1>7, <1>9
  <2> HIDE DEF cut, list, items
  <2>3. Ok(Certified(items[k])) /\ Certified(items[k]).der = cut(items[k])
    BY <2>2 DEF Then, Ok
  <2> QED BY <2>1, <2>2, <2>3
<1>11. Locate(dir, buf) = [why |-> "ok", certificates |-> list]
  <2>1. \A k \in DOMAIN list : Ok(list[k])
    BY <1>6, <1>10
  <2>2. Locate(dir, buf) = Then(certs, LAMBDA x : IF \E k \in DOMAIN list : ~Ok(list[k]) THEN Refused
                                                  ELSE [why |-> "ok", certificates |-> list])
    BY DEF Locate, Then
  <2> HIDE DEF list, certs
  <2> QED BY <1>3, <2>1, <2>2 DEF Then
<1>12. /\ Ok(Locate(dir, buf)) /\ Locate(dir, buf).certificates = list
       /\ DOMAIN list = 1 .. 3
  <2>1. DOMAIN list = 1 .. 3
    BY <1>6
  <2> HIDE DEF list
  <2> QED BY <1>11, <2>1 DEF Ok
<1>13. Len(list) = 3 /\ Links(list)[2] /\ Links(list)[3]
  <2>1. list = [k \in 1 .. 3 |-> list[k]]
    BY <1>12
  <2> HIDE DEF list
  <2>2. Len(list) = 3
    BY <2>1
  <2> HIDE DEF c
  <2>3. /\ Links(list)[2] = Signed(Decoded(list[2].der), Decoded(list[1].der))
        /\ Links(list)[3] = Signed(Decoded(list[3].der), Decoded(list[2].der))
    BY <1>12 DEF Links
  <2> QED BY <1>8, <1>10, <2>2, <2>3
<1>14. \A k \in 2 .. 3 : k = 2 \/ k = 3
  OBVIOUS
<1> HIDE DEF list, Certified, items, certs, c
<1>15. /\ Ok(Locate(dir, buf)) /\ Len(Locate(dir, buf).certificates) = 3
       /\ \A k \in 2 .. 3 : Links(Locate(dir, buf).certificates)[k]
  BY <1>12, <1>13, <1>14
<1> QED BY <1>15

-----------------------------------------------------------------------------
(* The gate and the edits.                                                 *)

\* The repository as it is committed satisfies the invariant, and every edit, gate and
\* weekly job keeps it.
LEMMA InitIInv == Init => IInv
<1> SUFFICES ASSUME Init PROVE IInv
  OBVIOUS
<1>1. GreensInv
  BY DEF Init, GreensInv
<1>2. exposure.tree = tree /\ gate # "green" /\ tree = [i \in 1 .. 2 |-> i = 1]
  BY DEF Init
<1>3. tree \in [1 .. 2 -> BOOLEAN]
  BY <1>2
<1>4. ASSUME NEW a \in {"0001", "0002"} PROVE EvidenceIsOf(exposure.evidence[a], exposure.tree)
  BY <1>2, <1>3, <1>4 DEF Init, EvidenceIsOf, Evidence, Plain
<1>5. ChainInv
  <2>1. \A s \in Range(Stems) : File(s, 1) \in FileNames
    BY GenerationsAssumption DEF File, FileNames, Parts
  <2>2. /\ files.pem = [s \in Range(Stems) |-> File(s, 1)]
        /\ files.der = [s \in Range(Stems) |-> File(s, 1)]
    BY DEF Init
  <2> QED BY <1>2, <2>1, <2>2 DEF ChainInv
<1> QED BY <1>1, <1>2, <1>3, <1>4, <1>5 DEF IInv, WatchInv

\* gen_chain.sh makes files of its generation, wherever it stops.
LEMMA ChainIsOfFiles ==
    ASSUME NEW fs, NEW gen \in Generations, NEW steps \in 1 .. 10,
           fs.pem \in [Range(Stems) -> FileNames], fs.der \in [Range(Stems) -> FileNames]
    PROVE  /\ GenChain(fs, gen, steps).pem \in [Range(Stems) -> FileNames]
           /\ GenChain(fs, gen, steps).der \in [Range(Stems) -> FileNames]
<1> DEFINE pem == [s \in Range(Stems) |-> IF Serial(s) <= steps THEN File(s, gen) ELSE fs.pem[s]]
           der == [s \in Range(Stems) |-> IF 4 + Serial(s) <= steps THEN pem[s] ELSE fs.der[s]]
<1>1. \A s \in Range(Stems) : File(s, gen) \in FileNames
  BY DEF File, FileNames, Parts
<1>2. pem \in [Range(Stems) -> FileNames]
  BY <1>1
<1>3. der \in [Range(Stems) -> FileNames]
  <2> HIDE DEF pem
  <2> QED BY <1>2
<1>4. GenChain(fs, gen, steps).pem = pem /\ GenChain(fs, gen, steps).der = der
  BY DEF GenChain
<1> QED BY <1>2, <1>3, <1>4

\* What a matrix that passes its --expect file has for rows.
LEMMA MatrixMeets ==
    ASSUME MatrixCmd = 0, expect # NoFile
    PROVE  /\ DOMAIN Rows = DOMAIN expect
           /\ \A arm \in DOMAIN Rows :
                /\ Rows[arm].outcome = expect[arm].outcome
                /\ expect[arm].blockedBy # {} => Rows[arm].failed = expect[arm].blockedBy
<1>1. /\ \A arm \in DOMAIN expect : ~Unmet(arm)
      /\ run \subseteq DOMAIN expect
  BY DEF MatrixCmd, ExpectedFailures
<1>2. DOMAIN Rows = run /\ \A arm \in run : Rows[arm] = Row(arm)
  BY DEF Rows
<1> QED BY <1>1, <1>2 DEF Unmet

LEMMA StepIInv == IInv /\ [Next]_vars => IInv'
<1> SUFFICES ASSUME IInv, [Next]_vars PROVE IInv'
  OBVIOUS
<1>1. ASSUME UNCHANGED watchVars, gate' \in {"green", "red", "not run"},
             gate' = "green" => CmdCheck(doc, exposure, captures) = 0 \/ gate = "green"
      PROVE  WatchInv'
  BY <1>1 DEF watchVars, IInv, WatchInv
<1>2. ASSUME UNCHANGED greens PROVE GreensInv'
  BY <1>2 DEF IInv, GreensInv
<1>10. ASSUME UNCHANGED <<files, scene>>, gate' = "not run" \/ gate' = gate PROVE ChainInv'
  BY <1>10 DEF IInv, ChainInv
<1>3. CASE Verify
  <2>1. WatchInv'
    BY <1>1, <1>3 DEF Verify
  <2>2. GreensInv'
    <3>1. CASE UNCHANGED greens
      BY <1>2, <3>1
    <3>2. CASE greens' = greens \cup {[expect |-> expect, rows |-> Rows]} /\ MatrixCmd = 0
      BY <3>2, MatrixMeets DEF IInv, GreensInv
    <3> QED BY <1>3, <3>1, <3>2 DEF Verify
  <2>3. ChainInv'
    <3>1. /\ UNCHANGED <<files, scene>>
          /\ gate' = "green" /\ scene = "chain" => SelfTest(Directory(files)) = 0
      BY <1>3 DEF Verify, ChainStands
    <3>2. SelfTest(Directory(files)) = 0 => Problems(Directory(files)) = <<>>
      BY DEF SelfTest
    <3> QED BY <3>1, <3>2 DEF IInv, ChainInv
  <2> QED BY <2>1, <2>2, <2>3 DEF IInv
<1>4. CASE WeeklyReads \/ WeeklyMeets \/ Pin \/ Upstream
  <2>1. UNCHANGED <<tree, exposure, captures, doc, gate, greens, files, scene>>
    BY <1>4 DEF WeeklyReads, WeeklyMeets, Weekly, Pin, Upstream, EditsPins, Edit, watchVars
  <2> QED BY <1>2, <1>10, <2>1 DEF IInv, WatchInv
<1>5. CASE ChangePolicy \/ ChangeReference \/ ChangeRun
             \/ CommitVerdicts \/ RemoveVerdict \/ StateExpectation
  <2>1. UNCHANGED <<tree, exposure, captures, doc, greens, files, scene>> /\ gate' = "not run"
    BY <1>5 DEF ChangePolicy, ChangeReference, ChangeRun, CommitVerdicts, RemoveVerdict,
       StateExpectation, EditsMatrix, Edit, watchVars
  <2> QED BY <1>2, <1>10, <2>1 DEF IInv, WatchInv
<1>6. CASE RePin \/ CommitCapture \/ WriteDoc
  <2>1. /\ UNCHANGED <<exposure, greens, files, scene>> /\ gate' = "not run"
        /\ tree' \in [1 .. 2 -> BOOLEAN]
    BY <1>6 DEF RePin, CommitCapture, WriteDoc, EditsWatch, Edit, IInv, WatchInv
  <2> QED BY <1>2, <1>10, <2>1 DEF IInv, WatchInv
<1>7. CASE RunExposure
  <2>1. PICK a \in {"0001", "0002"}, o \in Observations, build \in Builds :
          exposure' = [tree |-> tree, build |-> build,
            evidence |-> [x \in {"0001", "0002"} |->
                            Evidence(IF x = a THEN o ELSE Plain(tree), tree)]]
    BY <1>7 DEF RunExposure
  <2>2. /\ UNCHANGED <<tree, greens, files, scene>> /\ gate' = "not run"
        /\ tree \in [1 .. 2 -> BOOLEAN]
    BY <1>7 DEF RunExposure, EditsWatch, Edit, IInv, WatchInv
  <2>3. ASSUME NEW x \in {"0001", "0002"} PROVE EvidenceIsOf(exposure'.evidence[x], tree)
    <3>1. CASE x = a
      BY <2>1, <2>2, <3>1, GatesAssumption DEF EvidenceIsOf, Evidence
    <3>2. CASE x # a
      BY <2>1, <2>2, <3>2 DEF EvidenceIsOf, Evidence, Plain
    <3> QED BY <3>1, <3>2
  <2>4. exposure'.tree = tree
    BY <2>1
  <2> QED BY <1>2, <1>10, <2>2, <2>3, <2>4 DEF IInv, WatchInv
<1>8. CASE UNCHANGED vars
  <2>1. UNCHANGED <<tree, exposure, captures, doc, gate, greens, files, scene>>
    BY <1>8 DEF vars, watchVars
  <2> QED BY <1>2, <1>10, <2>1 DEF IInv, WatchInv
<1>9. CASE MakeChain \/ ReplaceFile \/ Rebundle
  <2>1. UNCHANGED <<tree, exposure, captures, doc, greens>> /\ gate' = "not run"
    BY <1>9 DEF MakeChain, ReplaceFile, Rebundle, EditsChain, watchVars
  <2>2. files.pem \in [Range(Stems) -> FileNames] /\ files.der \in [Range(Stems) -> FileNames]
    BY DEF IInv, ChainInv
  <2>3. files'.pem \in [Range(Stems) -> FileNames] /\ files'.der \in [Range(Stems) -> FileNames]
    <3>1. CASE MakeChain
      BY <2>2, <3>1, ChainIsOfFiles DEF MakeChain
    <3>2. CASE ReplaceFile
      <4>1. PICK stem \in Range(Stems), gen \in Generations, part \in Parts :
              LET file == [File(stem, gen) EXCEPT !.part = part] IN
              files' \in {[files EXCEPT !.pem[stem] = file], [files EXCEPT !.der[stem] = file]}
        BY <3>2 DEF ReplaceFile
      <4> DEFINE file == [File(stem, gen) EXCEPT !.part = part]
      <4>2. file \in FileNames
        BY DEF File, FileNames
      <4> HIDE DEF file
      <4>3. CASE files' = [files EXCEPT !.pem[stem] = file]
        BY <2>2, <4>2, <4>3
      <4>4. CASE files' = [files EXCEPT !.der[stem] = file]
        BY <2>2, <4>2, <4>4
      <4> QED BY <4>1, <4>3, <4>4 DEF file
    <3>3. CASE Rebundle
      <4>1. PICK leaf \in Leaves : \E new : files' = [files EXCEPT !.bundle[leaf] = new]
        BY <3>3 DEF Rebundle
      <4> QED BY <2>2, <4>1
    <3> QED BY <1>9, <3>1, <3>2, <3>3
  <2> QED BY <1>2, <2>1, <2>3 DEF IInv, WatchInv, ChainInv
<1> QED BY <1>3, <1>4, <1>5, <1>6, <1>7, <1>8, <1>9 DEF Next

\* For any number of arms, edits, captures and failures of the look-ups.
THEOREM Inductive == Spec => []IInv
BY InitIInv, StepIInv, PTL DEF Spec

\* Two green gates under the same expectations let the same outcomes pass.
THEOREM OutcomesHoldAlways == Spec => []OutcomesHold
<1>1. GreensInv => OutcomesHold
  BY DEF GreensInv, OutcomesHold
<1> QED BY <1>1, Inductive, PTL DEF IInv

\* A document the gate let pass states what is true of the tree.
THEOREM DecidedHolds == Spec => []DecidedRightly
<1>1. WatchInv => DecidedRightly
  <2> SUFFICES ASSUME WatchInv, gate = "green",
                      NEW s \in {x \in doc.says : x[1] # "0003"},
                      LET ev == exposure.evidence[s[1]]
                          hasFix == exposure.tree[1] \/ exposure.tree[2]
                      IN \/ "query-failed" \notin {ev.ancestry[1], ev.ancestry[2]}
                         \/ ev.fixed = hasFix /\ ev.defective = ~hasFix
               PROVE  /\ s[2] = "NOT-AFFECTED" => exposure.tree[1] \/ exposure.tree[2]
                      /\ s[2] \in {"AFFECTED", "PRESENT-NOT-REACHABLE"} =>
                           ~(exposure.tree[1] \/ exposure.tree[2])
    BY DEF DecidedRightly
  <2>1. s[1] \in {"0001", "0002"} /\ AllVerdicts(exposure, captures)[s[1]] = s[2]
    BY DEF WatchInv, CmdCheck, Assessed
  <2>2. s[2] = VerdictFor(s[1], exposure.evidence[s[1]], exposure.build, captures)
    BY <2>1 DEF AllVerdicts, Assessed
  <2>3. /\ s[2] = "NOT-AFFECTED" => FixState(exposure.evidence[s[1]]) = "present"
        /\ s[2] \in {"AFFECTED", "PRESENT-NOT-REACHABLE"} =>
             FixState(exposure.evidence[s[1]]) = "absent"
    BY <2>1, <2>2, VerdictIsDecision
  <2>4. /\ exposure.tree \in [1 .. 2 -> BOOLEAN]
        /\ EvidenceIsOf(exposure.evidence[s[1]], exposure.tree)
    BY <2>1 DEF WatchInv
  <2> QED BY <2>3, <2>4, DecisionIsTrue
<1> QED BY <1>1, Inductive, PTL DEF IInv

\* A chain the gate let pass, whose two files of each certificate are the same, is
\* served in bundles that can be followed from the root: for any generations and
\* any edits.
THEOREM ChainFollowed == Spec => []ChainIsFollowed
<1>1. ChainInv => ChainIsFollowed
  <2> SUFFICES ASSUME ChainInv, scene = "chain", gate = "green", files.pem = files.der,
                      NEW leaf \in Leaves
               PROVE  Followed(leaf)
    BY DEF ChainIsFollowed
  <2> DEFINE dir == Directory(files)
  <2>1. Problems(dir) = <<>>
    BY DEF ChainInv
  <2>2. dir.pem = dir.der
    BY DEF Directory
  <2>3. \A s \in Certs : dir.der[s] \in Seq(Nat)
    <3> TAKE s \in Certs
    <3>1. s \in Range(Stems)
      BY DEF Certs, Stems, Range
    <3>2. dir.der[s] = Content(files.der[s]) /\ files.der[s] \in FileNames
      BY <3>1 DEF Directory, ChainInv
    <3> QED BY <3>2, ContentBytes
  <2> HIDE DEF dir
  <2> QED BY <2>1, <2>2, <2>3, ServedFollows DEF Followed, dir
<1> QED BY <1>1, Inductive, PTL DEF IInv
=============================================================================
