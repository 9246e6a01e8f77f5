------------------------------- MODULE Corim -------------------------------
(***************************************************************************)
(* rats/appraise.py and rats/policy.rego: a record's blocks as evidence,   *)
(* as a reference document and as that document's CBOR; and the verdicts   *)
(* of the two policies.                                                    *)
(*                                                                         *)
(* A document is an item of Cose whose map keys are names (JSON) or        *)
(* numbers (CBOR); a name that is a value is [t |-> "name", v].            *)
(***************************************************************************)
EXTENDS Cose

\* A name table: a name's label is its place, from 0.
UnsignedCorimMap == <<"corim_id", "corim_tags", "corim_dependent_rims", "corim_profile">>
ConciseMidTag == <<"comid_language", "comid_tag_identity", "comid_entity",
                   "comid_linked_tags", "comid_triples">>
TagIdentityMap == <<"comid_tag_id", "comid_tag_version">>
EntityMap == <<"comid_entity_name", "comid_reg_id", "comid_role">>
TriplesMap == <<"comid_reference_triples", "comid_endorsed_triples",
                "comid_identity_triples", "comid_attest_key_triples">>
EnvironmentMap == <<"comid_class", "comid_instance", "comid_group">>
ClassMap == <<"comid_class_id", "comid_vendor", "comid_model", "comid_layer", "comid_index">>
MeasurementMap == <<"comid_mkey", "comid_mval">>
MeasurementValueMap == <<"comid_ver", "comid_svn", "comid_digests">>
Role == <<"comid_tag_creator", "comid_creator", "comid_maintainer">>
HashAlg == <<"", "sha256", "", "", "", "", "", "sha384", "sha512">>
AllTables == <<UnsignedCorimMap, ConciseMidTag, TagIdentityMap, EntityMap, TriplesMap,
               EnvironmentMap, ClassMap, MeasurementMap, MeasurementValueMap>>

\* LOGIC_MAP: the table that applies inside a key.
LogicMap == [unsigned_corim_map |-> UnsignedCorimMap, corim_tags |-> ConciseMidTag,
             comid_tag_identity |-> TagIdentityMap, comid_entity |-> EntityMap,
             comid_role |-> Role, comid_triples |-> TriplesMap,
             comid_reference_triples |-> EnvironmentMap, comid_class |-> ClassMap,
             comid_mval |-> MeasurementValueMap, comid_digests |-> HashAlg]

Name(n) == [t |-> "name", v |-> n]
Place(table, name) == (CHOOSE k \in DOMAIN table : table[k] = name) - 1
Label(table, name) ==
    IF name \in Range(table) THEN Place(table, name)
    ELSE Place(CHOOSE u \in Range(AllTables) : name \in Range(u), name)

\* _name_for, of the table and then of ALL_NAMES.
NameFor(table, label) ==
    IF label + 1 \in DOMAIN table THEN table[label + 1]
    ELSE LET known == SelectSeq(AllTables, LAMBDA u : label + 1 \in DOMAIN u)
         IN known[1][label + 1]

\* _to_cbor, inside key.
RECURSIVE ToCbor(_, _)
ToCbor(x, key) ==
    LET tabled == key \in DOMAIN LogicMap
        table == IF tabled THEN LogicMap[key] ELSE <<>>
    IN CASE x.t = "map" ->
              Map([k \in DOMAIN x.v |-> <<Num(Label(table, x.v[k][1])),
                                          ToCbor(x.v[k][2], x.v[k][1])>>])
         [] x.t = "list" ->
              List([k \in DOMAIN x.v |->
                     IF x.v[k].t = "name" /\ tabled THEN Num(Place(table, x.v[k].v))
                     ELSE ToCbor(x.v[k], key)])
         [] OTHER -> x

\* json_to_cbor: the authored form, or the decoded one with its two containers.
JsonToCbor(doc) ==
    LET bare == IF doc.v[1][1] = "corim" THEN doc.v[1][2].v[1][2] ELSE doc
        body == ToCbor(bare, "unsigned_corim_map").v
    IN Dumps(Tagged(500, Tagged(501, Map([k \in DOMAIN body |->
         IF body[k][1].v = 1 THEN <<body[k][1], Tagged(506, body[k][2])>> ELSE body[k]]))))

\* _to_json, inside key.  Inside a reference triple a map that begins at 0 is
\* the environment, and one without a 0 the measurement.
Inside(x, key) ==
    IF key \notin DOMAIN LogicMap THEN <<>>
    ELSE IF key = "comid_reference_triples" /\ \A k \in DOMAIN x.v : x.v[k][1].v # 0
      THEN MeasurementMap
    ELSE LogicMap[key]

RECURSIVE ToJson(_, _)
ToJson(x, key) ==
    CASE x.t = "tag" ->
           IF x.n = 506 THEN ToJson(x.v, key)
           ELSE LET name == IF x.n = 500 THEN "corim" ELSE "unsigned_corim_map"
                IN Map(<<<<name, ToJson(x.v, name)>>>>)
      [] x.t = "map" ->
           LET Named(label) == NameFor(Inside(x, key), label) IN
           Map([k \in DOMAIN x.v |-> <<Named(x.v[k][1].v),
                                       ToJson(x.v[k][2], Named(x.v[k][1].v))>>])
      [] x.t = "list" ->
           List([k \in DOMAIN x.v |->
             LET item == x.v[k]
                 table == IF key \in DOMAIN LogicMap THEN LogicMap[key] ELSE <<>>
             IN IF item.t = "int" /\ (item.t = "int" => item.v + 1 \in DOMAIN table)
                THEN (IF table[item.v + 1] = "" THEN item ELSE Name(table[item.v + 1]))
                ELSE ToJson(item, key)])
      [] x.t = "bytes" -> Text(x.v)
      [] OTHER -> x

\* cbor_to_json: the shape is checked before anything is named.
CborToJson(payload) ==
    Then(Loads(payload), LAMBDA read :
      IF ~IsTag(read.item, 500) THEN Refused("not-corim")
      ELSE IF ~IsTag(read.item.v, 501) THEN Refused("not-unsigned-corim")
      ELSE IF read.item.v.v.t # "map" THEN Refused("not-map")
      ELSE [why |-> "ok", json |-> ToJson(read.item, "")])

-----------------------------------------------------------------------------
(* Evidence and reference values, from the blocks of a closed record.      *)

SvnType == 7

\* walk["blocks"] is keyed by index: a block is the last one of its index.
AtIndex(blocks, k) ==
    LET same == {j \in DOMAIN blocks : blocks[j].index = blocks[k].index}
    IN blocks[CHOOSE j \in same : \A i \in same : i <= j]

Hex(value) == Text(FlattenSeq([k \in DOMAIN value |-> <<value[k] \div 16, value[k] % 16>>]))
LittleEndian(value) == FoldRight(LAMBDA b, acc : b + 256 * acc, value, 0)
IsDigest(b) == ~b.isRaw
IsSvn(b) == b.isRaw /\ b.type = SvnType /\ Len(b.value) = 8

\* evidence_from_walk: a digest, a secure version number, or nothing.
EvidenceFromWalk(blocks, alg) ==
    LET all == [k \in DOMAIN blocks |-> AtIndex(blocks, k)]
        carried == SelectSeq(all, LAMBDA b : IsDigest(b) \/ IsSvn(b))
    IN [k \in DOMAIN carried |->
         LET b == carried[k] IN
         IF IsDigest(b) THEN [index |-> b.index, digest |-> <<alg, Hex(b.value).v>>]
         ELSE [index |-> b.index, svn |-> LittleEndian(b.value)]]

\* reference_from_walk: one triple of an environment and a measurement for each.
ReferenceFromWalk(blocks, alg) ==
    LET all == [k \in DOMAIN blocks |-> AtIndex(blocks, k)]
        carried == SelectSeq(all, LAMBDA b : IsDigest(b) \/ IsSvn(b))
        Class(b) == Map(<<<<"comid_class_id", Text(<<1>>)>>, <<"comid_vendor", Text(<<2>>)>>,
                          <<"comid_model", Text(<<3>>)>>, <<"comid_layer", Num(1)>>,
                          <<"comid_index", Num(b.index)>>>>)
        Mval(b) == IF IsDigest(b)
          THEN Map(<<<<"comid_digests", List(<<List(<<Num(alg), Hex(b.value)>>)>>)>>>>)
          ELSE Map(<<<<"comid_svn", Num(LittleEndian(b.value))>>>>)
        Triple(b) == List(<<Map(<<<<"comid_class", Class(b)>>>>),
                            Map(<<<<"comid_mval", Mval(b)>>>>)>>)
        tag == Map(<<
          <<"comid_tag_identity", Map(<<<<"comid_tag_id", Text(<<4>>)>>>>)>>,
          <<"comid_entity", Map(<<<<"comid_entity_name", Text(<<2>>)>>,
                                  <<"comid_reg_id", Text(<<5>>)>>,
                                  <<"comid_role", List(<<Num(0), Num(1)>>)>>>>)>>,
          <<"comid_triples", Map(<<<<"comid_reference_triples",
             List([k \in DOMAIN carried |-> Triple(carried[k])])>>>>)>>>>)
    IN Map(<<<<"corim_id", Text(<<6>>)>>, <<"corim_tags", List(<<tag>>)>>>>)

-----------------------------------------------------------------------------
(* policy.rego and policy-v0-equality.rego.                                *)

Has(x, name) == x.t = "map" /\ (x.t = "map" => \E k \in DOMAIN x.v : x.v[k][1] = name)
Field(x, name) == x.v[CHOOSE k \in DOMAIN x.v : x.v[k][1] = name][2]

\* reference_arr: the triples of the document's first tag.
ReferenceArr(json) ==
    Field(Field(Field(Field(json, "corim"), "unsigned_corim_map"), "corim_tags").v[1],
          "comid_triples")
ReferenceTriples(json) == Range(Field(ReferenceArr(json), "comid_reference_triples").v)
IndexOf(triple) == Field(Field(triple.v[1], "comid_class"), "comid_index").v

\* Pairs of an index and a value, on each side: ev_digest, ev_svn, ref_digest
\* and ref_svn.
EvDigest(ev) == {<<ev[k].index, <<HashAlg[ev[k].digest[1] + 1], ev[k].digest[2]>>>> :
                 k \in {j \in DOMAIN ev : "digest" \in DOMAIN ev[j]}}
EvSvn(ev) == {<<ev[k].index, ev[k].svn>> : k \in {j \in DOMAIN ev : "svn" \in DOMAIN ev[j]}}

RefDigest(json) ==
    LET Digest(tr) == Field(Field(tr.v[2], "comid_mval"), "comid_digests").v[1].v IN
    {<<IndexOf(tr), <<Digest(tr)[1].v, Digest(tr)[2].v>>>> :
       tr \in {u \in ReferenceTriples(json) :
                Has(u.v[2], "comid_mval") /\ Has(Field(u.v[2], "comid_mval"), "comid_digests")}}
RefSvn(json) ==
    {<<IndexOf(tr), Field(Field(tr.v[2], "comid_mval"), "comid_svn").v>> :
       tr \in {u \in ReferenceTriples(json) :
                Has(u.v[2], "comid_mval") /\ Has(Field(u.v[2], "comid_mval"), "comid_svn")}}

Indexes(pairs) == {p[1] : p \in pairs}
Conflict(pairs) == Cardinality(Indexes(pairs)) # Cardinality(pairs)

\* hash_check and svn_check: there is something to compare, nothing is missing and
\* nothing unexpected, and no pair of values is bad.
Covered(ev, ref) == ref # {} /\ Indexes(ref) = Indexes(ev)
Mismatch(ev, ref) == \E e \in ev, r \in ref : e[1] = r[1] /\ e[2] # r[2]
Rollback(ev, ref) == \E e \in ev, r \in ref : e[1] = r[1] /\ e[2] < r[2]

\* What opa answers: "error" when one index is claimed for two values.  policy is
\* "floor" (policy.rego) or "equality" (policy-v0-equality.rego).
Compared(policy, evd, evs, refd, refs) ==
    IF \E s \in {evd, evs, refd, refs} : Conflict(s) THEN "error"
    ELSE IF /\ Covered(evd, refd) /\ ~Mismatch(evd, refd)
            /\ Covered(evs, refs)
            /\ policy = "floor" => ~Rollback(evs, refs)
            /\ policy = "equality" => ~Mismatch(evs, refs)
      THEN "pass" ELSE "fail"
Verdict(policy, ev, json) ==
    Compared(policy, EvDigest(ev), EvSvn(ev), RefDigest(json), RefSvn(json))
=============================================================================
