---------------------------- MODULE Negotiation ----------------------------
(***************************************************************************)
(* Reading back what two emulators negotiated.  bench/pcapstat.py walks    *)
(* the bytes of the ALGORITHMS response; harness/fields.py reads           *)
(* spdm_dump's rendering of it; harness/lib/check_negotiated.py holds the  *)
(* second against what an arm declared, and pcapstat.py --check holds the  *)
(* two readings against each other.                                        *)
(*                                                                         *)
(* A selection is the number whose bits are the algorithms selected.  The  *)
(* name of an algorithm is its bit; what bits have no name is reported as  *)
(* the number that remains.                                                *)
(***************************************************************************)
EXTENDS Integers, Sequences, FiniteSets, SequencesExt

NamedBits == {1, 2}                             \* of every group
FixedGroups == {"Asym", "PqcAsym"}              \* at fixed offsets of the response
AlgStruct == [t \in {2, 7} |-> IF t = 2 THEN "DHE" ELSE "KEM"]     \* AlgType -> group
Groups == FixedGroups \cup {AlgStruct[t] : t \in DOMAIN AlgStruct}

(* What crossed the wire: a table is [type, value, ext], with a selection  *)
(* of two bytes and four bytes per external algorithm, of which the fixed  *)
(* part has some of its own; the response says how many tables it has.     *)
(* NoSize and NoResponse are of messages that did not cross.               *)
NoSize == -1
NoResponse ==
    [fixed |-> [g \in FixedGroups |-> 0], external |-> 0, tables |-> <<>>, count |-> -1]

TableBytes(table) ==
    <<table.type, 2 * 16 + table.ext, table.value % 256, table.value \div 256>>
      \o [i \in 1 .. 4 * table.ext |-> table.type]
ResponseBytes(alg) ==
    [i \in 1 .. 4 * alg.external |-> 2]
      \o FlattenSeq([i \in DOMAIN alg.tables |-> TableBytes(alg.tables[i])])

\* What the response selected in a group, zero when it has no table for it.
Selected(alg, g) ==
    IF g \in FixedGroups THEN alg.fixed[g]
    ELSE LET of == {i \in DOMAIN alg.tables :
                      alg.tables[i].type \in DOMAIN AlgStruct /\ AlgStruct[alg.tables[i].type] = g}
         IN IF of = {} THEN 0 ELSE alg.tables[CHOOSE i \in of : TRUE].value

-----------------------------------------------------------------------------
(* bench/pcapstat.py.                                                      *)

BitsOf(value) == {b \in NamedBits : (value \div b) % 2 = 1}
Nameless(value) == value - FoldSet(LAMBDA b, n : b + n, 0, BitsOf(value))
BitNamesKnown(value) == BitsOf(value)
BitNames(value) == BitsOf(value) \cup ({Nameless(value)} \ {0})

\* algorithms: the tables are walked by their own lengths.  A reading is the
\* selection of each group the response carries, an unknown AlgType a group of
\* its own.
LittleEndian(bytes) == FoldRight(LAMBDA b, n : b + 256 * n, bytes, 0)
GroupOf(type) == IF type \in DOMAIN AlgStruct THEN AlgStruct[type] ELSE "AlgType"
NamesOf(type, value) == IF type \in DOMAIN AlgStruct THEN BitNames(value) ELSE {value}

WalkedFrom(alg) ==
    [off |-> 4 * alg.external, why |-> "",
     read |-> [g \in FixedGroups |-> BitNames(alg.fixed[g])]]
Put(read, group, names) ==
    [g \in {group} \cup DOMAIN read |-> IF g = group THEN names ELSE read[g]]
Stopped(acc, why) == [off |-> acc.off, why |-> why, read |-> acc.read]
NextTable(acc, bytes) ==
    IF acc.why # "" THEN acc
    ELSE IF acc.off + 2 > Len(bytes) THEN Stopped(acc, "past the end")
    ELSE LET type == bytes[acc.off + 1]
             fixed == bytes[acc.off + 2] \div 16
             ext == bytes[acc.off + 2] % 16
             body == SubSeq(bytes, acc.off + 3, acc.off + 2 + fixed)
         IN IF acc.off + 2 + fixed > Len(bytes) THEN Stopped(acc, "truncated")
            ELSE [off |-> acc.off + 2 + fixed + 4 * ext, why |-> "",
                  read |-> Put(acc.read, GroupOf(type), NamesOf(type, LittleEndian(body)))]
Walk(alg, bytes) ==
    LET walk[k \in 0 .. alg.count] ==
          IF k = 0 THEN WalkedFrom(alg) ELSE NextTable(walk[k - 1], bytes)
    IN walk[alg.count]
Algorithms(alg) ==
    IF alg = NoResponse THEN <<>> ELSE Walk(alg, ResponseBytes(alg)).read

-----------------------------------------------------------------------------
(* harness/fields.py, over what spdm_dump prints: of a selection the names *)
(* it knows, of a capture what comes before a certificate chain too large  *)
(* for it.                                                                 *)

NotPrinted == {-1}
AlgList(alg, g) ==
    IF alg = NoResponse THEN NotPrinted
    ELSE IF g \in FixedGroups \/ \E i \in DOMAIN alg.tables :
              alg.tables[i].type \in DOMAIN AlgStruct /\ AlgStruct[alg.tables[i].type] = g
      THEN BitsOf(Selected(alg, g)) ELSE NotPrinted

DecodeTruncated(wire) == wire.chain = "large"
MutualAuth(wire) ==
    [encapsulated |-> wire.encapsulated /\ ~DecodeTruncated(wire),
     requesterChain |-> wire.requesterChain /\ ~DecodeTruncated(wire)]
Chunking(wire) == wire.chainChunks + IF DecodeTruncated(wire) THEN 0 ELSE wire.laterChunks
Fields(wire) ==
    [negotiated |-> [g \in Groups |-> AlgList(wire.alg, g)], dts |-> wire.dts,
     mutualAuth |-> MutualAuth(wire), chunks |-> Chunking(wire)]

-----------------------------------------------------------------------------
(* harness/lib/check_negotiated.py: an expectation is [groups, mutAuth,    *)
(* reqChain, chunk, dts], a group it does not name unconstrained and so    *)
(* every other clause that is "any" or zero.                               *)

AsList(v) == IF v = NotPrinted THEN {} ELSE v
GroupProblems(doc, expect) ==
    {g \in DOMAIN expect.groups :
       \/ g \notin DOMAIN doc.negotiated
       \/ AsList(doc.negotiated[g]) # expect.groups[g]}
MutAuthProblem(doc, expect) == expect.mutAuth = "off" /\ doc.mutualAuth.encapsulated
ReqChainProblem(doc, expect) == expect.reqChain = "none" /\ doc.mutualAuth.requesterChain
ChunkProblem(doc, expect) ==
    \/ expect.chunk = "off" /\ doc.chunks > 0
    \/ expect.chunk = "on" /\ doc.chunks = 0
DtsProblem(doc, expect) ==
    expect.dts # 0 /\ \E end \in {"requester", "responder"} : doc.dts[end] # expect.dts

CheckNegotiated(doc, expect) ==
    IF \/ GroupProblems(doc, expect) # {} \/ MutAuthProblem(doc, expect)
       \/ ReqChainProblem(doc, expect) \/ ChunkProblem(doc, expect) \/ DtsProblem(doc, expect)
    THEN 1 ELSE 0

-----------------------------------------------------------------------------
(* bench/pcapstat.py --check.                                              *)

CompareNegotiated(mine, theirs) ==
    {g \in DOMAIN mine \cap DOMAIN theirs : mine[g] # AsList(theirs[g])}

\* capabilities: the size each end advertised, of the messages themselves.
Capabilities(wire) == wire.dts
CrossCheck(wire) ==
    LET got == Fields(wire) IN
    IF \/ CompareNegotiated(Algorithms(wire.alg), got.negotiated) # {}
       \/ \E end \in {"requester", "responder"} : Capabilities(wire)[end] # got.dts[end]
    THEN 1 ELSE 0
=============================================================================
