---------------------------- MODULE DecodeFields ----------------------------
(***************************************************************************)
(* harness/fields.py: what spdm_dump's text says of the same capture.  A   *)
(* line is a packet's message and, at the end of a chunk sequence, the     *)
(* message the chunks carried.                                             *)
(***************************************************************************)
EXTENDS Integers, Sequences, FiniteSets, SequencesExt

CONSTANTS None, MaxCertChain    \* LIBSPDM_MAX_CERT_CHAIN_SIZE, of spdm_dump

SumOf(s, f(_)) == FoldLeft(LAMBDA acc, x : acc + f(x), 0, s)

\* spdm_dump: the message a packet's chunk completes, if any; and the text ends
\* with the line on which a chain has grown past its buffer.
Carried(packets, i) ==
    LET c == packets[i].chunk
        run == SubSeq(packets, 1, i)
        chunks == SelectSeq(run, LAMBDA p : p.form = "spdm" /\ p.msg.name = "CHUNK_RESPONSE")
        own == SubSeq(chunks, Len(chunks) - c.seq, Len(chunks))
    IN IF \/ packets[i].form # "spdm" \/ packets[i].msg.name # "CHUNK_RESPONSE"
          \/ ~c.last \/ Len(chunks) < c.seq + 1
       THEN <<>>
       ELSE IF \A k \in DOMAIN own : own[k].chunk.handle = c.handle /\ own[k].chunk.seq = k - 1
       THEN <<own[1].chunk.of>> ELSE <<>>

Lines(packets) ==
    LET said(i) == IF packets[i].form = "spdm" THEN <<packets[i].msg>> \o Carried(packets, i) ELSE <<>>
        full == {i \in DOMAIN packets : \E k \in DOMAIN said(i) :
                   /\ said(i)[k].name = "CERTIFICATE"
                   /\ said(i)[k].offset + said(i)[k].portion > MaxCertChain}
        stop == IF full = {} THEN Len(packets) ELSE CHOOSE i \in full : \A j \in full : i <= j
    IN [messages |-> [i \in 1 .. stop |-> said(i)], truncated |-> full # {}]

\* chain_of: a slot's certificates in order; a fetch ends where nothing remains.
Fetches(certs) ==
    LET step(w, m) == IF m.remainder = 0
                      THEN [done |-> Append(w.done, Append(w.open, m)), open |-> <<>>]
                      ELSE [w EXCEPT !.open = Append(@, m)]
        w == FoldLeft(step, [done |-> <<>>, open |-> <<>>], certs)
    IN IF w.open = <<>> THEN w.done ELSE Append(w.done, w.open)

\* The first response of a fetch declares its chain: its portion and what remains.
DeclaredAsPortion(fetch) == fetch[1].portion
Declared(fetch) == fetch[1].portion + fetch[1].remainder

ChainOf(lines, slot) ==
    LET certs == SelectSeq(FlattenSeq(lines.messages),
                           LAMBDA m : m.name = "CERTIFICATE" /\ m.slot = slot)
        sizes == [k \in DOMAIN Fetches(certs) |-> Declared(Fetches(certs)[k])]
    IN [bytes |-> IF sizes = <<>> THEN None ELSE sizes[1],
        consistent |-> /\ Cardinality(Range(sizes)) <= 1
                       /\ \A k \in DOMAIN sizes :
                            SumOf(Fetches(certs)[k], LAMBDA m : m.portion) = sizes[k]]

\* extract(): what cross_check reads of it.
Extract(packets) ==
    LET lines == Lines(packets)
        primary == FlattenSeq([i \in DOMAIN lines.messages |->
                     IF lines.messages[i] = <<>> THEN <<>> ELSE <<lines.messages[i][1]>>])
        caps == SelectSeq(primary, LAMBDA m : m.name = "CAPABILITIES")
    IN [dts |-> IF caps = <<>> THEN None ELSE caps[1].dts,
        chain |-> ChainOf(lines, 0).bytes,
        consistent |-> ChainOf(lines, 0).consistent,
        truncated |-> lines.truncated,
        total |-> SumOf(primary, LAMBDA m : m.size),
        byType |-> [n \in {m.name : m \in Range(primary)} |->
                      SumOf(SelectSeq(primary, LAMBDA m : m.name = n), LAMBDA m : m.size)]]
=============================================================================
