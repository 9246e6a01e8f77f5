------------------------------ MODULE Packets ------------------------------
(***************************************************************************)
(* bench/exp04_fragmentation.py, layer 2: how many MCTP packets a message  *)
(* takes, and how the packets of a capture are grouped back into messages. *)
(* A packet is what its header says of it, with the size of its payload    *)
(* and, in a message's first packet, the type byte the payload begins with.*)
(***************************************************************************)
EXTENDS Integers, Sequences, FiniteSets, SequencesExt

TypeBytes == 1          \* MCTP_TYPE_BYTES
SeqModulus == 4         \* MCTP_SEQ_MASK + 1
SpdmType == 5

Ceil(n, d) == (n + d - 1) \div d

MctpPackets(bytes, mtu) == Ceil(bytes + TypeBytes, mtu)

\* What a kernel sends for a message (external): full packets and a last one,
\* numbered from zero modulo four.
Fragment(to, tag, type, bytes, mtu) ==
    LET n == MctpPackets(bytes, mtu) IN
    [i \in 1 .. n |->
        [to |-> to, tag |-> tag, type |-> type, som |-> i = 1, eom |-> i = n,
         seq |-> (i - 1) % SeqModulus,
         size |-> IF i < n THEN mtu ELSE bytes + TypeBytes - (n - 1) * mtu]]

-----------------------------------------------------------------------------
(* group_mctp_messages.                                                    *)

Opened(p) ==
    [to |-> p.to, tag |-> p.tag, type |-> p.type, packets |-> 0, bytes |-> 0,
     next |-> p.seq, complete |-> FALSE]

Extended(m, p) ==
    [to |-> m.to, tag |-> m.tag, type |-> m.type, packets |-> m.packets + 1,
     bytes |-> m.bytes + p.size, next |-> (p.seq + 1) % SeqModulus, complete |-> p.eom]

NoMessages == [open |-> {}, messages |-> <<>>, problems |-> {}]

\* One packet: a SOM begins a message, and with it any message still open on
\* its key is forgotten; a continuation needs an open message and the next
\* number, and is kept, with a complaint, when its number is another.
GroupPacketKeepingOpen(g, p) ==
    LET same == {m \in g.open : m.to = p.to /\ m.tag = p.tag} IN
    IF ~p.som /\ same = {} THEN [g EXCEPT !.problems = @ \cup {"no-som"}]
    ELSE LET m == IF same = {} THEN Opened(p) ELSE CHOOSE x \in same : TRUE
         IN [open |-> (g.open \ same) \cup {Extended(m, p)},
             messages |-> IF p.eom THEN Append(g.messages, Extended(m, p))
                          ELSE g.messages,
             problems |-> g.problems]

Continued(g, p) == {m \in g.open : m.to = p.to /\ m.tag = p.tag}
GroupPacket(g, p) ==
    LET same == Continued(g, p) IN
    IF ~p.som /\ same = {}
    THEN [open |-> g.open, messages |-> g.messages, problems |-> g.problems \cup {"no-som"}]
    ELSE LET m == IF p.som THEN Opened(p) ELSE CHOOSE x \in same : TRUE
         IN [open |-> (g.open \ same) \cup (IF p.eom THEN {} ELSE {Extended(m, p)}),
             messages |-> IF p.eom THEN Append(g.messages, Extended(m, p))
                          ELSE g.messages,
             problems |-> g.problems
               \cup (IF p.som /\ same # {} THEN {"open"} ELSE {})
               \cup (IF p.seq # m.next THEN {"sequence"} ELSE {})]

Grouped(packets) ==
    LET group[k \in 0 .. Len(packets)] ==
          IF k = 0 THEN NoMessages ELSE GroupPacket(group[k - 1], packets[k])
    IN group[Len(packets)]

\* After the last packet the messages still open are listed as incomplete.
Group(packets) ==
    LET g == Grouped(packets) IN
    [messages |-> g.messages \o SetToSeq(g.open),
     problems |-> g.problems \cup (IF g.open = {} THEN {} ELSE {"no-eom"})]

-----------------------------------------------------------------------------
(* observed(): the rows, and whether the run of the analysis exits 0.      *)

Agrees(m, mtu) == m.complete /\ MctpPackets(m.bytes - TypeBytes, mtu) = m.packets

\* What a row says of its message.
Rows(packets) ==
    LET g == Group(packets) IN
    [i \in DOMAIN g.messages |->
        [to |-> g.messages[i].to, type |-> g.messages[i].type,
         bytes |-> g.messages[i].bytes - TypeBytes]]

\* drops and moved are those of the capture's sidecar, 0 where it has none.
Reproduced(packets, drops, moved, mtu) ==
    /\ drops = 0
    /\ moved \in {0, Len(packets)}
    /\ Group(packets).problems = {}
    /\ \A i \in DOMAIN Group(packets).messages : Agrees(Group(packets).messages[i], mtu)
=============================================================================
