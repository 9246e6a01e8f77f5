------------------------- MODULE CaptureStatistics -------------------------
(***************************************************************************)
(* bench/pcapstat.py: what a capture says of the conversation in it.  The  *)
(* messages chunking took apart are put together again, the certificate    *)
(* chains are walked, and exp04's arithmetic predicts the round trips.     *)
(*                                                                         *)
(* A packet is [form, msg, chunk]: "spdm", "secured" or neither; the       *)
(* message, as its name, its size and the fields the walks read; and for a *)
(* CHUNK_RESPONSE what its header says and the piece it carries.           *)
(***************************************************************************)
EXTENDS Integers, Sequences, FiniteSets, SequencesExt, FiniteSetsExt

CONSTANTS None          \* Python's None

ChunkFirstHeader == 16  \* CHUNK_RSP_FIRST_HEADER_BYTES
ChunkHeader == 12       \* CHUNK_RSP_HEADER_BYTES
CertHeader == 8         \* CERT_SMALL_HEADER_BYTES

\* sum() of a sequence of numbers, of f over a sequence, and of f over those of
\* its elements that pass a test.
Total(ns) ==
    LET sum[k \in 0 .. Len(ns)] == IF k = 0 THEN 0 ELSE sum[k - 1] + ns[k]
    IN sum[Len(ns)]
SumOf(s, f(_)) == Total([k \in DOMAIN s |-> f(s[k])])
SumWhere(s, Test(_), f(_)) == SumOf(s, LAMBDA x : IF Test(x) THEN f(x) ELSE 0)

\* messages(): only an SPDM or a secured message has a size of its own, and only
\* an SPDM message has contents.
Parsed(p) == p.form \in {"spdm", "secured"}
TotalBytes(packets) == SumWhere(packets, Parsed, LAMBDA p : p.msg.size)
Count(packets, name) ==
    SumWhere(packets, LAMBDA p : Parsed(p) /\ p.msg.name = name, LAMBDA p : 1)
ByType(packets) ==
    [n \in {p.msg.name : p \in {q \in Range(packets) : Parsed(q)}} |->
        [count |-> Count(packets, n),
         bytes |-> SumWhere(packets, LAMBDA p : Parsed(p) /\ p.msg.name = n,
                            LAMBDA p : p.msg.size)]]

\* capabilities(): of the first CAPABILITIES, when it is long enough.
DataTransferSize(packets) ==
    LET caps == {i \in DOMAIN packets :
                   packets[i].form = "spdm" /\ packets[i].msg.name = "CAPABILITIES"}
        first == packets[CHOOSE i \in caps : \A j \in caps : i <= j].msg
    IN IF caps = {} THEN None ELSE IF first.size < 20 THEN None ELSE first.dts

-----------------------------------------------------------------------------
(* dechunk.                                                                *)

NoSequence == [handle |-> None, pieces |-> <<>>, declared |-> 0, next |-> 0]
Bytes(pieces) == SumOf(pieces, LAMBDA c : c.n)
Assembled(seq) == Bytes(seq.pieces)
EmptyDechunk == [logical |-> <<>>, sequences |-> <<>>, notes |-> 0, open |-> NoSequence]

\* close(): the sequence is recorded, and a whole one becomes the message its
\* first bytes say it is.
Close(d, ok) ==
    [d EXCEPT
       !.sequences = Append(@, [complete |-> ok, bytes |-> Assembled(d.open),
                                pieces |-> d.open.pieces]),
       !.notes = IF ok THEN @ ELSE @ + 1,
       !.logical = IF ok THEN Append(@, [d.open.pieces[1].of EXCEPT !.size = Assembled(d.open)])
                   ELSE @,
       !.open = NoSequence]
CloseOpen(d) == IF d.open = NoSequence THEN d ELSE Close(d, FALSE)
Note(d) == [d EXCEPT !.notes = @ + 1]

Begin(d, c) ==
    [CloseOpen(d) EXCEPT
       !.open = [handle |-> c.handle, pieces |-> <<c>>, declared |-> c.declared, next |-> 1]]
Extend(d, c) ==
    [d EXCEPT !.open = [handle |-> @.handle, pieces |-> Append(@.pieces, c),
                        declared |-> @.declared, next |-> @.next + 1]]
LastChunk(d) == Close(d, Assembled(d.open) = d.open.declared)

\* One packet.  A sequence goes on only with its own handle and the next number.
DechunkAnyHandle(d, p) ==
    LET c == p.chunk
        taken == IF c.seq = 0 THEN Begin(d, c) ELSE Extend(d, c) IN
    IF p.form # "spdm" \/ p.msg.name # "CHUNK_RESPONSE"
      THEN [d EXCEPT !.logical = Append(@, p.msg)]
    ELSE IF p.msg.size < ChunkHeader THEN Note(d)
    ELSE IF c.n # c.says THEN CloseOpen(Note(d))
    ELSE IF c.seq # 0 /\ d.open = NoSequence THEN Note(d)
    ELSE IF c.seq # 0 /\ c.seq # d.open.next THEN Close(d, FALSE)
    ELSE IF c.last THEN LastChunk(taken) ELSE taken

Dechunk1(d, p) ==
    LET c == p.chunk
        taken == IF c.seq = 0 THEN Begin(d, c) ELSE Extend(d, c) IN
    IF p.form # "spdm" \/ p.msg.name # "CHUNK_RESPONSE"
      THEN [d EXCEPT !.logical = Append(@, p.msg)]
    ELSE IF p.msg.size < ChunkHeader THEN Note(d)
    ELSE IF c.n # c.says THEN CloseOpen(Note(d))
    ELSE IF c.seq # 0 /\ d.open = NoSequence THEN Note(d)
    ELSE IF c.seq # 0 /\ (c.handle # d.open.handle \/ c.seq # d.open.next)
      THEN Close(d, FALSE)
    ELSE IF c.last THEN LastChunk(taken) ELSE taken

Dechunked(packets) ==
    LET d[k \in 0 .. Len(packets)] ==
            IF k = 0 THEN EmptyDechunk ELSE Dechunk1(d[k - 1], packets[k])
    IN d[Len(packets)]

\* A sequence still open when the capture ends is not whole.
Dechunk(packets) == CloseOpen(Dechunked(packets))

-----------------------------------------------------------------------------
(* certificates: the walk over the logical messages.                       *)

NoChain == [slot |-> None, portions |-> <<>>, declared |-> 0, length |-> 0]

\* _settle_chain: the portions make up what the first of them declared, and
\* the chain's own Length, in its first bytes.
SettleChain(chain) ==
    LET total == Total(chain.portions) IN
    [slot |-> chain.slot, bytes |-> total,
     closes |-> total = chain.declared /\ total >= 4 /\ chain.length = total]

\* The first bytes of a chain are its Length; those further in are not, and are
\* taken for a length no chain has.
FirstBytes(m) == IF m.offset = 0 THEN m.chain ELSE None

\* A chain ends where nothing remains, whatever slot the next response names.
CertificateBySlot(w, m) ==
    IF m.name # "CERTIFICATE" \/ m.size < CertHeader + m.portion THEN w
    ELSE LET fresh == [slot |-> m.slot, portions |-> <<m.portion>>,
                       declared |-> m.portion + m.remainder, length |-> FirstBytes(m)] IN
         IF w.open = NoChain THEN [w EXCEPT !.open = fresh]
         ELSE IF w.open.slot # m.slot
           THEN [chains |-> Append(w.chains, SettleChain(w.open)), open |-> fresh]
         ELSE [w EXCEPT !.open.portions = Append(@, m.portion)]

Certificate1(w, m) ==
    IF m.name # "CERTIFICATE" \/ m.size < CertHeader + m.portion THEN w
    ELSE LET chain == IF w.open = NoChain
                      THEN [slot |-> m.slot, portions |-> <<m.portion>>,
                            declared |-> m.portion + m.remainder, length |-> FirstBytes(m)]
                      ELSE [w.open EXCEPT !.portions = Append(@, m.portion)]
         IN IF m.remainder = 0
            THEN [chains |-> Append(w.chains, SettleChain(chain)), open |-> NoChain]
            ELSE [w EXCEPT !.open = chain]

Walked(logical) ==
    LET w[k \in 0 .. Len(logical)] ==
            IF k = 0 THEN [chains |-> <<>>, open |-> NoChain]
            ELSE Certificate1(w[k - 1], logical[k])
    IN w[Len(logical)]

\* A chain still open when the capture ends is listed, and does not close.
Certificates(logical) ==
    LET w == Walked(logical) IN
    IF w.open = NoChain THEN w.chains
    ELSE Append(w.chains, [SettleChain(w.open) EXCEPT !.closes = FALSE])

Chains(packets) == Certificates(Dechunk(packets).logical)

\* The chains that close, in order.
ClosingOf(chains) ==
    LET c[k \in 0 .. Len(chains)] ==
            IF k = 0 THEN <<>>
            ELSE IF chains[k].closes THEN Append(c[k - 1], chains[k]) ELSE c[k - 1]
    IN c[Len(chains)]
Closing(packets) == ClosingOf(Chains(packets))

-----------------------------------------------------------------------------
(* bench/exp04_fragmentation.py, layer 1: how many round trips a message   *)
(* takes at a DataTransferSize, and the comparison with those counted.     *)

ChunkRoundtripsSameHeader(bytes, dts) ==
    IF bytes <= dts THEN 0
    ELSE (bytes + dts - ChunkHeader - 1) \div (dts - ChunkHeader)

ChunkRoundtrips(bytes, dts) ==
    LET first == dts - ChunkFirstHeader
        rest == dts - ChunkHeader
    IN IF bytes <= dts THEN 0
       ELSE IF bytes <= first THEN 1
       ELSE 1 + (bytes - first + rest - 1) \div rest

ChunkTypes == {"CHUNK_GET", "CHUNK_RESPONSE", "CHUNK_SEND", "CHUNK_SEND_ACK"}

\* validate(), of one capture: the messages that were not chunked and those that
\* were, against the CHUNK_GETs.
Validates(packets) ==
    LET dts == DataTransferSize(packets)
        Whole(p) == Parsed(p) /\ p.msg.name \notin ChunkTypes
        Recovered(s) == s.complete
    IN /\ dts # None
       /\ Count(packets, "CHUNK_GET")
            = SumWhere(packets, Whole, LAMBDA p : ChunkRoundtrips(p.msg.size, dts))
              + SumWhere(Dechunk(packets).sequences, Recovered,
                         LAMBDA s : ChunkRoundtrips(s.bytes, dts))

-----------------------------------------------------------------------------
(* cross_check: the capture against what fields.py read in its decode.     *)

\* The size and the chain are compared before the decode's truncation excuses
\* the totals.
CrossCheck(packets, got) ==
    LET dts == DataTransferSize(packets)
        closing == Closing(packets)
        early == \/ dts # got.dts
                 \/ closing # <<>> /\ got.chain # None /\ closing[1].bytes # got.chain
    IN IF early THEN 1
       ELSE IF got.truncated THEN 0
       ELSE IF /\ got.total = TotalBytes(packets)
               /\ got.byType = [n \in DOMAIN ByType(packets) |-> ByType(packets)[n].bytes]
            THEN 0 ELSE 1
=============================================================================
