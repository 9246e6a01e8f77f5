------------------------ MODULE CapturedConversation ------------------------
(***************************************************************************)
(* A conversation between the two emulators, and what the tools under      *)
(* bench/ and harness/ make of a capture of it.                            *)
(*                                                                         *)
(* The requester fetches certificate chains portion by portion and asks    *)
(* for signed answers; a response larger than DataTransferSize is refused  *)
(* with LargeResponse and then fetched in chunks.  The capture may miss a  *)
(* packet, hold a shortened one, or stop anywhere, and the emulators may   *)
(* start again in the middle.  Every state is a capture that was stopped   *)
(* there.                                                                  *)
(***************************************************************************)
EXTENDS Integers, Sequences, FiniteSets, SequencesExt

CONSTANTS
    None,
    Dts,            \* DataTransferSize
    Slots,          \* the slots with a chain
    ChainBytes,     \* the length of each slot's chain
    MaxPortion,     \* the most a GET_CERTIFICATE asks for
    Answers,        \* the sizes of the signed answers
    MaxCertChain,   \* the buffer of spdm_dump
    MaxLost, MaxRestarts,
    Budget          \* bounds: exchanges, lost packets and restarts together

ASSUME ConversationAssumption ==
    /\ Dts \in Nat /\ Dts >= 42     \* the smallest a peer may declare
    /\ Answers \subseteq Nat
    /\ ChainBytes \in [Slots -> Nat] /\ MaxPortion \in Nat \ {0}
    /\ \A s \in Slots : ChainBytes[s] >= 4

Handles == 256          \* a handle is one byte

\* What a message is, and the state of a chunked response at the responder.
Names == {"CAPABILITIES", "GET_CERTIFICATE", "CERTIFICATE", "CHALLENGE", "CHALLENGE_AUTH",
          "ERROR", "CHUNK_GET", "CHUNK_RESPONSE"}
Messages == [name : Names, size : Int, dts : Int, slot : Slots \cup {0}, portion : Int,
             remainder : Int, offset : Int, chain : Int, number : Int]
Chunking == [handle : 0 .. Handles - 1, seq : Nat, at : Nat, got : BOOLEAN]

\* None is none of the values it is told from.
ASSUME NoneAssumption == None \notin Int \cup Slots \cup Messages \cup Chunking

VARIABLES
    packets,        \* the capture
    fetch,          \* the chain being fetched: its slot and how much has come
    asked,          \* the response the responder owes, or None
    chunks,         \* the response being fetched in chunks: next chunk and handle
    handle,         \* the responder's next chunk handle
    done,           \* the chains whose last portion went past, by slot, in order
    exchanges, lost, restarts

vars == <<packets, fetch, asked, chunks, handle, done, exchanges, lost, restarts>>

Stats == INSTANCE CaptureStatistics
Fields == INSTANCE DecodeFields

Within == exchanges + lost + restarts < Budget

Message(name, size) ==
    [name |-> name, size |-> size, dts |-> 0, slot |-> 0, portion |-> 0,
     remainder |-> 0, offset |-> 0, chain |-> 0, number |-> exchanges]
NoChunk == [handle |-> 0, seq |-> 0, last |-> FALSE, declared |-> 0, says |-> 0,
            from |-> 0, n |-> 0, of |-> None]
Plain(m) == [form |-> "spdm", msg |-> m, chunk |-> NoChunk]

\* A packet the capture holds short of its last byte.
Cut(p) == [form |-> p.form, msg |-> [p.msg EXCEPT !.size = @ - 1],
           chunk |-> [p.chunk EXCEPT !.n = IF @ > 0 THEN @ - 1 ELSE 0]]

Tap(p) ==
    \/ packets' = Append(packets, p) /\ UNCHANGED lost
    \/ /\ lost < MaxLost /\ Within /\ lost' = lost + 1
       /\ packets' \in {packets, Append(packets, Cut(p))}

NotFetching == [slot |-> None, at |-> 0]
Idle == asked = None /\ chunks = None
Capabilities == Plain([Message("CAPABILITIES", 20) EXCEPT !.dts = Dts])

Init ==
    /\ exchanges = 0 /\ lost = 0 /\ restarts = 0
    /\ packets = <<Capabilities>>
    /\ fetch = NotFetching /\ asked = None /\ chunks = None /\ handle = 0
    /\ done = <<>>

-----------------------------------------------------------------------------

\* A chain is asked for from its start, and goes on until nothing remains.
Portion(s, at) ==
    LET rest == ChainBytes[s] - at
        portion == IF rest < MaxPortion THEN rest ELSE MaxPortion
    IN [name |-> "CERTIFICATE", size |-> 8 + portion, dts |-> 0, slot |-> s,
        portion |-> portion, remainder |-> rest - portion, offset |-> at,
        chain |-> ChainBytes[s], number |-> exchanges]

GetCertificate ==
    /\ Idle /\ Within
    /\ \E s \in Slots :
         /\ fetch.slot \in {None, s}
         /\ asked' = Portion(s, fetch.at)
         /\ fetch' = [fetch EXCEPT !.slot = s]
    /\ Tap(Plain(Message("GET_CERTIFICATE", 8)))
    /\ exchanges' = exchanges + 1
    /\ UNCHANGED <<chunks, handle, done, restarts>>

Challenge ==
    /\ Idle /\ fetch = NotFetching /\ Within
    /\ \E n \in Answers : asked' = Message("CHALLENGE_AUTH", n)
    /\ Tap(Plain(Message("CHALLENGE", 36)))
    /\ exchanges' = exchanges + 1
    /\ UNCHANGED <<fetch, chunks, handle, done, restarts>>

\* The response has gone past whole: what the requester holds of the chain.
Delivered ==
    IF asked.name # "CERTIFICATE" THEN UNCHANGED <<fetch, done>>
    ELSE IF asked.remainder = 0
      THEN fetch' = NotFetching /\ done' = Append(done, asked.slot)
      ELSE fetch' = [fetch EXCEPT !.at = @ + asked.portion] /\ UNCHANGED done

Respond ==
    /\ asked # None /\ chunks = None
    /\ IF asked.size <= Dts
       THEN Tap(Plain(asked)) /\ Delivered /\ asked' = None /\ UNCHANGED <<chunks, handle>>
       ELSE /\ Tap(Plain(Message("ERROR", 5)))
            /\ chunks' = [handle |-> handle, seq |-> 0, at |-> 0, got |-> FALSE]
            /\ handle' = (handle + 1) % Handles
            /\ UNCHANGED <<asked, fetch, done>>
    /\ UNCHANGED <<exchanges, restarts>>

ChunkGet ==
    /\ chunks # None /\ ~chunks.got
    /\ Tap(Plain(Message("CHUNK_GET", 8)))
    /\ chunks' = [chunks EXCEPT !.got = TRUE]
    /\ UNCHANGED <<fetch, asked, handle, done, exchanges, restarts>>

\* As much of the response as fits beside the header.
ChunkResponse ==
    /\ chunks # None /\ chunks.got
    /\ LET head == IF chunks.seq = 0 THEN 16 ELSE 12
           rest == asked.size - chunks.at
           n == IF rest < Dts - head THEN rest ELSE Dts - head
           chunk == [handle |-> chunks.handle, seq |-> chunks.seq, last |-> n = rest,
                     declared |-> asked.size, says |-> n, from |-> chunks.at, n |-> n,
                     of |-> asked]
       IN /\ Tap([Plain(Message("CHUNK_RESPONSE", head + n)) EXCEPT !.chunk = chunk])
          /\ IF n = rest
             THEN Delivered /\ asked' = None /\ chunks' = None
             ELSE /\ chunks' = [handle |-> chunks.handle, seq |-> chunks.seq + 1,
                                at |-> chunks.at + n, got |-> FALSE]
                  /\ UNCHANGED <<asked, fetch, done>>
    /\ UNCHANGED <<handle, exchanges, restarts>>

\* Both emulators start again; what they were doing is forgotten, the capture is not.
Restart ==
    /\ restarts < MaxRestarts /\ Within /\ ~(Idle /\ fetch = NotFetching)
    /\ restarts' = restarts + 1
    /\ Tap(Capabilities)
    /\ fetch' = NotFetching /\ asked' = None /\ chunks' = None /\ handle' = 0
    /\ UNCHANGED <<done, exchanges>>

Over == Idle /\ ~Within /\ UNCHANGED vars

Next == GetCertificate \/ Challenge \/ Respond \/ ChunkGet \/ ChunkResponse \/ Restart \/ Over
Spec == Init /\ [][Next]_vars

-----------------------------------------------------------------------------

\* Whatever the capture missed, a message the tools put together again is one
\* that was sent, all of it, in its order: chunks of two responses are never
\* joined.  A handle comes back after Handles others, and a restart begins them
\* again: it is claimed of a capture that missed fewer packets, or none at all.
RecoveredIsWhole ==
    lost = 0 \/ (restarts = 0 /\ lost < Handles) =>
        LET found == Stats!Dechunk(packets).sequences IN
        \A i \in DOMAIN found : found[i].complete =>
            LET pieces == found[i].pieces IN
            /\ found[i].bytes = pieces[1].of.size
            /\ \A k \in DOMAIN pieces :
                 /\ pieces[k].of = pieces[1].of
                 /\ pieces[k].from = Stats!Bytes(SubSeq(pieces, 1, k - 1))

\* A chain that closes has the length of that slot's chain, whatever is missing
\* from the capture; and with nothing missing the chains that close are those
\* that were fetched, in their order.
ChainsAreThoseFetched ==
    LET closing == Stats!Closing(packets) IN
    /\ \A i \in DOMAIN closing : closing[i].bytes = ChainBytes[closing[i].slot]
    /\ lost = 0 /\ restarts = 0 =>
         [i \in DOMAIN closing |-> closing[i].slot] = done

\* exp04's arithmetic gives the round trips that were counted, in every capture
\* that misses nothing and does not stop inside a chunked response.
RoundtripsReproduced ==
    lost = 0 /\ restarts = 0 /\ chunks = None => Stats!Validates(packets)

\* The two readings of one capture, from its bytes and from spdm_dump's text,
\* are not reported to disagree when only the responder's first slot is fetched;
\* and a chain both give is that slot's.
ReadersAgree ==
    lost = 0 /\ restarts = 0 /\ Range(done) \subseteq {0} =>
        LET got == Fields!Extract(packets) IN
        /\ Stats!CrossCheck(packets, got) = 0
        /\ got.chain # None => got.chain = ChainBytes[0]
=============================================================================
