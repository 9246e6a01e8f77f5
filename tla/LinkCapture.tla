---------------------------- MODULE LinkCapture ----------------------------
(***************************************************************************)
(* The calibration of harness/run_afmctp.sh: messages of chosen lengths    *)
(* are replayed to a sink (mctp_bridge.c, roles "replay" and "sink") while *)
(* harness/mctp_capture.py captures the replaying side's interface, and    *)
(* the capture is then held against the packet model (Packets).            *)
(*                                                                         *)
(*   replay -> kernel A -> interface A ---lossy link---> kernel B -> sink  *)
(*                  tap on A's interface -> capture                        *)
(*                                                                         *)
(* The kernels are external: they fragment and reassemble, and the tap     *)
(* hands a copy of what crosses the interface to a bound packet socket     *)
(* while there is room in its buffer.                                      *)
(***************************************************************************)
EXTENDS Packets

CONSTANTS
    Lengths,        \* the messages to replay: a sequence of lengths
    AckBytes,       \* the length of the sink's acknowledgement
    Mtu,            \* payload bytes in a packet
    Tags,           \* the tags a kernel may give an exchange
    RcvBuf,         \* packets the capture's socket has room for
    Strays          \* bound: packets of an earlier exchange still on the link

None == 0           \* no message, in a variable that may hold one's length
Unreadable == -1    \* a counter that could not be read: Python's None

ASSUME LengthsAssumption ==
    /\ Lengths \in Seq(Nat) /\ \A i \in DOMAIN Lengths : Lengths[i] > 0
    /\ Mtu \in Nat /\ Mtu > 0
    /\ AckBytes \in Nat /\ AckBytes > 0 /\ AckBytes + TypeBytes <= Mtu
ASSUME CaptureAssumption == RcvBuf \in Nat /\ Strays \in Nat

VARIABLES
    orc,            \* the guest's script: "start", "await", "replay", "wait",
                    \* or its end: "done", "failed" (exit 3)
    ready, stop,    \* the ready file and the stop file
    cap,            \* the capture: "none", "bound", "counted", "listening",
                    \* "loop", "drain", "over", "counting", "closed", or its
                    \* exit: "ok" (0), "refused" (2), "crashed"
    expired,        \* its --duration ran out, or a signal ended it
    queue, pcap,    \* places in wire of what its socket holds and it has written
    drops,          \* packets its socket had no room for
    tpDrops,        \* socket_tp_drops
    before, after,  \* the interface's packet counters, as it read them
    boundAt,        \* history: what had crossed when it bound its socket
    wire,           \* history: all the packets that crossed the interface
    strays,         \* strays still to come
    rp,             \* replay: "idle", "send", "wait", or its exit: "ok",
                    \* "mismatch", "died"
    sentCount,      \* messages it has sent
    failures,       \* acknowledgements that gave another length
    tag,            \* the tag of the exchange under way
    outA,           \* packets its kernel has still to put on the interface
    partial,        \* the sink's kernel's message under reassembly
    inB,            \* the length of the message its sink has to acknowledge
    ackB,           \* the acknowledgement on its way back
    inA,            \* the one that has arrived
    sunk            \* history: the lengths the sink has received

orcVars == <<orc, stop>>
capVars == <<ready, cap, expired, pcap, tpDrops, before, after, boundAt>>
tapVars == <<queue, drops, wire>>
netVars == <<strays, outA, partial, inB, ackB>>
rpVars == <<rp, sentCount, failures, tag, inA>>
vars == <<orcVars, capVars, tapVars, netVars, rpVars, sunk>>

Packet == [to : BOOLEAN, tag : Tags, type : Nat, som : BOOLEAN, eom : BOOLEAN,
           seq : Int, size : Int]
Bound == {"bound", "counted", "listening", "loop", "drain", "over", "counting"}
CapExits == {"ok", "refused", "crashed"}
ReplayExits == {"ok", "mismatch", "died"}
NoPartial == [bytes |-> 0, next |-> 0]

Init ==
    /\ orc = "start" /\ stop = FALSE
    /\ ready = FALSE /\ cap = "none" /\ expired = FALSE
    /\ pcap = {} /\ tpDrops = 0 /\ before = 0 /\ after = 0 /\ boundAt = 0
    /\ queue = {} /\ drops = 0 /\ wire = <<>>
    /\ strays = Strays /\ outA = <<>> /\ partial = NoPartial
    /\ inB = None /\ ackB = None
    /\ rp = "idle" /\ sentCount = 0 /\ failures = 0 /\ tag \in Tags /\ inA = None
    /\ sunk = <<>>

-----------------------------------------------------------------------------
(* The interface and its tap (external).                                   *)

Cross(p) ==
    /\ wire' = Append(wire, p)
    /\ IF cap \notin Bound THEN UNCHANGED <<queue, drops>>
       ELSE IF Cardinality(queue) < RcvBuf
         THEN queue' = queue \cup {Len(wire')} /\ UNCHANGED drops
         ELSE drops' = drops + 1 /\ UNCHANGED queue

\* A late reply to somebody who has gone.
Stray ==
    /\ strays > 0
    /\ strays' = strays - 1
    /\ \E t \in Tags : Cross(Fragment(FALSE, t, SpdmType, AckBytes, Mtu)[1])
    /\ UNCHANGED <<orcVars, capVars, outA, partial, inB, ackB, rpVars, sunk>>

\* The sink's kernel: a packet that does not continue the message ends it.
Reassembled(m, p) ==
    IF p.som THEN [bytes |-> p.size, next |-> (p.seq + 1) % SeqModulus]
    ELSE IF m # NoPartial /\ p.seq = m.next
      THEN [bytes |-> m.bytes + p.size, next |-> (p.seq + 1) % SeqModulus]
    ELSE NoPartial

PacketToSink ==
    /\ outA # <<>>
    /\ LET p == Head(outA)
           m == Reassembled(partial, p)
       IN /\ outA' = Tail(outA)
          /\ Cross(p)
          /\ \/ UNCHANGED <<partial, inB>>          \* lost
             \/ IF p.eom /\ m # NoPartial
                THEN partial' = NoPartial /\ inB' = m.bytes - TypeBytes
                ELSE partial' = m /\ UNCHANGED inB
    /\ UNCHANGED <<orcVars, capVars, strays, ackB, rpVars, sunk>>

\* An acknowledgement is one packet, and finds its key while replay waits.
AckArrives ==
    /\ ackB # None
    /\ ackB' = None
    /\ Cross(Fragment(FALSE, tag, SpdmType, AckBytes, Mtu)[1])
    /\ inA' = IF rp = "wait" THEN ackB ELSE inA
    /\ UNCHANGED <<orcVars, capVars, strays, outA, partial, inB, rp, sentCount,
                   failures, tag, sunk>>

AckLost ==
    /\ ackB # None
    /\ ackB' = None
    /\ UNCHANGED <<orcVars, capVars, tapVars, strays, outA, partial, inB, rpVars,
                   sunk>>

-----------------------------------------------------------------------------
(* role_replay and role_sink.                                              *)

ReplayEnd == IF failures = 0 THEN "ok" ELSE "mismatch"

ReplaySend ==
    /\ rp = "send"
    /\ IF sentCount = Len(Lengths)
       THEN rp' = ReplayEnd /\ UNCHANGED <<sentCount, tag, outA>>
       ELSE /\ rp' = "wait"
            /\ sentCount' = sentCount + 1
            /\ tag' \in Tags
            /\ outA' = Fragment(TRUE, tag', SpdmType, Lengths[sentCount'], Mtu)
    /\ UNCHANGED <<orcVars, capVars, tapVars, strays, partial, inB, ackB, failures,
                   inA, sunk>>

\* The acknowledgement is compared with the length it answers.
ReplayReceiveAny ==
    /\ rp = "wait" /\ inA # None
    /\ inA' = None
    /\ rp' = "send"
    /\ UNCHANGED <<orcVars, capVars, tapVars, netVars, sentCount, failures, tag, sunk>>

ReplayReceive ==
    /\ rp = "wait" /\ inA # None
    /\ inA' = None
    /\ failures' = IF inA = Lengths[sentCount] THEN failures ELSE failures + 1
    /\ rp' = "send"
    /\ UNCHANGED <<orcVars, capVars, tapVars, netVars, sentCount, tag, sunk>>

\* mctp_wait() gives up, or a send fails.
ReplayDies ==
    /\ rp \in {"send", "wait"} /\ inA = None
    /\ rp' = "died"
    /\ UNCHANGED <<orcVars, capVars, tapVars, netVars, sentCount, failures, tag, inA,
                   sunk>>

SinkAcks ==
    /\ inB # None
    /\ inB' = None /\ ackB' = inB
    /\ sunk' = Append(sunk, inB)
    /\ UNCHANGED <<orcVars, capVars, tapVars, strays, outA, partial, rpVars>>

-----------------------------------------------------------------------------
(* mctp_capture.py.                                                        *)

CapStep(next) == cap' = next /\ UNCHANGED <<orcVars, netVars, rpVars, sunk>>
Untouched == UNCHANGED tapVars

Bind ==
    /\ cap = "none" /\ orc # "start"
    /\ boundAt' = Len(wire)
    /\ CapStep("bound") /\ Untouched
    /\ UNCHANGED <<ready, expired, pcap, tpDrops, before, after>>

\* Exit 3: no socket, or no such interface.
BindFails ==
    /\ cap = "none" /\ orc # "start"
    /\ CapStep("crashed") /\ Untouched
    /\ UNCHANGED <<ready, expired, pcap, tpDrops, before, after, boundAt>>

\* read_ifstats(): sent and received together.
Readings == {Len(wire), Unreadable}

CountBefore ==
    /\ cap = "bound"
    /\ before' \in Readings
    /\ CapStep("counted") /\ Untouched
    /\ UNCHANGED <<ready, expired, pcap, tpDrops, after, boundAt>>

WriteReady ==
    /\ cap = "counted"
    /\ ready' = TRUE
    /\ CapStep("listening") /\ Untouched
    /\ UNCHANGED <<expired, pcap, tpDrops, before, after, boundAt>>

Open ==
    /\ cap = "listening"
    /\ CapStep("loop") /\ Untouched
    /\ UNCHANGED <<ready, expired, pcap, tpDrops, before, after, boundAt>>

\* The ready file, the pcap or the sidecar cannot be written: the exception ends
\* the process, and its socket with it.
WriteFails ==
    /\ cap \in {"counted", "listening", "drain", "over", "closed"}
    /\ CapStep("crashed")
    /\ queue' = {} /\ UNCHANGED <<drops, wire>>
    /\ UNCHANGED <<ready, expired, pcap, tpDrops, before, after, boundAt>>

\* The head of the loop: the stop file, the deadline or a signal.
LoopEnds ==
    /\ cap = "loop"
    /\ IF stop THEN expired' = expired ELSE expired' = TRUE
    /\ CapStep("over") /\ Untouched
    /\ UNCHANGED <<ready, pcap, tpDrops, before, after, boundAt>>

Selected ==
    /\ cap = "loop" /\ ~stop /\ queue # {}
    /\ CapStep("drain") /\ Untouched
    /\ UNCHANGED <<ready, expired, pcap, tpDrops, before, after, boundAt>>

\* recvfrom() until the queue is empty.
DrainOnePeeking ==
    /\ cap = "drain" /\ queue # {}
    /\ pcap' = pcap \cup queue
    /\ CapStep("drain")
    /\ UNCHANGED <<tapVars, ready, expired, tpDrops, before, after, boundAt>>

DrainOne ==
    /\ cap = "drain"
    /\ \E first \in queue :
         /\ \A i \in queue : first <= i
         /\ queue' = queue \ {first}
         /\ pcap' = pcap \cup {first}
    /\ CapStep("drain")
    /\ UNCHANGED <<drops, wire, ready, expired, tpDrops, before, after, boundAt>>

Drained ==
    /\ cap = "drain" /\ queue = {}
    /\ CapStep("loop") /\ Untouched
    /\ UNCHANGED <<ready, expired, pcap, tpDrops, before, after, boundAt>>

\* PACKET_STATISTICS, and close().
CountDrops ==
    /\ cap = "over"
    /\ tpDrops' \in {drops, Unreadable}
    /\ CapStep("counting") /\ Untouched
    /\ UNCHANGED <<ready, expired, pcap, before, after, boundAt>>

Close ==
    /\ cap = "counting"
    /\ CapStep("closed")
    /\ queue' = {} /\ UNCHANGED <<drops, wire>>
    /\ UNCHANGED <<ready, expired, pcap, tpDrops, before, after, boundAt>>

Moved(b, a) == IF b = Unreadable \/ a = Unreadable THEN 0 ELSE a - b

\* The refusals, in the order they are made.
AcceptsWithoutCounters(a) == pcap # {} /\ tpDrops \in {0, Unreadable}
Accepts(a) ==
    /\ pcap # {}
    /\ tpDrops \in {0, Unreadable}
    /\ Moved(before, a) \in {0, Cardinality(pcap)}

CountAfter ==
    /\ cap = "closed"
    /\ after' \in Readings
    /\ CapStep(IF Accepts(after') THEN "ok" ELSE "refused") /\ Untouched
    /\ UNCHANGED <<ready, expired, pcap, tpDrops, before, boundAt>>

CaptureStep ==
    \/ Bind \/ BindFails \/ CountBefore \/ WriteReady \/ Open \/ WriteFails
    \/ LoopEnds \/ Selected \/ DrainOne \/ Drained \/ CountDrops \/ Close
    \/ CountAfter

-----------------------------------------------------------------------------
(* The guest's script.                                                     *)

OrcStep(next) == orc' = next /\ UNCHANGED <<capVars, tapVars, netVars, sunk>>

\* The sink and the capture are started, and the old files removed.
OrcStart == orc = "start" /\ OrcStep("await") /\ UNCHANGED <<stop, rpVars>>

OrcSleeps ==
    /\ orc = "await"
    /\ OrcStep("replay")
    /\ rp' = "send" /\ UNCHANGED <<stop, sentCount, failures, tag, inA>>

OrcReady ==
    /\ orc = "await" /\ ready
    /\ OrcStep("replay")
    /\ rp' = "send" /\ UNCHANGED <<stop, sentCount, failures, tag, inA>>

\* wait_ready() gives up after a minute, and the guest exits with it.
OrcFails == orc = "await" /\ ~ready /\ OrcStep("failed") /\ UNCHANGED <<stop, rpVars>>

\* Replay has exited, and a moment later the stop file is there.
OrcStops ==
    /\ orc = "replay" /\ rp \in ReplayExits
    /\ OrcStep("wait")
    /\ stop' = TRUE /\ UNCHANGED rpVars

OrcJoins ==
    /\ orc = "wait" /\ cap \in CapExits
    /\ OrcStep("done") /\ UNCHANGED <<stop, rpVars>>

OrcMove == OrcStart \/ OrcReady \/ OrcFails \/ OrcStops \/ OrcJoins

-----------------------------------------------------------------------------
Next == \/ OrcMove \/ CaptureStep
        \/ ReplaySend \/ ReplayReceive \/ ReplayDies \/ SinkAcks
        \/ PacketToSink \/ AckArrives \/ AckLost \/ Stray

Spec == Init /\ [][Next]_vars

-----------------------------------------------------------------------------
(* Properties.                                                             *)

\* Types, and a packet is read from the socket once.
TypeOK ==
    /\ orc \in {"start", "await", "replay", "wait", "done", "failed"}
    /\ ready \in BOOLEAN /\ stop \in BOOLEAN /\ expired \in BOOLEAN
    /\ cap \in {"none", "closed"} \cup Bound \cup CapExits
    /\ queue \subseteq 1 .. Len(wire) /\ pcap \subseteq 1 .. Len(wire)
    /\ queue \cap pcap = {}
    /\ drops \in Nat /\ tpDrops \in Nat \cup {Unreadable}
    /\ before \in Nat \cup {Unreadable} /\ after \in Nat \cup {Unreadable}
    /\ boundAt \in 0 .. Len(wire)
    /\ strays \in Nat
    /\ rp \in {"idle", "send", "wait"} \cup ReplayExits
    /\ sentCount \in 0 .. Len(Lengths) /\ failures \in Nat
    /\ tag \in Tags /\ inB \in Int /\ ackB \in Int /\ inA \in Int
    /\ outA \in Seq(Packet) /\ wire \in Seq(Packet)
    /\ partial \in [bytes : Int, next : Int] /\ sunk \in Seq(Int)

Counted == before # Unreadable /\ after # Unreadable

\* "The capture and the link disagree" is a refusal: an accepted capture whose
\* counters could be read, and were first read before anything came, has every
\* packet that crossed the interface between the two readings, and no other.
AcceptedIsWhole ==
    cap = "ok" /\ Counted /\ before = boundAt => pcap = before + 1 .. after

\* "The instrument reports its own loss, and a lossy capture is refused here":
\* whatever could not be read.
LossIsRefused == cap = "ok" => drops = 0

\* The messages of a replay, as an analysis should list them.
Exchanges(k) ==
    [j \in 1 .. 2 * k |->
        IF j % 2 = 1 THEN [to |-> TRUE, type |-> SpdmType, bytes |-> Lengths[(j + 1) \div 2]]
        ELSE [to |-> FALSE, type |-> SpdmType, bytes |-> AckBytes]]

Captured ==
    [k \in 1 .. Cardinality(pcap) |->
        wire[CHOOSE i \in pcap : Cardinality({j \in pcap : j <= i}) = k]]

\* "captured 237 packets of a 368-packet replay": when replay has ended well and
\* the capture is accepted, and nothing else was on the link, the analysis
\* reports no problem and lists the messages that were replayed and their
\* acknowledgements, all of them unless the capture's own time ran out.
MeasuredIsSent ==
    cap = "ok" /\ Counted /\ rp = "ok" /\ ~expired /\ strays = Strays =>
        /\ Reproduced(Captured, 0, after - before, Mtu)
        /\ Rows(Captured) = Exchanges(Len(Lengths))

\* The second witness, "the far side put them back together into exactly the
\* message that was sent": when replay ends well, the sink's kernel reassembled
\* every message whole, though four lost packets in a row leave the sequence
\* numbers unbroken.
ReplayOkIsReassembled == rp = "ok" => sunk = Lengths

\* Why the counters suffice: what a socket holds came after it was bound, and
\* the replay begins when the first reading has been made.
QuietInv ==
    /\ rp = "idle" <=> orc \in {"start", "await", "failed"}
    /\ rp # "idle" => ready
    /\ ready => cap \notin {"none", "bound", "counted"}
    /\ rp = "idle" => outA = <<>> /\ inB = None /\ ackB = None /\ inA = None
                      /\ sunk = <<>> /\ sentCount = 0 /\ failures = 0
    /\ cap = "none" => queue = {} /\ pcap = {}
    /\ queue \cup pcap \subseteq boundAt + 1 .. Len(wire)

\* Why the acknowledgements suffice: the one message of an exchange is in one
\* place, and what comes back is what the sink received last.
ExchangeInv ==
    /\ \A i \in 1 .. Len(outA) : outA[i].eom <=> i = Len(outA)
    /\ rp \in {"send", "ok", "mismatch"} =>
         outA = <<>> /\ inB = None /\ ackB = None /\ inA = None
         /\ Len(sunk) = sentCount
    /\ rp = "wait" =>
         /\ sentCount > 0 /\ Len(sunk) \in {sentCount - 1, sentCount}
         /\ outA = <<>> \/ inB = None
         /\ Len(sunk) < sentCount => ackB = None /\ inA = None
         /\ Len(sunk) = sentCount =>
              /\ outA = <<>> /\ inB = None /\ (ackB = None \/ inA = None)
              /\ ackB # None => ackB = sunk[sentCount]
              /\ inA # None => inA = sunk[sentCount]
    /\ failures = 0 /\ rp # "died" =>
         \A i \in 1 .. Len(sunk) :
             (rp = "wait" => i < sentCount) => sunk[i] = Lengths[i]
    /\ rp = "ok" => sentCount = Len(Lengths) /\ failures = 0

\* Why a whole capture gives the messages back: what has crossed, grouped as the
\* analysis groups it, is the exchanges so far and the part of a message that has
\* left the kernel.
Listed(messages, n) ==
    /\ Len(messages) = n
    /\ \A j \in 1 .. n :
         /\ messages[j].to = (j % 2 = 1) /\ messages[j].type = SpdmType
         /\ messages[j].bytes
              = TypeBytes + (IF j % 2 = 1 THEN Lengths[(j + 1) \div 2] ELSE AckBytes)
         /\ Agrees(messages[j], Mtu)
Begun(c) ==
    IF c = 0 THEN {}
    ELSE {[to |-> TRUE, tag |-> tag, type |-> SpdmType, packets |-> c, bytes |-> c * Mtu,
           next |-> c % SeqModulus, complete |-> FALSE]}
Leaving ==
    LET f == Fragment(TRUE, tag, SpdmType, Lengths[sentCount], Mtu) IN
    \E c \in 0 .. Len(f) - 1 :
      /\ outA = SubSeq(f, c + 1, Len(f))
      /\ Grouped(wire).open = Begun(c)
Due ==
    2 * sentCount
      - (IF rp # "wait" \/ inA # None THEN 0 ELSE IF outA = <<>> THEN 1 ELSE 2)
WireInv ==
    strays = Strays /\ rp # "died" =>
      /\ Grouped(wire).problems = {}
      /\ rp = "idle" => wire = <<>>
      /\ outA = <<>> => Grouped(wire).open = {}
      /\ outA # <<>> => Leaving
      /\ Listed(Grouped(wire).messages, Due)

\* And why what was accepted in time is all there was: the first reading found
\* nothing, and the last was made when replay had ended.
TimelyInv ==
    /\ strays <= Strays
    /\ stop => rp \in ReplayExits
    /\ cap \in {"over", "counting", "closed", "ok", "refused"} => stop \/ expired
    /\ strays = Strays => boundAt = 0 /\ before \in {0, Unreadable}
    /\ cap = "ok" /\ ~expired /\ strays = Strays /\ rp = "ok" =>
         after \in {Len(wire), Unreadable}

\* The inductive invariant of the proofs.
IInv == TypeOK /\ QuietInv /\ ExchangeInv /\ AcceptedIsWhole /\ WireInv /\ TimelyInv
=============================================================================
