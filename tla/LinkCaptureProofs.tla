------------------------- MODULE LinkCaptureProofs -------------------------
(* Proofs that an accepted capture is whole if nothing came before its     *)
(* first reading, that a replay which ends well was reassembled, and that  *)
(* the analysis of its capture lists what was replayed.                    *)
EXTENDS LinkCapture, Recursion, FiniteSetTheorems, SequenceTheorems, TLAPS

USE DEF None, Unreadable, Bound, CapExits, ReplayExits

LEMMA PacketType ==
    ASSUME NEW to \in BOOLEAN, NEW t \in Tags, NEW som \in BOOLEAN, NEW eom \in BOOLEAN,
           NEW seq \in Int, NEW size \in Int, NEW p,
           p = [to |-> to, tag |-> t, type |-> SpdmType, som |-> som, eom |-> eom,
                seq |-> seq, size |-> size]
    PROVE  p \in Packet /\ p.eom = eom
BY DEF Packet, SpdmType

\* A message is one packet or more, and only the last of them ends it.
LEMMA FragmentType ==
    ASSUME NEW to \in BOOLEAN, NEW t \in Tags, NEW bytes \in Nat, bytes > 0,
           NEW f, f = Fragment(to, t, SpdmType, bytes, Mtu)
    PROVE  /\ f \in Seq(Packet) /\ Len(f) > 0
           /\ \A i \in 1 .. Len(f) : f[i].eom <=> i = Len(f)
<1> DEFINE n == MctpPackets(bytes, Mtu)
<1>1. n \in Nat /\ n > 0
  BY LengthsAssumption DEF MctpPackets, Ceil, TypeBytes
<1> HIDE DEF n
<1> DEFINE number(i) == (i - 1) % SeqModulus
           room(i) == IF i < n THEN Mtu ELSE bytes + TypeBytes - (n - 1) * Mtu
<1>2. \A i \in 1 .. n : number(i) \in Int
  BY DEF SeqModulus
<1>3. \A i \in 1 .. n : room(i) \in Int
  BY <1>1, LengthsAssumption DEF TypeBytes
<1>4. f = [i \in 1 .. n |->
        [to |-> to, tag |-> t, type |-> SpdmType, som |-> i = 1, eom |-> i = n,
         seq |-> number(i), size |-> room(i)]]
  BY DEF Fragment, n
<1> HIDE DEF number, room
<1>5. ASSUME NEW i \in 1 .. n
      PROVE  f[i] \in Packet /\ (f[i].eom <=> i = n)
  <2> DEFINE first == i = 1
             last == i = n
  <2>1. f[i] = [to |-> to, tag |-> t, type |-> SpdmType, som |-> first, eom |-> last,
                seq |-> number(i), size |-> room(i)]
    BY <1>4
  <2>2. first \in BOOLEAN /\ last \in BOOLEAN /\ number(i) \in Int /\ room(i) \in Int
    BY <1>2, <1>3
  <2> HIDE DEF first, last
  <2>3. f[i] \in Packet /\ f[i].eom = last
    BY <2>1, <2>2, PacketType
  <2> QED BY <2>3 DEF last
<1>6. DOMAIN f = 1 .. n
  BY <1>4
<1>7. f \in Seq(Packet) /\ Len(f) = n
  BY <1>1, <1>4, <1>5, <1>6
<1> QED BY <1>1, <1>5, <1>7

\* An acknowledgement's packet.
LEMMA AckType ==
    ASSUME NEW t \in Tags
    PROVE  Fragment(FALSE, t, SpdmType, AckBytes, Mtu)[1] \in Packet
<1> DEFINE f == Fragment(FALSE, t, SpdmType, AckBytes, Mtu)
<1>1. f \in Seq(Packet) /\ Len(f) > 0
  BY FragmentType, LengthsAssumption, Zenon
<1> HIDE DEF f
<1>2. f[1] \in Packet
  BY <1>1
<1> QED BY <1>2 DEF f

\* What crosses the interface is not yet in the capture.
LEMMA CrossType ==
    ASSUME TypeOK, NEW p \in Packet, Cross(p)
    PROVE  /\ wire' \in Seq(Packet) /\ Len(wire') = Len(wire) + 1
           /\ queue' \subseteq 1 .. Len(wire') /\ pcap \subseteq 1 .. Len(wire')
           /\ queue' \cap pcap = {} /\ drops' \in Nat
           /\ boundAt \in 0 .. Len(wire')
           /\ queue' \subseteq queue \cup (boundAt + 1 .. Len(wire'))
<1>1. wire' \in Seq(Packet) /\ Len(wire') = Len(wire) + 1 /\ Len(wire) \in Nat
  BY DEF Cross, TypeOK
<1>2. 1 .. Len(wire) \subseteq 1 .. Len(wire') /\ Len(wire') \in 1 .. Len(wire')
      /\ Len(wire') \notin 1 .. Len(wire)
  BY <1>1
<1>3. queue' \subseteq queue \cup {Len(wire')} /\ drops' \in Nat
  BY <1>1 DEF Cross, TypeOK
<1>4. queue \subseteq 1 .. Len(wire) /\ pcap \subseteq 1 .. Len(wire) /\ queue \cap pcap = {}
  BY DEF TypeOK
<1>5. /\ boundAt \in 0 .. Len(wire') /\ Len(wire') \in boundAt + 1 .. Len(wire')
  BY <1>1 DEF TypeOK
<1>6. /\ queue' \subseteq 1 .. Len(wire') /\ pcap \subseteq 1 .. Len(wire')
      /\ queue' \cap pcap = {}
  BY <1>2, <1>3, <1>4
<1>7. queue' \subseteq queue \cup (boundAt + 1 .. Len(wire'))
  BY <1>3, <1>5
<1> QED BY <1>1, <1>3, <1>5, <1>6, <1>7

LEMMA InitExchange == Init => TypeOK /\ QuietInv /\ ExchangeInv /\ AcceptedIsWhole
<1> SUFFICES ASSUME Init PROVE TypeOK /\ QuietInv /\ ExchangeInv /\ AcceptedIsWhole
  OBVIOUS
<1>1. TypeOK
  <2>1. NoPartial \in [bytes : Int, next : Int] /\ Len(Lengths) \in Nat
    BY LengthsAssumption DEF NoPartial
  <2>2. wire = <<>> /\ outA = <<>> /\ sunk = <<>>
    BY DEF Init
  <2>3. wire \in Seq(Packet) /\ outA \in Seq(Packet) /\ sunk \in Seq(Int)
    BY <2>2
  <2>4. partial \in [bytes : Int, next : Int] /\ sentCount \in 0 .. Len(Lengths)
    BY <2>1 DEF Init
  <2>5. /\ queue \subseteq 1 .. Len(wire) /\ pcap \subseteq 1 .. Len(wire)
        /\ queue \cap pcap = {} /\ strays \in Nat /\ boundAt \in 0 .. Len(wire)
    BY <2>2, CaptureAssumption DEF Init
  <2>6. /\ orc \in {"start", "await", "replay", "wait", "done", "failed"}
        /\ ready \in BOOLEAN /\ stop \in BOOLEAN /\ expired \in BOOLEAN
        /\ cap \in {"none", "closed"} \cup Bound \cup CapExits
        /\ rp \in {"idle", "send", "wait"} \cup ReplayExits
    BY DEF Init
  <2>7. /\ drops \in Nat /\ tpDrops \in Nat \cup {Unreadable}
        /\ before \in Nat \cup {Unreadable} /\ after \in Nat \cup {Unreadable}
        /\ failures \in Nat /\ tag \in Tags /\ inB \in Int /\ ackB \in Int /\ inA \in Int
    BY DEF Init
  <2> QED BY <2>3, <2>4, <2>5, <2>6, <2>7 DEF TypeOK
<1>2. QuietInv
  BY DEF Init, QuietInv
<1>3. ExchangeInv
  BY DEF Init, ExchangeInv
<1> QED BY <1>1, <1>2, <1>3 DEF Init, AcceptedIsWhole

-----------------------------------------------------------------------------
\* The steps of the capture.
LEMMA CaptureType == TypeOK /\ CaptureStep => TypeOK'
<1> SUFFICES ASSUME TypeOK, CaptureStep PROVE TypeOK'
  OBVIOUS
<1> USE DEF TypeOK, CapStep, Untouched, Readings, orcVars, netVars, rpVars, tapVars
<1>0. Len(wire) \in Nat
  OBVIOUS
<1>1. CASE Bind
  <2>1. boundAt' \in 0 .. Len(wire')
    BY <1>0, <1>1 DEF Bind
  <2> QED BY <1>1, <2>1 DEF Bind
<1>11. CASE BindFails
  BY <1>11 DEF BindFails
<1>2. CASE CountBefore
  <2>1. before' \in Nat \cup {Unreadable} /\ cap' = "counted"
    BY <1>0, <1>2 DEF CountBefore
  <2>2. UNCHANGED <<orcVars, netVars, rpVars, tapVars, sunk>>
    BY <1>2 DEF CountBefore
  <2>3. UNCHANGED <<ready, expired, pcap, tpDrops, after, boundAt>>
    BY <1>2 DEF CountBefore
  <2> QED BY <2>1, <2>2, <2>3 DEF Bound
<1>3. CASE WriteReady \/ Open
  BY <1>3, ZenonT(60) DEF WriteReady, Open
<1>4. CASE WriteFails
  BY <1>4 DEF WriteFails
<1>5. CASE LoopEnds
  BY <1>5, ZenonT(60) DEF LoopEnds
<1>6. CASE Selected \/ Drained
  BY <1>6, ZenonT(60) DEF Selected, Drained
<1>7. CASE DrainOne
  BY <1>7 DEF DrainOne
<1>8. CASE CountDrops
  BY <1>8 DEF CountDrops
<1>9. CASE Close
  BY <1>9 DEF Close
<1>10. CASE CountAfter
  BY <1>0, <1>10 DEF CountAfter
<1> QED BY <1>1, <1>2, <1>3, <1>4, <1>5, <1>6, <1>7, <1>8, <1>9, <1>10, <1>11
       DEF CaptureStep

\* The steps of replay, the sink and the script.
LEMMA ProcessType ==
    TypeOK /\ (OrcMove \/ ReplaySend \/ ReplayReceive \/ ReplayDies \/ SinkAcks) => TypeOK'
<1> SUFFICES ASSUME TypeOK, OrcMove \/ ReplaySend \/ ReplayReceive \/ ReplayDies \/ SinkAcks
             PROVE  TypeOK'
  OBVIOUS
<1> USE DEF TypeOK, orcVars, capVars, netVars, rpVars, tapVars
<1>1. CASE OrcMove
  <2>1. /\ orc' \in {"start", "await", "replay", "wait", "done", "failed"}
        /\ stop' \in BOOLEAN /\ rp' \in {rp, "send"}
        /\ UNCHANGED <<sentCount, failures, tag, inA>>
    BY <1>1 DEF OrcMove, OrcStart, OrcReady, OrcFails, OrcStops, OrcJoins, OrcStep
  <2>2. UNCHANGED <<capVars, tapVars, netVars, sunk>>
    BY <1>1 DEF OrcMove, OrcStart, OrcReady, OrcFails, OrcStops, OrcJoins, OrcStep
  <2> QED BY <2>1, <2>2
<1>2. CASE ReplaySend
  <2>0. Len(Lengths) \in Nat
    BY LengthsAssumption
  <2>1. CASE sentCount = Len(Lengths)
    BY <1>2, <2>1 DEF ReplaySend, ReplayEnd
  <2>2. CASE sentCount # Len(Lengths)
    <3>1. sentCount' = sentCount + 1 /\ tag' \in Tags /\ rp' = "wait"
      BY <1>2, <2>2 DEF ReplaySend
    <3>2. sentCount' \in 1 .. Len(Lengths)
      BY <2>0, <2>2, <3>1
    <3>3. Lengths[sentCount'] \in Nat /\ Lengths[sentCount'] > 0
      BY <3>2, LengthsAssumption
    <3>4. outA' \in Seq(Packet)
      BY <1>2, <2>2, <3>1, <3>3, FragmentType DEF ReplaySend
    <3> QED BY <1>2, <2>0, <3>1, <3>2, <3>4 DEF ReplaySend
  <2> QED BY <2>1, <2>2
<1>3. CASE ReplayReceive
  BY <1>3 DEF ReplayReceive
<1>4. CASE ReplayDies
  BY <1>4 DEF ReplayDies
<1>5. CASE SinkAcks
  BY <1>5 DEF SinkAcks
<1> QED BY <1>1, <1>2, <1>3, <1>4, <1>5

\* The steps of the link.
LEMMA LinkType ==
    TypeOK /\ (PacketToSink \/ AckArrives \/ AckLost \/ Stray) => TypeOK'
<1> SUFFICES ASSUME TypeOK, PacketToSink \/ AckArrives \/ AckLost \/ Stray
             PROVE  TypeOK'
  OBVIOUS
<1>1. CASE PacketToSink
  <2>1. Head(outA) \in Packet /\ Tail(outA) \in Seq(Packet)
    BY <1>1 DEF PacketToSink, TypeOK
  <2>2. /\ wire' \in Seq(Packet) /\ queue' \subseteq 1 .. Len(wire')
        /\ pcap \subseteq 1 .. Len(wire') /\ queue' \cap pcap = {} /\ drops' \in Nat
        /\ boundAt \in 0 .. Len(wire')
    BY <1>1, <2>1, CrossType DEF PacketToSink
  <2>3. Reassembled(partial, Head(outA)) \in [bytes : Int, next : Int]
    <3>1. Head(outA).size \in Int /\ (Head(outA).seq + 1) % SeqModulus \in Int
      BY <2>1 DEF Packet, SeqModulus
    <3> QED BY <3>1 DEF Reassembled, NoPartial, TypeOK
  <2>4. partial' \in [bytes : Int, next : Int] /\ inB' \in Int
    BY <1>1, <2>3 DEF PacketToSink, TypeOK, NoPartial, TypeBytes
  <2>5. outA' \in Seq(Packet)
    BY <1>1, <2>1 DEF PacketToSink
  <2> QED BY <1>1, <2>2, <2>4, <2>5
      DEF PacketToSink, TypeOK, orcVars, capVars, rpVars
<1>2. CASE AckArrives
  <2>1. /\ wire' \in Seq(Packet) /\ queue' \subseteq 1 .. Len(wire')
        /\ pcap \subseteq 1 .. Len(wire') /\ queue' \cap pcap = {} /\ drops' \in Nat
        /\ boundAt \in 0 .. Len(wire')
    BY <1>2, AckType, CrossType DEF AckArrives, TypeOK
  <2>2. inA' \in Int /\ ackB' \in Int
    BY <1>2 DEF AckArrives, TypeOK
  <2> QED BY <1>2, <2>1, <2>2 DEF AckArrives, TypeOK, orcVars, capVars
<1>3. CASE AckLost
  BY <1>3 DEF AckLost, TypeOK, orcVars, capVars, tapVars, rpVars
<1>4. CASE Stray
  <2>1. /\ wire' \in Seq(Packet) /\ queue' \subseteq 1 .. Len(wire')
        /\ pcap \subseteq 1 .. Len(wire') /\ queue' \cap pcap = {} /\ drops' \in Nat
        /\ boundAt \in 0 .. Len(wire')
    BY <1>4, AckType, CrossType DEF Stray
  <2>2. strays' \in Nat
    BY <1>4 DEF Stray, TypeOK
  <2> QED BY <1>4, <2>1, <2>2 DEF Stray, TypeOK, orcVars, capVars, rpVars
<1> QED BY <1>1, <1>2, <1>3, <1>4

LEMMA StepType == TypeOK /\ [Next]_vars => TypeOK'
<1>1. TypeOK /\ UNCHANGED vars => TypeOK'
  BY DEF TypeOK, vars, orcVars, capVars, tapVars, netVars, rpVars
<1> QED BY <1>1, CaptureType, ProcessType, LinkType DEF Next

-----------------------------------------------------------------------------
\* What the socket holds or has written came after it was bound.
LEMMA CrossQuiet ==
    ASSUME TypeOK, QuietInv, NEW p \in Packet, Cross(p)
    PROVE  /\ cap = "none" => queue' = {}
           /\ queue' \cup pcap \subseteq boundAt + 1 .. Len(wire')
<1>1. /\ queue' \subseteq queue \cup (boundAt + 1 .. Len(wire')) /\ Len(wire') = Len(wire) + 1
      /\ Len(wire) \in Nat /\ boundAt \in 0 .. Len(wire)
  BY CrossType DEF TypeOK
<1>2. boundAt + 1 .. Len(wire) \subseteq boundAt + 1 .. Len(wire')
  BY <1>1
<1>3. queue \cup pcap \subseteq boundAt + 1 .. Len(wire)
  BY DEF QuietInv
<1>4. cap = "none" => queue' = {}
  BY DEF Cross, QuietInv
<1> QED BY <1>1, <1>2, <1>3, <1>4

LEMMA StepQuiet == TypeOK /\ QuietInv /\ [Next]_vars => QuietInv'
<1> SUFFICES ASSUME TypeOK, QuietInv, [Next]_vars PROVE QuietInv'
  OBVIOUS
<1> USE DEF QuietInv, orcVars, capVars, tapVars, netVars, rpVars
<1>1. CASE CaptureStep
  <2> USE DEF CaptureStep, CapStep, Untouched, Bind, BindFails, CountBefore, WriteReady,
       Open, WriteFails, LoopEnds, Selected, DrainOne, Drained, CountDrops, Close, CountAfter
  <2>1. UNCHANGED <<orcVars, netVars, rpVars, sunk, wire>>
    BY <1>1
  <2>2. /\ (ready => cap \notin {"none", "bound", "counted"})'
        /\ cap' # "none"
    BY <1>1
  <2>3. ready => ready'
    BY <1>1
  <2>4. queue' \cup pcap' \subseteq queue \cup pcap
    BY <1>1
  <2>5. boundAt' = boundAt \/ queue \cup pcap = {}
    BY <1>1
  <2> HIDE DEF CaptureStep
  <2> QED BY <2>1, <2>2, <2>3, <2>4, <2>5
<1>2. CASE OrcMove
  BY <1>2 DEF OrcMove, OrcStart, OrcReady, OrcFails, OrcStops, OrcJoins, OrcStep
<1>3. CASE ReplaySend
  BY <1>3 DEF ReplaySend, ReplayEnd
<1>4. CASE ReplayReceive \/ ReplayDies
  BY <1>4 DEF ReplayReceive, ReplayDies
<1>5. CASE SinkAcks
  BY <1>5 DEF SinkAcks
<1>6. CASE PacketToSink
  <2>1. Head(outA) \in Packet /\ Cross(Head(outA))
    BY <1>6 DEF PacketToSink, TypeOK
  <2> QED BY <1>6, <2>1, CrossQuiet DEF PacketToSink
<1>7. CASE AckArrives
  <2>1. Fragment(FALSE, tag, SpdmType, AckBytes, Mtu)[1] \in Packet
    BY AckType DEF TypeOK
  <2> QED BY <1>7, <2>1, CrossQuiet DEF AckArrives
<1>8. CASE Stray
  <2>1. PICK p \in Packet : Cross(p)
    BY <1>8, AckType DEF Stray
  <2> QED BY <1>8, <2>1, CrossQuiet DEF Stray
<1>9. CASE AckLost \/ UNCHANGED vars
  BY <1>9 DEF AckLost, vars
<1> QED BY <1>1, <1>2, <1>3, <1>4, <1>5, <1>6, <1>7, <1>8, <1>9 DEF Next

-----------------------------------------------------------------------------
\* The refusals leave only whole captures: what is written came after a first
\* reading that had missed nothing, and is as much as the readings differ by.
LEMMA WholeWhenAccepted ==
    ASSUME TypeOK, QuietInv, CountAfter, cap' = "ok", Counted', (before = boundAt)'
    PROVE  pcap' = before' + 1 .. after'
<1>1. /\ after' = Len(wire) /\ Accepts(after') /\ pcap' = pcap /\ before' = before
      /\ before = boundAt /\ Len(wire) \in Nat /\ before \in 0 .. Len(wire)
      /\ pcap \subseteq before + 1 .. Len(wire)
  BY DEF CountAfter, CapStep, Readings, Counted, QuietInv, TypeOK
<1>2. Len(wire) > before
  <2>1. pcap # {}
    BY <1>1, Zenon DEF Accepts
  <2>2. \E i : i \in pcap
    BY <2>1
  <2> QED BY <1>1, <2>2
<1>3. Cardinality(pcap) = Len(wire) - before
  BY <1>1, <1>2 DEF Accepts, Moved
<1>4. /\ IsFiniteSet(before + 1 .. Len(wire))
      /\ Cardinality(before + 1 .. Len(wire)) = Len(wire) - before
  BY <1>1, <1>2, FS_Interval
<1>5. pcap = before + 1 .. Len(wire)
  BY <1>1, <1>3, <1>4, FS_Subset
<1> QED BY <1>1, <1>5

LEMMA StepWhole ==
    TypeOK /\ QuietInv /\ AcceptedIsWhole /\ [Next]_vars => AcceptedIsWhole'
<1> SUFFICES ASSUME TypeOK, QuietInv, AcceptedIsWhole, [Next]_vars,
                    (cap = "ok" /\ Counted /\ before = boundAt)'
             PROVE  pcap' = before' + 1 .. after'
  BY DEF AcceptedIsWhole
<1>1. CASE CountAfter
  BY <1>1, WholeWhenAccepted
<1>2. CASE CaptureStep /\ ~CountAfter
  BY <1>2 DEF CaptureStep, CapStep, Bind, BindFails, CountBefore, WriteReady, Open,
     WriteFails, LoopEnds, Selected, DrainOne, Drained, CountDrops, Close
<1>3. CASE UNCHANGED capVars
  BY <1>3 DEF capVars, AcceptedIsWhole, Counted
<1>4. CASE ~CaptureStep
  <2>1. UNCHANGED capVars
    BY <1>4 DEF Next, vars, OrcMove, OrcStart, OrcReady, OrcFails, OrcStops, OrcJoins,
       OrcStep, ReplaySend, ReplayReceive, ReplayDies, SinkAcks, PacketToSink, AckArrives,
       AckLost, Stray
  <2> QED BY <1>3, <2>1
<1> QED BY <1>1, <1>2, <1>4

-----------------------------------------------------------------------------
\* The one message of an exchange is on its way, with the sink, or on its way
\* back.
LEMMA StepExchange ==
    TypeOK /\ QuietInv /\ ExchangeInv /\ [Next]_vars => ExchangeInv'
<1> SUFFICES ASSUME TypeOK, QuietInv, ExchangeInv, [Next]_vars PROVE ExchangeInv'
  OBVIOUS
<1> USE DEF orcVars, capVars, tapVars, netVars, rpVars
<1>0. /\ sunk \in Seq(Int) /\ outA \in Seq(Packet) /\ sentCount \in Nat
      /\ Len(sunk) \in Nat /\ Len(outA) \in Nat /\ Len(Lengths) \in Nat /\ failures \in Nat
  BY LengthsAssumption DEF TypeOK
<1>1. CASE UNCHANGED <<outA, inB, ackB, inA, rp, sentCount, failures, sunk>>
  BY <1>1, Zenon DEF ExchangeInv
<1>2. CASE CaptureStep \/ Stray \/ UNCHANGED vars
  BY <1>1, <1>2 DEF CaptureStep, CapStep, Bind, BindFails, CountBefore, WriteReady, Open,
     WriteFails, LoopEnds, Selected, DrainOne, Drained, CountDrops, Close, CountAfter,
     Stray, vars
<1>3. CASE OrcMove
  <2>1. CASE OrcReady
    <3>1. /\ rp = "idle" /\ outA = <<>> /\ inB = None /\ ackB = None /\ inA = None
          /\ sunk = <<>> /\ sentCount = 0
      BY <2>1 DEF OrcReady, QuietInv
    <3>2. /\ UNCHANGED <<outA, inB, ackB, inA, sentCount, failures, sunk>> /\ rp' = "send"
      BY <2>1 DEF OrcReady, OrcStep
    <3> QED BY <3>1, <3>2 DEF ExchangeInv
  <2>2. CASE ~OrcReady
    BY <1>1, <1>3, <2>2 DEF OrcMove, OrcStart, OrcFails, OrcStops, OrcJoins, OrcStep
  <2> QED BY <2>1, <2>2
<1>4. CASE ReplaySend
  <2>1. /\ rp = "send" /\ outA = <<>> /\ inB = None /\ ackB = None /\ inA = None
        /\ Len(sunk) = sentCount
        /\ (failures = 0 => \A i \in 1 .. Len(sunk) : sunk[i] = Lengths[i])
    BY <1>4 DEF ReplaySend, ExchangeInv
  <2>2. UNCHANGED <<inB, ackB, inA, failures, sunk>>
    BY <1>4 DEF ReplaySend
  <2>3. CASE sentCount = Len(Lengths)
    <3>1. /\ rp' = (IF failures = 0 THEN "ok" ELSE "mismatch")
          /\ UNCHANGED <<sentCount, outA>>
      BY <1>4, <2>3 DEF ReplaySend, ReplayEnd
    <3> QED BY <2>1, <2>2, <2>3, <3>1 DEF ExchangeInv
  <2>4. CASE sentCount # Len(Lengths)
    <3>1. rp' = "wait" /\ sentCount' = sentCount + 1 /\ tag' \in Tags
      BY <1>4, <2>4 DEF ReplaySend
    <3>2. sentCount' \in 1 .. Len(Lengths)
      BY <1>0, <2>4, <3>1 DEF TypeOK
    <3>3. Lengths[sentCount'] \in Nat /\ Lengths[sentCount'] > 0
      BY <3>2, LengthsAssumption
    <3>4. \A i \in 1 .. Len(outA') : outA'[i].eom <=> i = Len(outA')
      BY <1>4, <2>4, <3>1, <3>3, FragmentType DEF ReplaySend
    <3> QED BY <1>0, <2>1, <2>2, <3>1, <3>4 DEF ExchangeInv
  <2> QED BY <2>3, <2>4
<1>5. CASE ReplayReceive
  <2>1. /\ rp = "wait" /\ inA # None /\ sentCount > 0 /\ Len(sunk) = sentCount
        /\ outA = <<>> /\ inB = None /\ ackB = None /\ inA = sunk[sentCount]
        /\ (failures = 0 => \A i \in 1 .. Len(sunk) : i < sentCount => sunk[i] = Lengths[i])
    BY <1>0, <1>5 DEF ReplayReceive, ExchangeInv
  <2>2. /\ rp' = "send" /\ inA' = None /\ UNCHANGED <<outA, inB, ackB, sentCount, sunk>>
        /\ (failures' = 0 => failures = 0 /\ inA = Lengths[sentCount])
    BY <1>0, <1>5 DEF ReplayReceive
  <2> QED BY <1>0, <2>1, <2>2 DEF ExchangeInv
<1>6. CASE ReplayDies
  BY <1>6 DEF ReplayDies, ExchangeInv
<1>7. CASE SinkAcks
  <2>1. /\ inB # None /\ inB' = None /\ ackB' = inB /\ sunk' = Append(sunk, inB)
        /\ UNCHANGED <<outA, inA, rp, sentCount, failures>>
    BY <1>7 DEF SinkAcks
  <2>2. rp \in {"wait", "died"}
    BY <2>1 DEF ExchangeInv, QuietInv, TypeOK
  <2>3. CASE rp = "died"
    BY <2>1, <2>3 DEF ExchangeInv
  <2>4. CASE rp = "wait"
    <3>1. outA = <<>> /\ inA = None /\ Len(sunk) = sentCount - 1 /\ sentCount > 0
      BY <1>0, <2>1, <2>4 DEF ExchangeInv
    <3>2. /\ Len(sunk') = sentCount /\ sunk'[sentCount] = inB
          /\ \A i \in 1 .. Len(sunk) : sunk'[i] = sunk[i]
      BY <1>0, <2>1, <3>1 DEF TypeOK
    <3>3. failures = 0 => \A i \in 1 .. Len(sunk) : sunk[i] = Lengths[i]
      BY <1>0, <2>4, <3>1 DEF ExchangeInv
    <3> QED BY <1>0, <2>1, <2>4, <3>1, <3>2, <3>3 DEF ExchangeInv
  <2> QED BY <2>2, <2>3, <2>4
<1>8. CASE PacketToSink
  <2>1. /\ outA # <<>> /\ outA' = Tail(outA)
        /\ (inB' = inB \/ Head(outA).eom)
        /\ UNCHANGED <<ackB, inA, rp, sentCount, failures, sunk>>
    BY <1>8 DEF PacketToSink
  <2>2. Len(outA') = Len(outA) - 1 /\ \A i \in 1 .. Len(outA') : outA'[i] = outA[i + 1]
    BY <1>0, <2>1
  <2>3. \A i \in 1 .. Len(outA') : outA'[i].eom <=> i = Len(outA')
    BY <1>0, <2>2 DEF ExchangeInv
  <2>4. inB' = inB \/ outA' = <<>>
    <3>1. Head(outA) = outA[1] /\ 1 \in 1 .. Len(outA)
      BY <1>0, <2>1
    <3>2. Head(outA).eom => Len(outA) = 1
      BY <3>1 DEF ExchangeInv
    <3>3. Len(outA) = 1 => outA' = <<>>
      BY <1>0, <2>1
    <3> QED BY <2>1, <3>2, <3>3
  <2>5. CASE rp = "died"
    BY <2>1, <2>3, <2>5 DEF ExchangeInv
  <2>6. CASE rp # "died"
    <3>1. rp = "wait" /\ sentCount > 0 /\ Len(sunk) = sentCount - 1 /\ inB = None
          /\ ackB = None /\ inA = None
      BY <1>0, <2>1, <2>6 DEF ExchangeInv, QuietInv, TypeOK
    <3> QED BY <1>0, <2>1, <2>3, <2>4, <3>1 DEF ExchangeInv
  <2> QED BY <2>5, <2>6
<1>9. CASE AckArrives
  <2>1. /\ ackB # None /\ ackB' = None /\ inA' = (IF rp = "wait" THEN ackB ELSE inA)
        /\ UNCHANGED <<outA, inB, rp, sentCount, failures, sunk>>
    BY <1>9 DEF AckArrives
  <2> QED BY <1>0, <2>1 DEF ExchangeInv
<1>10. CASE AckLost
  <2>1. /\ ackB' = None /\ UNCHANGED <<outA, inB, inA, rp, sentCount, failures, sunk>>
    BY <1>10 DEF AckLost
  <2> QED BY <1>0, <2>1 DEF ExchangeInv
<1> QED BY <1>2, <1>3, <1>4, <1>5, <1>6, <1>7, <1>8, <1>9, <1>10 DEF Next

-----------------------------------------------------------------------------
(* Grouping a packet more.                                                 *)

Message == [to : BOOLEAN, tag : Tags, type : Nat, packets : Int, bytes : Int,
            next : Int, complete : BOOLEAN]
Groups == [open : SUBSET Message, messages : Seq(Message), problems : SUBSET {"no-som", "open", "sequence"}]

\* A message that is open or listed stays what a message is.
LEMMA ExtendedType ==
    ASSUME NEW m \in Message, NEW p \in Packet
    PROVE  Extended(m, p) \in Message
<1>1. /\ m.to \in BOOLEAN /\ m.tag \in Tags /\ m.type \in Nat /\ m.packets + 1 \in Int
      /\ m.bytes + p.size \in Int /\ (p.seq + 1) % SeqModulus \in Int /\ p.eom \in BOOLEAN
  BY DEF Message, Packet, SeqModulus
<1> QED BY <1>1 DEF Extended, Message

LEMMA OpenedType ==
    ASSUME NEW p \in Packet
    PROVE  Opened(p) \in Message
<1>1. p.to \in BOOLEAN /\ p.tag \in Tags /\ p.type \in Nat /\ p.seq \in Int
  BY DEF Packet
<1> QED BY <1>1 DEF Opened, Message

LEMMA GroupPacketType ==
    ASSUME NEW g \in Groups, NEW p \in Packet
    PROVE  GroupPacket(g, p) \in Groups
<1> DEFINE same == Continued(g, p)
           m == IF p.som THEN Opened(p) ELSE CHOOSE x \in same : TRUE
           more == {"open"}
           late == {"sequence"}
<1>1. /\ g.open \in SUBSET Message /\ g.messages \in Seq(Message)
      /\ g.problems \in SUBSET {"no-som", "open", "sequence"} /\ same \in SUBSET Message
  BY DEF Groups, Continued
<1>2. CASE ~p.som /\ same = {}
  <2>1. g.problems \cup {"no-som"} \in SUBSET {"no-som", "open", "sequence"}
    BY <1>1
  <2>2. GroupPacket(g, p) = [open |-> g.open, messages |-> g.messages,
                             problems |-> g.problems \cup {"no-som"}]
    BY <1>2 DEF GroupPacket
  <2> QED BY <1>1, <2>1, <2>2 DEF Groups
<1>3. CASE ~(~p.som /\ same = {})
  <2>1. m \in Message
    BY <1>1, <1>3, OpenedType
  <2> DEFINE x == Extended(m, p)
             o == (g.open \ same) \cup (IF p.eom THEN {} ELSE {x})
             l == IF p.eom THEN Append(g.messages, x) ELSE g.messages
             q == g.problems \cup (IF p.som /\ same # {} THEN {"open"} ELSE {})
                    \cup (IF p.seq # m.next THEN {"sequence"} ELSE {})
  <2>2. x \in Message
    BY <2>1, ExtendedType
  <2>3. GroupPacket(g, p) = [open |-> o, messages |-> l, problems |-> q]
    BY <1>3 DEF GroupPacket
  <2> HIDE DEF x, same
  <2>4. o \in SUBSET Message
    BY <1>1, <2>2
  <2>5. l \in Seq(Message)
    BY <1>1, <2>2
  <2>6. q \in SUBSET {"no-som", "open", "sequence"}
    <3> HIDE DEF m
    <3> QED BY <1>1
  <2> HIDE DEF o, l, q
  <2> QED BY <2>3, <2>4, <2>5, <2>6 DEF Groups
<1> QED BY <1>2, <1>3

\* f[k] is what the first k packets group to.
GroupsTo(ps, f) ==
    /\ f \in [0 .. Len(ps) -> Groups]
    /\ f[0] = NoMessages
    /\ \A k \in 1 .. Len(ps) : f[k] = GroupPacket(f[k - 1], ps[k])

LEMMA GroupsExist ==
    ASSUME NEW ps \in Seq(Packet)
    PROVE  \E f : GroupsTo(ps, f)
<1> DEFINE n == Len(ps)
           G == [k \in 1 .. n |-> [g \in Groups |-> GroupPacket(g, ps[k])]]
<1>1. n \in Nat /\ NoMessages \in Groups /\ \A k \in 1 .. n : ps[k] \in Packet
  BY DEF NoMessages, Groups
<1> HIDE DEF n
<1>2. \A k \in 1 .. n : \A g \in Groups : GroupPacket(g, ps[k]) \in Groups
  BY <1>1, GroupPacketType
<1>3. G \in [1 .. n -> [Groups -> Groups]]
  BY <1>2
<1>4. \A k \in 1 .. n : \A g \in Groups : G[k][g] = GroupPacket(g, ps[k])
  OBVIOUS
<1> HIDE DEF G
<1>5. PICK f : Solves(f, Groups, NoMessages, n, G)
  BY <1>1, <1>3, Solution
<1>6. /\ f \in [0 .. n -> Groups] /\ f[0] = NoMessages
      /\ \A k \in 1 .. n : f[k] = G[k][f[k - 1]]
  BY <1>5 DEF Solves
<1>7. \A k \in 1 .. n : f[k - 1] \in Groups
  BY <1>1, <1>6
<1>8. \A k \in 1 .. n : f[k] = GroupPacket(f[k - 1], ps[k])
  BY <1>4, <1>6, <1>7
<1> QED BY <1>6, <1>8 DEF GroupsTo, n

LEMMA GroupedIs ==
    ASSUME NEW ps \in Seq(Packet), NEW f, GroupsTo(ps, f)
    PROVE  Grouped(ps) = f[Len(ps)]
<1> DEFINE n == Len(ps)
           w == CHOOSE w : w = [k \in 0 .. n |->
                  IF k = 0 THEN NoMessages ELSE GroupPacket(w[k - 1], ps[k])]
<1>1. Grouped(ps) = w[n]
  BY DEF Grouped
<1>2. n \in Nat
  OBVIOUS
<1>3. /\ f \in [0 .. n -> Groups] /\ f[0] = NoMessages
      /\ \A k \in 1 .. n : f[k] = GroupPacket(f[k - 1], ps[k])
  BY DEF GroupsTo
<1> HIDE DEF n, w
<1>4. f = [k \in 0 .. n |-> IF k = 0 THEN NoMessages ELSE GroupPacket(f[k - 1], ps[k])]
  <2>1. ASSUME NEW k \in 0 .. n
        PROVE  f[k] = IF k = 0 THEN NoMessages ELSE GroupPacket(f[k - 1], ps[k])
    <3>1. k = 0 \/ k \in 1 .. n
      BY <1>2
    <3> QED BY <1>3, <3>1
  <2>2. f = [k \in 0 .. n |-> f[k]]
    BY <1>3
  <2> QED BY <2>1, <2>2
<1>5. w = [k \in 0 .. n |-> IF k = 0 THEN NoMessages ELSE GroupPacket(w[k - 1], ps[k])]
  BY <1>4 DEF w
<1> DEFINE T == {k \in Nat : k \in 0 .. n => w[k] = f[k]}
<1>6. 0 \in T
  BY <1>3, <1>5
<1>7. ASSUME NEW i \in Nat, i \in T PROVE i + 1 \in T
  <2> DEFINE j == i + 1
  <2> SUFFICES ASSUME j \in 0 .. n PROVE w[j] = f[j]
    OBVIOUS
  <2>1. i \in 0 .. n /\ j # 0 /\ j - 1 = i /\ j \in 1 .. n
    BY <1>2
  <2> HIDE DEF j
  <2>2. w[i] = f[i]
    BY <1>7, <2>1
  <2>3. w[j] = GroupPacket(w[j - 1], ps[j])
    BY <1>5, <2>1
  <2> QED BY <1>3, <2>1, <2>2, <2>3
<1>8. w[n] = f[n]
  <2> HIDE DEF T
  <2>1. n \in T
    BY <1>2, <1>6, <1>7, Induct
  <2> QED BY <1>2, <2>1 DEF T
<1> QED BY <1>1, <1>8 DEF n

\* No packets group to no messages, and a packet more to one more step.
LEMMA GroupedEmpty == Grouped(<<>>) = NoMessages
<1> DEFINE e == <<>>
<1>1. e \in Seq(Packet) /\ Len(e) = 0
  OBVIOUS
<1> HIDE DEF e
<1>2. PICK f : GroupsTo(e, f)
  BY <1>1, GroupsExist
<1>3. Grouped(e) = f[0] /\ f[0] = NoMessages
  BY <1>1, <1>2, GroupedIs DEF GroupsTo
<1> QED BY <1>3 DEF e

LEMMA GroupedMore ==
    ASSUME NEW ps \in Seq(Packet), NEW p \in Packet
    PROVE  /\ Grouped(ps) \in Groups
           /\ Grouped(Append(ps, p)) = GroupPacket(Grouped(ps), p)
<1> DEFINE n == Len(ps)
           all == Append(ps, p)
<1>1. PICK f : GroupsTo(ps, f)
  BY GroupsExist
<1>2. Grouped(ps) = f[n]
  BY <1>1, GroupedIs
<1>3. n \in Nat /\ all \in Seq(Packet) /\ Len(all) = n + 1
  OBVIOUS
<1>4. all[n + 1] = p /\ \A k \in 1 .. n : all[k] = ps[k]
  OBVIOUS
<1>5. /\ f \in [0 .. n -> Groups] /\ f[0] = NoMessages
      /\ \A k \in 1 .. n : f[k] = GroupPacket(f[k - 1], ps[k])
  BY <1>1 DEF GroupsTo
<1> HIDE DEF n, all
<1> DEFINE last == GroupPacket(f[n], p)
           h == [k \in 0 .. n + 1 |-> IF k = n + 1 THEN last ELSE f[k]]
<1>6. f[n] \in Groups
  BY <1>3, <1>5
<1>7. last \in Groups
  BY <1>6, GroupPacketType
<1> HIDE DEF last
<1>8. h \in [0 .. n + 1 -> Groups] /\ h[0] = NoMessages /\ h[n + 1] = last
  BY <1>3, <1>5, <1>7
<1>9. ASSUME NEW k \in 1 .. n + 1 PROVE h[k] = GroupPacket(h[k - 1], all[k])
  <2>1. CASE k = n + 1
    <3>1. h[k] = last /\ h[k - 1] = f[n] /\ all[k] = p
      BY <1>3, <1>4, <2>1
    <3> QED BY <3>1 DEF last
  <2>2. CASE k # n + 1
    <3>1. k \in 1 .. n /\ h[k] = f[k] /\ h[k - 1] = f[k - 1]
      BY <1>3, <2>2
    <3> QED BY <1>4, <1>5, <3>1
  <2> QED BY <2>1, <2>2
<1>10. GroupsTo(all, h)
  <2> HIDE DEF h
  <2> QED BY <1>3, <1>8, <1>9 DEF GroupsTo
<1>11. Grouped(all) = h[n + 1]
  <2> HIDE DEF h
  <2> QED BY <1>3, <1>10, GroupedIs
<1> QED BY <1>2, <1>6, <1>8, <1>11 DEF all, last

-----------------------------------------------------------------------------
(* What the packets of an exchange group to.                               *)

\* The i-th of the n packets of a message.
Numbered(to, t, bytes, n, i) ==
    [to |-> to, tag |-> t, type |-> SpdmType, som |-> i = 1, eom |-> i = n,
     seq |-> (i - 1) % SeqModulus,
     size |-> IF i < n THEN Mtu ELSE bytes + TypeBytes - (n - 1) * Mtu]

LEMMA FragmentAt ==
    ASSUME NEW to \in BOOLEAN, NEW t \in Tags, NEW bytes \in Nat, bytes > 0,
           NEW f, f = Fragment(to, t, SpdmType, bytes, Mtu), NEW i \in 1 .. Len(f)
    PROVE  /\ Len(f) = MctpPackets(bytes, Mtu) /\ Len(f) \in Nat
           /\ f[i] = Numbered(to, t, bytes, Len(f), i)
<1> DEFINE n == MctpPackets(bytes, Mtu)
<1>1. n \in Nat
  BY LengthsAssumption DEF MctpPackets, Ceil, TypeBytes
<1> HIDE DEF n
<1>2. f = [j \in 1 .. n |->
        [to |-> to, tag |-> t, type |-> SpdmType, som |-> j = 1, eom |-> j = n,
         seq |-> (j - 1) % SeqModulus,
         size |-> IF j < n THEN Mtu ELSE bytes + TypeBytes - (n - 1) * Mtu]]
  BY DEF Fragment, n
<1>3. f \in Seq(Packet) /\ DOMAIN f = 1 .. n
  BY <1>2, FragmentType
<1>4. Len(f) = n
  BY <1>1, <1>3
<1>5. i \in 1 .. n
  BY <1>4
<1>6. f[i] = Numbered(to, t, bytes, n, i)
  BY <1>2, <1>5, Zenon DEF Numbered
<1> QED BY <1>1, <1>4, <1>6, Zenon DEF n

LEMMA SentAt ==
    ASSUME tag \in Tags, NEW bytes \in Nat, bytes > 0, NEW i \in 1 .. Len(Fragment(TRUE, tag, SpdmType, bytes, Mtu))
    PROVE  LET f == Fragment(TRUE, tag, SpdmType, bytes, Mtu)
           IN  f[i] = Numbered(TRUE, tag, bytes, Len(f), i)
<1> DEFINE to == TRUE
           t == tag
<1>1. to \in BOOLEAN /\ t \in Tags
  OBVIOUS
<1> HIDE DEF to, t
<1>2. i \in 1 .. Len(Fragment(to, t, SpdmType, bytes, Mtu))
  BY DEF to, t
<1>3. Fragment(to, t, SpdmType, bytes, Mtu)[i]
          = Numbered(to, t, bytes, Len(Fragment(to, t, SpdmType, bytes, Mtu)), i)
  BY <1>1, <1>2, FragmentAt
<1> QED BY <1>3 DEF to, t

\* The packet after the first c of a message.
Whole(bytes, n) ==
    [to |-> TRUE, tag |-> tag, type |-> SpdmType, packets |-> n,
     bytes |-> bytes + TypeBytes, next |-> n % SeqModulus, complete |-> TRUE]

Crossed(bytes, n, c, g, r) ==
    /\ r.problems = {}
    /\ c + 1 # n => r.open = Begun(c + 1) /\ r.messages = g.messages
    /\ c + 1 = n => r.open = {} /\ r.messages = Append(g.messages, Whole(bytes, n))

LEMMA NextNumber ==
    ASSUME NEW c \in Nat
    PROVE  ((c % SeqModulus) + 1) % SeqModulus = (c + 1) % SeqModulus
BY DEF SeqModulus

LEMMA NextSize ==
    ASSUME NEW c \in Nat, NEW m \in Nat
    PROVE  c * m + m = (c + 1) * m /\ (c = 0 => c * m = 0) /\ c * m \in Nat
<1>1. c * m \in Nat
  OBVIOUS
<1>2. (c + 1) * m = c * m + m
  OBVIOUS
<1>3. c = 0 => c * m = 0
  OBVIOUS
<1> QED BY <1>1, <1>2, <1>3

Chosen(p, s) == IF p.som THEN Opened(p) ELSE CHOOSE x \in s : TRUE
Stepped(g, p, s, m, r) ==
    /\ r.open = (g.open \ s) \cup (IF p.eom THEN {} ELSE {Extended(m, p)})
    /\ r.messages = (IF p.eom THEN Append(g.messages, Extended(m, p)) ELSE g.messages)
    /\ r.problems = g.problems \cup (IF p.som /\ s # {} THEN {"open"} ELSE {})
                       \cup (IF p.seq # m.next THEN {"sequence"} ELSE {})

LEMMA GroupPacketIs ==
    ASSUME NEW g, NEW p, NEW s, s = Continued(g, p), ~ (~p.som /\ s = {}),
           NEW m, m = Chosen(p, s), NEW r, r = GroupPacket(g, p)
    PROVE  Stepped(g, p, s, m, r)
<1> DEFINE x == Extended(m, p)
<1>1. r = [open |-> (g.open \ s) \cup (IF p.eom THEN {} ELSE {x}),
           messages |-> IF p.eom THEN Append(g.messages, x) ELSE g.messages,
           problems |-> g.problems \cup (IF p.som /\ s # {} THEN {"open"} ELSE {})
                            \cup (IF p.seq # m.next THEN {"sequence"} ELSE {})]
  BY Zenon DEF GroupPacket, Chosen
<1> HIDE DEF x
<1> QED BY <1>1 DEF x, Stepped

LEMMA GroupNext ==
    ASSUME tag \in Tags, NEW bytes \in Nat, bytes > 0,
           NEW f, f = Fragment(TRUE, tag, SpdmType, bytes, Mtu),
           NEW c \in 0 .. Len(f) - 1, NEW g \in Groups,
           g.open = Begun(c), g.problems = {}, NEW r, r = GroupPacket(g, f[c + 1])
    PROVE  Crossed(bytes, Len(f), c, g, r)
<1> DEFINE n == Len(f)
           p == f[c + 1]
           size == IF c + 1 < n THEN Mtu ELSE bytes + TypeBytes - (n - 1) * Mtu
           same == Continued(g, p)
           half == [to |-> TRUE, tag |-> tag, type |-> SpdmType, packets |-> c,
                    bytes |-> c * Mtu, next |-> c % SeqModulus, complete |-> FALSE]
           first == c = 0
           last == c + 1 = n
           number == c % SeqModulus
           m == IF first THEN Opened(p) ELSE half
           then == [to |-> TRUE, tag |-> tag, type |-> SpdmType, packets |-> c + 1,
                    bytes |-> c * Mtu + size, next |-> (c + 1) % SeqModulus,
                    complete |-> last]
<1>1. n \in Nat /\ c \in Nat /\ c + 1 \in 1 .. n /\ (c + 1) - 1 = c /\ (c + 1 = 1 <=> c = 0)
  <2>1. f \in Seq(Packet)
    BY FragmentType
  <2>3. Len(f) \in Nat
    BY <2>1, Zenon, LenProperties
  <2>2. n \in Nat /\ c \in 0 .. n - 1
    BY <2>3, Zenon
  <2> HIDE DEF n
  <2> QED BY <2>2
<1> HIDE DEF n
<1>2. p = [to |-> TRUE, tag |-> tag, type |-> SpdmType, som |-> c + 1 = 1,
           eom |-> c + 1 = n, seq |-> ((c + 1) - 1) % SeqModulus, size |-> size]
  <2> HIDE DEF size
  <2> DEFINE i == c + 1
  <2>0. i \in 1 .. Len(f)
    BY <1>1 DEF n
  <2> HIDE DEF i, p, same, half, first, last, number, m, then
  <2>1. f[i] = Numbered(TRUE, tag, bytes, Len(f), i)
    <3> HIDE DEF n
    <3> QED BY <2>0, SentAt, Zenon
  <2> QED BY <2>1, Zenon DEF Numbered, size, n, i, p
<1> HIDE DEF p, size
<1>3. /\ p.to = TRUE /\ p.tag = tag /\ p.type = SpdmType /\ p.som = first /\ p.eom = last
      /\ p.seq = number /\ p.size = size
  BY <1>1, <1>2
<1>4. Extended(m, p) = then /\ m.next = number
  <2>1. (p.seq + 1) % SeqModulus = (c + 1) % SeqModulus
    BY <1>1, <1>3, NextNumber
  <2>2. CASE first
    <3>1. number = 0 /\ c * Mtu = 0 /\ Mtu \in Nat
      BY <2>2, LengthsAssumption DEF SeqModulus
    <3>2. size \in Int
      BY <1>1, LengthsAssumption DEF size, TypeBytes
    <3>3. c + 1 = 0 + 1 /\ c * Mtu + size = 0 + size
      BY <2>2, <3>1
    <3> HIDE DEF number
    <3>4. Opened(p) = [to |-> TRUE, tag |-> tag, type |-> SpdmType, packets |-> 0, bytes |-> 0,
                       next |-> number, complete |-> FALSE]
      BY <1>3 DEF Opened
    <3>5. Extended([to |-> TRUE, tag |-> tag, type |-> SpdmType, packets |-> 0, bytes |-> 0,
                    next |-> number, complete |-> FALSE], p) =
            [to |-> TRUE, tag |-> tag, type |-> SpdmType, packets |-> 0 + 1,
             bytes |-> 0 + size, next |-> (p.seq + 1) % SeqModulus, complete |-> p.eom]
      BY <1>3, Zenon DEF Extended
    <3>6. Opened(p).next = number
      BY <1>3, Zenon DEF Opened
    <3> QED BY <1>3, <2>1, <2>2, <3>3, <3>4, <3>5, <3>6, Zenon
  <2>3. CASE ~first
    <3>1. Extended(half, p) =
            [to |-> TRUE, tag |-> tag, type |-> SpdmType, packets |-> c + 1,
             bytes |-> c * Mtu + size, next |-> (p.seq + 1) % SeqModulus, complete |-> p.eom]
      BY <1>3, Zenon DEF Extended
    <3> HIDE DEF first
    <3> QED BY <1>3, <2>1, <2>3, <3>1, Zenon
  <2> QED BY <2>2, <2>3
<1>5. same = (IF first THEN {} ELSE {half})
  <2>1. Begun(c) = IF first THEN {} ELSE {half}
    BY Zenon DEF Begun
  <2>2. half.to = TRUE /\ half.tag = tag
    BY Zenon
  <2> HIDE DEF half, first
  <2> QED BY <1>3, <2>1, <2>2 DEF Continued
<1>6. g.open \ same = {}
  <2>1. g.open = IF first THEN {} ELSE {half}
    BY Zenon DEF Begun
  <2> HIDE DEF half, first, same
  <2> QED BY <1>5, <2>1
<1>7. m = Chosen(p, same)
  <2> HIDE DEF half, first, same
  <2> QED BY <1>3, <1>5 DEF Chosen
<1>8. /\ r.open = (IF last THEN {} ELSE {then})
      /\ r.messages = (IF last THEN Append(g.messages, then) ELSE g.messages)
      /\ r.problems = {}
  <2>0. ~ (~p.som /\ same = {})
    <3> HIDE DEF half, first
    <3> QED BY <1>3, <1>5
  <2>2. ~ (p.som /\ same # {})
    <3> HIDE DEF half, first
    <3> QED BY <1>3, <1>5
  <2> HIDE DEF m, same, then, last, half, first
  <2>3. Stepped(g, p, same, m, r)
    <3>1. r = GroupPacket(g, p) /\ same = Continued(g, p)
      BY Zenon DEF p, same
    <3> QED BY <1>7, <2>0, <3>1, GroupPacketIs, Zenon
  <2>4. r.open = IF last THEN {} ELSE {then}
    BY <1>3, <1>4, <1>6, <2>3 DEF Stepped
  <2>5. r.messages = IF last THEN Append(g.messages, then) ELSE g.messages
    BY <1>3, <1>4, <2>3 DEF Stepped
  <2>6. r.problems = {}
    BY <1>3, <1>4, <2>2, <2>3 DEF Stepped
  <2> QED BY <2>4, <2>5, <2>6, Zenon
<1>9. CASE last
  <2>1. c = n - 1 /\ ~ (c + 1 < n)
    BY <1>1, <1>9
  <2>2. size = bytes + TypeBytes - c * Mtu
    BY <2>1 DEF size
  <2>3. c * Mtu \in Nat
    BY <1>1, NextSize, LengthsAssumption
  <2>4. c * Mtu + size = bytes + TypeBytes
    BY <2>2, <2>3 DEF TypeBytes
  <2>5. then = Whole(bytes, n)
    BY <1>9, <2>4 DEF Whole
  <2> HIDE DEF then
  <2> QED BY <1>8, <1>9, <2>5 DEF n, Crossed
<1>10. CASE ~last
  <2>1. c + 1 < n /\ c + 1 # 0
    BY <1>1, <1>10
  <2>2. size = Mtu
    BY <2>1 DEF size
  <2>3. c * Mtu + size = (c + 1) * Mtu
    BY <1>1, <2>2, NextSize, LengthsAssumption
  <2>4. Begun(c + 1) = {then}
    <3>1. then = [to |-> TRUE, tag |-> tag, type |-> SpdmType, packets |-> c + 1,
                  bytes |-> (c + 1) * Mtu, next |-> (c + 1) % SeqModulus, complete |-> FALSE]
      BY <1>10, <2>3, Zenon
    <3> HIDE DEF then
    <3> QED BY <2>1, <3>1, Zenon DEF Begun
  <2> HIDE DEF then
  <2> QED BY <1>8, <1>10, <2>4 DEF n, Crossed
<1> QED BY <1>9, <1>10

\* An acknowledgement is a message of its own.
Acknowledged ==
    [to |-> FALSE, tag |-> tag, type |-> SpdmType, packets |-> 1,
     bytes |-> AckBytes + TypeBytes, next |-> 1, complete |-> TRUE]

LEMMA AckPackets == MctpPackets(AckBytes, Mtu) = 1
<1> DEFINE b == AckBytes + TypeBytes
<1>1. b \in Nat /\ 0 < b /\ b <= Mtu /\ Mtu \in Nat
  BY LengthsAssumption DEF TypeBytes
<1> HIDE DEF b
<1>2. Mtu <= b + Mtu - 1 /\ b + Mtu - 1 < 2 * Mtu
  BY <1>1
<1>3. (b + Mtu - 1) \div Mtu = 1
  BY <1>1, <1>2
<1> QED BY <1>3 DEF MctpPackets, Ceil, b

LEMMA FragmentFirst ==
    ASSUME NEW to \in BOOLEAN, NEW t \in Tags, NEW bytes \in Nat, bytes > 0,
           NEW f, f = Fragment(to, t, SpdmType, bytes, Mtu)
    PROVE  Len(f) = MctpPackets(bytes, Mtu) /\ f[1] = Numbered(to, t, bytes, Len(f), 1)
<1>1. f \in Seq(Packet) /\ Len(f) > 0
  BY FragmentType, Zenon
<1> DEFINE i == 1
<1>2. i \in 1 .. Len(f)
  BY <1>1
<1> HIDE DEF i
<1>3. Len(f) = MctpPackets(bytes, Mtu) /\ f[i] = Numbered(to, t, bytes, Len(f), i)
  BY <1>2, FragmentAt, Zenon
<1> QED BY <1>3 DEF i

LEMMA GroupAck ==
    ASSUME tag \in Tags, NEW g \in Groups, g.open = {}, g.problems = {},
           NEW r, r = GroupPacket(g, Fragment(FALSE, tag, SpdmType, AckBytes, Mtu)[1])
    PROVE  /\ r.problems = {} /\ r.open = {}
           /\ r.messages = Append(g.messages, Acknowledged)
<1> DEFINE f == Fragment(FALSE, tag, SpdmType, AckBytes, Mtu)
           p == f[1]
           m == Opened(p)
           s == Continued(g, p)
<1>1. Len(f) > 0 /\ f \in Seq(Packet) /\ AckBytes \in Nat /\ AckBytes > 0
  BY FragmentType, LengthsAssumption, Zenon
<1>3. Len(f) = 1 /\ p = Numbered(FALSE, tag, AckBytes, Len(f), 1)
  <2>1. /\ Len(f) = MctpPackets(AckBytes, Mtu)
        /\ f[1] = Numbered(FALSE, tag, AckBytes, Len(f), 1)
    BY FragmentFirst, LengthsAssumption, Zenon
  <2> QED BY <2>1, AckPackets, Zenon
<1>4. p = [to |-> FALSE, tag |-> tag, type |-> SpdmType, som |-> TRUE, eom |-> TRUE,
           seq |-> 0, size |-> AckBytes + TypeBytes]
  <2>1. p = Numbered(FALSE, tag, AckBytes, 1, 1)
    BY <1>3, Zenon
  <2>2. /\ (1 - 1) % SeqModulus = 0 /\ ~ (1 < 1)
        /\ AckBytes + TypeBytes - (1 - 1) * Mtu = AckBytes + TypeBytes
    BY LengthsAssumption DEF SeqModulus, TypeBytes
  <2> QED BY <2>1, <2>2 DEF Numbered
<1>0. r = GroupPacket(g, p)
  OBVIOUS
<1> HIDE DEF f, p
<1>5. s = {}
  BY DEF Continued
<1>6. /\ p.to = FALSE /\ p.tag = tag /\ p.type = SpdmType /\ p.som = TRUE /\ p.eom = TRUE
      /\ p.seq = 0 /\ p.size = AckBytes + TypeBytes
  BY <1>4
<1>7. m = [to |-> FALSE, tag |-> tag, type |-> SpdmType, packets |-> 0, bytes |-> 0,
           next |-> 0, complete |-> FALSE]
  BY <1>6 DEF Opened
<1>8. Extended(m, p) = Acknowledged
  <2>1. 0 + 1 = 1 /\ (0 + 1) % SeqModulus = 1 /\ 0 + (AckBytes + TypeBytes) = AckBytes + TypeBytes
    BY <1>1 DEF SeqModulus, TypeBytes
  <2> HIDE DEF m
  <2>2. Extended(m, p) =
          [to |-> FALSE, tag |-> tag, type |-> SpdmType, packets |-> 0 + 1,
           bytes |-> 0 + (AckBytes + TypeBytes), next |-> (0 + 1) % SeqModulus,
           complete |-> TRUE]
    BY <1>6, <1>7, Zenon DEF Extended
  <2> QED BY <2>1, <2>2, Zenon DEF Acknowledged
<1>9. m = Chosen(p, s) /\ ~ (~p.som /\ s = {})
  BY <1>6 DEF Chosen
<1>10. Stepped(g, p, s, m, r)
  <2>1. s = Continued(g, p)
    OBVIOUS
  <2> HIDE DEF s, m
  <2> QED BY <1>0, <1>9, <2>1, GroupPacketIs, Zenon
<1>11. m.next = 0
  BY <1>7
<1> HIDE DEF s, m
<1> QED BY <1>5, <1>6, <1>8, <1>10, <1>11 DEF Stepped

\* The list of the exchanges grows by the message that is next.
LEMMA ListedMore ==
    ASSUME NEW ms \in Seq(Message), NEW n \in Nat, Listed(ms, n), NEW m \in Message,
           m.to = ((n + 1) % 2 = 1), m.type = SpdmType,
           m.bytes = TypeBytes
             + (IF (n + 1) % 2 = 1 THEN Lengths[((n + 1) + 1) \div 2] ELSE AckBytes),
           Agrees(m, Mtu)
    PROVE  Listed(Append(ms, m), n + 1)
<1> DEFINE all == Append(ms, m)
           Is(x, j) == /\ x.to = (j % 2 = 1) /\ x.type = SpdmType
                       /\ x.bytes = TypeBytes
                            + (IF j % 2 = 1 THEN Lengths[(j + 1) \div 2] ELSE AckBytes)
                       /\ Agrees(x, Mtu)
           k == n + 1
<1>1. Len(ms) = n /\ \A j \in 1 .. n : Is(ms[j], j)
  BY DEF Listed
<1>2. Is(m, k)
  BY Zenon
<1>3. Len(all) = k /\ all[k] = m /\ \A j \in 1 .. n : all[j] = ms[j]
  BY <1>1
<1>4. \A j \in 1 .. k : j = k \/ j \in 1 .. n
  OBVIOUS
<1> HIDE DEF Is, k, all
<1>5. \A j \in 1 .. k : Is(all[j], j)
  BY <1>1, <1>2, <1>3, <1>4
<1> QED BY <1>3, <1>5, Zenon DEF Listed, Is, k, all

\* The sizes of what an exchange lists are those its packets are counted by.
LEMMA WholeAgrees ==
    ASSUME tag \in Tags, NEW bytes \in Nat, NEW n \in Nat, n = MctpPackets(bytes, Mtu)
    PROVE  /\ Whole(bytes, n) \in Message /\ Agrees(Whole(bytes, n), Mtu)
           /\ Whole(bytes, n).to = TRUE /\ Whole(bytes, n).type = SpdmType
           /\ Whole(bytes, n).bytes = bytes + TypeBytes
<1>1. n % SeqModulus \in Int /\ bytes + TypeBytes \in Int
      /\ (bytes + TypeBytes) - TypeBytes = bytes
  BY DEF SeqModulus, TypeBytes
<1>2. /\ Whole(bytes, n).complete = TRUE /\ Whole(bytes, n).packets = n
      /\ Whole(bytes, n).bytes = bytes + TypeBytes
      /\ Whole(bytes, n).to = TRUE /\ Whole(bytes, n).type = SpdmType
  BY DEF Whole
<1>3. Whole(bytes, n) \in Message
  BY <1>1 DEF Whole, Message, SpdmType
<1> QED BY <1>1, <1>2, <1>3 DEF Agrees

LEMMA AcknowledgedAgrees ==
    ASSUME tag \in Tags
    PROVE  /\ Acknowledged \in Message /\ Agrees(Acknowledged, Mtu)
           /\ Acknowledged.to = FALSE /\ Acknowledged.type = SpdmType
           /\ Acknowledged.bytes = AckBytes + TypeBytes
<1>1. AckBytes + TypeBytes \in Int /\ (AckBytes + TypeBytes) - TypeBytes = AckBytes
  BY LengthsAssumption DEF TypeBytes
<1>2. /\ Acknowledged.complete = TRUE /\ Acknowledged.packets = 1
      /\ Acknowledged.bytes = AckBytes + TypeBytes
      /\ Acknowledged.to = FALSE /\ Acknowledged.type = SpdmType
  BY DEF Acknowledged
<1>3. Acknowledged \in Message
  BY <1>1 DEF Acknowledged, Message, SpdmType
<1> QED BY <1>1, <1>2, <1>3, AckPackets DEF Agrees

-----------------------------------------------------------------------------
\* What has crossed groups to the exchanges so far.
LEMMA InitWire == Init => WireInv
<1> SUFFICES ASSUME Init PROVE WireInv
  OBVIOUS
<1>1. wire = <<>> /\ outA = <<>> /\ rp = "idle" /\ sentCount = 0
  BY DEF Init
<1>2. /\ Grouped(wire).problems = {} /\ Grouped(wire).open = {}
      /\ Grouped(wire).messages = <<>>
  BY <1>1, GroupedEmpty DEF NoMessages
<1>3. Due = 0
  <2>1. rp # "wait" /\ 2 * 0 - 0 = 0
    BY <1>1
  <2> QED BY <1>1, <2>1, Zenon DEF Due
<1>4. Listed(<<>>, 0)
  BY DEF Listed
<1> QED BY <1>1, <1>2, <1>3, <1>4 DEF WireInv

\* Nothing the grouping speaks of changes.
LEMMA WireKept ==
    WireInv /\ UNCHANGED <<strays, rp, wire, outA, sentCount, tag, inA>> => WireInv'
BY DEF WireInv, Due, Leaving, Begun

\* A packet of the message under way crosses.
LEMMA PacketWire ==
    ASSUME TypeOK, QuietInv, ExchangeInv, WireInv, PacketToSink,
           strays = Strays, rp # "died"
    PROVE  WireInv'
<1> DEFINE bytes == Lengths[sentCount]
           f == Fragment(TRUE, tag, SpdmType, bytes, Mtu)
           n == Len(f)
           g == Grouped(wire)
           p == Head(outA)
           r == GroupPacket(g, p)
<1>1. /\ outA \in Seq(Packet) /\ outA # <<>> /\ outA' = Tail(outA) /\ Cross(p)
      /\ UNCHANGED <<strays, rp, sentCount, tag, inA, sunk>>
  BY DEF PacketToSink, TypeOK, rpVars
<1>2. /\ rp = "wait" /\ sentCount \in 1 .. Len(Lengths) /\ inA = None
  <2>0. rp \in {"idle", "send", "wait", "ok", "mismatch"}
    <3>1. rp \in {"idle", "send", "wait"} \cup ReplayExits
      BY Zenon DEF TypeOK
    <3> QED BY <3>1
  <2>1. rp = "wait"
    BY <1>1, <2>0 DEF ExchangeInv, QuietInv
  <2>2. sentCount > 0 /\ sentCount \in 0 .. Len(Lengths) /\ Len(Lengths) \in Nat
    BY <2>1, LengthsAssumption DEF ExchangeInv, TypeOK
  <2>3. Len(sunk) # sentCount
    BY <1>1, <2>1 DEF ExchangeInv
  <2>4. Len(sunk) < sentCount
    BY <2>1, <2>2, <2>3 DEF ExchangeInv
  <2> QED BY <2>1, <2>2, <2>4 DEF ExchangeInv
<1>3. bytes \in Nat /\ bytes > 0 /\ tag \in Tags
  BY <1>2, LengthsAssumption DEF TypeOK
<1>4. f \in Seq(Packet) /\ n > 0 /\ n \in Nat
  <2>1. f \in Seq(Packet) /\ n > 0
    BY <1>3, FragmentType, Zenon
  <2> HIDE DEF f
  <2> QED BY <2>1
<1>5. g.problems = {} /\ Leaving /\ Listed(g.messages, Due)
  BY <1>1 DEF WireInv
<1>6. PICK c \in 0 .. n - 1 : outA = SubSeq(f, c + 1, n) /\ g.open = Begun(c)
  BY <1>5 DEF Leaving
<1>7. /\ p = f[c + 1] /\ Len(outA) = n - c /\ outA' = SubSeq(f, c + 2, n)
      /\ (outA' = <<>> <=> c + 1 = n)
  <2> HIDE DEF f, n, g
  <2>0. c \in Nat /\ c + 1 \in 1 .. n /\ c + 1 <= n /\ n = Len(f)
    BY <1>4, <1>6 DEF n
  <2>1. Len(outA) = n - c /\ \A i \in 1 .. n - c : outA[i] = f[c + i]
    BY <1>4, <1>6, <2>0
  <2>2. p = f[c + 1]
    BY <1>1, <2>0, <2>1
  <2>3. outA' \in Seq(Packet) /\ Len(outA') = n - c - 1
        /\ \A i \in 1 .. n - c - 1 : outA'[i] = f[c + 1 + i]
    BY <1>1, <2>0, <2>1
  <2> DEFINE rest == SubSeq(f, c + 2, n)
  <2>4. rest \in Seq(Packet) /\ Len(rest) = n - c - 1
        /\ \A i \in 1 .. n - c - 1 : rest[i] = f[c + 1 + i]
    BY <1>4, <2>0
  <2> HIDE DEF rest
  <2>5. outA' = rest
    BY <2>3, <2>4
  <2>6. outA' = <<>> <=> c + 1 = n
    BY <2>0, <2>3
  <2> QED BY <2>1, <2>2, <2>5, <2>6 DEF rest
<1>8. wire \in Seq(Packet) /\ p \in Packet /\ wire' = Append(wire, p)
  BY <1>1 DEF TypeOK, Cross
<1>9. g \in Groups /\ Grouped(wire') = r
  BY <1>8, GroupedMore
<1>10. /\ r.problems = {}
       /\ c + 1 # n => r.open = Begun(c + 1) /\ r.messages = g.messages
       /\ c + 1 = n => r.open = {} /\ r.messages = Append(g.messages, Whole(bytes, n))
  <2>1. r = GroupPacket(g, f[c + 1])
    BY <1>7
  <2>2. f = Fragment(TRUE, tag, SpdmType, bytes, Mtu)
    OBVIOUS
  <2>3. g.open = Begun(c) /\ g.problems = {} /\ g \in Groups /\ c \in 0 .. Len(f) - 1
    BY <1>5, <1>6, <1>9, Zenon
  <2> HIDE DEF g, r, f, bytes
  <2>4. Crossed(bytes, n, c, g, r)
    BY <1>3, <2>1, <2>2, <2>3, GroupNext, Zenon
  <2> QED BY <2>4, Zenon DEF Crossed
<1>11. Due = 2 * sentCount - 2 /\ Due' = IF outA' = <<>> THEN 2 * sentCount - 1 ELSE Due
  BY <1>1, <1>2 DEF Due
<1>12. CASE c + 1 = n
  <2> DEFINE m == Whole(bytes, n)
             due == 2 * sentCount - 2
  <2>1. n = MctpPackets(bytes, Mtu)
    <3>1. f = Fragment(TRUE, tag, SpdmType, bytes, Mtu) /\ TRUE \in BOOLEAN
      OBVIOUS
    <3> HIDE DEF f, bytes
    <3> QED BY <1>3, <3>1, FragmentFirst, Zenon
  <2>2. m \in Message /\ Agrees(m, Mtu) /\ m.to = TRUE /\ m.type = SpdmType
        /\ m.bytes = bytes + TypeBytes
    BY <1>3, <1>4, <2>1, WholeAgrees, Zenon
  <2>3. due \in Nat /\ (due + 1) % 2 = 1 /\ ((due + 1) + 1) \div 2 = sentCount
        /\ due + 1 = 2 * sentCount - 1
    BY <1>2
  <2>4. m.bytes = TypeBytes
          + (IF (due + 1) % 2 = 1 THEN Lengths[((due + 1) + 1) \div 2] ELSE AckBytes)
    <3>1. m.bytes = TypeBytes + Lengths[sentCount]
      <4> HIDE DEF m
      <4> QED BY <1>3, <2>2 DEF TypeBytes
    <3> HIDE DEF m, due
    <3> QED BY <2>3, <3>1, Zenon
  <2>5. m.to = ((due + 1) % 2 = 1)
    BY <2>2, <2>3
  <2>6. g.messages \in Seq(Message)
    BY <1>9 DEF Groups
  <2> HIDE DEF m, due, g, bytes, n
  <2>7. Listed(Append(g.messages, m), due + 1)
    BY <1>5, <1>11, <2>2, <2>3, <2>4, <2>5, <2>6, ListedMore, Zenon DEF due
  <2>8. outA' = <<>>
    BY <1>7, <1>12
  <2>9. Due' = due + 1
    BY <1>11, <2>3, <2>8
  <2>10. Listed(r.messages, Due')
    BY <1>10, <1>12, <2>7, <2>9, Zenon DEF m
  <2>11. Listed(Grouped(wire).messages, Due)'
    BY <1>9, <2>10 DEF Listed
  <2> QED BY <1>1, <1>2, <1>9, <1>10, <1>12, <2>8, <2>11 DEF WireInv
<1>13. CASE c + 1 # n
  <2>1. outA' # <<>> /\ Due' = Due
    BY <1>7, <1>11, <1>13
  <2>2. Leaving'
    <3>1. c + 1 \in 0 .. n - 1
      <4> HIDE DEF n
      <4> QED BY <1>4, <1>6, <1>13
    <3>2. f' = f /\ n' = n
      BY <1>1
    <3>3. Begun(c + 1)' = Begun(c + 1)
      BY <1>1 DEF Begun
    <3>4. (c + 1) + 1 = c + 2
      BY <1>4, <1>6
    <3>5. outA' = SubSeq(f', (c + 1) + 1, n') /\ Grouped(wire)'.open = Begun(c + 1)'
      BY <1>7, <1>9, <1>10, <1>13, <3>2, <3>3, <3>4
    <3> QED BY <3>1, <3>2, <3>5 DEF Leaving
  <2>3. Listed(Grouped(wire).messages, Due)'
    BY <1>5, <1>9, <1>10, <1>13, <2>1 DEF Listed
  <2> QED BY <1>1, <1>2, <1>9, <1>10, <1>13, <2>1, <2>2, <2>3 DEF WireInv
<1> QED BY <1>12, <1>13

\* An acknowledgement crosses.
LEMMA AckWire ==
    ASSUME TypeOK, QuietInv, ExchangeInv, WireInv, AckArrives,
           strays = Strays, rp # "died"
    PROVE  WireInv'
<1> DEFINE g == Grouped(wire)
           p == Fragment(FALSE, tag, SpdmType, AckBytes, Mtu)[1]
           r == GroupPacket(g, p)
           due == 2 * sentCount - 1
<1>1. /\ ackB # None /\ Cross(p) /\ UNCHANGED <<strays, rp, outA, sentCount, tag>>
      /\ inA' = IF rp = "wait" THEN ackB ELSE inA
  BY DEF AckArrives
<1>2. rp = "wait" /\ outA = <<>> /\ inA = None /\ inA' # None /\ sentCount \in Nat
      /\ sentCount > 0
  <2>1. rp \in {"idle", "send", "wait", "ok", "mismatch"} /\ sentCount \in 0 .. Len(Lengths)
        /\ Len(Lengths) \in Nat
    <3>1. rp \in {"idle", "send", "wait"} \cup ReplayExits /\ sentCount \in 0 .. Len(Lengths)
      BY Zenon DEF TypeOK
    <3> QED BY <3>1, LengthsAssumption
  <2>2. rp = "wait"
    BY <1>1, <2>1 DEF ExchangeInv, QuietInv
  <2>3. sentCount > 0 /\ Len(sunk) \in {sentCount - 1, sentCount}
        /\ (Len(sunk) < sentCount => ackB = None)
        /\ (Len(sunk) = sentCount => outA = <<>> /\ (ackB = None \/ inA = None))
    BY <2>2 DEF ExchangeInv
  <2> QED BY <1>1, <2>1, <2>2, <2>3
<1>3. g.problems = {} /\ g.open = {} /\ Listed(g.messages, Due)
  BY <1>2 DEF WireInv
<1>4. wire \in Seq(Packet) /\ p \in Packet /\ tag \in Tags /\ wire' = Append(wire, p)
  BY <1>1, AckType DEF TypeOK, Cross
<1>5. g \in Groups /\ Grouped(wire') = r
  BY <1>4, GroupedMore
<1>6. r.problems = {} /\ r.open = {} /\ r.messages = Append(g.messages, Acknowledged)
  <2>1. r = GroupPacket(g, Fragment(FALSE, tag, SpdmType, AckBytes, Mtu)[1])
    OBVIOUS
  <2> HIDE DEF g, r, p
  <2> QED BY <1>3, <1>4, <1>5, <2>1, GroupAck, Zenon
<1>7. Due = due /\ Due' = due + 1 /\ due \in Nat /\ (due + 1) % 2 = 0
  <2>1. due \in Nat /\ due + 1 = 2 * sentCount /\ 2 * sentCount - 0 = 2 * sentCount
        /\ (2 * sentCount) % 2 = 0
    BY <1>2
  <2>2. Due = due /\ Due' = 2 * sentCount - 0
    BY <1>1, <1>2, Zenon DEF Due
  <2> QED BY <2>1, <2>2
<1>8. Listed(r.messages, Due')
  <2> DEFINE m == Acknowledged
  <2>1. m \in Message /\ Agrees(m, Mtu) /\ m.to = FALSE /\ m.type = SpdmType
        /\ m.bytes = AckBytes + TypeBytes
    BY <1>4, AcknowledgedAgrees
  <2>2. g.messages \in Seq(Message)
    BY <1>5 DEF Groups
  <2> HIDE DEF m, due, g
  <2>3. m.to = ((due + 1) % 2 = 1)
    <3>1. ~ ((due + 1) % 2 = 1)
      BY <1>7
    <3> QED BY <2>1, <3>1, Zenon
  <2>4. m.bytes = TypeBytes
          + (IF (due + 1) % 2 = 1 THEN Lengths[((due + 1) + 1) \div 2] ELSE AckBytes)
    BY <1>7, <2>1, LengthsAssumption DEF TypeBytes
  <2>5. Listed(Append(g.messages, m), due + 1)
    BY <1>3, <1>7, <2>1, <2>2, <2>3, <2>4, ListedMore, Zenon
  <2> QED BY <1>6, <1>7, <2>5, Zenon DEF m
<1>9. Listed(Grouped(wire).messages, Due)'
  BY <1>5, <1>8 DEF Listed
<1> QED BY <1>1, <1>2, <1>5, <1>6, <1>9 DEF WireInv

\* Replay sends the next message, or ends.
LEMMA SendWire ==
    ASSUME TypeOK, ExchangeInv, WireInv, ReplaySend, strays = Strays
    PROVE  WireInv'
<1>1. /\ rp = "send" /\ UNCHANGED <<strays, wire, inA>> /\ outA = <<>> /\ inA = None
      /\ sentCount \in 0 .. Len(Lengths) /\ Len(Lengths) \in Nat
  BY LengthsAssumption DEF ReplaySend, ExchangeInv, TypeOK, tapVars
<1>2. /\ Grouped(wire).problems = {} /\ Grouped(wire).open = {}
      /\ Listed(Grouped(wire).messages, 2 * sentCount)
  <2>1. Due = 2 * sentCount
    <3>1. Due = 2 * sentCount - 0
      BY <1>1 DEF Due
    <3> QED BY <1>1, <3>1
  <2> QED BY <1>1, <2>1 DEF WireInv
<1>3. CASE sentCount = Len(Lengths)
  <2>1. UNCHANGED <<sentCount, tag, outA>> /\ rp' \in {"ok", "mismatch"}
    BY <1>1, <1>3 DEF ReplaySend, ReplayEnd
  <2>2. Due' = 2 * sentCount
    <3>1. Due' = 2 * sentCount - 0
      BY <2>1 DEF Due
    <3> QED BY <1>1, <3>1
  <2>3. Listed(Grouped(wire).messages, Due)'
    BY <1>1, <1>2, <2>2 DEF Listed
  <2> QED BY <1>1, <1>2, <2>1, <2>3 DEF WireInv
<1>4. CASE sentCount # Len(Lengths)
  <2> DEFINE f == Fragment(TRUE, tag', SpdmType, Lengths[sentCount'], Mtu)
  <2>1. sentCount' = sentCount + 1 /\ tag' \in Tags /\ rp' = "wait" /\ outA' = f
    BY <1>1, <1>4 DEF ReplaySend
  <2>2. sentCount' \in 1 .. Len(Lengths)
    BY <1>1, <1>4, <2>1
  <2>3. Lengths[sentCount'] \in Nat /\ Lengths[sentCount'] > 0
    BY <2>2, LengthsAssumption
  <2>4. f \in Seq(Packet) /\ Len(f) > 0
    BY <2>1, <2>3, FragmentType, Zenon
  <2>5. outA' # <<>> /\ outA' = SubSeq(f, 0 + 1, Len(f)) /\ 0 \in 0 .. Len(f) - 1
    <3> HIDE DEF f
    <3> QED BY <2>1, <2>4
  <2>6. Leaving'
    <3>1. Begun(0)' = {}
      BY DEF Begun
    <3>2. Grouped(wire)'.open = Begun(0)'
      BY <1>1, <1>2, <3>1
    <3> HIDE DEF f
    <3> QED BY <2>5, <3>2 DEF Leaving, f
  <2>7. Due' = 2 * sentCount
    <3>1. Due' = 2 * (sentCount + 1) - 2
      BY <1>1, <2>1, <2>5 DEF Due
    <3> QED BY <1>1, <3>1
  <2>8. Listed(Grouped(wire).messages, Due)'
    BY <1>1, <1>2, <2>7 DEF Listed
  <2> QED BY <1>1, <1>2, <2>1, <2>5, <2>6, <2>8 DEF WireInv
<1> QED BY <1>3, <1>4

LEMMA StepWire ==
    TypeOK /\ QuietInv /\ ExchangeInv /\ WireInv /\ TimelyInv /\ [Next]_vars => WireInv'
<1> SUFFICES ASSUME TypeOK, QuietInv, ExchangeInv, WireInv, TimelyInv, [Next]_vars,
                    strays' = Strays, rp' # "died"
             PROVE  WireInv'
  BY DEF WireInv
<1> USE DEF orcVars, capVars, tapVars, netVars, rpVars
<1>1. CASE CaptureStep
  <2>1. UNCHANGED <<strays, rp, wire, outA, sentCount, tag, inA>>
    BY <1>1 DEF CaptureStep, CapStep, Untouched, Bind, BindFails, CountBefore, WriteReady,
       Open, WriteFails, LoopEnds, Selected, DrainOne, Drained, CountDrops, Close, CountAfter
  <2> QED BY <2>1, WireKept
<1>2. CASE OrcMove /\ ~OrcReady
  BY <1>2, WireKept DEF OrcMove, OrcStart, OrcFails, OrcStops, OrcJoins, OrcStep
<1>3. CASE OrcReady
  <2>1. /\ rp = "idle" /\ rp' = "send" /\ outA = <<>>
        /\ UNCHANGED <<strays, wire, outA, sentCount, tag, inA>>
    BY <1>3 DEF OrcReady, OrcStep, QuietInv
  <2>2. Due' = Due
    BY <2>1 DEF Due
  <2> QED BY <2>1, <2>2 DEF WireInv, Listed
<1>4. CASE ReplaySend
  <2>1. strays = Strays
    BY <1>4 DEF ReplaySend
  <2> QED BY <1>4, <2>1, SendWire
<1>5. CASE ReplayReceive
  <2>1. /\ rp = "wait" /\ rp' = "send" /\ inA # None /\ inA' = None
        /\ UNCHANGED <<strays, wire, outA, sentCount, tag>>
    BY <1>5 DEF ReplayReceive
  <2>2. outA = <<>>
    BY <2>1 DEF ExchangeInv, TypeOK
  <2>3. Due' = Due
    BY <2>1 DEF Due
  <2> QED BY <2>1, <2>2, <2>3 DEF WireInv, Listed
<1>6. CASE ReplayDies
  BY <1>6 DEF ReplayDies
<1>7. CASE SinkAcks \/ AckLost \/ UNCHANGED vars
  BY <1>7, WireKept DEF SinkAcks, AckLost, vars
<1>8. CASE PacketToSink
  <2>1. strays = Strays /\ rp # "died"
    BY <1>8 DEF PacketToSink
  <2> QED BY <1>8, <2>1, PacketWire
<1>9. CASE AckArrives
  <2>1. strays = Strays /\ rp # "died"
    BY <1>9 DEF AckArrives
  <2> QED BY <1>9, <2>1, AckWire
<1>10. CASE Stray
  BY <1>10, CaptureAssumption DEF Stray, TimelyInv, TypeOK
<1> QED BY <1>1, <1>2, <1>3, <1>4, <1>5, <1>6, <1>7, <1>8, <1>9, <1>10 DEF Next, OrcMove

-----------------------------------------------------------------------------
\* Nothing crosses before the first reading nor after replay has ended.
LEMMA InitTimely == Init => TimelyInv
BY CaptureAssumption DEF Init, TimelyInv

LEMMA StepTimely ==
    TypeOK /\ QuietInv /\ ExchangeInv /\ WireInv /\ TimelyInv /\ [Next]_vars => TimelyInv'
<1> SUFFICES ASSUME TypeOK, QuietInv, ExchangeInv, WireInv, TimelyInv, [Next]_vars
             PROVE  TimelyInv'
  OBVIOUS
<1> USE DEF TimelyInv, orcVars, capVars, tapVars, netVars, rpVars
<1>1. CASE CaptureStep
  <2> USE DEF CapStep, Untouched
  <2>1. /\ UNCHANGED <<strays, stop, rp, wire>> /\ expired' \in {expired, TRUE}
        /\ expired => expired'
    BY <1>1 DEF CaptureStep, Bind, BindFails, CountBefore, WriteReady,
       Open, WriteFails, LoopEnds, Selected, DrainOne, Drained, CountDrops, Close, CountAfter,
       TypeOK
  <2>2. cap' \in {"over", "counting", "closed", "ok", "refused"} => stop \/ expired'
    BY <1>1 DEF CaptureStep, Bind, BindFails, CountBefore, WriteReady,
       Open, WriteFails, LoopEnds, Selected, DrainOne, Drained, CountDrops, Close, CountAfter
  <2>3. cap \in {"none", "bound"} /\ strays = Strays => Len(wire) = 0
    BY DEF QuietInv, WireInv
  <2>4. strays = Strays => boundAt' = 0 /\ before' \in {0, Unreadable}
    BY <1>1, <2>3 DEF CaptureStep, Bind, BindFails, CountBefore, WriteReady, Readings,
       Open, WriteFails, LoopEnds, Selected, DrainOne, Drained, CountDrops, Close, CountAfter
  <2>5. cap' = "ok" => after' \in {Len(wire), Unreadable}
    BY <1>1 DEF CaptureStep, Bind, BindFails, CountBefore, WriteReady, Readings,
       Open, WriteFails, LoopEnds, Selected, DrainOne, Drained, CountDrops, Close, CountAfter
  <2> QED BY <2>1, <2>2, <2>4, <2>5
<1>2. CASE OrcMove
  BY <1>2 DEF OrcMove, OrcStart, OrcReady, OrcFails, OrcStops, OrcJoins, OrcStep, QuietInv
<1>3. CASE ReplaySend \/ ReplayReceive \/ ReplayDies
  <2>1. UNCHANGED <<orcVars, capVars, tapVars, strays>> /\ rp \notin ReplayExits
    BY <1>3 DEF ReplaySend, ReplayReceive, ReplayDies
  <2> QED BY <2>1
<1>4. CASE SinkAcks \/ AckLost \/ UNCHANGED vars
  BY <1>4 DEF SinkAcks, AckLost, vars
<1>5. CASE PacketToSink
  <2>1. rp # "ok" /\ UNCHANGED <<orcVars, capVars, strays, rp>>
    BY <1>5 DEF PacketToSink, ExchangeInv
  <2> QED BY <2>1
<1>6. CASE AckArrives
  <2>1. rp # "ok" /\ UNCHANGED <<orcVars, capVars, strays, rp>>
    BY <1>6 DEF AckArrives, ExchangeInv
  <2> QED BY <2>1
<1>7. CASE Stray
  <2>1. strays' = strays - 1 /\ strays \in Nat /\ Strays \in Nat
        /\ UNCHANGED <<orcVars, capVars, rp>>
    BY <1>7, CaptureAssumption DEF Stray, TypeOK
  <2>2. strays' <= Strays /\ strays' # Strays
    BY <2>1
  <2> QED BY <2>1, <2>2
<1> QED BY <1>1, <1>2, <1>3, <1>4, <1>5, <1>6, <1>7 DEF Next

-----------------------------------------------------------------------------
\* A capture of everything, in order, is what has crossed.
LEMMA CapturedAll ==
    ASSUME TypeOK, pcap = 1 .. Len(wire)
    PROVE  Captured = wire
<1> DEFINE n == Len(wire)
           upTo(i) == {j \in pcap : j <= i}
           at(k) == CHOOSE i \in pcap : Cardinality(upTo(i)) = k
<1>1. n \in Nat /\ wire \in Seq(Packet) /\ pcap = 1 .. n
  BY DEF TypeOK
<1>2. wire = [k \in 1 .. n |-> wire[k]]
  BY <1>1
<1> HIDE DEF n
<1>3. Cardinality(pcap) = n
  <2>1. Cardinality(1 .. n) = n
    BY <1>1, FS_Interval
  <2> QED BY <1>1, <2>1
<1>4. ASSUME NEW i \in 1 .. n PROVE Cardinality(upTo(i)) = i
  <2>1. upTo(i) = 1 .. i
    BY <1>1
  <2>2. Cardinality(1 .. i) = i
    BY <1>1, FS_Interval
  <2> QED BY <2>1, <2>2
<1>5. ASSUME NEW k \in 1 .. n PROVE at(k) = k
  <2>1. k \in pcap /\ Cardinality(upTo(k)) = k
    BY <1>1, <1>4
  <2> HIDE DEF upTo
  <2>2. at(k) \in pcap /\ Cardinality(upTo(at(k))) = k
    BY <2>1
  <2> HIDE DEF at
  <2>3. Cardinality(upTo(at(k))) = at(k)
    BY <1>1, <1>4, <2>2
  <2> QED BY <2>2, <2>3
<1>6. Captured = [k \in 1 .. n |-> wire[at(k)]]
  <2>1. Captured = [k \in 1 .. Cardinality(pcap) |-> wire[at(k)]]
    BY DEF Captured
  <2> HIDE DEF at
  <2> QED BY <1>3, <2>1
<1> HIDE DEF at
<1>7. \A k \in 1 .. n : wire[at(k)] = wire[k]
  BY <1>5
<1>8. Captured = [k \in 1 .. n |-> wire[k]]
  BY <1>6, <1>7
<1> QED BY <1>2, <1>8

\* The messages still open, when there is none.
LEMMA NoneOpen == SetToSeq({}) = <<>>
<1> DEFINE empty == {}
           Is(f) == f \in [1 .. Cardinality(empty) -> empty] /\ IsInjective(f)
<1>1. Cardinality(empty) = 0
  BY FS_EmptySet
<1>2. Is(<<>>)
  BY <1>1 DEF IsInjective
<1>3. \A f : Is(f) => f = <<>>
  BY <1>1
<1>4. SetToSeq(empty) = CHOOSE f : Is(f)
  BY DEF SetToSeq
<1> HIDE DEF Is, empty
<1>5. (CHOOSE f : Is(f)) = <<>>
  BY <1>2, <1>3
<1> QED BY <1>4, <1>5 DEF empty

LEMMA GroupWhole ==
    ASSUME NEW ps, NEW g \in Groups, g = Grouped(ps), g.open = {}, g.problems = {}
    PROVE  Group(ps).messages = g.messages /\ Group(ps).problems = {}
<1> DEFINE ms == g.messages \o SetToSeq(g.open)
           qs == g.problems \cup (IF g.open = {} THEN {} ELSE {"no-eom"})
<1>1. Group(ps) = [messages |-> ms, problems |-> qs]
  BY Zenon DEF Group
<1>2. ms = g.messages
  <2>1. g.messages \in Seq(Message) /\ SetToSeq(g.open) = <<>>
    BY NoneOpen DEF Groups
  <2> QED BY <2>1
<1>3. qs = {}
  OBVIOUS
<1> HIDE DEF ms, qs
<1>4. Group(ps).messages = ms /\ Group(ps).problems = qs
  BY <1>1
<1> QED BY <1>2, <1>3, <1>4, Zenon

\* An accepted capture of a replay that ended well is all that crossed.
LEMMA AllCaptured ==
    ASSUME TypeOK, QuietInv, AcceptedIsWhole, TimelyInv,
           cap = "ok", Counted, rp = "ok", ~expired, strays = Strays
    PROVE  Captured = wire /\ after - before = Len(wire)
<1>1. boundAt = 0 /\ before = 0 /\ after = Len(wire) /\ Len(wire) \in Nat
  BY DEF TimelyInv, Counted, TypeOK
<1>2. pcap = 1 .. Len(wire)
  BY <1>1 DEF AcceptedIsWhole
<1> QED BY <1>1, <1>2, CapturedAll

LEMMA MeasuredWhenAccepted ==
    TypeOK /\ QuietInv /\ ExchangeInv /\ AcceptedIsWhole /\ WireInv /\ TimelyInv => MeasuredIsSent
<1> SUFFICES ASSUME TypeOK, QuietInv, ExchangeInv, AcceptedIsWhole, WireInv, TimelyInv,
                    cap = "ok", Counted, rp = "ok", ~expired, strays = Strays
             PROVE  /\ Reproduced(Captured, 0, after - before, Mtu)
                    /\ Rows(Captured) = Exchanges(Len(Lengths))
  BY DEF MeasuredIsSent
<1> DEFINE g == Grouped(wire)
           ms == g.messages
           n == 2 * Len(Lengths)
<1>1. Captured = wire /\ after - before = Len(wire)
  BY AllCaptured
<1>2. outA = <<>> /\ sentCount = Len(Lengths) /\ Len(Lengths) \in Nat
  BY LengthsAssumption DEF ExchangeInv
<1>3. Due = n
  <2>1. Due = 2 * Len(Lengths) - 0
    BY <1>2 DEF Due
  <2> QED BY <1>2, <2>1
<1>4. g.problems = {} /\ g.open = {} /\ Listed(ms, n)
  BY <1>2, <1>3 DEF WireInv
<1>5. g \in Groups
  <2>1. wire \in Seq(Packet)
    BY DEF TypeOK
  <2>2. PICK f : GroupsTo(wire, f)
    BY <2>1, GroupsExist
  <2>3. g = f[Len(wire)] /\ Len(wire) \in 0 .. Len(wire)
    BY <2>1, <2>2, GroupedIs
  <2> QED BY <2>2, <2>3 DEF GroupsTo
<1>6. Group(wire).messages = ms /\ Group(wire).problems = {}
  <2> HIDE DEF g
  <2>1. g = Grouped(wire)
    BY DEF g
  <2> QED BY <1>4, <1>5, <2>1, GroupWhole, Zenon
<1>7. ms \in Seq(Message) /\ Len(ms) = n /\ DOMAIN ms = 1 .. n
  <2>1. ms \in Seq(Message)
    BY <1>5 DEF Groups
  <2> HIDE DEF ms
  <2> QED BY <1>4, <2>1 DEF Listed
<1>8. Reproduced(wire, 0, Len(wire), Mtu)
  <2>1. \A i \in DOMAIN ms : Agrees(ms[i], Mtu)
    BY <1>4, <1>7 DEF Listed
  <2> HIDE DEF ms
  <2> QED BY <1>6, <2>1 DEF Reproduced
<1>9. Rows(wire) = Exchanges(Len(Lengths))
  <2> DEFINE row(i) == [to |-> ms[i].to, type |-> ms[i].type, bytes |-> ms[i].bytes - TypeBytes]
             due(i) == IF i % 2 = 1
                       THEN [to |-> TRUE, type |-> SpdmType, bytes |-> Lengths[(i + 1) \div 2]]
                       ELSE [to |-> FALSE, type |-> SpdmType, bytes |-> AckBytes]
  <2>1. Rows(wire) = [i \in 1 .. n |-> row(i)]
    BY <1>6, <1>7, Zenon DEF Rows
  <2>2. Exchanges(Len(Lengths)) = [i \in 1 .. n |-> due(i)]
    BY Zenon DEF Exchanges
  <2>3. ASSUME NEW i \in 1 .. n PROVE row(i) = due(i)
    <3>1. /\ ms[i].to = (i % 2 = 1) /\ ms[i].type = SpdmType
          /\ ms[i].bytes = TypeBytes + (IF i % 2 = 1 THEN Lengths[(i + 1) \div 2] ELSE AckBytes)
      BY <1>4 DEF Listed
    <3>2. i \in Nat /\ (i % 2 = 1 => (i + 1) \div 2 \in 1 .. Len(Lengths))
      BY <1>2
    <3> HIDE DEF ms, n
    <3>3. CASE i % 2 = 1
      <4>1. Lengths[(i + 1) \div 2] \in Nat
        BY <3>2, <3>3, LengthsAssumption
      <4>2. ms[i].to = TRUE
        BY <3>1, <3>3
      <4>3. ms[i].bytes - TypeBytes = Lengths[(i + 1) \div 2]
        BY <3>1, <3>3, <4>1 DEF TypeBytes
      <4> QED BY <3>1, <3>3, <4>2, <4>3
    <3>4. CASE i % 2 # 1
      <4>2. ms[i].to = FALSE
        BY <3>1, <3>4, Zenon
      <4>3. ms[i].bytes - TypeBytes = AckBytes
        BY <3>1, <3>4, LengthsAssumption DEF TypeBytes
      <4> QED BY <3>1, <3>4, <4>2, <4>3
    <3> QED BY <3>3, <3>4
  <2> HIDE DEF row, due, n
  <2> QED BY <2>1, <2>2, <2>3
<1> QED BY <1>1, <1>8, <1>9

-----------------------------------------------------------------------------
LEMMA InitIInv == Init => IInv
BY InitExchange, InitWire, InitTimely DEF IInv

LEMMA StepIInv == IInv /\ [Next]_vars => IInv'
BY StepType, StepQuiet, StepExchange, StepWhole, StepWire, StepTimely DEF IInv

\* Everything in IInv holds throughout: no replayed packet moves before the
\* first reading, an exchange's message is in one place, what is written came
\* after the socket was bound, and no packet is both queued and written.
THEOREM Inductive == Spec => []IInv
<1>1. Init => IInv
  BY InitIInv
<1>2. IInv /\ [Next]_vars => IInv'
  BY StepIInv
<1> QED BY <1>1, <1>2, PTL DEF Spec

\* The variables keep their types, and the socket never holds what has been
\* written.
THEOREM TypeCorrect == Spec => []TypeOK
<1>1. IInv => TypeOK
  BY DEF IInv
<1> QED BY <1>1, Inductive, PTL

\* If nothing came between its bind() and its first reading, a capture that
\* mctp_capture.py accepts is the packets that crossed the interface between
\* its two readings, for every script of lengths, packet size, buffer, loss and
\* number of strays.
THEOREM WholeHolds == Spec => []AcceptedIsWhole
<1>1. IInv => AcceptedIsWhole
  BY DEF IInv
<1> QED BY <1>1, Inductive, PTL

\* When role_replay exits 0 the sink has received every message whole, in the
\* order they were sent.
THEOREM ReassembledHolds == Spec => []ReplayOkIsReassembled
<1>1. IInv => ReplayOkIsReassembled
  <2> SUFFICES ASSUME IInv, rp = "ok" PROVE sunk = Lengths
    BY DEF ReplayOkIsReassembled
  <2>1. sunk \in Seq(Int) /\ Lengths \in Seq(Nat) /\ Len(sunk) = Len(Lengths)
    BY LengthsAssumption DEF IInv, TypeOK, ExchangeInv
  <2>2. \A i \in 1 .. Len(sunk) : sunk[i] = Lengths[i]
    BY DEF IInv, ExchangeInv
  <2> QED BY <2>1, <2>2
<1> QED BY <1>1, Inductive, PTL

\* A capture that is accepted in time, of a replay that ended well on a link where
\* nothing else was, groups to the messages that were replayed and their
\* acknowledgements, in order, whole, in as many packets as the packet model says:
\* for every list of lengths, packet size, tags and buffer, and however many
\* packets were lost on the far side of the interface.
THEOREM MeasuredHolds == Spec => []MeasuredIsSent
<1>1. IInv => MeasuredIsSent
  BY MeasuredWhenAccepted DEF IInv
<1> QED BY <1>1, Inductive, PTL
=============================================================================
