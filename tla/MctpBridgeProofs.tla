-------------------------- MODULE MctpBridgeProofs --------------------------
(* Theorems about MctpBridge for every set of tags and frames.             *)
EXTENDS MctpBridge, SequenceTheorems, TLAPS

\* ToWire and FromWire work on naturals and stay in Seq(Nat).
LEMMA ToWireType ==
    ASSUME NEW f \in Frame, WellFormed(f)
    PROVE  ToWire(f) \in Seq(Nat) /\ TypeOf(f) \in Types
<1>1. CASE f.cmd = NORMAL
  <2>1. f.buf \in Seq(Nat) /\ f.buf # <<>>
    BY <1>1 DEF Frame, WellFormed
  <2>2. Tail(f.buf) \in Seq(Nat)
    BY <2>1
  <2> QED BY <1>1, <2>2 DEF ToWire, TypeOf, Types
<1>2. CASE f.cmd # NORMAL
  BY <1>2 DEF Frame, ToWire, TypeOf, Types
<1> QED BY <1>1, <1>2

LEMMA FromWireType ==
    ASSUME NEW s \in Types, NEW body \in Seq(Nat), ~Refused(s, body)
    PROVE  FromWire(s, body) \in Frame
<1>1. CASE s = SPDM
  <2>1. <<SPDM>> \o body \in Seq(Nat)
    BY DEF SPDM
  <2> QED BY <1>1, <2>1 DEF FromWire, Frame, NORMAL
<1>2. CASE s # SPDM
  <2>1. body # <<>>
    BY <1>2 DEF Refused, Types
  <2>2. Head(body) \in Nat /\ Tail(body) \in Seq(Nat)
    BY <2>1
  <2> QED BY <1>2, <2>2 DEF FromWire, Frame
<1> QED BY <1>1, <1>2

\* A frame put on the wire by one bridge is the frame the other one rebuilds:
\* the type byte stripped is the type byte put back, and the command word
\* written in front of a control payload is the one read from it.
LEMMA RoundTrip ==
    ASSUME NEW f \in Frame, WellFormed(f)
    PROVE  FromWire(TypeOf(f), ToWire(f)) = f
<1>1. CASE f.cmd = NORMAL
  <2>1. f.buf \in Seq(Nat) /\ f.buf # <<>> /\ Head(f.buf) = SPDM
    BY <1>1 DEF Frame, WellFormed
  <2>2. <<SPDM>> \o Tail(f.buf) = f.buf
    BY <2>1
  <2>3. FromWire(TypeOf(f), ToWire(f)) = [cmd |-> f.cmd, buf |-> f.buf]
    BY <1>1, <2>2 DEF FromWire, TypeOf, ToWire
  <2> QED BY <2>3 DEF Frame
<1>2. CASE f.cmd # NORMAL
  <2>1. f.cmd \in Nat /\ f.buf \in Seq(Nat)
    BY DEF Frame
  <2>2. Head(<<f.cmd>> \o f.buf) = f.cmd /\ Tail(<<f.cmd>> \o f.buf) = f.buf
    BY <2>1
  <2>3. TypeOf(f) # SPDM /\ ToWire(f) = <<f.cmd>> \o f.buf
    BY <1>2 DEF TypeOf, ToWire, SPDM, CTRL
  <2>4. FromWire(TypeOf(f), ToWire(f)) = [cmd |-> f.cmd, buf |-> f.buf]
    BY <2>2, <2>3 DEF FromWire
  <2> QED BY <2>4 DEF Frame
<1> QED BY <1>1, <1>2

\* A reply that arrives on the socket of its request is handed back as Handed
\* says: unchanged if it is of the request's type.
LEMMA ReplyIsHanded ==
    ASSUME NEW s, NEW m, NEW f, NEW k \in Nat, k = Len(ans), k = Len(rep) + 1,
           Len(rep) \in Nat, ans \in Seq(Frame), Carries(m, ans[k]), s = TypeOf(f)
    PROVE  FromWire(s, m.body) = Handed(f, ans[k])
<1>1. ans[k] \in Frame
  <2>1. k \in 1 .. Len(ans)
    OBVIOUS
  <2> QED BY <2>1, ElementOfSeq
<1>2. FromWire(TypeOf(ans[k]), m.body) = ans[k] /\ m.body = ToWire(ans[k])
  BY <1>1, RoundTrip DEF Carries
<1> QED BY <1>2 DEF Handed

-----------------------------------------------------------------------------
(* The type invariant.                                                     *)

LEMMA TypeInit == Init => TypeOK
BY DEF Init, TypeOK, Exited, NoMessages, Types, Message

LEMMA TypeNext == TypeOK /\ [Next]_vars => TypeOK'
<1> SUFFICES ASSUME TypeOK, [Next]_vars PROVE TypeOK'
  OBVIOUS
<1> USE DEF TypeOK, emuVars, rqVars, rsVars, Exited
<1>1. CASE EmuWrite
  BY <1>1, FramesAssumption DEF EmuWrite
<1>2. CASE EmuClose
  BY <1>2 DEF EmuClose
<1>3. CASE ReqAccept
  BY <1>3 DEF ReqAccept
<1>4. CASE ReqForward
  <2>1. PICK tag \in Tags : ReqSend(sent[nRead + 1], tag)
    BY <1>4 DEF ReqForward
  <2> DEFINE f == sent[nRead + 1]
  <2>2. f \in Frame /\ WellFormed(f)
    BY <1>4 DEF ReqForward, ReqAcceptable
  <2>3. ToWire(f) \in Seq(Nat) /\ TypeOf(f) \in Types
    BY <2>2, ToWireType
  <2> DEFINE req == [to |-> TRUE, tag |-> tag, type |-> TypeOf(f), body |-> ToWire(f)]
  <2>4. link' \subseteq Message
    <3>1. req \in Message
      BY <2>3 DEF Message
    <3>2. link' = link \cup {req}
      BY <2>1 DEF ReqSend
    <3> QED BY <3>1, <3>2
  <2>5. keys' \in [Tags -> Types \cup {Free}] /\ rqCount' \in [Types -> Nat]
    BY <2>1, <2>3 DEF ReqSend
  <2>6. nRead' \in 0 .. Len(sent')
    BY <1>4, <2>1 DEF ReqForward, ReqSend
  <2> QED BY <1>4, <2>1, <2>4, <2>5, <2>6 DEF ReqForward, ReqSend
<1>5. CASE ReqSendDies
  BY <1>5 DEF ReqSendDies, ReqExit, NoMessages
<1>5a. CASE ReqSocketDies
  BY <1>5a DEF ReqSocketDies, ReqExit, NoMessages
<1>6. CASE ReqEof
  BY <1>6 DEF ReqEof, ReqExit, NoMessages
<1>7. CASE ReqTimeout
  BY <1>7 DEF ReqTimeout, ReqExit, NoMessages
<1>8. CASE ReqReceive
  <2>0. PICK s \in Types : \E m \in rxA[s] :
          IF Refused(s, m.body) THEN ReqExit("died") /\ rep' = rep
          ELSE ReqRelay(s, m)
    BY <1>8 DEF ReqReceive
  <2>1. PICK m \in rxA[s] :
          IF Refused(s, m.body) THEN ReqExit("died") /\ rep' = rep
          ELSE ReqRelay(s, m)
    BY <2>0
  <2>2. m.body \in Seq(Nat)
    BY <2>1 DEF Message
  <2>3. CASE Refused(s, m.body)
    BY <1>8, <2>1, <2>3 DEF ReqReceive, ReqExit, NoMessages
  <2>4. CASE ~Refused(s, m.body)
    <3>1. FromWire(s, m.body) \in Frame
      BY <2>2, <2>4, FromWireType
    <3>2. rep' \in Seq(Frame)
      <4>1. rep' = Append(rep, FromWire(s, m.body))
        BY <2>1, <2>4 DEF ReqRelay
      <4> QED BY <3>1, <4>1
    <3>3. /\ rqPc' \in {"read", "ok"}
          /\ keys' \in [Tags -> Types \cup {Free}]
          /\ rxA' \in [Types -> SUBSET Message]
      BY <2>1, <2>4 DEF ReqRelay, ReqExit, NoMessages
    <3> QED BY <1>8, <3>2, <3>3 DEF ReqReceive
  <2> QED BY <2>3, <2>4
<1>9. CASE ReqWriteDies
  BY <1>9 DEF ReqWriteDies, ReqExit, NoMessages
<1>10. CASE DeliverRequest
  <2>1. PICK m \in link :
          /\ link' = link \ {m}
          /\ rxB' = IF rsPc \in {"ok", "died"} THEN rxB
                    ELSE [rxB EXCEPT ![m.type] = @ \cup {m}]
    BY <1>10 DEF DeliverRequest
  <2>2. rxB' \in [Types -> SUBSET Message]
    BY <2>1
  <2> QED BY <1>10, <2>1, <2>2 DEF DeliverRequest
<1>11. CASE DeliverReply
  <2>1. PICK m \in link :
          /\ link' = link \ {m}
          /\ rxA' = IF keys[m.tag] = Free THEN rxA
                    ELSE [rxA EXCEPT ![keys[m.tag]] = @ \cup {m}]
          /\ keys' = [keys EXCEPT ![m.tag] = Free]
    BY <1>11 DEF DeliverReply
  <2>2. rxA' \in [Types -> SUBSET Message]
    <3>1. m \in Message /\ keys[m.tag] \in Types \cup {Free}
      BY DEF Message
    <3>2. CASE keys[m.tag] = Free
      BY <2>1, <3>2
    <3>3. CASE keys[m.tag] # Free
      <4>1. PICK s \in Types : rxA' = [rxA EXCEPT ![s] = @ \cup {m}]
        BY <2>1, <3>1, <3>3
      <4> QED BY <3>1, <4>1
    <3> QED BY <3>2, <3>3
  <2>3. keys' \in [Tags -> Types \cup {Free}]
    BY <2>1
  <2> QED BY <1>11, <2>1, <2>2, <2>3 DEF DeliverReply
<1>12. CASE Lose
  BY <1>12 DEF Lose
<1>13. CASE KeyExpires
  BY <1>13 DEF KeyExpires
<1>14. CASE RspConnect
  BY <1>14 DEF RspConnect
<1>15. CASE RspConnectDies
  BY <1>15 DEF RspConnectDies, RspExit, NoMessages
<1>16. CASE RspForward
  <2>0. PICK s \in Types : \E m \in rxB[s] :
          IF Refused(s, m.body)
          THEN RspExit("died") /\ UNCHANGED <<fwd, from, rsCount>>
          ELSE RspForwardRelay(s, m)
    BY <1>16 DEF RspForward
  <2>1. PICK m \in rxB[s] :
          IF Refused(s, m.body)
          THEN RspExit("died") /\ UNCHANGED <<fwd, from, rsCount>>
          ELSE RspForwardRelay(s, m)
    BY <2>0
  <2>2. m \in Message
    BY <2>1
  <2>3. CASE Refused(s, m.body)
    BY <1>16, <2>1, <2>3 DEF RspForward, RspExit, NoMessages
  <2>4. CASE ~Refused(s, m.body)
    <3>1. FromWire(s, m.body) \in Frame
      BY <2>2, <2>4, FromWireType DEF Message
    <3>2. fwd' \in Seq(Frame) /\ fwd' # <<>>
      <4>1. fwd' = Append(fwd, FromWire(s, m.body))
        BY <2>1, <2>4 DEF RspForwardRelay
      <4> QED BY <3>1, <4>1
    <3>3. rsPc' = "answer" /\ from' \in Tags
      BY <2>1, <2>2, <2>4 DEF RspForwardRelay, Message
    <3>4. rsCount' \in [Types -> Nat]
      <4>1. rsCount' = [rsCount EXCEPT ![s] = rsCount[s] + 1]
        BY <2>1, <2>4 DEF RspForwardRelay
      <4>2. rsCount[s] + 1 \in Nat
        OBVIOUS
      <4> QED BY <4>1, <4>2
    <3>5. rxB' \in [Types -> SUBSET Message]
      BY <2>1, <2>4 DEF RspForwardRelay
    <3> QED BY <1>16, <3>2, <3>3, <3>4, <3>5 DEF RspForward
  <2> QED BY <2>3, <2>4
<1>17. CASE RspTcpDies
  BY <1>17 DEF RspTcpDies, RspExit, NoMessages
<1>18. CASE RspReply
  <2>1. AnswerRead \in Frame /\ WellFormed(AnswerRead)
    <3>1. rsPc = "answer" /\ Len(ans) >= Len(fwd) /\ WellFormed(AnswerRead)
      BY <1>18 DEF RspReply
    <3>2. Len(fwd) \in 1 .. Len(ans)
      BY <3>1
    <3> QED BY <3>1, <3>2 DEF AnswerRead
  <2>2. ToWire(AnswerRead) \in Seq(Nat) /\ TypeOf(AnswerRead) \in Types
    BY <2>1, ToWireType
  <2> DEFINE rsp == [to |-> FALSE, tag |-> from, type |-> TypeOf(AnswerRead),
                     body |-> ToWire(AnswerRead)]
  <2>3. link' \subseteq Message
    <3>1. rsp \in Message
      BY <2>2 DEF Message
    <3>2. link' = link \cup {rsp}
      BY <1>18 DEF RspReply
    <3> QED BY <3>1, <3>2
  <2>4. rxB' \in [Types -> SUBSET Message] /\ rsPc' \in {"ok", "poll"}
    BY <1>18 DEF RspReply, RspExit, NoMessages
  <2> QED BY <1>18, <2>3, <2>4 DEF RspReply
<1>19. CASE RspReplyDies
  BY <1>19 DEF RspReplyDies, RspExit, NoMessages
<1>20. CASE RspEmuMove
  BY <1>20 DEF RspEmuMove
<1>21. CASE EmuAnswer
  BY <1>21, FramesAssumption DEF EmuAnswer
<1>22. CASE UNCHANGED vars
  BY <1>22 DEF vars
<1> QED
  BY <1>1, <1>2, <1>3, <1>4, <1>5, <1>5a, <1>6, <1>7, <1>8, <1>9, <1>10, <1>11,
     <1>12, <1>13, <1>14, <1>15, <1>16, <1>17, <1>18, <1>19, <1>20, <1>21,
     <1>22 DEF Next, ReqStep, RspStep

\* The type invariant holds for every set of tags and frames.
THEOREM TypeCorrect == Spec => []TypeOK
<1>1. TypeOK /\ [Next]_vars => TypeOK'
  BY TypeNext
<1> QED BY TypeInit, <1>1, PTL DEF Spec

-----------------------------------------------------------------------------
(* The inductive invariant.                                                *)

LEMMA IInvInit == Init => IInv
<1> SUFFICES ASSUME Init PROVE IInv
  OBVIOUS
<1>1. TypeOK
  BY TypeInit
<1>2. InFlight = {}
  BY DEF Init, InFlight, Received, NoMessages, Types
<1> QED
  BY <1>1, <1>2 DEF Init, IInv, StreamInv, FlightInv, KeyInv, SocketInv, CountInv,
     RelayInv, ShutdownEndsBoth, NoMessages, Types, Exited

\* Steps of the requester emulator.
LEMMA EmuStepInv ==
    ASSUME IInv, TypeOK', EmuWrite \/ EmuClose
    PROVE  IInv'
<1> USE DEF emuVars, rqVars, rsVars
<1>1. CASE EmuWrite
  <2>1. PICK f \in ReqFrames : sent' = Append(sent, f)
    BY <1>1 DEF EmuWrite
  <2>2. /\ sent \in Seq(Frame) /\ nRead \in 0 .. Len(sent) /\ f \in Frame
        /\ Len(fwd) \in Nat /\ Len(fwd) <= nRead
    BY FramesAssumption DEF IInv, TypeOK, StreamInv
  <2>3. \A i \in 1 .. nRead : sent'[i] = sent[i]
    BY <2>1, <2>2
  <2>4. InFlight' = InFlight
    BY <1>1 DEF EmuWrite, InFlight, Received
  <2>5. StreamInv'
    BY <1>1, <2>4 DEF EmuWrite, IInv, StreamInv
  <2>6. FlightInv'
    BY <1>1, <2>2, <2>3, <2>4 DEF EmuWrite, IInv, FlightInv, Carries, Received
  <2>6a. nRead > 0 => sent'[nRead] = sent[nRead]
    BY <2>2, <2>3
  <2>6b. InFlight # {} \/ rqPc = "wait" => nRead > 0
    <3>1. Len(rep) \in Nat
      BY DEF IInv, TypeOK
    <3> QED BY <3>1 DEF IInv, StreamInv
  <2>6c. \A s \in Types : rxA[s] # {} => InFlight # {}
    BY DEF InFlight, Received, Types
  <2>7. KeyInv' /\ SocketInv'
    BY <1>1, <2>4, <2>6a, <2>6b, <2>6c DEF EmuWrite, IInv, KeyInv, SocketInv, Received
  <2>8. CountInv'
    BY <1>1, <2>2, <2>3 DEF EmuWrite, IInv, CountInv
  <2>9. RelayInv'
    <3>1. \A i \in 1 .. Len(sent') : sent'[i] \in ReqFrames
      BY <2>1, <2>2 DEF IInv, RelayInv
    <3>2. rep' = rep /\ fwd' = fwd /\ ans' = ans
      BY <1>1 DEF EmuWrite
    <3>3. Len(rep) \in Nat /\ Len(fwd) \in Nat /\ Len(rep) <= nRead /\ Len(fwd) <= nRead
      BY DEF IInv, TypeOK, StreamInv
    <3>4. /\ \A i \in 1 .. Len(fwd) : fwd[i] = sent'[i]
          /\ \A i \in 1 .. Len(rep) : rep[i] = Handed(sent'[i], ans[i])
      BY <2>2, <2>3, <3>3 DEF IInv, RelayInv
    <3> QED BY <3>1, <3>2, <3>4 DEF IInv, RelayInv
  <2>10. ShutdownEndsBoth'
    BY <1>1 DEF EmuWrite, IInv, ShutdownEndsBoth
  <2> QED BY <2>5, <2>6, <2>7, <2>8, <2>9, <2>10 DEF IInv
<1>2. CASE EmuClose
  BY <1>2 DEF EmuClose, IInv, StreamInv, FlightInv, KeyInv, SocketInv, CountInv,
     RelayInv, ShutdownEndsBoth, InFlight, Received, Carries
<1> QED BY <1>1, <1>2

\* Steps of the requester bridge.
LEMMA ReqForwardInv ==
    ASSUME IInv, TypeOK', ReqForward
    PROVE  IInv'
<1> USE DEF emuVars, rqVars, rsVars
<1> DEFINE f == sent[nRead + 1]
<1>1. PICK tag \in Tags : ReqSend(f, tag)
  BY DEF ReqForward
<1> DEFINE req == [to |-> TRUE, tag |-> tag, type |-> TypeOf(f), body |-> ToWire(f)]
<1>2. /\ rqPc = "read" /\ rqPc' = "wait" /\ nRead' = nRead + 1
      /\ WellFormed(f) /\ sent' = sent /\ rep' = rep /\ fwd' = fwd /\ ans' = ans
      /\ rxA' = rxA /\ rxB' = rxB /\ rsPc' = rsPc /\ from' = from
      /\ rsCount' = rsCount
  BY <1>1 DEF ReqForward, ReqSend, ReqAcceptable
<1>3. /\ nRead \in Nat /\ Len(rep) \in Nat /\ Len(fwd) \in Nat /\ Len(ans) \in Nat
      /\ Len(rep) = nRead /\ Len(fwd) = nRead /\ Len(ans) = nRead
      /\ InFlight = {} /\ rsPc # "answer" /\ rqCount = rsCount
  BY <1>2 DEF IInv, TypeOK, StreamInv, CountInv
<1>4. link' = {req} /\ Received(rxA) = {} /\ Received(rxB) = {}
  BY <1>1, <1>3 DEF ReqSend, InFlight
<1>5. InFlight' = {req}
  BY <1>2, <1>4 DEF InFlight, Received
<1>6. StreamInv'
  BY <1>2, <1>3 DEF StreamInv
<1>7. FlightInv'
  <2>1. nRead' = Len(fwd') + 1 /\ sent'[nRead'] = f
    BY <1>2, <1>3
  <2>2. rxA'[SPDM] = {} /\ Received(rxA)' = {} /\ Received(rxB)' = {}
    BY <1>2, <1>4 DEF Received
  <2>3. \A m, n \in InFlight' : m = n
    BY <1>5
  <2>4. req.to /\ req.type = TypeOf(f) /\ req.body = ToWire(f)
    OBVIOUS
  <2>5. \A m \in InFlight' : m.to /\ Carries(m, sent'[nRead'])
    BY <1>2, <1>5, <2>1, <2>4 DEF Carries
  <2>6. \A m \in InFlight' :
           IF m.to THEN nRead' = Len(fwd') + 1 /\ Carries(m, sent'[nRead'])
           ELSE /\ nRead' = Len(ans') /\ Carries(m, ans'[nRead'])
                /\ ans'[nRead'].cmd = SHUTDOWN => rsPc' = "ok"
    BY <2>1, <2>5
  <2> QED BY <2>2, <2>3, <2>6 DEF FlightInv
<1>8. KeyInv'
  <2>1. \A t \in Tags : keys[t] = Free
    BY <1>2 DEF IInv, KeyInv
  <2>2. \A t \in Tags : keys'[t] # Free => t = tag /\ keys'[t] = TypeOf(f)
    BY <1>1, <2>1 DEF ReqSend, IInv, TypeOK
  <2>3. req.tag = tag /\ Received(rxA)' = {}
    BY <1>2, <1>4 DEF Received
  <2>4. sent'[nRead'] = f
    BY <1>2
  <2> QED BY <1>2, <1>3, <1>5, <2>2, <2>3, <2>4 DEF KeyInv
<1>9. SocketInv'
  <2>1. \A s \in Types : rxA'[s] = {}
    BY <1>2, <1>4 DEF Received, Types
  <2> QED BY <1>2, <2>1 DEF IInv, SocketInv
<1>10. CountInv'
  BY <1>1, <1>2, <1>3 DEF ReqSend, CountInv
<1>11. RelayInv' /\ ShutdownEndsBoth'
  BY <1>2 DEF IInv, RelayInv, ShutdownEndsBoth
<1> QED BY <1>6, <1>7, <1>8, <1>9, <1>10, <1>11 DEF IInv

\* The requester bridge starts, or ends without having relayed a reply.
LEMMA ReqEndInv ==
    ASSUME IInv, TypeOK',
           ReqAccept \/ ReqSocketDies \/ ReqSendDies \/ ReqEof \/ ReqTimeout \/ ReqWriteDies
    PROVE  IInv'
<1> USE DEF emuVars, rqVars, rsVars
<1>1. /\ sent' = sent /\ rep' = rep /\ fwd' = fwd /\ ans' = ans /\ link' = link
      /\ rxB' = rxB /\ rsPc' = rsPc /\ from' = from
      /\ rsCount' = rsCount /\ rqCount' = rqCount
      /\ rxA' \in {rxA, NoMessages}
      /\ \/ rqPc = "accept" /\ rqPc' = "read" /\ nRead' = nRead /\ keys' = keys
         \/ rqPc \in {"accept", "read"} /\ rqPc' = "died" /\ nRead' = nRead
         \/ rqPc = "read" /\ rqPc' = "died" /\ nRead' = nRead + 1
         \/ rqPc = "read" /\ rqPc' = "ok" /\ nRead' = nRead
         \/ rqPc = "wait" /\ rqPc' = "died" /\ nRead' = nRead
      /\ rqPc' # "read" => keys' = [t \in Tags |-> Free]
  BY DEF ReqAccept, ReqSocketDies, ReqSendDies, ReqEof, ReqTimeout, ReqWriteDies, ReqExit
<1>2. /\ nRead \in Nat /\ Len(rep) \in Nat /\ Len(fwd) \in Nat /\ Len(ans) \in Nat
  BY DEF IInv, TypeOK
<1>3. rxA' = rxA \/ (rxA'[SPDM] = {} /\ rxA'[CTRL] = {})
  BY <1>1 DEF NoMessages, Types
<1>4. /\ InFlight' \subseteq InFlight /\ Received(rxA)' \subseteq Received(rxA)
      /\ Received(rxB)' = Received(rxB)
  BY <1>1, <1>3 DEF InFlight, Received
<1>5. StreamInv'
  BY <1>1, <1>2, <1>4 DEF IInv, StreamInv
<1>6. FlightInv'
  <2>1. rxA'[SPDM] = {} \/ rxA'[CTRL] = {}
    BY <1>3 DEF IInv, FlightInv
  <2>2. link' = {} \/ (Received(rxA) \cup Received(rxB))' = {}
    BY <1>1, <1>4 DEF IInv, FlightInv
  <2>3. InFlight = {} \/ nRead' = nRead
    BY <1>1 DEF IInv, StreamInv
  <2> QED BY <1>1, <1>4, <2>1, <2>2, <2>3 DEF IInv, FlightInv, Carries
<1>7. KeyInv'
  BY <1>1, <1>4 DEF IInv, KeyInv
<1>8. SocketInv'
  <2>1. CASE nRead' = nRead
    BY <1>1, <1>3, <2>1 DEF IInv, SocketInv, Types
  <2>2. CASE nRead' # nRead
    <3>1. InFlight = {}
      BY <1>1, <2>2 DEF IInv, StreamInv
    <3>2. \A s \in Types : rxA'[s] = {}
      BY <1>3, <3>1 DEF InFlight, Received, Types
    <3> QED BY <1>1, <3>2 DEF IInv, SocketInv
  <2> QED BY <2>1, <2>2
<1>9. CountInv'
  BY <1>1 DEF IInv, CountInv
<1>10. RelayInv' /\ ShutdownEndsBoth'
  BY <1>1 DEF IInv, RelayInv, ShutdownEndsBoth
<1> QED BY <1>5, <1>6, <1>7, <1>8, <1>9, <1>10 DEF IInv

\* A reply relayed to the requester emulator.
LEMMA ReqReceiveInv ==
    ASSUME IInv, TypeOK', ReqReceive
    PROVE  IInv'
<1> USE DEF emuVars, rqVars, rsVars
<1>1. PICK s \in Types : \E m \in rxA[s] :
        IF Refused(s, m.body) THEN ReqExit("died") /\ rep' = rep
        ELSE ReqRelay(s, m)
  BY DEF ReqReceive
<1>2. PICK m \in rxA[s] :
        IF Refused(s, m.body) THEN ReqExit("died") /\ rep' = rep
        ELSE ReqRelay(s, m)
  BY <1>1
<1> DEFINE g == FromWire(s, m.body)
<1>3. /\ rqPc = "wait" /\ nRead' = nRead /\ sent' = sent /\ fwd' = fwd /\ ans' = ans
      /\ link' = link /\ rxB' = rxB /\ rsPc' = rsPc /\ from' = from
      /\ rqCount' = rqCount /\ rsCount' = rsCount
  BY DEF ReqReceive
<1>4. s = SPDM \/ s = CTRL
  BY DEF Types
<1>5. m \in Received(rxA) /\ m \in InFlight
  BY <1>4 DEF Received, InFlight
<1>6. /\ nRead \in Nat /\ Len(rep) \in Nat /\ Len(fwd) \in Nat /\ Len(ans) \in Nat
      /\ rep \in Seq(Frame) /\ ans \in Seq(Frame)
  BY DEF IInv, TypeOK
<1>7. ~m.to /\ s = TypeOf(sent[nRead])
  BY DEF IInv, SocketInv
<1>8. /\ nRead = Len(ans) /\ Carries(m, ans[nRead])
      /\ ans[nRead].cmd = SHUTDOWN => rsPc = "ok"
  BY <1>5, <1>7 DEF IInv, FlightInv
<1>9. /\ Len(fwd) = nRead /\ nRead = Len(rep) + 1 /\ rsPc # "answer"
      /\ rqCount = rsCount
  BY <1>3, <1>5, <1>6, <1>8 DEF IInv, StreamInv, CountInv
<1>10. \A t \in Tags : keys[t] = Free
  BY <1>5 DEF IInv, KeyInv
<1>11. \A t \in Tags : keys'[t] = Free
  BY <1>2, <1>10 DEF ReqExit, ReqRelay
<1>12. /\ link = {} /\ Received(rxB) = {}
       /\ \A r \in Types : rxA'[r] \subseteq rxA[r] \ {m}
  <2>1. link = {}
    BY <1>5 DEF IInv, FlightInv
  <2>2. Received(rxB) = {}
    <3>1. ASSUME NEW n \in Received(rxB) PROVE FALSE
      <4>1. n = m
        BY <1>5 DEF IInv, FlightInv, InFlight
      <4>2. n.to
        BY DEF IInv, SocketInv, Received, Types
      <4> QED BY <1>7, <4>1, <4>2
    <3> QED BY <3>1
  <2>3. \A r \in Types : r # s => rxA[r] = {}
    BY <1>4 DEF IInv, FlightInv, Types
  <2>4. \A r \in Types : rxA'[r] = {} \/ rxA'[r] = rxA[r] \ {m}
    BY <1>2, <2>3 DEF ReqExit, ReqRelay, NoMessages, IInv, TypeOK
  <2> QED BY <2>1, <2>2, <2>4
<1>13. InFlight' = {} /\ \A r \in Types : rxA'[r] = {}
  <2>1. \A r \in Types : rxA'[r] = {}
    BY <1>4, <1>5, <1>12 DEF IInv, FlightInv, InFlight, Received, Types
  <2>2. Received(rxA)' = {} /\ Received(rxB)' = {}
    BY <1>3, <1>12, <2>1 DEF Received, Types
  <2> QED BY <1>3, <1>12, <2>1, <2>2 DEF InFlight
<1>14. \/ rqPc' = "died" /\ rep' = rep
       \/ /\ rep' = Append(rep, g)
          /\ rqPc' = IF s = CTRL /\ g.cmd = SHUTDOWN THEN "ok" ELSE "read"
  BY <1>2 DEF ReqExit, ReqRelay
<1>15. StreamInv'
  BY <1>3, <1>6, <1>8, <1>9, <1>13, <1>14 DEF StreamInv
<1>16. FlightInv'
  BY <1>3, <1>12, <1>13 DEF FlightInv, Types
<1>17. KeyInv'
  BY <1>11 DEF KeyInv
<1>18. SocketInv'
  BY <1>3, <1>13 DEF IInv, SocketInv
<1>19. CountInv'
  BY <1>3, <1>9, <1>14 DEF CountInv
<1>20. g = Handed(sent[nRead], ans[nRead])
  BY <1>6, <1>7, <1>8, <1>9, ReplyIsHanded
<1>21. RelayInv'
  <2>1. \A k \in 1 .. Len(rep) : rep[k] = Handed(sent[k], ans[k])
    BY DEF IInv, RelayInv
  <2>2. \A k \in 1 .. Len(rep') : rep'[k] = Handed(sent[k], ans[k])
    BY <1>6, <1>9, <1>14, <1>20, <2>1
  <2> QED BY <1>3, <2>2 DEF IInv, RelayInv
<1>22. ShutdownEndsBoth'
  <2>1. CASE rep' = rep
    BY <1>3, <2>1 DEF IInv, ShutdownEndsBoth
  <2>2. CASE rep' = Append(rep, g) /\ rqPc' # "died"
    <3> SUFFICES ASSUME rep'[Len(rep')].cmd = SHUTDOWN
                 PROVE  rqPc' = "ok" /\ rsPc' = "ok"
      BY DEF ShutdownEndsBoth
    <3>1. g.cmd = SHUTDOWN
      BY <1>6, <2>2
    <3>2. s = CTRL
      BY <1>4, <3>1 DEF FromWire, NORMAL, SHUTDOWN
    <3>3. TypeOf(ans[nRead]) = CTRL
      <4>1. nRead \in 1 .. Len(ans) /\ nRead \in 1 .. Len(fwd)
        BY <1>6, <1>8, <1>9
      <4>2. ans[nRead].cmd \in {sent[nRead].cmd, UNKNOWN}
        BY <4>1 DEF IInv, RelayInv, Answers
      <4>3. sent[nRead].cmd # NORMAL
        BY <1>7, <3>2 DEF TypeOf, SPDM, CTRL
      <4> QED BY <4>2, <4>3 DEF TypeOf, NORMAL, UNKNOWN
    <3>4. ans[nRead].cmd = SHUTDOWN
      BY <1>7, <1>20, <3>1, <3>2, <3>3 DEF Handed
    <3> QED BY <1>3, <1>8, <1>14, <2>2, <3>1, <3>2, <3>4
  <2> QED BY <1>14, <2>1, <2>2
<1> QED BY <1>15, <1>16, <1>17, <1>18, <1>19, <1>21, <1>22 DEF IInv

\* Steps of the kernels and the link.
LEMMA KernelInv ==
    ASSUME IInv, TypeOK', DeliverRequest \/ DeliverReply \/ Lose \/ KeyExpires
    PROVE  IInv'
<1> USE DEF emuVars, rqVars, rsVars
<1>1. /\ sent' = sent /\ rep' = rep /\ fwd' = fwd /\ ans' = ans
      /\ rqPc' = rqPc /\ nRead' = nRead /\ rqCount' = rqCount
      /\ rsPc' = rsPc /\ from' = from /\ rsCount' = rsCount
  BY DEF DeliverRequest, DeliverReply, Lose, KeyExpires
<1>2. \A t \in Tags : keys'[t] # Free => keys[t] # Free
  BY DEF DeliverRequest, DeliverReply, Lose, KeyExpires, IInv, TypeOK, Message
<1>3. SUFFICES /\ InFlight' \subseteq InFlight
               /\ link' = {} \/ (Received(rxA) \cup Received(rxB))' = {}
               /\ rxA'[SPDM] = {} \/ rxA'[CTRL] = {}
               /\ \A t \in Tags : keys'[t] # Free => Received(rxA)' = {}
               /\ \A t \in Tags : keys'[t] \in {keys[t], Free}
               /\ SocketInv'
  <2>1. StreamInv'
    BY <1>1, <1>3 DEF IInv, StreamInv
  <2>2. FlightInv'
    BY <1>1, <1>3 DEF IInv, FlightInv, Carries
  <2>3. KeyInv'
    BY <1>1, <1>2, <1>3 DEF IInv, KeyInv
  <2>4. CountInv' /\ RelayInv' /\ ShutdownEndsBoth'
    BY <1>1 DEF IInv, CountInv, RelayInv, ShutdownEndsBoth
  <2> QED BY <1>3, <2>1, <2>2, <2>3, <2>4 DEF IInv
<1>3a. \A t \in Tags : keys'[t] \in {keys[t], Free}
  BY DEF DeliverRequest, DeliverReply, Lose, KeyExpires, IInv, TypeOK, Message
<1>4. CASE Lose \/ KeyExpires
  <2>1. link' \subseteq link /\ rxA' = rxA /\ rxB' = rxB
    BY <1>4 DEF Lose, KeyExpires
  <2>2. SocketInv'
    BY <1>1, <2>1 DEF IInv, SocketInv
  <2>3. \A t \in Tags : keys'[t] # Free => Received(rxA)' = {}
    BY <1>2, <2>1 DEF IInv, KeyInv, Received
  <2> QED BY <1>3a, <2>1, <2>2, <2>3 DEF IInv, FlightInv, InFlight, Received
<1>5. CASE DeliverRequest
  <2>1. PICK m \in link :
          /\ m.to
          /\ link' = link \ {m}
          /\ rxB' = IF rsPc \in Exited THEN rxB
                    ELSE [rxB EXCEPT ![m.type] = @ \cup {m}]
    BY <1>5 DEF DeliverRequest
  <2>2. rxA' = rxA
    BY <1>5 DEF DeliverRequest
  <2>3. m \in InFlight /\ m \in Message /\ m.type \in Types
    BY DEF InFlight, IInv, TypeOK, Message
  <2>4. link' = {} /\ Received(rxA) = {} /\ Received(rxB) = {}
    BY <2>1, <2>3 DEF IInv, FlightInv, InFlight
  <2>5. \A r \in Types : rxB'[r] = {} \/ (rxB'[r] = {m} /\ m.type = r)
    BY <2>1, <2>3, <2>4 DEF Received, Types, IInv, TypeOK
  <2>6. SocketInv'
    BY <1>1, <2>1, <2>2, <2>5 DEF IInv, SocketInv
  <2>7. InFlight' \subseteq InFlight
    BY <2>2, <2>3, <2>4, <2>5 DEF InFlight, Received, Types
  <2>8. Received(rxA)' = {} /\ rxA'[SPDM] = {}
    BY <2>2, <2>4 DEF Received
  <2>9. Received(rxB)' = {} \/ link' = {}
    BY <2>4
  <2> QED BY <1>3a, <2>4, <2>6, <2>7, <2>8
<1>6. CASE DeliverReply
  <2>1. PICK m \in link :
          /\ ~m.to
          /\ link' = link \ {m}
          /\ rxA' = IF keys[m.tag] = Free THEN rxA
                    ELSE [rxA EXCEPT ![keys[m.tag]] = @ \cup {m}]
          /\ keys' = [keys EXCEPT ![m.tag] = Free]
    BY <1>6 DEF DeliverReply
  <2>2. rxB' = rxB
    BY <1>6 DEF DeliverReply
  <2>3. m \in InFlight /\ m \in Message /\ m.type \in Types /\ m.tag \in Tags
    BY DEF InFlight, IInv, TypeOK, Message
  <2>4. link' = {} /\ Received(rxA) = {} /\ Received(rxB) = {}
    BY <2>1, <2>3 DEF IInv, FlightInv, InFlight
  <2>5. PICK s \in Types :
          \A r \in Types : rxA'[r] \subseteq IF r = s /\ s = TypeOf(sent[nRead]) THEN {m} ELSE {}
    <3>1. CASE keys[m.tag] = Free
      BY <2>1, <2>3, <2>4, <3>1 DEF Received, Types
    <3>2. CASE keys[m.tag] # Free
      <4>1. keys[m.tag] \in Types /\ keys[m.tag] = TypeOf(sent[nRead])
        BY <2>3, <3>2 DEF IInv, TypeOK, KeyInv
      <4>2. rxA' = [rxA EXCEPT ![keys[m.tag]] = @ \cup {m}]
        BY <2>1, <3>2
      <4> QED BY <2>4, <4>1, <4>2 DEF Received, Types, IInv, TypeOK
    <3> QED BY <3>1, <3>2
  <2>6. SocketInv'
    BY <1>1, <2>1, <2>2, <2>5 DEF IInv, SocketInv
  <2>7. InFlight' \subseteq InFlight
    BY <2>2, <2>3, <2>4, <2>5 DEF InFlight, Received, Types
  <2>8. \A t \in Tags : keys'[t] = Free
    BY <2>1, <2>3 DEF IInv, KeyInv, TypeOK
  <2>9. rxA'[SPDM] = {} \/ rxA'[CTRL] = {}
    BY <2>5 DEF Types, SPDM, CTRL
  <2> QED BY <1>3a, <2>4, <2>6, <2>7, <2>8, <2>9
<1> QED BY <1>4, <1>5, <1>6

\* A request forwarded to the responder emulator.
LEMMA RspForwardInv ==
    ASSUME IInv, TypeOK', RspForward
    PROVE  IInv'
<1> USE DEF emuVars, rqVars, rsVars
<1>1. PICK s \in Types : \E m \in rxB[s] :
        IF Refused(s, m.body)
        THEN RspExit("died") /\ UNCHANGED <<fwd, from, rsCount>>
        ELSE RspForwardRelay(s, m)
  BY DEF RspForward
<1>2. PICK m \in rxB[s] :
        IF Refused(s, m.body)
        THEN RspExit("died") /\ UNCHANGED <<fwd, from, rsCount>>
        ELSE RspForwardRelay(s, m)
  BY <1>1
<1> DEFINE g == FromWire(s, m.body)
<1>3. /\ rsPc = "poll" /\ nRead' = nRead /\ sent' = sent /\ rep' = rep /\ ans' = ans
      /\ link' = link /\ rxA' = rxA /\ rqPc' = rqPc /\ keys' = keys
      /\ rqCount' = rqCount
  BY DEF RspForward
<1>4. s = SPDM \/ s = CTRL
  BY DEF Types
<1>5. m \in Received(rxB) /\ m \in InFlight
  BY <1>4 DEF Received, InFlight
<1>6. /\ nRead \in Nat /\ Len(rep) \in Nat /\ Len(fwd) \in Nat /\ Len(ans) \in Nat
      /\ nRead <= Len(sent) /\ fwd \in Seq(Frame) /\ sent \in Seq(Frame)
  BY DEF IInv, TypeOK
<1>7. m.to /\ m.type = s
  BY DEF IInv, SocketInv
<1>8. nRead = Len(fwd) + 1 /\ Carries(m, sent[nRead])
  BY <1>5, <1>7 DEF IInv, FlightInv
<1>9. rqPc \in {"wait", "died"} /\ nRead = Len(rep) + 1 /\ Len(rep) <= Len(ans)
      /\ Len(ans) <= Len(fwd)
  BY <1>5 DEF IInv, StreamInv
<1>10. /\ link = {} /\ Received(rxA) = {}
       /\ \A r \in Types : rxB'[r] = {}
  <2>1. link = {}
    BY <1>5 DEF IInv, FlightInv
  <2>2. Received(rxA) = {}
    <3>1. ASSUME NEW n \in Received(rxA) PROVE FALSE
      <4>1. n = m
        BY <1>5 DEF IInv, FlightInv, InFlight
      <4>2. ~n.to
        BY DEF IInv, SocketInv, Received, Types
      <4> QED BY <1>7, <4>1, <4>2
    <3> QED BY <3>1
  <2>3. \A r \in Types : rxB[r] \subseteq IF r = s THEN {m} ELSE {}
    <3>1. ASSUME NEW r \in Types, NEW n \in rxB[r] PROVE n = m /\ r = s
      <4>1. n \in InFlight /\ n.type = r
        BY DEF InFlight, Received, Types, IInv, SocketInv
      <4> QED BY <1>5, <1>7, <4>1 DEF IInv, FlightInv
    <3> QED BY <3>1
  <2>4. \A r \in Types : rxB'[r] = {} \/ rxB'[r] = rxB[r] \/ rxB'[r] = rxB[r] \ {m}
    BY <1>2 DEF RspExit, RspForwardRelay, NoMessages, IInv, TypeOK
  <2>5. rxB'[s] = {} \/ rxB'[s] = rxB[s] \ {m}
    BY <1>2 DEF RspExit, RspForwardRelay, NoMessages, IInv, TypeOK
  <2> QED BY <2>1, <2>2, <2>3, <2>4, <2>5
<1>11. InFlight' = {}
  BY <1>3, <1>10 DEF InFlight, Received, Types
<1>12. \/ /\ rsPc' = "died" /\ fwd' = fwd /\ rsCount' = rsCount /\ from' = from
       \/ /\ rsPc' = "answer" /\ fwd' = Append(fwd, g) /\ from' = m.tag
          /\ rsCount' = [rsCount EXCEPT ![s] = @ + 1]
  BY <1>2 DEF RspExit, RspForwardRelay
<1>13. g = sent[nRead]
  <2>1. sent[nRead] \in Frame
    BY <1>6, <1>8
  <2> QED BY <1>7, <1>8, <2>1, RoundTrip DEF Carries
<1>14. Len(fwd') \in Nat /\ (Len(fwd') = Len(fwd) \/ Len(fwd') = nRead)
       /\ (rsPc' = "answer" => Len(fwd') = nRead)
  BY <1>6, <1>8, <1>12
<1>15. StreamInv'
  BY <1>3, <1>6, <1>8, <1>9, <1>11, <1>12, <1>14 DEF StreamInv
<1>16. FlightInv'
  BY <1>3, <1>10, <1>11 DEF IInv, FlightInv
<1>17. KeyInv'
  BY <1>3, <1>5, <1>11, <1>12 DEF IInv, KeyInv, Received
<1>18. SocketInv'
  BY <1>3, <1>10 DEF IInv, SocketInv
<1>19. CountInv'
  <2>1. rqPc = "wait" => rqCount = [rsCount EXCEPT ![TypeOf(sent[nRead])] = @ + 1]
    BY <1>6, <1>8 DEF IInv, CountInv
  <2>2. TypeOf(sent[nRead]) = s
    BY <1>7, <1>8 DEF Carries
  <2>3. CASE rsPc' = "died" /\ fwd' = fwd /\ rsCount' = rsCount
    BY <1>3, <1>6, <1>8, <1>9, <2>1, <2>3 DEF CountInv
  <2>4. CASE fwd' = Append(fwd, g) /\ rsCount' = [rsCount EXCEPT ![s] = @ + 1]
    BY <1>3, <1>6, <1>8, <1>9, <2>1, <2>2, <2>4 DEF CountInv
  <2> QED BY <1>12, <2>3, <2>4
<1>20. RelayInv'
  <2>1. \A i \in 1 .. Len(fwd') : fwd'[i] = sent[i]
    BY <1>6, <1>8, <1>12, <1>13 DEF IInv, RelayInv
  <2>2. \A i \in 1 .. Len(ans) : fwd'[i] = fwd[i]
    BY <1>6, <1>9, <1>12
  <2> QED BY <1>3, <2>1, <2>2 DEF IInv, RelayInv
<1>21. ShutdownEndsBoth'
  BY <1>3 DEF IInv, ShutdownEndsBoth
<1> QED BY <1>15, <1>16, <1>17, <1>18, <1>19, <1>20, <1>21 DEF IInv

\* An answer sent back, and the emulator producing it.
LEMMA RspReplyInv ==
    ASSUME IInv, TypeOK', RspReply
    PROVE  IInv'
<1> USE DEF emuVars, rqVars, rsVars
<1> DEFINE rsp == [to |-> FALSE, tag |-> from, type |-> TypeOf(AnswerRead),
                   body |-> ToWire(AnswerRead)]
<1>1. /\ rsPc = "answer" /\ Len(ans) >= Len(fwd) /\ WellFormed(AnswerRead)
      /\ link' = link \cup {rsp}
      /\ sent' = sent /\ rep' = rep /\ fwd' = fwd /\ ans' = ans /\ rxA' = rxA
      /\ rqPc' = rqPc /\ nRead' = nRead /\ rqCount' = rqCount /\ keys' = keys
      /\ from' = from /\ rsCount' = rsCount
      /\ rsPc' = IF AnswerRead.cmd = SHUTDOWN THEN "ok" ELSE "poll"
  BY DEF RspReply, RspExit
<1>2. /\ nRead \in Nat /\ Len(rep) \in Nat /\ Len(fwd) \in Nat /\ Len(ans) \in Nat
  BY DEF IInv, TypeOK
<1>3. /\ InFlight = {} /\ Len(fwd) = nRead /\ Len(ans) = nRead /\ Len(rep) < nRead
      /\ rqPc \in {"wait", "died"} /\ nRead = Len(rep) + 1
  BY <1>1, <1>2 DEF IInv, StreamInv
<1>4. link' = {rsp} /\ Received(rxA)' = {} /\ rxA'[SPDM] = {} /\ rxA'[CTRL] = {}
  BY <1>1, <1>3 DEF InFlight, Received
<1>5. \A r \in Types : rxB'[r] = {}
  <2>1. \A r \in Types : rxB[r] = {}
    BY <1>3 DEF InFlight, Received, Types
  <2> QED BY <2>1 DEF RspReply, RspExit, NoMessages
<1>6. Received(rxB)' = {} /\ InFlight' = {rsp}
  BY <1>4, <1>5 DEF InFlight, Received, Types
<1>7. AnswerRead = ans[nRead]
  BY <1>3 DEF AnswerRead
<1>8. StreamInv'
  BY <1>1, <1>2, <1>3 DEF StreamInv
<1>9. FlightInv'
  <2>1. ~rsp.to /\ Carries(rsp, ans[nRead])
    BY <1>1, <1>7 DEF Carries
  <2>2. /\ \A m, n \in InFlight' : m = n
        /\ \A m \in InFlight' : ~m.to /\ Carries(m, ans'[nRead'])
    BY <1>1, <1>6, <2>1
  <2> QED BY <1>1, <1>3, <1>4, <1>6, <1>7, <2>2 DEF FlightInv
<1>10. KeyInv'
  <2>1. \A m \in InFlight' : m.tag = from
    BY <1>6
  <2> QED BY <1>1, <1>4, <2>1 DEF IInv, KeyInv
<1>11. SocketInv'
  BY <1>1, <1>5 DEF IInv, SocketInv
<1>12. CountInv' /\ RelayInv'
  BY <1>1 DEF IInv, CountInv, RelayInv
<1>13. ShutdownEndsBoth'
  BY <1>1 DEF IInv, ShutdownEndsBoth
<1> QED BY <1>8, <1>9, <1>10, <1>11, <1>12, <1>13 DEF IInv

LEMMA EmuAnswerInv ==
    ASSUME IInv, TypeOK', EmuAnswer
    PROVE  IInv'
<1> USE DEF emuVars, rqVars, rsVars
<1>1. /\ rsPc = "answer" /\ Len(ans) < Len(fwd)
      /\ sent' = sent /\ rep' = rep /\ fwd' = fwd /\ rxA' = rxA /\ rxB' = rxB
      /\ rqPc' = rqPc /\ nRead' = nRead /\ rqCount' = rqCount /\ keys' = keys
      /\ from' = from /\ rsCount' = rsCount /\ rsPc' = rsPc /\ link' = link
  BY DEF EmuAnswer
<1>2. PICK g \in RspFrames : Answers(g, fwd[Len(ans) + 1]) /\ ans' = Append(ans, g)
  BY DEF EmuAnswer
<1>3. /\ ans \in Seq(Frame) /\ g \in Frame
      /\ Len(rep) \in Nat /\ Len(fwd) \in Nat /\ Len(ans) \in Nat
  BY FramesAssumption DEF IInv, TypeOK
<1>4. Len(ans') = Len(ans) + 1 /\ \A i \in 1 .. Len(ans) : ans'[i] = ans[i]
  BY <1>2, <1>3
<1>5. InFlight = {} /\ InFlight' = {} /\ Len(rep) <= Len(ans)
  BY <1>1 DEF IInv, StreamInv, InFlight, Received
<1>6. StreamInv'
  BY <1>1, <1>3, <1>4, <1>5 DEF IInv, StreamInv
<1>7. FlightInv'
  BY <1>1, <1>5 DEF IInv, FlightInv, Received
<1>8. KeyInv'
  BY <1>1, <1>5 DEF IInv, KeyInv, Received
<1>9. SocketInv' /\ CountInv' /\ ShutdownEndsBoth'
  BY <1>1 DEF IInv, SocketInv, CountInv, ShutdownEndsBoth
<1>10. RelayInv'
  <2>1. \A i \in 1 .. Len(ans') : Answers(ans'[i], fwd[i])
    <3>1. \A i \in 1 .. Len(ans) : Answers(ans'[i], fwd[i])
      BY <1>4 DEF IInv, RelayInv
    <3>2. Answers(ans'[Len(ans) + 1], fwd[Len(ans) + 1])
      BY <1>2, <1>3
    <3> QED BY <1>3, <1>4, <3>1, <3>2
  <2>2. \A i \in 1 .. Len(rep) : rep[i] = Handed(sent[i], ans'[i])
    BY <1>3, <1>4, <1>5 DEF IInv, RelayInv
  <2>3. \A i \in 1 .. Len(ans') : ans'[i] \in RspFrames
    BY <1>2, <1>3 DEF IInv, RelayInv
  <2> QED BY <1>1, <2>1, <2>2, <2>3 DEF IInv, RelayInv
<1> QED BY <1>6, <1>7, <1>8, <1>9, <1>10 DEF IInv

\* The responder bridge connects or dies, and its emulator starts or stops.
LEMMA RspEndInv ==
    ASSUME IInv, TypeOK',
           RspConnect \/ RspConnectDies \/ RspTcpDies \/ RspReplyDies \/ RspEmuMove
    PROVE  IInv'
<1> USE DEF emuVars, rqVars, rsVars
<1>1. /\ sent' = sent /\ rep' = rep /\ fwd' = fwd /\ ans' = ans /\ link' = link
      /\ rxA' = rxA /\ from' = from /\ rsCount' = rsCount /\ rqCount' = rqCount
      /\ rqPc' = rqPc /\ nRead' = nRead /\ keys' = keys
      /\ rxB' \in {rxB, NoMessages}
      /\ rsPc' = rsPc \/ (rsPc # "ok" /\ rsPc' # "answer")
  BY DEF RspConnect, RspConnectDies, RspTcpDies, RspReplyDies, RspEmuMove, RspExit
<1>2. \A r \in Types : rxB'[r] \subseteq rxB[r]
  BY <1>1 DEF NoMessages
<1>3. Received(rxB)' \subseteq Received(rxB) /\ InFlight' \subseteq InFlight
      /\ Received(rxA)' = Received(rxA)
  BY <1>1, <1>2 DEF Received, InFlight, Types
<1>4. StreamInv'
  BY <1>1, <1>3 DEF IInv, StreamInv
<1>5. FlightInv'
  <2>1. link' = {} \/ (Received(rxA) \cup Received(rxB))' = {}
    BY <1>1, <1>3 DEF IInv, FlightInv
  <2>2. rsPc = "ok" => rsPc' = "ok"
    BY <1>1
  <2> QED BY <1>1, <1>3, <2>1, <2>2 DEF IInv, FlightInv
<1>6. KeyInv'
  BY <1>1, <1>3 DEF IInv, KeyInv
<1>7. SocketInv'
  BY <1>1, <1>2 DEF IInv, SocketInv
<1>8. CountInv' /\ RelayInv' /\ ShutdownEndsBoth'
  BY <1>1 DEF IInv, CountInv, RelayInv, ShutdownEndsBoth
<1> QED BY <1>4, <1>5, <1>6, <1>7, <1>8 DEF IInv

LEMMA IInvNext == IInv /\ [Next]_vars => IInv'
<1> SUFFICES ASSUME IInv, [Next]_vars PROVE IInv'
  OBVIOUS
<1>1. TypeOK'
  BY TypeNext DEF IInv
<1>2. CASE EmuWrite \/ EmuClose
  BY <1>1, <1>2, EmuStepInv
<1>3. CASE ReqForward
  BY <1>1, <1>3, ReqForwardInv
<1>4. CASE ReqAccept \/ ReqSocketDies \/ ReqSendDies \/ ReqEof \/ ReqTimeout \/ ReqWriteDies
  BY <1>1, <1>4, ReqEndInv
<1>5. CASE ReqReceive
  BY <1>1, <1>5, ReqReceiveInv
<1>6. CASE DeliverRequest \/ DeliverReply \/ Lose \/ KeyExpires
  BY <1>1, <1>6, KernelInv
<1>7. CASE RspForward
  BY <1>1, <1>7, RspForwardInv
<1>8. CASE RspReply
  BY <1>1, <1>8, RspReplyInv
<1>9. CASE EmuAnswer
  BY <1>1, <1>9, EmuAnswerInv
<1>10. CASE RspConnect \/ RspConnectDies \/ RspTcpDies \/ RspReplyDies \/ RspEmuMove
  BY <1>1, <1>10, RspEndInv
<1>11. CASE UNCHANGED vars
  BY <1>1, <1>11 DEF vars, IInv, StreamInv, FlightInv, KeyInv, SocketInv, CountInv,
     RelayInv, ShutdownEndsBoth, InFlight, Received, Carries
<1> QED
  BY <1>2, <1>3, <1>4, <1>5, <1>6, <1>7, <1>8, <1>9, <1>10, <1>11
     DEF Next, ReqStep, RspStep

\* IInv is inductive, so it holds in every reachable state.
THEOREM Inductive == Spec => []IInv
BY IInvInit, IInvNext, PTL DEF Spec

-----------------------------------------------------------------------------
(* The safety properties.                                                  *)

\* However many tags the kernel has, the pair never holds two of them and
\* never has two messages under way.
THEOREM OneExchangeHolds == Spec => []OneExchange
<1>1. IInv => OneExchange
  BY DEF IInv, OneExchange, StreamInv, FlightInv, KeyInv
<1> QED BY Inductive, <1>1, PTL

\* Type 0x05 traffic is SPDM messages, whatever the emulators write.
THEOREM SpdmTypeHolds == Spec => []SpdmTypeIsSpdmOnly
<1>1. IInv => SpdmTypeIsSpdmOnly
  <2> SUFFICES ASSUME IInv, NEW m \in link, m.type = SPDM
               PROVE  LET stream == IF m.to THEN sent ELSE ans IN
                      \E i \in 1 .. Len(stream) :
                        stream[i] = [cmd |-> NORMAL, buf |-> <<SPDM>> \o m.body]
    BY DEF SpdmTypeIsSpdmOnly
  <2> DEFINE stream == IF m.to THEN sent ELSE ans
  <2>1. m \in InFlight
    BY DEF InFlight
  <2>2. Carries(m, stream[nRead])
    BY <2>1 DEF IInv, FlightInv
  <2>3. nRead \in 1 .. Len(stream)
    <3>1. /\ nRead \in 0 .. Len(sent) /\ Len(rep) \in Nat /\ Len(fwd) \in Nat
          /\ Len(ans) \in Nat
      BY DEF IInv, TypeOK
    <3>2. nRead = Len(rep) + 1
      BY <2>1 DEF IInv, StreamInv
    <3> QED BY <2>1, <3>1, <3>2 DEF IInv, FlightInv
  <2>4. stream[nRead] \in Frame
    BY <2>3 DEF IInv, TypeOK
  <2>5. FromWire(m.type, m.body) = stream[nRead]
    BY <2>2, <2>4, RoundTrip DEF Carries
  <2> QED BY <2>3, <2>5 DEF FromWire
<1> QED BY Inductive, <1>1, PTL

\* Exit status 0 of the requester bridge accounts for the conversation.
THEOREM CleanExitHolds == Spec => []CleanExitAccounts
<1>1. IInv => CleanExitAccounts
  BY DEF IInv, CleanExitAccounts, StreamInv, CountInv
<1> QED BY Inductive, <1>1, PTL

\* An acknowledged SHUTDOWN ends both bridges, on whatever sockets the replies
\* before it have arrived.
THEOREM ShutdownHolds == Spec => []ShutdownEndsBoth
<1>1. IInv => ShutdownEndsBoth
  BY DEF IInv
<1> QED BY Inductive, <1>1, PTL

-----------------------------------------------------------------------------
(* The bridge pair implements the direct link.                             *)

\* The pair is one socket between the emulators: each step of it is a step of
\* DirectLink or invisible there, and an answer reaches the emulator that asked
\* unchanged but for the type its request's socket gives it.
THEOREM RelayHolds == Spec => RelayAsAsked
<1> USE DEF emuVars, rqVars, rsVars
<1>1. Init => Asked!Init
  BY DEF Init, Asked!Init
<1>2. IInv /\ [Next]_vars => [Asked!Next]_(Asked!linkVars)
  <2> SUFFICES ASSUME IInv, [Next]_vars PROVE [Asked!Next]_(Asked!linkVars)
    OBVIOUS
  <2>1. /\ nRead \in Nat /\ Len(rep) \in Nat /\ Len(fwd) \in Nat /\ Len(ans) \in Nat
        /\ nRead <= Len(sent) /\ sent \in Seq(Frame) /\ ans \in Seq(Frame)
    BY DEF IInv, TypeOK
  <2>2. CASE EmuWrite
    BY <2>2 DEF EmuWrite, Asked!Next, Asked!Write, Frames
  <2>3. CASE RspForward
    <3>1. PICK s \in Types : \E m \in rxB[s] :
            IF Refused(s, m.body)
            THEN RspExit("died") /\ UNCHANGED <<fwd, from, rsCount>>
            ELSE RspForwardRelay(s, m)
      BY <2>3 DEF RspForward
    <3>2. PICK m \in rxB[s] :
            IF Refused(s, m.body)
            THEN RspExit("died") /\ UNCHANGED <<fwd, from, rsCount>>
            ELSE RspForwardRelay(s, m)
      BY <3>1
    <3>3. sent' = sent /\ rep' = rep /\ ans' = ans
      BY <2>3 DEF RspForward
    <3>4. m \in InFlight /\ m.to /\ m.type = s
      BY DEF InFlight, Received, Types, IInv, SocketInv
    <3>5. nRead = Len(fwd) + 1 /\ nRead = Len(rep) + 1 /\ Carries(m, sent[nRead])
      BY <3>4 DEF IInv, FlightInv, StreamInv
    <3>6. FromWire(s, m.body) = sent[nRead]
      <4>1. sent[nRead] \in Frame
        BY <2>1, <3>5
      <4> QED BY <3>4, <3>5, <4>1, RoundTrip DEF Carries
    <3>7. fwd' = fwd \/ fwd' = Append(fwd, sent[Len(fwd) + 1])
      BY <3>2, <3>5, <3>6 DEF RspForwardRelay
    <3>8. Len(fwd) < Len(sent) /\ Len(rep) = Len(fwd)
      BY <2>1, <3>5
    <3> QED BY <3>3, <3>7, <3>8 DEF Asked!Next, Asked!Forward, Asked!linkVars
  <2>4. CASE EmuAnswer
    BY <2>4 DEF EmuAnswer, Asked!Next, Asked!Answer, Frames
  <2>5. CASE ReqReceive
    <3>1. PICK s \in Types : \E m \in rxA[s] :
            IF Refused(s, m.body) THEN ReqExit("died") /\ rep' = rep
            ELSE ReqRelay(s, m)
      BY <2>5 DEF ReqReceive
    <3>2. PICK m \in rxA[s] :
            IF Refused(s, m.body) THEN ReqExit("died") /\ rep' = rep
            ELSE ReqRelay(s, m)
      BY <3>1
    <3>3. sent' = sent /\ fwd' = fwd /\ ans' = ans
      BY <2>5 DEF ReqReceive
    <3>4. m \in InFlight /\ ~m.to /\ s = TypeOf(sent[nRead])
      BY DEF InFlight, Received, Types, IInv, SocketInv
    <3>5. nRead = Len(ans) /\ nRead = Len(rep) + 1 /\ Carries(m, ans[nRead])
      BY <3>4 DEF IInv, FlightInv, StreamInv
    <3>6. FromWire(s, m.body) = Handed(sent[nRead], ans[nRead])
      BY <2>1, <3>4, <3>5, ReplyIsHanded
    <3>7. rep' = rep \/ rep' = Append(rep, Handed(sent[nRead], ans[nRead]))
      BY <3>2, <3>6 DEF ReqRelay
    <3>8. sent[nRead] \in Frames /\ ans[nRead] \in Frames
      BY <2>1, <3>5 DEF IInv, RelayInv, Frames
    <3>9. [p \in Frames \X Frames |-> Handed(p[1], p[2])][<<sent[nRead], ans[nRead]>>]
            = Handed(sent[nRead], ans[nRead])
      BY <3>8
    <3>10. Len(rep) < Len(ans)
      BY <2>1, <3>5
    <3> QED BY <3>3, <3>5, <3>7, <3>9, <3>10 DEF Asked!Next, Asked!Return, Asked!linkVars
  <2>6. CASE UNCHANGED <<sent, fwd, ans, rep>>
    BY <2>6 DEF Asked!linkVars
  <2>7. EmuWrite \/ RspForward \/ EmuAnswer \/ ReqReceive \/ UNCHANGED <<sent, fwd, ans, rep>>
    BY DEF Next, vars, ReqStep, RspStep, EmuClose, ReqAccept, ReqForward, ReqSend,
       ReqSocketDies, ReqSendDies, ReqEof, ReqTimeout, ReqWriteDies, DeliverRequest, DeliverReply,
       Lose, KeyExpires, RspConnect, RspConnectDies, RspTcpDies, RspReply,
       RspReplyDies, RspEmuMove
  <2> QED BY <2>2, <2>3, <2>4, <2>5, <2>6, <2>7
<1>3. Spec => [][Asked!Next]_(Asked!linkVars)
  BY Inductive, <1>2, PTL DEF Spec
<1>4. Spec => Asked!Init
  BY <1>1, PTL DEF Spec
<1> QED BY <1>3, <1>4, PTL DEF RelayAsAsked, Asked!Spec
=============================================================================
