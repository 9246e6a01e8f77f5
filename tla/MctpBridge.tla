---------------------------- MODULE MctpBridge ----------------------------
(***************************************************************************)
(* The bridge pair of transport/mctp_bridge.c (roles "requester" and       *)
(* "responder"), the two kernels' MCTP message layer between them and the  *)
(* two emulators at its TCP ends.                                          *)
(*                                                                         *)
(*   requester emulator --sent-->  requester bridge --link--> responder    *)
(*                      <--rep---                   <--link-- bridge       *)
(*                                         responder bridge --fwd--> emu   *)
(*                                                          <--ans---      *)
(*                                                                         *)
(* A TCP stream is the sequence of the frames written to it so far; its    *)
(* reader keeps its own position.  Both emulators are external, and so is  *)
(* the kernel: it is modelled by what the bridge's code relies on (a tag   *)
(* per request whose key a socket holds, delivery of requests by bound     *)
(* type and of replies by key, keys that expire, loss).                    *)
(***************************************************************************)
EXTENDS Naturals, Sequences, FiniteSets

SPDM == 5               \* MCTP_TYPE_SPDM
CTRL == 126             \* MCTP_TYPE_CTRL
Types == {SPDM, CTRL}
Free == 0               \* a tag no key holds

NORMAL   == 1           \* SOCK_CMD_NORMAL
CONTINUE == 65533       \* SOCK_CMD_CONTINUE
SHUTDOWN == 65534       \* SOCK_CMD_SHUTDOWN
UNKNOWN  == 65535       \* SOCK_CMD_UNKNOWN
TEST     == 57005       \* SOCK_CMD_TEST

\* struct frame.  The transport word is not part of it: a bridge writes
\* SOCK_TRANS_MCTP in every frame, and an emulator writes the one it was
\* started with (reqTrans below).
Frame == [cmd : Nat, buf : Seq(Nat)]

CONSTANTS
    Tags,           \* the tags a kernel can allocate towards one peer
    ReqFrames,      \* frames the requester emulator may write
    RspFrames,      \* frames the responder emulator may answer with
    BufMax,         \* BUF_MAX
    Window,         \* frames the requester emulator writes ahead of replies
    MaxFrames       \* bound: frames in one conversation

ASSUME FramesAssumption == ReqFrames \subseteq Frame /\ RspFrames \subseteq Frame
ASSUME TagsAssumption == Free \notin Tags
ASSUME BoundsAssumption == BufMax \in Nat /\ Window \in Nat /\ MaxFrames \in Nat
\* No emulator control frame comes near BUF_MAX (the longest carries "Client
\* Hello!"), so the command word always fits in front of its payload.
ASSUME CtrlFitsAssumption ==
    \A f \in ReqFrames \cup RspFrames :
        f.cmd # NORMAL /\ Len(f.buf) <= BufMax => Len(f.buf) < BufMax

VARIABLES
    reqTrans,       \* TRUE: the requester emulator runs with --trans MCTP
    reqEmu,         \* its end of the TCP connection: "starting", "open",
                    \* "closed" after a whole frame, or "cut" inside one
    sent, rep,      \* the two directions of that connection
    rqPc,           \* requester bridge: "accept", "read", "wait", or its exit
    nRead,          \* frames it has read from sent
    rqCount,        \* its n_spdm and n_ctrl
    keys,           \* its kernel: tag -> type of the socket that holds it
    rxA,            \* its sockets' receive queues
    link,           \* messages on the wire, both directions
    rxB,            \* the responder bridge's receive queues
    rsPc,           \* responder bridge: "connect", "poll", "answer", its exit
    from,           \* tag of the request it is answering
    rsCount,        \* its n_spdm and n_ctrl
    fwd, ans,       \* the two directions of its connection to the emulator
    rspEmu          \* the responder emulator: "starting", "up" or "closed"

emuVars == <<reqTrans, reqEmu, sent>>
rqVars  == <<rqPc, nRead, rqCount>>
rsVars  == <<rsPc, from, rsCount>>
vars == <<reqTrans, reqEmu, sent, rep, rqPc, nRead, rqCount, keys, rxA, link,
          rxB, rsPc, from, rsCount, fwd, ans, rspEmu>>

Message == [to : BOOLEAN, tag : Tags, type : Types, body : Seq(Nat)]
Exited == {"ok", "died"}            \* exit status 0, and die()'s 1
NoMessages == [s \in Types |-> {}]

Init ==
    /\ reqTrans \in BOOLEAN
    /\ reqEmu = "starting" /\ sent = <<>> /\ rep = <<>>
    /\ rqPc = "accept" /\ nRead = 0 /\ rqCount = [s \in Types |-> 0]
    /\ keys = [t \in Tags |-> Free]
    /\ rxA = NoMessages /\ link = {} /\ rxB = NoMessages
    /\ rsPc = "connect" /\ from \in Tags /\ rsCount = [s \in Types |-> 0]
    /\ fwd = <<>> /\ ans = <<>> /\ rspEmu = "starting"

-----------------------------------------------------------------------------
(* Framing: what both bridges do to a payload in either direction.         *)

TypeOf(f) == IF f.cmd = NORMAL THEN SPDM ELSE CTRL

\* The body handed to sendto(): the type byte goes, a command word comes.
ToWireKeepingTypeByte(f) ==
    IF f.cmd = NORMAL THEN f.buf ELSE <<f.cmd>> \o f.buf

ToWire(f) == IF f.cmd = NORMAL THEN Tail(f.buf) ELSE <<f.cmd>> \o f.buf

\* The frame rebuilt from a body that arrived on the socket bound to s.
FromWireAsItCame(s, body) ==
    IF s = SPDM THEN [cmd |-> NORMAL, buf |-> body]
    ELSE [cmd |-> Head(body), buf |-> Tail(body)]

FromWire(s, body) ==
    IF s = SPDM THEN [cmd |-> NORMAL, buf |-> <<SPDM>> \o body]
    ELSE [cmd |-> Head(body), buf |-> Tail(body)]

\* What the emulator that wrote f is handed for answer g: the reply arrives on
\* the socket f was sent from, which is taken to say what kind of frame it is.
Handed(f, g) == IF TypeOf(g) = TypeOf(f) THEN g ELSE FromWire(TypeOf(f), ToWire(g))

\* The lengths at which a bridge would rather die than rebuild a frame:
\* truncated by the buffer, too large to re-frame, or no command word.
Refused(s, body) ==
    \/ Len(body) > BufMax
    \/ s = SPDM /\ Len(body) + 1 > BufMax
    \/ s = CTRL /\ body = <<>>

\* frame_read's limit and the checks on a NORMAL payload.
WellFormed(f) ==
    /\ Len(f.buf) <= BufMax
    /\ f.cmd = NORMAL => f.buf # <<>> /\ Head(f.buf) = SPDM

\* poll() found both sockets readable: the code takes the SPDM one.
Ready(rx, s) == rx[s] # {} /\ (s = CTRL => rx[SPDM] = {})

-----------------------------------------------------------------------------
(* The requester emulator (external).                                      *)

EmuWrite ==
    /\ reqEmu = "open" /\ rqPc \notin Exited
    /\ Len(sent) < MaxFrames /\ Len(sent) < Len(rep) + Window
    /\ \E f \in ReqFrames : sent' = Append(sent, f)
    /\ UNCHANGED <<reqTrans, reqEmu, rep, rqVars, keys, rxA, link, rxB, rsVars,
                   fwd, ans, rspEmu>>

EmuClose ==
    /\ reqEmu = "open"
    /\ reqEmu' \in {"closed", "cut"}
    /\ UNCHANGED <<reqTrans, sent, rep, rqVars, keys, rxA, link, rxB, rsVars,
                   fwd, ans, rspEmu>>

-----------------------------------------------------------------------------
(* The requester bridge, role_requester().                                 *)

\* The process ends: its sockets close, and with them its keys.
ReqExit(status) ==
    /\ rqPc' = status
    /\ keys' = [t \in Tags |-> Free]
    /\ rxA' = NoMessages

ReqAccept ==
    /\ rqPc = "accept" /\ reqEmu = "starting"
    /\ rqPc' = "read" /\ reqEmu' = "open"
    /\ UNCHANGED <<reqTrans, sent, rep, nRead, rqCount, keys, rxA, link, rxB,
                   rsVars, fwd, ans, rspEmu>>

\* die(): a socket cannot be set up, or the emulator's end is reset.
ReqSocketDies ==
    /\ \/ rqPc = "accept"
       \/ rqPc = "read" /\ reqEmu \in {"closed", "cut"}
    /\ ReqExit("died")
    /\ UNCHANGED <<emuVars, rep, nRead, rqCount, link, rxB, rsVars, fwd, ans,
                   rspEmu>>

ReqAcceptable(f) == WellFormed(f) /\ (f.cmd = NORMAL => reqTrans)

\* One sendto with TO set; the kernel allocates the tag.
ReqSend(f, tag) ==
    /\ keys[tag] = Free
    /\ keys' = [keys EXCEPT ![tag] = TypeOf(f)]
    /\ link' = link \cup {[to |-> TRUE, tag |-> tag, type |-> TypeOf(f),
                           body |-> ToWire(f)]}
    /\ rqCount' = [rqCount EXCEPT ![TypeOf(f)] = @ + 1]
    /\ UNCHANGED <<emuVars, rep, rxA, rxB, rsVars, fwd, ans, rspEmu>>

ReqForwardStreaming ==
    /\ rqPc = "read" /\ nRead < Len(sent)
    /\ ReqAcceptable(sent[nRead + 1])
    /\ \E tag \in Tags : ReqSend(sent[nRead + 1], tag)
    /\ nRead' = nRead + 1
    /\ rqPc' \in {"read", "wait"}

ReqForwardMiscounting ==
    /\ rqPc = "read" /\ nRead < Len(sent)
    /\ ReqAcceptable(sent[nRead + 1])
    /\ \E tag \in Tags : ReqSend(sent[nRead + 1], tag)
    /\ nRead' = nRead + 2
    /\ rqPc' = "wait"

ReqForward ==
    /\ rqPc = "read" /\ nRead < Len(sent)
    /\ ReqAcceptable(sent[nRead + 1])
    /\ \E tag \in Tags : ReqSend(sent[nRead + 1], tag)
    /\ nRead' = nRead + 1
    /\ rqPc' = "wait"

\* die(): the frame fails a check, or sendto() fails (no route, no free tag).
ReqSendDies ==
    /\ rqPc = "read" /\ nRead < Len(sent)
    /\ nRead' = nRead + 1
    /\ ReqExit("died")
    /\ UNCHANGED <<emuVars, rep, rqCount, link, rxB, rsVars, fwd, ans, rspEmu>>

\* read_exact() meets EOF, between two frames or inside one.
ReqEofWholeFrames ==
    /\ rqPc = "read" /\ nRead = Len(sent) /\ reqEmu = "closed"
    /\ ReqExit("ok")
    /\ UNCHANGED <<emuVars, rep, nRead, rqCount, link, rxB, rsVars, fwd, ans,
                   rspEmu>>

ReqEof ==
    /\ rqPc = "read" /\ nRead = Len(sent) /\ reqEmu \in {"closed", "cut"}
    /\ ReqExit("ok")
    /\ UNCHANGED <<emuVars, rep, nRead, rqCount, link, rxB, rsVars, fwd, ans,
                   rspEmu>>

\* mctp_wait() gives up after --timeout milliseconds.
ReqTimeoutNever == rqPc = "wait" /\ FALSE /\ UNCHANGED vars

ReqTimeoutGoesOn ==
    /\ rqPc = "wait" /\ rxA = NoMessages
    /\ rqPc' = "read"
    /\ UNCHANGED <<emuVars, rep, nRead, rqCount, keys, rxA, link, rxB, rsVars,
                   fwd, ans, rspEmu>>

ReqTimeout ==
    /\ rqPc = "wait" /\ rxA = NoMessages
    /\ ReqExit("died")
    /\ UNCHANGED <<emuVars, rep, nRead, rqCount, link, rxB, rsVars, fwd, ans,
                   rspEmu>>

\* A reply is rebuilt and written to the emulator; SHUTDOWN ends the loop.
ReqRelay(s, m) ==
    LET g == FromWire(s, m.body) IN
    /\ rep' = Append(rep, g)
    /\ IF s = CTRL /\ g.cmd = SHUTDOWN
       THEN ReqExit("ok")
       ELSE /\ rqPc' = "read"
            /\ rxA' = [rxA EXCEPT ![s] = @ \ {m}]
            /\ keys' = keys

ReqReceive ==
    /\ rqPc = "wait"
    /\ \E s \in Types : Ready(rxA, s) /\ \E m \in rxA[s] :
         IF Refused(s, m.body) THEN ReqExit("died") /\ rep' = rep
         ELSE ReqRelay(s, m)
    /\ UNCHANGED <<emuVars, nRead, rqCount, link, rxB, rsVars, fwd, ans, rspEmu>>

\* The emulator is gone and write() says so.
ReqWriteDies ==
    /\ rqPc = "wait" /\ rxA # NoMessages /\ reqEmu \in {"closed", "cut"}
    /\ ReqExit("died")
    /\ UNCHANGED <<emuVars, rep, nRead, rqCount, link, rxB, rsVars, fwd, ans,
                   rspEmu>>

ReqStep == ReqAccept \/ ReqSocketDies \/ ReqForward \/ ReqSendDies \/ ReqEof
           \/ ReqTimeout \/ ReqReceive \/ ReqWriteDies

-----------------------------------------------------------------------------
(* The kernels and the link between them (external).                       *)

\* A request goes to the socket bound to its type, if one still is.
DeliverRequest ==
    /\ \E m \in link :
         /\ m.to
         /\ link' = link \ {m}
         /\ rxB' = IF rsPc \in Exited THEN rxB
                   ELSE [rxB EXCEPT ![m.type] = @ \cup {m}]
    /\ UNCHANGED <<emuVars, rep, rqVars, keys, rxA, rsVars, fwd, ans, rspEmu>>

\* A reply, TO cleared, is accepted only while its tag's key is held.  It goes
\* to the socket that holds the key, whatever its type, and releases the key.
DeliverReply ==
    /\ \E m \in link :
         /\ ~m.to
         /\ link' = link \ {m}
         /\ rxA' = IF keys[m.tag] = Free THEN rxA
                   ELSE [rxA EXCEPT ![keys[m.tag]] = @ \cup {m}]
         /\ keys' = [keys EXCEPT ![m.tag] = Free]
    /\ UNCHANGED <<emuVars, rep, rqVars, rxB, rsVars, fwd, ans, rspEmu>>

\* A lost packet loses the message it belongs to.
Lose ==
    /\ \E m \in link : link' = link \ {m}
    /\ UNCHANGED <<emuVars, rep, rqVars, keys, rxA, rxB, rsVars, fwd, ans, rspEmu>>

KeyExpires ==
    /\ \E tag \in Tags : keys[tag] # Free /\ keys' = [keys EXCEPT ![tag] = Free]
    /\ UNCHANGED <<emuVars, rep, rqVars, rxA, link, rxB, rsVars, fwd, ans, rspEmu>>

-----------------------------------------------------------------------------
(* The responder bridge, role_responder().                                 *)

RspExit(status) == rsPc' = status /\ rxB' = NoMessages

RspConnect ==
    /\ rsPc = "connect" /\ rspEmu = "up"
    /\ rsPc' = "poll"
    /\ UNCHANGED <<emuVars, rep, rqVars, keys, rxA, link, rxB, from, rsCount,
                   fwd, ans, rspEmu>>

\* tcp_connect() runs out of retries, or a socket cannot be set up.
RspConnectDies ==
    /\ rsPc = "connect"
    /\ RspExit("died")
    /\ UNCHANGED <<emuVars, rep, rqVars, keys, rxA, link, from, rsCount, fwd,
                   ans, rspEmu>>

RspForwardRelay(s, m) ==
    /\ fwd' = Append(fwd, FromWire(s, m.body))
    /\ from' = m.tag
    /\ rsCount' = [rsCount EXCEPT ![s] = @ + 1]
    /\ rxB' = [rxB EXCEPT ![s] = @ \ {m}]
    /\ rsPc' = "answer"

RspForward ==
    /\ rsPc = "poll"
    /\ \E s \in Types : Ready(rxB, s) /\ \E m \in rxB[s] :
         IF Refused(s, m.body)
         THEN RspExit("died") /\ UNCHANGED <<fwd, from, rsCount>>
         ELSE RspForwardRelay(s, m)
    /\ UNCHANGED <<emuVars, rep, rqVars, keys, rxA, link, ans, rspEmu>>

\* The emulator is gone: the write fails, or the read after it meets EOF.
RspTcpDies ==
    /\ rspEmu = "closed"
    /\ \/ rsPc = "poll" /\ rxB # NoMessages
       \/ rsPc = "answer" /\ Len(ans) < Len(fwd)
    /\ RspExit("died")
    /\ UNCHANGED <<emuVars, rep, rqVars, keys, rxA, link, from, rsCount, fwd,
                   ans, rspEmu>>

\* Each turn of the loop writes one frame and reads one, so the frame it
\* reads is the one with the number of the last it wrote.
AnswerRead == ans[Len(fwd)]

\* Reply on the tag of the request, TO cleared; SHUTDOWN ends the loop.
RspReplyContinueEnds ==
    /\ rsPc = "answer" /\ Len(ans) >= Len(fwd) /\ WellFormed(AnswerRead)
    /\ link' = link \cup {[to |-> FALSE, tag |-> from, type |-> TypeOf(AnswerRead),
                           body |-> ToWire(AnswerRead)]}
    /\ IF AnswerRead.cmd = CONTINUE THEN RspExit("ok")
       ELSE rsPc' = "poll" /\ rxB' = rxB
    /\ UNCHANGED <<emuVars, rep, rqVars, keys, rxA, from, rsCount, fwd, ans, rspEmu>>

RspReply ==
    /\ rsPc = "answer" /\ Len(ans) >= Len(fwd) /\ WellFormed(AnswerRead)
    /\ link' = link \cup {[to |-> FALSE, tag |-> from, type |-> TypeOf(AnswerRead),
                           body |-> ToWire(AnswerRead)]}
    /\ IF AnswerRead.cmd = SHUTDOWN THEN RspExit("ok")
       ELSE rsPc' = "poll" /\ rxB' = rxB
    /\ UNCHANGED <<emuVars, rep, rqVars, keys, rxA, from, rsCount, fwd, ans, rspEmu>>

\* die(): the answer fails a check, or sendto() fails.
RspReplyDies ==
    /\ rsPc = "answer" /\ Len(ans) >= Len(fwd)
    /\ RspExit("died")
    /\ UNCHANGED <<emuVars, rep, rqVars, keys, rxA, link, from, rsCount, fwd,
                   ans, rspEmu>>

RspStep == RspConnect \/ RspConnectDies \/ RspForward \/ RspTcpDies
           \/ RspReply \/ RspReplyDies

-----------------------------------------------------------------------------
(* The responder emulator (external).                                      *)

RspEmuMove ==
    /\ \/ rspEmu = "starting" /\ rspEmu' = "up"
       \/ rspEmu = "up" /\ rspEmu' = "closed"
    /\ UNCHANGED <<emuVars, rep, rqVars, keys, rxA, link, rxB, rsVars, fwd, ans>>

\* An emulator answers a command with its own code or with UNKNOWN.
Answers(g, f) == g.cmd \in {f.cmd, UNKNOWN}

EmuAnswer ==
    /\ rspEmu = "up" /\ rsPc = "answer" /\ Len(ans) < Len(fwd)
    /\ \E g \in RspFrames :
         /\ Answers(g, fwd[Len(ans) + 1])
         /\ ans' = Append(ans, g)
    /\ UNCHANGED <<emuVars, rep, rqVars, keys, rxA, link, rxB, rsVars, fwd, rspEmu>>

-----------------------------------------------------------------------------
Next == \/ EmuWrite \/ EmuClose
        \/ ReqStep
        \/ DeliverRequest \/ DeliverReply \/ Lose \/ KeyExpires
        \/ RspStep
        \/ RspEmuMove \/ EmuAnswer

Spec == Init /\ [][Next]_vars

\* The two bridge processes are scheduled, and poll()'s clock runs.  Nothing
\* is assumed of the emulators or of the link, nor that a socket ever reports
\* an error.
ReqProgress == ReqAccept \/ ReqForward \/ ReqSendDies \/ ReqEof \/ ReqTimeout
               \/ ReqReceive
FairSpec == Spec /\ WF_vars(ReqProgress) /\ WF_vars(RspStep)

-----------------------------------------------------------------------------
(* Properties.                                                             *)

\* Every variable holds what its declaration says.
TypeOK ==
    /\ reqTrans \in BOOLEAN
    /\ reqEmu \in {"starting", "open", "closed", "cut"}
    /\ sent \in Seq(Frame) /\ rep \in Seq(Frame)
    /\ rqPc \in {"accept", "read", "wait"} \cup Exited
    /\ nRead \in 0 .. Len(sent)
    /\ rqCount \in [Types -> Nat] /\ rsCount \in [Types -> Nat]
    /\ keys \in [Tags -> Types \cup {Free}]
    /\ rxA \in [Types -> SUBSET Message] /\ rxB \in [Types -> SUBSET Message]
    /\ link \subseteq Message
    /\ rsPc \in {"connect", "poll", "answer"} \cup Exited
    /\ from \in Tags
    /\ fwd \in Seq(Frame) /\ ans \in Seq(Frame)
    /\ rsPc = "answer" => fwd # <<>>
    /\ rspEmu \in {"starting", "up", "closed"}

Received(rx) == rx[SPDM] \cup rx[CTRL]
InFlight == link \cup Received(rxA) \cup Received(rxB)

\* mctp_send_req's comment: there are eight tags per peer, "which is why every
\* role here waits for its reply instead of streaming".  At most one tag is
\* held, and at most one message of at most one exchange exists anywhere, even
\* after a timeout, a lost reply or an expired key.
OneExchange ==
    /\ \A t, u \in Tags : keys[t] # Free /\ keys[u] # Free => t = u
    /\ \A m, n \in InFlight : m = n
    /\ rsPc = "answer" => InFlight = {}

\* The file comment: "the type-0x05 traffic on this link is the SPDM messages
\* and nothing else".  Every message of that type is the body of a NORMAL
\* frame an emulator wrote, without its type byte and without a command word.
SpdmTypeIsSpdmOnly ==
    \A m \in link : m.type = SPDM =>
        LET stream == IF m.to THEN sent ELSE ans IN
        \E i \in 1 .. Len(stream) :
            stream[i] = [cmd |-> NORMAL, buf |-> <<SPDM>> \o m.body]

\* Exit status 0 of the requester bridge accounts for the conversation: every
\* frame it read was answered, and the exchange counts it prints are those of
\* the responder bridge.
CleanExitAccounts ==
    rqPc = "ok" => Len(rep) = nRead /\ rqCount = rsCount

\* A SHUTDOWN the requester emulator sees acknowledged has ended both bridges,
\* and neither of them with an error.
ShutdownEndsBoth ==
    rep # <<>> /\ rep[Len(rep)].cmd = SHUTDOWN => rqPc = "ok" /\ rsPc = "ok"

-----------------------------------------------------------------------------
(* Why they hold: where the one exchange is.                               *)

\* m is what one of the bridges makes of frame f.
Carries(m, f) ==
    m.type = TypeOf(f) /\ m.body = ToWire(f) /\ WellFormed(f)

\* The streams advance in step.  Nothing is under way while the requester
\* bridge is reading, or after it has ended without an error.
StreamInv ==
    /\ Len(rep) <= Len(ans) /\ Len(ans) <= Len(fwd) /\ Len(fwd) <= nRead
    /\ nRead \in {Len(rep), Len(rep) + 1}
    /\ rqPc # "died" => (nRead = Len(rep) + 1 <=> rqPc = "wait")
    /\ nRead = Len(rep) => InFlight = {} /\ rsPc # "answer"
    /\ rsPc = "answer" => Len(fwd) = nRead /\ Len(rep) < nRead /\ InFlight = {}

\* The one message in flight is in one place and carries the request being
\* served or its answer.
FlightInv ==
    /\ \A m, n \in InFlight : m = n
    /\ link = {} \/ Received(rxA) \cup Received(rxB) = {}
    /\ rxA[SPDM] = {} \/ rxA[CTRL] = {}
    /\ \A m \in InFlight :
         IF m.to THEN nRead = Len(fwd) + 1 /\ Carries(m, sent[nRead])
         ELSE /\ nRead = Len(ans) /\ Carries(m, ans[nRead])
              /\ ans[nRead].cmd = SHUTDOWN => rsPc = "ok"

\* A key is held by the waiting requester bridge, on the socket its request was
\* sent from, and its tag is the tag of the exchange wherever that has got to.
KeyInv ==
    \A t \in Tags : keys[t] # Free =>
        /\ rqPc = "wait" /\ Received(rxA) = {} /\ keys[t] = TypeOf(sent[nRead])
        /\ \A u \in Tags : keys[u] # Free => u = t
        /\ \A m \in InFlight : m.tag = t
        /\ rsPc = "answer" => from = t

\* Each message is on the side its direction says: a request on the socket of
\* its own type, a reply on the socket of its request's.
SocketInv ==
    \A s \in Types :
        /\ \A m \in rxA[s] : ~m.to /\ s = TypeOf(sent[nRead])
        /\ \A m \in rxB[s] : m.to /\ m.type = s

\* The bridges' counts differ by the request that has not yet reached fwd.
CountInv ==
    /\ rqPc \notin {"wait", "died"} => rqCount = rsCount
    /\ rqPc = "wait" =>
         rqCount = IF Len(fwd) = nRead THEN rsCount
                   ELSE [rsCount EXCEPT ![TypeOf(sent[nRead])] = @ + 1]

\* What is forwarded is what was sent, frame by frame, and what is relayed is
\* what was answered, as the socket that sent the request hands it back.
RelayInv ==
    /\ \A i \in 1 .. Len(sent) : sent[i] \in ReqFrames
    /\ \A i \in 1 .. Len(ans) : ans[i] \in RspFrames
    /\ \A i \in 1 .. Len(fwd) : fwd[i] = sent[i]
    /\ \A i \in 1 .. Len(ans) : Answers(ans[i], fwd[i])
    /\ \A i \in 1 .. Len(rep) : rep[i] = Handed(sent[i], ans[i])

\* The inductive invariant.
IInv ==
    /\ TypeOK /\ StreamInv /\ FlightInv /\ KeyInv /\ SocketInv /\ CountInv
    /\ RelayInv /\ ShutdownEndsBoth

-----------------------------------------------------------------------------
\* "Neither emulator is modified and neither knows" (the file comment) and "a
\* NORMAL request can legitimately be answered with SOCKET_SPDM_COMMAND_UNKOWN"
\* (mctp_wait's): between the emulators the pair is one unmodified socket,
\* whatever a request is answered with.
Frames == ReqFrames \cup RspFrames
Direct == INSTANCE DirectLink WITH
    Frame <- Frames, Seen <- [p \in Frames \X Frames |-> p[2]]
RelayIsDirect == Direct!Spec

\* What it is: one socket that carries a request and its answer at a time, in
\* order, nothing lost, repeated or exchanged, and every frame unchanged but
\* one: an answer of the other type is read as one of the request's type.
Asked == INSTANCE DirectLink WITH
    Frame <- Frames, Seen <- [p \in Frames \X Frames |-> Handed(p[1], p[2])]
RelayAsAsked == Asked!Spec

\* mctp_wait's timeout: whatever the link and the far side do, a requester
\* bridge that waits for a reply stops waiting.
RequesterNeverHangs == rqPc = "wait" ~> rqPc # "wait"

\* Once the requester emulator has closed its socket, in whatever way, its
\* bridge exits.
RequesterEndsAfterEof == reqEmu \in {"closed", "cut"} ~> rqPc \in Exited

\* read_exact's comment: false is "a clean EOF so the caller can tell 'the
\* emulator finished' from 'the link broke'".  So exit status 0 would mean the
\* emulator stopped between two frames.
CleanExitMeansWholeFrames == rqPc = "ok" => reqEmu # "cut"
=============================================================================
