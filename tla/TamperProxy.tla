---------------------------- MODULE TamperProxy ----------------------------
(***************************************************************************)
(* harness/tamper_proxy.py: a proxy on the TCP connection between the two  *)
(* emulators that changes one bit of one MEASUREMENTS response in flight.  *)
(* Its peers are external: "client" is the requester emulator's end of the *)
(* connection and "upstream" the responder emulator's.                     *)
(***************************************************************************)
EXTENDS Measurements

CONSTANTS
    Args,           \* the command lines: [mode, block, offset, once]
    ReqFrames,      \* frames a requester may write
    RspFrames,      \* frames a responder may answer with
    MaxFrames,      \* bound: frames from the requester in one run
    MaxConns        \* bound: connections in one run

Socks == {"client", "upstream"}
Other(s) == IF s = "client" THEN "upstream" ELSE "client"

ASSUME ArgsAssumption ==
    Args \subseteq [mode : {"passthrough", "record", "signature"}, block : Nat,
                    offset : Int, once : BOOLEAN]
ASSUME BoundsAssumption == MaxFrames \in Nat /\ MaxConns \in Nat
\* A frame is what the proxy tells apart in it: its kind ("OTHER" covers the
\* control frames, the secured messages and the other SPDM codes) and, of the
\* three kinds it reads, the contents.
ASSUME FramesAssumption ==
    /\ \A f \in ReqFrames : f.kind \in {"GET_MEASUREMENTS", "OTHER"}
    /\ \A f \in ReqFrames : f.kind = "GET_MEASUREMENTS" =>
         f.signature \in BOOLEAN /\ f.span \in Int
    /\ \A f \in RspFrames : f.kind \in {"ALGORITHMS", "MEASUREMENTS", "OTHER"}
    /\ \A f \in RspFrames : f.kind = "ALGORITHMS" =>
         {f.short, f.lengthAgrees, f.from14, f.pqc} \subseteq BOOLEAN
    /\ \A f \in RspFrames : f.kind = "MEASUREMENTS" => Response(f)

VARIABLES
    args,           \* the command line
    pc,             \* "accept", "select", "read", "send", or the exit: "ok" (0),
                    \* "unchanged" (1), "error" (2)
    sock,           \* the socket serve_one is reading, or has read
    inbox,          \* frames each peer has written and the proxy not read
    end,            \* each peer's end: "open", "partial" (inside a frame),
                    \* "closed"
    out,            \* the frame between its handler and sendall: whether it
                    \* differs from how it came, and the byte that does
    conv,           \* self.conv
    frames,         \* report["frames"]
    applied,        \* report["tamper"]["applied"]
    refusals,       \* report["refusals"], by the check that fired
    turn,           \* whose frame is next: "client", "upstream", or "proxy"
    conns,          \* connections accepted
    changed,        \* history: the changed frames sent to the requester
    negotiated      \* history: this connection chose a post-quantum algorithm

vars == <<args, pc, sock, inbox, end, out, conv, frames, applied, refusals,
          turn, conns, changed, negotiated>>
peerVars == <<inbox, end, turn>>
reportVars == <<conv, frames, applied, refusals>>

Exits == {"ok", "unchanged", "error"}
Same(f) == [frame |-> f, differs |-> FALSE, at |-> 0]
Nothing == Same([kind |-> "OTHER"])

Init ==
    /\ args \in Args
    /\ pc = "accept" /\ sock = "client"
    /\ inbox = [s \in Socks |-> <<>>] /\ end = [s \in Socks |-> "closed"]
    /\ out = Nothing
    /\ conv = NewConversation
    /\ frames = [s \in Socks |-> 0] /\ applied = FALSE /\ refusals = {}
    /\ turn = "client" /\ conns = 0 /\ changed = <<>> /\ negotiated = FALSE

-----------------------------------------------------------------------------
(* The peers (external).  The requester waits for each reply, and the      *)
(* responder only answers.  A frame may arrive in pieces.                  *)

PeerBegins(s) ==
    /\ end[s] = "open" /\ turn = s /\ frames[s] < MaxFrames
    /\ end' = [end EXCEPT ![s] = "partial"]
    /\ UNCHANGED <<args, pc, sock, inbox, turn, out, reportVars, conns, changed, negotiated>>

PeerCompletes(s) ==
    /\ end[s] = "partial"
    /\ end' = [end EXCEPT ![s] = "open"]
    /\ \E f \in IF s = "client" THEN ReqFrames ELSE RspFrames :
         inbox' = [inbox EXCEPT ![s] = Append(@, f)]
    /\ turn' = "proxy"
    /\ UNCHANGED <<args, pc, sock, out, reportVars, conns, changed, negotiated>>

PeerCloses(s) ==
    /\ end[s] # "closed"
    /\ end' = [end EXCEPT ![s] = "closed"]
    /\ UNCHANGED <<args, pc, sock, inbox, turn, out, reportVars, conns, changed, negotiated>>

-----------------------------------------------------------------------------
(* finish(): the report is written and the exit status chosen.             *)

FinishUnlessRefused ==
    IF args.mode = "passthrough" \/ applied \/ refusals = {}
    THEN pc' = "ok" /\ UNCHANGED refusals
    ELSE pc' = "unchanged" /\ UNCHANGED refusals

Finish ==
    IF args.mode = "passthrough" \/ applied
    THEN pc' = "ok" /\ UNCHANGED refusals
    ELSE /\ pc' = "unchanged"
         /\ refusals' = IF refusals = {} THEN {"nothing-passed"} ELSE refusals

\* run(): accept, and connect to the responder, which may refuse.
Accept ==
    /\ pc = "accept" /\ conns < MaxConns
    /\ conns' = conns + 1
    /\ pc' = "select"
    /\ end' = [s \in Socks |-> "open"]
    /\ turn' = "client" /\ negotiated' = FALSE
    /\ UNCHANGED <<args, sock, inbox, out, reportVars, changed>>

ConnectFails ==
    /\ pc = "accept" /\ conns < MaxConns
    /\ pc' = "error"
    /\ UNCHANGED <<args, sock, peerVars, out, reportVars, conns, changed, negotiated>>

Readable(s) == inbox[s] # <<>> \/ end[s] # "open"

Select ==
    /\ pc = "select"
    /\ \E s \in Socks : Readable(s) /\ sock' = s
    /\ pc' = "read"
    /\ UNCHANGED <<args, peerVars, out, reportVars, conns, changed, negotiated>>

\* The conversation is over: both sockets are closed, unread bytes and all.
EndConversation ==
    /\ inbox' = [s \in Socks |-> <<>>] /\ end' = [s \in Socks |-> "closed"]
    /\ IF args.once THEN Finish ELSE pc' = "accept" /\ UNCHANGED refusals
    /\ UNCHANGED <<args, sock, turn, out, conv, frames, applied, conns, changed,
                   negotiated>>

\* Sixty seconds without a readable socket.
Idle == pc = "select" /\ (\A s \in Socks : ~Readable(s)) /\ EndConversation

\* read_frame() returns None: the peer has closed, between or inside frames.
ReadEof ==
    /\ pc = "read" /\ inbox[sock] = <<>> /\ end[sock] = "closed"
    /\ EndConversation

-----------------------------------------------------------------------------
(* One message, in the direction it is going.                              *)

OnRequesterFrame(f) ==
    /\ conv' = IF f.kind = "GET_MEASUREMENTS" THEN ObserveGetMeasurements(conv, f)
               ELSE conv
    /\ out' = Same(f)
    /\ UNCHANGED <<applied, refusals, negotiated>>

OnAlgorithms(f) ==
    /\ conv' = ObserveAlgorithms(conv, f)
    /\ negotiated' = (negotiated \/ (f.from14 /\ f.pqc))
    /\ out' = Same(f)
    /\ UNCHANGED <<applied, refusals>>

\* The bytes each response arrives as.
Wire == [f \in {g \in RspFrames : g.kind = "MEASUREMENTS"} |-> Encode(f)]

\* A MEASUREMENTS response whose layout does not close, or names no byte to
\* change, is forwarded as it came and the check recorded.
Change(f, wanted) ==
    LET msg == Wire[f]
        parse == ParseCheck(msg, conv)
        asked == parse = "closed" /\ args.mode # "passthrough" /\ wanted
        tamper == TamperCheck(msg, conv, args)
        flips == asked /\ tamper = "applied"
    IN /\ applied' = (applied \/ flips)
       /\ refusals' = refusals \cup (IF parse # "closed" THEN {parse}
                                     ELSE IF asked THEN {tamper} \ {"applied"}
                                     ELSE {})
       /\ out' = IF ~flips THEN Same(f)
                 ELSE [frame |-> f, differs |-> TRUE, at |-> Target(msg, conv, args)]
       /\ UNCHANGED <<conv, negotiated>>

OnMeasurementsEveryTime(f) == Change(f, TRUE)
OnMeasurements(f) == Change(f, ~applied)

OnResponderFrame(f) ==
    IF f.kind = "ALGORITHMS" THEN OnAlgorithms(f)
    ELSE IF f.kind = "MEASUREMENTS" THEN OnMeasurements(f)
    ELSE out' = Same(f)
         /\ UNCHANGED <<conv, applied, refusals, negotiated>>

ReadFrame ==
    /\ pc = "read" /\ inbox[sock] # <<>>
    /\ LET f == Head(inbox[sock]) IN
         IF sock = "client" THEN OnRequesterFrame(f) ELSE OnResponderFrame(f)
    /\ inbox' = [inbox EXCEPT ![sock] = Tail(@)]
    /\ frames' = [frames EXCEPT ![sock] = @ + 1]
    /\ pc' = "send"
    /\ UNCHANGED <<args, sock, end, turn, conns, changed>>

Send ==
    /\ pc = "send"
    /\ changed' = IF out.differs THEN Append(changed, out) ELSE changed
    /\ out' = Nothing
    /\ turn' = Other(sock)
    /\ pc' = "select"
    /\ UNCHANGED <<args, sock, inbox, end, reportVars, conns, negotiated>>

\* An OSError leaves run() and main() without a report.
SocketDies ==
    /\ \/ pc = "send" /\ end[Other(sock)] = "closed"
       \/ pc = "read" /\ end[sock] = "closed"
    /\ pc' = "error"
    /\ UNCHANGED <<args, sock, peerVars, out, reportVars, conns, changed, negotiated>>

\* SIGINT, which reaches Python at the calls that block.
Interrupt ==
    /\ pc \notin Exits
    /\ Finish
    /\ UNCHANGED <<args, sock, peerVars, out, conv, frames, applied, conns, changed,
                   negotiated>>

ProxyStep == Accept \/ ConnectFails \/ Select \/ Idle \/ ReadEof \/ ReadFrame
             \/ Send \/ SocketDies
PeerStep == \E s \in Socks : PeerBegins(s) \/ PeerCompletes(s) \/ PeerCloses(s)

Next == ProxyStep \/ Interrupt \/ PeerStep

Spec == Init /\ [][Next]_vars

-----------------------------------------------------------------------------
(* Properties.                                                             *)

TypeOK ==
    /\ args \in Args
    /\ pc \in {"accept", "select", "read", "send"} \cup Exits
    /\ sock \in Socks
    /\ DOMAIN inbox = Socks
    /\ inbox["client"] \in Seq(ReqFrames) /\ inbox["upstream"] \in Seq(RspFrames)
    /\ end \in [Socks -> {"open", "partial", "closed"}]
    /\ conv \in Conversation
    /\ frames \in [Socks -> Nat] /\ conns \in Nat
    /\ turn \in Socks \cup {"proxy"}
    /\ applied \in BOOLEAN /\ negotiated \in BOOLEAN

\* "one message, one flip, however many arrive": over all the connections of
\* a run at most one frame is sent that differs from how it came.
AtMostOneFlip == Len(changed) <= 1

\* "the byte it is about to touch is the byte it was asked to touch" (Refused):
\* whatever the proxy has learned, in this connection or an earlier one, a
\* message it sends changed and that says truly what it holds is changed at the
\* byte that the arguments name in it.
Lands(sent) == Honest(sent.frame) => sent.at = TrueTarget(sent.frame, args)
FlipLandsWhereAsked == \A i \in 1 .. Len(changed) : Lands(changed[i])

\* Interrupted after report["tamper"] is set and before sendall: the change is
\* recorded, and the requester never sees it.
InterruptedInHand == pc = "ok" /\ out.differs

\* What the exit status says of the frames sent: 1 that nothing was changed and
\* a refusal says why; 0 that exactly one was (none in a pass-through), unless
\* the process was interrupted with the changed one in hand.
ExitMatchesWire ==
    /\ pc = "ok" =>
         IF args.mode = "passthrough" \/ InterruptedInHand THEN changed = <<>>
         ELSE Len(changed) = 1
    /\ pc = "unchanged" => changed = <<>> /\ refusals # {}

\* "Exit codes: 0 ok, 1 asked to tamper and did not": exit status 0 of a proxy
\* asked to change a frame would mean that a changed one was sent.
ExitZeroMeansChanged ==
    pc = "ok" /\ args.mode # "passthrough" => Len(changed) = 1

\* "If either fails it refuses to flip, says which equation did not close ...
\* and exits non-zero": a run asked to change a frame that has refused one
\* would not exit 0, even if it has changed another and was not interrupted.
RefusalExitsNonZero ==
    pc = "ok" /\ args.mode # "passthrough" /\ ~InterruptedInHand => refusals = {}

\* Why: report["tamper"] is set when, and only when, a changed frame is on its
\* way or has gone.
FlipInv ==
    /\ IF applied THEN \/ out.differs /\ changed = <<>>
                       \/ ~out.differs /\ \E sent : changed = <<sent>>
       ELSE ~out.differs /\ changed = <<>>
    /\ out.differs \in BOOLEAN
    /\ pc \in {"accept", "select", "read"} => ~out.differs
    /\ args.mode = "passthrough" => ~applied
    /\ pc = "ok" => args.mode = "passthrough" \/ applied
    /\ pc = "unchanged" => args.mode # "passthrough" /\ ~applied /\ refusals # {}

\* CHECKS: "the signature algorithm is post-quantum and is not sized here".
PqcRefusalIsTrue ==
    [][ \A c \in refusals' \ refusals : c = "pqc-unsized" => negotiated ]_vars
=============================================================================
