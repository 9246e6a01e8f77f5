--------------------------- MODULE MCMctpBridge ---------------------------
(* Instances of MctpBridge for TLC.                                        *)
EXTENDS MctpBridge

Normal(b) == [cmd |-> NORMAL, buf |-> b]
Ctrl(c, b) == [cmd |-> c, buf |-> b]

\* Two SPDM messages, the control commands of a session, and the frames the
\* bridge refuses: no payload, a payload without the type byte, one too long.
AllReqFrames ==
    {Normal(<<SPDM, 1>>), Normal(<<SPDM, 2>>), Normal(<<6, 1>>),
     Normal(<<SPDM, 1, 1, 1>>), Ctrl(TEST, <<1>>), Ctrl(SHUTDOWN, <<>>),
     Ctrl(CONTINUE, <<>>)}
AllRspFrames ==
    {Normal(<<SPDM, 1>>), Normal(<<SPDM, 2>>), Normal(<<>>), Ctrl(TEST, <<2>>),
     Ctrl(SHUTDOWN, <<>>), Ctrl(CONTINUE, <<>>), Ctrl(UNKNOWN, <<>>)}

\* What a session between the two emulators exchanges, and nothing else.
SessionReqFrames == {Normal(<<SPDM, 1>>), Ctrl(SHUTDOWN, <<>>)}
SessionRspFrames ==
    {Normal(<<SPDM, 2>>), Ctrl(SHUTDOWN, <<>>), Ctrl(UNKNOWN, <<>>)}
=============================================================================
