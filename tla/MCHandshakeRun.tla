--------------------------- MODULE MCHandshakeRun ---------------------------
(* Instances of HandshakeRun for TLC.                                      *)
EXTENDS HandshakeRun

Capture == [proxied |-> FALSE, traps |-> {}, sees |-> TRUE]
Tamper == [proxied |-> TRUE, traps |-> {"proxy"}, sees |-> TRUE]
Validator == [proxied |-> TRUE, traps |-> {"proxy", "responder"}, sees |-> TRUE]
Blind == [Tamper EXCEPT !.sees = FALSE]

AllScripts == {Capture, Tamper, Validator, Blind}
OnlyCapture == {Capture}
OnlyTamper == {Tamper}
=============================================================================
