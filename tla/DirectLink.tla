---------------------------- MODULE DirectLink ----------------------------
(***************************************************************************)
(* What the bridge pair of transport/mctp_bridge.c promises the two        *)
(* emulators: "Neither emulator is modified and neither knows."  Seen from *)
(* its two TCP ends the bridge is a socket that carries one request and    *)
(* its reply at a time, in order, every frame as Seen says.                *)
(***************************************************************************)
EXTENDS Naturals, Sequences

CONSTANTS
    Frame,          \* the socket frames the emulators exchange
    Seen            \* Seen[<<f, g>>]: how the emulator that wrote f is handed
                    \* answer g; g itself, if the socket changes nothing

VARIABLES
    sent,           \* frames the requester emulator has written
    fwd,            \* frames handed to the responder emulator
    ans,            \* frames the responder emulator has written back
    rep             \* frames handed back to the requester emulator

linkVars == <<sent, fwd, ans, rep>>

Init ==
    /\ sent = <<>>
    /\ fwd = <<>>
    /\ ans = <<>>
    /\ rep = <<>>

Write ==
    /\ \E f \in Frame : sent' = Append(sent, f)
    /\ UNCHANGED <<fwd, ans, rep>>

\* Frame k+1 goes across only when all k earlier ones have been answered.
Forward ==
    /\ Len(fwd) < Len(sent)
    /\ Len(rep) = Len(fwd)
    /\ fwd' = Append(fwd, sent[Len(fwd) + 1])
    /\ UNCHANGED <<sent, ans, rep>>

Answer ==
    /\ Len(ans) < Len(fwd)
    /\ \E g \in Frame : ans' = Append(ans, g)
    /\ UNCHANGED <<sent, fwd, rep>>

Return ==
    /\ Len(rep) < Len(ans)
    /\ rep' = Append(rep, Seen[<<sent[Len(rep) + 1], ans[Len(rep) + 1]>>])
    /\ UNCHANGED <<sent, fwd, ans>>

Next == Write \/ Forward \/ Answer \/ Return

Spec == Init /\ [][Next]_linkVars
=============================================================================
