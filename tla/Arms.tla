-------------------------------- MODULE Arms --------------------------------
(***************************************************************************)
(* harness/run_pair.sh: one handshake per arm, every arm with the flags    *)
(* all arms share and its own, and a verdict per arm on whether the wire   *)
(* carried what the arm declared.  A flag is a request: the build may      *)
(* ignore it, at one end or both, and a responder that cannot do what was  *)
(* asked selects something else and goes on.                               *)
(***************************************************************************)
EXTENDS Negotiation

CONSTANTS
    ArmList,        \* [asks, dts, rextra, expect] of each arm
    Selections,     \* what a responder may select when a build ignores a flag
    DefaultSize,    \* the DataTransferSize a build is compiled with
    MaxExternal     \* external algorithms of a table, counted in four bits

Flags == {"algorithms", "requester size", "responder size", "responder caps", "mutual auth"}
ArmIds == 1 .. Len(ArmList)
ASSUME ArmsAssumption ==
    /\ Selections \subseteq Nat /\ DefaultSize \in Nat /\ MaxExternal \in 0 .. 15
    /\ \A k \in ArmIds :
         DOMAIN ArmList[k].asks = Groups /\ ArmList[k].dts \in Nat

VARIABLES
    ignored,        \* the flags this build ignores
    only,           \* --only: the arm asked for, or 0 for all
    arm, phase,     \* the arm, and how far its handshake or its judgement is
    rspArr,         \* the responder's flags beyond argv
    cmdline,        \* what the arm's record says was run
    wire,           \* what has crossed
    decode,         \* whether there are fields of the arm's capture
    verdict, failed
vars == <<ignored, only, arm, phase, rspArr, cmdline, wire, decode, verdict, failed>>

NoWire == [dts |-> [requester |-> NoSize, responder |-> NoSize], alg |-> NoResponse,
           chain |-> "none", chainChunks |-> 0, laterChunks |-> 0,
           encapsulated |-> FALSE, requesterChain |-> FALSE]
Declared == ArmList[arm]
Honoured(flag) == flag \notin ignored

Init ==
    /\ ignored \in SUBSET Flags /\ only \in {0} \cup ArmIds
    /\ arm = 1 /\ phase = "next" /\ rspArr = {}
    /\ cmdline = [argv |-> 0, responder |-> {}]
    /\ wire = NoWire /\ decode = FALSE
    /\ verdict = "?" /\ failed = FALSE

-----------------------------------------------------------------------------
(* The loop over the arms.                                                 *)

\* The responder's extra flags are cleared per arm: a case that has none does not
\* inherit the previous one's.
RspArrKept(old, rextra) == IF rextra = {} THEN old ELSE rextra
RspArr(old, rextra) == rextra

Skip ==
    /\ phase = "next" /\ arm \in ArmIds /\ only \notin {0, arm}
    /\ arm' = arm + 1
    /\ UNCHANGED <<ignored, only, phase, rspArr, cmdline, wire, decode, verdict, failed>>

\* The command line is recorded before the run rather than after it.
Launch ==
    /\ phase = "next" /\ arm \in ArmIds /\ only \in {0, arm}
    /\ cmdline' = [argv |-> arm, responder |-> Declared.rextra]
    /\ rspArr' = RspArr(rspArr, Declared.rextra)
    /\ phase' = "connected"
    /\ UNCHANGED <<ignored, only, arm, wire, decode, verdict, failed>>

Crossing(from, to) ==
    /\ phase = from /\ phase' = to
    /\ UNCHANGED <<ignored, only, arm, rspArr, cmdline, decode, verdict, failed>>

\* GET_CAPABILITIES and CAPABILITIES, each end with the size it was told or the one
\* it was compiled with.
Advertised(flag) ==
    IF Honoured(flag) /\ Declared.dts # 0 THEN Declared.dts ELSE DefaultSize
ExchangeCapabilities ==
    /\ Crossing("connected", "capable")
    /\ wire' = [wire EXCEPT !.dts = [requester |-> Advertised("requester size"),
                                     responder |-> Advertised("responder size")]]

\* NEGOTIATE_ALGORITHMS and ALGORITHMS: of what is offered in a group one algorithm
\* is selected, or none; a group of a table may have no table, and a later
\* responder may send a table, or external algorithms, nobody here knows.
Offered(g) == IF Honoured("algorithms") THEN {0, Declared.asks[g]} ELSE Selections
Answer(fixed, external, table, absent, unknown, ext, over) ==
    LET known(t) == IF t \in absent THEN <<>>
                    ELSE << [type |-> t, value |-> table[t], ext |-> 0] >>
        more == IF unknown THEN << [type |-> 8, value |-> 1, ext |-> ext] >> ELSE <<>>
        tables == known(2) \o more \o known(7)
    IN [fixed |-> fixed, external |-> external, tables |-> tables,
        count |-> Len(tables) + over]
NegotiateAlgorithms ==
    /\ Crossing("capable", "negotiated")
    /\ \E fixed \in [FixedGroups -> Selections], external \in 0 .. MaxExternal,
          table \in [DOMAIN AlgStruct -> Selections], absent \in SUBSET DOMAIN AlgStruct,
          unknown \in BOOLEAN, ext \in 0 .. MaxExternal, over \in {0, 1} :
         /\ \A g \in FixedGroups : fixed[g] \in Offered(g)
         /\ \A t \in DOMAIN AlgStruct :
              table[t] \in Offered(AlgStruct[t]) /\ (t \in absent => table[t] = 0)
         /\ unknown \/ ext = 0
         /\ wire' = [wire EXCEPT !.alg =
                       Answer(fixed, external, table, absent, unknown, ext, over)]

\* The responder's chain: a post-quantum one is large, and comes in chunks when the
\* responder has the chunking layer.
Chunks == "no CHUNK" \notin rspArr \/ ~Honoured("responder caps")
FetchChain ==
    /\ Crossing("negotiated", "authenticated")
    /\ \E chain \in IF wire.alg.fixed["PqcAsym"] = 0 THEN {"small"} ELSE {"large"},
          n \in IF Chunks THEN {0, 1} ELSE {0} :
         wire' = [wire EXCEPT !.chain = chain, !.chainChunks = n]

\* CHALLENGE, with the encapsulated exchange unless both ends were told not to, and
\* MEASUREMENTS, in chunks if they are long.
FinishHandshake ==
    /\ Crossing("authenticated", "finished")
    /\ \E encapsulated \in {FALSE, ~Honoured("mutual auth")},
          n \in IF Chunks THEN {0, 1} ELSE {0} :
         \E requesterChain \in {FALSE, encapsulated} :
           wire' = [wire EXCEPT !.encapsulated = encapsulated,
                      !.requesterChain = requesterChain, !.laterChunks = n]

\* hs_run returns, with whatever status, however far the handshake went; there may
\* be no capture, and a capture nothing could be read from.
Running == {"connected", "capable", "negotiated", "authenticated", "finished"}
HandshakeEnds ==
    /\ phase \in Running /\ phase' = "ended"
    /\ decode' \in BOOLEAN
    /\ UNCHANGED <<ignored, only, arm, rspArr, cmdline, wire, verdict, failed>>

Judge ==
    /\ phase = "ended" /\ phase' = "judged"
    /\ verdict' = IF ~decode THEN "NO-DECODE"
                  ELSE IF CheckNegotiated(Fields(wire), Declared.expect) = 0 THEN "as-declared"
                  ELSE "NEGOTIATION-MISMATCH"
    /\ failed' = (failed \/ verdict' # "as-declared")
    /\ UNCHANGED <<ignored, only, arm, rspArr, cmdline, wire, decode>>

NextArm ==
    /\ phase = "judged" /\ phase' = "next" /\ arm' = arm + 1
    /\ wire' = NoWire /\ decode' = FALSE /\ verdict' = "?"
    /\ UNCHANGED <<ignored, only, rspArr, cmdline, failed>>

Next ==
    \/ Skip \/ Launch \/ ExchangeCapabilities \/ NegotiateAlgorithms
    \/ FetchChain \/ FinishHandshake \/ HandshakeEnds \/ Judge \/ NextArm
Spec == Init /\ [][Next]_vars

-----------------------------------------------------------------------------
Judged == phase = "judged" /\ verdict = "as-declared"
Whole == wire.chain # "large"

\* An arm recorded as declared, whose capture passes pcapstat --check too, carried
\* what it declared: in every group it constrains those algorithms and no other,
\* one without a name included; the size it asked for at both ends; and, where
\* the decode shows the whole capture, no encapsulated exchange and no chunk if it
\* declared none.  And it ran with the flags its record shows.  The second reading
\* disagrees with the first only over an algorithm without a name (run_pair.sh,
\* check_negotiated.py: "independent variables are verified, not assumed").
AsDeclaredIsTrue ==
    /\ Judged /\ CrossCheck(wire) = 0 =>
         /\ \A g \in DOMAIN Declared.expect.groups :
              /\ BitsOf(Selected(wire.alg, g)) = Declared.expect.groups[g]
              /\ Nameless(Selected(wire.alg, g)) = 0
         /\ Declared.expect.dts # 0 =>
              \A end \in {"requester", "responder"} : wire.dts[end] = Declared.expect.dts
         /\ Whole /\ Declared.expect.mutAuth = "off" => ~wire.encapsulated
         /\ Whole /\ Declared.expect.chunk = "off" => wire.chainChunks + wire.laterChunks = 0
    /\ Judged => cmdline = [argv |-> arm, responder |-> rspArr]
    /\ Judged /\ CrossCheck(wire) # 0 =>
         \E g \in Groups : Nameless(Selected(wire.alg, g)) # 0

\* The response as a responder makes it: each group has one table, and the
\* response has no more of them than it says.
Table == [type : Nat, value : Nat, ext : 0 .. 15]
Response == [fixed : [FixedGroups -> Nat], external : Nat, tables : Seq(Table), count : Nat]
WellFormed(alg) ==
    /\ alg \in Response /\ Len(alg.tables) <= alg.count
    /\ \A i, j \in DOMAIN alg.tables :
         GroupOf(alg.tables[i].type) = GroupOf(alg.tables[j].type) => i = j

\* What has crossed.
Wires ==
    [dts : [requester : Int, responder : Int], alg : Response \cup {NoResponse},
     chain : {"none", "small", "large"}, chainChunks : Nat, laterChunks : Nat,
     encapsulated : BOOLEAN, requesterChain : BOOLEAN]
WireInv ==
    /\ wire \in Wires
    /\ wire.alg # NoResponse => WellFormed(wire.alg)

\* Why a verdict is about its own arm: from the launch to the judgement the
\* record and the flags are the arm's, and what was judged has not changed since.
ArmInv ==
    /\ phase # "next" =>
         arm \in ArmIds /\ cmdline = [argv |-> arm, responder |-> rspArr]
    /\ Judged => CheckNegotiated(Fields(wire), Declared.expect) = 0

\* The inductive invariant of the proofs.
IInv == WireInv /\ ArmInv

\* What the sources say of the arms: that mutual authentication is off in an arm
\* recorded as declared is measured on its capture (arms.sh: "Measured, not
\* assumed: harness/lib/check_negotiated.py requires the capture to carry no
\* encapsulated exchange and zero requester chain bytes").
MutualOffIsMeasured ==
    Judged /\ Declared.expect.mutAuth = "off" => ~wire.encapsulated
=============================================================================
