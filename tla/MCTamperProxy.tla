--------------------------- MODULE MCTamperProxy ---------------------------
(* Instances of TamperProxy for TLC.  The messages are those of the        *)
(* program's own --self-test: an intact response and one for each check.   *)
EXTENDS TamperProxy

ArgsOf(mode, block, offset, once) ==
    [mode |-> mode, block |-> block, offset |-> offset, once |-> once]
SomeArgs ==
    {ArgsOf("passthrough", 0, 0, FALSE), ArgsOf("record", 2, 1, TRUE),
     ArgsOf("record", 1, 0, FALSE), ArgsOf("signature", 0, 0, FALSE),
     ArgsOf("signature", 0, -1, TRUE)}
OneArg == {ArgsOf("record", 1, 0, FALSE)}
OneConversation == {ArgsOf("record", 1, 0, TRUE)}

Simple == [kind |-> "OTHER"]
Algorithms(asym, from14, pqc) ==
    [kind |-> "ALGORITHMS", short |-> FALSE, lengthAgrees |-> TRUE,
     from14 |-> from14, asym |-> asym, pqc |-> pqc]
BadAlgorithms ==
    [kind |-> "ALGORITHMS", short |-> FALSE, lengthAgrees |-> FALSE,
     from14 |-> TRUE, asym |-> 16, pqc |-> FALSE]
GetMeasurements(signature, span) ==
    [kind |-> "GET_MEASUREMENTS", signature |-> signature, span |-> span]

Dmtf(i, n) == [index |-> i, spec |-> 1, value |-> n]
Vendor(i, n) == [index |-> i, spec |-> 2, value |-> n]
Measurements(blocks, context, signature) ==
    [kind |-> "MEASUREMENTS", blocks |-> blocks, count |-> Len(blocks),
     recordSays |-> Len(EncodeRecord(blocks)), cut |-> FALSE, opaque |-> 2,
     opaqueSays |-> 2, context |-> context, signature |-> signature]

Good == Measurements(<<Dmtf(1, 2), Dmtf(2, 3)>>, ContextSize, 96)
Requests == {GetMeasurements(TRUE, 8), GetMeasurements(TRUE, 0),
             GetMeasurements(FALSE, 8), GetMeasurements(TRUE, 3), Simple}
Responses ==
    {Algorithms(128, TRUE, FALSE), Algorithms(16, FALSE, FALSE),
     Algorithms(0, TRUE, TRUE), BadAlgorithms, Simple,
     Good, Measurements(<<Dmtf(1, 2)>>, 0, 96), Measurements(<<Dmtf(1, 2)>>, 8, 0),
     Measurements(<<Dmtf(3, 1), Dmtf(1, 2)>>, ContextSize, 64),
     Measurements(<<Vendor(1, 2)>>, ContextSize, 96),
     [Good EXCEPT !.recordSays = 9999], [Good EXCEPT !.opaqueSays = 9999],
     [Good EXCEPT !.count = 1], [Good EXCEPT !.count = 3],
     [Good EXCEPT !.cut = TRUE]}

\* A responder whose second connection is at another version, and one whose
\* requester asks for the blocks in turn.
FewRequests == {GetMeasurements(TRUE, 8), GetMeasurements(TRUE, 0)}
FewResponses == {Algorithms(0, TRUE, TRUE), Algorithms(128, FALSE, FALSE), Good}

\* One negotiation, one request, and one response of each kind.
Plain == {Algorithms(128, TRUE, FALSE), Good}
PlainAndBroken == Plain \cup {[Good EXCEPT !.opaqueSays = 9999]}
=============================================================================
