------------------------------ MODULE MCGates ------------------------------
(* Instances of Gates for TLC: an arm that meets the reference, one whose  *)
(* measurement was changed and one whose chain was; captures with the bits *)
(* together, apart and not at all, of a handshake that ended before        *)
(* CAPABILITIES, and unreadable.                                           *)
EXTENDS Gates

SomeKinds == <<"meets", "changed", "none">>
Capture(readable, responder, flags) ==
    [readable |-> readable, responder |-> responder, flags |-> flags]
SomeCaptures ==
    {Capture(TRUE, TRUE, {"MEL", "CHUNK", "CSR"}), Capture(TRUE, TRUE, {"MEL", "CSR"}),
     Capture(TRUE, TRUE, {"CHUNK"}), Capture(TRUE, FALSE, NoList), Capture(FALSE, FALSE, NoList)}
SomeObservations ==
    [fixed : BOOLEAN, defective : BOOLEAN, failed : {{}, {1}, {1, 2}}]
SomeBuilds ==
    {[mbedtls |-> b, assertEmpty |-> b, copyGoesOn |-> TRUE] : b \in BOOLEAN}
SomeLookups ==
    {<<"error", "quota", "list">>, <<"error", "object", "error">>, <<"list", "error", "quota">>}
SomeBudgets == [appraisal |-> 5, evidence |-> 3, advisories |-> 4, chain |-> 2]
=============================================================================
