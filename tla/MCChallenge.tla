---------------------------- MODULE MCChallenge ----------------------------
EXTENDS Challenge

\* Slot 0 has three certificates, fetched in three portions; slot 1 has one.
MCCertificates == [s \in Slots |->
    IF s = 0 THEN <<<<48, 2, 1, 2>>, <<48, 8, 1, 1, 1, 1, 1, 1, 1, 3>>, <<48, 2, 3, 4>>>>
    ELSE <<<<48, 1, 6>>>>]
MCShapes == [s \in Slots |->
    IF s = 0 THEN {[type |-> 0, opaque |-> <<>>], [type |-> 1, opaque |-> <<5, 5>>]}
    ELSE {[type |-> 1, opaque |-> <<0>>]}]
=============================================================================
