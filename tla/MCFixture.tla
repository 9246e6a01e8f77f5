----------------------------- MODULE MCFixture -----------------------------
(* Instances of Fixture for TLC: the malformed files of                    *)
(* device/measurement_source_test.c, intact ones, and the generator's.     *)
EXTENDS Fixture

D(i, len, off) == [index |-> i, reserved |-> 0, len |-> len, off |-> off]
FileOf(size, svn, desc) ==
    [readable |-> TRUE, size |-> size, magic |-> TRUE, version |-> TRUE,
     count |-> Len(desc), svn |-> svn, desc |-> desc]
Good == FileOf(56, 7, <<D(1, 8, 32), D(2, 16, 40)>>)
Newer == FileOf(56, 8, <<D(1, 16, 40), D(3, 8, 32)>>)

SmallWord == 67108864
SomeFiles == GeneratedFiles \cup
    {Good, Newer,
     [Good EXCEPT !.readable = FALSE], [Good EXCEPT !.size = 65537],
     [Good EXCEPT !.size = 15], [Good EXCEPT !.magic = FALSE],
     [Good EXCEPT !.version = FALSE], [Good EXCEPT !.size = 31],
     FileOf(56, 7, <<D(1, 8, 32), [D(2, 8, 40) EXCEPT !.reserved = 1]>>),
     FileOf(56, 7, <<D(0, 8, 32)>>), FileOf(56, 7, <<D(255, 8, 32)>>),
     FileOf(56, 7, <<D(1, 8, 32), D(1, 16, 40)>>),
     FileOf(56, 7, <<D(1, 8, 57)>>), FileOf(56, 7, <<D(1, 25, 32)>>),
     FileOf(56, 7, <<D(1, 8, 56)>>), FileOf(56, 7, <<D(1, 24, 32)>>),
     FileOf(56, 7, <<D(1, 16, SmallWord - 8)>>),
     FileOf(56, 7, <<D(1, 8, 23)>>), FileOf(56, 7, <<D(1, 0, 0)>>),
     FileOf(16, 7, <<>>)}
SomeQueries == {<<1, 8>>, <<1, 16>>, <<1, 2>>, <<2, 2>>, <<1, 0>>}

\* Nothing changed; bytes of the magic, the count, a descriptor, a value and past
\* the end, with force and without; blocks that are there and that are not.
Args(svn, byte, block, offset, force) ==
    [svn |-> svn, byte |-> byte, block |-> block, offset |-> offset, force |-> force]
SomeArguments ==
    {Args(300, NoFlip, NoFlip, 0, FALSE), Args(7, NoFlip, 2, 1, FALSE),
     Args(7, NoFlip, 2, 2, FALSE), Args(7, NoFlip, 3, 0, TRUE), Args(7, 32, 1, 0, TRUE)}
    \cup {Args(7, b, NoFlip, 0, force) : b \in {0, 6, 16, 17, 33, 36}, force \in BOOLEAN}
=============================================================================
