--------------------------- MODULE MCAttestation ---------------------------
EXTENDS Attestation

Digest(i, v) == [index |-> i, type |-> 1, isRaw |-> FALSE, value |-> v]
Svn(i, n) == [index |-> i, type |-> 7, isRaw |-> TRUE, value |-> LE(n, 4) \o Fill(0, 4)]
Mode(i) == [index |-> i, type |-> 5, isRaw |-> TRUE, value |-> <<63>>]

\* As built; upgraded; changed by an intruder; with a block more; with one index
\* claimed twice.
MCDevices == {
    <<Digest(1, <<10, 171>>), Svn(2, 5), Mode(254)>>,
    <<Digest(1, <<10, 171>>), Svn(2, 256), Mode(254)>>,
    <<Digest(1, <<10, 170>>), Svn(2, 256)>>,
    <<Digest(1, <<10, 171>>), Digest(3, <<1, 2>>), Svn(2, 256)>>,
    <<Digest(1, <<10, 170>>), Digest(1, <<10, 171>>), Svn(2, 5)>>}
\* A signature and a context, each with and without, heard and not, whole and in
\* chunks, with opaque data, and a block by itself.
Shape(all, signed, ctx, heard, chunked, opaque) ==
    [all |-> all, signed |-> signed, ctx |-> ctx, heard |-> heard,
     chunked |-> chunked, opaque |-> opaque]
MCExchanges == {
    Shape(TRUE, TRUE, Fill(1, 8), TRUE, FALSE, <<>>),
    Shape(TRUE, TRUE, Fill(2, 8), FALSE, FALSE, <<12>>),
    Shape(TRUE, FALSE, Fill(1, 8), FALSE, FALSE, <<>>),
    Shape(FALSE, FALSE, <<>>, TRUE, FALSE, <<>>),
    Shape(TRUE, TRUE, <<>>, FALSE, FALSE, <<>>),
    Shape(TRUE, TRUE, Fill(1, 8), TRUE, TRUE, <<>>)}
\* r or s with its top bit set, with a leading zero, and with neither.
MCEcdsa == [k \in Keys |->
    IF k = Trusted THEN {<<48, 9, 2, 3, 0, 128, 1, 2, 2, 127, 255>>, <<48, 7, 2, 1, 5, 2, 2, 1, 0>>}
    ELSE {<<48, 6, 2, 1, 9, 2, 1, 3>>}]
=============================================================================
