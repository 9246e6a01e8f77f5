------------------------------ MODULE Fixture ------------------------------
(***************************************************************************)
(* device/gen_measurements.py writes the file that                         *)
(* device/measurement_source.c reads.  Here the file is its bytes, and     *)
(* FileOfBytes is what MeasurementSource knows of them; the generator runs at   *)
(* any moment, beside whoever else writes the file.                        *)
(***************************************************************************)
EXTENDS MeasurementSource, Sequences, SequencesExt

CONSTANTS
    HashBlocks,     \* HASH_BLOCK_INDICES, 1 .. HashBlocks
    ValueBytes,     \* VALUE_BYTES
    Arguments       \* of its runs: [svn, byte, block, offset, force]

VARIABLE made       \* the generator's last run: its arguments, its exit, the bytes
fixtureVars == <<vars, made>>

NoFlip == -1
U16Values == 256 * 256                          \* a 16-bit field has as many
ASSUME FixtureAssumption ==
    /\ HashBlocks \in 1 .. 254 /\ ValueBytes \in 1 .. U16Values - 1
    /\ HeaderBytes + (DescriptorBytes * HashBlocks + ValueBytes * HashBlocks) <= MaxFileBytes
    /\ Arguments \subseteq
         [svn : 0 .. 256 * U16Values - 1, byte : Int, block : Int, offset : Int, force : BOOLEAN]

\* A number of at most three bytes in w bytes, the least significant first.
LE(n, w) ==
    [k \in 1 .. w |->
       IF k > 3 THEN 0 ELSE <<n % 256, (n \div 256) % 256, ((n \div 256) \div 256) % 256>>[k]]
Flip(b) == IF b % 2 = 0 THEN b + 1 ELSE b - 1
U16At(raw, off) == raw[off + 1] + 256 * raw[off + 2]
U32At(raw, off) == U16At(raw, off) + U16Values * U16At(raw, off + 2)
ValueOf(index) == [k \in 1 .. ValueBytes |-> index]
DescriptorAt(raw, i) ==
    LET at == HeaderBytes + DescriptorBytes * (i - 1) IN
    [index |-> raw[at + 1], reserved |-> raw[at + 2],
     len |-> U16At(raw, at + 2), off |-> U32At(raw, at + 4)]

\* build: header, descriptors, values, in the order of the indices.
BuildHeaderOnly(svn) ==
    <<77, 83, 82, 49>> \o LE(1, 2) \o LE(HashBlocks, 2) \o LE(svn, 8)
      \o FlattenSeq([i \in 1 .. HashBlocks |->
           <<i, 0>> \o LE(ValueBytes, 2) \o LE(HeaderBytes + (i - 1) * ValueBytes, 4)])
      \o FlattenSeq([i \in 1 .. HashBlocks |-> ValueOf(i)])

Build(svn) ==
    LET tableEnd == HeaderBytes + DescriptorBytes * HashBlocks IN
    <<77, 83, 82, 49>> \o LE(1, 2) \o LE(HashBlocks, 2) \o LE(svn, 8)
      \o FlattenSeq([i \in 1 .. HashBlocks |->
           <<i, 0>> \o LE(ValueBytes, 2) \o LE(tableEnd + (i - 1) * ValueBytes, 4)])
      \o FlattenSeq([i \in 1 .. HashBlocks |-> ValueOf(i)])

\* What measurement_source.c sees in the bytes.
FileOfBytes(raw) ==
    LET count == U16At(raw, 6) IN
    [readable |-> TRUE, size |-> Len(raw), magic |-> SubSeq(raw, 1, 4) = <<77, 83, 82, 49>>,
     version |-> U16At(raw, 4) = 1, count |-> count,
     svn |-> U16At(raw, 8) + U16Values * raw[11],
     desc |-> IF HeaderBytes + DescriptorBytes * count > Len(raw) THEN <<>>
              ELSE [i \in 1 .. count |-> DescriptorAt(raw, i)]]

\* parse: the generator's own reader, which minds neither an index out of range
\* nor one that is there twice.
Parse(raw) ==
    LET count == U16At(raw, 6)
        descriptors == [i \in 1 .. count |-> DescriptorAt(raw, i)]
        refused == \/ Len(raw) < HeaderBytes
                   \/ SubSeq(raw, 1, 4) # <<77, 83, 82, 49>> \/ U16At(raw, 4) # 1
                   \/ HeaderBytes + DescriptorBytes * count > Len(raw)
                   \/ \E i \in 1 .. count : descriptors[i].reserved # 0
                        \/ descriptors[i].off > Len(raw)
                        \/ descriptors[i].len > Len(raw) - descriptors[i].off
    IN [ok |-> ~refused, blocks |-> IF refused THEN <<>> ELSE descriptors]

\* locate: is it a byte of a value.
InValue(info, offset) ==
    /\ offset >= HeaderBytes + DescriptorBytes * Len(info.blocks)
    /\ \E i \in DOMAIN info.blocks :
         /\ info.blocks[i].off <= offset
         /\ offset < info.blocks[i].off + info.blocks[i].len

\* main: the offset to change, or why not; the file is written before it is
\* read back.
Generated(a) ==
    LET raw == Build(a.svn)
        info == Parse(raw)
        match == {i \in DOMAIN info.blocks : info.blocks[i].index = a.block}
        block == info.blocks[CHOOSE i \in match : TRUE]
        flipped == IF a.block # NoFlip THEN block.off + a.offset ELSE a.byte
        after == IF flipped = NoFlip THEN raw
                 ELSE [raw EXCEPT ![flipped + 1] = Flip(@)]
        refused == [exit |-> 2, bytes |-> <<>>]
    IN IF a.block # NoFlip /\ match = {} THEN refused
       ELSE IF a.block # NoFlip /\ a.offset \notin 0 .. block.len - 1 THEN refused
       ELSE IF a.block # NoFlip /\ a.byte # NoFlip THEN refused
       ELSE IF flipped # NoFlip /\ flipped \notin 0 .. Len(raw) - 1 THEN refused
       ELSE IF flipped # NoFlip /\ ~InValue(info, flipped) /\ ~a.force THEN refused
       ELSE [exit |-> IF Parse(after).ok THEN 0 ELSE 2, bytes |-> after]

GeneratedFiles == {FileOfBytes(Generated(a).bytes) : a \in {b \in Arguments : Generated(b).bytes # <<>>}}

ASSUME WritesAssumption == GeneratedFiles \subseteq Files

Generate ==
    /\ changes < MaxChanges /\ changes' = changes + 1
    /\ \E a \in Arguments :
         LET g == Generated(a) IN
         /\ made' = [args |-> {a}, exit |-> g.exit, bytes |-> g.bytes]
         /\ file' = IF g.bytes = <<>> THEN file ELSE FileOfBytes(g.bytes)
    /\ UNCHANGED <<named, ms, answers>>

FixtureInit == Init /\ made = [args |-> {}, exit |-> 0, bytes |-> <<>>]
FixtureNext == (Next /\ UNCHANGED made) \/ Generate
FixtureSpec == FixtureInit /\ [][FixtureNext]_fixtureVars

-----------------------------------------------------------------------------
\* A fixture the generator reports written is what the responder answers from: its
\* every block, with at most one byte changed and that one where it was asked for;
\* and a change of how the file is read, not of what it says, is made only by
\* force (gen_measurements.py: build, locate, main).
GeneratedIsAnswered ==
    made.exit = 0 /\ made.bytes # <<>> /\ named =>
      \A args \in made.args :
        LET fixture == FileOfBytes(made.bytes)
            Says(i, off) == SubSeq(made.bytes, off + 1, off + ValueBytes)
            Asked4(i) == Answer(Load(fixture), <<i, ValueBytes>>)
            Differ(i) == {k \in 1 .. ValueBytes : Says(i, Asked4(i).at[1])[k] # i}
        IN ~args.force =>
             /\ Load(fixture).loaded /\ Load(fixture).svn = args.svn
             /\ \A i \in 1 .. HashBlocks :
                  /\ Asked4(i) # Refusal
                  /\ args.block # NoFlip =>
                       Differ(i) = IF i = args.block THEN {args.offset + 1} ELSE {}
             /\ args.byte # NoFlip =>
                  Cardinality(UNION {{<<i, k>> : k \in Differ(i)} : i \in 1 .. HashBlocks}) = 1
             /\ args.byte = NoFlip /\ args.block = NoFlip =>
                  \A i \in 1 .. HashBlocks : Differ(i) = {}
             /\ ms.loaded /\ ms.image = fixture =>
                  \A a \in answers : a.got = Answer(Load(fixture), a.ask)

\* Why: the last run is of the generator as it was asked, and what is loaded is what
\* its image loads as, whoever has written the file since.
MadeInv ==
    made.bytes # <<>> =>
      \E a \in Arguments : made = [args |-> {a}, exit |-> Generated(a).exit,
                                   bytes |-> Generated(a).bytes]
ImageInv == ms.loaded => ms = Load(ms.image)
FixtureInv == MadeInv /\ ImageInv /\ AnswersInv
=============================================================================
