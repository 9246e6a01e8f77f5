--------------------- MODULE CapturedConversationProofs ---------------------
(* Proofs about what is made of a capture: the messages put together from  *)
(* chunks were sent, whole and in their order; a chain that closes is its  *)
(* slot's; and the chunk arithmetic gives the round trips counted.         *)
EXTENDS CapturedConversation, Recursion, TLAPS

-----------------------------------------------------------------------------
(* The values.                                                             *)

\* A CERTIFICATE is of a slot's chain.
Sent == {m \in Messages : m.name = "CERTIFICATE" =>
                            m.slot \in Slots /\ m.chain = ChainBytes[m.slot]}
ChunkOf(S) == [handle : 0 .. Handles - 1, seq : Nat, last : BOOLEAN, declared : Int, says : Int,
               from : Int, n : Int, of : S]
Piece == ChunkOf(Sent)
Packet == {p \in [form : {"spdm"}, msg : Sent, chunk : ChunkOf(Sent \cup {None})] :
             p.msg.name = "CHUNK_RESPONSE" => p.chunk \in Piece}

OpenSequence == [handle : 0 .. Handles - 1, pieces : Seq(Piece) \ {<<>>},
                 declared : Int, next : Nat]
ClosedSequence == [complete : BOOLEAN, bytes : Int, pieces : Seq(Piece) \ {<<>>}]
Reassembly == [logical : Seq(Sent), sequences : Seq(ClosedSequence), notes : Int,
               open : OpenSequence \cup {Stats!NoSequence}]

OpenChain == {c \in [slot : Slots, portions : Seq(Int) \ {<<>>}, declared : Int,
                     length : Int \cup {None}] : c.length \in {None, ChainBytes[c.slot]}}
SettledChain == {c \in [slot : Slots, bytes : Int, closes : BOOLEAN] :
                   c.closes => c.bytes = ChainBytes[c.slot]}
GoodChain == {c \in SettledChain : c.closes}
Walk == [chains : Seq(SettledChain), open : OpenChain \cup {Stats!NoChain}]

-----------------------------------------------------------------------------
(* The walks, a step at a time.                                            *)

\* The sum of a sequence of numbers.
TotalStep == [y \in Int \X Int |-> y[1] + y[2]]

LEMMA TotalStepType == 0 \in Int /\ TotalStep \in [Int \X Int -> Int]
BY DEF TotalStep

LEMMA TotalFolds ==
    ASSUME NEW s \in Seq(Int)
    PROVE  \E f \in [0 .. Len(s) -> Int] :
             FoldsTo(f, 0, s, TotalStep) /\ Stats!Total(s) = f[Len(s)]
<1> DEFINE n == Len(s)
           Begun(g) == g = [k \in 0 .. n |-> IF k = 0 THEN 0 ELSE g[k - 1] + s[k]]
           c == CHOOSE g : Begun(g)
<1>1. n \in Nat /\ \A k \in 1 .. n : s[k] \in Int
  OBVIOUS
<1>2. PICK f \in [0 .. n -> Int] : FoldsTo(f, 0, s, TotalStep)
  BY TotalStepType, FoldExists
<1>3. f[0] = 0 /\ Folded(f, s, TotalStep, n)
  BY <1>1, <1>2, FoldShape
<1>4. \A k \in 1 .. n : f[k] = f[k - 1] + s[k]
  <2> SUFFICES ASSUME NEW k \in 1 .. n PROVE f[k] = f[k - 1] + s[k]
    OBVIOUS
  <2>1. f[k - 1] \in Int /\ s[k] \in Int
    <3>1. k - 1 \in 0 .. n
      BY <1>1
    <3> QED BY <1>1, <3>1
  <2>2. TotalStep[<<f[k - 1], s[k]>>] = f[k - 1] + s[k]
    BY <2>1 DEF TotalStep
  <2> QED BY <1>3, <2>2 DEF Folded
<1>5. Begun(f)
  <2>1. \A k \in 0 .. n : f[k] = IF k = 0 THEN 0 ELSE f[k - 1] + s[k]
    <3> SUFFICES ASSUME NEW k \in 0 .. n
                 PROVE  f[k] = IF k = 0 THEN 0 ELSE f[k - 1] + s[k]
      OBVIOUS
    <3>1. CASE k = 0
      BY <1>3, <3>1
    <3>2. CASE k # 0
      <4>1. k \in 1 .. n
        BY <1>1, <3>2
      <4> QED BY <1>4, <3>2, <4>1
    <3> QED BY <3>1, <3>2
  <2> HIDE DEF n
  <2> QED BY <2>1
<1>6. Begun(c)
  BY <1>5
<1>7. Stats!Total(s) = c[n]
  BY DEF Stats!Total
<1>8. c[n] = f[n]
  <2> DEFINE T == {i \in Nat : i <= n => c[i] = f[i]}
  <2>1. 0 \in T
    <3>1. 0 \in 0 .. n
      BY <1>1
    <3>2. c[0] = 0
      BY <1>6, <3>1, Zenon
    <3> QED BY <1>3, <3>2
  <2>2. ASSUME NEW i \in Nat, i \in T PROVE i + 1 \in T
    <3>1. SUFFICES ASSUME i + 1 <= n PROVE c[i + 1] = f[i + 1]
      OBVIOUS
    <3>2. c[i] = f[i] /\ i + 1 \in 1 .. n /\ i + 1 \in 0 .. n /\ i + 1 # 0 /\ (i + 1) - 1 = i
      BY <1>1, <2>2, <3>1
    <3>3. c[i + 1] = c[(i + 1) - 1] + s[i + 1]
      BY <1>6, <3>2, Zenon
    <3>4. f[i + 1] = f[(i + 1) - 1] + s[i + 1]
      BY <1>4, <3>2, Zenon
    <3> QED BY <3>2, <3>3, <3>4
  <2> HIDE DEF T, n, c
  <2>3. Nat \subseteq T
    BY <2>1, <2>2, Induct
  <2> QED BY <1>1, <2>3 DEF T
<1> QED BY <1>2, <1>7, <1>8

\* It stays in its set, and another element is another step.
LEMMA TotalAppends ==
    ASSUME NEW s \in Seq(Int), NEW x \in Int
    PROVE  /\ Stats!Total(s) \in Int
           /\ Stats!Total(Append(s, x)) = Stats!Total(s) + x
<1> DEFINE n == Len(s)
<1>1. n \in Nat /\ Len(Append(s, x)) = n + 1 /\ Append(s, x) \in Seq(Int)
  OBVIOUS
<1>2. PICK f \in [0 .. n -> Int] :
        FoldsTo(f, 0, s, TotalStep) /\ Stats!Total(s) = f[n]
  BY TotalFolds
<1>3. PICK g : FoldsTo(g, 0, Append(s, x), TotalStep) /\ Stats!Total(Append(s, x)) = g[n + 1]
  BY <1>1, TotalFolds
<1>4. g[n + 1] = TotalStep[<<f[n], x>>]
  <2> DEFINE t == Append(s, x)
  <2>1. Longer(t, s, n, x)
    BY <1>1 DEF Longer
  <2>2. FoldsTo(g, 0, t, TotalStep)
    BY <1>3
  <2>3. FoldsTo(f, 0, s, TotalStep)
    BY <1>2
  <2> HIDE DEF t, n
  <2> QED BY <1>1, <2>1, <2>2, <2>3, FoldAppend
<1>5. f[n] \in Int
  <2>1. n \in 0 .. n
    BY <1>1
  <2> QED BY <2>1
<1> QED BY <1>2, <1>3, <1>4, <1>5 DEF TotalStep

-----------------------------------------------------------------------------
(* The reassembly of chunks.                                               *)

\* The bytes of a sequence's pieces are counted one by one.
LEMMA BytesAppend ==
    ASSUME NEW s \in Seq(Piece), NEW c \in Piece
    PROVE  Stats!Bytes(s) \in Int /\ Stats!Bytes(Append(s, c)) = Stats!Bytes(s) + c.n
<1> DEFINE Ns(t) == [k \in DOMAIN t |-> t[k].n]
<1>1. Ns(s) \in Seq(Int) /\ c.n \in Int
  <2>1. \A e \in Piece : e.n \in Int
    BY DEF Piece, ChunkOf
  <2>2. \A k \in DOMAIN s : s[k] \in Piece
    OBVIOUS
  <2> HIDE DEF Ns
  <2>3. \A k \in DOMAIN s : s[k].n \in Int
    BY <2>1, <2>2
  <2> QED BY <2>1, <2>3 DEF Ns
<1>2. Ns(Append(s, c)) = Append(Ns(s), c.n)
  <2>1. DOMAIN Append(s, c) = 1 .. Len(s) + 1 /\ DOMAIN s = 1 .. Len(s) /\ Len(s) \in Nat
    OBVIOUS
  <2>2. Ns(s) \in Seq(Int) /\ Len(Ns(s)) = Len(s)
    BY <1>1
  <2>3. DOMAIN Append(Ns(s), c.n) = 1 .. Len(s) + 1
    BY <2>1, <2>2
  <2>4. ASSUME NEW k \in 1 .. Len(s) + 1 PROVE Append(s, c)[k].n = Append(Ns(s), c.n)[k]
    <3>1. CASE k = Len(s) + 1
      BY <2>1, <2>2, <3>1
    <3>2. CASE k # Len(s) + 1
      <4>1. k \in 1 .. Len(s) /\ Append(s, c)[k] = s[k] /\ Append(Ns(s), c.n)[k] = Ns(s)[k]
        BY <2>1, <2>2, <3>2
      <4> QED BY <2>1, <4>1
    <3> QED BY <3>1, <3>2
  <2>5. Append(Ns(s), c.n) = [k \in 1 .. Len(s) + 1 |-> Append(Ns(s), c.n)[k]]
    BY <2>2, <2>3
  <2> QED BY <2>1, <2>4, <2>5
<1>3. /\ Stats!Bytes(s) = Stats!Total(Ns(s))
      /\ Stats!Bytes(Append(s, c)) = Stats!Total(Ns(Append(s, c)))
  BY DEF Stats!Bytes, Stats!SumOf
<1> HIDE DEF Ns
<1>4. Stats!Total(Ns(s)) \in Int /\ Stats!Total(Append(Ns(s), c.n)) = Stats!Total(Ns(s)) + c.n
  BY <1>1, TotalAppends
<1> QED BY <1>2, <1>3, <1>4

LEMMA BytesOne ==
    ASSUME NEW c \in Piece
    PROVE  Stats!Bytes(<<>>) = 0 /\ Stats!Bytes(<<c>>) = c.n
<1>1. Stats!Bytes(<<>>) = 0
  <2>1. [k \in DOMAIN <<>> |-> <<>>[k].n] = <<>>
    OBVIOUS
  <2>2. PICK f : FoldsTo(f, 0, <<>>, TotalStep) /\ Stats!Total(<<>>) = f[Len(<<>>)]
    <3>1. <<>> \in Seq(Int)
      OBVIOUS
    <3> QED BY <3>1, TotalFolds
  <2>3. f[0] = 0 /\ Len(<<>>) = 0
    BY <2>2, FoldShape
  <2> QED BY <2>1, <2>2, <2>3 DEF Stats!Bytes, Stats!SumOf
<1>2. <<c>> = Append(<<>>, c) /\ <<>> \in Seq(Piece)
  OBVIOUS
<1>3. c.n \in Int
  BY DEF Piece, ChunkOf
<1>4. Stats!Bytes(Append(<<>>, c)) = Stats!Bytes(<<>>) + c.n
  BY <1>2, BytesAppend
<1> QED BY <1>1, <1>2, <1>3, <1>4

LEMMA EmptyType == Stats!EmptyDechunk \in Reassembly
BY DEF Stats!EmptyDechunk, Reassembly

LEMMA NotOpen == Stats!NoSequence \notin OpenSequence
BY DEF Stats!NoSequence, OpenSequence

\* What close() leaves.
LEMMA CloseIs ==
    ASSUME NEW d \in Reassembly, d.open # Stats!NoSequence, NEW ok \in BOOLEAN
    PROVE  /\ Stats!Close(d, ok) \in Reassembly
           /\ Stats!Close(d, ok).open = Stats!NoSequence
           /\ Stats!Close(d, ok).sequences =
                Append(d.sequences, [complete |-> ok, bytes |-> Stats!Bytes(d.open.pieces),
                                     pieces |-> d.open.pieces])
           /\ Stats!Close(d, ok).logical =
                IF ok THEN Append(d.logical, [d.open.pieces[1].of EXCEPT
                                                !.size = Stats!Bytes(d.open.pieces)])
                ELSE d.logical
<1> DEFINE o == d.open
           b == Stats!Bytes(o.pieces)
           m == [o.pieces[1].of EXCEPT !.size = b]
           r == [complete |-> ok, bytes |-> b, pieces |-> o.pieces]
<1>1. o \in OpenSequence
  BY DEF Reassembly
<1>2. o.pieces \in Seq(Piece) /\ o.pieces # <<>> /\ o.pieces[1] \in Piece
  BY <1>1 DEF OpenSequence
<1>3. b \in Int
  BY <1>2, BytesAppend
<1>4. r \in ClosedSequence
  BY <1>2, <1>3 DEF ClosedSequence
<1>5. m \in Sent
  <2>1. o.pieces[1].of \in Sent
    BY <1>2 DEF Piece, ChunkOf
  <2> HIDE DEF b
  <2> QED BY <1>3, <2>1 DEF Sent, Messages
<1> HIDE DEF m, r, b
<1>6. Stats!Close(d, ok) =
        [logical |-> IF ok THEN Append(d.logical, m) ELSE d.logical,
         sequences |-> Append(d.sequences, r),
         notes |-> IF ok THEN d.notes ELSE d.notes + 1,
         open |-> Stats!NoSequence]
  <2>1. d = [logical |-> d.logical, sequences |-> d.sequences, notes |-> d.notes, open |-> d.open]
    BY DEF Reassembly
  <2>2. Stats!Close(d, ok) = [d EXCEPT !.sequences = Append(@, r),
                                       !.notes = IF ok THEN @ ELSE @ + 1,
                                       !.logical = IF ok THEN Append(@, m) ELSE @,
                                       !.open = Stats!NoSequence]
    BY DEF Stats!Close, Stats!Assembled, m, r, b
  <2> QED BY <2>1, <2>2
<1>7. Stats!Close(d, ok) \in Reassembly
  BY <1>4, <1>5, <1>6 DEF Reassembly
<1> QED BY <1>6, <1>7 DEF m, r, b

LEMMA CloseOpenIs ==
    ASSUME NEW d \in Reassembly
    PROVE  /\ Stats!CloseOpen(d) \in Reassembly
           /\ Stats!CloseOpen(d).logical = d.logical
           /\ Stats!CloseOpen(d).open = Stats!NoSequence
           /\ \/ Stats!CloseOpen(d).sequences = d.sequences
              \/ \E r \in ClosedSequence :
                   ~r.complete /\ Stats!CloseOpen(d).sequences = Append(d.sequences, r)
<1>1. CASE d.open = Stats!NoSequence
  BY <1>1 DEF Stats!CloseOpen
<1>2. CASE d.open # Stats!NoSequence
  <2>1. Stats!CloseOpen(d) = Stats!Close(d, FALSE)
    BY <1>2 DEF Stats!CloseOpen
  <2> DEFINE r == [complete |-> FALSE, bytes |-> Stats!Bytes(d.open.pieces),
                   pieces |-> d.open.pieces]
  <2>2. r \in ClosedSequence
    <3>1. d.open \in OpenSequence
      BY <1>2 DEF Reassembly
    <3>2. d.open.pieces \in Seq(Piece) \ {<<>>}
      BY <3>1 DEF OpenSequence
    <3>3. Stats!Bytes(d.open.pieces) \in Int
      <4>1. d.open.pieces[1] \in Piece
        BY <3>2
      <4> QED BY <3>2, <4>1, BytesAppend
    <3> QED BY <3>2, <3>3 DEF ClosedSequence
  <2>3. ~r.complete
    OBVIOUS
  <2>4. /\ Stats!Close(d, FALSE) \in Reassembly
        /\ Stats!Close(d, FALSE).open = Stats!NoSequence
        /\ Stats!Close(d, FALSE).sequences = Append(d.sequences, r)
        /\ Stats!Close(d, FALSE).logical = d.logical
    BY <1>2, CloseIs
  <2> HIDE DEF r
  <2> QED BY <2>1, <2>2, <2>3, <2>4
<1> QED BY <1>1, <1>2

LEMMA ClosedType ==
    ASSUME NEW d \in Reassembly, d.open # Stats!NoSequence
    PROVE  [complete |-> FALSE, bytes |-> Stats!Bytes(d.open.pieces), pieces |-> d.open.pieces]
             \in ClosedSequence
<1>1. d.open.pieces \in Seq(Piece) \ {<<>>}
  BY DEF Reassembly, OpenSequence
<1>2. Stats!Bytes(d.open.pieces) \in Int
  BY <1>1, BytesAppend, d.open.pieces[1] \in Piece
<1> QED BY <1>1, <1>2 DEF ClosedSequence

\* A first chunk begins a sequence, and closes the one before.
LEMMA BeginIs ==
    ASSUME NEW d \in Reassembly, NEW c \in Piece
    PROVE  /\ Stats!Begin(d, c) \in Reassembly
           /\ Stats!Begin(d, c).open = [handle |-> c.handle, pieces |-> <<c>>,
                                        declared |-> c.declared, next |-> 1]
           /\ Stats!Begin(d, c).logical = d.logical
           /\ Stats!Begin(d, c).sequences = Stats!CloseOpen(d).sequences
<1> DEFINE o == [handle |-> c.handle, pieces |-> <<c>>, declared |-> c.declared, next |-> 1]
           e == Stats!CloseOpen(d)
<1>1. o \in OpenSequence
  BY DEF OpenSequence, Piece, ChunkOf
<1>2. e \in Reassembly /\ e.logical = d.logical
  BY CloseOpenIs
<1>3. Stats!Begin(d, c) = [e EXCEPT !.open = o]
  BY DEF Stats!Begin
<1> HIDE DEF o, e
<1>4. [e EXCEPT !.open = o] = [logical |-> e.logical, sequences |-> e.sequences,
                               notes |-> e.notes, open |-> o]
  BY <1>2 DEF Reassembly
<1>5. [e EXCEPT !.open = o] \in Reassembly
  BY <1>1, <1>2, <1>4 DEF Reassembly
<1> QED BY <1>2, <1>3, <1>4, <1>5 DEF o, e

\* The next chunk is one piece more.
LEMMA ExtendIs ==
    ASSUME NEW d \in Reassembly, d.open # Stats!NoSequence, NEW c \in Piece
    PROVE  /\ Stats!Extend(d, c) \in Reassembly
           /\ Stats!Extend(d, c).open = [handle |-> d.open.handle,
                                         pieces |-> Append(d.open.pieces, c),
                                         declared |-> d.open.declared, next |-> d.open.next + 1]
           /\ Stats!Extend(d, c).logical = d.logical
           /\ Stats!Extend(d, c).sequences = d.sequences
<1> DEFINE o == [handle |-> d.open.handle, pieces |-> Append(d.open.pieces, c),
                 declared |-> d.open.declared, next |-> d.open.next + 1]
<1>1. d.open \in OpenSequence
  BY DEF Reassembly
<1>2. o \in OpenSequence
  <2>1. d.open.pieces \in Seq(Piece) /\ Append(d.open.pieces, c) \in Seq(Piece)
    BY <1>1 DEF OpenSequence
  <2>2. Append(d.open.pieces, c) # <<>>
    BY <2>1
  <2> QED BY <1>1, <2>1, <2>2 DEF OpenSequence
<1>3. Stats!Extend(d, c) = [logical |-> d.logical, sequences |-> d.sequences,
                            notes |-> d.notes, open |-> o]
  <2>1. d = [logical |-> d.logical, sequences |-> d.sequences, notes |-> d.notes, open |-> d.open]
    BY DEF Reassembly
  <2>2. Stats!Extend(d, c) = [d EXCEPT !.open = o]
    BY DEF Stats!Extend
  <2> HIDE DEF o
  <2> QED BY <2>1, <2>2
<1> HIDE DEF o
<1>4. Stats!Extend(d, c) \in Reassembly
  BY <1>2, <1>3 DEF Reassembly
<1> QED BY <1>3, <1>4 DEF o

LEMMA OpenHasPieces ==
    ASSUME NEW o, o.pieces # <<>>
    PROVE  o # Stats!NoSequence
BY DEF Stats!NoSequence

LEMMA NoteIs ==
    ASSUME NEW d \in Reassembly
    PROVE  /\ Stats!Note(d) \in Reassembly
           /\ Stats!Note(d).logical = d.logical
           /\ Stats!Note(d).sequences = d.sequences
           /\ Stats!Note(d).open = d.open
<1>1. Stats!Note(d) = [logical |-> d.logical, sequences |-> d.sequences,
                       notes |-> d.notes + 1, open |-> d.open]
  BY DEF Stats!Note, Reassembly
<1>2. Stats!Note(d) \in Reassembly
  BY <1>1 DEF Reassembly
<1> QED BY <1>1, <1>2

\* A message that is no chunk, and the last chunk of a sequence.
LEMMA MessageIs ==
    ASSUME NEW d \in Reassembly, NEW p \in Packet, p.msg.name # "CHUNK_RESPONSE"
    PROVE  /\ Stats!Dechunk1(d, p) \in Reassembly
           /\ Stats!Dechunk1(d, p).logical = Append(d.logical, p.msg)
           /\ Stats!Dechunk1(d, p).sequences = d.sequences
           /\ Stats!Dechunk1(d, p).open = d.open
<1>1. Stats!Dechunk1(d, p) = [d EXCEPT !.logical = Append(d.logical, p.msg)]
  BY DEF Stats!Dechunk1, Packet, Reassembly
<1>2. Stats!Dechunk1(d, p) = [logical |-> Append(d.logical, p.msg), sequences |-> d.sequences,
                              notes |-> d.notes, open |-> d.open]
  BY <1>1 DEF Reassembly
<1>3. p.msg \in Sent
  BY DEF Packet
<1>4. Stats!Dechunk1(d, p) \in Reassembly
  BY <1>2, <1>3 DEF Reassembly
<1> QED BY <1>2, <1>4

LEMMA LastChunkIs ==
    ASSUME NEW d \in Reassembly, d.open # Stats!NoSequence
    PROVE  Stats!LastChunk(d) = Stats!Close(d, Stats!Bytes(d.open.pieces) = d.open.declared)
BY DEF Stats!LastChunk, Stats!Assembled

\* One that is a chunk: spoiled, first, out of turn, or the next.
LEMMA ChunkIs ==
    ASSUME NEW d \in Reassembly, NEW p \in Packet, p.msg.name = "CHUNK_RESPONSE",
           p.msg.size >= 12
    PROVE  LET c == p.chunk
               finish(e) == IF c.last THEN Stats!LastChunk(e) ELSE e
               next == Stats!Dechunk1(d, p)
           IN /\ c.n # c.says => next = Stats!CloseOpen(Stats!Note(d))
              /\ c.n = c.says /\ c.seq = 0 => next = finish(Stats!Begin(d, c))
              /\ c.n = c.says /\ c.seq # 0 /\ d.open = Stats!NoSequence => next = Stats!Note(d)
              /\ c.n = c.says /\ c.seq # 0 /\ d.open # Stats!NoSequence =>
                   next = IF c.handle = d.open.handle /\ c.seq = d.open.next
                          THEN finish(Stats!Extend(d, c)) ELSE Stats!Close(d, FALSE)
<1>1. p.form = "spdm" /\ ~(p.msg.size < Stats!ChunkHeader)
  BY DEF Packet, Sent, Messages, Stats!ChunkHeader
<1> QED BY <1>1 DEF Stats!Dechunk1

LEMMA Dechunk1Type ==
    ASSUME NEW d \in Reassembly, NEW p \in Packet
    PROVE  Stats!Dechunk1(d, p) \in Reassembly
<1> DEFINE c == p.chunk
<1>1. CASE p.msg.name # "CHUNK_RESPONSE"
  BY <1>1, MessageIs
<1>2. CASE p.msg.name = "CHUNK_RESPONSE" /\ p.msg.size < 12
  <2>1. Stats!Dechunk1(d, p) = Stats!Note(d)
    BY <1>2 DEF Stats!Dechunk1, Stats!ChunkHeader, Packet
  <2> QED BY <2>1, NoteIs
<1>3. CASE p.msg.name = "CHUNK_RESPONSE" /\ ~(p.msg.size < 12)
  <2>1. p.msg.size >= 12 /\ c \in Piece
    BY <1>3 DEF Packet, Sent, Messages
  <2> HIDE DEF c
  <2>2. \A e \in Reassembly : e.open # Stats!NoSequence => Stats!LastChunk(e) \in Reassembly
    <3> SUFFICES ASSUME NEW e \in Reassembly, e.open # Stats!NoSequence
                 PROVE  Stats!LastChunk(e) \in Reassembly
      OBVIOUS
    <3> DEFINE ok == Stats!Bytes(e.open.pieces) = e.open.declared
    <3>1. ok \in BOOLEAN
      OBVIOUS
    <3> HIDE DEF ok
    <3>2. Stats!Close(e, ok) \in Reassembly
      BY <3>1, CloseIs
    <3> QED BY <3>2, LastChunkIs DEF ok
  <2>3. Stats!CloseOpen(Stats!Note(d)) \in Reassembly /\ Stats!Note(d) \in Reassembly
    BY NoteIs, CloseOpenIs
  <2>4. Stats!Begin(d, c) \in Reassembly /\ Stats!Begin(d, c).open # Stats!NoSequence
    <3>0. c \in Piece
      BY <2>1
    <3>2. Stats!Begin(d, c).open = [handle |-> c.handle, pieces |-> <<c>>,
                                    declared |-> c.declared, next |-> 1]
      BY <3>0, BeginIs
    <3>1. Stats!Begin(d, c) \in Reassembly /\ Stats!Begin(d, c).open.pieces = <<c>>
      BY <3>0, <3>2, BeginIs
    <3>3. <<c>> # <<>>
      OBVIOUS
    <3> QED BY <3>1, <3>3, OpenHasPieces
  <2>5. d.open # Stats!NoSequence =>
          /\ Stats!Close(d, FALSE) \in Reassembly
          /\ Stats!Extend(d, c) \in Reassembly
          /\ Stats!Extend(d, c).open # Stats!NoSequence
    <3> SUFFICES ASSUME d.open # Stats!NoSequence
                 PROVE  /\ Stats!Close(d, FALSE) \in Reassembly
                        /\ Stats!Extend(d, c) \in Reassembly
                        /\ Stats!Extend(d, c).open # Stats!NoSequence
      OBVIOUS
    <3>1. Stats!Close(d, FALSE) \in Reassembly
      BY CloseIs
    <3>2. Stats!Extend(d, c) \in Reassembly
      BY <2>1, ExtendIs
    <3>3. Stats!Extend(d, c).open.pieces = Append(d.open.pieces, c)
      <4>1. Stats!Extend(d, c).open = [handle |-> d.open.handle,
                                       pieces |-> Append(d.open.pieces, c),
                                       declared |-> d.open.declared, next |-> d.open.next + 1]
        BY <2>1, ExtendIs
      <4> QED BY <4>1
    <3>4. d.open.pieces \in Seq(Piece)
      BY DEF Reassembly, OpenSequence
    <3>5. Append(d.open.pieces, c) # <<>>
      <4>1. c \in Piece
        BY <2>1
      <4> QED BY <3>4, <4>1
    <3>6. Stats!Extend(d, c).open # Stats!NoSequence
      BY <3>3, <3>5, OpenHasPieces
    <3> QED BY <3>1, <3>2, <3>6
  <2> QED BY <1>3, <2>1, <2>2, <2>3, <2>4, <2>5, ChunkIs DEF c
<1> QED BY <1>1, <1>2, <1>3

\* The packets of a capture, one after the other.
DechunkStep == [y \in Reassembly \X Packet |-> Stats!Dechunk1(y[1], y[2])]

LEMMA DechunkStepType ==
    Stats!EmptyDechunk \in Reassembly /\ DechunkStep \in [Reassembly \X Packet -> Reassembly]
BY EmptyType, Dechunk1Type DEF DechunkStep

LEMMA DechunkFolds ==
    ASSUME NEW s \in Seq(Packet)
    PROVE  \E f \in [0 .. Len(s) -> Reassembly] :
             FoldsTo(f, Stats!EmptyDechunk, s, DechunkStep) /\ Stats!Dechunked(s) = f[Len(s)]
<1> DEFINE n == Len(s)
           Begun(g) == g = [k \in 0 .. n |-> IF k = 0 THEN Stats!EmptyDechunk
                                             ELSE Stats!Dechunk1(g[k - 1], s[k])]
           c == CHOOSE g : Begun(g)
<1>1. n \in Nat /\ \A k \in 1 .. n : s[k] \in Packet
  OBVIOUS
<1>2. PICK f \in [0 .. n -> Reassembly] : FoldsTo(f, Stats!EmptyDechunk, s, DechunkStep)
  BY DechunkStepType, FoldExists
<1>3. f[0] = Stats!EmptyDechunk /\ Folded(f, s, DechunkStep, n)
  BY <1>1, <1>2, FoldShape
<1>4. \A k \in 1 .. n : f[k] = Stats!Dechunk1(f[k - 1], s[k])
  <2> SUFFICES ASSUME NEW k \in 1 .. n PROVE f[k] = Stats!Dechunk1(f[k - 1], s[k])
    OBVIOUS
  <2>1. f[k - 1] \in Reassembly /\ s[k] \in Packet
    <3>1. k - 1 \in 0 .. n
      BY <1>1
    <3> QED BY <1>1, <3>1
  <2>2. DechunkStep[<<f[k - 1], s[k]>>] = Stats!Dechunk1(f[k - 1], s[k])
    BY <2>1 DEF DechunkStep
  <2> QED BY <1>3, <2>2 DEF Folded
<1>5. Begun(f)
  <2>1. \A k \in 0 .. n : f[k] = IF k = 0 THEN Stats!EmptyDechunk
                                 ELSE Stats!Dechunk1(f[k - 1], s[k])
    <3> SUFFICES ASSUME NEW k \in 0 .. n
                 PROVE  f[k] = IF k = 0 THEN Stats!EmptyDechunk ELSE Stats!Dechunk1(f[k - 1], s[k])
      OBVIOUS
    <3>1. CASE k = 0
      BY <1>3, <3>1
    <3>2. CASE k # 0
      <4>1. k \in 1 .. n
        BY <1>1, <3>2
      <4> QED BY <1>4, <3>2, <4>1
    <3> QED BY <3>1, <3>2
  <2> HIDE DEF n
  <2> QED BY <2>1
<1>6. Begun(c)
  BY <1>5
<1>7. Stats!Dechunked(s) = c[n]
  BY DEF Stats!Dechunked
<1>8. c[n] = f[n]
  <2> DEFINE T == {i \in Nat : i <= n => c[i] = f[i]}
  <2>1. 0 \in T
    <3>1. 0 \in 0 .. n
      BY <1>1
    <3>2. c[0] = Stats!EmptyDechunk
      BY <1>6, <3>1, Zenon
    <3> QED BY <1>3, <3>2
  <2>2. ASSUME NEW i \in Nat, i \in T PROVE i + 1 \in T
    <3>1. SUFFICES ASSUME i + 1 <= n PROVE c[i + 1] = f[i + 1]
      OBVIOUS
    <3>2. c[i] = f[i] /\ i + 1 \in 1 .. n /\ i + 1 \in 0 .. n /\ i + 1 # 0 /\ (i + 1) - 1 = i
      BY <1>1, <2>2, <3>1
    <3>3. c[i + 1] = Stats!Dechunk1(c[(i + 1) - 1], s[i + 1])
      BY <1>6, <3>2, Zenon
    <3>4. f[i + 1] = Stats!Dechunk1(f[(i + 1) - 1], s[i + 1])
      BY <1>4, <3>2, Zenon
    <3> QED BY <3>2, <3>3, <3>4
  <2> HIDE DEF T, n, c
  <2>3. Nat \subseteq T
    BY <2>1, <2>2, Induct
  <2> QED BY <1>1, <2>3 DEF T
<1> QED BY <1>2, <1>7, <1>8

\* It stays in its set, and another element is another step.
LEMMA DechunkAppends ==
    ASSUME NEW s \in Seq(Packet), NEW x \in Packet
    PROVE  /\ Stats!Dechunked(s) \in Reassembly
           /\ Stats!Dechunked(Append(s, x)) = Stats!Dechunk1(Stats!Dechunked(s), x)
<1> DEFINE n == Len(s)
<1>1. n \in Nat /\ Len(Append(s, x)) = n + 1 /\ Append(s, x) \in Seq(Packet)
  OBVIOUS
<1>2. PICK f \in [0 .. n -> Reassembly] :
        FoldsTo(f, Stats!EmptyDechunk, s, DechunkStep) /\ Stats!Dechunked(s) = f[n]
  BY DechunkFolds
<1>3. PICK g : /\ FoldsTo(g, Stats!EmptyDechunk, Append(s, x), DechunkStep)
               /\ Stats!Dechunked(Append(s, x)) = g[n + 1]
  BY <1>1, DechunkFolds
<1>4. g[n + 1] = DechunkStep[<<f[n], x>>]
  <2> DEFINE t == Append(s, x)
  <2>1. Longer(t, s, n, x)
    BY <1>1 DEF Longer
  <2>2. FoldsTo(g, Stats!EmptyDechunk, t, DechunkStep)
    BY <1>3
  <2>3. FoldsTo(f, Stats!EmptyDechunk, s, DechunkStep)
    BY <1>2
  <2> HIDE DEF t, n
  <2> QED BY <1>1, <2>1, <2>2, <2>3, FoldAppend
<1>5. f[n] \in Reassembly
  <2>1. n \in 0 .. n
    BY <1>1
  <2> QED BY <2>1
<1> QED BY <1>2, <1>3, <1>4, <1>5 DEF DechunkStep

-----------------------------------------------------------------------------
(* The walk over certificates.                                             *)

EmptyWalk == [chains |-> <<>>, open |-> Stats!NoChain]

LEMMA SettledType ==
    ASSUME NEW o \in OpenChain
    PROVE  /\ Stats!SettleChain(o) \in SettledChain
           /\ Stats!SettleChain(o).slot = o.slot
           /\ [Stats!SettleChain(o) EXCEPT !.closes = FALSE] \in SettledChain
<1>1. Stats!Total(o.portions) \in Int
  BY TotalAppends, o.portions[1] \in Int DEF OpenChain
<1> DEFINE t == Stats!Total(o.portions)
           ok == t = o.declared /\ t >= 4 /\ o.length = t
<1>2. Stats!SettleChain(o) = [slot |-> o.slot, bytes |-> t, closes |-> ok]
  BY DEF Stats!SettleChain
<1>3. o.slot \in Slots /\ o.length \in {None, ChainBytes[o.slot]} /\ None \notin Int
  BY NoneAssumption DEF OpenChain
<1>4. ok \in BOOLEAN /\ (ok => t = ChainBytes[o.slot])
  BY <1>1, <1>3
<1> HIDE DEF t, ok
<1>5. t \in Int
  BY <1>1 DEF t
<1>6. [slot |-> o.slot, bytes |-> t, closes |-> ok] \in SettledChain
  BY <1>3, <1>4, <1>5 DEF SettledChain
<1>7. [Stats!SettleChain(o) EXCEPT !.closes = FALSE] \in SettledChain
  <2> DEFINE r == Stats!SettleChain(o)
  <2>1. r \in [slot : Slots, bytes : Int, closes : BOOLEAN]
    BY <1>2, <1>6 DEF SettledChain
  <2> HIDE DEF r
  <2>2. [r EXCEPT !.closes = FALSE] \in [slot : Slots, bytes : Int, closes : BOOLEAN]
    BY <2>1
  <2>3. ~[r EXCEPT !.closes = FALSE].closes
    BY <2>1
  <2> QED BY <2>2, <2>3 DEF SettledChain, r
<1> QED BY <1>2, <1>6, <1>7

\* The chain a message begins or goes on with.
ChainWith(w, m) ==
    IF w.open = Stats!NoChain
    THEN [slot |-> m.slot, portions |-> <<m.portion>>, declared |-> m.portion + m.remainder,
          length |-> Stats!FirstBytes(m)]
    ELSE [w.open EXCEPT !.portions = Append(@, m.portion)]

LEMMA ChainWithType ==
    ASSUME NEW w \in Walk, NEW m \in Sent, m.name = "CERTIFICATE"
    PROVE  ChainWith(w, m) \in OpenChain
<1>1. m.slot \in Slots /\ m.chain = ChainBytes[m.slot] /\ m.portion \in Int /\ m.remainder \in Int
  BY DEF Sent, Messages
<1>2. CASE w.open = Stats!NoChain
  BY <1>1, <1>2 DEF ChainWith, OpenChain, Stats!FirstBytes, Sent, Messages
<1>3. CASE w.open # Stats!NoChain
  <2>1. w.open \in OpenChain
    BY <1>3 DEF Walk
  <2>2. w.open.portions \in Seq(Int) /\ Append(w.open.portions, m.portion) \in Seq(Int)
    BY <1>1, <2>1 DEF OpenChain
  <2>3. Append(w.open.portions, m.portion) # <<>>
    BY <1>1, <2>2
  <2>4. ChainWith(w, m) = [slot |-> w.open.slot, portions |-> Append(w.open.portions, m.portion),
                           declared |-> w.open.declared, length |-> w.open.length]
    BY <1>3, <2>1 DEF ChainWith, OpenChain
  <2> QED BY <2>1, <2>2, <2>3, <2>4 DEF OpenChain
<1> QED BY <1>2, <1>3

LEMMA Certificate1Is ==
    ASSUME NEW w \in Walk, NEW m \in Sent
    PROVE  /\ m.name # "CERTIFICATE" => Stats!Certificate1(w, m) = w
           /\ m.name = "CERTIFICATE" /\ m.size < 8 + m.portion => Stats!Certificate1(w, m) = w
           /\ m.name = "CERTIFICATE" /\ m.size >= 8 + m.portion =>
                Stats!Certificate1(w, m) =
                  IF m.remainder = 0
                  THEN [chains |-> Append(w.chains, Stats!SettleChain(ChainWith(w, m))),
                        open |-> Stats!NoChain]
                  ELSE [chains |-> w.chains, open |-> ChainWith(w, m)]
<1>1. m.size \in Int /\ m.portion \in Int
  BY DEF Sent, Messages
<1>2. w = [chains |-> w.chains, open |-> w.open]
  BY DEF Walk
<1>3. m.name # "CERTIFICATE" \/ m.size < 8 + m.portion => Stats!Certificate1(w, m) = w
  BY DEF Stats!Certificate1, Stats!CertHeader
<1>4. ASSUME m.name = "CERTIFICATE", m.size >= 8 + m.portion
      PROVE  Stats!Certificate1(w, m) =
               IF m.remainder = 0
               THEN [chains |-> Append(w.chains, Stats!SettleChain(ChainWith(w, m))),
                     open |-> Stats!NoChain]
               ELSE [w EXCEPT !.open = ChainWith(w, m)]
  <2>1. ~(m.size < 8 + m.portion)
    BY <1>1, <1>4
  <2> QED BY <1>4, <2>1, Zenon DEF Stats!Certificate1, Stats!CertHeader, ChainWith
<1>5. [w EXCEPT !.open = ChainWith(w, m)] = [chains |-> w.chains, open |-> ChainWith(w, m)]
  BY <1>2
<1> QED BY <1>3, <1>4, <1>5

LEMMA Certificate1Type ==
    ASSUME NEW w \in Walk, NEW m \in Sent
    PROVE  Stats!Certificate1(w, m) \in Walk
<1>1. CASE m.name # "CERTIFICATE" \/ m.size < 8 + m.portion
  BY <1>1, Certificate1Is
<1>2. CASE m.name = "CERTIFICATE" /\ ~(m.size < 8 + m.portion)
  <2>1. m.size >= 8 + m.portion
    BY <1>2 DEF Sent, Messages
  <2>2. ChainWith(w, m) \in OpenChain /\ Stats!SettleChain(ChainWith(w, m)) \in SettledChain
    BY <1>2, ChainWithType, SettledType
  <2>3. w.chains \in Seq(SettledChain)
    BY DEF Walk
  <2>4. Append(w.chains, Stats!SettleChain(ChainWith(w, m))) \in Seq(SettledChain)
    BY <2>2, <2>3
  <2> DEFINE o == ChainWith(w, m)
             cs == Append(w.chains, Stats!SettleChain(o))
  <2>5. Stats!Certificate1(w, m) = IF m.remainder = 0 THEN [chains |-> cs, open |-> Stats!NoChain]
                                   ELSE [chains |-> w.chains, open |-> o]
    BY <1>2, <2>1, Certificate1Is
  <2>6. cs \in Seq(SettledChain) /\ o \in OpenChain
    BY <2>2, <2>4
  <2> HIDE DEF o, cs
  <2> QED BY <2>3, <2>5, <2>6 DEF Walk
<1> QED BY <1>1, <1>2

\* The messages, one after the other.
WalkStep == [y \in Walk \X Sent |-> Stats!Certificate1(y[1], y[2])]

LEMMA WalkStepType == EmptyWalk \in Walk /\ WalkStep \in [Walk \X Sent -> Walk]
BY Certificate1Type DEF WalkStep, EmptyWalk, Walk

LEMMA WalkFolds ==
    ASSUME NEW s \in Seq(Sent)
    PROVE  \E f \in [0 .. Len(s) -> Walk] :
             FoldsTo(f, EmptyWalk, s, WalkStep) /\ Stats!Walked(s) = f[Len(s)]
<1> DEFINE n == Len(s)
           Begun(g) == g = [k \in 0 .. n |-> IF k = 0 THEN EmptyWalk
                                             ELSE Stats!Certificate1(g[k - 1], s[k])]
           c == CHOOSE g : Begun(g)
<1>1. n \in Nat /\ \A k \in 1 .. n : s[k] \in Sent
  OBVIOUS
<1>2. PICK f \in [0 .. n -> Walk] : FoldsTo(f, EmptyWalk, s, WalkStep)
  BY WalkStepType, FoldExists
<1>3. f[0] = EmptyWalk /\ Folded(f, s, WalkStep, n)
  BY <1>1, <1>2, FoldShape
<1>4. \A k \in 1 .. n : f[k] = Stats!Certificate1(f[k - 1], s[k])
  <2> SUFFICES ASSUME NEW k \in 1 .. n PROVE f[k] = Stats!Certificate1(f[k - 1], s[k])
    OBVIOUS
  <2>1. f[k - 1] \in Walk /\ s[k] \in Sent
    <3>1. k - 1 \in 0 .. n
      BY <1>1
    <3> QED BY <1>1, <3>1
  <2>2. WalkStep[<<f[k - 1], s[k]>>] = Stats!Certificate1(f[k - 1], s[k])
    BY <2>1 DEF WalkStep
  <2> QED BY <1>3, <2>2 DEF Folded
<1>5. Begun(f)
  <2>1. \A k \in 0 .. n : f[k] = IF k = 0 THEN EmptyWalk ELSE Stats!Certificate1(f[k - 1], s[k])
    <3> SUFFICES ASSUME NEW k \in 0 .. n
                 PROVE  f[k] = IF k = 0 THEN EmptyWalk ELSE Stats!Certificate1(f[k - 1], s[k])
      OBVIOUS
    <3>1. CASE k = 0
      BY <1>3, <3>1
    <3>2. CASE k # 0
      <4>1. k \in 1 .. n
        BY <1>1, <3>2
      <4> QED BY <1>4, <3>2, <4>1
    <3> QED BY <3>1, <3>2
  <2> HIDE DEF n
  <2> QED BY <2>1
<1>6. Begun(c)
  BY <1>5
<1>7. Stats!Walked(s) = c[n]
  BY DEF Stats!Walked, EmptyWalk
<1>8. c[n] = f[n]
  <2> DEFINE T == {i \in Nat : i <= n => c[i] = f[i]}
  <2>1. 0 \in T
    <3>1. 0 \in 0 .. n
      BY <1>1
    <3>2. c[0] = EmptyWalk
      BY <1>6, <3>1, Zenon
    <3> QED BY <1>3, <3>2
  <2>2. ASSUME NEW i \in Nat, i \in T PROVE i + 1 \in T
    <3>1. SUFFICES ASSUME i + 1 <= n PROVE c[i + 1] = f[i + 1]
      OBVIOUS
    <3>2. c[i] = f[i] /\ i + 1 \in 1 .. n /\ i + 1 \in 0 .. n /\ i + 1 # 0 /\ (i + 1) - 1 = i
      BY <1>1, <2>2, <3>1
    <3>3. c[i + 1] = Stats!Certificate1(c[(i + 1) - 1], s[i + 1])
      BY <1>6, <3>2, Zenon
    <3>4. f[i + 1] = Stats!Certificate1(f[(i + 1) - 1], s[i + 1])
      BY <1>4, <3>2, Zenon
    <3> QED BY <3>2, <3>3, <3>4
  <2> HIDE DEF T, n, c
  <2>3. Nat \subseteq T
    BY <2>1, <2>2, Induct
  <2> QED BY <1>1, <2>3 DEF T
<1> QED BY <1>2, <1>7, <1>8

\* It stays in its set, and another element is another step.
LEMMA WalkAppends ==
    ASSUME NEW s \in Seq(Sent), NEW x \in Sent
    PROVE  /\ Stats!Walked(s) \in Walk
           /\ Stats!Walked(Append(s, x)) = Stats!Certificate1(Stats!Walked(s), x)
<1> DEFINE n == Len(s)
<1>1. n \in Nat /\ Len(Append(s, x)) = n + 1 /\ Append(s, x) \in Seq(Sent)
  OBVIOUS
<1>2. PICK f \in [0 .. n -> Walk] :
        FoldsTo(f, EmptyWalk, s, WalkStep) /\ Stats!Walked(s) = f[n]
  BY WalkFolds
<1>3. PICK g : /\ FoldsTo(g, EmptyWalk, Append(s, x), WalkStep)
               /\ Stats!Walked(Append(s, x)) = g[n + 1]
  BY <1>1, WalkFolds
<1>4. g[n + 1] = WalkStep[<<f[n], x>>]
  <2> DEFINE t == Append(s, x)
  <2>1. Longer(t, s, n, x)
    BY <1>1 DEF Longer
  <2>2. FoldsTo(g, EmptyWalk, t, WalkStep)
    BY <1>3
  <2>3. FoldsTo(f, EmptyWalk, s, WalkStep)
    BY <1>2
  <2> HIDE DEF t, n
  <2> QED BY <1>1, <2>1, <2>2, <2>3, FoldAppend
<1>5. f[n] \in Walk
  <2>1. n \in 0 .. n
    BY <1>1
  <2> QED BY <2>1
<1> QED BY <1>2, <1>3, <1>4, <1>5 DEF WalkStep

\* The chains that close.
Chains == Seq(GoodChain)
NoChains == <<>>
ClosingStep == [y \in Chains \X SettledChain |-> IF y[2].closes THEN Append(y[1], y[2]) ELSE y[1]]

LEMMA ClosingStepType == NoChains \in Chains /\ ClosingStep \in [Chains \X SettledChain -> Chains]
BY DEF ClosingStep, Chains, NoChains, GoodChain

LEMMA ClosingFolds ==
    ASSUME NEW s \in Seq(SettledChain)
    PROVE  \E f \in [0 .. Len(s) -> Chains] :
             FoldsTo(f, NoChains, s, ClosingStep) /\ Stats!ClosingOf(s) = f[Len(s)]
<1> DEFINE n == Len(s)
           Begun(g) == g = [k \in 0 .. n |-> IF k = 0 THEN NoChains
                                             ELSE IF s[k].closes THEN Append(g[k - 1], s[k])
                                             ELSE g[k - 1]]
           c == CHOOSE g : Begun(g)
<1>1. n \in Nat /\ \A k \in 1 .. n : s[k] \in SettledChain
  OBVIOUS
<1>2. PICK f \in [0 .. n -> Chains] : FoldsTo(f, NoChains, s, ClosingStep)
  BY ClosingStepType, FoldExists
<1>3. f[0] = NoChains /\ Folded(f, s, ClosingStep, n)
  BY <1>1, <1>2, FoldShape
<1>4. \A k \in 1 .. n : f[k] = IF s[k].closes THEN Append(f[k - 1], s[k]) ELSE f[k - 1]
  <2> SUFFICES ASSUME NEW k \in 1 .. n
               PROVE  f[k] = IF s[k].closes THEN Append(f[k - 1], s[k]) ELSE f[k - 1]
    OBVIOUS
  <2>1. f[k - 1] \in Chains /\ s[k] \in SettledChain
    <3>1. k - 1 \in 0 .. n
      BY <1>1
    <3> QED BY <1>1, <3>1
  <2>2. ClosingStep[<<f[k - 1], s[k]>>] = IF s[k].closes THEN Append(f[k - 1], s[k]) ELSE f[k - 1]
    BY <2>1 DEF ClosingStep
  <2> QED BY <1>3, <2>2 DEF Folded
<1>5. Begun(f)
  <2>1. \A k \in 0 .. n : f[k] = IF k = 0 THEN NoChains
                                 ELSE IF s[k].closes THEN Append(f[k - 1], s[k]) ELSE f[k - 1]
    <3> SUFFICES ASSUME NEW k \in 0 .. n
                 PROVE  f[k] = IF k = 0 THEN NoChains
                               ELSE IF s[k].closes THEN Append(f[k - 1], s[k]) ELSE f[k - 1]
      OBVIOUS
    <3>1. CASE k = 0
      BY <1>3, <3>1
    <3>2. CASE k # 0
      <4>1. k \in 1 .. n
        BY <1>1, <3>2
      <4> QED BY <1>4, <3>2, <4>1
    <3> QED BY <3>1, <3>2
  <2> HIDE DEF n
  <2> QED BY <2>1
<1>6. Begun(c)
  BY <1>5
<1>7. Stats!ClosingOf(s) = c[n]
  BY DEF Stats!ClosingOf, NoChains
<1>8. c[n] = f[n]
  <2> DEFINE T == {i \in Nat : i <= n => c[i] = f[i]}
  <2>1. 0 \in T
    <3>1. 0 \in 0 .. n
      BY <1>1
    <3>2. c[0] = NoChains
      BY <1>6, <3>1, Zenon
    <3> QED BY <1>3, <3>2
  <2>2. ASSUME NEW i \in Nat, i \in T PROVE i + 1 \in T
    <3>1. SUFFICES ASSUME i + 1 <= n PROVE c[i + 1] = f[i + 1]
      OBVIOUS
    <3>2. c[i] = f[i] /\ i + 1 \in 1 .. n /\ i + 1 \in 0 .. n /\ i + 1 # 0 /\ (i + 1) - 1 = i
      BY <1>1, <2>2, <3>1
    <3>3. c[i + 1] = IF s[i + 1].closes THEN Append(c[(i + 1) - 1], s[i + 1]) ELSE c[(i + 1) - 1]
      BY <1>6, <3>2, Zenon
    <3>4. f[i + 1] = IF s[i + 1].closes THEN Append(f[(i + 1) - 1], s[i + 1]) ELSE f[(i + 1) - 1]
      BY <1>4, <3>2, Zenon
    <3> QED BY <3>2, <3>3, <3>4
  <2> HIDE DEF T, n, c
  <2>3. Nat \subseteq T
    BY <2>1, <2>2, Induct
  <2> QED BY <1>1, <2>3 DEF T
<1> QED BY <1>2, <1>7, <1>8

\* It stays in its set, and another element is another step.
LEMMA ClosingAppends ==
    ASSUME NEW s \in Seq(SettledChain), NEW x \in SettledChain
    PROVE  /\ Stats!ClosingOf(s) \in Chains
           /\ Stats!ClosingOf(Append(s, x)) = IF x.closes THEN Append(Stats!ClosingOf(s), x)
                                              ELSE Stats!ClosingOf(s)
<1> DEFINE n == Len(s)
<1>1. n \in Nat /\ Len(Append(s, x)) = n + 1 /\ Append(s, x) \in Seq(SettledChain)
  OBVIOUS
<1>2. PICK f \in [0 .. n -> Chains] :
        FoldsTo(f, NoChains, s, ClosingStep) /\ Stats!ClosingOf(s) = f[n]
  BY ClosingFolds
<1>3. PICK g : /\ FoldsTo(g, NoChains, Append(s, x), ClosingStep)
               /\ Stats!ClosingOf(Append(s, x)) = g[n + 1]
  BY <1>1, ClosingFolds
<1>4. g[n + 1] = ClosingStep[<<f[n], x>>]
  <2> DEFINE t == Append(s, x)
  <2>1. Longer(t, s, n, x)
    BY <1>1 DEF Longer
  <2>2. FoldsTo(g, NoChains, t, ClosingStep)
    BY <1>3
  <2>3. FoldsTo(f, NoChains, s, ClosingStep)
    BY <1>2
  <2> HIDE DEF t, n
  <2> QED BY <1>1, <2>1, <2>2, <2>3, FoldAppend
<1>5. f[n] \in Chains
  <2>1. n \in 0 .. n
    BY <1>1
  <2> QED BY <2>1
<1> QED BY <1>2, <1>3, <1>4, <1>5 DEF ClosingStep

-----------------------------------------------------------------------------
(* The inductive invariant.                                                *)

D == Stats!Dechunked(packets)
C == Stats!Walked(D.logical)
Closed == Stats!ClosingOf(C.chains)

Typed ==
    /\ packets \in Seq(Packet) /\ packets # <<>>
    /\ fetch \in [slot : Slots \cup {None}, at : Nat]
    /\ asked \in Sent \cup {None}
    /\ chunks \in Chunking \cup {None}
    /\ handle \in 0 .. Handles - 1
    /\ done \in Seq(Slots)
    /\ exchanges \in Nat /\ lost \in Nat /\ restarts \in Nat

\* The response that is owed continues the fetch, and its chunks continue it.
Owed ==
    /\ fetch.slot = None => fetch.at = 0
    /\ fetch.slot # None => fetch.at < ChainBytes[fetch.slot]
    /\ asked # None =>
         /\ asked.name \in {"CERTIFICATE", "CHALLENGE_AUTH"}
         /\ asked.name = "CERTIFICATE" =>
              /\ fetch.slot # None /\ asked.slot = fetch.slot /\ asked.offset = fetch.at
              /\ asked.portion > 0 /\ asked.remainder >= 0
              /\ fetch.at + asked.portion + asked.remainder = ChainBytes[fetch.slot]
              /\ asked.size = 8 + asked.portion
    /\ chunks # None =>
         /\ asked # None /\ asked.size > Dts
         /\ handle = (chunks.handle + 1) % Handles
         /\ chunks.at < asked.size
         /\ chunks.at = IF chunks.seq = 0 THEN 0
                        ELSE (Dts - 16) + (chunks.seq - 1) * (Dts - 12)

\* Pieces of one message, each from where the one before ended.
Straight(pieces) ==
    \A k \in DOMAIN pieces :
      /\ pieces[k].of = pieces[1].of
      /\ pieces[k].from = Stats!Bytes(SubSeq(pieces, 1, k - 1))
Whole(r) == r.bytes = r.pieces[1].of.size /\ Straight(r.pieces)

\* A capture from which no two responses can be mistaken for one.
Trusted == lost = 0 \/ (restarts = 0 /\ lost < Handles)

FoundWhole == Trusted => \A i \in DOMAIN D.sequences :
                           D.sequences[i].complete => Whole(D.sequences[i])
OpenWhole == Trusted /\ D.open # Stats!NoSequence =>
                 Straight(D.open.pieces) /\ D.open.declared = D.open.pieces[1].of.size

\* The open sequence is of the response being fetched, and lacks none of its
\* chunks so far when its next number is theirs.
Current == /\ D.open.handle = chunks.handle /\ D.open.pieces[1].of = asked
           /\ D.open.next <= chunks.seq
           /\ D.open.next = chunks.seq => Stats!Bytes(D.open.pieces) = chunks.at
InStep == lost = 0 /\ chunks # None /\ chunks.seq # 0 =>
              D.open # Stats!NoSequence /\ Current /\ D.open.next = chunks.seq

\* Since the open sequence began, j others have; the capture missed the first
\* chunk of each that is past it.
Since(j) == /\ handle = (D.open.handle + 1 + j) % Handles
            /\ j = 0 /\ chunks # None => Current
            /\ j <= lost + (IF chunks # None /\ chunks.seq = 0 THEN 1 ELSE 0)
Apart == restarts = 0 /\ D.open # Stats!NoSequence => \E j \in 0 .. lost + 1 : Since(j)

\* With nothing missing, the chains are those fetched, and the open one is the
\* fetch under way.
Agrees ==
    /\ Len(Closed) = Len(done) /\ \A i \in DOMAIN done : Closed[i].slot = done[i]
    /\ IF fetch.at = 0 THEN C.open = Stats!NoChain
       ELSE /\ C.open # Stats!NoChain /\ C.open.slot = fetch.slot
            /\ Stats!Total(C.open.portions) = fetch.at
            /\ C.open.declared = ChainBytes[fetch.slot]
            /\ C.open.length = ChainBytes[fetch.slot]
Fetched == lost = 0 /\ restarts = 0 => Agrees

\* And the round trips are those of the messages put together and of the one
\* being fetched.
Unchunked(s) == Stats!SumWhere(s,
                               LAMBDA p : Stats!Parsed(p) /\ p.msg.name \notin Stats!ChunkTypes,
                               LAMBDA p : Stats!ChunkRoundtrips(p.msg.size, Dts))
Gets(s) == Stats!Count(s, "CHUNK_GET")
Predicted(s) == Stats!SumWhere(s, LAMBDA r : r.complete,
                               LAMBDA r : Stats!ChunkRoundtrips(r.bytes, Dts))
Tallies ==
    /\ Unchunked(packets) = 0
    /\ Gets(packets) = Predicted(D.sequences)
                       + (IF chunks = None THEN 0
                          ELSE chunks.seq + (IF chunks.got THEN 1 ELSE 0))
Counted == lost = 0 /\ restarts = 0 => Tallies
\* The capture begins with what the responder declared.
Declares == /\ packets[1].msg.name = "CAPABILITIES" /\ packets[1].msg.size = 20
            /\ packets[1].msg.dts = Dts

IInv == /\ Typed /\ Owed /\ Declares
        /\ FoundWhole /\ OpenWhole /\ InStep /\ Apart
        /\ Fetched /\ Counted

-----------------------------------------------------------------------------
(* What a step does to the capture and to its reassembly.                  *)

USE DEF Handles

LEMMA CutIs ==
    ASSUME NEW p \in Packet
    PROVE  /\ Cut(p) \in Packet
           /\ Cut(p).msg.name = p.msg.name /\ Cut(p).msg.size = p.msg.size - 1
           /\ Cut(p).chunk.n = IF p.chunk.n > 0 THEN p.chunk.n - 1 ELSE 0
           /\ Cut(p).chunk.says = p.chunk.says
<1> DEFINE m == [p.msg EXCEPT !.size = p.msg.size - 1]
           x == IF p.chunk.n > 0 THEN p.chunk.n - 1 ELSE 0
           c == [p.chunk EXCEPT !.n = x]
<1>1. p.msg \in Sent /\ p.msg.size \in Int /\ p.form = "spdm"
  BY DEF Packet, Sent, Messages
<1>2. m \in Sent /\ m.name = p.msg.name /\ m.size = p.msg.size - 1
  BY <1>1 DEF Sent, Messages
<1>3. p.chunk \in ChunkOf(Sent \cup {None}) /\ p.chunk.n \in Int
  BY DEF Packet, ChunkOf
<1>4. x \in Int
  BY <1>3
<1> HIDE DEF x
<1>5. c \in ChunkOf(Sent \cup {None}) /\ c.n = x /\ c.says = p.chunk.says
  BY <1>3, <1>4 DEF ChunkOf
<1>6. p.msg.name = "CHUNK_RESPONSE" => c \in Piece
  <2> SUFFICES ASSUME p.msg.name = "CHUNK_RESPONSE" PROVE c \in Piece
    OBVIOUS
  <2>1. p.chunk \in Piece
    BY DEF Packet
  <2> QED BY <2>1, <1>4 DEF Piece, ChunkOf
<1>7. Cut(p) = [form |-> p.form, msg |-> m, chunk |-> c]
  BY DEF Cut, x
<1> HIDE DEF m, c
<1>8. Cut(p) \in Packet
  BY <1>1, <1>2, <1>5, <1>6, <1>7 DEF Packet
<1> QED BY <1>2, <1>5, <1>7, <1>8 DEF x

\* The capture holds the packet, misses it, or has it short of its last byte.
LEMMA TapIs ==
    ASSUME packets \in Seq(Packet), packets # <<>>, lost \in Nat, NEW p \in Packet, Tap(p)
    PROVE  /\ packets' \in Seq(Packet) /\ packets' # <<>> /\ packets'[1] = packets[1]
           /\ D \in Reassembly /\ D' \in Reassembly
           /\ \/ packets' = Append(packets, p) /\ lost' = lost /\ D' = Stats!Dechunk1(D, p)
              \/ packets' = packets /\ lost' = lost + 1 /\ D' = D
              \/ packets' = Append(packets, Cut(p)) /\ lost' = lost + 1
                 /\ D' = Stats!Dechunk1(D, Cut(p))
<1>1. Cut(p) \in Packet
  BY CutIs
<1>2. D \in Reassembly
  BY DechunkAppends, packets[1] \in Packet DEF D
<1>3. \A x \in Packet : /\ Append(packets, x) \in Seq(Packet) /\ Append(packets, x) # <<>>
                        /\ Append(packets, x)[1] = packets[1]
                        /\ Stats!Dechunked(Append(packets, x)) = Stats!Dechunk1(D, x)
                        /\ Stats!Dechunk1(D, x) \in Reassembly
  BY <1>2, DechunkAppends, Dechunk1Type DEF D
<1>4. CASE packets' = Append(packets, p) /\ lost' = lost
  <2>1. D' = Stats!Dechunked(packets')
    BY DEF D
  <2> QED BY <1>2, <1>3, <1>4, <2>1
<1>5. CASE packets' = packets /\ lost' = lost + 1
  <2>1. D' = D
    BY <1>5 DEF D
  <2> QED BY <1>2, <1>5, <2>1
<1>6. CASE packets' = Append(packets, Cut(p)) /\ lost' = lost + 1
  <2>1. D' = Stats!Dechunked(packets')
    BY DEF D
  <2> QED BY <1>1, <1>2, <1>3, <1>6, <2>1
<1> QED BY <1>4, <1>5, <1>6 DEF Tap

\* A packet that is no chunk leaves the sequences alone.
LEMMA PlainTap ==
    ASSUME packets \in Seq(Packet), packets # <<>>, lost \in Nat, NEW p \in Packet, Tap(p),
           p.msg.name # "CHUNK_RESPONSE"
    PROVE  /\ packets' \in Seq(Packet) /\ packets' # <<>> /\ packets'[1] = packets[1]
           /\ lost' \in Nat /\ lost' >= lost
           /\ D'.open = D.open /\ D'.sequences = D.sequences
           /\ lost' = 0 => lost = 0 /\ packets' = Append(packets, p)
                           /\ D'.logical = Append(D.logical, p.msg)
<1>1. Cut(p) \in Packet /\ Cut(p).msg.name # "CHUNK_RESPONSE"
  BY CutIs
<1>2. D \in Reassembly
  BY TapIs
<1>3. \A x \in Packet : x.msg.name # "CHUNK_RESPONSE" =>
        /\ Stats!Dechunk1(D, x).logical = Append(D.logical, x.msg)
        /\ Stats!Dechunk1(D, x).sequences = D.sequences
        /\ Stats!Dechunk1(D, x).open = D.open
  BY <1>2, MessageIs
<1> QED BY <1>1, <1>3, TapIs

\* The next piece of a message keeps its pieces straight.
LEMMA StraightOne ==
    ASSUME NEW c \in Piece, c.from = 0
    PROVE  Straight(<<c>>)
<1>1. \A k \in DOMAIN <<c>> : k = 1 /\ SubSeq(<<c>>, 1, k - 1) = <<>> /\ <<c>>[k] = c
  OBVIOUS
<1>2. Stats!Bytes(<<>>) = 0
  BY BytesOne
<1> QED BY <1>1, <1>2 DEF Straight

LEMMA StraightAppend ==
    ASSUME NEW s \in Seq(Piece), s # <<>>, Straight(s), NEW c \in Piece,
           c.of = s[1].of, c.from = Stats!Bytes(s)
    PROVE  Straight(Append(s, c)) /\ Append(s, c)[1] = s[1]
<1> DEFINE t == Append(s, c)
           n == Len(s)
<1>1. n \in Nat /\ n >= 1 /\ DOMAIN t = 1 .. n + 1 /\ t[n + 1] = c /\ t[1] = s[1]
  OBVIOUS
<1>2. ASSUME NEW k \in 1 .. n + 1
      PROVE  t[k].of = t[1].of /\ t[k].from = Stats!Bytes(SubSeq(t, 1, k - 1))
  <2>1. CASE k = n + 1
    <3>1. SubSeq(t, 1, n) = s
      OBVIOUS
    <3>2. k - 1 = n /\ t[k] = c
      BY <1>1, <2>1
    <3> QED BY <1>1, <3>1, <3>2
  <2>2. CASE k # n + 1
    <3>1. k \in DOMAIN s /\ t[k] = s[k]
      BY <1>1, <2>2
    <3>2. SubSeq(t, 1, k - 1) = SubSeq(s, 1, k - 1)
      BY <1>1, <2>2
    <3> QED BY <1>1, <3>1, <3>2 DEF Straight
  <2> QED BY <2>1, <2>2
<1> HIDE DEF t
<1>3. Straight(t)
  BY <1>1, <1>2 DEF Straight
<1> QED BY <1>1, <1>3 DEF t

\* A number of 256 or a multiple brings a handle round.
LEMMA HandlesCome ==
    ASSUME NEW h \in 0 .. 255, NEW j \in Nat, (h + 1) % 256 = (h + 1 + j) % 256, j < 256
    PROVE  j = 0
OBVIOUS

LEMMA HandlesGo ==
    ASSUME NEW h \in 0 .. 255, NEW j \in Nat
    PROVE  (((h + 1 + j) % 256) + 1) % 256 = (h + 1 + (j + 1)) % 256
OBVIOUS

LEMMA MessageType ==
    ASSUME exchanges \in Nat, NEW name \in Names, name # "CERTIFICATE", NEW size \in Int
    PROVE  Message(name, size) \in Sent
<1>1. 0 \in Int /\ 0 \in Slots \cup {0} /\ exchanges \in Int
  OBVIOUS
<1>2. Message(name, size) \in Messages
  BY <1>1 DEF Message, Messages
<1>3. Message(name, size).name = name
  BY DEF Message
<1> QED BY <1>2, <1>3 DEF Sent

\* The chunk a ChunkResponse sends.
Header == IF chunks.seq = 0 THEN 16 ELSE 12
Sends(p) ==
    LET c == p.chunk IN
    /\ chunks # None /\ asked # None
    /\ Tap(p) /\ p.msg.name = "CHUNK_RESPONSE" /\ p.msg.size = Header + c.n
    /\ c.handle = chunks.handle /\ c.seq = chunks.seq /\ c.of = asked
    /\ c.declared = asked.size /\ c.from = chunks.at /\ c.says = c.n /\ c.n >= 1
    /\ c.last <=> c.n = asked.size - chunks.at
    /\ chunks.seq = 0 => ~c.last
    /\ c.last => Delivered /\ asked' = None /\ chunks' = None
    /\ ~c.last => /\ c.n = Dts - Header /\ c.n < asked.size - chunks.at
                  /\ chunks' = [handle |-> chunks.handle, seq |-> chunks.seq + 1,
                                at |-> chunks.at + c.n, got |-> FALSE]
                  /\ UNCHANGED <<asked, fetch, done>>

LEMMA ChunkSent ==
    ASSUME Typed, Owed, ChunkResponse
    PROVE  \E p \in Packet : Sends(p)
<1> DEFINE rest == asked.size - chunks.at
           n == IF rest < Dts - Header THEN rest ELSE Dts - Header
           chunk == [handle |-> chunks.handle, seq |-> chunks.seq, last |-> n = rest,
                     declared |-> asked.size, says |-> n, from |-> chunks.at, n |-> n,
                     of |-> asked]
           p == [Plain(Message("CHUNK_RESPONSE", Header + n)) EXCEPT !.chunk = chunk]
<1>1. /\ chunks # None /\ asked # None /\ asked.size > Dts /\ chunks.at < asked.size
      /\ chunks.seq = 0 => chunks.at = 0
  BY DEF ChunkResponse, Owed
<1>2. /\ chunks \in Chunking /\ asked \in Sent /\ asked.size \in Int
      /\ exchanges \in Nat /\ Header \in {12, 16} /\ Dts \in Nat /\ Dts >= 42
  BY <1>1, ConversationAssumption DEF Typed, Sent, Messages, Header
<1>3. chunks.handle \in 0 .. 255 /\ chunks.seq \in Nat /\ chunks.at \in Nat
  BY <1>2 DEF Chunking
<1>4. rest \in Int /\ n \in Int /\ n >= 1 /\ n <= rest /\ (n # rest => n = Dts - Header)
  BY <1>1, <1>2, <1>3
<1>5. chunks.seq = 0 => n # rest
  BY <1>1, <1>2, <1>3 DEF Header
<1>6. chunk \in Piece
  <2>1. (n = rest) \in BOOLEAN
    OBVIOUS
  <2> HIDE DEF n, rest
  <2> QED BY <1>2, <1>3, <1>4, <2>1 DEF Piece, ChunkOf
<1>7. /\ p.form = "spdm" /\ p.msg = Message("CHUNK_RESPONSE", Header + n) /\ p.chunk = chunk
      /\ p = [form |-> "spdm", msg |-> Message("CHUNK_RESPONSE", Header + n), chunk |-> chunk]
  BY DEF Plain
<1>8. Message("CHUNK_RESPONSE", Header + n) \in Sent
  <2>1. Header + n \in Int
    BY <1>2, <1>4
  <2> DEFINE size == Header + n
             name == "CHUNK_RESPONSE"
  <2> HIDE DEF n
  <2>2. size \in Int /\ exchanges \in Nat
    BY <1>2, <2>1
  <2>3. name \in Names /\ name # "CERTIFICATE"
    BY DEF Names
  <2> HIDE DEF size, name
  <2>4. Message(name, size) \in Sent
    BY <2>2, <2>3, MessageType
  <2> QED BY <2>4 DEF size, name
<1>9. p \in Packet
  <2> HIDE DEF chunk, n
  <2> QED BY <1>6, <1>7, <1>8 DEF Packet, Piece, ChunkOf
<1>10. /\ Tap(p)
       /\ IF n = rest THEN Delivered /\ asked' = None /\ chunks' = None
          ELSE /\ chunks' = [handle |-> chunks.handle, seq |-> chunks.seq + 1,
                             at |-> chunks.at + n, got |-> FALSE]
               /\ UNCHANGED <<asked, fetch, done>>
  BY Zenon DEF ChunkResponse, Header
<1>11. p.msg.name = "CHUNK_RESPONSE" /\ p.msg.size = Header + n
  BY <1>7 DEF Message
<1> HIDE DEF p
<1>12. /\ p.chunk.handle = chunks.handle /\ p.chunk.seq = chunks.seq /\ p.chunk.of = asked
       /\ p.chunk.declared = asked.size /\ p.chunk.from = chunks.at
       /\ p.chunk.says = n /\ p.chunk.n = n /\ (p.chunk.last <=> n = rest)
  BY <1>7
<1> HIDE DEF chunk, n
<1>13. Sends(p)
  BY <1>1, <1>4, <1>5, <1>10, <1>11, <1>12 DEF Sends
<1> QED BY <1>9, <1>13

-----------------------------------------------------------------------------
(* A chunk response, and what is made of it.                               *)

LEMMA ChunkTypes ==
    ASSUME Typed, NEW p \in Packet, Sends(p)
    PROVE  /\ p.chunk \in Piece /\ chunks.seq \in Nat /\ chunks.at \in Nat
           /\ chunks.handle \in 0 .. 255 /\ asked \in Sent /\ asked.size \in Int
           /\ handle \in 0 .. 255 /\ lost \in Nat /\ restarts \in Nat
           /\ p.chunk.n \in Int /\ chunks \in Chunking
<1>1. chunks \in Chunking /\ asked \in Sent /\ p.chunk \in Piece
  BY DEF Typed, Sends, Packet
<1>2. chunks.seq \in Nat /\ chunks.at \in Nat /\ chunks.handle \in 0 .. 255
  BY <1>1 DEF Chunking
<1>3. asked.size \in Int
  BY <1>1 DEF Sent, Messages
<1>4. p.chunk.n \in Int
  BY <1>1 DEF Piece, ChunkOf
<1>5. handle \in 0 .. 255 /\ lost \in Nat /\ restarts \in Nat
  BY DEF Typed
<1> QED BY <1>1, <1>2, <1>3, <1>4, <1>5

\* A sequence more, when it is whole or not complete.
LEMMA FoundGrows ==
    ASSUME D \in Reassembly, FoundWhole, Trusted' => Trusted,
           \/ D'.sequences = D.sequences
           \/ \E r \in ClosedSequence : /\ Trusted' /\ r.complete => Whole(r)
                                       /\ D'.sequences = Append(D.sequences, r)
    PROVE  FoundWhole'
<1>1. CASE D'.sequences = D.sequences
  BY <1>1 DEF FoundWhole
<1>2. ASSUME NEW r \in ClosedSequence, Trusted' /\ r.complete => Whole(r),
             D'.sequences = Append(D.sequences, r)
      PROVE  FoundWhole'
  <2> SUFFICES ASSUME Trusted', NEW i \in DOMAIN D'.sequences, D'.sequences[i].complete
               PROVE  Whole(D'.sequences[i])
    BY DEF FoundWhole, Whole, Straight
  <2>1. D.sequences \in Seq(ClosedSequence)
    BY DEF Reassembly
  <2>2. i \in 1 .. Len(D.sequences) + 1
    BY <1>2, <2>1
  <2>3. CASE i = Len(D.sequences) + 1
    BY <1>2, <2>1, <2>3
  <2>4. CASE i # Len(D.sequences) + 1
    <3>1. i \in DOMAIN D.sequences /\ D'.sequences[i] = D.sequences[i]
      BY <1>2, <2>1, <2>2, <2>4
    <3> QED BY <3>1 DEF FoundWhole
  <2> QED BY <2>3, <2>4
<1> QED BY <1>1, <1>2

\* The capture misses it: it is no longer in step with the response.
LEMMA ChunkMissed ==
    ASSUME Typed, FoundWhole, OpenWhole, Apart, NEW p \in Packet, Sends(p),
           UNCHANGED <<handle, restarts>>, D' = D, lost' = lost + 1
    PROVE  FoundWhole' /\ OpenWhole' /\ InStep' /\ Apart'
<1>1. lost \in Nat /\ restarts \in Nat /\ chunks.seq \in Nat
  BY ChunkTypes
<1>2. Trusted' => Trusted
  BY <1>1 DEF Trusted
<1>3. FoundWhole' /\ OpenWhole'
  BY <1>2 DEF FoundWhole, OpenWhole
<1>4. InStep'
  BY <1>1 DEF InStep
<1>5. Apart'
  <2> SUFFICES ASSUME restarts' = 0, D'.open # Stats!NoSequence
               PROVE  \E j \in 0 .. lost' + 1 : Since(j)'
    BY DEF Apart
  <2>1. PICK j \in 0 .. lost + 1 : Since(j)
    BY DEF Apart
  <2>2. j \in 0 .. lost' + 1
    BY <1>1
  <2>3. j <= lost'
    BY <1>1, <2>1 DEF Since
  <2>4. handle' = (D'.open.handle + 1 + j) % Handles
    BY <2>1 DEF Since
  <2>5. j = 0 /\ chunks' # None => Current'
    <3> SUFFICES ASSUME j = 0, chunks' # None PROVE Current'
      OBVIOUS
    <3>1. ~p.chunk.last
      BY DEF Sends
    <3>2. /\ chunks' = [handle |-> chunks.handle, seq |-> chunks.seq + 1,
                        at |-> chunks.at + p.chunk.n, got |-> FALSE]
          /\ asked' = asked
      BY <3>1 DEF Sends
    <3>3. D.open.handle = chunks.handle /\ D.open.pieces[1].of = asked
          /\ D.open.next <= chunks.seq
      BY <2>1 DEF Since, Current, Sends
    <3>4. D.open.next \in Nat
      <4>1. D \in Reassembly
        BY TapIs DEF Sends, Typed
      <4> QED BY <4>1 DEF Reassembly, OpenSequence
    <3>5. chunks'.handle = chunks.handle /\ chunks'.seq = chunks.seq + 1
      BY <3>2
    <3>6. D.open.next <= chunks.seq + 1 /\ D.open.next # chunks.seq + 1
      BY <1>1, <3>3, <3>4
    <3> QED BY <3>2, <3>3, <3>5, <3>6 DEF Current
  <2>6. j <= lost' + (IF chunks' # None /\ chunks'.seq = 0 THEN 1 ELSE 0)
    BY <1>1, <2>2, <2>3
  <2>7. Since(j)'
    BY <2>4, <2>5, <2>6 DEF Since
  <2> QED BY <2>2, <2>7
<1> QED BY <1>3, <1>4, <1>5

\* The capture has it short of a byte: the open sequence is given up.
LEMMA ChunkCut ==
    ASSUME Typed, FoundWhole, NEW p \in Packet, Sends(p),
           UNCHANGED restarts, D' = Stats!Dechunk1(D, Cut(p)), lost' = lost + 1
    PROVE  FoundWhole' /\ OpenWhole' /\ InStep' /\ Apart'
<1>1. lost \in Nat /\ restarts \in Nat /\ p.chunk.n \in Int
  BY ChunkTypes
<1>2. D \in Reassembly
  BY TapIs DEF Sends, Typed
<1>3. /\ Cut(p) \in Packet /\ Cut(p).msg.name = "CHUNK_RESPONSE"
      /\ Cut(p).msg.size = p.msg.size - 1
      /\ Cut(p).chunk.n = IF p.chunk.n > 0 THEN p.chunk.n - 1 ELSE 0
      /\ Cut(p).chunk.says = p.chunk.says
  BY CutIs DEF Sends
<1>4. p.chunk.n >= 1 /\ p.chunk.says = p.chunk.n /\ p.msg.size = Header + p.chunk.n
  BY DEF Sends
<1>5. Cut(p).msg.size >= 12 /\ Cut(p).chunk.n # Cut(p).chunk.says
  BY <1>1, <1>3, <1>4 DEF Header
<1>6. D' = Stats!CloseOpen(Stats!Note(D))
  BY <1>2, <1>3, <1>5, ChunkIs
<1>7. Stats!Note(D) \in Reassembly /\ Stats!Note(D).sequences = D.sequences
  BY <1>2, NoteIs
<1>8. D'.open = Stats!NoSequence
      /\ (\/ D'.sequences = D.sequences
          \/ \E r \in ClosedSequence : ~r.complete /\ D'.sequences = Append(D.sequences, r))
  BY <1>6, <1>7, CloseOpenIs
<1>9. Trusted' => Trusted
  BY <1>1 DEF Trusted
<1>10. FoundWhole'
  BY <1>2, <1>8, <1>9, FoundGrows
<1> QED BY <1>1, <1>8, <1>10 DEF OpenWhole, InStep, Apart

\* The capture has the first chunk: it begins a sequence.
LEMMA ChunkFirst ==
    ASSUME Typed, FoundWhole, NEW p \in Packet, Sends(p), chunks.seq = 0, chunks.at = 0,
           handle = (chunks.handle + 1) % Handles,
           UNCHANGED <<handle, restarts>>, D' = Stats!Dechunk1(D, p), lost' = lost
    PROVE  /\ FoundWhole' /\ OpenWhole' /\ InStep' /\ Apart'
           /\ ~p.chunk.last /\ D'.logical = D.logical
           /\ \/ D'.sequences = D.sequences
              \/ \E r \in ClosedSequence : ~r.complete /\ D'.sequences = Append(D.sequences, r)
<1> DEFINE c == p.chunk
<1>1. /\ lost \in Nat /\ restarts \in Nat /\ c \in Piece /\ c.n \in Int
      /\ chunks.handle \in 0 .. 255
  BY ChunkTypes
<1>2. D \in Reassembly
  BY TapIs DEF Sends, Typed
<1>3. /\ ~c.last /\ c.n = c.says /\ c.n >= 1 /\ p.msg.name = "CHUNK_RESPONSE"
      /\ p.msg.size = 16 + c.n /\ c.handle = chunks.handle /\ c.seq = 0 /\ c.from = 0
      /\ c.of = asked /\ c.declared = asked.size /\ asked' = asked
      /\ chunks' = [handle |-> chunks.handle, seq |-> 1, at |-> c.n, got |-> FALSE]
  <2>1. ~c.last
    BY DEF Sends
  <2>2. chunks' = [handle |-> chunks.handle, seq |-> chunks.seq + 1,
                   at |-> chunks.at + c.n, got |-> FALSE]
    BY <2>1 DEF Sends
  <2>3. chunks.seq + 1 = 1 /\ chunks.at + c.n = c.n
    BY <1>1
  <2> QED BY <2>1, <2>2, <2>3 DEF Sends, Header
<1>4. p.msg.size >= 12
  BY <1>1, <1>3
<1>5. D' = Stats!Begin(D, c)
  BY <1>2, <1>3, <1>4, ChunkIs
<1> HIDE DEF c
<1>6. /\ D'.open = [handle |-> c.handle, pieces |-> <<c>>, declared |-> c.declared, next |-> 1]
      /\ D'.logical = D.logical /\ D'.sequences = Stats!CloseOpen(D).sequences
  BY <1>1, <1>2, <1>5, BeginIs
<1>7. \/ D'.sequences = D.sequences
      \/ \E r \in ClosedSequence : ~r.complete /\ D'.sequences = Append(D.sequences, r)
  BY <1>2, <1>6, CloseOpenIs
<1>8. FoundWhole'
  <2>1. Trusted' => Trusted
    BY DEF Trusted
  <2> QED BY <1>2, <1>7, <2>1, FoundGrows
<1>9. D'.open.handle = c.handle /\ D'.open.pieces = <<c>> /\ D'.open.pieces[1] = c
      /\ D'.open.declared = c.declared /\ D'.open.next = 1
  BY <1>6
<1>10. Straight(<<c>>) /\ Stats!Bytes(<<c>>) = c.n
  BY <1>1, <1>3, StraightOne, BytesOne
<1>11. OpenWhole'
  BY <1>3, <1>9, <1>10 DEF OpenWhole, Straight
<1>12. D'.open # Stats!NoSequence
  <2>1. <<c>> # <<>>
    OBVIOUS
  <2> QED BY <1>9, <2>1, OpenHasPieces
<1>13. chunks'.handle = c.handle /\ chunks'.seq = 1 /\ chunks'.at = c.n
  BY <1>3
<1>14. Current'
  BY <1>3, <1>9, <1>10, <1>13 DEF Current
<1>15. InStep'
  BY <1>9, <1>12, <1>13, <1>14 DEF InStep
<1>16. Apart'
  <2>1. handle' = (D'.open.handle + 1 + 0) % Handles
    BY <1>1, <1>3, <1>9
  <2>2. 0 <= lost' + (IF chunks' # None /\ chunks'.seq = 0 THEN 1 ELSE 0)
    BY <1>1
  <2>3. Since(0)' /\ 0 \in 0 .. lost' + 1
    BY <1>1, <1>14, <2>1, <2>2 DEF Since
  <2> QED BY <2>3 DEF Apart
<1> QED BY <1>3, <1>6, <1>7, <1>8, <1>11, <1>15, <1>16 DEF c

\* One that continues the open sequence is of the same response.
LEMMA ChunkMatches ==
    ASSUME Typed, InStep, Apart, NEW p \in Packet, Sends(p), chunks.seq # 0, Trusted,
           handle = (chunks.handle + 1) % Handles,
           D.open # Stats!NoSequence, D.open.handle = chunks.handle, D.open.next = chunks.seq
    PROVE  D.open.pieces[1].of = asked /\ Stats!Bytes(D.open.pieces) = chunks.at
<1>1. /\ chunks # None /\ lost \in Nat /\ chunks.seq \in Nat /\ chunks.handle \in 0 .. 255
  BY ChunkTypes DEF Sends
<1>2. CASE lost = 0
  BY <1>1, <1>2 DEF InStep, Current
<1>3. CASE lost # 0
  <2>1. restarts = 0 /\ lost < 256
    BY <1>3 DEF Trusted
  <2>2. PICK j \in 0 .. lost + 1 : Since(j)
    BY <2>1 DEF Apart
  <2>3. j <= lost
    BY <1>1, <2>2 DEF Since
  <2>4. j = 0
    <3>1. (chunks.handle + 1) % 256 = (chunks.handle + 1 + j) % 256
      BY <2>2 DEF Since
    <3>2. j \in Nat /\ j < 256
      BY <1>1, <2>1, <2>3
    <3> QED BY <1>1, <3>1, <3>2, HandlesCome
  <2>5. Current
    BY <1>1, <2>2, <2>4 DEF Since
  <2> QED BY <2>5 DEF Current
<1> QED BY <1>2, <1>3

\* One out of turn closes the open sequence, and the capture has missed something.
LEMMA ChunkAstray ==
    ASSUME Typed, FoundWhole, InStep, NEW p \in Packet, Sends(p), chunks.seq # 0,
           ~(/\ D.open # Stats!NoSequence
             /\ D.open.handle = chunks.handle /\ D.open.next = chunks.seq),
           UNCHANGED <<handle, restarts>>, D' = Stats!Dechunk1(D, p), lost' = lost
    PROVE  /\ FoundWhole' /\ OpenWhole' /\ InStep' /\ Apart' /\ lost # 0
<1> DEFINE c == p.chunk
<1>1. lost \in Nat /\ c \in Piece /\ c.n \in Int
  BY ChunkTypes
<1>2. D \in Reassembly
  BY TapIs DEF Sends, Typed
<1>3. /\ c.n = c.says /\ c.n >= 1 /\ p.msg.name = "CHUNK_RESPONSE"
      /\ p.msg.size = Header + c.n /\ c.handle = chunks.handle /\ c.seq = chunks.seq
  BY DEF Sends
<1>4. p.msg.size >= 12
  BY <1>1, <1>3 DEF Header
<1>5. lost # 0
  BY DEF InStep, Current, Sends
<1>6. Trusted' => Trusted
  BY DEF Trusted
<1>7. CASE D.open = Stats!NoSequence
  <2>1. D' = Stats!Note(D)
    BY <1>2, <1>3, <1>4, <1>7, ChunkIs
  <2>2. D'.sequences = D.sequences /\ D'.open = Stats!NoSequence
    BY <1>2, <1>7, <2>1, NoteIs
  <2>3. FoundWhole'
    BY <1>2, <1>6, <2>2, FoundGrows
  <2> QED BY <1>5, <2>2, <2>3 DEF OpenWhole, InStep, Apart
<1>8. CASE D.open # Stats!NoSequence
  <2>1. D' = Stats!Close(D, FALSE)
    BY <1>2, <1>3, <1>4, <1>8, ChunkIs
  <2> DEFINE r == [complete |-> FALSE, bytes |-> Stats!Bytes(D.open.pieces),
                   pieces |-> D.open.pieces]
  <2>2. D'.sequences = Append(D.sequences, r) /\ D'.open = Stats!NoSequence
    BY <1>2, <1>8, <2>1, CloseIs
  <2>3. r \in ClosedSequence /\ ~r.complete
    BY <1>2, <1>8, ClosedType
  <2> HIDE DEF r
  <2>4. FoundWhole'
    BY <1>2, <1>6, <2>2, <2>3, FoundGrows
  <2> QED BY <1>5, <2>2, <2>4 DEF OpenWhole, InStep, Apart
<1> QED BY <1>5, <1>7, <1>8

\* One in its turn goes on with it; and after the last the message is whole.
LEMMA ChunkNext ==
    ASSUME Typed, FoundWhole, OpenWhole, InStep, Apart, NEW p \in Packet, Sends(p),
           chunks.seq # 0, handle = (chunks.handle + 1) % Handles,
           D.open # Stats!NoSequence, D.open.handle = chunks.handle, D.open.next = chunks.seq,
           UNCHANGED <<handle, restarts>>, D' = Stats!Dechunk1(D, p), lost' = lost
    PROVE  /\ FoundWhole' /\ OpenWhole' /\ InStep' /\ Apart'
           /\ ~p.chunk.last => D'.logical = D.logical /\ D'.sequences = D.sequences
           /\ p.chunk.last /\ Trusted =>
                /\ D'.logical = Append(D.logical, asked)
                /\ \E r \in ClosedSequence : /\ r.complete /\ r.bytes = asked.size
                                             /\ D'.sequences = Append(D.sequences, r)
<1> DEFINE c == p.chunk
           o == D.open
           q == Append(o.pieces, c)
           e == Stats!Extend(D, c)
<1>1. /\ lost \in Nat /\ restarts \in Nat /\ c \in Piece /\ c.n \in Int
      /\ chunks.handle \in 0 .. 255 /\ chunks.seq \in Nat /\ chunks.at \in Nat
      /\ asked \in Sent /\ asked.size \in Int
  BY ChunkTypes
<1>2. D \in Reassembly /\ o \in OpenSequence /\ o.pieces \in Seq(Piece) /\ o.pieces # <<>>
  <2>1. D \in Reassembly
    BY TapIs DEF Sends, Typed
  <2> QED BY <2>1 DEF Reassembly, OpenSequence
<1>3. /\ c.n = c.says /\ c.n >= 1 /\ p.msg.name = "CHUNK_RESPONSE"
      /\ p.msg.size = Header + c.n /\ c.handle = chunks.handle /\ c.seq = chunks.seq
      /\ c.from = chunks.at /\ c.of = asked
  BY DEF Sends
<1>4. p.msg.size >= 12
  BY <1>1, <1>3 DEF Header
<1>5. D' = IF c.last THEN Stats!LastChunk(e) ELSE e
  BY <1>2, <1>3, <1>4, ChunkIs
<1>6. /\ e \in Reassembly /\ e.logical = D.logical /\ e.sequences = D.sequences
      /\ e.open = [handle |-> o.handle, pieces |-> q, declared |-> o.declared,
                   next |-> o.next + 1]
  BY <1>1, <1>2, ExtendIs
<1>7. e.open # Stats!NoSequence
  <2>1. q # <<>>
    BY <1>1, <1>2
  <2> HIDE DEF q, e
  <2>2. e.open.pieces = q
    BY <1>6
  <2> QED BY <2>1, <2>2, OpenHasPieces
<1>8. Trusted => o.pieces[1].of = asked /\ Stats!Bytes(o.pieces) = chunks.at
  BY ChunkMatches
<1>9. Trusted => Straight(q) /\ q[1] = o.pieces[1] /\ o.declared = asked.size
  <2> SUFFICES ASSUME Trusted PROVE Straight(q) /\ q[1] = o.pieces[1] /\ o.declared = asked.size
    OBVIOUS
  <2>1. Straight(o.pieces) /\ o.declared = o.pieces[1].of.size
    BY DEF OpenWhole
  <2> HIDE DEF o, c
  <2> QED BY <1>1, <1>2, <1>3, <1>8, <2>1, StraightAppend
<1>10. Stats!Bytes(q) = Stats!Bytes(o.pieces) + c.n /\ Stats!Bytes(o.pieces) \in Int
  BY <1>1, <1>2, BytesAppend
<1>11. q[1] = o.pieces[1] /\ q \in Seq(Piece)
  BY <1>1, <1>2
<1> HIDE DEF c, o, q, e
<1>12. Trusted' => Trusted
  BY DEF Trusted
<1>13. CASE ~c.last
  <2>1. D' = e
    BY <1>5, <1>13
  <2>2. D'.sequences = D.sequences /\ D'.logical = D.logical
    BY <1>6, <2>1
  <2>3. FoundWhole'
    BY <1>2, <1>12, <2>2, FoundGrows
  <2>4. D'.open.handle = o.handle /\ D'.open.pieces = q /\ D'.open.declared = o.declared
        /\ D'.open.next = o.next + 1
    BY <1>6, <2>1
  <2>5. OpenWhole'
    BY <1>8, <1>9, <1>12, <2>4 DEF OpenWhole, Straight
  <2>6. chunks'.handle = chunks.handle /\ chunks'.seq = chunks.seq + 1
        /\ chunks'.at = chunks.at + c.n /\ asked' = asked
    BY <1>13 DEF Sends, c
  <2>7. ASSUME o.pieces[1].of = asked, Stats!Bytes(o.pieces) = chunks.at PROVE Current'
    <3>1. D'.open.handle = chunks'.handle /\ D'.open.pieces[1].of = asked'
      BY <1>11, <2>4, <2>6, <2>7 DEF o
    <3>2. D'.open.next = chunks'.seq /\ D'.open.next <= chunks'.seq
      BY <1>1, <2>4, <2>6 DEF o
    <3>3. Stats!Bytes(D'.open.pieces) = chunks'.at
      BY <1>10, <2>4, <2>6, <2>7
    <3> QED BY <3>1, <3>2, <3>3 DEF Current
  <2>8. InStep'
    <3> SUFFICES ASSUME lost' = 0
                 PROVE  D'.open # Stats!NoSequence /\ Current' /\ D'.open.next = chunks'.seq
      BY DEF InStep
    <3>1. Trusted
      BY DEF Trusted
    <3> QED BY <1>7, <1>8, <2>1, <2>4, <2>6, <2>7, <3>1 DEF o
  <2>9. Apart'
    <3> SUFFICES ASSUME restarts' = 0 PROVE \E j \in 0 .. lost' + 1 : Since(j)'
      BY DEF Apart
    <3>1. PICK j \in 0 .. lost + 1 : Since(j)
      BY DEF Apart
    <3>2. j = 0 => Current'
      <4>1. j = 0 => o.pieces[1].of = asked /\ Stats!Bytes(o.pieces) = chunks.at
        BY <3>1 DEF Since, Current, Sends, o
      <4> QED BY <2>7, <4>1
    <3>3. handle' = (D'.open.handle + 1 + j) % Handles
      BY <2>4, <3>1 DEF Since, o
    <3>4. j <= lost' + (IF chunks' # None /\ chunks'.seq = 0 THEN 1 ELSE 0)
      BY <1>1, <3>1 DEF Since
    <3>5. Since(j)'
      BY <3>2, <3>3, <3>4 DEF Since
    <3> QED BY <3>1, <3>5
  <2> QED BY <1>13, <2>2, <2>3, <2>5, <2>8, <2>9 DEF c
<1>14. CASE c.last
  <2> DEFINE ok == Stats!Bytes(q) = o.declared
             r == [complete |-> ok, bytes |-> Stats!Bytes(q), pieces |-> q]
  <2>1. e.open.pieces = q /\ e.open.declared = o.declared
    BY <1>6
  <2>2. D' = Stats!Close(e, ok)
    BY <1>5, <1>6, <1>7, <1>14, <2>1, LastChunkIs
  <2>3. ok \in BOOLEAN
    OBVIOUS
  <2>4. /\ D'.open = Stats!NoSequence /\ D'.sequences = Append(D.sequences, r)
        /\ D'.logical = IF ok THEN Append(D.logical, [q[1].of EXCEPT !.size = Stats!Bytes(q)])
                        ELSE D.logical
    <3> DEFINE k == ok
    <3>1. k \in BOOLEAN
      BY <2>3
    <3>2. D' = Stats!Close(e, k)
      BY <2>2
    <3>3. k = (Stats!Bytes(q) = o.declared)
      OBVIOUS
    <3> HIDE DEF k
    <3>4. /\ Stats!Close(e, k).open = Stats!NoSequence
          /\ Stats!Close(e, k).sequences =
               Append(e.sequences, [complete |-> k, bytes |-> Stats!Bytes(e.open.pieces),
                                    pieces |-> e.open.pieces])
          /\ Stats!Close(e, k).logical =
               IF k THEN Append(e.logical, [e.open.pieces[1].of EXCEPT
                                              !.size = Stats!Bytes(e.open.pieces)])
               ELSE e.logical
      BY <1>6, <1>7, <3>1, CloseIs
    <3> QED BY <1>6, <2>1, <3>2, <3>4 DEF k
  <2>5. r \in ClosedSequence
    <3>1. Stats!Bytes(q) \in Int /\ q # <<>>
      <4>1. q # <<>>
        BY <1>1, <1>2 DEF q, c, o
      <4> QED BY <1>1, <1>10, <4>1 DEF c
    <3> HIDE DEF ok
    <3> QED BY <1>11, <2>3, <3>1 DEF ClosedSequence
  <2>6. Trusted => ok /\ r.bytes = asked.size
    <3>1. c.n = asked.size - chunks.at
      BY <1>14 DEF Sends, c
    <3> QED BY <1>1, <1>8, <1>9, <1>10, <3>1 DEF c
  <2>7. r.pieces = q /\ r.bytes = Stats!Bytes(q) /\ (r.complete <=> ok)
    OBVIOUS
  <2> HIDE DEF r
  <2>8. Trusted => Whole(r)
    BY <1>8, <1>9, <2>6, <2>7 DEF Whole
  <2>9. FoundWhole'
    BY <1>2, <1>12, <2>4, <2>5, <2>8, FoundGrows
  <2>10. Trusted => D'.logical = Append(D.logical, asked)
    <3> SUFFICES ASSUME Trusted PROVE D'.logical = Append(D.logical, asked)
      OBVIOUS
    <3>1. ok /\ Stats!Bytes(q) = asked.size /\ q[1].of = asked
      BY <1>8, <1>9, <2>6, <2>7
    <3>2. [asked EXCEPT !.size = asked.size] = asked
      BY <1>1 DEF Sent, Messages
    <3> QED BY <2>4, <3>1, <3>2
  <2>11. chunks' = None
    BY <1>14 DEF Sends, c
  <2> QED BY <1>14, <2>4, <2>5, <2>6, <2>7, <2>9, <2>10, <2>11 DEF OpenWhole, InStep, Apart, c
<1> QED BY <1>13, <1>14

\* What a chunk that the capture has whole makes of the reassembly.
Effect(p) ==
    /\ lost = 0 /\ packets' = Append(packets, p)
    /\ ~p.chunk.last =>
         /\ D'.logical = D.logical
         /\ \/ D'.sequences = D.sequences
            \/ \E r \in ClosedSequence : ~r.complete /\ D'.sequences = Append(D.sequences, r)
    /\ p.chunk.last =>
         /\ D'.logical = Append(D.logical, asked)
         /\ \E r \in ClosedSequence : /\ r.complete /\ r.bytes = asked.size
                                      /\ D'.sequences = Append(D.sequences, r)

LEMMA ChunkStep ==
    ASSUME Typed, Owed, FoundWhole, OpenWhole, InStep, Apart, ChunkResponse
    PROVE  /\ packets' \in Seq(Packet) /\ packets' # <<>> /\ packets'[1] = packets[1]
           /\ lost' \in Nat /\ lost' >= lost
           /\ FoundWhole' /\ OpenWhole' /\ InStep' /\ Apart'
           /\ \E p \in Packet : Sends(p) /\ (lost' = 0 => Effect(p))
<1>1. PICK p \in Packet : Sends(p)
  BY ChunkSent
<1>2. /\ packets \in Seq(Packet) /\ packets # <<>> /\ lost \in Nat /\ Tap(p)
      /\ UNCHANGED <<handle, restarts>>
  BY <1>1 DEF Typed, Sends, ChunkResponse
<1>3. /\ packets' \in Seq(Packet) /\ packets' # <<>> /\ packets'[1] = packets[1]
      /\ \/ packets' = Append(packets, p) /\ lost' = lost /\ D' = Stats!Dechunk1(D, p)
         \/ packets' = packets /\ lost' = lost + 1 /\ D' = D
         \/ packets' = Append(packets, Cut(p)) /\ lost' = lost + 1 /\ D' = Stats!Dechunk1(D, Cut(p))
  BY <1>2, TapIs
<1>4. /\ handle = (chunks.handle + 1) % Handles /\ chunks.seq \in Nat
      /\ chunks.seq = 0 => chunks.at = 0
  BY <1>1, ChunkTypes DEF Owed, Sends
<1>5. CASE packets' = packets /\ lost' = lost + 1 /\ D' = D
  <2>1. lost' # 0
    BY <1>2, <1>5
  <2> QED BY <1>1, <1>2, <1>3, <1>5, <2>1, ChunkMissed
<1>6. CASE packets' = Append(packets, Cut(p)) /\ lost' = lost + 1 /\ D' = Stats!Dechunk1(D, Cut(p))
  <2>1. lost' # 0
    BY <1>2, <1>6
  <2> QED BY <1>1, <1>2, <1>3, <1>6, <2>1, ChunkCut
<1>7. CASE packets' = Append(packets, p) /\ lost' = lost /\ D' = Stats!Dechunk1(D, p)
  <2> SUFFICES /\ FoundWhole' /\ OpenWhole' /\ InStep' /\ Apart'
               /\ lost' = 0 => Effect(p)
    BY <1>1, <1>2, <1>3, <1>7
  <2>1. CASE chunks.seq = 0
    BY <1>1, <1>2, <1>4, <1>7, <2>1, ChunkFirst DEF Effect
  <2>2. CASE chunks.seq # 0 /\ ~(/\ D.open # Stats!NoSequence
                                 /\ D.open.handle = chunks.handle /\ D.open.next = chunks.seq)
    BY <1>1, <1>2, <1>7, <2>2, ChunkAstray
  <2>3. CASE /\ chunks.seq # 0 /\ D.open # Stats!NoSequence
             /\ D.open.handle = chunks.handle /\ D.open.next = chunks.seq
    <3>1. lost' = 0 => Trusted
      BY <1>7 DEF Trusted
    <3> QED BY <1>1, <1>2, <1>4, <1>7, <2>3, <3>1, ChunkNext DEF Effect
  <2> QED BY <2>1, <2>2, <2>3
<1> QED BY <1>3, <1>5, <1>6, <1>7

-----------------------------------------------------------------------------
(* What the actions keep.                                                  *)

\* A packet that is no chunk.
LEMMA Quiet ==
    ASSUME Typed, FoundWhole, OpenWhole, lost' \in Nat, lost' >= lost, restarts' \in Nat,
           restarts' >= restarts, D'.open = D.open, D'.sequences = D.sequences
    PROVE  FoundWhole' /\ OpenWhole'
<1>1. Trusted' => Trusted
  BY DEF Trusted, Typed
<1> QED BY <1>1 DEF FoundWhole, OpenWhole, Whole, Straight

\* The responder is asked nothing, and its handles stay as they were.
LEMMA QuietApart ==
    ASSUME Typed, Apart, lost' \in Nat, lost' >= lost, UNCHANGED restarts,
           D'.open = D.open, chunks = None, chunks' = None, UNCHANGED handle
    PROVE  Apart'
<1> SUFFICES ASSUME restarts' = 0, D'.open # Stats!NoSequence
             PROVE  \E j \in 0 .. lost' + 1 : Since(j)'
  BY DEF Apart
<1>1. PICK j \in 0 .. lost + 1 : Since(j)
  BY DEF Apart
<1>2. lost \in Nat
  BY DEF Typed
<1>3. j \in 0 .. lost' + 1 /\ j <= lost'
  BY <1>1, <1>2 DEF Since
<1>4. handle' = (D'.open.handle + 1 + j) % Handles
  BY <1>1 DEF Since
<1>5. Since(j)'
  <2>1. j <= lost' + (IF chunks' # None /\ chunks'.seq = 0 THEN 1 ELSE 0)
    BY <1>2, <1>3
  <2>2. j = 0 /\ chunks' # None => Current'
    OBVIOUS
  <2> QED BY <1>4, <2>1, <2>2 DEF Since
<1> QED BY <1>3, <1>5

\* A portion is of its slot's chain, and what it does not carry remains.
LEMMA PortionIs ==
    ASSUME exchanges \in Nat, NEW s \in Slots, NEW at \in Nat, at < ChainBytes[s]
    PROVE  LET m == Portion(s, at) IN
           /\ m \in Sent /\ m.name = "CERTIFICATE" /\ m.size = 8 + m.portion /\ m.slot = s
           /\ m.portion > 0 /\ m.remainder >= 0 /\ m.offset = at
           /\ at + m.portion + m.remainder = ChainBytes[s]
<1> DEFINE rest == ChainBytes[s] - at
           n == IF rest < MaxPortion THEN rest ELSE MaxPortion
           m == Portion(s, at)
<1>1. ChainBytes[s] \in Nat /\ MaxPortion \in Nat /\ MaxPortion > 0
  BY ConversationAssumption
<1>2. rest \in Int /\ n \in Int /\ n > 0 /\ n <= rest /\ rest - n \in Int /\ 8 + n \in Int
  BY <1>1
<1>3. m = [name |-> "CERTIFICATE", size |-> 8 + n, dts |-> 0, slot |-> s,
           portion |-> n, remainder |-> rest - n, offset |-> at,
           chain |-> ChainBytes[s], number |-> exchanges]
  BY DEF Portion
<1> HIDE DEF n, rest, m
<1>4. m \in Messages
  <2>1. "CERTIFICATE" \in Names
    BY DEF Names
  <2> QED BY <1>1, <1>2, <1>3, <2>1 DEF Messages
<1>5. /\ m.name = "CERTIFICATE" /\ m.size = 8 + n /\ m.slot = s /\ m.portion = n
      /\ m.remainder = rest - n /\ m.offset = at /\ m.chain = ChainBytes[s]
  BY <1>3
<1>6. at + n + (rest - n) = ChainBytes[s] /\ rest - n >= 0
  BY <1>1, <1>2 DEF rest
<1> QED BY <1>2, <1>4, <1>5, <1>6 DEF Sent, m

\* A plain message.
LEMMA PlainIs ==
    ASSUME NEW m \in Sent, m.name # "CHUNK_RESPONSE"
    PROVE  Plain(m) \in Packet /\ Plain(m).msg = m
<1>1. NoChunk \in ChunkOf(Sent \cup {None})
  BY DEF NoChunk, ChunkOf
<1> QED BY <1>1 DEF Plain, Packet

LEMMA PlainMessage ==
    ASSUME exchanges \in Nat, NEW name \in Names, name \notin {"CERTIFICATE", "CHUNK_RESPONSE"},
           NEW size \in Int
    PROVE  /\ Message(name, size) \in Sent
           /\ Plain(Message(name, size)) \in Packet
           /\ Plain(Message(name, size)).msg = Message(name, size)
           /\ Message(name, size).name = name /\ Message(name, size).size = size
<1>1. Message(name, size) \in Sent
  BY MessageType
<1>2. Message(name, size).name = name /\ Message(name, size).size = size
  BY DEF Message
<1> QED BY <1>1, <1>2, PlainIs

\* What a plain message that the capture has whole makes of it.
Adds(m) == /\ lost = 0 /\ packets' = Append(packets, Plain(m))
           /\ D'.logical = Append(D.logical, m) /\ D'.sequences = D.sequences

Sound == Typed /\ Owed /\ Declares /\ FoundWhole /\ OpenWhole /\ InStep /\ Apart

\* What a delivery leaves of the fetch.
Fetching == [slot : Slots \cup {None}, at : Nat]
Proper(f) == /\ f.slot = None => f.at = 0
             /\ f.slot # None => f.at < ChainBytes[f.slot]

LEMMA NotFetchingIs == NotFetching \in Fetching /\ Proper(NotFetching)
BY DEF NotFetching, Fetching, Proper

LEMMA DeliveredIs ==
    ASSUME Typed, Owed, asked # None, Delivered
    PROVE  fetch' \in Fetching /\ Proper(fetch') /\ done' \in Seq(Slots)
<1>1. /\ fetch \in Fetching /\ Proper(fetch) /\ done \in Seq(Slots) /\ asked \in Sent
  BY DEF Typed, Owed, Fetching, Proper
<1>2. CASE asked.name # "CERTIFICATE"
  BY <1>1, <1>2 DEF Delivered
<1>3. CASE asked.name = "CERTIFICATE"
  <2>1. /\ fetch.slot # None /\ asked.slot = fetch.slot
        /\ asked.portion > 0 /\ asked.remainder >= 0
        /\ fetch.at + asked.portion + asked.remainder = ChainBytes[fetch.slot]
    BY <1>3 DEF Owed
  <2>2. fetch.slot \in Slots /\ fetch.at \in Nat /\ ChainBytes[fetch.slot] \in Nat
        /\ asked.portion \in Int /\ asked.remainder \in Int
    BY <1>1, <2>1, ConversationAssumption DEF Fetching, Sent, Messages
  <2>3. CASE asked.remainder = 0
    <3>1. fetch' = NotFetching /\ done' = Append(done, asked.slot)
      BY <1>3, <2>3 DEF Delivered
    <3> QED BY <1>1, <2>1, <2>2, <3>1, NotFetchingIs
  <2>4. CASE asked.remainder # 0
    <3>1. fetch' = [fetch EXCEPT !.at = fetch.at + asked.portion] /\ done' = done
      BY <1>3, <2>4 DEF Delivered
    <3>2. fetch' = [slot |-> fetch.slot, at |-> fetch.at + asked.portion]
      BY <1>1, <3>1 DEF Fetching
    <3>3. fetch.at + asked.portion \in Nat /\ fetch.at + asked.portion < ChainBytes[fetch.slot]
      BY <2>1, <2>2, <2>4
    <3> QED BY <1>1, <2>1, <2>2, <3>1, <3>2, <3>3 DEF Fetching, Proper
  <2> QED BY <2>3, <2>4
<1> QED BY <1>2, <1>3

LEMMA GetCertificateStep ==
    ASSUME Sound, GetCertificate
    PROVE  /\ Sound'
           /\ lost' = 0 => \E m \in Sent : m.name = "GET_CERTIFICATE" /\ m.size = 8 /\ Adds(m)
<1> USE DEF Sound
<1> DEFINE m == Message("GET_CERTIFICATE", 8)
           p == Plain(m)
<1>1. /\ packets \in Seq(Packet) /\ packets # <<>> /\ lost \in Nat /\ restarts \in Nat
      /\ exchanges \in Nat /\ fetch \in Fetching /\ chunks = None /\ asked = None
  BY DEF Typed, GetCertificate, Idle, Fetching
<1>2. PICK s \in Slots : /\ fetch.slot \in {None, s} /\ asked' = Portion(s, fetch.at)
                         /\ fetch' = [fetch EXCEPT !.slot = s]
  BY DEF GetCertificate
<1>3. /\ Tap(p) /\ exchanges' = exchanges + 1 /\ UNCHANGED <<chunks, handle, done, restarts>>
  BY DEF GetCertificate
<1>4. m \in Sent /\ p \in Packet /\ p.msg = m /\ m.name = "GET_CERTIFICATE" /\ m.size = 8
  <2>1. "GET_CERTIFICATE" \in Names /\ "GET_CERTIFICATE" \notin {"CERTIFICATE", "CHUNK_RESPONSE"}
        /\ 8 \in Int
    BY DEF Names
  <2> QED BY <1>1, <2>1, PlainMessage
<1> HIDE DEF m, p
<1>5. /\ packets' \in Seq(Packet) /\ packets' # <<>> /\ packets'[1] = packets[1]
      /\ lost' \in Nat /\ lost' >= lost
      /\ D'.open = D.open /\ D'.sequences = D.sequences
      /\ lost' = 0 => /\ lost = 0 /\ packets' = Append(packets, p)
                      /\ D'.logical = Append(D.logical, m)
  BY <1>1, <1>3, <1>4, PlainTap
<1>6. FoundWhole' /\ OpenWhole'
  BY <1>1, <1>3, <1>5, Quiet
<1>7. InStep' /\ Apart'
  <2>1. InStep'
    BY <1>1, <1>3 DEF InStep
  <2>2. Apart'
    BY <1>1, <1>3, <1>5, QuietApart
  <2> QED BY <2>1, <2>2
<1>8. /\ fetch' = [slot |-> s, at |-> fetch.at] /\ fetch.at \in Nat /\ fetch.at < ChainBytes[s]
  <2>1. fetch' = [slot |-> s, at |-> fetch.at] /\ fetch.at \in Nat
    BY <1>1, <1>2 DEF Fetching
  <2>2. fetch.at < ChainBytes[s]
    <3>1. CASE fetch.slot = None
      BY <3>1, ConversationAssumption DEF Owed
    <3>2. CASE fetch.slot = s
      BY <3>2, NoneAssumption DEF Owed
    <3> QED BY <1>2, <3>1, <3>2
  <2> QED BY <2>1, <2>2
<1>9. /\ asked' \in Sent /\ asked'.name = "CERTIFICATE" /\ asked'.size = 8 + asked'.portion
      /\ asked'.slot = s /\ asked'.portion > 0 /\ asked'.remainder >= 0 /\ asked'.offset = fetch.at
      /\ fetch.at + asked'.portion + asked'.remainder = ChainBytes[s]
  BY <1>1, <1>2, <1>8, PortionIs
<1>10. Typed'
  <2>1. fetch' \in [slot : Slots \cup {None}, at : Nat] /\ exchanges' \in Nat
    BY <1>1, <1>3, <1>8
  <2> QED BY <1>3, <1>5, <1>9, <2>1 DEF Typed
<1>11. Owed'
  <2>1. fetch'.slot = s /\ fetch'.at = fetch.at /\ s # None
    BY <1>8, NoneAssumption
  <2> QED BY <1>1, <1>3, <1>8, <1>9, <2>1 DEF Owed
<1>12. Declares'
  BY <1>5 DEF Declares
<1> QED BY <1>4, <1>5, <1>6, <1>7, <1>10, <1>11, <1>12 DEF p, Adds

LEMMA ChallengeStep ==
    ASSUME Sound, Challenge
    PROVE  /\ Sound'
           /\ lost' = 0 => \E m \in Sent : m.name = "CHALLENGE" /\ m.size = 36 /\ Adds(m)
<1> USE DEF Sound
<1> DEFINE m == Message("CHALLENGE", 36)
           p == Plain(m)
<1>1. /\ packets \in Seq(Packet) /\ packets # <<>> /\ lost \in Nat /\ restarts \in Nat
      /\ exchanges \in Nat /\ chunks = None
  BY DEF Typed, Challenge, Idle
<1>2. PICK n \in Answers : asked' = Message("CHALLENGE_AUTH", n)
  BY DEF Challenge
<1>3. /\ Tap(p) /\ exchanges' = exchanges + 1 /\ UNCHANGED <<fetch, chunks, handle, done, restarts>>
  BY DEF Challenge
<1>4. m \in Sent /\ p \in Packet /\ p.msg = m /\ m.name = "CHALLENGE" /\ m.size = 36
  <2>1. "CHALLENGE" \in Names /\ "CHALLENGE" \notin {"CERTIFICATE", "CHUNK_RESPONSE"} /\ 36 \in Int
    BY DEF Names
  <2> QED BY <1>1, <2>1, PlainMessage
<1> HIDE DEF m, p
<1>5. /\ packets' \in Seq(Packet) /\ packets' # <<>> /\ packets'[1] = packets[1]
      /\ lost' \in Nat /\ lost' >= lost
      /\ D'.open = D.open /\ D'.sequences = D.sequences
      /\ lost' = 0 => /\ lost = 0 /\ packets' = Append(packets, p)
                      /\ D'.logical = Append(D.logical, m)
  BY <1>1, <1>3, <1>4, PlainTap
<1>6. FoundWhole' /\ OpenWhole'
  BY <1>1, <1>3, <1>5, Quiet
<1>7. InStep' /\ Apart'
  <2>1. InStep'
    BY <1>1, <1>3 DEF InStep
  <2>2. Apart'
    BY <1>1, <1>3, <1>5, QuietApart
  <2> QED BY <2>1, <2>2
<1>8. asked' \in Sent /\ asked'.name = "CHALLENGE_AUTH"
  <2>1. "CHALLENGE_AUTH" \in Names /\ "CHALLENGE_AUTH" \notin {"CERTIFICATE", "CHUNK_RESPONSE"}
        /\ n \in Int
    BY ConversationAssumption DEF Names
  <2> QED BY <1>1, <1>2, <2>1, PlainMessage
<1>9. Typed'
  BY <1>1, <1>3, <1>5, <1>8 DEF Typed
<1>10. Owed'
  BY <1>1, <1>3, <1>8 DEF Owed
<1>11. Declares'
  BY <1>5 DEF Declares
<1> QED BY <1>4, <1>5, <1>6, <1>7, <1>9, <1>10, <1>11 DEF p, Adds

LEMMA RespondStep ==
    ASSUME Sound, Respond
    PROVE  /\ Sound'
           /\ lost' = 0 => IF asked.size <= Dts THEN asked \in Sent /\ Adds(asked)
                           ELSE \E m \in Sent : m.name = "ERROR" /\ m.size = 5 /\ Adds(m)
<1> USE DEF Sound
<1>1. /\ packets \in Seq(Packet) /\ packets # <<>> /\ lost \in Nat /\ restarts \in Nat
      /\ exchanges \in Nat /\ asked \in Sent /\ asked # None /\ chunks = None
      /\ handle \in 0 .. 255 /\ UNCHANGED <<exchanges, restarts>>
  BY DEF Typed, Respond
<1>2. CASE asked.size <= Dts
  <2> DEFINE p == Plain(asked)
  <2>1. /\ Tap(p) /\ Delivered /\ asked' = None /\ UNCHANGED <<chunks, handle>>
    BY <1>2 DEF Respond
  <2>2. p \in Packet /\ p.msg = asked /\ asked.name # "CHUNK_RESPONSE"
    <3>1. asked.name # "CHUNK_RESPONSE"
      BY <1>1 DEF Owed
    <3> QED BY <1>1, <3>1, PlainIs
  <2> HIDE DEF p
  <2>3. /\ packets' \in Seq(Packet) /\ packets' # <<>> /\ packets'[1] = packets[1]
        /\ lost' \in Nat /\ lost' >= lost
        /\ D'.open = D.open /\ D'.sequences = D.sequences
        /\ lost' = 0 => /\ lost = 0 /\ packets' = Append(packets, p)
                        /\ D'.logical = Append(D.logical, asked)
    BY <1>1, <2>1, <2>2, PlainTap
  <2>4. FoundWhole' /\ OpenWhole'
    BY <1>1, <2>3, Quiet
  <2>5. InStep' /\ Apart'
    <3>1. InStep'
      BY <1>1, <2>1 DEF InStep
    <3>2. Apart'
      BY <1>1, <2>1, <2>3, QuietApart
    <3> QED BY <3>1, <3>2
  <2>6. fetch' \in Fetching /\ Proper(fetch') /\ done' \in Seq(Slots)
    BY <1>1, <2>1, DeliveredIs
  <2>7. Typed'
    BY <1>1, <2>1, <2>3, <2>6 DEF Typed, Fetching
  <2>8. Owed'
    BY <1>1, <2>1, <2>6 DEF Owed, Proper
  <2>9. Declares'
    BY <2>3 DEF Declares
  <2> QED BY <1>1, <1>2, <2>3, <2>4, <2>5, <2>7, <2>8, <2>9 DEF p, Adds
<1>3. CASE ~(asked.size <= Dts)
  <2> DEFINE m == Message("ERROR", 5)
             p == Plain(m)
             c == [handle |-> handle, seq |-> 0, at |-> 0, got |-> FALSE]
  <2>1. /\ Tap(p) /\ chunks' = c /\ handle' = (handle + 1) % Handles
        /\ UNCHANGED <<asked, fetch, done>>
    BY <1>3 DEF Respond
  <2>2. m \in Sent /\ p \in Packet /\ p.msg = m /\ m.name = "ERROR" /\ m.size = 5
    <3>1. "ERROR" \in Names /\ "ERROR" \notin {"CERTIFICATE", "CHUNK_RESPONSE"} /\ 5 \in Int
      BY DEF Names
    <3> QED BY <1>1, <3>1, PlainMessage
  <2>3. c \in Chunking /\ c # None /\ c.handle = handle /\ c.seq = 0 /\ c.at = 0
    <3>1. c \in Chunking
      BY <1>1 DEF Chunking
    <3> HIDE DEF c
    <3>2. c # None
      BY <3>1, NoneAssumption
    <3> QED BY <3>1, <3>2 DEF c
  <2> HIDE DEF m, p, c
  <2>4. /\ packets' \in Seq(Packet) /\ packets' # <<>> /\ packets'[1] = packets[1]
        /\ lost' \in Nat /\ lost' >= lost
        /\ D'.open = D.open /\ D'.sequences = D.sequences
        /\ lost' = 0 => /\ lost = 0 /\ packets' = Append(packets, p)
                        /\ D'.logical = Append(D.logical, m)
    BY <1>1, <2>1, <2>2, PlainTap
  <2>5. FoundWhole' /\ OpenWhole'
    BY <1>1, <2>4, Quiet
  <2>6. InStep'
    BY <2>1, <2>3 DEF InStep
  <2>7. handle' \in 0 .. 255
    BY <1>1, <2>1
  <2>8. Apart'
    <3> SUFFICES ASSUME restarts' = 0, D'.open # Stats!NoSequence
                 PROVE  \E j \in 0 .. lost' + 1 : Since(j)'
      BY DEF Apart
    <3>1. PICK j \in 0 .. lost + 1 : Since(j)
      BY <1>1, <2>4 DEF Apart
    <3>2. j <= lost /\ handle = (D.open.handle + 1 + j) % Handles
      BY <1>1, <3>1 DEF Since
    <3>3. D'.open.handle = D.open.handle /\ D.open.handle \in 0 .. 255
      <4>1. D \in Reassembly
        BY <1>1, <2>1, <2>2, TapIs
      <4> QED BY <2>4, <4>1 DEF Reassembly, OpenSequence
    <3>4. handle' = (D'.open.handle + 1 + (j + 1)) % Handles
      <4> DEFINE h == D.open.handle
      <4>1. h \in 0 .. 255 /\ j \in Nat
        BY <3>1, <3>3
      <4> HIDE DEF h
      <4>2. (((h + 1 + j) % 256) + 1) % 256 = (h + 1 + (j + 1)) % 256
        BY <4>1, HandlesGo
      <4> QED BY <2>1, <3>2, <3>3, <4>2 DEF h
    <3> DEFINE k == lost
               l == lost'
    <3>21. k \in Nat /\ l \in Nat /\ l >= k /\ j \in 0 .. k + 1 /\ j <= k
      BY <1>1, <2>4, <3>1, <3>2
    <3> HIDE DEF k, l
    <3>22. j + 1 \in 0 .. l + 1 /\ j + 1 # 0 /\ j + 1 <= l + 1
      BY <3>21
    <3>5. j + 1 \in 0 .. lost' + 1 /\ j + 1 # 0
      BY <3>22 DEF l
    <3>6. j + 1 <= lost' + (IF chunks' # None /\ chunks'.seq = 0 THEN 1 ELSE 0)
      BY <2>1, <2>3, <3>22 DEF l
    <3>7. Since(j + 1)'
      BY <3>4, <3>5, <3>6 DEF Since
    <3> QED BY <3>5, <3>7
  <2>9. Typed'
    BY <1>1, <2>1, <2>3, <2>4, <2>7 DEF Typed
  <2>10. Owed'
    <3>1. asked.size > Dts /\ 0 < asked.size
      BY <1>1, <1>3, ConversationAssumption DEF Sent, Messages
    <3> QED BY <1>1, <2>1, <2>3, <3>1 DEF Owed
  <2>11. Declares'
    BY <2>4 DEF Declares
  <2> QED BY <1>3, <2>2, <2>4, <2>5, <2>6, <2>8, <2>9, <2>10, <2>11 DEF p, Adds
<1> QED BY <1>2, <1>3

LEMMA ChunkGetStep ==
    ASSUME Sound, ChunkGet
    PROVE  /\ Sound'
           /\ lost' = 0 => \E m \in Sent : m.name = "CHUNK_GET" /\ m.size = 8 /\ Adds(m)
<1> USE DEF Sound
<1> DEFINE m == Message("CHUNK_GET", 8)
           p == Plain(m)
<1>1. /\ packets \in Seq(Packet) /\ packets # <<>> /\ lost \in Nat /\ restarts \in Nat
      /\ exchanges \in Nat /\ chunks # None /\ chunks \in Chunking
  BY DEF Typed, ChunkGet
<1>2. /\ Tap(p) /\ chunks' = [chunks EXCEPT !.got = TRUE]
      /\ UNCHANGED <<fetch, asked, handle, done, exchanges, restarts>>
  BY DEF ChunkGet
<1>3. m \in Sent /\ p \in Packet /\ p.msg = m /\ m.name = "CHUNK_GET" /\ m.size = 8
  <2>1. "CHUNK_GET" \in Names /\ "CHUNK_GET" \notin {"CERTIFICATE", "CHUNK_RESPONSE"} /\ 8 \in Int
    BY DEF Names
  <2> QED BY <1>1, <2>1, PlainMessage
<1> HIDE DEF m, p
<1>4. /\ packets' \in Seq(Packet) /\ packets' # <<>> /\ packets'[1] = packets[1]
      /\ lost' \in Nat /\ lost' >= lost
      /\ D'.open = D.open /\ D'.sequences = D.sequences
      /\ lost' = 0 => /\ lost = 0 /\ packets' = Append(packets, p)
                      /\ D'.logical = Append(D.logical, m)
  BY <1>1, <1>2, <1>3, PlainTap
<1>5. /\ chunks' \in Chunking /\ chunks' # None /\ chunks'.handle = chunks.handle
      /\ chunks'.seq = chunks.seq /\ chunks'.at = chunks.at
  <2>1. chunks' \in Chunking
    BY <1>1, <1>2 DEF Chunking
  <2>2. chunks'.handle = chunks.handle /\ chunks'.seq = chunks.seq /\ chunks'.at = chunks.at
    BY <1>1, <1>2 DEF Chunking
  <2> QED BY <2>1, <2>2, NoneAssumption
<1>6. FoundWhole' /\ OpenWhole'
  BY <1>1, <1>2, <1>4, Quiet
<1>7. Current => Current'
  BY <1>2, <1>4, <1>5 DEF Current
<1>8. InStep'
  <2> SUFFICES ASSUME lost' = 0, chunks'.seq # 0
               PROVE  D'.open # Stats!NoSequence /\ Current' /\ D'.open.next = chunks'.seq
    BY DEF InStep
  <2>1. D.open # Stats!NoSequence /\ Current /\ D.open.next = chunks.seq
    BY <1>1, <1>4, <1>5 DEF InStep
  <2> QED BY <1>4, <1>5, <1>7, <2>1
<1>9. Apart'
  <2> SUFFICES ASSUME restarts' = 0, D'.open # Stats!NoSequence
               PROVE  \E j \in 0 .. lost' + 1 : Since(j)'
    BY DEF Apart
  <2>1. PICK j \in 0 .. lost + 1 : Since(j)
    BY <1>2, <1>4 DEF Apart
  <2> DEFINE k == lost
             l == lost'
  <2>21. k \in Nat /\ l \in Nat /\ l >= k /\ j \in 0 .. k + 1
    BY <1>1, <1>4, <2>1
  <2>22. j <= k + (IF chunks.seq = 0 THEN 1 ELSE 0)
    BY <1>1, <2>1 DEF Since
  <2> HIDE DEF k, l
  <2>23. j \in 0 .. l + 1 /\ j <= l + (IF chunks.seq = 0 THEN 1 ELSE 0)
    BY <2>21, <2>22
  <2>2. j \in 0 .. lost' + 1
    BY <2>23 DEF l
  <2>3. handle' = (D'.open.handle + 1 + j) % Handles
    BY <1>2, <1>4, <2>1 DEF Since
  <2>4. j = 0 /\ chunks' # None => Current'
    BY <1>1, <1>7, <2>1 DEF Since
  <2>5. j <= lost' + (IF chunks' # None /\ chunks'.seq = 0 THEN 1 ELSE 0)
    BY <1>5, <2>23 DEF l
  <2>6. Since(j)'
    BY <2>3, <2>4, <2>5 DEF Since
  <2> QED BY <2>2, <2>6
<1>10. Typed'
  BY <1>1, <1>2, <1>4, <1>5 DEF Typed
<1>11. Owed'
  BY <1>1, <1>2, <1>5 DEF Owed
<1>12. Declares'
  BY <1>4 DEF Declares
<1> QED BY <1>3, <1>4, <1>6, <1>8, <1>9, <1>10, <1>11, <1>12 DEF p, Adds

LEMMA CapabilitiesIs ==
    ASSUME exchanges \in Nat
    PROVE  /\ Capabilities \in Packet /\ Capabilities.form = "spdm"
           /\ Capabilities.msg \in Sent
           /\ Capabilities.msg.name = "CAPABILITIES" /\ Capabilities.msg.size = 20
           /\ Capabilities.msg.dts = Dts
<1> DEFINE m == [Message("CAPABILITIES", 20) EXCEPT !.dts = Dts]
<1>1. m = [name |-> "CAPABILITIES", size |-> 20, dts |-> Dts, slot |-> 0, portion |-> 0,
           remainder |-> 0, offset |-> 0, chain |-> 0, number |-> exchanges]
  BY DEF Message
<1>2. Dts \in Int /\ 20 \in Int
  BY ConversationAssumption
<1>3. "CAPABILITIES" \in Names
  BY DEF Names
<1> HIDE DEF m
<1>4. m \in Messages
  BY <1>1, <1>2, <1>3 DEF Messages
<1>5. m.name = "CAPABILITIES" /\ m.size = 20 /\ m.dts = Dts
  BY <1>1
<1>6. m \in Sent
  BY <1>4, <1>5 DEF Sent
<1>7. Capabilities = Plain(m)
  BY DEF Capabilities, m
<1>8. Plain(m) \in Packet /\ Plain(m).msg = m /\ Plain(m).form = "spdm"
  BY <1>5, <1>6, PlainIs DEF Plain
<1> QED BY <1>5, <1>6, <1>7, <1>8

LEMMA Begins == ASSUME Init PROVE Sound /\ D = Stats!Dechunk1(Stats!EmptyDechunk, Capabilities)
<1> DEFINE p == Capabilities
           e == <<>>
<1>1. /\ exchanges = 0 /\ lost = 0 /\ restarts = 0 /\ packets = <<p>>
      /\ fetch = NotFetching /\ asked = None /\ chunks = None /\ handle = 0 /\ done = <<>>
  BY DEF Init
<1>2. p \in Packet /\ p.msg.name = "CAPABILITIES" /\ p.msg.size = 20 /\ p.msg.dts = Dts
  BY <1>1, CapabilitiesIs
<1>3. e \in Seq(Packet) /\ packets = Append(e, p)
  BY <1>1, <1>2
<1>4. Stats!Dechunked(e) = Stats!EmptyDechunk
  <2>1. PICK f \in [0 .. Len(e) -> Reassembly] :
          FoldsTo(f, Stats!EmptyDechunk, e, DechunkStep) /\ Stats!Dechunked(e) = f[Len(e)]
    BY <1>3, DechunkFolds
  <2>2. Len(e) = 0
    OBVIOUS
  <2> QED BY <2>1, <2>2, FoldShape
<1> HIDE DEF p, e
<1>5. D = Stats!Dechunk1(Stats!EmptyDechunk, p)
  BY <1>2, <1>3, <1>4, DechunkAppends DEF D
<1>6. D.sequences = <<>> /\ D.open = Stats!NoSequence
  BY <1>2, <1>5, EmptyType, MessageIs DEF Stats!EmptyDechunk
<1>7. packets \in Seq(Packet) /\ packets # <<>> /\ packets[1] = p
  BY <1>1, <1>2
<1>8. Typed
  BY <1>1, <1>7, NotFetchingIs DEF Typed, Fetching
<1>9. Owed
  BY <1>1, NotFetchingIs DEF Owed, Proper
<1>10. Declares
  BY <1>2, <1>7 DEF Declares
<1>11. FoundWhole /\ OpenWhole /\ InStep /\ Apart
  BY <1>1, <1>6 DEF FoundWhole, OpenWhole, InStep, Apart
<1> QED BY <1>5, <1>8, <1>9, <1>10, <1>11 DEF Sound, p

\* Each chunk but the first carries as much as fits beside a short header.
LEMMA Another ==
    ASSUME NEW k \in Int, NEW r \in Int
    PROVE  (k - 1) * r + r = ((k + 1) - 1) * r
OBVIOUS

LEMMA ChunkResponseStep ==
    ASSUME Sound, ChunkResponse
    PROVE  /\ Sound'
           /\ \E p \in Packet : Sends(p) /\ (lost' = 0 => Effect(p))
<1> USE DEF Sound
<1>1. /\ packets' \in Seq(Packet) /\ packets' # <<>> /\ packets'[1] = packets[1]
      /\ lost' \in Nat /\ lost' >= lost
      /\ FoundWhole' /\ OpenWhole' /\ InStep' /\ Apart'
      /\ \E p \in Packet : Sends(p) /\ (lost' = 0 => Effect(p))
  BY ChunkStep
<1>2. PICK p \in Packet : Sends(p)
  BY <1>1
<1>3. /\ p.chunk.n \in Int /\ chunks.seq \in Nat /\ chunks.at \in Nat /\ chunks.handle \in 0 .. 255
      /\ asked \in Sent /\ asked.size \in Int /\ chunks # None /\ asked # None
  BY <1>2, ChunkTypes DEF Sends
<1>4. UNCHANGED <<handle, exchanges, restarts>>
  BY DEF ChunkResponse
<1>5. Typed' /\ Owed'
  <2>1. CASE p.chunk.last
    <3>1. Delivered /\ asked' = None /\ chunks' = None
      BY <1>2, <2>1 DEF Sends
    <3>2. fetch' \in Fetching /\ Proper(fetch') /\ done' \in Seq(Slots)
      BY <1>3, <3>1, DeliveredIs
    <3>3. Typed'
      BY <1>1, <1>4, <3>1, <3>2 DEF Typed, Fetching
    <3>4. Owed'
      BY <3>1, <3>2 DEF Owed, Proper
    <3> QED BY <3>3, <3>4
  <2>2. CASE ~p.chunk.last
    <3> DEFINE c == [handle |-> chunks.handle, seq |-> chunks.seq + 1,
                     at |-> chunks.at + p.chunk.n, got |-> FALSE]
    <3>1. /\ p.chunk.n = Dts - Header /\ p.chunk.n < asked.size - chunks.at
          /\ chunks' = c /\ UNCHANGED <<asked, fetch, done>>
          /\ p.chunk.n >= 1
      BY <1>2, <2>2 DEF Sends
    <3>2. /\ c \in Chunking /\ c.handle = chunks.handle /\ c.seq = chunks.seq + 1
          /\ c.at = chunks.at + p.chunk.n
      <4>1. chunks.at + p.chunk.n \in Nat /\ chunks.seq + 1 \in Nat
        BY <1>3, <3>1
      <4> QED BY <1>3, <4>1 DEF Chunking
    <3> HIDE DEF c
    <3>3. chunks' # None
      BY <3>1, <3>2, NoneAssumption
    <3>4. Typed'
      BY <1>1, <1>4, <3>1, <3>2 DEF Typed
    <3>5. chunks'.seq # 0 /\ chunks'.seq = chunks.seq + 1 /\ chunks'.at = chunks.at + p.chunk.n
          /\ chunks'.at < asked'.size
      BY <1>3, <3>1, <3>2
    <3>6. chunks'.at = (Dts - 16) + (chunks'.seq - 1) * (Dts - 12)
      <4> DEFINE r == Dts - 12
                 k == chunks.seq
                 a == chunks.at
      <4>1. r \in Int /\ k \in Nat /\ a \in Nat
        BY <1>3, ConversationAssumption
      <4>2. a = IF k = 0 THEN 0 ELSE (r - 4) + (k - 1) * r
        <5>1. Dts - 16 = r - 4
          BY ConversationAssumption
        <5>2. a = IF k = 0 THEN 0 ELSE (Dts - 16) + (k - 1) * (Dts - 12)
          BY <1>3 DEF Owed
        <5> QED BY <5>1, <5>2
      <4>3. p.chunk.n = IF k = 0 THEN r - 4 ELSE r
        BY <3>1, ConversationAssumption DEF Header
      <4> HIDE DEF r, k, a
      <4>4. (k - 1) * r + r = ((k + 1) - 1) * r /\ (k - 1) * r \in Int /\ (0 + 1 - 1) * r = 0
        BY <4>1, Another
      <4>5. a + p.chunk.n = (r - 4) + ((k + 1) - 1) * r
        <5>1. CASE k = 0
          BY <4>1, <4>2, <4>3, <4>4, <5>1
        <5>2. CASE k # 0
          <6> DEFINE x == (k - 1) * r
                     y == ((k + 1) - 1) * r
          <6>1. x \in Int /\ x + r = y
            BY <4>4
          <6>2. a = (r - 4) + x /\ p.chunk.n = r
            BY <4>2, <4>3, <5>2
          <6> HIDE DEF x, y
          <6>3. a + p.chunk.n = (r - 4) + y
            BY <4>1, <6>1, <6>2
          <6> QED BY <6>3 DEF y
        <5> QED BY <5>1, <5>2
      <4> QED BY <3>5, <4>5, ConversationAssumption DEF r, k, a
    <3>7. handle' = (chunks'.handle + 1) % Handles
      BY <1>3, <1>4, <3>1, <3>2 DEF Owed
    <3>8. Owed'
      BY <1>3, <3>1, <3>3, <3>5, <3>6, <3>7 DEF Owed
    <3> QED BY <3>4, <3>8
  <2> QED BY <2>1, <2>2
<1>6. Declares'
  BY <1>1 DEF Declares
<1> QED BY <1>1, <1>5, <1>6

LEMMA RestartStep ==
    ASSUME Sound, Restart
    PROVE  Sound' /\ restarts' # 0
<1> USE DEF Sound
<1>1. /\ packets \in Seq(Packet) /\ packets # <<>> /\ lost \in Nat /\ restarts \in Nat
      /\ exchanges \in Nat
  BY DEF Typed
<1>2. /\ Tap(Capabilities) /\ restarts' = restarts + 1
      /\ fetch' = NotFetching /\ asked' = None /\ chunks' = None /\ handle' = 0
      /\ UNCHANGED <<done, exchanges>>
  BY DEF Restart
<1>3. Capabilities \in Packet /\ Capabilities.msg.name # "CHUNK_RESPONSE"
  BY <1>1, CapabilitiesIs
<1>4. /\ packets' \in Seq(Packet) /\ packets' # <<>> /\ packets'[1] = packets[1]
      /\ lost' \in Nat /\ lost' >= lost
      /\ D'.open = D.open /\ D'.sequences = D.sequences
  BY <1>1, <1>2, <1>3, PlainTap
<1>5. restarts' \in Nat /\ restarts' >= restarts /\ restarts' # 0
  BY <1>1, <1>2
<1>6. FoundWhole' /\ OpenWhole'
  BY <1>4, <1>5, Quiet
<1>7. InStep' /\ Apart'
  BY <1>2, <1>5 DEF InStep, Apart
<1>8. Typed'
  BY <1>1, <1>2, <1>4, <1>5, NotFetchingIs DEF Typed, Fetching
<1>9. Owed'
  BY <1>2, NotFetchingIs DEF Owed, Proper
<1>10. Declares'
  BY <1>4 DEF Declares
<1> QED BY <1>5, <1>6, <1>7, <1>8, <1>9, <1>10

-----------------------------------------------------------------------------
(* The chains.                                                             *)

LEMMA WalkIs ==
    ASSUME Typed
    PROVE  D \in Reassembly /\ D.logical \in Seq(Sent) /\ C \in Walk /\ Closed \in Chains
<1>1. D \in Reassembly
  BY DechunkAppends, packets[1] \in Packet DEF Typed, D
<1>2. D.logical \in Seq(Sent)
  BY <1>1 DEF Reassembly
<1>3. C \in Walk
  <2>1. PICK f \in [0 .. Len(D.logical) -> Walk] :
          FoldsTo(f, EmptyWalk, D.logical, WalkStep) /\ C = f[Len(D.logical)]
    BY <1>2, WalkFolds DEF C
  <2>2. Len(D.logical) \in 0 .. Len(D.logical)
    BY <1>2
  <2> QED BY <2>1, <2>2
<1>4. Closed \in Chains
  <2>1. C.chains \in Seq(SettledChain)
    BY <1>3 DEF Walk
  <2>2. PICK f \in [0 .. Len(C.chains) -> Chains] :
          FoldsTo(f, NoChains, C.chains, ClosingStep) /\ Closed = f[Len(C.chains)]
    BY <2>1, ClosingFolds DEF Closed
  <2>3. Len(C.chains) \in 0 .. Len(C.chains)
    BY <2>1
  <2> QED BY <2>2, <2>3
<1> QED BY <1>1, <1>2, <1>3, <1>4

LEMMA WalkGoesOn ==
    ASSUME Typed, NEW m \in Sent, D'.logical = Append(D.logical, m)
    PROVE  C' = Stats!Certificate1(C, m)
<1>1. D.logical \in Seq(Sent)
  BY WalkIs
<1>2. Stats!Walked(Append(D.logical, m)) = Stats!Certificate1(Stats!Walked(D.logical), m)
  BY <1>1, WalkAppends
<1> QED BY <1>2 DEF C

\* A message that is no CERTIFICATE, and a step of the fetch that asks and no more.
LEMMA SameChains ==
    ASSUME Typed, Agrees, C' = C, done' = done, fetch'.at = fetch.at,
           fetch.at # 0 => fetch'.slot = fetch.slot
    PROVE  Agrees'
<1>1. Closed' = Closed
  BY DEF Closed
<1> QED BY <1>1 DEF Agrees

LEMMA OtherMessage ==
    ASSUME Typed, NEW m \in Sent, D'.logical = Append(D.logical, m), m.name # "CERTIFICATE"
    PROVE  C' = C
<1>1. C \in Walk
  BY WalkIs
<1> QED BY <1>1, WalkGoesOn, Certificate1Is

LEMMA TotalOne ==
    ASSUME NEW x \in Int
    PROVE  Stats!Total(<<x>>) = x
<1> DEFINE e == <<>>
<1>1. e \in Seq(Int) /\ <<x>> = Append(e, x) /\ Len(e) = 0
  OBVIOUS
<1>2. PICK f : FoldsTo(f, 0, e, TotalStep) /\ Stats!Total(e) = f[Len(e)]
  BY <1>1, TotalFolds
<1> HIDE DEF e
<1>3. Stats!Total(e) = 0
  BY <1>1, <1>2, FoldShape
<1>4. Stats!Total(Append(e, x)) = Stats!Total(e) + x
  BY <1>1, TotalAppends
<1> QED BY <1>1, <1>3, <1>4

\* A delivered portion is the next of the open chain, and the last closes it.
LEMMA PortionDelivered ==
    ASSUME Typed, Owed, Agrees, asked # None, asked.name = "CERTIFICATE", Delivered,
           C' = Stats!Certificate1(C, asked)
    PROVE  Agrees'
<1> DEFINE o == ChainWith(C, asked)
           s == fetch.slot
           n == ChainBytes[fetch.slot]
<1>1. /\ asked \in Sent /\ s # None /\ asked.slot = s /\ asked.offset = fetch.at
      /\ asked.portion > 0 /\ asked.remainder >= 0
      /\ fetch.at + asked.portion + asked.remainder = n /\ asked.size = 8 + asked.portion
  BY DEF Typed, Owed
<1>2. /\ s \in Slots /\ fetch.at \in Nat /\ n \in Nat /\ n >= 4
      /\ asked.portion \in Int /\ asked.remainder \in Int /\ asked.size >= 8 + asked.portion
      /\ asked.chain = n /\ done \in Seq(Slots)
  <2>1. s \in Slots /\ fetch.at \in Nat /\ done \in Seq(Slots)
    BY <1>1 DEF Typed
  <2>2. n \in Nat /\ n >= 4
    BY <2>1, ConversationAssumption
  <2>3. asked.portion \in Int /\ asked.remainder \in Int /\ asked.chain = n
    BY <1>1 DEF Sent, Messages
  <2> QED BY <1>1, <2>1, <2>2, <2>3
<1>3. C \in Walk /\ Closed \in Chains
  BY WalkIs
<1>4. o \in OpenChain
  BY <1>1, <1>3, ChainWithType
<1>5. /\ o.slot = s /\ o.declared = n /\ o.length = n
      /\ Stats!Total(o.portions) = fetch.at + asked.portion
  <2>1. CASE fetch.at = 0
    <3>1. C.open = Stats!NoChain
      BY <2>1 DEF Agrees
    <3>2. o = [slot |-> asked.slot, portions |-> <<asked.portion>>,
               declared |-> asked.portion + asked.remainder, length |-> Stats!FirstBytes(asked)]
      BY <3>1 DEF ChainWith
    <3>3. Stats!FirstBytes(asked) = n
      BY <1>1, <1>2, <2>1 DEF Stats!FirstBytes
    <3>4. Stats!Total(<<asked.portion>>) = asked.portion
      BY <1>2, TotalOne
    <3> HIDE DEF o, n
    <3>5. asked.portion + asked.remainder = n
      BY <1>1, <1>2, <2>1
    <3>6. /\ o.slot = asked.slot /\ o.portions = <<asked.portion>>
          /\ o.declared = asked.portion + asked.remainder /\ o.length = Stats!FirstBytes(asked)
      BY <3>2
    <3> QED BY <1>1, <1>2, <2>1, <3>3, <3>4, <3>5, <3>6
  <2>2. CASE fetch.at # 0
    <3>1. /\ C.open # Stats!NoChain /\ C.open.slot = s
          /\ Stats!Total(C.open.portions) = fetch.at
          /\ C.open.declared = n /\ C.open.length = n
      BY <2>2 DEF Agrees
    <3>2. C.open \in OpenChain
      BY <1>3, <3>1 DEF Walk
    <3>3. o = [slot |-> C.open.slot, portions |-> Append(C.open.portions, asked.portion),
               declared |-> C.open.declared, length |-> C.open.length]
      BY <3>1, <3>2 DEF ChainWith, OpenChain
    <3>4. Stats!Total(Append(C.open.portions, asked.portion)) = fetch.at + asked.portion
      <4>1. C.open.portions \in Seq(Int)
        BY <3>2 DEF OpenChain
      <4> QED BY <1>2, <3>1, <4>1, TotalAppends
    <3> HIDE DEF o, n
    <3> QED BY <3>1, <3>3, <3>4
  <2> QED BY <2>1, <2>2
<1> HIDE DEF o
<1>6. C' = IF asked.remainder = 0
           THEN [chains |-> Append(C.chains, Stats!SettleChain(o)), open |-> Stats!NoChain]
           ELSE [chains |-> C.chains, open |-> o]
  BY <1>1, <1>2, <1>3, Certificate1Is DEF o
<1>7. CASE asked.remainder = 0
  <2> DEFINE t == Stats!SettleChain(o)
  <2>1. C'.chains = Append(C.chains, t) /\ C'.open = Stats!NoChain
    BY <1>6, <1>7
  <2>2. t \in SettledChain /\ t.slot = s
    BY <1>4, <1>5, SettledType
  <2>3. t.closes
    <3>1. Stats!Total(o.portions) = n
      BY <1>1, <1>2, <1>5, <1>7
    <3> HIDE DEF n
    <3>2. n = o.declared /\ n >= 4 /\ o.length = n
      BY <1>2, <1>5
    <3> QED BY <3>1, <3>2 DEF Stats!SettleChain
  <2> HIDE DEF t
  <2>4. Closed' = Append(Closed, t)
    <3>1. C.chains \in Seq(SettledChain)
      BY <1>3 DEF Walk
    <3>2. Stats!ClosingOf(Append(C.chains, t)) = Append(Stats!ClosingOf(C.chains), t)
      BY <2>2, <2>3, <3>1, ClosingAppends
    <3> QED BY <2>1, <3>2 DEF Closed
  <2>5. fetch' = NotFetching /\ done' = Append(done, s)
    BY <1>1, <1>7 DEF Delivered
  <2>6. fetch'.at = 0
    BY <2>5 DEF NotFetching
  <2>7. Len(Closed') = Len(done') /\ \A i \in DOMAIN done' : Closed'[i].slot = done'[i]
    <3>1. Len(Closed) = Len(done) /\ \A i \in DOMAIN done : Closed[i].slot = done[i]
      BY DEF Agrees
    <3>2. Closed \in Seq(GoodChain) /\ t \in GoodChain
      BY <1>3, <2>2, <2>3 DEF Chains, GoodChain
    <3> DEFINE a == Closed
               b == Append(a, t)
               e == Append(done, s)
    <3>3. a \in Seq(GoodChain) /\ Len(a) = Len(done) /\ \A i \in DOMAIN done : a[i].slot = done[i]
      BY <3>1, <3>2
    <3> HIDE DEF a
    <3>4. Len(b) = Len(e) /\ Len(e) = Len(done) + 1 /\ Len(done) \in Nat
      BY <1>2, <3>2, <3>3
    <3>5. ASSUME NEW i \in 1 .. Len(done) + 1 PROVE b[i].slot = e[i]
      <4>1. CASE i = Len(done) + 1
        <5>1. b[i] = t /\ e[i] = s
          BY <1>2, <3>2, <3>3, <4>1
        <5> QED BY <2>2, <5>1
      <4>2. CASE i # Len(done) + 1
        <5>1. b[i] = a[i] /\ e[i] = done[i] /\ i \in DOMAIN done
          BY <1>2, <3>2, <3>3, <4>2
        <5> QED BY <3>3, <5>1
      <4> QED BY <4>1, <4>2
    <3>6. DOMAIN e = 1 .. Len(done) + 1
      BY <1>2
    <3> QED BY <2>4, <2>5, <3>4, <3>5, <3>6 DEF a
  <2> QED BY <2>1, <2>6, <2>7 DEF Agrees
<1>8. CASE asked.remainder # 0
  <2>1. C'.chains = C.chains /\ C'.open = o
    BY <1>6, <1>8
  <2>2. fetch' = [fetch EXCEPT !.at = fetch.at + asked.portion] /\ done' = done
    BY <1>1, <1>8 DEF Delivered
  <2>3. fetch'.slot = s /\ fetch'.at = fetch.at + asked.portion /\ fetch'.at # 0
    <3>1. fetch \in [slot : Slots \cup {None}, at : Nat]
      BY DEF Typed
    <3> QED BY <1>1, <1>2, <2>2, <3>1
  <2>4. Closed' = Closed
    BY <2>1 DEF Closed
  <2>5. o # Stats!NoChain
    <3>1. Stats!NoChain.slot = None
      BY DEF Stats!NoChain
    <3> QED BY <1>1, <1>5, <3>1
  <2>6. /\ C'.open # Stats!NoChain /\ C'.open.slot = fetch'.slot
        /\ Stats!Total(C'.open.portions) = fetch'.at
        /\ C'.open.declared = ChainBytes[fetch'.slot]
        /\ C'.open.length = ChainBytes[fetch'.slot]
    BY <1>5, <2>1, <2>3, <2>5
  <2>7. Len(Closed') = Len(done') /\ \A i \in DOMAIN done' : Closed'[i].slot = done'[i]
    BY <2>2, <2>4 DEF Agrees
  <2> QED BY <2>3, <2>6, <2>7 DEF Agrees
<1> QED BY <1>7, <1>8

LEMMA DeliveredAgrees ==
    ASSUME Typed, Owed, Agrees, asked # None, Delivered, D'.logical = Append(D.logical, asked)
    PROVE  Agrees'
<1>1. asked \in Sent
  BY DEF Typed
<1>2. CASE asked.name = "CERTIFICATE"
  <2>1. C' = Stats!Certificate1(C, asked)
    BY <1>1, WalkGoesOn
  <2> QED BY <1>2, <2>1, PortionDelivered
<1>3. CASE asked.name # "CERTIFICATE"
  <2>1. C' = C
    BY <1>1, <1>3, OtherMessage
  <2>2. fetch' = fetch /\ done' = done
    BY <1>3 DEF Delivered
  <2> QED BY <2>1, <2>2, SameChains
<1> QED BY <1>2, <1>3

LEMMA FetchedStep ==
    ASSUME Sound, Fetched, [Next]_vars
    PROVE  Fetched'
<1> USE DEF Sound
<1> SUFFICES ASSUME lost' = 0, restarts' = 0 PROVE Agrees'
  BY DEF Fetched
<1>1. ASSUME NEW m \in Sent, Adds(m), m.name # "CERTIFICATE", UNCHANGED <<restarts, done>>,
             fetch'.at = fetch.at, fetch.at # 0 => fetch'.slot = fetch.slot
      PROVE  Agrees'
  <2>1. Agrees
    BY <1>1 DEF Fetched, Adds
  <2>2. C' = C
    BY <1>1, OtherMessage DEF Adds
  <2> QED BY <1>1, <2>1, <2>2, SameChains
<1>2. CASE GetCertificate
  <2>1. PICK m \in Sent : m.name = "GET_CERTIFICATE" /\ m.size = 8 /\ Adds(m)
    BY <1>2, GetCertificateStep
  <2>2. PICK s \in Slots : fetch.slot \in {None, s} /\ fetch' = [fetch EXCEPT !.slot = s]
    BY <1>2 DEF GetCertificate
  <2>3. fetch'.at = fetch.at /\ fetch'.slot = s
    <3>1. fetch \in [slot : Slots \cup {None}, at : Nat]
      BY DEF Typed
    <3> QED BY <2>2, <3>1
  <2>4. fetch.at # 0 => fetch.slot = s
    BY <2>2 DEF Owed
  <2>5. UNCHANGED <<restarts, done>>
    BY <1>2 DEF GetCertificate
  <2> QED BY <1>1, <2>1, <2>3, <2>4, <2>5
<1>3. CASE Challenge
  <2>1. PICK m \in Sent : m.name = "CHALLENGE" /\ m.size = 36 /\ Adds(m)
    BY <1>3, ChallengeStep
  <2>2. UNCHANGED <<fetch, restarts, done>>
    BY <1>3 DEF Challenge
  <2> QED BY <1>1, <2>1, <2>2
<1>4. CASE Respond
  <2>1. CASE asked.size <= Dts
    <3>1. Adds(asked)
      BY <1>4, <2>1, RespondStep
    <3>2. asked # None /\ Delivered /\ UNCHANGED restarts
      BY <1>4, <2>1 DEF Respond
    <3>3. Agrees
      BY <3>1, <3>2 DEF Fetched, Adds
    <3> QED BY <3>1, <3>2, <3>3, DeliveredAgrees DEF Adds
  <2>2. CASE ~(asked.size <= Dts)
    <3>1. PICK m \in Sent : m.name = "ERROR" /\ m.size = 5 /\ Adds(m)
      BY <1>4, <2>2, RespondStep
    <3>2. UNCHANGED <<fetch, restarts, done>>
      BY <1>4, <2>2 DEF Respond
    <3> QED BY <1>1, <3>1, <3>2
  <2> QED BY <2>1, <2>2
<1>5. CASE ChunkGet
  <2>1. PICK m \in Sent : m.name = "CHUNK_GET" /\ m.size = 8 /\ Adds(m)
    BY <1>5, ChunkGetStep
  <2>2. UNCHANGED <<fetch, restarts, done>>
    BY <1>5 DEF ChunkGet
  <2> QED BY <1>1, <2>1, <2>2
<1>6. CASE ChunkResponse
  <2>1. PICK p \in Packet : Sends(p) /\ Effect(p)
    BY <1>6, ChunkResponseStep
  <2>2. Agrees
    BY <1>6, <2>1 DEF ChunkResponse, Fetched, Effect
  <2>3. CASE p.chunk.last
    <3>1. asked # None /\ Delivered /\ D'.logical = Append(D.logical, asked)
      BY <2>1, <2>3 DEF Sends, Effect
    <3> QED BY <2>2, <3>1, DeliveredAgrees
  <2>4. CASE ~p.chunk.last
    <3>1. D'.logical = D.logical /\ UNCHANGED <<asked, fetch, done>>
      BY <2>1, <2>4 DEF Sends, Effect
    <3>2. C' = C
      BY <3>1 DEF C
    <3> QED BY <2>2, <3>1, <3>2, SameChains
  <2> QED BY <2>3, <2>4
<1>7. CASE Restart
  BY <1>7, RestartStep
<1>8. CASE UNCHANGED vars
  <2>1. C' = C /\ UNCHANGED <<lost, restarts, fetch, done>>
    BY <1>8 DEF vars, C, D
  <2> QED BY <2>1, SameChains DEF Fetched
<1> QED BY <1>2, <1>3, <1>4, <1>5, <1>6, <1>7, <1>8 DEF Next, Over

-----------------------------------------------------------------------------
(* The round trips.                                                        *)

\* A sum over a sequence grows by what its new element weighs.
Weighed(w, s) == Stats!Total([k \in DOMAIN s |-> w[s[k]]])

LEMMA WeighedAppend ==
    ASSUME NEW X, NEW w \in [X -> Int], NEW s \in Seq(X), NEW x \in X
    PROVE  Weighed(w, s) \in Int /\ Weighed(w, Append(s, x)) = Weighed(w, s) + w[x]
<1> DEFINE Ns(t) == [k \in DOMAIN t |-> w[t[k]]]
<1>1. Ns(s) \in Seq(Int) /\ w[x] \in Int /\ Len(Ns(s)) = Len(s) /\ Len(s) \in Nat
  OBVIOUS
<1>2. Ns(Append(s, x)) = Append(Ns(s), w[x])
  <2>1. DOMAIN Append(s, x) = 1 .. Len(s) + 1 /\ DOMAIN s = 1 .. Len(s)
    OBVIOUS
  <2>2. DOMAIN Append(Ns(s), w[x]) = 1 .. Len(s) + 1
    BY <1>1, <2>1
  <2>3. ASSUME NEW k \in 1 .. Len(s) + 1 PROVE w[Append(s, x)[k]] = Append(Ns(s), w[x])[k]
    <3>1. CASE k = Len(s) + 1
      BY <1>1, <3>1
    <3>2. CASE k # Len(s) + 1
      <4>1. k \in 1 .. Len(s) /\ Append(s, x)[k] = s[k] /\ Append(Ns(s), w[x])[k] = Ns(s)[k]
        BY <1>1, <3>2
      <4> QED BY <2>1, <4>1
    <3> QED BY <3>1, <3>2
  <2>4. Append(Ns(s), w[x]) = [k \in 1 .. Len(s) + 1 |-> Append(Ns(s), w[x])[k]]
    BY <1>1, <2>2
  <2> QED BY <2>1, <2>3, <2>4
<1> HIDE DEF Ns
<1>3. Stats!Total(Ns(s)) \in Int /\ Stats!Total(Append(Ns(s), w[x])) = Stats!Total(Ns(s)) + w[x]
  BY <1>1, TotalAppends
<1> QED BY <1>2, <1>3 DEF Weighed, Ns

LEMMA WeighedNone == ASSUME NEW w PROVE Weighed(w, <<>>) = 0
<1>1. [k \in DOMAIN <<>> |-> w[<<>>[k]]] = <<>> /\ <<>> \in Seq(Int) /\ Len(<<>>) = 0
  OBVIOUS
<1>2. PICK f : FoldsTo(f, 0, <<>>, TotalStep) /\ Stats!Total(<<>>) = f[Len(<<>>)]
  BY <1>1, TotalFolds
<1>3. Stats!Total(<<>>) = 0
  BY <1>1, <1>2, FoldShape
<1> QED BY <1>1, <1>3 DEF Weighed

LEMMA RoundtripsType ==
    ASSUME NEW b \in Int
    PROVE  Stats!ChunkRoundtrips(b, Dts) \in Int
<1>1. Dts \in Int /\ Dts - 12 > 0 /\ Dts - 16 \in Int
  BY ConversationAssumption
<1>2. (b - (Dts - 16) + (Dts - 12) - 1) \div (Dts - 12) \in Int
  <2> DEFINE r == Dts - 12
             a == b - (Dts - 16) + (Dts - 12) - 1
  <2>1. r \in Int /\ r > 0 /\ a \in Int
    BY <1>1
  <2> HIDE DEF r, a
  <2>2. a \div r \in Int
    BY <2>1
  <2> QED BY <2>2 DEF r, a
<1>3. 1 + (b - (Dts - 16) + (Dts - 12) - 1) \div (Dts - 12) \in Int
  BY <1>2
<1> QED BY <1>3 DEF Stats!ChunkRoundtrips, Stats!ChunkFirstHeader, Stats!ChunkHeader

Cost == [p \in Packet |-> IF p.msg.name \notin Stats!ChunkTypes
                          THEN Stats!ChunkRoundtrips(p.msg.size, Dts) ELSE 0]
IsGet == [p \in Packet |-> IF p.msg.name = "CHUNK_GET" THEN 1 ELSE 0]
Trips == [r \in ClosedSequence |-> IF r.complete THEN Stats!ChunkRoundtrips(r.bytes, Dts) ELSE 0]

LEMMA WeightTypes == Cost \in [Packet -> Int] /\ IsGet \in [Packet -> Int]
                     /\ Trips \in [ClosedSequence -> Int]
<1>1. ASSUME NEW p \in Packet PROVE Stats!ChunkRoundtrips(p.msg.size, Dts) \in Int
  BY RoundtripsType, p.msg.size \in Int DEF Packet, Sent, Messages
<1>2. ASSUME NEW r \in ClosedSequence PROVE Stats!ChunkRoundtrips(r.bytes, Dts) \in Int
  BY RoundtripsType, r.bytes \in Int DEF ClosedSequence
<1> QED BY <1>1, <1>2 DEF Cost, IsGet, Trips

LEMMA SumsAre ==
    /\ \A s \in Seq(Packet) : Unchunked(s) = Weighed(Cost, s) /\ Gets(s) = Weighed(IsGet, s)
    /\ \A s \in Seq(ClosedSequence) : Predicted(s) = Weighed(Trips, s)
<1>1. ASSUME NEW s \in Seq(Packet)
      PROVE  Unchunked(s) = Weighed(Cost, s) /\ Gets(s) = Weighed(IsGet, s)
  <2>1. \A k \in DOMAIN s : s[k] \in Packet /\ Stats!Parsed(s[k])
    <3>1. \A k \in DOMAIN s : s[k] \in Packet
      OBVIOUS
    <3>2. \A p \in Packet : Stats!Parsed(p)
      BY DEF Packet, Stats!Parsed
    <3> QED BY <3>1, <3>2
  <2>2. \A k \in DOMAIN s :
          (IF Stats!Parsed(s[k]) /\ s[k].msg.name \notin Stats!ChunkTypes
           THEN Stats!ChunkRoundtrips(s[k].msg.size, Dts) ELSE 0) = Cost[s[k]]
    BY <2>1 DEF Cost
  <2>3. \A k \in DOMAIN s :
          (IF Stats!Parsed(s[k]) /\ s[k].msg.name = "CHUNK_GET" THEN 1 ELSE 0) = IsGet[s[k]]
    BY <2>1 DEF IsGet
  <2>4. Unchunked(s) = Weighed(Cost, s)
    BY <2>2 DEF Unchunked, Weighed, Stats!SumWhere, Stats!SumOf
  <2>5. Gets(s) = Weighed(IsGet, s)
    BY <2>3 DEF Gets, Stats!Count, Weighed, Stats!SumWhere, Stats!SumOf
  <2> QED BY <2>4, <2>5
<1>2. ASSUME NEW s \in Seq(ClosedSequence) PROVE Predicted(s) = Weighed(Trips, s)
  <2>1. \A k \in DOMAIN s :
          (IF s[k].complete THEN Stats!ChunkRoundtrips(s[k].bytes, Dts) ELSE 0) = Trips[s[k]]
    BY DEF Trips
  <2> QED BY <2>1 DEF Predicted, Weighed, Stats!SumWhere, Stats!SumOf
<1> QED BY <1>1, <1>2

LEMMA SumsGrow ==
    ASSUME NEW s \in Seq(Packet), NEW p \in Packet
    PROVE  /\ Unchunked(Append(s, p)) = Unchunked(s) + Cost[p] /\ Unchunked(s) \in Int
           /\ Gets(Append(s, p)) = Gets(s) + IsGet[p] /\ Gets(s) \in Int
<1>1. Append(s, p) \in Seq(Packet)
  OBVIOUS
<1>2. Weighed(Cost, s) \in Int /\ Weighed(Cost, Append(s, p)) = Weighed(Cost, s) + Cost[p]
  BY WeightTypes, WeighedAppend
<1>3. Weighed(IsGet, s) \in Int /\ Weighed(IsGet, Append(s, p)) = Weighed(IsGet, s) + IsGet[p]
  BY WeightTypes, WeighedAppend
<1> QED BY <1>1, <1>2, <1>3, SumsAre

LEMMA PredictedGrows ==
    ASSUME NEW s \in Seq(ClosedSequence), NEW r \in ClosedSequence
    PROVE  Predicted(s) \in Int /\ Predicted(Append(s, r)) = Predicted(s) + Trips[r]
<1>1. Append(s, r) \in Seq(ClosedSequence)
  OBVIOUS
<1>2. Weighed(Trips, s) \in Int /\ Weighed(Trips, Append(s, r)) = Weighed(Trips, s) + Trips[r]
  BY WeightTypes, WeighedAppend
<1> QED BY <1>1, <1>2, SumsAre

\* A chunked response takes one round trip for each of its chunks.
LEMMA TripsAre ==
    ASSUME NEW q \in Nat, NEW n \in Nat, n >= 1, n <= Dts - 12,
           NEW b \in Int, b > Dts, b = (Dts - 16) + q * (Dts - 12) + n
    PROVE  Stats!ChunkRoundtrips(b, Dts) = q + 2
<1> DEFINE r == Dts - 12
<1>1. r \in Nat /\ r > 0 /\ Dts \in Nat /\ n <= r
  BY ConversationAssumption
<1>2. b - (Dts - 16) + (Dts - 12) - 1 = (q + 1) * r + (n - 1)
  <2> DEFINE x == q * r
             y == (q + 1) * r
  <2>1. x \in Int /\ y = x + r
    BY <1>1
  <2>2. b = (Dts - 16) + x + n
    OBVIOUS
  <2>3. r = Dts - 12
    OBVIOUS
  <2> HIDE DEF x, y, r
  <2>4. b - (Dts - 16) + (Dts - 12) - 1 = y + (n - 1)
    BY <1>1, <2>1, <2>2, <2>3
  <2> QED BY <2>4 DEF y
<1>3. ((q + 1) * r + (n - 1)) \div r = q + 1
  <2> DEFINE k == q + 1
             m == n - 1
  <2>1. k \in Nat /\ m \in Nat /\ m < r
    BY <1>1
  <2> HIDE DEF k, m, r
  <2>2. (k * r + m) \div r = k
    BY <1>1, <2>1
  <2> QED BY <2>2 DEF k, m
<1>4. ~(b <= Dts) /\ ~(b <= Dts - 16)
  BY <1>1
<1>5. Stats!ChunkRoundtrips(b, Dts) = 1 + (b - (Dts - 16) + (Dts - 12) - 1) \div (Dts - 12)
  BY <1>4 DEF Stats!ChunkRoundtrips, Stats!ChunkFirstHeader, Stats!ChunkHeader
<1>6. (b - (Dts - 16) + (Dts - 12) - 1) \div (Dts - 12) = q + 1
  BY <1>2, <1>3
<1> QED BY <1>5, <1>6

LEMMA PredictedType ==
    ASSUME NEW s \in Seq(ClosedSequence)
    PROVE  Predicted(s) \in Int
<1>1. Predicted(s) = Weighed(Trips, s)
  BY SumsAre
<1>2. CASE s = <<>>
  BY <1>1, <1>2, WeighedNone
<1>3. CASE s # <<>>
  BY <1>1, <1>3, WeighedAppend, WeightTypes, s[1] \in ClosedSequence
<1> QED BY <1>2, <1>3

\* The last chunk leaves nothing behind.
LEMMA LastFits ==
    ASSUME Typed, Owed, ChunkResponse, chunks.seq # 0, NEW p \in Packet, Sends(p), p.chunk.last
    PROVE  asked.size - chunks.at <= Dts - 12
<1>1. asked.size \in Int /\ chunks.at \in Nat /\ Dts \in Nat /\ chunks \in Chunking
  BY ChunkTypes, ConversationAssumption
<1>2. chunks' = None
  BY DEF Sends
<1>3. asked.size - chunks.at < Dts - 12 \/ Dts - 12 = asked.size - chunks.at
  <2> SUFFICES ASSUME ~(asked.size - chunks.at < Dts - 12), Dts - 12 # asked.size - chunks.at
               PROVE  FALSE
    OBVIOUS
  <2>1. chunks' = [handle |-> chunks.handle, seq |-> chunks.seq + 1,
                   at |-> chunks.at + (Dts - 12), got |-> FALSE]
    BY DEF ChunkResponse
  <2>2. /\ chunks.handle \in 0 .. 255 /\ chunks.seq + 1 \in Nat
        /\ chunks.at + (Dts - 12) \in Nat
    BY <1>1, ConversationAssumption DEF Chunking
  <2>3. [handle |-> chunks.handle, seq |-> chunks.seq + 1,
         at |-> chunks.at + (Dts - 12), got |-> FALSE] \in Chunking
    BY <2>2 DEF Chunking
  <2> QED BY <1>2, <2>1, <2>3, NoneAssumption
<1> QED BY <1>1, <1>3

\* A small message that is none of the chunks'.
LEMMA SmallTallies ==
    ASSUME Typed, NEW m \in Sent, Adds(m), Tallies, m.size <= Dts,
           m.name \notin Stats!ChunkTypes
    PROVE  Unchunked(packets') = 0 /\ Gets(packets') = Gets(packets)
<1> DEFINE p == Plain(m)
<1>1. p \in Packet /\ p.msg = m
  BY PlainIs DEF Stats!ChunkTypes
<1>2. packets \in Seq(Packet) /\ packets' = Append(packets, p)
  BY DEF Typed, Adds
<1> HIDE DEF p
<1>3. Cost[p] = 0
  BY <1>1 DEF Cost, Stats!ChunkRoundtrips
<1>4. IsGet[p] = 0
  BY <1>1 DEF IsGet, Stats!ChunkTypes
<1>5. /\ Unchunked(packets') = Unchunked(packets) + 0 /\ Gets(packets') = Gets(packets) + 0
      /\ Unchunked(packets) \in Int /\ Gets(packets) \in Int
  BY <1>1, <1>2, <1>3, <1>4, SumsGrow
<1>6. Unchunked(packets) = 0
  BY DEF Tallies
<1> QED BY <1>5, <1>6

LEMMA ChunkTallies ==
    ASSUME Typed, NEW p \in Packet, p.msg.name \in {"CHUNK_GET", "CHUNK_RESPONSE"},
           packets' = Append(packets, p), Tallies
    PROVE  /\ Unchunked(packets') = 0
           /\ Gets(packets') = Gets(packets) + (IF p.msg.name = "CHUNK_GET" THEN 1 ELSE 0)
<1>1. packets \in Seq(Packet)
  BY DEF Typed
<1>2. Cost[p] = 0 /\ IsGet[p] = IF p.msg.name = "CHUNK_GET" THEN 1 ELSE 0
  BY DEF Cost, IsGet, Stats!ChunkTypes
<1>3. /\ Unchunked(packets') = Unchunked(packets) + Cost[p] /\ Unchunked(packets) \in Int
      /\ Gets(packets') = Gets(packets) + IsGet[p] /\ Gets(packets) \in Int
  BY <1>1, SumsGrow
<1>4. Unchunked(packets) = 0
  BY DEF Tallies
<1> QED BY <1>2, <1>3, <1>4

LEMMA CountedStep ==
    ASSUME Sound, Counted, [Next]_vars
    PROVE  Counted'
<1> USE DEF Sound
<1> SUFFICES ASSUME lost' = 0, restarts' = 0 PROVE Tallies'
  BY DEF Counted
<1>1. ASSUME NEW m \in Sent, Adds(m), m.size <= Dts, m.name \notin Stats!ChunkTypes,
             UNCHANGED restarts, chunks = None,
             chunks' = None \/ (chunks' # None /\ chunks'.seq = 0 /\ chunks'.got = FALSE)
      PROVE  Tallies'
  <2>1. Tallies
    BY <1>1 DEF Counted, Adds
  <2>2. Unchunked(packets') = 0 /\ Gets(packets') = Gets(packets)
    BY <1>1, <2>1, SmallTallies
  <2>3. Predicted(D'.sequences) = Predicted(D.sequences) /\ Predicted(D.sequences) \in Int
    <3>1. D.sequences \in Seq(ClosedSequence)
      BY WalkIs DEF Reassembly
    <3>2. Predicted(D.sequences) \in Int
      BY <3>1, PredictedType
    <3> QED BY <1>1, <3>2 DEF Adds
  <2>4. Gets(packets) = Predicted(D.sequences) + 0
    BY <1>1, <2>1 DEF Tallies
  <2>5. Gets(packets') = Predicted(D'.sequences) + 0
    BY <2>2, <2>3, <2>4
  <2>6. (IF chunks' = None THEN 0 ELSE chunks'.seq + (IF chunks'.got THEN 1 ELSE 0)) = 0
    BY <1>1
  <2> QED BY <2>2, <2>5, <2>6 DEF Tallies
<1>2. Dts \in Nat /\ Dts >= 42
  BY ConversationAssumption
<1>3. CASE GetCertificate
  <2>1. PICK m \in Sent : m.name = "GET_CERTIFICATE" /\ m.size = 8 /\ Adds(m)
    BY <1>3, GetCertificateStep
  <2>2. m.size <= Dts /\ m.name \notin Stats!ChunkTypes
    BY <1>2, <2>1 DEF Stats!ChunkTypes
  <2>3. UNCHANGED restarts /\ chunks = None /\ chunks' = None
    BY <1>3 DEF GetCertificate, Idle
  <2> QED BY <1>1, <2>1, <2>2, <2>3
<1>4. CASE Challenge
  <2>1. PICK m \in Sent : m.name = "CHALLENGE" /\ m.size = 36 /\ Adds(m)
    BY <1>4, ChallengeStep
  <2>2. m.size <= Dts /\ m.name \notin Stats!ChunkTypes
    BY <1>2, <2>1 DEF Stats!ChunkTypes
  <2>3. UNCHANGED restarts /\ chunks = None /\ chunks' = None
    BY <1>4 DEF Challenge, Idle
  <2> QED BY <1>1, <2>1, <2>2, <2>3
<1>5. CASE Respond
  <2>1. UNCHANGED restarts /\ chunks = None /\ asked # None
    BY <1>5 DEF Respond
  <2>2. CASE asked.size <= Dts
    <3>1. Adds(asked) /\ asked \in Sent
      BY <1>5, <2>2, RespondStep
    <3>2. asked.name \notin Stats!ChunkTypes
      BY <2>1 DEF Owed, Stats!ChunkTypes
    <3>3. chunks' = None
      BY <1>5, <2>1, <2>2 DEF Respond
    <3> QED BY <1>1, <2>1, <2>2, <3>1, <3>2, <3>3
  <2>3. CASE ~(asked.size <= Dts)
    <3>1. PICK m \in Sent : m.name = "ERROR" /\ m.size = 5 /\ Adds(m)
      BY <1>5, <2>3, RespondStep
    <3>2. m.size <= Dts /\ m.name \notin Stats!ChunkTypes
      BY <1>2, <3>1 DEF Stats!ChunkTypes
    <3>3. chunks' = [handle |-> handle, seq |-> 0, at |-> 0, got |-> FALSE]
      BY <1>5, <2>3 DEF Respond
    <3>4. chunks' = None \/ (chunks' # None /\ chunks'.seq = 0 /\ chunks'.got = FALSE)
      BY <3>3
    <3> QED BY <1>1, <2>1, <3>1, <3>2, <3>4
  <2> QED BY <2>2, <2>3
<1>6. CASE ChunkGet
  <2>1. PICK m \in Sent : m.name = "CHUNK_GET" /\ m.size = 8 /\ Adds(m)
    BY <1>6, ChunkGetStep
  <2>2. /\ chunks # None /\ ~chunks.got /\ UNCHANGED restarts
        /\ chunks' = [chunks EXCEPT !.got = TRUE]
    BY <1>6 DEF ChunkGet
  <2>3. /\ chunks.seq \in Nat /\ chunks'.seq = chunks.seq /\ chunks'.got = TRUE /\ chunks' # None
    <3>1. chunks \in Chunking
      BY <2>2 DEF Typed
    <3>2. chunks' \in Chunking /\ chunks'.seq = chunks.seq /\ chunks'.got = TRUE
          /\ chunks.seq \in Nat
      BY <2>2, <3>1 DEF Chunking
    <3> QED BY <3>2, NoneAssumption
  <2>4. Tallies
    BY <2>1, <2>2 DEF Counted, Adds
  <2>5. Plain(m) \in Packet /\ Plain(m).msg = m
    BY <2>1, PlainIs
  <2>6. Unchunked(packets') = 0 /\ Gets(packets') = Gets(packets) + 1
    <3> DEFINE p == Plain(m)
    <3>1. p \in Packet /\ p.msg.name = "CHUNK_GET" /\ packets' = Append(packets, p)
      BY <2>1, <2>5 DEF Adds
    <3> HIDE DEF p
    <3> QED BY <2>4, <3>1, ChunkTallies
  <2>7. D'.sequences = D.sequences /\ Predicted(D.sequences) \in Int
    <3>1. D.sequences \in Seq(ClosedSequence)
      BY WalkIs DEF Reassembly
    <3> QED BY <2>1, <3>1, PredictedType DEF Adds
  <2>8. Gets(packets) = Predicted(D.sequences) + (chunks.seq + 0)
    BY <2>2, <2>4 DEF Tallies
  <2>9. Gets(packets') = Predicted(D'.sequences) + (chunks'.seq + 1)
    BY <2>3, <2>6, <2>7, <2>8
  <2>10. (IF chunks' = None THEN 0 ELSE chunks'.seq + (IF chunks'.got THEN 1 ELSE 0))
           = chunks'.seq + 1
    BY <2>3
  <2> QED BY <2>6, <2>9, <2>10 DEF Tallies
<1>7. CASE ChunkResponse
  <2>1. PICK p \in Packet : Sends(p) /\ Effect(p)
    BY <1>7, ChunkResponseStep
  <2>2. chunks # None /\ chunks.got /\ UNCHANGED restarts
    BY <1>7 DEF ChunkResponse
  <2>3. Tallies
    BY <2>1, <2>2 DEF Counted, Effect
  <2>4. /\ chunks.seq \in Nat /\ chunks.at \in Nat /\ asked.size \in Int /\ p.chunk.n \in Int
    BY <2>1, ChunkTypes
  <2>5. D.sequences \in Seq(ClosedSequence)
    BY WalkIs DEF Reassembly
  <2>6. Unchunked(packets') = 0 /\ Gets(packets') = Gets(packets) + 0
    <3>1. packets' = Append(packets, p) /\ p.msg.name = "CHUNK_RESPONSE"
      BY <2>1 DEF Sends, Effect
    <3> QED BY <2>3, <3>1, ChunkTallies
  <2>7. Gets(packets) = Predicted(D.sequences) + (chunks.seq + 1) /\ Predicted(D.sequences) \in Int
    BY <2>2, <2>3, <2>5, PredictedType DEF Tallies
  <2>8. CASE ~p.chunk.last
    <3>1. chunks' = [handle |-> chunks.handle, seq |-> chunks.seq + 1,
                     at |-> chunks.at + p.chunk.n, got |-> FALSE]
      BY <2>1, <2>8 DEF Sends
    <3>2. chunks' # None
      <4>1. chunks.handle \in 0 .. 255 /\ chunks.seq + 1 \in Nat
            /\ chunks.at + p.chunk.n \in Nat
        BY <2>1, <2>4, ChunkTypes, <2>8 DEF Sends
      <4>2. [handle |-> chunks.handle, seq |-> chunks.seq + 1,
             at |-> chunks.at + p.chunk.n, got |-> FALSE] \in Chunking
        BY <4>1 DEF Chunking
      <4> QED BY <3>1, <4>2, NoneAssumption
    <3>3. Predicted(D'.sequences) = Predicted(D.sequences)
      <4>1. CASE D'.sequences = D.sequences
        BY <4>1
      <4>2. ASSUME NEW r \in ClosedSequence, ~r.complete, D'.sequences = Append(D.sequences, r)
            PROVE  Predicted(D'.sequences) = Predicted(D.sequences)
        <5>1. Trips[r] = 0
          BY <4>2 DEF Trips
        <5>2. Predicted(Append(D.sequences, r)) = Predicted(D.sequences) + 0
          BY <2>5, <5>1, PredictedGrows
        <5> QED BY <2>7, <4>2, <5>2
      <4> QED BY <2>1, <2>8, <4>1, <4>2 DEF Effect
    <3>4. (IF chunks' = None THEN 0 ELSE chunks'.seq + (IF chunks'.got THEN 1 ELSE 0))
            = chunks.seq + 1
      BY <2>4, <3>1, <3>2
    <3>5. Gets(packets') = Predicted(D'.sequences) + (chunks.seq + 1)
      BY <2>4, <2>6, <2>7, <3>3
    <3> QED BY <2>6, <3>4, <3>5 DEF Tallies
  <2>9. CASE p.chunk.last
    <3>1. chunks' = None /\ chunks.seq # 0 /\ p.chunk.n >= 1 /\ p.chunk.n = asked.size - chunks.at
      BY <2>1, <2>9 DEF Sends
    <3>2. PICK r \in ClosedSequence : r.complete /\ r.bytes = asked.size
                                      /\ D'.sequences = Append(D.sequences, r)
      BY <2>1, <2>9 DEF Effect
    <3>3. asked.size > Dts /\ chunks.at = (Dts - 16) + (chunks.seq - 1) * (Dts - 12)
      BY <2>2, <3>1 DEF Owed
    <3>4. p.chunk.n <= Dts - 12
      <4>1. asked.size - chunks.at <= Dts - 12
        BY <1>7, <2>1, <2>9, <3>1, LastFits
      <4> QED BY <3>1, <4>1
    <3>5. Stats!ChunkRoundtrips(asked.size, Dts) = chunks.seq + 1
      <4> DEFINE q == chunks.seq - 1
                 n == p.chunk.n
                 b == asked.size
                 a == chunks.at
      <4>1. q \in Nat /\ n \in Nat /\ b \in Int /\ n >= 1 /\ n <= Dts - 12 /\ b > Dts
        BY <2>4, <3>1, <3>3, <3>4
      <4>2. a = (Dts - 16) + q * (Dts - 12) /\ n = b - a /\ a \in Nat
        BY <2>4, <3>1, <3>3
      <4> HIDE DEF q, n, b, a
      <4>3. b = (Dts - 16) + q * (Dts - 12) + n
        <5> DEFINE z == (Dts - 16) + q * (Dts - 12)
        <5>1. a = z
          BY <4>2
        <5> HIDE DEF z
        <5>2. b = z + n
          BY <4>1, <4>2, <5>1
        <5> QED BY <5>2 DEF z
      <4>4. Stats!ChunkRoundtrips(b, Dts) = q + 2
        BY <4>1, <4>3, TripsAre
      <4>5. q + 2 = chunks.seq + 1
        BY <2>4 DEF q
      <4> QED BY <4>4, <4>5 DEF b
    <3>6. Trips[r] = chunks.seq + 1
      BY <3>2, <3>5 DEF Trips
    <3>7. Predicted(D'.sequences) = Predicted(D.sequences) + (chunks.seq + 1)
      BY <2>5, <3>2, <3>6, PredictedGrows
    <3>8. Gets(packets') = Predicted(D'.sequences) + 0
      BY <2>4, <2>6, <2>7, <3>7
    <3> QED BY <2>6, <3>1, <3>8 DEF Tallies
  <2> QED BY <2>8, <2>9
<1>8. CASE Restart
  BY <1>8, RestartStep
<1>9. CASE UNCHANGED vars
  BY <1>9 DEF vars, Counted, Tallies, D
<1> QED BY <1>3, <1>4, <1>5, <1>6, <1>7, <1>8, <1>9 DEF Next, Over

-----------------------------------------------------------------------------
(* The theorems.                                                           *)

LEMMA Initially == ASSUME Init PROVE IInv
<1> DEFINE p == Capabilities
           e == <<>>
<1>1. Sound /\ D = Stats!Dechunk1(Stats!EmptyDechunk, Capabilities)
  BY Begins
<1>2. /\ exchanges = 0 /\ packets = <<p>> /\ done = <<>> /\ fetch.at = 0 /\ chunks = None
  BY DEF Init, NotFetching
<1>3. p \in Packet /\ p.msg \in Sent /\ p.msg.name = "CAPABILITIES" /\ p.msg.size = 20
  BY <1>2, CapabilitiesIs
<1>4. /\ Stats!EmptyDechunk.logical = <<>> /\ Stats!EmptyDechunk.sequences = <<>>
      /\ Stats!EmptyDechunk \in Reassembly
  BY EmptyType DEF Stats!EmptyDechunk
<1> HIDE DEF p
<1>5. D.logical = Append(<<>>, p.msg) /\ D.sequences = <<>>
  BY <1>1, <1>3, <1>4, MessageIs DEF p
<1>6. Agrees
  <2>1. e \in Seq(Sent) /\ Len(e) = 0
    OBVIOUS
  <2>2. Stats!Walked(e) = EmptyWalk
    <3>1. PICK f : FoldsTo(f, EmptyWalk, e, WalkStep) /\ Stats!Walked(e) = f[Len(e)]
      BY <2>1, WalkFolds
    <3> HIDE DEF e
    <3> QED BY <2>1, <3>1, FoldShape
  <2>3. EmptyWalk \in Walk
    BY DEF EmptyWalk, Walk
  <2>4. Stats!Walked(Append(e, p.msg)) = EmptyWalk
    <3> HIDE DEF e
    <3> QED BY <1>3, <2>1, <2>2, <2>3, WalkAppends, Certificate1Is
  <2>5. C = EmptyWalk
    BY <1>5, <2>4 DEF C
  <2>6. C.chains = e /\ C.open = Stats!NoChain
    BY <2>5 DEF EmptyWalk
  <2>7. Closed = <<>>
    <3>1. e \in Seq(SettledChain)
      OBVIOUS
    <3>2. PICK f : FoldsTo(f, NoChains, e, ClosingStep) /\ Stats!ClosingOf(e) = f[Len(e)]
      BY <3>1, ClosingFolds
    <3> HIDE DEF e
    <3>3. Stats!ClosingOf(e) = NoChains
      BY <2>1, <3>2, FoldShape
    <3> QED BY <2>6, <3>3 DEF Closed, NoChains
  <2> QED BY <1>2, <2>6, <2>7 DEF Agrees
<1>7. Tallies
  <2>1. e \in Seq(Packet) /\ packets = Append(e, p)
    BY <1>2, <1>3
  <2>2. Unchunked(e) = 0 /\ Gets(e) = 0
    <3>1. Weighed(Cost, e) = 0 /\ Weighed(IsGet, e) = 0
      BY WeighedNone
    <3> HIDE DEF e
    <3> QED BY <2>1, <3>1, SumsAre
  <2>3. Cost[p] = 0 /\ IsGet[p] = 0
    BY <1>3, ConversationAssumption DEF Cost, IsGet, Stats!ChunkRoundtrips
  <2>4. Unchunked(packets) = 0 /\ Gets(packets) = 0
    <3> HIDE DEF e
    <3> QED BY <1>3, <2>1, <2>2, <2>3, SumsGrow
  <2>5. Predicted(D.sequences) = 0
    <3>1. Weighed(Trips, e) = 0 /\ e \in Seq(ClosedSequence)
      BY WeighedNone
    <3> QED BY <1>5, <3>1, SumsAre
  <2> QED BY <1>2, <2>4, <2>5 DEF Tallies
<1> QED BY <1>1, <1>6, <1>7 DEF IInv, Sound, Fetched, Counted

LEMMA Unchanged == ASSUME Sound, UNCHANGED vars PROVE Sound'
BY DEF vars, Sound, Typed, Owed, Declares, FoundWhole, OpenWhole, InStep, Apart, Trusted, Whole,
       Straight, Current, Since, D

\* The packets of a capture keep to their forms, the reassembly to the response
\* being sent, the walk to the fetch, and the round trips to the chunks counted.
THEOREM Inductive == Spec => []IInv
<1>1. Init => IInv
  BY Initially
<1>2. IInv /\ [Next]_vars => IInv'
  <2> SUFFICES ASSUME IInv, [Next]_vars PROVE IInv'
    OBVIOUS
  <2>1. Sound /\ Fetched /\ Counted
    BY DEF IInv, Sound
  <2>2. Sound'
    BY <2>1, GetCertificateStep, ChallengeStep, RespondStep, ChunkGetStep, ChunkResponseStep,
       RestartStep, Unchanged DEF Next, Over
  <2>3. Fetched' /\ Counted'
    BY <2>1, FetchedStep, CountedStep
  <2> QED BY <2>2, <2>3 DEF IInv, Sound
<1> QED BY <1>1, <1>2, PTL DEF Spec

\* A message that dechunk says is complete was sent, all of it, in its order: no
\* packet a capture missed or holds short makes it join two responses, as long as
\* the handles between cannot have come round.
THEOREM Recovered == Spec => []RecoveredIsWhole
<1>1. IInv => RecoveredIsWhole
  <2> SUFFICES ASSUME IInv, Trusted,
                      NEW i \in DOMAIN Stats!Dechunk(packets).sequences,
                      Stats!Dechunk(packets).sequences[i].complete
               PROVE  Whole(Stats!Dechunk(packets).sequences[i])
    BY DEF RecoveredIsWhole, Trusted, Whole, Straight
  <2>1. D \in Reassembly /\ FoundWhole
    BY WalkIs DEF IInv
  <2> DEFINE found == Stats!CloseOpen(D).sequences
             s == D.sequences
  <2>2. Stats!Dechunk(packets).sequences = found
    BY DEF Stats!Dechunk, D
  <2>3. s \in Seq(ClosedSequence)
    BY <2>1 DEF Reassembly
  <2>4. \/ found = s
        \/ \E r \in ClosedSequence : ~r.complete /\ found = Append(s, r)
    BY <2>1, CloseOpenIs
  <2>5. \A k \in DOMAIN s : s[k].complete => Whole(s[k])
    BY <2>1 DEF FoundWhole
  <2>6. i \in DOMAIN found /\ found[i].complete
    BY <2>2
  <2> HIDE DEF found, s
  <2>7. Whole(found[i])
    <3>1. CASE found = s
      BY <2>5, <2>6, <3>1
    <3>2. ASSUME NEW r \in ClosedSequence, ~r.complete, found = Append(s, r)
          PROVE  Whole(found[i])
      <4>1. i \in DOMAIN s /\ found[i] = s[i]
        BY <2>3, <2>6, <3>2
      <4> QED BY <2>5, <2>6, <4>1
    <3> QED BY <2>4, <3>1, <3>2
  <2> QED BY <2>2, <2>7
<1> QED BY <1>1, Inductive, PTL

\* A chain that certificates() says closes has its slot's length, whatever the
\* capture missed; and where it missed nothing, those that close are those that
\* were fetched, in their order.
THEOREM ChainsFetched == Spec => []ChainsAreThoseFetched
<1>1. IInv => ChainsAreThoseFetched
  <2> SUFFICES ASSUME IInv PROVE ChainsAreThoseFetched
    OBVIOUS
  <2> DEFINE closing == Stats!Closing(packets)
             listed == Stats!Certificates(D.logical)
             rest == [Stats!SettleChain(C.open) EXCEPT !.closes = FALSE]
  <2>1. D \in Reassembly /\ C \in Walk /\ Closed \in Chains
    BY WalkIs DEF IInv
  <2>2. closing = Stats!ClosingOf(listed)
    <3>1. Stats!CloseOpen(D).logical = D.logical
      BY <2>1, CloseOpenIs
    <3>2. Stats!Chains(packets) = Stats!Certificates(Stats!CloseOpen(D).logical)
      BY DEF Stats!Chains, Stats!Dechunk, D
    <3> QED BY <3>1, <3>2 DEF Stats!Closing
  <2>3. C.chains \in Seq(SettledChain)
    BY <2>1 DEF Walk
  <2>4. listed = IF C.open = Stats!NoChain THEN C.chains ELSE Append(C.chains, rest)
    BY DEF Stats!Certificates, C
  <2>5. C.open # Stats!NoChain => rest \in SettledChain /\ ~rest.closes
    <3> SUFFICES ASSUME C.open # Stats!NoChain PROVE rest \in SettledChain /\ ~rest.closes
      OBVIOUS
    <3>1. C.open \in OpenChain
      BY <2>1 DEF Walk
    <3>2. rest \in SettledChain /\ Stats!SettleChain(C.open) \in SettledChain
      BY <3>1, SettledType
    <3> DEFINE t == Stats!SettleChain(C.open)
    <3>3. t \in [slot : Slots, bytes : Int, closes : BOOLEAN]
      BY <3>2 DEF SettledChain
    <3> HIDE DEF t
    <3>4. ~[t EXCEPT !.closes = FALSE].closes
      BY <3>3
    <3> QED BY <3>2, <3>4 DEF t
  <2> HIDE DEF closing, listed, rest
  <2>6. closing = Closed
    <3>1. CASE C.open = Stats!NoChain
      BY <2>2, <2>4, <3>1 DEF Closed
    <3>2. CASE C.open # Stats!NoChain
      <4>1. Stats!ClosingOf(Append(C.chains, rest)) = Stats!ClosingOf(C.chains)
        BY <2>3, <2>5, <3>2, ClosingAppends
      <4> QED BY <2>2, <2>4, <3>2, <4>1 DEF Closed
    <3> QED BY <3>1, <3>2
  <2>7. \A i \in DOMAIN closing : closing[i].bytes = ChainBytes[closing[i].slot]
    <3>1. closing \in Seq(GoodChain)
      BY <2>1, <2>6 DEF Chains
    <3>2. \A g \in GoodChain : g.bytes = ChainBytes[g.slot]
      BY DEF GoodChain, SettledChain
    <3>3. \A i \in DOMAIN closing : closing[i] \in GoodChain
      BY <3>1
    <3> QED BY <3>2, <3>3
  <2>8. lost = 0 /\ restarts = 0 => [i \in DOMAIN closing |-> closing[i].slot] = done
    <3> SUFFICES ASSUME lost = 0, restarts = 0
                 PROVE  [i \in DOMAIN closing |-> closing[i].slot] = done
      OBVIOUS
    <3>1. Len(closing) = Len(done) /\ \A i \in DOMAIN done : closing[i].slot = done[i]
      BY <2>6 DEF IInv, Fetched, Agrees
    <3>2. done \in Seq(Slots) /\ closing \in Seq(GoodChain)
      BY <2>1, <2>6 DEF IInv, Typed, Chains
    <3>3. DOMAIN closing = DOMAIN done /\ done = [i \in DOMAIN done |-> done[i]]
      BY <3>1, <3>2
    <3> QED BY <3>1, <3>3
  <2> QED BY <2>7, <2>8 DEF ChainsAreThoseFetched, closing
<1> QED BY <1>1, Inductive, PTL

\* exp04's arithmetic, from the sizes alone, gives the number of CHUNK_GETs in
\* every capture that misses nothing and does not stop inside a chunked response.
THEOREM Roundtrips == Spec => []RoundtripsReproduced
<1>1. IInv => RoundtripsReproduced
  <2> SUFFICES ASSUME IInv, lost = 0, restarts = 0, chunks = None PROVE Stats!Validates(packets)
    BY DEF RoundtripsReproduced
  <2>1. Tallies /\ Typed /\ Declares
    BY DEF IInv, Counted
  <2>2. D \in Reassembly /\ D.sequences \in Seq(ClosedSequence)
    BY <2>1, WalkIs DEF Reassembly
  <2>3. Stats!DataTransferSize(packets) = Dts
    <3> DEFINE caps == {i \in DOMAIN packets :
                          packets[i].form = "spdm" /\ packets[i].msg.name = "CAPABILITIES"}
               i == CHOOSE i \in caps : \A j \in caps : i <= j
    <3>1. 1 \in caps
      <4>1. 1 \in DOMAIN packets /\ packets[1] \in Packet
        BY <2>1 DEF Typed
      <4> QED BY <2>1, <4>1 DEF Declares, Packet
    <3>2. \A j \in caps : j \in Nat /\ 1 <= j
      BY <2>1 DEF Typed
    <3>3. i \in caps /\ \A j \in caps : i <= j
      <4> HIDE DEF caps
      <4> QED BY <3>1, <3>2
    <3>4. i = 1
      <4> HIDE DEF caps, i
      <4>1. i \in Nat /\ i <= 1 /\ 1 <= i
        BY <3>1, <3>2, <3>3
      <4> QED BY <4>1
    <3>5. caps # {}
      BY <3>1
    <3>6. Stats!DataTransferSize(packets)
            = IF caps = {} THEN None
              ELSE IF packets[i].msg.size < 20 THEN None ELSE packets[i].msg.dts
      BY Zenon DEF Stats!DataTransferSize
    <3> HIDE DEF caps, i
    <3> QED BY <2>1, <3>4, <3>5, <3>6 DEF Declares
  <2>4. Gets(packets) = Unchunked(packets) + Predicted(D.sequences)
    BY <2>1, <2>2, PredictedType DEF Tallies
  <2>5. Predicted(Stats!CloseOpen(D).sequences) = Predicted(D.sequences)
    <3>1. CASE Stats!CloseOpen(D).sequences = D.sequences
      BY <3>1
    <3>2. ASSUME NEW r \in ClosedSequence, ~r.complete,
                 Stats!CloseOpen(D).sequences = Append(D.sequences, r)
          PROVE  Predicted(Stats!CloseOpen(D).sequences) = Predicted(D.sequences)
      <4>1. Trips[r] = 0
        BY <3>2 DEF Trips
      <4>2. Predicted(D.sequences) \in Int
            /\ Predicted(Append(D.sequences, r)) = Predicted(D.sequences) + Trips[r]
        BY <2>2, PredictedGrows
      <4> QED BY <3>2, <4>1, <4>2
    <3> QED BY <2>2, <3>1, <3>2, CloseOpenIs
  <2>6. Predicted(Stats!Dechunk(packets).sequences) = Predicted(D.sequences)
    BY <2>5 DEF Stats!Dechunk, D
  <2>7. Dts # None
    BY ConversationAssumption, NoneAssumption
  <2>8. Gets(packets) = Unchunked(packets) + Predicted(Stats!Dechunk(packets).sequences)
    BY <2>4, <2>6
  <2> DEFINE V(dts) ==
               /\ dts # None
               /\ Stats!Count(packets, "CHUNK_GET")
                    = Stats!SumWhere(packets,
                         LAMBDA p : Stats!Parsed(p) /\ p.msg.name \notin Stats!ChunkTypes,
                         LAMBDA p : Stats!ChunkRoundtrips(p.msg.size, dts))
                      + Stats!SumWhere(Stats!Dechunk(packets).sequences, LAMBDA r : r.complete,
                                       LAMBDA r : Stats!ChunkRoundtrips(r.bytes, dts))
  <2>9. V(Dts)
    BY <2>7, <2>8 DEF Gets, Unchunked, Predicted
  <2>10. Stats!Validates(packets) = V(Stats!DataTransferSize(packets))
    BY DEF Stats!Validates
  <2> HIDE DEF V
  <2> QED BY <2>3, <2>9, <2>10
<1> QED BY <1>1, Inductive, PTL
=============================================================================
