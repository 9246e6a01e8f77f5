------------------------- MODULE TamperProxyProofs -------------------------
(* Proofs about the tamper proxy: at most one frame is ever changed, the   *)
(* exit status says so, and the byte changed is the byte asked for, in the *)
(* measurement record as in the signature.                                 *)
EXTENDS TamperProxy, Recursion, SequenceTheorems, TLAPS

-----------------------------------------------------------------------------
(* The measurement record: what is encoded is what the walk reads.         *)

\* Where the fields of an encoded block are.
LEMMA EncodeBlockShape ==
    ASSUME NEW b \in Blocks
    PROVE  /\ EncodeBlock(b) \in Seq(Nat) /\ Len(EncodeBlock(b)) = 7 + b.value
           /\ EncodeBlock(b)[1] = b.index
           /\ EncodeBlock(b)[3] = (3 + b.value) % 256
           /\ EncodeBlock(b)[4] = (3 + b.value) \div 256
<1> DEFINE v == b.value
           ab == <<b.index, b.spec>>
           cd == Le16(3 + v)
           one == <<1>>
           fg == Le16(v)
           pad == Pad(v)
<1>1. b.index \in Nat /\ b.spec \in Nat /\ v \in Nat
  BY DEF Blocks
<1>2. /\ ab \in Seq(Nat) /\ Len(ab) = 2 /\ ab[1] = b.index
      /\ one \in Seq(Nat) /\ Len(one) = 1
  BY <1>1
<1>3. /\ cd \in Seq(Nat) /\ Len(cd) = 2
      /\ cd[1] = (3 + v) % 256 /\ cd[2] = (3 + v) \div 256
      /\ fg \in Seq(Nat) /\ Len(fg) = 2
  <2> HIDE DEF v
  <2> QED BY <1>1 DEF Le16
<1>4. pad \in Seq(Nat) /\ Len(pad) = v
  <2> HIDE DEF v
  <2> QED BY <1>1 DEF Pad
<1>5. EncodeBlock(b) = (((ab \o cd) \o one) \o fg) \o pad
  BY DEF EncodeBlock
<1> HIDE DEF v, ab, cd, one, fg, pad
<1>6. /\ ab \o cd \in Seq(Nat) /\ Joined(ab, cd)
      /\ (ab \o cd) \o one \in Seq(Nat) /\ Joined(ab \o cd, one)
      /\ ((ab \o cd) \o one) \o fg \in Seq(Nat)
      /\ Joined((ab \o cd) \o one, fg)
      /\ (((ab \o cd) \o one) \o fg) \o pad \in Seq(Nat)
      /\ Joined(((ab \o cd) \o one) \o fg, pad)
  <2>1. ab \o cd \in Seq(Nat) /\ Joined(ab, cd)
    BY <1>2, <1>3, Concatenation
  <2>2. (ab \o cd) \o one \in Seq(Nat) /\ Joined(ab \o cd, one)
    BY <1>2, <2>1, Concatenation
  <2>3. ((ab \o cd) \o one) \o fg \in Seq(Nat) /\ Joined((ab \o cd) \o one, fg)
    BY <1>3, <2>2, Concatenation
  <2> QED BY <1>4, <2>1, <2>2, <2>3, Concatenation
<1>7. ASSUME NEW k \in {1, 3, 4} PROVE EncodeBlock(b)[k] = (ab \o cd)[k]
  <2> DEFINE w == ab \o cd
             x == w \o one
             y == x \o fg
             z == y \o pad
  <2>1. /\ Len(w) = 4 /\ Len(x) = 5 /\ Len(y) = 7
        /\ k \in 1 .. Len(w) /\ k \in 1 .. Len(x) /\ k \in 1 .. Len(y)
    BY <1>2, <1>3, <1>6 DEF Joined
  <2>2. x[k] = w[k] /\ y[k] = x[k] /\ z[k] = y[k]
    <3> HIDE DEF w, x, y, z
    <3>1. Joined(w, one) /\ Joined(x, fg) /\ Joined(y, pad)
      BY <1>6 DEF w, x, y
    <3> QED BY <2>1, <3>1 DEF Joined, x, y, z
  <2> QED BY <1>5, <2>2
<1>8. (ab \o cd)[1] = ab[1] /\ (ab \o cd)[3] = cd[1] /\ (ab \o cd)[4] = cd[2]
  <2> DEFINE q == ab \o cd
  <2>1. /\ \A p \in 1 .. 2 : q[p] = ab[p]
        /\ \A p \in 1 .. 2 : q[2 + p] = cd[p]
    BY <1>2, <1>3, <1>6 DEF Joined
  <2> HIDE DEF q
  <2>2. q[1] = ab[1] /\ q[2 + 1] = cd[1] /\ q[2 + 2] = cd[2]
    BY <2>1
  <2>3. 2 + 1 = 3 /\ 2 + 2 = 4
    OBVIOUS
  <2>4. q[3] = cd[1] /\ q[4] = cd[2]
    BY <2>2, <2>3, Zenon
  <2> QED BY <2>2, <2>4 DEF q
<1>9. Len(EncodeBlock(b)) = 7 + v
  BY <1>1, <1>2, <1>3, <1>4, <1>5, <1>6 DEF Joined
<1> QED BY <1>2, <1>3, <1>5, <1>6, <1>7, <1>8, <1>9 DEF v

\* o[k] is where the record's first k blocks end.
Places(bs, o) ==
    /\ o \in [0 .. Len(bs) -> Nat] /\ o[0] = 0
    /\ o[Len(bs)] = Len(EncodeRecord(bs))
    /\ \A k \in 0 .. Len(bs) : o[k] = Len(EncodeRecord(SubSeq(bs, 1, k)))
    /\ \A k \in 1 .. Len(bs) :
         /\ o[k] = o[k - 1] + 7 + bs[k].value /\ o[k] <= Len(EncodeRecord(bs))
         /\ \A p \in 1 .. 7 : EncodeRecord(bs)[o[k - 1] + p] = EncodeBlock(bs[k])[p]

\* Every record has them.
LEMMA RecordPlaces ==
    ASSUME NEW bs \in Seq(Blocks)
    PROVE  EncodeRecord(bs) \in Seq(Nat) /\ \E o : Places(bs, o)
<1> DEFINE n == Len(bs)
           ss == [i \in DOMAIN bs |-> EncodeBlock(bs[i])]
<1>1. /\ ss \in Seq(Seq(Nat)) /\ Len(ss) = n /\ n \in Nat
      /\ \A k \in 1 .. n : /\ bs[k] \in Blocks /\ ss[k] = EncodeBlock(bs[k])
                           /\ Len(ss[k]) = 7 + bs[k].value
  <2>1. \A k \in 1 .. n : /\ bs[k] \in Blocks /\ EncodeBlock(bs[k]) \in Seq(Nat)
                          /\ Len(EncodeBlock(bs[k])) = 7 + bs[k].value
    BY EncodeBlockShape
  <2>2. DOMAIN bs = 1 .. n /\ n \in Nat
    OBVIOUS
  <2>3. ss = [i \in 1 .. n |-> EncodeBlock(bs[i])]
    BY <2>2
  <2> HIDE DEF ss, n
  <2>4. ss \in Seq(Seq(Nat)) /\ Len(ss) = n
    BY <2>1, <2>2, <2>3
  <2> QED BY <2>1, <2>2, <2>3, <2>4
<1>2. PICK f : Runs(ss, f, Nat)
  <2> HIDE DEF ss, n
  <2> QED BY <1>1, RunsExist
<1>3. EncodeRecord(bs) = f[n]
  <2> HIDE DEF ss, n
  <2>1. FlattenSeq(ss) = f[n]
    BY <1>1, <1>2, FlattenIs
  <2> QED BY <2>1 DEF EncodeRecord, ss
<1>4. ASSUME NEW k \in 0 .. n PROVE EncodeRecord(SubSeq(bs, 1, k)) = f[k]
  <2>1. [i \in DOMAIN SubSeq(bs, 1, k) |-> EncodeBlock(SubSeq(bs, 1, k)[i])]
          = SubSeq(ss, 1, k)
    <3>1. /\ SubSeq(bs, 1, k) \in Seq(Blocks) /\ Len(SubSeq(bs, 1, k)) = k
          /\ \A i \in 1 .. k : SubSeq(bs, 1, k)[i] = bs[i]
      OBVIOUS
    <3>2. /\ DOMAIN SubSeq(bs, 1, k) = 1 .. k /\ \A i \in 1 .. k : i \in DOMAIN bs
      BY <3>1
    <3>3. SubSeq(ss, 1, k) = [i \in 1 .. k |-> ss[i]]
      <4> HIDE DEF ss
      <4> QED BY <1>1
    <3>4. \A i \in 1 .. k : ss[i] = EncodeBlock(SubSeq(bs, 1, k)[i])
      BY <3>1, <3>2
    <3> HIDE DEF ss
    <3> QED BY <3>2, <3>3, <3>4
  <2>2. FlattenSeq(SubSeq(ss, 1, k)) = f[k]
    <3> HIDE DEF ss
    <3> QED BY <1>1, <1>2, RunsPrefix
  <2> QED BY <2>1, <2>2 DEF EncodeRecord
<1>5. /\ \A k \in 0 .. n : f[k] \in Seq(Nat) /\ Len(f[k]) \in Nat
      /\ Len(f[0]) = 0
  <2> HIDE DEF ss, n
  <2>1. f \in [0 .. n -> Seq(Nat)] /\ f[0] = <<>>
    BY <1>1, <1>2 DEF Runs
  <2> QED BY <2>1
<1> DEFINE o == [k \in 0 .. n |-> Len(f[k])]
<1>6. ASSUME NEW k \in 1 .. n
      PROVE  /\ o[k] = o[k - 1] + 7 + bs[k].value /\ o[k] <= Len(f[n])
             /\ \A p \in 1 .. 7 : f[n][o[k - 1] + p] = EncodeBlock(bs[k])[p]
  <2>1. o[k] = Len(f[k]) /\ o[k - 1] = Len(f[k - 1]) /\ k - 1 \in 0 .. n
    BY <1>1
  <2> HIDE DEF ss, n, o
  <2>2. Stands(ss, f, k)
    BY <1>1, <1>2, RunsPlace
  <2>3. Len(f[k - 1]) \in Nat /\ bs[k].value \in Nat /\ Len(ss[k]) = 7 + bs[k].value
        /\ ss[k] = EncodeBlock(bs[k])
    BY <1>1, <1>5, <2>1 DEF Blocks
  <2>4. /\ Len(f[k]) = Len(f[k - 1]) + Len(ss[k]) /\ Len(f[k]) <= Len(f[n])
        /\ \A p \in 1 .. Len(ss[k]) : f[n][Len(f[k - 1]) + p] = ss[k][p]
    BY <1>1, <2>2 DEF Stands
  <2>5. \A p \in 1 .. 7 : p \in 1 .. Len(ss[k])
    BY <2>3
  <2>6. o[k] = o[k - 1] + 7 + bs[k].value /\ o[k] <= Len(f[n])
    <3>1. Len(f[k]) = Len(f[k - 1]) + (7 + bs[k].value)
      BY <2>3, <2>4
    <3>2. Len(f[k - 1]) + (7 + bs[k].value) = Len(f[k - 1]) + 7 + bs[k].value
      <4>1. \A x, y \in Nat : x + (7 + y) = x + 7 + y
        OBVIOUS
      <4> QED BY <2>3, <4>1, Zenon
    <3> QED BY <2>1, <2>4, <3>1, <3>2
  <2>7. \A p \in 1 .. 7 : f[n][o[k - 1] + p] = EncodeBlock(bs[k])[p]
    BY <2>1, <2>3, <2>4, <2>5
  <2> QED BY <2>6, <2>7
<1>7. Places(bs, o)
  <2>1. o \in [0 .. n -> Nat] /\ o[0] = 0 /\ o[n] = Len(EncodeRecord(bs))
    BY <1>1, <1>3, <1>5
  <2>2. \A k \in 0 .. n : o[k] = Len(EncodeRecord(SubSeq(bs, 1, k)))
    BY <1>4
  <2> HIDE DEF o
  <2> QED BY <1>3, <1>6, <2>1, <2>2 DEF Places
<1>8. EncodeRecord(bs) \in Seq(Nat)
  BY <1>1, <1>3, <1>5
<1> HIDE DEF o
<1> QED BY <1>7, <1>8

\* A block's size field is the size the block has.
LEMMA SizeField ==
    ASSUME NEW bs \in Seq(Blocks), NEW o, Places(bs, o), NEW k \in 1 .. Len(bs)
    PROVE  /\ U16(EncodeRecord(bs), o[k - 1] + 2) = 3 + bs[k].value
           /\ At(EncodeRecord(bs), o[k - 1]) = bs[k].index
<1> DEFINE rec == EncodeRecord(bs)
           p == o[k - 1]
           v == bs[k].value
           e == EncodeBlock(bs[k])
<1>1. bs[k] \in Blocks /\ v \in Nat
  <2>1. bs[k] \in Blocks
    OBVIOUS
  <2> QED BY <2>1 DEF Blocks
<1>2. p \in Nat
  BY DEF Places
<1>3. rec[p + 1] = e[1] /\ rec[p + 3] = e[3] /\ rec[p + 4] = e[4]
  <2>1. \A q \in 1 .. 7 : rec[p + q] = e[q]
    BY DEF Places
  <2> HIDE DEF rec, p, e
  <2> QED BY <2>1
<1>4. e[1] = bs[k].index /\ e[3] = (3 + v) % 256 /\ e[4] = (3 + v) \div 256
  BY <1>1, EncodeBlockShape
<1> HIDE DEF rec, p, v, e
<1>5. ((3 + v) % 256) + 256 * ((3 + v) \div 256) = 3 + v
  BY <1>1
<1>6. p + 2 + 1 = p + 3 /\ p + 2 + 1 + 1 = p + 4
  BY <1>2
<1>7. U16(rec, p + 2) = rec[p + 3] + 256 * rec[p + 4]
  BY <1>6, Zenon DEF U16, At
<1>8. At(rec, p) = rec[p + 1]
  BY DEF At
<1> QED BY <1>3, <1>4, <1>5, <1>7, <1>8 DEF rec, p, v

\* The walk over an encoded record with its own count: one turn per block.
LEMMA WalkTiles ==
    ASSUME NEW bs \in Seq(Blocks), NEW o, Places(bs, o)
    PROVE  WalkRecord(EncodeRecord(bs), Len(bs))
             = [at     |-> Len(EncodeRecord(bs)),
                blocks |-> [j \in 1 .. Len(bs) |-> Block(EncodeRecord(bs), o[j - 1])],
                check  |-> "closed"]
<1> DEFINE n == Len(bs)
           rec == EncodeRecord(bs)
           read(k) == [j \in 1 .. k |-> Block(rec, o[j - 1])]
           h == [k \in 0 .. n |-> [at |-> o[k], blocks |-> read(k), check |-> "closed"]]
           walk == CHOOSE walk : walk = [k \in 0 .. n |->
                     IF k = 0 THEN WalkStart ELSE WalkStep(rec, walk[k - 1])]
<1>1. n \in Nat /\ o[0] = 0 /\ o[n] = Len(rec) /\ \A k \in 0 .. n : o[k] \in Nat
  BY DEF Places
<1>2. ASSUME NEW k \in 1 .. n PROVE h[k] = WalkStep(rec, h[k - 1])
  <2> DEFINE a == o[k - 1]
             z == o[k]
             v == bs[k].value
             last == Len(rec)
  <2>1. z = a + 7 + v /\ z <= last /\ last \in Nat /\ v \in Nat
    <3>1. bs[k] \in Blocks
      OBVIOUS
    <3>2. v \in Nat
      BY <3>1 DEF Blocks
    <3>3. z = a + 7 + v /\ z <= last
      BY DEF Places
    <3>4. last \in Nat
      <4>1. o[n] \in Nat
        BY <1>1
      <4> QED BY <1>1, <4>1
    <3> QED BY <3>2, <3>3, <3>4
  <2>2. a \in Nat /\ k - 1 \in 0 .. n /\ k \in 0 .. n
    <3> HIDE DEF n
    <3> QED BY <1>1
  <2>3. U16(rec, a + 2) = 3 + v
    BY SizeField
  <2>4. /\ h[k] = [at |-> z, blocks |-> read(k), check |-> "closed"]
        /\ h[k - 1] = [at |-> a, blocks |-> read(k - 1), check |-> "closed"]
    BY <2>2
  <2>5. Append(read(k - 1), Block(rec, a)) = read(k)
    <3>1. k \in Nat \ {0} /\ Len(read(k - 1)) = k - 1
      BY <1>1
    <3> QED BY <3>1
  <2> HIDE DEF h, rec, n, read, a, z, v, last
  <2>6. ~(a + 4 > last) /\ ~(a + 4 + (3 + v) > last) /\ a + 4 + (3 + v) = z
    BY <2>1, <2>2
  <2> QED BY SMTT(30), <2>3, <2>4, <2>5, <2>6 DEF WalkStep, last
<1>3. h[0] = WalkStart
  <2>1. read(0) = <<>>
    OBVIOUS
  <2> QED BY <1>1, <2>1 DEF WalkStart
<1>4. WalkRecord(rec, n) = IF walk[n].check = "closed" /\ walk[n].at # Len(rec)
                           THEN Refuse(walk[n], "walk-does-not-tile")
                           ELSE walk[n]
  BY DEF WalkRecord
<1>5. h[n] = [at |-> o[n], blocks |-> read(n), check |-> "closed"]
  BY SMTT(30), <1>1
<1>6. \A k \in 0 .. n : h[k] = IF k = 0 THEN WalkStart ELSE WalkStep(rec, h[k - 1])
  <2> HIDE DEF h, rec, n
  <2> QED BY <1>1, <1>2, <1>3
<1>7. h = [k \in 0 .. n |-> h[k]]
  OBVIOUS
<1> HIDE DEF h, rec, n, read
<1>8. h = [k \in 0 .. n |-> IF k = 0 THEN WalkStart ELSE WalkStep(rec, h[k - 1])]
  BY <1>6, <1>7
<1>9. walk = [k \in 0 .. n |-> IF k = 0 THEN WalkStart ELSE WalkStep(rec, walk[k - 1])]
  BY <1>8
<1> HIDE DEF walk
<1> DEFINE T == {k \in Nat : k \in 0 .. n => walk[k] = h[k]}
<1>10. 0 \in T
  BY <1>1, <1>3, <1>9
<1>11. ASSUME NEW k \in Nat, k \in T PROVE k + 1 \in T
  <2> DEFINE j == k + 1
  <2> SUFFICES ASSUME j \in 0 .. n PROVE walk[j] = h[j]
    OBVIOUS
  <2>1. k \in 0 .. n /\ j \in 1 .. n /\ j - 1 = k /\ j # 0
    BY <1>1
  <2>2. walk[k] = h[k]
    BY <1>11, <2>1
  <2> HIDE DEF j
  <2>3. walk[j] = WalkStep(rec, walk[j - 1])
    BY <1>9, <2>1
  <2> QED BY <1>2, <2>1, <2>2, <2>3
<1>12. walk[n] = h[n]
  <2>1. n \in T
    <3> HIDE DEF T
    <3>1. Nat \subseteq T
      BY <1>10, <1>11, Induct
    <3> QED BY <1>1, <3>1
  <2> QED BY <1>1, <2>1
<1>13. walk[n].check = "closed" /\ walk[n].at = Len(rec)
  BY <1>1, <1>5, <1>12
<1>14. WalkRecord(rec, n) = [at |-> Len(rec), blocks |-> read(n), check |-> "closed"]
  BY <1>1, <1>4, <1>5, <1>12, <1>13
<1> QED BY <1>14 DEF n, rec, read

-----------------------------------------------------------------------------
(* The closing equation.                                                   *)

\* No two signature sizes, and no size and no signature at all, are a
\* RequesterContext apart.
LEMMA SizesApart ==
    \A s, t \in {0} \cup SignatureSizes : s + ContextSize # t
BY DEF SignatureSizes, BaseAsym, ContextSize

LEMMA SizesAreNats == SignatureSizes \subseteq Nat
BY DEF SignatureSizes, BaseAsym

\* Where the parts of an honest response are in its bytes.
LEMMA EncodeShape ==
    ASSUME NEW m, Response(m), Honest(m)
    PROVE  LET msg == Encode(m)
               r == Len(EncodeRecord(m.blocks)) IN
           /\ r \in Nat
           /\ Len(msg) = 8 + r + 34 + (m.opaque + m.context + m.signature)
           /\ RecordBytes(msg) = r
           /\ U16(msg, OpaqueLengthAt(msg)) = m.opaque
           /\ At(msg, 4) = Len(m.blocks)
           /\ SubSeq(msg, RecordOffset + 1, RecordOffset + r) = EncodeRecord(m.blocks)
<1> DEFINE rec == EncodeRecord(m.blocks)
           r == Len(rec)
           n == m.opaque + m.context + m.signature
           says == m.opaqueSays
           msg == Encode(m)
<1>0. rec \in Seq(Nat)
  BY RecordPlaces DEF Response
<1>1. r \in Nat /\ r < 65536 /\ n \in Nat /\ m.recordSays = r
  BY <1>0 DEF Response, Honest
<1>2. says \in Nat /\ says < 65536 /\ says = m.opaque /\ ~m.cut
  BY DEF Response, Honest
<1>3. /\ Len(msg) = 8 + r + 34 + n
      /\ msg[6] = r % 256 /\ msg[7] = r \div 256 /\ msg[8] = 0
      /\ msg[8 + r + 33] = says % 256 /\ msg[8 + r + 34] = says \div 256
      /\ msg[5] = m.count
      /\ SubSeq(msg, 9, 8 + r) = rec
  <2>0. \A i \in 1 .. r : rec[i] \in Nat
    BY <1>0
  <2> HIDE DEF r, n, says
  <2>1. msg = [i \in 1 .. 8 + r + 32 + 2 + n |->
          IF i = 5 THEN m.count
          ELSE IF i = 6 THEN r % 256
          ELSE IF i = 7 THEN r \div 256
          ELSE IF i \in 9 .. 8 + r THEN rec[i - 8]
          ELSE IF i = 8 + r + 32 + 1 THEN says % 256
          ELSE IF i = 8 + r + 32 + 2 THEN says \div 256
          ELSE 0]
    BY <1>1, <1>2 DEF Encode, r, n, says, NonceSize
  <2> HIDE DEF msg, rec
  <2>2. Len(msg) = 8 + r + 34 + n
    BY <1>1, <2>1
  <2>3. {5, 6, 7, 8, 8 + r + 33, 8 + r + 34} \subseteq 1 .. 8 + r + 32 + 2 + n
    BY <1>1
  <2>4. SubSeq(msg, 9, 8 + r) = rec
    <3>1. \A i \in 1 .. r : msg[9 + i - 1] = rec[i]
      <4> SUFFICES ASSUME NEW i \in 1 .. r PROVE msg[9 + i - 1] = rec[i]
        OBVIOUS
      <4> DEFINE j == 9 + i - 1
      <4>1. /\ j \in 1 .. 8 + r + 32 + 2 + n /\ j \in 9 .. 8 + r
            /\ j # 5 /\ j # 6 /\ j # 7 /\ j - 8 = i
        BY <1>1
      <4> HIDE DEF j
      <4>2. msg[j] = rec[j - 8]
        BY <2>1, <4>1
      <4> QED BY <4>1, <4>2 DEF j
    <3>2. msg \in Seq(Nat)
      <4>1. m.count \in Nat /\ r % 256 \in Nat /\ r \div 256 \in Nat
            /\ says % 256 \in Nat /\ says \div 256 \in Nat
        BY <1>1, <1>2 DEF Response
      <4>2. \A i \in 9 .. 8 + r : rec[i - 8] \in Nat
        BY <1>1, <2>0
      <4>3. 8 + r + 32 + 2 + n \in Nat
        BY <1>1
      <4>4. \A i \in 1 .. 8 + r + 32 + 2 + n : msg[i] \in Nat
        BY <2>1, <4>1, <4>2
      <4>5. DOMAIN msg = 1 .. 8 + r + 32 + 2 + n
        BY <2>1
      <4>6. msg = [i \in 1 .. 8 + r + 32 + 2 + n |-> msg[i]]
        BY <2>1
      <4> QED BY <4>3, <4>4, <4>6
    <3>3. 9 \in 1 .. Len(msg) + 1 /\ 8 + r \in 8 .. Len(msg)
      BY <1>1, <2>2
    <3>4. Slice(msg, 9, 8 + r)
      BY <1>1, <2>2, <3>2, <3>3, SliceOf
    <3>5. (8 + r) - 9 + 1 = r
      BY <1>1
    <3>6. /\ SubSeq(msg, 9, 8 + r) = [i \in 1 .. r |-> msg[9 + i - 1]]
      BY <3>4, <3>5 DEF Slice
    <3>7. rec = [i \in 1 .. r |-> rec[i]]
      BY <1>0 DEF r
    <3> QED BY <3>1, <3>6, <3>7
  <2>5. /\ msg[5] = m.count /\ msg[6] = r % 256 /\ msg[7] = r \div 256
    BY <2>1, <2>3
  <2>6. /\ msg[8] = 0
        /\ msg[8 + r + 33] = says % 256 /\ msg[8 + r + 34] = says \div 256
    BY <1>1, <2>1, <2>3
  <2> QED BY <2>2, <2>4, <2>5, <2>6
<1> HIDE DEF msg, r, n, says
<1>4. RecordBytes(msg) = r
  <2>1. RecordBytes(msg) = msg[6] + 256 * msg[7] + 65536 * msg[8]
    <3>1. At(msg, 5) = msg[6] /\ At(msg, 5 + 1) = msg[7] /\ At(msg, 5 + 2) = msg[8]
      BY DEF At
    <3>2. RecordBytes(msg) = At(msg, 5) + 256 * At(msg, 5 + 1) + 65536 * At(msg, 5 + 2)
      BY DEF RecordBytes, U24, U16
    <3> QED BY <3>1, <3>2
  <2>2. msg[6] = r % 256 /\ msg[7] = r \div 256 /\ msg[8] = 0
    BY <1>3
  <2>3. (r % 256) + 256 * (r \div 256) + 65536 * 0 = r
    BY <1>1
  <2> QED BY <2>1, <2>2, <2>3
<1>5. U16(msg, OpaqueLengthAt(msg)) = says
  <2>1. /\ OpaqueLengthAt(msg) + 1 = 8 + r + 33
        /\ OpaqueLengthAt(msg) + 1 + 1 = 8 + r + 34
    BY <1>1, <1>4 DEF OpaqueLengthAt, RecordOffset, NonceSize
  <2>2. U16(msg, OpaqueLengthAt(msg)) = msg[8 + r + 33] + 256 * msg[8 + r + 34]
    BY <2>1, Zenon DEF U16, At
  <2>3. msg[8 + r + 33] = says % 256 /\ msg[8 + r + 34] = says \div 256
    BY <1>3
  <2>4. (says % 256) + 256 * (says \div 256) = says
    BY <1>2
  <2> QED BY <2>2, <2>3, <2>4
<1>6. At(msg, 4) = m.count /\ m.count = Len(m.blocks)
  BY <1>3 DEF At, Honest
<1>7. SubSeq(msg, RecordOffset + 1, RecordOffset + r) = rec
  BY <1>3 DEF RecordOffset
<1> HIDE DEF rec
<1>8. Len(msg) = 8 + r + 34 + n /\ says = m.opaque /\ r \in Nat
  BY <1>1, <1>2, <1>3
<1> QED BY <1>4, <1>5, <1>6, <1>7, <1>8, Zenon DEF msg, r, n, rec

\* If the layout closes, the signature is where and as long as the parse says:
\* whatever the proxy believes about the context and the algorithm.
LEMMA ClosingIsSound ==
    ASSUME NEW m, Response(m), Honest(m),
           NEW cv \in Conversation, ParseCheck(Encode(m), cv) = "closed"
    PROVE  /\ SignatureBytes(Encode(m), cv) = m.signature
           /\ SignatureOffset(Encode(m), cv) = Len(Encode(m)) - m.signature
<1> DEFINE msg == Encode(m)
           r == Len(EncodeRecord(m.blocks))
           want == IF cv.requested THEN cv.signature ELSE 0
<1>1. /\ r \in Nat /\ Len(msg) = 8 + r + 34 + (m.opaque + m.context + m.signature)
      /\ RecordBytes(msg) = r /\ U16(msg, OpaqueLengthAt(msg)) = m.opaque
  BY EncodeShape
<1>2. /\ m.opaque \in Nat /\ m.context \in {0, ContextSize}
      /\ m.signature \in {0} \cup SignatureSizes /\ m.signature \in Nat
  BY SizesAreNats DEF Response, Honest
<1>3. /\ cv.signature # Unknown /\ cv.context # Unknown
      /\ SignatureBytes(msg, cv) = want
      /\ Walk(msg).check = "closed"
  <2> HIDE DEF msg
  <2>1. cv.signature # Unknown /\ ~cv.pqc /\ cv.context # Unknown
    BY DEF ParseCheck, msg
  <2>2. /\ ~(Len(msg) < RecordOffset)
        /\ ~(RecordOffset + RecordBytes(msg) > Len(msg))
        /\ ~(OpaqueLengthAt(msg) + 2 > Len(msg))
        /\ ~(SignatureOffset(msg, cv) > Len(msg))
    BY <2>1 DEF ParseCheck, msg
  <2>3. Walk(msg).check = "closed"
    BY <2>1, <2>2 DEF ParseCheck, msg
  <2>4. SignatureBytes(msg, cv) = want
    BY <2>1, <2>2, <2>3 DEF ParseCheck, msg
  <2> QED BY <2>1, <2>3, <2>4
<1>4. cv.context \in {0, ContextSize} /\ want \in {0} \cup SignatureSizes
  BY <1>3 DEF Conversation
<1>5. SignatureOffset(msg, cv) = 8 + r + 34 + m.opaque + cv.context
  <2> HIDE DEF msg, r
  <2> QED BY <1>1 DEF SignatureOffset, OpaqueLengthAt, RecordOffset, NonceSize
<1>6. want \in Nat
  <2> HIDE DEF want
  <2> QED BY <1>4, SizesAreNats
<1>7. want = m.context + m.signature - cv.context
  <2> HIDE DEF msg, r, want
  <2>1. m.context \in Nat /\ cv.context \in Nat
    BY <1>2, <1>4 DEF ContextSize
  <2>2. Len(msg) - (8 + r + 34 + m.opaque + cv.context) = want
    BY <1>3, <1>5 DEF SignatureBytes
  <2> QED BY SMTT(30), <1>1, <1>2, <1>6, <2>1, <2>2
<1>8. cv.context = m.context
  <2> HIDE DEF want
  <2> QED BY <1>2, <1>4, <1>6, <1>7, SizesApart DEF ContextSize
<1>9. SignatureBytes(msg, cv) = m.signature
  <2> HIDE DEF want, msg
  <2> QED BY <1>2, <1>3, <1>6, <1>7, <1>8 DEF ContextSize
<1> QED
  <2> HIDE DEF msg, r
  <2>1. SignatureOffset(msg, cv) = Len(msg) - m.signature
    BY <1>1, <1>2, <1>5, <1>8 DEF ContextSize
  <2> QED BY <1>9, <2>1 DEF msg

-----------------------------------------------------------------------------
(* The type invariant.                                                     *)

LEMMA ObserveAlgorithmsType ==
    ASSUME NEW cv \in Conversation, NEW f \in RspFrames, f.kind = "ALGORITHMS"
    PROVE  ObserveAlgorithms(cv, f) \in Conversation
<1>1. f.pqc \in BOOLEAN /\ f.from14 \in BOOLEAN
  BY FramesAssumption
<1>2. f.asym \in DOMAIN BaseAsym => BaseAsym[f.asym] \in SignatureSizes
  BY DEF SignatureSizes
<1> QED BY <1>1, <1>2 DEF ObserveAlgorithms, Conversation

LEMMA ObserveGetMeasurementsType ==
    ASSUME NEW cv \in Conversation, NEW f \in ReqFrames, f.kind = "GET_MEASUREMENTS"
    PROVE  ObserveGetMeasurements(cv, f) \in Conversation
<1>1. f.signature \in BOOLEAN
  BY FramesAssumption
<1> QED BY <1>1 DEF ObserveGetMeasurements, Conversation

LEMMA TypeInit == Init => TypeOK
<1> SUFFICES ASSUME Init PROVE TypeOK
  OBVIOUS
<1>1. /\ DOMAIN inbox = Socks
      /\ inbox["client"] \in Seq(ReqFrames) /\ inbox["upstream"] \in Seq(RspFrames)
  BY DEF Init, Socks
<1>2. /\ end \in [Socks -> {"open", "partial", "closed"}]
      /\ frames \in [Socks -> Nat]
  BY DEF Init
<1>3. conv \in Conversation
  BY DEF Init, NewConversation, Conversation
<1> QED BY <1>1, <1>2, <1>3 DEF Init, TypeOK, Socks

LEMMA TypeNext == TypeOK /\ [Next]_vars => TypeOK'
<1> SUFFICES ASSUME TypeOK, [Next]_vars PROVE TypeOK'
  OBVIOUS
<1> USE DEF TypeOK, Exits, Socks, reportVars, peerVars
<1>1. CASE Accept
  <2>1. end' \in [Socks -> {"open", "partial", "closed"}]
    BY <1>1 DEF Accept
  <2>2. conns' \in Nat
    BY <1>1 DEF Accept
  <2> QED BY <1>1, <2>1, <2>2 DEF Accept
<1>2. CASE ConnectFails
  BY <1>2 DEF ConnectFails
<1>3. CASE Select
  BY <1>3 DEF Select
<1>4. ASSUME EndConversation PROVE TypeOK'
  BY <1>4 DEF EndConversation, Finish
<1>5. CASE Idle \/ ReadEof
  BY <1>4, <1>5 DEF Idle, ReadEof
<1>6. CASE ReadFrame
  <2> DEFINE f == Head(inbox[sock])
  <2>1. /\ inbox' = [inbox EXCEPT ![sock] = Tail(@)] /\ inbox[sock] # <<>>
        /\ frames' = [frames EXCEPT ![sock] = @ + 1] /\ pc' = "send"
        /\ args' = args /\ sock' = sock /\ end' = end /\ turn' = turn /\ conns' = conns
    BY <1>6 DEF ReadFrame
  <2>2. /\ DOMAIN inbox' = Socks /\ frames' \in [Socks -> Nat]
        /\ inbox'["client"] \in Seq(ReqFrames) /\ inbox'["upstream"] \in Seq(RspFrames)
    BY <2>1
  <2>3. CASE sock = "client"
    <3>1. f \in ReqFrames
      BY <2>1, <2>3
    <3>2. OnRequesterFrame(f)
      BY <1>6, <2>3 DEF ReadFrame
    <3> QED BY <2>1, <2>2, <3>1, <3>2, ObserveGetMeasurementsType DEF OnRequesterFrame
  <2>4. CASE sock # "client"
    <3>1. f \in RspFrames
      BY <2>1, <2>4
    <3>2. OnResponderFrame(f)
      BY <1>6, <2>4 DEF ReadFrame
    <3>3. CASE f.kind = "ALGORITHMS"
      <4>1. OnAlgorithms(f)
        BY <3>2, <3>3 DEF OnResponderFrame
      <4>2. conv' \in Conversation
        BY <3>1, <3>3, <4>1, ObserveAlgorithmsType DEF OnAlgorithms
      <4>3. negotiated' \in BOOLEAN /\ applied' = applied
        BY <4>1 DEF OnAlgorithms
      <4> QED BY <2>1, <2>2, <4>2, <4>3
    <3>4. CASE f.kind = "MEASUREMENTS"
      <4>1. OnMeasurements(f)
        BY <3>2, <3>4 DEF OnResponderFrame
      <4>2. applied' \in BOOLEAN /\ conv' = conv /\ negotiated' = negotiated
        BY <4>1 DEF OnMeasurements, Change
      <4> QED BY <2>1, <2>2, <4>2
    <3>5. CASE f.kind \notin {"ALGORITHMS", "MEASUREMENTS"}
      <4>1. UNCHANGED <<conv, applied, refusals, negotiated>>
        BY <3>2, <3>5 DEF OnResponderFrame
      <4> QED BY <2>1, <2>2, <4>1
    <3> QED BY <3>3, <3>4, <3>5
  <2> QED BY <2>3, <2>4
<1>7. CASE Send
  BY <1>7 DEF Send, Other
<1>8. CASE SocketDies
  BY <1>8 DEF SocketDies
<1>9. CASE Interrupt
  BY <1>9 DEF Interrupt, Finish
<1>10. ASSUME NEW s \in Socks, PeerBegins(s) \/ PeerCloses(s) PROVE TypeOK'
  BY <1>10 DEF PeerBegins, PeerCloses
<1>11. ASSUME NEW s \in Socks, PeerCompletes(s) PROVE TypeOK'
  <2>1. PICK f \in IF s = "client" THEN ReqFrames ELSE RspFrames :
          inbox' = [inbox EXCEPT ![s] = Append(@, f)]
    BY <1>11 DEF PeerCompletes
  <2>2. /\ DOMAIN inbox' = Socks
        /\ inbox'["client"] \in Seq(ReqFrames) /\ inbox'["upstream"] \in Seq(RspFrames)
    BY <2>1
  <2> QED BY <1>11, <2>2 DEF PeerCompletes
<1>12. CASE UNCHANGED vars
  BY <1>12 DEF vars
<1> QED
  BY <1>1, <1>2, <1>3, <1>5, <1>6, <1>7, <1>8, <1>9, <1>10, <1>11, <1>12
  DEF Next, ProxyStep, PeerStep

\* The types hold whatever the peers send and when they close.
THEOREM TypeCorrect == Spec => []TypeOK
<1>1. TypeOK /\ [Next]_vars => TypeOK'
  BY TypeNext
<1> QED BY TypeInit, <1>1, PTL DEF Spec

-----------------------------------------------------------------------------
(* At most one flip.                                                       *)

LEMMA FlipInit == Init => FlipInv
BY DEF Init, FlipInv, Nothing, Same

LEMMA FlipNext == FlipInv /\ [Next]_vars => FlipInv'
<1> SUFFICES ASSUME FlipInv, [Next]_vars PROVE FlipInv'
  OBVIOUS
<1> USE DEF FlipInv, reportVars, peerVars
<1>1. CASE Accept
  BY <1>1 DEF Accept
<1>2. CASE ConnectFails
  BY <1>2 DEF ConnectFails
<1>3. CASE Select
  BY <1>3 DEF Select
<1>4. CASE Idle \/ ReadEof
  BY <1>4 DEF Idle, ReadEof, EndConversation, Finish
<1>5. CASE ReadFrame
  <2> DEFINE f == Head(inbox[sock])
  <2>1. /\ pc = "read" /\ pc' = "send" /\ args' = args /\ changed' = changed
        /\ ~out.differs
    BY <1>5 DEF ReadFrame
  <2>2. CASE OnMeasurements(f)
    <3>1. PICK flips \in BOOLEAN :
            /\ flips => args.mode # "passthrough" /\ ~applied
            /\ applied' = (applied \/ flips)
            /\ out' = IF ~flips THEN Same(f)
                      ELSE [frame |-> f, differs |-> TRUE,
                            at |-> Target(Wire[f], conv, args)]
      BY <2>2 DEF OnMeasurements, Change
    <3>2. CASE flips
      BY <2>1, <3>1, <3>2
    <3>3. CASE ~flips
      BY <2>1, <3>1, <3>3 DEF Same
    <3> QED BY <3>2, <3>3
  <2>3. CASE out' = Same(f) /\ applied' = applied
    BY <2>1, <2>3 DEF Same
  <2>4. OnMeasurements(f) \/ (out' = Same(f) /\ applied' = applied)
    BY <1>5 DEF ReadFrame, OnRequesterFrame, OnResponderFrame, OnAlgorithms
  <2> QED BY <2>2, <2>3, <2>4
<1>6. CASE Send
  <2>1. /\ pc = "send" /\ pc' = "select" /\ args' = args /\ applied' = applied
        /\ refusals' = refusals /\ out' = Nothing
        /\ changed' = IF out.differs THEN Append(changed, out) ELSE changed
    BY <1>6 DEF Send
  <2>2. out'.differs = FALSE
    BY <2>1 DEF Nothing, Same
  <2>3. CASE out.differs
    <3>1. applied /\ changed = <<>>
      BY <2>3
    <3>2. changed' = <<out>>
      BY <2>1, <2>3, <3>1
    <3> QED BY <2>1, <2>2, <3>1, <3>2
  <2>4. CASE ~out.differs
    BY <2>1, <2>2, <2>4
  <2> QED BY <2>3, <2>4
<1>7. CASE SocketDies
  BY <1>7 DEF SocketDies
<1>8. CASE Interrupt
  BY <1>8 DEF Interrupt, Finish, Exits
<1>9. CASE PeerStep
  BY <1>9 DEF PeerStep, PeerBegins, PeerCompletes, PeerCloses
<1>10. CASE UNCHANGED vars
  BY <1>10 DEF vars
<1> QED BY <1>1, <1>2, <1>3, <1>4, <1>5, <1>6, <1>7, <1>8, <1>9, <1>10
        DEF Next, ProxyStep

\* Over all its connections the proxy sends one changed frame at most, whatever
\* is sent to it.
THEOREM AtMostOneFlipHolds == Spec => []AtMostOneFlip
<1>1. FlipInv => AtMostOneFlip
  <2> SUFFICES ASSUME FlipInv PROVE AtMostOneFlip
    OBVIOUS
  <2>1. CASE changed = <<>>
    BY <2>1 DEF AtMostOneFlip
  <2>2. ASSUME NEW sent, changed = <<sent>> PROVE AtMostOneFlip
    BY <2>2 DEF AtMostOneFlip
  <2> QED BY <2>1, <2>2 DEF FlipInv
<1> QED BY <1>1, FlipInit, FlipNext, PTL DEF Spec

\* Exit 0 means exactly one changed frame sent (none in a pass-through, or after
\* an interrupt with the changed one in hand), and exit 1 none and a reason.
THEOREM ExitMatchesWireHolds == Spec => []ExitMatchesWire
<1>1. FlipInv => ExitMatchesWire
  <2> SUFFICES ASSUME FlipInv PROVE ExitMatchesWire
    OBVIOUS
  <2>1. ~applied => changed = <<>> /\ ~out.differs
    BY DEF FlipInv
  <2>2. ASSUME applied, ~out.differs PROVE Len(changed) = 1
    <3>1. PICK sent : changed = <<sent>>
      BY <2>2 DEF FlipInv
    <3> QED BY <3>1
  <2>3. applied /\ out.differs => changed = <<>>
    BY DEF FlipInv
  <2>4. CASE pc = "ok"
    <3>1. CASE args.mode = "passthrough"
      <4>1. changed = <<>>
        BY <2>1, <3>1 DEF FlipInv
      <4> QED BY <2>4, <3>1, <4>1 DEF ExitMatchesWire
    <3>2. CASE args.mode # "passthrough"
      <4>1. applied
        BY <2>4, <3>2 DEF FlipInv
      <4> QED BY <2>2, <2>3, <2>4, <3>2, <4>1 DEF ExitMatchesWire, InterruptedInHand
    <3> QED BY <3>1, <3>2
  <2>5. CASE pc = "unchanged"
    BY <2>1, <2>5 DEF FlipInv, ExitMatchesWire
  <2>6. CASE pc \notin {"ok", "unchanged"}
    BY <2>6 DEF ExitMatchesWire
  <2> QED BY <2>4, <2>5, <2>6
<1> QED BY <1>1, FlipInit, FlipNext, PTL DEF Spec

-----------------------------------------------------------------------------
(* A flip lands where it was asked for.                                    *)

\* Every changed frame, on its way or gone, is a response changed where the
\* arguments say, if it says truly what it holds.
LandInv ==
    /\ out.differs => Lands(out)
    /\ changed # <<>> => \E sent : changed = <<sent>> /\ Lands(sent)

\* The byte a closing layout and the arguments select is the byte they name.
LEMMA SignatureTarget ==
    ASSUME NEW m, Response(m), Honest(m), NEW cv \in Conversation,
           NEW a \in Args, a.mode = "signature",
           ParseCheck(Encode(m), cv) = "closed",
           TamperCheck(Encode(m), cv, a) = "applied"
    PROVE  Target(Encode(m), cv, a) = TrueTarget(m, a)
<1> DEFINE msg == Encode(m)
<1>1. /\ SignatureBytes(msg, cv) = m.signature
      /\ SignatureOffset(msg, cv) = Len(msg) - m.signature
  BY ClosingIsSound
<1>2. Len(msg) \in Nat /\ m.signature \in Nat
  <2>1. /\ Len(EncodeRecord(m.blocks)) \in Nat
        /\ Len(msg) = 8 + Len(EncodeRecord(m.blocks)) + 34
                      + (m.opaque + m.context + m.signature)
    BY EncodeShape
  <2>2. m.opaque \in Nat /\ m.context \in Nat /\ m.signature \in Nat
    BY DEF Response
  <2> HIDE DEF msg
  <2> QED BY <2>1, <2>2
<1>3. a.offset \in Int
  BY ArgsAssumption
<1> HIDE DEF msg
<1>4. Target(msg, cv, a) = SignatureOffset(msg, cv) + SignatureIndex(msg, cv, a.offset)
  BY DEF Target
<1>5. TrueTarget(m, a) = Len(msg)
        - (IF a.offset >= 0 THEN m.signature - a.offset ELSE -a.offset)
  BY DEF TrueTarget, msg
<1>6. SignatureIndex(msg, cv, a.offset) =
        IF a.offset >= 0 THEN a.offset ELSE m.signature + a.offset
  BY <1>1 DEF SignatureIndex
<1>7. Target(msg, cv, a) = TrueTarget(m, a)
  BY <1>1, <1>2, <1>3, <1>4, <1>5, <1>6
<1> QED BY <1>7 DEF msg

\* What the walk over an honest response whose layout closes returns.
WalkedAs(m, o) ==
    Walk(Encode(m)).blocks
      = [j \in 1 .. Len(m.blocks) |-> Block(EncodeRecord(m.blocks), o[j - 1])]

LEMMA WalkReads ==
    ASSUME NEW m, Response(m), Honest(m), NEW o, Places(m.blocks, o)
    PROVE  WalkedAs(m, o)
<1> DEFINE msg == Encode(m)
<1>1. m.blocks \in Seq(Blocks)
  BY DEF Response
<1>2. /\ At(msg, 4) = Len(m.blocks)
      /\ SubSeq(msg, RecordOffset + 1, RecordOffset + RecordBytes(msg))
           = EncodeRecord(m.blocks)
  BY EncodeShape
<1>3. WalkRecord(EncodeRecord(m.blocks), Len(m.blocks)).blocks
        = [j \in 1 .. Len(m.blocks) |-> Block(EncodeRecord(m.blocks), o[j - 1])]
  BY <1>1, WalkTiles
<1> HIDE DEF msg
<1>4. Walk(msg) = WalkRecord(EncodeRecord(m.blocks), Len(m.blocks))
  BY <1>2 DEF Walk
<1> QED BY <1>3, <1>4 DEF msg, WalkedAs

\* The first block of an index, by either description, is the same one.
LEMMA FirstOf ==
    ASSUME NEW n \in Nat, NEW M, M \subseteq 1 .. n, M # {}
    PROVE  (CHOOSE i \in M : \A j \in M : i <= j)
             = (CHOOSE i \in 1 .. n : i \in M /\ \A j \in 1 .. i - 1 : j \notin M)
<1> DEFINE c == CHOOSE i \in M : \A j \in M : i <= j
           d == CHOOSE i \in 1 .. n : i \in M /\ \A j \in 1 .. i - 1 : j \notin M
<1>1. M \subseteq Nat
  OBVIOUS
<1>2. c \in M /\ \A j \in M : c <= j
  BY <1>1, Least, Zenon
<1>3. c \in 1 .. n /\ \A j \in 1 .. c - 1 : j \notin M
  <2> HIDE DEF c
  <2> QED BY <1>2
<1>4. d \in 1 .. n /\ d \in M /\ \A j \in 1 .. d - 1 : j \notin M
  <2> HIDE DEF c
  <2> QED BY <1>2, <1>3, Zenon
<1>5. c = d
  <2> HIDE DEF c, d
  <2> QED BY <1>2, <1>3, <1>4
<1> QED BY <1>5

\* The byte of the record that a closing layout and the arguments select is the
\* byte they name: blocks are where the walk finds them.
LEMMA RecordTarget ==
    ASSUME NEW m, Response(m), Honest(m), NEW cv \in Conversation,
           NEW a \in Args, a.mode = "record",
           TamperCheck(Encode(m), cv, a) = "applied"
    PROVE  Target(Encode(m), cv, a) = TrueTarget(m, a)
<1> DEFINE msg == Encode(m)
           bs == m.blocks
           n == Len(bs)
           rec == EncodeRecord(bs)
           M == Matches(msg, a.block)
           c == CHOOSE i \in M : \A j \in M : i <= j
<1>1. bs \in Seq(Blocks) /\ n \in Nat
  BY DEF Response
<1>2. PICK o : Places(bs, o)
  BY <1>1, RecordPlaces
<1>3. Walk(msg).blocks = [j \in 1 .. n |-> Block(rec, o[j - 1])]
  <2>1. Places(m.blocks, o)
    BY <1>2
  <2>2. WalkedAs(m, o)
    BY <2>1, WalkReads
  <2> QED BY <2>2 DEF WalkedAs
<1>4. \A j \in 1 .. n : /\ Block(rec, o[j - 1]).index = bs[j].index
                        /\ Block(rec, o[j - 1]).valueAt = o[j - 1] + 7
  BY <1>1, <1>2, SizeField DEF Block
<1>5. M # {}
  BY DEF TamperCheck
<1>6. M = {i \in 1 .. n : bs[i].index = a.block}
  <2> HIDE DEF msg, rec, n, bs
  <2> QED BY <1>3, <1>4 DEF Matches
<1>7. M \subseteq 1 .. n
  BY <1>6
<1>8. c \in M
  <2>1. M \subseteq Nat
    BY <1>7
  <2> QED BY <1>5, <2>1, Least, Zenon
<1>9. FirstMatch(msg, a.block) = Walk(msg).blocks[c]
  BY DEF FirstMatch
<1> DEFINE d == CHOOSE i \in DOMAIN bs :
                  /\ bs[i].index = a.block
                  /\ \A j \in 1 .. i - 1 : bs[j].index # a.block
           x == CHOOSE i \in 1 .. n : i \in M /\ \A j \in 1 .. i - 1 : j \notin M
<1>10. c = x
  <2> HIDE DEF M, n
  <2> QED BY <1>1, <1>5, <1>7, FirstOf
<1>11. x = d
  <2>1. \A i \in 1 .. n : (i \in M /\ \A j \in 1 .. i - 1 : j \notin M)
          <=> /\ bs[i].index = a.block
              /\ \A j \in 1 .. i - 1 : bs[j].index # a.block
    <3> HIDE DEF M, n, bs
    <3> QED BY <1>1, <1>6
  <2>2. DOMAIN bs = 1 .. n
    BY <1>1
  <2> HIDE DEF M, n, bs
  <2> QED BY <2>1, <2>2
<1>12. TrueTarget(m, a) = RecordOffset + Len(EncodeRecord(SubSeq(bs, 1, d - 1))) + 7 + a.offset
  BY DEF TrueTarget
<1>13. Target(msg, cv, a) = RecordOffset + FirstMatch(msg, a.block).valueAt + a.offset
  BY DEF Target
<1> HIDE DEF msg, rec, M, c, d, x, bs, n
<1>14. c \in 1 .. n /\ c - 1 \in 0 .. n
  BY <1>1, <1>7, <1>8
<1>15. FirstMatch(msg, a.block).valueAt = o[c - 1] + 7
  BY <1>3, <1>4, <1>9, <1>14
<1>16. o[c - 1] = Len(EncodeRecord(SubSeq(bs, 1, d - 1))) /\ o[c - 1] \in Nat
  BY <1>2, <1>10, <1>11, <1>14 DEF Places, n
<1>17. a.offset \in Int
  BY ArgsAssumption
<1> QED BY <1>12, <1>13, <1>15, <1>16, <1>17 DEF RecordOffset, msg

\* Whatever the messages of this connection and of the ones before it were, the
\* byte changed in an honest response is the one the arguments name: in the value
\* of the measurement of that index, or in the signature.
THEOREM FlipLands == Spec => []FlipLandsWhereAsked
<1> DEFINE All == TypeOK /\ FlipInv /\ LandInv
<1>1. Init => All
  BY TypeInit, FlipInit DEF Init, LandInv, Nothing, Same
<1>2. All /\ [Next]_vars => All'
  <2> SUFFICES ASSUME All, [Next]_vars PROVE LandInv'
    BY TypeNext, FlipNext
  <2>1. args \in Args
    BY DEF TypeOK
  <2>2. args' = args
    BY DEF Next, ProxyStep, PeerStep, Accept, ConnectFails, Select, Idle, ReadEof,
       EndConversation, ReadFrame, Send, SocketDies, Interrupt, PeerBegins,
       PeerCompletes, PeerCloses, vars
  <2>3. ASSUME out' = out, changed' = changed PROVE LandInv'
    BY <2>2, <2>3 DEF LandInv, Lands
  <2>4. CASE ReadFrame
    <3> DEFINE f == Head(inbox[sock])
    <3>1. /\ ~out.differs /\ changed' = changed /\ sock \in Socks
          /\ inbox[sock] # <<>>
      BY <2>4 DEF ReadFrame, FlipInv, TypeOK
    <3>2. CASE out' = Same(f)
      BY <2>2, <3>1, <3>2 DEF LandInv, Lands, Same
    <3>3. CASE OnMeasurements(f) /\ sock = "upstream" /\ f.kind = "MEASUREMENTS"
                 /\ out' # Same(f)
      <4>1. /\ ParseCheck(Wire[f], conv) = "closed"
            /\ TamperCheck(Wire[f], conv, args) = "applied"
            /\ out' = [frame |-> f, differs |-> TRUE, at |-> Target(Wire[f], conv, args)]
            /\ ~applied /\ args.mode # "passthrough"
        BY <3>3 DEF OnMeasurements, Change
      <4>2. f \in RspFrames
        BY <3>1, <3>3 DEF TypeOK
      <4>3. Response(f)
        BY <3>3, <4>2, FramesAssumption
      <4>4. Wire[f] = Encode(f)
        BY <3>3, <4>2 DEF Wire
      <4>5. Lands(out)'
        <5> SUFFICES ASSUME Honest(f)
                     PROVE  Target(Wire[f], conv, args) = TrueTarget(f, args')
          BY <4>1, <2>2 DEF Lands
        <5>1. conv \in Conversation
          BY DEF TypeOK
        <5>2. args.mode \in {"signature", "record"}
          BY <2>1, <4>1, ArgsAssumption
        <5> HIDE DEF f
        <5>3. CASE args.mode = "signature"
          BY <2>1, <2>2, <4>1, <4>3, <4>4, <5>1, <5>3, SignatureTarget
        <5>4. CASE args.mode = "record"
          BY <2>1, <2>2, <4>1, <4>3, <4>4, <5>1, <5>4, RecordTarget
        <5> QED BY <5>2, <5>3, <5>4
      <4>6. changed' = <<>>
        BY <3>1, <4>1 DEF FlipInv
      <4> QED BY <4>5, <4>6 DEF LandInv
    <3>4. \/ out' = Same(f)
          \/ OnMeasurements(f) /\ sock = "upstream" /\ f.kind = "MEASUREMENTS"
      BY <2>4, <3>1 DEF ReadFrame, OnRequesterFrame, OnResponderFrame, OnAlgorithms, Socks
    <3> QED BY <3>2, <3>3, <3>4
  <2>5. CASE Send
    <3>1. /\ out' = Nothing
          /\ changed' = IF out.differs THEN Append(changed, out) ELSE changed
      BY <2>5 DEF Send
    <3>2. ~out'.differs
      BY <3>1 DEF Nothing, Same
    <3>3. CASE out.differs
      <4>1. changed = <<>> /\ Lands(out)
        BY <3>3 DEF FlipInv, LandInv
      <4>2. changed' = <<out>>
        BY <3>1, <3>3, <4>1
      <4>3. \E sent : changed' = <<sent>> /\ Lands(sent)'
        BY <2>2, <4>1, <4>2 DEF Lands
      <4> QED BY <3>2, <4>3 DEF LandInv
    <3>4. CASE ~out.differs
      BY <2>2, <3>1, <3>2, <3>4 DEF LandInv, Lands
    <3> QED BY <3>3, <3>4
  <2>6. (ReadFrame \/ Send) \/ (out' = out /\ changed' = changed)
    BY DEF Next, ProxyStep, PeerStep, Accept, ConnectFails, Select, Idle, ReadEof,
       EndConversation, SocketDies, Interrupt, PeerBegins, PeerCompletes, PeerCloses,
       vars
  <2> QED BY <2>3, <2>4, <2>5, <2>6
<1>3. All => FlipLandsWhereAsked
  <2> SUFFICES ASSUME FlipInv, LandInv PROVE FlipLandsWhereAsked
    OBVIOUS
  <2>1. CASE changed = <<>>
    BY <2>1 DEF FlipLandsWhereAsked
  <2>2. CASE changed # <<>>
    <3>1. PICK sent : changed = <<sent>> /\ Lands(sent)
      BY <2>2 DEF LandInv
    <3>2. \A i \in 1 .. Len(changed) : changed[i] = sent
      BY <3>1
    <3> QED BY <3>1, <3>2 DEF FlipLandsWhereAsked
  <2> QED BY <2>1, <2>2
<1> QED BY <1>1, <1>2, <1>3, PTL DEF Spec
=============================================================================
