--------------------------- MODULE HandshakeProofs ---------------------------
(* Proofs about handshakes.  Of Arms: a reading of the ALGORITHMS response *)
(* by its tables' own lengths is the response, and an arm recorded as      *)
(* declared is.  Of HandshakeRun, which runs the arms: whose the processes *)
(* and the evidence of a case are.  Of Challenge: what is concluded of the *)
(* signatures in a capture that missed nothing is so.                      *)
EXTENDS Arms, HandshakeRun, Challenge, Recursion, FiniteSetTheorems

-----------------------------------------------------------------------------
(* A selection and its bits.                                               *)

\* The sum of a set of named bits.
Weight(bits) == (IF 1 \in bits THEN 1 ELSE 0) + (IF 2 \in bits THEN 2 ELSE 0)

LEMMA SumOfBits ==
    ASSUME NEW S, S \subseteq NamedBits
    PROVE  FoldSet(LAMBDA b, n : b + n, 0, S) = Weight(S)
<1> DEFINE h == [s \in SUBSET S |-> Weight(s)]
           Sum(w, s) == LET x == CHOOSE x \in s : TRUE IN x + w[s \ {x}]
           iter == CHOOSE iter : iter = [s \in SUBSET S |-> IF s = {} THEN 0 ELSE Sum(iter, s)]
<1>1. FoldSet(LAMBDA b, n : b + n, 0, S) = iter[S]
  BY DEF FoldSet, MapThenFoldSet
<1>2. ASSUME NEW s \in SUBSET S, s # {} PROVE Weight(s) = Sum(h, s)
  <2> DEFINE x == CHOOSE x \in s : TRUE
  <2>1. x \in s /\ x \in {1, 2} /\ s \ {x} \in SUBSET S
    BY <1>2 DEF NamedBits
  <2>2. h[s \ {x}] = Weight(s \ {x})
    BY <2>1
  <2> HIDE DEF x
  <2>3. Weight(s) = x + Weight(s \ {x})
    BY <2>1 DEF Weight
  <2> HIDE DEF h
  <2> QED BY <2>2, <2>3 DEF x
<1>3. Weight({}) = 0
  BY DEF Weight
<1>4. h = [s \in SUBSET S |-> IF s = {} THEN 0 ELSE Sum(h, s)]
  <2>1. \A s \in SUBSET S : h[s] = IF s = {} THEN 0 ELSE Sum(h, s)
    <3>1. \A s \in SUBSET S : h[s] = Weight(s)
      OBVIOUS
    <3> HIDE DEF h, Sum
    <3> QED BY <3>1, <1>2, <1>3
  <2>2. h = [s \in SUBSET S |-> h[s]]
    OBVIOUS
  <2> HIDE DEF h, Sum
  <2> QED BY <2>1, <2>2
<1>5. iter = [s \in SUBSET S |-> IF s = {} THEN 0 ELSE Sum(iter, s)]
  <2> HIDE DEF h, Sum
  <2> QED BY <1>4
<1> HIDE DEF iter
<1>6. /\ iter[{}] = 0
      /\ \A s \in SUBSET S : s # {} => iter[s] = Sum(iter, s)
  <2> HIDE DEF Sum
  <2> QED BY <1>5
<1>7. \A b \in S : iter[{b}] = b
  <2> TAKE b \in S
  <2>1. {b} \in SUBSET S /\ {b} # {} /\ (CHOOSE x \in {b} : TRUE) = b /\ {b} \ {b} = {}
    OBVIOUS
  <2>2. b \in {1, 2}
    BY DEF NamedBits
  <2>3. iter[{b}] = b + iter[{}]
    BY <1>6, <2>1
  <2> QED BY <1>6, <2>2, <2>3
<1>8. CASE S = {}
  BY <1>1, <1>3, <1>6, <1>8
<1>9. CASE \E b \in S : S = {b}
  <2> PICK b \in S : S = {b}
    BY <1>9
  <2>1. b \in {1, 2}
    BY DEF NamedBits
  <2>2. Weight({b}) = b
    BY <2>1 DEF Weight
  <2> QED BY <1>1, <1>7, <2>2
<1>10. CASE S = {1, 2}
  <2> DEFINE x == CHOOSE x \in S : TRUE
             y == 3 - x
  <2>1. x \in S /\ x \in {1, 2}
    BY <1>10
  <2> HIDE DEF x
  <2>2. y \in S /\ S \ {x} = {y} /\ x + y = 3
    BY <1>10, <2>1
  <2>3. iter[S] = x + iter[S \ {x}]
    BY <1>6, <1>10 DEF x
  <2> HIDE DEF y
  <2>4. iter[S] = 3
    BY <1>7, <2>2, <2>3
  <2>5. Weight(S) = 3
    BY <1>10 DEF Weight
  <2> QED BY <1>1, <2>4, <2>5
<1>11. S = {} \/ (\E b \in S : S = {b}) \/ S = {1, 2}
  BY DEF NamedBits
<1> QED BY <1>8, <1>9, <1>10, <1>11

\* What is left without the named bits is not a named bit itself.
LEMMA NamelessIsNoBit ==
    ASSUME NEW v \in Nat
    PROVE  /\ BitsOf(v) \subseteq {1, 2}
           /\ Nameless(v) \in Int /\ Nameless(v) \notin {1, 2}
           /\ v = 0 => BitsOf(v) = {} /\ Nameless(v) = 0
<1> DEFINE q == v \div 2
           r == q \div 2
           b == BitsOf(v)
<1>1. b \subseteq NamedBits
  BY DEF BitsOf
<1>2. Nameless(v) = v - Weight(b)
  <2> HIDE DEF b
  <2>1. FoldSet(LAMBDA x, n : x + n, 0, b) = Weight(b)
    BY <1>1, SumOfBits
  <2> QED BY <2>1 DEF Nameless, b
<1>3. (1 \in b <=> v % 2 = 1) /\ (2 \in b <=> q % 2 = 1)
  <2>1. v \div 1 = v
    OBVIOUS
  <2> QED BY <2>1 DEF BitsOf, NamedBits
<1> HIDE DEF b
<1>4. Weight(b) = (v % 2) + 2 * (q % 2)
  <2>1. v % 2 \in {0, 1} /\ q % 2 \in {0, 1}
    OBVIOUS
  <2> HIDE DEF q
  <2> QED BY <1>3, <2>1 DEF Weight
<1>5. v = 2 * q + (v % 2) /\ q \in Nat
  OBVIOUS
<1> HIDE DEF q
<1>6. q = 2 * r + (q % 2) /\ r \in Nat
  BY <1>5
<1> HIDE DEF r
<1>7. v % 2 \in {0, 1} /\ q % 2 \in {0, 1}
  BY <1>5
<1>8. Nameless(v) = 4 * r
  <2> DEFINE s == v % 2
             t == q % 2
  <2>1. Weight(b) = s + 2 * t /\ v = 2 * q + s /\ q = 2 * r + t /\ s \in {0, 1} /\ t \in {0, 1}
    BY <1>4, <1>5, <1>6, <1>7
  <2> HIDE DEF s, t
  <2> QED BY <1>2, <1>5, <1>6, <2>1
<1>9. Nameless(v) \in Int /\ Nameless(v) \notin {1, 2}
  BY <1>6, <1>8
<1>10. ASSUME v = 0 PROVE b = {} /\ Nameless(v) = 0
  <2>1. r = 0 /\ q = 0
    BY <1>5, <1>6, <1>10
  <2>2. ~ (v % 2 = 1) /\ ~ (q % 2 = 1)
    BY <1>10, <2>1
  <2>3. b = {}
    BY <1>1, <1>3, <2>2 DEF NamedBits
  <2> QED BY <1>8, <2>1, <2>3
<1> QED BY <1>1, <1>9, <1>10 DEF NamedBits, b

-----------------------------------------------------------------------------
(* The tables' bytes, and where they are.                                  *)

\* Two bytes, the lower first.
LEMMA LittleEndianOfTwo ==
    ASSUME NEW lo \in Nat, NEW hi \in Nat, NEW seq, seq = [i \in 1 .. 2 |-> IF i = 1 THEN lo ELSE hi]
    PROVE  LittleEndian(seq) = lo + 256 * hi
<1> DEFINE D == DOMAIN seq
           Least2(s) == CHOOSE x \in s : \A y \in s : x =< y
           Add(w, s) == seq[Least2(s)] + 256 * w[s \ {Least2(s)}]
           both == lo + 256 * hi
           h == [s \in SUBSET D |-> IF s = {} THEN 0 ELSE IF s = {1} THEN lo
                                    ELSE IF s = {2} THEN hi ELSE both]
           iter == CHOOSE iter : iter = [s \in SUBSET D |-> IF s = {} THEN 0 ELSE Add(iter, s)]
<1>1. LittleEndian(seq) = iter[D]
  BY DEF LittleEndian, FoldRight, MapThenFoldSet, Min
<1>2. D = {1, 2} /\ seq[1] = lo /\ seq[2] = hi
  OBVIOUS
<1> HIDE DEF D
<1>3. /\ Least2({1}) = 1 /\ {1} \ {1} = {}
      /\ Least2({2}) = 2 /\ {2} \ {2} = {}
      /\ Least2({1, 2}) = 1 /\ {1, 2} \ {1} = {2}
  OBVIOUS
<1>4. \A s \in SUBSET D : s = {} \/ s = {1} \/ s = {2} \/ s = {1, 2}
  BY <1>2
<1> HIDE DEF Least2
<1>5. /\ h[{}] = 0 /\ h[{1}] = lo /\ h[{2}] = hi /\ h[{1, 2}] = both
  <2>1. {} \in SUBSET D /\ {1} \in SUBSET D /\ {2} \in SUBSET D /\ {1, 2} \in SUBSET D
    BY <1>2
  <2>2. {1} # {} /\ {2} # {} /\ {1, 2} # {} /\ {1} # {2} /\ {1, 2} # {1} /\ {1, 2} # {2}
    OBVIOUS
  <2> QED BY <2>1, <2>2
<1>6. h = [s \in SUBSET D |-> h[s]]
  OBVIOUS
<1> HIDE DEF h
<1>7. \A w : w[{}] = 0 => Add(w, {1}) = lo /\ Add(w, {2}) = hi
  <2> TAKE w
  <2>1. Add(w, {1}) = seq[1] + 256 * w[{}]
    BY <1>3
  <2>2. Add(w, {2}) = seq[2] + 256 * w[{}]
    BY <1>3
  <2> HIDE DEF Add
  <2> QED BY <1>2, <2>1, <2>2
<1>8. \A w : w[{2}] = hi => Add(w, {1, 2}) = both
  BY <1>2, <1>3
<1> HIDE DEF Add, both
<1>9. \A s \in SUBSET D : h[s] = IF s = {} THEN 0 ELSE Add(h, s)
  BY <1>4, <1>5, <1>7, <1>8
<1>10. h = [s \in SUBSET D |-> IF s = {} THEN 0 ELSE Add(h, s)]
  BY <1>6, <1>9
<1>11. iter = [s \in SUBSET D |-> IF s = {} THEN 0 ELSE Add(iter, s)]
  BY <1>10
<1> HIDE DEF iter
<1>12. {} \in SUBSET D /\ {2} \in SUBSET D /\ D \in SUBSET D /\ {2} # {} /\ D # {}
  BY <1>2
<1>13. iter[{}] = 0 /\ iter[{2}] = Add(iter, {2}) /\ iter[D] = Add(iter, D)
  BY <1>11, <1>12
<1>14. iter[D] = both
  BY <1>2, <1>7, <1>8, <1>13
<1> QED BY <1>1, <1>14 DEF both

\* A table's bytes.
LEMMA TableShape ==
    ASSUME NEW t \in Table
    PROVE  /\ TableBytes(t) \in Seq(Nat) /\ Len(TableBytes(t)) = 4 + 4 * t.ext
           /\ TableBytes(t)[1] = t.type /\ TableBytes(t)[2] = 2 * 16 + t.ext
           /\ TableBytes(t)[3] = t.value % 256 /\ TableBytes(t)[4] = t.value \div 256
<1> DEFINE e == t.ext
           a == <<t.type, 2 * 16 + e, t.value % 256, t.value \div 256>>
           b == [i \in 1 .. 4 * e |-> t.type]
<1>1. t.type \in Nat /\ t.value \in Nat /\ e \in Nat
  BY DEF Table
<1>2. a \in Seq(Nat) /\ Len(a) = 4 /\ a[1] = t.type /\ a[2] = 2 * 16 + e
      /\ a[3] = t.value % 256 /\ a[4] = t.value \div 256
  <2>1. 2 * 16 + e \in Nat /\ t.value % 256 \in Nat /\ t.value \div 256 \in Nat
    BY <1>1
  <2> HIDE DEF e
  <2> QED BY <1>1, <2>1
<1>3. b \in Seq(Nat) /\ Len(b) = 4 * e
  <2>1. 4 * e \in Nat
    BY <1>1
  <2> QED BY <1>1, <2>1
<1>4. TableBytes(t) = a \o b
  BY DEF TableBytes
<1> HIDE DEF a, b
<1>5. a \o b \in Seq(Nat) /\ Joined(a, b)
  BY <1>2, <1>3, Concatenation
<1>6. Len(a \o b) = 4 + 4 * e /\ \A p \in 1 .. 4 : (a \o b)[p] = a[p]
  BY <1>2, <1>3, <1>5 DEF Joined
<1> HIDE DEF e
<1>7. TableBytes(t) \in Seq(Nat) /\ Len(TableBytes(t)) = 4 + 4 * e
  BY <1>4, <1>5, <1>6
<1>8. \A p \in 1 .. 4 : TableBytes(t)[p] = a[p]
  BY <1>4, <1>6
<1> QED BY <1>2, <1>7, <1>8 DEF e

\* o[k] is where the first k tables of a response end.
Ends(alg, o) ==
    /\ o \in [0 .. Len(alg.tables) -> Nat] /\ o[0] = 4 * alg.external
    /\ o[Len(alg.tables)] = Len(ResponseBytes(alg))
    /\ \A k \in 1 .. Len(alg.tables) :
         /\ o[k] = o[k - 1] + (4 + 4 * alg.tables[k].ext)
         /\ o[k] <= Len(ResponseBytes(alg))
         /\ \A p \in 1 .. 4 :
              ResponseBytes(alg)[o[k - 1] + p] = TableBytes(alg.tables[k])[p]

\* Every response has them.
LEMMA TablesEnd ==
    ASSUME NEW alg \in Response
    PROVE  ResponseBytes(alg) \in Seq(Nat) /\ \E o : Ends(alg, o)
<1> DEFINE ts == alg.tables
           n == Len(ts)
           x == alg.external
           pre == [i \in 1 .. 4 * x |-> 2]
           ss == [i \in DOMAIN ts |-> TableBytes(ts[i])]
<1>1. ts \in Seq(Table) /\ x \in Nat
  BY DEF Response
<1> HIDE DEF ts, x
<1>2. /\ ss \in Seq(Seq(Nat)) /\ Len(ss) = n /\ n \in Nat
      /\ \A k \in 1 .. n : /\ ts[k] \in Table /\ ss[k] = TableBytes(ts[k])
                           /\ Len(ss[k]) = 4 + 4 * ts[k].ext
  <2>1. \A k \in 1 .. n : /\ ts[k] \in Table /\ TableBytes(ts[k]) \in Seq(Nat)
                          /\ Len(TableBytes(ts[k])) = 4 + 4 * ts[k].ext
    BY <1>1, TableShape
  <2>2. DOMAIN ts = 1 .. n /\ n \in Nat
    BY <1>1
  <2>3. ss = [i \in 1 .. n |-> TableBytes(ts[i])]
    BY <2>2
  <2> HIDE DEF ss, n
  <2>4. ss \in Seq(Seq(Nat)) /\ Len(ss) = n
    BY <2>1, <2>2, <2>3
  <2> QED BY <2>1, <2>2, <2>3, <2>4
<1>3. PICK f : Runs(ss, f, Nat)
  <2> HIDE DEF ss, n
  <2> QED BY <1>2, RunsExist
<1>4. ResponseBytes(alg) = pre \o f[n]
  <2>1. FlattenSeq(ss) = f[n]
    <3> HIDE DEF ss, n
    <3> QED BY <1>2, <1>3, FlattenIs
  <2>2. ResponseBytes(alg) = pre \o FlattenSeq(ss)
    BY DEF ResponseBytes, ts, x
  <2> HIDE DEF ss, n, pre
  <2> QED BY <2>1, <2>2
<1>5. pre \in Seq(Nat) /\ Len(pre) = 4 * x
  <2>1. 4 * x \in Nat
    BY <1>1
  <2> QED BY <2>1
<1>6. /\ \A k \in 0 .. n : f[k] \in Seq(Nat) /\ Len(f[k]) \in Nat
      /\ Len(f[0]) = 0
  <2> HIDE DEF ss, n
  <2>1. f \in [0 .. n -> Seq(Nat)] /\ f[0] = <<>>
    BY <1>2, <1>3 DEF Runs
  <2> QED BY <2>1
<1> HIDE DEF pre
<1>7. /\ pre \o f[n] \in Seq(Nat) /\ Len(pre \o f[n]) = 4 * x + Len(f[n])
      /\ \A p \in 1 .. Len(f[n]) : (pre \o f[n])[4 * x + p] = f[n][p]
  <2>1. n \in 0 .. n
    BY <1>2
  <2> HIDE DEF n, ss
  <2>2. pre \o f[n] \in Seq(Nat) /\ Joined(pre, f[n])
    BY <1>5, <1>6, <2>1, Concatenation
  <2> QED BY <1>5, <2>2 DEF Joined
<1> DEFINE o == [k \in 0 .. n |-> 4 * x + Len(f[k])]
           bytes == ResponseBytes(alg)
<1>8. ASSUME NEW k \in 1 .. n
      PROVE  /\ o[k] = o[k - 1] + (4 + 4 * ts[k].ext) /\ o[k] <= Len(bytes)
             /\ \A p \in 1 .. 4 : bytes[o[k - 1] + p] = TableBytes(ts[k])[p]
  <2>1. o[k] = 4 * x + Len(f[k]) /\ o[k - 1] = 4 * x + Len(f[k - 1]) /\ k - 1 \in 0 .. n
    BY <1>2
  <2> HIDE DEF ss, n, o
  <2>2. Stands(ss, f, k)
    BY <1>2, <1>3, RunsPlace
  <2>3. Len(f[k - 1]) \in Nat /\ ts[k].ext \in Nat /\ Len(ss[k]) = 4 + 4 * ts[k].ext
        /\ ss[k] = TableBytes(ts[k])
    <3>1. ts[k] \in Table
      BY <1>2
    <3>2. ts[k].ext \in Nat
      BY <3>1 DEF Table
    <3>3. Len(f[k - 1]) \in Nat
      BY <1>6, <2>1
    <3> QED BY <1>2, <3>2, <3>3
  <2>4. /\ Len(f[k]) = Len(f[k - 1]) + Len(ss[k]) /\ Len(f[k]) <= Len(f[n])
        /\ \A p \in 1 .. Len(ss[k]) : f[n][Len(f[k - 1]) + p] = ss[k][p]
    BY <1>2, <2>2 DEF Stands
  <2> DEFINE e == ts[k].ext
             l == Len(f[k - 1])
             m == Len(f[k])
             z == Len(f[n])
             y == 4 * x
  <2>5. /\ m = l + (4 + 4 * e) /\ m <= z /\ o[k] = y + m /\ o[k - 1] = y + l /\ Len(bytes) = y + z
        /\ l \in Nat /\ e \in Nat /\ y \in Nat /\ z \in Nat
    <3>1. Len(f[n]) \in Nat /\ Len(bytes) = 4 * x + Len(f[n])
      <4>1. n \in 0 .. n
        BY <1>2
      <4> HIDE DEF n
      <4> QED BY <1>4, <1>6, <1>7, <4>1
    <3>2. 4 * x \in Nat
      BY <1>1
    <3>3. Len(f[k]) = Len(f[k - 1]) + (4 + 4 * ts[k].ext)
      BY <2>3, <2>4
    <3> HIDE DEF n, bytes
    <3> QED BY <2>1, <2>3, <2>4, <3>1, <3>2, <3>3
  <2>6. ASSUME NEW p \in 1 .. 4 PROVE bytes[o[k - 1] + p] = TableBytes(ts[k])[p]
    <3>1. p \in 1 .. Len(ss[k]) /\ l + p \in 1 .. z
      <4>1. Len(ss[k]) = 4 + 4 * e
        BY <2>3
      <4> HIDE DEF e, l, m, z, y
      <4> QED BY <2>5, <4>1
    <3>2. f[n][l + p] = ss[k][p]
      BY <2>4, <3>1
    <3>3. bytes[y + (l + p)] = f[n][l + p]
      <4> HIDE DEF bytes
      <4> QED BY <1>4, <1>7, <3>1 DEF bytes
    <3>4. o[k - 1] + p = y + (l + p)
      <4> HIDE DEF l, y, e, m, z
      <4> QED BY <2>5
    <3> HIDE DEF bytes
    <3> QED BY <2>3, <3>2, <3>3, <3>4
  <2> HIDE DEF l, m, z, y
  <2>7. o[k] = o[k - 1] + (4 + 4 * e) /\ o[k] <= Len(bytes)
    <3> HIDE DEF e
    <3> QED BY <2>5
  <2> QED BY <2>6, <2>7
<1>9. o \in [0 .. n -> Nat] /\ o[0] = 4 * x /\ o[n] = Len(bytes)
  <2>1. 4 * x \in Nat /\ 0 \in 0 .. n /\ n \in 0 .. n
    BY <1>1, <1>2
  <2> HIDE DEF n, ss
  <2>2. Len(bytes) = 4 * x + Len(f[n])
    BY <1>4, <1>7
  <2>3. \A k \in 0 .. n : 4 * x + Len(f[k]) \in Nat
    BY <1>6, <2>1
  <2>4. 4 * x + 0 = 4 * x
    BY <2>1
  <2> HIDE DEF bytes
  <2> QED BY <1>6, <2>1, <2>2, <2>3, <2>4
<1>10. Ends(alg, o)
  <2> HIDE DEF o
  <2> QED BY <1>8, <1>9 DEF Ends, ts, n, x
<1>11. bytes \in Seq(Nat)
  BY <1>4, <1>7
<1> HIDE DEF o
<1> QED BY <1>10, <1>11

-----------------------------------------------------------------------------
(* The walk of pcapstat.py.                                                *)

\* What a reading says of a group, and the reading after k tables.
Says(alg, g) ==
    IF g \in FixedGroups THEN BitNames(alg.fixed[g])
    ELSE LET i == CHOOSE i \in DOMAIN alg.tables : GroupOf(alg.tables[i].type) = g
         IN NamesOf(alg.tables[i].type, alg.tables[i].value)
GroupsTo(alg, k) == FixedGroups \cup {GroupOf(alg.tables[i].type) : i \in 1 .. k}
ReadTo(alg, k) == [g \in GroupsTo(alg, k) |-> Says(alg, g)]

LEMMA TableGroups == \A type : GroupOf(type) \notin FixedGroups
<1> TAKE type
<1>1. AlgStruct[2] = "DHE" /\ AlgStruct[7] = "KEM" /\ DOMAIN AlgStruct = {2, 7}
  BY DEF AlgStruct
<1>2. GroupOf(type) \in {"DHE", "KEM", "AlgType"}
  BY <1>1 DEF GroupOf
<1> QED BY <1>2 DEF FixedGroups

LEMMA SaysOfTable ==
    ASSUME NEW alg, WellFormed(alg), NEW k \in DOMAIN alg.tables
    PROVE  Says(alg, GroupOf(alg.tables[k].type))
             = NamesOf(alg.tables[k].type, alg.tables[k].value)
<1> DEFINE g == GroupOf(alg.tables[k].type)
           i == CHOOSE i \in DOMAIN alg.tables : GroupOf(alg.tables[i].type) = g
<1>1. i \in DOMAIN alg.tables /\ GroupOf(alg.tables[i].type) = g
  OBVIOUS
<1>2. Says(alg, g) = NamesOf(alg.tables[i].type, alg.tables[i].value)
  BY TableGroups DEF Says
<1> HIDE DEF i
<1>3. i = k
  BY <1>1 DEF WellFormed
<1> QED BY <1>2, <1>3

\* One table more.
LEMMA ReadMore ==
    ASSUME NEW alg, WellFormed(alg), NEW k \in 1 .. Len(alg.tables)
    PROVE  Put(ReadTo(alg, k - 1), GroupOf(alg.tables[k].type),
               NamesOf(alg.tables[k].type, alg.tables[k].value)) = ReadTo(alg, k)
<1> DEFINE type == alg.tables[k].type
           value == alg.tables[k].value
           g == GroupOf(type)
           b == ReadTo(alg, k - 1)
           GroupAt(i) == GroupOf(alg.tables[i].type)
<1>1. k \in DOMAIN alg.tables /\ Len(alg.tables) \in Nat
  <2>1. alg.tables \in Seq(Table)
    BY DEF WellFormed, Response
  <2> QED BY <2>1
<1>2. Says(alg, g) = NamesOf(type, value)
  <2>1. Says(alg, GroupAt(k)) = NamesOf(alg.tables[k].type, alg.tables[k].value)
    BY <1>1, SaysOfTable
  <2> QED BY <2>1
<1>3. GroupsTo(alg, k) = {g} \cup GroupsTo(alg, k - 1)
  <2>1. {GroupAt(i) : i \in 1 .. k} = {GroupAt(k)} \cup {GroupAt(i) : i \in 1 .. k - 1}
    <3>1. 1 .. k = {k} \cup 1 .. k - 1
      BY <1>1
    <3> HIDE DEF GroupAt
    <3> QED BY <3>1
  <2> HIDE DEF GroupAt
  <2>2. GroupsTo(alg, k) = FixedGroups \cup {GroupAt(i) : i \in 1 .. k}
        /\ GroupsTo(alg, k - 1) = FixedGroups \cup {GroupAt(i) : i \in 1 .. k - 1}
    BY DEF GroupsTo, GroupAt
  <2>3. g = GroupAt(k)
    BY DEF GroupAt
  <2> HIDE DEF g
  <2> QED BY <2>1, <2>2, <2>3
<1>4. Put(b, g, NamesOf(type, value)) = [x \in {g} \cup GroupsTo(alg, k - 1) |->
                  IF x = g THEN NamesOf(type, value) ELSE Says(alg, x)]
  BY DEF ReadTo, Put
<1> HIDE DEF b
<1>5. Put(b, g, NamesOf(type, value)) = [x \in GroupsTo(alg, k) |-> Says(alg, x)]
  <2> HIDE DEF g
  <2> QED BY <1>2, <1>3, <1>4
<1> QED BY <1>5 DEF b, ReadTo

ReadAt(alg, o, k) == [off |-> o[k], why |-> "", read |-> ReadTo(alg, k)]

\* The next table is read where it is, as it is.
LEMMA NextTableReads ==
    ASSUME NEW alg, WellFormed(alg), NEW o, Ends(alg, o), NEW k \in 1 .. Len(alg.tables)
    PROVE  NextTable(ReadAt(alg, o, k - 1), ResponseBytes(alg)) = ReadAt(alg, o, k)
<1> DEFINE acc == ReadAt(alg, o, k - 1)
           bytes == ResponseBytes(alg)
           t == alg.tables[k]
           type == t.type
           value == t.value
           e == t.ext
           p == o[k - 1]
           l == Len(bytes)
           x == p + 3
           y == p + 2 + 2
           body == SubSeq(bytes, x, y)
           lo == value % 256
           hi == value \div 256
<1>1. alg \in Response /\ alg.tables \in Seq(Table)
  BY DEF WellFormed, Response
<1>2. t \in Table
  BY <1>1
<1>3. type \in Nat /\ value \in Nat /\ e \in Nat /\ e < 16
  <2>1. t.type \in Nat /\ t.value \in Nat /\ t.ext \in 0 .. 15
    <3> HIDE DEF t
    <3> QED BY <1>2 DEF Table
  <2> HIDE DEF t
  <2> QED BY <2>1
<1>4. bytes \in Seq(Nat) /\ l \in Nat
  <2>1. bytes \in Seq(Nat)
    BY <1>1, TablesEnd
  <2> QED BY <2>1
<1>5. p \in Nat /\ o[k] = p + (4 + 4 * e) /\ o[k] <= l
      /\ \A q \in 1 .. 4 : bytes[p + q] = TableBytes(t)[q]
  <2>1. k - 1 \in 0 .. Len(alg.tables)
    BY <1>1
  <2> QED BY <2>1 DEF Ends
<1>6. /\ bytes[p + 1] = type /\ bytes[p + 2] = 2 * 16 + e
      /\ bytes[p + 3] = lo /\ bytes[p + 4] = hi
  <2>1. /\ TableBytes(t)[1] = type /\ TableBytes(t)[2] = 2 * 16 + e
        /\ TableBytes(t)[3] = lo /\ TableBytes(t)[4] = hi
    BY <1>2, TableShape
  <2> HIDE DEF t, type, e, lo, hi, bytes, p
  <2> QED BY <1>5, <2>1
<1>7. lo \in Nat /\ hi \in Nat /\ lo + 256 * hi = value
  BY <1>3
<1> HIDE DEF t, type, value, e, p, bytes, l, lo, hi
<1>8. (2 * 16 + e) \div 16 = 2 /\ (2 * 16 + e) % 16 = e
  BY <1>3
<1>9. ~ (p + 2 > l) /\ ~ (p + 2 + 2 > l) /\ p + 2 + 2 + 4 * e = o[k] /\ p + 4 <= l
  <2>1. p \in Nat /\ e \in Nat /\ l \in Nat /\ p + (4 + 4 * e) <= l
        /\ o[k] = p + (4 + 4 * e)
    BY <1>3, <1>4, <1>5
  <2>2. p + 2 + 2 + 4 * e = p + (4 + 4 * e)
    BY <2>1
  <2>3. p + 4 <= l
    BY <2>1
  <2> QED BY <2>1, <2>2, <2>3
<1>10. LittleEndian(body) = value
  <2>1. x \in 1 .. Len(bytes) + 1 /\ y \in x - 1 .. Len(bytes)
    <3>1. p \in Nat /\ l \in Nat /\ p + 4 <= l /\ Len(bytes) = l
      BY <1>4, <1>5, <1>9 DEF l
    <3> QED BY <3>1
  <2>2. y - x + 1 = 2 /\ x + 1 - 1 = p + 3 /\ x + 2 - 1 = p + 4
    BY <1>5
  <2> HIDE DEF x, y
  <2>3. Slice(bytes, x, y)
    BY <1>4, <2>1, SliceOf
  <2>4. body = [i \in 1 .. y - x + 1 |-> bytes[x + i - 1]]
    BY <2>3 DEF Slice
  <2> HIDE DEF body
  <2>5. body = [i \in 1 .. 2 |-> IF i = 1 THEN lo ELSE hi]
    BY <1>6, <2>2, <2>4
  <2>6. LittleEndian(body) = lo + 256 * hi
    BY <1>7, <2>5, LittleEndianOfTwo
  <2> QED BY <1>7, <2>6
<1>11. Put(ReadTo(alg, k - 1), GroupOf(type), NamesOf(type, value)) = ReadTo(alg, k)
  BY ReadMore DEF t, type, value
<1> DEFINE r == ReadTo(alg, k - 1)
           s == ReadTo(alg, k)
           new == Put(r, GroupOf(type), NamesOf(type, LittleEndian(body)))
<1>12. new = s
  <2> HIDE DEF body
  <2> QED BY <1>10, <1>11
<1>13. acc.off = p /\ acc.why = "" /\ acc.read = r
  BY DEF p, ReadAt
<1> HIDE DEF acc
<1>14. NextTable(acc, bytes) = [off |-> p + 2 + 2 + 4 * e, why |-> "", read |-> new]
  BY <1>6, <1>8, <1>9, <1>13 DEF NextTable, l
<1> HIDE DEF acc, new, s, r
<1>15. ReadAt(alg, o, k) = [off |-> o[k], why |-> "", read |-> s]
  BY DEF ReadAt, s
<1> QED BY <1>9, <1>12, <1>14, <1>15 DEF acc, bytes

\* A response that says it has more tables is read to its end.
LEMMA NextTableStops ==
    ASSUME NEW alg, WellFormed(alg), NEW o, Ends(alg, o)
    PROVE  LET last == ReadAt(alg, o, Len(alg.tables))
               past == Stopped(last, "past the end")
           IN /\ NextTable(last, ResponseBytes(alg)) = past
              /\ NextTable(past, ResponseBytes(alg)) = past
              /\ past.read = last.read
<1> DEFINE n == Len(alg.tables)
           last == ReadAt(alg, o, n)
           bytes == ResponseBytes(alg)
           past == Stopped(last, "past the end")
<1>1. last.why = "" /\ last.off = Len(bytes) /\ Len(bytes) \in Nat
  <2>1. o[n] = Len(bytes)
    BY DEF Ends
  <2>2. bytes \in Seq(Nat)
    BY TablesEnd DEF WellFormed
  <2>3. Len(bytes) \in Nat
    BY <2>2
  <2> QED BY <2>1, <2>3 DEF ReadAt
<1>2. past.why = "past the end" /\ past.read = last.read
  BY DEF Stopped
<1> HIDE DEF n, last, bytes
<1>3. last.off + 2 > Len(bytes)
  <2> DEFINE l == Len(bytes)
  <2>1. last.off = l /\ l \in Nat
    BY <1>1
  <2> HIDE DEF l, past
  <2>2. l + 2 > l
    BY <2>1
  <2> QED BY <2>1, <2>2 DEF l
<1>4. NextTable(last, bytes) = past
  BY <1>1, <1>3 DEF NextTable
<1> HIDE DEF past
<1>5. NextTable(past, bytes) = past
  BY <1>2 DEF NextTable
<1> QED BY <1>2, <1>4, <1>5 DEF past, last, bytes, n

\* The reading of a response is the response: every group of its own table, and
\* no other, with its bits.
LEMMA AlgorithmsRead ==
    ASSUME NEW alg, WellFormed(alg)
    PROVE  Algorithms(alg) = ReadTo(alg, Len(alg.tables))
<1> DEFINE n == Len(alg.tables)
           c == alg.count
           bytes == ResponseBytes(alg)
<1>1. n \in Nat /\ c \in Nat /\ n <= c /\ alg # NoResponse /\ alg \in Response
  <2>1. alg \in Response /\ n <= c
    BY DEF WellFormed
  <2>2. alg.tables \in Seq(Table) /\ c \in Nat
    BY <2>1 DEF Response
  <2>3. NoResponse.count = -1
    BY DEF NoResponse
  <2>4. alg # NoResponse
    BY <2>2, <2>3
  <2>5. n \in Nat
    BY <2>2
  <2> QED BY <2>1, <2>2, <2>4, <2>5
<1>2. PICK o : Ends(alg, o)
  BY <1>1, TablesEnd
<1> DEFINE last == ReadAt(alg, o, n)
           past == Stopped(last, "past the end")
           h == [k \in 0 .. c |-> IF k <= n THEN ReadAt(alg, o, k) ELSE past]
           walk == CHOOSE walk : walk = [k \in 0 .. c |->
                     IF k = 0 THEN WalkedFrom(alg) ELSE NextTable(walk[k - 1], bytes)]
<1>3. /\ NextTable(last, bytes) = past /\ NextTable(past, bytes) = past
      /\ past.read = last.read
  BY <1>2, NextTableStops
<1>4. \A k \in 1 .. n : NextTable(ReadAt(alg, o, k - 1), bytes) = ReadAt(alg, o, k)
  BY <1>2, NextTableReads
<1>5. ReadAt(alg, o, 0) = WalkedFrom(alg)
  <2>1. GroupsTo(alg, 0) = FixedGroups
    <3>1. 1 .. 0 = {}
      OBVIOUS
    <3> QED BY <3>1 DEF GroupsTo
  <2>2. ReadTo(alg, 0) = [g \in FixedGroups |-> BitNames(alg.fixed[g])]
    BY <2>1 DEF ReadTo, Says
  <2>3. o[0] = 4 * alg.external
    BY <1>2 DEF Ends
  <2> QED BY <2>2, <2>3 DEF ReadAt, WalkedFrom
<1> HIDE DEF n, c, bytes
<1>6. h = [k \in 0 .. c |-> h[k]]
  OBVIOUS
<1>7. /\ \A k \in 0 .. n : h[k] = ReadAt(alg, o, k)
      /\ \A k \in 0 .. c : k > n => h[k] = past
  <2>1. \A k \in 0 .. n : k \in 0 .. c /\ k <= n
    BY <1>1
  <2>2. \A k \in 0 .. c : k > n => ~ (k <= n)
    BY <1>1
  <2> HIDE DEF past
  <2> QED BY <2>1, <2>2
<1> HIDE DEF h
<1>8. ASSUME NEW k \in 1 .. c PROVE h[k] = NextTable(h[k - 1], bytes)
  <2>1. CASE k <= n
    <3>1. k \in 0 .. n /\ k - 1 \in 0 .. n /\ k \in 1 .. n
      BY <1>1, <2>1
    <3> QED BY <1>4, <1>7, <3>1
  <2>2. CASE k = n + 1
    <3>1. k - 1 = n /\ n \in 0 .. n /\ k > n /\ k \in 0 .. c
      BY <1>1, <2>2
    <3>2. h[k - 1] = last /\ h[k] = past
      BY <1>7, <3>1
    <3> QED BY <1>3, <3>2
  <2>3. CASE k > n + 1
    <3>1. k - 1 > n /\ k - 1 \in 0 .. c /\ k > n /\ k \in 0 .. c
      BY <1>1, <2>3
    <3>2. h[k - 1] = past /\ h[k] = past
      BY <1>7, <3>1
    <3> QED BY <1>3, <3>2
  <2> QED BY <1>1, <2>1, <2>2, <2>3
<1>9. h[0] = WalkedFrom(alg)
  <2>1. 0 \in 0 .. n
    BY <1>1
  <2> QED BY <1>5, <1>7, <2>1
<1>10. \A k \in 0 .. c :
         h[k] = IF k = 0 THEN WalkedFrom(alg) ELSE NextTable(h[k - 1], bytes)
  <2> TAKE k \in 0 .. c
  <2>1. k = 0 \/ k \in 1 .. c
    BY <1>1
  <2> QED BY <1>8, <1>9, <2>1
<1>11. h = [k \in 0 .. c |->
             IF k = 0 THEN WalkedFrom(alg) ELSE NextTable(h[k - 1], bytes)]
  BY <1>6, <1>10
<1>12. walk = [k \in 0 .. c |->
                IF k = 0 THEN WalkedFrom(alg) ELSE NextTable(walk[k - 1], bytes)]
  BY <1>11
<1>13. Algorithms(alg) = walk[c].read
  BY <1>1 DEF Algorithms, Walk, c, bytes
<1> HIDE DEF walk
<1> DEFINE T == {k \in Nat : k \in 0 .. c => walk[k] = h[k]}
<1>14. 0 \in T
  BY <1>1, <1>9, <1>12
<1>15. ASSUME NEW k \in Nat, k \in T PROVE k + 1 \in T
  <2> DEFINE j == k + 1
  <2> SUFFICES ASSUME j \in 0 .. c PROVE walk[j] = h[j]
    OBVIOUS
  <2>1. k \in 0 .. c /\ j \in 1 .. c /\ j - 1 = k /\ j # 0
    BY <1>1
  <2>2. walk[k] = h[k]
    BY <1>15, <2>1
  <2> HIDE DEF j
  <2>3. walk[j] = NextTable(walk[j - 1], bytes)
    BY <1>12, <2>1
  <2> QED BY <1>8, <2>1, <2>2, <2>3
<1>16. walk[c] = h[c]
  <2>1. c \in T
    <3> HIDE DEF T
    <3>1. Nat \subseteq T
      BY <1>14, <1>15, Induct
    <3> QED BY <1>1, <3>1
  <2> QED BY <1>1, <2>1
<1>17. h[c].read = last.read
  <2>1. CASE c = n
    <3>1. n \in 0 .. n
      BY <1>1
    <3> QED BY <1>7, <2>1, <3>1
  <2>2. CASE c > n
    <3>1. c \in 0 .. c
      BY <1>1
    <3> QED BY <1>3, <1>7, <2>2, <3>1
  <2> QED BY <1>1, <2>1, <2>2
<1>18. last.read = ReadTo(alg, n)
  BY DEF ReadAt
<1> QED BY <1>13, <1>16, <1>17, <1>18 DEF n

-----------------------------------------------------------------------------
(* The two readings of a response.                                         *)

LEMMA TheGroups ==
    /\ Groups = {"Asym", "PqcAsym", "DHE", "KEM"}
    /\ \A g \in Groups : g \notin FixedGroups =>
         \A type : GroupOf(type) = g <=> type \in DOMAIN AlgStruct /\ AlgStruct[type] = g
<1>1. AlgStruct[2] = "DHE" /\ AlgStruct[7] = "KEM" /\ DOMAIN AlgStruct = {2, 7}
  BY DEF AlgStruct
<1>2. {AlgStruct[t] : t \in DOMAIN AlgStruct} = {"DHE", "KEM"}
  <2> HIDE DEF AlgStruct
  <2> QED BY <1>1
<1>3. Groups = {"Asym", "PqcAsym", "DHE", "KEM"}
  BY <1>2 DEF Groups, FixedGroups
<1>4. ASSUME NEW g \in Groups, g \notin FixedGroups, NEW type
      PROVE  GroupOf(type) = g <=> type \in DOMAIN AlgStruct /\ AlgStruct[type] = g
  <2>1. g # "AlgType"
    BY <1>3
  <2> QED BY <2>1 DEF GroupOf
<1> QED BY <1>3, <1>4

\* A group's two readings: both have the selection's named bits, and one says
\* too what has no name; or neither has it and nothing was selected.
Reading(alg, g) ==
    /\ Selected(alg, g) \in Nat
    /\ \/ /\ g \in DOMAIN Algorithms(alg)
          /\ Algorithms(alg)[g] = BitNames(Selected(alg, g))
          /\ AlgList(alg, g) = BitsOf(Selected(alg, g))
       \/ /\ g \notin DOMAIN Algorithms(alg)
          /\ AlgList(alg, g) = NotPrinted
          /\ Selected(alg, g) = 0

\* bench/pcapstat.py and harness/fields.py read one selection from a response,
\* for every well-formed response.
LEMMA ReadingsOfResponse ==
    ASSUME NEW alg, WellFormed(alg), NEW g \in Groups
    PROVE  Reading(alg, g)
<1> DEFINE n == Len(alg.tables)
           Of == {i \in DOMAIN alg.tables :
                    alg.tables[i].type \in DOMAIN AlgStruct /\ AlgStruct[alg.tables[i].type] = g}
           GroupAt(i) == GroupOf(alg.tables[i].type)
<1>1. /\ alg \in Response /\ alg.tables \in Seq(Table) /\ DOMAIN alg.tables = 1 .. n
      /\ \A i \in 1 .. n : alg.tables[i] \in Table
      /\ alg.fixed \in [FixedGroups -> Nat]
  <2>1. alg \in Response
    BY DEF WellFormed
  <2>2. alg.tables \in Seq(Table) /\ alg.fixed \in [FixedGroups -> Nat]
    BY <2>1 DEF Response
  <2> QED BY <2>1, <2>2
<1>2. alg # NoResponse
  <2>1. alg.count \in Nat
    BY <1>1 DEF Response
  <2> QED BY <2>1 DEF NoResponse
<1>3. Algorithms(alg) = [x \in GroupsTo(alg, n) |-> Says(alg, x)]
  BY AlgorithmsRead DEF ReadTo
<1>4. CASE g \in FixedGroups
  <2>1. g \in GroupsTo(alg, n) /\ Says(alg, g) = BitNames(alg.fixed[g])
    BY <1>4 DEF GroupsTo, Says
  <2>2. Selected(alg, g) = alg.fixed[g] /\ Selected(alg, g) \in Nat
    BY <1>1, <1>4 DEF Selected
  <2>3. AlgList(alg, g) = BitsOf(Selected(alg, g))
    BY <1>2, <1>4 DEF AlgList
  <2> QED BY <1>3, <2>1, <2>2, <2>3 DEF Reading
<1>5. CASE g \notin FixedGroups
  <2>1. \A i \in 1 .. n : i \in Of <=> GroupAt(i) = g
    BY <1>1, <1>5, TheGroups
  <2>2. g \in GroupsTo(alg, n) <=> \E i \in 1 .. n : GroupAt(i) = g
    BY <1>5 DEF GroupsTo
  <2>3. Of \subseteq 1 .. n
    BY <1>1
  <2>4. Selected(alg, g) = IF Of = {} THEN 0 ELSE alg.tables[CHOOSE i \in Of : TRUE].value
    BY <1>5 DEF Selected
  <2>5. AlgList(alg, g) = IF Of # {} THEN BitsOf(Selected(alg, g)) ELSE NotPrinted
    BY <1>2, <1>5 DEF AlgList
  <2>6. CASE Of = {}
    <3> HIDE DEF GroupAt, Of
    <3>1. g \notin GroupsTo(alg, n)
      BY <2>1, <2>2, <2>6
    <3>2. Selected(alg, g) = 0 /\ AlgList(alg, g) = NotPrinted
      BY <2>4, <2>5, <2>6
    <3> QED BY <1>3, <3>1, <3>2 DEF Reading
  <2>7. CASE Of # {}
    <3> DEFINE i == CHOOSE i \in Of : TRUE
    <3>1. i \in Of
      <4> HIDE DEF Of
      <4> QED BY <2>7
    <3> HIDE DEF i, Of
    <3>2. i \in 1 .. n /\ GroupAt(i) = g
      BY <2>1, <2>3, <3>1
    <3>3. Selected(alg, g) = alg.tables[i].value /\ AlgList(alg, g) = BitsOf(Selected(alg, g))
      BY <2>4, <2>5, <2>7 DEF i
    <3>4. alg.tables[i].value \in Nat
      <4>1. alg.tables[i] \in Table
        BY <1>1, <3>2
      <4> QED BY <4>1 DEF Table
    <3>5. g \in GroupsTo(alg, n)
      <4> HIDE DEF GroupAt
      <4> QED BY <2>2, <3>2
    <3>6. Says(alg, g) = NamesOf(alg.tables[i].type, alg.tables[i].value)
      <4>1. i \in DOMAIN alg.tables
        BY <1>1, <3>2
      <4>2. Says(alg, GroupAt(i)) = NamesOf(alg.tables[i].type, alg.tables[i].value)
        BY <4>1, SaysOfTable
      <4> HIDE DEF GroupAt
      <4> QED BY <3>2, <4>2
    <3>7. NamesOf(alg.tables[i].type, alg.tables[i].value) = BitNames(alg.tables[i].value)
      BY <1>5, <3>2, TheGroups DEF NamesOf
    <3> HIDE DEF GroupAt
    <3>8. Algorithms(alg)[g] = BitNames(Selected(alg, g)) /\ g \in DOMAIN Algorithms(alg)
      BY <1>3, <3>3, <3>5, <3>6, <3>7
    <3> QED BY <3>3, <3>4, <3>8 DEF Reading
  <2> QED BY <2>6, <2>7
<1> QED BY <1>4, <1>5

\* And of no response.
LEMMA ReadingsOfNone == \A g \in Groups : Reading(NoResponse, g)
<1> TAKE g \in Groups
<1>1. NoResponse.fixed = [x \in FixedGroups |-> 0] /\ NoResponse.tables = <<>>
  BY DEF NoResponse
<1>2. DOMAIN NoResponse.tables = {}
  BY <1>1
<1>3. Selected(NoResponse, g) = 0
  <2>1. CASE g \in FixedGroups
    BY <1>1, <2>1 DEF Selected
  <2>2. CASE g \notin FixedGroups
    BY <1>2, <2>2 DEF Selected
  <2> QED BY <2>1, <2>2
<1>4. Algorithms(NoResponse) = <<>> /\ AlgList(NoResponse, g) = NotPrinted
  BY DEF Algorithms, AlgList
<1>5. g \notin DOMAIN Algorithms(NoResponse)
  BY <1>4
<1> QED BY <1>3, <1>4, <1>5 DEF Reading

LEMMA ReadingsAgree ==
    ASSUME NEW g \in Groups, WireInv
    PROVE  Reading(wire.alg, g)
<1>1. wire.alg = NoResponse \/ WellFormed(wire.alg)
  BY DEF WireInv
<1> QED BY <1>1, ReadingsOfResponse, ReadingsOfNone

-----------------------------------------------------------------------------
(* What a verdict means.                                                   *)

\* The decode of a group that has one reading, and what the two readings' agreement says.
LEMMA GroupJudged ==
    ASSUME NEW g \in Groups, WireInv
    PROVE  LET v == Selected(wire.alg, g)
               mine == Algorithms(wire.alg)
               theirs == AsList(AlgList(wire.alg, g))
           IN /\ theirs = BitsOf(v)
              /\ Nameless(v) # 0 <=> g \in DOMAIN mine /\ mine[g] # theirs
<1> DEFINE v == Selected(wire.alg, g)
           mine == Algorithms(wire.alg)
           list == AlgList(wire.alg, g)
<1>1. /\ v \in Nat
      /\ \/ g \in DOMAIN mine /\ mine[g] = BitNames(v) /\ list = BitsOf(v)
         \/ g \notin DOMAIN mine /\ list = NotPrinted /\ v = 0
  BY ReadingsAgree DEF Reading
<1> HIDE DEF v, mine, list
<1>2. /\ BitsOf(v) \subseteq {1, 2} /\ Nameless(v) \in Int /\ Nameless(v) \notin {1, 2}
      /\ v = 0 => BitsOf(v) = {} /\ Nameless(v) = 0
  BY <1>1, NamelessIsNoBit
<1>3. BitsOf(v) # NotPrinted
  <2>1. -1 \notin {1, 2}
    OBVIOUS
  <2> QED BY <1>2, <2>1 DEF NotPrinted
<1>4. AsList(list) = BitsOf(v)
  BY <1>1, <1>2, <1>3 DEF AsList
<1>5. Nameless(v) # 0 <=> BitNames(v) # BitsOf(v)
  BY <1>2 DEF BitNames
<1> QED BY <1>1, <1>2, <1>4, <1>5 DEF v, mine, list

\* What the property says of an arm recorded as declared, from the verdict and the
\* wire alone.
LEMMA DeclaredIsTrue == IInv => AsDeclaredIsTrue
<1> SUFFICES ASSUME IInv PROVE AsDeclaredIsTrue
  OBVIOUS
<1> DEFINE alg == wire.alg
           doc == Fields(wire)
           expect == Declared.expect
           mine == Algorithms(alg)
<1>1. WireInv /\ ArmInv
  BY DEF IInv
<1>2. /\ doc.negotiated = [g \in Groups |-> AlgList(alg, g)] /\ doc.dts = wire.dts
      /\ doc.mutualAuth.encapsulated = (wire.encapsulated /\ ~DecodeTruncated(wire))
      /\ doc.chunks = wire.chainChunks + IF DecodeTruncated(wire) THEN 0 ELSE wire.laterChunks
  BY DEF Fields, MutualAuth, Chunking
<1>3. ASSUME Judged
      PROVE  cmdline = [argv |-> arm, responder |-> rspArr]
  BY <1>1, <1>3 DEF ArmInv, Judged
<1>4. CompareNegotiated(mine, doc.negotiated)
        = {g \in Groups : Nameless(Selected(alg, g)) # 0}
  <2>1. \A g \in Groups :
          Nameless(Selected(alg, g)) # 0
            <=> g \in DOMAIN mine /\ mine[g] # AsList(doc.negotiated[g])
    BY <1>1, <1>2, GroupJudged
  <2>2. DOMAIN doc.negotiated = Groups
    BY <1>2
  <2> HIDE DEF mine, doc, alg
  <2> QED BY <2>1, <2>2 DEF CompareNegotiated
<1>5. CrossCheck(wire) # 0 <=> CompareNegotiated(mine, doc.negotiated) # {}
  <2>1. CrossCheck(wire) = IF CompareNegotiated(mine, doc.negotiated) # {} THEN 1 ELSE 0
    BY <1>2 DEF CrossCheck, Capabilities
  <2> QED BY <2>1
<1>6. ASSUME Judged, CrossCheck(wire) # 0
      PROVE  \E g \in Groups : Nameless(Selected(wire.alg, g)) # 0
  BY <1>4, <1>5, <1>6
<1>7. ASSUME Judged, CrossCheck(wire) = 0
      PROVE  /\ \A g \in DOMAIN expect.groups :
                  /\ BitsOf(Selected(wire.alg, g)) = expect.groups[g]
                  /\ Nameless(Selected(wire.alg, g)) = 0
             /\ expect.dts # 0 =>
                  \A end \in {"requester", "responder"} : wire.dts[end] = expect.dts
             /\ Whole /\ expect.mutAuth = "off" => ~wire.encapsulated
             /\ Whole /\ expect.chunk = "off" => wire.chainChunks + wire.laterChunks = 0
  <2>1. /\ GroupProblems(doc, expect) = {} /\ ~MutAuthProblem(doc, expect)
        /\ ~ChunkProblem(doc, expect) /\ ~DtsProblem(doc, expect)
    <3>1. CheckNegotiated(doc, expect) = 0
      BY <1>1, <1>7 DEF ArmInv
    <3> HIDE DEF doc, expect
    <3> QED BY <3>1 DEF CheckNegotiated
  <2>2. ASSUME NEW g \in DOMAIN expect.groups
        PROVE  /\ BitsOf(Selected(alg, g)) = expect.groups[g]
               /\ Nameless(Selected(alg, g)) = 0
    <3>1. g \in Groups
      <4>1. DOMAIN doc.negotiated = Groups
        BY <1>2
      <4> HIDE DEF doc, expect
      <4> QED BY <2>1, <2>2, <4>1 DEF GroupProblems
    <3>2. AsList(doc.negotiated[g]) = expect.groups[g]
      <4> HIDE DEF doc, expect
      <4> QED BY <2>1, <2>2 DEF GroupProblems
    <3>3. AsList(AlgList(alg, g)) = BitsOf(Selected(alg, g))
      BY <1>1, <3>1, GroupJudged
    <3>4. doc.negotiated[g] = AlgList(alg, g)
      <4> HIDE DEF doc, alg
      <4> QED BY <1>2, <3>1
    <3>5. Nameless(Selected(alg, g)) = 0
      <4> HIDE DEF alg, mine, doc
      <4> QED BY <1>4, <1>5, <1>7, <3>1
    <3> HIDE DEF doc, alg, expect
    <3> QED BY <3>2, <3>3, <3>4, <3>5
  <2>3. expect.dts # 0 =>
          \A end \in {"requester", "responder"} : wire.dts[end] = expect.dts
    <3> HIDE DEF doc, expect
    <3> QED BY <1>2, <2>1 DEF DtsProblem
  <2>4. Whole => ~DecodeTruncated(wire)
    BY DEF Whole, DecodeTruncated
  <2>5. Whole /\ expect.mutAuth = "off" => ~wire.encapsulated
    <3>1. expect.mutAuth = "off" => ~doc.mutualAuth.encapsulated
      <4> HIDE DEF doc, expect
      <4> QED BY <2>1 DEF MutAuthProblem
    <3>2. wire.encapsulated \in BOOLEAN
      BY <1>1 DEF WireInv, Wires
    <3> HIDE DEF doc, expect
    <3> QED BY <1>2, <2>4, <3>1, <3>2
  <2>6. Whole /\ expect.chunk = "off" => wire.chainChunks + wire.laterChunks = 0
    <3>1. expect.chunk = "off" => ~(doc.chunks > 0)
      <4> HIDE DEF doc, expect
      <4> QED BY <2>1 DEF ChunkProblem
    <3>2. wire.chainChunks \in Nat /\ wire.laterChunks \in Nat
      BY <1>1 DEF WireInv, Wires
    <3>3. Whole => doc.chunks = wire.chainChunks + wire.laterChunks
      <4> HIDE DEF doc
      <4> QED BY <1>2, <2>4
    <3> HIDE DEF doc, expect
    <3> QED BY <3>1, <3>2, <3>3
  <2> QED BY <2>2, <2>3, <2>5, <2>6
<1> QED BY <1>3, <1>6, <1>7 DEF AsDeclaredIsTrue

-----------------------------------------------------------------------------
(* The invariant.                                                          *)

LEMMA NoWireInv == NoWire \in Wires /\ NoWire.alg = NoResponse
BY DEF NoWire, Wires, NoSize

LEMMA InitIInv == Init => IInv
<1> SUFFICES ASSUME Init PROVE IInv
  OBVIOUS
<1>1. wire = NoWire /\ phase = "next"
  BY DEF Init
<1>2. WireInv
  BY <1>1, NoWireInv DEF WireInv, Wires
<1>3. ArmInv
  BY <1>1 DEF ArmInv, Judged
<1> QED BY <1>2, <1>3 DEF IInv

\* The tables a responder sends are those of a well-formed response.
LEMMA SentTables ==
    ASSUME NEW a \in Seq(Table), NEW b \in Seq(Table), NEW c \in Seq(Table),
           Len(a) <= 1, Len(b) <= 1, Len(c) <= 1,
           \A i \in 1 .. Len(a) : a[i].type = 2,
           \A i \in 1 .. Len(b) : b[i].type = 8,
           \A i \in 1 .. Len(c) : c[i].type = 7
    PROVE  /\ a \o b \o c \in Seq(Table)
           /\ \A i, j \in DOMAIN (a \o b \o c) :
                GroupOf((a \o b \o c)[i].type) = GroupOf((a \o b \o c)[j].type) => i = j
<1> DEFINE x == a \o b
           y == x \o c
           la == Len(a)
           lb == Len(b)
           lc == Len(c)
<1>1. /\ x \in Seq(Table) /\ la \in Nat /\ lb \in Nat /\ Len(x) = la + lb
      /\ \A p \in 1 .. la : x[p] = a[p]
      /\ \A p \in 1 .. lb : x[la + p] = b[p]
  BY Concatenation DEF Joined
<1> HIDE DEF x
<1>2. /\ y \in Seq(Table) /\ lc \in Nat /\ Len(y) = Len(x) + lc
      /\ \A p \in 1 .. Len(x) : y[p] = x[p]
      /\ \A p \in 1 .. lc : y[Len(x) + p] = c[p]
  BY <1>1, Concatenation DEF Joined
<1> HIDE DEF y
<1>3. DOMAIN y = 1 .. la + lb + lc
  BY <1>1, <1>2
<1> DEFINE TypeAt(i) == IF i <= la THEN 2 ELSE IF i <= la + lb THEN 8 ELSE 7
<1> HIDE DEF la, lb, lc
<1>4. ASSUME NEW i \in 1 .. la + lb + lc PROVE y[i].type = TypeAt(i)
  <2>1. CASE i <= la
    <3>1. i \in 1 .. la /\ i \in 1 .. la + lb
      BY <1>1, <1>2, <2>1
    <3>2. y[i] = a[i] /\ a[i].type = 2
      BY <1>1, <1>2, <3>1 DEF la
    <3> QED BY <2>1, <3>2
  <2>2. CASE i > la /\ i <= la + lb
    <3> DEFINE p == i - la
    <3>1. p \in 1 .. lb /\ la + p = i /\ i \in 1 .. la + lb
      BY <1>1, <1>2, <2>2
    <3> HIDE DEF p
    <3>2. y[i] = b[p] /\ b[p].type = 8
      BY <1>1, <1>2, <3>1 DEF lb
    <3>3. ~ (i <= la)
      BY <1>1, <2>2
    <3> QED BY <2>2, <3>2, <3>3
  <2>3. CASE i > la + lb
    <3> DEFINE p == i - (la + lb)
    <3>1. p \in 1 .. lc /\ la + lb + p = i
      BY <1>1, <1>2, <2>3
    <3> HIDE DEF p
    <3>2. y[i] = c[p] /\ c[p].type = 7
      BY <1>1, <1>2, <3>1 DEF lc
    <3>3. ~ (i <= la) /\ ~ (i <= la + lb)
      BY <1>1, <2>3
    <3> QED BY <3>2, <3>3
  <2> QED BY <1>1, <2>1, <2>2, <2>3
<1>5. GroupOf(2) = "DHE" /\ GroupOf(7) = "KEM" /\ GroupOf(8) = "AlgType"
  BY DEF GroupOf, AlgStruct
<1>6. la <= 1 /\ lb <= 1 /\ lc <= 1
  BY DEF la, lb, lc
<1>7. ASSUME NEW i \in 1 .. la + lb + lc, NEW j \in 1 .. la + lb + lc,
             GroupOf(y[i].type) = GroupOf(y[j].type)
      PROVE  i = j
  <2>1. GroupOf(TypeAt(i)) = GroupOf(TypeAt(j))
    BY <1>4, <1>7
  <2>2. TypeAt(i) \in {2, 7, 8} /\ TypeAt(j) \in {2, 7, 8}
    OBVIOUS
  <2>3. TypeAt(i) = TypeAt(j)
    <3> HIDE DEF TypeAt
    <3> QED BY <1>5, <2>1, <2>2
  <2> QED BY <1>1, <1>2, <1>6, <2>3
<1> QED BY <1>2, <1>3, <1>7 DEF y, x

\* What the responder answers NEGOTIATE_ALGORITHMS with.
LEMMA NegotiateWire == WireInv /\ NegotiateAlgorithms => WireInv'
<1> SUFFICES ASSUME WireInv, NegotiateAlgorithms PROVE WireInv'
  OBVIOUS
<1>1. PICK fixed \in [FixedGroups -> Selections], external \in 0 .. MaxExternal,
           table \in [DOMAIN AlgStruct -> Selections], absent \in SUBSET DOMAIN AlgStruct,
           unknown \in BOOLEAN, ext \in 0 .. MaxExternal, over \in {0, 1} :
        wire' = [wire EXCEPT !.alg =
                   Answer(fixed, external, table, absent, unknown, ext, over)]
  BY ZenonT(90) DEF NegotiateAlgorithms
<1> DEFINE known(t) == IF t \in absent THEN <<>>
                       ELSE << [type |-> t, value |-> table[t], ext |-> 0] >>
           a == known(2)
           b == IF unknown THEN << [type |-> 8, value |-> 1, ext |-> ext] >> ELSE <<>>
           c == known(7)
           tables == a \o b \o c
           alg == [fixed |-> fixed, external |-> external, tables |-> tables,
                   count |-> Len(tables) + over]
<1>2. Selections \subseteq Nat /\ MaxExternal \in 0 .. 15 /\ 2 \in DOMAIN AlgStruct
      /\ 7 \in DOMAIN AlgStruct
  BY ArmsAssumption DEF AlgStruct
<1>3. table[2] \in Nat /\ table[7] \in Nat /\ ext \in 0 .. 15 /\ external \in Nat
      /\ fixed \in [FixedGroups -> Nat] /\ over \in Nat
  <2>1. table[2] \in Selections /\ table[7] \in Selections
    <3> HIDE DEF AlgStruct
    <3> QED BY <1>2
  <2>2. fixed \in [FixedGroups -> Nat]
    BY <1>2
  <2>3. ext \in 0 .. 15 /\ external \in Nat
    BY <1>2
  <2>4. table[2] \in Nat /\ table[7] \in Nat
    BY <1>2, <2>1
  <2>5. over \in Nat
    OBVIOUS
  <2> QED BY <2>2, <2>3, <2>4, <2>5, Zenon
<1>4. a \in Seq(Table) /\ Len(a) <= 1 /\ \A i \in 1 .. Len(a) : a[i].type = 2
  <2>1. [type |-> 2, value |-> table[2], ext |-> 0] \in Table
    BY <1>3 DEF Table
  <2>2. CASE 2 \in absent
    BY <2>2
  <2>3. CASE 2 \notin absent
    BY <2>1, <2>3
  <2> QED BY <2>2, <2>3
<1>5. b \in Seq(Table) /\ Len(b) <= 1 /\ \A i \in 1 .. Len(b) : b[i].type = 8
  <2>1. [type |-> 8, value |-> 1, ext |-> ext] \in Table
    BY <1>3 DEF Table
  <2>2. CASE unknown
    BY <2>1, <2>2
  <2>3. CASE ~unknown
    BY <2>3
  <2> QED BY <2>2, <2>3
<1>6. c \in Seq(Table) /\ Len(c) <= 1 /\ \A i \in 1 .. Len(c) : c[i].type = 7
  <2>1. [type |-> 7, value |-> table[7], ext |-> 0] \in Table
    BY <1>3 DEF Table
  <2>2. CASE 7 \in absent
    BY <2>2
  <2>3. CASE 7 \notin absent
    BY <2>1, <2>3
  <2> QED BY <2>2, <2>3
<1>7. wire' = [wire EXCEPT !.alg = alg]
  BY <1>1 DEF Answer
<1> HIDE DEF a, b, c
<1>8. /\ tables \in Seq(Table)
      /\ \A i, j \in DOMAIN tables : GroupOf(tables[i].type) = GroupOf(tables[j].type) => i = j
  BY <1>4, <1>5, <1>6, SentTables
<1> HIDE DEF tables
<1> DEFINE l == Len(tables)
<1>9. l \in Nat /\ l + over \in Nat /\ l <= l + over
  <2>1. l \in Nat
    BY <1>8
  <2> HIDE DEF l
  <2> QED BY <1>3, <2>1
<1>10. alg \in Response
  BY <1>3, <1>8, <1>9 DEF Response
<1>11. WellFormed(alg)
  <2>1. alg.tables = tables /\ alg.count = l + over
    OBVIOUS
  <2> HIDE DEF alg, l
  <2> QED BY <1>8, <1>9, <1>10, <2>1 DEF WellFormed, l
<1> HIDE DEF alg
<1>12. wire' \in Wires /\ wire'.alg = alg
  BY <1>7, <1>10 DEF WireInv, Wires
<1> QED BY <1>11, <1>12 DEF WireInv, Wires

LEMMA StepWire == IInv /\ [Next]_vars => WireInv'
<1> SUFFICES ASSUME WireInv, ArmInv, [Next]_vars PROVE WireInv'
  BY DEF IInv
<1>1. wire \in Wires
  BY DEF WireInv, Wires
<1>2. ASSUME wire' \in Wires, wire'.alg = wire.alg PROVE WireInv'
  BY <1>2 DEF WireInv, Wires
<1>3. CASE wire' = wire
  BY <1>1, <1>2, <1>3
<1>4. CASE wire' = NoWire
  BY <1>4, NoWireInv DEF WireInv, Wires
<1>5. CASE ExchangeCapabilities
  <2> DEFINE dts == [requester |-> Advertised("requester size"),
                     responder |-> Advertised("responder size")]
  <2>1. arm \in ArmIds
    BY <1>5 DEF ArmInv, ExchangeCapabilities, Crossing
  <2>2. \A flag : Advertised(flag) \in Int
    BY <2>1, ArmsAssumption DEF Advertised, Declared
  <2>3. dts \in [requester : Int, responder : Int]
    BY <2>2
  <2>4. wire' = [wire EXCEPT !.dts = dts]
    BY <1>5 DEF ExchangeCapabilities
  <2> HIDE DEF dts
  <2> QED BY <1>1, <1>2, <2>3, <2>4 DEF Wires
<1>6. CASE NegotiateAlgorithms
  BY <1>6, NegotiateWire
<1>7. CASE FetchChain
  <2>1. PICK chain \in {"small", "large"}, n \in {0, 1} :
          wire' = [wire EXCEPT !.chain = chain, !.chainChunks = n]
    BY <1>7 DEF FetchChain
  <2>2. wire' \in Wires
    <3> DEFINE D == [requester : Int, responder : Int]
               A == Response \cup {NoResponse}
               C == {"none", "small", "large"}
               W == [dts : D, alg : A, chain : C, chainChunks : Nat, laterChunks : Nat,
                     encapsulated : BOOLEAN, requesterChain : BOOLEAN]
    <3>1. W = Wires
      BY DEF Wires
    <3>2. chain \in C /\ n \in Nat
      OBVIOUS
    <3> HIDE DEF D, A, C
    <3>3. [wire EXCEPT !.chain = chain, !.chainChunks = n] \in W
      BY <1>1, <3>1, <3>2
    <3> QED BY <2>1, <3>1, <3>3
  <2>3. wire'.alg = wire.alg
    BY <1>1, <2>1 DEF Wires
  <2> QED BY <1>2, <2>2, <2>3
<1>8. CASE FinishHandshake
  <2>1. PICK encapsulated \in BOOLEAN, requesterChain \in BOOLEAN, n \in {0, 1} :
          wire' = [wire EXCEPT !.encapsulated = encapsulated,
                     !.requesterChain = requesterChain, !.laterChunks = n]
    BY <1>8 DEF FinishHandshake, Honoured
  <2>2. wire' \in Wires
    <3> DEFINE D == [requester : Int, responder : Int]
               A == Response \cup {NoResponse}
               C == {"none", "small", "large"}
               W == [dts : D, alg : A, chain : C, chainChunks : Nat, laterChunks : Nat,
                     encapsulated : BOOLEAN, requesterChain : BOOLEAN]
    <3>1. W = Wires
      BY DEF Wires
    <3>2. n \in Nat
      OBVIOUS
    <3> HIDE DEF D, A, C
    <3>3. [wire EXCEPT !.encapsulated = encapsulated, !.requesterChain = requesterChain,
             !.laterChunks = n] \in W
      BY <1>1, <3>1, <3>2
    <3> QED BY <2>1, <3>1, <3>3
  <2>3. wire'.alg = wire.alg
    BY <1>1, <2>1 DEF Wires
  <2> QED BY <1>2, <2>2, <2>3
<1>9. CASE Skip \/ Launch \/ HandshakeEnds \/ Judge
  BY <1>3, <1>9 DEF Skip, Launch, HandshakeEnds, Judge
<1>10. CASE NextArm
  BY <1>4, <1>10 DEF NextArm
<1>11. CASE UNCHANGED vars
  BY <1>3, <1>11 DEF vars
<1> QED BY <1>5, <1>6, <1>7, <1>8, <1>9, <1>10, <1>11 DEF Next

LEMMA StepArm == ArmInv /\ [Next]_vars => ArmInv'
<1> SUFFICES ASSUME ArmInv, [Next]_vars PROVE ArmInv'
  OBVIOUS
<1>1. CASE Skip \/ NextArm
  BY <1>1 DEF ArmInv, Judged, Skip, NextArm
<1>2. CASE Launch
  BY <1>2 DEF ArmInv, Judged, Launch, RspArr
<1>3. ASSUME NEW from, NEW to, Crossing(from, to), from # "next", to # "judged"
      PROVE  ArmInv'
  BY <1>3 DEF ArmInv, Judged, Crossing
<1>4. CASE ExchangeCapabilities \/ NegotiateAlgorithms
  BY <1>3, <1>4 DEF ExchangeCapabilities, NegotiateAlgorithms
<1>5. CASE FetchChain \/ FinishHandshake
  BY <1>3, <1>5 DEF FetchChain, FinishHandshake
<1>6. CASE HandshakeEnds
  BY <1>6 DEF ArmInv, Judged, HandshakeEnds, Running
<1>7. CASE Judge
  <2>1. /\ phase = "ended" /\ phase' = "judged"
        /\ arm' = arm /\ rspArr' = rspArr /\ cmdline' = cmdline /\ wire' = wire
        /\ verdict' = "as-declared" => CheckNegotiated(Fields(wire), Declared.expect) = 0
    BY <1>7 DEF Judge
  <2> QED BY <2>1 DEF ArmInv, Judged, Declared
<1>8. CASE UNCHANGED vars
  BY <1>8 DEF ArmInv, Judged, Declared, vars
<1> QED BY <1>1, <1>2, <1>4, <1>5, <1>6, <1>7, <1>8 DEF Next

LEMMA StepIInv == IInv /\ [Next]_vars => IInv'
BY StepWire, StepArm DEF IInv

\* The loop's invariant, for any arms and any build.
THEOREM Inductive == Spec => []IInv
<1>1. Init => IInv
  BY InitIInv
<1>2. IInv /\ [Next]_vars => IInv'
  BY StepIInv
<1> QED BY <1>1, <1>2, PTL DEF Spec

\* An arm recorded as declared (harness/run_pair.sh, check_negotiated.py) carried
\* what it declared, for any list of arms, any selections and any flags ignored.
THEOREM DeclaredHolds == Spec => []AsDeclaredIsTrue
<1>1. IInv => AsDeclaredIsTrue
  BY DeclaredIsTrue
<1> QED BY <1>1, Inductive, PTL

\* On the bytes of every well-formed ALGORITHMS response pcapstat.py and fields.py
\* read one selection per group (bench/pcapstat.py, algorithms; harness/fields.py,
\* alg_list).
THEOREM OneSelectionRead == Spec => [](\A g \in Groups : Reading(wire.alg, g))
<1>1. IInv => \A g \in Groups : Reading(wire.alg, g)
  BY ReadingsAgree DEF IInv
<1> QED BY <1>1, Inductive, PTL

-----------------------------------------------------------------------------
(* The runner (harness/lib/handshake.sh), which runs the two arms and all  *)
(* the other cases: the responders that outlive their cases are known, and *)
(* the evidence of a case is its own but for those.                        *)

USE MaxCasesAssumption DEF Cases, None, Alive

LEMMA RunnerInit == RunInit => RunIInv
BY MaxCasesAssumption
DEF RunInit, RunIInv, TypeOK, RunInv, OrphansAreKnown, EvidenceInv

\* A process that goes away frees its port, and is nobody's orphan.
LEMMA RunnerKills ==
    ASSUME RunIInv, NEW i \in Cases \cup {None}, Kill(i)
    PROVE  /\ rsp' \in [Cases -> {"none", "starting", "listening", "dead"}]
           /\ port' \in Cases \cup {None}
           /\ \A j \in Cases : rsp'[j] = "listening" <=> port' = j
           /\ \A j \in Cases : Alive(j)' => Alive(j) /\ j # i
           /\ \A j \in Cases : rsp'[j] # "none" => rsp[j] # "none" \/ j = i
<1>1. CASE i = None
  BY <1>1 DEF Kill, RunIInv, TypeOK, RunInv
<1>2. CASE i # None
  BY <1>2 DEF Kill, RunIInv, TypeOK, RunInv
<1> QED BY <1>1, <1>2

LEMMA RunnerStep == RunIInv /\ [RunNext]_runVars => RunIInv'
<1> SUFFICES ASSUME RunIInv, [RunNext]_runVars PROVE RunIInv'
  OBVIOUS
<1>1. CASE StartCase
  <2>0. cur' = cur + 1 /\ cur + 1 \in Cases
    BY <1>1 DEF StartCase, RunIInv, TypeOK
  <2>1. TypeOK'
    <3>1. proxied' \subseteq Cases
      <4>1. proxied \subseteq Cases
        BY DEF RunIInv, TypeOK
      <4>2. proxied' \in {proxied, proxied \cup {cur'}}
        BY <1>1, Zenon DEF StartCase
      <4> QED BY <2>0, <4>1, <4>2
    <3>2. cur' \in 0 .. MaxCases /\ cur' # 0
      BY <2>0 DEF RunIInv, TypeOK
    <3> QED BY <1>1, <3>1, <3>2 DEF StartCase, RunIInv, TypeOK
  <2>2. RunInv'
    BY <1>1 DEF StartCase, RunIInv, TypeOK, RunInv
  <2>3. OrphansAreKnown'
    BY <1>1 DEF StartCase, RunIInv, TypeOK, RunInv, OrphansAreKnown
  <2>4. EvidenceInv'
    BY <1>1 DEF StartCase, RunIInv, TypeOK, RunInv, EvidenceInv
  <2> QED BY <2>1, <2>2, <2>3, <2>4 DEF RunIInv
<1>2. CASE ProxyReady
  BY <1>2
  DEF ProxyReady, proxyVars, RunIInv, TypeOK, RunInv, OrphansAreKnown, EvidenceInv
<1>3. ASSUME EndScript, pc # "idle" PROVE RunIInv'
  <2>1. cur \in Cases /\ pid \in Cases \cup {None}
    BY <1>3 DEF RunIInv, TypeOK
  <2>2. /\ rsp' \in [Cases -> {"none", "starting", "listening", "dead"}]
        /\ port' \in Cases \cup {None}
        /\ \A j \in Cases : rsp'[j] = "listening" <=> port' = j
        /\ \A j \in Cases : Alive(j)' => Alive(j)
        /\ \A j \in Cases : rsp'[j] # "none" => rsp[j] # "none" \/ j = pid
    <3>1. CASE "responder" \in script.traps
      BY <1>3, <2>1, <3>1, RunnerKills DEF EndScript
    <3>2. CASE "responder" \notin script.traps
      BY <1>3, <3>2 DEF EndScript, RunIInv, TypeOK, RunInv
    <3> QED BY <3>1, <3>2
  <2>3. /\ status' \in [Cases -> {"none", "exit", "90", "91", "killed"}]
        /\ \A i \in Cases : status'[i] = IF i = cur /\ status[i] = "none" THEN "killed"
                                         ELSE status[i]
    BY <1>3, <2>1 DEF EndScript, RunIInv, TypeOK
  <2>4. /\ pc' = "idle" /\ pid' = None /\ script' \in Scripts
        /\ proxy' \in {"none", proxy} /\ UNCHANGED <<cur, proxied, served, client, spoke>>
    BY <1>3 DEF EndScript
  <2>5. TypeOK'
    BY <2>2, <2>3, <2>4 DEF RunIInv, TypeOK
  <2>6. RunInv'
    BY <1>3, <2>1, <2>2, <2>3, <2>4 DEF RunIInv, TypeOK, RunInv
  <2>7. OrphansAreKnown'
    BY <1>3, <2>1, <2>2, <2>3, <2>4 DEF RunIInv, TypeOK, RunInv, OrphansAreKnown
  <2>8. EvidenceInv'
    BY <1>3, <2>1, <2>2, <2>3, <2>4 DEF RunIInv, TypeOK, RunInv, EvidenceInv
  <2> QED BY <2>5, <2>6, <2>7, <2>8 DEF RunIInv
<1>4. CASE ProxyNever \/ Killed
  BY <1>3, <1>4 DEF ProxyNever, Killed
<1>5. CASE EnterFails
  BY <1>5
  DEF EnterFails, proxyVars, RunIInv, TypeOK, RunInv, OrphansAreKnown, EvidenceInv
<1>6. CASE Enter
  BY <1>6
  DEF Enter, proxyVars, RunIInv, TypeOK, RunInv, OrphansAreKnown, EvidenceInv
<1>7. CASE Listening
  <2>1. TypeOK'
    BY <1>7 DEF Listening, proxyVars, RunIInv, TypeOK
  <2>2. RunInv'
    BY <1>7 DEF Listening, proxyVars, RunIInv, TypeOK, RunInv
  <2>3. OrphansAreKnown'
    BY <1>7 DEF Listening, proxyVars, RunIInv, TypeOK, RunInv, OrphansAreKnown
  <2>4. EvidenceInv'
    BY <1>7 DEF Listening, proxyVars, RunIInv, TypeOK, RunInv, EvidenceInv
  <2> QED BY <2>1, <2>2, <2>3, <2>4 DEF RunIInv
<1>8. CASE NeverListening
  <2>1. TypeOK'
    BY <1>8 DEF NeverListening, proxyVars, RunIInv, TypeOK
  <2>2. RunInv'
    BY <1>8 DEF NeverListening, proxyVars, RunIInv, TypeOK, RunInv
  <2>3. OrphansAreKnown'
    BY <1>8
    DEF NeverListening, proxyVars, RunIInv, TypeOK, RunInv, OrphansAreKnown
  <2>4. EvidenceInv'
    BY <1>8 DEF NeverListening, proxyVars, RunIInv, TypeOK, RunInv, EvidenceInv
  <2> QED BY <2>1, <2>2, <2>3, <2>4 DEF RunIInv
<1>9. CASE Cleanup
  <2>1. pid \in Cases /\ pid = cur
    BY <1>9 DEF Cleanup, RunIInv, TypeOK, RunInv
  <2>2. Kill(pid)
    BY <1>9 DEF Cleanup
  <2> QED
    BY <1>9, <2>1, <2>2, RunnerKills
    DEF Cleanup, proxyVars, RunIInv, TypeOK, RunInv, OrphansAreKnown, EvidenceInv
<1>10. CASE Join
  BY <1>10 DEF Join, RunIInv, TypeOK, RunInv, OrphansAreKnown, EvidenceInv
<1>11. CASE ProxyMoves \/ ProxyExits
  <2>1. TypeOK'
    BY <1>11 DEF ProxyMoves, ProxyExits, RunIInv, TypeOK
  <2>2. RunInv'
    BY <1>11 DEF ProxyMoves, ProxyExits, RunIInv, TypeOK, RunInv
  <2>3. OrphansAreKnown'
    BY <1>11
    DEF ProxyMoves, ProxyExits, RunIInv, TypeOK, RunInv, OrphansAreKnown
  <2>4. EvidenceInv'
    BY <1>11 DEF ProxyMoves, ProxyExits, RunIInv, TypeOK, RunInv, EvidenceInv
  <2> QED BY <2>1, <2>2, <2>3, <2>4 DEF RunIInv
<1>12. ASSUME NEW i \in Cases, RspBinds(i) PROVE RunIInv'
  <2>1. TypeOK'
    BY <1>12 DEF RspBinds, proxyVars, RunIInv, TypeOK
  <2>2. RunInv'
    BY <1>12 DEF RspBinds, proxyVars, RunIInv, TypeOK, RunInv
  <2>3. OrphansAreKnown'
    BY <1>12 DEF RspBinds, proxyVars, RunIInv, TypeOK, RunInv, OrphansAreKnown
  <2>4. EvidenceInv'
    BY <1>12 DEF RspBinds, proxyVars, RunIInv, TypeOK, RunInv, EvidenceInv
  <2> QED BY <2>1, <2>2, <2>3, <2>4 DEF RunIInv
<1>13. ASSUME NEW i \in Cases, RspDies(i) PROVE RunIInv'
  BY <1>13, RunnerKills
  DEF RspDies, proxyVars, RunIInv, TypeOK, RunInv, OrphansAreKnown, EvidenceInv
<1>14. ASSUME NEW i \in Cases, ClientConnects(i) PROVE RunIInv'
  <2>1. PICK peer \in {port, None} :
          /\ spoke' = [spoke EXCEPT ![i] = peer]
          /\ client' = [client EXCEPT ![i] = IF peer = None THEN "ended" ELSE "talking"]
    BY <1>14 DEF ClientConnects
  <2>2. UNCHANGED <<script, pc, cur, pid, rsp, port, proxied, status>>
        /\ client[i] = "starting"
    BY <1>14 DEF ClientConnects
  <2>3. TypeOK'
    BY <1>14, <2>1, <2>2 DEF ClientConnects, RunIInv, TypeOK
  <2>4. RunInv'
    BY <2>1, <2>2 DEF RunIInv, TypeOK, RunInv
  <2>5. OrphansAreKnown'
    BY <2>2 DEF RunIInv, OrphansAreKnown
  <2>6. EvidenceInv'
    <3>1. ASSUME status[i] # "killed", peer \notin {None, i}
          PROVE  peer < i /\ status[peer] \in {"91", "killed"}
      <4>1. i = cur /\ pc = "client"
        BY <2>2, <3>1 DEF RunIInv, RunInv
      <4>2. peer \in Cases /\ Alive(peer)
        BY <2>1, <3>1 DEF RunIInv, TypeOK, RunInv
      <4>3. peer # pid /\ peer <= cur
        BY <3>1, <4>1, <4>2 DEF RunIInv, RunInv
      <4> QED BY <3>1, <4>1, <4>2, <4>3 DEF RunIInv, OrphansAreKnown
    <3> QED BY <2>1, <2>2, <3>1 DEF RunIInv, TypeOK, EvidenceInv
  <2> QED BY <2>3, <2>4, <2>5, <2>6 DEF RunIInv
<1>15. ASSUME NEW i \in Cases, ClientEnds(i) PROVE RunIInv'
  BY <1>15
  DEF ClientEnds, proxyVars, RunIInv, TypeOK, RunInv, OrphansAreKnown, EvidenceInv
<1>16. ASSUME NEW i \in Cases, ClientShutsDown(i) PROVE RunIInv'
  <2>1. spoke[i] \in Cases \cup {None} /\ Kill(spoke[i])
    BY <1>16 DEF ClientShutsDown, RunIInv, TypeOK
  <2> QED
    BY <1>16, <2>1, RunnerKills
    DEF ClientShutsDown, proxyVars, RunIInv, TypeOK, RunInv, OrphansAreKnown, EvidenceInv
<1>17. CASE UNCHANGED runVars
  BY <1>17 DEF runVars, RunIInv, TypeOK, RunInv, OrphansAreKnown, EvidenceInv
<1> QED
  BY <1>1, <1>2, <1>4, <1>5, <1>6, <1>7, <1>8, <1>9, <1>10, <1>11, <1>12, <1>13,
     <1>14, <1>15, <1>16, <1>17
  DEF RunNext, ScriptStep, ClientStep

\* However many cases and scripts, and whatever the processes do.
THEOREM RunnerInductive == RunSpec => []RunIInv
BY RunnerInit, RunnerStep, PTL DEF RunSpec

\* The types of the variables, and no case under way before one has begun.
THEOREM RunnerTypes == RunSpec => []TypeOK
<1>1. RunIInv => TypeOK
  BY DEF RunIInv
<1> QED BY <1>1, RunnerInductive, PTL

\* A responder outlives its case only after 91, or after a killed script.
THEOREM OrphansHold == RunSpec => []OrphansAreKnown
<1>1. RunIInv => OrphansAreKnown
  BY DEF RunIInv
<1> QED BY <1>1, RunnerInductive, PTL

\* A completed case's capture is of its own responder, or of such an orphan.
THEOREM EvidenceHolds == RunSpec => []EvidenceIsOwn
<1>1. RunIInv => EvidenceIsOwn
  BY DEF RunIInv, EvidenceInv, EvidenceIsOwn
<1> QED BY <1>1, RunnerInductive, PTL

-----------------------------------------------------------------------------
(* What challenge_verify.py makes of a capture that missed nothing.        *)

FirstCodes == {"GET_VERSION", "VERSION", "GET_CAPABILITIES", "CAPABILITIES",
               "NEGOTIATE_ALGORITHMS", "ALGORITHMS"}
LaterCodes == {"GET_DIGESTS", "DIGESTS", "GET_CERTIFICATE", "CERTIFICATE", "CHALLENGE",
               "CHALLENGE_AUTH", "ERROR"}
Captured == [seq : {0}, code : FirstCodes \cup LaterCodes, dir : {"REQ", "RSP"},
             raw : Seq(Nat), carried : {<<>>}]
Known == [version : Versions, a : Seq(Nat), b : Seq(Nat), cert : BOOLEAN, error : BOOLEAN,
          first : {"none", "good", "faulty"}, slot : Slots \cup {-1}, withCert : BOOLEAN]

ChallengeTypeOK ==
    /\ capture \in Seq(Captured)
    /\ conns \in Seq(Known)
    /\ \/ fetch = NotFetching
       \/ fetch.slot \in Slots /\ fetch.at \in Nat /\ fetch.at < Len(Chain(fetch.slot))
    /\ fetched \in [Slots -> {"none", "begun", "whole", "spoiled"}]
    /\ lost \in Nat /\ spent \in Nat

\* No two signatures have the same bytes.
Fresh ==
    \A sig \in signatures :
      /\ sig = [key |-> sig.key, m1m2 |-> sig.m1m2, raw |-> sig.raw]
      /\ \E k \in 0 .. spent - 1 : sig.raw = Fill(100 + k, SigBytes)
      /\ \A other \in signatures : other.raw = sig.raw => other = sig

\* seg is what was captured of the connection known as c.
Opened(seg, c) ==
    /\ Len(seg) >= 6
    /\ \A k \in 1 .. 6 : seg[k] = Opening(c.version)[k]
    /\ \A k \in 7 .. Len(seg) : seg[k].code \in LaterCodes
    /\ c.a = V!Raws(Opening(c.version))

Unasked(seg, c) ==
    /\ \A k \in DOMAIN seg : seg[k].code # "CHALLENGE"
    /\ c.cert = \E k \in DOMAIN seg : seg[k].code = "CERTIFICATE"
    /\ ~c.error => c.b = V!BBytes(seg, Len(seg) + 1)

\* Its first CHALLENGE stands at `at`, and sig answers it.
Signed(seg, c, at, shape, sig) ==
    /\ at \in 7 .. Len(seg) - 1
    /\ \A k \in 1 .. at - 1 : seg[k].code # "CHALLENGE"
    /\ c.withCert = \E k \in 1 .. at - 1 : seg[k].code = "CERTIFICATE"
    /\ seg[at].code = "CHALLENGE" /\ seg[at + 1].code = "CHALLENGE_AUTH"
    /\ seg[at].raw = Asked(c.version, c.slot, shape)
    /\ seg[at + 1].raw = Unsigned(c.version, c.slot, shape) \o sig.raw
    /\ sig.key = KeyOf(Last(Certificates[c.slot]))
    /\ ~c.error => (c.first = "good") = (sig.m1m2 = c.a \o V!BBytes(seg, at) \o
                      Asked(c.version, c.slot, shape) \o Unsigned(c.version, c.slot, shape))
Asks(seg, c, sigs) ==
    /\ c.slot \in Slots
    /\ \E at \in 1 .. Len(seg) : \E shape \in Shapes[c.slot] : \E sig \in sigs :
         Signed(seg, c, at, shape, sig)

Recounts(seg, c, sigs) ==
    /\ Opened(seg, c)
    /\ c.error = \E k \in DOMAIN seg : seg[k].code = "ERROR"
    /\ c.first = "none" => Unasked(seg, c)
    /\ c.first # "none" => Asks(seg, c, sigs)

SegmentsAre(messages, known, sigs) ==
    LET segs == V!Segments(messages) IN
    /\ Len(segs) = Len(known)
    /\ \A n \in 1 .. Len(known) : Recounts(segs[n], known[n], sigs)
SegmentsInv == SegmentsAre(capture, conns, signatures)

\* What has been collected of a slot's chain, at bytes into the fetch under way.
Begins(bytes, s) == Len(bytes) >= 2 /\ bytes[1] = Chain(s)[1] /\ bytes[2] = Chain(s)[2]
Collects(acc, s, at, has) ==
    /\ at \in Nat /\ at < Len(Chain(s))
    /\ has = "none" => acc = V!NoPortions /\ at = 0
    /\ has = "begun" =>
         /\ acc.done = <<>>
         /\ \E x \in 2 .. Len(Chain(s)) - 1 :
              acc.partial = SubSeq(Chain(s), 1, x) /\ at \in {0, x}
    /\ has = "whole" => acc.done # <<>> /\ acc.done[1] = Chain(s)
    /\ has = "spoiled" =>
         IF acc.done = <<>> THEN Begins(acc.partial, s) /\ Len(acc.partial) >= 2 + at
         ELSE Begins(acc.done[1], s) /\ Len(acc.done[1]) > Len(Chain(s))
At(s) == IF fetch.slot = s THEN fetch.at ELSE 0
ChainsInv == \A s \in Slots : Collects(V!Assembled(capture, s), s, At(s), fetched[s])

ChallengeIInv ==
    /\ ChallengeTypeOK /\ Fresh
    /\ lost = 0 => SegmentsInv /\ ChainsInv

-----------------------------------------------------------------------------
(* Sequences.                                                              *)

\* Two sequences with the same members are the same.
LEMMA SameSeq ==
    ASSUME NEW S, NEW s \in Seq(S), NEW t \in Seq(S), Len(s) = Len(t),
           \A k \in 1 .. Len(s) : s[k] = t[k]
    PROVE  s = t
OBVIOUS

LEMMA Member ==
    ASSUME NEW S, NEW s \in Seq(S), NEW k \in 1 .. Len(s)
    PROVE  s[k] \in S
OBVIOUS

LEMMA AppendedReplaced ==
    ASSUME NEW S, NEW s \in Seq(S), NEW x \in S, NEW y \in S
    PROVE  /\ Append(s, x) \in Seq(S) /\ Append(s, x) # <<>>
           /\ Len(Append(s, x)) = Len(s) + 1 /\ Append(s, x)[Len(s) + 1] = x
           /\ [Append(s, x) EXCEPT ![Len(s) + 1] = y] = Append(s, y)
<1> DEFINE a == Append(s, x)
           b == [a EXCEPT ![Len(s) + 1] = y]
<1>1. /\ a \in Seq(S) /\ Len(a) = Len(s) + 1 /\ Len(s) \in Nat /\ a[Len(s) + 1] = x
      /\ \A k \in 1 .. Len(s) : a[k] = s[k]
  OBVIOUS
<1> HIDE DEF a
<1>2. b \in Seq(S) /\ Len(b) = Len(s) + 1
  BY <1>1
<1>3. \A k \in 1 .. Len(b) : b[k] = Append(s, y)[k]
  BY <1>1, <1>2
<1>4. Append(s, y) \in Seq(S) /\ Len(Append(s, y)) = Len(s) + 1
  OBVIOUS
<1> HIDE DEF b
<1>5. b = Append(s, y)
  BY <1>2, <1>3, <1>4, SameSeq
<1>6. a # <<>>
  BY <1>1
<1> QED BY <1>1, <1>5, <1>6 DEF a, b

LEMMA BothIn ==
    ASSUME NEW S, NEW s \in Seq(S), Len(s) = 2
    PROVE  s[1] \in S /\ s[2] \in S
<1>1. 1 \in 1 .. Len(s) /\ 2 \in 1 .. Len(s)
  OBVIOUS
<1> QED BY <1>1, Member

LEMMA FirstStays ==
    ASSUME NEW S, NEW s \in Seq(S), NEW x \in S, s # <<>>
    PROVE  Append(s, x) # <<>> /\ Append(s, x)[1] = s[1]
<1>1. 1 \in 1 .. Len(s)
  OBVIOUS
<1> QED BY <1>1

LEMMA FirstAndRest ==
    ASSUME NEW S, NEW s \in Seq(S), NEW n \in Nat, Len(s) = n + 1
    PROVE  /\ <<s[1]>> \in Seq(S) /\ SubSeq(s, 2, n + 1) \in Seq(S)
           /\ Len(SubSeq(s, 2, n + 1)) = n
           /\ \A k \in 1 .. n : SubSeq(s, 2, n + 1)[k] = s[k + 1]
           /\ <<s[1]>> \o SubSeq(s, 2, n + 1) = s
<1> DEFINE t == SubSeq(s, 2, n + 1)
<1>1. s[1] \in S
  OBVIOUS
<1>2. <<s[1]>> \in Seq(S)
  BY <1>1
<1>3. t \in Seq(S) /\ Len(t) = n /\ \A k \in 1 .. n : t[k] = s[k + 1]
  OBVIOUS
<1> HIDE DEF t
<1>4. <<s[1]>> \o t = s
  BY <1>1, <1>2, <1>3
<1> QED BY <1>2, <1>3, <1>4 DEF t

LEMMA JoinAssociates ==
    ASSUME NEW S, NEW s \in Seq(S), NEW t \in Seq(S), NEW u \in Seq(S)
    PROVE  (s \o t) \o u = s \o (t \o u)
<1> DEFINE l == (s \o t) \o u
           r == s \o (t \o u)
<1>1. l \in Seq(S) /\ r \in Seq(S) /\ Len(l) = Len(r)
  OBVIOUS
<1>2. \A k \in 1 .. Len(l) : l[k] = r[k]
  OBVIOUS
<1> HIDE DEF l, r
<1>3. l = r
  BY <1>1, <1>2, SameSeq
<1> QED BY <1>3 DEF l, r

\* t is joined to s one element after the other.
LEMMA JoinAppends ==
    ASSUME NEW S, NEW s \in Seq(S), NEW t \in Seq(S)
    PROVE  /\ s \o SubSeq(t, 1, 0) = s
           /\ s \o SubSeq(t, 1, Len(t)) = s \o t
           /\ \A k \in 1 .. Len(t) :
                /\ SubSeq(t, 1, k - 1) \in Seq(S)
                /\ s \o SubSeq(t, 1, k) = Append(s \o SubSeq(t, 1, k - 1), t[k])
<1>1. SubSeq(t, 1, Len(t)) = t /\ SubSeq(t, 1, 0) = <<>>
  OBVIOUS
<1>2. ASSUME NEW k \in 1 .. Len(t)
      PROVE  /\ SubSeq(t, 1, k - 1) \in Seq(S)
             /\ s \o SubSeq(t, 1, k) = Append(s \o SubSeq(t, 1, k - 1), t[k])
  <2> DEFINE l == s \o SubSeq(t, 1, k)
             r == Append(s \o SubSeq(t, 1, k - 1), t[k])
  <2>1. /\ SubSeq(t, 1, k) \in Seq(S) /\ Len(SubSeq(t, 1, k)) = k
        /\ \A i \in 1 .. k : SubSeq(t, 1, k)[i] = t[i]
    OBVIOUS
  <2>2. /\ SubSeq(t, 1, k - 1) \in Seq(S) /\ Len(SubSeq(t, 1, k - 1)) = k - 1
        /\ \A i \in 1 .. k - 1 : SubSeq(t, 1, k - 1)[i] = t[i]
    OBVIOUS
  <2>3. l \in Seq(S) /\ r \in Seq(S) /\ Len(l) = Len(s) + k /\ Len(r) = Len(l)
    BY <2>1, <2>2
  <2>4. \A i \in 1 .. Len(l) : l[i] = r[i]
    BY <2>1, <2>2, <2>3
  <2> HIDE DEF l, r
  <2>5. l = r
    BY <2>3, <2>4, SameSeq
  <2> QED BY <2>2, <2>5 DEF l, r
<1> QED BY <1>1, <1>2

LEMMA JoinNext ==
    ASSUME NEW S, NEW s \in Seq(S), NEW t \in Seq(S), NEW k \in Nat, k + 1 <= Len(t)
    PROVE  /\ SubSeq(t, 1, k) \in Seq(S)
           /\ s \o SubSeq(t, 1, k + 1) = Append(s \o SubSeq(t, 1, k), t[k + 1])
<1>1. k + 1 \in 1 .. Len(t) /\ (k + 1) - 1 = k
  OBVIOUS
<1>2. /\ SubSeq(t, 1, (k + 1) - 1) \in Seq(S)
      /\ s \o SubSeq(t, 1, k + 1) = Append(s \o SubSeq(t, 1, (k + 1) - 1), t[k + 1])
  <2>1. \A j \in 1 .. Len(t) :
          /\ SubSeq(t, 1, j - 1) \in Seq(S)
          /\ s \o SubSeq(t, 1, j) = Append(s \o SubSeq(t, 1, j - 1), t[j])
    BY JoinAppends
  <2> QED BY <1>1, <2>1, Zenon
<1> QED BY <1>1, <1>2

\* What is where in s \o t.
After(u, s, t, n, j) ==
    /\ Len(u) = n + j
    /\ \A p \in 1 .. n : u[p] = s[p]
    /\ \A p \in n + 1 .. n + j : u[p] = t[p - n]

LEMMA JoinAfter ==
    ASSUME NEW S, NEW s \in Seq(S), NEW t \in Seq(S)
    PROVE  s \o t \in Seq(S) /\ After(s \o t, s, t, Len(s), Len(t))
BY DEF After

\* The parts of s \o t.
LEMMA JoinParts ==
    ASSUME NEW S, NEW s \in Seq(S), NEW t \in Seq(S)
    PROVE  /\ SubSeq(s \o t, 1, Len(s)) = s
           /\ SubSeq(s \o t, Len(s) + 1, Len(s \o t)) = t
<1>1. SubSeq(s \o t, 1, Len(s)) \in Seq(S) /\ Len(SubSeq(s \o t, 1, Len(s))) = Len(s)
  OBVIOUS
<1>2. \A k \in 1 .. Len(s) : SubSeq(s \o t, 1, Len(s))[k] = s[k]
  OBVIOUS
<1>3. SubSeq(s \o t, 1, Len(s)) = s
  BY <1>1, <1>2, SameSeq
<1> DEFINE u == SubSeq(s \o t, Len(s) + 1, Len(s \o t))
<1>4. u \in Seq(S) /\ Len(u) = Len(t) /\ \A k \in 1 .. Len(t) : u[k] = t[k]
  OBVIOUS
<1> HIDE DEF u
<1>5. u = t
  BY <1>4, SameSeq
<1> QED BY <1>3, <1>5 DEF u

\* Flattening one sequence more.
LEMMA FlattenAppend ==
    ASSUME NEW S, NEW ss \in Seq(Seq(S)), NEW x \in Seq(S)
    PROVE  /\ FlattenSeq(ss) \in Seq(S)
           /\ FlattenSeq(Append(ss, x)) = FlattenSeq(ss) \o x
<1> DEFINE t == Append(ss, x)
           n == Len(ss)
<1>1. t \in Seq(Seq(S)) /\ Len(t) = n + 1 /\ n \in Nat /\ t[n + 1] = x /\ SubSeq(t, 1, n) = ss
  OBVIOUS
<1> HIDE DEF t
<1>2. PICK f : Runs(t, f, S)
  BY <1>1, RunsExist
<1>3. FlattenSeq(t) = f[n + 1]
  BY <1>1, <1>2, FlattenIs
<1>4. FlattenSeq(SubSeq(t, 1, n)) = f[n]
  <2>1. n \in 0 .. Len(t)
    BY <1>1
  <2> QED BY <1>1, <1>2, <2>1, RunsPrefix
<1> HIDE DEF n
<1>5. f[n] \in Seq(S) /\ f[n + 1] = f[n] \o x
  <2>1. n \in 0 .. n + 1 /\ n + 1 \in 1 .. n + 1 /\ (n + 1) - 1 = n
    BY <1>1
  <2>2. f \in [0 .. n + 1 -> Seq(S)] /\ \A k \in 1 .. n + 1 : f[k] = f[k - 1] \o t[k]
    BY <1>1, <1>2 DEF Runs
  <2>3. f[n + 1] = f[(n + 1) - 1] \o t[n + 1]
    BY <2>1, <2>2
  <2> QED BY <1>1, <2>1, <2>2, <2>3
<1> QED BY <1>1, <1>3, <1>4, <1>5 DEF t

-----------------------------------------------------------------------------
(* segments, a message at a time.                                          *)

LEMMA Codes ==
    /\ "GET_VERSION" \in FirstCodes /\ "GET_VERSION" \notin LaterCodes
    /\ \A m \in Captured : /\ m.code \in FirstCodes \cup LaterCodes
                           /\ m.raw \in Seq(Nat)
BY DEF FirstCodes, LaterCodes, Captured

Segs == Seq(Seq(Captured))
SegmentStep == [y \in Segs \X Captured |-> V!Segmented(y[1], y[2])]

LEMMA SegmentedType ==
    ASSUME NEW segs \in Segs, NEW m \in Captured
    PROVE  V!Segmented(segs, m) \in Segs
<1>1. CASE m.code = "GET_VERSION"
  <2>1. <<m>> \in Seq(Captured)
    OBVIOUS
  <2>2. V!Segmented(segs, m) = Append(segs, <<m>>)
    BY <1>1 DEF V!Segmented
  <2> QED BY <2>1, <2>2 DEF Segs
<1>2. CASE m.code # "GET_VERSION" /\ segs = <<>>
  BY <1>2 DEF V!Segmented
<1>3. CASE m.code # "GET_VERSION" /\ segs # <<>>
  <2>1. Len(segs) \in 1 .. Len(segs) /\ segs[Len(segs)] \in Seq(Captured)
    BY <1>3 DEF Segs
  <2> DEFINE last == Append(segs[Len(segs)], m)
  <2>2. last \in Seq(Captured)
    BY <2>1
  <2>3. V!Segmented(segs, m) = [segs EXCEPT ![Len(segs)] = last]
    BY <1>3 DEF V!Segmented
  <2> HIDE DEF last
  <2> QED BY <2>1, <2>2, <2>3 DEF Segs
<1> QED BY <1>1, <1>2, <1>3

LEMMA SegmentStepType == <<>> \in Segs /\ SegmentStep \in [Segs \X Captured -> Segs]
<1>1. \A y \in Segs \X Captured : V!Segmented(y[1], y[2]) \in Segs
  BY SegmentedType
<1> QED BY <1>1 DEF SegmentStep, Segs

LEMMA SegmentsFold ==
    ASSUME NEW s \in Seq(Captured)
    PROVE  \E f \in [0 .. Len(s) -> Segs] :
             FoldsTo(f, <<>>, s, SegmentStep) /\ V!Segments(s) = f[Len(s)]
<1> DEFINE n == Len(s)
           Begun(g) == g = [k \in 0 .. n |-> IF k = 0 THEN <<>> ELSE V!Segmented(g[k - 1], s[k])]
           c == CHOOSE g : Begun(g)
<1>1. n \in Nat /\ \A k \in 1 .. n : s[k] \in Captured
  OBVIOUS
<1>2. PICK f \in [0 .. n -> Segs] : FoldsTo(f, <<>>, s, SegmentStep)
  <2> DEFINE b == <<>>
  <2>1. b \in Segs /\ SegmentStep \in [Segs \X Captured -> Segs]
    BY SegmentStepType
  <2> HIDE DEF b
  <2>2. \E f \in [0 .. n -> Segs] : FoldsTo(f, b, s, SegmentStep)
    BY <2>1, FoldExists
  <2> QED BY <2>2 DEF b
<1>3. f[0] = <<>> /\ Folded(f, s, SegmentStep, n)
  BY <1>1, <1>2, FoldShape
<1>4. \A k \in 1 .. n : f[k] = V!Segmented(f[k - 1], s[k])
  <2> SUFFICES ASSUME NEW k \in 1 .. n PROVE f[k] = V!Segmented(f[k - 1], s[k])
    OBVIOUS
  <2>1. f[k - 1] \in Segs /\ s[k] \in Captured
    <3>1. k - 1 \in 0 .. n
      BY <1>1
    <3> QED BY <1>1, <3>1
  <2>2. SegmentStep[<<f[k - 1], s[k]>>] = V!Segmented(f[k - 1], s[k])
    BY <2>1 DEF SegmentStep
  <2> QED BY <1>3, <2>2 DEF Folded
<1>5. Begun(f)
  <2>1. \A k \in 0 .. n : f[k] = IF k = 0 THEN <<>> ELSE V!Segmented(f[k - 1], s[k])
    <3> SUFFICES ASSUME NEW k \in 0 .. n
                 PROVE  f[k] = IF k = 0 THEN <<>> ELSE V!Segmented(f[k - 1], s[k])
      OBVIOUS
    <3>1. CASE k = 0
      BY <1>3, <3>1
    <3>2. CASE k # 0
      <4>1. k \in 1 .. n
        BY <1>1, <3>2
      <4> QED BY <1>4, <3>2, <4>1
    <3> QED BY <3>1, <3>2
  <2> HIDE DEF n
  <2> QED BY <2>1
<1>6. Begun(c)
  BY <1>5
<1>7. V!Segments(s) = c[n]
  BY DEF V!Segments
<1>8. c[n] = f[n]
  <2> DEFINE T == {i \in Nat : i <= n => c[i] = f[i]}
  <2>1. 0 \in T
    <3>1. 0 \in 0 .. n
      BY <1>1
    <3>2. c[0] = <<>>
      BY <1>6, <3>1, Zenon
    <3> QED BY <1>3, <3>2
  <2>2. ASSUME NEW i \in Nat, i \in T PROVE i + 1 \in T
    <3>1. SUFFICES ASSUME i + 1 <= n PROVE c[i + 1] = f[i + 1]
      OBVIOUS
    <3>2. c[i] = f[i] /\ i + 1 \in 1 .. n /\ i + 1 \in 0 .. n /\ i + 1 # 0 /\ (i + 1) - 1 = i
      BY <1>1, <2>2, <3>1
    <3>3. c[i + 1] = V!Segmented(c[(i + 1) - 1], s[i + 1])
      BY <1>6, <3>2, Zenon
    <3>4. f[i + 1] = V!Segmented(f[(i + 1) - 1], s[i + 1])
      BY <1>4, <3>2, Zenon
    <3> QED BY <3>2, <3>3, <3>4
  <2> HIDE DEF T, n, c
  <2>3. Nat \subseteq T
    BY <2>1, <2>2, Induct
  <2> QED BY <1>1, <2>3 DEF T
<1> QED BY <1>2, <1>7, <1>8

LEMMA SegmentsAppend ==
    ASSUME NEW s \in Seq(Captured), NEW m \in Captured
    PROVE  V!Segments(Append(s, m)) = V!Segmented(V!Segments(s), m)
<1> DEFINE n == Len(s)
           t == Append(s, m)
           b == <<>>
<1>1. n \in Nat /\ Len(t) = n + 1 /\ t \in Seq(Captured)
  OBVIOUS
<1>2. PICK f \in [0 .. n -> Segs] : FoldsTo(f, b, s, SegmentStep) /\ V!Segments(s) = f[n]
  BY SegmentsFold
<1>3. Longer(t, s, n, m)
  BY DEF Longer
<1> HIDE DEF t
<1>4. PICK g : FoldsTo(g, b, t, SegmentStep) /\ V!Segments(t) = g[n + 1]
  BY <1>1, SegmentsFold
<1> HIDE DEF n, b
<1>5. g[n + 1] = SegmentStep[<<f[n], m>>]
  BY <1>1, <1>2, <1>3, <1>4, FoldAppend
<1>6. f[n] \in Segs
  <2>1. n \in 0 .. n
    BY <1>1
  <2> QED BY <1>2, <2>1
<1>7. SegmentStep[<<f[n], m>>] = V!Segmented(f[n], m)
  BY <1>6 DEF SegmentStep
<1> QED BY <1>2, <1>4, <1>5, <1>6, <1>7 DEF t

LEMMA SegmentsType ==
    ASSUME NEW s \in Seq(Captured)
    PROVE  V!Segments(s) \in Segs
<1> DEFINE n == Len(s)
<1>1. PICK f \in [0 .. n -> Segs] : V!Segments(s) = f[n]
  BY SegmentsFold
<1>2. n \in 0 .. n
  OBVIOUS
<1> HIDE DEF n
<1> QED BY <1>1, <1>2

LEMMA SegmentsBegin == V!Segments(<<>>) = <<>>
<1> DEFINE s == <<>>
           b == <<>>
<1>1. s \in Seq(Captured) /\ Len(s) = 0
  OBVIOUS
<1> HIDE DEF s
<1>2. PICK f : FoldsTo(f, b, s, SegmentStep) /\ V!Segments(s) = f[0]
  BY <1>1, SegmentsFold
<1>3. f[0] = b
  <2> HIDE DEF b
  <2> QED BY <1>1, <1>2, FoldShape
<1> QED BY <1>2, <1>3 DEF s

\* The last of segs, and what is said on.
Extended(segs, msgs) == [segs EXCEPT ![Len(segs)] = segs[Len(segs)] \o msgs]

LEMMA SegmentsExtend ==
    ASSUME NEW s \in Seq(Captured), NEW msgs \in Seq(Captured), V!Segments(s) # <<>>,
           \A k \in 1 .. Len(msgs) : msgs[k].code # "GET_VERSION"
    PROVE  V!Segments(s \o msgs) = Extended(V!Segments(s), msgs)
<1> DEFINE segs == V!Segments(s)
           Part(k) == SubSeq(msgs, 1, k)
           T == {k \in Nat : k <= Len(msgs) =>
                   V!Segments(s \o Part(k)) = Extended(segs, Part(k))}
<1>1. segs \in Segs /\ segs # <<>>
  BY SegmentsType
<1> HIDE DEF segs
<1>2. Len(segs) \in 1 .. Len(segs) /\ segs[Len(segs)] \in Seq(Captured)
  BY <1>1 DEF Segs
<1>3. 0 \in T
  <2>1. Part(0) = <<>> /\ s \o Part(0) = s
    OBVIOUS
  <2>2. segs[Len(segs)] \o <<>> = segs[Len(segs)]
    BY <1>2
  <2>3. Extended(segs, <<>>) = segs
    BY <1>1, <1>2, <2>2 DEF Extended, Segs
  <2> QED BY <2>1, <2>3 DEF segs
<1>4. ASSUME NEW k \in Nat, k \in T PROVE k + 1 \in T
  <2> SUFFICES ASSUME k + 1 <= Len(msgs)
               PROVE  V!Segments(s \o Part(k + 1)) = Extended(segs, Part(k + 1))
    OBVIOUS
  <2>1. V!Segments(s \o Part(k)) = Extended(segs, Part(k))
    BY <1>4
  <2>2. k + 1 \in 1 .. Len(msgs) /\ (k + 1) - 1 = k
    OBVIOUS
  <2> DEFINE m == msgs[k + 1]
             last == segs[Len(segs)]
  <2>3. m \in Captured /\ m.code # "GET_VERSION"
    BY <2>2
  <2>4. /\ Part(k) \in Seq(Captured)
        /\ s \o Part(k + 1) = Append(s \o Part(k), m)
        /\ last \o Part(k + 1) = Append(last \o Part(k), m)
    <3>1. \A r \in Seq(Captured) : SubSeq(msgs, 1, k) \in Seq(Captured)
             /\ r \o SubSeq(msgs, 1, k + 1) = Append(r \o SubSeq(msgs, 1, k), msgs[k + 1])
      BY JoinNext
    <3> QED BY <1>2, <3>1
  <2> HIDE DEF Part, m, T, last
  <2>5. s \o Part(k) \in Seq(Captured)
    BY <2>4
  <2>6. V!Segments(s \o Part(k + 1)) = V!Segmented(Extended(segs, Part(k)), m)
    BY <2>1, <2>3, <2>4, <2>5, SegmentsAppend
  <2> DEFINE x == Extended(segs, Part(k))
             w == last \o Part(k)
  <2>7. w \in Seq(Captured)
    BY <1>2, <2>4 DEF last
  <2>8. x = [segs EXCEPT ![Len(segs)] = w]
    BY DEF Extended, last
  <2> HIDE DEF w, x
  <2>9. x # <<>> /\ Len(x) = Len(segs) /\ x[Len(x)] = w
    BY <1>1, <1>2, <2>7, <2>8 DEF Segs
  <2>10. V!Segmented(x, m) = [x EXCEPT ![Len(x)] = Append(w, m)]
    BY <2>3, <2>9 DEF V!Segmented
  <2> DEFINE z == Append(w, m)
  <2>11. z = last \o Part(k + 1)
    BY <2>4 DEF w
  <2> HIDE DEF z
  <2>12. [x EXCEPT ![Len(x)] = z] = [segs EXCEPT ![Len(segs)] = z]
    BY <1>1, <1>2, <2>8, <2>9 DEF Segs
  <2> QED BY <2>6, <2>10, <2>11, <2>12 DEF Extended, last, x, z
<1>5. Len(msgs) \in T
  <2> HIDE DEF T
  <2>1. Nat \subseteq T
    BY <1>3, <1>4, Induct
  <2> QED BY <2>1
<1>6. Part(Len(msgs)) = msgs
  OBVIOUS
<1>7. V!Segments(s \o Part(Len(msgs))) = Extended(segs, Part(Len(msgs)))
  BY <1>5
<1> HIDE DEF Part, T
<1> QED BY <1>6, <1>7 DEF segs

\* A message that is built of bytes may be captured.
LEMMA Messages ==
    ASSUME NEW code \in FirstCodes \cup LaterCodes, NEW dir \in {"REQ", "RSP"},
           NEW raw \in Seq(Nat)
    PROVE  /\ Message(code, dir, raw) \in Captured
           /\ Message(code, dir, raw).code = code
           /\ Message(code, dir, raw).raw = raw
BY DEF Message, Captured

LEMMA FillType ==
    ASSUME NEW b \in Nat, NEW n \in Nat
    PROVE  Fill(b, n) \in Seq(Nat) /\ Len(Fill(b, n)) = n
BY DEF Fill

LEMMA LEType ==
    ASSUME NEW n \in Nat
    PROVE  /\ LE(n) \in Seq(Nat) /\ Len(LE(n)) = 2
           /\ LE(n)[1] + 256 * LE(n)[2] = n
<1>1. n % 256 \in Nat /\ n \div 256 \in Nat /\ (n % 256) + 256 * (n \div 256) = n
  OBVIOUS
<1> QED BY <1>1 DEF LE

\* The last message of an opening: what is chosen stands where it is read.
Chosen(v) == <<v, 99, 0, 0>> \o Fill(0, 8) \o LE(Asym) \o <<0, 0>> \o LE(Hash) \o <<0, 0>>

LEMMA ChosenRead ==
    ASSUME NEW v \in Nat
    PROVE  /\ Chosen(v) \in Seq(Nat) /\ Len(Chosen(v)) = 20
           /\ V!U16(Chosen(v), 12) = Asym /\ V!U16(Chosen(v), 16) = Hash
<1>1. LE(Asym) = <<128, 0>> /\ LE(Hash) = <<1, 0>>
  BY DEF LE, Asym, Hash
<1>2. Fill(0, 8) = <<0, 0, 0, 0, 0, 0, 0, 0>>
  BY DEF Fill
<1>3. Chosen(v) = <<v, 99, 0, 0>> \o <<0, 0, 0, 0, 0, 0, 0, 0>> \o <<128, 0>> \o <<0, 0>>
                    \o <<1, 0>> \o <<0, 0>>
  BY <1>1, <1>2 DEF Chosen
<1>4. /\ Chosen(v) \in Seq(Nat) /\ Len(Chosen(v)) = 20
      /\ Chosen(v)[13] = 128 /\ Chosen(v)[14] = 0 /\ Chosen(v)[17] = 1 /\ Chosen(v)[18] = 0
  BY <1>3
<1> QED BY <1>4 DEF V!U16, Asym, Hash

LEMMA OpeningCode ==
    /\ "GET_VERSION" \in FirstCodes /\ "VERSION" \in FirstCodes
    /\ "GET_CAPABILITIES" \in FirstCodes /\ "CAPABILITIES" \in FirstCodes
    /\ "NEGOTIATE_ALGORITHMS" \in FirstCodes /\ "ALGORITHMS" \in FirstCodes
BY DEF FirstCodes

LEMMA FirstMessage ==
    ASSUME NEW code \in FirstCodes, NEW raw \in Seq(Nat)
    PROVE  \A dir \in {"REQ", "RSP"} :
             /\ Message(code, dir, raw) \in Captured
             /\ Message(code, dir, raw).code = code /\ Message(code, dir, raw).raw = raw
BY Messages

LEMMA OpeningIs ==
    ASSUME NEW v \in Nat
    PROVE  /\ Opening(v) \in Seq(Captured) /\ Len(Opening(v)) = 6
           /\ Opening(v)[1].code = "GET_VERSION" /\ Opening(v)[2].code = "VERSION"
           /\ Opening(v)[3].code = "GET_CAPABILITIES" /\ Opening(v)[4].code = "CAPABILITIES"
           /\ Opening(v)[5].code = "NEGOTIATE_ALGORITHMS" /\ Opening(v)[6].code = "ALGORITHMS"
           /\ Opening(v)[6].raw = Chosen(v)
<1> DEFINE r1 == <<16, 132, 0, 0>>
           r2 == <<16, 4, 0, 0>>
           r3 == <<v, 225, 0, 0>>
           r4 == <<v, 97, 0, 0>>
           r5 == <<v, 227, 0, 0>>
           m1 == Message("GET_VERSION", "REQ", r1)
           m2 == Message("VERSION", "RSP", r2)
           m3 == Message("GET_CAPABILITIES", "REQ", r3)
           m4 == Message("CAPABILITIES", "RSP", r4)
           m5 == Message("NEGOTIATE_ALGORITHMS", "REQ", r5)
           m6 == Message("ALGORITHMS", "RSP", Chosen(v))
<1>1. Opening(v) = <<m1, m2, m3, m4, m5, m6>>
  BY DEF Opening, Chosen
<1>2. Chosen(v) \in Seq(Nat)
  BY ChosenRead
<1>a. r1 \in Seq(Nat) /\ r2 \in Seq(Nat) /\ r3 \in Seq(Nat) /\ r4 \in Seq(Nat) /\ r5 \in Seq(Nat)
  OBVIOUS
<1> HIDE DEF r1, r2, r3, r4, r5
<1>3. m1 \in Captured /\ m1.code = "GET_VERSION"
  BY <1>a, OpeningCode, FirstMessage, Zenon
<1>4. m2 \in Captured /\ m2.code = "VERSION"
  BY <1>a, OpeningCode, FirstMessage, Zenon
<1>5. m3 \in Captured /\ m3.code = "GET_CAPABILITIES"
  BY <1>a, OpeningCode, FirstMessage, Zenon
<1>6. m4 \in Captured /\ m4.code = "CAPABILITIES"
  BY <1>a, OpeningCode, FirstMessage, Zenon
<1>7. m5 \in Captured /\ m5.code = "NEGOTIATE_ALGORITHMS"
  BY <1>a, OpeningCode, FirstMessage, Zenon
<1>8. m6 \in Captured /\ m6.code = "ALGORITHMS" /\ m6.raw = Chosen(v)
  BY <1>2, OpeningCode, FirstMessage, Zenon
<1> HIDE DEF m1, m2, m3, m4, m5, m6
<1> QED BY <1>1, <1>3, <1>4, <1>5, <1>6, <1>7, <1>8

\* An opening is a segment of its own.
LEMMA SegmentsOpen ==
    ASSUME NEW s \in Seq(Captured), NEW v \in Nat
    PROVE  V!Segments(s \o Opening(v)) = Append(V!Segments(s), Opening(v))
<1> DEFINE o == Opening(v)
           first == <<o[1]>>
           rest == SubSeq(o, 2, 6)
           segs == V!Segments(s)
           t == Append(s, o[1])
<1>1. /\ o \in Seq(Captured) /\ Len(o) = 6 /\ o[1].code = "GET_VERSION"
      /\ \A k \in 2 .. 6 : o[k].code # "GET_VERSION"
  BY OpeningIs
<1>2. segs \in Segs
  BY SegmentsType
<1> HIDE DEF o, segs
<1>3. /\ first \in Seq(Captured) /\ rest \in Seq(Captured) /\ Len(rest) = 5
      /\ \A k \in 1 .. 5 : rest[k] = o[k + 1]
      /\ first \o rest = o
  <2> DEFINE n == 5
  <2>1. o \in Seq(Captured) /\ n \in Nat /\ Len(o) = n + 1
    BY <1>1
  <2>2. rest = SubSeq(o, 2, n + 1)
    OBVIOUS
  <2> HIDE DEF rest
  <2>3. /\ first \in Seq(Captured) /\ rest \in Seq(Captured) /\ Len(rest) = n
        /\ \A k \in 1 .. n : rest[k] = o[k + 1]
        /\ first \o rest = o
    <3> HIDE DEF n
    <3> QED BY <2>1, <2>2, FirstAndRest
  <2> HIDE DEF first
  <2> QED BY <2>3
<1>4. \A k \in 1 .. Len(rest) : rest[k].code # "GET_VERSION"
  BY <1>1, <1>3
<1>5. o[1] \in Captured
  <2>1. 1 \in 1 .. Len(o) /\ o \in Seq(Captured)
    BY <1>1
  <2> QED BY <2>1, Member
<1>6. s \o o = t \o rest
  <2>1. (s \o first) \o rest = s \o (first \o rest)
    <3> HIDE DEF first, rest
    <3>1. first \in Seq(Captured) /\ rest \in Seq(Captured)
      BY <1>3
    <3> QED BY <3>1, JoinAssociates
  <2>2. s \o first = t
    OBVIOUS
  <2> QED BY <1>3, <2>1, <2>2
<1>7. t \in Seq(Captured)
  BY <1>5
<1>8. V!Segments(t) = Append(segs, first)
  <2>1. V!Segments(t) = V!Segmented(segs, o[1])
    <3>1. V!Segments(Append(s, o[1])) = V!Segmented(V!Segments(s), o[1])
      BY <1>5, SegmentsAppend
    <3> QED BY <3>1 DEF segs
  <2> QED BY <1>1, <2>1 DEF V!Segmented
<1> DEFINE opened == Append(segs, first)
<1>9. /\ opened \in Segs /\ opened # <<>> /\ Len(opened) = Len(segs) + 1
      /\ opened[Len(segs) + 1] = first
      /\ [opened EXCEPT ![Len(segs) + 1] = o] = Append(segs, o)
  <2>1. segs \in Seq(Seq(Captured)) /\ first \in Seq(Captured) /\ o \in Seq(Captured)
    BY <1>1, <1>2, <1>3 DEF Segs
  <2> HIDE DEF first
  <2> QED BY <2>1, AppendedReplaced DEF Segs
<1> HIDE DEF t, rest, first
<1>10. V!Segments(t \o rest) = Extended(opened, rest)
  <2> HIDE DEF opened
  <2>1. V!Segments(t) = opened
    BY <1>8 DEF opened
  <2> QED BY <1>3, <1>4, <1>7, <1>9, <2>1, SegmentsExtend
<1>11. Extended(opened, rest) = Append(segs, o)
  <2> HIDE DEF opened
  <2> QED BY <1>3, <1>9 DEF Extended
<1> QED BY <1>6, <1>10, <1>11 DEF o, segs

-----------------------------------------------------------------------------
(* certificate_chains, a message at a time.                                *)

Accs == [partial : Seq(Nat), done : Seq(Seq(Nat))]
CollectStep(slot) == [y \in Accs \X Captured |-> V!Collected(y[1], y[2], slot)]

LEMMA CollectedType ==
    ASSUME NEW slot \in Nat, NEW acc \in Accs, NEW m \in Captured
    PROVE  V!Collected(acc, m, slot) \in Accs
<1>1. CASE ~V!IsPortion(m, slot)
  BY <1>1 DEF V!Collected
<1>2. CASE V!IsPortion(m, slot)
  <2> DEFINE part == SubSeq(m.raw, 9, 8 + V!Portion(m))
             partial == acc.partial \o part
  <2>1. m.raw \in Seq(Nat)
    BY Codes
  <2>2. Len(m.raw) >= 8 /\ Len(m.raw) >= 8 + V!Portion(m)
    BY <1>2 DEF V!IsPortion
  <2>3. V!Portion(m) \in Nat
    <3>1. m.raw[5] \in Nat /\ m.raw[6] \in Nat
      BY <2>1, <2>2
    <3> QED BY <3>1 DEF V!Portion, V!U16
  <2>4. part \in Seq(Nat)
    BY <2>1, <2>2, <2>3
  <2> HIDE DEF part
  <2>5. acc.partial \in Seq(Nat) /\ acc.done \in Seq(Seq(Nat))
    BY DEF Accs
  <2>6. partial \in Seq(Nat)
    BY <2>4, <2>5
  <2>7. \/ V!Collected(acc, m, slot) = [partial |-> <<>>, done |-> Append(acc.done, partial)]
        \/ V!Collected(acc, m, slot) = [partial |-> partial, done |-> acc.done]
    <3>1. CASE V!U16(m.raw, 6) = 0
      BY <1>2, <3>1, Zenon DEF V!Collected, part
    <3>2. CASE V!U16(m.raw, 6) # 0
      BY <1>2, <3>2, Zenon DEF V!Collected, part
    <3> QED BY <3>1, <3>2
  <2> HIDE DEF partial
  <2>8. Append(acc.done, partial) \in Seq(Seq(Nat)) /\ <<>> \in Seq(Nat)
    BY <2>5, <2>6
  <2> DEFINE done == Append(acc.done, partial)
  <2> HIDE DEF done
  <2>9. [partial |-> <<>>, done |-> done] \in Accs /\ [partial |-> partial, done |-> acc.done] \in Accs
    BY <2>5, <2>6, <2>8 DEF Accs, done
  <2> QED BY <2>7, <2>9 DEF done
<1> QED BY <1>1, <1>2

LEMMA CollectStepType ==
    ASSUME NEW slot \in Nat
    PROVE  V!NoPortions \in Accs /\ CollectStep(slot) \in [Accs \X Captured -> Accs]
<1>1. \A y \in Accs \X Captured : V!Collected(y[1], y[2], slot) \in Accs
  BY CollectedType
<1> QED BY <1>1 DEF CollectStep, Accs, V!NoPortions

LEMMA AssembledFold ==
    ASSUME NEW slot \in Nat, NEW s \in Seq(Captured)
    PROVE  \E f \in [0 .. Len(s) -> Accs] :
             /\ FoldsTo(f, V!NoPortions, s, CollectStep(slot))
             /\ V!Assembled(s, slot) = f[Len(s)]
<1> DEFINE n == Len(s)
           Begun(g) == g = [k \in 0 .. n |-> IF k = 0 THEN V!NoPortions ELSE V!Collected(g[k - 1], s[k], slot)]
           c == CHOOSE g : Begun(g)
<1>1. n \in Nat /\ \A k \in 1 .. n : s[k] \in Captured
  OBVIOUS
<1>2. PICK f \in [0 .. n -> Accs] : FoldsTo(f, V!NoPortions, s, CollectStep(slot))
  <2> DEFINE b == V!NoPortions
  <2>1. b \in Accs /\ CollectStep(slot) \in [Accs \X Captured -> Accs]
    BY CollectStepType
  <2> HIDE DEF b
  <2>2. \E f \in [0 .. n -> Accs] : FoldsTo(f, b, s, CollectStep(slot))
    BY <2>1, FoldExists
  <2> QED BY <2>2 DEF b
<1>3. f[0] = V!NoPortions /\ Folded(f, s, CollectStep(slot), n)
  BY <1>1, <1>2, FoldShape
<1>4. \A k \in 1 .. n : f[k] = V!Collected(f[k - 1], s[k], slot)
  <2> SUFFICES ASSUME NEW k \in 1 .. n PROVE f[k] = V!Collected(f[k - 1], s[k], slot)
    OBVIOUS
  <2>1. f[k - 1] \in Accs /\ s[k] \in Captured
    <3>1. k - 1 \in 0 .. n
      BY <1>1
    <3> QED BY <1>1, <3>1
  <2>2. CollectStep(slot)[<<f[k - 1], s[k]>>] = V!Collected(f[k - 1], s[k], slot)
    BY <2>1 DEF CollectStep
  <2> QED BY <1>3, <2>2 DEF Folded
<1>5. Begun(f)
  <2>1. \A k \in 0 .. n : f[k] = IF k = 0 THEN V!NoPortions ELSE V!Collected(f[k - 1], s[k], slot)
    <3> SUFFICES ASSUME NEW k \in 0 .. n
                 PROVE  f[k] = IF k = 0 THEN V!NoPortions ELSE V!Collected(f[k - 1], s[k], slot)
      OBVIOUS
    <3>1. CASE k = 0
      BY <1>3, <3>1
    <3>2. CASE k # 0
      <4>1. k \in 1 .. n
        BY <1>1, <3>2
      <4> QED BY <1>4, <3>2, <4>1
    <3> QED BY <3>1, <3>2
  <2> HIDE DEF n
  <2> QED BY <2>1
<1>6. Begun(c)
  BY <1>5
<1>7. V!Assembled(s, slot) = c[n]
  BY DEF V!Assembled
<1>8. c[n] = f[n]
  <2> DEFINE T == {i \in Nat : i <= n => c[i] = f[i]}
  <2>1. 0 \in T
    <3>1. 0 \in 0 .. n
      BY <1>1
    <3>2. c[0] = V!NoPortions
      BY <1>6, <3>1, Zenon
    <3> QED BY <1>3, <3>2
  <2>2. ASSUME NEW i \in Nat, i \in T PROVE i + 1 \in T
    <3>1. SUFFICES ASSUME i + 1 <= n PROVE c[i + 1] = f[i + 1]
      OBVIOUS
    <3>2. c[i] = f[i] /\ i + 1 \in 1 .. n /\ i + 1 \in 0 .. n /\ i + 1 # 0 /\ (i + 1) - 1 = i
      BY <1>1, <2>2, <3>1
    <3>3. c[i + 1] = V!Collected(c[(i + 1) - 1], s[i + 1], slot)
      BY <1>6, <3>2, Zenon
    <3>4. f[i + 1] = V!Collected(f[(i + 1) - 1], s[i + 1], slot)
      BY <1>4, <3>2, Zenon
    <3> QED BY <3>2, <3>3, <3>4
  <2> HIDE DEF T, n, c
  <2>3. Nat \subseteq T
    BY <2>1, <2>2, Induct
  <2> QED BY <1>1, <2>3 DEF T
<1> QED BY <1>2, <1>7, <1>8

LEMMA AssembledAppends ==
    ASSUME NEW slot \in Nat, NEW s \in Seq(Captured), NEW m \in Captured
    PROVE  V!Assembled(Append(s, m), slot) = V!Collected(V!Assembled(s, slot), m, slot)
<1> DEFINE n == Len(s)
           t == Append(s, m)
           b == V!NoPortions
<1>1. n \in Nat /\ Len(t) = n + 1 /\ t \in Seq(Captured)
  OBVIOUS
<1>2. PICK f \in [0 .. n -> Accs] : FoldsTo(f, b, s, CollectStep(slot)) /\ V!Assembled(s, slot) = f[n]
  BY AssembledFold
<1>3. Longer(t, s, n, m)
  BY DEF Longer
<1> HIDE DEF t
<1>4. PICK g : FoldsTo(g, b, t, CollectStep(slot)) /\ V!Assembled(t, slot) = g[n + 1]
  BY <1>1, AssembledFold
<1> HIDE DEF n, b
<1>5. g[n + 1] = CollectStep(slot)[<<f[n], m>>]
  BY <1>1, <1>2, <1>3, <1>4, FoldAppend
<1>6. f[n] \in Accs
  <2>1. n \in 0 .. n
    BY <1>1
  <2> QED BY <1>2, <2>1
<1>7. CollectStep(slot)[<<f[n], m>>] = V!Collected(f[n], m, slot)
  BY <1>6 DEF CollectStep
<1> QED BY <1>2, <1>4, <1>5, <1>6, <1>7 DEF t

LEMMA AssembledType ==
    ASSUME NEW slot \in Nat, NEW s \in Seq(Captured)
    PROVE  V!Assembled(s, slot) \in Accs
<1> DEFINE n == Len(s)
<1>1. PICK f \in [0 .. n -> Accs] : V!Assembled(s, slot) = f[n]
  BY AssembledFold
<1>2. n \in 0 .. n
  OBVIOUS
<1> HIDE DEF n
<1> QED BY <1>1, <1>2

LEMMA AssembledBegins ==
    ASSUME NEW slot \in Nat
    PROVE  V!Assembled(<<>>, slot) = V!NoPortions
<1> DEFINE s == <<>>
           b == V!NoPortions
<1>1. s \in Seq(Captured) /\ Len(s) = 0
  OBVIOUS
<1> HIDE DEF s
<1>2. PICK f : FoldsTo(f, b, s, CollectStep(slot)) /\ V!Assembled(s, slot) = f[0]
  BY <1>1, AssembledFold
<1>3. f[0] = b
  <2> HIDE DEF b
  <2> QED BY <1>1, <1>2, FoldShape
<1> QED BY <1>2, <1>3 DEF s

\* Messages that are no portion of the slot change nothing.
LEMMA AssembledSkips ==
    ASSUME NEW slot \in Nat, NEW s \in Seq(Captured), NEW msgs \in Seq(Captured),
           \A k \in 1 .. Len(msgs) : ~V!IsPortion(msgs[k], slot)
    PROVE  V!Assembled(s \o msgs, slot) = V!Assembled(s, slot)
<1> DEFINE Part(k) == SubSeq(msgs, 1, k)
           T == {k \in Nat : k <= Len(msgs) =>
                   V!Assembled(s \o Part(k), slot) = V!Assembled(s, slot)}
<1>1. 0 \in T
  <2>1. Part(0) = <<>> /\ s \o Part(0) = s
    OBVIOUS
  <2> QED BY <2>1
<1>2. ASSUME NEW k \in Nat, k \in T PROVE k + 1 \in T
  <2> SUFFICES ASSUME k + 1 <= Len(msgs)
               PROVE  V!Assembled(s \o Part(k + 1), slot) = V!Assembled(s, slot)
    OBVIOUS
  <2>1. V!Assembled(s \o Part(k), slot) = V!Assembled(s, slot)
    BY <1>2
  <2>2. k + 1 \in 1 .. Len(msgs) /\ (k + 1) - 1 = k
    OBVIOUS
  <2> DEFINE m == msgs[k + 1]
  <2>3. m \in Captured /\ ~V!IsPortion(m, slot)
    BY <2>2
  <2>4. Part(k) \in Seq(Captured) /\ s \o Part(k + 1) = Append(s \o Part(k), m)
    BY <2>2, JoinNext
  <2> HIDE DEF Part, m, T
  <2>5. s \o Part(k) \in Seq(Captured)
    BY <2>4
  <2>6. V!Assembled(s \o Part(k + 1), slot)
          = V!Collected(V!Assembled(s \o Part(k), slot), m, slot)
    BY <2>3, <2>4, <2>5, AssembledAppends
  <2>7. V!Collected(V!Assembled(s \o Part(k), slot), m, slot) = V!Assembled(s \o Part(k), slot)
    BY <2>3 DEF V!Collected
  <2> QED BY <2>1, <2>6, <2>7
<1>3. V!Assembled(s \o Part(Len(msgs)), slot) = V!Assembled(s, slot)
  <2> HIDE DEF T
  <2>1. Nat \subseteq T
    BY <1>1, <1>2, Induct
  <2>2. Len(msgs) \in T
    BY <2>1
  <2> QED BY <2>2 DEF T
<1>4. Part(Len(msgs)) = msgs
  OBVIOUS
<1> HIDE DEF Part
<1> QED BY <1>3, <1>4

-----------------------------------------------------------------------------
(* What is said.                                                           *)

LEMMA ConstantsAre ==
    /\ SigBytes \in Nat \ {0} /\ MaxPortion >= 2 /\ TwoBytes(MaxPortion)
    /\ \A v \in Versions : v \in Nat
    /\ \A s \in Slots : /\ s \in Nat /\ s % 16 = s
                        /\ AreCertificates(Certificates[s]) /\ TwoBytes(Len(Chain(s)))
                        /\ \A shape \in Shapes[s] : IsShape(shape)
    /\ Cardinality(Slots) \in Nat /\ SlotMask \in Nat
<1>1. Slots \subseteq 0 .. 7
  BY ChallengeAssumption, Zenon
<1>2. Cardinality(Slots) \in Nat
  <2>1. IsFiniteSet(0 .. 7)
    <3>1. 0 \in Int /\ 7 \in Int
      OBVIOUS
    <3> QED BY <3>1, FS_Interval
  <2>2. IsFiniteSet(Slots)
    BY <1>1, <2>1, FS_Subset
  <2> QED BY <2>2, FS_CardinalityType
<1>3. SlotMask \in Nat
  BY DEF SlotMask
<1>4. ASSUME NEW s \in Slots
      PROVE  /\ s \in Nat /\ s % 16 = s
             /\ AreCertificates(Certificates[s]) /\ TwoBytes(Len(Chain(s)))
             /\ \A shape \in Shapes[s] : IsShape(shape)
  <2>1. AreCertificates(Certificates[s]) /\ TwoBytes(Len(Chain(s)))
    BY ChallengeAssumption, Zenon
  <2>2. \A shape \in Shapes[s] : IsShape(shape)
    BY ChallengeAssumption, Zenon
  <2>3. s \in 0 .. 7
    BY <1>1
  <2> QED BY <2>1, <2>2, <2>3
<1>5. SigBytes \in Nat \ {0} /\ Versions \subseteq Nat
  BY ChallengeAssumption, Zenon
<1>6. MaxPortion > 1 /\ TwoBytes(MaxPortion)
  BY ChallengeAssumption, Zenon
<1>7. MaxPortion >= 2
  BY <1>6 DEF TwoBytes
<1> QED BY <1>2, <1>3, <1>4, <1>5, <1>6, <1>7

LEMMA CodesAre ==
    \A code \in {"GET_DIGESTS", "DIGESTS", "GET_CERTIFICATE", "CERTIFICATE", "CHALLENGE",
                 "CHALLENGE_AUTH", "ERROR"} :
      code \in LaterCodes /\ code \in FirstCodes \cup LaterCodes
BY DEF LaterCodes

\* Two messages, of these codes.
Pair(msgs, first, second) ==
    /\ msgs \in Seq(Captured) /\ Len(msgs) = 2
    /\ msgs[1].code = first /\ msgs[2].code = second

LEMMA PairOf ==
    ASSUME NEW first \in FirstCodes \cup LaterCodes, NEW second \in FirstCodes \cup LaterCodes,
           NEW r1 \in Seq(Nat), NEW r2 \in Seq(Nat), NEW msgs,
           msgs = <<Message(first, "REQ", r1), Message(second, "RSP", r2)>>
    PROVE  Pair(msgs, first, second) /\ msgs[1].raw = r1 /\ msgs[2].raw = r2
<1> DEFINE m1 == Message(first, "REQ", r1)
           m2 == Message(second, "RSP", r2)
<1>1. m1 \in Captured /\ m1.code = first /\ m1.raw = r1
  BY Messages
<1>2. m2 \in Captured /\ m2.code = second /\ m2.raw = r2
  BY Messages
<1> HIDE DEF m1, m2
<1>3. msgs = <<m1, m2>>
  BY DEF m1, m2
<1> QED BY <1>1, <1>2, <1>3 DEF Pair

LEMMA DigestsAre ==
    ASSUME NEW v \in Nat
    PROVE  Pair(Digests(v), "GET_DIGESTS", "DIGESTS")
<1> DEFINE n == Cardinality(Slots) * (HashSize + ExtraOf(v))
           r1 == <<v, 129, 0, 0>>
           r2 == <<v, 1, 0, SlotMask>> \o Fill(5, n)
<1>1. n \in Nat
  BY ConstantsAre DEF ExtraOf, HashSize
<1> HIDE DEF n
<1>2. Fill(5, n) \in Seq(Nat)
  BY <1>1, FillType
<1>3. <<v, 1, 0, SlotMask>> \in Seq(Nat) /\ r1 \in Seq(Nat)
  BY ConstantsAre
<1>4. r2 \in Seq(Nat)
  BY <1>2, <1>3
<1>5. Digests(v) = <<Message("GET_DIGESTS", "REQ", r1), Message("DIGESTS", "RSP", r2)>>
  BY DEF Digests, n
<1> HIDE DEF r1, r2
<1> QED BY <1>3, <1>4, <1>5, CodesAre, PairOf

LEMMA BusyAre ==
    ASSUME NEW v \in Nat
    PROVE  Pair(Busy(v), "GET_DIGESTS", "ERROR")
<1> DEFINE r1 == <<v, 129, 0, 0>>
           r2 == <<v, 127, 3, 0>>
<1>1. r1 \in Seq(Nat) /\ r2 \in Seq(Nat)
  OBVIOUS
<1>2. Busy(v) = <<Message("GET_DIGESTS", "REQ", r1), Message("ERROR", "RSP", r2)>>
  BY DEF Busy
<1> HIDE DEF r1, r2
<1> QED BY <1>1, <1>2, CodesAre, PairOf

LEMMA CertificatesAre ==
    ASSUME NEW s \in Slots
    PROVE  /\ Certificates[s] \in Seq(Seq(Nat)) /\ Len(Certificates[s]) \in Nat \ {0}
           /\ \A k \in 1 .. Len(Certificates[s]) :
                LET c == Certificates[s][k] IN
                /\ c \in Seq(Nat) /\ Len(c) >= 3 /\ Len(c) <= 129 /\ c[1] = 48 /\ c[2] = Len(c) - 2
           /\ HashOf(Certificates[s][1]) \in Seq(Nat) /\ Len(HashOf(Certificates[s][1])) = 2
<1> DEFINE certs == Certificates[s]
<1>1. AreCertificates(certs)
  BY ConstantsAre
<1> HIDE DEF certs
<1>2. certs \in Seq(Seq(Nat)) /\ certs # <<>>
  BY <1>1 DEF AreCertificates
<1>3. Len(certs) \in Nat \ {0} /\ DOMAIN certs = 1 .. Len(certs)
  BY <1>2
<1>4. ASSUME NEW k \in 1 .. Len(certs)
      PROVE  LET c == certs[k] IN
             c \in Seq(Nat) /\ Len(c) >= 3 /\ Len(c) <= 129 /\ c[1] = 48 /\ c[2] = Len(c) - 2
  <2>1. certs[k] \in Seq(Nat)
    BY <1>2
  <2>2. Len(certs[k]) >= 3 /\ Len(certs[k]) <= 129 /\ certs[k][1] = 48 /\ certs[k][2] = Len(certs[k]) - 2
    BY <1>1, <1>3 DEF AreCertificates
  <2> QED BY <2>1, <2>2
<1>5. HashOf(certs[1]) \in Seq(Nat) /\ Len(HashOf(certs[1])) = 2
  <2> DEFINE c == certs[1]
  <2>1. c \in Seq(Nat) /\ Len(c) >= 3 /\ Len(c) <= 129
    BY <1>3, <1>4
  <2> HIDE DEF c
  <2>2. Len(c) \in Nat /\ c[Len(c)] \in Nat
    <3>1. Len(c) \in 1 .. Len(c)
      BY <2>1
    <3> QED BY <2>1, <3>1, Member
  <2>3. HashOf(c) = <<Len(c), c[Len(c)]>>
    BY DEF HashOf
  <2> QED BY <2>2, <2>3 DEF c
<1> QED BY <1>2, <1>3, <1>4, <1>5 DEF certs

LEMMA FlattenType ==
    ASSUME NEW S, NEW ss \in Seq(Seq(S))
    PROVE  FlattenSeq(ss) \in Seq(S)
<1>1. <<>> \in Seq(S)
  OBVIOUS
<1> QED BY <1>1, FlattenAppend

LEMMA JoinFront ==
    ASSUME NEW s \in Seq(Nat), NEW t \in Seq(Nat), Len(s) >= 2
    PROVE  /\ s \o t \in Seq(Nat) /\ Len(s \o t) = Len(s) + Len(t)
           /\ (s \o t)[1] = s[1] /\ (s \o t)[2] = s[2]
<1>1. s \o t \in Seq(Nat) /\ Joined(s, t)
  BY Concatenation
<1>2. 1 \in 1 .. Len(s) /\ 2 \in 1 .. Len(s)
  OBVIOUS
<1> QED BY <1>1, <1>2 DEF Joined

LEMMA ChainIs ==
    ASSUME NEW s \in Slots
    PROVE  /\ Chain(s) \in Seq(Nat) /\ Flat(Certificates[s]) \in Seq(Nat)
           /\ Len(Chain(s)) = 6 + Len(Flat(Certificates[s])) /\ TwoBytes(Len(Chain(s)))
           /\ Chain(s)[1] + 256 * Chain(s)[2] = Len(Chain(s))
           /\ SubSeq(Chain(s), 7, Len(Chain(s))) = Flat(Certificates[s])
<1> DEFINE certs == Flat(Certificates[s])
           n == 4 + HashSize + Len(certs)
           h == HashOf(Certificates[s][1])
           head == LE(n) \o <<0, 0>> \o h
<1>1. certs \in Seq(Nat)
  BY CertificatesAre, FlattenType DEF Flat
<1>2. h \in Seq(Nat) /\ Len(h) = 2
  BY CertificatesAre
<1>3. Chain(s) = head \o certs
  BY DEF Chain
<1>4. TwoBytes(Len(Chain(s)))
  BY ConstantsAre
<1> HIDE DEF certs, h
<1>5. n \in Nat /\ n = 6 + Len(certs)
  BY <1>1 DEF HashSize
<1> HIDE DEF n
<1>6. LE(n) \in Seq(Nat) /\ Len(LE(n)) = 2 /\ LE(n)[1] + 256 * LE(n)[2] = n
  BY <1>5, LEType
<1> DEFINE lez == LE(n) \o <<0, 0>>
<1>7. lez \in Seq(Nat) /\ Len(lez) = 4 /\ lez[1] = LE(n)[1] /\ lez[2] = LE(n)[2]
  <2> DEFINE z == <<0, 0>>
             le == LE(n)
  <2>1. z \in Seq(Nat) /\ Len(z) = 2
    OBVIOUS
  <2>2. le \in Seq(Nat) /\ Len(le) = 2
    BY <1>6
  <2> HIDE DEF z, le
  <2>3. Len(le) >= 2
    BY <2>2
  <2>4. /\ le \o z \in Seq(Nat) /\ Len(le \o z) = Len(le) + Len(z)
        /\ (le \o z)[1] = le[1] /\ (le \o z)[2] = le[2]
    BY <2>1, <2>2, <2>3, JoinFront, Zenon
  <2>5. Len(le) + Len(z) = 4
    BY <2>1, <2>2
  <2> QED BY <2>4, <2>5, Zenon DEF le, z
<1>8. /\ head \in Seq(Nat) /\ Len(head) = 6 /\ head[1] = LE(n)[1] /\ head[2] = LE(n)[2]
  <2>1. head = lez \o h
    OBVIOUS
  <2> HIDE DEF head, lez
  <2>2. /\ lez \o h \in Seq(Nat) /\ Len(lez \o h) = 6
        /\ (lez \o h)[1] = lez[1] /\ (lez \o h)[2] = lez[2]
    <3>1. Len(lez) >= 2 /\ Len(lez) + Len(h) = 6
      BY <1>2, <1>7
    <3> QED BY <1>2, <1>7, <3>1, JoinFront, Zenon
  <2> QED BY <1>7, <2>1, <2>2
<1> HIDE DEF head, lez
<1>9. /\ head \o certs \in Seq(Nat) /\ Len(head \o certs) = 6 + Len(certs)
      /\ (head \o certs)[1] = head[1] /\ (head \o certs)[2] = head[2]
  <2>1. Len(head) >= 2 /\ Len(head) = 6
    BY <1>8
  <2> QED BY <1>1, <1>8, <2>1, JoinFront, Zenon
<1>10. SubSeq(head \o certs, 7, Len(head \o certs)) = certs
  <2>1. head \in Seq(Nat) /\ Len(head) + 1 = 7
    BY <1>8
  <2>2. SubSeq(head \o certs, Len(head) + 1, Len(head \o certs)) = certs
    BY <1>1, <2>1, JoinParts
  <2> QED BY <2>1, <2>2
<1> DEFINE c == head \o certs
<1>11. /\ c \in Seq(Nat) /\ Len(c) = n /\ c[1] = LE(n)[1] /\ c[2] = LE(n)[2]
       /\ SubSeq(c, 7, Len(c)) = certs
  BY <1>5, <1>8, <1>9, <1>10
<1> HIDE DEF c
<1>12. c[1] + 256 * c[2] = Len(c)
  BY <1>6, <1>11
<1>13. Chain(s) = c
  BY <1>3 DEF c
<1>14. Len(c) = 6 + Len(certs)
  BY <1>5, <1>11
<1> QED BY <1>1, <1>4, <1>11, <1>12, <1>13, <1>14, Zenon DEF certs

\* Four bytes, two and two.
LEMMA HeaderOf ==
    ASSUME NEW a \in Seq(Nat), NEW b \in Seq(Nat), NEW c \in Seq(Nat),
           Len(a) = 4, Len(b) = 2, Len(c) = 2
    PROVE  LET h == (a \o b) \o c IN
           /\ h \in Seq(Nat) /\ Len(h) = 8
           /\ \A k \in 1 .. 4 : h[k] = a[k]
           /\ h[5] = b[1] /\ h[6] = b[2] /\ h[7] = c[1] /\ h[8] = c[2]
<1> DEFINE ab == a \o b
           h == ab \o c
<1>1. ab \in Seq(Nat) /\ After(ab, a, b, 4, 2)
  BY JoinAfter
<1> HIDE DEF ab
<1>2. /\ Len(ab) = 6 /\ \A k \in 1 .. 4 : ab[k] = a[k]
      /\ ab[5] = b[1] /\ ab[6] = b[2]
  BY <1>1 DEF After
<1>3. h \in Seq(Nat) /\ After(h, ab, c, 6, 2)
  BY <1>1, <1>2, JoinAfter
<1> HIDE DEF h
<1>4. /\ Len(h) = 8 /\ \A k \in 1 .. 6 : h[k] = ab[k]
      /\ h[7] = c[1] /\ h[8] = c[2]
  BY <1>3 DEF After
<1>5. h \in Seq(Nat) /\ Len(h) = 8 /\ (\A k \in 1 .. 4 : h[k] = a[k])
        /\ h[5] = b[1] /\ h[6] = b[2] /\ h[7] = c[1] /\ h[8] = c[2]
  BY <1>2, <1>3, <1>4
<1> QED BY <1>5 DEF h, ab

\* The bytes of a portion are read where they are written.
PortionSays(m, s, at) ==
    /\ Len(m.raw) = 8 + PortionOf(s, at) /\ m.raw[3] = s
    /\ V!U16(m.raw, 4) = PortionOf(s, at)
    /\ V!U16(m.raw, 6) = RestOf(s, at) - PortionOf(s, at)
    /\ SubSeq(m.raw, 9, 8 + PortionOf(s, at)) = SubSeq(Chain(s), at + 1, at + PortionOf(s, at))

LEMMA PortionFits ==
    ASSUME NEW s \in Slots, NEW at \in Nat, at < Len(Chain(s))
    PROVE  /\ Len(Chain(s)) \in Nat /\ RestOf(s, at) \in Nat /\ RestOf(s, at) = Len(Chain(s)) - at
           /\ PortionOf(s, at) \in Nat /\ PortionOf(s, at) > 0
           /\ PortionOf(s, at) <= RestOf(s, at)
           /\ PortionOf(s, at) # RestOf(s, at) => PortionOf(s, at) >= 2
<1>1. Len(Chain(s)) \in Nat
  BY ChainIs
<1>2. MaxPortion >= 2 /\ MaxPortion \in Nat
  BY ConstantsAre DEF TwoBytes
<1> QED BY <1>1, <1>2 DEF RestOf, PortionOf

LEMMA PortionsAre ==
    ASSUME NEW v \in Nat, NEW s \in Slots, NEW at \in Nat, at < Len(Chain(s))
    PROVE  /\ Pair(Portions(v, s, at), "GET_CERTIFICATE", "CERTIFICATE")
           /\ PortionSays(Portions(v, s, at)[2], s, at)
<1> DEFINE portion == PortionOf(s, at)
           left == RestOf(s, at) - portion
           a == <<v, 2, s, 0>>
           h == (a \o LE(portion)) \o LE(left)
           part == SubSeq(Chain(s), at + 1, at + portion)
           r1 == <<v, 130, s, 0>> \o LE(at) \o LE(MaxPortion)
           r2 == h \o part
<1>1. /\ Len(Chain(s)) \in Nat /\ RestOf(s, at) = Len(Chain(s)) - at
      /\ portion \in Nat /\ portion <= RestOf(s, at) /\ left \in Nat
  BY PortionFits
<1>2. s \in Nat /\ MaxPortion \in Nat
  BY ConstantsAre DEF TwoBytes
<1>3. part \in Seq(Nat) /\ Len(part) = portion
  <2> DEFINE chain == Chain(s)
  <2>1. chain \in Seq(Nat)
    BY ChainIs
  <2> HIDE DEF chain, portion
  <2>2. Len(chain) \in Nat /\ at + portion <= Len(chain)
    BY <1>1 DEF chain
  <2> QED BY <1>1, <2>1, <2>2 DEF chain
<1> HIDE DEF portion, left
<1>4. /\ LE(portion) \in Seq(Nat) /\ Len(LE(portion)) = 2
      /\ LE(portion)[1] + 256 * LE(portion)[2] = portion
  BY <1>1, LEType
<1>5. /\ LE(left) \in Seq(Nat) /\ Len(LE(left)) = 2
      /\ LE(left)[1] + 256 * LE(left)[2] = left
  BY <1>1, LEType
<1>6. a \in Seq(Nat) /\ Len(a) = 4 /\ a[3] = s
  BY <1>2
<1> HIDE DEF a, part
<1>7. /\ h \in Seq(Nat) /\ Len(h) = 8 /\ h[3] = s
      /\ h[5] = LE(portion)[1] /\ h[6] = LE(portion)[2]
      /\ h[7] = LE(left)[1] /\ h[8] = LE(left)[2]
  <2> DEFINE b == LE(portion)
             c == LE(left)
  <2> HIDE DEF b, c
  <2>1. LET w == (a \o b) \o c IN
        /\ w \in Seq(Nat) /\ Len(w) = 8
        /\ \A k \in 1 .. 4 : w[k] = a[k]
        /\ w[5] = b[1] /\ w[6] = b[2] /\ w[7] = c[1] /\ w[8] = c[2]
    BY <1>4, <1>5, <1>6, HeaderOf DEF b, c
  <2>2. h = (a \o b) \o c
    BY DEF b, c
  <2> HIDE DEF h
  <2>3. /\ h \in Seq(Nat) /\ Len(h) = 8
        /\ \A k \in 1 .. 4 : h[k] = a[k]
        /\ h[5] = b[1] /\ h[6] = b[2] /\ h[7] = c[1] /\ h[8] = c[2]
    BY <2>1, <2>2
  <2>4. h[3] = s
    BY <1>6, <2>3
  <2> QED BY <2>3, <2>4 DEF b, c
<1> HIDE DEF h
<1>8. r2 \in Seq(Nat) /\ After(r2, h, part, 8, portion)
  BY <1>3, <1>7, JoinAfter
<1>9. /\ Len(r2) = 8 + portion /\ r2[3] = s
      /\ r2[5] = h[5] /\ r2[6] = h[6] /\ r2[7] = h[7] /\ r2[8] = h[8]
  <2> HIDE DEF r2
  <2>1. Len(r2) = 8 + portion /\ \A p \in 1 .. 8 : r2[p] = h[p]
    BY <1>8 DEF After
  <2>2. h[3] = s
    BY <1>7
  <2> QED BY <2>1, <2>2
<1>10. SubSeq(r2, 9, 8 + portion) = part
  <2>1. SubSeq(h \o part, Len(h) + 1, Len(h \o part)) = part
    BY <1>3, <1>7, JoinParts
  <2>2. Len(h) + 1 = 9
    BY <1>7
  <2> QED BY <1>9, <2>1, <2>2
<1>11. r1 \in Seq(Nat)
  <2>1. LE(at) \in Seq(Nat) /\ LE(MaxPortion) \in Seq(Nat) /\ <<v, 130, s, 0>> \in Seq(Nat)
    BY <1>2, LEType
  <2> DEFINE x == LE(at)
             y == LE(MaxPortion)
             z == <<v, 130, s, 0>>
  <2> HIDE DEF x, y, z
  <2>2. (z \o x) \o y \in Seq(Nat)
    BY <2>1 DEF x, y, z
  <2> QED BY <2>2 DEF x, y, z
<1>12. Portions(v, s, at) = <<Message("GET_CERTIFICATE", "REQ", r1), Message("CERTIFICATE", "RSP", r2)>>
  BY DEF Portions, portion, left, h, part, a
<1> HIDE DEF r1, r2
<1>13. /\ Pair(Portions(v, s, at), "GET_CERTIFICATE", "CERTIFICATE")
       /\ Portions(v, s, at)[2].raw = r2
  BY <1>8, <1>11, <1>12, CodesAre, PairOf
<1>14. r2[5] + 256 * r2[6] = portion /\ r2[7] + 256 * r2[8] = left
  BY <1>4, <1>5, <1>7, <1>9
<1>15. V!U16(r2, 4) = portion /\ V!U16(r2, 6) = left
  BY <1>14 DEF V!U16
<1> QED BY <1>9, <1>10, <1>13, <1>15 DEF PortionSays, portion, left, part

LEMMA ContextType ==
    ASSUME NEW v
    PROVE  ContextOf(v) \in Seq(Nat) /\ (v \in Nat /\ v <= 17 => ContextOf(v) = <<>>)
<1>1. Fill(3, L!ContextBytes) \in Seq(Nat)
  BY FillType DEF L!ContextBytes
<1>2. v \in Nat /\ v <= 17 => ~(v >= 19)
  OBVIOUS
<1> QED BY <1>1, <1>2 DEF ContextOf

LEMMA AskedIs ==
    ASSUME NEW v \in Nat, NEW s \in Slots, NEW shape \in Shapes[s]
    PROVE  /\ Asked(v, s, shape) \in Seq(Nat)
           /\ Asked(v, s, shape)[3] = s /\ Asked(v, s, shape)[4] = shape.type
<1> DEFINE a == <<v, 131, s, shape.type>>
           b == Fill(9, L!NonceBytes)
           c == ContextOf(v)
           ab == a \o b
<1>1. s \in Nat /\ shape.type \in Nat
  BY ConstantsAre DEF IsShape
<1>2. a \in Seq(Nat) /\ Len(a) = 4 /\ a[3] = s /\ a[4] = shape.type
  BY <1>1
<1>3. b \in Seq(Nat) /\ c \in Seq(Nat)
  BY FillType, ContextType DEF L!NonceBytes
<1>4. Asked(v, s, shape) = ab \o c
  BY DEF Asked
<1> HIDE DEF a, b, c
<1>5. ab \in Seq(Nat) /\ After(ab, a, b, 4, Len(b))
  BY <1>2, <1>3, JoinAfter
<1> HIDE DEF ab
<1>6. Len(b) \in Nat /\ Len(ab) \in Nat /\ Len(ab) = 4 + Len(b) /\ \A p \in 1 .. 4 : ab[p] = a[p]
  BY <1>3, <1>5 DEF After
<1>7. ab \o c \in Seq(Nat) /\ After(ab \o c, ab, c, Len(ab), Len(c))
  BY <1>3, <1>5, JoinAfter
<1> DEFINE r == ab \o c
<1> HIDE DEF r
<1>8. \A p \in 1 .. Len(ab) : r[p] = ab[p]
  BY <1>7 DEF After, r
<1>9. r[3] = ab[3] /\ r[4] = ab[4] /\ ab[3] = a[3] /\ ab[4] = a[4]
  <2>1. 3 \in 1 .. Len(ab) /\ 4 \in 1 .. Len(ab)
    BY <1>6
  <2> QED BY <1>6, <1>8, <2>1
<1> QED BY <1>2, <1>4, <1>7, <1>9 DEF r

\* Where the opaque data of a response begins.
FixedOf(shape) == 38 + (IF shape.type = 0 THEN 0 ELSE 2)
UnsignedSays(u, v, shape) ==
    /\ u \in Seq(Nat) /\ u[1] = v /\ Len(u) >= FixedOf(shape) + 2
    /\ v <= 17 => /\ V!U16(u, FixedOf(shape)) = Len(shape.opaque)
                  /\ Len(u) = FixedOf(shape) + 2 + Len(shape.opaque)

LEMMA UnsignedIs ==
    ASSUME NEW v \in Nat, NEW s \in Slots, NEW shape \in Shapes[s]
    PROVE  UnsignedSays(Unsigned(v, s, shape), v, shape)
<1> DEFINE a == <<v, 3, s, 0>>
           b == HashOf(Certificates[s][1])
           c == Fill(8, L!NonceBytes)
           d == IF shape.type = 0 THEN <<>> ELSE Fill(7, HashSize)
           e == LE(Len(shape.opaque))
           o == shape.opaque
           g == ContextOf(v)
           ab == a \o b
           abc == ab \o c
           abcd == abc \o d
           abcde == abcd \o e
           abcdeo == abcde \o o
           u == abcdeo \o g
           n == FixedOf(shape)
           l == Len(shape.opaque)
<1>1. Unsigned(v, s, shape) = u
  BY DEF Unsigned
<1>2. IsShape(shape) /\ s \in Nat
  BY ConstantsAre
<1>3. shape.type \in {0, 1, 255} /\ o \in Seq(Nat) /\ l \in Nat /\ TwoBytes(l)
  BY <1>2 DEF IsShape, TwoBytes
<1>4. a \in Seq(Nat) /\ Len(a) = 4 /\ a[1] = v
  BY <1>2
<1>5. b \in Seq(Nat) /\ Len(b) = 2
  BY CertificatesAre
<1>6. c \in Seq(Nat) /\ Len(c) = 32
  BY FillType DEF L!NonceBytes
<1>7. d \in Seq(Nat) /\ Len(d) = n - 38 /\ n \in Nat /\ n >= 38
  <2>1. Fill(7, HashSize) \in Seq(Nat) /\ Len(Fill(7, HashSize)) = 2
    BY FillType DEF HashSize
  <2>2. CASE shape.type = 0
    <3>1. d = <<>> /\ n = 38
      BY <2>2 DEF FixedOf
    <3> HIDE DEF d, n
    <3> QED BY <3>1
  <2>3. CASE shape.type # 0
    <3>1. d = Fill(7, HashSize) /\ n = 40
      BY <2>3 DEF FixedOf
    <3> HIDE DEF d, n
    <3> QED BY <2>1, <3>1
  <2> QED BY <2>2, <2>3
<1>8. e \in Seq(Nat) /\ Len(e) = 2 /\ e[1] + 256 * e[2] = l
  BY <1>3, LEType
<1>9. g \in Seq(Nat) /\ Len(g) \in Nat /\ (v <= 17 => g = <<>>)
  BY ContextType
<1> HIDE DEF a, b, c, d, e, o, g, n, l
<1>10. ab \in Seq(Nat) /\ After(ab, a, b, 4, 2)
  BY <1>4, <1>5, JoinAfter
<1>11. Len(ab) = 6 /\ ab[1] = v
  <2> HIDE DEF ab
  <2> QED BY <1>4, <1>10 DEF After
<1> HIDE DEF ab
<1>12. abc \in Seq(Nat) /\ After(abc, ab, c, 6, 32)
  BY <1>6, <1>10, <1>11, JoinAfter
<1>13. Len(abc) = 38 /\ abc[1] = v
  <2> HIDE DEF abc
  <2> QED BY <1>11, <1>12 DEF After
<1> HIDE DEF abc
<1>14. abcd \in Seq(Nat) /\ After(abcd, abc, d, 38, n - 38)
  BY <1>7, <1>12, <1>13, JoinAfter
<1>15. Len(abcd) = n /\ abcd[1] = v
  <2> HIDE DEF abcd
  <2> QED BY <1>7, <1>13, <1>14 DEF After
<1> HIDE DEF abcd
<1>16. abcde \in Seq(Nat) /\ After(abcde, abcd, e, n, 2)
  BY <1>8, <1>14, <1>15, JoinAfter
<1>17. Len(abcde) = n + 2 /\ abcde[1] = v /\ abcde[n + 1] = e[1] /\ abcde[n + 2] = e[2]
  <2> HIDE DEF abcde
  <2> QED BY <1>7, <1>15, <1>16 DEF After
<1> HIDE DEF abcde
<1>18. abcdeo \in Seq(Nat) /\ After(abcdeo, abcde, o, n + 2, l)
  BY <1>3, <1>16, <1>17, JoinAfter DEF o, l
<1>19. /\ Len(abcdeo) = n + 2 + l /\ abcdeo[1] = v
       /\ abcdeo[n + 1] = e[1] /\ abcdeo[n + 2] = e[2]
  <2> HIDE DEF abcdeo
  <2> QED BY <1>3, <1>7, <1>17, <1>18 DEF After
<1> HIDE DEF abcdeo
<1>20. u \in Seq(Nat) /\ After(u, abcdeo, g, n + 2 + l, Len(g))
  BY <1>9, <1>18, <1>19, JoinAfter
<1>21. /\ Len(u) = n + 2 + l + Len(g) /\ u[1] = v
       /\ u[n + 1] = e[1] /\ u[n + 2] = e[2]
  <2> HIDE DEF u
  <2> QED BY <1>3, <1>7, <1>9, <1>19, <1>20 DEF After
<1> HIDE DEF u
<1>22. v <= 17 => Len(g) = 0
  BY <1>9
<1>23. V!U16(u, n) = l
  BY <1>8, <1>21 DEF V!U16
<1>24. /\ u \in Seq(Nat) /\ u[1] = v /\ Len(u) >= n + 2
       /\ v <= 17 => V!U16(u, n) = l /\ Len(u) = n + 2 + l
  <2> DEFINE z == Len(u)
             y == Len(g)
  <2>1. z = n + 2 + l + y /\ n \in Nat /\ l \in Nat /\ y \in Nat /\ (v <= 17 => y = 0)
    BY <1>3, <1>7, <1>9, <1>21, <1>22
  <2> HIDE DEF z, y
  <2>2. z >= n + 2 /\ (v <= 17 => z = n + 2 + l)
    BY <2>1
  <2> QED BY <1>20, <1>21, <1>23, <2>2 DEF z
<1> QED BY <1>1, <1>24 DEF UnsignedSays, n, l, o

LEMMA AuthenticationAre ==
    ASSUME NEW v \in Nat, NEW s \in Slots, NEW shape \in Shapes[s], NEW raw \in Seq(Nat)
    PROVE  LET msgs == Authentication(v, s, shape, raw) IN
           /\ Pair(msgs, "CHALLENGE", "CHALLENGE_AUTH")
           /\ msgs[1].raw = Asked(v, s, shape)
           /\ msgs[2].raw = Unsigned(v, s, shape) \o raw
<1> DEFINE r1 == Asked(v, s, shape)
           u == Unsigned(v, s, shape)
           r2 == u \o raw
<1>1. r1 \in Seq(Nat)
  BY AskedIs
<1>2. u \in Seq(Nat)
  BY UnsignedIs DEF UnsignedSays
<1>3. r2 \in Seq(Nat)
  <2> HIDE DEF u
  <2> QED BY <1>2
<1>4. Authentication(v, s, shape, raw)
        = <<Message("CHALLENGE", "REQ", r1), Message("CHALLENGE_AUTH", "RSP", r2)>>
  BY DEF Authentication
<1> HIDE DEF r1, r2
<1> DEFINE msgs == Authentication(v, s, shape, raw)
<1> HIDE DEF msgs
<1>5. Pair(msgs, "CHALLENGE", "CHALLENGE_AUTH") /\ msgs[1].raw = r1 /\ msgs[2].raw = r2
  BY <1>1, <1>3, <1>4, CodesAre, PairOf DEF msgs
<1> QED BY <1>5 DEF msgs, r1, r2

-----------------------------------------------------------------------------
(* What of a segment is in B.                                              *)

LEMMA SameFlat == \A ss : V!FlattenSeq(ss) = FlattenSeq(ss)
BY DEF V!FlattenSeq, FlattenSeq

BRaw(m) == IF m.code \in V!BCodes THEN m.raw ELSE <<>>
BParts(seg, c) == [k \in 1 .. c - 1 |-> BRaw(seg[k])]

LEMMA BRawType ==
    ASSUME NEW m \in Captured
    PROVE  BRaw(m) \in Seq(Nat)
<1>1. m.raw \in Seq(Nat) /\ <<>> \in Seq(Nat)
  BY Codes
<1> QED BY <1>1 DEF BRaw

LEMMA BPartsType ==
    ASSUME NEW seg \in Seq(Captured), NEW c \in 1 .. Len(seg) + 1
    PROVE  /\ BParts(seg, c) \in Seq(Seq(Nat)) /\ Len(BParts(seg, c)) = c - 1
           /\ V!BBytes(seg, c) = FlattenSeq(BParts(seg, c))
           /\ V!BBytes(seg, c) \in Seq(Nat)
<1>1. \A k \in 1 .. c - 1 : BRaw(seg[k]) \in Seq(Nat)
  <2> SUFFICES ASSUME NEW k \in 1 .. c - 1 PROVE BRaw(seg[k]) \in Seq(Nat)
    OBVIOUS
  <2>1. k \in 1 .. Len(seg)
    OBVIOUS
  <2> QED BY <2>1, Member, BRawType
<1>2. c - 1 \in Nat
  OBVIOUS
<1>3. BParts(seg, c) \in Seq(Seq(Nat)) /\ Len(BParts(seg, c)) = c - 1
  BY <1>1, <1>2 DEF BParts
<1>4. V!BBytes(seg, c) = FlattenSeq(BParts(seg, c))
  BY SameFlat DEF V!BBytes, BParts, BRaw
<1> QED BY <1>3, <1>4, FlattenType

LEMMA BBytesSame ==
    ASSUME NEW c, NEW seg, NEW t, \A k \in 1 .. c - 1 : t[k] = seg[k]
    PROVE  V!BBytes(t, c) = V!BBytes(seg, c)
<1>1. BParts(t, c) = BParts(seg, c)
  BY DEF BParts
<1>2. \A s : V!BBytes(s, c) = FlattenSeq(BParts(s, c))
  BY SameFlat DEF V!BBytes, BParts, BRaw
<1> QED BY <1>1, <1>2

LEMMA BBytesNext ==
    ASSUME NEW seg \in Seq(Captured), NEW c \in 1 .. Len(seg)
    PROVE  V!BBytes(seg, c + 1) = V!BBytes(seg, c) \o BRaw(seg[c])
<1> DEFINE p == BParts(seg, c)
           q == BParts(seg, c + 1)
           x == BRaw(seg[c])
<1>1. /\ c \in 1 .. Len(seg) + 1 /\ c + 1 \in 1 .. Len(seg) + 1 /\ c \in Nat /\ (c + 1) - 1 = c
  OBVIOUS
<1>2. p \in Seq(Seq(Nat)) /\ Len(p) = c - 1 /\ V!BBytes(seg, c) = FlattenSeq(p)
  BY <1>1, BPartsType
<1>3. q \in Seq(Seq(Nat)) /\ Len(q) = c /\ V!BBytes(seg, c + 1) = FlattenSeq(q)
  BY <1>1, BPartsType
<1>4. x \in Seq(Nat)
  BY Member, BRawType
<1>5. \A k \in 1 .. c : q[k] = Append(p, x)[k]
  <2> SUFFICES ASSUME NEW k \in 1 .. c PROVE q[k] = Append(p, x)[k]
    OBVIOUS
  <2>1. CASE k = c
    <3>1. q[k] = x
      BY <1>1, <2>1 DEF BParts
    <3> HIDE DEF p, q, x
    <3> QED BY <1>2, <1>4, <2>1, <3>1
  <2>2. CASE k # c
    <3>1. q[k] = BRaw(seg[k]) /\ p[k] = BRaw(seg[k]) /\ k \in 1 .. c - 1
      BY <1>1, <2>2 DEF BParts
    <3> HIDE DEF p, q, x
    <3> QED BY <1>2, <1>4, <2>2, <3>1
  <2> QED BY <2>1, <2>2
<1> HIDE DEF p, q, x
<1>6. Append(p, x) \in Seq(Seq(Nat)) /\ Len(Append(p, x)) = c
  BY <1>2, <1>4
<1>7. q = Append(p, x)
  BY <1>3, <1>5, <1>6, SameSeq
<1>8. FlattenSeq(Append(p, x)) = FlattenSeq(p) \o x
  BY <1>2, <1>4, FlattenAppend
<1> QED BY <1>2, <1>3, <1>7, <1>8 DEF x

LEMMA RawsOfPair ==
    ASSUME NEW first, NEW second, NEW msgs, Pair(msgs, first, second)
    PROVE  /\ msgs[1] \in Captured /\ msgs[2] \in Captured
           /\ msgs[1].raw \in Seq(Nat) /\ msgs[2].raw \in Seq(Nat)
           /\ V!Raws(msgs) = msgs[1].raw \o msgs[2].raw
<1> DEFINE r1 == msgs[1].raw
           r2 == msgs[2].raw
           e == <<>>
<1>1. msgs \in Seq(Captured) /\ Len(msgs) = 2
  BY DEF Pair
<1>2. msgs[1] \in Captured /\ msgs[2] \in Captured
  <2>1. 1 \in 1 .. Len(msgs) /\ 2 \in 1 .. Len(msgs)
    BY <1>1
  <2> QED BY <1>1, <2>1, Member
<1>3. r1 \in Seq(Nat) /\ r2 \in Seq(Nat)
  BY <1>2, Codes
<1>4. DOMAIN msgs = 1 .. 2
  BY <1>1
<1>5. [k \in DOMAIN msgs |-> msgs[k].raw] = <<r1, r2>>
  <2> DEFINE f == [k \in 1 .. 2 |-> msgs[k].raw]
  <2>1. f[1] = r1 /\ f[2] = r2
    OBVIOUS
  <2>2. f \in Seq(Seq(Nat)) /\ Len(f) = 2
    <3>1. \A k \in 1 .. 2 : msgs[k].raw \in Seq(Nat)
      BY <1>3
    <3> QED BY <3>1
  <2> HIDE DEF f, r1, r2
  <2>3. f = <<r1, r2>>
    BY <1>3, <2>1, <2>2
  <2> QED BY <1>4, <2>3 DEF f
<1> HIDE DEF r1, r2
<1>6. <<r1, r2>> = Append(Append(e, r1), r2)
  OBVIOUS
<1>7. e \in Seq(Seq(Nat)) /\ Append(e, r1) \in Seq(Seq(Nat)) /\ FlattenSeq(e) = e
  BY <1>3 DEF FlattenSeq
<1> HIDE DEF e
<1> DEFINE er == Append(e, r1)
<1> HIDE DEF er
<1>8. FlattenSeq(er) = e \o r1 /\ FlattenSeq(Append(er, r2)) = FlattenSeq(er) \o r2
  <2>1. er \in Seq(Seq(Nat))
    BY <1>7 DEF er
  <2>2. FlattenSeq(Append(e, r1)) = FlattenSeq(e) \o r1
    BY <1>3, <1>7, FlattenAppend
  <2>3. FlattenSeq(Append(er, r2)) = FlattenSeq(er) \o r2
    BY <1>3, <2>1, FlattenAppend
  <2> QED BY <1>7, <2>2, <2>3 DEF er
<1>9. e \o r1 = r1
  BY <1>3 DEF e
<1>10. V!Raws(msgs) = FlattenSeq(<<r1, r2>>)
  <2> DEFINE f == [k \in DOMAIN msgs |-> msgs[k].raw]
  <2>1. V!Raws(msgs) = FlattenSeq(f)
    BY SameFlat DEF V!Raws
  <2> QED BY <1>5, <2>1
<1>11. V!Raws(msgs) = r1 \o r2
  BY <1>6, <1>8, <1>9, <1>10 DEF er
<1> QED BY <1>2, <1>3, <1>11 DEF r1, r2

\* What two messages do to a segment.
LEMMA PairSaid ==
    ASSUME NEW seg \in Seq(Captured), NEW first, NEW second, NEW msgs, Pair(msgs, first, second)
    PROVE  LET t == seg \o msgs IN
           /\ t \in Seq(Captured) /\ Len(t) = Len(seg) + 2 /\ Len(seg) \in Nat
           /\ \A k \in 1 .. Len(seg) : t[k] = seg[k]
           /\ t[Len(seg) + 1] = msgs[1] /\ t[Len(seg) + 2] = msgs[2]
<1>1. msgs \in Seq(Captured) /\ Len(msgs) = 2
  BY DEF Pair
<1> DEFINE t == seg \o msgs
<1>2. t \in Seq(Captured) /\ After(t, seg, msgs, Len(seg), 2)
  BY <1>1, JoinAfter
<1> HIDE DEF t
<1> DEFINE n == Len(seg)
<1>3. n \in Nat
  OBVIOUS
<1> HIDE DEF n
<1>4. /\ Len(t) = n + 2 /\ \A k \in 1 .. n : t[k] = seg[k]
      /\ t[n + 1] = msgs[1] /\ t[n + 2] = msgs[2]
  <2>1. After(t, seg, msgs, n, 2)
    BY <1>2 DEF n
  <2>2. n + 1 \in n + 1 .. n + 2 /\ n + 2 \in n + 1 .. n + 2 /\ (n + 1) - n = 1 /\ (n + 2) - n = 2
    BY <1>3
  <2> QED BY <2>1, <2>2 DEF After
<1> QED BY <1>2, <1>3, <1>4 DEF t, n

LEMMA BytesAssociate ==
    ASSUME NEW s \in Seq(Nat), NEW t \in Seq(Nat), NEW u \in Seq(Nat)
    PROVE  (s \o t) \o u = s \o (t \o u)
BY JoinAssociates

LEMMA BBytesSaid ==
    ASSUME NEW seg \in Seq(Captured), NEW first \in V!BCodes, NEW second \in V!BCodes,
           NEW msgs, Pair(msgs, first, second)
    PROVE  V!BBytes(seg \o msgs, Len(seg \o msgs) + 1)
             = V!BBytes(seg, Len(seg) + 1) \o V!Raws(msgs)
<1> DEFINE t == seg \o msgs
           n == Len(seg)
           r1 == msgs[1].raw
           r2 == msgs[2].raw
<1>1. /\ t \in Seq(Captured) /\ Len(t) = n + 2 /\ n \in Nat
      /\ \A k \in 1 .. n : t[k] = seg[k]
      /\ t[n + 1] = msgs[1] /\ t[n + 2] = msgs[2]
  BY PairSaid
<1>2. r1 \in Seq(Nat) /\ r2 \in Seq(Nat) /\ V!Raws(msgs) = r1 \o r2
  BY RawsOfPair
<1>3. BRaw(msgs[1]) = r1 /\ BRaw(msgs[2]) = r2
  BY DEF BRaw, Pair
<1> HIDE DEF t, n, r1, r2
<1>4. V!BBytes(t, n + 1) = V!BBytes(seg, n + 1) /\ V!BBytes(seg, n + 1) \in Seq(Nat)
  <2>1. \A k \in 1 .. (n + 1) - 1 : t[k] = seg[k]
    BY <1>1
  <2>2. n + 1 \in 1 .. Len(seg) + 1
    BY <1>1 DEF n
  <2> QED BY <2>1, <2>2, BBytesSame, BPartsType
<1>5. V!BBytes(t, (n + 1) + 1) = V!BBytes(t, n + 1) \o r1
  <2>1. n + 1 \in 1 .. Len(t)
    BY <1>1
  <2> QED BY <1>1, <1>3, <2>1, BBytesNext
<1>6. V!BBytes(t, (n + 2) + 1) = V!BBytes(t, n + 2) \o r2
  <2>1. n + 2 \in 1 .. Len(t)
    BY <1>1
  <2> QED BY <1>1, <1>3, <2>1, BBytesNext
<1>7. (n + 1) + 1 = n + 2
  BY <1>1
<1> DEFINE b == V!BBytes(seg, n + 1)
<1> HIDE DEF b
<1>8. b \in Seq(Nat) /\ V!BBytes(t, (n + 2) + 1) = (b \o r1) \o r2
  <2>1. b \in Seq(Nat) /\ V!BBytes(t, n + 1) = b
    BY <1>4 DEF b
  <2>2. V!BBytes(t, n + 2) = b \o r1
    BY <1>5, <1>7, <2>1
  <2> QED BY <1>6, <2>1, <2>2
<1>9. (b \o r1) \o r2 = b \o (r1 \o r2)
  <2>1. b \in Seq(Nat)
    BY <1>8
  <2> QED BY <1>2, <2>1, BytesAssociate, Zenon
<1> QED BY <1>1, <1>2, <1>8, <1>9 DEF t, n, b

-----------------------------------------------------------------------------
(* A connection of which two messages more are captured.                   *)

Same(c, d) ==
    /\ d.version = c.version /\ d.a = c.a
    /\ d.slot = c.slot /\ d.first = c.first /\ d.withCert = c.withCert
Has(seg, code) == \E k \in DOMAIN seg : seg[k].code = code

LEMMA CodeSaid ==
    ASSUME NEW seg \in Seq(Captured), NEW first, NEW second, NEW msgs, Pair(msgs, first, second),
           NEW code
    PROVE  Has(seg \o msgs, code) <=> Has(seg, code) \/ first = code \/ second = code
<1> DEFINE t == seg \o msgs
           n == Len(seg)
<1>1. /\ t \in Seq(Captured) /\ Len(t) = n + 2 /\ n \in Nat
      /\ \A k \in 1 .. n : t[k] = seg[k]
      /\ t[n + 1] = msgs[1] /\ t[n + 2] = msgs[2]
  BY PairSaid
<1>2. msgs[1].code = first /\ msgs[2].code = second
  BY DEF Pair
<1>3. DOMAIN seg = 1 .. n
  OBVIOUS
<1> HIDE DEF t, n
<1>4. DOMAIN t = 1 .. n + 2
  BY <1>1
<1>5. \A k \in 1 .. n + 2 : k \in 1 .. n \/ k = n + 1 \/ k = n + 2
  BY <1>1
<1>6. n + 1 \in 1 .. n + 2 /\ n + 2 \in 1 .. n + 2 /\ \A k \in 1 .. n : k \in 1 .. n + 2
  BY <1>1
<1>7. ASSUME Has(t, code) PROVE Has(seg, code) \/ first = code \/ second = code
  <2>1. PICK k \in 1 .. n + 2 : t[k].code = code
    BY <1>4, <1>7 DEF Has
  <2> QED BY <1>1, <1>2, <1>3, <1>5, <2>1 DEF Has
<1>8. ASSUME Has(seg, code) \/ first = code \/ second = code PROVE Has(t, code)
  <2>1. CASE Has(seg, code)
    <3>1. PICK k \in 1 .. n : seg[k].code = code
      BY <1>3, <2>1 DEF Has
    <3> QED BY <1>1, <1>4, <1>6, <3>1 DEF Has
  <2>2. CASE first = code
    BY <1>1, <1>2, <1>4, <1>6, <2>2 DEF Has
  <2>3. CASE second = code
    BY <1>1, <1>2, <1>4, <1>6, <2>3 DEF Has
  <2> QED BY <1>8, <2>1, <2>2, <2>3
<1> QED BY <1>7, <1>8 DEF t

LEMMA OpenedSaid ==
    ASSUME NEW seg \in Seq(Captured), NEW first \in LaterCodes, NEW second \in LaterCodes,
           NEW msgs, Pair(msgs, first, second), NEW c, NEW d, Opened(seg, c),
           d.version = c.version, d.a = c.a
    PROVE  Opened(seg \o msgs, d)
<1> DEFINE t == seg \o msgs
           n == Len(seg)
<1>1. /\ t \in Seq(Captured) /\ Len(t) = n + 2 /\ n \in Nat
      /\ \A k \in 1 .. n : t[k] = seg[k]
      /\ t[n + 1] = msgs[1] /\ t[n + 2] = msgs[2]
  BY PairSaid
<1>2. msgs[1].code \in LaterCodes /\ msgs[2].code \in LaterCodes
  BY DEF Pair
<1>3. /\ n >= 6 /\ \A k \in 1 .. 6 : seg[k] = Opening(c.version)[k]
      /\ \A k \in 7 .. n : seg[k].code \in LaterCodes
      /\ c.a = V!Raws(Opening(c.version))
  BY DEF Opened
<1>4. d.version = c.version /\ d.a = c.a
  OBVIOUS
<1> HIDE DEF t, n
<1>5. \A k \in 1 .. 6 : t[k] = Opening(d.version)[k]
  <2>1. \A k \in 1 .. 6 : k \in 1 .. n
    BY <1>1, <1>3
  <2> QED BY <1>1, <1>3, <1>4, <2>1
<1>6. \A k \in 7 .. n + 2 : t[k].code \in LaterCodes
  <2>1. \A k \in 7 .. n + 2 : (k \in 1 .. n /\ k \in 7 .. n) \/ k = n + 1 \/ k = n + 2
    BY <1>1, <1>3
  <2> QED BY <1>1, <1>2, <1>3, <2>1
<1>7. Len(t) >= 6 /\ Len(t) = n + 2
  BY <1>1, <1>3
<1> QED BY <1>3, <1>4, <1>5, <1>6, <1>7 DEF Opened, t

\* A signed CHALLENGE stays where it is.
LEMMA AsksSaid ==
    ASSUME NEW seg \in Seq(Captured), NEW first, NEW second, NEW msgs, Pair(msgs, first, second),
           NEW c, NEW d, NEW sigs, NEW sigs2, sigs \subseteq sigs2,
           Asks(seg, c, sigs), Same(c, d), ~d.error => ~c.error
    PROVE  Asks(seg \o msgs, d, sigs2)
<1> DEFINE t == seg \o msgs
           n == Len(seg)
<1>1. /\ t \in Seq(Captured) /\ Len(t) = n + 2 /\ n \in Nat
      /\ \A k \in 1 .. n : t[k] = seg[k]
  BY PairSaid
<1>2. PICK at \in 1 .. n, shape \in Shapes[c.slot], sig \in sigs : Signed(seg, c, at, shape, sig)
  BY DEF Asks
<1>3. c.slot \in Slots
  BY DEF Asks
<1>4. /\ d.version = c.version /\ d.a = c.a
      /\ d.slot = c.slot /\ d.first = c.first /\ d.withCert = c.withCert
  BY DEF Same
<1>5. at \in 7 .. n - 1
  BY <1>2 DEF Signed
<1> HIDE DEF t, n
<1>6. at \in 1 .. n /\ at + 1 \in 1 .. n /\ at \in 7 .. (n + 2) - 1 /\ at \in 1 .. n + 2
  BY <1>1, <1>5
<1>7. t[at] = seg[at] /\ t[at + 1] = seg[at + 1] /\ \A k \in 1 .. at - 1 : t[k] = seg[k]
  <2>1. \A k \in 1 .. at - 1 : k \in 1 .. n
    BY <1>1, <1>5
  <2> QED BY <1>1, <1>6, <2>1
<1>8. V!BBytes(t, at) = V!BBytes(seg, at)
  BY <1>7, BBytesSame
<1>9. Signed(t, d, at, shape, sig)
  <2>1. at \in 7 .. Len(t) - 1
    BY <1>1, <1>6
  <2>2. /\ \A k \in 1 .. at - 1 : t[k].code # "CHALLENGE"
        /\ d.withCert = \E k \in 1 .. at - 1 : t[k].code = "CERTIFICATE"
    <3>1. /\ \A k \in 1 .. at - 1 : seg[k].code # "CHALLENGE"
          /\ c.withCert = \E k \in 1 .. at - 1 : seg[k].code = "CERTIFICATE"
      BY <1>2 DEF Signed
    <3> QED BY <1>4, <1>7, <3>1
  <2>3. /\ t[at].code = "CHALLENGE" /\ t[at + 1].code = "CHALLENGE_AUTH"
        /\ t[at].raw = Asked(d.version, d.slot, shape)
        /\ t[at + 1].raw = Unsigned(d.version, d.slot, shape) \o sig.raw
        /\ sig.key = KeyOf(Last(Certificates[d.slot]))
    BY <1>2, <1>4, <1>7 DEF Signed
  <2>4. ~d.error => (d.first = "good") = (sig.m1m2 = d.a \o V!BBytes(t, at) \o
                      Asked(d.version, d.slot, shape) \o Unsigned(d.version, d.slot, shape))
    BY <1>2, <1>4, <1>8 DEF Signed
  <2> QED BY <2>1, <2>2, <2>3, <2>4 DEF Signed
<1>10. sig \in sigs2 /\ at \in 1 .. Len(t) /\ shape \in Shapes[d.slot] /\ d.slot \in Slots
  BY <1>1, <1>3, <1>4, <1>6
<1> QED BY <1>9, <1>10 DEF Asks, t

\* More signatures make no difference.
LEMMA MoreSigned ==
    ASSUME NEW seg, NEW c, NEW sigs, NEW sigs2, sigs \subseteq sigs2, Recounts(seg, c, sigs)
    PROVE  Recounts(seg, c, sigs2)
<1>1. Asks(seg, c, sigs) => Asks(seg, c, sigs2)
  BY DEF Asks
<1> QED BY <1>1 DEF Recounts

LEMMA Said ==
    ASSUME NEW seg \in Seq(Captured), NEW first \in LaterCodes, NEW second \in LaterCodes,
           NEW msgs, Pair(msgs, first, second), NEW c \in Known, NEW d \in Known,
           NEW sigs, NEW sigs2, sigs \subseteq sigs2,
           Recounts(seg, c, sigs), Same(c, d),
           d.error <=> c.error \/ first = "ERROR" \/ second = "ERROR",
           c.first = "none" => Unasked(seg \o msgs, d)
    PROVE  Recounts(seg \o msgs, d, sigs2)
<1>1. Opened(seg, c) /\ (c.first # "none" => Asks(seg, c, sigs)) /\ c.error = Has(seg, "ERROR")
  BY DEF Recounts, Has
<1>2. Opened(seg \o msgs, d)
  <2>1. d.version = c.version /\ d.a = c.a
    BY DEF Same
  <2> QED BY <1>1, <2>1, OpenedSaid
<1>3. Has(seg \o msgs, "ERROR") <=> Has(seg, "ERROR") \/ first = "ERROR" \/ second = "ERROR"
  BY CodeSaid
<1>4. d.error = Has(seg \o msgs, "ERROR")
  <2>1. d.error \in BOOLEAN /\ c.error \in BOOLEAN
    BY DEF Known
  <2>2. Has(seg \o msgs, "ERROR") \in BOOLEAN
    BY DEF Has
  <2> QED BY <1>1, <1>3, <2>1, <2>2
<1>5. d.first = c.first
  BY DEF Same
<1>6. d.first # "none" => Asks(seg \o msgs, d, sigs2)
  BY <1>1, <1>5, AsksSaid
<1> QED BY <1>2, <1>4, <1>5, <1>6 DEF Recounts, Has

LEMMA UnaskedSaid ==
    ASSUME NEW seg \in Seq(Captured), NEW first, NEW second, NEW msgs, Pair(msgs, first, second),
           NEW c \in Known, NEW d \in Known, Unasked(seg, c),
           first # "CHALLENGE", second # "CHALLENGE",
           d.cert <=> c.cert \/ first = "CERTIFICATE" \/ second = "CERTIFICATE",
           ~d.error => d.b = V!BBytes(seg \o msgs, Len(seg \o msgs) + 1)
    PROVE  Unasked(seg \o msgs, d)
<1>1. ~Has(seg, "CHALLENGE") /\ c.cert = Has(seg, "CERTIFICATE")
  BY DEF Unasked, Has
<1>2. ~Has(seg \o msgs, "CHALLENGE")
  BY <1>1, CodeSaid
<1>3. Has(seg \o msgs, "CERTIFICATE") <=> Has(seg, "CERTIFICATE") \/ first = "CERTIFICATE" \/ second = "CERTIFICATE"
  BY CodeSaid
<1>4. d.cert = Has(seg \o msgs, "CERTIFICATE")
  <2>1. d.cert \in BOOLEAN /\ c.cert \in BOOLEAN
    BY DEF Known
  <2>2. Has(seg \o msgs, "CERTIFICATE") \in BOOLEAN
    BY DEF Has
  <2> QED BY <1>1, <1>3, <2>1, <2>2
<1> QED BY <1>2, <1>4 DEF Unasked, Has

LEMMA RawsType ==
    ASSUME NEW msgs \in Seq(Captured)
    PROVE  V!Raws(msgs) \in Seq(Nat)
<1> DEFINE f == [k \in DOMAIN msgs |-> msgs[k].raw]
<1>1. \A k \in 1 .. Len(msgs) : msgs[k].raw \in Seq(Nat)
  BY Member, Codes
<1>2. f \in Seq(Seq(Nat))
  BY <1>1
<1>3. V!Raws(msgs) = FlattenSeq(f)
  BY SameFlat DEF V!Raws
<1> HIDE DEF f
<1> QED BY <1>2, <1>3, FlattenType

LEMMA BBytesBegin ==
    ASSUME NEW seg
    PROVE  V!BBytes(seg, 1) = <<>>
<1>1. BParts(seg, 1) = <<>>
  BY DEF BParts
<1>2. V!BBytes(seg, 1) = FlattenSeq(BParts(seg, 1))
  BY SameFlat DEF V!BBytes, BParts, BRaw
<1>3. FlattenSeq(<<>>) = <<>>
  BY DEF FlattenSeq
<1> QED BY <1>1, <1>2, <1>3

-----------------------------------------------------------------------------
(* A connection begins, and its first CHALLENGE is answered.               *)

Opens(v) ==
    [version |-> v, a |-> V!Raws(Opening(v)), b |-> <<>>, cert |-> FALSE, error |-> FALSE,
     first |-> "none", slot |-> -1, withCert |-> FALSE]

LEMMA NothingToSign ==
    ASSUME NEW seg \in Seq(Captured), \A k \in 1 .. Len(seg) : seg[k].code \notin V!BCodes
    PROVE  V!BBytes(seg, Len(seg) + 1) = <<>>
<1> DEFINE T == {k \in Nat : k <= Len(seg) => V!BBytes(seg, k + 1) = <<>>}
<1>1. 0 \in T
  BY BBytesBegin
<1>2. ASSUME NEW k \in Nat, k \in T PROVE k + 1 \in T
  <2> SUFFICES ASSUME k + 1 <= Len(seg) PROVE V!BBytes(seg, (k + 1) + 1) = <<>>
    OBVIOUS
  <2>1. V!BBytes(seg, k + 1) = <<>>
    BY <1>2
  <2>2. k + 1 \in 1 .. Len(seg)
    OBVIOUS
  <2>3. V!BBytes(seg, (k + 1) + 1) = V!BBytes(seg, k + 1) \o BRaw(seg[k + 1])
    BY <2>2, BBytesNext
  <2>4. BRaw(seg[k + 1]) = <<>>
    BY <2>2 DEF BRaw
  <2>5. <<>> \o <<>> = <<>>
    OBVIOUS
  <2> QED BY <2>1, <2>3, <2>4, <2>5
<1> HIDE DEF T
<1>3. Nat \subseteq T
  BY <1>1, <1>2, Induct
<1> QED BY <1>3 DEF T

LEMMA OpensRecounted ==
    ASSUME NEW v \in Versions, NEW sigs
    PROVE  Opens(v) \in Known /\ Recounts(Opening(v), Opens(v), sigs)
<1> DEFINE o == Opening(v)
           a == V!Raws(o)
<1>1. v \in Nat
  BY ConstantsAre
<1>2. /\ o \in Seq(Captured) /\ Len(o) = 6
      /\ o[1].code = "GET_VERSION" /\ o[2].code = "VERSION"
      /\ o[3].code = "GET_CAPABILITIES" /\ o[4].code = "CAPABILITIES"
      /\ o[5].code = "NEGOTIATE_ALGORITHMS" /\ o[6].code = "ALGORITHMS"
  BY <1>1, OpeningIs
<1>3. a \in Seq(Nat)
  BY <1>2, RawsType
<1> HIDE DEF o, a
<1>4. \A k \in 1 .. Len(o) : o[k].code \in FirstCodes
  BY <1>2 DEF FirstCodes
<1>5. DOMAIN o = 1 .. Len(o)
  BY <1>2
<1>6. /\ ~Has(o, "ERROR") /\ ~Has(o, "CERTIFICATE") /\ ~Has(o, "CHALLENGE")
      /\ \A k \in 1 .. Len(o) : o[k].code \notin V!BCodes
  BY <1>4, <1>5 DEF Has, FirstCodes, V!BCodes
<1>7. V!BBytes(o, Len(o) + 1) = <<>>
  BY <1>2, <1>6, NothingToSign
<1> DEFINE c == Opens(v)
<1>8. /\ c.version = v /\ c.a = a /\ c.b = <<>> /\ c.cert = FALSE /\ c.error = FALSE
      /\ c.first = "none"
  BY DEF Opens, a, o
<1>9. c \in Known
  <2> DEFINE e == <<>>
  <2>1. c = [version |-> v, a |-> a, b |-> e, cert |-> FALSE, error |-> FALSE,
             first |-> "none", slot |-> -1, withCert |-> FALSE]
    BY DEF Opens, a, o
  <2>2. e \in Seq(Nat)
    OBVIOUS
  <2> HIDE DEF e, c
  <2> QED BY <1>3, <2>1, <2>2 DEF Known
<1> HIDE DEF c
<1>10. Opened(o, c)
  <2>1. \A k \in 1 .. 6 : o[k] = Opening(c.version)[k]
    BY <1>8 DEF o
  <2>2. c.a = V!Raws(Opening(c.version))
    BY <1>8 DEF a, o
  <2>3. Len(o) >= 6 /\ \A k \in 7 .. Len(o) : FALSE
    BY <1>2
  <2> QED BY <2>1, <2>2, <2>3 DEF Opened
<1>11. Unasked(o, c)
  BY <1>6, <1>7, <1>8 DEF Unasked, Has
<1>12. Recounts(o, c, sigs)
  BY <1>6, <1>8, <1>10, <1>11 DEF Recounts, Has
<1> QED BY <1>9, <1>12 DEF o, c

KnownAs(v, a, b, cert, error, first, slot, withCert) ==
    [version |-> v, a |-> a, b |-> b, cert |-> cert, error |-> error,
     first |-> first, slot |-> slot, withCert |-> withCert]

LEMMA KnownIs ==
    ASSUME NEW c \in Known
    PROVE  c = KnownAs(c.version, c.a, c.b, c.cert, c.error, c.first, c.slot, c.withCert)
BY DEF Known, KnownAs

LEMMA KnownHears ==
    ASSUME NEW c \in Known, NEW b
    PROVE  [c EXCEPT !.b = b] = KnownAs(c.version, c.a, b, c.cert, c.error, c.first, c.slot, c.withCert)
<1> DEFINE x1 == c.version
           x2 == c.a
           x3 == c.b
           x4 == c.cert
           x5 == c.error
           x6 == c.first
           x7 == c.slot
           x8 == c.withCert
<1>1. c = KnownAs(x1, x2, x3, x4, x5, x6, x7, x8)
  BY DEF Known, KnownAs
<1> HIDE DEF x1, x2, x3, x4, x5, x6, x7, x8
<1>2. [KnownAs(x1, x2, x3, x4, x5, x6, x7, x8) EXCEPT !.b = b] = KnownAs(x1, x2, b, x4, x5, x6, x7, x8)
  BY DEF KnownAs
<1> QED BY <1>1, <1>2 DEF x1, x2, x3, x4, x5, x6, x7, x8

LEMMA KnownFetches ==
    ASSUME NEW c \in Known, NEW cert
    PROVE  [c EXCEPT !.cert = cert] = KnownAs(c.version, c.a, c.b, cert, c.error, c.first, c.slot, c.withCert)
<1> DEFINE x1 == c.version
           x2 == c.a
           x3 == c.b
           x4 == c.cert
           x5 == c.error
           x6 == c.first
           x7 == c.slot
           x8 == c.withCert
<1>1. c = KnownAs(x1, x2, x3, x4, x5, x6, x7, x8)
  BY DEF Known, KnownAs
<1> HIDE DEF x1, x2, x3, x4, x5, x6, x7, x8
<1>2. [KnownAs(x1, x2, x3, x4, x5, x6, x7, x8) EXCEPT !.cert = cert] = KnownAs(x1, x2, x3, cert, x5, x6, x7, x8)
  BY DEF KnownAs
<1> QED BY <1>1, <1>2 DEF x1, x2, x3, x4, x5, x6, x7, x8

LEMMA KnownFails ==
    ASSUME NEW c \in Known, NEW error
    PROVE  [c EXCEPT !.error = error] = KnownAs(c.version, c.a, c.b, c.cert, error, c.first, c.slot, c.withCert)
<1> DEFINE x1 == c.version
           x2 == c.a
           x3 == c.b
           x4 == c.cert
           x5 == c.error
           x6 == c.first
           x7 == c.slot
           x8 == c.withCert
<1>1. c = KnownAs(x1, x2, x3, x4, x5, x6, x7, x8)
  BY DEF Known, KnownAs
<1> HIDE DEF x1, x2, x3, x4, x5, x6, x7, x8
<1>2. [KnownAs(x1, x2, x3, x4, x5, x6, x7, x8) EXCEPT !.error = error] = KnownAs(x1, x2, x3, x4, error, x6, x7, x8)
  BY DEF KnownAs
<1> QED BY <1>1, <1>2 DEF x1, x2, x3, x4, x5, x6, x7, x8

Answers(c, s, m1m2, right) ==
    [c EXCEPT !.b = <<>>, !.slot = s, !.withCert = c.cert,
              !.first = IF m1m2 = right THEN "good" ELSE "faulty"]

LEMMA AnswersIs ==
    ASSUME NEW c \in Known, NEW s, NEW m1m2, NEW right
    PROVE  Answers(c, s, m1m2, right)
             = KnownAs(c.version, c.a, <<>>, c.cert, c.error,
                       IF m1m2 = right THEN "good" ELSE "faulty", s, c.cert)
<1> DEFINE first == IF m1m2 = right THEN "good" ELSE "faulty"
           b == <<>>
           x1 == c.version
           x2 == c.a
           x3 == c.b
           x4 == c.cert
           x5 == c.error
           x6 == c.first
           x7 == c.slot
           x8 == c.withCert
<1>1. c = KnownAs(x1, x2, x3, x4, x5, x6, x7, x8)
  BY KnownIs
<1>2. Answers(c, s, m1m2, right) = [c EXCEPT !.b = b, !.slot = s, !.withCert = x4, !.first = first]
  BY DEF Answers
<1> HIDE DEF first, b, x1, x2, x3, x4, x5, x6, x7, x8
<1>3. [KnownAs(x1, x2, x3, x4, x5, x6, x7, x8) EXCEPT !.b = b] = KnownAs(x1, x2, b, x4, x5, x6, x7, x8)
  BY DEF KnownAs
<1>4. [KnownAs(x1, x2, b, x4, x5, x6, x7, x8) EXCEPT !.slot = s] = KnownAs(x1, x2, b, x4, x5, x6, s, x8)
  BY DEF KnownAs
<1>5. [KnownAs(x1, x2, b, x4, x5, x6, s, x8) EXCEPT !.withCert = x4]
        = KnownAs(x1, x2, b, x4, x5, x6, s, x4)
  BY DEF KnownAs
<1>6. [KnownAs(x1, x2, b, x4, x5, x6, s, x4) EXCEPT !.first = first]
        = KnownAs(x1, x2, b, x4, x5, first, s, x4)
  BY DEF KnownAs
<1>7. [c EXCEPT !.b = b, !.slot = s, !.withCert = x4, !.first = first]
        = KnownAs(x1, x2, b, x4, x5, first, s, x4)
  BY <1>1, <1>3, <1>4, <1>5, <1>6
<1> QED BY <1>2, <1>7 DEF first, b, x1, x2, x4, x5

LEMMA ChallengeRecounted ==
    ASSUME NEW seg \in Seq(Captured), NEW c \in Known, NEW sigs, NEW sigs2,
           Recounts(seg, c, sigs), c.first = "none",
           NEW s \in Slots, NEW shape \in Shapes[s], NEW raw \in Seq(Nat), NEW m1m2, NEW right,
           right = c.a \o c.b \o Asked(c.version, s, shape) \o Unsigned(c.version, s, shape),
           [key |-> KeyOf(Last(Certificates[s])), m1m2 |-> m1m2, raw |-> raw] \in sigs2
    PROVE  LET d == Answers(c, s, m1m2, right) IN
           /\ d \in Known
           /\ Recounts(seg \o Authentication(c.version, s, shape, raw), d, sigs2)
<1> DEFINE v == c.version
           msgs == Authentication(v, s, shape, raw)
           t == seg \o msgs
           n == Len(seg)
           at == n + 1
           sig == [key |-> KeyOf(Last(Certificates[s])), m1m2 |-> m1m2, raw |-> raw]
           first == IF m1m2 = right THEN "good" ELSE "faulty"
           d == Answers(c, s, m1m2, right)
           e == <<>>
<1>1. v \in Nat /\ v \in Versions
  BY ConstantsAre DEF Known
<1>2. /\ Pair(msgs, "CHALLENGE", "CHALLENGE_AUTH")
      /\ msgs[1].raw = Asked(v, s, shape) /\ msgs[2].raw = Unsigned(v, s, shape) \o raw
  BY <1>1, AuthenticationAre
<1> HIDE DEF msgs
<1>3. /\ t \in Seq(Captured) /\ Len(t) = n + 2 /\ n \in Nat
      /\ \A k \in 1 .. n : t[k] = seg[k]
      /\ t[n + 1] = msgs[1] /\ t[n + 2] = msgs[2]
  BY <1>2, PairSaid
<1>4. d = [version |-> v, a |-> c.a, b |-> e, cert |-> c.cert, error |-> c.error,
           first |-> first, slot |-> s, withCert |-> c.cert]
  BY AnswersIs DEF KnownAs, first
<1>5. first \in {"good", "faulty"} /\ e \in Seq(Nat)
  OBVIOUS
<1> HIDE DEF first, e, d, v
<1>6. /\ d.version = v /\ d.a = c.a /\ d.cert = c.cert /\ d.error = c.error
      /\ d.first = first /\ d.slot = s /\ d.withCert = c.cert
  BY <1>4
<1>7. d \in Known
  BY <1>1, <1>4, <1>5 DEF Known
<1>8. Opened(seg, c) /\ Unasked(seg, c) /\ c.error = Has(seg, "ERROR")
  BY DEF Recounts, Has
<1>9. Opened(t, d)
  <2>1. d.version = c.version /\ d.a = c.a
    BY <1>6 DEF v
  <2>2. "CHALLENGE" \in LaterCodes /\ "CHALLENGE_AUTH" \in LaterCodes
    BY CodesAre
  <2> QED BY <1>2, <1>8, <2>1, <2>2, OpenedSaid
<1>10. d.error = Has(t, "ERROR")
  <2>1. Has(t, "ERROR") <=> Has(seg, "ERROR") \/ "CHALLENGE" = "ERROR" \/ "CHALLENGE_AUTH" = "ERROR"
    BY <1>2, CodeSaid
  <2>2. Has(t, "ERROR") \in BOOLEAN /\ Has(seg, "ERROR") \in BOOLEAN
    BY DEF Has
  <2> QED BY <1>6, <1>8, <2>1, <2>2
<1>11. n >= 6 /\ DOMAIN seg = 1 .. n
  BY <1>8 DEF Opened
<1> HIDE DEF n, t
<1>12. Signed(t, d, at, shape, sig)
  <2>1. at \in 7 .. Len(t) - 1 /\ at - 1 = n /\ at + 1 = n + 2
    BY <1>3, <1>11
  <2>2. \A k \in 1 .. at - 1 : t[k].code # "CHALLENGE"
    <3>1. \A k \in 1 .. n : seg[k].code # "CHALLENGE"
      BY <1>8, <1>11 DEF Unasked
    <3> QED BY <1>3, <2>1, <3>1
  <2>3. d.withCert = \E k \in 1 .. at - 1 : t[k].code = "CERTIFICATE"
    <3>1. c.cert = \E k \in 1 .. n : seg[k].code = "CERTIFICATE"
      BY <1>8, <1>11 DEF Unasked
    <3> QED BY <1>3, <1>6, <2>1, <3>1
  <2>4. /\ t[at].code = "CHALLENGE" /\ t[at + 1].code = "CHALLENGE_AUTH"
        /\ t[at].raw = Asked(d.version, d.slot, shape)
        /\ t[at + 1].raw = Unsigned(d.version, d.slot, shape) \o sig.raw
        /\ sig.key = KeyOf(Last(Certificates[d.slot]))
    BY <1>2, <1>3, <1>6, <2>1 DEF Pair
  <2>5. ~d.error => (d.first = "good") = (sig.m1m2 = d.a \o V!BBytes(t, at) \o
                      Asked(d.version, d.slot, shape) \o Unsigned(d.version, d.slot, shape))
    <3> SUFFICES ASSUME ~d.error
                 PROVE  (d.first = "good") = (sig.m1m2 = d.a \o V!BBytes(t, at) \o
                      Asked(d.version, d.slot, shape) \o Unsigned(d.version, d.slot, shape))
      OBVIOUS
    <3>1. V!BBytes(t, at) = V!BBytes(seg, at)
      BY <1>3, <2>1, BBytesSame
    <3>2. c.b = V!BBytes(seg, at)
      BY <1>6, <1>8 DEF Unasked, n
    <3>3. right = d.a \o V!BBytes(t, at) \o Asked(d.version, d.slot, shape) \o Unsigned(d.version, d.slot, shape)
      BY <1>6, <3>1, <3>2 DEF v
    <3>4. sig.m1m2 = m1m2
      OBVIOUS
    <3>5. (d.first = "good") <=> (m1m2 = right)
      BY <1>6 DEF first
    <3> HIDE DEF sig
    <3> QED BY <3>3, <3>4, <3>5
  <2> HIDE DEF sig
  <2> QED BY <2>1, <2>2, <2>3, <2>4, <2>5 DEF Signed
<1>13. Asks(t, d, sigs2)
  <2>1. sig \in sigs2 /\ at \in 1 .. Len(t) /\ d.slot \in Slots /\ shape \in Shapes[d.slot]
    BY <1>3, <1>6
  <2> HIDE DEF sig, at
  <2> QED BY <1>12, <2>1 DEF Asks
<1>14. d.first # "none"
  BY <1>5, <1>6
<1>15. Recounts(t, d, sigs2)
  BY <1>9, <1>10, <1>13, <1>14 DEF Recounts, Has
<1> QED BY <1>7, <1>15 DEF d, t, msgs, v

-----------------------------------------------------------------------------
(* The segments of a capture, an exchange later.                           *)

LEMMA SegmentsExtended ==
    ASSUME NEW messages \in Seq(Captured), NEW known \in Seq(Known), known # <<>>,
           NEW sigs, NEW sigs2, sigs \subseteq sigs2, SegmentsAre(messages, known, sigs),
           NEW first \in LaterCodes, NEW second \in LaterCodes, NEW msgs, Pair(msgs, first, second),
           NEW d \in Known,
           Recounts(V!Segments(messages)[Len(known)] \o msgs, d, sigs2)
    PROVE  SegmentsAre(messages \o msgs, [known EXCEPT ![Len(known)] = d], sigs2)
<1> DEFINE segs == V!Segments(messages)
           n == Len(known)
           known2 == [known EXCEPT ![n] = d]
           last == segs[n] \o msgs
<1>1. segs \in Seq(Seq(Captured)) /\ Len(segs) = n /\ n \in Nat /\ n >= 1
  BY SegmentsType DEF Segs, SegmentsAre
<1>2. \A k \in 1 .. n : Recounts(segs[k], known[k], sigs)
  BY DEF SegmentsAre
<1>3. msgs \in Seq(Captured) /\ \A k \in 1 .. Len(msgs) : msgs[k].code # "GET_VERSION"
  <2>1. first # "GET_VERSION" /\ second # "GET_VERSION"
    BY Codes
  <2>2. msgs \in Seq(Captured) /\ Len(msgs) = 2 /\ msgs[1].code = first /\ msgs[2].code = second
    BY DEF Pair
  <2> QED BY <2>1, <2>2
<1>4. V!Segments(messages \o msgs) = [segs EXCEPT ![n] = last]
  <2>1. segs # <<>>
    BY <1>1
  <2>2. V!Segments(messages \o msgs) = Extended(segs, msgs)
    BY <1>3, <2>1, SegmentsExtend
  <2> QED BY <1>1, <2>2 DEF Extended
<1>5. known2 \in Seq(Known) /\ Len(known2) = n /\ known2[n] = d
      /\ \A k \in 1 .. n : k # n => known2[k] = known[k]
  BY <1>1
<1>6. last \in Seq(Captured)
  BY <1>1, <1>3
<1> HIDE DEF segs, last, known2
<1> DEFINE segs2 == [segs EXCEPT ![n] = last]
<1>7. Len(segs2) = n /\ segs2[n] = last /\ \A k \in 1 .. n : k # n => segs2[k] = segs[k]
  BY <1>1, <1>6
<1> HIDE DEF segs2
<1>8. \A k \in 1 .. n : Recounts(segs2[k], known2[k], sigs2)
  <2> SUFFICES ASSUME NEW k \in 1 .. n PROVE Recounts(segs2[k], known2[k], sigs2)
    OBVIOUS
  <2>1. CASE k = n
    BY <1>5, <1>7, <2>1 DEF last, segs
  <2>2. CASE k # n
    BY <1>2, <1>5, <1>7, <2>2, MoreSigned
  <2> QED BY <2>1, <2>2
<1>9. V!Segments(messages \o msgs) = segs2
  BY <1>4 DEF segs2
<1>10. Len(segs2) = Len(known2) /\ \A k \in 1 .. Len(known2) : Recounts(segs2[k], known2[k], sigs2)
  BY <1>5, <1>7, <1>8
<1> QED BY <1>9, <1>10 DEF SegmentsAre, known2

LEMMA SegmentsOpened ==
    ASSUME NEW messages \in Seq(Captured), NEW known \in Seq(Known), NEW sigs,
           SegmentsAre(messages, known, sigs), NEW v \in Versions
    PROVE  SegmentsAre(messages \o Opening(v), Append(known, Opens(v)), sigs)
<1> DEFINE segs == V!Segments(messages)
           o == Opening(v)
           d == Opens(v)
           n == Len(known)
           segs2 == Append(segs, o)
           known2 == Append(known, d)
<1>1. segs \in Seq(Seq(Captured)) /\ Len(segs) = n /\ n \in Nat
  BY SegmentsType DEF Segs, SegmentsAre
<1>2. \A k \in 1 .. n : Recounts(segs[k], known[k], sigs)
  BY DEF SegmentsAre
<1>3. v \in Nat
  BY ConstantsAre
<1>4. V!Segments(messages \o o) = segs2 /\ o \in Seq(Captured)
  BY <1>3, SegmentsOpen, OpeningIs
<1>5. d \in Known /\ Recounts(o, d, sigs)
  BY OpensRecounted
<1> HIDE DEF segs, o, d
<1>6. Len(known2) = n + 1 /\ known2[n + 1] = d /\ \A k \in 1 .. n : known2[k] = known[k]
  BY <1>5
<1>7. Len(segs2) = n + 1 /\ segs2[n + 1] = o /\ \A k \in 1 .. n : segs2[k] = segs[k]
  BY <1>1, <1>4
<1> HIDE DEF segs2, known2, n
<1>8. \A k \in 1 .. n + 1 : Recounts(segs2[k], known2[k], sigs)
  <2> SUFFICES ASSUME NEW k \in 1 .. n + 1 PROVE Recounts(segs2[k], known2[k], sigs)
    OBVIOUS
  <2>1. CASE k = n + 1
    BY <1>5, <1>6, <1>7, <2>1
  <2>2. CASE k # n + 1
    <3>1. k \in 1 .. n
      BY <1>1, <2>2
    <3> QED BY <1>2, <1>6, <1>7, <3>1
  <2> QED BY <2>1, <2>2
<1>9. V!Segments(messages \o Opening(v)) = segs2
  BY <1>4 DEF o
<1>10. Len(segs2) = Len(known2) /\ \A k \in 1 .. Len(known2) : Recounts(segs2[k], known2[k], sigs)
  BY <1>6, <1>7, <1>8
<1> QED BY <1>9, <1>10 DEF SegmentsAre, known2, d

-----------------------------------------------------------------------------
(* What the operations make of a connection.                               *)

Hears(c, msgs) == [c EXCEPT !.b = c.b \o V!Raws(msgs)]
Fetches(c, msgs) == [Hears(c, msgs) EXCEPT !.cert = TRUE]
Fails(c) == [c EXCEPT !.error = TRUE]
Forgets(c) == [c EXCEPT !.b = <<>>]

LEMMA KnownParts ==
    ASSUME NEW c \in Known
    PROVE  /\ c.version \in Versions /\ c.version \in Nat /\ c.a \in Seq(Nat) /\ c.b \in Seq(Nat)
           /\ c.cert \in BOOLEAN /\ c.error \in BOOLEAN /\ c.withCert \in BOOLEAN
           /\ c.first \in {"none", "good", "faulty"} /\ c.slot \in Slots \cup {-1}
BY ConstantsAre DEF Known

Varied(c, b, cert, error) == KnownAs(c.version, c.a, b, cert, error, c.first, c.slot, c.withCert)

LEMMA KnownVaried ==
    ASSUME NEW c \in Known, NEW b \in Seq(Nat), NEW cert \in BOOLEAN, NEW error \in BOOLEAN
    PROVE  LET k == Varied(c, b, cert, error) IN
           /\ k \in Known /\ Same(c, k)
           /\ k.b = b /\ k.cert = cert /\ k.error = error
<1> DEFINE k == Varied(c, b, cert, error)
           x1 == c.version
           x2 == c.a
           x6 == c.first
           x7 == c.slot
           x8 == c.withCert
<1>1. /\ x1 \in Versions /\ x2 \in Seq(Nat) /\ x8 \in BOOLEAN
      /\ x6 \in {"none", "good", "faulty"} /\ x7 \in Slots \cup {-1}
  BY KnownParts
<1>2. k = [version |-> x1, a |-> x2, b |-> b, cert |-> cert, error |-> error,
           first |-> x6, slot |-> x7, withCert |-> x8]
  BY DEF Varied, KnownAs
<1> HIDE DEF k, x1, x2, x6, x7, x8
<1>3. k \in Known
  BY <1>1, <1>2 DEF Known
<1>4. /\ k.version = x1 /\ k.a = x2 /\ k.b = b /\ k.cert = cert /\ k.error = error
      /\ k.first = x6 /\ k.slot = x7 /\ k.withCert = x8
  BY <1>2
<1>5. Same(c, k)
  BY <1>4 DEF Same, x1, x2, x6, x7, x8
<1> QED BY <1>3, <1>4, <1>5 DEF k

LEMMA HearsIs ==
    ASSUME NEW c \in Known, NEW msgs \in Seq(Captured)
    PROVE  /\ Hears(c, msgs) \in Known /\ Same(c, Hears(c, msgs))
           /\ Hears(c, msgs).b = c.b \o V!Raws(msgs)
           /\ Hears(c, msgs).cert = c.cert /\ Hears(c, msgs).error = c.error
<1> DEFINE b == c.b \o V!Raws(msgs)
<1>1. V!Raws(msgs) \in Seq(Nat) /\ c.b \in Seq(Nat)
  BY RawsType, KnownParts
<1>2. b \in Seq(Nat)
  BY <1>1
<1>3. Hears(c, msgs) = [c EXCEPT !.b = b]
  BY DEF Hears
<1> HIDE DEF b
<1>4. Hears(c, msgs) = KnownAs(c.version, c.a, b, c.cert, c.error, c.first, c.slot, c.withCert)
  BY <1>3, KnownHears
<1>5. c.cert \in BOOLEAN /\ c.error \in BOOLEAN
  BY KnownParts
<1>6. Hears(c, msgs) = Varied(c, b, c.cert, c.error)
  BY <1>4 DEF Varied
<1>7. /\ Hears(c, msgs) \in Known /\ Same(c, Hears(c, msgs)) /\ Hears(c, msgs).b = b
      /\ Hears(c, msgs).cert = c.cert /\ Hears(c, msgs).error = c.error
  BY <1>2, <1>5, <1>6, KnownVaried
<1> QED BY <1>7 DEF b

LEMMA FetchesIs ==
    ASSUME NEW c \in Known, NEW msgs \in Seq(Captured)
    PROVE  /\ Fetches(c, msgs) \in Known /\ Same(c, Fetches(c, msgs))
           /\ Fetches(c, msgs).b = c.b \o V!Raws(msgs)
           /\ Fetches(c, msgs).cert = TRUE /\ Fetches(c, msgs).error = c.error
<1> DEFINE h == Hears(c, msgs)
<1>1. h \in Known /\ Same(c, h) /\ h.b = c.b \o V!Raws(msgs) /\ h.error = c.error
  BY HearsIs
<1> HIDE DEF h
<1>2. Fetches(c, msgs) = Varied(h, h.b, TRUE, h.error)
  <2>1. [h EXCEPT !.cert = TRUE] = KnownAs(h.version, h.a, h.b, TRUE, h.error, h.first, h.slot, h.withCert)
    BY <1>1, KnownFetches
  <2> QED BY <2>1 DEF Fetches, h, Varied
<1> DEFINE yes == TRUE
<1>3. h.b \in Seq(Nat) /\ yes \in BOOLEAN /\ h.error \in BOOLEAN
  BY <1>1, KnownParts
<1>4. Fetches(c, msgs) = Varied(h, h.b, yes, h.error)
  BY <1>2
<1> HIDE DEF yes
<1>5. /\ Fetches(c, msgs) \in Known /\ Same(h, Fetches(c, msgs)) /\ Fetches(c, msgs).b = h.b
      /\ Fetches(c, msgs).cert = yes /\ Fetches(c, msgs).error = h.error
  <2>1. h \in Known
    BY <1>1
  <2> QED BY <2>1, <1>3, <1>4, KnownVaried
<1>6. Same(c, Fetches(c, msgs))
  BY <1>1, <1>5 DEF Same
<1>7. Fetches(c, msgs).cert = TRUE
  BY <1>5 DEF yes
<1> QED BY <1>1, <1>5, <1>6, <1>7

LEMMA FailsIs ==
    ASSUME NEW c \in Known
    PROVE  Fails(c) \in Known /\ Same(c, Fails(c)) /\ Fails(c).error = TRUE /\ Fails(c).cert = c.cert
<1>1. Fails(c) = Varied(c, c.b, c.cert, TRUE)
  BY KnownFails DEF Fails, Varied
<1> DEFINE yes == TRUE
<1>2. c.b \in Seq(Nat) /\ c.cert \in BOOLEAN /\ yes \in BOOLEAN
  BY KnownParts
<1>3. Fails(c) = Varied(c, c.b, c.cert, yes)
  BY <1>1
<1> HIDE DEF yes
<1>4. Fails(c) \in Known /\ Same(c, Fails(c)) /\ Fails(c).error = yes /\ Fails(c).cert = c.cert
  BY <1>2, <1>3, KnownVaried
<1> QED BY <1>4 DEF yes

LEMMA ForgetsIs ==
    ASSUME NEW c \in Known
    PROVE  Forgets(c) \in Known /\ Same(c, Forgets(c)) /\ Forgets(c).error = c.error
<1> DEFINE b == <<>>
<1>1. b \in Seq(Nat)
  OBVIOUS
<1>2. Forgets(c) = [c EXCEPT !.b = b]
  BY DEF Forgets
<1> HIDE DEF b
<1>3. Forgets(c) = KnownAs(c.version, c.a, b, c.cert, c.error, c.first, c.slot, c.withCert)
  BY <1>2, KnownHears
<1>4. c.cert \in BOOLEAN /\ c.error \in BOOLEAN
  BY KnownParts
<1>5. Forgets(c) = Varied(c, b, c.cert, c.error)
  BY <1>3 DEF Varied
<1> QED BY <1>1, <1>4, <1>5, KnownVaried

-----------------------------------------------------------------------------
(* An operation, whatever the capture missed of it.                        *)

LEMMA Removed ==
    ASSUME NEW S, NEW s \in Seq(S), NEW k \in 1 .. Len(s)
    PROVE  RemoveAt(s, k) \in Seq(S)
BY DEF RemoveAt

Exchanged(msgs) ==
    /\ lost' \in Nat /\ capture' \in Seq(Captured) /\ spent' = spent + 1
    /\ lost' = 0 => lost = 0 /\ capture' = capture \o msgs

LEMMA ExchangeIs ==
    ASSUME ChallengeTypeOK, NEW msgs \in Seq(Captured), NEW written, Exchange(msgs, written)
    PROVE  Exchanged(msgs)
<1>1. capture \in Seq(Captured) /\ lost \in Nat /\ spent' = spent + 1
  BY DEF ChallengeTypeOK, Exchange
<1>2. CASE capture' = capture \o msgs /\ UNCHANGED lost
  BY <1>1, <1>2 DEF Exchanged
<1>3. CASE lost' = lost + 1 /\ \E k \in DOMAIN msgs : capture' = capture \o RemoveAt(msgs, k)
  <2>a. DOMAIN msgs = 1 .. Len(msgs)
    OBVIOUS
  <2>b. \E k \in 1 .. Len(msgs) : capture' = capture \o RemoveAt(msgs, k)
    BY <1>3, <2>a, Zenon
  <2>1. PICK k \in 1 .. Len(msgs) : capture' = capture \o RemoveAt(msgs, k)
    BY <2>b
  <2>2. RemoveAt(msgs, k) \in Seq(Captured)
    BY Removed
  <2>3. lost' \in Nat /\ lost' # 0
    BY <1>1, <1>3
  <2>4. capture' \in Seq(Captured)
    BY <1>1, <2>1, <2>2
  <2> QED BY <1>1, <2>3, <2>4 DEF Exchanged
<1> QED BY <1>2, <1>3 DEF Exchange

LEMMA NowType ==
    ASSUME ChallengeTypeOK, conns # <<>>
    PROVE  /\ Now \in Known /\ Len(conns) \in 1 .. Len(conns)
           /\ \A d \in Known : NowIs(d) => conns' \in Seq(Known)
<1>1. conns \in Seq(Known)
  BY DEF ChallengeTypeOK
<1>2. Len(conns) \in 1 .. Len(conns)
  BY <1>1
<1> QED BY <1>1, <1>2 DEF Now, NowIs

\* What is fetched next.
LEMMA FetchType ==
    ASSUME ChallengeTypeOK, NEW s \in Slots
    PROVE  At(s) \in Nat /\ At(s) < Len(Chain(s))
<1>1. Len(Chain(s)) \in Nat /\ Len(Chain(s)) >= 6
  <2>1. Flat(Certificates[s]) \in Seq(Nat) /\ Len(Chain(s)) = 6 + Len(Flat(Certificates[s]))
    BY ChainIs
  <2> DEFINE f == Flat(Certificates[s])
  <2>2. Len(f) \in Nat
    BY <2>1
  <2> HIDE DEF f
  <2> QED BY <2>1, <2>2 DEF f
<1>2. CASE fetch.slot = s
  <2>1. s # -1
    BY ConstantsAre
  <2>2. fetch # NotFetching
    BY <1>2, <2>1 DEF NotFetching
  <2> QED BY <1>2, <2>2 DEF ChallengeTypeOK, At
<1>3. CASE fetch.slot # s
  BY <1>1, <1>3 DEF At
<1> QED BY <1>2, <1>3


LEMMA ConnectIs ==
    ASSUME ChallengeTypeOK, Connect
    PROVE  \E v \in Versions :
             /\ Exchanged(Opening(v)) /\ Opening(v) \in Seq(Captured)
             /\ conns' = Append(conns, Opens(v)) /\ Opens(v) \in Known
             /\ fetch' = NotFetching /\ UNCHANGED <<fetched, signatures>>
<1>1. PICK v \in Versions :
        /\ Exchange(Opening(v), Nothing)
        /\ conns' = Append(conns, Opens(v))
        /\ fetch' = NotFetching /\ UNCHANGED <<fetched, signatures>>
  BY DEF Connect, Opens
<1>2. v \in Nat
  BY ConstantsAre
<1>3. Opening(v) \in Seq(Captured)
  BY <1>2, OpeningIs
<1>4. Exchanged(Opening(v))
  BY <1>1, <1>3, ExchangeIs
<1>5. Opens(v) \in Known
  BY OpensRecounted
<1> QED BY <1>1, <1>3, <1>4, <1>5

LEMMA GetDigestsIs ==
    ASSUME ChallengeTypeOK, GetDigests
    PROVE  LET msgs == Digests(Now.version) IN
           /\ conns # <<>> /\ Pair(msgs, "GET_DIGESTS", "DIGESTS") /\ Exchanged(msgs)
           /\ NowIs(Hears(Now, msgs)) /\ UNCHANGED <<fetch, fetched, signatures>>
<1> DEFINE msgs == Digests(Now.version)
<1>1. conns # <<>>
  BY DEF GetDigests
<1>2. Now.version \in Nat
  BY <1>1, NowType, KnownParts
<1>3. Pair(msgs, "GET_DIGESTS", "DIGESTS")
  BY <1>2, DigestsAre
<1>4. msgs \in Seq(Captured)
  BY <1>3 DEF Pair
<1>5. PICK written : Exchange(msgs, written)
  BY DEF GetDigests
<1>6. NowIs(Hears(Now, msgs)) /\ UNCHANGED <<fetch, fetched, signatures>>
  BY DEF GetDigests, Heard, Hears
<1> HIDE DEF msgs
<1>7. Exchanged(msgs)
  BY <1>4, <1>5, ExchangeIs
<1> QED BY <1>1, <1>3, <1>6, <1>7 DEF msgs

LEMMA ErrorIs ==
    ASSUME ChallengeTypeOK, Error
    PROVE  LET msgs == Busy(Now.version) IN
           /\ conns # <<>> /\ Pair(msgs, "GET_DIGESTS", "ERROR") /\ Exchanged(msgs)
           /\ NowIs(Fails(Now)) /\ UNCHANGED <<fetch, fetched, signatures>>
<1> DEFINE msgs == Busy(Now.version)
<1>1. conns # <<>>
  BY DEF Error
<1>2. Now.version \in Nat
  BY <1>1, NowType, KnownParts
<1>3. Pair(msgs, "GET_DIGESTS", "ERROR")
  BY <1>2, BusyAre
<1>4. msgs \in Seq(Captured)
  BY <1>3 DEF Pair
<1>5. PICK written : Exchange(msgs, written)
  BY DEF Error
<1>6. NowIs(Fails(Now)) /\ UNCHANGED <<fetch, fetched, signatures>>
  BY DEF Error, Fails
<1> HIDE DEF msgs
<1>7. Exchanged(msgs)
  BY <1>4, <1>5, ExchangeIs
<1> QED BY <1>1, <1>3, <1>6, <1>7 DEF msgs

FetchesNext(s, at, portion, rest) ==
    /\ fetch' = IF portion = rest THEN NotFetching ELSE [slot |-> s, at |-> at + portion]
    /\ fetched' = [fetched EXCEPT ![s] =
         IF @ \in {"whole", "spoiled"} THEN @
         ELSE IF @ = "begun" /\ at = 0 THEN "spoiled"
         ELSE IF portion = rest THEN "whole" ELSE "begun"]
    /\ UNCHANGED signatures

LEMMA GetCertificateIs ==
    ASSUME ChallengeTypeOK, GetCertificate
    PROVE  \E s \in Slots :
             LET msgs == Portions(Now.version, s, At(s)) IN
             /\ conns # <<>> /\ Pair(msgs, "GET_CERTIFICATE", "CERTIFICATE")
             /\ PortionSays(msgs[2], s, At(s)) /\ Exchanged(msgs)
             /\ NowIs(Fetches(Now, msgs))
             /\ FetchesNext(s, At(s), PortionOf(s, At(s)), RestOf(s, At(s)))
<1>1. conns # <<>>
  BY DEF GetCertificate
<1>2. Now.version \in Nat
  BY <1>1, NowType, KnownParts
<1>3. PICK s \in Slots :
        LET msgs == Portions(Now.version, s, At(s)) IN
        /\ \E written : Exchange(msgs, written)
        /\ NowIs(Fetches(Now, msgs))
        /\ FetchesNext(s, At(s), PortionOf(s, At(s)), RestOf(s, At(s)))
  BY DEF GetCertificate, At, FetchesNext, Fetches, Hears, Heard
<1> DEFINE msgs == Portions(Now.version, s, At(s))
<1>4. At(s) \in Nat /\ At(s) < Len(Chain(s))
  BY FetchType
<1>5. Pair(msgs, "GET_CERTIFICATE", "CERTIFICATE") /\ PortionSays(msgs[2], s, At(s))
  BY <1>2, <1>4, PortionsAre
<1>6. msgs \in Seq(Captured)
  BY <1>5 DEF Pair
<1>7. \E written : Exchange(msgs, written)
  BY <1>3
<1>8. Exchanged(msgs)
  <2> HIDE DEF msgs
  <2> QED BY <1>6, <1>7, ExchangeIs
<1>9. NowIs(Fetches(Now, msgs)) /\ FetchesNext(s, At(s), PortionOf(s, At(s)), RestOf(s, At(s)))
  BY <1>3
<1> QED BY <1>1, <1>5, <1>8, <1>9

Right(c, s, shape) ==
    c.a \o c.b \o Asked(c.version, s, shape) \o Unsigned(c.version, s, shape)
Signature == Fill(100 + spent, SigBytes)

LEMMA ChallengeIs ==
    ASSUME ChallengeTypeOK, Challenge
    PROVE  \E m1m2 : \E s \in Slots : \E shape \in Shapes[s] :
             LET msgs == Authentication(Now.version, s, shape, Signature) IN
             /\ conns # <<>> /\ Pair(msgs, "CHALLENGE", "CHALLENGE_AUTH")
             /\ Signature \in Seq(Nat) /\ Exchanged(msgs)
             /\ signatures' = signatures \cup
                  {[key |-> KeyOf(Last(Certificates[s])), m1m2 |-> m1m2, raw |-> Signature]}
             /\ NowIs(IF Now.first # "none" THEN Forgets(Now)
                      ELSE Answers(Now, s, m1m2, Right(Now, s, shape)))
             /\ UNCHANGED <<fetch, fetched>>
<1>1. conns # <<>>
  BY DEF Challenge
<1>2. Now.version \in Nat
  BY <1>1, NowType, KnownParts
<1> DEFINE Answered(m1m2, s, shape) ==
        /\ \E written : Exchange(Authentication(Now.version, s, shape, Signature), written)
        /\ signatures' = signatures \cup
             {[key |-> KeyOf(Last(Certificates[s])), m1m2 |-> m1m2, raw |-> Signature]}
        /\ NowIs(IF Now.first # "none" THEN Forgets(Now)
                 ELSE Answers(Now, s, m1m2, Right(Now, s, shape)))
        /\ UNCHANGED <<fetch, fetched>>
<1>3. PICK m1m2 : \E s \in Slots : \E shape \in Shapes[s] : Answered(m1m2, s, shape)
  BY DEF Challenge, Signature, Forgets, Answers, Right
<1>9. PICK s \in Slots : \E shape \in Shapes[s] : Answered(m1m2, s, shape)
  BY <1>3
<1>10. PICK shape \in Shapes[s] : Answered(m1m2, s, shape)
  BY <1>9
<1>4. Signature \in Seq(Nat)
  <2>1. 100 + spent \in Nat /\ SigBytes \in Nat
    BY ConstantsAre DEF ChallengeTypeOK
  <2> QED BY <2>1, FillType DEF Signature
<1> DEFINE msgs == Authentication(Now.version, s, shape, Signature)
<1>5. Pair(msgs, "CHALLENGE", "CHALLENGE_AUTH")
  BY <1>2, <1>4, AuthenticationAre
<1>6. msgs \in Seq(Captured)
  BY <1>5 DEF Pair
<1>7. \E written : Exchange(msgs, written)
  BY <1>10
<1>8. Exchanged(msgs)
  <2> HIDE DEF msgs
  <2> QED BY <1>6, <1>7, ExchangeIs
<1> QED BY <1>1, <1>10, <1>4, <1>5, <1>8

-----------------------------------------------------------------------------
(* Of a capture that missed nothing, the segments tell the connections.    *)

LEMMA HearsRecounted ==
    ASSUME NEW seg \in Seq(Captured), NEW c \in Known, NEW sigs, Recounts(seg, c, sigs),
           NEW first \in LaterCodes \cap V!BCodes, NEW second \in LaterCodes \cap V!BCodes,
           NEW msgs, Pair(msgs, first, second), NEW d \in Known, Same(c, d),
           d.b = c.b \o V!Raws(msgs), d.error = c.error,
           d.cert <=> c.cert \/ first = "CERTIFICATE" \/ second = "CERTIFICATE"
    PROVE  Recounts(seg \o msgs, d, sigs)
<1>1. first # "ERROR" /\ second # "ERROR" /\ first # "CHALLENGE" /\ second # "CHALLENGE"
  BY DEF V!BCodes
<1>2. ASSUME c.first = "none" PROVE Unasked(seg \o msgs, d)
  <2>1. Unasked(seg, c)
    BY <1>2 DEF Recounts
  <2>2. ~d.error => d.b = V!BBytes(seg \o msgs, Len(seg \o msgs) + 1)
    <3>1. V!BBytes(seg \o msgs, Len(seg \o msgs) + 1) = V!BBytes(seg, Len(seg) + 1) \o V!Raws(msgs)
      BY BBytesSaid
    <3>2. ~d.error => c.b = V!BBytes(seg, Len(seg) + 1)
      BY <2>1 DEF Unasked
    <3> QED BY <3>1, <3>2
  <2> QED BY <1>1, <2>1, <2>2, UnaskedSaid
<1>3. d.error <=> c.error \/ first = "ERROR" \/ second = "ERROR"
  BY <1>1
<1>4. sigs \subseteq sigs
  OBVIOUS
<1> QED BY <1>2, <1>3, <1>4, Said

LEMMA FailsRecounted ==
    ASSUME NEW seg \in Seq(Captured), NEW c \in Known, NEW sigs, Recounts(seg, c, sigs),
           NEW msgs, Pair(msgs, "GET_DIGESTS", "ERROR")
    PROVE  Recounts(seg \o msgs, Fails(c), sigs)
<1> DEFINE first == "GET_DIGESTS"
           second == "ERROR"
           d == Fails(c)
<1>1. d \in Known /\ Same(c, d) /\ d.error = TRUE /\ d.cert = c.cert
  BY FailsIs
<1>2. /\ first \in LaterCodes /\ second \in LaterCodes /\ Pair(msgs, first, second)
      /\ first # "CHALLENGE" /\ second # "CHALLENGE"
      /\ first # "CERTIFICATE" /\ second # "CERTIFICATE" /\ second = "ERROR"
  BY CodesAre
<1> HIDE DEF first, second, d
<1>3. ASSUME c.first = "none" PROVE Unasked(seg \o msgs, d)
  <2>1. Unasked(seg, c)
    BY <1>3 DEF Recounts
  <2>2. d.cert <=> c.cert \/ first = "CERTIFICATE" \/ second = "CERTIFICATE"
    BY <1>1, <1>2
  <2> QED BY <1>1, <1>2, <2>1, <2>2, UnaskedSaid
<1>4. d.error <=> c.error \/ first = "ERROR" \/ second = "ERROR"
  BY <1>1, <1>2
<1>5. sigs \subseteq sigs
  OBVIOUS
<1> QED BY <1>1, <1>2, <1>3, <1>4, <1>5, Said DEF d

LEMMA ForgetsRecounted ==
    ASSUME NEW seg \in Seq(Captured), NEW c \in Known, c.first # "none",
           NEW sigs, NEW sigs2, sigs \subseteq sigs2, Recounts(seg, c, sigs),
           NEW msgs, Pair(msgs, "CHALLENGE", "CHALLENGE_AUTH")
    PROVE  Recounts(seg \o msgs, Forgets(c), sigs2)
<1> DEFINE first == "CHALLENGE"
           second == "CHALLENGE_AUTH"
           d == Forgets(c)
<1>1. d \in Known /\ Same(c, d) /\ d.error = c.error
  BY ForgetsIs
<1>2. /\ first \in LaterCodes /\ second \in LaterCodes /\ Pair(msgs, first, second)
      /\ first # "ERROR" /\ second # "ERROR"
  BY CodesAre
<1> HIDE DEF first, second, d
<1>3. d.error <=> c.error \/ first = "ERROR" \/ second = "ERROR"
  BY <1>1, <1>2
<1> QED BY <1>1, <1>2, <1>3, Said DEF d

\* The segment of the connection that is open.
LastSegment == V!Segments(capture)[Len(conns)]

LEMMA LastRecounted ==
    ASSUME ChallengeTypeOK, conns # <<>>, SegmentsInv
    PROVE  LastSegment \in Seq(Captured) /\ Recounts(LastSegment, Now, signatures)
<1>1. Len(conns) \in 1 .. Len(conns)
  BY NowType
<1>2. V!Segments(capture) \in Seq(Seq(Captured))
  BY SegmentsType DEF Segs, ChallengeTypeOK
<1>3. Len(V!Segments(capture)) = Len(conns) /\ Recounts(LastSegment, Now, signatures)
  BY <1>1 DEF SegmentsInv, SegmentsAre, LastSegment, Now
<1>4. LastSegment \in Seq(Captured)
  <2> DEFINE segs == V!Segments(capture)
             n == Len(conns)
  <2>1. segs \in Seq(Seq(Captured)) /\ n \in 1 .. Len(segs)
    BY <1>1, <1>2, <1>3
  <2> HIDE DEF segs, n
  <2>2. segs[n] \in Seq(Captured)
    BY <2>1, Member
  <2> QED BY <2>2 DEF LastSegment, segs, n
<1> QED BY <1>3, <1>4

LEMMA SegmentsSaid ==
    ASSUME ChallengeTypeOK, conns # <<>>, SegmentsInv,
           NEW first \in LaterCodes, NEW second \in LaterCodes, NEW msgs, Pair(msgs, first, second),
           NEW d \in Known, NowIs(d), capture' = capture \o msgs,
           signatures \subseteq signatures', Recounts(LastSegment \o msgs, d, signatures')
    PROVE  SegmentsInv'
<1>1. capture \in Seq(Captured) /\ conns \in Seq(Known) /\ SegmentsAre(capture, conns, signatures)
  BY DEF ChallengeTypeOK, SegmentsInv
<1>2. Recounts(V!Segments(capture)[Len(conns)] \o msgs, d, signatures')
  BY DEF LastSegment
<1>3. SegmentsAre(capture \o msgs, [conns EXCEPT ![Len(conns)] = d], signatures')
  BY <1>1, <1>2, SegmentsExtended
<1>4. SegmentsAre(capture', conns', signatures')
  BY <1>3 DEF NowIs
<1> QED BY <1>4 DEF SegmentsInv

LEMMA SegmentsStep ==
    ASSUME ChallengeTypeOK, SegmentsInv, ChallengeNext, lost' = 0
    PROVE  SegmentsInv'
<1>1. CASE Connect
  <2>1. PICK v \in Versions :
             /\ Exchanged(Opening(v)) /\ conns' = Append(conns, Opens(v))
             /\ UNCHANGED signatures
    BY <1>1, ConnectIs
  <2>2. capture' = capture \o Opening(v)
    BY <2>1 DEF Exchanged
  <2>3. capture \in Seq(Captured) /\ conns \in Seq(Known) /\ SegmentsAre(capture, conns, signatures)
    BY DEF ChallengeTypeOK, SegmentsInv
  <2>4. SegmentsAre(capture \o Opening(v), Append(conns, Opens(v)), signatures)
    BY <2>3, SegmentsOpened
  <2>5. SegmentsAre(capture', conns', signatures')
    BY <2>1, <2>2, <2>4
  <2> QED BY <2>5 DEF SegmentsInv
<1>2. CASE GetDigests
  <2> DEFINE msgs == Digests(Now.version)
             d == Hears(Now, msgs)
             first == "GET_DIGESTS"
             second == "DIGESTS"
  <2>1. conns # <<>> /\ Pair(msgs, first, second) /\ Exchanged(msgs) /\ NowIs(d) /\ UNCHANGED signatures
    BY <1>2, GetDigestsIs
  <2>2. /\ first \in LaterCodes \cap V!BCodes /\ second \in LaterCodes \cap V!BCodes
        /\ first # "CERTIFICATE" /\ second # "CERTIFICATE"
    BY CodesAre DEF V!BCodes
  <2> HIDE DEF msgs, first, second
  <2>3. Now \in Known /\ LastSegment \in Seq(Captured) /\ Recounts(LastSegment, Now, signatures)
    BY <2>1, NowType, LastRecounted
  <2>4. msgs \in Seq(Captured)
    BY <2>1 DEF Pair
  <2>5. /\ d \in Known /\ Same(Now, d) /\ d.b = Now.b \o V!Raws(msgs)
        /\ d.cert = Now.cert /\ d.error = Now.error
    BY <2>3, <2>4, HearsIs
  <2> HIDE DEF d
  <2>6. d.cert <=> Now.cert \/ first = "CERTIFICATE" \/ second = "CERTIFICATE"
    BY <2>2, <2>5
  <2>7. Recounts(LastSegment \o msgs, d, signatures)
    BY <2>1, <2>2, <2>3, <2>5, <2>6, HearsRecounted
  <2>8. capture' = capture \o msgs /\ signatures' = signatures
    BY <2>1 DEF Exchanged
  <2> QED BY <2>1, <2>2, <2>5, <2>7, <2>8, SegmentsSaid
<1>3. CASE GetCertificate
  <2>1. PICK s \in Slots :
             LET msgs == Portions(Now.version, s, At(s)) IN
             /\ conns # <<>> /\ Pair(msgs, "GET_CERTIFICATE", "CERTIFICATE")
             /\ Exchanged(msgs) /\ NowIs(Fetches(Now, msgs)) /\ UNCHANGED signatures
    BY <1>3, GetCertificateIs DEF FetchesNext
  <2> DEFINE msgs == Portions(Now.version, s, At(s))
             d == Fetches(Now, msgs)
             first == "GET_CERTIFICATE"
             second == "CERTIFICATE"
  <2>2. conns # <<>> /\ Pair(msgs, first, second) /\ Exchanged(msgs) /\ NowIs(d) /\ UNCHANGED signatures
    BY <2>1
  <2>3. /\ first \in LaterCodes \cap V!BCodes /\ second \in LaterCodes \cap V!BCodes
        /\ second = "CERTIFICATE"
    BY CodesAre DEF V!BCodes
  <2> HIDE DEF msgs, first, second
  <2>4. Now \in Known /\ LastSegment \in Seq(Captured) /\ Recounts(LastSegment, Now, signatures)
    BY <2>2, NowType, LastRecounted
  <2>5. msgs \in Seq(Captured)
    BY <2>2 DEF Pair
  <2>6. /\ d \in Known /\ Same(Now, d) /\ d.b = Now.b \o V!Raws(msgs)
        /\ d.cert = TRUE /\ d.error = Now.error
    BY <2>4, <2>5, FetchesIs
  <2> HIDE DEF d
  <2>7. d.cert <=> Now.cert \/ first = "CERTIFICATE" \/ second = "CERTIFICATE"
    BY <2>3, <2>6
  <2>8. Recounts(LastSegment \o msgs, d, signatures)
    BY <2>2, <2>3, <2>4, <2>6, <2>7, HearsRecounted
  <2>9. capture' = capture \o msgs /\ signatures' = signatures
    BY <2>2 DEF Exchanged
  <2> QED BY <2>2, <2>3, <2>6, <2>8, <2>9, SegmentsSaid
<1>4. CASE Challenge
  <2> DEFINE Answered(m1m2, s, shape) ==
             LET msgs == Authentication(Now.version, s, shape, Signature) IN
             /\ conns # <<>> /\ Pair(msgs, "CHALLENGE", "CHALLENGE_AUTH")
             /\ Signature \in Seq(Nat) /\ Exchanged(msgs)
             /\ signatures' = signatures \cup
                  {[key |-> KeyOf(Last(Certificates[s])), m1m2 |-> m1m2, raw |-> Signature]}
             /\ NowIs(IF Now.first # "none" THEN Forgets(Now)
                      ELSE Answers(Now, s, m1m2, Right(Now, s, shape)))
  <2>1. PICK m1m2 : \E s \in Slots : \E shape \in Shapes[s] : Answered(m1m2, s, shape)
    BY <1>4, ChallengeIs
  <2>a. PICK s \in Slots : \E shape \in Shapes[s] : Answered(m1m2, s, shape)
    BY <2>1
  <2>2. PICK shape \in Shapes[s] : Answered(m1m2, s, shape)
    BY <2>a
  <2> DEFINE msgs == Authentication(Now.version, s, shape, Signature)
             sig == [key |-> KeyOf(Last(Certificates[s])), m1m2 |-> m1m2, raw |-> Signature]
             right == Right(Now, s, shape)
             first == "CHALLENGE"
             second == "CHALLENGE_AUTH"
  <2>3. /\ conns # <<>> /\ Pair(msgs, first, second) /\ Exchanged(msgs)
        /\ Signature \in Seq(Nat) /\ signatures' = signatures \cup {sig}
    BY <2>2
  <2>4. first \in LaterCodes /\ second \in LaterCodes
    BY CodesAre
  <2>5. Now \in Known /\ LastSegment \in Seq(Captured) /\ Recounts(LastSegment, Now, signatures)
    BY <2>3, NowType, LastRecounted
  <2>6. capture' = capture \o msgs
    BY <2>3 DEF Exchanged
  <2>7. signatures \subseteq signatures' /\ sig \in signatures'
    BY <2>3
  <2>8. CASE Now.first # "none"
    <3> DEFINE d == Forgets(Now)
    <3>1. NowIs(d)
      BY <2>2, <2>8
    <3>2. d \in Known
      BY <2>5, ForgetsIs
    <3> HIDE DEF d, msgs, sig
    <3>3. Recounts(LastSegment \o msgs, d, signatures')
      BY <2>3, <2>5, <2>7, <2>8, ForgetsRecounted DEF d
    <3> HIDE DEF first, second
    <3> QED BY <2>3, <2>4, <2>6, <2>7, <3>1, <3>2, <3>3, SegmentsSaid
  <2>9. CASE Now.first = "none"
    <3> DEFINE d == Answers(Now, s, m1m2, right)
    <3>1. NowIs(d)
      BY <2>2, <2>9
    <3>2. right = Now.a \o Now.b \o Asked(Now.version, s, shape) \o Unsigned(Now.version, s, shape)
      BY DEF Right
    <3> HIDE DEF right
    <3>3. d \in Known /\ Recounts(LastSegment \o msgs, d, signatures')
      BY <2>3, <2>5, <2>7, <2>9, <3>2, ChallengeRecounted
    <3> HIDE DEF d, msgs, sig, first, second
    <3> QED BY <2>3, <2>4, <2>6, <2>7, <3>1, <3>3, SegmentsSaid
  <2> QED BY <2>8, <2>9
<1>5. CASE Error
  <2> DEFINE msgs == Busy(Now.version)
             d == Fails(Now)
             first == "GET_DIGESTS"
             second == "ERROR"
  <2>1. conns # <<>> /\ Pair(msgs, "GET_DIGESTS", "ERROR") /\ Exchanged(msgs) /\ NowIs(d) /\ UNCHANGED signatures
    BY <1>5, ErrorIs
  <2>2. first \in LaterCodes /\ second \in LaterCodes /\ Pair(msgs, first, second)
    BY <2>1, CodesAre
  <2> HIDE DEF msgs
  <2>3. Now \in Known /\ LastSegment \in Seq(Captured) /\ Recounts(LastSegment, Now, signatures)
    BY <2>1, NowType, LastRecounted
  <2>4. d \in Known /\ Recounts(LastSegment \o msgs, d, signatures)
    BY <2>1, <2>3, FailsIs, FailsRecounted
  <2>5. capture' = capture \o msgs /\ signatures' = signatures
    BY <2>1 DEF Exchanged
  <2> HIDE DEF first, second, d
  <2> QED BY <2>1, <2>2, <2>4, <2>5, SegmentsSaid
<1> QED BY <1>1, <1>2, <1>3, <1>4, <1>5 DEF ChallengeNext

-----------------------------------------------------------------------------
(* Of a capture that missed nothing, the chains collected tell the fetches.*)

LEMMA Pieces ==
    ASSUME NEW S, NEW s \in Seq(S), NEW x \in Nat, NEW p \in Nat, x + p <= Len(s)
    PROVE  /\ SubSeq(s, x + 1, x + p) \in Seq(S) /\ Len(SubSeq(s, x + 1, x + p)) = p
           /\ SubSeq(s, 1, x) \in Seq(S) /\ Len(SubSeq(s, 1, x)) = x
           /\ \A k \in 1 .. x : SubSeq(s, 1, x)[k] = s[k]
           /\ SubSeq(s, 1, x) \o SubSeq(s, x + 1, x + p) = SubSeq(s, 1, x + p)
<1> DEFINE l == SubSeq(s, 1, x)
           r == SubSeq(s, x + 1, x + p)
           w == SubSeq(s, 1, x + p)
<1>1. l \in Seq(S) /\ Len(l) = x /\ \A k \in 1 .. x : l[k] = s[k]
  OBVIOUS
<1>2. r \in Seq(S) /\ Len(r) = p /\ \A k \in 1 .. p : r[k] = s[x + k]
  OBVIOUS
<1>3. w \in Seq(S) /\ Len(w) = x + p /\ \A k \in 1 .. x + p : w[k] = s[k]
  OBVIOUS
<1> HIDE DEF l, r, w
<1> DEFINE lr == l \o r
<1>4. lr \in Seq(S) /\ After(lr, l, r, x, p)
  BY <1>1, <1>2, JoinAfter
<1> HIDE DEF lr
<1>5. \A k \in 1 .. x + p : lr[k] = w[k]
  <2> SUFFICES ASSUME NEW k \in 1 .. x + p PROVE lr[k] = w[k]
    OBVIOUS
  <2>1. CASE k <= x
    <3>1. k \in 1 .. x
      BY <2>1
    <3> QED BY <1>1, <1>3, <1>4, <3>1 DEF After
  <2>2. CASE k > x
    <3>1. k \in x + 1 .. x + p /\ k - x \in 1 .. p /\ x + (k - x) = k
      BY <2>2
    <3> QED BY <1>2, <1>3, <1>4, <3>1 DEF After
  <2> QED BY <2>1, <2>2
<1>6. lr = w
  BY <1>3, <1>4, <1>5, SameSeq DEF After
<1> QED BY <1>1, <1>2, <1>6 DEF l, r, w, lr

LEMMA PieceNext ==
    ASSUME NEW c \in Seq(Nat), NEW at \in Nat, NEW p \in Nat, at + p <= Len(c)
    PROVE  /\ SubSeq(c, at + 1, at + p) \in Seq(Nat) /\ Len(SubSeq(c, at + 1, at + p)) = p
           /\ SubSeq(c, 1, at) \in Seq(Nat)
           /\ SubSeq(c, 1, at) \o SubSeq(c, at + 1, at + p) = SubSeq(c, 1, at + p)
BY Pieces

\* What begins s begins s \o t.
LEMMA BeginsJoined ==
    ASSUME NEW slot, NEW s \in Seq(Nat), NEW t \in Seq(Nat), Begins(s, slot)
    PROVE  /\ s \o t \in Seq(Nat) /\ Begins(s \o t, slot)
           /\ Len(s \o t) = Len(s) + Len(t) /\ Len(s) \in Nat /\ Len(t) \in Nat
<1> DEFINE u == s \o t
<1>1. u \in Seq(Nat) /\ After(u, s, t, Len(s), Len(t))
  BY JoinAfter
<1>2. Len(s) \in Nat /\ Len(t) \in Nat
  OBVIOUS
<1> HIDE DEF u
<1>3. 1 \in 1 .. Len(s) /\ 2 \in 1 .. Len(s)
  BY <1>2 DEF Begins
<1>4. u[1] = s[1] /\ u[2] = s[2] /\ Len(u) = Len(s) + Len(t)
  BY <1>1, <1>3 DEF After
<1>5. Len(u) >= 2
  BY <1>2, <1>3, <1>4
<1>6. Begins(u, slot)
  BY <1>4, <1>5 DEF Begins
<1> QED BY <1>1, <1>2, <1>4, <1>6 DEF u

\* One portion more of a slot's chain.
LEMMA PortionCollected ==
    ASSUME NEW s \in Slots, NEW acc \in Accs, NEW at \in Nat, at < Len(Chain(s)),
           NEW m \in Captured, m.code = "CERTIFICATE", PortionSays(m, s, at)
    PROVE  LET portion == PortionOf(s, at)
               partial == acc.partial \o SubSeq(Chain(s), at + 1, at + portion)
           IN V!Collected(acc, m, s)
                = IF portion = RestOf(s, at)
                  THEN [partial |-> <<>>, done |-> Append(acc.done, partial)]
                  ELSE [partial |-> partial, done |-> acc.done]
<1> DEFINE portion == PortionOf(s, at)
           rest == RestOf(s, at)
           partial == acc.partial \o SubSeq(Chain(s), at + 1, at + portion)
<1>1. portion \in Nat /\ rest \in Nat /\ portion <= rest
  BY PortionFits
<1>2. s % 16 = s
  BY ConstantsAre
<1>3. /\ Len(m.raw) = 8 + portion /\ m.raw[3] = s
      /\ V!U16(m.raw, 4) = portion /\ V!U16(m.raw, 6) = rest - portion
      /\ SubSeq(m.raw, 9, 8 + portion) = SubSeq(Chain(s), at + 1, at + portion)
  BY DEF PortionSays
<1>4. V!Portion(m) = portion
  BY <1>3 DEF V!Portion
<1> HIDE DEF portion, rest
<1>5. V!IsPortion(m, s)
  <2>1. Len(m.raw) >= 8 + portion /\ Len(m.raw) >= 8
    <3>1. Len(m.raw) = 8 + portion
      BY <1>3
    <3> QED BY <1>1, <3>1
  <2>2. m.code = "CERTIFICATE" /\ m.raw[3] % 16 = s
    BY <1>2, <1>3
  <2> QED BY <1>4, <2>1, <2>2, Zenon DEF V!IsPortion
<1>6. V!U16(m.raw, 6) = 0 <=> portion = rest
  <2>1. V!U16(m.raw, 6) = rest - portion
    BY <1>3
  <2> QED BY <1>1, <2>1
<1>7. V!Collected(acc, m, s)
        = IF V!U16(m.raw, 6) = 0 THEN [partial |-> <<>>, done |-> Append(acc.done, partial)]
          ELSE [partial |-> partial, done |-> acc.done]
  <2> DEFINE new == acc.partial \o SubSeq(m.raw, 9, 8 + V!Portion(m))
  <2>1. new = partial
    BY <1>3, <1>4
  <2>2. V!Collected(acc, m, s)
          = IF V!U16(m.raw, 6) = 0 THEN [partial |-> <<>>, done |-> Append(acc.done, new)]
            ELSE [partial |-> new, done |-> acc.done]
    BY <1>5, Zenon DEF V!Collected
  <2> HIDE DEF new, partial
  <2> QED BY <2>1, <2>2
<1> HIDE DEF partial
<1>8. V!Collected(acc, m, s)
        = IF portion = rest THEN [partial |-> <<>>, done |-> Append(acc.done, partial)]
          ELSE [partial |-> partial, done |-> acc.done]
  BY <1>6, <1>7
<1> QED BY <1>8 DEF portion, rest, partial

AtNext(s, at) == IF PortionOf(s, at) = RestOf(s, at) THEN 0 ELSE at + PortionOf(s, at)
HasNext(s, at, has) ==
    IF has \in {"whole", "spoiled"} THEN has
    ELSE IF has = "begun" /\ at = 0 THEN "spoiled"
    ELSE IF PortionOf(s, at) = RestOf(s, at) THEN "whole" ELSE "begun"

LEMMA CollectsNext ==
    ASSUME NEW s \in Slots, NEW acc \in Accs, NEW at, NEW has \in {"none", "begun", "whole", "spoiled"},
           Collects(acc, s, at, has),
           NEW m \in Captured, m.code = "CERTIFICATE", PortionSays(m, s, at)
    PROVE  Collects(V!Collected(acc, m, s), s, AtNext(s, at), HasNext(s, at, has))
<1> DEFINE chain == Chain(s)
           n == Len(chain)
           p == PortionOf(s, at)
           rest == RestOf(s, at)
           piece == SubSeq(chain, at + 1, at + p)
           partial == acc.partial \o piece
           acc2 == V!Collected(acc, m, s)
           at2 == AtNext(s, at)
           has2 == HasNext(s, at, has)
           e == <<>>
<1>1. at \in Nat /\ at < n
  BY DEF Collects
<1>2. chain \in Seq(Nat)
  BY ChainIs
<1>3. /\ n \in Nat /\ rest = n - at /\ rest \in Nat /\ p \in Nat /\ p > 0 /\ p <= rest
      /\ p # rest => p >= 2
  BY <1>1, PortionFits
<1>4. acc.partial \in Seq(Nat) /\ acc.done \in Seq(Seq(Nat))
  BY DEF Accs
<1>5. acc2 = IF p = rest THEN [partial |-> e, done |-> Append(acc.done, partial)]
             ELSE [partial |-> partial, done |-> acc.done]
  BY <1>1, PortionCollected
<1>6. at2 = IF p = rest THEN 0 ELSE at + p
  BY DEF AtNext
<1>7. has2 = IF has \in {"whole", "spoiled"} THEN has
             ELSE IF has = "begun" /\ at = 0 THEN "spoiled"
             ELSE IF p = rest THEN "whole" ELSE "begun"
  BY DEF HasNext
<1> DEFINE upto(x) == SubSeq(chain, 1, x)
<1>8. /\ has = "none" => acc = V!NoPortions /\ at = 0
      /\ has = "begun" => /\ acc.done = e
                          /\ \E x \in 2 .. n - 1 : acc.partial = upto(x) /\ at \in {0, x}
      /\ has = "whole" => acc.done # e /\ acc.done[1] = chain
      /\ has = "spoiled" =>
           IF acc.done = e THEN Begins(acc.partial, s) /\ Len(acc.partial) >= 2 + at
           ELSE Begins(acc.done[1], s) /\ Len(acc.done[1]) > n
  BY DEF Collects
<1>9. at2 \in Nat /\ at2 < n
  BY <1>1, <1>3, <1>6
<1>10. /\ piece \in Seq(Nat) /\ Len(piece) = p
       /\ upto(at) \in Seq(Nat) /\ upto(at) \o piece = upto(at + p)
  <2>1. at + p <= Len(chain)
    BY <1>1, <1>3
  <2>2. p \in Nat /\ at \in Nat
    BY <1>1, <1>3
  <2> HIDE DEF chain, p, n, rest
  <2>3. /\ SubSeq(chain, at + 1, at + p) \in Seq(Nat) /\ Len(SubSeq(chain, at + 1, at + p)) = p
        /\ SubSeq(chain, 1, at) \in Seq(Nat)
        /\ SubSeq(chain, 1, at) \o SubSeq(chain, at + 1, at + p) = SubSeq(chain, 1, at + p)
    BY <1>2, <2>1, <2>2, PieceNext, Zenon
  <2> QED BY <2>3
<1>11. upto(n) = chain /\ upto(0) = e
  BY <1>2
<1>12. \A x \in 2 .. n : upto(x) \in Seq(Nat) /\ Len(upto(x)) = x /\ Begins(upto(x), s)
  <2> SUFFICES ASSUME NEW x \in 2 .. n
               PROVE  upto(x) \in Seq(Nat) /\ Len(upto(x)) = x /\ Begins(upto(x), s)
    OBVIOUS
  <2>1. upto(x) \in Seq(Nat) /\ Len(upto(x)) = x /\ upto(x)[1] = chain[1] /\ upto(x)[2] = chain[2]
    BY <1>2
  <2> HIDE DEF upto
  <2> QED BY <2>1 DEF Begins
<1>13. e \in Seq(Nat) /\ e \o piece = piece
  BY <1>10
<1>14. acc2.partial = (IF p = rest THEN e ELSE partial)
       /\ acc2.done = (IF p = rest THEN Append(acc.done, partial) ELSE acc.done)
  <2> HIDE DEF e, partial, p, rest, acc2
  <2> QED BY <1>5
<1>15. partial \in Seq(Nat)
  BY <1>4, <1>10
<1> HIDE DEF chain, n, p, rest, piece, partial, acc2, at2, has2, e, upto
<1>16. acc.done # e => acc2.done # e /\ acc2.done[1] = acc.done[1]
  <2> DEFINE done == acc.done
             more == Append(done, partial)
  <2>1. done \in Seq(Seq(Nat))
    BY <1>4
  <2> HIDE DEF done
  <2>2. ASSUME done # <<>> PROVE more # <<>> /\ more[1] = done[1]
    BY <1>15, <2>1, <2>2, FirstStays
  <2>3. acc2.done = more \/ acc2.done = done
    BY <1>14 DEF done
  <2> HIDE DEF more
  <2> QED BY <2>2, <2>3 DEF done, e
<1>17. acc.done = e /\ p = rest => acc2.done # e /\ acc2.done[1] = partial
  BY <1>14, <1>15 DEF e
<1>18. CASE has = "none"
  <2>1. at = 0 /\ acc.partial = e /\ acc.done = e
    BY <1>8, <1>18 DEF V!NoPortions, e
  <2>2. partial = upto(p)
    BY <1>10, <1>11, <1>13, <2>1 DEF partial
  <2>3. CASE p = rest
    <3>1. has2 = "whole" /\ partial = chain
      BY <1>3, <1>7, <1>11, <1>18, <2>1, <2>2, <2>3
    <3> QED BY <1>9, <1>17, <2>1, <2>3, <3>1 DEF Collects, chain, n, e, acc2, at2, has2
  <2>4. CASE p # rest
    <3>1. has2 = "begun" /\ at2 = p /\ p \in 2 .. n - 1
      BY <1>3, <1>6, <1>7, <1>18, <2>1, <2>4
    <3>2. acc2.done = e /\ acc2.partial = upto(p)
      BY <1>14, <2>1, <2>2, <2>4
    <3> QED BY <1>9, <3>1, <3>2 DEF Collects, chain, n, e, upto, acc2, at2, has2
  <2> QED BY <2>3, <2>4
<1>19. CASE has = "begun"
  <2>1. PICK x \in 2 .. n - 1 : acc.partial = upto(x) /\ at \in {0, x}
    BY <1>8, <1>19
  <2>2. acc.done = e
    BY <1>8, <1>19
  <2>3. x \in 2 .. n /\ x >= 2 /\ x \in Nat /\ x < n
    BY <1>3, <2>1
  <2>4. Begins(acc.partial, s) /\ Len(acc.partial) = x
    BY <1>12, <2>1, <2>3
  <2>5. CASE at = 0
    <3>1. has2 = "spoiled"
      BY <1>7, <1>19, <2>5
    <3>2. Begins(partial, s) /\ Len(partial) = x + p
      BY <1>4, <1>10, <2>4, BeginsJoined DEF partial
    <3>3. CASE p = rest
      <4>1. Len(partial) > n
        BY <1>3, <2>3, <2>5, <3>2, <3>3
      <4> QED BY <1>9, <1>17, <2>2, <3>1, <3>2, <3>3, <4>1 DEF Collects, chain, n, e, acc2, at2, has2
    <3>4. CASE p # rest
      <4>1. acc2.done = e /\ acc2.partial = partial /\ Len(partial) >= 2 + at2
        BY <1>3, <1>6, <1>14, <2>2, <2>3, <2>5, <3>2, <3>4
      <4> QED BY <1>9, <3>1, <3>2, <4>1 DEF Collects, chain, n, e, acc2, at2, has2
    <3> QED BY <3>3, <3>4
  <2>6. CASE at = x
    <3>1. partial = upto(x + p)
      BY <1>10, <2>1, <2>6 DEF partial
    <3>2. CASE p = rest
      <4>1. has2 = "whole" /\ partial = chain
        <5>1. x + p = n /\ x # 0
          BY <1>3, <2>3, <2>6, <3>2
        <5> QED BY <1>7, <1>11, <1>19, <2>6, <3>1, <3>2, <5>1
      <4> QED BY <1>9, <1>17, <2>2, <3>2, <4>1 DEF Collects, chain, n, e, acc2, at2, has2
    <3>3. CASE p # rest
      <4>1. has2 = "begun" /\ at2 = x + p /\ x + p \in 2 .. n - 1
        BY <1>3, <1>6, <1>7, <1>19, <2>3, <2>6, <3>3
      <4>2. acc2.done = e /\ acc2.partial = upto(x + p)
        BY <1>14, <2>2, <3>1, <3>3
      <4> QED BY <1>9, <4>1, <4>2 DEF Collects, chain, n, e, upto, acc2, at2, has2
    <3> QED BY <3>2, <3>3
  <2> QED BY <2>1, <2>5, <2>6
<1>20. CASE has = "whole"
  <2>1. has2 = "whole" /\ acc.done # e /\ acc.done[1] = chain
    BY <1>7, <1>8, <1>20
  <2> QED BY <1>9, <1>16, <2>1 DEF Collects, chain, n, e, acc2, at2, has2
<1>21. CASE has = "spoiled"
  <2>1. has2 = "spoiled"
    BY <1>7, <1>21
  <2>2. CASE acc.done # e
    <3>1. Begins(acc.done[1], s) /\ Len(acc.done[1]) > n
      BY <1>8, <1>21, <2>2
    <3> QED BY <1>9, <1>16, <2>1, <2>2, <3>1 DEF Collects, chain, n, e, acc2, at2, has2
  <2>3. CASE acc.done = e
    <3>1. Begins(acc.partial, s) /\ Len(acc.partial) >= 2 + at
      BY <1>8, <1>21, <2>3
    <3>2. Begins(partial, s) /\ Len(partial) = Len(acc.partial) + p /\ Len(acc.partial) \in Nat
      BY <1>4, <1>10, <3>1, BeginsJoined DEF partial
    <3>3. CASE p = rest
      <4>1. Len(partial) > n
        BY <1>1, <1>3, <3>1, <3>2, <3>3
      <4> QED BY <1>9, <1>17, <2>1, <2>3, <3>2, <3>3, <4>1 DEF Collects, chain, n, e, acc2, at2, has2
    <3>4. CASE p # rest
      <4>1. acc2.done = e /\ acc2.partial = partial /\ Len(partial) >= 2 + at2
        BY <1>1, <1>3, <1>6, <1>14, <2>3, <3>1, <3>2, <3>4
      <4> QED BY <1>9, <2>1, <3>2, <4>1 DEF Collects, chain, n, e, acc2, at2, has2
    <3> QED BY <3>3, <3>4
  <2> QED BY <2>2, <2>3
<1> QED BY <1>18, <1>19, <1>20, <1>21

\* A fetch given up, or one of another slot, leaves what was collected.
LEMMA CollectsAnew ==
    ASSUME NEW s \in Slots, NEW acc \in Accs, NEW at, NEW has, Collects(acc, s, at, has)
    PROVE  Collects(acc, s, 0, has)
<1>1. acc.partial \in Seq(Nat)
  BY DEF Accs
<1>2. Begins(acc.partial, s) => Len(acc.partial) >= 2 + 0
  BY <1>1 DEF Begins
<1>3. at \in Nat /\ at < Len(Chain(s)) /\ Len(Chain(s)) \in Nat
  BY ChainIs DEF Collects
<1>4. 0 \in Nat /\ 0 < Len(Chain(s))
  BY <1>3
<1> QED BY <1>2, <1>4 DEF Collects

\* Nothing of this slot's chain is said.
LEMMA CollectsStill ==
    ASSUME ChallengeTypeOK, ChainsInv, NEW s \in Slots, NEW msgs \in Seq(Captured),
           \A k \in 1 .. Len(msgs) : ~V!IsPortion(msgs[k], s),
           capture' = capture \o msgs, fetched'[s] = fetched[s],
           At(s)' = At(s) \/ At(s)' = 0
    PROVE  Collects(V!Assembled(capture, s), s, At(s), fetched[s])'
<1> DEFINE acc == V!Assembled(capture, s)
<1>1. s \in Nat /\ capture \in Seq(Captured)
  BY ConstantsAre DEF ChallengeTypeOK
<1>2. acc \in Accs /\ V!Assembled(capture \o msgs, s) = acc
  BY <1>1, AssembledType, AssembledSkips
<1>3. Collects(acc, s, At(s), fetched[s])
  BY DEF ChainsInv
<1>4. Collects(acc, s, 0, fetched[s])
  BY <1>2, <1>3, CollectsAnew
<1>5. Collects(acc, s, At(s)', fetched'[s])
  BY <1>3, <1>4
<1>6. V!Assembled(capture', s) = acc
  BY <1>2
<1> QED BY <1>5, <1>6

LEMMA NoPortion ==
    ASSUME NEW m, NEW s, m.code # "CERTIFICATE"
    PROVE  ~V!IsPortion(m, s)
BY DEF V!IsPortion

\* Where a fetch stands, after a portion.
LEMMA AtAfter ==
    ASSUME NEW s \in Slots, NEW at \in Nat,
           fetch' = IF PortionOf(s, at) = RestOf(s, at) THEN NotFetching
                    ELSE [slot |-> s, at |-> at + PortionOf(s, at)]
    PROVE  /\ At(s)' = AtNext(s, at)
           /\ \A t \in Slots : t # s => At(t)' = 0
<1>1. \A t \in Slots : t # -1
  BY ConstantsAre
<1>2. CASE PortionOf(s, at) = RestOf(s, at)
  BY <1>1, <1>2 DEF At, AtNext, NotFetching
<1>3. CASE PortionOf(s, at) # RestOf(s, at)
  BY <1>1, <1>3 DEF At, AtNext
<1> QED BY <1>2, <1>3

LEMMA TwoAppended ==
    ASSUME NEW S, NEW s \in Seq(S), NEW t \in Seq(S), Len(t) = 2
    PROVE  s \o t = Append(Append(s, t[1]), t[2])
<1> DEFINE a == Append(s, t[1])
           l == s \o t
           r == Append(a, t[2])
<1>1. t[1] \in S /\ t[2] \in S
  <2>1. 1 \in 1 .. Len(t) /\ 2 \in 1 .. Len(t)
    OBVIOUS
  <2> QED BY <2>1, Member
<1> DEFINE n == Len(s)
<1>2. n \in Nat
  OBVIOUS
<1>3. a \in Seq(S) /\ Len(a) = n + 1 /\ (\A k \in 1 .. n : a[k] = s[k]) /\ a[n + 1] = t[1]
  BY <1>1
<1> HIDE DEF a
<1>4. r \in Seq(S) /\ Len(r) = n + 2 /\ (\A k \in 1 .. n + 1 : r[k] = a[k]) /\ r[n + 2] = t[2]
  BY <1>1, <1>2, <1>3
<1>5. l \in Seq(S) /\ After(l, s, t, n, 2)
  BY JoinAfter
<1> HIDE DEF l, r, n
<1>6. Len(l) = n + 2 /\ (\A k \in 1 .. n : l[k] = s[k]) /\ l[n + 1] = t[1] /\ l[n + 2] = t[2]
  <2>1. n + 1 \in n + 1 .. n + 2 /\ n + 2 \in n + 1 .. n + 2 /\ (n + 1) - n = 1 /\ (n + 2) - n = 2
    BY <1>2
  <2> QED BY <1>5, <2>1 DEF After
<1>7. \A k \in 1 .. Len(l) : l[k] = r[k]
  <2>1. \A k \in 1 .. n + 2 : k \in 1 .. n \/ k = n + 1 \/ k = n + 2
    BY <1>2
  <2>2. n + 1 \in 1 .. n + 1 /\ \A k \in 1 .. n : k \in 1 .. n + 1
    BY <1>2
  <2> QED BY <1>3, <1>4, <1>6, <2>1, <2>2
<1>8. l = r
  BY <1>4, <1>5, <1>6, <1>7, SameSeq
<1> QED BY <1>8 DEF l, r, a

LEMMA ChainsStep ==
    ASSUME ChallengeTypeOK, ChainsInv, ChallengeNext, lost' = 0
    PROVE  ChainsInv'
<1> SUFFICES ASSUME NEW t \in Slots
             PROVE  Collects(V!Assembled(capture, t), t, At(t), fetched[t])'
  BY DEF ChainsInv
<1>1. CASE Connect
  <2>1. PICK v \in Versions :
             /\ Exchanged(Opening(v)) /\ Opening(v) \in Seq(Captured)
             /\ fetch' = NotFetching /\ UNCHANGED fetched
    BY <1>1, ConnectIs
  <2>2. capture' = capture \o Opening(v)
    BY <2>1 DEF Exchanged
  <2>3. At(t)' = 0
    BY <2>1, ConstantsAre DEF At, NotFetching
  <2>4. \A k \in 1 .. Len(Opening(v)) : Opening(v)[k].code # "CERTIFICATE"
    <3>1. v \in Nat
      BY ConstantsAre
    <3> DEFINE o == Opening(v)
    <3> HIDE DEF o
    <3>2. /\ Len(o) = 6 /\ o[1].code # "CERTIFICATE" /\ o[2].code # "CERTIFICATE"
          /\ o[3].code # "CERTIFICATE" /\ o[4].code # "CERTIFICATE"
          /\ o[5].code # "CERTIFICATE" /\ o[6].code # "CERTIFICATE"
      BY <3>1, OpeningIs DEF o
    <3>3. \A k \in 1 .. Len(o) : k = 1 \/ k = 2 \/ k = 3 \/ k = 4 \/ k = 5 \/ k = 6
      BY <3>2
    <3> QED BY <3>2, <3>3 DEF o
  <2>5. \A k \in 1 .. Len(Opening(v)) : ~V!IsPortion(Opening(v)[k], t)
    BY <2>4, NoPortion
  <2> QED BY <2>1, <2>2, <2>3, <2>5, CollectsStill
<1>2. ASSUME NEW msgs, NEW first, NEW second, Pair(msgs, first, second),
             first # "CERTIFICATE", second # "CERTIFICATE",
             Exchanged(msgs), UNCHANGED <<fetch, fetched>>
      PROVE  Collects(V!Assembled(capture, t), t, At(t), fetched[t])'
  <2>1. capture' = capture \o msgs
    BY <1>2 DEF Exchanged
  <2>2. msgs \in Seq(Captured) /\ Len(msgs) = 2 /\ msgs[1].code = first /\ msgs[2].code = second
    BY <1>2 DEF Pair
  <2>3. \A k \in 1 .. Len(msgs) : msgs[k].code # "CERTIFICATE"
    BY <1>2, <2>2
  <2>4. \A k \in 1 .. Len(msgs) : ~V!IsPortion(msgs[k], t)
    BY <2>3, NoPortion
  <2>5. At(t)' = At(t)
    BY <1>2 DEF At
  <2> QED BY <1>2, <2>1, <2>2, <2>4, <2>5, CollectsStill
<1>3. CASE GetDigests
  <2>1. /\ Pair(Digests(Now.version), "GET_DIGESTS", "DIGESTS") /\ Exchanged(Digests(Now.version))
        /\ UNCHANGED <<fetch, fetched>>
    BY <1>3, GetDigestsIs
  <2> QED BY <1>2, <2>1
<1>4. CASE Error
  <2>1. /\ Pair(Busy(Now.version), "GET_DIGESTS", "ERROR") /\ Exchanged(Busy(Now.version))
        /\ UNCHANGED <<fetch, fetched>>
    BY <1>4, ErrorIs
  <2> QED BY <1>2, <2>1
<1>5. CASE Challenge
  <2>1. \E msgs : /\ Pair(msgs, "CHALLENGE", "CHALLENGE_AUTH") /\ Exchanged(msgs)
                  /\ UNCHANGED <<fetch, fetched>>
    BY <1>5, ChallengeIs
  <2> QED BY <1>2, <2>1
<1>6. CASE GetCertificate
  <2>1. PICK s \in Slots :
             LET msgs == Portions(Now.version, s, At(s)) IN
             /\ Pair(msgs, "GET_CERTIFICATE", "CERTIFICATE")
             /\ PortionSays(msgs[2], s, At(s)) /\ Exchanged(msgs)
             /\ FetchesNext(s, At(s), PortionOf(s, At(s)), RestOf(s, At(s)))
    BY <1>6, GetCertificateIs
  <2> DEFINE msgs == Portions(Now.version, s, At(s))
             at == At(s)
  <2>2. /\ Pair(msgs, "GET_CERTIFICATE", "CERTIFICATE") /\ PortionSays(msgs[2], s, at)
        /\ Exchanged(msgs) /\ FetchesNext(s, at, PortionOf(s, at), RestOf(s, at))
    BY <2>1
  <2> HIDE DEF msgs
  <2>3. capture' = capture \o msgs
    BY <2>2 DEF Exchanged
  <2>4. /\ msgs \in Seq(Captured) /\ Len(msgs) = 2
        /\ msgs[1].code = "GET_CERTIFICATE" /\ msgs[2].code = "CERTIFICATE"
    BY <2>2 DEF Pair
  <2>5. capture \in Seq(Captured) /\ fetched \in [Slots -> {"none", "begun", "whole", "spoiled"}]
    BY DEF ChallengeTypeOK
  <2>6. at \in Nat /\ at < Len(Chain(s))
    BY FetchType
  <2> HIDE DEF at
  <2>7. At(s)' = AtNext(s, at) /\ \A u \in Slots : u # s => At(u)' = 0
    BY <2>2, <2>6, AtAfter DEF FetchesNext
  <2>8. msgs[1] \in Captured /\ msgs[2] \in Captured
    BY <2>4, BothIn
  <2>9. CASE t # s
    <3>1. msgs[2].raw[3] % 16 # t
      BY <2>2, <2>9, ConstantsAre DEF PortionSays
    <3>2. ~V!IsPortion(msgs[1], t) /\ ~V!IsPortion(msgs[2], t)
      BY <2>4, <3>1, NoPortion DEF V!IsPortion
    <3>3. \A k \in 1 .. Len(msgs) : ~V!IsPortion(msgs[k], t)
      BY <2>4, <3>2
    <3>4. fetched'[t] = fetched[t]
      BY <2>2, <2>5, <2>9 DEF FetchesNext
    <3> QED BY <2>3, <2>4, <2>7, <2>9, <3>3, <3>4, CollectsStill
  <2>10. CASE t = s
    <3> DEFINE acc == V!Assembled(capture, s)
               between == Append(capture, msgs[1])
    <3>1. s \in Nat /\ acc \in Accs /\ Collects(acc, s, at, fetched[s])
      BY <2>5, ConstantsAre, AssembledType DEF ChainsInv, at
    <3>2. capture \o msgs = Append(between, msgs[2])
      BY <2>4, <2>5, TwoAppended
    <3>3. between \in Seq(Captured)
      BY <2>5, <2>8
    <3>4. V!Assembled(between, s) = acc
      <4>1. V!Assembled(between, s) = V!Collected(acc, msgs[1], s)
        BY <2>5, <2>8, <3>1, AssembledAppends
      <4>2. ~V!IsPortion(msgs[1], s)
        BY <2>4, NoPortion
      <4> QED BY <4>1, <4>2 DEF V!Collected
    <3>5. V!Assembled(capture', s) = V!Collected(acc, msgs[2], s)
      <4> HIDE DEF between
      <4>1. V!Assembled(Append(between, msgs[2]), s) = V!Collected(V!Assembled(between, s), msgs[2], s)
        BY <2>8, <3>1, <3>3, AssembledAppends
      <4> QED BY <2>3, <3>2, <3>4, <4>1
    <3>6. fetched[s] \in {"none", "begun", "whole", "spoiled"}
      BY <2>5
    <3>7. fetched'[s] = HasNext(s, at, fetched[s])
      BY <2>2, <2>5 DEF FetchesNext, HasNext
    <3> HIDE DEF acc
    <3>8. Collects(V!Collected(acc, msgs[2], s), s, AtNext(s, at), HasNext(s, at, fetched[s]))
      BY <2>2, <2>4, <2>8, <3>1, <3>6, CollectsNext
    <3>9. Collects(V!Assembled(capture', s), s, At(s)', fetched'[s])
      BY <2>7, <3>5, <3>7, <3>8
    <3> QED BY <2>10, <3>9
  <2> QED BY <2>9, <2>10
<1> QED BY <1>1, <1>3, <1>4, <1>5, <1>6 DEF ChallengeNext

LEMMA AnswersType ==
    ASSUME NEW c \in Known, NEW s \in Slots, NEW m1m2, NEW right
    PROVE  Answers(c, s, m1m2, right) \in Known
<1> DEFINE first == IF m1m2 = right THEN "good" ELSE "faulty"
           b == <<>>
           x1 == c.version
           x2 == c.a
           x4 == c.cert
           x5 == c.error
<1>1. Answers(c, s, m1m2, right) = KnownAs(x1, x2, b, x4, x5, first, s, x4)
  BY AnswersIs
<1>2. /\ x1 \in Versions /\ x2 \in Seq(Nat) /\ b \in Seq(Nat) /\ x4 \in BOOLEAN /\ x5 \in BOOLEAN
      /\ first \in {"none", "good", "faulty"} /\ s \in Slots \cup {-1}
  BY KnownParts
<1> HIDE DEF first, b, x1, x2, x4, x5
<1> QED BY <1>1, <1>2 DEF KnownAs, Known

LEMMA TypeStep ==
    ASSUME ChallengeTypeOK, ChallengeNext
    PROVE  ChallengeTypeOK'
<1>1. /\ capture \in Seq(Captured) /\ conns \in Seq(Known) /\ spent \in Nat
      /\ fetched \in [Slots -> {"none", "begun", "whole", "spoiled"}]
      /\ \/ fetch = NotFetching
         \/ fetch.slot \in Slots /\ fetch.at \in Nat /\ fetch.at < Len(Chain(fetch.slot))
  BY DEF ChallengeTypeOK
<1>2. ASSUME NEW msgs, Exchanged(msgs)
      PROVE  lost' \in Nat /\ capture' \in Seq(Captured) /\ spent' \in Nat
  BY <1>1, <1>2 DEF Exchanged
<1>3. CASE Connect
  <2>1. PICK v \in Versions :
             /\ Exchanged(Opening(v)) /\ conns' = Append(conns, Opens(v)) /\ Opens(v) \in Known
             /\ fetch' = NotFetching /\ UNCHANGED fetched
    BY <1>3, ConnectIs
  <2>2. conns' \in Seq(Known)
    BY <1>1, <2>1
  <2> QED BY <1>1, <1>2, <2>1, <2>2 DEF ChallengeTypeOK
<1>4. ASSUME NEW msgs, NEW d \in Known, conns # <<>>, Exchanged(msgs), NowIs(d),
             UNCHANGED <<fetch, fetched>>
      PROVE  ChallengeTypeOK'
  <2>1. conns' \in Seq(Known)
    BY <1>4, NowType
  <2> QED BY <1>1, <1>2, <1>4, <2>1 DEF ChallengeTypeOK
<1>5. CASE GetDigests
  <2> DEFINE msgs == Digests(Now.version)
  <2>1. /\ conns # <<>> /\ Pair(msgs, "GET_DIGESTS", "DIGESTS") /\ Exchanged(msgs)
        /\ NowIs(Hears(Now, msgs)) /\ UNCHANGED <<fetch, fetched>>
    BY <1>5, GetDigestsIs
  <2>2. msgs \in Seq(Captured)
    BY <2>1 DEF Pair
  <2> HIDE DEF msgs
  <2>3. Hears(Now, msgs) \in Known
    BY <2>1, <2>2, NowType, HearsIs
  <2> QED BY <1>4, <2>1, <2>3
<1>6. CASE Error
  <2>1. /\ conns # <<>> /\ Exchanged(Busy(Now.version))
        /\ NowIs(Fails(Now)) /\ UNCHANGED <<fetch, fetched>>
    BY <1>6, ErrorIs
  <2>2. Fails(Now) \in Known
    BY <2>1, NowType, FailsIs
  <2> QED BY <1>4, <2>1, <2>2
<1>7. CASE Challenge
  <2>1. PICK m1m2 : \E s \in Slots : \E shape \in Shapes[s] :
             /\ conns # <<>> /\ Exchanged(Authentication(Now.version, s, shape, Signature))
             /\ NowIs(IF Now.first # "none" THEN Forgets(Now)
                      ELSE Answers(Now, s, m1m2, Right(Now, s, shape)))
             /\ UNCHANGED <<fetch, fetched>>
    BY <1>7, ChallengeIs
  <2>2. PICK s \in Slots : \E msgs, right :
             /\ conns # <<>> /\ Exchanged(msgs)
             /\ NowIs(IF Now.first # "none" THEN Forgets(Now) ELSE Answers(Now, s, m1m2, right))
             /\ UNCHANGED <<fetch, fetched>>
    BY <2>1
  <2>3. PICK msgs, right :
             /\ conns # <<>> /\ Exchanged(msgs)
             /\ NowIs(IF Now.first # "none" THEN Forgets(Now) ELSE Answers(Now, s, m1m2, right))
             /\ UNCHANGED <<fetch, fetched>>
    BY <2>2
  <2>4. Now \in Known
    BY <2>3, NowType
  <2>5. Forgets(Now) \in Known /\ Answers(Now, s, m1m2, right) \in Known
    BY <2>4, ForgetsIs, AnswersType
  <2>6. CASE Now.first # "none"
    BY <1>4, <2>3, <2>5, <2>6
  <2>7. CASE Now.first = "none"
    BY <1>4, <2>3, <2>5, <2>7
  <2> QED BY <2>6, <2>7
<1>8. CASE GetCertificate
  <2>1. PICK s \in Slots :
             LET msgs == Portions(Now.version, s, At(s)) IN
             /\ conns # <<>> /\ Pair(msgs, "GET_CERTIFICATE", "CERTIFICATE") /\ Exchanged(msgs)
             /\ NowIs(Fetches(Now, msgs))
             /\ FetchesNext(s, At(s), PortionOf(s, At(s)), RestOf(s, At(s)))
    BY <1>8, GetCertificateIs
  <2> DEFINE msgs == Portions(Now.version, s, At(s))
             at == At(s)
  <2>2. /\ conns # <<>> /\ Pair(msgs, "GET_CERTIFICATE", "CERTIFICATE") /\ Exchanged(msgs)
        /\ NowIs(Fetches(Now, msgs)) /\ FetchesNext(s, at, PortionOf(s, at), RestOf(s, at))
    BY <2>1
  <2> HIDE DEF msgs
  <2>3. msgs \in Seq(Captured)
    BY <2>2 DEF Pair
  <2>4. Fetches(Now, msgs) \in Known
    BY <2>2, <2>3, NowType, FetchesIs
  <2>5. conns' \in Seq(Known)
    BY <2>2, <2>4, NowType
  <2>6. at \in Nat /\ at < Len(Chain(s))
    BY FetchType
  <2> HIDE DEF at
  <2>7. fetched' \in [Slots -> {"none", "begun", "whole", "spoiled"}]
    BY <1>1, <2>2 DEF FetchesNext
  <2>8. \/ fetch' = NotFetching
        \/ fetch'.slot \in Slots /\ fetch'.at \in Nat /\ fetch'.at < Len(Chain(fetch'.slot))
    <3>1. CASE PortionOf(s, at) = RestOf(s, at)
      BY <2>2, <3>1 DEF FetchesNext
    <3>2. CASE PortionOf(s, at) # RestOf(s, at)
      <4> DEFINE next == at + PortionOf(s, at)
      <4>1. fetch' = [slot |-> s, at |-> next]
        BY <2>2, <3>2 DEF FetchesNext
      <4>2. next \in Nat /\ next < Len(Chain(s))
        BY <2>6, <3>2, PortionFits
      <4> HIDE DEF next
      <4>3. fetch'.slot = s /\ fetch'.at = next
        BY <4>1
      <4> QED BY <4>2, <4>3
    <3> QED BY <3>1, <3>2
  <2> QED BY <1>2, <2>2, <2>5, <2>7, <2>8 DEF ChallengeTypeOK
<1> QED BY <1>3, <1>5, <1>6, <1>7, <1>8 DEF ChallengeNext

\* Every signature has bytes of its own.
LEMMA FillsDiffer ==
    ASSUME NEW j \in Nat, NEW k \in Nat, NEW n \in Nat \ {0}, Fill(100 + j, n) = Fill(100 + k, n)
    PROVE  j = k
<1>1. Fill(100 + j, n)[1] = 100 + j /\ Fill(100 + k, n)[1] = 100 + k
  BY DEF Fill
<1> QED BY <1>1

LEMMA FreshStep ==
    ASSUME ChallengeTypeOK, Fresh, ChallengeNext
    PROVE  Fresh'
<1>1. spent \in Nat
  BY DEF ChallengeTypeOK
<1>2. \A k \in 0 .. spent - 1 : k \in 0 .. (spent + 1) - 1
  BY <1>1
<1>3. ASSUME UNCHANGED signatures, spent' = spent + 1 PROVE Fresh'
  BY <1>2, <1>3 DEF Fresh
<1>4. CASE Challenge
  <2>1. PICK m1m2 : \E s \in Slots : \E shape \in Shapes[s] :
             /\ Exchanged(Authentication(Now.version, s, shape, Signature))
             /\ signatures' = signatures \cup
                  {[key |-> KeyOf(Last(Certificates[s])), m1m2 |-> m1m2, raw |-> Signature]}
    BY <1>4, ChallengeIs
  <2> DEFINE IsRecord(x) == x = [key |-> x.key, m1m2 |-> x.m1m2, raw |-> x.raw]
  <2>2. PICK sig : /\ IsRecord(sig) /\ sig.raw = Signature
                   /\ signatures' = signatures \cup {sig} /\ spent' = spent + 1
    <3>1. PICK s \in Slots :
             /\ \E msgs : Exchanged(msgs)
             /\ signatures' = signatures \cup
                  {[key |-> KeyOf(Last(Certificates[s])), m1m2 |-> m1m2, raw |-> Signature]}
      BY <2>1
    <3> DEFINE key == KeyOf(Last(Certificates[s]))
               sig == [key |-> key, m1m2 |-> m1m2, raw |-> Signature]
    <3> HIDE DEF key
    <3>2. IsRecord(sig) /\ sig.raw = Signature
      OBVIOUS
    <3>3. signatures' = signatures \cup {sig} /\ spent' = spent + 1
      BY <3>1 DEF Exchanged, key
    <3> HIDE DEF sig, IsRecord
    <3> QED BY <3>2, <3>3
  <2>3. SigBytes \in Nat \ {0}
    BY ConstantsAre
  <2>4. \A other \in signatures : other.raw # sig.raw
    <3> SUFFICES ASSUME NEW other \in signatures, other.raw = sig.raw PROVE FALSE
      OBVIOUS
    <3>1. PICK k \in 0 .. spent - 1 : other.raw = Fill(100 + k, SigBytes)
      BY DEF Fresh
    <3>2. Fill(100 + k, SigBytes) = Fill(100 + spent, SigBytes)
      BY <2>2, <3>1 DEF Signature
    <3>3. k \in Nat /\ k # spent
      BY <1>1
    <3> QED BY <1>1, <2>3, <3>2, <3>3, FillsDiffer
  <2>5. spent \in 0 .. (spent + 1) - 1 /\ sig.raw = Fill(100 + spent, SigBytes)
    BY <1>1, <2>2 DEF Signature
  <2>6. ASSUME NEW x \in signatures \cup {sig}
        PROVE  /\ IsRecord(x)
               /\ \E k \in 0 .. (spent + 1) - 1 : x.raw = Fill(100 + k, SigBytes)
               /\ \A other \in signatures \cup {sig} : other.raw = x.raw => other = x
    <3>1. CASE x \in signatures
      <4>1. IsRecord(x)
        BY <3>1 DEF Fresh
      <4> HIDE DEF IsRecord
      <4> QED BY <1>2, <2>4, <3>1, <4>1 DEF Fresh
    <3>2. CASE x = sig
      <4> HIDE DEF IsRecord
      <4> QED BY <2>2, <2>4, <2>5, <3>2
    <3> QED BY <3>1, <3>2
  <2> QED BY <2>2, <2>6 DEF Fresh
<1>5. CASE Connect
  BY <1>3, <1>5, ConnectIs DEF Exchanged
<1>6. CASE GetDigests
  BY <1>3, <1>6, GetDigestsIs DEF Exchanged
<1>7. CASE GetCertificate
  BY <1>3, <1>7, GetCertificateIs DEF Exchanged, FetchesNext
<1>8. CASE Error
  BY <1>3, <1>8, ErrorIs DEF Exchanged
<1> QED BY <1>4, <1>5, <1>6, <1>7, <1>8 DEF ChallengeNext

LEMMA ChallengeBegins == ChallengeInit => ChallengeIInv
<1> SUFFICES ASSUME ChallengeInit PROVE ChallengeIInv
  OBVIOUS
<1>1. /\ capture = <<>> /\ conns = <<>> /\ fetch = NotFetching /\ fetched = [s \in Slots |-> "none"]
      /\ signatures = {} /\ lost = 0 /\ spent = 0
  BY DEF ChallengeInit
<1>2. ChallengeTypeOK
  BY <1>1 DEF ChallengeTypeOK
<1>3. Fresh
  BY <1>1 DEF Fresh
<1>4. SegmentsInv
  BY <1>1, SegmentsBegin DEF SegmentsInv, SegmentsAre
<1>5. ASSUME NEW s \in Slots PROVE Collects(V!Assembled(capture, s), s, At(s), fetched[s])
  <2>1. V!Assembled(capture, s) = V!NoPortions
    BY <1>1, ConstantsAre, AssembledBegins
  <2>2. At(s) \in Nat /\ At(s) < Len(Chain(s))
    BY <1>2, FetchType
  <2>3. At(s) = 0 /\ fetched[s] = "none"
    BY <1>1, ConstantsAre DEF At, NotFetching
  <2> QED BY <2>1, <2>2, <2>3 DEF Collects
<1> QED BY <1>2, <1>3, <1>4, <1>5 DEF ChallengeIInv, ChainsInv

LEMMA ChallengeStep == ChallengeIInv /\ [ChallengeNext]_challengeVars => ChallengeIInv'
<1> SUFFICES ASSUME ChallengeIInv, [ChallengeNext]_challengeVars PROVE ChallengeIInv'
  OBVIOUS
<1>1. ChallengeTypeOK /\ Fresh /\ (lost = 0 => SegmentsInv /\ ChainsInv)
  BY DEF ChallengeIInv
<1>2. CASE ChallengeNext
  <2>1. ChallengeTypeOK' /\ Fresh'
    BY <1>1, <1>2, TypeStep, FreshStep
  <2>2. ASSUME lost' = 0 PROVE SegmentsInv' /\ ChainsInv'
    <3>1. lost = 0
      <4>1. \E msgs : Exchanged(msgs)
        BY <1>1, <1>2, ConnectIs, GetDigestsIs, GetCertificateIs, ChallengeIs, ErrorIs DEF ChallengeNext
      <4> QED BY <2>2, <4>1 DEF Exchanged
    <3> QED BY <1>1, <1>2, <2>2, <3>1, SegmentsStep, ChainsStep
  <2> QED BY <2>1, <2>2 DEF ChallengeIInv
<1>3. CASE UNCHANGED challengeVars
  BY <1>1, <1>3 DEF challengeVars, ChallengeIInv, ChallengeTypeOK, Fresh, SegmentsInv, ChainsInv, At
<1> QED BY <1>2, <1>3

\* Of every capture: no two signatures have the same bytes, and of one that missed
\* nothing, its segments tell what the two ends know of each connection, and the
\* chains collected from it which fetches were finished, given up and begun anew
\* (challenge_verify.py: segments, certificate_chains).
THEOREM ChallengeInvariant == ChallengeSpec => []ChallengeIInv
BY ChallengeBegins, ChallengeStep, PTL DEF ChallengeSpec

-----------------------------------------------------------------------------
(* Where the messages of a connection are found.                           *)

LEMMA LeastIs ==
    ASSUME NEW S, S \subseteq Int, NEW x \in S, \A j \in S : x <= j
    PROVE  V!Least(S) = x
<1>1. x \in S /\ \A j \in S : x <= j
  OBVIOUS
<1>2. \A y \in S : (\A j \in S : y <= j) => y = x
  <2> SUFFICES ASSUME NEW y \in S, \A j \in S : y <= j PROVE y = x
    OBVIOUS
  <2>1. x <= y /\ y <= x /\ x \in Int /\ y \in Int
    OBVIOUS
  <2> QED BY <2>1
<1> QED BY <1>1, <1>2 DEF V!Least

LEMMA CodesApart ==
    \A code \in LaterCodes : code \notin FirstCodes
BY DEF LaterCodes, FirstCodes

Sequence == <<"GET_VERSION", "VERSION", "GET_CAPABILITIES", "CAPABILITIES",
              "NEGOTIATE_ALGORITHMS", "ALGORITHMS">>

LEMMA SequenceIs ==
    /\ V!ASequence = Sequence /\ Len(Sequence) = 6 /\ DOMAIN Sequence = 1 .. 6
    /\ \A k \in 1 .. 6 : Sequence[k] \in FirstCodes
    /\ \A j, k \in 1 .. 6 : Sequence[j] = Sequence[k] => j = k
<1>1. V!ASequence = Sequence /\ Len(Sequence) = 6 /\ DOMAIN Sequence = 1 .. 6
  BY DEF V!ASequence, Sequence
<1>2. /\ Sequence[1] = "GET_VERSION" /\ Sequence[2] = "VERSION"
      /\ Sequence[3] = "GET_CAPABILITIES" /\ Sequence[4] = "CAPABILITIES"
      /\ Sequence[5] = "NEGOTIATE_ALGORITHMS" /\ Sequence[6] = "ALGORITHMS"
  BY DEF Sequence
<1>3. \A k \in 1 .. 6 : k = 1 \/ k = 2 \/ k = 3 \/ k = 4 \/ k = 5 \/ k = 6
  OBVIOUS
<1>4. \A k \in 1 .. 6 : Sequence[k] \in FirstCodes
  BY <1>2, <1>3 DEF FirstCodes
<1>5. \A j, k \in 1 .. 6 : Sequence[j] = Sequence[k] => j = k
  BY <1>2, <1>3
<1> QED BY <1>1, <1>4, <1>5

\* Each code of the opening stands once, in its place.
LEMMA OpenedPlaces ==
    ASSUME NEW seg \in Seq(Captured), NEW c \in Known, Opened(seg, c)
    PROVE  /\ Len(seg) \in Nat /\ Len(seg) >= 6
           /\ \A k \in 1 .. 6 : V!Places(seg, Sequence[k]) = {k}
<1> DEFINE o == Opening(c.version)
           n == Len(seg)
<1>1. n \in Nat /\ n >= 6 /\ DOMAIN seg = 1 .. n
  BY DEF Opened
<1>2. /\ o[1].code = "GET_VERSION" /\ o[2].code = "VERSION"
      /\ o[3].code = "GET_CAPABILITIES" /\ o[4].code = "CAPABILITIES"
      /\ o[5].code = "NEGOTIATE_ALGORITHMS" /\ o[6].code = "ALGORITHMS"
  BY KnownParts, OpeningIs
<1>3. /\ \A k \in 1 .. 6 : seg[k] = o[k]
      /\ \A k \in 7 .. n : seg[k].code \in LaterCodes
  BY DEF Opened
<1> HIDE DEF o, n
<1>4. \A k \in 1 .. 6 : seg[k].code = Sequence[k]
  <2>1. \A k \in 1 .. 6 : k = 1 \/ k = 2 \/ k = 3 \/ k = 4 \/ k = 5 \/ k = 6
    OBVIOUS
  <2>2. /\ Sequence[1] = "GET_VERSION" /\ Sequence[2] = "VERSION"
        /\ Sequence[3] = "GET_CAPABILITIES" /\ Sequence[4] = "CAPABILITIES"
        /\ Sequence[5] = "NEGOTIATE_ALGORITHMS" /\ Sequence[6] = "ALGORITHMS"
    BY DEF Sequence
  <2> QED BY <1>2, <1>3, <2>1, <2>2
<1>5. ASSUME NEW k \in 1 .. 6 PROVE V!Places(seg, Sequence[k]) = {k}
  <2>1. \A j \in 1 .. n : j \in 1 .. 6 \/ j \in 7 .. n
    BY <1>1
  <2>2. k \in 1 .. n /\ seg[k].code = Sequence[k]
    BY <1>1, <1>4
  <2>3. \A j \in 1 .. n : seg[j].code = Sequence[k] => j = k
    <3>1. ASSUME NEW j \in 1 .. 6, seg[j].code = Sequence[k] PROVE j = k
      BY <1>4, <3>1, SequenceIs
    <3>2. ASSUME NEW j \in 7 .. n PROVE seg[j].code # Sequence[k]
      BY <1>3, <3>2, SequenceIs, CodesApart
    <3> QED BY <2>1, <3>1, <3>2
  <2>4. V!Places(seg, Sequence[k]) = {j \in 1 .. n : seg[j].code = Sequence[k]}
    BY <1>1 DEF V!Places
  <2> QED BY <2>2, <2>3, <2>4
<1> QED BY <1>1, <1>5 DEF n

\* negotiated: what the opening chose.
LEMMA ChosenIs ==
    ASSUME NEW seg \in Seq(Captured), NEW c \in Known, Opened(seg, c)
    PROVE  V!ChosenOf(seg) = [why |-> "ok", sig |-> SigBytes, hash |-> HashSize]
<1> DEFINE algs == V!Places(seg, "ALGORITHMS")
           raw == seg[V!Least(algs)].raw
<1>1. algs = {6}
  <2>1. V!Places(seg, Sequence[6]) = {6}
    BY OpenedPlaces
  <2> QED BY <2>1 DEF Sequence
<1>2. V!Least(algs) = 6
  <2> DEFINE S == {6}
  <2>1. S \subseteq Int /\ 6 \in S /\ \A j \in S : 6 <= j
    OBVIOUS
  <2> HIDE DEF S
  <2>2. V!Least(S) = 6
    BY <2>1, LeastIs
  <2> QED BY <1>1, <2>2 DEF S
<1>3. seg[6].raw = Chosen(c.version)
  BY KnownParts, OpeningIs DEF Opened
<1>4. /\ Len(raw) = 20 /\ V!U16(raw, 12) = Asym /\ V!U16(raw, 16) = Hash
  BY <1>2, <1>3, KnownParts, ChosenRead
<1>5. algs # {}
  BY <1>1
<1> HIDE DEF algs, raw
<1>6. ~(Len(raw) < 20)
  BY <1>4
<1> DEFINE asym == V!U16(raw, 12)
           hash == V!U16(raw, 16)
<1>7. asym \in {Asym} /\ hash \in {Hash}
  BY <1>4
<1>8. V!ChosenOf(seg) =
        IF algs = {} THEN V!Refused("no-algorithms")
        ELSE IF Len(raw) < 20 THEN V!Refused("short-algorithms")
        ELSE IF asym \notin DOMAIN [s \in {Asym} |-> SigBytes] THEN V!Refused("asym")
        ELSE IF hash \notin DOMAIN [s \in {Hash} |-> HashSize] THEN V!Refused("hash")
        ELSE [why |-> "ok", sig |-> [s \in {Asym} |-> SigBytes][asym],
              hash |-> [s \in {Hash} |-> HashSize][hash]]
  BY DEF V!ChosenOf, algs, raw
<1> HIDE DEF asym, hash
<1>9. /\ [s \in {Asym} |-> SigBytes][asym] = SigBytes
      /\ [s \in {Hash} |-> HashSize][hash] = HashSize
  BY <1>7
<1> QED BY <1>5, <1>6, <1>7, <1>8, <1>9

\* A: the opening.
LEMMA APlacesAre ==
    ASSUME NEW seg \in Seq(Captured), NEW c \in Known, Opened(seg, c)
    PROVE  V!APlaces(seg) = [k \in 1 .. 6 |-> k]
<1> DEFINE Begun(g) == g = [k \in 0 .. 6 |-> IF k = 0 THEN 0 ELSE V!Following(seg, g[k - 1], Sequence[k])]
           at == CHOOSE g : Begun(g)
           f == [k \in 0 .. 6 |-> k]
<1>1. Len(seg) \in Nat /\ Len(seg) >= 6 /\ \A k \in 1 .. 6 : V!Places(seg, Sequence[k]) = {k}
  BY OpenedPlaces
<1>2. ASSUME NEW k \in 1 .. 6 PROVE V!Following(seg, k - 1, Sequence[k]) = k
  <2> DEFINE S == {j \in {k} : j > k - 1} \cup {Len(seg) + 1}
  <2>1. V!Following(seg, k - 1, Sequence[k]) = V!Least(S)
    BY <1>1 DEF V!Following
  <2>2. S = {k, Len(seg) + 1}
    OBVIOUS
  <2>3. S \subseteq Int /\ k \in S /\ \A j \in S : k <= j
    BY <1>1, <2>2
  <2> HIDE DEF S
  <2>4. V!Least(S) = k
    BY <2>3, LeastIs
  <2> QED BY <2>1, <2>4
<1>3. Begun(f)
  <2>1. \A k \in 0 .. 6 : f[k] = IF k = 0 THEN 0 ELSE V!Following(seg, f[k - 1], Sequence[k])
    <3> SUFFICES ASSUME NEW k \in 0 .. 6
                 PROVE  k = IF k = 0 THEN 0 ELSE V!Following(seg, f[k - 1], Sequence[k])
      OBVIOUS
    <3>1. CASE k = 0
      BY <3>1
    <3>2. CASE k # 0
      <4>1. k \in 1 .. 6 /\ f[k - 1] = k - 1
        BY <3>2
      <4> QED BY <1>2, <3>2, <4>1
    <3> QED BY <3>1, <3>2
  <2> QED BY <2>1
<1>4. Begun(at)
  BY <1>3
<1>5. V!APlaces(seg) = [k \in 1 .. 6 |-> at[k]]
  BY SequenceIs DEF V!APlaces
<1>6. at[0] = 0 /\ \A k \in 1 .. 6 : at[k] = V!Following(seg, at[k - 1], Sequence[k])
  <2> HIDE DEF at
  <2>1. \A k \in 0 .. 6 : at[k] = IF k = 0 THEN 0 ELSE V!Following(seg, at[k - 1], Sequence[k])
    BY <1>4
  <2>2. \A k \in 1 .. 6 : k \in 0 .. 6 /\ k # 0
    OBVIOUS
  <2> QED BY <2>1, <2>2
<1> HIDE DEF at
<1>7. \A k \in 1 .. 6 : at[k] = k
  <2>1. ASSUME NEW k \in 1 .. 6, at[k - 1] = k - 1 PROVE at[k] = k
    BY <1>2, <1>6, <2>1
  <2>2. at[1] = 1
    BY <1>6, <2>1
  <2>3. at[2] = 2
    BY <2>1, <2>2
  <2>4. at[3] = 3
    BY <2>1, <2>3
  <2>5. at[4] = 4
    BY <2>1, <2>4
  <2>6. at[5] = 5
    BY <2>1, <2>5
  <2>7. at[6] = 6
    BY <2>1, <2>6
  <2>8. \A k \in 1 .. 6 : k = 1 \/ k = 2 \/ k = 3 \/ k = 4 \/ k = 5 \/ k = 6
    OBVIOUS
  <2> QED BY <2>2, <2>3, <2>4, <2>5, <2>6, <2>7, <2>8
<1> QED BY <1>5, <1>7

LEMMA ABytesAre ==
    ASSUME NEW seg \in Seq(Captured), NEW c \in Known, Opened(seg, c)
    PROVE  V!ABytes(seg) = c.a /\ Last(V!APlaces(seg)) = 6
<1> DEFINE o == Opening(c.version)
           places == [k \in 1 .. 6 |-> k]
<1>1. V!APlaces(seg) = places
  BY APlacesAre
<1>2. Last(places) = 6
  BY DEF Last
<1>3. DOMAIN V!ASequence = 1 .. 6
  BY SequenceIs
<1>4. o \in Seq(Captured) /\ Len(o) = 6
  BY KnownParts, OpeningIs
<1>5. DOMAIN o = 1 .. 6
  BY <1>4
<1>6. \A k \in 1 .. 6 : seg[k] = o[k]
  BY DEF Opened
<1> HIDE DEF o
<1>7. [k \in DOMAIN V!ASequence |-> seg[V!APlaces(seg)[k]].raw] = [k \in DOMAIN o |-> o[k].raw]
  BY <1>1, <1>3, <1>5, <1>6
<1>8. V!ABytes(seg) = V!Raws(o)
  BY <1>7 DEF V!ABytes, V!Raws
<1>9. c.a = V!Raws(o)
  BY DEF Opened, o
<1> QED BY <1>1, <1>2, <1>8, <1>9

-----------------------------------------------------------------------------
(* build: what is read of a connection.                                    *)

LEMMA SameLast == \A s : V!Last(s) = Last(s)
BY DEF V!Last, Last

LEMMA RefusedIs ==
    \A why : V!Refused(why).why = why
BY DEF V!Refused

\* Its parts, named.
AtOf(seg) == V!Least(V!Places(seg, "CHALLENGE"))
FixedIn(seg) ==
    4 + V!ChosenOf(seg).hash + 32
      + (IF seg[AtOf(seg)].raw[4] = 0 THEN 0 ELSE V!ChosenOf(seg).hash)
SigAtIn(seg) == FixedIn(seg) + 2 + V!U16(seg[AtOf(seg) + 1].raw, FixedIn(seg))
ReadOf(seg) ==
    [why |-> "ok", slot |-> seg[AtOf(seg)].raw[3] % 16, hash |-> V!ChosenOf(seg).hash,
     sigAt |-> SigAtIn(seg),
     fetched |-> \E k \in 1 .. AtOf(seg) - 1 : seg[k].code = "CERTIFICATE",
     m1m2 |-> V!ABytes(seg) \o V!BBytes(seg, AtOf(seg)) \o seg[AtOf(seg)].raw
                \o SubSeq(seg[AtOf(seg) + 1].raw, 1, SigAtIn(seg)),
     signature |-> SubSeq(seg[AtOf(seg) + 1].raw, SigAtIn(seg) + 1, Len(seg[AtOf(seg) + 1].raw))]

LEMMA BuildIs ==
    ASSUME NEW seg
    PROVE  V!Build(seg) =
      IF V!Codes(seg) \cap V!Unmodelled # {} THEN V!Refused("not-modelled")
      ELSE IF V!Places(seg, "CHALLENGE") = {} THEN V!Refused("no-challenge")
      ELSE IF V!ChosenOf(seg).why # "ok" THEN V!ChosenOf(seg)
      ELSE IF Last(V!APlaces(seg)) > Len(seg) THEN V!Refused("incomplete")
      ELSE IF AtOf(seg) = Len(seg) THEN V!Refused("no-auth")
      ELSE IF seg[AtOf(seg) + 1].code # "CHALLENGE_AUTH" THEN V!Refused("no-auth")
      ELSE IF seg[AtOf(seg) + 1].raw[1] > 17 THEN V!Refused("signing-context")
      ELSE IF Len(seg[AtOf(seg) + 1].raw) < FixedIn(seg) + 2 THEN V!Refused("short-auth")
      ELSE IF Len(seg[AtOf(seg) + 1].raw) - SigAtIn(seg) # V!ChosenOf(seg).sig
        THEN V!Refused("does-not-close")
      ELSE ReadOf(seg)
BY SameLast DEF V!Build, AtOf, FixedIn, SigAtIn, ReadOf, V!NonceSize

LEMMA SegmentCodes ==
    ASSUME NEW seg \in Seq(Captured), NEW c \in Known, NEW sigs, Recounts(seg, c, sigs)
    PROVE  V!Codes(seg) \cap V!Unmodelled # {} <=> c.error
<1>1. c.error = Has(seg, "ERROR")
  BY DEF Recounts, Has
<1>2. \A k \in DOMAIN seg : seg[k].code \in FirstCodes \cup LaterCodes
  <2>1. DOMAIN seg = 1 .. Len(seg)
    OBVIOUS
  <2> QED BY <2>1, Member, Codes
<1>3. \A code \in FirstCodes \cup LaterCodes : code \in V!Unmodelled <=> code = "ERROR"
  BY DEF FirstCodes, LaterCodes, V!Unmodelled
<1>4. (V!Codes(seg) \cap V!Unmodelled # {}) <=> \E k \in DOMAIN seg : seg[k].code \in V!Unmodelled
  BY DEF V!Codes
<1>5. c.error \in BOOLEAN
  BY KnownParts
<1> QED BY <1>1, <1>2, <1>3, <1>4, <1>5 DEF Has

\* Where the first CHALLENGE stands.
LEMMA SignedAt ==
    ASSUME NEW seg \in Seq(Captured), NEW c, NEW at, NEW shape, NEW sig, Signed(seg, c, at, shape, sig)
    PROVE  /\ V!Places(seg, "CHALLENGE") # {} /\ AtOf(seg) = at
           /\ at \in Nat /\ at + 1 <= Len(seg) /\ Len(seg) \in Nat
<1> DEFINE S == V!Places(seg, "CHALLENGE")
           n == Len(seg)
<1>1. n \in Nat /\ DOMAIN seg = 1 .. n
  OBVIOUS
<1>2. /\ at \in 7 .. n - 1 /\ seg[at].code = "CHALLENGE"
      /\ \A k \in 1 .. at - 1 : seg[k].code # "CHALLENGE"
  BY DEF Signed
<1> HIDE DEF n
<1>3. S = {k \in 1 .. n : seg[k].code = "CHALLENGE"}
  BY <1>1 DEF V!Places
<1>4. at \in S /\ S \subseteq Int
  BY <1>1, <1>2, <1>3
<1>5. \A j \in S : at <= j
  <2>1. \A j \in 1 .. n : j < at => j \in 1 .. at - 1
    BY <1>1, <1>2
  <2> QED BY <1>1, <1>2, <1>3, <2>1
<1> HIDE DEF S
<1>6. V!Least(S) = at
  BY <1>4, <1>5, LeastIs
<1> QED BY <1>1, <1>2, <1>4, <1>6 DEF S, AtOf, n

\* The response, signed.
Signatures(sigs) == \A sig \in sigs : sig.raw \in Seq(Nat) /\ Len(sig.raw) = SigBytes
AuthSays(auth, u, raw, v, shape) ==
    /\ auth[1] = v /\ SubSeq(auth, Len(u) + 1, Len(auth)) = raw /\ SubSeq(auth, 1, Len(u)) = u
    /\ Len(u) \in Nat /\ Len(auth) = Len(u) + SigBytes /\ Len(auth) >= FixedOf(shape) + 2
    /\ v <= 17 => FixedOf(shape) + 2 + V!U16(auth, FixedOf(shape)) = Len(u)

LEMMA AuthIs ==
    ASSUME NEW v \in Nat, NEW s \in Slots, NEW shape \in Shapes[s], NEW raw \in Seq(Nat),
           Len(raw) = SigBytes
    PROVE  AuthSays(Unsigned(v, s, shape) \o raw, Unsigned(v, s, shape), raw, v, shape)
<1> DEFINE u == Unsigned(v, s, shape)
           auth == u \o raw
           n == FixedOf(shape)
           l == Len(u)
<1>1. /\ u \in Seq(Nat) /\ u[1] = v /\ l >= n + 2
      /\ v <= 17 => V!U16(u, n) = Len(shape.opaque) /\ l = n + 2 + Len(shape.opaque)
  BY UnsignedIs DEF UnsignedSays
<1>2. SigBytes \in Nat
  BY ConstantsAre
<1>3. n \in Nat /\ n >= 38
  BY DEF FixedOf
<1> HIDE DEF u, n
<1>4. l \in Nat
  BY <1>1
<1>5. SubSeq(auth, 1, l) = u /\ SubSeq(auth, l + 1, Len(auth)) = raw
  BY <1>1, JoinParts
<1>6. auth \in Seq(Nat) /\ After(auth, u, raw, l, SigBytes)
  BY <1>1, JoinAfter
<1> HIDE DEF auth, l
<1>7. Len(auth) = l + SigBytes /\ \A k \in 1 .. l : auth[k] = u[k]
  BY <1>6 DEF After
<1>8. 1 \in 1 .. l /\ n + 1 \in 1 .. l /\ n + 2 \in 1 .. l
  BY <1>1, <1>3, <1>4
<1>9. auth[1] = v /\ V!U16(auth, n) = V!U16(u, n)
  BY <1>1, <1>7, <1>8 DEF V!U16
<1>10. v <= 17 => n + 2 + V!U16(auth, n) = l
  BY <1>1, <1>9
<1>11. Len(auth) >= n + 2
  BY <1>1, <1>2, <1>3, <1>4, <1>7
<1> QED BY <1>4, <1>5, <1>7, <1>9, <1>10, <1>11 DEF AuthSays, u, auth, n, l

\* A connection whose CHALLENGE is answered, as far as its response.
LEMMA BuildReaches ==
    ASSUME NEW seg \in Seq(Captured), NEW c \in Known, NEW sigs, Recounts(seg, c, sigs), ~c.error,
           NEW at, NEW shape, NEW sig, Signed(seg, c, at, shape, sig)
    PROVE  /\ V!Build(seg) =
                IF seg[at + 1].raw[1] > 17 THEN V!Refused("signing-context")
                ELSE IF Len(seg[at + 1].raw) < FixedIn(seg) + 2 THEN V!Refused("short-auth")
                ELSE IF Len(seg[at + 1].raw) - SigAtIn(seg) # SigBytes
                  THEN V!Refused("does-not-close")
                ELSE ReadOf(seg)
           /\ AtOf(seg) = at /\ at \in Nat /\ V!ABytes(seg) = c.a
           /\ V!ChosenOf(seg) = [why |-> "ok", sig |-> SigBytes, hash |-> HashSize]
<1>1. Opened(seg, c)
  BY DEF Recounts
<1>2. ~(V!Codes(seg) \cap V!Unmodelled # {})
  BY SegmentCodes
<1>3. /\ V!Places(seg, "CHALLENGE") # {} /\ AtOf(seg) = at /\ at \in Nat
      /\ at + 1 <= Len(seg) /\ Len(seg) \in Nat
  BY SignedAt
<1>4. V!ChosenOf(seg) = [why |-> "ok", sig |-> SigBytes, hash |-> HashSize]
  BY <1>1, ChosenIs
<1>5. V!ABytes(seg) = c.a /\ ~(Last(V!APlaces(seg)) > Len(seg))
  BY <1>1, ABytesAre, OpenedPlaces
<1>6. at # Len(seg) /\ seg[at + 1].code = "CHALLENGE_AUTH"
  BY <1>3 DEF Signed
<1>7. V!ChosenOf(seg).why = "ok" /\ V!ChosenOf(seg).sig = SigBytes
  BY <1>4
<1>8. V!Build(seg) =
           IF seg[AtOf(seg) + 1].raw[1] > 17 THEN V!Refused("signing-context")
           ELSE IF Len(seg[AtOf(seg) + 1].raw) < FixedIn(seg) + 2 THEN V!Refused("short-auth")
           ELSE IF Len(seg[AtOf(seg) + 1].raw) - SigAtIn(seg) # V!ChosenOf(seg).sig
             THEN V!Refused("does-not-close")
           ELSE ReadOf(seg)
  BY <1>2, <1>3, <1>5, <1>6, <1>7, BuildIs
<1> QED BY <1>3, <1>4, <1>5, <1>7, <1>8

LEMMA BuildRefuses ==
    ASSUME NEW seg \in Seq(Captured), NEW c \in Known, NEW sigs, Recounts(seg, c, sigs),
           Signatures(sigs),
           c.first = "none" \/ c.error \/ c.version > 17
    PROVE  V!Build(seg).why # "ok"
<1>1. Opened(seg, c)
  BY DEF Recounts
<1>2. CASE c.error
  <2>1. V!Codes(seg) \cap V!Unmodelled # {}
    BY <1>2, SegmentCodes
  <2>2. V!Build(seg) = V!Refused("not-modelled")
    BY <2>1, BuildIs
  <2> QED BY <2>2, RefusedIs
<1>3. CASE ~c.error /\ c.first = "none"
  <2>1. ~(V!Codes(seg) \cap V!Unmodelled # {})
    BY <1>3, SegmentCodes
  <2>2. V!Places(seg, "CHALLENGE") = {}
    BY <1>3 DEF Recounts, Unasked, V!Places
  <2>3. V!Build(seg) = V!Refused("no-challenge")
    BY <2>1, <2>2, BuildIs
  <2> QED BY <2>3, RefusedIs
<1>4. CASE ~c.error /\ c.first # "none" /\ c.version > 17
  <2>1. c.slot \in Slots /\ \E at \in 1 .. Len(seg) : \E shape \in Shapes[c.slot] : \E sig \in sigs :
          Signed(seg, c, at, shape, sig)
    BY <1>4 DEF Recounts, Asks
  <2>2. PICK at \in 1 .. Len(seg), shape \in Shapes[c.slot], sig \in sigs : Signed(seg, c, at, shape, sig)
    BY <2>1
  <2>3. V!Build(seg) =
                IF seg[at + 1].raw[1] > 17 THEN V!Refused("signing-context")
                ELSE IF Len(seg[at + 1].raw) < FixedIn(seg) + 2 THEN V!Refused("short-auth")
                ELSE IF Len(seg[at + 1].raw) - SigAtIn(seg) # SigBytes
                  THEN V!Refused("does-not-close")
                ELSE ReadOf(seg)
    BY <1>4, <2>2, BuildReaches
  <2>4. c.version \in Nat
    BY KnownParts
  <2>5. sig.raw \in Seq(Nat) /\ Len(sig.raw) = SigBytes
    BY DEF Signatures
  <2>6. seg[at + 1].raw = Unsigned(c.version, c.slot, shape) \o sig.raw
    BY <2>2 DEF Signed
  <2>7. seg[at + 1].raw[1] = c.version
    <3> DEFINE v == c.version
               u == Unsigned(v, c.slot, shape)
    <3>1. AuthSays(u \o sig.raw, u, sig.raw, v, shape)
      BY <2>1, <2>2, <2>4, <2>5, AuthIs
    <3> HIDE DEF u, v
    <3>2. (u \o sig.raw)[1] = v
      BY <3>1 DEF AuthSays
    <3> QED BY <2>6, <3>2 DEF u, v
  <2>8. V!Build(seg) = V!Refused("signing-context")
    BY <1>4, <2>3, <2>7
  <2> QED BY <2>8, RefusedIs
<1> QED BY <1>2, <1>3, <1>4

\* What is read.
ReadFrom(c, seg, at, shape, sig) ==
    [why |-> "ok", slot |-> c.slot, hash |-> HashSize,
     sigAt |-> Len(Unsigned(c.version, c.slot, shape)), fetched |-> c.withCert,
     m1m2 |-> c.a \o V!BBytes(seg, at) \o Asked(c.version, c.slot, shape)
                \o Unsigned(c.version, c.slot, shape),
     signature |-> sig.raw]

LEMMA BuildReads ==
    ASSUME NEW seg \in Seq(Captured), NEW c \in Known, NEW sigs, Recounts(seg, c, sigs), ~c.error,
           c.version <= 17, c.slot \in Slots, NEW shape \in Shapes[c.slot], NEW at, NEW sig,
           Signed(seg, c, at, shape, sig), sig.raw \in Seq(Nat), Len(sig.raw) = SigBytes
    PROVE  V!Build(seg) = ReadFrom(c, seg, at, shape, sig)
<1> DEFINE v == c.version
           s == c.slot
           u == Unsigned(v, s, shape)
           auth == seg[at + 1].raw
           asked == seg[at].raw
           n == FixedOf(shape)
           a == c.a
           b == V!BBytes(seg, at)
           with == \E k \in 1 .. at - 1 : seg[k].code = "CERTIFICATE"
<1>1. /\ V!Build(seg) =
            IF auth[1] > 17 THEN V!Refused("signing-context")
            ELSE IF Len(auth) < FixedIn(seg) + 2 THEN V!Refused("short-auth")
            ELSE IF Len(auth) - SigAtIn(seg) # SigBytes THEN V!Refused("does-not-close")
            ELSE ReadOf(seg)
      /\ AtOf(seg) = at /\ at \in Nat /\ V!ABytes(seg) = a
      /\ V!ChosenOf(seg) = [why |-> "ok", sig |-> SigBytes, hash |-> HashSize]
  BY BuildReaches
<1>2. /\ asked = Asked(v, s, shape) /\ auth = u \o sig.raw /\ c.withCert = with
  BY DEF Signed
<1>3. v \in Nat /\ v <= 17
  BY KnownParts
<1>4. asked[3] = s /\ asked[4] = shape.type
  <2>1. s \in Slots
    OBVIOUS
  <2> HIDE DEF v, s, asked
  <2>2. Asked(v, s, shape)[3] = s /\ Asked(v, s, shape)[4] = shape.type
    <3>1. v \in Nat /\ shape \in Shapes[s]
      BY <1>3 DEF s
    <3> QED BY <2>1, <3>1, AskedIs
  <2> QED BY <1>2, <2>2
<1>5. AuthSays(auth, u, sig.raw, v, shape)
  BY <1>2, <1>3, AuthIs
<1>6. s % 16 = s
  BY ConstantsAre
<1>7. V!ChosenOf(seg).hash = HashSize
  BY <1>1
<1>8. FixedIn(seg) = n
  <2>1. FixedIn(seg) = 4 + HashSize + 32 + (IF asked[4] = 0 THEN 0 ELSE HashSize)
    BY <1>1, <1>7 DEF FixedIn
  <2> HIDE DEF asked
  <2> QED BY <1>4, <2>1 DEF FixedOf, HashSize
<1> HIDE DEF v, s, u, auth, asked, n, a, b, with
<1>9. /\ auth[1] = v /\ SubSeq(auth, Len(u) + 1, Len(auth)) = sig.raw /\ SubSeq(auth, 1, Len(u)) = u
      /\ Len(u) \in Nat /\ Len(auth) = Len(u) + SigBytes /\ Len(auth) >= n + 2
      /\ n + 2 + V!U16(auth, n) = Len(u)
  BY <1>3, <1>5 DEF AuthSays, n
<1>10. SigAtIn(seg) = Len(u)
  BY <1>1, <1>8, <1>9 DEF SigAtIn, auth
<1>11. V!Build(seg) = ReadOf(seg)
  <2>1. SigBytes \in Nat /\ n \in Nat
    BY ConstantsAre DEF n, FixedOf
  <2> DEFINE l == Len(u)
             w == Len(auth)
  <2>2. l \in Nat /\ w = l + SigBytes /\ w >= n + 2
    BY <1>9
  <2> HIDE DEF l, w
  <2>3. ~(auth[1] > 17) /\ ~(w < n + 2) /\ w - l = SigBytes
    BY <1>3, <1>9, <2>1, <2>2
  <2> QED BY <1>1, <1>8, <1>10, <2>3 DEF l, w
<1>12. ReadOf(seg) =
         [why |-> "ok", slot |-> s, hash |-> HashSize, sigAt |-> Len(u), fetched |-> with,
          m1m2 |-> a \o b \o asked \o u, signature |-> sig.raw]
  BY <1>1, <1>4, <1>6, <1>7, <1>9, <1>10 DEF ReadOf, asked, auth, b, with
<1> QED BY <1>2, <1>11, <1>12 DEF ReadFrom, v, s, u, a, b

-----------------------------------------------------------------------------
(* der_certificates and leaf_certificate, of a chain as it was made.       *)

AreTiles(certs) ==
    /\ certs \in Seq(Seq(Nat)) /\ Len(certs) \in Nat \ {0}
    /\ \A k \in 1 .. Len(certs) :
         /\ certs[k] \in Seq(Nat) /\ Len(certs[k]) >= 3 /\ Len(certs[k]) <= 129
         /\ certs[k][1] = 48 /\ certs[k][2] = Len(certs[k]) - 2

\* What the walk has after k of them, of which f makes the whole.
Starts(f, k) == [j \in 1 .. k |-> Len(f[j - 1]) + 1]
Reached(f, k) == [at |-> Len(f[k]) + 1, starts |-> Starts(f, k)]
Walks(f, n, k) == IF k <= n THEN Reached(f, k) ELSE Reached(f, n)

LEMMA OneMore ==
    ASSUME NEW n \in Nat, NEW g
    PROVE  Append([j \in 1 .. n |-> g[j]], g[n + 1]) = [j \in 1 .. n + 1 |-> g[j]]
OBVIOUS

LEMMA StartsMore ==
    ASSUME NEW k \in Nat, NEW f
    PROVE  Append(Starts(f, k), Len(f[k]) + 1) = Starts(f, k + 1)
<1> DEFINE g == [j \in 1 .. k + 1 |-> Len(f[j - 1]) + 1]
<1>1. Starts(f, k) = [j \in 1 .. k |-> g[j]]
  BY DEF Starts
<1>2. Starts(f, k + 1) = [j \in 1 .. k + 1 |-> g[j]]
  BY DEF Starts
<1>3. g[k + 1] = Len(f[k]) + 1
  <2>1. k + 1 \in 1 .. k + 1 /\ (k + 1) - 1 = k
    OBVIOUS
  <2> QED BY <2>1
<1> HIDE DEF g
<1> QED BY <1>1, <1>2, <1>3, OneMore

LEMMA WalkedOn ==
    ASSUME NEW certs, AreTiles(certs), NEW f, Runs(certs, f, Nat), NEW k \in Nat, k < Len(certs)
    PROVE  /\ V!Walked(Reached(f, k), f[Len(certs)]) = Reached(f, k + 1)
           /\ Len(f[k]) \in Nat /\ Len(f[k]) + 3 <= Len(f[k + 1])
<1> DEFINE n == Len(certs)
           blob == f[n]
           c == certs[k + 1]
           a == Len(f[k])
           l == Len(c)
           w == Reached(f, k)
           z == Len(blob)
           b == Len(f[k + 1])
<1>1. certs \in Seq(Seq(Nat)) /\ n \in Nat /\ k + 1 \in 1 .. n /\ (k + 1) - 1 = k
  BY DEF AreTiles
<1>2. Stands(certs, f, k + 1)
  BY <1>1, RunsPlace
<1>3. /\ a \in Nat /\ z \in Nat /\ b = a + l /\ b <= z
      /\ \A p \in 1 .. l : blob[a + p] = c[p]
  BY <1>1, <1>2 DEF Stands
<1>4. c \in Seq(Nat) /\ l >= 3 /\ l <= 129 /\ c[1] = 48 /\ c[2] = l - 2
  BY <1>1 DEF AreTiles
<1>5. l \in Nat
  BY <1>4
<1>6. w.at = a + 1 /\ w.starts = Starts(f, k)
  BY DEF Reached
<1> HIDE DEF n, blob, c, a, l, w, z, b
<1>7. blob[a + 1] = 48 /\ blob[a + 2] = l - 2
  BY <1>3, <1>4, <1>5
<1> DEFINE next == V!NextStart(blob, w.at)
<1>8. next = b + 1
  <2>1. w.at + 1 = a + 2
    BY <1>3, <1>6
  <2>2. blob[w.at + 1] = l - 2 /\ l - 2 < 128
    BY <1>4, <1>5, <1>7, <2>1
  <2>3. next = w.at + 2 + (l - 2)
    BY <2>2 DEF V!NextStart
  <2> QED BY <1>3, <1>5, <1>6, <2>3
<1> HIDE DEF next
<1>9. ~(w.at >= z) /\ blob[w.at] = 48 /\ ~(next > z + 1)
  BY <1>3, <1>4, <1>5, <1>6, <1>7, <1>8
<1>10. V!Walked(w, blob) = [at |-> next, starts |-> Append(w.starts, w.at)]
  BY <1>9 DEF V!Walked, next, z
<1>11. Append(w.starts, w.at) = Starts(f, k + 1)
  BY <1>6, StartsMore DEF a
<1>12. V!Walked(w, blob) = Reached(f, k + 1)
  BY <1>8, <1>10, <1>11 DEF Reached, b
<1>13. a + 3 <= b
  BY <1>3, <1>4, <1>5
<1> QED BY <1>3, <1>12, <1>13 DEF w, blob, n, a, b

LEMMA WalkedOut ==
    ASSUME NEW certs, AreTiles(certs), NEW f, Runs(certs, f, Nat)
    PROVE  LET n == Len(certs) IN
           /\ V!Walked(Reached(f, n), f[n]) = Reached(f, n)
           /\ f[n] \in Seq(Nat) /\ n <= Len(f[n])
<1> DEFINE n == Len(certs)
           w == Reached(f, n)
<1>1. n \in Nat
  BY DEF AreTiles
<1>2. \A k \in 0 .. n : f[k] \in Seq(Nat)
  BY DEF Runs
<1> HIDE DEF n
<1>3. f[n] \in Seq(Nat) /\ Len(f[n]) \in Nat /\ f[0] \in Seq(Nat) /\ Len(f[0]) \in Nat
  BY <1>1, <1>2
<1>4. w.at = Len(f[n]) + 1
  BY DEF Reached
<1> HIDE DEF w
<1>5. w.at >= Len(f[n])
  BY <1>3, <1>4
<1>6. V!Walked(w, f[n]) = w
  BY <1>5 DEF V!Walked
<1> DEFINE T == {k \in Nat : k <= n => k <= Len(f[k]) /\ Len(f[k]) \in Nat}
<1>7. 0 \in T
  BY <1>3
<1>8. ASSUME NEW k \in Nat, k \in T PROVE k + 1 \in T
  <2> SUFFICES ASSUME k + 1 <= n PROVE k + 1 <= Len(f[k + 1]) /\ Len(f[k + 1]) \in Nat
    OBVIOUS
  <2>1. k < n /\ k <= n /\ k + 1 \in 0 .. n
    BY <1>1
  <2>2. k <= Len(f[k])
    BY <1>8, <2>1
  <2> HIDE DEF T
  <2>3. Len(f[k]) \in Nat /\ Len(f[k]) + 3 <= Len(f[k + 1])
    BY <2>1, WalkedOn DEF n
  <2>4. f[k + 1] \in Seq(Nat)
    BY <1>2, <2>1
  <2> DEFINE x == Len(f[k])
             y == Len(f[k + 1])
  <2>5. x \in Nat /\ y \in Nat /\ k <= x /\ x + 3 <= y
    BY <2>2, <2>3, <2>4
  <2> HIDE DEF x, y
  <2>6. k + 1 <= y
    BY <2>5
  <2> QED BY <2>5, <2>6 DEF y
<1> HIDE DEF T
<1>9. n \in T
  <2>1. Nat \subseteq T
    BY <1>7, <1>8, Induct
  <2> QED BY <1>1, <2>1
<1>10. n <= Len(f[n])
  BY <1>1, <1>9 DEF T
<1> QED BY <1>3, <1>6, <1>10 DEF w, n

LEMMA DerIs ==
    ASSUME NEW certs, AreTiles(certs), NEW f, Runs(certs, f, Nat)
    PROVE  V!DerCertificates(f[Len(certs)]) = Reached(f, Len(certs))
<1> DEFINE n == Len(certs)
           blob == f[n]
           z == Len(blob)
           b == [at |-> 1, starts |-> <<>>]
           Begun(g) == g = [k \in 0 .. z |-> IF k = 0 THEN b ELSE V!Walked(g[k - 1], blob)]
           c == CHOOSE g : Begun(g)
           h == [k \in 0 .. z |-> Walks(f, n, k)]
<1>1. n \in Nat /\ n > 0
  BY DEF AreTiles
<1>2. /\ V!Walked(Reached(f, n), blob) = Reached(f, n)
      /\ blob \in Seq(Nat) /\ n <= z
  BY WalkedOut
<1>3. z \in Nat
  BY <1>2
<1>4. V!DerCertificates(blob) = c[z]
  BY DEF V!DerCertificates
<1> HIDE DEF blob, z, b
<1>5. Walks(f, n, 0) = b
  <2>1. Walks(f, n, 0) = Reached(f, 0)
    BY <1>1 DEF Walks
  <2>2. f[0] = <<>>
    BY DEF Runs
  <2>3. Starts(f, 0) = <<>>
    BY DEF Starts
  <2>4. Len(f[0]) + 1 = 1
    BY <2>2
  <2> QED BY <2>1, <2>3, <2>4 DEF Reached, b
<1>6. ASSUME NEW k \in Nat
      PROVE  Walks(f, n, k + 1) = V!Walked(Walks(f, n, k), blob)
  <2>1. CASE k < n
    <3>1. V!Walked(Reached(f, k), blob) = Reached(f, k + 1)
      BY <2>1, WalkedOn DEF blob, n
    <3>2. k <= n /\ k + 1 <= n
      BY <1>1, <2>1
    <3> QED BY <3>1, <3>2 DEF Walks
  <2>2. CASE k = n
    <3>1. k <= n /\ ~(k + 1 <= n)
      BY <1>1, <2>2
    <3> QED BY <1>2, <2>2, <3>1 DEF Walks
  <2>3. CASE k > n
    <3>1. ~(k <= n) /\ ~(k + 1 <= n)
      BY <1>1, <2>3
    <3> QED BY <1>2, <3>1 DEF Walks
  <2> QED BY <1>1, <2>1, <2>2, <2>3
<1> HIDE DEF n
<1>7. Begun(h)
  <2>1. \A k \in 0 .. z : h[k] = IF k = 0 THEN b ELSE V!Walked(h[k - 1], blob)
    <3> SUFFICES ASSUME NEW k \in 0 .. z
                 PROVE  h[k] = IF k = 0 THEN b ELSE V!Walked(h[k - 1], blob)
      OBVIOUS
    <3>1. CASE k = 0
      BY <1>5, <3>1
    <3>2. CASE k # 0
      <4>1. k - 1 \in Nat /\ k - 1 \in 0 .. z /\ (k - 1) + 1 = k
        BY <1>3, <3>2
      <4>2. Walks(f, n, (k - 1) + 1) = V!Walked(Walks(f, n, k - 1), blob)
        BY <1>6, <4>1
      <4>3. h[k - 1] = Walks(f, n, k - 1) /\ h[k] = Walks(f, n, k)
        BY <4>1
      <4> QED BY <3>2, <4>1, <4>2, <4>3
    <3> QED BY <3>1, <3>2
  <2> QED BY <2>1
<1>8. Begun(c)
  BY <1>7
<1> HIDE DEF c, h
<1>9. c[z] = Walks(f, n, z)
  <2> DEFINE T == {k \in Nat : k <= z => c[k] = Walks(f, n, k)}
  <2>1. 0 \in T
    <3>1. 0 \in 0 .. z
      BY <1>3
    <3>2. c[0] = b
      BY <1>8, <3>1, Zenon
    <3> QED BY <1>5, <3>2
  <2>2. ASSUME NEW k \in Nat, k \in T PROVE k + 1 \in T
    <3>1. SUFFICES ASSUME k + 1 <= z PROVE c[k + 1] = Walks(f, n, k + 1)
      OBVIOUS
    <3>2. c[k] = Walks(f, n, k) /\ k + 1 \in 0 .. z /\ k + 1 # 0 /\ (k + 1) - 1 = k
      BY <1>3, <2>2, <3>1
    <3>3. c[k + 1] = V!Walked(c[(k + 1) - 1], blob)
      BY <1>8, <3>2, Zenon
    <3> QED BY <1>6, <3>2, <3>3
  <2> HIDE DEF T
  <2>3. Nat \subseteq T
    BY <2>1, <2>2, Induct
  <2> QED BY <1>3, <2>3 DEF T
<1>10. Walks(f, n, z) = Reached(f, n)
  <2>1. CASE z = n
    BY <1>1, <2>1 DEF Walks
  <2>2. CASE z # n
    <3>1. ~(z <= n)
      BY <1>1, <1>2, <1>3, <2>2
    <3> QED BY <3>1 DEF Walks
  <2> QED BY <2>1, <2>2
<1> QED BY <1>4, <1>9, <1>10 DEF blob, n

LEMMA DerRead ==
    ASSUME NEW certs, AreTiles(certs)
    PROVE  LET flat == FlattenSeq(certs)
               der == V!DerCertificates(flat)
           IN /\ der.starts # <<>> /\ der.at = Len(flat) + 1
              /\ SubSeq(flat, Last(der.starts), Len(flat)) = Last(certs)
<1> DEFINE n == Len(certs)
           flat == FlattenSeq(certs)
           der == V!DerCertificates(flat)
<1>1. certs \in Seq(Seq(Nat)) /\ n \in Nat /\ n > 0
  BY DEF AreTiles
<1>2. PICK f : Runs(certs, f, Nat)
  BY <1>1, RunsExist
<1>3. flat = f[n]
  BY <1>1, <1>2, FlattenIs
<1>4. der = Reached(f, n)
  BY <1>2, <1>3, DerIs
<1>5. der.at = Len(flat) + 1 /\ der.starts = Starts(f, n)
  BY <1>3, <1>4 DEF Reached
<1>6. Last(certs) = certs[n]
  BY DEF Last
<1>7. /\ n \in 1 .. n /\ n - 1 \in 0 .. n /\ n \in 0 .. n
  BY <1>1
<1>8. f[n - 1] \in Seq(Nat) /\ certs[n] \in Seq(Nat) /\ f[n] = f[n - 1] \o certs[n]
  <2>1. /\ f \in [0 .. n -> Seq(Nat)]
        /\ \A k \in 1 .. n : f[k] = f[k - 1] \o certs[k]
    BY <1>2 DEF Runs
  <2>2. certs[n] \in Seq(Nat)
    BY <1>1, <1>7, Member
  <2> HIDE DEF n
  <2> QED BY <1>7, <2>1, <2>2
<1> HIDE DEF flat, der, n
<1> DEFINE starts == Starts(f, n)
<1>9. starts # <<>> /\ Last(starts) = Len(f[n - 1]) + 1
  <2>1. Len(starts) = n
    BY <1>1 DEF Starts
  <2>2. starts[n] = Len(f[n - 1]) + 1
    BY <1>7 DEF Starts
  <2> HIDE DEF starts
  <2>3. Last(starts) = starts[n]
    BY <2>1 DEF Last
  <2> QED BY <1>1, <2>1, <2>2, <2>3
<1> DEFINE s == f[n - 1]
           t == certs[n]
<1>10. SubSeq(flat, Len(s) + 1, Len(flat)) = t
  <2> HIDE DEF s, t
  <2>1. s \in Seq(Nat) /\ t \in Seq(Nat) /\ flat = s \o t
    BY <1>3, <1>8 DEF s, t
  <2> QED BY <2>1, JoinParts
<1> QED BY <1>5, <1>6, <1>9, <1>10 DEF flat, der

LEMMA LeafIs ==
    ASSUME NEW chain
    PROVE  V!LeafCertificate(chain, HashSize) =
             LET certs == SubSeq(chain, 7, Len(chain))
                 der == V!DerCertificates(certs)
             IN IF Len(chain) <= 6 THEN V!Refused("header")
                ELSE IF V!U16(chain, 0) # Len(chain) THEN V!Refused("length")
                ELSE IF der.starts = <<>> THEN V!Refused("no-certificate")
                ELSE IF der.at # Len(certs) + 1 THEN V!Refused("does-not-tile")
                ELSE [why |-> "ok", leaf |-> SubSeq(certs, Last(der.starts), Len(certs))]
<1>1. 5 + HashSize = 7 /\ 4 + HashSize = 6
  BY DEF HashSize
<1> QED BY <1>1, SameLast DEF V!LeafCertificate

\* Of a whole chain it is the last certificate;
LEMMA LeafOfChain ==
    ASSUME NEW s \in Slots
    PROVE  V!LeafCertificate(Chain(s), HashSize) = [why |-> "ok", leaf |-> Last(Certificates[s])]
<1> DEFINE chain == Chain(s)
           certs == SubSeq(chain, 7, Len(chain))
           der == V!DerCertificates(certs)
           flat == FlattenSeq(Certificates[s])
<1>1. /\ chain \in Seq(Nat) /\ flat \in Seq(Nat) /\ Len(chain) = 6 + Len(flat)
      /\ chain[1] + 256 * chain[2] = Len(chain) /\ certs = flat
  BY ChainIs DEF Flat
<1>2. AreTiles(Certificates[s])
  BY CertificatesAre DEF AreTiles
<1>3. LET d == V!DerCertificates(flat) IN
      /\ d.starts # <<>> /\ d.at = Len(flat) + 1
      /\ SubSeq(flat, Last(d.starts), Len(flat)) = Last(Certificates[s])
  BY <1>2, DerRead
<1> HIDE DEF flat
<1>4. der.starts # <<>> /\ der.at = Len(certs) + 1
      /\ SubSeq(certs, Last(der.starts), Len(certs)) = Last(Certificates[s])
  BY <1>1, <1>3
<1>5. V!LeafCertificate(chain, HashSize) =
        IF Len(chain) <= 6 THEN V!Refused("header")
        ELSE IF V!U16(chain, 0) # Len(chain) THEN V!Refused("length")
        ELSE IF der.starts = <<>> THEN V!Refused("no-certificate")
        ELSE IF der.at # Len(certs) + 1 THEN V!Refused("does-not-tile")
        ELSE [why |-> "ok", leaf |-> SubSeq(certs, Last(der.starts), Len(certs))]
  BY LeafIs
<1>6. V!U16(chain, 0) = Len(chain)
  <2> HIDE DEF chain
  <2>1. V!U16(chain, 0) = chain[0 + 1] + 256 * chain[0 + 2]
    BY DEF V!U16
  <2>2. 0 + 1 = 1 /\ 0 + 2 = 2
    OBVIOUS
  <2> QED BY <1>1, <2>1, <2>2
<1>7. ~(Len(chain) <= 6)
  <2>1. Len(flat) \in Nat /\ Len(flat) # 0
    <3>1. certs = flat /\ Len(flat) \in Nat
      BY <1>1
    <3>2. PICK f : Runs(Certificates[s], f, Nat)
      BY <1>2, RunsExist DEF AreTiles
    <3>3. flat = f[Len(Certificates[s])]
      BY <1>2, <3>2, FlattenIs DEF AreTiles, flat
    <3>4. Len(Certificates[s]) <= Len(flat) /\ Len(Certificates[s]) \in Nat \ {0}
      BY <1>2, <3>2, <3>3, WalkedOut DEF AreTiles
    <3> QED BY <3>1, <3>4
  <2> HIDE DEF chain
  <2> QED BY <1>1, <2>1
<1> HIDE DEF chain, certs, der
<1> QED BY <1>4, <1>5, <1>6, <1>7 DEF chain

\* and of what begins as one and is longer, none.
LEMMA LeafRefused ==
    ASSUME NEW s \in Slots, NEW chain \in Seq(Nat), Begins(chain, s), Len(chain) > Len(Chain(s))
    PROVE  V!LeafCertificate(chain, HashSize).why # "ok"
<1> DEFINE certs == SubSeq(chain, 7, Len(chain))
           der == V!DerCertificates(certs)
<1>1. V!U16(chain, 0) = Len(Chain(s))
  <2>1. chain[1] = Chain(s)[1] /\ chain[2] = Chain(s)[2]
    BY DEF Begins
  <2>2. Chain(s)[1] + 256 * Chain(s)[2] = Len(Chain(s))
    BY ChainIs
  <2>3. V!U16(chain, 0) = chain[0 + 1] + 256 * chain[0 + 2]
    BY DEF V!U16
  <2>4. 0 + 1 = 1 /\ 0 + 2 = 2
    OBVIOUS
  <2> QED BY <2>1, <2>2, <2>3, <2>4
<1>2. Len(Chain(s)) \in Nat /\ Len(chain) \in Nat /\ Len(Chain(s)) # Len(chain)
  BY ChainIs
<1>3. V!U16(chain, 0) # Len(chain)
  BY <1>1, <1>2
<1>4. V!LeafCertificate(chain, HashSize) =
        IF Len(chain) <= 6 THEN V!Refused("header")
        ELSE IF V!U16(chain, 0) # Len(chain) THEN V!Refused("length")
        ELSE IF der.starts = <<>> THEN V!Refused("no-certificate")
        ELSE IF der.at # Len(certs) + 1 THEN V!Refused("does-not-tile")
        ELSE [why |-> "ok", leaf |-> SubSeq(certs, Last(der.starts), Len(certs))]
  BY LeafIs
<1> HIDE DEF certs, der
<1>5. V!LeafCertificate(chain, HashSize) \in {V!Refused("header"), V!Refused("length")}
  BY <1>3, <1>4
<1> QED BY <1>5, RefusedIs

-----------------------------------------------------------------------------
(* analyse.                                                                *)

Chains == V!CertificateChains(capture)

\* Of what leaf a slot has.
LEMMA LeafOfSlot ==
    ASSUME ChallengeTypeOK, ChainsInv, NEW s \in Slots
    PROVE  /\ s \in DOMAIN Chains /\ V!LeafCertificate(Chains[s], HashSize).why = "ok" =>
                /\ Chains[s] = Chain(s)
                /\ V!LeafCertificate(Chains[s], HashSize).leaf = Last(Certificates[s])
           /\ fetched[s] = "whole" =>
                s \in DOMAIN Chains /\ V!LeafCertificate(Chains[s], HashSize).why = "ok"
<1> DEFINE acc == V!Assembled(capture, s)
           D == {i \in 0 .. 15 : V!Assembled(capture, i).done # <<>>}
           leaf == V!LeafCertificate(Chains[s], HashSize)
<1>1. s \in 0 .. 15 /\ s \in Nat
  <2>1. s \in Nat /\ s % 16 = s
    BY ConstantsAre
  <2> QED BY <2>1
<1>2. Chains = [i \in D |-> V!Assembled(capture, i).done[1]]
  BY DEF Chains, V!CertificateChains
<1>3. (s \in DOMAIN Chains <=> acc.done # <<>>) /\ (acc.done # <<>> => Chains[s] = acc.done[1])
  BY <1>1, <1>2
<1>4. Collects(acc, s, At(s), fetched[s])
  BY DEF ChainsInv
<1>5. capture \in Seq(Captured) /\ fetched[s] \in {"none", "begun", "whole", "spoiled"}
  BY DEF ChallengeTypeOK
<1>6. acc \in Accs
  BY <1>1, <1>5, AssembledType
<1>7. acc.done \in Seq(Seq(Nat))
  BY <1>6 DEF Accs
<1> HIDE DEF acc, leaf
<1>8. CASE fetched[s] \in {"none", "begun"}
  <2>1. acc.done = <<>>
    BY <1>4, <1>8 DEF Collects, V!NoPortions
  <2> QED BY <1>3, <1>8, <2>1
<1>9. CASE fetched[s] = "whole"
  <2>1. acc.done # <<>> /\ acc.done[1] = Chain(s)
    BY <1>4, <1>9 DEF Collects
  <2>2. leaf = [why |-> "ok", leaf |-> Last(Certificates[s])]
    BY <1>3, <2>1, LeafOfChain DEF leaf
  <2>3. leaf.why = "ok" /\ leaf.leaf = Last(Certificates[s])
    BY <2>2
  <2> QED BY <1>3, <2>1, <2>3 DEF leaf
<1>10. CASE fetched[s] = "spoiled"
  <2>1. CASE acc.done = <<>>
    BY <1>3, <1>10, <2>1
  <2>2. CASE acc.done # <<>>
    <3>1. Begins(acc.done[1], s) /\ Len(acc.done[1]) > Len(Chain(s))
      BY <1>4, <1>10, <2>2 DEF Collects
    <3>2. acc.done[1] \in Seq(Nat)
      <4>1. 1 \in 1 .. Len(acc.done)
        BY <1>7, <2>2
      <4> QED BY <1>7, <4>1, Member
    <3>3. leaf.why # "ok"
      BY <1>3, <2>2, <3>1, <3>2, LeafRefused DEF leaf
    <3> QED BY <1>10, <3>3 DEF leaf
  <2> QED BY <2>1, <2>2
<1> QED BY <1>5, <1>8, <1>9, <1>10

\* What is concluded of a signature.
LEMMA VerdictIs ==
    ASSUME ChallengeTypeOK, ChainsInv, Fresh, NEW s \in Slots, NEW sig \in signatures,
           sig.key = KeyOf(Last(Certificates[s])), NEW read,
           read.slot = s, read.hash = HashSize, read.signature = sig.raw
    PROVE  LET v == V!Verified(read, Chains, signatures) IN
           /\ v = "yes" => sig.m1m2 = read.m1m2
           /\ v = "no" => sig.m1m2 # read.m1m2
           /\ fetched[s] = "whole" => v # "unknown"
<1> DEFINE leaf == V!LeafCertificate(Chains[s], HashSize)
           m == read.m1m2
           signed == [key |-> KeyOf(leaf.leaf), m1m2 |-> m, raw |-> sig.raw]
           v == V!Verified(read, Chains, signatures)
<1>1. v = IF s \notin DOMAIN Chains THEN "unknown"
          ELSE IF leaf.why # "ok" THEN "unknown"
          ELSE IF signed \in signatures THEN "yes" ELSE "no"
  BY DEF V!Verified
<1>2. /\ s \in DOMAIN Chains /\ leaf.why = "ok" => leaf.leaf = Last(Certificates[s])
      /\ fetched[s] = "whole" => s \in DOMAIN Chains /\ leaf.why = "ok"
  BY LeafOfSlot
<1>3. sig = [key |-> sig.key, m1m2 |-> sig.m1m2, raw |-> sig.raw]
  BY DEF Fresh
<1>4. \A other \in signatures : other.raw = sig.raw => other = sig
  BY DEF Fresh
<1>5. signed.raw = sig.raw /\ signed.m1m2 = m
  OBVIOUS
<1> HIDE DEF leaf, m, v
<1>6. signed \in signatures => sig.m1m2 = m
  <2> HIDE DEF signed
  <2> QED BY <1>4, <1>5
<1>7. s \in DOMAIN Chains /\ leaf.why = "ok" /\ sig.m1m2 = m => signed \in signatures
  <2> SUFFICES ASSUME s \in DOMAIN Chains, leaf.why = "ok", sig.m1m2 = m PROVE signed \in signatures
    OBVIOUS
  <2>1. KeyOf(leaf.leaf) = sig.key
    BY <1>2
  <2>2. signed = sig
    BY <1>3, <2>1
  <2> QED BY <2>2
<1> HIDE DEF signed
<1> QED BY <1>1, <1>2, <1>6, <1>7 DEF v, m

LEMMA SignaturesType ==
    ASSUME ChallengeTypeOK, Fresh
    PROVE  Signatures(signatures)
<1> SUFFICES ASSUME NEW sig \in signatures
             PROVE  sig.raw \in Seq(Nat) /\ Len(sig.raw) = SigBytes
  BY DEF Signatures
<1>1. PICK k \in 0 .. spent - 1 : sig.raw = Fill(100 + k, SigBytes)
  BY DEF Fresh
<1>2. 100 + k \in Nat /\ SigBytes \in Nat
  BY ConstantsAre DEF ChallengeTypeOK
<1> QED BY <1>1, <1>2, FillType

\* The connections that can be judged.
Judgeable(c) == c.first # "none" /\ ~c.error /\ c.version <= 17

\* One of them.
LEMMA RowIs ==
    ASSUME ChallengeTypeOK, Fresh, ChainsInv, NEW c \in Known, NEW seg \in Seq(Captured),
           Recounts(seg, c, signatures)
    PROVE  LET read == V!Build(seg)
               v == V!Verified(read, Chains, signatures)
           IN /\ read.why = "ok" <=> Judgeable(c)
              /\ Judgeable(c) =>
                   /\ read.fetched = c.withCert
                   /\ v = "yes" => c.first = "good"
                   /\ v = "no" => c.first = "faulty"
                   /\ fetched[c.slot] = "whole" => v # "unknown"
<1> DEFINE read == V!Build(seg)
           v == V!Verified(read, Chains, signatures)
<1>1. Signatures(signatures)
  BY SignaturesType
<1>2. c.version \in Nat /\ c.first \in {"none", "good", "faulty"} /\ c.error \in BOOLEAN
  BY KnownParts
<1>3. CASE ~Judgeable(c)
  <2>1. c.first = "none" \/ c.error \/ c.version > 17
    BY <1>2, <1>3 DEF Judgeable
  <2>2. read.why # "ok"
    BY <1>1, <2>1, BuildRefuses
  <2> QED BY <1>3, <2>2
<1>4. CASE Judgeable(c)
  <2>1. c.first # "none" /\ ~c.error /\ c.version <= 17
    BY <1>4 DEF Judgeable
  <2>2. c.slot \in Slots /\ \E at \in 1 .. Len(seg) : \E shape \in Shapes[c.slot] :
          \E sig \in signatures : Signed(seg, c, at, shape, sig)
    BY <2>1 DEF Recounts, Asks
  <2>3. PICK at \in 1 .. Len(seg), shape \in Shapes[c.slot], sig \in signatures :
          Signed(seg, c, at, shape, sig)
    BY <2>2
  <2>4. sig.raw \in Seq(Nat) /\ Len(sig.raw) = SigBytes
    BY <1>1 DEF Signatures
  <2>5. read = ReadFrom(c, seg, at, shape, sig)
    BY <2>1, <2>2, <2>3, <2>4, BuildReads
  <2> DEFINE m == c.a \o V!BBytes(seg, at) \o Asked(c.version, c.slot, shape)
                    \o Unsigned(c.version, c.slot, shape)
  <2>6. sig.key = KeyOf(Last(Certificates[c.slot])) /\ ((c.first = "good") = (sig.m1m2 = m))
    BY <2>1, <2>3 DEF Signed
  <2> HIDE DEF m, read
  <2>7. /\ read.why = "ok" /\ read.slot = c.slot /\ read.hash = HashSize
        /\ read.fetched = c.withCert /\ read.m1m2 = m /\ read.signature = sig.raw
    BY <2>5 DEF ReadFrom, m
  <2> DEFINE s == c.slot
  <2>8. s \in Slots /\ sig.key = KeyOf(Last(Certificates[s])) /\ read.slot = s
    BY <2>2, <2>6, <2>7
  <2> HIDE DEF s
  <2>9. LET w == V!Verified(read, Chains, signatures) IN
        /\ w = "yes" => sig.m1m2 = read.m1m2
        /\ w = "no" => sig.m1m2 # read.m1m2
        /\ fetched[s] = "whole" => w # "unknown"
    BY <2>7, <2>8, VerdictIs
  <2> HIDE DEF v
  <2>10. /\ v = "yes" => sig.m1m2 = m
         /\ v = "no" => sig.m1m2 # m
         /\ fetched[c.slot] = "whole" => v # "unknown"
    BY <2>7, <2>9 DEF v, s
  <2>11. /\ v = "yes" => c.first = "good"
         /\ v = "no" => c.first = "faulty"
    BY <1>2, <2>1, <2>6, <2>10
  <2> QED BY <1>4, <2>7, <2>10, <2>11 DEF read, v
<1> QED BY <1>3, <1>4

LEMMA InvariantJudges == ChallengeIInv => JudgedRightly
<1> SUFFICES ASSUME ChallengeIInv, lost = 0 PROVE JudgedRightly
  BY DEF JudgedRightly
<1> DEFINE segs == V!Segments(capture)
           read(n) == V!Build(segs[n])
           judgement(n) == V!Verified(read(n), Chains, signatures)
           row(n) == [connection |-> n, fetched |-> read(n).fetched, verified |-> judgement(n)]
<1>1. ChallengeTypeOK /\ Fresh /\ SegmentsInv /\ ChainsInv
  BY DEF ChallengeIInv
<1>2. /\ Len(segs) = Len(conns)
      /\ \A n \in 1 .. Len(conns) : Recounts(segs[n], conns[n], signatures)
  BY <1>1 DEF SegmentsInv, SegmentsAre
<1>3. segs \in Segs /\ capture \in Seq(Captured) /\ conns \in Seq(Known)
  BY <1>1, SegmentsType DEF ChallengeTypeOK
<1>4. DOMAIN segs = 1 .. Len(conns) /\ DOMAIN conns = 1 .. Len(conns)
  BY <1>2, <1>3 DEF Segs
<1>5. \A n \in DOMAIN conns : conns[n] \in Known /\ segs[n] \in Seq(Captured)
  BY <1>2, <1>3, <1>4 DEF Segs
<1>6. Rows = {row(n) : n \in {k \in DOMAIN segs : read(k).why = "ok"}}
  BY DEF Rows, V!Analyse, Chains
<1> HIDE DEF segs
<1>7. ASSUME NEW n \in DOMAIN conns
      PROVE  /\ read(n).why = "ok" <=> Judgeable(conns[n])
             /\ Judgeable(conns[n]) =>
                  /\ read(n).fetched = conns[n].withCert
                  /\ judgement(n) = "yes" => conns[n].first = "good"
                  /\ judgement(n) = "no" => conns[n].first = "faulty"
                  /\ fetched[conns[n].slot] = "whole" => judgement(n) # "unknown"
  <2> DEFINE c == conns[n]
             seg == segs[n]
  <2>1. c \in Known /\ seg \in Seq(Captured) /\ Recounts(seg, c, signatures)
    BY <1>2, <1>4, <1>5
  <2> HIDE DEF c, seg
  <2>2. LET r == V!Build(seg)
            v == V!Verified(r, Chains, signatures)
        IN /\ r.why = "ok" <=> Judgeable(c)
           /\ Judgeable(c) =>
                /\ r.fetched = c.withCert
                /\ v = "yes" => c.first = "good"
                /\ v = "no" => c.first = "faulty"
                /\ fetched[c.slot] = "whole" => v # "unknown"
    BY <1>1, <2>1, RowIs
  <2> QED BY <2>2 DEF c, seg
<1> DEFINE J == {n \in DOMAIN conns : Judgeable(conns[n])}
<1>8. {k \in DOMAIN segs : read(k).why = "ok"} = J
  <2> HIDE DEF read, judgement
  <2> QED BY <1>4, <1>7
<1> HIDE DEF read, judgement
<1>9. Rows = {row(n) : n \in J}
  BY <1>6, <1>8
<1>10. J = {n \in DOMAIN conns : conns[n].first # "none" /\ ~conns[n].error /\ conns[n].version <= 17}
  BY DEF Judgeable
<1>11. {r.connection : r \in Rows} = J
  <2> HIDE DEF J
  <2>1. \A n : row(n).connection = n
    OBVIOUS
  <2> HIDE DEF row
  <2> QED BY <1>9, <2>1
<1>12. ASSUME NEW r \in Rows
       PROVE  LET c == conns[r.connection] IN
              /\ r.fetched = c.withCert
              /\ r.verified = "yes" => c.first = "good"
              /\ r.verified = "no" => c.first = "faulty"
              /\ fetched[c.slot] = "whole" => r.verified # "unknown"
  <2>1. PICK n \in J : r = row(n)
    BY <1>9
  <2>2. r.connection = n /\ r.fetched = read(n).fetched /\ r.verified = judgement(n)
    BY <2>1
  <2> QED BY <1>7, <2>2
<1> HIDE DEF J, row
<1> QED BY <1>10, <1>11, <1>12 DEF JudgedRightly

\* Of a capture that missed nothing, every connection whose first CHALLENGE can be
\* judged is judged, and as it was signed; with any chains, shapes, versions, size
\* of a portion and number of exchanges (challenge_verify.py: build, analyse).
THEOREM RightlyJudged == ChallengeSpec => []JudgedRightly
BY ChallengeInvariant, InvariantJudges, PTL

\* Of a capture that missed nothing, a leaf is taken only from the slot's own chain,
\* whole: never from a fetch given up, nor from what two fetches left together
\* (challenge_verify.py: certificate_chains, leaf_certificate).
LeafIsTheSlots ==
    lost = 0 =>
      \A s \in Slots \cap DOMAIN Chains :
        V!LeafCertificate(Chains[s], HashSize).why = "ok" =>
          /\ Chains[s] = Chain(s)
          /\ V!LeafCertificate(Chains[s], HashSize).leaf = Last(Certificates[s])

\* It is so, for any chains.
THEOREM LeafIsTheSlotsHolds == ChallengeSpec => []LeafIsTheSlots
<1>1. ChallengeIInv => LeafIsTheSlots
  BY LeafOfSlot DEF ChallengeIInv, LeafIsTheSlots
<1> QED BY <1>1, ChallengeInvariant, PTL
=============================================================================
