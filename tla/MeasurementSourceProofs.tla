----------------------- MODULE MeasurementSourceProofs -----------------------
(* Proofs about the measurement source: a loaded file is sound, and all    *)
(* answers are of one file.                                                *)
EXTENDS Fixture, Recursion, FiniteSetTheorems

\* A sum that cannot wrap because it is never formed.
LEMMA RangeIsExact ==
    \A off, len, total \in Nat : RangeOk(off, len, total) <=> off + len <= total
BY DEF RangeOk

\* Every outcome of the checks is a status.
LEMMA StatusType == \A f : LoadStatus(f) \in Statuses
BY DEF LoadStatus, HeaderFault, DescriptorFault, Statuses

\* What a descriptor that passes is.
LEMMA PassingDescriptor ==
    ASSUME NEW f \in Files, HeaderFault(f) = "MS_OK", NEW i \in 1 .. f.count,
           DescriptorFault(f, i) = "MS_OK"
    PROVE  /\ f.desc[i] \in Descriptor
           /\ f.desc[i].index \notin {0, 255}
           /\ \A j \in 1 .. i - 1 : f.desc[j].index # f.desc[i].index
           /\ f.desc[i].off + f.desc[i].len <= f.size
           /\ f.desc[i].len > 0 => f.desc[i].off >= TableEnd(f)
<1> DEFINE d == f.desc[i]
<1>1. ~(TableEnd(f) > f.size) /\ f.size \in Nat /\ TableEnd(f) \in Nat
  BY FilesAssumption DEF HeaderFault, TableEnd, HeaderBytes, DescriptorBytes
<1>2. d \in Descriptor /\ d.off \in Nat /\ d.len \in Nat
  BY <1>1, FilesAssumption DEF Descriptor
<1>3. /\ d.index \notin {0, 255}
      /\ ~\E j \in 1 .. i - 1 : f.desc[j].index = d.index
      /\ RangeOk(d.off, d.len, f.size)
      /\ ~(d.len > 0 /\ d.off < TableEnd(f))
  BY DEF DescriptorFault
<1>4. d.off + d.len <= f.size
  BY <1>1, <1>2, <1>3, RangeIsExact
<1> QED BY <1>1, <1>2, <1>3, <1>4

\* What ms_load() leaves behind, field by field.
LEMMA LoadFields ==
    ASSUME NEW f
    PROVE  LET m == Load(f)
               ok == HeaderFault(f) = "MS_OK" /\ Faulty(f) = {}
           IN /\ m.attempted = TRUE /\ m.loaded = ok /\ m.status = LoadStatus(f)
              /\ m.slots = IF HeaderFault(f) = "MS_OK"
                           THEN {f.desc[i] : i \in Taken(f)} ELSE {}
              /\ m.svn \in {f.svn, 0}
              /\ m.blocks = IF ok THEN f.count ELSE 0
              /\ m.image = IF ok THEN f ELSE NoFile
              /\ m.len = IF ok THEN f.size ELSE 0
BY DEF Load, Read

\* The statics after a load have their types, and what is loaded is sound.
LEMMA LoadIsSound ==
    ASSUME NEW f \in Files
    PROVE  StaticsOK(Load(f)) /\ Sound(Load(f))
<1> DEFINE m == Load(f)
<1> DEFINE ok == HeaderFault(f) = "MS_OK" /\ Faulty(f) = {}
<1>1. /\ m.attempted = TRUE /\ m.loaded = ok /\ m.status = LoadStatus(f)
      /\ m.slots = IF HeaderFault(f) = "MS_OK" THEN {f.desc[i] : i \in Taken(f)} ELSE {}
      /\ m.svn \in {f.svn, 0}
      /\ m.blocks = IF ok THEN f.count ELSE 0
      /\ m.image = IF ok THEN f ELSE NoFile
      /\ m.len = IF ok THEN f.size ELSE 0
  BY LoadFields
<1>2. f.count \in Nat /\ f.size \in Nat /\ f.svn \in Nat
  BY FilesAssumption
<1>3. \A i \in Taken(f) : i \in 1 .. f.count /\ DescriptorFault(f, i) = "MS_OK"
  BY <1>2 DEF Taken
<1>4. m.slots \subseteq Descriptor
  BY <1>1, <1>3, PassingDescriptor
<1>5. ASSUME ok
      PROVE  /\ m.status = "MS_OK" /\ TableEnd(f) <= f.size
             /\ \A s, t \in m.slots : s.index = t.index => s = t
             /\ \A s \in m.slots :
                  /\ s.index \notin {0, 255} /\ s.off + s.len <= f.size
                  /\ s.len > 0 => s.off >= TableEnd(f)
  <2>1. m.status = "MS_OK"
    BY <1>1, <1>5 DEF LoadStatus
  <2>2. TableEnd(f) <= f.size
    BY <1>2, <1>5 DEF HeaderFault, TableEnd, HeaderBytes, DescriptorBytes
  <2>3. ASSUME NEW s \in m.slots, NEW t \in m.slots, s.index = t.index PROVE s = t
    <3>1. PICK i \in Taken(f) : s = f.desc[i]
      BY <1>1, <1>5
    <3>2. PICK j \in Taken(f) : t = f.desc[j]
      BY <1>1, <1>5
    <3>3. ~(i < j) /\ ~(j < i)
      BY <1>2, <1>3, <1>5, <2>3, <3>1, <3>2, PassingDescriptor
    <3> QED BY <1>3, <3>1, <3>2, <3>3
  <2>4. \A s \in m.slots :
          /\ s.index \notin {0, 255} /\ s.off + s.len <= f.size
          /\ s.len > 0 => s.off >= TableEnd(f)
    BY <1>1, <1>3, <1>5, PassingDescriptor
  <2> QED BY <2>1, <2>2, <2>3, <2>4
<1>6. ok \in BOOLEAN
  OBVIOUS
<1> HIDE DEF m, ok
<1>7. m.image \in Files \cup {NoFile} /\ m.svn \in Nat /\ m.blocks \in Nat /\ m.len \in Nat
  BY <1>1, <1>2
<1>8. m.attempted \in BOOLEAN /\ m.loaded \in BOOLEAN /\ (m.loaded => m.attempted)
  BY <1>1, <1>6
<1>9. m.status \in Statuses
  BY <1>1, StatusType
<1>10. StaticsOK(m)
  BY <1>4, <1>7, <1>8, <1>9 DEF StaticsOK
<1>11. m.loaded => m.image = f /\ m.len = f.size /\ m.blocks = f.count
  BY <1>1
<1>12. Sound(m)
  BY <1>1, <1>5, <1>11 DEF Sound
<1> QED BY <1>10, <1>12 DEF m

\* So are the statics that hold no file.
LEMMA EmptyIsSound ==
    StaticsOK(Fresh) /\ Sound(Fresh) /\ StaticsOK(LoadNothing) /\ Sound(LoadNothing)
BY DEF StaticsOK, Sound, Fresh, LoadNothing, Statuses

LEMMA EnsureIsSound ==
    ASSUME TypeOK, LoadedIsSound, ms' \in {ms, Fresh, LoadNamed},
           UNCHANGED <<named, changes>>, file' \in Files
    PROVE  TypeOK' /\ LoadedIsSound'
<1>1. ms' \in {ms, Fresh, LoadNothing, Load(file)} /\ file \in Files
  BY DEF LoadNamed, TypeOK
<1>2. StaticsOK(ms') /\ Sound(ms')
  BY <1>1, EmptyIsSound, LoadIsSound DEF TypeOK, LoadedIsSound
<1>3. StaticsOK(ms)' /\ Sound(ms)'
  BY <1>2 DEF StaticsOK, Sound
<1> QED BY <1>3 DEF TypeOK, LoadedIsSound

\* A question loads at most once, and never after an answer.
LEMMA EnsureKeeps ==
    ASSUME AnswersInv, ms' = Ensure
    PROVE  (answers # {} => ms' = ms) /\ ms'.attempted
<1>1. Load(file).attempted /\ LoadNothing.attempted
  BY DEF Load, Read, LoadNothing, Fresh
<1> QED BY <1>1 DEF Ensure, LoadNamed, AnswersInv

LEMMA AnswersStep == AnswersInv /\ [Next]_vars => AnswersInv'
<1> SUFFICES ASSUME AnswersInv, [Next]_vars PROVE AnswersInv'
  OBVIOUS
<1>1. CASE FileChanges \/ LoadCalled \/ Reset
  BY <1>1 DEF FileChanges, LoadCalled, Reset, AnswersInv
<1>2. CASE GetBlock \/ GetSvn
  <2>1. PICK q : Asked(q)
    BY <1>2 DEF GetBlock, GetSvn
  <2>2. (answers # {} => ms' = ms) /\ ms'.attempted
    BY <2>1, EnsureKeeps DEF Asked
  <2>3. ASSUME NEW a \in answers' PROVE a.got = Answer(ms', a.ask)
    <3>1. CASE a \in answers
      BY <2>2, <3>1 DEF AnswersInv
    <3>2. CASE a = [ask |-> q, got |-> Answer(ms', q)]
      BY <3>2
    <3> QED BY <2>1, <2>3, <3>1, <3>2 DEF Asked
  <2> QED BY <2>2, <2>3 DEF AnswersInv
<1>3. CASE IsLoaded
  <2>1. answers # {} => ms' = ms
    BY <1>3, EnsureKeeps DEF IsLoaded
  <2> QED BY <1>3, <2>1 DEF IsLoaded, AnswersInv
<1>4. CASE UNCHANGED vars
  BY <1>4 DEF vars, AnswersInv
<1> QED BY <1>1, <1>2, <1>3, <1>4 DEF Next

LEMMA Step ==
    TypeOK /\ LoadedIsSound /\ [Next]_vars => TypeOK' /\ LoadedIsSound'
<1> SUFFICES ASSUME TypeOK, LoadedIsSound, [Next]_vars PROVE TypeOK' /\ LoadedIsSound'
  OBVIOUS
<1>1. CASE FileChanges
  BY <1>1, BoundAssumption DEF FileChanges, TypeOK, LoadedIsSound
<1>2. CASE LoadCalled \/ Reset
  BY <1>2, EnsureIsSound DEF LoadCalled, Reset, TypeOK
<1>3. CASE GetBlock \/ GetSvn \/ IsLoaded
  <2>1. ms' = Ensure /\ UNCHANGED <<file, named, changes>>
    BY <1>3 DEF GetBlock, GetSvn, Asked, IsLoaded
  <2>2. ms' \in {ms, LoadNamed}
    BY <2>1 DEF Ensure
  <2> QED BY <2>1, <2>2, EnsureIsSound DEF TypeOK
<1>4. CASE UNCHANGED vars
  BY <1>4 DEF vars, TypeOK, LoadedIsSound
<1> QED BY <1>1, <1>2, <1>3, <1>4 DEF Next

\* For every set of files, every width of an offset and every order of calls.
THEOREM Inductive == Spec => [](TypeOK /\ LoadedIsSound /\ AnswersInv)
<1>1. Init => TypeOK /\ LoadedIsSound /\ AnswersInv
  BY EmptyIsSound DEF Init, TypeOK, LoadedIsSound, AnswersInv
<1> QED BY <1>1, Step, AnswersStep, PTL DEF Spec

\* The statics have their types; only a load that was attempted is a load.
THEOREM TypeCorrect == Spec => []TypeOK
BY Inductive, PTL

\* What is loaded lies inside the file, past its table, once per index.
THEOREM LoadedHolds == Spec => []LoadedIsSound
BY Inductive, PTL

\* All answers since the last explicit load are of one version of the file.
THEOREM OneSourceHolds == Spec => []OneSource
<1>1. AnswersInv => OneSource
  <2>1. \A m, q : Answer(m, q) # Refusal => m.loaded /\ Answer(m, q).from = m.image
    BY DEF Answer
  <2> QED BY <2>1 DEF AnswersInv, OneSource
<1> QED BY <1>1, Inductive, PTL

\* A question after the first leaves the module's state alone.
THEOREM AccessorsOnlyRead == Spec => StatusIsOfTheLoad
<1>1. [Next]_vars => [ms.attempted /\ answers' # {} => ms' = ms]_vars
  BY DEF Next, FileChanges, LoadCalled, Reset, GetBlock, GetSvn, Asked, IsLoaded,
     Ensure, vars
<1> QED BY <1>1, PTL DEF Spec, StatusIsOfTheLoad

-----------------------------------------------------------------------------
(* What the generator builds, for any number of blocks and bytes of one.   *)

TableSize == HeaderBytes + DescriptorBytes * HashBlocks
FixtureSize == TableSize + ValueBytes * HashBlocks
PlaceOf(i) == TableSize + (i - 1) * ValueBytes
BuiltDescriptor(i) ==
    [index |-> i, reserved |-> 0, len |-> ValueBytes, off |-> PlaceOf(i)]
BuiltFile(svn) ==
    [readable |-> TRUE, size |-> FixtureSize, magic |-> TRUE, version |-> TRUE,
     count |-> HashBlocks, svn |-> svn,
     desc |-> [i \in 1 .. HashBlocks |-> BuiltDescriptor(i)]]

LEMMA Apart ==
    ASSUME NEW v \in Nat, NEW a \in Nat, NEW b \in Nat, a < b
    PROVE  a * v \in Nat /\ b * v \in Nat /\ a * v + v <= b * v
<1> DEFINE d == b - (a + 1)
<1>1. d \in Nat /\ b = (a + 1) + d
  OBVIOUS
<1> HIDE DEF d
<1>2. b * v = (a * v + v) + d * v
  BY <1>1
<1>3. a * v \in Nat /\ d * v \in Nat /\ b * v \in Nat
  BY <1>1
<1> QED BY <1>2, <1>3

\* Values lie past the table, inside the file, and apart from one another.
LEMMA Places ==
    /\ HashBlocks \in 1 .. 254 /\ ValueBytes \in 1 .. U16Values - 1
    /\ TableSize \in Nat /\ TableSize = 16 + 8 * HashBlocks
    /\ FixtureSize \in Nat /\ FixtureSize <= U16Values /\ TableSize <= FixtureSize
    /\ \A i \in 1 .. HashBlocks :
         PlaceOf(i) \in Nat /\ TableSize <= PlaceOf(i) /\ PlaceOf(i) + ValueBytes <= FixtureSize
<1>1. /\ HashBlocks \in 1 .. 254 /\ ValueBytes \in 1 .. U16Values - 1
      /\ 16 + (8 * HashBlocks + ValueBytes * HashBlocks) <= U16Values
      /\ U16Values \in Nat
  <2>1. MaxFileBytes = U16Values /\ U16Values \in Nat
    BY SMT DEF MaxFileBytes, U16Values
  <2> QED BY <2>1, FixtureAssumption DEF HeaderBytes, DescriptorBytes
<1>2. ValueBytes * HashBlocks \in Nat /\ ValueBytes * HashBlocks = HashBlocks * ValueBytes
  BY <1>1
<1>3. TableSize = 16 + 8 * HashBlocks /\ TableSize \in Nat
  BY <1>1 DEF TableSize, HeaderBytes, DescriptorBytes
<1>4. FixtureSize = TableSize + HashBlocks * ValueBytes
  BY <1>2 DEF FixtureSize
<1>5. ASSUME NEW i \in 1 .. HashBlocks
      PROVE  PlaceOf(i) \in Nat /\ TableSize <= PlaceOf(i) /\ PlaceOf(i) + ValueBytes <= FixtureSize
  <2> DEFINE x == (i - 1) * ValueBytes
             y == HashBlocks * ValueBytes
  <2>1. i - 1 \in Nat /\ i - 1 < HashBlocks /\ HashBlocks \in Nat /\ ValueBytes \in Nat
    BY <1>1
  <2>2. x \in Nat /\ y \in Nat /\ x + ValueBytes <= y
    BY <2>1, Apart
  <2> HIDE DEF x, y
  <2>3. PlaceOf(i) = TableSize + x /\ FixtureSize = TableSize + y
    BY <1>4 DEF PlaceOf, x, y
  <2> QED BY <1>1, <1>3, <2>2, <2>3
<1> DEFINE x == ValueBytes * HashBlocks
<1>6. FixtureSize = TableSize + x /\ x \in Nat /\ 16 + (8 * HashBlocks + x) <= U16Values
  BY <1>1, <1>2 DEF FixtureSize
<1> HIDE DEF x
<1> QED BY <1>1, <1>3, <1>5, <1>6

LEMMA PlacesApart ==
    ASSUME NEW i \in 1 .. HashBlocks, NEW j \in 1 .. HashBlocks,
           NEW k \in 1 .. ValueBytes, NEW l \in 1 .. ValueBytes,
           PlaceOf(i) + k = PlaceOf(j) + l
    PROVE  i = j /\ k = l
<1> DEFINE x == (i - 1) * ValueBytes
           y == (j - 1) * ValueBytes
<1>1. /\ i - 1 \in Nat /\ j - 1 \in Nat /\ ValueBytes \in Nat /\ TableSize \in Nat
      /\ i \in Nat /\ j \in Nat
  BY Places
<1>2. i < j => x \in Nat /\ y \in Nat /\ x + ValueBytes <= y
  BY <1>1, Apart
<1>3. j < i => x \in Nat /\ y \in Nat /\ y + ValueBytes <= x
  BY <1>1, Apart
<1>4. (TableSize + x) + k = (TableSize + y) + l
  BY DEF PlaceOf
<1>5. i = j => x = y /\ x \in Nat
  BY <1>1
<1> HIDE DEF x, y
<1> QED BY <1>1, <1>2, <1>3, <1>4, <1>5

\* A number's bytes, and the number again.
Coded(n, w, s) ==
    /\ s \in Seq(Nat) /\ Len(s) = w
    /\ \A k \in 1 .. w : k > 3 => s[k] = 0
    /\ w > 0 => s[1] = n % 256
    /\ w > 1 => s[2] = (n \div 256) % 256
    /\ w > 2 => s[3] = ((n \div 256) \div 256) % 256

LEMMA Digits ==
    ASSUME NEW n \in Nat, NEW w \in Nat
    PROVE  Coded(n, w, LE(n, w))
<1> DEFINE d == <<n % 256, (n \div 256) % 256, ((n \div 256) \div 256) % 256>>
<1>1. /\ d[1] = n % 256 /\ d[2] = (n \div 256) % 256 /\ d[3] = ((n \div 256) \div 256) % 256
      /\ \A k \in 1 .. 3 : d[k] \in Nat
  <2>1. n % 256 \in Nat /\ n \div 256 \in Nat /\ (n \div 256) % 256 \in Nat
    OBVIOUS
  <2>2. ((n \div 256) \div 256) % 256 \in Nat
    BY <2>1
  <2> QED BY <2>1, <2>2
<1>2. LE(n, w) = [k \in 1 .. w |-> IF k > 3 THEN 0 ELSE d[k]]
  BY DEF LE
<1> HIDE DEF d
<1>3. \A k \in 1 .. w : LE(n, w)[k] = (IF k > 3 THEN 0 ELSE d[k]) /\ LE(n, w)[k] \in Nat
  <2>1. \A k \in 1 .. w : k > 3 \/ k \in 1 .. 3
    OBVIOUS
  <2> QED BY <1>1, <1>2, <2>1
<1>4. LE(n, w) \in Seq(Nat) /\ Len(LE(n, w)) = w
  <2> DEFINE s == LE(n, w)
  <2>1. DOMAIN s = 1 .. w /\ s = [k \in 1 .. w |-> s[k]]
    <3> HIDE DEF s
    <3> QED BY <1>2 DEF s
  <2>2. \A k \in 1 .. w : s[k] \in Nat
    BY <1>3
  <2> HIDE DEF s
  <2>3. s \in Seq(Nat) /\ Len(s) = w
    BY <2>1, <2>2
  <2> QED BY <2>3 DEF s
<1> QED BY <1>1, <1>3, <1>4 DEF Coded

LEMMA TwoBytes ==
    ASSUME NEW n \in Nat, n < U16Values
    PROVE  (n % 256) + 256 * ((n \div 256) % 256) = n
<1> DEFINE q == n \div 256
<1>1. n < 256 * 256
  BY DEF U16Values
<1>2. q \in Nat /\ q < 256 /\ n = 256 * q + (n % 256)
  BY <1>1
<1> HIDE DEF q
<1>3. q % 256 = q
  BY <1>2
<1> QED BY <1>1, <1>2, <1>3 DEF q

LEMMA ThreeBytes ==
    ASSUME NEW n \in Nat, n < 256 * U16Values
    PROVE  ((n % 256) + 256 * ((n \div 256) % 256)) + U16Values * (((n \div 256) \div 256) % 256) = n
<1> DEFINE q == n \div 256
           t == q \div 256
<1>1. U16Values = 256 * 256
  BY DEF U16Values
<1>2. q \in Nat /\ n = 256 * q + (n % 256)
  BY <1>1
<1>3. q = 256 * t + (q % 256) /\ t \in Nat
  <2> HIDE DEF q
  <2> QED BY <1>2
<1>4. t < 256
  <2> HIDE DEF q, t
  <2> QED BY <1>1, <1>2, <1>3
<1> HIDE DEF t
<1>5. t % 256 = t
  BY <1>3, <1>4
<1>6. n % 256 \in Nat /\ q % 256 \in Nat
  BY <1>2
<1> HIDE DEF q
<1>7. (((n % 256) + 256 * (q % 256)) + U16Values * t) = n
  BY <1>1, <1>2, <1>3, <1>6
<1> QED BY <1>5, <1>7 DEF q, t

\* Bytes one after the other.
InThree(a, b, c, s) ==
    /\ s \in Seq(Nat) /\ Len(s) = Len(a) + (Len(b) + Len(c))
    /\ \A p \in 1 .. Len(a) : s[p] = a[p]
    /\ \A p \in 1 .. Len(b) : s[Len(a) + p] = b[p]
    /\ \A p \in 1 .. Len(c) : s[Len(a) + (Len(b) + p)] = c[p]

LEMMA ThreeParts ==
    ASSUME NEW a \in Seq(Nat), NEW b \in Seq(Nat), NEW c \in Seq(Nat)
    PROVE  InThree(a, b, c, a \o b \o c)
<1> DEFINE t == a \o b
           s == t \o c
           x == Len(a)
           y == Len(b)
           z == Len(c)
<1>1. t \in Seq(Nat) /\ Joined(a, b)
  BY Concatenation
<1> HIDE DEF t
<1>2. s \in Seq(Nat) /\ Joined(t, c)
  BY <1>1, Concatenation
<1> HIDE DEF s
<1>3. /\ x \in Nat /\ y \in Nat /\ Len(t) = x + y
      /\ \A p \in 1 .. x : t[p] = a[p]
      /\ \A p \in 1 .. y : t[x + p] = b[p]
  BY <1>1 DEF Joined, t
<1>4. /\ z \in Nat /\ Len(s) = Len(t) + z
      /\ \A p \in 1 .. Len(t) : s[p] = t[p]
      /\ \A p \in 1 .. z : s[Len(t) + p] = c[p]
  BY <1>2 DEF Joined, s
<1> HIDE DEF x, y, z
<1>5. Len(s) = x + (y + z)
  BY <1>3, <1>4
<1>6. \A p \in 1 .. x : s[p] = a[p]
  <2>1. \A p \in 1 .. x : p \in 1 .. Len(t)
    BY <1>3
  <2> QED BY <1>3, <1>4, <2>1
<1>7. \A p \in 1 .. y : s[x + p] = b[p]
  <2>1. \A p \in 1 .. y : x + p \in 1 .. Len(t)
    BY <1>3
  <2> QED BY <1>3, <1>4, <2>1
<1>8. \A p \in 1 .. z : s[x + (y + p)] = c[p]
  <2>1. \A p \in 1 .. z : x + (y + p) = Len(t) + p
    BY <1>3, <1>4
  <2> QED BY <1>4, <2>1
<1> QED BY <1>2, <1>5, <1>6, <1>7, <1>8 DEF s, t, x, y, z, InThree

\* A descriptor's eight bytes, as they are packed.
DescriptorBytesOf(i) == <<i, 0>> \o LE(ValueBytes, 2) \o LE(PlaceOf(i), 4)

LEMMA PackedDescriptor ==
    ASSUME NEW i \in 1 .. HashBlocks
    PROVE  LET d == DescriptorBytesOf(i) IN
           /\ d \in Seq(Nat) /\ Len(d) = 8
           /\ d[1] = i /\ d[2] = 0
           /\ d[3] + 256 * d[4] = ValueBytes
           /\ (d[5] + 256 * d[6]) + U16Values * (d[7] + 256 * d[8]) = PlaceOf(i)
<1> DEFINE a == <<i, 0>>
           b == LE(ValueBytes, 2)
           o == PlaceOf(i)
           c == LE(o, 4)
           d == a \o b \o c
<1>1. /\ ValueBytes \in Nat /\ ValueBytes < U16Values /\ U16Values \in Nat
      /\ o \in Nat /\ o < 256 * U16Values
  <2>1. U16Values \in Nat
    BY DEF U16Values
  <2>2. /\ ValueBytes \in 1 .. U16Values - 1
        /\ o \in Nat /\ o + ValueBytes <= FixtureSize
        /\ FixtureSize \in Nat /\ FixtureSize <= U16Values
    BY Places
  <2> HIDE DEF o
  <2> QED BY <2>1, <2>2
<1>2. a \in Seq(Nat) /\ Len(a) = 2 /\ a[1] = i /\ a[2] = 0
  OBVIOUS
<1>3. /\ b \in Seq(Nat) /\ Len(b) = 2
      /\ b[1] = ValueBytes % 256 /\ b[2] = (ValueBytes \div 256) % 256
  <2>1. Coded(ValueBytes, 2, b)
    BY <1>1, Digits
  <2> HIDE DEF b
  <2> QED BY <2>1 DEF Coded
<1>4. /\ c \in Seq(Nat) /\ Len(c) = 4
      /\ c[1] = o % 256 /\ c[2] = (o \div 256) % 256
      /\ c[3] = ((o \div 256) \div 256) % 256 /\ c[4] = 0
  <2> HIDE DEF o
  <2>1. Coded(o, 4, c)
    BY <1>1, Digits
  <2> HIDE DEF c
  <2> QED BY <2>1 DEF Coded
<1> HIDE DEF a, b, c
<1>5. /\ d \in Seq(Nat) /\ Len(d) = Len(a) + (Len(b) + Len(c))
      /\ \A p \in 1 .. Len(a) : d[p] = a[p]
      /\ \A p \in 1 .. Len(b) : d[Len(a) + p] = b[p]
      /\ \A p \in 1 .. Len(c) : d[Len(a) + (Len(b) + p)] = c[p]
  <2>1. InThree(a, b, c, d)
    BY <1>2, <1>3, <1>4, ThreeParts
  <2> HIDE DEF d
  <2> QED BY <2>1 DEF InThree
<1> HIDE DEF d
<1>6. /\ Len(d) = 8 /\ d[1] = a[1] /\ d[2] = a[2] /\ d[3] = b[1] /\ d[4] = b[2]
      /\ d[5] = c[1] /\ d[6] = c[2] /\ d[7] = c[3] /\ d[8] = c[4]
  BY <1>2, <1>3, <1>4, <1>5
<1>7. b[1] + 256 * b[2] = ValueBytes
  BY <1>1, <1>3, TwoBytes
<1>8. (c[1] + 256 * c[2]) + U16Values * (c[3] + 256 * c[4]) = o
  <2>1. (c[1] + 256 * c[2]) + U16Values * c[3] = o
    <3> HIDE DEF o
    <3> QED BY <1>1, <1>4, ThreeBytes, ZenonT(60)
  <2>2. c[3] + 256 * c[4] = c[3]
    <3>1. c[3] \in Nat
      <4>1. c \in Seq(Nat) /\ 3 \in 1 .. Len(c)
        BY <1>4
      <4> QED BY <4>1
    <3> QED BY <1>4, <3>1
  <2> QED BY <2>1, <2>2
<1> QED BY <1>2, <1>5, <1>6, <1>7, <1>8 DEF d, a, b, c, o, DescriptorBytesOf

\* A fixture's header and table, whatever its values are.
Shaped(raw, svn) ==
    /\ raw \in Seq(Nat) /\ Len(raw) = FixtureSize
    /\ raw[1] = 77 /\ raw[2] = 83 /\ raw[3] = 82 /\ raw[4] = 49
    /\ U16At(raw, 4) = 1 /\ U16At(raw, 6) = HashBlocks
    /\ U16At(raw, 8) + U16Values * raw[11] = svn
    /\ \A i \in 1 .. HashBlocks : DescriptorAt(raw, i) = BuiltDescriptor(i)

\* Its header's sixteen bytes.
Header(svn) == <<77, 83, 82, 49>> \o LE(1, 2) \o LE(HashBlocks, 2) \o LE(svn, 8)
HeaderOf(svn, h) ==
    /\ h \in Seq(Nat) /\ Len(h) = 16
    /\ h[1] = 77 /\ h[2] = 83 /\ h[3] = 82 /\ h[4] = 49
    /\ h[5] + 256 * h[6] = 1 /\ h[7] + 256 * h[8] = HashBlocks
    /\ (h[9] + 256 * h[10]) + U16Values * h[11] = svn

LEMMA PackedHeader ==
    ASSUME NEW svn \in Nat, svn < 256 * U16Values
    PROVE  HeaderOf(svn, Header(svn))
<1> DEFINE m == <<77, 83, 82, 49>>
           a == LE(1, 2)
           b == LE(HashBlocks, 2)
           c == LE(svn, 8)
           t == m \o a \o b
           h == t \o c
<1>1. /\ m \in Seq(Nat) /\ Len(m) = 4
      /\ m[1] = 77 /\ m[2] = 83 /\ m[3] = 82 /\ m[4] = 49
  OBVIOUS
<1>2. HashBlocks \in Nat /\ 1 < U16Values /\ HashBlocks < U16Values
  BY Places DEF U16Values
<1>3. Coded(1, 2, a) /\ Coded(HashBlocks, 2, b) /\ Coded(svn, 8, c)
  BY <1>2, Digits
<1> HIDE DEF m, a, b, c
<1>4. /\ a \in Seq(Nat) /\ Len(a) = 2 /\ b \in Seq(Nat) /\ Len(b) = 2
      /\ c \in Seq(Nat) /\ Len(c) = 8
  BY <1>3 DEF Coded
<1>5. a[1] + 256 * a[2] = 1
  <2>1. a[1] = 1 % 256 /\ a[2] = (1 \div 256) % 256
    BY <1>3 DEF Coded
  <2> QED BY <1>2, <2>1, TwoBytes
<1>6. b[1] + 256 * b[2] = HashBlocks
  <2>1. b[1] = HashBlocks % 256 /\ b[2] = (HashBlocks \div 256) % 256
    BY <1>3 DEF Coded
  <2> QED BY <1>2, <2>1, TwoBytes
<1>7. (c[1] + 256 * c[2]) + U16Values * c[3] = svn
  <2>1. c[1] = svn % 256 /\ c[2] = (svn \div 256) % 256 /\ c[3] = ((svn \div 256) \div 256) % 256
    BY <1>3 DEF Coded
  <2> QED BY <2>1, ThreeBytes
<1>8. InThree(m, a, b, t)
  BY <1>1, <1>4, ThreeParts
<1> HIDE DEF t
<1>9. /\ t \in Seq(Nat) /\ Len(t) = 8
      /\ t[1] = m[1] /\ t[2] = m[2] /\ t[3] = m[3] /\ t[4] = m[4]
      /\ t[5] = a[1] /\ t[6] = a[2] /\ t[7] = b[1] /\ t[8] = b[2]
  BY <1>1, <1>4, <1>8 DEF InThree
<1>10. h \in Seq(Nat) /\ Joined(t, c)
  BY <1>4, <1>9, Concatenation
<1> HIDE DEF h
<1>11. /\ Len(h) = 16 /\ \A p \in 1 .. 8 : h[p] = t[p]
       /\ h[9] = c[1] /\ h[10] = c[2] /\ h[11] = c[3]
  <2>1. /\ Len(h) = Len(t) + Len(c)
        /\ \A p \in 1 .. Len(t) : h[p] = t[p]
        /\ \A p \in 1 .. Len(c) : h[Len(t) + p] = c[p]
    BY <1>10 DEF Joined, h
  <2>2. Len(h) = 8 + 8 /\ \A p \in 1 .. 8 : h[8 + p] = c[p]
    BY <1>4, <1>9, <2>1
  <2>3. h[8 + 1] = c[1] /\ h[8 + 2] = c[2] /\ h[8 + 3] = c[3]
    BY <2>2
  <2>4. 8 + 8 = 16 /\ 8 + 1 = 9 /\ 8 + 2 = 10 /\ 8 + 3 = 11 /\ 1 .. Len(t) = 1 .. 8
    BY <1>9
  <2> QED BY <2>1, <2>2, <2>3, <2>4
<1>12. HeaderOf(svn, h)
  <2>1. /\ h[1] = t[1] /\ h[2] = t[2] /\ h[3] = t[3] /\ h[4] = t[4]
        /\ h[5] = t[5] /\ h[6] = t[6] /\ h[7] = t[7] /\ h[8] = t[8]
    BY <1>11
  <2> QED BY <1>1, <1>5, <1>6, <1>7, <1>9, <1>10, <1>11, <2>1 DEF HeaderOf
<1> QED BY <1>12 DEF h, t, m, a, b, c, Header

\* The whole: header, table, values.
TableBytesOf == FlattenSeq([i \in 1 .. HashBlocks |-> DescriptorBytesOf(i)])
ValueBytesOf == FlattenSeq([i \in 1 .. HashBlocks |-> ValueOf(i)])

LEMMA PackedTable ==
    /\ TableBytesOf \in Seq(Nat) /\ Len(TableBytesOf) = 8 * HashBlocks
    /\ \A i \in 1 .. HashBlocks : \A p \in 1 .. 8 :
         /\ 8 * (i - 1) + p \in 1 .. 8 * HashBlocks
         /\ TableBytesOf[8 * (i - 1) + p] = DescriptorBytesOf(i)[p]
<1> DEFINE ss == [i \in 1 .. HashBlocks |-> DescriptorBytesOf(i)]
<1>1. HashBlocks \in Nat
  BY Places
<1>2. \A i \in 1 .. HashBlocks : DescriptorBytesOf(i) \in Seq(Nat) /\ Len(DescriptorBytesOf(i)) = 8
  BY PackedDescriptor
<1>3. /\ ss \in Seq(Seq(Nat)) /\ Len(ss) = HashBlocks
      /\ \A i \in 1 .. HashBlocks : ss[i] = DescriptorBytesOf(i) /\ Len(ss[i]) = 8
  BY <1>1, <1>2
<1> HIDE DEF ss
<1>4. FlattenSeq(ss) \in Seq(Nat) /\ EqualParts(ss, 8, FlattenSeq(ss))
  BY <1>3, EqualPartsPlace
<1> QED BY <1>3, <1>4 DEF EqualParts, TableBytesOf, ss

LEMMA PackedValues ==
    /\ ValueBytesOf \in Seq(Nat) /\ Len(ValueBytesOf) = ValueBytes * HashBlocks
    /\ \A i \in 1 .. HashBlocks : \A p \in 1 .. ValueBytes :
         /\ ValueBytes * (i - 1) + p \in 1 .. ValueBytes * HashBlocks
         /\ ValueBytesOf[ValueBytes * (i - 1) + p] = i
<1> DEFINE ss == [i \in 1 .. HashBlocks |-> ValueOf(i)]
<1>1. HashBlocks \in Nat /\ ValueBytes \in Nat
  BY Places
<1>2. \A i \in 1 .. HashBlocks :
        /\ ValueOf(i) \in Seq(Nat) /\ Len(ValueOf(i)) = ValueBytes
        /\ \A p \in 1 .. ValueBytes : ValueOf(i)[p] = i
  BY <1>1 DEF ValueOf
<1>3. /\ ss \in Seq(Seq(Nat)) /\ Len(ss) = HashBlocks
      /\ \A i \in 1 .. HashBlocks : ss[i] = ValueOf(i) /\ Len(ss[i]) = ValueBytes
  BY <1>1, <1>2
<1> HIDE DEF ss
<1>4. FlattenSeq(ss) \in Seq(Nat) /\ EqualParts(ss, ValueBytes, FlattenSeq(ss))
  BY <1>1, <1>3, EqualPartsPlace
<1> QED BY <1>2, <1>3, <1>4 DEF EqualParts, ValueBytesOf, ss

LEMMA BuildIs ==
    ASSUME NEW svn \in Nat, svn < 256 * U16Values
    PROVE  InThree(Header(svn), TableBytesOf, ValueBytesOf, Build(svn))
<1>1. Build(svn) = Header(svn) \o TableBytesOf \o ValueBytesOf
  <2>1. \A i \in 1 .. HashBlocks :
          DescriptorBytesOf(i) = <<i, 0>> \o LE(ValueBytes, 2)
            \o LE(HeaderBytes + DescriptorBytes * HashBlocks + (i - 1) * ValueBytes, 4)
    BY DEF DescriptorBytesOf, PlaceOf, TableSize
  <2>2. TableBytesOf = FlattenSeq([i \in 1 .. HashBlocks |->
           <<i, 0>> \o LE(ValueBytes, 2)
             \o LE(HeaderBytes + DescriptorBytes * HashBlocks + (i - 1) * ValueBytes, 4)])
    BY DEF TableBytesOf, DescriptorBytesOf, PlaceOf, TableSize
  <2> QED BY <2>2, Zenon DEF Build, Header, ValueBytesOf
<1> QED BY <1>1, PackedHeader, PackedTable, PackedValues, ThreeParts DEF HeaderOf


\* What is built is shaped so, and every byte of a value is its index.
ByteAt(raw, i, k) == raw[PlaceOf(i) + k]

LEMMA BuildShaped ==
    ASSUME NEW svn \in Nat, svn < 256 * U16Values
    PROVE  /\ Shaped(Build(svn), svn)
           /\ \A i \in 1 .. HashBlocks : \A k \in 1 .. ValueBytes : ByteAt(Build(svn), i, k) = i
<1> DEFINE h == Header(svn)
           t == TableBytesOf
           v == ValueBytesOf
           raw == Build(svn)
           n == 8 * HashBlocks
<1>1. InThree(h, t, v, raw) /\ HeaderOf(svn, h)
  BY BuildIs, PackedHeader
<1>2. /\ HashBlocks \in Nat /\ ValueBytes \in Nat /\ n \in Nat
      /\ TableSize = 16 + n /\ FixtureSize = TableSize + ValueBytes * HashBlocks
  BY Places DEF FixtureSize
<1>3. Len(h) = 16 /\ Len(t) = n /\ Len(v) = ValueBytes * HashBlocks
  BY <1>1, PackedTable, PackedValues DEF HeaderOf
<1> HIDE DEF h, t, v, raw
<1>4. /\ raw \in Seq(Nat) /\ Len(raw) = Len(h) + (Len(t) + Len(v))
      /\ \A p \in 1 .. Len(h) : raw[p] = h[p]
      /\ \A p \in 1 .. Len(t) : raw[Len(h) + p] = t[p]
      /\ \A p \in 1 .. Len(v) : raw[Len(h) + (Len(t) + p)] = v[p]
  BY <1>1 DEF InThree
<1> HIDE DEF n
<1>5. raw \in Seq(Nat) /\ Len(raw) = FixtureSize
  <2> DEFINE m == ValueBytes * HashBlocks
  <2>1. m \in Nat /\ FixtureSize = (16 + n) + m /\ Len(raw) = 16 + (n + m)
    BY <1>2, <1>3, <1>4
  <2> HIDE DEF m
  <2>2. n \in Nat /\ raw \in Seq(Nat)
    BY <1>2, <1>4
  <2> QED BY <2>1, <2>2
<1>6. \A p \in 1 .. 16 : raw[p] = h[p]
  BY <1>3, <1>4
<1>7. \A p \in 1 .. n : raw[16 + p] = t[p]
  BY <1>3, <1>4
<1>8. \A p \in 1 .. ValueBytes * HashBlocks : raw[16 + (n + p)] = v[p]
  BY <1>3, <1>4
<1>9. ASSUME NEW i \in 1 .. HashBlocks PROVE DescriptorAt(raw, i) = BuiltDescriptor(i)
  <2> DEFINE d == DescriptorBytesOf(i)
             o == 8 * (i - 1)
             at == HeaderBytes + DescriptorBytes * (i - 1)
  <2>1. at = 16 + o /\ o \in Nat
    BY <1>2 DEF HeaderBytes, DescriptorBytes
  <2>2. \A p \in 1 .. 8 : o + p \in 1 .. n /\ t[o + p] = d[p]
    BY PackedTable DEF t, n
  <2>3. /\ d[1] = i /\ d[2] = 0 /\ d[3] + 256 * d[4] = ValueBytes
        /\ (d[5] + 256 * d[6]) + U16Values * (d[7] + 256 * d[8]) = PlaceOf(i)
    BY PackedDescriptor
  <2> HIDE DEF d, o, at
  <2>4. ASSUME NEW p \in 1 .. 8 PROVE raw[at + p] = d[p]
    <3>1. at + p = 16 + (o + p)
      BY <2>1
    <3> QED BY <1>7, <2>2, <3>1
  <2>5. /\ raw[at + 1] = d[1] /\ raw[at + 2] = d[2] /\ raw[at + 3] = d[3] /\ raw[at + 4] = d[4]
        /\ raw[at + 5] = d[5] /\ raw[at + 6] = d[6] /\ raw[at + 7] = d[7] /\ raw[at + 8] = d[8]
    BY <2>4
  <2>6. /\ at + 2 + 1 = at + 3 /\ at + 2 + 2 = at + 4
        /\ at + 4 + 1 = at + 5 /\ at + 4 + 2 = at + 6
        /\ at + 4 + 2 + 1 = at + 7 /\ at + 4 + 2 + 2 = at + 8
    BY <2>1
  <2>7. U16At(raw, at + 2) = ValueBytes /\ U32At(raw, at + 4) = PlaceOf(i)
    BY <2>3, <2>5, <2>6 DEF U16At, U32At
  <2>8. DescriptorAt(raw, i) = [index |-> raw[at + 1], reserved |-> raw[at + 2],
                                len |-> U16At(raw, at + 2), off |-> U32At(raw, at + 4)]
    BY DEF DescriptorAt, at
  <2> QED BY <2>3, <2>5, <2>7, <2>8 DEF BuiltDescriptor
<1>10. /\ raw[1] = 77 /\ raw[2] = 83 /\ raw[3] = 82 /\ raw[4] = 49
       /\ U16At(raw, 4) = 1 /\ U16At(raw, 6) = HashBlocks
       /\ U16At(raw, 8) + U16Values * raw[11] = svn
  <2>1. /\ raw[1] = h[1] /\ raw[2] = h[2] /\ raw[3] = h[3] /\ raw[4] = h[4]
        /\ raw[5] = h[5] /\ raw[6] = h[6] /\ raw[7] = h[7] /\ raw[8] = h[8]
        /\ raw[9] = h[9] /\ raw[10] = h[10] /\ raw[11] = h[11]
    BY <1>6
  <2>2. /\ U16At(raw, 4) = h[5] + 256 * h[6] /\ U16At(raw, 6) = h[7] + 256 * h[8]
        /\ U16At(raw, 8) = h[9] + 256 * h[10]
    BY <2>1 DEF U16At
  <2> QED BY <1>1, <2>1, <2>2 DEF HeaderOf
<1>11. ASSUME NEW i \in 1 .. HashBlocks, NEW k \in 1 .. ValueBytes
       PROVE  ByteAt(raw, i, k) = i
  <2> DEFINE o == ValueBytes * (i - 1)
  <2>1. o + k \in 1 .. ValueBytes * HashBlocks /\ v[o + k] = i
    BY PackedValues DEF v
  <2>2. o \in Nat /\ (i - 1) * ValueBytes = o
    BY <1>2
  <2> HIDE DEF o
  <2>3. PlaceOf(i) + k = 16 + (n + (o + k))
    BY <1>2, <2>2 DEF PlaceOf
  <2> QED BY <1>8, <2>1, <2>3 DEF ByteAt
<1> QED BY <1>5, <1>9, <1>10, <1>11 DEF Shaped, raw

\* A byte of a value says nothing of how the file is read.
LEMMA ShapedAfter ==
    ASSUME NEW raw, NEW svn, Shaped(raw, svn), NEW x \in Nat,
           NEW at \in TableSize + 1 .. FixtureSize
    PROVE  Shaped([raw EXCEPT ![at] = x], svn)
<1> DEFINE after == [raw EXCEPT ![at] = x]
<1>1. /\ raw \in Seq(Nat) /\ Len(raw) = FixtureSize
      /\ TableSize \in Nat /\ FixtureSize \in Nat /\ HashBlocks \in Nat
      /\ TableSize = 16 + 8 * HashBlocks
  BY Places DEF Shaped
<1>2. after \in Seq(Nat) /\ Len(after) = FixtureSize
  BY <1>1
<1>3. \A p \in 1 .. TableSize : after[p] = raw[p]
  <2>1. \A p \in 1 .. TableSize : p # at /\ p \in 1 .. Len(raw)
    BY <1>1
  <2> QED BY <1>1, <2>1
<1> HIDE DEF after
<1>4. ASSUME NEW i \in 1 .. HashBlocks PROVE DescriptorAt(after, i) = DescriptorAt(raw, i)
  <2> DEFINE o == HeaderBytes + DescriptorBytes * (i - 1)
  <2>1. o = 16 + 8 * (i - 1) /\ o \in Nat
    BY <1>1 DEF HeaderBytes, DescriptorBytes
  <2> HIDE DEF o
  <2>2. o + 8 <= TableSize
    BY <1>1, <2>1
  <2>3. /\ after[o + 1] = raw[o + 1] /\ after[o + 2] = raw[o + 2]
        /\ after[o + 2 + 1] = raw[o + 2 + 1] /\ after[o + 2 + 2] = raw[o + 2 + 2]
        /\ after[o + 4 + 1] = raw[o + 4 + 1] /\ after[o + 4 + 2] = raw[o + 4 + 2]
        /\ after[o + 4 + 2 + 1] = raw[o + 4 + 2 + 1] /\ after[o + 4 + 2 + 2] = raw[o + 4 + 2 + 2]
    BY <1>1, <1>3, <2>1, <2>2
  <2> QED BY <2>3 DEF DescriptorAt, U16At, U32At, o
<1>5. /\ after[1] = raw[1] /\ after[2] = raw[2] /\ after[3] = raw[3] /\ after[4] = raw[4]
      /\ U16At(after, 4) = U16At(raw, 4) /\ U16At(after, 6) = U16At(raw, 6)
      /\ U16At(after, 8) = U16At(raw, 8) /\ after[11] = raw[11]
  <2>1. \A p \in 1 .. 16 : p \in 1 .. TableSize
    BY <1>1
  <2> QED BY <1>3, <2>1 DEF U16At
<1> QED BY <1>2, <1>4, <1>5 DEF Shaped, after


-----------------------------------------------------------------------------
(* What the two readers make of it.                                        *)

LEMMA ShapedReads ==
    ASSUME NEW raw, NEW svn, Shaped(raw, svn)
    PROVE  /\ FileOfBytes(raw) = BuiltFile(svn)
           /\ Parse(raw) = [ok |-> TRUE, blocks |-> BuiltFile(svn).desc]
<1> DEFINE count == U16At(raw, 6)
           desc == [i \in 1 .. count |-> DescriptorAt(raw, i)]
           built == [i \in 1 .. HashBlocks |-> BuiltDescriptor(i)]
<1>1. /\ raw \in Seq(Nat) /\ Len(raw) = FixtureSize /\ count = HashBlocks
      /\ U16At(raw, 4) = 1 /\ U16At(raw, 8) + U16Values * raw[11] = svn
      /\ \A i \in 1 .. HashBlocks : DescriptorAt(raw, i) = BuiltDescriptor(i)
  BY DEF Shaped
<1>2. /\ HashBlocks \in Nat /\ FixtureSize \in Nat /\ TableSize <= FixtureSize
      /\ TableSize \in Nat /\ TableSize = 16 + 8 * HashBlocks
      /\ HeaderBytes = 16 /\ HeaderBytes + DescriptorBytes * HashBlocks = TableSize
  BY Places DEF HeaderBytes, DescriptorBytes
<1>3. SubSeq(raw, 1, 4) = <<77, 83, 82, 49>>
  <2> DEFINE s == SubSeq(raw, 1, 4)
             m == <<77, 83, 82, 49>>
  <2>1. s \in Seq(Nat) /\ Len(s) = 4 /\ \A i \in 1 .. 4 : s[i] = raw[i]
    <3>1. raw \in Seq(Nat) /\ 4 <= Len(raw)
      BY <1>1, <1>2
    <3> QED BY <3>1
  <2>2. m \in Seq(Nat) /\ Len(m) = 4 /\ m[1] = 77 /\ m[2] = 83 /\ m[3] = 82 /\ m[4] = 49
    OBVIOUS
  <2>3. \A i \in 1 .. 4 : s[i] = m[i]
    <3> HIDE DEF s, m
    <3>1. s[1] = m[1] /\ s[2] = m[2] /\ s[3] = m[3] /\ s[4] = m[4]
      BY <2>1, <2>2 DEF Shaped
    <3>2. \A i \in 1 .. 4 : i = 1 \/ i = 2 \/ i = 3 \/ i = 4
      OBVIOUS
    <3> QED BY <3>1, <3>2
  <2> HIDE DEF s, m
  <2>4. s = m
    <3>1. s = [i \in 1 .. 4 |-> s[i]] /\ m = [i \in 1 .. 4 |-> m[i]]
      BY <2>1, <2>2
    <3>2. [i \in 1 .. 4 |-> s[i]] = [i \in 1 .. 4 |-> m[i]]
      BY <2>3
    <3> QED BY <3>1, <3>2
  <2> QED BY <2>4 DEF s, m
<1>4. desc = built
  BY <1>1
<1>5. ~(HeaderBytes + DescriptorBytes * count > Len(raw)) /\ ~(Len(raw) < HeaderBytes)
  BY <1>1, <1>2
<1>6. FileOfBytes(raw) = BuiltFile(svn)
  <2>1. FileOfBytes(raw) =
          [readable |-> TRUE, size |-> Len(raw), magic |-> SubSeq(raw, 1, 4) = <<77, 83, 82, 49>>,
           version |-> U16At(raw, 4) = 1, count |-> count,
           svn |-> U16At(raw, 8) + U16Values * raw[11], desc |-> desc]
    BY <1>5 DEF FileOfBytes
  <2>2. (SubSeq(raw, 1, 4) = <<77, 83, 82, 49>>) = TRUE /\ (U16At(raw, 4) = 1) = TRUE
    BY <1>1, <1>3
  <2> HIDE DEF desc, built, count
  <2>3. BuiltFile(svn) =
          [readable |-> TRUE, size |-> FixtureSize, magic |-> TRUE, version |-> TRUE,
           count |-> HashBlocks, svn |-> svn, desc |-> built]
    BY DEF BuiltFile, built
  <2> QED BY <1>1, <1>4, <2>1, <2>2, <2>3
<1>7. Parse(raw) = [ok |-> TRUE, blocks |-> BuiltFile(svn).desc]
  <2>1. ASSUME NEW i \in 1 .. count
        PROVE  /\ desc[i].reserved = 0 /\ ~(desc[i].off > Len(raw))
               /\ ~(desc[i].len > Len(raw) - desc[i].off)
    <3>1. i \in 1 .. HashBlocks
      BY <1>1
    <3>2. /\ PlaceOf(i) \in Nat /\ PlaceOf(i) + ValueBytes <= FixtureSize
          /\ ValueBytes \in Nat
      BY <3>1, Places
    <3>3. desc[i] = BuiltDescriptor(i)
      BY <1>1, <3>1
    <3>4. /\ BuiltDescriptor(i).reserved = 0 /\ BuiltDescriptor(i).off = PlaceOf(i)
          /\ BuiltDescriptor(i).len = ValueBytes
      BY DEF BuiltDescriptor
    <3> DEFINE o == PlaceOf(i)
               l == Len(raw)
    <3>5. desc[i].reserved = 0 /\ desc[i].off = o /\ desc[i].len = ValueBytes
      <4> HIDE DEF desc
      <4> QED BY <3>3, <3>4
    <3>6. o \in Nat /\ o + ValueBytes <= l /\ ValueBytes \in Nat /\ l \in Nat
      BY <1>1, <1>2, <3>2
    <3> HIDE DEF desc, o, l
    <3>7. ~(o > l) /\ ~(ValueBytes > l - o)
      BY <3>6
    <3> QED BY <3>5, <3>7 DEF l
  <2> DEFINE refused ==
               \/ Len(raw) < HeaderBytes
               \/ SubSeq(raw, 1, 4) # <<77, 83, 82, 49>> \/ U16At(raw, 4) # 1
               \/ HeaderBytes + DescriptorBytes * count > Len(raw)
               \/ \E i \in 1 .. count : desc[i].reserved # 0
                    \/ desc[i].off > Len(raw) \/ desc[i].len > Len(raw) - desc[i].off
  <2>2. ~refused
    <3> HIDE DEF desc, count
    <3> QED BY <1>1, <1>3, <1>5, <2>1
  <2>3. Parse(raw) = [ok |-> ~refused, blocks |-> IF refused THEN <<>> ELSE desc]
    BY DEF Parse
  <2>4. BuiltFile(svn).desc = built
    BY DEF BuiltFile
  <2> HIDE DEF refused, desc, built
  <2>5. (~refused) = TRUE
    BY <2>2
  <2> QED BY <1>4, <2>2, <2>3, <2>4, <2>5
<1> QED BY <1>6, <1>7

\* A responder loads it, and answers for every block from where the block lies.
LEMMA BuiltLoads ==
    ASSUME NEW svn
    PROVE  LET f == BuiltFile(svn) IN
           /\ Load(f).loaded /\ Load(f).svn = svn
           /\ \A i \in 1 .. HashBlocks :
                Answer(Load(f), <<i, ValueBytes>>) = [from |-> f, at |-> <<PlaceOf(i), ValueBytes>>]
<1> DEFINE f == BuiltFile(svn)
           m == Load(f)
<1>1. /\ f.readable = TRUE /\ f.size = FixtureSize /\ f.magic = TRUE /\ f.version = TRUE
      /\ f.count = HashBlocks /\ f.svn = svn
      /\ \A i \in 1 .. HashBlocks : f.desc[i] = BuiltDescriptor(i)
  BY DEF BuiltFile
<1>2. \A i \in 1 .. HashBlocks :
        /\ BuiltDescriptor(i).index = i /\ BuiltDescriptor(i).reserved = 0
        /\ BuiltDescriptor(i).len = ValueBytes /\ BuiltDescriptor(i).off = PlaceOf(i)
  BY DEF BuiltDescriptor
<1> HIDE DEF f
<1>3. /\ HashBlocks \in 1 .. 254 /\ ValueBytes \in Nat /\ FixtureSize \in Nat
      /\ FixtureSize <= MaxFileBytes /\ TableEnd(f) = TableSize
      /\ TableSize \in Nat /\ TableSize = 16 + 8 * HashBlocks /\ TableSize <= FixtureSize
  <2>1. MaxFileBytes = U16Values
    BY SMT DEF MaxFileBytes, U16Values
  <2>2. TableEnd(f) = 16 + HashBlocks * 8
    BY <1>1 DEF TableEnd, HeaderBytes, DescriptorBytes
  <2> QED BY <2>1, <2>2, Places
<1>4. HeaderFault(f) = "MS_OK"
  <2>1. /\ f.readable = TRUE /\ ~(f.size > MaxFileBytes) /\ ~(f.size < HeaderBytes)
        /\ f.magic = TRUE /\ f.version = TRUE /\ ~(TableEnd(f) > f.size)
    <3>1. MaxFileBytes \in Nat
      BY SMT DEF MaxFileBytes
    <3> QED BY <1>1, <1>3, <3>1 DEF HeaderBytes
  <2> QED BY <2>1 DEF HeaderFault
<1>5. ASSUME NEW i \in 1 .. HashBlocks
      PROVE  /\ DescriptorFault(f, i) = "MS_OK"
             /\ RangeOk(PlaceOf(i), ValueBytes, f.size)
  <2>1. /\ PlaceOf(i) \in Nat /\ TableSize <= PlaceOf(i)
        /\ PlaceOf(i) + ValueBytes <= FixtureSize
    BY Places
  <2>2. RangeOk(PlaceOf(i), ValueBytes, f.size)
    BY <1>1, <1>3, <2>1 DEF RangeOk
  <2>3. f.desc[i].index = i /\ i \notin {0, 255}
    BY <1>1, <1>2, <1>3
  <2>4. ~\E j \in 1 .. i - 1 : f.desc[j].index = f.desc[i].index
    <3>1. \A j \in 1 .. i - 1 : j \in 1 .. HashBlocks /\ j # i
      BY <1>3
    <3> QED BY <1>1, <1>2, <2>3, <3>1
  <2>5. /\ f.desc[i].reserved = 0 /\ f.desc[i].len = ValueBytes /\ f.desc[i].off = PlaceOf(i)
        /\ ~(f.desc[i].off < TableEnd(f))
    BY <1>1, <1>2, <1>3, <2>1
  <2> QED BY <2>2, <2>3, <2>4, <2>5 DEF DescriptorFault
<1>6. Faulty(f) = {} /\ Taken(f) = 1 .. HashBlocks
  <2>1. \A i \in 1 .. HashBlocks : \A j \in 1 .. i : j \in 1 .. HashBlocks
    BY <1>3
  <2> QED BY <1>1, <1>5, <2>1 DEF Faulty, Taken
<1>7. /\ m.loaded = TRUE /\ m.svn = svn /\ m.image = f /\ m.len = FixtureSize
      /\ m.slots = {BuiltDescriptor(i) : i \in 1 .. HashBlocks}
  <2>1. /\ m.loaded = (HeaderFault(f) = "MS_OK" /\ Faulty(f) = {})
        /\ m.svn = (IF HeaderFault(f) \in {"MS_OK", "MS_ERR_TABLE_SHORT"} THEN f.svn ELSE 0)
        /\ m.image = (IF HeaderFault(f) = "MS_OK" /\ Faulty(f) = {} THEN f ELSE NoFile)
        /\ m.len = (IF HeaderFault(f) = "MS_OK" /\ Faulty(f) = {} THEN f.size ELSE 0)
        /\ m.slots = (IF HeaderFault(f) = "MS_OK" THEN {f.desc[i] : i \in Taken(f)} ELSE {})
    BY DEF Load, Read
  <2>2. {f.desc[i] : i \in 1 .. HashBlocks} = {BuiltDescriptor(i) : i \in 1 .. HashBlocks}
    BY <1>1
  <2> QED BY <1>1, <1>4, <1>6, <2>1, <2>2
<1> HIDE DEF m
<1>8. ASSUME NEW i \in 1 .. HashBlocks
      PROVE  Answer(m, <<i, ValueBytes>>) = [from |-> f, at |-> <<PlaceOf(i), ValueBytes>>]
  <2> DEFINE q == <<i, ValueBytes>>
             s == CHOOSE s \in m.slots : s.index = q[1]
             d == BuiltDescriptor(i)
  <2>1. q # SvnQuery /\ q[1] = i /\ q[2] = ValueBytes
    <3>1. Len(q) = 2 /\ Len(SvnQuery) = 1
      BY DEF SvnQuery
    <3> QED BY <3>1
  <2>2. d \in m.slots /\ d.index = i /\ d.len = ValueBytes /\ d.off = PlaceOf(i)
    BY <1>2, <1>7
  <2>3. \A t \in m.slots : t.index = i => t = d
    BY <1>2, <1>7
  <2> HIDE DEF q, d
  <2>4. s = d
    BY <2>1, <2>2, <2>3
  <2>5. RangeOk(d.off, d.len, m.len)
    BY <1>1, <1>5, <1>7, <2>2
  <2>6. \E t \in m.slots : /\ t.index = q[1] /\ t.len = q[2] /\ RangeOk(t.off, t.len, m.len)
    BY <2>1, <2>2, <2>5
  <2>7. Answer(m, q) = [from |-> m.image, at |-> <<s.off, s.len>>]
    BY <1>7, <2>1, <2>6 DEF Answer
  <2> QED BY <1>7, <2>2, <2>4, <2>7 DEF q
<1> QED BY <1>7, <1>8 DEF f, m


-----------------------------------------------------------------------------
(* What a run of the generator leaves.                                     *)

LEMMA FlipIsOther == \A b \in Nat : Flip(b) \in Nat /\ Flip(b) # b
BY DEF Flip

\* The byte a run changes, NoFlip for none: where it was asked to, in a value.
Changes(a, at) ==
    /\ at \in Int /\ (at = NoFlip => a.block = NoFlip /\ a.byte = NoFlip)
    /\ at # NoFlip => \E i \in 1 .. HashBlocks, k \in 1 .. ValueBytes : at + 1 = PlaceOf(i) + k
    /\ a.block # NoFlip =>
         /\ a.byte = NoFlip /\ a.block \in 1 .. HashBlocks /\ a.offset + 1 \in 1 .. ValueBytes
         /\ at + 1 = PlaceOf(a.block) + (a.offset + 1)
    /\ a.block = NoFlip => at = a.byte

LEMMA ArgumentTypes ==
    ASSUME NEW a \in Arguments
    PROVE  /\ a.svn \in Nat /\ a.svn < 256 * U16Values
           /\ a.byte \in Int /\ a.block \in Int /\ a.offset \in Int /\ a.force \in BOOLEAN
<1> DEFINE top == 256 * U16Values
<1>1. a \in [svn : 0 .. top - 1, byte : Int, block : Int, offset : Int, force : BOOLEAN]
  BY FixtureAssumption
<1>2. top \in Nat
  BY DEF U16Values
<1> HIDE DEF top
<1>3. a.svn \in Nat /\ a.svn < top
  BY <1>1, <1>2
<1> QED BY <1>1, <1>3 DEF top

LEMMA GeneratedBytes ==
    ASSUME NEW a \in Arguments, Generated(a).exit = 0, ~a.force
    PROVE  \E at : /\ Changes(a, at)
                   /\ Generated(a).bytes =
                        IF at = NoFlip THEN Build(a.svn)
                        ELSE [Build(a.svn) EXCEPT ![at + 1] = Flip(@)]
<1> DEFINE raw == Build(a.svn)
           info == Parse(raw)
           match == {i \in DOMAIN info.blocks : info.blocks[i].index = a.block}
           block == info.blocks[CHOOSE i \in match : TRUE]
           at == IF a.block # NoFlip THEN block.off + a.offset ELSE a.byte
           after == IF at = NoFlip THEN raw ELSE [raw EXCEPT ![at + 1] = Flip(@)]
           refused == [exit |-> 2, bytes |-> <<>>]
<1>1. /\ a.svn \in Nat /\ a.svn < 256 * U16Values
      /\ a.byte \in Int /\ a.block \in Int /\ a.offset \in Int /\ a.force \in BOOLEAN
  BY ArgumentTypes
<1>2. Shaped(raw, a.svn)
  BY <1>1, BuildShaped
<1>3. /\ info.blocks = [i \in 1 .. HashBlocks |-> BuiltDescriptor(i)]
      /\ Len(raw) = FixtureSize
  <2>1. info = [ok |-> TRUE, blocks |-> BuiltFile(a.svn).desc]
    BY <1>2, ShapedReads
  <2>2. BuiltFile(a.svn).desc = [i \in 1 .. HashBlocks |-> BuiltDescriptor(i)]
    BY DEF BuiltFile
  <2>3. info.blocks = BuiltFile(a.svn).desc
    <3> HIDE DEF info
    <3> QED BY <2>1
  <2> HIDE DEF info
  <2> QED BY <1>2, <2>2, <2>3 DEF Shaped
<1>4. \A i \in 1 .. HashBlocks :
        /\ BuiltDescriptor(i).index = i /\ BuiltDescriptor(i).len = ValueBytes
        /\ BuiltDescriptor(i).off = PlaceOf(i)
  BY DEF BuiltDescriptor
<1>5. /\ HashBlocks \in Nat /\ ValueBytes \in Nat
      /\ \A i \in 1 .. HashBlocks : PlaceOf(i) \in Nat
  BY Places
<1> HIDE DEF raw, info
<1>6. /\ ~(a.block # NoFlip /\ match = {})
      /\ ~(a.block # NoFlip /\ a.offset \notin 0 .. block.len - 1)
      /\ ~(a.block # NoFlip /\ a.byte # NoFlip)
      /\ ~(at # NoFlip /\ at \notin 0 .. Len(raw) - 1)
      /\ ~(at # NoFlip /\ ~InValue(info, at) /\ ~a.force)
      /\ Generated(a).bytes = after
  <2>1. Generated(a) =
          IF a.block # NoFlip /\ match = {} THEN refused
          ELSE IF a.block # NoFlip /\ a.offset \notin 0 .. block.len - 1 THEN refused
          ELSE IF a.block # NoFlip /\ a.byte # NoFlip THEN refused
          ELSE IF at # NoFlip /\ at \notin 0 .. Len(raw) - 1 THEN refused
          ELSE IF at # NoFlip /\ ~InValue(info, at) /\ ~a.force THEN refused
          ELSE [exit |-> IF Parse(after).ok THEN 0 ELSE 2, bytes |-> after]
    BY DEF Generated, raw, info
  <2>2. refused.exit # 0
    OBVIOUS
  <2> HIDE DEF match, block, at, after, refused
  <2>3. [exit |-> IF Parse(after).ok THEN 0 ELSE 2, bytes |-> after].bytes = after
    OBVIOUS
  <2> QED BY <2>1, <2>2, <2>3
<1>7. ASSUME a.block # NoFlip
      PROVE  /\ a.byte = NoFlip /\ a.block \in 1 .. HashBlocks /\ a.offset + 1 \in 1 .. ValueBytes
             /\ at + 1 = PlaceOf(a.block) + (a.offset + 1) /\ at \in Nat
  <2>1. match # {} /\ a.offset \in 0 .. block.len - 1 /\ a.byte = NoFlip
    BY <1>6, <1>7
  <2>2. match = {i \in 1 .. HashBlocks : i = a.block}
    BY <1>3, <1>4
  <2>3. a.block \in 1 .. HashBlocks /\ match = {a.block}
    BY <2>1, <2>2
  <2>4. block = BuiltDescriptor(a.block)
    BY <1>3, <2>3
  <2>5. block.len = ValueBytes /\ block.off = PlaceOf(a.block)
    BY <1>4, <2>3, <2>4
  <2>6. at = PlaceOf(a.block) + a.offset
    BY <1>7, <2>5
  <2>7. a.offset \in 0 .. ValueBytes - 1 /\ PlaceOf(a.block) \in Nat
    BY <1>5, <2>1, <2>3, <2>5
  <2> HIDE DEF match, block, at
  <2> QED BY <1>5, <2>1, <2>3, <2>6, <2>7
<1>8. at \in Int /\ (a.block = NoFlip => at = a.byte)
  <2>1. CASE a.block # NoFlip
    <3> HIDE DEF at
    <3> QED BY <1>7, <2>1
  <2>2. CASE a.block = NoFlip
    BY <1>1, <2>2
  <2> QED BY <2>1, <2>2
<1>9. ASSUME at # NoFlip
      PROVE  \E i \in 1 .. HashBlocks, k \in 1 .. ValueBytes : at + 1 = PlaceOf(i) + k
  <2>1. InValue(info, at)
    <3> HIDE DEF at, match, block, after
    <3> QED BY <1>6, <1>9
  <2> HIDE DEF at
  <2>2. PICK i \in DOMAIN info.blocks :
          info.blocks[i].off <= at /\ at < info.blocks[i].off + info.blocks[i].len
    BY <2>1 DEF InValue
  <2>3. /\ i \in 1 .. HashBlocks /\ PlaceOf(i) \in Nat
        /\ PlaceOf(i) <= at /\ at < PlaceOf(i) + ValueBytes
    BY <1>3, <1>4, <1>5, <2>2
  <2> DEFINE k == at + 1 - PlaceOf(i)
  <2>4. k \in 1 .. ValueBytes /\ at + 1 = PlaceOf(i) + k
    BY <1>5, <1>8, <2>3
  <2> HIDE DEF k
  <2> QED BY <2>3, <2>4
<1>10. at = NoFlip => a.block = NoFlip /\ a.byte = NoFlip
  <2>1. a.block # NoFlip => at \in Nat
    BY <1>7
  <2> HIDE DEF at
  <2> QED BY <1>8, <2>1 DEF NoFlip
<1>11. Changes(a, at)
  <2> HIDE DEF at
  <2> QED BY <1>7, <1>8, <1>9, <1>10 DEF Changes
<1> HIDE DEF at
<1> QED BY <1>6, <1>11 DEF raw


\* Of the bytes of every value one is changed, or none.
LEMMA GeneratedShape ==
    ASSUME NEW a \in Arguments, NEW at, Changes(a, at),
           NEW raw, raw = IF at = NoFlip THEN Build(a.svn)
                          ELSE [Build(a.svn) EXCEPT ![at + 1] = Flip(@)]
    PROVE  /\ Shaped(raw, a.svn)
           /\ \A i \in 1 .. HashBlocks : \A k \in 1 .. ValueBytes :
                ByteAt(raw, i, k) # i <=> PlaceOf(i) + k = at + 1
<1> DEFINE built == Build(a.svn)
<1>1. /\ Shaped(built, a.svn)
      /\ \A i \in 1 .. HashBlocks : \A k \in 1 .. ValueBytes : ByteAt(built, i, k) = i
  <2>1. a.svn \in Nat /\ a.svn < 256 * U16Values
    BY ArgumentTypes
  <2> QED BY <2>1, BuildShaped
<1>2. /\ HashBlocks \in Nat /\ ValueBytes \in Nat /\ TableSize \in Nat /\ FixtureSize \in Nat
      /\ \A i \in 1 .. HashBlocks :
           PlaceOf(i) \in Nat /\ TableSize <= PlaceOf(i) /\ PlaceOf(i) + ValueBytes <= FixtureSize
  BY Places
<1> HIDE DEF built
<1>3. CASE at = NoFlip
  <2>1. raw = built
    BY <1>3 DEF built
  <2>2. \A i \in 1 .. HashBlocks : \A k \in 1 .. ValueBytes : PlaceOf(i) + k # at + 1
    BY <1>2, <1>3 DEF NoFlip
  <2> QED BY <1>1, <2>1, <2>2
<1>4. CASE at # NoFlip
  <2>1. PICK j \in 1 .. HashBlocks, l \in 1 .. ValueBytes : at + 1 = PlaceOf(j) + l
    BY <1>4 DEF Changes
  <2> DEFINE p == PlaceOf(j) + l
             x == Flip(built[p])
  <2>2. p \in TableSize + 1 .. FixtureSize
    BY <1>2
  <2>3. built \in Seq(Nat) /\ Len(built) = FixtureSize /\ built[p] = j
    BY <1>1 DEF Shaped, ByteAt
  <2>4. x \in Nat /\ x # j
    BY <1>2, <2>3, FlipIsOther
  <2>5. raw = [built EXCEPT ![p] = x]
    BY <1>4, <2>1 DEF built
  <2> HIDE DEF x
  <2>6. Shaped(raw, a.svn)
    <3> HIDE DEF p
    <3> QED BY <1>1, <2>2, <2>4, <2>5, ShapedAfter
  <2>7. ASSUME NEW i \in 1 .. HashBlocks, NEW k \in 1 .. ValueBytes
        PROVE  ByteAt(raw, i, k) # i <=> PlaceOf(i) + k = at + 1
    <3> DEFINE q == PlaceOf(i) + k
    <3>1. q \in 1 .. Len(built) /\ built[q] = i
      BY <1>1, <1>2, <2>3 DEF ByteAt
    <3>2. raw[q] = IF q = p THEN x ELSE built[q]
      <4> HIDE DEF p, q
      <4> QED BY <2>3, <2>5, <3>1
    <3>3. q = p => i = j
      BY PlacesApart
    <3>4. at + 1 = p /\ ByteAt(raw, i, k) = raw[q]
      BY <2>1 DEF ByteAt
    <3> HIDE DEF p, q
    <3>5. (raw[q] # i) <=> (q = p)
      BY <2>4, <3>1, <3>2, <3>3
    <3> QED BY <3>4, <3>5 DEF q
  <2> QED BY <2>6, <2>7
<1> QED BY <1>3, <1>4


\* What GeneratedIsAnswered says of one run that reports a file written.
DifferAt(bytes, i, got) ==
    {k \in 1 .. ValueBytes : SubSeq(bytes, got.at[1] + 1, got.at[1] + ValueBytes)[k] # i}

AnsweredAs(a, bytes) ==
    LET m == Load(FileOfBytes(bytes))
        Got(i) == Answer(m, <<i, ValueBytes>>)
        Differ(i) == DifferAt(bytes, i, Got(i))
    IN /\ m.loaded /\ m.svn = a.svn
       /\ \A i \in 1 .. HashBlocks :
            /\ Got(i) # Refusal
            /\ a.block # NoFlip => Differ(i) = IF i = a.block THEN {a.offset + 1} ELSE {}
       /\ a.byte # NoFlip =>
            Cardinality(UNION {{<<i, k>> : k \in Differ(i)} : i \in 1 .. HashBlocks}) = 1
       /\ a.byte = NoFlip /\ a.block = NoFlip => \A i \in 1 .. HashBlocks : Differ(i) = {}

LEMMA GeneratedAnswers ==
    ASSUME NEW a \in Arguments, NEW bytes, bytes = Generated(a).bytes,
           Generated(a).exit = 0, ~a.force
    PROVE  AnsweredAs(a, bytes)
<1> DEFINE m == Load(FileOfBytes(bytes))
           Got(i) == Answer(m, <<i, ValueBytes>>)
           Differ(i) == DifferAt(bytes, i, Got(i))
<1>1. PICK at : /\ Changes(a, at)
                /\ bytes = IF at = NoFlip THEN Build(a.svn)
                           ELSE [Build(a.svn) EXCEPT ![at + 1] = Flip(@)]
  BY GeneratedBytes
<1>2. /\ Shaped(bytes, a.svn)
      /\ \A i \in 1 .. HashBlocks : \A k \in 1 .. ValueBytes :
           ByteAt(bytes, i, k) # i <=> PlaceOf(i) + k = at + 1
  BY <1>1, GeneratedShape
<1>3. FileOfBytes(bytes) = BuiltFile(a.svn)
  BY <1>2, ShapedReads
<1>4. /\ m.loaded /\ m.svn = a.svn
      /\ \A i \in 1 .. HashBlocks :
           Got(i) = [from |-> BuiltFile(a.svn), at |-> <<PlaceOf(i), ValueBytes>>]
  BY <1>3, BuiltLoads
<1> HIDE DEF m
<1>5. /\ bytes \in Seq(Nat) /\ Len(bytes) = FixtureSize
      /\ ValueBytes \in Nat /\ HashBlocks \in Nat /\ FixtureSize \in Nat
      /\ \A i \in 1 .. HashBlocks : PlaceOf(i) \in Nat /\ PlaceOf(i) + ValueBytes <= FixtureSize
  <2>1. bytes \in Seq(Nat) /\ Len(bytes) = FixtureSize
    BY <1>2 DEF Shaped
  <2>2. /\ ValueBytes \in Nat /\ HashBlocks \in Nat /\ FixtureSize \in Nat
        /\ \A i \in 1 .. HashBlocks :
             PlaceOf(i) \in Nat /\ PlaceOf(i) + ValueBytes <= FixtureSize
    BY Places
  <2> QED BY <2>1, <2>2
<1>6. ASSUME NEW i \in 1 .. HashBlocks
      PROVE  /\ Got(i) # Refusal
             /\ Differ(i) = {k \in 1 .. ValueBytes : PlaceOf(i) + k = at + 1}
  <2> DEFINE g == Got(i)
             o == PlaceOf(i)
             s == SubSeq(bytes, o + 1, o + ValueBytes)
  <2>1. g.at = <<o, ValueBytes>>
    <3>1. g = [from |-> BuiltFile(a.svn), at |-> <<o, ValueBytes>>]
      BY <1>4
    <3> HIDE DEF g, o
    <3> QED BY <3>1
  <2>2. g # Refusal
    <3>1. Len(<<o, ValueBytes>>) = 2 /\ Len(Refusal.at) = 0
      BY DEF Refusal
    <3> HIDE DEF g, o
    <3> QED BY <2>1, <3>1
  <2>3. o \in Nat /\ o + ValueBytes <= FixtureSize
    BY <1>5
  <2>4. \A k \in 1 .. ValueBytes : s[k] = ByteAt(bytes, i, k)
    <3> DEFINE x == o + 1
               y == o + ValueBytes
    <3>1. x \in 1 .. Len(bytes) + 1 /\ y \in x - 1 .. Len(bytes) /\ y - x + 1 = ValueBytes
      <4> HIDE DEF o
      <4> QED BY <1>5, <2>3
    <3> HIDE DEF x, y, o
    <3>2. Slice(bytes, x, y)
      BY <1>5, <3>1, SliceOf
    <3>3. s = [k \in 1 .. y - x + 1 |-> bytes[x + k - 1]]
      BY <3>2 DEF Slice, x, y
    <3>4. \A k \in 1 .. ValueBytes : x + k - 1 = o + k
      BY <1>5, <2>3 DEF x
    <3> HIDE DEF s
    <3>5. \A k \in 1 .. ValueBytes : s[k] = bytes[o + k]
      BY <3>1, <3>3, <3>4
    <3> QED BY <3>5 DEF ByteAt, o
  <2>5. Differ(i) = {k \in 1 .. ValueBytes : s[k] # i}
    <3>1. g.at[1] = o
      <4> HIDE DEF g, o
      <4> QED BY <2>1
    <3> QED BY <3>1 DEF DifferAt
  <2> HIDE DEF s, o, g
  <2>6. \A k \in 1 .. ValueBytes : s[k] # i <=> PlaceOf(i) + k = at + 1
    BY <1>2, <2>4
  <2> HIDE DEF Differ, Got
  <2>7. Differ(i) = {k \in 1 .. ValueBytes : PlaceOf(i) + k = at + 1}
    BY <2>5, <2>6
  <2> QED BY <2>2, <2>7 DEF g
<1> HIDE DEF Got, Differ
<1>7. ASSUME a.block # NoFlip, NEW i \in 1 .. HashBlocks
      PROVE  Differ(i) = IF i = a.block THEN {a.offset + 1} ELSE {}
  <2>1. /\ a.block \in 1 .. HashBlocks /\ a.offset + 1 \in 1 .. ValueBytes
        /\ at + 1 = PlaceOf(a.block) + (a.offset + 1)
    BY <1>1, <1>7 DEF Changes
  <2>2. \A k \in 1 .. ValueBytes :
          PlaceOf(i) + k = at + 1 <=> i = a.block /\ k = a.offset + 1
    BY <2>1, PlacesApart
  <2> QED BY <1>6, <2>1, <2>2
<1>8. ASSUME a.byte # NoFlip
      PROVE  Cardinality(UNION {{<<i, k>> : k \in Differ(i)} : i \in 1 .. HashBlocks}) = 1
  <2> DEFINE U == UNION {{<<i, k>> : k \in Differ(i)} : i \in 1 .. HashBlocks}
  <2>1. at # NoFlip
    BY <1>1, <1>8 DEF Changes
  <2>2. PICK j \in 1 .. HashBlocks, l \in 1 .. ValueBytes : at + 1 = PlaceOf(j) + l
    BY <1>1, <2>1 DEF Changes
  <2>3. \A i \in 1 .. HashBlocks, k \in 1 .. ValueBytes :
          PlaceOf(i) + k = at + 1 <=> i = j /\ k = l
    BY <2>2, PlacesApart
  <2>4. \A i \in 1 .. HashBlocks : Differ(i) = {k \in 1 .. ValueBytes : i = j /\ k = l}
    BY <1>6, <2>3
  <2>5. U = {<<j, l>>}
    BY <2>2, <2>4
  <2> HIDE DEF U
  <2>6. Cardinality(U) = 1
    BY <2>5, FS_Singleton
  <2> QED BY <2>6 DEF U
<1>9. ASSUME a.byte = NoFlip, a.block = NoFlip, NEW i \in 1 .. HashBlocks
      PROVE  Differ(i) = {}
  <2>1. at = NoFlip
    BY <1>1, <1>9 DEF Changes
  <2>2. \A k \in 1 .. ValueBytes : PlaceOf(i) + k # at + 1
    BY <1>5, <2>1 DEF NoFlip
  <2> QED BY <1>6, <2>2
<1> QED BY <1>4, <1>6, <1>7, <1>8, <1>9 DEF m, Got, Differ, AnsweredAs

-----------------------------------------------------------------------------
(* The invariants of generator and loader together.                        *)

LEMMA LoadedAgain == \A f : Load(f).loaded => Load(f) = Load(Load(f).image)
<1> SUFFICES ASSUME NEW f, Load(f).loaded PROVE Load(f).image = f
  OBVIOUS
<1>1. Load(f).loaded = (HeaderFault(f) = "MS_OK" /\ Faulty(f) = {})
  BY LoadFields
<1>2. Load(f).image = IF HeaderFault(f) = "MS_OK" /\ Faulty(f) = {} THEN f ELSE NoFile
  BY LoadFields
<1> QED BY <1>1, <1>2

LEMMA ImageStep ==
    ASSUME ImageInv, ms' \in {ms, Fresh, LoadNamed} PROVE ImageInv'
<1>1. ~Fresh.loaded /\ ~LoadNothing.loaded
  BY DEF Fresh, LoadNothing
<1>2. CASE ms' = ms
  BY <1>2 DEF ImageInv
<1>3. CASE ms' = Fresh
  BY <1>1, <1>3 DEF ImageInv
<1>4. CASE ms' = LoadNamed
  BY <1>1, <1>4, LoadedAgain DEF ImageInv, LoadNamed
<1> QED BY <1>2, <1>3, <1>4


LEMMA FixtureStep == FixtureInv /\ [FixtureNext]_fixtureVars => FixtureInv'
<1> SUFFICES ASSUME FixtureInv, [FixtureNext]_fixtureVars PROVE FixtureInv'
  OBVIOUS
<1>1. MadeInv /\ ImageInv /\ AnswersInv
  BY DEF FixtureInv
<1>2. CASE Generate
  <2>1. PICK a \in Arguments :
          made' = [args |-> {a}, exit |-> Generated(a).exit, bytes |-> Generated(a).bytes]
    BY <1>2 DEF Generate
  <2>2. MadeInv'
    BY <2>1 DEF MadeInv
  <2>3. ms' = ms /\ answers' = answers
    BY <1>2 DEF Generate
  <2> QED BY <1>1, <2>2, <2>3 DEF FixtureInv, ImageInv, AnswersInv
<1>3. CASE Next /\ UNCHANGED made
  <2>1. MadeInv'
    BY <1>1, <1>3 DEF MadeInv
  <2>2. ms' \in {ms, Fresh, LoadNamed}
    BY <1>3 DEF Next, FileChanges, LoadCalled, Reset, GetBlock, GetSvn, Asked, IsLoaded, Ensure
  <2>3. ImageInv'
    BY <1>1, <2>2, ImageStep
  <2> QED BY <1>1, <1>3, <2>1, <2>3, AnswersStep DEF FixtureInv
<1>4. CASE UNCHANGED fixtureVars
  BY <1>1, <1>4 DEF fixtureVars, vars, FixtureInv, MadeInv, ImageInv, AnswersInv
<1> QED BY <1>2, <1>3, <1>4 DEF FixtureNext

\* For any number of blocks, bytes of a value and arguments, in whatever order the
\* file is generated, changed, loaded and asked of.
THEOREM FixtureInductive == FixtureSpec => []FixtureInv
<1>1. FixtureInit => FixtureInv
  BY DEF FixtureInit, Init, Fresh, FixtureInv, MadeInv, ImageInv, AnswersInv
<1> QED BY <1>1, FixtureStep, PTL DEF FixtureSpec

\* What the generator reports written, the responder answers from: every block, with
\* the one byte changed that was asked for (gen_measurements.py against
\* measurement_source.c).
THEOREM GeneratedHolds == FixtureSpec => []GeneratedIsAnswered
<1>1. FixtureInv => GeneratedIsAnswered
  <2> SUFFICES ASSUME FixtureInv, made.exit = 0, made.bytes # <<>>,
                      NEW a \in made.args, ~a.force
               PROVE  /\ AnsweredAs(a, made.bytes)
                      /\ ms.loaded /\ ms.image = FileOfBytes(made.bytes) =>
                           \A q \in answers :
                             q.got = Answer(Load(FileOfBytes(made.bytes)), q.ask)
    BY DEF GeneratedIsAnswered, AnsweredAs, DifferAt
  <2>1. PICK b \in Arguments :
          made = [args |-> {b}, exit |-> Generated(b).exit, bytes |-> Generated(b).bytes]
    BY DEF FixtureInv, MadeInv
  <2>2. a = b /\ made.bytes = Generated(a).bytes /\ Generated(a).exit = 0
    BY <2>1
  <2>3. ASSUME ms.loaded, ms.image = FileOfBytes(made.bytes), NEW q \in answers
        PROVE  q.got = Answer(Load(FileOfBytes(made.bytes)), q.ask)
    <3>1. ms = Load(FileOfBytes(made.bytes))
      BY <2>3 DEF FixtureInv, ImageInv
    <3>2. q.got = Answer(ms, q.ask)
      BY DEF FixtureInv, AnswersInv
    <3> QED BY <3>1, <3>2
  <2> DEFINE bytes == made.bytes
  <2>4. bytes = Generated(a).bytes /\ a \in Arguments
    BY <2>2
  <2> HIDE DEF bytes
  <2> QED BY <2>2, <2>3, <2>4, GeneratedAnswers DEF bytes
<1> QED BY <1>1, FixtureInductive, PTL

\* The generator is one of those who write the file: a behaviour of both is one of
\* the loader beside some writer, so all that holds of the loader holds of it.
THEOREM GeneratorIsAWriter == FixtureSpec => Spec
<1>1. FixtureInit => Init /\ file \in Files
  BY DEF FixtureInit, Init
<1>2. file \in Files /\ [FixtureNext]_fixtureVars => (file \in Files)' /\ [Next]_vars
  <2> SUFFICES ASSUME file \in Files, [FixtureNext]_fixtureVars
               PROVE  file' \in Files /\ [Next]_vars
    OBVIOUS
  <2>1. CASE Generate
    <3>1. PICK a \in Arguments :
            file' = IF Generated(a).bytes = <<>> THEN file ELSE FileOfBytes(Generated(a).bytes)
      BY <2>1 DEF Generate
    <3>2. Generated(a).bytes # <<>> => FileOfBytes(Generated(a).bytes) \in Files
      BY WritesAssumption DEF GeneratedFiles
    <3>3. file' \in Files
      BY <3>1, <3>2
    <3> QED BY <2>1, <3>3 DEF Generate, Next, FileChanges
  <2>2. CASE Next /\ UNCHANGED made
    BY <2>2 DEF Next, FileChanges, LoadCalled, Reset, GetBlock, GetSvn, Asked, IsLoaded
  <2>3. CASE UNCHANGED fixtureVars
    BY <2>3 DEF fixtureVars, vars
  <2> QED BY <2>1, <2>2, <2>3 DEF FixtureNext
<1> QED BY <1>1, <1>2, PTL DEF FixtureSpec, Spec

\* So a file the generator wrote, forced or not, is loaded soundly or not at all, and
\* all answers are of one file.
THEOREM LoaderBesideGenerator == FixtureSpec => [](LoadedIsSound /\ OneSource)
BY GeneratorIsAWriter, LoadedHolds, OneSourceHolds, PTL
=============================================================================
