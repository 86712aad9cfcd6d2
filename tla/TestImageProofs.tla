---------------------------- MODULE TestImageProofs ----------------------------
(* A test image is loaded as its files say, its dump has no more sections of   *)
(* memory than the maximum, and a run that loads the dump finds the memory     *)
(* again: for every size of memory, of its blocks and of the file's blocks.    *)
EXTENDS TestImage, Induction, FiniteSetTheorems

-----------------------------------------------------------------------------
(* Division *)

LEMMA Products ==
  ASSUME NEW K \in Nat \ {0}, NEW d \in Int
  PROVE  /\ d * K \in Int
         /\ d >= 0 => d * K >= 0
         /\ d >= 1 => d * K >= K
         /\ d <= -1 => d * K <= -K
  OBVIOUS

LEMMA Division ==
  ASSUME NEW x \in Int, NEW K \in Nat \ {0}
  PROVE  /\ x \div K \in Int /\ x % K \in 0 .. K - 1
         /\ x = (x \div K) * K + (x % K)
         /\ x \in Nat => x \div K \in Nat
  OBVIOUS

LEMMA DivisionUnique ==
  ASSUME NEW x \in Int, NEW K \in Nat \ {0}, NEW q \in Int, NEW r \in 0 .. K - 1,
         x = q * K + r
  PROVE  x \div K = q /\ x % K = r
  <1> DEFINE p == x \div K
             s == x % K
             d == p - q
  <1>1. p \in Int /\ s \in 0 .. K - 1 /\ x = p * K + s
    BY Division
  <1> HIDE DEF p, s
  <1>2. d \in Int /\ d * K = p * K - q * K
    BY <1>1
  <1>3. d * K = r - s
    BY <1>1, <1>2, Products
  <1>4. d >= 1 => d * K >= K
    BY <1>2, Products
  <1>5. d <= -1 => d * K <= -K
    BY <1>2, Products
  <1>6. r - s < K /\ r - s > -K
    BY <1>1
  <1> HIDE DEF d
  <1>7. d = 0
    BY <1>2, <1>3, <1>4, <1>5, <1>6
  <1>8. p = q
    BY <1>1, <1>7 DEF d
  <1>9. s = r
    BY <1>1, <1>8, Products
  <1> QED
    BY <1>8, <1>9 DEF p, s

\* a multiple of K, and what is K times a divisor
LEMMA Multiple ==
  ASSUME NEW x \in Int, NEW K \in Nat \ {0}, x % K = 0
  PROVE  x \div K \in Int /\ x = (x \div K) * K
  BY Division

LEMMA Associative ==
  ASSUME NEW x \in Int, NEW y \in Int, NEW z \in Int
  PROVE  (x * y) * z = x * (y * z) /\ (x + y) * z = x * z + y * z /\ (x - y) * z = x * z - y * z
  OBVIOUS

LEMMA Constants ==
  /\ Size \in Nat \ {0} /\ BlockSize \in Nat \ {0} /\ MaxSections \in Nat \ {0, 1}
  /\ Size % BlockSize = 0 /\ Addresses \subseteq Nat /\ Storage \subseteq Nat
  /\ Addresses \subseteq Storage
  BY TestImageAssumption DEF Addresses, Storage

\* writing a section block by block puts its bytes one after the other; if it begins with
\* a block of memory, its blocks are those of memory
LEMMA TargetIsPlace ==
  ASSUME NEW A \in Nat, NEW n \in Nat, n <= Size,
         A % BlockSize = 0 \/ (A % Size) + n <= Size,
         NEW i \in 1 .. n
  PROVE  /\ Target(A, i) = (A + (i - 1)) % Size
         /\ A % BlockSize = 0 => BlockStart(A, i) = Masked((A + (i - 1)) % Size, BlockSize)
  <1> DEFINE q == (i - 1) \div BlockSize
             r == (i - 1) % BlockSize
             x == A + q * BlockSize
  <1>0. i - 1 \in Nat /\ i - 1 \in Int /\ i - 1 < n
    OBVIOUS
  <1>1. q \in Nat /\ r \in 0 .. BlockSize - 1 /\ i - 1 = q * BlockSize + r
    BY <1>0, Constants, Division
  <1>2. Target(A, i) = (x % Size) + r /\ BlockStart(A, i) = x % Size
    BY DEF Target, BlockStart
  <1> HIDE DEF q, r
  <1>3. q * BlockSize \in Nat
    BY <1>1, Constants
  <1>4. x \in Int /\ A + (i - 1) = x + r /\ A + (i - 1) \in Int
    BY <1>1, <1>3
  <1>5. CASE A % BlockSize = 0
    <2> DEFINE al == A \div BlockSize
               K  == Size \div BlockSize
               c  == (al + q) \div K
               m  == (al + q) % K
    <2>1. al \in Int /\ A = al * BlockSize
      BY <1>5, Constants, Multiple
    <2>2. K \in Nat /\ Size = K * BlockSize
      <3>1. Size \in Nat /\ Size \in Int
        BY Constants
      <3>2. K \in Nat
        BY <3>1, Constants, Division
      <3> QED
        BY <3>1, <3>2, Constants, Multiple
    <2> HIDE DEF al, K
    <2>3. K \in Nat \ {0}
      BY <2>2, Constants
    <2>4. al + q \in Int /\ c \in Int /\ m \in 0 .. K - 1 /\ al + q = c * K + m
      <3>1. al + q \in Int
        BY <1>1, <2>1
      <3> QED
        BY <2>3, <3>1, Division
    <2> HIDE DEF c, m
    <2>5. x = (al + q) * BlockSize
      BY <1>1, <2>1, Constants, Associative
    <2>6. (al + q) * BlockSize = c * Size + m * BlockSize
      <3>1. (c * K + m) * BlockSize = (c * K) * BlockSize + m * BlockSize
        BY <2>3, <2>4, Constants, Associative
      <3>2. (c * K) * BlockSize = c * Size
        BY <2>2, <2>4, Constants, Associative
      <3> QED
        BY <2>4, <3>1, <3>2
    <2>7. m * BlockSize \in Nat /\ m * BlockSize + BlockSize <= Size
      <3>1. (K - m) * BlockSize >= BlockSize
        BY <2>3, <2>4, Constants, Products
      <3>2. (K - m) * BlockSize = Size - m * BlockSize
        BY <2>2, <2>4, Constants, Associative
      <3>3. m * BlockSize \in Nat
        BY <2>4, Constants, Products
      <3> QED
        BY <3>1, <3>2, <3>3, Constants
    <2> DEFINE y == m * BlockSize
    <2>8. y \in 0 .. Size - 1 /\ y + r \in 0 .. Size - 1
      BY <1>1, <2>7, Constants
    <2>9. x = c * Size + y /\ A + (i - 1) = c * Size + (y + r)
      <3>1. c * Size \in Int
        BY <2>4, Constants
      <3> QED
        BY <1>1, <1>4, <2>5, <2>6, <2>8, <3>1
    <2> HIDE DEF y, x
    <2>10. x % Size = y
      <3>1. x \in Int /\ Size \in Nat \ {0} /\ c \in Int /\ y \in 0 .. Size - 1
        BY <1>4, <2>4, <2>8, <2>9, Constants
      <3>2. x = c * Size + y
        BY <2>9
      <3> QED
        BY <3>1, <3>2, DivisionUnique
    <2>11. (A + (i - 1)) % Size = y + r
      <3>1. (A + (i - 1)) \in Int /\ Size \in Nat \ {0} /\ c \in Int /\ y + r \in 0 .. Size - 1
        BY <1>4, <2>4, <2>8, <2>9, Constants
      <3>2. (A + (i - 1)) = c * Size + (y + r)
        BY <2>9
      <3> QED
        BY <3>1, <3>2, DivisionUnique
    <2>12. Masked(y + r, BlockSize) = y
      <3>1. y + r \in Int /\ m \in Int /\ y + r = m * BlockSize + r
        BY <2>4, <2>7, <2>8 DEF y
      <3>2. (y + r) \div BlockSize = m
        BY <1>1, <3>1, Constants, DivisionUnique
      <3> QED
        BY <3>2 DEF Masked, y
    <2> QED
      BY <1>2, <2>10, <2>11, <2>12
  <1>6. CASE ~ (A % BlockSize = 0) /\ (A % Size) + n <= Size
    <2> DEFINE c == A \div Size
               m == A % Size
    <2>1. c \in Int /\ m \in Nat /\ A = c * Size + m /\ m + n <= Size
      BY <1>6, Constants, Division
    <2> HIDE DEF c, m
    <2> DEFINE y == m + q * BlockSize
    <2>2. y \in 0 .. Size - 1 /\ y + r \in 0 .. Size - 1
      BY <1>1, <1>3, <2>1, Constants
    <2>3. x = c * Size + y /\ A + (i - 1) = c * Size + (y + r)
      <3>1. c * Size \in Int
        BY <2>1, Constants
      <3> QED
        BY <1>1, <1>3, <2>1, <3>1
    <2> HIDE DEF y, x
    <2>4. x % Size = y
      <3>1. x \in Int /\ Size \in Nat \ {0} /\ c \in Int /\ y \in 0 .. Size - 1
        BY <1>4, <2>1, <2>2, <2>3, Constants
      <3>2. x = c * Size + y
        BY <2>3
      <3> QED
        BY <3>1, <3>2, DivisionUnique
    <2>5. (A + (i - 1)) % Size = y + r
      <3>1. (A + (i - 1)) \in Int /\ Size \in Nat \ {0} /\ c \in Int /\ y + r \in 0 .. Size - 1
        BY <1>4, <2>1, <2>2, <2>3, Constants
      <3>2. (A + (i - 1)) = c * Size + (y + r)
        BY <2>3
      <3> QED
        BY <3>1, <3>2, DivisionUnique
    <2> QED
      BY <1>2, <1>6, <2>4, <2>5
  <1> QED
    BY <1>5, <1>6

LEMMA PlaceInverse ==
  ASSUME NEW A \in Nat, NEW a \in Addresses, NEW j \in 0 .. Size - 1
  PROVE  (A + j) % Size = a <=> (a - A) % Size = j
  <1>1. ASSUME (A + j) % Size = a PROVE (a - A) % Size = j
    <2> DEFINE c == (A + j) \div Size
    <2>1. c \in Int /\ A + j = c * Size + a /\ a \in Int
      BY <1>1, Constants, Division
    <2> HIDE DEF c
    <2>2. c * Size \in Int /\ (0 - c) * Size = 0 - (c * Size)
      BY <2>1, Constants, Associative, Products
    <2>3. a - A = (0 - c) * Size + j /\ a - A \in Int /\ 0 - c \in Int
      BY <2>1, <2>2
    <2> QED
      BY <2>3, Constants, DivisionUnique
  <1>2. ASSUME (a - A) % Size = j PROVE (A + j) % Size = a
    <2> DEFINE c == (a - A) \div Size
    <2>1. c \in Int /\ a - A = c * Size + j /\ a \in Int
      BY <1>2, Constants, Division
    <2> HIDE DEF c
    <2>2. c * Size \in Int /\ (0 - c) * Size = 0 - (c * Size)
      BY <2>1, Constants, Associative, Products
    <2> DEFINE z == c * Size
    <2>3. A + j = (0 - c) * Size + a /\ A + j \in Int /\ 0 - c \in Int
      <3>1. z \in Int /\ a - A = z + j /\ (0 - c) * Size = 0 - z
        BY <2>1, <2>2
      <3> HIDE DEF z
      <3>2. A + j = (0 - z) + a /\ A + j \in Int /\ 0 - c \in Int
        BY <2>1, <3>1
      <3> QED
        BY <3>1, <3>2
    <2>4. a \in 0 .. Size - 1
      BY DEF Addresses
    <2> QED
      BY <2>3, <2>4, Constants, DivisionUnique
  <1> QED
    BY <1>1, <1>2

-----------------------------------------------------------------------------
(* The inductive invariant *)

File == {Missing} \cup Seq(Section)

\* section j of file g has a byte for address a
Covers(g, j, a) ==
    /\ g \in 1 .. Len(image) /\ image[g] # Missing /\ j \in 1 .. Len(image[g])
    /\ Gives(image[g][j], a)

ByteFor(g, j, a) == image[g][j].data[Place(a, image[g][j]) + 1]

\* f files have been opened and k sections of the last of them are loaded
Progress(f, k) ==
    /\ f \in 0 .. Len(image) /\ Len(files) = Len(image) - f
    /\ \A i \in 1 .. Len(files) : files[i] = image[f + i]
    /\ f = 0 => k = 0 /\ Len(sections) = 0
    /\ f # 0 => /\ image[f] # Missing /\ k \in 0 .. Len(image[f])
                /\ Len(sections) = Len(image[f]) - k
                /\ \A i \in 1 .. Len(sections) : sections[i] = image[f][k + i]

Before(g, j, f, k) == g < f \/ (g = f /\ j <= k)

\* what memory then has at address a
LoadedSoFar(f, k, a) ==
    \/ a \in free /\ \A g, j \in Nat : Before(g, j, f, k) => ~Covers(g, j, a)
    \/ /\ a \notin free
       /\ \E g, j \in Nat :
             /\ Before(g, j, f, k) /\ Covers(g, j, a) /\ ram[a] = ByteFor(g, j, a)
             /\ \A h, i \in Nat : Before(h, i, f, k) /\ Covers(h, i, a) => Before(h, i, g, j)

Loading == \E f, k \in Nat : Progress(f, k) /\ \A a \in Addresses : LoadedSoFar(f, k, a)

\* the last section of the dump that gives a block its bytes has those that are found
DumpSaves ==
    \A a \in Addresses \ saved.free : ~Shadowed(a) =>
        \E i \in 1 .. Len(dump) :
            /\ Gives(dump[i], a) /\ \A j \in 1 .. Len(dump) : Gives(dump[j], a) => j <= i
            /\ dump[i].data[Place(a, dump[i]) + 1]
                   = saved.ram[IF a < BlockSize /\ BehindInUse THEN Size + a ELSE a]

TypeInv ==
    /\ phase \in {"load", "run", "signature", "dump", "reload", "done"}
    /\ image \in Seq(File) /\ files \in Seq(File) /\ sections \in Seq(Section)
    /\ \A g \in 1 .. Len(image) : image[g] # Missing =>
           \A j \in 1 .. Len(image[g]) : StaysInMemory(image[g][j])
    /\ ram \in [Storage -> Byte] /\ free \subseteq Storage
    /\ dump \in Seq(Section)
    /\ \A i \in 1 .. Len(dump) : Loadable(dump[i]) /\ StaysInMemory(dump[i])
    /\ rerun \in BOOLEAN

Inv ==
    /\ TypeInv
    /\ phase = "load" \/ (phase = "done" /\ rerun) => Loading
    /\ phase = "done" /\ rerun => files = <<>> /\ sections = <<>>
    /\ rerun => /\ phase \in {"load", "done"}
                /\ image = <<IF SectionCount(dump) = 0 THEN <<>> ELSE dump>>
    /\ phase = "reload" \/ rerun => DumpSaves

-----------------------------------------------------------------------------
(* Loading *)

LEMMA MaxOfOne ==
  ASSUME NEW x \in Int
  PROVE  Max({x}) = x
  <1>1. x >= x
    OBVIOUS
  <1> QED
    BY <1>1 DEF Max

\* the bytes of a section that are written to an address
Written(s, a) ==
    {i \in 1 .. Len(s.data) : ~ToDevice(s.address, i) /\ Target(s.address, i) = a}

LEMMA WrittenOnce ==
  ASSUME NEW s \in Section, StaysInMemory(s), NEW a \in Addresses, Loadable(s)
  PROVE  /\ Place(a, s) \in Nat
         /\ Gives(s, a) => Written(s, a) = {Place(a, s) + 1}
         /\ ~Gives(s, a) => Written(s, a) = {}
  <1> DEFINE A == s.address
             n == Len(s.data)
             p == (a - A) % Size
  <1>1. A \in Nat /\ n \in Nat
    BY DEF Section
  <1>2. n <= Size /\ (A % BlockSize = 0 \/ (A % Size) + n <= Size)
    BY DEF StaysInMemory
  <1>3. /\ Place(a, s) = p
        /\ Written(s, a) = {i \in 1 .. n : ~ToDevice(A, i) /\ Target(A, i) = a}
        /\ Gives(s, a) <=> p < n /\ ~ToDevice(A, p + 1)
    BY DEF Place, Written, Gives
  <1> HIDE DEF A, n
  <1>4. a \in Int /\ a - A \in Int /\ p \in 0 .. Size - 1
    BY <1>1, Constants, Division
  <1>5. ASSUME NEW i \in 1 .. n PROVE Target(A, i) = a <=> p = i - 1
    <2>1. Target(A, i) = (A + (i - 1)) % Size
      BY <1>1, <1>2, TargetIsPlace
    <2>2. i - 1 \in 0 .. Size - 1
      BY <1>1, <1>2, Constants
    <2>3. (A + (i - 1)) % Size = a <=> (a - A) % Size = i - 1
      BY <1>1, <2>2, PlaceInverse
    <2> QED
      BY <2>1, <2>3
  <1> HIDE DEF p
  <1>6. p \in Nat
    BY <1>4, Constants
  <1>7. \A i \in 1 .. n : Target(A, i) = a <=> i = p + 1
    BY <1>1, <1>5, <1>6
  <1>8. p < n => p + 1 \in 1 .. n
    BY <1>1, <1>6
  <1>9. ~ (p < n) => p + 1 \notin 1 .. n
    BY <1>1, <1>6
  <1>10. ASSUME Gives(s, a) PROVE Written(s, a) = {p + 1}
    BY <1>3, <1>7, <1>8, <1>10
  <1>11. ASSUME ~Gives(s, a) PROVE Written(s, a) = {}
    BY <1>3, <1>7, <1>9, <1>11
  <1> QED
    BY <1>3, <1>6, <1>10, <1>11

\* nothing is written behind the last address
LEMMA NothingBehind ==
  ASSUME NEW s \in Section, StaysInMemory(s), NEW a \in Storage, a \notin Addresses
  PROVE  Written(s, a) = {}
  <1> DEFINE A == s.address
             n == Len(s.data)
  <1>1. A \in Nat /\ n \in Nat
    BY DEF Section
  <1>2. n <= Size /\ (A % BlockSize = 0 \/ (A % Size) + n <= Size)
    BY DEF StaysInMemory
  <1>3. Written(s, a) = {i \in 1 .. n : ~ToDevice(A, i) /\ Target(A, i) = a}
    BY DEF Written
  <1> HIDE DEF A, n
  <1>4. ASSUME NEW i \in 1 .. n PROVE Target(A, i) \in Addresses
    <2>1. Target(A, i) = (A + (i - 1)) % Size
      BY <1>1, <1>2, TargetIsPlace
    <2>2. A + (i - 1) \in Int
      BY <1>1
    <2> QED
      BY <2>1, <2>2, Constants, Division DEF Addresses
  <1> QED
    BY <1>3, <1>4

LEMMA LoadSectionEffect ==
  ASSUME TypeInv, LoadSection, StaysInMemory(Head(sections)), NEW a \in Addresses
  PROVE  LET s == Head(sections)
         IN  IF Gives(s, a)
             THEN a \notin free' /\ ram'[a] = s.data[Place(a, s) + 1]
             ELSE (a \in free' <=> a \in free) /\ ram'[a] = ram[a]
  <1> DEFINE s == Head(sections)
  <1>1. sections \in Seq(Section) /\ sections # <<>>
    BY DEF TypeInv, LoadSection
  <1>2. s \in Section
    BY <1>1
  <1>3. IF Loadable(s)
        THEN /\ ram' = [b \in Storage |->
                          IF Written(s, b) = {} THEN ram[b] ELSE s.data[Max(Written(s, b))]]
             /\ free' = {b \in free : Written(s, b) = {}}
        ELSE ram' = ram /\ free' = free
    BY DEF LoadSection, Written, memory
  <1>4. StaysInMemory(s) /\ a \in Storage
    BY Constants
  <1> HIDE DEF s
  <1>6. CASE Gives(s, a)
    <2>1. Loadable(s)
      BY <1>6 DEF Gives
    <2>2. Written(s, a) = {Place(a, s) + 1} /\ Place(a, s) + 1 \in Int
      BY <1>2, <1>4, <1>6, <2>1, WrittenOnce
    <2>3. Max(Written(s, a)) = Place(a, s) + 1
      BY <2>2, MaxOfOne
    <2>4. Written(s, a) # {}
      BY <2>2
    <2> QED
      BY <1>3, <1>4, <1>6, <2>1, <2>3, <2>4 DEF s
  <1>7. CASE Loadable(s) /\ ~Gives(s, a)
    <2>1. Written(s, a) = {}
      BY <1>2, <1>4, <1>7, WrittenOnce
    <2> QED
      BY <1>3, <1>4, <1>7, <2>1 DEF s
  <1>8. CASE ~Loadable(s)
    BY <1>3, <1>8 DEF s, Gives
  <1> QED
    BY <1>6, <1>7, <1>8

LEMMA TailFacts ==
  ASSUME NEW S, NEW q \in Seq(S), q # <<>>
  PROVE  /\ Len(q) \in Nat /\ Len(q) >= 1 /\ Head(q) = q[1] /\ Head(q) \in S
         /\ Tail(q) \in Seq(S) /\ Len(Tail(q)) = Len(q) - 1
         /\ \A i \in 1 .. Len(Tail(q)) : Tail(q)[i] = q[i + 1]
  OBVIOUS

LEMMA EmptyFacts ==
  ASSUME NEW S, NEW q \in Seq(S)
  PROVE  q = <<>> <=> Len(q) = 0
  OBVIOUS

LEMMA ImageUnchanged ==
  ASSUME image' = image
  PROVE  \A g, j, a : Covers(g, j, a)' = Covers(g, j, a) /\ ByteFor(g, j, a)' = ByteFor(g, j, a)
  BY DEF Covers, ByteFor, Gives, Loadable, Place

\* the next section to be loaded
LEMMA NextSection ==
  ASSUME TypeInv, NEW f \in Nat, NEW k \in Nat, Progress(f, k), sections # <<>>
  PROVE  /\ f \in 1 .. Len(image) /\ image[f] # Missing /\ k + 1 \in 1 .. Len(image[f])
         /\ Head(sections) = image[f][k + 1] /\ StaysInMemory(Head(sections))
  <1>1. Len(sections) \in Nat /\ Len(sections) >= 1 /\ Head(sections) = sections[1]
    BY TailFacts DEF TypeInv
  <1>2. f # 0
    BY <1>1 DEF Progress
  <1>3. /\ f \in 0 .. Len(image) /\ image[f] # Missing /\ k \in 0 .. Len(image[f])
        /\ Len(sections) = Len(image[f]) - k
        /\ \A i \in 1 .. Len(sections) : sections[i] = image[f][k + i]
    BY <1>2 DEF Progress
  <1>4. f \in 1 .. Len(image) /\ Len(image) \in Nat
    BY <1>2, <1>3 DEF TypeInv
  <1>5. image[f] \in Seq(Section)
    BY <1>3, <1>4 DEF TypeInv, File
  <1>6. Len(image[f]) \in Nat
    BY <1>5
  <1>7. k + 1 \in 1 .. Len(image[f])
    BY <1>1, <1>3, <1>6
  <1>8. sections[1] = image[f][k + 1]
    BY <1>1, <1>3
  <1>9. StaysInMemory(image[f][k + 1])
    BY <1>3, <1>4, <1>7 DEF TypeInv
  <1> QED
    BY <1>1, <1>3, <1>4, <1>7, <1>8, <1>9

LEMMA LoadSectionProgress ==
  ASSUME TypeInv, NEW f \in Nat, NEW k \in Nat, Progress(f, k), LoadSection
  PROVE  Progress(f, k + 1)'
  <1>1. /\ sections \in Seq(Section) /\ sections # <<>> /\ sections' = Tail(sections)
        /\ files' = files /\ image' = image
    BY DEF TypeInv, LoadSection, others
  <1>2. f \in 1 .. Len(image) /\ image[f] # Missing /\ k + 1 \in 1 .. Len(image[f])
    BY <1>1, NextSection
  <1>3. f # 0
    BY <1>2
  <1>4. /\ Len(sections) = Len(image[f]) - k /\ k \in 0 .. Len(image[f])
        /\ \A i \in 1 .. Len(sections) : sections[i] = image[f][k + i]
    BY <1>3 DEF Progress
  <1>5. image[f] \in Seq(Section) /\ Len(image[f]) \in Nat
    <2>1. image[f] \in File
      BY <1>2 DEF TypeInv
    <2> QED
      BY <1>2, <2>1 DEF File
  <1>6. /\ Len(sections) \in Nat /\ Len(Tail(sections)) = Len(sections) - 1
        /\ \A i \in 1 .. Len(Tail(sections)) : Tail(sections)[i] = sections[i + 1]
    BY <1>1, TailFacts
  <1>7. Len(Tail(sections)) = Len(image[f]) - (k + 1)
    BY <1>4, <1>5, <1>6
  <1>8. ASSUME NEW i \in 1 .. Len(Tail(sections)) PROVE Tail(sections)[i] = image[f][(k + 1) + i]
    <2>1. i + 1 \in 1 .. Len(sections) /\ k + (i + 1) = (k + 1) + i
      BY <1>6
    <2> QED
      BY <1>4, <1>6, <2>1
  <1>9. k + 1 \in 0 .. Len(image[f])
    BY <1>2
  <1>10. /\ f \in 0 .. Len(image) /\ Len(files) = Len(image) - f
         /\ \A i \in 1 .. Len(files) : files[i] = image[f + i]
    BY DEF Progress
  <1> QED
    BY <1>1, <1>2, <1>3, <1>7, <1>8, <1>9, <1>10 DEF Progress

LEMMA LoadSectionLoads ==
  ASSUME TypeInv, NEW f \in Nat, NEW k \in Nat, Progress(f, k), LoadSection,
         NEW a \in Addresses, LoadedSoFar(f, k, a)
  PROVE  LoadedSoFar(f, k + 1, a)'
  <1> DEFINE s == Head(sections)
             new == Gives(s, a)
  <1>1. sections # <<>> /\ image' = image
    BY DEF LoadSection, others
  <1>2. /\ f \in 1 .. Len(image) /\ image[f] # Missing /\ k + 1 \in 1 .. Len(image[f])
        /\ s = image[f][k + 1] /\ StaysInMemory(s)
    BY <1>1, NextSection
  <1>3. IF new THEN a \notin free' /\ ram'[a] = s.data[Place(a, s) + 1]
               ELSE (a \in free' <=> a \in free) /\ ram'[a] = ram[a]
    BY <1>2, LoadSectionEffect
  <1>4. Covers(f, k + 1, a) <=> new
    BY <1>2 DEF Covers
  <1>5. ByteFor(f, k + 1, a) = s.data[Place(a, s) + 1]
    BY <1>2 DEF ByteFor
  <1>6. \A g, j : Covers(g, j, a)' = Covers(g, j, a) /\ ByteFor(g, j, a)' = ByteFor(g, j, a)
    BY <1>1, ImageUnchanged
  <1>7. \A g, j \in Nat : Before(g, j, f, k + 1) <=> Before(g, j, f, k) \/ (g = f /\ j = k + 1)
    BY DEF Before
  <1> HIDE DEF new, s
  <1>8. CASE new
    <2>1. Before(f, k + 1, f, k + 1)
      BY DEF Before
    <2> QED
      BY <1>3, <1>4, <1>5, <1>6, <1>8, <2>1 DEF LoadedSoFar
  <1>9. CASE ~new
    <2>1. \A g, j \in Nat : Before(g, j, f, k + 1) /\ Covers(g, j, a)
                              <=> Before(g, j, f, k) /\ Covers(g, j, a)
      BY <1>4, <1>7, <1>9
    <2>2. (a \in free' <=> a \in free) /\ ram'[a] = ram[a]
      BY <1>3, <1>9
    <2>3. CASE a \in free
      BY <1>6, <2>1, <2>2, <2>3 DEF LoadedSoFar
    <2>4. CASE a \notin free
      <3>1. PICK g \in Nat, j \in Nat :
               /\ Before(g, j, f, k) /\ Covers(g, j, a) /\ ram[a] = ByteFor(g, j, a)
               /\ \A h, i \in Nat : Before(h, i, f, k) /\ Covers(h, i, a) => Before(h, i, g, j)
        BY <2>4 DEF LoadedSoFar
      <3>2. /\ Before(g, j, f, k + 1) /\ Covers(g, j, a)' /\ ram'[a] = ByteFor(g, j, a)'
            /\ \A h, i \in Nat : Before(h, i, f, k + 1) /\ Covers(h, i, a)' => Before(h, i, g, j)
        BY <1>6, <2>1, <2>2, <3>1
      <3> QED
        BY <2>2, <2>4, <3>2 DEF LoadedSoFar
    <2> QED
      BY <2>3, <2>4
  <1> QED
    BY <1>8, <1>9

\* at the end of a file, nothing of it is left to be loaded
LEMMA EndOfFile ==
  ASSUME TypeInv, NEW f \in Nat, NEW k \in Nat, Progress(f, k), sections = <<>>
  PROVE  \A g, j \in Nat : \A a : Covers(g, j, a) => (Before(g, j, f, k) <=> g <= f)
  <1> SUFFICES ASSUME NEW g \in Nat, NEW j \in Nat, NEW a, Covers(g, j, a)
               PROVE  Before(g, j, f, k) <=> g <= f
    OBVIOUS
  <1>1. Len(sections) = 0
    BY EmptyFacts DEF TypeInv
  <1>2. g \in 1 .. Len(image) /\ image[g] # Missing /\ j \in 1 .. Len(image[g])
    BY DEF Covers
  <1>3. ASSUME g = f PROVE j <= k
    <2>1. f # 0
      BY <1>2, <1>3
    <2>2. Len(sections) = Len(image[f]) - k
      BY <2>1 DEF Progress
    <2>3. image[f] \in Seq(Section)
      <3>1. image[f] \in File
        BY <1>2, <1>3 DEF TypeInv
      <3> QED
        BY <1>2, <1>3, <3>1 DEF File
    <2>4. Len(image[f]) \in Nat
      BY <2>3
    <2> QED
      BY <1>1, <1>2, <1>3, <2>2, <2>4
  <1> QED
    BY <1>3 DEF Before

LEMMA OpenFileProgress ==
  ASSUME TypeInv, NEW f \in Nat, NEW k \in Nat, Progress(f, k), OpenFile
  PROVE  Progress(f + 1, 0)' /\ sections' \in Seq(Section) /\ files' \in Seq(File)
  <1>1. /\ files \in Seq(File) /\ files # <<>> /\ Head(files) # Missing
        /\ sections' = Head(files) /\ files' = Tail(files) /\ image' = image
    BY DEF TypeInv, OpenFile, others
  <1>2. /\ Len(files) \in Nat /\ Len(files) >= 1 /\ Head(files) = files[1] /\ Head(files) \in File
        /\ Tail(files) \in Seq(File) /\ Len(Tail(files)) = Len(files) - 1
        /\ \A i \in 1 .. Len(Tail(files)) : Tail(files)[i] = files[i + 1]
    BY <1>1, TailFacts
  <1>3. /\ f \in 0 .. Len(image) /\ Len(files) = Len(image) - f
        /\ \A i \in 1 .. Len(files) : files[i] = image[f + i]
    BY DEF Progress
  <1>4. Len(image) \in Nat
    BY DEF TypeInv
  <1>5. f + 1 \in 0 .. Len(image) /\ Len(Tail(files)) = Len(image) - (f + 1) /\ f + 1 # 0
    BY <1>2, <1>3, <1>4
  <1>6. Head(files) = image[f + 1]
    BY <1>2, <1>3
  <1>7. ASSUME NEW i \in 1 .. Len(Tail(files)) PROVE Tail(files)[i] = image[(f + 1) + i]
    <2>1. i + 1 \in 1 .. Len(files) /\ f + (i + 1) = (f + 1) + i
      BY <1>2
    <2> QED
      BY <1>2, <1>3, <2>1
  <1>8. Head(files) \in Seq(Section)
    BY <1>1, <1>2 DEF File
  <1>9. /\ 0 \in 0 .. Len(image[f + 1]) /\ Len(Head(files)) = Len(image[f + 1]) - 0
        /\ \A i \in 1 .. Len(Head(files)) : Head(files)[i] = image[f + 1][0 + i]
    BY <1>6, <1>8
  <1> QED
    BY <1>1, <1>2, <1>5, <1>6, <1>7, <1>8, <1>9 DEF Progress

LEMMA OpenFileLoads ==
  ASSUME TypeInv, NEW f \in Nat, NEW k \in Nat, Progress(f, k), OpenFile,
         NEW a \in Addresses, LoadedSoFar(f, k, a)
  PROVE  LoadedSoFar(f + 1, 0, a)'
  <1>1. sections = <<>> /\ image' = image /\ ram' = ram /\ free' = free
    BY DEF OpenFile, others, memory
  <1>2. \A g, j : Covers(g, j, a)' = Covers(g, j, a) /\ ByteFor(g, j, a)' = ByteFor(g, j, a)
    BY <1>1, ImageUnchanged
  <1>3. \A g, j \in Nat : Before(g, j, f + 1, 0) /\ Covers(g, j, a)
                            <=> Before(g, j, f, k) /\ Covers(g, j, a)
    <2> SUFFICES ASSUME NEW g \in Nat, NEW j \in Nat, Covers(g, j, a)
                 PROVE  Before(g, j, f + 1, 0) <=> Before(g, j, f, k)
      OBVIOUS
    <2>1. Before(g, j, f, k) <=> g <= f
      BY <1>1, EndOfFile
    <2>2. j >= 1
      BY DEF Covers
    <2> QED
      BY <2>1, <2>2 DEF Before
  <1>4. CASE a \in free
    BY <1>1, <1>2, <1>3, <1>4 DEF LoadedSoFar
  <1>5. CASE a \notin free
    <2>1. PICK g \in Nat, j \in Nat :
             /\ Before(g, j, f, k) /\ Covers(g, j, a) /\ ram[a] = ByteFor(g, j, a)
             /\ \A h, i \in Nat : Before(h, i, f, k) /\ Covers(h, i, a) => Before(h, i, g, j)
      BY <1>5 DEF LoadedSoFar
    <2>2. /\ Before(g, j, f + 1, 0) /\ Covers(g, j, a)' /\ ram'[a] = ByteFor(g, j, a)'
          /\ \A h, i \in Nat : Before(h, i, f + 1, 0) /\ Covers(h, i, a)' => Before(h, i, g, j)
      BY <1>1, <1>2, <1>3, <2>1
    <2> QED
      BY <1>1, <1>5, <2>2 DEF LoadedSoFar
  <1> QED
    BY <1>4, <1>5

\* a simulator that has loaded nothing yet
LEMMA NothingLoaded ==
  TypeInv /\ files = image /\ sections = <<>> /\ free = Storage => Loading
  <1> SUFFICES ASSUME TypeInv, files = image, sections = <<>>, free = Storage
               PROVE  Loading
    OBVIOUS
  <1>1. Len(image) \in Nat /\ Len(sections) = 0
    BY EmptyFacts DEF TypeInv
  <1>2. Progress(0, 0)
    BY <1>1 DEF Progress
  <1>3. ASSUME NEW a \in Addresses PROVE LoadedSoFar(0, 0, a)
    <2>1. \A g, j \in Nat : Before(g, j, 0, 0) => ~Covers(g, j, a)
      BY <1>1 DEF Before, Covers
    <2> QED
      BY <2>1, Constants DEF LoadedSoFar
  <1> QED
    BY <1>2, <1>3 DEF Loading

LEMMA AllLoaded ==
  ASSUME TypeInv, Loading, files = <<>>, sections = <<>>, NEW a \in Addresses
  PROVE  \/ a \in free /\ \A g, j \in Nat : ~Covers(g, j, a)
         \/ /\ a \notin free
            /\ \E g, j \in Nat : /\ Covers(g, j, a) /\ ram[a] = ByteFor(g, j, a)
                                 /\ \A h, i \in Nat : Covers(h, i, a) => Before(h, i, g, j)
  <1>1. PICK f \in Nat, k \in Nat : Progress(f, k) /\ \A b \in Addresses : LoadedSoFar(f, k, b)
    BY DEF Loading
  <1>2. Len(files) = 0 /\ Len(image) \in Nat
    BY EmptyFacts DEF TypeInv
  <1>3. f = Len(image)
    BY <1>1, <1>2 DEF Progress
  <1>4. \A g, j \in Nat : Covers(g, j, a) => Before(g, j, f, k)
    <2> SUFFICES ASSUME NEW g \in Nat, NEW j \in Nat, Covers(g, j, a)
                 PROVE  Before(g, j, f, k)
      OBVIOUS
    <2>1. g <= f
      BY <1>2, <1>3 DEF Covers
    <2> QED
      BY <1>1, <2>1, EndOfFile
  <1>5. LoadedSoFar(f, k, a)
    BY <1>1
  <1> QED
    BY <1>4, <1>5 DEF LoadedSoFar

LEMMA CoveringFacts ==
  ASSUME TypeInv, NEW a
  PROVE  /\ \A g, j \in Nat : <<g, j>> \in Covering(a) <=> Covers(g, j, a)
         /\ \A t \in Covering(a) : t[1] \in Nat /\ t[2] \in Nat /\ t = <<t[1], t[2]>>
  <1> DEFINE P == UNION {{f} \X (1 .. Len(image[f])) : f \in {f \in 1 .. Len(image) : image[f] # Missing}}
  <1>1. Covering(a) = {t \in P : Gives(image[t[1]][t[2]], a)}
    BY DEF Covering
  <1>2. Len(image) \in Nat
    BY DEF TypeInv
  <1>3. \A t \in P : /\ t = <<t[1], t[2]>> /\ t[1] \in 1 .. Len(image) /\ image[t[1]] # Missing
                     /\ t[2] \in 1 .. Len(image[t[1]])
    OBVIOUS
  <1>4. \A g, j : g \in 1 .. Len(image) /\ image[g] # Missing /\ j \in 1 .. Len(image[g])
                    => <<g, j>> \in P
    OBVIOUS
  <1> HIDE DEF P
  <1>5. ASSUME NEW g \in Nat, NEW j \in Nat PROVE <<g, j>> \in Covering(a) <=> Covers(g, j, a)
    <2>1. <<g, j>>[1] = g /\ <<g, j>>[2] = j
      OBVIOUS
    <2>2. <<g, j>> \in P <=> g \in 1 .. Len(image) /\ image[g] # Missing /\ j \in 1 .. Len(image[g])
      BY <1>3, <1>4, <2>1
    <2> QED
      BY <1>1, <2>1, <2>2 DEF Covers
  <1>6. ASSUME NEW t \in Covering(a) PROVE t[1] \in Nat /\ t[2] \in Nat /\ t = <<t[1], t[2]>>
    <2>1. t \in P
      BY <1>1
    <2> QED
      BY <1>2, <1>3, <2>1
  <1> QED
    BY <1>5, <1>6

LEMMA LoadingLoads ==
  ASSUME TypeInv, phase = "load" => Loading
  PROVE  LoadedImage
  <1> SUFFICES ASSUME phase = "load", files = <<>>, sections = <<>>, NEW a \in Addresses
               PROVE  IF Covering(a) = {} THEN a \in free
                      ELSE LET t == CHOOSE t \in Covering(a) : \A u \in Covering(a) : Later(t, u)
                               s == image[t[1]][t[2]]
                           IN  a \notin free /\ ram[a] = s.data[Place(a, s) + 1]
    BY DEF LoadedImage
  <1>1. /\ \A g, j \in Nat : <<g, j>> \in Covering(a) <=> Covers(g, j, a)
        /\ \A t \in Covering(a) : t[1] \in Nat /\ t[2] \in Nat /\ t = <<t[1], t[2]>>
    BY CoveringFacts
  <1>2. CASE a \in free /\ \A g, j \in Nat : ~Covers(g, j, a)
    <2>1. Covering(a) = {}
      BY <1>1, <1>2
    <2> QED
      BY <1>2, <2>1
  <1>3. CASE /\ a \notin free
             /\ \E g, j \in Nat : /\ Covers(g, j, a) /\ ram[a] = ByteFor(g, j, a)
                                  /\ \A h, i \in Nat : Covers(h, i, a) => Before(h, i, g, j)
    <2>1. PICK g \in Nat, j \in Nat :
             /\ Covers(g, j, a) /\ ram[a] = ByteFor(g, j, a)
             /\ \A h, i \in Nat : Covers(h, i, a) => Before(h, i, g, j)
      BY <1>3
    <2> DEFINE v == <<g, j>>
               C == Covering(a)
               t == CHOOSE t \in C : \A u \in C : Later(t, u)
    <2>2. v \in C /\ v[1] = g /\ v[2] = j
      BY <1>1, <2>1
    <2>3. ASSUME NEW u \in C PROVE Later(v, u)
      <3>1. u[1] \in Nat /\ u[2] \in Nat /\ Covers(u[1], u[2], a)
        BY <1>1
      <3>2. Before(u[1], u[2], g, j)
        BY <2>1, <3>1
      <3> QED
        BY <3>1, <3>2 DEF Before, Later
    <2>4. t \in C /\ \A u \in C : Later(t, u)
      <3> HIDE DEF v, C
      <3> QED
        BY <2>2, <2>3
    <2>5. t = v
      <3>1. Later(t, v) /\ Later(v, t) /\ t[1] \in Nat /\ t[2] \in Nat /\ t = <<t[1], t[2]>>
        BY <1>1, <2>2, <2>3, <2>4
      <3> HIDE DEF t
      <3>2. t[1] = g /\ t[2] = j
        BY <2>2, <3>1 DEF Later
      <3> QED
        BY <3>1, <3>2
    <2>6. C # {}
      BY <2>2
    <2> HIDE DEF t
    <2>7. image[t[1]][t[2]] = image[g][j]
      BY <2>2, <2>5
    <2> QED
      BY <1>3, <2>1, <2>6, <2>7 DEF ByteFor, t
  <1> QED
    BY <1>2, <1>3, AllLoaded

-----------------------------------------------------------------------------
(* The blocks of a dump *)

\* the size of a block of the file: whole blocks of memory, and memory is made of them
FileBlockSize(size) == size \in Nat \ {0} /\ Size % size = 0 /\ size % BlockSize = 0

LEMMA BlockSizeIsOne == FileBlockSize(BlockSize)
  <1>1. BlockSize \in Int /\ 1 \in Int /\ 0 \in 0 .. BlockSize - 1 /\ BlockSize = 1 * BlockSize + 0
    BY Constants
  <1>2. BlockSize % BlockSize = 0
    BY <1>1, Constants, DivisionUnique
  <1> QED
    BY <1>2, Constants DEF FileBlockSize

LEMMA TrialSizesAre ==
  /\ \A i \in DOMAIN TrialSizes : FileBlockSize(TrialSizes[i])
  /\ DOMAIN TrialSizes = 1 .. Len(TrialSizes) /\ Len(TrialSizes) \in DOMAIN TrialSizes
  /\ TrialSizes[Len(TrialSizes)] = Size
  <1>1. TrialSizes \in Seq(Nat \ {0}) /\ TrialSizes # <<>>
    BY TestImageAssumption
  <1>2. Len(TrialSizes) \in Nat /\ Len(TrialSizes) # 0 /\ DOMAIN TrialSizes = 1 .. Len(TrialSizes)
    BY <1>1, EmptyFacts
  <1>3. \A i \in DOMAIN TrialSizes : TrialSizes[i] \in Nat \ {0}
    BY <1>1, <1>2
  <1> QED
    BY <1>2, <1>3, TestImageAssumption DEF FileBlockSize

LEMMA FileBlockIsLarge ==
  ASSUME NEW size, FileBlockSize(size)
  PROVE  size >= BlockSize
  <1> DEFINE L == size \div BlockSize
  <1>1. size \in Nat \ {0} /\ size \in Int
    BY DEF FileBlockSize
  <1>2. L \in Int /\ size = L * BlockSize
    BY <1>1, Constants, Multiple DEF FileBlockSize
  <1> HIDE DEF L
  <1>3. L <= 0 => (0 - L) * BlockSize >= 0 /\ (0 - L) * BlockSize = 0 - size
    BY <1>2, Constants, Products, Associative
  <1>4. L >= 1
    BY <1>1, <1>2, <1>3
  <1> QED
    BY <1>2, <1>4, Constants, Products

LEMMA MaskedFacts ==
  ASSUME NEW size, FileBlockSize(size), NEW a \in Storage
  PROVE  LET m == Masked(a, size)
         IN  /\ m \in Nat /\ m <= a /\ a < m + size /\ m % BlockSize = 0
             /\ IF a \in Addresses THEN m + size <= Size ELSE m = Size
  <1> DEFINE q == a \div size
             r == a % size
             m == q * size
             K == Size \div size
             L == size \div BlockSize
  <1>1. /\ size \in Nat \ {0} /\ a \in Nat /\ a \in Int /\ Size \in Nat \ {0} /\ Size \in Int
        /\ a \in Addresses => a < Size
        /\ a \notin Addresses => a - Size \in 0 .. BlockSize - 1
    BY Constants DEF FileBlockSize, Addresses, Storage
  <1>2. q \in Nat /\ r \in 0 .. size - 1 /\ a = m + r
    BY <1>1, Division
  <1>3. K \in Int /\ Size = K * size
    BY <1>1, Multiple DEF FileBlockSize
  <1>4. L \in Int /\ size = L * BlockSize
    BY <1>1, Constants, Multiple DEF FileBlockSize
  <1>5. Masked(a, size) = m
    BY DEF Masked
  <1>6. a \notin Addresses => m = Size
    <2> SUFFICES ASSUME a \notin Addresses PROVE m = Size
      OBVIOUS
    <2> HIDE DEF K, L
    <2>2. size >= BlockSize
      BY FileBlockIsLarge
    <2> DEFINE d == a - Size
    <2>3. d \in 0 .. size - 1 /\ a = K * size + d
      BY <1>1, <1>3, <2>2, Constants
    <2> HIDE DEF d
    <2>4. a \div size = K
      BY <1>1, <1>3, <2>3, DivisionUnique
    <2> QED
      BY <1>3, <2>4
  <1> HIDE DEF q, r, K, L
  <1>7. m \in Nat
    BY <1>1, <1>2
  <1>8. a \in Addresses => m + size <= Size
    <2> SUFFICES ASSUME a \in Addresses PROVE m + size <= Size
      OBVIOUS
    <2>1. (K - q) * size = Size - m
      BY <1>1, <1>2, <1>3, Associative
    <2>2. ASSUME K - q <= 0 PROVE FALSE
      <3>1. (q - K) * size >= 0 /\ (q - K) * size = m - Size
        BY <1>1, <1>2, <1>3, <2>2, Products, Associative
      <3> HIDE DEF m
      <3> QED
        BY <1>1, <1>2, <1>7, <3>1
    <2>3. (K - q) * size >= size
      BY <1>1, <1>2, <1>3, <2>2, Products
    <2> HIDE DEF m
    <2> QED
      BY <1>1, <1>7, <2>1, <2>3
  <1>9. m % BlockSize = 0
    <2>1. m = (q * L) * BlockSize + 0
      BY <1>2, <1>4, <1>7, Constants, Associative
    <2>2. q * L \in Int /\ 0 \in 0 .. BlockSize - 1 /\ m \in Int
      BY <1>2, <1>4, <1>7, Constants
    <2> HIDE DEF m
    <2> QED
      BY <2>1, <2>2, Constants, DivisionUnique
  <1> HIDE DEF m
  <1> QED
    BY <1>1, <1>2, <1>5, <1>6, <1>7, <1>8, <1>9

\* the file's block of the block of an address is the file's block of the address
LEMMA MaskedTwice ==
  ASSUME NEW size, FileBlockSize(size), NEW a \in Storage
  PROVE  Masked(Masked(a, BlockSize), size) = Masked(a, size)
  <1> DEFINE q == a \div BlockSize
             r == a % BlockSize
             m == q * BlockSize
             c == a \div size
             s == a % size
             L == size \div BlockSize
             d == q - c * L
  <1>1. size \in Nat \ {0} /\ a \in Nat /\ a \in Int /\ BlockSize \in Nat \ {0}
    BY Constants DEF FileBlockSize
  <1>2. q \in Nat /\ r \in 0 .. BlockSize - 1 /\ a = m + r
    BY <1>1, Division
  <1>3. c \in Nat /\ s \in 0 .. size - 1 /\ a = c * size + s
    BY <1>1, Division
  <1>4. L \in Int /\ size = L * BlockSize
    BY <1>1, Multiple DEF FileBlockSize
  <1>5. Masked(a, BlockSize) = m /\ Masked(a, size) = c * size /\ Masked(m, size) = (m \div size) * size
    BY DEF Masked
  <1> HIDE DEF q, r, c, s, L
  <1>6. d \in Int /\ d * BlockSize = m - c * size
    <2>1. c * L \in Int
      BY <1>3, <1>4
    <2>2. (c * L) * BlockSize = c * size
      BY <1>1, <1>3, <1>4, Associative
    <2> QED
      BY <1>1, <1>2, <2>1, <2>2, Associative
  <1> DEFINE e == d * BlockSize
             z == c * size
  <1>7. e \in Int /\ z \in Int /\ m \in Int /\ e = m - z /\ a = m + r /\ a = z + s
    BY <1>1, <1>2, <1>3, <1>6
  <1>8. d <= -1 => e <= -BlockSize
    BY <1>1, <1>6, Products
  <1>9. d >= 0 => e >= 0
    BY <1>1, <1>6, Products
  <1> HIDE DEF d, e, z, m
  <1>10. e \in 0 .. size - 1
    BY <1>1, <1>2, <1>3, <1>6, <1>7, <1>8, <1>9
  <1>11. m = z + e
    BY <1>7
  <1>12. m \div size = c
    <2>1. m = c * size + e
      BY <1>11 DEF z
    <2>2. m \in Int /\ c \in Int
      BY <1>3, <1>7
    <2> QED
      BY <1>1, <1>10, <2>1, <2>2, DivisionUnique
  <1> QED
    BY <1>5, <1>12

LEMMA FileBlocksFacts ==
  ASSUME NEW size, FileBlockSize(size)
  PROVE  /\ FileBlocks(size) = {Masked(a, size) : a \in Storage \ free}
         /\ FileBlocks(size) \subseteq 0 .. Size
         /\ IsFiniteSet(FileBlocks(size)) /\ Cardinality(FileBlocks(size)) \in Nat
  <1>1. FileBlocks(size) = {Masked(Masked(a, BlockSize), size) : a \in Storage \ free}
    BY DEF FileBlocks, TestBlockAddresses
  <1>2. \A a \in Storage \ free : Masked(Masked(a, BlockSize), size) = Masked(a, size)
    BY MaskedTwice
  <1>3. FileBlocks(size) = {Masked(a, size) : a \in Storage \ free}
    BY <1>1, <1>2
  <1>4. ASSUME NEW a \in Storage PROVE Masked(a, size) \in 0 .. Size
    <2>1. /\ Masked(a, size) \in Nat
          /\ IF a \in Addresses THEN Masked(a, size) + size <= Size ELSE Masked(a, size) = Size
      BY MaskedFacts
    <2>2. size \in Nat
      BY DEF FileBlockSize
    <2> QED
      BY <2>1, <2>2, Constants
  <1>5. FileBlocks(size) \subseteq 0 .. Size
    BY <1>3, <1>4
  <1>6. IsFiniteSet(0 .. Size)
    BY Constants, FS_Interval
  <1>7. IsFiniteSet(FileBlocks(size))
    BY <1>5, <1>6, FS_Subset
  <1>8. Cardinality(FileBlocks(size)) \in Nat
    BY <1>7, FS_CardinalityType
  <1> QED
    BY <1>3, <1>5, <1>7, <1>8

LEMMA SmallFileBlocks == FileBlocks(BlockSize) = TestBlockAddresses
  BY FileBlocksFacts, BlockSizeIsOne DEF TestBlockAddresses

LEMMA EstimateIs == \A size : Estimate(size) = Cardinality(FileBlocks(size) \ {0})
  BY DEF Estimate, FileBlocks

\* all of memory as one block, and the block behind: the one at address 0 is not counted
LEMMA EstimateOfAll == FileBlockSize(Size) /\ Estimate(Size) \in 0 .. 1
  <1>1. FileBlockSize(Size)
    BY TrialSizesAre
  <1>2. ASSUME NEW a \in Storage PROVE Masked(a, Size) \in {0, Size}
    <2>1. /\ Masked(a, Size) \in Nat
          /\ IF a \in Addresses THEN Masked(a, Size) + Size <= Size ELSE Masked(a, Size) = Size
      BY <1>1, MaskedFacts
    <2> QED
      BY <2>1, Constants
  <1>3. FileBlocks(Size) \ {0} \in SUBSET {Size}
    BY <1>1, <1>2, FileBlocksFacts
  <1>4. IsFiniteSet({Size}) /\ Cardinality({Size}) = 1
    BY FS_Singleton
  <1>5. /\ IsFiniteSet(FileBlocks(Size) \ {0})
        /\ Cardinality(FileBlocks(Size) \ {0}) <= Cardinality({Size})
    BY <1>3, <1>4, FS_Subset
  <1>6. Cardinality(FileBlocks(Size) \ {0}) \in Nat
    BY <1>5, FS_CardinalityType
  <1> QED
    BY <1>1, <1>4, <1>5, <1>6, EstimateIs

LEMMA MinFacts ==
  ASSUME NEW S \in SUBSET Nat, S # {}
  PROVE  Min(S) \in S
  <1>1. \E m \in S : \A n \in S : m =< n
    BY LeastElement
  <1> QED
    BY <1>1 DEF Min

\* the chosen size keeps the number of sections within the maximum
LEMMA ChosenSize ==
  /\ FileBlockSize(ChooseFileBlockSize)
  /\ Cardinality(FileBlocks(ChooseFileBlockSize)) <= MaxSections
  /\ ~TooManySections
  <1> DEFINE fits == {i \in DOMAIN TrialSizes : Estimate(TrialSizes[i]) < MaxSections}
             few  == Cardinality(TestBlockAddresses) < MaxSections
             size == TrialSizes[Min(fits)]
  <1>1. Cardinality(TestBlockAddresses) \in Nat /\ MaxSections \in Nat \ {0, 1}
    BY SmallFileBlocks, FileBlocksFacts, BlockSizeIsOne, Constants
  <1>2. CASE few
    <2>1. ChooseFileBlockSize = BlockSize
      BY <1>2 DEF ChooseFileBlockSize
    <2>2. ~TooManySections
      BY <1>1, <1>2 DEF TooManySections
    <2> QED
      BY <1>1, <1>2, <2>1, <2>2, SmallFileBlocks, BlockSizeIsOne
  <1>3. CASE ~few
    <2>1. Len(TrialSizes) \in fits
      BY TrialSizesAre, EstimateOfAll, Constants
    <2>2. fits \in SUBSET Nat /\ fits # {}
      BY <2>1, TrialSizesAre
    <2>3. Min(fits) \in fits
      <3> HIDE DEF fits
      <3> QED
        BY <2>2, MinFacts
    <2>4. ChooseFileBlockSize = size
      BY <1>3, <2>2 DEF ChooseFileBlockSize
    <2>5. FileBlockSize(size) /\ Estimate(size) < MaxSections
      BY <2>3, TrialSizesAre
    <2> HIDE DEF size, fits, few
    <2>6. IsFiniteSet(FileBlocks(size)) /\ Cardinality(FileBlocks(size)) \in Nat
      BY <2>5, FileBlocksFacts
    <2>7. Estimate(size) = IF 0 \in FileBlocks(size) THEN Cardinality(FileBlocks(size)) - 1
                                                     ELSE Cardinality(FileBlocks(size))
      BY <2>6, EstimateIs, FS_RemoveElement
    <2>8. Cardinality(FileBlocks(size)) <= MaxSections
      BY <1>1, <2>5, <2>6, <2>7
    <2>9. ~TooManySections
      BY <1>1, <2>4, <2>5, <2>6, <2>7 DEF TooManySections
    <2> QED
      BY <2>4, <2>5, <2>8, <2>9
  <1> QED
    BY <1>2, <1>3

\* every number of a finite set has its place in the ascending order
LEMMA AscendingFacts ==
  ASSUME NEW S \in SUBSET Nat, IsFiniteSet(S)
  PROVE  /\ \A i \in 1 .. Cardinality(S) : Ascending(S, i) \in S
         /\ \A b \in S : \E i \in 1 .. Cardinality(S) : Ascending(S, i) = b
         /\ \A i, j \in 1 .. Cardinality(S) : Ascending(S, i) < Ascending(S, j) => i < j
         /\ \A i, j \in 1 .. Cardinality(S) : Ascending(S, i) = Ascending(S, j) => i = j
  <1> DEFINE below(b) == {x \in S : x < b}
             n == Cardinality(S)
             rank == [b \in S |-> Cardinality(below(b))]
  <1>1. n \in Nat
    BY FS_CardinalityType
  <1>2. ASSUME NEW b PROVE IsFiniteSet(below(b)) /\ Cardinality(below(b)) \in Nat
    <2>1. below(b) \in SUBSET S
      OBVIOUS
    <2>2. IsFiniteSet(below(b))
      BY <2>1, FS_Subset
    <2> QED
      BY <2>2, FS_CardinalityType
  <1>3. ASSUME NEW b \in S PROVE Cardinality(below(b)) < n
    <2>1. below(b) \in SUBSET S /\ b \notin below(b)
      OBVIOUS
    <2>2. Cardinality(below(b)) <= n /\ (n = Cardinality(below(b)) => S = below(b))
      BY <2>1, FS_Subset
    <2> QED
      BY <1>1, <1>2, <2>1, <2>2
  <1>4. ASSUME NEW b \in S, NEW c \in S, b < c
        PROVE  Cardinality(below(b)) < Cardinality(below(c))
    <2>0. b \in Nat /\ c \in Nat /\ \A x \in S : x \in Nat /\ (x < b => x < c)
      BY <1>4
    <2>1. below(b) \in SUBSET below(c) /\ b \in below(c) /\ b \notin below(b)
      <3>1. ~ (b < b)
        BY <2>0
      <3> QED
        BY <1>4, <2>0, <3>1, Zenon
    <2>2. /\ Cardinality(below(b)) <= Cardinality(below(c))
          /\ Cardinality(below(c)) = Cardinality(below(b)) => below(c) = below(b)
      BY <1>2, <2>1, FS_Subset
    <2> HIDE DEF below
    <2> QED
      BY <1>2, <2>1, <2>2
  <1>5. ASSUME NEW b \in S, NEW c \in S, Cardinality(below(b)) = Cardinality(below(c))
        PROVE  b = c
    <2> HIDE DEF below
    <2>1. b < c \/ c < b \/ b = c
      OBVIOUS
    <2>2. Cardinality(below(b)) \in Nat /\ Cardinality(below(c)) \in Nat
      BY <1>2
    <2>3. ~ (b < c) /\ ~ (c < b)
      BY <1>4, <1>5, <2>2
    <2> QED
      BY <2>1, <2>3
  <1> HIDE DEF below
  <1>6. rank \in Injection(S, 0 .. n - 1)
    <2>1. rank \in [S -> 0 .. n - 1]
      BY <1>1, <1>2, <1>3
    <2>2. \A b, c \in S : rank[b] = rank[c] => b = c
      BY <1>5
    <2> QED
      BY <2>1, <2>2 DEF Injection, IsInjective
  <1>7. IsFiniteSet(0 .. n - 1) /\ Cardinality(0 .. n - 1) = n
    <2>1. 0 \in Int /\ n - 1 \in Int
      BY <1>1
    <2>2. /\ IsFiniteSet(0 .. n - 1)
          /\ Cardinality(0 .. n - 1) = IF 0 > n - 1 THEN 0 ELSE (n - 1) - 0 + 1
      BY <2>1, FS_Interval
    <2> HIDE DEF n
    <2> QED
      BY <1>1, <2>2
  <1>8. rank \in Surjection(S, 0 .. n - 1)
    BY <1>6, <1>7, FS_Injection
  <1>9. ASSUME NEW i \in 1 .. n PROVE Ascending(S, i) \in S /\ Cardinality(below(Ascending(S, i))) = i - 1
    <2>1. i - 1 \in 0 .. n - 1
      BY <1>1
    <2>2. \E b \in S : rank[b] = i - 1
      BY <1>8, <2>1 DEF Surjection
    <2>3. \E b \in S : Cardinality(below(b)) = i - 1
      BY <2>2
    <2>4. Ascending(S, i) = CHOOSE b \in S : Cardinality(below(b)) = i - 1
      BY DEF Ascending, below
    <2> QED
      BY <2>3, <2>4
  <1>10. ASSUME NEW b \in S PROVE \E i \in 1 .. n : Ascending(S, i) = b
    <2> DEFINE i == Cardinality(below(b)) + 1
    <2>1. i \in 1 .. n /\ i - 1 = Cardinality(below(b))
      BY <1>1, <1>2, <1>3
    <2> HIDE DEF i
    <2>2. Ascending(S, i) = b
      BY <1>5, <1>9, <2>1
    <2> QED
      BY <2>1, <2>2
  <1>11. ASSUME NEW i \in 1 .. n, NEW j \in 1 .. n, Ascending(S, i) < Ascending(S, j)
         PROVE  i < j
    <2>1. Cardinality(below(Ascending(S, i))) < Cardinality(below(Ascending(S, j)))
      BY <1>4, <1>9, <1>11
    <2> QED
      BY <1>1, <1>9, <2>1
  <1>12. ASSUME NEW i \in 1 .. n, NEW j \in 1 .. n, Ascending(S, i) = Ascending(S, j)
         PROVE  i = j
    BY <1>1, <1>9, <1>12
  <1> QED
    BY <1>9, <1>10, <1>11, <1>12

-----------------------------------------------------------------------------
(* Dumping *)

LEMMA FunctionIsSeq ==
  ASSUME NEW S, NEW n \in Nat, NEW q \in [1 .. n -> S]
  PROVE  q \in Seq(S) /\ Len(q) = n
  OBVIOUS

\* a section of the dump has the bytes of its block; the one of the block behind the last
\* address is taken for block 0
LEMMA SectionFacts ==
  ASSUME TypeInv, NEW size, FileBlockSize(size), NEW b \in FileBlocks(size),
         b = Size => size = BlockSize
  PROVE  LET s == NewSection(b, size)
         IN  /\ s \in Section /\ Loadable(s) /\ StaysInMemory(s)
             /\ \A a \in Addresses :
                   /\ Gives(s, a) => IF b = Size THEN a < BlockSize ELSE Masked(a, size) = b
                   /\ ~Shadowed(a) /\ (IF b = Size THEN a < BlockSize ELSE Masked(a, size) = b)
                         => Gives(s, a)
                   /\ Gives(s, a) /\ b = Size => s.data[Place(a, s) + 1] = ram[Size + a]
                   /\ Gives(s, a) /\ b # Size /\ a \notin free /\ a \notin Devices
                         => s.data[Place(a, s) + 1] = ram[a]
  <1> DEFINE s == NewSection(b, size)
             data == SectionData(b, size)
  <1>1. /\ size \in Nat \ {0} /\ Size \in Nat \ {0} /\ BlockSize \in Nat \ {0}
        /\ BlockSize <= Size
    <2>1. 0 \in Addresses /\ 0 \in Storage
      BY Constants DEF Addresses
    <2>2. Masked(0, BlockSize) \in Nat /\ Masked(0, BlockSize) + BlockSize <= Size
      BY <2>1, BlockSizeIsOne, MaskedFacts
    <2> QED
      BY <2>2, Constants DEF FileBlockSize
  <1>2. /\ b \in Nat /\ b % BlockSize = 0 /\ (b # Size => b + size <= Size)
        /\ \E c \in Nat : b = c * size
    <2>1. PICK a \in Storage : b = Masked(a, size)
      BY FileBlocksFacts
    <2>2. a \div size \in Nat
      <3>1. a \in Nat /\ a \in Int
        BY Constants
      <3> QED
        BY <1>1, <3>1, Division
    <2> QED
      BY <2>1, <2>2, MaskedFacts DEF Masked
  <1>3. \A i \in 1 .. size : b + i - 1 \in Storage
    <2>1. b + size <= Size + BlockSize
      BY <1>1, <1>2
    <2> QED
      BY <1>1, <1>2, <2>1 DEF Storage
  <1>4. data \in [1 .. size -> Byte]
    <2>1. 0 \in Byte
      BY DEF Byte
    <2>2. \A i \in 1 .. size : ram[b + i - 1] \in Byte
      BY <1>3 DEF TypeInv
    <2> QED
      BY <2>1, <2>2 DEF SectionData
  <1>5. data \in Seq(Byte) /\ Len(data) = size
    BY <1>1, <1>4, FunctionIsSeq
  <1>6. s.address = b /\ s.data = data /\ s.kind = "PROGBITS" /\ s.skipped = FALSE
    BY DEF NewSection
  <1>7. s \in Section
    BY <1>2, <1>5 DEF NewSection, Section, Kinds
  <1>8. Loadable(s)
    <2>1. data # <<>>
      BY <1>1, <1>5, EmptyFacts
    <2> QED
      BY <1>6, <2>1 DEF Loadable
  <1>9. size <= Size
    BY <1>1, <1>2
  <1>10. StaysInMemory(s)
    BY <1>2, <1>5, <1>6, <1>9 DEF StaysInMemory
  <1> HIDE DEF s, data
  <1>11. ASSUME NEW a \in Addresses
         PROVE  /\ Place(a, s) \in Nat
                /\ Place(a, s) < size <=> IF b = Size THEN a < BlockSize ELSE Masked(a, size) = b
                /\ Place(a, s) < size => b + Place(a, s) = IF b = Size THEN Size + a ELSE a
    <2> DEFINE p == (a - b) % Size
    <2>1. a \in Int /\ a - b \in Int /\ a \in 0 .. Size - 1
      BY <1>1, <1>2 DEF Addresses
    <2>2. Place(a, s) = p /\ p \in 0 .. Size - 1 /\ p \in Nat
      <3>1. Place(a, s) = p
        BY <1>6 DEF Place
      <3>2. p \in 0 .. Size - 1
        BY <1>1, <2>1, Division
      <3> HIDE DEF p
      <3> QED
        BY <1>1, <3>1, <3>2
    <2>3. CASE b = Size
      <3>1. a - b = (0 - 1) * Size + a
        BY <1>1, <2>1, <2>3
      <3>2. p = a
        <4>1. 0 - 1 \in Int /\ a \in 0 .. Size - 1 /\ a - b \in Int
          BY <2>1
        <4> HIDE DEF p
        <4>2. (a - b) % Size = a
          BY <1>1, <3>1, <4>1, DivisionUnique
        <4> QED
          BY <4>2 DEF p
      <3> QED
        BY <2>2, <2>3, <3>2
    <2>4. CASE b # Size
      <3>1. ASSUME Masked(a, size) = b PROVE p < size
        <4>1. b <= a /\ a < b + size
          BY <3>1, Constants, MaskedFacts
        <4>2. a - b \in 0 .. Size - 1 /\ a - b = 0 * Size + (a - b)
          BY <1>1, <1>2, <2>1, <4>1
        <4>3. p = a - b
          BY <1>1, <2>1, <4>2, DivisionUnique
        <4> QED
          BY <1>1, <1>2, <2>1, <4>1, <4>3
      <3>2. ASSUME p < size PROVE b + p = a /\ Masked(a, size) = b
        <4>1. (b + p) % Size = a
          BY <1>2, <2>2, PlaceInverse
        <4> HIDE DEF p
        <4>2. b + p \in 0 .. Size - 1 /\ b + p \in Int /\ b + p = 0 * Size + (b + p)
          BY <1>1, <1>2, <2>2, <2>4, <3>2
        <4>3. (b + p) % Size = b + p
          BY <1>1, <4>2, DivisionUnique
        <4>4. b + p = a
          BY <4>1, <4>3
        <4>5. PICK c \in Nat : b = c * size
          BY <1>2
        <4>6. p \in 0 .. size - 1 /\ a = c * size + p /\ c \in Int
          BY <1>1, <2>2, <3>2, <4>4, <4>5
        <4>7. a \div size = c
          BY <1>1, <2>1, <4>6, DivisionUnique
        <4> QED
          BY <4>4, <4>5, <4>7 DEF Masked
      <3> HIDE DEF p
      <3> QED
        BY <2>2, <2>4, <3>1, <3>2
    <2> QED
      BY <2>3, <2>4
  <1>12. ASSUME NEW a \in Addresses
         PROVE  Gives(s, a) <=> Place(a, s) < size /\ Masked(a, BlockSize) \notin Devices
    <2> DEFINE p == Place(a, s)
    <2>1. Gives(s, a) <=> p < size /\ ~ToDevice(b, p + 1)
      BY <1>5, <1>6, <1>8 DEF Gives
    <2>2. ASSUME p < size PROVE BlockStart(b, p + 1) = Masked(a, BlockSize)
      <3>1. p \in Nat /\ p + 1 \in 1 .. size /\ p \in 0 .. Size - 1 /\ (p + 1) - 1 = p
        BY <1>1, <1>9, <1>11, <2>2
      <3>2. p = (a - b) % Size
        BY <1>6 DEF Place
      <3> HIDE DEF p
      <3>3. (b + p) % Size = a
        BY <1>2, <3>1, <3>2, PlaceInverse
      <3>4. BlockStart(b, p + 1) = Masked((b + ((p + 1) - 1)) % Size, BlockSize)
        <4>1. size \in Nat
          BY <1>1
        <4> QED
          BY <1>2, <1>9, <3>1, <4>1, TargetIsPlace
      <3> QED
        BY <3>1, <3>3, <3>4
    <2> HIDE DEF p
    <2> QED
      BY <2>1, <2>2 DEF ToDevice, p
  <1>13. ASSUME NEW a \in Addresses, Gives(s, a)
         PROVE  LET x == IF b = Size THEN Size + a ELSE a
                IN  s.data[Place(a, s) + 1]
                      = IF x \in free \cup Devices /\ size > BlockSize THEN 0 ELSE ram[x]
    <2> DEFINE p == Place(a, s)
               x == IF b = Size THEN Size + a ELSE a
    <2>1. p \in Nat /\ p < size /\ b + p = x
      BY <1>11, <1>12, <1>13
    <2> HIDE DEF p, x
    <2>2. p + 1 \in 1 .. size /\ b + (p + 1) - 1 = x
      BY <1>1, <1>2, <2>1
    <2>3. data[p + 1] = IF x \in free \cup Devices /\ size > BlockSize THEN 0 ELSE ram[x]
      BY <2>2 DEF data, SectionData
    <2> QED
      BY <1>6, <2>3 DEF p, x
  <1>14. ASSUME NEW a \in Addresses
         PROVE  /\ Gives(s, a) => IF b = Size THEN a < BlockSize ELSE Masked(a, size) = b
                /\ ~Shadowed(a) /\ (IF b = Size THEN a < BlockSize ELSE Masked(a, size) = b)
                      => Gives(s, a)
    BY <1>11, <1>12 DEF Shadowed
  <1>15. ASSUME NEW a \in Addresses, Gives(s, a), b = Size
         PROVE  s.data[Place(a, s) + 1] = ram[Size + a]
    BY <1>1, <1>13, <1>15
  <1>16. ASSUME NEW a \in Addresses, Gives(s, a), b # Size, a \notin free, a \notin Devices
         PROVE  s.data[Place(a, s) + 1] = ram[a]
    BY <1>13, <1>16
  <1> QED
    BY <1>7, <1>8, <1>10, <1>14, <1>15, <1>16 DEF s

LEMMA DumpEffect ==
  ASSUME TypeInv, Dump, phase' = "reload"
  PROVE  /\ dump' \in Seq(Section) /\ Len(dump') <= MaxSections
         /\ \A i \in 1 .. Len(dump') : Loadable(dump'[i]) /\ StaysInMemory(dump'[i])
         /\ DumpSaves'
  <1> DEFINE size == ChooseFileBlockSize
             F == FileBlocks(size)
             n == Cardinality(F)
             sec(i) == NewSection(Ascending(F, i), size)
  <1>1. FileBlockSize(size) /\ n <= MaxSections
    BY ChosenSize
  <1>2. /\ ~ReadsBehindEnd /\ saved' = [ram |-> ram, free |-> free]
        /\ dump' = [i \in 1 .. n |-> sec(i)]
    BY DEF Dump
  <1>3. Size \in F => size = BlockSize
    <2>1. Size \in F => ~ (size > BlockSize)
      BY <1>2 DEF ReadsBehindEnd
    <2>2. size >= BlockSize
      BY <1>1, FileBlockIsLarge
    <2>3. size \in Nat /\ BlockSize \in Nat
      BY <1>1, Constants DEF FileBlockSize
    <2> HIDE DEF size
    <2> QED
      BY <2>1, <2>2, <2>3
  <1> HIDE DEF size
  <1>4. F \in SUBSET Nat /\ F \subseteq 0 .. Size /\ IsFiniteSet(F) /\ n \in Nat
    BY <1>1, FileBlocksFacts, Constants
  <1>5. F = {Masked(a, size) : a \in Storage \ free}
    BY <1>1, FileBlocksFacts
  <1>6. /\ \A i \in 1 .. n : Ascending(F, i) \in F
        /\ \A b \in F : \E i \in 1 .. n : Ascending(F, i) = b
        /\ \A i, j \in 1 .. n : Ascending(F, i) < Ascending(F, j) => i < j
        /\ \A i, j \in 1 .. n : Ascending(F, i) = Ascending(F, j) => i = j
    BY <1>4, AscendingFacts
  <1>7. ASSUME NEW i \in 1 .. n
        PROVE  LET b == Ascending(F, i)
               IN  /\ sec(i) \in Section /\ Loadable(sec(i)) /\ StaysInMemory(sec(i))
                   /\ \A a \in Addresses :
                        /\ Gives(sec(i), a) => IF b = Size THEN a < BlockSize ELSE Masked(a, size) = b
                        /\ ~Shadowed(a) /\ (IF b = Size THEN a < BlockSize ELSE Masked(a, size) = b)
                              => Gives(sec(i), a)
                        /\ Gives(sec(i), a) /\ b = Size
                              => sec(i).data[Place(a, sec(i)) + 1] = ram[Size + a]
                        /\ Gives(sec(i), a) /\ b # Size /\ a \notin free /\ a \notin Devices
                              => sec(i).data[Place(a, sec(i)) + 1] = ram[a]
    <2>1. Ascending(F, i) \in FileBlocks(size) /\ (Ascending(F, i) = Size => size = BlockSize)
      BY <1>3, <1>6
    <2> QED
      BY <1>1, <2>1, SectionFacts
  <1> HIDE DEF F, n, sec
  <1>8. dump' \in [1 .. n -> Section] /\ \A i \in 1 .. n : dump'[i] = sec(i)
    BY <1>2, <1>7
  <1>9. dump' \in Seq(Section) /\ Len(dump') = n
    BY <1>4, <1>8, FunctionIsSeq
  <1>10. BehindInUse' <=> Size \in F
    <2>1. BehindInUse' <=> \E a \in Storage \ Addresses : a \notin free
      BY <1>2 DEF BehindInUse
    <2>2. ASSUME NEW a \in Storage PROVE a \notin Addresses <=> Masked(a, size) = Size
      <3>1. /\ Masked(a, size) \in Nat
            /\ IF a \in Addresses THEN Masked(a, size) + size <= Size ELSE Masked(a, size) = Size
        BY <1>1, MaskedFacts
      <3>2. size \in Nat \ {0}
        BY <1>1 DEF FileBlockSize
      <3> QED
        BY <3>1, <3>2, Constants
    <2> QED
      BY <1>5, <2>1, <2>2
  <1>11. ASSUME NEW a \in Addresses, a \notin free, ~Shadowed(a)
         PROVE  \E i \in 1 .. n :
                   /\ Gives(sec(i), a) /\ \A j \in 1 .. n : Gives(sec(j), a) => j <= i
                   /\ sec(i).data[Place(a, sec(i)) + 1]
                        = ram[IF a < BlockSize /\ Size \in F THEN Size + a ELSE a]
    <2>1. CASE a < BlockSize /\ Size \in F
      <3>1. PICK i \in 1 .. n : Ascending(F, i) = Size
        BY <1>6, <2>1
      <3>2. Gives(sec(i), a) /\ sec(i).data[Place(a, sec(i)) + 1] = ram[Size + a]
        BY <1>7, <1>11, <2>1, <3>1
      <3>3. ASSUME NEW j \in 1 .. n PROVE j <= i
        <4>1. Ascending(F, j) \in 0 .. Size
          BY <1>4, <1>6
        <4>2. Ascending(F, j) < Ascending(F, i) \/ Ascending(F, j) = Ascending(F, i)
          BY <3>1, <4>1, Constants
        <4>3. j < i \/ j = i
          BY <1>6, <4>2
        <4> QED
          BY <1>4, <4>3
      <3> QED
        BY <2>1, <3>2, <3>3
    <2>2. CASE ~ (a < BlockSize /\ Size \in F)
      <3>1. Masked(a, size) \in F /\ Masked(a, size) # Size
        <4>1. a \in Storage
          BY Constants
        <4>2. Masked(a, size) \in Nat /\ Masked(a, size) + size <= Size
          BY <1>1, <4>1, MaskedFacts
        <4>3. size \in Nat \ {0}
          BY <1>1 DEF FileBlockSize
        <4>4. Masked(a, size) # Size
          BY <4>2, <4>3, Constants
        <4> QED
          BY <1>5, <1>11, <4>1, <4>4
      <3>2. PICK i \in 1 .. n : Ascending(F, i) = Masked(a, size)
        BY <1>6, <3>1
      <3>3. Gives(sec(i), a)
        BY <1>7, <1>11, <3>1, <3>2
      <3>4. sec(i).data[Place(a, sec(i)) + 1] = ram[a]
        BY <1>7, <1>11, <3>1, <3>2, <3>3 DEF Shadowed
      <3>5. ASSUME NEW j \in 1 .. n, Gives(sec(j), a) PROVE j <= i
        <4>1. Ascending(F, j) # Size
          BY <1>6, <1>7, <2>2, <3>5
        <4>2. Masked(a, size) = Ascending(F, j)
          BY <1>7, <3>5, <4>1
        <4>3. j = i
          BY <1>6, <3>2, <4>2
        <4> QED
          BY <1>4, <4>3
      <3> QED
        BY <2>2, <3>3, <3>4, <3>5
    <2> QED
      BY <2>1, <2>2
  <1>12. DumpSaves'
    <2>1. saved'.ram = ram /\ saved'.free = free
      BY <1>2
    <2> SUFFICES ASSUME NEW a \in Addresses \ free, ~Shadowed(a)
                 PROVE  \E i \in 1 .. n :
                           /\ Gives(dump'[i], a)
                           /\ \A j \in 1 .. n : Gives(dump'[j], a) => j <= i
                           /\ dump'[i].data[Place(a, dump'[i]) + 1]
                                = ram[IF a < BlockSize /\ BehindInUse' THEN Size + a ELSE a]
      BY <1>9, <2>1 DEF DumpSaves, Gives, Loadable, Place, Shadowed
    <2> QED
      BY <1>8, <1>10, <1>11
  <1> QED
    BY <1>1, <1>7, <1>8, <1>9, <1>12 DEF n, F

-----------------------------------------------------------------------------
(* The invariant is inductive *)

LEMMA LoadingUnchanged ==
  ASSUME Loading, UNCHANGED <<image, files, sections, memory>>
  PROVE  Loading'
  <1>1. PICK f \in Nat, k \in Nat : Progress(f, k) /\ \A b \in Addresses : LoadedSoFar(f, k, b)
    BY DEF Loading
  <1>2. Progress(f, k)'
    BY <1>1 DEF Progress
  <1>3. \A g, j, a : Covers(g, j, a)' = Covers(g, j, a) /\ ByteFor(g, j, a)' = ByteFor(g, j, a)
    BY ImageUnchanged
  <1>4. ASSUME NEW a \in Addresses PROVE LoadedSoFar(f, k, a)'
    BY <1>1, <1>3 DEF LoadedSoFar, memory
  <1> QED
    BY <1>2, <1>4 DEF Loading

LEMMA DumpSavesKept ==
  ASSUME DumpSaves, UNCHANGED <<dump, saved>>
  PROVE  DumpSaves'
  BY DEF DumpSaves, BehindInUse, Shadowed, Gives, Loadable, Place

LEMMA ImagesFacts ==
  ASSUME NEW files0 \in Images
  PROVE  /\ files0 \in Seq(File)
         /\ \A g \in 1 .. Len(files0) : files0[g] # Missing =>
               \A j \in 1 .. Len(files0[g]) : StaysInMemory(files0[g][j])
  <1>1. files0 \in Seq(File)
    BY TestImageAssumption DEF File
  <1>2. ASSUME NEW g \in 1 .. Len(files0), files0[g] # Missing
        PROVE  \A j \in 1 .. Len(files0[g]) : StaysInMemory(files0[g][j])
    <2>1. DOMAIN files0 = 1 .. Len(files0) /\ files0[g] \in File
      BY <1>1
    <2>2. files0[g] \in Range(files0)
      BY <2>1 DEF Range
    <2>3. files0[g] = Missing \/ \A i \in DOMAIN files0[g] : StaysInMemory(files0[g][i])
      BY <2>2, TestImageAssumption
    <2>4. files0[g] \in Seq(Section)
      BY <1>2, <2>1 DEF File
    <2>5. DOMAIN files0[g] = 1 .. Len(files0[g])
      BY <2>4
    <2> QED
      BY <1>2, <2>3, <2>5
  <1> QED
    BY <1>1, <1>2

LEMMA InvInit == Init => Inv
  <1> SUFFICES ASSUME Init PROVE Inv
    OBVIOUS
  <1>1. TypeInv
    <2>1. image \in Images /\ files = image /\ sections = <<>> /\ dump = <<>> /\ rerun = FALSE
      BY DEF Init
    <2>2. <<>> \in Seq(Section) /\ Len(<<>>) = 0
      OBVIOUS
    <2>3. ram \in [Storage -> Byte] /\ free \subseteq Storage
      BY DEF Init, NewMemory, Byte
    <2>4. phase = "load"
      BY DEF Init
    <2>5. /\ image \in Seq(File)
          /\ \A g \in 1 .. Len(image) : image[g] # Missing =>
                \A j \in 1 .. Len(image[g]) : StaysInMemory(image[g][j])
      BY <2>1, ImagesFacts
    <2>6. dump \in Seq(Section) /\ \A i \in 1 .. Len(dump) : Loadable(dump[i]) /\ StaysInMemory(dump[i])
      BY <2>1, <2>2
    <2> QED
      BY <2>1, <2>2, <2>3, <2>4, <2>5, <2>6 DEF TypeInv
  <1>2. Loading
    BY <1>1, NothingLoaded DEF Init, NewMemory
  <1> QED
    BY <1>1, <1>2 DEF Init, Inv

LEMMA LoadSectionKeeps ==
  ASSUME Inv, LoadSection
  PROVE  Inv'
  <1>0. TypeInv /\ Loading /\ phase = "load"
    BY DEF Inv, LoadSection
  <1>1. /\ sections \in Seq(Section) /\ sections # <<>> /\ sections' = Tail(sections)
        /\ UNCHANGED <<phase, files, dump, rerun, image, saved>>
    BY <1>0 DEF TypeInv, LoadSection, others
  <1>2. PICK f \in Nat, k \in Nat : Progress(f, k) /\ \A b \in Addresses : LoadedSoFar(f, k, b)
    BY <1>0 DEF Loading
  <1>3. Loading'
    <2>1. Progress(f, k + 1)' /\ \A a \in Addresses : LoadedSoFar(f, k + 1, a)'
      BY <1>0, <1>2, LoadSectionProgress, LoadSectionLoads
    <2>2. k + 1 \in Nat
      OBVIOUS
    <2> QED
      BY <2>1, <2>2 DEF Loading
  <1>4. ram' \in [Storage -> Byte] /\ free' \subseteq Storage
    <2> DEFINE s == Head(sections)
    <2>1. s \in Section /\ StaysInMemory(s)
      BY <1>0, <1>1, <1>2, TailFacts, NextSection
    <2>2. s.data \in Seq(Byte)
      BY <2>1 DEF Section
    <2>3. CASE Loadable(s)
      <3>1. /\ ram' = [b \in Storage |->
                         IF Written(s, b) = {} THEN ram[b] ELSE s.data[Max(Written(s, b))]]
            /\ free' = {b \in free : Written(s, b) = {}}
        BY <2>3 DEF LoadSection, Written
      <3>2. ASSUME NEW b \in Storage, Written(s, b) # {} PROVE s.data[Max(Written(s, b))] \in Byte
        <4> DEFINE p == Place(b, s)
        <4> HIDE DEF s
        <4>1. b \in Addresses
          BY <2>1, <3>2, NothingBehind
        <4>2. p \in Nat /\ Gives(s, b) /\ Written(s, b) = {p + 1}
          BY <2>1, <2>3, <3>2, <4>1, WrittenOnce
        <4>3. p < Len(s.data)
          BY <4>2 DEF Gives
        <4> HIDE DEF p
        <4>4. p + 1 \in 1 .. Len(s.data) /\ Max(Written(s, b)) = p + 1
          BY <2>2, <4>2, <4>3, MaxOfOne
        <4> QED
          BY <2>2, <4>4
      <3> HIDE DEF s
      <3> QED
        BY <1>0, <3>1, <3>2 DEF TypeInv
    <2>4. CASE ~ Loadable(s)
      BY <1>0, <2>4 DEF LoadSection, TypeInv, memory
    <2> QED
      BY <2>3, <2>4
  <1>5. sections' \in Seq(Section)
    BY <1>1, TailFacts
  <1>6. TypeInv'
    BY <1>0, <1>1, <1>4, <1>5 DEF TypeInv, StaysInMemory, Loadable
  <1>7. phase' = "load" /\ (rerun' => DumpSaves')
    BY <1>0, <1>1, DumpSavesKept DEF Inv
  <1> QED
    BY <1>1, <1>3, <1>6, <1>7 DEF Inv, SectionCount, FileSections

LEMMA OpenFileKeeps ==
  ASSUME Inv, OpenFile
  PROVE  Inv'
  <1>0. TypeInv /\ Loading /\ phase = "load"
    BY DEF Inv, OpenFile
  <1>1. UNCHANGED <<phase, ram, free, dump, rerun, image, saved>>
    BY DEF OpenFile, memory, others
  <1>2. PICK f \in Nat, k \in Nat : Progress(f, k) /\ \A b \in Addresses : LoadedSoFar(f, k, b)
    BY <1>0 DEF Loading
  <1>3. Progress(f + 1, 0)' /\ sections' \in Seq(Section) /\ files' \in Seq(File)
    BY <1>0, <1>2, OpenFileProgress
  <1>4. Loading'
    <2>1. \A a \in Addresses : LoadedSoFar(f + 1, 0, a)'
      BY <1>0, <1>2, OpenFileLoads
    <2>2. f + 1 \in Nat /\ 0 \in Nat
      OBVIOUS
    <2> QED
      BY <1>3, <2>1, <2>2 DEF Loading
  <1>5. TypeInv'
    BY <1>0, <1>1, <1>3 DEF TypeInv, StaysInMemory, Loadable
  <1>6. phase' = "load" /\ (rerun' => DumpSaves')
    BY <1>0, <1>1, DumpSavesKept DEF Inv
  <1> QED
    BY <1>1, <1>4, <1>5, <1>6 DEF Inv, SectionCount, FileSections

LEMMA NotRerun ==
  ASSUME Inv, phase \notin {"load", "done"}
  PROVE  rerun = FALSE
  BY DEF Inv, TypeInv

\* the sections of a dump can be read
LEMMA ReadFailsKeeps ==
  ASSUME Inv, ReadFails
  PROVE  Inv'
  <1>0. TypeInv /\ Loading /\ phase = "load"
    BY DEF Inv, ReadFails
  <1>1. UNCHANGED <<files, sections, ram, free, dump, rerun, image, saved>> /\ phase' = "signature"
    BY DEF ReadFails, memory, others
  <1>2. ~rerun
    <2> SUFFICES ASSUME rerun PROVE FALSE
      OBVIOUS
    <2> DEFINE X == IF SectionCount(dump) = 0 THEN <<>> ELSE dump
    <2>1. image = <<X>>
      BY DEF Inv
    <2>2. \A i \in 1 .. Len(X) : Loadable(X[i])
      BY <1>0 DEF TypeInv
    <2> HIDE DEF X
    <2>3. Len(image) = 1 /\ image[1] = X
      BY <2>1
    <2>4. PICK f \in Nat, k \in Nat : Progress(f, k)
      BY <1>0 DEF Loading
    <2>5. f \in 1 .. Len(image) /\ k + 1 \in 1 .. Len(image[f]) /\ Head(sections) = image[f][k + 1]
      BY <1>0, <2>4, NextSection DEF ReadFails
    <2>6. Loadable(Head(sections))
      BY <2>2, <2>3, <2>5
    <2> QED
      BY <2>6 DEF ReadFails, Loadable
  <1>3. TypeInv'
    BY <1>0, <1>1 DEF TypeInv, StaysInMemory, Loadable
  <1> QED
    BY <1>1, <1>2, <1>3 DEF Inv

\* a dump can be opened
LEMMA CannotOpenKeeps ==
  ASSUME Inv, CannotOpen
  PROVE  Inv'
  <1>0. TypeInv /\ Loading /\ phase = "load"
    BY DEF Inv, CannotOpen
  <1>1. UNCHANGED <<files, sections, ram, free, dump, rerun, image, saved>> /\ phase' = "signature"
    BY DEF CannotOpen, memory, others
  <1>2. ~rerun
    <2> SUFFICES ASSUME rerun PROVE FALSE
      OBVIOUS
    <2> DEFINE X == IF SectionCount(dump) = 0 THEN <<>> ELSE dump
    <2>1. image = <<X>>
      BY DEF Inv
    <2>2. X \in Seq(Section)
      BY <1>0 DEF TypeInv
    <2> HIDE DEF X
    <2>3. Len(image) = 1 /\ image[1] = X
      BY <2>1
    <2>4. PICK f \in Nat, k \in Nat : Progress(f, k)
      BY <1>0 DEF Loading
    <2>5. files # <<>> /\ Head(files) = Missing
      BY DEF CannotOpen
    <2>6. Len(files) \in Nat /\ Len(files) >= 1 /\ Head(files) = files[1]
      BY <1>0, <2>5, TailFacts DEF TypeInv
    <2>7. f + 1 \in 1 .. Len(image) /\ files[1] = image[f + 1]
      BY <2>3, <2>4, <2>6 DEF Progress
    <2>8. Head(files) = X
      BY <2>3, <2>6, <2>7
    <2> QED
      BY <2>2, <2>5, <2>8, TestImageAssumption
  <1>3. TypeInv'
    BY <1>0, <1>1 DEF TypeInv, StaysInMemory, Loadable
  <1> QED
    BY <1>1, <1>2, <1>3 DEF Inv

LEMMA LoadedKeeps ==
  ASSUME Inv, Loaded
  PROVE  Inv'
  <1>0. TypeInv /\ Loading /\ phase = "load"
    BY DEF Inv, Loaded
  <1>1. /\ UNCHANGED <<files, sections, ram, free, dump, rerun, image, saved>>
        /\ phase' = (IF rerun THEN "done" ELSE "run") /\ files = <<>> /\ sections = <<>>
    BY DEF Loaded, memory, others
  <1>2. Loading'
    BY <1>0, <1>1, LoadingUnchanged DEF memory
  <1>3. TypeInv'
    BY <1>0, <1>1 DEF TypeInv, StaysInMemory, Loadable
  <1>4. rerun => DumpSaves'
    BY <1>1, DumpSavesKept DEF Inv
  <1> QED
    BY <1>1, <1>2, <1>3, <1>4 DEF Inv, SectionCount, FileSections

LEMMA ReadBytesKeeps ==
  ASSUME TypeInv, NEW bytes, ReadBytes(bytes)
  PROVE  ram' \in [Storage -> Byte] /\ free' \subseteq Storage
  <1>1. {0, 1} \subseteq Byte
    BY DEF Byte
  <1> QED
    BY <1>1 DEF ReadBytes, TypeInv

\* what the program does
Running == \/ \E access \in Accesses : Store(access[1], access[2])
           \/ \E access \in Accesses : Load(access[1], access[2])

LEMMA RunKeeps ==
  ASSUME Inv, EndRun \/ WriteTestSignature \/ Running
  PROVE  Inv'
  <1>1. TypeInv /\ rerun = FALSE
    <2>1. phase \in {"run", "signature"}
      BY DEF EndRun, WriteTestSignature, Running, Store, Load
    <2> QED
      BY <2>1, NotRerun DEF Inv
  <1>2. UNCHANGED <<files, sections, dump, rerun, image, saved>>
    BY DEF EndRun, WriteTestSignature, Running, Store, Load, others
  <1>3. phase' \in {"run", "signature", "dump", "done"}
    BY DEF EndRun, WriteTestSignature, Running, Store, Load
  <1>4. ram' \in [Storage -> Byte] /\ free' \subseteq Storage
    <2>1. 2 \in Byte
      BY DEF Byte
    <2>2. CASE EndRun
      BY <1>1, <2>2 DEF EndRun, memory, TypeInv
    <2>3. CASE \E access \in Accesses : Store(access[1], access[2])
      BY <1>1, <2>1, <2>3 DEF Store, TypeInv
    <2>4. CASE \E access \in Accesses : Load(access[1], access[2])
      BY <1>1, <2>4, ReadBytesKeeps DEF Load
    <2>5. CASE WriteTestSignature
      <3>1. UNCHANGED memory \/ \E bytes : ReadBytes(bytes)
        BY <2>5 DEF WriteTestSignature
      <3> QED
        BY <1>1, <3>1, ReadBytesKeeps DEF memory, TypeInv
    <2> QED
      BY <2>2, <2>3, <2>4, <2>5 DEF Running
  <1>5. TypeInv'
    BY <1>1, <1>2, <1>3, <1>4 DEF TypeInv, StaysInMemory, Loadable
  <1> QED
    BY <1>1, <1>2, <1>3, <1>5 DEF Inv

LEMMA DumpKeeps ==
  ASSUME Inv, Dump
  PROVE  Inv'
  <1>1. TypeInv /\ rerun = FALSE
    <2>1. phase = "dump"
      BY DEF Dump
    <2> QED
      BY <2>1, NotRerun DEF Inv
  <1>2. UNCHANGED <<files, sections, rerun, image>>
    BY DEF Dump
  <1>3. CASE TooManySections \/ ReadsBehindEnd
    <2>1. phase' = "done" /\ UNCHANGED <<ram, free, dump>>
      BY <1>3 DEF Dump, memory
    <2>2. TypeInv'
      BY <1>1, <1>2, <2>1 DEF TypeInv, StaysInMemory, Loadable
    <2> QED
      BY <1>1, <1>2, <2>1, <2>2 DEF Inv
  <1>4. CASE ~ (TooManySections \/ ReadsBehindEnd)
    <2>1. phase' = "reload" /\ \E bytes : ReadBytes(bytes)
      BY <1>4 DEF Dump
    <2>2. ram' \in [Storage -> Byte] /\ free' \subseteq Storage
      BY <1>1, <2>1, ReadBytesKeeps
    <2>3. /\ dump' \in Seq(Section) /\ DumpSaves'
          /\ \A i \in 1 .. Len(dump') : Loadable(dump'[i]) /\ StaysInMemory(dump'[i])
      BY <1>1, <2>1, DumpEffect
    <2>4. TypeInv'
      BY <1>1, <1>2, <2>1, <2>2, <2>3 DEF TypeInv, StaysInMemory, Loadable
    <2> QED
      BY <1>1, <1>2, <2>1, <2>3, <2>4 DEF Inv
  <1> QED
    BY <1>3, <1>4

LEMMA ReloadKeeps ==
  ASSUME Inv, Reload
  PROVE  Inv'
  <1> DEFINE X == IF SectionCount(dump) = 0 THEN <<>> ELSE dump
  <1>0. TypeInv /\ DumpSaves
    BY DEF Inv, Reload
  <1>1. /\ phase' = "load" /\ rerun' = TRUE /\ image' = <<X>> /\ files' = image' /\ sections' = <<>>
        /\ ram' = [a \in Storage |-> Garbage] /\ free' = Storage
        /\ UNCHANGED <<dump, saved>>
    BY DEF Reload
  <1>2. X \in Seq(Section) /\ \A i \in 1 .. Len(X) : StaysInMemory(X[i])
    BY <1>0 DEF TypeInv
  <1>3. DumpSaves' /\ SectionCount(dump)' = SectionCount(dump)
    BY <1>0, <1>1, DumpSavesKept DEF SectionCount, FileSections
  <1>4. image' = <<IF SectionCount(dump)' = 0 THEN <<>> ELSE dump'>>
    BY <1>1, <1>3
  <1> HIDE DEF X
  <1>5. TypeInv'
    <2>1. X \in File
      BY <1>2 DEF File
    <2>2. image' \in Seq(File) /\ Len(image') = 1 /\ image'[1] = X
      BY <1>1, <2>1
    <2>3. sections' \in Seq(Section) /\ ram' \in [Storage -> Byte]
      BY <1>1 DEF Byte
    <2>4. \A g \in 1 .. Len(image') : image'[g] # Missing =>
              \A j \in 1 .. Len(image'[g]) : StaysInMemory(image'[g][j])
      BY <1>2, <2>2
    <2> QED
      BY <1>0, <1>1, <2>2, <2>3, <2>4 DEF TypeInv, StaysInMemory, Loadable
  <1>6. Loading'
    <2>1. (TypeInv /\ files = image /\ sections = <<>> /\ free = Storage)'
      BY <1>1, <1>5
    <2> QED
      BY <2>1, NothingLoaded, PTL
  <1> QED
    BY <1>1, <1>3, <1>4, <1>5, <1>6 DEF Inv

LEMMA InvNext == Inv /\ [Next]_vars => Inv'
  <1> SUFFICES ASSUME Inv, [Next]_vars PROVE Inv'
    OBVIOUS
  <1>1. CASE OpenFile
    BY <1>1, OpenFileKeeps
  <1>2. CASE CannotOpen
    BY <1>2, CannotOpenKeeps
  <1>3. CASE LoadSection
    BY <1>3, LoadSectionKeeps
  <1>4. CASE Loaded
    BY <1>4, LoadedKeeps
  <1>5. CASE EndRun \/ WriteTestSignature \/ Running
    BY <1>5, RunKeeps
  <1>6. CASE Dump
    BY <1>6, DumpKeeps
  <1>7. CASE Reload
    BY <1>7, ReloadKeeps
  <1>8. CASE Finished \/ UNCHANGED vars
    <2>1. UNCHANGED <<phase, files, sections, ram, free, dump, rerun, image, saved>>
      BY <1>8 DEF Finished, vars, memory, others
    <2>2. Loading => Loading'
      BY <2>1, LoadingUnchanged DEF memory
    <2>3. TypeInv'
      BY <2>1 DEF Inv, TypeInv, StaysInMemory, Loadable
    <2>4. DumpSaves => DumpSaves'
      BY <2>1, DumpSavesKept
    <2> QED
      BY <2>1, <2>2, <2>3, <2>4 DEF Inv, SectionCount, FileSections
  <1>9. CASE ReadFails
    BY <1>9, ReadFailsKeeps
  <1> QED
    BY <1>1, <1>2, <1>3, <1>4, <1>5, <1>6, <1>7, <1>8, <1>9 DEF Next, Running

-----------------------------------------------------------------------------
(* The theorems *)

LEMMA InvHolds == Spec => []Inv
  BY InvInit, InvNext, PTL DEF Spec

(* When all files are loaded, every address has the byte that the last       *)
(* section with one gives it (ELFIO::Load, LoadTestImage), for every image   *)
(* whose sections stay in memory and every size of a block.                  *)
THEOREM ImageLoaded == Spec => []LoadedImage
  <1>1. Inv => LoadedImage
    BY LoadingLoads DEF Inv
  <1> QED
    BY <1>1, InvHolds, PTL

LEMMA SavedIsFound ==
  ASSUME Inv
  PROVE  DumpReloads
  <1> DEFINE from(a) == IF a < BlockSize /\ BehindInUse THEN Size + a ELSE a
  <1> SUFFICES ASSUME phase = "done", rerun, FileSections(dump) < MaxSections,
                      NEW a \in Addresses \ saved.free, ~Shadowed(a)
               PROVE  a \notin free /\ ram[a] = saved.ram[from(a)]
    BY DEF DumpReloads
  <1> HIDE DEF from
  <1>1. /\ TypeInv /\ Loading /\ files = <<>> /\ sections = <<>> /\ DumpSaves
        /\ image = <<IF SectionCount(dump) = 0 THEN <<>> ELSE dump>>
    BY DEF Inv
  <1>2. Len(dump) \in Nat /\ FileSections(dump) # 0 /\ Len(image) = 1
    BY <1>1 DEF TypeInv, FileSections
  <1>3. image[1] = dump
    <2>1. SectionCount(dump) # 0
      BY <1>2, Constants DEF SectionCount, FileSections
    <2> QED
      BY <1>1, <2>1
  <1>4. dump # Missing
    BY <1>1, TestImageAssumption DEF TypeInv
  <1>5. \A g, j \in Nat : Covers(g, j, a) <=> g = 1 /\ j \in 1 .. Len(dump) /\ Gives(dump[j], a)
    BY <1>2, <1>3, <1>4 DEF Covers
  <1>6. PICK i \in 1 .. Len(dump) :
            /\ Gives(dump[i], a) /\ \A j \in 1 .. Len(dump) : Gives(dump[j], a) => j <= i
            /\ dump[i].data[Place(a, dump[i]) + 1] = saved.ram[from(a)]
    BY <1>1 DEF DumpSaves, from
  <1>7. Covers(1, i, a) /\ 1 \in Nat /\ i \in Nat
    BY <1>2, <1>5, <1>6
  <1>8. /\ a \notin free
        /\ \E g, j \in Nat : /\ Covers(g, j, a) /\ ram[a] = ByteFor(g, j, a)
                             /\ \A h, k \in Nat : Covers(h, k, a) => Before(h, k, g, j)
    BY <1>1, <1>7, AllLoaded
  <1>9. PICK g \in Nat, j \in Nat : /\ Covers(g, j, a) /\ ram[a] = ByteFor(g, j, a)
                                    /\ \A h, k \in Nat : Covers(h, k, a) => Before(h, k, g, j)
    BY <1>8
  <1>10. g = 1 /\ j = i
    <2>1. g = 1 /\ j \in 1 .. Len(dump) /\ Gives(dump[j], a)
      BY <1>5, <1>9
    <2>2. j <= i /\ i <= j
      BY <1>6, <1>7, <1>9, <2>1 DEF Before
    <2> QED
      BY <1>2, <2>1, <2>2
  <1>11. ram[a] = dump[i].data[Place(a, dump[i]) + 1]
    BY <1>3, <1>9, <1>10 DEF ByteFor
  <1> QED
    BY <1>6, <1>8, <1>11

(* A run that loads a dump of few enough sections finds every byte that had  *)
(* a value when it was made (ELFIO::Save, then ELFIO::Load), whatever sizes  *)
(* were tried and wherever the windows of the devices are: except under a    *)
(* window, and in block 0 if the block behind the last address was in use,   *)
(* which is then found there.                                                *)
THEOREM DumpReloaded == Spec => []DumpReloads
  <1>1. Inv => DumpReloads
    BY SavedIsFound
  <1> QED
    BY <1>1, InvHolds, PTL

(* A dump has no more sections of memory than the maximum, although the      *)
(* estimate leaves out the block at address 0, and the error for a memory    *)
(* that is too large is never reached: the last trial size makes one block   *)
(* of memory (ELFIO::ChooseFileBlockSize).                                   *)
THEOREM SectionsAreFew == Spec => []SectionsFit
  <1> DEFINE Fit == Len(dump) <= MaxSections
  <1>1. Init => Fit
    <2>1. Len(<<>>) = 0
      OBVIOUS
    <2> QED
      BY <2>1, Constants DEF Init
  <1>2. Inv /\ Fit /\ [Next]_vars => Fit'
    <2> SUFFICES ASSUME Inv, Fit, [Next]_vars PROVE Fit'
      OBVIOUS
    <2>1. CASE Dump
      <3>1. phase' = "reload" \/ dump' = dump
        BY <2>1 DEF Dump
      <3> QED
        BY <2>1, <3>1, DumpEffect DEF Inv
    <2>2. CASE ~Dump
      <3>1. dump' = dump
        BY <2>2 DEF Next, vars, others, OpenFile, CannotOpen, LoadSection, ReadFails, Loaded,
                    Store, Load, EndRun, WriteTestSignature, Reload, Finished
      <3> QED
        BY <3>1
    <2> QED
      BY <2>1, <2>2
  <1>3. Fit => SectionsFit
    BY ChosenSize DEF SectionsFit
  <1> HIDE DEF Fit
  <1> QED
    BY <1>1, <1>2, <1>3, InvHolds, PTL DEF Spec
=============================================================================
