------------------------- MODULE PhysicalMemoryProofs -------------------------
(* The block-structured memory implements the flat one, for every block size *)
(* and every set of accesses.                                                *)
EXTENDS PhysicalMemory, TLAPS

-----------------------------------------------------------------------------
(* Addresses *)

LEMMA Products ==
  ASSUME NEW K \in Nat \ {0}, NEW d \in Int
  PROVE  /\ d * K \in Int
         /\ d >= 0 => d * K >= 0
         /\ d >= 1 => d * K >= K
         /\ d >= 2 => d * K >= 2 * K
         /\ d <= -1 => d * K <= -K
  OBVIOUS

\* an address is its block and its offset
LEMMA Decomposition ==
  ASSUME NEW x \in Nat
  PROVE  /\ BlockAddress(x) \in Nat /\ Offset(x) \in Offsets
         /\ x = BlockAddress(x) * BlockSize + Offset(x)
  BY PhysicalMemoryAssumption DEF BlockAddress, Offset, Offsets

LEMMA AddressType ==
  ASSUME NEW x \in Addresses
  PROVE  x \in Nat /\ BlockAddress(x) \in Blocks /\ Offset(x) \in Offsets
  <1> DEFINE b == BlockAddress(x)
  <1>1. x \in Nat /\ x < (NumBlocks + 1) * BlockSize
    BY PhysicalMemoryAssumption DEF Addresses
  <1>2. b \in Nat /\ Offset(x) \in Offsets /\ x = b * BlockSize + Offset(x)
    BY <1>1, Decomposition
  <1>3. Offset(x) \in Nat
    BY <1>2 DEF Offsets
  <1> HIDE DEF b
  <1>4. ASSUME b >= NumBlocks + 1 PROVE FALSE
    <2>1. (b - (NumBlocks + 1)) * BlockSize >= 0
      BY <1>2, <1>4, Products, PhysicalMemoryAssumption
    <2>2. (b - (NumBlocks + 1)) * BlockSize = b * BlockSize - (NumBlocks + 1) * BlockSize
      BY <1>2, PhysicalMemoryAssumption
    <2> QED
      BY <1>1, <1>2, <1>3, <2>1, <2>2, Products, PhysicalMemoryAssumption
  <1> QED
    BY <1>1, <1>2, <1>4, PhysicalMemoryAssumption DEF Blocks, b

\* the offsets of block c that an access of n bytes at a reaches
Part(a, n, c) ==
    IF c = BlockAddress(a) THEN Offset(a) .. Offset(a) + FirstPart(a, n) - 1
    ELSE IF Split(a, n) /\ c = BlockAddress(a) + 1 THEN 0 .. n - FirstPart(a, n) - 1
    ELSE {}

IsAccess(a, n) == a \in 0 .. NumBlocks * BlockSize - 1 /\ n \in 1 .. BlockSize

LEMMA AccessType ==
  ASSUME NEW a, NEW n, IsAccess(a, n)
  PROVE  /\ a \in Nat /\ a \in Addresses /\ n \in Nat /\ n >= 1 /\ n <= BlockSize
         /\ BlockAddress(a) \in 0 .. NumBlocks - 1
         /\ Offset(a) \in Offsets
         /\ FirstPart(a, n) \in 1 .. n
         /\ Offset(a) + FirstPart(a, n) <= BlockSize
         /\ n - FirstPart(a, n) < BlockSize
         /\ Split(a, n) => FirstPart(a, n) = BlockSize - Offset(a) /\ n - FirstPart(a, n) >= 1
         /\ ~Split(a, n) => FirstPart(a, n) = n
  <1> DEFINE b == BlockAddress(a)
  <1>1. a \in Nat /\ a < NumBlocks * BlockSize /\ n \in Nat /\ n >= 1 /\ n <= BlockSize
    BY Products, PhysicalMemoryAssumption DEF IsAccess
  <1>2. b \in Nat /\ Offset(a) \in Offsets /\ a = b * BlockSize + Offset(a)
    BY <1>1, Decomposition
  <1>3. NumBlocks * BlockSize \in Nat /\ (NumBlocks + 1) * BlockSize = NumBlocks * BlockSize + BlockSize
    BY PhysicalMemoryAssumption
  <1>4. a \in Addresses
    BY <1>1, <1>3, PhysicalMemoryAssumption DEF Addresses
  <1> HIDE DEF b
  <1>5. ASSUME b >= NumBlocks PROVE FALSE
    <2>1. (b - NumBlocks) * BlockSize >= 0
      BY <1>2, <1>5, Products, PhysicalMemoryAssumption
    <2>2. (b - NumBlocks) * BlockSize = b * BlockSize - NumBlocks * BlockSize
      BY <1>2, PhysicalMemoryAssumption
    <2>3. b * BlockSize \in Int
      BY <1>2, PhysicalMemoryAssumption
    <2> QED
      BY <1>1, <1>2, <1>3, <2>1, <2>2, <2>3 DEF Offsets
  <1>6. b \in 0 .. NumBlocks - 1
    BY <1>2, <1>5, PhysicalMemoryAssumption
  <1>7. /\ FirstPart(a, n) \in 1 .. n
        /\ Offset(a) + FirstPart(a, n) <= BlockSize
        /\ n - FirstPart(a, n) < BlockSize
        /\ Split(a, n) => FirstPart(a, n) = BlockSize - Offset(a) /\ n - FirstPart(a, n) >= 1
        /\ ~Split(a, n) => FirstPart(a, n) = n
    BY <1>1, <1>2, PhysicalMemoryAssumption DEF FirstPart, Split, Offsets
  <1> QED
    BY <1>1, <1>2, <1>4, <1>6, <1>7 DEF b

\* an access reaches exactly the bytes of its span, in order
LEMMA SpanParts ==
  ASSUME NEW a, NEW n, IsAccess(a, n), NEW x \in Addresses
  PROVE  /\ x \in a .. a + n - 1 <=> Offset(x) \in Part(a, n, BlockAddress(x))
         /\ BlockAddress(x) = BlockAddress(a) => x - a = Offset(x) - Offset(a)
         /\ BlockAddress(x) = BlockAddress(a) + 1 => x - a = Offset(x) + BlockSize - Offset(a)
  <1> DEFINE b == BlockAddress(a)
             c == BlockAddress(x)
             K == BlockSize
             d == c - b
  <1>1. /\ a \in Nat /\ n \in Nat /\ n >= 1 /\ n <= K /\ x \in Nat
        /\ b \in Nat /\ c \in Nat /\ Offset(a) \in 0 .. K - 1 /\ Offset(x) \in 0 .. K - 1
        /\ a = b * K + Offset(a) /\ x = c * K + Offset(x) /\ K \in Nat \ {0}
    BY AccessType, AddressType, Decomposition, PhysicalMemoryAssumption DEF Offsets
  <1>2. d \in Int /\ d * K \in Int /\ d * K = c * K - b * K /\ c * K \in Int /\ b * K \in Int
    <2> HIDE DEF b, c, K
    <2> QED BY <1>1
  <1>3. x - a = d * K + Offset(x) - Offset(a)
    <2> DEFINE P == d * K
               Q == c * K
               R == b * K
    <2>1. P \in Int /\ Q \in Int /\ R \in Int /\ P = Q - R
      BY <1>2
    <2>2. a = R + Offset(a) /\ x = Q + Offset(x) /\ Offset(a) \in Int /\ Offset(x) \in Int
      BY <1>1
    <2>3. x - a = P + Offset(x) - Offset(a)
      <3> HIDE DEF P, Q, R
      <3> QED BY <2>1, <2>2
    <2> QED BY <2>3
  <1>4. /\ d >= 2 => d * K >= 2 * K
        /\ d <= -1 => d * K <= -K
        /\ d = 0 => d * K = 0
        /\ d = 1 => d * K = K
    <2> HIDE DEF b, c, K, d
    <2> QED BY <1>1, <1>2, Products
  <1>7. (d = 0 <=> c = b) /\ (d = 1 <=> c = b + 1)
    <2> HIDE DEF b, c
    <2> QED BY <1>1
  <1>5. Part(a, n, c) = IF d = 0 THEN Offset(a) .. Offset(a) + FirstPart(a, n) - 1
                        ELSE IF Offset(a) + n > K /\ d = 1 THEN 0 .. n - FirstPart(a, n) - 1 ELSE {}
    <2>1. Part(a, n, c) = IF c = b THEN Offset(a) .. Offset(a) + FirstPart(a, n) - 1
                          ELSE IF Split(a, n) /\ c = b + 1 THEN 0 .. n - FirstPart(a, n) - 1 ELSE {}
      BY DEF Part
    <2>2. Split(a, n) <=> Offset(a) + n > K
      BY DEF Split
    <2> HIDE DEF b, c, d, K
    <2> QED BY <1>7, <2>1, <2>2
  <1>6. FirstPart(a, n) = IF Offset(a) + n > K THEN K - Offset(a) ELSE n
    BY DEF FirstPart, Split
  <1> DEFINE dK == d * K
  <1>8. dK \in Int /\ d \in Int
    BY <1>2
  <1> SUFFICES /\ x \in a .. a + n - 1 <=> Offset(x) \in Part(a, n, c)
               /\ d = 0 => x - a = Offset(x) - Offset(a)
               /\ d = 1 => x - a = Offset(x) + K - Offset(a)
    BY <1>7
  <1>9. x - a = dK + Offset(x) - Offset(a) /\ (d >= 2 => dK >= 2 * K) /\ (d <= -1 => dK <= -K)
        /\ (d = 0 => dK = 0) /\ (d = 1 => dK = K)
    BY <1>3, <1>4
  <1> HIDE DEF dK, d, c, b, K
  <1>10. CASE d >= 2
    BY <1>10, <1>1, <1>5, <1>6, <1>8, <1>9
  <1>11. CASE d <= -1
    BY <1>11, <1>1, <1>5, <1>6, <1>8, <1>9
  <1>14. x \in a .. a + n - 1 <=> 0 <= x - a /\ x - a <= n - 1
    BY <1>1
  <1>15. Offset(a) \in Int /\ Offset(x) \in Int /\ 0 <= Offset(x) /\ Offset(x) <= K - 1 /\ n \in Int /\ K \in Int
    BY <1>1
  <1>12. CASE d = 0
    <2>1. x - a = Offset(x) - Offset(a)
      BY <1>12, <1>9, <1>15
    <2>2. CASE Offset(a) + n > K
      <3>1. Part(a, n, c) = Offset(a) .. Offset(a) + (K - Offset(a)) - 1
        BY <1>12, <1>5, <1>6, <2>2
      <3> QED
        BY <1>12, <1>14, <1>15, <2>1, <2>2, <3>1
    <2>3. CASE ~(Offset(a) + n > K)
      <3>1. Part(a, n, c) = Offset(a) .. Offset(a) + n - 1
        BY <1>12, <1>5, <1>6, <2>3
      <3> QED
        BY <1>12, <1>14, <1>15, <2>1, <3>1
    <2> QED
      BY <2>2, <2>3
  <1>13. CASE d = 1
    <2>1. x - a = K + Offset(x) - Offset(a)
      BY <1>13, <1>9
    <2>2. CASE Offset(a) + n > K
      <3>1. Part(a, n, c) = 0 .. n - (K - Offset(a)) - 1
        BY <1>13, <1>5, <1>6, <2>2
      <3>2. Offset(x) \in Part(a, n, c) <=> Offset(x) <= n - (K - Offset(a)) - 1
        BY <1>15, <3>1
      <3>3. x \in a .. a + n - 1 <=> K + Offset(x) - Offset(a) <= n - 1
        <4>1. 0 <= K + Offset(x) - Offset(a)
          BY <1>1, <1>15
        <4> QED
          BY <1>14, <2>1, <4>1
      <3>4. K + Offset(x) - Offset(a) <= n - 1 <=> Offset(x) <= n - (K - Offset(a)) - 1
        BY <1>15
      <3>5. x - a = Offset(x) + K - Offset(a)
        BY <1>15, <2>1
      <3> QED
        BY <1>13, <3>2, <3>3, <3>4, <3>5
    <2>3. CASE ~(Offset(a) + n > K)
      <3>1. Part(a, n, c) = {}
        BY <1>13, <1>5, <2>3
      <3> QED
        BY <1>13, <1>1, <2>1, <2>3, <3>1
    <2> QED
      BY <2>2, <2>3
  <1> QED
    BY <1>8, <1>10, <1>11, <1>12, <1>13

-----------------------------------------------------------------------------
(* Blocks *)

\* a block with storage: every initial byte and every byte in use has a value
Filled(m) ==
    /\ m \in MemBlock /\ m.allocated
    /\ \A o \in Offsets : /\ m.mptr_init[o] \in Values
                          /\ o \notin m.free_bytes => m.mptr[o] \in Values

BlockOK(m) == (m.allocated /\ Filled(m)) \/ m = NewBlock

LEMMA NewBlockType == NewBlock \in MemBlock /\ ~NewBlock.allocated
  BY DEF NewBlock, MemBlock

LEMMA AllocateFills ==
  ASSUME NEW m, BlockOK(m), NEW random,
         ~m.allocated => random \in [Offsets -> RandomValues]
  PROVE  /\ Filled(Allocate(m, random))
         /\ m.allocated => Allocate(m, random) = m
         /\ ~m.allocated => Allocate(m, random).free_bytes = Offsets
  <1>1. CASE m.allocated
    BY <1>1, NewBlockType DEF Allocate, BlockOK
  <1>2. CASE ~m.allocated
    <2> DEFINE w == Allocate(m, random)
    <2>1. w = [allocated |-> TRUE, mptr |-> [o \in Offsets |-> Garbage],
               mptr_init |-> random, free_bytes |-> Offsets]
      BY <1>2 DEF Allocate, NewBlock
    <2>2. random \in [Offsets -> Values]
      BY <1>2, PhysicalMemoryAssumption
    <2> HIDE DEF w
    <2>3. w \in MemBlock /\ w.allocated /\ w.free_bytes = Offsets /\ w.mptr_init = random
      BY <2>1, <2>2 DEF MemBlock
    <2>4. Filled(w)
      BY <2>2, <2>3 DEF Filled
    <2> QED
      BY <1>2, <2>3, <2>4 DEF w
  <1> QED
    BY <1>1, <1>2

\* a byte that is read has a value
LEMMA ByteAtType ==
  ASSUME NEW m, Filled(m), NEW o \in Offsets
  PROVE  ByteAt(m, o) \in Values
  BY DEF Filled, ByteAt

Bytes == [Offsets -> Values \cup {Garbage}]

LEMMA OverwriteBytes ==
  ASSUME NEW bytes \in Bytes, NEW offset \in Nat, NEW n \in Nat,
         NEW buffer \in [0 .. n - 1 -> Values]
  PROVE  /\ Overwrite(bytes, offset, n, buffer) \in Bytes
         /\ \A o \in Offsets :
               Overwrite(bytes, offset, n, buffer)[o] =
                  IF o \in offset .. offset + n - 1 THEN buffer[o - offset] ELSE bytes[o]
  <1>1. \A o \in Offsets : o \in offset .. offset + n - 1 => o - offset \in 0 .. n - 1
    BY PhysicalMemoryAssumption DEF Offsets
  <1>2. \A o \in Offsets : o \in offset .. offset + n - 1 => buffer[o - offset] \in Values
    BY <1>1
  <1> QED
    BY <1>2 DEF Overwrite, Bytes

\* w is block m after a write of n bytes at offset, byte by byte
Written(m, w, offset, n, buffer, initial_values) ==
    /\ Filled(w)
    /\ \A o \in Offsets :
          LET S == offset .. offset + n - 1
          IN  /\ o \in S => /\ o \notin w.free_bytes
                            /\ ByteAt(w, o) = buffer[o - offset]
                            /\ initial_values => w.mptr_init[o] = buffer[o - offset]
              /\ o \notin S => /\ o \in w.free_bytes <=> o \in m.free_bytes
                               /\ ByteAt(w, o) = ByteAt(m, o)
              /\ o \notin S \/ ~initial_values => w.mptr_init[o] = m.mptr_init[o]

LEMMA BlockWriteBytes ==
  ASSUME NEW m, Filled(m), NEW offset \in Nat, NEW n \in Nat,
         NEW buffer \in [0 .. n - 1 -> Values], NEW initial_values \in BOOLEAN
  PROVE  Written(m, BlockWrite(m, offset, n, buffer, initial_values), offset, n, buffer, initial_values)
  <1> DEFINE w == BlockWrite(m, offset, n, buffer, initial_values)
             S == offset .. offset + n - 1
             A == Overwrite(m.mptr, offset, n, buffer)
             B == IF initial_values THEN Overwrite(m.mptr_init, offset, n, buffer) ELSE m.mptr_init
  <1>1. m.mptr \in Bytes /\ m.mptr_init \in Bytes /\ m.allocated = TRUE
        /\ m.free_bytes \in SUBSET Offsets
    BY DEF Filled, MemBlock, Bytes
  <1>2. ASSUME NEW bytes \in Bytes
        PROVE  /\ Overwrite(bytes, offset, n, buffer) \in Bytes
               /\ \A o \in Offsets : Overwrite(bytes, offset, n, buffer)[o]
                                        = IF o \in S THEN buffer[o - offset] ELSE bytes[o]
    BY OverwriteBytes
  <1>3. /\ A \in Bytes
        /\ \A o \in Offsets : A[o] = IF o \in S THEN buffer[o - offset] ELSE m.mptr[o]
    BY <1>1, <1>2
  <1>4. /\ Overwrite(m.mptr_init, offset, n, buffer) \in Bytes
        /\ \A o \in Offsets : Overwrite(m.mptr_init, offset, n, buffer)[o]
                                 = IF o \in S THEN buffer[o - offset] ELSE m.mptr_init[o]
    BY <1>1, <1>2
  <1>5. /\ B \in Bytes
        /\ \A o \in Offsets : B[o] = IF initial_values /\ o \in S THEN buffer[o - offset] ELSE m.mptr_init[o]
    BY <1>1, <1>4
  <1>6. w = [allocated |-> TRUE, mptr |-> A, mptr_init |-> B, free_bytes |-> m.free_bytes \ S]
    BY <1>1 DEF BlockWrite
  <1>7. \A o \in Offsets : o \in S => buffer[o - offset] \in Values
    <2>1. \A o \in Offsets : o \in S => o - offset \in 0 .. n - 1
      BY PhysicalMemoryAssumption DEF Offsets
    <2> QED BY <2>1
  <1> HIDE DEF w, S, A, B
  <1>8. w \in MemBlock /\ w.allocated /\ w.mptr = A /\ w.mptr_init = B /\ w.free_bytes = m.free_bytes \ S
    BY <1>1, <1>3, <1>5, <1>6 DEF MemBlock, Bytes
  <1>9. \A o \in Offsets : w.mptr_init[o] \in Values /\ (o \notin w.free_bytes => w.mptr[o] \in Values)
    BY <1>3, <1>5, <1>7, <1>8 DEF Filled
  <1>10. Filled(w)
    BY <1>8, <1>9 DEF Filled
  <1>11. ASSUME NEW o \in Offsets
         PROVE  /\ o \in S => /\ o \notin w.free_bytes
                              /\ ByteAt(w, o) = buffer[o - offset]
                              /\ initial_values => w.mptr_init[o] = buffer[o - offset]
                /\ o \notin S => /\ o \in w.free_bytes <=> o \in m.free_bytes
                                 /\ ByteAt(w, o) = ByteAt(m, o)
                /\ o \notin S \/ ~initial_values => w.mptr_init[o] = m.mptr_init[o]
    BY <1>3, <1>5, <1>8 DEF ByteAt
  <1> QED
    BY <1>10, <1>11 DEF w, S, Written

\* w is block m after a read of n bytes at offset: at most they stop being free
Settled(m, w, offset, n, init_if_free) ==
    /\ Filled(w)
    /\ \A o \in Offsets :
          /\ ByteAt(w, o) = ByteAt(m, o)
          /\ w.mptr_init[o] = m.mptr_init[o]
          /\ o \in w.free_bytes
                <=> o \in m.free_bytes /\ ~(init_if_free /\ o \in offset .. offset + n - 1)

LEMMA BlockReadBytes ==
  ASSUME NEW m, Filled(m), NEW offset \in Nat, NEW n \in Nat, offset + n <= BlockSize,
         NEW init_if_free \in BOOLEAN
  PROVE  Settled(m, BlockRead(m, offset, n, init_if_free), offset, n, init_if_free)
  <1> DEFINE buffer == [i \in 0 .. n - 1 |-> ByteAt(m, offset + i)]
             S == offset .. offset + n - 1
  <1>1. \A i \in 0 .. n - 1 : offset + i \in Offsets
    BY PhysicalMemoryAssumption DEF Offsets
  <1>2. buffer \in [0 .. n - 1 -> Values]
    BY <1>1, ByteAtType
  <1>3. \A o \in Offsets : o \in S => buffer[o - offset] = ByteAt(m, o)
    <2>1. \A o \in Offsets : o \in S => o - offset \in 0 .. n - 1 /\ offset + (o - offset) = o
      BY PhysicalMemoryAssumption DEF Offsets
    <2> QED BY <2>1
  <1>4. BlockRead(m, offset, n, init_if_free) = IF init_if_free THEN BlockWrite(m, offset, n, buffer, FALSE) ELSE m
    BY DEF BlockRead
  <1> HIDE DEF buffer
  <1>5. CASE init_if_free
    <2> DEFINE w == BlockWrite(m, offset, n, buffer, FALSE)
    <2>1. Written(m, w, offset, n, buffer, FALSE)
      BY <1>2, BlockWriteBytes
    <2>2. BlockRead(m, offset, n, init_if_free) = w
      BY <1>4, <1>5
    <2> HIDE DEF w
    <2>3. Filled(w)
      BY <2>1 DEF Written
    <2>4. \A o \in Offsets : /\ ByteAt(w, o) = ByteAt(m, o)
                             /\ w.mptr_init[o] = m.mptr_init[o]
                             /\ o \in w.free_bytes <=> o \in m.free_bytes /\ o \notin S
      BY <1>3, <2>1 DEF Written
    <2> QED
      BY <1>5, <2>2, <2>3, <2>4 DEF Settled
  <1>6. CASE ~init_if_free
    BY <1>4, <1>6 DEF Settled
  <1> QED
    BY <1>5, <1>6

-----------------------------------------------------------------------------
(* One byte of a block, before (m) and after (w) a step *)

Free(m, o) == m.allocated => o \in m.free_bytes

KeptByte(m, w, o) ==
    \/ w = m
    \/ /\ Filled(w)
       /\ m.allocated => ByteAt(w, o) = ByteAt(m, o) /\ w.mptr_init[o] = m.mptr_init[o]
       /\ o \in w.free_bytes <=> Free(m, o)

WrittenByte(m, w, o, v, initial_values) ==
    /\ Filled(w)
    /\ o \notin w.free_bytes /\ ByteAt(w, o) = v
    /\ initial_values => w.mptr_init[o] = v
    /\ ~initial_values /\ m.allocated => w.mptr_init[o] = m.mptr_init[o]

ReadByte(m, w, o, init_if_free) ==
    /\ Filled(w)
    /\ m.allocated => ByteAt(w, o) = ByteAt(m, o) /\ w.mptr_init[o] = m.mptr_init[o]
    /\ o \in w.free_bytes <=> Free(m, o) /\ ~init_if_free
    /\ Free(m, o) => ByteAt(w, o) = w.mptr_init[o]

\* all bytes of a block that a write or read of n bytes at offset falls into
WroteBlock(m, w, offset, n, buffer, initial_values) ==
    /\ Filled(w)
    /\ \A o \in Offsets :
          /\ o \in offset .. offset + n - 1 => WrittenByte(m, w, o, buffer[o - offset], initial_values)
          /\ o \notin offset .. offset + n - 1 => KeptByte(m, w, o)

\* m1: the block after allocation and before the bytes are marked as used
WasRead(m, m1, w, offset, n, init_if_free) ==
    /\ Filled(w)
    /\ \A o \in Offsets :
          /\ o \in offset .. offset + n - 1 => ReadByte(m, w, o, init_if_free)
          /\ o \notin offset .. offset + n - 1 => KeptByte(m, w, o)
          /\ ByteAt(m1, o) = ByteAt(w, o)
          /\ o \in m1.free_bytes <=> Free(m, o)

LEMMA WriteOneBlock ==
  ASSUME NEW m, BlockOK(m), NEW random, ~m.allocated => random \in [Offsets -> RandomValues],
         NEW offset \in Nat, NEW n \in Nat, NEW buffer \in [0 .. n - 1 -> Values],
         NEW initial_values \in BOOLEAN
  PROVE  WroteBlock(m, BlockWrite(Allocate(m, random), offset, n, buffer, initial_values),
                    offset, n, buffer, initial_values)
  <1> DEFINE m1 == Allocate(m, random)
             w == BlockWrite(m1, offset, n, buffer, initial_values)
  <1>1. Filled(m1) /\ (m.allocated => m1 = m) /\ (~m.allocated => m1.free_bytes = Offsets)
    BY AllocateFills
  <1> HIDE DEF m1
  <1>2. Written(m1, w, offset, n, buffer, initial_values)
    BY <1>1, BlockWriteBytes
  <1> HIDE DEF w
  <1>3. ASSUME NEW o \in Offsets, o \in offset .. offset + n - 1
        PROVE  WrittenByte(m, w, o, buffer[o - offset], initial_values)
    BY <1>1, <1>2, <1>3 DEF Written, WrittenByte
  <1>4. ASSUME NEW o \in Offsets, o \notin offset .. offset + n - 1
        PROVE  KeptByte(m, w, o)
    BY <1>1, <1>2, <1>4 DEF Written, KeptByte, Free
  <1> QED
    BY <1>2, <1>3, <1>4 DEF Written, WroteBlock, w, m1

LEMMA ReadOneBlock ==
  ASSUME NEW m, BlockOK(m), NEW random, ~m.allocated => random \in [Offsets -> RandomValues],
         NEW offset \in Nat, NEW n \in Nat, offset + n <= BlockSize, NEW init_if_free \in BOOLEAN
  PROVE  WasRead(m, Allocate(m, random), BlockRead(Allocate(m, random), offset, n, init_if_free),
                 offset, n, init_if_free)
  <1> DEFINE m1 == Allocate(m, random)
             w == BlockRead(m1, offset, n, init_if_free)
  <1>1. Filled(m1) /\ (m.allocated => m1 = m) /\ (~m.allocated => m1.free_bytes = Offsets)
    BY AllocateFills
  <1> HIDE DEF m1
  <1>2. Settled(m1, w, offset, n, init_if_free)
    BY <1>1, BlockReadBytes
  <1> HIDE DEF w
  <1>3. \A o \in Offsets : o \in m1.free_bytes <=> Free(m, o)
    BY <1>1 DEF Free
  <1>4. ASSUME NEW o \in Offsets, o \in offset .. offset + n - 1
        PROVE  ReadByte(m, w, o, init_if_free)
    <2>1. Free(m, o) => ByteAt(m1, o) = m1.mptr_init[o]
      BY <1>3 DEF ByteAt
    <2> QED
      BY <1>1, <1>2, <1>3, <1>4, <2>1 DEF Settled, ReadByte
  <1>5. ASSUME NEW o \in Offsets, o \notin offset .. offset + n - 1
        PROVE  KeptByte(m, w, o)
    BY <1>1, <1>2, <1>3, <1>5 DEF Settled, KeptByte
  <1> QED
    BY <1>2, <1>3, <1>4, <1>5 DEF Settled, WasRead, w, m1

-----------------------------------------------------------------------------
(* Steps *)

\* MemoryTypeOK and NoGarbage, block by block: inductive
MemoryInv ==
    /\ mapped \subseteq Blocks
    /\ block \in [Blocks -> MemBlock]
    /\ \A b \in Blocks : BlockOK(block[b]) /\ (block[b].allocated => b \in mapped)

LEMMA InvMeans == MemoryInv <=> MemoryTypeOK /\ NoGarbage
  <1>1. ASSUME MemoryInv PROVE MemoryTypeOK /\ NoGarbage
    BY <1>1, NewBlockType DEF MemoryInv, MemoryTypeOK, NoGarbage, BlockOK, Filled
  <1>2. ASSUME MemoryTypeOK, NoGarbage PROVE MemoryInv
    BY <1>2 DEF MemoryInv, MemoryTypeOK, NoGarbage, BlockOK, Filled
  <1> QED
    BY <1>1, <1>2

LEMMA TouchedBlocks ==
  ASSUME MemoryInv, NEW a, NEW n, IsAccess(a, n), NEW random \in Random(Touched(a, n))
  PROVE  /\ Touched(a, n) \subseteq Blocks
         /\ BlockAddress(a) \in Touched(a, n)
         /\ Split(a, n) => BlockAddress(a) + 1 \in Touched(a, n)
         /\ BlockAddress(a) + 1 # BlockAddress(a)
         /\ \A c \in Touched(a, n) : ~block[c].allocated => random[c] \in [Offsets -> RandomValues]
         /\ \A c \in Touched(a, n) : BlockOK(block[c])
  <1>1. BlockAddress(a) \in 0 .. NumBlocks - 1
    BY AccessType
  <1>2. Touched(a, n) \subseteq Blocks
    BY <1>1, PhysicalMemoryAssumption DEF Touched, Blocks
  <1>3. \A c \in Touched(a, n) : ~block[c].allocated => random[c] \in [Offsets -> RandomValues]
    BY DEF Random
  <1> QED
    BY <1>1, <1>2, <1>3, PhysicalMemoryAssumption DEF Touched, MemoryInv

\* filling touched blocks and leaving the others alone keeps the invariant
LEMMA FilledKeepsInv ==
  ASSUME MemoryInv, NEW S \in SUBSET Blocks, mapped' = mapped \cup S,
         block' \in [Blocks -> MemBlock],
         \A c \in S : Filled(block'[c]), \A c \in Blocks \ S : block'[c] = block[c]
  PROVE  MemoryInv'
  BY DEF MemoryInv, BlockOK, Filled

LEMMA WriteStep ==
  ASSUME MemoryInv, NEW a, NEW n, IsAccess(a, n), NEW buffer \in [0 .. n - 1 -> Values],
         NEW initial_values \in BOOLEAN, NEW random \in Random(Touched(a, n)),
         Write(a, n, buffer, initial_values, random)
  PROVE  /\ MemoryInv'
         /\ \A x \in Addresses :
               /\ x \in a .. a + n - 1 =>
                     WrittenByte(BlockOf(x), BlockOf(x)', Offset(x), buffer[x - a], initial_values)
               /\ x \notin a .. a + n - 1 => KeptByte(BlockOf(x), BlockOf(x)', Offset(x))
  <1> DEFINE b == BlockAddress(a)
             o1 == Offset(a)
             n1 == FirstPart(a, n)
             n2 == n - n1
             rest == Rest(buffer, n1, n)
             W1 == BlockWrite(Allocate(block[b], random[b]), o1, n1, buffer, initial_values)
             W2 == BlockWrite(Allocate(block[b + 1], random[b + 1]), 0, n2, rest, initial_values)
             first == [i \in 0 .. n1 - 1 |-> buffer[i]]
  <1>1. /\ a \in Nat /\ n \in Nat /\ n >= 1 /\ n <= BlockSize /\ b \in Nat
        /\ o1 \in Nat /\ o1 < BlockSize /\ n1 \in 1 .. n /\ n1 \in Nat /\ n2 \in Nat
        /\ o1 + n1 <= BlockSize
        /\ Split(a, n) => n1 = BlockSize - o1
        /\ ~Split(a, n) => n1 = n
    BY AccessType, PhysicalMemoryAssumption DEF Offsets
  <1>2. /\ b \in Blocks /\ b + 1 # b /\ BlockOK(block[b])
        /\ ~block[b].allocated => random[b] \in [Offsets -> RandomValues]
        /\ Split(a, n) => /\ b + 1 \in Blocks /\ BlockOK(block[b + 1])
                          /\ ~block[b + 1].allocated => random[b + 1] \in [Offsets -> RandomValues]
    BY TouchedBlocks
  <1>3. /\ mapped' = mapped \cup Touched(a, n)
        /\ Split(a, n) => block' = [block EXCEPT ![b] = W1, ![b + 1] = W2]
        /\ ~Split(a, n) => block' = [block EXCEPT ![b] = W1]
    BY DEF Write
  <1>4. rest \in [0 .. n2 - 1 -> Values] /\ \A i \in 0 .. n2 - 1 : rest[i] = buffer[n1 + i]
    <2>1. \A i \in 0 .. n2 - 1 : n1 + i \in 0 .. n - 1
      BY <1>1
    <2>2. rest = [i \in 0 .. n2 - 1 |-> buffer[n1 + i]]
      BY DEF Rest
    <2> HIDE DEF rest
    <2> QED
      BY <2>1, <2>2
  <1>5. first \in [0 .. n1 - 1 -> Values] /\ \A i \in 0 .. n1 - 1 : first[i] = buffer[i]
    BY <1>1
  <1>6. W1 = BlockWrite(Allocate(block[b], random[b]), o1, n1, first, initial_values)
    <2>1. \A o \in Offsets : o \in o1 .. o1 + n1 - 1 => first[o - o1] = buffer[o - o1]
      <3>1. \A o \in Offsets : o \in Int
        BY PhysicalMemoryAssumption DEF Offsets
      <3>2. \A o \in Offsets : o \in o1 .. o1 + n1 - 1 => o - o1 \in 0 .. n1 - 1
        <4> HIDE DEF o1, n1
        <4> QED BY <1>1, <3>1
      <3> QED
        BY <1>5, <3>2
    <2>2. \A m : Overwrite(m, o1, n1, buffer) = Overwrite(m, o1, n1, first)
      BY <2>1 DEF Overwrite
    <2> HIDE DEF first
    <2> QED
      BY <2>2 DEF BlockWrite
  <1> HIDE DEF b, o1, n1, n2, rest, first, W1, W2
  <1>7a. WroteBlock(block[b], W1, o1, n1, first, initial_values)
    BY <1>1, <1>2, <1>5, <1>6, WriteOneBlock
  <1>8a. ASSUME Split(a, n) PROVE WroteBlock(block[b + 1], W2, 0, n2, rest, initial_values)
    <2> DEFINE m == block[b + 1]
               r == random[b + 1]
    <2>1. BlockOK(m) /\ (~m.allocated => r \in [Offsets -> RandomValues])
      BY <1>2, <1>8a
    <2>2. W2 = BlockWrite(Allocate(m, r), 0, n2, rest, initial_values)
      BY DEF W2
    <2>3. n2 \in Nat /\ rest \in [0 .. n2 - 1 -> Values] /\ 0 \in Nat
      BY <1>1, <1>4
    <2> HIDE DEF m, r
    <2>4. WroteBlock(m, BlockWrite(Allocate(m, r), 0, n2, rest, initial_values), 0, n2, rest, initial_values)
      BY <2>1, <2>3, WriteOneBlock
    <2> QED
      BY <2>2, <2>4 DEF m
  <1>7. /\ Filled(W1)
        /\ \A o \in Offsets :
              /\ o \in o1 .. o1 + n1 - 1 => WrittenByte(block[b], W1, o, first[o - o1], initial_values)
              /\ o \notin o1 .. o1 + n1 - 1 => KeptByte(block[b], W1, o)
    BY <1>7a DEF WroteBlock
  <1>8. ASSUME Split(a, n)
        PROVE  /\ Filled(W2)
               /\ \A o \in Offsets :
                     /\ o \in 0 .. 0 + n2 - 1 => WrittenByte(block[b + 1], W2, o, rest[o - 0], initial_values)
                     /\ o \notin 0 .. 0 + n2 - 1 => KeptByte(block[b + 1], W2, o)
    BY <1>8, <1>8a DEF WroteBlock
  <1>9. /\ block' \in [Blocks -> MemBlock]
        /\ block'[b] = W1
        /\ Split(a, n) => block'[b + 1] = W2
        /\ \A c \in Blocks : c # b /\ ~(Split(a, n) /\ c = b + 1) => block'[c] = block[c]
    <2>1. block \in [Blocks -> MemBlock]
      BY DEF MemoryInv
    <2>2. W1 \in MemBlock /\ (Split(a, n) => W2 \in MemBlock)
      BY <1>7, <1>8 DEF Filled
    <2>3. CASE Split(a, n)
      BY <1>2, <1>3, <2>1, <2>2, <2>3
    <2>4. CASE ~Split(a, n)
      BY <1>2, <1>3, <2>1, <2>2, <2>4
    <2> QED
      BY <2>3, <2>4
  <1>10. MemoryInv'
    <2>1. Touched(a, n) = {b} \cup (IF Split(a, n) THEN {b + 1} ELSE {})
      BY DEF Touched, b
    <2>2. Touched(a, n) \subseteq Blocks
      BY <1>2, <2>1
    <2>3. \A c \in Touched(a, n) : Filled(block'[c])
      BY <1>7, <1>8, <1>9, <2>1
    <2>4. \A c \in Blocks \ Touched(a, n) : block'[c] = block[c]
      BY <1>9, <2>1
    <2> QED
      BY <1>3, <1>9, <2>2, <2>3, <2>4, FilledKeepsInv
  <1>11. ASSUME NEW x \in Addresses
         PROVE  /\ x \in a .. a + n - 1 =>
                      WrittenByte(BlockOf(x), BlockOf(x)', Offset(x), buffer[x - a], initial_values)
                /\ x \notin a .. a + n - 1 => KeptByte(BlockOf(x), BlockOf(x)', Offset(x))
    <2> DEFINE c == BlockAddress(x)
               o == Offset(x)
    <2>1. c \in Blocks /\ o \in Offsets /\ x \in Nat /\ o \in Nat
      BY AddressType, PhysicalMemoryAssumption DEF Offsets
    <2>2. /\ x \in a .. a + n - 1 <=> o \in Part(a, n, c)
          /\ c = b => x - a = o - o1
          /\ c = b + 1 => x - a = o + BlockSize - o1
      BY SpanParts DEF b, o1
    <2>3. Part(a, n, c) = IF c = b THEN o1 .. o1 + n1 - 1
                          ELSE IF Split(a, n) /\ c = b + 1 THEN 0 .. n2 - 1 ELSE {}
      BY DEF Part, b, o1, n1, n2
    <2>4. BlockOf(x) = block[c] /\ BlockOf(x)' = block'[c]
      BY DEF BlockOf
    <2> HIDE DEF c, o
    <2> SUFFICES /\ x \in a .. a + n - 1 => WrittenByte(block[c], block'[c], o, buffer[x - a], initial_values)
                 /\ x \notin a .. a + n - 1 => KeptByte(block[c], block'[c], o)
      BY <2>4 DEF o
    <2>5. CASE c = b
      <3>1. o \in o1 .. o1 + n1 - 1 => first[o - o1] = buffer[x - a]
        BY <1>1, <1>5, <2>1, <2>2, <2>5
      <3>2. x \in a .. a + n - 1 <=> o \in o1 .. o1 + n1 - 1
        BY <2>2, <2>3, <2>5
      <3> QED
        BY <1>7, <1>9, <2>1, <2>5, <3>1, <3>2
    <2>6. CASE Split(a, n) /\ c = b + 1
      <3>1. o \in 0 .. n2 - 1 => rest[o] = buffer[x - a]
        <4>1. x - a = n1 + o
          BY <1>1, <2>1, <2>2, <2>6, PhysicalMemoryAssumption
        <4> QED BY <1>4, <4>1
      <3>2. x \in a .. a + n - 1 <=> o \in 0 .. n2 - 1
        BY <1>2, <2>2, <2>3, <2>6
      <3>3. 0 + n2 - 1 = n2 - 1 /\ o - 0 = o
        BY <1>1, <2>1
      <3> QED
        BY <1>8, <1>9, <2>1, <2>6, <3>1, <3>2, <3>3
    <2>7. CASE c # b /\ ~(Split(a, n) /\ c = b + 1)
      BY <1>9, <2>1, <2>2, <2>3, <2>7 DEF KeptByte
    <2> QED
      BY <2>5, <2>6, <2>7
  <1> QED
    BY <1>10, <1>11

\* every offset of every block is an address
LEMMA Composition ==
  ASSUME NEW c \in Blocks, NEW o \in Offsets
  PROVE  \E x \in Addresses : BlockAddress(x) = c /\ Offset(x) = o
  <1> DEFINE K == BlockSize
             P == c * K
             x == P + o
             e == BlockAddress(x)
             Q == e * K
  <1>1. K \in Nat \ {0} /\ c \in Nat /\ c <= NumBlocks /\ o \in Nat /\ o < K /\ NumBlocks \in Nat
    BY PhysicalMemoryAssumption DEF Blocks, Offsets
  <1>2. P \in Nat
    BY <1>1, Products
  <1>3. x \in Nat
    BY <1>1, <1>2
  <1>4. e \in Nat /\ Offset(x) \in Nat /\ Offset(x) < K /\ x = Q + Offset(x)
    <2>1. e \in Nat /\ Offset(x) \in Offsets /\ x = Q + Offset(x)
      <3> HIDE DEF x
      <3> QED BY <1>3, Decomposition
    <2> QED
      BY <1>1, <2>1 DEF Offsets
  <1>5. x \in Addresses
    <2>1. (NumBlocks - c) * K >= 0
      BY <1>1, Products
    <2>2. (NumBlocks - c) * K = NumBlocks * K - P /\ (NumBlocks + 1) * K = NumBlocks * K + K
          /\ NumBlocks * K \in Int
      BY <1>1
    <2>3. P + K <= (NumBlocks + 1) * K /\ (NumBlocks + 1) * K \in Int
      BY <1>1, <1>2, <2>1, <2>2
    <2> HIDE DEF P
    <2>4. x <= (NumBlocks + 1) * K - 1
      BY <1>1, <1>2, <2>3
    <2> QED
      BY <1>3, <2>3, <2>4 DEF Addresses
  <1>6. e = c
    <2>1. (e - c) * K = Q - P /\ Q \in Int /\ (e - c) * K \in Int
      <3> HIDE DEF e
      <3> QED BY <1>1, <1>4
    <2>2. Q - P = o - Offset(x)
      <3> DEFINE z == Offset(x)
      <3>1. P + o = Q + z /\ P \in Int /\ Q \in Int /\ o \in Int /\ z \in Int
        BY <1>1, <1>2, <1>4, <2>1
      <3> HIDE DEF Q, P, z
      <3>2. Q - P = o - z
        BY <3>1
      <3> QED BY <3>2 DEF z
    <2>3. /\ e - c >= 1 => (e - c) * K >= K
          /\ e - c <= -1 => (e - c) * K <= -K
      <3> HIDE DEF e
      <3> QED BY <1>1, <1>4, Products
    <2>4. o - Offset(x) < K /\ o - Offset(x) > -K
      <3> HIDE DEF x
      <3> QED BY <1>1, <1>4
    <2> DEFINE R == (e - c) * K
    <2>5. R = o - Offset(x) /\ (e - c >= 1 => R >= K) /\ (e - c <= -1 => R <= -K)
      BY <2>1, <2>2, <2>3
    <2> HIDE DEF R, e, x
    <2> QED
      BY <1>1, <1>4, <2>4, <2>5
  <1>7. Offset(x) = o
    <2>1. Q = P
      BY <1>6
    <2> HIDE DEF Q, P, e
    <2> QED
      BY <1>1, <1>2, <1>4, <2>1
  <1> QED
    BY <1>5, <1>6, <1>7

AllFree(S)  == \A x \in S : Free(BlockOf(x), Offset(x))
NoneFree(S) == \A x \in S : ~Free(BlockOf(x), Offset(x))

\* the addresses of k bytes at an offset of block c
InBlock(c, offset, k) ==
    {x \in Addresses : BlockAddress(x) = c /\ Offset(x) \in offset .. offset + k - 1}

Code(S) == IF AllFree(S) THEN ALL_BYTES_FREE ELSE IF NoneFree(S) THEN ALL_BYTES_DEFINED ELSE SOME_BYTES_UNDEFINED

LEMMA OneBlockCode ==
  ASSUME NEW c \in Blocks, NEW offset \in Nat, NEW k \in Nat, k >= 1, offset + k <= BlockSize,
         NEW m1, \A o \in Offsets : o \in m1.free_bytes <=> Free(block[c], o)
  PROVE  /\ BlockReadCode(m1, offset, k) = Code(InBlock(c, offset, k))
         /\ InBlock(c, offset, k) # {}
  <1> DEFINE S == offset .. offset + k - 1
             X == InBlock(c, offset, k)
  <1>1. S \subseteq Offsets /\ offset \in S
    BY PhysicalMemoryAssumption DEF Offsets
  <1>2. \A x \in X : Offset(x) \in S /\ BlockOf(x) = block[c]
    BY DEF InBlock, BlockOf
  <1>3. \A o \in S : \E x \in X : Offset(x) = o
    BY <1>1, Composition DEF InBlock
  <1> HIDE DEF S, X
  <1>4. AllFree(X) <=> S \subseteq m1.free_bytes
    BY <1>1, <1>2, <1>3 DEF AllFree
  <1>5. NoneFree(X) <=> S \cap m1.free_bytes = {}
    BY <1>1, <1>2, <1>3 DEF NoneFree
  <1>6. BlockReadCode(m1, offset, k) = IF S \subseteq m1.free_bytes THEN ALL_BYTES_FREE
                                       ELSE IF S \cap m1.free_bytes = {} THEN ALL_BYTES_DEFINED
                                       ELSE SOME_BYTES_UNDEFINED
    BY DEF BlockReadCode, S
  <1> QED
    BY <1>1, <1>3, <1>4, <1>5, <1>6 DEF Code, X

LEMMA CombinedCode ==
  ASSUME NEW S, NEW T, S # {}, T # {}
  PROVE  Combine(Code(S), Code(T)) = Code(S \cup T)
  <1>1. AllFree(S \cup T) <=> AllFree(S) /\ AllFree(T)
    BY DEF AllFree
  <1>2. NoneFree(S \cup T) <=> NoneFree(S) /\ NoneFree(T)
    BY DEF NoneFree
  <1>3. ~(AllFree(S) /\ NoneFree(S)) /\ ~(AllFree(T) /\ NoneFree(T))
    BY DEF AllFree, NoneFree
  <1> QED
    BY <1>1, <1>2, <1>3 DEF Combine, Code, ALL_BYTES_DEFINED, SOME_BYTES_UNDEFINED, ALL_BYTES_FREE

\* the bytes of an access are those of its parts
LEMMA SpanBlocks ==
  ASSUME NEW a, NEW n, IsAccess(a, n)
  PROVE  LET S == a .. a + n - 1
             X1 == InBlock(BlockAddress(a), Offset(a), FirstPart(a, n))
             X2 == InBlock(BlockAddress(a) + 1, 0, n - FirstPart(a, n))
         IN  /\ S \subseteq Addresses
             /\ Split(a, n) => S = X1 \cup X2
             /\ ~Split(a, n) => S = X1
  <1> DEFINE S == a .. a + n - 1
             b == BlockAddress(a)
             X1 == InBlock(b, Offset(a), FirstPart(a, n))
             X2 == InBlock(b + 1, 0, n - FirstPart(a, n))
  <1>1. S \subseteq Addresses
    <2>1. a \in Nat /\ a <= NumBlocks * BlockSize - 1 /\ n \in Nat /\ n <= BlockSize
      BY AccessType DEF IsAccess
    <2>2. (NumBlocks + 1) * BlockSize = NumBlocks * BlockSize + BlockSize /\ NumBlocks * BlockSize \in Int
      BY PhysicalMemoryAssumption
    <2> DEFINE P == NumBlocks * BlockSize
               Q == (NumBlocks + 1) * BlockSize
    <2>3. a <= P - 1 /\ Q = P + BlockSize /\ P \in Int /\ Q \in Int /\ BlockSize \in Int /\ Addresses = 0 .. Q - 1
      BY <2>1, <2>2, PhysicalMemoryAssumption DEF Addresses
    <2> HIDE DEF P, Q
    <2> QED
      BY <2>1, <2>3
  <1>2. \A x \in Addresses : x \in S <=> Offset(x) \in Part(a, n, BlockAddress(x))
    BY SpanParts
  <1>3. b \in Nat /\ n - FirstPart(a, n) \in Int
    BY AccessType
  <1>4. 0 + (n - FirstPart(a, n)) - 1 = n - FirstPart(a, n) - 1
    BY <1>3
  <1> HIDE DEF S
  <1>5. ASSUME NEW x \in Addresses
        PROVE  x \in S <=> x \in X1 \/ (Split(a, n) /\ x \in X2)
    BY <1>2, <1>3, <1>4 DEF Part, InBlock
  <1>6. X1 \subseteq Addresses /\ X2 \subseteq Addresses
    BY DEF InBlock
  <1> HIDE DEF X1, X2
  <1>7. (Split(a, n) => S = X1 \cup X2) /\ (~Split(a, n) => S = X1)
    BY <1>1, <1>5, <1>6
  <1> QED
    BY <1>1, <1>7 DEF S, X1, X2

\* what a read does, byte by byte
ReadEffect(a, n, init_if_free) ==
    /\ MemoryInv'
    /\ reply'.kind = "read" /\ reply'.address = a
    /\ reply'.rcode = Code(a .. a + n - 1)
    /\ reply'.data = [i \in 0 .. n - 1 |-> ByteAt(BlockOf(a + i)', Offset(a + i))]
    /\ \A x \in Addresses :
          /\ x \in a .. a + n - 1 => ReadByte(BlockOf(x), BlockOf(x)', Offset(x), init_if_free)
          /\ x \notin a .. a + n - 1 => KeptByte(BlockOf(x), BlockOf(x)', Offset(x))

LEMMA ReadStep ==
  ASSUME MemoryInv, NEW a, NEW n, IsAccess(a, n), NEW init_if_free \in BOOLEAN,
         NEW random \in Random(Touched(a, n)), Read(a, n, init_if_free, random)
  PROVE  ReadEffect(a, n, init_if_free)
  <1> DEFINE b == BlockAddress(a)
             o1 == Offset(a)
             n1 == FirstPart(a, n)
             n2 == n - n1
             m1 == Allocate(block[b], random[b])
             m2 == Allocate(block[b + 1], random[b + 1])
             R1 == BlockRead(m1, o1, n1, init_if_free)
             R2 == BlockRead(m2, 0, n2, init_if_free)
  <1>1. /\ a \in Nat /\ n \in Nat /\ n >= 1 /\ n <= BlockSize /\ b \in Nat
        /\ o1 \in Nat /\ o1 < BlockSize /\ n1 \in 1 .. n /\ n1 \in Nat /\ n2 \in Nat
        /\ o1 + n1 <= BlockSize /\ n2 < BlockSize
        /\ Split(a, n) => n1 = BlockSize - o1 /\ n2 >= 1
        /\ ~Split(a, n) => n1 = n
    BY AccessType, PhysicalMemoryAssumption DEF Offsets
  <1>2. /\ b \in Blocks /\ b + 1 # b /\ BlockOK(block[b])
        /\ ~block[b].allocated => random[b] \in [Offsets -> RandomValues]
        /\ Split(a, n) => /\ b + 1 \in Blocks /\ BlockOK(block[b + 1])
                          /\ ~block[b + 1].allocated => random[b + 1] \in [Offsets -> RandomValues]
    BY TouchedBlocks
  <1> DEFINE data1 == [i \in 0 .. n - 1 |-> ByteAt(m1, o1 + i)]
             data2 == [i \in 0 .. n - 1 |-> IF i < n1 THEN ByteAt(m1, o1 + i) ELSE ByteAt(m2, i - n1)]
  <1>3. /\ mapped' = mapped \cup Touched(a, n)
        /\ Split(a, n) =>
              /\ block' = [block EXCEPT ![b] = R1, ![b + 1] = R2]
              /\ reply' = [kind |-> "read", address |-> a, data |-> data2,
                           rcode |-> Combine(BlockReadCode(m1, o1, n1), BlockReadCode(m2, 0, n2))]
        /\ ~Split(a, n) =>
              /\ block' = [block EXCEPT ![b] = R1]
              /\ reply' = [kind |-> "read", address |-> a, data |-> data1,
                           rcode |-> BlockReadCode(m1, o1, n1)]
    BY <1>1 DEF Read
  <1>4. WasRead(block[b], m1, R1, o1, n1, init_if_free)
    BY <1>1, <1>2, ReadOneBlock
  <1>5. ASSUME Split(a, n) PROVE WasRead(block[b + 1], m2, R2, 0, n2, init_if_free)
    <2> DEFINE m == block[b + 1]
               r == random[b + 1]
    <2>1. BlockOK(m) /\ (~m.allocated => r \in [Offsets -> RandomValues])
      BY <1>2, <1>5
    <2>2. R2 = BlockRead(Allocate(m, r), 0, n2, init_if_free) /\ m2 = Allocate(m, r)
      OBVIOUS
    <2>3. n2 \in Nat /\ 0 \in Nat /\ 0 + n2 <= BlockSize
      BY <1>1, PhysicalMemoryAssumption
    <2> HIDE DEF m, r, n2
    <2>4. WasRead(m, Allocate(m, r), BlockRead(Allocate(m, r), 0, n2, init_if_free), 0, n2, init_if_free)
      BY <2>1, <2>3, ReadOneBlock
    <2> QED
      BY <2>2, <2>4 DEF m
  <1> HIDE DEF b, o1, n1, n2, m1, m2, R1, R2, data1, data2
  <1>3a. /\ reply'.kind = "read" /\ reply'.address = a
         /\ Split(a, n) => /\ reply'.data = data2
                           /\ reply'.rcode = Combine(BlockReadCode(m1, o1, n1), BlockReadCode(m2, 0, n2))
         /\ ~Split(a, n) => reply'.data = data1 /\ reply'.rcode = BlockReadCode(m1, o1, n1)
    BY <1>3
  <1>6. /\ block' \in [Blocks -> MemBlock]
        /\ block'[b] = R1
        /\ Split(a, n) => block'[b + 1] = R2
        /\ \A c \in Blocks : c # b /\ ~(Split(a, n) /\ c = b + 1) => block'[c] = block[c]
    <2>1. block \in [Blocks -> MemBlock]
      BY DEF MemoryInv
    <2>2. R1 \in MemBlock /\ (Split(a, n) => R2 \in MemBlock)
      BY <1>4, <1>5 DEF WasRead, Filled
    <2>3. CASE Split(a, n)
      BY <1>2, <1>3, <2>1, <2>2, <2>3
    <2>4. CASE ~Split(a, n)
      BY <1>2, <1>3, <2>1, <2>2, <2>4
    <2> QED
      BY <2>3, <2>4
  <1>7. MemoryInv'
    <2>1. Touched(a, n) = {b} \cup (IF Split(a, n) THEN {b + 1} ELSE {})
      BY DEF Touched, b
    <2>2. Touched(a, n) \subseteq Blocks
      BY <1>2, <2>1
    <2>3. \A c \in Touched(a, n) : Filled(block'[c])
      BY <1>4, <1>5, <1>6, <2>1 DEF WasRead
    <2>4. \A c \in Blocks \ Touched(a, n) : block'[c] = block[c]
      BY <1>6, <2>1
    <2> QED
      BY <1>3, <1>6, <2>2, <2>3, <2>4, FilledKeepsInv
  <1>8. ASSUME NEW x \in Addresses
        PROVE  /\ x \in a .. a + n - 1 =>
                     /\ ReadByte(BlockOf(x), BlockOf(x)', Offset(x), init_if_free)
                     /\ reply'.data[x - a] = ByteAt(BlockOf(x)', Offset(x))
               /\ x \notin a .. a + n - 1 => KeptByte(BlockOf(x), BlockOf(x)', Offset(x))
    <2> DEFINE c == BlockAddress(x)
               o == Offset(x)
    <2>1. c \in Blocks /\ o \in Offsets /\ x \in Nat /\ o \in Nat
      BY AddressType, PhysicalMemoryAssumption DEF Offsets
    <2>2. /\ x \in a .. a + n - 1 <=> o \in Part(a, n, c)
          /\ c = b => x - a = o - o1
          /\ c = b + 1 => x - a = o + BlockSize - o1
      BY SpanParts DEF b, o1
    <2>3. Part(a, n, c) = IF c = b THEN o1 .. o1 + n1 - 1
                          ELSE IF Split(a, n) /\ c = b + 1 THEN 0 .. n2 - 1 ELSE {}
      BY DEF Part, b, o1, n1, n2
    <2>4. BlockOf(x) = block[c] /\ BlockOf(x)' = block'[c]
      BY DEF BlockOf
    <2>5. /\ Split(a, n) => reply'.data = data2
          /\ ~Split(a, n) => reply'.data = data1
      BY <1>3a
    <2> HIDE DEF c, o
    <2> SUFFICES /\ x \in a .. a + n - 1 => /\ ReadByte(block[c], block'[c], o, init_if_free)
                                            /\ reply'.data[x - a] = ByteAt(block'[c], o)
                 /\ x \notin a .. a + n - 1 => KeptByte(block[c], block'[c], o)
      BY <2>4 DEF o
    <2>6. CASE c = b
      <3>1. x \in a .. a + n - 1 <=> o \in o1 .. o1 + n1 - 1
        BY <2>2, <2>3, <2>6
      <3>2. ASSUME o \in o1 .. o1 + n1 - 1 PROVE reply'.data[x - a] = ByteAt(m1, o)
        <4>1. x - a = o - o1 /\ x - a \in 0 .. n - 1 /\ x - a < n1 /\ o1 + (x - a) = o
          BY <1>1, <2>1, <2>2, <2>6, <3>2
        <4> QED
          BY <2>5, <4>1 DEF data1, data2
      <3> QED
        BY <1>4, <1>6, <2>1, <2>6, <3>1, <3>2 DEF WasRead
    <2>7. CASE Split(a, n) /\ c = b + 1
      <3>1. x \in a .. a + n - 1 <=> o \in 0 .. n2 - 1
        BY <1>2, <2>2, <2>3, <2>7
      <3>2. ASSUME o \in 0 .. n2 - 1 PROVE reply'.data[x - a] = ByteAt(m2, o)
        <4>1. x - a = n1 + o
          BY <1>1, <2>1, <2>2, <2>7, PhysicalMemoryAssumption
        <4>2. x - a \in 0 .. n - 1 /\ ~(x - a < n1) /\ (x - a) - n1 = o
          BY <1>1, <2>1, <3>2, <4>1 DEF n2
        <4> QED
          BY <2>5, <2>7, <4>2 DEF data2
      <3>3. 0 + n2 - 1 = n2 - 1
        BY <1>1
      <3> QED
        BY <1>5, <1>6, <2>1, <2>7, <3>1, <3>2, <3>3 DEF WasRead
    <2>8. CASE c # b /\ ~(Split(a, n) /\ c = b + 1)
      BY <1>6, <2>1, <2>2, <2>3, <2>8 DEF KeptByte
    <2> QED
      BY <2>6, <2>7, <2>8
  <1>9. reply'.data = [i \in 0 .. n - 1 |-> ByteAt(BlockOf(a + i)', Offset(a + i))]
    <2>1. a .. a + n - 1 \subseteq Addresses
      BY SpanBlocks
    <2>2. \A i \in 0 .. n - 1 : a + i \in a .. a + n - 1 /\ (a + i) - a = i
      BY <1>1
    <2>3. \A i \in 0 .. n - 1 : reply'.data[i] = ByteAt(BlockOf(a + i)', Offset(a + i))
      BY <1>8, <2>1, <2>2
    <2>4. reply'.data = [i \in 0 .. n - 1 |-> reply'.data[i]]
      <3>1. reply'.data = data1 \/ reply'.data = data2
        BY <1>3a
      <3>2. CASE reply'.data = data1
        BY <3>2 DEF data1
      <3>3. CASE reply'.data = data2
        BY <3>3 DEF data2
      <3> QED
        BY <3>1, <3>2, <3>3
    <2> QED
      BY <2>3, <2>4
  <1>10. reply'.rcode = Code(a .. a + n - 1)
    <2> DEFINE X1 == InBlock(b, o1, n1)
               X2 == InBlock(b + 1, 0, n2)
    <2>1. (Split(a, n) => a .. a + n - 1 = X1 \cup X2) /\ (~Split(a, n) => a .. a + n - 1 = X1)
      BY SpanBlocks DEF b, o1, n1, n2
    <2>2. BlockReadCode(m1, o1, n1) = Code(X1) /\ X1 # {}
      <3>1. \A o \in Offsets : o \in m1.free_bytes <=> Free(block[b], o)
        BY <1>4 DEF WasRead
      <3>2. b \in Blocks /\ o1 \in Nat /\ n1 \in Nat /\ n1 >= 1 /\ o1 + n1 <= BlockSize
        BY <1>1, <1>2
      <3> QED
        BY <3>1, <3>2, OneBlockCode
    <2>3. ASSUME Split(a, n) PROVE BlockReadCode(m2, 0, n2) = Code(X2) /\ X2 # {}
      <3>1. \A o \in Offsets : o \in m2.free_bytes <=> Free(block[b + 1], o)
        BY <1>5, <2>3 DEF WasRead
      <3>2. b + 1 \in Blocks /\ 0 \in Nat /\ n2 \in Nat /\ n2 >= 1 /\ 0 + n2 <= BlockSize
        BY <1>1, <1>2, <2>3, PhysicalMemoryAssumption
      <3> QED
        BY <3>1, <3>2, OneBlockCode
    <2> HIDE DEF X1, X2
    <2>4. CASE Split(a, n)
      <3>1. reply'.rcode = Combine(Code(X1), Code(X2))
        BY <1>3a, <2>2, <2>3, <2>4
      <3>2. Combine(Code(X1), Code(X2)) = Code(X1 \cup X2)
        BY <2>2, <2>3, <2>4, CombinedCode
      <3> QED
        BY <2>1, <2>4, <3>1, <3>2
    <2>5. CASE ~Split(a, n)
      BY <1>3a, <2>1, <2>2, <2>5
    <2> QED
      BY <2>4, <2>5
  <1> QED
    BY <1>3a, <1>7, <1>8, <1>9, <1>10 DEF ReadEffect

-----------------------------------------------------------------------------
(* The invariants *)

LEMMA InitInv == Init => MemoryInv
  BY NewBlockType DEF Init, MemoryInv, BlockOK

LEMMA AccessIsAccess ==
  ASSUME NEW access \in Accesses
  PROVE  IsAccess(access[1], access[2]) /\ BlockAddress(access[1]) \in Blocks
  <1>1. IsAccess(access[1], access[2])
    BY PhysicalMemoryAssumption DEF IsAccess
  <1> QED
    BY <1>1, AccessType, PhysicalMemoryAssumption DEF Blocks

LEMMA StepInv == MemoryInv /\ [Next]_vars => MemoryInv'
  <1> SUFFICES ASSUME MemoryInv, [Next]_vars PROVE MemoryInv'
    OBVIOUS
  <1>1. ASSUME NEW access \in Accesses, AnyWrite(access[1], access[2]) PROVE MemoryInv'
    <2> DEFINE a == access[1]
               n == access[2]
    <2>1. PICK buffer \in [0 .. n - 1 -> Values], random \in Random(Touched(a, n)),
               initial_values \in {FALSE, n = BlockSize} : Write(a, n, buffer, initial_values, random)
      BY <1>1 DEF AnyWrite
    <2>2. initial_values \in BOOLEAN /\ IsAccess(a, n)
      BY AccessIsAccess
    <2> HIDE DEF a, n
    <2> QED
      BY <2>1, <2>2, WriteStep
  <1>2. ASSUME NEW access \in Accesses, AnyRead(access[1], access[2]) PROVE MemoryInv'
    BY <1>2, AccessIsAccess, ReadStep DEF AnyRead, ReadEffect
  <1>3. ASSUME NEW access \in Accesses, NEW n \in RefusedSizes,
               RefusedRead(access[1], n) \/ RefusedWrite(access[1], n)
        PROVE  MemoryInv'
    BY <1>3, AccessIsAccess DEF RefusedRead, RefusedWrite, MemoryInv
  <1>4. ASSUME NEW b \in Blocks, Dump(b) PROVE MemoryInv'
    BY <1>4 DEF Dump, MemoryInv
  <1>5. CASE UNCHANGED vars
    BY <1>5 DEF vars, MemoryInv
  <1> QED
    BY <1>1, <1>2, <1>3, <1>4, <1>5 DEF Next, Operate

(* MemBlock::Read and Write and the splitting above them keep every block  *)
(* well formed, for every block size and every mix of accesses.            *)
THEOREM MemoryTypeCorrect == Spec => []MemoryTypeOK
  <1>1. Spec => []MemoryInv
    BY InitInv, StepInv, PTL DEF Spec
  <1>2. MemoryInv => MemoryTypeOK
    BY InvMeans
  <1> QED
    BY <1>1, <1>2, PTL

(* No read returns storage that AllocateBlock left uninitialised.          *)
THEOREM GarbageIsNotRead == Spec => []NoGarbage
  <1>1. Spec => []MemoryInv
    BY InitInv, StepInv, PTL DEF Spec
  <1>2. MemoryInv => NoGarbage
    BY InvMeans
  <1> QED
    BY <1>1, <1>2, PTL

-----------------------------------------------------------------------------
(* The refinement *)

\* what a byte of block m shows as its contents and as its initial contents
Shown(m, o) == IF m.allocated THEN ByteAt(m, o) ELSE Unknown
ShownInitial(m, o) == IF m.allocated THEN m.mptr_init[o] ELSE Unknown

LEMMA ShownType ==
  ASSUME NEW m, BlockOK(m), NEW o \in Offsets
  PROVE  /\ Shown(m, o) \in Values \cup {Unknown}
         /\ ShownInitial(m, o) \in Values \cup {Unknown}
         /\ m.allocated => Shown(m, o) \in Values
  <1>1. m.allocated => Filled(m)
    BY NewBlockType DEF BlockOK
  <1>2. m.allocated => ByteAt(m, o) \in Values
    BY <1>1, ByteAtType
  <1> QED
    BY <1>1, <1>2 DEF Shown, ShownInitial, Filled

LEMMA KeptShown ==
  ASSUME NEW m, NEW w, NEW o \in Offsets, KeptByte(m, w, o)
  PROVE  /\ Shown(m, o) # Unknown => Shown(w, o) = Shown(m, o)
         /\ ShownInitial(m, o) # Unknown => ShownInitial(w, o) = ShownInitial(m, o)
         /\ Free(w, o) <=> Free(m, o)
  <1>1. CASE w = m
    BY <1>1
  <1>2. CASE w # m
    BY <1>2 DEF KeptByte, Shown, ShownInitial, Free, Filled
  <1> QED
    BY <1>1, <1>2

\* the refinement mapping, in these terms
LEMMA Mapping ==
  /\ Contents = [x \in Addresses |-> Shown(BlockOf(x), Offset(x))]
  /\ InitialContents = [x \in Addresses |-> ShownInitial(BlockOf(x), Offset(x))]
  /\ DefinedAddresses = {x \in Addresses : ~Free(BlockOf(x), Offset(x))}
  BY DEF Contents, InitialContents, DefinedAddresses, Shown, ShownInitial, Free

LEMMA MappingNext ==
  /\ Contents' = [x \in Addresses |-> Shown(BlockOf(x)', Offset(x))]
  /\ InitialContents' = [x \in Addresses |-> ShownInitial(BlockOf(x)', Offset(x))]
  /\ DefinedAddresses' = {x \in Addresses : ~Free(BlockOf(x)', Offset(x))}
  BY DEF Contents, InitialContents, DefinedAddresses, Shown, ShownInitial, Free

LEMMA MapsType ==
  ASSUME MemoryInv'
  PROVE  /\ Contents' \in Memory!Maps
         /\ InitialContents' \in Memory!Maps
         /\ \A x \in Addresses : BlockOK(BlockOf(x)') /\ Offset(x) \in Offsets
  <1>1. \A x \in Addresses : BlockOK(BlockOf(x)') /\ Offset(x) \in Offsets
    BY AddressType DEF MemoryInv, BlockOf
  <1> QED
    BY <1>1, ShownType, MappingNext DEF Memory!Maps

LEMMA WriteRefines ==
  ASSUME MemoryInv, NEW a, NEW n, IsAccess(a, n), NEW buffer \in [0 .. n - 1 -> Values],
         NEW initial_values \in BOOLEAN, NEW random \in Random(Touched(a, n)),
         Write(a, n, buffer, initial_values, random)
  PROVE  Memory!Write(a, n, initial_values)
  <1> DEFINE S == a .. a + n - 1
  <1>1. MemoryInv' /\ S \subseteq Addresses /\ a \in Nat /\ n \in Nat
    BY WriteStep, SpanBlocks, AccessType
  <1>2. \A x \in Addresses :
           /\ x \in S => WrittenByte(BlockOf(x), BlockOf(x)', Offset(x), buffer[x - a], initial_values)
           /\ x \notin S => KeptByte(BlockOf(x), BlockOf(x)', Offset(x))
    BY WriteStep
  <1>3. \A x \in S : x - a \in 0 .. n - 1 /\ buffer[x - a] \in Values
    BY <1>1
  <1>4. /\ Contents' \in Memory!Maps /\ InitialContents' \in Memory!Maps
        /\ \A x \in Addresses : Offset(x) \in Offsets
    BY <1>1, MapsType
  <1> HIDE DEF S
  <1>5. \A x \in Addresses :
           /\ Contents[x] = Shown(BlockOf(x), Offset(x)) /\ Contents'[x] = Shown(BlockOf(x)', Offset(x))
           /\ InitialContents[x] = ShownInitial(BlockOf(x), Offset(x))
           /\ InitialContents'[x] = ShownInitial(BlockOf(x)', Offset(x))
    BY Mapping, MappingNext
  <1>6. \A x \in S : /\ Contents'[x] = buffer[x - a] /\ Contents'[x] \in Values
                     /\ initial_values => InitialContents'[x] = Contents'[x]
                     /\ ~Free(BlockOf(x)', Offset(x))
                     /\ ~initial_values /\ InitialContents[x] # Unknown => InitialContents'[x] = InitialContents[x]
    <2> TAKE x \in S
    <2> DEFINE m == BlockOf(x)
               w == BlockOf(x)'
               o == Offset(x)
               v == buffer[x - a]
    <2>1. WrittenByte(m, w, o, v, initial_values) /\ v \in Values /\ o \in Offsets
      BY <1>1, <1>2, <1>3, <1>4
    <2>2. /\ Contents'[x] = Shown(w, o)
          /\ InitialContents[x] = ShownInitial(m, o) /\ InitialContents'[x] = ShownInitial(w, o)
      BY <1>1, <1>5
    <2> HIDE DEF m, w, o, v
    <2>3. /\ Shown(w, o) = v /\ ~Free(w, o)
          /\ initial_values => ShownInitial(w, o) = v
          /\ ~initial_values /\ ShownInitial(m, o) # Unknown => ShownInitial(w, o) = ShownInitial(m, o)
      BY <2>1 DEF WrittenByte, Shown, ShownInitial, Free, Filled
    <2>4. /\ Contents'[x] = v /\ Contents'[x] \in Values
          /\ initial_values => InitialContents'[x] = Contents'[x]
          /\ ~initial_values /\ InitialContents[x] # Unknown => InitialContents'[x] = InitialContents[x]
      BY <2>1, <2>2, <2>3
    <2>5. ~Free(BlockOf(x)', Offset(x))
      BY <2>3 DEF w, o
    <2> QED
      BY <2>4, <2>5 DEF v
  <1>7. \A x \in Addresses \ S : /\ Contents[x] # Unknown => Contents'[x] = Contents[x]
                                 /\ InitialContents[x] # Unknown => InitialContents'[x] = InitialContents[x]
                                 /\ Free(BlockOf(x)', Offset(x)) <=> Free(BlockOf(x), Offset(x))
    <2> TAKE x \in Addresses \ S
    <2> DEFINE m == BlockOf(x)
               w == BlockOf(x)'
               o == Offset(x)
    <2>1. o \in Offsets /\ KeptByte(m, w, o)
      BY <1>2, <1>4
    <2>2. /\ Contents[x] = Shown(m, o) /\ Contents'[x] = Shown(w, o)
          /\ InitialContents[x] = ShownInitial(m, o) /\ InitialContents'[x] = ShownInitial(w, o)
      BY <1>5
    <2>3. /\ Shown(m, o) # Unknown => Shown(w, o) = Shown(m, o)
          /\ ShownInitial(m, o) # Unknown => ShownInitial(w, o) = ShownInitial(m, o)
          /\ Free(w, o) <=> Free(m, o)
      <3> HIDE DEF m, w, o
      <3> QED BY <2>1, KeptShown
    <2> QED
      BY <2>2, <2>3
  <1>8. DefinedAddresses' = DefinedAddresses \cup S
    BY <1>1, <1>6, <1>7, Mapping, MappingNext
  <1>9. Memory!Keeps(Contents, Contents', S)
    BY <1>4, <1>7 DEF Memory!Keeps
  <1>10. Memory!Keeps(InitialContents, InitialContents', IF initial_values THEN S ELSE {})
    BY <1>1, <1>4, <1>6, <1>7 DEF Memory!Keeps
  <1>11. reply' = [kind |-> "written", address |-> a, data |-> buffer]
    BY DEF Write
  <1>12. buffer = [i \in 0 .. n - 1 |-> Contents'[a + i]]
    <2>1. \A i \in 0 .. n - 1 : a + i \in S /\ (a + i) - a = i
      BY <1>1 DEF S
    <2> QED
      BY <1>6, <2>1
  <1>13. S = Memory!Span(a, n)
    BY DEF S, Memory!Span
  <1>14. reply'.kind = "written" /\ reply'.address = a /\ reply'.data = [i \in 0 .. n - 1 |-> Contents'[a + i]]
    BY <1>11, <1>12
  <1> QED
    BY <1>1, <1>6, <1>8, <1>9, <1>10, <1>13, <1>14 DEF Memory!Write

LEMMA ReadRefines ==
  ASSUME MemoryInv, NEW a, NEW n, IsAccess(a, n), NEW init_if_free \in BOOLEAN,
         NEW random \in Random(Touched(a, n)), Read(a, n, init_if_free, random)
  PROVE  Memory!Read(a, n, init_if_free)
  <1> DEFINE S == a .. a + n - 1
  <1>0. ReadEffect(a, n, init_if_free)
    BY ReadStep
  <1>1. /\ MemoryInv' /\ S \subseteq Addresses /\ a \in Nat /\ n \in Nat /\ n >= 1
        /\ reply'.kind = "read" /\ reply'.address = a /\ reply'.rcode = Code(S)
        /\ reply'.data = [i \in 0 .. n - 1 |-> ByteAt(BlockOf(a + i)', Offset(a + i))]
    <2>1. S \subseteq Addresses
      BY SpanBlocks
    <2>2. a \in Nat /\ n \in Nat /\ n >= 1
      BY AccessType
    <2>3. /\ MemoryInv' /\ reply'.kind = "read" /\ reply'.address = a /\ reply'.rcode = Code(S)
          /\ reply'.data = [i \in 0 .. n - 1 |-> ByteAt(BlockOf(a + i)', Offset(a + i))]
      BY <1>0 DEF ReadEffect
    <2> QED
      BY <2>1, <2>2, <2>3
  <1>2. \A x \in Addresses :
           /\ x \in S => ReadByte(BlockOf(x), BlockOf(x)', Offset(x), init_if_free)
           /\ x \notin S => KeptByte(BlockOf(x), BlockOf(x)', Offset(x))
    BY <1>0 DEF ReadEffect
  <1>3. a \in S /\ \A i \in 0 .. n - 1 : a + i \in S
    <2>1. a \in Nat /\ n \in Nat /\ n >= 1
      BY AccessType
    <2> QED
      BY <2>1
  <1>4. /\ Contents' \in Memory!Maps /\ InitialContents' \in Memory!Maps
        /\ \A x \in Addresses : BlockOK(BlockOf(x)') /\ Offset(x) \in Offsets
    BY <1>1, MapsType
  <1> HIDE DEF S
  <1>5. \A x \in Addresses :
           /\ Contents[x] = Shown(BlockOf(x), Offset(x)) /\ Contents'[x] = Shown(BlockOf(x)', Offset(x))
           /\ InitialContents[x] = ShownInitial(BlockOf(x), Offset(x))
           /\ InitialContents'[x] = ShownInitial(BlockOf(x)', Offset(x))
           /\ x \in DefinedAddresses <=> ~Free(BlockOf(x), Offset(x))
    BY Mapping, MappingNext
  <1>6. \A x \in S : /\ Contents'[x] = ByteAt(BlockOf(x)', Offset(x)) /\ Contents'[x] \in Values
                     /\ Contents[x] # Unknown => Contents'[x] = Contents[x]
                     /\ InitialContents[x] # Unknown => InitialContents'[x] = InitialContents[x]
                     /\ Free(BlockOf(x)', Offset(x)) <=> Free(BlockOf(x), Offset(x)) /\ ~init_if_free
                     /\ x \notin DefinedAddresses => Contents'[x] = InitialContents'[x]
    <2> TAKE x \in S
    <2> DEFINE m == BlockOf(x)
               w == BlockOf(x)'
               o == Offset(x)
    <2>1. ReadByte(m, w, o, init_if_free) /\ BlockOK(w) /\ o \in Offsets
      BY <1>1, <1>2, <1>4
    <2>2. /\ Contents[x] = Shown(m, o) /\ Contents'[x] = Shown(w, o)
          /\ InitialContents[x] = ShownInitial(m, o) /\ InitialContents'[x] = ShownInitial(w, o)
          /\ x \in DefinedAddresses <=> ~Free(m, o)
      BY <1>1, <1>5
    <2> HIDE DEF m, w, o
    <2>3. /\ w.allocated /\ Shown(w, o) = ByteAt(w, o)
          /\ Shown(m, o) # Unknown => Shown(w, o) = Shown(m, o)
          /\ ShownInitial(m, o) # Unknown => ShownInitial(w, o) = ShownInitial(m, o)
          /\ Free(w, o) <=> Free(m, o) /\ ~init_if_free
          /\ Free(m, o) => Shown(w, o) = ShownInitial(w, o)
      BY <2>1 DEF ReadByte, Shown, ShownInitial, Free, Filled
    <2>4. Shown(w, o) \in Values
      BY <2>1, <2>3, ShownType
    <2>5. /\ Contents'[x] = ByteAt(w, o) /\ Contents'[x] \in Values
          /\ Contents[x] # Unknown => Contents'[x] = Contents[x]
          /\ InitialContents[x] # Unknown => InitialContents'[x] = InitialContents[x]
          /\ x \notin DefinedAddresses => Contents'[x] = InitialContents'[x]
      BY <2>2, <2>3, <2>4
    <2>6. Free(BlockOf(x)', Offset(x)) <=> Free(BlockOf(x), Offset(x)) /\ ~init_if_free
      BY <2>3 DEF m, w, o
    <2> QED
      BY <2>5, <2>6 DEF w, o
  <1>7. \A x \in Addresses \ S : /\ Contents[x] # Unknown => Contents'[x] = Contents[x]
                                 /\ InitialContents[x] # Unknown => InitialContents'[x] = InitialContents[x]
                                 /\ Free(BlockOf(x)', Offset(x)) <=> Free(BlockOf(x), Offset(x))
    <2> TAKE x \in Addresses \ S
    <2> DEFINE m == BlockOf(x)
               w == BlockOf(x)'
               o == Offset(x)
    <2>1. o \in Offsets /\ KeptByte(m, w, o)
      BY <1>2, <1>4
    <2>2. /\ Contents[x] = Shown(m, o) /\ Contents'[x] = Shown(w, o)
          /\ InitialContents[x] = ShownInitial(m, o) /\ InitialContents'[x] = ShownInitial(w, o)
      BY <1>5
    <2>3. /\ Shown(m, o) # Unknown => Shown(w, o) = Shown(m, o)
          /\ ShownInitial(m, o) # Unknown => ShownInitial(w, o) = ShownInitial(m, o)
          /\ Free(w, o) <=> Free(m, o)
      <3> HIDE DEF m, w, o
      <3> QED BY <2>1, KeptShown
    <2> QED
      BY <2>2, <2>3
  <1>8. DefinedAddresses' = IF init_if_free THEN DefinedAddresses \cup S ELSE DefinedAddresses
    BY <1>1, <1>6, <1>7, Mapping, MappingNext
  <1>9. Memory!Keeps(Contents, Contents', {}) /\ Memory!Keeps(InitialContents, InitialContents', {})
    BY <1>4, <1>6, <1>7 DEF Memory!Keeps
  <1>10. reply'.data = [i \in 0 .. n - 1 |-> Contents'[a + i]]
    BY <1>1, <1>3, <1>6
  <1>11. reply'.rcode = Memory!ReadCode(S)
    <2>1. AllFree(S) <=> S \cap DefinedAddresses = {}
      BY <1>1, <1>5 DEF AllFree
    <2>2. NoneFree(S) <=> S \subseteq DefinedAddresses
      BY <1>1, <1>5 DEF NoneFree
    <2>3. ~(AllFree(S) /\ NoneFree(S))
      BY <1>3 DEF AllFree, NoneFree
    <2> QED
      BY <1>1, <2>1, <2>2, <2>3
      DEF Code, Memory!ReadCode, ALL_BYTES_DEFINED, SOME_BYTES_UNDEFINED, ALL_BYTES_FREE,
          Memory!ALL_BYTES_DEFINED, Memory!SOME_BYTES_UNDEFINED, Memory!ALL_BYTES_FREE
  <1>12. S = Memory!Span(a, n)
    BY DEF S, Memory!Span
  <1> QED
    BY <1>1, <1>6, <1>8, <1>9, <1>10, <1>11, <1>12 DEF Memory!Read

LEMMA DumpRefines ==
  ASSUME MemoryInv, NEW b \in Blocks, Dump(b)
  PROVE  (\E a \in Addresses : Memory!Dump(a, BlockSize)) \/ Memory!Fail
  <1>1. UNCHANGED <<Contents, InitialContents, DefinedAddresses>>
    BY DEF Dump, Contents, InitialContents, DefinedAddresses, BlockOf
  <1>2. CASE ~block[b].allocated
    BY <1>1, <1>2 DEF Dump, Memory!Fail
  <1>3. CASE block[b].allocated
    <2>1. PICK a \in Addresses : BlockAddress(a) = b /\ Offset(a) = 0
      <3>1. 0 \in Offsets
        BY PhysicalMemoryAssumption DEF Offsets
      <3> QED
        BY <3>1, Composition
    <2> DEFINE K == BlockSize
               S == a .. a + K - 1
    <2>2. a \in Nat /\ a = b * K /\ K \in Nat \ {0}
      <3>1. a \in Nat /\ a = b * K + 0
        BY <2>1, AddressType, Decomposition
      <3>2. b * K \in Int
        BY PhysicalMemoryAssumption DEF Blocks
      <3> QED
        BY <3>1, <3>2, PhysicalMemoryAssumption
    <2>3. reply' = [kind |-> "dump", address |-> a, data |-> block[b].mptr]
      BY <1>3, <2>2 DEF Dump, IsData
    <2>4. S \subseteq Addresses
      <3> DEFINE Q == (NumBlocks + 1) * K
      <3>1. a + K <= Q /\ Q \in Int
        <4>1. b \in Nat /\ b <= NumBlocks /\ NumBlocks \in Nat
          BY PhysicalMemoryAssumption DEF Blocks
        <4>2. (NumBlocks - b) * K >= 0 /\ (NumBlocks - b) * K = NumBlocks * K - b * K
              /\ Q = NumBlocks * K + K /\ NumBlocks * K \in Int /\ b * K \in Int
          BY <2>2, <4>1, Products
        <4> DEFINE N == NumBlocks * K
                   B == b * K
        <4>3. N - B >= 0 /\ Q = N + K /\ N \in Int /\ B \in Int /\ a = B
          BY <2>2, <4>2
        <4> HIDE DEF N, B, Q
        <4> QED
          BY <2>2, <4>3
      <3>2. Addresses = 0 .. Q - 1
        BY DEF Addresses
      <3> HIDE DEF Q
      <3> QED
        BY <2>2, <3>1, <3>2
    <2>5. ASSUME NEW x \in S, x \in DefinedAddresses
          PROVE  block[b].mptr[x - a] = Contents[x]
      <3>1. x \in Addresses /\ BlockAddress(x) \in Nat /\ Offset(x) \in Offsets
            /\ x = BlockAddress(x) * K + Offset(x)
        BY <2>4, AddressType, Decomposition
      <3>2. BlockAddress(x) = b /\ x - a = Offset(x)
        <4>1. PICK y \in Addresses : BlockAddress(y) = b /\ Offset(y) = x - a
          <5>1. x - a \in Offsets
            BY <2>2 DEF Offsets
          <5> QED
            BY <5>1, Composition
        <4>2. y \in Nat /\ y = b * K + (x - a)
          BY <4>1, AddressType, Decomposition
        <4>3. y = x
          BY <2>2, <4>2
        <4> QED
          BY <4>1, <4>3
      <3>3. ~Free(block[b], Offset(x)) /\ Contents[x] = Shown(block[b], Offset(x))
        BY <2>5, <3>1, <3>2, Mapping DEF BlockOf
      <3> QED
        BY <1>3, <3>2, <3>3 DEF Shown, ByteAt, Free
    <2>6. S = Memory!Span(a, K)
      BY DEF Memory!Span
    <2>7. reply'.kind = "dump" /\ reply'.address = a /\ reply'.data = block[b].mptr
      BY <2>3
    <2>8. Memory!Dump(a, BlockSize)
      BY <1>1, <2>4, <2>5, <2>6, <2>7 DEF Memory!Dump
    <2> QED
      BY <2>8
  <1> QED
    BY <1>2, <1>3

LEMMA InitRefines == Init => Memory!Init
  <1> SUFFICES ASSUME Init PROVE Memory!Init
    OBVIOUS
  <1>1. \A x \in Addresses : BlockOf(x) = NewBlock
    BY AddressType DEF Init, BlockOf
  <1>2. \A x \in Addresses : ~BlockOf(x).allocated
    BY <1>1, NewBlockType
  <1> QED
    BY <1>2 DEF Memory!Init, Contents, InitialContents, DefinedAddresses, Init

LEMMA StepRefines == MemoryInv /\ [Next]_vars => [Memory!Next]_(Memory!vars)
  <1> SUFFICES ASSUME MemoryInv, [Next]_vars PROVE [Memory!Next]_(Memory!vars)
    OBVIOUS
  <1>1. ASSUME NEW access \in Accesses, AnyWrite(access[1], access[2]) PROVE Memory!Next
    <2> DEFINE a == access[1]
               n == access[2]
    <2>1. PICK buffer \in [0 .. n - 1 -> Values], random \in Random(Touched(a, n)),
               initial_values \in {FALSE, n = BlockSize} : Write(a, n, buffer, initial_values, random)
      BY <1>1 DEF AnyWrite
    <2>2. initial_values \in BOOLEAN /\ IsAccess(a, n)
      BY AccessIsAccess
    <2>3. a \in Addresses /\ n \in 1 .. BlockSize
      BY <2>2, AccessType DEF IsAccess
    <2> HIDE DEF a, n
    <2>4. Memory!Write(a, n, initial_values)
      BY <2>1, <2>2, WriteRefines
    <2> QED
      BY <2>2, <2>3, <2>4 DEF Memory!Next
  <1>2. ASSUME NEW access \in Accesses, AnyRead(access[1], access[2]) PROVE Memory!Next
    <2> DEFINE a == access[1]
               n == access[2]
    <2>1. PICK init_if_free \in BOOLEAN, random \in Random(Touched(a, n)) : Read(a, n, init_if_free, random)
      BY <1>2 DEF AnyRead
    <2>2. IsAccess(a, n)
      BY AccessIsAccess
    <2>3. a \in Addresses /\ n \in 1 .. BlockSize
      BY <2>2, AccessType DEF IsAccess
    <2> HIDE DEF a, n
    <2>4. Memory!Read(a, n, init_if_free)
      BY <2>1, <2>2, ReadRefines
    <2> QED
      BY <2>3, <2>4 DEF Memory!Next
  <1>3. ASSUME NEW access \in Accesses, NEW n \in RefusedSizes,
               RefusedRead(access[1], n) \/ RefusedWrite(access[1], n)
        PROVE  Memory!Next
    <2>1. /\ UNCHANGED <<Contents, InitialContents, DefinedAddresses>>
          /\ reply'.kind \in {"refused", "terminated"}
      BY <1>3 DEF RefusedRead, RefusedWrite, Contents, InitialContents, DefinedAddresses, BlockOf
    <2> QED
      BY <2>1 DEF Memory!Next, Memory!Fail
  <1>4. ASSUME NEW b \in Blocks, Dump(b) PROVE Memory!Next
    <2>1. BlockSize \in 1 .. BlockSize
      BY PhysicalMemoryAssumption
    <2> QED
      BY <1>4, <2>1, DumpRefines DEF Memory!Next
  <1>5. CASE UNCHANGED vars
    BY <1>5 DEF vars, Memory!vars, Contents, InitialContents, DefinedAddresses, BlockOf
  <1> QED
    BY <1>1, <1>2, <1>3, <1>4, <1>5 DEF Next, Operate

(* PhysicalMemory is a flat memory of bytes, whatever the size of its      *)
(* blocks: BlockRead, BlockWrite and the dump show their callers what one  *)
(* map from addresses to bytes would.                                      *)
THEOREM BlocksImplementBytes == Spec => ImplementsByteMemory
  <1>1. Spec => []MemoryInv
    BY InitInv, StepInv, PTL DEF Spec
  <1> QED
    BY <1>1, InitRefines, StepRefines, PTL DEF Spec, ImplementsByteMemory, Memory!Spec
-----------------------------------------------------------------------------
(* The dump *)

\* a block that was touched has storage, and the others are as they were
LEMMA TouchedHaveStorage ==
  ASSUME MemoryInv, NEW access \in Accesses,
         AnyWrite(access[1], access[2]) \/ AnyRead(access[1], access[2])
  PROVE  /\ mapped' = mapped \cup Touched(access[1], access[2])
         /\ \A c \in Touched(access[1], access[2]) : block'[c].allocated
         /\ \A c \in Blocks \ Touched(access[1], access[2]) : block'[c] = block[c]
  <1> DEFINE a == access[1]
             n == access[2]
             b == BlockAddress(a)
  <1>1. \A m, r : Allocate(m, r).allocated
    BY DEF Allocate, NewBlock
  <1>2. \A m, r, o, k, buffer, i : BlockWrite(Allocate(m, r), o, k, buffer, i).allocated
    BY <1>1 DEF BlockWrite
  <1>3. \A m, r, o, k, i : BlockRead(Allocate(m, r), o, k, i).allocated
    BY <1>1, <1>2 DEF BlockRead
  <1>4. PICK m1, m2 :
           /\ mapped' = mapped \cup Touched(a, n)
           /\ m1.allocated /\ m2.allocated
           /\ block' = IF Split(a, n) THEN [block EXCEPT ![b] = m1, ![b + 1] = m2]
                                     ELSE [block EXCEPT ![b] = m1]
    <2>1. CASE AnyWrite(a, n)
      <3>1. PICK buffer, random, initial_values : Write(a, n, buffer, initial_values, random)
        BY <2>1 DEF AnyWrite
      <3> DEFINE n1 == FirstPart(a, n)
                 W1 == BlockWrite(Allocate(block[b], random[b]), Offset(a), n1, buffer, initial_values)
                 W2 == BlockWrite(Allocate(block[b + 1], random[b + 1]), 0, n - n1,
                                  Rest(buffer, n1, n), initial_values)
      <3>2. W1.allocated /\ W2.allocated
        BY <1>2
      <3>3. /\ mapped' = mapped \cup Touched(a, n)
            /\ block' = IF Split(a, n) THEN [block EXCEPT ![b] = W1, ![b + 1] = W2]
                                      ELSE [block EXCEPT ![b] = W1]
        BY <3>1 DEF Write
      <3> HIDE DEF W1, W2
      <3> QED
        BY <3>2, <3>3
    <2>2. CASE AnyRead(a, n)
      BY <1>3, <2>2 DEF AnyRead, Read
    <2> QED
      BY <2>1, <2>2
  <1>5. b \in Blocks /\ b + 1 # b /\ (Split(a, n) => b + 1 \in Blocks)
    BY AccessIsAccess, AccessType, PhysicalMemoryAssumption DEF Blocks
  <1>6. Touched(a, n) = {b} \cup (IF Split(a, n) THEN {b + 1} ELSE {})
    BY DEF Touched
  <1>7. block \in [Blocks -> MemBlock]
    BY DEF MemoryInv
  <1> HIDE DEF a, n, b
  <1>8. /\ \A c \in Touched(a, n) : block'[c].allocated
        /\ \A c \in Blocks \ Touched(a, n) : block'[c] = block[c]
    BY <1>4, <1>5, <1>6, <1>7
  <1> QED
    BY <1>4, <1>8 DEF a, n

HoleStep ==
    \A b \in AddressList' : \/ block'[b].allocated
                            \/ b \in AddressList /\ ~block[b].allocated
                            \/ reply'.kind \in {"refused", "terminated"}

(* ReadInitialState meets a listed block without storage only after an     *)
(* access that ValidateAccess refused: no split read or write, and no      *)
(* dump, leaves one behind.                                                *)
THEOREM HolesComeFromRefusedAccesses == Spec => OnlyRefusedAccessesLeaveHoles
  <1>1. Spec => []MemoryInv
    BY InitInv, StepInv, PTL DEF Spec
  <1>2. ASSUME MemoryInv, [Next]_vars PROVE HoleStep
    <2>1. ASSUME mapped' = mapped, block' = block PROVE HoleStep
      BY <2>1 DEF HoleStep, AddressList
    <2>2. ASSUME NEW access \in Accesses,
                 AnyWrite(access[1], access[2]) \/ AnyRead(access[1], access[2])
          PROVE  HoleStep
      <3>1. mapped \subseteq Blocks
        BY <1>2 DEF MemoryInv
      <3> QED
        BY <1>2, <2>2, <3>1, TouchedHaveStorage DEF HoleStep, AddressList
    <2>3. ASSUME NEW access \in Accesses, NEW n \in RefusedSizes,
                 RefusedRead(access[1], n) \/ RefusedWrite(access[1], n)
          PROVE  HoleStep
      BY <2>3 DEF RefusedRead, RefusedWrite, HoleStep
    <2> QED
      BY <1>2, <2>1, <2>2, <2>3 DEF Next, Operate, Dump, vars
  <1>3. MemoryInv /\ [Next]_vars => [HoleStep]_vars
    BY <1>2
  <1>4. Spec => [][HoleStep]_vars
    BY <1>1, <1>3, PTL DEF Spec
  <1>5. [][HoleStep]_vars => OnlyRefusedAccessesLeaveHoles
    BY PTL DEF HoleStep, OnlyRefusedAccessesLeaveHoles
  <1> QED
    BY <1>4, <1>5
=============================================================================
