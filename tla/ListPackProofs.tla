---------------------------- MODULE ListPackProofs ----------------------------
(***************************************************************************)
(* The layout of a list pack is kept by every call, for lists of every     *)
(* length and strings of every size.  LPInv says where each entry begins   *)
(* and which bytes it holds; the walks, the header, the counts and the     *)
(* pointer follow from it.  A call is a splice: what lies before it stays, *)
(* what lies behind it moves, and so do the offsets.                       *)
(***************************************************************************)
EXTENDS ListPack, Induction, SequenceTheorems, FiniteSetTheorems

\* What a byte holds.
Bytes == 0 .. 255

\* An uint32_t.
Fits32(n) == n \in Nat /\ n \div 65536 < 65536

-------------------------------------------------------------------------------
\* Bytes.

\* Membership in Bytes as an inequality, so that proofs need not open the range.
LEMMA BytesAre == \A x : x \in Bytes <=> x \in Nat /\ x < 256
BY SMT DEF Bytes

\* A read of the block is a byte, also a read behind its end.
LEMMA ByteType ==
  ASSUME lp \in Seq(Bytes), NEW o \in Int
  PROVE  Byte(o) \in Bytes
<1>1. DOMAIN lp = 1 .. Len(lp) /\ \A i \in 1 .. Len(lp) : lp[i] \in Bytes
  BY LenProperties, ElementOfSeq
<1> QED
  BY <1>1 DEF Byte, Bytes, LP_EOF

\* The i-th byte of n, and the number of four bytes.
ByteOf(n, i) == (n \div <<1, 256, 65536, 16777216>>[i]) % 256
Of4(a, b, c, d) == a + 256 * b + 65536 * c + 16777216 * d

\* The bytes of a number that memcpy puts into the block.
LEMMA LittleEndianIs ==
  ASSUME NEW n \in Int, NEW k \in 1 .. 4
  PROVE  /\ LittleEndian(n, k) \in Seq(Bytes) /\ Len(LittleEndian(n, k)) = k
         /\ \A i \in 1 .. k : LittleEndian(n, k)[i] = ByteOf(n, i)
<1>1. \A i \in 1 .. k : ByteOf(n, i) \in Bytes
  BY SMT DEF Bytes, ByteOf
<1>2. LittleEndian(n, k) = [i \in 1 .. k |-> ByteOf(n, i)]
  BY DEF LittleEndian, ByteOf
<1> QED
  BY <1>1, <1>2

\* An uint32_t is what its four bytes say.
LEMMA FourBytesOf ==
  ASSUME NEW n, Fits32(n)
  PROVE  n = Of4(ByteOf(n, 1), ByteOf(n, 2), ByteOf(n, 3), ByteOf(n, 4))
<1>1. PICK a, b, c, d :
        /\ a = n % 256 /\ b = (n \div 256) % 256
        /\ c = (n \div 65536) % 256 /\ d = (n \div 16777216) % 256
  BY SMT
<1>2. n = a + 256 * b + 65536 * c + 16777216 * d
  BY <1>1, SMT DEF Fits32
<1>3. ByteOf(n, 1) = a /\ ByteOf(n, 2) = b
  BY <1>1, SMT DEF ByteOf, Fits32
<1>5. ByteOf(n, 3) = c
  BY <1>1, SMT DEF ByteOf, Fits32
<1>6. ByteOf(n, 4) = d
  BY <1>1, SMT DEF ByteOf, Fits32
<1>4. n = Of4(a, b, c, d)
  BY <1>2, SMT DEF Of4
<1> QED
  BY <1>3, <1>4, <1>5, <1>6

\* An uint16_t.
FitsHalf(n) == n \in Nat /\ n < 65536

\* An uint16_t is what its two bytes say.
LEMMA TwoBytesOf ==
  ASSUME NEW n, FitsHalf(n)
  PROVE  n = Of4(ByteOf(n, 1), ByteOf(n, 2), 0, 0)
<1>1. PICK a, b : a = n % 256 /\ b = (n \div 256) % 256
  BY SMT
<1>a. n \in Nat /\ n < 65536
  BY SMT DEF FitsHalf
<1>2. n \div 256 \in Nat /\ n \div 256 < 256 /\ n = (n % 256) + 256 * (n \div 256)
  BY <1>a, SMT
<1>3. (n \div 256) % 256 = n \div 256
  BY <1>2, SMT
<1>4. n = a + 256 * b
  BY <1>1, <1>2, <1>3, SMT
<1>5. ByteOf(n, 1) = a /\ ByteOf(n, 2) = b
  BY <1>1, <1>a, SMT DEF ByteOf
<1>6. a \in Int /\ b \in Int
  BY <1>1, <1>a, SMT
<1>7. n = Of4(a, b, 0, 0)
  BY <1>4, <1>6, SMT DEF Of4
<1> QED
  BY <1>5, <1>7

\* A length that fits in five times seven bits.
Fits35(l) == l \in Nat /\ l \div 268435456 < 128

\* The groups of seven bits of l, the lowest first.
SevenBitsLow(l) ==
  <<l % 128, (l \div 128) % 128, (l \div 16384) % 128, (l \div 2097152) % 128,
    (l \div 268435456) % 128>>

\* The groups are digits to the base 128.
LEMMA LowIs ==
  ASSUME NEW l \in Nat
  PROVE  /\ SevenBitsLow(l)[1] = l % 128 /\ SevenBitsLow(l)[2] = (l \div 128) % 128
         /\ SevenBitsLow(l)[3] = (l \div 16384) % 128
         /\ SevenBitsLow(l)[4] = (l \div 2097152) % 128
         /\ SevenBitsLow(l)[5] = (l \div 268435456) % 128
BY SMT DEF SevenBitsLow

\* Each group fits into seven bits.
LEMMA LowType ==
  ASSUME NEW l \in Nat
  PROVE  /\ SevenBitsLow(l) \in [1 .. 5 -> Nat]
         /\ \A i \in 1 .. 5 : SevenBitsLow(l)[i] < 128
BY SMT DEF SevenBitsLow

\* The bytes lpEncodeBacklen writes, the highest group first.
LEMMA SevenBitsIs ==
  ASSUME NEW l \in Nat, NEW k \in 2 .. 5
  PROVE  /\ SevenBits(l, k) \in Seq(Bytes) /\ Len(SevenBits(l, k)) = k
         /\ \A i \in 1 .. k : SevenBits(l, k)[i] =
              SevenBitsLow(l)[k - i + 1] + (IF i = 1 THEN 0 ELSE 128)
<1> DEFINE low == SevenBitsLow(l)
<1>1. low \in [1 .. 5 -> Nat] /\ \A i \in 1 .. 5 : low[i] < 128
  BY LowType
<1>2. SevenBits(l, k) = [i \in 1 .. k |-> low[k - i + 1] + (IF i = 1 THEN 0 ELSE 128)]
  BY SMT DEF SevenBits, SevenBitsLow
<1> HIDE DEF low
<1>3. \A i \in 1 .. k : low[k - i + 1] + (IF i = 1 THEN 0 ELSE 128) \in Bytes
  BY <1>1, BytesAre
<1>4. SevenBits(l, k) \in Seq(Bytes) /\ Len(SevenBits(l, k)) = k
  BY <1>2, <1>3, SMT
<1> QED
  BY <1>2, <1>4 DEF low

\* The length behind an entry takes one to five bytes, as many as lpEncodeBacklen says.
LEMMA BacklenBytes ==
  ASSUME NEW l \in Nat
  PROVE  /\ EncodeBacklen(l) \in Seq(Bytes) /\ BacklenSize(l) \in 1 .. 5
         /\ IF BacklenSize(l) = 1 THEN l <= 127 /\ EncodeBacklen(l) = <<l>>
            ELSE EncodeBacklen(l) = SevenBits(l, BacklenSize(l))
         /\ BacklenSize(l) = 2 => l < 16384
         /\ BacklenSize(l) = 3 => l < 2097152
         /\ BacklenSize(l) = 4 => l < 268435456
<1>1. CASE l <= 127
  BY <1>1, SMT DEF EncodeBacklen, BacklenSize, Bytes
<1>2. CASE l > 127
  <2> DEFINE k == IF l < 16383 THEN 2 ELSE IF l < 2097151 THEN 3
                  ELSE IF l < 268435455 THEN 4 ELSE 5
  <2>1. EncodeBacklen(l) = SevenBits(l, k)
    BY <1>2, SMT DEF EncodeBacklen
  <2>2. /\ k = 2 => l < 16384
        /\ k = 3 => l < 2097152
        /\ k = 4 => l < 268435456
    BY SMT
  <2>3. k \in 2 .. 5
    BY SMT
  <2> HIDE DEF k
  <2>4. SevenBits(l, k) \in Seq(Bytes) /\ Len(SevenBits(l, k)) = k
    BY <2>3, SevenBitsIs
  <2>5. BacklenSize(l) = k
    BY <2>1, <2>4, SMT DEF BacklenSize
  <2> QED
    BY <2>1, <2>2, <2>3, <2>4, <2>5, SMT
<1> QED
  BY <1>1, <1>2, SMT

\* The same without the bounds of each size, for proofs that need no more.
LEMMA BacklenType ==
  ASSUME NEW l \in Nat
  PROVE  /\ BacklenSize(l) \in Nat /\ BacklenSize(l) >= 1 /\ BacklenSize(l) \in 1 .. 5
         /\ EncodeBacklen(l) \in Seq(Bytes)
<1>1. CASE l <= 127
  <2>1. EncodeBacklen(l) = <<l>>
    BY <1>1, SMT DEF EncodeBacklen
  <2>2. l \in Bytes
    BY <1>1, BytesAre
  <2>3. <<l>> \in Seq(Bytes) /\ Len(<<l>>) = 1
    BY <2>2
  <2> QED
    BY <2>1, <2>3 DEF BacklenSize
<1>2. CASE l > 127
  <2>1. PICK k \in 2 .. 5 : EncodeBacklen(l) = SevenBits(l, k)
    <3> DEFINE k == IF l < 16383 THEN 2 ELSE IF l < 2097151 THEN 3
                    ELSE IF l < 268435455 THEN 4 ELSE 5
    <3>1. EncodeBacklen(l) = SevenBits(l, k)
      BY <1>2, SMT DEF EncodeBacklen
    <3>2. k \in 2 .. 5
      BY SMT
    <3> HIDE DEF k
    <3> QED
      BY <3>1, <3>2
  <2>2. SevenBits(l, k) \in Seq(Bytes) /\ Len(SevenBits(l, k)) = k
    BY SevenBitsIs
  <2> QED
    BY <2>1, <2>2 DEF BacklenSize
<1> QED
  BY <1>1, <1>2

\* The loop of lpDecodeBacklen over the bytes b, from the right.
Decodes(val, b) ==
  val = [i \in 0 .. 5 |-> IF i = 5 THEN 0
                          ELSE (b[i] % 128) + (IF b[i] < 128 THEN 0 ELSE 128 * val[i + 1])]

\* The loop of lpDecodeBacklen has a value.
LEMMA DecodesExists ==
  ASSUME NEW b \in [0 .. 4 -> Bytes]
  PROVE  \E val : Decodes(val, b)
<1> DEFINE P == 0 .. 5
           rank == [i \in P |-> 5 - i]
           go == [i \in P |-> i # 5]
           next == [i \in P |-> i + 1]
           step == [i \in P |-> [v \in Int |-> IF i = 5 THEN 0
                                    ELSE (b[i] % 128) + (IF b[i] < 128 THEN 0 ELSE 128 * v)]]
           base == [i \in P |-> 0]
<1>1. rank \in [P -> Nat] /\ base \in [P -> Int] /\ \A i \in P : rank[i] < 6
  OBVIOUS
<1>2. step \in [P -> [Int -> Int]]
  <2>1. \A i \in 0 .. 4 : b[i] \in Int /\ b[i] % 128 \in Int
    BY DEF Bytes
  <2> QED
    BY <2>1
<1>3. \A i \in P : go[i] => next[i] \in P /\ rank[next[i]] < rank[i]
  <2> SUFFICES ASSUME NEW i \in P, i # 5
               PROVE  next[i] \in P /\ rank[next[i]] < rank[i]
    OBVIOUS
  <2>1. i + 1 \in P /\ next[i] = i + 1 /\ rank[i] = 5 - i
    OBVIOUS
  <2>2. rank[i + 1] = 5 - (i + 1)
    BY <2>1
  <2> QED
    BY <2>1, <2>2
<1>4. Solvable(P, Int, go, next, step, base)
  <2> HIDE DEF P, rank, go, next, step, base
  <2> QED
    BY <1>1, <1>2, <1>3, RecursionExists
<1>5. PICK val \in [P -> Int] :
        \A i \in P : val[i] = IF go[i] THEN step[i][val[next[i]]] ELSE base[i]
  BY <1>4 DEF Solvable
<1>6. \A i \in P : val[i] = IF i = 5 THEN 0
                          ELSE (b[i] % 128) + (IF b[i] < 128 THEN 0 ELSE 128 * val[i + 1])
  <2> SUFFICES ASSUME NEW i \in P, i # 5
               PROVE  val[i] = (b[i] % 128) + (IF b[i] < 128 THEN 0 ELSE 128 * val[i + 1])
    BY <1>5
  <2>1. val[i + 1] \in Int
    OBVIOUS
  <2>2. val[i] = step[i][val[i + 1]]
    BY <1>5
  <2> QED
    BY <2>1, <2>2
<1> QED
  BY <1>6 DEF Decodes

\* That value is the number whose groups lie to the left of o.
LEMMA DecodesIs ==
  ASSUME NEW b \in [0 .. 4 -> Bytes], NEW val, Decodes(val, b)
  PROVE  /\ val[4] = b[4] % 128
         /\ val[3] = (b[3] % 128) + (IF b[3] < 128 THEN 0 ELSE 128 * val[4])
         /\ val[2] = (b[2] % 128) + (IF b[2] < 128 THEN 0 ELSE 128 * val[3])
         /\ val[1] = (b[1] % 128) + (IF b[1] < 128 THEN 0 ELSE 128 * val[2])
         /\ val[0] = (b[0] % 128) + (IF b[0] < 128 THEN 0 ELSE 128 * val[1])
<1>1. \A i \in 0 .. 5 : val[i] = IF i = 5 THEN 0
         ELSE (b[i] % 128) + (IF b[i] < 128 THEN 0 ELSE 128 * val[i + 1])
  BY DEF Decodes
<1>2. b[4] % 128 \in Int
  BY DEF Bytes
<1>3. val[5] = 0 /\ val[4] = b[4] % 128
  BY <1>1, <1>2
<1>4. val[3] = (b[3] % 128) + (IF b[3] < 128 THEN 0 ELSE 128 * val[4])
  BY <1>1
<1>5. val[2] = (b[2] % 128) + (IF b[2] < 128 THEN 0 ELSE 128 * val[3])
  BY <1>1
<1>6. val[1] = (b[1] % 128) + (IF b[1] < 128 THEN 0 ELSE 128 * val[2])
  BY <1>1
<1>7. val[0] = (b[0] % 128) + (IF b[0] < 128 THEN 0 ELSE 128 * val[1])
  BY <1>1
<1> QED
  BY <1>3, <1>4, <1>5, <1>6, <1>7

\* What lpDecodeBacklen reads.
LEMMA DecodeBacklenIs ==
  ASSUME lp \in Seq(Bytes), NEW o \in Int
  PROVE  \E val : Decodes(val, [i \in 0 .. 4 |-> Byte(o - i)]) /\ DecodeBacklen(o) = val[0]
<1> DEFINE b == [i \in 0 .. 4 |-> Byte(o - i)]
           Loop(val) ==
             val = [i \in 0 .. 5 |->
                     IF i = 5 THEN 0
                     ELSE (Byte(o - i) % 128) + (IF Byte(o - i) < 128 THEN 0 ELSE 128 * val[i + 1])]
           v == CHOOSE val : Loop(val)
<1>1. b \in [0 .. 4 -> Bytes]
  BY ByteType
<1>2. \A val : Decodes(val, b) <=> Loop(val)
  <2>1. ASSUME NEW val PROVE Decodes(val, b) <=> Loop(val)
    <3>1. \A i \in 0 .. 5 : i # 5 => b[i] = Byte(o - i)
      OBVIOUS
    <3> HIDE DEF b
    <3> QED
      BY <3>1 DEF Decodes
  <2> QED
    BY <2>1
<1>3. Loop(v)
  <2>1. PICK w : Decodes(w, b)
    <3> HIDE DEF b
    <3> QED
      BY <1>1, DecodesExists
  <2> HIDE DEF Loop
  <2> QED
    BY <2>1, <1>2
<1>4. DecodeBacklen(o) = v[0]
  BY DEF DecodeBacklen
<1> QED
  <2> HIDE DEF v, Loop
  <2> QED
    BY <1>2, <1>3, <1>4

\* The groups of a number add up to it.
LEMMA LowSum ==
  ASSUME NEW l \in Nat
  PROVE  /\ l < 16384 => l = (l % 128) + 128 * ((l \div 128) % 128)
         /\ l < 2097152 => l = (l % 128) + 128 * (((l \div 128) % 128) + 128 * ((l \div 16384) % 128))
         /\ l < 268435456 => l = (l % 128) + 128 * (((l \div 128) % 128) + 128 * (((l \div 16384) % 128)
                                   + 128 * ((l \div 2097152) % 128)))
         /\ Fits35(l) => l = (l % 128) + 128 * (((l \div 128) % 128) + 128 * (((l \div 16384) % 128)
                                   + 128 * (((l \div 2097152) % 128)
                                   + 128 * ((l \div 268435456) % 128))))
BY SMT DEF Fits35

\* One byte of the loop: v is the value to the left of it.
Digit(x, v) == (x % 128) + (IF x < 128 THEN 0 ELSE 128 * v)

\* Of a marked byte lpDecodeBacklen takes the seven low bits.
LEMMA DigitIs ==
  ASSUME NEW x \in Nat, x < 128, NEW v \in Int
  PROVE  Digit(x, v) = x /\ Digit(x + 128, v) = x + 128 * v /\ x + 128 * v \in Int
<1>1. x % 128 = x /\ (x + 128) % 128 = x /\ ~(x + 128 < 128) /\ x < 128
  OBVIOUS
<1> QED
  BY <1>1 DEF Digit

\* lpDecodeBacklen reads what lpEncodeBacklen wrote.
LEMMA DecodeReads ==
  ASSUME lp \in Seq(Bytes), NEW l \in Nat, Fits35(l), NEW o \in Int,
         \A i \in 1 .. BacklenSize(l) : Byte(o - BacklenSize(l) + i) = EncodeBacklen(l)[i]
  PROVE  DecodeBacklen(o) = l
<1> DEFINE b == [i \in 0 .. 4 |-> Byte(o - i)]
           k == BacklenSize(l)
           low == SevenBitsLow(l)
<1>1. PICK val : Decodes(val, b) /\ DecodeBacklen(o) = val[0]
  BY DecodeBacklenIs
<1>2. b \in [0 .. 4 -> Bytes]
  BY ByteType
<1>3. k \in 1 .. 5
  BY BacklenBytes, SMT
<1>4. \A i \in 0 .. k - 1 : b[i] = EncodeBacklen(l)[k - i]
  <2> SUFFICES ASSUME NEW i \in 0 .. k - 1 PROVE b[i] = EncodeBacklen(l)[k - i]
    OBVIOUS
  <2>1. k - i \in 1 .. k /\ o - k + (k - i) = o - i /\ i \in 0 .. 4
    BY <1>3, SMTT(30)
  <2>2. Byte(o - k + (k - i)) = EncodeBacklen(l)[k - i]
    BY <2>1
  <2> QED
    BY <2>1, <2>2
<1>5. /\ val[4] = b[4] % 128
      /\ val[3] = Digit(b[3], val[4]) /\ val[2] = Digit(b[2], val[3])
      /\ val[1] = Digit(b[1], val[2]) /\ val[0] = Digit(b[0], val[1])
  <2> HIDE DEF b
  <2> QED
    BY <1>1, <1>2, DecodesIs DEF Digit
<1> HIDE DEF b, k
<1>6. CASE k = 1
  <2>1. l <= 127 /\ EncodeBacklen(l) = <<l>>
    BY <1>6, BacklenBytes, SMT DEF k
  <2>2. b[0] = l
    BY <1>4, <1>6, <2>1
  <2>3. val[0] = l
    <3>1. \A x \in Nat : x <= 127 => x % 128 = x
      OBVIOUS
    <3> QED
      BY <1>5, <2>1, <2>2, <3>1 DEF Digit
  <2> QED
    BY <1>1, <2>3
<1>7. ASSUME k # 1
      PROVE  \A i \in 0 .. k - 1 : b[i] = low[i + 1] + (IF i = k - 1 THEN 0 ELSE 128)
  <2> SUFFICES ASSUME NEW i \in 0 .. k - 1
               PROVE  b[i] = low[i + 1] + (IF i = k - 1 THEN 0 ELSE 128)
    OBVIOUS
  <2>1. k \in 2 .. 5 /\ k - i \in 1 .. k /\ k - (k - i) + 1 = i + 1 /\ (k - i = 1 <=> i = k - 1)
    BY <1>3, <1>7
  <2>2. EncodeBacklen(l) = SevenBits(l, k)
    BY <1>7, BacklenBytes, SMT DEF k
  <2>3. SevenBits(l, k)[k - i] = low[k - (k - i) + 1] + (IF k - i = 1 THEN 0 ELSE 128)
    BY <2>1, SevenBitsIs
  <2> QED
    BY <1>4, <2>1, <2>2, <2>3
<1>8. low \in [1 .. 5 -> Nat] /\ \A i \in 1 .. 5 : low[i] < 128
  BY LowType
<1>9. /\ low[1] = l % 128 /\ low[2] = (l \div 128) % 128
      /\ low[3] = (l \div 16384) % 128
      /\ low[4] = (l \div 2097152) % 128
      /\ low[5] = (l \div 268435456) % 128
  BY LowIs, SMT
<1>10. /\ k = 2 => l = low[1] + 128 * low[2]
       /\ k = 3 => l = low[1] + 128 * (low[2] + 128 * low[3])
       /\ k = 4 => l = low[1] + 128 * (low[2] + 128 * (low[3] + 128 * low[4]))
       /\ k = 5 => l = low[1] + 128 * (low[2] + 128 * (low[3] + 128 * (low[4] + 128 * low[5])))
  <2>1. /\ k = 2 => l < 16384
        /\ k = 3 => l < 2097152
        /\ k = 4 => l < 268435456
    BY BacklenBytes, SMT DEF k
  <2> HIDE DEF low
  <2> QED
    BY <1>9, <2>1, LowSum, SMTT(30)
<1> HIDE DEF low
<1>11. PICK x1, x2, x3, x4, x5 :
         x1 = low[1] /\ x2 = low[2] /\ x3 = low[3] /\ x4 = low[4] /\ x5 = low[5]
  OBVIOUS
<1>110. /\ x1 \in Nat /\ x2 \in Nat /\ x3 \in Nat /\ x4 \in Nat /\ x5 \in Nat
       /\ x1 < 128 /\ x2 < 128 /\ x3 < 128 /\ x4 < 128 /\ x5 < 128
  BY <1>8, <1>11
<1>12. PICK b0 \in Nat, b1 \in Nat, b2 \in Nat, b3 \in Nat, b4 \in Nat :
         b0 = b[0] /\ b1 = b[1] /\ b2 = b[2] /\ b3 = b[3] /\ b4 = b[4]
  BY <1>2, BytesAre, SMTT(30)
<1>13. PICK v0, v1, v2, v3, v4 :
         v0 = val[0] /\ v1 = val[1] /\ v2 = val[2] /\ v3 = val[3] /\ v4 = val[4]
  OBVIOUS
<1>14. /\ v4 = b4 % 128 /\ v3 = Digit(b3, v4) /\ v2 = Digit(b2, v3)
       /\ v1 = Digit(b1, v2) /\ v0 = Digit(b0, v1)
  BY <1>5, <1>12, <1>13
<1>15. v4 \in Int /\ v3 \in Int /\ v2 \in Int
  BY <1>14 DEF Digit
<1>16. /\ k = 2 => l = x1 + 128 * x2
       /\ k = 3 => l = x1 + 128 * (x2 + 128 * x3)
       /\ k = 4 => l = x1 + 128 * (x2 + 128 * (x3 + 128 * x4))
       /\ k = 5 => l = x1 + 128 * (x2 + 128 * (x3 + 128 * (x4 + 128 * x5)))
  BY <1>10, <1>11
<1>17. k # 1 => b0 = x1 + 128 /\ b1 = x2 + (IF k = 2 THEN 0 ELSE 128)
  <2>1. k # 1 => 0 \in 0 .. k - 1 /\ 1 \in 0 .. k - 1 /\ 0 # k - 1 /\ (1 = k - 1 <=> k = 2)
    BY <1>3
  <2>2. low[0 + 1] = x1 /\ low[1 + 1] = x2
    BY <1>11
  <2> QED
    BY <1>7, <1>12, <2>1, <2>2
<1>18. k >= 3 => b2 = x3 + (IF k = 3 THEN 0 ELSE 128)
  <2>1. k >= 3 => k # 1 /\ 2 \in 0 .. k - 1 /\ (2 = k - 1 <=> k = 3)
    BY <1>3
  <2>2. low[2 + 1] = x3
    BY <1>11
  <2> QED
    BY <1>7, <1>12, <2>1, <2>2
<1>19. k >= 4 => b3 = x4 + (IF k = 4 THEN 0 ELSE 128)
  <2>1. k >= 4 => k # 1 /\ 3 \in 0 .. k - 1 /\ (3 = k - 1 <=> k = 4)
    BY <1>3
  <2>2. low[3 + 1] = x4
    BY <1>11
  <2> QED
    BY <1>7, <1>12, <2>1, <2>2
<1>20. k = 5 => v4 = x5
  <2>1. k = 5 => k # 1 /\ 4 \in 0 .. k - 1 /\ 4 = k - 1
    OBVIOUS
  <2>2. low[4 + 1] = x5
    BY <1>11
  <2>3. k = 5 => b4 = x5
    BY <1>7, <1>110, <1>12, <2>1, <2>2
  <2> QED
    BY <1>110, <1>14, <2>3
<1>21. k # 1 => Digit(b0, v1) = Digit(x1 + 128, v1)
  BY <1>17
<1>22. IF k = 2 THEN v1 = x2 ELSE k >= 3 => v1 = x2 + 128 * v2
  <2>1. Digit(x2, v2) = x2 /\ Digit(x2 + 128, v2) = x2 + 128 * v2
    BY <1>110, <1>15, DigitIs
  <2> QED
    BY <1>110, <1>14, <1>17, <2>1
<1>23. IF k = 3 THEN v2 = x3 ELSE k >= 4 => v2 = x3 + 128 * v3
  <2>1. Digit(x3, v3) = x3 /\ Digit(x3 + 128, v3) = x3 + 128 * v3
    BY <1>110, <1>15, DigitIs
  <2> QED
    BY <1>3, <1>110, <1>14, <1>18, <2>1
<1>24. IF k = 4 THEN v3 = x4 ELSE k = 5 => v3 = x4 + 128 * x5
  <2>1. Digit(x4, v4) = x4 /\ Digit(x4 + 128, v4) = x4 + 128 * v4
    BY <1>110, <1>15, DigitIs
  <2> QED
    BY <1>3, <1>110, <1>14, <1>19, <1>20, <2>1
<1>25. k # 1 => v1 \in Int
  BY <1>3, <1>110, <1>15, <1>22
<1>26. k # 1 => v0 = x1 + 128 * v1
  <2>1. k # 1 => Digit(x1 + 128, v1) = x1 + 128 * v1
    BY <1>25, <1>110, DigitIs
  <2> QED
    BY <1>14, <1>21, <2>1
<1>27. k # 1 => v0 = l
  <2>1. CASE k = 2
    BY <1>16, <1>22, <1>26, <2>1
  <2>2. CASE k = 3
    BY <1>16, <1>22, <1>23, <1>26, <2>2
  <2>3. CASE k = 4
    BY <1>16, <1>22, <1>23, <1>24, <1>26, <2>3
  <2>4. CASE k = 5
    BY <1>16, <1>22, <1>23, <1>24, <1>26, <2>4
  <2> QED
    BY <1>3, <2>1, <2>2, <2>3, <2>4
<1> QED
  BY <1>1, <1>6, <1>13, <1>27

-------------------------------------------------------------------------------
\* Encodings.

\* The first bytes of an encoding tell its length.
SizeSays(e) ==
  \/ e[1] < 128 /\ Len(e) = 1
  \/ e[1] >= 128 /\ e[1] < 192 /\ Len(e) = 1 + (e[1] % 64)
  \/ e[1] >= 192 /\ e[1] < 224 /\ Len(e) = 2
  \/ e[1] >= 224 /\ e[1] < 240 /\ Len(e) >= 2 /\ Len(e) = 2 + ((e[1] % 16) * 256) + e[2]
  \/ /\ e[1] = 240 /\ Len(e) >= 5
     /\ Len(e) = 5 + Of4(e[2], e[3], e[4], e[5])
  \/ e[1] >= 241 /\ e[1] < 244 /\ Len(e) = e[1] - 238

\* What is stored of an element: a byte string that is not empty.
WellFormed(e) == e \in Seq(Bytes) /\ Len(e) >= 1 /\ SizeSays(e)

\* A byte before a sequence.
LEMMA Prefixed ==
  ASSUME NEW h \in Bytes, NEW x \in Seq(Bytes)
  PROVE  /\ <<h>> \o x \in Seq(Bytes) /\ Len(<<h>> \o x) = 1 + Len(x) /\ (<<h>> \o x)[1] = h
         /\ \A i \in 1 .. Len(x) : (<<h>> \o x)[i + 1] = x[i]
<1>1. <<h>> \in Seq(Bytes) /\ Len(<<h>>) = 1 /\ <<h>>[1] = h
  OBVIOUS
<1>2. PICK y : y = <<h>>
  OBVIOUS
<1> QED
  BY <1>1, <1>2, ConcatProperties, LenProperties

\* The same of a sequence by its name.
LEMMA PrefixedIs ==
  ASSUME NEW h \in Bytes, NEW x \in Seq(Bytes), NEW y, y = <<h>> \o x
  PROVE  /\ y \in Seq(Bytes) /\ Len(y) = 1 + Len(x) /\ y[1] = h
         /\ \A i \in 1 .. Len(x) : y[i + 1] = x[i]
<1>1. ASSUME NEW z, z = <<h>> \o x,
             /\ z \in Seq(Bytes) /\ Len(z) = 1 + Len(x) /\ z[1] = h
             /\ \A i \in 1 .. Len(x) : z[i + 1] = x[i]
      PROVE  /\ y \in Seq(Bytes) /\ Len(y) = 1 + Len(x) /\ y[1] = h
             /\ \A i \in 1 .. Len(x) : y[i + 1] = x[i]
  <2>1. y = z
    BY <1>1
  <2> QED
    BY <1>1, <2>1
<1> QED
  BY <1>1, Prefixed, Zenon

\* lpCurrentEncodedSize reads off the length of each encoding of a number.
LEMMA IntEncodingsWellFormed ==
  ASSUME NEW v \in Int, NEW e \in IntEncodings(v)
  PROVE  WellFormed(e)
<1>1. CASE v >= 0 /\ v <= 127
  <2>1. e = <<v>> /\ v \in Bytes
    BY <1>1, BytesAre DEF IntEncodings
  <2>2. e \in Seq(Bytes) /\ Len(e) = 1 /\ e[1] = v
    BY <2>1
  <2> QED
    BY <1>1, <2>2 DEF WellFormed, SizeSays
<1>2. CASE ~(v >= 0 /\ v <= 127) /\ v >= -4096 /\ v <= 4095
  <2>1. PICK u : u = v % 8192
    OBVIOUS
  <2>2. PICK h, l : h = 192 + u \div 256 /\ l = u % 256
    OBVIOUS
  <2>3. e = <<h, l>>
    BY <1>2, <2>1, <2>2 DEF IntEncodings
  <2>4. u \in Nat /\ u < 8192
    BY <2>1
  <2>5. h \in Nat /\ h >= 192 /\ h < 224 /\ l \in Nat /\ l < 256
    BY <2>2, <2>4
  <2>6. h \in Bytes /\ l \in Bytes
    BY <2>5, BytesAre
  <2>7. e \in Seq(Bytes) /\ Len(e) = 2 /\ e[1] = h
    BY <2>3, <2>6
  <2> QED
    BY <2>5, <2>7 DEF WellFormed, SizeSays
<1>3. CASE ~(v >= -4096 /\ v <= 4095) /\ Fits16(v)
  <2>1. PICK x : x = LittleEndian(v % 65536, 2)
    OBVIOUS
  <2>2. PICK h : h = 241
    OBVIOUS
  <2>3. e = <<h>> \o x
    BY <1>3, <2>1, <2>2 DEF IntEncodings
  <2>4. v % 65536 \in Int /\ 2 \in 1 .. 4
    BY SMT
  <2>5. x \in Seq(Bytes) /\ Len(x) = 2
    BY <2>1, <2>4, LittleEndianIs
  <2>6. h \in Bytes
    BY <2>2, BytesAre
  <2>7. e \in Seq(Bytes) /\ Len(e) = 3 /\ e[1] = h
    BY <2>3, <2>5, <2>6, Prefixed
  <2> QED
    BY <2>2, <2>7 DEF WellFormed, SizeSays
<1>4. CASE ~(v >= -4096 /\ v <= 4095) /\ ~Fits16(v)
  <2>1. PICK u \in Int : e = <<243>> \o LittleEndian(u, 3) \o <<1>>
    <3>1. ~(v >= 0 /\ v <= 127)
      BY <1>4
    <3>2. e \in Encodings32(v)
      BY <1>4, <3>1 DEF IntEncodings
    <3> QED
      BY <3>2 DEF Encodings32
  <2>2. PICK x : x = LittleEndian(u, 3)
    OBVIOUS
  <2>3. PICK h, t : h = 243 /\ t = 1
    OBVIOUS
  <2>4. e = (<<h>> \o x) \o <<t>>
    BY <2>1, <2>2, <2>3
  <2>5. x \in Seq(Bytes) /\ Len(x) = 3
    <3>1. 3 \in 1 .. 4
      OBVIOUS
    <3> QED
      BY <2>2, <3>1, LittleEndianIs
  <2>6. h \in Bytes /\ t \in Bytes
    BY <2>3, BytesAre
  <2>7. PICK y : y = <<h>> \o x
    OBVIOUS
  <2>8. y \in Seq(Bytes) /\ Len(y) = 4 /\ y[1] = h
    <3>1. y \in Seq(Bytes) /\ Len(y) = 1 + Len(x) /\ y[1] = h
      BY <2>5, <2>6, <2>7, Prefixed, Zenon
    <3> QED
      BY <2>5, <3>1
  <2>9. e \in Seq(Bytes) /\ Len(e) = 5 /\ e[1] = h
    <3>1. <<t>> \in Seq(Bytes) /\ Len(<<t>>) = 1
      BY <2>6
    <3> QED
      BY <2>4, <2>7, <2>8, <3>1, ConcatProperties
  <2> QED
    BY <2>3, <2>9 DEF WellFormed, SizeSays
<1> QED
  BY <1>1, <1>2, <1>3, <1>4

\* A string encoding is a sequence of bytes.
LEMMA StringEncodingType ==
  ASSUME NEW s \in Seq(Bytes)
  PROVE  StringEncoding(s) \in Seq(Bytes)
<1> DEFINE n == Len(s)
           h == IF n < 64 THEN <<128 + n>>
                ELSE IF n < 4096 THEN <<224 + n \div 256, n % 256>>
                ELSE <<240>> \o LittleEndian(n, 4)
<1>1. n \in Nat
  OBVIOUS
<1> HIDE DEF n
<1>2. ASSUME n < 64 PROVE h \in Seq(Bytes)
  <2>1. PICK a : a = 128 + n
    OBVIOUS
  <2>2. a \in Bytes
    BY <1>1, <1>2, <2>1, BytesAre
  <2>3. h = <<a>>
    BY <1>2, <2>1
  <2> HIDE DEF h
  <2> QED
    BY <2>2, <2>3
<1>3. ASSUME ~(n < 64), n < 4096 PROVE h \in Seq(Bytes)
  <2>1. PICK a, c : a = 224 + n \div 256 /\ c = n % 256
    OBVIOUS
  <2>2. a \in Bytes /\ c \in Bytes
    BY <1>1, <1>3, <2>1, BytesAre
  <2>3. h = <<a, c>>
    BY <1>3, <2>1
  <2> HIDE DEF h
  <2> QED
    BY <2>2, <2>3
<1>4. ASSUME ~(n < 64), ~(n < 4096) PROVE h \in Seq(Bytes)
  <2>1. PICK a, x : a = 240 /\ x = LittleEndian(n, 4)
    OBVIOUS
  <2>2. 4 \in 1 .. 4 /\ a \in Bytes
    BY <2>1, BytesAre
  <2>3. x \in Seq(Bytes)
    BY <1>1, <2>1, <2>2, LittleEndianIs
  <2>4. <<a>> \o x \in Seq(Bytes)
    BY <2>2, <2>3, Prefixed
  <2>5. h = <<a>> \o x
    BY <1>4, <2>1
  <2> HIDE DEF h
  <2> QED
    BY <2>4, <2>5
<1>5. h \in Seq(Bytes)
  <2> HIDE DEF h
  <2> QED
    BY <1>2, <1>3, <1>4
<1>6. StringEncoding(s) = h \o s
  BY DEF StringEncoding, n
<1> QED
  <2> HIDE DEF h
  <2> QED
    BY <1>5, <1>6, ConcatProperties

\* A string whose encoding fits in the block.
LEMMA StringEncodingWellFormed ==
  ASSUME NEW s \in Seq(Bytes), Fits32(Len(StringEncoding(s)))
  PROVE  WellFormed(StringEncoding(s)) /\ Len(StringEncoding(s)) > Len(s)
<1> DEFINE n == Len(s)
           e == StringEncoding(s)
<1>1. n \in Nat
  OBVIOUS
<1>2. CASE n < 64
  <2>1. PICK h : h = 128 + n
    OBVIOUS
  <2>2. e = <<h>> \o s
    BY <1>2, <2>1 DEF StringEncoding
  <2>3. h \in Nat /\ h >= 128 /\ h < 192 /\ h % 64 = n
    BY <1>1, <1>2, <2>1
  <2>4. h \in Bytes
    BY <2>3, BytesAre
  <2> HIDE DEF e
  <2>5. e \in Seq(Bytes) /\ Len(e) = 1 + n /\ e[1] = h
    BY <2>2, <2>4, Prefixed
  <2> HIDE DEF n
  <2> QED
    BY <1>1, <2>3, <2>5 DEF WellFormed, SizeSays, e, n
<1>3. CASE n >= 64 /\ n < 4096
  <2>1. PICK h, l : h = 224 + n \div 256 /\ l = n % 256
    OBVIOUS
  <2>2. e = <<h, l>> \o s
    BY <1>1, <1>3, <2>1 DEF StringEncoding
  <2>3. /\ h \in Nat /\ l \in Nat /\ h >= 224 /\ h < 240 /\ l < 256
        /\ n = (h % 16) * 256 + l
    BY <1>1, <1>3, <2>1
  <2>4. h \in Bytes /\ l \in Bytes
    BY <2>3, BytesAre
  <2> HIDE DEF e
  <2>5. e \in Seq(Bytes) /\ Len(e) = 2 + n /\ e[1] = h /\ e[2] = l
    <3>1. PICK y : y = <<h, l>>
      OBVIOUS
    <3>2. y \in Seq(Bytes) /\ Len(y) = 2 /\ y[1] = h /\ y[2] = l
      BY <3>1, <2>4
    <3> QED
      BY <2>2, <3>1, <3>2, ConcatProperties
  <2> HIDE DEF n
  <2> QED
    BY <1>1, <2>3, <2>5 DEF WellFormed, SizeSays, e, n
<1>4. CASE n >= 4096
  <2>1. PICK x : x = LittleEndian(n, 4)
    OBVIOUS
  <2>2. PICK h : h = 240
    OBVIOUS
  <2>3. e = (<<h>> \o x) \o s
    <3>1. ~(n < 64) /\ ~(n < 4096)
      BY <1>1, <1>4
    <3> QED
      BY <3>1, <2>1, <2>2 DEF StringEncoding
  <2>4. 4 \in 1 .. 4
    OBVIOUS
  <2>5. x \in Seq(Bytes) /\ Len(x) = 4 /\ \A i \in 1 .. 4 : x[i] = ByteOf(n, i)
    <3> HIDE DEF n
    <3> QED
      BY <2>1, <1>1, <2>4, LittleEndianIs
  <2>6. PICK x1, x2, x3, x4 :
          x1 = ByteOf(n, 1) /\ x2 = ByteOf(n, 2) /\ x3 = ByteOf(n, 3) /\ x4 = ByteOf(n, 4)
    OBVIOUS
  <2>7. h \in Bytes
    BY <2>2, BytesAre
  <2>8. PICK y : y = <<h>> \o x
    OBVIOUS
  <2>9. /\ y \in Seq(Bytes) /\ Len(y) = 1 + Len(x) /\ y[1] = h
        /\ \A i \in 1 .. Len(x) : y[i + 1] = x[i]
    <3>1. x \in Seq(Bytes)
      BY <2>5
    <3> QED
      BY <2>7, <2>8, <3>1, Prefixed, ZenonT(30)
  <2>10. y \in Seq(Bytes) /\ Len(y) = 5 /\ y[1] = h /\ \A i \in 1 .. 4 : y[i + 1] = x[i]
    BY <2>5, <2>9
  <2>11. y[2] = x1 /\ y[3] = x2 /\ y[4] = x3 /\ y[5] = x4
    <3> HIDE DEF n
    <3>1. y[1 + 1] = x1 /\ y[2 + 1] = x2 /\ y[3 + 1] = x3 /\ y[4 + 1] = x4
      BY <2>5, <2>6, <2>10
    <3> QED
      BY <3>1
  <2> HIDE DEF e
  <2>12. e = y \o s
    BY <2>3, <2>8
  <2>13. e \in Seq(Bytes) /\ Len(e) = Len(y) + n /\ \A i \in 1 .. Len(y) : e[i] = y[i]
    <3> HIDE DEF n
    <3>1. y \in Seq(Bytes) /\ s \in Seq(Bytes)
      BY <2>10
    <3> QED
      BY <2>12, <3>1, ConcatProperties, LenProperties DEF n
  <2>14. Len(e) = 5 + n /\ \A i \in 1 .. 5 : e[i] = y[i]
    BY <2>10, <2>13
  <2>15. e[1] = h /\ e[2] = x1 /\ e[3] = x2 /\ e[4] = x3 /\ e[5] = x4
    BY <2>10, <2>11, <2>14
  <2> HIDE DEF n
  <2>16. Fits32(n)
    <3>1. Fits32(Len(e))
      BY DEF e
    <3> QED
      BY <1>1, <2>14, <3>1, SMT DEF Fits32
  <2>17. n = Of4(x1, x2, x3, x4)
    BY <2>6, <2>16, FourBytesOf
  <2>18. SizeSays(e)
    <3>1. Len(e) >= 5
      BY <1>1, <2>14
    <3>2. Len(e) = 5 + Of4(e[2], e[3], e[4], e[5])
      BY <2>14, <2>15, <2>17
    <3> QED
      BY <2>2, <2>15, <3>1, <3>2 DEF SizeSays
  <2>19. Len(e) >= 1 /\ Len(e) > n
    BY <1>1, <2>14
  <2> QED
    BY <2>13, <2>18, <2>19 DEF WellFormed, e, n
<1> QED
  BY <1>1, <1>2, <1>3, <1>4

-------------------------------------------------------------------------------
\* Numbers.

\* The limits of the two integer types are numbers.
LEMMA IntMaxIs == IntMax \in Nat /\ UMax \in Nat /\ NotANumber \in Int /\ UMax \div 10 \in Int
<1>1. IntMax \in Nat
  BY ListPackAssumption
<1>2. UMax \in Nat /\ NotANumber \in Int
  BY <1>1 DEF UMax, NotANumber
<1> QED
  BY <1>1, <1>2

\* The loop over the digits, one after the other.
Digests(v, digits) ==
  v = [i \in 0 .. Len(digits) |->
         IF i = 0 THEN 0
         ELSE LET d == digits[i] - 48
              IN  IF v[i - 1] > UMax \div 10 \/ v[i - 1] * 10 > UMax - d
                  THEN NotANumber ELSE v[i - 1] * 10 + d]

\* The loop of lpStringToInt64 over the digits has a value.
LEMMA DigestsExists ==
  ASSUME NEW digits \in Seq(Bytes)
  PROVE  \E v \in [0 .. Len(digits) -> Int] : Digests(v, digits)
<1> DEFINE n == Len(digits)
           P == 0 .. n
           rank == [i \in P |-> i]
           go == [i \in P |-> i # 0]
           next == [i \in P |-> i - 1]
           step == [i \in P |-> [w \in Int |->
                     IF i = 0 THEN 0
                     ELSE IF w > UMax \div 10 \/ w * 10 > UMax - (digits[i] - 48)
                          THEN NotANumber ELSE w * 10 + (digits[i] - 48)]]
           base == [i \in P |-> 0]
<1>1. n \in Nat /\ rank \in [P -> Nat] /\ base \in [P -> Int]
  OBVIOUS
<1>2. \A i \in 1 .. n : digits[i] \in Int
  BY BytesAre, ElementOfSeq
<1>3. step \in [P -> [Int -> Int]]
  BY <1>2, IntMaxIs
<1>4. \A i \in P : go[i] => next[i] \in P /\ rank[next[i]] < rank[i]
  OBVIOUS
<1>5. Solvable(P, Int, go, next, step, base)
  <2> HIDE DEF P, rank, go, next, step, base
  <2> QED
    BY <1>1, <1>3, <1>4, RecursionExists
<1>6. PICK v \in [P -> Int] :
        \A i \in P : v[i] = IF go[i] THEN step[i][v[next[i]]] ELSE base[i]
  BY <1>5 DEF Solvable
<1>7. ASSUME NEW i \in P
      PROVE  v[i] = IF i = 0 THEN 0
                    ELSE LET d == digits[i] - 48
                         IN  IF v[i - 1] > UMax \div 10 \/ v[i - 1] * 10 > UMax - d
                             THEN NotANumber ELSE v[i - 1] * 10 + d
  <2>1. CASE i = 0
    BY <1>6, <2>1
  <2>2. CASE i # 0
    <3>1. v[i - 1] \in Int
      BY <1>1, <2>2
    <3>2. v[i] = step[i][v[i - 1]]
      BY <1>6, <2>2
    <3> QED
      BY <2>2, <3>1, <3>2
  <2> QED
    BY <2>1, <2>2
<1>8. Digests(v, digits)
  <2> HIDE DEF rank, go, next, step, base
  <2> QED
    BY <1>7 DEF Digests
<1> QED
  BY <1>6, <1>8

\* That value is a number.
LEMMA DigestedIs ==
  ASSUME NEW digits \in Seq(Bytes)
  PROVE  \E v \in [0 .. Len(digits) -> Int] :
           Digests(v, digits) /\ Digested(digits) = v[Len(digits)]
<1> DEFINE v == CHOOSE v : Digests(v, digits)
<1>1. Digests(v, digits)
  <2>1. \E w : Digests(w, digits)
    BY DigestsExists
  <2> QED
    BY <2>1
<1>2. Digested(digits) = v[Len(digits)]
  BY DEF Digested, Digests
<1>3. v \in [0 .. Len(digits) -> Int]
  <2> DEFINE n == Len(digits)
             S == {i \in Nat : i <= n => v[i] \in Int}
  <2> HIDE DEF v
  <2>1. /\ n \in Nat /\ DOMAIN v = 0 .. n /\ v = [i \in DOMAIN v |-> v[i]]
        /\ \A i \in 0 .. n : v[i] = IF i = 0 THEN 0
                ELSE LET d == digits[i] - 48
                     IN  IF v[i - 1] > UMax \div 10 \/ v[i - 1] * 10 > UMax - d
                         THEN NotANumber ELSE v[i - 1] * 10 + d
    BY <1>1, SMTT(30) DEF Digests
  <2>2. 0 \in S
    BY <2>1
  <2>3. ASSUME NEW i \in Nat, i \in S PROVE i + 1 \in S
    <3> SUFFICES ASSUME i + 1 <= n PROVE v[i + 1] \in Int
      OBVIOUS
    <3>1. digits[i + 1] \in Int
      BY BytesAre, ElementOfSeq, <2>1
    <3>2. v[i] \in Int /\ i + 1 \in 0 .. n /\ i + 1 # 0 /\ i + 1 - 1 = i
      BY <2>1, <2>3
    <3>3. PICK d, q : d = digits[i + 1] - 48 /\ q = UMax \div 10
      OBVIOUS
    <3>4. v[i + 1] = IF v[i] > q \/ v[i] * 10 > UMax - d THEN NotANumber ELSE v[i] * 10 + d
      BY <2>1, <3>2, <3>3
    <3> QED
      BY <3>1, <3>2, <3>3, <3>4, IntMaxIs
  <2> HIDE DEF S
  <2>4. Nat \subseteq S
    BY <2>2, <2>3, SetInduction
  <2>5. \A i \in 0 .. n : v[i] \in Int
    BY <2>1, <2>4 DEF S
  <2> QED
    BY <2>1, <2>5
<1> QED
  <2> HIDE DEF v
  <2> QED
    BY <1>1, <1>2, <1>3

\* lpStringToInt64 gives a number.
LEMMA NumberInType ==
  ASSUME NEW s \in Seq(Bytes)
  PROVE  NumberIn(s) \in Int
<1>1. Magnitude(s) \in Seq(Bytes)
  BY DEF Magnitude
<1>2. Digested(Magnitude(s)) \in Int
  <2>1. PICK digits : digits = Magnitude(s)
    OBVIOUS
  <2>2. Len(digits) \in 0 .. Len(digits)
    BY <1>1, <2>1
  <2>3. Digested(digits) \in Int
    BY <1>1, <2>1, <2>2, DigestedIs
  <2> QED
    BY <2>1, <2>3
<1>3. \A v \in Int : InRange(s, v) \in Int
  BY IntMaxIs DEF InRange
<1> QED
  BY <1>2, <1>3, IntMaxIs DEF NumberIn

\* Text t may be stored as e.
Stores(t, e) == [text |-> t, enc |-> e] \in Elements

\* Strings are sequences of bytes.
LEMMA StringsAre == ASSUME NEW s \in Strings PROVE s \in Seq(Bytes)
BY ListPackAssumption DEF Bytes

\* An element is a string or a number, with one of its encodings.
LEMMA ElementsAre ==
  ASSUME NEW x \in Elements
  PROVE  \/ \E s \in Strings : x = [text |-> s, enc |-> x.enc] /\ x.enc \in Encodings(s)
         \/ \E v \in Numbers : x = [text |-> Decimal(v), enc |-> x.enc]
                               /\ x.enc \in IntEncodings(v)
<1>1. CASE x \in UNION {{[text |-> s, enc |-> e] : e \in Encodings(s)} : s \in Strings}
  <2>1. PICK s \in Strings : x \in {[text |-> s, enc |-> e] : e \in Encodings(s)}
    BY <1>1
  <2>2. PICK e \in Encodings(s) : x = [text |-> s, enc |-> e]
    BY <2>1
  <2>3. x.enc = e
    BY <2>2
  <2> QED
    BY <2>2, <2>3
<1>2. CASE x \in UNION {{[text |-> Decimal(v), enc |-> e] : e \in IntEncodings(v)} : v \in Numbers}
  <2>1. PICK v \in Numbers : x \in {[text |-> Decimal(v), enc |-> e] : e \in IntEncodings(v)}
    BY <1>2
  <2>2. PICK e \in IntEncodings(v) : x = [text |-> Decimal(v), enc |-> e]
    BY <2>1
  <2>3. x.enc = e
    BY <2>2
  <2> QED
    BY <2>2, <2>3
<1> QED
  BY <1>1, <1>2 DEF Elements

\* What is stored says how long it is, if it fits in the block.
LEMMA ElementsWellFormed ==
  ASSUME NEW x \in Elements
  PROVE  /\ Stores(x.text, x.enc)
         /\ x.enc \in Seq(Bytes)
         /\ Fits32(Len(x.enc)) => WellFormed(x.enc)
<1>1. CASE \E s \in Strings : x = [text |-> s, enc |-> x.enc] /\ x.enc \in Encodings(s)
  <2>1. PICK s \in Strings : x = [text |-> s, enc |-> x.enc] /\ x.enc \in Encodings(s)
    BY <1>1
  <2>2. s \in Seq(Bytes)
    BY StringsAre
  <2>3. Stores(x.text, x.enc)
    BY <2>1 DEF Stores
  <2>4. CASE NumberIn(s) # NotANumber
    <3>1. WellFormed(x.enc)
      BY <2>1, <2>2, <2>4, NumberInType, IntEncodingsWellFormed DEF Encodings
    <3> QED
      BY <2>3, <3>1 DEF WellFormed
  <2>5. CASE NumberIn(s) = NotANumber
    <3>1. x.enc = StringEncoding(s)
      BY <2>1, <2>5 DEF Encodings
    <3>2. Fits32(Len(x.enc)) => WellFormed(x.enc)
      BY <2>2, <3>1, StringEncodingWellFormed
    <3>3. x.enc \in Seq(Bytes)
      BY <2>2, <3>1, StringEncodingType
    <3> QED
      BY <2>3, <3>2, <3>3
  <2> QED
    BY <2>4, <2>5
<1>2. CASE \E v \in Numbers : x = [text |-> Decimal(v), enc |-> x.enc] /\ x.enc \in IntEncodings(v)
  <2>1. PICK v \in Numbers : x = [text |-> Decimal(v), enc |-> x.enc] /\ x.enc \in IntEncodings(v)
    BY <1>2
  <2>2. v \in Int
    BY ListPackAssumption
  <2>3. WellFormed(x.enc)
    BY <2>1, <2>2, IntEncodingsWellFormed
  <2>4. Stores(x.text, x.enc)
    BY <2>1 DEF Stores
  <2> QED
    BY <2>3, <2>4 DEF WellFormed
<1> QED
  BY <1>1, <1>2, ElementsAre

-------------------------------------------------------------------------------
\* Reading an entry.

\* The bytes e stand at o.
StandsAt(e, o) == \A i \in 1 .. Len(e) : Byte(o + i - 1) = e[i]

\* lpCurrentEncodedSize at an offset where the bytes of an encoding begin.
LEMMA EncodedSizeReads ==
  ASSUME lp \in Seq(Bytes), NEW o \in Int, NEW e, WellFormed(e), StandsAt(e, o)
  PROVE  EncodedSize(o) = Len(e) /\ Byte(o) # LP_EOF
<1>1. Byte(o) = e[1]
  <2>1. 1 \in 1 .. Len(e) /\ o + 1 - 1 = o
    BY DEF WellFormed
  <2> QED
    BY <2>1 DEF StandsAt
<1>2. Len(e) >= 2 => Byte(o + 1) = e[2]
  <2>1. Len(e) >= 2 => 2 \in 1 .. Len(e) /\ o + 2 - 1 = o + 1
    BY DEF WellFormed
  <2> QED
    BY <2>1 DEF StandsAt
<1>3. Len(e) >= 5 => Word(o + 1, 4) = Of4(e[2], e[3], e[4], e[5])
  <2> SUFFICES ASSUME Len(e) >= 5 PROVE Word(o + 1, 4) = Of4(e[2], e[3], e[4], e[5])
    OBVIOUS
  <2>1. /\ 3 \in 1 .. Len(e) /\ o + 3 - 1 = o + 1 + 1
        /\ 4 \in 1 .. Len(e) /\ o + 4 - 1 = o + 1 + 2
        /\ 5 \in 1 .. Len(e) /\ o + 5 - 1 = o + 1 + 3
        /\ o + 1 + 0 = o + 1
    BY DEF WellFormed
  <2>2. /\ Byte(o + 1 + 0) = e[2] /\ Byte(o + 1 + 1) = e[3]
        /\ Byte(o + 1 + 2) = e[4] /\ Byte(o + 1 + 3) = e[5]
    BY <1>2, <2>1 DEF StandsAt
  <2> QED
    BY <2>2 DEF Word, Of4
<1>4. PICK b : b = Byte(o) /\ b = e[1]
  BY <1>1
<1>5. b \in Nat /\ b < 256
  BY <1>4, ByteType, BytesAre
<1> QED
  BY <1>2, <1>3, <1>4, <1>5, SMTT(30) DEF WellFormed, SizeSays, EncodedSize, LP_EOF

-------------------------------------------------------------------------------
\* The layout of the block.

\* What is below an uint32_t is one, and its length takes five bytes at most.
LEMMA Fits32Below ==
  ASSUME NEW m, Fits32(m), NEW l \in Nat, l <= m
  PROVE  Fits32(l) /\ Fits35(l)
<1>1. l \div 65536 <= m \div 65536
  BY SMT DEF Fits32
<1>2. Fits32(l)
  BY <1>1, SMT DEF Fits32
<1>3. Fits35(l)
  BY <1>2, SMT DEF Fits32, Fits35
<1> QED
  BY <1>2, <1>3

\* The limits of the block and of its count are numbers.
LEMMA LimitsAre ==
  /\ MaxBytes \in Nat /\ MaxBytes >= 7
  /\ NumEleUnknown \in Nat /\ NumEleUnknown > 0
BY ListPackAssumption

\* The limit of the block fits into the field of its size.
LEMMA MaxBytesFits == Fits32(MaxBytes)
BY ListPackAssumption DEF Fits32

\* An encoding and the length behind it.
Entry(e) == e \o EncodeBacklen(Len(e))

\* The block b holds the bytes x from offset o on.
Holds(b, o, x) == \A j \in 1 .. Len(x) : b[o + j] = x[j]

\* n entries, the i-th with the encoding enc[i] at off[i]; off[n + 1] is their end.
Chained(n, off, enc) ==
  /\ n \in Nat
  /\ off \in [1 .. n + 1 -> Nat] /\ off[1] = LP_HDR_SIZE
  /\ enc \in [1 .. n -> Seq(Bytes)]
  /\ \A i \in 1 .. n : WellFormed(enc[i]) /\ off[i + 1] = off[i] + Len(Entry(enc[i]))

\* They are what the block holds, with LP_EOF behind them.
Filled(b, n, off, enc) ==
  /\ \A i \in 1 .. n : Holds(b, off[i], Entry(enc[i]))
  /\ Len(b) = off[n + 1] + 1 /\ b[off[n + 1] + 1] = LP_EOF

\* The header says so.
Headed(b, num) ==
  /\ b \in Seq(Bytes) /\ Len(b) >= LP_HDR_SIZE + 1 /\ Len(b) <= MaxBytes
  /\ Of4(b[1], b[2], b[3], b[4]) = Len(b)
  /\ Of4(b[5], b[6], 0, 0) = num

\* The block b holds n entries: what the calls keep.
Layout(b, n, off, enc, num) == Chained(n, off, enc) /\ Filled(b, n, off, enc) /\ Headed(b, num)

\* An entry begins with its encoding and ends with the length of it.
LEMMA EntryIs ==
  ASSUME NEW e, WellFormed(e)
  PROVE  /\ Entry(e) \in Seq(Bytes) /\ Len(Entry(e)) = Len(e) + BacklenSize(Len(e))
         /\ Len(Entry(e)) > Len(e) /\ Len(e) \in Nat /\ Len(e) >= 1
         /\ \A j \in 1 .. Len(e) : Entry(e)[j] = e[j]
         /\ \A j \in 1 .. BacklenSize(Len(e)) : Entry(e)[Len(e) + j] = EncodeBacklen(Len(e))[j]
<1>1. e \in Seq(Bytes) /\ Len(e) \in Nat /\ Len(e) >= 1
  BY DEF WellFormed
<1>2. PICK x : x = EncodeBacklen(Len(e))
  OBVIOUS
<1>3. x \in Seq(Bytes) /\ Len(x) = BacklenSize(Len(e)) /\ BacklenSize(Len(e)) \in 1 .. 5
  <2>1. EncodeBacklen(Len(e)) \in Seq(Bytes) /\ BacklenSize(Len(e)) \in 1 .. 5
    BY <1>1, BacklenBytes, SMT
  <2> QED
    BY <1>2, <2>1 DEF BacklenSize
<1>4. Entry(e) = e \o x
  BY <1>2 DEF Entry
<1> QED
  BY <1>1, <1>2, <1>3, <1>4, ConcatProperties

\* Entries follow one another behind the header.
LEMMA OffsetsGrow ==
  ASSUME NEW n, NEW off, NEW enc, Chained(n, off, enc)
  PROVE  /\ \A i \in 1 .. n + 1 : \A j \in 1 .. n + 1 : i < j => off[i] < off[j]
         /\ \A i \in 1 .. n + 1 : off[i] \in Nat /\ off[i] >= LP_HDR_SIZE
<1>1. n \in Nat /\ off \in [1 .. n + 1 -> Nat] /\ off[1] = LP_HDR_SIZE
  BY DEF Chained
<1>2. \A i \in 1 .. n : off[i] < off[i + 1]
  <2>1. ASSUME NEW i \in 1 .. n PROVE off[i] < off[i + 1]
    <3>1. off[i + 1] = off[i] + Len(Entry(enc[i])) /\ WellFormed(enc[i])
      BY DEF Chained
    <3>2. Len(Entry(enc[i])) \in Nat /\ Len(Entry(enc[i])) > 0
      BY <3>1, EntryIs
    <3> QED
      BY <1>1, <3>1, <3>2
  <2> QED
    BY <2>1
<1>3. ASSUME NEW i \in 1 .. n + 1
      PROVE  \A j \in 1 .. n + 1 : i < j => off[i] < off[j]
  <2> DEFINE S == {d \in Nat : i + d + 1 <= n + 1 => off[i] < off[i + d + 1]}
  <2>1. 0 \in S
    BY <1>1, <1>2
  <2>2. ASSUME NEW d \in Nat, d \in S PROVE d + 1 \in S
    <3> SUFFICES ASSUME i + (d + 1) + 1 <= n + 1 PROVE off[i] < off[i + (d + 1) + 1]
      OBVIOUS
    <3>1. off[i] < off[i + d + 1] /\ i + d + 1 \in 1 .. n /\ (i + d + 1) + 1 = i + (d + 1) + 1
      BY <1>1, <2>2
    <3>2. off[i + d + 1] < off[i + (d + 1) + 1]
      BY <1>2, <3>1
    <3>3. off[i] \in Nat /\ off[i + d + 1] \in Nat /\ off[i + (d + 1) + 1] \in Nat
      BY <1>1, <3>1
    <3> QED
      BY <3>1, <3>2, <3>3
  <2> HIDE DEF S
  <2>3. Nat \subseteq S
    BY <2>1, <2>2, SetInduction
  <2>4. ASSUME NEW j \in 1 .. n + 1, i < j PROVE off[i] < off[j]
    <3>1. j - i - 1 \in S /\ i + (j - i - 1) + 1 = j
      BY <1>1, <2>3, <2>4
    <3> QED
      BY <1>1, <3>1 DEF S
  <2> QED
    BY <2>4
<1>4. ASSUME NEW i \in 1 .. n + 1 PROVE off[i] \in Nat /\ off[i] >= LP_HDR_SIZE
  <2>1. i = 1 \/ off[1] < off[i]
    BY <1>1, <1>3
  <2> QED
    BY <1>1, <2>1 DEF LP_HDR_SIZE
<1> QED
  BY <1>3, <1>4

\* Where things are in the block.
LEMMA Bounds ==
  ASSUME NEW b, NEW n, NEW off, NEW enc, NEW num, Layout(b, n, off, enc, num)
  PROVE  /\ n \in Nat /\ b \in Seq(Bytes) /\ Len(b) \in Nat /\ Fits32(Len(b))
         /\ Len(b) = off[n + 1] + 1
         /\ \A i \in 1 .. n + 1 : off[i] \in Nat /\ off[i] >= LP_HDR_SIZE /\ off[i] < Len(b)
         /\ \A i \in 1 .. n : /\ WellFormed(enc[i]) /\ Len(enc[i]) \in Nat
                              /\ Len(enc[i]) <= Len(b)
<1>1. n \in Nat /\ b \in Seq(Bytes) /\ Len(b) \in Nat /\ Len(b) <= MaxBytes
  BY DEF Layout, Chained, Headed
<1>2. Fits32(Len(b))
  BY <1>1, MaxBytesFits, Fits32Below
<1>3. Len(b) = off[n + 1] + 1
  BY DEF Layout, Filled
<1>4. /\ \A i \in 1 .. n + 1 : \A j \in 1 .. n + 1 : i < j => off[i] < off[j]
      /\ \A i \in 1 .. n + 1 : off[i] \in Nat /\ off[i] >= LP_HDR_SIZE
  BY OffsetsGrow DEF Layout
<1>5. ASSUME NEW i \in 1 .. n + 1 PROVE off[i] < Len(b)
  <2>1. i = n + 1 \/ off[i] < off[n + 1]
    BY <1>1, <1>4
  <2> QED
    BY <1>1, <1>3, <1>4, <2>1
<1>6. ASSUME NEW i \in 1 .. n
      PROVE  WellFormed(enc[i]) /\ Len(enc[i]) \in Nat /\ Len(enc[i]) <= Len(b)
  <2>1. WellFormed(enc[i]) /\ off[i + 1] = off[i] + Len(Entry(enc[i]))
    BY DEF Layout, Chained
  <2>2. Len(Entry(enc[i])) \in Nat /\ Len(enc[i]) \in Nat /\ Len(Entry(enc[i])) > Len(enc[i])
    BY <2>1, EntryIs
  <2>3. off[i] \in Nat /\ off[i + 1] < Len(b)
    BY <1>1, <1>4, <1>5
  <2> QED
    BY <1>1, <2>1, <2>2, <2>3
<1> QED
  BY <1>1, <1>2, <1>3, <1>4, <1>5, <1>6

\* lpGetTotalBytes and lpGetNumElements read what the header was given.
LEMMA HeaderReads ==
  ASSUME NEW n, NEW off, NEW enc, NEW num, Layout(lp, n, off, enc, num)
  PROVE  TotalBytes = Len(lp) /\ NumElements = num
<1>1. lp \in Seq(Bytes) /\ Len(lp) >= 7
  BY DEF Layout, Headed, LP_HDR_SIZE
<1>2. DOMAIN lp = 1 .. Len(lp)
  BY <1>1, LenProperties
<1>3. /\ Byte(0) = lp[1] /\ Byte(1) = lp[2] /\ Byte(2) = lp[3] /\ Byte(3) = lp[4]
      /\ Byte(4) = lp[5] /\ Byte(5) = lp[6]
  BY <1>1, <1>2 DEF Byte
<1>4. Word(0, 4) = Of4(lp[1], lp[2], lp[3], lp[4])
  BY <1>3 DEF Word, Of4
<1>5. Word(4, 2) = Of4(lp[5], lp[6], 0, 0)
  BY <1>3 DEF Word, Of4
<1> QED
  BY <1>4, <1>5 DEF TotalBytes, NumElements, Layout, Headed

-------------------------------------------------------------------------------
\* Walking over it.

\* lpSkip goes from an entry to the next one.
LEMMA EntryReads ==
  ASSUME NEW n, NEW off, NEW enc, NEW num, Layout(lp, n, off, enc, num), NEW i \in 1 .. n
  PROVE  /\ EncodedSize(off[i]) = Len(enc[i]) /\ Byte(off[i]) # LP_EOF
         /\ EntrySize(off[i]) = off[i + 1] - off[i] /\ Skip(off[i]) = off[i + 1]
         /\ \A j \in 1 .. Len(Entry(enc[i])) : Byte(off[i] + j - 1) = Entry(enc[i])[j]
<1>1. PICK e, o, w : e = enc[i] /\ o = off[i] /\ w = Len(Entry(e))
  OBVIOUS
<1>2. /\ lp \in Seq(Bytes) /\ n \in Nat /\ o \in Nat /\ WellFormed(e)
      /\ off[i + 1] \in Nat /\ off[i + 1] < Len(lp) /\ Len(lp) \in Nat
  BY <1>1, Bounds
<1>3. /\ w \in Nat /\ w = Len(e) + BacklenSize(Len(e)) /\ Len(e) \in Nat /\ w > Len(e)
      /\ \A j \in 1 .. Len(e) : Entry(e)[j] = e[j]
  BY <1>1, <1>2, EntryIs
<1>4. off[i + 1] = o + w
  BY <1>1 DEF Layout, Chained
<1>5. \A j \in 1 .. w : lp[o + j] = Entry(e)[j]
  BY <1>1 DEF Layout, Filled, Holds
<1>6. ASSUME NEW j \in 1 .. w PROVE Byte(o + j - 1) = Entry(e)[j]
  <2>1. o + j - 1 + 1 = o + j /\ o + j \in 1 .. Len(lp)
    BY <1>2, <1>3, <1>4
  <2>2. DOMAIN lp = 1 .. Len(lp)
    BY <1>2, LenProperties
  <2> QED
    BY <1>5, <2>1, <2>2 DEF Byte
<1>7. StandsAt(e, o)
  BY <1>3, <1>6 DEF StandsAt
<1>8. EncodedSize(o) = Len(e) /\ Byte(o) # LP_EOF
  BY <1>2, <1>7, EncodedSizeReads
<1>9. EntrySize(o) = w /\ Skip(o) = o + w
  BY <1>3, <1>8 DEF EntrySize, Skip
<1> QED
  BY <1>1, <1>2, <1>3, <1>4, <1>6, <1>8, <1>9

\* Behind the last entry lies LP_EOF.
LEMMA EndReads ==
  ASSUME NEW n, NEW off, NEW enc, NEW num, Layout(lp, n, off, enc, num)
  PROVE  Byte(off[n + 1]) = LP_EOF
<1>1. lp[off[n + 1] + 1] = LP_EOF
  BY DEF Layout, Filled
<1> QED
  BY <1>1 DEF Byte

\* What lpDecodeBacklen finds to the left of an entry.
LEMMA BacklenReads ==
  ASSUME NEW n, NEW off, NEW enc, NEW num, Layout(lp, n, off, enc, num), NEW i \in 1 .. n
  PROVE  DecodeBacklen(off[i + 1] - 1) = Len(enc[i])
<1>1. PICK e, l, o, k : e = enc[i] /\ l = Len(e) /\ o = off[i + 1] - 1 /\ k = BacklenSize(l)
  OBVIOUS
<1>2. /\ lp \in Seq(Bytes) /\ n \in Nat /\ off[i] \in Nat /\ WellFormed(e) /\ l \in Nat
      /\ off[i + 1] \in Nat /\ Len(lp) \in Nat /\ l <= Len(lp) /\ Fits32(Len(lp))
  BY <1>1, Bounds
<1>3. Fits35(l)
  BY <1>2, Fits32Below
<1>4. k \in Nat
  BY <1>1, <1>2, BacklenType
<1>5. /\ Len(Entry(e)) = l + k
      /\ \A j \in 1 .. k : Entry(e)[l + j] = EncodeBacklen(l)[j]
  BY <1>1, <1>2, EntryIs
<1>6. off[i + 1] = off[i] + l + k
  <2>1. off[i + 1] = off[i] + Len(Entry(enc[i]))
    BY DEF Layout, Chained
  <2>2. Len(Entry(enc[i])) = l + k
    BY <1>1, <1>5
  <2>3. off[i + 1] = off[i] + (l + k)
    BY <2>1, <2>2
  <2> QED
    BY <1>2, <1>4, <2>3
<1>7. ASSUME NEW j \in 1 .. k PROVE Byte(o - k + j) = EncodeBacklen(l)[j]
  <2>1. o - k + j = off[i] + (l + j) - 1 /\ l + j \in 1 .. l + k
    <3>1. o = off[i] + l + k - 1
      BY <1>1, <1>2, <1>4, <1>6, SMTT(30)
    <3> QED
      BY <1>2, <1>4, <3>1, SMTT(30)
  <2>2. Byte(off[i] + (l + j) - 1) = Entry(e)[l + j]
    BY <1>1, <1>5, <2>1, EntryReads
  <2> QED
    BY <1>5, <2>1, <2>2
<1>8. DecodeBacklen(o) = l
  BY <1>1, <1>2, <1>3, <1>7, DecodeReads, SMTT(30)
<1> QED
  BY <1>1, <1>8

\* lpFirst, lpLast, lpNext and lpPrev find the entries, and null at either end.
LEMMA StepsRead ==
  ASSUME NEW n, NEW off, NEW enc, NEW num, Layout(lp, n, off, enc, num)
  PROVE  /\ LpFirst = (IF n = 0 THEN NULL ELSE off[1])
         /\ LpLast = (IF n = 0 THEN NULL ELSE off[n])
         /\ \A i \in 1 .. n : /\ LpNext(off[i]) = (IF i = n THEN NULL ELSE off[i + 1])
                              /\ LpPrev(off[i]) = (IF i = 1 THEN NULL ELSE off[i - 1])
<1>1. /\ n \in Nat /\ off[1] = LP_HDR_SIZE /\ Len(lp) = off[n + 1] + 1
      /\ \A i \in 1 .. n + 1 : off[i] \in Nat
  BY Bounds DEF Layout, Chained
<1>2. \A i \in 1 .. n : Byte(off[i]) # LP_EOF /\ Skip(off[i]) = off[i + 1]
  BY EntryReads
<1>3. Byte(off[n + 1]) = LP_EOF
  BY EndReads
<1>4. ASSUME NEW i \in 1 .. n + 1 PROVE OrNull(off[i]) = IF i = n + 1 THEN NULL ELSE off[i]
  <2>1. i # n + 1 => i \in 1 .. n
    BY <1>1
  <2> QED
    BY <1>2, <1>3, <2>1 DEF OrNull
<1>5. LpFirst = (IF n = 0 THEN NULL ELSE off[1])
  <2>1. 1 \in 1 .. n + 1 /\ (1 = n + 1 <=> n = 0)
    BY <1>1
  <2> QED
    BY <1>1, <1>4, <2>1 DEF LpFirst
<1>6. ASSUME NEW i \in 1 .. n
      PROVE  LpNext(off[i]) = (IF i = n THEN NULL ELSE off[i + 1])
  <2>1. i + 1 \in 1 .. n + 1 /\ (i + 1 = n + 1 <=> i = n)
    BY <1>1
  <2>2. LpNext(off[i]) = OrNull(off[i + 1])
    BY <1>2 DEF LpNext
  <2> QED
    BY <1>4, <2>1, <2>2
<1>7. ASSUME NEW i \in 1 .. n + 1
      PROVE  LpPrev(off[i]) = (IF i = 1 THEN NULL ELSE off[i - 1])
  <2>1. CASE i = 1
    BY <1>1, <2>1 DEF LpPrev
  <2>2. CASE i # 1
    <3>1. PICK h : h = i - 1
      OBVIOUS
    <3>2. h \in 1 .. n /\ i = h + 1
      BY <1>1, <2>2, <3>1
    <3>3. DecodeBacklen(off[i] - 1) = Len(enc[h])
      BY <3>2, BacklenReads
    <3>4. off[i] # LP_HDR_SIZE
      <4>1. 1 \in 1 .. n + 1 /\ 1 < i
        BY <1>1, <2>2
      <4>2. off[1] < off[i]
        BY <4>1, OffsetsGrow DEF Layout
      <4> QED
        BY <1>1, <4>1, <4>2
    <3>5. /\ off[i] = off[h] + Len(Entry(enc[h]))
          /\ Len(Entry(enc[h])) = Len(enc[h]) + BacklenSize(Len(enc[h]))
          /\ Len(Entry(enc[h])) \in Nat
      BY <3>2, EntryIs DEF Layout, Chained
    <3>6. off[h] \in Nat /\ off[i] \in Nat
      BY <1>1, <3>2
    <3>7. LpPrev(off[i]) = off[i] - Len(Entry(enc[h]))
      BY <3>3, <3>4, <3>5 DEF LpPrev
    <3>8. LpPrev(off[i]) = off[h]
      BY <3>5, <3>6, <3>7
    <3> QED
      BY <2>2, <3>1, <3>8
  <2> QED
    BY <2>1, <2>2
<1>8. LpLast = (IF n = 0 THEN NULL ELSE off[n])
  <2>1. PICK m : m = n + 1
    OBVIOUS
  <2>2. m \in 1 .. n + 1 /\ m - 1 = n /\ (m = 1 <=> n = 0) /\ off[m] \in Nat
    BY <1>1, <2>1
  <2>3. TotalBytes - 1 = off[m]
    <3>1. TotalBytes = off[m] + 1
      BY <1>1, <2>1, HeaderReads
    <3> QED
      BY <2>2, <3>1
  <2>4. LpPrev(off[m]) = IF m = 1 THEN NULL ELSE off[m - 1]
    BY <1>7, <2>2
  <2> QED
    BY <2>2, <2>3, <2>4 DEF LpLast
<1>9. \A i \in 1 .. n : i \in 1 .. n + 1
  BY <1>1
<1> QED
  BY <1>5, <1>6, <1>7, <1>8, <1>9

\* A read of several bytes is a number.
LEMMA WordType ==
  ASSUME lp \in Seq(Bytes), NEW o \in Int, NEW k \in Int
  PROVE  Word(o, k) \in Nat
<1> DEFINE at(i) == IF i < k THEN Byte(o + i) ELSE 0
<1>1. \A i \in 0 .. 3 : at(i) \in Nat
  <2>1. \A i \in 0 .. 3 : Byte(o + i) \in Nat
    BY ByteType, BytesAre
  <2> QED
    BY <2>1
<1>2. Word(o, k) = at(0) + 256 * at(1) + 65536 * at(2) + 16777216 * at(3)
  BY DEF Word
<1> HIDE DEF at
<1>3. PICK a \in Nat, b \in Nat, c \in Nat, d \in Nat :
        a = at(0) /\ b = at(1) /\ c = at(2) /\ d = at(3)
  BY <1>1
<1>4. Word(o, k) = a + 256 * b + 65536 * c + 16777216 * d
  BY <1>2, <1>3
<1> QED
  BY <1>4, SMT

\* lpCurrentEncodedSize is a number at any offset.
LEMMA EncodedSizeType ==
  ASSUME lp \in Seq(Bytes), NEW o \in Int
  PROVE  EncodedSize(o) \in Nat
<1>1. PICK b, c, w : b = Byte(o) /\ c = Byte(o + 1) /\ w = Word(o + 1, 4)
  OBVIOUS
<1>2. b \in Nat /\ c \in Nat /\ w \in Nat /\ b < 256
  BY <1>1, ByteType, BytesAre, WordType
<1> QED
  <2>1. b < 192 => EncodedSize(o) \in Nat
    BY <1>1, <1>2, SMTT(30) DEF EncodedSize, LP_EOF
  <2>2. b >= 192 /\ b < 240 => EncodedSize(o) \in Nat
    <3>1. b >= 192 /\ b < 224 => EncodedSize(o) \in Nat
      BY <1>1, <1>2 DEF EncodedSize, LP_EOF
    <3>2. b >= 224 /\ b < 240 => EncodedSize(o) = 2 + ((b % 16) * 256) + c
      BY <1>1, <1>2, SMTT(30) DEF EncodedSize, LP_EOF
    <3>3. 2 + ((b % 16) * 256) + c \in Nat
      BY <1>2
    <3> QED
      BY <1>2, <3>1, <3>2, <3>3
  <2>3. b = 240 => EncodedSize(o) \in Nat
    BY <1>1, <1>2 DEF EncodedSize, LP_EOF
  <2>4. b > 240 => EncodedSize(o) \in Nat
    BY <1>1, <1>2 DEF EncodedSize, LP_EOF
  <2> QED
    BY <1>2, <2>1, <2>2, <2>3, <2>4

\* lpNext goes to the right and stays in the block.
LEMMA LpNextGoes ==
  ASSUME lp \in Seq(Bytes), NEW o \in Int
  PROVE  \/ LpNext(o) = NULL
         \/ LpNext(o) \in Int /\ LpNext(o) > o /\ LpNext(o) >= 0 /\ LpNext(o) < Len(lp)
<1>1. PICK l, s : l = EncodedSize(o) /\ s = Skip(o)
  OBVIOUS
<1>2. l \in Nat /\ BacklenSize(l) \in Nat /\ BacklenSize(l) >= 1
  BY <1>1, EncodedSizeType, BacklenType
<1>3. s \in Int /\ s > o
  BY <1>1, <1>2 DEF Skip, EntrySize
<1>4. Byte(s) # LP_EOF => s >= 0 /\ s < Len(lp)
  <2>1. DOMAIN lp = 1 .. Len(lp) /\ Len(lp) \in Nat
    BY LenProperties
  <2> QED
    BY <1>3, <2>1 DEF Byte
<1> QED
  BY <1>1, <1>3, <1>4 DEF LpNext, OrNull

\* lpDecodeBacklen gives no less than nothing.
LEMMA DecodeType ==
  ASSUME lp \in Seq(Bytes), NEW o \in Int
  PROVE  DecodeBacklen(o) \in Nat
<1> DEFINE b == [i \in 0 .. 4 |-> Byte(o - i)]
<1>1. b \in [0 .. 4 -> Bytes]
  BY ByteType
<1>2. PICK val : Decodes(val, b) /\ DecodeBacklen(o) = val[0]
  BY DecodeBacklenIs
<1>3. PICK b0 \in Nat, b1 \in Nat, b2 \in Nat, b3 \in Nat, b4 \in Nat :
         b0 = b[0] /\ b1 = b[1] /\ b2 = b[2] /\ b3 = b[3] /\ b4 = b[4]
  BY <1>1, BytesAre
<1> HIDE DEF b
<1>4. /\ val[4] = b4 % 128
      /\ val[3] = Digit(b3, val[4]) /\ val[2] = Digit(b2, val[3])
      /\ val[1] = Digit(b1, val[2]) /\ val[0] = Digit(b0, val[1])
  BY <1>1, <1>2, <1>3, DecodesIs, SMTT(30) DEF Digit
<1>5. \A x \in Nat : \A v \in Nat : Digit(x, v) \in Nat
  BY DEF Digit
<1>6. val[4] \in Nat
  BY <1>4
<1>7. val[3] \in Nat
  BY <1>4, <1>5, <1>6
<1>8. val[2] \in Nat
  BY <1>4, <1>5, <1>7
<1>9. val[1] \in Nat
  BY <1>4, <1>5, <1>8
<1> QED
  BY <1>2, <1>4, <1>5, <1>9

\* lpPrev goes to the left, at any offset behind the header.
LEMMA LpPrevGoes ==
  ASSUME lp \in Seq(Bytes), NEW o \in Int, o >= LP_HDR_SIZE
  PROVE  LpPrev(o) \in Int /\ LpPrev(o) < o
<1>1. PICK l : l = DecodeBacklen(o - 1)
  OBVIOUS
<1>2. l \in Nat /\ BacklenSize(l) \in Nat /\ BacklenSize(l) >= 1
  BY <1>1, DecodeType, BacklenType
<1> QED
  BY <1>1, <1>2 DEF LpPrev, LP_HDR_SIZE, NULL

\* The recursion of Forwards and of Backwards.
GoesForwards(w) == w = [o \in Int |-> IF o = NULL THEN <<>> ELSE <<o>> \o w[LpNext(o)]]

\* The walk with lpPrev, as Backwards defines it.
GoesBackwards(w) ==
  w = [o \in Int |-> IF o < LP_HDR_SIZE THEN <<>> ELSE Append(w[LpPrev(o)], o)]

\* The walk with lpNext ends on any block, so Forwards has a value.
LEMMA ForwardsGoes ==
  ASSUME lp \in Seq(Bytes)
  PROVE  \E w : GoesForwards(w) /\ Forwards = w[LpFirst]
<1> DEFINE rank == [o \in Int |-> IF o = NULL THEN 0 ELSE IF o >= Len(lp) THEN 1
                                  ELSE IF o >= 0 THEN Len(lp) - o + 1 ELSE Len(lp) + 2]
           go == [o \in Int |-> o # NULL]
           next == [o \in Int |-> LpNext(o)]
           step == [o \in Int |-> [x \in Seq(Int) |-> <<o>> \o x]]
           base == [o \in Int |-> <<>>]
           v == CHOOSE w : GoesForwards(w)
<1>1. PICK len : len = Len(lp)
  OBVIOUS
<1>2. len \in Nat
  BY <1>1
<1>3. rank \in [Int -> Nat]
  BY <1>1, <1>2
<1>4. base \in [Int -> Seq(Int)] /\ step \in [Int -> [Seq(Int) -> Seq(Int)]]
  OBVIOUS
<1>5. ASSUME NEW o \in Int, go[o] PROVE next[o] \in Int /\ rank[next[o]] < rank[o]
  <2>1. PICK x : x = LpNext(o)
    OBVIOUS
  <2>2. x = NULL \/ (x \in Int /\ x > o /\ x >= 0 /\ x < len)
    <3>1. \/ LpNext(o) = NULL
          \/ LpNext(o) \in Int /\ LpNext(o) > o /\ LpNext(o) >= 0 /\ LpNext(o) < Len(lp)
      BY LpNextGoes
    <3> QED
      BY <1>1, <2>1, <3>1
  <2>3. x \in Int /\ o # NULL
    <3>1. x \in Int
      BY <2>2 DEF NULL
    <3>2. o # NULL
      BY <1>5
    <3> QED
      BY <3>1, <3>2
  <2>5. next[o] = x
    BY <2>1
  <2>4. rank[x] < rank[o]
    BY <1>1, <1>2, <2>2, <2>3 DEF NULL
  <2> QED
    <3> HIDE DEF rank, next
    <3> QED
      BY <2>3, <2>4, <2>5
<1>6. Solvable(Int, Seq(Int), go, next, step, base)
  <2> HIDE DEF rank, go, next, step, base
  <2> QED
    BY <1>3, <1>4, <1>5, RecursionExists
<1>7. PICK w \in [Int -> Seq(Int)] :
        \A o \in Int : w[o] = IF go[o] THEN step[o][w[next[o]]] ELSE base[o]
  BY <1>6 DEF Solvable
<1>8. \A o \in Int : w[o] = IF o = NULL THEN <<>> ELSE <<o>> \o w[LpNext(o)]
  <2> SUFFICES ASSUME NEW o \in Int, o # NULL PROVE w[o] = <<o>> \o w[LpNext(o)]
    BY <1>7
  <2>1. LpNext(o) \in Int
    BY LpNextGoes DEF NULL
  <2>2. w[LpNext(o)] \in Seq(Int)
    BY <2>1
  <2>3. w[o] = step[o][w[LpNext(o)]]
    BY <1>7
  <2> QED
    BY <2>2, <2>3
<1>9. GoesForwards(w)
  <2> HIDE DEF rank, go, next, step, base
  <2> QED
    BY <1>8 DEF GoesForwards
<1>10. GoesForwards(v)
  BY <1>9
<1>11. Forwards = v[LpFirst]
  BY DEF Forwards, GoesForwards
<1> QED
  <2> HIDE DEF v
  <2> QED
    BY <1>10, <1>11

\* The walk with lpPrev ends on any block, so Backwards has a value.
LEMMA BackwardsGoes ==
  ASSUME lp \in Seq(Bytes)
  PROVE  \E w : GoesBackwards(w) /\ Backwards = w[LpLast]
<1> DEFINE rank == [o \in Int |-> IF o < LP_HDR_SIZE THEN 0 ELSE o]
           go == [o \in Int |-> o >= LP_HDR_SIZE]
           next == [o \in Int |-> LpPrev(o)]
           step == [o \in Int |-> [x \in Seq(Int) |-> Append(x, o)]]
           base == [o \in Int |-> <<>>]
           v == CHOOSE w : GoesBackwards(w)
<1>3. rank \in [Int -> Nat]
  BY DEF LP_HDR_SIZE
<1>4. base \in [Int -> Seq(Int)] /\ step \in [Int -> [Seq(Int) -> Seq(Int)]]
  OBVIOUS
<1>5. ASSUME NEW o \in Int, go[o] PROVE next[o] \in Int /\ rank[next[o]] < rank[o]
  <2>1. PICK x : x = LpPrev(o)
    OBVIOUS
  <2>2. x \in Int /\ x < o /\ next[o] = x /\ o >= LP_HDR_SIZE
    BY <1>5, <2>1, LpPrevGoes
  <2>4. rank[x] < rank[o]
    BY <2>2 DEF LP_HDR_SIZE
  <2> QED
    <3> HIDE DEF rank, next
    <3> QED
      BY <2>2, <2>4
<1>6. Solvable(Int, Seq(Int), go, next, step, base)
  <2> HIDE DEF rank, go, next, step, base
  <2> QED
    BY <1>3, <1>4, <1>5, RecursionExists
<1>7. PICK w \in [Int -> Seq(Int)] :
        \A o \in Int : w[o] = IF go[o] THEN step[o][w[next[o]]] ELSE base[o]
  BY <1>6 DEF Solvable
<1>8. \A o \in Int : w[o] = IF o < LP_HDR_SIZE THEN <<>> ELSE Append(w[LpPrev(o)], o)
  <2>1. ASSUME NEW o \in Int, o < LP_HDR_SIZE PROVE w[o] = <<>>
    <3>1. ~(o >= LP_HDR_SIZE)
      BY <2>1 DEF LP_HDR_SIZE
    <3>2. ~go[o] /\ base[o] = <<>>
      BY <3>1
    <3> HIDE DEF go, base, step, next
    <3> QED
      BY <1>7, <3>2
  <2>2. ASSUME NEW o \in Int, o >= LP_HDR_SIZE PROVE w[o] = Append(w[LpPrev(o)], o)
    <3>1. w[LpPrev(o)] \in Seq(Int)
      BY <2>2, LpPrevGoes
    <3>2. w[o] = step[o][w[LpPrev(o)]]
      BY <1>7, <2>2
    <3> QED
      BY <3>1, <3>2
  <2> QED
    BY <2>1, <2>2 DEF LP_HDR_SIZE
<1>9. GoesBackwards(w)
  <2> HIDE DEF rank, go, next, step, base
  <2> QED
    BY <1>8 DEF GoesBackwards
<1>10. GoesBackwards(v)
  BY <1>9
<1>11. Backwards = v[LpLast]
  BY DEF Backwards, GoesBackwards
<1> QED
  <2> HIDE DEF v
  <2> QED
    BY <1>10, <1>11

\* The walks visit the entries, one after the other.
LEMMA ForwardsIs ==
  ASSUME NEW n, NEW off, NEW enc, NEW num, Layout(lp, n, off, enc, num)
  PROVE  Forwards = [j \in 1 .. n |-> off[j]]
<1> DEFINE At(i) == IF i = n + 1 THEN NULL ELSE off[i]
           Suffix(i) == [j \in 1 .. n + 1 - i |-> off[i + j - 1]]
<1>1. lp \in Seq(Bytes) /\ n \in Nat /\ \A i \in 1 .. n + 1 : off[i] \in Nat
  BY Bounds
<1>2. PICK w : GoesForwards(w) /\ Forwards = w[LpFirst]
  BY <1>1, ForwardsGoes
<1>3. w[NULL] = <<>> /\ \A o \in Nat : w[o] = <<o>> \o w[LpNext(o)]
  <2>1. \A o \in Int : w[o] = IF o = NULL THEN <<>> ELSE <<o>> \o w[LpNext(o)]
    BY <1>2 DEF GoesForwards
  <2>2. NULL \in Int /\ \A o \in Nat : o \in Int /\ o # NULL
    BY DEF NULL
  <2> QED
    BY <2>1, <2>2
<1>4. ASSUME NEW i \in 1 .. n PROVE Suffix(i) = <<off[i]>> \o Suffix(i + 1)
  <2>1. PICK a : a = off[i]
    OBVIOUS
  <2>2. PICK s, t : s = Suffix(i) /\ t = Suffix(i + 1)
    OBVIOUS
  <2>3. s \in Seq(Nat) /\ Len(s) = n + 1 - i /\ \A j \in 1 .. n + 1 - i : s[j] = off[i + j - 1]
    BY <1>1, <2>2
  <2>4. t \in Seq(Nat) /\ Len(t) = n - i /\ \A j \in 1 .. n - i : t[j] = off[i + j]
    BY <1>1, <2>2
  <2> HIDE DEF Suffix
  <2>5. a \in Nat
    BY <1>1, <2>1
  <2>6. PICK u : u = <<a>> \o t
    OBVIOUS
  <2>7. u \in Seq(Nat) /\ Len(u) = n + 1 - i /\ u[1] = a /\ \A j \in 1 .. n - i : u[j + 1] = t[j]
    BY <1>1, <2>4, <2>5, <2>6
  <2>8. \A j \in 1 .. n + 1 - i : s[j] = u[j]
    <3>1. ASSUME NEW j \in 1 .. n + 1 - i PROVE s[j] = u[j]
      <4>1. CASE j = 1
        BY <1>1, <2>1, <2>3, <2>7, <4>1
      <4>2. CASE j # 1
        <5>1. PICK h : h = j - 1
          OBVIOUS
        <5>2. h \in 1 .. n - i /\ j = h + 1 /\ i + j - 1 = i + h
          BY <1>1, <4>2, <5>1
        <5> QED
          BY <2>3, <2>4, <2>7, <5>2
      <4> QED
        BY <4>1, <4>2
    <3> QED
      BY <3>1
  <2>9. s = u
    BY <2>3, <2>7, <2>8, SeqEqual
  <2> QED
    BY <2>1, <2>2, <2>6, <2>9
<1>5. LpFirst = At(1) /\ \A i \in 1 .. n : LpNext(off[i]) = At(i + 1) /\ At(i) = off[i]
  <2>1. LpFirst = At(1)
    <3>1. 1 = n + 1 <=> n = 0
      BY <1>1
    <3> QED
      BY <3>1, StepsRead
  <2>2. ASSUME NEW i \in 1 .. n PROVE LpNext(off[i]) = At(i + 1) /\ At(i) = off[i]
    <3>1. (i + 1 = n + 1 <=> i = n) /\ i # n + 1
      BY <1>1
    <3> QED
      BY <3>1, StepsRead
  <2> QED
    BY <2>1, <2>2
<1>6. At(n + 1) = NULL /\ Suffix(n + 1) = <<>>
  BY <1>1
<1> DEFINE S == {d \in Nat : d <= n => w[At(n + 1 - d)] = Suffix(n + 1 - d)}
<1>7. 0 \in S
  <2>1. n + 1 - 0 = n + 1
    BY <1>1
  <2> HIDE DEF At, Suffix
  <2> QED
    BY <1>3, <1>6, <2>1
<1>8. ASSUME NEW d \in Nat, d \in S PROVE d + 1 \in S
  <2> SUFFICES ASSUME d + 1 <= n PROVE w[At(n + 1 - (d + 1))] = Suffix(n + 1 - (d + 1))
    OBVIOUS
  <2>1. PICK i : i = n - d
    OBVIOUS
  <2>2. i \in 1 .. n /\ n + 1 - (d + 1) = i /\ n + 1 - d = i + 1
    BY <1>1, <2>1
  <2>3. w[At(i + 1)] = Suffix(i + 1)
    <3>1. d <= n /\ w[At(n + 1 - d)] = Suffix(n + 1 - d)
      BY <1>1, <1>8
    <3> HIDE DEF At, Suffix
    <3> QED
      BY <2>2, <3>1
  <2>4. off[i] \in Nat
    BY <1>1, <2>2
  <2> HIDE DEF At, Suffix
  <2>5. w[At(i)] = <<off[i]>> \o w[At(i + 1)]
    BY <1>3, <1>5, <2>2, <2>4
  <2> QED
    BY <1>4, <2>2, <2>3, <2>5
<1>9. Nat \subseteq S
  <2> HIDE DEF S
  <2> QED
    BY <1>7, <1>8, SetInduction
<1>10. w[At(1)] = Suffix(1)
  <2>1. n \in S /\ n + 1 - n = 1
    BY <1>1, <1>9
  <2> HIDE DEF At, Suffix
  <2> QED
    BY <1>1, <2>1
<1>11. Suffix(1) = [j \in 1 .. n |-> off[j]]
  BY <1>1
<1> QED
  <2> HIDE DEF At, Suffix
  <2> QED
    BY <1>2, <1>5, <1>10, <1>11

\* Backwards visits the entries of the layout.
LEMMA BackwardsIs ==
  ASSUME NEW n, NEW off, NEW enc, NEW num, Layout(lp, n, off, enc, num)
  PROVE  Backwards = [j \in 1 .. n |-> off[j]]
<1> DEFINE At(i) == IF i = 0 THEN NULL ELSE off[i]
           Prefix(i) == [j \in 1 .. i |-> off[j]]
<1>1. /\ lp \in Seq(Bytes) /\ n \in Nat
      /\ \A i \in 1 .. n : off[i] \in Nat /\ off[i] >= LP_HDR_SIZE
  BY Bounds
<1>2. PICK w : GoesBackwards(w) /\ Backwards = w[LpLast]
  BY <1>1, BackwardsGoes
<1>3. w[NULL] = <<>> /\ \A o \in Nat : o >= LP_HDR_SIZE => w[o] = Append(w[LpPrev(o)], o)
  <2>1. \A o \in Int : w[o] = IF o < LP_HDR_SIZE THEN <<>> ELSE Append(w[LpPrev(o)], o)
    BY <1>2 DEF GoesBackwards
  <2>2. NULL \in Int /\ NULL < LP_HDR_SIZE
    BY DEF NULL, LP_HDR_SIZE
  <2>3. \A o \in Nat : o \in Int /\ (o >= LP_HDR_SIZE => ~(o < LP_HDR_SIZE))
    BY DEF LP_HDR_SIZE
  <2>4. w[NULL] = <<>>
    BY <2>1, <2>2
  <2>5. ASSUME NEW o \in Nat, o >= LP_HDR_SIZE PROVE w[o] = Append(w[LpPrev(o)], o)
    BY <2>1, <2>3, <2>5
  <2> QED
    BY <2>4, <2>5
<1>4. ASSUME NEW i \in 1 .. n PROVE Prefix(i) = Append(Prefix(i - 1), off[i])
  <2>1. PICK s, t, a : s = Prefix(i) /\ t = Prefix(i - 1) /\ a = off[i]
    OBVIOUS
  <2>2. s \in Seq(Nat) /\ Len(s) = i /\ \A j \in 1 .. i : s[j] = off[j]
    BY <1>1, <2>1
  <2>3. t \in Seq(Nat) /\ Len(t) = i - 1 /\ \A j \in 1 .. i - 1 : t[j] = off[j]
    BY <1>1, <2>1
  <2>4. a \in Nat
    BY <1>1, <2>1
  <2> HIDE DEF Prefix
  <2>5. PICK u : u = Append(t, a)
    OBVIOUS
  <2>6. u \in Seq(Nat) /\ Len(u) = i /\ u[i] = a /\ \A j \in 1 .. i - 1 : u[j] = t[j]
    BY <2>3, <2>4, <2>5
  <2>7. \A j \in 1 .. i : s[j] = u[j]
    <3>1. \A j \in 1 .. i : j = i \/ j \in 1 .. i - 1
      OBVIOUS
    <3> QED
      BY <2>1, <2>2, <2>3, <2>6, <3>1
  <2>8. s = u
    BY <2>2, <2>6, <2>7, SeqEqual
  <2> QED
    BY <2>1, <2>5, <2>8
<1>5. LpLast = At(n) /\ \A i \in 1 .. n : LpPrev(off[i]) = At(i - 1) /\ At(i) = off[i]
  <2>1. LpLast = At(n)
    BY StepsRead
  <2>2. ASSUME NEW i \in 1 .. n PROVE LpPrev(off[i]) = At(i - 1) /\ At(i) = off[i]
    <3>1. (i - 1 = 0 <=> i = 1) /\ i # 0
      BY <1>1
    <3> QED
      BY <3>1, StepsRead
  <2> QED
    BY <2>1, <2>2
<1> DEFINE S == {i \in Nat : i <= n => w[At(i)] = Prefix(i)}
<1>6. 0 \in S
  <2>1. At(0) = NULL /\ Prefix(0) = <<>>
    OBVIOUS
  <2> HIDE DEF At, Prefix
  <2> QED
    BY <1>3, <2>1
<1>7. ASSUME NEW d \in Nat, d \in S PROVE d + 1 \in S
  <2> SUFFICES ASSUME d + 1 <= n PROVE w[At(d + 1)] = Prefix(d + 1)
    OBVIOUS
  <2>1. PICK i : i = d + 1
    OBVIOUS
  <2>2. i \in 1 .. n /\ i - 1 = d
    BY <1>1, <2>1
  <2>3. w[At(d)] = Prefix(d)
    BY <1>1, <1>7
  <2> HIDE DEF At, Prefix
  <2>4. w[At(i)] = Append(w[At(d)], off[i])
    BY <1>1, <1>3, <1>5, <2>2
  <2> QED
    BY <1>4, <2>1, <2>2, <2>3, <2>4
<1>8. Nat \subseteq S
  <2> HIDE DEF S
  <2> QED
    BY <1>6, <1>7, SetInduction
<1>9. w[At(n)] = Prefix(n)
  BY <1>1, <1>8
<1> QED
  <2> HIDE DEF At
  <2> QED
    BY <1>2, <1>5, <1>9

\* The two walks visit the same entries.
LEMMA BackwardsAreForwards ==
  ASSUME NEW n, NEW off, NEW enc, NEW num, Layout(lp, n, off, enc, num)
  PROVE  Backwards = Forwards
<1>1. PICK s : s = [j \in 1 .. n |-> off[j]]
  OBVIOUS
<1>2. Forwards = s
  BY <1>1, ForwardsIs
<1>3. Backwards = s
  BY <1>1, BackwardsIs
<1> QED
  BY <1>2, <1>3

\* The loop of TailOf over k entries from o on.
Tails(t, o, k) ==
  t = [i \in 0 .. k |->
         IF i = 0 THEN o ELSE IF Byte(t[i - 1]) = LP_EOF THEN t[i - 1] ELSE Skip(t[i - 1])]

\* The loop of lpDeleteRangeWithEntry has a value.
LEMMA TailsExist ==
  ASSUME lp \in Seq(Bytes), NEW o \in Int, NEW k \in Nat
  PROVE  \E t : Tails(t, o, k) /\ TailOf(o, k) = t[k]
<1> DEFINE P == 0 .. k
           rank == [i \in P |-> i]
           go == [i \in P |-> i # 0]
           next == [i \in P |-> i - 1]
           step == [i \in P |-> [x \in Int |-> IF Byte(x) = LP_EOF THEN x ELSE Skip(x)]]
           base == [i \in P |-> o]
           v == CHOOSE t : Tails(t, o, k)
<1>1. rank \in [P -> Nat] /\ base \in [P -> Int]
  OBVIOUS
<1>2. step \in [P -> [Int -> Int]]
  <2>1. ASSUME NEW x \in Int PROVE Skip(x) \in Int
    <3>1. PICK l : l = EncodedSize(x)
      OBVIOUS
    <3>2. l \in Nat /\ BacklenSize(l) \in Nat
      BY <3>1, EncodedSizeType, BacklenType
    <3> QED
      BY <3>1, <3>2 DEF Skip, EntrySize
  <2> QED
    BY <2>1
<1>3. \A i \in P : go[i] => next[i] \in P /\ rank[next[i]] < rank[i]
  OBVIOUS
<1>4. Solvable(P, Int, go, next, step, base)
  <2> HIDE DEF P, rank, go, next, step, base
  <2> QED
    BY <1>1, <1>2, <1>3, RecursionExists
<1>5. PICK t \in [P -> Int] :
        \A i \in P : t[i] = IF go[i] THEN step[i][t[next[i]]] ELSE base[i]
  BY <1>4 DEF Solvable
<1>6. \A i \in P : t[i] = IF i = 0 THEN o
                          ELSE IF Byte(t[i - 1]) = LP_EOF THEN t[i - 1] ELSE Skip(t[i - 1])
  <2> SUFFICES ASSUME NEW i \in P, i # 0
               PROVE  t[i] = IF Byte(t[i - 1]) = LP_EOF THEN t[i - 1] ELSE Skip(t[i - 1])
    BY <1>5
  <2>1. t[i - 1] \in Int
    OBVIOUS
  <2>2. t[i] = step[i][t[i - 1]]
    BY <1>5
  <2> QED
    BY <2>1, <2>2
<1>7. Tails(t, o, k)
  <2> HIDE DEF rank, go, next, step, base
  <2> QED
    BY <1>6 DEF Tails
<1>8. Tails(v, o, k)
  BY <1>7
<1>9. TailOf(o, k) = v[k]
  BY DEF TailOf, Tails
<1> QED
  <2> HIDE DEF v
  <2> QED
    BY <1>8, <1>9

\* It ends at the k-th entry from p on, or at the end of the block.
LEMMA TailIs ==
  ASSUME NEW n, NEW off, NEW enc, NEW num, Layout(lp, n, off, enc, num),
         NEW p \in 1 .. n + 1, NEW k \in Nat
  PROVE  TailOf(off[p], k) = off[IF p + k <= n + 1 THEN p + k ELSE n + 1]
<1> DEFINE At(i) == IF p + i <= n + 1 THEN p + i ELSE n + 1
<1>1. lp \in Seq(Bytes) /\ n \in Nat /\ \A i \in 1 .. n + 1 : off[i] \in Nat
  BY Bounds
<1>2. PICK t : Tails(t, off[p], k) /\ TailOf(off[p], k) = t[k]
  <2>1. off[p] \in Int
    BY <1>1
  <2> QED
    BY <1>1, <2>1, TailsExist
<1>3. \A i \in 0 .. k : t[i] = IF i = 0 THEN off[p]
                               ELSE IF Byte(t[i - 1]) = LP_EOF THEN t[i - 1] ELSE Skip(t[i - 1])
  BY <1>2 DEF Tails
<1> DEFINE S == {i \in Nat : i <= k => t[i] = off[At(i)]}
<1>4. 0 \in S
  <2>1. At(0) = p /\ 0 \in 0 .. k
    BY <1>1
  <2> HIDE DEF At
  <2> QED
    BY <1>3, <2>1
<1>5. ASSUME NEW i \in Nat, i \in S PROVE i + 1 \in S
  <2> SUFFICES ASSUME i + 1 <= k PROVE t[i + 1] = off[At(i + 1)]
    OBVIOUS
  <2>1. PICK j : j = i + 1
    OBVIOUS
  <2>2. j \in 0 .. k /\ j # 0 /\ j - 1 = i
    BY <2>1
  <2>3. t[i] = off[At(i)]
    BY <1>5
  <2>4. t[j] = IF Byte(off[At(i)]) = LP_EOF THEN off[At(i)] ELSE Skip(off[At(i)])
    <3> HIDE DEF At
    <3> QED
      BY <1>3, <2>2, <2>3
  <2>5. CASE p + i <= n
    <3>1. At(i) = p + i /\ At(j) = (p + i) + 1 /\ p + i \in 1 .. n
      BY <1>1, <2>1, <2>5
    <3>2. Byte(off[p + i]) # LP_EOF /\ Skip(off[p + i]) = off[(p + i) + 1]
      BY <3>1, EntryReads
    <3> HIDE DEF At
    <3> QED
      BY <2>1, <2>4, <3>1, <3>2
  <2>6. CASE p + i > n
    <3>1. At(i) = n + 1 /\ At(j) = n + 1
      BY <1>1, <2>1, <2>6
    <3>2. Byte(off[n + 1]) = LP_EOF
      BY EndReads
    <3> HIDE DEF At
    <3> QED
      BY <2>1, <2>4, <3>1, <3>2
  <2> QED
    BY <1>1, <2>5, <2>6
<1>6. Nat \subseteq S
  <2> HIDE DEF S
  <2> QED
    BY <1>4, <1>5, SetInduction
<1>7. t[k] = off[At(k)]
  BY <1>6
<1> QED
  BY <1>2, <1>7

\* It counts the entries that were there.
LEMMA DeletedIs ==
  ASSUME NEW n, NEW off, NEW enc, NEW num, Layout(lp, n, off, enc, num),
         NEW p \in 1 .. n, NEW k \in Nat
  PROVE  DeletedIn(off[p], k) = (IF p + k <= n + 1 THEN k ELSE n + 1 - p)
<1> DEFINE m == IF p + k <= n + 1 THEN k ELSE n + 1 - p
           At(i) == IF p + i <= n + 1 THEN p + i ELSE n + 1
<1>1. n \in Nat /\ m \in Nat /\ m <= k
  BY Bounds
<1>2. ASSUME NEW i \in 1 .. k
      PROVE  TailOf(off[p], i) # TailOf(off[p], i - 1) <=> i <= m
  <2>1. i \in Nat /\ i - 1 \in Nat /\ p \in 1 .. n + 1
    BY <1>1
  <2>2. TailOf(off[p], i) = off[At(i)] /\ TailOf(off[p], i - 1) = off[At(i - 1)]
    BY <2>1, TailIs
  <2>3. CASE p + i <= n + 1
    <3>1. At(i) = p + i /\ At(i - 1) = p + i - 1 /\ i <= m
      BY <1>1, <2>1, <2>3
    <3>2. p + i \in 1 .. n + 1 /\ p + i - 1 \in 1 .. n + 1 /\ p + i - 1 < p + i
      BY <1>1, <2>1, <2>3
    <3>3. off[p + i - 1] < off[p + i] /\ off[p + i] \in Nat /\ off[p + i - 1] \in Nat
      BY <3>2, OffsetsGrow DEF Layout
    <3> HIDE DEF At, m
    <3> QED
      BY <2>2, <3>1, <3>3
  <2>4. CASE ~(p + i <= n + 1)
    <3>1. At(i) = n + 1 /\ At(i - 1) = n + 1 /\ ~(i <= m)
      BY <1>1, <2>1, <2>4
    <3> HIDE DEF At, m
    <3> QED
      BY <2>2, <3>1
  <2> QED
    BY <2>3, <2>4
<1>3. {i \in 1 .. k : TailOf(off[p], i) # TailOf(off[p], i - 1)} = 1 .. m
  <2> HIDE DEF m
  <2> QED
    BY <1>1, <1>2
<1>4. Cardinality(1 .. m) = m
  <2> HIDE DEF m
  <2> QED
    BY <1>1, FS_Interval
<1> QED
  <2> HIDE DEF m
  <2>1. DeletedIn(off[p], k) = m
    BY <1>3, <1>4 DEF DeletedIn
  <2> QED
    BY <2>1 DEF m

-------------------------------------------------------------------------------
\* Changing it.

\* The sequence p is a and behind it x.
Joins(S, p, a, x) ==
  /\ p \in Seq(S) /\ Len(p) = Len(a) + Len(x)
  /\ \A j \in 1 .. Len(a) : p[j] = a[j]
  /\ \A j \in 1 .. Len(x) : p[Len(a) + j] = x[j]

\* The parts of a concatenation.
LEMMA TwoParts ==
  ASSUME NEW S, NEW a \in Seq(S), NEW x \in Seq(S)
  PROVE  Joins(S, a \o x, a, x)
<1>1. Len(a) \in Nat /\ Len(x) \in Nat
  OBVIOUS
<1>2. PICK p : p = a \o x
  BY Zenon
<1>3. Joins(S, p, a, x)
  BY <1>1, <1>2, ConcatProperties DEF Joins
<1> QED
  BY <1>2, <1>3, Zenon

\* The six bytes of the header say what it was given.
LEMMA HeaderIs ==
  ASSUME NEW total, Fits32(total), NEW num, FitsHalf(num)
  PROVE  /\ Header(total, num) \in Seq(Bytes) /\ Len(Header(total, num)) = 6
         /\ Of4(Header(total, num)[1], Header(total, num)[2],
                Header(total, num)[3], Header(total, num)[4]) = total
         /\ Of4(Header(total, num)[5], Header(total, num)[6], 0, 0) = num
<1> DEFINE s == LittleEndian(total, 4)
           t == LittleEndian(num, 2)
           h == Header(total, num)
<1>1. h = s \o t
  BY Zenon DEF Header
<1>2. total \in Int /\ num \in Int /\ 4 \in 1 .. 4 /\ 2 \in 1 .. 4
  BY SMT DEF Fits32, FitsHalf
<1>3. s \in Seq(Bytes) /\ Len(s) = 4 /\ \A i \in 1 .. 4 : s[i] = ByteOf(total, i)
  BY <1>2, LittleEndianIs
<1>4. t \in Seq(Bytes) /\ Len(t) = 2 /\ \A i \in 1 .. 2 : t[i] = ByteOf(num, i)
  BY <1>2, LittleEndianIs
<1> HIDE DEF s, t, h
<1>5. /\ h \in Seq(Bytes) /\ Len(h) = 6
      /\ \A i \in 1 .. 4 : h[i] = s[i]
      /\ \A i \in 1 .. 2 : h[4 + i] = t[i]
  <2>1. /\ h \in Seq(Bytes) /\ Len(h) = Len(s) + Len(t)
        /\ \A i \in 1 .. Len(s) : h[i] = s[i]
        /\ \A i \in 1 .. Len(t) : h[Len(s) + i] = t[i]
    <3>1. Joins(Bytes, s \o t, s, t)
      BY <1>3, <1>4, TwoParts, Zenon
    <3>2. Joins(Bytes, h, s, t)
      BY <1>1, <3>1, Zenon
    <3> QED
      BY ONLY <3>2 DEF Joins
  <2> QED
    BY <1>3, <1>4, <2>1
<1>6. h[1] = ByteOf(total, 1) /\ h[2] = ByteOf(total, 2) /\ h[3] = ByteOf(total, 3)
      /\ h[4] = ByteOf(total, 4)
  BY <1>3, <1>5
<1>7. h[5] = ByteOf(num, 1) /\ h[6] = ByteOf(num, 2)
  <2>1. h[4 + 1] = ByteOf(num, 1) /\ h[4 + 2] = ByteOf(num, 2)
    BY <1>4, <1>5
  <2> QED
    BY <2>1
<1>8. Of4(h[1], h[2], h[3], h[4]) = total
  BY <1>6, FourBytesOf
<1>9. Of4(h[5], h[6], 0, 0) = num
  BY <1>7, TwoBytesOf
<1> QED
  BY <1>5, <1>8, <1>9 DEF h

\* The sequence c is h, a, x and z one behind the other.
Joins4(c, h, a, x, z) ==
  /\ c \in Seq(Bytes) /\ Len(c) = Len(h) + Len(a) + Len(x) + Len(z)
  /\ \A j \in 1 .. Len(h) : c[j] = h[j]
  /\ \A j \in 1 .. Len(a) : c[Len(h) + j] = a[j]
  /\ \A j \in 1 .. Len(x) : c[Len(h) + Len(a) + j] = x[j]
  /\ \A j \in 1 .. Len(z) : c[Len(h) + Len(a) + Len(x) + j] = z[j]

\* The parts of the new block.
LEMMA FourParts ==
  ASSUME NEW h \in Seq(Bytes), NEW a \in Seq(Bytes), NEW x \in Seq(Bytes), NEW z \in Seq(Bytes)
  PROVE  Joins4(h \o (a \o x \o z), h, a, x, z)
<1>p. PICK p : p = a \o x
  BY Zenon
<1>q. PICK q : q = p \o z
  BY Zenon
<1>c. PICK c : c = h \o q
  BY Zenon
<1>1. h \in Seq(Bytes) /\ a \in Seq(Bytes) /\ x \in Seq(Bytes) /\ z \in Seq(Bytes)
  OBVIOUS
<1>2. Len(h) \in Nat /\ Len(a) \in Nat /\ Len(x) \in Nat /\ Len(z) \in Nat
  BY ONLY <1>1
<1>3. /\ p \in Seq(Bytes) /\ Len(p) = Len(a) + Len(x)
      /\ \A j \in 1 .. Len(a) : p[j] = a[j]
      /\ \A j \in 1 .. Len(x) : p[Len(a) + j] = x[j]
  <2>1. Joins(Bytes, a \o x, a, x)
    BY <1>1, TwoParts, Zenon
  <2>2. Joins(Bytes, p, a, x)
    BY <1>p, <1>q, <1>c, <2>1, Zenon
  <2> QED
    BY ONLY <2>2 DEF Joins
<1>4. /\ q \in Seq(Bytes) /\ Len(q) = Len(p) + Len(z)
      /\ \A j \in 1 .. Len(p) : q[j] = p[j]
      /\ \A j \in 1 .. Len(z) : q[Len(p) + j] = z[j]
  <2>1. Joins(Bytes, p \o z, p, z)
    BY <1>1, <1>3, TwoParts, Zenon
  <2>2. Joins(Bytes, q, p, z)
    BY <1>p, <1>q, <1>c, <2>1, Zenon
  <2> QED
    BY ONLY <2>2 DEF Joins
<1>5. /\ c \in Seq(Bytes) /\ Len(c) = Len(h) + Len(q)
      /\ \A j \in 1 .. Len(h) : c[j] = h[j]
      /\ \A j \in 1 .. Len(q) : c[Len(h) + j] = q[j]
  <2>1. Joins(Bytes, h \o q, h, q)
    BY <1>1, <1>4, TwoParts, Zenon
  <2>2. Joins(Bytes, c, h, q)
    BY <1>p, <1>q, <1>c, <2>1, Zenon
  <2> QED
    BY ONLY <2>2 DEF Joins
<1>6. ASSUME NEW j \in 1 .. Len(a) PROVE c[Len(h) + j] = a[j]
  <2>1. j \in 1 .. Len(p) /\ j \in 1 .. Len(q)
    BY ONLY <1>2, <1>3, <1>4, j \in 1 .. Len(a)
  <2> QED
    BY ONLY <1>3, <1>4, <1>5, <2>1, j \in 1 .. Len(a)
<1>7. ASSUME NEW j \in 1 .. Len(x) PROVE c[Len(h) + Len(a) + j] = x[j]
  <2>1. PICK y : y = Len(a) + j
    OBVIOUS
  <2>2. y \in 1 .. Len(p) /\ y \in 1 .. Len(q) /\ Len(h) + Len(a) + j = Len(h) + y
    BY ONLY <1>2, <1>3, <1>4, <2>1, j \in 1 .. Len(x)
  <2>3. q[y] = p[y] /\ p[y] = x[j] /\ c[Len(h) + y] = q[y]
    BY ONLY <1>3, <1>4, <1>5, <2>1, <2>2, j \in 1 .. Len(x)
  <2> QED
    BY ONLY <2>2, <2>3
<1>8. ASSUME NEW j \in 1 .. Len(z) PROVE c[Len(h) + Len(a) + Len(x) + j] = z[j]
  <2>1. PICK y : y = Len(p) + j
    OBVIOUS
  <2>2. y \in 1 .. Len(q) /\ Len(h) + Len(a) + Len(x) + j = Len(h) + y
    BY ONLY <1>2, <1>3, <1>4, <2>1, j \in 1 .. Len(z)
  <2>3. q[y] = z[j] /\ c[Len(h) + y] = q[y]
    BY ONLY <1>4, <1>5, <2>1, <2>2, j \in 1 .. Len(z)
  <2> QED
    BY ONLY <2>2, <2>3
<1>9. Len(c) = Len(h) + Len(a) + Len(x) + Len(z)
  BY ONLY <1>2, <1>3, <1>4, <1>5
<1>10. Joins4(c, h, a, x, z)
  BY ONLY <1>5, <1>6, <1>7, <1>8, <1>9 DEF Joins4
<1> QED
  BY <1>p, <1>q, <1>c, <1>10, Zenon

\* The block c is b with the bytes from o to r given way to x, and a new header.
Changed(c, b, o, r, x, num) ==
  /\ c \in Seq(Bytes) /\ Len(c) = Len(b) + Len(x) - (r - o)
  /\ Of4(c[1], c[2], c[3], c[4]) = Len(c) /\ Of4(c[5], c[6], 0, 0) = num
  /\ \A j \in LP_HDR_SIZE + 1 .. o : c[j] = b[j]
  /\ \A j \in 1 .. Len(x) : c[o + j] = x[j]
  /\ \A j \in 1 .. Len(b) - r : c[o + Len(x) + j] = b[r + j]

\* A block put together from a header, what is kept and what is new is changed so.
LEMMA ChangedIs ==
  ASSUME NEW b \in Seq(Bytes), NEW o \in Nat, NEW r \in Nat, NEW x \in Seq(Bytes),
         o >= LP_HDR_SIZE, o <= r, r <= Len(b),
         NEW total, total = Len(b) + Len(x) - (r - o), Fits32(total),
         NEW num, FitsHalf(num)
  PROVE  Changed(Header(total, num)
                   \o (SubSeq(b, LP_HDR_SIZE + 1, o) \o x \o SubSeq(b, r + 1, Len(b))),
                 b, o, r, x, num)
<1> DEFINE h == Header(total, num)
           a == SubSeq(b, LP_HDR_SIZE + 1, o)
           z == SubSeq(b, r + 1, Len(b))
<1>4. /\ h \in Seq(Bytes) /\ Len(h) = 6
      /\ Of4(h[1], h[2], h[3], h[4]) = total /\ Of4(h[5], h[6], 0, 0) = num
  BY HeaderIs
<1> HIDE DEF h
<1>5. Len(b) \in Nat /\ Len(x) \in Nat /\ \A i \in 1 .. Len(b) : b[i] \in Bytes
  BY ElementOfSeq
<1>6. a \in Seq(Bytes) /\ Len(a) = o - 6 /\ \A j \in 1 .. o - 6 : a[j] = b[6 + j]
  <2>1. \A i \in 7 .. o : b[i] \in Bytes
    BY <1>5
  <2>2. a = SubSeq(b, 7, o)
    BY DEF LP_HDR_SIZE
  <2> HIDE DEF a
  <2>3. /\ a \in Seq(Bytes) /\ Len(a) = IF 7 <= o THEN o - 7 + 1 ELSE 0
        /\ \A j \in 1 .. o - 7 + 1 : a[j] = b[7 + j - 1]
    BY <2>1, <2>2, SubSeqProperties
  <2>4. Len(a) = o - 6
    BY <2>3 DEF LP_HDR_SIZE
  <2>5. ASSUME NEW j \in 1 .. o - 6 PROVE a[j] = b[6 + j]
    <3>1. j \in 1 .. o - 7 + 1 /\ 7 + j - 1 = 6 + j
      OBVIOUS
    <3> QED
      BY <2>3, <3>1
  <2> QED
    BY <2>3, <2>4, <2>5
<1>7. z \in Seq(Bytes) /\ Len(z) = Len(b) - r /\ \A j \in 1 .. Len(b) - r : z[j] = b[r + j]
  <2>1. PICK l : l = Len(b)
    OBVIOUS
  <2>2. \A i \in r + 1 .. l : b[i] \in Bytes
    BY <1>5, <2>1
  <2>3. z = SubSeq(b, r + 1, l) /\ l \in Nat /\ r <= l
    BY <1>5, <2>1
  <2> HIDE DEF z
  <2>4. /\ z \in Seq(Bytes) /\ Len(z) = IF r + 1 <= l THEN l - (r + 1) + 1 ELSE 0
        /\ \A j \in 1 .. l - (r + 1) + 1 : z[j] = b[r + 1 + j - 1]
    BY <2>2, <2>3, SubSeqProperties
  <2>5. Len(z) = l - r
    BY <2>3, <2>4
  <2>6. ASSUME NEW j \in 1 .. l - r PROVE z[j] = b[r + j]
    <3>1. j \in 1 .. l - (r + 1) + 1 /\ r + 1 + j - 1 = r + j
      BY <2>3
    <3> QED
      BY <2>4, <3>1
  <2> QED
    BY <2>1, <2>4, <2>5, <2>6
<1> HIDE DEF a, z
<1>c. PICK c : c = h \o (a \o x \o z)
  BY Zenon
<1>8. /\ c \in Seq(Bytes) /\ Len(c) = Len(h) + Len(a) + Len(x) + Len(z)
      /\ \A j \in 1 .. Len(h) : c[j] = h[j]
      /\ \A j \in 1 .. Len(a) : c[Len(h) + j] = a[j]
      /\ \A j \in 1 .. Len(x) : c[Len(h) + Len(a) + j] = x[j]
      /\ \A j \in 1 .. Len(z) : c[Len(h) + Len(a) + Len(x) + j] = z[j]
  <2>1. Joins4(h \o (a \o x \o z), h, a, x, z)
    BY <1>4, <1>6, <1>7, FourParts, Zenon
  <2>2. Joins4(c, h, a, x, z)
    BY <1>c, <2>1, Zenon
  <2> QED
    BY ONLY <2>2 DEF Joins4
<1>9. Len(c) = total
  BY <1>4, <1>5, <1>6, <1>7, <1>8
<1>10. /\ c[1] = h[1] /\ c[2] = h[2] /\ c[3] = h[3] /\ c[4] = h[4]
       /\ c[5] = h[5] /\ c[6] = h[6]
  BY <1>4, <1>8
<1>11. ASSUME NEW j \in LP_HDR_SIZE + 1 .. o PROVE c[j] = b[j]
  <2>1. PICK y : y = j - 6
    OBVIOUS
  <2>2. y \in 1 .. o - 6 /\ j = 6 + y
    BY <2>1 DEF LP_HDR_SIZE
  <2>3. c[Len(h) + y] = a[y] /\ a[y] = b[6 + y]
    BY <1>6, <1>8, <2>2
  <2> QED
    BY <1>4, <2>2, <2>3
<1>12. ASSUME NEW j \in 1 .. Len(x) PROVE c[o + j] = x[j]
  <2>1. Len(h) + Len(a) + j = o + j
    BY <1>4, <1>6
  <2> QED
    BY <1>8, <2>1
<1>13. ASSUME NEW j \in 1 .. Len(b) - r PROVE c[o + Len(x) + j] = b[r + j]
  <2>1. Len(h) + Len(a) + Len(x) + j = o + Len(x) + j
    BY <1>4, <1>5, <1>6
  <2>2. j \in 1 .. Len(z)
    BY <1>7
  <2> QED
    BY <1>7, <1>8, <2>1, <2>2
<1>14. Changed(c, b, o, r, x, num)
  <2>1. Of4(c[1], c[2], c[3], c[4]) = Len(c) /\ Of4(c[5], c[6], 0, 0) = num
    BY <1>4, <1>9, <1>10
  <2> QED
    BY <1>8, <1>9, <1>11, <1>12, <1>13, <2>1 DEF Changed
<1> QED
  BY <1>c, <1>14, Zenon DEF a, h, z

\* In f, of length n, the k elements from the i-th on give way to y if m is 1, and to
\* nothing if m is 0.
Replaced(f, n, i, k, m, y) ==
  [j \in 1 .. n - k + m |-> IF j < i THEN f[j] ELSE IF j < i + m THEN y ELSE f[j + k - m]]

\* The offsets then, by d more or less for what stands behind.
Moved(off, n, i, k, m, d) ==
  [j \in 1 .. n - k + m + 1 |-> IF j <= i THEN off[j] ELSE off[j + k - m] + d]

\* Of n entries, k from the i-th on give way to m: none, or one of encoding e.
Splices(n, i, k, m, e, x) ==
  /\ n \in Nat /\ i \in Nat /\ k \in Nat /\ m \in Nat /\ i >= 1 /\ i + k <= n + 1
  /\ \/ m = 0 /\ x = <<>>
     \/ m = 1 /\ WellFormed(e) /\ x = Entry(e)

\* The bounds of a splice.
LEMMA SplicesAre ==
  ASSUME NEW n, NEW i, NEW k, NEW m, NEW e, NEW x, Splices(n, i, k, m, e, x)
  PROVE  /\ x \in Seq(Bytes) /\ Len(x) \in Nat
         /\ n - k + m \in Nat /\ i <= n - k + 1 /\ (m = 0 \/ m = 1)
         /\ m = 0 => Len(x) = 0
<1>1. CASE m = 0 /\ x = <<>>
  <2>1. x \in Seq(Bytes) /\ Len(x) = 0
    BY <1>1
  <2> QED
    BY <1>1, <2>1 DEF Splices
<1>2. CASE m = 1 /\ WellFormed(e) /\ x = Entry(e)
  <2>1. x \in Seq(Bytes) /\ Len(x) \in Nat
    BY <1>2, EntryIs
  <2> QED
    BY <1>2, <2>1 DEF Splices
<1> QED
  BY <1>1, <1>2 DEF Splices

\* Where the elements of the new list come from.
LEMMA Sources ==
  ASSUME NEW n, NEW i, NEW k, NEW m, NEW e, NEW x, Splices(n, i, k, m, e, x),
         NEW j \in 1 .. n - k + m
  PROVE  \/ j < i /\ j \in 1 .. n /\ j + 1 <= i
         \/ j = i /\ m = 1
         \/ j >= i + m /\ j + k - m \in 1 .. n /\ j + k - m >= i + k
BY SplicesAre DEF Splices

\* Offsets up to the splice stay, those behind it move by the difference of lengths.
LEMMA MovedIs ==
  ASSUME NEW n, NEW i, NEW k, NEW m, NEW e, NEW x, Splices(n, i, k, m, e, x),
         NEW off, NEW d \in Int, d = Len(x) - (off[i + k] - off[i]),
         \A j \in 1 .. n + 1 : off[j] \in Nat,
         NEW off2, off2 = Moved(off, n, i, k, m, d)
  PROVE  /\ \A j \in Nat : j >= 1 /\ j <= i => off2[j] = off[j]
         /\ \A j \in Nat : j >= i + m /\ j <= n - k + m + 1 => off2[j] = off[j + k - m] + d
         /\ DOMAIN off2 = 1 .. n - k + m + 1
         /\ m = 1 => off2[i + 1] = off[i] + Len(x)
<1>1. /\ n \in Nat /\ i \in Nat /\ k \in Nat /\ m \in Nat /\ i >= 1 /\ i + k <= n + 1
      /\ Len(x) \in Nat /\ (m = 0 \/ m = 1) /\ (m = 0 => Len(x) = 0)
  BY SplicesAre DEF Splices
<1>2. i \in 1 .. n + 1 /\ i + k \in 1 .. n + 1
  BY <1>1
<1>3. PICK a, b : a = off[i] /\ b = off[i + k] /\ a \in Nat /\ b \in Nat
  BY <1>2
<1>4. \A j \in 1 .. n - k + m + 1 :
        off2[j] = IF j <= i THEN off[j] ELSE off[j + k - m] + d
  BY DEF Moved
<1>5. ASSUME NEW j \in Nat, j >= 1, j <= i PROVE off2[j] = off[j]
  <2>1. j \in 1 .. n - k + m + 1
    BY <1>1, <1>5
  <2> QED
    BY <1>4, <1>5, <2>1
<1>6. ASSUME NEW j \in Nat, j >= i + m, j <= n - k + m + 1
      PROVE  off2[j] = off[j + k - m] + d
  <2>1. j \in 1 .. n - k + m + 1
    BY <1>1, <1>6
  <2>2. CASE j <= i
    <3>1. m = 0 /\ j = i /\ j + k - m = i + k
      BY <1>1, <1>6, <2>2
    <3>2. d = 0 - (b - a)
      BY <1>1, <1>3, <3>1
    <3>3. off2[j] = a
      BY <1>3, <1>4, <2>1, <2>2, <3>1
    <3> QED
      BY <1>3, <3>1, <3>2, <3>3
  <2>3. CASE ~(j <= i)
    BY <1>4, <2>1, <2>3
  <2> QED
    BY <2>2, <2>3
<1>7. ASSUME m = 1 PROVE off2[i + 1] = off[i] + Len(x)
  <2>1. PICK j : j = i + 1
    OBVIOUS
  <2>2. j \in Nat /\ j >= i + m /\ j <= n - k + m + 1 /\ j + k - m = i + k
    BY <1>1, <1>7, <2>1
  <2>3. off2[j] = b + d
    BY <1>3, <1>6, <2>2
  <2>4. d = Len(x) - (b - a)
    BY <1>3
  <2>5. b + d = a + Len(x)
    <3>1. PICK l : l = Len(x)
      OBVIOUS
    <3>2. l \in Nat /\ a \in Nat /\ b \in Nat /\ d = l - (b - a)
      BY <1>1, <1>3, <2>4, <3>1
    <3>3. b + d = a + l
      BY ONLY <3>2
    <3> QED
      BY <3>1, <3>3
  <2> QED
    BY <1>3, <2>1, <2>3, <2>5
<1>8. DOMAIN off2 = 1 .. n - k + m + 1
  BY DEF Moved
<1> QED
  BY <1>5, <1>6, <1>7, <1>8

\* The entries of a spliced block still follow one another.
LEMMA ChainSpliced ==
  ASSUME NEW n, NEW off, NEW enc, Chained(n, off, enc),
         NEW i, NEW k, NEW m, NEW e, NEW x, Splices(n, i, k, m, e, x)
  PROVE  Chained(n - k + m, Moved(off, n, i, k, m, Len(x) - (off[i + k] - off[i])),
                 Replaced(enc, n, i, k, m, e))
<1> DEFINE d == Len(x) - (off[i + k] - off[i])
<1>1. /\ n \in Nat /\ i \in Nat /\ k \in Nat /\ m \in Nat /\ i >= 1 /\ i + k <= n + 1
      /\ Len(x) \in Nat /\ (m = 0 \/ m = 1) /\ n - k + m \in Nat
  BY SplicesAre DEF Splices
<1>2. i \in 1 .. n + 1 /\ i + k \in 1 .. n + 1
  BY <1>1
<1>3. /\ \A j \in 1 .. n + 1 : off[j] \in Nat /\ off[j] >= LP_HDR_SIZE
      /\ \A j \in 1 .. n + 1 : \A l \in 1 .. n + 1 : j < l => off[j] < off[l]
  BY OffsetsGrow
<1>4. d \in Int /\ off[i] + Len(x) \in Nat
  <2>1. off[i] \in Nat /\ off[i + k] \in Nat
    BY <1>2, <1>3
  <2> QED
    BY <1>1, <2>1
<1>5. PICK off2, enc2, n2 : /\ off2 = Moved(off, n, i, k, m, d)
                            /\ enc2 = Replaced(enc, n, i, k, m, e) /\ n2 = n - k + m
  OBVIOUS
<1>6. d = Len(x) - (off[i + k] - off[i])
  OBVIOUS
<1> HIDE DEF d
<1>7. /\ \A j \in Nat : j >= 1 /\ j <= i => off2[j] = off[j]
      /\ \A j \in Nat : j >= i + m /\ j <= n2 + 1 => off2[j] = off[j + k - m] + d
      /\ DOMAIN off2 = 1 .. n2 + 1
      /\ m = 1 => off2[i + 1] = off[i] + Len(x)
  BY <1>3, <1>4, <1>5, <1>6, MovedIs
<1>8. \A j \in 1 .. n2 : enc2[j] = IF j < i THEN enc[j] ELSE IF j < i + m THEN e ELSE enc[j + k - m]
  BY <1>5 DEF Replaced
<1>9. ASSUME NEW j \in 1 .. n2
      PROVE  WellFormed(enc2[j]) /\ off2[j + 1] = off2[j] + Len(Entry(enc2[j]))
  <2>1. \/ j < i /\ j \in 1 .. n /\ j + 1 <= i
        \/ j = i /\ m = 1
        \/ j >= i + m /\ j + k - m \in 1 .. n /\ j + k - m >= i + k
    BY <1>5, Sources
  <2>2. CASE j < i /\ j \in 1 .. n /\ j + 1 <= i
    <3>1. enc2[j] = enc[j]
      BY <1>8, <2>2
    <3>2. off2[j] = off[j] /\ off2[j + 1] = off[j + 1]
      BY <1>1, <1>7, <2>2
    <3>3. WellFormed(enc[j]) /\ off[j + 1] = off[j] + Len(Entry(enc[j]))
      BY <2>2 DEF Chained
    <3> QED
      BY <3>1, <3>2, <3>3
  <2>3. CASE j = i /\ m = 1
    <3>1. enc2[j] = e
      BY <1>8, <2>3
    <3>2. off2[j] = off[j] /\ off2[j + 1] = off[j] + Len(x)
      BY <1>1, <1>7, <2>3
    <3>3. WellFormed(e) /\ x = Entry(e)
      BY <2>3 DEF Splices
    <3> QED
      BY <3>1, <3>2, <3>3
  <2>4. CASE j >= i + m /\ j + k - m \in 1 .. n /\ j + k - m >= i + k
    <3>1. PICK h : h = j + k - m
      OBVIOUS
    <3>2. h \in 1 .. n /\ (j + 1) + k - m = h + 1 /\ ~(j < i) /\ ~(j < i + m)
      BY <1>1, <2>4, <3>1
    <3>3. enc2[j] = enc[h]
      BY <1>8, <3>1, <3>2
    <3>4. j \in Nat /\ j >= i + m /\ j <= n2 + 1 /\ j + 1 \in Nat /\ j + 1 >= i + m /\ j + 1 <= n2 + 1
      BY <1>1, <1>5, <2>4
    <3>5. off2[j] = off[h] + d
      BY <1>7, <3>1, <3>4
    <3>6. off2[j + 1] = off[h + 1] + d
      BY <1>7, <3>2, <3>4
    <3>7. WellFormed(enc[h]) /\ off[h + 1] = off[h] + Len(Entry(enc[h]))
      BY <3>2 DEF Chained
    <3>8. Len(Entry(enc[h])) \in Nat /\ off[h] \in Nat
      BY <1>1, <1>3, <3>2, <3>7, EntryIs
    <3>9. off[h] + Len(Entry(enc[h])) + d = off[h] + d + Len(Entry(enc[h]))
      BY <1>4, <3>8
    <3> QED
      BY <3>3, <3>5, <3>6, <3>7, <3>9
  <2> QED
    BY <2>1, <2>2, <2>3, <2>4
<1>10. enc2 \in [1 .. n2 -> Seq(Bytes)]
  <2>1. \A j \in 1 .. n2 : enc2[j] \in Seq(Bytes)
    BY <1>9 DEF WellFormed
  <2> QED
    BY <1>5, <2>1 DEF Replaced
<1>11. off2[1] = LP_HDR_SIZE
  BY <1>1, <1>7 DEF Chained
<1>12. off2 \in [1 .. n2 + 1 -> Nat]
  <2>1. ASSUME NEW j \in 1 .. n2 + 1 PROVE off2[j] \in Nat
    <3>1. j <= i \/ j >= i + m
      BY <1>1
    <3>2. CASE j <= i
      <4>1. j \in 1 .. n + 1
        BY <1>1, <3>2
      <4> QED
        BY <1>3, <1>7, <3>2, <4>1
    <3>3. CASE j >= i + m
      <4>1. PICK h : h = j + k - m
        OBVIOUS
      <4>2. h \in 1 .. n + 1 /\ h >= i + k
        BY <1>1, <1>5, <3>3, <4>1
      <4>3. off2[j] = off[h] + d
        BY <1>7, <3>3, <4>1
      <4>4. PICK u, v, w : u = off[i] /\ v = off[i + k] /\ w = off[h]
        OBVIOUS
      <4>5. u \in Nat /\ v \in Nat /\ w \in Nat /\ w >= v
        <5>1. u \in Nat /\ v \in Nat /\ w \in Nat
          BY <1>2, <1>3, <4>2, <4>4
        <5>2. h = i + k \/ off[i + k] < off[h]
          BY <1>1, <1>2, <1>3, <4>2
        <5> QED
          BY <4>4, <5>1, <5>2
      <4>6. d = Len(x) - (v - u)
        BY <1>6, <4>4
      <4>7. w + d \in Nat
        BY <1>1, <4>5, <4>6
      <4> QED
        BY <4>3, <4>4, <4>7
    <3> QED
      BY <3>1, <3>2, <3>3
  <2>2. off2 = [j \in 1 .. n2 + 1 |-> off2[j]]
    BY <1>5 DEF Moved
  <2> QED
    BY <2>1, <2>2
<1>13. Chained(n2, off2, enc2)
  BY <1>1, <1>5, <1>9, <1>10, <1>11, <1>12 DEF Chained
<1> QED
  BY <1>5, <1>13 DEF d

\* What is moved or written is where the new offsets say.
LEMMA BlockSpliced ==
  ASSUME NEW b, NEW n, NEW off, NEW enc, NEW num, Layout(b, n, off, enc, num),
         NEW i, NEW k, NEW m, NEW e, NEW x, Splices(n, i, k, m, e, x),
         NEW c, NEW num2, Changed(c, b, off[i], off[i + k], x, num2), Len(c) <= MaxBytes
  PROVE  Layout(c, n - k + m, Moved(off, n, i, k, m, Len(x) - (off[i + k] - off[i])),
                Replaced(enc, n, i, k, m, e), num2)
<1> DEFINE d == Len(x) - (off[i + k] - off[i])
<1>1. /\ n \in Nat /\ i \in Nat /\ k \in Nat /\ m \in Nat /\ i >= 1 /\ i + k <= n + 1
      /\ Len(x) \in Nat /\ (m = 0 \/ m = 1) /\ n - k + m \in Nat
      /\ i \in 1 .. n + 1 /\ i + k \in 1 .. n + 1
  BY SplicesAre DEF Splices
<1>2. PICK o, r, len, w :
        o = off[i] /\ r = off[i + k] /\ len = Len(b) /\ w = Len(x)
  OBVIOUS
<1>3. /\ \A j \in 1 .. n + 1 : off[j] \in Nat /\ off[j] >= LP_HDR_SIZE
      /\ \A j \in 1 .. n + 1 : \A l \in 1 .. n + 1 : j < l => off[j] < off[l]
      /\ Chained(n, off, enc)
  BY OffsetsGrow DEF Layout
<1>4. /\ b \in Seq(Bytes) /\ len \in Nat /\ len = off[n + 1] + 1
      /\ \A j \in 1 .. n + 1 : off[j] < len
  BY <1>2, Bounds
<1>5. o \in Nat /\ r \in Nat /\ w \in Nat /\ o <= r /\ r < len /\ o >= 6
  <2>1. o \in Nat /\ r \in Nat /\ w \in Nat /\ r < len /\ o >= 6
    BY <1>1, <1>2, <1>3, <1>4 DEF LP_HDR_SIZE
  <2>2. i = i + k \/ off[i] < off[i + k]
    BY <1>1, <1>3
  <2> QED
    BY <1>2, <2>1, <2>2
<1>6. PICK off2, enc2, n2 : /\ off2 = Moved(off, n, i, k, m, d)
                            /\ enc2 = Replaced(enc, n, i, k, m, e) /\ n2 = n - k + m
  OBVIOUS
<1>7. d = w - (r - o) /\ d \in Int /\ d = Len(x) - (off[i + k] - off[i])
  <2>1. d = w - (r - o)
    BY <1>2
  <2> QED
    BY <1>5, <2>1
<1> HIDE DEF d
<1>8. /\ \A j \in Nat : j >= 1 /\ j <= i => off2[j] = off[j]
      /\ \A j \in Nat : j >= i + m /\ j <= n2 + 1 => off2[j] = off[j + k - m] + d
      /\ m = 1 => off2[i + 1] = off[i] + Len(x)
  BY <1>3, <1>6, <1>7, MovedIs
<1>9. \A j \in 1 .. n2 : enc2[j] = IF j < i THEN enc[j] ELSE IF j < i + m THEN e ELSE enc[j + k - m]
  BY <1>6 DEF Replaced
<1>10. /\ c \in Seq(Bytes) /\ Len(c) = len + d
       /\ Of4(c[1], c[2], c[3], c[4]) = Len(c) /\ Of4(c[5], c[6], 0, 0) = num2
       /\ \A j \in 7 .. o : c[j] = b[j]
       /\ \A j \in 1 .. w : c[o + j] = x[j]
       /\ \A j \in 1 .. len - r : c[o + w + j] = b[r + j]
  <2>1. Changed(c, b, o, r, x, num2)
    BY <1>2
  <2>2. LP_HDR_SIZE + 1 = 7
    BY DEF LP_HDR_SIZE
  <2>3. len + w - (r - o) = len + d
    BY <1>4, <1>5, <1>7
  <2> QED
    BY <1>2, <2>1, <2>2, <2>3 DEF Changed
<1>11. ASSUME NEW j \in Nat, j > r, j <= len PROVE c[j + d] = b[j]
  <2>1. PICK y : y = j - r
    OBVIOUS
  <2>2. y \in 1 .. len - r /\ j = r + y /\ j + d = o + w + y
    BY <1>4, <1>5, <1>7, <1>11, <2>1
  <2> QED
    BY <1>10, <2>2
<1>12. ASSUME NEW j \in 1 .. n2 PROVE Holds(c, off2[j], Entry(enc2[j]))
  <2>1. \/ j < i /\ j \in 1 .. n /\ j + 1 <= i
        \/ j = i /\ m = 1
        \/ j >= i + m /\ j + k - m \in 1 .. n /\ j + k - m >= i + k
    BY <1>6, Sources
  <2>2. CASE j < i /\ j \in 1 .. n /\ j + 1 <= i
    <3>1. enc2[j] = enc[j]
      BY <1>9, <2>2
    <3>2. off2[j] = off[j]
      BY <1>1, <1>8, <2>2
    <3>3. WellFormed(enc[j]) /\ off[j + 1] = off[j] + Len(Entry(enc[j]))
      BY <1>3, <2>2 DEF Chained
    <3>4. Len(Entry(enc[j])) \in Nat
      BY <3>3, EntryIs
    <3>5. off[j] \in Nat /\ off[j] >= 6 /\ off[j + 1] <= o /\ off[j + 1] \in Nat
      <4>1. j + 1 \in 1 .. n + 1 /\ j \in 1 .. n + 1 /\ (j + 1 = i \/ j + 1 < i)
        BY <1>1, <2>2
      <4>2. off[j] \in Nat /\ off[j] >= 6 /\ off[j + 1] \in Nat
        BY <1>3, <4>1 DEF LP_HDR_SIZE
      <4>3. j + 1 = i \/ off[j + 1] < off[i]
        BY <1>1, <1>3, <4>1
      <4> QED
        BY <1>2, <1>5, <4>2, <4>3
    <3>6. Holds(b, off[j], Entry(enc[j]))
      BY <2>2 DEF Layout, Filled
    <3>7. ASSUME NEW y \in 1 .. Len(Entry(enc[j])) PROVE c[off[j] + y] = Entry(enc[j])[y]
      <4>1. off[j] + y \in 7 .. o
        BY <1>5, <3>3, <3>4, <3>5
      <4>2. b[off[j] + y] = Entry(enc[j])[y]
        BY <3>6 DEF Holds
      <4> QED
        BY <1>10, <4>1, <4>2
    <3> QED
      BY <3>1, <3>2, <3>7 DEF Holds
  <2>3. CASE j = i /\ m = 1
    <3>1. enc2[j] = e
      BY <1>9, <2>3
    <3>2. off2[j] = o
      BY <1>1, <1>2, <1>8, <2>3
    <3>3. x = Entry(e)
      BY <2>3 DEF Splices
    <3> QED
      BY <1>2, <1>10, <3>1, <3>2, <3>3 DEF Holds
  <2>4. CASE j >= i + m /\ j + k - m \in 1 .. n /\ j + k - m >= i + k
    <3>1. PICK h : h = j + k - m
      OBVIOUS
    <3>2. h \in 1 .. n /\ h >= i + k /\ ~(j < i) /\ ~(j < i + m)
      BY <1>1, <2>4, <3>1
    <3>3. enc2[j] = enc[h]
      BY <1>9, <3>1, <3>2
    <3>4. off2[j] = off[h] + d
      <4>1. j \in Nat /\ j >= i + m /\ j <= n2 + 1
        BY <1>1, <1>6, <2>4
      <4> QED
        BY <1>8, <3>1, <4>1
    <3>5. WellFormed(enc[h]) /\ off[h + 1] = off[h] + Len(Entry(enc[h]))
      BY <1>3, <3>2 DEF Chained
    <3>6. Len(Entry(enc[h])) \in Nat
      BY <3>5, EntryIs
    <3>7. off[h] \in Nat /\ off[h] >= r /\ off[h + 1] < len /\ off[h + 1] \in Nat
      <4>1. h + 1 \in 1 .. n + 1 /\ h \in 1 .. n + 1 /\ (h = i + k \/ i + k < h)
        BY <1>1, <3>2
      <4>2. off[h] \in Nat /\ off[h + 1] < len /\ off[h + 1] \in Nat
        BY <1>3, <1>4, <4>1
      <4>3. h = i + k \/ off[i + k] < off[h]
        BY <1>1, <1>3, <4>1
      <4> QED
        BY <1>2, <1>5, <4>2, <4>3
    <3>8. Holds(b, off[h], Entry(enc[h]))
      BY <3>2 DEF Layout, Filled
    <3>9. ASSUME NEW y \in 1 .. Len(Entry(enc[h])) PROVE c[off[h] + d + y] = Entry(enc[h])[y]
      <4>1. PICK z : z = off[h] + y
        OBVIOUS
      <4>2. z \in Nat /\ z > r /\ z <= len /\ off[h] + d + y = z + d
        <5>1. PICK u, l : u = off[h] /\ l = Len(Entry(enc[h]))
          OBVIOUS
        <5>2. u \in Nat /\ l \in Nat /\ u >= r /\ u + l < len /\ z = u + y /\ y \in 1 .. l
          BY <3>5, <3>6, <3>7, <4>1, <5>1
        <5>3. r \in Nat /\ len \in Nat /\ d \in Int
          BY <1>4, <1>5, <1>7
        <5>4. z \in Nat /\ z > r /\ z <= len /\ u + d + y = z + d
          BY ONLY <5>2, <5>3
        <5> QED
          BY <5>1, <5>4
      <4>3. b[z] = Entry(enc[h])[y]
        BY <3>8, <4>1 DEF Holds
      <4> QED
        BY <1>11, <4>2, <4>3
    <3> QED
      BY <3>3, <3>4, <3>9 DEF Holds
  <2> QED
    BY <2>1, <2>2, <2>3, <2>4
<1>13. off2[n2 + 1] = off[n + 1] + d
  <2>1. n2 + 1 \in Nat /\ n2 + 1 >= i + m /\ (n2 + 1) + k - m = n + 1
    BY <1>1, <1>6
  <2> QED
    BY <1>8, <2>1
<1>14. Len(c) = off2[n2 + 1] + 1 /\ c[off2[n2 + 1] + 1] = LP_EOF
  <2>1. PICK q : q = off[n + 1]
    OBVIOUS
  <2>2. q \in Nat /\ len = q + 1 /\ q >= r
    <3>1. n + 1 \in 1 .. n + 1
      BY <1>1
    <3>2. q \in Nat /\ len = q + 1
      BY <1>3, <1>4, <2>1, <3>1
    <3> QED
      BY <1>5, <3>2
  <2>3. Len(c) = q + d + 1 /\ len + d = q + d + 1
    BY <1>7, <1>10, <2>2
  <2>4. b[q + 1] = LP_EOF
    BY <2>1 DEF Layout, Filled
  <2>5. c[len + d] = b[len]
    BY <1>4, <1>5, <1>11
  <2> QED
    BY <1>13, <2>1, <2>2, <2>3, <2>4, <2>5
<1>15. Filled(c, n2, off2, enc2)
  BY <1>12, <1>14 DEF Filled
<1>16. Chained(n2, off2, enc2)
  BY <1>3, <1>6, <1>7, ChainSpliced
<1>17. Headed(c, num2)
  <2>1. len \in Nat /\ o \in Nat /\ r \in Nat /\ w \in Nat /\ r < len /\ o >= 6 /\ d = w - (r - o)
    BY <1>4, <1>5, <1>7, Zenon
  <2>2. Len(c) = len + d
    BY <1>10, Zenon
  <2>3. Len(c) >= 7
    BY ONLY <2>1, <2>2
  <2> QED
    BY <1>10, <2>3 DEF Headed, LP_HDR_SIZE
<1>18. Layout(c, n2, off2, enc2, num2)
  BY <1>15, <1>16, <1>17 DEF Layout
<1> QED
  BY <1>6, <1>18 DEF d

-------------------------------------------------------------------------------
\* The invariant.

\* What the history may hold.
Texts == {x.text : x \in Elements}

\* The header knows the number n of entries, or knows that it does not.
NumOk(num, n) == num = NumEleUnknown \/ (num = n /\ n < NumEleUnknown)

\* The block holds the elements, the i-th as enc[i] at off[i], and the pointer is
\* where the history says.
Holding(off, enc, num) ==
  /\ Layout(lp, Len(elems), off, enc, num) /\ NumOk(num, Len(elems))
  /\ \A i \in 1 .. Len(elems) : Stores(elems[i], enc[i])
  /\ cur = IF pos = 0 THEN NULL ELSE off[pos]

\* The inductive invariant: the block is laid out as the history says.
LPInv ==
  /\ elems \in Seq(Texts) /\ pos \in 0 .. Len(elems)
  /\ \E off, enc, num : Holding(off, enc, num)

\* The number of elements fits into its field.
LEMMA NumFits ==
  ASSUME NEW n \in Nat, NEW num, NumOk(num, n)
  PROVE  num \in Int /\ FitsHalf(num)
<1>1. NumEleUnknown \in Nat /\ NumEleUnknown < 65536
  BY ListPackAssumption, SMT
<1> QED
  BY <1>1, SMT DEF NumOk, FitsHalf

\* The header carried through a call still counts the entries, or does not know.
LEMMA NewNumIs ==
  ASSUME NEW n \in Nat, NumOk(NumElements, n), NEW d \in Int, d <= 1, n + d >= 0
  PROVE  NumOk(NewNumElements(d), n + d)
<1>1. NumEleUnknown \in Nat
  BY ListPackAssumption, SMT
<1> QED
  BY <1>1 DEF NumOk, NewNumElements

\* Spliced with a new header changes the block between o and o + n.
LEMMA SplicedIs ==
  ASSUME lp \in Seq(Bytes), NEW o \in Nat, o >= LP_HDR_SIZE, NEW n \in Nat, o + n <= Len(lp),
         NEW x \in Seq(Bytes), NEW total, total = Len(lp) + Len(x) - n, Fits32(total),
         NEW num, FitsHalf(num)
  PROVE  Changed(Header(total, num) \o Spliced(o, n, x), lp, o, o + n, x, num)
<1>1. PICK r : r = o + n
  BY Zenon
<1>2. r \in Nat /\ o <= r /\ r <= Len(lp) /\ r - o = n /\ Len(lp) \in Nat /\ Len(x) \in Nat
  BY <1>1
<1>3. total = Len(lp) + Len(x) - (r - o)
  BY <1>2
<1>4. PICK b : b = lp
  BY Zenon
<1>5. Changed(Header(total, num)
                \o (SubSeq(b, LP_HDR_SIZE + 1, o) \o x \o SubSeq(b, r + 1, Len(b))),
              b, o, r, x, num)
  <2>1. /\ b \in Seq(Bytes) /\ o \in Nat /\ r \in Nat /\ x \in Seq(Bytes)
        /\ o >= LP_HDR_SIZE /\ o <= r /\ r <= Len(b)
        /\ total = Len(b) + Len(x) - (r - o) /\ Fits32(total) /\ FitsHalf(num)
    BY <1>2, <1>3, <1>4
  <2> QED
    BY ONLY <2>1, ChangedIs, Zenon
<1>6. Spliced(o, n, x) = SubSeq(b, LP_HDR_SIZE + 1, o) \o x \o SubSeq(b, r + 1, Len(b))
  BY <1>1, <1>4, Zenon DEF Spliced
<1> QED
  BY <1>1, <1>4, <1>5, <1>6, Zenon

\* Only at the end does LP_EOF stand.
LEMMA EofIsAtEnd ==
  ASSUME NEW b, NEW n, NEW off, NEW enc, NEW num, Layout(b, n, off, enc, num),
         NEW i \in 1 .. n + 1
  PROVE  b[off[i] + 1] = LP_EOF <=> i = n + 1
<1>1. n \in Nat
  BY Bounds
<1>2. CASE i = n + 1
  BY <1>2 DEF Layout, Filled
<1>3. CASE i # n + 1
  <2>1. i \in 1 .. n
    BY <1>1, <1>3
  <2>2. WellFormed(enc[i]) /\ Holds(b, off[i], Entry(enc[i]))
    BY <2>1 DEF Layout, Chained, Filled
  <2>3. 1 \in 1 .. Len(enc[i]) /\ 1 \in 1 .. Len(Entry(enc[i])) /\ Entry(enc[i])[1] = enc[i][1]
    BY <2>2, EntryIs
  <2>4. b[off[i] + 1] = enc[i][1]
    BY <2>2, <2>3 DEF Holds
  <2>5. enc[i][1] # LP_EOF
    <3>1. enc[i][1] \in Nat
      BY <2>2, <2>3, BytesAre, ElementOfSeq DEF WellFormed
    <3>2. PICK y \in Nat : y = enc[i][1]
      BY <3>1
    <3> QED
      BY <2>2, <3>2 DEF WellFormed, SizeSays, LP_EOF
  <2> QED
    BY <1>3, <2>4, <2>5
<1> QED
  BY <1>2, <1>3

-------------------------------------------------------------------------------
\* What the calls do to the history.

\* The sequence r is s with the k elements from the i-th on replaced.
IsReplaced(S, r, s, i, k, m, y) ==
  /\ r \in Seq(S) /\ Len(r) = Len(s) - k + m
  /\ \A j \in 1 .. Len(r) : r[j] = Replaced(s, Len(s), i, k, m, y)[j]

\* What lies before the i-th element.
LEMMA FrontOf ==
  ASSUME NEW S, NEW s \in Seq(S), NEW i \in 1 .. Len(s) + 1
  PROVE  /\ SubSeq(s, 1, i - 1) \in Seq(S) /\ Len(SubSeq(s, 1, i - 1)) = i - 1
         /\ \A j \in 1 .. i - 1 : SubSeq(s, 1, i - 1)[j] = s[j]
<1>1. Len(s) \in Nat /\ \A j \in 1 .. Len(s) : s[j] \in S
  BY ElementOfSeq
<1>2. PICK m : m = i - 1
  BY Zenon
<1>3. m \in Nat /\ m <= Len(s)
  BY <1>1, <1>2
<1>4. \A j \in 1 .. m : s[j] \in S
  BY <1>1, <1>3
<1>5. /\ SubSeq(s, 1, m) \in Seq(S) /\ Len(SubSeq(s, 1, m)) = IF 1 <= m THEN m - 1 + 1 ELSE 0
      /\ \A j \in 1 .. m - 1 + 1 : SubSeq(s, 1, m)[j] = s[1 + j - 1]
  BY <1>3, <1>4, SubSeqProperties
<1>6. PICK f : f = SubSeq(s, 1, m)
  BY Zenon
<1>7. f \in Seq(S) /\ Len(f) = m /\ \A j \in 1 .. m : f[j] = s[j]
  <2>1. \A j \in 1 .. m : j \in 1 .. m - 1 + 1 /\ 1 + j - 1 = j
    BY <1>3
  <2> QED
    BY <1>3, <1>5, <1>6, <2>1
<1> QED
  BY <1>2, <1>6, <1>7, Zenon

\* What lies from the i-th element on.
LEMMA BackOf ==
  ASSUME NEW S, NEW s \in Seq(S), NEW i \in Nat, i >= 1
  PROVE  /\ SubSeq(s, i, Len(s)) \in Seq(S)
         /\ Len(SubSeq(s, i, Len(s))) = IF i <= Len(s) THEN Len(s) - i + 1 ELSE 0
         /\ \A j \in 1 .. Len(s) - i + 1 : SubSeq(s, i, Len(s))[j] = s[i + j - 1]
<1>1. Len(s) \in Nat /\ \A j \in 1 .. Len(s) : s[j] \in S
  BY ElementOfSeq
<1>2. PICK n : n = Len(s)
  BY Zenon
<1>3. \A j \in i .. n : s[j] \in S
  BY <1>1, <1>2
<1>4. /\ SubSeq(s, i, n) \in Seq(S) /\ Len(SubSeq(s, i, n)) = IF i <= n THEN n - i + 1 ELSE 0
      /\ \A j \in 1 .. n - i + 1 : SubSeq(s, i, n)[j] = s[i + j - 1]
  BY <1>1, <1>2, <1>3, SubSeqProperties
<1> QED
  BY <1>2, <1>4, Zenon

\* InsertAt as a replacement of nothing by one element.
LEMMA InsertedIs ==
  ASSUME NEW S, NEW s \in Seq(S), NEW i \in 1 .. Len(s) + 1, NEW t \in S
  PROVE  IsReplaced(S, InsertAt(s, i, t), s, i, 0, 1, t)
<1>1. PICK f : f = SubSeq(s, 1, i - 1)
  BY Zenon
<1>2. PICK b : b = SubSeq(s, i, Len(s))
  BY Zenon
<1>3. PICK n : n = Len(s)
  BY Zenon
<1>4. n \in Nat /\ i \in Nat /\ i >= 1 /\ i <= n + 1
  BY <1>3
<1>5. f \in Seq(S) /\ Len(f) = i - 1 /\ \A j \in 1 .. i - 1 : f[j] = s[j]
  BY <1>1, FrontOf
<1>6. b \in Seq(S) /\ Len(b) = n - i + 1 /\ \A j \in 1 .. n - i + 1 : b[j] = s[i + j - 1]
  <2>1. /\ b \in Seq(S) /\ Len(b) = IF i <= Len(s) THEN Len(s) - i + 1 ELSE 0
        /\ \A j \in 1 .. Len(s) - i + 1 : b[j] = s[i + j - 1]
    BY <1>2, <1>4, BackOf
  <2> QED
    BY <1>3, <1>4, <2>1
<1>7. <<t>> \in Seq(S) /\ Len(<<t>>) = 1 /\ <<t>>[1] = t
  OBVIOUS
<1>8. PICK y : y = <<t>>
  BY Zenon
<1>9. PICK p : p = f \o y
  BY Zenon
<1>10. PICK r : r = p \o b
  BY Zenon
<1>11. p \in Seq(S) /\ Len(p) = i /\ (\A j \in 1 .. i - 1 : p[j] = s[j]) /\ p[i] = t
  <2>1. Joins(S, f \o y, f, y)
    BY <1>5, <1>7, <1>8, TwoParts, Zenon
  <2>2. Joins(S, p, f, y)
    BY <1>9, <2>1, Zenon
  <2>3. /\ p \in Seq(S) /\ Len(p) = Len(f) + Len(y) /\ \A j \in 1 .. Len(f) : p[j] = f[j]
        /\ \A j \in 1 .. Len(y) : p[Len(f) + j] = y[j]
    BY ONLY <2>2 DEF Joins
  <2>4. Len(y) = 1 /\ y[1] = t
    BY <1>7, <1>8
  <2>5. p[Len(f) + 1] = t /\ Len(f) + 1 = i
    BY <1>4, <1>5, <2>3, <2>4
  <2> QED
    BY <1>4, <1>5, <2>3, <2>4, <2>5
<1>12. /\ r \in Seq(S) /\ Len(r) = n + 1 /\ \A j \in 1 .. i : r[j] = p[j]
       /\ \A j \in 1 .. n - i + 1 : r[i + j] = b[j]
  <2>1. Joins(S, p \o b, p, b)
    BY <1>6, <1>11, TwoParts, Zenon
  <2>2. Joins(S, r, p, b)
    BY <1>10, <2>1, Zenon
  <2>3. /\ r \in Seq(S) /\ Len(r) = Len(p) + Len(b) /\ \A j \in 1 .. Len(p) : r[j] = p[j]
        /\ \A j \in 1 .. Len(b) : r[Len(p) + j] = b[j]
    BY ONLY <2>2 DEF Joins
  <2> QED
    BY <1>4, <1>6, <1>11, <2>3
<1>13. ASSUME NEW j \in 1 .. n + 1
       PROVE  r[j] = IF j < i THEN s[j] ELSE IF j < i + 1 THEN t ELSE s[j + 0 - 1]
  <2>1. CASE j < i
    <3>1. j \in 1 .. i /\ j \in 1 .. i - 1
      BY <1>4, <2>1
    <3> QED
      BY <1>11, <1>12, <2>1, <3>1
  <2>2. CASE j = i
    BY <1>4, <1>11, <1>12, <2>2
  <2>3. CASE j > i
    <3>1. PICK h : h = j - i
      BY Zenon
    <3>2. h \in 1 .. n - i + 1 /\ i + h = j /\ i + h - 1 = j + 0 - 1 /\ ~(j < i) /\ ~(j < i + 1)
      BY <1>4, <2>3, <3>1
    <3>3. r[i + h] = b[h] /\ b[h] = s[i + h - 1]
      BY <1>6, <1>12, <3>2
    <3> QED
      BY <3>2, <3>3
  <2> QED
    BY <1>4, <2>1, <2>2, <2>3
<1>14. IsReplaced(S, r, s, i, 0, 1, t)
  <2>1. n - 0 + 1 = n + 1
    BY <1>4
  <2> QED
    BY <1>3, <1>12, <1>13, <2>1 DEF IsReplaced, Replaced
<1>15. InsertAt(s, i, t) = r
  BY <1>1, <1>2, <1>8, <1>9, <1>10, Zenon DEF InsertAt
<1> QED
  BY <1>14, <1>15, Zenon

\* An update as a replacement of one element by one.
LEMMA ExceptIs ==
  ASSUME NEW S, NEW s \in Seq(S), NEW i \in 1 .. Len(s), NEW t \in S
  PROVE  IsReplaced(S, [s EXCEPT ![i] = t], s, i, 1, 1, t)
<1>1. PICK r : r = [s EXCEPT ![i] = t]
  BY Zenon
<1>2. Len(s) \in Nat /\ Len(s) - 1 + 1 = Len(s)
  OBVIOUS
<1>3. r \in Seq(S) /\ Len(r) = Len(s)
  BY <1>1
<1>4. \A j \in 1 .. Len(s) : r[j] = IF j = i THEN t ELSE s[j]
  BY <1>1
<1>5. ASSUME NEW j \in 1 .. Len(s)
      PROVE  r[j] = IF j < i THEN s[j] ELSE IF j < i + 1 THEN t ELSE s[j + 1 - 1]
  BY <1>4
<1>6. IsReplaced(S, r, s, i, 1, 1, t)
  BY <1>2, <1>3, <1>5 DEF IsReplaced, Replaced
<1> QED
  BY <1>1, <1>6, Zenon

\* A deletion of up to d elements as a replacement by nothing.
LEMMA CutIs ==
  ASSUME NEW S, NEW s \in Seq(S), NEW i \in 1 .. Len(s), NEW d \in Nat, d >= 1,
         NEW k, k = (IF i + d <= Len(s) + 1 THEN d ELSE Len(s) + 1 - i), NEW t
  PROVE  IsReplaced(S, SubSeq(s, 1, i - 1) \o SubSeq(s, i + d, Len(s)), s, i, k, 0, t)
<1>1. PICK f : f = SubSeq(s, 1, i - 1)
  BY Zenon
<1>2. PICK b : b = SubSeq(s, i + d, Len(s))
  BY Zenon
<1>3. PICK n : n = Len(s)
  BY Zenon
<1>4. /\ n \in Nat /\ i \in Nat /\ i >= 1 /\ i <= n /\ k \in Nat /\ k >= 1 /\ i + k <= n + 1
      /\ (k = d \/ (i + d > n + 1 /\ i + k = n + 1)) /\ d >= k
  BY <1>3
<1>5. f \in Seq(S) /\ Len(f) = i - 1 /\ \A j \in 1 .. i - 1 : f[j] = s[j]
  <2>1. i \in 1 .. Len(s) + 1
    BY <1>3, <1>4
  <2> QED
    BY <1>1, <2>1, FrontOf
<1>6. b \in Seq(S) /\ Len(b) = n + 1 - i - k /\ \A j \in 1 .. n + 1 - i - k : b[j] = s[i + k + j - 1]
  <2>1. /\ b \in Seq(S) /\ Len(b) = IF i + d <= Len(s) THEN Len(s) - (i + d) + 1 ELSE 0
        /\ \A j \in 1 .. Len(s) - (i + d) + 1 : b[j] = s[i + d + j - 1]
    <3>1. i + d \in Nat /\ i + d >= 1
      BY <1>4
    <3> QED
      BY <1>2, <3>1, BackOf
  <2>2. CASE k = d
    <3>1. n - (i + d) + 1 = n + 1 - i - k /\ (i + d <= n \/ n + 1 - i - k = 0)
      BY ONLY <1>4, <2>2
    <3>2. b \in Seq(S) /\ Len(b) = n + 1 - i - k
      BY <1>3, <1>4, <2>1, <3>1
    <3>3. \A j \in 1 .. n + 1 - i - k : b[j] = s[i + d + j - 1]
      BY ONLY <1>3, <2>1, <3>1
    <3> QED
      BY ONLY <2>2, <3>2, <3>3
  <2>3. CASE i + d > n + 1 /\ i + k = n + 1
    <3>1. n + 1 - i - k = 0 /\ ~(i + d <= n)
      BY ONLY <1>4, <2>3, d \in Nat
    <3>2. PICK w : w = n + 1 - i - k
      BY Zenon
    <3>3. w = 0
      BY <3>1, <3>2
    <3>4. \A j \in 1 .. w : FALSE
      BY ONLY <3>3
    <3>5. b \in Seq(S) /\ Len(b) = 0
      BY ONLY <1>3, <2>1, <3>1
    <3> QED
      BY ONLY <3>2, <3>3, <3>4, <3>5
  <2> QED
    BY <1>4, <2>2, <2>3
<1>7. PICK r : r = f \o b
  BY Zenon
<1>8. /\ r \in Seq(S) /\ Len(r) = n - k /\ \A j \in 1 .. i - 1 : r[j] = s[j]
      /\ \A j \in 1 .. n + 1 - i - k : r[i - 1 + j] = s[i + k + j - 1]
  <2>1. Joins(S, f \o b, f, b)
    BY <1>5, <1>6, TwoParts, Zenon
  <2>2. Joins(S, r, f, b)
    BY <1>7, <2>1, Zenon
  <2>3. /\ r \in Seq(S) /\ Len(r) = Len(f) + Len(b) /\ \A j \in 1 .. Len(f) : r[j] = f[j]
        /\ \A j \in 1 .. Len(b) : r[Len(f) + j] = b[j]
    BY ONLY <2>2 DEF Joins
  <2>4. i - 1 + (n + 1 - i - k) = n - k
    BY <1>4
  <2> QED
    BY <1>5, <1>6, <2>3, <2>4, ZenonT(30)
<1>9. ASSUME NEW j \in 1 .. n - k
      PROVE  r[j] = IF j < i THEN s[j] ELSE IF j < i + 0 THEN t ELSE s[j + k - 0]
  <2>1. CASE j < i
    <3>1. j \in 1 .. i - 1
      BY <1>4, <2>1
    <3> QED
      BY <1>8, <2>1, <3>1
  <2>2. CASE ~(j < i)
    <3>1. PICK h : h = j - i + 1
      BY Zenon
    <3>2. /\ h \in 1 .. n + 1 - i - k /\ i - 1 + h = j /\ i + k + h - 1 = j + k - 0
          /\ ~(j < i + 0)
      BY ONLY <1>4, <2>2, <3>1, j \in 1 .. n - k
    <3>3. r[i - 1 + h] = s[i + k + h - 1]
      BY <1>8, <3>2
    <3> QED
      BY <2>2, <3>2, <3>3
  <2> QED
    BY <2>1, <2>2
<1>10. IsReplaced(S, r, s, i, k, 0, t)
  <2>1. n - k + 0 = n - k
    BY <1>4
  <2> QED
    BY <1>3, <1>8, <1>9, <2>1 DEF IsReplaced, Replaced
<1> QED
  BY <1>1, <1>2, <1>7, <1>10, Zenon

-------------------------------------------------------------------------------
\* A step that splices the block and the history alike keeps the invariant.
LEMMA StepHolds ==
  ASSUME elems \in Seq(Texts), NEW off, NEW enc, NEW num, Holding(off, enc, num),
         NEW i, NEW k, NEW m, NEW e, NEW x, Splices(Len(elems), i, k, m, e, x),
         NEW num2, Changed(lp', lp, off[i], off[i + k], x, num2), Len(lp') <= MaxBytes,
         NumOk(num2, Len(elems) - k + m),
         NEW t, IsReplaced(Texts, elems', elems, i, k, m, t), m = 1 => Stores(t, e),
         pos' \in 0 .. Len(elems'),
         cur' = IF pos' = 0 THEN NULL
                ELSE Moved(off, Len(elems), i, k, m, Len(x) - (off[i + k] - off[i]))[pos']
  PROVE  LPInv'
<1>1. PICK n : n = Len(elems)
  BY Zenon
<1>2. PICK off2 : off2 = Moved(off, n, i, k, m, Len(x) - (off[i + k] - off[i]))
  BY Zenon
<1>3. PICK enc2 : enc2 = Replaced(enc, n, i, k, m, e)
  BY Zenon
<1>4. PICK b : b = lp
  BY Zenon
<1>5. PICK c : c = lp'
  BY Zenon
<1>6. Layout(b, n, off, enc, num) /\ \A j \in 1 .. n : Stores(elems[j], enc[j])
  BY <1>1, <1>4 DEF Holding
<1>7. Splices(n, i, k, m, e, x) /\ Changed(c, b, off[i], off[i + k], x, num2) /\ Len(c) <= MaxBytes
  BY <1>1, <1>4, <1>5, Zenon
<1>8. Layout(c, n - k + m, off2, enc2, num2)
  BY <1>2, <1>3, <1>6, <1>7, BlockSpliced, Zenon
<1>9. PICK r : r = elems'
  BY Zenon
<1>10. PICK s : s = elems
  BY Zenon
<1>11. r \in Seq(Texts) /\ Len(r) = n - k + m /\ \A j \in 1 .. n - k + m : r[j] = Replaced(s, n, i, k, m, t)[j]
  <2>1. IsReplaced(Texts, r, s, i, k, m, t) /\ n = Len(s)
    BY <1>1, <1>9, <1>10, Zenon
  <2> QED
    BY ONLY <2>1 DEF IsReplaced
<1>12. ASSUME NEW j \in 1 .. n - k + m
       PROVE  Stores(r[j], enc2[j])
  <2>1. r[j] = IF j < i THEN s[j] ELSE IF j < i + m THEN t ELSE s[j + k - m]
    BY ONLY <1>11, j \in 1 .. n - k + m DEF Replaced
  <2>2. enc2[j] = IF j < i THEN enc[j] ELSE IF j < i + m THEN e ELSE enc[j + k - m]
    BY ONLY <1>3, j \in 1 .. n - k + m DEF Replaced
  <2>3. \/ j < i /\ j \in 1 .. n /\ j + 1 <= i
        \/ j = i /\ m = 1
        \/ j >= i + m /\ j + k - m \in 1 .. n /\ j + k - m >= i + k
    BY <1>7, Sources, Zenon
  <2>4. \A h \in 1 .. n : Stores(s[h], enc[h])
    BY <1>6, <1>10, Zenon
  <2>5. i \in Nat /\ (m = 0 \/ m = 1) /\ j \in Int
    BY <1>7 DEF Splices
  <2>6. CASE j < i /\ j \in 1 .. n
    BY <2>1, <2>2, <2>4, <2>6
  <2>7. CASE j = i /\ m = 1
    <3>1. ~(j < i) /\ j < i + m
      BY ONLY <2>5, <2>7
    <3> QED
      BY <2>1, <2>2, <2>7, <3>1
  <2>8. CASE j >= i + m /\ j + k - m \in 1 .. n
    <3>1. ~(j < i) /\ ~(j < i + m)
      BY ONLY <2>5, <2>8
    <3> QED
      BY <2>1, <2>2, <2>4, <2>8, <3>1
  <2> QED
    BY <2>3, <2>6, <2>7, <2>8
<1>13. Layout(lp', Len(elems'), off2, enc2, num2) /\ NumOk(num2, Len(elems'))
  BY <1>1, <1>5, <1>8, <1>9, <1>11, Zenon
<1>14. \A j \in 1 .. Len(elems') : Stores(elems'[j], enc2[j])
  BY <1>9, <1>11, <1>12, Zenon
<1>15. cur' = IF pos' = 0 THEN NULL ELSE off2[pos']
  BY <1>1, <1>2, Zenon
<1>16. Holding(off2, enc2, num2)'
  BY <1>13, <1>14, <1>15, Zenon DEF Holding
<1>17. elems' \in Seq(Texts)
  BY <1>9, <1>11, Zenon
<1> QED
  BY <1>16, <1>17, Zenon DEF LPInv

\* The pointer a call gives back is at what follows the splice, if that is not the end.
LEMMA PointerIs ==
  ASSUME NEW b, NEW n, NEW off, NEW enc, NEW num, Layout(b, n, off, enc, num),
         NEW i, NEW k, NEW m, NEW e, NEW x, Splices(n, i, k, m, e, x),
         NEW c, NEW num2, Changed(c, b, off[i], off[i + k], x, num2), Len(c) <= MaxBytes
  PROVE  PointerTo(off[i], c) = IF i = n - k + m + 1 THEN NULL ELSE off[i]
<1>1. /\ n \in Nat /\ i \in Nat /\ i >= 1 /\ k \in Nat /\ (m = 0 \/ m = 1) /\ i + k <= n + 1
      /\ Len(x) \in Nat
  BY SplicesAre DEF Splices
<1>2. \A j \in 1 .. n + 1 : off[j] \in Nat
  BY Bounds
<1>3. PICK d : d = Len(x) - (off[i + k] - off[i])
  BY Zenon
<1>4. PICK off2 : off2 = Moved(off, n, i, k, m, d)
  BY Zenon
<1>5. PICK n2, enc2 : n2 = n - k + m /\ enc2 = Replaced(enc, n, i, k, m, e)
  BY Zenon
<1>6. Layout(c, n2, off2, enc2, num2)
  BY <1>3, <1>4, <1>5, BlockSpliced
<1>7. off2[i] = off[i]
  <2>1. i \in 1 .. n - k + m + 1
    BY <1>1
  <2> QED
    BY <1>1, <1>4, <2>1 DEF Moved
<1>8. i \in 1 .. n2 + 1
  BY <1>1, <1>5
<1>9. c[off2[i] + 1] = LP_EOF <=> i = n2 + 1
  BY <1>6, <1>8, EofIsAtEnd
<1> QED
  BY <1>5, <1>7, <1>9, Zenon DEF PointerTo

\* The arguments of lpInsert that have k entries of n, from the i-th on, give way to m.
Inserts(n, e, i, replace, newp, k, m) ==
  /\ replace \in BOOLEAN /\ newp \in BOOLEAN
  /\ k = (IF replace THEN 1 ELSE 0) /\ m = (IF e = <<>> THEN 0 ELSE 1)
  /\ i \in 1 .. n + 1 - k /\ (m = 0 => replace)
  /\ e \in Seq(Bytes) /\ (m = 1 /\ Fits32(Len(e)) => WellFormed(e))

\* What the call then does to the block, its header and the pointer.
Inserted(n, off, e, i, newp, k, m) ==
  \E x, num2 :
    /\ Splices(n, i, k, m, e, x)
    /\ Changed(lp', lp, off[i], off[i + k], x, num2) /\ Len(lp') <= MaxBytes
    /\ NumOk(num2, n - k + m)
    /\ cur' = IF newp /\ i # n - k + m + 1 THEN off[i] ELSE NULL

\* What lpInsert does to a block that is laid out.
LEMMA InsertIs ==
  ASSUME NEW n, NEW off, NEW enc, NEW num, Layout(lp, n, off, enc, num), NumOk(num, n),
         NEW e, NEW i, NEW replace, NEW newp, NEW k, NEW m,
         Inserts(n, e, i, replace, newp, k, m), LpInsert(e, off[i], replace, newp)
  PROVE  Inserted(n, off, e, i, newp, k, m)
<1>0. /\ replace \in BOOLEAN /\ newp \in BOOLEAN
      /\ k = (IF replace THEN 1 ELSE 0) /\ m = (IF e = <<>> THEN 0 ELSE 1)
      /\ i \in 1 .. n + 1 - k /\ (m = 0 => replace)
      /\ e \in Seq(Bytes) /\ (m = 1 /\ Fits32(Len(e)) => WellFormed(e))
  BY Zenon DEF Inserts
<1>1. PICK x : x = IF e = <<>> THEN <<>> ELSE Entry(e)
  BY Zenon
<1>2. PICK w : w = Len(x)
  BY Zenon
<1>3. /\ n \in Nat /\ i \in Nat /\ i >= 1 /\ k \in Nat /\ m \in Nat /\ i + k <= n + 1
      /\ (k = 0 \/ k = 1) /\ (m = 0 \/ m = 1) /\ (m = 0 => k = 1)
  <2>1. n \in Nat
    BY Bounds
  <2> QED
    BY <1>0, <2>1
<1>4. PICK q : q = IF replace THEN EntrySize(off[i]) ELSE 0
  BY Zenon
<1>5. /\ lp \in Seq(Bytes) /\ Len(lp) \in Nat
      /\ \A j \in 1 .. n + 1 : off[j] \in Nat /\ off[j] >= LP_HDR_SIZE /\ off[j] < Len(lp)
  BY Bounds
<1>6. i \in 1 .. n + 1 /\ i + k \in 1 .. n + 1
  BY <1>3
<1>7. PICK o, r : o = off[i] /\ r = off[i + k]
  BY Zenon
<1>8. /\ o \in Nat /\ r \in Nat /\ o >= LP_HDR_SIZE /\ r < Len(lp)
  BY <1>5, <1>6, <1>7
<1>9. q = r - o /\ q \in Nat
  <2>1. CASE replace
    <3>1. i \in 1 .. n /\ k = 1
      BY <1>0, <1>3, <2>1
    <3>2. EntrySize(off[i]) = off[i + 1] - off[i]
      BY <3>1, EntryReads
    <3>3. q = r - o
      BY <1>4, <1>7, <2>1, <3>1, <3>2
    <3>4. i + 1 \in 1 .. n + 1 /\ i < i + 1
      BY <1>3, <3>1
    <3>5. WellFormed(enc[i]) /\ off[i + 1] = off[i] + Len(Entry(enc[i]))
      BY <3>1 DEF Layout, Chained
    <3>6. Len(Entry(enc[i])) \in Nat
      BY <3>5, EntryIs
    <3> QED
      BY <1>7, <1>8, <3>1, <3>3, <3>5, <3>6, SMTT(30)
  <2>2. CASE ~replace
    <3>1. q = 0 /\ k = 0 /\ i + 0 = i
      BY <1>0, <1>3, <1>4, <2>2
    <3> QED
      BY <1>7, <1>8, <3>1
  <2> QED
    BY <2>1, <2>2
<1>10. x \in Seq(Bytes) /\ w \in Nat /\ (m = 1 => x = Entry(e) /\ Len(e) \in Nat /\ Len(e) <= w) /\ (m = 0 => x = <<>>)
  <2>1. CASE e = <<>>
    BY <1>0, <1>1, <1>2, <2>1
  <2>2. CASE e # <<>>
    <3>1. PICK y : y = EncodeBacklen(Len(e))
      BY Zenon
    <3>2. y \in Seq(Bytes) /\ Len(e) \in Nat
      BY <1>0, <3>1, BacklenType
    <3>3. x = e \o y
      BY <1>1, <2>2, <3>1, Zenon DEF Entry
    <3>4. Joins(Bytes, x, e, y)
      BY <1>0, <3>2, <3>3, TwoParts, Zenon
    <3>5. x \in Seq(Bytes) /\ Len(x) = Len(e) + Len(y) /\ Len(y) \in Nat
      BY ONLY <3>2, <3>4 DEF Joins
    <3>6. w \in Nat /\ Len(e) <= w
      BY <1>2, <3>2, <3>5
    <3> QED
      BY <1>0, <1>1, <2>2, <3>2, <3>5, <3>6
  <2> QED
    BY <2>1, <2>2
<1>11. TotalBytes = Len(lp) /\ NumElements = num
  BY HeaderReads
<1>12. PICK total : total = Len(lp) + w - q
  BY Zenon
<1>13. PICK num2 : num2 = IF e = <<>> THEN NewNumElements(-1)
                          ELSE IF replace THEN NumElements ELSE NewNumElements(1)
  BY Zenon
<1>14. /\ total <= MaxBytes
       /\ lp' = Header(total, num2) \o Spliced(o, q, x)
       /\ cur' = IF newp THEN PointerTo(o, lp') ELSE NULL
  <2>1. x = IF e = <<>> THEN <<>> ELSE e \o EncodeBacklen(Len(e))
    BY <1>1, Zenon DEF Entry
  <2>2. TotalBytes + Len(x) - q = total
    BY <1>2, <1>11, <1>12, Zenon
  <2>3. /\ TotalBytes + Len(x) - q <= MaxBytes
        /\ lp' = Header(TotalBytes + Len(x) - q, num2) \o Spliced(o, q, x)
        /\ cur' = IF newp THEN PointerTo(o, lp') ELSE NULL
    BY <1>4, <1>7, <1>13, <2>1, Zenon DEF LpInsert, NewTotal
  <2> QED
    BY <2>2, <2>3, Zenon
<1>15. total \in Nat /\ total >= w /\ o + q = r /\ r <= Len(lp) /\ o + q <= Len(lp)
  BY <1>5, <1>8, <1>9, <1>10, <1>12
<1>16. Fits32(total)
  BY <1>14, <1>15, MaxBytesFits, Fits32Below, Zenon
<1>17. Splices(n, i, k, m, e, x)
  <2>1. m = 1 => WellFormed(e)
    <3>1. m = 1 => Len(e) \in Nat /\ Len(e) <= total
      BY <1>0, <1>10, <1>15
    <3> QED
      BY <1>0, <1>16, <3>1, Fits32Below, Zenon
  <2> QED
    BY <1>3, <1>10, <2>1 DEF Splices
<1>18. NumOk(num2, n - k + m) /\ n - k + m \in Nat
  <2>1. CASE e = <<>>
    <3>1. m = 0 /\ k = 1 /\ n >= 1
      BY <1>0, <1>3, <2>1
    <3>2. NumOk(NewNumElements(-1), n + (-1))
      BY <1>3, <1>11, <3>1, NewNumIs
    <3>3. n + (-1) = n - k + m /\ n - k + m \in Nat
      BY <1>3, <3>1
    <3> QED
      BY <1>13, <2>1, <3>2, <3>3, Zenon
  <2>2. CASE e # <<>> /\ replace
    <3>1. m = 1 /\ k = 1 /\ n - k + m = n
      BY <1>0, <1>3, <2>2
    <3> QED
      BY <1>3, <1>11, <1>13, <2>2, <3>1, Zenon
  <2>3. CASE e # <<>> /\ ~replace
    <3>1. m = 1 /\ k = 0 /\ n + 1 = n - k + m /\ n + 1 >= 0
      BY <1>0, <1>3, <2>3
    <3>2. NumOk(NewNumElements(1), n + 1)
      BY <1>3, <1>11, <3>1, NewNumIs
    <3>3. n + 1 \in Nat
      BY <1>3
    <3> QED
      BY <1>13, <2>3, <3>1, <3>2, <3>3, Zenon
  <2> QED
    BY <2>1, <2>2, <2>3
<1>19. FitsHalf(num2)
  BY <1>18, NumFits, Zenon
<1>20. Changed(lp', lp, o, r, x, num2)
  <2>1. total = Len(lp) + Len(x) - q
    BY <1>2, <1>12, Zenon
  <2>2. Changed(Header(total, num2) \o Spliced(o, q, x), lp, o, o + q, x, num2)
    BY <1>5, <1>8, <1>9, <1>10, <1>15, <1>16, <1>19, <2>1, SplicedIs, Zenon
  <2> QED
    BY <1>14, <1>15, <2>2, Zenon
<1>21. Len(lp') <= MaxBytes
  <2>1. Len(lp') = Len(lp) + Len(x) - (r - o)
    BY <1>20 DEF Changed
  <2>2. Len(lp') = total
    BY <1>2, <1>9, <1>12, <2>1, Zenon
  <2> QED
    BY <1>14, <2>2, Zenon
<1>22. cur' = IF newp /\ i # n - k + m + 1 THEN off[i] ELSE NULL
  <2>1. PICK b, c : b = lp /\ c = lp'
    BY Zenon
  <2>2. Layout(b, n, off, enc, num) /\ Changed(c, b, off[i], off[i + k], x, num2) /\ Len(c) <= MaxBytes
    BY <1>7, <1>20, <1>21, <2>1, Zenon
  <2>3. PointerTo(off[i], c) = IF i = n - k + m + 1 THEN NULL ELSE off[i]
    BY <1>17, <2>2, PointerIs
  <2> QED
    BY <1>7, <1>14, <2>1, <2>3, Zenon
<1> QED
  BY <1>7, <1>17, <1>18, <1>20, <1>21, <1>22 DEF Inserted

\* What lpInsert does, with what is done to the history, keeps the invariant.
LEMMA InsertedKeeps ==
  ASSUME elems \in Seq(Texts), NEW off, NEW enc, NEW num, Holding(off, enc, num),
         NEW e, NEW i, NEW newp, NEW k, NEW m, i \in 1 .. Len(elems) + 1 - k,
         Inserted(Len(elems), off, e, i, newp, k, m),
         NEW t, IsReplaced(Texts, elems', elems, i, k, m, t), m = 1 => Stores(t, e),
         pos' = IF newp /\ i # Len(elems) - k + m + 1 THEN i ELSE 0
  PROVE  LPInv'
<1>1. PICK n : n = Len(elems)
  BY Zenon
<1>2. Layout(lp, n, off, enc, num) /\ NumOk(num, n)
  BY <1>1, Zenon DEF Holding
<1>3. PICK x, num2 : /\ Splices(n, i, k, m, e, x)
                     /\ Changed(lp', lp, off[i], off[i + k], x, num2) /\ Len(lp') <= MaxBytes
                     /\ NumOk(num2, n - k + m)
                     /\ cur' = IF newp /\ i # n - k + m + 1 THEN off[i] ELSE NULL
  <2>1. Inserted(n, off, e, i, newp, k, m)
    BY <1>1, Zenon
  <2> QED
    BY <2>1, Zenon DEF Inserted
<1>4. PICK d : d = Len(x) - (off[i + k] - off[i])
  BY Zenon
<1>5. PICK off2 : off2 = Moved(off, n, i, k, m, d)
  BY Zenon
<1>6. PICK p : p = pos'
  BY Zenon
<1>7. p = IF newp /\ i # n - k + m + 1 THEN i ELSE 0
  BY <1>1, <1>6, Zenon
<1>8. /\ n \in Nat /\ i \in Nat /\ k \in Nat /\ (m = 0 \/ m = 1) /\ i >= 1 /\ i <= n + 1 - k
      /\ n - k + m \in Nat
  <2>1. n \in Nat /\ n - k + m \in Nat /\ (m = 0 \/ m = 1) /\ k \in Nat
    BY <1>3, SplicesAre DEF Splices
  <2>2. i \in 1 .. n + 1 - k
    BY <1>1, Zenon
  <2> QED
    BY <2>1, <2>2
<1>9. p \in 0 .. n - k + m
  BY ONLY <1>7, <1>8
<1>10. off2[i] = off[i]
  BY <1>5, <1>8 DEF Moved
<1>11. cur' = IF p = 0 THEN NULL ELSE off2[p]
  <2>1. i # 0
    BY <1>8
  <2> QED
    BY <1>3, <1>7, <1>10, <2>1, Zenon
<1>12. pos' \in 0 .. Len(elems')
  <2>1. PICK r, s : r = elems' /\ s = elems
    BY Zenon
  <2>2. IsReplaced(Texts, r, s, i, k, m, t) /\ n = Len(s)
    BY <1>1, <2>1, Zenon
  <2>3. Len(r) = n - k + m
    BY ONLY <2>2 DEF IsReplaced
  <2> QED
    BY <1>6, <1>9, <2>1, <2>3, Zenon
<1>13. pos' \in 0 .. Len(elems')
  BY <1>12
<1>14. cur' = IF pos' = 0 THEN NULL
              ELSE Moved(off, Len(elems), i, k, m, Len(x) - (off[i + k] - off[i]))[pos']
  BY <1>1, <1>4, <1>5, <1>6, <1>11, Zenon
<1>15. /\ Splices(Len(elems), i, k, m, e, x) /\ NumOk(num2, Len(elems) - k + m)
       /\ Changed(lp', lp, off[i], off[i + k], x, num2) /\ Len(lp') <= MaxBytes
  BY <1>1, <1>3, Zenon
<1> QED
  BY <1>13, <1>14, <1>15, StepHolds

\* A call of lpInsert, with what is done to the history, keeps the invariant.
LEMMA InsertHolds ==
  ASSUME elems \in Seq(Texts), NEW off, NEW enc, NEW num, Holding(off, enc, num),
         NEW e, NEW i, NEW replace, NEW newp, NEW k, NEW m,
         Inserts(Len(elems), e, i, replace, newp, k, m), LpInsert(e, off[i], replace, newp),
         NEW t, IsReplaced(Texts, elems', elems, i, k, m, t), m = 1 => Stores(t, e),
         pos' = IF newp /\ i # Len(elems) - k + m + 1 THEN i ELSE 0
  PROVE  LPInv'
<1>1. PICK n : n = Len(elems)
  BY Zenon
<1>2. Layout(lp, n, off, enc, num) /\ NumOk(num, n)
  BY <1>1, Zenon DEF Holding
<1>3. Inserts(n, e, i, replace, newp, k, m) /\ i \in 1 .. n + 1 - k
  BY <1>1, Zenon DEF Inserts
<1>4. Inserted(n, off, e, i, newp, k, m)
  BY <1>2, <1>3, InsertIs, Zenon
<1>5. Inserted(Len(elems), off, e, i, newp, k, m) /\ i \in 1 .. Len(elems) + 1 - k
  BY <1>1, <1>3, <1>4, Zenon
<1> QED
  BY <1>5, InsertedKeeps

\* What an element brings, and where its text ends up.
LEMMA ElementIs ==
  ASSUME NEW z \in Elements
  PROVE  /\ z.text \in Texts /\ z.enc \in Seq(Bytes) /\ z.enc # <<>> /\ Stores(z.text, z.enc)
         /\ Fits32(Len(z.enc)) => WellFormed(z.enc)
<1>1. /\ Stores(z.text, z.enc) /\ z.enc \in Seq(Bytes)
      /\ Fits32(Len(z.enc)) => WellFormed(z.enc)
  BY ElementsWellFormed
<1>2. z.enc # <<>>
  <2>1. SUFFICES ASSUME z.enc = <<>> PROVE FALSE
    OBVIOUS
  <2>2. Len(z.enc) = 0
    BY <2>1
  <2>3. Fits32(0)
    <3>1. 0 \in Nat /\ 0 <= MaxBytes
      BY ListPackAssumption, SMT
    <3> QED
      BY <3>1, MaxBytesFits, Fits32Below, Zenon
  <2> QED
    BY <1>1, <2>2, <2>3 DEF WellFormed
<1>3. z.text \in Texts
  BY DEF Texts
<1> QED
  BY <1>1, <1>2, <1>3

\* Inserting an element before the entry that is the i-th, or at the end.
LEMMA InsertedHolds ==
  ASSUME elems \in Seq(Texts), NEW off, NEW enc, NEW num, Holding(off, enc, num),
         NEW z \in Elements, NEW i \in 1 .. Len(elems) + 1, NEW newp \in BOOLEAN,
         LpInsert(z.enc, off[i], FALSE, newp), Stored(z.text, i),
         pos' = IF newp THEN i ELSE 0
  PROVE  LPInv'
<1>1. PICK e, t : e = z.enc /\ t = z.text
  BY Zenon
<1>2. t \in Texts /\ e \in Seq(Bytes) /\ e # <<>> /\ Stores(t, e) /\ (Fits32(Len(e)) => WellFormed(e))
  BY <1>1, ElementIs
<1>3. PICK n : n = Len(elems)
  BY Zenon
<1>4. n \in Nat /\ i \in Nat /\ i <= n + 1 /\ i >= 1
  BY <1>3
<1>5. i \in 1 .. n + 1 - 0 /\ i # n - 0 + 1 + 1
  BY <1>4
<1>6. IsReplaced(Texts, elems', elems, i, 0, 1, t)
  BY <1>1, <1>2, InsertedIs DEF Stored
<1>7. LpInsert(e, off[i], FALSE, newp)
  BY <1>1, Zenon
<1>8. PICK k, m : k = 0 /\ m = 1
  BY Zenon
<1>10. /\ i \in 1 .. Len(elems) + 1 - k /\ i # Len(elems) - k + m + 1
       /\ IsReplaced(Texts, elems', elems, i, k, m, t)
  BY <1>3, <1>5, <1>6, <1>8, Zenon
<1>11. pos' = IF newp /\ i # Len(elems) - k + m + 1 THEN i ELSE 0
  BY <1>10, Zenon
<1>12. Inserts(Len(elems), e, i, FALSE, newp, k, m)
  <2>1. k = (IF FALSE THEN 1 ELSE 0) /\ m = (IF e = <<>> THEN 0 ELSE 1) /\ m # 0
    BY <1>2, <1>8
  <2> QED
    BY <1>2, <1>10, <2>1 DEF Inserts
<1> QED
  BY <1>2, <1>7, <1>10, <1>11, <1>12, InsertHolds, Zenon

\* What is known of the pointer and the block when the invariant holds.
LEMMA PointerAt ==
  ASSUME NEW off, NEW enc, NEW num, Holding(off, enc, num), pos \in 0 .. Len(elems),
         elems \in Seq(Texts), cur # NULL
  PROVE  pos \in 1 .. Len(elems) /\ cur = off[pos]
<1>1. pos # 0
  BY DEF Holding
<1> QED
  BY <1>1 DEF Holding

\* Moving the pointer with lpFirst, lpLast, lpNext or lpPrev keeps the invariant.
LEMMA MoveHolds ==
  ASSUME LPInv, Move
  PROVE  LPInv'
<1>1. PICK off, enc, num : Holding(off, enc, num)
  BY DEF LPInv
<1>2. PICK n : n = Len(elems)
  BY Zenon
<1>3. n \in Nat /\ elems \in Seq(Texts) /\ pos \in 0 .. n
  BY <1>2 DEF LPInv
<1>4. Layout(lp, n, off, enc, num)
  BY <1>1, <1>2, Zenon DEF Holding
<1>5. /\ LpFirst = (IF n = 0 THEN NULL ELSE off[1])
      /\ LpLast = (IF n = 0 THEN NULL ELSE off[n])
      /\ \A i \in 1 .. n : /\ LpNext(off[i]) = (IF i = n THEN NULL ELSE off[i + 1])
                           /\ LpPrev(off[i]) = (IF i = 1 THEN NULL ELSE off[i - 1])
  BY <1>4, StepsRead
<1>6. pos' \in 0 .. n /\ cur' = IF pos' = 0 THEN NULL ELSE off[pos']
  <2>1. CASE cur' = LpFirst /\ pos' = (IF elems = <<>> THEN 0 ELSE 1)
    <3>1. elems = <<>> <=> n = 0
      BY <1>2, <1>3
    <3> QED
      BY <1>3, <1>5, <2>1, <3>1
  <2>2. CASE cur' = LpLast /\ pos' = Len(elems)
    BY <1>2, <1>3, <1>5, <2>2
  <2>3. CASE cur # NULL /\ cur' = LpNext(cur) /\ pos' = (IF pos = Len(elems) THEN 0 ELSE pos + 1)
    <3>1. pos \in 1 .. n /\ cur = off[pos]
      BY <1>1, <1>2, <1>3, <2>3, PointerAt
    <3>2. LpNext(cur) = IF pos = n THEN NULL ELSE off[pos + 1]
      BY <1>5, <3>1
    <3>3. pos' = IF pos = n THEN 0 ELSE pos + 1
      BY <1>2, <2>3
    <3> QED
      BY <1>3, <2>3, <3>1, <3>2, <3>3
  <2>4. CASE cur # NULL /\ cur' = LpPrev(cur) /\ pos' = pos - 1
    <3>1. pos \in 1 .. n /\ cur = off[pos]
      BY <1>1, <1>2, <1>3, <2>4, PointerAt
    <3>2. LpPrev(cur) = IF pos = 1 THEN NULL ELSE off[pos - 1]
      BY <1>5, <3>1
    <3> QED
      BY <1>3, <2>4, <3>1, <3>2
  <2> QED
    BY <2>1, <2>2, <2>3, <2>4 DEF Move
<1>7. lp' = lp /\ elems' = elems
  BY DEF Move
<1>8. Holding(off, enc, num)'
  BY <1>1, <1>6, <1>7 DEF Holding
<1> QED
  BY <1>2, <1>3, <1>6, <1>7, <1>8 DEF LPInv

\* So does inserting before the entry at the pointer ...
LEMMA InsertBeforeHolds ==
  ASSUME LPInv, NEW z \in Elements, InsertBefore(z.text, z.enc)
  PROVE  LPInv'
<1>1. PICK off, enc, num : Holding(off, enc, num)
  BY DEF LPInv
<1>2. elems \in Seq(Texts) /\ pos \in 0 .. Len(elems)
  BY DEF LPInv
<1>3. /\ cur # NULL /\ LpInsert(z.enc, cur, FALSE, TRUE) /\ Stored(z.text, pos) /\ pos' = pos
  BY DEF InsertBefore
<1>4. pos \in 1 .. Len(elems) /\ cur = off[pos]
  BY <1>1, <1>2, <1>3, PointerAt
<1>5. PICK i : i = pos
  BY Zenon
<1>6. i \in 1 .. Len(elems) + 1
  BY <1>2, <1>4, <1>5
<1>7. LpInsert(z.enc, off[i], FALSE, TRUE) /\ Stored(z.text, i) /\ pos' = IF TRUE THEN i ELSE 0
  BY <1>3, <1>4, <1>5, Zenon
<1> QED
  BY <1>1, <1>2, <1>6, <1>7, InsertedHolds

\* ... behind it: lpSkip finds the place ...
LEMMA InsertAfterHolds ==
  ASSUME LPInv, NEW z \in Elements, InsertAfter(z.text, z.enc)
  PROVE  LPInv'
<1>1. PICK off, enc, num : Holding(off, enc, num)
  BY DEF LPInv
<1>2. elems \in Seq(Texts) /\ pos \in 0 .. Len(elems)
  BY DEF LPInv
<1>3. /\ cur # NULL /\ LpInsert(z.enc, Skip(cur), FALSE, TRUE) /\ Stored(z.text, pos + 1)
      /\ pos' = pos + 1
  BY DEF InsertAfter
<1>4. pos \in 1 .. Len(elems) /\ cur = off[pos]
  BY <1>1, <1>2, <1>3, PointerAt
<1>5. PICK i : i = pos + 1
  BY Zenon
<1>6. i \in 1 .. Len(elems) + 1
  BY <1>2, <1>4, <1>5
<1>7. Skip(cur) = off[i]
  <2>1. PICK n, p : n = Len(elems) /\ p = pos
    BY Zenon
  <2>2. Layout(lp, n, off, enc, num) /\ p \in 1 .. n
    BY <1>1, <1>4, <2>1, Zenon DEF Holding
  <2>3. Skip(off[p]) = off[p + 1]
    BY <2>2, EntryReads
  <2> QED
    BY <1>4, <1>5, <2>1, <2>3, Zenon
<1>8. LpInsert(z.enc, off[i], FALSE, TRUE) /\ Stored(z.text, i) /\ pos' = IF TRUE THEN i ELSE 0
  BY <1>3, <1>5, <1>7, Zenon
<1> QED
  BY <1>1, <1>2, <1>6, <1>8, InsertedHolds

\* ... at the end: the total finds it ...
LEMMA LpAppendHolds ==
  ASSUME LPInv, NEW z \in Elements, AppendedAt(z.enc), Stored(z.text, Len(elems) + 1), pos' = 0
  PROVE  LPInv'
<1>1. PICK off, enc, num : Holding(off, enc, num)
  BY DEF LPInv
<1>2. elems \in Seq(Texts)
  BY DEF LPInv
<1>3. PICK n : n = Len(elems)
  BY Zenon
<1>4. PICK i : i = n + 1
  BY Zenon
<1>5. Layout(lp, n, off, enc, num)
  BY <1>1, <1>3, Zenon DEF Holding
<1>6. TotalBytes - 1 = off[i]
  <2>1. TotalBytes = Len(lp) /\ Len(lp) = off[n + 1] + 1
    BY <1>5, HeaderReads, Bounds
  <2>2. PICK w : w = off[n + 1]
    BY Zenon
  <2>3. n + 1 \in 1 .. n + 1
    BY <1>2, <1>3
  <2>4. w \in Nat
    BY <1>5, <2>2, <2>3, Bounds
  <2> QED
    BY <1>4, <2>1, <2>2, <2>4
<1>7. i \in 1 .. Len(elems) + 1
  BY <1>2, <1>3, <1>4
<1>8. LpInsert(z.enc, off[i], FALSE, FALSE) /\ Stored(z.text, i)
  BY <1>3, <1>4, <1>6, Zenon DEF AppendedAt
<1>9. pos' = IF FALSE THEN i ELSE 0
  OBVIOUS
<1> QED
  BY <1>1, <1>2, <1>7, <1>8, <1>9, InsertedHolds

\* ... and at the beginning, which of an empty list is the end.
LEMMA LpPrependHolds ==
  ASSUME LPInv, NEW z \in Elements, LpPrepend(z.text, z.enc)
  PROVE  LPInv'
<1>1. PICK off, enc, num : Holding(off, enc, num)
  BY DEF LPInv
<1>2. elems \in Seq(Texts)
  BY DEF LPInv
<1>3. PICK n : n = Len(elems)
  BY Zenon
<1>4. n \in Nat /\ Layout(lp, n, off, enc, num)
  BY <1>1, <1>2, <1>3 DEF Holding
<1>5. LpFirst = IF n = 0 THEN NULL ELSE off[1]
  BY <1>4, StepsRead
<1>6. Stored(z.text, 1) /\ pos' = 0
  BY DEF LpPrepend
<1>7. CASE LpFirst = NULL
  <2>1. n = 0
    <3>1. 1 \in 1 .. n + 1
      BY <1>4
    <3>2. off[1] \in Nat
      BY <1>4, <3>1, Bounds
    <3> QED
      BY <1>5, <1>7, <3>2 DEF NULL
  <2>2. 1 = Len(elems) + 1
    BY <1>3, <2>1
  <2>3. AppendedAt(z.enc) /\ Stored(z.text, Len(elems) + 1)
    BY <1>6, <1>7, <2>2, Zenon DEF LpPrepend
  <2> QED
    BY <1>6, <2>3, LpAppendHolds
<1>8. CASE LpFirst # NULL
  <2>1. LpInsert(z.enc, off[1], FALSE, FALSE)
    BY <1>5, <1>8, Zenon DEF LpPrepend
  <2>2. 1 \in 1 .. Len(elems) + 1
    BY <1>3, <1>4
  <2>3. pos' = IF FALSE THEN 1 ELSE 0
    BY <1>6
  <2> QED
    BY <1>1, <1>2, <1>6, <2>1, <2>2, <2>3, InsertedHolds
<1> QED
  BY <1>7, <1>8

\* So does replacing an entry by one of another length ...
LEMMA LpReplaceHolds ==
  ASSUME LPInv, NEW z \in Elements, LpReplace(z.text, z.enc)
  PROVE  LPInv'
<1>1. PICK off, enc, num : Holding(off, enc, num)
  BY DEF LPInv
<1>2. elems \in Seq(Texts) /\ pos \in 0 .. Len(elems)
  BY DEF LPInv
<1>3. /\ cur # NULL /\ LpInsert(z.enc, cur, TRUE, TRUE)
      /\ elems' = [elems EXCEPT ![pos] = z.text] /\ pos' = pos
  BY DEF LpReplace
<1>4. pos \in 1 .. Len(elems) /\ cur = off[pos]
  BY <1>1, <1>2, <1>3, PointerAt
<1>5. PICK n, i, e, t : n = Len(elems) /\ i = pos /\ e = z.enc /\ t = z.text
  BY Zenon
<1>6. t \in Texts /\ e \in Seq(Bytes) /\ e # <<>> /\ Stores(t, e) /\ (Fits32(Len(e)) => WellFormed(e))
  BY <1>5, ElementIs
<1>7. n \in Nat /\ i \in Nat /\ i >= 1 /\ i <= n
  BY <1>2, <1>4, <1>5
<1>8. PICK k, m : k = 1 /\ m = 1
  BY Zenon
<1>9. i \in 1 .. n + 1 - k /\ i # n - k + m + 1
  BY <1>7, <1>8
<1>10. Inserts(n, e, i, TRUE, TRUE, k, m)
  <2>1. k = (IF TRUE THEN 1 ELSE 0) /\ m = (IF e = <<>> THEN 0 ELSE 1) /\ m # 0
    BY <1>6, <1>8
  <2> QED
    BY <1>6, <1>9, <2>1 DEF Inserts
<1>11. IsReplaced(Texts, elems', elems, i, k, m, t)
  <2>1. IsReplaced(Texts, [elems EXCEPT ![i] = t], elems, i, 1, 1, t)
    BY <1>2, <1>4, <1>5, <1>6, ExceptIs
  <2> QED
    BY <1>3, <1>5, <1>8, <2>1, Zenon
<1>12. LpInsert(e, off[i], TRUE, TRUE)
  BY <1>3, <1>4, <1>5, Zenon
<1>13. pos' = IF TRUE /\ i # n - k + m + 1 THEN i ELSE 0
  BY <1>3, <1>5, <1>9, Zenon
<1>14. Inserts(Len(elems), e, i, TRUE, TRUE, k, m) /\ pos' = IF TRUE /\ i # Len(elems) - k + m + 1 THEN i ELSE 0
  BY <1>5, <1>10, <1>13, Zenon
<1> QED
  BY <1>1, <1>2, <1>6, <1>11, <1>12, <1>14, InsertHolds, Zenon

\* ... deleting one ...
LEMMA LpDeleteHolds ==
  ASSUME LPInv, LpDelete
  PROVE  LPInv'
<1>1. PICK off, enc, num : Holding(off, enc, num)
  BY DEF LPInv
<1>2. elems \in Seq(Texts) /\ pos \in 0 .. Len(elems)
  BY DEF LPInv
<1>3. /\ cur # NULL /\ LpInsert(<<>>, cur, TRUE, TRUE)
      /\ elems' = SubSeq(elems, 1, pos - 1) \o SubSeq(elems, pos + 1, Len(elems))
      /\ pos' = IF pos + 1 > Len(elems) THEN 0 ELSE pos
  BY Zenon DEF LpDelete, Deleted
<1>4. pos \in 1 .. Len(elems) /\ cur = off[pos]
  BY <1>1, <1>2, <1>3, PointerAt
<1>5. PICK n, i, e : n = Len(elems) /\ i = pos /\ e = <<>>
  BY Zenon
<1>6. n \in Nat /\ i \in Nat /\ i >= 1 /\ i <= n
  BY <1>2, <1>4, <1>5
<1>7. PICK k, m : k = 1 /\ m = 0
  BY Zenon
<1>8. i \in 1 .. n + 1 - k /\ (i + 1 > n <=> i = n - k + m + 1)
  BY <1>6, <1>7
<1>9. Inserts(n, e, i, TRUE, TRUE, k, m)
  <2>1. k = (IF TRUE THEN 1 ELSE 0) /\ m = (IF e = <<>> THEN 0 ELSE 1) /\ m # 1
    BY <1>5, <1>7
  <2>2. e \in Seq(Bytes)
    BY <1>5
  <2> QED
    BY <1>8, <2>1, <2>2 DEF Inserts
<1>10. IsReplaced(Texts, elems', elems, i, k, m, e)
  <2>1. PICK s : s = elems
    BY Zenon
  <2>2. s \in Seq(Texts) /\ i \in 1 .. Len(s)
    BY <1>2, <1>4, <1>5, <2>1, Zenon
  <2>3. 1 \in Nat /\ 1 >= 1 /\ k = IF i + 1 <= Len(s) + 1 THEN 1 ELSE Len(s) + 1 - i
    BY <1>5, <1>6, <1>7, <2>1
  <2>4. IsReplaced(Texts, SubSeq(s, 1, i - 1) \o SubSeq(s, i + 1, Len(s)), s, i, k, 0, e)
    BY <2>2, <2>3, CutIs
  <2> QED
    BY <1>3, <1>5, <1>7, <2>1, <2>4, Zenon
<1>11. LpInsert(e, off[i], TRUE, TRUE)
  BY <1>3, <1>4, <1>5, Zenon
<1>12. pos' = IF TRUE /\ i # n - k + m + 1 THEN i ELSE 0
  BY <1>3, <1>5, <1>8, Zenon
<1>13. /\ Inserts(Len(elems), e, i, TRUE, TRUE, k, m)
       /\ pos' = IF TRUE /\ i # Len(elems) - k + m + 1 THEN i ELSE 0
  BY <1>5, <1>9, <1>12, Zenon
<1>14. m = 1 => Stores(e, e)
  BY <1>7
<1> QED
  BY <1>1, <1>2, <1>10, <1>11, <1>13, <1>14, InsertHolds, Zenon

\* ... deleting several, or as many as there are ...
LEMMA LpDeleteRangeHolds ==
  ASSUME LPInv, NEW d \in Nat, d >= 1, LpDeleteRangeWithEntry(d)
  PROVE  LPInv'
<1>1. PICK off, enc, num : Holding(off, enc, num)
  BY DEF LPInv
<1>2. elems \in Seq(Texts) /\ pos \in 0 .. Len(elems)
  BY DEF LPInv
<1>3. PICK size : size = TailOf(cur, d) - cur
  BY Zenon
<1>4. /\ cur # NULL
      /\ lp' = Header(TotalBytes - size, NewNumElements(-DeletedIn(cur, d)))
                 \o Spliced(cur, size, <<>>)
      /\ cur' = PointerTo(cur, lp')
      /\ elems' = SubSeq(elems, 1, pos - 1) \o SubSeq(elems, pos + d, Len(elems))
      /\ pos' = IF pos + d > Len(elems) THEN 0 ELSE pos
  BY <1>3, Zenon DEF LpDeleteRangeWithEntry, Deleted
<1>5. pos \in 1 .. Len(elems) /\ cur = off[pos]
  BY <1>1, <1>2, <1>4, PointerAt
<1>6. PICK n, i : n = Len(elems) /\ i = pos
  BY Zenon
<1>7. n \in Nat /\ i \in Nat /\ i >= 1 /\ i <= n /\ i \in 1 .. n /\ i \in 1 .. n + 1
  BY <1>2, <1>5, <1>6
<1>8. PICK k : k = IF i + d <= n + 1 THEN d ELSE n + 1 - i
  BY Zenon
<1>9. /\ k \in Nat /\ i + k <= n + 1 /\ i \in 1 .. n + 1 - k /\ n - k \in Nat
      /\ (i + d > n <=> i = n - k + 1) /\ i + k \in 1 .. n + 1 /\ n + (-k) = n - k
      /\ i + k = IF i + d <= n + 1 THEN i + d ELSE n + 1
  BY <1>7, <1>8
<1>10. Layout(lp, n, off, enc, num) /\ NumOk(num, n)
  BY <1>1, <1>6, Zenon DEF Holding
<1>11. DeletedIn(off[i], d) = k /\ TailOf(off[i], d) = off[i + k]
  <2>1. DeletedIn(off[i], d) = k
    BY <1>7, <1>8, <1>10, DeletedIs
  <2>2. TailOf(off[i], d) = off[i + k]
    <3>1. TailOf(off[i], d) = off[IF i + d <= n + 1 THEN i + d ELSE n + 1]
      BY <1>7, <1>10, TailIs, Zenon
    <3> QED
      BY <1>9, <3>1, Zenon
  <2> QED
    BY <2>1, <2>2
<1>12. PICK o, r : o = off[i] /\ r = off[i + k]
  BY Zenon
<1>13. /\ o \in Nat /\ r \in Nat /\ o >= LP_HDR_SIZE /\ r < Len(lp) /\ Len(lp) \in Nat
       /\ lp \in Seq(Bytes)
  BY <1>7, <1>9, <1>10, <1>12, Bounds
<1>14. size = r - o /\ o <= r
  <2>1. size = r - o
    BY <1>3, <1>5, <1>6, <1>11, <1>12, Zenon
  <2>2. \A g, h \in 1 .. n + 1 : g < h => off[g] < off[h]
    BY <1>10, OffsetsGrow DEF Layout
  <2>3. i < i + k \/ i = i + k
    BY <1>7, <1>9
  <2>4. o < r \/ o = r
    BY <1>7, <1>9, <1>12, <2>2, <2>3
  <2> QED
    BY <1>13, <2>1, <2>4
<1>15. PICK x, m : x = <<>> /\ m = 0
  BY Zenon
<1>16. x \in Seq(Bytes) /\ Len(x) = 0
  BY <1>15
<1>17. PICK num2 : num2 = NewNumElements(-k)
  BY Zenon
<1>18. NumOk(num2, n - k) /\ FitsHalf(num2)
  <2>1. NumOk(NumElements, n)
    BY <1>10, HeaderReads
  <2>2. -k \in Int /\ -k <= 1 /\ n + (-k) >= 0
    BY <1>9
  <2>3. NumOk(num2, n + (-k))
    BY <1>7, <1>17, <2>1, <2>2, NewNumIs
  <2>4. NumOk(num2, n - k)
    BY <1>9, <2>3, Zenon
  <2> QED
    BY <1>9, <2>4, NumFits, Zenon
<1>19. PICK total : total = TotalBytes - size
  BY Zenon
<1>20. /\ total \in Nat /\ total <= MaxBytes /\ total = Len(lp) + Len(x) - size
       /\ size \in Nat /\ o + size = r /\ o + size <= Len(lp)
  <2>1. TotalBytes = Len(lp) /\ Len(lp) <= MaxBytes
    BY <1>10, HeaderReads DEF Layout, Headed
  <2>2. MaxBytes \in Nat
    BY LimitsAre
  <2> QED
    BY <1>13, <1>14, <1>16, <1>19, <2>1, <2>2
<1>21. Fits32(total)
  BY <1>20, MaxBytesFits, Fits32Below, Zenon
<1>22. Changed(lp', lp, o, r, x, num2)
  <2>1. Changed(Header(total, num2) \o Spliced(o, size, x), lp, o, o + size, x, num2)
    BY <1>13, <1>16, <1>18, <1>20, <1>21, SplicedIs, Zenon
  <2>2. lp' = Header(total, num2) \o Spliced(o, size, x)
    BY <1>4, <1>5, <1>6, <1>11, <1>12, <1>15, <1>17, <1>19, Zenon
  <2> QED
    BY <1>20, <2>1, <2>2, Zenon
<1>23. Len(lp') <= MaxBytes
  <2>1. Len(lp') = Len(lp) + Len(x) - (r - o)
    BY <1>22 DEF Changed
  <2> QED
    BY <1>14, <1>20, <2>1, Zenon
<1>24. Splices(n, i, k, m, x, x)
  BY <1>7, <1>9, <1>15 DEF Splices
<1>25. PointerTo(o, lp') = IF i = n - k + 1 THEN NULL ELSE o
  <2>1. PICK b, c : b = lp /\ c = lp'
    BY Zenon
  <2>2. Layout(b, n, off, enc, num) /\ Changed(c, b, off[i], off[i + k], x, num2) /\ Len(c) <= MaxBytes
    BY <1>10, <1>12, <1>22, <1>23, <2>1, Zenon
  <2>3. PointerTo(off[i], c) = IF i = n - k + m + 1 THEN NULL ELSE off[i]
    BY <1>24, <2>2, PointerIs, SMTT(30)
  <2>4. n - k + m + 1 = n - k + 1
    BY <1>9, <1>15
  <2> QED
    BY <1>12, <2>1, <2>3, <2>4, Zenon
<1>26. n - k + m = n - k /\ n - k + m + 1 = n - k + 1
  BY <1>9, <1>15
<1>27. Inserted(n, off, x, i, TRUE, k, m)
  <2>1. cur' = IF TRUE /\ i # n - k + m + 1 THEN off[i] ELSE NULL
    BY <1>4, <1>5, <1>6, <1>12, <1>25, <1>26, Zenon
  <2>2. /\ Splices(n, i, k, m, x, x) /\ Changed(lp', lp, off[i], off[i + k], x, num2)
        /\ Len(lp') <= MaxBytes /\ NumOk(num2, n - k + m)
    BY <1>12, <1>18, <1>22, <1>23, <1>24, <1>26, Zenon
  <2> QED
    BY <2>1, <2>2 DEF Inserted
<1>28. IsReplaced(Texts, elems', elems, i, k, m, x)
  <2>1. PICK s : s = elems
    BY Zenon
  <2>2. s \in Seq(Texts) /\ i \in 1 .. Len(s) /\ k = IF i + d <= Len(s) + 1 THEN d ELSE Len(s) + 1 - i
    BY <1>2, <1>6, <1>7, <1>8, <2>1, Zenon
  <2>3. IsReplaced(Texts, SubSeq(s, 1, i - 1) \o SubSeq(s, i + d, Len(s)), s, i, k, 0, x)
    BY <2>2, CutIs
  <2> QED
    BY <1>4, <1>6, <1>15, <2>1, <2>3, Zenon
<1>29. /\ Inserted(Len(elems), off, x, i, TRUE, k, m) /\ i \in 1 .. Len(elems) + 1 - k
       /\ pos' = IF TRUE /\ i # Len(elems) - k + m + 1 THEN i ELSE 0
  <2>1. pos' = IF i = n - k + 1 THEN 0 ELSE i
    BY <1>4, <1>6, <1>9, Zenon
  <2> QED
    BY <1>6, <1>9, <1>26, <1>27, <2>1, Zenon
<1>30. m = 1 => Stores(x, x)
  BY <1>15
<1> QED
  BY <1>1, <1>2, <1>28, <1>29, <1>30, InsertedKeeps

\* ... and counting again for the header.
LEMMA LpLengthHolds ==
  ASSUME LPInv, LpLength
  PROVE  LPInv'
<1>1. PICK off, enc, num : Holding(off, enc, num)
  BY DEF LPInv
<1>2. elems \in Seq(Texts) /\ pos \in 0 .. Len(elems)
  BY DEF LPInv
<1>3. PICK n, p : n = Len(elems) /\ p = pos
  BY Zenon
<1>4. n \in Nat /\ p \in 0 .. n
  BY <1>2, <1>3
<1>5. Layout(lp, n, off, enc, num) /\ cur = IF p = 0 THEN NULL ELSE off[p]
  BY <1>1, <1>3, Zenon DEF Holding
<1>6. Len(Forwards) = n
  <2>1. PICK f : f = [j \in 1 .. n |-> off[j]]
    BY Zenon
  <2>2. Forwards = f
    BY <1>5, <2>1, ForwardsIs, Zenon
  <2>3. Len(f) = n
    BY <1>4, <2>1
  <2> QED
    BY <2>2, <2>3
<1>7. /\ n < NumEleUnknown
      /\ lp' = Header(TotalBytes, n) \o Spliced(LP_HDR_SIZE, 0, <<>>)
      /\ cur' = cur /\ elems' = elems /\ pos' = pos
  BY <1>6, Zenon DEF LpLength
<1>8. PICK x, z, o : x = <<>> /\ z = 0 /\ o = LP_HDR_SIZE
  BY Zenon
<1>9. x \in Seq(Bytes) /\ Len(x) = 0
  BY <1>8
<1>10. /\ off[1] = o /\ lp \in Seq(Bytes) /\ Len(lp) \in Nat /\ o \in Nat /\ o + z = o /\ o < Len(lp)
       /\ Fits32(Len(lp)) /\ Len(lp) <= MaxBytes
  <2>1. o \in Nat /\ o + z = o
    BY <1>8 DEF LP_HDR_SIZE
  <2>2. off[1] = o
    BY <1>5, <1>8, Zenon DEF Layout, Chained
  <2>3. 1 \in 1 .. n + 1
    BY <1>4
  <2>4. lp \in Seq(Bytes) /\ Len(lp) \in Nat /\ o < Len(lp) /\ Fits32(Len(lp))
    BY <1>5, <2>2, <2>3, Bounds
  <2>5. Len(lp) <= MaxBytes
    BY <1>5 DEF Layout, Headed
  <2> QED
    BY <2>1, <2>2, <2>4, <2>5
<1>11. NumOk(n, n) /\ FitsHalf(n)
  <2>1. NumOk(n, n)
    BY <1>7 DEF NumOk
  <2> QED
    BY <1>4, <2>1, NumFits
<1>12. PICK total : total = Len(lp)
  BY Zenon
<1>13. Changed(lp', lp, off[1], off[1 + z], x, n)
  <2>1. /\ total = Len(lp) + Len(x) - z /\ Fits32(total) /\ z \in Nat /\ o + z <= Len(lp)
        /\ o >= LP_HDR_SIZE
    BY <1>8, <1>9, <1>10, <1>12
  <2>2. Changed(Header(total, n) \o Spliced(o, z, x), lp, o, o + z, x, n)
    BY <1>9, <1>10, <1>11, <2>1, SplicedIs, Zenon
  <2>3. TotalBytes = total
    BY <1>5, <1>12, HeaderReads
  <2>4. lp' = Header(total, n) \o Spliced(o, z, x)
    BY <1>7, <1>8, <2>3, Zenon
  <2>5. 1 + z = 1
    BY <1>8
  <2> QED
    BY <1>10, <2>2, <2>4, <2>5, Zenon
<1>14. Len(lp') <= MaxBytes
  <2>1. Len(lp') = Len(lp) + Len(x) - (off[1 + z] - off[1])
    BY <1>13 DEF Changed
  <2>2. 1 + z = 1
    BY <1>8
  <2> QED
    BY <1>9, <1>10, <2>1, <2>2
<1>15. Splices(n, 1, z, z, x, x) /\ n - z + z = n
  BY <1>4, <1>8 DEF Splices
<1>16. IsReplaced(Texts, elems', elems, 1, z, z, x)
  <2>1. PICK s : s = elems
    BY Zenon
  <2>2. s \in Seq(Texts) /\ Len(s) = n
    BY <1>2, <1>3, <2>1
  <2>3. IsReplaced(Texts, s, s, 1, z, z, x)
    <3>1. \A j \in 1 .. n : s[j] = IF j < 1 THEN s[j] ELSE IF j < 1 + z THEN x ELSE s[j + z - z]
      BY <1>8
    <3> QED
      BY <1>15, <2>2, <3>1 DEF IsReplaced, Replaced
  <2> QED
    BY <1>7, <2>1, <2>3, Zenon
<1>17. cur' = IF pos' = 0 THEN NULL
              ELSE Moved(off, n, 1, z, z, Len(x) - (off[1 + z] - off[1]))[pos']
  <2>1. PICK d : d = Len(x) - (off[1 + z] - off[1])
    BY Zenon
  <2>2. d = 0
    <3>1. 1 + z = 1
      BY <1>8
    <3> QED
      BY <1>9, <1>10, <2>1, <3>1
  <2>3. PICK off2 : off2 = Moved(off, n, 1, z, z, d)
    BY Zenon
  <2>4. ASSUME p # 0 PROVE off2[p] = off[p]
    <3>1. p \in 1 .. n - z + z + 1 /\ p + z - z = p
      BY <1>4, <1>8, <2>4
    <3>2. off[p] \in Nat
      <4>1. p \in 1 .. n + 1
        BY <1>4, <2>4
      <4> QED
        BY <1>5, <4>1, Bounds
    <3> QED
      BY <2>2, <2>3, <3>1, <3>2 DEF Moved
  <2> QED
    BY <1>3, <1>5, <1>7, <2>1, <2>3, <2>4, Zenon
<1>18. /\ Splices(Len(elems), 1, z, z, x, x) /\ NumOk(n, Len(elems) - z + z)
       /\ cur' = IF pos' = 0 THEN NULL
                 ELSE Moved(off, Len(elems), 1, z, z, Len(x) - (off[1 + z] - off[1]))[pos']
  BY <1>3, <1>11, <1>15, <1>17, Zenon
<1>19. pos' \in 0 .. Len(elems')
  BY <1>2, <1>7
<1>20. z = 1 => Stores(x, x)
  BY <1>8
<1> QED
  BY <1>1, <1>2, <1>13, <1>14, <1>16, <1>18, <1>19, <1>20, StepHolds

\* The block lpNew makes is laid out as an empty list.
LEMMA InitHolds == Init => LPInv
<1> SUFFICES ASSUME Init PROVE LPInv
  OBVIOUS
<1>1. PICK h, x, c, z, total : h = Header(7, 0) /\ x = <<LP_EOF>> /\ c = lp /\ z = 0 /\ total = 7
  BY Zenon
<1>2. c = h \o x /\ elems = <<>> /\ pos = 0 /\ cur = NULL
  <2>1. LP_HDR_SIZE + 1 = 7
    BY DEF LP_HDR_SIZE
  <2> QED
    BY <1>1, <2>1, Zenon DEF Init
<1>3. /\ h \in Seq(Bytes) /\ Len(h) = 6 /\ Of4(h[1], h[2], h[3], h[4]) = total
      /\ Of4(h[5], h[6], 0, 0) = z
  <2>1. total \in Nat /\ total <= MaxBytes /\ z \in Nat /\ FitsHalf(z)
    BY <1>1, LimitsAre, SMT DEF FitsHalf
  <2>2. Fits32(total)
    BY <2>1, MaxBytesFits, Fits32Below, Zenon
  <2>3. h = Header(total, z)
    BY <1>1, Zenon
  <2> QED
    BY <2>1, <2>2, <2>3, HeaderIs, Zenon
<1>4. x \in Seq(Bytes) /\ Len(x) = 1 /\ x[1] = LP_EOF
  <2>1. LP_EOF \in Bytes
    BY BytesAre DEF LP_EOF
  <2> QED
    BY <1>1, <2>1
<1>5. c \in Seq(Bytes) /\ Len(c) = total /\ total = 7 /\ (\A j \in 1 .. 6 : c[j] = h[j]) /\ c[7] = LP_EOF
  <2>1. Joins(Bytes, c, h, x)
    BY <1>2, <1>3, <1>4, TwoParts, Zenon
  <2>2. /\ c \in Seq(Bytes) /\ Len(c) = Len(h) + Len(x) /\ \A j \in 1 .. Len(h) : c[j] = h[j]
        /\ \A j \in 1 .. Len(x) : c[Len(h) + j] = x[j]
    BY ONLY <2>1 DEF Joins
  <2> QED
    BY <1>1, <1>3, <1>4, <2>2, SMTT(30)
<1>6. c[1] = h[1] /\ c[2] = h[2] /\ c[3] = h[3] /\ c[4] = h[4] /\ c[5] = h[5] /\ c[6] = h[6]
  BY <1>5
<1>7. PICK off, enc : off = [i \in 1 .. 1 |-> LP_HDR_SIZE] /\ enc = [i \in 1 .. 0 |-> <<>>]
  BY Zenon
<1>8. off \in [1 .. z + 1 -> Nat] /\ off[1] = LP_HDR_SIZE /\ enc \in [1 .. z -> Seq(Bytes)]
      /\ off[z + 1] = LP_HDR_SIZE
  BY <1>1, <1>7 DEF LP_HDR_SIZE
<1>9. \A i \in 1 .. z : FALSE
  BY <1>1
<1>10. Chained(z, off, enc)
  BY <1>1, <1>8, <1>9 DEF Chained
<1>11. Filled(c, z, off, enc)
  BY <1>5, <1>8, <1>9 DEF Filled, LP_HDR_SIZE
<1>12. Headed(c, z)
  <2>1. 7 <= MaxBytes
    BY LimitsAre
  <2>2. Of4(c[1], c[2], c[3], c[4]) = total /\ Of4(c[5], c[6], 0, 0) = z
    BY <1>3, <1>6, Zenon
  <2> QED
    BY <1>5, <2>1, <2>2 DEF Headed, LP_HDR_SIZE
<1>13. Len(elems) = z /\ elems \in Seq(Texts) /\ pos \in 0 .. z
  BY <1>1, <1>2
<1>14. NumOk(z, z)
  <2>1. z < NumEleUnknown
    BY <1>1, LimitsAre
  <2> QED
    BY <2>1 DEF NumOk
<1>15. Layout(lp, Len(elems), off, enc, z) /\ NumOk(z, Len(elems))
  BY <1>1, <1>10, <1>11, <1>12, <1>13, <1>14, Zenon DEF Layout
<1>16. cur = IF pos = 0 THEN NULL ELSE off[pos]
  BY <1>2
<1>17. \A i \in 1 .. Len(elems) : Stores(elems[i], enc[i])
  BY <1>9, <1>13
<1>18. Holding(off, enc, z)
  BY <1>15, <1>16, <1>17 DEF Holding
<1> QED
  BY <1>13, <1>18, Zenon DEF LPInv

\* Every call keeps the invariant.
LEMMA NextHolds == LPInv /\ [Next]_vars => LPInv'
<1> SUFFICES ASSUME LPInv, [Next]_vars PROVE LPInv'
  OBVIOUS
<1>1. CASE Move
  BY <1>1, MoveHolds
<1>2. ASSUME NEW z \in Elements, InsertBefore(z.text, z.enc) PROVE LPInv'
  BY <1>2, InsertBeforeHolds
<1>3. ASSUME NEW z \in Elements, InsertAfter(z.text, z.enc) PROVE LPInv'
  BY <1>3, InsertAfterHolds
<1>4. ASSUME NEW z \in Elements, LpAppend(z.text, z.enc) PROVE LPInv'
  BY <1>4, LpAppendHolds DEF LpAppend
<1>5. ASSUME NEW z \in Elements, LpPrepend(z.text, z.enc) PROVE LPInv'
  BY <1>5, LpPrependHolds
<1>6. ASSUME NEW z \in Elements, LpReplace(z.text, z.enc) PROVE LPInv'
  BY <1>6, LpReplaceHolds
<1>7. CASE LpDelete
  BY <1>7, LpDeleteHolds
<1>8. ASSUME NEW d \in 1 .. MaxEntries + 1, LpDeleteRangeWithEntry(d) PROVE LPInv'
  <2>1. d \in Nat /\ d >= 1
    BY <1>8
  <2> QED
    BY <1>8, <2>1, LpDeleteRangeHolds
<1>9. CASE LpLength
  BY <1>9, LpLengthHolds
<1>10. CASE UNCHANGED vars
  <2>1. lp' = lp /\ cur' = cur /\ elems' = elems /\ pos' = pos
    BY <1>10 DEF vars
  <2>2. PICK off, enc, num : Holding(off, enc, num)
    BY DEF LPInv
  <2>3. Holding(off, enc, num)'
    BY <2>1, <2>2 DEF Holding
  <2>4. elems' \in Seq(Texts) /\ pos' \in 0 .. Len(elems')
    BY <2>1 DEF LPInv
  <2> QED
    BY <2>3, <2>4, Zenon DEF LPInv
<1> QED
  BY <1>1, <1>2, <1>3, <1>4, <1>5, <1>6, <1>7, <1>8, <1>9, <1>10, Zenon DEF Next

(***************************************************************************)
(* Whatever was inserted, replaced and deleted, the block is a header,     *)
(* entries whose lengths agree on both sides, and LP_EOF, with the entries *)
(* the history says in its order.                                          *)
(***************************************************************************)
THEOREM ListIsLaidOut == Spec => []LPInv
<1>1. Init => LPInv
  BY InitHolds
<1>2. LPInv /\ [Next]_vars => LPInv'
  BY NextHolds
<1> QED
  BY <1>1, <1>2, PTL DEF Spec

(***************************************************************************)
(* The total in the header is the size of the block, never beyond the      *)
(* limit of lpInsert, and LP_EOF is its last byte.                         *)
(***************************************************************************)
THEOREM BlockIsKept == Spec => []TypeOK
<1>1. LPInv => TypeOK
  <2> SUFFICES ASSUME LPInv PROVE TypeOK
    OBVIOUS
  <2>1. PICK off, enc, num : Holding(off, enc, num)
    BY DEF LPInv
  <2>2. PICK n : n = Len(elems)
    BY Zenon
  <2>3. n \in Nat /\ pos \in 0 .. n
    BY <2>2 DEF LPInv
  <2>4. Layout(lp, n, off, enc, num) /\ cur = IF pos = 0 THEN NULL ELSE off[pos]
    BY <2>1, <2>2, Zenon DEF Holding
  <2>5. /\ lp \in Seq(Bytes) /\ Len(lp) \in Nat /\ Len(lp) = off[n + 1] + 1
        /\ \A i \in 1 .. n + 1 : off[i] \in Nat /\ off[i] >= LP_HDR_SIZE /\ off[i] < Len(lp)
    BY <2>4, Bounds
  <2>6. lp[off[n + 1] + 1] = LP_EOF /\ Len(lp) <= MaxBytes
    BY <2>4 DEF Layout, Filled, Headed
  <2>7. \A i \in DOMAIN lp : lp[i] \in 0 .. 255
    <3>1. DOMAIN lp = 1 .. Len(lp)
      BY <2>5, LenProperties
    <3>2. \A i \in DOMAIN lp : lp[i] \in Bytes
      BY <2>5, <3>1, ElementOfSeq
    <3> QED
      BY <3>2, Zenon DEF Bytes
  <2>8. Last(lp) = LP_EOF
    BY <2>5, <2>6, Zenon DEF Last
  <2>9. TotalBytes = Len(lp)
    BY <2>4, HeaderReads
  <2>10. cur \in {NULL} \cup LP_HDR_SIZE .. MaxBytes
    <3>1. CASE pos = 0
      BY <2>4, <3>1
    <3>2. CASE pos # 0
      <4>1. pos \in 1 .. n + 1
        BY <2>3, <3>2
      <4>2. PICK o : o = off[pos]
        BY Zenon
      <4>3. o \in Nat /\ o >= LP_HDR_SIZE /\ o < Len(lp)
        BY <2>5, <4>1, <4>2
      <4>4. o \in LP_HDR_SIZE .. MaxBytes
        BY <2>5, <2>6, <4>3, LimitsAre DEF LP_HDR_SIZE
      <4> QED
        BY <2>4, <3>2, <4>2, <4>4
    <3> QED
      BY <3>1, <3>2
  <2> QED
    BY <2>2, <2>3, <2>6, <2>7, <2>8, <2>9, <2>10, Zenon DEF TypeOK
<1> QED
  BY <1>1, ListIsLaidOut, PTL

(***************************************************************************)
(* lpPrev from the end finds the entries lpNext finds from the beginning.  *)
(***************************************************************************)
THEOREM WalksAgree == Spec => []BackwardIsForward
<1>1. LPInv => BackwardIsForward
  <2> SUFFICES ASSUME LPInv PROVE BackwardIsForward
    OBVIOUS
  <2>1. PICK off, enc, num : Holding(off, enc, num)
    BY DEF LPInv
  <2>2. PICK n : n = Len(elems)
    BY Zenon
  <2>3. Layout(lp, n, off, enc, num)
    BY <2>1, <2>2, Zenon DEF Holding
  <2> QED
    BY <2>3, BackwardsAreForwards DEF BackwardIsForward
<1> QED
  BY <1>1, ListIsLaidOut, PTL

(***************************************************************************)
(* The number of elements in the header counts the entries or says that it *)
(* does not know.                                                          *)
(***************************************************************************)
THEOREM CountIsKept == Spec => []NumeleIsCount
<1>1. LPInv => NumeleIsCount
  <2> SUFFICES ASSUME LPInv PROVE NumeleIsCount
    OBVIOUS
  <2>1. PICK off, enc, num : Holding(off, enc, num)
    BY DEF LPInv
  <2>2. PICK n : n = Len(elems)
    BY Zenon
  <2>3. n \in Nat
    BY <2>2 DEF LPInv
  <2>4. Layout(lp, n, off, enc, num) /\ NumOk(num, n)
    BY <2>1, <2>2, Zenon DEF Holding
  <2>5. PICK f : f = [j \in 1 .. n |-> off[j]]
    BY Zenon
  <2>6. Forwards = f
    BY <2>4, <2>5, ForwardsIs, Zenon
  <2>7. Len(f) = n
    BY <2>3, <2>5
  <2>8. NumElements = num
    BY <2>4, HeaderReads
  <2> QED
    BY <2>4, <2>6, <2>7, <2>8 DEF NumeleIsCount, NumOk
<1> QED
  BY <1>1, ListIsLaidOut, PTL

(***************************************************************************)
(* The pointer a call sets is at the entry it speaks of, or null.          *)
(***************************************************************************)
THEOREM PointerIsKept == Spec => []PointerIsAtEntry
<1>1. LPInv => PointerIsAtEntry
  <2> SUFFICES ASSUME LPInv PROVE PointerIsAtEntry
    OBVIOUS
  <2>1. PICK off, enc, num : Holding(off, enc, num)
    BY DEF LPInv
  <2>2. PICK n : n = Len(elems)
    BY Zenon
  <2>3. n \in Nat /\ pos \in 0 .. n
    BY <2>2 DEF LPInv
  <2>4. Layout(lp, n, off, enc, num) /\ cur = IF pos = 0 THEN NULL ELSE off[pos]
    BY <2>1, <2>2, Zenon DEF Holding
  <2>5. PICK f : f = [j \in 1 .. n |-> off[j]]
    BY Zenon
  <2>6. Forwards = f
    BY <2>4, <2>5, ForwardsIs, Zenon
  <2>7. pos # 0 => f[pos] = off[pos]
    BY <2>3, <2>5
  <2> QED
    BY <2>4, <2>6, <2>7, Zenon DEF PointerIsAtEntry
<1> QED
  BY <1>1, ListIsLaidOut, PTL

-------------------------------------------------------------------------------
\* The text of a number.

\* Digits by repeated division, as std::to_string prints them.
Prints(p) ==
  p = [k \in Nat |-> IF k < 10 THEN <<48 + k>> ELSE Append(p[k \div 10], 48 + (k % 10))]

Printed == CHOOSE p : Prints(p)

\* A tenth is a smaller number, and with the last digit gives the whole.
LEMMA TenthIs ==
  ASSUME NEW k \in Nat
  PROVE  /\ k \div 10 \in Nat /\ k % 10 \in 0 .. 9 /\ k = 10 * (k \div 10) + (k % 10)
         /\ k >= 10 => k \div 10 < k /\ k \div 10 >= 1
BY SMT

\* 48 to 57 are what a digit is.
LEMMA DigitsAre == \A d : d \in Digits <=> d \in Nat /\ d >= 48 /\ d <= 57
BY SMT DEF Digits

\* The printed numbers exist, and are sequences of digits.
LEMMA PrintedIs ==
  /\ Printed \in [Nat -> Seq(Digits)]
  /\ \A k \in Nat : Printed[k] = IF k < 10 THEN <<48 + k>>
                                 ELSE Append(Printed[k \div 10], 48 + (k % 10))
<1> DEFINE V == Seq(Digits)
           rank == [k \in Nat |-> k]
           go == [k \in Nat |-> k >= 10]
           next == [k \in Nat |-> k \div 10]
           step == [k \in Nat |-> [x \in V |-> Append(x, 48 + (k % 10))]]
           base == [k \in Nat |-> IF k < 10 THEN <<48 + k>> ELSE <<>>]
<1>1. rank \in [Nat -> Nat]
  OBVIOUS
<1>2. step \in [Nat -> [V -> V]]
  <2>1. ASSUME NEW k \in Nat, NEW x \in V PROVE Append(x, 48 + (k % 10)) \in V
    <3>1. 48 + (k % 10) \in Digits
      BY TenthIs, DigitsAre
    <3> QED
      BY <3>1
  <2> HIDE DEF V
  <2> QED
    BY <2>1
<1>3. base \in [Nat -> V]
  <2>1. ASSUME NEW k \in Nat PROVE (IF k < 10 THEN <<48 + k>> ELSE <<>>) \in V
    <3>1. k < 10 => 48 + k \in Digits
      BY DigitsAre
    <3> QED
      BY <3>1
  <2> HIDE DEF V
  <2> QED
    BY <2>1
<1>4. \A k \in Nat : go[k] => next[k] \in Nat /\ rank[next[k]] < rank[k]
  BY TenthIs
<1>5. Solvable(Nat, V, go, next, step, base)
  <2> HIDE DEF V, rank, go, next, step, base
  <2> QED
    BY <1>1, <1>2, <1>3, <1>4, RecursionExists
<1>6. PICK f \in [Nat -> V] :
        \A k \in Nat : f[k] = IF go[k] THEN step[k][f[next[k]]] ELSE base[k]
  BY <1>5 DEF Solvable
<1>7. ASSUME NEW k \in Nat
      PROVE  f[k] = IF k < 10 THEN <<48 + k>> ELSE Append(f[k \div 10], 48 + (k % 10))
  <2>1. k \div 10 \in Nat
    BY TenthIs
  <2>2. f[k \div 10] \in V
    BY <2>1
  <2>3. /\ go[k] <=> k >= 10
        /\ next[k] = k \div 10
        /\ k < 10 => base[k] = <<48 + k>>
    OBVIOUS
  <2>4. step[k][f[k \div 10]] = Append(f[k \div 10], 48 + (k % 10))
    <3> HIDE DEF V
    <3> QED
      BY <2>2
  <2>5. k >= 10 <=> ~(k < 10)
    OBVIOUS
  <2> HIDE DEF V, go, next, step, base
  <2>6. f[k] = IF go[k] THEN step[k][f[next[k]]] ELSE base[k]
    BY <1>6
  <2>7. CASE k < 10
    BY <2>3, <2>5, <2>6, <2>7, Zenon
  <2>8. CASE ~(k < 10)
    BY <2>3, <2>4, <2>5, <2>6, <2>8, Zenon
  <2> QED
    BY <2>7, <2>8
<1>8. Prints(f)
  <2> HIDE DEF V, go, next, step, base
  <2> QED
    BY <1>7 DEF Prints
<1>9. Prints(Printed)
  BY <1>8 DEF Printed
<1>10. PICK p : p = Printed
  BY Zenon
<1>11. /\ p = [k \in Nat |-> p[k]]
       /\ \A k \in Nat : p[k] = IF k < 10 THEN <<48 + k>> ELSE Append(p[k \div 10], 48 + (k % 10))
  BY <1>9, <1>10 DEF Prints
<1>12. \A k \in Nat : f[k] = p[k]
  <2> DEFINE S == {k \in Nat : f[k] = p[k]}
  <2>1. ASSUME NEW k \in Nat, \A q \in Nat : rank[q] < rank[k] => q \in S PROVE k \in S
    <3>1. CASE k < 10
      <4>1. f[k] = <<48 + k>>
        BY <1>7, <3>1, Zenon
      <4>2. p[k] = <<48 + k>>
        BY <1>11, <3>1, Zenon
      <4> QED
        BY <4>1, <4>2
    <3>2. CASE k >= 10
      <4>1. k \div 10 \in Nat /\ k \div 10 < k
        BY <3>2, TenthIs
      <4>2. f[k \div 10] = p[k \div 10]
        BY <2>1, <4>1
      <4>3. ~(k < 10)
        BY <3>2
      <4>4. f[k] = p[k]
        BY <1>7, <1>11, <4>2, <4>3, Zenon
      <4> QED
        BY <4>4
    <3> QED
      BY <3>1, <3>2
  <2>2. Nat \subseteq S
    <3> HIDE DEF S, rank
    <3> QED
      BY <1>1, <2>1, RankInduction
  <2> QED
    BY <2>2
<1>13. p \in [Nat -> Seq(Digits)]
  <2>1. \A k \in Nat : p[k] \in V
    BY <1>6, <1>12
  <2> QED
    BY <1>11, <2>1
<1> QED
  BY <1>10, <1>11, <1>13, Zenon

\* Decimal prints the magnitude, behind the sign.
LEMMA DecimalIs ==
  ASSUME NEW n \in Int
  PROVE  Decimal(n) = IF n < 0 THEN <<Minus>> \o Printed[-n] ELSE Printed[n]
BY DEF Decimal, Printed, Prints

\* A printed number has a digit, and only 0 begins with that of 0.
LEMMA PrintedBegins ==
  \A k \in Nat : /\ Printed[k] \in Seq(Digits) /\ Len(Printed[k]) \in Nat /\ Len(Printed[k]) >= 1
                 /\ k >= 1 => Printed[k][1] # 48
<1> DEFINE S == {k \in Nat : Len(Printed[k]) >= 1 /\ (k >= 1 => Printed[k][1] # 48)}
           rank == [k \in Nat |-> k]
<1>1. \A k \in Nat : Printed[k] \in Seq(Digits) /\ Len(Printed[k]) \in Nat
  BY PrintedIs
<1>2. ASSUME NEW k \in Nat, \A q \in Nat : rank[q] < rank[k] => q \in S PROVE k \in S
  <2>1. CASE k < 10
    <3>1. Printed[k] = <<48 + k>>
      BY <2>1, PrintedIs
    <3> QED
      BY <3>1
  <2>2. CASE k >= 10
    <3>1. PICK h, x, d : h = k \div 10 /\ x = Printed[h] /\ d = 48 + (k % 10)
      BY Zenon
    <3>2. h \in Nat /\ h < k /\ h >= 1
      BY <2>2, <3>1, TenthIs
    <3>3. h \in S
      BY <1>2, <3>2
    <3>4. x \in Seq(Digits) /\ Len(x) \in Nat /\ Len(x) >= 1 /\ x[1] # 48
      BY <1>1, <3>1, <3>2, <3>3
    <3>5. Printed[k] = Append(x, d)
      <4>1. ~(k < 10)
        BY <2>2
      <4> QED
        BY <3>1, <4>1, PrintedIs, Zenon
    <3>6. d \in Digits
      BY <3>1, TenthIs, DigitsAre
    <3>7. Len(Append(x, d)) = Len(x) + 1 /\ Append(x, d)[1] = x[1]
      BY <3>4, <3>6
    <3>8. Len(Printed[k]) >= 1 /\ Printed[k][1] # 48
      BY <3>4, <3>5, <3>7
    <3> QED
      BY <3>8
  <2> QED
    BY <2>1, <2>2
<1>3. Nat \subseteq S
  <2>1. rank \in [Nat -> Nat]
    OBVIOUS
  <2> HIDE DEF S, rank
  <2> QED
    BY <1>2, <2>1, RankInduction
<1> QED
  BY <1>1, <1>3

-------------------------------------------------------------------------------
\* The number of a text.

\* One turn of the loop of lpStringToInt64.
Digest(w, x) ==
  IF w > UMax \div 10 \/ w * 10 > UMax - (x - 48) THEN NotANumber ELSE w * 10 + (x - 48)

\* A text without digits is 0.
LEMMA DigestedNone == Digested(<<>>) = 0
<1>1. PICK d : d = <<>>
  BY Zenon
<1>2. d \in Seq(Bytes) /\ Len(d) = 0
  BY <1>1
<1>3. PICK v \in [0 .. Len(d) -> Int] : Digests(v, d) /\ Digested(d) = v[Len(d)]
  BY <1>2, DigestedIs
<1>4. v[0] = 0
  BY <1>2, <1>3 DEF Digests
<1> QED
  BY <1>1, <1>2, <1>3, <1>4

\* One more digit is one more turn.
LEMMA DigestedAppend ==
  ASSUME NEW d \in Seq(Bytes), NEW x \in Bytes
  PROVE  Digested(Append(d, x)) = Digest(Digested(d), x)
<1>1. PICK e, n : e = Append(d, x) /\ n = Len(d)
  BY Zenon
<1>2. /\ e \in Seq(Bytes) /\ n \in Nat /\ Len(e) = n + 1 /\ e[n + 1] = x
      /\ \A i \in 1 .. n : e[i] = d[i]
  BY <1>1
<1>3. PICK v \in [0 .. Len(d) -> Int] : Digests(v, d) /\ Digested(d) = v[Len(d)]
  BY DigestedIs
<1>4. PICK w \in [0 .. Len(e) -> Int] : Digests(w, e) /\ Digested(e) = w[Len(e)]
  BY <1>2, DigestedIs
<1>5. v[0] = 0 /\ \A i \in 1 .. n : v[i] = Digest(v[i - 1], d[i])
  <2>1. n = Len(d)
    BY <1>1
  <2>2. /\ v = [i \in 0 .. n |->
               IF i = 0 THEN 0
               ELSE LET y == d[i] - 48
                    IN  IF v[i - 1] > UMax \div 10 \/ v[i - 1] * 10 > UMax - y
                        THEN NotANumber ELSE v[i - 1] * 10 + y]
    BY <1>3, <2>1, Zenon DEF Digests
  <2>3. n \in Nat
    BY <1>2
  <2> QED
    BY <2>2, <2>3 DEF Digest
<1>6. w[0] = 0 /\ \A i \in 1 .. n + 1 : w[i] = Digest(w[i - 1], e[i])
  BY <1>2, <1>4 DEF Digests, Digest
<1>7. \A i \in 0 .. n : w[i] = v[i]
  <2> DEFINE S == {i \in Nat : i <= n => w[i] = v[i]}
  <2>1. 0 \in S
    BY <1>5, <1>6
  <2>2. ASSUME NEW i \in Nat, i \in S PROVE i + 1 \in S
    <3>1. SUFFICES ASSUME i + 1 <= n PROVE w[i + 1] = v[i + 1]
      OBVIOUS
    <3>2. i + 1 \in 1 .. n /\ i + 1 \in 1 .. n + 1 /\ i + 1 - 1 = i /\ i <= n
      BY <1>2, <3>1
    <3>3. w[i] = v[i] /\ e[i + 1] = d[i + 1]
      BY <1>2, <2>2, <3>2
    <3>4. w[i + 1] = Digest(w[i], e[i + 1]) /\ v[i + 1] = Digest(v[i], d[i + 1])
      BY <1>5, <1>6, <3>2
    <3> QED
      BY <3>3, <3>4, Zenon
  <2>3. Nat \subseteq S
    <3> HIDE DEF S
    <3> QED
      BY <2>1, <2>2, SetInduction
  <2> QED
    BY <2>3
<1>8. w[n + 1] = Digest(v[n], x)
  <2>1. n + 1 \in 1 .. n + 1 /\ n + 1 - 1 = n /\ n \in 0 .. n
    BY <1>2
  <2> QED
    BY <1>2, <1>6, <1>7, <2>1
<1> QED
  BY <1>1, <1>2, <1>3, <1>4, <1>8, Zenon

\* What was printed is read as the number.
LEMMA PrintedIsDigested ==
  \A k \in Nat : k <= UMax => Digested(Printed[k]) = k
<1> DEFINE S == {k \in Nat : k <= UMax => Digested(Printed[k]) = k}
           rank == [k \in Nat |-> k]
<1>1. ASSUME NEW k \in Nat, \A q \in Nat : rank[q] < rank[k] => q \in S PROVE k \in S
  <2> SUFFICES ASSUME k <= UMax PROVE Digested(Printed[k]) = k
    OBVIOUS
  <2>1. PICK u, t : u = UMax /\ t = u \div 10
    BY Zenon
  <2>2. u \in Nat /\ t \in Nat /\ t = UMax \div 10 /\ k <= u /\ u = 10 * t + (u % 10) /\ u % 10 \in 0 .. 9
    BY <2>1, IntMaxIs, TenthIs
  <2>3. CASE k < 10
    <3>1. PICK d, x : d = <<>> /\ x = 48 + k
      BY Zenon
    <3>2. d \in Seq(Bytes) /\ x \in Bytes /\ Append(d, x) = <<x>> /\ x - 48 = k
      BY <2>3, <3>1, BytesAre
    <3>3. Printed[k] = Append(d, x)
      BY <2>3, <3>1, <3>2, PrintedIs
    <3>4. Digested(d) = 0
      BY <3>1, DigestedNone
    <3>5. Digested(Printed[k]) = Digest(0, x)
      BY <3>2, <3>3, <3>4, DigestedAppend
    <3>6. Digest(0, x) = k
      <4>1. ~(0 > t) /\ ~(0 * 10 > u - k) /\ 0 * 10 + k = k
        BY <2>2
      <4> QED
        BY <2>1, <3>2, <4>1, Zenon DEF Digest
    <3> QED
      BY <3>5, <3>6
  <2>4. CASE k >= 10
    <3>1. PICK h, d, x : h = k \div 10 /\ d = Printed[h] /\ x = 48 + (k % 10)
      BY Zenon
    <3>2. h \in Nat /\ h < k /\ h >= 1 /\ k = 10 * h + (k % 10) /\ k % 10 \in 0 .. 9
      BY <2>4, <3>1, TenthIs
    <3>3. Digested(d) = h
      BY <1>1, <2>2, <3>1, <3>2, <2>1
    <3>4. d \in Seq(Bytes) /\ x \in Bytes
      <4>1. x \in Bytes
        BY <3>1, <3>2, BytesAre
      <4>2. d \in Seq(Digits)
        BY <3>1, <3>2, PrintedIs
      <4>3. \A y : y \in Digits => y \in Bytes
        BY DigitsAre, BytesAre
      <4> QED
        BY <4>1, <4>2, <4>3
    <3>5. Printed[k] = Append(d, x)
      <4>1. ~(k < 10)
        BY <2>4
      <4> QED
        BY <3>1, <4>1, PrintedIs, Zenon
    <3>6. Digested(Printed[k]) = Digest(h, x)
      BY <3>3, <3>4, <3>5, DigestedAppend
    <3>7. Digest(h, x) = k
      <4>1. PICK r : r = k % 10
        BY Zenon
      <4>2. x - 48 = r /\ r \in 0 .. 9 /\ k = 10 * h + r
        BY <3>1, <3>2, <4>1
      <4>3. ~(h > t) /\ ~(h * 10 > u - r) /\ h * 10 + r = k
        BY ONLY <2>2, <3>2, <4>2, k \in Nat
      <4> QED
        BY <2>1, <4>2, <4>3, Zenon DEF Digest
    <3> QED
      BY <3>6, <3>7
  <2> QED
    BY <2>3, <2>4
<1>2. Nat \subseteq S
  <2>1. rank \in [Nat -> Nat]
    OBVIOUS
  <2> HIDE DEF S, rank
  <2> QED
    BY <1>1, <2>1, RankInduction
<1> QED
  BY <1>2

\* A digit that is not too large is put behind the others.
LEMMA DigestFits ==
  ASSUME NEW w \in Int, NEW x \in Digits, Digest(w, x) <= UMax
  PROVE  w <= UMax /\ Digest(w, x) = w * 10 + (x - 48)
<1>1. PICK u, t, m : u = UMax /\ t = UMax \div 10 /\ m = NotANumber
  BY Zenon
<1>2. u \in Nat /\ m = u + 1 /\ t \in Int /\ t <= u
  <2>1. u \in Nat /\ m = u + 1
    BY <1>1, IntMaxIs DEF NotANumber
  <2>2. t = u \div 10
    BY <1>1
  <2> QED
    BY <2>1, <2>2
<1>3. Digest(w, x) = IF w > t \/ w * 10 > u - (x - 48) THEN m ELSE w * 10 + (x - 48)
  BY <1>1, Zenon DEF Digest
<1>4. x \in Nat
  BY DigitsAre
<1> QED
  BY <1>1, <1>2, <1>3, <1>4

\* A text of digits is the one its number is printed as, unless it begins with 0
\* or is too large.
LEMMA DigestedIsPrinted ==
  ASSUME NEW d \in Seq(Digits), d # <<>>, d[1] # 48, Digested(d) <= UMax
  PROVE  Digested(d) \in Nat /\ Digested(d) >= 1 /\ Printed[Digested(d)] = d
<1> DEFINE Is(x) == Digested(x) \in Nat /\ Digested(x) >= 1 /\ Printed[Digested(x)] = x
           S == {n \in Nat : \A x \in Seq(Digits) :
                   Len(x) = n + 1 /\ x[1] # 48 /\ Digested(x) <= UMax => Is(x)}
<1>1. \A x \in Seq(Digits) : x \in Seq(Bytes)
  <2>1. \A y : y \in Digits => y \in Bytes
    BY DigitsAre, BytesAre
  <2> QED
    BY <2>1
<1>2. \A x \in Seq(Bytes) : Digested(x) \in Int
  <2>1. ASSUME NEW x \in Seq(Bytes) PROVE Digested(x) \in Int
    <3>1. Len(x) \in 0 .. Len(x)
      BY LenProperties
    <3> QED
      BY <3>1, DigestedIs
  <2> QED
    BY <2>1
<1>3. 0 \in S
  <2> SUFFICES ASSUME NEW x \in Seq(Digits), Len(x) = 1, x[1] # 48, Digested(x) <= UMax
               PROVE  Is(x)
    OBVIOUS
  <2>1. PICK y, e : y = x[1] /\ e = <<>>
    BY Zenon
  <2>2. y \in Digits /\ x = Append(e, y) /\ e \in Seq(Bytes) /\ x = <<y>>
    <3>1. y \in Digits
      <4>1. 1 \in 1 .. Len(x)
        OBVIOUS
      <4> QED
        BY <2>1, <4>1, ElementOfSeq
    <3>2. x = <<y>>
      BY <2>1
    <3>3. Append(e, y) = <<y>> /\ e \in Seq(Bytes)
      BY <2>1
    <3> QED
      BY <3>1, <3>2, <3>3
  <2>3. y \in Bytes
    BY <2>2, DigitsAre, BytesAre
  <2>4. Digested(x) = Digest(Digested(e), y)
    BY <2>2, <2>3, DigestedAppend, Zenon
  <2>5. Digested(x) = 0 * 10 + (y - 48)
    <3>1. Digested(e) = 0
      BY <2>1, DigestedNone
    <3>2. Digested(x) = Digest(0, y) /\ 0 \in Int
      BY <2>4, <3>1
    <3> QED
      BY <2>2, <3>2, DigestFits
  <2>6. y \in Nat /\ y >= 49 /\ y <= 57
    BY <2>1, <2>2, DigitsAre
  <2>7. PICK k : k = Digested(x)
    BY Zenon
  <2>8. k \in Nat /\ k >= 1 /\ k < 10 /\ 48 + k = y
    BY <2>5, <2>6, <2>7
  <2>9. Printed[k] = <<y>>
    BY <2>8, PrintedIs
  <2> QED
    BY <2>2, <2>7, <2>8, <2>9
<1>4. ASSUME NEW n \in Nat, n \in S PROVE n + 1 \in S
  <2> SUFFICES ASSUME NEW x \in Seq(Digits), Len(x) = n + 2, x[1] # 48, Digested(x) <= UMax
               PROVE  Is(x)
    OBVIOUS
  <2>1. PICK y, e : y = x[n + 2] /\ e = [i \in 1 .. n + 1 |-> x[i]]
    BY Zenon
  <2>2. y \in Digits /\ e \in Seq(Digits) /\ Len(e) = n + 1 /\ e[1] = x[1]
    BY <2>1
  <2>3. x = Append(e, y)
    BY <2>1, <2>2
  <2>4. y \in Bytes /\ e \in Seq(Bytes)
    BY <1>1, <2>2, DigitsAre, BytesAre
  <2>5. PICK h, k : h = Digested(e) /\ k = Digested(x)
    BY Zenon
  <2>6. h \in Int /\ k = Digest(h, y)
    BY <1>2, <2>3, <2>4, <2>5, DigestedAppend
  <2>7. h <= UMax /\ k = h * 10 + (y - 48)
    BY <2>2, <2>5, <2>6, DigestFits
  <2>8. h \in Nat /\ h >= 1 /\ Printed[h] = e
    BY <1>4, <2>2, <2>5, <2>7
  <2>9. y \in Nat /\ y >= 48 /\ y <= 57
    BY <2>2, DigitsAre
  <2>10. k \in Nat /\ k >= 10 /\ ~(k < 10) /\ k \div 10 = h /\ 48 + (k % 10) = y
    BY <2>7, <2>8, <2>9
  <2>11. Printed[k] = Append(e, y)
    BY <2>8, <2>10, PrintedIs
  <2> QED
    BY <2>3, <2>5, <2>10, <2>11
<1>5. Nat \subseteq S
  <2> HIDE DEF S
  <2> QED
    BY <1>3, <1>4, SetInduction
<1>6. Len(d) \in Nat /\ Len(d) >= 1
  BY EmptySeq, LenProperties
<1>7. Len(d) - 1 \in S /\ Len(d) = (Len(d) - 1) + 1
  <2> HIDE DEF S
  <2> QED
    BY <1>5, <1>6
<1> QED
  BY <1>7

\* Numbers below p have c digits at most.
PrintedIn(p, c) == \A k \in Nat : k < p => Len(Printed[k]) <= c

\* Numbers below ten times that have one digit more.
LEMMA PrintedInMore ==
  ASSUME NEW p \in Nat, NEW c \in Nat, c >= 1, PrintedIn(p, c)
  PROVE  PrintedIn(p * 10, c + 1)
<1> SUFFICES ASSUME NEW k \in Nat, k < p * 10 PROVE Len(Printed[k]) <= c + 1
  BY DEF PrintedIn
<1>1. CASE k < 10
  <2>1. Printed[k] = <<48 + k>>
    BY <1>1, PrintedIs
  <2> QED
    BY <2>1
<1>2. CASE ~(k < 10)
  <2>1. PICK h, x, d : h = k \div 10 /\ x = Printed[h] /\ d = 48 + (k % 10)
    BY Zenon
  <2>2. h \in Nat /\ h < p
    BY <2>1
  <2>3. Len(x) <= c /\ Len(x) \in Nat /\ x \in Seq(Digits)
    BY <2>1, <2>2, PrintedBegins DEF PrintedIn
  <2>4. Printed[k] = Append(x, d)
    BY <1>2, <2>1, PrintedIs, Zenon
  <2>5. d \in Digits
    BY <2>1, TenthIs, DigitsAre
  <2>6. Len(Append(x, d)) = Len(x) + 1
    BY <2>3, <2>5
  <2> QED
    BY <2>3, <2>4, <2>6
<1> QED
  BY <1>1, <1>2

\* A number of 32 bits, and what it is without its sign.
FitsInt(v) == v >= -2147483647 - 1 /\ v <= 2147483647
FitsUnsigned(k) == k <= 2147483648

\* Ten digits do for 32 bits.
LEMMA PrintedShortly ==
  ASSUME NEW k \in Nat, FitsUnsigned(k)
  PROVE  Len(Printed[k]) <= 10
<1>1. PrintedIn(10, 1)
  <2>1. ASSUME NEW h \in Nat, h < 10 PROVE Len(Printed[h]) <= 1
    <3>1. Printed[h] = <<48 + h>>
      BY <2>1, PrintedIs
    <3> QED
      BY <3>1
  <2> QED
    BY <2>1 DEF PrintedIn
<1>2. PICK a, b, c, d, e, f, g, h :
        /\ a = 10 * 10 /\ b = a * 10 /\ c = b * 10 /\ d = c * 10 /\ e = d * 10
        /\ f = e * 10 /\ g = f * 10 /\ h = g * 10
  BY Zenon
<1>3. PICK m : m = h * 10
  BY Zenon
<1>4. /\ a = 100 /\ b = 1000 /\ c = 10000 /\ d = 100000 /\ e = 1000000 /\ f = 10000000
      /\ g = 100000000
  BY <1>2
<1>5. /\ 10 \in Nat /\ a \in Nat /\ b \in Nat /\ c \in Nat /\ d \in Nat /\ e \in Nat /\ f \in Nat
      /\ g \in Nat /\ h \in Nat /\ m \in Nat
  BY <1>2, <1>3, SMT
<1>6. PrintedIn(a, 2)
  BY <1>1, <1>2, PrintedInMore, SMT
<1>7. PrintedIn(b, 3)
  BY <1>2, <1>5, <1>6, PrintedInMore, SMT
<1>8. PrintedIn(c, 4)
  BY <1>2, <1>5, <1>7, PrintedInMore, SMT
<1>9. PrintedIn(d, 5)
  BY <1>2, <1>5, <1>8, PrintedInMore, SMT
<1>10. PrintedIn(e, 6)
  BY <1>2, <1>5, <1>9, PrintedInMore, SMT
<1>11. PrintedIn(f, 7)
  BY <1>2, <1>5, <1>10, PrintedInMore, SMT
<1>12. PrintedIn(g, 8)
  BY <1>2, <1>5, <1>11, PrintedInMore, SMT
<1>13. PrintedIn(h, 9)
  BY <1>2, <1>5, <1>12, PrintedInMore, SMT
<1>14. PrintedIn(m, 10)
  BY <1>3, <1>5, <1>13, PrintedInMore, SMT
<1>15. k < m
  <2>1. h = g * 10
    BY <1>2
  <2> QED
    BY <1>3, <1>4, <2>1, SMT DEF FitsUnsigned
<1> QED
  BY <1>14, <1>15, SMT DEF PrintedIn

\* A text of digits has no sign.
LEMMA Unsigned ==
  ASSUME NEW d \in Seq(Digits), d # <<>>
  PROVE  Magnitude(d) = d
<1>1. d[1] \in Digits
  <2>1. 1 \in 1 .. Len(d)
    BY EmptySeq, LenProperties
  <2> QED
    BY <2>1, ElementOfSeq
<1>2. d[1] # Minus
  BY <1>1, DigitsAre DEF Minus
<1> QED
  BY <1>2 DEF Magnitude

\* What lies behind a sign.
LEMMA SignedIs ==
  ASSUME NEW q \in Seq(Digits), q # <<>>, NEW s, s = <<Minus>> \o q
  PROVE  Magnitude(s) = q /\ s # q /\ s # <<48>> /\ Len(s) = Len(q) + 1
<1>1. PICK h : h = Minus
  BY Zenon
<1>2. h \in Bytes /\ h = 45
  BY <1>1, BytesAre DEF Minus
<1>3. q \in Seq(Bytes) /\ Len(q) \in Nat /\ Len(q) >= 1
  <2>1. \A y : y \in Digits => y \in Bytes
    BY DigitsAre, BytesAre
  <2>2. q \in Seq(Bytes)
    BY <2>1
  <2> QED
    BY <2>2, EmptySeq, LenProperties
<1>4. /\ s \in Seq(Bytes) /\ Len(s) = 1 + Len(q) /\ s[1] = h
      /\ \A i \in 1 .. Len(q) : s[i + 1] = q[i]
  <2>1. s = <<h>> \o q
    BY <1>1, Zenon
  <2>2. h \in Bytes /\ q \in Seq(Bytes)
    BY <1>2, <1>3
  <2> QED
    BY ONLY <2>1, <2>2, PrefixedIs, SMT
<1>5. s # <<>> /\ s # q /\ s # <<48>> /\ Len(s) = Len(q) + 1
  BY <1>2, <1>3, <1>4
<1>6. Tail(s) = q
  <2>1. Tail(s) \in Seq(Bytes) /\ Len(Tail(s)) = Len(q) /\ \A i \in 1 .. Len(q) : Tail(s)[i] = s[i + 1]
    BY <1>3, <1>4, <1>5
  <2> QED
    BY <1>3, <1>4, <2>1
<1>7. Magnitude(s) = Tail(s)
  BY <1>1, <1>4, <1>5 DEF Magnitude
<1> QED
  BY <1>5, <1>6, <1>7

\* 0 is printed as its digit.
LEMMA PrintedZero == Printed[0] = <<48>>
<1>1. 0 \in Nat /\ 0 < 10 /\ 48 + 0 = 48
  BY SMT
<1>2. Printed[0] = IF 0 < 10 THEN <<48 + 0>> ELSE Append(Printed[0 \div 10], 48 + (0 % 10))
  BY <1>1, PrintedIs, Zenon
<1> QED
  BY <1>1, <1>2, Zenon

\* A number is what its text is read as.
LEMMA NumberOfDecimal ==
  ASSUME NEW v \in Int, v >= -IntMax - 1, v <= IntMax, FitsInt(v)
  PROVE  NumberIn(Decimal(v)) = v
<1>1. PICK m, u, w : m = IntMax /\ u = UMax /\ w = NotANumber
  BY Zenon
<1>2. m \in Nat /\ u = 2 * m + 1 /\ w = u + 1
  BY <1>1, IntMaxIs DEF UMax, NotANumber
<1>3. v >= -m - 1 /\ v <= m
  BY <1>1
<1>4. CASE v = 0
  <2>1. Decimal(v) = <<48>>
    BY <1>4, PrintedZero, DecimalIs
  <2> QED
    BY <1>4, <2>1 DEF NumberIn
<1>5. CASE v > 0
  <2>1. PICK s : s = Printed[v]
    BY Zenon
  <2>2. Decimal(v) = s
    BY <1>5, <2>1, DecimalIs
  <2>3. s \in Seq(Digits) /\ Len(s) \in Nat /\ Len(s) >= 1 /\ s[1] # 48 /\ Len(s) <= 10
    <3>1. v \in Nat /\ v >= 1
      BY <1>5
    <3>2. FitsUnsigned(v)
      BY <3>1, SMT DEF FitsInt, FitsUnsigned
    <3> QED
      BY <2>1, <3>1, <3>2, PrintedBegins, PrintedShortly
  <2>4. s # <<>> /\ s # <<48>> /\ ~(Len(s) >= 21) /\ \A i \in DOMAIN s : s[i] \in Digits
    BY <2>3
  <2>5. Magnitude(s) = s
    BY <2>3, <2>4, Unsigned
  <2>6. Digested(s) = v
    <3>1. v <= u /\ v \in Nat
      BY <1>2, <1>3, <1>5
    <3> QED
      BY <1>1, <2>1, <3>1, PrintedIsDigested
  <2>7. InRange(s, v) = v
    <3>1. ~(v > IntMax)
      BY <1>1, <1>2, <1>3
    <3> QED
      BY <2>5, <3>1, Zenon DEF InRange
  <2>8. NumberIn(s) = InRange(s, Digested(s))
    BY <2>3, <2>4, <2>5, Zenon DEF NumberIn
  <2> QED
    BY <2>2, <2>6, <2>7, <2>8
<1>6. CASE v < 0
  <2>1. PICK k, q : k = -v /\ q = Printed[k]
    BY Zenon
  <2>2. PICK s : s = <<Minus>> \o q
    BY Zenon
  <2>3. k \in Nat /\ k >= 1 /\ k <= m + 1 /\ -k = v
    BY <1>2, <1>3, <1>6, <2>1
  <2>4. Decimal(v) = s
    BY <1>6, <2>1, <2>2, DecimalIs, Zenon
  <2>5. q \in Seq(Digits) /\ Len(q) \in Nat /\ Len(q) >= 1 /\ q[1] # 48 /\ Len(q) <= 10
    <3>1. FitsUnsigned(k)
      BY <2>3, SMT DEF FitsInt, FitsUnsigned
    <3> QED
      BY <2>1, <2>3, <3>1, PrintedBegins, PrintedShortly
  <2>6. q # <<>> /\ \A i \in DOMAIN q : q[i] \in Digits
    BY <2>5
  <2>7. Magnitude(s) = q /\ s # q /\ s # <<48>> /\ Len(s) = Len(q) + 1
    BY <2>2, <2>5, <2>6, SignedIs, Zenon
  <2>8. ~(Len(s) >= 21)
    BY <2>5, <2>7
  <2>9. Digested(q) = k
    <3>1. k <= u
      BY <1>2, <2>3
    <3> QED
      BY <1>1, <2>1, <2>3, <3>1, PrintedIsDigested
  <2>10. InRange(s, k) = v
    <3>1. ~(Magnitude(s) = s) /\ ~(k > IntMax + 1)
      BY <1>1, <1>2, <2>3, <2>7
    <3> QED
      BY <2>3, <3>1, Zenon DEF InRange
  <2>11. NumberIn(s) = InRange(s, Digested(q))
    BY <2>5, <2>6, <2>7, <2>8, Zenon DEF NumberIn
  <2> QED
    BY <2>4, <2>9, <2>10, <2>11
<1> QED
  BY <1>4, <1>5, <1>6

\* What is behind a sign, and the sign, are the text.
LEMMA SignAndTail ==
  ASSUME NEW s \in Seq(Bytes), s # <<>>, s[1] = Minus, NEW q, q = Tail(s)
  PROVE  s = <<Minus>> \o q /\ q \in Seq(Bytes)
<1>1. PICK h : h = Minus
  BY Zenon
<1>2. h \in Bytes
  BY <1>1, BytesAre DEF Minus
<1>3. PICK n : n = Len(s)
  BY Zenon
<1>4. n \in Nat /\ n >= 1
  BY <1>3, EmptySeq, LenProperties
<1>5. q \in Seq(Bytes) /\ Len(q) = n - 1 /\ \A i \in 1 .. n - 1 : q[i] = s[i + 1]
  BY <1>3, <1>4
<1>6. PICK y : y = <<h>> \o q
  BY Zenon
<1>7. y \in Seq(Bytes) /\ Len(y) = n /\ y[1] = h /\ \A i \in 1 .. n - 1 : y[i + 1] = q[i]
  <2>1. /\ y \in Seq(Bytes) /\ Len(y) = 1 + Len(q) /\ y[1] = h
        /\ \A i \in 1 .. Len(q) : y[i + 1] = q[i]
    BY <1>2, <1>5, <1>6, PrefixedIs
  <2> QED
    BY <1>4, <1>5, <2>1
<1>8. \A j \in 1 .. n : y[j] = s[j]
  <2>1. ASSUME NEW j \in 1 .. n PROVE y[j] = s[j]
    <3>1. CASE j = 1
      BY <1>1, <1>7, <3>1
    <3>2. CASE j # 1
      <4>1. j - 1 \in 1 .. n - 1 /\ (j - 1) + 1 = j
        BY <1>4, <3>2
      <4> QED
        BY <1>5, <1>7, <4>1
    <3> QED
      BY <3>1, <3>2
  <2> QED
    BY <2>1
<1>9. y = s
  BY <1>3, <1>7, <1>8
<1> QED
  BY <1>1, <1>5, <1>6, <1>9

\* A text that is read as a number is the one the number is printed as.
LEMMA DecimalOfNumber ==
  ASSUME NEW s \in Seq(Bytes), NumberIn(s) # NotANumber
  PROVE  Decimal(NumberIn(s)) = s /\ NumberIn(s) \in Int
<1>1. PICK m, u, w : m = IntMax /\ u = UMax /\ w = NotANumber
  BY Zenon
<1>2. m \in Nat /\ u = 2 * m + 1 /\ w = u + 1
  BY <1>1, IntMaxIs DEF UMax, NotANumber
<1>3. PICK d : d = Magnitude(s)
  BY Zenon
<1>4. NumberIn(s) \in Int
  BY NumberInType
<1>5. CASE s = <<48>>
  <2>1. NumberIn(s) = 0
    BY <1>5 DEF NumberIn
  <2>2. Decimal(0) = Printed[0] /\ Printed[0] = <<48>>
    BY PrintedZero, DecimalIs
  <2> QED
    BY <1>4, <1>5, <2>1, <2>2
<1>6. CASE s # <<48>>
  <2>1. /\ d # <<>> /\ d[1] # 48 /\ \A i \in DOMAIN d : d[i] \in Digits
        /\ NumberIn(s) = InRange(s, Digested(d))
    BY <1>3, <1>6, Zenon DEF NumberIn
  <2>2. d \in Seq(Bytes)
    BY <1>3 DEF Magnitude
  <2>3. d \in Seq(Digits)
    BY <2>1, <2>2
  <2>4. PICK k : k = Digested(d)
    BY Zenon
  <2>5. k \in Int
    <3>1. Len(d) \in 0 .. Len(d)
      BY <2>2, LenProperties
    <3> QED
      BY <2>2, <2>4, <3>1, DigestedIs
  <2>6. k <= u => k \in Nat /\ k >= 1 /\ Printed[k] = d
    BY <1>1, <2>1, <2>3, <2>4, DigestedIsPrinted
  <2>7. CASE d = s
    <3>1. ~(k > m) /\ NumberIn(s) = k
      BY <1>1, <1>3, <2>1, <2>4, <2>7, Zenon DEF InRange
    <3>2. k <= u
      BY <1>2, <2>5, <3>1
    <3>3. Decimal(k) = Printed[k]
      BY <2>6, <3>2, DecimalIs
    <3> QED
      BY <1>4, <2>6, <2>7, <3>1, <3>2, <3>3
  <2>8. CASE d # s
    <3>1. ~(k > m + 1) /\ NumberIn(s) = -k
      BY <1>1, <1>3, <2>1, <2>4, <2>8, Zenon DEF InRange
    <3>2. k \in Nat /\ k >= 1 /\ Printed[k] = d
      <4>1. k <= u
        BY <1>2, <2>5, <3>1
      <4> QED
        BY <2>6, <4>1
    <3>3. s # <<>> /\ s[1] = Minus /\ d = Tail(s)
      BY <1>3, <2>8, Zenon DEF Magnitude
    <3>4. s = <<Minus>> \o d
      BY <3>3, SignAndTail
    <3>5. Decimal(-k) = <<Minus>> \o Printed[k]
      <4>1. -k \in Int /\ -k < 0 /\ -(-k) = k
        BY <3>2
      <4> QED
        BY <4>1, DecimalIs
    <3> QED
      BY <1>4, <3>1, <3>2, <3>4, <3>5
  <2> QED
    BY <2>7, <2>8
<1> QED
  BY <1>5, <1>6

-------------------------------------------------------------------------------
\* The text of an entry.

\* What a number is read as: as itself, or as one that ends in its 24 bits.
NumberReads(v) ==
  IF Fits16(v) THEN {Decimal(v)}
  ELSE {Decimal((u % 16777216) + 16777216) : u \in IF v < 0 THEN {v, v + 1} ELSE {v}}

\* The low 24 bits of a number are in its first three bytes.
LEMMA ThreeBytesOf ==
  ASSUME NEW u \in Int
  PROVE  Of4(ByteOf(u, 1), ByteOf(u, 2), ByteOf(u, 3), 0) = u % 16777216
<1>1. PICK p, q, a, b, c :
        p = u \div 256 /\ q = u \div 65536 /\ a = u % 256 /\ b = p % 256 /\ c = q % 256
  BY SMT
<1>2. p \in Int /\ q \in Int /\ u = 256 * p + a /\ a \in 0 .. 255
  BY <1>1
<1>3. p = 256 * q + b /\ b \in 0 .. 255
  BY <1>1, SMT
<1>4. PICK r : r = q \div 256
  BY Zenon
<1>5. r \in Int /\ q = 256 * r + c /\ c \in 0 .. 255
  BY <1>1, <1>2, <1>4
<1>6. a + 256 * b + 65536 * c = u % 16777216
  BY ONLY <1>2, <1>3, <1>5, u \in Int, SMT
<1>7. ByteOf(u, 1) = a /\ ByteOf(u, 2) = b /\ ByteOf(u, 3) = c
  <2>1. ByteOf(u, 1) = a
    BY <1>1, SMT DEF ByteOf
  <2>2. ByteOf(u, 2) = b
    BY <1>1, SMT DEF ByteOf
  <2>3. ByteOf(u, 3) = c
    BY <1>1, SMT DEF ByteOf
  <2> QED
    BY <2>1, <2>2, <2>3
<1> QED
  BY <1>2, <1>3, <1>5, <1>6, <1>7, SMT DEF Of4

\* A byte of an encoding, where it is read.
LEMMA StandsAtIs ==
  ASSUME NEW e, NEW o \in Int, StandsAt(e, o), NEW i \in 1 .. Len(e), NEW p, p = o + i - 1
  PROVE  Byte(p) = e[i]
BY DEF StandsAt

\* len bytes of the block, and what the k-th byte of a number is worth.
Chars(from, len) == [i \in 1 .. len |-> Byte(from + i - 1)]
Weight(k) == <<1, 256, 65536, 16777216>>[k]
Integer(o, k) == Decimal(Word(o + 1, k - 1) + Weight(k) * Signed(Byte(o + k), 128))

\* What lpGet returns, by the first byte.
LEMMA GetIs ==
  ASSUME lp \in Seq(Bytes), NEW o \in Int, NEW b, b = Byte(o), NEW l, l = EncodedSize(o)
  PROVE  /\ b < 128 => Get(o) = Decimal(b)
         /\ b >= 128 /\ b < 192 => Get(o) = Chars(o + 1, b % 64)
         /\ b >= 192 /\ b < 224
              => Get(o) = Decimal(Signed((b % 32) * 256 + Byte(o + 1), 4096))
         /\ b >= 224 /\ b < 240 => Get(o) = Chars(o + 2, l - 2)
         /\ b = 240 => Get(o) = Chars(o + 5, l - 5)
         /\ b >= 241 => Get(o) = Integer(o, l - 1)
<1>1. b \in Nat
  BY ByteType, BytesAre
<1>2. Get(o) = CASE Byte(o) < 128 -> Decimal(Byte(o))
                 [] Byte(o) >= 128 /\ Byte(o) < 192 -> Chars(o + 1, Byte(o) % 64)
                 [] Byte(o) >= 192 /\ Byte(o) < 224
                    -> Decimal(Signed((Byte(o) % 32) * 256 + Byte(o + 1), 4096))
                 [] Byte(o) >= 224 /\ Byte(o) < 240 -> Chars(o + 2, EncodedSize(o) - 2)
                 [] Byte(o) = 240 -> Chars(o + 5, EncodedSize(o) - 5)
                 [] OTHER -> Integer(o, EncodedSize(o) - 1)
  BY DEF Get, Chars, Integer, Weight
<1> QED
  BY <1>1, <1>2

\* Words of the block whose bytes are known.
LEMMA WordIs ==
  ASSUME NEW o \in Int, NEW a, NEW b, NEW c, Byte(o) = a, Byte(o + 1) = b, Byte(o + 2) = c
  PROVE  /\ a \in Int => Word(o, 1) = Of4(a, 0, 0, 0)
         /\ a \in Int /\ b \in Int /\ c \in Int => Word(o, 3) = Of4(a, b, c, 0)
<1>1. o + 0 = o
  OBVIOUS
<1> QED
  BY <1>1, SMT DEF Word, Of4

\* A number of seven bits.
LEMMA Reads7 ==
  ASSUME lp \in Seq(Bytes), NEW o \in Int, NEW v \in Int, v >= 0, v <= 127,
         NEW e \in IntEncodings(v), StandsAt(e, o)
  PROVE  Get(o) = Decimal(v)
<1>1. e = <<v>>
  BY DEF IntEncodings
<1>2. Byte(o) = v
  <2>1. 1 \in 1 .. Len(e) /\ o = o + 1 - 1 /\ e[1] = v
    BY <1>1
  <2> QED
    BY <2>1, StandsAtIs
<1>3. Byte(o) < 128
  BY <1>2
<1> QED
  BY <1>2, <1>3, GetIs

\* A number of 13 bits.
LEMMA Reads13 ==
  ASSUME lp \in Seq(Bytes), NEW o \in Int, NEW v \in Int, ~(v >= 0 /\ v <= 127),
         v >= -4096, v <= 4095,
         NEW e \in IntEncodings(v), StandsAt(e, o)
  PROVE  Get(o) = Decimal(v)
<1>1. PICK u, h, l : u = v % 8192 /\ h = 192 + u \div 256 /\ l = u % 256
  OBVIOUS
<1>2. e = <<h, l>>
  BY <1>1 DEF IntEncodings
<1>3. u \in Nat /\ u < 8192 /\ u = IF v < 0 THEN v + 8192 ELSE v
  BY <1>1
<1>4. h \in Nat /\ h >= 192 /\ h < 224 /\ l \in Nat /\ l < 256 /\ (h % 32) * 256 + l = u
  BY <1>1, <1>3
<1>5. Byte(o) = h /\ Byte(o + 1) = l
  <2>1. /\ 1 \in 1 .. Len(e) /\ o = o + 1 - 1 /\ e[1] = h
        /\ 2 \in 1 .. Len(e) /\ o + 1 = o + 2 - 1 /\ e[2] = l
    BY <1>2
  <2>2. Byte(o) = e[1]
    BY <2>1, StandsAtIs
  <2>3. Byte(o + 1) = e[2]
    BY <2>1, StandsAtIs
  <2> QED
    BY <2>1, <2>2, <2>3
<1>6. Get(o) = Decimal(Signed((h % 32) * 256 + l, 4096))
  BY <1>4, <1>5, GetIs
<1>7. Signed(u, 4096) = v
  BY <1>3 DEF Signed
<1> QED
  BY <1>4, <1>6, <1>7

\* A number of 16 bits.
LEMMA Reads16 ==
  ASSUME lp \in Seq(Bytes), NEW o \in Int, NEW v \in Int, ~(v >= -4096 /\ v <= 4095), Fits16(v),
         NEW e \in IntEncodings(v), StandsAt(e, o)
  PROVE  Get(o) = Decimal(v)
<1>1. PICK u, h : u = v % 65536 /\ h = 241
  BY SMT
<1>2. PICK x : x = LittleEndian(u, 2)
  OBVIOUS
<1>3. e = <<h>> \o x
  <2>1. ~(v >= 0 /\ v <= 127)
    OBVIOUS
  <2> QED
    BY <1>1, <1>2, <2>1, SMTT(30) DEF IntEncodings
<1>4. u \in Int /\ FitsHalf(u) /\ (u = IF v < 0 THEN v + 65536 ELSE v)
  BY <1>1, SMT DEF FitsHalf, Fits16
<1>5. PICK a, b : a = ByteOf(u, 1) /\ b = ByteOf(u, 2)
  OBVIOUS
<1>6. x \in Seq(Bytes) /\ Len(x) = 2 /\ x[1] = a /\ x[2] = b
  <2>1. 2 \in 1 .. 4 /\ 1 \in 1 .. 2 /\ 2 \in 1 .. 2
    OBVIOUS
  <2>2. x \in Seq(Bytes) /\ Len(x) = 2 /\ \A i \in 1 .. 2 : x[i] = ByteOf(u, i)
    BY <1>2, <1>4, <2>1, LittleEndianIs, SMTT(30)
  <2> QED
    BY <1>5, <2>1, <2>2
<1>7. a \in Nat /\ a < 256 /\ b \in Nat /\ b < 256
  BY <1>4, <1>5, SMT DEF ByteOf
<1>8. e \in Seq(Bytes) /\ Len(e) = 3 /\ e[1] = h /\ e[2] = a /\ e[3] = b
  <2>1. h \in Bytes
    BY <1>1, BytesAre, SMTT(30)
  <2>2. /\ e \in Seq(Bytes) /\ Len(e) = 1 + Len(x) /\ e[1] = h
        /\ \A i \in 1 .. Len(x) : e[i + 1] = x[i]
    <3>1. x \in Seq(Bytes)
      BY <1>6
    <3> QED
      BY ONLY <1>3, <2>1, <3>1, PrefixedIs, SMT
  <2>3. e[1 + 1] = x[1] /\ e[2 + 1] = x[2]
    BY <1>6, <2>2
  <2> QED
    BY <1>6, <2>2, <2>3
<1>9. Byte(o) = h /\ Byte(o + 1) = a /\ Byte(o + 2) = b
  <2>1. /\ 1 \in 1 .. Len(e) /\ o = o + 1 - 1
        /\ 2 \in 1 .. Len(e) /\ o + 1 = o + 2 - 1
        /\ 3 \in 1 .. Len(e) /\ o + 2 = o + 3 - 1
    BY <1>8
  <2>2. Byte(o) = e[1] /\ Byte(o + 1) = e[2] /\ Byte(o + 2) = e[3]
    BY <2>1, StandsAtIs
  <2> QED
    BY <1>8, <2>2
<1>10. EncodedSize(o) = 3
  <2>1. WellFormed(e)
    BY IntEncodingsWellFormed
  <2>2. EncodedSize(o) = Len(e)
    BY <2>1, EncodedSizeReads
  <2> QED
    BY <1>8, <2>2
<1>11. Get(o) = Integer(o, 2)
  <2>1. Byte(o) >= 241 /\ 3 - 1 = 2
    BY <1>1, <1>9, SMTT(30)
  <2> QED
    BY <1>10, <2>1, GetIs
<1>12. Integer(o, 2) = Decimal(a + 256 * Signed(b, 128))
  <2>1. Word(o + 1, 1) = a
    <3>1. Word(o + 1, 1) = Of4(a, 0, 0, 0)
      BY <1>7, <1>9, WordIs
    <3> QED
      BY <1>7, <3>1, SMT DEF Of4
  <2>2. Weight(2) = 256 /\ 2 - 1 = 1
    BY SMT DEF Weight
  <2> QED
    BY <1>9, <2>1, <2>2 DEF Integer
<1>13. a + 256 * Signed(b, 128) = v
  <2>1. u = a + 256 * b
    <3>1. u = Of4(a, b, 0, 0)
      BY <1>4, <1>5, TwoBytesOf
    <3> QED
      BY <1>7, <3>1, SMT DEF Of4
  <2> QED
    BY <1>4, <1>7, <2>1, SMT DEF Signed, Fits16
<1> QED
  BY <1>11, <1>12, <1>13

\* A number of more bits is read as another.
LEMMA Reads32 ==
  ASSUME lp \in Seq(Bytes), NEW o \in Int, NEW v \in Int, ~Fits16(v),
         NEW e \in IntEncodings(v), StandsAt(e, o)
  PROVE  Get(o) \in NumberReads(v)
<1>1. PICK U : U = IF v < 0 THEN {v, v + 1} ELSE {v}
  BY Zenon
<1>2. PICK u \in U : e = <<243>> \o LittleEndian(u, 3) \o <<1>>
  <2>1. ~(v >= 0 /\ v <= 127) /\ ~(v >= -4096 /\ v <= 4095)
    BY SMT DEF Fits16
  <2>2. e \in Encodings32(v)
    BY <2>1 DEF IntEncodings
  <2> QED
    BY <1>1, <2>2, Zenon DEF Encodings32
<1>3. u \in Int
  BY <1>1, <1>2
<1>4. PICK x, h, t : x = LittleEndian(u, 3) /\ h = 243 /\ t = 1
  OBVIOUS
<1>5. PICK y : y = <<h>> \o x
  OBVIOUS
<1>6. e = y \o <<t>>
  BY <1>2, <1>4, <1>5
<1>7. PICK a, b, c : a = ByteOf(u, 1) /\ b = ByteOf(u, 2) /\ c = ByteOf(u, 3)
  OBVIOUS
<1>8. a \in Int /\ b \in Int /\ c \in Int
  BY <1>3, <1>7, SMT DEF ByteOf
<1>9. x \in Seq(Bytes) /\ Len(x) = 3 /\ x[1] = a /\ x[2] = b /\ x[3] = c
  <2>1. 3 \in 1 .. 4 /\ 1 \in 1 .. 3 /\ 2 \in 1 .. 3 /\ 3 \in 1 .. 3
    OBVIOUS
  <2>2. x \in Seq(Bytes) /\ Len(x) = 3 /\ \A i \in 1 .. 3 : x[i] = ByteOf(u, i)
    BY <1>3, <1>4, <2>1, LittleEndianIs
  <2> QED
    BY <1>7, <2>1, <2>2
<1>10. y \in Seq(Bytes) /\ Len(y) = 4 /\ y[1] = h /\ y[2] = a /\ y[3] = b /\ y[4] = c
  <2>1. h \in Bytes /\ x \in Seq(Bytes)
    <3>1. h \in Bytes
      BY <1>4, BytesAre
    <3> QED
      BY <1>9, <3>1
  <2>2. /\ y \in Seq(Bytes) /\ Len(y) = 1 + Len(x) /\ y[1] = h
        /\ \A i \in 1 .. Len(x) : y[i + 1] = x[i]
    BY ONLY <1>5, <2>1, PrefixedIs, SMT
  <2>3. y[1 + 1] = x[1] /\ y[2 + 1] = x[2] /\ y[3 + 1] = x[3]
    BY <1>9, <2>2
  <2> QED
    BY <1>9, <2>2, <2>3
<1>11. /\ Len(e) = 5 /\ e[1] = h /\ e[2] = a /\ e[3] = b /\ e[4] = c /\ e[5] = t
  <2>1. PICK z : z = <<t>>
    BY Zenon
  <2>2. z \in Seq(Bytes) /\ Len(z) = 1 /\ z[1] = t
    BY <1>4, <2>1, BytesAre
  <2>3. y \in Seq(Bytes) /\ e = y \o z
    BY <1>6, <1>10, <2>1
  <2>4. Len(e) = 5 /\ (\A i \in 1 .. 4 : e[i] = y[i]) /\ e[5] = z[1]
    <3>1. z \in Seq(Bytes) /\ y \in Seq(Bytes)
      BY <2>2, <2>3
    <3>2. /\ Len(e) = Len(y) + Len(z)
          /\ \A i \in 1 .. Len(y) : e[i] = y[i]
          /\ \A i \in 1 .. Len(z) : e[Len(y) + i] = z[i]
      BY ONLY <2>3, <3>1, ConcatProperties, SMT
    <3> QED
      BY ONLY <1>10, <2>2, <3>2
  <2> QED
    BY <1>10, <2>2, <2>4
<1>12. Byte(o) = h /\ Byte(o + 1) = a /\ Byte(o + 2) = b /\ Byte(o + 3) = c /\ Byte(o + 4) = t
  <2>1. /\ 1 \in 1 .. Len(e) /\ o = o + 1 - 1
        /\ 2 \in 1 .. Len(e) /\ o + 1 = o + 2 - 1
        /\ 3 \in 1 .. Len(e) /\ o + 2 = o + 3 - 1
        /\ 4 \in 1 .. Len(e) /\ o + 3 = o + 4 - 1
        /\ 5 \in 1 .. Len(e) /\ o + 4 = o + 5 - 1
    BY <1>11
  <2>2. /\ Byte(o) = e[1] /\ Byte(o + 1) = e[2] /\ Byte(o + 2) = e[3]
        /\ Byte(o + 3) = e[4] /\ Byte(o + 4) = e[5]
    BY <2>1, StandsAtIs, SMTT(30)
  <2> QED
    BY <1>11, <2>2
<1>13. EncodedSize(o) = 5
  <2>1. WellFormed(e)
    BY IntEncodingsWellFormed
  <2>2. EncodedSize(o) = Len(e)
    BY <2>1, EncodedSizeReads, Zenon
  <2> QED
    BY <1>11, <2>2
<1>14. Get(o) = Integer(o, 4)
  <2>1. Byte(o) >= 241 /\ 5 - 1 = 4
    BY <1>4, <1>12
  <2> QED
    BY <1>13, <2>1, GetIs
<1>15. PICK d : d = u % 16777216
  BY SMT
<1>16. Integer(o, 4) = Decimal(d + 16777216)
  <2>1. Word(o + 1, 3) = d
    <3>1. Word(o + 1, 3) = Of4(a, b, c, 0)
      <4>1. o + 1 \in Int /\ o + 1 + 1 = o + 2 /\ o + 1 + 2 = o + 3
        OBVIOUS
      <4> QED
        BY <1>8, <1>12, <4>1, WordIs
    <3>2. Of4(a, b, c, 0) = u % 16777216
      BY <1>3, <1>7, ThreeBytesOf, SMT
    <3> QED
      BY <1>15, <3>1, <3>2, SMT
  <2>2. Weight(4) = 16777216 /\ 4 - 1 = 3
    BY SMT DEF Weight
  <2>3. Signed(t, 128) = 1
    BY <1>4 DEF Signed
  <2>4. d \in Int
    BY <1>3, <1>15, SMT
  <2> QED
    BY <1>12, <2>1, <2>2, <2>3, <2>4, SMT DEF Integer
<1>17. Get(o) = Decimal((u % 16777216) + 16777216)
  BY <1>14, <1>15, <1>16, SMT
<1> QED
  BY <1>1, <1>2, <1>17, SMT DEF NumberReads

\* What a number is stored as is read as it, or as what NumberReads says.
LEMMA NumberIsRead ==
  ASSUME lp \in Seq(Bytes), NEW o \in Int, NEW v \in Int,
         NEW e \in IntEncodings(v), StandsAt(e, o)
  PROVE  Get(o) \in NumberReads(v)
<1>1. CASE Fits16(v)
  <2>1. Get(o) = Decimal(v)
    <3>1. CASE v >= 0 /\ v <= 127
      BY <3>1, Reads7
    <3>2. CASE ~(v >= 0 /\ v <= 127) /\ v >= -4096 /\ v <= 4095
      BY <3>2, Reads13
    <3>3. CASE ~(v >= -4096 /\ v <= 4095)
      BY <1>1, <3>3, Reads16
    <3> QED
      BY <3>1, <3>2, <3>3
  <2> QED
    BY <1>1, <2>1, SMT DEF NumberReads
<1>2. CASE ~Fits16(v)
  BY <1>2, Reads32
<1> QED
  BY <1>1, <1>2

\* The encoding e of a string s has k bytes before it, the first of which is h.
Heads(e, s, k, h) ==
  /\ Len(e) = k + Len(s) /\ e[1] = h
  /\ \A j \in 1 .. Len(s) : e[k + j] = s[j]

\* What is put before a string.
LEMMA HeadIs ==
  ASSUME NEW s \in Seq(Bytes), NEW x \in Seq(Bytes), Len(x) >= 1, NEW e, e = x \o s
  PROVE  Heads(e, s, Len(x), x[1])
<1>1. /\ Len(e) = Len(x) + Len(s)
      /\ \A i \in 1 .. Len(x) : e[i] = x[i]
      /\ \A i \in 1 .. Len(s) : e[Len(x) + i] = s[i]
  BY ConcatProperties, LenProperties
<1>2. 1 \in 1 .. Len(x)
  BY LenProperties
<1> QED
  BY <1>1, <1>2 DEF Heads

\* A string is behind one, two or five bytes, which the first of them tells.
LEMMA StringEncodingIs ==
  ASSUME NEW s \in Seq(Bytes)
  PROVE  \/ Len(s) < 64 /\ Heads(StringEncoding(s), s, 1, 128 + Len(s))
         \/ \E h \in 224 .. 239 : Heads(StringEncoding(s), s, 2, h)
         \/ Heads(StringEncoding(s), s, 5, 240)
<1>1. PICK n, e : n = Len(s) /\ e = StringEncoding(s)
  BY Zenon
<1>2. n \in Nat
  BY <1>1, LenProperties
<1>3. CASE n < 64
  <2>1. PICK h, x : h = 128 + n /\ x = <<h>>
    OBVIOUS
  <2>2. e = x \o s
    BY <1>1, <1>3, <2>1 DEF StringEncoding
  <2>3. h \in Bytes
    BY <1>2, <1>3, <2>1, BytesAre
  <2>4. x \in Seq(Bytes) /\ Len(x) = 1 /\ x[1] = h
    BY <2>1, <2>3
  <2>5. Heads(e, s, 1, h)
    <3>1. Len(x) >= 1
      BY <2>4
    <3>2. Heads(e, s, Len(x), x[1])
      BY <2>2, <2>4, <3>1, HeadIs
    <3> QED
      BY <2>4, <3>2
  <2> QED
    BY <1>1, <1>3, <2>1, <2>5
<1>4. CASE n >= 64 /\ n < 4096
  <2>1. PICK h, l, x : h = 224 + n \div 256 /\ l = n % 256 /\ x = <<h, l>>
    OBVIOUS
  <2>2. e = x \o s
    BY <1>1, <1>2, <1>4, <2>1 DEF StringEncoding
  <2>3. h \in Nat /\ h >= 224 /\ h <= 239 /\ l \in Nat /\ l < 256
    BY <1>2, <1>4, <2>1
  <2>4. x \in Seq(Bytes) /\ Len(x) = 2 /\ x[1] = h
    <3>1. h \in Bytes /\ l \in Bytes
      BY <2>3, BytesAre
    <3> QED
      BY <2>1, <3>1
  <2>5. Heads(e, s, 2, h)
    <3>1. Len(x) >= 1
      BY <2>4
    <3>2. Heads(e, s, Len(x), x[1])
      BY <2>2, <2>4, <3>1, HeadIs
    <3> QED
      BY <2>4, <3>2
  <2>6. h \in 224 .. 239
    BY <2>3
  <2> QED
    BY <1>1, <2>5, <2>6
<1>5. CASE n >= 4096
  <2>1. PICK h, y, x : h = 240 /\ y = LittleEndian(n, 4) /\ x = <<h>> \o y
    OBVIOUS
  <2>2. e = x \o s
    <3>1. ~(n < 64) /\ ~(n < 4096)
      BY <1>2, <1>5
    <3> QED
      BY <1>1, <2>1, <3>1 DEF StringEncoding
  <2>3. h \in Bytes
    BY <2>1, BytesAre
  <2>4. y \in Seq(Bytes) /\ Len(y) = 4
    <3>1. 4 \in 1 .. 4
      OBVIOUS
    <3> QED
      BY <1>2, <2>1, <3>1, LittleEndianIs
  <2>5. x \in Seq(Bytes) /\ Len(x) = 5 /\ x[1] = h
    <3>1. y \in Seq(Bytes) /\ x = <<h>> \o y
      BY <2>1, <2>4
    <3>2. x \in Seq(Bytes) /\ Len(x) = 1 + Len(y) /\ x[1] = h
      BY ONLY <2>3, <3>1, PrefixedIs, SMT
    <3> QED
      BY <2>4, <3>2
  <2>6. Heads(e, s, 5, h)
    <3>1. Len(x) >= 1
      BY <2>5
    <3>2. Heads(e, s, Len(x), x[1])
      BY <2>2, <2>5, <3>1, HeadIs
    <3> QED
      BY <2>5, <3>2
  <2> QED
    BY <1>1, <2>1, <2>6
<1> QED
  BY <1>2, <1>3, <1>4, <1>5

\* The characters behind them are the string.
LEMMA CharsAre ==
  ASSUME NEW s \in Seq(Bytes), NEW o \in Int, NEW e, StandsAt(e, o), NEW k \in Nat, NEW h,
         Heads(e, s, k, h), NEW n, n = Len(s)
  PROVE  Chars(o + k, n) = s
<1>1. n \in Nat /\ Len(e) = k + n /\ \A j \in 1 .. n : e[k + j] = s[j]
  BY LenProperties DEF Heads
<1>2. ASSUME NEW j \in 1 .. n PROVE Byte(o + k + j - 1) = s[j]
  <2>1. k + j \in 1 .. Len(e) /\ o + k + j - 1 = o + (k + j) - 1
    BY <1>1
  <2>2. Byte(o + k + j - 1) = e[k + j]
    BY <2>1, StandsAtIs
  <2> QED
    BY <1>1, <2>2
<1>3. s = [j \in 1 .. n |-> s[j]]
  BY LenProperties
<1> QED
  BY <1>2, <1>3, Zenon DEF Chars

\* A string is read as it was stored.
LEMMA StringIsRead ==
  ASSUME lp \in Seq(Bytes), NEW o \in Int, NEW s \in Seq(Bytes),
         NEW e, e = StringEncoding(s), WellFormed(e), StandsAt(e, o)
  PROVE  Get(o) = s
<1>1. PICK n, l, b : n = Len(s) /\ l = EncodedSize(o) /\ b = Byte(o)
  BY Zenon
<1>2. n \in Nat
  BY <1>1, LenProperties
<1>3. l = Len(e)
  BY <1>1, EncodedSizeReads
<1>4. b = e[1]
  <2>1. 1 \in 1 .. Len(e) /\ o = o + 1 - 1
    BY DEF WellFormed
  <2> QED
    BY <1>1, <2>1, StandsAtIs
<1>5. b = 240 => Get(o) = Chars(o + 5, l - 5)
  <2>1. Byte(o) = 240 => Get(o) = Chars(o + 5, EncodedSize(o) - 5)
    BY GetIs
  <2> QED
    BY <1>1, <2>1
<1>6. CASE n < 64 /\ Heads(e, s, 1, 128 + n)
  <2>1. b = 128 + n
    BY <1>4, <1>6 DEF Heads
  <2>2. b >= 128 /\ b < 192 /\ b % 64 = n
    BY <1>2, <1>6, <2>1
  <2>3. Get(o) = Chars(o + 1, n)
    BY <1>1, <2>2, GetIs
  <2>4. 1 \in Nat
    OBVIOUS
  <2> QED
    BY <1>1, <1>6, <2>3, <2>4, CharsAre
<1>7. ASSUME NEW h \in 224 .. 239, Heads(e, s, 2, h) PROVE Get(o) = s
  <2>1. b = h /\ l = 2 + n
    BY <1>1, <1>3, <1>4, <1>7 DEF Heads
  <2>2. b >= 224 /\ b < 240 /\ l - 2 = n
    BY <1>2, <2>1
  <2>3. Get(o) = Chars(o + 2, n)
    BY <1>1, <2>2, GetIs
  <2>4. 2 \in Nat
    OBVIOUS
  <2> QED
    BY <1>1, <1>7, <2>3, <2>4, CharsAre
<1>8. CASE Heads(e, s, 5, 240)
  <2>1. b = 240 /\ l = 5 + n
    BY <1>1, <1>3, <1>4, <1>8 DEF Heads
  <2>2. l - 5 = n
    BY <1>2, <2>1
  <2>3. Get(o) = Chars(o + 5, n)
    BY <1>5, <2>1, <2>2
  <2>4. 5 \in Nat
    OBVIOUS
  <2> QED
    BY <1>1, <1>8, <2>3, <2>4, CharsAre
<1> QED
  BY <1>1, <1>6, <1>7, <1>8, StringEncodingIs

\* 32 bits do for what is stored as a number.
LEMMA NumbersFit ==
  ASSUME NEW v, v \in Numbers \/ \E s \in Strings : v = NumberIn(s) /\ v # NotANumber
  PROVE  FitsInt(v)
<1>1. v \in Numbers \cup ({NumberIn(s) : s \in Strings} \ {NotANumber})
  OBVIOUS
<1> QED
  BY <1>1, NumbersAssumption, SMT DEF FitsInt

\* What a text is read as that is stored as a number.
LEMMA ReadsAsNumber ==
  ASSUME NEW t, NEW v, NumberIn(t) = v, v # NotANumber, Decimal(v) = t
  PROVE  ReadsAs(t) = NumberReads(v)
BY SMT DEF ReadsAs, NumberReads

\* An entry is read as the text it stands for, or as what ReadsAs says.
LEMMA EntryIsRead ==
  ASSUME lp \in Seq(Bytes), NEW o \in Int, NEW t, NEW e, Stores(t, e), WellFormed(e),
         StandsAt(e, o)
  PROVE  Get(o) \in ReadsAs(t)
<1>1. PICK x : x = [text |-> t, enc |-> e]
  BY Zenon
<1>2. x \in Elements /\ x.text = t /\ x.enc = e
  BY <1>1 DEF Stores
<1>3. \/ \E s \in Strings : t = s /\ e \in Encodings(s)
      \/ \E v \in Numbers : t = Decimal(v) /\ e \in IntEncodings(v)
  <2>1. \/ \E s \in Strings : x = [text |-> s, enc |-> x.enc] /\ x.enc \in Encodings(s)
        \/ \E v \in Numbers : x = [text |-> Decimal(v), enc |-> x.enc]
                              /\ x.enc \in IntEncodings(v)
    BY <1>2, ElementsAre
  <2> QED
    BY <1>2, <2>1
<1>4. ASSUME NEW s \in Strings, t = s, e \in Encodings(s) PROVE Get(o) \in ReadsAs(t)
  <2>1. s \in Seq(Bytes)
    BY StringsAre
  <2>2. CASE NumberIn(s) = NotANumber
    <3>1. e = StringEncoding(s)
      BY <1>4, <2>2 DEF Encodings
    <3>2. Get(o) = s
      BY <2>1, <3>1, StringIsRead
    <3>3. ReadsAs(t) = {t}
      BY <1>4, <2>2, SMT DEF ReadsAs
    <3> QED
      BY <1>4, <3>2, <3>3
  <2>3. CASE NumberIn(s) # NotANumber
    <3>1. PICK v : v = NumberIn(s)
      BY Zenon
    <3>2. v \in Int /\ Decimal(v) = s /\ v # NotANumber
      BY <2>1, <2>3, <3>1, DecimalOfNumber
    <3>3. e \in IntEncodings(v)
      BY <1>4, <2>3, <3>1, Zenon DEF Encodings
    <3>4. Get(o) \in NumberReads(v)
      BY <3>2, <3>3, NumberIsRead
    <3>5. ReadsAs(t) = NumberReads(v)
      BY <1>4, <3>1, <3>2, ReadsAsNumber
    <3> QED
      BY <3>4, <3>5
  <2> QED
    BY <2>2, <2>3
<1>5. ASSUME NEW v \in Numbers, t = Decimal(v), e \in IntEncodings(v)
      PROVE  Get(o) \in ReadsAs(t)
  <2>1. v \in Int /\ v >= -IntMax - 1 /\ v <= IntMax
    BY ListPackAssumption
  <2>2. FitsInt(v)
    BY NumbersFit
  <2>3. NumberIn(t) = v
    BY <1>5, <2>1, <2>2, NumberOfDecimal
  <2>4. v # NotANumber
    BY <2>1, IntMaxIs DEF NotANumber, UMax
  <2>5. Get(o) \in NumberReads(v)
    BY <1>5, <2>1, NumberIsRead
  <2>6. ReadsAs(t) = NumberReads(v)
    BY <1>5, <2>3, <2>4, ReadsAsNumber
  <2> QED
    BY <2>5, <2>6
<1> QED
  BY <1>3, <1>4, <1>5

(***************************************************************************)
(* What the entries read as is what was stored, in the order it was        *)
(* stored, but for the numbers that lpEncodeGetType spoils.                *)
(***************************************************************************)
THEOREM TextsAreKept == Spec => []ContentsAreKept
<1>1. LPInv => ContentsAreKept
  <2> SUFFICES ASSUME LPInv PROVE ContentsAreKept
    OBVIOUS
  <2>1. PICK off, enc, num : Holding(off, enc, num)
    BY DEF LPInv
  <2>2. PICK n : n = Len(elems)
    BY Zenon
  <2>3. n \in Nat
    BY <2>2 DEF LPInv
  <2>4. Layout(lp, n, off, enc, num) /\ \A i \in 1 .. n : Stores(elems[i], enc[i])
    BY <2>1, <2>2, Zenon DEF Holding
  <2>5. PICK f : f = [j \in 1 .. n |-> off[j]]
    BY Zenon
  <2>6. Forwards = f
    BY <2>4, <2>5, ForwardsIs, Zenon
  <2>7. Len(f) = n /\ DOMAIN f = 1 .. n /\ \A i \in 1 .. n : f[i] = off[i]
    BY <2>3, <2>5
  <2>8. ASSUME NEW i \in 1 .. n PROVE Get(off[i]) \in ReadsAs(elems[i])
    <3>1. PICK o, e : o = off[i] /\ e = enc[i]
      BY Zenon
    <3>2. lp \in Seq(Bytes) /\ o \in Nat /\ WellFormed(e) /\ Len(e) \in Nat
      BY <2>3, <2>4, <3>1, Bounds
    <3>3. \A j \in 1 .. Len(Entry(e)) : Byte(o + j - 1) = Entry(e)[j]
      BY <2>4, <3>1, EntryReads
    <3>4. Len(Entry(e)) > Len(e) /\ Len(Entry(e)) \in Nat /\ \A j \in 1 .. Len(e) : Entry(e)[j] = e[j]
      BY <2>4, <3>1, <3>2, EntryIs, Bounds
    <3>5. StandsAt(e, o)
      BY <3>2, <3>3, <3>4 DEF StandsAt
    <3>6. Stores(elems[i], e)
      BY <2>4, <3>1
    <3>7. o \in Int
      BY <3>2
    <3>8. PICK t : t = elems[i]
      BY Zenon
    <3>9. Get(o) \in ReadsAs(t)
      BY <3>2, <3>5, <3>6, <3>7, <3>8, EntryIsRead
    <3> QED
      BY <3>1, <3>8, <3>9
  <2> QED
    BY <2>2, <2>6, <2>7, <2>8, Zenon DEF ContentsAreKept
<1> QED
  BY <1>1, ListIsLaidOut, PTL

===============================================================================
