--------------------------- MODULE HyperLogLogProofs ---------------------------
(***************************************************************************)
(* Theorems about HyperLogLog for every number of registers, all indices   *)
(* and counts.                                                             *)
(*                                                                         *)
(* The sparse form: what hllSparseSet puts in the place of an opcode and   *)
(* hllUpdateRegisters leaves of it (SetAtIs), and the walk along the       *)
(* opcodes, which is the same up to where the bytes differ (Agree) and     *)
(* from there finds the count (WalkReads), whatever is read behind it.     *)
(*                                                                         *)
(* The dense form: bytes as bits, the | of two (BitOrIs), a register as a  *)
(* field of two bytes (FieldIs), and so what a set leaves of every other   *)
(* register (SetKeeps).                                                    *)
(*                                                                         *)
(* The conversion is a walk by its own account of the registers; where it  *)
(* gets to all of them it has met each in the run where OpAt finds it      *)
(* (WalkConverts).  Last, the steps: TypeOK is inductive, and the other    *)
(* two properties follow from it step by step.                             *)
(***************************************************************************)
EXTENDS HyperLogLog, Induction, SequenceTheorems

\* What registers are made of.
Bytes == 0 .. 255

-------------------------------------------------------------------------------
\* Bytes and sequences of them.

\* Membership in Bytes as an inequality.
LEMMA BytesAre == \A x : x \in Bytes <=> x \in Nat /\ x < 256
BY SMT DEF Bytes

\* The byte at a position.
LEMMA ByteAt ==
  ASSUME NEW b \in Seq(Bytes), NEW p \in 0 .. Len(b) - 1
  PROVE  b[p + 1] \in Bytes
<1>1. Len(b) \in Nat /\ DOMAIN b = 1 .. Len(b)
  BY LenProperties
<1>2. p + 1 \in 1 .. Len(b)
  BY <1>1
<1> QED
  BY <1>2, ElementOfSeq

\* A beginning of b.
LEMMA HeadIs ==
  ASSUME NEW b \in Seq(Bytes), NEW m \in 0 .. Len(b)
  PROVE  /\ SubSeq(b, 1, m) \in Seq(Bytes) /\ Len(SubSeq(b, 1, m)) = m
         /\ \A j \in 1 .. m : SubSeq(b, 1, m)[j] = b[j]
<1>1. SubSeq(b, 1, m) \in Seq(Bytes)
  OBVIOUS
<1>2. Len(SubSeq(b, 1, m)) = m
  OBVIOUS
<1>3. \A j \in 1 .. m : SubSeq(b, 1, m)[j] = b[j]
  OBVIOUS
<1> QED
  BY <1>1, <1>2, <1>3

\* An end of b.
LEMMA TailIs ==
  ASSUME NEW b \in Seq(Bytes), NEW m \in 0 .. Len(b)
  PROVE  /\ SubSeq(b, m + 1, Len(b)) \in Seq(Bytes) /\ Len(SubSeq(b, m + 1, Len(b))) = Len(b) - m
         /\ m < Len(b) => SubSeq(b, m + 1, Len(b))[1] = b[m + 1]
<1>1. SubSeq(b, m + 1, Len(b)) \in Seq(Bytes)
  OBVIOUS
<1>2. Len(SubSeq(b, m + 1, Len(b))) = Len(b) - m
  OBVIOUS
<1>3. m < Len(b) => SubSeq(b, m + 1, Len(b))[1] = b[m + 1]
  OBVIOUS
<1> QED
  BY <1>1, <1>2, <1>3

\* Two sequences of bytes one behind the other.
LEMMA JoinIs ==
  ASSUME NEW x \in Seq(Bytes), NEW y \in Seq(Bytes)
  PROVE  /\ x \o y \in Seq(Bytes) /\ Len(x \o y) = Len(x) + Len(y)
         /\ \A j \in 1 .. Len(x) : (x \o y)[j] = x[j]
         /\ \A j \in 1 .. Len(y) : (x \o y)[Len(x) + j] = y[j]
<1>1. x \o y \in Seq(Bytes)
  OBVIOUS
<1>2. Len(x \o y) = Len(x) + Len(y)
  OBVIOUS
<1>3. \A j \in 1 .. Len(x) : (x \o y)[j] = x[j]
  OBVIOUS
<1>4. \A j \in 1 .. Len(y) : (x \o y)[Len(x) + j] = y[j]
  OBVIOUS
<1> QED
  BY <1>1, <1>2, <1>3, <1>4

-------------------------------------------------------------------------------
\* Opcodes.

\* The opcode at p when its first byte is x.
LEMMA KindIs ==
  ASSUME NEW b, NEW p \in Nat, NEW x \in Nat, x < 256, x = b[p + 1]
  PROVE  /\ IsZero(b, p) <=> x < 64
         /\ IsXzero(b, p) <=> x >= 64 /\ x < 128
         /\ IsVal(b, p) <=> x >= 128
BY DEF IsZero, IsXzero, IsVal

\* The length of a VAL, whatever byte it is read from.
LEMMA ValLenOf ==
  ASSUME NEW b, NEW p \in Nat, NEW x \in Nat, x < 256, x = b[p + 1]
  PROVE  ValLen(b, p) \in 1 .. 4
BY DEF ValLen

\* And its value.
LEMMA ValValueOf ==
  ASSUME NEW b, NEW p \in Nat, NEW x \in Nat, x < 256, x = b[p + 1]
  PROVE  ValValue(b, p) \in 1 .. 32
BY DEF ValValue

\* The registers an opcode can be for.
Longest == 16384
Spans == {l \in Nat : l >= 1 /\ l <= Longest}

\* The lengths of a ZERO.
LEMMA ShortSpans ==
  ASSUME NEW l \in Nat, l >= 1, l <= 64
  PROVE  l \in Spans
BY SMT DEF Spans, Longest

\* The lengths of an XZERO.
LEMMA LongSpans ==
  ASSUME NEW h \in Nat, h < 64, NEW y \in Nat, y < 256
  PROVE  h * 256 + y + 1 \in Spans
BY SMT DEF Spans, Longest

\* A ZERO read from its byte.
LEMMA ZeroSpanOf ==
  ASSUME NEW b, NEW p \in Nat, NEW x \in Nat, x < 64, x = b[p + 1]
  PROVE  Span(b, p) = x + 1 /\ Span(b, p) \in Spans
<1>1. Span(b, p) = x + 1
  BY DEF Span, IsZero
<1>2. x + 1 \in Spans
  <2>1. PICK l : l = x + 1
    OBVIOUS
  <2>2. l \in Nat /\ l >= 1 /\ l <= 64
    BY <2>1
  <2>3. l \in Spans
    BY <2>2, ShortSpans
  <2> QED
    BY <2>1, <2>3
<1> QED
  BY <1>1, <1>2

\* An XZERO read from its two bytes, or from one where the other is outside.
LEMMA XzeroSpanOf ==
  ASSUME NEW b, NEW p \in Nat, NEW x \in Nat, x >= 64, x < 128, x = b[p + 1],
         NEW y \in Nat, y < 256, y = IF Outside(b, p) THEN 0 ELSE b[p + 2]
  PROVE  Span(b, p) = (x % 64) * 256 + y + 1 /\ Span(b, p) \in Spans
<1>1. Span(b, p) = (x % 64) * 256 + y + 1
  BY DEF Span, IsZero, IsXzero
<1>2. PICK h : h = x % 64
  OBVIOUS
<1>5. h \in Nat /\ h < 64
  BY <1>2
<1>3. h * 256 + y + 1 \in Spans
  BY <1>5, LongSpans
<1>4. (x % 64) * 256 + y + 1 = h * 256 + y + 1
  BY <1>2
<1> QED
  BY <1>1, <1>3, <1>4

\* The length of an opcode.
LEMMA OpLenIs ==
  ASSUME NEW b, NEW p
  PROVE  OpLen(b, p) \in {1, 2} /\ (IsXzero(b, p) <=> OpLen(b, p) = 2)
BY DEF OpLen

\* A VAL is for one to four registers.
LEMMA ValOpIs ==
  ASSUME NEW b \in Seq(Bytes), NEW p \in 0 .. Len(b) - 1
  PROVE  /\ ValLen(b, p) \in 1 .. 4 /\ ValValue(b, p) \in 1 .. 32
         /\ IsVal(b, p) => Span(b, p) = ValLen(b, p) /\ OpLen(b, p) = 1
<1>1. Len(b) \in Nat /\ p \in Nat
  BY LenProperties
<1>2. PICK x : x = b[p + 1]
  OBVIOUS
<1>3. x \in Nat /\ x < 256
  BY <1>2, ByteAt, BytesAre
<1>4. ValLen(b, p) \in 1 .. 4
  BY <1>1, <1>2, <1>3, ValLenOf
<1>5. ValValue(b, p) \in 1 .. 32
  BY <1>1, <1>2, <1>3, ValValueOf
<1>6. ASSUME IsVal(b, p) PROVE ~IsZero(b, p) /\ ~IsXzero(b, p)
  <2>1. x >= 128
    BY <1>1, <1>2, <1>3, <1>6, KindIs
  <2>2. ~(x < 64) /\ ~(x < 128)
    BY ONLY <1>3, <2>1
  <2>3. IsZero(b, p) <=> x < 64
    BY <1>1, <1>2, <1>3, KindIs
  <2>4. IsXzero(b, p) <=> x >= 64 /\ x < 128
    BY <1>1, <1>2, <1>3, KindIs
  <2> QED
    BY <2>2, <2>3, <2>4
<1> QED
  BY <1>4, <1>5, <1>6 DEF Span, OpLen

\* Every opcode is for one register at least.
LEMMA SpanIs ==
  ASSUME NEW b \in Seq(Bytes), NEW p \in 0 .. Len(b) - 1
  PROVE  Span(b, p) \in Spans
<1>1. Len(b) \in Nat /\ p \in Nat
  BY LenProperties
<1>2. PICK x : x = b[p + 1]
  OBVIOUS
<1>3. x \in Nat /\ x < 256
  BY <1>2, ByteAt, BytesAre
<1>4. CASE x < 64
  BY <1>1, <1>2, <1>3, <1>4, ZeroSpanOf
<1>5. CASE x >= 64 /\ x < 128
  <2>1. PICK y : y = IF Outside(b, p) THEN 0 ELSE b[p + 2]
    OBVIOUS
  <2>2. y \in Nat /\ y < 256
    <3>1. CASE Outside(b, p)
      BY <2>1, <3>1
    <3>2. CASE ~Outside(b, p)
      <4>1. IsXzero(b, p)
        BY <1>1, <1>2, <1>3, <1>5, KindIs
      <4>2. p + 1 \in 0 .. Len(b) - 1 /\ p + 1 + 1 = p + 2
        BY <1>1, <3>2, <4>1 DEF Outside
      <4>3. b[p + 1 + 1] \in Bytes
        BY <4>2, ByteAt
      <4>4. y = b[p + 1 + 1]
        BY <2>1, <3>2, <4>2
      <4> QED
        BY <4>3, <4>4, BytesAre
    <3> QED
      BY <3>1, <3>2
  <2> QED
    BY <1>1, <1>2, <1>3, <1>5, <2>1, <2>2, XzeroSpanOf
<1>6. CASE x >= 128
  <2>1. IsVal(b, p)
    BY <1>1, <1>2, <1>3, <1>6, KindIs
  <2>2. Span(b, p) = ValLen(b, p) /\ ValLen(b, p) \in 1 .. 4
    BY <2>1, ValOpIs
  <2>3. \A l \in 1 .. 4 : l \in Spans
    BY ShortSpans
  <2> QED
    BY <2>2, <2>3
<1>7. x < 64 \/ (x >= 64 /\ x < 128) \/ x >= 128
  BY ONLY <1>3
<1> QED
  BY <1>4, <1>5, <1>6, <1>7

\* A run of zeros is nothing, a ZERO or an XZERO of that length.
IsRun(b, l) ==
  \/ l = 0 /\ b = <<>>
  \/ l >= 1 /\ l <= 64 /\ b = <<l - 1>>
  \/ \E h, t \in Bytes : /\ b = <<h, t>> /\ h >= 64 /\ h < 128
                         /\ l = (h % 64) * 256 + t + 1

\* The two bytes of an XZERO.
LEMMA TwoBytes ==
  ASSUME NEW k \in Nat, k < Longest
  PROVE  \E g, t \in Nat : /\ g = k \div 256 /\ t = k % 256 /\ g < 64 /\ t < 256
                           /\ k = g * 256 + t
<1>1. PICK g, t : g = k \div 256 /\ t = k % 256
  OBVIOUS
<1>2. t \in Nat /\ t < 256
  BY <1>1
<1>3. g \in Nat /\ k = g * 256 + t
  BY <1>1
<1>4. g < 64
  BY <1>2, <1>3, SMT DEF Longest
<1> QED
  BY <1>1, <1>2, <1>3, <1>4

\* What Zeros writes is a run of that length.
LEMMA ZerosIs ==
  ASSUME NEW l \in Nat, l <= Longest
  PROVE  Zeros(l) \in Seq(Bytes) /\ IsRun(Zeros(l), l)
<1>1. CASE l = 0
  <2>1. Zeros(l) = <<>>
    BY <1>1 DEF Zeros
  <2>2. <<>> \in Seq(Bytes)
    OBVIOUS
  <2> QED
    BY <1>1, <2>1, <2>2 DEF IsRun
<1>2. CASE l >= 1 /\ l <= 64
  <2>1. Zeros(l) = <<l - 1>>
    BY <1>2 DEF Zeros, HLL_SPARSE_ZERO_MAX_LEN
  <2>2. PICK x : x = l - 1
    OBVIOUS
  <2>3. x \in Bytes
    BY <1>2, <2>2, BytesAre
  <2>4. <<x>> \in Seq(Bytes)
    BY <2>3
  <2> QED
    BY <1>2, <2>1, <2>2, <2>4 DEF IsRun
<1>3. CASE l > 64
  <2>1. PICK k : k = l - 1
    OBVIOUS
  <2>2. k \in Nat /\ k < Longest /\ l = k + 1
    BY <1>3, <2>1, SMT DEF Longest
  <2>3. PICK g, t \in Nat : /\ g = k \div 256 /\ t = k % 256 /\ g < 64 /\ t < 256
                            /\ k = g * 256 + t
    BY <2>2, TwoBytes
  <2>4. PICK h : h = 64 + g
    OBVIOUS
  <2>5. h \in Nat /\ h >= 64 /\ h < 128 /\ h % 64 = g
    BY <2>3, <2>4
  <2>6. h \in Bytes /\ t \in Bytes
    BY <2>3, <2>5, BytesAre
  <2>7. Zeros(l) = <<h, t>>
    <3>1. l # 0
      BY <1>3
    <3> QED
      BY <1>3, <2>1, <2>3, <2>4, <3>1 DEF Zeros, HLL_SPARSE_ZERO_MAX_LEN
  <2>8. l = (h % 64) * 256 + t + 1
    BY <2>2, <2>3, <2>5
  <2>9. IsRun(Zeros(l), l)
    BY <2>5, <2>6, <2>7, <2>8 DEF IsRun
  <2>10. Zeros(l) \in Seq(Bytes)
    BY <2>6, <2>7
  <2> QED
    BY <2>9, <2>10
<1>4. l = 0 \/ (l >= 1 /\ l <= 64) \/ l > 64
  OBVIOUS
<1> QED
  BY <1>1, <1>2, <1>3, <1>4

-------------------------------------------------------------------------------
\* The scan of hllUpdateRegisters.

\* What the scan leaves of s in t: bytes, one fewer at a time, and the first n as they were.
Leaves(s, t, n) ==
  /\ t.b \in Seq(Bytes) /\ t.p \in Nat /\ t.p >= n
  /\ Len(t.b) <= Len(s.b) /\ (Len(s.b) >= n => Len(t.b) >= n) /\ (Len(s.b) > n => Len(t.b) > n)
  /\ \A i \in 1 .. n : t.b[i] = s.b[i]

\* Removing an element.
LEMMA RemoveIs ==
  ASSUME NEW b \in Seq(Bytes), NEW i \in 1 .. Len(b)
  PROVE  /\ RemoveAt(b, i) \in Seq(Bytes) /\ Len(RemoveAt(b, i)) = Len(b) - 1
         /\ \A j \in 1 .. i - 1 : RemoveAt(b, i)[j] = b[j]
         /\ i < Len(b) => RemoveAt(b, i)[i] = b[i + 1]
<1>0. Len(b) \in Nat /\ i - 1 \in 0 .. Len(b) /\ i \in 0 .. Len(b)
  <2>1. Len(b) \in Nat
    BY LenProperties
  <2> QED
    BY <2>1
<1>1. PICK x, y : x = SubSeq(b, 1, i - 1) /\ y = SubSeq(b, i + 1, Len(b))
  OBVIOUS
<1>2. x \in Seq(Bytes) /\ Len(x) = i - 1 /\ \A j \in 1 .. i - 1 : x[j] = b[j]
  BY <1>0, <1>1, HeadIs
<1>3. y \in Seq(Bytes) /\ Len(y) = Len(b) - i /\ (i < Len(b) => y[1] = b[i + 1])
  BY <1>0, <1>1, TailIs
<1>4. RemoveAt(b, i) = x \o y
  BY <1>1 DEF RemoveAt
<1>5. /\ x \o y \in Seq(Bytes) /\ Len(x \o y) = Len(x) + Len(y)
      /\ \A j \in 1 .. Len(x) : (x \o y)[j] = x[j]
      /\ \A j \in 1 .. Len(y) : (x \o y)[Len(x) + j] = y[j]
  BY <1>2, <1>3, JoinIs
<1>6. i < Len(b) => (x \o y)[i] = b[i + 1]
  <2> SUFFICES ASSUME i < Len(b) PROVE (x \o y)[i] = b[i + 1]
    OBVIOUS
  <2>1. 1 \in 1 .. Len(y) /\ Len(x) + 1 = i
    BY <1>0, <1>2, <1>3
  <2> QED
    BY <1>3, <1>5, <2>1
<1>7. Len(x \o y) = Len(b) - 1
  <2>1. PICK n, k, l : n = Len(b) /\ k = Len(x) /\ l = Len(y)
    OBVIOUS
  <2>2. n \in Nat /\ i \in 1 .. n /\ k = i - 1 /\ l = n - i
    BY <1>0, <1>2, <1>3, <2>1
  <2>3. k + l = n - 1
    BY ONLY <2>2
  <2> QED
    BY <1>5, <2>1, <2>3
<1>8. \A j \in 1 .. i - 1 : (x \o y)[j] = b[j]
  BY ONLY <1>2, <1>5
<1> QED
  BY ONLY <1>4, <1>5, <1>6, <1>7, <1>8

\* A look before the end of the bytes.
LEMMA LookIs ==
  ASSUME NEW s \in [b : Seq(Bytes), p : Nat], s.p < Len(s.b)
  PROVE  /\ IsVal(s.b, s.p) => Look(s) = [b |-> MergedAt(s.b, s.p), p |-> s.p + 1]
         /\ ~IsVal(s.b, s.p) => Look(s) = [s EXCEPT !.p = s.p + OpLen(s.b, s.p)]
<1>0. ~(s.p >= Len(s.b))
  <2>1. s.p \in Nat /\ Len(s.b) \in Nat
    BY LenProperties
  <2> QED
    BY <2>1
<1>1. CASE IsVal(s.b, s.p)
  BY <1>0, <1>1, Zenon DEF Look
<1>2. CASE ~IsVal(s.b, s.p)
  BY <1>0, <1>2, Zenon DEF Look
<1> QED
  BY <1>1, <1>2

\* One look leaves what is in front of its place.
LEMMA LookLeaves ==
  ASSUME NEW s \in [b : Seq(Bytes), p : Nat], NEW n \in 0 .. s.p
  PROVE  Leaves(s, Look(s), n) /\ Look(s) \in [b : Seq(Bytes), p : Nat]
<1>0. Len(s.b) \in Nat /\ s.b \in Seq(Bytes) /\ s.p \in Nat
  BY LenProperties
<1>1. CASE s.p >= Len(s.b)
  <2>1. Look(s) = s
    BY <1>1 DEF Look
  <2> QED
    BY <1>0, <2>1 DEF Leaves
<1>2. CASE s.p < Len(s.b) /\ ~IsVal(s.b, s.p)
  <2>1. OpLen(s.b, s.p) \in {1, 2}
    BY OpLenIs
  <2>2. Look(s) = [s EXCEPT !.p = s.p + OpLen(s.b, s.p)]
    BY <1>2, LookIs
  <2> QED
    BY <2>1, <2>2 DEF Leaves
<1>3. CASE s.p < Len(s.b) /\ IsVal(s.b, s.p)
  <2>1. Look(s) = [b |-> MergedAt(s.b, s.p), p |-> s.p + 1]
    BY <1>3, LookIs
  <2>2. CASE MergedAt(s.b, s.p) = s.b
    BY <2>1, <2>2 DEF Leaves
  <2>3. CASE MergedAt(s.b, s.p) # s.b
    <3>1. s.p + 1 < Len(s.b) /\ MergedAt(s.b, s.p) = RemoveAt(s.b, s.p + 1)
      BY <2>3 DEF MergedAt
    <3>2. PICK b : b = RemoveAt(s.b, s.p + 1)
      OBVIOUS
    <3>3. b \in Seq(Bytes) /\ Len(b) = Len(s.b) - 1 /\ \A j \in 1 .. s.p : b[j] = s.b[j]
      <4>1. PICK c, i : c = s.b /\ i = s.p + 1
        OBVIOUS
      <4>2. c \in Seq(Bytes) /\ i \in 1 .. Len(c) /\ b = RemoveAt(c, i) /\ i - 1 = s.p
        BY <1>0, <3>1, <3>2, <4>1
      <4>3. b \in Seq(Bytes) /\ Len(b) = Len(c) - 1 /\ \A j \in 1 .. i - 1 : b[j] = c[j]
        BY ONLY <4>2, RemoveIs
      <4> QED
        BY ONLY <4>1, <4>2, <4>3
    <3>4. Look(s).b = b /\ Look(s).p = s.p + 1 /\ Look(s) \in [b : Seq(Bytes), p : Nat]
      BY <2>1, <3>1, <3>2, <3>3
    <3> QED
      BY <3>1, <3>3, <3>4 DEF Leaves
  <2> QED
    BY <2>2, <2>3
<1> QED
  BY <1>1, <1>2, <1>3

\* What two looks leave.
LEMMA LeavesTwice ==
  ASSUME NEW n \in Nat, NEW s, NEW t \in [b : Seq(Bytes), p : Nat],
         NEW u \in [b : Seq(Bytes), p : Nat], s.b \in Seq(Bytes), Leaves(s, t, n), Leaves(t, u, n)
  PROVE  Leaves(s, u, n)
BY DEF Leaves

\* The looks that are left, after one or two, leave the first n bytes.
LEMMA LooksLeave ==
  ASSUME NEW s \in [b : Seq(Bytes), p : Nat], NEW n \in 0 .. s.p
  PROVE  /\ Leaves(s, Look(Look(Look(s))), n)
         /\ Leaves(s, Look(Look(Look(Look(s)))), n)
         /\ Leaves(s, Look(Look(Look(Look(Look(s))))), n)
<1>1. PICK t, u, v, w, x :
        t = Look(s) /\ u = Look(t) /\ v = Look(u) /\ w = Look(v) /\ x = Look(w)
  OBVIOUS
<1>2. t \in [b : Seq(Bytes), p : Nat] /\ Leaves(s, t, n) /\ n \in 0 .. t.p
  BY <1>1, LookLeaves DEF Leaves
<1>3. u \in [b : Seq(Bytes), p : Nat] /\ Leaves(t, u, n) /\ n \in 0 .. u.p
  BY <1>1, <1>2, LookLeaves DEF Leaves
<1>4. v \in [b : Seq(Bytes), p : Nat] /\ Leaves(u, v, n) /\ n \in 0 .. v.p
  BY <1>1, <1>3, LookLeaves DEF Leaves
<1>5. w \in [b : Seq(Bytes), p : Nat] /\ Leaves(v, w, n) /\ n \in 0 .. w.p
  BY <1>1, <1>4, LookLeaves DEF Leaves
<1>6. x \in [b : Seq(Bytes), p : Nat] /\ Leaves(w, x, n)
  BY <1>1, <1>5, LookLeaves DEF Leaves
<1>7. Leaves(s, v, n)
  <2>1. Leaves(s, u, n)
    BY <1>2, <1>3, LeavesTwice
  <2> QED
    BY <1>3, <1>4, <2>1, LeavesTwice
<1>8. Leaves(s, w, n)
  BY <1>4, <1>5, <1>7, LeavesTwice
<1>9. Leaves(s, x, n)
  BY <1>5, <1>6, <1>8, LeavesTwice
<1> QED
  BY <1>1, <1>7, <1>8, <1>9

\* The places of the looks in between.
LEMMA LooksType ==
  ASSUME NEW s \in [b : Seq(Bytes), p : Nat]
  PROVE  /\ Look(Look(Look(s))) \in [b : Seq(Bytes), p : Nat]
         /\ Look(Look(Look(Look(s)))) \in [b : Seq(Bytes), p : Nat]
         /\ Look(Look(Look(Look(Look(s))))) \in [b : Seq(Bytes), p : Nat]
<1>1. \A t \in [b : Seq(Bytes), p : Nat] : Look(t) \in [b : Seq(Bytes), p : Nat]
  <2> SUFFICES ASSUME NEW t \in [b : Seq(Bytes), p : Nat]
               PROVE  Look(t) \in [b : Seq(Bytes), p : Nat]
    OBVIOUS
  <2>1. 0 \in 0 .. t.p
    OBVIOUS
  <2> QED
    BY <2>1, LookLeaves
<1> QED
  BY <1>1

-------------------------------------------------------------------------------
\* A split.

\* Nothing is added to a value by the | with 0, and five bits stay five.
LEMMA BitOrZero == \A a \in 0 .. 31 : BitOr(a, 0) = a
BY DEF BitOr, OrAt
LEMMA BitOrSmall ==
  ASSUME NEW a \in 0 .. 31, NEW b \in 0 .. 31
  PROVE  BitOr(a, b) \in 0 .. 31
BY DEF BitOr, OrAt

\* A VAL is a byte, whatever length is put into it.
LEMMA ValIsByte ==
  ASSUME NEW v \in 1 .. 32, NEW l \in Nat, l >= 1
  PROVE  Val(v, l) \in Bytes
<1>1. PICK g, h, t : g = v - 1 /\ h = ((l - 1) \div 4) % 32 /\ t = (l - 1) % 4
  OBVIOUS
<1>2. g \in 0 .. 31 /\ h \in 0 .. 31 /\ t \in 0 .. 3
  <2>1. \A n \in Nat : (n \div 4) % 32 \in 0 .. 31 /\ n % 4 \in 0 .. 3
    OBVIOUS
  <2>2. l - 1 \in Nat
    OBVIOUS
  <2> QED
    BY <1>1, <2>1, <2>2
<1>3. PICK o : o = BitOr(g, h)
  OBVIOUS
<1>4. o \in 0 .. 31
  BY <1>2, <1>3, BitOrSmall
<1>5. Val(v, l) = 128 + 4 * o + t
  BY <1>1, <1>3 DEF Val
<1>6. 128 + 4 * o + t \in Nat /\ 128 + 4 * o + t < 256
  BY ONLY <1>2, <1>4
<1> QED
  BY <1>5, <1>6, BytesAre

\* The byte of a VAL of one register says its value and its length.
LEMMA OneByte ==
  ASSUME NEW v \in 1 .. 32
  PROVE  /\ Val(v, 1) \in Nat /\ Val(v, 1) < 256 /\ Val(v, 1) >= 128 /\ Val(v, 1) \in Bytes
         /\ (Val(v, 1) % 4) + 1 = 1 /\ ((Val(v, 1) \div 4) % 32) + 1 = v
<1>1. PICK x : x = Val(v, 1)
  OBVIOUS
<1>2. x = 4 * (32 + (v - 1))
  <2>1. ((1 - 1) \div 4) % 32 = 0 /\ (1 - 1) % 4 = 0 /\ v - 1 \in 0 .. 31
    OBVIOUS
  <2>2. BitOr(v - 1, 0) = v - 1
    BY <2>1, BitOrZero
  <2>3. x = 128 + 4 * (v - 1) + 0
    BY <1>1, <2>1, <2>2 DEF Val
  <2> QED
    BY <2>3
<1>3. x \in Nat /\ x < 256 /\ x >= 128
  BY <1>2
<1>4. x \div 4 = 32 + (v - 1) /\ x % 4 = 0
  BY <1>2
<1>5. (32 + (v - 1)) % 32 = v - 1
  OBVIOUS
<1>6. (x % 4) + 1 = 1 /\ ((x \div 4) % 32) + 1 = v
  BY <1>4, <1>5
<1>7. x \in Bytes
  BY <1>3, BytesAre
<1> QED
  BY <1>1, <1>3, <1>6, <1>7

\* A VAL of one register is read as it was written.
LEMMA ValAt ==
  ASSUME NEW b, NEW p \in Nat, NEW v \in 1 .. 32, b[p + 1] = Val(v, 1)
  PROVE  /\ IsVal(b, p) /\ ValValue(b, p) = v /\ Span(b, p) = 1 /\ OpLen(b, p) = 1
<1>1. PICK x : x = Val(v, 1)
  OBVIOUS
<1>a. /\ Val(v, 1) \in Nat /\ Val(v, 1) < 256 /\ Val(v, 1) >= 128
      /\ (Val(v, 1) % 4) + 1 = 1 /\ ((Val(v, 1) \div 4) % 32) + 1 = v
  BY OneByte
<1>2. x \in Nat /\ x < 256 /\ x >= 128 /\ b[p + 1] = x
  BY <1>1, <1>a
<1>3. (x % 4) + 1 = 1 /\ ((x \div 4) % 32) + 1 = v
  BY <1>1, <1>a
<1>4. IsVal(b, p) /\ ~IsZero(b, p) /\ ~IsXzero(b, p)
  BY <1>2 DEF IsVal, IsZero, IsXzero
<1>5. ValLen(b, p) = 1
  BY <1>2, <1>3 DEF ValLen
<1>6. ValValue(b, p) = v
  BY <1>2, <1>3 DEF ValValue
<1> QED
  BY <1>4, <1>5, <1>6 DEF Span, OpLen

\* A run of zeros is read as it was written.
LEMMA RunAt ==
  ASSUME NEW b, NEW n \in Nat, n = Len(b), NEW p \in Nat, NEW z \in Seq(Bytes),
         NEW l \in Nat, l >= 1, IsRun(z, l), p + Len(z) <= n,
         \A i \in 1 .. Len(z) : b[p + i] = z[i]
  PROVE  Span(b, p) = l /\ OpLen(b, p) = Len(z) /\ ~IsVal(b, p) /\ Len(z) \in {1, 2}
<1>1. CASE l <= 64 /\ z = <<l - 1>>
  <2>1. PICK x : x = l - 1
    OBVIOUS
  <2>2. x \in Nat /\ x < 64 /\ Len(z) = 1 /\ b[p + 1] = x
    BY <1>1, <2>1
  <2>3. x < 256
    BY <2>2
  <2>4. IsZero(b, p) /\ ~IsXzero(b, p) /\ ~IsVal(b, p)
    BY <2>2 DEF IsZero, IsXzero, IsVal
  <2>5. Span(b, p) = x + 1
    BY <2>2, <2>4 DEF Span
  <2> QED
    BY <2>1, <2>2, <2>4, <2>5 DEF OpLen
<1>2. CASE \E h, t \in Bytes : /\ z = <<h, t>> /\ h >= 64 /\ h < 128
                               /\ l = (h % 64) * 256 + t + 1
  <2>1. PICK h \in Bytes, t \in Bytes : /\ z = <<h, t>> /\ h >= 64 /\ h < 128
                                        /\ l = (h % 64) * 256 + t + 1
    BY <1>2
  <2>2. h \in Nat /\ t \in Nat /\ h < 256 /\ t < 256
    BY BytesAre
  <2>3. Len(z) = 2 /\ b[p + 1] = h /\ b[p + 2] = t
    BY <2>1
  <2>4. ~IsZero(b, p) /\ IsXzero(b, p) /\ ~IsVal(b, p)
    BY <2>1, <2>2, <2>3 DEF IsZero, IsXzero, IsVal
  <2>5. ~Outside(b, p)
    BY <2>3 DEF Outside
  <2>6. Span(b, p) = (h % 64) * 256 + t + 1
    BY <2>3, <2>4, <2>5 DEF Span
  <2> QED
    BY <2>1, <2>3, <2>4, <2>6 DEF OpLen
<1> QED
  BY <1>1, <1>2 DEF IsRun

\* A run has at most two bytes, the first of them no VAL.
LEMMA RunBytes ==
  ASSUME NEW z \in Seq(Bytes), NEW l \in Nat, IsRun(z, l)
  PROVE  /\ Len(z) \in {0, 1, 2} /\ (l = 0 <=> Len(z) = 0)
         /\ Len(z) > 0 => z[1] < 128
<1>1. CASE l = 0 /\ z = <<>>
  BY <1>1
<1>2. CASE l >= 1 /\ l <= 64 /\ z = <<l - 1>>
  BY <1>2
<1>3. CASE \E h, t \in Bytes : /\ z = <<h, t>> /\ h >= 64 /\ h < 128
                               /\ l = (h % 64) * 256 + t + 1
  <2>1. PICK h \in Bytes, t \in Bytes : /\ z = <<h, t>> /\ h >= 64 /\ h < 128
                                        /\ l = (h % 64) * 256 + t + 1
    BY <1>3
  <2>2. h \in Nat /\ t \in Nat
    BY BytesAre
  <2>3. PICK g : g = h % 64
    OBVIOUS
  <2>4. g \in Nat /\ l = g * 256 + t + 1
    BY <2>1, <2>2, <2>3
  <2>5. l # 0
    BY <2>2, <2>4
  <2> QED
    BY <2>1, <2>5
<1> QED
  BY <1>1, <1>2, <1>3 DEF IsRun

\* s is y with ZEROs behind it.
PaddedTo(s, y) ==
  /\ s \in Seq(Bytes) /\ Len(s) = 5
  /\ \A i \in 1 .. Len(y) : s[i] = y[i]
  /\ \A i \in 1 .. 5 : i > Len(y) => s[i] = 0

\* The buffer of five bytes.
LEMMA PaddedIs ==
  ASSUME NEW y \in Seq(Bytes), Len(y) <= 5, NEW s, s = Padded(y)
  PROVE  PaddedTo(s, y)
<1>1. PICK n : n = Len(y)
  OBVIOUS
<1>2. n \in Nat /\ n <= 5
  BY <1>1, LenProperties
<1>3. PICK r : r = [i \in 1 .. 5 - n |-> 0]
  OBVIOUS
<1>4. 5 - n \in Nat
  BY <1>2
<1>5. r \in Seq(Bytes) /\ Len(r) = 5 - n /\ \A i \in 1 .. 5 - n : r[i] = 0
  <2>1. 0 \in Bytes
    BY BytesAre
  <2> QED
    BY ONLY <1>3, <1>4, <2>1
<1>6. s = y \o r
  BY <1>1, <1>3 DEF Padded
<1>7. /\ s \in Seq(Bytes) /\ Len(s) = n + (5 - n)
      /\ \A i \in 1 .. n : s[i] = y[i]
      /\ \A i \in 1 .. 5 - n : s[n + i] = r[i]
  BY <1>1, <1>5, <1>6, JoinIs
<1>8. Len(s) = 5
  BY ONLY <1>2, <1>7
<1>9. ASSUME NEW i \in 1 .. 5, i > n PROVE s[i] = 0
  <2>1. i - n \in 1 .. 5 - n /\ n + (i - n) = i
    BY ONLY <1>2, <1>9
  <2> QED
    BY <1>5, <1>7, <2>1
<1> QED
  BY <1>1, <1>7, <1>8, <1>9 DEF PaddedTo

\* z is the run before index, and s what a run from first to end is split into.
Splits(z, s, first, end, index, count) ==
  z = Zeros(index - first) /\ s = Split(first, end, index, count)
\* A run z of l zeros, the count and something that is no VAL.
BeginsWith(s, z, l, count) ==
  /\ z \in Seq(Bytes) /\ IsRun(z, l) /\ Len(z) \in {0, 1, 2}
  /\ s \in Seq(Bytes) /\ Len(s) = 5
  /\ \A i \in 1 .. Len(z) : s[i] = z[i]
  /\ s[Len(z) + 1] = Val(count, 1) /\ s[Len(z) + 2] < 128

\* The places of a run.
Covers(first, end, index) ==
  /\ first \in Nat /\ end \in Nat /\ index \in Nat /\ first <= index /\ index <= end
  /\ end - first < Longest

\* The five bytes of a split: the run before the register, the register, and no VAL.
LEMMA SplitIs ==
  ASSUME NEW first, NEW end, NEW index, Covers(first, end, index), NEW count \in 1 .. 32,
         NEW z, NEW s, Splits(z, s, first, end, index, count)
  PROVE  BeginsWith(s, z, index - first, count)
<1>z. z = Zeros(index - first) /\ s = Split(first, end, index, count)
  BY DEF Splits
<1>0. /\ first \in Nat /\ end \in Nat /\ index \in Nat /\ first <= index /\ index <= end
      /\ end - first < Longest /\ Longest \in Nat
  BY DEF Covers, Longest
<1>1. index - first \in Nat /\ index - first <= Longest
  BY <1>0
<1>2. z \in Seq(Bytes) /\ IsRun(z, index - first)
  BY <1>1, <1>z, ZerosIs
<1>3. Len(z) \in {0, 1, 2}
  BY <1>1, <1>2, RunBytes
<1>4. PICK m, w : m = end - index /\ w = Zeros(m)
  OBVIOUS
<1>5. m \in Nat /\ m <= Longest
  BY <1>0, <1>4
<1>6. w \in Seq(Bytes) /\ IsRun(w, m)
  BY <1>4, <1>5, ZerosIs
<1>7. Len(w) \in {0, 1, 2} /\ (Len(w) > 0 => w[1] < 128)
  BY <1>5, <1>6, RunBytes
<1>8. PICK c : c = Val(count, 1)
  OBVIOUS
<1>9. <<c>> \in Seq(Bytes) /\ Len(<<c>>) = 1 /\ <<c>>[1] = c
  <2>1. c \in Bytes
    BY <1>8, OneByte
  <2> QED
    BY <2>1
<1>10. PICK x, y : x = z \o <<c>> /\ y = x \o w
  OBVIOUS
<1>11. /\ x \in Seq(Bytes) /\ Len(x) = Len(z) + 1 /\ x[Len(z) + 1] = c
       /\ \A i \in 1 .. Len(z) : x[i] = z[i]
  BY <1>2, <1>3, <1>9, <1>10, JoinIs
<1>12. /\ y \in Seq(Bytes) /\ Len(y) = Len(x) + Len(w)
       /\ \A i \in 1 .. Len(x) : y[i] = x[i]
       /\ \A i \in 1 .. Len(w) : y[Len(x) + i] = w[i]
  BY <1>6, <1>10, <1>11, JoinIs
<1>a. PICK j, k : j = Len(z) /\ k = Len(w)
  OBVIOUS
<1>b. j \in {0, 1, 2} /\ k \in {0, 1, 2} /\ Len(x) = j + 1 /\ Len(y) = j + 1 + k
  BY <1>3, <1>7, <1>11, <1>12, <1>a
<1>c. j + 1 + k \in 1 .. 5
  BY <1>b
<1>16. s = Padded(y)
  BY <1>4, <1>8, <1>10, <1>z DEF Split
<1>17. /\ s \in Seq(Bytes) /\ Len(s) = 5
       /\ \A i \in 1 .. Len(y) : s[i] = y[i]
       /\ \A i \in 1 .. 5 : i > Len(y) => s[i] = 0
  <2>1. PaddedTo(s, y)
    BY <1>12, <1>16, <1>b, <1>c, PaddedIs
  <2> QED
    BY <2>1 DEF PaddedTo
<1>19. \A i \in 1 .. Len(z) : s[i] = z[i]
  BY <1>3, <1>7, <1>11, <1>12, <1>17
<1>20. s[Len(z) + 1] = c
  BY <1>3, <1>7, <1>11, <1>12, <1>17
<1>21. s[Len(z) + 2] < 128
  <2>1. CASE Len(w) > 0
    <3>2. 1 \in 1 .. Len(w) /\ Len(x) + 1 = j + 2 /\ j + 2 \in 1 .. Len(y)
      BY <1>a, <1>b, <2>1
    <3>3. y[j + 2] = w[1]
      BY <1>12, <3>2
    <3>1. s[Len(z) + 2] = w[1]
      BY <1>17, <1>a, <3>2, <3>3
    <3> QED
      BY <1>7, <2>1, <3>1
  <2>2. CASE Len(w) = 0
    <3>1. j + 2 \in 1 .. 5 /\ j + 2 > Len(y)
      <4>1. k = 0
        BY <1>a, <2>2
      <4>2. j + 2 \in 1 .. 5 /\ j + 2 > j + 1 + 0
        BY ONLY <1>b
      <4> QED
        BY <1>b, <4>1, <4>2
    <3>2. s[j + 2] = 0
      BY <1>17, <3>1
    <3> QED
      BY <1>a, <3>2
  <2> QED
    BY <1>7, <2>1, <2>2
<1> QED
  BY <1>2, <1>3, <1>8, <1>17, <1>19, <1>20, <1>21 DEF BeginsWith

\* A run of VALs, none of length 0.
LEMMA ValsAre ==
  ASSUME NEW v \in 1 .. 32, NEW l \in Nat
  PROVE  /\ Vals(v, l) \in Seq(Bytes) /\ Len(Vals(v, l)) \in {0, 1}
         /\ l = 0 => Len(Vals(v, l)) = 0
<1>1. CASE l = 0
  BY <1>1 DEF Vals
<1>2. CASE l # 0
  <2>1. PICK c : c = Val(v, l)
    OBVIOUS
  <2>2. c \in Bytes
    BY <1>2, <2>1, ValIsByte
  <2>3. Vals(v, l) = <<c>>
    BY <1>2, <2>1 DEF Vals
  <2> QED
    BY <1>2, <2>2, <2>3
<1> QED
  BY <1>1, <1>2

\* s is what VALs are split into, five bytes of which the register is the first if it is
\* the first of the run.
SplitsVals(s, first, end, index, count, v) == s = SplitVal(first, end, index, count, v)
BeginsWithVal(s, first, index, count) ==
  s \in Seq(Bytes) /\ Len(s) = 5 /\ (index = first => s[1] = Val(count, 1))
LEMMA SplitValIs ==
  ASSUME NEW first, NEW end, NEW index, Covers(first, end, index), NEW count \in 1 .. 32,
         NEW v \in 1 .. 32, NEW s, SplitsVals(s, first, end, index, count, v)
  PROVE  BeginsWithVal(s, first, index, count)
<1>0. index - first \in Nat /\ end - index \in Nat /\ (index = first => index - first = 0)
  BY DEF Covers
<1>1. PICK z, w : z = Vals(v, index - first) /\ w = Vals(v, end - index)
  OBVIOUS
<1>2. z \in Seq(Bytes) /\ Len(z) \in {0, 1} /\ (index = first => Len(z) = 0)
  BY <1>0, <1>1, ValsAre
<1>3. w \in Seq(Bytes) /\ Len(w) \in {0, 1}
  BY <1>0, <1>1, ValsAre
<1>4. PICK c : c = Val(count, 1)
  OBVIOUS
<1>5. <<c>> \in Seq(Bytes) /\ Len(<<c>>) = 1 /\ <<c>>[1] = c
  <2>1. c \in Bytes
    BY <1>4, OneByte
  <2> QED
    BY <2>1
<1>6. PICK x, y : x = z \o <<c>> /\ y = x \o w
  OBVIOUS
<1>7. x \in Seq(Bytes) /\ Len(x) = Len(z) + 1 /\ x[Len(z) + 1] = c
  BY <1>2, <1>5, <1>6, JoinIs
<1>8. /\ y \in Seq(Bytes) /\ Len(y) = Len(x) + Len(w)
      /\ \A i \in 1 .. Len(x) : y[i] = x[i]
  BY <1>3, <1>6, <1>7, JoinIs
<1>9. Len(y) \in 1 .. 3 /\ (index = first => y[1] = c)
  <2>1. PICK j, k : j = Len(z) /\ k = Len(w)
    OBVIOUS
  <2>2. j \in {0, 1} /\ k \in {0, 1} /\ Len(x) = j + 1 /\ Len(y) = j + 1 + k
    BY <1>2, <1>3, <1>7, <1>8, <2>1
  <2>3. j + 1 + k \in 1 .. 3
    BY ONLY <2>2
  <2>4. ASSUME index = first PROVE y[1] = c
    <3>1. j = 0 /\ 1 \in 1 .. Len(x) /\ x[1] = c
      BY <1>2, <1>7, <2>1, <2>2, <2>4
    <3> QED
      BY <1>8, <3>1
  <2> QED
    BY <2>2, <2>3, <2>4
<1>10. s = Padded(y)
  BY <1>1, <1>4, <1>6 DEF SplitVal, SplitsVals
<1>11. PaddedTo(s, y)
  BY <1>8, <1>9, <1>10, PaddedIs
<1>12. 1 \in 1 .. Len(y)
  BY <1>9
<1> QED
  BY <1>4, <1>9, <1>11, <1>12 DEF PaddedTo, BeginsWithVal

-------------------------------------------------------------------------------
\* The scan behind a split leaves the run before the register, and the register.

\* A new byte at p, and the register and a run behind it are looked at and left.
LEMMA LookAtVal ==
  ASSUME NEW b \in Seq(Bytes), NEW p \in Nat, IsVal(b, p), ~IsVal(b, p + 1), p < Len(b)
  PROVE  Look([b |-> b, p |-> p]) = [b |-> b, p |-> p + 1]
<1>1. MergedAt(b, p) = b
  BY DEF MergedAt
<1>2. Len(b) \in Nat
  BY LenProperties
<1>3. PICK s : s = [b |-> b, p |-> p]
  OBVIOUS
<1>4. s.b = b /\ s.p = p /\ s.p < Len(s.b) /\ s \in [b : Seq(Bytes), p : Nat]
  BY <1>2, <1>3
<1>6. IsVal(s.b, s.p)
  BY <1>4
<1>5. Look(s) = [b |-> MergedAt(s.b, s.p), p |-> s.p + 1]
  BY <1>4, <1>6, LookIs
<1> QED
  BY <1>1, <1>3, <1>4, <1>5

\* A look at a run of zeros steps over it.
LEMMA LookAtRun ==
  ASSUME NEW b \in Seq(Bytes), NEW p \in Nat, ~IsVal(b, p), p < Len(b)
  PROVE  Look([b |-> b, p |-> p]) = [b |-> b, p |-> p + OpLen(b, p)]
<1>2. Len(b) \in Nat
  BY LenProperties
<1>3. PICK s : s = [b |-> b, p |-> p]
  OBVIOUS
<1>4. s.b = b /\ s.p = p /\ s.p < Len(s.b) /\ s \in [b : Seq(Bytes), p : Nat]
  BY <1>2, <1>3
<1>6. ~IsVal(s.b, s.p)
  BY <1>4
<1>5. Look(s) = [s EXCEPT !.p = s.p + OpLen(s.b, s.p)]
  BY <1>4, <1>6, LookIs
<1> QED
  BY <1>3, <1>4, <1>5

\* Where b has the run z and the register at p.
Holds(b, p, z, l, v) ==
  /\ p + Len(z) + 2 <= Len(b)
  /\ \A i \in 1 .. Len(z) : b[p + i] = z[i]
  /\ b[p + Len(z) + 1] = Val(v, 1)

\* The looks keep a run and the count behind it: the byte behind the count is no VAL.
LEMMA UpdatedKeeps ==
  ASSUME NEW b \in Seq(Bytes), NEW p \in Nat, NEW z \in Seq(Bytes), NEW l \in Nat,
         IsRun(z, l), NEW v \in 1 .. 32, Holds(b, p, z, l, v), b[p + Len(z) + 2] < 128
  PROVE  /\ Updated(b, p) \in Seq(Bytes) /\ Len(Updated(b, p)) <= Len(b)
         /\ Len(Updated(b, p)) >= p + Len(z) + 1
         /\ \A i \in 1 .. p + Len(z) + 1 : Updated(b, p)[i] = b[i]
<1>1. Len(b) \in Nat /\ Len(z) \in {0, 1, 2} /\ (l = 0 <=> Len(z) = 0)
  BY LenProperties, RunBytes
<1>2. PICK q : q = p + Len(z)
  OBVIOUS
<1>3. q \in Nat /\ q + 2 <= Len(b) /\ p <= q
  BY <1>1, <1>2 DEF Holds
<1>4. IsVal(b, q) /\ OpLen(b, q) = 1
  BY <1>2, <1>3, ValAt DEF Holds
<1>5. ~IsVal(b, q + 1)
  <2>1. PICK x : x = b[q + 1 + 1]
    OBVIOUS
  <2>2. q + 1 \in 0 .. Len(b) - 1
    BY <1>1, <1>3
  <2>3. x \in Bytes
    BY <2>1, <2>2, ByteAt
  <2>4. q + 1 + 1 = p + Len(z) + 2
    BY <1>1, <1>2
  <2>5. x < 128 /\ x \in Nat
    BY <2>1, <2>3, <2>4, BytesAre
  <2> QED
    BY <2>1, <2>5 DEF IsVal
<1>6. PICK s, t, u : s = [b |-> b, p |-> p] /\ t = [b |-> b, p |-> q] /\ u = [b |-> b, p |-> q + 1]
  OBVIOUS
<1>7. Look(t) = u
  BY <1>1, <1>3, <1>4, <1>5, <1>6, LookAtVal
<1>8. u \in [b : Seq(Bytes), p : Nat] /\ q + 1 \in 0 .. u.p
  BY <1>3, <1>6
<1>9. PICK x : x = Updated(b, p)
  OBVIOUS
<1>10. \E y \in [b : Seq(Bytes), p : Nat] : x = y.b /\ Leaves(u, y, q + 1)
  <2>1. CASE Len(z) = 0
    <3>1. s = t
      BY <1>2, <1>6, <2>1
    <3>2. x = Look(Look(Look(Look(u)))).b
      BY <1>6, <1>7, <1>9, <3>1 DEF Updated
    <3>3. PICK y : y = Look(Look(Look(Look(u))))
      OBVIOUS
    <3>4. Leaves(u, y, q + 1)
      BY <1>8, <3>3, LooksLeave
    <3>5. y \in [b : Seq(Bytes), p : Nat]
      BY <1>8, <3>3, LooksType
    <3> QED
      BY <3>2, <3>3, <3>4, <3>5
  <2>2. CASE Len(z) # 0
    <3>1. l \in Nat /\ l >= 1
      BY <1>1, <2>2
    <3>2. PICK n : n = Len(b)
      OBVIOUS
    <3>3. n \in Nat /\ p + Len(z) <= n
      BY <1>1, <1>2, <1>3, <3>2
    <3>4. \A i \in 1 .. Len(z) : b[p + i] = z[i]
      BY DEF Holds
    <3>5. OpLen(b, p) = Len(z) /\ ~IsVal(b, p)
      BY <3>1, <3>2, <3>3, <3>4, RunAt
    <3>6. p < Len(b)
      BY <1>1, <1>2, <1>3
    <3>7. Look(s) = t
      BY <1>2, <1>6, <3>5, <3>6, LookAtRun
    <3>8. x = Look(Look(Look(u))).b
      BY <1>6, <1>7, <1>9, <3>7 DEF Updated
    <3>9. PICK y : y = Look(Look(Look(u)))
      OBVIOUS
    <3>10. Leaves(u, y, q + 1)
      BY <1>8, <3>9, LooksLeave
    <3>11. y \in [b : Seq(Bytes), p : Nat]
      BY <1>8, <3>9, LooksType
    <3> QED
      BY <3>8, <3>9, <3>10, <3>11
  <2> QED
    BY <2>1, <2>2
<1>11. PICK y \in [b : Seq(Bytes), p : Nat] : x = y.b /\ Leaves(u, y, q + 1)
  BY <1>10
<1>12. u.b = b /\ Len(u.b) >= q + 1
  BY <1>1, <1>3, <1>6
<1>13. /\ x \in Seq(Bytes) /\ Len(x) <= Len(b) /\ Len(x) >= q + 1
       /\ \A i \in 1 .. q + 1 : x[i] = b[i]
  BY <1>11, <1>12 DEF Leaves
<1>14. p + Len(z) + 1 = q + 1
  BY <1>1, <1>2
<1> QED
  BY <1>9, <1>13, <1>14

\* What a VAL at p says.
Says(b, p, v) == IsVal(b, p) /\ ValValue(b, p) = v

\* A VAL at p still says v when it was made one with the VAL behind it.
LEMMA MergedSays ==
  ASSUME NEW b \in Seq(Bytes), NEW p \in Nat, p < Len(b), NEW v, Says(b, p, v)
  PROVE  /\ MergedAt(b, p) \in Seq(Bytes) /\ Len(MergedAt(b, p)) > p
         /\ Len(MergedAt(b, p)) <= Len(b)
         /\ \A i \in 1 .. p : MergedAt(b, p)[i] = b[i]
         /\ Says(MergedAt(b, p), p, v)
<1>0. Len(b) \in Nat
  BY LenProperties
<1>1. PICK m : m = MergedAt(b, p)
  OBVIOUS
<1>2. CASE m = b
  BY <1>0, <1>1, <1>2
<1>3. CASE m # b
  <2>1. /\ p + 1 < Len(b) /\ IsVal(b, p + 1) /\ ValValue(b, p) = ValValue(b, p + 1)
        /\ m = RemoveAt(b, p + 1)
    BY <1>1, <1>3 DEF MergedAt
  <2>2. p + 1 \in 1 .. Len(b) /\ p + 1 - 1 = p
    BY <1>0, <2>1
  <2>3. /\ m \in Seq(Bytes) /\ Len(m) = Len(b) - 1 /\ m[p + 1] = b[p + 1 + 1]
        /\ \A i \in 1 .. p : m[i] = b[i]
    BY <2>1, <2>2, RemoveIs
  <2>4. IsVal(m, p) /\ ValValue(m, p) = ValValue(b, p + 1)
    BY <2>1, <2>3 DEF IsVal, ValValue
  <2>5. Says(m, p, v)
    BY <2>1, <2>4 DEF Says
  <2> QED
    BY <1>0, <1>1, <2>1, <2>3, <2>5
<1> QED
  BY <1>2, <1>3

\* The scan leaves what the VAL it begins with says.
LEMMA UpdatedSays ==
  ASSUME NEW b \in Seq(Bytes), NEW p \in Nat, p < Len(b), NEW v, Says(b, p, v)
  PROVE  /\ Updated(b, p) \in Seq(Bytes) /\ Len(Updated(b, p)) > p
         /\ Len(Updated(b, p)) <= Len(b)
         /\ \A i \in 1 .. p : Updated(b, p)[i] = b[i]
         /\ Says(Updated(b, p), p, v)
<1>1. PICK m : m = MergedAt(b, p)
  OBVIOUS
<1>2. /\ m \in Seq(Bytes) /\ Len(m) > p /\ Len(m) <= Len(b) /\ \A i \in 1 .. p : m[i] = b[i]
      /\ Says(m, p, v)
  BY <1>1, MergedSays
<1>3. PICK s, u : s = [b |-> b, p |-> p] /\ u = [b |-> m, p |-> p + 1]
  OBVIOUS
<1>4. s \in [b : Seq(Bytes), p : Nat] /\ s.b = b /\ s.p = p /\ s.p < Len(s.b)
  BY <1>3
<1>5. IsVal(s.b, s.p)
  BY <1>4 DEF Says
<1>6. Look(s) = u
  BY <1>1, <1>3, <1>4, <1>5, LookIs
<1>7. u \in [b : Seq(Bytes), p : Nat] /\ u.b = m /\ p + 1 \in 0 .. u.p
  BY <1>2, <1>3
<1>8. PICK y : y = Look(Look(Look(Look(u))))
  OBVIOUS
<1>9. Leaves(u, y, p + 1)
  BY <1>7, <1>8, LooksLeave
<1>10. Updated(b, p) = y.b
  BY <1>3, <1>6, <1>8 DEF Updated
<1>11. PICK x : x = Updated(b, p)
  OBVIOUS
<1>12. Len(m) \in Nat /\ Len(b) \in Nat /\ Len(m) >= p + 1
  BY <1>2, LenProperties
<1>13. /\ x \in Seq(Bytes) /\ Len(x) <= Len(m) /\ Len(x) >= p + 1
       /\ \A i \in 1 .. p + 1 : x[i] = m[i]
  BY <1>7, <1>9, <1>10, <1>11, <1>12 DEF Leaves
<1>14. x[p + 1] = m[p + 1] /\ \A i \in 1 .. p : x[i] = b[i]
  BY <1>2, <1>13
<1>15. Says(x, p, v)
  BY <1>2, <1>14 DEF Says, IsVal, ValValue
<1>16. Len(x) \in Nat
  BY <1>13, LenProperties
<1>17. Len(x) > p /\ Len(x) <= Len(b)
  BY ONLY <1>2, <1>12, <1>13, <1>16, p \in Nat
<1> QED
  BY <1>11, <1>13, <1>14, <1>15, <1>17

-------------------------------------------------------------------------------
\* What hllSparseSet writes.

\* The bytes before the opcode stay when its first byte is written and looked at.
Rewrites(r, b, p, v) == r = Updated([b EXCEPT ![p + 1] = v], p)
Rewritten(r, b, p) ==
  r \in Seq(Bytes) /\ Len(r) <= Len(b) /\ Len(r) > p /\ \A i \in 1 .. p : r[i] = b[i]
LEMMA RewrittenIs ==
  ASSUME NEW b \in Seq(Bytes), NEW p \in 0 .. Len(b) - 1, NEW v \in Bytes,
         NEW r, Rewrites(r, b, p, v)
  PROVE  Rewritten(r, b, p)
<1>1. Len(b) \in Nat /\ p \in Nat
  BY LenProperties
<1>2. PICK c : c = [b EXCEPT ![p + 1] = v]
  OBVIOUS
<1>3. c \in Seq(Bytes) /\ Len(c) = Len(b) /\ \A i \in 1 .. p : c[i] = b[i]
  BY <1>1, <1>2
<1>4. PICK s : s = [b |-> c, p |-> p]
  OBVIOUS
<1>5. s \in [b : Seq(Bytes), p : Nat] /\ s.b = c /\ p \in 0 .. s.p
  BY <1>1, <1>3, <1>4
<1>6. PICK t : t = Look(Look(Look(Look(Look(s)))))
  OBVIOUS
<1>7. Leaves(s, t, p)
  BY <1>5, <1>6, LooksLeave
<1>8. r = t.b
  BY <1>2, <1>4, <1>6 DEF Updated, Rewrites
<1>9. Len(c) > p
  BY <1>1, <1>3
<1> QED
  BY <1>3, <1>5, <1>7, <1>8, <1>9 DEF Leaves, Rewritten

\* What takes the place of an opcode is between what was before it and what is put behind.
Spliced(c, b, p, s, behind) == c = SubSeq(b, 1, p) \o s \o behind
HasParts(c, b, p, s, behind) ==
  /\ c \in Seq(Bytes) /\ Len(c) = p + 5 + Len(behind) /\ Len(behind) \in Nat
  /\ \A i \in 1 .. p : c[i] = b[i]
  /\ \A i \in 1 .. 5 : c[p + i] = s[i]

\* What a splice is made of.
LEMMA SplicedIs ==
  ASSUME NEW b \in Seq(Bytes), NEW p \in Nat, p <= Len(b), NEW s \in Seq(Bytes), Len(s) = 5,
         NEW behind \in Seq(Bytes), NEW c, Spliced(c, b, p, s, behind)
  PROVE  HasParts(c, b, p, s, behind)
<1>1. PICK x, y : x = SubSeq(b, 1, p) /\ y = x \o s
  OBVIOUS
<1>2. Len(b) \in Nat /\ Len(behind) \in Nat
  BY LenProperties
<1>3. x \in Seq(Bytes) /\ Len(x) = p /\ \A i \in 1 .. p : x[i] = b[i]
  BY <1>1, <1>2, HeadIs
<1>4. /\ y \in Seq(Bytes) /\ Len(y) = p + 5
      /\ \A i \in 1 .. p : y[i] = x[i]
      /\ \A i \in 1 .. 5 : y[p + i] = s[i]
  <2>1. /\ y \in Seq(Bytes) /\ Len(y) = Len(x) + Len(s)
        /\ \A i \in 1 .. Len(x) : y[i] = x[i]
        /\ \A i \in 1 .. Len(s) : y[Len(x) + i] = s[i]
    BY ONLY <1>1, <1>3, s \in Seq(Bytes), JoinIs
  <2> QED
    BY <1>3, <2>1
<1>5. c = y \o behind
  BY <1>1 DEF Spliced
<1>6. /\ c \in Seq(Bytes) /\ Len(c) = Len(y) + Len(behind)
      /\ \A i \in 1 .. Len(y) : c[i] = y[i]
  BY ONLY <1>4, <1>5, behind \in Seq(Bytes), JoinIs
<1>7. \A i \in 1 .. p : c[i] = b[i]
  <2>1. \A i \in 1 .. p : i \in 1 .. p + 5
    BY ONLY p \in Nat
  <2>2. \A i \in 1 .. p + 5 : c[i] = y[i]
    BY ONLY <1>4, <1>6
  <2> QED
    BY ONLY <2>1, <2>2, <1>3, <1>4
<1>8. \A i \in 1 .. 5 : c[p + i] = s[i]
  <2>1. \A i \in 1 .. 5 : p + i \in 1 .. p + 5
    BY ONLY p \in Nat
  <2> QED
    BY ONLY <2>1, <1>4, <1>6
<1> QED
  BY ONLY <1>2, <1>4, <1>6, <1>7, <1>8 DEF HasParts

\* What was written is where the opcode was, and the bytes before it are as they were.
Written(r, b, p, z, count) ==
  /\ r \in Seq(Bytes) /\ Len(r) >= p + Len(z) + 1
  /\ \A i \in 1 .. p : r[i] = b[i]
  /\ \A i \in 1 .. Len(z) : r[p + i] = z[i]
  /\ Says(r, p + Len(z), count)

\* The scan leaves a split that begins with a run of zeros.
LEMMA SplitIsWritten ==
  ASSUME NEW c \in Seq(Bytes), NEW p \in Nat, NEW b, NEW s, NEW behind,
         NEW e, HasParts(e, c, p, s, behind), \A i \in 1 .. p : c[i] = b[i],
         NEW z, NEW l \in Nat, NEW count \in 1 .. 32, BeginsWith(s, z, l, count)
  PROVE  Written(Updated(e, p), b, p, z, count)
<1>1. /\ e \in Seq(Bytes) /\ Len(e) = p + 5 + Len(behind) /\ Len(behind) \in Nat
      /\ \A i \in 1 .. p : e[i] = c[i]
      /\ \A i \in 1 .. 5 : e[p + i] = s[i]
  BY DEF HasParts
<1>2. /\ z \in Seq(Bytes) /\ IsRun(z, l) /\ Len(z) \in {0, 1, 2}
      /\ \A i \in 1 .. Len(z) : s[i] = z[i]
      /\ s[Len(z) + 1] = Val(count, 1) /\ s[Len(z) + 2] < 128
  BY DEF BeginsWith
<1>a. PICK j, f : j = Len(z) /\ f = Len(e)
  OBVIOUS
<1>b. j \in {0, 1, 2}
  BY <1>2, <1>a
<1>3. Holds(e, p, z, l, count)
  <2>1. p + j + 2 <= f
    <3>1. PICK g : g = Len(behind)
      OBVIOUS
    <3>2. g \in Nat /\ f = p + 5 + g
      BY <1>1, <1>a, <3>1
    <3> QED
      BY ONLY <3>2, <1>b, p \in Nat
  <2>2. ASSUME NEW i \in 1 .. j PROVE e[p + i] = z[i]
    <3>1. i \in 1 .. 5
      BY <1>b
    <3> QED
      BY <1>1, <1>2, <1>a, <3>1
  <2>3. e[p + j + 1] = Val(count, 1)
    <3>1. j + 1 \in 1 .. 5 /\ p + (j + 1) = p + j + 1
      BY <1>b
    <3> QED
      BY <1>1, <1>2, <1>a, <3>1
  <2> QED
    BY <1>a, <2>1, <2>2, <2>3 DEF Holds
<1>4. e[p + Len(z) + 2] < 128
  <2>1. PICK k : k = j + 2
    OBVIOUS
  <2>2. k \in 1 .. 5 /\ p + k = p + j + 2
    BY <1>b, <2>1
  <2>3. e[p + k] = s[k] /\ s[k] < 128
    BY <1>1, <1>2, <1>a, <2>1, <2>2
  <2> QED
    BY <1>a, <2>2, <2>3
<1>5. PICK r : r = Updated(e, p)
  OBVIOUS
<1>6. /\ r \in Seq(Bytes) /\ Len(r) <= Len(e) /\ Len(r) >= p + j + 1
      /\ \A i \in 1 .. p + j + 1 : r[i] = e[i]
  <2>1. /\ Updated(e, p) \in Seq(Bytes) /\ Len(Updated(e, p)) <= Len(e)
        /\ Len(Updated(e, p)) >= p + Len(z) + 1
        /\ \A i \in 1 .. p + Len(z) + 1 : Updated(e, p)[i] = e[i]
    <3>1. e \in Seq(Bytes) /\ z \in Seq(Bytes) /\ IsRun(z, l)
      BY <1>1, <1>2
    <3> QED
      BY ONLY <3>1, <1>3, <1>4, p \in Nat, l \in Nat, count \in 1 .. 32, UpdatedKeeps, Zenon
  <2> QED
    BY ONLY <2>1, <1>5, <1>a
<1>7. \A i \in 1 .. p : r[i] = b[i]
  <2>1. \A i \in 1 .. p : i \in 1 .. p + j + 1
    BY ONLY <1>b, p \in Nat
  <2> QED
    BY <1>1, <1>6, <2>1
<1>8. \A i \in 1 .. Len(z) : r[p + i] = z[i]
  <2> SUFFICES ASSUME NEW i \in 1 .. j PROVE r[p + i] = z[i]
    BY <1>a
  <2>1. p + i \in 1 .. p + j + 1
    BY <1>b
  <2> QED
    BY <1>3, <1>6, <1>a, <2>1 DEF Holds
<1>9. Says(r, p + Len(z), count)
  <2>1. p + j + 1 \in 1 .. p + j + 1 /\ p + j \in Nat
    BY <1>b
  <2>2. r[p + j + 1] = Val(count, 1)
    BY <1>3, <1>6, <1>a, <2>1 DEF Holds
  <2>3. PICK q : q = p + j
    OBVIOUS
  <2>4. q \in Nat /\ r[q + 1] = Val(count, 1)
    BY <2>1, <2>2, <2>3
  <2>5. IsVal(r, q) /\ ValValue(r, q) = count
    BY ONLY <2>4, count \in 1 .. 32, ValAt
  <2> QED
    BY <1>a, <2>3, <2>5 DEF Says
<1> QED
  BY ONLY <1>5, <1>6, <1>7, <1>8, <1>9, <1>a DEF Written

\* The scan leaves a split that begins with the count.
LEMMA ValIsWritten ==
  ASSUME NEW c \in Seq(Bytes), NEW p \in Nat, NEW b, NEW s, NEW behind,
         NEW e, HasParts(e, c, p, s, behind), \A i \in 1 .. p : c[i] = b[i],
         NEW count \in 1 .. 32, s[1] = Val(count, 1)
  PROVE  Written(Updated(e, p), b, p, <<>>, count)
<1>1. /\ e \in Seq(Bytes) /\ Len(e) = p + 5 + Len(behind) /\ Len(behind) \in Nat
      /\ \A i \in 1 .. p : e[i] = c[i]
      /\ \A i \in 1 .. 5 : e[p + i] = s[i]
  BY DEF HasParts
<1>2. e[p + 1] = Val(count, 1) /\ p < Len(e)
  <2>1. 1 \in 1 .. 5
    OBVIOUS
  <2>2. e[p + 1] = Val(count, 1)
    BY <1>1, <2>1
  <2>3. PICK n, m : n = Len(behind) /\ m = Len(e)
    OBVIOUS
  <2>4. n \in Nat /\ m = p + 5 + n
    BY <1>1, <2>3
  <2>5. p < m
    BY ONLY <2>4, p \in Nat
  <2> QED
    BY <2>2, <2>3, <2>5
<1>3. Says(e, p, count)
  <2>1. IsVal(e, p) /\ ValValue(e, p) = count
    BY ONLY <1>2, p \in Nat, count \in 1 .. 32, ValAt
  <2> QED
    BY <2>1 DEF Says
<1>4. PICK r : r = Updated(e, p)
  OBVIOUS
<1>5. /\ r \in Seq(Bytes) /\ Len(r) > p /\ \A i \in 1 .. p : r[i] = e[i]
      /\ Says(r, p, count)
  <2>1. e \in Seq(Bytes) /\ p < Len(e)
    BY <1>1, <1>2
  <2> QED
    BY ONLY <2>1, <1>3, <1>4, p \in Nat, UpdatedSays
<1>6. Len(<<>>) = 0 /\ p + 0 = p /\ Len(r) >= p + 0 + 1 /\ \A i \in 1 .. 0 : FALSE
  <2>1. Len(r) \in Nat
    BY <1>5, LenProperties
  <2> QED
    BY <1>5, <2>1
<1> QED
  BY <1>1, <1>4, <1>5, <1>6 DEF Written

\* The parts of SetAt: the old form with a run of one register written over, what the
\* run is split into, the position behind the opcode and what is put behind.
One(b, op, index, count) ==
  IF ~LikeXzero(op.p) /\ b[op.p + 1] % (IF LikeVal(op.p) THEN 4 ELSE 64) = 0
  THEN Updated([b EXCEPT ![op.p + 1] = Val(count, 1)], op.p) ELSE b
New(b, op, index, count, c) ==
  IF LikeVal(op.p)
  THEN SplitVal(op.first, op.first + Span(b, op.p) - 1, index, count, ValValue(c, op.p))
  ELSE Split(op.first, op.first + Span(b, op.p) - 1, index, count)
NextOf(op) == IF LikeXzero(op.p) THEN op.p + 2 ELSE op.p + 1
Rest(b, op, c) ==
  IF NextOf(op) >= Len(b) THEN c ELSE SubSeq(c, NextOf(op) + 1, Len(c))

\* SetAt is made of them.
Parts(b, op, index, count, c, s, behind) ==
  c = One(b, op, index, count) /\ s = New(b, op, index, count, c) /\ behind = Rest(b, op, c)
LEMMA SetAtParts ==
  ASSUME NEW b, NEW op, NEW index, NEW count, NEW c, NEW s, NEW behind,
         Parts(b, op, index, count, c, s, behind), NEW e, Spliced(e, c, op.p, s, behind)
  PROVE  SetAt(b, op, index, count) = Updated(e, op.p)
<1>1. SetAt(b, op, index, count) = Updated(SubSeq(c, 1, op.p) \o s \o behind, op.p)
  BY Zenon DEF SetAt, One, New, Rest, NextOf, Parts
<1> QED
  BY <1>1 DEF Spliced

\* Where the old form is written over it is the same before the opcode.
WrittenOver(c, b, op) ==
  /\ c \in Seq(Bytes) /\ Len(c) <= Len(b) /\ Len(c) > op.p
  /\ \A i \in 1 .. op.p : c[i] = b[i]
  /\ LikeXzero(op.p) => c = b
LEMMA OneIs ==
  ASSUME NEW b \in Seq(Bytes), NEW op, op.p \in 0 .. Len(b) - 1, NEW index,
         NEW count \in 1 .. 32, NEW c, c = One(b, op, index, count)
  PROVE  WrittenOver(c, b, op)
<1>1. PICK p : p = op.p
  OBVIOUS
<1>2. p \in 0 .. Len(b) - 1 /\ Len(b) \in Nat
  BY <1>1, LenProperties
<1>3. PICK v : v = Val(count, 1)
  OBVIOUS
<1>4. v \in Bytes
  BY <1>3, OneByte
<1>5. CASE c = b
  BY <1>1, <1>2, <1>5 DEF WrittenOver
<1>6. CASE c # b
  <2>1. c = Updated([b EXCEPT ![p + 1] = v], p) /\ ~LikeXzero(p)
    BY <1>1, <1>3, <1>6 DEF One
  <2>2. Rewrites(c, b, p, v)
    BY <2>1 DEF Rewrites
  <2>3. Rewritten(c, b, p)
    BY ONLY <1>2, <1>4, <2>2, b \in Seq(Bytes), RewrittenIs
  <2> QED
    BY <1>1, <2>1, <2>3 DEF WrittenOver, Rewritten
<1> QED
  BY <1>5, <1>6

\* What is put behind is bytes.
LEMMA RestIs ==
  ASSUME NEW b \in Seq(Bytes), NEW op, op.p \in 0 .. Len(b) - 1, NEW c \in Seq(Bytes),
         Len(c) > op.p, LikeXzero(op.p) => c = b
  PROVE  Rest(b, op, c) \in Seq(Bytes)
<1>1. PICK p, n, m : p = op.p /\ n = NextOf(op) /\ m = Len(c)
  OBVIOUS
<1>2. Len(b) \in Nat /\ m \in Nat /\ p \in Nat
  BY <1>1, LenProperties
<1>3. CASE n >= Len(b)
  BY <1>1, <1>3 DEF Rest
<1>4. CASE ~(n >= Len(b))
  <2>1. n \in 0 .. m
    <3>1. CASE LikeXzero(p)
      BY <1>1, <1>2, <1>4, <3>1 DEF NextOf
    <3>2. CASE ~LikeXzero(p)
      BY <1>1, <1>2, <3>2 DEF NextOf
    <3> QED
      BY <3>1, <3>2
  <2>2. Rest(b, op, c) = SubSeq(c, n + 1, m)
    BY <1>1, <1>4 DEF Rest
  <2> QED
    BY <1>1, <2>1, <2>2, TailIs
<1> QED
  BY <1>3, <1>4

\* The runs in front of the index that are sure to be read as they were written: zeros,
\* or none.
Sure(op, index) == ~LikeVal(op.p) \/ index = op.first

\* What hllSparseSet makes of the registers: bytes, and if the run in front is sure all
\* before the opcode, the run up to the index, the count, and whatever comes behind.
LEMMA SetAtIs ==
  ASSUME NEW b \in Seq(Bytes), NEW op \in [p : 0 .. Len(b) - 1, first : Nat],
         NEW index \in Nat, op.first <= index, index <= op.first + Span(b, op.p) - 1,
         NEW count \in 1 .. 32
  PROVE  /\ SetAt(b, op, index, count) \in Seq(Bytes) /\ Len(SetAt(b, op, index, count)) >= 1
         /\ Sure(op, index) =>
              \E z \in Seq(Bytes) : /\ IsRun(z, index - op.first)
                                    /\ Written(SetAt(b, op, index, count), b, op.p, z, count)
<1>1. Len(b) \in Nat /\ op.p \in Nat /\ op.p \in 0 .. Len(b) - 1 /\ op.first \in Nat
  BY LenProperties
<1>2. PICK p, first, end : p = op.p /\ first = op.first /\ end = op.first + Span(b, op.p) - 1
  OBVIOUS
<1>3. Covers(first, end, index)
  <2>1. Span(b, op.p) \in Spans
    BY <1>1, SpanIs
  <2>2. PICK n : n = Span(b, op.p)
    OBVIOUS
  <2>3. n \in Nat /\ n >= 1 /\ n <= Longest /\ Longest \in Nat
    BY <2>1, <2>2 DEF Spans, Longest
  <2>4. PICK i : i = index
    OBVIOUS
  <2>5. /\ i \in Nat /\ first \in Nat /\ first <= i /\ i <= first + n - 1 /\ end = first + n - 1
    BY <1>1, <1>2, <2>2, <2>4
  <2>6. end \in Nat /\ i <= end /\ end - first < Longest
    BY ONLY <2>3, <2>5
  <2> QED
    BY ONLY <2>4, <2>5, <2>6 DEF Covers
<1>4. PICK c : c = One(b, op, index, count)
  OBVIOUS
<1>5. /\ c \in Seq(Bytes) /\ Len(c) > p /\ \A i \in 1 .. p : c[i] = b[i]
      /\ LikeXzero(op.p) => c = b
  <2>1. WrittenOver(c, b, op)
    BY ONLY <1>1, <1>4, b \in Seq(Bytes), count \in 1 .. 32, OneIs, Zenon
  <2> QED
    BY <1>2, <2>1 DEF WrittenOver
<1>6. PICK s : s = New(b, op, index, count, c)
  OBVIOUS
<1>7. ValValue(c, p) \in 1 .. 32
  <2>1. p \in 0 .. Len(c) - 1
    <3>1. Len(c) \in Nat
      BY <1>5, LenProperties
    <3> QED
      BY <1>1, <1>2, <1>5, <3>1
  <2>2. PICK x : x = c[p + 1]
    OBVIOUS
  <2>3. x \in Bytes
    BY <1>5, <2>1, <2>2, ByteAt
  <2>4. x \in Nat /\ x < 256
    BY <2>3, BytesAre
  <2> QED
    BY <1>1, <1>2, <2>2, <2>4, ValValueOf
<1>8. PICK z : z = Zeros(index - first)
  OBVIOUS
<1>9. ~LikeVal(p) => BeginsWith(s, z, index - first, count)
  <2> SUFFICES ASSUME ~LikeVal(p) PROVE BeginsWith(s, z, index - first, count)
    OBVIOUS
  <2>1. s = Split(first, end, index, count)
    BY <1>2, <1>6 DEF New
  <2>2. Splits(z, s, first, end, index, count)
    BY <1>8, <2>1 DEF Splits
  <2> QED
    BY ONLY <1>3, <2>2, count \in 1 .. 32, SplitIs, Zenon
<1>10. LikeVal(p) => BeginsWithVal(s, first, index, count)
  <2> SUFFICES ASSUME LikeVal(p) PROVE BeginsWithVal(s, first, index, count)
    OBVIOUS
  <2>1. PICK v : v = ValValue(c, p)
    OBVIOUS
  <2>2. SplitsVals(s, first, end, index, count, v) /\ v \in 1 .. 32
    BY <1>2, <1>6, <1>7, <2>1 DEF New, SplitsVals
  <2> QED
    BY ONLY <1>3, <2>2, count \in 1 .. 32, SplitValIs, Zenon
<1>11. s \in Seq(Bytes) /\ Len(s) = 5
  <2>1. CASE LikeVal(p)
    BY <1>10, <2>1, Zenon DEF BeginsWithVal
  <2>2. CASE ~LikeVal(p)
    <3>1. BeginsWith(s, z, index - first, count)
      BY <1>9, <2>2
    <3> QED
      BY ONLY <3>1 DEF BeginsWith
  <2> QED
    BY <2>1, <2>2
<1>12. PICK behind : behind = Rest(b, op, c)
  OBVIOUS
<1>13. behind \in Seq(Bytes)
  BY <1>1, <1>2, <1>5, <1>12, RestIs
<1>14. PICK e : Spliced(e, c, p, s, behind)
  BY DEF Spliced
<1>15. HasParts(e, c, p, s, behind)
  <2>1. p \in Nat /\ p <= Len(c)
    <3>1. Len(c) \in Nat
      BY <1>5, LenProperties
    <3> QED
      BY <1>1, <1>2, <1>5, <3>1
  <2> QED
    BY ONLY <1>5, <1>11, <1>13, <1>14, <2>1, SplicedIs, Zenon
<1>16. PICK r : r = SetAt(b, op, index, count)
  OBVIOUS
<1>17. r = Updated(e, p)
  <2>1. Spliced(e, c, op.p, s, behind)
    BY <1>2, <1>14
  <2>3. Parts(b, op, index, count, c, s, behind)
    BY <1>4, <1>6, <1>12 DEF Parts
  <2>2. SetAt(b, op, index, count) = Updated(e, op.p)
    BY ONLY <2>1, <2>3, SetAtParts, Zenon
  <2> QED
    BY <1>2, <1>16, <2>2
<1>18. r \in Seq(Bytes) /\ Len(r) >= 1
  <2>1. e \in Seq(Bytes) /\ Len(e) > p /\ p \in Nat
    <3>1. /\ e \in Seq(Bytes) /\ Len(e) = p + 5 + Len(behind) /\ Len(behind) \in Nat
      BY ONLY <1>15 DEF HasParts
    <3>2. p \in Nat
      BY <1>1, <1>2
    <3>3. PICK n, m : n = Len(behind) /\ m = Len(e)
      OBVIOUS
    <3>4. n \in Nat /\ m = p + 5 + n
      BY <3>1, <3>3
    <3>5. m > p
      BY ONLY <3>2, <3>4
    <3> QED
      BY <3>1, <3>2, <3>3, <3>5
  <2>2. PICK t : t = [b |-> e, p |-> p]
    OBVIOUS
  <2>3. t \in [b : Seq(Bytes), p : Nat] /\ t.b = e /\ p \in 0 .. t.p
    BY <2>1, <2>2
  <2>4. PICK y : y = Look(Look(Look(Look(Look(t)))))
    OBVIOUS
  <2>5. Leaves(t, y, p)
    BY <2>3, <2>4, LooksLeave
  <2>6. r = y.b
    BY <1>17, <2>2, <2>4 DEF Updated
  <2>7. r \in Seq(Bytes) /\ Len(r) > p
    BY <2>1, <2>3, <2>5, <2>6 DEF Leaves
  <2>8. Len(r) \in Nat
    BY <2>7, LenProperties
  <2> QED
    BY ONLY <2>1, <2>7, <2>8
<1>19. CASE ~LikeVal(p)
  <2>1. BeginsWith(s, z, index - first, count)
    BY <1>9, <1>19
  <2>2. PICK l : l = index - first
    OBVIOUS
  <2>3. l \in Nat /\ p \in Nat /\ BeginsWith(s, z, l, count)
    <3>1. l \in Nat
      BY ONLY <1>3, <2>2 DEF Covers
    <3> QED
      BY <1>1, <1>2, <2>1, <2>2, <3>1
  <2>4. Written(Updated(e, p), b, p, z, count)
    BY ONLY <1>5, <1>15, <2>3, count \in 1 .. 32, SplitIsWritten
  <2>5. z \in Seq(Bytes) /\ IsRun(z, l)
    BY <2>3 DEF BeginsWith
  <2> QED
    BY <1>2, <1>16, <1>17, <1>18, <2>2, <2>4, <2>5
<1>20. CASE LikeVal(p) /\ index = first
  <2>1. s[1] = Val(count, 1)
    BY <1>10, <1>20, Zenon DEF BeginsWithVal
  <2>4. p \in Nat
    BY <1>1, <1>2
  <2>2. Written(Updated(e, p), b, p, <<>>, count)
    BY ONLY <1>5, <1>15, <2>1, <2>4, count \in 1 .. 32, ValIsWritten
  <2>3. IsRun(<<>>, index - op.first) /\ <<>> \in Seq(Bytes)
    <3>1. index - op.first = 0
      BY <1>1, <1>2, <1>20
    <3> QED
      BY <3>1 DEF IsRun
  <2> QED
    BY <1>2, <1>16, <1>17, <1>18, <2>2, <2>3
<1>21. CASE LikeVal(p) /\ index # first
  <2>1. ~Sure(op, index)
    BY <1>2, <1>21 DEF Sure
  <2> QED
    BY <1>16, <1>18, <2>1
<1> QED
  BY <1>19, <1>20, <1>21

-------------------------------------------------------------------------------
\* The walk along the opcodes.

\* The places of the walk, its start, its end, its step, and the walk.
Ats(b) == [p : 0 .. Len(b) - 1, first : Nat]
Start == [p |-> 0, first |-> 0]
Stops(b, index, at) ==
  index <= at.first + Span(b, at.p) - 1 \/ at.p + OpLen(b, at.p) >= Len(b)
Behind(b, at) == [p |-> at.p + OpLen(b, at.p), first |-> at.first + Span(b, at.p)]
Walks(w, b, index) ==
  w = [at \in Ats(b) |-> IF Stops(b, index, at) THEN at ELSE w[Behind(b, at)]]

\* The opcode behind another begins where that one ends.
LEMMA BehindIs ==
  ASSUME NEW b \in Seq(Bytes), NEW index \in Nat, NEW at \in Ats(b), ~Stops(b, index, at)
  PROVE  /\ Behind(b, at) \in Ats(b) /\ Behind(b, at).p = at.p + OpLen(b, at.p)
         /\ Behind(b, at).p > at.p
         /\ Behind(b, at).first >= at.first /\ Behind(b, at).first <= index
<1>1. PICK n, p, f : n = Len(b) /\ p = at.p /\ f = at.first
  OBVIOUS
<1>2. n \in Nat /\ p \in 0 .. n - 1 /\ f \in Nat
  BY <1>1, LenProperties DEF Ats
<1>3. PICK s, l : s = Span(b, p) /\ l = OpLen(b, p)
  OBVIOUS
<1>4. s \in Nat /\ s >= 1
  <2>1. Span(b, p) \in Spans
    BY <1>1, <1>2, SpanIs
  <2> QED
    BY <1>3, <2>1 DEF Spans
<1>5. l \in {1, 2}
  BY <1>3, OpLenIs
<1>6. ~(index <= f + s - 1) /\ ~(p + l >= n)
  BY <1>1, <1>3 DEF Stops
<1>7. p + l \in 0 .. n - 1 /\ p + l > p /\ f + s \in Nat /\ f + s >= f /\ f + s <= index
  BY ONLY <1>2, <1>4, <1>5, <1>6, index \in Nat
<1>8. Behind(b, at) = [p |-> p + l, first |-> f + s]
  BY <1>1, <1>3 DEF Behind
<1> QED
  BY ONLY <1>1, <1>3, <1>7, <1>8 DEF Ats

\* The walk ends, so OpAt has a value.
LEMMA OpAtIs ==
  ASSUME NEW b \in Seq(Bytes), NEW index \in Nat
  PROVE  \E w : Walks(w, b, index) /\ OpAt(b, index) = w[Start]
<1> DEFINE rank == [at \in Ats(b) |-> Len(b) - at.p]
           go == [at \in Ats(b) |-> ~Stops(b, index, at)]
           next == [at \in Ats(b) |-> Behind(b, at)]
           step == [at \in Ats(b) |-> [x \in Ats(b) |-> x]]
           base == [at \in Ats(b) |-> at]
           v == CHOOSE w : Walks(w, b, index)
<1>1. Len(b) \in Nat
  BY LenProperties
<1>2. \A at \in Ats(b) : at.p \in 0 .. Len(b) - 1
  BY DEF Ats
<1>3. rank \in [Ats(b) -> Nat]
  BY <1>1, <1>2
<1>4. base \in [Ats(b) -> Ats(b)] /\ step \in [Ats(b) -> [Ats(b) -> Ats(b)]]
  OBVIOUS
<1>5. ASSUME NEW at \in Ats(b), go[at] PROVE next[at] \in Ats(b) /\ rank[next[at]] < rank[at]
  <2>1. PICK x : x = Behind(b, at)
    OBVIOUS
  <2>2. x \in Ats(b) /\ x.p > at.p
    BY <1>5, <2>1, BehindIs
  <2>3. next[at] = x
    BY <2>1
  <2>4. rank[x] < rank[at]
    BY <1>1, <1>2, <2>2
  <2> QED
    <3> HIDE DEF rank, next
    <3> QED
      BY <2>2, <2>3, <2>4
<1>6. Solvable(Ats(b), Ats(b), go, next, step, base)
  <2> HIDE DEF rank, go, next, step, base
  <2> QED
    BY <1>3, <1>4, <1>5, RecursionExists
<1>7. PICK w \in [Ats(b) -> Ats(b)] :
        \A at \in Ats(b) : w[at] = IF go[at] THEN step[at][w[next[at]]] ELSE base[at]
  BY <1>6 DEF Solvable
<1>8. \A at \in Ats(b) : w[at] = IF Stops(b, index, at) THEN at ELSE w[Behind(b, at)]
  <2>1. ASSUME NEW at \in Ats(b), Stops(b, index, at) PROVE w[at] = at
    <3>1. ~go[at] /\ base[at] = at
      BY <2>1
    <3> HIDE DEF go, base, step, next
    <3> QED
      BY <1>7, <3>1
  <2>2. ASSUME NEW at \in Ats(b), ~Stops(b, index, at) PROVE w[at] = w[Behind(b, at)]
    <3>1. go[at] /\ next[at] = Behind(b, at) /\ Behind(b, at) \in Ats(b)
      BY <2>2, BehindIs
    <3>2. w[Behind(b, at)] \in Ats(b)
      BY <3>1
    <3>3. step[at][w[Behind(b, at)]] = w[Behind(b, at)]
      BY <3>2
    <3> HIDE DEF go, base, step, next
    <3> QED
      BY <1>7, <3>1, <3>3
  <2> QED
    BY <2>1, <2>2
<1>9. Walks(w, b, index)
  <2> HIDE DEF rank, go, next, step, base
  <2> QED
    BY <1>8 DEF Walks
<1>10. Walks(v, b, index)
  BY <1>9
<1>11. OpAt(b, index) = v[Start]
  BY DEF OpAt, Walks, Ats, Stops, Behind, Start
<1> QED
  <2> HIDE DEF v
  <2> QED
    BY <1>10, <1>11

\* Where the walk ends.
LEMMA WalkSteps ==
  ASSUME NEW w, NEW b, NEW index, Walks(w, b, index), NEW at \in Ats(b)
  PROVE  /\ Stops(b, index, at) => w[at] = at
         /\ ~Stops(b, index, at) => w[at] = w[Behind(b, at)]
<1>1. w[at] = IF Stops(b, index, at) THEN at ELSE w[Behind(b, at)]
  BY DEF Walks
<1> QED
  BY <1>1

\* The bytes of r before p are those of b, and there are more.
Agree(b, r, p) == Len(r) > p /\ \A i \in 1 .. p : r[i] = b[i]

\* An opcode that ends there is the same in both.
LEMMA SameOpcode ==
  ASSUME NEW b \in Seq(Bytes), NEW r \in Seq(Bytes), NEW p \in Nat, NEW n \in Nat,
         p + OpLen(b, p) <= n, n < Len(b), Agree(b, r, n)
  PROVE  Span(r, p) = Span(b, p) /\ OpLen(r, p) = OpLen(b, p)
<1>1. PICK k, m, l : k = Len(b) /\ m = Len(r) /\ l = OpLen(b, p)
  OBVIOUS
<1>2. k \in Nat /\ m \in Nat /\ n < k /\ n < m /\ p + l <= n
  BY <1>1, LenProperties DEF Agree
<1>3. l \in {1, 2}
  BY <1>1, OpLenIs
<1>4. p + 1 \in 1 .. n
  BY <1>2, <1>3
<1>5. r[p + 1] = b[p + 1]
  BY <1>4 DEF Agree
<1>6. OpLen(r, p) = OpLen(b, p)
  BY <1>5 DEF OpLen, IsXzero
<1>7. IsXzero(b, p) => r[p + 2] = b[p + 2] /\ ~Outside(b, p) /\ ~Outside(r, p)
  <2> SUFFICES ASSUME IsXzero(b, p) PROVE r[p + 2] = b[p + 2] /\ ~Outside(b, p) /\ ~Outside(r, p)
    OBVIOUS
  <2>1. l = 2
    BY <1>1, OpLenIs
  <2>2. p + 2 \in 1 .. n /\ ~(p + 2 > k) /\ ~(p + 2 > m)
    BY <1>2, <2>1
  <2> QED
    BY <1>1, <2>2 DEF Agree, Outside
<1>8. IsXzero(b, p) <=> IsXzero(r, p)
  BY <1>5 DEF IsXzero
<1>9. IsZero(b, p) <=> IsZero(r, p)
  BY <1>5 DEF IsZero
<1>10. ValLen(r, p) = ValLen(b, p)
  BY <1>5 DEF ValLen
<1>11. Span(r, p) = Span(b, p)
  BY <1>5, <1>7, <1>8, <1>9, <1>10, Zenon DEF Span
<1> QED
  BY <1>6, <1>11

\* The walk goes to the right, and not beyond index.
Right(at, op, index) ==
  op.p >= at.p /\ op.first >= at.first /\ (at.first <= index => op.first <= index)

\* A walk ends at or behind its place and not behind the index.
LEMMA WalkGoesRight ==
  ASSUME NEW b \in Seq(Bytes), NEW index \in Nat, NEW w, Walks(w, b, index)
  PROVE  \A at \in Ats(b) : w[at] \in Ats(b) /\ Stops(b, index, w[at]) /\ Right(at, w[at], index)
<1> DEFINE rank == [at \in Ats(b) |-> Len(b) - at.p]
           Good == {at \in Ats(b) : w[at] \in Ats(b) /\ Stops(b, index, w[at]) /\ Right(at, w[at], index)}
<1>1. Len(b) \in Nat
  BY LenProperties
<1>2. \A at \in Ats(b) : at.p \in 0 .. Len(b) - 1 /\ at.p \in Nat /\ at.first \in Nat
  BY <1>1 DEF Ats
<1>3. rank \in [Ats(b) -> Nat]
  BY <1>1, <1>2
<1>4. ASSUME NEW at \in Ats(b), \A q \in Ats(b) : rank[q] < rank[at] => q \in Good
      PROVE  at \in Good
  <2>1. CASE Stops(b, index, at)
    <3>1. w[at] = at
      BY <2>1, WalkSteps
    <3>2. Right(at, at, index)
      BY <1>2 DEF Right
    <3> QED
      BY <2>1, <3>1, <3>2
  <2>2. CASE ~Stops(b, index, at)
    <3>1. PICK q : q = Behind(b, at)
      OBVIOUS
    <3>2. q \in Ats(b) /\ q.p > at.p /\ q.first >= at.first /\ q.first <= index
      BY <2>2, <3>1, BehindIs
    <3>3. w[at] = w[q]
      BY <2>2, <3>1, WalkSteps
    <3>4. rank[q] < rank[at]
      BY <1>1, <1>2, <3>2
    <3>5. w[q] \in Ats(b) /\ Stops(b, index, w[q]) /\ Right(q, w[q], index)
      BY <1>4, <3>2, <3>4
    <3>6. Right(at, w[q], index)
      BY <1>2, <3>2, <3>5 DEF Right
    <3> QED
      BY <3>3, <3>5, <3>6
  <2> QED
    BY <2>1, <2>2
<1>5. Ats(b) \subseteq Good
  <2> HIDE DEF Good, rank
  <2> QED
    BY <1>3, <1>4, RankInduction
<1> QED
  BY <1>5

\* A walk along bytes that agree up to its end comes by there too.
LEMMA WalkFollows ==
  ASSUME NEW b \in Seq(Bytes), NEW r \in Seq(Bytes), NEW index \in Nat,
         NEW w, Walks(w, b, index), NEW v, Walks(v, r, index)
  PROVE  \A at \in Ats(b) : Agree(b, r, w[at].p) => w[at] \in Ats(r) /\ v[at] = v[w[at]]
<1> DEFINE rank == [at \in Ats(b) |-> Len(b) - at.p]
           Follows(at) == Agree(b, r, w[at].p) => w[at] \in Ats(r) /\ v[at] = v[w[at]]
           Good == {at \in Ats(b) : Follows(at)}
<1>1. Len(b) \in Nat /\ Len(r) \in Nat
  BY LenProperties
<1>2. \A at \in Ats(b) : at.p \in 0 .. Len(b) - 1 /\ at.p \in Nat /\ at.first \in Nat
  BY <1>1 DEF Ats
<1>3. rank \in [Ats(b) -> Nat]
  BY <1>1, <1>2
<1>a. \A at \in Ats(b) : at.p < Len(r) => at \in Ats(r)
  BY <1>1 DEF Ats
<1>4. ASSUME NEW at \in Ats(b), \A q \in Ats(b) : rank[q] < rank[at] => q \in Good
      PROVE  Follows(at)
  <2> SUFFICES ASSUME Agree(b, r, w[at].p) PROVE w[at] \in Ats(r) /\ v[at] = v[w[at]]
    OBVIOUS
  <2>1. PICK op : op = w[at]
    OBVIOUS
  <2>2. op \in Ats(b) /\ Right(at, op, index)
    BY <2>1, WalkGoesRight
  <2>3. Agree(b, r, op.p)
    BY <2>1
  <2>4. op \in Ats(r)
    BY <1>a, <2>2, <2>3 DEF Agree
  <2>5. CASE Stops(b, index, at)
    <3>1. op = at
      BY <2>1, <2>5, WalkSteps
    <3> QED
      BY <2>1, <2>4, <3>1
  <2>6. CASE ~Stops(b, index, at)
    <3>1. PICK q : q = Behind(b, at)
      OBVIOUS
    <3>2. q \in Ats(b) /\ q.p > at.p /\ q.p = at.p + OpLen(b, at.p)
      BY <2>6, <3>1, BehindIs
    <3>3. w[at] = w[q]
      BY <2>6, <3>1, WalkSteps
    <3>4. rank[q] < rank[at]
      BY <1>1, <1>2, <3>2
    <3>5. q \in Good
      BY <1>4, <3>2, <3>4
    <3>6. v[q] = v[op]
      BY <2>1, <2>3, <3>3, <3>5
    <3>7. Right(q, op, index)
      BY <2>1, <3>2, <3>3, WalkGoesRight
    <3>8. at.p + OpLen(b, at.p) <= op.p
      BY <3>2, <3>7 DEF Right
    <3>9. op.p \in Nat /\ at.p \in Nat /\ op.p < Len(b)
      BY <1>1, <1>2, <2>2
    <3>10. Span(r, at.p) = Span(b, at.p) /\ OpLen(r, at.p) = OpLen(b, at.p)
      BY <2>3, <3>8, <3>9, SameOpcode
    <3>11. Behind(r, at) = q
      BY <3>1, <3>10 DEF Behind
    <3>12. at.p + OpLen(b, at.p) < Len(r)
      BY <1>1, <1>2, <2>2, <2>3, <3>2, <3>8 DEF Agree
    <3>13. ~Stops(r, index, at)
      <4>1. ~(index <= at.first + Span(b, at.p) - 1)
        BY <2>6 DEF Stops
      <4>2. ~(at.p + OpLen(b, at.p) >= Len(r))
        BY <1>1, <1>2, <3>2, <3>12
      <4> QED
        BY <3>10, <4>1, <4>2 DEF Stops
    <3>14. at \in Ats(r)
      <4>1. at.p < Len(r)
        BY <1>1, <1>2, <3>2, <3>12
      <4> QED
        BY <1>a, <4>1
    <3>15. v[at] = v[q]
      BY <3>11, <3>13, <3>14, WalkSteps
    <3> QED
      BY <2>1, <2>4, <3>6, <3>15
  <2> QED
    BY <2>5, <2>6
<1>b. \A at \in Ats(b) : (\A q \in Ats(b) : rank[q] < rank[at] => q \in Good) => at \in Good
  <2> SUFFICES ASSUME NEW at \in Ats(b), \A q \in Ats(b) : rank[q] < rank[at] => q \in Good
               PROVE  at \in Good
    OBVIOUS
  <2>1. Follows(at)
    BY <1>4
  <2> QED
    BY <2>1
<1>5. Ats(b) \subseteq Good
  <2>1. PICK P, S, k : P = Ats(b) /\ S = Good /\ k = rank
    OBVIOUS
  <2> HIDE DEF Good, rank, Follows
  <2>2. k \in [P -> Nat] /\ \A p \in P : (\A q \in P : k[q] < k[p] => q \in S) => p \in S
    BY ONLY <1>3, <1>b, <2>1
  <2>3. P \subseteq S
    BY ONLY <2>2, RankInduction
  <2> QED
    BY ONLY <2>1, <2>3
<1> QED
  BY <1>5

\* A walk along bytes is at their start first.
LEMMA StartIs ==
  ASSUME NEW b \in Seq(Bytes), Len(b) >= 1
  PROVE  Start \in Ats(b)
<1>1. Len(b) \in Nat
  BY LenProperties
<1> QED
  BY <1>1 DEF Ats, Start

\* The opcode found covers index or is the last one, and begins at or before it.
LEMMA OpAtFinds ==
  ASSUME NEW b \in Seq(Bytes), Len(b) >= 1, NEW index \in Nat
  PROVE  OpAt(b, index) \in Ats(b) /\ OpAt(b, index).first <= index
<1>1. PICK w : Walks(w, b, index) /\ OpAt(b, index) = w[Start]
  BY OpAtIs
<1>2. Start \in Ats(b)
  BY StartIs
<1>3. w[Start] \in Ats(b) /\ Right(Start, w[Start], index)
  BY <1>1, <1>2, WalkGoesRight
<1> QED
  BY <1>1, <1>3 DEF Right, Start

\* op is the opcode found for the index, and l the registers in it before that.
Found(op, b, index, l) == op = OpAt(b, index) /\ index = op.first + l

\* What the sparse form reads at index is the count.
Reads(r, index, count) ==
  IsVal(r, OpAt(r, index).p) /\ ValValue(r, OpAt(r, index).p) = count

\* Where z, a run of l zeros, and the count were written at the opcode found, the
\* walk comes by there and ends at the count.
LEMMA WalkReads ==
  ASSUME NEW b \in Seq(Bytes), Len(b) >= 1, NEW index \in Nat, NEW count \in 1 .. 32,
         NEW z \in Seq(Bytes), NEW l \in Nat, NEW op, Found(op, b, index, l), IsRun(z, l), NEW r \in Seq(Bytes), Written(r, b, op.p, z, count)
  PROVE  Reads(r, index, count)
<1>0. /\ Len(r) >= op.p + Len(z) + 1
      /\ \A i \in 1 .. op.p : r[i] = b[i]
      /\ \A i \in 1 .. Len(z) : r[op.p + i] = z[i]
      /\ Says(r, op.p + Len(z), count)
  BY DEF Written
<1>f. op = OpAt(b, index) /\ index = op.first + l
  BY DEF Found
<1>1. PICK w : Walks(w, b, index) /\ OpAt(b, index) = w[Start]
  BY OpAtIs
<1>2. PICK v : Walks(v, r, index) /\ OpAt(r, index) = v[Start]
  BY OpAtIs
<1>3. Start \in Ats(b) /\ op \in Ats(b)
  BY <1>f, StartIs, OpAtFinds
<1>4. PICK p, f, j, m : p = op.p /\ f = op.first /\ j = Len(z) /\ m = Len(r)
  OBVIOUS
<1>5. p \in Nat /\ f \in Nat /\ m \in Nat
  <2>1. Len(b) \in Nat /\ Len(r) \in Nat
    BY LenProperties
  <2>2. op.p \in 0 .. Len(b) - 1 /\ op.first \in Nat
    BY <1>3 DEF Ats
  <2> QED
    BY ONLY <1>4, <2>1, <2>2
<1>6. j \in {0, 1, 2} /\ (l = 0 <=> j = 0)
  BY <1>4, RunBytes
<1>7. m >= p + j + 1 /\ index = f + l
  BY <1>0, <1>4, <1>f
<1>8. Agree(b, r, w[Start].p)
  <2>1. m > p
    BY ONLY <1>5, <1>6, <1>7
  <2> QED
    BY <1>0, <1>1, <1>4, <1>f, <2>1 DEF Agree
<1>9. op \in Ats(r) /\ v[Start] = v[op]
  BY <1>1, <1>2, <1>3, <1>8, <1>f, WalkFollows
<1>10. PICK at : at = [p |-> p + j, first |-> index]
  OBVIOUS
<1>11. at \in Ats(r)
  <2>1. p + j \in 0 .. m - 1
    BY ONLY <1>5, <1>6, <1>7
  <2> QED
    BY <1>4, <1>10, <2>1 DEF Ats
<1>12. IsVal(r, p + j) /\ ValValue(r, p + j) = count
  BY <1>0, <1>4 DEF Says
<1>13. Stops(r, index, at)
  <2>1. p + j \in 0 .. Len(r) - 1
    BY ONLY <1>4, <1>5, <1>6, <1>7
  <2>2. Span(r, p + j) \in Spans
    BY <2>1, SpanIs
  <2>3. PICK n : n = Span(r, p + j)
    OBVIOUS
  <2>4. n \in Nat /\ n >= 1
    BY <2>2, <2>3 DEF Spans
  <2>5. index <= index + n - 1
    BY ONLY <2>4, index \in Nat
  <2> QED
    BY <1>10, <2>3, <2>5 DEF Stops
<1>14. v[at] = at
  BY <1>2, <1>11, <1>13, WalkSteps
<1>15. v[op] = v[at]
  <2>1. CASE l = 0
    <3>1. j = 0 /\ index = f
      BY ONLY <1>5, <1>6, <1>7, <2>1
    <3>2. op = [p |-> p, first |-> f]
      BY <1>3, <1>4 DEF Ats
    <3>3. p + j = p
      BY <1>5, <3>1
    <3> QED
      BY <1>10, <3>1, <3>2, <3>3
  <2>2. CASE l # 0
    <3>1. l >= 1 /\ j >= 1
      BY <1>6, <2>2
    <3>2. Span(r, p) = l /\ OpLen(r, p) = j
      <4>1. p + j <= m /\ \A i \in 1 .. j : r[p + i] = z[i]
        BY ONLY <1>0, <1>4, <1>5, <1>6, <1>7
      <4>2. p + Len(z) <= m /\ m = Len(r) /\ \A i \in 1 .. Len(z) : r[p + i] = z[i]
        BY <1>4, <4>1
      <4>3. Span(r, p) = l /\ OpLen(r, p) = Len(z)
        BY ONLY <4>2, <3>1, <1>5, z \in Seq(Bytes), l \in Nat, IsRun(z, l), RunAt
      <4> QED
        BY <1>4, <4>3
    <3>3. ~Stops(r, index, op)
      <4>1. ~(index <= f + l - 1) /\ ~(p + j >= m)
        BY ONLY <1>5, <1>6, <1>7, <3>1
      <4> QED
        BY <1>4, <3>2, <4>1 DEF Stops
    <3>4. Behind(r, op) = at
      BY <1>4, <1>7, <1>10, <3>2 DEF Behind
    <3> QED
      BY <1>2, <1>9, <3>3, <3>4, WalkSteps
  <2> QED
    BY <2>1, <2>2
<1>16. OpAt(r, index) = at
  BY <1>2, <1>9, <1>14, <1>15
<1>17. at.p = p + j
  BY <1>10
<1> QED
  BY ONLY <1>12, <1>16, <1>17 DEF Reads

\* What is set in the sparse form is read there, where the run in front is sure.
LEMMA SparseSetIsRead ==
  ASSUME NEW b \in Seq(Bytes), Len(b) >= 1, NEW index \in Nat,
         NEW count \in 1 .. 32, NEW op, op = OpAt(b, index),
         index <= op.first + Span(b, op.p) - 1, NEW r, r = SetAt(b, op, index, count)
  PROVE  r \in Seq(Bytes) /\ Len(r) >= 1 /\ (Sure(op, index) => Reads(r, index, count))
<1>1. op \in [p : 0 .. Len(b) - 1, first : Nat] /\ op.first <= index
  BY OpAtFinds DEF Ats
<1>2. op.p \in 0 .. Len(b) - 1 /\ op.p \in Nat /\ op.first \in Nat
  BY <1>1
<1>3. PICK l : l = index - op.first
  OBVIOUS
<1>4. l \in Nat /\ index = op.first + l
  BY <1>1, <1>2, <1>3
<1>5. /\ r \in Seq(Bytes) /\ Len(r) >= 1
      /\ Sure(op, index) => \E z \in Seq(Bytes) : IsRun(z, l) /\ Written(r, b, op.p, z, count)
  BY <1>1, <1>3, SetAtIs
<1>6. ASSUME Sure(op, index) PROVE Reads(r, index, count)
  <2>1. PICK z \in Seq(Bytes) : IsRun(z, l) /\ Written(r, b, op.p, z, count)
    BY <1>5, <1>6
  <2>2. b \in Seq(Bytes) /\ Len(b) >= 1
    OBVIOUS
  <2>3. Found(op, b, index, l)
    BY <1>4 DEF Found
  <2> QED
    BY ONLY <1>4, <1>5, <2>1, <2>2, <2>3, index \in Nat, count \in 1 .. 32, WalkReads, Zenon
<1> QED
  BY <1>5, <1>6

-------------------------------------------------------------------------------
\* Bytes as bits.

\* Bits, a byte made of them, and the bit of a power of two.
Bit == {0, 1}
Weigh(b0, b1, b2, b3, b4, b5, b6, b7) ==
  b0 + 2 * b1 + 4 * b2 + 8 * b3 + 16 * b4 + 32 * b5 + 64 * b6 + 128 * b7
BitAt(x, power) == (x \div power) % 2

\* Halving a number.
LEMMA HalfIs ==
  ASSUME NEW x \in Nat
  PROVE  x \div 2 \in Nat /\ x % 2 \in Bit /\ x = (x % 2) + 2 * (x \div 2)
  BY DEF Bit

\* Dividing twice is dividing once.
LEMMA Quotients ==
  ASSUME NEW x \in Nat
  PROVE  /\ (x \div 2) \div 2 = x \div 4 /\ (x \div 4) \div 2 = x \div 8
         /\ (x \div 8) \div 2 = x \div 16 /\ (x \div 16) \div 2 = x \div 32
         /\ (x \div 32) \div 2 = x \div 64 /\ (x \div 64) \div 2 = x \div 128
<1>1. (x \div 2) \div 2 = x \div 4
  OBVIOUS
<1>2. (x \div 4) \div 2 = x \div 8
  OBVIOUS
<1>3. (x \div 8) \div 2 = x \div 16
  OBVIOUS
<1>4. (x \div 16) \div 2 = x \div 32
  OBVIOUS
<1>5. (x \div 32) \div 2 = x \div 64
  OBVIOUS
<1>6. (x \div 64) \div 2 = x \div 128
  OBVIOUS
<1> QED
  BY <1>1, <1>2, <1>3, <1>4, <1>5, <1>6

\* A byte is made of its bits.
LEMMA BitsOf ==
  ASSUME NEW x \in Bytes
  PROVE  /\ x = Weigh(BitAt(x, 1), BitAt(x, 2), BitAt(x, 4), BitAt(x, 8),
                      BitAt(x, 16), BitAt(x, 32), BitAt(x, 64), BitAt(x, 128))
         /\ BitAt(x, 1) \in Bit /\ BitAt(x, 2) \in Bit /\ BitAt(x, 4) \in Bit
         /\ BitAt(x, 8) \in Bit /\ BitAt(x, 16) \in Bit /\ BitAt(x, 32) \in Bit
         /\ BitAt(x, 64) \in Bit /\ BitAt(x, 128) \in Bit
<1>1. x \in Nat /\ x < 256
  BY BytesAre
<1>2. PICK y1, y2, y3, y4, y5, y6, y7 :
        /\ y1 = x \div 2 /\ y2 = x \div 4 /\ y3 = x \div 8 /\ y4 = x \div 16
        /\ y5 = x \div 32 /\ y6 = x \div 64 /\ y7 = x \div 128
  OBVIOUS
<1>3. /\ y2 = y1 \div 2 /\ y3 = y2 \div 2 /\ y4 = y3 \div 2 /\ y5 = y4 \div 2
      /\ y6 = y5 \div 2 /\ y7 = y6 \div 2
  BY <1>1, <1>2, Quotients
<1>4. y1 \in Nat /\ y1 < 128 /\ x % 2 \in Bit /\ x = (x % 2) + 2 * y1
  <2>1. y1 \in Nat /\ x % 2 \in Bit /\ x = (x % 2) + 2 * y1
    BY <1>1, <1>2, HalfIs
  <2>2. PICK r : r = x % 2
    OBVIOUS
  <2>3. r \in Nat /\ x = r + 2 * y1 /\ x \in Nat /\ x < 256
    BY <1>1, <1>2, <2>1, <2>2 DEF Bit
  <2>4. y1 < 128
    BY ONLY <2>1, <2>3
  <2> QED
    BY <2>1, <2>4
<1>5. y2 \in Nat /\ y2 < 64 /\ y1 % 2 \in Bit /\ y1 = (y1 % 2) + 2 * y2
  <2>1. y2 \in Nat /\ y1 % 2 \in Bit /\ y1 = (y1 % 2) + 2 * y2
    BY <1>3, <1>4, HalfIs
  <2>2. PICK r : r = y1 % 2
    OBVIOUS
  <2>3. r \in Nat /\ y1 = r + 2 * y2 /\ y1 \in Nat /\ y1 < 128
    BY ONLY <1>4, <2>1, <2>2 DEF Bit
  <2>4. y2 < 64
    BY ONLY <2>1, <2>3
  <2> QED
    BY <2>1, <2>4
<1>6. y3 \in Nat /\ y3 < 32 /\ y2 % 2 \in Bit /\ y2 = (y2 % 2) + 2 * y3
  <2>1. y3 \in Nat /\ y2 % 2 \in Bit /\ y2 = (y2 % 2) + 2 * y3
    BY <1>3, <1>5, HalfIs
  <2>2. PICK r : r = y2 % 2
    OBVIOUS
  <2>3. r \in Nat /\ y2 = r + 2 * y3 /\ y2 \in Nat /\ y2 < 64
    BY ONLY <1>5, <2>1, <2>2 DEF Bit
  <2>4. y3 < 32
    BY ONLY <2>1, <2>3
  <2> QED
    BY <2>1, <2>4
<1>7. y4 \in Nat /\ y4 < 16 /\ y3 % 2 \in Bit /\ y3 = (y3 % 2) + 2 * y4
  <2>1. y4 \in Nat /\ y3 % 2 \in Bit /\ y3 = (y3 % 2) + 2 * y4
    BY <1>3, <1>6, HalfIs
  <2>2. PICK r : r = y3 % 2
    OBVIOUS
  <2>3. r \in Nat /\ y3 = r + 2 * y4 /\ y3 \in Nat /\ y3 < 32
    BY ONLY <1>6, <2>1, <2>2 DEF Bit
  <2>4. y4 < 16
    BY ONLY <2>1, <2>3
  <2> QED
    BY <2>1, <2>4
<1>8. y5 \in Nat /\ y5 < 8 /\ y4 % 2 \in Bit /\ y4 = (y4 % 2) + 2 * y5
  <2>1. y5 \in Nat /\ y4 % 2 \in Bit /\ y4 = (y4 % 2) + 2 * y5
    BY <1>3, <1>7, HalfIs
  <2>2. PICK r : r = y4 % 2
    OBVIOUS
  <2>3. r \in Nat /\ y4 = r + 2 * y5 /\ y4 \in Nat /\ y4 < 16
    BY ONLY <1>7, <2>1, <2>2 DEF Bit
  <2>4. y5 < 8
    BY ONLY <2>1, <2>3
  <2> QED
    BY <2>1, <2>4
<1>9. y6 \in Nat /\ y6 < 4 /\ y5 % 2 \in Bit /\ y5 = (y5 % 2) + 2 * y6
  <2>1. y6 \in Nat /\ y5 % 2 \in Bit /\ y5 = (y5 % 2) + 2 * y6
    BY <1>3, <1>8, HalfIs
  <2>2. PICK r : r = y5 % 2
    OBVIOUS
  <2>3. r \in Nat /\ y5 = r + 2 * y6 /\ y5 \in Nat /\ y5 < 8
    BY ONLY <1>8, <2>1, <2>2 DEF Bit
  <2>4. y6 < 4
    BY ONLY <2>1, <2>3
  <2> QED
    BY <2>1, <2>4
<1>10. y7 \in Nat /\ y7 < 2 /\ y6 % 2 \in Bit /\ y6 = (y6 % 2) + 2 * y7
  <2>1. y7 \in Nat /\ y6 % 2 \in Bit /\ y6 = (y6 % 2) + 2 * y7
    BY <1>3, <1>9, HalfIs
  <2>2. PICK r : r = y6 % 2
    OBVIOUS
  <2>3. r \in Nat /\ y6 = r + 2 * y7 /\ y6 \in Nat /\ y6 < 4
    BY ONLY <1>9, <2>1, <2>2 DEF Bit
  <2>4. y7 < 2
    BY ONLY <2>1, <2>3
  <2> QED
    BY <2>1, <2>4
<1>11. y7 \in Bit /\ y7 % 2 = y7
  BY <1>10 DEF Bit
<1>12. x \div 1 = x
  BY <1>1
<1>13. /\ BitAt(x, 1) = x % 2 /\ BitAt(x, 2) = y1 % 2 /\ BitAt(x, 4) = y2 % 2
       /\ BitAt(x, 8) = y3 % 2 /\ BitAt(x, 16) = y4 % 2 /\ BitAt(x, 32) = y5 % 2
       /\ BitAt(x, 64) = y6 % 2 /\ BitAt(x, 128) = y7
  BY <1>2, <1>11, <1>12 DEF BitAt
<1>14. PICK r0, r1, r2, r3, r4, r5, r6 :
         /\ r0 = x % 2 /\ r1 = y1 % 2 /\ r2 = y2 % 2 /\ r3 = y3 % 2 /\ r4 = y4 % 2
         /\ r5 = y5 % 2 /\ r6 = y6 % 2
  OBVIOUS
<1>15. x = Weigh(r0, r1, r2, r3, r4, r5, r6, y7)
  <2>1. /\ r0 \in Nat /\ r1 \in Nat /\ r2 \in Nat /\ r3 \in Nat /\ r4 \in Nat /\ r5 \in Nat /\ r6 \in Nat
    BY <1>4, <1>5, <1>6, <1>7, <1>8, <1>9, <1>10, <1>14 DEF Bit
  <2>2. /\ x = r0 + 2 * y1 /\ y1 = r1 + 2 * y2 /\ y2 = r2 + 2 * y3 /\ y3 = r3 + 2 * y4
        /\ y4 = r4 + 2 * y5 /\ y5 = r5 + 2 * y6 /\ y6 = r6 + 2 * y7
    BY <1>4, <1>5, <1>6, <1>7, <1>8, <1>9, <1>10, <1>14
  <2>3. /\ x \in Nat /\ y1 \in Nat /\ y2 \in Nat /\ y3 \in Nat /\ y4 \in Nat /\ y5 \in Nat
        /\ y6 \in Nat /\ y7 \in Nat
    BY <1>1, <1>4, <1>5, <1>6, <1>7, <1>8, <1>9, <1>10
  <2> QED
    BY ONLY <2>1, <2>2, <2>3 DEF Weigh
<1> QED
  BY <1>4, <1>5, <1>6, <1>7, <1>8, <1>9, <1>10, <1>11, <1>13, <1>14, <1>15

\* Eight bits make a byte, and are its bits.
LEMMA WeighIsByte ==
  ASSUME NEW d0 \in Bit, NEW d1 \in Bit, NEW d2 \in Bit, NEW d3 \in Bit,
         NEW d4 \in Bit, NEW d5 \in Bit, NEW d6 \in Bit, NEW d7 \in Bit
  PROVE  Weigh(d0, d1, d2, d3, d4, d5, d6, d7) \in Bytes
<1>1. PICK x : x = Weigh(d0, d1, d2, d3, d4, d5, d6, d7)
  OBVIOUS
<1>2. x \in Nat /\ x < 256
  BY <1>1 DEF Weigh, Bit
<1> QED
  BY <1>1, <1>2, BytesAre

Bits(x, d0, d1, d2, d3, d4, d5, d6, d7) ==
  /\ BitAt(x, 1) = d0 /\ BitAt(x, 2) = d1 /\ BitAt(x, 4) = d2 /\ BitAt(x, 8) = d3
  /\ BitAt(x, 16) = d4 /\ BitAt(x, 32) = d5 /\ BitAt(x, 64) = d6 /\ BitAt(x, 128) = d7

\* The bits of a byte made of bits.
LEMMA BitsOfWeigh ==
  ASSUME NEW d0 \in Bit, NEW d1 \in Bit, NEW d2 \in Bit, NEW d3 \in Bit,
         NEW d4 \in Bit, NEW d5 \in Bit, NEW d6 \in Bit, NEW d7 \in Bit
  PROVE  Bits(Weigh(d0, d1, d2, d3, d4, d5, d6, d7), d0, d1, d2, d3, d4, d5, d6, d7)
<1>0. PICK x : x = Weigh(d0, d1, d2, d3, d4, d5, d6, d7)
  OBVIOUS
<1>1. BitAt(x, 1) = d0
  <2>1. PICK low, high : low = 0 /\ high = d1 + 2 * d2 + 4 * d3 + 8 * d4 + 16 * d5 + 32 * d6 + 64 * d7
    OBVIOUS
  <2>2. low \in Nat /\ low < 1 /\ high \in Nat /\ d0 \in Bit
    BY <2>1 DEF Bit
  <2>3. x = low + 1 * (d0 + 2 * high)
    BY <1>0, <2>1 DEF Weigh, Bit
  <2>4. x \div 1 = d0 + 2 * high
    BY ONLY <2>2, <2>3 DEF Bit
  <2>5. (d0 + 2 * high) % 2 = d0
    BY ONLY <2>2 DEF Bit
  <2> QED
    BY ONLY <2>4, <2>5 DEF BitAt
<1>2. BitAt(x, 2) = d1
  <2>1. PICK low, high : low = d0 /\ high = d2 + 2 * d3 + 4 * d4 + 8 * d5 + 16 * d6 + 32 * d7
    OBVIOUS
  <2>2. low \in Nat /\ low < 2 /\ high \in Nat /\ d1 \in Bit
    BY <2>1 DEF Bit
  <2>3. x = low + 2 * (d1 + 2 * high)
    BY <1>0, <2>1 DEF Weigh, Bit
  <2>4. x \div 2 = d1 + 2 * high
    BY ONLY <2>2, <2>3 DEF Bit
  <2>5. (d1 + 2 * high) % 2 = d1
    BY ONLY <2>2 DEF Bit
  <2> QED
    BY ONLY <2>4, <2>5 DEF BitAt
<1>3. BitAt(x, 4) = d2
  <2>1. PICK low, high : low = d0 + 2 * d1 /\ high = d3 + 2 * d4 + 4 * d5 + 8 * d6 + 16 * d7
    OBVIOUS
  <2>2. low \in Nat /\ low < 4 /\ high \in Nat /\ d2 \in Bit
    BY <2>1 DEF Bit
  <2>3. x = low + 4 * (d2 + 2 * high)
    BY <1>0, <2>1 DEF Weigh, Bit
  <2>4. x \div 4 = d2 + 2 * high
    BY ONLY <2>2, <2>3 DEF Bit
  <2>5. (d2 + 2 * high) % 2 = d2
    BY ONLY <2>2 DEF Bit
  <2> QED
    BY ONLY <2>4, <2>5 DEF BitAt
<1>4. BitAt(x, 8) = d3
  <2>1. PICK low, high : low = d0 + 2 * d1 + 4 * d2 /\ high = d4 + 2 * d5 + 4 * d6 + 8 * d7
    OBVIOUS
  <2>2. low \in Nat /\ low < 8 /\ high \in Nat /\ d3 \in Bit
    BY <2>1 DEF Bit
  <2>3. x = low + 8 * (d3 + 2 * high)
    BY <1>0, <2>1 DEF Weigh, Bit
  <2>4. x \div 8 = d3 + 2 * high
    BY ONLY <2>2, <2>3 DEF Bit
  <2>5. (d3 + 2 * high) % 2 = d3
    BY ONLY <2>2 DEF Bit
  <2> QED
    BY ONLY <2>4, <2>5 DEF BitAt
<1>5. BitAt(x, 16) = d4
  <2>1. PICK low, high : low = d0 + 2 * d1 + 4 * d2 + 8 * d3 /\ high = d5 + 2 * d6 + 4 * d7
    OBVIOUS
  <2>2. low \in Nat /\ low < 16 /\ high \in Nat /\ d4 \in Bit
    BY <2>1 DEF Bit
  <2>3. x = low + 16 * (d4 + 2 * high)
    BY <1>0, <2>1 DEF Weigh, Bit
  <2>4. x \div 16 = d4 + 2 * high
    BY ONLY <2>2, <2>3 DEF Bit
  <2>5. (d4 + 2 * high) % 2 = d4
    BY ONLY <2>2 DEF Bit
  <2> QED
    BY ONLY <2>4, <2>5 DEF BitAt
<1>6. BitAt(x, 32) = d5
  <2>1. PICK low, high : low = d0 + 2 * d1 + 4 * d2 + 8 * d3 + 16 * d4 /\ high = d6 + 2 * d7
    OBVIOUS
  <2>2. low \in Nat /\ low < 32 /\ high \in Nat /\ d5 \in Bit
    BY <2>1 DEF Bit
  <2>3. x = low + 32 * (d5 + 2 * high)
    BY <1>0, <2>1 DEF Weigh, Bit
  <2>4. x \div 32 = d5 + 2 * high
    BY ONLY <2>2, <2>3 DEF Bit
  <2>5. (d5 + 2 * high) % 2 = d5
    BY ONLY <2>2 DEF Bit
  <2> QED
    BY ONLY <2>4, <2>5 DEF BitAt
<1>7. BitAt(x, 64) = d6
  <2>1. PICK low, high : low = d0 + 2 * d1 + 4 * d2 + 8 * d3 + 16 * d4 + 32 * d5 /\ high = d7
    OBVIOUS
  <2>2. low \in Nat /\ low < 64 /\ high \in Nat /\ d6 \in Bit
    BY <2>1 DEF Bit
  <2>3. x = low + 64 * (d6 + 2 * high)
    BY <1>0, <2>1 DEF Weigh, Bit
  <2>4. x \div 64 = d6 + 2 * high
    BY ONLY <2>2, <2>3 DEF Bit
  <2>5. (d6 + 2 * high) % 2 = d6
    BY ONLY <2>2 DEF Bit
  <2> QED
    BY ONLY <2>4, <2>5 DEF BitAt
<1>8. BitAt(x, 128) = d7
  <2>1. PICK low, high : low = d0 + 2 * d1 + 4 * d2 + 8 * d3 + 16 * d4 + 32 * d5 + 64 * d6 /\ high = 0
    OBVIOUS
  <2>2. low \in Nat /\ low < 128 /\ high \in Nat /\ d7 \in Bit
    BY <2>1 DEF Bit
  <2>3. x = low + 128 * (d7 + 2 * high)
    BY <1>0, <2>1 DEF Weigh, Bit
  <2>4. x \div 128 = d7 + 2 * high
    BY ONLY <2>2, <2>3 DEF Bit
  <2>5. (d7 + 2 * high) % 2 = d7
    BY ONLY <2>2 DEF Bit
  <2> QED
    BY ONLY <2>4, <2>5 DEF BitAt
<1> QED
  BY <1>0, <1>1, <1>2, <1>3, <1>4, <1>5, <1>6, <1>7, <1>8 DEF Bits

\* A bit of the | is set where one of the two has it.
Either(g, h) == IF g = 1 \/ h = 1 THEN 1 ELSE 0

\* OrAt is the or of two bits, weighed.
LEMMA OrAtIs ==
  ASSUME NEW x, NEW y, NEW power \in Nat
  PROVE  /\ Either(BitAt(x, power), BitAt(y, power)) \in Bit
         /\ OrAt(x, y, power) = power * Either(BitAt(x, power), BitAt(y, power))
<1>1. PICK g, h : g = BitAt(x, power) /\ h = BitAt(y, power)
  OBVIOUS
<1>3. OrAt(x, y, power) = IF g = 1 \/ h = 1 THEN power ELSE 0
  BY <1>1 DEF OrAt, BitAt
<1>4. CASE g = 1 \/ h = 1
  <2>1. Either(g, h) = 1
    BY <1>4 DEF Either
  <2>2. OrAt(x, y, power) = power * 1
    BY <1>3, <1>4
  <2> QED
    BY <1>1, <2>1, <2>2 DEF Bit
<1>5. CASE ~(g = 1 \/ h = 1)
  <2>1. Either(g, h) = 0
    BY <1>5 DEF Either
  <2>2. OrAt(x, y, power) = power * 0
    BY <1>3, <1>5
  <2> QED
    BY <1>1, <2>1, <2>2 DEF Bit
<1> QED
  BY <1>4, <1>5

Powers == {1, 2, 4, 8, 16, 32, 64, 128}

\* The bits of the | of two bytes.
LEMMA BitOrIs ==
  ASSUME NEW x, NEW y
  PROVE  /\ BitOr(x, y) \in Bytes
         /\ \A power \in Powers :
              BitAt(BitOr(x, y), power) = Either(BitAt(x, power), BitAt(y, power))
<1>1. PICK o : o = BitOr(x, y)
  OBVIOUS
<1>d0. PICK d0 : d0 = Either(BitAt(x, 1), BitAt(y, 1))
  OBVIOUS
<1>o0. d0 \in Bit /\ OrAt(x, y, 1) = 1 * d0
  BY <1>d0, OrAtIs
<1>d1. PICK d1 : d1 = Either(BitAt(x, 2), BitAt(y, 2))
  OBVIOUS
<1>o1. d1 \in Bit /\ OrAt(x, y, 2) = 2 * d1
  BY <1>d1, OrAtIs
<1>d2. PICK d2 : d2 = Either(BitAt(x, 4), BitAt(y, 4))
  OBVIOUS
<1>o2. d2 \in Bit /\ OrAt(x, y, 4) = 4 * d2
  BY <1>d2, OrAtIs
<1>d3. PICK d3 : d3 = Either(BitAt(x, 8), BitAt(y, 8))
  OBVIOUS
<1>o3. d3 \in Bit /\ OrAt(x, y, 8) = 8 * d3
  BY <1>d3, OrAtIs
<1>d4. PICK d4 : d4 = Either(BitAt(x, 16), BitAt(y, 16))
  OBVIOUS
<1>o4. d4 \in Bit /\ OrAt(x, y, 16) = 16 * d4
  BY <1>d4, OrAtIs
<1>d5. PICK d5 : d5 = Either(BitAt(x, 32), BitAt(y, 32))
  OBVIOUS
<1>o5. d5 \in Bit /\ OrAt(x, y, 32) = 32 * d5
  BY <1>d5, OrAtIs
<1>d6. PICK d6 : d6 = Either(BitAt(x, 64), BitAt(y, 64))
  OBVIOUS
<1>o6. d6 \in Bit /\ OrAt(x, y, 64) = 64 * d6
  BY <1>d6, OrAtIs
<1>d7. PICK d7 : d7 = Either(BitAt(x, 128), BitAt(y, 128))
  OBVIOUS
<1>o7. d7 \in Bit /\ OrAt(x, y, 128) = 128 * d7
  BY <1>d7, OrAtIs
<1>2. o = Weigh(d0, d1, d2, d3, d4, d5, d6, d7)
  <2>1. o = 1 * d0 + 2 * d1 + 4 * d2 + 8 * d3 + 16 * d4 + 32 * d5 + 64 * d6 + 128 * d7
    BY ONLY <1>1, <1>o0, <1>o1, <1>o2, <1>o3, <1>o4, <1>o5, <1>o6, <1>o7 DEF BitOr
  <2>2. 1 * d0 = d0
    BY <1>o0 DEF Bit
  <2> QED
    BY ONLY <2>1, <2>2 DEF Weigh
<1>3. o \in Bytes
  <2>1. Weigh(d0, d1, d2, d3, d4, d5, d6, d7) \in Bytes
    BY ONLY <1>o0, <1>o1, <1>o2, <1>o3, <1>o4, <1>o5, <1>o6, <1>o7, WeighIsByte
  <2> QED
    BY ONLY <1>2, <2>1
<1>4. Bits(o, d0, d1, d2, d3, d4, d5, d6, d7)
  <2>1. Bits(Weigh(d0, d1, d2, d3, d4, d5, d6, d7), d0, d1, d2, d3, d4, d5, d6, d7)
    BY ONLY <1>o0, <1>o1, <1>o2, <1>o3, <1>o4, <1>o5, <1>o6, <1>o7, BitsOfWeigh
  <2> QED
    BY ONLY <1>2, <2>1
<1>5. \A power \in Powers : BitAt(o, power) = Either(BitAt(x, power), BitAt(y, power))
  BY ONLY <1>4, <1>d0, <1>d1, <1>d2, <1>d3, <1>d4, <1>d5, <1>d6, <1>d7 DEF Powers, Bits
<1> QED
  BY ONLY <1>1, <1>3, <1>5

-------------------------------------------------------------------------------
\* Registers of six bits in bytes.

\* What a byte holds of its registers.
LEMMA FieldsOf ==
  ASSUME NEW x \in Bytes
  PROVE  /\ x % 64 = BitAt(x, 1) + 2 * BitAt(x, 2) + 4 * BitAt(x, 4) + 8 * BitAt(x, 8)
                      + 16 * BitAt(x, 16) + 32 * BitAt(x, 32)
         /\ x \div 64 = BitAt(x, 64) + 2 * BitAt(x, 128)
         /\ x % 16 = BitAt(x, 1) + 2 * BitAt(x, 2) + 4 * BitAt(x, 4) + 8 * BitAt(x, 8)
         /\ x \div 16 = BitAt(x, 16) + 2 * BitAt(x, 32) + 4 * BitAt(x, 64) + 8 * BitAt(x, 128)
         /\ x % 4 = BitAt(x, 1) + 2 * BitAt(x, 2)
         /\ x \div 4 = BitAt(x, 4) + 2 * BitAt(x, 8) + 4 * BitAt(x, 16) + 8 * BitAt(x, 32)
                        + 16 * BitAt(x, 64) + 32 * BitAt(x, 128)
<1>1. PICK a0, a1, a2, a3, a4, a5, a6, a7 :
        /\ a0 = BitAt(x, 1) /\ a1 = BitAt(x, 2) /\ a2 = BitAt(x, 4) /\ a3 = BitAt(x, 8)
        /\ a4 = BitAt(x, 16) /\ a5 = BitAt(x, 32) /\ a6 = BitAt(x, 64) /\ a7 = BitAt(x, 128)
  OBVIOUS
<1>2. x = Weigh(a0, a1, a2, a3, a4, a5, a6, a7)
  BY <1>1, BitsOf
<1>3. /\ a0 \in Bit /\ a1 \in Bit /\ a2 \in Bit /\ a3 \in Bit
      /\ a4 \in Bit /\ a5 \in Bit /\ a6 \in Bit /\ a7 \in Bit
  BY <1>1, BitsOf
<1>4. x % 64 = a0 + 2 * a1 + 4 * a2 + 8 * a3 + 16 * a4 + 32 * a5 /\ x \div 64 = a6 + 2 * a7
  <2>1. PICK low, high : low = a0 + 2 * a1 + 4 * a2 + 8 * a3 + 16 * a4 + 32 * a5 /\ high = a6 + 2 * a7
    OBVIOUS
  <2>2. low \in Nat /\ low < 64 /\ high \in Nat
    BY <1>3, <2>1 DEF Bit
  <2>3. x = low + 64 * high
    BY ONLY <1>2, <1>3, <2>1 DEF Weigh, Bit
  <2> QED
    BY ONLY <2>1, <2>2, <2>3
<1>5. x % 16 = a0 + 2 * a1 + 4 * a2 + 8 * a3 /\ x \div 16 = a4 + 2 * a5 + 4 * a6 + 8 * a7
  <2>1. PICK low, high : low = a0 + 2 * a1 + 4 * a2 + 8 * a3 /\ high = a4 + 2 * a5 + 4 * a6 + 8 * a7
    OBVIOUS
  <2>2. low \in Nat /\ low < 16 /\ high \in Nat
    BY <1>3, <2>1 DEF Bit
  <2>3. x = low + 16 * high
    BY ONLY <1>2, <1>3, <2>1 DEF Weigh, Bit
  <2>4. x % 16 = low
    BY ONLY <2>2, <2>3
  <2>5. x \div 16 = high
    BY ONLY <2>2, <2>3
  <2> QED
    BY ONLY <2>1, <2>4, <2>5
<1>6. x % 4 = a0 + 2 * a1 /\ x \div 4 = a2 + 2 * a3 + 4 * a4 + 8 * a5 + 16 * a6 + 32 * a7
  <2>1. PICK low, high : low = a0 + 2 * a1 /\ high = a2 + 2 * a3 + 4 * a4 + 8 * a5 + 16 * a6 + 32 * a7
    OBVIOUS
  <2>2. low \in Nat /\ low < 4 /\ high \in Nat
    BY <1>3, <2>1 DEF Bit
  <2>3. x = low + 4 * high
    BY ONLY <1>2, <1>3, <2>1 DEF Weigh, Bit
  <2>4. x % 4 = low
    BY ONLY <2>2, <2>3
  <2>5. x \div 4 = high
    BY ONLY <2>2, <2>3
  <2> QED
    BY ONLY <2>1, <2>4, <2>5
<1> QED
  BY <1>1, <1>4, <1>5, <1>6

\* y has no bit that o has not.
Under(y, o) == \A power \in Powers : BitAt(y, power) <= BitAt(o, power)

\* A byte under another is so in its parts.
LEMMA UnderIs ==
  ASSUME NEW y \in Bytes, NEW o \in Bytes, Under(y, o)
  PROVE  /\ y % 64 <= o % 64 /\ y \div 64 <= o \div 64
         /\ y % 16 <= o % 16 /\ y \div 16 <= o \div 16
         /\ y % 4 <= o % 4 /\ y \div 4 <= o \div 4
<1>1. PICK a0, a1, a2, a3, a4, a5, a6, a7 :
        /\ a0 = BitAt(y, 1) /\ a1 = BitAt(y, 2) /\ a2 = BitAt(y, 4) /\ a3 = BitAt(y, 8)
        /\ a4 = BitAt(y, 16) /\ a5 = BitAt(y, 32) /\ a6 = BitAt(y, 64) /\ a7 = BitAt(y, 128)
  OBVIOUS
<1>2. PICK b0, b1, b2, b3, b4, b5, b6, b7 :
        /\ b0 = BitAt(o, 1) /\ b1 = BitAt(o, 2) /\ b2 = BitAt(o, 4) /\ b3 = BitAt(o, 8)
        /\ b4 = BitAt(o, 16) /\ b5 = BitAt(o, 32) /\ b6 = BitAt(o, 64) /\ b7 = BitAt(o, 128)
  OBVIOUS
<1>3. /\ a0 \in Nat /\ a1 \in Nat /\ a2 \in Nat /\ a3 \in Nat
      /\ a4 \in Nat /\ a5 \in Nat /\ a6 \in Nat /\ a7 \in Nat
  BY <1>1, BitsOf DEF Bit
<1>4. /\ b0 \in Nat /\ b1 \in Nat /\ b2 \in Nat /\ b3 \in Nat
      /\ b4 \in Nat /\ b5 \in Nat /\ b6 \in Nat /\ b7 \in Nat
  BY <1>2, BitsOf DEF Bit
<1>5. /\ a0 <= b0 /\ a1 <= b1 /\ a2 <= b2 /\ a3 <= b3
      /\ a4 <= b4 /\ a5 <= b5 /\ a6 <= b6 /\ a7 <= b7
  BY <1>1, <1>2 DEF Under, Powers
<1>6. /\ y % 64 = a0 + 2 * a1 + 4 * a2 + 8 * a3 + 16 * a4 + 32 * a5 /\ y \div 64 = a6 + 2 * a7
      /\ y % 16 = a0 + 2 * a1 + 4 * a2 + 8 * a3 /\ y \div 16 = a4 + 2 * a5 + 4 * a6 + 8 * a7
      /\ y % 4 = a0 + 2 * a1 /\ y \div 4 = a2 + 2 * a3 + 4 * a4 + 8 * a5 + 16 * a6 + 32 * a7
  BY <1>1, FieldsOf
<1>7. /\ o % 64 = b0 + 2 * b1 + 4 * b2 + 8 * b3 + 16 * b4 + 32 * b5 /\ o \div 64 = b6 + 2 * b7
      /\ o % 16 = b0 + 2 * b1 + 4 * b2 + 8 * b3 /\ o \div 16 = b4 + 2 * b5 + 4 * b6 + 8 * b7
      /\ o % 4 = b0 + 2 * b1 /\ o \div 4 = b2 + 2 * b3 + 4 * b4 + 8 * b5 + 16 * b6 + 32 * b7
  BY <1>2, FieldsOf
<1>8. y % 64 <= o % 64 /\ y \div 64 <= o \div 64
  BY ONLY <1>3, <1>4, <1>5, <1>6, <1>7
<1>9. y % 16 <= o % 16 /\ y \div 16 <= o \div 16
  BY ONLY <1>3, <1>4, <1>5, <1>6, <1>7
<1>10. y % 4 <= o % 4 /\ y \div 4 <= o \div 4
  BY ONLY <1>3, <1>4, <1>5, <1>6, <1>7
<1> QED
  BY <1>8, <1>9, <1>10

\* The | is over both.
LEMMA BitOrOver ==
  ASSUME NEW x \in Bytes, NEW y \in Bytes
  PROVE  BitOr(x, y) \in Bytes /\ Under(x, BitOr(x, y)) /\ Under(y, BitOr(x, y))
<1>1. \A power \in Powers : BitAt(x, power) \in Bit /\ BitAt(y, power) \in Bit
  BY BitsOf DEF Powers
<1>2. PICK o : o = BitOr(x, y)
  OBVIOUS
<1>3. o \in Bytes /\ \A power \in Powers : BitAt(o, power) = Either(BitAt(x, power), BitAt(y, power))
  BY <1>2, BitOrIs
<1>4. \A g, h \in Bit : g <= Either(g, h) /\ h <= Either(g, h)
  BY DEF Either, Bit
<1>5. Under(x, o) /\ Under(y, o)
  BY ONLY <1>1, <1>3, <1>4 DEF Under
<1> QED
  BY <1>2, <1>3, <1>5

\* Clearing takes no bit but that of 64.
LEMMA ClearedIs ==
  ASSUME NEW x \in Bytes, NEW index
  PROVE  /\ ClearedNext(x, index) \in Bytes
         /\ ClearedNext(x, index) % 16 = x % 16 /\ ClearedNext(x, index) % 4 = x % 4
         /\ ClearedNext(x, index) \div 16 >= (x \div 16) - 4
<1>1. x \in Nat /\ x < 256
  BY BytesAre
<1>2. PICK q, r : q = x \div 64 /\ r = x % 64
  OBVIOUS
<1>3. q \in Nat /\ q < 4 /\ r \in Nat /\ r < 64 /\ x = 64 * q + r
  BY ONLY <1>1, <1>2
<1>4. PICK d : d = q % 2
  OBVIOUS
<1>5. d \in Nat /\ d < 2 /\ d <= q
  BY ONLY <1>3, <1>4
<1>6. PICK c : c = ClearedNext(x, index)
  OBVIOUS
<1>7. c = x \/ c = x - 64 * d
  BY <1>2, <1>4, <1>6 DEF ClearedNext
<1>8. PICK e \in {0, 1} : c = x - 64 * e /\ e <= q
  <2>1. c = x - 64 * 0 \/ c = x - 64 * d
    BY ONLY <1>1, <1>7
  <2> QED
    BY ONLY <1>3, <1>5, <2>1
<1>9. c \in Nat /\ c < 256 /\ c = 64 * (q - e) + r
  BY ONLY <1>3, <1>8
<1>10. c % 16 = x % 16 /\ c % 4 = x % 4
  <2>1. c % 16 = r % 16 /\ x % 16 = r % 16
    BY ONLY <1>3, <1>8, <1>9
  <2>2. c % 4 = r % 4 /\ x % 4 = r % 4
    BY ONLY <1>3, <1>8, <1>9
  <2> QED
    BY <2>1, <2>2
<1>11. c \div 16 >= (x \div 16) - 4
  BY ONLY <1>3, <1>8, <1>9
<1>12. c \in Bytes
  BY <1>9, BytesAre
<1> QED
  BY <1>6, <1>10, <1>11, <1>12

-------------------------------------------------------------------------------
\* GetRegister and hllDenseSetRegister.

\* Where register index is, by what is left when it is divided by 4.
LEMMA PlaceIs ==
  ASSUME NEW index \in Nat
  PROVE  \E k \in Nat :
           \/ index = 4 * k /\ ByteOf(index) = 3 * k /\ Shift(index) = 1
           \/ index = 4 * k + 1 /\ ByteOf(index) = 3 * k /\ Shift(index) = 64
           \/ index = 4 * k + 2 /\ ByteOf(index) = 3 * k + 1 /\ Shift(index) = 16
           \/ index = 4 * k + 3 /\ ByteOf(index) = 3 * k + 2 /\ Shift(index) = 4
<1>1. PICK k, r : k = index \div 4 /\ r = index % 4
  OBVIOUS
<1>2. k \in Nat /\ r \in {0, 1, 2, 3} /\ index = 4 * k + r
  BY <1>1
<1>3. Shift(index) = <<1, 64, 16, 4>>[r + 1]
  BY <1>1 DEF Shift
<1>4. CASE r = 0
  <2>1. index = 4 * k /\ ByteOf(index) = 3 * k
    BY ONLY <1>2, <1>4 DEF ByteOf
  <2> QED
    BY <1>2, <1>3, <1>4, <2>1
<1>5. CASE r = 1
  <2>1. index = 4 * k + 1 /\ ByteOf(index) = 3 * k
    BY ONLY <1>2, <1>5 DEF ByteOf
  <2> QED
    BY <1>2, <1>3, <1>5, <2>1
<1>6. CASE r = 2
  <2>1. index = 4 * k + 2 /\ ByteOf(index) = 3 * k + 1
    BY ONLY <1>2, <1>6 DEF ByteOf
  <2> QED
    BY <1>2, <1>3, <1>6, <2>1
<1>7. CASE r = 3
  <2>1. index = 4 * k + 3 /\ ByteOf(index) = 3 * k + 2
    BY ONLY <1>2, <1>7 DEF ByteOf
  <2> QED
    BY <1>2, <1>3, <1>7, <2>1
<1> QED
  BY <1>2, <1>4, <1>5, <1>6, <1>7

\* The register in the bytes x and y, by its shift.
Field(x, y, shift) == ((x + 256 * y) \div shift) % 64

\* The four ways a register lies in two bytes.
LEMMA FieldIs ==
  ASSUME NEW x \in Bytes, NEW y \in Bytes
  PROVE  /\ Field(x, y, 1) = x % 64
         /\ Field(x, y, 64) = (x \div 64) + 4 * (y % 16)
         /\ Field(x, y, 16) = (x \div 16) + 16 * (y % 4)
         /\ Field(x, y, 4) = x \div 4
<1>1. x \in Nat /\ x < 256 /\ y \in Nat /\ y < 256
  BY BytesAre
<1>2. Field(x, y, 1) = x % 64
  <2>1. (x + 256 * y) \div 1 = x + 256 * y
    BY ONLY <1>1
  <2>2. (x + 256 * y) % 64 = x % 64
    BY ONLY <1>1
  <2> QED
    BY ONLY <2>1, <2>2 DEF Field
<1>3. Field(x, y, 64) = (x \div 64) + 4 * (y % 16)
  <2>1. PICK q, r, m, n : q = x \div 64 /\ r = x % 64 /\ m = y \div 16 /\ n = y % 16
    OBVIOUS
  <2>2. q \in Nat /\ q < 4 /\ r \in Nat /\ r < 64 /\ x = 64 * q + r
    BY ONLY <1>1, <2>1
  <2>3. m \in Nat /\ n \in Nat /\ n < 16 /\ y = 16 * m + n
    BY ONLY <1>1, <2>1
  <2>4. (x + 256 * y) \div 64 = q + 4 * y
    BY ONLY <1>1, <2>2
  <2>5. (q + 4 * y) % 64 = q + 4 * n
    BY ONLY <2>2, <2>3
  <2> QED
    BY ONLY <2>1, <2>4, <2>5 DEF Field
<1>4. Field(x, y, 16) = (x \div 16) + 16 * (y % 4)
  <2>1. PICK q, r, m, n : q = x \div 16 /\ r = x % 16 /\ m = y \div 4 /\ n = y % 4
    OBVIOUS
  <2>2. q \in Nat /\ q < 16 /\ r \in Nat /\ r < 16 /\ x = 16 * q + r
    BY ONLY <1>1, <2>1
  <2>3. m \in Nat /\ n \in Nat /\ n < 4 /\ y = 4 * m + n
    BY ONLY <1>1, <2>1
  <2>4. (x + 256 * y) \div 16 = q + 16 * y
    BY ONLY <1>1, <2>2
  <2>5. (q + 16 * y) % 64 = q + 16 * n
    BY ONLY <2>2, <2>3
  <2> QED
    BY ONLY <2>1, <2>4, <2>5 DEF Field
<1>5. Field(x, y, 4) = x \div 4
  <2>1. PICK q, r : q = x \div 4 /\ r = x % 4
    OBVIOUS
  <2>2. q \in Nat /\ q < 64 /\ r \in Nat /\ r < 4 /\ x = 4 * q + r
    BY ONLY <1>1, <2>1
  <2>3. (x + 256 * y) \div 4 = q + 64 * y
    BY ONLY <1>1, <2>2
  <2>4. (q + 64 * y) % 64 = q
    BY ONLY <1>1, <2>2
  <2> QED
    BY ONLY <2>1, <2>3, <2>4 DEF Field
<1> QED
  BY <1>2, <1>3, <1>4, <1>5

\* The two bytes of the count, shifted.
LEMMA ShiftedIs ==
  ASSUME NEW v \in 1 .. 32
  PROVE  /\ (v * 1) % 256 = v /\ (v * 1) \div 256 = 0
         /\ (v * 64) % 256 = 64 * (v % 4) /\ (v * 64) \div 256 = v \div 4
         /\ (v * 16) % 256 = 16 * (v % 16) /\ (v * 16) \div 256 = v \div 16
         /\ (v * 4) % 256 = 4 * v /\ (v * 4) \div 256 = 0
<1>1. v \in Nat /\ v <= 32
  OBVIOUS
<1>2. (v * 1) % 256 = v /\ (v * 1) \div 256 = 0
  BY ONLY <1>1
<1>3. (v * 64) % 256 = 64 * (v % 4) /\ (v * 64) \div 256 = v \div 4
  BY ONLY <1>1
<1>4. (v * 16) % 256 = 16 * (v % 16) /\ (v * 16) \div 256 = v \div 16
  BY ONLY <1>1
<1>5. (v * 4) % 256 = 4 * v /\ (v * 4) \div 256 = 0
  BY ONLY <1>1
<1> QED
  BY <1>2, <1>3, <1>4, <1>5

\* A byte written leaves bytes.
LEMMA WriteType ==
  ASSUME NEW b \in Seq(Bytes), NEW i, NEW a \in Bytes
  PROVE  [b EXCEPT ![i] = a] \in Seq(Bytes) /\ Len([b EXCEPT ![i] = a]) = Len(b)
<1>1. PICK n \in Nat : n = Len(b) /\ b \in [1 .. n -> Bytes]
  BY LenProperties
<1>2. PICK c : c = [b EXCEPT ![i] = a]
  OBVIOUS
<1>3. c \in [1 .. n -> Bytes]
  BY ONLY <1>1, <1>2, a \in Bytes
<1>4. c \in Seq(Bytes) /\ Len(c) = n
  BY ONLY <1>1, <1>3, n \in Nat
<1> QED
  BY ONLY <1>1, <1>2, <1>4

\* Whatever is set, there are as many bytes as before.
LEMMA SetType ==
  ASSUME NEW b \in Seq(Bytes), NEW index, NEW v
  PROVE  SetRegister(b, index, v) \in Seq(Bytes) /\ Len(SetRegister(b, index, v)) = Len(b)
<1>1. PICK i, low, high : /\ i = ByteOf(index) + 1 /\ low = (v * Shift(index)) % 256
                          /\ high = (v * Shift(index)) \div 256
  OBVIOUS
<1>2. PICK a : a = BitOr(b[i], low)
  OBVIOUS
<1>3. PICK c : c = [b EXCEPT ![i] = a]
  OBVIOUS
<1>4. c \in Seq(Bytes) /\ Len(c) = Len(b)
  <2>1. a \in Bytes
    BY <1>2, BitOrIs
  <2> QED
    BY <1>3, <2>1, WriteType
<1>5. PICK d : d = BitOr(ClearedNext(b[i + 1], index), high)
  OBVIOUS
<1>6. PICK e : e = [c EXCEPT ![i + 1] = d]
  OBVIOUS
<1>7. e \in Seq(Bytes) /\ Len(e) = Len(c)
  <2>1. d \in Bytes
    BY <1>5, BitOrIs
  <2> QED
    BY <1>4, <1>6, <2>1, WriteType
<1>8. SetRegister(b, index, v) = e
  BY ONLY <1>1, <1>2, <1>3, <1>5, <1>6 DEF SetRegister
<1> QED
  BY <1>4, <1>7, <1>8

\* The two bytes that are written.
LEMMA SetBytes ==
  ASSUME NEW b \in Seq(Bytes), NEW index \in Nat, NEW v, NEW k \in Nat, k = ByteOf(index),
         k + 2 <= Len(b)
  PROVE  /\ SetRegister(b, index, v)[k + 1] = BitOr(b[k + 1], (v * Shift(index)) % 256)
         /\ SetRegister(b, index, v)[k + 2]
              = BitOr(ClearedNext(b[k + 2], index), (v * Shift(index)) \div 256)
         /\ \A q \in 1 .. Len(b) : q # k + 1 /\ q # k + 2 => SetRegister(b, index, v)[q] = b[q]
<1>1. PICK i, low, high : /\ i = ByteOf(index) + 1 /\ low = (v * Shift(index)) % 256
                          /\ high = (v * Shift(index)) \div 256
  OBVIOUS
<1>0. Len(b) \in Nat /\ i = k + 1 /\ i + 1 = k + 2 /\ i \in 1 .. Len(b) /\ i + 1 \in 1 .. Len(b)
  BY <1>1, LenProperties
<1>2. PICK a : a = BitOr(b[i], low)
  OBVIOUS
<1>3. PICK c : c = [b EXCEPT ![i] = a]
  OBVIOUS
<1>4. /\ c \in Seq(Bytes) /\ Len(c) = Len(b) /\ c[i] = a
      /\ \A q \in 1 .. Len(b) : q # i => c[q] = b[q]
  BY <1>0, <1>2, <1>3, BitOrIs
<1>5. PICK d : d = BitOr(ClearedNext(b[i + 1], index), high)
  OBVIOUS
<1>6. PICK e : e = [c EXCEPT ![i + 1] = d]
  OBVIOUS
<1>7. e[i + 1] = d /\ \A q \in 1 .. Len(b) : q # i + 1 => e[q] = c[q]
  BY <1>0, <1>4, <1>5, <1>6
<1>8. SetRegister(b, index, v) = e
  BY ONLY <1>1, <1>2, <1>3, <1>5, <1>6 DEF SetRegister
<1>9. i # i + 1 /\ i + 1 # i
  BY <1>0
<1>10. c[i + 1] = b[i + 1] /\ e[i] = c[i]
  BY <1>0, <1>4, <1>7, <1>9
<1>11. \A q \in 1 .. Len(b) : q # i /\ q # i + 1 => e[q] = b[q]
  BY <1>4, <1>7
<1>12. e[i] = BitOr(b[i], low) /\ e[i + 1] = BitOr(ClearedNext(b[i + 1], index), high)
  BY <1>2, <1>4, <1>5, <1>7, <1>10
<1> QED
  BY ONLY <1>0, <1>1, <1>8, <1>11, <1>12

\* GetRegister reads such a field.
LEMMA GetIs ==
  ASSUME NEW b, NEW index \in Nat, NEW k \in Nat, k = ByteOf(index)
  PROVE  GetRegister(b, index) = Field(b[k + 1], b[k + 2], Shift(index))
BY DEF GetRegister, Field

\* The two bytes of a register.
LEMMA BytesInSeq ==
  ASSUME NEW b \in Seq(Bytes), NEW k \in Nat, k + 2 <= Len(b)
  PROVE  b[k + 1] \in Bytes /\ b[k + 2] \in Bytes
<1>1. Len(b) \in Nat
  BY LenProperties
<1>2. k + 1 \in 1 .. Len(b) /\ k + 2 \in 1 .. Len(b)
  BY <1>1
<1> QED
  BY <1>2

\* A field of bytes is a number.
LEMMA FieldType ==
  ASSUME NEW x \in Bytes, NEW y \in Bytes, NEW shift \in {1, 64, 16, 4}
  PROVE  Field(x, y, shift) \in Nat
<1>1. x \in Nat /\ y \in Nat
  BY BytesAre
<1>2. \A z \in Nat : z \div 1 \in Nat /\ z \div 64 \in Nat /\ z \div 16 \in Nat /\ z \div 4 \in Nat
  OBVIOUS
<1>3. \A z \in Nat : z % 64 \in Nat
  OBVIOUS
<1>4. x + 256 * y \in Nat
  BY <1>1
<1> QED
  BY <1>2, <1>3, <1>4 DEF Field

\* The bits of the shifted count are among those of the two bytes written.
HoldsCount(x, y, shift, v) ==
  Field(BitOr(x, (v * shift) % 256), BitOr(y, (v * shift) \div 256), shift) >= v

\* An OR with a count gives a register of that count at least.
LEMMA FieldHolds ==
  ASSUME NEW v \in 1 .. 32, NEW shift \in {1, 64, 16, 4}, NEW x \in Bytes, NEW y \in Bytes
  PROVE  HoldsCount(x, y, shift, v)
<1>1. v \in Nat /\ v <= 32 /\ v >= 1
  OBVIOUS
<1>2. PICK low, high, o, p : /\ low = (v * shift) % 256 /\ high = (v * shift) \div 256
                             /\ o = BitOr(x, low) /\ p = BitOr(y, high)
  OBVIOUS
<1> SUFFICES Field(o, p, shift) >= v
  BY <1>2 DEF HoldsCount
<1>3. o \in Bytes /\ p \in Bytes
  BY <1>2, BitOrIs
<1>4. ASSUME low \in Bytes
      PROVE  low % 64 <= o % 64 /\ low \div 64 <= o \div 64 /\ low \div 16 <= o \div 16
             /\ low \div 4 <= o \div 4
  <2>1. Under(low, o)
    BY <1>2, <1>4, BitOrOver
  <2> QED
    BY <1>3, <1>4, <2>1, UnderIs
<1>5. ASSUME high \in Bytes
      PROVE  high % 16 <= p % 16 /\ high % 4 <= p % 4
  <2>1. Under(high, p)
    BY <1>2, <1>5, BitOrOver
  <2> QED
    BY <1>3, <1>5, <2>1, UnderIs
<1>a. \A z \in Bytes : /\ z % 64 \in Nat /\ z \div 64 \in Nat /\ z \div 16 \in Nat
                       /\ z \div 4 \in Nat /\ z % 16 \in Nat /\ z % 4 \in Nat
  <2> SUFFICES ASSUME NEW z \in Bytes
               PROVE  /\ z % 64 \in Nat /\ z \div 64 \in Nat /\ z \div 16 \in Nat
                      /\ z \div 4 \in Nat /\ z % 16 \in Nat /\ z % 4 \in Nat
    OBVIOUS
  <2>1. z \in Nat
    BY BytesAre
  <2> QED
    BY ONLY <2>1
<1>b. PICK g, h, m, n : g = v % 4 /\ h = v \div 4 /\ m = v % 16 /\ n = v \div 16
  OBVIOUS
<1>c. /\ g \in Nat /\ g < 4 /\ h \in Nat /\ h <= 8 /\ v = 4 * h + g
      /\ m \in Nat /\ m < 16 /\ n \in Nat /\ n <= 2 /\ v = 16 * n + m
  BY ONLY <1>1, <1>b
<1>6. CASE shift = 1
  <2>1. low = v /\ high = 0
    BY <1>2, <1>6, ShiftedIs
  <2>2. low \in Bytes
    BY <1>1, <2>1, BytesAre
  <2>3. low % 64 = v
    BY ONLY <1>1, <2>1
  <2>4. Field(o, p, 1) = o % 64
    BY <1>3, FieldIs
  <2> QED
    BY <1>3, <1>4, <1>6, <1>a, <2>2, <2>3, <2>4
<1>7. CASE shift = 64
  <2>1. low = 64 * g /\ high = h
    BY <1>2, <1>7, <1>b, ShiftedIs
  <2>2. low \in Bytes /\ high \in Bytes
    BY <1>c, <2>1, BytesAre
  <2>3. low \div 64 = g /\ high % 16 = h
    BY ONLY <1>c, <2>1
  <2>4. Field(o, p, 64) = (o \div 64) + 4 * (p % 16)
    BY <1>3, FieldIs
  <2>5. g <= o \div 64 /\ h <= p % 16
    BY <1>4, <1>5, <2>2, <2>3
  <2>6. (o \div 64) + 4 * (p % 16) >= v
    BY <1>3, <1>a, <1>c, <2>5
  <2> QED
    BY <1>7, <2>4, <2>6
<1>8. CASE shift = 16
  <2>1. low = 16 * m /\ high = n
    BY <1>2, <1>8, <1>b, ShiftedIs
  <2>2. low \in Bytes /\ high \in Bytes
    BY <1>c, <2>1, BytesAre
  <2>3. low \div 16 = m /\ high % 4 = n
    BY ONLY <1>c, <2>1
  <2>4. Field(o, p, 16) = (o \div 16) + 16 * (p % 4)
    BY <1>3, FieldIs
  <2>5. m <= o \div 16 /\ n <= p % 4
    BY <1>4, <1>5, <2>2, <2>3
  <2>6. (o \div 16) + 16 * (p % 4) >= v
    BY <1>3, <1>a, <1>c, <2>5
  <2> QED
    BY <1>8, <2>4, <2>6
<1>9. CASE shift = 4
  <2>1. low = 4 * v /\ high = 0
    BY <1>2, <1>9, ShiftedIs
  <2>2. low \in Bytes
    BY <1>1, <2>1, BytesAre
  <2>3. low \div 4 = v
    BY ONLY <1>1, <2>1
  <2>4. Field(o, p, 4) = o \div 4
    BY <1>3, FieldIs
  <2> QED
    BY <1>3, <1>4, <1>9, <1>a, <2>2, <2>3, <2>4
<1> QED
  BY <1>6, <1>7, <1>8, <1>9

\* A register that is set is at least what it was set to.
LEMMA SetIsGot ==
  ASSUME NEW b \in Seq(Bytes), NEW index \in Nat, NEW v \in 1 .. 32,
         ByteOf(index) + 2 <= Len(b)
  PROVE  GetRegister(SetRegister(b, index, v), index) >= v
<1>1. PICK k, s : k = ByteOf(index) /\ s = Shift(index)
  OBVIOUS
<1>2. k \in Nat /\ s \in {1, 64, 16, 4}
  BY <1>1, PlaceIs
<1>3. b[k + 1] \in Bytes /\ b[k + 2] \in Bytes
  BY <1>1, <1>2, BytesInSeq
<1>4. PICK c, x, y : c = SetRegister(b, index, v) /\ x = b[k + 1] /\ y = ClearedNext(b[k + 2], index)
  OBVIOUS
<1>5. x \in Bytes /\ y \in Bytes
  BY <1>3, <1>4, ClearedIs
<1>6. c[k + 1] = BitOr(x, (v * s) % 256) /\ c[k + 2] = BitOr(y, (v * s) \div 256)
  BY <1>1, <1>2, <1>4, SetBytes
<1>7. GetRegister(c, index) = Field(c[k + 1], c[k + 2], s)
  BY <1>1, <1>2, GetIs
<1>8. Field(BitOr(x, (v * s) % 256), BitOr(y, (v * s) \div 256), s) >= v
  <2>1. HoldsCount(x, y, s, v)
    BY ONLY <1>2, <1>5, v \in 1 .. 32, FieldHolds
  <2> QED
    BY ONLY <2>1 DEF HoldsCount
<1> QED
  BY ONLY <1>4, <1>6, <1>7, <1>8

\* Neither byte loses a bit to the |.
LEMMA BitOrKeeps ==
  ASSUME NEW x \in Bytes, NEW y
  PROVE  BitOr(x, y) \in Bytes /\ Under(x, BitOr(x, y))
<1>1. \A power \in Powers : BitAt(x, power) \in Bit
  BY BitsOf DEF Powers
<1>2. PICK o : o = BitOr(x, y)
  OBVIOUS
<1>3. o \in Bytes /\ \A power \in Powers : BitAt(o, power) = Either(BitAt(x, power), BitAt(y, power))
  BY <1>2, BitOrIs
<1>4. \A g \in Bit : \A h : g <= Either(g, h)
  BY DEF Either, Bit
<1>5. Under(x, o)
  BY ONLY <1>1, <1>3, <1>4 DEF Under
<1> QED
  BY <1>2, <1>3, <1>5

\* A byte that is as before or has more, and one that may have lost the bit of 64.
Over(x, o) ==
  /\ x % 64 <= o % 64 /\ x \div 64 <= o \div 64 /\ x % 16 <= o % 16
  /\ x \div 16 <= o \div 16 /\ x % 4 <= o % 4 /\ x \div 4 <= o \div 4
Nearly(x, o) == x % 16 <= o % 16 /\ x \div 16 <= (o \div 16) + 4

\* The parts of a byte are numbers.
LEMMA Fields ==
  ASSUME NEW z \in Bytes
  PROVE  /\ z % 64 \in Nat /\ z \div 64 \in Nat /\ z \div 16 \in Nat
         /\ z \div 4 \in Nat /\ z % 16 \in Nat /\ z % 4 \in Nat
<1>1. z \in Nat
  BY BytesAre
<1> QED
  BY ONLY <1>1

\* What a set does to the bytes: only where the register begins a byte may the next one
\* lose a bit.
LEMMA BytesKept ==
  ASSUME NEW b \in Seq(Bytes), NEW index \in Nat, NEW v, ByteOf(index) + 2 <= Len(b),
         NEW q \in 1 .. Len(b)
  PROVE  /\ SetRegister(b, index, v)[q] \in Bytes
         /\ \/ Over(b[q], SetRegister(b, index, v)[q])
            \/ /\ q = ByteOf(index) + 2 /\ Shift(index) = 1
               /\ Nearly(b[q], SetRegister(b, index, v)[q])
<1>1. PICK k, s, c : k = ByteOf(index) /\ s = Shift(index) /\ c = SetRegister(b, index, v)
  OBVIOUS
<1>2. k \in Nat /\ s \in {1, 64, 16, 4}
  <2>1. ByteOf(index) \in Nat /\ Shift(index) \in {1, 64, 16, 4}
    BY ONLY index \in Nat, PlaceIs
  <2> QED
    BY ONLY <1>1, <2>1
<1>3. PICK low, high : low = (v * s) % 256 /\ high = (v * s) \div 256
  OBVIOUS
<1>4. /\ c[k + 1] = BitOr(b[k + 1], low) /\ c[k + 2] = BitOr(ClearedNext(b[k + 2], index), high)
      /\ \A i \in 1 .. Len(b) : i # k + 1 /\ i # k + 2 => c[i] = b[i]
  <2>1. b \in Seq(Bytes) /\ k = ByteOf(index) /\ k + 2 <= Len(b)
    BY <1>1
  <2> QED
    BY ONLY <1>1, <1>2, <1>3, <2>1, index \in Nat, SetBytes
<1>5. b[k + 1] \in Bytes /\ b[k + 2] \in Bytes
  BY <1>1, <1>2, BytesInSeq
<1>6. \A x \in Bytes : Over(x, x)
  <2> SUFFICES ASSUME NEW x \in Bytes PROVE Over(x, x)
    OBVIOUS
  <2> QED
    <3>1. \A n \in Nat : n <= n
      OBVIOUS
    <3>2. /\ x % 64 \in Nat /\ x \div 64 \in Nat /\ x \div 16 \in Nat
          /\ x \div 4 \in Nat /\ x % 16 \in Nat /\ x % 4 \in Nat
      BY Fields
    <3> QED
      BY ONLY <3>1, <3>2, Zenon DEF Over
<1>7. CASE q = k + 1
  <2>1. PICK x, o : x = b[k + 1] /\ o = BitOr(x, low)
    OBVIOUS
  <2>2. x \in Bytes /\ o \in Bytes /\ Under(x, o)
    BY <1>5, <2>1, BitOrKeeps
  <2>3. Over(x, o)
    BY <2>2, UnderIs DEF Over
  <2> QED
    BY ONLY <1>1, <1>4, <1>7, <2>1, <2>2, <2>3
<1>8. CASE q = k + 2
  <2>1. PICK x, y, o : x = b[k + 2] /\ y = ClearedNext(x, index) /\ o = BitOr(y, high)
    OBVIOUS
  <2>2. /\ x \in Bytes /\ y \in Bytes
        /\ y % 16 = x % 16 /\ y \div 16 >= (x \div 16) - 4
    BY <1>5, <2>1, ClearedIs
  <2>3. o \in Bytes /\ Under(y, o)
    BY <2>1, <2>2, BitOrKeeps
  <2>4. Over(y, o)
    BY <2>2, <2>3, UnderIs DEF Over
  <2>5. CASE s = 1
    <3>1. Nearly(x, o)
      <4>1. /\ x % 16 \in Nat /\ o % 16 \in Nat /\ y % 16 \in Nat
            /\ x \div 16 \in Nat /\ o \div 16 \in Nat /\ y \div 16 \in Nat
        BY <2>2, <2>3, Fields
      <4>2. y % 16 <= o % 16 /\ y \div 16 <= o \div 16
        BY <2>4 DEF Over
      <4>3. PICK x1, x2, y2, o1, o2 : /\ x1 = x % 16 /\ x2 = x \div 16 /\ y2 = y \div 16
                                      /\ o1 = o % 16 /\ o2 = o \div 16
        OBVIOUS
      <4>4. x1 <= o1 /\ x2 <= o2 + 4
        BY <2>2, <4>1, <4>2, <4>3
      <4> QED
        BY ONLY <4>3, <4>4 DEF Nearly
    <3> QED
      BY ONLY <1>1, <1>4, <1>8, <2>1, <2>3, <2>5, <3>1
  <2>6. CASE s # 1
    <3>1. y = x
      BY <1>1, <2>1, <2>6 DEF ClearedNext
    <3> QED
      BY ONLY <1>1, <1>4, <1>8, <2>1, <2>3, <2>4, <3>1
  <2> QED
    BY <2>5, <2>6
<1>9. CASE q # k + 1 /\ q # k + 2
  <2>1. c[q] = b[q] /\ b[q] \in Bytes
    BY <1>4, <1>9
  <2> QED
    BY ONLY <1>1, <1>6, <2>1
<1> QED
  BY <1>7, <1>8, <1>9

\* What a register loses when another is set.
Lost(index, j) == IF j % 4 = 2 /\ j = index + 2 THEN 4 ELSE 0

\* Setting a register lowers no other, except the one whose bit the mask takes.
LEMMA SetKeeps ==
  ASSUME NEW b \in Seq(Bytes), NEW index \in Nat, NEW v, ByteOf(index) + 2 <= Len(b),
         NEW j \in Nat, ByteOf(j) + 2 <= Len(b)
  PROVE  /\ GetRegister(b, j) \in Nat /\ GetRegister(SetRegister(b, index, v), j) \in Nat
         /\ GetRegister(SetRegister(b, index, v), j) + Lost(index, j) >= GetRegister(b, j)
<1>1. PICK k, s, c : k = ByteOf(j) /\ s = Shift(j) /\ c = SetRegister(b, index, v)
  OBVIOUS
<1>2. k \in Nat /\ s \in {1, 64, 16, 4}
  BY <1>1, PlaceIs
<1>3. PICK x, y, u, w : x = b[k + 1] /\ y = b[k + 2] /\ u = c[k + 1] /\ w = c[k + 2]
  OBVIOUS
<1>4. GetRegister(b, j) = Field(x, y, s) /\ GetRegister(c, j) = Field(u, w, s)
  BY <1>1, <1>2, <1>3, GetIs
<1>5. x \in Bytes /\ y \in Bytes
  BY <1>1, <1>2, <1>3, BytesInSeq
<1>6. k + 1 \in 1 .. Len(b) /\ k + 2 \in 1 .. Len(b)
  <2>1. Len(b) \in Nat
    BY LenProperties
  <2> QED
    BY <1>1, <1>2, <2>1
<1>7. /\ u \in Bytes
      /\ Over(x, u) \/ (k + 1 = ByteOf(index) + 2 /\ Shift(index) = 1 /\ Nearly(x, u))
  BY <1>1, <1>3, <1>6, BytesKept
<1>8. /\ w \in Bytes
      /\ Over(y, w) \/ (k + 2 = ByteOf(index) + 2 /\ Shift(index) = 1 /\ Nearly(y, w))
  BY <1>1, <1>3, <1>6, BytesKept
<1>9. PICK m \in Nat : \/ Shift(index) # 1
                       \/ index = 4 * m /\ ByteOf(index) = 3 * m
  BY PlaceIs
<1>10. PICK n \in Nat :
         \/ j = 4 * n /\ k = 3 * n /\ s = 1
         \/ j = 4 * n + 1 /\ k = 3 * n /\ s = 64
         \/ j = 4 * n + 2 /\ k = 3 * n + 1 /\ s = 16
         \/ j = 4 * n + 3 /\ k = 3 * n + 2 /\ s = 4
  BY <1>1, PlaceIs
<1>11. Field(x, y, s) \in Nat /\ Field(u, w, s) \in Nat
  BY <1>2, <1>5, <1>7, <1>8, FieldType
<1>12. Lost(index, j) \in {0, 4}
  BY DEF Lost
<1>a. /\ x % 64 \in Nat /\ x \div 64 \in Nat /\ x \div 16 \in Nat /\ x \div 4 \in Nat
      /\ u % 64 \in Nat /\ u \div 64 \in Nat /\ u \div 16 \in Nat /\ u \div 4 \in Nat
      /\ y % 16 \in Nat /\ y % 4 \in Nat /\ w % 16 \in Nat /\ w % 4 \in Nat
  BY <1>5, <1>7, <1>8, Fields
<1>13. Field(u, w, s) + Lost(index, j) >= Field(x, y, s)
  <2>1. ASSUME j = 4 * n, k = 3 * n, s = 1 PROVE Field(u, w, s) >= Field(x, y, s)
    <3>1. ~(Shift(index) = 1 /\ k + 1 = ByteOf(index) + 2)
      BY ONLY <1>9, <2>1, n \in Nat, m \in Nat
    <3>2. Over(x, u)
      BY <1>7, <3>1
    <3>3. Field(x, y, 1) = x % 64 /\ Field(u, w, 1) = u % 64
      BY <1>5, <1>7, <1>8, FieldIs
    <3> QED
      BY ONLY <1>a, <2>1, <3>2, <3>3 DEF Over
  <2>2. ASSUME j = 4 * n + 1, k = 3 * n, s = 64 PROVE Field(u, w, s) >= Field(x, y, s)
    <3>1. ~(Shift(index) = 1 /\ k + 1 = ByteOf(index) + 2)
      BY ONLY <1>9, <2>2, n \in Nat, m \in Nat
    <3>2. x \div 64 <= u \div 64 /\ y % 16 <= w % 16
      BY <1>7, <1>8, <3>1 DEF Over, Nearly
    <3>3. Field(x, y, 64) = (x \div 64) + 4 * (y % 16) /\ Field(u, w, 64) = (u \div 64) + 4 * (w % 16)
      BY <1>5, <1>7, <1>8, FieldIs
    <3>4. (u \div 64) + 4 * (w % 16) >= (x \div 64) + 4 * (y % 16)
      <4>1. PICK x1, y1, u1, w1 : x1 = x \div 64 /\ y1 = y % 16 /\ u1 = u \div 64 /\ w1 = w % 16
        OBVIOUS
      <4>2. x1 \in Nat /\ y1 \in Nat /\ u1 \in Nat /\ w1 \in Nat /\ x1 <= u1 /\ y1 <= w1
        BY ONLY <1>a, <3>2, <4>1, Zenon
      <4>3. u1 + 4 * w1 >= x1 + 4 * y1
        BY ONLY <4>2
      <4> QED
        BY ONLY <4>1, <4>3
    <3> QED
      BY ONLY <2>2, <3>3, <3>4
  <2>3. ASSUME j = 4 * n + 2, k = 3 * n + 1, s = 16
        PROVE  Field(u, w, s) + Lost(index, j) >= Field(x, y, s)
    <3>1. ~(Shift(index) = 1 /\ k + 2 = ByteOf(index) + 2)
      BY ONLY <1>9, <2>3, n \in Nat, m \in Nat
    <3>2. y % 4 <= w % 4
      BY <1>8, <3>1 DEF Over
    <3>3. x \div 16 <= (u \div 16) + Lost(index, j)
      <4>1. CASE Over(x, u)
        BY <1>12, <1>a, <4>1 DEF Over
      <4>2. CASE k + 1 = ByteOf(index) + 2 /\ Shift(index) = 1 /\ Nearly(x, u)
        <5>1. j = index + 2
          BY ONLY <1>9, <2>3, <4>2, n \in Nat, m \in Nat
        <5>2. j % 4 = 2
          BY ONLY <2>3, n \in Nat
        <5>3. Lost(index, j) = 4
          BY ONLY <5>1, <5>2 DEF Lost
        <5> QED
          BY ONLY <4>2, <5>3 DEF Nearly
      <4> QED
        BY <1>7, <4>1, <4>2
    <3>4. Field(x, y, 16) = (x \div 16) + 16 * (y % 4) /\ Field(u, w, 16) = (u \div 16) + 16 * (w % 4)
      BY <1>5, <1>7, <1>8, FieldIs
    <3>5. PICK x1, y1, u1, w1, d : /\ x1 = x \div 16 /\ y1 = y % 4 /\ u1 = u \div 16 /\ w1 = w % 4
                                   /\ d = Lost(index, j)
      OBVIOUS
    <3>6. u1 + 16 * w1 + d >= x1 + 16 * y1
      <4>1. /\ x1 \in Nat /\ y1 \in Nat /\ u1 \in Nat /\ w1 \in Nat
            /\ x1 <= u1 + d /\ y1 <= w1 /\ d \in {0, 4}
        BY ONLY <1>12, <1>a, <3>2, <3>3, <3>5, Zenon
      <4> QED
        BY ONLY <4>1
    <3> QED
      BY ONLY <2>3, <3>4, <3>5, <3>6
  <2>4. ASSUME j = 4 * n + 3, k = 3 * n + 2, s = 4 PROVE Field(u, w, s) >= Field(x, y, s)
    <3>1. ~(Shift(index) = 1 /\ k + 1 = ByteOf(index) + 2)
      BY ONLY <1>9, <2>4, n \in Nat, m \in Nat
    <3>2. Over(x, u)
      BY <1>7, <3>1
    <3>3. Field(x, y, 4) = x \div 4 /\ Field(u, w, 4) = u \div 4
      BY <1>5, <1>7, <1>8, FieldIs
    <3> QED
      BY ONLY <1>a, <2>4, <3>2, <3>3 DEF Over
  <2>5. ASSUME Field(u, w, s) >= Field(x, y, s)
        PROVE  Field(u, w, s) + Lost(index, j) >= Field(x, y, s)
    BY ONLY <1>11, <1>12, <2>5
  <2> QED
    BY <1>10, <2>1, <2>2, <2>3, <2>4, <2>5
<1> QED
  BY ONLY <1>1, <1>4, <1>11, <1>13

-------------------------------------------------------------------------------
\* The conversion to the dense form.

\* There is room for every register.
LEMMA InBounds ==
  /\ DenseSize \in Nat
  /\ \A j \in Nat : j < Registers => ByteOf(j) + 2 <= DenseSize
<1>1. PICK n \in Nat : n = Registers /\ n >= 1
  BY HyperLogLogAssumption
<1>2. DenseSize = 16 + (n * 6 + 7) \div 8
  BY <1>1 DEF DenseSize, HLL_HDR_SIZE
<1>3. (n * 6 + 7) \div 8 \in Nat
  BY ONLY n \in Nat
<1>4. ASSUME NEW j \in Nat, j < n PROVE (j * 6) \div 8 + 2 <= 16 + (n * 6 + 7) \div 8
  BY ONLY n \in Nat, <1>4
<1> QED
  BY <1>1, <1>2, <1>3, <1>4 DEF ByteOf

\* The equations of a run of registers.
Fills(f, dense, first, len, value) ==
  f = [n \in 0 .. len |-> IF n = 0 THEN dense ELSE SetRegister(f[n - 1], first + n - 1, value)]

\* The recursive function of Filled exists.
LEMMA FilledExists ==
  ASSUME NEW dense \in Seq(Bytes), NEW first, NEW len \in Nat, NEW value
  PROVE  \E f : /\ Fills(f, dense, first, len, value)
                /\ Filled(dense, first, len, value) = f[len]
<1> DEFINE P == 0 .. len
           rank == [n \in P |-> n]
           go == [n \in P |-> n # 0]
           next == [n \in P |-> n - 1]
           step == [n \in P |-> [x \in Seq(Bytes) |-> SetRegister(x, first + n - 1, value)]]
           base == [n \in P |-> dense]
           v == CHOOSE f : Fills(f, dense, first, len, value)
<1>1. rank \in [P -> Nat] /\ base \in [P -> Seq(Bytes)]
  OBVIOUS
<1>2. step \in [P -> [Seq(Bytes) -> Seq(Bytes)]]
  BY SetType
<1>3. \A n \in P : go[n] => next[n] \in P /\ rank[next[n]] < rank[n]
  OBVIOUS
<1>4. Solvable(P, Seq(Bytes), go, next, step, base)
  <2> HIDE DEF P, rank, go, next, step, base
  <2> QED
    BY <1>1, <1>2, <1>3, RecursionExists
<1>5. PICK f \in [P -> Seq(Bytes)] :
        \A n \in P : f[n] = IF go[n] THEN step[n][f[next[n]]] ELSE base[n]
  BY <1>4 DEF Solvable
<1>6. \A n \in P : f[n] = IF n = 0 THEN dense ELSE SetRegister(f[n - 1], first + n - 1, value)
  <2>1. ASSUME NEW n \in P, n = 0 PROVE f[n] = dense
    BY <1>5, <2>1
  <2>2. ASSUME NEW n \in P, n # 0 PROVE f[n] = SetRegister(f[n - 1], first + n - 1, value)
    <3>0. n - 1 \in P
      BY <2>2
    <3>1. n - 1 \in P /\ go[n] /\ next[n] = n - 1
      <4> HIDE DEF P
      <4> QED
        BY <2>2, <3>0
    <3>2. f[n - 1] \in Seq(Bytes)
      BY <3>1
    <3>3. step[n][f[n - 1]] = SetRegister(f[n - 1], first + n - 1, value)
      BY <3>2
    <3> HIDE DEF P, go, next, step, base
    <3> QED
      BY <1>5, <3>1, <3>3
  <2> QED
    BY <2>1, <2>2
<1>7. Fills(f, dense, first, len, value)
  <2> HIDE DEF rank, go, next, step, base
  <2> QED
    BY <1>6 DEF Fills
<1>8. Fills(v, dense, first, len, value)
  BY <1>7
<1>9. Filled(dense, first, len, value) = v[len]
  BY DEF Filled, Fills
<1> QED
  <2> HIDE DEF v
  <2> QED
    BY <1>8, <1>9

FillsByOne(f, dense, first, len, value) ==
  /\ f[0] = dense
  /\ \A n \in Nat : n < len => f[n + 1] = SetRegister(f[n], first + n, value)

\* It sets one register after another.
LEMMA FillSteps ==
  ASSUME NEW f, NEW dense, NEW first, NEW len \in Nat, NEW value, Fills(f, dense, first, len, value)
  PROVE  FillsByOne(f, dense, first, len, value)
<1>1. f[0] = dense
  BY DEF Fills
<1>2. ASSUME NEW n \in Nat, n < len PROVE f[n + 1] = SetRegister(f[n], first + n, value)
  <2>1. n + 1 \in 0 .. len /\ n + 1 # 0 /\ (n + 1) - 1 = n
    BY <1>2
  <2>2. first + (n + 1) - 1 = first + n
    BY DEF Fills
  <2> QED
    BY <2>1, <2>2 DEF Fills
<1> QED
  BY <1>1, <1>2 DEF FillsByOne

\* Whatever is filled, there are as many bytes as before.
LEMMA FilledType ==
  ASSUME NEW dense \in Seq(Bytes), NEW first \in Nat, NEW len \in Nat, NEW value
  PROVE  /\ Filled(dense, first, len, value) \in Seq(Bytes)
         /\ Len(Filled(dense, first, len, value)) = Len(dense)
<1>1. PICK f : Fills(f, dense, first, len, value) /\ Filled(dense, first, len, value) = f[len]
  BY FilledExists
<1>2. /\ f[0] = dense
      /\ \A n \in Nat : n < len => f[n + 1] = SetRegister(f[n], first + n, value)
  <2>1. FillsByOne(f, dense, first, len, value)
    BY ONLY <1>1, len \in Nat, FillSteps
  <2> QED
    BY <2>1 DEF FillsByOne
<1> DEFINE S == {n \in Nat : n <= len => f[n] \in Seq(Bytes) /\ Len(f[n]) = Len(dense)}
<1>3. 0 \in S
  BY <1>2
<1>4. ASSUME NEW n \in Nat, n \in S PROVE n + 1 \in S
  <2> SUFFICES ASSUME n + 1 <= len PROVE f[n + 1] \in Seq(Bytes) /\ Len(f[n + 1]) = Len(dense)
    OBVIOUS
  <2>1. n < len /\ n <= len
    OBVIOUS
  <2>2. f[n] \in Seq(Bytes) /\ Len(f[n]) = Len(dense)
    BY <1>4, <2>1
  <2> QED
    BY <1>2, <2>1, <2>2, SetType
<1>5. Nat \subseteq S
  <2> HIDE DEF S
  <2> QED
    BY <1>3, <1>4, SetInduction
<1>6. len \in S
  BY <1>5
<1> QED
  BY <1>1, <1>6

\* A register is a number.
LEMMA GetType ==
  ASSUME NEW b \in Seq(Bytes), NEW j \in Nat, ByteOf(j) + 2 <= Len(b)
  PROVE  GetRegister(b, j) \in Nat
<1>1. ByteOf(j) \in Nat /\ Shift(j) \in {1, 64, 16, 4}
  BY PlaceIs
<1>2. PICK k, s : k = ByteOf(j) /\ s = Shift(j)
  OBVIOUS
<1>3. b[k + 1] \in Bytes /\ b[k + 2] \in Bytes
  BY <1>1, <1>2, BytesInSeq
<1>4. GetRegister(b, j) = Field(b[k + 1], b[k + 2], s)
  BY <1>1, <1>2, GetIs
<1>5. Field(b[k + 1], b[k + 2], s) \in Nat
  BY ONLY <1>1, <1>2, <1>3, FieldType
<1> QED
  BY <1>4, <1>5

\* A run of registers is set, and those before it are at least what they were.
FillsUpTo(d, dense, first, n, value) ==
  /\ d \in Seq(Bytes) /\ Len(d) = DenseSize
  /\ \A j \in Nat : j < first => GetRegister(d, j) >= GetRegister(dense, j)
  /\ \A j \in Nat : j >= first /\ j < first + n => GetRegister(d, j) >= value

\* One more register of a run.
LEMMA FillsOn ==
  ASSUME NEW dense \in Seq(Bytes), Len(dense) = DenseSize, NEW first \in Nat, NEW n \in Nat,
         first + n < Registers, NEW value \in 1 .. 32,
         NEW d, FillsUpTo(d, dense, first, n, value)
  PROVE  FillsUpTo(SetRegister(d, first + n, value), dense, first, n + 1, value)
<1>1. PICK i, c : i = first + n /\ c = SetRegister(d, i, value)
  OBVIOUS
<1>2. Registers \in Nat
  BY HyperLogLogAssumption
<1>3. d \in Seq(Bytes) /\ Len(d) = DenseSize /\ i \in Nat /\ i < Registers
  BY <1>1 DEF FillsUpTo
<1>4. c \in Seq(Bytes) /\ Len(c) = DenseSize
  BY <1>1, <1>3, SetType
<1>5. ByteOf(i) + 2 <= Len(d)
  BY <1>3, InBounds
<1>6. ASSUME NEW j \in Nat, j < i
      PROVE  GetRegister(d, j) \in Nat /\ GetRegister(c, j) \in Nat /\ GetRegister(c, j) >= GetRegister(d, j)
  <2>1. j < Registers
    BY <1>2, <1>3, <1>6
  <2>2. ByteOf(j) + 2 <= Len(d)
    BY <1>3, <2>1, InBounds
  <2>3. /\ GetRegister(d, j) \in Nat /\ GetRegister(c, j) \in Nat
        /\ GetRegister(c, j) + Lost(i, j) >= GetRegister(d, j)
    BY ONLY <1>1, <1>3, <1>5, <2>2, j \in Nat, SetKeeps
  <2>4. Lost(i, j) = 0
    <3>1. j # i + 2
      BY <1>3, <1>6
    <3> QED
      BY <3>1 DEF Lost
  <2> QED
    BY ONLY <2>3, <2>4
<1>7. GetRegister(c, i) >= value
  BY <1>1, <1>3, <1>5, SetIsGot
<1>8. ASSUME NEW j \in Nat, j < first PROVE GetRegister(c, j) >= GetRegister(dense, j)
  <2>1. j < i
    BY <1>1, <1>8
  <2>2. GetRegister(d, j) >= GetRegister(dense, j)
    BY <1>8 DEF FillsUpTo
  <2>3. j < Registers
    BY <1>2, <1>3, <2>1
  <2>4. ByteOf(j) + 2 <= Len(dense)
    BY <2>3, InBounds
  <2>5. GetRegister(dense, j) \in Nat
    BY <2>4, GetType
  <2>6. GetRegister(d, j) \in Nat /\ GetRegister(c, j) \in Nat /\ GetRegister(c, j) >= GetRegister(d, j)
    BY <1>6, <2>1
  <2> QED
    BY ONLY <2>2, <2>5, <2>6
<1>9. ASSUME NEW j \in Nat, j >= first, j < first + (n + 1) PROVE GetRegister(c, j) >= value
  <2>1. CASE j = i
    BY <1>7, <2>1
  <2>2. CASE j # i
    <3>1. j < i /\ j < first + n
      BY <1>1, <1>9, <2>2
    <3>2. GetRegister(d, j) >= value
      BY <1>9, <3>1 DEF FillsUpTo
    <3>3. GetRegister(d, j) \in Nat /\ GetRegister(c, j) \in Nat /\ GetRegister(c, j) >= GetRegister(d, j)
      BY <1>6, <3>1
    <3> QED
      BY ONLY <3>2, <3>3, value \in 1 .. 32
  <2> QED
    BY <2>1, <2>2
<1> QED
  BY <1>1, <1>4, <1>8, <1>9 DEF FillsUpTo

\* A run filled holds its value, and what was in front of it.
LEMMA FilledIs ==
  ASSUME NEW dense \in Seq(Bytes), Len(dense) = DenseSize, NEW first \in Nat, NEW len \in Nat,
         first + len <= Registers, NEW value \in 1 .. 32
  PROVE  FillsUpTo(Filled(dense, first, len, value), dense, first, len, value)
<1>1. PICK f : Fills(f, dense, first, len, value) /\ Filled(dense, first, len, value) = f[len]
  BY FilledExists
<1>2. /\ f[0] = dense
      /\ \A n \in Nat : n < len => f[n + 1] = SetRegister(f[n], first + n, value)
  <2>1. FillsByOne(f, dense, first, len, value)
    BY ONLY <1>1, len \in Nat, FillSteps
  <2> QED
    BY <2>1 DEF FillsByOne
<1> DEFINE S == {n \in Nat : n <= len => FillsUpTo(f[n], dense, first, n, value)}
<1>3. 0 \in S
  <2>1. \A j \in Nat : ~(j >= first /\ j < first + 0)
    OBVIOUS
  <2>2. FillsUpTo(dense, dense, first, 0, value)
    <3>1. \A j \in Nat : j < first => GetRegister(dense, j) >= GetRegister(dense, j)
      <4> SUFFICES ASSUME NEW j \in Nat, j < first
                   PROVE  GetRegister(dense, j) >= GetRegister(dense, j)
        OBVIOUS
      <4>1. j < Registers
        BY HyperLogLogAssumption
      <4>2. ByteOf(j) + 2 <= Len(dense)
        BY <4>1, InBounds
      <4>3. GetRegister(dense, j) \in Nat
        BY <4>2, GetType
      <4> QED
        BY <4>3
    <3> QED
      BY <2>1, <3>1 DEF FillsUpTo
  <2> QED
    BY <1>2, <2>2
<1>4. ASSUME NEW n \in Nat, n \in S PROVE n + 1 \in S
  <2> SUFFICES ASSUME n + 1 <= len PROVE FillsUpTo(f[n + 1], dense, first, n + 1, value)
    OBVIOUS
  <2>0. Registers \in Nat
    BY HyperLogLogAssumption
  <2>1. n < len /\ n <= len /\ first + n < Registers
    BY <2>0
  <2>2. FillsUpTo(f[n], dense, first, n, value)
    BY <1>4, <2>1
  <2>3. FillsUpTo(SetRegister(f[n], first + n, value), dense, first, n + 1, value)
    BY <2>1, <2>2, FillsOn
  <2> QED
    BY <1>2, <2>1, <2>3
<1>5. Nat \subseteq S
  <2> HIDE DEF S
  <2> QED
    BY <1>3, <1>4, SetInduction
<1>6. len \in S
  BY <1>5
<1> QED
  BY <1>1, <1>6

\* The walk of the conversion.
Ds(b) == [p : 0 .. Len(b) + 1, idx : Nat, dense : Seq(0 .. 255)]
Zero == [p |-> 0, idx |-> 0, dense |-> [i \in 1 .. DenseSize |-> 0]]
Ends(b, at) == at.p >= Len(b) \/ (IsVal(b, at.p) /\ at.idx + ValLen(b, at.p) > Registers)
Beyond(b, at) == [p |-> at.p + OpLen(b, at.p), idx |-> at.idx + Span(b, at.p),
                dense |-> IF IsVal(b, at.p)
                          THEN Filled(at.dense, at.idx, ValLen(b, at.p), ValValue(b, at.p))
                          ELSE at.dense]
Makes(w, b) == w = [at \in Ds(b) |-> IF Ends(b, at) THEN at ELSE w[Beyond(b, at)]]

\* The types of a place of the conversion.
LEMMA DsAre ==
  ASSUME NEW b \in Seq(Bytes), NEW at \in Ds(b)
  PROVE  /\ Len(b) \in Nat /\ at.p \in 0 .. Len(b) + 1 /\ at.p \in Nat /\ at.idx \in Nat
         /\ at.dense \in Seq(Bytes)
BY LenProperties DEF Ds, Bytes

\* The place behind another.
LEMMA NextIs ==
  ASSUME NEW b \in Seq(Bytes), NEW at \in Ds(b), ~Ends(b, at)
  PROVE  /\ Beyond(b, at) \in Ds(b)
         /\ Beyond(b, at).p = at.p + OpLen(b, at.p) /\ Beyond(b, at).idx = at.idx + Span(b, at.p)
         /\ Beyond(b, at).p > at.p /\ Beyond(b, at).idx >= at.idx /\ at.p < Len(b)
         /\ Beyond(b, at).dense = IF IsVal(b, at.p)
                                THEN Filled(at.dense, at.idx, ValLen(b, at.p), ValValue(b, at.p))
                                ELSE at.dense
<1>1. PICK n, p, f, d : n = Len(b) /\ p = at.p /\ f = at.idx /\ d = at.dense
  OBVIOUS
<1>2. n \in Nat /\ p \in 0 .. n + 1 /\ f \in Nat /\ d \in Seq(Bytes)
  BY <1>1, DsAre
<1>3. PICK s, l : s = Span(b, p) /\ l = OpLen(b, p)
  OBVIOUS
<1>4. p < n
  BY <1>1, <1>2 DEF Ends
<1>5. s \in Nat /\ s >= 1
  <2>1. Span(b, p) \in Spans
    BY <1>1, <1>2, <1>4, SpanIs
  <2> QED
    BY <1>3, <2>1 DEF Spans
<1>6. l \in {1, 2}
  BY <1>3, OpLenIs
<1>7. p + l \in 0 .. n + 1 /\ p + l > p /\ f + s \in Nat /\ f + s >= f
  BY ONLY <1>2, <1>4, <1>5, <1>6
<1>8. PICK e : e = IF IsVal(b, p) THEN Filled(d, f, ValLen(b, p), ValValue(b, p)) ELSE d
  OBVIOUS
<1>9. e \in Seq(Bytes)
  <2>1. ValLen(b, p) \in Nat
    <3>1. ValLen(b, p) \in 1 .. 4
      BY <1>1, <1>2, <1>4, ValOpIs
    <3> QED
      BY <3>1
  <2>2. Filled(d, f, ValLen(b, p), ValValue(b, p)) \in Seq(Bytes)
    BY <1>2, <2>1, FilledType
  <2> QED
    BY <1>2, <1>8, <2>2
<1>10. Beyond(b, at) = [p |-> p + l, idx |-> f + s, dense |-> e]
  BY <1>1, <1>3, <1>8 DEF Beyond
<1>11. [p |-> p + l, idx |-> f + s, dense |-> e] \in Ds(b)
  BY ONLY <1>1, <1>7, <1>9 DEF Ds, Bytes
<1> QED
  BY ONLY <1>1, <1>3, <1>4, <1>7, <1>8, <1>10, <1>11

\* The conversion ends, so Dense has a value.
LEMMA DenseIs ==
  ASSUME NEW b \in Seq(Bytes)
  PROVE  \E w : Makes(w, b) /\ Dense(b) = w[Zero]
<1> DEFINE rank == [at \in Ds(b) |-> Len(b) + 1 - at.p]
           go == [at \in Ds(b) |-> ~Ends(b, at)]
           next == [at \in Ds(b) |-> Beyond(b, at)]
           step == [at \in Ds(b) |-> [x \in Ds(b) |-> x]]
           base == [at \in Ds(b) |-> at]
           v == CHOOSE w : Makes(w, b)
<1>1. Len(b) \in Nat
  BY LenProperties
<1>2. \A at \in Ds(b) : at.p \in 0 .. Len(b) + 1
  BY DsAre
<1>3. rank \in [Ds(b) -> Nat]
  BY <1>1, <1>2
<1>4. base \in [Ds(b) -> Ds(b)] /\ step \in [Ds(b) -> [Ds(b) -> Ds(b)]]
  OBVIOUS
<1>5. ASSUME NEW at \in Ds(b), go[at] PROVE next[at] \in Ds(b) /\ rank[next[at]] < rank[at]
  <2>1. PICK x : x = Beyond(b, at)
    OBVIOUS
  <2>2. x \in Ds(b) /\ x.p > at.p
    BY <1>5, <2>1, NextIs
  <2>3. next[at] = x
    BY <2>1
  <2>4. rank[x] < rank[at]
    BY <1>1, <1>2, <2>2
  <2> QED
    <3> HIDE DEF rank, next
    <3> QED
      BY <2>2, <2>3, <2>4
<1>6. Solvable(Ds(b), Ds(b), go, next, step, base)
  <2> HIDE DEF rank, go, next, step, base
  <2> QED
    BY <1>3, <1>4, <1>5, RecursionExists
<1>7. PICK w \in [Ds(b) -> Ds(b)] :
        \A at \in Ds(b) : w[at] = IF go[at] THEN step[at][w[next[at]]] ELSE base[at]
  BY <1>6 DEF Solvable
<1>8. \A at \in Ds(b) : w[at] = IF Ends(b, at) THEN at ELSE w[Beyond(b, at)]
  <2>1. ASSUME NEW at \in Ds(b), Ends(b, at) PROVE w[at] = at
    <3>1. ~go[at] /\ base[at] = at
      BY <2>1
    <3> HIDE DEF go, base, step, next
    <3> QED
      BY <1>7, <3>1
  <2>2. ASSUME NEW at \in Ds(b), ~Ends(b, at) PROVE w[at] = w[Beyond(b, at)]
    <3>1. go[at] /\ next[at] = Beyond(b, at) /\ Beyond(b, at) \in Ds(b)
      BY <2>2, NextIs
    <3>2. w[Beyond(b, at)] \in Ds(b)
      BY <3>1
    <3>3. step[at][w[Beyond(b, at)]] = w[Beyond(b, at)]
      BY <3>2
    <3> HIDE DEF go, base, step, next
    <3> QED
      BY <1>7, <3>1, <3>3
  <2> QED
    BY <2>1, <2>2
<1>9. Makes(w, b)
  <2> HIDE DEF rank, go, next, step, base
  <2> QED
    BY <1>8 DEF Makes
<1>10. Makes(v, b)
  BY <1>9
<1>11. Dense(b) = v[Zero]
  BY DEF Dense, Makes, Ds, Ends, Beyond, Zero
<1> QED
  <2> HIDE DEF v
  <2> QED
    BY <1>10, <1>11

\* The conversion goes on until it ends.
LEMMA MakeSteps ==
  ASSUME NEW w, NEW b, Makes(w, b), NEW at \in Ds(b)
  PROVE  /\ Ends(b, at) => w[at] = at
         /\ ~Ends(b, at) => w[at] = w[Beyond(b, at)]
<1>1. w[at] = IF Ends(b, at) THEN at ELSE w[Beyond(b, at)]
  BY DEF Makes
<1> QED
  BY <1>1

\* What the sparse form reads at an opcode.
ValueOf(b, p) == IF IsVal(b, p) THEN ValValue(b, p) ELSE 0

\* The place of OpAt's walk that is this one of the conversion.
At(b, at) == [p |-> at.p, first |-> at.idx]
\* Every register from idx on has what the walk to it reads.
HoldsBehind(b, at, f) ==
  f.idx = Registers =>
    \A j \in Nat : j >= at.idx /\ j < Registers =>
      \A u : Walks(u, b, j) => GetRegister(f.dense, j) >= ValueOf(b, u[At(b, at)].p)
\* Every register before it keeps what it has.
HoldsBefore(at, f) ==
  \A j \in Nat : j < at.idx /\ j < Registers => GetRegister(f.dense, j) >= GetRegister(at.dense, j)

\* What the end f of a conversion from a place owes to it.
Converts(b, at, f) ==
  /\ f \in Ds(b) /\ f.dense \in Seq(Bytes) /\ Len(f.dense) = DenseSize /\ f.idx >= at.idx
  /\ HoldsBefore(at, f) /\ HoldsBehind(b, at, f)

\* A walk that has ended.
LEMMA EndConverts ==
  ASSUME NEW b \in Seq(Bytes), NEW at \in Ds(b), Len(at.dense) = DenseSize
  PROVE  Converts(b, at, at)
<1>1. at.idx \in Nat /\ at.dense \in Seq(Bytes)
  BY DsAre
<1>2. HoldsBefore(at, at)
  <2> SUFFICES ASSUME NEW j \in Nat, j < Registers
               PROVE  GetRegister(at.dense, j) >= GetRegister(at.dense, j)
    BY DEF HoldsBefore
  <2>1. ByteOf(j) + 2 <= Len(at.dense)
    BY InBounds
  <2>2. GetRegister(at.dense, j) \in Nat
    BY <1>1, <2>1, GetType
  <2> QED
    BY <2>2
<1>3. HoldsBehind(b, at, at)
  <2>1. ASSUME NEW j \in Nat, at.idx = Registers PROVE ~(j >= at.idx /\ j < Registers)
    BY <1>1, <2>1
  <2> QED
    BY <2>1 DEF HoldsBehind
<1>4. at.idx >= at.idx
  BY <1>1
<1> QED
  BY <1>1, <1>2, <1>3, <1>4 DEF Converts

\* A step of the walk.
LEMMA StepConverts ==
  ASSUME NEW b \in Seq(Bytes), NEW at \in Ds(b), Len(at.dense) = DenseSize, ~Ends(b, at)
  PROVE  /\ Len(Beyond(b, at).dense) = DenseSize
         /\ HoldsBefore(at, Beyond(b, at))
         /\ IsVal(b, at.p) => /\ Beyond(b, at).idx <= Registers
                              /\ \A j \in Nat : j >= at.idx /\ j < Beyond(b, at).idx =>
                                   GetRegister(Beyond(b, at).dense, j) >= ValValue(b, at.p)
<1>1. PICK n, p, f, d, t : n = Len(b) /\ p = at.p /\ f = at.idx /\ d = at.dense /\ t = Beyond(b, at)
  OBVIOUS
<1>2. n \in Nat /\ p \in Nat /\ f \in Nat /\ d \in Seq(Bytes) /\ Len(d) = DenseSize
  BY <1>1, DsAre
<1>3. p < n /\ t.idx = f + Span(b, p)
      /\ t.dense = IF IsVal(b, p) THEN Filled(d, f, ValLen(b, p), ValValue(b, p)) ELSE d
  BY <1>1, NextIs
<1>4. CASE IsVal(b, p)
  <2>1. PICK l, v, e : l = ValLen(b, p) /\ v = ValValue(b, p) /\ e = Filled(d, f, l, v)
    OBVIOUS
  <2>2. p \in 0 .. Len(b) - 1
    BY <1>1, <1>2, <1>3
  <2>3. l \in 1 .. 4 /\ v \in 1 .. 32 /\ Span(b, p) = l
    BY <1>4, <2>1, <2>2, ValOpIs
  <2>4. ~(f + l > Registers)
    BY <1>1, <1>4, <2>1 DEF Ends
  <2>5. l \in Nat /\ f + l <= Registers
    <3>1. Registers \in Nat
      BY HyperLogLogAssumption
    <3> QED
      BY ONLY <1>2, <2>3, <2>4, <3>1
  <2>6. FillsUpTo(e, d, f, l, v)
    BY ONLY <1>2, <2>1, <2>3, <2>5, FilledIs
  <2>7. t.idx = f + l /\ t.dense = e
    BY <1>3, <1>4, <2>1, <2>3
  <2>8. Len(e) = DenseSize
    BY <2>6 DEF FillsUpTo
  <2>9. HoldsBefore(at, t)
    BY <1>1, <2>6, <2>7 DEF HoldsBefore, FillsUpTo
  <2>10. \A j \in Nat : j >= f /\ j < t.idx => GetRegister(t.dense, j) >= v
    BY <2>6, <2>7 DEF FillsUpTo
  <2> QED
    BY ONLY <1>1, <2>1, <2>5, <2>7, <2>8, <2>9, <2>10
<1>5. CASE ~IsVal(b, p)
  <2>1. t.dense = d
    BY <1>3, <1>5
  <2>2. HoldsBefore(at, t)
    <3>1. HoldsBefore(at, at)
      BY EndConverts DEF Converts
    <3> QED
      BY <1>1, <2>1, <3>1 DEF HoldsBefore
  <2> QED
    BY ONLY <1>1, <1>2, <1>5, <2>1, <2>2
<1> QED
  BY <1>4, <1>5

\* At least what is at least.
LEMMA AtLeast ==
  ASSUME NEW x \in Nat, NEW y \in Nat, NEW z \in Nat, x >= y, y >= z
  PROVE  x >= z
OBVIOUS

\* What is read of an opcode is a number.
LEMMA ValueType ==
  ASSUME NEW b \in Seq(Bytes), NEW p \in 0 .. Len(b) - 1
  PROVE  ValueOf(b, p) \in Nat
<1>1. ValValue(b, p) \in 1 .. 32
  BY ValOpIs
<1>2. \A v \in 1 .. 32 : v \in Nat
  OBVIOUS
<1>3. ValValue(b, p) \in Nat
  BY ONLY <1>1, <1>2
<1> QED
  BY ONLY <1>3 DEF ValueOf

\* What the rest of the walk converts, the whole of it does.
LEMMA BehindConverts ==
  ASSUME NEW b \in Seq(Bytes), NEW at \in Ds(b), Len(at.dense) = DenseSize, ~Ends(b, at),
         NEW f, Converts(b, Beyond(b, at), f), Ends(b, Beyond(b, at)) => f = Beyond(b, at)
  PROVE  Converts(b, at, f)
<1>1. PICK t : t = Beyond(b, at)
  OBVIOUS
<1>2. /\ t \in Ds(b) /\ t.p = at.p + OpLen(b, at.p) /\ t.idx = at.idx + Span(b, at.p)
      /\ t.p > at.p /\ t.idx >= at.idx /\ at.p < Len(b)
  BY <1>1, NextIs
<1>3. /\ at.p \in Nat /\ at.idx \in Nat /\ at.dense \in Seq(Bytes) /\ Len(b) \in Nat
  BY DsAre
<1>4. t.p \in Nat /\ t.idx \in Nat /\ t.dense \in Seq(Bytes)
  BY <1>2, DsAre
<1>5. /\ Len(t.dense) = DenseSize /\ HoldsBefore(at, t)
      /\ IsVal(b, at.p) => \A j \in Nat : j >= at.idx /\ j < t.idx =>
                             GetRegister(t.dense, j) >= ValValue(b, at.p)
  BY <1>1, StepConverts
<1>6. /\ f \in Ds(b) /\ f.dense \in Seq(Bytes) /\ Len(f.dense) = DenseSize /\ f.idx >= t.idx
      /\ HoldsBefore(t, f) /\ HoldsBehind(b, t, f)
  BY <1>1 DEF Converts
<1>7. f.idx \in Nat
  BY <1>6, DsAre
<1>8. \A j \in Nat : j < Registers =>
        /\ GetRegister(f.dense, j) \in Nat /\ GetRegister(t.dense, j) \in Nat
        /\ GetRegister(at.dense, j) \in Nat
  <2> SUFFICES ASSUME NEW j \in Nat, j < Registers
               PROVE  /\ GetRegister(f.dense, j) \in Nat /\ GetRegister(t.dense, j) \in Nat
                      /\ GetRegister(at.dense, j) \in Nat
    OBVIOUS
  <2>1. ByteOf(j) + 2 <= DenseSize
    BY InBounds
  <2>2. GetRegister(f.dense, j) \in Nat
    BY <1>6, <2>1, GetType
  <2>3. GetRegister(t.dense, j) \in Nat
    BY <1>4, <1>5, <2>1, GetType
  <2>4. GetRegister(at.dense, j) \in Nat
    BY <1>3, <2>1, GetType
  <2> QED
    BY <2>2, <2>3, <2>4
<1>9. HoldsBefore(at, f)
  <2> SUFFICES ASSUME NEW j \in Nat, j < at.idx, j < Registers
               PROVE  GetRegister(f.dense, j) >= GetRegister(at.dense, j)
    BY DEF HoldsBefore
  <2>1. j < t.idx
    BY <1>2, <1>3, <1>4
  <2>2. GetRegister(f.dense, j) >= GetRegister(t.dense, j)
    BY <1>6, <2>1 DEF HoldsBefore
  <2>3. GetRegister(t.dense, j) >= GetRegister(at.dense, j)
    BY <1>5 DEF HoldsBefore
  <2> QED
    BY <1>8, <2>2, <2>3, AtLeast
<1>10. HoldsBehind(b, at, f)
  <2> SUFFICES ASSUME f.idx = Registers, NEW j \in Nat, j >= at.idx, j < Registers,
                      NEW u, Walks(u, b, j)
               PROVE  GetRegister(f.dense, j) >= ValueOf(b, u[At(b, at)].p)
    BY DEF HoldsBehind
  <2>1. PICK a, p, s : a = At(b, at) /\ p = at.p /\ s = Span(b, p)
    OBVIOUS
  <2>2. p \in 0 .. Len(b) - 1 /\ p \in Nat
    BY <1>2, <1>3, <2>1
  <2>3. a \in Ats(b) /\ a.p = p /\ a.first = at.idx
    <3>1. [p |-> p, first |-> at.idx] \in Ats(b)
      BY <1>3, <2>2 DEF Ats
    <3> QED
      BY <2>1, <3>1 DEF At
  <2>4. s \in Nat /\ t.idx = at.idx + s
    <3>1. Span(b, p) \in Spans
      BY <2>2, SpanIs
    <3> QED
      BY <1>2, <2>1, <3>1 DEF Spans
  <2>5. CASE j < t.idx
    <3>1. j <= a.first + s - 1
      BY ONLY <1>3, <2>3, <2>4, <2>5, j \in Nat
    <3>2. Stops(b, j, a)
      BY <2>1, <2>3, <3>1 DEF Stops
    <3>3. u[a] = a
      BY <2>3, <3>2, WalkSteps
    <3>4. CASE IsVal(b, p)
      <4>1. GetRegister(t.dense, j) >= ValValue(b, p)
        BY <1>5, <2>1, <2>5, <3>4
      <4>2. GetRegister(f.dense, j) >= GetRegister(t.dense, j)
        BY <1>6, <2>5 DEF HoldsBefore
      <4>3. ValueOf(b, p) = ValValue(b, p) /\ ValueOf(b, p) \in Nat
        BY <2>2, <3>4, ValueType DEF ValueOf
      <4>4. GetRegister(f.dense, j) >= ValueOf(b, p)
        BY <1>8, <4>1, <4>2, <4>3, AtLeast
      <4> QED
        BY <2>1, <2>3, <3>3, <4>4
    <3>5. CASE ~IsVal(b, p)
      <4>1. ValueOf(b, p) = 0
        BY <3>5 DEF ValueOf
      <4>2. GetRegister(f.dense, j) >= 0
        BY <1>8
      <4> QED
        BY <2>1, <2>3, <3>3, <4>1, <4>2
    <3> QED
      BY <3>4, <3>5
  <2>6. CASE ~(j < t.idx)
    <3>1. j >= t.idx
      BY <1>4, <2>6
    <3>2. ~Ends(b, t)
      <4>1. ASSUME Ends(b, t) PROVE FALSE
        <5>1. f = t
          BY <1>1, <4>1
        <5>2. t.idx = Registers
          BY <5>1
        <5> QED
          BY <1>4, <3>1, <5>2
      <4> QED
        BY <4>1
    <3>3. ~(t.p >= Len(b))
      BY <3>2 DEF Ends
    <3>4. ~Stops(b, j, a)
      <4>1. ~(j <= a.first + s - 1)
        BY ONLY <1>3, <2>3, <2>4, <3>1, j \in Nat
      <4>2. ~(a.p + OpLen(b, a.p) >= Len(b))
        BY <1>2, <2>1, <2>3, <3>3
      <4> QED
        BY <2>1, <2>3, <4>1, <4>2 DEF Stops
    <3>5. Behind(b, a) = At(b, t)
      BY <1>2, <2>1, <2>3 DEF Behind, At
    <3>6. u[a] = u[At(b, t)]
      BY <2>3, <3>4, <3>5, WalkSteps
    <3>7. GetRegister(f.dense, j) >= ValueOf(b, u[At(b, t)].p)
      BY <1>6, <3>1 DEF HoldsBehind
    <3> QED
      BY <2>1, <3>6, <3>7
  <2> QED
    BY <2>5, <2>6
<1>11. f.idx >= at.idx
  BY <1>2, <1>3, <1>4, <1>6, <1>7
<1> QED
  BY <1>6, <1>9, <1>10, <1>11 DEF Converts

\* From every place, by the bytes that are left.
LEMMA WalkConverts ==
  ASSUME NEW b \in Seq(Bytes), NEW w, Makes(w, b)
  PROVE  \A at \in Ds(b) : Len(at.dense) = DenseSize => Converts(b, at, w[at])
<1> DEFINE rank == [at \in Ds(b) |-> Len(b) + 1 - at.p]
           Good == {at \in Ds(b) : Len(at.dense) = DenseSize => Converts(b, at, w[at])}
<1>1. \A at \in Ds(b) : Len(b) \in Nat /\ at.p \in 0 .. Len(b) + 1
  BY DsAre
<1>2. rank \in [Ds(b) -> Nat]
  BY <1>1
<1>3. ASSUME NEW at \in Ds(b), \A q \in Ds(b) : rank[q] < rank[at] => q \in Good
      PROVE  at \in Good
  <2> SUFFICES ASSUME Len(at.dense) = DenseSize PROVE Converts(b, at, w[at])
    OBVIOUS
  <2>1. CASE Ends(b, at)
    <3>1. w[at] = at
      BY <2>1, MakeSteps
    <3> QED
      BY <3>1, EndConverts
  <2>2. CASE ~Ends(b, at)
    <3>1. PICK t : t = Beyond(b, at)
      OBVIOUS
    <3>2. t \in Ds(b) /\ t.p > at.p
      BY <2>2, <3>1, NextIs
    <3>3. w[at] = w[t]
      BY <2>2, <3>1, MakeSteps
    <3>4. rank[t] < rank[at]
      BY <1>1, <3>2
    <3>5. Len(t.dense) = DenseSize
      BY <2>2, <3>1, StepConverts
    <3>6. Converts(b, t, w[t])
      BY <1>3, <3>2, <3>4, <3>5
    <3>7. Ends(b, t) => w[t] = t
      BY <3>2, MakeSteps
    <3>8. Converts(b, at, w[t])
      BY <2>2, <3>1, <3>6, <3>7, BehindConverts
    <3> QED
      BY <3>3, <3>8
  <2> QED
    BY <2>1, <2>2
<1>4. Ds(b) \subseteq Good
  <2>1. PICK P, S, k : P = Ds(b) /\ S = Good /\ k = rank
    OBVIOUS
  <2> HIDE DEF Good, rank
  <2>2. k \in [P -> Nat] /\ \A p \in P : (\A q \in P : k[q] < k[p] => q \in S) => p \in S
    BY ONLY <1>2, <1>3, <2>1
  <2>3. P \subseteq S
    BY ONLY <2>2, RankInduction
  <2> QED
    BY ONLY <2>1, <2>3
<1> QED
  BY <1>4

\* What hllSparseToDense makes of a sparse form, if it is all the registers, has
\* every register at least as the sparse one has it.
LEMMA DenseHolds ==
  ASSUME NEW b \in Seq(Bytes), Dense(b).idx = Registers
  PROVE  /\ Dense(b).dense \in Seq(Bytes) /\ Len(Dense(b).dense) = DenseSize
         /\ \A j \in Nat : j < Registers =>
              GetRegister(Dense(b).dense, j) >= ValueOf(b, OpAt(b, j).p)
<1>1. PICK w : Makes(w, b) /\ Dense(b) = w[Zero]
  BY DenseIs
<1>2. PICK f : f = w[Zero]
  OBVIOUS
<1>3. PICK zeros : zeros = [i \in 1 .. DenseSize |-> 0]
  OBVIOUS
<1>4. zeros \in Seq(Bytes) /\ Len(zeros) = DenseSize
  <2>1. 0 \in Bytes
    BY BytesAre
  <2>2. DenseSize \in Nat
    BY InBounds
  <2>3. PICK n \in Nat : n = DenseSize
    BY <2>2
  <2>4. zeros \in [1 .. n -> Bytes]
    BY ONLY <1>3, <2>1, <2>3
  <2> QED
    BY ONLY <2>3, <2>4
<1>5. Zero \in Ds(b) /\ Zero.dense = zeros /\ Zero.idx = 0 /\ Zero.p = 0
  <2>1. Len(b) \in Nat
    BY LenProperties
  <2> QED
    BY <1>3, <1>4, <2>1 DEF Zero, Ds, Bytes
<1>6. Converts(b, Zero, f)
  BY <1>1, <1>2, <1>4, <1>5, WalkConverts
<1>7. ASSUME NEW j \in Nat, j < Registers
      PROVE  GetRegister(f.dense, j) >= ValueOf(b, OpAt(b, j).p)
  <2>1. PICK u : Walks(u, b, j) /\ OpAt(b, j) = u[Start]
    BY OpAtIs
  <2>2. At(b, Zero) = Start
    BY <1>5 DEF At, Start
  <2>3. f.idx = Registers /\ j >= Zero.idx
    BY <1>1, <1>2, <1>5
  <2> QED
    BY <1>6, <1>7, <2>1, <2>2, <2>3 DEF Converts, HoldsBehind
<1> QED
  BY <1>1, <1>2, <1>6, <1>7 DEF Converts

-------------------------------------------------------------------------------
\* The operations.

\* The assumption, in the parts the steps use.
LEMMA ConstantsAre ==
  /\ Registers \in Nat /\ Registers >= 1
  /\ \A index \in Indices : index \in Nat /\ index < Registers
  /\ \A count \in Counts : count \in 1 .. 32 /\ count \in Nat
<1>1. Registers \in Nat /\ Registers >= 1
  BY HyperLogLogAssumption
<1>2. \A index \in Indices : index \in Nat /\ index < Registers
  BY <1>1, HyperLogLogAssumption
<1>3. \A count \in Counts : count \in 1 .. 32 /\ count \in Nat
  BY HyperLogLogAssumption
<1> QED
  BY <1>1, <1>2, <1>3

\* The bytes are enough for every register.
HasRoom(b) == \A j \in Nat : j < Registers => ByteOf(j) + 2 <= Len(b)

\* They are if they are enough for the last, as those of a new dense form are.
LEMMA RoomIs ==
  ASSUME NEW b \in Seq(Bytes)
  PROVE  /\ HasRoom(b) <=> Len(b) >= ByteOf(Registers - 1) + 2
         /\ Len(b) = DenseSize => HasRoom(b)
<1>1. PICK n, m : n = Registers /\ m = Len(b)
  OBVIOUS
<1>2. n \in Nat /\ n >= 1 /\ m \in Nat
  BY <1>1, ConstantsAre, LenProperties
<1>3. n - 1 \in Nat /\ n - 1 < n
  BY ONLY <1>2
<1>4. ASSUME HasRoom(b) PROVE m >= ByteOf(n - 1) + 2
  <2>1. ByteOf(n - 1) + 2 <= m /\ ByteOf(n - 1) \in Nat
    BY <1>1, <1>3, <1>4, PlaceIs DEF HasRoom
  <2> QED
    BY ONLY <2>1, <1>2
<1>5. ASSUME m >= ByteOf(n - 1) + 2, NEW j \in Nat, j < n PROVE ByteOf(j) + 2 <= m
  <2>1. (j * 6) \div 8 <= ((n - 1) * 6) \div 8 /\ (j * 6) \div 8 \in Nat /\ ((n - 1) * 6) \div 8 \in Nat
    BY ONLY <1>2, <1>3, <1>5
  <2>2. PICK g, h : g = ByteOf(j) /\ h = ByteOf(n - 1)
    OBVIOUS
  <2>3. g \in Nat /\ h \in Nat /\ g <= h /\ m >= h + 2
    BY <1>5, <2>1, <2>2 DEF ByteOf
  <2>4. g + 2 <= m
    BY ONLY <1>2, <2>3
  <2> QED
    BY <2>2, <2>4
<1>6. Len(b) = DenseSize => HasRoom(b)
  BY InBounds DEF HasRoom
<1>7. HasRoom(b) <=> m >= ByteOf(n - 1) + 2
  BY <1>1, <1>4, <1>5 DEF HasRoom
<1> QED
  BY <1>1, <1>6, <1>7

\* TypeOK, with the room of the dense form for all registers.
LEMMA TypeIs ==
  ASSUME TypeOK
  PROVE  /\ registers \in Seq(Bytes) /\ Len(registers) \in Nat
         /\ encoding = "sparse" => Len(registers) >= 1
         /\ encoding = "dense" => HasRoom(registers)
<1>1. registers \in Seq(Bytes)
  BY DEF TypeOK, Bytes
<1>2. Len(registers) \in Nat
  BY <1>1, LenProperties
<1>3. encoding = "dense" => HasRoom(registers)
  BY <1>1, RoomIs DEF TypeOK
<1> QED
  BY <1>1, <1>2, <1>3 DEF TypeOK

\* What the next state has to be to be typed.
LEMMA TypeBecomes ==
  ASSUME encoding' \in {"sparse", "dense", "undefined"}, registers' \in Seq(Bytes),
         last' \in {None} \cup [index : Indices, count : Counts],
         encoding' = "sparse" => Len(registers') >= 1,
         encoding' = "dense" => HasRoom(registers')
  PROVE  TypeOK'
<1>1. encoding' = "dense" => Len(registers') >= ByteOf(Registers - 1) + 2
  BY RoomIs
<1> QED
  BY <1>1 DEF TypeOK, Bytes

\* What a step may say of what it has set.
Got == last' # None => InsideVal(last'.index) \/ (ReadAt(last.index) >= last.count)'

\* A step that leaves nothing to read.
LEMMA NothingToRead ==
  ASSUME last' = None
  PROVE  Got /\ last' \in {None} \cup [index : Indices, count : Counts]
BY DEF Got

\* A call for the sparse form.
LEMMA SparseStep ==
  ASSUME TypeOK, NEW index \in Indices, NEW count \in Counts, encoding = "sparse",
         HllSparseSet(index, count)
  PROVE  TypeOK' /\ Got /\ encoding' # "dense"
<1>1. PICK op : op = OpAt(registers, index)
  OBVIOUS
<1>2. registers \in Seq(Bytes) /\ Len(registers) \in Nat /\ Len(registers) >= 1
  BY TypeIs
<1>3. index \in Nat /\ count \in 1 .. 32
  BY ConstantsAre
<1>4. CASE Outside(registers, op.p)
  <2>1. encoding' = "undefined" /\ last' = None /\ registers' = registers
    BY <1>1, <1>4 DEF HllSparseSet
  <2>2. TypeOK'
    BY <1>2, <2>1, NothingToRead, TypeBecomes
  <2> QED
    BY <2>1, <2>2, NothingToRead
<1>5. CASE /\ ~Outside(registers, op.p)
           /\ last' = None /\ UNCHANGED <<encoding, registers>>
  <2>1. encoding' = "sparse" /\ last' = None /\ registers' = registers
    BY <1>5
  <2>2. TypeOK'
    BY <1>2, <2>1, NothingToRead, TypeBecomes
  <2> QED
    BY <2>1, <2>2, NothingToRead
<1>6. CASE /\ ~Outside(registers, op.p) /\ index <= op.first + Span(registers, op.p) - 1
           /\ registers' = SetAt(registers, op, index, count)
           /\ last' = [index |-> index, count |-> count] /\ UNCHANGED encoding
  <2>1. /\ encoding' = "sparse" /\ registers' = SetAt(registers, op, index, count)
        /\ last' = [index |-> index, count |-> count]
    BY <1>6
  <2>2. PICK r : r = SetAt(registers, op, index, count)
    OBVIOUS
  <2>3. r \in Seq(Bytes) /\ Len(r) >= 1 /\ (Sure(op, index) => Reads(r, index, count))
    BY <1>1, <1>2, <1>3, <1>6, <2>2, SparseSetIsRead
  <2>4. last' \in {None} \cup [index : Indices, count : Counts]
    BY <2>1
  <2>5. TypeOK'
    BY <2>1, <2>2, <2>3, <2>4, TypeBecomes
  <2>6. last'.index = index /\ last'.count = count
    BY <2>1
  <2>7. CASE Sure(op, index)
    <3>1. IsVal(registers', OpAt(registers', index).p)
                /\ ValValue(registers', OpAt(registers', index).p) = count
      BY <2>1, <2>2, <2>3, <2>7 DEF Reads
    <3>2. ReadAt(last.index)' = count
      BY <2>1, <2>6, <3>1 DEF ReadAt
    <3>3. count >= count
      BY <1>3
    <3>4. (ReadAt(last.index) >= last.count)'
      BY <2>6, <3>2, <3>3
    <3> QED
      BY <2>1, <2>5, <3>4 DEF Got
  <2>8. CASE ~Sure(op, index)
    <3>1. InsideVal(last'.index)
      BY <1>1, <2>6, <2>8 DEF InsideVal, Sure
    <3> QED
      BY <2>1, <2>5, <3>1 DEF Got
  <2> QED
    BY <2>7, <2>8
<1> QED
  BY <1>1, <1>4, <1>5, <1>6 DEF HllSparseSet

\* No register is lowered by more than the bit of hllDenseSetRegister's mask.
Kept == \A i \in 0 .. Registers - 1 : ReadAt(i)' >= ReadAt(i) - (IF i % 4 = 2 THEN 4 ELSE 0)

\* The registers of c are those of values, but for the mask.
AlmostHolds(c, value) ==
  \A j \in Nat : j < Registers =>
    GetRegister(c, j) \in Nat /\ value[j] \in Nat
    /\ GetRegister(c, j) >= value[j] - (IF j % 4 = 2 THEN 4 ELSE 0)

\* The two say the same of a step.
LEMMA AlmostIsKept ==
  ASSUME NEW value, encoding' = "dense", AlmostHolds(registers', value),
         \A j \in 0 .. Registers - 1 : value[j] = ReadAt(j)
  PROVE  Kept
<1> SUFFICES ASSUME NEW i \in 0 .. Registers - 1
             PROVE  ReadAt(i)' >= ReadAt(i) - (IF i % 4 = 2 THEN 4 ELSE 0)
  BY DEF Kept
<1>1. i \in Nat /\ i < Registers
  BY ConstantsAre
<1>2. GetRegister(registers', i) >= value[i] - (IF i % 4 = 2 THEN 4 ELSE 0)
  BY <1>1 DEF AlmostHolds
<1>3. ReadAt(i)' = GetRegister(registers', i)
  BY DEF ReadAt
<1> QED
  BY <1>2, <1>3

\* One set in the dense form.
LEMMA SetAlmostHolds ==
  ASSUME NEW b \in Seq(Bytes), HasRoom(b), NEW index \in Nat, index < Registers,
         NEW count \in 1 .. 32, NEW value,
         \A j \in Nat : j < Registers => value[j] \in Nat /\ GetRegister(b, j) >= value[j]
  PROVE  /\ AlmostHolds(b, value) /\ AlmostHolds(SetRegister(b, index, count), value)
         /\ SetRegister(b, index, count) \in Seq(Bytes)
         /\ HasRoom(SetRegister(b, index, count))
         /\ GetRegister(SetRegister(b, index, count), index) >= count
<1>1. PICK c : c = SetRegister(b, index, count)
  OBVIOUS
<1>2. c \in Seq(Bytes) /\ Len(c) = Len(b)
  BY <1>1, SetType
<1>3. \A j \in Nat : j < Registers => ByteOf(j) + 2 <= Len(b)
  BY DEF HasRoom
<1>8. HasRoom(c)
  BY <1>2, <1>3 DEF HasRoom
<1>4. GetRegister(c, index) >= count
  BY <1>1, <1>3, SetIsGot
<1>5. ASSUME NEW j \in Nat, j < Registers
      PROVE  /\ GetRegister(c, j) \in Nat /\ GetRegister(b, j) \in Nat
             /\ GetRegister(c, j) + Lost(index, j) >= GetRegister(b, j)
  <2>1. ByteOf(index) + 2 <= Len(b) /\ ByteOf(j) + 2 <= Len(b)
    BY <1>3, <1>5
  <2> QED
    BY <1>1, <2>1, SetKeeps
<1>6. ASSUME NEW j \in Nat, j < Registers
      PROVE  /\ GetRegister(c, j) >= value[j] - (IF j % 4 = 2 THEN 4 ELSE 0)
             /\ GetRegister(b, j) >= value[j] - (IF j % 4 = 2 THEN 4 ELSE 0)
  <2>1. PICK g, h, v, d, e : /\ g = GetRegister(b, j) /\ h = GetRegister(c, j) /\ v = value[j]
                             /\ d = Lost(index, j) /\ e = IF j % 4 = 2 THEN 4 ELSE 0
    OBVIOUS
  <2>2. g \in Nat /\ h \in Nat /\ v \in Nat /\ g >= v /\ h + d >= g
    BY <1>5, <1>6, <2>1
  <2>3. (d = 0 \/ d = 4) /\ (e = 0 \/ e = 4) /\ (d = 4 => e = 4)
    BY <2>1 DEF Lost
  <2>4. h >= v - e /\ g >= v - e
    BY ONLY <2>2, <2>3
  <2> QED
    BY ONLY <2>1, <2>4
<1>7. AlmostHolds(b, value) /\ AlmostHolds(c, value)
  BY <1>5, <1>6 DEF AlmostHolds
<1> QED
  BY <1>1, <1>2, <1>4, <1>7, <1>8

\* What is read of each register.
Values == [j \in 0 .. Registers - 1 |-> ReadAt(j)]

\* A call for the dense form.
LEMMA DenseStep ==
  ASSUME TypeOK, NEW index \in Indices, NEW count \in Counts, encoding = "dense",
         HllDenseSet(index, count)
  PROVE  TypeOK' /\ Got /\ (encoding' = "dense" => Kept)
<1>1. registers \in Seq(Bytes) /\ HasRoom(registers)
  BY TypeIs
<1>2. index \in Nat /\ index < Registers /\ count \in 1 .. 32 /\ Registers \in Nat
  BY ConstantsAre
<1>3. PICK value : value = Values
  OBVIOUS
<1>4. \A j \in 0 .. Registers - 1 : value[j] = ReadAt(j)
  BY <1>3 DEF Values
<1>5. \A j \in Nat : j < Registers => value[j] \in Nat /\ GetRegister(registers, j) >= value[j]
  <2> SUFFICES ASSUME NEW j \in Nat, j < Registers
               PROVE  value[j] \in Nat /\ GetRegister(registers, j) >= value[j]
    OBVIOUS
  <2>1. j \in 0 .. Registers - 1
    BY <1>2
  <2>2. value[j] = GetRegister(registers, j)
    BY <1>4, <2>1 DEF ReadAt
  <2>3. ByteOf(j) + 2 <= Len(registers)
    BY <1>1 DEF HasRoom
  <2>4. GetRegister(registers, j) \in Nat
    BY <1>1, <2>3, GetType
  <2> QED
    BY ONLY <2>2, <2>4
<1>6. PICK c : c = SetRegister(registers, index, count)
  OBVIOUS
<1>7. /\ AlmostHolds(registers, value) /\ AlmostHolds(c, value)
      /\ c \in Seq(Bytes) /\ HasRoom(c) /\ GetRegister(c, index) >= count
  BY <1>1, <1>2, <1>5, <1>6, SetAlmostHolds
<1>8. CASE ByteOf(index) + 2 > Len(registers)
  <2>1. encoding' = "undefined" /\ last' = None /\ registers' = registers
    BY <1>8 DEF HllDenseSet
  <2>2. TypeOK'
    BY <1>1, <2>1, NothingToRead, TypeBecomes
  <2> QED
    BY <2>1, <2>2, NothingToRead
<1>9. CASE ~(ByteOf(index) + 2 > Len(registers)) /\ count > GetRegister(registers, index)
  <2>1. /\ encoding' = "dense" /\ registers' = c
        /\ last' = [index |-> index, count |-> count]
    BY <1>6, <1>9 DEF HllDenseSet
  <2>2. TypeOK'
    <3>1. last' \in {None} \cup [index : Indices, count : Counts]
      BY <2>1
    <3> QED
      BY <1>7, <2>1, <3>1, TypeBecomes
  <2>3. Got
    <3>1. last'.index = index /\ last'.count = count
      BY <2>1
    <3>2. ReadAt(last.index)' = GetRegister(c, index)
      BY <2>1, <3>1 DEF ReadAt
    <3>3. (ReadAt(last.index) >= last.count)'
      BY <1>7, <3>1, <3>2
    <3> QED
      BY <3>3 DEF Got
  <2>4. Kept
    BY <1>4, <1>7, <2>1, AlmostIsKept
  <2> QED
    BY <2>2, <2>3, <2>4
<1>10. CASE ~(ByteOf(index) + 2 > Len(registers)) /\ ~(count > GetRegister(registers, index))
  <2>1. encoding' = "dense" /\ registers' = registers /\ last' = None
    BY <1>10 DEF HllDenseSet
  <2>2. TypeOK'
    BY <1>1, <2>1, NothingToRead, TypeBecomes
  <2>3. Kept
    BY <1>4, <1>7, <2>1, AlmostIsKept
  <2> QED
    BY <2>1, <2>2, <2>3, NothingToRead
<1> QED
  BY <1>8, <1>9, <1>10

\* What KeepsCounts speaks of: the dense form, and a conversion that ends in it.
Converted == encoding = "dense" \/ Dense(registers).idx = Registers

\* A merge.
LEMMA MergeStep ==
  ASSUME TypeOK, NEW index \in Indices, NEW count \in Counts, HllMerge(index, count)
  PROVE  TypeOK' /\ Got /\ (encoding' = "dense" /\ Converted => Kept)
<1>1. PICK dense : dense = Dense(registers)
  OBVIOUS
<1>2. PICK b : b = IF encoding = "dense" THEN registers
                   ELSE IF dense.idx = Registers THEN dense.dense ELSE registers
  OBVIOUS
<1>3. /\ encoding # "undefined" /\ last' = None
      /\ IF ByteOf(Registers - 1) + 2 > Len(b)
         THEN encoding' = "undefined" /\ registers' = registers
         ELSE encoding' = "dense" /\ registers' = Merged(b, index, count)
  BY <1>1, <1>2 DEF HllMerge
<1>4. encoding = "sparse" \/ encoding = "dense"
  BY <1>3 DEF TypeOK
<1>5. /\ registers \in Seq(Bytes) /\ Len(registers) \in Nat
      /\ encoding = "sparse" => Len(registers) >= 1
      /\ encoding = "dense" => HasRoom(registers)
  BY TypeIs
<1>6. /\ index \in Nat /\ index < Registers /\ count \in 1 .. 32 /\ Registers \in Nat
      /\ Registers >= 1
  BY ConstantsAre
<1>7. CASE ByteOf(Registers - 1) + 2 > Len(b)
  <2>1. encoding' = "undefined" /\ registers' = registers /\ last' = None
    BY <1>3, <1>7
  <2>2. TypeOK'
    BY <1>5, <2>1, NothingToRead, TypeBecomes
  <2> QED
    BY <2>1, <2>2, NothingToRead
<1>8. CASE ~(ByteOf(Registers - 1) + 2 > Len(b))
  <2>1. encoding' = "dense" /\ registers' = Merged(b, index, count) /\ last' = None
    BY <1>3, <1>8
  <2>2. b \in Seq(Bytes) /\ HasRoom(b)
    <3>1. b \in Seq(Bytes)
      <4>1. CASE b = registers
        BY <1>5, <4>1
      <4>2. CASE dense.idx = Registers /\ b = dense.dense
        BY <1>1, <1>5, <4>2, DenseHolds
      <4> QED
        BY <1>2, <4>1, <4>2
    <3>2. PICK n, m : n = Len(b) /\ m = ByteOf(Registers - 1)
      OBVIOUS
    <3>3. n \in Nat /\ m \in Nat /\ ~(m + 2 > n)
      <4>1. Registers - 1 \in Nat
        BY <1>6
      <4> QED
        BY <1>8, <3>1, <3>2, <4>1, LenProperties, PlaceIs
    <3>4. n >= m + 2
      BY ONLY <3>3
    <3> QED
      BY <3>1, <3>2, <3>4, RoomIs
  <2>3. PICK c : c = SetRegister(b, index, count)
    OBVIOUS
  <2>4. registers' = b \/ registers' = c
    BY <2>1, <2>3 DEF Merged
  <2>5. registers' \in Seq(Bytes) /\ HasRoom(registers')
    <3>1. c \in Seq(Bytes) /\ Len(c) = Len(b)
      BY <2>2, <2>3, SetType
    <3>2. HasRoom(c)
      BY <2>2, <3>1 DEF HasRoom
    <3> QED
      BY <2>2, <2>4, <3>1, <3>2
  <2>6. TypeOK'
    BY <2>1, <2>5, NothingToRead, TypeBecomes
  <2>7. ASSUME Converted PROVE Kept
    <3>1. PICK value : value = Values
      OBVIOUS
    <3>2. \A j \in 0 .. Registers - 1 : value[j] = ReadAt(j)
      BY <3>1 DEF Values
    <3>3. \A j \in Nat : j < Registers => value[j] \in Nat /\ GetRegister(b, j) >= value[j]
      <4>1. CASE encoding = "dense"
        <5>1. b = registers
          BY <1>2, <4>1
        <5>2. ASSUME NEW j \in Nat, j < Registers
              PROVE  value[j] \in Nat /\ GetRegister(b, j) >= value[j]
          <6>1. j \in 0 .. Registers - 1
            BY <1>6, <5>2
          <6>2. value[j] = GetRegister(b, j)
            BY <3>2, <4>1, <5>1, <6>1 DEF ReadAt
          <6>3. ByteOf(j) + 2 <= Len(b)
            BY <2>2, <5>2 DEF HasRoom
          <6>4. GetRegister(b, j) \in Nat
            BY <2>2, <6>3, GetType
          <6> QED
            BY ONLY <6>2, <6>4
        <5> QED
          BY <5>2
      <4>2. CASE encoding = "sparse" /\ dense.idx = Registers
        <5>1. b = dense.dense
          BY <1>2, <4>2
        <5>2. \A j \in Nat : j < Registers =>
                GetRegister(b, j) >= ValueOf(registers, OpAt(registers, j).p)
          BY <1>1, <1>5, <4>2, <5>1, DenseHolds
        <5>3. ASSUME NEW j \in Nat, j < Registers
              PROVE  value[j] \in Nat /\ GetRegister(b, j) >= value[j]
          <6>1. j \in 0 .. Registers - 1
            BY <1>6, <5>3
          <6>2. PICK p : p = OpAt(registers, j).p
            OBVIOUS
          <6>3. value[j] = ValueOf(registers, p)
            BY <3>2, <4>2, <6>1, <6>2 DEF ReadAt, ValueOf
          <6>4. p \in 0 .. Len(registers) - 1
            BY <1>5, <4>2, <6>2, OpAtFinds DEF Ats
          <6>5. ValueOf(registers, p) \in Nat
            BY <1>5, <6>4, ValueType
          <6>6. GetRegister(b, j) >= ValueOf(registers, p)
            BY <5>2, <5>3, <6>2
          <6> QED
            BY ONLY <6>3, <6>5, <6>6
        <5> QED
          BY <5>3
      <4> QED
        BY <1>1, <1>4, <2>7, <4>1, <4>2 DEF Converted
    <3>4. AlmostHolds(b, value) /\ AlmostHolds(c, value)
      BY <1>6, <2>2, <2>3, <3>3, SetAlmostHolds
    <3>5. AlmostHolds(registers', value)
      BY <2>4, <3>4
    <3> QED
      BY <2>1, <3>2, <3>5, AlmostIsKept
  <2> QED
    BY <2>1, <2>6, <2>7, NothingToRead
<1> QED
  BY <1>7, <1>8

-------------------------------------------------------------------------------
\* Every step.
LEMMA HllStep ==
  ASSUME TypeOK, Next
  PROVE  TypeOK' /\ Got /\ (encoding' = "dense" /\ Converted => Kept)
<1>1. PICK index \in Indices, count \in Counts : HllAdd(index, count) \/ HllMerge(index, count)
  BY DEF Next
<1>2. CASE encoding = "sparse" /\ HllSparseSet(index, count)
  BY <1>2, SparseStep
<1>3. CASE encoding = "dense" /\ HllDenseSet(index, count)
  BY <1>3, DenseStep
<1>4. CASE HllMerge(index, count)
  BY <1>4, MergeStep
<1> QED
  BY <1>1, <1>2, <1>3, <1>4 DEF HllAdd

\* One run of all registers.
LEMMA HllInit ==
  ASSUME Init
  PROVE  TypeOK
<1>1. PICK h, l : h = (Registers - 1) \div 256 /\ l = (Registers - 1) % 256
  OBVIOUS
<1>2. h \in Nat /\ h < 64 /\ l \in Nat /\ l < 256
  <2>1. PICK k : k = Registers - 1
    OBVIOUS
  <2>2. k \in Nat /\ k < Longest
    BY <2>1, HyperLogLogAssumption DEF Longest
  <2>3. \E g, t \in Nat : /\ g = k \div 256 /\ t = k % 256 /\ g < 64 /\ t < 256
                          /\ k = g * 256 + t
    BY <2>2, TwoBytes
  <2> QED
    BY <1>1, <2>1, <2>3
<1>3. registers = <<64 + h, l>>
  BY <1>1 DEF Init
<1>4. 64 + h \in Bytes /\ l \in Bytes
  BY <1>2, BytesAre
<1>5. registers \in Seq(Bytes) /\ Len(registers) = 2
  BY <1>3, <1>4
<1>6. Len(registers) >= 1
  BY <1>5
<1>7. encoding = "sparse" /\ last = None
  BY DEF Init
<1> QED
  BY <1>5, <1>6, <1>7 DEF TypeOK, Bytes

\* Every byte stays a byte and the dense form is long enough for every register: no set,
\* split, merge of neighbours or conversion of hyperLogLog.h writes anything else.
THEOREM HllTypeCorrect == Spec => []TypeOK
<1>1. Init => TypeOK
  BY HllInit
<1>2. TypeOK /\ [Next]_vars => TypeOK'
  <2>1. ASSUME TypeOK, Next PROVE TypeOK'
    BY <2>1, HllStep
  <2>2. ASSUME TypeOK, UNCHANGED vars PROVE TypeOK'
    BY <2>2 DEF TypeOK, vars
  <2> QED
    BY <2>1, <2>2
<1> QED
  BY <1>1, <1>2, PTL DEF Spec

\* What hllSparseSet and hllDenseSet say they have set is read there afterwards, except
\* inside a run of the sparse form whose position looks like a VAL.
THEOREM WhatIsSetIsRead == Spec => SetIsRead
<1>1. TypeOK /\ Next => (last' # None => \/ InsideVal(last'.index)
                                        \/ (ReadAt(last.index) >= last.count)')
  BY HllStep DEF Got
<1> QED
  BY <1>1, HllTypeCorrect, PTL DEF Spec, SetIsRead

\* No set, and no merge that stays in the dense form or gets to it, lowers a register,
\* except for one bit of every fourth.
THEOREM CountsAreKept == Spec => KeepsCounts
<1>1. TypeOK /\ Next => (encoding' = "dense" /\ Converted => Kept)
  BY HllStep
<1>2. TypeOK /\ Next =>
        (encoding' = "dense" /\ (encoding = "dense" \/ Dense(registers).idx = Registers) =>
           \A i \in 0 .. Registers - 1 :
             ReadAt(i)' >= ReadAt(i) - (IF i % 4 = 2 THEN 4 ELSE 0))
  BY <1>1 DEF Kept, Converted
<1> QED
  BY <1>2, HllTypeCorrect, PTL DEF Spec, KeepsCounts

===============================================================================
