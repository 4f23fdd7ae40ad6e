------------------------------ MODULE HyperLogLog ------------------------------
(***************************************************************************)
(* The registers of hyperLogLog.h in their two forms.                      *)
(*                                                                         *)
(* Sparse: runs of equal registers, ZERO (00llllll), XZERO (01llllll and a *)
(* byte) and VAL (1vvvvvll).  Dense: six bits a register.  An element adds *)
(* a count at an index; hllMerge makes the dense form of the sparse one.   *)
(***************************************************************************)
EXTENDS Integers, SequencesExt

CONSTANTS
  Registers,   \* HLL_REGISTERS, 16384
  Indices,     \* indices elements have
  Counts,      \* what hllPatLen returns for them
  MaxBytes     \* bound of the model: bytes of the sparse form that is added to

\* hllPatLen's counts beyond 32 are left out: hllSparseSet calls itself for them.
ASSUME HyperLogLogAssumption ==
  /\ Registers \in 1 .. 16384 /\ Indices \subseteq 0 .. Registers - 1
  /\ Counts \subseteq 1 .. 32 /\ MaxBytes \in Nat

VARIABLES
  encoding,    \* "sparse" or "dense"; "undefined" after an access outside registers
  registers,   \* the bytes
  last         \* history: index and count of the last call, if it has set one

vars == <<encoding, registers, last>>

HLL_SPARSE_VAL_MAX_LEN == 4
HLL_SPARSE_ZERO_MAX_LEN == 64
HLL_HDR_SIZE == 16
DenseSize == HLL_HDR_SIZE + (Registers * 6 + 7) \div 8
None == [index |-> 0, count |-> 0]

-------------------------------------------------------------------------------
\* Opcodes, at position p of the bytes b, from 0.

IsZero(b, p) == b[p + 1] < 64
IsXzero(b, p) == b[p + 1] \in 64 .. 127
IsVal(b, p) == b[p + 1] >= 128

OpLen(b, p) == IF IsXzero(b, p) THEN 2 ELSE 1
ValLen(b, p) == (b[p + 1] % 4) + 1
ValValue(b, p) == ((b[p + 1] \div 4) % 32) + 1

\* The second byte of an XZERO at the end is outside.
Outside(b, p) == IsXzero(b, p) /\ p + 2 > Len(b)
Span(b, p) ==
  IF IsZero(b, p) THEN b[p + 1] + 1
  ELSE IF IsXzero(b, p) THEN (b[p + 1] % 64) * 256 + (IF Outside(b, p) THEN 0 ELSE b[p + 2]) + 1
  ELSE ValLen(b, p)

OrAt(a, b, power) == IF (a \div power) % 2 = 1 \/ (b \div power) % 2 = 1 THEN power ELSE 0
\* The | of two bytes.
BitOr(a, b) ==
  OrAt(a, b, 1) + OrAt(a, b, 2) + OrAt(a, b, 4) + OrAt(a, b, 8)
    + OrAt(a, b, 16) + OrAt(a, b, 32) + OrAt(a, b, 64) + OrAt(a, b, 128)

\* hllSparseValSet: a length beyond 4 goes over the bits of the value.
Val(value, len) == 128 + 4 * BitOr(value - 1, ((len - 1) \div 4) % 32) + ((len - 1) % 4)

\* A run of zeros, none of length 0; short ones are ZERO, long ones XZERO.
Zeros(len) ==
  IF len = 0 THEN <<>>
  ELSE IF len > HLL_SPARSE_ZERO_MAX_LEN THEN <<64 + (len - 1) \div 256, (len - 1) % 256>>
  ELSE <<len - 1>>

Init ==
  /\ encoding = "sparse"
  /\ registers = <<64 + (Registers - 1) \div 256, (Registers - 1) % 256>>
  /\ last = None

\* The opcode that covers index, or the last one: its position and first register.
OpAt(b, index) ==
  LET from[at \in [p : 0 .. Len(b) - 1, first : Nat]] ==
        IF index <= at.first + Span(b, at.p) - 1 \/ at.p + OpLen(b, at.p) >= Len(b) THEN at
        ELSE from[[p |-> at.p + OpLen(b, at.p), first |-> at.first + Span(b, at.p)]]
  IN  from[[p |-> 0, first |-> 0]]

-------------------------------------------------------------------------------
\* The sparse form.

\* Two VALs of one value become one, of which the longer is then erased.
MergedAt(b, p) ==
  IF p + 1 < Len(b) /\ IsVal(b, p + 1) /\ ValValue(b, p) = ValValue(b, p + 1)
     /\ ValLen(b, p) + ValLen(b, p + 1) < HLL_SPARSE_VAL_MAX_LEN
  THEN RemoveAt(b, p + 1) ELSE b

\* hllUpdateRegisters looks at five opcodes from p on.
Look(s) ==
  IF s.p >= Len(s.b) THEN s
  ELSE IF IsVal(s.b, s.p) THEN [b |-> MergedAt(s.b, s.p), p |-> s.p + 1]
  ELSE [s EXCEPT !.p = @ + OpLen(s.b, s.p)]
Updated(b, p) == Look(Look(Look(Look(Look([b |-> b, p |-> p]))))).b

\* After its search hllSparseSet tests the position of the opcode, as one byte, in
\* the place of the opcode.
LikeXzero(p) == p % 256 \in 64 .. 127
LikeVal(p) == p % 256 >= 128

\* The opcodes that take the place of the run from first to end, in a buffer that is
\* five bytes long however many are used: each of the others is a ZERO of one register.
Padded(ops) == ops \o [i \in 1 .. 5 - Len(ops) |-> 0]
\* Mutation: the count is put behind the run it splits.
SplitBehind(first, end, index, count) ==
  Padded(Zeros(index - first) \o Zeros(end - index) \o <<Val(count, 1)>>)
Split(first, end, index, count) ==
  Padded(Zeros(index - first) \o <<Val(count, 1)>> \o Zeros(end - index))
Vals(value, len) == IF len = 0 THEN <<>> ELSE <<Val(value, len)>>
SplitVal(first, end, index, count, value) ==
  Padded(Vals(value, index - first) \o <<Val(count, 1)>> \o Vals(value, end - index))

\* hllSparseSet where op covers index, in the three ways the position can look: a run
\* of one register is written over, and then the opcode's first byte, or two, give way
\* to the split; behind the last opcode the whole of the old form is put once more.
SetAt(b, op, index, count) ==
  LET p == op.p
      end == op.first + Span(b, p) - 1
      one == ~LikeXzero(p) /\ b[p + 1] % (IF LikeVal(p) THEN 4 ELSE 64) = 0
      c == IF one THEN Updated([b EXCEPT ![p + 1] = Val(count, 1)], p) ELSE b
      split == IF LikeVal(p) THEN SplitVal(op.first, end, index, count, ValValue(c, p))
               ELSE Split(op.first, end, index, count)
      next == IF LikeXzero(p) THEN p + 2 ELSE p + 1
      behind == IF next >= Len(b) THEN c ELSE SubSeq(c, next + 1, Len(c))
  IN  Updated(SubSeq(c, 1, p) \o split \o behind, p)

\* Where the position looks like a VAL, the count that is compared is not initialized.
HllSparseSet(index, count) ==
  LET op == OpAt(registers, index)
  IN  IF Outside(registers, op.p)
      THEN encoding' = "undefined" /\ last' = None /\ UNCHANGED registers
      ELSE \/ /\ index > op.first + Span(registers, op.p) - 1 \/ LikeVal(op.p)
              /\ last' = None /\ UNCHANGED <<encoding, registers>>
           \/ /\ index <= op.first + Span(registers, op.p) - 1
              /\ registers' = SetAt(registers, op, index, count)
              /\ last' = [index |-> index, count |-> count]
              /\ UNCHANGED encoding

-------------------------------------------------------------------------------
\* The dense form.

ByteOf(index) == (index * 6) \div 8
\* 2 ^ ((index * 6) % 8)
Shift(index) == <<1, 64, 16, 4>>[(index % 4) + 1]

GetRegister(b, index) ==
  ((b[ByteOf(index) + 1] + 256 * b[ByteOf(index) + 2]) \div Shift(index)) % 64

\* The mask that should clear the register is HLL_REGISTERS, 1 and 14 zeros: of
\* the two bytes it clears bit 6 of the second, if the register begins a byte.
ClearedNext(b, index) == IF Shift(index) = 1 THEN b - 64 * ((b \div 64) % 2) ELSE b

\* Mutations of SetRegister: the second byte is written over; the bits are added to the first.
SetRegisterOver(b, index, value) ==
  LET i == ByteOf(index) + 1
      bits == value * Shift(index)
  IN  [b EXCEPT ![i] = BitOr(@, bits % 256), ![i + 1] = bits \div 256]
SetRegisterAdding(b, index, value) ==
  LET i == ByteOf(index) + 1
      bits == value * Shift(index)
  IN  [b EXCEPT ![i] = @ + (bits % 256),
                ![i + 1] = BitOr(ClearedNext(@, index), bits \div 256)]
SetRegister(b, index, value) ==
  LET i == ByteOf(index) + 1
      bits == value * Shift(index)
  IN  [b EXCEPT ![i] = BitOr(@, bits % 256),
                ![i + 1] = BitOr(ClearedNext(@, index), bits \div 256)]

HllDenseSet(index, count) ==
  IF ByteOf(index) + 2 > Len(registers)
  THEN encoding' = "undefined" /\ last' = None /\ UNCHANGED registers
  ELSE /\ UNCHANGED encoding
       /\ IF count > GetRegister(registers, index)
          THEN /\ registers' = SetRegister(registers, index, count)
               /\ last' = [index |-> index, count |-> count]
          ELSE last' = None /\ UNCHANGED registers

\* A run of len registers from first on.
Filled(dense, first, len, value) ==
  LET filled[n \in 0 .. len] ==
        IF n = 0 THEN dense ELSE SetRegister(filled[n - 1], first + n - 1, value)
  IN  filled[len]

\* hllSparseToDense: VALs that would go beyond the last register end the loop, and
\* what was read is kept only if it is all the registers.
Dense(b) ==
  LET from[at \in [p : 0 .. Len(b) + 1, idx : Nat, dense : Seq(0 .. 255)]] ==
        IF at.p >= Len(b) \/ (IsVal(b, at.p) /\ at.idx + ValLen(b, at.p) > Registers) THEN at
        ELSE from[[p |-> at.p + OpLen(b, at.p), idx |-> at.idx + Span(b, at.p),
                   dense |-> IF IsVal(b, at.p)
                             THEN Filled(at.dense, at.idx, ValLen(b, at.p), ValValue(b, at.p))
                             ELSE at.dense]]
  IN  from[[p |-> 0, idx |-> 0, dense |-> [i \in 1 .. DenseSize |-> 0]]]

\* The raw registers of hllMerge, here of one element; registers that are 0 in it
\* change nothing.
Merged(b, index, count) ==
  IF GetRegister(b, index) < count THEN SetRegister(b, index, count) ELSE b

-------------------------------------------------------------------------------
HllAdd(index, count) ==
  \/ encoding = "sparse" /\ Len(registers) + 5 <= MaxBytes /\ HllSparseSet(index, count)
  \/ encoding = "dense" /\ HllDenseSet(index, count)

\* The encoding is dense from the start of the conversion on, and whether it failed
\* is not asked: the merge goes on with the sparse bytes, and outside of them.
HllMerge(index, count) ==
  /\ encoding # "undefined"
  /\ LET dense == Dense(registers)
         b == IF encoding = "dense" THEN registers
              ELSE IF dense.idx = Registers THEN dense.dense ELSE registers
     IN  IF ByteOf(Registers - 1) + 2 > Len(b)
         THEN encoding' = "undefined" /\ UNCHANGED registers
         ELSE encoding' = "dense" /\ registers' = Merged(b, index, count)
  /\ last' = None

Next == \E index \in Indices, count \in Counts : HllAdd(index, count) \/ HllMerge(index, count)

Spec == Init /\ [][Next]_vars

-------------------------------------------------------------------------------
\* Properties.

\* Every byte stays one, and the dense form is long enough for every register.
TypeOK ==
  /\ encoding \in {"sparse", "dense", "undefined"}
  /\ registers \in Seq(0 .. 255)
  /\ last \in {None} \cup [index : Indices, count : Counts]
  /\ encoding = "sparse" => Len(registers) >= 1
  /\ encoding = "dense" => Len(registers) >= ByteOf(Registers - 1) + 2

(***************************************************************************)
(* The runs of the sparse form cover every register, however often they    *)
(* were split, padded and merged, so that no element is refused for want   *)
(* of a run: the new opcodes take the place of the old one.                *)
(***************************************************************************)
EveryRegisterHasARun ==
  encoding = "sparse" =>
    LET op == OpAt(registers, Registers - 1) IN op.first + Span(registers, op.p) >= Registers

\* The register as GetRegister, or the run it is in, gives it.
ReadAt(index) ==
  IF encoding = "dense" THEN GetRegister(registers, index)
  ELSE LET op == OpAt(registers, index)
       IN  IF IsVal(registers, op.p) THEN ValValue(registers, op.p) ELSE 0

(***************************************************************************)
(* What a call says it has set is what is read there afterwards, in the    *)
(* dense form at least that much: hllSparseSet finds the run of the index, *)
(* splits it and merges its neighbours in place, and the register is still *)
(* at its index whatever is left over behind it.  Not so inside a run      *)
(* whose position looks like a VAL: the run before the index is written    *)
(* with two bits for its length (hyperLogLog.h:526-545).                   *)
(***************************************************************************)
InsideVal(index) ==
  encoding = "sparse" /\ LET op == OpAt(registers, index) IN LikeVal(op.p) /\ index # op.first
SetIsRead ==
  [][last' # None => InsideVal(last'.index) \/ (ReadAt(last.index) >= last.count)']_vars

(***************************************************************************)
(* A call in the dense form, and one that converts a sparse form to it,    *)
(* lowers no register except every fourth, and that by the one bit that    *)
(* hllDenseSetRegister's mask takes from it.  A merge that goes on with    *)
(* the bytes of the sparse form, because its runs are not all the          *)
(* registers, is left out: there the registers are anything.               *)
(***************************************************************************)
KeepsCounts ==
  [][encoding' = "dense" /\ (encoding = "dense" \/ Dense(registers).idx = Registers) =>
       \A i \in 0 .. Registers - 1 :
         ReadAt(i)' >= ReadAt(i) - (IF i % 4 = 2 THEN 4 ELSE 0)]_vars
===============================================================================
