------------------------------- MODULE ListPack -------------------------------
(***************************************************************************)
(* ListPack of listpack.h: a list of strings in one block of bytes,        *)
(*                                                                         *)
(*   total bytes (4) | number of elements (2) | entry ... entry | EOF      *)
(*                                                                         *)
(* where an entry is its encoding and content, and behind them the length  *)
(* of both, to be read from the right.  A string that is a number is kept  *)
(* as one.  Every call edits the block in place; callers hold a pointer to *)
(* an entry, which the next call takes and sets.                           *)
(***************************************************************************)
EXTENDS Integers, SequencesExt

CONSTANTS
  Strings,         \* strings a caller stores, as sequences of bytes
  Numbers,         \* integers it stores
  IntMax,          \* INT64_MAX
  MaxBytes,        \* UINT32_MAX, the limit of lpInsert
  NumEleUnknown,   \* LP_HDR_NUMELE_UNKNOWN, UINT16_MAX
  MaxEntries       \* bound of the model: entries in the list

ASSUME ListPackAssumption ==
  /\ \A s \in Strings : s \in Seq(0 .. 255)
  /\ IntMax \in Nat /\ IntMax >= 65535
  /\ Numbers \subseteq -IntMax - 1 .. IntMax
  /\ MaxBytes \in Nat /\ MaxBytes >= 7 /\ MaxBytes \div 65536 < 65536
  /\ MaxEntries \in Nat
  /\ NumEleUnknown \in Nat /\ NumEleUnknown > 0 /\ NumEleUnknown <= 65535

VARIABLES
  lp,      \* the bytes of the list pack, from offset 0
  cur,     \* the offset the caller's pointer is at, or NULL
  elems,   \* history: the texts the calls so far have stored
  pos      \* history: the position in elems the pointer should be at, or 0

vars == <<lp, cur, elems, pos>>

NULL == -1
LP_HDR_SIZE == 6
LP_EOF == 255

-------------------------------------------------------------------------------
\* Bytes and the header.

\* n in k bytes, the lowest first; k is 4 at most.
LittleEndian(n, k) == [i \in 1 .. k |-> (n \div <<1, 256, 65536, 16777216>>[i]) % 256]

\* What lies behind the block is read as LP_EOF.
Byte(o) == IF o + 1 \in DOMAIN lp THEN lp[o + 1] ELSE LP_EOF
Word(o, k) ==
  LET at(i) == IF i < k THEN Byte(o + i) ELSE 0
  IN  at(0) + 256 * at(1) + 65536 * at(2) + 16777216 * at(3)

TotalBytes == Word(0, 4)
NumElements == Word(4, 2)

Header(total, num) == LittleEndian(total, 4) \o LittleEndian(num, 2)

Init ==
  /\ lp = Header(LP_HDR_SIZE + 1, 0) \o <<LP_EOF>>
  /\ cur = NULL
  /\ elems = <<>> /\ pos = 0

-------------------------------------------------------------------------------
\* Numbers and their text.

Minus == 45
Digits == 48 .. 57

\* The text of a number, as std::to_string gives it.
Decimal(n) ==
  LET text[k \in Nat] ==
        IF k < 10 THEN <<48 + k>> ELSE Append(text[k \div 10], 48 + (k % 10))
  IN  IF n < 0 THEN <<Minus>> \o text[-n] ELSE text[n]

UMax == 2 * IntMax + 1
NotANumber == UMax + 1

\* The loop over the digits; NotANumber once a step overflows.
Digested(digits) ==
  LET v[i \in 0 .. Len(digits)] ==
        IF i = 0 THEN 0
        ELSE LET d == digits[i] - 48
             IN  IF v[i - 1] > UMax \div 10 \/ v[i - 1] * 10 > UMax - d
                 THEN NotANumber ELSE v[i - 1] * 10 + d
  IN  v[Len(digits)]

Magnitude(s) == IF s # <<>> /\ s[1] = Minus THEN Tail(s) ELSE s
InRange(s, v) ==
  IF Magnitude(s) = s
  THEN IF v > IntMax THEN NotANumber ELSE v
  ELSE IF v > IntMax + 1 THEN NotANumber ELSE -v

\* Mutation of NumberIn: any digit may be the first.
NumberInLoosely(s) ==
  LET digits == Magnitude(s)
  IN  IF digits = <<>> \/ Len(s) >= 21 \/ \E i \in DOMAIN digits : digits[i] \notin Digits
      THEN NotANumber ELSE InRange(s, Digested(digits))

\* lpStringToInt64: a number only if its text is the one the number is printed as.
NumberIn(s) ==
  LET digits == Magnitude(s)
  IN  IF s = <<48>> THEN 0
      ELSE IF digits = <<>> \/ Len(s) >= 21 THEN NotANumber
      ELSE IF digits[1] = 48 \/ \E i \in DOMAIN digits : digits[i] \notin Digits THEN NotANumber
      ELSE InRange(s, Digested(digits))

\* No number needs the 64-bit encoding.
ASSUME NumbersAssumption ==
  \A v \in Numbers \cup ({NumberIn(s) : s \in Strings} \ {NotANumber}) :
    v >= -2147483647 - 1 /\ v <= 2147483647

-------------------------------------------------------------------------------
\* Encodings.

Fits16(v) == v >= -32768 /\ v <= 32767

\* Of 32 bits the shift that should fold in the sign is undefined and the top byte
\* is v && 0xff.
Encodings32(v) ==
  {<<243>> \o LittleEndian(u, 3) \o <<1>> : u \in IF v < 0 THEN {v, v + 1} ELSE {v}}

\* The sign is folded in by adding the width.  The test for 24 bits holds of no
\* number.
IntEncodings(v) ==
  IF v >= 0 /\ v <= 127 THEN {<<v>>}
  ELSE IF v >= -4096 /\ v <= 4095
  THEN LET u == v % 8192 IN {<<192 + u \div 256, u % 256>>}
  ELSE IF Fits16(v)
  THEN {<<241>> \o LittleEndian(v % 65536, 2)}
  ELSE Encodings32(v)

StringEncoding(s) ==
  LET n == Len(s)
  IN  (IF n < 64 THEN <<128 + n>>
       ELSE IF n < 4096 THEN <<224 + n \div 256, n % 256>>
       ELSE <<240>> \o LittleEndian(n, 4)) \o s

\* lpEncodeGetType and what lpInsert then stores.
Encodings(s) ==
  IF NumberIn(s) # NotANumber THEN IntEncodings(NumberIn(s)) ELSE {StringEncoding(s)}

\* l in seven bits a byte, the highest first, all but the first marked.
SevenBits(l, k) ==
  LET low == <<l % 128, (l \div 128) % 128, (l \div 16384) % 128, (l \div 2097152) % 128,
               (l \div 268435456) % 128>>
  IN  [i \in 1 .. k |-> low[k - i + 1] + (IF i = 1 THEN 0 ELSE 128)]

\* Mutation of EncodeBacklen: 128 is taken for a number of seven bits.
EncodeBacklenEarly(l) ==
  IF l <= 128 THEN <<l>> ELSE IF l < 16383 THEN SevenBits(l, 2) ELSE SevenBits(l, 3)

EncodeBacklen(l) ==
  IF l <= 127 THEN <<l>>
  ELSE SevenBits(l, IF l < 16383 THEN 2 ELSE IF l < 2097151 THEN 3
                    ELSE IF l < 268435455 THEN 4 ELSE 5)

BacklenSize(l) == Len(EncodeBacklen(l))

\* The length that ends at o, read to the left; at most five bytes of it.
DecodeBacklen(o) ==
  LET val[i \in 0 .. 5] ==
        IF i = 5 THEN 0
        ELSE (Byte(o - i) % 128) + (IF Byte(o - i) < 128 THEN 0 ELSE 128 * val[i + 1])
  IN  val[0]

-------------------------------------------------------------------------------
\* Walking.

\* lpCurrentEncodedSizeUnsafe: bytes of encoding and content of the entry at o.
EncodedSize(o) ==
  LET b == Byte(o)
  IN  CASE b < 128 -> 1
        [] b >= 128 /\ b < 192 -> 1 + (b % 64)
        [] b >= 192 /\ b < 224 -> 2
        [] b >= 224 /\ b < 240 -> 2 + ((b % 16) * 256) + Byte(o + 1)
        [] b = 240 -> 5 + Word(o + 1, 4)
        [] b >= 241 /\ b < 244 -> b - 238
        [] b = 244 -> 9
        [] b = LP_EOF -> 1
        [] OTHER -> 0

EntrySize(o) == EncodedSize(o) + BacklenSize(EncodedSize(o))

Skip(o) == o + EntrySize(o)
OrNull(o) == IF Byte(o) = LP_EOF THEN NULL ELSE o

LpFirst == OrNull(LP_HDR_SIZE)
LpNext(o) == OrNull(Skip(o))
LpPrev(o) ==
  IF o = LP_HDR_SIZE THEN NULL
  ELSE LET len == DecodeBacklen(o - 1) IN o - (len + BacklenSize(len))
LpLast == LpPrev(TotalBytes - 1)

Signed(u, half) == IF u >= half THEN u - 2 * half ELSE u

\* lpGet: what the entry at o reads as, a number by its text.
Get(o) ==
  LET b == Byte(o)
      chars(from, len) == [i \in 1 .. len |-> Byte(from + i - 1)]
      int(k) == Decimal(Word(o + 1, k - 1)
                        + <<1, 256, 65536, 16777216>>[k] * Signed(Byte(o + k), 128))
  IN  CASE b < 128 -> Decimal(b)
        [] b >= 128 /\ b < 192 -> chars(o + 1, b % 64)
        [] b >= 192 /\ b < 224 -> Decimal(Signed((b % 32) * 256 + Byte(o + 1), 4096))
        [] b >= 224 /\ b < 240 -> chars(o + 2, EncodedSize(o) - 2)
        [] b = 240 -> chars(o + 5, EncodedSize(o) - 5)
        [] OTHER -> int(EncodedSize(o) - 1)

\* Offsets of the entries, as lpNext and as lpPrev find them.
Forwards ==
  LET walk[o \in Int] == IF o = NULL THEN <<>> ELSE <<o>> \o walk[LpNext(o)]
  IN  walk[LpFirst]
Backwards ==
  LET walk[o \in Int] == IF o < LP_HDR_SIZE THEN <<>> ELSE Append(walk[LpPrev(o)], o)
  IN  walk[LpLast]

-------------------------------------------------------------------------------
\* Operations.

Move ==
  /\ \/ cur' = LpFirst /\ pos' = (IF elems = <<>> THEN 0 ELSE 1)
     \/ cur' = LpLast /\ pos' = Len(elems)
     \/ cur # NULL /\ cur' = LpNext(cur) /\ pos' = (IF pos = Len(elems) THEN 0 ELSE pos + 1)
     \/ cur # NULL /\ cur' = LpPrev(cur) /\ pos' = pos - 1
  /\ UNCHANGED <<lp, elems>>

\* n bytes at o give way to new ones.
Spliced(o, n, new) == SubSeq(lp, LP_HDR_SIZE + 1, o) \o new \o SubSeq(lp, o + n + 1, Len(lp))

\* Mutation of NewTotal: an entry that is replaced is not taken off.
NewTotalUnreplaced(size, replaced) == TotalBytes + size
NewTotal(size, replaced) == TotalBytes + size - replaced

\* A number of elements that is not known stays so.
NewNumElements(d) == IF NumElements = NumEleUnknown THEN NumEleUnknown ELSE NumElements + d

\* The pointer given back for offset p of the new bytes; no encoding begins with
\* LP_EOF, so it is null only after a deletion.
\* Mutation: the end is not looked for.
PointerToAny(p, bytes) == p
PointerTo(p, bytes) == IF bytes[p + 1] = LP_EOF THEN NULL ELSE p

\* lpInsert of an encoded element, or of none to delete, before or instead of
\* the entry at p; newp says whether the caller wants a pointer back.  A block that
\* would grow beyond its limit is refused and stays as it is.
LpInsert(enc, p, replace, newp) ==
  LET entry == IF enc = <<>> THEN <<>> ELSE enc \o EncodeBacklen(Len(enc))
      replaced == IF replace THEN EntrySize(p) ELSE 0
      total == NewTotal(Len(entry), replaced)
      num == IF enc = <<>> THEN NewNumElements(-1)
             ELSE IF replace THEN NumElements ELSE NewNumElements(1)
  IN  /\ total <= MaxBytes
      /\ lp' = Header(total, num) \o Spliced(p, replaced, entry)
      /\ cur' = IF newp THEN PointerTo(p, lp') ELSE NULL

\* A text and an encoding it may get.
Elements ==
  (UNION {{[text |-> s, enc |-> e] : e \in Encodings(s)} : s \in Strings})
  \cup (UNION {{[text |-> Decimal(v), enc |-> e] : e \in IntEncodings(v)} : v \in Numbers})

Stored(t, i) == elems' = InsertAt(elems, i, t)

InsertBefore(t, enc) ==
  cur # NULL /\ LpInsert(enc, cur, FALSE, TRUE) /\ Stored(t, pos) /\ UNCHANGED pos
InsertAfter(t, enc) ==
  cur # NULL /\ LpInsert(enc, Skip(cur), FALSE, TRUE) /\ Stored(t, pos + 1) /\ pos' = pos + 1
AppendedAt(enc) == LpInsert(enc, TotalBytes - 1, FALSE, FALSE)
LpAppend(t, enc) == AppendedAt(enc) /\ Stored(t, Len(elems) + 1) /\ pos' = 0
LpPrepend(t, enc) ==
  /\ IF LpFirst = NULL THEN AppendedAt(enc) ELSE LpInsert(enc, LpFirst, FALSE, FALSE)
  /\ Stored(t, 1) /\ pos' = 0
LpReplace(t, enc) ==
  /\ cur # NULL /\ LpInsert(enc, cur, TRUE, TRUE)
  /\ elems' = [elems EXCEPT ![pos] = t] /\ UNCHANGED pos

Deleted(n) ==
  /\ elems' = SubSeq(elems, 1, pos - 1) \o SubSeq(elems, pos + n, Len(elems))
  /\ pos' = IF pos + n > Len(elems) THEN 0 ELSE pos

LpDelete == cur # NULL /\ LpInsert(<<>>, cur, TRUE, TRUE) /\ Deleted(1)

\* The end of the n entries from o on; the loop stops at LP_EOF.
TailOf(o, n) ==
  LET tail[i \in 0 .. n] ==
        IF i = 0 THEN o ELSE IF Byte(tail[i - 1]) = LP_EOF THEN tail[i - 1] ELSE Skip(tail[i - 1])
  IN  tail[n]

\* Mutation of DeletedIn: what was asked for is taken for what was there.
DeletedInAsked(o, n) == n
DeletedIn(o, n) == Cardinality({i \in 1 .. n : TailOf(o, i) # TailOf(o, i - 1)})

LpDeleteRangeWithEntry(n) ==
  /\ cur # NULL
  /\ LET size == TailOf(cur, n) - cur
     IN  /\ lp' = Header(TotalBytes - size, NewNumElements(-DeletedIn(cur, n)))
                    \o Spliced(cur, size, <<>>)
         /\ cur' = PointerTo(cur, lp')
  /\ Deleted(n)

\* lpLength counts again when the header does not know.
LpLength ==
  /\ NumElements = NumEleUnknown /\ Len(Forwards) < NumEleUnknown
  /\ lp' = Header(TotalBytes, Len(Forwards)) \o Spliced(LP_HDR_SIZE, 0, <<>>)
  /\ UNCHANGED <<cur, elems, pos>>

Next ==
  \/ Move
  \/ \E x \in Elements :
       \/ /\ Len(elems) < MaxEntries
          /\ \/ InsertBefore(x.text, x.enc) \/ InsertAfter(x.text, x.enc)
             \/ LpAppend(x.text, x.enc) \/ LpPrepend(x.text, x.enc)
       \/ LpReplace(x.text, x.enc)
  \/ LpDelete
  \/ \E n \in 1 .. MaxEntries + 1 : LpDeleteRangeWithEntry(n)
  \/ LpLength

Spec == Init /\ [][Next]_vars

-------------------------------------------------------------------------------
\* Properties.

(***************************************************************************)
(* The total in the header is the size of the block and fits in its field, *)
(* and the block ends with LP_EOF: the calls move bytes and set the header *)
(* by hand.                                                                *)
(***************************************************************************)
TypeOK ==
  /\ \A i \in DOMAIN lp : lp[i] \in 0 .. 255
  /\ TotalBytes = Len(lp) /\ TotalBytes <= MaxBytes
  /\ Last(lp) = LP_EOF
  /\ cur \in {NULL} \cup LP_HDR_SIZE .. MaxBytes
  /\ pos \in 0 .. Len(elems)

(***************************************************************************)
(* lpPrev from the end finds the entries lpNext finds from the beginning,  *)
(* wherever lengths change the number of bytes they take: lpEncodeBacklen  *)
(* and lpDecodeBacklen agree, and so do lpSkip and lpCurrentEncodedSize.   *)
(***************************************************************************)
BackwardIsForward == Backwards = Forwards

(***************************************************************************)
(* The number of elements in the header is the number of entries, or says  *)
(* that it is unknown: it is carried through inserts, replacements,        *)
(* deletions and the deletion of more entries than there are.              *)
(***************************************************************************)
NumeleIsCount == NumElements \in {Len(Forwards), NumEleUnknown}

\* Numbers of more than 16 bits are read as others: the low three bytes and a one.
ReadsAs(t) ==
  LET v == NumberIn(t)
  IN  IF v = NotANumber \/ Fits16(v) THEN {t}
      ELSE {Decimal((u % 16777216) + 16777216) : u \in IF v < 0 THEN {v, v + 1} ELSE {v}}

(***************************************************************************)
(* What the entries read as, by whatever encodings their neighbours have,  *)
(* is what was stored, in the order it was stored.  Strings that only look *)
(* like a number ("007", "-0") are kept as strings.                        *)
(***************************************************************************)
ContentsAreKept ==
  LET at == Forwards
  IN  Len(at) = Len(elems) /\ \A i \in DOMAIN at : Get(at[i]) \in ReadsAs(elems[i])

(***************************************************************************)
(* The pointer a call sets is at the entry it speaks of, the new one or    *)
(* the one behind the deleted ones, and null when there is none: a caller  *)
(* that goes on with it never reads the end of the block as an entry.      *)
(***************************************************************************)
PointerIsAtEntry == cur = IF pos = 0 THEN NULL ELSE Forwards[pos]
===============================================================================
