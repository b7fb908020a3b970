-------------------------- MODULE Protocol_proofs --------------------------
(***************************************************************************)
(* Decoding recovers, whatever the messages, the values and the noise.     *)
(* The inductive invariant says of each direction where the decoder stands *)
(* in the message that is on the line: following it byte by byte, lost in  *)
(* it since before it began, or in a message one byte of which was         *)
(* disturbed. What the CRC computes does not matter, only that it is a     *)
(* byte.                                                                   *)
(***************************************************************************)
EXTENDS Protocol, SequenceTheorems, TLAPS

-----------------------------------------------------------------------------
(***************************************************************************)
(* Numbers and digits                                                      *)
(***************************************************************************)

\* The exclusive or of two bytes is a byte, whatever its bits.
LEMMA XorIsByte == \A a, b : Xor(a, b) \in Byte
<1> SUFFICES ASSUME NEW a, NEW b PROVE Xor(a, b) \in Byte
  OBVIOUS
<1> DEFINE at(place) == IF Bit(a, place) = Bit(b, place) THEN 0 ELSE place
<1>1. /\ at(1) \in {0, 1} /\ at(2) \in {0, 2} /\ at(4) \in {0, 4} /\ at(8) \in {0, 8}
      /\ at(16) \in {0, 16} /\ at(32) \in {0, 32} /\ at(64) \in {0, 64}
      /\ at(128) \in {0, 128}
  OBVIOUS
<1>2. Xor(a, b) = at(1) + at(2) + at(4) + at(8) + at(16) + at(32) + at(64) + at(128)
  BY DEF Xor
<1> HIDE DEF at
<1> QED BY <1>1, <1>2 DEF Byte, ByteRange

LEMMA CRCShiftIsByte == \A data \in Byte : CRCShift(data) \in Byte
<1> SUFFICES ASSUME NEW data \in Byte PROVE CRCShift(data) \in Byte
  OBVIOUS
<1>1. CASE data >= 128
  BY <1>1, XorIsByte, Zenon DEF CRCShift
<1>2. CASE ~(data >= 128)
  BY <1>2 DEF CRCShift, Byte, ByteRange
<1> QED BY <1>1, <1>2

LEMMA CRCUpdateIsByte == \A crc, b : CCITT_updateCX(crc, b) \in Byte
<1>1. \A data \in Byte : CRCTable[data] \in Byte
  BY CRCShiftIsByte, Zenon DEF CRCTable
<1> QED BY <1>1, XorIsByte, Zenon DEF CCITT_updateCX

LEMMA RequestCRCIsByte == \A msg : RequestCRC(msg) \in Byte
BY CRCUpdateIsByte, Zenon DEF RequestCRC, CCITT_updateW

LEMMA ResponseCRCIsByte == \A msg : ResponseCRC(msg) \in Byte
BY CRCUpdateIsByte, Zenon DEF ResponseCRC, CCITT_updateW

\* Values of at most n digits.
LEMMA Powers ==
    /\ Power16[1] = 1 /\ Power16[2] = 16 /\ Power16[3] = 256
    /\ Power16[4] = 4096 /\ Power16[5] = 65536
BY DEF Power16

LEMMA HexDigit ==
    \A n \in 0 .. 15 : /\ Nibble2Char(n) \in Byte /\ IsHexDigit(Nibble2Char(n))
                       /\ Char2Nibble(Nibble2Char(n)) = n
BY DEF Nibble2Char, Char2Nibble, IsHexDigit, Byte, ByteRange

LEMMA NibbleRange == \A value \in Word, n \in 1 .. 5 : (value \div Power16[n]) % 16 \in 0 .. 15
<1> SUFFICES ASSUME NEW value \in Word, NEW n \in 1 .. 5
             PROVE  (value \div Power16[n]) % 16 \in 0 .. 15
  OBVIOUS
<1>1. value \div Power16[n] \in Nat
  <2>1. CASE n = 1 BY <2>1, Powers, Z3 DEF Word, WordRange
  <2>2. CASE n = 2 BY <2>2, Powers, Z3 DEF Word, WordRange
  <2>3. CASE n = 3 BY <2>3, Powers, Z3 DEF Word, WordRange
  <2>4. CASE n = 4 BY <2>4, Powers, Z3 DEF Word, WordRange
  <2>5. CASE n = 5 BY <2>5, Powers, Z3 DEF Word, WordRange
  <2> QED BY <2>1, <2>2, <2>3, <2>4, <2>5, Z3
<1> QED BY <1>1, Z3

LEMMA DigitsAreBytes ==
    ASSUME NEW value \in Word, NEW n \in 0 .. 4
    PROVE  /\ Digits(value, n) \in Seq(Byte)
           /\ Len(Digits(value, n)) = n
           /\ \A i \in 1 .. n : IsHexDigit(Digits(value, n)[i])
<1>1. \A i \in 1 .. n : /\ (value \div Power16[n - i + 1]) % 16 \in 0 .. 15
                        /\ Digits(value, n)[i] = Nibble2Char((value \div Power16[n - i + 1]) % 16)
  BY NibbleRange DEF Digits
<1>2. \A i \in 1 .. n : Digits(value, n)[i] \in Byte /\ IsHexDigit(Digits(value, n)[i])
  BY <1>1, HexDigit, Zenon
<1>3. Digits(value, n) \in [1 .. n -> Byte]
  BY <1>2 DEF Digits
<1>4. n \in Nat
  OBVIOUS
<1>5. Digits(value, n) \in Seq(Byte)
  <2>1. Seq(Byte) = UNION {[1 .. k -> Byte] : k \in Nat}
    BY SeqDef
  <2> QED BY <1>3, <1>4, <2>1
<1>6. Len(Digits(value, n)) = n
  BY <1>3, <1>4, <1>5, LenProperties
<1> QED BY <1>2, <1>5, <1>6

\* Facts about the two widths.
LEMMA Widths ==
    /\ ByteRange = 256 /\ WordRange = 65536
    /\ \A x : x \in Byte <=> x \in Nat /\ x < ByteRange
    /\ \A x : x \in Word <=> x \in Nat /\ x < WordRange
    /\ \A x : x \in Byte => x \in Word
<1>1. ByteRange = 256 /\ WordRange = 65536
  BY DEF ByteRange, WordRange
<1>2. \A k \in Nat : \A x : x \in 0 .. k - 1 <=> x \in Nat /\ x < k
  OBVIOUS
<1>3. ByteRange \in Nat /\ WordRange \in Nat /\ ByteRange < WordRange
  BY <1>1
<1>4. \A x : x \in Byte <=> x \in Nat /\ x < ByteRange
  BY <1>2, <1>3, Zenon DEF Byte
<1>5. \A x : x \in Word <=> x \in Nat /\ x < WordRange
  BY <1>2, <1>3, Zenon DEF Word
<1>6. \A x : x \in Byte => x \in Word
  BY <1>3, <1>4, <1>5, Z3
<1> QED BY <1>1, <1>4, <1>5, <1>6

\* A quotient is the next higher one and a digit.
LEMMA Quotients ==
    ASSUME NEW x \in Nat
    PROVE  /\ (x \div 16) \in Nat /\ (x \div 16) * 16 + (x % 16) = x
           /\ (x \div 256) \in Nat /\ (x \div 256) * 16 + ((x \div 16) % 16) = x \div 16
           /\ (x \div 4096) \in Nat /\ (x \div 4096) * 16 + ((x \div 256) % 16) = x \div 256
           /\ (x \div 65536) \in Nat /\ (x \div 65536) * 16 + ((x \div 4096) % 16) = x \div 4096
<1>1. (x \div 16) \in Nat /\ (x \div 16) * 16 + (x % 16) = x
  BY Z3
<1>2. (x \div 256) \in Nat /\ (x \div 256) * 16 + ((x \div 16) % 16) = x \div 16
  BY Z3
<1>3. (x \div 4096) \in Nat /\ (x \div 4096) * 16 + ((x \div 256) % 16) = x \div 256
  BY Z3
<1>4. (x \div 65536) \in Nat /\ (x \div 65536) * 16 + ((x \div 4096) % 16) = x \div 4096
  BY Z3
<1> QED BY <1>1, <1>2, <1>3, <1>4

\* n digits are left of a field that is as wide as range says.
Field(value, n, range) ==
    \/ range = ByteRange /\ value \in Byte /\ n \in 1 .. 2
    \/ range = WordRange /\ value \in Word /\ n \in 1 .. 4

LEMMA FieldIsWord ==
    ASSUME NEW value, NEW n, NEW range, Field(value, n, range)
    PROVE  value \in Word /\ value \in Nat /\ n \in 1 .. 4 /\ n \in Nat
BY Widths, Z3 DEF Field

\* One digit read: the value so far is that of the digits read.
LEMMA DigitRead ==
    ASSUME NEW value, NEW n, NEW range, Field(value, n, range)
    PROVE  WithDigit(value \div Power16[n + 1], Nibble2Char((value \div Power16[n]) % 16), range)
             = value \div Power16[n]
<1>1. value \in Word /\ value \in Nat /\ n \in 1 .. 4
  BY FieldIsWord, Zenon
<1> DEFINE high == value \div Power16[n + 1]
           low == (value \div Power16[n]) % 16
<1>2. low \in 0 .. 15
  BY <1>1, NibbleRange
<1>3. high \in Nat /\ high * 16 + low = value \div Power16[n]
  <2>1. CASE n = 1
    <3>1. value \div 1 = value
      BY <1>1, Z3
    <3>2. high = value \div 16 /\ low = value % 16 /\ value \div Power16[n] = value
      BY <2>1, <3>1, Powers
    <3> HIDE DEF high, low
    <3> QED BY <1>1, <3>2, Quotients
  <2>2. CASE n = 2
    <3>1. /\ high = value \div 256 /\ low = (value \div 16) % 16
          /\ value \div Power16[n] = value \div 16
      BY <2>2, Powers
    <3> HIDE DEF high, low
    <3> QED BY <1>1, <3>1, Quotients
  <2>3. CASE n = 3
    <3>1. /\ high = value \div 4096 /\ low = (value \div 256) % 16
          /\ value \div Power16[n] = value \div 256
      BY <2>3, Powers
    <3> HIDE DEF high, low
    <3> QED BY <1>1, <3>1, Quotients
  <2>4. CASE n = 4
    <3>1. /\ high = value \div 65536 /\ low = (value \div 4096) % 16
          /\ value \div Power16[n] = value \div 4096
      BY <2>4, Powers
    <3> HIDE DEF high, low
    <3> QED BY <1>1, <3>1, Quotients
  <2> HIDE DEF high, low
  <2> QED BY <1>1, <2>1, <2>2, <2>3, <2>4
<1>4. range \in {256, 65536} /\ value < range
  BY Widths, Z3 DEF Field
<1>5. value \div Power16[n] \in Nat /\ value \div Power16[n] <= value
  <2>1. CASE n = 1 BY <1>1, <2>1, Powers, Z3
  <2>2. CASE n = 2 BY <1>1, <2>2, Powers, Z3
  <2>3. CASE n = 3 BY <1>1, <2>3, Powers, Z3
  <2>4. CASE n = 4 BY <1>1, <2>4, Powers, Z3
  <2> QED BY <1>1, <2>1, <2>2, <2>3, <2>4, Z3
<1>6. (high * 16) % range = high * 16
  <2> HIDE DEF high, low
  <2>1. high * 16 \in Nat /\ high * 16 < range
    BY <1>1, <1>2, <1>3, <1>4, <1>5, Z3
  <2> QED BY <1>4, <2>1, Z3
<1>7. Char2Nibble(Nibble2Char(low)) = low
  BY <1>2, HexDigit
<1> HIDE DEF high, low
<1>8. WithDigit(high, Nibble2Char(low), range) = (high * 16) + low
  BY <1>6, <1>7, Zenon DEF WithDigit
<1> QED BY <1>3, <1>8, Zenon DEF high, low

\* A value written without leading zeros is read from zero on.
WrittenWith(value, n) ==
    /\ ToHex(value) = Digits(value, n)
    /\ value \div Power16[n + 1] = 0
    /\ value \in Byte => n <= 2

LEMMA ToHexIsDigits ==
    ASSUME NEW value \in Word
    PROVE  \E n \in 1 .. 4 : WrittenWith(value, n)
<1>1. value \in Nat /\ value < 65536 /\ (value \in Byte => value < 256)
  BY Widths, Z3
<1>2. CASE value < 16
  <2>1. ToHex(value) = Digits(value, 1)
    BY <1>2 DEF ToHex
  <2>2. value \div Power16[2] = 0
    BY <1>1, <1>2, Powers, Z3
  <2>3. WrittenWith(value, 1)
    BY <2>1, <2>2 DEF WrittenWith
  <2> QED BY <2>3
<1>3. CASE ~(value < 16) /\ value < 256
  <2>1. ToHex(value) = Digits(value, 2)
    BY <1>3 DEF ToHex
  <2>2. value \div Power16[3] = 0
    BY <1>1, <1>3, Powers, Z3
  <2>3. WrittenWith(value, 2)
    BY <2>1, <2>2 DEF WrittenWith
  <2> QED BY <2>3
<1>4. CASE ~(value < 256) /\ value < 4096
  <2>1. ToHex(value) = Digits(value, 3)
    BY <1>1, <1>4 DEF ToHex
  <2>2. value \div Power16[4] = 0
    BY <1>1, <1>4, Powers, Z3
  <2>3. value \notin Byte
    BY <1>1, <1>4
  <2>4. WrittenWith(value, 3)
    BY <2>1, <2>2, <2>3 DEF WrittenWith
  <2> QED BY <2>4
<1>5. CASE ~(value < 4096)
  <2>1. ToHex(value) = Digits(value, 4)
    BY <1>1, <1>5 DEF ToHex
  <2>2. value \div Power16[5] = 0
    BY <1>1, <1>5, Powers, Z3
  <2>3. value \notin Byte
    BY <1>1, <1>5
  <2>4. WrittenWith(value, 4)
    BY <2>1, <2>2, <2>3 DEF WrittenWith
  <2> QED BY <2>4
<1> QED BY <1>1, <1>2, <1>3, <1>4, <1>5

-----------------------------------------------------------------------------
(***************************************************************************)
(* Bytes on a line                                                         *)
(***************************************************************************)

LEMMA Concat ==
    /\ \A s, t \in Seq(Byte) : s \o t \in Seq(Byte)
    /\ \A s, t, u \in Seq(Byte) : (s \o t) \o u = s \o (t \o u)
<1>1. ASSUME NEW s \in Seq(Byte), NEW t \in Seq(Byte)
      PROVE  s \o t \in Seq(Byte)
  BY ConcatProperties
<1>2. ASSUME NEW s \in Seq(Byte), NEW t \in Seq(Byte), NEW u \in Seq(Byte)
      PROVE  (s \o t) \o u = s \o (t \o u)
  BY ConcatAssociative
<1> QED BY <1>1, <1>2, Zenon

Associative(a, b, c) == (a \o b) \o c = a \o (b \o c)

LEMMA ConcatAssociates ==
    ASSUME NEW a \in Seq(Byte), NEW b \in Seq(Byte), NEW c \in Seq(Byte)
    PROVE  Associative(a, b, c)
BY Concat, Zenon DEF Associative

\* The two forms of a request, and that of an answer, taken apart from the left.
RequestAssociates(a, b, c, d, e) ==
    ((a \o b) \o (c \o d)) \o e = a \o (b \o (c \o (d \o e)))
WriteAssociates(a, b, s, v, c, d, e) ==
    ((((a \o b) \o s) \o v) \o (c \o d)) \o e
      = a \o (b \o (s \o (v \o (c \o (d \o e)))))

LEMMA Associates ==
    ASSUME NEW a \in Seq(Byte), NEW b \in Seq(Byte), NEW c \in Seq(Byte), NEW d \in Seq(Byte),
           NEW e \in Seq(Byte)
    PROVE  RequestAssociates(a, b, c, d, e)
<1>1. /\ a \o b \in Seq(Byte) /\ c \o d \in Seq(Byte) /\ d \o e \in Seq(Byte)
      /\ c \o (d \o e) \in Seq(Byte)
  BY Concat
<1>2. /\ Associative(a \o b, c \o d, e) /\ Associative(c, d, e)
      /\ Associative(a, b, c \o (d \o e))
  BY <1>1, ConcatAssociates, Zenon
<1> QED BY <1>2, Zenon DEF Associative, RequestAssociates

LEMMA AssociatesWrite ==
    ASSUME NEW a \in Seq(Byte), NEW b \in Seq(Byte), NEW s \in Seq(Byte), NEW v \in Seq(Byte),
           NEW c \in Seq(Byte), NEW d \in Seq(Byte), NEW e \in Seq(Byte)
    PROVE  WriteAssociates(a, b, s, v, c, d, e)
<1>1. /\ a \o b \in Seq(Byte) /\ (a \o b) \o s \in Seq(Byte)
      /\ d \o e \in Seq(Byte) /\ c \o (d \o e) \in Seq(Byte)
      /\ v \o (c \o (d \o e)) \in Seq(Byte)
  BY Concat
<1>2. s \o (v \o (c \o (d \o e))) \in Seq(Byte)
  BY <1>1, Concat
<1>3. RequestAssociates((a \o b) \o s, v, c, d, e)
  BY <1>1, Associates, Zenon
<1>4. /\ Associative(a \o b, s, v \o (c \o (d \o e)))
      /\ Associative(a, b, s \o (v \o (c \o (d \o e))))
  BY <1>1, <1>2, ConcatAssociates, Zenon
<1> QED BY <1>3, <1>4, Zenon DEF Associative, RequestAssociates, WriteAssociates

\* A single byte in front of others.
LEMMA OneByte ==
    ASSUME NEW c \in Byte, NEW rest \in Seq(Byte)
    PROVE  /\ <<c>> \o rest \in Seq(Byte) /\ <<c>> \o rest # <<>>
           /\ Head(<<c>> \o rest) = c /\ Tail(<<c>> \o rest) = rest
           /\ Len(<<c>> \o rest) = 1 + Len(rest)
<1>1. <<c>> \in Seq(Byte) /\ Len(<<c>>) = 1 /\ <<c>>[1] = c
  OBVIOUS
<1>2. /\ <<c>> \o rest \in Seq(Byte)
      /\ Len(<<c>> \o rest) = 1 + Len(rest)
      /\ \A i \in 1 .. 1 + Len(rest) :
             (<<c>> \o rest)[i] = IF i <= 1 THEN <<c>>[i] ELSE rest[i - 1]
  BY <1>1, ConcatProperties
<1>3. Len(rest) \in Nat
  BY LenProperties
<1>4. <<c>> \o rest # <<>>
  BY <1>2, <1>3
<1>5. Head(<<c>> \o rest) = c
  BY <1>1, <1>2, <1>3, <1>4
<1>6. /\ Tail(<<c>> \o rest) \in Seq(Byte)
      /\ Len(Tail(<<c>> \o rest)) = Len(rest)
      /\ \A i \in 1 .. Len(rest) : Tail(<<c>> \o rest)[i] = (<<c>> \o rest)[i + 1]
  BY <1>2, <1>3, <1>4, HeadTailProperties
<1>7. \A i \in 1 .. Len(rest) : Tail(<<c>> \o rest)[i] = rest[i]
  BY <1>2, <1>3, <1>6
<1>8. Tail(<<c>> \o rest) = rest
  BY <1>6, <1>7, SeqEqual
<1> QED BY <1>2, <1>4, <1>5, <1>8

\* A sequence that is not empty in front of others.
LEMMA ConcatHeadTail ==
    ASSUME NEW s \in Seq(Byte), NEW rest \in Seq(Byte), s # <<>>
    PROVE  /\ s \o rest # <<>>
           /\ Head(s \o rest) = s[1] /\ Tail(s \o rest) = Tail(s) \o rest
<1>1. /\ Len(s) \in Nat \ {0} /\ Len(rest) \in Nat
      /\ Tail(s) \in Seq(Byte) /\ Len(Tail(s)) = Len(s) - 1
      /\ \A i \in 1 .. Len(s) - 1 : Tail(s)[i] = s[i + 1]
  BY EmptySeq, LenProperties, HeadTailProperties
<1>2. /\ s \o rest \in Seq(Byte) /\ Len(s \o rest) = Len(s) + Len(rest)
      /\ \A i \in 1 .. Len(s) + Len(rest) :
             (s \o rest)[i] = IF i <= Len(s) THEN s[i] ELSE rest[i - Len(s)]
  BY ConcatProperties
<1>3. s \o rest # <<>> /\ Head(s \o rest) = s[1]
  BY <1>1, <1>2
<1>4. /\ Tail(s \o rest) \in Seq(Byte)
      /\ Len(Tail(s \o rest)) = Len(s) + Len(rest) - 1
      /\ \A i \in 1 .. Len(s) + Len(rest) - 1 : Tail(s \o rest)[i] = (s \o rest)[i + 1]
  BY <1>1, <1>2, <1>3, HeadTailProperties
<1>5. /\ Tail(s) \o rest \in Seq(Byte)
      /\ Len(Tail(s) \o rest) = Len(s) - 1 + Len(rest)
      /\ \A i \in 1 .. Len(s) - 1 + Len(rest) :
             (Tail(s) \o rest)[i] = IF i <= Len(s) - 1 THEN Tail(s)[i] ELSE rest[i - (Len(s) - 1)]
  BY <1>1, ConcatProperties
<1>6. \A i \in 1 .. Len(s) + Len(rest) - 1 : Tail(s \o rest)[i] = (Tail(s) \o rest)[i]
  BY <1>1, <1>2, <1>4, <1>5
<1>7. Tail(s \o rest) = Tail(s) \o rest
  BY <1>1, <1>4, <1>5, <1>6, SeqEqual
<1> QED BY <1>3, <1>7

\* Reading the first of n digits that are left of a field.
OneDigitRead(value, n, range, rest, bytes) ==
    /\ bytes # <<>> /\ IsHexDigit(Head(bytes))
    /\ WithDigit(value \div Power16[n + 1], Head(bytes), range) = value \div Power16[n]
    /\ Tail(bytes) = Digits(value, n - 1) \o rest

LEMMA FieldStep ==
    ASSUME NEW value, NEW n, NEW range, Field(value, n, range), NEW rest \in Seq(Byte),
           NEW bytes, bytes = Digits(value, n) \o rest
    PROVE  OneDigitRead(value, n, range, rest, bytes)
<1>1. value \in Word /\ n \in 1 .. 4
  BY FieldIsWord
<1>2. /\ Digits(value, n) \in Seq(Byte) /\ Len(Digits(value, n)) = n
      /\ IsHexDigit(Digits(value, n)[1])
  <2>1. n \in 0 .. 4 /\ 1 \in 1 .. n
    BY <1>1
  <2> QED BY <1>1, <2>1, DigitsAreBytes, Zenon
<1>3. Digits(value, n) # <<>>
  BY <1>1, <1>2
<1>4. Digits(value, n)[1] = Nibble2Char((value \div Power16[n]) % 16)
  BY <1>1 DEF Digits
<1>5. Tail(Digits(value, n)) = Digits(value, n - 1)
  <2>1. /\ Digits(value, n - 1) \in Seq(Byte) /\ Len(Digits(value, n - 1)) = n - 1
    <3>1. n - 1 \in 0 .. 4
      BY <1>1
    <3> QED BY <1>1, <3>1, DigitsAreBytes, Zenon
  <2>2. /\ Tail(Digits(value, n)) \in Seq(Byte) /\ Len(Tail(Digits(value, n))) = n - 1
        /\ \A i \in 1 .. n - 1 : Tail(Digits(value, n))[i] = Digits(value, n)[i + 1]
    BY <1>1, <1>2, <1>3, HeadTailProperties
  <2>3. \A i \in 1 .. n - 1 : Digits(value, n)[i + 1] = Digits(value, n - 1)[i]
    <3> SUFFICES ASSUME NEW i \in 1 .. n - 1
                 PROVE  Digits(value, n)[i + 1] = Digits(value, n - 1)[i]
      OBVIOUS
    <3>1. n - (i + 1) + 1 = n - 1 - i + 1 /\ i + 1 \in 1 .. n
      BY <1>1
    <3> QED BY <3>1 DEF Digits
  <2> QED BY <1>1, <2>1, <2>2, <2>3, SeqEqual
<1>6. WithDigit(value \div Power16[n + 1], Nibble2Char((value \div Power16[n]) % 16), range)
        = value \div Power16[n]
  BY DigitRead, Zenon
<1>7. /\ Digits(value, n) \o rest # <<>>
      /\ Head(Digits(value, n) \o rest) = Digits(value, n)[1]
      /\ Tail(Digits(value, n) \o rest) = Tail(Digits(value, n)) \o rest
  BY <1>2, <1>3, ConcatHeadTail
<1> QED BY <1>2, <1>4, <1>5, <1>6, <1>7, Zenon DEF OneDigitRead

\* All digits of a field have been read.
LEMMA FieldEnd ==
    ASSUME NEW value \in Word, NEW rest \in Seq(Byte)
    PROVE  Digits(value, 0) \o rest = rest /\ value \div Power16[1] = value
<1>1. Digits(value, 0) = <<>>
  BY DEF Digits
<1>2. value \div Power16[1] = value
  BY Widths, Powers, Z3
<1> QED BY <1>1, <1>2, ConcatEmptySeq

-----------------------------------------------------------------------------
(***************************************************************************)
(* Decoding a request                                                      *)
(***************************************************************************)

RequestDecoderType ==
    [st: {"Code", "Value", "Address", "WriteValue", "CRC", "Error"},
     code: RequestCodes \cup {unknown}, value: Byte, value2: Word,
     crc8: Byte, status: Status]

\* What the printer sends, ResetRq included.
SentMsg == {msg \in RequestMsg : msg.code # Write => msg.value2 = 0}

LEMMA Characters ==
    /\ \A c : IsHexDigit(c) => c # Star /\ c # Space /\ ~IsNewLine(c)
    /\ ~IsNewLine(Star) /\ ~IsNewLine(Space) /\ Star # Space
    /\ IsNewLine(NewLine) /\ ~IsHexDigit(NewLine) /\ ~IsHexDigit(Star) /\ ~IsHexDigit(Space)
    /\ \A c \in RequestCodes \cup ParamCodes : ~IsNewLine(c) /\ c # Star
    /\ \A c \in RequestCodes \cup ParamCodes : c # unknown
    /\ \A c : IsNewLine(c) => c # Star /\ c # Space /\ c \notin RequestCodes /\ ~IsHexDigit(c)
BY DEF IsHexDigit, IsNewLine, Star, Space, NewLine, Return, RequestCodes, ParamCodes, Commands,
       unknown, Query, Tool, Load, Mode, Unload, Reset, Finda, Version, Button, Eject, Write, Cut,
       FilamentType, FilamentSensor, Home, Read, Processing, Failed, Finished, Accepted, Rejected

LEMMA CharactersAreBytes ==
    /\ Star \in Byte /\ Space \in Byte /\ NewLine \in Byte
    /\ \A c \in RequestCodes \cup ParamCodes : c \in Byte
    /\ \A c : IsHexDigit(c) => c \in Byte
<1>1. /\ Star \in 0 .. 255 /\ Space \in 0 .. 255 /\ NewLine \in 0 .. 255
      /\ \A c \in RequestCodes \cup ParamCodes : c \in 0 .. 255
      /\ \A c : IsHexDigit(c) => c \in 0 .. 255
  BY DEF IsHexDigit, Star, Space, NewLine, RequestCodes, ParamCodes, Commands,
         unknown, Query, Tool, Load, Mode, Unload, Reset, Finda, Version, Button, Eject, Write,
         Cut, FilamentType, FilamentSensor, Home, Read, Processing, Failed, Finished, Accepted,
         Rejected
<1>2. Byte = 0 .. 255
  BY DEF Byte, ByteRange
<1> QED BY <1>1, <1>2, Zenon

LEMMA WithDigitInRange ==
    /\ \A value \in Byte : \A c : IsHexDigit(c) => WithDigit(value, c, ByteRange) \in Byte
    /\ \A value \in Word : \A c : IsHexDigit(c) => WithDigit(value, c, WordRange) \in Word
<1>1. \A c : IsHexDigit(c) => Char2Nibble(c) \in 0 .. 15
  BY DEF IsHexDigit, Char2Nibble
<1>2. ASSUME NEW value \in Byte, NEW c, IsHexDigit(c)
      PROVE  WithDigit(value, c, ByteRange) \in Byte
  <2>1. value \in Nat /\ ByteRange = 256
    BY Widths
  <2>2. (value * 16) % 256 \in Nat /\ (value * 16) % 256 <= 240
    BY <2>1, Z3
  <2> QED BY <1>1, <1>2, <2>1, <2>2, Widths DEF WithDigit
<1>3. ASSUME NEW value \in Word, NEW c, IsHexDigit(c)
      PROVE  WithDigit(value, c, WordRange) \in Word
  <2>1. value \in Nat /\ WordRange = 65536
    BY Widths
  <2>2. (value * 16) % 65536 \in Nat /\ (value * 16) % 65536 <= 65520
    BY <2>1, Z3
  <2> QED BY <1>1, <1>3, <2>1, <2>2, Widths DEF WithDigit
<1> QED BY <1>2, <1>3

LEMMA ZeroIsByte == 0 \in Byte /\ 0 \in Word
BY Widths

\* The alternatives of the decoder exclude each other.
LEMMA DecodeRequestCases ==
    ASSUME NEW r, NEW c
    PROVE  /\ r.st = "Code" /\ c \in RequestCodes =>
                DecodeRequest(r, c) =
                  [RequestDecoder EXCEPT !.st = IF c = Write THEN "Address" ELSE "Value", !.code = c]
           /\ r.st \in {"Value", "Address"} /\ IsHexDigit(c) =>
                DecodeRequest(r, c) = Expect([r EXCEPT !.value = WithDigit(@, c, ByteRange)], r.st)
           /\ r.st = "Address" /\ c = Space => DecodeRequest(r, c) = Expect(r, "WriteValue")
           /\ r.st = "WriteValue" /\ IsHexDigit(c) =>
                DecodeRequest(r, c) = Expect([r EXCEPT !.value2 = WithDigit(@, c, WordRange)], r.st)
           /\ r.st \in {"Value", "WriteValue"} /\ c = Star => DecodeRequest(r, c) = Expect(r, "CRC")
           /\ r.st = "CRC" /\ IsHexDigit(c) =>
                DecodeRequest(r, c) = Expect([r EXCEPT !.crc8 = WithDigit(@, c, ByteRange)], r.st)
           /\ IsNewLine(c) /\ (r.st = "Error" \/ (r.st = "CRC" /\ RequestCRCMatches(r))) =>
                DecodeRequest(r, c) = [r EXCEPT !.st = "Code", !.status = "MessageCompleted"]
           /\ \/ r.st = "Code" /\ c \notin RequestCodes
              \/ r.st = "Error" /\ ~IsNewLine(c)
              \/ r.st = "CRC" /\ ~IsHexDigit(c) /\ ~(IsNewLine(c) /\ RequestCRCMatches(r))
              \/ r.st \in {"Value", "Address", "WriteValue"} /\ IsNewLine(c)
              => DecodeRequest(r, c) = FailRequest(r)
<1>1. r.st = "Code" /\ c \in RequestCodes =>
        DecodeRequest(r, c) =
          [RequestDecoder EXCEPT !.st = IF c = Write THEN "Address" ELSE "Value", !.code = c]
  BY DEF DecodeRequest
<1>2. r.st \in {"Value", "Address"} /\ IsHexDigit(c) =>
        DecodeRequest(r, c) = Expect([r EXCEPT !.value = WithDigit(@, c, ByteRange)], r.st)
  BY Characters DEF DecodeRequest
<1>3. r.st = "Address" /\ c = Space => DecodeRequest(r, c) = Expect(r, "WriteValue")
  BY Characters DEF DecodeRequest
<1>4. r.st = "WriteValue" /\ IsHexDigit(c) =>
        DecodeRequest(r, c) = Expect([r EXCEPT !.value2 = WithDigit(@, c, WordRange)], r.st)
  BY Characters DEF DecodeRequest
<1>5. r.st \in {"Value", "WriteValue"} /\ c = Star => DecodeRequest(r, c) = Expect(r, "CRC")
  BY Characters DEF DecodeRequest
<1>6. r.st = "CRC" /\ IsHexDigit(c) =>
        DecodeRequest(r, c) = Expect([r EXCEPT !.crc8 = WithDigit(@, c, ByteRange)], r.st)
  BY Characters DEF DecodeRequest
<1>7. IsNewLine(c) /\ (r.st = "Error" \/ (r.st = "CRC" /\ RequestCRCMatches(r))) =>
        DecodeRequest(r, c) = [r EXCEPT !.st = "Code", !.status = "MessageCompleted"]
  BY Characters DEF DecodeRequest
<1>8. \/ r.st = "Code" /\ c \notin RequestCodes
      \/ r.st = "Error" /\ ~IsNewLine(c)
      \/ r.st = "CRC" /\ ~IsHexDigit(c) /\ ~(IsNewLine(c) /\ RequestCRCMatches(r))
      \/ r.st \in {"Value", "Address", "WriteValue"} /\ IsNewLine(c)
      => DecodeRequest(r, c) = FailRequest(r)
  BY Characters DEF DecodeRequest
<1> QED BY <1>1, <1>2, <1>3, <1>4, <1>5, <1>6, <1>7, <1>8, Zenon

LEMMA DecodeRequestType ==
    ASSUME NEW r \in RequestDecoderType, NEW c \in Byte
    PROVE  DecodeRequest(r, c) \in RequestDecoderType
<1>1. FailRequest(r) \in RequestDecoderType
  BY ZeroIsByte DEF FailRequest, RequestDecoder, RequestDecoderType, Status
<1>2. ASSUME NEW s \in RequestDecoderType, NEW st \in {"Value", "Address", "WriteValue", "CRC"}
      PROVE  Expect(s, st) \in RequestDecoderType
  BY <1>2 DEF Expect, RequestDecoderType, Status
<1>3. ASSUME IsHexDigit(c)
      PROVE  /\ [r EXCEPT !.value = WithDigit(@, c, ByteRange)] \in RequestDecoderType
             /\ [r EXCEPT !.value2 = WithDigit(@, c, WordRange)] \in RequestDecoderType
             /\ [r EXCEPT !.crc8 = WithDigit(@, c, ByteRange)] \in RequestDecoderType
  BY <1>3, WithDigitInRange DEF RequestDecoderType
<1>4. CASE r.st = "Code" /\ c \in RequestCodes
  <2>1. [RequestDecoder EXCEPT !.st = IF c = Write THEN "Address" ELSE "Value", !.code = c]
          \in RequestDecoderType
    BY <1>4, ZeroIsByte DEF RequestDecoder, RequestDecoderType, Status
  <2> QED BY <1>4, <2>1 DEF DecodeRequest
<1>5. CASE r.st \in {"Value", "Address"} /\ IsHexDigit(c)
  BY <1>2, <1>3, <1>5 DEF DecodeRequest
<1>6. CASE r.st = "Address" /\ c = Space
  BY <1>2, <1>6, Characters DEF DecodeRequest
<1>7. CASE r.st = "WriteValue" /\ IsHexDigit(c)
  BY <1>2, <1>3, <1>7 DEF DecodeRequest
<1>8. CASE r.st \in {"Value", "WriteValue"} /\ c = Star
  BY <1>2, <1>8, Characters DEF DecodeRequest
<1>9. CASE r.st = "CRC" /\ IsHexDigit(c)
  <2>1. DecodeRequest(r, c) = Expect([r EXCEPT !.crc8 = WithDigit(@, c, ByteRange)], "CRC")
    <3>1. DecodeRequest(r, c) = Expect([r EXCEPT !.crc8 = WithDigit(@, c, ByteRange)], r.st)
      BY <1>9, DecodeRequestCases, Zenon
    <3> QED BY <1>9, <3>1, Zenon
  <2>2. [r EXCEPT !.crc8 = WithDigit(@, c, ByteRange)] \in RequestDecoderType
    BY <1>3, <1>9, Zenon
  <2> QED BY <1>2, <2>1, <2>2
<1>10. CASE /\ IsNewLine(c)
            /\ r.st = "Error" \/ (r.st = "CRC" /\ RequestCRCMatches(r))
  <2>1. [r EXCEPT !.st = "Code", !.status = "MessageCompleted"] \in RequestDecoderType
    BY DEF RequestDecoderType, Status
  <2> QED BY <1>10, <2>1, Characters DEF DecodeRequest
<1> QED BY <1>1, <1>4, <1>5, <1>6, <1>7, <1>8, <1>9, <1>10 DEF DecodeRequest

\* Where the decoder may be in a request that it follows, and what is left of
\* the request then.
RequestEnd(msg) == <<Star>> \o (ToHex(RequestCRC(msg)) \o <<NewLine>>)
AfterValue(msg) ==
    IF msg.code = Write THEN <<Space>> \o (ToHex(msg.value2) \o RequestEnd(msg))
                        ELSE RequestEnd(msg)

InValue(msg, r, bytes, n) ==
    /\ r.st = IF msg.code = Write THEN "Address" ELSE "Value"
    /\ r.code = msg.code /\ r.value2 = 0 /\ r.crc8 = 0
    /\ r.value = msg.value \div Power16[n + 1]
    /\ bytes = Digits(msg.value, n) \o AfterValue(msg)

InWriteValue(msg, r, bytes, n) ==
    /\ r.st = "WriteValue" /\ msg.code = Write
    /\ r.code = msg.code /\ r.value = msg.value /\ r.crc8 = 0
    /\ r.value2 = msg.value2 \div Power16[n + 1]
    /\ bytes = Digits(msg.value2, n) \o RequestEnd(msg)

InRequestCRC(msg, r, bytes, n) ==
    /\ r.st = "CRC" /\ MessageOf(r) = msg
    /\ r.crc8 = RequestCRC(msg) \div Power16[n + 1]
    /\ bytes = Digits(RequestCRC(msg), n) \o <<NewLine>>

RequestDecoded(msg, r) == r.st = "Code" /\ r.status = "MessageCompleted" /\ MessageOf(r) = msg

FollowsRequest(msg, r, bytes) ==
    \/ r.st = "Code" /\ bytes = EncodeRequest(msg)
    \/ \E n \in 0 .. 2 : InValue(msg, r, bytes, n)
    \/ \E n \in 0 .. 4 : InWriteValue(msg, r, bytes, n)
    \/ \E n \in 0 .. 2 : InRequestCRC(msg, r, bytes, n)
    \/ RequestDecoded(msg, r) /\ bytes = <<>>

LEMMA ToHexIsSeq ==
    ASSUME NEW value \in Word
    PROVE  ToHex(value) \in Seq(Byte)
<1>1. PICK n \in 1 .. 4 : ToHex(value) = Digits(value, n)
  BY ToHexIsDigits DEF WrittenWith
<1> QED BY <1>1, DigitsAreBytes

LEMMA RequestParts ==
    ASSUME NEW msg \in SentMsg
    PROVE  /\ RequestCRC(msg) \in Byte /\ RequestCRC(msg) \in Word
           /\ msg.value \in Byte /\ msg.value \in Word /\ msg.value2 \in Word
           /\ msg.code \in RequestCodes
           /\ <<NewLine>> \in Seq(Byte) /\ RequestEnd(msg) \in Seq(Byte)
           /\ AfterValue(msg) \in Seq(Byte)
<1>1. /\ RequestCRC(msg) \in Byte /\ RequestCRC(msg) \in Word
      /\ msg.value \in Byte /\ msg.value \in Word /\ msg.value2 \in Word
      /\ msg.code \in RequestCodes
  BY RequestCRCIsByte, Widths DEF SentMsg, RequestMsg
<1>2. <<NewLine>> \in Seq(Byte) /\ Star \in Byte /\ Space \in Byte
  BY CharactersAreBytes
<1>3. ToHex(RequestCRC(msg)) \in Seq(Byte) /\ ToHex(msg.value2) \in Seq(Byte)
  BY <1>1, ToHexIsSeq
<1>4. RequestEnd(msg) \in Seq(Byte)
  BY <1>2, <1>3, ConcatProperties, OneByte DEF RequestEnd
<1>5. <<Space>> \o (ToHex(msg.value2) \o RequestEnd(msg)) \in Seq(Byte)
  BY <1>2, <1>3, <1>4, ConcatProperties, OneByte
<1> QED BY <1>1, <1>2, <1>4, <1>5 DEF AfterValue

LEMMA RequestBytes ==
    ASSUME NEW msg \in SentMsg
    PROVE  EncodeRequest(msg) = <<msg.code>> \o (ToHex(msg.value) \o AfterValue(msg))
<1>1. /\ <<msg.code>> \in Seq(Byte) /\ ToHex(msg.value) \in Seq(Byte)
      /\ ToHex(msg.value2) \in Seq(Byte) /\ ToHex(RequestCRC(msg)) \in Seq(Byte)
      /\ <<NewLine>> \in Seq(Byte) /\ <<Space>> \in Seq(Byte) /\ <<Star>> \in Seq(Byte)
  BY RequestParts, ToHexIsSeq, CharactersAreBytes, OneByte
<1>2. CASE msg.code = Write
  <2>1. EncodeRequest(msg) = ((((<<msg.code>> \o ToHex(msg.value)) \o <<Space>>) \o ToHex(msg.value2))
                               \o (<<Star>> \o ToHex(RequestCRC(msg)))) \o <<NewLine>>
    BY <1>2, Zenon DEF EncodeRequest, BeginEncodeRequest, AppendCRC
  <2>2. AfterValue(msg) = <<Space>> \o (ToHex(msg.value2)
                               \o (<<Star>> \o (ToHex(RequestCRC(msg)) \o <<NewLine>>)))
    BY <1>2, Zenon DEF AfterValue, RequestEnd
  <2>3. WriteAssociates(<<msg.code>>, ToHex(msg.value), <<Space>>, ToHex(msg.value2),
                        <<Star>>, ToHex(RequestCRC(msg)), <<NewLine>>)
    BY <1>1, AssociatesWrite, Zenon
  <2> QED BY <2>1, <2>2, <2>3, Zenon DEF WriteAssociates
<1>3. CASE msg.code # Write
  <2>1. EncodeRequest(msg) = ((<<msg.code>> \o ToHex(msg.value))
                               \o (<<Star>> \o ToHex(RequestCRC(msg)))) \o <<NewLine>>
    BY <1>3, Zenon DEF EncodeRequest, AppendCRC
  <2>2. AfterValue(msg) = <<Star>> \o (ToHex(RequestCRC(msg)) \o <<NewLine>>)
    BY <1>3, Zenon DEF AfterValue, RequestEnd
  <2>3. RequestAssociates(<<msg.code>>, ToHex(msg.value), <<Star>>, ToHex(RequestCRC(msg)),
                          <<NewLine>>)
    BY <1>1, Associates, Zenon
  <2> QED BY <2>1, <2>2, <2>3, Zenon DEF RequestAssociates
<1> QED BY <1>2, <1>3
-----------------------------------------------------------------------------
(***************************************************************************)
(* The invariant                                                           *)
(***************************************************************************)

ResponseDecoderType ==
    [st: {"RequestCode", "RequestValue", "ParamCode", "ParamValue", "CRC", "Error"},
     code: RequestCodes \cup {unknown}, value: Byte, value2: Word,
     paramCode: ParamCodes \cup {unknown}, paramValue: Word,
     crc8: Byte, status: Status]

\* What the MMU answers: the second value of a write request is not repeated.
AnswerMsg == [code: RequestCodes, value: Byte, value2: {0},
              paramCode: ParamCodes, paramValue: Word]

ReadBy(r) == ResponseTo(MessageOf(r), r.paramCode, r.paramValue)

AnswerEnd(a) == <<Star>> \o (ToHex(ResponseCRC(a)) \o <<NewLine>>)
AfterParamCode(a, withValue) ==
    IF withValue THEN ToHex(a.paramValue) \o AnswerEnd(a) ELSE AnswerEnd(a)
AfterSpace(a, withValue) == <<a.paramCode>> \o AfterParamCode(a, withValue)

\* Only the value zero is left out of an answer.
Form(a, withValue) == withValue \in BOOLEAN /\ (withValue \/ a.paramValue = 0)

InRequestValue(a, r, bytes, n, withValue) ==
    /\ r.st = "RequestValue"
    /\ r.code = a.code /\ r.value2 = 0 /\ r.crc8 = 0
    /\ r.value = a.value \div Power16[n + 1]
    /\ bytes = Digits(a.value, n) \o (<<Space>> \o AfterSpace(a, withValue))

InParamCode(a, r, bytes, withValue) ==
    /\ r.st = "ParamCode"
    /\ r.code = a.code /\ r.value = a.value /\ r.value2 = 0 /\ r.crc8 = 0
    /\ bytes = AfterSpace(a, withValue)

InParamValue(a, r, bytes, n) ==
    /\ r.st = "ParamValue"
    /\ r.code = a.code /\ r.value = a.value /\ r.value2 = 0 /\ r.crc8 = 0
    /\ r.paramCode = a.paramCode
    /\ r.paramValue = a.paramValue \div Power16[n + 1]
    /\ bytes = Digits(a.paramValue, n) \o AnswerEnd(a)

InAnswerCRC(a, r, bytes, n) ==
    /\ r.st = "CRC" /\ ReadBy(r) = a
    /\ r.crc8 = ResponseCRC(a) \div Power16[n + 1]
    /\ bytes = Digits(ResponseCRC(a), n) \o <<NewLine>>

AnswerRead(a, r) == r.st = "RequestCode" /\ r.status = "MessageCompleted" /\ ReadBy(r) = a

FollowsAnswer(a, r, bytes) ==
    \/ r.st = "RequestCode"
       /\ \E withValue \in BOOLEAN : Form(a, withValue) /\ bytes = EncodeResponse(a, withValue)
    \/ \E n \in 0 .. 2, withValue \in BOOLEAN :
           Form(a, withValue) /\ InRequestValue(a, r, bytes, n, withValue)
    \/ \E withValue \in BOOLEAN : Form(a, withValue) /\ InParamCode(a, r, bytes, withValue)
    \/ \E n \in 0 .. 4 : InParamValue(a, r, bytes, n)
    \/ \E n \in 0 .. 2 : InAnswerCRC(a, r, bytes, n)
    \/ AnswerRead(a, r) /\ bytes = <<>>

HasStar(bytes) == \E i \in 1 .. Len(bytes) : bytes[i] = Star
Line(bytes, size) ==
    /\ Len(bytes) \in 1 .. size /\ bytes[Len(bytes)] = NewLine
    /\ \A i \in 1 .. Len(bytes) - 1 : ~IsNewLine(bytes[i])

\* What may be left of an undisturbed message.
WholeLine(bytes, st, size) ==
    bytes # <<>> => Line(bytes, size) /\ (HasStar(bytes) \/ st \in {"CRC", "Error"})

\* What may be left of a disturbed one; start is the decoder's first state.
SpoiltLine(bytes, st, start, size) ==
    /\ Len(bytes) <= size
    /\ \A i \in 2 .. Len(bytes) - 1 : ~IsNewLine(bytes[i])
    /\ \/ bytes = <<>> /\ st \in {start, "CRC", "Error"}
       \/ bytes # <<>> /\ bytes[Len(bytes)] = NewLine
       \/ Len(bytes) = 1 /\ st \in {"CRC", "Error"}

\* An undisturbed message that the decoder was not ready for is skipped.
Astray(bytes, st, start) ==
    \/ st = "Error" /\ bytes # <<>>
    \/ st = "CRC" /\ HasStar(bytes)
    \/ st = start /\ bytes = <<>>

RequestDecoderInv(r) ==
    /\ r \in RequestDecoderType
    /\ r.st \in {"Address", "WriteValue"} => r.code = Write
    /\ r.code # Write => r.value2 = 0

RequestRecord == [msg: SentMsg, last: SentMsg, sound: BOOLEAN, prev: BOOLEAN]
AnswerRecord == [msg: AnswerMsg, last: AnswerMsg, sound: BOOLEAN, prev: BOOLEAN]
CurrentMsg == {msg \in SentMsg : msg.code \in Commands \cup {Reset}}

ProtocolType ==
    /\ RequestDecoderInv(rq) /\ current \in CurrentMsg
    /\ rsp \in ResponseDecoderType
    /\ toMMU \in Seq(Byte) /\ toPrinter \in Seq(Byte)
    /\ request \in RequestRecord /\ answer \in AnswerRecord
    /\ noisy \in {"request", "answer"}

\* The request q and what is left of it, with the decoder at r.
RequestInv(q, r, bytes) ==
    /\ q.sound =>
         /\ WholeLine(bytes, r.st, MaxRequestSize - 1)
         /\ \/ FollowsRequest(q.msg, r, bytes)
            \/ ~q.prev /\ Astray(bytes, r.st, "Code")
            \/ r.st = "Code" /\ bytes = <<>> /\ q.msg.code = Reset
    /\ ~q.sound => SpoiltLine(bytes, r.st, "Code", MaxRequestSize)

\* Two answers to one disturbed request, the first of them given at its
\* first line end.
SecondAnswer(a, r, bytes) ==
    \E first \in AnswerMsg, rest \in Seq(Byte), withValue \in BOOLEAN :
        /\ rest # <<>> /\ FollowsAnswer(first, r, rest)
        /\ Form(a, withValue)
        /\ bytes = rest \o EncodeResponse(a, withValue)

\* The answer q and what is left of it on the line to the printer; idle says
\* that no byte is on its way to the MMU.
AnswerInv(q, r, bytes, line, idle) ==
    /\ q.sound =>
         \/ FollowsAnswer(q.msg, r, bytes)
         \/ ~q.prev /\ line = "answer" /\ Astray(bytes, r.st, "RequestCode")
         \/ idle /\ line = "request" /\ SecondAnswer(q.msg, r, bytes)
    /\ q.sound /\ line = "answer" => WholeLine(bytes, r.st, MaxResponseSize - 1)
    /\ ~q.sound => SpoiltLine(bytes, r.st, "RequestCode", MaxResponseSize)

OnRequest == RequestInv(request, rq, toMMU)
OnAnswer == AnswerInv(answer, rsp, toPrinter, noisy, toMMU = <<>>)

\* Which messages may be on the lines together.
Turns ==
    /\ request.sound /\ toMMU # <<>> => toPrinter = <<>>
    /\ noisy = "answer" => request.sound \/ toMMU = <<>>
    /\ noisy = "request" => answer.sound \/ (toPrinter = <<>> /\ rsp.st = "RequestCode")
    /\ toPrinter # <<>> => \A i \in 1 .. Len(toMMU) - 1 : ~IsNewLine(toMMU[i])

Inv == ProtocolType /\ OnRequest /\ OnAnswer /\ Turns

-----------------------------------------------------------------------------
(***************************************************************************)
(* What is left of a message                                               *)
(***************************************************************************)

LEMMA TailFacts ==
    ASSUME NEW bytes \in Seq(Byte), bytes # <<>>
    PROVE  /\ Len(bytes) \in Nat /\ Len(bytes) >= 1
           /\ Head(bytes) = bytes[1] /\ Head(bytes) \in Byte
           /\ Tail(bytes) \in Seq(Byte) /\ Len(Tail(bytes)) = Len(bytes) - 1
           /\ \A i \in 1 .. Len(bytes) - 1 : Tail(bytes)[i] = bytes[i + 1]
           /\ Tail(bytes) = <<>> <=> Len(bytes) = 1
<1>1. Len(bytes) \in Nat /\ Len(bytes) # 0
  BY EmptySeq, LenProperties
<1>2. /\ Head(bytes) \in Byte /\ Tail(bytes) \in Seq(Byte)
      /\ Len(Tail(bytes)) = Len(bytes) - 1
      /\ \A i \in 1 .. Len(bytes) - 1 : Tail(bytes)[i] = bytes[i + 1]
  BY HeadTailProperties
<1>3. Head(bytes) = bytes[1]
  OBVIOUS
<1>4. Tail(bytes) = <<>> <=> Len(bytes) = 1
  BY <1>1, <1>2, EmptySeq
<1> QED BY <1>1, <1>2, <1>3, <1>4

\* What one byte does to the state of either decoder.
Turn(st, c, next, start) ==
    /\ IsNewLine(c) => next \in {start, "Error"}
    /\ st \in {"CRC", "Error"} => next \in {start, "CRC", "Error"}
    /\ st \in {"CRC", "Error"} /\ ~IsNewLine(c) => next \in {"CRC", "Error"}
    /\ c = Star => next \in {"CRC", "Error"}
    /\ st = "Error" => next = (IF IsNewLine(c) THEN start ELSE "Error")
    /\ st = "CRC" /\ c = Star => next = "Error"

LEMMA LineEnd ==
    ASSUME NEW bytes \in Seq(Byte), bytes # <<>>, NEW size \in Nat, Line(bytes, size)
    PROVE  /\ IsNewLine(Head(bytes)) <=> Tail(bytes) = <<>>
           /\ Tail(bytes) # <<>> => Line(Tail(bytes), size)
           /\ HasStar(bytes) /\ Head(bytes) # Star => HasStar(Tail(bytes))
           /\ HasStar(bytes) => Tail(bytes) # <<>>
<1>1. /\ Len(bytes) \in Nat /\ Len(bytes) >= 1 /\ Head(bytes) = bytes[1]
      /\ Tail(bytes) \in Seq(Byte) /\ Len(Tail(bytes)) = Len(bytes) - 1
      /\ \A i \in 1 .. Len(bytes) - 1 : Tail(bytes)[i] = bytes[i + 1]
      /\ Tail(bytes) = <<>> <=> Len(bytes) = 1
  BY TailFacts
<1>2. /\ Len(bytes) <= size /\ bytes[Len(bytes)] = NewLine
      /\ \A i \in 1 .. Len(bytes) - 1 : ~IsNewLine(bytes[i])
  BY DEF Line
<1>3. IsNewLine(Head(bytes)) <=> Tail(bytes) = <<>>
  BY <1>1, <1>2, Characters
<1>4. ASSUME Tail(bytes) # <<>> PROVE Line(Tail(bytes), size)
  <2>1. Len(bytes) - 1 \in 1 .. size /\ Len(bytes) - 1 \in 1 .. Len(bytes) - 1
    BY <1>1, <1>2, <1>4
  <2>2. Tail(bytes)[Len(bytes) - 1] = NewLine
    BY <1>1, <1>2, <2>1
  <2>3. \A i \in 1 .. Len(bytes) - 2 : ~IsNewLine(Tail(bytes)[i])
    <3> SUFFICES ASSUME NEW i \in 1 .. Len(bytes) - 2 PROVE ~IsNewLine(Tail(bytes)[i])
      OBVIOUS
    <3>1. i \in 1 .. Len(bytes) - 1 /\ i + 1 \in 1 .. Len(bytes) - 1
      BY <1>1
    <3> QED BY <1>1, <1>2, <3>1
  <2> QED BY <1>1, <2>1, <2>2, <2>3 DEF Line
<1>5. ASSUME HasStar(bytes), Head(bytes) # Star PROVE HasStar(Tail(bytes))
  <2>1. PICK i \in 1 .. Len(bytes) : bytes[i] = Star
    BY <1>5 DEF HasStar
  <2>2. i - 1 \in 1 .. Len(bytes) - 1 /\ (i - 1) + 1 = i
    BY <1>1, <1>5, <2>1
  <2>3. Tail(bytes)[i - 1] = Star
    BY <1>1, <2>1, <2>2
  <2> QED BY <1>1, <2>2, <2>3 DEF HasStar
<1>6. ASSUME HasStar(bytes) PROVE Tail(bytes) # <<>>
  <2>1. PICK i \in 1 .. Len(bytes) : bytes[i] = Star
    BY <1>6 DEF HasStar
  <2>2. i # Len(bytes)
    BY <1>2, <2>1, Characters
  <2>3. Len(bytes) # 1
    <3>1. i \in 1 .. Len(bytes) /\ Len(bytes) \in Nat
      BY <1>1
    <3>2. \A k \in Nat : \A j \in 1 .. k : j # k => k # 1
      OBVIOUS
    <3> QED BY <2>2, <3>1, <3>2, Zenon
  <2> QED BY <1>1, <2>3, Zenon
<1> QED BY <1>3, <1>4, <1>5, <1>6

\* A decoder that reads an undisturbed message to its end is ready for the next.
LEMMA WholeLineStep ==
    ASSUME NEW bytes \in Seq(Byte), bytes # <<>>, NEW size \in Nat, NEW st, NEW next, NEW start,
           WholeLine(bytes, st, size), Turn(st, Head(bytes), next, start)
    PROVE  /\ WholeLine(Tail(bytes), next, size)
           /\ IsNewLine(Head(bytes)) <=> Tail(bytes) = <<>>
<1>1. Line(bytes, size) /\ (HasStar(bytes) \/ st \in {"CRC", "Error"})
  BY DEF WholeLine
<1>2. /\ IsNewLine(Head(bytes)) <=> Tail(bytes) = <<>>
      /\ Tail(bytes) # <<>> => Line(Tail(bytes), size)
      /\ HasStar(bytes) /\ Head(bytes) # Star => HasStar(Tail(bytes))
  BY <1>1, LineEnd
<1>3. Tail(bytes) # <<>> => HasStar(Tail(bytes)) \/ next \in {"CRC", "Error"}
  BY <1>1, <1>2 DEF Turn
<1> QED BY <1>2, <1>3 DEF WholeLine

LEMMA LineInside ==
    ASSUME NEW bytes \in Seq(Byte), NEW st, NEW size \in Nat, WholeLine(bytes, st, size)
    PROVE  \A i \in 1 .. Len(bytes) - 1 : ~IsNewLine(bytes[i])
<1>1. CASE bytes = <<>>
  <2>1. Len(bytes) = 0
    BY <1>1
  <2> QED BY <2>1
<1>2. CASE bytes # <<>>
  BY <1>2, Zenon DEF WholeLine, Line
<1> QED BY <1>1, <1>2

LEMMA AstrayStep ==
    ASSUME NEW bytes \in Seq(Byte), bytes # <<>>, NEW size \in Nat, NEW st, NEW next, NEW start,
           start \notin {"CRC", "Error"},
           WholeLine(bytes, st, size), Turn(st, Head(bytes), next, start), Astray(bytes, st, start)
    PROVE  Astray(Tail(bytes), next, start)
<1>1. Line(bytes, size)
  BY DEF WholeLine
<1>2. /\ IsNewLine(Head(bytes)) <=> Tail(bytes) = <<>>
      /\ HasStar(bytes) /\ Head(bytes) # Star => HasStar(Tail(bytes))
      /\ HasStar(bytes) => Tail(bytes) # <<>>
  BY <1>1, LineEnd
<1>3. CASE st = "Error"
  BY <1>2, <1>3 DEF Turn, Astray
<1>4. CASE st = "CRC" /\ HasStar(bytes)
  BY <1>2, <1>4 DEF Turn, Astray
<1> QED BY <1>3, <1>4 DEF Astray

LEMMA SpoiltLineStep ==
    ASSUME NEW bytes \in Seq(Byte), bytes # <<>>, NEW size \in Nat, NEW st, NEW next, NEW start,
           SpoiltLine(bytes, st, start, size), Turn(st, Head(bytes), next, start)
    PROVE  /\ SpoiltLine(Tail(bytes), next, start, size)
           /\ \A i \in 1 .. Len(Tail(bytes)) - 1 : ~IsNewLine(Tail(bytes)[i])
<1>1. /\ Len(bytes) \in Nat /\ Len(bytes) >= 1 /\ Head(bytes) = bytes[1]
      /\ Tail(bytes) \in Seq(Byte) /\ Len(Tail(bytes)) = Len(bytes) - 1
      /\ \A i \in 1 .. Len(bytes) - 1 : Tail(bytes)[i] = bytes[i + 1]
      /\ Tail(bytes) = <<>> <=> Len(bytes) = 1
  BY TailFacts
<1>2. /\ Len(bytes) <= size
      /\ \A i \in 2 .. Len(bytes) - 1 : ~IsNewLine(bytes[i])
      /\ \/ bytes[Len(bytes)] = NewLine
         \/ Len(bytes) = 1 /\ st \in {"CRC", "Error"}
  BY DEF SpoiltLine
<1>3. \A i \in 1 .. Len(Tail(bytes)) - 1 : ~IsNewLine(Tail(bytes)[i])
  <2> SUFFICES ASSUME NEW i \in 1 .. Len(bytes) - 2 PROVE ~IsNewLine(Tail(bytes)[i])
    BY <1>1
  <2>1. i \in 1 .. Len(bytes) - 1 /\ i + 1 \in 2 .. Len(bytes) - 1
    BY <1>1
  <2> QED BY <1>1, <1>2, <2>1
<1>4. \A i \in 2 .. Len(Tail(bytes)) - 1 : ~IsNewLine(Tail(bytes)[i])
  BY <1>1, <1>3
<1>5. CASE Len(bytes) = 1
  <2>1. Tail(bytes) = <<>>
    BY <1>1, <1>5
  <2>2. next \in {start, "CRC", "Error"}
    <3>1. CASE bytes[Len(bytes)] = NewLine
      <4>1. IsNewLine(Head(bytes))
        BY <1>1, <1>5, <3>1, Characters
      <4> QED BY <4>1 DEF Turn
    <3>2. CASE st \in {"CRC", "Error"}
      BY <3>2 DEF Turn
    <3> QED BY <1>2, <3>1, <3>2
  <2> QED BY <1>1, <1>2, <1>3, <1>4, <2>1, <2>2 DEF SpoiltLine
<1>6. CASE Len(bytes) # 1
  <2>1. Len(bytes) - 1 \in 1 .. Len(bytes) - 1 /\ Tail(bytes) # <<>>
    BY <1>1, <1>6
  <2>2. Tail(bytes)[Len(Tail(bytes))] = NewLine
    BY <1>1, <1>2, <1>6, <2>1
  <2> QED BY <1>1, <1>2, <1>3, <1>4, <2>1, <2>2 DEF SpoiltLine
<1> QED BY <1>5, <1>6

\* One byte of an undisturbed message is disturbed.
LEMMA LineDisturbed ==
    ASSUME NEW bytes \in Seq(Byte), bytes # <<>>, NEW size \in Nat, NEW st, NEW start,
           WholeLine(bytes, st, size), NEW result \in Disturbed(bytes)
    PROVE  result \in Seq(Byte) /\ SpoiltLine(result, st, start, size + 1)
<1>1. /\ Len(bytes) \in Nat /\ Len(bytes) >= 1 /\ Head(bytes) = bytes[1] /\ Head(bytes) \in Byte
      /\ Tail(bytes) \in Seq(Byte) /\ Len(Tail(bytes)) = Len(bytes) - 1
      /\ \A i \in 1 .. Len(bytes) - 1 : Tail(bytes)[i] = bytes[i + 1]
      /\ Tail(bytes) = <<>> <=> Len(bytes) = 1
  BY TailFacts
<1>2. /\ Len(bytes) <= size /\ bytes[Len(bytes)] = NewLine
      /\ \A i \in 1 .. Len(bytes) - 1 : ~IsNewLine(bytes[i])
      /\ Len(bytes) = 1 => st \in {"CRC", "Error"}
  <2>1. Line(bytes, size) /\ (HasStar(bytes) \/ st \in {"CRC", "Error"})
    BY DEF WholeLine
  <2>2. HasStar(bytes) => Len(bytes) # 1
    BY <1>1, <2>1, LineEnd
  <2> QED BY <2>1, <2>2 DEF Line
<1>3. CASE result = Tail(bytes)
  <2>1. \A i \in 2 .. Len(bytes) - 2 : ~IsNewLine(Tail(bytes)[i])
    <3> SUFFICES ASSUME NEW i \in 2 .. Len(bytes) - 2 PROVE ~IsNewLine(Tail(bytes)[i])
      OBVIOUS
    <3>1. i \in 1 .. Len(bytes) - 1 /\ i + 1 \in 1 .. Len(bytes) - 1
      BY <1>1
    <3> QED BY <1>1, <1>2, <3>1
  <2>2. Len(bytes) # 1 => Tail(bytes)[Len(bytes) - 1] = NewLine
    <3> SUFFICES ASSUME Len(bytes) # 1 PROVE Tail(bytes)[Len(bytes) - 1] = NewLine
      OBVIOUS
    <3>1. Len(bytes) - 1 \in 1 .. Len(bytes) - 1
      BY <1>1
    <3> QED BY <1>1, <1>2, <3>1
  <2>3. SpoiltLine(Tail(bytes), st, start, size + 1)
    BY <1>1, <1>2, <2>1, <2>2 DEF SpoiltLine
  <2> QED BY <1>1, <1>3, <2>3
<1>4. CASE \E c \in Noise : result = <<c>> \o Tail(bytes)
  <2>1. PICK c \in Noise : result = <<c>> \o Tail(bytes)
    BY <1>4
  <2>2. c \in Byte
    BY NoiseAssumption
  <2>3. /\ result \in Seq(Byte) /\ result # <<>> /\ Head(result) = c /\ Tail(result) = Tail(bytes)
        /\ Len(result) = Len(bytes)
    BY <1>1, <2>1, <2>2, OneByte
  <2>4. \A i \in 1 .. Len(result) - 1 : Tail(result)[i] = result[i + 1]
    BY <2>3, TailFacts
  <2>5. \A i \in 2 .. Len(bytes) : result[i] = bytes[i]
    <3> SUFFICES ASSUME NEW i \in 2 .. Len(bytes) PROVE result[i] = bytes[i]
      OBVIOUS
    <3>1. i - 1 \in 1 .. Len(bytes) - 1 /\ (i - 1) + 1 = i
      BY <1>1
    <3> QED BY <1>1, <2>3, <2>4, <3>1
  <2>6. SpoiltLine(result, st, start, size + 1)
    BY <1>1, <1>2, <2>3, <2>5 DEF SpoiltLine
  <2> QED BY <2>3, <2>6
<1>5. CASE result = <<Head(bytes)>> \o bytes
  <2>1. /\ result \in Seq(Byte) /\ result # <<>> /\ Tail(result) = bytes
        /\ Len(result) = Len(bytes) + 1
    BY <1>1, <1>5, OneByte
  <2>2. \A i \in 1 .. Len(bytes) : bytes[i] = result[i + 1]
    <3>1. \A i \in 1 .. Len(result) - 1 : Tail(result)[i] = result[i + 1]
      BY <2>1, TailFacts
    <3>2. Len(result) - 1 = Len(bytes)
      BY <1>1, <2>1
    <3> QED BY <2>1, <3>1, <3>2, Zenon
  <2>3. \A i \in 2 .. Len(bytes) + 1 : result[i] = bytes[i - 1]
    <3> SUFFICES ASSUME NEW i \in 2 .. Len(bytes) + 1 PROVE result[i] = bytes[i - 1]
      OBVIOUS
    <3>1. i - 1 \in 1 .. Len(bytes) /\ (i - 1) + 1 = i
      BY <1>1
    <3> QED BY <1>1, <2>1, <2>2, <3>1
  <2>4. result[Len(result)] = NewLine
    BY <1>1, <1>2, <2>1, <2>3
  <2>5. \A i \in 2 .. Len(result) - 1 : ~IsNewLine(result[i])
    <3> SUFFICES ASSUME NEW i \in 2 .. Len(result) - 1 PROVE ~IsNewLine(result[i])
      OBVIOUS
    <3>1. i - 1 \in 1 .. Len(bytes) - 1 /\ i \in 2 .. Len(bytes) + 1
      BY <1>1, <2>1
    <3> QED BY <1>2, <2>3, <3>1
  <2>6. SpoiltLine(result, st, start, size + 1)
    BY <1>1, <1>2, <2>1, <2>4, <2>5 DEF SpoiltLine
  <2> QED BY <2>1, <2>6
<1>6. \/ result = Tail(bytes)
      \/ \E c \in Noise : result = <<c>> \o Tail(bytes)
      \/ result = <<Head(bytes)>> \o bytes
  BY DEF Disturbed
<1> QED BY <1>3, <1>4, <1>5, <1>6

-----------------------------------------------------------------------------
(***************************************************************************)
(* A request is followed byte by byte                                      *)
(***************************************************************************)

\* What a byte does to the decoder of requests, whatever it has read so far.
LEMMA DecodeRequestTurn ==
    ASSUME NEW r \in RequestDecoderType, NEW c \in Byte,
           r.st \in {"Address", "WriteValue"} => r.code = Write,
           r.code # Write => r.value2 = 0
    PROVE  LET d == DecodeRequest(r, c)
           IN  /\ Turn(r.st, c, d.st, "Code")
               /\ d.status = "MessageCompleted" => IsNewLine(c)
               /\ d.st \in {"Address", "WriteValue"} => d.code = Write
               /\ d.code # Write => d.value2 = 0
<1> DEFINE d == DecodeRequest(r, c)
           Goal(e) == /\ Turn(r.st, c, e.st, "Code")
                      /\ e.status = "MessageCompleted" => IsNewLine(c)
                      /\ e.st \in {"Address", "WriteValue"} => e.code = Write
                      /\ e.code # Write => e.value2 = 0
<1>1. r.st \in {"Code", "Value", "Address", "WriteValue", "CRC", "Error"}
  BY DEF RequestDecoderType
<1>2. CASE r.st = "Code" /\ c \in RequestCodes
  <2>1. d = [RequestDecoder EXCEPT !.st = IF c = Write THEN "Address" ELSE "Value", !.code = c]
    BY <1>2, DecodeRequestCases, Zenon
  <2> HIDE DEF d
  <2>2. /\ d.st = IF c = Write THEN "Address" ELSE "Value"
        /\ d.code = c /\ d.value2 = 0 /\ d.status = "NeedMoreData"
    BY <2>1 DEF RequestDecoder
  <2> QED BY <1>2, <2>2, Characters DEF Turn, d
<1>3. CASE r.st \in {"Value", "Address"} /\ IsHexDigit(c)
  <2>1. d = Expect([r EXCEPT !.value = WithDigit(@, c, ByteRange)], r.st)
    BY <1>3, DecodeRequestCases, Zenon
  <2> HIDE DEF d
  <2>2. /\ d.st = r.st /\ d.code = r.code /\ d.value2 = r.value2 /\ d.status = "NeedMoreData"
    BY <2>1 DEF Expect, RequestDecoderType
  <2> QED BY <1>3, <2>2, Characters DEF Turn, d
<1>4. CASE r.st = "Address" /\ c = Space
  <2>1. d = Expect(r, "WriteValue")
    BY <1>4, DecodeRequestCases, Zenon
  <2> HIDE DEF d
  <2>2. /\ d.st = "WriteValue" /\ d.code = r.code /\ d.value2 = r.value2 /\ d.status = "NeedMoreData"
    BY <2>1 DEF Expect, RequestDecoderType
  <2> QED BY <1>4, <2>2, Characters DEF Turn, d
<1>5. CASE r.st = "WriteValue" /\ IsHexDigit(c)
  <2>1. d = Expect([r EXCEPT !.value2 = WithDigit(@, c, WordRange)], r.st)
    BY <1>5, DecodeRequestCases, Zenon
  <2> HIDE DEF d
  <2>2. /\ d.st = r.st /\ d.code = r.code /\ d.status = "NeedMoreData"
    BY <2>1 DEF Expect, RequestDecoderType
  <2> QED BY <1>5, <2>2, Characters DEF Turn, d
<1>6. CASE r.st \in {"Value", "WriteValue"} /\ c = Star
  <2>1. d = Expect(r, "CRC")
    BY <1>6, DecodeRequestCases, Zenon
  <2> HIDE DEF d
  <2>2. /\ d.st = "CRC" /\ d.code = r.code /\ d.value2 = r.value2 /\ d.status = "NeedMoreData"
    BY <2>1 DEF Expect, RequestDecoderType
  <2> QED BY <1>6, <2>2, Characters DEF Turn, d
<1>7. CASE r.st = "CRC" /\ IsHexDigit(c)
  <2>1. d = Expect([r EXCEPT !.crc8 = WithDigit(@, c, ByteRange)], r.st)
    BY <1>7, DecodeRequestCases, Zenon
  <2> HIDE DEF d
  <2>2. /\ d.st = "CRC" /\ d.code = r.code /\ d.value2 = r.value2 /\ d.status = "NeedMoreData"
    BY <1>7, <2>1 DEF Expect, RequestDecoderType
  <2> QED BY <1>7, <2>2, Characters DEF Turn, d
<1>8. CASE IsNewLine(c) /\ (r.st = "Error" \/ (r.st = "CRC" /\ RequestCRCMatches(r)))
  <2>1. d = [r EXCEPT !.st = "Code", !.status = "MessageCompleted"]
    BY <1>8, DecodeRequestCases, Zenon
  <2> HIDE DEF d
  <2>2. /\ d.st = "Code" /\ d.code = r.code /\ d.value2 = r.value2
    BY <2>1 DEF RequestDecoderType
  <2> QED BY <1>8, <2>2, Characters DEF Turn, d
<1>9. CASE d = FailRequest(r) /\ ~(r.st = "Error" /\ IsNewLine(c))
  <2> HIDE DEF d
  <2>1. /\ d.st = "Error" /\ d.value2 = 0 /\ d.status = "Error"
    BY <1>9 DEF FailRequest, RequestDecoder
  <2> QED BY <1>9, <2>1 DEF Turn, d
<1> QED BY <1>1, <1>2, <1>3, <1>4, <1>5, <1>6, <1>7, <1>8, <1>9, Characters DEF DecodeRequest

LEMMA AfterCode ==
    ASSUME NEW msg \in SentMsg, NEW r \in RequestDecoderType, r.st = "Code"
    PROVE  LET bytes == EncodeRequest(msg)
           IN  /\ bytes # <<>>
               /\ FollowsRequest(msg, DecodeRequest(r, Head(bytes)), Tail(bytes))
<1> DEFINE bytes == EncodeRequest(msg)
           d == DecodeRequest(r, msg.code)
<1>1. /\ msg.code \in RequestCodes /\ msg.code \in Byte /\ msg.value \in Byte /\ msg.value \in Word
      /\ AfterValue(msg) \in Seq(Byte) /\ ToHex(msg.value) \in Seq(Byte)
  BY RequestParts, CharactersAreBytes, ToHexIsSeq
<1>2. bytes # <<>> /\ Head(bytes) = msg.code /\ Tail(bytes) = ToHex(msg.value) \o AfterValue(msg)
  <2>1. ToHex(msg.value) \o AfterValue(msg) \in Seq(Byte)
    BY <1>1, Concat
  <2>2. bytes = <<msg.code>> \o (ToHex(msg.value) \o AfterValue(msg))
    BY RequestBytes
  <2> QED BY <1>1, <2>1, <2>2, OneByte, Zenon
<1>3. PICK n \in 1 .. 4 : WrittenWith(msg.value, n)
  BY <1>1, ToHexIsDigits
<1>4. n \in 0 .. 2
  BY <1>1, <1>3 DEF WrittenWith
<1>5. d = [RequestDecoder EXCEPT !.st = IF msg.code = Write THEN "Address" ELSE "Value",
                                 !.code = msg.code]
  BY <1>1, DecodeRequestCases, Zenon
<1> HIDE DEF d
<1>6. /\ d.st = IF msg.code = Write THEN "Address" ELSE "Value"
      /\ d.code = msg.code /\ d.value = 0 /\ d.value2 = 0 /\ d.crc8 = 0
  BY <1>5 DEF RequestDecoder
<1>7. InValue(msg, d, ToHex(msg.value) \o AfterValue(msg), n)
  BY <1>3, <1>6, Zenon DEF InValue, WrittenWith
<1> QED BY <1>2, <1>4, <1>7, Zenon DEF FollowsRequest, d

LEMMA AfterValueByte ==
    ASSUME NEW msg \in SentMsg, NEW r \in RequestDecoderType, NEW bytes \in Seq(Byte),
           NEW n \in 0 .. 2, InValue(msg, r, bytes, n)
    PROVE  FollowsRequest(msg, DecodeRequest(r, Head(bytes)), Tail(bytes))
<1> DEFINE d == DecodeRequest(r, Head(bytes))
<1>1. /\ msg.code \in RequestCodes /\ msg.value \in Byte /\ msg.value \in Word
      /\ msg.value2 \in Word /\ RequestCRC(msg) \in Byte /\ RequestCRC(msg) \in Word
      /\ AfterValue(msg) \in Seq(Byte) /\ RequestEnd(msg) \in Seq(Byte)
      /\ <<NewLine>> \in Seq(Byte)
  BY RequestParts
<1>2. /\ r.st = IF msg.code = Write THEN "Address" ELSE "Value"
      /\ r.code = msg.code /\ r.value2 = 0 /\ r.crc8 = 0
      /\ r.value = msg.value \div Power16[n + 1]
      /\ bytes = Digits(msg.value, n) \o AfterValue(msg)
  BY DEF InValue
<1>3. CASE n # 0
  <2>1. Field(msg.value, n, ByteRange) /\ n - 1 \in 0 .. 2 /\ (n - 1) + 1 = n
    BY <1>1, <1>3 DEF Field
  <2>2. /\ IsHexDigit(Head(bytes))
        /\ WithDigit(msg.value \div Power16[n + 1], Head(bytes), ByteRange) = msg.value \div Power16[n]
        /\ Tail(bytes) = Digits(msg.value, n - 1) \o AfterValue(msg)
    <3>1. OneDigitRead(msg.value, n, ByteRange, AfterValue(msg), bytes)
      BY <1>1, <1>2, <2>1, FieldStep, Zenon
    <3> QED BY <3>1, Zenon DEF OneDigitRead
  <2>3. d = Expect([r EXCEPT !.value = WithDigit(@, Head(bytes), ByteRange)], r.st)
    <3>1. r.st \in {"Value", "Address"}
      BY <1>2
    <3> QED BY <2>2, <3>1, DecodeRequestCases, Zenon
  <2> HIDE DEF d
  <2>4. /\ d.st = r.st /\ d.code = r.code /\ d.value2 = r.value2 /\ d.crc8 = r.crc8
        /\ d.value = WithDigit(r.value, Head(bytes), ByteRange)
    BY <2>3 DEF Expect, RequestDecoderType
  <2>5. InValue(msg, d, Tail(bytes), n - 1)
    BY <1>2, <2>1, <2>2, <2>4, Zenon DEF InValue
  <2> QED BY <2>1, <2>5, Zenon DEF FollowsRequest, d
<1>4. CASE n = 0
  <2>1. bytes = AfterValue(msg) /\ r.value = msg.value
    <3>1. Digits(msg.value, 0) \o AfterValue(msg) = AfterValue(msg)
          /\ msg.value \div Power16[1] = msg.value
      BY <1>1, FieldEnd
    <3>2. r.value = msg.value \div Power16[1] /\ bytes = Digits(msg.value, 0) \o AfterValue(msg)
      BY <1>2, <1>4
    <3> QED BY <3>1, <3>2, Zenon
  <2>2. CASE msg.code = Write
    <3>1. bytes = <<Space>> \o (ToHex(msg.value2) \o RequestEnd(msg))
      BY <2>1, <2>2 DEF AfterValue
    <3>2. Space \in Byte /\ ToHex(msg.value2) \o RequestEnd(msg) \in Seq(Byte)
      BY <1>1, CharactersAreBytes, ToHexIsSeq, Concat
    <3>3. Head(bytes) = Space /\ Tail(bytes) = ToHex(msg.value2) \o RequestEnd(msg)
      BY <3>1, <3>2, OneByte
    <3>4. d = Expect(r, "WriteValue")
      BY <1>2, <2>2, <3>3, DecodeRequestCases, Zenon
    <3>5. PICK k \in 1 .. 4 : WrittenWith(msg.value2, k)
      BY <1>1, ToHexIsDigits
    <3> HIDE DEF d
    <3>6. /\ d.st = "WriteValue" /\ d.code = r.code /\ d.value = r.value
          /\ d.value2 = r.value2 /\ d.crc8 = r.crc8
      BY <3>4 DEF Expect, RequestDecoderType
    <3>7. InWriteValue(msg, d, Tail(bytes), k)
      BY <1>2, <2>1, <2>2, <3>3, <3>5, <3>6, Zenon DEF InWriteValue, WrittenWith
    <3>8. k \in 0 .. 4
      OBVIOUS
    <3> QED BY <3>7, <3>8, Zenon DEF FollowsRequest, d
  <2>3. CASE msg.code # Write
    <3>1. bytes = <<Star>> \o (ToHex(RequestCRC(msg)) \o <<NewLine>>)
      BY <2>1, <2>3 DEF AfterValue, RequestEnd
    <3>2. Star \in Byte /\ ToHex(RequestCRC(msg)) \o <<NewLine>> \in Seq(Byte)
      BY <1>1, CharactersAreBytes, ToHexIsSeq, Concat
    <3>3. Head(bytes) = Star /\ Tail(bytes) = ToHex(RequestCRC(msg)) \o <<NewLine>>
      BY <3>1, <3>2, OneByte
    <3>4. d = Expect(r, "CRC")
      <4>1. r.st \in {"Value", "WriteValue"}
        BY <1>2, <2>3
      <4> QED BY <3>3, <4>1, DecodeRequestCases, Zenon
    <3>5. PICK k \in 1 .. 4 : WrittenWith(RequestCRC(msg), k)
      BY <1>1, ToHexIsDigits
    <3>6. k \in 0 .. 2
      BY <1>1, <3>5 DEF WrittenWith
    <3> HIDE DEF d
    <3>7. /\ d.st = "CRC" /\ d.code = r.code /\ d.value = r.value
          /\ d.value2 = r.value2 /\ d.crc8 = r.crc8
      BY <3>4 DEF Expect, RequestDecoderType
    <3>8. MessageOf(d) = msg
      <4>1. msg = [code |-> msg.code, value |-> msg.value, value2 |-> msg.value2]
            /\ msg.value2 = 0
        BY <2>3 DEF SentMsg, RequestMsg
      <4> QED BY <1>2, <2>1, <3>7, <4>1 DEF MessageOf
    <3>9. InRequestCRC(msg, d, Tail(bytes), k)
      BY <1>2, <3>3, <3>5, <3>7, <3>8, Zenon DEF InRequestCRC, WrittenWith
    <3> QED BY <3>6, <3>9, Zenon DEF FollowsRequest, d
  <2> QED BY <2>2, <2>3
<1> QED BY <1>3, <1>4

LEMMA AfterWriteByte ==
    ASSUME NEW msg \in SentMsg, NEW r \in RequestDecoderType, NEW bytes \in Seq(Byte),
           NEW n \in 0 .. 4, InWriteValue(msg, r, bytes, n)
    PROVE  FollowsRequest(msg, DecodeRequest(r, Head(bytes)), Tail(bytes))
<1> DEFINE d == DecodeRequest(r, Head(bytes))
<1>1. /\ msg.value2 \in Word /\ RequestCRC(msg) \in Byte /\ RequestCRC(msg) \in Word
      /\ RequestEnd(msg) \in Seq(Byte) /\ <<NewLine>> \in Seq(Byte)
  BY RequestParts
<1>2. /\ r.st = "WriteValue" /\ msg.code = Write
      /\ r.code = msg.code /\ r.value = msg.value /\ r.crc8 = 0
      /\ r.value2 = msg.value2 \div Power16[n + 1]
      /\ bytes = Digits(msg.value2, n) \o RequestEnd(msg)
  BY DEF InWriteValue
<1>3. CASE n # 0
  <2>1. Field(msg.value2, n, WordRange) /\ n - 1 \in 0 .. 4 /\ (n - 1) + 1 = n
    BY <1>1, <1>3 DEF Field
  <2>2. /\ IsHexDigit(Head(bytes))
        /\ WithDigit(msg.value2 \div Power16[n + 1], Head(bytes), WordRange)
             = msg.value2 \div Power16[n]
        /\ Tail(bytes) = Digits(msg.value2, n - 1) \o RequestEnd(msg)
    <3>1. OneDigitRead(msg.value2, n, WordRange, RequestEnd(msg), bytes)
      BY <1>1, <1>2, <2>1, FieldStep, Zenon
    <3> QED BY <3>1, Zenon DEF OneDigitRead
  <2>3. d = Expect([r EXCEPT !.value2 = WithDigit(@, Head(bytes), WordRange)], r.st)
    BY <1>2, <2>2, DecodeRequestCases, Zenon
  <2> HIDE DEF d
  <2>4. /\ d.st = r.st /\ d.code = r.code /\ d.value = r.value /\ d.crc8 = r.crc8
        /\ d.value2 = WithDigit(r.value2, Head(bytes), WordRange)
    BY <2>3 DEF Expect, RequestDecoderType
  <2>5. InWriteValue(msg, d, Tail(bytes), n - 1)
    BY <1>2, <2>1, <2>2, <2>4, Zenon DEF InWriteValue
  <2> QED BY <2>1, <2>5, Zenon DEF FollowsRequest, d
<1>4. CASE n = 0
  <2>1. bytes = RequestEnd(msg) /\ r.value2 = msg.value2
    <3>1. Digits(msg.value2, 0) \o RequestEnd(msg) = RequestEnd(msg)
          /\ msg.value2 \div Power16[1] = msg.value2
      BY <1>1, FieldEnd
    <3>2. r.value2 = msg.value2 \div Power16[1] /\ bytes = Digits(msg.value2, 0) \o RequestEnd(msg)
      BY <1>2, <1>4
    <3> QED BY <3>1, <3>2, Zenon
  <2>2. Star \in Byte /\ ToHex(RequestCRC(msg)) \o <<NewLine>> \in Seq(Byte)
    BY <1>1, CharactersAreBytes, ToHexIsSeq, Concat
  <2>3. Head(bytes) = Star /\ Tail(bytes) = ToHex(RequestCRC(msg)) \o <<NewLine>>
    BY <2>1, <2>2, OneByte DEF RequestEnd
  <2>4. d = Expect(r, "CRC")
    <3>1. r.st \in {"Value", "WriteValue"}
      BY <1>2
    <3> QED BY <2>3, <3>1, DecodeRequestCases, Zenon
  <2>5. PICK k \in 1 .. 4 : WrittenWith(RequestCRC(msg), k)
    BY <1>1, ToHexIsDigits
  <2>6. k \in 0 .. 2
    BY <1>1, <2>5 DEF WrittenWith
  <2> HIDE DEF d
  <2>7. /\ d.st = "CRC" /\ d.code = r.code /\ d.value = r.value
        /\ d.value2 = r.value2 /\ d.crc8 = r.crc8
    BY <2>4 DEF Expect, RequestDecoderType
  <2>8. MessageOf(d) = msg
    <3>1. msg = [code |-> msg.code, value |-> msg.value, value2 |-> msg.value2]
      BY DEF SentMsg, RequestMsg
    <3> QED BY <1>2, <2>1, <2>7, <3>1 DEF MessageOf
  <2>9. InRequestCRC(msg, d, Tail(bytes), k)
    BY <1>2, <2>3, <2>5, <2>7, <2>8, Zenon DEF InRequestCRC, WrittenWith
  <2> QED BY <2>6, <2>9, Zenon DEF FollowsRequest, d
<1> QED BY <1>3, <1>4

LEMMA AfterCRCByte ==
    ASSUME NEW msg \in SentMsg, NEW r \in RequestDecoderType, NEW bytes \in Seq(Byte),
           NEW n \in 0 .. 2, InRequestCRC(msg, r, bytes, n)
    PROVE  FollowsRequest(msg, DecodeRequest(r, Head(bytes)), Tail(bytes))
<1> DEFINE d == DecodeRequest(r, Head(bytes))
           crc == RequestCRC(msg)
<1>1. crc \in Byte /\ crc \in Word /\ <<NewLine>> \in Seq(Byte)
  BY RequestParts
<1>2. /\ r.st = "CRC" /\ MessageOf(r) = msg
      /\ r.crc8 = crc \div Power16[n + 1]
      /\ bytes = Digits(crc, n) \o <<NewLine>>
  BY DEF InRequestCRC
<1>3. r.code = msg.code /\ r.value = msg.value /\ r.value2 = msg.value2
  BY <1>2 DEF MessageOf
<1>4. CASE n # 0
  <2>1. Field(crc, n, ByteRange) /\ n - 1 \in 0 .. 2 /\ (n - 1) + 1 = n
    BY <1>1, <1>4 DEF Field
  <2>2. /\ IsHexDigit(Head(bytes))
        /\ WithDigit(crc \div Power16[n + 1], Head(bytes), ByteRange) = crc \div Power16[n]
        /\ Tail(bytes) = Digits(crc, n - 1) \o <<NewLine>>
    <3> HIDE DEF crc
    <3>1. OneDigitRead(crc, n, ByteRange, <<NewLine>>, bytes)
      BY <1>1, <1>2, <2>1, FieldStep, Zenon
    <3> QED BY <3>1, Zenon DEF OneDigitRead
  <2>3. d = Expect([r EXCEPT !.crc8 = WithDigit(@, Head(bytes), ByteRange)], r.st)
    BY <1>2, <2>2, DecodeRequestCases, Zenon
  <2> HIDE DEF d
  <2>4. /\ d.st = r.st /\ d.code = r.code /\ d.value = r.value /\ d.value2 = r.value2
        /\ d.crc8 = WithDigit(r.crc8, Head(bytes), ByteRange)
    BY <2>3 DEF Expect, RequestDecoderType
  <2>5. MessageOf(d) = MessageOf(r)
    BY <2>4 DEF MessageOf
  <2>6. InRequestCRC(msg, d, Tail(bytes), n - 1)
    BY <1>2, <2>1, <2>2, <2>4, <2>5, Zenon DEF InRequestCRC
  <2> QED BY <2>1, <2>6, Zenon DEF FollowsRequest, d
<1>5. CASE n = 0
  <2>1. bytes = <<NewLine>> /\ r.crc8 = crc
    <3>1. Digits(crc, 0) \o <<NewLine>> = <<NewLine>> /\ crc \div Power16[1] = crc
      BY <1>1, FieldEnd, Zenon
    <3>2. r.crc8 = crc \div Power16[1] /\ bytes = Digits(crc, 0) \o <<NewLine>>
      BY <1>2, <1>5
    <3> QED BY <3>1, <3>2, Zenon
  <2>2. Head(bytes) = NewLine /\ Tail(bytes) = <<>>
    BY <2>1
  <2>3. RequestCRCMatches(r)
    BY <1>3, <2>1, Zenon DEF RequestCRCMatches, RequestCRC
  <2>4. d = [r EXCEPT !.st = "Code", !.status = "MessageCompleted"]
    <3>1. IsNewLine(Head(bytes))
      BY <2>2, Characters
    <3> QED BY <1>2, <2>3, <3>1, DecodeRequestCases, Zenon
  <2> HIDE DEF d
  <2>5. /\ d.st = "Code" /\ d.status = "MessageCompleted"
        /\ d.code = r.code /\ d.value = r.value /\ d.value2 = r.value2
    BY <2>4 DEF RequestDecoderType
  <2>6. RequestDecoded(msg, d)
    BY <1>2, <2>5 DEF RequestDecoded, MessageOf
  <2> QED BY <2>2, <2>6, Zenon DEF FollowsRequest, d
<1> QED BY <1>4, <1>5

\* One byte further in a request that the decoder follows.
LEMMA RequestFollowed ==
    ASSUME NEW msg \in SentMsg, NEW r \in RequestDecoderType, NEW bytes \in Seq(Byte),
           bytes # <<>>, FollowsRequest(msg, r, bytes)
    PROVE  FollowsRequest(msg, DecodeRequest(r, Head(bytes)), Tail(bytes))
<1>1. CASE r.st = "Code" /\ bytes = EncodeRequest(msg)
  BY <1>1, AfterCode, Zenon
<1>2. CASE \E n \in 0 .. 2 : InValue(msg, r, bytes, n)
  BY <1>2, AfterValueByte, Zenon
<1>3. CASE \E n \in 0 .. 4 : InWriteValue(msg, r, bytes, n)
  BY <1>3, AfterWriteByte, Zenon
<1>4. CASE \E n \in 0 .. 2 : InRequestCRC(msg, r, bytes, n)
  BY <1>4, AfterCRCByte, Zenon
<1> QED BY <1>1, <1>2, <1>3, <1>4, Zenon DEF FollowsRequest

-----------------------------------------------------------------------------
(***************************************************************************)
(* Encoded messages are lines                                              *)
(***************************************************************************)

\* A part without a line end, and a part up to the line end.
Plain(bytes, size) ==
    /\ bytes \in Seq(Byte) /\ Len(bytes) <= size
    /\ \A i \in 1 .. Len(bytes) : ~IsNewLine(bytes[i])
Ended(bytes, size) == bytes \in Seq(Byte) /\ bytes # <<>> /\ Line(bytes, size)

LEMMA NotEmptyBehind ==
    ASSUME NEW s \in Seq(Byte), NEW t \in Seq(Byte), t # <<>>
    PROVE  s \o t # <<>>
<1>1. /\ Len(s \o t) = Len(s) + Len(t)
      /\ Len(s) \in Nat /\ Len(t) \in Nat /\ Len(t) # 0
  BY ConcatProperties, LenProperties, EmptySeq
<1>2. Len(s \o t) # 0
  BY <1>1
<1>3. Len(<<>>) = 0
  OBVIOUS
<1> QED BY <1>2, <1>3, Zenon

LEMMA PlainThenEnded ==
    ASSUME NEW s, NEW t, NEW m \in Nat, NEW k \in Nat, Plain(s, m), Ended(t, k)
    PROVE  /\ Ended(s \o t, m + k)
           /\ HasStar(t) => HasStar(s \o t)
<1>1. /\ s \in Seq(Byte) /\ t \in Seq(Byte) /\ Len(s) \in Nat /\ Len(t) \in Nat
      /\ Len(s) <= m /\ Len(t) >= 1 /\ Len(t) <= k /\ t # <<>> /\ t[Len(t)] = NewLine
      /\ \A i \in 1 .. Len(s) : ~IsNewLine(s[i])
      /\ \A i \in 1 .. Len(t) - 1 : ~IsNewLine(t[i])
  BY LenProperties DEF Plain, Ended, Line
<1>2. /\ s \o t \in Seq(Byte) /\ Len(s \o t) = Len(s) + Len(t)
      /\ \A i \in 1 .. Len(s) + Len(t) : (s \o t)[i] = IF i <= Len(s) THEN s[i] ELSE t[i - Len(s)]
  BY <1>1, ConcatProperties
<1>3. s \o t # <<>>
  BY <1>1, NotEmptyBehind
<1> DEFINE u == s \o t
           ls == Len(s)
           lt == Len(t)
<1>4. /\ ls \in Nat /\ lt \in Nat /\ lt >= 1 /\ ls <= m /\ lt <= k /\ Len(u) = ls + lt
      /\ \A i \in 1 .. ls + lt : u[i] = IF i <= ls THEN s[i] ELSE t[i - ls]
      /\ t[lt] = NewLine
      /\ \A i \in 1 .. ls : ~IsNewLine(s[i])
      /\ \A i \in 1 .. lt - 1 : ~IsNewLine(t[i])
  BY <1>1, <1>2
<1>5. HasStar(t) => \E i \in 1 .. lt : t[i] = Star
  BY DEF HasStar
<1>6. u \in Seq(Byte) /\ u # <<>>
  BY <1>2, <1>3
<1> HIDE DEF u, ls, lt
<1>7. u[ls + lt] = NewLine
  <2>1. ls + lt \in 1 .. ls + lt /\ ~(ls + lt <= ls) /\ (ls + lt) - ls = lt
    BY <1>4
  <2> QED BY <1>4, <2>1
<1>8. \A i \in 1 .. (ls + lt) - 1 : ~IsNewLine(u[i])
  <2> SUFFICES ASSUME NEW i \in 1 .. (ls + lt) - 1 PROVE ~IsNewLine(u[i])
    OBVIOUS
  <2>1. CASE i <= ls
    <3>1. i \in 1 .. ls /\ i \in 1 .. ls + lt
      BY <1>4, <2>1
    <3> QED BY <1>4, <2>1, <3>1
  <2>2. CASE ~(i <= ls)
    <3>1. i - ls \in 1 .. lt - 1 /\ i \in 1 .. ls + lt
      BY <1>4, <2>2
    <3> QED BY <1>4, <2>2, <3>1
  <2> QED BY <2>1, <2>2
<1>9. Ended(u, m + k)
  <2>1. ls + lt \in 1 .. m + k
    BY <1>4
  <2>2. Len(u) \in 1 .. m + k /\ u[Len(u)] = NewLine
        /\ \A i \in 1 .. Len(u) - 1 : ~IsNewLine(u[i])
    BY <1>4, <1>7, <1>8, <2>1
  <2> QED BY <1>6, <2>2, Zenon DEF Ended, Line
<1>10. HasStar(t) => HasStar(u)
  <2> SUFFICES ASSUME HasStar(t) PROVE HasStar(u)
    OBVIOUS
  <2>1. PICK j \in 1 .. lt : t[j] = Star
    BY <1>5
  <2>2. ls + j \in 1 .. ls + lt /\ ~(ls + j <= ls) /\ (ls + j) - ls = j
    BY <1>4
  <2>3. u[ls + j] = Star
    BY <1>4, <2>1, <2>2
  <2> QED BY <1>4, <2>2, <2>3 DEF HasStar
<1> QED BY <1>9, <1>10 DEF u

LEMMA PlainParts ==
    /\ \A value \in Word : Plain(ToHex(value), 4)
    /\ \A value \in Byte : Plain(ToHex(value), 2)
    /\ \A c \in Byte : ~IsNewLine(c) => Plain(<<c>>, 1)
<1>1. ASSUME NEW value \in Word
      PROVE  Plain(ToHex(value), 4) /\ (value \in Byte => Plain(ToHex(value), 2))
  <2>1. PICK n \in 1 .. 4 : WrittenWith(value, n)
    BY ToHexIsDigits
  <2>2. /\ ToHex(value) = Digits(value, n) /\ (value \in Byte => n <= 2)
        /\ n \in 0 .. 4
    BY <2>1 DEF WrittenWith
  <2>3. /\ Digits(value, n) \in Seq(Byte) /\ Len(Digits(value, n)) = n
        /\ \A i \in 1 .. n : IsHexDigit(Digits(value, n)[i])
    BY <2>2, DigitsAreBytes, Zenon
  <2>4. \A i \in 1 .. n : ~IsNewLine(Digits(value, n)[i])
    BY <2>3, Characters, Zenon
  <2>5. \A m \in Nat : n <= m => Plain(Digits(value, n), m)
    BY <2>3, <2>4, Zenon DEF Plain
  <2> QED BY <2>2, <2>5
<1>2. ASSUME NEW c \in Byte, ~IsNewLine(c) PROVE Plain(<<c>>, 1)
  BY <1>2 DEF Plain
<1>3. \A value \in Byte : value \in Word
  BY Widths
<1> QED BY <1>1, <1>2, <1>3

\* The check sum and the line end.
LEMMA EndOfLine ==
    ASSUME NEW crc \in Byte
    PROVE  LET end == <<Star>> \o (ToHex(crc) \o <<NewLine>>)
           IN  Ended(end, 4) /\ HasStar(end)
<1>1. Ended(<<NewLine>>, 1)
  BY CharactersAreBytes DEF Ended, Line
<1>2. Plain(ToHex(crc), 2) /\ Plain(<<Star>>, 1)
  BY PlainParts, Characters, CharactersAreBytes
<1>3. Ended(ToHex(crc) \o <<NewLine>>, 3)
  <2>1. Ended(ToHex(crc) \o <<NewLine>>, 2 + 1)
    BY <1>1, <1>2, PlainThenEnded, Zenon
  <2>2. 2 + 1 = 3
    OBVIOUS
  <2> QED BY <2>1, <2>2, Zenon
<1>4. Ended(<<Star>> \o (ToHex(crc) \o <<NewLine>>), 4)
  <2>1. Ended(<<Star>> \o (ToHex(crc) \o <<NewLine>>), 1 + 3)
    BY <1>2, <1>3, PlainThenEnded, Zenon
  <2> QED BY <2>1
<1>5. HasStar(<<Star>> \o (ToHex(crc) \o <<NewLine>>))
  <2> DEFINE end == <<Star>> \o (ToHex(crc) \o <<NewLine>>)
  <2>1. ToHex(crc) \o <<NewLine>> \in Seq(Byte) /\ Star \in Byte
    BY <1>3, CharactersAreBytes DEF Ended
  <2>2. end \in Seq(Byte) /\ end # <<>> /\ Head(end) = Star
    BY <2>1, OneByte, Zenon
  <2> HIDE DEF end
  <2>3. 1 \in 1 .. Len(end) /\ end[1] = Star
    <3>1. Len(end) \in Nat /\ Len(end) >= 1 /\ Head(end) = end[1]
      BY <2>2, TailFacts
    <3> QED BY <2>2, <3>1
  <2>4. HasStar(end)
    BY <2>3, Zenon DEF HasStar
  <2> QED BY <2>4 DEF end
<1> QED BY <1>4, <1>5

LEMMA RequestEnds ==
    ASSUME NEW msg \in SentMsg
    PROVE  /\ Ended(RequestEnd(msg), 4) /\ HasStar(RequestEnd(msg))
           /\ Ended(AfterValue(msg), 9) /\ HasStar(AfterValue(msg))
<1>1. Ended(RequestEnd(msg), 4) /\ HasStar(RequestEnd(msg))
  BY RequestParts, EndOfLine, Zenon DEF RequestEnd
<1>2. Plain(ToHex(msg.value2), 4) /\ Plain(<<Space>>, 1)
  BY RequestParts, PlainParts, Characters, CharactersAreBytes
<1>3. Ended(ToHex(msg.value2) \o RequestEnd(msg), 8) /\ HasStar(ToHex(msg.value2) \o RequestEnd(msg))
  <2>1. Ended(ToHex(msg.value2) \o RequestEnd(msg), 4 + 4)
        /\ HasStar(ToHex(msg.value2) \o RequestEnd(msg))
    BY <1>1, <1>2, PlainThenEnded, Zenon
  <2> QED BY <2>1
<1>4. /\ Ended(<<Space>> \o (ToHex(msg.value2) \o RequestEnd(msg)), 9)
      /\ HasStar(<<Space>> \o (ToHex(msg.value2) \o RequestEnd(msg)))
  <2>1. /\ Ended(<<Space>> \o (ToHex(msg.value2) \o RequestEnd(msg)), 1 + 8)
        /\ HasStar(<<Space>> \o (ToHex(msg.value2) \o RequestEnd(msg)))
    BY <1>2, <1>3, PlainThenEnded, Zenon
  <2> QED BY <2>1
<1>5. Ended(RequestEnd(msg), 9)
  <2>1. RequestEnd(msg) \in Seq(Byte) /\ RequestEnd(msg) # <<>> /\ Line(RequestEnd(msg), 4)
    BY <1>1 DEF Ended
  <2>2. Line(RequestEnd(msg), 9)
    BY <2>1 DEF Line
  <2> QED BY <2>1, <2>2 DEF Ended
<1> QED BY <1>1, <1>4, <1>5 DEF AfterValue

\* A request is one line that fits the buffer.
LEMMA RequestIsLine ==
    ASSUME NEW msg \in SentMsg
    PROVE  /\ EncodeRequest(msg) \in Seq(Byte) /\ EncodeRequest(msg) # <<>>
           /\ HasStar(EncodeRequest(msg))
           /\ \A st : WholeLine(EncodeRequest(msg), st, MaxRequestSize - 1)
<1>1. Plain(ToHex(msg.value), 2) /\ Plain(<<msg.code>>, 1)
  BY RequestParts, PlainParts, Characters, CharactersAreBytes
<1>2. /\ Ended(ToHex(msg.value) \o AfterValue(msg), 11)
      /\ HasStar(ToHex(msg.value) \o AfterValue(msg))
  <2>1. /\ Ended(ToHex(msg.value) \o AfterValue(msg), 2 + 9)
        /\ HasStar(ToHex(msg.value) \o AfterValue(msg))
    BY <1>1, RequestEnds, PlainThenEnded, Zenon
  <2> QED BY <2>1
<1>3. Ended(EncodeRequest(msg), 12) /\ HasStar(EncodeRequest(msg))
  <2>1. /\ Ended(<<msg.code>> \o (ToHex(msg.value) \o AfterValue(msg)), 1 + 11)
        /\ HasStar(<<msg.code>> \o (ToHex(msg.value) \o AfterValue(msg)))
    BY <1>1, <1>2, PlainThenEnded, Zenon
  <2>2. 1 + 11 = 12
    OBVIOUS
  <2> QED BY <2>1, <2>2, RequestBytes, Zenon
<1>4. MaxRequestSize - 1 = 12
  BY DEF MaxRequestSize
<1> QED BY <1>3, <1>4 DEF Ended, WholeLine

\* When nothing of the request is left, it has been decoded.
LEMMA RequestFollowedToEnd ==
    ASSUME NEW msg \in SentMsg, NEW r, FollowsRequest(msg, r, <<>>)
    PROVE  RequestDecoded(msg, r)
<1>1. EncodeRequest(msg) # <<>>
  BY RequestIsLine
<1>2. /\ msg.value \in Word /\ msg.value2 \in Word /\ RequestCRC(msg) \in Word
      /\ AfterValue(msg) \in Seq(Byte) /\ AfterValue(msg) # <<>>
      /\ RequestEnd(msg) \in Seq(Byte) /\ RequestEnd(msg) # <<>>
      /\ <<NewLine>> \in Seq(Byte) /\ <<NewLine>> # <<>>
  BY RequestParts, RequestEnds DEF Ended
<1>3. ASSUME NEW n \in 0 .. 2 PROVE ~InValue(msg, r, <<>>, n)
  <2>1. n \in 0 .. 4
    OBVIOUS
  <2>2. Digits(msg.value, n) \in Seq(Byte)
    BY <1>2, <2>1, DigitsAreBytes, Zenon
  <2>3. Digits(msg.value, n) \o AfterValue(msg) # <<>>
    BY <1>2, <2>2, NotEmptyBehind, Zenon
  <2> QED BY <2>3, Zenon DEF InValue
<1>4. ASSUME NEW n \in 0 .. 4 PROVE ~InWriteValue(msg, r, <<>>, n)
  <2>1. n \in 0 .. 4
    OBVIOUS
  <2>2. Digits(msg.value2, n) \in Seq(Byte)
    BY <1>2, <2>1, DigitsAreBytes, Zenon
  <2>3. Digits(msg.value2, n) \o RequestEnd(msg) # <<>>
    BY <1>2, <2>2, NotEmptyBehind, Zenon
  <2> QED BY <2>3, Zenon DEF InWriteValue
<1>5. ASSUME NEW n \in 0 .. 2 PROVE ~InRequestCRC(msg, r, <<>>, n)
  <2>1. n \in 0 .. 4
    OBVIOUS
  <2>2. Digits(RequestCRC(msg), n) \in Seq(Byte)
    BY <1>2, <2>1, DigitsAreBytes, Zenon
  <2>3. Digits(RequestCRC(msg), n) \o <<NewLine>> # <<>>
    BY <1>2, <2>2, NotEmptyBehind, Zenon
  <2> QED BY <2>3, Zenon DEF InRequestCRC
<1> QED BY <1>1, <1>3, <1>4, <1>5, Zenon DEF FollowsRequest

-----------------------------------------------------------------------------
(***************************************************************************)
(* Decoding an answer                                                      *)
(***************************************************************************)

\* The alternatives of the decoder exclude each other.
LEMMA DecodeResponseCases ==
    ASSUME NEW r, NEW c
    PROVE  /\ r.st = "RequestCode" /\ c \in RequestCodes =>
                DecodeResponse(r, c) =
                  [r EXCEPT !.st = "RequestValue", !.code = c, !.value = 0, !.value2 = 0,
                            !.crc8 = 0, !.status = "NeedMoreData"]
           /\ r.st = "RequestCode" /\ IsNewLine(c) => DecodeResponse(r, c) = Expect(r, r.st)
           /\ r.st = "RequestValue" /\ IsHexDigit(c) =>
                DecodeResponse(r, c) = Expect([r EXCEPT !.value = WithDigit(@, c, ByteRange)], r.st)
           /\ r.st = "RequestValue" /\ c = Space => DecodeResponse(r, c) = Expect(r, "ParamCode")
           /\ r.st = "ParamCode" /\ c \in ParamCodes =>
                DecodeResponse(r, c) =
                  Expect([r EXCEPT !.paramCode = c, !.paramValue = 0], "ParamValue")
           /\ r.st = "ParamValue" /\ IsHexDigit(c) =>
                DecodeResponse(r, c) =
                  Expect([r EXCEPT !.paramValue = WithDigit(@, c, WordRange)], r.st)
           /\ r.st = "ParamValue" /\ c = Star => DecodeResponse(r, c) = Expect(r, "CRC")
           /\ r.st = "CRC" /\ IsHexDigit(c) =>
                DecodeResponse(r, c) = Expect([r EXCEPT !.crc8 = WithDigit(@, c, ByteRange)], r.st)
           /\ IsNewLine(c) /\ (r.st = "Error" \/ (r.st = "CRC" /\ r.crc8 = ResponseCRC(r))) =>
                DecodeResponse(r, c) =
                  [r EXCEPT !.st = "RequestCode", !.status = "MessageCompleted"]
<1>1. r.st = "RequestCode" /\ c \in RequestCodes =>
        DecodeResponse(r, c) =
          [r EXCEPT !.st = "RequestValue", !.code = c, !.value = 0, !.value2 = 0,
                    !.crc8 = 0, !.status = "NeedMoreData"]
  BY Characters, Zenon DEF DecodeResponse
<1>2. r.st = "RequestCode" /\ IsNewLine(c) => DecodeResponse(r, c) = Expect(r, r.st)
  BY Characters DEF DecodeResponse
<1>3. r.st = "RequestValue" /\ IsHexDigit(c) =>
        DecodeResponse(r, c) = Expect([r EXCEPT !.value = WithDigit(@, c, ByteRange)], r.st)
  BY Characters DEF DecodeResponse
<1>4. r.st = "RequestValue" /\ c = Space => DecodeResponse(r, c) = Expect(r, "ParamCode")
  BY Characters DEF DecodeResponse
<1>5. r.st = "ParamCode" /\ c \in ParamCodes =>
        DecodeResponse(r, c) = Expect([r EXCEPT !.paramCode = c, !.paramValue = 0], "ParamValue")
  BY Characters DEF DecodeResponse
<1>6. r.st = "ParamValue" /\ IsHexDigit(c) =>
        DecodeResponse(r, c) = Expect([r EXCEPT !.paramValue = WithDigit(@, c, WordRange)], r.st)
  BY Characters DEF DecodeResponse
<1>7. r.st = "ParamValue" /\ c = Star => DecodeResponse(r, c) = Expect(r, "CRC")
  BY Characters DEF DecodeResponse
<1>8. r.st = "CRC" /\ IsHexDigit(c) =>
        DecodeResponse(r, c) = Expect([r EXCEPT !.crc8 = WithDigit(@, c, ByteRange)], r.st)
  BY Characters DEF DecodeResponse
<1>9. IsNewLine(c) /\ (r.st = "Error" \/ (r.st = "CRC" /\ r.crc8 = ResponseCRC(r))) =>
        DecodeResponse(r, c) = [r EXCEPT !.st = "RequestCode", !.status = "MessageCompleted"]
  BY Characters DEF DecodeResponse
<1> QED BY <1>1, <1>2, <1>3, <1>4, <1>5, <1>6, <1>7, <1>8, <1>9, Zenon

\* What a byte does to the decoder of answers, whatever it has read so far.
LEMMA DecodeResponseTurn ==
    ASSUME NEW r \in ResponseDecoderType, NEW c \in Byte
    PROVE  /\ DecodeResponse(r, c) \in ResponseDecoderType
           /\ Turn(r.st, c, DecodeResponse(r, c).st, "RequestCode")
<1> DEFINE d == DecodeResponse(r, c)
<1>1. r.st \in {"RequestCode", "RequestValue", "ParamCode", "ParamValue", "CRC", "Error"}
  BY DEF ResponseDecoderType
<1>2. CASE r.st = "RequestCode" /\ c \in RequestCodes
  <2>1. d = [r EXCEPT !.st = "RequestValue", !.code = c, !.value = 0, !.value2 = 0,
                      !.crc8 = 0, !.status = "NeedMoreData"]
    BY <1>2, DecodeResponseCases, Zenon
  <2> HIDE DEF d
  <2>2. d \in ResponseDecoderType /\ d.st = "RequestValue"
    BY <1>2, <2>1, ZeroIsByte DEF ResponseDecoderType, Status
  <2> QED BY <1>2, <2>2, Characters DEF Turn, d
<1>3. CASE r.st = "RequestCode" /\ IsNewLine(c)
  <2>1. d = Expect(r, r.st)
    BY <1>3, DecodeResponseCases, Zenon
  <2> HIDE DEF d
  <2>2. d \in ResponseDecoderType /\ d.st = "RequestCode"
    BY <1>3, <2>1 DEF ResponseDecoderType, Status, Expect
  <2> QED BY <1>3, <2>2, Characters DEF Turn, d
<1>4. CASE r.st = "RequestValue" /\ IsHexDigit(c)
  <2>1. d = Expect([r EXCEPT !.value = WithDigit(@, c, ByteRange)], r.st)
    BY <1>4, DecodeResponseCases, Zenon
  <2> HIDE DEF d
  <2>2. WithDigit(r.value, c, ByteRange) \in Byte
    BY <1>4, WithDigitInRange DEF ResponseDecoderType
  <2>3. d \in ResponseDecoderType /\ d.st = r.st
    BY <1>4, <2>1, <2>2 DEF ResponseDecoderType, Status, Expect
  <2> QED BY <1>4, <2>3, Characters DEF Turn, d
<1>5. CASE r.st = "RequestValue" /\ c = Space
  <2>1. d = Expect(r, "ParamCode")
    BY <1>5, DecodeResponseCases, Zenon
  <2> HIDE DEF d
  <2>2. d \in ResponseDecoderType /\ d.st = "ParamCode"
    BY <1>5, <2>1 DEF ResponseDecoderType, Status, Expect
  <2> QED BY <1>5, <2>2, Characters DEF Turn, d
<1>6. CASE r.st = "ParamCode" /\ c \in ParamCodes
  <2>1. d = Expect([r EXCEPT !.paramCode = c, !.paramValue = 0], "ParamValue")
    BY <1>6, DecodeResponseCases, Zenon
  <2> HIDE DEF d
  <2>2. d \in ResponseDecoderType /\ d.st = "ParamValue"
    BY <1>6, <2>1, ZeroIsByte DEF ResponseDecoderType, Status, Expect
  <2> QED BY <1>6, <2>2, Characters DEF Turn, d
<1>7. CASE r.st = "ParamValue" /\ IsHexDigit(c)
  <2>1. d = Expect([r EXCEPT !.paramValue = WithDigit(@, c, WordRange)], r.st)
    BY <1>7, DecodeResponseCases, Zenon
  <2> HIDE DEF d
  <2>2. WithDigit(r.paramValue, c, WordRange) \in Word
    BY <1>7, WithDigitInRange DEF ResponseDecoderType
  <2>3. d \in ResponseDecoderType /\ d.st = r.st
    BY <1>7, <2>1, <2>2 DEF ResponseDecoderType, Status, Expect
  <2> QED BY <1>7, <2>3, Characters DEF Turn, d
<1>8. CASE r.st = "ParamValue" /\ c = Star
  <2>1. d = Expect(r, "CRC")
    BY <1>8, DecodeResponseCases, Zenon
  <2> HIDE DEF d
  <2>2. d \in ResponseDecoderType /\ d.st = "CRC"
    BY <1>8, <2>1 DEF ResponseDecoderType, Status, Expect
  <2> QED BY <1>8, <2>2, Characters DEF Turn, d
<1>9. CASE r.st = "CRC" /\ IsHexDigit(c)
  <2>1. d = Expect([r EXCEPT !.crc8 = WithDigit(@, c, ByteRange)], r.st)
    BY <1>9, DecodeResponseCases, Zenon
  <2> HIDE DEF d
  <2>2. WithDigit(r.crc8, c, ByteRange) \in Byte
    BY <1>9, WithDigitInRange DEF ResponseDecoderType
  <2>3. d \in ResponseDecoderType /\ d.st = "CRC"
    BY <1>9, <2>1, <2>2 DEF ResponseDecoderType, Status, Expect
  <2> QED BY <1>9, <2>3, Characters DEF Turn, d
<1>10. CASE IsNewLine(c) /\ (r.st = "Error" \/ (r.st = "CRC" /\ r.crc8 = ResponseCRC(r)))
  <2>1. d = [r EXCEPT !.st = "RequestCode", !.status = "MessageCompleted"]
    BY <1>10, DecodeResponseCases, Zenon
  <2> HIDE DEF d
  <2>2. d \in ResponseDecoderType /\ d.st = "RequestCode"
    BY <2>1 DEF ResponseDecoderType, Status
  <2> QED BY <1>10, <2>2, Characters DEF Turn, d
<1>11. CASE d = FailResponse(r) /\ ~(r.st = "Error" /\ IsNewLine(c))
  <2> HIDE DEF d
  <2>1. \/ d = [r EXCEPT !.st = "Error", !.status = "Error"]
        \/ d = [ResponseDecoder EXCEPT !.st = "Error", !.status = "Error"]
    BY <1>11, Zenon DEF FailResponse
  <2>2. [r EXCEPT !.st = "Error", !.status = "Error"] \in ResponseDecoderType
    BY DEF ResponseDecoderType, Status
  <2>3. [ResponseDecoder EXCEPT !.st = "Error", !.status = "Error"] \in ResponseDecoderType
    BY ZeroIsByte DEF ResponseDecoder, ResponseDecoderType, Status
  <2>4. d.st = "Error"
    BY <2>1 DEF ResponseDecoder, ResponseDecoderType
  <2>5. d \in ResponseDecoderType
    BY <2>1, <2>2, <2>3, Zenon
  <2> QED BY <1>11, <2>4, <2>5 DEF Turn, d
<1> QED BY <1>1, <1>2, <1>3, <1>4, <1>5, <1>6, <1>7, <1>8, <1>9, <1>10, <1>11, Characters
        DEF DecodeResponse

-----------------------------------------------------------------------------
(***************************************************************************)
(* An answer is followed byte by byte                                      *)
(***************************************************************************)

LEMMA AnswerParts ==
    ASSUME NEW a \in AnswerMsg, NEW withValue \in BOOLEAN
    PROVE  /\ ResponseCRC(a) \in Byte /\ ResponseCRC(a) \in Word
           /\ a.value \in Byte /\ a.value \in Word /\ a.value2 = 0 /\ a.paramValue \in Word
           /\ a.code \in RequestCodes /\ a.paramCode \in ParamCodes
           /\ a.code \in Byte /\ a.paramCode \in Byte
           /\ <<NewLine>> \in Seq(Byte)
           /\ Ended(AnswerEnd(a), 4) /\ HasStar(AnswerEnd(a))
           /\ Ended(AfterParamCode(a, withValue), 8) /\ HasStar(AfterParamCode(a, withValue))
           /\ Ended(AfterSpace(a, withValue), 9) /\ HasStar(AfterSpace(a, withValue))
<1>1. /\ ResponseCRC(a) \in Byte /\ ResponseCRC(a) \in Word
      /\ a.value \in Byte /\ a.value \in Word /\ a.value2 = 0 /\ a.paramValue \in Word
      /\ a.code \in RequestCodes /\ a.paramCode \in ParamCodes
  BY ResponseCRCIsByte, Widths DEF AnswerMsg
<1>2. a.code \in Byte /\ a.paramCode \in Byte /\ <<NewLine>> \in Seq(Byte)
  BY <1>1, CharactersAreBytes
<1>3. Ended(AnswerEnd(a), 4) /\ HasStar(AnswerEnd(a))
  BY <1>1, EndOfLine, Zenon DEF AnswerEnd
<1>4. Plain(ToHex(a.paramValue), 4) /\ Plain(<<a.paramCode>>, 1)
  <2>1. ~IsNewLine(a.paramCode)
    BY <1>1, Characters
  <2> QED BY <1>1, <1>2, <2>1, PlainParts
<1>5. Ended(AfterParamCode(a, withValue), 8) /\ HasStar(AfterParamCode(a, withValue))
  <2>1. /\ Ended(ToHex(a.paramValue) \o AnswerEnd(a), 4 + 4)
        /\ HasStar(ToHex(a.paramValue) \o AnswerEnd(a))
    BY <1>3, <1>4, PlainThenEnded, Zenon
  <2>2. 4 + 4 = 8
    OBVIOUS
  <2>3. Ended(AnswerEnd(a), 8)
    <3>1. AnswerEnd(a) \in Seq(Byte) /\ AnswerEnd(a) # <<>> /\ Line(AnswerEnd(a), 4)
      BY <1>3 DEF Ended
    <3>2. Line(AnswerEnd(a), 8)
      BY <3>1 DEF Line
    <3> QED BY <3>1, <3>2 DEF Ended
  <2> QED BY <1>3, <2>1, <2>2, <2>3, Zenon DEF AfterParamCode
<1>6. Ended(AfterSpace(a, withValue), 9) /\ HasStar(AfterSpace(a, withValue))
  <2>1. /\ Ended(<<a.paramCode>> \o AfterParamCode(a, withValue), 1 + 8)
        /\ HasStar(<<a.paramCode>> \o AfterParamCode(a, withValue))
    BY <1>4, <1>5, PlainThenEnded, Zenon
  <2>2. 1 + 8 = 9
    OBVIOUS
  <2> QED BY <2>1, <2>2, Zenon DEF AfterSpace
<1> QED BY <1>1, <1>2, <1>3, <1>5, <1>6

AnswerAssociates(a, b, s, p, t) == (((a \o b) \o s) \o p) \o t = a \o (b \o (s \o (p \o t)))

LEMMA AssociatesAnswer ==
    ASSUME NEW a \in Seq(Byte), NEW b \in Seq(Byte), NEW s \in Seq(Byte), NEW p \in Seq(Byte),
           NEW t \in Seq(Byte)
    PROVE  AnswerAssociates(a, b, s, p, t)
<1>1. a \o b \in Seq(Byte) /\ (a \o b) \o s \in Seq(Byte) /\ p \o t \in Seq(Byte)
  BY Concat
<1>2. s \o (p \o t) \in Seq(Byte)
  BY <1>1, Concat
<1>3. /\ Associative((a \o b) \o s, p, t)
      /\ Associative(a \o b, s, p \o t)
      /\ Associative(a, b, s \o (p \o t))
  BY <1>1, <1>2, ConcatAssociates, Zenon
<1> QED BY <1>3, Zenon DEF Associative, AnswerAssociates

LEMMA AnswerBytes ==
    ASSUME NEW a \in AnswerMsg, NEW withValue \in BOOLEAN
    PROVE  EncodeResponse(a, withValue)
             = <<a.code>> \o (ToHex(a.value) \o (<<Space>> \o AfterSpace(a, withValue)))
<1> DEFINE begin == ((<<a.code>> \o ToHex(a.value)) \o <<Space>>) \o <<a.paramCode>>
<1>1. /\ <<a.code>> \in Seq(Byte) /\ ToHex(a.value) \in Seq(Byte) /\ <<Space>> \in Seq(Byte)
      /\ <<a.paramCode>> \in Seq(Byte) /\ ToHex(a.paramValue) \in Seq(Byte)
      /\ <<Star>> \in Seq(Byte) /\ ToHex(ResponseCRC(a)) \in Seq(Byte) /\ <<NewLine>> \in Seq(Byte)
  BY AnswerParts, ToHexIsSeq, CharactersAreBytes
<1>2. begin \in Seq(Byte)
  BY <1>1, Concat
<1>3. EncodeResponse(a, withValue) = begin \o AfterParamCode(a, withValue)
  <2>1. CASE withValue
    <3>1. EncodeResponse(a, withValue)
            = ((begin \o ToHex(a.paramValue)) \o (<<Star>> \o ToHex(ResponseCRC(a)))) \o <<NewLine>>
      BY <2>1, Zenon DEF EncodeResponse, BeginEncodeRequest, AppendCRC
    <3>2. AfterParamCode(a, withValue)
            = ToHex(a.paramValue) \o (<<Star>> \o (ToHex(ResponseCRC(a)) \o <<NewLine>>))
      BY <2>1, Zenon DEF AfterParamCode, AnswerEnd
    <3> HIDE DEF begin
    <3>3. RequestAssociates(begin, ToHex(a.paramValue), <<Star>>, ToHex(ResponseCRC(a)), <<NewLine>>)
      BY <1>1, <1>2, Associates, Zenon
    <3> QED BY <3>1, <3>2, <3>3, Zenon DEF RequestAssociates
  <2>2. CASE ~withValue
    <3>1. EncodeResponse(a, withValue)
            = ((begin \o <<>>) \o (<<Star>> \o ToHex(ResponseCRC(a)))) \o <<NewLine>>
      BY <2>2, Zenon DEF EncodeResponse, BeginEncodeRequest, AppendCRC
    <3>2. AfterParamCode(a, withValue) = <<Star>> \o (ToHex(ResponseCRC(a)) \o <<NewLine>>)
      BY <2>2, Zenon DEF AfterParamCode, AnswerEnd
    <3> HIDE DEF begin
    <3>3. begin \o <<>> = begin
      BY <1>2, ConcatEmptySeq
    <3>4. <<Star>> \o ToHex(ResponseCRC(a)) \in Seq(Byte)
      BY <1>1, Concat
    <3>5. /\ Associative(begin, <<Star>> \o ToHex(ResponseCRC(a)), <<NewLine>>)
          /\ Associative(<<Star>>, ToHex(ResponseCRC(a)), <<NewLine>>)
      BY <1>1, <1>2, <3>4, ConcatAssociates, Zenon
    <3> QED BY <3>1, <3>2, <3>3, <3>5, Zenon DEF Associative
  <2> QED BY <2>1, <2>2, Zenon
<1>4. AfterParamCode(a, withValue) \in Seq(Byte)
  BY AnswerParts, Zenon DEF Ended
<1>5. AnswerAssociates(<<a.code>>, ToHex(a.value), <<Space>>, <<a.paramCode>>,
                       AfterParamCode(a, withValue))
  BY <1>1, <1>4, AssociatesAnswer, Zenon
<1> QED BY <1>3, <1>5, Zenon DEF AnswerAssociates, AfterSpace

\* An answer is one line that fits the buffer.
LEMMA AnswerIsLine ==
    ASSUME NEW a \in AnswerMsg, NEW withValue \in BOOLEAN
    PROVE  LET bytes == EncodeResponse(a, withValue)
           IN  /\ bytes \in Seq(Byte) /\ bytes # <<>>
               /\ Head(bytes) = a.code
               /\ Tail(bytes) = ToHex(a.value) \o (<<Space>> \o AfterSpace(a, withValue))
               /\ HasStar(bytes)
               /\ \A st : WholeLine(bytes, st, MaxResponseSize - 1)
<1> DEFINE bytes == EncodeResponse(a, withValue)
           rest == ToHex(a.value) \o (<<Space>> \o AfterSpace(a, withValue))
<1>1. /\ Ended(AfterSpace(a, withValue), 9) /\ HasStar(AfterSpace(a, withValue))
      /\ a.value \in Byte /\ a.code \in Byte /\ ~IsNewLine(a.code)
  BY AnswerParts, Characters
<1>2. Plain(ToHex(a.value), 2) /\ Plain(<<a.code>>, 1) /\ Plain(<<Space>>, 1)
  BY <1>1, PlainParts, Characters, CharactersAreBytes
<1>3. /\ Ended(<<Space>> \o AfterSpace(a, withValue), 10)
      /\ HasStar(<<Space>> \o AfterSpace(a, withValue))
  <2>1. /\ Ended(<<Space>> \o AfterSpace(a, withValue), 1 + 9)
        /\ HasStar(<<Space>> \o AfterSpace(a, withValue))
    BY <1>1, <1>2, PlainThenEnded, Zenon
  <2>2. 1 + 9 = 10
    OBVIOUS
  <2> QED BY <2>1, <2>2, Zenon
<1>4. Ended(rest, 12) /\ HasStar(rest)
  <2>1. Ended(rest, 2 + 10) /\ HasStar(rest)
    BY <1>2, <1>3, PlainThenEnded, Zenon
  <2>2. 2 + 10 = 12
    OBVIOUS
  <2> QED BY <2>1, <2>2, Zenon
<1>5. bytes = <<a.code>> \o rest
  BY AnswerBytes, Zenon
<1> HIDE DEF bytes, rest
<1>6. Ended(bytes, 13) /\ HasStar(bytes)
  <2>1. Ended(bytes, 1 + 12) /\ HasStar(bytes)
    BY <1>2, <1>4, <1>5, PlainThenEnded, Zenon
  <2>2. 1 + 12 = 13
    OBVIOUS
  <2> QED BY <2>1, <2>2, Zenon
<1>7. Head(bytes) = a.code /\ Tail(bytes) = rest
  BY <1>1, <1>4, <1>5, OneByte, Zenon DEF Ended
<1>8. MaxResponseSize - 1 = 13
  BY DEF MaxResponseSize
<1>9. \A st : WholeLine(bytes, st, MaxResponseSize - 1)
  BY <1>6, <1>8, Zenon DEF Ended, WholeLine
<1> QED BY <1>6, <1>7, <1>9, Zenon DEF Ended, bytes, rest

LEMMA AfterAnswerCode ==
    ASSUME NEW a \in AnswerMsg, NEW withValue \in BOOLEAN, Form(a, withValue),
           NEW r \in ResponseDecoderType, r.st = "RequestCode",
           NEW bytes, bytes = EncodeResponse(a, withValue)
    PROVE  FollowsAnswer(a, DecodeResponse(r, Head(bytes)), Tail(bytes))
<1> DEFINE d == DecodeResponse(r, a.code)
<1>1. /\ Head(bytes) = a.code
      /\ Tail(bytes) = ToHex(a.value) \o (<<Space>> \o AfterSpace(a, withValue))
  BY AnswerIsLine, Zenon
<1>2. a.code \in RequestCodes /\ a.value \in Byte /\ a.value \in Word
  BY AnswerParts
<1>3. PICK n \in 1 .. 4 : WrittenWith(a.value, n)
  BY <1>2, ToHexIsDigits
<1>4. n \in 0 .. 2
  BY <1>2, <1>3 DEF WrittenWith
<1>5. d = [r EXCEPT !.st = "RequestValue", !.code = a.code, !.value = 0, !.value2 = 0,
                    !.crc8 = 0, !.status = "NeedMoreData"]
  BY <1>2, DecodeResponseCases, Zenon
<1> HIDE DEF d
<1>6. d.st = "RequestValue" /\ d.code = a.code /\ d.value = 0 /\ d.value2 = 0 /\ d.crc8 = 0
  BY <1>5 DEF ResponseDecoderType
<1>7. InRequestValue(a, d, Tail(bytes), n, withValue)
  BY <1>1, <1>3, <1>6, Zenon DEF InRequestValue, WrittenWith
<1> QED BY <1>1, <1>4, <1>7, Zenon DEF FollowsAnswer, d

LEMMA AfterRequestValueByte ==
    ASSUME NEW a \in AnswerMsg, NEW withValue \in BOOLEAN, Form(a, withValue),
           NEW r \in ResponseDecoderType, NEW bytes \in Seq(Byte), NEW n \in 0 .. 2,
           InRequestValue(a, r, bytes, n, withValue)
    PROVE  FollowsAnswer(a, DecodeResponse(r, Head(bytes)), Tail(bytes))
<1> DEFINE d == DecodeResponse(r, Head(bytes))
           rest == <<Space>> \o AfterSpace(a, withValue)
<1>1. /\ a.value \in Byte /\ a.value \in Word /\ Space \in Byte
      /\ AfterSpace(a, withValue) \in Seq(Byte)
  BY AnswerParts, CharactersAreBytes DEF Ended
<1>2. /\ rest \in Seq(Byte) /\ Head(rest) = Space /\ Tail(rest) = AfterSpace(a, withValue)
  BY <1>1, OneByte
<1> HIDE DEF rest
<1>3. /\ r.st = "RequestValue" /\ r.code = a.code /\ r.value2 = 0 /\ r.crc8 = 0
      /\ r.value = a.value \div Power16[n + 1]
      /\ bytes = Digits(a.value, n) \o rest
  BY DEF InRequestValue, rest
<1>4. CASE n # 0
  <2>1. Field(a.value, n, ByteRange) /\ n - 1 \in 0 .. 2 /\ (n - 1) + 1 = n
    BY <1>1, <1>4 DEF Field
  <2>2. OneDigitRead(a.value, n, ByteRange, rest, bytes)
    BY <1>2, <1>3, <2>1, FieldStep, Zenon
  <2>3. d = Expect([r EXCEPT !.value = WithDigit(@, Head(bytes), ByteRange)], r.st)
    BY <1>3, <2>2, DecodeResponseCases, Zenon DEF OneDigitRead
  <2> HIDE DEF d
  <2>4. /\ d.st = r.st /\ d.code = r.code /\ d.value2 = r.value2 /\ d.crc8 = r.crc8
        /\ d.value = WithDigit(r.value, Head(bytes), ByteRange)
    BY <2>3 DEF Expect, ResponseDecoderType
  <2>5. InRequestValue(a, d, Tail(bytes), n - 1, withValue)
    BY <1>3, <2>1, <2>2, <2>4, Zenon DEF InRequestValue, OneDigitRead, rest
  <2> QED BY <2>1, <2>5, Zenon DEF FollowsAnswer, d
<1>5. CASE n = 0
  <2>1. bytes = rest /\ r.value = a.value
    <3>1. Digits(a.value, 0) \o rest = rest /\ a.value \div Power16[1] = a.value
      BY <1>1, <1>2, FieldEnd, Zenon
    <3>2. r.value = a.value \div Power16[1] /\ bytes = Digits(a.value, 0) \o rest
      BY <1>3, <1>5
    <3> QED BY <3>1, <3>2, Zenon
  <2>2. d = Expect(r, "ParamCode")
    BY <1>2, <1>3, <2>1, DecodeResponseCases, Zenon
  <2> HIDE DEF d
  <2>3. /\ d.st = "ParamCode" /\ d.code = r.code /\ d.value = r.value
        /\ d.value2 = r.value2 /\ d.crc8 = r.crc8
    BY <2>2 DEF Expect, ResponseDecoderType
  <2>4. InParamCode(a, d, Tail(bytes), withValue)
    BY <1>2, <1>3, <2>1, <2>3, Zenon DEF InParamCode
  <2> QED BY <2>4, Zenon DEF FollowsAnswer, d
<1> QED BY <1>4, <1>5

LEMMA AfterParamCodeByte ==
    ASSUME NEW a \in AnswerMsg, NEW withValue \in BOOLEAN, Form(a, withValue),
           NEW r \in ResponseDecoderType, NEW bytes \in Seq(Byte),
           InParamCode(a, r, bytes, withValue)
    PROVE  FollowsAnswer(a, DecodeResponse(r, Head(bytes)), Tail(bytes))
<1> DEFINE d == DecodeResponse(r, Head(bytes))
<1>1. /\ a.paramValue \in Word /\ a.paramCode \in ParamCodes /\ a.paramCode \in Byte
      /\ AfterParamCode(a, withValue) \in Seq(Byte) /\ AnswerEnd(a) \in Seq(Byte)
  BY AnswerParts DEF Ended
<1>2. /\ r.st = "ParamCode" /\ r.code = a.code /\ r.value = a.value /\ r.value2 = 0 /\ r.crc8 = 0
      /\ bytes = <<a.paramCode>> \o AfterParamCode(a, withValue)
  BY DEF InParamCode, AfterSpace
<1>3. Head(bytes) = a.paramCode /\ Tail(bytes) = AfterParamCode(a, withValue)
  BY <1>1, <1>2, OneByte, Zenon
<1>4. d = Expect([r EXCEPT !.paramCode = a.paramCode, !.paramValue = 0], "ParamValue")
  <2>1. r.st = "ParamCode" /\ Head(bytes) \in ParamCodes
    BY <1>1, <1>2, <1>3, Zenon
  <2>2. d = Expect([r EXCEPT !.paramCode = Head(bytes), !.paramValue = 0], "ParamValue")
    BY <2>1, DecodeResponseCases, Zenon
  <2> QED BY <1>3, <2>2, Zenon
<1> HIDE DEF d
<1>5. /\ d.st = "ParamValue" /\ d.code = r.code /\ d.value = r.value
      /\ d.value2 = r.value2 /\ d.crc8 = r.crc8
      /\ d.paramCode = a.paramCode /\ d.paramValue = 0
  BY <1>4 DEF Expect, ResponseDecoderType
<1>6. CASE withValue
  <2>1. PICK n \in 1 .. 4 : WrittenWith(a.paramValue, n)
    BY <1>1, ToHexIsDigits
  <2>2. n \in 0 .. 4
    OBVIOUS
  <2>3. Tail(bytes) = Digits(a.paramValue, n) \o AnswerEnd(a)
    BY <1>3, <1>6, <2>1, Zenon DEF AfterParamCode, WrittenWith
  <2>4. InParamValue(a, d, Tail(bytes), n)
    BY <1>2, <1>5, <2>1, <2>3, Zenon DEF InParamValue, WrittenWith
  <2> QED BY <2>2, <2>4, Zenon DEF FollowsAnswer, d
<1>7. CASE ~withValue
  <2>1. a.paramValue = 0
    BY <1>7 DEF Form
  <2>2. /\ Digits(a.paramValue, 0) \o AnswerEnd(a) = AnswerEnd(a)
        /\ a.paramValue \div Power16[1] = a.paramValue
    BY <1>1, FieldEnd, Zenon
  <2>3. Tail(bytes) = Digits(a.paramValue, 0) \o AnswerEnd(a)
    BY <1>3, <1>7, <2>2, Zenon DEF AfterParamCode
  <2>4. d.paramValue = a.paramValue \div Power16[0 + 1]
    BY <1>5, <2>1, <2>2
  <2>5. InParamValue(a, d, Tail(bytes), 0)
    BY <1>2, <1>5, <2>3, <2>4, Zenon DEF InParamValue
  <2>6. 0 \in 0 .. 4
    OBVIOUS
  <2> QED BY <2>5, <2>6, Zenon DEF FollowsAnswer, d
<1> QED BY <1>6, <1>7, Zenon

LEMMA AfterParamValueByte ==
    ASSUME NEW a \in AnswerMsg, NEW r \in ResponseDecoderType, NEW bytes \in Seq(Byte),
           NEW n \in 0 .. 4, InParamValue(a, r, bytes, n)
    PROVE  FollowsAnswer(a, DecodeResponse(r, Head(bytes)), Tail(bytes))
<1> DEFINE d == DecodeResponse(r, Head(bytes))
<1>1. /\ a.paramValue \in Word /\ AnswerEnd(a) \in Seq(Byte) /\ <<NewLine>> \in Seq(Byte)
      /\ ResponseCRC(a) \in Byte /\ ResponseCRC(a) \in Word /\ a.value2 = 0
  BY AnswerParts DEF Ended
<1>2. /\ r.st = "ParamValue"
      /\ r.code = a.code /\ r.value = a.value /\ r.value2 = 0 /\ r.crc8 = 0
      /\ r.paramCode = a.paramCode
      /\ r.paramValue = a.paramValue \div Power16[n + 1]
      /\ bytes = Digits(a.paramValue, n) \o AnswerEnd(a)
  BY DEF InParamValue
<1>3. CASE n # 0
  <2>1. Field(a.paramValue, n, WordRange) /\ n - 1 \in 0 .. 4 /\ (n - 1) + 1 = n
    BY <1>1, <1>3 DEF Field
  <2>2. OneDigitRead(a.paramValue, n, WordRange, AnswerEnd(a), bytes)
    BY <1>1, <1>2, <2>1, FieldStep, Zenon
  <2>3. d = Expect([r EXCEPT !.paramValue = WithDigit(@, Head(bytes), WordRange)], r.st)
    BY <1>2, <2>2, DecodeResponseCases, Zenon DEF OneDigitRead
  <2> HIDE DEF d
  <2>4. /\ d.st = r.st /\ d.code = r.code /\ d.value = r.value /\ d.value2 = r.value2
        /\ d.crc8 = r.crc8 /\ d.paramCode = r.paramCode
        /\ d.paramValue = WithDigit(r.paramValue, Head(bytes), WordRange)
    BY <2>3 DEF Expect, ResponseDecoderType
  <2>5. InParamValue(a, d, Tail(bytes), n - 1)
    BY <1>2, <2>1, <2>2, <2>4, Zenon DEF InParamValue, OneDigitRead
  <2> QED BY <2>1, <2>5, Zenon DEF FollowsAnswer, d
<1>4. CASE n = 0
  <2>1. bytes = AnswerEnd(a) /\ r.paramValue = a.paramValue
    <3>1. Digits(a.paramValue, 0) \o AnswerEnd(a) = AnswerEnd(a)
          /\ a.paramValue \div Power16[1] = a.paramValue
      BY <1>1, FieldEnd, Zenon
    <3>2. r.paramValue = a.paramValue \div Power16[1] /\ bytes = Digits(a.paramValue, 0) \o AnswerEnd(a)
      BY <1>2, <1>4
    <3> QED BY <3>1, <3>2, Zenon
  <2>2. Star \in Byte /\ ToHex(ResponseCRC(a)) \o <<NewLine>> \in Seq(Byte)
    BY <1>1, CharactersAreBytes, ToHexIsSeq, Concat
  <2>3. Head(bytes) = Star /\ Tail(bytes) = ToHex(ResponseCRC(a)) \o <<NewLine>>
    BY <2>1, <2>2, OneByte, Zenon DEF AnswerEnd
  <2>4. d = Expect(r, "CRC")
    BY <1>2, <2>3, DecodeResponseCases, Zenon
  <2>5. PICK k \in 1 .. 4 : WrittenWith(ResponseCRC(a), k)
    BY <1>1, ToHexIsDigits
  <2>6. k \in 0 .. 2
    BY <1>1, <2>5 DEF WrittenWith
  <2> HIDE DEF d
  <2>7. /\ d.st = "CRC" /\ d.code = r.code /\ d.value = r.value /\ d.value2 = r.value2
        /\ d.crc8 = r.crc8 /\ d.paramCode = r.paramCode /\ d.paramValue = r.paramValue
    BY <2>4 DEF Expect, ResponseDecoderType
  <2>8. ReadBy(d) = a
    <3>1. a = [code |-> a.code, value |-> a.value, value2 |-> a.value2,
               paramCode |-> a.paramCode, paramValue |-> a.paramValue]
      BY DEF AnswerMsg
    <3>2. ReadBy(d) = [code |-> d.code, value |-> d.value, value2 |-> d.value2,
                       paramCode |-> d.paramCode, paramValue |-> d.paramValue]
      BY DEF ReadBy, ResponseTo, MessageOf
    <3> QED BY <1>1, <1>2, <2>1, <2>7, <3>1, <3>2, Zenon
  <2>9. InAnswerCRC(a, d, Tail(bytes), k)
    BY <1>2, <2>3, <2>5, <2>7, <2>8, Zenon DEF InAnswerCRC, WrittenWith
  <2> QED BY <2>6, <2>9, Zenon DEF FollowsAnswer, d
<1> QED BY <1>3, <1>4

LEMMA AfterAnswerCRCByte ==
    ASSUME NEW a \in AnswerMsg, NEW r \in ResponseDecoderType, NEW bytes \in Seq(Byte),
           NEW n \in 0 .. 2, InAnswerCRC(a, r, bytes, n)
    PROVE  FollowsAnswer(a, DecodeResponse(r, Head(bytes)), Tail(bytes))
<1> DEFINE d == DecodeResponse(r, Head(bytes))
           crc == ResponseCRC(a)
<1>1. crc \in Byte /\ crc \in Word /\ <<NewLine>> \in Seq(Byte)
  BY AnswerParts
<1>2. /\ r.st = "CRC" /\ ReadBy(r) = a
      /\ r.crc8 = crc \div Power16[n + 1]
      /\ bytes = Digits(crc, n) \o <<NewLine>>
  BY DEF InAnswerCRC
<1>3. /\ r.code = a.code /\ r.value = a.value /\ r.value2 = a.value2
      /\ r.paramCode = a.paramCode /\ r.paramValue = a.paramValue
  BY <1>2 DEF ReadBy, ResponseTo, MessageOf
<1>4. ResponseCRC(r) = crc
  BY <1>3, Zenon DEF ResponseCRC, RequestCRC
<1> HIDE DEF crc
<1>5. CASE n # 0
  <2>1. Field(crc, n, ByteRange) /\ n - 1 \in 0 .. 2 /\ (n - 1) + 1 = n
    BY <1>1, <1>5 DEF Field
  <2>2. OneDigitRead(crc, n, ByteRange, <<NewLine>>, bytes)
    BY <1>1, <1>2, <2>1, FieldStep, Zenon
  <2>3. d = Expect([r EXCEPT !.crc8 = WithDigit(@, Head(bytes), ByteRange)], r.st)
    BY <1>2, <2>2, DecodeResponseCases, Zenon DEF OneDigitRead
  <2> HIDE DEF d
  <2>4. /\ d.st = r.st /\ d.code = r.code /\ d.value = r.value /\ d.value2 = r.value2
        /\ d.paramCode = r.paramCode /\ d.paramValue = r.paramValue
        /\ d.crc8 = WithDigit(r.crc8, Head(bytes), ByteRange)
    BY <2>3 DEF Expect, ResponseDecoderType
  <2>5. ReadBy(d) = ReadBy(r)
    BY <2>4, Zenon DEF ReadBy, ResponseTo, MessageOf
  <2>6. InAnswerCRC(a, d, Tail(bytes), n - 1)
    BY <1>2, <2>1, <2>2, <2>4, <2>5, Zenon DEF InAnswerCRC, OneDigitRead, crc
  <2> QED BY <2>1, <2>6, Zenon DEF FollowsAnswer, d
<1>6. CASE n = 0
  <2>1. bytes = <<NewLine>> /\ r.crc8 = crc
    <3>1. Digits(crc, 0) \o <<NewLine>> = <<NewLine>> /\ crc \div Power16[1] = crc
      BY <1>1, FieldEnd, Zenon
    <3>2. r.crc8 = crc \div Power16[1] /\ bytes = Digits(crc, 0) \o <<NewLine>>
      BY <1>2, <1>6
    <3> QED BY <3>1, <3>2, Zenon
  <2>2. Head(bytes) = NewLine /\ Tail(bytes) = <<>>
    BY <2>1
  <2>3. d = [r EXCEPT !.st = "RequestCode", !.status = "MessageCompleted"]
    <3>1. IsNewLine(Head(bytes))
      BY <2>2, Characters
    <3>2. r.crc8 = ResponseCRC(r)
      BY <1>4, <2>1, Zenon
    <3> QED BY <1>2, <3>1, <3>2, DecodeResponseCases, Zenon
  <2> HIDE DEF d
  <2>4. /\ d.st = "RequestCode" /\ d.status = "MessageCompleted"
        /\ d.code = r.code /\ d.value = r.value /\ d.value2 = r.value2
        /\ d.paramCode = r.paramCode /\ d.paramValue = r.paramValue
    BY <2>3 DEF ResponseDecoderType
  <2>5. ReadBy(d) = ReadBy(r)
    BY <2>4, Zenon DEF ReadBy, ResponseTo, MessageOf
  <2>6. AnswerRead(a, d)
    BY <1>2, <2>4, <2>5, Zenon DEF AnswerRead
  <2> QED BY <2>2, <2>6, Zenon DEF FollowsAnswer, d
<1> QED BY <1>5, <1>6

\* One byte further in an answer that the decoder follows.
LEMMA AnswerFollowed ==
    ASSUME NEW a \in AnswerMsg, NEW r \in ResponseDecoderType, NEW bytes \in Seq(Byte),
           bytes # <<>>, FollowsAnswer(a, r, bytes)
    PROVE  FollowsAnswer(a, DecodeResponse(r, Head(bytes)), Tail(bytes))
<1>1. CASE /\ r.st = "RequestCode"
           /\ \E withValue \in BOOLEAN : Form(a, withValue) /\ bytes = EncodeResponse(a, withValue)
  BY <1>1, AfterAnswerCode, Zenon
<1>2. CASE \E n \in 0 .. 2, withValue \in BOOLEAN :
               Form(a, withValue) /\ InRequestValue(a, r, bytes, n, withValue)
  BY <1>2, AfterRequestValueByte, Zenon
<1>3. CASE \E withValue \in BOOLEAN : Form(a, withValue) /\ InParamCode(a, r, bytes, withValue)
  BY <1>3, AfterParamCodeByte, Zenon
<1>4. CASE \E n \in 0 .. 4 : InParamValue(a, r, bytes, n)
  BY <1>4, AfterParamValueByte, Zenon
<1>5. CASE \E n \in 0 .. 2 : InAnswerCRC(a, r, bytes, n)
  BY <1>5, AfterAnswerCRCByte, Zenon
<1> QED BY <1>1, <1>2, <1>3, <1>4, <1>5, Zenon DEF FollowsAnswer

\* When nothing of the answer is left, it has been read.
LEMMA AnswerFollowedToEnd ==
    ASSUME NEW a \in AnswerMsg, NEW r, FollowsAnswer(a, r, <<>>)
    PROVE  AnswerRead(a, r)
<1>1. ASSUME NEW withValue \in BOOLEAN
      PROVE  EncodeResponse(a, withValue) # <<>>
  BY AnswerIsLine, Zenon
<1>2. ASSUME NEW withValue \in BOOLEAN
      PROVE  /\ AfterSpace(a, withValue) \in Seq(Byte) /\ AfterSpace(a, withValue) # <<>>
             /\ <<Space>> \o AfterSpace(a, withValue) \in Seq(Byte)
             /\ <<Space>> \o AfterSpace(a, withValue) # <<>>
  <2>1. AfterSpace(a, withValue) \in Seq(Byte) /\ AfterSpace(a, withValue) # <<>>
    BY AnswerParts, Zenon DEF Ended
  <2> QED BY <2>1, OneByte, CharactersAreBytes, Zenon
<1>3. /\ a.value \in Word /\ a.paramValue \in Word /\ ResponseCRC(a) \in Word
      /\ AnswerEnd(a) \in Seq(Byte) /\ AnswerEnd(a) # <<>>
      /\ <<NewLine>> \in Seq(Byte) /\ <<NewLine>> # <<>>
  BY AnswerParts DEF Ended
<1>4. ASSUME NEW n \in 0 .. 2, NEW withValue \in BOOLEAN
      PROVE  ~InRequestValue(a, r, <<>>, n, withValue)
  <2>1. n \in 0 .. 4
    OBVIOUS
  <2>2. Digits(a.value, n) \in Seq(Byte)
    BY <1>3, <2>1, DigitsAreBytes, Zenon
  <2>3. Digits(a.value, n) \o (<<Space>> \o AfterSpace(a, withValue)) # <<>>
    BY <1>2, <2>2, NotEmptyBehind, Zenon
  <2> QED BY <2>3, Zenon DEF InRequestValue
<1>5. ASSUME NEW n \in 0 .. 4 PROVE ~InParamValue(a, r, <<>>, n)
  <2>1. Digits(a.paramValue, n) \in Seq(Byte)
    BY <1>3, DigitsAreBytes, Zenon
  <2>2. Digits(a.paramValue, n) \o AnswerEnd(a) # <<>>
    BY <1>3, <2>1, NotEmptyBehind, Zenon
  <2> QED BY <2>2, Zenon DEF InParamValue
<1>6. ASSUME NEW n \in 0 .. 2 PROVE ~InAnswerCRC(a, r, <<>>, n)
  <2>1. n \in 0 .. 4
    OBVIOUS
  <2>2. Digits(ResponseCRC(a), n) \in Seq(Byte)
    BY <1>3, <2>1, DigitsAreBytes, Zenon
  <2>3. Digits(ResponseCRC(a), n) \o <<NewLine>> # <<>>
    BY <1>3, <2>2, NotEmptyBehind, Zenon
  <2> QED BY <2>3, Zenon DEF InAnswerCRC
<1>7. ASSUME NEW withValue \in BOOLEAN PROVE ~InParamCode(a, r, <<>>, withValue)
  BY <1>2, Zenon DEF InParamCode
<1> QED BY <1>1, <1>4, <1>5, <1>6, <1>7, Zenon DEF FollowsAnswer

-----------------------------------------------------------------------------
(***************************************************************************)
(* Steps of the two directions                                             *)
(***************************************************************************)

LEMMA RequestInvStep ==
    ASSUME NEW q \in RequestRecord, NEW r, RequestDecoderInv(r), NEW bytes \in Seq(Byte),
           bytes # <<>>, RequestInv(q, r, bytes)
    PROVE  LET d == DecodeRequest(r, Head(bytes))
           IN  /\ RequestDecoderInv(d) /\ RequestInv(q, d, Tail(bytes))
               /\ d.status = "MessageCompleted" =>
                    IsNewLine(Head(bytes)) /\ (q.sound => Tail(bytes) = <<>>)
               /\ \A i \in 1 .. Len(Tail(bytes)) - 1 : ~IsNewLine(Tail(bytes)[i])
<1> DEFINE d == DecodeRequest(r, Head(bytes))
<1>1. Head(bytes) \in Byte /\ Tail(bytes) \in Seq(Byte)
  BY TailFacts
<1>2. r \in RequestDecoderType /\ q.msg \in SentMsg
  BY DEF RequestDecoderInv, RequestRecord
<1>3. /\ Turn(r.st, Head(bytes), d.st, "Code")
      /\ d.status = "MessageCompleted" => IsNewLine(Head(bytes))
      /\ RequestDecoderInv(d)
  <2>1. d \in RequestDecoderType
    BY <1>1, <1>2, DecodeRequestType, Zenon
  <2>2. /\ Turn(r.st, Head(bytes), d.st, "Code")
        /\ d.status = "MessageCompleted" => IsNewLine(Head(bytes))
        /\ d.st \in {"Address", "WriteValue"} => d.code = Write
        /\ d.code # Write => d.value2 = 0
    BY <1>1, <1>2, DecodeRequestTurn, Zenon DEF RequestDecoderInv
  <2> QED BY <2>1, <2>2, Zenon DEF RequestDecoderInv
<1>4. q.sound \in BOOLEAN /\ MaxRequestSize \in Nat /\ MaxRequestSize - 1 \in Nat
  BY DEF RequestRecord, MaxRequestSize
<1>5. CASE q.sound
  <2>1. WholeLine(bytes, r.st, MaxRequestSize - 1)
    BY <1>5, Zenon DEF RequestInv
  <2>2. /\ WholeLine(Tail(bytes), d.st, MaxRequestSize - 1)
        /\ IsNewLine(Head(bytes)) <=> Tail(bytes) = <<>>
    <3> HIDE DEF d
    <3> QED BY <1>3, <1>4, <2>1, WholeLineStep, Zenon
  <2>3. CASE FollowsRequest(q.msg, r, bytes)
    <3>1. FollowsRequest(q.msg, d, Tail(bytes))
      BY <1>2, <2>3, RequestFollowed, Zenon
    <3> QED BY <1>3, <1>5, <2>2, <3>1, LineInside, <1>1, <1>4, Zenon DEF RequestInv
  <2>4. CASE ~q.prev /\ Astray(bytes, r.st, "Code")
    <3>1. "Code" \notin {"CRC", "Error"}
      OBVIOUS
    <3>2. Astray(Tail(bytes), d.st, "Code")
      <4> HIDE DEF d
      <4> QED BY <1>3, <1>4, <2>1, <2>4, <3>1, AstrayStep, Zenon
    <3> QED BY <1>3, <1>5, <2>2, <2>4, <3>2, LineInside, <1>1, <1>4, Zenon DEF RequestInv
  <2> QED BY <1>5, <2>3, <2>4, Zenon DEF RequestInv
<1>6. CASE ~q.sound
  <2>1. SpoiltLine(bytes, r.st, "Code", MaxRequestSize)
    BY <1>6, Zenon DEF RequestInv
  <2>2. /\ SpoiltLine(Tail(bytes), d.st, "Code", MaxRequestSize)
        /\ \A i \in 1 .. Len(Tail(bytes)) - 1 : ~IsNewLine(Tail(bytes)[i])
    <3> HIDE DEF d
    <3> QED BY <1>3, <1>4, <2>1, SpoiltLineStep, Zenon
  <2> QED BY <1>3, <1>6, <2>2, Zenon DEF RequestInv
<1> QED BY <1>4, <1>5, <1>6

LEMMA SecondAnswerFacts ==
    ASSUME NEW q \in AnswerMsg, NEW r \in ResponseDecoderType, NEW bytes \in Seq(Byte),
           SecondAnswer(q, r, bytes)
    PROVE  /\ bytes # <<>>
           /\ LET d == DecodeResponse(r, Head(bytes))
              IN  FollowsAnswer(q, d, Tail(bytes)) \/ SecondAnswer(q, d, Tail(bytes))
<1>1. PICK first \in AnswerMsg, rest \in Seq(Byte), withValue \in BOOLEAN :
        /\ rest # <<>> /\ FollowsAnswer(first, r, rest)
        /\ Form(q, withValue)
        /\ bytes = rest \o EncodeResponse(q, withValue)
  BY Zenon DEF SecondAnswer
<1> DEFINE second == EncodeResponse(q, withValue)
           d == DecodeResponse(r, Head(bytes))
<1>2. second \in Seq(Byte) /\ second # <<>>
  BY AnswerIsLine, Zenon
<1> HIDE DEF second
<1>3. bytes = rest \o second
  BY <1>1, Zenon DEF second
<1>4. /\ bytes # <<>> /\ Head(bytes) = rest[1] /\ Tail(bytes) = Tail(rest) \o second
  BY <1>1, <1>2, <1>3, ConcatHeadTail, Zenon
<1>5. Head(rest) = rest[1] /\ Tail(rest) \in Seq(Byte)
  BY <1>1, TailFacts
<1>6. FollowsAnswer(first, d, Tail(rest))
  <2>1. FollowsAnswer(first, DecodeResponse(r, Head(rest)), Tail(rest))
    BY <1>1, AnswerFollowed, Zenon
  <2> QED BY <1>4, <1>5, <2>1, Zenon
<1> HIDE DEF d
<1>7. CASE Tail(rest) = <<>>
  <2>1. d.st = "RequestCode"
    BY <1>6, <1>7, AnswerFollowedToEnd, Zenon DEF AnswerRead
  <2>2. Tail(bytes) = second
    BY <1>2, <1>4, <1>7, ConcatEmptySeq
  <2>3. FollowsAnswer(q, d, Tail(bytes))
    BY <1>1, <2>1, <2>2, Zenon DEF FollowsAnswer, second
  <2> QED BY <1>4, <2>3, Zenon DEF d
<1>8. CASE Tail(rest) # <<>>
  <2>1. SecondAnswer(q, d, Tail(bytes))
    BY <1>1, <1>4, <1>5, <1>6, <1>8, Zenon DEF SecondAnswer, second
  <2> QED BY <1>4, <2>1, Zenon DEF d
<1> QED BY <1>7, <1>8, Zenon

LEMMA AnswerInvStep ==
    ASSUME NEW q \in AnswerRecord, NEW r \in ResponseDecoderType, NEW bytes \in Seq(Byte),
           NEW line, NEW idle, bytes # <<>>, AnswerInv(q, r, bytes, line, idle)
    PROVE  LET d == DecodeResponse(r, Head(bytes))
           IN  d \in ResponseDecoderType /\ AnswerInv(q, d, Tail(bytes), line, idle)
<1> DEFINE d == DecodeResponse(r, Head(bytes))
<1>1. Head(bytes) \in Byte /\ Tail(bytes) \in Seq(Byte)
  BY TailFacts
<1>2. q.msg \in AnswerMsg /\ q.sound \in BOOLEAN
      /\ MaxResponseSize \in Nat /\ MaxResponseSize - 1 \in Nat
  BY DEF AnswerRecord, MaxResponseSize
<1>3. d \in ResponseDecoderType /\ Turn(r.st, Head(bytes), d.st, "RequestCode")
  BY <1>1, DecodeResponseTurn, Zenon
<1>4. FollowsAnswer(q.msg, r, bytes) => FollowsAnswer(q.msg, d, Tail(bytes))
  BY <1>2, AnswerFollowed, Zenon
<1>5. SecondAnswer(q.msg, r, bytes) =>
        FollowsAnswer(q.msg, d, Tail(bytes)) \/ SecondAnswer(q.msg, d, Tail(bytes))
  BY <1>2, SecondAnswerFacts, Zenon
<1> HIDE DEF d
<1>6. WholeLine(bytes, r.st, MaxResponseSize - 1) => WholeLine(Tail(bytes), d.st, MaxResponseSize - 1)
  BY <1>2, <1>3, WholeLineStep, Zenon
<1>7. /\ WholeLine(bytes, r.st, MaxResponseSize - 1)
      /\ Astray(bytes, r.st, "RequestCode")
      => Astray(Tail(bytes), d.st, "RequestCode")
  <2>1. "RequestCode" \notin {"CRC", "Error"}
    OBVIOUS
  <2> QED BY <1>2, <1>3, <2>1, AstrayStep, Zenon
<1>8. SpoiltLine(bytes, r.st, "RequestCode", MaxResponseSize)
      => SpoiltLine(Tail(bytes), d.st, "RequestCode", MaxResponseSize)
  BY <1>2, <1>3, SpoiltLineStep, Zenon
<1>9. AnswerInv(q, d, Tail(bytes), line, idle)
  BY <1>4, <1>5, <1>6, <1>7, <1>8, Zenon DEF AnswerInv
<1> QED BY <1>3, <1>9, Zenon DEF d

-----------------------------------------------------------------------------
(***************************************************************************)
(* The actions                                                             *)
(***************************************************************************)

\* An empty line and the decoder.
LEMMA EmptyLine ==
    ASSUME NEW st, NEW start, NEW size \in Nat
    PROVE  /\ WholeLine(<<>>, st, size)
           /\ SpoiltLine(<<>>, st, start, size) <=> st \in {start, "CRC", "Error"}
           /\ Astray(<<>>, st, start) <=> st = start
<1>1. Len(<<>>) = 0 /\ <<>> \in Seq(Byte)
  OBVIOUS
<1>2. ~HasStar(<<>>)
  BY <1>1 DEF HasStar
<1>3. WholeLine(<<>>, st, size)
  BY DEF WholeLine
<1>4. SpoiltLine(<<>>, st, start, size) <=> st \in {start, "CRC", "Error"}
  BY <1>1 DEF SpoiltLine
<1>5. Astray(<<>>, st, start) <=> st = start
  BY <1>2 DEF Astray
<1> QED BY <1>3, <1>4, <1>5

LEMMA Sizes ==
    /\ MaxRequestSize \in Nat /\ MaxRequestSize - 1 \in Nat
    /\ (MaxRequestSize - 1) + 1 = MaxRequestSize
    /\ MaxResponseSize \in Nat /\ MaxResponseSize - 1 \in Nat
    /\ (MaxResponseSize - 1) + 1 = MaxResponseSize
BY DEF MaxRequestSize, MaxResponseSize

LEMMA InitInv == Init => Inv
<1> SUFFICES ASSUME Init PROVE Inv
  OBVIOUS
<1>1. /\ Reset \in RequestCodes /\ Reset # Write /\ Finished \in ParamCodes
  BY DEF RequestCodes, ParamCodes, Commands, Reset, Write, Query, Tool, Load, Mode, Unload, Finda,
         Version, Button, Eject, Cut, FilamentType, FilamentSensor, Home, Read, Processing, Failed,
         Finished, Accepted, Rejected
<1>2. ResetRq \in CurrentMsg
  BY <1>1, ZeroIsByte DEF ResetRq, CurrentMsg, SentMsg, RequestMsg
<1>3. ResetRq \in SentMsg
  BY <1>2 DEF CurrentMsg
<1> DEFINE ready == ResponseTo(ResetRq, Finished, 0)
<1>4. ready \in AnswerMsg
  BY <1>1, ZeroIsByte DEF ResponseTo, ResetRq, AnswerMsg
<1>5. answer = [msg |-> ready, last |-> ready, sound |-> FALSE, prev |-> FALSE]
  BY DEF Init
<1> HIDE DEF ready
<1>6. ProtocolType
  <2>1. RequestDecoderInv(rq) /\ rsp \in ResponseDecoderType
    BY ZeroIsByte DEF Init, RequestDecoder, ResponseDecoder, RequestDecoderInv, RequestDecoderType,
                      ResponseDecoderType, Status
  <2>2. request \in RequestRecord
    BY <1>3 DEF Init, RequestRecord
  <2>3. answer \in AnswerRecord
    BY <1>4, <1>5 DEF AnswerRecord
  <2>4. toMMU \in Seq(Byte) /\ toPrinter \in Seq(Byte) /\ noisy \in {"request", "answer"}
    BY DEF Init
  <2>5. current \in CurrentMsg
    BY <1>2 DEF Init
  <2> QED BY <2>1, <2>2, <2>3, <2>4, <2>5, Zenon DEF ProtocolType
<1>7. /\ toMMU = <<>> /\ toPrinter = <<>> /\ rq.st = "Code" /\ rsp.st = "RequestCode"
      /\ ~request.sound /\ ~answer.sound
  BY <1>5 DEF Init, RequestDecoder, ResponseDecoder
<1>8. OnRequest
  <2>1. SpoiltLine(<<>>, "Code", "Code", MaxRequestSize)
    BY EmptyLine, Sizes
  <2> QED BY <1>7, <2>1, Zenon DEF OnRequest, RequestInv
<1>9. OnAnswer
  <2>1. SpoiltLine(<<>>, "RequestCode", "RequestCode", MaxResponseSize)
    BY EmptyLine, Sizes
  <2> QED BY <1>7, <2>1, Zenon DEF OnAnswer, AnswerInv
<1>10. Turns
  BY <1>7, Zenon DEF Turns
<1> QED BY <1>6, <1>8, <1>9, <1>10 DEF Inv

\* Nothing but the end of the line to the MMU can depend on it being empty.
LEMMA NotSecond ==
    ASSUME NEW q \in AnswerRecord, NEW r \in ResponseDecoderType, NEW bytes \in Seq(Byte),
           NEW line, NEW idle, AnswerInv(q, r, bytes, line, idle), ~idle \/ bytes = <<>>
    PROVE  \A other : AnswerInv(q, r, bytes, line, other)
<1>1. q.msg \in AnswerMsg
  BY DEF AnswerRecord
<1>2. ~(idle /\ SecondAnswer(q.msg, r, bytes))
  BY <1>1, SecondAnswerFacts, Zenon
<1> QED BY <1>2, Zenon DEF AnswerInv

LEMMA StepSendRequest ==
    ASSUME Inv, NEW msg \in Messages, SendRequest(msg)
    PROVE  Inv'
<1> USE DEF Inv, ProtocolType
<1>1. msg \in SentMsg
  BY MessagesAssumption DEF SentMsg
<1> DEFINE previous == IF rq.st = "Code" THEN msg ELSE request.msg
<1>2. /\ toMMU = <<>> /\ toPrinter = <<>>
      /\ toMMU' = EncodeRequest(msg)
      /\ request' = [msg |-> msg, last |-> previous, sound |-> TRUE, prev |-> request.sound]
      /\ rq' = rq /\ current' = current /\ rsp' = rsp /\ toPrinter' = toPrinter
      /\ answer' = answer /\ noisy' = noisy
  BY DEF SendRequest
<1>3. /\ EncodeRequest(msg) \in Seq(Byte) /\ EncodeRequest(msg) # <<>>
      /\ HasStar(EncodeRequest(msg))
      /\ WholeLine(EncodeRequest(msg), rq.st, MaxRequestSize - 1)
  BY <1>1, RequestIsLine, Zenon
<1>4. previous \in SentMsg /\ request.sound \in BOOLEAN
  BY <1>1 DEF RequestRecord
<1> HIDE DEF previous
<1>5. request' \in RequestRecord /\ request'.msg = msg /\ request'.sound
      /\ request'.prev = request.sound
  BY <1>1, <1>2, <1>4 DEF RequestRecord
<1>6. ProtocolType'
  BY <1>2, <1>3, <1>5, Zenon
<1>7. OnRequest'
  <2>1. RequestInv(request, rq, <<>>)
    BY <1>2, Zenon DEF OnRequest
  <2>2. CASE request.sound
    <3>1. rq.st = "Code"
      <4>1. CASE FollowsRequest(request.msg, rq, <<>>)
        <5>1. request.msg \in SentMsg
          BY DEF RequestRecord
        <5> QED BY <4>1, <5>1, RequestFollowedToEnd, Zenon DEF RequestDecoded
      <4>2. CASE Astray(<<>>, rq.st, "Code")
        BY <4>2, EmptyLine, Sizes
      <4> QED BY <2>1, <2>2, <4>1, <4>2, Zenon DEF RequestInv
    <3>2. FollowsRequest(msg, rq, EncodeRequest(msg))
      BY <3>1, Zenon DEF FollowsRequest
    <3> QED BY <1>2, <1>3, <1>5, <3>2, Zenon DEF OnRequest, RequestInv
  <2>3. CASE ~request.sound
    <3>1. rq.st \in {"Code", "CRC", "Error"}
      BY <2>1, <2>3, EmptyLine, Sizes DEF RequestInv
    <3>2. FollowsRequest(msg, rq, EncodeRequest(msg)) \/ Astray(EncodeRequest(msg), rq.st, "Code")
      BY <1>3, <3>1 DEF FollowsRequest, Astray
    <3>3. ~request'.prev
      BY <1>5, <2>3, Zenon
    <3> QED BY <1>2, <1>3, <1>5, <3>2, <3>3, Zenon DEF OnRequest, RequestInv
  <2> QED BY <2>2, <2>3
<1>8. OnAnswer'
  <2>1. AnswerInv(answer, rsp, toPrinter, noisy, toMMU = <<>>)
    BY Zenon DEF OnAnswer
  <2>2. AnswerInv(answer, rsp, toPrinter, noisy, toMMU' = <<>>)
    BY <1>2, <2>1, NotSecond, Zenon
  <2> QED BY <1>2, <2>2, Zenon DEF OnAnswer
<1>9. Turns'
  BY <1>2, <1>5, Zenon DEF Turns
<1> QED BY <1>6, <1>7, <1>8, <1>9

LEMMA StepReceiveAnswer ==
    ASSUME Inv, ReceiveAnswer
    PROVE  Inv'
<1> USE DEF Inv, ProtocolType
<1>1. /\ toPrinter # <<>> /\ rsp' = DecodeResponse(rsp, Head(toPrinter))
      /\ toPrinter' = Tail(toPrinter)
      /\ rq' = rq /\ current' = current /\ toMMU' = toMMU /\ request' = request
      /\ answer' = answer /\ noisy' = noisy
  BY DEF ReceiveAnswer
<1>2. /\ rsp' \in ResponseDecoderType
      /\ AnswerInv(answer, rsp', Tail(toPrinter), noisy, toMMU = <<>>)
  BY <1>1, AnswerInvStep, Zenon DEF OnAnswer
<1>3. Tail(toPrinter) \in Seq(Byte)
  BY <1>1, TailFacts
<1>4. ProtocolType'
  BY <1>1, <1>2, <1>3, Zenon
<1>5. OnRequest'
  BY <1>1, Zenon DEF OnRequest
<1>6. OnAnswer'
  BY <1>1, <1>2, Zenon DEF OnAnswer
<1>7. Turns'
  BY <1>1, Zenon DEF Turns
<1> QED BY <1>4, <1>5, <1>6, <1>7

LEMMA StepDisturbRequest ==
    ASSUME Inv, DisturbRequest
    PROVE  Inv'
<1> USE DEF Inv, ProtocolType
<1>1. /\ noisy = "request" /\ toMMU # <<>> /\ request.sound
      /\ toMMU' \in Disturbed(toMMU)
      /\ request' = [request EXCEPT !.sound = FALSE]
      /\ rq' = rq /\ current' = current /\ rsp' = rsp /\ toPrinter' = toPrinter
      /\ answer' = answer /\ noisy' = noisy
  BY DEF DisturbRequest
<1>2. toPrinter = <<>>
  BY <1>1, Zenon DEF Turns
<1>3. request' \in RequestRecord /\ ~request'.sound
  BY <1>1 DEF RequestRecord
<1>4. toMMU' \in Seq(Byte) /\ SpoiltLine(toMMU', rq.st, "Code", MaxRequestSize)
  <2>1. WholeLine(toMMU, rq.st, MaxRequestSize - 1)
    BY <1>1, Zenon DEF OnRequest, RequestInv
  <2>2. toMMU' \in Seq(Byte) /\ SpoiltLine(toMMU', rq.st, "Code", (MaxRequestSize - 1) + 1)
    BY <1>1, <2>1, LineDisturbed, Sizes, Zenon
  <2> QED BY <2>2, Sizes
<1>5. ProtocolType'
  BY <1>1, <1>3, <1>4, Zenon
<1>6. OnRequest'
  BY <1>1, <1>3, <1>4, Zenon DEF OnRequest, RequestInv
<1>7. OnAnswer'
  <2>1. AnswerInv(answer, rsp, toPrinter, noisy, toMMU = <<>>)
    BY Zenon DEF OnAnswer
  <2>2. AnswerInv(answer, rsp, toPrinter, noisy, toMMU' = <<>>)
    BY <1>2, <2>1, NotSecond, Zenon
  <2> QED BY <1>1, <2>2, Zenon DEF OnAnswer
<1>8. Turns'
  <2>1. noisy # "answer"
    BY <1>1
  <2> QED BY <1>1, <1>2, <1>3, <2>1, Zenon DEF Turns
<1> QED BY <1>5, <1>6, <1>7, <1>8

LEMMA StepDisturbAnswer ==
    ASSUME Inv, DisturbAnswer
    PROVE  Inv'
<1> USE DEF Inv, ProtocolType
<1>1. /\ noisy = "answer" /\ toPrinter # <<>> /\ answer.sound
      /\ toPrinter' \in Disturbed(toPrinter)
      /\ answer' = [answer EXCEPT !.sound = FALSE]
      /\ rq' = rq /\ current' = current /\ rsp' = rsp /\ toMMU' = toMMU
      /\ request' = request /\ noisy' = noisy
  BY DEF DisturbAnswer
<1>2. answer' \in AnswerRecord /\ ~answer'.sound
  BY <1>1 DEF AnswerRecord
<1>3. toPrinter' \in Seq(Byte) /\ SpoiltLine(toPrinter', rsp.st, "RequestCode", MaxResponseSize)
  <2>1. WholeLine(toPrinter, rsp.st, MaxResponseSize - 1)
    BY <1>1, Zenon DEF OnAnswer, AnswerInv
  <2>2. /\ toPrinter' \in Seq(Byte)
        /\ SpoiltLine(toPrinter', rsp.st, "RequestCode", (MaxResponseSize - 1) + 1)
    BY <1>1, <2>1, LineDisturbed, Sizes, Zenon
  <2> QED BY <2>2, Sizes
<1>4. ProtocolType'
  BY <1>1, <1>2, <1>3, Zenon
<1>5. OnRequest'
  BY <1>1, Zenon DEF OnRequest
<1>6. OnAnswer'
  BY <1>1, <1>2, <1>3, Zenon DEF OnAnswer, AnswerInv
<1>7. Turns'
  <2>1. noisy # "request"
    BY <1>1
  <2> QED BY <1>1, <2>1, Zenon DEF Turns
<1> QED BY <1>4, <1>5, <1>6, <1>7

\* The codes that ProcessRequestMsg tells apart.
LEMMA Codes ==
    /\ Write \notin Commands \cup {Reset} /\ Write \notin {Finda, Version, Read}
    /\ Commands \cup {Reset} \subseteq RequestCodes
    /\ {Button, FilamentSensor, Finda, Query, Version, Read, Write} \subseteq RequestCodes
    /\ Accepted \in ParamCodes /\ Rejected \in ParamCodes
BY DEF RequestCodes, ParamCodes, Commands, Reset, Write, Query, Tool, Load, Mode, Unload, Finda,
       Version, Button, Eject, Cut, FilamentType, FilamentSensor, Home, Read, Processing, Failed,
       Finished, Accepted, Rejected

Gives(a, withValue) == Form(a, withValue) /\ Answer(a, EncodeResponse(a, withValue))

LEMMA AcceptGives ==
    ASSUME NEW msg, msg \in [code: RequestCodes, value: Byte, value2: Word],
           NEW ar \in {Accepted, Rejected}, ReportCommandAccepted(msg, ar)
    PROVE  \E a \in AnswerMsg, withValue \in BOOLEAN : Gives(a, withValue)
<1> DEFINE a == ResponseTo([msg EXCEPT !.value2 = 0], ar, 0)
<1>1. a \in AnswerMsg
  <2>1. ar \in ParamCodes
    BY Codes
  <2> QED BY <2>1, ZeroIsByte DEF ResponseTo, AnswerMsg
<1>2. a.paramValue = 0
  BY DEF ResponseTo
<1>3. Gives(a, FALSE)
  BY <1>2, Zenon DEF Gives, Form, ReportCommandAccepted, EncodeResponseCmdAR
<1> QED BY <1>1, <1>3, Zenon

LEMMA ReadGives ==
    ASSUME NEW msg, msg \in [code: RequestCodes, value: Byte, value2: {0}],
           NEW accepted \in BOOLEAN, NEW value \in Word, ReportRead(msg, accepted, value)
    PROVE  \E a \in AnswerMsg, withValue \in BOOLEAN : Gives(a, withValue)
<1>1. CASE accepted
  <2> DEFINE a == ResponseTo(msg, Accepted, value)
  <2>1. a \in AnswerMsg
    BY Codes DEF ResponseTo, AnswerMsg
  <2>2. Gives(a, TRUE)
    BY <1>1, Zenon DEF Gives, Form, ReportRead, EncodeResponseRead
  <2> QED BY <2>1, <2>2, Zenon
<1>2. CASE ~accepted
  <2> DEFINE a == ResponseTo(msg, Rejected, 0)
  <2>1. a \in AnswerMsg /\ a.paramValue = 0
    BY Codes, ZeroIsByte DEF ResponseTo, AnswerMsg
  <2>2. Gives(a, FALSE)
    BY <1>2, <2>1, Zenon DEF Gives, Form, ReportRead, EncodeResponseRead
  <2> QED BY <2>1, <2>2, Zenon
<1> QED BY <1>1, <1>2, Zenon

LEMMA RunningGives ==
    ASSUME current \in CurrentMsg, ReportRunningCommand
    PROVE  \E a \in AnswerMsg, withValue \in BOOLEAN : Gives(a, withValue)
<1>1. PICK status \in Statuses :
        Answer(ResponseTo(current, status[1], status[2]), EncodeResponseQueryOperation(current, status))
  BY Zenon DEF ReportRunningCommand
<1> DEFINE a == ResponseTo(current, status[1], status[2])
<1>2. status[1] \in ParamCodes /\ status[2] \in Word
  BY StatusesAssumption
<1>3. /\ current.code \in RequestCodes /\ current.value \in Byte /\ current.value2 = 0
  BY Codes DEF CurrentMsg, SentMsg, RequestMsg
<1>4. a \in AnswerMsg
  BY <1>2, <1>3 DEF ResponseTo, AnswerMsg
<1>5. Gives(a, TRUE)
  BY <1>1, Zenon DEF Gives, Form, EncodeResponseQueryOperation
<1> QED BY <1>4, <1>5, Zenon

\* ProcessRequestMsg answers at most once, and keeps the command.
LEMMA ProcessGives ==
    ASSUME NEW r, RequestDecoderInv(r), current \in CurrentMsg, ProcessRequestMsg(MessageOf(r))
    PROVE  /\ current' \in CurrentMsg
           /\ \/ \E a \in AnswerMsg, withValue \in BOOLEAN : Gives(a, withValue)
              \/ toPrinter' = toPrinter /\ answer' = answer
<1> DEFINE msg == MessageOf(r)
<1>1. /\ msg.code = r.code /\ msg.value = r.value /\ msg.value2 = r.value2
      /\ r.code \in RequestCodes \cup {unknown} /\ r.value \in Byte /\ r.value2 \in Word
      /\ r.code # Write => r.value2 = 0
  BY DEF MessageOf, RequestDecoderInv, RequestDecoderType
<1>2. ASSUME r.code \in RequestCodes
      PROVE  /\ msg \in [code: RequestCodes, value: Byte, value2: Word]
             /\ r.code # Write => /\ msg \in [code: RequestCodes, value: Byte, value2: {0}]
                                  /\ msg \in SentMsg
  BY <1>1, <1>2 DEF MessageOf, SentMsg, RequestMsg
<1> HIDE DEF msg
<1>3. CASE msg.code \in {Button, FilamentSensor} /\ ReportCommandAccepted(msg, Accepted)
           /\ UNCHANGED current
  <2>1. msg \in [code: RequestCodes, value: Byte, value2: Word]
    BY <1>1, <1>2, <1>3, Codes
  <2> QED BY <1>3, <2>1, AcceptGives, Zenon
<1>4. CASE msg.code = Finda /\ (\E v \in 0 .. 1 : ReportRead(msg, TRUE, v)) /\ UNCHANGED current
  <2>1. msg \in [code: RequestCodes, value: Byte, value2: {0}]
    BY <1>1, <1>2, <1>4, Codes
  <2>2. PICK v \in 0 .. 1 : ReportRead(msg, TRUE, v)
    BY <1>4
  <2>3. v \in Word
    BY Widths
  <2> QED BY <1>4, <2>1, <2>2, <2>3, ReadGives, Zenon
<1>5. CASE msg.code = Query /\ ReportRunningCommand /\ UNCHANGED current
  BY <1>5, RunningGives, Zenon
<1>6. CASE /\ msg.code \in {Version, Read}
           /\ \/ \E v \in Registers : ReportRead(msg, TRUE, v)
              \/ ReportRead(msg, FALSE, 0)
           /\ UNCHANGED current
  <2>1. msg \in [code: RequestCodes, value: Byte, value2: {0}]
    BY <1>1, <1>2, <1>6, Codes
  <2>2. \A v \in Registers : v \in Word
    BY RegistersAssumption
  <2> QED BY <1>6, <2>1, <2>2, ZeroIsByte, ReadGives, Zenon
<1>7. CASE /\ msg.code = Write /\ (\E ar \in {Accepted, Rejected} : ReportCommandAccepted(msg, ar))
           /\ UNCHANGED current
  <2>1. msg \in [code: RequestCodes, value: Byte, value2: Word]
    BY <1>1, <1>2, <1>7, Codes
  <2> QED BY <1>7, <2>1, AcceptGives, Zenon
<1>8. CASE msg.code \in Commands /\ PlanCommand(msg)
  <2>1. msg \in [code: RequestCodes, value: Byte, value2: Word] /\ msg \in SentMsg
    BY <1>1, <1>2, <1>8, Codes
  <2>2. msg \in CurrentMsg
    BY <1>8, <2>1 DEF CurrentMsg
  <2>3. \E ar \in {Accepted, Rejected} : ReportCommandAccepted(msg, ar)
    BY <1>8 DEF PlanCommand
  <2>4. current' \in CurrentMsg
    BY <1>8, <2>2 DEF PlanCommand
  <2> QED BY <2>1, <2>3, <2>4, AcceptGives, Zenon
<1>9. CASE msg.code \in {unknown, FilamentType} /\ UNCHANGED <<current, toPrinter, answer>>
  BY <1>9
<1> QED BY <1>3, <1>4, <1>5, <1>6, <1>7, <1>8, <1>9, Zenon DEF ProcessRequestMsg, msg

\* The decoder of answers between two of them.
LEMMA BetweenAnswers ==
    ASSUME NEW q \in AnswerRecord, NEW r \in ResponseDecoderType, NEW line, NEW idle,
           AnswerInv(q, r, <<>>, line, idle)
    PROVE  /\ r.st \in {"RequestCode", "CRC", "Error"}
           /\ q.sound => r.st = "RequestCode"
           /\ q.sound /\ q.prev => AnswerRead(q.msg, r)
<1>1. q.msg \in AnswerMsg /\ q.sound \in BOOLEAN
  BY DEF AnswerRecord
<1>2. FollowsAnswer(q.msg, r, <<>>) => AnswerRead(q.msg, r)
  BY <1>1, AnswerFollowedToEnd, Zenon
<1>3. ~SecondAnswer(q.msg, r, <<>>)
  <2>1. <<>> \in Seq(Byte)
    OBVIOUS
  <2> QED BY <1>1, <2>1, SecondAnswerFacts, Zenon
<1>4. Astray(<<>>, r.st, "RequestCode") => r.st = "RequestCode"
  BY EmptyLine, Sizes
<1>5. SpoiltLine(<<>>, r.st, "RequestCode", MaxResponseSize) => r.st \in {"RequestCode", "CRC", "Error"}
  BY EmptyLine, Sizes
<1>6. CASE q.sound
  <2>1. r.st = "RequestCode" /\ (q.prev => AnswerRead(q.msg, r))
    BY <1>2, <1>3, <1>4, <1>6, Zenon DEF AnswerInv, AnswerRead
  <2> QED BY <2>1
<1>7. CASE ~q.sound
  BY <1>5, <1>7, Zenon DEF AnswerInv
<1> QED BY <1>1, <1>6, <1>7, Zenon

\* An answer is given: the second one to a request is given at its end.
LEMMA AnswerGiven ==
    ASSUME Inv, toMMU # <<>>, IsNewLine(Head(toMMU)), request.sound => Tail(toMMU) = <<>>,
           rsp' = rsp, noisy' = noisy, toMMU' = Tail(toMMU),
           NEW a \in AnswerMsg, NEW withValue \in BOOLEAN, Gives(a, withValue)
    PROVE  /\ toPrinter' \in Seq(Byte) /\ answer' \in AnswerRecord /\ answer'.sound
           /\ OnAnswer'
<1> USE DEF Inv, ProtocolType
<1> DEFINE bytes == EncodeResponse(a, withValue)
           last == IF rsp.st = "RequestCode" THEN a ELSE answer.msg
<1>1. /\ Form(a, withValue) /\ toPrinter' = toPrinter \o bytes
      /\ answer' = [msg |-> a, last |-> last, sound |-> TRUE, prev |-> answer.sound]
  BY DEF Gives, Answer
<1>2. /\ bytes \in Seq(Byte) /\ bytes # <<>> /\ HasStar(bytes)
      /\ WholeLine(bytes, rsp.st, MaxResponseSize - 1)
  BY AnswerIsLine, Zenon
<1>3. last \in AnswerMsg /\ answer.sound \in BOOLEAN /\ answer.msg \in AnswerMsg
  BY DEF AnswerRecord
<1>4. rsp.st = "RequestCode" => FollowsAnswer(a, rsp, bytes)
  BY <1>1, Zenon DEF FollowsAnswer
<1>5. toPrinter # <<>> /\ FollowsAnswer(answer.msg, rsp, toPrinter)
        => SecondAnswer(a, rsp, toPrinter \o bytes)
  BY <1>1, <1>3, Zenon DEF SecondAnswer
<1> HIDE DEF bytes, last
<1>6. answer' \in AnswerRecord /\ answer'.msg = a /\ answer'.sound /\ answer'.prev = answer.sound
  BY <1>1, <1>3 DEF AnswerRecord
<1>7. toPrinter' \in Seq(Byte)
  BY <1>1, <1>2, Concat
<1>8. CASE toPrinter = <<>>
  <2>1. toPrinter' = bytes
    BY <1>1, <1>2, <1>8, ConcatEmptySeq
  <2>2. AnswerInv(answer, rsp, <<>>, noisy, toMMU = <<>>)
    BY <1>8, Zenon DEF OnAnswer
  <2>3. rsp.st \in {"RequestCode", "CRC", "Error"} /\ (answer.sound => rsp.st = "RequestCode")
    BY <2>2, BetweenAnswers, Zenon
  <2>4. \/ FollowsAnswer(a, rsp, bytes)
        \/ ~answer.sound /\ noisy = "answer" /\ Astray(bytes, rsp.st, "RequestCode")
    <3>1. CASE rsp.st = "RequestCode"
      BY <1>4, <3>1
    <3>2. CASE rsp.st # "RequestCode"
      <4>1. ~answer.sound /\ noisy = "answer"
        BY <2>3, <3>2 DEF Turns
      <4>2. Astray(bytes, rsp.st, "RequestCode")
        BY <1>2, <2>3, <3>2 DEF Astray
      <4> QED BY <4>1, <4>2
    <3> QED BY <3>1, <3>2
  <2>5. OnAnswer'
    BY <1>2, <1>6, <2>1, <2>4, Zenon DEF OnAnswer, AnswerInv
  <2> QED BY <1>6, <1>7, <2>5
<1>9. CASE toPrinter # <<>>
  <2>1. ~request.sound /\ noisy = "request" /\ answer.sound
    BY <1>9 DEF Turns
  <2>2. noisy # "answer"
    BY <2>1
  <2>3. FollowsAnswer(answer.msg, rsp, toPrinter)
    BY <2>1, <2>2, Zenon DEF OnAnswer, AnswerInv
  <2>4. SecondAnswer(a, rsp, toPrinter')
    BY <1>1, <1>5, <1>9, <2>3, Zenon
  <2>5. toMMU' = <<>>
    <3>1. /\ Len(toMMU) \in Nat /\ Len(toMMU) >= 1 /\ Head(toMMU) = toMMU[1]
          /\ Tail(toMMU) = <<>> <=> Len(toMMU) = 1
      BY TailFacts
    <3>2. \A i \in 1 .. Len(toMMU) - 1 : ~IsNewLine(toMMU[i])
      BY <1>9, Zenon DEF Turns
    <3>3. Len(toMMU) = 1
      BY <3>1, <3>2
    <3> QED BY <3>1, <3>3, Zenon
  <2>6. OnAnswer'
    BY <1>6, <2>1, <2>2, <2>4, <2>5, Zenon DEF OnAnswer, AnswerInv
  <2> QED BY <1>6, <1>7, <2>6
<1> QED BY <1>8, <1>9

LEMMA StepCheckMsgs ==
    ASSUME Inv, CheckMsgs
    PROVE  Inv'
<1> USE DEF Inv, ProtocolType
<1> DEFINE d == DecodeRequest(rq, Head(toMMU))
<1>1. /\ toMMU # <<>> /\ rq' = d /\ toMMU' = Tail(toMMU)
      /\ IF d.status = "MessageCompleted" THEN ProcessRequestMsg(MessageOf(d))
         ELSE current' = current /\ toPrinter' = toPrinter /\ answer' = answer
      /\ rsp' = rsp /\ request' = request /\ noisy' = noisy
  BY DEF CheckMsgs
<1>2. /\ RequestDecoderInv(d) /\ RequestInv(request, d, Tail(toMMU))
      /\ d.status = "MessageCompleted" =>
           IsNewLine(Head(toMMU)) /\ (request.sound => Tail(toMMU) = <<>>)
      /\ \A i \in 1 .. Len(Tail(toMMU)) - 1 : ~IsNewLine(Tail(toMMU)[i])
  BY <1>1, RequestInvStep, Zenon DEF OnRequest
<1>3. toMMU' \in Seq(Byte)
  BY <1>1, TailFacts
<1> HIDE DEF d
<1>4. OnRequest'
  BY <1>1, <1>2, Zenon DEF OnRequest
<1>5. CASE /\ d.status = "MessageCompleted"
           /\ \E a \in AnswerMsg, withValue \in BOOLEAN : Gives(a, withValue)
           /\ current' \in CurrentMsg
  <2>1. PICK a \in AnswerMsg, withValue \in BOOLEAN : Gives(a, withValue)
    BY <1>5
  <2>2. /\ toPrinter' \in Seq(Byte) /\ answer' \in AnswerRecord /\ answer'.sound
        /\ OnAnswer'
    BY <1>1, <1>2, <1>5, <2>1, AnswerGiven, Zenon
  <2>3. ProtocolType'
    BY <1>1, <1>2, <1>3, <1>5, <2>2, Zenon
  <2>4. Turns'
    BY <1>1, <1>2, <1>5, <2>2, Zenon DEF Turns
  <2> QED BY <1>4, <2>2, <2>3, <2>4
<1>6. CASE toPrinter' = toPrinter /\ answer' = answer /\ current' \in CurrentMsg
  <2>1. ProtocolType'
    BY <1>1, <1>2, <1>3, <1>6, Zenon
  <2>2. OnAnswer'
    <3>1. AnswerInv(answer, rsp, toPrinter, noisy, toMMU = <<>>) /\ ~(toMMU = <<>>)
      BY <1>1, Zenon DEF OnAnswer
    <3>2. AnswerInv(answer, rsp, toPrinter, noisy, toMMU' = <<>>)
      BY <3>1, NotSecond, Zenon
    <3> QED BY <1>1, <1>6, <3>2, Zenon DEF OnAnswer
  <2>3. Turns'
    BY <1>1, <1>2, <1>6, Zenon DEF Turns
  <2> QED BY <1>4, <2>1, <2>2, <2>3
<1>7. CASE d.status = "MessageCompleted"
  <2>1. /\ current' \in CurrentMsg
        /\ \/ \E a \in AnswerMsg, withValue \in BOOLEAN : Gives(a, withValue)
           \/ toPrinter' = toPrinter /\ answer' = answer
    BY <1>1, <1>2, <1>7, ProcessGives, Zenon
  <2> QED BY <1>5, <1>6, <1>7, <2>1, Zenon
<1> QED BY <1>1, <1>6, <1>7, Zenon

LEMMA StepProcessReset ==
    ASSUME Inv, ProcessReset
    PROVE  Inv'
<1> USE DEF Inv, ProtocolType
<1> DEFINE d == DecodeRequest(rq, Head(toMMU))
<1>1. /\ toMMU # <<>> /\ d.status = "MessageCompleted" /\ d.code = Reset
      /\ rq' = RequestDecoder /\ current' = ResetRq /\ toMMU' = <<>>
      /\ rsp' = rsp /\ toPrinter' = toPrinter /\ request' = request
      /\ answer' = answer /\ noisy' = noisy
  BY DEF ProcessReset
<1>2. /\ RequestInv(request, d, Tail(toMMU))
      /\ request.sound => Tail(toMMU) = <<>>
  BY <1>1, RequestInvStep, Zenon DEF OnRequest
<1> HIDE DEF d
<1>3. rq' \in RequestDecoderType /\ rq'.st = "Code" /\ rq'.value2 = 0
  BY <1>1, ZeroIsByte DEF RequestDecoder, RequestDecoderType, Status
<1>4. RequestDecoderInv(rq')
  BY <1>3 DEF RequestDecoderInv
<1>5. current' \in CurrentMsg
  <2>1. Reset # Write /\ Reset \in RequestCodes
    BY Codes
  <2> QED BY <1>1, <2>1, ZeroIsByte DEF ResetRq, CurrentMsg, SentMsg, RequestMsg
<1>6. toMMU' \in Seq(Byte)
  BY <1>1
<1>7. ProtocolType'
  BY <1>1, <1>4, <1>5, <1>6, Zenon
<1>8. OnRequest'
  <2>1. /\ WholeLine(<<>>, "Code", MaxRequestSize - 1)
        /\ SpoiltLine(<<>>, "Code", "Code", MaxRequestSize)
        /\ Astray(<<>>, "Code", "Code")
    BY EmptyLine, Sizes
  <2>2. request.sound /\ request.prev => request.msg.code = Reset
    <3> SUFFICES ASSUME request.sound, request.prev PROVE request.msg.code = Reset
      OBVIOUS
    <3>1. request.msg \in SentMsg
      BY DEF RequestRecord
    <3>2. CASE FollowsRequest(request.msg, d, <<>>)
      <4>1. MessageOf(d) = request.msg
        BY <3>1, <3>2, RequestFollowedToEnd, Zenon DEF RequestDecoded
      <4> QED BY <1>1, <4>1 DEF MessageOf
    <3> QED BY <1>2, <3>2, Zenon DEF RequestInv
  <2>3. RequestInv(request, rq', <<>>)
    BY <1>3, <2>1, <2>2, Zenon DEF RequestInv
  <2> QED BY <1>1, <2>3, Zenon DEF OnRequest
<1>9. OnAnswer'
  <2>1. AnswerInv(answer, rsp, toPrinter, noisy, toMMU = <<>>) /\ ~(toMMU = <<>>)
    BY <1>1, Zenon DEF OnAnswer
  <2>2. AnswerInv(answer, rsp, toPrinter, noisy, toMMU' = <<>>)
    BY <2>1, NotSecond, Zenon
  <2> QED BY <1>1, <2>2, Zenon DEF OnAnswer
<1>10. Turns'
  <2>1. \A i \in 1 .. Len(<<>>) - 1 : ~IsNewLine(<<>>[i])
    <3>1. Len(<<>>) = 0
      OBVIOUS
    <3>2. 1 .. 0 - 1 = {}
      OBVIOUS
    <3> QED BY <3>1, <3>2
  <2> QED BY <1>1, <2>1, Zenon DEF Turns
<1> QED BY <1>7, <1>8, <1>9, <1>10

LEMMA NextInv == Inv /\ [Next]_vars => Inv'
<1> SUFFICES ASSUME Inv, [Next]_vars PROVE Inv'
  OBVIOUS
<1>1. ASSUME NEW msg \in Messages, SendRequest(msg) PROVE Inv'
  BY <1>1, StepSendRequest
<1>2. CASE CheckMsgs
  BY <1>2, StepCheckMsgs
<1>3. CASE ProcessReset
  BY <1>3, StepProcessReset
<1>4. CASE ReceiveAnswer
  BY <1>4, StepReceiveAnswer
<1>5. CASE DisturbRequest
  BY <1>5, StepDisturbRequest
<1>6. CASE DisturbAnswer
  BY <1>6, StepDisturbAnswer
<1>7. CASE UNCHANGED vars
  BY <1>7 DEF vars, Inv, ProtocolType, OnRequest, OnAnswer, Turns
<1> QED BY <1>1, <1>2, <1>3, <1>4, <1>5, <1>6, <1>7 DEF Next

-----------------------------------------------------------------------------
(***************************************************************************)
(* Theorems                                                                *)
(***************************************************************************)

\* For all sets of messages, for every value they carry and whichever byte of
\* each is replaced, lost or doubled, either decoder is always at one of the
\* places that OnRequest and OnAnswer list; an answer is on the line only when
\* the request is read (Application::CheckMsgs, ProcessRequestMsg).
THEOREM Invariance == Spec => []Inv
BY InitInv, NextInv, PTL DEF Spec

LEMMA InvType == Inv => TypeOK
<1> SUFFICES ASSUME Inv PROVE TypeOK
  OBVIOUS
<1>1. /\ rq \in RequestDecoderType /\ rsp \in ResponseDecoderType
      /\ current.code \in Commands \cup {Reset}
  BY DEF Inv, ProtocolType, RequestDecoderInv, CurrentMsg
<1>2. Len(toMMU) <= MaxRequestSize
  <2>1. RequestInv(request, rq, toMMU)
    BY DEF Inv, OnRequest
  <2>2. CASE toMMU = <<>>
    BY <2>2 DEF MaxRequestSize
  <2>3. CASE toMMU # <<>> /\ request.sound
    <3>1. Line(toMMU, MaxRequestSize - 1)
      BY <2>1, <2>3, Zenon DEF RequestInv, WholeLine
    <3>2. Len(toMMU) \in 1 .. MaxRequestSize - 1
      BY <3>1 DEF Line
    <3> QED BY <3>2, Sizes
  <2>4. CASE ~request.sound
    BY <2>1, <2>4, Zenon DEF RequestInv, SpoiltLine
  <2> QED BY <2>2, <2>3, <2>4
<1> QED BY <1>1, <1>2 DEF TypeOK, RequestDecoderType, ResponseDecoderType

\* Every field of the two decoders keeps its width and every state and code is
\* one of theirs, whatever is sent and disturbed; and the bytes of a request
\* never outgrow the buffer of the sender (protocol.h: MaxRequestSize), not
\* even when the line doubles one.
THEOREM ProtocolTypeCorrect == Spec => []TypeOK
BY Invariance, InvType, PTL

LEMMA InvResynchronises == Inv => Resynchronises
<1> SUFFICES ASSUME Inv PROVE Resynchronises
  OBVIOUS
<1>1. ASSUME toMMU = <<>>, request.sound, request.prev, request.msg.code # Reset
      PROVE  rq.status = "MessageCompleted" /\ MessageOf(rq) = request.msg
  <2>1. RequestInv(request, rq, <<>>) /\ request.msg \in SentMsg
    BY <1>1 DEF Inv, OnRequest, ProtocolType, RequestRecord
  <2>2. FollowsRequest(request.msg, rq, <<>>)
    BY <1>1, <2>1, Zenon DEF RequestInv
  <2> QED BY <2>1, <2>2, RequestFollowedToEnd, Zenon DEF RequestDecoded
<1>2. ASSUME toPrinter = <<>>, answer.sound, answer.prev
      PROVE  /\ rsp.status = "MessageCompleted"
             /\ ResponseTo(MessageOf(rsp), rsp.paramCode, rsp.paramValue) = answer.msg
  <2>1. AnswerInv(answer, rsp, <<>>, noisy, toMMU = <<>>)
    BY <1>2, Zenon DEF Inv, OnAnswer
  <2>2. AnswerRead(answer.msg, rsp)
    BY <1>2, <2>1, BetweenAnswers, Zenon DEF Inv, ProtocolType
  <2> QED BY <2>2, Zenon DEF AnswerRead, ReadBy
<1> QED BY <1>1, <1>2, Zenon DEF Resynchronises

\* Whatever the decoders of protocol.cpp were fed before, the second of two
\* undisturbed messages is understood as it was meant: a garbled one costs at
\* most the one that follows it. No property of the check sum is needed for
\* it, only that both sides compute the same.
THEOREM DecodingResynchronises == Spec => []Resynchronises
BY Invariance, InvResynchronises, PTL
=============================================================================
