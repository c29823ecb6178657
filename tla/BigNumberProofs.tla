-------------------------- MODULE BigNumberProofs ---------------------------
(***************************************************************************)
(* Big_number and the cuts of the script, for every number, position and   *)
(* size.                                                                   *)
(***************************************************************************)
EXTENDS BigNumber, SequenceTheorems, TLAPS

(* Sequences of bytes: Octet is left unexpanded in what follows, a byte is *)
(* known by the two facts of OctetType.                                    *)
Text == Seq(Octet)

(* A byte is a number below 256 (uint8_t).                                 *)
LEMMA OctetType == \A x \in Octet : x \in Nat /\ x <= 255
BY DEF Octet

(* A text is the function of its bytes.                                    *)
LEMMA Measured ==
  ASSUME NEW s \in Text
  PROVE  /\ Len(s) \in Nat /\ DOMAIN s = 1..Len(s) /\ s \in [1..Len(s) -> Octet]
         /\ \A i \in 1..Len(s) : s[i] \in Octet
BY LenProperties DEF Text

(* A byte of a text is a byte.                                             *)
LEMMA ByteOf ==
  ASSUME NEW s \in Text, NEW i \in 1..Len(s)
  PROVE  s[i] \in Octet
BY ElementOfSeq DEF Text

(* The length of a text is a natural number.                               *)
LEMMA LenType ==
  ASSUME NEW s \in Text
  PROVE  Len(s) \in Nat
BY LenProperties DEF Text

(* Length and bytes of a part of a text.                                   *)
LEMMA Sliced ==
  ASSUME NEW s \in Text, NEW m \in 1..(Len(s) + 1), NEW n \in 0..Len(s), m <= n + 1
  PROVE  /\ SubSeq(s, m, n) \in Text /\ Len(SubSeq(s, m, n)) = n - m + 1
         /\ \A i \in 1..(n - m + 1) : SubSeq(s, m, n)[i] = s[m + i - 1]
<1>1. Len(s) \in Nat /\ \A i \in 1..Len(s) : s[i] \in Octet
  BY Measured
<1>2. m \in Int /\ m >= 1 /\ n \in Int /\ n <= Len(s)
  BY <1>1
<1>4. \A i \in m..n : s[i] \in Octet
  BY <1>1, <1>2
<1>3. /\ SubSeq(s, m, n) \in Seq(Octet)
      /\ Len(SubSeq(s, m, n)) = IF m <= n THEN n - m + 1 ELSE 0
      /\ \A i \in 1..(n - m + 1) : SubSeq(s, m, n)[i] = s[m + i - 1]
  BY <1>2, <1>4, SubSeqProperties
<1> QED
  BY <1>1, <1>2, <1>3 DEF Text

(* One byte cut out of a sequence.                                         *)
LEMMA SliceOfOne ==
  ASSUME NEW s, NEW k \in Int, s[k] \in Octet
  PROVE  SubSeq(s, k, k) = <<s[k]>>
<1>1. \A i \in k..k : s[i] \in Octet
  OBVIOUS
<1>2. SubSeq(s, k, k) \in Seq(Octet) /\ Len(SubSeq(s, k, k)) = 1
      /\ \A i \in 1..1 : SubSeq(s, k, k)[i] = s[k + i - 1]
  BY <1>1, SubSeqProperties
<1>3. SubSeq(s, k, k)[1] = s[k]
  BY <1>2
<1>4. <<s[k]>> \in Seq(Octet) /\ Len(<<s[k]>>) = 1 /\ <<s[k]>>[1] = s[k]
  OBVIOUS
<1>5. \A i \in 1..Len(SubSeq(s, k, k)) : SubSeq(s, k, k)[i] = <<s[k]>>[i]
  BY <1>2, <1>3, <1>4
<1> QED
  BY <1>2, <1>4, <1>5, SeqEqual

(* Two bytes cut out of a sequence.                                        *)
LEMMA SliceOfTwo ==
  ASSUME NEW s, NEW k \in Int, s[k] \in Octet, s[k + 1] \in Octet
  PROVE  SubSeq(s, k, k + 1) = <<s[k], s[k + 1]>>
<1>1. \A i \in k..(k + 1) : s[i] \in Octet
  OBVIOUS
<1>2. SubSeq(s, k, k + 1) \in Seq(Octet) /\ Len(SubSeq(s, k, k + 1)) = 2
      /\ \A i \in 1..2 : SubSeq(s, k, k + 1)[i] = s[k + i - 1]
  BY <1>1, SubSeqProperties
<1>3. SubSeq(s, k, k + 1)[1] = s[k] /\ SubSeq(s, k, k + 1)[2] = s[k + 1]
  BY <1>2
<1>4. <<s[k], s[k + 1]>> \in Seq(Octet) /\ Len(<<s[k], s[k + 1]>>) = 2
      /\ <<s[k], s[k + 1]>>[1] = s[k] /\ <<s[k], s[k + 1]>>[2] = s[k + 1]
  OBVIOUS
<1>5. \A i \in 1..Len(SubSeq(s, k, k + 1)) : SubSeq(s, k, k + 1)[i] = <<s[k], s[k + 1]>>[i]
  BY <1>2, <1>3, <1>4
<1> QED
  BY <1>2, <1>4, <1>5, SeqEqual

-----------------------------------------------------------------------------
(* The hexadecimal text in which the nodes of the script hand numbers to   *)
(* each other                                                              *)

(* A number survives the conversion to hexadecimal text and back that lies *)
(* between any two nodes of the script (Getter::evaluate, Big_number's     *)
(* constructor from a string): no byte is empty, so no digit is lost.      *)
LEMMA HexRoundTrip ==
  ASSUME NEW number \in Text, number # <<>>
  PROVE  /\ number # Null /\ Getter(number) = hex_string(number)
         /\ from_hex_string(hex_string(number)) = number
<1> DEFINE L == Len(number)
           digits == [d \in 1..(2 * L) |->
                        IF d % 2 = 1 THEN number[(d + 1) \div 2] \div 16
                        ELSE number[(d + 1) \div 2] % 16]
<1>1. number # Null
  BY NullAssumption DEF Text
<1>2. L \in Nat /\ L # 0 /\ \A b \in 1..L : number[b] \in Nat
  <2>1. L \in Nat /\ L # 0
    BY EmptySeq DEF Text
  <2> QED
    BY <2>1, ByteOf, OctetType
<1>3. number = [b \in 1..L |-> number[b]]
  BY Measured
<1>4. hex_string(number) = digits
  BY <1>1, Zenon DEF hex_string
<1> HIDE DEF L
<1>5. DOMAIN digits = 1..(2 * L) /\ Len(digits) = 2 * L /\ digits # <<>>
  BY <1>2
<1>6. \A b \in 1..L : digits[2 * b - 1] = number[b] \div 16 /\ digits[2 * b] = number[b] % 16
  <2> SUFFICES ASSUME NEW b \in 1..L
               PROVE  digits[2 * b - 1] = number[b] \div 16 /\ digits[2 * b] = number[b] % 16
    OBVIOUS
  <2>1. /\ 2 * b - 1 \in 1..(2 * L) /\ (2 * b - 1) % 2 = 1 /\ ((2 * b - 1) + 1) \div 2 = b
        /\ 2 * b \in 1..(2 * L) /\ (2 * b) % 2 # 1 /\ (2 * b + 1) \div 2 = b
    BY <1>2
  <2> QED
    BY <2>1, Zenon
<1> HIDE DEF digits
<1>7. (Len(digits) + 1) \div 2 = L
  BY <1>2, <1>5
<1>8. from_hex_string(digits) =
        [b \in 1..L |-> IF 2 * b <= Len(digits)
                        THEN 16 * digits[2 * b - 1] + digits[2 * b]
                        ELSE digits[2 * b - 1]]
  BY <1>5, <1>7, Zenon DEF from_hex_string
<1>9. \A b \in 1..L : (IF 2 * b <= Len(digits)
                       THEN 16 * digits[2 * b - 1] + digits[2 * b]
                       ELSE digits[2 * b - 1]) = number[b]
  <2> SUFFICES ASSUME NEW b \in 1..L
               PROVE  (IF 2 * b <= Len(digits)
                       THEN 16 * digits[2 * b - 1] + digits[2 * b]
                       ELSE digits[2 * b - 1]) = number[b]
    OBVIOUS
  <2>1. 2 * b <= Len(digits)
    <3>1. 2 * b <= 2 * L
      BY <1>2
    <3> QED
      BY <1>5, <3>1, Zenon
  <2>2. number[b] \in Nat /\ 16 * (number[b] \div 16) + (number[b] % 16) = number[b]
    <3>1. \A x \in Nat : 16 * (x \div 16) + (x % 16) = x
      OBVIOUS
    <3> QED
      BY <1>2, <3>1, Zenon
  <2>3. digits[2 * b - 1] = number[b] \div 16 /\ digits[2 * b] = number[b] % 16
    BY <1>6
  <2>4. 16 * digits[2 * b - 1] + digits[2 * b] = number[b]
    BY <2>2, <2>3, Zenon
  <2> QED
    BY <2>1, <2>4, Zenon
<1>10. from_hex_string(digits) = number
  BY <1>3, <1>8, <1>9
<1> QED
  BY <1>1, <1>4, <1>10 DEF Getter

(* to_size_t of a number of one byte is that byte (the fold of             *)
(* Big_number::to_size_t, for the length that Frame::decode uses).         *)
LEMMA SizeOfByte ==
  ASSUME NEW x \in Octet, <<x>> # Null
  PROVE  to_size_t(<<x>>) = x
<1> DEFINE Is(v) == v = [n \in 0..Len(<<x>>) |-> IF n = 0 THEN 0 ELSE 256 * v[n - 1] + <<x>>[n]]
           f == [n \in 0..1 |-> IF n = 0 THEN 0 ELSE x]
           value == CHOOSE v : Is(v)
<1>1. Is(f)
  <2>1. f = [n \in 0..Len(<<x>>) |-> IF n = 0 THEN 0 ELSE 256 * f[n - 1] + <<x>>[n]]
    <3>1. x \in Nat
      BY OctetType
    <3> QED
      BY <3>1
  <2> QED
    BY <2>1
<1>2. Is(value)
  <2> HIDE DEF Is, f
  <2> QED
    BY <1>1
<1>3. \A v : Is(v) => v[1] = x
  <2> SUFFICES ASSUME NEW v, Is(v) PROVE v[1] = x
    OBVIOUS
  <2>1. v[0] = 0 /\ x \in Nat
    BY OctetType
  <2> QED
    BY <2>1
<1>4. value[1] = x
  <2> HIDE DEF Is, value
  <2> QED
    BY <1>2, <1>3
<1>5. Len(<<x>>) = 1
  OBVIOUS
<1>6. to_size_t(<<x>>) = value[Len(<<x>>)]
  BY <1>5, SMT DEF to_size_t
<1> QED
  BY <1>4, <1>5, <1>6

-----------------------------------------------------------------------------
(* The bits of one byte of the shifted number                              *)

(* Bit m of a byte.                                                        *)
BitOf(x, m) == (x \div 2^m) % 2

(* A byte of the number shifted to the right by less than eight bits takes *)
(* its low bits from the byte itself and its high bits from the byte in    *)
(* front of it, and it is a byte again: case by case, there are eight      *)
(* shifts.                                                                 *)
LEMMA ShiftedBits ==
  ASSUME NEW x \in Octet, NEW y \in Octet, NEW a \in 0..7, NEW m \in 0..7
  PROVE  LET z == x \div 2^a + (y % 2^a) * 2^(8 - a)
         IN /\ z \in Octet
            /\ BitOf(z, m) = IF m + a < 8 THEN BitOf(x, m + a) ELSE BitOf(y, m + a - 8)
<1>1. x \in Nat /\ x < 256 /\ y \in Nat /\ y < 256
  BY OctetType
<1>2. CASE a = 0
  <2> DEFINE z == x \div 1 + (y % 1) * 256
  <2>1. /\ z \in Nat /\ z < 256
        /\ BitOf(z, 0) = BitOf(x, 0) /\ BitOf(z, 1) = BitOf(x, 1)
        /\ BitOf(z, 2) = BitOf(x, 2) /\ BitOf(z, 3) = BitOf(x, 3)
        /\ BitOf(z, 4) = BitOf(x, 4) /\ BitOf(z, 5) = BitOf(x, 5)
        /\ BitOf(z, 6) = BitOf(x, 6) /\ BitOf(z, 7) = BitOf(x, 7)
    BY <1>1, SMTT(60) DEF BitOf
  <2> HIDE DEF z
  <2>2. z \in Octet /\ BitOf(z, m) = IF m + 0 < 8 THEN BitOf(x, m + 0) ELSE BitOf(y, m + 0 - 8)
    BY <2>1 DEF Octet
  <2> QED
    BY <1>2, <2>2 DEF z
<1>3. CASE a = 1
  <2> DEFINE z == x \div 2 + (y % 2) * 128
  <2>1. /\ z \in Nat /\ z < 256
        /\ BitOf(z, 0) = BitOf(x, 1) /\ BitOf(z, 1) = BitOf(x, 2)
        /\ BitOf(z, 2) = BitOf(x, 3) /\ BitOf(z, 3) = BitOf(x, 4)
        /\ BitOf(z, 4) = BitOf(x, 5) /\ BitOf(z, 5) = BitOf(x, 6)
        /\ BitOf(z, 6) = BitOf(x, 7) /\ BitOf(z, 7) = BitOf(y, 0)
    BY <1>1, SMTT(60) DEF BitOf
  <2> HIDE DEF z
  <2>2. z \in Octet /\ BitOf(z, m) = IF m + 1 < 8 THEN BitOf(x, m + 1) ELSE BitOf(y, m + 1 - 8)
    BY <2>1 DEF Octet
  <2> QED
    BY <1>3, <2>2 DEF z
<1>4. CASE a = 2
  <2> DEFINE z == x \div 4 + (y % 4) * 64
  <2>1. /\ z \in Nat /\ z < 256
        /\ BitOf(z, 0) = BitOf(x, 2) /\ BitOf(z, 1) = BitOf(x, 3)
        /\ BitOf(z, 2) = BitOf(x, 4) /\ BitOf(z, 3) = BitOf(x, 5)
        /\ BitOf(z, 4) = BitOf(x, 6) /\ BitOf(z, 5) = BitOf(x, 7)
        /\ BitOf(z, 6) = BitOf(y, 0) /\ BitOf(z, 7) = BitOf(y, 1)
    BY <1>1, SMTT(60) DEF BitOf
  <2> HIDE DEF z
  <2>2. z \in Octet /\ BitOf(z, m) = IF m + 2 < 8 THEN BitOf(x, m + 2) ELSE BitOf(y, m + 2 - 8)
    BY <2>1 DEF Octet
  <2> QED
    BY <1>4, <2>2 DEF z
<1>5. CASE a = 3
  <2> DEFINE z == x \div 8 + (y % 8) * 32
  <2>1. /\ z \in Nat /\ z < 256
        /\ BitOf(z, 0) = BitOf(x, 3) /\ BitOf(z, 1) = BitOf(x, 4)
        /\ BitOf(z, 2) = BitOf(x, 5) /\ BitOf(z, 3) = BitOf(x, 6)
        /\ BitOf(z, 4) = BitOf(x, 7) /\ BitOf(z, 5) = BitOf(y, 0)
        /\ BitOf(z, 6) = BitOf(y, 1) /\ BitOf(z, 7) = BitOf(y, 2)
    BY <1>1, SMTT(60) DEF BitOf
  <2> HIDE DEF z
  <2>2. z \in Octet /\ BitOf(z, m) = IF m + 3 < 8 THEN BitOf(x, m + 3) ELSE BitOf(y, m + 3 - 8)
    BY <2>1 DEF Octet
  <2> QED
    BY <1>5, <2>2 DEF z
<1>6. CASE a = 4
  <2> DEFINE z == x \div 16 + (y % 16) * 16
  <2>1. /\ z \in Nat /\ z < 256
        /\ BitOf(z, 0) = BitOf(x, 4) /\ BitOf(z, 1) = BitOf(x, 5)
        /\ BitOf(z, 2) = BitOf(x, 6) /\ BitOf(z, 3) = BitOf(x, 7)
        /\ BitOf(z, 4) = BitOf(y, 0) /\ BitOf(z, 5) = BitOf(y, 1)
        /\ BitOf(z, 6) = BitOf(y, 2) /\ BitOf(z, 7) = BitOf(y, 3)
    BY <1>1, SMTT(60) DEF BitOf
  <2> HIDE DEF z
  <2>2. z \in Octet /\ BitOf(z, m) = IF m + 4 < 8 THEN BitOf(x, m + 4) ELSE BitOf(y, m + 4 - 8)
    BY <2>1 DEF Octet
  <2> QED
    BY <1>6, <2>2 DEF z
<1>7. CASE a = 5
  <2> DEFINE z == x \div 32 + (y % 32) * 8
  <2>1. /\ z \in Nat /\ z < 256
        /\ BitOf(z, 0) = BitOf(x, 5) /\ BitOf(z, 1) = BitOf(x, 6)
        /\ BitOf(z, 2) = BitOf(x, 7) /\ BitOf(z, 3) = BitOf(y, 0)
        /\ BitOf(z, 4) = BitOf(y, 1) /\ BitOf(z, 5) = BitOf(y, 2)
        /\ BitOf(z, 6) = BitOf(y, 3) /\ BitOf(z, 7) = BitOf(y, 4)
    BY <1>1, SMTT(60) DEF BitOf
  <2> HIDE DEF z
  <2>2. z \in Octet /\ BitOf(z, m) = IF m + 5 < 8 THEN BitOf(x, m + 5) ELSE BitOf(y, m + 5 - 8)
    BY <2>1 DEF Octet
  <2> QED
    BY <1>7, <2>2 DEF z
<1>8. CASE a = 6
  <2> DEFINE z == x \div 64 + (y % 64) * 4
  <2>1. /\ z \in Nat /\ z < 256
        /\ BitOf(z, 0) = BitOf(x, 6) /\ BitOf(z, 1) = BitOf(x, 7)
        /\ BitOf(z, 2) = BitOf(y, 0) /\ BitOf(z, 3) = BitOf(y, 1)
        /\ BitOf(z, 4) = BitOf(y, 2) /\ BitOf(z, 5) = BitOf(y, 3)
        /\ BitOf(z, 6) = BitOf(y, 4) /\ BitOf(z, 7) = BitOf(y, 5)
    BY <1>1, SMTT(60) DEF BitOf
  <2> HIDE DEF z
  <2>2. z \in Octet /\ BitOf(z, m) = IF m + 6 < 8 THEN BitOf(x, m + 6) ELSE BitOf(y, m + 6 - 8)
    BY <2>1 DEF Octet
  <2> QED
    BY <1>8, <2>2 DEF z
<1>9. CASE a = 7
  <2> DEFINE z == x \div 128 + (y % 128) * 2
  <2>1. /\ z \in Nat /\ z < 256
        /\ BitOf(z, 0) = BitOf(x, 7) /\ BitOf(z, 1) = BitOf(y, 0)
        /\ BitOf(z, 2) = BitOf(y, 1) /\ BitOf(z, 3) = BitOf(y, 2)
        /\ BitOf(z, 4) = BitOf(y, 3) /\ BitOf(z, 5) = BitOf(y, 4)
        /\ BitOf(z, 6) = BitOf(y, 5) /\ BitOf(z, 7) = BitOf(y, 6)
    BY <1>1, SMTT(60) DEF BitOf
  <2> HIDE DEF z
  <2>2. z \in Octet /\ BitOf(z, m) = IF m + 7 < 8 THEN BitOf(x, m + 7) ELSE BitOf(y, m + 7 - 8)
    BY <2>1 DEF Octet
  <2> QED
    BY <1>9, <2>2 DEF z
<1> QED
  BY <1>2, <1>3, <1>4, <1>5, <1>6, <1>7, <1>8, <1>9

(* Clearing the bits in front of the slice keeps the others: case by case, *)
(* by how many are cleared.                                                *)
LEMMA ClearedBits ==
  ASSUME NEW x \in Octet, NEW c \in 0..7, NEW m \in 0..7
  PROVE  /\ x % 2^(8 - c) \in Octet
         /\ BitOf(x % 2^(8 - c), m) = IF m < 8 - c THEN BitOf(x, m) ELSE 0
<1>1. x \in Nat /\ x < 256
  BY OctetType
<1>2. CASE c = 0
  <2> DEFINE z == x % 256
  <2>1. /\ z \in Nat /\ z < 256
        /\ BitOf(z, 0) = BitOf(x, 0) /\ BitOf(z, 1) = BitOf(x, 1)
        /\ BitOf(z, 2) = BitOf(x, 2) /\ BitOf(z, 3) = BitOf(x, 3)
        /\ BitOf(z, 4) = BitOf(x, 4) /\ BitOf(z, 5) = BitOf(x, 5)
        /\ BitOf(z, 6) = BitOf(x, 6) /\ BitOf(z, 7) = BitOf(x, 7)
    BY <1>1, SMTT(60) DEF BitOf
  <2> HIDE DEF z
  <2>2. z \in Octet /\ BitOf(z, m) = IF m < 8 - 0 THEN BitOf(x, m) ELSE 0
    BY <2>1 DEF Octet
  <2> QED
    BY <1>2, <2>2 DEF z
<1>3. CASE c = 1
  <2> DEFINE z == x % 128
  <2>1. /\ z \in Nat /\ z < 256
        /\ BitOf(z, 0) = BitOf(x, 0) /\ BitOf(z, 1) = BitOf(x, 1)
        /\ BitOf(z, 2) = BitOf(x, 2) /\ BitOf(z, 3) = BitOf(x, 3)
        /\ BitOf(z, 4) = BitOf(x, 4) /\ BitOf(z, 5) = BitOf(x, 5)
        /\ BitOf(z, 6) = BitOf(x, 6) /\ BitOf(z, 7) = 0
    BY <1>1, SMTT(60) DEF BitOf
  <2> HIDE DEF z
  <2>2. z \in Octet /\ BitOf(z, m) = IF m < 8 - 1 THEN BitOf(x, m) ELSE 0
    BY <2>1 DEF Octet
  <2> QED
    BY <1>3, <2>2 DEF z
<1>4. CASE c = 2
  <2> DEFINE z == x % 64
  <2>1. /\ z \in Nat /\ z < 256
        /\ BitOf(z, 0) = BitOf(x, 0) /\ BitOf(z, 1) = BitOf(x, 1)
        /\ BitOf(z, 2) = BitOf(x, 2) /\ BitOf(z, 3) = BitOf(x, 3)
        /\ BitOf(z, 4) = BitOf(x, 4) /\ BitOf(z, 5) = BitOf(x, 5)
        /\ BitOf(z, 6) = 0 /\ BitOf(z, 7) = 0
    BY <1>1, SMTT(60) DEF BitOf
  <2> HIDE DEF z
  <2>2. z \in Octet /\ BitOf(z, m) = IF m < 8 - 2 THEN BitOf(x, m) ELSE 0
    BY <2>1 DEF Octet
  <2> QED
    BY <1>4, <2>2 DEF z
<1>5. CASE c = 3
  <2> DEFINE z == x % 32
  <2>1. /\ z \in Nat /\ z < 256
        /\ BitOf(z, 0) = BitOf(x, 0) /\ BitOf(z, 1) = BitOf(x, 1)
        /\ BitOf(z, 2) = BitOf(x, 2) /\ BitOf(z, 3) = BitOf(x, 3)
        /\ BitOf(z, 4) = BitOf(x, 4) /\ BitOf(z, 5) = 0
        /\ BitOf(z, 6) = 0 /\ BitOf(z, 7) = 0
    BY <1>1, SMTT(60) DEF BitOf
  <2> HIDE DEF z
  <2>2. z \in Octet /\ BitOf(z, m) = IF m < 8 - 3 THEN BitOf(x, m) ELSE 0
    BY <2>1 DEF Octet
  <2> QED
    BY <1>5, <2>2 DEF z
<1>6. CASE c = 4
  <2> DEFINE z == x % 16
  <2>1. /\ z \in Nat /\ z < 256
        /\ BitOf(z, 0) = BitOf(x, 0) /\ BitOf(z, 1) = BitOf(x, 1)
        /\ BitOf(z, 2) = BitOf(x, 2) /\ BitOf(z, 3) = BitOf(x, 3)
        /\ BitOf(z, 4) = 0 /\ BitOf(z, 5) = 0
        /\ BitOf(z, 6) = 0 /\ BitOf(z, 7) = 0
    BY <1>1, SMTT(60) DEF BitOf
  <2> HIDE DEF z
  <2>2. z \in Octet /\ BitOf(z, m) = IF m < 8 - 4 THEN BitOf(x, m) ELSE 0
    BY <2>1 DEF Octet
  <2> QED
    BY <1>6, <2>2 DEF z
<1>7. CASE c = 5
  <2> DEFINE z == x % 8
  <2>1. /\ z \in Nat /\ z < 256
        /\ BitOf(z, 0) = BitOf(x, 0) /\ BitOf(z, 1) = BitOf(x, 1)
        /\ BitOf(z, 2) = BitOf(x, 2) /\ BitOf(z, 3) = 0
        /\ BitOf(z, 4) = 0 /\ BitOf(z, 5) = 0
        /\ BitOf(z, 6) = 0 /\ BitOf(z, 7) = 0
    BY <1>1, SMTT(60) DEF BitOf
  <2> HIDE DEF z
  <2>2. z \in Octet /\ BitOf(z, m) = IF m < 8 - 5 THEN BitOf(x, m) ELSE 0
    BY <2>1 DEF Octet
  <2> QED
    BY <1>7, <2>2 DEF z
<1>8. CASE c = 6
  <2> DEFINE z == x % 4
  <2>1. /\ z \in Nat /\ z < 256
        /\ BitOf(z, 0) = BitOf(x, 0) /\ BitOf(z, 1) = BitOf(x, 1)
        /\ BitOf(z, 2) = 0 /\ BitOf(z, 3) = 0
        /\ BitOf(z, 4) = 0 /\ BitOf(z, 5) = 0
        /\ BitOf(z, 6) = 0 /\ BitOf(z, 7) = 0
    BY <1>1, SMTT(60) DEF BitOf
  <2> HIDE DEF z
  <2>2. z \in Octet /\ BitOf(z, m) = IF m < 8 - 6 THEN BitOf(x, m) ELSE 0
    BY <2>1 DEF Octet
  <2> QED
    BY <1>8, <2>2 DEF z
<1>9. CASE c = 7
  <2> DEFINE z == x % 2
  <2>1. /\ z \in Nat /\ z < 256
        /\ BitOf(z, 0) = BitOf(x, 0) /\ BitOf(z, 1) = 0
        /\ BitOf(z, 2) = 0 /\ BitOf(z, 3) = 0
        /\ BitOf(z, 4) = 0 /\ BitOf(z, 5) = 0
        /\ BitOf(z, 6) = 0 /\ BitOf(z, 7) = 0
    BY <1>1, SMTT(60) DEF BitOf
  <2> HIDE DEF z
  <2>2. z \in Octet /\ BitOf(z, m) = IF m < 8 - 7 THEN BitOf(x, m) ELSE 0
    BY <2>1 DEF Octet
  <2> QED
    BY <1>9, <2>2 DEF z
<1> QED
  BY <1>2, <1>3, <1>4, <1>5, <1>6, <1>7, <1>8, <1>9

(* What is shifted into the first byte is zero.                            *)
LEMMA ZeroByte ==
  ASSUME NEW a \in 0..7
  PROVE  (0 % 2^a) * 2^(8 - a) = 0 /\ BitOf(0, a) = 0
<1>1. CASE a = 0 BY <1>1 DEF BitOf
<1>2. CASE a = 1 BY <1>2 DEF BitOf
<1>3. CASE a = 2 BY <1>3 DEF BitOf
<1>4. CASE a = 3 BY <1>4 DEF BitOf
<1>5. CASE a = 4 BY <1>5 DEF BitOf
<1>6. CASE a = 5 BY <1>6 DEF BitOf
<1>7. CASE a = 6 BY <1>7 DEF BitOf
<1>8. CASE a = 7 BY <1>8 DEF BitOf
<1> QED
  BY <1>1, <1>2, <1>3, <1>4, <1>5, <1>6, <1>7, <1>8

-----------------------------------------------------------------------------
(* The slice that cut_bit takes, bit by bit                                *)

(* The bytes that a slice of bits touches: there is at least one, they lie *)
(* inside the number, and less than eight bits stand in front of the slice *)
(* and behind it (byte_size of Big_number::cut_bit).                       *)
LEMMA SliceArithmetic ==
  ASSUME NEW from \in Nat, NEW size \in Nat, NEW L \in Nat, from + size <= 8 * L, size > 0
  PROVE  LET k == ByteSize(from, size)
             q == from \div 8
         IN /\ q \in Nat /\ from % 8 \in 0..7 /\ from = 8 * q + (from % 8)
            /\ k \in Nat /\ k >= 1 /\ q + k <= L
            /\ 8 * k - size - (from % 8) \in 0..7
<1> DEFINE q == from \div 8
           a == from % 8
           e == (from + size + 7) \div 8
<1>1. q \in Nat /\ a \in 0..7 /\ from = 8 * q + a
  OBVIOUS
<1>2. e \in Nat /\ 8 * e >= from + size /\ 8 * e <= from + size + 7
  OBVIOUS
<1>3. ByteSize(from, size) = e - q
  BY DEF ByteSize
<1> HIDE DEF q, a, e
<1>4. e - q \in Nat /\ e - q >= 1 /\ q + (e - q) <= L /\ 8 * (e - q) - size - a \in 0..7
  BY <1>1, <1>2
<1> DEFINE k == ByteSize(from, size)
<1>5. k = e - q
  BY <1>3
<1> HIDE DEF k
<1>6. k \in Nat /\ k >= 1 /\ q + k <= L /\ 8 * k - size - a \in 0..7
  BY <1>4, <1>5, Zenon
<1> QED
  BY <1>1, <1>6 DEF q, a, k

(* Length and bytes of what cut_byte returns inside the number's end.      *)
LEMMA CutByteIs ==
  ASSUME NEW number \in Text, NEW q \in Nat, NEW k \in Nat, k >= 1, q + k <= Len(number)
  PROVE  /\ cut_byte(number, q, k) \in Text /\ Len(cut_byte(number, q, k)) = k
         /\ \A b \in 1..k : cut_byte(number, q, k)[b] = number[Len(number) - (q + k) + b]
<1> DEFINE L == Len(number)
<1>1. number # Null
  BY NullAssumption DEF Text
<1>2. L \in Nat
  BY LenType
<1>3. cut_byte(number, q, k) = SubSeq(number, L - (q + k) + 1, L - q)
  <2>1. ~ (q + k > L) /\ k # 0
    BY <1>2
  <2> QED
    BY <1>1, <2>1, Zenon DEF cut_byte
<1> DEFINE m == L - (q + k) + 1
           n == L - q
<1>4. m \in 1..(L + 1) /\ n \in 0..L /\ m <= n + 1 /\ n - m + 1 = k
      /\ \A b \in 1..k : m + b - 1 = L - (q + k) + b
  BY <1>2
<1> HIDE DEF m, n
<1>5. /\ SubSeq(number, m, n) \in Text /\ Len(SubSeq(number, m, n)) = n - m + 1
      /\ \A b \in 1..(n - m + 1) : SubSeq(number, m, n)[b] = number[m + b - 1]
  BY <1>4, Sliced
<1>6. cut_byte(number, q, k) = SubSeq(number, m, n)
  BY <1>3 DEF m, n
<1> QED
  BY <1>4, <1>5, <1>6

(* cut_bit inside the number's end, with its local variables spelt out.    *)
LEMMA CutBitIs ==
  ASSUME NEW number \in Text, NEW from \in Nat, NEW size \in Nat,
         from + size <= 8 * Len(number)
  PROVE  LET bytes == cut_byte(number, from \div 8, ByteSize(from, size))
             before == 8 * Len(bytes) - size - (from % 8)
             shifted == ShiftRight([bytes EXCEPT ![1] = @ % 2^(8 - before)], from % 8)
         IN cut_bit(number, from, size) =
              IF bytes = Null
              THEN Null
              ELSE IF before + (from % 8) >= 8 THEN Tail(shifted) ELSE shifted
<1>1. number # Null
  BY NullAssumption DEF Text
<1>2. Len(number) \in Nat
  BY LenType
<1>3. ~ (from + size > 8 * Len(number))
  BY <1>2
<1> QED
  BY <1>1, <1>3, Zenon DEF cut_bit

(* S holds the bits of the bytes B but for the c bits in front of them and *)
(* the a bits behind, with zeroes in front.                                *)
HoldsSlice(S, B, k, c, a) ==
  /\ S \in Text /\ Len(S) = k
  /\ \A j \in 0..(k - 1) : \A m \in 0..7 :
       BitOf(S[k - j], m) =
         IF 8 * j + m < 8 * k - c - a
         THEN IF m + a < 8 THEN BitOf(B[k - j], m + a)
                           ELSE BitOf(B[k - j - 1], m + a - 8)
         ELSE 0

(* The bits of the touched bytes after clearing the c bits in front of the *)
(* slice and shifting out the a bits behind it: the bits of the slice,     *)
(* then zeroes.                                                            *)
LEMMA BitsOfSlice ==
  ASSUME NEW B \in Text, NEW k \in Nat, k >= 1, Len(B) = k, NEW a \in 0..7, NEW c \in 0..7
  PROVE  HoldsSlice(ShiftRight([B EXCEPT ![1] = @ % 2^(8 - c)], a), B, k, c, a)
<1> DEFINE C == [B EXCEPT ![1] = @ % 2^(8 - c)]
<1>1. /\ C \in Text /\ Len(C) = k /\ C[1] = B[1] % 2^(8 - c)
      /\ \A b \in 1..k : b # 1 => C[b] = B[b]
  <2>1. 1 \in 1..Len(B) /\ B[1] \in Octet
    BY ByteOf
  <2>2. B[1] % 2^(8 - c) \in Octet
    <3>1. 0 \in 0..7
      OBVIOUS
    <3> QED
      BY <2>1, <3>1, ClearedBits
  <2> DEFINE first == B[1] % 2^(8 - c)
  <2>3. C = [B EXCEPT ![1] = first]
    OBVIOUS
  <2> HIDE DEF first, C
  <2>4. /\ C \in Seq(Octet) /\ Len(C) = Len(B)
        /\ \A b \in 1..Len(B) : C[b] = IF b = 1 THEN first ELSE B[b]
    BY <2>1, <2>2, <2>3, ExceptSeq DEF Text, first
  <2> QED
    BY <2>1, <2>4 DEF Text, first
<1> HIDE DEF C
<1>2. ASSUME NEW b \in 1..k, NEW m \in 0..7
      PROVE  /\ C[b] \in Octet
             /\ BitOf(C[b], m) = IF b = 1 /\ ~ (m < 8 - c) THEN 0 ELSE BitOf(B[b], m)
  <2>1. b \in 1..Len(B) /\ B[b] \in Octet
    BY ByteOf
  <2>2. CASE b = 1
    <3>1. /\ B[1] % 2^(8 - c) \in Octet
          /\ BitOf(B[1] % 2^(8 - c), m) = IF m < 8 - c THEN BitOf(B[1], m) ELSE 0
      BY <2>1, <2>2, ClearedBits
    <3>2. /\ C[1] \in Octet
          /\ BitOf(C[1], m) = IF m < 8 - c THEN BitOf(B[1], m) ELSE 0
      BY <1>1, <3>1, Zenon
    <3> QED
      BY <2>2, <3>2, Zenon
  <2>3. CASE b # 1
    BY <1>1, <2>1, <2>3
  <2> QED
    BY <2>2, <2>3
<1> DEFINE Before(b) == IF b = 1 THEN 0 ELSE C[b - 1]
           S == ShiftRight(C, a)
<1>3. ASSUME NEW b \in 1..k PROVE Before(b) \in Octet
  <2>1. CASE b = 1
    BY <2>1 DEF Octet
  <2>2. CASE b # 1
    <3>1. b - 1 \in 1..k /\ 0 \in 0..7
      BY <2>2
    <3> QED
      BY <1>2, <2>2, <3>1
  <2> QED
    BY <2>1, <2>2
<1>4. S = [b \in 1..k |-> C[b] \div 2^a + (Before(b) % 2^a) * 2^(8 - a)]
  <2>1. S = [b \in 1..Len(C) |->
               C[b] \div 2^a + (IF b = 1 THEN 0 ELSE (C[b - 1] % 2^a) * 2^(8 - a))]
    BY DEF ShiftRight
  <2>2. ASSUME NEW b \in 1..k
        PROVE  (IF b = 1 THEN 0 ELSE (C[b - 1] % 2^a) * 2^(8 - a)) = (Before(b) % 2^a) * 2^(8 - a)
    BY ZeroByte
  <2>3. Len(C) = k
    BY <1>1
  <2> HIDE DEF Before, S
  <2> QED
    BY <2>1, <2>2, <2>3
<1> HIDE DEF S
<1>5. ASSUME NEW b \in 1..k, NEW m \in 0..7
      PROVE  /\ S[b] \in Octet
             /\ BitOf(S[b], m) = IF m + a < 8 THEN BitOf(C[b], m + a)
                                              ELSE BitOf(Before(b), m + a - 8)
  <2>1. C[b] \in Octet /\ Before(b) \in Octet
    BY <1>2, <1>3
  <2>2. S[b] = C[b] \div 2^a + (Before(b) % 2^a) * 2^(8 - a)
    BY <1>4
  <2> DEFINE x == C[b]
             y == Before(b)
             z == x \div 2^a + (y % 2^a) * 2^(8 - a)
  <2> HIDE DEF Before, x, y
  <2>3. x \in Octet /\ y \in Octet
    BY <2>1 DEF x, y
  <2>4. /\ z \in Octet
        /\ BitOf(z, m) = IF m + a < 8 THEN BitOf(x, m + a) ELSE BitOf(y, m + a - 8)
    BY <2>3, ShiftedBits
  <2>5. S[b] = z
    BY <2>2 DEF x, y
  <2> QED
    BY <2>4, <2>5, Zenon DEF x, y
<1>6. S \in Text /\ Len(S) = k
  <2>1. 0 \in 0..7
    OBVIOUS
  <2>2. \A b \in 1..k : S[b] \in Octet
    BY <1>5, <2>1
  <2>3. S \in [1..k -> Octet]
    <3> HIDE DEF Before
    <3> QED
      BY <1>4, <2>2
  <2> QED
    BY <2>3 DEF Text
<1>7. ASSUME NEW j \in 0..(k - 1), NEW m \in 0..7
      PROVE  BitOf(S[k - j], m) =
               IF 8 * j + m < 8 * k - c - a
               THEN IF m + a < 8 THEN BitOf(B[k - j], m + a)
                                 ELSE BitOf(B[k - j - 1], m + a - 8)
               ELSE 0
  <2> DEFINE b == k - j
  <2>1. b \in 1..k /\ j = k - b
    OBVIOUS
  <2> HIDE DEF b
  <2>2. CASE m + a < 8
    <3>1. m + a \in 0..7
      BY <2>2
    <3>2. BitOf(S[b], m) = BitOf(C[b], m + a)
      BY <1>5, <2>1, <2>2
    <3>3. BitOf(C[b], m + a) = IF b = 1 /\ ~ (m + a < 8 - c) THEN 0 ELSE BitOf(B[b], m + a)
      BY <1>2, <2>1, <3>1
    <3>4. (b = 1 /\ ~ (m + a < 8 - c)) <=> ~ (8 * j + m < 8 * k - c - a)
      BY <2>1, <2>2
    <3> QED
      BY <2>2, <3>2, <3>3, <3>4 DEF b
  <2>3. CASE ~ (m + a < 8)
    <3>1. m + a - 8 \in 0..7
      BY <2>3
    <3>2. BitOf(S[b], m) = BitOf(Before(b), m + a - 8)
      BY <1>5, <2>1, <2>3
    <3>3. CASE b = 1
      <4>1. BitOf(Before(b), m + a - 8) = 0
        BY <3>1, <3>3, ZeroByte
      <4>2. ~ (8 * j + m < 8 * k - c - a)
        BY <2>1, <2>3, <3>3
      <4> QED
        BY <3>2, <4>1, <4>2 DEF b
    <3>4. CASE b # 1
      <4>1. b - 1 \in 1..k
        BY <2>1, <3>4
      <4>2. BitOf(C[b - 1], m + a - 8) =
              IF b - 1 = 1 /\ ~ (m + a - 8 < 8 - c) THEN 0 ELSE BitOf(B[b - 1], m + a - 8)
        BY <1>2, <3>1, <4>1
      <4>3. (b - 1 = 1 /\ ~ (m + a - 8 < 8 - c)) <=> ~ (8 * j + m < 8 * k - c - a)
        BY <2>1, <2>3, <3>4
      <4> QED
        BY <2>3, <3>2, <3>4, <4>2, <4>3 DEF b
    <3> QED
      BY <3>3, <3>4
  <2> QED
    BY <2>2, <2>3
<1> QED
  BY <1>6, <1>7 DEF HoldsSlice, S, C

(* The byte and the place in it of a bit, counted from the end of the      *)
(* slice and from the end of the number.                                   *)
LEMMA PositionOfBit ==
  ASSUME NEW q \in Nat, NEW a \in 0..7, NEW j \in Nat, NEW m \in 0..7
  PROVE  LET p == 8 * q + a + (8 * j + m)
         IN IF m + a < 8 THEN p \div 8 = q + j /\ p % 8 = m + a
                         ELSE p \div 8 = q + j + 1 /\ p % 8 = m + a - 8
<1> DEFINE p == 8 * q + a + (8 * j + m)
<1>1. CASE m + a < 8
  <2>1. p = 8 * (q + j) + (m + a) /\ m + a \in 0..7 /\ q + j \in Nat
    BY <1>1
  <2>2. p \div 8 = q + j /\ p % 8 = m + a
    BY <2>1
  <2> QED
    BY <1>1, <2>2
<1>2. CASE ~ (m + a < 8)
  <2>1. p = 8 * (q + j + 1) + (m + a - 8) /\ m + a - 8 \in 0..7 /\ q + j + 1 \in Nat
    BY <1>2
  <2>2. p \div 8 = q + j + 1 /\ p % 8 = m + a - 8
    BY <2>1
  <2> QED
    BY <1>2, <2>2
<1> QED
  BY <1>1, <1>2

(* Dropping the first byte, where the slice left nothing in it, keeps the  *)
(* others when they are counted from the end.                              *)
LEMMA DroppedFirst ==
  ASSUME NEW S \in Text, NEW k \in Nat, k >= 1, Len(S) = k, NEW t \in 0..1
  PROVE  LET r == IF t = 1 THEN Tail(S) ELSE S
         IN /\ r \in Text /\ Len(r) = k - t
            /\ \A j \in 0..(k - t - 1) : r[Len(r) - j] = S[k - j]
<1> DEFINE r == IF t = 1 THEN Tail(S) ELSE S
<1>1. CASE t = 0
  BY <1>1
<1>2. CASE t = 1
  <2>1. S # <<>>
    BY EmptySeq DEF Text
  <2>2. /\ Tail(S) \in Seq(Octet) /\ Len(Tail(S)) = Len(S) - 1
        /\ \A i \in 1..Len(Tail(S)) : Tail(S)[i] = S[i + 1]
    BY <2>1, HeadTailProperties DEF Text
  <2>3. r = Tail(S)
    BY <1>2
  <2>4. r \in Text /\ Len(r) = k - 1 /\ \A i \in 1..(k - 1) : r[i] = S[i + 1]
    BY <2>2, <2>3 DEF Text
  <2> HIDE <2>2, <2>3
  <2>5. ASSUME NEW j \in 0..(k - 2) PROVE r[(k - 1) - j] = S[k - j]
    <3>1. (k - 1) - j \in 1..(k - 1) /\ ((k - 1) - j) + 1 = k - j
      OBVIOUS
    <3> QED
      BY <2>4, <3>1
  <2> QED
    BY <1>2, <2>4, <2>5
<1> QED
  BY <1>1, <1>2

(* cut_bit yields the slice of bits it is asked for, at every alignment,   *)
(* with as many bytes as the slice needs.                                  *)
LEMMA CutBitSlice ==
  ASSUME NEW number \in Text, NEW from \in Nat, NEW size \in Nat,
         from + size <= 8 * Len(number), size > 0
  PROVE  LET slice == cut_bit(number, from, size)
         IN slice \in Text /\ slice # <<>> /\ IsSlice(slice, number, from, size)
<1> DEFINE L == Len(number)
           q == from \div 8
           a == from % 8
           k == ByteSize(from, size)
           c == 8 * k - size - a
           B == cut_byte(number, q, k)
           S == ShiftRight([B EXCEPT ![1] = @ % 2^(8 - c)], a)
           t == IF c + a >= 8 THEN 1 ELSE 0
           r == cut_bit(number, from, size)
<1>1. L \in Nat
  BY LenType
<1>2. /\ q \in Nat /\ a \in 0..7 /\ from = 8 * q + a
      /\ k \in Nat /\ k >= 1 /\ q + k <= L /\ c \in 0..7
  <2> HIDE DEF L
  <2> QED
    BY <1>1, SliceArithmetic DEF L
<1>3. /\ B \in Text /\ Len(B) = k
      /\ \A b \in 1..k : B[b] = number[L - (q + k) + b]
  <2> HIDE DEF q, k
  <2> QED
    BY <1>2, CutByteIs
<1>4. B # Null
  BY <1>3, NullAssumption DEF Text
<1>5. r = IF t = 1 THEN Tail(S) ELSE S
  <2>1. r = IF B = Null
            THEN Null
            ELSE IF (8 * Len(B) - size - a) + a >= 8
                 THEN Tail(ShiftRight([B EXCEPT ![1] = @ % 2^(8 - (8 * Len(B) - size - a))], a))
                 ELSE ShiftRight([B EXCEPT ![1] = @ % 2^(8 - (8 * Len(B) - size - a))], a)
    BY CutBitIs
  <2>2. Len(B) = k
    BY <1>3
  <2> HIDE DEF B, q, a, k, r
  <2>3. r = IF B = Null THEN Null ELSE IF c + a >= 8 THEN Tail(S) ELSE S
    BY <2>1, <2>2, Zenon
  <2>4. CASE c + a >= 8
    BY <1>4, <2>3, <2>4, Zenon
  <2>5. CASE ~ (c + a >= 8)
    <3>1. t = 0
      BY <2>5
    <3>2. r = S
      BY <1>4, <2>3, <2>5, Zenon
    <3> QED
      BY <3>1, <3>2
  <2> QED
    BY <2>4, <2>5
<1>6. /\ S \in Text /\ Len(S) = k
      /\ \A j \in 0..(k - 1) : \A m \in 0..7 :
           BitOf(S[k - j], m) =
             IF 8 * j + m < 8 * k - c - a
             THEN IF m + a < 8 THEN BitOf(B[k - j], m + a)
                               ELSE BitOf(B[k - j - 1], m + a - 8)
             ELSE 0
  <2>1. a \in 0..7 /\ k \in Nat /\ k >= 1 /\ c \in 0..7 /\ B \in Text /\ Len(B) = k
    BY <1>2, <1>3
  <2> HIDE DEF B, a, k, c
  <2>2. HoldsSlice(S, B, k, c, a)
    BY <2>1, BitsOfSlice
  <2> QED
    BY <2>2, Zenon DEF HoldsSlice
<1> HIDE DEF S, r
<1>7. t \in 0..1 /\ k - t = (size + 7) \div 8 /\ k - t >= 1 /\ size = 8 * k - c - a
  <2>1. size = 8 * k - c - a /\ a \in 0..7 /\ c \in 0..7 /\ k \in Nat
    BY <1>2
  <2> HIDE DEF a, c, k
  <2>2. CASE c + a >= 8
    BY <2>1, <2>2
  <2>3. CASE ~ (c + a >= 8)
    BY <2>1, <2>3
  <2> QED
    BY <2>2, <2>3
<1> HIDE DEF t
<1>8. /\ r \in Text /\ Len(r) = k - t
      /\ \A j \in 0..(k - t - 1) : r[Len(r) - j] = S[k - j]
  <2>1. k \in Nat /\ k >= 1
    BY <1>2
  <2>2. S \in Text /\ Len(S) = k /\ t \in 0..1
    BY <1>6, <1>7
  <2> HIDE DEF k
  <2> DEFINE d == IF t = 1 THEN Tail(S) ELSE S
  <2>3. d \in Text /\ Len(d) = k - t /\ \A j \in 0..(k - t - 1) : d[Len(d) - j] = S[k - j]
    BY <2>1, <2>2, DroppedFirst
  <2>4. r = d
    BY <1>5
  <2> HIDE DEF d
  <2> QED
    BY <2>3, <2>4
<1> HIDE DEF B, q, a, c, k, L
<1>9. ASSUME NEW i \in 0..(8 * Len(r) - 1)
      PROVE  Bit(r, i) = IF i < size THEN Bit(number, from + i) ELSE 0
  <2> DEFINE j == i \div 8
             m == i % 8
  <2>1. i \in Nat /\ j \in Nat /\ m \in 0..7 /\ i = 8 * j + m
    BY <1>2, <1>7, <1>8
  <2>2. j \in 0..(k - t - 1) /\ j \in 0..(k - 1)
    BY <1>2, <1>7, <1>8
  <2> HIDE DEF j, m
  <2>3. Bit(r, i) = BitOf(r[Len(r) - j], m)
    BY DEF Bit, BitOf, j, m
  <2>4. r[Len(r) - j] = S[k - j]
    BY <1>8, <2>2
  <2>5. Bit(r, i) =
          IF 8 * j + m < 8 * k - c - a
          THEN IF m + a < 8 THEN BitOf(B[k - j], m + a)
                            ELSE BitOf(B[k - j - 1], m + a - 8)
          ELSE 0
    BY <1>6, <2>1, <2>2, <2>3, <2>4
  <2>6. Bit(number, from + i) = BitOf(number[L - (from + i) \div 8], (from + i) % 8)
    BY DEF Bit, BitOf, L
  <2>7. from + i = 8 * q + a + (8 * j + m)
    BY <1>2, <2>1
  <2>8. CASE ~ (i < size)
    BY <1>7, <2>1, <2>5, <2>8
  <2>9. CASE i < size /\ m + a < 8
    <3>1. (from + i) \div 8 = q + j /\ (from + i) % 8 = m + a
      BY <1>2, <2>1, <2>7, <2>9, PositionOfBit
    <3>2. k - j \in 1..k /\ L - (q + k) + (k - j) = L - (q + j)
      BY <1>1, <1>2, <2>2
    <3>3. B[k - j] = number[L - (q + j)]
      BY <1>3, <3>2
    <3>4. 8 * j + m < 8 * k - c - a
      BY <1>7, <2>1, <2>9
    <3>5. Bit(r, i) = BitOf(B[k - j], m + a)
      BY <2>5, <2>9, <3>4
    <3> QED
      BY <2>6, <2>9, <3>1, <3>3, <3>5
  <2>10. CASE i < size /\ ~ (m + a < 8)
    <3>1. (from + i) \div 8 = q + j + 1 /\ (from + i) % 8 = m + a - 8
      BY <1>2, <2>1, <2>7, <2>10, PositionOfBit
    <3>4. 8 * j + m < 8 * k - c - a
      BY <1>7, <2>1, <2>10
    <3>2. k - j - 1 \in 1..k /\ L - (q + k) + (k - j - 1) = L - (q + j + 1)
      BY <1>1, <1>2, <2>1, <2>2, <2>10, <3>4
    <3>3. B[k - j - 1] = number[L - (q + j + 1)]
      BY <1>3, <3>2
    <3>5. Bit(r, i) = BitOf(B[k - j - 1], m + a - 8)
      BY <2>5, <2>10, <3>4
    <3> QED
      BY <2>6, <2>10, <3>1, <3>3, <3>5
  <2> QED
    BY <2>8, <2>9, <2>10
<1>10. Len(r) = (size + 7) \div 8 /\ r # <<>>
  <2>1. Len(r) >= 1
    BY <1>7, <1>8
  <2> QED
    BY <1>7, <1>8, <2>1
<1>11. IsSlice(r, number, from, size)
  BY <1>9, <1>10 DEF IsSlice
<1> QED
  BY <1>8, <1>10, <1>11 DEF r

-----------------------------------------------------------------------------
(* Cut_byte and Cut_bit of the script                                      *)

(* cut_byte is cut_bit of whole bytes, in what both return and where both  *)
(* throw.                                                                  *)
LEMMA WholeBytes ==
  ASSUME NEW number \in Text, NEW from \in Nat, NEW size \in Nat
  PROVE  cut_byte(number, from, size) = cut_bit(number, 8 * from, 8 * size)
<1> DEFINE L == Len(number)
           B == cut_byte(number, from, size)
<1>1. L \in Nat /\ number # Null
  BY LenType, NullAssumption DEF Text
<1>2. (8 * from) \div 8 = from /\ (8 * from) % 8 = 0 /\ ByteSize(8 * from, 8 * size) = size
  <2>1. \A x \in Nat : (8 * x) \div 8 = x /\ (8 * x) % 8 = 0 /\ (8 * x + 7) \div 8 = x
    OBVIOUS
  <2>2. (8 * from + 8 * size + 7) \div 8 = from + size
    <3>1. 8 * from + 8 * size + 7 = 8 * (from + size) + 7 /\ from + size \in Nat
      OBVIOUS
    <3> QED
      BY <2>1, <3>1
  <2> QED
    BY <2>1, <2>2 DEF ByteSize
<1>3. CASE from + size > L
  <2>1. 8 * from + 8 * size > 8 * L
    BY <1>1, <1>3
  <2> QED
    BY <1>3, <2>1, Zenon DEF cut_bit, cut_byte
<1>4. CASE ~ (from + size > L)
  <2>1. 8 * from + 8 * size <= 8 * Len(number) /\ 8 * from \in Nat /\ 8 * size \in Nat
    BY <1>1, <1>4
  <2>2. cut_bit(number, 8 * from, 8 * size) =
          IF B = Null
          THEN Null
          ELSE IF (8 * Len(B) - 8 * size - 0) + 0 >= 8
               THEN Tail(ShiftRight([B EXCEPT ![1] = @ % 2^(8 - (8 * Len(B) - 8 * size - 0))], 0))
               ELSE ShiftRight([B EXCEPT ![1] = @ % 2^(8 - (8 * Len(B) - 8 * size - 0))], 0)
    <3>1. cut_bit(number, 8 * from, 8 * size) =
            LET bytes == cut_byte(number, (8 * from) \div 8, ByteSize(8 * from, 8 * size))
                before == 8 * Len(bytes) - 8 * size - ((8 * from) % 8)
                shifted == ShiftRight([bytes EXCEPT ![1] = @ % 2^(8 - before)], (8 * from) % 8)
            IN IF bytes = Null
               THEN Null
               ELSE IF before + ((8 * from) % 8) >= 8 THEN Tail(shifted) ELSE shifted
      BY <2>1, CutBitIs
    <3> QED
      BY <1>2, <3>1, Zenon
  <2>3. CASE size = 0
    <3>1. B = Null
      BY <1>1, <1>4, <2>3, Zenon DEF cut_byte
    <3> QED
      BY <2>2, <3>1, Zenon
  <2>4. CASE size # 0
    <3>1. B \in Text /\ Len(B) = size
      <4>1. size >= 1 /\ from + size <= Len(number)
        BY <1>1, <1>4, <2>4
      <4> QED
        BY <4>1, CutByteIs
    <3> HIDE DEF B
    <3>2. B # Null
      BY <3>1, NullAssumption DEF Text
    <3>3. 8 * Len(B) - 8 * size - 0 = 0 /\ ~ (0 + 0 >= 8) /\ 8 - 0 = 8
      BY <3>1
    <3>4. cut_bit(number, 8 * from, 8 * size) = ShiftRight([B EXCEPT ![1] = @ % 2^8], 0)
      BY <2>2, <3>2, <3>3, Zenon
    <3>5. [B EXCEPT ![1] = @ % 2^8] = B
      <4>1. B \in Seq(Octet)
        BY <3>1 DEF Text
      <4>2. 1 \in 1..Len(B)
        BY <2>4, <3>1
      <4>3. B[1] \in Nat /\ B[1] < 256
        BY <3>1, <4>2, ByteOf, OctetType
      <4>4. B[1] % 2^8 = B[1]
        BY <4>3
      <4> QED
        BY <4>1, <4>4
    <3>6. ShiftRight(B, 0) = B
      <4>1. ShiftRight(B, 0) =
              [b \in 1..Len(B) |->
                 B[b] \div 2^0 + (IF b = 1 THEN 0 ELSE (B[b - 1] % 2^0) * 2^(8 - 0))]
        BY DEF ShiftRight
      <4>2. ASSUME NEW b \in 1..Len(B)
            PROVE  B[b] \div 2^0 + (IF b = 1 THEN 0 ELSE (B[b - 1] % 2^0) * 2^(8 - 0)) = B[b]
        <5>1. B[b] \in Nat
          BY <3>1, ByteOf, OctetType
        <5>2. CASE b = 1
          BY <5>1, <5>2
        <5>3. CASE b # 1
          <6>1. b - 1 \in 1..Len(B)
            BY <3>1, <5>3
          <6>2. B[b - 1] \in Nat
            BY <3>1, <6>1, ByteOf, OctetType
          <6> QED
            BY <5>1, <5>3, <6>2
        <5> QED
          BY <5>2, <5>3
      <4>3. B = [b \in 1..Len(B) |-> B[b]]
        BY <3>1, Measured
      <4> QED
        BY <4>1, <4>2, <4>3
    <3> QED
      BY <3>4, <3>5, <3>6, Zenon DEF B
  <2> QED
    BY <2>3, <2>4
<1> QED
  BY <1>3, <1>4

(* Cut_bit of the script yields the slice of bits it is asked for, through *)
(* both conversions of the hexadecimal text, and throws exactly beyond the *)
(* number's end; Cut_byte is Cut_bit of whole bytes: for every number,     *)
(* position and size.                                                      *)
THEOREM CutsOfNumber ==
  ASSUME NEW number \in Text, number # <<>>, NEW from \in Nat, NEW size \in Nat
  PROVE  LET slice == Cut_bit(Getter(number), from, size)
         IN /\ Cut_byte(Getter(number), from, size)
                 = Cut_bit(Getter(number), 8 * from, 8 * size)
            /\ IF from + size > 8 * Len(number)
               THEN slice = Thrown
               ELSE size > 0 => IsSlice(from_hex_string(slice), number, from, size)
<1>1. /\ number # Null /\ from_hex_string(Getter(number)) = number
      /\ Len(number) \in Nat
  BY HexRoundTrip, LenType
<1>2. \A f, s : Cut_bit(Getter(number), f, s) = Cut(number, cut_bit(number, f, s))
  BY <1>1, Zenon DEF Cut_bit
<1>3. \A f, s : Cut_byte(Getter(number), f, s) = Cut(number, cut_byte(number, f, s))
  BY <1>1, Zenon DEF Cut_byte
<1>4. Cut_byte(Getter(number), from, size) = Cut_bit(Getter(number), 8 * from, 8 * size)
  <2>1. cut_byte(number, from, size) = cut_bit(number, 8 * from, 8 * size)
    BY WholeBytes
  <2> QED
    BY <1>2, <1>3, <2>1, Zenon
<1>5. CASE from + size > 8 * Len(number)
  <2>1. cut_bit(number, from, size) = Thrown
    BY <1>5, Zenon DEF cut_bit
  <2>2. Cut(number, Thrown) = Thrown
    BY <1>1, Zenon DEF Cut
  <2> QED
    BY <1>2, <1>4, <1>5, <2>1, <2>2, Zenon
<1>6. CASE ~ (from + size > 8 * Len(number))
  <2> SUFFICES ASSUME size > 0
               PROVE  IsSlice(from_hex_string(Cut_bit(Getter(number), from, size)),
                              number, from, size)
    BY <1>4, <1>6, Zenon
  <2> DEFINE r == cut_bit(number, from, size)
  <2>1. r \in Text /\ r # <<>> /\ IsSlice(r, number, from, size)
    <3>1. from + size <= 8 * Len(number)
      BY <1>1, <1>6
    <3> QED
      BY <3>1, CutBitSlice
  <2> HIDE DEF r
  <2>2. r # Thrown
    BY <2>1, NullAssumption, Zenon DEF Text
  <2>3. Cut(number, r) = hex_string(r)
    BY <1>1, <2>2, Zenon DEF Cut
  <2>4. from_hex_string(Cut_bit(Getter(number), from, size)) = r
    BY <1>2, <2>1, <2>3, HexRoundTrip, Zenon DEF r
  <2> QED
    BY <2>1, <2>4, Zenon
<1> QED
  BY <1>5, <1>6, Zenon
=============================================================================
