------------------------ MODULE BeaconDecoderProofs -------------------------
(***************************************************************************)
(* What Frame, Beacon_body and Ie_node make of every sequence of frames,   *)
(* for every length of the element area, every value of the bytes and      *)
(* every content of fresh memory.                                          *)
(***************************************************************************)
EXTENDS BeaconDecoder, BigNumberProofs, WellFoundedInduction

(* A set of natural numbers that is not empty has a least element.         *)
LEMMA LeastNumber ==
  ASSUME NEW S, S \subseteq Nat, S # {}
  PROVE  \E i \in S : \A j \in S : i <= j
<1>1. PICK i \in S : \A j \in S : ~ (<<j, i>> \in OpToRel(<, Nat))
  BY NatLessThanWellFounded, WFMin, Zenon
<1>2. ASSUME NEW j \in S PROVE ~ (j < i)
  <2>1. <<j, i>> \in Nat \X Nat
    OBVIOUS
  <2>2. j < i => <<j, i>> \in OpToRel(<, Nat)
    BY <2>1, Zenon DEF OpToRel
  <2> QED
    BY <1>1, <2>2
<1> QED
  BY <1>2

(* Length and bytes of two texts one behind the other.                     *)
LEMMA Joined ==
  ASSUME NEW s \in Text, NEW t \in Text
  PROVE  /\ s \o t \in Text /\ Len(s \o t) = Len(s) + Len(t)
         /\ \A i \in 1..(Len(s) + Len(t)) :
              (s \o t)[i] = IF i <= Len(s) THEN s[i] ELSE t[i - Len(s)]
BY ConcatProperties DEF Text

-----------------------------------------------------------------------------
(* The reference reading of an element area: it exists, and it is the      *)
(* least set of positions that is closed under stepping over an element    *)

(* Positions in a text are natural numbers.                                *)
LEMMA PositionsType ==
  ASSUME NEW text \in Text, NEW P \in SUBSET (1..(Len(text) + 1))
  PROVE  P \subseteq Nat
<1>1. Len(text) \in Nat
  BY LenProperties DEF Text
<1>2. 1..(Len(text) + 1) \subseteq Nat
  BY <1>1
<1> QED
  BY <1>2, Zenon

(* A reading has no position that cannot be reached: it lies in every set  *)
(* that holds the front and what follows each of its elements.             *)
LEMMA ReadingInClosed ==
  ASSUME NEW text \in Text, NEW P \in SUBSET (1..(Len(text) + 1)), NEW Q,
         IsReading(P, text), 1 \in Q,
         \A q \in Q : Complete(text, q) => Follows(text, q) \in Q
  PROVE  P \subseteq Q
<1> SUFFICES ASSUME P \ Q # {} PROVE FALSE
  OBVIOUS
<1>0. P \subseteq Nat
  BY PositionsType
<1>1. P \ Q \subseteq Nat
  BY <1>0, Zenon
<1>2. PICK p \in P \ Q : \A q \in P \ Q : p <= q
  <2> DEFINE S == P \ Q
  <2>1. S # {} /\ S \subseteq Nat
    BY <1>1
  <2> HIDE DEF S
  <2>2. \E p \in S : \A q \in S : p <= q
    BY <2>1, LeastNumber
  <2> QED
    BY <2>2 DEF S
<1>3. PICK q \in P : Complete(text, q) /\ p = Follows(text, q)
  BY <1>2 DEF IsReading
<1>4. q \in Nat /\ p \in Nat /\ q < p
  <2>1. q \in Nat /\ p \in Nat
    BY <1>0, <1>2, <1>3, Zenon
  <2>2. text[q + 1] \in Nat
    BY <1>3 DEF Complete
  <2> QED
    BY <1>3, <2>1, <2>2 DEF Follows
<1>5. q \in Q
  BY <1>2, <1>4
<1> QED
  BY <1>2, <1>3, <1>5, Zenon

(* A complete element ends inside the text it stands in, behind its own    *)
(* beginning.                                                              *)
LEMMA FollowsType ==
  ASSUME NEW text \in Text, NEW p \in 1..(Len(text) + 1), Complete(text, p)
  PROVE  /\ p + 1 <= Len(text) /\ text[p + 1] \in Nat /\ text[p + 1] >= 1
         /\ Follows(text, p) \in 1..(Len(text) + 1) /\ Follows(text, p) > p
<1>1. Len(text) \in Nat
  BY LenProperties DEF Text
<1> QED
  BY <1>1 DEF Complete, Follows

(* There is a reading of every text, so the CHOOSE of Reading finds one.   *)
(* It is the intersection of the closed sets of positions.                 *)
LEMMA ReadingIs ==
  ASSUME NEW text \in Text
  PROVE  /\ Reading(text) \in SUBSET (1..(Len(text) + 1))
         /\ IsReading(Reading(text), text)
<1> DEFINE All == 1..(Len(text) + 1)
           Closed(Q) == 1 \in Q /\ \A q \in Q : Complete(text, q) => Follows(text, q) \in Q
           P == {p \in All : \A Q \in SUBSET All : Closed(Q) => p \in Q}
<1>1. Closed(All)
  <2>1. Len(text) \in Nat
    BY LenProperties DEF Text
  <2> QED
    BY <2>1, FollowsType
<1>2. Closed(P)
  <2>1. 1 \in P
    BY <1>1
  <2>2. ASSUME NEW q \in P, Complete(text, q) PROVE Follows(text, q) \in P
    <3>1. Follows(text, q) \in All
      BY <2>2, <1>1
    <3>2. ASSUME NEW Q \in SUBSET All, Closed(Q) PROVE Follows(text, q) \in Q
      BY <2>2, <3>2
    <3> QED
      BY <3>1, <3>2
  <2> QED
    BY <2>1, <2>2
<1>3. ASSUME NEW p \in P \ {1} PROVE \E q \in P : Complete(text, q) /\ p = Follows(text, q)
  <2> SUFFICES ASSUME \A q \in P : Complete(text, q) => p # Follows(text, q) PROVE FALSE
    OBVIOUS
  <2>1. Closed(P \ {p})
    BY <1>2
  <2>2. P \ {p} \in SUBSET All
    OBVIOUS
  <2> QED
    BY <2>1, <2>2
<1>4. P \in SUBSET All /\ IsReading(P, text)
  <2> HIDE DEF All
  <2>1. P \in SUBSET All
    BY Zenon
  <2> HIDE DEF P
  <2> QED
    BY <1>2, <1>3, <2>1 DEF IsReading
<1> HIDE DEF P, Closed
<1> QED
  BY <1>4 DEF Reading

(* The positions at which a list of elements was read grow with the index  *)
(* in the list: Ie_node::get_value, which takes the first of the list,     *)
(* takes the first of the frame.                                           *)
LEMMA PositionsGrow ==
  ASSUME NEW text \in Text, NEW n \in Nat, NEW at \in [1..(n + 1) -> Reading(text)],
         \A i \in 1..n : Complete(text, at[i]) /\ at[i + 1] = Follows(text, at[i])
  PROVE  /\ \A i \in 1..(n + 1) : at[i] \in Nat
         /\ \A i \in 1..(n + 1) : \A j \in 1..(n + 1) : i < j => at[i] < at[j]
<1>1. Reading(text) \in SUBSET (1..(Len(text) + 1)) /\ Reading(text) \subseteq Nat
  <2>1. Reading(text) \in SUBSET (1..(Len(text) + 1))
    BY ReadingIs
  <2> QED
    BY <2>1, PositionsType
<1>2. ASSUME NEW i \in 1..(n + 1) PROVE at[i] \in Nat /\ at[i] \in 1..(Len(text) + 1)
  <2>1. at[i] \in Reading(text)
    OBVIOUS
  <2> QED
    BY <1>1, <2>1, Zenon
<1>3. ASSUME NEW i \in 1..n PROVE at[i] < at[i + 1]
  <2>1. i \in 1..(n + 1)
    OBVIOUS
  <2>2. at[i] \in 1..(Len(text) + 1) /\ at[i] \in Nat
    BY <1>2, <2>1
  <2>3. Follows(text, at[i]) > at[i] /\ at[i + 1] = Follows(text, at[i])
    BY <2>2, FollowsType
  <2>4. at[i + 1] \in Nat
    BY <1>2
  <2> QED
    BY <2>2, <2>3, <2>4
<1>4. ASSUME NEW i \in 1..(n + 1), NEW j \in 1..(n + 1), i < j PROVE at[i] < at[j]
  <2> SUFFICES ASSUME ~ (at[i] < at[j]) PROVE FALSE
    OBVIOUS
  <2> DEFINE S == {k \in 1..(n + 1) : i < k /\ ~ (at[i] < at[k])}
  <2>1. S # {} /\ S \subseteq Nat
    BY <1>4
  <2>2. PICK k \in S : \A m \in S : k <= m
    <3> HIDE DEF S
    <3> QED
      BY <2>1, LeastNumber
  <2>3. k \in 2..(n + 1) /\ i < k /\ ~ (at[i] < at[k])
    OBVIOUS
  <2>4. k - 1 \in 1..n /\ k - 1 \in 1..(n + 1) /\ (k - 1) + 1 = k
    BY <2>3
  <2>5. at[k - 1] < at[k]
    BY <1>3, <2>4
  <2>6. at[i] \in Nat /\ at[k] \in Nat /\ at[k - 1] \in Nat
    BY <1>2, <2>3, <2>4
  <2>7. CASE k - 1 = i
    BY <2>3, <2>5, <2>7
  <2>8. CASE k - 1 # i
    <3>1. k - 1 \in S
      BY <2>3, <2>4, <2>5, <2>6, <2>8
    <3> QED
      BY <2>2, <2>3, <3>1
  <2> QED
    BY <2>7, <2>8
<1> QED
  BY <1>2, <1>4

-----------------------------------------------------------------------------
(* Types: the buffer of the frame, the frames on the air, the fields and   *)
(* the list of elements                                                    *)

(* TypeOK with what the proofs need to carry it: the cursor is a number    *)
(* and the elements are records of a byte and a text.                      *)
TypeInv ==
  /\ TypeOK
  /\ cursor \in Nat
  /\ ies \in Seq([id : Octet, value : Text])

(* A size_t holds more than the longest frame and the longest element.     *)
LEMMA SizesType ==
  /\ Capacity = 40 + MaxArea /\ Capacity \in Nat /\ Capacity >= 40
  /\ WordSize \in Nat /\ WordSize > Capacity + 255
BY DecoderAssumption DEF Capacity, HeaderSize, FixedSize, FcsSize

(* The receive buffer is a text as long as FRAME_MAX_LENGTH, whatever part *)
(* of it the current frame uses.                                           *)
LEMMA BufferType ==
  ASSUME TypeInv
  PROVE  raw_frame_buffer \in Text /\ Len(raw_frame_buffer) = Capacity
<1>1. raw_frame_buffer \in [1..Capacity -> Octet]
  BY Zenon DEF TypeInv, TypeOK
<1>2. Capacity \in Nat
  BY SizesType
<1> HIDE DEF Capacity
<1> QED
  BY <1>1, <1>2 DEF Text

(* The type and the subtype of a frame are the bits 2-3 and 4-7 of the     *)
(* least significant byte of its frame control, the first byte on the air: *)
(* what cut_bit and to_size_t of Frame::decode do.                         *)
LEMMA KindOfBytes ==
  ASSUME NEW a \in Octet, NEW b \in Octet
  PROVE  Kind(<<a, b>>) = <<(b % 16) \div 4, b \div 16>>
<1>1. <<a, b>> # Null /\ \A x \in Octet : <<x>> # Null
  <2>1. <<a, b>> \in Text /\ \A x \in Octet : <<x>> \in Text
    BY DEF Text
  <2> QED
    BY <2>1, NullAssumption, Zenon DEF Text
<1>2. cut_byte(<<a, b>>, 0, 1) = <<b>>
  <2>1. SubSeq(<<a, b>>, 2, 2) = <<b>>
    BY SliceOfOne
  <2> QED
    BY <1>1, <2>1 DEF cut_byte
<1>3. cut_bit(<<a, b>>, 2, 2) = <<(b % 16) \div 4>>
  <2>1. ByteSize(2, 2) = 1 /\ 2 \div 8 = 0 /\ 2 % 8 = 2
    BY DEF ByteSize
  <2>2. [<<b>> EXCEPT ![1] = @ % 2^4] = <<b % 16>>
    OBVIOUS
  <2>3. ShiftRight(<<b % 16>>, 2) = <<(b % 16) \div 4>>
    BY OctetType DEF ShiftRight
  <2>4. <<b>> # Null
    BY <1>1
  <2> DEFINE bytes == cut_byte(<<a, b>>, 2 \div 8, ByteSize(2, 2))
             before == 8 * Len(bytes) - 2 - (2 % 8)
  <2>5. bytes = <<b>> /\ before = 4 /\ 8 - before = 4
    <3>1. bytes = <<b>>
      BY <1>2, <2>1
    <3>2. Len(bytes) = 1
      BY <3>1
    <3> HIDE DEF bytes
    <3> QED
      BY <2>1, <3>1, <3>2
  <2>6. cut_bit(<<a, b>>, 2, 2) =
          IF bytes = Null
          THEN Null
          ELSE IF before + (2 % 8) >= 8
               THEN Tail(ShiftRight([bytes EXCEPT ![1] = @ % 2^(8 - before)], 2 % 8))
               ELSE ShiftRight([bytes EXCEPT ![1] = @ % 2^(8 - before)], 2 % 8)
    <3>1. ~ (2 + 2 > 8 * Len(<<a, b>>))
      OBVIOUS
    <3>2. <<a, b>> # Null
      BY <1>1
    <3> QED
      BY <3>1, <3>2, Zenon DEF cut_bit
  <2> HIDE DEF bytes, before
  <2> QED
    BY <2>1, <2>2, <2>3, <2>4, <2>5, <2>6
<1>4. cut_bit(<<a, b>>, 4, 4) = <<b \div 16>>
  <2>1. ByteSize(4, 4) = 1 /\ 4 \div 8 = 0 /\ 4 % 8 = 4
    BY DEF ByteSize
  <2>2. [<<b>> EXCEPT ![1] = @ % 2^8] = <<b>>
    BY OctetType
  <2>3. ShiftRight(<<b>>, 4) = <<b \div 16>>
    BY OctetType DEF ShiftRight
  <2>4. <<b>> # Null
    BY <1>1
  <2> DEFINE bytes == cut_byte(<<a, b>>, 4 \div 8, ByteSize(4, 4))
             before == 8 * Len(bytes) - 4 - (4 % 8)
  <2>5. bytes = <<b>> /\ before = 0 /\ 8 - before = 8
    <3>1. bytes = <<b>>
      BY <1>2, <2>1
    <3>2. Len(bytes) = 1
      BY <3>1
    <3> HIDE DEF bytes
    <3> QED
      BY <2>1, <3>1, <3>2
  <2>6. cut_bit(<<a, b>>, 4, 4) =
          IF bytes = Null
          THEN Null
          ELSE IF before + (4 % 8) >= 8
               THEN Tail(ShiftRight([bytes EXCEPT ![1] = @ % 2^(8 - before)], 4 % 8))
               ELSE ShiftRight([bytes EXCEPT ![1] = @ % 2^(8 - before)], 4 % 8)
    <3>1. ~ (4 + 4 > 8 * Len(<<a, b>>))
      OBVIOUS
    <3>2. <<a, b>> # Null
      BY <1>1
    <3> QED
      BY <3>1, <3>2, Zenon DEF cut_bit
  <2> HIDE DEF bytes, before
  <2> QED
    BY <2>1, <2>2, <2>3, <2>4, <2>5, <2>6
<1>5. (b % 16) \div 4 \in Octet /\ b \div 16 \in Octet
  BY OctetType DEF Octet
<1> QED
  BY <1>1, <1>3, <1>4, <1>5, SizeOfByte DEF Kind

(* decode_header takes a frame for a beacon by the same bits of its first  *)
(* byte as the reference reading, whatever else the frame holds.           *)
LEMMA RightKind ==
  ASSUME TypeInv, raw_frame_size >= HeaderSize
  PROVE  Kind(ReadFields(HeaderFields, 0, raw_frame_size, header).frame_control)
           = <<Management, Beacon>> <=> IsBeacon
<1> DEFINE read == ReadFields(HeaderFields, 0, raw_frame_size, header)
           a == raw_frame_buffer[1]
           b == raw_frame_buffer[2]
<1>2. a \in Octet /\ b \in Octet
  <2>1. raw_frame_buffer \in Text /\ Len(raw_frame_buffer) >= 40 /\ Len(raw_frame_buffer) \in Nat
    BY SizesType, BufferType, DecoderAssumption
  <2>2. 1 \in 1..Len(raw_frame_buffer) /\ 2 \in 1..Len(raw_frame_buffer)
    BY <2>1
  <2> QED
    BY <2>1, <2>2, ByteOf
<1>3. SubSeq(raw_frame_buffer, 1, 2) = <<a, b>>
  BY <1>2, SliceOfTwo
<1>4. Reverse(<<a, b>>) = <<b, a>>
  BY DEF Reverse
<1>5. read.frame_control = from_buffer(Run(0, 0, 2))
  BY DEF ReadFields, HeaderFields, HeaderSize, TypeInv, TypeOK
<1>6. read.frame_control = <<b, a>>
  <2>1. Run(0, 0, 2) = <<a, b>>
    BY <1>3 DEF Run
  <2> QED
    BY <1>4, <1>5, <2>1, Zenon DEF from_buffer
<1>7. Kind(read.frame_control) = <<(a % 16) \div 4, a \div 16>>
  BY <1>2, <1>6, KindOfBytes
<1>8. (a % 16) \div 4 = 0 /\ a \div 16 = 8 <=> (a \div 4) % 64 = 32
  <2>1. a \in Nat /\ a <= 255
    BY <1>2, OctetType
  <2> HIDE DEF a, b
  <2> QED
    BY <2>1
<1> HIDE DEF b
<1> QED
  BY <1>7, <1>8 DEF IsBeacon, Management, Beacon

(* Every frame that is received fits the buffer; one with an element area  *)
(* has the bytes of a whole beacon around it.                              *)
LEMMA SentType ==
  ASSUME NEW sent \in Sent
  PROVE  /\ sent.frame \in Text /\ Len(sent.frame) <= Capacity
         /\ sent.area \in Text
         /\ sent.area # <<>> =>
              \E n \in Trailers : /\ Len(sent.frame) = 36 + Len(sent.area) + n
                                  /\ (sent.frame[1] \div 4) % 64 = 32
                                  /\ \A i \in 1..Len(sent.area) : sent.frame[36 + i] = sent.area[i]
<1>1. \A c \in Octet : Fields(c) \in Text /\ Len(Fields(c)) = 36 /\ Fields(c)[1] = c
  <2> SUFFICES ASSUME NEW c \in Octet
               PROVE  Fields(c) \in Text /\ Len(Fields(c)) = 36 /\ Fields(c)[1] = c
    OBVIOUS
  <2> DEFINE tail == [i \in 1..35 |-> 100 + i]
  <2>1. tail \in Text /\ Len(tail) = 35
    <3>1. \A i \in 1..35 : 100 + i \in Octet
      BY DEF Octet
    <3> QED
      BY <3>1 DEF Text
  <2>2. <<c>> \in Text /\ Len(<<c>>) = 1 /\ <<c>>[1] = c
    BY DEF Text
  <2> DEFINE head == <<c>>
  <2>3. Fields(c) = head \o tail
    BY DEF Fields, HeaderSize, FixedSize
  <2> HIDE DEF head, tail
  <2>4. /\ head \o tail \in Text /\ Len(head \o tail) = Len(head) + Len(tail)
        /\ \A i \in 1..(Len(head) + Len(tail)) :
             (head \o tail)[i] = IF i <= Len(head) THEN head[i] ELSE tail[i - Len(head)]
    BY <2>1, <2>2, Joined DEF head
  <2>5. Len(head) = 1 /\ head[1] = c
    BY <2>2 DEF head
  <2> QED
    BY <2>1, <2>3, <2>4, <2>5
<1>2. \A n \in 0..4 : Fcs(n) \in Text /\ Len(Fcs(n)) = n
  <2>1. 1 \in Octet
    BY DEF Octet
  <2> QED
    BY <2>1 DEF Fcs, Text
<1>3. ASSUME NEW a \in Areas, NEW n \in Trailers
      PROVE  LET frame == Fields(128) \o a \o Fcs(n)
             IN /\ a \in Text /\ Len(a) <= MaxArea /\ n \in 0..4
                /\ frame \in Text /\ Len(frame) = (36 + Len(a)) + n /\ frame[1] = 128
                /\ \A i \in 1..Len(a) : frame[36 + i] = a[i]
  <2>1. PICK k \in 0..MaxArea : a \in [1..k -> Bytes]
    BY DEF Areas
  <2>2. a \in Text /\ Len(a) = k /\ k \in Nat
    <3>1. k \in Nat
      BY DecoderAssumption
    <3>2. a \in [1..k -> Octet]
      BY <2>1, DecoderAssumption, Zenon
    <3> QED
      BY <3>1, <3>2 DEF Text
  <2>3. n \in 0..4
    BY DecoderAssumption
  <2>4. Fcs(n) \in Text /\ Len(Fcs(n)) = n
    BY <1>2, <2>3
  <2>5. Fields(128) \in Text /\ Len(Fields(128)) = 36 /\ Fields(128)[1] = 128
    <3>1. 128 \in Octet
      BY DEF Octet
    <3> QED
      BY <1>1, <3>1
  <2> DEFINE front == Fields(128) \o a
  <2>6. front \in Text /\ Len(front) = 36 + k
        /\ \A i \in 1..(36 + k) : front[i] = IF i <= 36 THEN Fields(128)[i] ELSE a[i - 36]
    <3> DEFINE fields == Fields(128)
    <3>1. fields \in Text /\ Len(fields) = 36
      BY <2>5
    <3> HIDE DEF fields
    <3>2. /\ fields \o a \in Text /\ Len(fields \o a) = Len(fields) + Len(a)
          /\ \A i \in 1..(Len(fields) + Len(a)) :
               (fields \o a)[i] = IF i <= Len(fields) THEN fields[i] ELSE a[i - Len(fields)]
      BY <2>2, <3>1, Joined
    <3> DEFINE rest == a
               joined == fields \o a
    <3>3. Len(rest) = k /\ k \in Nat
      BY <2>2
    <3> HIDE DEF joined, rest
    <3>4. /\ joined \in Text /\ Len(joined) = 36 + k
          /\ \A i \in 1..(36 + k) : joined[i] = IF i <= 36 THEN fields[i] ELSE rest[i - 36]
      BY <3>1, <3>2, <3>3 DEF joined, rest
    <3> QED
      BY <3>4 DEF fields, joined, rest
  <2> HIDE DEF front
  <2>7. front \o Fcs(n) \in Text /\ Len(front \o Fcs(n)) = 36 + k + n
        /\ \A i \in 1..(36 + k + n) :
             (front \o Fcs(n))[i] = IF i <= 36 + k THEN front[i] ELSE Fcs(n)[i - (36 + k)]
    <3> DEFINE tail == Fcs(n)
    <3>1. tail \in Text /\ Len(tail) = n
      BY <2>4
    <3> HIDE DEF tail
    <3>2. /\ front \o tail \in Text /\ Len(front \o tail) = Len(front) + Len(tail)
          /\ \A i \in 1..(Len(front) + Len(tail)) :
               (front \o tail)[i] = IF i <= Len(front) THEN front[i] ELSE tail[i - Len(front)]
      BY <2>6, <3>1, Joined
    <3> QED
      BY <2>6, <3>1, <3>2, Zenon DEF tail
  <2>8. k \in Nat /\ n \in Nat /\ k <= MaxArea
    BY <2>1, <2>2, <2>3, DecoderAssumption
  <2>9. (front \o Fcs(n))[1] = 128
    <3>1. /\ 1 \in 1..(36 + k + n) /\ 1 <= 36 + k /\ 1 \in 1..(36 + k) /\ 1 <= 36
      BY <2>8
    <3>2. (front \o Fcs(n))[1] = front[1]
      BY <2>7, <3>1, Zenon
    <3>3. front[1] = Fields(128)[1]
      BY <2>6, <3>1, Zenon
    <3> QED
      BY <2>5, <3>2, <3>3
  <2>10. \A i \in 1..k : (front \o Fcs(n))[36 + i] = a[i]
    <3> SUFFICES ASSUME NEW i \in 1..k PROVE (front \o Fcs(n))[36 + i] = a[i]
      OBVIOUS
    <3> DEFINE e == 36 + i
    <3>1. /\ e \in 1..(36 + k + n) /\ e <= 36 + k /\ e \in 1..(36 + k) /\ ~ (e <= 36)
          /\ e - 36 = i
      BY <2>8
    <3> HIDE DEF e
    <3>2. (front \o Fcs(n))[e] = front[e]
      BY <2>7, <3>1, Zenon
    <3>3. front[e] = a[i]
      BY <2>6, <3>1, Zenon
    <3> QED
      BY <3>2, <3>3 DEF e
  <2> QED
    <3>1. (36 + Len(a)) + n = 36 + k + n /\ Len(a) <= MaxArea
      BY <2>2, <2>8
    <3> QED
      BY <2>2, <2>3, <2>7, <2>9, <2>10, <3>1, Zenon DEF front
<1>4. \A c \in Octet : Fields(c) \o Fcs(4) \in Text /\ Len(Fields(c) \o Fcs(4)) = 40
  <2> SUFFICES ASSUME NEW c \in Octet
               PROVE  Fields(c) \o Fcs(4) \in Text /\ Len(Fields(c) \o Fcs(4)) = 40
    OBVIOUS
  <2>1. Fields(c) \in Text /\ Len(Fields(c)) = 36 /\ Fcs(4) \in Text /\ Len(Fcs(4)) = 4
    BY <1>1, <1>2, 4 \in 0..4
  <2> DEFINE whole == Fields(c) \o Fcs(4)
  <2>2. whole \in Text /\ Len(whole) = Len(Fields(c)) + Len(Fcs(4))
    BY <2>1, Joined
  <2> HIDE DEF whole
  <2>3. whole \in Text /\ Len(whole) = 40
    <3>1. Len(whole) = 36 + 4
      BY <2>1, <2>2, Zenon
    <3>2. 36 + 4 = 40
      OBVIOUS
    <3> QED
      BY <2>2, <3>1, <3>2, Zenon
  <2> QED
    BY <2>3 DEF whole
<1>5. \A n \in ShortSizes : SubSeq(Fields(128) \o Fcs(4), 1, n) \in Text
                            /\ Len(SubSeq(Fields(128) \o Fcs(4), 1, n)) = n /\ n \in 0..39
  <2> SUFFICES ASSUME NEW n \in ShortSizes
               PROVE  SubSeq(Fields(128) \o Fcs(4), 1, n) \in Text
                      /\ Len(SubSeq(Fields(128) \o Fcs(4), 1, n)) = n /\ n \in 0..39
    OBVIOUS
  <2> DEFINE whole == Fields(128) \o Fcs(4)
  <2>1. n \in 0..39
    BY DecoderAssumption, Zenon
  <2>2. whole \in Text /\ Len(whole) = 40
    <3>1. 128 \in Octet
      BY DEF Octet
    <3> QED
      BY <1>4, <3>1
  <2> HIDE DEF whole
  <2>3. 1 \in 1..(Len(whole) + 1) /\ n \in 0..Len(whole) /\ 1 <= n + 1
    BY <2>1, <2>2
  <2>4. SubSeq(whole, 1, n) \in Text /\ Len(SubSeq(whole, 1, n)) = n - 1 + 1
    BY <2>2, <2>3, Sliced
  <2> QED
    BY <2>1, <2>4 DEF whole
<1>6. <<>> \in Text
  BY DEF Text
<1>7. CASE sent \in WholeFrames
  <2>1. PICK a \in Areas, n \in Trailers : sent = [frame |-> Fields(128) \o a \o Fcs(n), area |-> a]
    BY <1>7, SMT DEF WholeFrames
  <2> DEFINE frame == Fields(128) \o a \o Fcs(n)
  <2>2. sent.frame = frame /\ sent.area = a
    BY <2>1
  <2>3. /\ a \in Text /\ Len(a) <= MaxArea /\ n \in 0..4
        /\ frame \in Text /\ Len(frame) = (36 + Len(a)) + n /\ frame[1] = 128
        /\ \A i \in 1..Len(a) : frame[36 + i] = a[i]
    BY <1>3
  <2> HIDE DEF frame
  <2>4. Len(a) \in Nat
    BY <2>3, LenType
  <2>5. sent.frame \in Text /\ sent.area \in Text
    BY <2>2, <2>3
  <2>6. Len(sent.frame) <= Capacity
    BY <2>2, <2>3, <2>4, SizesType, DecoderAssumption
  <2>7. Len(sent.frame) = 36 + Len(sent.area) + n
    BY <2>2, <2>3, <2>4
  <2>8. (sent.frame[1] \div 4) % 64 = 32
    BY <2>2, <2>3
  <2>9. \A i \in 1..Len(sent.area) : sent.frame[36 + i] = sent.area[i]
    BY <2>2, <2>3
  <2> QED
    BY <2>5, <2>6, <2>7, <2>8, <2>9
<1>8. CASE sent \in EmptyFrames
  <2>1. PICK c \in Controls : sent = [frame |-> Fields(c) \o Fcs(FcsSize), area |-> <<>>]
    BY <1>8, SMT DEF EmptyFrames
  <2>2. sent.frame = Fields(c) \o Fcs(4) /\ sent.area = <<>>
    BY <2>1 DEF FcsSize
  <2>3. c \in Octet
    BY DecoderAssumption, Zenon
  <2>4. sent.frame \in Text /\ Len(sent.frame) = 40
    BY <1>4, <2>2, <2>3
  <2> QED
    BY <1>6, <2>2, <2>4, SizesType
<1>9. CASE sent \in ShortFrames
  <2>1. PICK n \in ShortSizes :
           sent = [frame |-> SubSeq(Fields(128) \o Fcs(FcsSize), 1, n), area |-> <<>>]
    BY <1>9, Zenon DEF ShortFrames
  <2>2. sent.frame = SubSeq(Fields(128) \o Fcs(4), 1, n) /\ sent.area = <<>>
    BY <2>1 DEF FcsSize
  <2>3. sent.frame \in Text /\ Len(sent.frame) = n /\ n \in 0..39
    BY <1>5, <2>2
  <2> QED
    BY <1>6, <2>2, <2>3, SizesType
<1> QED
  BY <1>7, <1>8, <1>9, Zenon DEF Sent

(* in_buffer overwrites the front of the buffer and leaves the rest: the   *)
(* buffer keeps its length.                                                *)
LEMMA NewBuffer ==
  ASSUME TypeInv, NEW sent \in Sent, update_raw_data(sent)
  PROVE  /\ raw_frame_buffer' \in [1..Capacity -> Octet]
         /\ \A i \in 1..Len(sent.frame) : raw_frame_buffer'[i] = sent.frame[i]
         /\ Len(sent.frame) \in 0..Capacity
<1> DEFINE frame == sent.frame
           rest == SubSeq(raw_frame_buffer, Len(frame) + 1, Capacity)
<1>1. frame \in Text /\ Len(frame) \in Nat /\ Len(frame) <= Capacity
  BY SentType, LenType
<1>2. raw_frame_buffer \in Text /\ Len(raw_frame_buffer) = Capacity /\ Capacity \in Nat
  BY BufferType, SizesType
<1> HIDE DEF frame
<1>3. rest \in Text /\ Len(rest) = Capacity - Len(frame)
  <2>1. /\ Len(frame) + 1 \in 1..(Len(raw_frame_buffer) + 1)
        /\ Capacity \in 0..Len(raw_frame_buffer) /\ Len(frame) + 1 <= Capacity + 1
    BY <1>1, <1>2
  <2>2. rest \in Text /\ Len(rest) = Capacity - (Len(frame) + 1) + 1
    BY <1>2, <2>1, Sliced
  <2> HIDE DEF rest
  <2> QED
    BY <1>1, <1>2, <2>2
<1> HIDE DEF rest
<1>4. /\ frame \o rest \in Text /\ Len(frame \o rest) = Len(frame) + Len(rest)
      /\ \A i \in 1..(Len(frame) + Len(rest)) :
           (frame \o rest)[i] = IF i <= Len(frame) THEN frame[i] ELSE rest[i - Len(frame)]
  BY <1>1, <1>3, Joined
<1>5. Len(frame) + Len(rest) = Capacity
  BY <1>1, <1>2, <1>3
<1>6. frame \o rest \in [1..Capacity -> Octet]
  BY <1>4, <1>5, Measured
<1>7. \A i \in 1..Len(frame) : (frame \o rest)[i] = frame[i]
  BY <1>1, <1>2, <1>4, <1>5
<1>8. raw_frame_buffer' = frame \o rest
  BY DEF update_raw_data, frame, rest
<1> QED
  BY <1>1, <1>2, <1>6, <1>7, <1>8 DEF frame

(* What new[] leaves in the buffer is bytes.                               *)
LEMMA FreshType ==
  ASSUME NEW buffer \in Fresh
  PROVE  buffer \in [1..Capacity -> Octet]
<1>1. PICK b \in Bytes : buffer = [i \in 1..Capacity |-> b]
  BY DEF Fresh
<1>2. b \in Octet
  BY DecoderAssumption, Zenon
<1> QED
  BY <1>1, <1>2

(* Reading fields neither adds nor removes one.                            *)
LEMMA ReadFieldsDomain ==
  ASSUME NEW layout, NEW base, NEW size, NEW old
  PROVE  DOMAIN ReadFields(layout, base, size, old) = DOMAIN layout
BY DEF ReadFields

(* A body without values has all the fields of its layout.                 *)
LEMMA NoFieldsDomain ==
  ASSUME NEW layout
  PROVE  DOMAIN NoFields(layout) = DOMAIN layout
BY DEF NoFields

(* The list of a new body is a list of elements.                           *)
LEMMA NoElements == <<>> \in Seq([id : Octet, value : Text]) /\ DOMAIN <<>> = {}
<1>1. <<>> \in Seq([id : Octet, value : Text])
  BY EmptySeq
<1>2. DOMAIN <<>> = {}
  OBVIOUS
<1> QED
  BY <1>1, <1>2

(* Every step of reception, of decode and of a new run keeps the types:    *)
(* the cursor stays inside the body's size because add_ie throws beyond    *)
(* it.                                                                     *)
LEMMA NextType ==
  ASSUME TypeInv, [Next]_vars
  PROVE  TypeInv'
<1> USE DEF TypeInv
<1>1. ASSUME NEW sent \in Sent, update_raw_data(sent) PROVE TypeInv'
  <2>1. raw_frame_buffer' \in [1..Capacity -> Octet] /\ raw_frame_size' \in 0..Capacity
    BY <1>1, NewBuffer DEF update_raw_data
  <2> QED
    BY <1>1, <2>1 DEF update_raw_data, TypeOK, bodyVars
<1>2. CASE decode_header
  <2>1. header' = ReadFields(HeaderFields, 0, raw_frame_size, header)
    BY <1>2 DEF decode_header
  <2>2. DOMAIN header' = DOMAIN HeaderFields
    BY <2>1, ReadFieldsDomain
  <2>3. BodySize \in 0..(WordSize - 1)
    BY SizesType DEF BodySize, TypeOK, HeaderSize, FcsSize
  <2>4. limit' \in 0..(WordSize - 1) /\ DOMAIN fixed' = DOMAIN FixedFields
    BY <1>2, <2>3, NoFieldsDomain DEF decode_header, TypeOK
  <2>5. ies' \in Seq([id : Octet, value : Text])
        /\ \A i \in DOMAIN ies' : ies'[i].id \in Octet /\ ies'[i].value # <<>>
    <3>1. ies' = ies \/ ies' = <<>>
      BY <1>2 DEF decode_header
    <3> QED
      BY <3>1, NoElements DEF TypeOK
  <2>6. pc' \in {"fixed", "thrown"}
    BY <1>2 DEF decode_header
  <2>7. UNCHANGED <<raw_frame_buffer, raw_frame_size, area, is_decoded, cursor>>
    BY <1>2 DEF decode_header
  <2> QED
    BY <2>2, <2>4, <2>5, <2>6, <2>7 DEF TypeOK
<1>3. CASE decode_fixed
  <2>1. DOMAIN fixed' = DOMAIN FixedFields
    BY <1>3, ReadFieldsDomain DEF decode_fixed
  <2>2. cursor' = 12 /\ pc' \in {"elements", "thrown"} /\ (pc' = "elements" => limit >= 12)
    BY <1>3 DEF decode_fixed, FixedSize
  <2> QED
    BY <1>3, <2>1, <2>2 DEF decode_fixed, TypeOK, frameVars
<1>4. CASE EndOfElements
  BY <1>4 DEF EndOfElements, TypeOK, frameVars, bodyVars
<1>5. CASE add_ie
  <2> DEFINE length == raw_frame_buffer[HeaderSize + (cursor + 1) + 1]
             element == [id |-> element_id,
                         value |-> from_buffer_inv(Run(HeaderSize, cursor + 2, element_length))]
  <2>1. /\ raw_frame_buffer \in Text /\ Len(raw_frame_buffer) = Capacity /\ Capacity \in Nat
        /\ cursor \in Nat
    BY BufferType, SizesType
  <2>2. cursor + 25 < Capacity
    BY <1>5, <2>1 DEF add_ie, Inside, HeaderSize
  <2>3. element_id \in Octet /\ length \in Octet
    <3>1. HeaderSize + cursor + 1 \in 1..Len(raw_frame_buffer)
          /\ HeaderSize + (cursor + 1) + 1 \in 1..Len(raw_frame_buffer)
      BY <2>1, <2>2 DEF HeaderSize
    <3> QED
      BY <2>1, <3>1, ByteOf DEF element_id, Byte
  <2>4. element_length = length /\ length \in Nat
    BY <2>3, OctetType DEF element_length, Byte
  <2> HIDE DEF length
  <2>5. length # 0 /\ cursor + 2 + length <= limit /\ cursor + 25 + length < Capacity
    BY <1>5, <2>1, <2>4 DEF add_ie, Stops, NextElement, Inside, HeaderSize
  <2>6. Run(HeaderSize, cursor + 2, element_length) \in Text
        /\ Len(Run(HeaderSize, cursor + 2, element_length)) = length
    <3> DEFINE m == HeaderSize + (cursor + 2) + 1
               n == HeaderSize + (cursor + 2) + length
    <3>1. m \in 1..(Len(raw_frame_buffer) + 1) /\ n \in 0..Len(raw_frame_buffer) /\ m <= n + 1
          /\ n - m + 1 = length
      BY <2>1, <2>4, <2>5 DEF HeaderSize
    <3> HIDE DEF m, n
    <3>2. SubSeq(raw_frame_buffer, m, n) \in Text /\ Len(SubSeq(raw_frame_buffer, m, n)) = n - m + 1
      BY <2>1, <3>1, Sliced
    <3> QED
      BY <2>4, <3>1, <3>2 DEF Run, m, n
  <2>7. element \in [id : Octet, value : Text] /\ element.value # <<>>
    <3> HIDE DEF Run
    <3>1. Run(HeaderSize, cursor + 2, element_length) # <<>>
      BY <2>4, <2>5, <2>6
    <3> QED
      BY <2>3, <2>6, <3>1 DEF from_buffer_inv
  <2> HIDE DEF element
  <2>8. ies' = Append(ies, element)
    BY <1>5 DEF add_ie, Added, element
  <2>9. ies' \in Seq([id : Octet, value : Text])
    BY <2>7, <2>8, AppendProperties
  <2>10. \A i \in DOMAIN ies' : ies'[i].id \in Octet /\ ies'[i].value # <<>>
    BY <2>7, <2>8 DEF TypeOK
  <2>11. cursor' = cursor + 2 + length
    BY <1>5, <2>4 DEF add_ie, NextElement
  <2>12. UNCHANGED <<frameVars, is_decoded, fixed, limit, pc>>
    BY <1>5 DEF add_ie
  <2> QED
    BY <2>1, <2>4, <2>5, <2>9, <2>10, <2>11, <2>12 DEF TypeOK, frameVars
<1>6. CASE add_ie_throws
  BY <1>6 DEF add_ie_throws, TypeOK, frameVars, bodyVars
<1>7. CASE OutOfBuffer
  BY <1>7 DEF OutOfBuffer, TypeOK, frameVars, bodyVars
<1>8. CASE Rerun
  <2>1. raw_frame_buffer' \in [1..Capacity -> Octet]
    BY <1>8, FreshType DEF Rerun
  <2>2. DOMAIN header' = DOMAIN HeaderFields /\ DOMAIN fixed' = DOMAIN FixedFields
    BY <1>8, NoFieldsDomain DEF Rerun
  <2>3. /\ raw_frame_size' = 0 /\ is_decoded' = FALSE /\ ies' = <<>> /\ limit' = 0
        /\ cursor' = 0 /\ pc' = "poll"
    BY <1>8 DEF Rerun
  <2>4. 0 \in 0..Capacity /\ 0 \in 0..(WordSize - 1)
    BY SizesType
  <2> QED
    BY <2>1, <2>2, <2>3, <2>4, NoElements DEF TypeOK
<1>9. CASE UNCHANGED vars
  BY <1>9 DEF vars, frameVars, bodyVars, TypeOK
<1> QED
  BY <1>1, <1>2, <1>3, <1>4, <1>5, <1>6, <1>7, <1>8, <1>9 DEF Next, Decode

(* The first frame object has the types.                                   *)
LEMMA InitType == Init => TypeInv
<1> SUFFICES ASSUME Init PROVE TypeInv
  OBVIOUS
<1>1. raw_frame_buffer \in [1..Capacity -> Octet]
  BY FreshType DEF Init
<1>2. DOMAIN header = DOMAIN HeaderFields /\ DOMAIN fixed = DOMAIN FixedFields
  BY NoFieldsDomain DEF Init
<1>3. /\ raw_frame_size = 0 /\ is_decoded = FALSE /\ ies = <<>> /\ limit = 0
      /\ cursor = 0 /\ pc = "poll"
  BY DEF Init
<1>4. 0 \in 0..Capacity /\ 0 \in 0..(WordSize - 1)
  BY SizesType
<1> QED
  BY <1>1, <1>2, <1>3, <1>4, NoElements DEF TypeInv, TypeOK

(* TypeInv holds in every state.                                           *)
LEMMA TypeAlways == Spec => []TypeInv
BY InitType, NextType, PTL DEF Spec

(* The state of a frame that is received and decoded has its type: the     *)
(* cursor of the element loop is inside the size of the body, every        *)
(* element has a byte for its number and at least one byte of value (the   *)
(* loop of Beacon_body::decode stops at the first empty one), for every    *)
(* sequence of frames.                                                     *)
THEOREM TypeTheorem == Spec => []TypeOK
<1>1. TypeInv => TypeOK
  BY DEF TypeInv
<1> QED
  BY <1>1, TypeAlways, PTL

-----------------------------------------------------------------------------
(* Lists of elements that a reading yields                                 *)

(* No elements stand in front of the first position.                       *)
LEMMA YieldsNothing ==
  ASSUME NEW text \in Text
  PROVE  Yields(text, 1, <<>>)
<1> DEFINE at == [i \in 1..1 |-> 1]
<1>1. 1 \in Reading(text)
  BY ReadingIs DEF IsReading
<1>2. at \in [1..(Len(<<>>) + 1) -> Reading(text)] /\ at[1] = 1 /\ at[Len(<<>>) + 1] = 1
  BY <1>1
<1>3. DOMAIN <<>> = {}
  OBVIOUS
<1> HIDE DEF at
<1> QED
  BY <1>2, <1>3 DEF Yields

(* An element that stands behind the elements read so far extends them by  *)
(* one (Ie_node::add puts it at the end of the list).                      *)
LEMMA YieldsNext ==
  ASSUME NEW text \in Text, NEW S, NEW list \in Seq(S), NEW p,
         Yields(text, p, list), Complete(text, p), ElementAt(text, p) \in S
  PROVE  Yields(text, Follows(text, p), Append(list, ElementAt(text, p)))
<1> DEFINE n == Len(list)
           next == Append(list, ElementAt(text, p))
<1>1. n \in Nat /\ DOMAIN list = 1..n
  BY LenProperties
<1>2. next \in Seq(S) /\ Len(next) = n + 1 /\ DOMAIN next = 1..(n + 1)
      /\ (\A i \in 1..n : next[i] = list[i]) /\ next[n + 1] = ElementAt(text, p)
  BY AppendProperties, LenProperties
<1> HIDE DEF n, next
<1>3. PICK at \in [1..(n + 1) -> Reading(text)] :
        /\ at[1] = 1 /\ at[n + 1] = p
        /\ \A i \in 1..n : /\ Complete(text, at[i]) /\ list[i] = ElementAt(text, at[i])
                           /\ at[i + 1] = Follows(text, at[i])
  BY <1>1 DEF Yields, n
<1>4. p \in Reading(text) /\ Follows(text, p) \in Reading(text)
  <2>1. p \in Reading(text)
    BY <1>1, <1>3
  <2> QED
    BY <2>1, ReadingIs DEF IsReading
<1> DEFINE to == [i \in 1..((n + 1) + 1) |-> IF i = n + 2 THEN Follows(text, p) ELSE at[i]]
<1>5. to \in [1..(Len(next) + 1) -> Reading(text)]
  BY <1>1, <1>2, <1>3, <1>4
<1>6. to[1] = 1 /\ to[(n + 1) + 1] = Follows(text, p) /\ \A i \in 1..(n + 1) : to[i] = at[i]
  BY <1>1, <1>3
<1> HIDE DEF to
<1>7. ASSUME NEW i \in 1..(n + 1)
      PROVE  /\ Complete(text, to[i]) /\ next[i] = ElementAt(text, to[i])
             /\ to[i + 1] = Follows(text, to[i])
  <2>1. CASE i = n + 1
    <3>1. to[i] = p /\ to[i + 1] = Follows(text, p) /\ next[i] = ElementAt(text, p)
      BY <1>1, <1>2, <1>3, <1>6, <2>1
    <3> QED
      BY <3>1
  <2>2. CASE i # n + 1
    <3>1. i \in 1..n /\ i + 1 \in 1..(n + 1)
      BY <1>1, <2>2
    <3>2. to[i] = at[i] /\ to[i + 1] = at[i + 1] /\ next[i] = list[i]
      BY <1>2, <1>6, <3>1
    <3> QED
      BY <1>3, <3>1, <3>2
  <2> QED
    BY <2>1, <2>2
<1>8. to[Len(next) + 1] = Follows(text, p)
  BY <1>2, <1>6
<1>9. Yields(text, Follows(text, p), next)
  BY <1>2, <1>5, <1>6, <1>7, <1>8 DEF Yields
<1> QED
  BY <1>9 DEF next

(* The list that reaches the end of a well-formed text yields the whole    *)
(* text: nothing that could be an element is left over.                    *)
LEMMA YieldsAll ==
  ASSUME NEW text \in Text, NEW S, NEW list \in Seq(S), NEW p, Yields(text, p, list), ~ Complete(text, p)
  PROVE  \E at \in [1..(Len(list) + 1) -> Reading(text)] :
           /\ at[1] = 1 /\ at[Len(list) + 1] = p
           /\ \A i \in 1..Len(list) : /\ Complete(text, at[i])
                                      /\ list[i] = ElementAt(text, at[i])
                                      /\ at[i + 1] = Follows(text, at[i])
           /\ \A q \in Reading(text) : \E i \in 1..(Len(list) + 1) : q = at[i]
<1> DEFINE n == Len(list)
<1>1. n \in Nat /\ DOMAIN list = 1..n
  BY LenProperties
<1> HIDE DEF n
<1>2. PICK at \in [1..(n + 1) -> Reading(text)] :
        /\ at[1] = 1 /\ at[n + 1] = p
        /\ \A i \in 1..n : /\ Complete(text, at[i]) /\ list[i] = ElementAt(text, at[i])
                           /\ at[i + 1] = Follows(text, at[i])
  BY <1>1 DEF Yields, n
<1> DEFINE Q == {at[i] : i \in 1..(n + 1)}
<1>3. 1 \in Q
  BY <1>1, <1>2
<1>4. ASSUME NEW q \in Q, Complete(text, q) PROVE Follows(text, q) \in Q
  <2>1. PICK i \in 1..(n + 1) : q = at[i]
    BY <1>4
  <2>2. i # n + 1
    BY <1>2, <1>4, <2>1
  <2>3. i \in 1..n /\ i + 1 \in 1..(n + 1)
    BY <1>1, <2>2
  <2> QED
    BY <1>2, <2>1, <2>3
<1>5. Reading(text) \subseteq Q
  <2> HIDE DEF Q
  <2> QED
    BY <1>3, <1>4, ReadingIs, ReadingInClosed
<1>6. \A q \in Reading(text) : \E i \in 1..(n + 1) : q = at[i]
  BY <1>5
<1> QED
  BY <1>2, <1>6 DEF n

(* The position in front of which a list of elements stands belongs to the *)
(* reading.                                                                *)
LEMMA PositionIsRead ==
  ASSUME NEW text \in Text, NEW p, NEW S, NEW list \in Seq(S), Yields(text, p, list)
  PROVE  p \in Reading(text)
<1>1. Len(list) \in Nat
  BY LenProperties
<1> QED
  BY <1>1 DEF Yields

-----------------------------------------------------------------------------
(* The element loop of Beacon_body::decode against the reference reading   *)

(* Between the parts of decode: a frame that did not wrap is measured      *)
(* correctly, is a beacon with fixed fields by the time its elements are   *)
(* read, and the list holds the elements of the frame in front of the      *)
(* cursor. The buffer's content behind the frame does not occur in it.     *)
LoopInv ==
  /\ pc # "poll" => ~ is_decoded
  /\ pc = "fixed" =>
       /\ ies = <<>>
       /\ ~ Wraps => IsBeacon /\ raw_frame_size > HeaderSize + FcsSize
                     /\ limit = raw_frame_size - HeaderSize - FcsSize
  /\ pc = "elements" /\ ~ Wraps =>
       /\ IsBeacon /\ HasFixed
       /\ limit = raw_frame_size - HeaderSize - FcsSize
       /\ cursor >= FixedSize
       /\ DecodedUpTo(Elements, cursor - FixedSize + 1)

(* DecodesExactly is not inductive: it says nothing of a frame that is     *)
(* being decoded. LoopInv does.                                            *)
DecoderInv == TypeInv /\ LoopInv /\ DecodesExactly

(* The element area of the reference reading is the part of the buffer     *)
(* between the fixed fields and the check sequence.                        *)
LEMMA ElementsAre ==
  ASSUME TypeInv, HasFixed
  PROVE  /\ raw_frame_size \in Nat /\ raw_frame_size >= 40 /\ raw_frame_size <= Capacity
         /\ Elements \in Text /\ Len(Elements) = raw_frame_size - 40
         /\ \A i \in 1..(raw_frame_size - 40) : Elements[i] = raw_frame_buffer[36 + i]
<1>1. raw_frame_buffer \in Text /\ Len(raw_frame_buffer) = Capacity /\ Capacity \in Nat
  BY BufferType, SizesType
<1>2. raw_frame_size \in Nat /\ raw_frame_size >= 40 /\ raw_frame_size <= Capacity
  BY SizesType DEF TypeInv, TypeOK, HasFixed, HeaderSize, FixedSize, FcsSize
<1> DEFINE m == 37
           n == raw_frame_size - 4
<1>3. m \in 1..(Len(raw_frame_buffer) + 1) /\ n \in 0..Len(raw_frame_buffer) /\ m <= n + 1
      /\ n - m + 1 = raw_frame_size - 40 /\ \A i \in 1..(raw_frame_size - 40) : m + i - 1 = 36 + i
  BY <1>1, <1>2
<1>4. Elements = SubSeq(raw_frame_buffer, m, n)
  BY DEF Elements, HeaderSize, FixedSize, FcsSize
<1> HIDE DEF m, n
<1>5. /\ SubSeq(raw_frame_buffer, m, n) \in Text /\ Len(SubSeq(raw_frame_buffer, m, n)) = n - m + 1
      /\ \A i \in 1..(n - m + 1) : SubSeq(raw_frame_buffer, m, n)[i] = raw_frame_buffer[m + i - 1]
  BY <1>1, <1>3, Sliced
<1> QED
  BY <1>2, <1>3, <1>4, <1>5

(* What a turn of the loop reads at the cursor is the number, the length   *)
(* and the value of the element of the reference reading at that position. *)
(* An element that reaches its end is complete, one that add_ie throws at  *)
(* lacks its last byte: the loop's test leaves out the two bytes of the    *)
(* element's own header.                                                   *)
LEMMA TurnOfLoop ==
  ASSUME TypeInv, LoopEntered, HasFixed, cursor >= FixedSize,
         limit = raw_frame_size - HeaderSize - FcsSize
  PROVE  LET p == cursor - FixedSize + 1
         IN /\ Inside(cursor + 1)
            /\ NextElement <= limit => Inside(NextElement - 1)
            /\ Stops => ~ Complete(Elements, p) /\ ~ OneShort(Elements, p)
            /\ ~ Stops /\ NextElement > limit => OneShort(Elements, p)
            /\ ~ Stops /\ NextElement <= limit =>
                 /\ Complete(Elements, p)
                 /\ Follows(Elements, p) = NextElement - FixedSize + 1
                 /\ ElementAt(Elements, p) =
                      [id |-> element_id,
                       value |-> from_buffer_inv(Run(HeaderSize, cursor + 2, element_length))]
                 /\ ElementAt(Elements, p) \in [id : Octet, value : Text]
<1> DEFINE p == cursor - FixedSize + 1
           length == raw_frame_buffer[cursor + 26]
           raw == raw_frame_size
<1>1. /\ raw \in Nat /\ raw >= 40 /\ raw <= Capacity
      /\ Elements \in Text /\ Len(Elements) = raw - 40
      /\ \A i \in 1..(raw - 40) : Elements[i] = raw_frame_buffer[36 + i]
  BY ElementsAre
<1>2. /\ cursor \in Nat /\ cursor >= 12 /\ cursor < raw - 28 /\ limit = raw - 28
      /\ p = cursor - 11 /\ p \in Nat /\ p >= 1 /\ p <= raw - 40
      /\ Capacity \in Nat /\ cursor + 25 < Capacity
  BY <1>1, SizesType DEF LoopEntered, TypeInv, HeaderSize, FixedSize, FcsSize
<1> HIDE DEF p, length, raw
<1>3. element_length = length /\ length \in Nat
  <2>1. raw_frame_buffer \in Text /\ Len(raw_frame_buffer) = Capacity
    BY BufferType
  <2>2. cursor + 26 \in 1..Len(raw_frame_buffer)
    BY <1>2, <2>1
  <2>3. length \in Octet
    BY <2>1, <2>2, ByteOf DEF length
  <2>4. HeaderSize + (cursor + 1) + 1 = cursor + 26
    BY <1>2 DEF HeaderSize
  <2> QED
    BY <2>3, <2>4, OctetType DEF element_length, Byte, length
<1>4. element_id = Elements[p]
  <2>1. HeaderSize + cursor + 1 = 36 + p /\ p \in 1..(raw - 40)
    BY <1>1, <1>2 DEF HeaderSize
  <2> QED
    BY <1>1, <2>1 DEF element_id, Byte
<1>5. p + 1 <= raw - 40 => Elements[p + 1] = length
  <2> SUFFICES ASSUME p + 1 <= raw - 40 PROVE Elements[p + 1] = length
    OBVIOUS
  <2>1. 36 + (p + 1) = cursor + 26 /\ p + 1 \in 1..(raw - 40)
    BY <1>1, <1>2
  <2>2. Elements[p + 1] = raw_frame_buffer[36 + (p + 1)]
    BY <1>1, <2>1
  <2> QED
    BY <2>1, <2>2 DEF length
<1>6. /\ Stops <=> length = 0 \/ length + cursor >= raw - 28
      /\ NextElement = cursor + 2 + length
  BY <1>2, <1>3 DEF Stops, NextElement
<1>7. /\ Complete(Elements, p) <=> p + 2 <= raw - 40 /\ length >= 1 /\ length <= raw - 41 - p
      /\ OneShort(Elements, p) <=> p + 1 <= raw - 40 /\ length = raw - 40 - p
  <2>1. Complete(Elements, p) <=>
          p + 2 <= raw - 40 /\ Elements[p + 1] \in 1..(raw - 40 - p - 1)
    BY <1>1 DEF Complete
  <2>2. OneShort(Elements, p) <=> p + 1 <= raw - 40 /\ Elements[p + 1] = raw - 40 - p
    BY <1>1 DEF OneShort
  <2>3. p + 2 <= raw - 40 => p + 1 <= raw - 40
    BY <1>1, <1>2
  <2> QED
    BY <1>1, <1>2, <1>3, <1>5, <2>1, <2>2, <2>3
<1>8. Inside(cursor + 1) /\ (NextElement <= limit => Inside(NextElement - 1))
  BY <1>1, <1>2, <1>3, <1>6 DEF Inside, HeaderSize
<1>9. Stops => ~ Complete(Elements, p) /\ ~ OneShort(Elements, p)
  <2>1. CASE length = 0
    <3>1. ~ (length >= 1) /\ ~ (p + 1 <= raw - 40 /\ length = raw - 40 - p)
      BY <1>1, <1>2, <2>1
    <3> QED
      BY <1>7, <3>1
  <2>2. CASE length + cursor >= raw - 28
    <3>1. ~ (length <= raw - 41 - p) /\ ~ (length = raw - 40 - p)
      BY <1>1, <1>2, <1>3, <2>2
    <3> QED
      BY <1>7, <3>1
  <2> QED
    BY <1>6, <2>1, <2>2
<1>10. ~ Stops /\ NextElement > limit => OneShort(Elements, p)
  BY <1>1, <1>2, <1>3, <1>6, <1>7
<1>11. ASSUME ~ Stops, NextElement <= limit
       PROVE  /\ Complete(Elements, p)
              /\ Follows(Elements, p) = NextElement - FixedSize + 1
              /\ ElementAt(Elements, p) =
                   [id |-> element_id,
                    value |-> from_buffer_inv(Run(HeaderSize, cursor + 2, element_length))]
              /\ ElementAt(Elements, p) \in [id : Octet, value : Text]
  <2>1. length >= 1 /\ cursor + 2 + length <= raw - 28
    BY <1>2, <1>3, <1>6, <1>11
  <2>2. Complete(Elements, p)
    <3>1. p + 2 <= raw - 40 /\ length <= raw - 41 - p
      BY <1>1, <1>2, <1>3, <2>1
    <3> QED
      BY <1>7, <2>1, <3>1
  <2>3. p + 1 <= raw - 40 /\ Elements[p + 1] = length
    BY <1>1, <1>2, <1>3, <1>5, <2>1
  <2>4. Follows(Elements, p) = p + 2 + length
    BY <2>3 DEF Follows
  <2>5. Follows(Elements, p) = NextElement - FixedSize + 1
    BY <1>2, <1>3, <1>6, <2>4 DEF FixedSize
  <2> DEFINE m == p + 2
             n == Follows(Elements, p) - 1
             from == HeaderSize + (cursor + 2) + 1
             to == HeaderSize + (cursor + 2) + length
  <2>6. /\ m \in 1..(Len(Elements) + 1) /\ n \in 0..Len(Elements) /\ m <= n + 1
        /\ m \in 1..((raw - 4) - 37 + 1) /\ n \in 1..((raw - 4) - 37 + 1)
        /\ 37 + m - 1 = from /\ 37 + n - 1 = to
    BY <1>1, <1>2, <1>3, <2>1, <2>4 DEF HeaderSize
  <2> HIDE DEF m, n, from, to
  <2>7. SubSeq(Elements, m, n) = SubSeq(raw_frame_buffer, from, to)
    <3>1. raw_frame_buffer \in Seq(Octet) /\ Len(raw_frame_buffer) = Capacity
      BY BufferType DEF Text
    <3>2. 37 \in 1..Len(raw_frame_buffer) /\ raw - 4 \in 1..Len(raw_frame_buffer)
      BY <1>1, <1>2, <3>1
    <3>3. Elements = SubSeq(raw_frame_buffer, 37, raw - 4)
      BY DEF Elements, HeaderSize, FixedSize, FcsSize, raw
    <3>4. SubSeq(SubSeq(raw_frame_buffer, 37, raw - 4), m, n) = SubSeq(raw_frame_buffer, 37 + m - 1, 37 + n - 1)
      BY <2>6, <3>1, <3>2, SubSeqOfSubSeq
    <3> QED
      BY <2>6, <3>3, <3>4
  <2>8. ElementAt(Elements, p).value = SubSeq(Elements, m, n)
    BY DEF ElementAt, m, n
  <2>9. from_buffer_inv(Run(HeaderSize, cursor + 2, element_length)) = SubSeq(raw_frame_buffer, from, to)
    BY <1>3 DEF from_buffer_inv, Run, from, to
  <2>10. SubSeq(Elements, m, n) \in Text
    BY <1>1, <2>6, Sliced
  <2>11. Elements[p] \in Octet
    <3>1. p \in 1..Len(Elements)
      BY <1>1, <1>2
    <3> QED
      BY <1>1, <3>1, ByteOf
  <2>12. ElementAt(Elements, p) = [id |-> Elements[p], value |-> SubSeq(Elements, m, n)]
    BY DEF ElementAt, m, n
  <2>13. ElementAt(Elements, p) =
            [id |-> element_id,
             value |-> from_buffer_inv(Run(HeaderSize, cursor + 2, element_length))]
    BY <1>4, <2>7, <2>9, <2>12, Zenon
  <2>14. [id |-> Elements[p], value |-> SubSeq(Elements, m, n)] \in [id : Octet, value : Text]
    BY <2>10, <2>11
  <2> QED
    BY <2>2, <2>5, <2>12, <2>13, <2>14, Zenon
<1> QED
  BY <1>8, <1>9, <1>10, <1>11 DEF p

(* While a frame is decoded the reference reading of it stays.             *)
LEMMA SameFrame ==
  ASSUME UNCHANGED <<raw_frame_buffer, raw_frame_size>>
  PROVE  /\ Elements' = Elements /\ (Wraps' <=> Wraps)
         /\ (IsBeacon' <=> IsBeacon) /\ (HasFixed' <=> HasFixed)
BY DEF Elements, Wraps, IsBeacon, HasFixed

(* The header's part of Frame::decode throws for nothing but frames that   *)
(* are no beacons, and it gives the body the size up to the check          *)
(* sequence.                                                               *)
LEMMA DecodeHeaderStep ==
  ASSUME DecoderInv, decode_header
  PROVE  LoopInv' /\ DecodesExactly'
<1> USE DEF DecoderInv
<1>1. UNCHANGED <<raw_frame_buffer, raw_frame_size, is_decoded>> /\ pc = "header" /\ ~ is_decoded
  BY DEF decode_header, LoopInv
<1>2. /\ (Wraps' <=> Wraps) /\ (IsBeacon' <=> IsBeacon) /\ (HasFixed' <=> HasFixed)
  BY <1>1, SameFrame
<1>3. raw_frame_size \in Nat /\ raw_frame_size < WordSize /\ WordSize \in Nat
  BY SizesType DEF TypeInv, TypeOK
<1>4. CASE pc' = "fixed"
  <2>1. raw_frame_size >= HeaderSize /\ limit' = BodySize /\ BodySize >= 1 /\ ies' = <<>>
        /\ Kind(ReadFields(HeaderFields, 0, raw_frame_size, header).frame_control)
             = <<Management, Beacon>>
    BY <1>4 DEF decode_header
  <2>2. IsBeacon
    BY <2>1, RightKind
  <2>3. ~ Wraps => raw_frame_size >= HeaderSize + FcsSize
                   /\ BodySize = raw_frame_size - HeaderSize - FcsSize
    BY <1>3, <2>1 DEF Wraps, BodySize, HeaderSize, FcsSize
  <2>4. ~ Wraps => raw_frame_size > HeaderSize + FcsSize
    BY <1>3, <2>1, <2>3 DEF HeaderSize, FcsSize
  <2> QED
    BY <1>1, <1>2, <1>4, <2>1, <2>2, <2>3, <2>4 DEF LoopInv, DecodesExactly
<1>5. CASE pc' = "thrown"
  <2>1. ~ (/\ raw_frame_size >= HeaderSize
           /\ Kind(ReadFields(HeaderFields, 0, raw_frame_size, header).frame_control)
                = <<Management, Beacon>>
           /\ BodySize >= 1)
    BY <1>5 DEF decode_header
  <2>2. ~ Wraps => ~ IsBeacon \/ ~ HasFixed
    <3>1. CASE ~ (raw_frame_size >= HeaderSize)
      BY <3>1 DEF IsBeacon
    <3>2. CASE raw_frame_size >= HeaderSize /\ ~ (BodySize >= 1)
      <4>1. ~ Wraps => ~ (raw_frame_size >= HeaderSize + FixedSize + FcsSize)
        BY <1>3, <3>2 DEF Wraps, BodySize, HeaderSize, FixedSize, FcsSize
      <4> QED
        BY <4>1 DEF HasFixed
    <3>3. CASE raw_frame_size >= HeaderSize
               /\ Kind(ReadFields(HeaderFields, 0, raw_frame_size, header).frame_control)
                    # <<Management, Beacon>>
      BY <3>3, RightKind
    <3> QED
      BY <2>1, <3>1, <3>2, <3>3
  <2> QED
    BY <1>1, <1>2, <1>5, <2>2 DEF LoopInv, DecodesExactly
<1> QED
  BY <1>4, <1>5 DEF decode_header

(* Beacon_body::decode throws before its loop for nothing but frames       *)
(* without room for the fixed fields.                                      *)
LEMMA DecodeFixedStep ==
  ASSUME DecoderInv, decode_fixed
  PROVE  LoopInv' /\ DecodesExactly'
<1> USE DEF DecoderInv
<1>1. /\ UNCHANGED <<raw_frame_buffer, raw_frame_size, is_decoded, ies, limit>>
      /\ pc = "fixed" /\ ~ is_decoded /\ ies = <<>> /\ cursor' = FixedSize
  BY DEF decode_fixed, LoopInv, frameVars
<1>2. /\ Elements' = Elements
      /\ (Wraps' <=> Wraps) /\ (IsBeacon' <=> IsBeacon) /\ (HasFixed' <=> HasFixed)
  BY <1>1, SameFrame
<1>3. ~ Wraps => IsBeacon /\ limit = raw_frame_size - HeaderSize - FcsSize
  BY <1>1 DEF LoopInv
<1>4. raw_frame_size \in Nat /\ limit \in Nat
  BY SizesType DEF TypeInv, TypeOK
<1>5. CASE pc' = "elements"
  <2>1. ~ Wraps => HasFixed
    <3>1. limit >= FixedSize
      BY <1>5 DEF decode_fixed
    <3> QED
      BY <1>3, <1>4, <3>1 DEF HasFixed, HeaderSize, FixedSize, FcsSize
  <2>2. ~ Wraps => DecodedUpTo(Elements, cursor - FixedSize + 1)'
    <3> SUFFICES ASSUME ~ Wraps PROVE Yields(Elements', cursor' - FixedSize + 1, ies')
      BY DEF DecodedUpTo
    <3>1. cursor' - FixedSize + 1 = 1 /\ ies' = <<>>
      BY <1>1 DEF FixedSize
    <3>2. Yields(Elements, 1, <<>>)
      BY <2>1, ElementsAre, YieldsNothing
    <3> QED
      BY <1>2, <3>1, <3>2
  <2>3. cursor' >= FixedSize
    BY <1>1 DEF FixedSize
  <2>4. ~ Wraps' => /\ IsBeacon' /\ HasFixed'
                    /\ limit' = raw_frame_size' - HeaderSize - FcsSize
    BY <1>1, <1>2, <1>3, <2>1
  <2> QED
    BY <1>1, <1>2, <1>5, <2>2, <2>3, <2>4 DEF LoopInv, DecodesExactly
<1>6. CASE pc' = "thrown"
  <2>1. ~ Wraps => ~ HasFixed
    <3>1. ~ (limit >= FixedSize)
      BY <1>6 DEF decode_fixed
    <3> QED
      BY <1>3, <1>4, <3>1 DEF HasFixed, HeaderSize, FixedSize, FcsSize
  <2> QED
    BY <1>1, <1>2, <1>6, <2>1 DEF LoopInv, DecodesExactly
<1> QED
  BY <1>5, <1>6 DEF decode_fixed

(* A turn of the loop adds the next element, ends at the first that is     *)
(* empty or incomplete, or throws at one whose last byte is missing.       *)
LEMMA ElementsStep ==
  ASSUME DecoderInv, EndOfElements \/ add_ie \/ add_ie_throws \/ OutOfBuffer
  PROVE  LoopInv' /\ DecodesExactly'
<1> USE DEF DecoderInv
<1> DEFINE p == cursor - FixedSize + 1
<1>1. /\ UNCHANGED <<raw_frame_buffer, raw_frame_size, limit>>
      /\ pc = "elements" /\ ~ is_decoded
  BY DEF EndOfElements, add_ie, add_ie_throws, OutOfBuffer, LoopEntered, LoopInv, frameVars, bodyVars
<1>2. /\ Elements' = Elements
      /\ (Wraps' <=> Wraps) /\ (IsBeacon' <=> IsBeacon) /\ (HasFixed' <=> HasFixed)
  BY <1>1, SameFrame
<1>3. CASE Wraps
  <2>1. pc' \in {"elements", "poll", "thrown"} /\ (pc' # "poll" => ~ is_decoded')
    BY <1>1 DEF EndOfElements, add_ie, add_ie_throws, OutOfBuffer
  <2> QED
    BY <1>2, <1>3, <2>1 DEF LoopInv, DecodesExactly
<1>4. CASE ~ Wraps
  <2>1. /\ IsBeacon /\ HasFixed /\ cursor >= FixedSize
        /\ limit = raw_frame_size - HeaderSize - FcsSize
        /\ Yields(Elements, p, ies)
    BY <1>1, <1>4 DEF LoopInv, DecodedUpTo
  <2>2. /\ Elements \in Text /\ Len(Elements) = raw_frame_size - 40
        /\ raw_frame_size \in Nat /\ raw_frame_size >= 40
        /\ cursor \in Nat /\ ies \in Seq([id : Octet, value : Text])
    BY <2>1, ElementsAre DEF TypeInv
  <2>3. p \in Reading(Elements)
    BY <2>1, <2>2, PositionIsRead
  <2>4. CASE EndOfElements
    <3>1. ~ Complete(Elements, p) /\ ~ OneShort(Elements, p)
      <4>1. CASE cursor >= limit
        <5>1. p + 1 > Len(Elements) /\ p + 2 > Len(Elements)
          BY <2>1, <2>2, <4>1 DEF HeaderSize, FixedSize, FcsSize
        <5> QED
          BY <2>1, <2>2, <5>1 DEF Complete, OneShort, FixedSize
      <4>2. CASE cursor < limit /\ Stops
        <5>1. LoopEntered
          BY <1>1, <4>2 DEF LoopEntered
        <5> QED
          BY <2>1, <4>2, <5>1, TurnOfLoop
      <4> QED
        BY <2>4, <4>1, <4>2 DEF EndOfElements
    <3>2. ies' = ies /\ pc' = "poll"
      BY <2>4 DEF EndOfElements, bodyVars
    <3>3. DecodedUpTo(Elements, p)
      BY <2>1 DEF DecodedUpTo
    <3>4. \E q \in Reading(Elements) :
             Yields(Elements, q, ies) /\ ~ Complete(Elements, q) /\ ~ OneShort(Elements, q)
      BY <2>1, <2>3, <3>1
    <3>5. \E q \in Reading(Elements') :
             Yields(Elements', q, ies') /\ ~ Complete(Elements', q) /\ ~ OneShort(Elements', q)
      BY <1>2, <3>2, <3>4
    <3> QED
      BY <1>2, <2>1, <3>2, <3>5 DEF LoopInv, DecodesExactly, DecodedUpTo
  <2>5. CASE add_ie
    <3>1. LoopEntered /\ ~ Stops /\ NextElement <= limit
      BY <2>5 DEF add_ie
    <3>2. /\ Complete(Elements, p)
          /\ Follows(Elements, p) = NextElement - FixedSize + 1
          /\ ElementAt(Elements, p) =
               [id |-> element_id,
                value |-> from_buffer_inv(Run(HeaderSize, cursor + 2, element_length))]
          /\ ElementAt(Elements, p) \in [id : Octet, value : Text]
      BY <2>1, <3>1, TurnOfLoop
    <3>3. ies' = Append(ies, ElementAt(Elements, p)) /\ cursor' = NextElement
          /\ pc' = "elements" /\ is_decoded' = is_decoded
      BY <1>1, <2>5, <3>2 DEF add_ie, Added
    <3> HIDE DEF p
    <3>4. Yields(Elements, Follows(Elements, p), Append(ies, ElementAt(Elements, p)))
      BY <2>1, <2>2, <3>2, YieldsNext
    <3>5. Yields(Elements', cursor' - FixedSize + 1, ies')
      BY <1>2, <3>2, <3>3, <3>4
    <3>6. cursor' >= FixedSize
      <4>1. Follows(Elements, p) > p /\ p \in Nat /\ p >= 1
        <5>1. p \in 1..(Len(Elements) + 1) /\ p \in Nat /\ p >= 1
          BY <2>2, <2>3, ReadingIs
        <5> QED
          BY <2>2, <3>2, <5>1, FollowsType
      <4>2. cursor' \in Nat
        BY NextType, <2>5 DEF Next, Decode, TypeInv
      <4> QED
        BY <2>1, <2>2, <3>2, <3>3, <4>1, <4>2 DEF p, FixedSize
    <3> QED
      BY <1>1, <1>2, <2>1, <3>3, <3>5, <3>6 DEF LoopInv, DecodesExactly, DecodedUpTo
  <2>6. CASE add_ie_throws
    <3>1. LoopEntered /\ ~ Stops /\ NextElement > limit
      BY <2>6 DEF add_ie_throws
    <3>2. OneShort(Elements, p)
      BY <2>1, <3>1, TurnOfLoop
    <3>3. ies' = ies /\ pc' = "thrown" /\ is_decoded' = is_decoded
      BY <2>6 DEF add_ie_throws, bodyVars
    <3>4. \E q \in Reading(Elements) : Yields(Elements, q, ies) /\ OneShort(Elements, q)
      BY <2>1, <2>3, <3>2
    <3>5. \E q \in Reading(Elements') : Yields(Elements', q, ies') /\ OneShort(Elements', q)
      BY <1>2, <3>3, <3>4
    <3> QED
      BY <1>1, <3>3, <3>5 DEF LoopInv, DecodesExactly, DecodedUpTo
  <2>7. CASE OutOfBuffer
    <3>1. LoopEntered
      BY <2>7 DEF OutOfBuffer
    <3>2. Inside(cursor + 1) /\ (NextElement <= limit => Inside(NextElement - 1))
      BY <2>1, <3>1, TurnOfLoop
    <3>3. NextElement <= limit \/ NextElement > limit
      <4>1. element_length \in Nat /\ limit \in Nat
        <5>1. raw_frame_buffer \in Text /\ Len(raw_frame_buffer) = Capacity /\ Capacity \in Nat
          BY BufferType, SizesType
        <5>2. HeaderSize + (cursor + 1) + 1 \in 1..Len(raw_frame_buffer)
          BY <2>2, <3>2, <5>1 DEF Inside, HeaderSize
        <5>3. element_length \in Octet
          BY <5>1, <5>2, ByteOf DEF element_length, Byte
        <5> QED
          BY <5>3, OctetType, SizesType DEF TypeInv, TypeOK
      <4> QED
        BY <2>2, <4>1 DEF NextElement
    <3> QED
      BY <2>7, <3>2, <3>3 DEF OutOfBuffer
  <2> QED
    BY <2>4, <2>5, <2>6, <2>7
<1> QED
  BY <1>3, <1>4

(* Every step keeps DecoderInv. Reception and a new run forget what was    *)
(* decoded.                                                                *)
LEMMA NextDecoder ==
  ASSUME DecoderInv, [Next]_vars
  PROVE  DecoderInv'
<1> USE DEF DecoderInv
<1>1. TypeInv'
  BY NextType
<1>2. LoopInv' /\ DecodesExactly'
  <2>1. ASSUME NEW sent \in Sent, update_raw_data(sent) PROVE LoopInv' /\ DecodesExactly'
    <3>1. pc' = "header" /\ ~ is_decoded'
      BY <2>1 DEF update_raw_data
    <3> QED
      BY <3>1 DEF LoopInv, DecodesExactly
  <2>2. CASE Rerun
    <3>1. pc' = "poll" /\ ~ is_decoded'
      BY <2>2 DEF Rerun
    <3> QED
      BY <3>1 DEF LoopInv, DecodesExactly
  <2>3. CASE UNCHANGED vars
    <3>1. UNCHANGED <<raw_frame_buffer, raw_frame_size, is_decoded, pc, ies, limit, cursor>>
      BY <2>3 DEF vars, frameVars, bodyVars
    <3>2. /\ Elements' = Elements
          /\ (Wraps' <=> Wraps) /\ (IsBeacon' <=> IsBeacon) /\ (HasFixed' <=> HasFixed)
      BY <3>1, SameFrame
    <3>3. LoopInv'
      BY <3>1, <3>2 DEF LoopInv, DecodedUpTo
    <3> QED
      BY <3>1, <3>2, <3>3 DEF DecodesExactly, DecodedUpTo
  <2> QED
    BY <2>1, <2>2, <2>3, DecodeHeaderStep, DecodeFixedStep, ElementsStep DEF Next, Decode
<1> QED
  BY <1>1, <1>2

(* Nothing is decoded in the beginning.                                    *)
LEMMA InitDecoder == Init => DecoderInv
<1> SUFFICES ASSUME Init PROVE DecoderInv
  OBVIOUS
<1>1. pc = "poll" /\ ~ is_decoded
  BY DEF Init
<1> QED
  BY <1>1, InitType DEF DecoderInv, LoopInv, DecodesExactly

(* DecoderInv holds in every state.                                        *)
LEMMA DecoderAlways == Spec => []DecoderInv
BY InitDecoder, NextDecoder, PTL DEF Spec

(* Exactly the beacon frames are decoded, into exactly the elements in     *)
(* front of the first that is empty or incomplete, for every sequence of   *)
(* frames, whatever longer frames and fresh memory left in the buffer;     *)
(* decode throws for nothing but other frames, frames without room for the *)
(* fixed fields and elements without their last byte. The frames of 24 to  *)
(* 27 bytes are excluded: their body size wraps around.                    *)
THEOREM DecodesTheorem == Spec => []DecodesExactly
<1>1. DecoderInv => DecodesExactly
  BY DEF DecoderInv
<1> QED
  BY <1>1, DecoderAlways, PTL

-----------------------------------------------------------------------------
(* The elements that the access point sent                                 *)

(* The driver leaves the whole check sequence behind the frame. It is what *)
(* Frame::decode takes for granted when it subtracts four bytes; ath9k_htc *)
(* does, rtl8188eus does not, see DecoderFcs.cfg.                        *)
FcsAtEnd == Trailers = {FcsSize}

(* The frame in the buffer is the one that area remembers, and a frame     *)
(* that was not decoded successfully does not go back to the poll.         *)
AreaInv ==
  /\ area # <<>> =>
       /\ raw_frame_size = HeaderSize + FixedSize + Len(area) + FcsSize
       /\ IsBeacon /\ Elements = area
       /\ area \in Text
  /\ pc = "poll" /\ ~ is_decoded => area = <<>>

(* A frame with an element area is a beacon, and the area is what the      *)
(* reference reading cuts out of it.                                       *)
LEMMA AreaOfFrame ==
  ASSUME FcsAtEnd, TypeInv, NEW sent \in Sent, update_raw_data(sent), sent.area # <<>>
  PROVE  /\ raw_frame_size' = HeaderSize + FixedSize + Len(sent.area) + FcsSize
         /\ IsBeacon' /\ Elements' = sent.area /\ sent.area \in Text
<1> DEFINE text == sent.area
           frame == sent.frame
           buffer == raw_frame_buffer'
<1>1. PICK n \in Trailers : /\ Len(frame) = 36 + Len(text) + n
                            /\ (frame[1] \div 4) % 64 = 32
                            /\ \A i \in 1..Len(text) : frame[36 + i] = text[i]
  BY SentType
<1>2. text \in Text /\ Len(text) \in Nat /\ frame \in Text
  BY SentType, LenType
<1>3. n = 4
  BY DEF FcsAtEnd, FcsSize
<1>4. /\ buffer \in [1..Capacity -> Octet] /\ Len(frame) \in 0..Capacity
      /\ \A i \in 1..Len(frame) : buffer[i] = frame[i]
  BY NewBuffer
<1>5. raw_frame_size' = Len(frame)
  BY DEF update_raw_data
<1>6. Capacity \in Nat
  BY SizesType
<1> HIDE DEF text, frame, buffer
<1>7. Len(frame) = 40 + Len(text) /\ Len(frame) <= Capacity
  BY <1>1, <1>2, <1>3, <1>4, <1>6
<1>8. buffer \in Text /\ Len(buffer) = Capacity
  <2> HIDE DEF Capacity
  <2> QED
    BY <1>4, <1>6 DEF Text
<1>9. buffer[1] = frame[1]
  BY <1>2, <1>4, <1>7
<1>10. IsBeacon'
  <2>1. (buffer[1] \div 4) % 64 = 32
    BY <1>1, <1>9
  <2>2. raw_frame_size' >= HeaderSize
    BY <1>2, <1>5, <1>7 DEF HeaderSize
  <2> QED
    BY <2>1, <2>2 DEF IsBeacon, buffer
<1>11. Elements' = text
  <2> DEFINE m == 37
             k == Len(frame) - 4
  <2>1. m \in 1..(Len(buffer) + 1) /\ k \in 0..Len(buffer) /\ m <= k + 1 /\ k - m + 1 = Len(text)
        /\ \A i \in 1..Len(text) : m + i - 1 = 36 + i
    BY <1>2, <1>6, <1>7, <1>8
  <2>2. Elements' = SubSeq(buffer, m, k)
    BY <1>5 DEF Elements, HeaderSize, FixedSize, FcsSize, buffer
  <2> HIDE DEF m, k
  <2>3. /\ SubSeq(buffer, m, k) \in Text /\ Len(SubSeq(buffer, m, k)) = k - m + 1
        /\ \A i \in 1..(k - m + 1) : SubSeq(buffer, m, k)[i] = buffer[m + i - 1]
    BY <1>8, <2>1, Sliced
  <2> DEFINE slice == SubSeq(buffer, m, k)
  <2>4. slice \in Seq(Octet) /\ text \in Seq(Octet) /\ Len(slice) = Len(text)
    BY <1>2, <2>1, <2>3 DEF Text
  <2>5. \A i \in 1..Len(slice) : slice[i] = text[i]
    <3> SUFFICES ASSUME NEW i \in 1..Len(text) PROVE slice[i] = text[i]
      BY <2>4
    <3>1. slice[i] = buffer[36 + i]
      BY <2>1, <2>3
    <3>2. 36 + i \in 1..Len(frame)
      BY <1>2, <1>7
    <3> QED
      BY <1>1, <1>4, <3>1, <3>2
  <2> HIDE DEF slice
  <2>6. slice = text
    BY <2>4, <2>5, SeqEqual
  <2> QED
    BY <2>2, <2>6 DEF slice
<1>12. raw_frame_size' = HeaderSize + FixedSize + Len(text) + FcsSize
  BY <1>2, <1>5, <1>7 DEF HeaderSize, FixedSize, FcsSize
<1> QED
  BY <1>2, <1>10, <1>11, <1>12 DEF text

(* Every step keeps AreaInv: decode does not write to the buffer.          *)
LEMMA NextArea ==
  ASSUME FcsAtEnd, DecoderInv, AreaInv, [Next]_vars
  PROVE  AreaInv'
<1>1. ASSUME NEW sent \in Sent, update_raw_data(sent) PROVE AreaInv'
  <2>1. area' = sent.area /\ pc' = "header"
    BY <1>1 DEF update_raw_data
  <2> QED
    BY <1>1, <2>1, AreaOfFrame DEF AreaInv, DecoderInv
<1>2. CASE Rerun
  <2>1. area' = <<>>
    BY <1>2 DEF Rerun
  <2> QED
    BY <2>1 DEF AreaInv
<1>3. CASE Decode /\ ~ Rerun
  <2>1. UNCHANGED <<raw_frame_buffer, raw_frame_size, area>>
    BY <1>3 DEF Decode, decode_header, decode_fixed, EndOfElements, add_ie, add_ie_throws,
                OutOfBuffer, frameVars
  <2>2. Elements' = Elements /\ (IsBeacon' <=> IsBeacon)
    BY <2>1, SameFrame
  <2>3. pc' = "poll" => is_decoded'
    BY <1>3 DEF Decode, decode_header, decode_fixed, EndOfElements, add_ie, add_ie_throws,
                OutOfBuffer, LoopEntered
  <2> QED
    BY <2>1, <2>2, <2>3 DEF AreaInv
<1>4. CASE UNCHANGED vars
  <2>1. UNCHANGED <<raw_frame_buffer, raw_frame_size, area, pc, is_decoded>>
    BY <1>4 DEF vars, frameVars
  <2>2. Elements' = Elements /\ (IsBeacon' <=> IsBeacon)
    BY <2>1, SameFrame
  <2> QED
    BY <2>1, <2>2 DEF AreaInv
<1> QED
  BY <1>1, <1>2, <1>3, <1>4 DEF Next

(* In a run of complete elements nothing but the end is an element that is *)
(* empty, incomplete or lacks its last byte.                               *)
LEMMA StopIsEnd ==
  ASSUME NEW text \in Text, NEW S, NEW list \in Seq(S), NEW p, Yields(text, p, list),
         ~ Complete(text, p), WellFormed(text)
  PROVE  p = Len(text) + 1
<1>1. PICK at \in [1..(Len(list) + 1) -> Reading(text)] :
        /\ at[1] = 1 /\ at[Len(list) + 1] = p
        /\ \A i \in 1..Len(list) : /\ Complete(text, at[i])
                                   /\ list[i] = ElementAt(text, at[i])
                                   /\ at[i + 1] = Follows(text, at[i])
        /\ \A q \in Reading(text) : \E i \in 1..(Len(list) + 1) : q = at[i]
  BY YieldsAll
<1>2. PICK i \in 1..(Len(list) + 1) : Len(text) + 1 = at[i]
  BY <1>1 DEF WellFormed
<1>3. Len(list) \in Nat /\ Len(text) \in Nat
  BY LenProperties, LenType
<1>4. ~ Complete(text, Len(text) + 1)
  BY <1>3 DEF Complete
<1>5. i = Len(list) + 1
  <2>1. i \notin 1..Len(list)
    BY <1>1, <1>2, <1>4
  <2> QED
    BY <1>3, <2>1
<1> QED
  BY <1>1, <1>2, <1>5

(* What was decoded of a well-formed area is the whole area.               *)
LEMMA AllElements ==
  ASSUME DecoderInv, AreaInv
  PROVE  AllElementsDecoded
<1> SUFFICES ASSUME pc \in {"poll", "thrown"}, area # <<>>, WellFormed(area)
             PROVE  is_decoded /\ Yields(area, Len(area) + 1, ies)
  BY DEF AllElementsDecoded, DecodedUpTo
<1>1. area \in Text /\ Len(area) \in Nat /\ Elements = area /\ IsBeacon
      /\ raw_frame_size = HeaderSize + FixedSize + Len(area) + FcsSize
  BY LenType DEF AreaInv
<1>2. ~ Wraps /\ HasFixed
  BY <1>1 DEF Wraps, HasFixed, HeaderSize, FixedSize, FcsSize
<1>3. ies \in Seq([id : Octet, value : Text])
  BY DEF DecoderInv, TypeInv
<1>4. CASE pc = "thrown"
  <2>1. PICK p \in Reading(area) : Yields(area, p, ies) /\ OneShort(area, p)
    BY <1>1, <1>2, <1>4 DEF DecoderInv, DecodesExactly, DecodedUpTo
  <2>2. p \in Nat
    <3>1. Reading(area) \in SUBSET (1..(Len(area) + 1))
      BY <1>1, ReadingIs
    <3> QED
      BY <1>1, <3>1, PositionsType, Zenon
  <2>3. ~ Complete(area, p)
    BY <1>1, <2>1, <2>2 DEF Complete, OneShort
  <2>4. p = Len(area) + 1
    BY <1>1, <1>3, <2>1, <2>3, StopIsEnd
  <2> QED
    BY <1>1, <2>1, <2>4 DEF OneShort
<1>5. CASE pc = "poll"
  <2>1. is_decoded
    BY <1>5 DEF AreaInv
  <2>2. PICK p \in Reading(area) : Yields(area, p, ies) /\ ~ Complete(area, p)
    BY <1>1, <1>2, <2>1 DEF DecoderInv, DecodesExactly, DecodedUpTo
  <2>3. p = Len(area) + 1
    BY <1>1, <1>3, <2>2, StopIsEnd
  <2> QED
    BY <2>1, <2>2, <2>3
<1> QED
  BY <1>4, <1>5

(* A beacon made of complete elements is decoded into exactly the elements *)
(* that the access point sent, for every area and every number of frames   *)
(* before it, if the driver leaves the whole check sequence at the end.    *)
THEOREM ElementsTheorem == FcsAtEnd => (Spec => []AllElementsDecoded)
<1> SUFFICES ASSUME FcsAtEnd PROVE Spec => []AllElementsDecoded
  OBVIOUS
<1>1. Init => AreaInv
  BY DEF Init, AreaInv
<1>2. DecoderInv /\ AreaInv /\ [Next]_vars => AreaInv'
  BY NextArea
<1>3. DecoderInv /\ AreaInv => AllElementsDecoded
  BY AllElements
<1> QED
  BY <1>1, <1>2, <1>3, DecoderAlways, PTL DEF Spec

-----------------------------------------------------------------------------
(* Getters of elements                                                     *)

(* The first element of the list with a number is the first of the frame   *)
(* with that number, and the list has none exactly if the frame has none.  *)
LEMMA FirstFound ==
  ASSUME NEW text \in Text, NEW S, NEW list \in Seq(S), NEW p, Yields(text, p, list),
         ~ Complete(text, p), NEW id
  PROVE  \A found : found = {i \in DOMAIN list : list[i].id = id} =>
           Find(text, id) =
             IF found = {} THEN Null
             ELSE list[CHOOSE i \in found : \A j \in found : i <= j].value
<1> DEFINE n == Len(list)
           found == {i \in DOMAIN list : list[i].id = id}
           hits == {q \in Reading(text) : Complete(text, q) /\ text[q] = id}
<1> SUFFICES Find(text, id) =
               IF found = {} THEN Null
               ELSE list[CHOOSE i \in found : \A j \in found : i <= j].value
  BY Zenon
<1>1. n \in Nat /\ DOMAIN list = 1..n
  BY LenProperties
<1> HIDE DEF n
<1>2. PICK at \in [1..(n + 1) -> Reading(text)] :
        /\ at[1] = 1 /\ at[n + 1] = p
        /\ \A i \in 1..n : /\ Complete(text, at[i]) /\ list[i] = ElementAt(text, at[i])
                           /\ at[i + 1] = Follows(text, at[i])
        /\ \A q \in Reading(text) : \E i \in 1..(n + 1) : q = at[i]
  BY YieldsAll DEF n
<1>3. /\ \A i \in 1..(n + 1) : at[i] \in Nat
      /\ \A i \in 1..(n + 1) : \A j \in 1..(n + 1) : i < j => at[i] < at[j]
  BY <1>1, <1>2, PositionsGrow
<1>4. \A i \in 1..n : list[i].id = text[at[i]] /\ list[i].value = ElementAt(text, at[i]).value
  <2>1. \A q : ElementAt(text, q).id = text[q]
    BY DEF ElementAt
  <2> HIDE DEF n
  <2> QED
    BY <1>2, <2>1
<1>5. ASSUME NEW i \in found PROVE at[i] \in hits /\ i \in 1..n
  <2>1. i \in 1..n /\ i \in 1..(n + 1) /\ list[i].id = id
    BY <1>1
  <2> QED
    BY <1>2, <1>4, <2>1
<1>6. ASSUME NEW q \in hits PROVE \E i \in found : q = at[i]
  <2>1. PICK i \in 1..(n + 1) : q = at[i]
    BY <1>2
  <2>2. i # n + 1
    BY <1>2, <2>1
  <2>3. i \in 1..n
    BY <1>1, <2>2
  <2>4. i \in found
    BY <1>1, <1>4, <2>1, <2>3
  <2> QED
    BY <2>1, <2>4
<1>7. Find(text, id) =
        IF hits = {} THEN Null
        ELSE ElementAt(text, CHOOSE q \in hits : \A r \in hits : q <= r).value
  BY DEF Find
<1> HIDE DEF hits
<1>8. CASE found = {}
  <2>1. hits = {}
    BY <1>6, <1>8
  <2> QED
    BY <1>7, <1>8, <2>1
<1>9. CASE found # {}
  <2> DEFINE first == CHOOSE i \in found : \A j \in found : i <= j
             least == CHOOSE q \in hits : \A r \in hits : q <= r
  <2>1. first \in found /\ \A j \in found : first <= j
    <3>1. found \subseteq Nat
      BY <1>1
    <3> HIDE DEF found
    <3>2. \E i \in found : \A j \in found : i <= j
      BY <1>9, <3>1, LeastNumber
    <3> QED
      BY <3>2
  <2> HIDE DEF first
  <2>2. at[first] \in hits /\ first \in 1..n
    BY <1>5, <2>1
  <2> HIDE DEF found
  <2>3. ASSUME NEW r \in hits PROVE at[first] <= r /\ r \in Nat
    <3>1. PICK j \in found : r = at[j]
      BY <1>6
    <3>2. first <= j /\ j \in 1..n
      BY <1>5, <2>1
    <3>3. first \in 1..(n + 1) /\ j \in 1..(n + 1)
      BY <1>1, <2>2, <3>2
    <3>4. at[first] \in Nat /\ at[j] \in Nat
      BY <1>3, <3>3
    <3>5. first = j \/ first < j
      BY <3>2, <3>3
    <3> QED
      BY <1>3, <3>1, <3>3, <3>4, <3>5
  <2>4. least \in hits /\ \A r \in hits : least <= r
    BY <2>2, <2>3
  <2> HIDE DEF least
  <2>5. least = at[first]
    <3>1. least <= at[first] /\ at[first] <= least /\ least \in Nat /\ at[first] \in Nat
      BY <2>2, <2>3, <2>4
    <3> QED
      BY <3>1
  <2>6. Find(text, id) = ElementAt(text, least).value
    BY <1>7, <2>2 DEF least
  <2>7. list[first].value = ElementAt(text, at[first]).value
    BY <1>4, <2>2
  <2> QED
    BY <1>9, <2>5, <2>6, <2>7 DEF first, found
<1> QED
  BY <1>8, <1>9

(* A getter yields what the frame holds under the number of its text.      *)
LEMMA ElementLookup ==
  ASSUME DecoderInv, is_decoded, ~ Wraps, NEW digits, digits # <<>>
  PROVE  get_value(Element(digits)) = Find(Elements, element_number(digits))
<1>1. DOMAIN header = DOMAIN HeaderFields /\ DOMAIN fixed = DOMAIN FixedFields
  BY DEF DecoderInv, TypeInv, TypeOK
<1>2. Element(digits).name = "" /\ Element(digits).digits = digits
  BY DEF Element
<1>3. "" \notin DOMAIN header /\ "" \notin DOMAIN fixed
  BY <1>1 DEF HeaderFields, FixedFields
<1>4. get_value(Element(digits)) = get_ie(digits)
  BY <1>2, <1>3, Zenon DEF get_value
<1>5. IsBeacon /\ HasFixed
  BY DEF DecoderInv, DecodesExactly
<1>6. Elements \in Text /\ ies \in Seq([id : Octet, value : Text])
  BY <1>5, ElementsAre DEF DecoderInv, TypeInv
<1>7. PICK p \in Reading(Elements) : Yields(Elements, p, ies) /\ ~ Complete(Elements, p)
  BY DEF DecoderInv, DecodesExactly, DecodedUpTo
<1> DEFINE id == element_number(digits)
           found == {i \in DOMAIN ies : ies[i].id = id}
<1>8. Find(Elements, id) =
        IF found = {} THEN Null
        ELSE ies[CHOOSE i \in found : \A j \in found : i <= j].value
  <2> HIDE DEF id
  <2>1. \A set : set = {i \in DOMAIN ies : ies[i].id = id} =>
          Find(Elements, id) =
            IF set = {} THEN Null
            ELSE ies[CHOOSE i \in set : \A j \in set : i <= j].value
    BY <1>6, <1>7, FirstFound
  <2> QED
    BY <2>1, Zenon
<1>9. CASE ies = <<>>
  <2>1. get_ie(digits) = Null
    BY <1>9 DEF get_ie
  <2>2. found = {}
    BY <1>9
  <2> HIDE DEF found, id
  <2>3. Find(Elements, id) = Null
    BY <1>8, <2>2
  <2> QED
    BY <1>4, <2>1, <2>3 DEF id
<1>10. CASE ies # <<>>
  <2>1. get_ie(digits) = IF found = {} THEN Null
                         ELSE ies[CHOOSE i \in found : \A j \in found : i <= j].value
    BY <1>10, Zenon DEF get_ie, Nearest
  <2> HIDE DEF found, id
  <2> QED
    BY <1>4, <1>8, <2>1 DEF id
<1> QED
  BY <1>9, <1>10

(* A getter yields the value of the first element of the frame that has    *)
(* the number std::stoi makes of its text, or null if there is none, for   *)
(* every text and every frame that did not wrap, whatever the buffer holds *)
(* behind it.  What the digits of a text add up to plays no part here.     *)
THEOREM LookupTheorem == Spec => []LookupExact
<1>1. DecoderInv => LookupExact
  <2> SUFFICES ASSUME DecoderInv, is_decoded, ~ Wraps, NEW digits \in Lookups
               PROVE  get_value(Element(digits)) = Find(Elements, element_number(digits))
    BY DEF LookupExact
  <2>1. digits # <<>>
    BY DecoderAssumption
  <2> QED
    BY <2>1, ElementLookup
<1> QED
  BY <1>1, DecoderAlways, PTL

-----------------------------------------------------------------------------
(* Cuts of what was decoded                                                *)

(* The numbers that CutsAreSlices is about.                                *)
CutNumbers == {ies[i].value : i \in DOMAIN ies} \cup {fixed.capabilities_information, fixed.timestamp}

(* The fixed fields of a decoded body, and of one whose elements are being *)
(* decoded, were all read.                                                 *)
FixedInv ==
  pc = "elements" \/ is_decoded =>
    \A number \in {fixed.capabilities_information, fixed.timestamp} :
      number \in Text /\ number # <<>>

(* A fixed field inside the frame is a number of at least one byte.        *)
LEMMA FieldOfBuffer ==
  ASSUME TypeInv, NEW from \in Nat, NEW n \in Nat, n >= 1, from + n <= FixedSize
  PROVE  /\ from_buffer(Run(HeaderSize, from, n)) \in Text
         /\ from_buffer(Run(HeaderSize, from, n)) # <<>>
<1> DEFINE first == HeaderSize + from + 1
           last == HeaderSize + from + n
           run == Run(HeaderSize, from, n)
<1>1. raw_frame_buffer \in Text /\ Len(raw_frame_buffer) = Capacity
  BY BufferType
<1>2. first \in 1..(Capacity + 1) /\ last \in 0..Capacity /\ first <= last + 1 /\ last - first + 1 = n
  BY SizesType, DecoderAssumption DEF HeaderSize, FixedSize
<1>3. run = SubSeq(raw_frame_buffer, first, last)
  BY DEF Run
<1> HIDE DEF first, last, run
<1>4. run \in Text /\ Len(run) = n
  BY <1>1, <1>2, <1>3, Sliced
<1>5. Reverse(run) = [i \in 1..n |-> run[(n - i) + 1]]
  BY <1>4, Zenon DEF Reverse
<1>6. \A i \in 1..n : run[(n - i) + 1] \in Octet
  <2> SUFFICES ASSUME NEW i \in 1..n PROVE run[(n - i) + 1] \in Octet
    OBVIOUS
  <2>1. (n - i) + 1 \in 1..Len(run)
    BY <1>4
  <2> QED
    BY <1>4, <2>1, ByteOf
<1>7. Reverse(run) \in [1..n -> Octet]
  BY <1>5, <1>6
<1>8. Reverse(run) \in Text /\ Len(Reverse(run)) = n
  BY <1>7 DEF Text
<1> QED
  BY <1>8 DEF run, from_buffer

(* Every step keeps FixedInv: the fixed fields are read in one go before   *)
(* the element loop, or decode throws.                                     *)
LEMMA NextFixed ==
  ASSUME DecoderInv, FixedInv, [Next]_vars
  PROVE  FixedInv'
<1> USE DEF DecoderInv
<1>1. CASE UNCHANGED vars
  BY <1>1 DEF FixedInv, vars, frameVars, bodyVars
<1>2. CASE \E sent \in Sent : update_raw_data(sent)
  BY <1>2 DEF FixedInv, update_raw_data
<1>3. CASE decode_header
  BY <1>3 DEF FixedInv, LoopInv, decode_header
<1>4. CASE decode_fixed
  <2> SUFFICES ASSUME limit >= FixedSize
               PROVE  \A number \in {fixed'.capabilities_information, fixed'.timestamp} :
                        number \in Text /\ number # <<>>
    BY <1>4 DEF FixedInv, LoopInv, decode_fixed
  <2>1. fixed' = ReadFields(FixedFields, HeaderSize, limit, fixed)
    BY <1>4 DEF decode_fixed
  <2>2. limit \in Nat /\ 0 + 8 <= limit /\ 10 + 2 <= limit
    BY SizesType DEF TypeInv, TypeOK, FixedSize
  <2>3. /\ fixed'.timestamp = from_buffer(Run(HeaderSize, 0, 8))
        /\ fixed'.capabilities_information = from_buffer(Run(HeaderSize, 10, 2))
    BY <2>1, <2>2 DEF ReadFields, FixedFields
  <2>4. 0 + 8 <= FixedSize /\ 10 + 2 <= FixedSize
    BY DEF FixedSize
  <2> QED
    BY <2>3, <2>4, FieldOfBuffer
<1>5. CASE EndOfElements \/ add_ie \/ add_ie_throws \/ OutOfBuffer
  BY <1>5 DEF FixedInv, EndOfElements, add_ie, add_ie_throws, OutOfBuffer, LoopEntered, bodyVars
<1>6. CASE Rerun
  BY <1>6 DEF FixedInv, Rerun
<1> QED
  BY <1>1, <1>2, <1>3, <1>4, <1>5, <1>6 DEF Next, Decode

(* Cut_bit and Cut_byte of every decoded value are slices of its bits, for *)
(* every frame and every set of positions and sizes.                       *)
THEOREM CutsTheorem == Spec => []CutsAreSlices
<1>1. Init => FixedInv
  BY DEF Init, FixedInv
<1>2. DecoderInv /\ FixedInv => CutsAreSlices
  <2> SUFFICES ASSUME DecoderInv, FixedInv, is_decoded,
                      NEW number \in CutNumbers, NEW s \in Slices
               PROVE  LET slice == Cut_bit(Getter(number), s[1], s[2])
                      IN /\ Cut_byte(Getter(number), s[1], s[2])
                              = Cut_bit(Getter(number), 8 * s[1], 8 * s[2])
                         /\ IF s[1] + s[2] > 8 * Len(number)
                            THEN slice = Thrown
                            ELSE s[2] > 0 => IsSlice(from_hex_string(slice), number, s[1], s[2])
    BY DEF CutsAreSlices, CutNumbers
  <2>1. s[1] \in Nat /\ s[2] \in Nat
    BY DecoderAssumption
  <2>2. number \in Text /\ number # <<>>
    <3>1. CASE number \in {fixed.capabilities_information, fixed.timestamp}
      BY <3>1 DEF FixedInv
    <3>2. CASE number \in {ies[i].value : i \in DOMAIN ies}
      <4>1. PICK i \in DOMAIN ies : number = ies[i].value
        BY <3>2
      <4>2. ies \in Seq([id : Octet, value : Text]) /\ ies[i].value # <<>>
        BY DEF DecoderInv, TypeInv, TypeOK
      <4>3. ies[i] \in [id : Octet, value : Text]
        BY <4>2, LenProperties, ElementOfSeq
      <4> QED
        BY <4>1, <4>2, <4>3
    <3> QED
      BY <3>1, <3>2 DEF CutNumbers
  <2> QED
    BY <2>1, <2>2, CutsOfNumber
<1> QED
  BY <1>1, <1>2, NextFixed, DecoderAlways, PTL DEF Spec
=============================================================================
