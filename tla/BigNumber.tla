----------------------------- MODULE BigNumber -----------------------------
(***************************************************************************)
(* Big_number (big_number.cpp) and the nodes of the script that work on    *)
(* it: Getter, Cut_bit and Cut_byte (node.cpp, function_node.cpp).         *)
(*                                                                         *)
(* A number is Null or the sequence of its bytes, the most significant     *)
(* first; a string of hexadecimal digits is the sequence of the digits'    *)
(* values; Thrown stands for an exception.  Positions given to the cuts    *)
(* count from the least significant end.  Sums of two positions are taken  *)
(* to fit a size_t.                                                        *)
(***************************************************************************)
EXTENDS Integers, Sequences, SequencesExt

CONSTANTS Null, Thrown

Octet == 0..255     \* uint8_t

\* Null and Thrown are no numbers.
ASSUME NullAssumption == Null \notin Seq(Octet) /\ Thrown \notin Seq(Octet)

hex_string(number) ==
  IF number = Null
  THEN Thrown
  ELSE [d \in 1..(2 * Len(number)) |->
          LET byte == number[(d + 1) \div 2]
          IN IF d % 2 = 1 THEN byte \div 16 ELSE byte % 16]

\* Two digits per byte; a last digit without a partner is a byte of its own.  The
\* terminator that sprintf writes behind its buffer of two is taken to hit nothing.
from_hex_string(digits) ==
  IF digits = <<>>
  THEN Null
  ELSE [b \in 1..((Len(digits) + 1) \div 2) |->
          IF 2 * b <= Len(digits)
          THEN 16 * digits[2 * b - 1] + digits[2 * b]
          ELSE digits[2 * b - 1]]

\* The bytes are shifted as int: the sum is the number up to three bytes, and the
\* daemon converts numbers of one.
to_size_t(number) ==
  IF number = Null \/ Len(number) > 8
  THEN Thrown
  ELSE LET value[n \in 0..Len(number)] == IF n = 0 THEN 0 ELSE 256 * value[n - 1] + number[n]
       IN value[Len(number)]

\* The field of a frame: the first byte received is the least significant one.
from_buffer(bytes) == Reverse(bytes)
\* The value of an element: the first byte received is the most significant.
from_buffer_inv(bytes) == bytes

cut_byte(number, from, size) ==
  IF number = Null \/ from + size > Len(number)
  THEN Thrown
  ELSE IF size = 0
       THEN Null
       ELSE SubSeq(number, Len(number) - (from + size) + 1, Len(number) - from)

\* number >> count, byte by byte
ShiftRight(number, count) ==
  [b \in 1..Len(number) |->
     number[b] \div 2^count
       + (IF b = 1 THEN 0 ELSE (number[b - 1] % 2^count) * 2^(8 - count))]

\* Variant: the bytes in front of the slice are counted from its size alone.
ByteSize_short(from, size) == (size + 7) \div 8
\* byte_size: the bytes that a slice of bits touches
ByteSize(from, size) == (from + size + 7) \div 8 - from \div 8

cut_bit(number, from, size) ==
  IF number = Null \/ from + size > 8 * Len(number)
  THEN Thrown
  ELSE LET bytes == cut_byte(number, from \div 8, ByteSize(from, size))
           after == from % 8
           before == 8 * Len(bytes) - size - after
           cleared == [bytes EXCEPT ![1] = @ % 2^(8 - before)]
           shifted == ShiftRight(cleared, after)
       IN IF bytes = Null
          THEN Null
          ELSE IF before + after >= 8 THEN Tail(shifted) ELSE shifted

-----------------------------------------------------------------------------
(* The values of the nodes, as strings of digits                           *)

Getter(number) == IF number = Null THEN <<>> ELSE hex_string(number)

\* What a function of the script returns for the number its first argument
\* evaluates to, and the slice cut from it
Cut(number, slice) ==
  CASE number = Null -> <<>>
    [] number # Null /\ slice = Thrown -> Thrown
    [] OTHER -> hex_string(slice)

Cut_bit(argument, first_bit, cut_length) ==
  LET number == from_hex_string(argument)
  IN Cut(number, cut_bit(number, first_bit, cut_length))
Cut_byte(argument, first_byte, cut_length) ==
  LET number == from_hex_string(argument)
  IN Cut(number, cut_byte(number, first_byte, cut_length))

-----------------------------------------------------------------------------
(* What a cut means, bit by bit                                            *)

Bit(number, i) == (number[Len(number) - i \div 8] \div 2^(i % 8)) % 2

IsSlice(slice, number, from, size) ==
  /\ Len(slice) = (size + 7) \div 8
  /\ \A i \in 0..(8 * Len(slice) - 1) :
       Bit(slice, i) = IF i < size THEN Bit(number, from + i) ELSE 0
=============================================================================
