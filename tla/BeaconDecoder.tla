--------------------------- MODULE BeaconDecoder ---------------------------
(***************************************************************************)
(* Frame, Body, Beacon_body and Ie_node: from the bytes that in_buffer     *)
(* left in raw_frame_buffer to the fields the script reads.                *)
(*                                                                         *)
(* The layout is the real one (a header of 24 bytes, 12 bytes of fixed     *)
(* fields, elements, 4 bytes of frame check sequence); the buffer is cut   *)
(* down to the longest frame of the instance.  It keeps the bytes of       *)
(* longer, earlier frames behind the current one, and what new[] left      *)
(* there in the beginning.  The element list of a body that is being       *)
(* built is kept in ies, is_decoded tells whether body points at it.       *)
(***************************************************************************)
EXTENDS BigNumber

CONSTANTS
  Bytes,        \* values of the bytes of elements, and of fresh memory
  MaxArea,      \* bound: bytes of the element area
  Trailers,     \* lengths of the check sequence the driver leaves at the end
  Controls,     \* first bytes of a frame (frame control)
  ShortSizes,   \* lengths of frames cut off before their elements
  Slices,       \* <<from, size>> arguments of Cut_bit and Cut_byte
  Lookups,      \* texts of getters, as sequences of digits
  WordSize      \* number of values of a size_t

ASSUME DecoderAssumption ==
  /\ Bytes \subseteq Octet /\ Controls \subseteq Octet /\ Bytes # {}
  /\ Trailers \subseteq 0..4 /\ ShortSizes \subseteq 0..39
  /\ MaxArea \in Nat /\ Slices \subseteq Nat \X Nat /\ <<>> \notin Lookups
  /\ WordSize \in Nat /\ WordSize > 48 + MaxArea + 255
\* At most seven digits: std::stoi throws behind INT_MAX.
ASSUME LookupAssumption == \A digits \in Lookups : Len(digits) <= 7

VARIABLES
  raw_frame_buffer, raw_frame_size, is_decoded,
  header,       \* the header fields of Frame
  fixed,        \* the fixed fields of the body
  ies,          \* its elements: [id, value]
  limit,        \* its _raw_buffer_size
  cursor,       \* in the loop of Beacon_body::decode
  pc,           \* "poll", "header", "fixed", "elements" or "thrown"
  area          \* history: the elements the access point sent in this frame

frameVars == <<raw_frame_buffer, raw_frame_size, header, area>>
bodyVars == <<fixed, ies, limit, cursor>>
vars == <<frameVars, bodyVars, is_decoded, pc>>

HeaderSize == 24
FixedSize == 12
FcsSize == 4
Capacity == HeaderSize + FixedSize + MaxArea + FcsSize   \* FRAME_MAX_LENGTH

\* name |-> <<first byte, bytes>>
HeaderFields == [frame_control |-> <<0, 2>>, duration |-> <<2, 2>>,
                 destination_address |-> <<4, 6>>, source_address |-> <<10, 6>>,
                 bssid |-> <<16, 6>>, sequence_control |-> <<22, 2>>]
FixedFields == [timestamp |-> <<0, 8>>, beacon_interval |-> <<8, 2>>,
                capabilities_information |-> <<10, 2>>]

\* What is on the air: the fields are distinct bytes, the elements anything.
Fields(control) == <<control>> \o [i \in 1..(HeaderSize + FixedSize - 1) |-> 100 + i]
Fcs(n) == [i \in 1..n |-> 1]
Areas == UNION {[1..n -> Bytes] : n \in 0..MaxArea}
WholeFrames ==
  {[frame |-> Fields(128) \o a \o Fcs(n), area |-> a] : a \in Areas, n \in Trailers}
EmptyFrames == {[frame |-> Fields(c) \o Fcs(FcsSize), area |-> <<>>] : c \in Controls}
ShortFrames ==
  {[frame |-> SubSeq(Fields(128) \o Fcs(FcsSize), 1, n), area |-> <<>>] : n \in ShortSizes}
Sent == WholeFrames \cup EmptyFrames \cup ShortFrames

Fresh == {[i \in 1..Capacity |-> b] : b \in Bytes}
NoFields(layout) == [name \in DOMAIN layout |-> <<>>]

Init ==
  /\ raw_frame_buffer \in Fresh /\ raw_frame_size = 0 /\ is_decoded = FALSE
  /\ header = NoFields(HeaderFields) /\ fixed = NoFields(FixedFields)
  /\ ies = <<>> /\ limit = 0 /\ cursor = 0
  /\ pc = "poll" /\ area = <<>>

-----------------------------------------------------------------------------
\* in_buffer overwrites the front of the buffer.
update_raw_data(sent) ==
  /\ pc = "poll"
  /\ raw_frame_buffer' =
       sent.frame \o SubSeq(raw_frame_buffer, Len(sent.frame) + 1, Capacity)
  /\ raw_frame_size' = Len(sent.frame)
  /\ is_decoded' = FALSE
  /\ area' = sent.area
  /\ pc' = "header"
  /\ UNCHANGED <<header, bodyVars>>

\* Byte n, counted from 0, of the part of the buffer that begins at base
Byte(base, n) == raw_frame_buffer[base + n + 1]
Run(base, from, n) == SubSeq(raw_frame_buffer, base + from + 1, base + from + n)

\* The fields up to the first that does not fit; the others keep their value.
ReadFields(layout, base, size, old) ==
  [name \in DOMAIN layout |->
     LET at == layout[name]
     IN IF at[1] + at[2] <= size THEN from_buffer(Run(base, at[1], at[2])) ELSE old[name]]

\* type and sub_type of Frame::decode
Kind(control) ==
  <<to_size_t(cut_bit(control, 2, 2)), to_size_t(cut_bit(control, 4, 4))>>
Management == 0
Beacon == 8

\* The size that get_body is given, wrapped around below zero
BodySize == (raw_frame_size - HeaderSize - FcsSize) % WordSize

\* Frame::decode up to get_body, and Body's constructor
decode_header ==
  LET read == ReadFields(HeaderFields, 0, raw_frame_size, header)
      beacon == /\ raw_frame_size >= HeaderSize
                /\ Kind(read.frame_control) = <<Management, Beacon>>
                /\ BodySize >= 1
  IN
  /\ pc = "header"
  /\ header' = read
  /\ \/ /\ beacon
        /\ pc' = "fixed" /\ limit' = BodySize /\ ies' = <<>>
        /\ fixed' = NoFields(FixedFields)
     \/ /\ ~ beacon
        /\ pc' = "thrown"
        /\ UNCHANGED <<limit, ies, fixed>>
  /\ UNCHANGED <<raw_frame_buffer, raw_frame_size, area, is_decoded, cursor>>

\* Beacon_body::decode before its loop
decode_fixed ==
  /\ pc = "fixed"
  /\ fixed' = ReadFields(FixedFields, HeaderSize, limit, fixed)
  /\ cursor' = FixedSize
  /\ pc' = IF limit >= FixedSize THEN "elements" ELSE "thrown"
  /\ UNCHANGED <<frameVars, is_decoded, ies, limit>>

-----------------------------------------------------------------------------
(* One turn of the element loop                                            *)

Inside(n) == HeaderSize + n < Capacity
element_id == Byte(HeaderSize, cursor)
element_length == Byte(HeaderSize, cursor + 1)
LoopEntered == pc = "elements" /\ cursor < limit

NextElement == cursor + 2 + element_length
\* Variants: the first test of the loop is missing; the second is.
Stops_empty == element_length + cursor >= limit
Stops_overflow == element_length = 0
\* An empty element ends the list, so does one that leaves the body.
Stops == element_length = 0 \/ element_length + cursor >= limit

EndOfElements ==
  /\ pc = "elements"
  /\ \/ cursor >= limit
     \/ cursor < limit /\ Inside(cursor + 1) /\ Stops
  /\ is_decoded' = TRUE
  /\ pc' = "poll"
  /\ UNCHANGED <<frameVars, bodyVars>>

\* Variant: new elements are put in front.
Added_front(element) == <<element>> \o ies
\* Ie_node::add goes to the end of the list.
Added(element) == Append(ies, element)

add_ie ==
  /\ LoopEntered /\ Inside(cursor + 1) /\ ~ Stops
  /\ NextElement <= limit /\ Inside(NextElement - 1)
  /\ ies' = Added([id |-> element_id,
                   value |-> from_buffer_inv(Run(HeaderSize, cursor + 2, element_length))])
  /\ cursor' = NextElement
  /\ UNCHANGED <<frameVars, is_decoded, fixed, limit, pc>>

\* add_ie throws: the test of the loop forgets the element's own two bytes.
add_ie_throws ==
  /\ LoopEntered /\ Inside(cursor + 1) /\ ~ Stops
  /\ NextElement > limit
  /\ pc' = "thrown"
  /\ UNCHANGED <<frameVars, bodyVars, is_decoded>>

\* A size that wrapped around: the loop runs out of the buffer.  It ends at
\* some zero behind it or the process does.
OutOfBuffer ==
  /\ LoopEntered
  /\ ~ (/\ Inside(cursor + 1)
        /\ Stops \/ NextElement > limit \/ Inside(NextElement - 1))
  /\ \/ is_decoded' = TRUE /\ pc' = "poll"
     \/ pc' = "thrown" /\ UNCHANGED is_decoded
  /\ UNCHANGED <<frameVars, bodyVars>>

\* run() deletes the frame and makes a new one, or the process is new.
Rerun ==
  /\ pc = "thrown"
  /\ raw_frame_buffer' \in Fresh /\ raw_frame_size' = 0 /\ is_decoded' = FALSE
  /\ header' = NoFields(HeaderFields) /\ fixed' = NoFields(FixedFields)
  /\ ies' = <<>> /\ limit' = 0 /\ cursor' = 0
  /\ pc' = "poll" /\ area' = <<>>

Decode ==
  \/ decode_header \/ decode_fixed \/ EndOfElements \/ add_ie \/ add_ie_throws
  \/ OutOfBuffer \/ Rerun
Next == Decode \/ \E sent \in Sent : update_raw_data(sent)
Spec == Init /\ [][Next]_vars

-----------------------------------------------------------------------------
(* get_value of Frame, Beacon_body and Ie_node.  A field is one of the     *)
(* names, or a text of hexadecimal digits (name "").                       *)

Element(digits) == [name |-> "", digits |-> digits]

\* std::stoi in base 16, stored in a uint8_t
element_number(digits) == FoldLeft(LAMBDA n, d : 16 * n + d, 0, digits) % 256

\* Variant: the end of the list is asked first.
Nearest_last(found) == CHOOSE i \in found : \A j \in found : j <= i
\* An element answers before the ones behind it.
Nearest(found) == CHOOSE i \in found : \A j \in found : i <= j

get_ie(digits) ==
  LET found == {i \in DOMAIN ies : ies[i].id = element_number(digits)}
  IN CASE ies = <<>> -> Null
       [] ies # <<>> /\ digits = <<>> -> Thrown      \* std::stoi("")
       [] OTHER -> IF found = {} THEN Null ELSE ies[Nearest(found)].value

get_value(field) ==
  IF ~ is_decoded
  THEN Thrown
  ELSE CASE field.name \in DOMAIN header -> header[field.name]
         [] field.name = "frame_check_sum" -> from_buffer(Run(raw_frame_size, -FcsSize, FcsSize))
         [] field.name \in DOMAIN fixed -> fixed[field.name]
         [] field.name = "" -> get_ie(field.digits)
         [] OTHER -> Null

-----------------------------------------------------------------------------
(* A reference reading of the frame                                        *)

\* A frame so short that BodySize wraps around: the decoder reads the bytes
\* of earlier frames as its body.
Wraps == raw_frame_size \in HeaderSize..(HeaderSize + FcsSize - 1)

IsBeacon == raw_frame_size >= HeaderSize /\ (raw_frame_buffer[1] \div 4) % 64 = 32
HasFixed == raw_frame_size >= HeaderSize + FixedSize + FcsSize
Elements == SubSeq(raw_frame_buffer, HeaderSize + FixedSize + 1, raw_frame_size - FcsSize)

\* An element of at least one byte begins at p; so does one whose last byte is
\* missing.
Complete(text, p) == p + 2 <= Len(text) /\ text[p + 1] \in 1..(Len(text) - p - 1)
OneShort(text, p) == p + 1 <= Len(text) /\ text[p + 1] = Len(text) - p

Follows(text, p) == p + 2 + text[p + 1]
ElementAt(text, p) ==
  [id |-> text[p], value |-> SubSeq(text, p + 2, Follows(text, p) - 1)]

\* The positions that are reached from the front of text by stepping over its
\* elements; there is one such set.
IsReading(positions, text) ==
  /\ 1 \in positions
  /\ \A p \in positions : Complete(text, p) => Follows(text, p) \in positions
  /\ \A p \in positions \ {1} :
       \E q \in positions : Complete(text, q) /\ p = Follows(text, q)
Reading(text) ==
  CHOOSE positions \in SUBSET (1..(Len(text) + 1)) : IsReading(positions, text)

\* The value of the first element number id of text
Find(text, id) ==
  LET hits == {p \in Reading(text) : Complete(text, p) /\ text[p] = id}
  IN IF hits = {} THEN Null
     ELSE ElementAt(text, CHOOSE p \in hits : \A q \in hits : p <= q).value

\* text is a run of complete elements.
WellFormed(text) == Len(text) + 1 \in Reading(text)

\* list holds the elements of text that stand before position p.
Yields(text, p, list) ==
  \E at \in [1..(Len(list) + 1) -> Reading(text)] :
    /\ at[1] = 1 /\ at[Len(list) + 1] = p
    /\ \A i \in DOMAIN list : /\ Complete(text, at[i])
                              /\ list[i] = ElementAt(text, at[i])
                              /\ at[i + 1] = Follows(text, at[i])
DecodedUpTo(text, p) == Yields(text, p, ies)

-----------------------------------------------------------------------------
(* Properties                                                              *)

\* The type of the state; the cursor is inside the body's size while elements
\* are read.
TypeOK ==
  /\ raw_frame_buffer \in [1..Capacity -> Octet] /\ raw_frame_size \in 0..Capacity
  /\ is_decoded \in BOOLEAN
  /\ DOMAIN header = DOMAIN HeaderFields /\ DOMAIN fixed = DOMAIN FixedFields
  /\ pc \in {"poll", "header", "fixed", "elements", "thrown"}
  /\ limit \in 0..(WordSize - 1)
  /\ pc = "elements" => cursor <= limit
  /\ \A i \in DOMAIN ies : ies[i].id \in Octet /\ ies[i].value # <<>>

\* Exactly the beacon frames are decoded, into exactly the elements in front of
\* the first that is empty or incomplete, whatever earlier frames left behind
\* in the buffer; decode throws for nothing but other frames, frames without
\* room for the fixed fields, and an element whose last byte is missing.
DecodesExactly ==
  ~ Wraps =>
    /\ is_decoded =>
         /\ IsBeacon /\ HasFixed
         /\ \E p \in Reading(Elements) :
              DecodedUpTo(Elements, p) /\ ~ Complete(Elements, p) /\ ~ OneShort(Elements, p)
    /\ pc = "thrown" =>
         \/ ~ IsBeacon \/ ~ HasFixed
         \/ \E p \in Reading(Elements) : DecodedUpTo(Elements, p) /\ OneShort(Elements, p)

\* A getter yields the value of the first element of the frame itself that has
\* the number std::stoi makes of its text, or null if the frame has none, whatever
\* list an earlier frame left.
LookupExact ==
  is_decoded /\ ~ Wraps =>
    \A digits \in Lookups :
      get_value(Element(digits)) = Find(Elements, element_number(digits))

\* A getter yields the value of the first element with the number its text says
\* in the standard's decimal notation, as the getters of code.txt are written.
Decimal(digits) == FoldLeft(LAMBDA n, d : 10 * n + d, 0, digits)
LookupDecimal ==
  is_decoded /\ ~ Wraps =>
    \A digits \in Lookups : get_value(Element(digits)) = Find(Elements, Decimal(digits))

\* Cut_bit of a decoded value is the slice of its bits, counted from the last
\* byte received, through both conversions of the hexadecimal text and at every
\* alignment; Cut_byte is Cut_bit of whole bytes, and both throw beyond the
\* value's end.
CutsAreSlices ==
  is_decoded =>
    \A number \in {ies[i].value : i \in DOMAIN ies}
                     \cup {fixed.capabilities_information, fixed.timestamp} :
      \A s \in Slices :
        LET slice == Cut_bit(Getter(number), s[1], s[2])
        IN /\ Cut_byte(Getter(number), s[1], s[2])
                = Cut_bit(Getter(number), 8 * s[1], 8 * s[2])
           /\ IF s[1] + s[2] > 8 * Len(number)
              THEN slice = Thrown
              ELSE s[2] > 0 => IsSlice(from_hex_string(slice), number, s[1], s[2])

\* A beacon made of complete elements is decoded into exactly the elements that
\* the access point sent: none is taken for the check sequence, or the check
\* sequence for one.
AllElementsDecoded ==
  pc \in {"poll", "thrown"} /\ area # <<>> /\ WellFormed(area) =>
    is_decoded /\ DecodedUpTo(area, Len(area) + 1)
=============================================================================
