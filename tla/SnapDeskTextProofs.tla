------------------------- MODULE SnapDeskTextProofs -------------------------
(***************************************************************************)
(* What the daemon reads from and writes to the text of a storage file,    *)
(* for every text, output and date: the header's columns are found where   *)
(* they are, a key's row is the row with that key, and adding, refreshing  *)
(* and cutting off rows leaves a well-formed text.                         *)
(***************************************************************************)
EXTENDS SnapDesk, FiniteSetTheorems, SequenceTheorems, TLAPS

(* The outputs these theorems are about: one piece, neither empty nor a    *)
(* date, that is without a delimiter; the header's names differ; a store   *)
(* has fewer rows than a size_t counts.                                    *)
PlainOutputs ==
  /\ \A o \in Outputs : o = <<o[1]>> /\ o[1] \notin Nat \cup {Empty}
  /\ Empty \notin Nat
  /\ COutput # Empty /\ COutput # CCreation /\ COutput # CLast
  /\ CCreation # CLast
  /\ IsFiniteSet(Outputs) /\ Cardinality(Outputs) <= NotFound

(* A line of a storage file: three cells and what is behind the last       *)
(* delimiter.                                                              *)
Line(a, b, c) == <<a, b, c, Empty>>
Lines ==
  {Line(COutput, CCreation, CLast)} \cup
  {Line(o[1], c, d) : o \in Outputs, c \in Nat, d \in Nat}

(* A row of store f: the output of a processed beacon of the store's SSID, *)
(* and two dates, in any order.                                            *)
RowFor(f, row, pairs) ==
  \E o \in Outputs : \E c, d \in Nat :
    /\ row = Line(o[1], c, d)
    /\ <<Ssid(f), o>> \in pairs

(* The text of store f: empty, or the header and rows with different keys. *)
Good(f, text, pairs) ==
  /\ text \in Seq(Lines)
  /\ Len(text) > 0 => text[1] = Line(COutput, CCreation, CLast)
  /\ \A i \in 2..Len(text) : RowFor(f, text[i], pairs)
  /\ \A i, j \in 2..Len(text) : text[i][1] = text[j][1] => i = j

-----------------------------------------------------------------------------
(* Strings as sequences of pieces                                         *)

(* Appending a piece keeps what is there and puts the piece behind it.     *)
LEMMA AppendCell ==
  ASSUME NEW S, NEW s \in Seq(S), NEW x \in S, NEW t, t = s \o <<x>>
  PROVE  /\ t \in Seq(S)
         /\ Len(t) = Len(s) + 1
         /\ \A i \in 1..Len(s) : t[i] = s[i]
         /\ t[Len(s) + 1] = x
  BY AppendProperties, AppendIsConcat

(* The concatenation of four pieces has these pieces in this order.        *)
LEMMA FourCells ==
  ASSUME NEW a, NEW b, NEW c, NEW d
  PROVE  ((<<a>> \o <<b>>) \o <<c>>) \o <<d>> = <<a, b, c, d>>
<1> DEFINE S == {a, b, c, d}
<1>1. b \in S /\ c \in S /\ d \in S
  OBVIOUS
<1>2. PICK s1 : s1 = <<a>>
  OBVIOUS
<1>3. s1 \in Seq(S) /\ Len(s1) = 1 /\ s1[1] = a
  BY <1>2
<1> HIDE DEF S
<1>4. PICK s2 : s2 = s1 \o <<b>>
  OBVIOUS
<1>5. s2 \in Seq(S) /\ Len(s2) = 2 /\ s2[1] = a /\ s2[2] = b
  <2>1. /\ s2 \in Seq(S) /\ Len(s2) = Len(s1) + 1
        /\ \A i \in 1..Len(s1) : s2[i] = s1[i]
        /\ s2[Len(s1) + 1] = b
    BY <1>1, <1>3, <1>4, AppendCell
  <2> QED
    BY <1>3, <2>1
<1>6. PICK s3 : s3 = s2 \o <<c>>
  OBVIOUS
<1>7. s3 \in Seq(S) /\ Len(s3) = 3 /\ s3[1] = a /\ s3[2] = b /\ s3[3] = c
  <2>1. /\ s3 \in Seq(S) /\ Len(s3) = Len(s2) + 1
        /\ \A i \in 1..Len(s2) : s3[i] = s2[i]
        /\ s3[Len(s2) + 1] = c
    BY <1>1, <1>5, <1>6, AppendCell
  <2> QED
    BY <1>5, <2>1
<1>8. PICK s4 : s4 = s3 \o <<d>>
  OBVIOUS
<1>9. s4 \in Seq(S) /\ Len(s4) = 4
      /\ s4[1] = a /\ s4[2] = b /\ s4[3] = c /\ s4[4] = d
  <2>1. /\ s4 \in Seq(S) /\ Len(s4) = Len(s3) + 1
        /\ \A i \in 1..Len(s3) : s4[i] = s3[i]
        /\ s4[Len(s3) + 1] = d
    BY <1>1, <1>7, <1>8, AppendCell
  <2> QED
    BY <1>7, <2>1
<1>10. s4 = <<a, b, c, d>>
  BY <1>9
<1> QED
  BY <1>2, <1>4, <1>6, <1>8, <1>10

(* Csv::values_to_line writes three one-piece values as a line.            *)
LEMMA LineOfValues ==
  ASSUME NEW a, NEW b, NEW c
  PROVE  values_to_line(<<<<a>>, <<b>>, <<c>>>>) = Line(a, b, c)
BY FourCells DEF values_to_line, Line, EmptyString

(* Csv::create's header is the line of the column names.                   *)
LEMMA HeaderIsLine == HeaderLine = Line(COutput, CCreation, CLast)
  BY LineOfValues DEF HeaderLine, COLUMN_NAMES

(* Dropping n cells of a line leaves its n-th cell in front, or what is    *)
(* behind the last delimiter.                                              *)
LEMMA CellsOfLine ==
  ASSUME NEW a, NEW b, NEW c, NEW n \in Nat
  PROVE  /\ n = 0 => DropCells(Line(a, b, c), n)[1] = a
         /\ n = 1 => DropCells(Line(a, b, c), n)[1] = b
         /\ n = 2 => DropCells(Line(a, b, c), n)[1] = c
         /\ n >= 3 => DropCells(Line(a, b, c), n)[1] = Empty
<1> DEFINE S == {a, b, c, Empty}
<1>1. Line(a, b, c) \in Seq(S) /\ Len(Line(a, b, c)) = 4
  BY DEF Line
<1>2. CASE n = 0
  <2>1. DropCells(Line(a, b, c), n) = SubSeq(Line(a, b, c), 1, 4)
    BY <1>1, <1>2 DEF DropCells
  <2> QED
    BY <1>1, <1>2, <2>1 DEF Line
<1>3. CASE n = 1
  <2>1. DropCells(Line(a, b, c), n) = SubSeq(Line(a, b, c), 2, 4)
    BY <1>1, <1>3 DEF DropCells
  <2> QED
    BY <1>1, <1>3, <2>1 DEF Line
<1>4. CASE n = 2
  <2>1. DropCells(Line(a, b, c), n) = SubSeq(Line(a, b, c), 3, 4)
    BY <1>1, <1>4 DEF DropCells
  <2> QED
    BY <1>1, <1>4, <2>1 DEF Line
<1>5. CASE n >= 3
  <2>1. DropCells(Line(a, b, c), n) = SubSeq(Line(a, b, c), 4, 4)
    BY <1>1, <1>5 DEF DropCells
  <2> QED
    BY <1>1, <1>5, <2>1 DEF Line
<1> QED
  BY <1>2, <1>3, <1>4, <1>5

(* Csv::get_cell_from_row returns the first two cells of a line when they  *)
(* are not empty, and no other column yields the first one.                *)
LEMMA CellOfLine ==
  ASSUME NEW a, NEW b, NEW c, NEW n \in Nat
  PROVE  /\ n = 0 /\ a # Empty => get_cell_from_row(Line(a, b, c), n) = <<a>>
         /\ n = 1 /\ b # Empty => get_cell_from_row(Line(a, b, c), n) = <<b>>
         /\ n >= 1 => get_cell_from_row(Line(a, b, c), n)[1] \in {b, c, Empty}
<1>1. DropCells(Line(a, b, c), n)[1] # Empty
      => get_cell_from_row(Line(a, b, c), n) = <<DropCells(Line(a, b, c), n)[1]>>
  BY DEF get_cell_from_row
<1>2. get_cell_from_row(Line(a, b, c), n)[1] = DropCells(Line(a, b, c), n)[1]
  BY DEF get_cell_from_row
<1> QED
  BY <1>1, <1>2, CellsOfLine

(* A row of a well-formed text is the line of an output and two dates.     *)
LEMMA RowIsLine ==
  ASSUME NEW f, NEW text, NEW pairs, Good(f, text, pairs),
         NEW i \in 2..Len(text)
  PROVE  \E o \in Outputs, c \in Nat, d \in Nat : text[i] = Line(o[1], c, d)
<1>1. RowFor(f, text[i], pairs)
  BY DEF Good
<1> QED
  BY <1>1 DEF RowFor

-----------------------------------------------------------------------------
(* Reading                                                                 *)

(* Csv::get_column_position_from_header finds the two names the daemon     *)
(* asks for at their positions.                                            *)
LEMMA ColumnOfHeader ==
  ASSUME PlainOutputs
  PROVE  LET header == Line(COutput, CCreation, CLast)
         IN  /\ get_column_position_from_header(header, 3, <<COutput>>) = 0
             /\ get_column_position_from_header(header, 3, <<CCreation>>) = 1
<1> DEFINE header == Line(COutput, CCreation, CLast)
           hits(name) == {i \in 0..(3 - 1) : <<DropCells(header, i)[1]>> = name}
<1>1. /\ DropCells(header, 0)[1] = COutput
      /\ DropCells(header, 1)[1] = CCreation
      /\ DropCells(header, 2)[1] = CLast
  BY CellsOfLine
<1>2. hits(<<COutput>>) = {0} /\ hits(<<CCreation>>) = {1}
  BY <1>1 DEF PlainOutputs
<1>3. \A name, k : hits(name) = {k} /\ k \in Nat
        => get_column_position_from_header(header, 3, name) = k
  BY DEF get_column_position_from_header
<1> QED
  BY <1>2, <1>3

(* No column has a name in a file without a header.                        *)
LEMMA ColumnOfNothing ==
  ASSUME PlainOutputs, NEW n \in Nat
  PROVE  get_column_position_from_header(EmptyString, n, <<COutput>>) = NotFound
<1>1. \A i \in 0..(n - 1) : DropCells(EmptyString, i)[1] = Empty
  <2> SUFFICES ASSUME NEW i \in 0..(n - 1)
               PROVE  DropCells(EmptyString, i)[1] = Empty
    OBVIOUS
  <2>1. DropCells(EmptyString, i) = SubSeq(<<Empty>>, 1, 1)
    BY DEF DropCells, EmptyString
  <2> QED
    BY <2>1
<1> QED
  BY <1>1 DEF get_column_position_from_header, PlainOutputs

(* When the output column is found, the file has its header, so that the   *)
(* columns' numbers are the ones of the header.                            *)
LEMMA ColumnOfGood ==
  ASSUME PlainOutputs,
         NEW f, NEW text, NEW pairs, Good(f, text, pairs),
         get_column_number(text, 3, <<COutput>>) < 3
  PROVE  /\ Len(text) > 0
         /\ get_column_number(text, 3, <<COutput>>) = 0
         /\ get_column_number(text, 3, <<CCreation>>) = 1
<1>1. Len(text) \in Nat
  BY DEF Good
<1>2. ASSUME Len(text) = 0 PROVE FALSE
  <2>1. get_line(text, 0) = EmptyString
    BY <1>2 DEF get_line
  <2>2. get_column_number(text, 3, <<COutput>>) = NotFound
    BY <2>1, ColumnOfNothing DEF get_column_number
  <2> QED
    BY <2>2, WordAssumption
<1>3. get_line(text, 0) = Line(COutput, CCreation, CLast)
  BY <1>1, <1>2 DEF get_line, Good
<1> QED
  BY <1>1, <1>2, <1>3, ColumnOfHeader DEF get_column_number

(* The rows of a text are its lines behind the header.                     *)
LEMMA RowsOfText ==
  ASSUME NEW f, NEW text, NEW pairs, Good(f, text, pairs)
  PROVE  /\ DOMAIN Rows(text) = {i - 1 : i \in 2..Len(text)}
         /\ \A i \in 2..Len(text) : Rows(text)[i - 1] = text[i]
<1>1. text \in Seq(Lines) /\ Len(text) \in Nat
  BY DEF Good
<1>2. Rows(text) = SubSeq(text, 2, Len(text))
  BY DEF Rows, HEADER_SIZE
<1>3. /\ Len(Rows(text)) = IF 2 <= Len(text) THEN Len(text) - 1 ELSE 0
      /\ DOMAIN Rows(text) = 1..Len(Rows(text))
      /\ \A i \in 1..(Len(text) - 1) : Rows(text)[i] = text[i + 1]
  BY <1>1, <1>2
<1> QED
  BY <1>1, <1>3

(* Row i is line i + 1, for every i.                                       *)
LEMMA RowIndex ==
  ASSUME NEW f, NEW text, NEW pairs, Good(f, text, pairs),
         NEW i \in DOMAIN Rows(text)
  PROVE  i \in Int /\ i + 1 \in 2..Len(text) /\ Rows(text)[i] = text[i + 1]
<1>1. Len(text) \in Nat
  BY DEF Good
<1>2. PICK k \in 2..Len(text) : i = k - 1
  BY RowsOfText
<1>3. Rows(text)[k - 1] = text[k]
  BY RowsOfText
<1> QED
  BY <1>1, <1>2, <1>3

(* A cell that equals an output is the key of its row: dates and what is   *)
(* behind the last delimiter are no outputs, whatever key column an        *)
(* uninitialised size_t gives.                                             *)
LEMMA CellOfRow ==
  ASSUME PlainOutputs,
         NEW f, NEW text, NEW pairs, Good(f, text, pairs),
         NEW i \in 2..Len(text), NEW key \in Nat, NEW o \in Outputs,
         get_cell_from_row(text[i], key) = o
  PROVE  key = 0 /\ text[i][1] = o[1]
<1>1. PICK p \in Outputs, c \in Nat, d \in Nat : text[i] = Line(p[1], c, d)
  BY RowIsLine
<1>2. text[i][1] = p[1]
  BY <1>1 DEF Line
<1>3. o[1] \notin Nat \cup {Empty} /\ p[1] # Empty
  BY DEF PlainOutputs
<1>4. CASE key = 0
  <2>1. get_cell_from_row(text[i], key) = <<p[1]>>
    BY <1>1, <1>3, <1>4, CellOfLine
  <2> QED
    BY <1>2, <1>4, <2>1
<1>5. CASE key >= 1
  BY <1>1, <1>3, <1>5, CellOfLine
<1> QED
  BY <1>4, <1>5

(* Reading column 0 of a row gives its key.                                *)
LEMMA KeyOfRow ==
  ASSUME PlainOutputs,
         NEW f, NEW text, NEW pairs, Good(f, text, pairs),
         NEW i \in 2..Len(text), NEW o \in Outputs, text[i][1] = o[1]
  PROVE  get_cell_from_row(text[i], 0) = o
<1>1. PICK p \in Outputs, c \in Nat, d \in Nat : text[i] = Line(p[1], c, d)
  BY RowIsLine
<1>2. text[i][1] = p[1]
  BY <1>1 DEF Line
<1>3. p[1] # Empty /\ o = <<o[1]>>
  BY DEF PlainOutputs
<1> QED
  BY <1>1, <1>2, <1>3, CellOfLine

(* When get_all_keys_with_value finds no row with an output, no row has    *)
(* the output as its key.                                                  *)
LEMMA UnknownIsNew ==
  ASSUME PlainOutputs,
         NEW f, NEW text, NEW pairs, Good(f, text, pairs),
         NEW o \in Outputs, RowsWithValue(text, 0, o) = {}
  PROVE  \A i \in 2..Len(text) : text[i][1] # o[1]
<1> SUFFICES ASSUME NEW i \in 2..Len(text), text[i][1] = o[1]
             PROVE  FALSE
  OBVIOUS
<1>1. get_cell_from_row(text[i], 0) = o
  BY KeyOfRow
<1>2. i - 1 \in DOMAIN Rows(text) /\ Rows(text)[i - 1] = text[i]
  BY RowsOfText
<1> QED
  BY <1>1, <1>2 DEF RowsWithValue

(* The position that Csv::get_key_position returns is the one of the row   *)
(* with the key, whatever key column the metadata file gave.               *)
LEMMA KeyPosition ==
  ASSUME PlainOutputs,
         NEW f, NEW text, NEW pairs, Good(f, text, pairs),
         NEW key \in Nat, NEW o \in Outputs,
         get_key_position(text, key, o) # NotFound
  PROVE  \E i \in 2..Len(text) :
           text[i][1] = o[1] /\ get_key_position(text, key, o) = i - 2
<1> DEFINE hits == {i \in DOMAIN Rows(text) :
                      get_cell_from_row(Rows(text)[i], key) = o}
<1>1. hits # {}
  BY DEF get_key_position
<1>2. PICK k \in hits : TRUE
  BY <1>1
<1>3. PICK i \in 2..Len(text) : k = i - 1
  BY <1>2, RowsOfText
<1>4. \A j \in hits : \E m \in 2..Len(text) : j = m - 1 /\ text[m][1] = o[1]
  <2> SUFFICES ASSUME NEW j \in hits
               PROVE  \E m \in 2..Len(text) : j = m - 1 /\ text[m][1] = o[1]
    OBVIOUS
  <2>1. PICK m \in 2..Len(text) : j = m - 1
    BY RowsOfText
  <2>2. get_cell_from_row(text[m], key) = o
    BY <2>1, RowsOfText
  <2> QED
    BY <2>1, <2>2, CellOfRow
<1>5. text[i][1] = o[1]
  BY <1>3, <1>4
<1>6. hits = {k}
  <2> SUFFICES ASSUME NEW j \in hits PROVE j = k
    BY <1>2
  <2>1. PICK m \in 2..Len(text) : j = m - 1 /\ text[m][1] = o[1]
    BY <1>4
  <2> QED
    BY <1>3, <1>5, <2>1 DEF Good
<1>7. get_key_position(text, key, o) = k - 1
  <2>1. k \in Int
    BY <1>3
  <2> HIDE DEF hits
  <2>2. (CHOOSE x \in hits : \A j \in hits : x <= j) = k
    BY <1>6, <2>1
  <2> QED
    BY <1>6, <2>2 DEF get_key_position, hits
<1> QED
  BY <1>3, <1>5, <1>7

(* Keys are outputs and differ, so the rows of a text can be counted by a  *)
(* size_t.                                                                 *)
LEMMA LengthBound ==
  ASSUME PlainOutputs,
         NEW f, NEW text, NEW pairs, Good(f, text, pairs)
  PROVE  Len(text) <= NotFound + 1
<1>1. Len(text) \in Nat
  BY DEF Good
<1>2. CASE Len(text) <= 1
  BY <1>1, <1>2, WordAssumption
<1>3. CASE Len(text) > 1
  <2> DEFINE key == [i \in 2..Len(text) |->
                       CHOOSE o \in Outputs : text[i][1] = o[1]]
  <2>1. \A i \in 2..Len(text) : \E o \in Outputs : text[i][1] = o[1]
    <3> SUFFICES ASSUME NEW i \in 2..Len(text)
                 PROVE  \E o \in Outputs : text[i][1] = o[1]
      OBVIOUS
    <3>1. PICK p \in Outputs, c \in Nat, d \in Nat : text[i] = Line(p[1], c, d)
      BY RowIsLine
    <3> QED
      BY <3>1 DEF Line
  <2>2. \A i \in 2..Len(text) : key[i] \in Outputs /\ text[i][1] = key[i][1]
    BY <2>1
  <2> HIDE DEF key
  <2>3. key \in Injection(2..Len(text), Outputs)
    <3>1. key \in [2..Len(text) -> Outputs]
      BY <2>2 DEF key
    <3>2. \A i, j \in 2..Len(text) : key[i] = key[j] => i = j
      BY <2>2 DEF Good
    <3> QED
      BY <3>1, <3>2 DEF Injection, IsInjective
  <2>4. Cardinality(2..Len(text)) <= Cardinality(Outputs)
    BY <2>3, FS_Injection DEF PlainOutputs
  <2>5. Cardinality(2..Len(text)) = Len(text) - 1
    BY <1>1, <1>3, FS_Interval
  <2>6. Cardinality(Outputs) \in Nat
    BY FS_CardinalityType DEF PlainOutputs
  <2> QED
    BY <1>1, <2>4, <2>5, <2>6, WordAssumption DEF PlainOutputs
<1> QED
  BY <1>1, <1>2, <1>3

-----------------------------------------------------------------------------
(* Writing                                                                 *)

(* An empty file is well-formed: new_file, and replace_line after it       *)
(* truncated the file.                                                     *)
LEMMA EmptyGood ==
  ASSUME NEW f, NEW pairs
  PROVE  Good(f, <<>>, pairs)
BY DEF Good

(* A file with the header alone is well-formed.                            *)
LEMMA HeaderGood ==
  ASSUME NEW f, NEW pairs
  PROVE  Good(f, add_line(<<>>, HeaderLine), pairs)
<1>1. add_line(<<>>, HeaderLine) = <<Line(COutput, CCreation, CLast)>>
  BY HeaderIsLine DEF add_line
<1>2. Line(COutput, CCreation, CLast) \in Lines
  BY DEF Lines
<1> DEFINE text == <<Line(COutput, CCreation, CLast)>>
<1>3. text \in Seq(Lines) /\ Len(text) = 1 /\ text[1] = Line(COutput, CCreation, CLast)
  BY <1>2
<1> HIDE DEF text
<1>4. Good(f, text, pairs)
  BY <1>3 DEF Good
<1> QED
  BY <1>1, <1>4 DEF text

(* A text stays well-formed when beacons are processed.                    *)
LEMMA GoodGrows ==
  ASSUME NEW f, NEW text, NEW pairs, NEW more, pairs \subseteq more,
         Good(f, text, pairs)
  PROVE  Good(f, text, more)
<1>1. \A row : RowFor(f, row, pairs) => RowFor(f, row, more)
  BY DEF RowFor
<1> QED
  BY <1>1 DEF Good

(* The first lines of a well-formed text are one: what a kill leaves of a  *)
(* file that was being written.                                            *)
LEMMA PrefixGood ==
  ASSUME NEW f, NEW text, NEW pairs, Good(f, text, pairs),
         NEW n \in 0..Len(text)
  PROVE  Good(f, SubSeq(text, 1, n), pairs)
<1>1. text \in Seq(Lines) /\ Len(text) \in Nat
  BY DEF Good
<1> DEFINE short == SubSeq(text, 1, n)
<1>2. /\ short \in Seq(Lines) /\ Len(short) = n
      /\ \A i \in 1..n : short[i] = text[i]
  BY <1>1
<1> HIDE DEF short
<1>3. Good(f, short, pairs)
  BY <1>1, <1>2 DEF Good
<1> QED
  BY <1>3 DEF short

(* Appending the row of a new output leaves the text well-formed.          *)
LEMMA AddedGood ==
  ASSUME NEW f, NEW text, NEW pairs, Good(f, text, pairs),
         Len(text) > 0,
         NEW o \in Outputs, <<Ssid(f), o>> \in pairs,
         \A i \in 2..Len(text) : text[i][1] # o[1],
         NEW c \in Nat, NEW d \in Nat
  PROVE  Good(f, add_line(text, Line(o[1], c, d)), pairs)
<1> DEFINE row == Line(o[1], c, d)
           long == Append(text, row)
<1>1. text \in Seq(Lines) /\ Len(text) \in Nat /\ row \in Lines
  BY DEF Good, Lines
<1>2. row[1] = o[1]
  BY DEF Line
<1>3. RowFor(f, row, pairs)
  BY DEF RowFor
<1> HIDE DEF row
<1>4. /\ long \in Seq(Lines) /\ Len(long) = Len(text) + 1
      /\ \A i \in 1..Len(text) : long[i] = text[i]
      /\ long[Len(text) + 1] = row
  BY <1>1, AppendProperties
<1> HIDE DEF long
<1>5. \A i \in 2..Len(long) : RowFor(f, long[i], pairs)
  BY <1>1, <1>3, <1>4 DEF Good
<1>6. \A i, j \in 2..Len(long) : long[i][1] = long[j][1] => i = j
  BY <1>1, <1>2, <1>4 DEF Good
<1>7. Good(f, long, pairs)
  BY <1>1, <1>4, <1>5, <1>6 DEF Good
<1> QED
  BY <1>7 DEF long, row, add_line

(* Writing new dates in the row of an output leaves the text well-formed.  *)
LEMMA ReplacedGood ==
  ASSUME NEW f, NEW text, NEW pairs, Good(f, text, pairs),
         NEW o \in Outputs, <<Ssid(f), o>> \in pairs,
         NEW i \in 2..Len(text), text[i][1] = o[1],
         NEW c \in Nat, NEW d \in Nat
  PROVE  Good(f, [text EXCEPT ![i] = Line(o[1], c, d)], pairs)
<1> DEFINE row == Line(o[1], c, d)
           next == [text EXCEPT ![i] = row]
<1>1. text \in Seq(Lines) /\ Len(text) \in Nat /\ row \in Lines
  BY DEF Good, Lines
<1>2. row[1] = o[1]
  BY DEF Line
<1>3. RowFor(f, row, pairs)
  BY DEF RowFor
<1> HIDE DEF row
<1>4. /\ next \in Seq(Lines) /\ Len(next) = Len(text)
      /\ next[i] = row
      /\ \A j \in 1..Len(text) : j # i => next[j] = text[j]
  BY <1>1, ExceptSeq
<1> HIDE DEF next
<1>5. \A j \in 2..Len(next) : RowFor(f, next[j], pairs)
  BY <1>1, <1>3, <1>4 DEF Good
<1>6. \A j \in 2..Len(next) : next[j][1] = text[j][1]
  BY <1>1, <1>2, <1>4
<1>7. \A j, k \in 2..Len(next) : next[j][1] = next[k][1] => j = k
  BY <1>4, <1>6 DEF Good
<1>8. next[1] = text[1]
  BY <1>1, <1>4
<1>9. Good(f, next, pairs)
  BY <1>1, <1>4, <1>5, <1>7, <1>8 DEF Good
<1> QED
  BY <1>9 DEF next, row

-----------------------------------------------------------------------------
(* What RowsKept says of two texts of a store: a row that is in both keeps *)
(* its creation date, and its last date unless it gets the date now.       *)

Keeps(text, next, now) ==
  \A i \in 2..Len(text), j \in 2..Len(next) :
    next[j][1] = text[i][1]
      => next[j][2] = text[i][2] /\ next[j][3] \in {text[i][3], now}

(* A text without rows alters none.                                        *)
LEMMA KeepsShort ==
  ASSUME NEW text, NEW next \in Seq(Lines), Len(next) <= 1, NEW now
  PROVE  Keeps(text, next, now)
BY DEF Keeps

(* A text that is not written alters none of its rows.                     *)
LEMMA KeepsSelf ==
  ASSUME NEW f, NEW text, NEW pairs, Good(f, text, pairs), NEW now
  PROVE  Keeps(text, text, now)
BY DEF Keeps, Good

(* A text cut off behind a line alters none of the rows that are left.     *)
LEMMA KeepsPrefix ==
  ASSUME NEW f, NEW text, NEW pairs, Good(f, text, pairs),
         NEW n \in 0..Len(text), NEW now
  PROVE  Keeps(text, SubSeq(text, 1, n), now)
<1>1. text \in Seq(Lines) /\ Len(text) \in Nat
  BY DEF Good
<1> DEFINE short == SubSeq(text, 1, n)
<1>2. Len(short) = n /\ \A i \in 1..n : short[i] = text[i]
  BY <1>1
<1> HIDE DEF short
<1>3. Keeps(text, text, now)
  BY KeepsSelf
<1>4. Keeps(text, short, now)
  BY <1>1, <1>2, <1>3 DEF Keeps
<1> QED
  BY <1>4 DEF short

(* Appending the row of a new output alters no row.                        *)
LEMMA KeepsAdded ==
  ASSUME NEW f, NEW text, NEW pairs, Good(f, text, pairs),
         NEW o \in Outputs, \A i \in 2..Len(text) : text[i][1] # o[1],
         NEW c \in Nat, NEW d \in Nat, NEW now
  PROVE  Keeps(text, add_line(text, Line(o[1], c, d)), now)
<1> DEFINE row == Line(o[1], c, d)
           long == Append(text, row)
<1>1. text \in Seq(Lines) /\ Len(text) \in Nat /\ row \in Lines
  BY DEF Good, Lines
<1>2. row[1] = o[1]
  BY DEF Line
<1>3. Keeps(text, text, now)
  BY KeepsSelf
<1> HIDE DEF row
<1>4. /\ Len(long) = Len(text) + 1
      /\ \A i \in 1..Len(text) : long[i] = text[i]
      /\ long[Len(text) + 1] = row
  BY <1>1, AppendProperties
<1> HIDE DEF long
<1>5. Keeps(text, long, now)
  BY <1>1, <1>2, <1>3, <1>4 DEF Keeps
<1> QED
  BY <1>5 DEF long, row, add_line

(* Refreshing a row leaves the others alone, and keeps its creation date.  *)
LEMMA KeepsReplaced ==
  ASSUME NEW f, NEW text, NEW pairs, Good(f, text, pairs),
         NEW o \in Outputs, NEW c \in Nat, NEW old \in Nat, NEW d \in Nat,
         NEW i \in 2..Len(text), text[i] = Line(o[1], c, old)
  PROVE  Keeps(text, [text EXCEPT ![i] = Line(o[1], c, d)], d)
<1> DEFINE row == Line(o[1], c, d)
           next == [text EXCEPT ![i] = row]
<1>1. text \in Seq(Lines) /\ Len(text) \in Nat /\ row \in Lines
  BY DEF Good, Lines
<1>2. /\ row[1] = o[1] /\ row[2] = c /\ row[3] = d
      /\ text[i][1] = o[1] /\ text[i][2] = c /\ text[i][3] = old
  BY DEF Line
<1>3. Keeps(text, text, d)
  BY KeepsSelf
<1> HIDE DEF row
<1>4. /\ Len(next) = Len(text)
      /\ next[i] = row
      /\ \A j \in 1..Len(text) : j # i => next[j] = text[j]
  BY <1>1, ExceptSeq
<1> HIDE DEF next
<1>5. ASSUME NEW k \in 2..Len(text), NEW j \in 2..Len(next), next[j][1] = text[k][1]
      PROVE  next[j][2] = text[k][2] /\ next[j][3] \in {text[k][3], d}
  <2>1. CASE j = i
    <3>1. k = i
      BY <1>1, <1>2, <1>4, <1>5, <2>1 DEF Good
    <3> QED
      BY <1>2, <1>4, <2>1, <3>1
  <2>2. CASE j # i
    BY <1>1, <1>3, <1>4, <1>5, <2>2 DEF Keeps
  <2> QED
    BY <2>1, <2>2
<1>6. Keeps(text, next, d)
  BY <1>5 DEF Keeps
<1> QED
  BY <1>6 DEF next, row

=============================================================================
