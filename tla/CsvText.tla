------------------------------ MODULE CsvText ------------------------------
(***************************************************************************)
(* What csv.cpp and os_communicator.cpp compute on the text of a storage   *)
(* file, without the file.                                                 *)
(*                                                                         *)
(* A std::string is modelled by its pieces: the non-empty sequence of what *)
(* stands between its delimiters.  "" is <<Empty>>, "a" is <<a>>, "a;;" is *)
(* <<a, Empty, Empty>>; s + ";" + t is s \o t.  Pieces are opaque.  A file *)
(* is the sequence of its lines.                                           *)
(***************************************************************************)
EXTENDS Integers, Sequences

CONSTANTS
  Empty,                          \* the piece of length zero
  COutput, CCreation, CLast,      \* the pieces of COLUMN_NAMES
  NotFound                        \* (size_t) -1

EmptyString == <<Empty>>
HEADER_SIZE == 1
KEY_COLUMN_NUMBER == 0
COLUMN_NAMES == <<<<COutput>>, <<CCreation>>, <<CLast>>>>
KEY_LINE_NUMBER == 0
COLUMN_NUMBER_LINE_NUMBER == 1

\* The string without its first n cells; the last piece is never dropped.
DropCells(s, n) == SubSeq(s, (IF n < Len(s) THEN n ELSE Len(s) - 1) + 1, Len(s))

-----------------------------------------------------------------------------
(* Communicator                                                            *)

\* Past the end of the file the line is "".
get_line(lines, n) == IF n < Len(lines) THEN lines[n + 1] ELSE EmptyString
add_line(lines, line) == Append(lines, line)
replace_line(lines, n, line) == [lines EXCEPT ![n + 1] = line]

-----------------------------------------------------------------------------
(* Csv                                                                     *)

values_to_line(values) == values[1] \o values[2] \o values[3] \o EmptyString

get_column_position_from_header(header, ncols, name) ==
  LET hits == {i \in 0..(ncols - 1) : <<DropCells(header, i)[1]>> = name}
  IN IF hits = {}
     THEN NotFound
     ELSE CHOOSE i \in hits : \A j \in hits : i <= j

\* Variant: one cell too many is dropped.
get_cell_from_row_next(row, n) == <<DropCells(row, n + 1)[1]>>

\* A cell that starts with the delimiter, an empty one, is not cut off from
\* the rest of its row: cell.find(DELIMITER) is 0 there.
get_cell_from_row(row, n) ==
  LET cell == DropCells(row, n)
  IN IF cell[1] = Empty /\ Len(cell) > 1 THEN cell ELSE <<cell[1]>>

\* No line of a storage file is blank, so the loop of get_all_keys_with_value
\* reaches its end.
Rows(lines) == SubSeq(lines, HEADER_SIZE + 1, Len(lines))

get_column_number(lines, ncols, name) ==
  get_column_position_from_header(get_line(lines, 0), ncols, name)

\* The rows get_all_keys_with_value returns the keys of; "" matches any row.
RowsWithValue(lines, column, value) ==
  {i \in DOMAIN Rows(lines) :
     value = EmptyString \/ get_cell_from_row(Rows(lines)[i], column) = value}

\* The position of the first row with the key, from 0.
get_key_position(lines, keycol, key) ==
  LET hits == {i \in DOMAIN Rows(lines) :
                 get_cell_from_row(Rows(lines)[i], keycol) = key}
  IN IF hits = {}
     THEN NotFound
     ELSE (CHOOSE i \in hits : \A j \in hits : i <= j) - 1

\* Csv::create's header
HeaderLine == values_to_line(COLUMN_NAMES)
=============================================================================
