------------------------ MODULE SnapDeskStoreProofs ------------------------
(***************************************************************************)
(* The open database and the storage files of the SnapDesk daemon, for     *)
(* every set of SSIDs, codes and plain outputs, any content of             *)
(* uninitialised memory, and any number of kills, edits and dates.         *)
(***************************************************************************)
EXTENDS SnapDeskTextProofs

-----------------------------------------------------------------------------
(* The open database belongs to the SSID of the beacon.  run() keeps the    *)
(* database open and current_ssid beside it; the two must agree whenever    *)
(* the loop comes back to the poll, not only while a beacon is processed.   *)

HandleInv ==
  /\ pc \in {"open"} \cup Opening \cup Using => frame.ssid = current_ssid
  /\ pc \in Opening => Ssid(file) = frame.ssid
  /\ pc \in Using => Ssid(database.file) = current_ssid
  /\ pc = "poll" /\ database # None => Ssid(database.file) = current_ssid

(* Every step of run(), of its catch block and of the world around the      *)
(* process keeps the open database and current_ssid in agreement.           *)
LEMMA NextHandle == HandleInv /\ [Next]_vars => HandleInv'
<1> SUFFICES ASSUME HandleInv, [Next]_vars PROVE HandleInv'
  OBVIOUS
<1> USE DEF HandleInv, Opening, Using
<1>1. CASE Run
  BY <1>1 DEF Run
<1>2. CASE Poll
  <2>1. CASE PollFails \/ BodyFails \/ EvalFails
    BY <2>1 DEF PollFails, BodyFails, EvalFails, Throw
  <2>2. CASE NoSsid
    BY <2>2 DEF NoSsid
  <2>3. ASSUME NEW s \in Ssids, NEW o \in Outputs, Beacon(s, o)
        PROVE  HandleInv'
    BY <2>3 DEF Beacon, Kept, Opens
  <2> QED
    BY <1>2, <2>1, <2>2, <2>3 DEF Poll
<1>3. CASE Store
  <2>1. CASE OpenDatabase
    <3>1. file' = <<snappy, frame.ssid>>
      BY <2>1 DEF OpenDatabase
    <3>2. Ssid(file') = frame.ssid
      BY <3>1 DEF Ssid
    <3>3. pc' \in {"construct", "unwind", "header"}
      BY <2>1 DEF OpenDatabase, Throw
    <3>4. pc = "open" /\ UNCHANGED <<frame, current_ssid>>
      BY <2>1 DEF OpenDatabase
    <3> QED
      BY <3>2, <3>3, <3>4 DEF Ssid
  <2>2. CASE CreateHeader \/ CreateMetadata \/ CreateKey \/ CreateColumns
    BY <2>2 DEF CreateHeader, CreateMetadata, CreateKey, CreateColumns, heapVars,
       Ssid
  <2>3. CASE Construct
    <3>1. PICK n, k : database' = [file |-> file, ncols |-> n, key |-> k]
      BY <2>3 DEF Construct
    <3>2. database'.file = file
      BY <3>1
    <3>3. pc = "construct" /\ pc' = "lookup" /\ UNCHANGED <<frame, current_ssid>>
      BY <2>3 DEF Construct
    <3> QED
      BY <3>2, <3>3 DEF Ssid
  <2>4. CASE ConstructFails \/ WildKey
    BY <2>4 DEF ConstructFails, WildKey, Throw, heapVars
  <2>5. ASSUME NEW last, AddEntry(last) \/ LookupFails(last)
        PROVE  HandleInv'
    BY <2>5 DEF AddEntry, LookupFails, Throw, heapVars, Ssid
  <2>6. CASE ReplaceEntry \/ WriteBack \/ Notify
    BY <2>6 DEF ReplaceEntry, WriteBack, Notify, heapVars, Ssid
  <2> QED
    BY <1>3, <2>1, <2>2, <2>3, <2>4, <2>5, <2>6 DEF Store
<1>4. CASE Unwind \/ Restart \/ Crash
  BY <1>4 DEF Unwind, Restart, Crash
<1>5. CASE UNCHANGED <<heapVars, pc>>
  BY <1>5 DEF heapVars, Ssid
<1>6. CASE World
  BY <1>4, <1>5, <1>6 DEF World, Tick, EditSnappy
<1>7. CASE UNCHANGED vars
  BY <1>5, <1>7 DEF vars
<1> QED
  BY <1>1, <1>2, <1>3, <1>4, <1>6, <1>7 DEF Next, Process

(* A beacon is looked up, added and refreshed only in the storage file of   *)
(* its own SSID.                                                            *)
THEOREM HandleTheorem == Spec => []HandleMatches
<1>1. Init => HandleInv
  BY DEF Init, HandleInv, Opening, Using
<1>2. HandleInv => HandleMatches
  BY DEF HandleInv, HandleMatches, Using
<1> QED
  BY <1>1, <1>2, NextHandle, PTL DEF Spec

-----------------------------------------------------------------------------
(* Every storage file is well-formed.                                      *)

(* The text is well-formed.                                                *)
Sound(f, text) == Good(f, text, seen)

(* The frame is a beacon that was processed.                               *)
Processed ==
  /\ frame.ssid \in Ssids /\ frame.out \in Outputs
  /\ <<frame.ssid, frame.out>> \in seen

(* The open database reads a well-formed file.                             *)
OpenStore ==
  /\ database.file \in Files /\ database.key \in Nat
  /\ Sound(database.file, data[database.file])

(* Every file is well-formed, and so is the text that replace_line is      *)
(* about to write. The rest says which store the steps between two polls   *)
(* work on; the key column is any number that the metadata file or the     *)
(* memory held.                                                            *)
StoreInv ==
  /\ clock \in Nat /\ snappy \in Codes
  /\ DOMAIN data = Files /\ DOMAIN meta = Files
  /\ \A f \in Files : data[f] = None \/ Sound(f, data[f])
  /\ \A f \in Files : meta[f] = None \/ meta[f] \in Seq(Nat)
  /\ pc \in {"open"} \cup Opening \cup Using => Processed
  /\ pc \in Opening => file \in Files /\ Sound(file, data[file])
  /\ pc = "header" => data[file] = <<>>
  /\ pc \in {"key", "columns"} => meta[file] \in Seq(Nat)
  /\ pc \in Using => OpenStore
  /\ pc = "poll" /\ database # None => OpenStore
  /\ pc = "write" => Sound(database.file, out)

(* A beacon with a new output leaves the text of its store well-formed:    *)
(* the row is appended behind the others and no other row has its key.     *)
LEMMA InsertedSound ==
  ASSUME PlainOutputs, StoreInv, HandleInv, NEW last, AddEntry(last)
  PROVE  /\ clock' \in Nat
         /\ Good(database.file, data'[database.file], seen)
         /\ Keeps(data[database.file], data'[database.file], clock)
         /\ Len(Text) > 0
         /\ \A i \in 2..Len(Text) : Text[i][1] # frame.out[1]
         /\ data'[database.file] = add_line(Text, Line(frame.out[1], clock, clock'))
<1>1. /\ pc = "lookup" /\ last \in 0..MaxClock /\ clock' = last
      /\ data' = [data EXCEPT ![database.file] =
                    add_line(Text, values_to_line(NewValues(last)))]
      /\ Usable /\ ~ Known
  BY DEF AddEntry, Inserts, Text
<1>2. clock \in Nat /\ last \in Nat
  BY <1>1, LimitAssumption DEF StoreInv
<1>3. Processed /\ OpenStore /\ DOMAIN data = Files
  BY <1>1 DEF StoreInv, Using
<1>4. database.file \in Files /\ Ssid(database.file) = frame.ssid
  BY <1>1, <1>3 DEF HandleInv, Using, OpenStore
<1>5. Good(database.file, Text, seen)
  BY <1>3 DEF OpenStore, Sound, Text
<1>6. database.ncols = 3
  BY <1>1 DEF Usable, COLUMN_NAMES
<1>7. get_column_number(Text, 3, <<COutput>>) < 3
  BY <1>1, <1>6 DEF Usable, Column
<1>8. Len(Text) > 0 /\ get_column_number(Text, 3, <<COutput>>) = 0
  BY <1>5, <1>7, ColumnOfGood
<1>9. RowsWithValue(Text, 0, frame.out) = {}
  BY <1>1, <1>6, <1>8 DEF Known, Column
<1>10. frame.out \in Outputs /\ frame.out = <<frame.out[1]>>
       /\ <<Ssid(database.file), frame.out>> \in seen
  BY <1>3, <1>4 DEF Processed, PlainOutputs
<1>11. \A i \in 2..Len(Text) : Text[i][1] # frame.out[1]
  BY <1>5, <1>9, <1>10, UnknownIsNew
<1>12. values_to_line(NewValues(last)) = Line(frame.out[1], clock, last)
  BY <1>10, LineOfValues DEF NewValues
<1>14. Good(database.file, add_line(Text, Line(frame.out[1], clock, last)), seen)
  BY <1>2, <1>5, <1>8, <1>10, <1>11, AddedGood
<1>15. data'[database.file] = add_line(Text, Line(frame.out[1], clock, last))
  BY <1>1, <1>3, <1>4, <1>12
<1>16. Keeps(Text, add_line(Text, Line(frame.out[1], clock, last)), clock)
  BY <1>2, <1>5, <1>10, <1>11, KeepsAdded
<1> QED
  BY <1>1, <1>2, <1>8, <1>11, <1>14, <1>15, <1>16 DEF Text

(* A beacon with a known output makes replace_line write a well-formed     *)
(* text: the row that is replaced is the one with the output, it is not    *)
(* the header, and its creation date is written back.                      *)
LEMMA RefreshedSound ==
  ASSUME PlainOutputs, StoreInv, HandleInv, ReplaceEntry
  PROVE  /\ Sound(database.file, out')
         /\ Keeps(data[database.file], out', clock)
         /\ \E i \in 2..Len(Text), c \in Nat, d \in Nat :
              /\ Text[i] = Line(frame.out[1], c, d)
              /\ out' = [Text EXCEPT ![i] = Line(frame.out[1], c, clock)]
<1>1. /\ pc = "lookup" /\ Usable /\ Row # NotFound
      /\ out' = replace_line(Text, LineOfRow, values_to_line(Refreshed))
  BY DEF ReplaceEntry, Replaces
<1>2. Processed /\ OpenStore /\ clock \in Nat
  BY <1>1 DEF StoreInv, Using
<1>3. database.file \in Files /\ database.key \in Nat
      /\ Ssid(database.file) = frame.ssid
  BY <1>1, <1>2 DEF HandleInv, Using, OpenStore
<1>4. Good(database.file, Text, seen)
  BY <1>2 DEF OpenStore, Sound, Text
<1>5. frame.out \in Outputs /\ frame.out = <<frame.out[1]>>
      /\ <<Ssid(database.file), frame.out>> \in seen
  BY <1>2, <1>3 DEF Processed, PlainOutputs
<1>6. Len(Text) \in Nat /\ Len(Text) <= NotFound + 1
  <2>1. Len(Text) <= NotFound + 1
    BY <1>4, LengthBound
  <2> QED
    BY <1>4, <2>1 DEF Good
<1>7. \E i \in 2..Len(Text) :
        /\ Text[i][1] = frame.out[1]
        /\ get_key_position(Text, database.key, frame.out) = i - 2
  BY <1>1, <1>3, <1>4, <1>5, KeyPosition DEF Row
<1>8. PICK i \in 2..Len(Text) : Text[i][1] = frame.out[1] /\ Row = i - 2
  BY <1>7 DEF Row
<1>9. LineOfRow = i - 1
  <2>1. i - 1 \in 0..NotFound /\ NotFound \in Nat
    BY <1>6, WordAssumption
  <2>2. (i - 1) % (NotFound + 1) = i - 1
    BY <2>1
  <2>3. Row + HEADER_SIZE = i - 1
    BY <1>8 DEF HEADER_SIZE
  <2> QED
    BY <2>2, <2>3 DEF LineOfRow
<1>10. get_line(Text, LineOfRow) = Text[i]
  BY <1>6, <1>9 DEF get_line
<1>11. RowFor(database.file, Text[i], seen)
  BY <1>4 DEF Good
<1>12. PICK p \in Outputs, c \in Nat, d \in Nat :
         Text[i] = Line(p[1], c, d)
  BY <1>11 DEF RowFor
<1>13. Column(<<CCreation>>) = 1
  <2>1. database.ncols = 3
    BY <1>1 DEF Usable, COLUMN_NAMES
  <2>2. get_column_number(Text, 3, <<COutput>>) < 3
    BY <1>1, <2>1 DEF Usable, Column
  <2> QED
    BY <1>4, <2>1, <2>2, ColumnOfGood DEF Column
<1>14. CreationDate = <<c>>
  BY <1>10, <1>12, <1>13, CellOfLine DEF CreationDate, PlainOutputs
<1>15. values_to_line(Refreshed) = Line(frame.out[1], c, clock)
  BY <1>5, <1>14, LineOfValues DEF Refreshed
<1>16. out' = [Text EXCEPT ![i] = Line(frame.out[1], c, clock)]
  BY <1>1, <1>9, <1>15 DEF replace_line
<1>18. Good(database.file, [Text EXCEPT ![i] = Line(frame.out[1], c, clock)], seen)
  BY <1>2, <1>4, <1>5, <1>8, ReplacedGood
<1>19. Text[i] = Line(frame.out[1], c, d)
  BY <1>8, <1>12 DEF Line
<1>20. Keeps(Text, [Text EXCEPT ![i] = Line(frame.out[1], c, clock)], clock)
  BY <1>2, <1>4, <1>5, <1>12, <1>19, KeepsReplaced
<1>21. \E n \in 2..Len(Text), x \in Nat, y \in Nat :
         /\ Text[n] = Line(frame.out[1], x, y)
         /\ out' = [Text EXCEPT ![n] = Line(frame.out[1], x, clock)]
  BY <1>12, <1>16, <1>19
<1> QED
  BY <1>16, <1>18, <1>20, <1>21 DEF Sound, Text

(* A line of a metadata file reads as a number, present or not.            *)
LEMMA ReadsNaturals ==
  ASSUME NEW lines \in Seq(Nat), NEW n \in Nat
  PROVE  string_to_size_t(lines, n) \subseteq Nat
<1>1. CASE n < Len(lines)
  <2>1. n + 1 \in 1..Len(lines)
    BY <1>1
  <2> QED
    BY <1>1, <2>1 DEF string_to_size_t
<1>2. CASE ~ (n < Len(lines))
  BY <1>2, NameAssumption DEF string_to_size_t
<1> QED
  BY <1>1, <1>2

(* A file that is not written stays well-formed while beacons are          *)
(* processed.                                                              *)
LEMMA SoundGrows ==
  ASSUME seen \subseteq seen'
  PROVE  \A f, text : Sound(f, text) => Good(f, text, seen')
BY GoodGrows DEF Sound

(* There is no file at the beginning.                                      *)
LEMMA InitStore == Init => StoreInv /\ HandleInv
BY LimitAssumption DEF Init, StoreInv, HandleInv, Opening, Using

(* Every step of the daemon and of the world around it leaves all files    *)
(* well-formed.                                                            *)
LEMMA NextStore ==
  ASSUME PlainOutputs
  PROVE  StoreInv /\ HandleInv /\ [Next]_vars => StoreInv'
<1> SUFFICES ASSUME StoreInv, HandleInv, [Next]_vars PROVE StoreInv'
  OBVIOUS
<1> USE DEF Opening, Using
<1>1. CASE Run
  BY <1>1 DEF Run, StoreInv, Sound, filesVars, worldVars, historyVars
<1>2. CASE PollFails \/ BodyFails \/ EvalFails \/ NoSsid
  BY <1>2 DEF PollFails, BodyFails, EvalFails, NoSsid, Throw, StoreInv, Sound,
     OpenStore, filesVars, worldVars, historyVars, heapVars
<1>3. ASSUME NEW s \in Ssids, NEW o \in Outputs, Beacon(s, o) PROVE StoreInv'
  <2>1. /\ pc = "poll" /\ frame' = [ssid |-> s, out |-> o]
        /\ seen' = seen \cup {<<s, o>>} /\ database' = Kept(s)
        /\ pc' = IF Opens(Kept(s)) THEN "open" ELSE "lookup"
        /\ UNCHANGED <<data, meta, snappy, clock, file, out>>
    BY <1>3 DEF Beacon, filesVars, worldVars
  <2>2. \A f, text : Sound(f, text) => Good(f, text, seen')
    <3>1. seen \subseteq seen'
      BY <2>1 DEF StoreInv
    <3> QED
      BY <3>1, SoundGrows
  <2>3. Processed'
    BY <2>1 DEF Processed
  <2>4. pc' = "lookup" => database' = database /\ OpenStore
    BY <2>1 DEF Kept, Opens, StoreInv
  <2>5. pc' = "lookup" => OpenStore'
    BY <2>1, <2>2, <2>4 DEF OpenStore, Sound
  <2> QED
    BY <2>1, <2>2, <2>3, <2>5 DEF StoreInv, Sound
<1>4. CASE OpenDatabase
  <2>1. /\ pc = "open" /\ file' = <<snappy, frame.ssid>>
        /\ UNCHANGED <<meta, snappy, clock, seen, frame, database, out>>
    BY <1>4 DEF OpenDatabase, worldVars, historyVars
  <2>2. Processed /\ file' \in Files
    BY <2>1 DEF StoreInv, Processed, Files
  <2>3. CASE data[file'] # None /\ pc' = "construct" /\ UNCHANGED data
    BY <2>1, <2>2, <2>3 DEF StoreInv, Sound, Processed
  <2>4. CASE pc' = "unwind" /\ UNCHANGED data
    BY <2>1, <2>4 DEF StoreInv, Sound
  <2>5. CASE data' = [data EXCEPT ![file'] = <<>>] /\ pc' = "header"
    BY <2>1, <2>2, <2>5, EmptyGood DEF StoreInv, Sound, Processed
  <2> QED
    BY <1>4, <2>1, <2>3, <2>4, <2>5 DEF OpenDatabase, Throw
<1>5. CASE CreateHeader
  <2>1. /\ pc = "header" /\ pc' = "meta"
        /\ data' = [data EXCEPT ![file] = add_line(data[file], HeaderLine)]
        /\ UNCHANGED <<meta, snappy, clock, seen, frame, database, file, out>>
    BY <1>5 DEF CreateHeader, heapVars, worldVars, historyVars
  <2>2. file \in Files /\ Processed /\ data[file] = <<>>
    BY <2>1 DEF StoreInv
  <2>3. Good(file, data'[file], seen)
    BY <2>1, <2>2, HeaderGood DEF StoreInv
  <2> QED
    BY <2>1, <2>2, <2>3 DEF StoreInv, Sound, Processed
<1>6. CASE CreateMetadata \/ CreateKey \/ CreateColumns
  <2>1. /\ pc \in {"meta", "key", "columns"}
        /\ UNCHANGED <<data, snappy, clock, seen, frame, database, file, out>>
    BY <1>6 DEF CreateMetadata, CreateKey, CreateColumns, heapVars, worldVars,
       historyVars
  <2>2. file \in Files /\ Processed /\ Sound(file, data[file])
    BY <2>1 DEF StoreInv
  <2>3. PICK lines \in Seq(Nat) : meta' = [meta EXCEPT ![file] = lines]
    <3>1. CASE CreateMetadata
      <4>1. <<>> \in Seq(Nat)
        OBVIOUS
      <4> QED
        BY <3>1, <4>1 DEF CreateMetadata
    <3>2. CASE CreateKey
      <4>1. meta[file] \in Seq(Nat)
        BY <3>2 DEF CreateKey, StoreInv
      <4>2. Append(meta[file], KEY_COLUMN_NUMBER) \in Seq(Nat)
        BY <4>1 DEF KEY_COLUMN_NUMBER
      <4> QED
        BY <3>2, <4>2 DEF CreateKey
    <3>3. CASE CreateColumns
      <4>1. meta[file] \in Seq(Nat)
        BY <3>3 DEF CreateColumns, StoreInv
      <4>2. Append(meta[file], Len(COLUMN_NAMES)) \in Seq(Nat)
        BY <4>1 DEF COLUMN_NAMES
      <4> QED
        BY <3>3, <4>2 DEF CreateColumns
    <3> QED
      BY <1>6, <3>1, <3>2, <3>3
  <2>4. pc' \in {"key", "columns", "construct"}
    BY <1>6 DEF CreateMetadata, CreateKey, CreateColumns
  <2> QED
    BY <2>1, <2>2, <2>3, <2>4 DEF StoreInv, Sound, Processed
<1>7. CASE Construct
  <2>1. PICK n \in string_to_size_t(meta[file], COLUMN_NUMBER_LINE_NUMBER),
             k \in string_to_size_t(meta[file], KEY_LINE_NUMBER) :
          database' = [file |-> file, ncols |-> n, key |-> k]
    BY <1>7 DEF Construct
  <2>2. /\ pc = "construct" /\ pc' = "lookup" /\ meta[file] # None
        /\ UNCHANGED <<data, meta, snappy, clock, seen, frame, out>>
    BY <1>7 DEF Construct, filesVars, worldVars, historyVars
  <2>3. file \in Files /\ Processed /\ Sound(file, data[file])
    BY <2>2 DEF StoreInv
  <2>4. meta[file] \in Seq(Nat)
    BY <2>2, <2>3 DEF StoreInv
  <2>5. k \in Nat
    BY <2>1, <2>4, ReadsNaturals DEF KEY_LINE_NUMBER
  <2>6. OpenStore'
    BY <2>1, <2>2, <2>3, <2>5 DEF OpenStore, Sound
  <2> QED
    BY <2>2, <2>3, <2>6 DEF StoreInv, Sound, Processed
<1>8. CASE ConstructFails \/ WildKey \/ Unwind \/ Restart
  BY <1>8 DEF ConstructFails, WildKey, Unwind, Restart, Throw, StoreInv, Sound,
     filesVars, worldVars, historyVars, heapVars
<1>9. ASSUME NEW last, LookupFails(last) PROVE StoreInv'
  BY <1>9 DEF LookupFails, Throw, StoreInv, Sound, filesVars, worldVars,
     historyVars, heapVars
<1>10. ASSUME NEW last, AddEntry(last) PROVE StoreInv'
  <2>1. /\ pc = "lookup" /\ pc' = "notify"
        /\ UNCHANGED <<meta, snappy, seen, frame, database, file, out>>
    BY <1>10 DEF AddEntry, heapVars
  <2>2. data' = [data EXCEPT ![database.file] =
                   add_line(data[database.file], values_to_line(NewValues(last)))]
    BY <1>10 DEF AddEntry
  <2>3. /\ clock' \in Nat
        /\ Good(database.file, data'[database.file], seen)
    BY <1>10, InsertedSound
  <2>4. Processed /\ OpenStore
    BY <2>1 DEF StoreInv
  <2>6. DOMAIN data' = Files
        /\ \A f \in Files : f # database.file => data'[f] = data[f]
    BY <2>2 DEF StoreInv
  <2>7. OpenStore'
    BY <2>1, <2>3, <2>4 DEF OpenStore, Sound
  <2> QED
    BY <2>1, <2>3, <2>4, <2>6, <2>7 DEF StoreInv, Sound, Processed
<1>11. CASE ReplaceEntry
  <2>1. /\ pc = "lookup" /\ pc' = "write"
        /\ data' = [data EXCEPT ![database.file] = <<>>]
        /\ UNCHANGED <<meta, snappy, clock, seen, frame, database, file>>
    BY <1>11 DEF ReplaceEntry, worldVars, historyVars
  <2>2. Good(database.file, out', seen)
    BY <1>11, RefreshedSound DEF Sound
  <2>3. Processed /\ OpenStore
    BY <2>1 DEF StoreInv
  <2>4. OpenStore'
    BY <2>1, <2>3, EmptyGood DEF OpenStore, Sound, StoreInv
  <2> QED
    BY <2>1, <2>2, <2>3, <2>4, EmptyGood DEF StoreInv, Sound, Processed
<1>12. CASE WriteBack
  <2>1. /\ pc = "write" /\ pc' = "poll"
        /\ data' = [data EXCEPT ![database.file] = out]
        /\ UNCHANGED <<meta, snappy, clock, seen, frame, database, file>>
    BY <1>12 DEF WriteBack, worldVars, historyVars
  <2>2. OpenStore /\ Sound(database.file, out)
    BY <2>1 DEF StoreInv
  <2>3. OpenStore'
    BY <2>1, <2>2 DEF OpenStore, Sound, StoreInv
  <2> QED
    BY <2>1, <2>2, <2>3 DEF StoreInv, Sound
<1>13. CASE Notify
  <2>1. /\ pc = "notify" /\ pc' = "poll"
        /\ UNCHANGED <<data, meta, snappy, clock, seen, frame, database, file, out>>
    BY <1>13 DEF Notify, filesVars, heapVars, worldVars
  <2> QED
    BY <2>1 DEF StoreInv, Sound, OpenStore
<1>14. CASE Crash
  <2>1. /\ pc' = "dead"
        /\ UNCHANGED <<meta, snappy, clock, seen>>
    BY <1>14 DEF Crash, historyVars
  <2>2. CASE UNCHANGED data
    BY <2>1, <2>2 DEF StoreInv, Sound
  <2>3. CASE pc = "write" /\ \E n \in 0..Len(out) :
               data' = [data EXCEPT ![database.file] = SubSeq(out, 1, n)]
    <3>1. PICK n \in 0..Len(out) :
            data' = [data EXCEPT ![database.file] = SubSeq(out, 1, n)]
      BY <2>3
    <3>2. Good(database.file, SubSeq(out, 1, n), seen)
      BY <2>3, PrefixGood DEF StoreInv, Sound
    <3> QED
      BY <2>1, <3>1, <3>2 DEF StoreInv, Sound
  <2> QED
    BY <1>14, <2>2, <2>3 DEF Crash
<1>15. ASSUME NEW c \in Codes, EditSnappy(c) PROVE StoreInv'
  BY <1>15 DEF EditSnappy, StoreInv, Sound, OpenStore, Processed, filesVars,
     heapVars, historyVars
<1>16. CASE Tick
  <2>1. /\ clock' \in 0..MaxClock
        /\ UNCHANGED <<data, meta, snappy, seen, frame, database, file, out, pc>>
    BY <1>16 DEF Tick, filesVars, heapVars, historyVars
  <2>2. clock' \in Nat
    BY <2>1, LimitAssumption
  <2> QED
    BY <2>1, <2>2 DEF StoreInv, Sound, OpenStore, Processed
<1>17. CASE UNCHANGED vars
  BY <1>17 DEF vars, StoreInv, Sound, OpenStore, Processed, filesVars, heapVars,
     worldVars, historyVars
<1> QED
  BY <1>1, <1>2, <1>3, <1>4, <1>5, <1>6, <1>7, <1>8, <1>9, <1>10, <1>11, <1>12,
     <1>13, <1>14, <1>15, <1>16, <1>17 DEF Next, Process, Poll, Store, World

(* The files are well-formed in every state.                               *)
LEMMA StoreAlways ==
  ASSUME PlainOutputs
  PROVE  Spec => [](StoreInv /\ HandleInv)
<1>1. Init => StoreInv /\ HandleInv
  BY InitStore
<1>2. StoreInv /\ HandleInv /\ [Next]_vars => StoreInv'
  BY NextStore
<1>3. HandleInv /\ [Next]_vars => HandleInv'
  BY NextHandle
<1> QED
  BY <1>1, <1>2, <1>3, PTL DEF Spec

-----------------------------------------------------------------------------
(* Types                                                                   *)

Databases == [file : Files, ncols : Nat, key : Nat]

(* None stands for what the program has not got: it is no text, no         *)
(* database and no entry.                                                  *)
NoneApart ==
  /\ None \notin Seq(Lines)
  /\ None \notin Databases
  /\ \A c, d \in Nat : [created |-> c, last |-> d] # None

(* The types that StoreInv does not give.                                  *)
TypeInv ==
  /\ pc \in PCs /\ frame \in Frames /\ body \in {"null", "live", "dangling"}
  /\ current_ssid \in Ssids
  /\ database = None \/ database \in Databases
  /\ pc \in Using => database # None
  /\ clock \in 0..MaxClock /\ crashes \in 0..MaxCrashes /\ edits \in 0..MaxEdits
  /\ notified \in [Files -> [Outputs -> Nat]]
  /\ seen \subseteq Ssids \X Outputs

(* Every step keeps the types of the variables.                            *)
LEMMA NextType ==
  ASSUME PlainOutputs, NoneApart, StoreInv, TypeInv, [Next]_vars
  PROVE  TypeInv'
<1> USE DEF TypeInv, PCs, Using
<1>1. CASE Run
  BY <1>1, NameAssumption DEF Run, NoFrame, Frames, worldVars, historyVars
<1>2. CASE PollFails \/ BodyFails \/ EvalFails \/ NoSsid
  BY <1>2 DEF PollFails, BodyFails, EvalFails, NoSsid, Throw, heapVars, worldVars,
     historyVars
<1>3. ASSUME NEW s \in Ssids, NEW o \in Outputs, Beacon(s, o) PROVE TypeInv'
  BY <1>3 DEF Beacon, Kept, Opens, Frames, worldVars
<1>4. CASE OpenDatabase
  BY <1>4 DEF OpenDatabase, Throw, worldVars, historyVars
<1>5. CASE CreateHeader \/ CreateMetadata \/ CreateKey \/ CreateColumns
  BY <1>5 DEF CreateHeader, CreateMetadata, CreateKey, CreateColumns, heapVars,
     worldVars, historyVars
<1>6. CASE Construct
  <2>1. PICK n \in string_to_size_t(meta[file], COLUMN_NUMBER_LINE_NUMBER),
             k \in string_to_size_t(meta[file], KEY_LINE_NUMBER) :
          database' = [file |-> file, ncols |-> n, key |-> k]
    BY <1>6 DEF Construct
  <2>2. /\ pc = "construct" /\ pc' = "lookup" /\ meta[file] # None
        /\ UNCHANGED <<frame, body, current_ssid, clock, crashes, edits, notified, seen>>
    BY <1>6 DEF Construct, worldVars, historyVars
  <2>3. file \in Files /\ meta[file] \in Seq(Nat)
    BY <2>2 DEF StoreInv, Opening
  <2>4. n \in Nat /\ k \in Nat
    BY <2>1, <2>3, ReadsNaturals DEF COLUMN_NUMBER_LINE_NUMBER, KEY_LINE_NUMBER
  <2>5. database' \in Databases
    BY <2>1, <2>3, <2>4 DEF Databases
  <2> QED
    BY <2>2, <2>5 DEF NoneApart
<1>7. CASE ConstructFails \/ WildKey \/ Unwind \/ Restart
  BY <1>7 DEF ConstructFails, WildKey, Unwind, Restart, Throw, heapVars, worldVars,
     historyVars
<1>8. ASSUME NEW last, AddEntry(last) PROVE TypeInv'
  BY <1>8, LimitAssumption DEF AddEntry, heapVars
<1>9. ASSUME NEW last, LookupFails(last) PROVE TypeInv'
  BY <1>9 DEF LookupFails, Throw, heapVars, worldVars, historyVars
<1>10. CASE ReplaceEntry \/ WriteBack
  BY <1>10 DEF ReplaceEntry, WriteBack, worldVars, historyVars
<1>11. CASE Notify
  <2>1. /\ pc = "notify" /\ pc' = "poll"
        /\ notified' = [notified EXCEPT ![database.file][frame.out] = @ + 1]
        /\ UNCHANGED <<frame, body, current_ssid, database, clock, crashes, edits, seen>>
    BY <1>11 DEF Notify, Announced, heapVars, worldVars
  <2>2. database.file \in Files /\ frame.out \in Outputs
    BY <2>1 DEF StoreInv, OpenStore, Processed
  <2>3. notified' \in [Files -> [Outputs -> Nat]]
    BY <2>1, <2>2
  <2> QED
    BY <2>1, <2>3
<1>12. CASE Crash
  BY <1>12, LimitAssumption DEF Crash, heapVars, historyVars
<1>13. CASE Tick
  BY <1>13, LimitAssumption DEF Tick, heapVars, historyVars
<1>14. ASSUME NEW c \in Codes, EditSnappy(c) PROVE TypeInv'
  BY <1>14, LimitAssumption DEF EditSnappy, heapVars, historyVars
<1>15. CASE UNCHANGED vars
  BY <1>15 DEF vars, heapVars, worldVars, historyVars
<1> QED
  BY <1>1, <1>2, <1>3, <1>4, <1>5, <1>6, <1>7, <1>8, <1>9, <1>10, <1>11, <1>12,
     <1>13, <1>14, <1>15 DEF Next, Process, Poll, Store, World

(* The variables have their types; a database is open while it is used,    *)
(* and a store is being opened only between Database's constructor and     *)
(* Csv's.                                                                  *)
THEOREM TypeTheorem ==
  ASSUME PlainOutputs, NoneApart
  PROVE  Spec => []TypeOK
<1>1. Init => TypeInv
  BY NameAssumption, LimitAssumption
     DEF Init, TypeInv, PCs, Using, Frames, NoFrame
<1>2. StoreInv /\ TypeInv /\ [Next]_vars => TypeInv'
  BY NextType
<1>3. StoreInv /\ TypeInv => TypeOK
  <2> SUFFICES ASSUME StoreInv, TypeInv PROVE TypeOK
    OBVIOUS
  <2>1. ASSUME NEW f \in Files
        PROVE  data[f] = None \/ \A i \in 1..Len(data[f]) : Len(data[f][i]) >= 4
    <3>1. CASE data[f] = None
      BY <3>1
    <3>2. CASE data[f] \in Seq(Lines)
      <4>1. \A line \in Lines : Len(line) = 4
        BY DEF Lines, Line
      <4>2. \A i \in 1..Len(data[f]) : data[f][i] \in Lines
        BY <3>2
      <4>3. \A line \in Lines : Len(line) >= 4
        <5>1. 4 >= 4
          OBVIOUS
        <5> QED
          BY <4>1, <5>1, Zenon
      <4>4. \A i \in 1..Len(data[f]) : Len(data[f][i]) >= 4
        BY <4>2, <4>3
      <4> QED
        BY <4>4
    <3> QED
      BY <3>1, <3>2 DEF StoreInv, Sound, Good
  <2> QED
    BY <2>1 DEF StoreInv, TypeInv, TypeOK, Databases
<1> QED
  BY <1>1, <1>2, <1>3, StoreAlways, PTL DEF Spec

-----------------------------------------------------------------------------
(* Rows                                                                    *)

(* What well-formed files mean for their rows.                             *)
LEMMA StoreSays ==
  ASSUME PlainOutputs, StoreInv
  PROVE  KeysUnique /\ RowsBelong /\ HeaderFirst
<1> SUFFICES ASSUME NEW f \in Files
             PROVE  /\ View(f) # None /\ View(f) # <<>> => View(f)[1] = HeaderLine
                    /\ \A i \in DOMAIN Entries(f) :
                         /\ <<Ssid(f), Key(Entries(f)[i])>> \in seen
                         /\ \A j \in DOMAIN Entries(f) :
                              Key(Entries(f)[i]) = Key(Entries(f)[j]) => i = j
  BY DEF KeysUnique, RowsBelong, HeaderFirst
<1>1. CASE View(f) = None
  BY <1>1 DEF Entries
<1>2. CASE View(f) # None
  <2>1. Good(f, View(f), seen)
    BY <1>2 DEF StoreInv, Sound, View
  <2>2. Entries(f) = Rows(View(f))
    BY <1>2 DEF Entries
  <2>3. View(f) # <<>> => View(f)[1] = HeaderLine
    BY <2>1, HeaderIsLine DEF Good
  <2>4. ASSUME NEW i \in DOMAIN Entries(f)
        PROVE  /\ i + 1 \in 2..Len(View(f)) /\ i \in Int
               /\ Entries(f)[i] = View(f)[i + 1]
    BY <2>1, <2>2, RowIndex
  <2>5. ASSUME NEW i \in DOMAIN Entries(f)
        PROVE  <<Ssid(f), Key(Entries(f)[i])>> \in seen
    <3>1. RowFor(f, Entries(f)[i], seen)
      BY <2>1, <2>4 DEF Good
    <3>2. PICK o \in Outputs, c \in Nat, d \in Nat :
            /\ Entries(f)[i] = Line(o[1], c, d)
            /\ <<Ssid(f), o>> \in seen
      BY <3>1 DEF RowFor
    <3>3. o = <<o[1]>>
      BY DEF PlainOutputs
    <3> QED
      BY <3>2, <3>3 DEF Key, Line
  <2>6. ASSUME NEW i \in DOMAIN Entries(f), NEW j \in DOMAIN Entries(f),
               Key(Entries(f)[i]) = Key(Entries(f)[j])
        PROVE  i = j
    <3>1. View(f)[i + 1][1] = View(f)[j + 1][1]
      BY <2>4, <2>6 DEF Key
    <3> QED
      BY <2>1, <2>4, <3>1 DEF Good
  <2> QED
    BY <2>3, <2>5, <2>6
<1> QED
  BY <1>1, <1>2

(* No two rows of a store have the same output, although push_row and      *)
(* replace_row compare keys with the text of the file, by the key column   *)
(* that the metadata file gives.                                           *)
THEOREM KeysTheorem ==
  ASSUME PlainOutputs
  PROVE  Spec => []KeysUnique
<1>1. StoreInv => KeysUnique
  BY StoreSays
<1> QED
  BY <1>1, StoreAlways, PTL

(* A row of an SSID's store was computed from a beacon of that SSID, in    *)
(* spite of kills, reopened stores and databases that stay open.           *)
THEOREM BelongTheorem ==
  ASSUME PlainOutputs
  PROVE  Spec => []RowsBelong
<1>1. StoreInv => RowsBelong
  BY StoreSays
<1> QED
  BY <1>1, StoreAlways, PTL

(* Line 0 of a storage file is the header or the file is empty: no row is  *)
(* ever written over it.                                                   *)
THEOREM HeaderTheorem ==
  ASSUME PlainOutputs
  PROVE  Spec => []HeaderFirst
<1>1. StoreInv => HeaderFirst
  BY StoreSays
<1> QED
  BY <1>1, StoreAlways, PTL

-----------------------------------------------------------------------------
(* Steps                                                                   *)

(* Every step alters no row that it keeps but for a new last date.         *)
LEMMA NextKeeps ==
  ASSUME PlainOutputs, StoreInv, HandleInv, [Next]_vars,
         NEW f \in Files, View(f) # None, View(f)' # None
  PROVE  Keeps(View(f), View(f)', clock)
<1> USE DEF Opening, Using
<1>1. Good(f, View(f), seen)
  BY DEF StoreInv, Sound, View
<1>2. CASE View(f)' = View(f)
  BY <1>1, <1>2, KeepsSelf
<1>3. CASE UNCHANGED data /\ pc # "write" /\ pc' # "write"
  BY <1>2, <1>3 DEF View
<1>4. CASE UNCHANGED <<data, database, out, pc>>
  BY <1>2, <1>4 DEF View
<1>5. CASE Run \/ Poll
  <2>1. ASSUME NEW s, NEW o, Beacon(s, o)
        PROVE  UNCHANGED data /\ pc # "write" /\ pc' # "write"
    BY <2>1 DEF Beacon, filesVars
  <2> QED
    BY <1>3, <1>5, <2>1 DEF Run, Poll, PollFails, BodyFails, EvalFails, NoSsid,
       Throw, filesVars
<1>6. CASE OpenDatabase
  <2>1. /\ pc # "write" /\ pc' # "write"
        /\ UNCHANGED data \/ data' = [data EXCEPT ![<<snappy, frame.ssid>>] = <<>>]
    BY <1>6 DEF OpenDatabase, Throw
  <2>2. CASE data' = [data EXCEPT ![<<snappy, frame.ssid>>] = <<>>]
    <3>1. View(f)' = View(f) \/ View(f)' = <<>>
      BY <2>1, <2>2 DEF View, StoreInv
    <3>2. <<>> \in Seq(Lines) /\ Len(<<>>) <= 1
      OBVIOUS
    <3> QED
      BY <1>2, <3>1, <3>2, KeepsShort
  <2> QED
    BY <1>3, <2>1, <2>2
<1>7. CASE CreateHeader
  <2>1. /\ pc = "header" /\ pc' = "meta"
        /\ data' = [data EXCEPT ![file] = add_line(data[file], HeaderLine)]
    BY <1>7 DEF CreateHeader
  <2>2. data[file] = <<>>
    BY <2>1 DEF StoreInv
  <2>3. CASE f # file
    BY <1>2, <2>1, <2>3 DEF View
  <2>4. CASE f = file
    <3>1. View(f) = <<>> /\ View(f)' = add_line(<<>>, HeaderLine)
      BY <2>1, <2>2, <2>4 DEF View, StoreInv
    <3>2. View(f)' \in Seq(Lines)
      BY <3>1, HeaderGood DEF Good
    <3>3. \A i \in 2..Len(<<>>) : FALSE
      OBVIOUS
    <3> QED
      BY <3>1, <3>3 DEF Keeps
  <2> QED
    BY <2>3, <2>4
<1>8. CASE CreateMetadata \/ CreateKey \/ CreateColumns \/ Construct \/ ConstructFails
  BY <1>3, <1>8 DEF CreateMetadata, CreateKey, CreateColumns, Construct,
     ConstructFails, Throw, filesVars
<1>9. ASSUME NEW last, LookupFails(last) PROVE Keeps(View(f), View(f)', clock)
  BY <1>3, <1>9 DEF LookupFails, Throw, filesVars
<1>10. ASSUME NEW last, AddEntry(last) PROVE Keeps(View(f), View(f)', clock)
  <2>1. /\ pc = "lookup" /\ pc' = "notify" /\ UNCHANGED database
        /\ data' = [data EXCEPT ![database.file] =
                      add_line(data[database.file], values_to_line(NewValues(last)))]
    BY <1>10 DEF AddEntry, heapVars
  <2>2. CASE f # database.file
    BY <1>2, <2>1, <2>2 DEF View
  <2>3. CASE f = database.file
    <3>1. Keeps(data[f], data'[f], clock)
      BY <1>10, <2>3, InsertedSound
    <3> QED
      BY <2>1, <3>1 DEF View
  <2> QED
    BY <2>2, <2>3
<1>11. CASE ReplaceEntry
  <2>1. /\ pc = "lookup" /\ pc' = "write" /\ UNCHANGED database
        /\ data' = [data EXCEPT ![database.file] = <<>>]
    BY <1>11 DEF ReplaceEntry
  <2>2. CASE f # database.file
    BY <1>2, <2>1, <2>2 DEF View
  <2>3. CASE f = database.file
    <3>1. Keeps(data[f], out', clock)
      BY <1>11, <2>3, RefreshedSound
    <3> QED
      BY <2>1, <2>3, <3>1 DEF View
  <2> QED
    BY <2>2, <2>3
<1>12. CASE WriteBack
  <2>1. /\ pc = "write" /\ pc' = "poll" /\ UNCHANGED database
        /\ data' = [data EXCEPT ![database.file] = out]
    BY <1>12 DEF WriteBack
  <2>2. View(f)' = View(f)
    BY <2>1 DEF View, StoreInv
  <2> QED
    BY <1>2, <2>2
<1>13. CASE Notify \/ WildKey \/ Unwind \/ Restart
  BY <1>3, <1>13 DEF Notify, WildKey, Unwind, Restart, filesVars
<1>14. CASE Crash
  <2>1. CASE pc # "write" /\ UNCHANGED data
    BY <1>3, <1>14, <2>1 DEF Crash
  <2>2. CASE pc = "write" /\ \E n \in 0..Len(out) :
               data' = [data EXCEPT ![database.file] = SubSeq(out, 1, n)]
    <3>1. PICK n \in 0..Len(out) :
            data' = [data EXCEPT ![database.file] = SubSeq(out, 1, n)]
      BY <2>2
    <3>2. pc' = "dead"
      BY <1>14 DEF Crash
    <3>3. CASE f # database.file
      BY <1>2, <2>2, <3>1, <3>2, <3>3 DEF View
    <3>4. CASE f = database.file
      <4>1. View(f) = out /\ View(f)' = SubSeq(out, 1, n)
        BY <2>2, <3>1, <3>2, <3>4 DEF View, StoreInv
      <4> QED
        BY <1>1, <4>1, KeepsPrefix
    <3> QED
      BY <3>3, <3>4
  <2> QED
    BY <1>14, <2>1, <2>2 DEF Crash
<1>15. CASE Tick \/ (\E c \in Codes : EditSnappy(c)) \/ UNCHANGED vars
  BY <1>4, <1>15 DEF Tick, EditSnappy, vars, filesVars, heapVars
<1> QED
  BY <1>5, <1>6, <1>7, <1>8, <1>9, <1>10, <1>11, <1>12, <1>13, <1>14, <1>15
     DEF Next, Process, Store, World

(* The same for the rows as RowsKept numbers them.                         *)
LEMMA NextRowsKept ==
  ASSUME PlainOutputs, StoreInv, StoreInv', HandleInv, [Next]_vars,
         NEW f \in Files, NEW i \in DOMAIN Entries(f), NEW j \in DOMAIN Entries(f)',
         Key(Entries(f)'[j]) = Key(Entries(f)[i])
  PROVE  /\ Created(Entries(f)'[j]) = Created(Entries(f)[i])
         /\ Last(Entries(f)'[j]) \in {Last(Entries(f)[i]), clock}
<1>1. View(f) # None /\ View(f)' # None
  BY DEF Entries
<1>2. Good(f, View(f), seen)
  BY <1>1 DEF StoreInv, Sound, View
<1>3. Good(f, View(f)', seen')
  BY <1>1 DEF StoreInv, Sound, View
<1>4. Entries(f) = Rows(View(f)) /\ Entries(f)' = Rows(View(f)')
  BY <1>1 DEF Entries
<1>5. i + 1 \in 2..Len(View(f)) /\ Entries(f)[i] = View(f)[i + 1]
  BY <1>2, <1>4, RowIndex
<1>6. j + 1 \in 2..Len(View(f)') /\ Entries(f)'[j] = View(f)'[j + 1]
  BY <1>3, <1>4, RowIndex
<1>7. Keeps(View(f), View(f)', clock)
  BY <1>1, NextKeeps
<1> QED
  BY <1>5, <1>6, <1>7 DEF Keeps, Key, Created, Last

(* A step that keeps a row keeps its creation date, and its last date      *)
(* unless the clock gives a new one: refreshing one row leaves the others  *)
(* as they are, and neither a kill nor a new start of run() alters a row   *)
(* it does not lose.                                                       *)
THEOREM RowsKeptTheorem ==
  ASSUME PlainOutputs
  PROVE  Spec => RowsKept
<1>1. Spec => [](StoreInv /\ HandleInv)
  BY StoreAlways
<1>2. StoreInv /\ StoreInv' /\ HandleInv /\ [Next]_vars
      => [\A f \in Files : \A i \in DOMAIN Entries(f) :
            LET row == Entries(f)[i]
            IN \A j \in DOMAIN Entries(f)' :
                 Key(Entries(f)'[j]) = Key(row) =>
                   /\ Created(Entries(f)'[j]) = Created(row)
                   /\ Last(Entries(f)'[j]) \in {Last(row), clock}]_vars
  BY NextRowsKept
<1> QED
  BY <1>1, <1>2, PTL DEF Spec, RowsKept

=============================================================================
