------------------------------ MODULE SnapDesk ------------------------------
(***************************************************************************)
(* The SnapDesk daemon: main()'s rerun loop, run()'s polling loop, the     *)
(* Database and Csv objects it opens per SSID, and the files they keep.    *)
(*                                                                         *)
(* One step per change of a file, of the notifications or of what outlives *)
(* an exception, in the order of the code; the process may be killed       *)
(* between any two of them.  Decoding a frame and evaluating the script    *)
(* are abstracted to their outcome: an SSID and an output, or a throw.     *)
(*                                                                         *)
(* A storage file is named by the hash of snappy.txt, abstracted to its    *)
(* content, and by the SSID.                                               *)
(***************************************************************************)
EXTENDS CsvText

CONSTANTS
  Ssids,        \* values of char_string() of the SSID element
  EmptyName,    \* the SSID ""
  Unstorable,   \* SSIDs that are no file name (one with a '/')
  Outputs,      \* strings the script may evaluate to
  Codes,        \* contents of snappy.txt
  Garbage,      \* values of an uninitialised size_t
  None,         \* no file, a null pointer
  MaxClock,     \* bound: dates
  MaxCrashes,   \* bound: kills of the process
  MaxEdits      \* bound: edits of snappy.txt

ASSUME NameAssumption ==
  /\ EmptyName \in Ssids /\ None \notin Ssids
  /\ Unstorable \subseteq Ssids
  /\ None \notin Outputs
  /\ Codes # {}
  /\ Garbage \subseteq Nat /\ Garbage # {}
ASSUME WordAssumption ==
  NotFound \in Nat /\ NotFound > 3 /\ \A n \in Garbage : n <= NotFound
ASSUME LimitAssumption == MaxClock \in Nat /\ MaxCrashes \in Nat /\ MaxEdits \in Nat

VARIABLES
  data, meta,     \* the .csv and .metadata file of each store, None if absent
  snappy,         \* the content of snappy.txt
  pc,             \* where the process is; "dead" when there is none
  frame,          \* [ssid, out] of the beacon being processed
  body,           \* beacon_frame->body: "null", "live" or "dangling"
  current_ssid,
  file,           \* the store that Database's constructor is opening
  database,       \* [file, ncols, key] or None
  out,            \* the text replace_line is about to write
  clock, crashes, edits,
  notified,       \* history: notifications sent for each store and output
  seen            \* history: the <<ssid, output>> pairs of processed beacons

filesVars == <<data, meta>>
heapVars == <<frame, body, current_ssid, file, database, out>>
worldVars == <<snappy, clock, crashes, edits>>
historyVars == <<notified, seen>>
vars == <<filesVars, heapVars, worldVars, historyVars, pc>>

Files == Codes \X Ssids
Ssid(f) == f[2]
NoFrame == [ssid |-> EmptyName, out |-> EmptyString]

Init ==
  /\ data = [f \in Files |-> None] /\ meta = [f \in Files |-> None]
  /\ snappy \in Codes
  /\ pc = "start"
  /\ frame = NoFrame /\ body = "null"
  /\ current_ssid = EmptyName /\ file = None /\ database = None /\ out = <<>>
  /\ clock = 0 /\ crashes = 0 /\ edits = 0
  /\ notified = [f \in Files |-> [o \in Outputs |-> 0]]
  /\ seen = {}

-----------------------------------------------------------------------------
(* run() up to its loop: fresh objects.  An exception here, in front of     *)
(* run()'s try block, goes straight to main()'s loop: the process is at     *)
(* "start" again and nothing the model keeps has changed.                   *)

Run ==
  /\ pc = "start"
  /\ pc' = "poll"
  /\ frame' = NoFrame /\ body' = "null" /\ current_ssid' = EmptyName
  /\ file' = None /\ database' = None /\ out' = <<>>
  /\ UNCHANGED <<filesVars, worldVars, historyVars>>

-----------------------------------------------------------------------------
(* One turn of the loop: update_raw_data, decode, get_value                *)

Throw == pc' = "unwind"

\* The device cannot be opened, or the frame is too short for its header:
\* nothing was deleted yet.
PollFails ==
  /\ pc = "poll"
  /\ Throw
  /\ UNCHANGED <<filesVars, heapVars, worldVars, historyVars>>

\* decode deletes the old body, then get_body throws: body still points at it.
BodyFails ==
  /\ pc = "poll"
  /\ Throw
  /\ body' = IF body = "live" THEN "dangling" ELSE body
  /\ UNCHANGED <<filesVars, worldVars, historyVars, frame, current_ssid,
                 file, database, out>>

\* The script throws on a decoded frame.
EvalFails ==
  /\ pc = "poll"
  /\ Throw
  /\ body' = "live"
  /\ UNCHANGED <<filesVars, worldVars, historyVars, frame, current_ssid,
                 file, database, out>>

\* A beacon without an SSID is skipped.
NoSsid ==
  /\ pc = "poll"
  /\ body' = "live"
  /\ UNCHANGED <<filesVars, worldVars, historyVars, pc, frame,
                 current_ssid, file, database, out>>

\* Variant: the database is kept although the SSID changed.
Kept_cached(s) == database
\* A beacon of another SSID than the last one drops the open database.
Kept(s) == IF s = current_ssid THEN database ELSE None

\* Variant: a dropped database is not opened again.
Opens_never(kept) == FALSE
Opens(kept) == kept = None

Beacon(s, o) ==
  /\ pc = "poll"
  /\ body' = "live"
  /\ frame' = [ssid |-> s, out |-> o]
  /\ seen' = seen \cup {<<s, o>>}
  /\ current_ssid' = s
  /\ database' = Kept(s)
  /\ pc' = IF Opens(Kept(s)) THEN "open" ELSE "lookup"
  /\ UNCHANGED <<filesVars, worldVars, file, out, notified>>

-----------------------------------------------------------------------------
(* Database's constructor, Csv::create and Csv's constructor               *)

\* new_file on a name that is no file name fails silently, then add_line
\* throws.
OpenDatabase ==
  LET f == <<snappy, frame.ssid>> IN
  /\ pc = "open"
  /\ file' = f
  /\ \/ /\ data[f] # None
        /\ pc' = "construct"
        /\ UNCHANGED data
     \/ /\ data[f] = None /\ frame.ssid \in Unstorable
        /\ Throw
        /\ UNCHANGED data
     \/ /\ data[f] = None /\ frame.ssid \notin Unstorable
        /\ data' = [data EXCEPT ![f] = <<>>]
        /\ pc' = "header"
  /\ UNCHANGED <<meta, worldVars, historyVars, frame, body, current_ssid,
                 database, out>>

CreateHeader ==
  /\ pc = "header"
  /\ data' = [data EXCEPT ![file] = add_line(@, HeaderLine)]
  /\ pc' = "meta"
  /\ UNCHANGED <<meta, heapVars, worldVars, historyVars>>

CreateMetadata ==
  /\ pc = "meta"
  /\ meta' = [meta EXCEPT ![file] = <<>>]
  /\ pc' = "key"
  /\ UNCHANGED <<data, heapVars, worldVars, historyVars>>

CreateKey ==
  /\ pc = "key"
  /\ meta' = [meta EXCEPT ![file] = Append(@, KEY_COLUMN_NUMBER)]
  /\ pc' = "columns"
  /\ UNCHANGED <<data, heapVars, worldVars, historyVars>>

\* Variant: the number of columns is not written.
CreateColumns_missing ==
  /\ pc = "columns"
  /\ pc' = "construct"
  /\ UNCHANGED <<filesVars, heapVars, worldVars, historyVars>>

CreateColumns ==
  /\ pc = "columns"
  /\ meta' = [meta EXCEPT ![file] = Append(@, Len(COLUMN_NAMES))]
  /\ pc' = "construct"
  /\ UNCHANGED <<data, heapVars, worldVars, historyVars>>

\* What _string_to_size_t may return for line n of a metadata file: sscanf
\* leaves the variable uninitialised when the line is empty.
string_to_size_t(lines, n) == IF n < Len(lines) THEN {lines[n + 1]} ELSE Garbage

Construct ==
  /\ pc = "construct"
  /\ meta[file] # None
  /\ \E ncols \in string_to_size_t(meta[file], COLUMN_NUMBER_LINE_NUMBER),
        key \in string_to_size_t(meta[file], KEY_LINE_NUMBER) :
       database' = [file |-> file, ncols |-> ncols, key |-> key]
  /\ file' = None
  /\ pc' = "lookup"
  /\ UNCHANGED <<filesVars, worldVars, historyVars, frame, body,
                 current_ssid, out>>

ConstructFails ==
  /\ pc = "construct"
  /\ meta[file] = None
  /\ Throw
  /\ UNCHANGED <<filesVars, heapVars, worldVars, historyVars>>

-----------------------------------------------------------------------------
(* get_key_of_entries, then add_entry or get_cell and replace_entry        *)

Text == data[database.file]
Column(name) == get_column_number(Text, database.ncols, name)
Row == get_key_position(Text, database.key, frame.out)
Known == RowsWithValue(Text, Column(<<COutput>>), frame.out) # {}

\* The key that push_row and replace_row check.  A key column outside the
\* vector makes operator[] read what lies behind it.
KeyValue(values) ==
  IF database.key < Len(values) THEN values[database.key + 1] ELSE <<None>>

Usable ==
  /\ Column(<<COutput>>) < database.ncols
  /\ database.ncols = Len(COLUMN_NAMES)

\* push_row accepts the values of a new entry.
Inserts(values) ==
  /\ Usable /\ ~ Known
  /\ get_key_position(Text, database.key, KeyValue(values)) = NotFound

\* get_cell finds the creation date, replace_row accepts the new values.
LineOfRow == (Row + HEADER_SIZE) % (NotFound + 1)
CreationDate == get_cell_from_row(get_line(Text, LineOfRow), Column(<<CCreation>>))
NewValues(last) == <<frame.out, <<clock>>, <<last>>>>
\* Variants: the dates swapped; a new creation date.
Refreshed_swapped == <<frame.out, <<clock>>, CreationDate>>
Refreshed_anew == <<frame.out, <<clock>>, <<clock>>>>
Refreshed == <<frame.out, CreationDate, <<clock>>>>

\* Variant: get_cell accepts row (size_t) -1.
Replaces_unchecked ==
  /\ Usable /\ Known
  /\ Column(<<CCreation>>) < database.ncols
  /\ get_key_position(Text, database.key, KeyValue(Refreshed)) \in {Row, NotFound}

Replaces ==
  /\ Usable /\ Known
  /\ Column(<<CCreation>>) < database.ncols
  /\ Row # NotFound
  /\ get_key_position(Text, database.key, KeyValue(Refreshed)) \in {Row, NotFound}

\* The date is read twice, and the clock may be set in between.
AddEntry(last) ==
  /\ pc = "lookup"
  /\ last \in 0..MaxClock
  /\ Inserts(NewValues(last))
  /\ data' = [data EXCEPT ![database.file] =
                add_line(@, values_to_line(NewValues(last)))]
  /\ clock' = last
  /\ pc' = "notify"
  /\ UNCHANGED <<meta, heapVars, snappy, crashes, edits, notified, seen>>

\* Variant: the user is not told.
Announced_never(count) == count
Announced(count) == count + 1

Notify ==
  /\ pc = "notify"
  /\ notified' = [notified EXCEPT ![database.file][frame.out] = Announced(@)]
  /\ pc' = "poll"
  /\ UNCHANGED <<filesVars, heapVars, worldVars, seen>>

\* replace_row, and replace_line up to the truncation of the file
ReplaceEntry ==
  /\ pc = "lookup"
  /\ Replaces
  /\ out' = replace_line(Text, LineOfRow, values_to_line(Refreshed))
  /\ data' = [data EXCEPT ![database.file] = <<>>]
  /\ pc' = "write"
  /\ UNCHANGED <<meta, worldVars, historyVars, frame, body, current_ssid,
                 file, database>>

\* Variant: a refreshed entry is announced too.
WriteBack_loud ==
  /\ pc = "write"
  /\ data' = [data EXCEPT ![database.file] = out]
  /\ out' = <<>>
  /\ pc' = "notify"
  /\ UNCHANGED <<meta, worldVars, historyVars, frame, body, current_ssid,
                 file, database>>

\* The text is flushed and the file closed.
WriteBack ==
  /\ pc = "write"
  /\ data' = [data EXCEPT ![database.file] = out]
  /\ out' = <<>>
  /\ pc' = "poll"
  /\ UNCHANGED <<meta, worldVars, historyVars, frame, body, current_ssid,
                 file, database>>

\* Every other case throws before it changes anything.
LookupFails(last) ==
  /\ pc = "lookup"
  /\ last \in 0..MaxClock
  /\ ~ Inserts(NewValues(last)) /\ ~ Replaces
  /\ Throw
  /\ UNCHANGED <<filesVars, heapVars, worldVars, historyVars>>

\* Reading a key outside the vector may also end the process.
WildKey ==
  /\ pc = "lookup"
  /\ Usable /\ database.key >= Len(COLUMN_NAMES)
  /\ pc' = "dead"
  /\ UNCHANGED <<filesVars, heapVars, worldVars, historyVars>>

-----------------------------------------------------------------------------
(* run()'s catch block and main()'s loop                                   *)

\* ~Frame deletes the body: a dangling one for the second time, which the
\* allocator may survive or answer by aborting the process.
Unwind ==
  /\ pc = "unwind"
  /\ pc' \in IF body = "dangling" THEN {"start", "dead"} ELSE {"start"}
  /\ UNCHANGED <<filesVars, heapVars, worldVars, historyVars>>

\* The service has Restart=always.
Restart ==
  /\ pc = "dead"
  /\ pc' = "start"
  /\ UNCHANGED <<filesVars, heapVars, worldVars, historyVars>>

\* The process is killed, or the machine stops.  A file being written keeps
\* some prefix of the lines that were to be written: that a stop in the middle
\* of a write may also cut a line apart is outside the model.
Crash ==
  /\ pc # "dead" /\ crashes < MaxCrashes
  /\ crashes' = crashes + 1
  /\ pc' = "dead"
  /\ \/ /\ pc = "write"
        /\ \E n \in 0..Len(out) :
             data' = [data EXCEPT ![database.file] = SubSeq(out, 1, n)]
     \/ /\ pc # "write"
        /\ UNCHANGED data
  /\ UNCHANGED <<meta, heapVars, snappy, clock, edits, historyVars>>

-----------------------------------------------------------------------------
(* The world around the process                                            *)

EditSnappy(c) ==
  /\ edits < MaxEdits /\ c # snappy
  /\ snappy' = c
  /\ edits' = edits + 1
  /\ UNCHANGED <<filesVars, heapVars, historyVars, pc, clock, crashes>>

\* get_current_date prints the local time of day: it moves on, and it goes back
\* when daylight saving time ends or somebody sets the clock.
Tick ==
  /\ clock' \in 0..MaxClock
  /\ UNCHANGED <<filesVars, heapVars, historyVars, pc, snappy, crashes,
                 edits>>

-----------------------------------------------------------------------------
Poll ==
  \/ PollFails \/ BodyFails \/ EvalFails \/ NoSsid
  \/ \E s \in Ssids, o \in Outputs : Beacon(s, o)

Store ==
  \/ OpenDatabase \/ CreateHeader \/ CreateMetadata \/ CreateKey \/ CreateColumns
  \/ Construct \/ ConstructFails
  \/ (\E last \in 0..MaxClock : AddEntry(last) \/ LookupFails(last))
  \/ ReplaceEntry \/ WriteBack \/ Notify \/ WildKey

World ==
  \/ Crash \/ Tick
  \/ \E c \in Codes : EditSnappy(c)

Process == Run \/ Store \/ Unwind \/ Restart

Next == Process \/ Poll \/ World

Spec == Init /\ [][Next]_vars

\* The process runs until it waits for a beacon again, an exception reaches
\* main, and the service manager restarts a dead process.  Beacons, kills and
\* edits just happen.
FairSpec == Spec /\ WF_vars(Process)

-----------------------------------------------------------------------------
(* Properties                                                              *)

PCs == {"start", "poll", "open", "header", "meta", "key", "columns",
        "construct", "lookup", "notify", "write", "unwind", "dead"}
Opening == {"header", "meta", "key", "columns", "construct"}
Using == {"lookup", "notify", "write"}

Frames == [ssid : Ssids, out : Outputs \cup {EmptyString}]

\* The type of the state; a database is open while it is used, and a store is
\* being opened only between Database's constructor and Csv's.
TypeOK ==
  /\ \A f \in Files : data[f] = None \/ \A i \in 1..Len(data[f]) : Len(data[f][i]) >= 4
  /\ \A f \in Files : meta[f] = None \/ meta[f] \in Seq(Nat)
  /\ snappy \in Codes
  /\ pc \in PCs
  /\ frame \in Frames
  /\ body \in {"null", "live", "dangling"}
  /\ current_ssid \in Ssids
  /\ pc \in Opening => file \in Files
  /\ database = None \/ database \in [file : Files, ncols : Nat, key : Nat]
  /\ pc \in Using => database # None
  /\ clock \in 0..MaxClock /\ crashes \in 0..MaxCrashes /\ edits \in 0..MaxEdits
  /\ notified \in [Files -> [Outputs -> Nat]]
  /\ seen \subseteq Ssids \X Outputs

\* The text of a store, as if the file that replace_line truncated were
\* written back already.
View(f) == IF pc = "write" /\ database.file = f THEN out ELSE data[f]
Entries(f) == IF View(f) = None THEN <<>> ELSE Rows(View(f))
Key(row) == <<row[1]>>
Created(row) == row[2]
Last(row) == row[3]
RowsOf(f, o) == {i \in DOMAIN Entries(f) : Key(Entries(f)[i]) = o}

\* No two rows of a store have the same output, although push_row and
\* replace_row compare keys with the text of the file and the daemon decides
\* between them by the output column.
KeysUnique ==
  \A f \in Files : \A i, j \in DOMAIN Entries(f) :
    Key(Entries(f)[i]) = Key(Entries(f)[j]) => i = j

\* The database that a beacon is looked up in is the one of its own SSID,
\* although it stays open from one beacon to the next.
HandleMatches == pc \in Using => Ssid(database.file) = frame.ssid

\* A row of an SSID's store was computed from a beacon of that SSID, in spite of
\* kills, reopened stores and databases that stay open.
RowsBelong ==
  \A f \in Files : \A i \in DOMAIN Entries(f) :
    <<Ssid(f), Key(Entries(f)[i])>> \in seen

\* A step that keeps a row keeps its creation date, and its last date unless the
\* clock gives a new one: refreshing one row leaves the others as they are, and
\* neither a kill nor a new start of run() alters a row it does not lose.
RowsKept ==
  [][\A f \in Files : \A i \in DOMAIN Entries(f) :
       LET row == Entries(f)[i]
       IN \A j \in DOMAIN Entries(f)' :
            Key(Entries(f)'[j]) = Key(row) =>
              /\ Created(Entries(f)'[j]) = Created(row)
              /\ Last(Entries(f)'[j]) \in {Last(row), clock}]_vars

\* Line 0 of a storage file is the header or the file is empty: no row is ever
\* written over it, in particular not by a row number of (size_t) -1.
HeaderFirst ==
  \A f \in Files : View(f) # None /\ View(f) # <<>> => View(f)[1] = HeaderLine

\* Every row was announced by a notification, or is about to be.
EveryRowNotified ==
  \A f \in Files, o \in Outputs :
    RowsOf(f, o) # {} =>
      \/ notified[f][o] > 0
      \/ pc = "notify" /\ database.file = f /\ frame.out = o

\* An output is announced as new at most once per store.
NotifiedAtMostOnce == \A f \in Files, o \in Outputs : notified[f][o] <= 1

\* A beacon of these SSIDs ends up in the store of its SSID, and the user was
\* notified of it.
Recorded(ssids) ==
  \A s \in ssids, o \in Outputs :
    (pc \in {"open", "lookup"} /\ frame = [ssid |-> s, out |-> o])
      ~> (/\ pc = "poll" /\ database # None
          /\ Ssid(database.file) = s /\ notified[database.file][o] > 0
          /\ RowsOf(database.file, o) # {})

\* A beacon whose SSID can be the name of a file is recorded and announced,
\* although an exception may send run() back to its start at any beacon.
FrameRecorded == Recorded(Ssids \ Unstorable)

\* So is one whose SSID is no file name: new_file reports no failure.
SlashRecorded == Recorded(Unstorable)

\* The process that nobody kills never dies: run() throws, and main() runs it
\* again.
RerunsItself == crashes = 0 => pc # "dead"

\* A storage file that exists can be opened when run() starts again.
StoreReopenable ==
  pc = "start" =>
    \A f \in Files : data[f] # None => meta[f] # None /\ Len(meta[f]) = 2

\* An entry that was announced is still in its store when run() starts again.
EntriesSurvive ==
  pc = "start" =>
    \A f \in Files, o \in Outputs : notified[f][o] > 0 => RowsOf(f, o) # {}

-----------------------------------------------------------------------------
(* The abstract log that the daemon implements.                            *)

Entry(f, o) ==
  IF RowsOf(f, o) = {}
  THEN None
  ELSE LET row == Entries(f)[CHOOSE i \in RowsOf(f, o) : TRUE]
       IN [created |-> Created(row), last |-> Last(row)]

Log == INSTANCE FingerprintLog WITH
         Stores <- Files,
         Fingerprints <- Outputs,
         Dates <- 0..MaxClock,
         today <- clock,
         entries <- [f \in Files |-> [o \in Outputs |-> Entry(f, o)]],
         pending <- IF pc = "notify" THEN {<<database.file, frame.out>>} ELSE {},
         announced <- notified

\* The daemon keeps the promise of the log: entries are created once, keep
\* their creation date, are refreshed with the date the clock shows, and each
\* is announced exactly once.
ImplementsLog == Log!Spec

=============================================================================
