------------------------- MODULE SnapDeskLogProofs -------------------------
(***************************************************************************)
(* The daemon that nobody kills implements the log that FingerprintLog     *)
(* describes, for every set of SSIDs, codes and plain outputs, and any     *)
(* number of edits and dates.                                              *)
(***************************************************************************)
EXTENDS SnapDeskStoreProofs

(* RowsOf and Entry of SnapDesk, as operators of the rows alone.           *)
Hits(rows, o) == {i \in DOMAIN rows : Key(rows[i]) = o}
EntryAt(rows, o) ==
  IF Hits(rows, o) = {}
  THEN None
  ELSE LET row == rows[CHOOSE i \in Hits(rows, o) : TRUE]
       IN [created |-> Created(row), last |-> Last(row)]

(* Entry reads nothing but the rows of its store.                          *)
LEMMA EntryIsEntryAt ==
  ASSUME NEW f, NEW o
  PROVE  /\ RowsOf(f, o) = Hits(Entries(f), o)
         /\ Entry(f, o) = EntryAt(Entries(f), o)
         /\ RowsOf(f, o)' = Hits(Entries(f)', o)
         /\ Entry(f, o)' = EntryAt(Entries(f)', o)
BY DEF RowsOf, Hits, Entry, EntryAt

(* The entry of an output is its row: keys differ, so there is no other.   *)
LEMMA EntryOfRow ==
  ASSUME PlainOutputs,
         NEW f, NEW text, NEW pairs, Good(f, text, pairs),
         NEW o \in Outputs, NEW c \in Nat, NEW d \in Nat,
         NEW i \in 2..Len(text), text[i] = Line(o[1], c, d)
  PROVE  /\ Hits(Rows(text), o) # {}
         /\ EntryAt(Rows(text), o) = [created |-> c, last |-> d]
<1>1. o = <<o[1]>> /\ Len(text) \in Nat
  BY DEF PlainOutputs, Good
<1>2. i - 1 \in DOMAIN Rows(text) /\ Rows(text)[i - 1] = text[i]
  BY RowsOfText
<1>3. text[i][1] = o[1] /\ text[i][2] = c /\ text[i][3] = d
  BY DEF Line
<1>4. i - 1 \in Hits(Rows(text), o)
  BY <1>1, <1>2, <1>3 DEF Hits, Key
<1>5. ASSUME NEW k \in Hits(Rows(text), o) PROVE k = i - 1
  <2>1. k \in DOMAIN Rows(text) /\ <<Rows(text)[k][1]>> = o
    BY DEF Hits, Key
  <2>2. k \in Int /\ k + 1 \in 2..Len(text) /\ Rows(text)[k] = text[k + 1]
    BY <2>1, RowIndex
  <2>3. text[k + 1][1] = text[i][1]
    BY <1>3, <2>1, <2>2
  <2>4. k + 1 = i
    BY <2>2, <2>3 DEF Good
  <2> QED
    BY <2>2, <2>4
<1>6. (CHOOSE k \in Hits(Rows(text), o) : TRUE) = i - 1
  BY <1>4, <1>5
<1> QED
  BY <1>2, <1>3, <1>4, <1>6 DEF EntryAt, Created, Last

(* An output without a row has no entry.                                   *)
LEMMA EntryOfNone ==
  ASSUME PlainOutputs,
         NEW f, NEW text, NEW pairs, Good(f, text, pairs),
         NEW o \in Outputs, \A i \in 2..Len(text) : text[i][1] # o[1]
  PROVE  Hits(Rows(text), o) = {} /\ EntryAt(Rows(text), o) = None
<1> SUFFICES ASSUME NEW k \in Hits(Rows(text), o) PROVE FALSE
  BY DEF EntryAt
<1>1. k \in DOMAIN Rows(text) /\ <<Rows(text)[k][1]>> = o
  BY DEF Hits, Key
<1>2. k + 1 \in 2..Len(text) /\ Rows(text)[k] = text[k + 1]
  BY <1>1, RowIndex
<1>3. text[k + 1][1] = o[1]
  BY <1>1, <1>2
<1> QED
  BY <1>2, <1>3

(* Two texts with the same row for an output, or with none, have the same  *)
(* entry for it.                                                           *)
LEMMA EntryUnchanged ==
  ASSUME PlainOutputs,
         NEW f, NEW text, NEW next, NEW pairs, NEW more,
         Good(f, text, pairs), Good(f, next, more),
         NEW o \in Outputs,
         \A i \in 2..Len(text) : text[i][1] = o[1]
           => \E j \in 2..Len(next) : next[j] = text[i],
         \A j \in 2..Len(next) : next[j][1] = o[1]
           => \E i \in 2..Len(text) : text[i] = next[j]
  PROVE  /\ Hits(Rows(next), o) = {} <=> Hits(Rows(text), o) = {}
         /\ EntryAt(Rows(next), o) = EntryAt(Rows(text), o)
<1>1. CASE \A i \in 2..Len(text) : text[i][1] # o[1]
  <2>1. \A j \in 2..Len(next) : next[j][1] # o[1]
    BY <1>1
  <2> QED
    BY <1>1, <2>1, EntryOfNone
<1>2. CASE \E i \in 2..Len(text) : text[i][1] = o[1]
  <2>1. PICK i \in 2..Len(text) : text[i][1] = o[1]
    BY <1>2
  <2>2. PICK p \in Outputs, c \in Nat, d \in Nat : text[i] = Line(p[1], c, d)
    <3>1. RowFor(f, text[i], pairs)
      BY DEF Good
    <3> QED
      BY <3>1 DEF RowFor
  <2>3. text[i] = Line(o[1], c, d)
    BY <2>1, <2>2 DEF Line
  <2>4. PICK j \in 2..Len(next) : next[j] = text[i]
    BY <2>1
  <2>5. next[j] = Line(o[1], c, d)
    BY <2>3, <2>4
  <2>6. /\ Hits(Rows(text), o) # {}
        /\ EntryAt(Rows(text), o) = [created |-> c, last |-> d]
    BY <2>3, EntryOfRow
  <2>7. /\ Hits(Rows(next), o) # {}
        /\ EntryAt(Rows(next), o) = [created |-> c, last |-> d]
    BY <2>5, EntryOfRow
  <2> QED
    BY <2>6, <2>7
<1> QED
  BY <1>1, <1>2

(* A row appended for a new output makes its entry and no other.           *)
LEMMA AddedEntries ==
  ASSUME PlainOutputs,
         NEW f, NEW text, NEW next, NEW pairs, NEW more,
         Good(f, text, pairs), Good(f, next, more),
         NEW o \in Outputs, \A i \in 2..Len(text) : text[i][1] # o[1],
         NEW c \in Nat, NEW d \in Nat, Len(text) > 0,
         Len(next) = Len(text) + 1, next[Len(text) + 1] = Line(o[1], c, d),
         \A i \in 1..Len(text) : next[i] = text[i]
  PROVE  /\ Hits(Rows(text), o) = {} /\ EntryAt(Rows(text), o) = None
         /\ Hits(Rows(next), o) # {}
         /\ EntryAt(Rows(next), o) = [created |-> c, last |-> d]
         /\ \A p \in Outputs : p # o =>
              /\ Hits(Rows(next), p) = {} <=> Hits(Rows(text), p) = {}
              /\ EntryAt(Rows(next), p) = EntryAt(Rows(text), p)
<1>1. Len(text) \in Nat /\ next[Len(text) + 1][1] = o[1]
  BY DEF Good, Line
<1>2. Hits(Rows(text), o) = {} /\ EntryAt(Rows(text), o) = None
  BY EntryOfNone
<1>3. /\ Hits(Rows(next), o) # {}
      /\ EntryAt(Rows(next), o) = [created |-> c, last |-> d]
  <2>1. PICK i \in 2..Len(next) : next[i] = Line(o[1], c, d)
    BY <1>1
  <2> QED
    BY <2>1, EntryOfRow
<1>4. ASSUME NEW p \in Outputs, p # o
      PROVE  /\ Hits(Rows(next), p) = {} <=> Hits(Rows(text), p) = {}
             /\ EntryAt(Rows(next), p) = EntryAt(Rows(text), p)
  <2>1. p[1] # o[1]
    BY <1>4 DEF PlainOutputs
  <2>2. \A i \in 2..Len(text) : text[i][1] = p[1]
          => \E j \in 2..Len(next) : next[j] = text[i]
    BY <1>1
  <2>3. \A j \in 2..Len(next) : next[j][1] = p[1]
          => \E i \in 2..Len(text) : text[i] = next[j]
    BY <1>1, <2>1
  <2> QED
    BY <2>2, <2>3, EntryUnchanged
<1> QED
  BY <1>2, <1>3, <1>4

(* A refreshed row leaves the entries of other outputs alone.              *)
LEMMA OtherEntries ==
  ASSUME PlainOutputs,
         NEW f, NEW text, NEW next, NEW pairs, NEW more,
         Good(f, text, pairs), Good(f, next, more),
         Len(next) = Len(text), NEW i \in 2..Len(text),
         \A j \in 1..Len(text) : j # i => next[j] = text[j],
         NEW o \in Outputs, text[i][1] = o[1], next[i][1] = o[1],
         NEW p \in Outputs, p # o
  PROVE  /\ Hits(Rows(next), p) = {} <=> Hits(Rows(text), p) = {}
         /\ EntryAt(Rows(next), p) = EntryAt(Rows(text), p)
<1>1. p[1] # o[1] /\ Len(text) \in Nat
  BY DEF PlainOutputs, Good
<1>2. \A k \in 2..Len(text) : text[k][1] = p[1]
        => \E j \in 2..Len(next) : next[j] = text[k]
  BY <1>1
<1>3. \A j \in 2..Len(next) : next[j][1] = p[1]
        => \E k \in 2..Len(text) : text[k] = next[j]
  BY <1>1
<1> QED
  BY <1>2, <1>3, EntryUnchanged

(* The text next is text with new dates in line i, the row of output o.    *)
RefreshedIn(text, next, i, o, c, old, d) ==
  /\ i \in 2..Len(text)
  /\ text[i] = Line(o[1], c, old)
  /\ Len(next) = Len(text)
  /\ next[i] = Line(o[1], c, d)
  /\ \A j \in 1..Len(text) : j # i => next[j] = text[j]

(* A refreshed row changes the last date of its entry and no other entry.  *)
LEMMA ReplacedEntries ==
  ASSUME PlainOutputs,
         NEW f, NEW text, NEW next, NEW pairs, NEW more,
         Good(f, text, pairs), Good(f, next, more),
         NEW o \in Outputs, NEW c \in Nat, NEW old \in Nat, NEW d \in Nat,
         NEW i, RefreshedIn(text, next, i, o, c, old, d)
  PROVE  /\ Hits(Rows(text), o) # {}
         /\ EntryAt(Rows(text), o) = [created |-> c, last |-> old]
         /\ EntryAt(Rows(next), o) = [created |-> c, last |-> d]
         /\ \A p \in Outputs : Hits(Rows(next), p) = {} <=> Hits(Rows(text), p) = {}
         /\ \A p \in Outputs : p # o => EntryAt(Rows(next), p) = EntryAt(Rows(text), p)
<1>0. /\ i \in 2..Len(text) /\ text[i] = Line(o[1], c, old)
      /\ Len(next) = Len(text) /\ next[i] = Line(o[1], c, d)
      /\ \A j \in 1..Len(text) : j # i => next[j] = text[j]
  BY DEF RefreshedIn
<1>1. next[i][1] = o[1] /\ text[i][1] = o[1]
  BY <1>0 DEF Line
<1>2. /\ Hits(Rows(text), o) # {}
      /\ EntryAt(Rows(text), o) = [created |-> c, last |-> old]
  BY <1>0, EntryOfRow
<1>3. /\ Hits(Rows(next), o) # {}
      /\ EntryAt(Rows(next), o) = [created |-> c, last |-> d]
  <2>1. i \in 2..Len(next)
    BY <1>0
  <2> QED
    BY <1>0, <2>1, EntryOfRow
<1>4. ASSUME NEW p \in Outputs, p # o
      PROVE  /\ Hits(Rows(next), p) = {} <=> Hits(Rows(text), p) = {}
             /\ EntryAt(Rows(next), p) = EntryAt(Rows(text), p)
  BY <1>0, <1>1, <1>4, OtherEntries
<1> QED
  BY <1>2, <1>3, <1>4

-----------------------------------------------------------------------------
(* Announcements                                                           *)

(* The entry was created and its notification is the next step.            *)
Due(f, o) == pc = "notify" /\ database.file = f /\ frame.out = o

(* Exactly the entries whose notification is not due were announced, once. *)
(* A daemon that nobody kills leaves "notify" by Notify alone.             *)
LogInv ==
  /\ crashes = 0
  /\ clock <= MaxClock
  /\ DOMAIN notified = Files
  /\ \A f \in Files : DOMAIN notified[f] = Outputs
  /\ pc = "notify" => RowsOf(database.file, frame.out) # {}
  /\ \A f \in Files, o \in Outputs :
       notified[f][o] = IF RowsOf(f, o) = {} \/ Due(f, o) THEN 0 ELSE 1

(* A file that is empty or holds the header alone has no rows.             *)
LEMMA NoRows == Rows(<<>>) = <<>> /\ Rows(add_line(<<>>, HeaderLine)) = <<>>
<1>1. Rows(<<>>) = <<>>
  BY DEF Rows, HEADER_SIZE
<1>2. PICK text : text = add_line(<<>>, HeaderLine)
  OBVIOUS
<1>3. Len(text) = 1
  BY <1>2 DEF add_line
<1>4. SubSeq(text, 2, 1) = <<>>
  OBVIOUS
<1>5. Rows(text) = SubSeq(text, 2, 1)
  BY <1>3 DEF Rows, HEADER_SIZE
<1> QED
  BY <1>1, <1>2, <1>4, <1>5

(* Only adding and refreshing an entry change the rows of a store: opening *)
(* a store, truncating a file and writing it back do not.                  *)
LEMMA SameEntries ==
  ASSUME StoreInv, [Next]_vars, ~ Crash, ~ ReplaceEntry,
         \A last : ~ AddEntry(last),
         NEW f \in Files
  PROVE  Entries(f)' = Entries(f)
<1>1. CASE View(f)' = View(f)
  BY <1>1 DEF Entries
<1>2. CASE UNCHANGED data /\ pc # "write" /\ pc' # "write"
  BY <1>1, <1>2 DEF View
<1>3. CASE UNCHANGED <<data, database, out, pc>>
  BY <1>1, <1>3 DEF View
<1>4. CASE Run \/ Poll
  <2>1. ASSUME NEW s, NEW o, Beacon(s, o)
        PROVE  UNCHANGED data /\ pc # "write" /\ pc' # "write"
    BY <2>1 DEF Beacon, filesVars
  <2> QED
    BY <1>2, <1>4, <2>1 DEF Run, Poll, PollFails, BodyFails, EvalFails, NoSsid,
       Throw, filesVars
<1>5. CASE OpenDatabase
  <2>1. /\ pc # "write" /\ pc' # "write"
        /\ \/ UNCHANGED data
           \/ /\ data[<<snappy, frame.ssid>>] = None
              /\ data' = [data EXCEPT ![<<snappy, frame.ssid>>] = <<>>]
    BY <1>5 DEF OpenDatabase, Throw
  <2>2. CASE /\ data[<<snappy, frame.ssid>>] = None
             /\ data' = [data EXCEPT ![<<snappy, frame.ssid>>] = <<>>]
    <3>1. CASE f # <<snappy, frame.ssid>>
      BY <1>1, <2>1, <2>2, <3>1 DEF View, StoreInv
    <3>2. CASE f = <<snappy, frame.ssid>>
      <4>1. View(f) = None /\ View(f)' = <<>>
        BY <2>1, <2>2, <3>2 DEF View, StoreInv
      <4> QED
        BY <4>1, NoRows DEF Entries
    <3> QED
      BY <3>1, <3>2
  <2> QED
    BY <1>2, <2>1, <2>2
<1>6. CASE CreateHeader
  <2>1. /\ pc = "header" /\ pc' = "meta"
        /\ data' = [data EXCEPT ![file] = add_line(data[file], HeaderLine)]
    BY <1>6 DEF CreateHeader
  <2>2. data[file] = <<>>
    BY <2>1 DEF StoreInv
  <2>3. CASE f # file
    BY <1>1, <2>1, <2>3 DEF View
  <2>4. CASE f = file
    <3>1. View(f) = <<>> /\ View(f)' = add_line(<<>>, HeaderLine)
      BY <2>1, <2>2, <2>4 DEF View, StoreInv
    <3> QED
      BY <3>1, NoRows DEF Entries
  <2> QED
    BY <2>3, <2>4
<1>7. CASE CreateMetadata \/ CreateKey \/ CreateColumns \/ Construct \/ ConstructFails
  BY <1>2, <1>7 DEF CreateMetadata, CreateKey, CreateColumns, Construct,
     ConstructFails, Throw, filesVars
<1>8. ASSUME NEW last, LookupFails(last) PROVE Entries(f)' = Entries(f)
  BY <1>2, <1>8 DEF LookupFails, Throw, filesVars
<1>9. CASE WriteBack
  <2>1. /\ pc = "write" /\ pc' = "poll" /\ UNCHANGED database
        /\ data' = [data EXCEPT ![database.file] = out]
    BY <1>9 DEF WriteBack
  <2>2. View(f)' = View(f)
    BY <2>1 DEF View, StoreInv
  <2> QED
    BY <1>1, <2>2
<1>10. CASE Notify \/ WildKey \/ Unwind \/ Restart
  BY <1>2, <1>10 DEF Notify, WildKey, Unwind, Restart, filesVars
<1>11. CASE Tick \/ (\E c \in Codes : EditSnappy(c)) \/ UNCHANGED vars
  BY <1>3, <1>11 DEF Tick, EditSnappy, vars, filesVars, heapVars
<1> QED
  BY <1>4, <1>5, <1>6, <1>7, <1>8, <1>9, <1>10, <1>11
     DEF Next, Process, Store, World

(* A step leaves an entry alone.                                           *)
Untouched(f, o) == (RowsOf(f, o)' = {} <=> RowsOf(f, o) = {}) /\ Entry(f, o)' = Entry(f, o)

(* A step that keeps the rows of a store leaves its entries alone.         *)
LEMMA SameIsUntouched ==
  ASSUME NEW f, NEW o, Entries(f)' = Entries(f)
  PROVE  Untouched(f, o)
BY EntryIsEntryAt DEF Untouched

(* AddEntry creates the entry of the beacon's output, which was not there, *)
(* and no other.                                                           *)
LEMMA InsertStep ==
  ASSUME PlainOutputs, NoneApart, StoreInv, StoreInv', HandleInv,
         NEW last, AddEntry(last),
         NEW f \in Files, NEW o \in Outputs
  PROVE  /\ f = database.file /\ o = frame.out =>
              /\ RowsOf(f, o) = {} /\ Entry(f, o) = None
              /\ RowsOf(f, o)' # {}
              /\ Entry(f, o)' = [created |-> clock, last |-> clock']
         /\ f # database.file \/ o # frame.out => Untouched(f, o)
<1>1. /\ pc = "lookup" /\ pc' = "notify" /\ UNCHANGED <<database, frame>>
      /\ data' = [data EXCEPT ![database.file] =
                    add_line(data[database.file], values_to_line(NewValues(last)))]
  BY DEF AddEntry, heapVars
<1>2. /\ View(f) = data[f] /\ View(f)' = data'[f]
  BY <1>1 DEF View
<1>3. CASE f # database.file
  <2>1. View(f)' = View(f)
    BY <1>1, <1>2, <1>3
  <2>2. Entries(f)' = Entries(f)
    BY <2>1 DEF Entries
  <2> QED
    BY <1>3, <2>2, SameIsUntouched
<1>4. CASE f = database.file
  <2>1. OpenStore /\ Processed
    BY <1>1 DEF StoreInv, Using
  <2>2. Good(f, data[f], seen)
    BY <1>4, <2>1 DEF OpenStore, Sound
  <2>3. /\ Good(f, data'[f], seen)
        /\ \A i \in 2..Len(data[f]) : data[f][i][1] # frame.out[1]
        /\ data'[f] = add_line(data[f], Line(frame.out[1], clock, clock'))
        /\ clock' \in Nat /\ Len(data[f]) > 0
    BY <1>4, InsertedSound DEF Text
  <2>4. frame.out \in Outputs /\ clock \in Nat
    BY <2>1 DEF Processed, StoreInv
  <2>5. PICK text, next, x, d :
          text = data[f] /\ next = data'[f] /\ x = frame.out /\ d = clock'
    OBVIOUS
  <2>6. /\ Good(f, text, seen) /\ Good(f, next, seen)
        /\ x \in Outputs /\ clock \in Nat /\ d \in Nat /\ Len(text) > 0
        /\ \A i \in 2..Len(text) : text[i][1] # x[1]
    BY <2>2, <2>3, <2>4, <2>5
  <2>9. /\ Len(next) = Len(text) + 1 /\ next[Len(text) + 1] = Line(x[1], clock, d)
        /\ \A i \in 1..Len(text) : next[i] = text[i]
    <3>1. text \in Seq(Lines) /\ Line(x[1], clock, d) \in Lines
      BY <2>6 DEF Good, Lines
    <3>2. next = Append(text, Line(x[1], clock, d))
      BY <2>3, <2>5 DEF add_line
    <3> QED
      BY <3>1, <3>2, AppendProperties
  <2>7. /\ Hits(Rows(text), x) = {} /\ EntryAt(Rows(text), x) = None
        /\ Hits(Rows(next), x) # {}
        /\ EntryAt(Rows(next), x) = [created |-> clock, last |-> d]
        /\ \A p \in Outputs : p # x =>
             /\ Hits(Rows(next), p) = {} <=> Hits(Rows(text), p) = {}
             /\ EntryAt(Rows(next), p) = EntryAt(Rows(text), p)
    BY <2>6, <2>9, AddedEntries
  <2>8. Entries(f) = Rows(text) /\ Entries(f)' = Rows(next)
    BY <1>2, <2>5, <2>6 DEF Entries, Good, NoneApart
  <2> QED
    BY <1>4, <2>5, <2>7, <2>8, EntryIsEntryAt DEF Untouched
<1> QED
  BY <1>3, <1>4

(* ReplaceEntry sets the last date of the beacon's entry to the present    *)
(* and leaves the others alone, although the file is truncated by then.    *)
LEMMA RefreshStep ==
  ASSUME PlainOutputs, NoneApart, StoreInv, StoreInv', HandleInv,
         ReplaceEntry,
         NEW f \in Files, NEW o \in Outputs
  PROVE  /\ f = database.file /\ o = frame.out =>
              /\ RowsOf(f, o) # {} /\ RowsOf(f, o)' # {}
              /\ \E c, d \in Nat :
                   /\ Entry(f, o) = [created |-> c, last |-> d]
                   /\ Entry(f, o)' = [created |-> c, last |-> clock]
         /\ f # database.file \/ o # frame.out => Untouched(f, o)
<1>1. /\ pc = "lookup" /\ pc' = "write" /\ UNCHANGED <<database, frame, clock, seen>>
      /\ data' = [data EXCEPT ![database.file] = <<>>]
  BY DEF ReplaceEntry, worldVars, historyVars
<1>2. CASE f # database.file
  <2>1. View(f)' = View(f)
    BY <1>1, <1>2 DEF View
  <2>2. Entries(f)' = Entries(f)
    BY <2>1 DEF Entries
  <2> QED
    BY <1>2, <2>2, SameIsUntouched
<1>3. CASE f = database.file
  <2>1. OpenStore /\ Processed /\ clock \in Nat
    BY <1>1 DEF StoreInv, Using
  <2>2. /\ Good(f, data[f], seen) /\ Good(f, out', seen)
    BY <1>3, <2>1, RefreshedSound DEF OpenStore, Sound
  <2>3. PICK i \in 2..Len(data[f]), c \in Nat, d \in Nat :
          /\ data[f][i] = Line(frame.out[1], c, d)
          /\ out' = [data[f] EXCEPT ![i] = Line(frame.out[1], c, clock)]
    BY <1>3, RefreshedSound DEF Text
  <2>4. PICK text, next, x, now :
          text = data[f] /\ next = out' /\ x = frame.out /\ now = clock
    OBVIOUS
  <2>5. /\ Good(f, text, seen) /\ Good(f, next, seen)
        /\ x \in Outputs /\ now \in Nat /\ i \in 2..Len(text)
        /\ text[i] = Line(x[1], c, d)
    BY <2>1, <2>2, <2>3, <2>4 DEF Processed
  <2>6. RefreshedIn(text, next, i, x, c, d, now)
    <3>1. text \in Seq(Lines) /\ Len(text) \in Nat /\ Line(x[1], c, now) \in Lines
      BY <2>5 DEF Good, Lines
    <3>2. next = [text EXCEPT ![i] = Line(x[1], c, now)]
      BY <2>3, <2>4
    <3> QED
      BY <2>5, <3>1, <3>2, ExceptSeq DEF RefreshedIn
  <2>7. View(f) = text /\ View(f)' = next
    BY <1>1, <1>3, <2>4 DEF View
  <2>8. Entries(f) = Rows(text) /\ Entries(f)' = Rows(next)
    BY <2>5, <2>7 DEF Entries, Good, NoneApart
  <2>9. /\ RowsOf(f, o) = Hits(Rows(text), o) /\ Entry(f, o) = EntryAt(Rows(text), o)
        /\ RowsOf(f, o)' = Hits(Rows(next), o) /\ Entry(f, o)' = EntryAt(Rows(next), o)
    BY <2>8, EntryIsEntryAt
  <2>10. /\ Hits(Rows(text), x) # {}
         /\ EntryAt(Rows(text), x) = [created |-> c, last |-> d]
         /\ EntryAt(Rows(next), x) = [created |-> c, last |-> now]
         /\ \A p \in Outputs : Hits(Rows(next), p) = {} <=> Hits(Rows(text), p) = {}
         /\ \A p \in Outputs : p # x => EntryAt(Rows(next), p) = EntryAt(Rows(text), p)
    BY <2>5, <2>6, ReplacedEntries
  <2>11. CASE o = x
    BY <2>3, <2>4, <2>5, <2>9, <2>10, <2>11, <1>3
  <2>12. CASE o # x
    BY <2>4, <2>9, <2>10, <2>12, <1>3 DEF Untouched
  <2> QED
    BY <2>11, <2>12
<1> QED
  BY <1>2, <1>3

(* Every other step either notifies, or leaves the notifications alone and *)
(* neither begins nor ends one.                                            *)
LEMMA OtherSteps ==
  ASSUME [Next]_vars, ~ Crash, ~ ReplaceEntry, \A last : ~ AddEntry(last)
  PROVE  \/ Notify
         \/ UNCHANGED <<pc, database, frame, notified>>
         \/ pc # "notify" /\ pc' # "notify" /\ UNCHANGED notified
BY DEF Next, Process, Poll, Store,
   World, vars, heapVars, historyVars, Throw,
   Run, PollFails, BodyFails, EvalFails, NoSsid, Beacon,
   OpenDatabase, CreateHeader, CreateMetadata, CreateKey, CreateColumns,
   Construct, ConstructFails, LookupFails, WriteBack, WildKey,
   Unwind, Restart, EditSnappy, Tick

(* Every step of a daemon that nobody kills keeps entries and              *)
(* announcements in agreement.                                             *)
LEMMA NextLog ==
  ASSUME PlainOutputs, NoneApart, MaxCrashes = 0
  PROVE  /\ StoreInv /\ StoreInv' /\ HandleInv /\ LogInv /\ [Next]_vars => LogInv'
<1> SUFFICES ASSUME StoreInv, StoreInv', HandleInv, LogInv, [Next]_vars
             PROVE  LogInv'
  OBVIOUS
<1>0. ~ Crash
  BY DEF Crash, LogInv
<1>1. CASE \E last : AddEntry(last)
  <2>1. PICK last : AddEntry(last)
    BY <1>1
  <2>2. /\ pc = "lookup" /\ pc' = "notify" /\ clock' = last /\ last \in 0..MaxClock
        /\ UNCHANGED <<database, frame, crashes, notified>>
    BY <2>1 DEF AddEntry, heapVars
  <2>3. \A f \in Files, o \in Outputs :
          /\ f = database.file /\ o = frame.out =>
               RowsOf(f, o) = {} /\ RowsOf(f, o)' # {}
          /\ f # database.file \/ o # frame.out =>
               (RowsOf(f, o)' = {} <=> RowsOf(f, o) = {})
    BY <2>1, InsertStep DEF Untouched
  <2>4. OpenStore /\ Processed
    BY <2>2 DEF StoreInv, Using
  <2>5. database.file \in Files /\ frame.out \in Outputs
    BY <2>4 DEF OpenStore, Processed
  <2>6. RowsOf(database.file, frame.out)' # {}
    BY <2>2, <2>3, <2>5 DEF RowsOf
  <2>7. clock' <= MaxClock
    BY <2>2, LimitAssumption DEF StoreInv
  <2> QED
    BY <2>2, <2>3, <2>6, <2>7 DEF LogInv, Due
<1>2. CASE ReplaceEntry
  <2>1. /\ pc = "lookup" /\ pc' = "write"
        /\ UNCHANGED <<database, frame, crashes, notified, clock>>
    BY <1>2 DEF ReplaceEntry, worldVars, historyVars
  <2>2. \A f \in Files, o \in Outputs : RowsOf(f, o)' = {} <=> RowsOf(f, o) = {}
    BY <1>2, RefreshStep DEF Untouched
  <2> QED
    BY <2>1, <2>2 DEF LogInv, Due
<1>3. CASE ~ ReplaceEntry /\ \A last : ~ AddEntry(last)
  <2>1. \A f \in Files : Entries(f)' = Entries(f)
    BY <1>0, <1>3, SameEntries
  <2>2. \A f \in Files, o \in Outputs : RowsOf(f, o)' = RowsOf(f, o)
    BY <2>1, EntryIsEntryAt
  <2>3. crashes' = 0 /\ clock' <= MaxClock
    BY <1>0, <1>3, LimitAssumption DEF LogInv, StoreInv, Next, Process, Poll, Store,
       World, vars,
       worldVars, Run, PollFails, BodyFails, EvalFails, NoSsid, Beacon,
       OpenDatabase, CreateHeader, CreateMetadata, CreateKey, CreateColumns,
       Construct, ConstructFails, LookupFails, WriteBack, Notify, WildKey,
       Unwind, Restart, EditSnappy, Tick
  <2>4. CASE Notify
    <3>1. /\ pc = "notify" /\ pc' = "poll" /\ UNCHANGED <<database, frame>>
          /\ notified' = [notified EXCEPT ![database.file][frame.out] = @ + 1]
      BY <2>4 DEF Notify, Announced, heapVars
    <3>2. OpenStore /\ Processed
      BY <3>1 DEF StoreInv, Using
    <3>3. database.file \in Files /\ frame.out \in Outputs
      BY <3>2 DEF OpenStore, Processed
    <3>4. /\ RowsOf(database.file, frame.out) # {}
          /\ notified[database.file][frame.out] = 0
      BY <3>1, <3>3 DEF LogInv, Due
    <3>5. \A f \in Files, o \in Outputs :
            notified'[f][o] = IF f = database.file /\ o = frame.out THEN 1
                              ELSE notified[f][o]
      BY <3>1, <3>3, <3>4 DEF LogInv
    <3>6. DOMAIN notified' = Files /\ \A f \in Files : DOMAIN notified'[f] = Outputs
      BY <3>1, <3>3 DEF LogInv
    <3>7. \A f \in Files, o \in Outputs :
            notified'[f][o] = IF RowsOf(f, o)' = {} \/ Due(f, o)' THEN 0 ELSE 1
      BY <2>2, <3>1, <3>4, <3>5 DEF LogInv, Due
    <3> QED
      BY <2>3, <3>1, <3>6, <3>7 DEF LogInv
  <2>5. CASE UNCHANGED <<pc, database, frame, notified>>
    <3>1. pc = "notify" => database.file \in Files /\ frame.out \in Outputs
      BY DEF StoreInv, Using, OpenStore, Processed
    <3>2. pc = "notify" => RowsOf(database.file, frame.out)' # {}
      BY <2>2, <2>5, <3>1 DEF LogInv, RowsOf
    <3> QED
      BY <2>2, <2>3, <2>5, <3>2 DEF LogInv, Due
  <2>6. CASE pc # "notify" /\ pc' # "notify" /\ UNCHANGED notified
    BY <2>2, <2>3, <2>6 DEF LogInv, Due
  <2>7. \/ Notify
        \/ UNCHANGED <<pc, database, frame, notified>>
        \/ pc # "notify" /\ pc' # "notify" /\ UNCHANGED notified
    BY <1>0, <1>3, OtherSteps
  <2> QED
    BY <2>4, <2>5, <2>6, <2>7
<1> QED
  BY <1>1, <1>2, <1>3

(* There is no entry at the beginning, and no announcement.                *)
LEMMA InitLog == Init => LogInv
<1> SUFFICES ASSUME Init PROVE LogInv
  OBVIOUS
<1>1. \A f \in Files : View(f) = None
  BY DEF Init, View
<1>2. \A f \in Files, o \in Outputs : RowsOf(f, o) = {}
  BY <1>1 DEF RowsOf, Entries
<1> QED
  BY <1>2, LimitAssumption DEF Init, LogInv, Due

(* Entries and announcements agree in every state.                         *)
LEMMA LogAlways ==
  ASSUME PlainOutputs, NoneApart, MaxCrashes = 0
  PROVE  Spec => []LogInv
<1>1. Spec => [](StoreInv /\ HandleInv)
  BY StoreAlways
<1>2. Init => LogInv
  BY InitLog
<1>3. StoreInv /\ StoreInv' /\ HandleInv /\ LogInv /\ [Next]_vars => LogInv'
  BY NextLog
<1> QED
  BY <1>1, <1>2, <1>3, PTL DEF Spec

(* Every row was announced by a notification, or is about to be.           *)
THEOREM NotifiedTheorem ==
  ASSUME PlainOutputs, NoneApart, MaxCrashes = 0
  PROVE  Spec => []EveryRowNotified
<1>1. LogInv => EveryRowNotified
  BY DEF LogInv, EveryRowNotified, Due
<1> QED
  BY <1>1, LogAlways, PTL

(* An output is announced as new at most once per store.                   *)
THEOREM NotifiedOnceTheorem ==
  ASSUME PlainOutputs, NoneApart, MaxCrashes = 0
  PROVE  Spec => []NotifiedAtMostOnce
<1>1. LogInv => NotifiedAtMostOnce
  BY DEF LogInv, NotifiedAtMostOnce
<1> QED
  BY <1>1, LogAlways, PTL

-----------------------------------------------------------------------------
(* The refinement mapping                                                  *)

Pending == IF pc = "notify" THEN {<<database.file, frame.out>>} ELSE {}
LogEntries == [f \in Files |-> [o \in Outputs |-> Entry(f, o)]]

(* Every step is a step of the log or leaves it alone.                     *)
LEMMA LogStep ==
  ASSUME PlainOutputs, NoneApart, MaxCrashes = 0,
         StoreInv, StoreInv', HandleInv, LogInv, [Next]_vars
  PROVE  [Log!Next]_(Log!logVars)
<1>0. ~ Crash
  BY DEF Crash, LogInv
<1>1. CASE \E last : AddEntry(last)
  <2>1. PICK last : AddEntry(last)
    BY <1>1
  <2>2. /\ pc = "lookup" /\ pc' = "notify" /\ clock' = last /\ last \in 0..MaxClock
        /\ UNCHANGED <<database, frame, notified>>
    BY <2>1 DEF AddEntry, heapVars
  <2>3. OpenStore /\ Processed /\ clock \in Nat
    BY <2>2 DEF StoreInv, Using
  <2>4. database.file \in Files /\ frame.out \in Outputs
    BY <2>3 DEF OpenStore, Processed
  <2>5. PICK g \in Files, x \in Outputs : g = database.file /\ x = frame.out
    BY <2>4
  <2>6. /\ Entry(g, x) = None /\ Entry(g, x)' = [created |-> clock, last |-> clock']
        /\ \A f \in Files, o \in Outputs :
             f # g \/ o # x => Entry(f, o)' = Entry(f, o)
    BY <2>1, <2>5, InsertStep DEF Untouched
  <2>7. LogEntries' = [LogEntries EXCEPT ![g][x] = [created |-> clock, last |-> clock']]
    BY <2>6 DEF LogEntries
  <2>8. LogEntries[g][x] = None
    BY <2>6 DEF LogEntries
  <2>9. Pending = {} /\ Pending' = {<<g, x>>}
    BY <2>2, <2>5 DEF Pending
  <2>10. clock' \in 0..MaxClock
    BY <2>2
  <2>11. Log!Insert(g, x)
    BY <2>2, <2>7, <2>8, <2>9, <2>10 DEF Log!Insert, LogEntries, Pending
  <2> QED
    BY <2>11 DEF Log!Next
<1>2. CASE ReplaceEntry
  <2>1. /\ pc = "lookup" /\ pc' = "write"
        /\ UNCHANGED <<database, frame, notified, clock>>
    BY <1>2 DEF ReplaceEntry, worldVars, historyVars
  <2>2. OpenStore /\ Processed /\ clock \in Nat /\ clock <= MaxClock
    BY <2>1 DEF StoreInv, Using, LogInv
  <2>3. database.file \in Files /\ frame.out \in Outputs
    BY <2>2 DEF OpenStore, Processed
  <2>4. PICK g \in Files, x \in Outputs : g = database.file /\ x = frame.out
    BY <2>3
  <2>5. PICK c \in Nat, d \in Nat :
          /\ Entry(g, x) = [created |-> c, last |-> d]
          /\ Entry(g, x)' = [created |-> c, last |-> clock]
    BY <1>2, <2>4, RefreshStep
  <2>6. \A f \in Files, o \in Outputs : f # g \/ o # x => Entry(f, o)' = Entry(f, o)
    BY <1>2, <2>4, RefreshStep DEF Untouched
  <2>7. LogEntries[g][x] = [created |-> c, last |-> d]
    BY <2>5 DEF LogEntries
  <2>8. LogEntries' = [LogEntries EXCEPT ![g][x] = [created |-> c, last |-> clock]]
    BY <2>5, <2>6 DEF LogEntries
  <2>9. [LogEntries[g][x] EXCEPT !.last = clock] = [created |-> c, last |-> clock]
    BY <2>7
  <2>10. LogEntries' = [LogEntries EXCEPT ![g][x].last = clock]
    BY <2>8, <2>9
  <2>11. Pending = {} /\ Pending' = {}
    BY <2>1 DEF Pending
  <2>12. LogEntries[g][x] # None
    BY <2>5, <2>7 DEF NoneApart
  <2>14. Log!Refresh(g, x)
    BY <2>1, <2>10, <2>11, <2>12 DEF Log!Refresh, LogEntries, Pending
  <2> QED
    BY <2>14 DEF Log!Next
<1>3. CASE ~ ReplaceEntry /\ \A last : ~ AddEntry(last)
  <2>1. \A f \in Files : Entries(f)' = Entries(f)
    BY <1>0, <1>3, SameEntries
  <2>2. \A f \in Files, o \in Outputs : Entry(f, o)' = Entry(f, o)
    BY <2>1, EntryIsEntryAt
  <2>3. LogEntries' = LogEntries
    BY <2>2 DEF LogEntries
  <2>4. CASE Notify
    <3>1. /\ pc = "notify" /\ pc' = "poll" /\ UNCHANGED <<database, frame, clock>>
          /\ notified' = [notified EXCEPT ![database.file][frame.out] = @ + 1]
      BY <2>4 DEF Notify, Announced, heapVars, worldVars
    <3>2. OpenStore /\ Processed
      BY <3>1 DEF StoreInv, Using
    <3>3. database.file \in Files /\ frame.out \in Outputs
      BY <3>2 DEF OpenStore, Processed
    <3>4. Pending = {<<database.file, frame.out>>} /\ Pending' = {}
      BY <3>1 DEF Pending
    <3>5. Log!Announce(database.file, frame.out)
      BY <2>3, <3>1, <3>4 DEF Log!Announce, LogEntries, Pending
    <3> QED
      BY <3>3, <3>5 DEF Log!Next
  <2>5. CASE Pending' = Pending /\ UNCHANGED notified
    <3>1. clock' = clock \/ clock' \in 0..MaxClock
      BY <1>0, <1>3 DEF Next, Process, Poll, Store, World, vars, worldVars,
         Run, PollFails, BodyFails, EvalFails, NoSsid, Beacon,
         OpenDatabase, CreateHeader, CreateMetadata, CreateKey, CreateColumns,
         Construct, ConstructFails, LookupFails, WriteBack, Notify, WildKey,
         Unwind, Restart, EditSnappy, Tick
    <3>2. CASE clock' = clock
      BY <2>3, <2>5, <3>2 DEF Log!logVars, LogEntries, Pending
    <3>3. CASE clock' \in 0..MaxClock
      <4>1. Log!SetClock
        BY <2>3, <2>5, <3>3 DEF Log!SetClock, LogEntries, Pending
      <4> QED
        BY <4>1 DEF Log!Next
    <3> QED
      BY <3>1, <3>2, <3>3
  <2>6. \/ Notify
        \/ UNCHANGED <<pc, database, frame, notified>>
        \/ pc # "notify" /\ pc' # "notify" /\ UNCHANGED notified
    BY <1>0, <1>3, OtherSteps
  <2> QED
    BY <2>4, <2>5, <2>6 DEF Pending
<1> QED
  BY <1>1, <1>2, <1>3

(* The daemon implements the log: entries are created once, keep their     *)
(* creation date, are refreshed with the date the clock shows, and each is *)
(* announced exactly once.                                                 *)
THEOREM LogTheorem ==
  ASSUME PlainOutputs, NoneApart, MaxCrashes = 0
  PROVE  Spec => ImplementsLog
<1>1. Spec => [](StoreInv /\ HandleInv)
  BY StoreAlways
<1>2. Spec => []LogInv
  BY LogAlways
<1>3. Init => Log!Init
  <2> SUFFICES ASSUME Init PROVE Log!Init
    OBVIOUS
  <2>1. \A f \in Files : View(f) = None
    BY DEF Init, View
  <2>2. \A f \in Files, o \in Outputs : Entry(f, o) = None
    BY <2>1 DEF Entry, RowsOf, Entries
  <2> QED
    BY <2>2, LimitAssumption DEF Init, Log!Init
<1>4. StoreInv /\ StoreInv' /\ HandleInv /\ LogInv /\ [Next]_vars
      => [Log!Next]_(Log!logVars)
  BY LogStep
<1> QED
  BY <1>1, <1>2, <1>3, <1>4, PTL DEF Spec, ImplementsLog, Log!Spec

=============================================================================
