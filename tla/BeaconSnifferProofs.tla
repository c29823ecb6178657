------------------------ MODULE BeaconSnifferProofs ------------------------
(***************************************************************************)
(* Theorems about the beacon-sniffer device, for every number of readers,  *)
(* frame size, set of beacon lengths and read size.                        *)
(***************************************************************************)
EXTENDS BeaconSniffer, SequenceTheorems, FiniteSetTheorems, TLAPS

(* The smaller of two sizes is one of them and exceeds neither, as min does *)
(* in update_beacon, fill_buffer and my_read.                               *)
LEMMA MinimumFacts ==
  ASSUME NEW a \in Nat, NEW b \in Nat
  PROVE  /\ minimum(a, b) \in Nat
         /\ minimum(a, b) <= a /\ minimum(a, b) <= b
         /\ minimum(a, b) = a \/ minimum(a, b) = b
BY DEF minimum

(* size_t arithmetic stays inside a word; below the word size ++ is + 1 and *)
(* -- is - 1 (open_count in my_open and my_release).                        *)
LEMMA WordFacts ==
  ASSUME NEW n \in 0..(WordSize - 1)
  PROVE  /\ Inc(n) \in 0..(WordSize - 1)
         /\ Dec(n) \in 0..(WordSize - 1)
         /\ n = 0 => Inc(n) = 1
         /\ n = 1 => Dec(n) = 0
<1>1. WordSize \in Nat /\ WordSize > 1
  BY SizeAssumption
<1>2. ASSUME NEW k \in Nat
      PROVE  k % WordSize \in 0..(WordSize - 1)
  BY <1>1
<1>3. /\ 1 % WordSize = 1
      /\ WordSize % WordSize = 0
  BY <1>1
<1>4. n + 1 \in Nat /\ n + WordSize - 1 \in Nat
  BY <1>1
<1> QED
  BY <1>1, <1>2, <1>3, <1>4 DEF Inc, Dec

(* frame_size - *offset is the exact difference as long as the offset is    *)
(* inside the frame (my_read).                                              *)
LEMMA MinusFacts ==
  ASSUME NEW a \in 0..MaxSize, NEW b \in Nat
  PROVE  /\ Minus(a, b) \in Nat
         /\ b <= a => Minus(a, b) = a - b
<1>1. WordSize \in Nat /\ WordSize > 1 /\ MaxSize \in Nat /\ MaxSize < WordSize
  BY SizeAssumption
<1>2. b % WordSize \in 0..(WordSize - 1)
  BY <1>1
<1>3. Minus(a, b) \in Nat
  BY <1>1, <1>2 DEF Minus
<1>4. ASSUME b <= a
      PROVE  Minus(a, b) = a - b
  <2>1. b % WordSize = b
    BY <1>1, <1>4
  <2>2. a - b \in 0..(WordSize - 1)
    BY <1>1, <1>4
  <2>3. ((a - b) + WordSize) % WordSize = a - b
    BY <1>1, <2>2
  <2> QED
    BY <1>1, <2>1, <2>3 DEF Minus
<1> QED
  BY <1>3, <1>4

-----------------------------------------------------------------------------
(* Type correctness.  The bound of 1..MaxSize on beacon lengths is what     *)
(* keeps update_beacon's loop, which runs to remaining_len and not to       *)
(* frame_size, inside the buffer.                                           *)

(* Initially sizes, counters and loop indices are zero (my_init).           *)
LEMMA InitType == Init => TypeOK
<1> SUFFICES ASSUME Init PROVE TypeOK
  OBVIOUS
<1>1. MaxSize \in Nat /\ WordSize \in Nat /\ WordSize > 1
  BY SizeAssumption
<1>2. <<>> \in Seq([byte : Bytes, at : Nat, from : Nat])
  OBVIOUS
<1> QED
  BY <1>1, <1>2 DEF Init, TypeOK, Positions, Bytes, Stale, PCs

(* update_beacon and its loop keep every index inside the buffer.           *)
LEMMA DriverType == TypeOK /\ Driver => TypeOK'
<1> SUFFICES ASSUME TypeOK, Driver PROVE TypeOK'
  OBVIOUS
<1>1. MaxSize \in Nat /\ Lengths \subseteq 1..MaxSize
  BY SizeAssumption
<1>2. CASE \E len \in Lengths : update_beacon(len)
  <2>1. PICK len \in Lengths : update_beacon(len)
    BY <1>2
  <2>2. len \in 1..MaxSize /\ minimum(len, MaxSize) \in 0..MaxSize
    BY <1>1 DEF minimum
  <2>3. snap' \in [beacon : Nat, size : 0..MaxSize, quiet : BOOLEAN]
    BY <2>1, Zenon DEF TypeOK, update_beacon
  <2>4. rx' \in [len : 0..MaxSize, i : 0..MaxSize] /\ rx'.i <= rx'.len
    BY <1>1, <2>1, <2>2 DEF update_beacon
  <2>5. frame_size' \in 0..MaxSize /\ beacons' \in Nat
    BY <2>1, <2>2 DEF TypeOK, update_beacon
  <2> QED
    BY <2>1, <2>3, <2>4, <2>5
    DEF TypeOK, update_beacon, containerVars, readerVars
<1>3. CASE update_beacon_byte
  <2>1. rx' \in [len : 0..MaxSize, i : 0..MaxSize] /\ rx'.i <= rx'.len
    <3>1. rx' = [rx EXCEPT !.i = rx.i + 1] /\ rx.i < rx.len
      BY <1>3 DEF update_beacon_byte
    <3>2. rx \in [len : 0..MaxSize, i : 0..MaxSize]
      BY DEF TypeOK
    <3> QED
      BY <1>1, <3>1, <3>2
  <2>2. buffer' \in [Positions -> Bytes]
    <3>1. buffer' = [buffer EXCEPT ![rx.i + 1] = beacons]
      BY <1>3 DEF update_beacon_byte
    <3>2. beacons \in Bytes /\ buffer \in [Positions -> Bytes]
      BY DEF TypeOK, Bytes
    <3> QED
      BY <3>1, <3>2
  <2> QED
    BY <1>3, <2>1, <2>2
    DEF TypeOK, update_beacon_byte, containerVars, readerVars
<1> QED
  BY <1>2, <1>3 DEF Driver

(* my_open copies at most BEACON_MAX_SIZE bytes into the container.          *)
LEMMA OpeningType ==
  ASSUME TypeOK, NEW r \in Readers, Opening(r)
  PROVE  TypeOK'
<1>1. MaxSize \in Nat
  BY SizeAssumption
<1>2. CASE my_open(r)
  <2>1. <<>> \in Seq([byte : Bytes, at : Nat, from : Nat])
    OBVIOUS
  <2> QED
    BY <1>2, <2>1 DEF TypeOK, my_open, driverVars, containerVars, PCs
<1>3. CASE open_fill(r)
  <2>1. RxIdle \in BOOLEAN
    BY DEF RxIdle
  <2>2. snap' \in [beacon : Nat, size : 0..MaxSize, quiet : BOOLEAN]
    BY <1>3, <2>1, Zenon DEF TypeOK, open_fill
  <2>3. minimum(MaxSize, frame_size) \in 0..MaxSize
    BY <1>1 DEF TypeOK, minimum
  <2>4. /\ cursor' \in [Readers -> [len : 0..MaxSize, i : 0..MaxSize]]
        /\ \A q \in Readers : cursor'[q].i <= cursor'[q].len
    BY <1>1, <1>3, <2>3 DEF TypeOK, open_fill
  <2>5. pc' \in [Readers -> PCs]
    BY <1>3 DEF TypeOK, open_fill, PCs
  <2> QED
    BY <1>3, <2>2, <2>4, <2>5
    DEF TypeOK, open_fill, driverVars, containerVars
<1>4. CASE fill_buffer(r)
  <2>1. cursor[r] \in [len : 0..MaxSize, i : 0..MaxSize]
    BY DEF TypeOK
  <2>2. [cursor[r] EXCEPT !.i = @ + 1] \in [len : 0..MaxSize, i : 0..MaxSize]
    BY <1>1, <1>4, <2>1 DEF fill_buffer
  <2>3. /\ cursor' \in [Readers -> [len : 0..MaxSize, i : 0..MaxSize]]
        /\ \A q \in Readers : cursor'[q].i <= cursor'[q].len
    BY <1>1, <1>4, <2>1, <2>2 DEF TypeOK, fill_buffer
  <2>4. loaded_frame' \in [Positions -> Bytes]
    <3>1. cursor[r].i + 1 \in Positions
      BY <1>1, <1>4, <2>1 DEF fill_buffer, Positions
    <3> QED
      BY <1>4, <3>1 DEF TypeOK, fill_buffer
  <2> QED
    BY <1>4, <2>3, <2>4 DEF TypeOK, fill_buffer, driverVars
<1>5. CASE open_size(r)
  <2>1. loaded_size' \in 0..MaxSize
    BY <1>5 DEF TypeOK, open_size
  <2>2. pc' \in [Readers -> PCs]
    BY <1>5 DEF TypeOK, open_size, PCs
  <2> QED
    BY <1>5, <2>1, <2>2 DEF TypeOK, open_size, driverVars
<1>6. CASE open_load(r)
  BY <1>6 DEF TypeOK, open_load, driverVars, containerVars, PCs
<1>7. CASE open_store(r)
  <2>1. Inc(reg[r]) \in 0..(WordSize - 1)
    BY WordFacts DEF TypeOK
  <2> QED
    BY <1>7, <2>1 DEF TypeOK, open_store, driverVars, PCs
<1> QED
  BY <1>2, <1>3, <1>4, <1>5, <1>6, <1>7 DEF Opening

(* The length that my_read copies is a natural number, and no more than what *)
(* is left of the frame as long as the position is inside it.               *)
LEMMA ReadLength ==
  ASSUME TypeOK, NEW start \in Nat, NEW n \in UserSizes
  PROVE  /\ read_len(start, n) \in Nat
         /\ start <= loaded_size => read_len(start, n) <= loaded_size - start
<1>1. loaded_size \in 0..MaxSize /\ n \in Nat
  BY SizeAssumption DEF TypeOK
<1>2. /\ Minus(loaded_size, start) \in Nat
      /\ start <= loaded_size => Minus(loaded_size, start) = loaded_size - start
  BY <1>1, MinusFacts
<1> QED
  BY <1>1, <1>2, MinimumFacts DEF read_len

(* What my_read copies are bytes of the places 1 to len of the frame.        *)
LEMMA CopiedFacts ==
  ASSUME TypeOK, NEW start \in Nat, NEW len \in Nat
  PROVE  /\ copied(start, len) \in Seq([byte : Bytes, at : Nat, from : Nat]) /\ Len(copied(start, len)) = len
         /\ \A p \in 1..len : copied(start, len)[p].at = p /\ copied(start, len)[p].from = start
<1>1. \A p \in 1..len :
        (IF p \in Positions THEN loaded_frame[p] ELSE Stale) \in Bytes
  BY DEF TypeOK, Bytes, Stale
<1>2. copied(start, len) \in [1..len -> [byte : Bytes, at : Nat, from : Nat]]
  BY <1>1 DEF copied
<1>3. copied(start, len) \in Seq([byte : Bytes, at : Nat, from : Nat])
  BY <1>2, SeqDef
<1>4. Len(copied(start, len)) = len
  BY <1>2, <1>3
<1>5. \A p \in 1..len : copied(start, len)[p].at = p /\ copied(start, len)[p].from = start
  BY DEF copied
<1> QED
  BY <1>3, <1>4, <1>5

(* What a reader has been handed grows by what my_read copies.               *)
LEMMA ReadHands ==
  ASSUME TypeOK, NEW r \in Readers, NEW start \in Nat, NEW n \in UserSizes, my_read(r, start, n)
  PROVE  /\ got' = [got EXCEPT ![r] = got[r] \o copied(start, read_len(start, n))]
         /\ got' \in [Readers -> Seq([byte : Bytes, at : Nat, from : Nat])]
         /\ \A k \in 1..Len(got'[r]) :
              \/ k \in 1..Len(got[r]) /\ got'[r][k] = got[r][k]
              \/ \E p \in 1..read_len(start, n) : got'[r][k].at = p /\ got'[r][k].from = start
         /\ UNCHANGED <<driverVars, containerVars, pc, cursor, reg, snap>>
<1> DEFINE B == [byte : Bytes, at : Nat, from : Nat]
           c == copied(start, read_len(start, n))
<1>1. /\ got' = [got EXCEPT ![r] = got[r] \o c]
      /\ UNCHANGED <<driverVars, containerVars, pc, cursor, reg, snap>>
  BY DEF my_read
<1>2. read_len(start, n) \in Nat
  BY ReadLength
<1>3. c \in Seq(B) /\ Len(c) = read_len(start, n) /\ \A p \in 1..read_len(start, n) : c[p].at = p /\ c[p].from = start
  BY <1>2, CopiedFacts
<1>4. got[r] \in Seq(B) /\ got \in [Readers -> Seq(B)]
  BY DEF TypeOK
<1> HIDE DEF B, c
<1>5. /\ got[r] \o c \in Seq(B) /\ Len(got[r] \o c) = Len(got[r]) + Len(c)
      /\ \A k \in 1..(Len(got[r]) + Len(c)) :
           (got[r] \o c)[k] = IF k <= Len(got[r]) THEN got[r][k] ELSE c[k - Len(got[r])]
  BY <1>3, <1>4, ConcatProperties
<1>6. got' \in [Readers -> Seq(B)] /\ got'[r] = got[r] \o c
  BY <1>1, <1>4, <1>5
<1>7. Len(got[r]) \in Nat
  BY <1>4
<1>8. ASSUME NEW k \in 1..Len(got'[r])
      PROVE  \/ k \in 1..Len(got[r]) /\ got'[r][k] = got[r][k]
             \/ \E p \in 1..read_len(start, n) : got'[r][k].at = p /\ got'[r][k].from = start
  <2>1. k \in 1..(Len(got[r]) + Len(c))
    BY <1>5, <1>6
  <2>2. CASE k <= Len(got[r])
    BY <1>5, <1>6, <1>7, <2>1, <2>2
  <2>3. CASE ~ (k <= Len(got[r]))
    <3>1. k - Len(got[r]) \in 1..read_len(start, n)
      BY <1>2, <1>3, <1>7, <2>1, <2>3
    <3>2. got'[r][k] = c[k - Len(got[r])]
      BY <1>5, <1>6, <2>1, <2>3
    <3> QED
      BY <1>3, <3>1, <3>2
  <2> QED
    BY <2>2, <2>3
<1> QED
  BY <1>1, <1>6, <1>8 DEF B, c

(* my_read and my_release keep the type: offsets never go negative.         *)
LEMMA LeavingType ==
  ASSUME TypeOK, NEW r \in Readers, Reading(r) \/ Releasing(r)
  PROVE  TypeOK'
<1>1. Starts \subseteq Nat /\ offset \in [Readers -> Nat]
  BY SizeAssumption DEF TypeOK
<1>2. CASE Reading(r)
  <2>1. PICK n \in UserSizes : read(r, n) \/ \E start \in Starts : pread(r, start, n)
    BY <1>2 DEF Reading
  <2>2. \E start \in Nat : my_read(r, start, n)
    BY <1>1, <2>1 DEF read, pread
  <2>3. /\ got' \in [Readers -> Seq([byte : Bytes, at : Nat, from : Nat])]
        /\ UNCHANGED <<driverVars, containerVars, pc, cursor, reg, snap>>
    BY <2>2, ReadHands
  <2>4. offset' \in [Readers -> Nat]
    <3>1. read_len(offset[r], n) \in Nat
      BY <1>1, ReadLength
    <3>2. offset' = offset \/ offset' = [offset EXCEPT ![r] = offset[r] + read_len(offset[r], n)]
      BY <2>1 DEF read, pread
    <3> QED
      BY <1>1, <3>1, <3>2
  <2> QED
    BY <2>3, <2>4 DEF TypeOK, driverVars, containerVars
<1>3. CASE my_release(r)
  BY <1>3 DEF TypeOK, my_release, driverVars, containerVars, PCs
<1>4. CASE release_store(r)
  <2>1. Dec(reg[r]) \in 0..(WordSize - 1)
    BY WordFacts DEF TypeOK
  <2> QED
    BY <1>4, <2>1 DEF TypeOK, release_store, driverVars, PCs
<1> QED
  BY <1>2, <1>3, <1>4 DEF Releasing

(* Every step of the device keeps its type.                                 *)
LEMMA NextType == TypeOK /\ [Next]_vars => TypeOK'
<1> SUFFICES ASSUME TypeOK, [Next]_vars PROVE TypeOK'
  OBVIOUS
<1>1. CASE Driver
  BY <1>1, DriverType
<1>2. ASSUME NEW r \in Readers, Reader(r) PROVE TypeOK'
  BY <1>2, OpeningType, LeavingType DEF Reader
<1>3. CASE UNCHANGED vars
  BY <1>3 DEF TypeOK, vars, driverVars, containerVars, readerVars
<1> QED
  BY <1>1, <1>2, <1>3 DEF Next

(* The sizes of update_beacon and my_open never exceed BEACON_MAX_SIZE, and *)
(* no loop of the device leaves its array.                                  *)
THEOREM TypeCorrect == Spec => []TypeOK
  BY InitType, NextType, PTL DEF Spec

-----------------------------------------------------------------------------
(* The driver-wide buffer.  While update_beacon copies, only the bytes      *)
(* below its index are known to be new; frame_size already is the size of   *)
(* the new beacon.  At the end of the loop the two meet.                    *)

CopiedSoFar ==
  /\ frame_size = rx.len
  /\ \A p \in 1..rx.i : buffer[p] = beacons

(* What update_beacon has copied so far belongs to the newest beacon, and   *)
(* no reader changes that.                                                  *)
LEMMA NextCopied ==
  TypeOK /\ CopiedSoFar /\ [Next]_vars => CopiedSoFar'
<1> SUFFICES ASSUME TypeOK, CopiedSoFar, [Next]_vars PROVE CopiedSoFar'
  OBVIOUS
<1>1. MaxSize \in Nat /\ Lengths \subseteq 1..MaxSize
  BY SizeAssumption
<1>2. CASE \E len \in Lengths : update_beacon(len)
  <2>1. PICK len \in Lengths : update_beacon(len)
    BY <1>2
  <2>2. minimum(len, MaxSize) = len
    BY <1>1 DEF minimum
  <2>3. frame_size' = len /\ rx' = [len |-> len, i |-> 0]
    BY <2>1, <2>2 DEF update_beacon
  <2> QED
    BY <2>3 DEF CopiedSoFar
<1>3. CASE update_beacon_byte
  <2>1. /\ rx' = [rx EXCEPT !.i = rx.i + 1]
        /\ buffer' = [buffer EXCEPT ![rx.i + 1] = beacons]
        /\ rx.i < rx.len
        /\ UNCHANGED <<frame_size, beacons>>
    BY <1>3 DEF update_beacon_byte
  <2>2. /\ rx \in [len : 0..MaxSize, i : 0..MaxSize]
        /\ buffer \in [Positions -> Bytes]
    BY DEF TypeOK
  <2>3. rx'.len = rx.len /\ rx'.i = rx.i + 1
    BY <2>1, <2>2
  <2>4. rx.i + 1 \in Positions
    BY <1>1, <2>1, <2>2 DEF Positions
  <2>5. \A p \in 1..(rx.i + 1) : buffer'[p] = beacons
    BY <1>1, <2>1, <2>2, <2>4 DEF CopiedSoFar, Positions
  <2> QED
    BY <2>1, <2>3, <2>5 DEF CopiedSoFar
<1>4. ASSUME NEW r \in Readers, Reader(r)
      PROVE  UNCHANGED driverVars
  BY <1>4 DEF Reader, Opening, Reading, Releasing, my_open, open_fill,
     fill_buffer, open_size, open_load, open_store, read, pread, my_read,
     my_release, release_store
<1>5. CASE UNCHANGED driverVars
  BY <1>5 DEF CopiedSoFar, driverVars
<1>6. CASE UNCHANGED vars
  BY <1>5, <1>6 DEF vars
<1> QED
  BY <1>2, <1>3, <1>4, <1>5, <1>6 DEF Next, Driver

(* Between two calls of update_beacon the buffer holds the newest beacon,   *)
(* whole, for any number of readers and any interleaving.                   *)
THEOREM BufferTheorem == Spec => []BufferHoldsLastBeacon
<1>1. Init => CopiedSoFar
  BY DEF Init, CopiedSoFar
<1>2. CopiedSoFar => BufferHoldsLastBeacon
  BY DEF CopiedSoFar, BufferHoldsLastBeacon, RxIdle
<1> QED
  BY <1>1, <1>2, NextCopied, TypeCorrect, PTL DEF Spec

-----------------------------------------------------------------------------
(* A device with one reader, as the SnapDesk daemon uses it.  The load and  *)
(* the store of open_count++ and open_count-- then never overlap, so the    *)
(* count is exact, and every my_open loads the device afresh.               *)

Holding == {"open", "release"}

SoleCount(r) ==
  /\ open_count = IF pc[r] \in Holding THEN 1 ELSE 0
  /\ pc[r] = "store" => reg[r] = 0
  /\ pc[r] = "release" => reg[r] = 1

Loading == {"size", "fill", "load", "store"}

SoleReads(r) ==
  /\ pc[r] \in Loading => got[r] = <<>>
  /\ \A k \in 1..Len(got[r]) : got[r][k].from <= loaded_size => got[r][k].at <= loaded_size

Sequential(r) ==
  /\ pc[r] \in Loading => offset[r] = 0 /\ got[r] = <<>>
  /\ pc[r] \in Holding => offset[r] <= loaded_size
  /\ \A k \in 1..Len(got[r]) : got[r][k].at <= loaded_size

SoleWhole(r) ==
  /\ pc[r] = "fill" /\ snap.quiet =>
       /\ RxIdle
       /\ snap.beacon = beacons
       /\ snap.size = frame_size
       /\ cursor[r].len = frame_size
       /\ \A p \in 1..cursor[r].i : loaded_frame[p] = beacons
  /\ pc[r] \in {"load", "store"} \cup Holding /\ snap.quiet =>
       /\ loaded_size = snap.size
       /\ \A p \in 1..loaded_size : loaded_frame[p] = snap.beacon

(* The count of openers of my_open and my_release is exact.                 *)
LEMMA NextSoleCount ==
  ASSUME NEW CONSTANT r, Readers = {r}
  PROVE  TypeOK /\ SoleCount(r) /\ [Next]_vars => SoleCount(r)'
<1> SUFFICES ASSUME TypeOK, SoleCount(r), [Next]_vars PROVE SoleCount(r)'
  OBVIOUS
<1> USE DEF Holding
<1>1. pc \in [Readers -> PCs] /\ reg \in [Readers -> 0..(WordSize - 1)]
  BY DEF TypeOK
<1>2. 0 \in 0..(WordSize - 1) /\ 1 \in 0..(WordSize - 1)
  BY SizeAssumption
<1>3. CASE UNCHANGED <<pc, reg, open_count>>
  BY <1>3 DEF SoleCount
<1>4. CASE Driver
  BY <1>3, <1>4 DEF Driver, update_beacon, update_beacon_byte, containerVars,
     readerVars
<1>5. CASE my_open(r) \/ open_fill(r) \/ fill_buffer(r) \/ open_size(r)
  BY <1>1, <1>5 DEF my_open, open_fill, fill_buffer, open_size, containerVars,
     SoleCount
<1>6. CASE open_load(r) \/ my_release(r)
  BY <1>1, <1>6 DEF open_load, my_release, containerVars, SoleCount
<1>7. CASE open_store(r)
  BY <1>1, <1>2, <1>7, WordFacts DEF open_store, SoleCount
<1>8. CASE Reading(r)
  BY <1>3, <1>8 DEF Reading, read, pread, my_read, containerVars
<1>9. CASE release_store(r)
  BY <1>1, <1>2, <1>9, WordFacts DEF release_store, SoleCount
<1>10. CASE UNCHANGED vars
  BY <1>3, <1>10 DEF vars, containerVars, readerVars
<1> QED
  BY <1>4, <1>5, <1>6, <1>7, <1>8, <1>9, <1>10
  DEF Next, Reader, Opening, Releasing

(* While the device is held its frame keeps its size, and read_len bounds   *)
(* what a read that begins inside of it hands out.                          *)
LEMMA NextSoleReads ==
  ASSUME NEW CONSTANT r, Readers = {r}
  PROVE  TypeOK /\ SoleReads(r) /\ [Next]_vars => SoleReads(r)'
<1> SUFFICES ASSUME TypeOK, SoleReads(r), [Next]_vars
             PROVE  SoleReads(r)'
  OBVIOUS
<1> USE DEF Holding, Loading
<1>1. /\ pc \in [Readers -> PCs] /\ offset \in [Readers -> Nat] /\ Starts \subseteq Nat
      /\ got \in [Readers -> Seq([byte : Bytes, at : Nat, from : Nat])]
      /\ loaded_size \in 0..MaxSize /\ MaxSize \in Nat
  BY SizeAssumption DEF TypeOK
<1>2. CASE UNCHANGED <<pc, got, loaded_size>>
  BY <1>2 DEF SoleReads
<1>3. CASE Driver
  BY <1>2, <1>3 DEF Driver, update_beacon, update_beacon_byte, containerVars,
     readerVars
<1>4. CASE my_open(r)
  <2>1. pc'[r] \in Loading /\ got'[r] = <<>>
    BY <1>1, <1>4 DEF my_open
  <2> QED
    BY <2>1 DEF SoleReads
<1>5. CASE open_fill(r) \/ fill_buffer(r) \/ open_size(r) \/ open_load(r)
  <2>1. pc[r] \in Loading /\ pc'[r] \in Loading /\ UNCHANGED got
    BY <1>1, <1>5 DEF open_fill, fill_buffer, open_size, open_load
  <2> QED
    BY <2>1 DEF SoleReads
<1>6. CASE open_store(r) \/ my_release(r) \/ release_store(r)
  BY <1>1, <1>6 DEF open_store, my_release, release_store, containerVars,
     SoleReads
<1>7. CASE Reading(r)
  <2>1. PICK n \in UserSizes, start \in Nat : my_read(r, start, n)
    BY <1>1, <1>7 DEF Reading, read, pread
  <2>2. /\ \A k \in 1..Len(got'[r]) :
             \/ k \in 1..Len(got[r]) /\ got'[r][k] = got[r][k]
             \/ \E p \in 1..read_len(start, n) : got'[r][k].at = p /\ got'[r][k].from = start
        /\ UNCHANGED <<containerVars, pc>>
    BY <2>1, ReadHands
  <2>3. loaded_size' = loaded_size /\ pc[r] = "open" /\ pc' = pc
    BY <2>1, <2>2 DEF containerVars, my_read
  <2>4. ASSUME NEW k \in 1..Len(got'[r]), got'[r][k].from <= loaded_size
        PROVE  got'[r][k].at <= loaded_size
    <3>1. CASE k \in 1..Len(got[r]) /\ got'[r][k] = got[r][k]
      BY <2>4, <3>1 DEF SoleReads
    <3>2. ASSUME NEW p \in 1..read_len(start, n), got'[r][k].at = p, got'[r][k].from = start
          PROVE  got'[r][k].at <= loaded_size
      <4>1. read_len(start, n) \in Nat /\ read_len(start, n) <= loaded_size - start
        BY <2>1, <2>4, <3>2, ReadLength
      <4> QED
        BY <1>1, <2>1, <3>2, <4>1
    <3> QED
      BY <2>2, <3>1, <3>2
  <2> QED
    BY <2>3, <2>4 DEF SoleReads
<1>8. CASE UNCHANGED vars
  BY <1>2, <1>8 DEF vars, containerVars, readerVars
<1> QED
  BY <1>3, <1>4, <1>5, <1>6, <1>7, <1>8
  DEF Next, Reader, Opening, Releasing

(* The position of a file that is only read on from, or from the beginning,   *)
(* never leaves the frame.                                                  *)
LEMMA NextSequential ==
  ASSUME NEW CONSTANT r, Readers = {r}, Starts \subseteq {0}
  PROVE  TypeOK /\ SoleCount(r) /\ Sequential(r) /\ [Next]_vars
           => Sequential(r)'
<1> SUFFICES ASSUME TypeOK, SoleCount(r), Sequential(r), [Next]_vars
             PROVE  Sequential(r)'
  OBVIOUS
<1> USE DEF Holding, Loading
<1>1. /\ pc \in [Readers -> PCs] /\ offset \in [Readers -> Nat]
      /\ got \in [Readers -> Seq([byte : Bytes, at : Nat, from : Nat])]
      /\ loaded_size \in 0..MaxSize /\ MaxSize \in Nat
  BY SizeAssumption DEF TypeOK
<1>2. CASE UNCHANGED <<pc, offset, got, loaded_size>>
  BY <1>2 DEF Sequential
<1>3. CASE Driver
  BY <1>2, <1>3 DEF Driver, update_beacon, update_beacon_byte, containerVars,
     readerVars
<1>4. CASE my_open(r)
  <2>1. pc'[r] \in Loading /\ offset'[r] = 0 /\ got'[r] = <<>>
    BY <1>1, <1>4 DEF my_open
  <2> QED
    BY <2>1 DEF Sequential
<1>5. CASE open_fill(r) \/ fill_buffer(r) \/ open_size(r) \/ open_load(r)
  <2>1. pc[r] \in Loading /\ pc'[r] \in Loading /\ UNCHANGED <<offset, got>>
    BY <1>1, <1>5 DEF open_fill, fill_buffer, open_size, open_load
  <2> QED
    BY <2>1 DEF Sequential
<1>6. CASE open_store(r) \/ my_release(r) \/ release_store(r)
  BY <1>1, <1>6 DEF open_store, my_release, release_store, containerVars,
     Sequential
<1>7. CASE Reading(r)
  <2>1. PICK n \in UserSizes : read(r, n) \/ \E start \in Starts : pread(r, start, n)
    BY <1>7 DEF Reading
  <2>2. PICK start \in Nat :
          /\ my_read(r, start, n) /\ start <= loaded_size
          /\ \/ start = offset[r] /\ offset' = [offset EXCEPT ![r] = offset[r] + read_len(start, n)]
             \/ offset' = offset
    <3>1. CASE read(r, n)
      <4>1. offset[r] \in Nat /\ offset[r] <= loaded_size
        BY <1>1, <3>1 DEF read, my_read, Sequential
      <4> QED
        BY <3>1, <4>1 DEF read
    <3>2. ASSUME NEW start \in Starts, pread(r, start, n)
          PROVE  0 \in Nat /\ 0 <= loaded_size /\ my_read(r, 0, n) /\ offset' = offset
      BY <1>1, <3>2 DEF pread
    <3> QED
      BY <2>1, <3>1, <3>2
  <2>3. /\ read_len(start, n) \in Nat /\ read_len(start, n) <= loaded_size - start
    BY <2>2, ReadLength
  <2>4. /\ \A k \in 1..Len(got'[r]) :
             \/ k \in 1..Len(got[r]) /\ got'[r][k] = got[r][k]
             \/ \E p \in 1..read_len(start, n) : got'[r][k].at = p
        /\ UNCHANGED <<containerVars, pc>>
    BY <2>2, ReadHands
  <2>5. loaded_size' = loaded_size /\ pc[r] = "open" /\ pc' = pc
    BY <2>2, <2>4 DEF containerVars, my_read
  <2>6. ASSUME NEW k \in 1..Len(got'[r])
        PROVE  got'[r][k].at <= loaded_size
    <3>1. CASE k \in 1..Len(got[r]) /\ got'[r][k] = got[r][k]
      BY <3>1 DEF Sequential
    <3>2. ASSUME NEW p \in 1..read_len(start, n), got'[r][k].at = p
          PROVE  got'[r][k].at <= loaded_size
      BY <1>1, <2>2, <2>3, <3>2
    <3> QED
      BY <2>4, <3>1, <3>2
  <2>7. offset'[r] <= loaded_size
    <3>1. CASE offset' = offset
      BY <2>5, <3>1 DEF Sequential
    <3>2. CASE start = offset[r] /\ offset' = [offset EXCEPT ![r] = offset[r] + read_len(start, n)]
      BY <1>1, <2>3, <3>2
    <3> QED
      BY <2>2, <3>1, <3>2
  <2> QED
    BY <2>5, <2>6, <2>7 DEF Sequential
<1>8. CASE UNCHANGED vars
  BY <1>2, <1>8 DEF vars, containerVars, readerVars
<1> QED
  BY <1>3, <1>4, <1>5, <1>6, <1>7, <1>8
  DEF Next, Reader, Opening, Releasing

(* A load that update_beacon does not disturb copies one beacon, byte after *)
(* byte, and the size it publishes is that beacon's.                        *)
LEMMA NextSoleWhole ==
  ASSUME NEW CONSTANT r, Readers = {r}
  PROVE  TypeOK /\ CopiedSoFar /\ SoleCount(r) /\ SoleWhole(r) /\ [Next]_vars
           => SoleWhole(r)'
<1> SUFFICES ASSUME TypeOK, CopiedSoFar, SoleCount(r), SoleWhole(r), [Next]_vars
             PROVE  SoleWhole(r)'
  OBVIOUS
<1> USE DEF Holding
<1>1. /\ pc \in [Readers -> PCs] /\ MaxSize \in Nat /\ frame_size \in 0..MaxSize
      /\ cursor \in [Readers -> [len : 0..MaxSize, i : 0..MaxSize]]
      /\ loaded_frame \in [Positions -> Bytes]
      /\ snap \in [beacon : Nat, size : 0..MaxSize, quiet : BOOLEAN]
  BY SizeAssumption DEF TypeOK
<1>2. CASE UNCHANGED <<pc, snap, loaded_size, loaded_frame, cursor, rx, beacons,
                       frame_size>>
  BY <1>2 DEF SoleWhole, RxIdle
<1>3. CASE \E len \in Lengths : update_beacon(len)
  <2>1. PICK len \in Lengths : update_beacon(len)
    BY <1>3
  <2>2. snap' = [snap EXCEPT !.quiet = snap.quiet /\ \A q \in Readers : pc[q] # "fill"]
    BY <2>1 DEF update_beacon
  <2>3. UNCHANGED <<pc, loaded_size, loaded_frame>>
    BY <2>1 DEF update_beacon, containerVars, readerVars
  <2>4. CASE pc[r] = "fill"
    <3>1. ~ snap'.quiet
      BY <1>1, <2>2, <2>4, Zenon
    <3> QED
      BY <3>1 DEF SoleWhole
  <2>5. CASE pc[r] # "fill"
    <3>1. snap'.quiet => snap.quiet
      BY <1>1, <2>2, Zenon
    <3>2. snap'.size = snap.size /\ snap'.beacon = snap.beacon
      BY <1>1, <2>2, Zenon
    <3> QED
      BY <2>3, <2>5, <3>1, <3>2 DEF SoleWhole
  <2> QED
    BY <2>4, <2>5
<1>4. CASE update_beacon_byte
  <2>1. rx.i < rx.len
    BY <1>4 DEF update_beacon_byte
  <2>2. ~ RxIdle
    BY <2>1 DEF RxIdle, TypeOK
  <2>3. UNCHANGED <<pc, loaded_size, loaded_frame, snap>>
    BY <1>4 DEF update_beacon_byte, containerVars, readerVars
  <2> QED
    BY <2>2, <2>3 DEF SoleWhole
<1>5. CASE my_open(r)
  <2>1. pc'[r] = "size"
    BY <1>1, <1>5 DEF my_open, SoleCount
  <2> QED
    BY <2>1 DEF SoleWhole
<1>6. CASE open_fill(r)
  <2>1. pc'[r] = "fill"
    BY <1>1, <1>6 DEF open_fill
  <2>2. snap' = [beacon |-> beacons, size |-> frame_size, quiet |-> RxIdle]
    BY <1>6 DEF open_fill
  <2>3. snap'.quiet => RxIdle
    BY <2>2, Zenon
  <2>4. snap'.beacon = beacons /\ snap'.size = frame_size
    BY <2>2, Zenon
  <2>5. cursor'[r] = [len |-> minimum(MaxSize, frame_size), i |-> 0]
    BY <1>1, <1>6 DEF open_fill
  <2>6. minimum(MaxSize, frame_size) = frame_size
    BY <1>1 DEF minimum
  <2>7. cursor'[r].len = frame_size /\ cursor'[r].i = 0
    BY <2>5, <2>6
  <2>8. UNCHANGED <<rx, beacons, frame_size>>
    BY <1>6 DEF open_fill, driverVars
  <2> QED
    BY <2>1, <2>3, <2>4, <2>7, <2>8 DEF SoleWhole, RxIdle
<1>7. CASE fill_buffer(r)
  <2>1. /\ pc[r] = "fill" /\ cursor[r].i < cursor[r].len
        /\ loaded_frame' = [loaded_frame EXCEPT
                              ![cursor[r].i + 1] = buffer[cursor[r].i + 1]]
        /\ cursor' = [cursor EXCEPT ![r].i = cursor[r].i + 1]
        /\ UNCHANGED <<driverVars, pc, snap>>
    BY <1>7 DEF fill_buffer
  <2>2. cursor'[r].len = cursor[r].len /\ cursor'[r].i = cursor[r].i + 1
    BY <1>1, <2>1
  <2>3. UNCHANGED <<rx, beacons, frame_size>>
    BY <2>1 DEF driverVars
  <2>4. ASSUME snap.quiet
        PROVE  \A p \in 1..(cursor[r].i + 1) : loaded_frame'[p] = beacons
    <3>1. /\ rx.i = rx.len /\ cursor[r].len = frame_size
          /\ \A p \in 1..cursor[r].i : loaded_frame[p] = beacons
      BY <2>1, <2>4 DEF SoleWhole, RxIdle
    <3>2. cursor[r].i \in 0..MaxSize /\ cursor[r].len \in 0..MaxSize
      BY <1>1
    <3>3. cursor[r].i + 1 \in 1..rx.i
      BY <1>1, <2>1, <3>1, <3>2 DEF CopiedSoFar
    <3>4. buffer[cursor[r].i + 1] = beacons
      BY <3>3 DEF CopiedSoFar
    <3>5. cursor[r].i + 1 \in Positions
      BY <1>1, <2>1, <3>2 DEF Positions
    <3>6. \A p \in 1..(cursor[r].i + 1) : p \in Positions
      BY <1>1, <3>2, <3>5 DEF Positions
    <3> QED
      BY <1>1, <2>1, <3>1, <3>2, <3>4, <3>5, <3>6
  <2> QED
    BY <2>1, <2>2, <2>3, <2>4 DEF SoleWhole, RxIdle
<1>8. CASE open_size(r)
  <2>1. /\ pc[r] = "fill" /\ cursor[r].i = cursor[r].len
        /\ loaded_size' \in {frame_size, cursor[r].len}
        /\ pc'[r] = "load"
        /\ UNCHANGED <<loaded_frame, snap>>
    BY <1>1, <1>8 DEF open_size
  <2> QED
    BY <2>1 DEF SoleWhole
<1>9. CASE open_load(r) \/ open_store(r) \/ my_release(r) \/ release_store(r)
  BY <1>1, <1>9 DEF open_load, open_store, my_release, release_store,
     containerVars, SoleWhole
<1>10. CASE Reading(r)
  BY <1>2, <1>10 DEF Reading, read, pread, my_read, driverVars, containerVars
<1>11. CASE UNCHANGED vars
  BY <1>2, <1>11 DEF vars, driverVars, containerVars, readerVars
<1> QED
  BY <1>3, <1>4, <1>5, <1>6, <1>7, <1>8, <1>9, <1>10, <1>11
  DEF Next, Driver, Reader, Opening, Releasing

(* With one reader, the device counts its openers exactly (my_open,         *)
(* my_release).                                                             *)
THEOREM SoleReaderCounts ==
  ASSUME NEW CONSTANT r, Readers = {r}
  PROVE  Spec => []CountMatchesReaders
<1>1. Init => SoleCount(r)
  BY DEF Init, SoleCount, Holding
<1>2. TypeOK /\ SoleCount(r) /\ [Next]_vars => SoleCount(r)'
  BY NextSoleCount
<1>3. SoleCount(r) => CountMatchesReaders
  <2> DEFINE holders == {q \in Readers : pc[q] \in {"open", "release"}}
  <2>1. holders = IF pc[r] \in Holding THEN {r} ELSE {}
    BY DEF Holding
  <2>2. Cardinality({r}) = 1 /\ Cardinality({}) = 0
    BY FS_Singleton, FS_EmptySet
  <2> QED
    BY <2>1, <2>2 DEF SoleCount, CountMatchesReaders
<1> QED
  BY <1>1, <1>2, <1>3, TypeCorrect, PTL DEF Spec

(* With one reader, a read that begins inside the loaded frame hands out    *)
(* bytes of that frame only, whatever other positions pread() was given.    *)
THEOREM SoleReaderWithinFrame ==
  ASSUME NEW CONSTANT r, Readers = {r}
  PROVE  Spec => []ReadsWithinFrame
<1>1. Init => SoleReads(r)
  BY DEF Init, SoleReads, Loading
<1>2. TypeOK /\ SoleReads(r) /\ [Next]_vars => SoleReads(r)'
  BY NextSoleReads
<1>3. SoleReads(r) => ReadsWithinFrame
  BY DEF SoleReads, ReadsWithinFrame
<1> QED
  BY <1>1, <1>2, <1>3, TypeCorrect, PTL DEF Spec

(* With one reader that reads on from its position, or from the beginning,  *)
(* my_read never hands out a byte behind the loaded frame: its unsigned     *)
(* subtraction does not wrap.                                               *)
THEOREM SoleReaderSequential ==
  ASSUME NEW CONSTANT r, Readers = {r}, Starts \subseteq {0}
  PROVE  Spec => []NoReadBeyond
<1>1. Init => SoleCount(r) /\ Sequential(r)
  BY DEF Init, SoleCount, Sequential, Holding, Loading
<1>2. TypeOK /\ SoleCount(r) /\ [Next]_vars => SoleCount(r)'
  BY NextSoleCount
<1>3. TypeOK /\ SoleCount(r) /\ Sequential(r) /\ [Next]_vars => Sequential(r)'
  BY NextSequential
<1>4. Sequential(r) => NoReadBeyond
  BY DEF Sequential, NoReadBeyond
<1> QED
  BY <1>1, <1>2, <1>3, <1>4, TypeCorrect, PTL DEF Spec

(* With one reader, an open of the device that update_beacon does not       *)
(* overlap delivers the newest beacon, whole, for every beacon length.      *)
THEOREM SoleReaderWhole ==
  ASSUME NEW CONSTANT r, Readers = {r}
  PROVE  Spec => []QuietOpenIsWhole
<1>1. Init => CopiedSoFar /\ SoleCount(r) /\ SoleWhole(r)
  BY DEF Init, CopiedSoFar, SoleCount, SoleWhole, Holding
<1>2. TypeOK /\ SoleCount(r) /\ [Next]_vars => SoleCount(r)'
  BY NextSoleCount
<1>3. TypeOK /\ CopiedSoFar /\ SoleCount(r) /\ SoleWhole(r) /\ [Next]_vars
        => SoleWhole(r)'
  BY NextSoleWhole
<1>4. SoleWhole(r) => QuietOpenIsWhole
  BY DEF SoleWhole, QuietOpenIsWhole, Holding
<1> QED
  BY <1>1, <1>2, <1>3, <1>4, NextCopied, TypeCorrect, PTL DEF Spec

=============================================================================
