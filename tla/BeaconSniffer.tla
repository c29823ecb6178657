--------------------------- MODULE BeaconSniffer ---------------------------
(***************************************************************************)
(* The character device that the patched Wi-Fi drivers publish, translated *)
(* from my_module.h (the copies for ath9k_htc and for rtl8188eus differ    *)
(* only in the name of update_beacon).                                     *)
(*                                                                         *)
(* Three parties touch the same memory without any lock:                   *)
(*   - the driver's receive tasklet, in update_beacon, overwrites the      *)
(*     driver-wide buffer with each beacon it receives;                    *)
(*   - my_open copies that buffer into the container of the device when    *)
(*     nobody else has the device open, and counts the openers;            *)
(*   - my_read hands out the container's copy, my_release counts down.     *)
(*                                                                         *)
(* Granularity: one step per byte copied and one per load or store of a    *)
(* shared counter, in program order.  The content of a byte is abstracted  *)
(* to the number of the beacon it came from (beacons are numbered in the   *)
(* order they are received); Stale stands for what kmalloc left there.     *)
(***************************************************************************)
EXTENDS Naturals, Sequences, FiniteSets

CONSTANTS
  Readers,      \* files opened on the device (one per process reading it)
  MaxSize,      \* BEACON_MAX_SIZE
  Lengths,      \* lengths of the beacons that may be received
  UserSizes,    \* values of buffer_size a reader may call my_read with
  Starts,       \* positions in the file that a reader may give to pread
  WordSize,     \* number of values of a size_t
  MaxBeacons,   \* bound: beacons received in a behaviour
  MaxBytes      \* bound: bytes handed to a reader between open and release

ASSUME SizeAssumption ==
  /\ MaxSize \in Nat \ {0}
  /\ Lengths \subseteq 1..MaxSize      \* a driver never passes an empty frame
  /\ UserSizes \subseteq Nat \ {0}
  /\ WordSize \in Nat /\ WordSize > MaxSize + 1
  /\ \A n \in UserSizes \cup Starts : n < WordSize
  /\ Starts \subseteq Nat
ASSUME BoundAssumption ==
  MaxBeacons \in Nat /\ MaxBytes \in Nat /\ MaxBytes >= MaxSize

VARIABLES
  \* static data of the module
  buffer,        \* buffer
  frame_size,    \* frame_size
  \* struct my_cdev_container (COUNT is 1)
  loaded_frame,  \* loaded_frame
  loaded_size,   \* frame_size of the container
  open_count,    \* open_count
  \* the receive tasklet inside update_beacon
  beacons,       \* number of the newest beacon handed to update_beacon
  rx,            \* [len, i]: remaining_len and i of its loop; idle when i = len
  \* each reader inside my_open, my_read, my_release
  pc,            \* where the reader is
  cursor,        \* [len, i]: min_size and i of fill_buffer's loop
  reg,           \* the register of open_count++ and open_count--
  offset,        \* the position of the open file
  \* history
  got,           \* the bytes handed to the reader since it opened the device,
                 \* each with its place in the frame and the read's position
  snap           \* beacon, size and quietness of the buffer when last loaded

driverVars == <<buffer, frame_size, beacons, rx>>
containerVars == <<loaded_frame, loaded_size, open_count>>
readerVars == <<pc, cursor, reg, offset, got>>
vars == <<driverVars, containerVars, readerVars, snap>>

Stale == 0
Positions == 1..MaxSize
Bytes == Nat

minimum(a, b) == IF a < b THEN a ELSE b

\* size_t arithmetic
Inc(n) == (n + 1) % WordSize
Dec(n) == (n + WordSize - 1) % WordSize
Minus(a, b) == (a + WordSize - (b % WordSize)) % WordSize

Init ==
  /\ buffer = [p \in Positions |-> Stale]
  /\ frame_size = 0
  /\ loaded_frame = [p \in Positions |-> Stale]
  /\ loaded_size = 0
  /\ open_count = 0
  /\ beacons = 0
  /\ rx = [len |-> 0, i |-> 0]
  /\ pc = [r \in Readers |-> "closed"]
  /\ cursor = [r \in Readers |-> [len |-> 0, i |-> 0]]
  /\ reg = [r \in Readers |-> 0]
  /\ offset = [r \in Readers |-> 0]
  /\ got = [r \in Readers |-> <<>>]
  /\ snap = [beacon |-> 0, size |-> 0, quiet |-> TRUE]

-----------------------------------------------------------------------------
(* update_beacon, called by the receive path for each beacon               *)

RxIdle == rx.i = rx.len

\* Variants a slip in update_beacon would give: a size that counts one byte too
\* many, a loop that starts at the second byte.
update_beacon_oversized(len) ==
  /\ RxIdle
  /\ beacons < MaxBeacons
  /\ beacons' = beacons + 1
  /\ frame_size' = minimum(len, MaxSize) + 1
  /\ rx' = [len |-> len, i |-> 0]
  /\ UNCHANGED <<buffer, containerVars, readerVars, snap>>
update_beacon_skipping(len) ==
  /\ RxIdle
  /\ beacons < MaxBeacons
  /\ beacons' = beacons + 1
  /\ frame_size' = minimum(len, MaxSize)
  /\ rx' = [len |-> len, i |-> 1]
  /\ UNCHANGED <<buffer, containerVars, readerVars, snap>>

\* The size is published first ...
update_beacon(len) ==
  /\ RxIdle
  /\ beacons < MaxBeacons
  /\ beacons' = beacons + 1
  /\ frame_size' = minimum(len, MaxSize)
  /\ rx' = [len |-> len, i |-> 0]
  /\ snap' = [snap EXCEPT !.quiet = @ /\ \A r \in Readers : pc[r] # "fill"]
  /\ UNCHANGED <<buffer, containerVars, readerVars>>

\* ... and the bytes follow one by one.
update_beacon_byte ==
  /\ rx.i < rx.len
  /\ buffer' = [buffer EXCEPT ![rx.i + 1] = beacons]
  /\ rx' = [rx EXCEPT !.i = @ + 1]
  /\ UNCHANGED <<frame_size, beacons, containerVars, readerVars, snap>>

-----------------------------------------------------------------------------
(* my_open                                                                 *)

\* Variant: a device that holds a frame is not loaded again.
my_open_once(r) ==
  /\ pc[r] = "closed"
  /\ offset' = [offset EXCEPT ![r] = 0]
  /\ got' = [got EXCEPT ![r] = <<>>]
  /\ pc' = [pc EXCEPT ![r] = IF loaded_size = 0 THEN "size" ELSE "load"]
  /\ UNCHANGED <<driverVars, containerVars, cursor, reg, snap>>

\* The device is loaded only when its count of openers is below one.
my_open(r) ==
  /\ pc[r] = "closed"
  /\ offset' = [offset EXCEPT ![r] = 0]
  /\ got' = [got EXCEPT ![r] = <<>>]
  /\ pc' = [pc EXCEPT ![r] = IF open_count < 1 THEN "size" ELSE "load"]
  /\ UNCHANGED <<driverVars, containerVars, cursor, reg, snap>>

\* The call of fill_buffer reads the size to copy ...
open_fill(r) ==
  /\ pc[r] = "size"
  /\ pc' = [pc EXCEPT ![r] = "fill"]
  /\ cursor' = [cursor EXCEPT ![r] =
                  [len |-> minimum(MaxSize, frame_size), i |-> 0]]
  /\ snap' = [beacon |-> beacons, size |-> frame_size, quiet |-> RxIdle]
  /\ UNCHANGED <<driverVars, containerVars, reg, offset, got>>

fill_buffer(r) ==
  /\ pc[r] = "fill"
  /\ cursor[r].i < cursor[r].len
  /\ LET p == cursor[r].i + 1
     IN loaded_frame' = [loaded_frame EXCEPT ![p] = buffer[p]]
  /\ cursor' = [cursor EXCEPT ![r].i = @ + 1]
  /\ UNCHANGED <<driverVars, loaded_size, open_count, pc, reg, offset, got, snap>>

\* Variant: the size of an earlier load is kept.
open_size_kept(r) ==
  /\ pc[r] = "fill"
  /\ cursor[r].i = cursor[r].len
  /\ loaded_size' = IF loaded_size = 0 THEN frame_size ELSE loaded_size
  /\ pc' = [pc EXCEPT ![r] = "load"]
  /\ UNCHANGED <<driverVars, loaded_frame, open_count, cursor, reg, offset, got,
                 snap>>

\* ... and after the copy the driver-wide size is read again.  The variable is
\* a plain static one, so the build may also reuse the value read before.
open_size(r) ==
  /\ pc[r] = "fill"
  /\ cursor[r].i = cursor[r].len
  /\ loaded_size' \in {frame_size, cursor[r].len}
  /\ pc' = [pc EXCEPT ![r] = "load"]
  /\ UNCHANGED <<driverVars, loaded_frame, open_count, cursor, reg, offset, got,
                 snap>>

\* open_count++ is a load and a store.
open_load(r) ==
  /\ pc[r] = "load"
  /\ reg' = [reg EXCEPT ![r] = open_count]
  /\ pc' = [pc EXCEPT ![r] = "store"]
  /\ UNCHANGED <<driverVars, containerVars, cursor, offset, got, snap>>

open_store(r) ==
  /\ pc[r] = "store"
  /\ open_count' = Inc(reg[r])
  /\ pc' = [pc EXCEPT ![r] = "open"]
  /\ UNCHANGED <<driverVars, loaded_frame, loaded_size, cursor, reg, offset, got,
                 snap>>

-----------------------------------------------------------------------------
(* my_read and my_release                                                  *)

\* Variant: the reader's size alone decides.
read_len_unbounded(start, buffer_size) == buffer_size

\* min(frame_size - *offset, buffer_size), computed on unsigned words
read_len(start, buffer_size) == minimum(Minus(loaded_size, start), buffer_size)

\* copy_to_user starts at loaded_frame, whatever the offset is
copied(start, len) ==
  [p \in 1..len |-> [byte |-> IF p \in Positions THEN loaded_frame[p] ELSE Stale,
                     at |-> p, from |-> start]]

\* The returns of -1 (a faulting user buffer) change nothing: they are
\* stuttering steps.  So is the read of length 0 that reports end of file.
my_read(r, start, buffer_size) ==
  LET len == read_len(start, buffer_size) IN
  /\ pc[r] = "open"
  /\ len > 0
  /\ Len(got[r]) + len <= MaxBytes
  /\ got' = [got EXCEPT ![r] = @ \o copied(start, len)]
  /\ UNCHANGED <<driverVars, containerVars, pc, cursor, reg, snap>>

\* read() gives my_read the position of the file, and *offset += len moves it.
read(r, n) ==
  /\ my_read(r, offset[r], n)
  /\ offset' = [offset EXCEPT ![r] = @ + read_len(@, n)]

\* my_fops has no .llseek, but my_open does not say nonseekable_open: pread()
\* gives my_read any position, and leaves that of the file alone.
pread(r, start, n) ==
  /\ my_read(r, start, n)
  /\ UNCHANGED offset

\* open_count-- is a load and a store.
my_release(r) ==
  /\ pc[r] = "open"
  /\ reg' = [reg EXCEPT ![r] = open_count]
  /\ pc' = [pc EXCEPT ![r] = "release"]
  /\ UNCHANGED <<driverVars, containerVars, cursor, offset, got, snap>>

\* Variant: the count is not decremented.
release_store_lost(r) ==
  /\ pc[r] = "release"
  /\ pc' = [pc EXCEPT ![r] = "closed"]
  /\ UNCHANGED <<driverVars, containerVars, cursor, reg, offset, got, snap>>

release_store(r) ==
  /\ pc[r] = "release"
  /\ open_count' = Dec(reg[r])
  /\ pc' = [pc EXCEPT ![r] = "closed"]
  /\ UNCHANGED <<driverVars, loaded_frame, loaded_size, cursor, reg, offset, got,
                 snap>>

-----------------------------------------------------------------------------
Driver == (\E len \in Lengths : update_beacon(len)) \/ update_beacon_byte

Opening(r) ==
  \/ my_open(r) \/ open_fill(r) \/ fill_buffer(r) \/ open_size(r)
  \/ open_load(r) \/ open_store(r)
Reading(r) == \E n \in UserSizes : read(r, n) \/ \E start \in Starts : pread(r, start, n)
Releasing(r) == my_release(r) \/ release_store(r)
Reader(r) == Opening(r) \/ Reading(r) \/ Releasing(r)

Next == Driver \/ \E r \in Readers : Reader(r)

Spec == Init /\ [][Next]_vars

\* A reader polls for ever: it keeps opening, and what it opened it releases.
\* A tasklet that has begun a copy runs to its end.  Nothing makes beacons
\* arrive.
Fairness ==
  /\ WF_vars(update_beacon_byte)
  /\ \A r \in Readers : WF_vars(Opening(r)) /\ WF_vars(Releasing(r))

FairSpec == Spec /\ Fairness

-----------------------------------------------------------------------------
(* Properties                                                              *)

PCs == {"closed", "size", "fill", "load", "store", "open", "release"}

\* The type of the state: sizes never exceed BEACON_MAX_SIZE, so every index
\* of update_beacon's and fill_buffer's loops is inside its array.
TypeOK ==
  /\ buffer \in [Positions -> Bytes]
  /\ frame_size \in 0..MaxSize
  /\ loaded_frame \in [Positions -> Bytes]
  /\ loaded_size \in 0..MaxSize
  /\ open_count \in 0..(WordSize - 1)
  /\ beacons \in Nat
  /\ rx \in [len : 0..MaxSize, i : 0..MaxSize] /\ rx.i <= rx.len
  /\ pc \in [Readers -> PCs]
  /\ cursor \in [Readers -> [len : 0..MaxSize, i : 0..MaxSize]]
  /\ \A r \in Readers : cursor[r].i <= cursor[r].len
  /\ reg \in [Readers -> 0..(WordSize - 1)]
  /\ offset \in [Readers -> Nat]
  /\ got \in [Readers -> Seq([byte : Bytes, at : Nat, from : Nat])]
  /\ snap \in [beacon : Nat, size : 0..MaxSize, quiet : BOOLEAN]

\* Between two calls of update_beacon the driver-wide buffer holds the newest
\* beacon and nothing else, up to frame_size, whatever the readers do.
BufferHoldsLastBeacon ==
  RxIdle => \A p \in 1..frame_size : buffer[p] = beacons

\* open_count is the number of readers between the store of my_open and the
\* store of my_release, so the device is reloaded exactly when it is unused.
CountMatchesReaders ==
  open_count = Cardinality({r \in Readers : pc[r] \in {"open", "release"}})

\* A read that begins inside the loaded frame, or at its end, hands out bytes of
\* that frame only, whatever pread() was given before: frame_size - *offset wraps
\* for no other position than one behind the frame.
ReadsWithinFrame ==
  \A r \in Readers : \A k \in 1..Len(got[r]) :
    got[r][k].from <= loaded_size => got[r][k].at <= loaded_size

\* No read hands out what lies behind the frame, not even one that begins there.
NoReadBeyond ==
  \A r \in Readers : \A k \in 1..Len(got[r]) : got[r][k].at <= loaded_size

\* Read after read, a file is handed the bytes of the frame in their order, each
\* once: the offset goes after the last byte read.
ReadsConsecutive ==
  \A r \in Readers : \A k \in 1..Len(got[r]) : got[r][k].at = k

\* A load of the device during which the tasklet did not run yields the newest
\* beacon of that moment, whole: its size and each of its bytes.
QuietOpenIsWhole ==
  \A r \in Readers :
    pc[r] \in {"load", "store", "open", "release"} /\ snap.quiet =>
      /\ loaded_size = snap.size
      /\ \A p \in 1..loaded_size : loaded_frame[p] = snap.beacon

\* Reader r holds the device open, loaded with beacon n whole.
Shows(r, n) ==
  /\ pc[r] = "open"
  /\ loaded_size > 0
  /\ \A p \in 1..loaded_size : loaded_frame[p] = n

\* When beacon n is the last one received and the device is unused again and
\* again, a reader that keeps polling keeps finding beacon n in the device:
\* the device never freezes on an older frame.
LastBeaconIsRead ==
  \A n \in 1..MaxBeacons :
    (/\ <>[](beacons = n)
     /\ []<>(\A r \in Readers : pc[r] = "closed"))
      => \A r \in Readers : []<>(Shows(r, n))

\* What the device delivers is one beacon that was received: of the bytes that
\* came from beacons, no two came from different ones.
DeliversOneBeacon ==
  \A r \in Readers : \A p, q \in 1..Len(got[r]) :
    Stale \notin {got[r][p].byte, got[r][q].byte} => got[r][p].byte = got[r][q].byte
=============================================================================
