# SnapDesk: a TLA+ verification project

SnapDesk fingerprints Wi-Fi access points.  A patched Wi-Fi driver keeps the
last beacon it received in a character device; a daemon polls that device,
decodes the beacon, evaluates a user script on it and keeps the result, per
SSID, in a CSV file, with a desktop notification for a new entry.

This directory holds TLA+ models of the two halves, of the decoder between them
and of the script compiler,
the TLC configurations that check them on small instances, and TLAPS proofs of
what holds for every instance. `PROJECT.json` is the index: components, runs,
mutants, the map from definitions to source lines, findings, hazards and
theorems.

## 1. Inventory

### 1.1 beacon-sniffer (kernel side)

| Part | Source | State | Operations |
| --- | --- | --- | --- |
| character device | `beacon-sniffer/*/…/my_module.h` (two copies, same but for a name) | `buffer`, `frame_size` (static); `loaded_frame`, `frame_size`, `open_count` in the container; the file offset | `update_beacon`, `my_open`, `my_read`, `my_release`, `my_init`, `my_cleanup` |
| receive-path hooks | `htc_drv_txrx.c` (`ath9k_rx_prepare`), `usb_ops_linux.c` (`recvbuf2recvframe`) | none of their own | filter beacons, call `update_beacon` |
| life-cycle hooks | `hif_usb.c` (probe, disconnect), `usb_intf.c` (`rtw_drv_entry`, `rtw_drv_halt`) | whether the device exists | call `my_init`, `my_cleanup` |

Interaction: the tasklet and the readers share `buffer` and `frame_size`, all
readers share the container, and there is no lock anywhere.  Hard behaviour:
torn copies, lost updates of the open count, offsets, and the order in which
the driver and the device come and go.  Correct means: a reader gets one whole
beacon, the newest; the device keeps following the radio; no index leaves its
array.

### 1.2 The daemon (user side)

| Part | Source | State | Operations |
| --- | --- | --- | --- |
| main loop | `main.cpp` | the open `database`, `current_ssid`, the compiled `tree`, the `Frame` | `run`, `main` |
| Database | `database/database.cpp` | the `Csv` of one SSID and one script hash | constructor, `get_key_of_entries`, `get_cell`, `add_entry`, `replace_entry` |
| Csv | `database/csv.cpp` | number of columns, key column; a `.csv` and a `.metadata` file | `create`, constructor, `push_row`, `replace_row`, `get_cell`, … |
| Communicator | `os_communicator.cpp` | a file name | `exist`, `get_line`, `add_line`, `replace_line`, `new_file`, `in_buffer`, `notify`, … |
| Frame, bodies, information elements | `decoder/frame.cpp`, `management_body.cpp`, `ie.cpp` | raw buffer, header fields, the `body` pointer, the list of elements | `update_raw_data`, `decode`, `get_value` |
| Big_number | `decoder/big_number.cpp` | a byte vector or null | `cut_bit`, `cut_byte`, conversions |
| Compiler and tree | `compiler/*.cpp` | the tree | `read_line`, `get_executable_tree`, `get_value` of each node |

Interaction: everything runs in one thread and talks through return values and
exceptions; `main()` reruns `run()` after any exception and the service manager
restarts a dead process, so what matters is what survives: the files, and the
notifications the user saw.  Hard behaviour: a process that stops between two
writes, an exception between a `delete` and the assignment that should follow,
a database handle that outlives the beacon it was opened for, text that does
not survive being joined with delimiters, and unsigned wrap-around.  Correct
means: one row per fingerprint in the store of its own SSID, created once,
refreshed in place, announced exactly once; the daemon always comes back.

Vendored code (the ath9k and rtl8188eus drivers, some 470 000 lines) is not
modelled except where the repository's own lines are hooked in.

## 2. Modules

| Module | Models | Used by |
| --- | --- | --- |
| `BeaconSniffer` | the character device, byte by byte | `MCBeaconSniffer`, `BeaconSnifferProofs` |
| `CsvText` | the text functions of Csv and Communicator (no state) | `SnapDesk` |
| `SnapDesk` | main loop, Database, Csv, Communicator, files, kills and restarts | `MCSnapDesk`, `SnapDeskTextProofs`, `SnapDeskStoreProofs`, `SnapDeskLogProofs` |
| `FingerprintLog` | the abstract promise of the database | `SnapDesk` (refinement) |
| `ScriptCompiler` | `Compiler::read_line` and `get_executable_tree` | `MCScriptCompiler`, `ScriptCompilerProofs` |
| `BigNumber` | `Big_number`, and `Getter`, `Cut_bit`, `Cut_byte` of the tree (no state) | `BeaconDecoder`, `BigNumberProofs` |
| `BeaconDecoder` | `Frame`, `Body`, `Beacon_body`, `Ie_node`: bytes to fields | `MCBeaconDecoder`, `BeaconDecoderProofs` |
| `SnifferDriver` | the drivers around the device: its life, the firmware worker, the receive buffers | `MCSnifferDriver`, `SnifferDriverProofs` |

Definitions whose comment starts with "Variant" are slips a programmer could
make at that place; `PROJECT.json` pairs each with the property that notices it.

### 2.1 BeaconSniffer

Variables carry the names of the C variables.  One step copies one byte, and
`open_count++`, `open_count--` are a load and a store, because the C code has
no lock and no atomic type.  `my_open` is `my_open` (the test of the count),
`open_fill`, `fill_buffer` (once per byte), `open_size`, `open_load`,
`open_store`; `my_release` is two steps; `my_read` is one, `copy_to_user` being
too short against a period of one second to be worth splitting.  It is called by
`read`, at the position of the open file, and by `pread`, at any position of
`Starts`: `my_fops` has no `llseek`, but nothing calls `nonseekable_open`.
`ReadsWithinFrame` is about reads that begin inside the frame or at its end: one
that begins behind it makes `frame_size - *offset` wrap and is handed bytes from
behind the frame (`NoReadBeyond` is false, `SnifferPread.cfg`).  The second read of `frame_size` in `my_open` may be merged by the compiler with the first
(the variable is a plain static), so `open_size` takes either value.  A byte is
abstracted to the number of the beacon it came from; `got` has the bytes a reader
was handed, each with its place in the frame.  `snap` is history: the beacon and size that were
current when a load began, and whether the tasklet stayed quiet during it.

Beacon lengths are members of `1..MaxSize`: the loop of `update_beacon` runs to
`remaining_len`, not to `frame_size`, and only the length of real management
frames keeps it inside the buffer.  That is the assumption `SizeAssumption`:
the overrun by a longer frame is assumed away and no property would notice it.

### 2.2 CsvText

A string is modelled by its pieces, what stands between its delimiters.  This
is exact for what csv.cpp does, which is to join with `";"`, to `find` it and
to take substrings at it: `""` is `<<Empty>>`, and `"a;b"` is `<<a, b>>`.  In
particular `get_cell_from_row` returns the rest of the row when the cell is
empty, because `cell.find(DELIMITER)` is then `0`.  `NotFound` is `(size_t) -1`.

### 2.3 SnapDesk

| Action | Code |
| --- | --- |
| `Run` | `run()` before its loop |
| `PollFails`, `BodyFails`, `EvalFails`, `NoSsid`, `Beacon` | the outcomes of `update_raw_data`, `decode` and `get_value`, in that order |
| `OpenDatabase`, `CreateHeader`, `CreateMetadata`, `CreateKey`, `CreateColumns`, `Construct`, `ConstructFails` | `Database`'s constructor, `Csv::create` (a step per change of a file), `Csv`'s constructor |
| `AddEntry`, `Notify` | `add_entry`, then `notify` |
| `ReplaceEntry`, `WriteBack` | `replace_entry`; `replace_line` truncates and then writes |
| `LookupFails`, `WildKey` | every throw of the lookup; a key column outside the vector |
| `Unwind` | `run()`'s catch block and `main()`'s loop |
| `Crash`, `Restart` | a kill at any step; `Restart=always` of the service |
| `EditSnappy`, `Tick` | the user; the clock, which may be set to any date |

A storage file is named by the content of snappy.txt (its hash, taken to be
injective) and the SSID.  Files keep their lines; a file being rewritten keeps
any prefix of its lines when the process stops.  A stop that cuts a line apart,
which takes a file larger than the stream's buffer or a machine that stops, is
outside the model, and what the runs and theorems say about kills does not cover
it.  An uninitialised `size_t`
(`_string_to_size_t` of an empty line) is any member of `Garbage`.  A body
pointer is null, live or dangling; deleting a dangling one either passes or
ends the process.  `notified` and `seen` are history.

`get_current_date` prints the local time, which goes back when daylight saving
time ends and when the clock is set.  `Tick` therefore sets the clock to any
date, and it may be set between the two calls that make the dates of a new
entry; no property orders dates.  What `run()` does before its `try`
(`main.cpp:30-37`) may throw as well; `main()` then calls it again and nothing
the model keeps has changed, so that path is a stuttering step of `Run`.

Two things about stores are facts of this abstraction rather than runs.  The
store is chosen by the content of `snappy.txt` at the time it is opened
(`main.cpp:69`) while the tree is compiled from `code.txt`, so the outputs of
two versions of `code.txt` share a store.  And a store file is text: an output
that contains the delimiter is not found again and is announced at every
beacon; an empty output is stored once, and from then on `get_cell` throws
(`csv.cpp:111` takes `find() == 0` for "no delimiter"), so every later beacon
ends in an exception.  The runs use outputs of one non-empty piece.

### 2.4 FingerprintLog

Entries per store and fingerprint, inserted once, refreshed in place, announced
once.  A step writes only the date that the clock shows: both dates of a new
entry, the last date of a refreshed one, whose creation date stays; `SetClock`
moves the clock anywhere.  `SnapDesk` implements it with the mapping at its end:
an entry is read off the row of the file, or off the text that `replace_line` is
about to write while the file is truncated, and the log's clock is the daemon's.

### 2.5 ScriptCompiler

The recursion of `read_line` is a stack of activations, each with its
`current_node`, `aux_function_node` and `next_line`; each branch of its loop is
an action.  A line is abstracted to the branch it takes; lines are numbered from
1 where the code counts from 0.  A node is the number of the line it is made
from, and the tree maps each attached node to its parent, since children are
kept in the order of their lines.  `SnapDesk` uses the compiler through `Run` and
`EvalFails` only: a script either yields outputs or throws.

The reference is the language of `src/Readme.md`: the script ends at the first
blank line, comments are ignored, and what is left is one expression
(`Accepted`), whose tree `ReferenceTree` finds by counting braces, without
recursion.  The Readme does not say whether a function may have no argument and
whether a script may be empty; there the reference follows the code.
`CompilesAsDocumented` says that the compiler does what the reference says, and
it is false on three kinds of scripts: a blank line right behind an opening brace
does not end the script (run `compiler_blank`), code behind a leading blank line
is an error (`CompilerLeading.cfg`), and so is a comment behind the expression
(`CompilerComment.cfg`).  `Undisputed` describes the scripts
outside of these corners, and `CompilesExactly` is `CompilesAsDocumented` on them.

### 2.6 BigNumber and BeaconDecoder

A `Big_number` is its bytes, or `Null`; an exception is the value `Thrown`; a
string of hexadecimal digits is the sequence of their values.  `cut_bit` is the
code's computation (the byte run, the bits cleared in front, the shift, the
byte dropped); `IsSlice` says bit by bit what it should give.  Left out:
`from_hex_string` lets `sprintf` write a terminator one byte behind its
two-character array, which does not change the result it computes; `to_size_t`
shifts an `int`, which is exact for the numbers of up to three bytes that the
decoder makes of it.

`BeaconDecoder` keeps the whole raw buffer, so that what earlier and longer
frames left behind the current one is there to be misread.

| Action | Code |
| --- | --- |
| `update_raw_data` | `Frame::update_raw_data`, `in_buffer` |
| `decode_header` | `Frame::decode` up to `get_body`, with the fields that were read before a throw |
| `decode_fixed` | `Beacon_body::decode` before its loop |
| `add_ie`, `add_ie_throws`, `EndOfElements`, `OutOfBuffer` | one turn of its loop |
| `Rerun` | the catch block of `run()` and a new `Frame` |

`get_value` of `Frame`, body and elements is an operator.  The reference has no
cursor: `Reading` is the set of the positions that stepping over complete
elements reaches from the front of the element text, `Find` is the first of
them with a given number, `WellFormed` says that the end is one of them, and
`Yields` compares a list with the elements at them.  A getter's text is its
digits.  `LookupExact` is about the list: the number that `std::stoi` makes of the
text in base 16, cut to a byte, selects the first such element or none.  That the
text means another number, the decimal one of the standard and of `code.txt`, is
`LookupDecimal`, which the code does not satisfy (`decoder_number`).  A frame of 24 to 27 bytes makes `remain_length - 4` wrap; the loop
then runs over old bytes and out of the buffer, where the model allows anything
(`OutOfBuffer`), and the properties say nothing (`Wraps`).

The layout is the real one; only the area of the elements is shortened.
Deleting a `Body` does not run `~Beacon_body` (`frame.cpp:90`, no virtual
destructor), so the elements leak; no state of the model depends on it.

### 2.7 SnifferDriver

The buffer and the container of the device live and die together: each call of
`my_init` makes a generation.  `current` is what the static pointers hold, and
`heap` what is allocated; `bad` records accesses to what is not.

| Part | Actions | Code |
| --- | --- | --- |
| USB core (ath9k_htc) | `ath9k_hif_usb_probe`, `Unplug`, `disconnect_storage`, `disconnect_stop`, `disconnect_cleanup` | `hif_usb.c`, `htc_drv_init.c`, `htc_drv_txrx.c` |
| firmware worker | `firmware_init`, `firmware_error`, `firmware_undo`, `firmware_undone`, `firmware_done`, `firmware_fail`, `firmware_release` | `ath9k_hif_usb_firmware_cb`, `_firmware_fail`, `ath9k_init_device` |
| both, taking the receive path down | `ath9k_rx_cleanup`, `rx_cleanup_next` (once per node), `rx_cleanup_end`, `ath9k_hif_usb_dealloc_urbs` | `htc_drv_txrx.c`, `hif_usb.c` |
| URB callback | `rxep_pick`, `rxep_mark` | `ath9k_htc_rxep`, its two critical sections |
| tasklet | `rx_prepare`, `rx_requeue`, `rx_end` | `ath9k_rx_tasklet`, `ath9k_rx_prepare` |
| rtl8188eus | `rtw_drv_entry`, `rtw_drv_halt`, `usb_deregister`, `rtl_plug`, `recvbuf2recvframe` | `usb_intf.c`, `usb_ops_linux.c` |
| processes | `my_open`, `my_read`, `my_release` | `my_module.h` |

`rx_prepare` is one step although it is long: it runs under a lock that keeps
interrupts off, and from `ath9k_rx_cleanup` to `my_cleanup` disconnect needs
several round trips on the bus.  `wait_for_completion` and the part of
`ath9k_htc_hw_deinit` up to `tasklet_kill` are one step, because nothing the
model keeps changes in it.  A new adapter has its own list of receive buffers.

`ath9k_rx_cleanup` takes no lock (`htc_drv_txrx.c:1184` has a FIXME), so its loop
is a step per node: `pos` is the node whose turn it is and `tbuf` the one that
`list_for_each_entry_safe` has saved, and callbacks and the tasklet run between
the turns.  A URB may still be completed, its frame marked and the tasklet
scheduled, after `tasklet_kill` and after the list was emptied.  If the tasklet
moves the saved node to the end of the list, the loop ends early; buffers stay on
the list, and the next beacon goes into the device that `my_cleanup` has freed:
`WritesLive` is false, and `driver_cleanup` shows how.  The history variable
`crossed` records that the tasklet put a buffer on the list while the loop ran, or
one that was freed; `UncrossedWritesLive` says that this is the only way.  A node
that is freed and then moved may or may not get on the list again (`rx_requeue`);
memory that was freed is otherwise taken to keep its content.

The worker that fails behind `ath9k_rx_init` takes a live receive path down in the
same steps (`firmware_undo`, `firmware_undone`); one that fails before it goes
straight to `firmware_fail` (`firmware_error`).

One adapter at a time is modelled: a second one would call `my_init` again and
overwrite the static pointers of `my_module.h:44-50` while the first is in use.

Where the code is wrong on a path, the property says which paths it is about,
and the model still takes the others: `UncrossedWritesLive`, `WritesLive` and
`FreedOnce` assume that `my_init` succeeded (its result is ignored), and
`WritesLive` that no receive buffer was used behind its `kfree`, which is a fault
of its own; the first two leave out rtl8188eus, which frees the buffer before it
stops the receive path (`usb_intf.c:1638`);
`FilesLive` leaves out ath9k_htc, where an unplug frees the container of an
open file (`hif_usb.c:1463`), and module entries that failed behind `my_init`.

## 3. Runs

| Run | Shows |
| --- | --- |
| `sniffer_one_reader` | one reader against the tasklet: all invariants of the device and that a polling reader keeps finding the last beacon |
| `sniffer_frozen` (violation) | two readers lose an update of `open_count` and the device stays on an old frame |
| `snapdesk_log` | without kills, through exceptions and an edit of snappy.txt: every row is announced, once, the daemon implements `FingerprintLog`, and every beacon with a storable SSID is eventually recorded |
| `snapdesk_crash` | with a kill at any step: unique keys, rows in the right store, creation dates, the header |
| `snapdesk_create` (violation) | a kill inside `Csv::create` leaves a store nobody can open |
| `snapdesk_truncate` (violation) | a kill inside `replace_line` loses entries |
| `compiler_exact` | every script of up to six lines: compilation ends; on the undisputed ones it accepts exactly one expression and builds the right tree |
| `compiler_blank` (violation) | a blank line inside braces does not end the script |
| `decoder_exact` | any sequence of beacons, other frames and truncated frames: elements, lookups and cuts are what the reference reading gives, and a check sequence is never read as an element |
| `decoder_number` (violation) | getters of `code.txt` such as `>45` and `>221` yield other elements |
| `driver_life` | both drivers, with unplugging, failures and open files: accesses to live memory unless the tasklet crosses the clean-up; frames in their order, none forgotten; disconnect ends |
| `driver_cleanup` (violation) | the tasklet crosses `ath9k_rx_cleanup` and a beacon is written into freed memory |

Each violation run checks one sentence of the repository's own documentation or
comments; the quotation is in `findings`.  One further fact follows from the
same models and is listed as a hazard: an output that contains the delimiter is
added and announced at every beacon (`NotifiedAtMostOnce` fails as soon as such
outputs are allowed).

The other configurations each answer one more question about the same modules.
Most show a hazard at work, which is why no passing run has its property:

| Configuration | TLC says |
| --- | --- |
| `SnifferTorn.cfg` | `DeliversOneBeacon` is violated: an open that overlaps `update_beacon` delivers bytes of two beacons (bytes that no beacon was written to are left out) |
| `SnifferPread.cfg` | `NoReadBeyond` is violated: a `pread` behind the frame is answered with bytes from behind it |
| `SnifferSplit.cfg` | `ReadsConsecutive` is violated: the second of two short reads repeats the beginning of the frame |
| `SnapDeskRecorded.cfg` | `FrameRecorded` holds with three SSIDs and an edit, on a clock that stands still |
| `SnapDeskSlash.cfg` | `SlashRecorded` is violated: a beacon whose SSID is no file name is never recorded |
| `SnapDeskSilent.cfg` | `EveryRowNotified` is violated: a kill between `add_entry` and `notify` leaves a row that is never announced |
| `SnapDeskAbort.cfg` | `RerunsItself` is violated: a bad frame after a good one may end the process instead of rerunning it |
| `CompilerLeading.cfg`, `CompilerComment.cfg` | `CompilesAsDocumented` is violated on the other two kinds of scripts of 2.5 |
| `DecoderFcs.cfg` | `AllElementsDecoded` is violated: a driver that leaves the check sequence off loses the last element |
| `DriverQueue.cfg` | the properties of the receive buffers hold with four frames |

### 3.1 Bounds

- `sniffer_one_reader`: frames of 1 to 3 bytes and 3 beacons: a load can see
  the end of one beacon, all of a second and the start of a third; growing and
  shrinking sizes both occur.  Reads of 1 and of 4 bytes: several short reads
  and one that exceeds the frame.  `WordSize` 16 stands for 2^64: large enough
  that no counter wraps unless it goes below zero.  `Starts` is `{2}`: a `pread`
  inside a frame of three bytes, at the end of one of two, and behind one of one,
  where the subtraction wraps.  `MaxBytes` 5: one read past the frame and one more
  byte, or five of one byte.
- `sniffer_frozen`: two readers and one-byte frames; the race is between the
  counters, not the bytes.
- `snapdesk_log`: one output, the empty SSID and one with a slash, two contents of
  snappy.txt and one edit, two dates, which the clock shows in any order: the open
  database is dropped by an exception, reopened, and left behind by an edit.
  `SnapDeskRecorded.cfg` adds a second storable SSID and takes a date away, on
  which the liveness does not depend; both at once are some sixty times as large.
- `snapdesk_crash`: two SSIDs, two outputs, two dates and one kill, so that
  rows of two stores and two positions in a store occur before and after it.
  `Garbage` is `{1, 3}`: a wrong key column and the value that passes the check
  of the row size, which is the most dangerous one.
- `compiler_exact`: all 137 257 scripts of up to six lines over the seven kinds:
  three nested functions, siblings behind a nested function, and a comment or a
  blank line at every place.
- `decoder_exact`: element areas of up to six bytes over the values 0, 1 and 165:
  two elements of one byte or one of up to four, every way of ending, and an
  element number that needs two digits.  Frames follow each other without
  bound.  Cuts at, inside and across byte boundaries, of no bits, and beyond the
  end of a value.  `WordSize` 1024 stands for 2^64: any wrapped length is larger
  than the buffer.
- `driver_life`: two buffers, two frames, two calls of `my_init`, one file: a
  frame waits while another is delivered, and an adapter returns while leftovers
  of the first exist.  `DriverQueue.cfg`: ath9k_htc alone, two buffers and four
  frames, so that the buffers come round twice and a frame finds none free.
  `driver_cleanup`: three buffers, the least with which the loop can end early
  and leave one.

No symmetry is used: the liveness runs forbid it and the others do not need it.

### 3.2 Fairness

- The tasklet that has begun a copy finishes it (`WF` of `update_beacon_byte`);
  nothing makes beacons arrive.
- A reader that polls keeps opening, and releases what it opened: that is the
  daemon's loop, which opens, reads and closes the device once a second.
- The daemon's process runs until it waits for the next beacon, `main()`
  restarts `run()`, and systemd restarts the process (`Restart=always`).  Kills,
  edits and the outcomes of a poll have no fairness.
- The compiler is sequential code: it takes its next step.
- In the kernel the firmware worker, a disconnect that has begun, the URB
  callback, the tasklet and `usb_deregister` run to their ends: each is a weak
  fairness of its own, since none of them can be disabled for ever by another
  except through the waits that the guards show.  Frames, adapters, users and
  module loads have none.

The configurations of `SnifferDriver` do not check deadlock: without an adapter the
model stops once the bound on the calls of `my_init` is reached.

### 3.3 What the liveness properties do not say

`LastBeaconIsRead` assumes that the device is closed again and again, which one
polling reader guarantees.  `FrameRecorded` excludes SSIDs that are no file
name, for which `Csv::create` throws at every beacon, and holds without kills.

## 4. Proofs

`BeaconSnifferProofs`, for every number of readers, frame size and set of
lengths below it:

- `TypeCorrect`: `TypeOK` is inductive as it stands.  The proof has a step per
  action; `WordFacts`, `MinusFacts` and `MinimumFacts` are the arithmetic.
- `BufferTheorem`: `BufferHoldsLastBeacon` is not inductive, because it says
  nothing while a copy runs.  `CopiedSoFar` adds that `frame_size` already is
  the length being copied and that the bytes below the loop index are new.
- `SoleReaderCounts`, `SoleReaderWithinFrame`, `SoleReaderWhole`: with a single
  reader, and any `Starts`.  `SoleCount` ties the count and the register of its load and store to
  the reader's position; `SoleReads` says that what was read from inside the frame
  lies inside it, because the unsigned subtraction is the exact one there;
  `SoleWhole` follows a load byte by byte while `snap.quiet`.  Two readers refute
  these (`sniffer_frozen`): the frame may be reloaded with another size under an
  open file.
- `SoleReaderSequential`: a single reader whose `pread`s, if any, begin at 0 never
  begins behind the frame, so that nothing wraps (`NoReadBeyond`).  `Sequential`
  keeps the position of the file inside the frame.  Other positions refute it
  (`SnifferPread.cfg`).

`SnapDeskTextProofs`, `SnapDeskStoreProofs` and `SnapDeskLogProofs`, for every
set of SSIDs, codes and outputs, every bound, and every content of `Garbage`:

- `SnapDeskTextProofs` has the lemmas about the text of a store.  `Good` says
  that a text is empty or the header followed by rows, each of an output seen
  with the store's SSID and a key of its own; `Keeps`
  compares two texts.  Columns are found where the header has them, a lookup by
  a key returns the one row with that key, and adding a row, refreshing one and
  cutting a text off at any line leave it good.
- `HandleTheorem`, for any constants: `HandleMatches` needs `HandleInv`, which
  also speaks of the poll, where the handle and `current_ssid` wait for the next
  beacon, and of the store being opened.
- `TypeTheorem`, `KeysTheorem`, `BelongTheorem`, `HeaderTheorem` and
  `RowsKeptTheorem`, with any number of kills.  None of the four
  invariants is inductive by itself: that a new row has a new key depends on the
  lookup, which depends on the header and on the rows before it.  `StoreInv`
  says that every file is good, and that the text `replace_line` holds in memory
  is good while the file is truncated.  Of the metadata and the key column it
  says no more than that they are numbers, because a kill inside `Csv::create`
  leaves an empty key file and `Garbage` in its place; the proofs
  show that a wrong key column is either noticed by a throw or writes a text
  that is good all the same.
- `NotifiedTheorem`, `NotifiedOnceTheorem` and `LogTheorem`, for `MaxCrashes = 0`:
  they fail as soon as a kill can fall between `add_entry` and `notify` or inside
  `replace_line`.  `LogInv` says
  exactly which entries have been announced: those with a row, but for the one
  whose `notify` is the next step.  `LogTheorem` is the refinement of
  `FingerprintLog`, with a step for each action: `AddEntry` inserts,
  `ReplaceEntry` refreshes, `Notify` announces, and every other step,
  `WriteBack` among them, changes no entry.

They assume `PlainOutputs`: an output is one piece, neither empty nor a date;
the names in the header differ; and there are no more outputs than a `size_t`
counts, because `get_key_position` answers in one and has its last value for "not
found".  Outputs outside of it do refute the properties (2.3).  `NoneApart`
says that the value standing for "no file" or "no database" is not also a text,
a database or an entry.  The constants of the runs satisfy all of them.

`SnifferDriverProofs`, for any number of buffers, frames, files and plug cycles:

- `FreedOnceTheorem`: `LifeInv` says in which phases of the worker, of the loop
  and of disconnect an adapter exists, `HeapInv` that the static pointers are good
  while it does.
- `UncrossedWritesTheorem`: `QuietInv` says that, as long as the tasklet moved
  nothing, the loop of `ath9k_rx_cleanup` stands at the first node and has saved
  the second, so it frees all of them; whatever a callback still marks behind that
  is on no list the tasklet looks at.  Without the hypothesis the statement is
  false (`driver_cleanup`).
- `FilesLiveTheorem`: every open file's generation is the one allocated, and no
  file is open once the module is going.
- `TypeTheorem`, and with it `WaitingTheorem` and `OrderTheorem` for the receive
  buffers of ath9k_htc.  `WaitingInFront` is not inductive: a buffer that leaves
  the middle of the list, or a frame stored behind a free one, would break it.
  `QueueInv` says why neither happens: the frames wait in the order in which they
  arrived, none of them has been captured but the one the tasklet is busy with,
  which is the first of the list, and the buffer the softirq picked is the first
  free one, its frame newer than all that wait; unless `ath9k_rx_cleanup` has taken
  the one or the other off the list.  `RotatedQueue`, `MarkedQueue`, `PickedQueue`,
  `UnlinkedQueue` and `LooseQueue` are the ways in which the list changes, and
  `ListInv` what the loop of `ath9k_rx_cleanup` may rely on.

`BigNumberProofs`, for every number and every position and size:

- `CutsOfNumber`: `Cut_bit` yields the bits it is asked for and throws exactly
  beyond the number's end, and `Cut_byte` is `Cut_bit` of whole bytes.
  `ClearedBits` and `ShiftedBits` say bit by bit what clearing and shifting do to
  a byte, for each of the eight alignments; `HoldsSlice` is what the shifted
  bytes have to satisfy for the result to be a slice; `HexRoundTrip` is that the
  text a `Getter` makes of a number is read back as that number.

`BeaconDecoderProofs`, for every size of the element area, every value of its
bytes and of uninitialised memory, and any sequence of frames:

- `TypeTheorem`: with `TypeInv`, which knows the elements' types too.
- `ReadingIs`: the reference reading exists for every text, as the intersection
  of the sets that contain the front and are closed under stepping; that it
  grows only by steps is an induction, done by a least counterexample
  (`LeastNumber`).
- `DecodesTheorem`: `DecodesExactly` speaks of decoded and of refused frames.
  `LoopInv` says what lies between: a frame that does not wrap has its true size
  in `limit`, and the list holds the elements in front of the cursor.
  `TurnOfLoop` compares the tests of one turn with `Complete` and `OneShort`.
- `ElementsTheorem`, under `FcsAtEnd`: the driver leaves all four bytes of the
  check sequence at the end.  `Frame::decode` takes that for granted, ath9k_htc
  does it and rtl8188eus does not (`DecoderFcs.cfg`).  `AreaInv` ties the buffer to
  what was sent.
- `LookupTheorem`, for getters of one to seven digits (`LookupAssumption`: beyond
  that `std::stoi` throws).  `FirstFound` is that the first match in the list is
  the first match in the frame.
- `CutsTheorem`: from `CutsOfNumber` and `FixedInv`, by which a decoded body has
  read its fixed fields.

Frames of 24 to 27 bytes are left out of `DecodesExactly` and `LookupExact`
(`Wraps`), in the theorems as in the runs.

`ScriptCompilerProofs`, for scripts of every length:

- `TypeTheorem`, `StackTheorem`: nodes are line numbers, so nesting is an order.
  `StackInv` says that the functions of the activations increase from the
  outermost inwards, that all of them and every attached node lie before the
  line being read, and that only the innermost activation may stand behind the
  last line.  `ReturnKeeps` and `CallKeeps` are its two halves: a return drops
  an activation and gives the next line to the one below, a call pushes one.
- `CompilesTheorem`: `CompilesExactly` speaks of the end of the compilation only.
  `ReadInv` says what has been found out when line p is about to be read: the
  stack holds the functions open in front of p, each where the count of braces
  says (`OpenAt`); the tree has the other nodes, each under the innermost function
  around it (`TreeOf`); nothing in front of p ends the script or makes it wrong
  (`Clean`); and whether an argument has been read (`ArgumentAt`).  The definitions
  take the script as a parameter, so that a step is a lemma about one line
  (`CommentRead`, `OpenRead`, `ArgumentRead`, `LeafRead`, `BlankRead`, `CloseRead`).
  An error is one of `WrongAt`, which `WrongRejected` shows the reference refuses; a
  return of the outermost call is one of `EndAt`, which `EndExact` shows it accepts
  exactly if only a blank line follows.  `BalanceStep` and `EnclosesIs` connect the
  counts over the lines of code with the counts line by line.  All of this is
  proved against `ReadsScript` and `ReadTree`, which say what `read_line` accepts
  and builds for every script, the disputed ones included; `Agree` is that on an
  `Undisputed` script they are the Readme's `Accepted` and `ReferenceTree`.

The assumptions are the ASSUMEs of the proved modules: `SizeAssumption` (lengths
below the buffer size, sizes below the word size), `DriverAssumption`,
`KindAssumption`, `NameAssumption`, `WordAssumption`, `NullAssumption` (null and
an exception are not byte vectors), `DecoderAssumption` (bytes are bytes, and a
`size_t` counts a frame and an element more), `LookupAssumption`, and the bounds.

Only model-checked: liveness, which is out of the prover's reach.  What
`std::stoi` makes of a text is a fold over its digits, of which the proofs use
nothing.

## 5. Not modelled, and why

- The vendored drivers, some 470 000 of the repository's lines, which is why the
  share of lines that the map covers is small.  Their own correctness is not
  this repository's; what it added to them is modelled with the functions
  around each hook.
- Inside those functions: the reassembly of frames from USB transfers, the
  filters behind the hook (an accepted or a rejected frame), mac80211.
- `Sha256` and the concatenation of the root node: strings over OpenSSL's
  digest, taken to be injective where the daemon uses them.
- The contents of the device's memory across generations: after a new `my_init`
  the static `frame_size` is that of the previous device and the buffer is
  fresh memory, so an open before the first beacon delivers garbage.
- Printing, the text of notifications, the makefiles and the boot scripts.

What could follow: weaker hypotheses than `PlainOutputs` for the theorems that
outputs with a delimiter do not refute; the refinement with kills, against a log
that may lose an announcement; kills that cut a line; and two adapters.
