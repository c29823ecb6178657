------------------------ MODULE SnifferDriverProofs ------------------------
(***************************************************************************)
(* Theorems about the life of the device inside its drivers, for every     *)
(* number of receive buffers, readers, calls of my_init and frames.        *)
(***************************************************************************)
EXTENDS SnifferDriver, SequenceTheorems, FiniteSetTheorems, WellFoundedInduction, TLAPS

-----------------------------------------------------------------------------
(* Where each driver's part of the state can be: the worker is busy only   *)
(* while an interface is there, and the receive path is taken down by the  *)
(* worker that fails or by a disconnect that no longer waits for it.       *)

Connected == {"bound", "disconnect"}

LifeInv ==
  /\ Ath9k \/ Rtl8188
  /\ Ath9k => module = "in"
  /\ Rtl8188 =>
       /\ usb \in {"absent", "bound"} /\ fw = "idle" /\ teardown = "none"
       /\ rxbuf = <<>> /\ picked = None /\ busy = None
  /\ fw \in {"asked", "initialised", "undoing", "failing"} => usb \in Connected
  /\ teardown # "none" => fw = "undoing" \/ (fw_done /\ usb = "disconnect")

(* Whatever step is taken, the worker, the USB core and the receive path    *)
(* stay in step (probe, the firmware worker, disconnect, module entry).     *)
LEMMA NextLife == LifeInv /\ [Next]_vars => LifeInv'
<1> SUFFICES ASSUME LifeInv, [Next]_vars PROVE LifeInv'
  OBVIOUS
<1> USE DEF LifeInv, Connected, Ath9k, Rtl8188, fw_done, usbVars, rxVars, cleanupVars, queueVars
<1>1. CASE Firmware
  BY <1>1 DEF Firmware, firmware_init, firmware_error, firmware_undo, firmware_undone,
     firmware_done, firmware_fail, firmware_release, Released
<1>2. CASE Disconnect \/ Teardown
  BY <1>2 DEF Disconnect, Teardown, disconnect_stop, ath9k_rx_cleanup, rx_cleanup_next,
     rx_cleanup_end, ath9k_hif_usb_dealloc_urbs, disconnect_cleanup
<1>3. CASE Tasklet \/ rxep_mark
  <2>1. ASSUME NEW accepted, rx_prepare(accepted)
        PROVE  LifeInv'
    <3>1. ~ Rtl8188 /\ UNCHANGED <<driver, usbVars, teardown>>
      BY <2>1 DEF rx_prepare, Waiting
    <3> QED
      BY <3>1
  <2>2. CASE rx_requeue
    <3>1. ~ Rtl8188 /\ UNCHANGED <<driver, usbVars, teardown>>
      BY <2>2 DEF rx_requeue
    <3> QED
      BY <3>1
  <2>3. CASE rx_end \/ rxep_mark
    BY <2>3 DEF rx_end, rxep_mark
  <2> QED
    BY <1>3, <2>1, <2>2, <2>3 DEF Tasklet
<1>4. CASE usb_deregister
  BY <1>4 DEF usb_deregister
<1>5. CASE World
  <2>1. CASE Unplug \/ disconnect_storage
    BY <2>1 DEF Unplug, disconnect_storage
  <2>2. ASSUME NEW ok \in BOOLEAN, NEW outcome \in {"absent", "storage", "bound"},
               ath9k_hif_usb_probe(ok, outcome)
        PROVE  LifeInv'
    BY <2>2 DEF ath9k_hif_usb_probe
  <2>3. ASSUME NEW b \in BOOLEAN, rxep_pick(b) \/ recvbuf2recvframe(b) \/ rtl_plug(b)
        PROVE  LifeInv'
    BY <2>3 DEF rxep_pick, recvbuf2recvframe, rtl_plug
  <2>4. ASSUME NEW ok \in BOOLEAN, NEW registered \in BOOLEAN, rtw_drv_entry(ok, registered)
        PROVE  LifeInv'
    BY <2>4 DEF rtw_drv_entry
  <2>5. CASE rtw_drv_halt
    BY <2>5 DEF rtw_drv_halt
  <2> QED
    BY <1>5, <2>1, <2>2, <2>3, <2>4, <2>5 DEF World
<1>6. CASE User
  <2>1. ASSUME NEW r \in Readers, my_read(r) \/ my_release(r) \/ \E g \in heap : my_open(r, g)
        PROVE  LifeInv'
    BY <2>1 DEF my_read, my_release, my_open
  <2> QED
    BY <1>6, <2>1 DEF User
<1>7. CASE UNCHANGED vars
  BY <1>7 DEF vars
<1> QED
  BY <1>1, <1>2, <1>3, <1>4, <1>5, <1>6, <1>7 DEF Next

-----------------------------------------------------------------------------
(* my_init and my_cleanup alternate: between the two the pointers are good. *)
(* With ath9k_htc that is while an interface with a hif_dev is there, which *)
(* covers the time in which the tasklet may find a frame in the list.       *)

HeapInv ==
  /\ Ath9k /\ "init" \notin failed /\ usb \in Connected => current \in heap
  /\ Rtl8188 /\ "init" \notin failed /\ module = "in" => current \in heap
  /\ FreedOnce

(* What the receive path of ath9k_htc and the taking down of it leave alone *)
(* or add to the accesses to freed memory.                                  *)
LEMMA RxLeaves ==
  ASSUME Tasklet \/ rxep_mark \/ Teardown
  PROVE  /\ UNCHANGED <<driver, deviceVars, usbVars, files, failed>>
         /\ bad' \subseteq bad \cup {"rxbuf", "write"}
<1> USE DEF Failing, update_beacon
<1>1. CASE Teardown
  BY <1>1 DEF Teardown, ath9k_rx_cleanup, rx_cleanup_next, rx_cleanup_end,
     ath9k_hif_usb_dealloc_urbs, historyVars
<1>2. ASSUME NEW accepted \in BOOLEAN, rx_prepare(accepted)
      PROVE  /\ UNCHANGED <<driver, deviceVars, usbVars, files, failed>>
             /\ bad' \subseteq bad \cup {"rxbuf", "write"}
  BY <1>2 DEF rx_prepare
<1>3. CASE rx_requeue \/ rx_end \/ rxep_mark
  BY <1>3 DEF rx_requeue, rx_end, rxep_mark, historyVars
<1> QED
  BY <1>1, <1>2, <1>3 DEF Tasklet

(* No step loses the device while it is in use, or frees it twice.          *)
LEMMA NextHeap == LifeInv /\ HeapInv /\ [Next]_vars => HeapInv'
<1> SUFFICES ASSUME LifeInv, HeapInv, [Next]_vars PROVE HeapInv'
  OBVIOUS
<1> USE DEF HeapInv, FreedOnce, Connected, Ath9k, Rtl8188, Failing, deviceVars, usbVars, historyVars
<1>1. CASE Firmware
  <2>1. usb' \in Connected => usb \in Connected
    BY <1>1 DEF Firmware, firmware_init, firmware_error, firmware_undo, firmware_undone,
       firmware_done, firmware_fail, firmware_release, Released
  <2>2. UNCHANGED <<driver, heap, current, module, failed, bad>>
    BY <1>1 DEF Firmware, firmware_init, firmware_error, firmware_undo, firmware_undone,
       firmware_done, firmware_fail, firmware_release
  <2> QED
    BY <2>1, <2>2
<1>2. CASE Disconnect
  BY <1>2 DEF LifeInv, Disconnect, disconnect_stop, disconnect_cleanup, my_cleanup
<1>3. CASE Tasklet \/ rxep_mark \/ Teardown
  BY <1>3, RxLeaves
<1>4. CASE usb_deregister
  BY <1>4 DEF usb_deregister, LifeInv
<1>5. CASE World
  <2>1. CASE Unplug \/ disconnect_storage
    BY <2>1 DEF Unplug, disconnect_storage
  <2>2. ASSUME NEW ok \in BOOLEAN, NEW outcome \in {"absent", "storage", "bound"},
               ath9k_hif_usb_probe(ok, outcome)
        PROVE  HeapInv'
    BY <2>2 DEF ath9k_hif_usb_probe, my_init
  <2>3. ASSUME NEW b \in BOOLEAN, rxep_pick(b) \/ recvbuf2recvframe(b) \/ rtl_plug(b)
        PROVE  HeapInv'
    BY <2>3 DEF rxep_pick, recvbuf2recvframe, rtl_plug, update_beacon
  <2>4. ASSUME NEW ok \in BOOLEAN, NEW registered \in BOOLEAN, rtw_drv_entry(ok, registered)
        PROVE  HeapInv'
    BY <2>4 DEF rtw_drv_entry, my_init
  <2>5. CASE rtw_drv_halt
    BY <2>5 DEF rtw_drv_halt, my_cleanup
  <2> QED
    BY <1>5, <2>1, <2>2, <2>3, <2>4, <2>5 DEF World
<1>6. CASE User
  <2>1. ASSUME NEW r \in Readers, my_read(r) \/ my_release(r) \/ \E g \in heap : my_open(r, g)
        PROVE  HeapInv'
    BY <2>1 DEF my_read, my_release, my_open
  <2> QED
    BY <1>6, <2>1 DEF User
<1>7. CASE UNCHANGED vars
  BY <1>7 DEF vars
<1> QED
  BY <1>1, <1>2, <1>3, <1>4, <1>5, <1>6, <1>7 DEF Next

(* The allocations of my_init are freed once, by my_cleanup, however probe, *)
(* the firmware worker, disconnect and unplugging interleave.               *)
THEOREM FreedOnceTheorem == Spec => []FreedOnce
<1>1. Init => LifeInv /\ HeapInv
  BY DriverAssumption DEF Init, LifeInv, HeapInv, FreedOnce, Connected, Ath9k, Rtl8188
<1>2. HeapInv => FreedOnce
  BY DEF HeapInv
<1> QED
  BY <1>1, <1>2, NextLife, NextHeap, PTL DEF Spec

-----------------------------------------------------------------------------
(* With rtl8188eus the device lives as long as the module, and the files    *)
(* that pin the module name the one generation there is.                    *)

FileInv ==
  /\ DOMAIN files = Readers
  /\ Rtl8188 /\ failed = {} =>
       /\ module = "in" => heap = {current}
       /\ module # "in" => heap = {}
       /\ \A r \in Readers : files[r] # 0 => files[r] \in heap
  /\ FilesLive

(* Opening, reading, closing, and the module's entry and exit keep that.    *)
LEMMA NextFile == LifeInv /\ FileInv /\ [Next]_vars => FileInv'
<1> SUFFICES ASSUME LifeInv, FileInv, [Next]_vars PROVE FileInv'
  OBVIOUS
<1> USE DEF FileInv, FilesLive, Rtl8188, Failing, deviceVars, historyVars
<1>1. CASE Firmware \/ Disconnect
  <2>1. ~ Rtl8188
    BY <1>1 DEF LifeInv, Firmware, firmware_init, firmware_error, firmware_undo, firmware_undone,
       firmware_done, firmware_fail, firmware_release, Disconnect, disconnect_stop,
       disconnect_cleanup
  <2>2. UNCHANGED <<driver, files>>
    BY <1>1 DEF Firmware, firmware_init, firmware_error, firmware_undo, firmware_undone,
       firmware_done, firmware_fail, firmware_release, Disconnect, disconnect_stop,
       disconnect_cleanup
  <2> QED
    BY <2>1, <2>2
<1>2. CASE Tasklet \/ rxep_mark \/ Teardown \/ usb_deregister
  <2>1. CASE Tasklet \/ rxep_mark \/ Teardown
    BY <2>1, RxLeaves DEF usbVars
  <2>2. CASE usb_deregister
    BY <2>2 DEF usb_deregister
  <2> QED
    BY <1>2, <2>1, <2>2
<1>3. CASE World
  <2>1. CASE Unplug \/ disconnect_storage
    BY <2>1 DEF Unplug, disconnect_storage
  <2>2. ASSUME NEW ok \in BOOLEAN, NEW outcome \in {"absent", "storage", "bound"},
               ath9k_hif_usb_probe(ok, outcome)
        PROVE  FileInv'
    BY <2>2 DEF ath9k_hif_usb_probe, Ath9k
  <2>3. ASSUME NEW b \in BOOLEAN, rxep_pick(b) \/ recvbuf2recvframe(b) \/ rtl_plug(b)
        PROVE  FileInv'
    BY <2>3 DEF rxep_pick, recvbuf2recvframe, rtl_plug, update_beacon, usbVars
  <2>4. ASSUME NEW ok \in BOOLEAN, NEW registered \in BOOLEAN, rtw_drv_entry(ok, registered)
        PROVE  FileInv'
    BY <2>4 DEF rtw_drv_entry, my_init
  <2>5. CASE rtw_drv_halt
    <3>1. \A r \in Readers : files[r] = 0
      BY <2>5 DEF rtw_drv_halt, Unpinned
    <3> QED
      BY <2>5, <3>1 DEF rtw_drv_halt, my_cleanup
  <2> QED
    BY <1>3, <2>1, <2>2, <2>3, <2>4, <2>5 DEF World
<1>4. CASE User
  <2>1. ASSUME NEW r \in Readers, my_read(r) \/ my_release(r)
        PROVE  FileInv'
    BY <2>1 DEF my_read, my_release, usbVars
  <2>2. ASSUME NEW r \in Readers, NEW g \in heap, my_open(r, g)
        PROVE  FileInv'
    BY <2>2 DEF my_open, usbVars
  <2> QED
    BY <1>4, <2>1, <2>2 DEF User
<1>5. CASE UNCHANGED vars
  BY <1>5 DEF vars, usbVars
<1> QED
  BY <1>1, <1>2, <1>3, <1>4, <1>5 DEF Next

(* With rtl8188eus no file that is open outlives the device, however often  *)
(* the module is loaded and removed and the adapter comes and goes, as      *)
(* long as my_init and the rest of the module's entry succeed.              *)
THEOREM FilesLiveTheorem == Spec => []FilesLive
<1>1. Init => LifeInv /\ FileInv
  BY DriverAssumption DEF Init, LifeInv, FileInv, FilesLive, Ath9k, Rtl8188
<1>2. FileInv => FilesLive
  BY DEF FileInv
<1> QED
  BY <1>1, <1>2, NextLife, NextFile, PTL DEF Spec

-----------------------------------------------------------------------------
(* The queue of receive buffers between the softirq and the tasklet of      *)
(* ath9k_htc.                                                              *)

(* A frame that arrived.                                                   *)
Frame == [n : 1..arrived, beacon : BOOLEAN]

(* TypeOK with what the proofs need to carry it: every buffer on the list  *)
(* holds a frame that arrived, or nothing.                                 *)
TypeInv ==
  /\ TypeOK
  /\ rxbuf \in Seq(Bufs)
  /\ skb \in [Bufs -> Frame \cup {None}]
  /\ picked = None \/ picked \in [buf : Bufs, frame : Frame]

(* The number of the frame in the buffer at a place of the list.           *)
Number(i) == skb[rxbuf[i]].n

(* WaitingInFront is not inductive: a step that takes the first waiting    *)
(* buffer keeps it only if that buffer is the first of the list, and the   *)
(* softirq may store a frame in the buffer it picked before the tasklet    *)
(* ran. So: the frames wait in the order in which they arrived; none of    *)
(* them was captured yet, but for the one the tasklet is busy with; that   *)
(* buffer is the first of the list, and the one that the softirq picked is *)
(* the first free one, unless ath9k_rx_cleanup took them off; the frame of *)
(* the picked buffer is newer than any other.                              *)
QueueInv ==
  /\ WaitingInFront
  /\ \A i, j \in Waiting : i < j => Number(i) < Number(j)
  /\ \A i \in Waiting : captured < Number(i) \/ (captured = Number(i) /\ rxbuf[i] = busy)
  /\ busy # None =>
       /\ skb[busy] # None
       /\ \A i \in DOMAIN rxbuf : rxbuf[i] = busy => i = 1
  /\ picked # None =>
       /\ skb[picked.buf] = None
       /\ \A i \in DOMAIN rxbuf : rxbuf[i] = picked.buf => \A j \in 1..(i - 1) : j \in Waiting
       /\ captured < picked.frame.n
       /\ \A i \in Waiting : Number(i) < picked.frame.n

(* A set of numbers that is not empty has a least member.                  *)
LEMMA LeastNumber ==
  ASSUME NEW S, S \subseteq Nat, S # {}
  PROVE  \E i \in S : \A j \in S : i <= j
<1>1. PICK i \in S : \A j \in S : ~ (<<j, i>> \in OpToRel(<, Nat))
  BY NatLessThanWellFounded, WFMin, Zenon
<1>2. ASSUME NEW j \in S PROVE ~ (j < i)
  <2>1. <<j, i>> \in Nat \X Nat
    OBVIOUS
  <2>2. j < i => <<j, i>> \in OpToRel(<, Nat)
    BY <2>1, Zenon DEF OpToRel
  <2> QED
    BY <1>1, <2>2
<1> QED
  BY <1>2

(* FirstOf is the buffer at the least place: the loop over the list stops  *)
(* at the first match.                                                     *)
LEMMA FirstIsLeast ==
  ASSUME TypeInv, NEW S \in SUBSET DOMAIN rxbuf, S # {}
  PROVE  \E i \in S : FirstOf(S) = rxbuf[i] /\ \A j \in S : i <= j
<1>1. S \subseteq Nat
  BY DEF TypeInv
<1>2. \E i \in S : \A j \in S : i <= j
  BY <1>1, LeastNumber
<1> QED
  BY <1>2 DEF FirstOf

(* The first buffer that waits is the first of the list.                   *)
LEMMA FirstWaits ==
  ASSUME TypeInv, WaitingInFront, Waiting # {}
  PROVE  1 \in Waiting /\ FirstOf(Waiting) = rxbuf[1]
<1>1. Waiting \subseteq DOMAIN rxbuf
  BY DEF Waiting
<1>2. PICK i \in Waiting : FirstOf(Waiting) = rxbuf[i] /\ \A j \in Waiting : i <= j
  BY <1>1, FirstIsLeast
<1>3. i \in 1..Len(rxbuf)
  BY <1>1 DEF TypeInv
<1>4. 1 \in Waiting
  BY <1>3 DEF WaitingInFront
<1> QED
  BY <1>2, <1>3, <1>4

(* list_move_tail of the first buffer rotates the list.                    *)
LEMMA FirstMoves ==
  ASSUME TypeInv, rxbuf # <<>>
  PROVE  Requeued(rxbuf[1]) =
           [j \in 1..Len(rxbuf) |-> IF j < Len(rxbuf) THEN rxbuf[j + 1] ELSE rxbuf[1]]
<1>1. rxbuf \in Seq(Bufs) /\ Len(rxbuf) \in Nat /\ Len(rxbuf) > 0
  BY DEF TypeInv
<1>2. Position(rxbuf, rxbuf[1]) = 1
  BY <1>1 DEF TypeInv, TypeOK, Position
<1>3. RemoveAt(rxbuf, 1) = SubSeq(rxbuf, 2, Len(rxbuf))
  BY <1>1 DEF RemoveAt
<1>4. SubSeq(rxbuf, 2, Len(rxbuf)) = [j \in 1..(Len(rxbuf) - 1) |-> rxbuf[j + 1]]
  BY <1>1
<1> QED
  BY <1>1, <1>2, <1>3, <1>4 DEF Requeued

(* The tasklet moves the first buffer behind the others; its frame is gone. *)
LEMMA RequeuedType ==
  ASSUME TypeInv, rxbuf # <<>>, rxbuf' = Requeued(rxbuf[1])
  PROVE  /\ rxbuf' \in Seq(Bufs)
         /\ \A i, j \in DOMAIN rxbuf' : rxbuf'[i] = rxbuf'[j] => i = j
<1>1. rxbuf \in Seq(Bufs) /\ Len(rxbuf) \in Nat /\ Len(rxbuf) > 0
      /\ \A i, j \in 1..Len(rxbuf) : rxbuf[i] = rxbuf[j] => i = j
  BY DEF TypeInv, TypeOK
<1>2. rxbuf' = [j \in 1..Len(rxbuf) |-> IF j < Len(rxbuf) THEN rxbuf[j + 1] ELSE rxbuf[1]]
  BY FirstMoves
<1>3. \A j \in 1..Len(rxbuf) : rxbuf[j] \in Bufs
  BY <1>1
<1>4. rxbuf' \in Seq(Bufs)
  BY <1>1, <1>2, <1>3
<1>5. \A i, j \in 1..Len(rxbuf) : rxbuf'[i] = rxbuf'[j] => i = j
  BY <1>1, <1>2
<1> QED
  BY <1>2, <1>4, <1>5

(* list_del takes one buffer out and keeps the order of the others.         *)
LEMMA Removed ==
  ASSUME TypeInv, NEW p \in 1..Len(rxbuf)
  PROVE  /\ Unlinked(rxbuf[p]) \in Seq(Bufs)
         /\ Len(Unlinked(rxbuf[p])) = Len(rxbuf) - 1
         /\ \A i \in 1..(Len(rxbuf) - 1) :
              Unlinked(rxbuf[p])[i] = IF i < p THEN rxbuf[i] ELSE rxbuf[i + 1]
<1> DEFINE n == Len(rxbuf)
           f == SubSeq(rxbuf, 1, p - 1)
           g == SubSeq(rxbuf, p + 1, n)
<1>1. /\ rxbuf \in Seq(Bufs) /\ n \in Nat /\ p \in Nat /\ 1 <= p /\ p <= n
      /\ \A i \in 1..n : rxbuf[i] \in Bufs
  BY DEF TypeInv
<1>2. Position(rxbuf, rxbuf[p]) = p
  BY <1>1 DEF TypeInv, TypeOK, Position
<1>3. f \in Seq(Bufs) /\ Len(f) = p - 1 /\ \A i \in 1..(p - 1) : f[i] = rxbuf[i]
  <2>1. /\ f \in Seq(Bufs)
        /\ Len(f) = IF 1 <= p - 1 THEN (p - 1) - 1 + 1 ELSE 0
        /\ \A i \in 1..((p - 1) - 1 + 1) : f[i] = rxbuf[1 + i - 1]
    BY <1>1, SubSeqProperties
  <2> HIDE DEF f
  <2> QED
    BY <1>1, <2>1
<1>4. g \in Seq(Bufs) /\ Len(g) = n - p /\ \A i \in 1..(n - p) : g[i] = rxbuf[p + i]
  <2>1. /\ g \in Seq(Bufs)
        /\ Len(g) = IF p + 1 <= n THEN n - (p + 1) + 1 ELSE 0
        /\ \A i \in 1..(n - (p + 1) + 1) : g[i] = rxbuf[(p + 1) + i - 1]
    BY <1>1, SubSeqProperties
  <2> HIDE DEF g
  <2>2. \A i \in 1..(n - p) : (p + 1) + i - 1 = p + i
    BY <1>1
  <2> QED
    BY <1>1, <2>1, <2>2
<1>5. Unlinked(rxbuf[p]) = f \o g
  BY <1>2 DEF Unlinked, RemoveAt
<1> HIDE DEF f, g
<1>6. /\ f \o g \in Seq(Bufs) /\ Len(f \o g) = n - 1
      /\ \A i \in 1..(n - 1) : (f \o g)[i] = IF i < p THEN rxbuf[i] ELSE rxbuf[i + 1]
  <2>1. /\ f \o g \in Seq(Bufs) /\ Len(f \o g) = Len(f) + Len(g)
        /\ \A i \in 1..(Len(f) + Len(g)) :
             (f \o g)[i] = IF i <= Len(f) THEN f[i] ELSE g[i - Len(f)]
    BY <1>3, <1>4, ConcatProperties
  <2>2. Len(f) + Len(g) = n - 1
    BY <1>1, <1>3, <1>4
  <2>3. ASSUME NEW i \in 1..(n - 1)
        PROVE  (f \o g)[i] = IF i < p THEN rxbuf[i] ELSE rxbuf[i + 1]
    <3>1. CASE i < p
      <4>1. i \in 1..(p - 1) /\ i <= p - 1 /\ i \in 1..(Len(f) + Len(g))
        BY <1>1, <2>2, <3>1
      <4>2. (f \o g)[i] = rxbuf[i]
        BY <1>3, <2>1, <4>1
      <4> QED
        BY <3>1, <4>2
    <3>2. CASE ~ (i < p)
      <4>1. i - (p - 1) \in 1..(n - p) /\ p + (i - (p - 1)) = i + 1 /\ ~ (i <= p - 1)
        BY <1>1, <3>2
      <4>2. (f \o g)[i] = g[i - (p - 1)]
        BY <1>3, <2>1, <2>2, <4>1
      <4>3. (f \o g)[i] = rxbuf[i + 1]
        BY <1>4, <4>1, <4>2
      <4> QED
        BY <3>2, <4>3
    <3> QED
      BY <3>1, <3>2
  <2> QED
    BY <2>1, <2>2, <2>3
<1> QED
  BY <1>5, <1>6

(* What is left is a list without repetition.                               *)
LEMMA RemovedType ==
  ASSUME TypeInv, NEW p \in 1..Len(rxbuf), rxbuf' = Unlinked(rxbuf[p])
  PROVE  /\ rxbuf' \in Seq(Bufs) /\ Len(rxbuf') = Len(rxbuf) - 1
         /\ \A i, j \in DOMAIN rxbuf' : rxbuf'[i] = rxbuf'[j] => i = j
         /\ \A i \in 1..(Len(rxbuf) - 1) :
              rxbuf'[i] = IF i < p THEN rxbuf[i] ELSE rxbuf[i + 1]
<1> DEFINE n == Len(rxbuf)
<1>1. /\ n \in Nat /\ p \in Nat
      /\ \A i, j \in 1..n : rxbuf[i] = rxbuf[j] => i = j
  BY DEF TypeInv, TypeOK
<1>2. /\ rxbuf' \in Seq(Bufs) /\ Len(rxbuf') = n - 1
      /\ \A i \in 1..(n - 1) : rxbuf'[i] = IF i < p THEN rxbuf[i] ELSE rxbuf[i + 1]
  BY Removed
<1>3. DOMAIN rxbuf' = 1..(n - 1)
  BY <1>2
<1>4. ASSUME NEW i \in 1..(n - 1), NEW j \in 1..(n - 1), rxbuf'[i] = rxbuf'[j]
      PROVE  i = j
  <2>1. PICK k \in 1..n : rxbuf'[i] = rxbuf[k] /\ k = IF i < p THEN i ELSE i + 1
    BY <1>1, <1>2
  <2>2. PICK l \in 1..n : rxbuf'[j] = rxbuf[l] /\ l = IF j < p THEN j ELSE j + 1
    BY <1>1, <1>2
  <2>3. k = l
    BY <1>1, <1>4, <2>1, <2>2
  <2> QED
    BY <1>1, <2>1, <2>2, <2>3
<1> QED
  BY <1>2, <1>3, <1>4

(* A freed buffer that list_move_tail links again stands at the end.        *)
LEMMA RelinkedType ==
  ASSUME TypeInv, NEW b \in Bufs, ~ OnList(b), rxbuf' = Append(rxbuf, b)
  PROVE  /\ rxbuf' \in Seq(Bufs) /\ Len(rxbuf') = Len(rxbuf) + 1
         /\ \A i, j \in DOMAIN rxbuf' : rxbuf'[i] = rxbuf'[j] => i = j
         /\ \A i \in 1..Len(rxbuf) : rxbuf'[i] = rxbuf[i]
         /\ rxbuf'[Len(rxbuf) + 1] = b
<1> DEFINE n == Len(rxbuf)
<1>1. /\ rxbuf \in Seq(Bufs) /\ n \in Nat
      /\ \A i, j \in 1..n : rxbuf[i] = rxbuf[j] => i = j
      /\ \A i \in 1..n : rxbuf[i] # b
  BY DEF TypeInv, TypeOK, OnList
<1>2. /\ rxbuf' \in Seq(Bufs) /\ Len(rxbuf') = n + 1
      /\ \A i \in 1..n : rxbuf'[i] = rxbuf[i]
      /\ rxbuf'[n + 1] = b
  BY <1>1, AppendProperties
<1>3. DOMAIN rxbuf' = 1..(n + 1)
  BY <1>2
<1>4. \A i, j \in 1..(n + 1) : rxbuf'[i] = rxbuf'[j] => i = j
  BY <1>1, <1>2
<1> QED
  BY <1>2, <1>3, <1>4

(* The buffer that ath9k_rx_cleanup is at, and the one it saved, are on the *)
(* list, and so is every buffer that was not freed.                         *)
ListInv ==
  /\ \A b \in live : OnList(b)
  /\ teardown = "cleaning" /\ pos # None => OnList(pos)
  /\ teardown = "cleaning" /\ tbuf # None => OnList(tbuf) /\ tbuf # pos

(* list_move_tail of the first buffer keeps every buffer on the list.       *)
LEMMA RotationKeeps ==
  ASSUME TypeInv, rxbuf # <<>>, rxbuf' = Requeued(rxbuf[1]), NEW b, OnList(b)
  PROVE  OnList(b)'
<1> DEFINE n == Len(rxbuf)
<1>1. rxbuf \in Seq(Bufs) /\ n \in Nat /\ n > 0
  BY DEF TypeInv
<1>2. rxbuf' = [j \in 1..n |-> IF j < n THEN rxbuf[j + 1] ELSE rxbuf[1]]
  BY FirstMoves
<1>3. PICK i \in 1..n : rxbuf[i] = b
  BY DEF OnList, TypeInv
<1>4. CASE i = 1
  <2>1. rxbuf'[n] = b /\ n \in DOMAIN rxbuf'
    BY <1>1, <1>2, <1>3, <1>4
  <2> QED
    BY <2>1 DEF OnList
<1>5. CASE i # 1
  <2>1. i - 1 \in 1..n /\ i - 1 < n /\ (i - 1) + 1 = i
    BY <1>1, <1>5
  <2>2. rxbuf'[i - 1] = b /\ i - 1 \in DOMAIN rxbuf'
    BY <1>2, <1>3, <2>1
  <2> QED
    BY <2>2 DEF OnList
<1> QED
  BY <1>4, <1>5

(* list_del keeps every other buffer on the list.                           *)
LEMMA RemovalKeeps ==
  ASSUME TypeInv, NEW p \in 1..Len(rxbuf), rxbuf' = Unlinked(rxbuf[p]),
         NEW b, OnList(b), b # rxbuf[p]
  PROVE  OnList(b)'
<1> DEFINE n == Len(rxbuf)
<1>1. n \in Nat /\ p \in Nat /\ rxbuf \in Seq(Bufs)
  BY DEF TypeInv
<1>2. DOMAIN rxbuf' = 1..(n - 1) /\ \A i \in 1..(n - 1) :
              rxbuf'[i] = IF i < p THEN rxbuf[i] ELSE rxbuf[i + 1]
  BY <1>1, RemovedType
<1>3. PICK i \in 1..n : rxbuf[i] = b /\ i # p
  BY DEF OnList, TypeInv
<1>4. CASE i < p
  <2>1. i \in 1..(n - 1) /\ rxbuf'[i] = b
    BY <1>1, <1>2, <1>3, <1>4
  <2> QED
    BY <1>2, <2>1 DEF OnList
<1>5. CASE i > p
  <2>1. i - 1 \in 1..(n - 1) /\ ~ (i - 1 < p) /\ (i - 1) + 1 = i
    BY <1>1, <1>5
  <2>2. rxbuf'[i - 1] = b
    BY <1>2, <1>3, <2>1
  <2> QED
    BY <1>2, <2>1, <2>2 DEF OnList
<1> QED
  BY <1>1, <1>3, <1>4, <1>5

(* The saved node is read from the list, behind its own place.              *)
LEMMA AfterFacts ==
  ASSUME NEW list \in Seq(Bufs), \A i, j \in DOMAIN list : list[i] = list[j] => i = j,
         NEW b \in Bufs \cup {None}, b # None => \E i \in DOMAIN list : list[i] = b
  PROVE  /\ After(list, b) \in Bufs \cup {None}
         /\ After(list, b) # None =>
              /\ After(list, b) # b
              /\ \E i \in DOMAIN list : list[i] = After(list, b)
         /\ \A i \in DOMAIN list : b = list[i] => After(list, b) = At(list, i + 1)
<1>1. CASE b = None
  <2>1. \A i \in DOMAIN list : list[i] # None
    BY DriverAssumption
  <2> QED
    BY <1>1, <2>1 DEF After
<1>2. CASE b # None
  <2>1. PICK p \in DOMAIN list : list[p] = b
    BY <1>2
  <2>2. Position(list, b) = p
    BY <2>1 DEF Position
  <2>3. After(list, b) = At(list, p + 1)
    BY <1>2, <2>2 DEF After
  <2>4. \A i \in DOMAIN list : b = list[i] => i = p
    BY <2>1
  <2>5. CASE p + 1 \in DOMAIN list
    <3>1. After(list, b) = list[p + 1] /\ list[p + 1] \in Bufs /\ p + 1 # p
      BY <2>1, <2>3, <2>5 DEF At
    <3>2. list[p + 1] # b
      BY <2>1, <2>5, <3>1
    <3> QED
      BY <2>3, <2>4, <2>5, <3>1, <3>2
  <2>6. CASE p + 1 \notin DOMAIN list
    BY <2>3, <2>4, <2>6 DEF At
  <2> QED
    BY <2>5, <2>6
<1> QED
  BY <1>1, <1>2

(* What rx_cleanup_next takes from the list, and where the loop goes then:  *)
(* the node it saved, and the one it saves next, are on what is left.       *)
LEMMA CleanupNext ==
  ASSUME TypeInv, ListInv, rx_cleanup_next
  PROVE  \E p \in 1..Len(rxbuf) :
           /\ pos = rxbuf[p] /\ rxbuf' = Unlinked(rxbuf[p]) /\ pos' = tbuf
           /\ pos' \in Bufs \cup {None} /\ tbuf' \in Bufs \cup {None}
           /\ pos' # None => OnList(pos)'
           /\ tbuf' # None => OnList(tbuf)' /\ tbuf' # pos'
           /\ \A i \in DOMAIN rxbuf' : pos' = rxbuf'[i] => tbuf' = At(rxbuf', i + 1)
           /\ pos' = None => tbuf' = None
<1>1. /\ teardown = "cleaning" /\ pos # None /\ rxbuf' = Unlinked(pos)
      /\ pos' = tbuf /\ tbuf' = After(rxbuf', tbuf)
  BY DEF rx_cleanup_next
<1>2. PICK p \in 1..Len(rxbuf) : pos = rxbuf[p]
  BY <1>1 DEF ListInv, OnList, TypeInv
<1>3. rxbuf' = Unlinked(rxbuf[p])
  BY <1>1, <1>2
<1>4. /\ rxbuf' \in Seq(Bufs)
      /\ \A i, j \in DOMAIN rxbuf' : rxbuf'[i] = rxbuf'[j] => i = j
  BY <1>3, RemovedType
<1>5. tbuf \in Bufs \cup {None}
  BY DEF TypeInv, TypeOK
<1>6. tbuf # None => OnList(tbuf) /\ tbuf # rxbuf[p]
  BY <1>1, <1>2 DEF ListInv
<1>7. tbuf # None => \E i \in DOMAIN rxbuf' : rxbuf'[i] = tbuf
  BY <1>3, <1>6, RemovalKeeps DEF OnList
<1>8. /\ tbuf' \in Bufs \cup {None}
      /\ tbuf' # None =>
           /\ tbuf' # tbuf
           /\ \E i \in DOMAIN rxbuf' : rxbuf'[i] = tbuf'
      /\ \A i \in DOMAIN rxbuf' : tbuf = rxbuf'[i] => tbuf' = At(rxbuf', i + 1)
  BY <1>1, <1>4, <1>5, <1>7, AfterFacts
<1>9. tbuf = None => tbuf' = None
  BY <1>1 DEF After
<1> QED
  BY <1>1, <1>2, <1>3, <1>5, <1>7, <1>8, <1>9 DEF OnList

(* Where rx_requeue finds its buffer: first on the list, or off it.         *)
LEMMA RequeueCases ==
  ASSUME TypeInv, QueueInv, rx_requeue
  PROVE  \/ rxbuf # <<>> /\ rxbuf[1] = busy /\ rxbuf' = Requeued(rxbuf[1])
         \/ ~ OnList(busy) /\ rxbuf' = rxbuf
         \/ ~ OnList(busy) /\ rxbuf' = Append(rxbuf, busy)
<1>1. CASE OnList(busy)
  <2>1. PICK i \in DOMAIN rxbuf : rxbuf[i] = busy
    BY <1>1 DEF OnList
  <2>2. busy # None
    BY DEF rx_requeue
  <2>3. i = 1
    BY <2>1, <2>2 DEF QueueInv
  <2>4. rxbuf' = Requeued(busy)
    BY <1>1 DEF rx_requeue
  <2>5. rxbuf # <<>>
    BY <2>1
  <2> QED
    BY <2>1, <2>3, <2>4, <2>5
<1>2. CASE ~ OnList(busy)
  BY <1>2 DEF rx_requeue
<1> QED
  BY <1>1, <1>2

(* The list stays a list of buffers without repetition when rx_requeue puts *)
(* a buffer back, wherever it finds it.                                     *)
LEMMA RequeuedListType ==
  ASSUME TypeInv, QueueInv, rx_requeue
  PROVE  /\ rxbuf' \in Seq(Bufs)
         /\ \A i, j \in DOMAIN rxbuf' : rxbuf'[i] = rxbuf'[j] => i = j
<1>1. CASE rxbuf # <<>> /\ rxbuf' = Requeued(rxbuf[1])
  BY <1>1, RequeuedType
<1>2. CASE rxbuf' = rxbuf
  BY <1>2 DEF TypeInv, TypeOK
<1>3. CASE ~ OnList(busy) /\ rxbuf' = Append(rxbuf, busy)
  <2>1. busy \in Bufs
    BY DEF rx_requeue, TypeInv, TypeOK
  <2> QED
    BY <1>3, <2>1, RelinkedType
<1> QED
  BY <1>1, <1>2, <1>3, RequeueCases

(* Every step keeps the types.                                              *)
LEMMA NextType == LifeInv /\ TypeInv /\ QueueInv /\ ListInv /\ [Next]_vars => TypeInv'
<1> SUFFICES ASSUME LifeInv, TypeInv, QueueInv, ListInv, [Next]_vars PROVE TypeInv'
  OBVIOUS
<1> USE DriverAssumption
    DEF TypeInv, TypeOK, Frame, Failing, deviceVars, usbVars, rxVars, cleanupVars, queueVars,
        historyVars
<1>1. CASE Firmware
  <2>1. CASE firmware_init
    <3>1. Cardinality(Bufs) \in Nat
      BY FS_CardinalityType
    <3>2. rxbuf' \in Seq(Bufs) /\ \A i, j \in DOMAIN rxbuf' : rxbuf'[i] = rxbuf'[j] => i = j
      <4>1. /\ rxbuf' \in [1..Cardinality(Bufs) -> Bufs]
            /\ \A i, j \in DOMAIN rxbuf' : rxbuf'[i] = rxbuf'[j] => i = j
        BY <2>1 DEF firmware_init, Bijection, Injection, IsInjective
      <4> QED
        BY <3>1, <4>1
    <3>3. skb' \in [Bufs -> Frame \cup {None}] /\ live' = Bufs /\ urbs' = TRUE
          /\ fw' = "initialised"
      BY <2>1 DEF firmware_init
    <3>4. UNCHANGED <<driver, deviceVars, files, usb, module, ready, teardown, pos, tbuf, picked,
                      scheduled, busy, arrived, historyVars>>
      BY <2>1 DEF firmware_init
    <3> QED
      BY <3>2, <3>3, <3>4
  <2>2. CASE firmware_error \/ firmware_done \/ firmware_fail \/ firmware_release
    BY <2>2 DEF firmware_error, firmware_done, firmware_fail, firmware_release, Released
  <2>3. CASE firmware_undo \/ firmware_undone
    BY <2>3 DEF firmware_undo, firmware_undone
  <2> QED
    BY <1>1, <2>1, <2>2, <2>3 DEF Firmware
<1>2. CASE Disconnect
  <2>1. CASE disconnect_stop
    <3>1. teardown' \in {"stopped", "freed"}
      BY <2>1 DEF disconnect_stop
    <3> QED
      BY <2>1, <3>1 DEF disconnect_stop
  <2>2. CASE disconnect_cleanup
    BY <2>2 DEF disconnect_cleanup, my_cleanup
  <2> QED
    BY <1>2, <2>1, <2>2 DEF Disconnect
<1>3. CASE Teardown
  <2>1. CASE ath9k_rx_cleanup
    <3>1. At(rxbuf, 1) \in Bufs \cup {None} /\ At(rxbuf, 2) \in Bufs \cup {None}
      BY DEF At
    <3> QED
      BY <2>1, <3>1 DEF ath9k_rx_cleanup
  <2>2. CASE rx_cleanup_next
    <3>1. PICK p \in 1..Len(rxbuf) :
            /\ rxbuf' = Unlinked(rxbuf[p])
            /\ pos' \in Bufs \cup {None} /\ tbuf' \in Bufs \cup {None}
      BY <2>2, CleanupNext
    <3>2. rxbuf' \in Seq(Bufs) /\ \A i, j \in DOMAIN rxbuf' : rxbuf'[i] = rxbuf'[j] => i = j
      BY <3>1, RemovedType
    <3>3. live' \subseteq Bufs /\ bad' \subseteq bad \cup {"rxbuf"}
      BY <2>2 DEF rx_cleanup_next
    <3>4. UNCHANGED <<driver, deviceVars, files, usbVars, urbs, teardown, queueVars, captured,
                      failed, crossed>>
      BY <2>2 DEF rx_cleanup_next
    <3> QED
      BY <3>1, <3>2, <3>3, <3>4
  <2>3. CASE rx_cleanup_end \/ ath9k_hif_usb_dealloc_urbs
    BY <2>3 DEF rx_cleanup_end, ath9k_hif_usb_dealloc_urbs
  <2> QED
    BY <1>3, <2>1, <2>2, <2>3 DEF Teardown
<1>4. CASE Tasklet
  <2>1. ASSUME NEW accepted \in BOOLEAN, rx_prepare(accepted)
        PROVE  TypeInv'
    <3>1. rxbuf # <<>> /\ FirstOf(Waiting) = rxbuf[1] /\ 1 \in Waiting
      BY <2>1, FirstWaits DEF rx_prepare, Waiting, QueueInv
    <3>2. rxbuf[1] \in Bufs /\ skb[rxbuf[1]] \in Frame
      BY <3>1 DEF Waiting
    <3>3. /\ captured' = skb[rxbuf[1]].n \/ captured' = captured
          /\ bad' \subseteq bad \cup {"write"}
      BY <2>1, <3>1 DEF rx_prepare, update_beacon
    <3>4. busy' \in Bufs \cup {None} /\ skb' \in [Bufs -> Frame \cup {None}]
      BY <2>1, <3>1, <3>2 DEF rx_prepare, requeue
    <3>5. rxbuf' = rxbuf \/ rxbuf' = Requeued(rxbuf[1])
      BY <2>1, <3>1 DEF rx_prepare
    <3>6. rxbuf' \in Seq(Bufs) /\ \A i, j \in DOMAIN rxbuf' : rxbuf'[i] = rxbuf'[j] => i = j
      BY <3>1, <3>5, RequeuedType
    <3>7. UNCHANGED <<driver, deviceVars, files, usbVars, urbs, cleanupVars, picked, scheduled,
                      arrived, failed>>
      BY <2>1 DEF rx_prepare
    <3>8. captured' \in 0..arrived'
      BY <3>2, <3>3, <3>7
    <3>9. crossed' \in BOOLEAN
      BY <2>1 DEF rx_prepare, requeue
    <3> QED
      BY <3>3, <3>4, <3>6, <3>7, <3>8, <3>9
  <2>2. CASE rx_requeue
    <3>1. rxbuf' \in Seq(Bufs) /\ \A i, j \in DOMAIN rxbuf' : rxbuf'[i] = rxbuf'[j] => i = j
      BY <2>2, RequeuedListType
    <3>2. crossed' \in BOOLEAN /\ skb' \in [Bufs -> Frame \cup {None}] /\ busy' = None
          /\ bad' \subseteq bad \cup {"rxbuf"}
      BY <2>2 DEF rx_requeue, requeue
    <3>3. UNCHANGED <<driver, deviceVars, files, usbVars, urbs, cleanupVars, picked, scheduled,
                      arrived, captured, failed>>
      BY <2>2 DEF rx_requeue
    <3> QED
      BY <3>1, <3>2, <3>3
  <2>3. CASE rx_end
    BY <2>3 DEF rx_end
  <2> QED
    BY <1>4, <2>1, <2>2, <2>3 DEF Tasklet
<1>5. CASE rxep_mark \/ usb_deregister
  BY <1>5 DEF rxep_mark, usb_deregister
<1>6. CASE World
  <2>1. CASE Unplug \/ disconnect_storage
    BY <2>1 DEF Unplug, disconnect_storage
  <2>2. ASSUME NEW ok \in BOOLEAN, NEW outcome \in {"absent", "storage", "bound"},
               ath9k_hif_usb_probe(ok, outcome)
        PROVE  TypeInv'
    BY <2>2 DEF ath9k_hif_usb_probe, my_init
  <2>3. ASSUME NEW b \in BOOLEAN, rxep_pick(b)
        PROVE  TypeInv'
    <3>1. ASSUME Free # {} PROVE FirstOf(Free) \in Bufs
      <4>1. Free \subseteq DOMAIN rxbuf
        BY DEF Free
      <4>2. \E i \in Free : FirstOf(Free) = rxbuf[i]
        BY <3>1, <4>1, FirstIsLeast
      <4> QED
        BY <4>1, <4>2
    <3>2. arrived' \in 0..MaxFrames /\ arrived' = arrived + 1 /\ UNCHANGED <<captured, skb, rxbuf>>
      BY <2>3 DEF rxep_pick
    <3>3. Frame \subseteq Frame'
      BY <3>2
    <3>4. skb' \in [Bufs -> (Frame \cup {None})']
      BY <3>2, <3>3
    <3>5. picked' = None \/ picked' \in [buf : Bufs, frame : Frame']
      BY <2>3, <3>1, <3>2 DEF rxep_pick
    <3>6. UNCHANGED <<driver, deviceVars, files, usbVars, urbs, cleanupVars, scheduled, busy,
                      historyVars>>
      BY <2>3 DEF rxep_pick
    <3> QED
      BY <3>2, <3>4, <3>5, <3>6
  <2>4. ASSUME NEW b \in BOOLEAN, recvbuf2recvframe(b)
        PROVE  TypeInv'
    <3>1. arrived' \in 0..MaxFrames /\ arrived' = arrived + 1 /\ UNCHANGED <<picked, skb, rxbuf>>
      BY <2>4 DEF recvbuf2recvframe
    <3>2. Frame \subseteq Frame'
      BY <3>1
    <3>3. skb' \in [Bufs -> (Frame \cup {None})']
      BY <3>1, <3>2
    <3>4. picked' = None \/ picked' \in [buf : Bufs, frame : Frame']
      BY <3>1, <3>2
    <3>5. /\ captured' = arrived + 1 \/ captured' = captured
          /\ bad' \subseteq bad \cup {"write"}
      BY <2>4 DEF recvbuf2recvframe, update_beacon
    <3>6. UNCHANGED <<driver, deviceVars, files, usbVars, urbs, cleanupVars, scheduled, busy, failed,
                      crossed>>
      BY <2>4 DEF recvbuf2recvframe
    <3> QED
      BY <3>1, <3>3, <3>4, <3>5, <3>6
  <2>5. ASSUME NEW b \in BOOLEAN, rtl_plug(b)
        PROVE  TypeInv'
    BY <2>5 DEF rtl_plug
  <2>6. ASSUME NEW ok \in BOOLEAN, NEW registered \in BOOLEAN, rtw_drv_entry(ok, registered)
        PROVE  TypeInv'
    BY <2>6 DEF rtw_drv_entry, my_init
  <2>7. CASE rtw_drv_halt
    BY <2>7 DEF rtw_drv_halt, my_cleanup
  <2> QED
    BY <1>6, <2>1, <2>2, <2>3, <2>4, <2>5, <2>6, <2>7 DEF World
<1>7. CASE User
  <2>1. ASSUME NEW r \in Readers, my_read(r) \/ my_release(r)
        PROVE  TypeInv'
    <3>1. bad' \subseteq bad \cup {"file"} /\ files' \in [Readers -> 0..MaxInits]
      BY <2>1 DEF my_read, my_release
    <3>2. UNCHANGED <<driver, deviceVars, usbVars, rxVars, captured, failed, crossed>>
      BY <2>1 DEF my_read, my_release
    <3> QED
      BY <3>1, <3>2
  <2>2. ASSUME NEW r \in Readers, NEW g \in heap, my_open(r, g)
        PROVE  TypeInv'
    BY <2>2 DEF my_open
  <2> QED
    BY <1>7, <2>1, <2>2 DEF User
<1>8. CASE UNCHANGED vars
  BY <1>8 DEF vars
<1> QED
  BY <1>1, <1>2, <1>3, <1>4, <1>5, <1>6, <1>7, <1>8 DEF Next

(* An empty list satisfies everything.                                      *)
LEMMA NothingWaits == rxbuf = <<>> /\ picked = None /\ busy = None => QueueInv
<1>1. rxbuf = <<>> => Waiting = {}
  BY DEF Waiting
<1> QED
  BY <1>1 DEF QueueInv, WaitingInFront

(* Requeueing the first buffer, whether its frame was captured or          *)
(* rejected, keeps the order of the queue (ath9k_rx_tasklet).              *)
LEMMA RotatedQueue ==
  ASSUME TypeInv, QueueInv, 1 \in Waiting,
         rxbuf' = Requeued(rxbuf[1]), skb' = [skb EXCEPT ![rxbuf[1]] = None],
         captured' = captured \/ captured' = Number(1),
         busy = None \/ busy = rxbuf[1], busy' = None, picked' = picked
  PROVE  QueueInv'
<1> DEFINE n == Len(rxbuf)
<1>1. /\ rxbuf \in Seq(Bufs) /\ n \in Nat /\ n > 0 /\ rxbuf # <<>>
      /\ \A i, j \in 1..n : rxbuf[i] = rxbuf[j] => i = j
      /\ \A i \in 1..n : rxbuf[i] \in Bufs
      /\ skb \in [Bufs -> Frame \cup {None}]
  BY DEF TypeInv, TypeOK, Waiting
<1>2. rxbuf' = [j \in 1..n |-> IF j < n THEN rxbuf[j + 1] ELSE rxbuf[1]]
  BY <1>1, FirstMoves
<1>3. \A i \in 1..n : skb'[rxbuf'[i]] = IF i < n THEN skb[rxbuf[i + 1]] ELSE None
  <2>1. ASSUME NEW i \in 1..n, i < n
        PROVE  skb'[rxbuf'[i]] = skb[rxbuf[i + 1]]
    <3>1. rxbuf'[i] = rxbuf[i + 1] /\ rxbuf[i + 1] # rxbuf[1] /\ rxbuf[i + 1] \in Bufs
      BY <1>1, <1>2, <2>1
    <3> QED
      BY <1>1, <3>1
  <2>2. skb'[rxbuf'[n]] = None
    BY <1>1, <1>2
  <2> QED
    BY <2>1, <2>2
<1>4. \A i \in 1..n : i \in Waiting' <=> i < n /\ i + 1 \in Waiting
  BY <1>1, <1>2, <1>3 DEF Waiting
<1>5. Waiting \subseteq 1..n /\ Waiting' \subseteq 1..n
  BY <1>1, <1>2 DEF Waiting
<1>6. \A i \in Waiting' : i + 1 \in Waiting /\ Number(i)' = Number(i + 1) /\ Number(i + 1) \in Nat
  <2> SUFFICES ASSUME NEW i \in Waiting'
               PROVE  i + 1 \in Waiting /\ Number(i)' = Number(i + 1) /\ Number(i + 1) \in Nat
    OBVIOUS
  <2>1. i \in 1..n /\ i < n /\ i + 1 \in Waiting
    BY <1>4, <1>5
  <2>2. Number(i)' = Number(i + 1)
    BY <1>3, <2>1 DEF Number
  <2>3. skb[rxbuf[i + 1]] \in Frame
    BY <1>1, <2>1 DEF Waiting
  <2>4. Number(i + 1) \in Nat
    BY <2>3 DEF Number, Frame
  <2> QED
    BY <2>1, <2>2, <2>4
<1>7. WaitingInFront'
  BY <1>4, <1>5 DEF QueueInv, WaitingInFront
<1>8. \A i, j \in Waiting' : i < j => Number(i)' < Number(j)'
  BY <1>5, <1>6 DEF QueueInv
<1>9. \A i \in Waiting' : captured' < Number(i)'
  <2> SUFFICES ASSUME NEW i \in Waiting' PROVE captured' < Number(i)'
    OBVIOUS
  <2>1. i \in 1..n /\ i + 1 \in Waiting /\ 1 < i + 1 /\ i + 1 \in 1..n
    BY <1>5, <1>6
  <2>2. Number(1) < Number(i + 1)
    BY <2>1 DEF QueueInv
  <2>3. rxbuf[i + 1] # rxbuf[1] /\ rxbuf[i + 1] \in Bufs
    BY <1>1, <2>1
  <2>4. captured < Number(i + 1)
    BY <2>1, <2>3, DriverAssumption DEF QueueInv
  <2> QED
    BY <1>6, <2>2, <2>4
<1>10. ASSUME picked # None
       PROVE  /\ skb'[picked.buf] = None
              /\ \A i \in DOMAIN rxbuf' : rxbuf'[i] = picked.buf => \A j \in 1..(i - 1) : j \in Waiting'
              /\ captured' < picked.frame.n
              /\ \A i \in Waiting' : Number(i)' < picked.frame.n
  <2>1. picked.buf \in Bufs /\ skb[picked.buf] = None
    BY <1>10 DEF QueueInv, TypeInv
  <2>2. skb'[picked.buf] = None
    BY <1>1, <2>1
  <2>3. ASSUME NEW i \in 1..n, rxbuf'[i] = picked.buf, NEW j \in 1..(i - 1)
        PROVE  j \in Waiting'
    <3>1. i < n
      <4>1. rxbuf[1] # picked.buf
        BY <2>1 DEF Waiting
      <4> QED
        BY <1>1, <1>2, <2>3, <4>1
    <3>2. i + 1 \in 1..n /\ rxbuf[i + 1] = picked.buf /\ j + 1 \in 1..((i + 1) - 1)
      BY <1>1, <1>2, <2>3, <3>1
    <3>3. j + 1 \in Waiting
      BY <1>1, <1>10, <3>2 DEF QueueInv
    <3> QED
      BY <1>1, <1>4, <3>1, <3>3
  <2>4. DOMAIN rxbuf' = 1..n
    BY <1>2
  <2>5. captured < picked.frame.n /\ Number(1) < picked.frame.n
    BY <1>1, <1>10 DEF QueueInv
  <2>6. \A k \in Waiting' : Number(k)' < picked.frame.n
    BY <1>1, <1>6, <1>10 DEF QueueInv
  <2> QED
    BY <2>2, <2>3, <2>4, <2>5, <2>6
<1> QED
  BY <1>7, <1>8, <1>9, <1>10 DEF QueueInv

(* Taking a buffer off the list keeps the order of those that are left (the *)
(* loop of ath9k_rx_cleanup).                                               *)
LEMMA UnlinkedQueue ==
  ASSUME TypeInv, QueueInv, NEW p \in 1..Len(rxbuf), rxbuf' = Unlinked(rxbuf[p]),
         UNCHANGED <<skb, picked, busy, captured>>
  PROVE  QueueInv'
<1> DEFINE n == Len(rxbuf)
           old(i) == IF i < p THEN i ELSE i + 1
<1>1. n \in Nat /\ p \in Nat /\ Waiting \subseteq 1..n
  BY DEF TypeInv, Waiting
<1>2. DOMAIN rxbuf' = 1..(n - 1) /\ \A i \in 1..(n - 1) : rxbuf'[i] = rxbuf[old(i)]
  <2>1. /\ rxbuf' \in Seq(Bufs) /\ Len(rxbuf') = n - 1
        /\ \A i \in 1..(n - 1) : rxbuf'[i] = IF i < p THEN rxbuf[i] ELSE rxbuf[i + 1]
    BY RemovedType
  <2> QED
    BY <2>1
<1>3. /\ \A i \in 1..(n - 1) : old(i) \in 1..n /\ (old(i) = 1 => i = 1)
      /\ \A i, j \in 1..(n - 1) : i < j <=> old(i) < old(j)
  BY <1>1
<1> HIDE DEF old
<1>4. /\ Waiting' \subseteq 1..(n - 1)
      /\ \A i \in 1..(n - 1) : i \in Waiting' <=> old(i) \in Waiting
      /\ \A i \in 1..(n - 1) : Number(i)' = Number(old(i))
  BY <1>1, <1>2, <1>3 DEF Waiting, Number, TypeInv
<1>5. \A k \in Waiting : \A l \in 1..n : l < k => l \in Waiting
  BY <1>1 DEF QueueInv, WaitingInFront
<1>6. WaitingInFront'
  <2> SUFFICES ASSUME NEW i \in Waiting', NEW j \in 1..(i - 1) PROVE j \in Waiting'
    BY DEF WaitingInFront
  <2>1. i \in 1..(n - 1) /\ j \in 1..(n - 1) /\ j < i
    BY <1>1, <1>4
  <2> QED
    BY <1>3, <1>4, <1>5, <2>1
<1>7. \A i, j \in Waiting' : i < j => Number(i)' < Number(j)'
  BY <1>3, <1>4 DEF QueueInv
<1>8. \A i \in Waiting' : captured' < Number(i)' \/ (captured' = Number(i)' /\ rxbuf'[i] = busy')
  BY <1>2, <1>3, <1>4 DEF QueueInv
<1>9. busy # None => \A i \in DOMAIN rxbuf' : rxbuf'[i] = busy => i = 1
  BY <1>2, <1>3 DEF QueueInv, TypeInv
<1>10. ASSUME picked # None, NEW i \in DOMAIN rxbuf', rxbuf'[i] = picked.buf, NEW j \in 1..(i - 1)
       PROVE  j \in Waiting'
  <2>1. i \in 1..(n - 1) /\ j \in 1..(n - 1) /\ j < i
    BY <1>1, <1>2, <1>10
  <2>2. /\ rxbuf[old(i)] = picked.buf /\ old(i) \in 1..n /\ old(j) \in 1..n
        /\ old(j) < old(i)
    BY <1>2, <1>3, <1>10, <2>1
  <2>3. old(j) \in 1..(old(i) - 1) /\ old(i) \in DOMAIN rxbuf
    BY <2>2 DEF TypeInv
  <2>4. old(j) \in Waiting
    BY <1>10, <2>2, <2>3 DEF QueueInv
  <2> QED
    BY <1>4, <2>1, <2>4
<1>11. picked # None => \A i \in Waiting' : Number(i)' < picked.frame.n
  BY <1>3, <1>4 DEF QueueInv
<1> QED
  BY <1>6, <1>7, <1>8, <1>9, <1>10, <1>11 DEF QueueInv

(* A buffer that was freed while the tasklet delivered its frame, whether   *)
(* list_move_tail links it again or not, changes nothing for the frames     *)
(* that wait.                                                               *)
LEMMA LooseQueue ==
  ASSUME TypeInv, QueueInv, busy # None, ~ OnList(busy),
         rxbuf' = rxbuf \/ rxbuf' = Append(rxbuf, busy),
         skb' = [skb EXCEPT ![busy] = None], busy' = None, UNCHANGED <<picked, captured>>
  PROVE  QueueInv'
<1> DEFINE n == Len(rxbuf)
<1>1. /\ n \in Nat /\ Waiting \subseteq 1..n /\ busy \in Bufs /\ rxbuf \in Seq(Bufs)
      /\ skb \in [Bufs -> Frame \cup {None}]
  BY DEF TypeInv, TypeOK, Waiting
<1>2. \A i \in 1..n : rxbuf'[i] = rxbuf[i]
  BY <1>1, AppendProperties
<1>3. DOMAIN rxbuf' = 1..n \/ (DOMAIN rxbuf' = 1..(n + 1) /\ rxbuf'[n + 1] = busy)
  BY <1>1, AppendProperties
<1>4. \A i \in 1..n : rxbuf[i] # busy /\ skb'[rxbuf[i]] = skb[rxbuf[i]]
  BY <1>1 DEF OnList
<1>5. skb'[busy] = None
  BY <1>1
<1>6. Waiting' = Waiting
  <2>1. \A i \in 1..n : i \in Waiting' <=> i \in Waiting
    BY <1>1, <1>2, <1>3, <1>4 DEF Waiting
  <2>2. Waiting' \subseteq 1..n
    BY <1>1, <1>3, <1>5 DEF Waiting
  <2> QED
    BY <1>1, <2>1, <2>2
<1>7. \A i \in Waiting : Number(i)' = Number(i)
  BY <1>1, <1>2, <1>4 DEF Number
<1>8. \A i \in Waiting : captured < Number(i)
  BY <1>1, <1>4 DEF QueueInv
<1>9. ASSUME picked # None
      PROVE  /\ skb'[picked.buf] = None
             /\ \A i \in DOMAIN rxbuf' : rxbuf'[i] = picked.buf => \A j \in 1..(i - 1) : j \in Waiting'
  <2>1. skb[picked.buf] = None /\ skb[busy] # None /\ picked.buf \in Bufs
    BY <1>9 DEF QueueInv, TypeInv
  <2>2. skb'[picked.buf] = None /\ busy # picked.buf
    BY <1>1, <2>1
  <2>3. ASSUME NEW i \in DOMAIN rxbuf', rxbuf'[i] = picked.buf
        PROVE  \A j \in 1..(i - 1) : j \in Waiting'
    <3>1. i \in 1..n
      BY <1>1, <1>3, <2>2, <2>3
    <3>2. rxbuf[i] = picked.buf /\ i \in DOMAIN rxbuf
      BY <1>1, <1>2, <2>3, <3>1
    <3> QED
      BY <1>6, <1>9, <3>2 DEF QueueInv
  <2> QED
    BY <2>2, <2>3
<1>10. WaitingInFront'
  BY <1>6 DEF QueueInv, WaitingInFront
<1> QED
  BY <1>6, <1>7, <1>8, <1>9, <1>10 DEF QueueInv

(* A frame that becomes visible behind those that wait keeps the order of  *)
(* the queue (the end of ath9k_htc_rxep).                                  *)
LEMMA MarkedQueue ==
  ASSUME TypeInv, QueueInv, rxep_mark
  PROVE  QueueInv'
<1>1. CASE ~ OnList(picked.buf)
  <2>1. /\ picked # None /\ picked' = None /\ UNCHANGED <<rxbuf, busy, captured>>
        /\ skb' = [skb EXCEPT ![picked.buf] = picked.frame]
    BY DEF rxep_mark
  <2>2. \A i \in DOMAIN rxbuf : rxbuf[i] \in Bufs /\ rxbuf[i] # picked.buf
    BY <1>1 DEF OnList, TypeInv
  <2>3. \A i \in DOMAIN rxbuf : skb'[rxbuf[i]] = skb[rxbuf[i]]
    BY <2>1, <2>2 DEF TypeInv
  <2>4. Waiting' = Waiting /\ \A i \in Waiting : i \in DOMAIN rxbuf
    BY <2>1, <2>3 DEF Waiting
  <2>5. \A i \in Waiting : Number(i)' = Number(i)
    BY <2>1, <2>3, <2>4 DEF Number
  <2>6. busy # None => skb'[busy] # None
    <3>1. busy # None => skb[busy] # None /\ busy \in Bufs /\ busy # picked.buf
      BY <2>1 DEF QueueInv, TypeInv, TypeOK
    <3> QED
      BY <2>1, <3>1 DEF TypeInv
  <2>7. WaitingInFront'
    BY <2>4 DEF QueueInv, WaitingInFront
  <2> QED
    BY <2>1, <2>4, <2>5, <2>6, <2>7 DEF QueueInv
<1>2. CASE OnList(picked.buf)
  <2> DEFINE n == Len(rxbuf)
  <2>1. /\ rxbuf \in Seq(Bufs) /\ n \in Nat
        /\ \A i, j \in 1..n : rxbuf[i] = rxbuf[j] => i = j
        /\ skb \in [Bufs -> Frame \cup {None}]
        /\ Waiting \subseteq 1..n /\ Free \subseteq 1..n
    BY DEF TypeInv, TypeOK, Waiting, Free
  <2>2. /\ picked # None /\ picked' = None /\ UNCHANGED <<rxbuf, busy, captured>>
        /\ skb' = [skb EXCEPT ![picked.buf] = picked.frame]
        /\ picked.frame \in Frame
    BY DEF rxep_mark, TypeInv
  <2>3. PICK p \in 1..n : rxbuf[p] = picked.buf /\ \A j \in 1..(p - 1) : j \in Waiting
    BY <1>2, <2>1, <2>2 DEF QueueInv, OnList
  <2>4. p \in 1..n /\ p \notin Waiting
    BY <2>2, <2>3 DEF QueueInv, Waiting
  <2>5. \A i \in 1..n : skb'[rxbuf[i]] = IF i = p THEN picked.frame ELSE skb[rxbuf[i]]
    BY <2>1, <2>2, <2>3, <2>4
  <2>6. Waiting' \subseteq Waiting \cup {p} /\ Waiting \subseteq Waiting'
    BY <2>1, <2>2, <2>4, <2>5 DEF Waiting
  <2>7. \A i \in Waiting : i < p
    BY <2>1, <2>4 DEF QueueInv, WaitingInFront
  <2>8. Number(p)' = picked.frame.n /\ picked.frame.n \in Nat
        /\ \A i \in Waiting : Number(i)' = Number(i) 
    BY <2>1, <2>2, <2>4, <2>5 DEF Number, Frame
  <2>9. \A i \in Waiting : Number(i) \in Nat
    BY <2>1 DEF Number, Waiting, Frame
  <2>10. captured < picked.frame.n /\ \A i \in Waiting : Number(i) < picked.frame.n
    BY <2>2 DEF QueueInv
  <2>11. WaitingInFront'
    <3>1. \A i \in Waiting : \A j \in 1..(i - 1) : j \in Waiting
      BY DEF QueueInv, WaitingInFront
    <3> QED
      BY <2>3, <2>6, <3>1 DEF WaitingInFront
  <2>12. \A i, j \in Waiting' : i < j => Number(i)' < Number(j)'
    <3> SUFFICES ASSUME NEW i \in Waiting', NEW j \in Waiting', i < j
                 PROVE  Number(i)' < Number(j)'
      OBVIOUS
    <3>1. i \in Waiting
      BY <2>1, <2>4, <2>6, <2>7
    <3>2. CASE j \in Waiting
      BY <2>8, <3>1, <3>2 DEF QueueInv
    <3>3. CASE j = p
      BY <2>8, <2>10, <3>1, <3>3
    <3> QED
      BY <2>6, <3>2, <3>3
  <2>13. \A i \in Waiting' : captured' < Number(i)' \/ (captured' = Number(i)' /\ rxbuf'[i] = busy')
    <3> SUFFICES ASSUME NEW i \in Waiting'
                 PROVE  captured' < Number(i)' \/ (captured' = Number(i)' /\ rxbuf'[i] = busy')
      OBVIOUS
    <3>1. CASE i \in Waiting
      BY <2>2, <2>8, <3>1 DEF QueueInv
    <3>2. CASE i = p
      BY <2>2, <2>8, <2>10, <3>2
    <3> QED
      BY <2>6, <3>1, <3>2
  <2>14. busy # None => skb'[busy] # None
    <3>1. busy # None => skb[busy] # None /\ busy \in Bufs /\ busy # picked.buf
      BY <2>2 DEF QueueInv, TypeInv, TypeOK
    <3> QED
      BY <2>1, <2>2, <3>1
  <2> QED
    BY <2>2, <2>11, <2>12, <2>13, <2>14 DEF QueueInv
<1> QED
  BY <1>1, <1>2

(* The softirq picks the first free buffer for a frame newer than all      *)
(* others (ath9k_htc_rxep).                                                *)
LEMMA PickedQueue ==
  ASSUME TypeInv, QueueInv, NEW b \in BOOLEAN, rxep_pick(b)
  PROVE  QueueInv'
<1>0. arrived \in Nat /\ captured <= arrived
  BY DEF TypeInv, TypeOK
<1>1. /\ picked = None
      /\ UNCHANGED <<rxbuf, skb, busy, captured>>
      /\ picked' = IF Free = {} THEN None
                   ELSE [buf |-> FirstOf(Free), frame |-> [n |-> arrived + 1, beacon |-> b]]
  BY DEF rxep_pick, cleanupVars, queueVars, historyVars
<1>2. Waiting' = Waiting /\ Free' = Free
  BY <1>1 DEF Waiting, Free
<1>3. \A i : Number(i)' = Number(i)
  BY <1>1 DEF Number
<1>4. ASSUME picked' # None
      PROVE  /\ skb[picked'.buf] = None
             /\ \A i \in DOMAIN rxbuf : rxbuf[i] = picked'.buf => \A j \in 1..(i - 1) : j \in Waiting
             /\ captured < picked'.frame.n
             /\ \A i \in Waiting : Number(i) < picked'.frame.n
  <2>1. Free # {} /\ Free \subseteq DOMAIN rxbuf /\ rxbuf \in Seq(Bufs)
    BY <1>1, <1>4 DEF Free, TypeInv
  <2>2. PICK i \in Free : FirstOf(Free) = rxbuf[i] /\ \A j \in Free : i <= j
    BY <2>1, FirstIsLeast
  <2>3. i \in 1..Len(rxbuf) /\ \A j \in 1..(i - 1) : j \in 1..Len(rxbuf) /\ j \notin Free
    BY <2>1, <2>2
  <2>4. \A j \in 1..(i - 1) : j \in Waiting
    BY <2>3 DEF Free, Waiting
  <2>5. picked'.buf = rxbuf[i] /\ picked'.frame.n = arrived + 1
    BY <1>1, <2>1, <2>2
  <2>6. \A k \in Waiting : Number(k) \in 1..arrived
    BY DEF Waiting, Number, TypeInv, Frame
  <2>7. captured \in Nat
    BY DEF TypeInv, TypeOK
  <2>8. skb[picked'.buf] = None
    BY <2>5 DEF Free
  <2>9. \A k \in DOMAIN rxbuf : rxbuf[k] = picked'.buf => k = i
    BY <2>1, <2>5 DEF TypeInv, TypeOK, Free
  <2> QED
    BY <1>0, <1>1, <2>4, <2>5, <2>6, <2>7, <2>8, <2>9
<1>5. WaitingInFront'
  BY <1>2 DEF QueueInv, WaitingInFront
<1> QED
  BY <1>1, <1>2, <1>3, <1>4, <1>5 DEF QueueInv

(* Every step keeps the order of the queue.                                 *)
LEMMA NextQueue == LifeInv /\ TypeInv /\ QueueInv /\ ListInv /\ [Next]_vars => QueueInv'
<1> SUFFICES ASSUME LifeInv, TypeInv, QueueInv, ListInv, [Next]_vars PROVE QueueInv'
  OBVIOUS
<1> USE DEF usbVars, rxVars, cleanupVars, queueVars, historyVars
<1>1. ASSUME UNCHANGED <<rxbuf, skb, picked, busy, captured>>
      PROVE  QueueInv'
  BY <1>1 DEF QueueInv, WaitingInFront, Waiting, Free, Number
<1>2. ASSUME rxbuf' = <<>>, picked' = None, busy' = None
      PROVE  QueueInv'
  <2>1. Waiting' = {}
    BY <1>2 DEF Waiting
  <2> QED
    BY <1>2, <2>1 DEF QueueInv, WaitingInFront
<1>3. CASE firmware_init
  <2>1. picked' = None /\ busy' = None
    BY <1>3 DEF firmware_init
  <2>2. \A i \in DOMAIN rxbuf' : rxbuf'[i] \in Bufs /\ skb'[rxbuf'[i]] = None
    BY <1>3 DEF firmware_init, Bijection, Injection
  <2>3. Waiting' = {}
    BY <2>2 DEF Waiting
  <2> QED
    BY <2>1, <2>3 DEF QueueInv, WaitingInFront
<1>4. CASE firmware_error \/ firmware_done \/ firmware_fail \/ firmware_release
           \/ firmware_undo \/ firmware_undone
  BY <1>1, <1>4 DEF firmware_error, firmware_done, firmware_fail, firmware_release, firmware_undo,
     firmware_undone
<1>5. CASE rx_cleanup_next
  <2>1. PICK p \in 1..Len(rxbuf) : rxbuf' = Unlinked(rxbuf[p])
    BY <1>5, CleanupNext
  <2>2. UNCHANGED <<skb, picked, busy, captured>>
    BY <1>5 DEF rx_cleanup_next
  <2> QED
    BY <2>1, <2>2, UnlinkedQueue
<1>6. CASE Disconnect \/ ath9k_rx_cleanup \/ rx_cleanup_end \/ ath9k_hif_usb_dealloc_urbs
  BY <1>1, <1>6 DEF Disconnect, disconnect_stop, disconnect_cleanup, ath9k_rx_cleanup,
     rx_cleanup_end, ath9k_hif_usb_dealloc_urbs
<1>7. ASSUME NEW accepted \in BOOLEAN, rx_prepare(accepted)
      PROVE  QueueInv'
  <2>1. rxbuf # <<>> /\ FirstOf(Waiting) = rxbuf[1] /\ 1 \in Waiting
    BY <1>7, FirstWaits DEF rx_prepare, Waiting, QueueInv
  <2>2. busy = None /\ picked' = picked /\ (captured' = captured \/ captured' = Number(1))
    BY <1>7, <2>1 DEF rx_prepare, update_beacon, Number
  <2>3. CASE rxbuf' = Requeued(rxbuf[1]) /\ skb' = [skb EXCEPT ![rxbuf[1]] = None] /\ busy' = busy
    BY <2>1, <2>2, <2>3, RotatedQueue
  <2>4. CASE busy' = rxbuf[1] /\ UNCHANGED <<rxbuf, skb>>
    <3>1. Waiting' = Waiting /\ Free' = Free
      BY <2>4 DEF Waiting, Free
    <3>2. \A i : Number(i)' = Number(i)
      BY <2>4 DEF Number
    <3>3. \A i \in Waiting : i \in 1..Len(rxbuf) /\ Number(i) \in Nat
      BY DEF Waiting, Number, TypeInv, Frame
    <3>4. captured \in Nat
      BY DEF TypeInv, TypeOK
    <3>5. \A i \in Waiting : rxbuf[i] # busy
      BY <2>2, DriverAssumption, <3>3 DEF TypeInv
    <3>6. \A i \in Waiting : captured < Number(i)
      BY <3>5 DEF QueueInv
    <3>7. \A i \in Waiting : i = 1 \/ Number(1) < Number(i)
      BY <2>1, <3>3 DEF QueueInv
    <3>8. \A i \in Waiting : captured' < Number(i) \/ (captured' = Number(i) /\ rxbuf[i] = busy')
      BY <2>2, <2>4, <3>6, <3>7
    <3>9. picked # None => captured' < picked.frame.n
      BY <2>1, <2>2 DEF QueueInv
    <3>10. WaitingInFront'
      BY <3>1 DEF QueueInv, WaitingInFront
    <3>11. skb'[busy'] # None /\ \A i \in DOMAIN rxbuf' : rxbuf'[i] = busy' => i = 1
      BY <2>1, <2>4 DEF TypeInv, TypeOK, Waiting
    <3> QED
      BY <2>1, <2>2, <2>4, <3>1, <3>2, <3>8, <3>9, <3>10, <3>11 DEF QueueInv
  <2> QED
    BY <1>7, <2>1, <2>3, <2>4 DEF rx_prepare, requeue
<1>8. CASE rx_requeue
  <2>1. /\ busy # None /\ busy' = None /\ UNCHANGED <<picked, captured>>
        /\ skb' = [skb EXCEPT ![busy] = None]
    BY <1>8 DEF rx_requeue, requeue
  <2>2. CASE rxbuf # <<>> /\ rxbuf[1] = busy /\ rxbuf' = Requeued(rxbuf[1])
    <3>1. 1 \in Waiting
      BY <2>1, <2>2 DEF QueueInv, Waiting, TypeInv
    <3> QED
      BY <2>1, <2>2, <3>1, RotatedQueue
  <2>3. CASE ~ OnList(busy) /\ (rxbuf' = rxbuf \/ rxbuf' = Append(rxbuf, busy))
    BY <2>1, <2>3, LooseQueue
  <2> QED
    BY <1>8, <2>2, <2>3, RequeueCases
<1>9. CASE rx_end \/ usb_deregister
  BY <1>1, <1>9 DEF rx_end, usb_deregister
<1>10. CASE rxep_mark
  BY <1>10, MarkedQueue
<1>11. CASE Unplug \/ disconnect_storage \/ rtw_drv_halt
  BY <1>1, <1>11 DEF Unplug, disconnect_storage, rtw_drv_halt
<1>12. ASSUME NEW ok, NEW outcome, ath9k_hif_usb_probe(ok, outcome) \/ rtw_drv_entry(ok, outcome)
       PROVE  QueueInv'
  BY <1>1, <1>12 DEF ath9k_hif_usb_probe, rtw_drv_entry
<1>13. ASSUME NEW b \in BOOLEAN, rxep_pick(b)
       PROVE  QueueInv'
  BY <1>13, PickedQueue
<1>14. ASSUME NEW b \in BOOLEAN, recvbuf2recvframe(b)
       PROVE  QueueInv'
  BY <1>2, <1>14 DEF recvbuf2recvframe, LifeInv
<1>15. ASSUME NEW b \in BOOLEAN, rtl_plug(b)
       PROVE  QueueInv'
  BY <1>1, <1>15 DEF rtl_plug
<1>16. ASSUME NEW r, my_read(r) \/ my_release(r) \/ \E g \in heap : my_open(r, g)
       PROVE  QueueInv'
  BY <1>1, <1>16 DEF my_read, my_release, my_open
<1>17. CASE UNCHANGED vars
  BY <1>1, <1>17 DEF vars
<1> QED
  BY <1>3, <1>4, <1>5, <1>6, <1>7, <1>8, <1>9, <1>10, <1>11, <1>12, <1>13, <1>14, <1>15, <1>16, <1>17
     DEF Next, Firmware, Teardown, Tasklet, World, User

(* Every step keeps the buffers that are allocated on the list, and with    *)
(* them the two that ath9k_rx_cleanup holds: list_move_tail does not lose   *)
(* one, and list_del only takes the one that is freed.                      *)
LEMMA NextList == LifeInv /\ TypeInv /\ QueueInv /\ ListInv /\ [Next]_vars => ListInv'
<1> SUFFICES ASSUME LifeInv, TypeInv, QueueInv, ListInv, [Next]_vars PROVE ListInv'
  OBVIOUS
<1> USE DEF usbVars, rxVars, cleanupVars, queueVars, historyVars
<1>1. ASSUME \A b : OnList(b) => OnList(b)', UNCHANGED <<live, pos, tbuf>>,
             teardown' = teardown \/ teardown' # "cleaning"
      PROVE  ListInv'
  BY <1>1 DEF ListInv
<1>2. ASSUME UNCHANGED <<rxbuf, live, pos, tbuf>>, teardown' = teardown \/ teardown' # "cleaning"
      PROVE  ListInv'
  BY <1>1, <1>2 DEF OnList
<1>3. CASE firmware_init
  <2>1. \A b \in Bufs : \E i \in 1..Cardinality(Bufs) : rxbuf'[i] = b
    BY <1>3 DEF firmware_init, Bijection, Surjection
  <2>2. DOMAIN rxbuf' = 1..Cardinality(Bufs)
    BY <1>3 DEF firmware_init, Bijection, Surjection
  <2>3. \A b \in Bufs : OnList(b)'
    BY <2>1, <2>2 DEF OnList
  <2>4. teardown = "none" /\ teardown' = teardown /\ live' = Bufs
    BY <1>3 DEF firmware_init, LifeInv, fw_done
  <2> QED
    BY <2>3, <2>4 DEF ListInv
<1>4. CASE firmware_error \/ firmware_done \/ firmware_fail \/ firmware_release
           \/ firmware_undo \/ firmware_undone
  BY <1>2, <1>4 DEF firmware_error, firmware_done, firmware_fail, firmware_release, firmware_undo,
     firmware_undone
<1>5. CASE Disconnect \/ rx_cleanup_end \/ ath9k_hif_usb_dealloc_urbs
  BY <1>2, <1>5 DEF Disconnect, disconnect_stop, disconnect_cleanup, rx_cleanup_end,
     ath9k_hif_usb_dealloc_urbs
<1>6. CASE ath9k_rx_cleanup
  <2>1. pos' = At(rxbuf, 1) /\ tbuf' = At(rxbuf, 2) /\ UNCHANGED <<rxbuf, live>>
    BY <1>6 DEF ath9k_rx_cleanup
  <2>2. \A b : OnList(b) => OnList(b)'
    BY <2>1 DEF OnList
  <2>3. pos' # None => OnList(pos')
    BY <2>1 DEF At, OnList
  <2>4. tbuf' # None => OnList(tbuf') /\ tbuf' # pos'
    BY <2>1 DEF At, OnList, TypeInv, TypeOK
  <2> QED
    BY <2>1, <2>2, <2>3, <2>4 DEF ListInv, OnList
<1>7. CASE rx_cleanup_next
  <2>1. PICK p \in 1..Len(rxbuf) :
          /\ pos = rxbuf[p] /\ rxbuf' = Unlinked(rxbuf[p])
          /\ pos' # None => OnList(pos)'
          /\ tbuf' # None => OnList(tbuf)' /\ tbuf' # pos'
    BY <1>7, CleanupNext
  <2>2. live' = live \ {rxbuf[p]}
    BY <1>7, <2>1 DEF rx_cleanup_next
  <2>3. \A b \in live' : OnList(b)'
    BY <2>1, <2>2, RemovalKeeps DEF ListInv
  <2> QED
    BY <2>1, <2>3 DEF ListInv
<1>8. ASSUME NEW accepted \in BOOLEAN, rx_prepare(accepted)
      PROVE  ListInv'
  <2>1. rxbuf # <<>> /\ FirstOf(Waiting) = rxbuf[1]
    BY <1>8, FirstWaits DEF rx_prepare, Waiting, QueueInv
  <2>2. (rxbuf' = rxbuf \/ rxbuf' = Requeued(rxbuf[1])) /\ UNCHANGED cleanupVars
    BY <1>8, <2>1 DEF rx_prepare
  <2>3. \A b : OnList(b) => OnList(b)'
    BY <2>1, <2>2, RotationKeeps DEF OnList
  <2> QED
    BY <1>1, <2>2, <2>3
<1>9. CASE rx_requeue
  <2>1. UNCHANGED cleanupVars /\ busy # None
    BY <1>9 DEF rx_requeue
  <2>2. ASSUME NEW b, OnList(b)
        PROVE  OnList(b)'
    <3>1. CASE rxbuf # <<>> /\ rxbuf' = Requeued(rxbuf[1])
      BY <2>2, <3>1, RotationKeeps
    <3>2. CASE rxbuf' = rxbuf
      BY <2>2, <3>2 DEF OnList
    <3>3. CASE ~ OnList(busy) /\ rxbuf' = Append(rxbuf, busy)
      <4>1. busy \in Bufs
        BY <2>1 DEF TypeInv, TypeOK
      <4>2. rxbuf' \in Seq(Bufs) /\ Len(rxbuf') = Len(rxbuf) + 1 /\ Len(rxbuf) \in Nat
            /\ \A i \in 1..Len(rxbuf) : rxbuf'[i] = rxbuf[i]
        BY <3>3, <4>1, RelinkedType DEF TypeInv
      <4>3. PICK i \in 1..Len(rxbuf) : rxbuf[i] = b
        BY <2>2 DEF OnList, TypeInv
      <4>4. i \in DOMAIN rxbuf' /\ rxbuf'[i] = b
        BY <4>2, <4>3
      <4> QED
        BY <4>4 DEF OnList
    <3> QED
      BY <1>9, <3>1, <3>2, <3>3, RequeueCases
  <2> QED
    BY <1>1, <2>1, <2>2
<1>10. CASE rx_end \/ rxep_mark \/ usb_deregister
  BY <1>2, <1>10 DEF rx_end, rxep_mark, usb_deregister
<1>11. CASE Unplug \/ disconnect_storage \/ rtw_drv_halt
  BY <1>2, <1>11 DEF Unplug, disconnect_storage, rtw_drv_halt
<1>12. ASSUME NEW ok, NEW outcome, ath9k_hif_usb_probe(ok, outcome) \/ rtw_drv_entry(ok, outcome)
       PROVE  ListInv'
  BY <1>2, <1>12 DEF ath9k_hif_usb_probe, rtw_drv_entry
<1>13. ASSUME NEW b \in BOOLEAN, rxep_pick(b) \/ recvbuf2recvframe(b) \/ rtl_plug(b)
       PROVE  ListInv'
  BY <1>2, <1>13 DEF rxep_pick, recvbuf2recvframe, rtl_plug
<1>14. ASSUME NEW r, my_read(r) \/ my_release(r) \/ \E g \in heap : my_open(r, g)
       PROVE  ListInv'
  BY <1>2, <1>14 DEF my_read, my_release, my_open
<1>15. CASE UNCHANGED vars
  BY <1>2, <1>15 DEF vars
<1> QED
  BY <1>3, <1>4, <1>5, <1>6, <1>7, <1>8, <1>9, <1>10, <1>11, <1>12, <1>13, <1>14, <1>15
     DEF Next, Firmware, Teardown, Tasklet, World, User

(* The life cycle, the types, the list and the order of the queue hold in   *)
(* every state.                                                             *)
LEMMA QueueAlways == Spec => [](LifeInv /\ TypeInv /\ QueueInv /\ ListInv)
<1>1. Init => LifeInv
  BY DriverAssumption DEF Init, LifeInv, Ath9k, Rtl8188
<1>2. ASSUME Init PROVE TypeInv
  <2> USE <1>2, DriverAssumption DEF Init
  <2>1. rxbuf \in Seq(Bufs) /\ \A i, j \in DOMAIN rxbuf : rxbuf[i] = rxbuf[j] => i = j
    OBVIOUS
  <2>2. skb \in [Bufs -> Frame \cup {None}] /\ (picked = None \/ picked \in [buf : Bufs, frame : Frame])
    OBVIOUS
  <2>3. files \in [Readers -> 0..MaxInits] /\ heap \subseteq 1..inits
    OBVIOUS
  <2>4. /\ driver \in Drivers /\ current \in 0..inits /\ inits \in 0..MaxInits
        /\ usb = "absent" /\ module \in {"out", "in", "going"} /\ fw = "idle"
        /\ teardown = "none" /\ live = {} /\ {busy, pos, tbuf} \subseteq Bufs \cup {None}
        /\ arrived \in 0..MaxFrames /\ captured \in 0..arrived
    OBVIOUS
  <2>5. {ready, urbs, scheduled, crossed} \subseteq BOOLEAN /\ bad = {} /\ failed = {}
    OBVIOUS
  <2> HIDE DEF Init
  <2> QED
    BY <2>1, <2>2, <2>3, <2>4, <2>5 DEF TypeInv, TypeOK
<1>3. Init => QueueInv
  BY NothingWaits DEF Init
<1>4. Init => ListInv
  BY DEF Init, ListInv
<1> QED
  BY <1>1, <1>2, <1>3, <1>4, NextLife, NextType, NextQueue, NextList, PTL DEF Spec

(* The state of the driver has its type: the list of receive buffers never  *)
(* holds a buffer twice, for every number of buffers, readers and frames,   *)
(* also while ath9k_rx_cleanup and the tasklet change it at the same time.  *)
THEOREM TypeTheorem == Spec => []TypeOK
<1>1. TypeInv => TypeOK
  BY DEF TypeInv
<1> QED
  BY <1>1, QueueAlways, PTL

(* The buffers that wait for the tasklet are the front of the list at all   *)
(* times, also between the softirq's choice of a buffer and its marking     *)
(* it, while the tasklet works without the lock, and while ath9k_rx_cleanup *)
(* takes buffers out: what ath9k_rx_tasklet relies on when it looks at the  *)
(* first buffer only.                                                       *)
THEOREM WaitingTheorem == Spec => []WaitingInFront
<1>1. QueueInv => WaitingInFront
  BY DEF QueueInv
<1> QED
  BY <1>1, QueueAlways, PTL

(* The device is given the beacons in the order in which they arrived,      *)
(* whatever the interleaving of softirq, tasklet and cleanup.               *)
THEOREM OrderTheorem == Spec => CapturedInOrder
<1>1. LifeInv /\ TypeInv /\ QueueInv /\ ListInv /\ [Next]_vars => [captured' >= captured]_captured
  <2> SUFFICES ASSUME LifeInv, TypeInv, QueueInv, [Next]_vars, captured' # captured
               PROVE  captured' >= captured
    OBVIOUS
  <2>1. captured \in Nat /\ captured <= arrived /\ arrived \in Nat
    BY DEF TypeInv, TypeOK
  <2>2. ASSUME NEW accepted \in BOOLEAN, rx_prepare(accepted)
        PROVE  captured' >= captured
    <3>1. FirstOf(Waiting) = rxbuf[1] /\ 1 \in Waiting
      BY <2>2, FirstWaits DEF rx_prepare, QueueInv
    <3>2. captured' = Number(1)
      BY <2>2, <3>1 DEF rx_prepare, update_beacon, Number
    <3>3. Number(1) \in Nat
      BY <3>1 DEF Number, Waiting, TypeInv, Frame
    <3> QED
      BY <2>1, <3>1, <3>2, <3>3 DEF QueueInv
  <2>3. ASSUME NEW b \in BOOLEAN, recvbuf2recvframe(b)
        PROVE  captured' >= captured
    BY <2>1, <2>3 DEF recvbuf2recvframe, update_beacon
  <2>4. (\E accepted \in BOOLEAN : rx_prepare(accepted)) \/ \E b \in BOOLEAN : recvbuf2recvframe(b)
    BY DEF Next, Firmware, Disconnect, Teardown, Tasklet, World, User, firmware_init,
       firmware_error, firmware_undo, firmware_undone, firmware_done, firmware_fail,
       firmware_release, disconnect_stop, disconnect_cleanup, ath9k_rx_cleanup, rx_cleanup_next,
       rx_cleanup_end, ath9k_hif_usb_dealloc_urbs, rx_requeue, rx_end, rxep_mark, usb_deregister,
       Unplug, disconnect_storage, ath9k_hif_usb_probe, rxep_pick, rtl_plug, rtw_drv_entry,
       rtw_drv_halt, my_read, my_release, my_open, vars, historyVars
  <2> QED
    BY <2>2, <2>3, <2>4
<1> QED
  BY <1>1, QueueAlways, PTL DEF Spec, CapturedInOrder

-----------------------------------------------------------------------------
(* As long as the tasklet put no buffer on the list during ath9k_rx_cleanup *)
(* or behind it, the loop takes the buffers from the front one by one, so   *)
(* it leaves none; the list is not empty only while an interface with a     *)
(* hif_dev is there, before the loop has ended.                             *)

QuietInv ==
  ~ crossed =>
    /\ teardown = "cleaning" => pos = At(rxbuf, 1) /\ tbuf = At(rxbuf, 2)
    /\ rxbuf # <<>> =>
         \/ fw = "initialised" /\ teardown = "none"
         \/ teardown \in {"stopped", "cleaning"}
         \/ fw = "done" /\ ready /\ teardown = "none" /\ usb \in Connected

(* The loop frees the first buffer and goes on to the one behind it.        *)
LEMMA FrontFreed ==
  ASSUME TypeInv, ListInv, rx_cleanup_next, pos = At(rxbuf, 1), tbuf = At(rxbuf, 2)
  PROVE  rxbuf # <<>> /\ pos' = At(rxbuf', 1) /\ tbuf' = At(rxbuf', 2)
<1> DEFINE n == Len(rxbuf)
<1>1. PICK p \in 1..n :
        /\ pos = rxbuf[p] /\ rxbuf' = Unlinked(rxbuf[p]) /\ pos' = tbuf
        /\ \A i \in DOMAIN rxbuf' : pos' = rxbuf'[i] => tbuf' = At(rxbuf', i + 1)
        /\ pos' = None => tbuf' = None
  BY CleanupNext
<1>2. n \in Nat /\ n > 0 /\ DOMAIN rxbuf = 1..n
  BY <1>1 DEF TypeInv
<1>3. p = 1
  <2>1. rxbuf[1] = rxbuf[p]
    BY <1>1, <1>2 DEF At
  <2> QED
    BY <1>1, <1>2, <2>1 DEF TypeInv, TypeOK
<1>4. DOMAIN rxbuf' = 1..(n - 1) /\ \A i \in 1..(n - 1) : rxbuf'[i] = rxbuf[i + 1]
  <2>1. /\ rxbuf' \in Seq(Bufs) /\ Len(rxbuf') = n - 1
        /\ \A i \in 1..(n - 1) : rxbuf'[i] = IF i < 1 THEN rxbuf[i] ELSE rxbuf[i + 1]
    BY <1>1, <1>2, <1>3, RemovedType
  <2> QED
    BY <2>1
<1>5. CASE n = 1
  BY <1>1, <1>2, <1>4, <1>5 DEF At
<1>6. CASE n > 1
  <2>1. 1 \in DOMAIN rxbuf' /\ rxbuf'[1] = rxbuf[2] /\ 2 \in DOMAIN rxbuf
    BY <1>2, <1>4, <1>6
  <2>2. pos' = rxbuf'[1]
    BY <1>1, <2>1 DEF At
  <2>3. tbuf' = At(rxbuf', 2)
    BY <1>1, <2>1, <2>2
  <2> QED
    BY <1>2, <2>1, <2>2, <2>3 DEF At
<1> QED
  BY <1>2, <1>5, <1>6

(* The steps of the worker, of disconnect and of the loop agree on when the *)
(* list may hold buffers.                                                   *)
LEMMA NextQuiet ==
  LifeInv /\ TypeInv /\ QueueInv /\ ListInv /\ QuietInv /\ [Next]_vars => QuietInv'
<1> SUFFICES ASSUME LifeInv, TypeInv, QueueInv, ListInv, QuietInv, [Next]_vars, ~ crossed'
             PROVE  QuietInv'
  BY DEF QuietInv
<1> USE DEF QuietInv, Connected, usbVars, rxVars, cleanupVars, queueVars, historyVars
<1>1. ASSUME UNCHANGED <<rxbuf, pos, tbuf, teardown, fw, ready, crossed>>,
             usb \in Connected => usb' \in Connected
      PROVE  QuietInv'
  BY <1>1
<1>2. ASSUME rxbuf' = <<>>, teardown' # "cleaning"
      PROVE  QuietInv'
  BY <1>2
<1>3. CASE firmware_init
  BY <1>3 DEF firmware_init, LifeInv, fw_done
<1>4. CASE firmware_error \/ firmware_done \/ firmware_fail \/ firmware_undo \/ firmware_undone
  BY <1>4 DEF firmware_error, firmware_done, firmware_fail, firmware_undo, firmware_undone,
     LifeInv, fw_done
<1>5. CASE firmware_release
  BY <1>5 DEF firmware_release, Released, LifeInv, fw_done
<1>6. CASE disconnect_stop \/ disconnect_cleanup
  BY <1>6 DEF disconnect_stop, disconnect_cleanup, fw_done
<1>7. CASE ath9k_rx_cleanup \/ rx_cleanup_end \/ ath9k_hif_usb_dealloc_urbs
  <2>1. CASE ath9k_rx_cleanup \/ ath9k_hif_usb_dealloc_urbs
    BY <2>1 DEF ath9k_rx_cleanup, ath9k_hif_usb_dealloc_urbs
  <2>2. CASE rx_cleanup_end
    <3>1. At(rxbuf, 1) = None /\ UNCHANGED <<rxbuf, crossed>> /\ teardown' = "drained"
      BY <2>2 DEF rx_cleanup_end
    <3>2. rxbuf = <<>>
      <4>1. rxbuf \in Seq(Bufs) /\ \A i \in DOMAIN rxbuf : rxbuf[i] # None
        BY DriverAssumption DEF TypeInv
      <4>2. 1 \notin DOMAIN rxbuf
        BY <3>1, <4>1 DEF At
      <4> QED
        BY <4>1, <4>2
    <3> QED
      BY <3>1, <3>2
  <2> QED
    BY <1>7, <2>1, <2>2
<1>8. CASE rx_cleanup_next
  <2>1. pos = At(rxbuf, 1) /\ tbuf = At(rxbuf, 2) /\ teardown = "cleaning"
        /\ UNCHANGED <<crossed, teardown>>
    BY <1>8 DEF rx_cleanup_next
  <2>2. pos' = At(rxbuf', 1) /\ tbuf' = At(rxbuf', 2)
    BY <1>8, <2>1, FrontFreed
  <2> QED
    BY <2>1, <2>2
<1>9. ASSUME NEW accepted \in BOOLEAN, rx_prepare(accepted)
      PROVE  QuietInv'
  <2>1. rxbuf # <<>> /\ UNCHANGED <<pos, tbuf, teardown, fw, ready, usb>>
    BY <1>9 DEF rx_prepare, Waiting
  <2>2. ~ crossed /\ (rxbuf' = rxbuf \/ teardown # "cleaning")
    <3>1. CASE UNCHANGED <<rxbuf, skb, crossed>>
      BY <3>1
    <3>2. ASSUME NEW b, requeue(b)
          PROVE  ~ crossed /\ teardown # "cleaning"
      BY <3>2, Zenon DEF requeue
    <3> QED
      BY <1>9, <3>1, <3>2 DEF rx_prepare
  <2>3. CASE rxbuf' = rxbuf
    BY <2>1, <2>2, <2>3
  <2>4. CASE teardown # "cleaning"
    BY <2>1, <2>2, <2>4
  <2> QED
    BY <2>2, <2>3, <2>4
<1>10. CASE rx_requeue
  <2>1. busy \in live /\ ~ crossed /\ teardown # "cleaning"
    BY <1>10 DEF rx_requeue, requeue
  <2>2. rxbuf # <<>>
    BY <2>1 DEF ListInv, OnList
  <2>3. UNCHANGED <<pos, tbuf, teardown, fw, ready, usb>>
    BY <1>10 DEF rx_requeue
  <2> QED
    BY <2>1, <2>2, <2>3
<1>11. CASE rx_end \/ rxep_mark
  BY <1>1, <1>11 DEF rx_end, rxep_mark
<1>12. CASE usb_deregister \/ rtw_drv_halt
  <2>1. Rtl8188
    BY <1>12 DEF usb_deregister, rtw_drv_halt, LifeInv
  <2>2. rxbuf = <<>> /\ teardown = "none"
    BY <2>1 DEF LifeInv
  <2> QED
    BY <1>12, <2>2 DEF usb_deregister, rtw_drv_halt
<1>13. CASE Unplug \/ disconnect_storage
  BY <1>13 DEF Unplug, disconnect_storage
<1>14. ASSUME NEW ok, NEW outcome, ath9k_hif_usb_probe(ok, outcome)
       PROVE  QuietInv'
  BY <1>14 DEF ath9k_hif_usb_probe, LifeInv, fw_done
<1>15. ASSUME NEW b \in BOOLEAN, rxep_pick(b)
       PROVE  QuietInv'
  BY <1>1, <1>15 DEF rxep_pick
<1>16. ASSUME NEW b, NEW c, recvbuf2recvframe(b) \/ rtl_plug(b) \/ rtw_drv_entry(b, c)
       PROVE  QuietInv'
  <2>1. rxbuf = <<>> /\ teardown = "none"
    BY <1>16 DEF recvbuf2recvframe, rtl_plug, rtw_drv_entry, LifeInv
  <2>2. UNCHANGED <<rxbuf, teardown>>
    BY <1>16 DEF recvbuf2recvframe, rtl_plug, rtw_drv_entry
  <2> QED
    BY <2>1, <2>2
<1>17. ASSUME NEW r, my_read(r) \/ my_release(r) \/ \E g \in heap : my_open(r, g)
       PROVE  QuietInv'
  BY <1>1, <1>17 DEF my_read, my_release, my_open
<1>18. CASE UNCHANGED vars
  BY <1>1, <1>18 DEF vars
<1> QED
  BY <1>3, <1>4, <1>5, <1>6, <1>7, <1>8, <1>9, <1>10, <1>11, <1>12, <1>13, <1>14, <1>15, <1>16, <1>17,
     <1>18 DEF Next, Firmware, Teardown, Disconnect, Tasklet, World, User

(* A frame is only taken from the list while the pointers are good.         *)
LEMMA NextWrites ==
  LifeInv /\ TypeInv /\ QuietInv /\ HeapInv /\ UncrossedWritesLive /\ [Next]_vars
    => UncrossedWritesLive'
<1> SUFFICES ASSUME LifeInv, TypeInv, QuietInv, HeapInv, UncrossedWritesLive, [Next]_vars,
                    Ath9k', "init" \notin failed', ~ crossed'
             PROVE  "write" \notin bad'
  BY DEF UncrossedWritesLive
<1> USE DEF deviceVars, usbVars, rxVars, cleanupVars, queueVars, historyVars, Failing
<1>1. driver' = driver /\ failed \subseteq failed'
  BY DEF Next, Firmware, Disconnect, Teardown, Tasklet, World, User, firmware_init,
     firmware_error, firmware_undo, firmware_undone, firmware_done, firmware_fail,
     firmware_release, disconnect_stop, disconnect_cleanup, ath9k_rx_cleanup, rx_cleanup_next,
     rx_cleanup_end, ath9k_hif_usb_dealloc_urbs, rx_prepare, rx_requeue, rx_end,
     rxep_mark, usb_deregister, Unplug, disconnect_storage, ath9k_hif_usb_probe, rxep_pick,
     recvbuf2recvframe, rtl_plug, rtw_drv_entry, rtw_drv_halt, my_read, my_release, my_open, vars
<1>0. ~ crossed
  <2>1. (\E b : requeue(b)) \/ crossed' = crossed
    BY DEF Next, Firmware, Disconnect, Teardown, Tasklet, World, User, firmware_init,
       firmware_error, firmware_undo, firmware_undone, firmware_done, firmware_fail,
       firmware_release, disconnect_stop, disconnect_cleanup, ath9k_rx_cleanup, rx_cleanup_next,
       rx_cleanup_end, ath9k_hif_usb_dealloc_urbs, rx_prepare, rx_requeue, rx_end, rxep_mark,
       usb_deregister, Unplug, disconnect_storage, ath9k_hif_usb_probe, rxep_pick,
       recvbuf2recvframe, rtl_plug, rtw_drv_entry, rtw_drv_halt, my_read, my_release, my_open, vars
  <2>2. ASSUME NEW b, requeue(b)
        PROVE  ~ crossed
    BY <2>2, Zenon DEF requeue
  <2>3. CASE crossed' = crossed
    BY <2>3
  <2> QED
    BY <2>1, <2>2, <2>3
<1>2. Ath9k /\ "init" \notin failed /\ ~ crossed /\ "write" \notin bad
  BY <1>0, <1>1 DEF Ath9k, UncrossedWritesLive
<1>3. ASSUME NEW accepted \in BOOLEAN, rx_prepare(accepted)
      PROVE  "write" \notin bad'
  <2>1. rxbuf # <<>>
    BY <1>3 DEF rx_prepare, Waiting
  <2>2. usb \in Connected
    BY <1>2, <2>1 DEF QuietInv, LifeInv, Connected
  <2>3. current \in heap
    BY <1>2, <2>2 DEF HeapInv
  <2> QED
    BY <1>2, <1>3, <2>3 DEF rx_prepare, update_beacon
<1>4. ASSUME NEW b \in BOOLEAN, recvbuf2recvframe(b)
      PROVE  "write" \notin bad'
  BY <1>2, <1>4 DEF recvbuf2recvframe, Ath9k, Rtl8188
<1>5. \/ \E accepted \in BOOLEAN : rx_prepare(accepted)
      \/ \E b \in BOOLEAN : recvbuf2recvframe(b)
      \/ bad' \subseteq bad \cup {"file", "free", "rxbuf"}
  BY DEF Next, Firmware, Disconnect, Teardown, Tasklet, World, User, firmware_init,
     firmware_error, firmware_undo, firmware_undone, firmware_done, firmware_fail,
     firmware_release, disconnect_stop, disconnect_cleanup, my_cleanup, ath9k_rx_cleanup,
     rx_cleanup_next, rx_cleanup_end, ath9k_hif_usb_dealloc_urbs, rx_requeue, rx_end, rxep_mark,
     usb_deregister, Unplug, disconnect_storage, ath9k_hif_usb_probe, rxep_pick, rtl_plug,
     rtw_drv_entry, rtw_drv_halt, my_read, my_release, my_open, vars
<1> QED
  BY <1>2, <1>3, <1>4, <1>5

(* With ath9k_htc no beacon is captured into memory that disconnect or the  *)
(* failing worker freed, as long as the tasklet moved no buffer during      *)
(* ath9k_rx_cleanup or behind it: however many frames wait in however many  *)
(* buffers, and whichever buffer a late callback still marks.               *)
THEOREM UncrossedWritesTheorem == Spec => []UncrossedWritesLive
<1>1. Init => LifeInv /\ HeapInv
  BY DriverAssumption DEF Init, LifeInv, HeapInv, FreedOnce, Connected, Ath9k, Rtl8188
<1>2. Init => QuietInv /\ UncrossedWritesLive
  BY DEF Init, QuietInv, UncrossedWritesLive
<1> QED
  BY <1>1, <1>2, QueueAlways, NextLife, NextHeap, NextQuiet, NextWrites, PTL DEF Spec

=============================================================================
