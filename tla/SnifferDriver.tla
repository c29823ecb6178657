--------------------------- MODULE SnifferDriver ---------------------------
(***************************************************************************)
(* The drivers around the character device: when my_init and my_cleanup    *)
(* are called, what may still write into the device's buffer or use its    *)
(* container then, and the queue that beacons pass in ath9k_htc before     *)
(* update_beacon.                                                          *)
(*                                                                         *)
(* One adapter: the device's pointers are static, and a second adapter of  *)
(* ath9k_htc would overwrite those of the first.  In ath9k_htc the calls   *)
(* stand in probe and disconnect of the USB interface, run by the USB      *)
(* core, while a worker loads the firmware; in rtl8188eus they stand in    *)
(* the entry and exit of the module.  The device's two allocations have    *)
(* one life: they are a generation, numbered by the call of my_init that   *)
(* made it.                                                                *)
(*                                                                         *)
(* The list of receive buffers is emptied without its lock, node by node,  *)
(* while the tasklet may move nodes.  A move and a removal are each one    *)
(* step: what happens when their stores mix, or when memory that was freed *)
(* has been given to somebody else, is left out.                           *)
(***************************************************************************)
EXTENDS Naturals, Sequences, FiniteSets, SequencesExt

CONSTANTS
  Drivers,      \* "ath9k_htc", "rtl8188eus"
  Bufs,         \* the receive buffers (ATH9K_HTC_RXBUF of them)
  Readers,      \* files a process may open on the device
  None,
  MaxInits,     \* bound: calls of my_init
  MaxFrames     \* bound: frames received

ASSUME DriverAssumption ==
  /\ Drivers \subseteq {"ath9k_htc", "rtl8188eus"}
  /\ None \notin Bufs /\ IsFiniteSet(Bufs) /\ Bufs # {}
  /\ MaxInits \in Nat /\ MaxFrames \in Nat

VARIABLES
  driver,
  \* the character device
  heap,        \* the generations that are allocated and registered
  current,     \* the one buffer and my_cdev_containers point at, 0: NULL
  files,       \* the generation behind each open file, 0: closed
  inits,       \* calls of my_init
  \* the USB core and the module loader
  usb,         \* probe and disconnect of the adapter
  module,      \* "out", "in" or "going"
  \* the firmware worker of ath9k_htc
  fw,          \* "idle", "asked", "initialised", "undoing", "failing", "releasing", "done"
  ready,       \* HIF_USB_READY
  \* the receive path
  urbs,        \* receive URBs are submitted
  teardown,    \* how far it is taken down, by disconnect or by the failing worker
  rxbuf,       \* priv->rx.rxbuf: the buffers in the order of the list
  live,        \* the buffers that are allocated
  pos, tbuf,   \* ath9k_rx_cleanup: the buffer it is at and the one it saved
  skb,         \* the frame of a buffer that is in_process, or None
  picked,      \* ath9k_htc_rxep between its two critical sections
  scheduled,   \* the receive tasklet is scheduled or running
  busy,        \* the buffer that the tasklet delivers outside the lock
  \* history
  arrived,     \* frames received
  captured,    \* number of the last frame passed to update_beacon
  failed,      \* what failed: "init" (my_init), "entry" (the driver, later)
  crossed,     \* the tasklet put a buffer on the list during ath9k_rx_cleanup or behind it
  bad          \* accesses to freed memory: "write", "file", "free", "rxbuf"

deviceVars == <<heap, current, inits>>
usbVars == <<usb, module, fw, ready>>
cleanupVars == <<teardown, live, pos, tbuf>>
queueVars == <<skb, picked, scheduled, busy, arrived>>
rxVars == <<urbs, rxbuf, cleanupVars, queueVars>>
historyVars == <<captured, failed, crossed, bad>>
vars == <<driver, deviceVars, files, usbVars, rxVars, historyVars>>

Ath9k == driver = "ath9k_htc"
Rtl8188 == driver = "rtl8188eus"

Init ==
  /\ driver \in Drivers
  /\ heap = {} /\ current = 0 /\ files = [r \in Readers |-> 0] /\ inits = 0
  /\ usb = "absent" /\ fw = "idle" /\ ready = FALSE
  /\ module = IF driver = "ath9k_htc" THEN "in" ELSE "out"
  /\ urbs = FALSE /\ teardown = "none"
  /\ rxbuf = <<>> /\ live = {} /\ pos = None /\ tbuf = None /\ skb = [b \in Bufs |-> None]
  /\ picked = None /\ scheduled = FALSE /\ busy = None
  /\ arrived = 0 /\ captured = 0 /\ failed = {} /\ crossed = FALSE /\ bad = {}

-----------------------------------------------------------------------------
(* my_module.h                                                             *)

Failing(what, condition) == IF condition THEN {what} ELSE {}

\* my_init, whose result nobody looks at; old pointers are overwritten.
my_init(ok) ==
  /\ inits < MaxInits
  /\ inits' = inits + 1
  /\ heap' = IF ok THEN heap \cup {inits + 1} ELSE heap
  /\ current' = IF ok THEN inits + 1 ELSE current

\* my_cleanup: the pointers keep their value.
my_cleanup ==
  /\ bad' = bad \cup Failing("free", current \notin heap)
  /\ heap' = heap \ {current}
  /\ UNCHANGED <<current, inits>>

\* update_beacon with frame n
update_beacon(n) ==
  /\ captured' = n
  /\ bad' = bad \cup Failing("write", current \notin heap)

\* my_open copies the buffer; opening pins the module.  A generation that a
\* failed module entry left registered names a module that is gone.
my_open(r, g) ==
  /\ files[r] = 0 /\ g \in heap /\ module # "going"
  /\ files' = [files EXCEPT ![r] = g]
  /\ bad' = bad \cup Failing("file", current \notin heap \/ module = "out")
  /\ UNCHANGED <<driver, deviceVars, usbVars, rxVars, captured, failed, crossed>>

\* my_read
my_read(r) ==
  /\ files[r] # 0
  /\ bad' = bad \cup Failing("file", files[r] \notin heap)
  /\ UNCHANGED <<driver, deviceVars, files, usbVars, rxVars, captured, failed, crossed>>

my_release(r) ==
  /\ files[r] # 0
  /\ files' = [files EXCEPT ![r] = 0]
  /\ bad' = bad \cup Failing("file", files[r] \notin heap)
  /\ UNCHANGED <<driver, deviceVars, usbVars, rxVars, captured, failed, crossed>>

-----------------------------------------------------------------------------
(* ath9k_htc: probe, the firmware worker, disconnect                       *)

\* probe: my_init comes first.  It then gives up, ejects a storage device
\* (usb_set_intfdata(NULL)) or asks for the firmware.  A worker that is still
\* releasing concerns a device that is gone.
ath9k_hif_usb_probe(ok, outcome) ==
  /\ Ath9k /\ usb = "absent" /\ fw # "releasing"
  /\ my_init(ok)
  /\ usb' = outcome
  /\ fw' = IF outcome = "bound" THEN "asked" ELSE "idle"
  /\ failed' = failed \cup Failing("init", ~ ok) \cup Failing("entry", outcome = "absent")
  /\ UNCHANGED <<driver, files, module, ready, rxVars, captured, crossed, bad>>

\* ath9k_hif_usb_dev_init and ath9k_htc_hw_init: URBs and receive buffers.  The
\* list is a new adapter's own: what the last one still ran has ended by then.
firmware_init ==
  /\ fw = "asked"
  /\ picked = None /\ ~ scheduled /\ busy = None
  /\ fw' = "initialised"
  /\ urbs' = TRUE /\ live' = Bufs
  /\ rxbuf' \in Bijection(1..Cardinality(Bufs), Bufs)
  /\ skb' = [b \in Bufs |-> None]
  /\ UNCHANGED <<driver, deviceVars, files, usb, module, ready, teardown, pos, tbuf, picked,
                 scheduled, busy, arrived, historyVars>>

\* No firmware, or a failure before there are receive buffers.
firmware_error ==
  /\ fw = "asked"
  /\ fw' = "failing"
  /\ UNCHANGED <<driver, deviceVars, files, usb, module, ready, rxVars, historyVars>>

\* ath9k_init_device fails behind ath9k_rx_init: frames already arrive, and the
\* worker takes the receive path down.
firmware_undo ==
  /\ fw = "initialised"
  /\ fw' = "undoing"
  /\ teardown' = "stopped"
  /\ UNCHANGED <<driver, deviceVars, files, usb, module, ready, urbs, rxbuf, live, pos, tbuf,
                 queueVars, historyVars>>

firmware_undone ==
  /\ fw = "undoing" /\ teardown = "freed"
  /\ fw' = "failing"
  /\ teardown' = "none"
  /\ UNCHANGED <<driver, deviceVars, files, usb, module, ready, urbs, rxbuf, live, pos, tbuf,
                 queueVars, historyVars>>

\* HIF_USB_READY is set before fw_done is completed.
firmware_done ==
  /\ fw = "initialised"
  /\ ready' = TRUE
  /\ fw' = "done"
  /\ UNCHANGED <<driver, deviceVars, files, usb, module, rxVars, historyVars>>

\* ath9k_hif_usb_firmware_fail completes fw_done ...
firmware_fail ==
  /\ fw = "failing"
  /\ fw' = "releasing"
  /\ UNCHANGED <<driver, deviceVars, files, usb, module, ready, rxVars, historyVars>>

\* Variant: disconnect goes on without a hif_dev.
Released_twice == "disconnect"
\* A device that was disconnected meanwhile is left alone.
Released == IF usb = "bound" THEN "disconnect" ELSE usb

\* ... and releases the device, when the USB core holds no lock on it.
firmware_release ==
  /\ fw = "releasing" /\ usb \in {"absent", "bound"}
  /\ fw' = "done"
  /\ usb' = Released
  /\ UNCHANGED <<driver, deviceVars, files, module, ready, rxVars, historyVars>>

\* The adapter is pulled out or the module removed: disconnect begins.
Unplug ==
  /\ Ath9k /\ usb = "bound"
  /\ usb' = "disconnect"
  /\ UNCHANGED <<driver, deviceVars, files, module, fw, ready, rxVars, historyVars>>

\* disconnect of the storage device: no hif_dev, so no my_cleanup either
disconnect_storage ==
  /\ usb = "storage"
  /\ usb' = "absent"
  /\ UNCHANGED <<driver, deviceVars, files, module, fw, ready, rxVars, historyVars>>

\* Variant: a failed load does not complete fw_done.
fw_done_loaded == fw = "done"
fw_done == fw \in {"releasing", "done"}

\* wait_for_completion, then ieee80211_unregister_hw with its tasklet_kill
disconnect_stop ==
  /\ usb = "disconnect" /\ teardown = "none" /\ fw_done
  /\ teardown' = IF ready THEN "stopped" ELSE "freed"
  /\ ready => ~ scheduled
  /\ UNCHANGED <<driver, deviceVars, files, usbVars, urbs, rxbuf, live, pos, tbuf, queueVars,
                 historyVars>>

disconnect_cleanup ==
  /\ usb = "disconnect" /\ teardown = "freed" /\ fw_done
  /\ my_cleanup
  /\ usb' = "absent" /\ ready' = FALSE /\ teardown' = "none"
  /\ UNCHANGED <<driver, files, module, fw, urbs, rxbuf, live, pos, tbuf, queueVars, captured,
                 failed, crossed>>

-----------------------------------------------------------------------------
(* The receive path of ath9k_htc                                           *)

At(list, i) == IF i \in DOMAIN list THEN list[i] ELSE None
Position(list, b) == CHOOSE i \in DOMAIN list : list[i] = b
OnList(b) == \E i \in DOMAIN rxbuf : rxbuf[i] = b
\* The node behind b; None is the head of the list.
After(list, b) == IF b = None THEN None ELSE At(list, Position(list, b) + 1)

Free == {i \in DOMAIN rxbuf : skb[rxbuf[i]] = None}
\* Variant: the tasklet's search goes on behind the first such buffer.
Waiting_last == {i \in DOMAIN rxbuf : /\ skb[rxbuf[i]] # None
                                      /\ \A j \in DOMAIN rxbuf : j > i => skb[rxbuf[j]] = None}
Waiting == {i \in DOMAIN rxbuf : skb[rxbuf[i]] # None}
FirstOf(indices) == rxbuf[CHOOSE i \in indices : \A j \in indices : i <= j]

\* The USB core runs one callback at a time.
\* ath9k_htc_rxep looks for a free buffer; without one the frame is dropped.
\* A frame is a beacon that passes the checks before the hook, or it is not.
rxep_pick(beacon) ==
  /\ urbs /\ Ath9k /\ picked = None /\ arrived < MaxFrames
  /\ arrived' = arrived + 1
  /\ picked' = IF Free = {} THEN None
               ELSE [buf |-> FirstOf(Free), frame |-> [n |-> arrived + 1, beacon |-> beacon]]
  /\ UNCHANGED <<driver, deviceVars, files, usbVars, urbs, rxbuf, cleanupVars, skb, scheduled, busy,
                 historyVars>>

\* ... and marks it in a critical section of its own.  It may have been freed.
rxep_mark ==
  /\ picked # None
  /\ skb' = [skb EXCEPT ![picked.buf] = picked.frame]
  /\ bad' = bad \cup Failing("rxbuf", picked.buf \notin live)
  /\ picked' = None
  /\ scheduled' = TRUE
  /\ UNCHANGED <<driver, deviceVars, files, usbVars, urbs, rxbuf, cleanupVars, busy, arrived,
                 captured, failed, crossed>>

\* Variants: the buffer goes to the front of the list; it is not unlinked.
Requeued_front(b) == <<b>> \o RemoveAt(rxbuf, Position(rxbuf, b))
Requeued_again(b) == Append(rxbuf, b)
\* list_move_tail
Requeued(b) == Append(RemoveAt(rxbuf, Position(rxbuf, b)), b)

\* The tasklet puts a buffer back.
requeue(b) ==
  /\ skb' = [skb EXCEPT ![b] = None]
  /\ crossed' = (crossed \/ teardown = "cleaning" \/ b \notin live)

\* One turn of ath9k_rx_tasklet: ath9k_rx_prepare captures a beacon and then
\* rejects the frame, or accepts it for ieee80211_rx.  It is one step: the lock
\* keeps interrupts off.
rx_prepare(accepted) ==
  LET b == FirstOf(Waiting) IN
  /\ scheduled /\ busy = None /\ Waiting # {}
  /\ \/ skb[b].beacon /\ update_beacon(skb[b].n)
     \/ ~ skb[b].beacon /\ UNCHANGED <<captured, bad>>
  /\ \/ accepted /\ busy' = b /\ UNCHANGED <<rxbuf, skb, crossed>>
     \/ ~ accepted /\ rxbuf' = Requeued(b) /\ requeue(b) /\ UNCHANGED busy
  /\ UNCHANGED <<driver, deviceVars, files, usbVars, urbs, cleanupVars, picked, scheduled, arrived,
                 failed>>

\* A buffer that was freed while the lock was released is off the list;
\* list_move_tail then writes into freed memory, and may link it again.
rx_requeue ==
  /\ busy # None
  /\ \/ OnList(busy) /\ rxbuf' = Requeued(busy)
     \/ ~ OnList(busy) /\ rxbuf' \in {rxbuf, Append(rxbuf, busy)}
  /\ requeue(busy)
  /\ bad' = bad \cup Failing("rxbuf", busy \notin live)
  /\ busy' = None
  /\ UNCHANGED <<driver, deviceVars, files, usbVars, urbs, cleanupVars, picked, scheduled, arrived,
                 captured, failed>>

\* Variant: one frame per run of the tasklet.
TaskletEnds_early == busy = None
\* The tasklet runs until no buffer waits.
TaskletEnds == busy = None /\ Waiting = {}

rx_end ==
  /\ scheduled /\ TaskletEnds
  /\ scheduled' = FALSE
  /\ UNCHANGED <<driver, deviceVars, files, usbVars, urbs, rxbuf, cleanupVars, skb, picked, busy,
                 arrived, historyVars>>

-----------------------------------------------------------------------------
(* Taking the receive path of ath9k_htc down                               *)

\* ath9k_rx_cleanup walks the list without its lock: list_for_each_entry_safe
\* reads the node behind the current one before the body frees that.
ath9k_rx_cleanup ==
  /\ teardown = "stopped"
  /\ teardown' = "cleaning"
  /\ pos' = At(rxbuf, 1) /\ tbuf' = At(rxbuf, 2)
  /\ UNCHANGED <<driver, deviceVars, files, usbVars, urbs, rxbuf, live, queueVars, historyVars>>

\* Variant: the node stays on the list.
Unlinked_not(b) == rxbuf
\* list_del
Unlinked(b) == RemoveAt(rxbuf, Position(rxbuf, b))

\* The current node is freed, and the loop goes on to the saved one; what is
\* behind that has been read by the time the next body frees it.
rx_cleanup_next ==
  /\ teardown = "cleaning" /\ pos # None
  /\ rxbuf' = Unlinked(pos)
  /\ live' = live \ {pos}
  /\ bad' = bad \cup Failing("rxbuf", pos \notin live)
  /\ pos' = tbuf /\ tbuf' = After(rxbuf', tbuf)
  /\ UNCHANGED <<driver, deviceVars, files, usbVars, urbs, teardown, queueVars, captured, failed,
                 crossed>>

\* The loop ends when the saved node is the head.
rx_cleanup_end ==
  /\ teardown = "cleaning" /\ pos = None
  /\ teardown' = "drained"
  /\ UNCHANGED <<driver, deviceVars, files, usbVars, urbs, rxbuf, live, pos, tbuf, queueVars,
                 historyVars>>

\* usb_kill_anchored_urbs waits for a running callback.  The tasklet is left
\* alone: it may run behind ieee80211_free_hw, which frees the list's head and
\* the tasklet itself (that memory is taken to keep its content).
ath9k_hif_usb_dealloc_urbs ==
  /\ teardown = "drained" /\ picked = None
  /\ teardown' = "freed"
  /\ urbs' = FALSE
  /\ UNCHANGED <<driver, deviceVars, files, usbVars, rxbuf, live, pos, tbuf, queueVars, historyVars>>

-----------------------------------------------------------------------------
(* rtl8188eus: the module's entry and exit, the adapter                    *)

\* Nothing undoes my_init when the rest of the entry fails.
rtw_drv_entry(ok, registered) ==
  /\ Rtl8188 /\ module = "out"
  /\ my_init(ok)
  /\ module' = IF registered THEN "in" ELSE "out"
  /\ failed' = failed \cup Failing("init", ~ ok) \cup Failing("entry", ~ registered)
  /\ UNCHANGED <<driver, files, usb, fw, ready, rxVars, captured, crossed, bad>>

\* Variant: open files do not keep the module.
Unpinned_always == TRUE
\* The module can only be removed while no file is open on its device.
Unpinned == \A r \in Readers : files[r] = 0

\* rtw_drv_halt calls my_cleanup first ...
rtw_drv_halt ==
  /\ Rtl8188 /\ module = "in" /\ Unpinned
  /\ my_cleanup
  /\ module' = "going"
  /\ UNCHANGED <<driver, files, usb, fw, ready, rxVars, captured, failed, crossed>>

\* ... and usb_deregister, which stops the receive path, afterwards.
usb_deregister ==
  /\ module = "going"
  /\ module' = "out" /\ usb' = "absent" /\ urbs' = FALSE
  /\ UNCHANGED <<driver, deviceVars, files, fw, ready, rxbuf, cleanupVars, queueVars, historyVars>>

\* The adapter comes and goes; the device stays.
rtl_plug(there) ==
  /\ Rtl8188 /\ module = "in"
  /\ usb = IF there THEN "absent" ELSE "bound"
  /\ usb' = IF there THEN "bound" ELSE "absent"
  /\ urbs' = there
  /\ UNCHANGED <<driver, deviceVars, files, module, fw, ready, rxbuf, cleanupVars, queueVars,
                 historyVars>>

\* recvbuf2recvframe: the checks before the hook drop a frame, or it is captured.
recvbuf2recvframe(beacon) ==
  /\ Rtl8188 /\ urbs /\ arrived < MaxFrames
  /\ arrived' = arrived + 1
  /\ \/ beacon /\ update_beacon(arrived + 1)
     \/ ~ beacon /\ UNCHANGED <<captured, bad>>
  /\ UNCHANGED <<driver, deviceVars, files, usbVars, urbs, rxbuf, cleanupVars, skb, picked, scheduled,
                 busy, failed, crossed>>

-----------------------------------------------------------------------------
Firmware ==
  \/ firmware_init \/ firmware_error \/ firmware_undo \/ firmware_undone
  \/ firmware_done \/ firmware_fail \/ firmware_release
Teardown == ath9k_rx_cleanup \/ rx_cleanup_next \/ rx_cleanup_end \/ ath9k_hif_usb_dealloc_urbs
Disconnect == disconnect_stop \/ disconnect_cleanup
Tasklet == (\E accepted \in BOOLEAN : rx_prepare(accepted)) \/ rx_requeue \/ rx_end
World ==
  \/ Unplug \/ disconnect_storage
  \/ \E ok \in BOOLEAN, outcome \in {"absent", "storage", "bound"} :
       ath9k_hif_usb_probe(ok, outcome)
  \/ \E b \in BOOLEAN : rxep_pick(b) \/ recvbuf2recvframe(b) \/ rtl_plug(b)
  \/ \E ok, registered \in BOOLEAN : rtw_drv_entry(ok, registered)
  \/ rtw_drv_halt
User ==
  \E r \in Readers : my_read(r) \/ my_release(r) \/ \E g \in heap : my_open(r, g)

Next == Firmware \/ Teardown \/ Disconnect \/ Tasklet \/ rxep_mark \/ usb_deregister \/ World \/ User
Spec == Init /\ [][Next]_vars

\* The kernel runs its worker, the disconnect, the callback and the tasklet to
\* their ends.  Frames, users and adapters come as they like.
FairSpec ==
  /\ Spec
  /\ WF_vars(Firmware) /\ WF_vars(Teardown) /\ WF_vars(Disconnect) /\ WF_vars(Tasklet)
  /\ WF_vars(rxep_mark) /\ WF_vars(usb_deregister)

-----------------------------------------------------------------------------
(* Properties                                                              *)

\* The type of the state; the receive buffers are a list without repetition.
TypeOK ==
  /\ driver \in Drivers
  /\ heap \subseteq 1..inits /\ current \in 0..inits /\ inits \in 0..MaxInits
  /\ files \in [Readers -> 0..MaxInits]
  /\ usb \in {"absent", "storage", "bound", "disconnect"}
  /\ teardown \in {"none", "stopped", "cleaning", "drained", "freed"}
  /\ module \in {"out", "in", "going"}
  /\ fw \in {"idle", "asked", "initialised", "undoing", "failing", "releasing", "done"}
  /\ {ready, urbs, scheduled, crossed} \subseteq BOOLEAN
  /\ \A i, j \in DOMAIN rxbuf : rxbuf[i] = rxbuf[j] => i = j
  /\ live \subseteq Bufs /\ {busy, pos, tbuf} \subseteq Bufs \cup {None}
  /\ arrived \in 0..MaxFrames /\ captured \in 0..arrived
  /\ bad \subseteq {"write", "file", "free", "rxbuf"} /\ failed \subseteq {"init", "entry"}

\* With ath9k_htc, if my_init always succeeded and no receive buffer was used
\* behind its kfree, update_beacon never writes into memory that disconnect has
\* freed: neither a frame that was waiting in a buffer nor one that a late
\* callback brings gets past ath9k_rx_cleanup.
WritesLive ==
  Ath9k /\ "init" \notin failed /\ "rxbuf" \notin bad => "write" \notin bad

\* The tasklet is the only way past ath9k_rx_cleanup: as long as it put no
\* buffer on the list while the loop ran or behind it, the loop empties the list
\* whatever the callbacks do, also in the worker that fails, and update_beacon
\* never writes into freed memory.
UncrossedWritesLive ==
  Ath9k /\ "init" \notin failed /\ ~ crossed => "write" \notin bad

\* With rtl8188eus, if the module's entry always succeeded, no open file
\* outlives the device: my_open, my_read and my_release find their container.
FilesLive == Rtl8188 /\ failed = {} => "file" \notin bad

\* my_cleanup frees what my_init allocated, once, if my_init always succeeded:
\* also when probes fail after it, when a storage device comes first and when
\* the firmware worker and the USB core release the device at the same time.
FreedOnce == "init" \notin failed => "free" \notin bad

\* The frames that wait are at the front of the list of buffers, although a
\* buffer is chosen in one critical section and marked in another.
WaitingInFront ==
  \A i \in Waiting : \A j \in 1..(i - 1) : j \in Waiting

\* Beacons are captured in the order in which they arrived, so the device never
\* goes back to an older one.
CapturedInOrder == [][captured' >= captured]_captured

\* A frame that got a buffer is processed, whatever comes behind it, unless the
\* adapter goes: no frame waits for the next one.
QueueServed ==
  \A b \in Bufs : (skb[b] # None /\ usb = "bound") ~> (skb[b] = None \/ usb # "bound")

\* disconnect comes to its end: the worker it waits for completes fw_done on
\* every path, and neither waits for the other.
DisconnectEnds == usb = "disconnect" ~> usb = "absent"
=============================================================================
