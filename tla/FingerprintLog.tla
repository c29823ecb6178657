--------------------------- MODULE FingerprintLog ---------------------------
(***************************************************************************)
(* What the daemon promises of its database: per store, at most one entry  *)
(* for a fingerprint, created once with the date of the day, refreshed in  *)
(* place with the date of another, and announced to the user exactly once. *)
(* The clock that shows the dates may be set, so they are in no order.     *)
(***************************************************************************)
EXTENDS Naturals

CONSTANTS
  Stores,        \* one per SSID and script
  Fingerprints,
  Dates,
  None           \* no entry

VARIABLES
  today,         \* the date the clock shows
  entries,       \* [created, last] of each fingerprint, or None
  pending,       \* entries whose announcement is due
  announced      \* number of announcements of each fingerprint

logVars == <<today, entries, pending, announced>>

Init ==
  /\ today \in Dates
  /\ entries = [s \in Stores |-> [x \in Fingerprints |-> None]]
  /\ pending = {}
  /\ announced = [s \in Stores |-> [x \in Fingerprints |-> 0]]

\* The clock may be set between the two dates of a new entry.
Insert(s, x) ==
  /\ pending = {}
  /\ entries[s][x] = None
  /\ today' \in Dates
  /\ entries' = [entries EXCEPT ![s][x] = [created |-> today, last |-> today']]
  /\ pending' = {<<s, x>>}
  /\ UNCHANGED announced

\* The creation date never changes.
Refresh(s, x) ==
  /\ pending = {}
  /\ entries[s][x] # None
  /\ entries' = [entries EXCEPT ![s][x].last = today]
  /\ UNCHANGED <<today, pending, announced>>

Announce(s, x) ==
  /\ <<s, x>> \in pending
  /\ pending' = pending \ {<<s, x>>}
  /\ announced' = [announced EXCEPT ![s][x] = @ + 1]
  /\ UNCHANGED <<today, entries>>

SetClock ==
  /\ today' \in Dates
  /\ UNCHANGED <<entries, pending, announced>>

Next ==
  \/ SetClock
  \/ \E s \in Stores, x \in Fingerprints :
       Insert(s, x) \/ Refresh(s, x) \/ Announce(s, x)

Spec == Init /\ [][Next]_logVars
=============================================================================
