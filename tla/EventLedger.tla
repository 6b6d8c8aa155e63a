---------------------------- MODULE EventLedger ----------------------------
(***************************************************************************)
(* What the intelligence pipeline promises about events, with nothing of   *)
(* how the worker keeps them: events are logged, handed to the worker once *)
(* and in order, turned into a session's row at most once, and settled     *)
(* (acknowledged) only when they were, or were discarded on purpose.       *)
(***************************************************************************)
EXTENDS Integers, Sequences

CONSTANTS
  Sessions,   \* the sessions an event may belong to
  Event,      \* the events; e.sid is the session
  Junk        \* the one event that belongs to no session

VARIABLES
  log,        \* every event, in the order of its arrival
  handed,     \* events 1..handed are no longer on offer
  open,       \* handed to the worker and not settled
  settled,    \* acknowledged
  row,        \* session -> the events its row was computed from
  used,       \* the events some row was computed from
  discarded   \* dropped for want of room

ledger == <<log, handed, open, settled, row, used, discarded>>

Init ==
  /\ log = <<>>
  /\ handed = 0
  /\ open = {}
  /\ settled = {}
  /\ row = [s \in Sessions |-> {}]
  /\ used = {}
  /\ discarded = {}

Log ==
  /\ \E e \in Event : log' = Append(log, e)
  /\ UNCHANGED <<handed, open, settled, row, used, discarded>>

(* Events handed out are new ones; some may have been lost from the log.   *)
HandOut ==
  /\ handed' \in handed + 1..Len(log)
  /\ \E new \in SUBSET (handed + 1..handed') : open' = open \cup new
  /\ UNCHANGED <<log, settled, row, used, discarded>>

(* A row is replaced by one computed from open events of its session, all  *)
(* later than those of the row it replaces, none used or discarded before. *)
Enrich(s) ==
  /\ \E evs \in SUBSET (open \ (used \cup discarded)) :
       /\ evs # {}
       /\ \A i \in evs : log[i] # Junk /\ log[i].sid = s
       /\ \A i \in row[s], j \in evs : i < j
       /\ row' = [row EXCEPT ![s] = evs]
       /\ used' = used \cup evs
  /\ UNCHANGED <<log, handed, open, settled, discarded>>

Discard ==
  /\ \E evs \in SUBSET (open \ used) : discarded' = discarded \cup evs
  /\ UNCHANGED <<log, handed, open, settled, row, used>>

Settle ==
  /\ \E evs \in SUBSET open :
       /\ \A i \in evs : i \in used \/ i \in discarded \/ log[i] = Junk
       /\ open' = open \ evs
       /\ settled' = settled \cup evs
  /\ UNCHANGED <<log, handed, row, used, discarded>>

Next ==
  \/ Log
  \/ HandOut
  \/ \E s \in Sessions : Enrich(s)
  \/ Discard
  \/ Settle

Spec == Init /\ [][Next]_ledger
=============================================================================
