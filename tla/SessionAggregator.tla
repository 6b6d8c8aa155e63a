------------------------- MODULE SessionAggregator -------------------------
(***************************************************************************)
(* workers/intel/aggregator.py: the OrderedDict of session buffers, oldest *)
(* activity first.  A buffer's event list is the set of the stream         *)
(* positions of its events: a worker ingests in stream order, so the list  *)
(* is that set in increasing order.                                        *)
(***************************************************************************)
EXTENDS EventStream

CONSTANTS
  MaxBuffered,  \* max_events_per_session
  MaxBuffers    \* max_sessions

ASSUME AggregatorAssumption ==
  MaxBuffered \in Nat \ {0} /\ MaxBuffers \in Nat \ {0}

VARIABLES
  order,    \* the keys of _buffers in dictionary order
  buffer,   \* session -> positions of the events buffered
  evicted   \* history: positions _evict_if_full threw away

aggregatorVars == <<order, buffer, evicted>>

AggregatorTypeOK ==
  /\ order \in Seq(Sessions)
  /\ buffer \in [Sessions -> SUBSET Nat]
  /\ evicted \subseteq Nat

NoBuffers == [s \in Sessions |-> {}]

AggregatorInit ==
  /\ order = <<>>
  /\ buffer = NoBuffers
  /\ evicted = {}

(* The dictionary without key s, and with s moved (or added) to its end.   *)
Holds(seq, s) == \E k \in DOMAIN seq : seq[k] = s
PlaceOf(seq, s) == CHOOSE k \in DOMAIN seq : seq[k] = s
Without(seq, s) ==
  IF ~Holds(seq, s) THEN seq
  ELSE [k \in 1..Len(seq) - 1 |->
          IF k < PlaceOf(seq, s) THEN seq[k] ELSE seq[k + 1]]
Touched(s) == Append(Without(order, s), s)

(* Mutant: one buffer too many before the eviction.                        *)
LateVictims(s) == IF buffer[s] = {} /\ Len(order) > MaxBuffers
                    THEN {Head(order)} ELSE {}

(* _evict_if_full, called with the key of a new buffer already appended:   *)
(* a full dictionary drops its least recently active session.              *)
Victims(s) == IF buffer[s] = {} /\ Len(order) >= MaxBuffers
                THEN {Head(order)} ELSE {}

(* What ingest(envelope) leaves to return: the whole buffer once it holds  *)
(* a SESSION_CLOSE or reaches the cap, else nothing.                       *)
Ready(s, i) == \/ EvOf(i) = CloseEv
               \/ Cardinality(buffer[s] \cup {i}) >= MaxBuffered

(* ingest() of the envelope at position i.                                 *)
IngestEvent(s, i) ==
  LET victims == Victims(s)
      kept == IF victims = {} THEN Touched(s) ELSE Tail(Touched(s))
  IN /\ order' = IF Ready(s, i) THEN Without(kept, s) ELSE kept
     /\ buffer' = [t \in Sessions |->
                     IF t \in victims THEN {}
                     ELSE IF t # s THEN buffer[t]
                     ELSE IF Ready(s, i) THEN {} ELSE buffer[s] \cup {i}]
     /\ evicted' = evicted \cup UNION {buffer[t] : t \in victims}

(* Mutant: the scan forgets the last idle session it collected.            *)
OldestButLast(n) == {order[k] : k \in 1..n - 1}

(* drain_idle(): the first n sessions of the dictionary have been idle for *)
(* longer than idle_timeout_seconds; its scan stops at the first that has  *)
(* not, and the dictionary is sorted by last activity.                     *)
Oldest(n) == {order[k] : k \in 1..n}

PopOldest(n) ==
  /\ n \in 1..Len(order)
  /\ order' = SubSeq(order, n + 1, Len(order))
  /\ buffer' = [s \in Sessions |-> IF s \in Oldest(n) THEN {} ELSE buffer[s]]
  /\ UNCHANGED evicted
--------------------------------------------------------------------------
(* The dictionary's keys are the sessions with a non-empty buffer, each    *)
(* once and at most max_sessions of them: move_to_end, pop, drain_idle and *)
(* the eviction keep keys and buffers in step.                             *)
NoDuplicates(seq) == \A j, k \in DOMAIN seq : seq[j] = seq[k] => j = k

OrderMatchesBuffers ==
  /\ \A s \in Sessions : buffer[s] # {} <=> Holds(order, s)
  /\ NoDuplicates(order)
  /\ Len(order) <= MaxBuffers
=============================================================================
