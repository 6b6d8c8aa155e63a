---------------------------- MODULE LedgerProofs -----------------------------
(***************************************************************************)
(* A fingerprint only moves forward: what the worker holds of a session is *)
(* always later in the stream than what the session's row was computed     *)
(* from.  On this rests the refinement: the pipeline implements            *)
(* EventLedger, its initial states are the ledger's, and each of its steps *)
(* is one of the ledger's or none.                                         *)
(***************************************************************************)
EXTENDS IntelAccountingProofs

Before(earlier, later) == \A i \in earlier, j \in later : i < j

(* Row, then buffer, then batch, along the stream.                         *)
HeldInOrder ==
  /\ \A s \in Sessions : /\ fp[s] \subseteq 1..cursor
                         /\ \A i \in fp[s] : SidOf(i) = s
  /\ \A s \in Sessions : Before(fp[s], buffer[s] \cup popped[s])
  /\ \A s \in Sessions : Before(fp[s], batch) /\ Before(buffer[s], batch)
  /\ Before(flush.evs, batch)
  /\ flush.next = "persist" => Before(fp[flush.sid], flush.evs)

(* The inductive invariant.                                                *)
Ordered == Accounted /\ HeldInOrder

(* Where the row, the buffers, the batch and the flush stay, and the       *)
(* stream keeps its entries, the order stays.                              *)
LEMMA OrderFrame ==
  ASSUME Ordered, \A i \in Positions : stream'[i] = stream[i],
         UNCHANGED <<cursor, fp, buffer, popped, batch, flush>>
  PROVE  HeldInOrder'
<1>1. 1..cursor \subseteq Positions
  BY HeldArePositions DEF Ordered, Accounted
<1> QED BY <1>1 DEF Ordered, HeldInOrder, Before, SidOf

LEMMA ReadKeepsOrder ==
  ASSUME Ordered, Read
  PROVE  HeldInOrder'
<1>1. /\ batch = {} /\ flush = NoFlush /\ drained = <<>>
      /\ UNCHANGED <<popped, flush, fp, buffer>>
  BY DEF Read, Idle, aggregatorVars
<1>2. PICK last \in Undelivered : /\ XReadGroup(last, ReadCount)
                                 /\ batch' = ReadUpTo(last)
  BY DEF Read
<1>3. /\ \A i \in batch' : i > cursor /\ i \in Nat
      /\ cursor' >= cursor /\ cursor' \in Nat /\ stream' = stream
  <2>1. /\ ReadUpTo(last) \subseteq Positions
        /\ \A i \in ReadUpTo(last) : i > cursor /\ i <= cursor'
        /\ StreamTypeOK' /\ cursor' >= cursor /\ stream' = stream
    BY <1>2, XReadGroupDelivers DEF Ordered, Accounted, Typed, TypeOK
  <2> QED BY <2>1, <1>2 DEF Positions, StreamTypeOK
<1>4. /\ cursor \in Nat
      /\ \A s \in Sessions : fp[s] \subseteq 1..cursor /\ buffer[s] \subseteq 1..cursor
  BY HeldArePositions DEF Ordered, Accounted, HeldInOrder, IdsMatchBuffers
<1>5. \A s \in Sessions : Before(fp[s], batch') /\ Before(buffer[s], batch')
  <2> SUFFICES ASSUME NEW i \in 1..cursor, NEW j \in batch'
               PROVE  i < j
    BY <1>4 DEF Before
  <2> QED BY <1>3, <1>4
<1>6. \A s \in Sessions : fp[s] \subseteq 1..cursor'
  BY <1>3, <1>4
<1> QED BY <1>1, <1>3, <1>5, <1>6
    DEF Ordered, HeldInOrder, Before, SidOf, NoFlush

LEMMA ReplyLostKeepsOrder ==
  ASSUME Ordered, ReplyLost
  PROVE  HeldInOrder'
<1>1. UNCHANGED <<batch, popped, flush, fp, buffer>>
  BY DEF ReplyLost, aggregatorVars
<1>2. PICK last \in Undelivered : XReadGroup(last, ReadCount)
  BY DEF ReplyLost
<1>3. /\ cursor' >= cursor /\ cursor' \in Nat /\ cursor \in Nat
      /\ stream' = stream
  BY <1>2, XReadGroupDelivers
  DEF Ordered, Accounted, Typed, TypeOK, StreamTypeOK
<1>4. \A s \in Sessions : fp[s] \subseteq 1..cursor'
  BY <1>3 DEF Ordered, HeldInOrder
<1> QED BY <1>1, <1>3, <1>4 DEF Ordered, HeldInOrder, Before, SidOf

LEMMA IngestKeepsOrder ==
  ASSUME Ordered, NEW i \in batch, Ingest(i)
  PROVE  HeldInOrder'
<1> DEFINE s == SidOf(i)
<1>1. /\ flush = NoFlush /\ IsEnvelope(i) /\ NextInBatch(i)
      /\ batch' = batch \ {i} /\ IngestEvent(s, i)
      /\ UNCHANGED <<popped, fp, stream, cursor>>
  BY DEF Ingest, streamVars
<1>2. flush' = NoFlush \/ flush' = NewFlush(s, pendingIds[s] \cup {i}, buffer[s] \cup {i})
  BY <1>1 DEF Ingest
<1>3. s \in Sessions
  BY <1>1 DEF Ordered, Accounted, Typed, TypeOK, WorkerTypeOK, StreamTypeOK,
              Entry, Envelope, Positions, IsEnvelope, SidOf
<1>4. \A t \in Sessions : \/ buffer'[t] \subseteq buffer[t]
                          \/ t = s /\ buffer'[t] = buffer[t] \cup {i}
  <2>1. \A t \in Sessions :
           \/ buffer'[t] = buffer[t] /\ t # s
           \/ buffer'[t] = {} /\ t # s /\ buffer[t] \subseteq evicted'
           \/ t = s /\ buffer'[t] = IF Ready(s, i) THEN {} ELSE buffer[t] \cup {i}
    BY <1>1, <1>3, IngestBuffers DEF Ordered, Accounted
  <2> QED BY <2>1
<1>5. \A j \in batch' : i < j
  <2>1. batch \subseteq Nat
    BY DEF Ordered, Accounted, Typed, TypeOK, WorkerTypeOK, Positions
  <2> QED BY <2>1, <1>1 DEF NextInBatch
<1>6. /\ \A t \in Sessions : Before(fp[t], buffer[t] \cup popped[t])
      /\ \A t \in Sessions : Before(fp[t], batch) /\ Before(buffer[t], batch)
  BY DEF Ordered, HeldInOrder
<1> HIDE DEF s
<1>7. \A t \in Sessions : Before(fp[t], buffer'[t] \cup popped[t])
  BY <1>4, <1>6 DEF Before
<1>8. \A t \in Sessions : Before(fp[t], batch') /\ Before(buffer'[t], batch')
  BY <1>1, <1>4, <1>5, <1>6 DEF Before
<1>9. Before(flush'.evs, batch')
  <2>1. Before(buffer[s] \cup {i}, batch')
    BY <1>1, <1>3, <1>5, <1>6 DEF Before
  <2> QED BY <2>1, <1>2 DEF NewFlush, NoFlush, Before
<1>10. flush'.next = "persist" => Before(fp[flush'.sid], flush'.evs)
  <2>1. Before(fp[s], buffer[s] \cup {i})
    BY <1>3, <1>6 DEF Before
  <2> QED BY <2>1, <1>2 DEF NewFlush, NoFlush
<1> QED BY <1>1, <1>7, <1>8, <1>9, <1>10 DEF Ordered, HeldInOrder, SidOf, Before

LEMMA DrainKeepsOrder ==
  ASSUME Ordered, NEW n \in 1..Len(order), DrainIdle(n)
  PROVE  HeldInOrder'
<1>1. /\ batch = {} /\ flush = NoFlush
      /\ popped' = [s \in Sessions |-> IF s \in Oldest(n) THEN buffer[s] ELSE {}]
      /\ buffer' = [s \in Sessions |-> IF s \in Oldest(n) THEN {} ELSE buffer[s]]
      /\ UNCHANGED <<batch, flush, fp, stream, cursor>>
  BY DEF DrainIdle, Idle, PopOldest, streamVars
<1>2. \A s \in Sessions : buffer'[s] \cup popped'[s] = buffer[s]
  BY <1>1
<1> QED BY <1>1, <1>2 DEF Ordered, HeldInOrder, Before, SidOf, NoFlush

LEMMA FlushDrainedKeepsOrder ==
  ASSUME Ordered, FlushDrained
  PROVE  HeldInOrder'
<1> DEFINE s == Head(drained)
<1>1. /\ drained # <<>> /\ popped' = [popped EXCEPT ![s] = {}]
      /\ flush' = NewFlush(s, pendingIds[s], popped[s])
      /\ UNCHANGED <<batch, fp, stream, cursor, buffer>>
  BY DEF FlushDrained, streamVars, aggregatorVars
<1>2. /\ batch = {} /\ popped \in [Sessions -> SUBSET Nat]
      /\ drained \in Seq(Sessions)
  BY <1>1 DEF Ordered, Accounted, DrainedOnce, Typed, TypeOK, WorkerTypeOK
<1>3. s \in Sessions
  BY <1>1, <1>2
<1>4. /\ flush'.sid = s /\ flush'.evs = popped[s]
      /\ \A t \in Sessions : popped'[t] \subseteq popped[t]
  BY <1>1, <1>2 DEF NewFlush
<1>5. /\ \A t \in Sessions : Before(fp[t], buffer[t] \cup popped'[t])
      /\ Before(fp[flush'.sid], flush'.evs)
  BY <1>3, <1>4 DEF Ordered, HeldInOrder, Before
<1> QED BY <1>1, <1>2, <1>5 DEF Ordered, HeldInOrder, Before, SidOf

LEMMA PersistKeepsOrder ==
  ASSUME Ordered, Persist
  PROVE  HeldInOrder'
<1>1. /\ flush.next = "persist" /\ fp' = [fp EXCEPT ![flush.sid] = flush.evs]
      /\ flush'.next # "persist" /\ flush'.evs = flush.evs
      /\ flush.sid \in Sessions /\ fp \in [Sessions -> SUBSET Nat]
      /\ UNCHANGED <<batch, popped, stream, cursor, buffer>>
  <2>1. flush.next = "persist" /\ flush \in Flush
    BY FlushType DEF Persist, At, Ordered, Accounted, Typed, TypeOK
  <2> QED BY <2>1
      DEF Persist, Flush, Ordered, Accounted, Typed, TypeOK, WorkerTypeOK,
          streamVars, aggregatorVars
<1>2. /\ buffer[flush.sid] = {} /\ popped[flush.sid] = {}
      /\ flush.evs \subseteq flush.ids
      /\ \A i \in flush.ids : SidOf(i) = flush.sid
  BY <1>1 DEF Ordered, Accounted, FlushIsBuffer
<1>3. flush.ids \subseteq 1..cursor
  BY HeldArePositions DEF Ordered, Accounted
<1>4. \A t \in Sessions : fp'[t] = IF t = flush.sid THEN flush.evs ELSE fp[t]
  BY <1>1
<1> QED BY <1>1, <1>2, <1>3, <1>4 DEF Ordered, HeldInOrder, Before, SidOf

LEMMA NoticeKeepsOrder ==
  ASSUME Ordered, PublishAlert \/ PublishReport
  PROVE  HeldInOrder'
<1>1. flush.next \in {"alert", "report"} /\ flush \in Flush
  BY FlushType DEF PublishAlert, PublishReport, At, Ordered, Accounted, Typed,
                   TypeOK
<1>2. /\ flush'.next # "persist" /\ flush'.evs = flush.evs
      /\ UNCHANGED <<batch, fp, popped, stream, cursor, buffer>>
  BY <1>1 DEF PublishAlert, PublishReport, Flush, streamVars, aggregatorVars
<1> QED BY <1>2 DEF Ordered, HeldInOrder, Before, SidOf

(* A flush that ends, and an entry that is dropped, leave less to order.   *)
LEMMA EndKeepsOrder ==
  ASSUME Ordered, PersistFails \/ AckFlush \/ \E i \in batch : DropBad(i)
  PROVE  HeldInOrder'
<1>1. /\ flush' = NoFlush \/ flush' = flush
      /\ batch' \subseteq batch
      /\ UNCHANGED <<fp, popped, stream, cursor, buffer>>
  BY DEF PersistFails, AckFlush, DropBad, AckOrForget, XAck, streamVars,
         aggregatorVars
<1> QED BY <1>1 DEF Ordered, HeldInOrder, Before, SidOf, NoFlush

LEMMA CrashKeepsOrder ==
  ASSUME Ordered, Crash
  PROVE  HeldInOrder'
<1>1. /\ batch' = {} /\ popped' = NoBuffers /\ buffer' = NoBuffers
      /\ flush' = NoFlush /\ UNCHANGED <<fp, stream, cursor>>
  BY DEF Crash, streamVars
<1> QED BY <1>1 DEF Ordered, HeldInOrder, Before, SidOf, NoFlush, NoBuffers

LEMMA OrderedInit == Init => Ordered
<1> SUFFICES ASSUME Init PROVE Ordered
  OBVIOUS
<1>1. Accounted
  BY AccountedInit
<1>2. HeldInOrder
  BY DEF Init, WorkerInit, AggregatorInit, HeldInOrder, Before, NoRow, NoBuffers,
         NoFlush
<1> QED BY <1>1, <1>2 DEF Ordered

LEMMA OrderedStep == Ordered /\ [Next]_vars => Ordered'
<1> SUFFICES ASSUME Ordered, [Next]_vars PROVE Ordered'
  OBVIOUS
<1>1. Accounted'
  BY AccountedStep DEF Ordered
<1>2. CASE UNCHANGED vars
  BY <1>1, <1>2, OrderFrame
  DEF Ordered, vars, streamVars, aggregatorVars, workerVars
<1>3. CASE ListenerNext
  BY <1>1, <1>3, ListenerAppends, OrderFrame
  DEF Ordered, Accounted, aggregatorVars, workerVars
<1>4. CASE WorkerNext
  <2>1. CASE Restart
    BY <1>1, <2>1, OrderFrame DEF Ordered, Restart, streamVars, aggregatorVars
  <2> QED
    BY <1>1, <1>4, <2>1, ReadKeepsOrder, ReplyLostKeepsOrder, IngestKeepsOrder, DrainKeepsOrder,
       FlushDrainedKeepsOrder, PersistKeepsOrder, NoticeKeepsOrder,
       EndKeepsOrder, CrashKeepsOrder
    DEF Ordered, WorkerNext
<1> QED BY <1>2, <1>3, <1>4, NextSplits

(* A commit replaces a session's fingerprint only by one computed from     *)
(* later events of the same session (fingerprint.py: _enrich_and_persist,  *)
(* fed by ingest and drain_idle).                                          *)
THEOREM FingerprintForward == Spec => FingerprintMovesForward
<1>1. Ordered /\ [Next]_vars =>
        [\A s \in Sessions : fp'[s] # fp[s] =>
           /\ fp'[s] # NoRow
           /\ \A i \in fp'[s] : SidOf(i) = s
           /\ fp[s] # NoRow => \A i \in fp[s], j \in fp'[s] : i < j]_vars
  <2> SUFFICES ASSUME Ordered, [Next]_vars, NEW s \in Sessions, fp'[s] # fp[s]
               PROVE  /\ fp'[s] # NoRow
                      /\ \A i \in fp'[s] : SidOf(i) = s
                      /\ fp[s] # NoRow => \A i \in fp[s], j \in fp'[s] : i < j
    OBVIOUS
  <2>1. Persist
    BY NextSplits
    DEF ListenerNext, ListenerOnly, WorkerNext, workerVars, vars, Read, ReplyLost,
        Ingest,
        DropBad, DrainIdle, FlushDrained, PersistFails, PublishAlert,
        PublishReport, AckFlush, Crash, Restart
  <2>2. flush.next = "persist" /\ fp' = [fp EXCEPT ![flush.sid] = flush.evs]
    BY <2>1 DEF Persist, At
  <2>3. s = flush.sid /\ fp'[s] = flush.evs
    BY <2>2 DEF Ordered, Accounted, Typed, TypeOK, WorkerTypeOK
  <2> QED BY <2>2, <2>3
      DEF Ordered, Accounted, FlushIsBuffer, HeldInOrder, Before, NoRow
<1> QED BY <1>1, OrderedInit, OrderedStep, PTL DEF Spec, FingerprintMovesForward

--------------------------------------------------------------------------
(* The ledger                                                             *)

(* What the worker still holds of an event was neither used nor discarded, *)
(* and nothing was used or discarded that was not delivered.               *)
Gone == enriched \cup evicted

Fresh ==
  /\ enriched \cap evicted = {}
  /\ Gone \subseteq 1..cursor
  /\ batch \cap Gone = {}
  /\ \A s \in Sessions : (buffer[s] \cup popped[s]) \cap Gone = {}
  /\ flush.next = "persist" => flush.evs \cap Gone = {}

(* The inductive invariant.                                                *)
Booked == Ordered /\ Fresh

LEMMA FreshFrame ==
  ASSUME Fresh, cursor' = cursor, batch' \subseteq batch,
         UNCHANGED <<buffer, popped, enriched, evicted>>,
         flush'.next = "persist" => flush'.evs = flush.evs /\ flush.next = "persist"
  PROVE  Fresh'
BY DEF Fresh, Gone

LEMMA ReadKeepsFresh ==
  ASSUME Booked, Read
  PROVE  Fresh'
<1>1. PICK last \in Undelivered : /\ XReadGroup(last, ReadCount)
                                 /\ batch' = ReadUpTo(last)
  BY DEF Read
<1>2. /\ \A i \in batch' : i > cursor
      /\ cursor' >= cursor /\ cursor' \in Nat /\ cursor \in Nat
  BY <1>1, XReadGroupDelivers
  DEF Booked, Ordered, Accounted, Typed, TypeOK, StreamTypeOK
<1>3. /\ UNCHANGED <<buffer, popped, enriched, evicted, flush>>
      /\ flush = NoFlush /\ Gone \subseteq 1..cursor
  BY DEF Read, Idle, aggregatorVars, Booked, Fresh
<1>4. batch' \cap Gone = {} /\ Gone \subseteq 1..cursor'
  <2>1. ASSUME NEW i \in batch' \cap Gone PROVE FALSE
    <3>1. i \in 1..cursor /\ i > cursor
      BY <2>1, <1>2, <1>3
    <3> QED BY <3>1, <1>2
  <2> QED BY <2>1, <1>2, <1>3
<1> QED BY <1>3, <1>4 DEF Booked, Fresh, Gone, NoFlush

LEMMA ReplyLostKeepsFresh ==
  ASSUME Booked, ReplyLost
  PROVE  Fresh'
<1>1. PICK last \in Undelivered : XReadGroup(last, ReadCount)
  BY DEF ReplyLost
<1>2. cursor' >= cursor /\ cursor' \in Nat /\ cursor \in Nat
  BY <1>1, XReadGroupDelivers
  DEF Booked, Ordered, Accounted, Typed, TypeOK, StreamTypeOK
<1>3. UNCHANGED <<batch, buffer, popped, enriched, evicted, flush>>
  BY DEF ReplyLost, aggregatorVars
<1>4. Gone \subseteq 1..cursor'
  BY <1>2 DEF Booked, Fresh
<1> QED BY <1>3, <1>4 DEF Booked, Fresh, Gone

(* Held events of one session are held for no other, and not in the batch. *)
LEMMA HeldApart ==
  ASSUME Accounted, NEW s \in Sessions
  PROVE  /\ buffer[s] \cup popped[s] \subseteq pendingIds[s]
         /\ pendingIds[s] \cap (batch \cup flush.ids) = {}
         /\ \A t \in Sessions : t # s => pendingIds[s] \cap pendingIds[t] = {}
BY DEF Accounted, IdsMatchBuffers, HeldOrForgotten

LEMMA IngestKeepsFresh ==
  ASSUME Booked, NEW i \in batch, Ingest(i)
  PROVE  Fresh'
<1> DEFINE s == SidOf(i)
           dropped == UNION {buffer[t] : t \in Victims(s)}
<1>1. /\ flush = NoFlush /\ IsEnvelope(i) /\ batch' = batch \ {i}
      /\ IngestEvent(s, i) /\ UNCHANGED <<popped, enriched, cursor>>
      /\ evicted' = evicted \cup dropped
  BY DEF Ingest, streamVars, IngestEvent
<1>2. Accounted /\ Fresh /\ Typed
  BY DEF Booked, Ordered, Accounted
<1>3. s \in Sessions
  BY <1>1, <1>2 DEF Typed, TypeOK, WorkerTypeOK, StreamTypeOK, Entry, Envelope,
                    Positions, IsEnvelope, SidOf
<1>4. \A t \in Sessions : popped[t] = {}
  BY <1>2 DEF Accounted, DrainedOnce, Holds
<1>5. /\ \A t \in Sessions : buffer[t] \cap batch = {} /\ buffer[t] \subseteq 1..cursor
      /\ \A t, u \in Sessions : t # u => buffer[t] \cap buffer[u] = {}
      /\ i \in 1..cursor
  BY <1>2, HeldApart, HeldArePositions DEF Accounted
<1>6. /\ \A t \in Sessions :
            \/ buffer'[t] = {}
            \/ /\ t \notin Victims(s)
               /\ buffer'[t] \subseteq buffer[t] \cup {i}
      /\ \A t \in Sessions : t # s => buffer'[t] \subseteq buffer[t]
      /\ Victims(s) \subseteq Sessions
      /\ Victims(s) # {} => buffer[s] = {}
  <2>1. Victims(s) \subseteq Sessions
    BY <1>2, VictimsAreSessions
  <2>2. buffer' = [t \in Sessions |->
                     IF t \in Victims(s) THEN {}
                     ELSE IF t # s THEN buffer[t]
                     ELSE IF Ready(s, i) THEN {} ELSE buffer[s] \cup {i}]
    BY <1>1 DEF IngestEvent
  <2> QED BY <2>1, <2>2 DEF Victims
<1>7. /\ i \notin dropped /\ dropped \cap batch = {} /\ dropped \cap enriched = {}
      /\ dropped \subseteq 1..cursor
      /\ \A t \in Sessions : buffer'[t] \cap dropped = {}
  BY <1>2, <1>5, <1>6 DEF Fresh, Gone
<1>8. flush'.next = "persist" => flush'.evs \cap (Gone \cup dropped) = {}
  <2>1. \/ flush' = NoFlush
        \/ flush' = NewFlush(s, pendingIds[s] \cup {i}, buffer[s] \cup {i})
    BY <1>1 DEF Ingest
  <2>2. buffer[s] \cap dropped = {}
    BY <1>3, <1>6
  <2>3. (buffer[s] \cup {i}) \cap (Gone \cup dropped) = {}
    BY <2>2, <1>2, <1>3, <1>7 DEF Fresh
  <2> QED BY <2>1, <2>3 DEF NewFlush, NoFlush
<1>9. Gone' = Gone \cup dropped
  BY <1>1 DEF Gone
<1>10. \A t \in Sessions : (buffer'[t] \cup popped'[t]) \cap Gone' = {}
  BY <1>1, <1>2, <1>4, <1>6, <1>7, <1>9 DEF Fresh
<1> HIDE DEF dropped, s
<1> QED BY <1>1, <1>2, <1>7, <1>8, <1>9, <1>10 DEF Fresh, Gone

LEMMA PersistKeepsFresh ==
  ASSUME Booked, Persist
  PROVE  Fresh'
<1>1. /\ enriched' = enriched \cup flush.evs /\ flush.next = "persist"
      /\ UNCHANGED <<buffer, popped, batch, evicted, cursor>>
  BY DEF Persist, At, aggregatorVars, streamVars
<1>2. flush'.next # "persist"
  <2>1. flush \in Flush
    BY <1>1, FlushType DEF Booked, Ordered, Accounted, Typed, TypeOK
  <2> QED BY <2>1, PersistScores DEF Flush
<1>3. /\ flush.evs \subseteq flush.ids /\ flush.ids \subseteq 1..cursor
      /\ flush.evs \cap Gone = {} /\ batch \cap flush.ids = {}
  BY <1>1, HeldArePositions
  DEF Booked, Ordered, Accounted, Fresh, FlushIsBuffer, HeldOrForgotten
<1>4. \A s \in Sessions : (buffer[s] \cup popped[s]) \cap flush.evs = {}
  BY <1>3, HeldApart DEF Booked, Ordered
<1> QED BY <1>1, <1>2, <1>3, <1>4 DEF Booked, Fresh, Gone

LEMMA FlushDrainedKeepsFresh ==
  ASSUME Booked, FlushDrained
  PROVE  Fresh'
<1> DEFINE s == Head(drained)
<1>1. /\ drained # <<>> /\ popped' = [popped EXCEPT ![s] = {}]
      /\ flush' = NewFlush(s, pendingIds[s], popped[s])
      /\ UNCHANGED <<batch, enriched, evicted, cursor, buffer>>
  BY DEF FlushDrained, streamVars, aggregatorVars
<1>2. drained \in Seq(Sessions) /\ popped \in [Sessions -> SUBSET Nat]
  BY DEF Booked, Ordered, Accounted, Typed, TypeOK, WorkerTypeOK
<1>3. s \in Sessions /\ \A t \in Sessions : popped'[t] \subseteq popped[t]
  BY <1>1, <1>2
<1>4. flush'.evs = popped[s]
  BY <1>1 DEF NewFlush
<1> QED BY <1>1, <1>3, <1>4 DEF Booked, Fresh, Gone

LEMMA DrainKeepsFresh ==
  ASSUME Booked, NEW n \in 1..Len(order), DrainIdle(n)
  PROVE  Fresh'
<1>1. /\ flush = NoFlush
      /\ popped' = [s \in Sessions |-> IF s \in Oldest(n) THEN buffer[s] ELSE {}]
      /\ buffer' = [s \in Sessions |-> IF s \in Oldest(n) THEN {} ELSE buffer[s]]
      /\ UNCHANGED <<batch, flush, enriched, evicted, cursor>>
  BY DEF DrainIdle, Idle, PopOldest, streamVars
<1> QED BY <1>1 DEF Booked, Fresh, Gone, NoFlush

LEMMA BookedInit == Init => Booked
<1> SUFFICES ASSUME Init PROVE Fresh
  BY OrderedInit DEF Booked
<1> QED BY DEF Init, WorkerInit, AggregatorInit, StreamInit, Fresh, Gone,
               NoBuffers, NoFlush

LEMMA BookedStep == Booked /\ [Next]_vars => Booked'
<1> SUFFICES ASSUME Booked, [Next]_vars PROVE Fresh'
  BY OrderedStep DEF Booked
<1>1. CASE UNCHANGED vars
  BY <1>1, FreshFrame
  DEF Booked, vars, streamVars, aggregatorVars, workerVars
<1>2. CASE ListenerNext
  BY <1>2, ListenerAppends, FreshFrame
  DEF Booked, Ordered, Accounted, aggregatorVars, workerVars
<1>3. CASE WorkerNext
  <2>1. CASE PublishAlert \/ PublishReport
    <3>1. flush.next # "persist" /\ flush \in Flush /\ flush'.next # "persist"
      BY <2>1, FlushType
      DEF PublishAlert, PublishReport, At, Flush, Booked, Ordered, Accounted,
          Typed, TypeOK
    <3> QED BY <2>1, <3>1, FreshFrame
        DEF Booked, PublishAlert, PublishReport, streamVars, aggregatorVars
  <2>2. CASE Restart \/ \E i \in batch : DropBad(i)
    BY <2>2, FreshFrame
    DEF Booked, Restart, DropBad, AckOrForget, XAck, streamVars, aggregatorVars
  <2>3. CASE PersistFails \/ AckFlush
    BY <2>3, FreshFrame
    DEF Booked, PersistFails, AckFlush, AckOrForget, XAck, NoFlush,
        streamVars, aggregatorVars
  <2>4. CASE Crash
    BY <2>4 DEF Booked, Fresh, Gone, Crash, NoBuffers, NoFlush, streamVars
  <2> QED
    BY <1>3, <2>1, <2>2, <2>3, <2>4, ReadKeepsFresh, ReplyLostKeepsFresh,
       IngestKeepsFresh,
       DrainKeepsFresh, FlushDrainedKeepsFresh, PersistKeepsFresh
    DEF WorkerNext
<1> QED BY <1>1, <1>2, <1>3, NextSplits

--------------------------------------------------------------------------
(* The steps, mapped *)

LEMMA ListenerMaps ==
  ASSUME Booked, ListenerNext
  PROVE  Ledger!Log \/ UNCHANGED Ledger!ledger
<1>1. /\ UNCHANGED <<cursor, pel, acked, fp, enriched, evicted>>
      /\ ManagerTypeOK
  BY ListenerAppends
  DEF Booked, Ordered, Accounted, Typed, TypeOK, aggregatorVars, workerVars
<1>2. ASSUME UNCHANGED stream PROVE UNCHANGED Ledger!ledger
  BY <1>1, <1>2 DEF Ledger!ledger
<1>3. ASSUME NEW e \in Entry, XAdd(e) PROVE Ledger!Log
  BY <1>1, <1>3 DEF Ledger!Log, XAdd
<1>4. \A c \in calls : [sid |-> c.sid, ev |-> c.ev] \in Entry
  BY <1>1 DEF ManagerTypeOK, Call, Entry, Envelope
<1>5. BadEntry \in Entry
  BY DEF Entry
<1> QED BY <1>2, <1>3, <1>4, <1>5
    DEF ListenerNext, streamVars, CallOpen, CallRecord, CallClose, Commit,
        Publish, OpenOrCloseFails, RecordFails, OpenTimesOut, ListenerDies,
        PublishUndecodable

(* To the ledger, a reply that is lost is a hand-out like any other.       *)
LEMMA ReadMaps ==
  ASSUME Booked, Read \/ ReplyLost
  PROVE  Ledger!HandOut
<1>1. PICK last \in Undelivered : XReadGroup(last, ReadCount)
  BY DEF Read, ReplyLost
<1>2. /\ cursor' = last /\ last \in cursor + 1..Len(stream)
      /\ ReadUpTo(last) \subseteq cursor + 1..last
      /\ pel' = pel \cup ReadUpTo(last) /\ UNCHANGED <<stream, acked>>
  <2>1. Len(stream) \in Nat /\ cursor \in Nat
    BY DEF Booked, Ordered, Accounted, Typed, TypeOK, StreamTypeOK
  <2> QED BY <1>1, <2>1 DEF XReadGroup, ReadUpTo, Undelivered, Positions
<1>3. UNCHANGED <<fp, enriched, evicted>>
  BY DEF Read, ReplyLost, aggregatorVars
<1> QED BY <1>2, <1>3 DEF Ledger!HandOut

LEMMA IngestMaps ==
  ASSUME Booked, NEW i \in batch, Ingest(i)
  PROVE  Ledger!Discard
<1> DEFINE s == SidOf(i)
           dropped == UNION {buffer[t] : t \in Victims(s)}
<1>1. /\ evicted' = evicted \cup dropped
      /\ UNCHANGED <<stream, cursor, pel, acked, fp, enriched>>
  BY DEF Ingest, IngestEvent, streamVars
<1>2. Accounted /\ Fresh /\ Typed
  BY DEF Booked, Ordered, Accounted
<1>3. \A t \in Sessions : buffer[t] \subseteq pel /\ buffer[t] \cap enriched = {}
  BY <1>2, HeldApart, HeldArePositions DEF Accounted, Fresh, Gone
<1>4. Victims(s) \subseteq Sessions
  BY <1>2, VictimsAreSessions
<1>5. dropped \in SUBSET (pel \ enriched)
  BY <1>3, <1>4
<1> QED BY <1>1, <1>5 DEF Ledger!Discard

LEMMA PersistMaps ==
  ASSUME Booked, Persist
  PROVE  \E s \in Sessions : Ledger!Enrich(s)
<1>1. /\ flush.next = "persist" /\ fp' = [fp EXCEPT ![flush.sid] = flush.evs]
      /\ enriched' = enriched \cup flush.evs
      /\ UNCHANGED <<stream, cursor, pel, acked, evicted>>
  BY DEF Persist, At, streamVars, aggregatorVars
<1>2. flush.sid \in Sessions
  BY <1>1, FlushType DEF Booked, Ordered, Accounted, Typed, TypeOK, Flush
<1>3. flush.evs \in SUBSET (pel \ (enriched \cup evicted)) /\ flush.evs # {}
  BY <1>1, HeldArePositions
  DEF Booked, Ordered, Accounted, Fresh, Gone, FlushIsBuffer
<1>4. \A i \in flush.evs : stream[i] # BadEntry /\ stream[i].sid = flush.sid
  BY <1>1 DEF Booked, Ordered, Accounted, FlushIsBuffer, IsEnvelope, SidOf
<1>5. \A i \in fp[flush.sid], j \in flush.evs : i < j
  BY <1>1 DEF Booked, Ordered, HeldInOrder, Before
<1> QED BY <1>1, <1>2, <1>3, <1>4, <1>5 DEF Ledger!Enrich

LEMMA AckMaps ==
  ASSUME Booked, AckFlush \/ \E i \in batch : DropBad(i)
  PROVE  Ledger!Settle \/ UNCHANGED Ledger!ledger
<1>1. PICK ids : /\ AckOrForget(ids)
                 /\ \A i \in ids : i \in enriched \/ i \in evicted \/ stream[i] = BadEntry
  <2>1. CASE AckFlush
    <3>1. AckOrForget(flush.ids) /\ flush.next = "ack"
      BY <2>1 DEF AckFlush, At
    <3>2. \A i \in flush.ids : i \in enriched \/ i \in evicted
      BY <3>1 DEF Booked, Ordered, Accounted, FlushIsBuffer
    <3> QED BY <3>1, <3>2
  <2>2. CASE \E i \in batch : DropBad(i)
    BY <2>2 DEF DropBad, IsEnvelope
  <2> QED BY <2>1, <2>2
<1>2. UNCHANGED <<fp, enriched, evicted>>
  BY DEF AckFlush, DropBad, aggregatorVars
<1>3. CASE XAck(ids)
  <2>1. /\ ids \cap pel \in SUBSET pel /\ pel' = pel \ (ids \cap pel)
        /\ acked' = acked \cup (ids \cap pel) /\ UNCHANGED <<stream, cursor>>
    BY <1>3 DEF XAck
  <2> QED BY <1>1, <1>2, <2>1 DEF Ledger!Settle
<1>4. CASE UNCHANGED streamVars
  BY <1>2, <1>4 DEF Ledger!ledger, streamVars
<1> QED BY <1>1, <1>3, <1>4 DEF AckOrForget

LEMMA OthersStutter ==
  ASSUME \/ \E n \in 1..Len(order) : DrainIdle(n)
         \/ FlushDrained \/ PersistFails \/ PublishAlert \/ PublishReport
         \/ Crash \/ Restart \/ UNCHANGED vars
  PROVE  UNCHANGED Ledger!ledger
BY DEF Ledger!ledger, DrainIdle, PopOldest, FlushDrained, PersistFails,
       PublishAlert, PublishReport, Crash, Restart, vars, streamVars,
       aggregatorVars, workerVars

LEMMA InitMaps == Init => Ledger!Init
BY DEF Init, StreamInit, AggregatorInit, WorkerInit, NoRow, Ledger!Init

LEMMA StepMaps == Booked /\ [Next]_vars => [Ledger!Next]_(Ledger!ledger)
<1> SUFFICES ASSUME Booked, [Next]_vars
             PROVE  Ledger!Next \/ UNCHANGED Ledger!ledger
  OBVIOUS
<1>1. CASE ListenerNext
  BY <1>1, ListenerMaps DEF Ledger!Next
<1>2. CASE WorkerNext
  BY <1>2, ReadMaps, IngestMaps, PersistMaps, AckMaps, OthersStutter
  DEF WorkerNext, Ledger!Next
<1>3. CASE UNCHANGED vars
  BY <1>3, OthersStutter
<1> QED BY <1>1, <1>2, <1>3, NextSplits

(* SessionManager, the stream and the worker together keep the ledger's    *)
(* promises: every event is used for a row at most once and in stream      *)
(* order, and is acknowledged only once used, discarded or found junk.     *)
THEOREM PipelineImplementsLedger == Spec => ImplementsLedger
BY InitMaps, StepMaps, BookedInit, BookedStep, PTL
DEF Spec, ImplementsLedger, Ledger!Spec
==============================================================================
