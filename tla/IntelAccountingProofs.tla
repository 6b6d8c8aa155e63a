------------------------ MODULE IntelAccountingProofs ------------------------
(***************************************************************************)
(* The worker's bookkeeping of what it read: theorems about the pending    *)
(* list, the ids held in memory, the buffers and the acknowledgements of   *)
(* IntelPipeline.  Last, what a consumer of the stream may rely on: an     *)
(* entry's rows were committed before it was added, however the calls of a *)
(* session overlap.                                                        *)
(***************************************************************************)
EXTENDS IntelPipelineProofs

(* A drained buffer is out of the dictionary, waits for its flush once,    *)
(* and nothing is ingested meanwhile.                                      *)
DrainedOnce ==
  /\ batch # {} => drained = <<>>
  /\ NoDuplicates(drained)
  /\ \A s \in Sessions : popped[s] # {} <=> Holds(drained, s)
  /\ \A s \in Sessions : Holds(drained, s) => buffer[s] = {}

(* The flush under way holds a whole buffer of one session with its ids,   *)
(* and after the commit the session's row is computed from just that.      *)
FlushIsBuffer ==
  /\ flush.evs \subseteq flush.ids
  /\ flush.ids \ flush.evs \subseteq evicted
  /\ flush.next # "none" =>
       /\ flush.evs # {}
       /\ buffer[flush.sid] = {} /\ popped[flush.sid] = {}
       /\ \A i \in flush.ids : IsEnvelope(i) /\ SidOf(i) = flush.sid
  /\ flush.next \in {"alert", "report", "ack"} =>
       /\ flush.evs \subseteq enriched
       /\ fp[flush.sid] = flush.evs
       /\ threat[flush.sid] = flush.score

Typed == TypeOK /\ OrderMatchesBuffers

(* The inductive invariant.                                                *)
Accounted ==
  /\ Typed
  /\ HeldOrForgotten
  /\ IdsMatchBuffers
  /\ DrainedOnce
  /\ FlushIsBuffer
  /\ AckedWereEnriched

--------------------------------------------------------------------------
(* Frames *)

(* What the worker holds or acknowledged are entries of the stream.        *)
LEMMA HeldArePositions ==
  ASSUME Typed, HeldOrForgotten
  PROVE  /\ pel \subseteq 1..cursor /\ acked \subseteq 1..cursor
         /\ 1..cursor \subseteq Positions
         /\ cursor \in Nat
         /\ \A s \in Sessions : pendingIds[s] \subseteq pel
         /\ flush.ids \subseteq pel /\ batch \subseteq pel
<1>1. /\ pel \subseteq 1..cursor /\ acked \subseteq 1..cursor
      /\ 1..cursor \subseteq Positions /\ cursor \in Nat
  BY DEF Typed, TypeOK, StreamTypeOK, Positions
<1>2. InMemory \subseteq pel
  BY DEF HeldOrForgotten
<1> QED BY <1>1, <1>2 DEF InMemory

(* A step of the listeners only appends to the stream, and touches nothing *)
(* of the worker's.                                                        *)
LEMMA ListenerAppends ==
  ASSUME Typed, ListenerNext
  PROVE  /\ \A i \in Positions : stream'[i] = stream[i]
         /\ UNCHANGED <<cursor, pel, acked, aggregatorVars, workerVars>>
<1>1. StreamTypeOK /\ UNCHANGED <<aggregatorVars, workerVars>>
  BY DEF Typed, TypeOK, ListenerNext, ListenerOnly
<1>2. ASSUME UNCHANGED streamVars
      PROVE  /\ \A i \in Positions : stream'[i] = stream[i]
             /\ UNCHANGED <<cursor, pel, acked>>
  BY <1>2 DEF streamVars
<1>3. ASSUME NEW c \in calls, Publish(c)
      PROVE  /\ \A i \in Positions : stream'[i] = stream[i]
             /\ UNCHANGED <<cursor, pel, acked>>
  <2>1. [sid |-> c.sid, ev |-> c.ev] \in Entry
    BY DEF Typed, TypeOK, ManagerTypeOK, Call, Entry, Envelope
  <2> QED BY <2>1, <1>1, <1>3, XAddKeeps DEF Publish
<1>4. ASSUME PublishUndecodable
      PROVE  /\ \A i \in Positions : stream'[i] = stream[i]
             /\ UNCHANGED <<cursor, pel, acked>>
  <2>1. BadEntry \in Entry
    BY DEF Entry
  <2> QED BY <2>1, <1>1, <1>4, XAddKeeps DEF PublishUndecodable
<1>5. \/ UNCHANGED streamVars
      \/ \E c \in calls : Publish(c)
      \/ PublishUndecodable
  BY DEF ListenerNext, CallOpen, CallRecord, CallClose, Commit,
         OpenOrCloseFails, RecordFails, OpenTimesOut, ListenerDies
<1> QED BY <1>1, <1>2, <1>3, <1>4, <1>5

LEMMA ListenerKeepsAccounted ==
  ASSUME Accounted, ListenerNext
  PROVE  Accounted'
<1>1. Typed'
  BY ListenerTypeStep DEF Accounted, Typed
<1>2. /\ \A i \in Positions : stream'[i] = stream[i]
      /\ UNCHANGED <<cursor, pel, acked, aggregatorVars, workerVars>>
  BY ListenerAppends DEF Accounted
<1>3. /\ acked \subseteq Positions /\ flush.ids \subseteq Positions
      /\ \A s \in Sessions : pendingIds[s] \subseteq Positions
  BY HeldArePositions DEF Accounted
<1>4. HeldOrForgotten'
  BY <1>2 DEF Accounted, HeldOrForgotten, InMemory, workerVars
<1>5. IdsMatchBuffers'
  BY <1>2, <1>3
  DEF Accounted, IdsMatchBuffers, IsEnvelope, SidOf, workerVars, aggregatorVars
<1>6. DrainedOnce'
  BY <1>2
  DEF Accounted, DrainedOnce, NoDuplicates, Holds, workerVars, aggregatorVars
<1>7. FlushIsBuffer'
  BY <1>2, <1>3
  DEF Accounted, FlushIsBuffer, IsEnvelope, SidOf, workerVars, aggregatorVars
<1>8. AckedWereEnriched'
  BY <1>2, <1>3
  DEF Accounted, AckedWereEnriched, IsEnvelope, workerVars, aggregatorVars
<1> QED BY <1>1, <1>4, <1>5, <1>6, <1>7, <1>8 DEF Accounted

LEMMA StutterKeepsAccounted ==
  ASSUME Accounted, UNCHANGED vars
  PROVE  Accounted'
<1>1. Typed'
  BY TypeStep DEF Accounted, Typed
<1> USE DEF vars, streamVars, workerVars, aggregatorVars
<1>2. HeldOrForgotten'
  BY DEF Accounted, HeldOrForgotten, InMemory
<1>3. IdsMatchBuffers'
  BY DEF Accounted, IdsMatchBuffers, IsEnvelope, SidOf
<1>4. DrainedOnce'
  BY DEF Accounted, DrainedOnce, NoDuplicates, Holds
<1>5. FlushIsBuffer'
  BY DEF Accounted, FlushIsBuffer, IsEnvelope, SidOf
<1>6. AckedWereEnriched'
  BY DEF Accounted, AckedWereEnriched, IsEnvelope
<1> QED BY <1>1, <1>2, <1>3, <1>4, <1>5, <1>6 DEF Accounted
--------------------------------------------------------------------------
(* The worker's actions, one lemma each *)

LEMMA ReadKeepsAccounted ==
  ASSUME Accounted, Read, Typed'
  PROVE  Accounted'
<1>1. /\ batch = {} /\ drained = <<>> /\ flush = NoFlush
      /\ UNCHANGED <<pendingIds, popped, drained, flush, fp, threat, enriched,
                     forgotten, order, buffer, evicted>>
  BY DEF Read, Idle, aggregatorVars
<1>2. PICK last \in Undelivered : /\ XReadGroup(last, ReadCount)
                                 /\ batch' = ReadUpTo(last)
  BY DEF Read
<1>3. /\ \A i \in batch' : i > cursor
      /\ pel' = pel \cup batch' /\ UNCHANGED <<stream, acked>>
  BY <1>2, XReadGroupDelivers DEF Accounted, Typed, TypeOK
<1>4. /\ pel \subseteq 1..cursor /\ cursor \in Nat
      /\ \A s \in Sessions : pendingIds[s] \subseteq pel
  BY HeldArePositions DEF Accounted
<1>5. batch' \cap pel = {}
  <2> SUFFICES ASSUME NEW j \in batch', j \in pel
               PROVE  FALSE
    OBVIOUS
  <2>1. j \in 1..cursor /\ j > cursor
    BY <1>3, <1>4
  <2> QED BY <2>1, <1>4
<1>6. HeldOrForgotten'
  BY <1>1, <1>3, <1>4, <1>5 DEF Accounted, HeldOrForgotten, InMemory, NoFlush
<1>7. IdsMatchBuffers'
  BY <1>1, <1>3 DEF Accounted, IdsMatchBuffers, IsEnvelope, SidOf
<1>8. DrainedOnce'
  BY <1>1 DEF Accounted, DrainedOnce, NoDuplicates, Holds
<1>9. FlushIsBuffer'
  BY <1>1 DEF Accounted, FlushIsBuffer, NoFlush
<1>10. AckedWereEnriched'
  BY <1>1, <1>3 DEF Accounted, AckedWereEnriched, IsEnvelope
<1> QED BY <1>6, <1>7, <1>8, <1>9, <1>10 DEF Accounted, Typed

(* A lost reply moves the cursor past entries nobody in the worker holds.  *)
LEMMA ReplyLostKeepsAccounted ==
  ASSUME Accounted, ReplyLost, Typed'
  PROVE  Accounted'
<1>1. UNCHANGED <<batch, pendingIds, popped, drained, flush, fp, threat,
                  enriched, order, buffer, evicted>>
  BY DEF ReplyLost, aggregatorVars
<1>2. PICK last \in Undelivered :
        /\ XReadGroup(last, ReadCount)
        /\ forgotten' = forgotten \cup ReadUpTo(last)
  BY DEF ReplyLost
<1>3. /\ \A i \in ReadUpTo(last) : i > cursor
      /\ pel' = pel \cup ReadUpTo(last) /\ UNCHANGED <<stream, acked>>
  BY <1>2, XReadGroupDelivers DEF Accounted, Typed, TypeOK
<1>4. /\ InMemory \subseteq pel /\ pel \subseteq 1..cursor /\ cursor \in Nat
  BY HeldArePositions DEF Accounted, HeldOrForgotten
<1>5. ReadUpTo(last) \cap InMemory = {}
  <2> SUFFICES ASSUME NEW j \in ReadUpTo(last), j \in InMemory
               PROVE  FALSE
    OBVIOUS
  <2>1. j \in 1..cursor /\ j > cursor
    BY <1>3, <1>4
  <2> QED BY <2>1, <1>4
<1>6. InMemory' = InMemory
  BY <1>1 DEF InMemory
<1>7. HeldOrForgotten'
  BY <1>1, <1>2, <1>3, <1>5, <1>6 DEF Accounted, HeldOrForgotten
<1>8. IdsMatchBuffers'
  BY <1>1, <1>3 DEF Accounted, IdsMatchBuffers, IsEnvelope, SidOf
<1>9. DrainedOnce'
  BY <1>1 DEF Accounted, DrainedOnce, NoDuplicates, Holds
<1>10. FlushIsBuffer'
  BY <1>1, <1>3 DEF Accounted, FlushIsBuffer, IsEnvelope, SidOf
<1>11. AckedWereEnriched'
  BY <1>1, <1>3 DEF Accounted, AckedWereEnriched, IsEnvelope
<1> QED BY <1>7, <1>8, <1>9, <1>10, <1>11 DEF Accounted, Typed

(* The eviction never drops the session whose event is being ingested.    *)
LEMMA VictimsAreSessions ==
  ASSUME Typed, NEW s
  PROVE  /\ Victims(s) \subseteq Sessions
         /\ s \in Sessions => s \notin Victims(s)
<1>1. CASE Victims(s) = {}
  BY <1>1
<1>2. CASE Victims(s) # {}
  <2>1. buffer[s] = {} /\ Len(order) >= MaxBuffers /\ Victims(s) = {Head(order)}
    BY <1>2 DEF Victims
  <2>2. /\ order \in Seq(Sessions) /\ Len(order) \in Nat
        /\ MaxBuffers \in Nat \ {0}
        /\ \A t \in Sessions : buffer[t] # {} <=> Holds(order, t)
    BY AggregatorAssumption
    DEF Typed, TypeOK, AggregatorTypeOK, OrderMatchesBuffers
  <2>3. 1 \in DOMAIN order /\ Head(order) = order[1] /\ order[1] \in Sessions
    BY <2>1, <2>2
  <2>4. Holds(order, Head(order))
    BY <2>3 DEF Holds
  <2> QED BY <2>1, <2>2, <2>3, <2>4
<1> QED BY <1>1, <1>2

(* What ingest() does to the buffers, seen session by session.             *)
LEMMA IngestBuffers ==
  ASSUME Typed, NEW s \in Sessions, NEW i, IngestEvent(s, i)
  PROVE  /\ \A t \in Sessions :
              \/ buffer'[t] = buffer[t] /\ t # s
              \/ buffer'[t] = {} /\ t # s /\ buffer[t] \subseteq evicted'
              \/ t = s /\ buffer'[t] = IF Ready(s, i) THEN {}
                                        ELSE buffer[t] \cup {i}
         /\ evicted \subseteq evicted'
<1>1. s \notin Victims(s)
  BY VictimsAreSessions
<1>2. /\ buffer' = [t \in Sessions |->
                      IF t \in Victims(s) THEN {}
                      ELSE IF t # s THEN buffer[t]
                      ELSE IF Ready(s, i) THEN {} ELSE buffer[s] \cup {i}]
      /\ evicted' = evicted \cup UNION {buffer[t] : t \in Victims(s)}
  BY DEF IngestEvent
<1> QED BY <1>1, <1>2

LEMMA IngestKeepsAccounted ==
  ASSUME Accounted, NEW i \in batch, Ingest(i), Typed'
  PROVE  Accounted'
<1> DEFINE s == SidOf(i)
           ids == pendingIds[s] \cup {i}
           evs == buffer[s] \cup {i}
<1>1. /\ flush = NoFlush /\ IsEnvelope(i) /\ batch' = batch \ {i}
      /\ IngestEvent(s, i)
      /\ UNCHANGED <<popped, drained, fp, threat, enriched, forgotten, stream,
                     pel, acked>>
  BY DEF Ingest, streamVars
<1>2. \/ /\ Ready(s, i) /\ flush' = NewFlush(s, ids, evs)
         /\ pendingIds' = [pendingIds EXCEPT ![s] = {}]
      \/ /\ ~Ready(s, i) /\ flush' = NoFlush
         /\ pendingIds' = [pendingIds EXCEPT ![s] = ids]
  BY <1>1 DEF Ingest
<1>3. s \in Sessions
  BY <1>1 DEF Accounted, Typed, TypeOK, WorkerTypeOK, StreamTypeOK, Entry,
              Envelope, Positions, IsEnvelope, SidOf
<1>4. pendingIds \in [Sessions -> SUBSET Nat] /\ buffer \in [Sessions -> SUBSET Nat]
  BY DEF Accounted, Typed, TypeOK, WorkerTypeOK, AggregatorTypeOK
<1>5. /\ \A t \in Sessions :
           \/ buffer'[t] = buffer[t] /\ t # s
           \/ buffer'[t] = {} /\ t # s /\ buffer[t] \subseteq evicted'
           \/ t = s /\ buffer'[t] = IF Ready(s, i) THEN {} ELSE buffer[t] \cup {i}
      /\ evicted \subseteq evicted'
  BY <1>1, <1>3, IngestBuffers DEF Accounted
<1>6. drained = <<>> /\ \A t \in Sessions : popped[t] = {}
  BY DEF Accounted, DrainedOnce, Holds
<1>7. HeldOrForgotten'
  <2>1. /\ pel = InMemory \cup forgotten /\ InMemory \cap forgotten = {}
        /\ \A t \in Sessions : i \notin pendingIds[t] /\ pendingIds[t] \cap batch = {}
    BY DEF Accounted, HeldOrForgotten
  <2>2. CASE Ready(s, i)
    <3>1. flush'.ids = ids /\ pendingIds' = [pendingIds EXCEPT ![s] = {}]
      BY <2>2, <1>2 DEF NewFlush
    <3>2. \A t \in Sessions : t # s => pendingIds[t] \cap pendingIds[s] = {}
      BY <1>3 DEF Accounted, IdsMatchBuffers
    <3>3. InMemory' = InMemory
      BY <3>1, <1>1, <1>3, <1>4 DEF InMemory, NoFlush
    <3>4. \A t \in Sessions : pendingIds'[t] \cap (batch' \cup flush'.ids) = {}
      BY <3>1, <3>2, <2>1, <1>1, <1>3, <1>4
    <3>5. batch' \cap flush'.ids = {}
      BY <3>1, <2>1, <1>1, <1>3
    <3> QED BY <3>3, <3>4, <3>5, <2>1, <1>1 DEF HeldOrForgotten
  <2>3. CASE ~Ready(s, i)
    <3>1. flush'.ids = {} /\ pendingIds' = [pendingIds EXCEPT ![s] = ids]
      BY <2>3, <1>2 DEF NoFlush
    <3>2. InMemory' = InMemory
      BY <3>1, <1>1, <1>3, <1>4 DEF InMemory, NoFlush
    <3>3. \A t \in Sessions : pendingIds'[t] \cap (batch' \cup flush'.ids) = {}
      BY <3>1, <2>1, <1>1, <1>3, <1>4
    <3> QED BY <3>1, <3>2, <3>3, <2>1, <1>1 DEF HeldOrForgotten
  <2> QED BY <2>2, <2>3
<1>8. \A t \in Sessions :
        /\ buffer[t] \subseteq pendingIds[t]
        /\ pendingIds[t] \ buffer[t] \subseteq evicted
        /\ \A j \in pendingIds[t] : IsEnvelope(j) /\ SidOf(j) = t
  BY <1>6 DEF Accounted, IdsMatchBuffers
<1>9. IdsMatchBuffers'
  <2> SUFFICES ASSUME NEW t \in Sessions
               PROVE  /\ buffer'[t] \subseteq pendingIds'[t]
                      /\ pendingIds'[t] \ buffer'[t] \subseteq evicted'
                      /\ \A j \in pendingIds'[t] : IsEnvelope(j) /\ SidOf(j) = t
    BY <1>1, <1>6 DEF IdsMatchBuffers, IsEnvelope, SidOf
  <2>1. CASE t # s
    <3>1. pendingIds'[t] = pendingIds[t]
      BY <2>1, <1>2, <1>4
    <3>2. \/ buffer'[t] = buffer[t]
          \/ buffer'[t] = {} /\ buffer[t] \subseteq evicted'
      BY <2>1, <1>5
    <3> QED BY <3>1, <3>2, <1>5, <1>8
  <2>2. CASE t = s
    <3>1. /\ pendingIds'[s] = IF Ready(s, i) THEN {} ELSE ids
          /\ buffer'[s] = IF Ready(s, i) THEN {} ELSE evs
      BY <1>2, <1>3, <1>4, <1>5
    <3>2. /\ evs \subseteq ids /\ ids \ evs \subseteq evicted'
          /\ \A j \in ids : IsEnvelope(j) /\ SidOf(j) = s
      BY <1>1, <1>3, <1>5, <1>8
    <3> HIDE DEF s, ids, evs
    <3> QED BY <3>1, <3>2, <2>2
  <2> QED BY <2>1, <2>2
<1>10. DrainedOnce'
  BY <1>1, <1>6 DEF Accounted, DrainedOnce, NoDuplicates, Holds
<1>11. FlushIsBuffer'
  <2>1. CASE Ready(s, i)
    <3>1. /\ flush'.sid = s /\ flush'.ids = ids /\ flush'.evs = evs
          /\ flush'.next = "persist"
      BY <2>1, <1>2 DEF NewFlush
    <3>2. buffer'[s] = {} /\ popped'[s] = {}
      BY <2>1, <1>1, <1>3, <1>5, <1>6
    <3>3. evs \subseteq ids /\ ids \ evs \subseteq evicted' /\ evs # {}
      BY <1>3, <1>5, <1>8
    <3>4. \A j \in ids : IsEnvelope(j)' /\ SidOf(j)' = s
      BY <1>1, <1>3, <1>8 DEF IsEnvelope, SidOf
    <3> HIDE DEF s, ids, evs
    <3> QED BY <3>1, <3>2, <3>3, <3>4 DEF FlushIsBuffer
  <2>2. CASE ~Ready(s, i)
    <3>1. flush' = NoFlush
      BY <2>2, <1>2
    <3> QED BY <3>1 DEF FlushIsBuffer, NoFlush
  <2> QED BY <2>1, <2>2
<1>12. AckedWereEnriched'
  BY <1>1, <1>5 DEF Accounted, AckedWereEnriched, IsEnvelope
<1> QED BY <1>7, <1>9, <1>10, <1>11, <1>12 DEF Accounted, Typed

(* Acknowledging, or losing the XACK, moves ids out of memory and nowhere  *)
(* else.                                                                   *)
LEMMA AckOrForgetMoves ==
  ASSUME NEW held, pel = held \cup forgotten, held \cap forgotten = {},
         NEW ids, ids \subseteq held, AckOrForget(ids)
  PROVE  /\ pel' = (held \ ids) \cup forgotten'
         /\ (held \ ids) \cap forgotten' = {}
         /\ acked' \subseteq acked \cup ids
         /\ stream' = stream
<1>1. CASE XAck(ids) /\ UNCHANGED <<forgotten, faults>>
  BY <1>1 DEF XAck
<1>2. CASE Fault /\ forgotten' = forgotten \cup ids /\ UNCHANGED streamVars
  BY <1>2 DEF streamVars
<1> QED BY <1>1, <1>2 DEF AckOrForget

LEMMA DropBadKeepsAccounted ==
  ASSUME Accounted, NEW i \in batch, DropBad(i), Typed'
  PROVE  Accounted'
<1>1. /\ ~IsEnvelope(i) /\ batch' = batch \ {i} /\ AckOrForget({i})
      /\ UNCHANGED <<pendingIds, popped, drained, flush, fp, threat, enriched,
                     order, buffer, evicted>>
  BY DEF DropBad, aggregatorVars
<1>2. /\ pel = InMemory \cup forgotten /\ InMemory \cap forgotten = {}
      /\ i \in InMemory
      /\ i \notin flush.ids /\ \A s \in Sessions : i \notin pendingIds[s]
  BY DEF Accounted, HeldOrForgotten, InMemory
<1>3. /\ pel' = (InMemory \ {i}) \cup forgotten'
      /\ (InMemory \ {i}) \cap forgotten' = {}
      /\ acked' \subseteq acked \cup {i}
      /\ stream' = stream
  <2>1. {i} \subseteq InMemory
    BY <1>2
  <2> QED BY <2>1, <1>1, <1>2, AckOrForgetMoves
<1>4. InMemory' = InMemory \ {i}
  BY <1>1, <1>2 DEF InMemory
<1>5. HeldOrForgotten'
  BY <1>1, <1>3, <1>4 DEF Accounted, HeldOrForgotten
<1>6. IdsMatchBuffers'
  BY <1>1, <1>3 DEF Accounted, IdsMatchBuffers, IsEnvelope, SidOf
<1>7. DrainedOnce'
  BY <1>1 DEF Accounted, DrainedOnce, NoDuplicates, Holds
<1>8. FlushIsBuffer'
  BY <1>1, <1>3 DEF Accounted, FlushIsBuffer, IsEnvelope, SidOf
<1>9. AckedWereEnriched'
  BY <1>1, <1>3 DEF Accounted, AckedWereEnriched, IsEnvelope
<1> QED BY <1>5, <1>6, <1>7, <1>8, <1>9 DEF Accounted, Typed

LEMMA DrainIdleKeepsAccounted ==
  ASSUME Accounted, NEW n \in 1..Len(order), DrainIdle(n), Typed'
  PROVE  Accounted'
<1>1. /\ batch = {} /\ drained = <<>> /\ flush = NoFlush
      /\ drained' = SubSeq(order, 1, n)
      /\ popped' = [s \in Sessions |-> IF s \in Oldest(n) THEN buffer[s] ELSE {}]
      /\ buffer' = [s \in Sessions |-> IF s \in Oldest(n) THEN {} ELSE buffer[s]]
      /\ UNCHANGED <<batch, pendingIds, flush, fp, threat, enriched, forgotten,
                     stream, pel, acked, evicted>>
  BY DEF DrainIdle, Idle, PopOldest, streamVars
<1>2. \A s \in Sessions : popped[s] = {}
  BY <1>1 DEF Accounted, DrainedOnce, Holds
<1>3. \A s \in Sessions : buffer'[s] \cup popped'[s] = buffer[s] \cup popped[s]
  BY <1>1, <1>2
<1>4. /\ order \in Seq(Sessions) /\ Len(order) \in Nat /\ NoDuplicates(order)
      /\ \A s \in Sessions : buffer[s] # {} <=> Holds(order, s)
  BY DEF Accounted, Typed, TypeOK, AggregatorTypeOK, OrderMatchesBuffers
<1>5. /\ DOMAIN drained' = 1..n /\ DOMAIN order = 1..Len(order)
      /\ \A k \in 1..n : drained'[k] = order[k] /\ k \in 1..Len(order)
  BY <1>1, <1>4
<1>6. \A s \in Sessions : Holds(drained', s) <=> s \in Oldest(n)
  BY <1>5 DEF Holds, Oldest
<1>7. \A s \in Oldest(n) : s \in Sessions /\ Holds(order, s)
  BY <1>4, <1>5 DEF Holds, Oldest
<1>8. HeldOrForgotten'
  BY <1>1 DEF Accounted, HeldOrForgotten, InMemory
<1>9. IdsMatchBuffers'
  BY <1>1, <1>3 DEF Accounted, IdsMatchBuffers, IsEnvelope, SidOf
<1>10. DrainedOnce'
  <2>1. NoDuplicates(drained)'
    BY <1>4, <1>5 DEF NoDuplicates
  <2>2. \A s \in Sessions : popped'[s] # {} <=> Holds(drained', s)
    BY <1>1, <1>4, <1>6, <1>7
  <2>3. \A s \in Sessions : Holds(drained', s) => buffer'[s] = {}
    BY <1>1, <1>6
  <2> QED BY <2>1, <2>2, <2>3, <1>1 DEF DrainedOnce, Holds
<1>11. FlushIsBuffer'
  BY <1>1 DEF FlushIsBuffer, NoFlush
<1>12. AckedWereEnriched'
  BY <1>1 DEF Accounted, AckedWereEnriched, IsEnvelope
<1> QED BY <1>8, <1>9, <1>10, <1>11, <1>12 DEF Accounted, Typed

LEMMA FlushDrainedKeepsAccounted ==
  ASSUME Accounted, FlushDrained, Typed'
  PROVE  Accounted'
<1> DEFINE s == Head(drained)
<1>1. /\ flush = NoFlush /\ drained # <<>> /\ drained' = Tail(drained)
      /\ flush' = NewFlush(s, pendingIds[s], popped[s])
      /\ pendingIds' = [pendingIds EXCEPT ![s] = {}]
      /\ popped' = [popped EXCEPT ![s] = {}]
      /\ UNCHANGED <<batch, fp, threat, enriched, forgotten, stream, pel, acked,
                     order, buffer, evicted>>
  BY DEF FlushDrained, streamVars, aggregatorVars
<1>2. /\ drained \in Seq(Sessions) /\ NoDuplicates(drained) /\ batch = {}
      /\ \A t \in Sessions : popped[t] # {} <=> Holds(drained, t)
      /\ \A t \in Sessions : Holds(drained, t) => buffer[t] = {}
      /\ pendingIds \in [Sessions -> SUBSET Nat]
      /\ popped \in [Sessions -> SUBSET Nat]
  BY <1>1 DEF Accounted, Typed, TypeOK, WorkerTypeOK, DrainedOnce
<1>3. s \in Sessions /\ Holds(drained, s)
  <2>1. 1 \in DOMAIN drained /\ s = drained[1]
    BY <1>1, <1>2
  <2> QED BY <2>1, <1>2 DEF Holds
<1>4. /\ NoDuplicates(Tail(drained))
      /\ \A t \in Sessions : Holds(Tail(drained), t) <=> Holds(drained, t) /\ t # s
  BY <1>1, <1>2, TailKeys
<1>5. /\ flush'.sid = s /\ flush'.ids = pendingIds[s] /\ flush'.evs = popped[s]
      /\ flush'.next = "persist" /\ flush.ids = {}
  BY <1>1 DEF NewFlush, NoFlush
<1>6. buffer[s] = {} /\ popped[s] # {}
  BY <1>2, <1>3
<1>7. /\ popped[s] \subseteq pendingIds[s]
      /\ pendingIds[s] \ popped[s] \subseteq evicted
      /\ \A i \in pendingIds[s] : IsEnvelope(i) /\ SidOf(i) = s
  BY <1>3, <1>6 DEF Accounted, IdsMatchBuffers
<1> HIDE DEF s
<1>8. HeldOrForgotten'
  <2>1. InMemory' = InMemory
    BY <1>1, <1>2, <1>3, <1>5 DEF InMemory
  <2>2. \A t \in Sessions : t # s => pendingIds[t] \cap pendingIds[s] = {}
    BY <1>3 DEF Accounted, IdsMatchBuffers
  <2>3. \A t \in Sessions : pendingIds'[t] \cap (batch' \cup flush'.ids) = {}
    BY <2>2, <1>1, <1>2, <1>3, <1>5
  <2> QED BY <2>1, <2>3, <1>1, <1>2 DEF Accounted, HeldOrForgotten
<1>9. IdsMatchBuffers'
  <2> SUFFICES ASSUME NEW t \in Sessions
               PROVE  /\ buffer[t] \cup popped'[t] \subseteq pendingIds'[t]
                      /\ pendingIds'[t] \ (buffer[t] \cup popped'[t]) \subseteq evicted
                      /\ \A i \in pendingIds'[t] : IsEnvelope(i) /\ SidOf(i) = t
    BY <1>1 DEF IdsMatchBuffers, IsEnvelope, SidOf
  <2>1. CASE t = s
    BY <2>1, <1>1, <1>2, <1>3, <1>6
  <2>2. CASE t # s
    <3>1. popped'[t] = popped[t] /\ pendingIds'[t] = pendingIds[t]
      BY <2>2, <1>1, <1>2
    <3> QED BY <3>1 DEF Accounted, IdsMatchBuffers
  <2> QED BY <2>1, <2>2
<1>10. DrainedOnce'
  BY <1>1, <1>2, <1>3, <1>4 DEF DrainedOnce, NoDuplicates, Holds
<1>11. FlushIsBuffer'
  BY <1>1, <1>2, <1>3, <1>5, <1>6, <1>7 DEF FlushIsBuffer, IsEnvelope, SidOf
<1>12. AckedWereEnriched'
  BY <1>1 DEF Accounted, AckedWereEnriched, IsEnvelope
<1> QED BY <1>8, <1>9, <1>10, <1>11, <1>12 DEF Accounted, Typed

LEMMA PersistKeepsAccounted ==
  ASSUME Accounted, Persist, Typed'
  PROVE  Accounted'
<1>1. /\ flush.next = "persist"
      /\ fp' = [fp EXCEPT ![flush.sid] = flush.evs]
      /\ enriched' = enriched \cup flush.evs
      /\ UNCHANGED <<batch, pendingIds, popped, drained, forgotten, stream, pel,
                     acked, order, buffer, evicted>>
  BY DEF Persist, At, streamVars, aggregatorVars
<1>2. PICK score \in Score :
        /\ threat' = [threat EXCEPT ![flush.sid] = score]
        /\ flush' = [flush EXCEPT !.next = "alert", !.score = score]
  BY PersistScores
<1>3. /\ flush \in Flush /\ fp \in [Sessions -> SUBSET Nat]
      /\ threat \in [Sessions -> Score]
  BY <1>1, FlushType DEF Accounted, Typed, TypeOK, WorkerTypeOK
<1>4. /\ flush'.sid = flush.sid /\ flush'.ids = flush.ids
      /\ flush'.evs = flush.evs /\ flush'.next = "alert" /\ flush'.score = score
      /\ flush.sid \in Sessions
  BY <1>2, <1>3 DEF Flush
<1>5. fp'[flush.sid] = flush.evs /\ threat'[flush.sid] = score
  BY <1>1, <1>2, <1>3, <1>4
<1>6. HeldOrForgotten'
  BY <1>1, <1>4 DEF Accounted, HeldOrForgotten, InMemory
<1>7. IdsMatchBuffers'
  BY <1>1 DEF Accounted, IdsMatchBuffers, IsEnvelope, SidOf
<1>8. DrainedOnce'
  BY <1>1 DEF Accounted, DrainedOnce, NoDuplicates, Holds
<1>9. FlushIsBuffer'
  BY <1>1, <1>4, <1>5 DEF Accounted, FlushIsBuffer, IsEnvelope, SidOf
<1>10. AckedWereEnriched'
  BY <1>1 DEF Accounted, AckedWereEnriched, IsEnvelope
<1> QED BY <1>6, <1>7, <1>8, <1>9, <1>10 DEF Accounted, Typed

LEMMA PersistFailsKeepsAccounted ==
  ASSUME Accounted, PersistFails, Typed'
  PROVE  Accounted'
<1>1. /\ flush' = NoFlush /\ forgotten' = forgotten \cup flush.ids
      /\ UNCHANGED <<batch, pendingIds, popped, drained, fp, threat, enriched,
                     stream, pel, acked, order, buffer, evicted>>
  BY DEF PersistFails, streamVars, aggregatorVars
<1>2. InMemory' = InMemory \ flush.ids
  BY <1>1 DEF Accounted, HeldOrForgotten, InMemory, NoFlush
<1>3. flush.ids \subseteq InMemory
  BY DEF InMemory
<1>4. HeldOrForgotten'
  BY <1>1, <1>2, <1>3 DEF Accounted, HeldOrForgotten, NoFlush
<1>5. IdsMatchBuffers'
  BY <1>1 DEF Accounted, IdsMatchBuffers, IsEnvelope, SidOf
<1>6. DrainedOnce'
  BY <1>1 DEF Accounted, DrainedOnce, NoDuplicates, Holds
<1>7. FlushIsBuffer'
  BY <1>1 DEF FlushIsBuffer, NoFlush
<1>8. AckedWereEnriched'
  BY <1>1 DEF Accounted, AckedWereEnriched, IsEnvelope
<1> QED BY <1>4, <1>5, <1>6, <1>7, <1>8 DEF Accounted, Typed

(* The two notices leave everything but the flush's next step alone.       *)
LEMMA NoticeKeepsAccounted ==
  ASSUME Accounted, PublishAlert \/ PublishReport, Typed'
  PROVE  Accounted'
<1>1. UNCHANGED <<batch, pendingIds, popped, drained, fp, threat, enriched,
                  forgotten, stream, pel, acked, order, buffer, evicted>>
  BY DEF PublishAlert, PublishReport, streamVars, aggregatorVars
<1>2. /\ flush.next \in {"alert", "report"}
      /\ \/ flush' = [flush EXCEPT !.next = "report"]
         \/ flush' = [flush EXCEPT !.next = "ack"]
  BY DEF PublishAlert, PublishReport, At
<1>3. flush \in Flush
  BY <1>2, FlushType DEF Accounted, Typed, TypeOK
<1>4. /\ flush'.sid = flush.sid /\ flush'.ids = flush.ids
      /\ flush'.evs = flush.evs /\ flush'.score = flush.score
  BY <1>2, <1>3 DEF Flush
<1>5. HeldOrForgotten'
  BY <1>1, <1>4 DEF Accounted, HeldOrForgotten, InMemory
<1>6. IdsMatchBuffers'
  BY <1>1 DEF Accounted, IdsMatchBuffers, IsEnvelope, SidOf
<1>7. DrainedOnce'
  BY <1>1 DEF Accounted, DrainedOnce, NoDuplicates, Holds
<1>8. FlushIsBuffer'
  BY <1>1, <1>2, <1>4 DEF Accounted, FlushIsBuffer, IsEnvelope, SidOf
<1>9. AckedWereEnriched'
  BY <1>1 DEF Accounted, AckedWereEnriched, IsEnvelope
<1> QED BY <1>5, <1>6, <1>7, <1>8, <1>9 DEF Accounted, Typed

LEMMA AckFlushKeepsAccounted ==
  ASSUME Accounted, AckFlush, Typed'
  PROVE  Accounted'
<1>1. /\ flush.next = "ack" /\ AckOrForget(flush.ids) /\ flush' = NoFlush
      /\ UNCHANGED <<batch, pendingIds, popped, drained, fp, threat, enriched,
                     order, buffer, evicted>>
  BY DEF AckFlush, At, aggregatorVars
<1>2. /\ pel = InMemory \cup forgotten /\ InMemory \cap forgotten = {}
      /\ flush.ids \subseteq InMemory
  BY DEF Accounted, HeldOrForgotten, InMemory
<1>3. /\ pel' = (InMemory \ flush.ids) \cup forgotten'
      /\ (InMemory \ flush.ids) \cap forgotten' = {}
      /\ acked' \subseteq acked \cup flush.ids
      /\ stream' = stream
  BY <1>1, <1>2, AckOrForgetMoves
<1>4. InMemory' = InMemory \ flush.ids
  BY <1>1 DEF Accounted, HeldOrForgotten, InMemory, NoFlush
<1>5. \A i \in flush.ids : i \in enriched \/ i \in evicted
  BY <1>1 DEF Accounted, FlushIsBuffer
<1>6. HeldOrForgotten'
  BY <1>1, <1>3, <1>4 DEF Accounted, HeldOrForgotten, NoFlush
<1>7. IdsMatchBuffers'
  BY <1>1, <1>3 DEF Accounted, IdsMatchBuffers, IsEnvelope, SidOf
<1>8. DrainedOnce'
  BY <1>1 DEF Accounted, DrainedOnce, NoDuplicates, Holds
<1>9. FlushIsBuffer'
  BY <1>1 DEF FlushIsBuffer, NoFlush
<1>10. AckedWereEnriched'
  BY <1>1, <1>3, <1>5 DEF Accounted, AckedWereEnriched, IsEnvelope
<1> QED BY <1>6, <1>7, <1>8, <1>9, <1>10 DEF Accounted, Typed

LEMMA CrashKeepsAccounted ==
  ASSUME Accounted, Crash, Typed'
  PROVE  Accounted'
<1>1. /\ batch' = {} /\ pendingIds' = NoBuffers /\ popped' = NoBuffers
      /\ drained' = <<>> /\ flush' = NoFlush /\ buffer' = NoBuffers
      /\ forgotten' = forgotten \cup InMemory
      /\ UNCHANGED <<fp, threat, enriched, evicted, stream, pel, acked>>
  BY DEF Crash, streamVars
<1>2. InMemory' = {}
  BY <1>1 DEF InMemory, NoFlush, NoBuffers
<1>3. HeldOrForgotten'
  BY <1>1, <1>2 DEF Accounted, HeldOrForgotten, NoFlush, NoBuffers
<1>4. IdsMatchBuffers'
  BY <1>1 DEF IdsMatchBuffers, NoBuffers
<1>5. DrainedOnce'
  BY <1>1 DEF DrainedOnce, NoDuplicates, Holds, NoBuffers
<1>6. FlushIsBuffer'
  BY <1>1 DEF FlushIsBuffer, NoFlush
<1>7. AckedWereEnriched'
  BY <1>1 DEF Accounted, AckedWereEnriched, IsEnvelope
<1> QED BY <1>3, <1>4, <1>5, <1>6, <1>7 DEF Accounted, Typed

LEMMA RestartKeepsAccounted ==
  ASSUME Accounted, Restart, Typed'
  PROVE  Accounted'
<1> USE DEF Restart, streamVars, aggregatorVars
<1>1. HeldOrForgotten'
  BY DEF Accounted, HeldOrForgotten, InMemory
<1>2. IdsMatchBuffers'
  BY DEF Accounted, IdsMatchBuffers, IsEnvelope, SidOf
<1>3. DrainedOnce'
  BY DEF Accounted, DrainedOnce, NoDuplicates, Holds
<1>4. FlushIsBuffer'
  BY DEF Accounted, FlushIsBuffer, IsEnvelope, SidOf
<1>5. AckedWereEnriched'
  BY DEF Accounted, AckedWereEnriched, IsEnvelope
<1> QED BY <1>1, <1>2, <1>3, <1>4, <1>5 DEF Accounted, Typed

--------------------------------------------------------------------------
(* The theorems *)

LEMMA AccountedInit == Init => Accounted
<1> SUFFICES ASSUME Init PROVE Accounted
  OBVIOUS
<1> USE DEF Init, StreamInit, WorkerInit, AggregatorInit
<1>1. Typed
  BY TypeInit DEF Typed
<1>2. HeldOrForgotten
  BY DEF HeldOrForgotten, InMemory, NoFlush, NoBuffers
<1>3. IdsMatchBuffers
  BY DEF IdsMatchBuffers, NoBuffers
<1>4. DrainedOnce
  BY DEF DrainedOnce, NoDuplicates, Holds, NoBuffers
<1>5. FlushIsBuffer
  BY DEF FlushIsBuffer, NoFlush
<1>6. AckedWereEnriched
  BY DEF AckedWereEnriched
<1> QED BY <1>1, <1>2, <1>3, <1>4, <1>5, <1>6 DEF Accounted

LEMMA AccountedStep == Accounted /\ [Next]_vars => Accounted'
<1> SUFFICES ASSUME Accounted, [Next]_vars PROVE Accounted'
  OBVIOUS
<1>1. Typed'
  BY TypeStep DEF Accounted, Typed
<1>2. CASE UNCHANGED vars
  BY <1>2, StutterKeepsAccounted
<1>3. CASE ListenerNext
  BY <1>3, ListenerKeepsAccounted
<1>4. CASE WorkerNext
  BY <1>1, <1>4, ReadKeepsAccounted, ReplyLostKeepsAccounted,
     IngestKeepsAccounted,
     DropBadKeepsAccounted, DrainIdleKeepsAccounted,
     FlushDrainedKeepsAccounted, PersistKeepsAccounted,
     PersistFailsKeepsAccounted, NoticeKeepsAccounted,
     AckFlushKeepsAccounted, CrashKeepsAccounted, RestartKeepsAccounted
  DEF WorkerNext
<1> QED BY <1>2, <1>3, <1>4, NextSplits

(* The worker's bookkeeping always adds up (fingerprint.py: _pending_ids    *)
(* and _flush; aggregator.py: _buffers).                                   *)
THEOREM AlwaysAccounted == Spec => []Accounted
BY AccountedInit, AccountedStep, PTL DEF Spec

(* Only a step that counts a fault adds to what the worker forgot.         *)
LEMMA OnlyFaultsForget ==
  ASSUME Typed, ForgottenByFaults, [Next]_vars
  PROVE  ForgottenByFaults'
<1>1. faults \in Nat /\ (Fault => faults' # 0)
  BY MaxFaultsAssumption DEF Typed, TypeOK, FaultsTypeOK, Fault
<1>2. ASSUME UNCHANGED forgotten, UNCHANGED faults \/ Fault
      PROVE  ForgottenByFaults'
  BY <1>1, <1>2 DEF ForgottenByFaults
<1>3. CASE UNCHANGED vars
  BY <1>2, <1>3 DEF vars, workerVars
<1>4. CASE ListenerNext
  <2>1. UNCHANGED forgotten
    BY <1>4 DEF ListenerNext, ListenerOnly, workerVars
  <2>2. UNCHANGED faults \/ Fault
    BY <1>4 DEF ListenerNext, CallOpen, CallRecord, CallClose, Commit, Publish,
                OpenOrCloseFails, RecordFails, OpenTimesOut, ListenerDies,
                PublishUndecodable
  <2> QED BY <2>1, <2>2, <1>2
<1>5. CASE ReplyLost \/ PersistFails \/ Crash
  BY <1>1, <1>5 DEF ForgottenByFaults, ReplyLost, PersistFails, Crash
<1>6. CASE AckFlush \/ \E i \in batch : DropBad(i)
  <2>1. UNCHANGED <<forgotten, faults>> \/ Fault
    BY <1>6 DEF AckFlush, DropBad, AckOrForget
  <2> QED BY <2>1, <1>1 DEF ForgottenByFaults
<1>7. CASE \/ Read \/ FlushDrained \/ Persist \/ PublishAlert \/ PublishReport
           \/ Restart \/ \E i \in batch : Ingest(i)
           \/ \E n \in 1..Len(order) : DrainIdle(n)
  BY <1>2, <1>7 DEF Read, FlushDrained, Persist, PublishAlert, PublishReport,
                    Restart, Ingest, DrainIdle
<1> QED BY <1>3, <1>4, <1>5, <1>6, <1>7, NextSplits DEF WorkerNext

(* An entry is acknowledged only after a commit computed from it, unless   *)
(* it does not decode or the aggregator evicted it (fingerprint.py:        *)
(* _flush, _ack): no failed persist and no crash leads to an XACK.         *)
THEOREM AckedCorrect == Spec => []AckedWereEnriched
BY AlwaysAccounted, PTL DEF Accounted

(* Every pending entry is in exactly one place of the worker's memory or   *)
(* among those a fault kept from it or made it forget, a reply lost with   *)
(* its connection included (fingerprint.py: run, _pending_ids).            *)
THEOREM PendingCorrect == Spec => []PendingAccounted
<1>1. Init => ForgottenByFaults
  BY DEF Init, WorkerInit, ForgottenByFaults
<1>2. Accounted /\ ForgottenByFaults /\ [Next]_vars => ForgottenByFaults'
  BY OnlyFaultsForget DEF Accounted
<1>3. Accounted /\ ForgottenByFaults => PendingAccounted
  BY DEF Accounted, PendingAccounted
<1> QED BY <1>1, <1>2, <1>3, AlwaysAccounted, PTL DEF Spec

(* The ids the worker holds for a session are the events the aggregator    *)
(* holds for it, those drained, and those evicted.                         *)
THEOREM IdsCorrect == Spec => []IdsMatchBuffers
BY AlwaysAccounted, PTL DEF Accounted

(* An alert or a report job goes out only for the row and the score that   *)
(* the database has for the session (fingerprint.py: the two publishes     *)
(* that follow the commit of _enrich_and_persist).                         *)
THEOREM NoticesCorrect == Spec => NoticesBackedByRow
<1>1. Accounted /\ [Next]_vars =>
        [\A s \in Sessions :
           /\ alerts'[s] # alerts[s] => Justified(s, AlertThreshold)
           /\ reports'[s] # reports[s] => Justified(s, ReportThreshold)]_vars
  <2> SUFFICES ASSUME Accounted, [Next]_vars, NEW s \in Sessions
               PROVE  /\ alerts'[s] # alerts[s] => Justified(s, AlertThreshold)
                      /\ reports'[s] # reports[s] => Justified(s, ReportThreshold)
    OBVIOUS
  <2>1. CASE PublishAlert
    <3>1. /\ flush.next = "alert" /\ UNCHANGED reports
          /\ alerts'[s] # alerts[s] => flush.sid = s /\ Alarming
      BY <2>1 DEF PublishAlert, At, Accounted, Typed, TypeOK, WorkerTypeOK
    <3> QED BY <3>1
        DEF Justified, Alarming, Accounted, FlushIsBuffer, NoRow
  <2>2. CASE PublishReport
    <3>1. /\ flush.next = "report" /\ UNCHANGED alerts
          /\ reports'[s] # reports[s] => flush.sid = s /\ Reportable
      BY <2>2 DEF PublishReport, At, Accounted, Typed, TypeOK, WorkerTypeOK
    <3> QED BY <3>1
        DEF Justified, Reportable, Accounted, FlushIsBuffer, NoRow
  <2>3. CASE ~PublishAlert /\ ~PublishReport
    <3>1. UNCHANGED <<alerts, reports>>
      BY <2>3, NextSplits
      DEF ListenerNext, ListenerOnly, WorkerNext, workerVars, vars, Read, ReplyLost,
          Ingest,
          DropBad, DrainIdle, FlushDrained, Persist, PersistFails, AckFlush,
          Crash, Restart
    <3> QED BY <3>1
  <2> QED BY <2>1, <2>2, <2>3
<1> QED BY <1>1, AlwaysAccounted, PTL DEF Spec, NoticesBackedByRow

--------------------------------------------------------------------------
(* The stream is backed by rows                                           *)

(* The rows a call has committed when it comes to its XADD.                *)
Committed(c) ==
  /\ row[c.sid] # "none"
  /\ c.ev \in Evidence => c.ev \in eventRows[c.sid]
  /\ c.ev = CloseEv => row[c.sid] = "CLOSED"

(* An open() is the only call of its session until it returns, and the     *)
(* session has no row before it commits; every other call comes after.     *)
CallsInOrder ==
  /\ \A s \in Sessions : listener[s] = "new" => row[s] = "none" /\ ~Busy(s)
  /\ \A s \in Sessions : listener[s] = "open" => row[s] # "none"
  /\ \A c \in calls : c.ev = OpenEv =>
       /\ listener[c.sid] \in {"opening", "ended"}
       /\ \A d \in calls : d.sid = c.sid => d = c
       /\ c.next = "commit" => row[c.sid] = "none"
  /\ \A c \in calls : c.ev # OpenEv => row[c.sid] # "none"
  /\ \A c \in calls : c.next = "publish" => Committed(c)

(* The inductive invariant.                                                *)
Backed == Typed /\ CallsInOrder /\ StreamBackedByRows

LEMMA EventNumbers ==
  /\ OpenEv \notin Evidence /\ CloseEv \notin Evidence /\ CloseEv # OpenEv
  /\ \A ev \in EventNo : ev = OpenEv \/ ev = CloseEv \/ ev \in Evidence
BY MaxEventsAssumption DEF OpenEv, CloseEv, Evidence, EventNo

(* The calls and tables have their types.                                  *)
LEMMA ManagerTypes ==
  ASSUME Typed
  PROVE  /\ listener \in [Sessions -> ListenerState]
         /\ row \in [Sessions -> {"none", "OPEN", "CLOSED"}]
         /\ eventRows \in [Sessions -> SUBSET Evidence]
         /\ \A c \in calls : /\ c \in Call
                             /\ c.sid \in Sessions /\ c.ev \in EventNo
                             /\ c.next \in {"commit", "publish"}
BY DEF Typed, TypeOK, ManagerTypeOK, Call

(* Rows stay; nothing new on the stream.                                   *)
LEMMA RowsStayBacked ==
  ASSUME StreamBackedByRows, UNCHANGED <<stream, row, eventRows>>
  PROVE  StreamBackedByRows'
BY DEF StreamBackedByRows, Positions, IsEnvelope, SidOf, EvOf

(* One more call, not yet committed.                                       *)
LEMMA NewCallFields ==
  ASSUME NEW s, NEW ev
  PROVE  /\ NewCall(s, ev).sid = s /\ NewCall(s, ev).ev = ev
         /\ NewCall(s, ev).next = "commit"
BY DEF NewCall

LEMMA OpenKeepsOrder ==
  ASSUME Backed, NEW s \in Sessions, CallOpen(s)
  PROVE  CallsInOrder'
<1>1. /\ listener[s] = "new" /\ listener' = [listener EXCEPT ![s] = "opening"]
      /\ calls' = calls \cup {NewCall(s, OpenEv)}
      /\ UNCHANGED <<row, eventRows>>
  BY DEF CallOpen
<1>2. row[s] = "none" /\ \A c \in calls : c.sid # s
  BY <1>1 DEF Backed, CallsInOrder, Busy
<1> QED BY <1>1, <1>2, ManagerTypes, NewCallFields
    DEF Backed, CallsInOrder, Committed, Busy

LEMMA RecordKeepsOrder ==
  ASSUME Backed, NEW s \in Sessions, NEW ev \in Evidence, CallRecord(s, ev)
  PROVE  CallsInOrder'
<1>1. /\ listener[s] = "open" /\ calls' = calls \cup {NewCall(s, ev)}
      /\ UNCHANGED <<listener, row, eventRows>>
  BY DEF CallRecord
<1>2. row[s] # "none" /\ \A c \in calls : c.sid = s => c.ev # OpenEv
  BY <1>1 DEF Backed, CallsInOrder
<1> QED BY <1>1, <1>2, ManagerTypes, NewCallFields, EventNumbers
    DEF Backed, CallsInOrder, Committed, Busy

LEMMA CloseKeepsOrder ==
  ASSUME Backed, NEW s \in Sessions, CallClose(s)
  PROVE  CallsInOrder'
<1>1. /\ listener[s] = "open" /\ calls' = calls \cup {NewCall(s, CloseEv)}
      /\ listener' = [listener EXCEPT ![s] = "closing"]
      /\ UNCHANGED <<row, eventRows>>
  BY DEF CallClose
<1>2. row[s] # "none" /\ \A c \in calls : c.sid = s => c.ev # OpenEv
  BY <1>1 DEF Backed, CallsInOrder
<1> QED BY <1>1, <1>2, ManagerTypes, NewCallFields, EventNumbers
    DEF Backed, CallsInOrder, Committed, Busy

(* The commit of an open() finds no call and no entry of its session; the  *)
(* others only add to the rows.                                            *)
LEMMA CommitKeepsBacked ==
  ASSUME Backed, NEW c \in calls, Commit(c)
  PROVE  CallsInOrder' /\ StreamBackedByRows'
<1> DEFINE done == [c EXCEPT !.next = "publish"]
<1>1. /\ c.next = "commit" /\ calls' = (calls \ {c}) \cup {done}
      /\ UNCHANGED <<listener, stream>>
  BY DEF Commit, streamVars
<1>2. /\ c.sid \in Sessions /\ c.ev \in EventNo
      /\ done.sid = c.sid /\ done.ev = c.ev /\ done.next = "publish"
  BY ManagerTypes DEF Backed, Call
<1>3. /\ \A t \in Sessions : t # c.sid => row'[t] = row[t]
      /\ row'[c.sid] = IF c.ev = OpenEv THEN "OPEN"
                       ELSE IF c.ev = CloseEv THEN "CLOSED" ELSE row[c.sid]
      /\ \A t \in Sessions : eventRows[t] \subseteq eventRows'[t]
      /\ c.ev \in Evidence => c.ev \in eventRows'[c.sid]
  <2>1. /\ row' = [row EXCEPT ![c.sid] = CASE c.ev = OpenEv -> "OPEN"
                                           [] c.ev = CloseEv -> "CLOSED"
                                           [] OTHER -> @]
        /\ eventRows' = [eventRows EXCEPT ![c.sid] =
                           IF c.ev \in Evidence THEN @ \cup {c.ev} ELSE @]
    BY DEF Commit
  <2>2. /\ row \in [Sessions -> {"none", "OPEN", "CLOSED"}]
        /\ eventRows \in [Sessions -> SUBSET Evidence]
    BY ManagerTypes DEF Backed
  <2>3. \A t \in Sessions : t # c.sid => row'[t] = row[t]
    BY <2>1, <2>2, <1>2
  <2>4. row'[c.sid] = IF c.ev = OpenEv THEN "OPEN"
                      ELSE IF c.ev = CloseEv THEN "CLOSED" ELSE row[c.sid]
    BY <2>1, <2>2, <1>2, EventNumbers
  <2>5. /\ \A t \in Sessions : eventRows[t] \subseteq eventRows'[t]
        /\ c.ev \in Evidence => c.ev \in eventRows'[c.sid]
    BY <2>1, <2>2, <1>2
  <2> QED BY <2>3, <2>4, <2>5
<1> HIDE DEF done
<1>4. CASE c.ev = OpenEv
  <2>1. /\ row[c.sid] = "none" /\ \A d \in calls : d.sid = c.sid => d = c
        /\ listener[c.sid] \in {"opening", "ended"}
    BY <1>1, <1>4 DEF Backed, CallsInOrder
  <2>2. CallsInOrder'
    BY <2>1, <1>1, <1>2, <1>3, <1>4, ManagerTypes, EventNumbers
    DEF Backed, CallsInOrder, Committed, Busy
  <2>3. \A i \in Positions : IsEnvelope(i) => SidOf(i) # c.sid
    BY <2>1 DEF Backed, StreamBackedByRows
  <2>4. \A i \in Positions : IsEnvelope(i) => SidOf(i) \in Sessions
    BY DEF Backed, Typed, TypeOK, StreamTypeOK, Entry, Envelope, Positions,
           IsEnvelope, SidOf
  <2>5. StreamBackedByRows'
    BY <2>3, <2>4, <1>1, <1>3
    DEF Backed, StreamBackedByRows, Positions, IsEnvelope, SidOf, EvOf
  <2> QED BY <2>2, <2>5
<1>5. CASE c.ev # OpenEv
  <2>1. row[c.sid] # "none"
    BY <1>5 DEF Backed, CallsInOrder
  <2>2. /\ \A t \in Sessions : row[t] # "none" <=> row'[t] # "none"
        /\ \A t \in Sessions : row[t] = "CLOSED" => row'[t] = "CLOSED"
    BY <2>1, <1>3, <1>5
  <2>3. \A d \in calls : d.sid = c.sid => d.ev # OpenEv
    BY <1>5 DEF Backed, CallsInOrder
  <2>4. Committed(done)'
    BY <2>1, <2>2, <1>2, <1>3, <1>5, EventNumbers DEF Committed
  <2>5. \A d \in calls : Committed(d) => Committed(d)'
    BY <2>2, <1>3, ManagerTypes DEF Backed, Committed
  <2>6. CallsInOrder'
    BY <2>2, <2>3, <2>4, <2>5, <1>1, <1>2, <1>5, ManagerTypes
    DEF Backed, CallsInOrder, Busy
  <2>7. \A i \in Positions : IsEnvelope(i) => SidOf(i) \in Sessions
    BY DEF Backed, Typed, TypeOK, StreamTypeOK, Entry, Envelope, Positions,
           IsEnvelope, SidOf
  <2>8. StreamBackedByRows'
    BY <2>2, <2>7, <1>1, <1>3
    DEF Backed, StreamBackedByRows, Positions, IsEnvelope, SidOf, EvOf
  <2> QED BY <2>6, <2>8
<1> QED BY <1>4, <1>5
(* The XADD adds an entry whose rows are there.                            *)
LEMMA PublishKeepsBacked ==
  ASSUME Backed, NEW c \in calls, Publish(c)
  PROVE  CallsInOrder' /\ StreamBackedByRows'
<1>1. /\ c.next = "publish" /\ calls' = calls \ {c} /\ listener' = Returned(c)
      /\ UNCHANGED <<row, eventRows>>
  BY DEF Publish
<1>2. c.sid \in Sessions /\ c.ev \in EventNo /\ Committed(c)
  BY <1>1, ManagerTypes DEF Backed, CallsInOrder
<1>3. /\ listener \in [Sessions -> ListenerState]
      /\ \A t \in Sessions : t # c.sid => listener'[t] = listener[t]
      /\ listener'[c.sid] = IF c.ev = OpenEv /\ listener[c.sid] = "opening"
                              THEN "open"
                            ELSE IF c.ev = CloseEv THEN "ended"
                            ELSE listener[c.sid]
  BY <1>1, <1>2, ManagerTypes DEF Backed, Returned
<1>4. CallsInOrder'
  <2>1. ASSUME NEW s \in Sessions
        PROVE  /\ listener'[s] = "new" => row[s] = "none" /\ \A d \in calls' : d.sid # s
               /\ listener'[s] = "open" => row[s] # "none"
    BY <1>1, <1>2, <1>3 DEF Backed, CallsInOrder, Committed, Busy
  <2>2. ASSUME NEW d \in calls', d.ev = OpenEv
        PROVE  listener'[d.sid] \in {"opening", "ended"}
    BY <2>2, <1>1, <1>3, ManagerTypes, EventNumbers DEF Backed, CallsInOrder
  <2> QED BY <2>1, <2>2, <1>1 DEF Backed, CallsInOrder, Committed, Busy
<1>5. [sid |-> c.sid, ev |-> c.ev] \in Entry
  BY <1>2 DEF Entry, Envelope
<1>6. /\ \A i \in Positions : stream'[i] = stream[i]
      /\ Len(stream') = Len(stream) + 1 /\ Len(stream) \in Nat
      /\ stream'[Len(stream')] = [sid |-> c.sid, ev |-> c.ev]
  BY <1>5, XAddKeeps DEF Backed, Typed, TypeOK, StreamTypeOK, Publish
<1>7. \A i \in Positions' : i \in Positions \/ i = Len(stream')
  BY <1>6 DEF Positions
<1>8. ASSUME NEW i \in Positions', IsEnvelope(i)'
      PROVE  /\ row[SidOf(i)'] # "none"
             /\ EvOf(i)' \in Evidence => EvOf(i)' \in eventRows[SidOf(i)']
             /\ EvOf(i)' = CloseEv => row[SidOf(i)'] = "CLOSED"
  <2>1. CASE i \in Positions
    BY <2>1, <1>6, <1>8 DEF Backed, StreamBackedByRows, IsEnvelope, SidOf, EvOf
  <2>2. CASE i = Len(stream')
    BY <2>2, <1>2, <1>6 DEF Committed, SidOf, EvOf
  <2> QED BY <2>1, <2>2, <1>7
<1>9. StreamBackedByRows'
  BY <1>1, <1>8 DEF StreamBackedByRows
<1> QED BY <1>4, <1>9

(* Failures end a listener's session and drop calls; a close() may follow  *)
(* a failed record_event().                                                *)
LEMMA FailuresKeepOrder ==
  ASSUME Backed,
         \/ \E c \in calls : OpenOrCloseFails(c) \/ RecordFails(c)
         \/ \E s \in Sessions : OpenTimesOut(s) \/ ListenerDies(s)
  PROVE  CallsInOrder'
<1>1. ASSUME NEW c \in calls, OpenOrCloseFails(c)
      PROVE  CallsInOrder'
  <2>1. /\ calls' = calls \ {c} /\ UNCHANGED <<row, eventRows>>
        /\ listener' = [listener EXCEPT ![c.sid] = "ended"]
    BY <1>1 DEF OpenOrCloseFails
  <2> QED BY <2>1, ManagerTypes DEF Backed, CallsInOrder, Committed, Busy
<1>2. ASSUME NEW c \in calls, RecordFails(c)
      PROVE  CallsInOrder'
  <2>1. /\ c.ev # OpenEv /\ c.sid \in Sessions /\ UNCHANGED <<row, eventRows>>
        /\ row[c.sid] # "none"
    BY <1>2, ManagerTypes, EventNumbers DEF RecordFails, Backed, CallsInOrder
  <2>2. CASE calls' = calls \ {c} /\ UNCHANGED listener
    BY <2>1, <2>2 DEF Backed, CallsInOrder, Committed, Busy
  <2>3. CASE calls' = calls \ {c} /\ listener' = [listener EXCEPT ![c.sid] = "ended"]
    BY <2>1, <2>3, ManagerTypes DEF Backed, CallsInOrder, Committed, Busy
  <2>4. CASE /\ c.sid \notin Detached
             /\ calls' = (calls \ {c}) \cup {NewCall(c.sid, CloseEv)}
             /\ listener' = [listener EXCEPT ![c.sid] = "closing"]
    <3>1. \A d \in calls : d.sid = c.sid => d.ev # OpenEv
      BY <2>1 DEF Backed, CallsInOrder
    <3> QED BY <3>1, <2>1, <2>4, ManagerTypes, NewCallFields, EventNumbers
        DEF Backed, CallsInOrder, Committed, Busy
  <2> QED BY <1>2, <2>2, <2>3, <2>4 DEF RecordFails
<1>3. ASSUME NEW s \in Sessions, OpenTimesOut(s)
      PROVE  CallsInOrder'
  <2>1. /\ listener[s] = "opening" /\ UNCHANGED <<calls, row, eventRows>>
        /\ listener' = [listener EXCEPT ![s] = "ended"]
    BY <1>3 DEF OpenTimesOut
  <2> QED BY <2>1, ManagerTypes DEF Backed, CallsInOrder, Committed, Busy
<1>4. ASSUME NEW s \in Sessions, ListenerDies(s)
      PROVE  CallsInOrder'
  <2>1. /\ calls' = {c \in calls : c.sid # s} /\ UNCHANGED <<row, eventRows>>
        /\ listener' = [listener EXCEPT ![s] = "ended"]
    BY <1>4 DEF ListenerDies
  <2> QED BY <2>1, ManagerTypes DEF Backed, CallsInOrder, Committed, Busy
<1> QED BY <1>1, <1>2, <1>3, <1>4

LEMMA BackedInit == Init => Backed
<1> SUFFICES ASSUME Init PROVE Backed
  OBVIOUS
<1>1. Typed
  BY TypeInit DEF Typed
<1>2. CallsInOrder
  BY DEF Init, ManagerInit, CallsInOrder, Busy
<1>3. StreamBackedByRows
  BY DEF Init, StreamInit, StreamBackedByRows, Positions
<1> QED BY <1>1, <1>2, <1>3 DEF Backed

LEMMA BackedStep == Backed /\ [Next]_vars => Backed'
<1> SUFFICES ASSUME Backed, [Next]_vars PROVE Backed'
  OBVIOUS
<1>1. Typed'
  BY TypeStep DEF Backed, Typed
<1>2. ASSUME UNCHANGED <<stream, listener, calls, row, eventRows>>
      PROVE  Backed'
  <2>1. CallsInOrder'
    BY <1>2 DEF Backed, CallsInOrder, Committed, Busy
  <2> QED BY <2>1, <1>1, <1>2, RowsStayBacked DEF Backed
<1>3. CASE UNCHANGED vars
  BY <1>2, <1>3 DEF vars, streamVars, managerVars
<1>4. CASE WorkerNext
  <2>1. UNCHANGED <<listener, calls, row, eventRows>>
    BY <1>4 DEF WorkerNext, WorkerOnly, managerVars
  <2>2. UNCHANGED stream
    BY <1>4 DEF WorkerNext, Read, ReplyLost, XReadGroup, Ingest, DropBad, AckOrForget, XAck,
                DrainIdle, FlushDrained, Persist, PersistFails, PublishAlert,
                PublishReport, AckFlush, Crash, Restart, streamVars
  <2> QED BY <2>1, <2>2, <1>2
<1>5. CASE ListenerNext
  <2>1. ASSUME CallsInOrder', UNCHANGED <<stream, row, eventRows>>
        PROVE  Backed'
    BY <2>1, <1>1, RowsStayBacked DEF Backed
  <2>2. ASSUME NEW s \in Sessions,
               \/ CallOpen(s) \/ CallClose(s) \/ OpenTimesOut(s) \/ ListenerDies(s)
               \/ \E ev \in Evidence : CallRecord(s, ev)
        PROVE  Backed'
    BY <2>1, <2>2, OpenKeepsOrder, CloseKeepsOrder, RecordKeepsOrder,
       FailuresKeepOrder
    DEF CallOpen, CallClose, CallRecord, OpenTimesOut, ListenerDies, streamVars
  <2>3. ASSUME NEW c \in calls, OpenOrCloseFails(c) \/ RecordFails(c)
        PROVE  Backed'
    BY <2>1, <2>3, FailuresKeepOrder DEF OpenOrCloseFails, RecordFails, streamVars
  <2>4. ASSUME NEW c \in calls, Commit(c) \/ Publish(c)
        PROVE  Backed'
    BY <2>4, <1>1, CommitKeepsBacked, PublishKeepsBacked DEF Backed
  <2>5. CASE PublishUndecodable
    <3>1. UNCHANGED <<listener, calls, row, eventRows>>
      BY <2>5 DEF PublishUndecodable, managerVars
    <3>2. CallsInOrder'
      BY <3>1 DEF Backed, CallsInOrder, Committed, Busy
    <3>3. /\ \A i \in Positions : stream'[i] = stream[i]
          /\ Len(stream') = Len(stream) + 1 /\ Len(stream) \in Nat
          /\ stream'[Len(stream')] = BadEntry
      BY <2>5, XAddKeeps
      DEF Backed, Typed, TypeOK, StreamTypeOK, PublishUndecodable, Entry
    <3>4. \A i \in Positions' : i \in Positions \/ ~IsEnvelope(i)'
      BY <3>3 DEF Positions, IsEnvelope
    <3>5. StreamBackedByRows'
      BY <3>1, <3>3, <3>4
      DEF Backed, StreamBackedByRows, IsEnvelope, SidOf, EvOf
    <3> QED BY <3>2, <3>5, <1>1 DEF Backed
  <2> QED BY <1>5, <2>2, <2>3, <2>4, <2>5 DEF ListenerNext
<1> QED BY <1>3, <1>4, <1>5, NextSplits

(* Nothing reaches the stream before PostgreSQL has it                     *)
(* (session_manager.py: open, record_event, close commit, then publish).   *)
THEOREM StreamBacked == Spec => []StreamBackedByRows
<1>1. Backed => StreamBackedByRows
  BY DEF Backed
<1> QED BY <1>1, BackedInit, BackedStep, PTL DEF Spec
==============================================================================
