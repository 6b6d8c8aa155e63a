--------------------------- MODULE IntelPipeline ---------------------------
(***************************************************************************)
(* The path of an attack through the system: the listeners' SessionManager *)
(* calls, the Redis stream, and the FingerprintWorker that turns a         *)
(* session's events into a fingerprint, a score, an alert and a report     *)
(* job.                                                                    *)
(***************************************************************************)
EXTENDS SessionManager, FingerprintWorker

CONSTANTS
  MaxStream,  \* bound: entries added in one behaviour
  MaxBad      \* bound: undecodable ones among them

ASSUME BoundsAssumption == MaxStream \in Nat /\ MaxBad \in Nat

vars == <<streamVars, managerVars, aggregatorVars, workerVars, faults>>

TypeOK ==
  /\ StreamTypeOK
  /\ FaultsTypeOK
  /\ ManagerTypeOK
  /\ AggregatorTypeOK
  /\ WorkerTypeOK

Init ==
  /\ StreamInit
  /\ FaultsInit
  /\ ManagerInit
  /\ AggregatorInit
  /\ WorkerInit

(* A listener of a release whose event types this worker does not know     *)
(* (a rolling upgrade) adds an entry that from_stream_fields refuses.      *)
BadEntries == {i \in Positions : ~IsEnvelope(i)}

PublishUndecodable ==
  /\ Cardinality(BadEntries) < MaxBad
  /\ XAdd(BadEntry)
  /\ UNCHANGED <<managerVars, faults>>

(* Listeners and worker share the stream and nothing else.  MaxStream caps *)
(* the stream: every call under way may still add an entry.                *)
ListenerOnly ==
  /\ Len(stream') + Cardinality(calls') <= MaxStream
  /\ UNCHANGED <<aggregatorVars, workerVars>>

WorkerOnly == UNCHANGED managerVars

Next ==
  \/ \E s \in Sessions : CallOpen(s) /\ ListenerOnly
  \/ \E s \in Sessions, ev \in Evidence : CallRecord(s, ev) /\ ListenerOnly
  \/ \E s \in Sessions : CallClose(s) /\ ListenerOnly
  \/ \E c \in calls : Commit(c) /\ ListenerOnly
  \/ \E c \in calls : Publish(c) /\ ListenerOnly
  \/ \E c \in calls : OpenOrCloseFails(c) /\ ListenerOnly
  \/ \E c \in calls : RecordFails(c) /\ ListenerOnly
  \/ \E s \in Sessions : OpenTimesOut(s) /\ ListenerOnly
  \/ \E s \in Sessions : ListenerDies(s) /\ ListenerOnly
  \/ PublishUndecodable /\ ListenerOnly
  \/ Read /\ WorkerOnly
  \/ ReplyLost /\ WorkerOnly
  \/ \E i \in batch : Ingest(i) /\ WorkerOnly
  \/ \E i \in batch : DropBad(i) /\ WorkerOnly
  \/ \E n \in 1..Len(order) : DrainIdle(n) /\ WorkerOnly
  \/ FlushDrained /\ WorkerOnly
  \/ Persist /\ WorkerOnly
  \/ PersistFails /\ WorkerOnly
  \/ PublishAlert /\ WorkerOnly
  \/ PublishReport /\ WorkerOnly
  \/ AckFlush /\ WorkerOnly
  \/ Crash /\ WorkerOnly
  \/ Restart /\ WorkerOnly

Spec == Init /\ [][Next]_vars

(* The worker's event loop runs and PostgreSQL and Redis answer, so each   *)
(* step the worker can take is taken; a session that stays silent is idle  *)
(* for longer than idle_timeout_seconds in the end; Docker restarts the    *)
(* container.  Nothing obliges a listener, or an attacker, to go on.       *)
Fairness ==
  /\ WF_vars(WorkerStep /\ WorkerOnly)
  /\ WF_vars((\E n \in 1..Len(order) : DrainIdle(n)) /\ WorkerOnly)
  /\ WF_vars(Restart /\ WorkerOnly)

FairSpec == Spec /\ Fairness

--------------------------------------------------------------------------
(* Safety *)

(* Nothing reaches the stream before PostgreSQL has it: an entry's session *)
(* row and event row are committed when a consumer can first see it        *)
(* (SessionManager commits, then publishes).                               *)
StreamBackedByRows ==
  \A i \in Positions : IsEnvelope(i) =>
    /\ row[SidOf(i)] # "none"
    /\ EvOf(i) \in Evidence => EvOf(i) \in eventRows[SidOf(i)]
    /\ EvOf(i) = CloseEv => row[SidOf(i)] = "CLOSED"

(* The worker acknowledges an entry only after a commit computed from it,  *)
(* unless the entry does not decode or _evict_if_full threw it away:       *)
(* neither a failed persist nor a crash leads to an XACK.                  *)
AckedWereEnriched ==
  \A i \in acked : \/ i \in enriched
                   \/ i \in evicted
                   \/ ~IsEnvelope(i)

(* Every pending entry is either in the worker's memory, in one place, or  *)
(* was forgotten by a lost reply, a failed persist, a failed XACK or a     *)
(* crash, and by nothing else: between them the batch, _pending_ids and    *)
(* the flush never drop an id silently and never hold one twice, and what  *)
(* a fault made the worker forget never comes back to it.                  *)
HeldOrForgotten ==
  /\ pel = InMemory \cup forgotten
  /\ InMemory \cap forgotten = {}
  /\ \A s \in Sessions : pendingIds[s] \cap (batch \cup flush.ids) = {}
  /\ batch \cap flush.ids = {}

ForgottenByFaults == faults = 0 => forgotten = {}

PendingAccounted == HeldOrForgotten /\ ForgottenByFaults

(* _pending_ids of the worker and _buffers of the aggregator are kept by   *)
(* two classes and agree: the ids held for a session are its buffered      *)
(* events, those drain_idle took out, and what _evict_if_full dropped.     *)
IdsMatchBuffers ==
  \A s \in Sessions :
    /\ buffer[s] \cup popped[s] \subseteq pendingIds[s]
    /\ pendingIds[s] \ (buffer[s] \cup popped[s]) \subseteq evicted
    /\ \A i \in pendingIds[s] : IsEnvelope(i) /\ SidOf(i) = s

(* A commit replaces a fingerprint only by one computed from later events  *)
(* of the same session: no flush, early or late, resurrects an older row.  *)
FingerprintMovesForward ==
  [][\A s \in Sessions : fp'[s] # fp[s] =>
       /\ fp'[s] # NoRow
       /\ \A i \in fp'[s] : SidOf(i) = s
       /\ fp[s] # NoRow => \A i \in fp[s], j \in fp'[s] : i < j]_vars

(* An alert or a report job goes out only for what the database already    *)
(* says: the session's committed row is the one of the buffer at hand, and *)
(* its committed score reaches the threshold.                              *)
Justified(s, threshold) ==
  flush.sid = s /\ fp[s] = flush.evs /\ fp[s] # NoRow /\ threat[s] >= threshold

NoticesBackedByRow ==
  [][\A s \in Sessions :
       /\ alerts'[s] # alerts[s] => Justified(s, AlertThreshold)
       /\ reports'[s] # reports[s] => Justified(s, ReportThreshold)]_vars

(* The pipeline implements the ledger: whatever the worker buffers, loses  *)
(* in a crash, evicts or fails to persist, no event is used twice, none is *)
(* settled unused, and rows only move forward.                             *)
Ledger == INSTANCE EventLedger
            WITH Event <- Entry, Junk <- BadEntry,
                 log <- stream, handed <- cursor, open <- pel,
                 settled <- acked, row <- fp, used <- enriched,
                 discarded <- evicted

ImplementsLedger == Ledger!Spec

--------------------------------------------------------------------------
(* Liveness *)

(* Without faults, evictions and trims every entry that reached the stream *)
(* is acknowledged in the end, also for sessions that never close: the     *)
(* idle drain is what guarantees it.                                       *)
EventuallyAcked ==
  \A i \in 1..MaxStream : i \in Positions ~> i \in acked

(* ... and every session that opened on the stream gets its fingerprint,   *)
(* and an alert once a committed score reaches the threshold.              *)
EventuallyFingerprinted ==
  \A s \in Sessions :
    (\E i \in Positions : SidOf(i) = s) ~> fp[s] # NoRow

EventuallyAlerted ==
  \A s \in Sessions :
    (fp[s] # NoRow /\ threat[s] >= AlertThreshold) ~> alerts[s] > 0

--------------------------------------------------------------------------
(* What the code's comments say and the code does not do *)

(* "Don't ACK on failure -- Redis will re-deliver. Worker retries          *)
(* automatically." (fingerprint.py, _flush): what a flush sets out to      *)
(* persist is persisted and acknowledged in the end, at once or by the     *)
(* retry.                                                                  *)
FailedPersistIsRetried ==
  \A i \in 1..MaxStream : (At("persist") /\ i \in flush.ids) ~> i \in acked

(* "We can't enrich every event individually -- geolocation, AbuseIPDB,    *)
(* and signature evaluation all need a session-level view. So the worker   *)
(* buffers events keyed by session_id" (aggregator.py): the row that       *)
(* stands for a session rests on every event of it ever enriched.          *)
FingerprintIsSessionLevel ==
  \A s \in Sessions, i \in enriched : SidOf(i) = s => i \in fp[s]
=============================================================================
