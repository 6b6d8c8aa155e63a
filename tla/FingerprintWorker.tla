------------------------- MODULE FingerprintWorker -------------------------
(***************************************************************************)
(* workers/intel/fingerprint.py: the single consumer of the group `intel`. *)
(*                                                                         *)
(* Everything between two awaits of the worker is one step here.  The      *)
(* worker is one task, so within it steps are sequential; the listeners    *)
(* publish between any two of them, and the process may die between any    *)
(* two.  No signal handler calls stop(), so a container stop is a Crash    *)
(* and the drain of run()'s last lines is never reached.                   *)
(***************************************************************************)
EXTENDS SessionAggregator, Faults

CONSTANTS
  ReadCount,       \* count= of the XREADGROUP
  MaxTotal,        \* what the components of a score add up to at most
  MaxScore,        \* the score score_session() clamps to
  AlertThreshold,  \* alert_threshold
  ReportThreshold  \* report_auto_trigger_score

ASSUME WorkerAssumption ==
  /\ ReadCount \in Nat \ {0}
  /\ MaxTotal \in Nat /\ MaxScore \in Nat
  /\ AlertThreshold \in Nat /\ ReportThreshold \in Nat

VARIABLES
  up,          \* the worker process runs
  batch,       \* entries of the last XREADGROUP not ingested yet
  pendingIds,  \* _pending_ids: session -> positions to XACK with its buffer
  popped,      \* session -> positions of a buffer drain_idle took out
  drained,     \* the sessions of that list still to flush, in its order
  flush,       \* the _flush under way, or NoFlush
  fp,          \* fingerprints and ttp_matches, replaced in one transaction:
               \* the positions they were computed from
  threat,      \* sessions.threat_score, of the same transaction
  alerts,      \* entries publish_alert added for the session
  reports,     \* entries publish_report_job added for the session
  enriched,    \* history: positions some commit was computed from
  forgotten    \* history: delivered, not acknowledged, not in memory

workerVars == <<up, batch, pendingIds, popped, drained, flush, fp, threat,
                alerts, reports, enriched, forgotten>>

(* score_session(): AbuseIPDB, tool signatures, TTP rules and the sibling  *)
(* sessions of the same address add up to any total, which is clamped.     *)
Score == 0..MaxScore

(* Mutant: the score is not clamped.                                       *)
Unclamped(total) == total

Clamped(total) == IF total > MaxScore THEN MaxScore ELSE total

(* A buffer on its way through _flush(), the ids popped with it, its score *)
(* once there is one, and the next thing _flush() does.                    *)
Flush == [sid : Sessions, ids : SUBSET Nat, evs : SUBSET Nat, score : Score,
          next : {"persist", "alert", "report", "ack"}]

(* Mutant: a buffer is acknowledged and never persisted.                   *)
AckOnly(s, ids, evs) ==
  [sid |-> s, ids |-> ids, evs |-> evs, score |-> 0, next |-> "ack"]

NewFlush(s, ids, evs) ==
  [sid |-> s, ids |-> ids, evs |-> evs, score |-> 0, next |-> "persist"]
NoFlush ==
  [sid |-> Bottom, ids |-> {}, evs |-> {}, score |-> 0, next |-> "none"]

(* No buffer is ever empty, so a row computed from nothing is no row.      *)
NoRow == {}

WorkerTypeOK ==
  /\ up \in BOOLEAN
  /\ batch \subseteq Positions
  /\ pendingIds \in [Sessions -> SUBSET Nat]
  /\ popped \in [Sessions -> SUBSET Nat]
  /\ drained \in Seq(Sessions)
  /\ flush \in Flush \cup {NoFlush}
  /\ fp \in [Sessions -> SUBSET Nat]
  /\ threat \in [Sessions -> Score]
  /\ alerts \in [Sessions -> Nat]
  /\ reports \in [Sessions -> Nat]
  /\ enriched \subseteq Nat
  /\ forgotten \subseteq Nat

WorkerInit ==
  /\ up = TRUE
  /\ batch = {}
  /\ pendingIds = NoBuffers
  /\ popped = NoBuffers
  /\ drained = <<>>
  /\ flush = NoFlush
  /\ fp = [s \in Sessions |-> NoRow]
  /\ threat = [s \in Sessions |-> 0]
  /\ alerts = [s \in Sessions |-> 0]
  /\ reports = [s \in Sessions |-> 0]
  /\ enriched = {}
  /\ forgotten = {}

(* Mutant: the next read does not wait for the batch to be ingested.       *)
IdleInBatch == up /\ drained = <<>> /\ flush = NoFlush

(* The worker sits in xreadgroup() or at the top of its loop.              *)
Idle == up /\ batch = {} /\ drained = <<>> /\ flush = NoFlush

InMemory == batch \cup flush.ids \cup UNION {pendingIds[s] : s \in Sessions}

(* run(): XREADGROUP ">", never "0": pending entries are not read again.   *)
Read ==
  /\ Idle
  /\ \E last \in Undelivered :
       /\ XReadGroup(last, ReadCount)
       /\ batch' = ReadUpTo(last)
  /\ UNCHANGED <<up, pendingIds, popped, drained, flush, fp, threat, alerts,
                 reports, enriched, forgotten, aggregatorVars, faults>>

(* The connection breaks after Redis handed entries to the group and       *)
(* before their reply arrived: run() catches the ConnectionError, sleeps   *)
(* and reads on with ">", so nobody holds those entries.  A connection     *)
(* that breaks before the hand-out changes nothing.                        *)
ReplyLost ==
  /\ Idle
  /\ Fault
  /\ \E last \in Undelivered :
       /\ XReadGroup(last, ReadCount)
       /\ forgotten' = forgotten \cup ReadUpTo(last)
  /\ UNCHANGED <<up, batch, pendingIds, popped, drained, flush, fp, threat,
                 alerts, reports, enriched, aggregatorVars>>

(* Mutant: the entries of a batch are ingested in any order.               *)
AnyInBatch(i) == i \in batch

NextInBatch(i) == i \in batch /\ \A j \in batch : i <= j

(* _ingest_entry() of an entry that decodes.  When the aggregator returns  *)
(* the buffer, _flush() pops the session's ids before its first await.     *)
Ingest(i) ==
  /\ flush = NoFlush
  /\ NextInBatch(i)
  /\ IsEnvelope(i)
  /\ LET s == SidOf(i)
         ids == pendingIds[s] \cup {i}
     IN /\ IngestEvent(s, i)
        /\ IF Ready(s, i)
             THEN /\ flush' = NewFlush(s, ids, buffer[s] \cup {i})
                  /\ pendingIds' = [pendingIds EXCEPT ![s] = {}]
             ELSE /\ pendingIds' = [pendingIds EXCEPT ![s] = ids]
                  /\ UNCHANGED flush
  /\ batch' = batch \ {i}
  /\ UNCHANGED <<up, popped, drained, fp, threat, alerts, reports, enriched,
                 forgotten, streamVars, faults>>

(* Mutant: only the newest of the ids is acknowledged.                     *)
AckNewest(ids) == /\ XAck({i \in ids : \A j \in ids : j <= i})
                  /\ UNCHANGED <<forgotten, faults>>

(* _ack() swallows a RedisError; the ids are gone from memory either way.  *)
AckOrForget(ids) ==
  \/ /\ XAck(ids)
     /\ UNCHANGED <<forgotten, faults>>
  \/ /\ Fault
     /\ forgotten' = forgotten \cup ids
     /\ UNCHANGED streamVars

(* _ingest_entry() of an entry that does not decode: XACK and drop.        *)
DropBad(i) ==
  /\ flush = NoFlush
  /\ NextInBatch(i)
  /\ ~IsEnvelope(i)
  /\ batch' = batch \ {i}
  /\ AckOrForget({i})
  /\ UNCHANGED <<up, pendingIds, popped, drained, flush, fp, threat, alerts,
                 reports, enriched, aggregatorVars>>

(* _drain_idle(): drain_idle() takes every idle buffer out at once ...     *)
DrainIdle(n) ==
  /\ Idle
  /\ PopOldest(n)
  /\ drained' = SubSeq(order, 1, n)
  /\ popped' = [s \in Sessions |-> IF s \in Oldest(n) THEN buffer[s] ELSE {}]
  /\ UNCHANGED <<up, batch, pendingIds, flush, fp, threat, alerts, reports,
                 enriched, forgotten, streamVars, faults>>

(* ... and the loop around it flushes them one after the other.            *)
FlushDrained ==
  /\ flush = NoFlush
  /\ drained # <<>>
  /\ LET s == Head(drained)
     IN /\ flush' = NewFlush(s, pendingIds[s], popped[s])
        /\ pendingIds' = [pendingIds EXCEPT ![s] = {}]
        /\ popped' = [popped EXCEPT ![s] = {}]
  /\ drained' = Tail(drained)
  /\ UNCHANGED <<up, batch, fp, threat, alerts, reports, enriched,
                 forgotten, aggregatorVars, streamVars, faults>>

At(step) == flush.next = step

(* _enrich_and_persist() up to its commit.  The row, the TTP matches and   *)
(* the score are replaced by what this buffer alone yields.                *)
Persist ==
  /\ At("persist")
  /\ fp' = [fp EXCEPT ![flush.sid] = flush.evs]
  /\ enriched' = enriched \cup flush.evs
  /\ \E total \in 0..MaxTotal :
       /\ threat' = [threat EXCEPT ![flush.sid] = Clamped(total)]
       /\ flush' = [flush EXCEPT !.next = "alert", !.score = Clamped(total)]
  /\ UNCHANGED <<up, batch, pendingIds, popped, drained, alerts, reports,
                 forgotten, aggregatorVars, streamVars, faults>>

(* It raises before the commit: _flush() logs and returns.                 *)
PersistFails ==
  /\ At("persist")
  /\ Fault
  /\ flush' = NoFlush
  /\ forgotten' = forgotten \cup flush.ids
  /\ UNCHANGED <<up, batch, pendingIds, popped, drained, fp, threat, alerts,
                 reports, enriched, aggregatorVars, streamVars>>

(* Mutants: the threshold itself does not alert; every session is reported. *)
AlarmingAbove == flush.score > AlertThreshold
AlwaysReportable == TRUE

Alarming == flush.score >= AlertThreshold
Reportable == flush.score >= ReportThreshold

(* publish_alert() above the threshold; its errors are swallowed.          *)
PublishAlert ==
  /\ At("alert")
  /\ flush' = [flush EXCEPT !.next = "report"]
  /\ \/ /\ Alarming
        /\ alerts' = [alerts EXCEPT ![flush.sid] = @ + 1]
        /\ UNCHANGED faults
     \/ /\ Alarming
        /\ Fault
        /\ UNCHANGED alerts
     \/ /\ ~Alarming
        /\ UNCHANGED <<alerts, faults>>
  /\ UNCHANGED <<up, batch, pendingIds, popped, drained, fp, threat,
                 reports, enriched, forgotten, aggregatorVars, streamVars>>

(* publish_report_job() above its threshold; its errors are swallowed.     *)
PublishReport ==
  /\ At("report")
  /\ flush' = [flush EXCEPT !.next = "ack"]
  /\ \/ /\ Reportable
        /\ reports' = [reports EXCEPT ![flush.sid] = @ + 1]
        /\ UNCHANGED faults
     \/ /\ Reportable
        /\ Fault
        /\ UNCHANGED reports
     \/ /\ ~Reportable
        /\ UNCHANGED <<reports, faults>>
  /\ UNCHANGED <<up, batch, pendingIds, popped, drained, fp, threat, alerts,
                 enriched, forgotten, aggregatorVars, streamVars>>

(* _flush() acknowledges every id it popped.                               *)
AckFlush ==
  /\ At("ack")
  /\ AckOrForget(flush.ids)
  /\ flush' = NoFlush
  /\ UNCHANGED <<up, batch, pendingIds, popped, drained, fp, threat, alerts,
                 reports, enriched, aggregatorVars>>

(* The process dies, or run() raises: everything in memory is gone, while  *)
(* the group still counts what was delivered as pending.                   *)
Crash ==
  /\ up
  /\ Fault
  /\ up' = FALSE
  /\ batch' = {}
  /\ pendingIds' = NoBuffers
  /\ popped' = NoBuffers
  /\ drained' = <<>>
  /\ flush' = NoFlush
  /\ order' = <<>>
  /\ buffer' = NoBuffers
  /\ forgotten' = forgotten \cup InMemory
  /\ UNCHANGED <<fp, threat, alerts, reports, enriched, evicted,
                 streamVars>>

(* Docker restarts the container; setup() finds the group in place.        *)
Restart ==
  /\ ~up
  /\ up' = TRUE
  /\ UNCHANGED <<batch, pendingIds, popped, drained, flush, fp, threat,
                 alerts, reports, enriched, forgotten, aggregatorVars,
                 streamVars, faults>>

(* What the worker does when nothing goes wrong.                           *)
WorkerStep ==
  \/ Read
  \/ \E i \in batch : Ingest(i) \/ DropBad(i)
  \/ FlushDrained
  \/ Persist \/ PublishAlert \/ PublishReport \/ AckFlush
=============================================================================
