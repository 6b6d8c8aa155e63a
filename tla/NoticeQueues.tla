---------------------------- MODULE NoticeQueues ----------------------------
(***************************************************************************)
(* The two streams behind the fingerprint worker, `honeystrike:alerts` and *)
(* `honeystrike:report_jobs`, and the loop that AlertingWorker and         *)
(* ReportWorker share: read a batch with id ">", process its entries one   *)
(* after the other, acknowledge each.  Redis is external; a queue here     *)
(* never reaches the XADD maxlen of 10 000.                                *)
(***************************************************************************)
EXTENDS Integers, Sequences, Faults

CONSTANTS
  BadNotice,   \* an entry its worker cannot parse
  BatchSize,   \* count= of the XREADGROUP
  MaxQueue     \* bound: entries added in one behaviour

ASSUME QueuesAssumption == BatchSize \in Nat \ {0} /\ MaxQueue \in Nat

VARIABLES
  queue,    \* queue -> every entry ever added
  handed,   \* queue -> the group's last-delivered position
  begun,    \* queue -> the last entry its worker has begun with
  done,     \* queue -> positions acknowledged
  running   \* the workers that are up

queueVars == <<queue, handed, begun, done, running>>

Queues == {"alerts", "reports"}

Entries(q) == 1..Len(queue[q])

QueuesTypeOK(Notice) ==
  /\ queue \in [Queues -> Seq(Notice \cup {BadNotice})]
  /\ handed \in [Queues -> Nat]
  /\ begun \in [Queues -> Nat]
  /\ done \in [Queues -> SUBSET Nat]
  /\ \A q \in Queues : /\ handed[q] <= Len(queue[q])
                       /\ begun[q] <= handed[q]
                       /\ done[q] \subseteq 1..begun[q]
  /\ running \subseteq Queues

QueuesInit ==
  /\ queue = [q \in Queues |-> <<>>]
  /\ handed = [q \in Queues |-> 0]
  /\ begun = [q \in Queues |-> 0]
  /\ done = [q \in Queues |-> {}]
  /\ running = Queues

Add(q, notice) ==
  /\ Len(queue["alerts"]) + Len(queue["reports"]) < MaxQueue
  /\ queue' = [queue EXCEPT ![q] = Append(@, notice)]
  /\ UNCHANGED <<handed, begun, done, running>>

(* run(): XREADGROUP ">" once the batch before is through.                 *)
ReadBatch(q) ==
  LET left == Len(queue[q]) - handed[q]
  IN /\ q \in running
     /\ begun[q] = handed[q]
     /\ left > 0
     /\ handed' = [handed EXCEPT ![q] = @ + IF left < BatchSize THEN left
                                            ELSE BatchSize]
     /\ UNCHANGED <<queue, begun, done, running>>

(* _process_entry() begins with the next entry of the batch.               *)
Begin(q) ==
  /\ q \in running
  /\ begun[q] < handed[q]
  /\ begun' = [begun EXCEPT ![q] = @ + 1]
  /\ UNCHANGED <<queue, handed, done, running>>

Begun(q) == queue[q][begun[q]]
Upcoming(q) == queue[q][begun[q] + 1]

(* Mutant: one XACK for the batch.                                         *)
WholeBatch(q) == 1..handed[q]

ToAck(q) == {begun[q]}

(* _ack() swallows a RedisError: the entry stays pending.                  *)
AckBegun(q) ==
  /\ \/ done' = [done EXCEPT ![q] = @ \cup ToAck(q)] /\ UNCHANGED faults
     \/ Fault /\ UNCHANGED done
  /\ UNCHANGED <<queue, handed, begun, running>>

(* The process ends: what it had read is delivered and will not be again.  *)
Die(q) ==
  /\ q \in running
  /\ Fault
  /\ running' = running \ {q}
  /\ begun' = [begun EXCEPT ![q] = handed[q]]
  /\ UNCHANGED <<queue, handed, done>>

Revive(q) ==
  /\ q \notin running
  /\ running' = running \cup {q}
  /\ UNCHANGED <<queue, handed, begun, done>>
=============================================================================
