------------------------------ MODULE Alerting ------------------------------
(***************************************************************************)
(* workers/alerting/worker.py.  An alert is its dedup key, the address and *)
(* severity of a session.  build_channels_from_settings always includes    *)
(* the log channel, whose send() cannot fail, so some channel succeeds.    *)
(***************************************************************************)
EXTENDS NoticeQueues

CONSTANTS
  Keys,       \* (src_ip, severity)
  Channels,   \* the transports configured besides the log channel
  LogChannel

ASSUME AlertingAssumption == BadNotice \notin Keys /\ LogChannel \notin Channels

VARIABLES
  claimed,   \* the dedup keys set in Redis
  page,      \* the alert under way, or NoPage
  alertRows, \* the `alerts` table: <<entry, channel>>
  sent,      \* history: <<entry, channel>> for every send() that succeeded
  deduped    \* history: entries that found their key set

alertingVars == <<claimed, page, alertRows, sent, deduped>>

All == Channels \cup {LogChannel}

(* What _process_entry() does next, and the channels gather() waits for.   *)
Page == [next : {"send", "store", "ack"}, waiting : SUBSET All]
NoPage == [next |-> "none", waiting |-> {}]

AlertingTypeOK ==
  /\ claimed \subseteq Keys
  /\ page \in Page \cup {NoPage}
  /\ alertRows \subseteq Nat \X All
  /\ sent \subseteq Nat \X All
  /\ deduped \subseteq Nat

AlertingInit ==
  /\ claimed = {}
  /\ page = NoPage
  /\ alertRows = {}
  /\ sent = {}
  /\ deduped = {}

Alert == begun["alerts"]

(* publish_alert() by the fingerprint worker.                              *)
PublishAlert(k) == Add("alerts", k) /\ UNCHANGED <<alertingVars, faults>>

ReadAlerts == ReadBatch("alerts") /\ UNCHANGED <<alertingVars, faults>>

(* Mutants: one alert at a time, whatever its key; a duplicate is left     *)
(* pending.                                                                *)
AnyClaimed(k) == claimed # {}
NoAck == NoPage

IsClaimed(k) == k \in claimed
AfterDuplicate == [next |-> "ack", waiting |-> {}]

(* _process_entry() up to the answer of _claim_dedup(), SET NX EX.  A      *)
(* RedisError counts as the first time, and the key may be set all the     *)
(* same.                                                                   *)
BeginAlert ==
  LET k == Upcoming("alerts")
      first == [next |-> "send", waiting |-> All]
  IN /\ page = NoPage
     /\ Begin("alerts")
     /\ \/ /\ k = BadNotice
           /\ page' = [next |-> "ack", waiting |-> {}]
           /\ UNCHANGED <<claimed, deduped, faults>>
        \/ /\ k # BadNotice /\ ~IsClaimed(k)
           /\ claimed' = claimed \cup {k}
           /\ page' = first
           /\ UNCHANGED <<deduped, faults>>
        \/ /\ k # BadNotice /\ IsClaimed(k)
           /\ deduped' = deduped \cup {Alert + 1}
           /\ page' = AfterDuplicate
           /\ UNCHANGED <<claimed, faults>>
        \/ /\ k # BadNotice
           /\ Fault
           /\ claimed' \in {claimed, claimed \cup {k}}
           /\ page' = first
           /\ UNCHANGED deduped
     /\ UNCHANGED <<alertRows, sent>>

(* Mutant: nothing is recorded.                                            *)
AckAtOnce == "ack"

AfterSends == "store"

(* _dispatch(): the sends of gather() end in any order; any but that of    *)
(* the log channel may fail.                                               *)
Send(c) ==
  /\ page.next = "send"
  /\ c \in page.waiting
  /\ \/ sent' = sent \cup {<<Alert, c>>}
     \/ c # LogChannel /\ UNCHANGED sent
  /\ page' = [next |-> IF page.waiting = {c} THEN AfterSends ELSE "send",
              waiting |-> page.waiting \ {c}]
  /\ UNCHANGED <<claimed, alertRows, deduped, queueVars, faults>>

(* _persist_alert_rows(), one transaction.  An exception of it ends run(). *)
StoreAlerts ==
  /\ page.next = "store"
  /\ alertRows' = alertRows \cup {r \in sent : r[1] = Alert}
  /\ page' = [page EXCEPT !.next = "ack"]
  /\ UNCHANGED <<claimed, sent, deduped, queueVars, faults>>

AckAlert ==
  /\ page.next = "ack"
  /\ AckBegun("alerts")
  /\ page' = NoPage
  /\ UNCHANGED <<claimed, alertRows, sent, deduped>>

AlertingDies ==
  /\ Die("alerts")
  /\ page' = NoPage
  /\ UNCHANGED <<claimed, alertRows, sent, deduped>>

AlertingRestarts ==
  /\ Revive("alerts")
  /\ UNCHANGED <<alertingVars, faults>>

(* The TTL of a key, alert_cooldown_seconds, runs out.                     *)
Expire(k) ==
  /\ k \in claimed
  /\ claimed' = claimed \ {k}
  /\ UNCHANGED <<page, alertRows, sent, deduped, queueVars, faults>>

AlertingStep ==
  \/ ReadAlerts \/ BeginAlert \/ StoreAlerts \/ AckAlert
  \/ \E c \in All : Send(c)
=============================================================================
