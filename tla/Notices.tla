------------------------------ MODULE Notices ------------------------------
(***************************************************************************)
(* The alerting worker and the report worker side by side, with those who  *)
(* feed their queues.                                                      *)
(***************************************************************************)
EXTENDS Alerting, Reporting

noticeVars == <<queueVars, alertingVars, reportingVars, faults>>

Init ==
  /\ QueuesInit
  /\ FaultsInit
  /\ AlertingInit
  /\ ReportingInit

(* A release whose entries these workers cannot parse.                     *)
PublishBad(q) ==
  /\ Add(q, BadNotice)
  /\ UNCHANGED <<alertingVars, reportingVars, faults>>

(* The two workers share nothing: what one does leaves the other alone.    *)
AlertingOnly == UNCHANGED reportingVars
ReportingOnly == UNCHANGED alertingVars

Next ==
  \/ \E q \in Queues : PublishBad(q)
  \/ \E k \in Keys : PublishAlert(k) /\ AlertingOnly
  \/ \E k \in Keys : Expire(k) /\ AlertingOnly
  \/ ReadAlerts /\ AlertingOnly
  \/ BeginAlert /\ AlertingOnly
  \/ \E c \in All : Send(c) /\ AlertingOnly
  \/ StoreAlerts /\ AlertingOnly
  \/ AckAlert /\ AlertingOnly
  \/ AlertingDies /\ AlertingOnly
  \/ AlertingRestarts /\ AlertingOnly
  \/ \E d \in Documents : Enrich(d) /\ ReportingOnly
  \/ \E d \in Documents : Ask(d) /\ ReportingOnly
  \/ ReadJobs /\ ReportingOnly
  \/ BeginJob /\ ReportingOnly
  \/ OpenFile /\ ReportingOnly
  \/ WriteFile /\ ReportingOnly
  \/ StoreReport /\ ReportingOnly
  \/ GenerateFails /\ ReportingOnly
  \/ AckReport /\ ReportingOnly
  \/ ReportingDies /\ ReportingOnly
  \/ ReportingRestarts /\ ReportingOnly

Spec == Init /\ [][Next]_noticeVars

(* Each worker takes the steps it can, and Docker restarts it.  Nothing is *)
(* assumed of attackers, of the API's clients or of the cooldown.          *)
FairSpec ==
  /\ Spec
  /\ WF_noticeVars((AlertingStep \/ AlertingRestarts) /\ AlertingOnly)
  /\ WF_noticeVars((ReportingStep \/ ReportingRestarts) /\ ReportingOnly)

--------------------------------------------------------------------------
NoticesTypeOK ==
  /\ QueuesTypeOK(Keys \cup Job)
  /\ queue["alerts"] \in Seq(Keys \cup {BadNotice})
  /\ queue["reports"] \in Seq(Job \cup {BadNotice})
  /\ FaultsTypeOK
  /\ AlertingTypeOK
  /\ ReportingTypeOK

(* Entries a worker began with, or lost in its batch, and is not at work on. *)
AtWork(q) == IF q = "alerts" THEN page # NoPage ELSE render # NoRender
Over(q) == {i \in 1..begun[q] : i < begun[q] \/ ~AtWork(q)}

(* Left pending for good: nothing reads an entry twice.                    *)
Lost(q) == Over(q) \ done[q]

(* The alerts rows of an acknowledged entry are exactly the sends that     *)
(* succeeded for it: rows come after all sends and before the XACK.        *)
RecordedIfAcked ==
  \A i \in done["alerts"], c \in All : <<i, c>> \in sent <=> <<i, c>> \in alertRows

(* An alert is only passed over as a duplicate when an earlier one of the  *)
(* same address and severity went out, or was lost in a crash.             *)
DedupedWereTold ==
  \A i \in deduped : \E j \in Over("alerts") :
    /\ j < i
    /\ queue["alerts"][j] = queue["alerts"][i]
    /\ <<j, LogChannel>> \in sent \/ j \in Lost("alerts")

(* Once a job is acknowledged, the session has a report of what the        *)
(* database said when the job was queued, or of something later.           *)
FreshOnceAcked ==
  \A i \in done["reports"] :
    LET job == queue["reports"][i]
    IN job # BadNotice => report[job.doc] >= job.asked

(* A reports row never speaks of a file that is not there: the file is at  *)
(* least as new as the row, or is being rewritten, or was cut off by a     *)
(* failure while being rewritten.                                          *)
FileBehindRow ==
  \A d \in Documents :
    /\ report[d] # 0 => d \in torn \/ file[d] >= report[d]
    /\ d \in torn =>
         \/ render.next = "write" /\ Document = d
         \/ \E i \in Lost("reports") :
              queue["reports"][i] # BadNotice /\ queue["reports"][i].doc = d

(* Without a fault every notice is acknowledged in the end.                *)
EveryNoticeEnds ==
  \A q \in Queues, i \in 1..MaxQueue :
    i \in Entries(q) ~> i \in done[q] \/ faults > 0

(* "Two scored sessions from the same IP at the same severity within that  *)
(* window produce exactly one alert burst" (alerting/worker.py): an alert  *)
(* passed over as a duplicate follows one that went out.                   *)
DedupedWereAlerted ==
  \A i \in deduped : \E j \in 1..i - 1, c \in All :
    queue["alerts"][j] = queue["alerts"][i] /\ <<j, c>> \in sent

(* "Don't ACK on failure - Redis re-delivers, we retry once on restart"    *)
(* (reports/worker.py): a job that is pending without a report when the    *)
(* worker goes down has one some time after the restart.                   *)
FailedJobIsRetried ==
  \A d \in Documents :
    (/\ "reports" \notin running
     /\ report[d] = 0
     /\ \E i \in Lost("reports") :
          queue["reports"][i] = [doc |-> d, asked |-> version[d]])
    ~> report[d] # 0
=============================================================================
