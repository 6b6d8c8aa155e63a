--------------------------- MODULE NoticesProofs ---------------------------
(***************************************************************************)
(* Notices for any number of keys, channels, documents, entries and faults. *)
(* One invariant in three parts: types and the entry under way (Typed), the *)
(* alerting worker's books (Paged), the report worker's (Rendered).        *)
(***************************************************************************)
EXTENDS Notices, TLAPS

(* A worker at work on an entry runs, has begun the entry, and has not     *)
(* acknowledged it; a report past its context has a job it can parse.      *)
PageOK ==
  page # NoPage =>
    /\ "alerts" \in running
    /\ begun["alerts"] # 0
    /\ begun["alerts"] \notin done["alerts"]

RenderOK ==
  render # NoRender =>
    /\ "reports" \in running
    /\ begun["reports"] # 0
    /\ begun["reports"] \notin done["reports"]
    /\ render.next # "ack" => Begun("reports") # BadNotice

Typed == NoticesTypeOK /\ PageOK /\ RenderOK

(* What each worker, with those who feed it, does.                         *)
AlertingNext ==
  \/ \E k \in Keys : PublishAlert(k) \/ Expire(k)
  \/ ReadAlerts \/ BeginAlert
  \/ \E c \in All : Send(c)
  \/ StoreAlerts \/ AckAlert \/ AlertingDies \/ AlertingRestarts
  \/ Add("alerts", BadNotice) /\ UNCHANGED <<alertingVars, faults>>

ReportingNext ==
  \/ \E d \in Documents : Enrich(d) \/ Ask(d)
  \/ ReadJobs \/ BeginJob \/ OpenFile \/ WriteFile \/ StoreReport
  \/ GenerateFails \/ AckReport \/ ReportingDies \/ ReportingRestarts
  \/ Add("reports", BadNotice) /\ UNCHANGED <<reportingVars, faults>>

LEMMA NextSplits ==
  Next <=> \/ AlertingNext /\ UNCHANGED reportingVars
           \/ ReportingNext /\ UNCHANGED alertingVars
  BY DEF Next, AlertingNext, ReportingNext, AlertingOnly, ReportingOnly,
         PublishBad, Queues

--------------------------------------------------------------------------
(* The queues *)

(* One queue's books: what the loop of its worker relies on.               *)
BooksOK(q) ==
  /\ begun[q] \in Nat /\ handed[q] \in Nat
  /\ handed[q] <= Len(queue[q])
  /\ begun[q] <= handed[q]
  /\ done[q] \subseteq 1..begun[q]

(* A step of a queue: entries stay, the other queue is left alone.         *)
QueueStep(q) ==
  /\ queue' = [queue EXCEPT ![q] = queue'[q]]
  /\ handed' = [handed EXCEPT ![q] = handed'[q]]
  /\ begun' = [begun EXCEPT ![q] = begun'[q]]
  /\ done' = [done EXCEPT ![q] = done'[q]]
  /\ \A p \in Queues \ {q} : p \in running' <=> p \in running
  /\ running' \subseteq Queues
  /\ Len(queue'[q]) \in Nat /\ Len(queue'[q]) >= Len(queue[q])
  /\ \A i \in 1..Len(queue[q]) : queue'[q][i] = queue[q][i]
  /\ BooksOK(q)'
  /\ begun[q] <= begun'[q]

LEMMA AddStep ==
  ASSUME NoticesTypeOK, NEW q \in Queues, NEW n, Add(q, n)
  PROVE  /\ QueueStep(q)
         /\ queue'[q] = Append(queue[q], n)
         /\ UNCHANGED <<handed, begun, done, running>>
<1>1. /\ queue[q] \in Seq(Keys \cup Job \cup {BadNotice})
      /\ queue'[q] = Append(queue[q], n)
      /\ UNCHANGED <<handed, begun, done, running>>
      /\ BooksOK(q)
  BY DEF NoticesTypeOK, QueuesTypeOK, Add, BooksOK
<1>2. /\ Len(queue[q]) \in Nat
      /\ Len(queue'[q]) = Len(queue[q]) + 1
      /\ \A i \in 1..Len(queue[q]) : queue'[q][i] = queue[q][i]
  BY <1>1
<1> QED
  BY <1>1, <1>2 DEF NoticesTypeOK, QueuesTypeOK, Add, BooksOK, QueueStep

LEMMA ReadStep ==
  ASSUME NoticesTypeOK, NEW q \in Queues, ReadBatch(q)
  PROVE  QueueStep(q) /\ UNCHANGED <<queue, begun, done, running>>
<1>1. /\ queue[q] \in Seq(Keys \cup Job \cup {BadNotice})
      /\ BooksOK(q)
      /\ Len(queue[q]) \in Nat
  BY DEF NoticesTypeOK, QueuesTypeOK, BooksOK
<1>2. /\ handed'[q] \in Nat
      /\ handed'[q] <= Len(queue[q])
      /\ handed[q] <= handed'[q]
  BY <1>1, QueuesAssumption DEF ReadBatch, BooksOK, NoticesTypeOK, QueuesTypeOK
<1> QED
  BY <1>1, <1>2
  DEF NoticesTypeOK, QueuesTypeOK, ReadBatch, BooksOK, QueueStep

LEMMA BeginStep ==
  ASSUME NoticesTypeOK, NEW q \in Queues, Begin(q)
  PROVE  /\ QueueStep(q)
         /\ UNCHANGED <<queue, handed, done, running>>
         /\ q \in running
         /\ begun[q] \in Nat
         /\ begun'[q] = begun[q] + 1
         /\ begun'[q] \in 1..Len(queue[q])
         /\ begun'[q] \notin done[q]
         /\ Begun(q)' = Upcoming(q)
<1>1. /\ queue[q] \in Seq(Keys \cup Job \cup {BadNotice})
      /\ BooksOK(q)
      /\ Len(queue[q]) \in Nat
      /\ begun'[q] = begun[q] + 1
  BY DEF NoticesTypeOK, QueuesTypeOK, BooksOK, Begin
<1> QED
  BY <1>1
  DEF NoticesTypeOK, QueuesTypeOK, Begin, BooksOK, QueueStep, Begun, Upcoming

LEMMA AckStep ==
  ASSUME NoticesTypeOK, NEW q \in Queues, AckBegun(q), begun[q] # 0
  PROVE  /\ QueueStep(q)
         /\ UNCHANGED <<queue, handed, begun, running>>
         /\ done'[q] \in {done[q], done[q] \cup {begun[q]}}
         /\ faults' \in 0..MaxFaults
<1>1. /\ queue[q] \in Seq(Keys \cup Job \cup {BadNotice})
      /\ BooksOK(q)
      /\ Len(queue[q]) \in Nat
      /\ faults \in 0..MaxFaults
  BY DEF NoticesTypeOK, QueuesTypeOK, BooksOK, FaultsTypeOK
<1>2. /\ done'[q] \in {done[q], done[q] \cup {begun[q]}}
      /\ done' = [done EXCEPT ![q] = done'[q]]
      /\ faults' \in 0..MaxFaults
  BY <1>1, MaxFaultsAssumption
  DEF NoticesTypeOK, QueuesTypeOK, AckBegun, ToAck, Fault
<1>3. done'[q] \subseteq 1..begun[q]
  BY <1>1, <1>2 DEF BooksOK
<1> QED
  BY <1>1, <1>2, <1>3
  DEF NoticesTypeOK, QueuesTypeOK, AckBegun, BooksOK, QueueStep

LEMMA DieStep ==
  ASSUME NoticesTypeOK, NEW q \in Queues, Die(q)
  PROVE  /\ QueueStep(q)
         /\ UNCHANGED <<queue, handed, done>>
         /\ faults' \in 0..MaxFaults
<1>1. /\ queue[q] \in Seq(Keys \cup Job \cup {BadNotice})
      /\ BooksOK(q)
      /\ Len(queue[q]) \in Nat
  BY DEF NoticesTypeOK, QueuesTypeOK, BooksOK
<1>2. faults' \in 0..MaxFaults
  BY MaxFaultsAssumption DEF NoticesTypeOK, FaultsTypeOK, Die, Fault
<1> QED
  BY <1>1, <1>2 DEF NoticesTypeOK, QueuesTypeOK, Die, BooksOK, QueueStep

LEMMA ReviveStep ==
  ASSUME NoticesTypeOK, NEW q \in Queues, Revive(q)
  PROVE  /\ QueueStep(q)
         /\ UNCHANGED <<queue, handed, begun, done>>
         /\ q \in running'
<1>1. /\ queue[q] \in Seq(Keys \cup Job \cup {BadNotice})
      /\ BooksOK(q)
      /\ Len(queue[q]) \in Nat
  BY DEF NoticesTypeOK, QueuesTypeOK, BooksOK
<1> QED
  BY <1>1 DEF NoticesTypeOK, QueuesTypeOK, Revive, BooksOK, QueueStep

LEMMA NoQueueStep ==
  ASSUME NoticesTypeOK, NEW q \in Queues, UNCHANGED queueVars
  PROVE  QueueStep(q)
<1>1. /\ queue[q] \in Seq(Keys \cup Job \cup {BadNotice})
      /\ BooksOK(q)
      /\ Len(queue[q]) \in Nat
  BY DEF NoticesTypeOK, QueuesTypeOK, BooksOK
<1> QED
  BY <1>1 DEF NoticesTypeOK, QueuesTypeOK, queueVars, BooksOK, QueueStep

(* A step of one queue leaves what is said of the other true.              *)
LEMMA OtherQueue ==
  ASSUME NoticesTypeOK, NEW q \in Queues, NEW p \in Queues \ {q}, QueueStep(q)
  PROVE  /\ queue'[p] = queue[p]
         /\ begun'[p] = begun[p]
         /\ done'[p] = done[p]
         /\ handed'[p] = handed[p]
         /\ p \in running' <=> p \in running
  BY DEF NoticesTypeOK, QueuesTypeOK, QueueStep

LEMMA QueueStepTyped ==
  ASSUME NoticesTypeOK, NEW q \in Queues, QueueStep(q),
         queue'[q] \in Seq(Keys \cup Job \cup {BadNotice})
  PROVE  QueuesTypeOK(Keys \cup Job)'
<1>1. /\ queue' = [queue EXCEPT ![q] = queue'[q]]
      /\ handed' = [handed EXCEPT ![q] = handed'[q]]
      /\ begun' = [begun EXCEPT ![q] = begun'[q]]
      /\ done' = [done EXCEPT ![q] = done'[q]]
      /\ running' \subseteq Queues
      /\ BooksOK(q)'
  BY DEF QueueStep
<1>2. /\ handed'[q] \in Nat /\ begun'[q] \in Nat /\ done'[q] \subseteq Nat
  BY <1>1 DEF BooksOK
<1>3. /\ queue' \in [Queues -> Seq(Keys \cup Job \cup {BadNotice})]
      /\ handed' \in [Queues -> Nat]
      /\ begun' \in [Queues -> Nat]
      /\ done' \in [Queues -> SUBSET Nat]
  BY <1>1, <1>2 DEF NoticesTypeOK, QueuesTypeOK
<1>4. ASSUME NEW p \in Queues PROVE BooksOK(p)'
  <2>1. CASE p = q BY <2>1, <1>1
  <2>2. CASE p # q
    BY <2>2, OtherQueue DEF NoticesTypeOK, QueuesTypeOK, BooksOK
  <2> QED BY <2>1, <2>2
<1> QED
  BY <1>1, <1>3, <1>4 DEF QueuesTypeOK, BooksOK

--------------------------------------------------------------------------
(* Types *)

LEMMA InitTyped == Init => Typed
  BY MaxFaultsAssumption
  DEF Init, Typed, NoticesTypeOK, QueuesTypeOK, QueuesInit, FaultsInit,
      FaultsTypeOK, AlertingInit, AlertingTypeOK, ReportingInit,
      ReportingTypeOK, PageOK, RenderOK, NoPage, NoRender, Queues

LEMMA AlertingStepTyped ==
  ASSUME Typed, AlertingNext
  PROVE  /\ QueueStep("alerts")
         /\ queue'["alerts"] \in Seq(Keys \cup {BadNotice})
         /\ AlertingTypeOK' /\ FaultsTypeOK' /\ PageOK'
<1> DEFINE q == "alerts"
<1> USE DEF Typed
<1>0. /\ q \in Queues
      /\ queue[q] \in Seq(Keys \cup {BadNotice})
      /\ BooksOK(q)
      /\ NoticesTypeOK /\ AlertingTypeOK /\ FaultsTypeOK /\ PageOK
  BY DEF NoticesTypeOK, QueuesTypeOK, BooksOK, Queues
<1>1. ASSUME NEW k \in Keys \cup {BadNotice},
             Add(q, k), UNCHANGED <<alertingVars, faults>>
      PROVE  /\ QueueStep(q)
             /\ queue'[q] \in Seq(Keys \cup {BadNotice})
             /\ AlertingTypeOK' /\ FaultsTypeOK' /\ PageOK'
  <2>1. /\ QueueStep(q) /\ queue'[q] = Append(queue[q], k)
        /\ UNCHANGED <<begun, done, running>>
    BY <1>0, <1>1, AddStep
  <2> QED
    BY <1>0, <1>1, <2>1
    DEF AlertingTypeOK, FaultsTypeOK, PageOK, alertingVars, Page, NoPage
<1>2. ASSUME NEW k \in Keys, Expire(k)
      PROVE  /\ QueueStep(q)
             /\ queue'[q] \in Seq(Keys \cup {BadNotice})
             /\ AlertingTypeOK' /\ FaultsTypeOK' /\ PageOK'
  BY <1>0, <1>2, NoQueueStep
  DEF Expire, AlertingTypeOK, FaultsTypeOK, PageOK, queueVars
<1>3. ASSUME ReadAlerts
      PROVE  /\ QueueStep(q)
             /\ queue'[q] \in Seq(Keys \cup {BadNotice})
             /\ AlertingTypeOK' /\ FaultsTypeOK' /\ PageOK'
  BY <1>0, <1>3, ReadStep
  DEF ReadAlerts, AlertingTypeOK, FaultsTypeOK, PageOK, alertingVars
<1>4. ASSUME BeginAlert
      PROVE  /\ QueueStep(q)
             /\ queue'[q] \in Seq(Keys \cup {BadNotice})
             /\ AlertingTypeOK' /\ FaultsTypeOK' /\ PageOK'
  <2>1. /\ QueueStep(q)
        /\ UNCHANGED <<queue, handed, done, running>>
        /\ q \in running
        /\ begun[q] \in Nat
        /\ begun'[q] = begun[q] + 1
        /\ begun'[q] \in 1..Len(queue[q])
        /\ begun'[q] \notin done[q]
        /\ Upcoming(q) \in Keys \cup {BadNotice}
    <3>1. Begin(q) BY <1>4 DEF BeginAlert
    <3>2. /\ QueueStep(q)
          /\ UNCHANGED <<queue, handed, done, running>>
          /\ q \in running
          /\ begun[q] \in Nat
          /\ begun'[q] = begun[q] + 1
          /\ begun'[q] \in 1..Len(queue[q])
          /\ begun'[q] \notin done[q]
      BY <1>0, <3>1, BeginStep
    <3> QED BY <1>0, <3>2 DEF Upcoming
  <2>2. /\ claimed' \subseteq Keys
        /\ page' \in Page
        /\ deduped' \subseteq Nat
        /\ UNCHANGED <<alertRows, sent>>
    <3> DEFINE k == Upcoming("alerts")
    <3>1. \/ claimed' = claimed
          \/ k \in Keys /\ claimed' = claimed \cup {k}
      BY <1>4, <2>1 DEF BeginAlert
    <3>2. page' \in {[next |-> "ack", waiting |-> {}],
                      [next |-> "send", waiting |-> All]}
      BY <1>4 DEF BeginAlert, AfterDuplicate
    <3>3. deduped' \in {deduped, deduped \cup {begun[q] + 1}}
      BY <1>4 DEF BeginAlert, Alert
    <3>4. UNCHANGED <<alertRows, sent>>
      BY <1>4 DEF BeginAlert
    <3>5. page' \in Page
      BY <3>2 DEF Page
    <3> QED
      BY <1>0, <2>1, <3>1, <3>3, <3>4, <3>5 DEF AlertingTypeOK
  <2>3. FaultsTypeOK'
    BY <1>0, <1>4, MaxFaultsAssumption DEF BeginAlert, Fault, FaultsTypeOK
  <2> QED
    BY <1>0, <2>1, <2>2, <2>3 DEF AlertingTypeOK, PageOK
<1>5. ASSUME NEW c \in All, Send(c)
      PROVE  /\ QueueStep(q)
             /\ queue'[q] \in Seq(Keys \cup {BadNotice})
             /\ AlertingTypeOK' /\ FaultsTypeOK' /\ PageOK'
  <2>1. page \in Page /\ page # NoPage
    BY <1>0, <1>5 DEF Send, AlertingTypeOK, NoPage
  <2>2. begun[q] \in Nat BY <1>0 DEF BooksOK
  <2>3. page' \in Page /\ sent' \subseteq Nat \X All
    BY <1>0, <1>5, <2>1, <2>2
    DEF Send, AlertingTypeOK, Page, AfterSends, Alert
  <2> QED
    BY <1>0, <1>5, <2>1, <2>3, NoQueueStep
    DEF Send, AlertingTypeOK, FaultsTypeOK, PageOK, queueVars
<1>6. ASSUME StoreAlerts
      PROVE  /\ QueueStep(q)
             /\ queue'[q] \in Seq(Keys \cup {BadNotice})
             /\ AlertingTypeOK' /\ FaultsTypeOK' /\ PageOK'
  <2>1. page \in Page /\ page # NoPage
    BY <1>0, <1>6 DEF StoreAlerts, AlertingTypeOK, NoPage
  <2>2. page' \in Page /\ alertRows' \subseteq Nat \X All
    BY <1>0, <1>6, <2>1 DEF StoreAlerts, AlertingTypeOK, Page
  <2> QED
    BY <1>0, <1>6, <2>1, <2>2, NoQueueStep
    DEF StoreAlerts, AlertingTypeOK, FaultsTypeOK, PageOK, queueVars
<1>7. ASSUME AckAlert
      PROVE  /\ QueueStep(q)
             /\ queue'[q] \in Seq(Keys \cup {BadNotice})
             /\ AlertingTypeOK' /\ FaultsTypeOK' /\ PageOK'
  <2>1. begun[q] # 0
    BY <1>0, <1>7 DEF AckAlert, PageOK, NoPage
  <2> QED
    BY <1>0, <1>7, <2>1, AckStep
    DEF AckAlert, AlertingTypeOK, FaultsTypeOK, PageOK
<1>8. ASSUME AlertingDies
      PROVE  /\ QueueStep(q)
             /\ queue'[q] \in Seq(Keys \cup {BadNotice})
             /\ AlertingTypeOK' /\ FaultsTypeOK' /\ PageOK'
  BY <1>0, <1>8, DieStep
  DEF AlertingDies, AlertingTypeOK, FaultsTypeOK, PageOK
<1>9. ASSUME AlertingRestarts
      PROVE  /\ QueueStep(q)
             /\ queue'[q] \in Seq(Keys \cup {BadNotice})
             /\ AlertingTypeOK' /\ FaultsTypeOK' /\ PageOK'
  BY <1>0, <1>9, ReviveStep
  DEF AlertingRestarts, AlertingTypeOK, FaultsTypeOK, PageOK, alertingVars
<1> QED
  BY <1>1, <1>2, <1>3, <1>4, <1>5, <1>6, <1>7, <1>8, <1>9
  DEF AlertingNext, PublishAlert

LEMMA ReportingStepTyped ==
  ASSUME Typed, ReportingNext
  PROVE  /\ QueueStep("reports")
         /\ queue'["reports"] \in Seq(Job \cup {BadNotice})
         /\ ReportingTypeOK' /\ FaultsTypeOK' /\ RenderOK'
<1> DEFINE q == "reports"
           Goal == /\ QueueStep(q)
                   /\ queue'[q] \in Seq(Job \cup {BadNotice})
                   /\ ReportingTypeOK' /\ FaultsTypeOK' /\ RenderOK'
<1> USE DEF Typed
<1>0. /\ q \in Queues
      /\ queue[q] \in Seq(Job \cup {BadNotice})
      /\ BooksOK(q)
      /\ NoticesTypeOK /\ ReportingTypeOK /\ FaultsTypeOK /\ RenderOK
  BY DEF NoticesTypeOK, QueuesTypeOK, BooksOK, Queues
<1>01. render # NoRender => render \in Render /\ begun[q] \in 1..Len(queue[q])
  BY <1>0 DEF ReportingTypeOK, RenderOK, BooksOK
<1>02. ASSUME render # NoRender, Begun(q) # BadNotice
       PROVE  Document \in Documents /\ render.version \in Nat
  BY <1>0, <1>01, <1>02 DEF Begun, Document, Job, Render
<1>1. ASSUME NEW k \in Job \cup {BadNotice},
             Add(q, k), UNCHANGED <<reportingVars, faults>>
      PROVE  Goal
  <2>1. /\ QueueStep(q) /\ queue'[q] = Append(queue[q], k)
        /\ UNCHANGED <<begun, done, running>>
    BY <1>0, <1>1, AddStep
  <2>2. render # NoRender => Begun(q)' = Begun(q)
    BY <1>01, <2>1 DEF QueueStep, Begun
  <2> QED
    BY <1>0, <1>1, <2>1, <2>2
    DEF ReportingTypeOK, FaultsTypeOK, RenderOK, reportingVars
<1>2. ASSUME NEW d \in Documents, Enrich(d) PROVE Goal
  BY <1>0, <1>2, NoQueueStep
  DEF Enrich, ReportingTypeOK, FaultsTypeOK, RenderOK, Begun, queueVars
<1>3. ASSUME NEW d \in Documents, Ask(d) PROVE Goal
  BY <1>0, <1>1, <1>3 DEF Ask, Job, ReportingTypeOK
<1>4. ASSUME ReadJobs PROVE Goal
  BY <1>0, <1>4, ReadStep
  DEF ReadJobs, ReportingTypeOK, FaultsTypeOK, RenderOK, Begun, reportingVars
<1>5. ASSUME BeginJob PROVE Goal
  <2>1. /\ QueueStep(q)
        /\ UNCHANGED <<queue, handed, done, running>>
        /\ q \in running
        /\ begun[q] \in Nat
        /\ begun'[q] = begun[q] + 1
        /\ begun'[q] \in 1..Len(queue[q])
        /\ begun'[q] \notin done[q]
        /\ Begun(q)' = Upcoming(q)
        /\ Upcoming(q) \in Job \cup {BadNotice}
    <3>1. Begin(q) BY <1>5 DEF BeginJob
    <3>2. /\ QueueStep(q)
          /\ UNCHANGED <<queue, handed, done, running>>
          /\ q \in running
          /\ begun[q] \in Nat
          /\ begun'[q] = begun[q] + 1
          /\ begun'[q] \in 1..Len(queue[q])
          /\ begun'[q] \notin done[q]
          /\ Begun(q)' = Upcoming(q)
      BY <1>0, <3>1, BeginStep
    <3> QED BY <1>0, <3>2 DEF Upcoming
  <2>2. \/ render' = [next |-> "ack", version |-> 0]
        \/ render' = NoRender
        \/ /\ Upcoming(q) # BadNotice
           /\ render' = [next |-> "open", version |-> version[Upcoming(q).doc]]
    BY <1>5 DEF BeginJob, AfterContext, AfterFailure
  <2>3. render' \in Render \cup {NoRender}
    BY <1>0, <2>1, <2>2 DEF Render, Job, ReportingTypeOK
  <2>4. UNCHANGED <<version, file, torn, report>>
    BY <1>5 DEF BeginJob
  <2>5. FaultsTypeOK'
    BY <1>0, <1>5, MaxFaultsAssumption DEF BeginJob, Fault, FaultsTypeOK
  <2> QED
    BY <1>0, <2>1, <2>2, <2>3, <2>4, <2>5
    DEF ReportingTypeOK, RenderOK, NoRender
<1>6. ASSUME NEW step \in {"open", "write", "store"},
             NEW next \in {"write", "store", "ack"},
             Proceed(step, next), UNCHANGED queueVars, UNCHANGED faults
      PROVE  /\ QueueStep(q) /\ FaultsTypeOK' /\ RenderOK'
             /\ queue'[q] \in Seq(Job \cup {BadNotice})
             /\ render' \in Render
             /\ Document \in Documents /\ render.version \in Nat
  <2>1. render \in Render /\ render # NoRender /\ render.next = step
    BY <1>0, <1>6 DEF Proceed, ReportingTypeOK, NoRender
  <2>2. Begun(q) # BadNotice BY <1>0, <2>1 DEF RenderOK
  <2>3. render' \in Render BY <1>6, <2>1 DEF Proceed, Render
  <2> QED
    BY <1>0, <1>02, <1>6, <2>1, <2>2, <2>3, NoQueueStep
    DEF RenderOK, Begun, FaultsTypeOK, queueVars
<1>7. ASSUME OpenFile PROVE Goal
  BY <1>0, <1>6, <1>7 DEF OpenFile, ReportingTypeOK
<1>8. ASSUME WriteFile PROVE Goal
  BY <1>0, <1>6, <1>8 DEF WriteFile, ReportingTypeOK
<1>9. ASSUME StoreReport PROVE Goal
  BY <1>0, <1>6, <1>9 DEF StoreReport, ReportingTypeOK
<1>10. ASSUME GenerateFails PROVE Goal
  <2>1. FaultsTypeOK'
    BY <1>0, <1>10, MaxFaultsAssumption DEF GenerateFails, Fault, FaultsTypeOK
  <2> QED
    BY <1>0, <1>10, <2>1, NoQueueStep
    DEF GenerateFails, AfterFailure, ReportingTypeOK, RenderOK, queueVars
<1>11. ASSUME AckReport PROVE Goal
  <2>1. begun[q] # 0
    BY <1>0, <1>11 DEF AckReport, RenderOK, NoRender
  <2> QED
    BY <1>0, <1>11, <2>1, AckStep
    DEF AckReport, ReportingTypeOK, FaultsTypeOK, RenderOK
<1>12. ASSUME ReportingDies PROVE Goal
  BY <1>0, <1>12, DieStep
  DEF ReportingDies, ReportingTypeOK, FaultsTypeOK, RenderOK
<1>13. ASSUME ReportingRestarts PROVE Goal
  BY <1>0, <1>13, ReviveStep
  DEF ReportingRestarts, ReportingTypeOK, FaultsTypeOK, RenderOK, Begun, reportingVars
<1> QED
  BY <1>1, <1>2, <1>3, <1>4, <1>5, <1>7, <1>8, <1>9, <1>10, <1>11, <1>12,
     <1>13
  DEF ReportingNext

LEMMA LongerSeqs ==
  /\ Seq(Keys \cup {BadNotice}) \subseteq Seq(Keys \cup Job \cup {BadNotice})
  /\ Seq(Job \cup {BadNotice}) \subseteq Seq(Keys \cup Job \cup {BadNotice})
  OBVIOUS

LEMMA StepTyped == Typed /\ [Next]_noticeVars => Typed'
<1> SUFFICES ASSUME Typed, [Next]_noticeVars PROVE Typed'
  OBVIOUS
<1>0. /\ NoticesTypeOK /\ AlertingTypeOK /\ ReportingTypeOK /\ PageOK /\ RenderOK
      /\ "alerts" \in Queues /\ "reports" \in Queues
      /\ queue["alerts"] \in Seq(Keys \cup {BadNotice})
      /\ queue["reports"] \in Seq(Job \cup {BadNotice})
  BY DEF Typed, NoticesTypeOK, Queues
<1>1. CASE AlertingNext /\ UNCHANGED reportingVars
  <2>1. /\ QueueStep("alerts")
        /\ queue'["alerts"] \in Seq(Keys \cup {BadNotice})
        /\ AlertingTypeOK' /\ FaultsTypeOK' /\ PageOK'
    BY <1>1, AlertingStepTyped
  <2>2. /\ queue'["reports"] = queue["reports"]
        /\ begun'["reports"] = begun["reports"]
        /\ done'["reports"] = done["reports"]
        /\ "reports" \in running' <=> "reports" \in running
    BY <1>0, <2>1, OtherQueue
  <2>3. QueuesTypeOK(Keys \cup Job)'
    <3>1. queue'["alerts"] \in Seq(Keys \cup Job \cup {BadNotice})
      BY <2>1, LongerSeqs
    <3> QED BY <1>0, <2>1, <3>1, QueueStepTyped
  <2>4. ReportingTypeOK' /\ RenderOK'
    BY <1>0, <1>1, <2>2 DEF ReportingTypeOK, RenderOK, Begun, reportingVars
  <2> QED BY <1>0, <2>1, <2>2, <2>3, <2>4 DEF Typed, NoticesTypeOK
<1>2. CASE ReportingNext /\ UNCHANGED alertingVars
  <2>1. /\ QueueStep("reports")
        /\ queue'["reports"] \in Seq(Job \cup {BadNotice})
        /\ ReportingTypeOK' /\ FaultsTypeOK' /\ RenderOK'
    BY <1>2, ReportingStepTyped
  <2>2. /\ queue'["alerts"] = queue["alerts"]
        /\ begun'["alerts"] = begun["alerts"]
        /\ done'["alerts"] = done["alerts"]
        /\ "alerts" \in running' <=> "alerts" \in running
    BY <1>0, <2>1, OtherQueue
  <2>3. QueuesTypeOK(Keys \cup Job)'
    <3>1. queue'["reports"] \in Seq(Keys \cup Job \cup {BadNotice})
      BY <2>1, LongerSeqs
    <3> QED BY <1>0, <2>1, <3>1, QueueStepTyped
  <2>4. AlertingTypeOK' /\ PageOK'
    BY <1>0, <1>2, <2>2 DEF AlertingTypeOK, PageOK, alertingVars
  <2> QED BY <1>0, <2>1, <2>2, <2>3, <2>4 DEF Typed, NoticesTypeOK
<1>3. CASE UNCHANGED noticeVars
  BY <1>3
  DEF noticeVars, queueVars, alertingVars, reportingVars, Typed,
      NoticesTypeOK, QueuesTypeOK, FaultsTypeOK, AlertingTypeOK,
      ReportingTypeOK, PageOK, RenderOK, Begun
<1> QED BY <1>1, <1>2, <1>3, NextSplits

LEMMA AlwaysTyped == Spec => []Typed
<1> QED BY InitTyped, StepTyped, PTL DEF Spec

(* The variables of queues and workers keep their types: an entry is       *)
(* handed out before it is begun, and begun before it is acknowledged.     *)
THEOREM NoticesTypesCorrect == Spec => []NoticesTypeOK
<1>1. Typed => NoticesTypeOK BY DEF Typed
<1> QED BY <1>1, AlwaysTyped, PTL

--------------------------------------------------------------------------
(* The alerting worker *)

(* The entry that set a dedup key went out, or was lost, or is still to be *)
(* sent to the log channel.                                                *)
Told(j) ==
  \/ <<j, LogChannel>> \in sent
  \/ j \in Lost("alerts")
  \/ j = Alert /\ page.next = "send" /\ LogChannel \in page.waiting

ClaimsTold ==
  \A k \in claimed : \E j \in 1..Alert : queue["alerts"][j] = k /\ Told(j)

(* What was sent and passed over was begun; rows follow sends.             *)
HistoryOK ==
  /\ sent \subseteq (1..Alert) \X All
  /\ alertRows \subseteq sent
  /\ deduped \subseteq 1..Alert
  /\ page.next = "ack" =>
       \A c \in All : <<Alert, c>> \in sent <=> <<Alert, c>> \in alertRows

Paged == HistoryOK /\ RecordedIfAcked /\ ClaimsTold /\ DedupedWereTold

(* An entry that is over stays over, and a lost one stays lost.            *)
LEMMA AlertsStayOver ==
  ASSUME Typed, AlertingNext
  PROVE  /\ Over("alerts") \subseteq Over("alerts")'
         /\ Lost("alerts") \subseteq Lost("alerts")'
<1> DEFINE q == "alerts"
<1>0. /\ q \in Queues /\ NoticesTypeOK /\ QueueStep(q) /\ PageOK
      /\ begun[q] \in Nat /\ begun'[q] \in Nat /\ begun[q] <= begun'[q]
      /\ AlertingTypeOK
  BY AlertingStepTyped
  DEF Typed, NoticesTypeOK, QueuesTypeOK, Queues, QueueStep, BooksOK
<1>1. \/ page = NoPage
      \/ begun' = begun
      \/ page' = NoPage
  <2>1. ASSUME Add(q, BadNotice) PROVE begun' = begun
    BY <2>1 DEF Add
  <2>2. ASSUME NEW k \in Keys, PublishAlert(k) \/ Expire(k)
        PROVE  begun' = begun
    BY <2>2 DEF PublishAlert, Expire, Add, queueVars
  <2>3. ASSUME ReadAlerts \/ StoreAlerts \/ (\E c \in All : Send(c))
        PROVE  begun' = begun
    BY <2>3 DEF ReadAlerts, ReadBatch, StoreAlerts, Send, queueVars
  <2>4. ASSUME BeginAlert PROVE page = NoPage
    BY <2>4 DEF BeginAlert
  <2>5. ASSUME AckAlert \/ AlertingDies PROVE page' = NoPage
    BY <2>5 DEF AckAlert, AlertingDies
  <2>6. ASSUME AlertingRestarts PROVE begun' = begun
    BY <2>6 DEF AlertingRestarts, Revive
  <2> QED
    BY <2>1, <2>2, <2>3, <2>4, <2>5, <2>6 DEF AlertingNext
<1>2. page = NoPage => page' = NoPage \/ begun'[q] = begun[q] + 1
  <2>1. ASSUME page = NoPage, page' # NoPage PROVE BeginAlert
    BY <2>1
    DEF AlertingNext, PublishAlert, Expire, ReadAlerts, Send, StoreAlerts,
        AckAlert, AlertingDies, AlertingRestarts, alertingVars, NoPage
  <2> QED BY <1>0, <2>1, BeginStep DEF BeginAlert
<1>3. Over(q) \subseteq Over(q)'
  BY <1>0, <1>1, <1>2 DEF Over, AtWork
<1>4. \/ done'[q] = done[q]
      \/ page # NoPage /\ done'[q] \subseteq done[q] \cup {begun[q]}
  <2>1. ASSUME AckAlert
        PROVE  page # NoPage /\ done'[q] \subseteq done[q] \cup {begun[q]}
    BY <1>0, <2>1, AckStep DEF AckAlert, PageOK, NoPage
  <2>2. ASSUME ~AckAlert PROVE UNCHANGED done
    BY <2>2
    DEF AlertingNext, PublishAlert, Expire, ReadAlerts, Send, StoreAlerts,
        BeginAlert, AlertingDies, AlertingRestarts, Add, ReadBatch, Begin,
        Die, Revive, queueVars
  <2> QED BY <2>1, <2>2
<1>5. page # NoPage => begun[q] \notin Over(q)
  BY <1>0 DEF Over, AtWork
<1> QED
  BY <1>3, <1>4, <1>5 DEF Lost

(* What the steps of the alerting worker have in common.                   *)
LEMMA AlertsGrow ==
  ASSUME Typed, AlertingNext
  PROVE  /\ Alert \in Nat /\ Alert' \in Nat /\ Alert <= Alert'
         /\ done["alerts"] \subseteq 1..Alert
         /\ \A i \in 1..Alert : queue'["alerts"][i] = queue["alerts"][i]
         /\ Over("alerts") \subseteq Over("alerts")'
         /\ Lost("alerts") \subseteq Lost("alerts")'
<1>1. QueueStep("alerts") /\ NoticesTypeOK /\ "alerts" \in Queues
  BY AlertingStepTyped DEF Typed, Queues
<1>2. /\ Len(queue["alerts"]) \in Nat
      /\ BooksOK("alerts")
  BY <1>1 DEF NoticesTypeOK, QueuesTypeOK, BooksOK
<1> QED
  BY <1>1, <1>2, AlertsStayOver DEF Alert, QueueStep, BooksOK

LEMMA DedupedStayTold ==
  ASSUME Typed, AlertingNext, HistoryOK, DedupedWereTold, sent \subseteq sent',
         deduped' = deduped
  PROVE  DedupedWereTold'
<1> SUFFICES ASSUME NEW i \in deduped
             PROVE  \E j \in Over("alerts")' :
                      /\ j < i
                      /\ queue'["alerts"][j] = queue'["alerts"][i]
                      /\ <<j, LogChannel>> \in sent' \/ j \in Lost("alerts")'
  BY DEF DedupedWereTold
<1>1. PICK j \in Over("alerts") :
        /\ j < i
        /\ queue["alerts"][j] = queue["alerts"][i]
        /\ <<j, LogChannel>> \in sent \/ j \in Lost("alerts")
  BY DEF DedupedWereTold
<1>2. i \in 1..Alert /\ j \in 1..Alert
  BY <1>1 DEF HistoryOK, Over, Alert
<1> QED
  BY <1>1, <1>2, AlertsGrow

LEMMA ClaimsStayTold ==
  ASSUME Typed, AlertingNext, ClaimsTold, claimed' \subseteq claimed,
         \A j \in 1..Alert : Told(j) => Told(j)'
  PROVE  ClaimsTold'
<1> SUFFICES ASSUME NEW k \in claimed
             PROVE  \E j \in 1..Alert' : queue'["alerts"][j] = k /\ Told(j)'
  BY DEF ClaimsTold
<1>1. PICK j \in 1..Alert : queue["alerts"][j] = k /\ Told(j)
  BY DEF ClaimsTold
<1> QED
  BY <1>1, AlertsGrow

(* The steps that touch neither the books nor the page.                    *)
LEMMA QuietPaged ==
  ASSUME Typed, AlertingNext, Paged, claimed' \subseteq claimed,
         UNCHANGED <<begun, done, page, alertRows, sent, deduped>>
  PROVE  Paged'
<1>1. HistoryOK' /\ RecordedIfAcked'
  BY DEF Paged, HistoryOK, RecordedIfAcked, Alert
<1>2. DedupedWereTold'
  BY DedupedStayTold DEF Paged
<1>3. ClaimsTold'
  <2>1. \A j \in 1..Alert : Told(j) => Told(j)'
    BY AlertsGrow DEF Told, Alert
  <2> QED BY <2>1, ClaimsStayTold DEF Paged
<1> QED BY <1>1, <1>2, <1>3 DEF Paged

LEMMA BeginPaged ==
  ASSUME Typed, AlertingNext, BeginAlert, Paged
  PROVE  Paged'
<1> DEFINE q == "alerts"
           k == Upcoming(q)
<1>0. /\ page = NoPage /\ page.next = "none"
      /\ Alert \in Nat /\ Alert' = Alert + 1
      /\ UNCHANGED <<queue, done, alertRows, sent>>
      /\ queue[q][Alert + 1] = k
      /\ done[q] \subseteq 1..Alert
      /\ Over(q) \subseteq Over(q)' /\ Lost(q) \subseteq Lost(q)'
  BY AlertsGrow, BeginStep
  DEF Typed, BeginAlert, Begin, Alert, Upcoming, Queues, NoPage
<1>1. HistoryOK'
  <2>1. /\ sent \subseteq (1..Alert) \X All
        /\ alertRows \subseteq sent
        /\ deduped \subseteq 1..Alert
    BY DEF Paged, HistoryOK
  <2>2. deduped' \subseteq deduped \cup {Alert + 1}
    BY DEF BeginAlert
  <2>3. \A c \in All : <<Alert + 1, c>> \notin sent
    BY <1>0, <2>1
  <2>4. sent \subseteq (1..Alert + 1) \X All
    BY <1>0, <2>1
  <2> QED BY <1>0, <2>1, <2>2, <2>3, <2>4 DEF HistoryOK
<1>2. RecordedIfAcked'
  BY <1>0 DEF Paged, RecordedIfAcked
<1>3. \A j \in 1..Alert : Told(j) =>
          <<j, LogChannel>> \in sent \/ j \in Lost(q)
  BY <1>0 DEF Told
<1>4. ClaimsTold'
  <2>1. CASE claimed' \subseteq claimed
    <3>1. \A j \in 1..Alert : Told(j) => Told(j)'
      BY <1>0, <1>3 DEF Told
    <3> QED BY <2>1, <3>1, ClaimsStayTold DEF Paged
  <2>2. CASE /\ claimed' = claimed \cup {k}
             /\ page' = [next |-> "send", waiting |-> All]
    <3>1. Alert' \in 1..Alert' /\ queue'[q][Alert'] = k /\ Told(Alert)'
      BY <1>0, <2>2 DEF Told, All
    <3>2. ASSUME NEW c \in claimed
          PROVE  \E j \in 1..Alert' : queue'[q][j] = c /\ Told(j)'
      <4>1. PICK j \in 1..Alert : queue[q][j] = c /\ Told(j)
        BY DEF Paged, ClaimsTold
      <4> QED BY <1>0, <1>3, <4>1 DEF Told
    <3> QED BY <2>2, <3>1, <3>2 DEF ClaimsTold
  <2> QED BY <2>1, <2>2 DEF BeginAlert
<1>5. DedupedWereTold'
  <2>1. CASE deduped' = deduped
    BY <1>0, <2>1, DedupedStayTold DEF Paged
  <2>2. CASE deduped' = deduped \cup {Alert + 1} /\ k \in claimed
    <3>1. PICK j \in 1..Alert : queue[q][j] = k /\ Told(j)
      BY <2>2 DEF Paged, ClaimsTold
    <3>2. j \in Over(q)'
      BY <1>0, <3>1 DEF Over, Alert
    <3>3. \A i \in deduped : i \in 1..Alert
      BY DEF Paged, HistoryOK
    <3> QED
      BY <1>0, <1>3, <2>2, <3>1, <3>2, <3>3 DEF Paged, DedupedWereTold, Over
  <2> QED BY <2>1, <2>2 DEF BeginAlert, IsClaimed
<1> QED BY <1>1, <1>2, <1>4, <1>5 DEF Paged

LEMMA SendPaged ==
  ASSUME Typed, AlertingNext, NEW c \in All, Send(c), Paged
  PROVE  Paged'
<1> DEFINE q == "alerts"
<1>0. /\ page.next = "send" /\ page # NoPage /\ page \in Page
      /\ c \in page.waiting
      /\ Alert \in Nat /\ Alert' = Alert /\ Alert # 0
      /\ UNCHANGED <<queue, done, alertRows, deduped, claimed>>
      /\ sent' \in {sent, sent \cup {<<Alert, c>>}}
      /\ c = LogChannel => sent' = sent \cup {<<Alert, c>>}
      /\ page' = [next |-> IF page.waiting = {c} THEN "store" ELSE "send",
                  waiting |-> page.waiting \ {c}]
      /\ Alert \notin done[q]
      /\ Over(q) \subseteq Over(q)' /\ Lost(q) \subseteq Lost(q)'
  BY AlertsGrow
  DEF Typed, NoticesTypeOK, AlertingTypeOK, PageOK, NoPage, Send, AfterSends,
      Alert, queueVars
<1>1. HistoryOK'
  BY <1>0 DEF Paged, HistoryOK
<1>2. RecordedIfAcked'
  BY <1>0 DEF Paged, RecordedIfAcked
<1>3. ClaimsTold'
  <2>1. \A j \in 1..Alert : Told(j) => Told(j)'
    BY <1>0 DEF Told
  <2> QED BY <1>0, <2>1, ClaimsStayTold DEF Paged
<1>4. DedupedWereTold'
  BY <1>0, DedupedStayTold DEF Paged
<1> QED BY <1>1, <1>2, <1>3, <1>4 DEF Paged

LEMMA StorePaged ==
  ASSUME Typed, AlertingNext, StoreAlerts, Paged
  PROVE  Paged'
<1> DEFINE q == "alerts"
<1>0. /\ page.next = "store" /\ page # NoPage /\ page \in Page
      /\ Alert \in Nat /\ Alert' = Alert
      /\ UNCHANGED <<queue, done, sent, deduped, claimed>>
      /\ alertRows' = alertRows \cup {r \in sent : r[1] = Alert}
      /\ page'.next = "ack"
      /\ Alert \notin done[q]
      /\ Over(q) \subseteq Over(q)' /\ Lost(q) \subseteq Lost(q)'
  BY AlertsGrow
  DEF Typed, NoticesTypeOK, AlertingTypeOK, PageOK, NoPage, StoreAlerts,
      Alert, queueVars, Page
<1>1. HistoryOK'
  BY <1>0 DEF Paged, HistoryOK
<1>2. RecordedIfAcked'
  BY <1>0 DEF Paged, RecordedIfAcked
<1>3. ClaimsTold'
  <2>1. \A j \in 1..Alert : Told(j) => Told(j)'
    BY <1>0 DEF Told
  <2> QED BY <1>0, <2>1, ClaimsStayTold DEF Paged
<1>4. DedupedWereTold'
  BY <1>0, DedupedStayTold DEF Paged
<1> QED BY <1>1, <1>2, <1>3, <1>4 DEF Paged

LEMMA AckPaged ==
  ASSUME Typed, AlertingNext, AckAlert, Paged
  PROVE  Paged'
<1> DEFINE q == "alerts"
<1>0. /\ page.next = "ack" /\ page' = NoPage /\ NoPage.next = "none"
      /\ Alert \in Nat /\ Alert' = Alert
      /\ UNCHANGED <<queue, sent, alertRows, deduped, claimed>>
      /\ done'[q] \in {done[q], done[q] \cup {Alert}}
      /\ Over(q) \subseteq Over(q)' /\ Lost(q) \subseteq Lost(q)'
  BY AlertsGrow, AckStep
  DEF Typed, PageOK, NoPage, AckAlert, Alert, Queues
<1>1. HistoryOK'
  BY <1>0 DEF Paged, HistoryOK
<1>2. RecordedIfAcked'
  BY <1>0 DEF Paged, HistoryOK, RecordedIfAcked
<1>3. ClaimsTold'
  <2>1. \A j \in 1..Alert : Told(j) => Told(j)'
    BY <1>0 DEF Told
  <2> QED BY <1>0, <2>1, ClaimsStayTold DEF Paged
<1>4. DedupedWereTold'
  BY <1>0, DedupedStayTold DEF Paged
<1> QED BY <1>1, <1>2, <1>3, <1>4 DEF Paged

(* A crash on the way to the log channel leaves the entry pending for good. *)
LEMMA DiePaged ==
  ASSUME Typed, AlertingNext, AlertingDies, Paged
  PROVE  Paged'
<1> DEFINE q == "alerts"
<1>0. /\ page' = NoPage /\ NoPage.next = "none"
      /\ Alert \in Nat /\ Alert' \in Nat /\ Alert <= Alert'
      /\ UNCHANGED <<queue, done, sent, alertRows, deduped, claimed>>
      /\ Over(q) \subseteq Over(q)' /\ Lost(q) \subseteq Lost(q)'
      /\ page # NoPage => Alert \notin done[q] /\ Alert # 0
  BY AlertsGrow DEF Typed, PageOK, NoPage, AlertingDies, Die, Alert
<1>1. HistoryOK'
  <2>1. (1..Alert) \subseteq 1..Alert'
    BY <1>0
  <2> QED BY <1>0, <2>1 DEF Paged, HistoryOK
<1>2. RecordedIfAcked'
  BY <1>0 DEF Paged, RecordedIfAcked
<1>3. ClaimsTold'
  <2>1. page # NoPage => Alert \in Lost(q)'
    BY <1>0 DEF Lost, Over, AtWork, Alert
  <2>2. \A j \in 1..Alert : Told(j) => Told(j)'
    BY <1>0, <2>1 DEF Told
  <2> QED BY <1>0, <2>2, ClaimsStayTold DEF Paged
<1>4. DedupedWereTold'
  BY <1>0, DedupedStayTold DEF Paged
<1> QED BY <1>1, <1>2, <1>3, <1>4 DEF Paged

LEMMA InitPaged == Init => Paged
  BY DEF Init, QueuesInit, AlertingInit, Paged, HistoryOK, RecordedIfAcked,
         ClaimsTold, DedupedWereTold, NoPage, Queues

LEMMA StepPaged == Typed /\ Paged /\ [Next]_noticeVars => Paged'
<1> SUFFICES ASSUME Typed, Paged, [Next]_noticeVars PROVE Paged'
  OBVIOUS
<1>1. CASE AlertingNext /\ UNCHANGED reportingVars
  <2> USE <1>1
  <2>1. ASSUME NEW n, Add("alerts", n), UNCHANGED <<alertingVars, faults>>
        PROVE  Paged'
    BY <2>1, QuietPaged DEF Add, alertingVars
  <2>2. ASSUME NEW k \in Keys, PublishAlert(k) PROVE Paged'
    BY <2>1, <2>2 DEF PublishAlert
  <2>3. ASSUME NEW k \in Keys, Expire(k) PROVE Paged'
    BY <2>3, QuietPaged DEF Expire, queueVars
  <2>4. CASE ReadAlerts
    BY <2>4, QuietPaged DEF ReadAlerts, ReadBatch, alertingVars
  <2>5. CASE AlertingRestarts
    BY <2>5, QuietPaged DEF AlertingRestarts, Revive, alertingVars
  <2> QED
    BY <2>1, <2>2, <2>3, <2>4, <2>5, BeginPaged, SendPaged, StorePaged,
       AckPaged, DiePaged
    DEF AlertingNext
<1>2. CASE ReportingNext /\ UNCHANGED alertingVars
  <2>1. QueueStep("reports") /\ NoticesTypeOK
    BY <1>2, ReportingStepTyped DEF Typed
  <2>2. /\ queue'["alerts"] = queue["alerts"]
        /\ begun'["alerts"] = begun["alerts"]
        /\ done'["alerts"] = done["alerts"]
    BY <2>1, OtherQueue DEF Queues
  <2> QED
    BY <1>2, <2>2
    DEF Paged, HistoryOK, RecordedIfAcked, ClaimsTold, DedupedWereTold, Told,
        Over, Lost, AtWork, Alert, alertingVars
<1>3. CASE UNCHANGED noticeVars
  BY <1>3
  DEF noticeVars, queueVars, alertingVars, Paged, HistoryOK, RecordedIfAcked,
      ClaimsTold, DedupedWereTold, Told, Over, Lost, AtWork, Alert
<1> QED BY <1>1, <1>2, <1>3, NextSplits

LEMMA AlwaysPaged == Spec => []Paged
<1> QED BY InitPaged, StepPaged, AlwaysTyped, PTL DEF Spec

(* An acknowledged alert has exactly the rows of the sends that succeeded  *)
(* for it: _persist_alert_rows comes between gather() and the XACK.        *)
THEOREM RecordsCorrect == Spec => []RecordedIfAcked
<1>1. Paged => RecordedIfAcked BY DEF Paged
<1> QED BY <1>1, AlwaysPaged, PTL

(* An alert passed over as a duplicate follows one of its key that reached *)
(* the log channel, or that a crash of the worker lost.                    *)
THEOREM DedupedCorrect == Spec => []DedupedWereTold
<1>1. Paged => DedupedWereTold BY DEF Paged
<1> QED BY <1>1, AlwaysPaged, PTL

--------------------------------------------------------------------------
(* The report worker *)

(* Versions only grow: a job asks for one there is, a row is of one there  *)
(* is, and what is being rendered is at least what was asked and what the  *)
(* row says.                                                               *)
VersionsOK ==
  /\ \A i \in Entries("reports") :
       LET job == queue["reports"][i]
       IN job # BadNotice => job.asked <= version[job.doc]
  /\ \A d \in Documents : report[d] <= version[d]

ReportOK ==
  /\ render.next \in {"open", "write", "store"} =>
       /\ Begun("reports").asked <= render.version
       /\ report[Document] <= render.version
       /\ render.version <= version[Document]
  /\ render.next = "store" => file[Document] >= render.version
  /\ render.next = "ack" /\ Begun("reports") # BadNotice =>
       report[Document] >= Begun("reports").asked

Rendered == VersionsOK /\ ReportOK /\ FreshOnceAcked /\ FileBehindRow

(* An entry that is over stays over, and a lost one stays lost.            *)
LEMMA ReportsStayOver ==
  ASSUME Typed, ReportingNext
  PROVE  /\ Over("reports") \subseteq Over("reports")'
         /\ Lost("reports") \subseteq Lost("reports")'
<1> DEFINE q == "reports"
<1>0. /\ q \in Queues /\ NoticesTypeOK /\ QueueStep(q) /\ RenderOK
      /\ begun[q] \in Nat /\ begun'[q] \in Nat /\ begun[q] <= begun'[q]
      /\ ReportingTypeOK
  BY ReportingStepTyped
  DEF Typed, NoticesTypeOK, QueuesTypeOK, Queues, QueueStep, BooksOK
<1>1. \/ render = NoRender
      \/ begun' = begun
      \/ render' = NoRender
  <2>1. ASSUME Add(q, BadNotice) PROVE begun' = begun
    BY <2>1 DEF Add
  <2>2. ASSUME NEW d \in Documents, Enrich(d) \/ Ask(d)
        PROVE  begun' = begun
    BY <2>2 DEF Enrich, Ask, Add, queueVars
  <2>3. ASSUME ReadJobs \/ OpenFile \/ WriteFile \/ StoreReport
        PROVE  begun' = begun
    BY <2>3 DEF ReadJobs, ReadBatch, OpenFile, WriteFile, StoreReport, queueVars
  <2>4. ASSUME BeginJob PROVE render = NoRender
    BY <2>4 DEF BeginJob
  <2>5. ASSUME AckReport \/ ReportingDies \/ GenerateFails
        PROVE  render' = NoRender
    BY <2>5 DEF AckReport, ReportingDies, GenerateFails, AfterFailure
  <2>6. ASSUME ReportingRestarts PROVE begun' = begun
    BY <2>6 DEF ReportingRestarts, Revive
  <2> QED
    BY <2>1, <2>2, <2>3, <2>4, <2>5, <2>6 DEF ReportingNext
<1>2. render = NoRender => render' = NoRender \/ begun'[q] = begun[q] + 1
  <2>1. ASSUME render = NoRender, render' # NoRender PROVE BeginJob
    BY <2>1
    DEF ReportingNext, Enrich, Ask, ReadJobs, OpenFile, WriteFile,
        StoreReport, GenerateFails, AckReport, ReportingDies,
        ReportingRestarts, reportingVars, NoRender, Proceed
  <2> QED BY <1>0, <2>1, BeginStep DEF BeginJob
<1>3. Over(q) \subseteq Over(q)'
  BY <1>0, <1>1, <1>2 DEF Over, AtWork
<1>4. \/ done'[q] = done[q]
      \/ render # NoRender /\ done'[q] \subseteq done[q] \cup {begun[q]}
  <2>1. ASSUME AckReport
        PROVE  render # NoRender /\ done'[q] \subseteq done[q] \cup {begun[q]}
    BY <1>0, <2>1, AckStep DEF AckReport, RenderOK, NoRender
  <2>2. ASSUME ~AckReport PROVE UNCHANGED done
    BY <2>2
    DEF ReportingNext, Enrich, Ask, ReadJobs, OpenFile, WriteFile,
        StoreReport, GenerateFails, BeginJob, ReportingDies,
        ReportingRestarts, Add, ReadBatch, Begin, Die, Revive, queueVars
  <2> QED BY <2>1, <2>2
<1>5. render # NoRender => begun[q] \notin Over(q)
  BY <1>0 DEF Over, AtWork
<1> QED
  BY <1>3, <1>4, <1>5 DEF Lost

(* What the steps of the report worker have in common.                     *)
LEMMA ReportsGrow ==
  ASSUME Typed, ReportingNext
  PROVE  /\ Len(queue["reports"]) \in Nat /\ Len(queue'["reports"]) \in Nat
         /\ begun["reports"] \in Nat
         /\ begun["reports"] <= Len(queue["reports"])
         /\ done["reports"] \subseteq 1..begun["reports"]
         /\ Len(queue["reports"]) <= Len(queue'["reports"])
         /\ \A i \in Entries("reports") :
              /\ queue["reports"][i] \in Job \cup {BadNotice}
              /\ queue'["reports"][i] = queue["reports"][i]
         /\ Over("reports") \subseteq Over("reports")'
         /\ Lost("reports") \subseteq Lost("reports")'
         /\ Over("reports") \subseteq Entries("reports")
         /\ version \in [Documents -> Nat]
         /\ report \in [Documents -> Nat]
         /\ file \in [Documents -> Nat]
         /\ torn \subseteq Documents
<1>1. QueueStep("reports") /\ NoticesTypeOK /\ "reports" \in Queues
      /\ ReportingTypeOK
  BY ReportingStepTyped DEF Typed, Queues, NoticesTypeOK
<1>2. /\ queue["reports"] \in Seq(Job \cup {BadNotice})
      /\ Len(queue["reports"]) \in Nat
      /\ BooksOK("reports")
  BY <1>1 DEF NoticesTypeOK, QueuesTypeOK, BooksOK
<1> QED
  BY <1>1, <1>2, ReportsStayOver
  DEF QueueStep, BooksOK, Entries, Over, ReportingTypeOK

(* Rows only get newer, so what was fresh stays fresh.                     *)
LEMMA StayFresh ==
  ASSUME Typed, ReportingNext, FreshOnceAcked,
         done'["reports"] = done["reports"],
         \A d \in Documents : report[d] <= report'[d],
         report' \in [Documents -> Nat]
  PROVE  FreshOnceAcked'
<1> SUFFICES ASSUME NEW i \in done["reports"],
                    queue'["reports"][i] # BadNotice
             PROVE  LET job == queue'["reports"][i]
                    IN report'[job.doc] >= job.asked
  BY DEF FreshOnceAcked
<1>1. i \in Entries("reports")
  BY ReportsGrow DEF Entries
<1>2. /\ queue'["reports"][i] = queue["reports"][i]
      /\ queue["reports"][i] \in Job
  BY <1>1, ReportsGrow
<1>3. report[queue["reports"][i].doc] >= queue["reports"][i].asked
  BY <1>2 DEF FreshOnceAcked
<1> QED
  BY <1>2, <1>3, ReportsGrow DEF Job

(* A torn file whose job is lost stays accounted for.                      *)
LEMMA LostStaysSo ==
  ASSUME Typed, ReportingNext, NEW d,
         \E i \in Lost("reports") :
           queue["reports"][i] # BadNotice /\ queue["reports"][i].doc = d
  PROVE  \E i \in Lost("reports")' :
           queue'["reports"][i] # BadNotice /\ queue'["reports"][i].doc = d
<1>1. PICK i \in Lost("reports") :
        queue["reports"][i] # BadNotice /\ queue["reports"][i].doc = d
  OBVIOUS
<1>2. i \in Entries("reports")
  BY <1>1, ReportsGrow DEF Lost
<1> QED BY <1>1, <1>2, ReportsGrow

(* A step that adds no entry leaves the entries as they are.               *)
LEMMA SameQueue ==
  ASSUME Typed, Rendered, ReportingNext,
         queue' = queue,
         \A d \in Documents : version[d] <= version'[d],
         \A d \in Documents : report'[d] <= version'[d],
         version' \in [Documents -> Nat]
  PROVE  VersionsOK'
<1> SUFFICES ASSUME NEW i \in Entries("reports"),
                    queue["reports"][i] # BadNotice
             PROVE  LET job == queue["reports"][i]
                    IN job.asked <= version'[job.doc]
  BY DEF VersionsOK, Entries
<1>1. queue["reports"][i] \in Job
  BY ReportsGrow
<1>2. queue["reports"][i].asked <= version[queue["reports"][i].doc]
  BY DEF Rendered, VersionsOK
<1> QED BY <1>1, <1>2, ReportsGrow DEF Job

LEMMA AskRendered ==
  ASSUME Typed, ReportingNext, Rendered, NEW n, Add("reports", n),
         n = BadNotice \/ (n \in Job /\ n.asked <= version[n.doc]),
         UNCHANGED reportingVars
  PROVE  Rendered'
<1> DEFINE q == "reports"
<1>0. /\ queue'[q] = Append(queue[q], n)
      /\ UNCHANGED <<begun, done, version, render, file, torn, report>>
      /\ queue[q] \in Seq(Job \cup {BadNotice})
  BY AddStep DEF Typed, Queues, NoticesTypeOK, reportingVars
<1>1. VersionsOK'
  BY <1>0 DEF Rendered, VersionsOK, Entries
<1>2. render # NoRender => Begun(q)' = Begun(q)
  BY <1>0, ReportsGrow DEF Typed, RenderOK, Begun, Entries
<1>3. ReportOK'
  BY <1>0, <1>2 DEF Rendered, ReportOK, Document, NoRender
<1>4. FreshOnceAcked'
  BY <1>0, StayFresh, ReportsGrow DEF Rendered
<1>5. FileBehindRow'
  <2>1. render.next = "write" => Document' = Document
    BY <1>2 DEF Document, NoRender
  <2> QED BY <1>0, <2>1, LostStaysSo DEF Rendered, FileBehindRow
<1> QED BY <1>1, <1>3, <1>4, <1>5 DEF Rendered

LEMMA EnrichRendered ==
  ASSUME Typed, ReportingNext, Rendered, NEW d \in Documents, Enrich(d)
  PROVE  Rendered'
<1>0. /\ version' = [version EXCEPT ![d] = @ + 1]
      /\ UNCHANGED <<queue, begun, done, render, file, torn, report>>
      /\ version' \in [Documents -> Nat]
      /\ \A e \in Documents : version[e] <= version'[e]
  BY ReportsGrow DEF Enrich, queueVars
<1>1. VersionsOK'
  <2>1. \A e \in Documents : report'[e] <= version'[e]
    BY <1>0, ReportsGrow DEF Rendered, VersionsOK
  <2> QED BY <1>0, <2>1, SameQueue
<1>2. ReportOK'
  <2>1. ASSUME render.next \in {"open", "write", "store"}
        PROVE  render.version <= version'[Document]
    <3>1. render \in Render /\ Document \in Documents
      BY <2>1, ReportsGrow
      DEF Typed, NoticesTypeOK, ReportingTypeOK, RenderOK, NoRender, Document,
          Begun, Job, Entries
    <3> QED
      BY <1>0, <2>1, <3>1, ReportsGrow DEF Rendered, ReportOK, Render
  <2> QED BY <1>0, <2>1 DEF Rendered, ReportOK, Document, Begun
<1>3. FreshOnceAcked'
  BY <1>0 DEF Rendered, FreshOnceAcked
<1>4. FileBehindRow'
  BY <1>0
  DEF Rendered, FileBehindRow, Document, Begun, Lost, Over, AtWork
<1> QED BY <1>1, <1>2, <1>3, <1>4 DEF Rendered

(* The steps that touch neither entries, books nor the report under way.   *)
LEMMA QuietRendered ==
  ASSUME Typed, ReportingNext, Rendered, UNCHANGED <<queue, begun, done>>,
         UNCHANGED reportingVars
  PROVE  Rendered'
  BY DEF Rendered, VersionsOK, ReportOK, FreshOnceAcked, FileBehindRow,
         Document, Begun, Lost, Over, AtWork, Entries, reportingVars

LEMMA BeginRendered ==
  ASSUME Typed, ReportingNext, Rendered, BeginJob
  PROVE  Rendered'
<1> DEFINE q == "reports"
           job == Upcoming(q)
<1>0. /\ render = NoRender
      /\ UNCHANGED <<queue, done, version, file, torn, report>>
      /\ begun[q] + 1 \in Entries(q)
      /\ Begun(q)' = job /\ job = queue[q][begun[q] + 1]
  BY BeginStep DEF Typed, BeginJob, Begin, Queues, Upcoming, Entries
<1>1. VersionsOK'
  BY <1>0 DEF Rendered, VersionsOK, Entries
<1>2. ReportOK'
  <2>1. \/ render'.next \in {"none"}
        \/ job = BadNotice /\ render'.next = "ack"
        \/ /\ job # BadNotice /\ render'.next = "open"
           /\ render'.version = version[job.doc]
    BY DEF BeginJob, AfterContext, AfterFailure, NoRender
  <2>2. ASSUME job # BadNotice
        PROVE  /\ job.doc \in Documents
               /\ job.asked <= version[job.doc]
               /\ report[job.doc] <= version[job.doc]
               /\ version[job.doc] \in Nat
    BY <1>0, <2>2, ReportsGrow DEF Rendered, VersionsOK, Job
  <2>3. Document' = job.doc
    BY <1>0 DEF Document
  <2> QED BY <1>0, <2>1, <2>2, <2>3 DEF ReportOK
<1>3. FreshOnceAcked'
  BY <1>0 DEF Rendered, FreshOnceAcked
<1>4. FileBehindRow'
  BY <1>0, LostStaysSo DEF Rendered, FileBehindRow, NoRender
<1> QED BY <1>1, <1>2, <1>3, <1>4 DEF Rendered

(* The document of the report under way.                                   *)
LEMMA AtWorkOn ==
  ASSUME Typed, ReportingNext, render.next \in {"open", "write", "store"}
  PROVE  /\ render \in Render /\ render # NoRender
         /\ Document \in Documents /\ Begun("reports") \in Job
         /\ render.version \in Nat
         /\ version[Document] \in Nat /\ report[Document] \in Nat
<1>1. /\ render \in Render /\ render # NoRender
      /\ Begun("reports") \in Job
  BY ReportsGrow
  DEF Typed, NoticesTypeOK, ReportingTypeOK, RenderOK, NoRender, Begun, Entries
<1> QED BY <1>1, ReportsGrow DEF Document, Job, Render

LEMMA OpenRendered ==
  ASSUME Typed, ReportingNext, Rendered, OpenFile
  PROVE  Rendered'
<1>0. /\ render.next = "open" /\ render'.next = "write"
      /\ render'.version = render.version
      /\ torn' = torn \cup {Document}
      /\ UNCHANGED <<queue, begun, done, version, file, report>>
      /\ Document' = Document /\ Begun("reports")' = Begun("reports")
  BY AtWorkOn DEF OpenFile, Proceed, queueVars, Document, Begun, Render
<1>1. VersionsOK' /\ FreshOnceAcked' /\ ReportOK'
  BY <1>0
  DEF Rendered, VersionsOK, FreshOnceAcked, ReportOK, Entries
<1>2. FileBehindRow'
  BY <1>0, LostStaysSo DEF Rendered, FileBehindRow
<1> QED BY <1>1, <1>2 DEF Rendered

LEMMA WriteRendered ==
  ASSUME Typed, ReportingNext, Rendered, WriteFile
  PROVE  Rendered'
<1>0. /\ render.next = "write" /\ render'.next = "store"
      /\ render'.version = render.version
      /\ torn' = torn \ {Document}
      /\ file' = [file EXCEPT ![Document] = render.version]
      /\ UNCHANGED <<queue, begun, done, version, report>>
      /\ Document' = Document /\ Begun("reports")' = Begun("reports")
      /\ Document \in Documents /\ render.version \in Nat
      /\ file \in [Documents -> Nat]
  BY AtWorkOn, ReportsGrow
  DEF WriteFile, Proceed, queueVars, Document, Begun, Render
<1>1. VersionsOK' /\ FreshOnceAcked' /\ ReportOK'
  BY <1>0
  DEF Rendered, VersionsOK, FreshOnceAcked, ReportOK, Entries
<1>2. FileBehindRow'
  <2>1. report[Document] <= render.version
    BY <1>0 DEF Rendered, ReportOK
  <2> QED BY <1>0, <2>1, LostStaysSo, AtWorkOn DEF Rendered, FileBehindRow
<1> QED BY <1>1, <1>2 DEF Rendered

LEMMA StoreRendered ==
  ASSUME Typed, ReportingNext, Rendered, StoreReport
  PROVE  Rendered'
<1>0. /\ render.next = "store" /\ render'.next = "ack"
      /\ report' = [report EXCEPT ![Document] = render.version]
      /\ UNCHANGED <<queue, begun, done, version, file, torn>>
      /\ Document' = Document /\ Begun("reports")' = Begun("reports")
      /\ Document \in Documents /\ render.version \in Nat
      /\ Begun("reports") \in Job
      /\ report \in [Documents -> Nat] /\ version \in [Documents -> Nat]
      /\ file \in [Documents -> Nat]
  BY AtWorkOn, ReportsGrow
  DEF StoreReport, Proceed, queueVars, Document, Begun, Render
<1>1. /\ Begun("reports").asked <= render.version
      /\ report[Document] <= render.version
      /\ render.version <= version[Document]
      /\ file[Document] >= render.version
  BY <1>0 DEF Rendered, ReportOK
<1>2. VersionsOK'
  BY <1>0, <1>1, SameQueue DEF Rendered, VersionsOK
<1>3. ReportOK'
  BY <1>0, <1>1 DEF ReportOK, Job
<1>4. FreshOnceAcked'
  <2>1. \A d \in Documents : report[d] <= report'[d]
    BY <1>0, <1>1
  <2> QED BY <1>0, <2>1, StayFresh DEF Rendered
<1>5. FileBehindRow'
  BY <1>0, <1>1, LostStaysSo DEF Rendered, FileBehindRow
<1> QED BY <1>2, <1>3, <1>4, <1>5 DEF Rendered

(* A report given up, by a failure or a crash, leaves its entry lost.      *)
LEMMA GiveUpRendered ==
  ASSUME Typed, ReportingNext, Rendered, GenerateFails \/ ReportingDies
  PROVE  Rendered'
<1> DEFINE q == "reports"
<1>0. /\ render' = NoRender /\ NoRender.next = "none"
      /\ UNCHANGED <<queue, done, version, file, torn, report>>
      /\ begun[q] \in Nat /\ begun'[q] \in Nat /\ begun[q] <= begun'[q]
  BY ReportingStepTyped, ReportsGrow
  DEF GenerateFails, ReportingDies, Die, AfterFailure, NoRender, queueVars,
      QueueStep, BooksOK
<1>1. VersionsOK' /\ FreshOnceAcked' /\ ReportOK'
  BY <1>0 DEF Rendered, VersionsOK, FreshOnceAcked, ReportOK, Entries
<1>2. ASSUME render.next = "write"
      PROVE  /\ begun[q] \in Lost(q)'
             /\ queue'[q][begun[q]] # BadNotice
             /\ queue'[q][begun[q]].doc = Document
  BY <1>0, <1>2
  DEF Typed, RenderOK, NoRender, Lost, Over, AtWork, Document, Begun
<1>3. FileBehindRow'
  BY <1>0, <1>2, LostStaysSo DEF Rendered, FileBehindRow
<1> QED BY <1>1, <1>3 DEF Rendered

LEMMA AckRendered ==
  ASSUME Typed, ReportingNext, Rendered, AckReport
  PROVE  Rendered'
<1> DEFINE q == "reports"
<1>0. /\ render.next = "ack" /\ render' = NoRender /\ NoRender.next = "none"
      /\ UNCHANGED <<queue, begun, version, file, torn, report>>
      /\ done'[q] \in {done[q], done[q] \cup {begun[q]}}
  BY AckStep DEF Typed, RenderOK, NoRender, AckReport, Queues
<1>1. VersionsOK' /\ ReportOK'
  BY <1>0 DEF Rendered, VersionsOK, ReportOK, Entries
<1>2. FreshOnceAcked'
  BY <1>0 DEF Rendered, FreshOnceAcked, ReportOK, Document, Begun
<1>3. FileBehindRow'
  BY <1>0, LostStaysSo DEF Rendered, FileBehindRow
<1> QED BY <1>1, <1>2, <1>3 DEF Rendered

LEMMA InitRendered == Init => Rendered
  BY DEF Init, QueuesInit, ReportingInit, Rendered, VersionsOK, ReportOK,
         FreshOnceAcked, FileBehindRow, NoRender, Queues, Entries

LEMMA StepRendered == Typed /\ Rendered /\ [Next]_noticeVars => Rendered'
<1> SUFFICES ASSUME Typed, Rendered, [Next]_noticeVars PROVE Rendered'
  OBVIOUS
<1>1. CASE ReportingNext /\ UNCHANGED alertingVars
  <2> USE <1>1
  <2>1. ASSUME NEW d \in Documents, Ask(d) PROVE Rendered'
    <3>1. [doc |-> d, asked |-> version[d]] \in Job /\ version[d] <= version[d]
      BY ReportsGrow DEF Job
    <3> QED BY <2>1, <3>1, AskRendered DEF Ask
  <2>2. CASE Add("reports", BadNotice) /\ UNCHANGED <<reportingVars, faults>>
    BY <2>2, AskRendered
  <2>3. CASE ReadJobs
    BY <2>3, QuietRendered DEF ReadJobs, ReadBatch
  <2>4. CASE ReportingRestarts
    BY <2>4, QuietRendered DEF ReportingRestarts, Revive
  <2> QED
    BY <2>1, <2>2, <2>3, <2>4, EnrichRendered, BeginRendered, OpenRendered,
       WriteRendered, StoreRendered, GiveUpRendered, AckRendered
    DEF ReportingNext
<1>2. CASE AlertingNext /\ UNCHANGED reportingVars
  <2>1. QueueStep("alerts") /\ NoticesTypeOK
    BY <1>2, AlertingStepTyped DEF Typed
  <2>2. /\ queue'["reports"] = queue["reports"]
        /\ begun'["reports"] = begun["reports"]
        /\ done'["reports"] = done["reports"]
    BY <2>1, OtherQueue DEF Queues
  <2> QED
    BY <1>2, <2>2
    DEF Rendered, VersionsOK, ReportOK, FreshOnceAcked, FileBehindRow,
        Document, Begun, Lost, Over, AtWork, Entries, reportingVars
<1>3. CASE UNCHANGED noticeVars
  BY <1>3
  DEF noticeVars, queueVars, reportingVars, Rendered, VersionsOK, ReportOK,
      FreshOnceAcked, FileBehindRow, Document, Begun, Lost, Over, AtWork,
      Entries
<1> QED BY <1>1, <1>2, <1>3, NextSplits

LEMMA AlwaysRendered == Spec => []Rendered
<1> QED BY InitRendered, StepRendered, AlwaysTyped, PTL DEF Spec

(* An acknowledged job has a report at least as new as the job: a failed   *)
(* one is never acknowledged, and a later report is never of an older      *)
(* version.                                                                *)
THEOREM ReportsFresh == Spec => []FreshOnceAcked
<1>1. Rendered => FreshOnceAcked BY DEF Rendered
<1> QED BY <1>1, AlwaysRendered, PTL

(* A reports row speaks of a file that is there and no older, but while    *)
(* open(path, "wb") has cut it off and write() has not filled it; and a    *)
(* file stays cut off only behind a job that was given up.                 *)
THEOREM FilesBehindRows == Spec => []FileBehindRow
<1>1. Rendered => FileBehindRow BY DEF Rendered
<1> QED BY <1>1, AlwaysRendered, PTL
=============================================================================
