----------------------------- MODULE Reporting -----------------------------
(***************************************************************************)
(* workers/reports/worker.py, with its producers: the fingerprint worker   *)
(* and POST /api/sessions/{id}/report.  What a report says is the version  *)
(* of the session's rows it was rendered from.  Rendering and writing      *)
(* block the worker's event loop, but not the API, which serves the file.  *)
(***************************************************************************)
EXTENDS NoticeQueues

CONSTANTS
  Documents,   \* (session_id, format)
  MaxVersion   \* bound: enrichments of a session

ASSUME ReportingAssumption == MaxVersion \in Nat

VARIABLES
  version,   \* document -> the enrichments its session has had
  render,    \* the report under way, or NoRender
  file,      \* document -> the version written to disk, 0 for none
  torn,      \* documents whose file is truncated and not rewritten yet
  report     \* the `reports` table: document -> version, 0 for no row

reportingVars == <<version, render, file, torn, report>>

(* A job; asked is history: the session's version when it was published.   *)
Job == [doc : Documents, asked : Nat]

Render == [next : {"open", "write", "store", "ack"}, version : Nat]
NoRender == [next |-> "none", version |-> 0]

ReportingTypeOK ==
  /\ version \in [Documents -> Nat \ {0}]
  /\ render \in Render \cup {NoRender}
  /\ file \in [Documents -> Nat]
  /\ torn \subseteq Documents
  /\ report \in [Documents -> Nat]

ReportingInit ==
  /\ version = [d \in Documents |-> 1]
  /\ render = NoRender
  /\ file = [d \in Documents |-> 0]
  /\ torn = {}
  /\ report = [d \in Documents |-> 0]

(* The fingerprint worker commits the rows of a session anew.              *)
Enrich(d) ==
  /\ version[d] < MaxVersion
  /\ version' = [version EXCEPT ![d] = @ + 1]
  /\ UNCHANGED <<render, file, torn, report, queueVars, faults>>

(* publish_report_job().                                                   *)
Ask(d) ==
  /\ Add("reports", [doc |-> d, asked |-> version[d]])
  /\ UNCHANGED <<reportingVars, faults>>

ReadJobs == ReadBatch("reports") /\ UNCHANGED <<reportingVars, faults>>

(* Mutant: a failed job is acknowledged.                                   *)
AckAnyway == [next |-> "ack", version |-> 0]

AfterFailure == NoRender

(* Mutant: the row comes before the file, which is never written.          *)
RowFirst == "store"

AfterContext == "open"

(* _process_entry() up to the result of _build_report_context().           *)
BeginJob ==
  LET job == Upcoming("reports")
  IN /\ render = NoRender
     /\ Begin("reports")
     /\ \/ /\ job = BadNotice
           /\ render' = [next |-> "ack", version |-> 0]
           /\ UNCHANGED faults
        \/ /\ job # BadNotice
           /\ render' = [next |-> AfterContext, version |-> version[job.doc]]
           /\ UNCHANGED faults
        \/ /\ job # BadNotice
           /\ Fault
           /\ render' = AfterFailure
     /\ UNCHANGED <<version, file, torn, report>>

Document == Begun("reports").doc
Proceed(step, next) == /\ render.next = step
                       /\ render' = [render EXCEPT !.next = next]

(* open(path, "wb") truncates the file ...                                 *)
OpenFile ==
  /\ Proceed("open", "write")
  /\ torn' = torn \cup {Document}
  /\ UNCHANGED <<version, file, report, queueVars, faults>>

(* ... and write() fills it.                                               *)
WriteFile ==
  /\ Proceed("write", "store")
  /\ torn' = torn \ {Document}
  /\ file' = [file EXCEPT ![Document] = render.version]
  /\ UNCHANGED <<version, report, queueVars, faults>>

(* _upsert_report_row(): DELETE and INSERT in one transaction.             *)
StoreReport ==
  /\ Proceed("store", "ack")
  /\ report' = [report EXCEPT ![Document] = render.version]
  /\ UNCHANGED <<version, file, torn, queueVars, faults>>

(* An exception of _generate(): logged, and the entry is not acknowledged. *)
GenerateFails ==
  /\ render.next \in {"open", "write", "store"}
  /\ Fault
  /\ render' = AfterFailure
  /\ UNCHANGED <<version, file, torn, report, queueVars>>

AckReport ==
  /\ render.next = "ack"
  /\ AckBegun("reports")
  /\ render' = NoRender
  /\ UNCHANGED <<version, file, torn, report>>

ReportingDies ==
  /\ Die("reports")
  /\ render' = NoRender
  /\ UNCHANGED <<version, file, torn, report>>

ReportingRestarts ==
  /\ Revive("reports")
  /\ UNCHANGED <<reportingVars, faults>>

ReportingStep ==
  \/ ReadJobs \/ BeginJob \/ OpenFile \/ WriteFile
  \/ StoreReport \/ AckReport
=============================================================================
