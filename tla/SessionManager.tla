--------------------------- MODULE SessionManager ---------------------------
(***************************************************************************)
(* core/session_manager.py, with the honeypot listeners that call it.      *)
(*                                                                         *)
(* Each call of SessionManager is two steps that nothing makes atomic: a   *)
(* PostgreSQL commit, then an XADD.  A call that dies between them leaves  *)
(* a row no stream entry announces.  A listener makes its calls one after  *)
(* the other, except the FTP handler, which stops waiting for a            *)
(* record_event after 5 s and goes on while the coroutine is still         *)
(* running: its calls overlap, also with its close.                        *)
(***************************************************************************)
EXTENDS EventStream, Faults

CONSTANT Detached   \* the sessions of the FTP handler

ASSUME DetachedAssumption == Detached \subseteq Sessions

VARIABLES
  listener,   \* where each session's listener stands
  calls,      \* SessionManager calls under way
  row,        \* the `sessions` table: the state column, or "none"
  eventRows   \* the `events` table: event numbers committed per session

managerVars == <<listener, calls, row, eventRows>>

(* "new": no connection yet; "opening": inside open(); "open": open()      *)
(* returned the session id; "closing": inside close(); "ended": the        *)
(* listener is done with the session, or never got its id.                 *)
ListenerState == {"new", "opening", "open", "closing", "ended"}

(* A call and the next thing it does.                                      *)
Call == [sid : Sessions, ev : EventNo, next : {"commit", "publish"}]

ManagerTypeOK ==
  /\ listener \in [Sessions -> ListenerState]
  /\ calls \subseteq Call
  /\ row \in [Sessions -> {"none", "OPEN", "CLOSED"}]
  /\ eventRows \in [Sessions -> SUBSET Evidence]

ManagerInit ==
  /\ listener = [s \in Sessions |-> "new"]
  /\ calls = {}
  /\ row = [s \in Sessions |-> "none"]
  /\ eventRows = [s \in Sessions |-> {}]

(* Mutant: the XADD comes first and the commit never.                      *)
PublishFirst(s, ev) == [sid |-> s, ev |-> ev, next |-> "publish"]

NewCall(s, ev) == [sid |-> s, ev |-> ev, next |-> "commit"]
Busy(s) == \E c \in calls : c.sid = s
Started(s, ev) == \/ \E c \in calls : c.sid = s /\ c.ev = ev
                  \/ ev \in eventRows[s]

(* A connection arrives and the listener calls open().                     *)
CallOpen(s) ==
  /\ listener[s] = "new"
  /\ listener' = [listener EXCEPT ![s] = "opening"]
  /\ calls' = calls \cup {NewCall(s, OpenEv)}
  /\ UNCHANGED <<row, eventRows, faults, streamVars>>

(* The attacker does something and the listener calls record_event().      *)
(* Events are numbered in the order of their calls.                        *)
CallRecord(s, ev) ==
  /\ listener[s] = "open"
  /\ Busy(s) => s \in Detached
  /\ ev \in Evidence
  /\ ~Started(s, ev)
  /\ \A e \in Evidence : e > ev => ~Started(s, e)
  /\ calls' = calls \cup {NewCall(s, ev)}
  /\ UNCHANGED <<listener, row, eventRows, faults, streamVars>>

(* The connection ends and the listener calls close().                     *)
CallClose(s) ==
  /\ listener[s] = "open"
  /\ Busy(s) => s \in Detached
  /\ listener' = [listener EXCEPT ![s] = "closing"]
  /\ calls' = calls \cup {NewCall(s, CloseEv)}
  /\ UNCHANGED <<row, eventRows, faults, streamVars>>

(* The database half of a call commits.                                    *)
Commit(c) ==
  /\ c.next = "commit"
  /\ calls' = (calls \ {c}) \cup {[c EXCEPT !.next = "publish"]}
  /\ row' = [row EXCEPT ![c.sid] = CASE c.ev = OpenEv -> "OPEN"
                                     [] c.ev = CloseEv -> "CLOSED"
                                     [] OTHER -> @]
  /\ eventRows' = [eventRows EXCEPT ![c.sid] =
                     IF c.ev \in Evidence THEN @ \cup {c.ev} ELSE @]
  /\ UNCHANGED <<listener, faults, streamVars>>

(* The Redis half of a call: XADD, and the call returns.                   *)
Returned(c) ==
  [listener EXCEPT ![c.sid] =
     IF c.ev = OpenEv /\ @ = "opening" THEN "open"
     ELSE IF c.ev = CloseEv THEN "ended" ELSE @]

Publish(c) ==
  /\ c.next = "publish"
  /\ XAdd([sid |-> c.sid, ev |-> c.ev])
  /\ calls' = calls \ {c}
  /\ listener' = Returned(c)
  /\ UNCHANGED <<row, eventRows, faults>>

(* The commit or the XADD of an open() or a close() raises: the listener   *)
(* is done with the session.                                               *)
OpenOrCloseFails(c) ==
  /\ Fault
  /\ c.ev \notin Evidence
  /\ calls' = calls \ {c}
  /\ listener' = [listener EXCEPT ![c.sid] = "ended"]
  /\ UNCHANGED <<row, eventRows, streamVars>>

(* A record_event raises: the FTP handler logs it and goes on; elsewhere   *)
(* the exception ends the connection, with a close() where the listener    *)
(* calls it on that path (rdp) and without one where it does not (ssh).    *)
RecordFails(c) ==
  /\ Fault
  /\ c.ev \in Evidence
  /\ \/ /\ c.sid \in Detached
        /\ calls' = calls \ {c}
        /\ UNCHANGED listener
     \/ /\ c.sid \notin Detached
        /\ calls' = calls \ {c}
        /\ listener' = [listener EXCEPT ![c.sid] = "ended"]
     \/ /\ c.sid \notin Detached
        /\ calls' = (calls \ {c}) \cup {NewCall(c.sid, CloseEv)}
        /\ listener' = [listener EXCEPT ![c.sid] = "closing"]
  /\ UNCHANGED <<row, eventRows, streamVars>>

(* The threads of ssh and ftp wait 10 s for open() and then drop the       *)
(* connection, while the open() goes on and may still complete.            *)
OpenTimesOut(s) ==
  /\ Fault
  /\ listener[s] = "opening"
  /\ listener' = [listener EXCEPT ![s] = "ended"]
  /\ UNCHANGED <<calls, row, eventRows, streamVars>>

(* The listener process dies with the session's connection in it.          *)
ListenerDies(s) ==
  /\ Fault
  /\ listener[s] \in {"opening", "open", "closing"}
  /\ listener' = [listener EXCEPT ![s] = "ended"]
  /\ calls' = {c \in calls : c.sid # s}
  /\ UNCHANGED <<row, eventRows, streamVars>>
=============================================================================
