----------------------------- MODULE Listeners -----------------------------
(***************************************************************************)
(* The connections of the honeypots other than SSH: what each handler      *)
(* counts, what it writes through the session manager and where it ends    *)
(* when a call of the manager fails (services/).  Every call commits and   *)
(* then publishes; it may fail before its commit or after it.              *)
(***************************************************************************)
EXTENDS Integers

CONSTANTS
  Peers,         \* connections
  MaxCommands,   \* bound: commands of a connection; TELNET_MAX_ATTEMPTS etc.
  CallFaults     \* bound: calls that fail or come too late

ASSUME ListenersAssumption == MaxCommands \in Nat \ {0} /\ CallFaults \in Nat

VARIABLES
  peers,      \* the connections
  callFaults  \* how many calls have failed

listenerVars == <<peers, callFaults>>

(* What tells the handlers apart.  most: the events of a connection;       *)
(* counted: when an event is counted, before its call or after it, or      *)
(* never, because close() is given a 1; onError: where a failed            *)
(* record_event() leads; cut: where an exception that is not caught can    *)
(* end the handler between two calls.                                      *)
Http == [most |-> 1, counted |-> "never", onError |-> {"over"}, cut |-> {"closing"}]
Tls == [most |-> 1, counted |-> "never", onError |-> {"over"}, cut |-> {}]
Rdp == [most |-> 1, counted |-> "after", onError |-> {"closing"}, cut |-> {}]

(* An error of the database driver that is a ConnectionError or a          *)
(* TimeoutError is taken for the client's; a line too long for the         *)
(* stream's buffer is nobody's.                                            *)
Telnet == [most |-> MaxCommands, counted |-> "before",
           onError |-> {"closing", "over"}, cut |-> {"serving"}]
Smtp == [most |-> MaxCommands, counted |-> "before",
         onError |-> {"closing", "over"}, cut |-> {"serving"}]
RedisTrap == [most |-> MaxCommands, counted |-> "before",
              onError |-> {"closing", "over"}, cut |-> {}]

(* A failure is logged and the connection goes on.                         *)
Ftp == [most |-> MaxCommands, counted |-> "before",
        onError |-> {"serving"}, cut |-> {}]

Handler == [http |-> Http, tls |-> Tls, rdp |-> Rdp, telnet |-> Telnet,
            smtp |-> Smtp, redis |-> RedisTrap, ftp |-> Ftp]

(* row: the session's state in the table; rows: its events there; late:    *)
(* calls the FTP handler no longer waits for; stated: the event_count;     *)
(* failed: how many of its calls did, or were cut off.                     *)
NoPeer == [service |-> "none", at |-> "none", count |-> 0, seen |-> 0, row |-> "none",
           rows |-> 0, late |-> 0, stated |-> 0, failed |-> 0]

ListenersInit ==
  /\ peers = [p \in Peers |-> NoPeer]
  /\ callFaults = 0

Kind(p) == Handler[peers[p].service]
Becomes(p, new) == peers' = [peers EXCEPT ![p] = new]
Fails(p, new) ==
  /\ callFaults < CallFaults
  /\ callFaults' = callFaults + 1
  /\ Becomes(p, [new EXCEPT !.failed = @ + 1])

(* An address that is blocked is turned away before anything is written.   *)
PeerConnects(p, service) ==
  /\ peers[p].at = "none"
  /\ \E at \in {"opening", "over"} :
       Becomes(p, [peers[p] EXCEPT !.service = service, !.at = at])
  /\ UNCHANGED callFaults

OpenSession(p) ==
  /\ peers[p].at = "opening"
  /\ Becomes(p, [peers[p] EXCEPT !.at = "serving", !.row = "OPEN"])
  /\ UNCHANGED callFaults

OpenSessionFails(p) ==
  /\ peers[p].at = "opening"
  /\ \E row \in {"none", "OPEN"} :
       Fails(p, [peers[p] EXCEPT !.at = "over", !.row = row])

(* What the client sends, and an RDP or TLS client that sends nothing.     *)
CommandArrives(p) ==
  /\ peers[p].at = "serving" /\ peers[p].seen < Kind(p).most
  /\ Becomes(p, [peers[p] EXCEPT !.at = "recording", !.seen = @ + 1,
                   !.count = IF Kind(p).counted = "before" THEN @ + 1 ELSE @])
  /\ UNCHANGED callFaults

(* Mutant: an event that cannot be recorded is counted all the same.       *)
CountedAnyway(p, kept) == IF Kind(p).counted = "after" THEN 1 ELSE 0
(* The event is counted after record_event() only if that returned.        *)
CountedAfter(p, kept) == IF Kind(p).counted = "after" /\ kept THEN 1 ELSE 0

RecordReturns(p) ==
  /\ peers[p].at = "recording"
  /\ Becomes(p, [peers[p] EXCEPT !.rows = @ + 1, !.count = @ + CountedAfter(p, TRUE),
                   !.at = IF Kind(p).most = 1 THEN "closing" ELSE "serving"])
  /\ UNCHANGED callFaults

RecordRaises(p) ==
  /\ peers[p].at = "recording"
  /\ \E at \in Kind(p).onError, kept \in 0..1 :
       Fails(p, [peers[p] EXCEPT !.at = at, !.rows = @ + kept,
                   !.count = @ + CountedAfter(p, FALSE)])

(* The FTP handler stops waiting after 5 s, and the call goes on.          *)
RecordIsLate(p) ==
  /\ peers[p].at = "recording" /\ peers[p].service = "ftp"
  /\ Fails(p, [peers[p] EXCEPT !.at = "serving", !.late = @ + 1])

LateRecord(p) ==
  /\ peers[p].late > 0
  /\ Becomes(p, [peers[p] EXCEPT !.late = @ - 1, !.rows = @ + 1])
  /\ UNCHANGED callFaults

(* The client leaves, is timed out, says QUIT or has had its fill.         *)
ConnectionOver(p) ==
  /\ peers[p].at = "serving" /\ Kind(p).most # 1
  /\ Becomes(p, [peers[p] EXCEPT !.at = "closing"])
  /\ UNCHANGED callFaults

(* An exception that is not caught, or the end of the process.             *)
CutOff(p) ==
  /\ peers[p].at \in {"opening", "serving", "recording", "closing"}
  /\ \/ peers[p].at \in Kind(p).cut /\ UNCHANGED callFaults
     \/ callFaults < CallFaults /\ callFaults' = callFaults + 1
  /\ Becomes(p, [peers[p] EXCEPT !.at = "over", !.late = 0, !.failed = @ + 1])

(* What close() is told.                                                   *)
Stated(p) == IF Kind(p).counted = "never" THEN 1 ELSE peers[p].count

ClosePeer(p) ==
  /\ peers[p].at = "closing"
  /\ Becomes(p, [peers[p] EXCEPT !.at = "over", !.row = "CLOSED", !.stated = Stated(p)])
  /\ UNCHANGED callFaults

ClosePeerFails(p) ==
  /\ peers[p].at = "closing"
  /\ \/ Fails(p, [peers[p] EXCEPT !.at = "over"])
     \/ Fails(p, [peers[p] EXCEPT !.at = "over", !.row = "CLOSED", !.stated = Stated(p)])

PeerStep(p) ==
  \/ \E service \in DOMAIN Handler : PeerConnects(p, service)
  \/ OpenSession(p) \/ OpenSessionFails(p)
  \/ CommandArrives(p) \/ RecordReturns(p) \/ RecordRaises(p)
  \/ RecordIsLate(p) \/ LateRecord(p)
  \/ ConnectionOver(p) \/ CutOff(p)
  \/ ClosePeer(p) \/ ClosePeerFails(p)

ListenersNext == \E p \in Peers : PeerStep(p)

--------------------------------------------------------------------------
(* How far the events in the table may be from what the row says: not at   *)
(* all if every call succeeded.  Otherwise the RDP row may say less than   *)
(* there is, the others more: one, or with FTP one for each failure.       *)
MaySay(p) ==
  IF peers[p].failed = 0 THEN {0}
  ELSE CASE peers[p].service = "rdp" -> {-1, 0}
         [] peers[p].service = "ftp" -> 0..peers[p].failed
         [] peers[p].service \in {"http", "tls"} -> {0}
         [] OTHER -> {0, 1}

(* A session that is closed counts the events that are in the table, as    *)
(* closely as MaySay allows, and a connection that is over leaves its row  *)
(* open only if one of its calls failed or an exception got away.          *)
EventsCounted ==
  \A p \in Peers :
    /\ peers[p].row = "CLOSED" =>
         peers[p].stated - (peers[p].rows + peers[p].late) \in MaySay(p)
    /\ peers[p].at = "over" /\ peers[p].row = "OPEN" => peers[p].failed > 0
=============================================================================
