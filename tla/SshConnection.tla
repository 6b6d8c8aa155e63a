--------------------------- MODULE SshConnection ---------------------------
(***************************************************************************)
(* A connection of the SSH honeypot: paramiko's thread calls back into     *)
(* services/ssh/server.py and buffers what it captures; the connection's   *)
(* own thread (services/ssh/__main__.py) moves the captures to a list and  *)
(* writes them when the connection is over.  Nothing but the interpreter   *)
(* orders the two.  The connections of an address share its counter        *)
(* (services/ssh/attempt_counter.py).                                      *)
(***************************************************************************)
EXTENDS Integers, Sequences, FiniteSets, Functions

CONSTANTS
  Connections,
  GrantFrom,     \* the counter's threshold
  MaxCaptures    \* bound: captures of a connection

ASSUME SshAssumption == GrantFrom \in Nat \ {0} /\ MaxCaptures \in Nat

VARIABLES
  ssh,      \* the connections
  tries     \* ssh:attempts of the address

sshVars == <<ssh, tries>>

(* at: where the connection's thread is; up: the transport is; checking,   *)
(* granted, channel, event: what paramiko's thread has come to; captured:  *)
(* the server's buffer; captures: the thread's list; made: how many were   *)
(* captured in all; gap: those captured when the buffer had been copied    *)
(* and was not yet cleared, or would not be looked at again; stored: what  *)
(* is in the table; row: the session's.                                    *)
NoConnection ==
  [at |-> "none", up |-> FALSE, checking |-> FALSE, granted |-> FALSE,
   channel |-> FALSE, event |-> FALSE, captured |-> <<>>, captures |-> <<>>,
   made |-> 0, gap |-> {}, stored |-> {}, row |-> "none", count |-> 0]

SshInit ==
  /\ ssh = [c \in Connections |-> NoConnection]
  /\ tries = 0

At(c, step) == ssh[c].at = step

(* _open_session(), which may fail, or be given up while it goes on.       *)
OpenConnection(c) ==
  /\ At(c, "none")
  /\ ssh' = [ssh EXCEPT ![c].at = "handshake", ![c].up = TRUE, ![c].row = "open"]
  /\ UNCHANGED tries

OpeningFails(c) ==
  /\ At(c, "none")
  /\ \E row \in {"none", "open"} :
       ssh' = [ssh EXCEPT ![c].at = "over", ![c].row = row]
  /\ UNCHANGED tries

--------------------------------------------------------------------------
(* A capture: numbered in the order they are made.                         *)
Number(c) == ssh[c].made + 1
Unseen(c) == ssh[c].at \in {"clear", "clear again", "closing"}

Captured(c) ==
  [ssh[c] EXCEPT !.made = @ + 1, !.captured = Append(@, Number(c)),
                 !.gap = IF Unseen(c) THEN @ \cup {Number(c)} ELSE @]

Noted(c) == [ssh[c] EXCEPT !.made = @ + 1, !.captures = Append(@, Number(c))]

Busy(c) == ssh[c].up /\ ssh[c].at \notin {"none", "handshake", "over"}
MayCapture(c) == ssh[c].made < MaxCaptures

(* check_auth_password(): the attempt is captured before the counter says  *)
(* what becomes of it.  Who is let in is not asked again.                  *)
AttemptPassword(c) ==
  /\ Busy(c) /\ MayCapture(c) /\ ~ssh[c].granted /\ ~ssh[c].checking
  /\ ssh' = [ssh EXCEPT ![c] = [Captured(c) EXCEPT !.checking = TRUE]]
  /\ UNCHANGED tries

AttemptPublicKey(c) ==
  /\ Busy(c) /\ MayCapture(c) /\ ~ssh[c].granted /\ ~ssh[c].checking
  /\ ssh' = [ssh EXCEPT ![c] = Captured(c)]
  /\ UNCHANGED tries

(* increment_and_check() on the event loop.                                *)
CheckAttempt(c) ==
  /\ ssh[c].checking
  /\ tries' = tries + 1
  /\ ssh' = [ssh EXCEPT ![c].checking = FALSE, ![c].granted = tries + 1 >= GrantFrom]

(* It fails, or its answer comes too late: nobody is let in.               *)
CheckFails(c) ==
  /\ ssh[c].checking
  /\ tries' \in {tries, tries + 1}
  /\ ssh' = [ssh EXCEPT ![c].checking = FALSE]

(* The client opens a session channel, and asks for a shell or for one     *)
(* command on it or on another.                                            *)
OpenChannel(c) ==
  /\ Busy(c) /\ ssh[c].granted /\ ~ssh[c].channel
  /\ ssh' = [ssh EXCEPT ![c].channel = TRUE]
  /\ UNCHANGED tries

RequestShell(c) ==
  /\ Busy(c) /\ ssh[c].channel
  /\ ssh' = [ssh EXCEPT ![c].event = TRUE]
  /\ UNCHANGED tries

RequestExec(c) ==
  /\ Busy(c) /\ ssh[c].channel /\ MayCapture(c)
  /\ ssh' = [ssh EXCEPT ![c] = [Captured(c) EXCEPT !.event = TRUE]]
  /\ UNCHANGED tries

ParamikoStep(c) ==
  \/ AttemptPassword(c) \/ AttemptPublicKey(c) \/ CheckAttempt(c) \/ CheckFails(c)
  \/ OpenChannel(c) \/ RequestShell(c) \/ RequestExec(c)

--------------------------------------------------------------------------
(* The connection's thread *)

Goto(c, step) == ssh' = [ssh EXCEPT ![c].at = step] /\ UNCHANGED tries

(* start_server(): the client's version is noted, whether or not it goes   *)
(* through with the key exchange.                                          *)
Handshake(c) ==
  /\ At(c, "handshake")
  /\ \E next \in {"accept", "finally"} :
       ssh' = [ssh EXCEPT ![c] = [Noted(c) EXCEPT !.at = next]]
  /\ UNCHANGED tries

AcceptChannel(c) == At(c, "accept") /\ ssh[c].channel /\ Goto(c, "copy")
NoShell(c) == At(c, "accept") /\ ~ssh[c].channel /\ Goto(c, "finally")

(* Mutant: the list is replaced instead of extended.                       *)
Replaced(list, new) == new
Extended(list, new) == list \o new

Copy(c, step, next) ==
  /\ At(c, step)
  /\ ssh' = [ssh EXCEPT ![c].captures = Extended(@, ssh[c].captured), ![c].at = next]
  /\ UNCHANGED tries

Clear(c, step, next) ==
  /\ At(c, step)
  /\ ssh' = [ssh EXCEPT ![c].captured = <<>>, ![c].at = next]
  /\ UNCHANGED tries

Drain(c) == Copy(c, "copy", "clear") \/ Clear(c, "clear", "wait")
DrainAgain(c) ==
  Copy(c, "copy again", "clear again") \/ Clear(c, "clear again", "shell")

(* shell_event.wait(timeout=10)                                            *)
AwaitRequest(c) == At(c, "wait") /\ Goto(c, "copy again")

(* FakeShell.run() yields a command.                                       *)
RunCommand(c) ==
  /\ At(c, "shell") /\ ssh[c].granted /\ MayCapture(c)
  /\ ssh' = [ssh EXCEPT ![c] = Noted(c)]
  /\ UNCHANGED tries

ShellEnds(c) == At(c, "shell") /\ Goto(c, "finally")

(* An exception where the thread waits.                                    *)
HandlerError(c) == ssh[c].at \in {"accept", "wait", "shell"} /\ Goto(c, "finally")

(* The last look at the buffer, and only then the end of the transport.    *)
Finally(c) == Copy(c, "finally", "closing")

CloseTransport(c) ==
  /\ At(c, "closing")
  /\ ssh' = [ssh EXCEPT ![c].up = FALSE, ![c].at = "persist"]
  /\ UNCHANGED tries

(* _persist_captures() and _close_session(); if the first fails, the       *)
(* second is not tried.                                                    *)
Persist(c) ==
  /\ At(c, "persist")
  /\ ssh' = [ssh EXCEPT ![c].stored = Range(ssh[c].captures), ![c].at = "close"]
  /\ UNCHANGED tries

PersistenceFails(c) ==
  /\ At(c, "persist")
  /\ \E n \in 0..Len(ssh[c].captures) :
       ssh' = [ssh EXCEPT ![c].stored = Range(SubSeq(ssh[c].captures, 1, n)),
                          ![c].at = "over"]
  /\ UNCHANGED tries

CloseSession(c) ==
  /\ At(c, "close")
  /\ ssh' = [ssh EXCEPT ![c].at = "over", ![c].row = "closed",
                        ![c].count = Len(ssh[c].captures)]
  /\ UNCHANGED tries

ClosingFails(c) == At(c, "close") /\ Goto(c, "over")

ThreadStep(c) ==
  \/ OpenConnection(c) \/ OpeningFails(c) \/ Handshake(c)
  \/ AcceptChannel(c) \/ NoShell(c) \/ Drain(c) \/ AwaitRequest(c) \/ DrainAgain(c)
  \/ RunCommand(c) \/ ShellEnds(c) \/ HandlerError(c)
  \/ Finally(c) \/ CloseTransport(c)
  \/ Persist(c) \/ PersistenceFails(c) \/ CloseSession(c) \/ ClosingFails(c)

(* IPAttemptCounter's key expires.                                         *)
TriesExpire == tries > 0 /\ tries' = 0 /\ UNCHANGED ssh

SshNext ==
  \/ \E c \in Connections : ParamikoStep(c) \/ ThreadStep(c)
  \/ TriesExpire

--------------------------------------------------------------------------
(* A session that is closed has in the table everything that was captured  *)
(* of it, once, and counts as much, but for what paramiko's thread added   *)
(* just when the other thread had copied the buffer and not yet cleared    *)
(* it, or had looked at it for the last time.                              *)
CapturesAccounted ==
  \A c \in Connections :
    ssh[c].row = "closed" =>
      /\ (1..ssh[c].made) \ ssh[c].gap \subseteq ssh[c].stored
      /\ ssh[c].count = Cardinality(ssh[c].stored)
=============================================================================
