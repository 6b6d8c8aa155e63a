---------------------------- MODULE EventStream ----------------------------
(***************************************************************************)
(* The Redis stream `honeystrike:events` and its consumer group `intel`,   *)
(* as EventBus and FingerprintWorker use them.  Entries are identified by  *)
(* their position in the stream, which is never reused: Redis stream ids   *)
(* grow strictly.  Redis itself is external; the operators below are the   *)
(* four commands the code issues, XADD, XREADGROUP ">", XACK and the       *)
(* approximate MAXLEN trim that rides on XADD.                             *)
(***************************************************************************)
EXTENDS Integers, Sequences, FiniteSets

CONSTANTS
  Sessions,     \* session ids
  MaxEvents,    \* events a listener can record in one session
  MaxLen,       \* the XADD MAXLEN: a trim leaves at least this many entries
  Undecodable,  \* an entry EventEnvelope.from_stream_fields refuses
  Bottom        \* a session id that is none of Sessions

ASSUME MaxEventsAssumption == MaxEvents \in Nat
ASSUME MaxLenAssumption == MaxLen \in Nat \ {0}
ASSUME BottomAssumption == Bottom \notin Sessions

VARIABLES
  stream,   \* every entry ever added, in stream order
  trimmed,  \* the entries at positions 1..trimmed are gone from Redis
  cursor,   \* the group's last-delivered position
  pel,      \* the group's pending entries: delivered, not acknowledged
  acked     \* history: positions acknowledged

streamVars == <<stream, trimmed, cursor, pel, acked>>

(* Event numbers of one session: 0 is its SESSION_OPEN, the last number its *)
(* SESSION_CLOSE, those between them what the attacker did.                *)
OpenEv == 0
CloseEv == MaxEvents + 1
EventNo == 0..CloseEv
Evidence == 1..MaxEvents

(* EventEnvelope, with the payload abstracted to the event's number.       *)
Envelope == [sid : Sessions, ev : EventNo]
BadEntry == [sid |-> Bottom, ev |-> Undecodable]
Entry == Envelope \cup {BadEntry}

Positions == 1..Len(stream)
IsEnvelope(i) == stream[i] # BadEntry
SidOf(i) == stream[i].sid
EvOf(i) == stream[i].ev

StreamTypeOK ==
  /\ stream \in Seq(Entry)
  /\ trimmed \in 0..Len(stream)
  /\ cursor \in 0..Len(stream)
  /\ pel \subseteq 1..cursor
  /\ acked \subseteq 1..cursor

StreamInit ==
  /\ stream = <<>>
  /\ trimmed = 0
  /\ cursor = 0
  /\ pel = {}
  /\ acked = {}

(* XADD maxlen=MaxLen approximate=True: the trim may leave more than       *)
(* MaxLen entries, never fewer.                                            *)
XAdd(entry) ==
  /\ stream' = Append(stream, entry)
  /\ \E t \in trimmed..Len(stream) :
       /\ t = trimmed \/ t + MaxLen <= Len(stream) + 1
       /\ trimmed' = t
  /\ UNCHANGED <<cursor, pel, acked>>

(* Mutant: the read starts at the beginning of the stream.                 *)
FromTheStart == {i \in Positions : i > trimmed}

(* XREADGROUP with id ">": entries never delivered to the group and still  *)
(* in the stream, oldest first, at most `count` of them; `last` is the     *)
(* newest one returned.                                                    *)
Undelivered == {i \in Positions : i > cursor /\ i > trimmed}
ReadUpTo(last) == {i \in Undelivered : i <= last}

XReadGroup(last, count) ==
  /\ last \in Undelivered
  /\ \/ Cardinality(ReadUpTo(last)) = count
     \/ last = Len(stream) /\ Cardinality(ReadUpTo(last)) < count
  /\ cursor' = last
  /\ pel' = pel \cup ReadUpTo(last)
  /\ UNCHANGED <<stream, trimmed, acked>>

(* XACK ids: only pending entries leave the pending list.                  *)
XAck(ids) ==
  /\ acked' = acked \cup (ids \cap pel)
  /\ pel' = pel \ ids
  /\ UNCHANGED <<stream, trimmed, cursor>>
=============================================================================
