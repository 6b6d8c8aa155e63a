------------------------------ MODULE LiveFeed ------------------------------
(***************************************************************************)
(* The dashboard's live feed: the fingerprint worker publishes a session   *)
(* once it is committed (core/live_feed.py), a client of api/ws.py is sent *)
(* the newest sessions in the table and then what the channel brings.      *)
(***************************************************************************)
EXTENDS Integers, Sequences, FiniteSets

CONSTANTS
  Clients,      \* the sockets
  SeedLimit,    \* INITIAL_SEED_LIMIT
  MaxScored,    \* bound: how many sessions are scored
  PublishFaults \* bound: how many publications fail

ASSUME LiveFeedAssumption ==
  SeedLimit \in Nat /\ MaxScored \in Nat /\ PublishFaults \in Nat

VARIABLES
  scored,      \* how many sessions have a committed fingerprint: 1..scored
  unpublished, \* the session committed and not yet published, or 0
  feed,        \* the clients
  failed       \* the sessions whose publication failed

feedVars == <<scored, unpublished, feed, failed>>

(* What a client has been sent, what waits in its subscription, and how    *)
(* many sessions there were when its seed was read.                        *)
Disconnected == [at |-> "off", got |-> {}, inbox |-> <<>>, seeded |-> 0, missed |-> {}]

FeedInit ==
  /\ scored = 0
  /\ unpublished = 0
  /\ feed = [c \in Clients |-> Disconnected]
  /\ failed = {}

(* _enrich_and_persist(): the commit comes first.                          *)
CommitSession ==
  /\ unpublished = 0 /\ scored < MaxScored
  /\ scored' = scored + 1
  /\ unpublished' = scored + 1
  /\ UNCHANGED <<feed, failed>>

(* Mutant: only clients that wait are served.                              *)
Idlers == {c \in Clients : feed[c].at = "live" /\ feed[c].inbox = <<>>}

Subscribers == {c \in Clients : feed[c].at = "live"}

(* publish_live() swallows its errors.                                     *)
PublishLive ==
  /\ unpublished # 0
  /\ feed' = [c \in Clients |->
                IF c \in Subscribers THEN [feed[c] EXCEPT !.inbox = Append(@, unpublished)]
                ELSE IF feed[c].at = "seeded"
                THEN [feed[c] EXCEPT !.missed = @ \cup {unpublished}] ELSE feed[c]]
  /\ unpublished' = 0
  /\ UNCHANGED <<scored, failed>>

PublicationFails ==
  /\ unpublished # 0 /\ Cardinality(failed) < PublishFaults
  /\ failed' = failed \cup {unpublished}
  /\ unpublished' = 0
  /\ UNCHANGED <<scored, feed>>

(* _seed_initial_state(): the newest rows, then live_feed() subscribes.    *)
NewestRows == {s \in 1..scored : s > scored - SeedLimit}

Seed(c) ==
  /\ feed[c].at = "off"
  /\ feed' = [feed EXCEPT ![c] = [Disconnected EXCEPT !.at = "seeded",
                                    !.got = NewestRows, !.seeded = scored]]
  /\ UNCHANGED <<scored, unpublished, failed>>

Subscribe(c) ==
  /\ feed[c].at = "seeded"
  /\ feed' = [feed EXCEPT ![c].at = "live"]
  /\ UNCHANGED <<scored, unpublished, failed>>

Send(c) ==
  /\ feed[c].inbox # <<>>
  /\ feed' = [feed EXCEPT ![c].inbox = Tail(@), ![c].got = @ \cup {Head(feed[c].inbox)}]
  /\ UNCHANGED <<scored, unpublished, failed>>

(* The socket closes; the page connects again as a new client.             *)
Disconnect(c) ==
  /\ feed[c].at # "off"
  /\ feed' = [feed EXCEPT ![c] = Disconnected]
  /\ UNCHANGED <<scored, unpublished, failed>>

FeedNext ==
  \/ CommitSession \/ PublishLive \/ PublicationFails
  \/ \E c \in Clients : Seed(c) \/ Subscribe(c) \/ Send(c) \/ Disconnect(c)

--------------------------------------------------------------------------
(* A client that is subscribed and up to date has every session but those  *)
(* that had left the seed's limit before it connected, those published in  *)
(* the gap between its seed and its subscription, and those whose          *)
(* publication failed.                                                     *)
FeedMissesOnlyTheGap ==
  \A c \in Subscribers :
    feed[c].inbox = <<>> =>
      \A s \in (1..scored) \ feed[c].got :
        \/ s <= feed[c].seeded - SeedLimit
        \/ s \in feed[c].missed \cup failed \cup {unpublished}
=============================================================================
