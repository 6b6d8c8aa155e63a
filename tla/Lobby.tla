------------------------------- MODULE Lobby -------------------------------
(***************************************************************************)
(* Matches between friends: the lobby (lobby/app.py, one process, over     *)
(* lobby/store.py, whose statements each commit on their own), the         *)
(* challenger's command (cli/lobby/challenge.py) and the defender's        *)
(* listener (cli/defend/listen.py), both of which poll.  One challenger    *)
(* and one defender; heartbeats, endpoints and tokens are left out.        *)
(***************************************************************************)
EXTENDS Limiter, FiniteSets

CONSTANTS
  InviteTTL,      \* INVITE_TTL_SECONDS
  InviteTimeout,  \* --invite-timeout of the challenger
  PollPeriod,     \* how long the challenger sleeps between two polls
  RequestTime,    \* the longest a request of the challenger takes
  MatchLength,    \* duration_seconds
  MaxInvites,     \* bound: how many invites are sent
  LobbyCrashes    \* bound: how often the lobby dies between two statements

ASSUME LobbyAssumption ==
  /\ InviteTTL \in Nat /\ InviteTimeout \in Nat /\ PollPeriod \in Nat \ {0}
  /\ RequestTime \in Nat /\ MatchLength \in Nat /\ MaxInvites \in Nat /\ LobbyCrashes \in Nat

VARIABLES
  invites,     \* the rows of invites, by the order they were made in
  matches,     \* the rows of matches
  challenger,  \* the challenge command
  listener,    \* the listen command, with the invites it has seen
  crashes,     \* how often the lobby has died in accept_invite()
  cutShort     \* history: the invites it died over

lobbyVars == <<invites, matches, challenger, listener, crashes, cutShort>>

NoMatch == 0

(* The challenge command: what it does, when its sleep ends or its request *)
(* times out, what the last answer said, and, as a history, how many polls *)
(* in a row came back with another status than 200.                        *)
Away == [at |-> "away", invite |-> 0, deadline |-> 0, next |-> 0,
         reply |-> "pending", match |-> NoMatch, missed |-> 0]
Listening == [at |-> "listening", invite |-> 0, match |-> NoMatch, seen |-> {}]

LobbyInit ==
  /\ invites = <<>>
  /\ matches = <<>>
  /\ challenger = Away
  /\ listener = Listening
  /\ crashes = 0
  /\ cutShort = {}

--------------------------------------------------------------------------
(* The store *)

(* Mutant: an invite is accepted whatever its status.                      *)
WhateverStatus(i) == invites[i].expires >= clock
PendingInvite(i) == invites[i].status = "pending" /\ invites[i].expires >= clock

NewMatch(i) == [invite |-> i, started |-> clock, ends |-> clock + MatchLength,
                summary |-> {}]

(* _post_invite() reaches create_invite(); the answer is still to come.    *)
Challenge ==
  /\ challenger.at = "away" /\ Len(invites) < MaxInvites
  /\ invites' = Append(invites, [status |-> "pending", expires |-> clock + InviteTTL,
                                 match |-> NoMatch])
  /\ challenger' = [Away EXCEPT !.at = "inviting", !.invite = Len(invites) + 1,
                                !.next = clock + RequestTime]
  /\ UNCHANGED <<matches, listener, crashes, cutShort>>

(* accept_invite(): nothing else runs in the lobby between its check and   *)
(* its statements.                                                         *)
Accept ==
  /\ listener.at = "accepting"
  /\ LET i == listener.invite
     IN IF PendingInvite(i)
        THEN /\ matches' = Append(matches, NewMatch(i))
             /\ invites' = [invites EXCEPT ![i].status = "accepted",
                                           ![i].match = Len(matches) + 1]
             /\ listener' = [listener EXCEPT !.at = "playing", !.match = Len(matches) + 1]
        ELSE /\ listener' = [listener EXCEPT !.at = "listening"]
             /\ UNCHANGED <<matches, invites>>
  /\ UNCHANGED <<challenger, crashes, cutShort>>

(* The lobby dies after the first of the two statements; the listener's    *)
(* request fails, and with it the command, which is started again.         *)
AcceptCutShort ==
  /\ listener.at = "accepting" /\ crashes < LobbyCrashes
  /\ PendingInvite(listener.invite)
  /\ matches' = Append(matches, NewMatch(listener.invite))
  /\ crashes' = crashes + 1
  /\ cutShort' = cutShort \cup {listener.invite}
  /\ listener' = Listening
  /\ UNCHANGED <<invites, challenger>>

(* decline_invite() looks at the status only.  The listen command never    *)
(* calls it: who says no lets the invite run out.                          *)
Decline(i) ==
  /\ invites[i].status = "pending"
  /\ invites' = [invites EXCEPT ![i].status = "declined"]
  /\ UNCHANGED <<matches, challenger, listener, crashes, cutShort>>

(* finish_match(): whoever calls last has the summary.                     *)
Summarised(m, who) == [matches EXCEPT ![m].summary = {who}]

--------------------------------------------------------------------------
(* The challenger: _wait_for_accept() polls until its deadline.  The       *)
(* invite's answer starts the wait, and the first poll is sent at once.    *)
InviteAnswered ==
  /\ challenger.at = "inviting"
  /\ challenger' = [challenger EXCEPT !.at = "waiting", !.next = clock,
                                      !.deadline = clock + InviteTimeout]
  /\ UNCHANGED <<invites, matches, listener, crashes, cutShort>>

Poll ==
  /\ challenger.at = "waiting" /\ challenger.next <= clock
  /\ clock < challenger.deadline
  /\ challenger' = [challenger EXCEPT !.at = "asking", !.next = clock + RequestTime]
  /\ UNCHANGED <<invites, matches, listener, crashes, cutShort>>

(* get_invite_status() reads the invite; its answer is on the way.         *)
AnswerPoll ==
  /\ challenger.at = "asking"
  /\ LET invite == invites[challenger.invite]
     IN challenger' = [challenger EXCEPT !.at = "told", !.reply = invite.status,
                                         !.match = invite.match]
  /\ UNCHANGED <<invites, matches, listener, crashes, cutShort>>

(* Mutant: the challenger sleeps longer from one poll to the next.         *)
BackedOff == clock + 2 * PollPeriod
NextPoll == clock + PollPeriod

Hear ==
  /\ challenger.at = "told"
  /\ challenger' =
       CASE challenger.reply = "accepted" -> [challenger EXCEPT !.at = "attacking"]
         [] challenger.reply = "declined" -> Away
         [] OTHER -> [challenger EXCEPT !.at = "waiting", !.next = NextPoll, !.missed = 0]
  /\ UNCHANGED <<invites, matches, listener, crashes, cutShort>>

(* An answer that is not 200, of the lobby or of a proxy before it: the    *)
(* loop ignores it and sleeps.                                             *)
PollIgnored ==
  /\ challenger.at = "asking"
  /\ challenger' = [challenger EXCEPT !.at = "waiting", !.next = NextPoll, !.missed = @ + 1]
  /\ UNCHANGED <<invites, matches, listener, crashes, cutShort>>

(* Nobody catches an httpx error, a request that times out or a lobby that *)
(* is down, of _post_invite(), a poll or _notify_finish(); and the user    *)
(* may stop the command.  It ends without having given up.                 *)
ChallengeBreaks ==
  /\ challenger.at # "away"
  /\ challenger' = Away
  /\ UNCHANGED <<invites, matches, listener, crashes, cutShort>>

GiveUpWaiting ==
  /\ challenger.at = "waiting" /\ challenger.next <= clock
  /\ clock >= challenger.deadline
  /\ challenger' = [challenger EXCEPT !.at = "away", !.next = 0]
  /\ UNCHANGED <<invites, matches, listener, crashes, cutShort>>

(* The runners are through, or failed; _notify_finish() reaches the lobby. *)
AttackEnds ==
  /\ challenger.at = "attacking"
  /\ matches' = Summarised(challenger.match, "challenger")
  /\ challenger' = Away
  /\ UNCHANGED <<invites, listener, crashes, cutShort>>

(* The defender: _poll_invites() yields each pending invite once; to       *)
(* answer takes as long as it takes.                                       *)
SeeInvite(i) ==
  /\ listener.at = "listening" /\ i \notin listener.seen
  /\ PendingInvite(i)
  /\ \E at \in {"accepting", "listening"} :
       listener' = [listener EXCEPT !.at = at, !.invite = i, !.seen = @ \cup {i}]
  /\ UNCHANGED <<invites, matches, challenger, crashes, cutShort>>

MatchEnds ==
  /\ listener.at = "playing" /\ clock >= matches[listener.match].ends
  /\ matches' = Summarised(listener.match, "defender")
  /\ listener' = [listener EXCEPT !.at = "listening"]
  /\ UNCHANGED <<invites, challenger, crashes, cutShort>>

(* The command is stopped and started again.                               *)
ListenerRestarts ==
  /\ listener # Listening
  /\ listener' = Listening
  /\ UNCHANGED <<invites, matches, challenger, crashes, cutShort>>

LobbyStep ==
  \/ Challenge \/ Accept \/ AcceptCutShort
  \/ \E i \in DOMAIN invites : Decline(i) \/ SeeInvite(i)
  \/ InviteAnswered \/ Poll \/ AnswerPoll \/ Hear \/ PollIgnored
  \/ GiveUpWaiting \/ ChallengeBreaks \/ AttackEnds \/ MatchEnds \/ ListenerRestarts

(* The challenger sleeps and waits for an answer no longer than it says.   *)
LobbyTick ==
  /\ challenger.at \in {"inviting", "waiting", "asking", "told"} => clock < challenger.next
  /\ Tick
  /\ UNCHANGED lobbyVars

--------------------------------------------------------------------------
MatchesOf(i) == {m \in DOMAIN matches : matches[m].invite = i}

(* An invite makes one match, and the one it names; more only if the lobby *)
(* died between the two statements of an acceptance.                       *)
OneMatchPerInvite ==
  \A i \in DOMAIN invites :
    /\ i \notin cutShort => MatchesOf(i) = {invites[i].match} \ {NoMatch}
    /\ invites[i].status # "accepted" /\ i \notin cutShort => MatchesOf(i) = {}

(* A challenger that has given up has left a match behind only if it was   *)
(* accepted in the last poll period, the sleep and the request, before the *)
(* deadline or after it; each poll that was not answered 200 before it     *)
(* gave up stretches that by a period; or the lobby died over the          *)
(* acceptance.                                                             *)
Period == PollPeriod + RequestTime
Slack(missed) == (missed + 1) * Period

AbandonedIfLate ==
  challenger.at = "away" /\ challenger.invite # 0 =>
    \A m \in MatchesOf(challenger.invite) :
      \/ matches[m].started + Slack(challenger.missed) >= challenger.deadline
      \/ challenger.invite \in cutShort
=============================================================================
