----------------------------- MODULE DuelRules -----------------------------
(***************************************************************************)
(* The rules of a duel as its players know them: api/routers/duels.py with *)
(* every request taken at once.  Requests for one duel that overlap may    *)
(* leave it in any state; what stays ruled then is who is paid, and what.  *)
(***************************************************************************)
EXTENDS Integers, FiniteSets

CONSTANTS
  Players,   \* users
  Nobody,    \* a value that is no user
  DuelIds,   \* rows of the duels table
  Wave,      \* waves
  MaxWaves   \* MAX_WAVES

VARIABLES
  match,     \* the duels
  earned     \* XP that duels awarded, per player

rulesVars == <<match, earned>>

New(status, p, q) ==
  [status |-> status, att |-> p, def |-> q, waves |-> {}, blocked |-> {},
   winner |-> Nobody]

IsOpen(m) == m.status \in {"pending", "active"}

(* Whom the waves make the winner of a match.                              *)
Leader(m) ==
  LET held == Cardinality(m.blocked)
      through == Cardinality(m.waves \ m.blocked)
  IN IF through > held THEN m.att ELSE IF held > through THEN m.def ELSE Nobody

Init ==
  /\ match = [d \in DuelIds |-> New("none", Nobody, Nobody)]
  /\ earned = [p \in Players |-> 0]

(* Both players of m get 10 XP for playing, w 25 for winning.              *)
Pay(m, w) ==
  LET Prize(p) == 10 + (IF w = p THEN 25 ELSE 0) IN
  earned' = [earned EXCEPT ![m.att] = @ + Prize(m.att), ![m.def] = @ + Prize(m.def)]

Challenge(d, p, q) ==
  /\ match[d].status = "none"
  /\ p # q
  /\ \A c \in DuelIds : IsOpen(match[c]) => {match[c].att, match[c].def} # {p, q}
  /\ match' = [match EXCEPT ![d] = New("pending", p, q)]
  /\ UNCHANGED earned

Accept(d) ==
  /\ match[d].status = "pending"
  /\ match' = [match EXCEPT ![d].status = "active"]
  /\ UNCHANGED earned

Decline(d) ==
  /\ match[d].status = "pending"
  /\ match' = [match EXCEPT ![d].status = "declined"]
  /\ UNCHANGED earned

Fire(d, w) ==
  /\ match[d].status = "active"
  /\ Cardinality(match[d].waves) < MaxWaves
  /\ w \notin match[d].waves
  /\ match' = [match EXCEPT ![d].waves = @ \cup {w}]
  /\ UNCHANGED earned

Block(d, w) ==
  /\ match[d].status = "active"
  /\ w \in match[d].waves \ match[d].blocked
  /\ match' = [match EXCEPT ![d].blocked = @ \cup {w}]
  /\ UNCHANGED earned

(* By a player, or because the time is up.                                 *)
Finish(d) ==
  /\ IsOpen(match[d])
  /\ match' = [match EXCEPT ![d].status = "finished", ![d].winner = Leader(match[d])]
  /\ Pay(match[d], Leader(match[d]))

(* Two requests meet in a duel, or two challenges in a pair: the duel is   *)
(* no longer ruled.                                                        *)
Overlap(d) ==
  /\ match[d].status # "none"
  /\ match' = [match EXCEPT ![d] = New("overlapped", match[d].att, match[d].def)]
  /\ UNCHANGED earned

RushIn(d, p, q) ==
  /\ match[d].status = "none"
  /\ p # q
  /\ match' = [match EXCEPT ![d] = New("overlapped", p, q)]
  /\ UNCHANGED earned

(* Such a duel may pay more than once, and anyone of its two players.      *)
PayOverlapped(d) ==
  /\ match[d].status = "overlapped"
  /\ \E w \in {match[d].att, match[d].def, Nobody} : Pay(match[d], w)
  /\ UNCHANGED match

Next ==
  \E d \in DuelIds :
    \/ \E p, q \in Players : Challenge(d, p, q) \/ RushIn(d, p, q)
    \/ \E w \in Wave : Fire(d, w) \/ Block(d, w)
    \/ Accept(d) \/ Decline(d) \/ Finish(d) \/ Overlap(d) \/ PayOverlapped(d)

Spec == Init /\ [][Next]_rulesVars
=============================================================================
