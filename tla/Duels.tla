------------------------------- MODULE Duels -------------------------------
(***************************************************************************)
(* api/routers/duels.py over PostgreSQL at READ COMMITTED.                 *)
(*                                                                         *)
(* A request loads the duel with a plain SELECT, decides on that copy and  *)
(* writes later: between the two any other request may commit.  An UPDATE  *)
(* names only the columns whose value differs from the copy (waves always, *)
(* flag_modified), takes the row lock, and keeps it to the commit.         *)
(* Finalizing is one transaction of three steps, because every query first *)
(* flushes what the previous award changed: the duel row, the attacker's   *)
(* progress row, the defender's.  Every player has a progress row already. *)
(* A request that is refused changes nothing and is no step.               *)
(***************************************************************************)
EXTENDS Integers, FiniteSets

CONSTANTS
  Players,    \* users
  Nobody,     \* a value that is no user
  DuelIds,    \* rows the duels table can hold (bound)
  NoDuel,     \* a value that is no duel id
  Requests,   \* HTTP requests the API serves at a time (bound)
  MaxWaves,   \* MAX_WAVES
  MaxFired    \* fire() calls per duel (bound); a lost wave frees no number

ASSUME DuelsAssumption ==
  /\ Nobody \notin Players
  /\ NoDuel \notin DuelIds
  /\ IsFiniteSet(Requests)
  /\ MaxWaves \in Nat /\ MaxFired \in Nat

VARIABLES
  duel,       \* the duels table
  xp,         \* user_progress.xp
  req,        \* the requests under way
  fired,      \* waves fire() answered for, per duel
  confirmed,  \* history: waves label() answered "correct" for
  paid,       \* history: committed finalizations, per duel
  winner,     \* history: whom the last of them paid the duel_win
  earned,     \* history: XP that committed finalizations awarded, per player
  raced,      \* history: duels two requests had loaded at the same time
  overtaken   \* history: players whose XP was written while another
              \* finalization had read it

duelVars == <<duel, xp, req, fired, confirmed, paid, winner, earned, raced, overtaken>>

WavePoints == 10   \* WAVE_POINTS
PlayedXP == 10     \* XP_DELTAS["duel_played"]
WinXP == 25        \* XP_DELTAS["duel_win"]

Status == {"none", "pending", "active", "declined", "finished"}
Wave == 1..MaxFired

(* A row of the table; due: ends_at has passed.  Of a wave only its number *)
(* and whether it is blocked ("correct") are kept.                         *)
Row == [status : Status, att : Players \cup {Nobody},
        def : Players \cup {Nobody}, due : BOOLEAN, waves : SUBSET Wave,
        blocked : SUBSET Wave, ascore : Nat, dscore : Nat]

Blank == [status |-> "none", att |-> Nobody, def |-> Nobody, due |-> FALSE,
          waves |-> {}, blocked |-> {}, ascore |-> 0, dscore |-> 0]

Pending(p, q) == [Blank EXCEPT !.status = "pending", !.att = p, !.def = q]

(* A request: what it does next, the duel, the session's copy of its row,  *)
(* the wave it labels, and the XP its awards started from.                 *)
Request == [next : {"idle", "insert", "accept", "decline", "fire", "label",
                    "mislabel", "finalize", "attacker", "defender"},
            id : DuelIds \cup {NoDuel}, row : Row, wave : Wave \cup {0},
            axp : Nat, dxp : Nat]

Idle == [next |-> "idle", id |-> NoDuel, row |-> Blank, wave |-> 0,
         axp |-> 0, dxp |-> 0]

Init ==
  /\ duel = [d \in DuelIds |-> Blank]
  /\ xp = [p \in Players |-> 0]
  /\ req = [r \in Requests |-> Idle]
  /\ fired = [d \in DuelIds |-> 0]
  /\ confirmed = [d \in DuelIds |-> {}]
  /\ paid = [d \in DuelIds |-> 0]
  /\ winner = [d \in DuelIds |-> Nobody]
  /\ earned = [p \in Players |-> 0]
  /\ raced = {}
  /\ overtaken = {}

--------------------------------------------------------------------------
(* The rules of a duel, on a row *)

(* Mutants: a wave too many; a duel accepted whatever its status; a        *)
(* finish() of closed duels too; a check for open duels in one direction   *)
(* only; a finalization that keeps the scores of the last label.           *)
OverFull(row) == Cardinality(row.waves) > MaxWaves
AnyStatus(row) == row.status # "none"
EvenClosed(row) == row.status # "none"
SameDirection(row, p, q) == row.att = p /\ row.def = q
UntouchedTally(row) == row

Full(row) == Cardinality(row.waves) >= MaxWaves
Open(row) == row.status \in {"pending", "active"}
Acceptable(row) == row.status = "pending"
Between(row, p, q) == {row.att, row.def} = {p, q}
Overdue(row) == row.status = "active" /\ row.due

(* _tally() *)
Tallied(row) ==
  [row EXCEPT !.dscore = WavePoints * Cardinality(row.blocked),
              !.ascore = WavePoints * Cardinality(row.waves \ row.blocked)]
FinalTally(row) == Tallied(row)

(* Who gets the duel_win of a tallied row; nobody when the scores tie.     *)
Winner(row) == IF row.ascore > row.dscore THEN row.att
               ELSE IF row.dscore > row.ascore THEN row.def ELSE Nobody

(* What a finalized row earns player p.                                    *)
Gain(row, p) == PlayedXP + (IF Winner(row) = p THEN WinXP ELSE 0)

(* A column of an UPDATE: written only when the session changed it.        *)
Written(loaded, new, current) == IF new = loaded THEN current ELSE new

(* The scores a flush leaves in the table.                                 *)
WithScores(current, loaded, new) ==
  [current EXCEPT !.ascore = Written(loaded.ascore, new.ascore, @),
                  !.dscore = Written(loaded.dscore, new.dscore, @)]

--------------------------------------------------------------------------
(* Loading *)

(* r loads duel d to do `next`; d is raced when another request has it.    *)
Load(r, d, next, w) ==
  /\ req[r] = Idle
  /\ req' = [req EXCEPT ![r] = [Idle EXCEPT !.next = next, !.id = d,
                                            !.row = duel[d], !.wave = w]]
  /\ raced' = IF \E q \in Requests : req[q].id = d THEN raced \cup {d}
              ELSE raced
  /\ UNCHANGED <<duel, xp, fired, confirmed, paid, winner, earned, overtaken>>

(* challenge(): p challenges q; the check for an open duel of the pair.    *)
(* The bound on DuelIds is kept here, for the Inserts to come as well.     *)
Challenge(r, p, q) ==
  /\ req[r] = Idle
  /\ p # q
  /\ \A d \in DuelIds : ~(Open(duel[d]) /\ Between(duel[d], p, q))
  /\ Cardinality({s \in Requests : req[s].next = "insert"})
       < Cardinality({d \in DuelIds : duel[d].status = "none"})
  /\ req' = [req EXCEPT ![r] = [Idle EXCEPT !.next = "insert",
                                            !.row = Pending(p, q)]]
  /\ UNCHANGED <<duel, xp, fired, confirmed, paid, winner, earned, raced, overtaken>>

LoadToAccept(r, d) == Acceptable(duel[d]) /\ Load(r, d, "accept", 0)
LoadToDecline(r, d) == duel[d].status = "pending" /\ Load(r, d, "decline", 0)
Firing(r, d) == req[r].next = "fire" /\ req[r].id = d
LoadToFire(r, d) ==
  /\ duel[d].status = "active" /\ ~duel[d].due
  /\ ~Full(duel[d])
  /\ fired[d] + Cardinality({q \in Requests : Firing(q, d)}) < MaxFired
  /\ Load(r, d, "fire", 0)

(* label() of an unresolved wave, with a right or a wrong technique.       *)
LoadToLabel(r, d) ==
  /\ duel[d].status = "active" /\ ~duel[d].due
  /\ \E w \in duel[d].waves \ duel[d].blocked, next \in {"label", "mislabel"} :
       Load(r, d, next, w)

(* finish() of an open duel; and _expire_if_due() of an overdue one, which *)
(* fire(), label() and GET /{id} begin with, and GET /mine does for each   *)
(* of its rows in a transaction each, as several of these requests would.  *)
LoadToFinish(r, d) == Open(duel[d]) /\ Load(r, d, "finalize", 0)
LoadToExpire(r, d) == Overdue(duel[d]) /\ Load(r, d, "finalize", 0)

--------------------------------------------------------------------------
(* Locks *)

(* A finalizer has the duel's row from its first flush on, the attacker's  *)
(* progress row from its second; the third flush is followed by the        *)
(* commit.  Other writers flush and commit at once.                        *)
HasDuel(r, d) == req[r].next \in {"attacker", "defender"} /\ req[r].id = d
HasProgress(r, p) == req[r].next = "defender" /\ req[r].row.att = p

(* r waits for a lock q has.                                               *)
WaitsFor(r, q) ==
  /\ r # q
  /\ \/ /\ req[r].next \in {"accept", "decline", "fire", "label", "mislabel",
                            "finalize"}
        /\ HasDuel(q, req[r].id)
     \/ req[r].next = "attacker" /\ HasProgress(q, req[r].row.att)
     \/ req[r].next = "defender" /\ HasProgress(q, req[r].row.def)

Waits(r) == \E q \in Requests : WaitsFor(r, q)

(* Mutant: the server does not look for deadlocks.                         *)
NeverDeadlocked(r) == FALSE

(* PostgreSQL looks for cycles of waiting transactions.                    *)
Deadlocked(r) ==
  \E cycle \in SUBSET Requests :
    /\ r \in cycle
    /\ \A q \in cycle : \E o \in cycle : WaitsFor(q, o)
    /\ \A q \in cycle : \E o \in cycle : WaitsFor(o, q)

Done(r) == req' = [req EXCEPT ![r] = Idle]

--------------------------------------------------------------------------
(* Writing *)

(* challenge(): INSERT and commit.  Nothing in the table forbids a second  *)
(* open duel of the pair; such a duel is raced when the other challenger   *)
(* is still to insert.                                                     *)
Insert(r) ==
  LET row == req[r].row IN
  /\ req[r].next = "insert"
  /\ \E d \in DuelIds :
       /\ duel[d].status = "none"
       /\ duel' = [duel EXCEPT ![d] = row]
       /\ raced' = IF \E q \in Requests \ {r} :
                        req[q].next = "insert" /\ Between(req[q].row, row.att, row.def)
                   THEN raced \cup {d} ELSE raced
  /\ Done(r)
  /\ UNCHANGED <<xp, fired, confirmed, paid, winner, earned, overtaken>>

(* accept() sets the clock, decline() does not.                            *)
Answer(r) ==
  LET d == req[r].id IN
  /\ ~Waits(r)
  /\ \/ /\ req[r].next = "accept"
        /\ duel' = [duel EXCEPT ![d].status = "active", ![d].due = FALSE]
     \/ /\ req[r].next = "decline"
        /\ duel' = [duel EXCEPT ![d].status = "declined"]
  /\ Done(r)
  /\ UNCHANGED <<xp, fired, confirmed, paid, winner, earned, raced, overtaken>>

(* fire(): the whole list of waves is written back with one more.          *)
Fire(r) ==
  LET d == req[r].id
      row == req[r].row
  IN /\ req[r].next = "fire"
     /\ ~Waits(r)
     /\ fired[d] < MaxFired
     /\ fired' = [fired EXCEPT ![d] = @ + 1]
     /\ duel' = [duel EXCEPT ![d].waves = row.waves \cup {fired[d] + 1},
                             ![d].blocked = row.blocked]
     /\ Done(r)
     /\ UNCHANGED <<xp, confirmed, paid, winner, earned, raced, overtaken>>

(* Mutant: any guess blocks the wave.                                      *)
AnyGuess(next, w) == {w}

(* What a label() adds to the blocked waves: one when the guess is right.  *)
Hit(next, w) == IF next = "label" THEN {w} ELSE {}

(* label(): the whole list is written back here, too, and the scores.      *)
Label(r) ==
  LET d == req[r].id
      row == req[r].row
      w == req[r].wave
      new == Tallied([row EXCEPT !.blocked = @ \cup Hit(req[r].next, w)])
  IN /\ req[r].next \in {"label", "mislabel"}
     /\ ~Waits(r)
     /\ duel' = [duel EXCEPT ![d] =
                   WithScores([@ EXCEPT !.waves = new.waves,
                                        !.blocked = new.blocked], row, new)]
     /\ confirmed' = [confirmed EXCEPT ![d] =
                        IF req[r].next = "label" THEN @ \cup {w} ELSE @]
     /\ Done(r)
     /\ UNCHANGED <<xp, fired, paid, winner, earned, raced, overtaken>>

(* Mutants: an update is visible before its transaction commits.           *)
StatusAtOnce(d) == [duel EXCEPT ![d].status = "finished"]
XpAtOnce(p, x) == [xp EXCEPT ![p] = x]

(* What other transactions see of a flush.                                 *)
StatusUncommitted(d) == duel
XpUncommitted(p, x) == xp

(* _finalize(): the tally of the copy, the flush of the duel's row, and    *)
(* the SELECT of the first _award().                                       *)
Finalize(r) ==
  LET d == req[r].id
      row == FinalTally(req[r].row)
  IN /\ req[r].next = "finalize"
     /\ ~Waits(r)
     /\ req' = [req EXCEPT ![r].next = "attacker", ![r].axp = xp[row.att]]
     /\ duel' = StatusUncommitted(d)
     /\ UNCHANGED <<xp, fired, confirmed, paid, winner, earned, raced, overtaken>>

(* The flush of the attacker's award and the SELECT of the defender's.     *)
AwardAttacker(r) ==
  LET row == FinalTally(req[r].row) IN
  /\ req[r].next = "attacker"
  /\ ~Waits(r)
  /\ req' = [req EXCEPT ![r].next = "defender", ![r].dxp = xp[row.def]]
  /\ xp' = XpUncommitted(row.att, req[r].axp + PlayedXP)
  /\ UNCHANGED <<duel, fired, confirmed, paid, winner, earned, raced, overtaken>>

(* Whose XP another finalization has read when r writes it.                *)
HasRead(q, p) == \/ req[q].next \in {"attacker", "defender"} /\ req[q].row.att = p
                 \/ req[q].next = "defender" /\ req[q].row.def = p
Overtaking(r) ==
  {p \in {req[r].row.att, req[r].row.def} :
     \E q \in Requests \ {r} : HasRead(q, p)}

(* The flush of the defender's award, that of the winner's, the commit.    *)
AwardDefender(r) ==
  LET d == req[r].id
      old == req[r].row
      row == FinalTally(old)
  IN /\ req[r].next = "defender"
     /\ ~Waits(r)
     /\ duel' = [duel EXCEPT ![d] =
                   WithScores([@ EXCEPT !.status = "finished"], old, row)]
     /\ xp' = [xp EXCEPT ![row.att] = req[r].axp + Gain(row, row.att),
                         ![row.def] = req[r].dxp + Gain(row, row.def)]
     /\ earned' = [earned EXCEPT ![row.att] = @ + Gain(row, row.att),
                                 ![row.def] = @ + Gain(row, row.def)]
     /\ paid' = [paid EXCEPT ![d] = @ + 1]
     /\ winner' = [winner EXCEPT ![d] = Winner(row)]
     /\ overtaken' = overtaken \cup Overtaking(r)
     /\ Done(r)
     /\ UNCHANGED <<fired, confirmed, raced>>

(* A request dies, with its process or its connection, or PostgreSQL       *)
(* cancels it to end a deadlock: its transaction is rolled back.           *)
Rollback(r) ==
  /\ req[r] # Idle
  /\ Done(r)
  /\ UNCHANGED <<duel, xp, fired, confirmed, paid, winner, earned, raced, overtaken>>

BreakDeadlock(r) == Deadlocked(r) /\ Rollback(r)

(* The time of a duel runs out.                                            *)
TimeUp(d) ==
  /\ duel[d].status = "active" /\ ~duel[d].due
  /\ duel' = [duel EXCEPT ![d].due = TRUE]
  /\ UNCHANGED <<xp, req, fired, confirmed, paid, winner, earned, raced, overtaken>>

Step(r) ==
  \/ Insert(r) \/ Answer(r) \/ Fire(r) \/ Label(r)
  \/ Finalize(r) \/ AwardAttacker(r) \/ AwardDefender(r)

Arrive(r) ==
  \/ \E p, q \in Players : Challenge(r, p, q)
  \/ \E d \in DuelIds :
       \/ LoadToAccept(r, d) \/ LoadToDecline(r, d) \/ LoadToFire(r, d)
       \/ LoadToLabel(r, d) \/ LoadToFinish(r, d) \/ LoadToExpire(r, d)

Next ==
  \/ \E r \in Requests : Arrive(r) \/ Step(r) \/ BreakDeadlock(r) \/ Rollback(r)
  \/ \E d \in DuelIds : TimeUp(d)

Spec == Init /\ [][Next]_duelVars

(* The server goes on serving what it has begun; PostgreSQL ends deadlocks *)
(* and queues those who wait for a row, so that none of them is passed     *)
(* over for ever (hence strong fairness).  Nobody has to send a request.   *)
FairSpec ==
  /\ Spec
  /\ \A r \in Requests : SF_duelVars(Step(r)) /\ WF_duelVars(BreakDeadlock(r))

--------------------------------------------------------------------------
(* Invariants *)

(* Types; no duel ever has more than MAX_WAVES waves, however many fire()  *)
(* requests overlap.                                                       *)
DuelTypeOK ==
  /\ duel \in [DuelIds -> Row]
  /\ \A d \in DuelIds : Cardinality(duel[d].waves) <= MaxWaves
  /\ xp \in [Players -> Nat]
  /\ req \in [Requests -> Request]
  /\ fired \in [DuelIds -> 0..MaxFired]
  /\ confirmed \in [DuelIds -> SUBSET Wave]
  /\ paid \in [DuelIds -> Nat]
  /\ winner \in [DuelIds -> Players \cup {Nobody}]
  /\ earned \in [Players -> Nat]
  /\ raced \subseteq DuelIds
  /\ overtaken \subseteq Players

(* However awards of several duels to one player overlap, fail or are      *)
(* cancelled, XP is never made up: a player has at most what committed     *)
(* finalizations awarded.  And it is lost only where one of them committed *)
(* while another had read the player's row (_award() reads and writes      *)
(* back, so the slower overwrites the faster): anyone else has it all.     *)
XPAccounted ==
  \A p \in Players : /\ xp[p] <= earned[p]
                     /\ p \notin overtaken => xp[p] = earned[p]

(* The status and the awards are one transaction: no duel is finished that *)
(* has not paid, even when requests die half way.                          *)
FinishedWasPaid ==
  \A d \in DuelIds : duel[d].status = "finished" => paid[d] > 0

(* A duel whose requests never overlapped pays when it finishes and only   *)
(* once, and pays the duel_win to whoever the waves in the table say.      *)
PaidOnceForItsWaves ==
  \A d \in DuelIds \ raced :
    /\ paid[d] = IF duel[d].status = "finished" THEN 1 ELSE 0
    /\ duel[d].status = "finished" =>
         /\ duel[d] = Tallied(duel[d])
         /\ winner[d] = Winner(duel[d])

(* In such a duel a wave is blocked exactly when label() said so.          *)
BlockedIfConfirmed ==
  \A d \in DuelIds \ raced : duel[d].blocked = confirmed[d]

(* "No duplicate open duel between the same pair" (challenge): of two open *)
(* duels of a pair one was challenged for while the other was, or was      *)
(* reopened by an accept() that raced.                                     *)
OneOpenPerPair ==
  \A c, d \in DuelIds :
    /\ c # d
    /\ Open(duel[c])
    /\ Open(duel[d])
    /\ {duel[c].att, duel[c].def} = {duel[d].att, duel[d].def}
    => c \in raced \/ d \in raced

--------------------------------------------------------------------------
(* Action properties and liveness *)

(* What the rules see of a duel: nothing but its players once two requests *)
(* have had it loaded at the same time.                                    *)
Ruled(d) ==
  [status |-> IF d \in raced THEN "overlapped" ELSE duel[d].status,
   att |-> duel[d].att, def |-> duel[d].def,
   waves |-> IF d \in raced THEN {} ELSE duel[d].waves,
   blocked |-> IF d \in raced THEN {} ELSE duel[d].blocked,
   winner |-> IF d \notin raced /\ duel[d].status = "finished" THEN winner[d]
              ELSE Nobody]

Matches == [d \in DuelIds |-> Ruled(d)]

Rules == INSTANCE DuelRules WITH match <- Matches

(* As long as no two requests meet in a duel, the copies, the locks and    *)
(* the three transactions of a finalization are as good as requests served *)
(* one by one: a duel goes through its states as the docstring says, takes *)
(* a wave or a block at a time, is closed for good, and pays once, to whom *)
(* its waves say; and one whose requests met still pays its players only,  *)
(* by the same tariff.                                                     *)
ImplementsRules == Rules!Spec

(* Every request is answered, though finalizations wait for each other.    *)
Answered == \A r \in Requests : req[r] # Idle ~> req[r] = Idle

--------------------------------------------------------------------------
(* What the code's comments say and the code does not do *)

(* "Winner gets +25 XP (duel_win) + the +10 both sides get for playing"    *)
(* (duels.py, module docstring): a duel pays once.                         *)
DuelPaysOnce == \A d \in DuelIds : paid[d] <= 1

(* "The defender must label the technique in time to "block" the wave"     *)
(* (there as well): a wave label() called correct stays blocked.           *)
BlockedStaysBlocked == \A d \in DuelIds : confirmed[d] \subseteq duel[d].blocked
=============================================================================
