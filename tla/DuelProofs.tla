----------------------------- MODULE DuelProofs -----------------------------
(***************************************************************************)
(* What holds of Duels for any number of players, duels, requests and      *)
(* waves: types and the wave limit, XP is accounted for, a finished duel   *)
(* has paid, a duel whose requests never overlap is sound, and the rules   *)
(* of DuelRules are implemented.                                           *)
(***************************************************************************)
EXTENDS Duels, FiniteSetTheorems, TLAPS

--------------------------------------------------------------------------
(* Rows *)

(* A set of waves has a size.                                              *)
LEMMA WaveSets ==
  ASSUME NEW S \in SUBSET Wave
  PROVE  IsFiniteSet(S) /\ Cardinality(S) \in Nat
<1>1. IsFiniteSet(Wave)
  BY DuelsAssumption, FS_Interval DEF Wave
<1> QED
  BY <1>1, FS_Subset, FS_CardinalityType

(* The rows the table starts with and a challenge adds.                    *)
LEMMA FirstRows ==
  /\ Blank \in Row
  /\ \A p, q \in Players : Pending(p, q) \in Row
  /\ Idle \in Request
  BY DEF Blank, Row, Status, Pending, Idle, Request

(* _tally() sets the two scores and nothing else.                          *)
LEMMA TalliedRow ==
  ASSUME NEW row \in Row
  PROVE  /\ Tallied(row) \in Row
         /\ Tallied(row).ascore = WavePoints * Cardinality(row.waves \ row.blocked)
         /\ Tallied(row).dscore = WavePoints * Cardinality(row.blocked)
         /\ Tallied(row).status = row.status
         /\ Tallied(row).att = row.att /\ Tallied(row).def = row.def
         /\ Tallied(row).waves = row.waves
         /\ Tallied(row).blocked = row.blocked
<1>1. /\ row.blocked \in SUBSET Wave
      /\ row.waves \ row.blocked \in SUBSET Wave
  BY DEF Row
<1>2. /\ Cardinality(row.blocked) \in Nat
      /\ Cardinality(row.waves \ row.blocked) \in Nat
  BY <1>1, WaveSets
<1>3. /\ WavePoints * Cardinality(row.blocked) \in Nat
      /\ WavePoints * Cardinality(row.waves \ row.blocked) \in Nat
  BY <1>2 DEF WavePoints
<1> QED
  BY <1>3 DEF Tallied, Row

(* An UPDATE of the scores leaves a row, and the rest of it as it was.     *)
LEMMA ScoredRow ==
  ASSUME NEW cur \in Row, NEW old \in Row, NEW new \in Row
  PROVE  /\ WithScores(cur, old, new) \in Row
         /\ WithScores(cur, old, new).status = cur.status
         /\ WithScores(cur, old, new).att = cur.att
         /\ WithScores(cur, old, new).def = cur.def
         /\ WithScores(cur, old, new).due = cur.due
         /\ WithScores(cur, old, new).waves = cur.waves
         /\ WithScores(cur, old, new).blocked = cur.blocked
         /\ WithScores(cur, old, new).ascore = Written(old.ascore, new.ascore, cur.ascore)
         /\ WithScores(cur, old, new).dscore = Written(old.dscore, new.dscore, cur.dscore)
<1>1. /\ Written(old.ascore, new.ascore, cur.ascore) \in Nat
      /\ Written(old.dscore, new.dscore, cur.dscore) \in Nat
  BY DEF Row, Written
<1> QED
  BY <1>1 DEF WithScores, Row

(* What a finalized row says of its players.                               *)
LEMMA Outcome ==
  ASSUME NEW row \in Row, NEW p
  PROVE  Winner(row) \in Players \cup {Nobody} /\ Gain(row, p) \in Nat
  BY DEF Winner, Gain, PlayedXP, WinXP, Row

--------------------------------------------------------------------------
(* Types *)

(* What a request under way carries.                                       *)
CopyOK(q) ==
  /\ q.next \in {"idle", "insert"} <=> q.id = NoDuel
  /\ q.next # "idle" =>
       q.row.att \in Players /\ q.row.def \in Players /\ q.row.att # q.row.def
  /\ q.next \in {"label", "mislabel"} => q.wave \in Wave
  /\ q.next = "insert" => q.row.status = "pending" /\ q.row.blocked = {}
  /\ Cardinality(q.row.waves) <= MaxWaves
  /\ q.next = "fire" => Cardinality(q.row.waves) < MaxWaves

CopiesOK == \A r \in Requests : CopyOK(req[r])

(* Every duel that exists has two players, not one; what is loaded exists. *)
PlayersOK ==
  /\ \A d \in DuelIds :
       duel[d].status # "none" =>
         duel[d].att \in Players /\ duel[d].def \in Players /\ duel[d].att # duel[d].def
  /\ \A r \in Requests : req[r].id # NoDuel => duel[req[r].id].status # "none"

Typed == DuelTypeOK /\ CopiesOK /\ PlayersOK

(* What a Load leaves in the request.                                      *)
LEMMA LoadTyped ==
  ASSUME Typed, NEW r \in Requests, NEW d \in DuelIds,
         NEW next \in {"accept", "decline", "fire", "label", "mislabel", "finalize"},
         NEW w \in Wave \cup {0}, duel[d].status # "none",
         next \in {"label", "mislabel"} => w \in Wave,
         next = "fire" => ~Full(duel[d]),
         Load(r, d, next, w)
  PROVE  Typed'
<1> DEFINE q == [Idle EXCEPT !.next = next, !.id = d, !.row = duel[d], !.wave = w]
<1>1. /\ q \in Request
      /\ q.next = next /\ q.id = d /\ q.row = duel[d] /\ q.wave = w
  BY DEF Idle, Request, Typed, DuelTypeOK
<1>2. req' = [req EXCEPT ![r] = q] /\ raced' \subseteq DuelIds
  BY DEF Load, Typed, DuelTypeOK
<1>3. UNCHANGED <<duel, xp, fired, confirmed, paid, winner, earned, overtaken>>
  BY DEF Load
<1> HIDE DEF q
<1>4. DuelTypeOK'
  BY <1>1, <1>2, <1>3 DEF Typed, DuelTypeOK
<1>5. Cardinality(duel[d].waves) \in Nat
  BY WaveSets DEF Typed, DuelTypeOK, Row
<1>6. CopyOK(q)
  BY <1>1, <1>5, DuelsAssumption DEF Typed, DuelTypeOK, PlayersOK, Full, CopyOK
<1>8. CopiesOK'
  BY <1>2, <1>6 DEF Typed, DuelTypeOK, CopiesOK
<1>7. PlayersOK'
  BY <1>1, <1>2, <1>3 DEF Typed, DuelTypeOK, PlayersOK
<1> QED BY <1>4, <1>7, <1>8 DEF Typed

(* A request that ends leaves no copy behind.                              *)
LEMMA DoneTyped ==
  ASSUME Typed, NEW r \in Requests, Done(r)
  PROVE  /\ req' \in [Requests -> Request] /\ CopiesOK'
         /\ \A s \in Requests : req'[s].id \in {NoDuel, req[s].id}
<1>1. /\ Idle.next = "idle" /\ Idle.id = NoDuel /\ Idle.row.waves = {}
      /\ Idle \in Request
  BY FirstRows DEF Idle, Blank
<1>2. Cardinality(Idle.row.waves) = 0
  BY <1>1, FS_EmptySet
<1>3. req' = [req EXCEPT ![r] = Idle] /\ req \in [Requests -> Request]
  BY DEF Done, Typed, DuelTypeOK
<1>4. CopyOK(Idle)
  BY <1>1, <1>2, DuelsAssumption DEF CopyOK
<1>5. CopiesOK'
  BY <1>3, <1>4 DEF Typed, CopiesOK
<1> QED
  BY <1>1, <1>3, <1>5

(* Writing one row of the table, at the end of a request.                  *)
LEMMA WriteTyped ==
  ASSUME Typed, NEW r \in Requests, Done(r), NEW d \in DuelIds, NEW row \in Row,
         Cardinality(row.waves) <= MaxWaves, row.status # "none",
         row.att \in Players, row.def \in Players, row.att # row.def,
         duel' = [duel EXCEPT ![d] = row]
  PROVE  /\ duel' \in [DuelIds -> Row]
         /\ \A e \in DuelIds : Cardinality(duel'[e].waves) <= MaxWaves
         /\ PlayersOK'
<1>1. ASSUME NEW s \in Requests, req'[s].id # NoDuel
      PROVE  duel'[req'[s].id].status # "none"
  <2>1. req'[s].id = req[s].id /\ req[s].id \in DuelIds
    BY <1>1, DoneTyped DEF Typed, DuelTypeOK, Request
  <2> QED
    BY <1>1, <2>1 DEF Typed, DuelTypeOK, PlayersOK
<1> QED
  BY <1>1 DEF Typed, DuelTypeOK, PlayersOK

(* Only players are overtaken.                                             *)
LEMMA OvertakenTyped ==
  ASSUME Typed, [Next]_duelVars
  PROVE  overtaken' \subseteq Players
<1>1. CASE UNCHANGED overtaken
  BY <1>1 DEF Typed, DuelTypeOK
<1>2. ASSUME NEW r \in Requests, AwardDefender(r)
      PROVE  overtaken' \subseteq Players
  BY <1>2 DEF AwardDefender, Overtaking, Typed, DuelTypeOK, CopiesOK, CopyOK
<1>3. ASSUME NEW r \in Requests, Arrive(r)
      PROVE  UNCHANGED overtaken
  <2>1. ASSUME NEW p, NEW q, Challenge(r, p, q)
        PROVE  UNCHANGED overtaken
    BY <2>1 DEF Challenge
  <2>2. ASSUME NEW d, NEW n, NEW w, Load(r, d, n, w)
        PROVE  UNCHANGED overtaken
    BY <2>2 DEF Load
  <2> QED
    BY <1>3, <2>1, <2>2 DEF Arrive, LoadToAccept, LoadToDecline, LoadToFire,
       LoadToLabel, LoadToFinish, LoadToExpire
<1>4. ASSUME NEW r \in Requests,
             Insert(r) \/ Answer(r) \/ Fire(r) \/ Label(r) \/ Finalize(r)
               \/ AwardAttacker(r) \/ Rollback(r)
      PROVE  UNCHANGED overtaken
  BY <1>4, Zenon DEF Insert, Answer, Fire, Label, Finalize, AwardAttacker, Rollback
<1>5. ASSUME NEW d \in DuelIds, TimeUp(d)
      PROVE  UNCHANGED overtaken
  BY <1>5 DEF TimeUp
<1>6. UNCHANGED duelVars => UNCHANGED overtaken
  BY DEF duelVars
<1> QED
  BY <1>1, <1>2, <1>3, <1>4, <1>5, <1>6 DEF Next, Step, BreakDeadlock

(* Types are kept by every step.                                           *)
LEMMA StepTyped ==
  ASSUME Typed, [Next]_duelVars
  PROVE  Typed'
<1> USE DEF Typed
<1>0. overtaken' \subseteq Players
  BY OvertakenTyped
<1> USE <1>0
<1>1. CASE UNCHANGED duelVars
  BY <1>1 DEF DuelTypeOK, CopiesOK, PlayersOK, duelVars
<1>2. ASSUME NEW r \in Requests, NEW p \in Players, NEW q \in Players, Challenge(r, p, q)
      PROVE Typed'
  <2> DEFINE n == [Idle EXCEPT !.next = "insert", !.row = Pending(p, q)]
  <2>1. /\ n \in Request /\ n.next = "insert" /\ n.id = NoDuel
        /\ n.row.status = "pending" /\ n.row.blocked = {} /\ n.row.waves = {}
        /\ n.row.att = p /\ n.row.def = q /\ p # q
    BY <1>2, FirstRows DEF Challenge, Idle, Request, Pending, Blank
  <2>2. req' = [req EXCEPT ![r] = n]
    BY <1>2 DEF Challenge
  <2>3. UNCHANGED <<duel, xp, fired, confirmed, paid, winner, earned, raced>>
    BY <1>2 DEF Challenge
  <2> HIDE DEF n
  <2>4. Cardinality(n.row.waves) = 0
    BY <2>1, FS_EmptySet
  <2>5. CopiesOK'
    <3>1. CopyOK(n)
      BY <2>1, <2>4, DuelsAssumption DEF CopyOK
    <3> QED
      BY <2>2, <3>1 DEF CopiesOK, DuelTypeOK
  <2> QED
    BY <2>1, <2>2, <2>3, <2>5 DEF DuelTypeOK, PlayersOK
<1>3. ASSUME NEW r \in Requests, NEW d \in DuelIds,
             \/ LoadToAccept(r, d) \/ LoadToDecline(r, d) \/ LoadToFire(r, d)
             \/ LoadToLabel(r, d) \/ LoadToFinish(r, d) \/ LoadToExpire(r, d)
      PROVE Typed'
  <2>1. PICK next \in {"accept", "decline", "fire", "label", "mislabel", "finalize"},
             w \in Wave \cup {0} :
          /\ duel[d].status # "none"
          /\ next \in {"label", "mislabel"} => w \in Wave
          /\ next = "fire" => ~Full(duel[d])
          /\ Load(r, d, next, w)
    BY <1>3 DEF LoadToAccept, LoadToDecline, LoadToFire, LoadToLabel, LoadToFinish,
                LoadToExpire, Acceptable, Open, Overdue, DuelTypeOK, Row
  <2> QED
    BY <2>1, LoadTyped
<1>4. ASSUME NEW r \in Requests, Insert(r)
      PROVE Typed'
  <2>1. PICK d \in DuelIds : duel' = [duel EXCEPT ![d] = req[r].row]
    BY <1>4 DEF Insert
  <2>2. /\ req[r].row \in Row /\ Cardinality(req[r].row.waves) <= MaxWaves
        /\ req[r].row.status # "none"
        /\ req[r].row.att \in Players /\ req[r].row.def \in Players
        /\ req[r].row.att # req[r].row.def
    BY <1>4 DEF Insert, DuelTypeOK, CopiesOK, CopyOK, Request
  <2>3. raced' \subseteq DuelIds /\ UNCHANGED <<xp, fired, confirmed, paid, winner, earned>>
    BY <1>4 DEF Insert, DuelTypeOK
  <2>4. Done(r)
    BY <1>4 DEF Insert
  <2> QED
    BY <2>1, <2>2, <2>3, <2>4, WriteTyped, DoneTyped DEF DuelTypeOK
<1>5. ASSUME NEW r \in Requests, req[r].id # NoDuel
      PROVE  LET d == req[r].id IN
             /\ d \in DuelIds /\ duel[d] \in Row /\ req[r].row \in Row
             /\ duel[d].status # "none"
             /\ duel[d].att \in Players /\ duel[d].def \in Players
             /\ duel[d].att # duel[d].def
             /\ Cardinality(duel[d].waves) <= MaxWaves
  BY <1>5 DEF DuelTypeOK, PlayersOK, Request
<1>6. ASSUME NEW r \in Requests, Answer(r)
      PROVE Typed'
  <2> DEFINE d == req[r].id
  <2>1. PICK row \in {[duel[d] EXCEPT !.status = "active", !.due = FALSE],
                      [duel[d] EXCEPT !.status = "declined"]} :
           duel' = [duel EXCEPT ![d] = row]
    BY <1>6 DEF Answer
  <2>2. d # NoDuel
    BY <1>6 DEF Answer, CopiesOK, CopyOK
  <2>3. /\ row \in Row /\ row.waves = duel[d].waves /\ row.status # "none"
        /\ row.att = duel[d].att /\ row.def = duel[d].def
    BY <1>5, <2>1, <2>2 DEF Row, Status
  <2>4. UNCHANGED <<xp, fired, confirmed, paid, winner, earned, raced>> /\ Done(r)
    BY <1>6 DEF Answer
  <2>5. /\ duel' \in [DuelIds -> Row] /\ PlayersOK'
        /\ \A e \in DuelIds : Cardinality(duel'[e].waves) <= MaxWaves
    BY <1>5, <2>1, <2>2, <2>3, <2>4, WriteTyped
  <2>6. req' \in [Requests -> Request] /\ CopiesOK'
    BY <2>4, DoneTyped
  <2> QED
    BY <2>4, <2>5, <2>6 DEF DuelTypeOK
<1>7. ASSUME NEW r \in Requests, Fire(r)
      PROVE Typed'
  <2> DEFINE d == req[r].id
             w == fired[d] + 1
             waves == req[r].row.waves
             row == [duel[d] EXCEPT !.waves = waves \cup {w},
                                    !.blocked = req[r].row.blocked]
  <2>1. d # NoDuel /\ Cardinality(waves) < MaxWaves
    BY <1>7 DEF Fire, CopiesOK, CopyOK
  <2>2. waves \in SUBSET Wave /\ req[r].row.blocked \in SUBSET Wave
    BY <1>5, <2>1 DEF Row
  <2>3. w \in Wave /\ fired' \in [DuelIds -> 0..MaxFired]
    BY <1>5, <1>7, <2>1, DuelsAssumption DEF Fire, DuelTypeOK, Wave
  <2>4. /\ row \in Row /\ row.status = duel[d].status
        /\ row.att = duel[d].att /\ row.def = duel[d].def
        /\ row.waves = waves \cup {w}
    BY <1>5, <2>1, <2>2, <2>3 DEF Row
  <2>5. duel' = [duel EXCEPT ![d] = row] /\ Done(r)
        /\ UNCHANGED <<xp, confirmed, paid, winner, earned, raced>>
    BY <1>7 DEF Fire
  <2> HIDE DEF row
  <2>6. Cardinality(row.waves) <= MaxWaves
    <3>1. IsFiniteSet(waves) /\ Cardinality(waves) \in Nat
      BY <2>2, WaveSets
    <3>2. Cardinality(waves \cup {w}) \in {Cardinality(waves), Cardinality(waves) + 1}
      BY <3>1, FS_AddElement
    <3> QED
      BY <2>1, <2>4, <3>1, <3>2, DuelsAssumption
  <2>7. /\ duel' \in [DuelIds -> Row] /\ PlayersOK'
        /\ \A e \in DuelIds : Cardinality(duel'[e].waves) <= MaxWaves
    BY <1>5, <2>1, <2>4, <2>5, <2>6, WriteTyped
  <2>8. req' \in [Requests -> Request] /\ CopiesOK'
    BY <2>5, DoneTyped
  <2> QED
    BY <2>3, <2>5, <2>7, <2>8 DEF DuelTypeOK
<1>8. ASSUME NEW r \in Requests, Label(r)
      PROVE Typed'
  <2> DEFINE d == req[r].id
             old == req[r].row
             hit == Hit(req[r].next, req[r].wave)
             new == Tallied([old EXCEPT !.blocked = @ \cup hit])
             mid == [duel[d] EXCEPT !.waves = new.waves, !.blocked = new.blocked]
             row == WithScores(mid, old, new)
  <2>1. d # NoDuel /\ Cardinality(old.waves) <= MaxWaves /\ req[r].wave \in Wave
    BY <1>8 DEF Label, CopiesOK, CopyOK
  <2>2. old \in Row /\ [old EXCEPT !.blocked = @ \cup hit] \in Row
    BY <1>5, <2>1 DEF Row, Hit
  <2>3. [old EXCEPT !.blocked = @ \cup hit].waves = old.waves
    BY <1>5, <2>1 DEF Row
  <2>4. new \in Row /\ new.waves = old.waves
    BY <2>2, <2>3, TalliedRow
  <2> HIDE DEF new
  <2>5. /\ mid \in Row /\ mid.status = duel[d].status /\ mid.waves = old.waves
        /\ mid.att = duel[d].att /\ mid.def = duel[d].def
    BY <1>5, <2>1, <2>4 DEF Row
  <2> HIDE DEF mid
  <2>6. /\ row \in Row /\ row.status = duel[d].status /\ row.waves = old.waves
        /\ row.att = duel[d].att /\ row.def = duel[d].def
    BY <2>2, <2>4, <2>5, ScoredRow
  <2> HIDE DEF row
  <2>7. duel' = [duel EXCEPT ![d] = row] /\ Done(r)
        /\ UNCHANGED <<xp, fired, paid, winner, earned, raced>>
    BY <1>8 DEF Label, row, mid, new
  <2>8. confirmed' \in [DuelIds -> SUBSET Wave]
    BY <1>8, <1>5, <2>1 DEF Label, DuelTypeOK
  <2>9. /\ duel' \in [DuelIds -> Row] /\ PlayersOK'
        /\ \A e \in DuelIds : Cardinality(duel'[e].waves) <= MaxWaves
    BY <1>5, <2>1, <2>6, <2>7, WriteTyped
  <2>10. req' \in [Requests -> Request] /\ CopiesOK'
    BY <2>7, DoneTyped
  <2> QED
    BY <2>7, <2>8, <2>9, <2>10 DEF DuelTypeOK
<1>9. ASSUME NEW r \in Requests, Finalize(r) \/ AwardAttacker(r)
      PROVE Typed'
  <2>1. /\ req[r].id # NoDuel /\ req[r].row.att \in Players /\ req[r].row.def \in Players
        /\ CopyOK(req[r]) /\ req[r] \in Request /\ req[r].row \in Row
    BY <1>9 DEF Finalize, AwardAttacker, CopiesOK, CopyOK, DuelTypeOK, Request
  <2>2. FinalTally(req[r].row).att = req[r].row.att /\ FinalTally(req[r].row).def = req[r].row.def
    BY <2>1, TalliedRow DEF FinalTally
  <2>3. /\ xp[req[r].row.att] \in Nat /\ xp[req[r].row.def] \in Nat
    BY <2>1 DEF DuelTypeOK
  <2>4. UNCHANGED <<duel, xp, fired, confirmed, paid, winner, earned, raced>>
    BY <1>9 DEF Finalize, AwardAttacker, StatusUncommitted, XpUncommitted
  <2>5. PICK n \in {[req[r] EXCEPT !.next = "attacker", !.axp = xp[req[r].row.att]],
                    [req[r] EXCEPT !.next = "defender", !.dxp = xp[req[r].row.def]]} :
           req' = [req EXCEPT ![r] = n]
    BY <1>9, <2>2 DEF Finalize, AwardAttacker
  <2>6. /\ n \in Request /\ CopyOK(n) /\ n.id = req[r].id
    BY <2>1, <2>3, <2>5 DEF Request, CopyOK
  <2> QED
    BY <2>4, <2>5, <2>6 DEF DuelTypeOK, CopiesOK, PlayersOK
<1>10. ASSUME NEW r \in Requests, AwardDefender(r)
       PROVE Typed'
  <2> DEFINE d == req[r].id
             old == req[r].row
             new == FinalTally(old)
             mid == [duel[d] EXCEPT !.status = "finished"]
             row == WithScores(mid, old, new)
  <2>1. /\ d # NoDuel /\ old.att \in Players /\ old.def \in Players
        /\ req[r].axp \in Nat /\ req[r].dxp \in Nat
    BY <1>10 DEF AwardDefender, CopiesOK, CopyOK, DuelTypeOK, Request
  <2>2. old \in Row
    BY <1>5, <2>1
  <2>3. new \in Row /\ new.att = old.att /\ new.def = old.def
    BY <2>2, TalliedRow DEF FinalTally
  <2> HIDE DEF new
  <2>4. /\ mid \in Row /\ mid.status = "finished" /\ mid.waves = duel[d].waves
        /\ mid.att = duel[d].att /\ mid.def = duel[d].def
    BY <1>5, <2>1 DEF Row, Status
  <2> HIDE DEF mid
  <2>5. /\ row \in Row /\ row.status = "finished" /\ row.waves = duel[d].waves
        /\ row.att = duel[d].att /\ row.def = duel[d].def
    BY <2>2, <2>3, <2>4, ScoredRow
  <2> HIDE DEF row
  <2>6. duel' = [duel EXCEPT ![d] = row] /\ Done(r)
        /\ UNCHANGED <<fired, confirmed, raced>>
    BY <1>10 DEF AwardDefender, row, mid, new
  <2>7. /\ Gain(new, old.att) \in Nat /\ Gain(new, old.def) \in Nat
        /\ Winner(new) \in Players \cup {Nobody}
    BY <2>3, Outcome
  <2>8. /\ xp' \in [Players -> Nat] /\ earned' \in [Players -> Nat]
        /\ paid' \in [DuelIds -> Nat]
        /\ winner' \in [DuelIds -> Players \cup {Nobody}]
    BY <1>5, <1>10, <2>1, <2>3, <2>7 DEF AwardDefender, DuelTypeOK, new
  <2>9. /\ duel' \in [DuelIds -> Row] /\ PlayersOK'
        /\ \A e \in DuelIds : Cardinality(duel'[e].waves) <= MaxWaves
    BY <1>5, <2>1, <2>5, <2>6, WriteTyped
  <2>10. req' \in [Requests -> Request] /\ CopiesOK'
    BY <2>6, DoneTyped
  <2> QED
    BY <2>6, <2>8, <2>9, <2>10 DEF DuelTypeOK
<1>11. ASSUME NEW r \in Requests, Rollback(r)
       PROVE Typed'
  BY <1>11, DoneTyped DEF Rollback, DuelTypeOK, PlayersOK
<1>12. ASSUME NEW d \in DuelIds, TimeUp(d)
       PROVE Typed'
  <2> DEFINE row == [duel[d] EXCEPT !.due = TRUE]
  <2>1. /\ row \in Row /\ row.waves = duel[d].waves /\ row.status = duel[d].status
        /\ row.att = duel[d].att /\ row.def = duel[d].def
    BY ZenonT(40) DEF Row, DuelTypeOK
  <2>2. duel' = [duel EXCEPT ![d] = row]
        /\ UNCHANGED <<xp, req, fired, confirmed, paid, winner, earned, raced>>
    BY <1>12 DEF TimeUp
  <2> HIDE DEF row
  <2> QED
    BY <2>1, <2>2 DEF DuelTypeOK, CopiesOK, PlayersOK
<1> QED
  BY <1>1, <1>2, <1>3, <1>4, <1>6, <1>7, <1>8, <1>9, <1>10, <1>11, <1>12
     DEF Next, Arrive, Step, BreakDeadlock

LEMMA InitTyped == Init => Typed
<1> SUFFICES ASSUME Init PROVE Typed
  OBVIOUS
<1>1. /\ Blank \in Row /\ Idle \in Request /\ Blank.waves = {}
      /\ Blank.status = "none"
      /\ Idle.next = "idle" /\ Idle.id = NoDuel /\ Idle.row = Blank
  BY FirstRows DEF Blank, Idle
<1>2. Cardinality(Blank.waves) = 0
  BY <1>1, FS_EmptySet
<1>3. CopyOK(Idle)
  BY <1>1, <1>2, DuelsAssumption DEF CopyOK
<1>4. CopiesOK /\ PlayersOK
  BY <1>1, <1>3 DEF Init, CopiesOK, PlayersOK
<1>5. DuelTypeOK
  BY SMTT(20), <1>1, <1>2, DuelsAssumption DEF Init, DuelTypeOK
<1> QED BY <1>4, <1>5 DEF Typed

LEMMA AlwaysTyped == Spec => []Typed
  BY InitTyped, StepTyped, PTL DEF Spec

(* Every value stays in its type, and no interleaving of fire() requests   *)
(* gets a duel past MAX_WAVES waves.                                       *)
THEOREM DuelTypesCorrect == Spec => []DuelTypeOK
<1>1. Typed => DuelTypeOK
  BY DEF Typed
<1> QED BY <1>1, AlwaysTyped, PTL

--------------------------------------------------------------------------
(* XP *)

(* The XP an award starts from was the player's once, and what a player has *)
(* earned only grows: it is never more than the player has earned.  It is   *)
(* still what the player has unless a finalization overtook this one.       *)
AwardsOK ==
  \A r \in Requests :
    /\ req[r].next \in {"attacker", "defender"} =>
         /\ req[r].axp <= earned[req[r].row.att]
         /\ req[r].row.att \notin overtaken => req[r].axp = xp[req[r].row.att]
    /\ req[r].next = "defender" =>
         /\ req[r].dxp <= earned[req[r].row.def]
         /\ req[r].row.def \notin overtaken => req[r].dxp = xp[req[r].row.def]

LEMMA StepXP ==
  ASSUME Typed, XPAccounted, AwardsOK, [Next]_duelVars
  PROVE  XPAccounted' /\ AwardsOK'
<1> USE DEF Typed, DuelTypeOK
<1>1. ASSUME UNCHANGED <<xp, earned, overtaken>>,
             \A r \in Requests : \/ req'[r] = req[r]
                                 \/ req'[r].next \notin {"attacker", "defender"}
      PROVE  XPAccounted' /\ AwardsOK'
  BY <1>1 DEF XPAccounted, AwardsOK
<1>2. CASE UNCHANGED duelVars
  BY <1>2 DEF duelVars, XPAccounted, AwardsOK
<1>3. ASSUME NEW r \in Requests, Arrive(r)
      PROVE  XPAccounted' /\ AwardsOK'
  <2>1. UNCHANGED <<xp, earned, overtaken>>
    BY <1>3 DEF Arrive, Challenge, LoadToAccept, LoadToDecline, LoadToFire,
                LoadToLabel, LoadToFinish, LoadToExpire, Load
  <2>2. ASSUME NEW n \in {"accept", "decline", "fire", "label", "mislabel", "finalize"},
               NEW d \in DuelIds, NEW w, Load(r, d, n, w)
        PROVE  req'[r].next \notin {"attacker", "defender"}
    <3>1. req'[r] = [Idle EXCEPT !.next = n, !.id = d, !.row = duel[d], !.wave = w]
      BY <2>2 DEF Load
    <3> QED
      BY <3>1 DEF Idle
  <2>3. ASSUME NEW p, NEW q, Challenge(r, p, q)
        PROVE  req'[r].next \notin {"attacker", "defender"}
    <3>1. req'[r] = [Idle EXCEPT !.next = "insert", !.row = Pending(p, q)]
      BY <2>3 DEF Challenge
    <3> QED
      BY <3>1 DEF Idle
  <2>4. req'[r].next \notin {"attacker", "defender"}
    <3>1. CASE \E p, q \in Players : Challenge(r, p, q)
      BY <2>3, <3>1
    <3>2. CASE \E d \in DuelIds :
                 \E n \in {"accept", "decline", "fire", "label", "mislabel", "finalize"} :
                   \E w : Load(r, d, n, w)
      BY <2>2, <3>2
    <3> QED
      BY <1>3, <3>1, <3>2 DEF Arrive, LoadToAccept, LoadToDecline, LoadToFire,
                              LoadToLabel, LoadToFinish, LoadToExpire
  <2>5. \A s \in Requests \ {r} : req'[s] = req[s]
    BY <1>3 DEF Arrive, Challenge, LoadToAccept, LoadToDecline, LoadToFire,
                LoadToLabel, LoadToFinish, LoadToExpire, Load
  <2> QED
    BY <1>1, <2>1, <2>4, <2>5
<1>4. ASSUME NEW r \in Requests,
             Insert(r) \/ Answer(r) \/ Fire(r) \/ Label(r) \/ Rollback(r)
      PROVE  XPAccounted' /\ AwardsOK'
  <2>1. UNCHANGED <<xp, earned, overtaken>> /\ req' = [req EXCEPT ![r] = Idle]
    BY <1>4 DEF Insert, Answer, Fire, Label, Rollback, Done
  <2>2. Idle.next = "idle"
    BY DEF Idle
  <2> QED
    BY <1>1, <2>1, <2>2
<1>5. ASSUME NEW r \in Requests, Finalize(r) \/ AwardAttacker(r) \/ AwardDefender(r)
      PROVE  /\ req[r].row \in Row /\ req[r] \in Request
             /\ req[r].row.att \in Players /\ req[r].row.def \in Players
             /\ req[r].row.att # req[r].row.def
             /\ FinalTally(req[r].row) \in Row
             /\ FinalTally(req[r].row).att = req[r].row.att
             /\ FinalTally(req[r].row).def = req[r].row.def
  <2>1. req[r] \in Request /\ req[r].row \in Row
    BY DEF Request
  <2>2. /\ req[r].row.att \in Players /\ req[r].row.def \in Players
        /\ req[r].row.att # req[r].row.def
    BY <1>5 DEF Finalize, AwardAttacker, AwardDefender, CopiesOK, CopyOK
  <2> QED
    BY <2>1, <2>2, TalliedRow DEF FinalTally
<1>6. ASSUME NEW r \in Requests, Finalize(r)
      PROVE  XPAccounted' /\ AwardsOK'
  <2> DEFINE n == [req[r] EXCEPT !.next = "attacker", !.axp = xp[req[r].row.att]]
  <2>1. req' = [req EXCEPT ![r] = n] /\ UNCHANGED <<xp, earned, overtaken>>
    BY <1>5, <1>6 DEF Finalize
  <2>2. n.next = "attacker" /\ n.axp = xp[req[r].row.att] /\ n.row = req[r].row
    BY <1>5, <1>6 DEF Request
  <2> HIDE DEF n
  <2> QED
    BY <1>5, <1>6, <2>1, <2>2 DEF XPAccounted, AwardsOK
<1>7. ASSUME NEW r \in Requests, AwardAttacker(r)
      PROVE  XPAccounted' /\ AwardsOK'
  <2> DEFINE n == [req[r] EXCEPT !.next = "defender", !.dxp = xp[req[r].row.def]]
  <2>1. req' = [req EXCEPT ![r] = n] /\ UNCHANGED <<xp, earned, overtaken>> /\ req[r].next = "attacker"
    BY <1>5, <1>7 DEF AwardAttacker, XpUncommitted
  <2>2. /\ n.next = "defender" /\ n.dxp = xp[req[r].row.def] /\ n.row = req[r].row
        /\ n.axp = req[r].axp
    BY <1>5, <1>7 DEF Request
  <2> HIDE DEF n
  <2> QED
    BY <1>5, <1>7, <2>1, <2>2 DEF XPAccounted, AwardsOK
<1>8. ASSUME NEW r \in Requests, AwardDefender(r)
      PROVE  XPAccounted' /\ AwardsOK'
  <2> DEFINE new == FinalTally(req[r].row)
             a == new.att
             b == new.def
             ga == Gain(new, a)
             gb == Gain(new, b)
  <2>1. a \in Players /\ b \in Players /\ a # b /\ ga \in Nat /\ gb \in Nat
    BY <1>5, <1>8, Outcome
  <2>2. /\ req[r].axp \in Nat /\ req[r].dxp \in Nat
        /\ req[r].axp <= earned[a] /\ req[r].dxp <= earned[b]
        /\ a \notin overtaken => req[r].axp = xp[a]
        /\ b \notin overtaken => req[r].dxp = xp[b]
    BY <1>5, <1>8 DEF AwardsOK, AwardDefender, Request
  <2>3. /\ xp' = [xp EXCEPT ![a] = req[r].axp + ga, ![b] = req[r].dxp + gb]
        /\ earned' = [earned EXCEPT ![a] = @ + ga, ![b] = @ + gb]
        /\ req' = [req EXCEPT ![r] = Idle]
        /\ overtaken \subseteq overtaken'
    BY <1>8 DEF AwardDefender, Done
  <2>4. Idle.next = "idle"
    BY DEF Idle
  <2>5. ASSUME NEW s \in Requests \ {r}, HasRead(s, a) \/ HasRead(s, b)
        PROVE  /\ HasRead(s, a) => a \in overtaken'
               /\ HasRead(s, b) => b \in overtaken'
    BY <1>5, <1>8, <2>5 DEF AwardDefender, Overtaking
  <2> HIDE DEF new, ga, gb, a, b
  <2>6. /\ xp'[a] = req[r].axp + ga /\ earned'[a] = earned[a] + ga
        /\ xp'[b] = req[r].dxp + gb /\ earned'[b] = earned[b] + gb
        /\ \A p \in Players \ {a, b} : xp'[p] = xp[p] /\ earned'[p] = earned[p]
    BY <2>1, <2>3
  <2>7. \A p \in Players : earned[p] \in Nat /\ earned'[p] \in Nat /\ earned[p] <= earned'[p]
    BY <2>1, <2>6
  <2>8. XPAccounted'
    <3> SUFFICES ASSUME NEW p \in Players
                 PROVE  /\ xp'[p] <= earned'[p]
                        /\ p \notin overtaken' => xp'[p] = earned'[p]
      BY DEF XPAccounted
    <3>1. xp[p] <= earned[p] /\ (p \notin overtaken => xp[p] = earned[p])
      BY DEF XPAccounted
    <3>2. xp[a] \in Nat /\ xp[b] \in Nat /\ earned[a] \in Nat /\ earned[b] \in Nat
      BY <2>1
    <3>3. CASE p = a
      BY <2>1, <2>2, <2>3, <2>6, <3>1, <3>2, <3>3
    <3>4. CASE p = b
      BY <2>1, <2>2, <2>3, <2>6, <3>1, <3>2, <3>4
    <3>5. CASE p \notin {a, b}
      BY <2>3, <2>6, <3>1, <3>5
    <3> QED
      BY <3>3, <3>4, <3>5
  <2>9. AwardsOK'
    <3> SUFFICES ASSUME NEW s \in Requests, req'[s].next \in {"attacker", "defender"}
                 PROVE  /\ req'[s].axp <= earned'[req'[s].row.att]
                        /\ req'[s].row.att \notin overtaken' =>
                             req'[s].axp = xp'[req'[s].row.att]
                        /\ req'[s].next = "defender" =>
                             /\ req'[s].dxp <= earned'[req'[s].row.def]
                             /\ req'[s].row.def \notin overtaken' =>
                                  req'[s].dxp = xp'[req'[s].row.def]
      BY DEF AwardsOK
    <3>1. req'[s] = req[s] /\ s # r
      BY <2>3, <2>4
    <3>2. /\ req[s].row.att \in Players /\ req[s].row.def \in Players
          /\ req[s].axp \in Nat /\ req[s].dxp \in Nat
      BY <3>1 DEF CopiesOK, CopyOK, Request
    <3>3. /\ req[s].axp <= earned'[req[s].row.att]
          /\ req[s].next = "defender" => req[s].dxp <= earned'[req[s].row.def]
      BY <2>7, <3>1, <3>2 DEF AwardsOK
    <3>4. HasRead(s, req[s].row.att)
      BY <3>1 DEF HasRead
    <3>5. req[s].next = "defender" => HasRead(s, req[s].row.def)
      BY DEF HasRead
    <3>6. req[s].row.att \notin overtaken' => req[s].axp = xp'[req[s].row.att]
      BY <2>3, <2>5, <2>6, <3>1, <3>2, <3>4 DEF AwardsOK
    <3>7. req[s].next = "defender" /\ req[s].row.def \notin overtaken' =>
            req[s].dxp = xp'[req[s].row.def]
      BY <2>3, <2>5, <2>6, <3>1, <3>2, <3>5 DEF AwardsOK
    <3> QED
      BY <3>1, <3>3, <3>6, <3>7
  <2> QED
    BY <2>8, <2>9
<1>9. ASSUME NEW d \in DuelIds, TimeUp(d)
      PROVE  XPAccounted' /\ AwardsOK'
  BY <1>9 DEF TimeUp, XPAccounted, AwardsOK
<1> QED
  BY <1>2, <1>3, <1>4, <1>6, <1>7, <1>8, <1>9 DEF Next, Step, BreakDeadlock

(* XP is never made up: a player's XP is at most what committed            *)
(* finalizations awarded, however _award() calls of several duels          *)
(* interleave and whichever of them are rolled back; and it is exactly     *)
(* that for everybody whose row no finalization wrote while another had it *)
(* read, however many duels were paid and requests lost.                   *)
THEOREM XPCorrect == Spec => []XPAccounted
<1>1. Init => XPAccounted /\ AwardsOK
  BY DEF Init, XPAccounted, AwardsOK, Idle
<1> QED
  BY <1>1, StepXP, AlwaysTyped, PTL DEF Spec

--------------------------------------------------------------------------
(* Duels whose requests do not overlap *)

(* What two copies of a row may differ in is the clock.                    *)
SameRow(row, other) == [row EXCEPT !.due = other.due] = other

Closed(row) == row.status \in {"declined", "finished"}

(* Why an unraced duel is sound: at most one request has it loaded, with a *)
(* copy that is the row, and in the status the request checked.            *)
Sound(d) ==
  /\ \A r, q \in Requests : req[r].id = d /\ req[q].id = d => r = q
  /\ \A r \in Requests : req[r].id = d =>
       /\ SameRow(req[r].row, duel[d])
       /\ req[r].next \in {"accept", "decline"} => duel[d].status = "pending"
       /\ req[r].next \in {"fire", "label", "mislabel"} => duel[d].status = "active"
       /\ req[r].next \in {"finalize", "attacker", "defender"} => Open(duel[d])
  /\ paid[d] = IF duel[d].status = "finished" THEN 1 ELSE 0
  /\ duel[d].status = "finished" => /\ duel[d] = Tallied(duel[d])
                                    /\ winner[d] = Winner(duel[d])
  /\ duel[d].blocked = confirmed[d]
  /\ duel[d].status = "none" => duel[d].blocked = {}

UnracedSound == \A d \in DuelIds \ raced : Sound(d)

(* A step that leaves duel d alone, and at most ends requests that have it *)
(* loaded or moves its finalizer on.                                       *)
LEMMA SoundFrame ==
  ASSUME Typed, NEW d \in DuelIds, Sound(d),
         duel'[d] = duel[d], paid'[d] = paid[d], winner'[d] = winner[d],
         confirmed'[d] = confirmed[d],
         \A s \in Requests : req'[s].id = d =>
           /\ req[s].id = d
           /\ req'[s].row = req[s].row
           /\ \/ req'[s].next = req[s].next
              \/ /\ req[s].next \in {"finalize", "attacker", "defender"}
                 /\ req'[s].next \in {"finalize", "attacker", "defender"}
  PROVE  Sound(d)'
  BY DEF Sound

(* A step that ends the only request that has duel d loaded.               *)
LEMMA LastRequest ==
  ASSUME Typed, NEW d \in DuelIds, Sound(d), NEW r \in Requests, req[r].id = d, Done(r)
  PROVE  \A s \in Requests : req'[s].id # d
<1>1. Idle.id # d
  BY DuelsAssumption DEF Idle
<1>2. req' = [req EXCEPT ![r] = Idle] /\ req \in [Requests -> Request]
  BY DEF Done, Typed, DuelTypeOK
<1> QED
  BY <1>1, <1>2 DEF Sound

(* The duel a request leaves behind when it was the last to have it.       *)
LEMMA SoundWrite ==
  ASSUME Typed, NEW d \in DuelIds, Sound(d), NEW r \in Requests, req[r].id = d, Done(r),
         paid'[d] = IF duel'[d].status = "finished" THEN 1 ELSE 0,
         duel'[d].status = "finished" => /\ duel'[d] = Tallied(duel'[d])
                                         /\ winner'[d] = Winner(duel'[d]),
         duel'[d].blocked = confirmed'[d], duel'[d].status # "none"
  PROVE  Sound(d)'
  BY LastRequest DEF Sound

(* Every step keeps an unraced duel sound, and its row when it is closed.  *)
LEMMA SoundStep ==
  ASSUME Typed, UnracedSound, [Next]_duelVars, NEW d \in DuelIds, d \notin raced'
  PROVE  Sound(d)' /\ (Closed(duel[d]) => duel'[d] = duel[d])
<1> USE DEF Typed, DuelTypeOK
<1> DEFINE Goal == Sound(d)' /\ (Closed(duel[d]) => duel'[d] = duel[d])
<1>1. CASE UNCHANGED duelVars
  <2>1. Sound(d)
    BY <1>1 DEF UnracedSound, duelVars
  <2> QED
    BY <1>1, <2>1, SoundFrame DEF duelVars
<1>2. ASSUME NEW r \in Requests, NEW p \in Players, NEW q \in Players, Challenge(r, p, q)
      PROVE  Goal
  <2>1. UNCHANGED <<duel, xp, fired, confirmed, paid, winner, earned, raced>>
    BY <1>2 DEF Challenge
  <2>2. /\ req'[r] = [Idle EXCEPT !.next = "insert", !.row = Pending(p, q)]
        /\ \A s \in Requests \ {r} : req'[s] = req[s]
    BY <1>2 DEF Challenge
  <2>3. req'[r].id = NoDuel
    BY <2>2 DEF Idle
  <2> QED
    BY <2>1, <2>2, <2>3, SoundFrame, DuelsAssumption DEF UnracedSound
<1>3. ASSUME NEW r \in Requests, NEW e \in DuelIds,
             NEW n \in {"accept", "decline", "fire", "label", "mislabel", "finalize"},
             NEW w, Load(r, e, n, w),
             n \in {"accept", "decline"} => duel[e].status = "pending",
             n \in {"fire", "label", "mislabel"} => duel[e].status = "active",
             n = "finalize" => Open(duel[e])
      PROVE  Goal
  <2>1. UNCHANGED <<duel, xp, fired, confirmed, paid, winner, earned>>
    BY <1>3 DEF Load
  <2>2. /\ req'[r] = [Idle EXCEPT !.next = n, !.id = e, !.row = duel[e], !.wave = w]
        /\ \A s \in Requests \ {r} : req'[s] = req[s]
    BY <1>3 DEF Load
  <2>3. req'[r].id = e /\ req'[r].next = n /\ req'[r].row = duel[e]
    BY <2>2 DEF Idle
  <2>4. d \notin raced /\ (e = d => \A s \in Requests : req[s].id # d)
    BY <1>3 DEF Load
  <2>5. Sound(d)
    BY <2>4 DEF UnracedSound
  <2>6. CASE e # d
    BY <2>1, <2>2, <2>3, <2>5, <2>6, SoundFrame
  <2>7. CASE e = d
    <3>1. SameRow(duel[d], duel[d])
      BY DEF SameRow, Row
    <3>2. \A s \in Requests : req'[s].id = d => s = r
      BY <2>2, <2>4, <2>7
    <3>3. SameRow(req'[r].row, duel'[d])
      BY <2>1, <2>3, <2>7, <3>1
    <3> QED
      BY <1>3, <2>1, <2>3, <2>5, <2>7, <3>2, <3>3 DEF Sound
  <2> QED
    BY <2>6, <2>7
<1>4. ASSUME NEW r \in Requests, Arrive(r)
      PROVE  Goal
  <2>1. CASE \E p, q \in Players : Challenge(r, p, q)
    BY <1>2, <2>1
  <2>2. PICK e \in DuelIds :
          \/ \E p, q \in Players : Challenge(r, p, q)
          \/ LoadToAccept(r, e) \/ LoadToDecline(r, e) \/ LoadToFire(r, e)
          \/ LoadToLabel(r, e) \/ LoadToFinish(r, e) \/ LoadToExpire(r, e)
    BY <1>4 DEF Arrive
  <2>3. CASE LoadToAccept(r, e)
    BY <1>3, <2>3 DEF LoadToAccept, Acceptable
  <2>4. CASE LoadToDecline(r, e)
    BY <1>3, <2>4 DEF LoadToDecline
  <2>5. CASE LoadToFire(r, e)
    BY <1>3, <2>5 DEF LoadToFire
  <2>6. CASE LoadToLabel(r, e)
    BY <1>3, <2>6 DEF LoadToLabel
  <2>7. CASE LoadToFinish(r, e)
    BY <1>3, <2>7 DEF LoadToFinish
  <2>8. CASE LoadToExpire(r, e)
    BY <1>3, <2>8 DEF LoadToExpire, Overdue, Open
  <2> QED
    BY <2>1, <2>2, <2>3, <2>4, <2>5, <2>6, <2>7, <2>8
<1>5. ASSUME NEW r \in Requests, Insert(r)
      PROVE  Goal
  <2>1. PICK e \in DuelIds :
          /\ duel[e].status = "none"
          /\ duel' = [duel EXCEPT ![e] = req[r].row]
    BY <1>5 DEF Insert
  <2>2. raced \subseteq raced' /\ UNCHANGED <<confirmed, paid, winner>>
    BY <1>5 DEF Insert
  <2>3. Sound(d)
    BY <2>2 DEF UnracedSound
  <2>4. Done(r) /\ req[r].row.status = "pending" /\ req[r].row.blocked = {}
    BY <1>5 DEF Insert, CopiesOK, CopyOK
  <2>5. Idle.id = NoDuel /\ \A s \in Requests : req'[s] \in {req[s], Idle}
    BY <2>4 DEF Done, Idle
  <2>6. CASE e # d
    BY <2>1, <2>2, <2>3, <2>5, <2>6, SoundFrame, DuelsAssumption
  <2>7. CASE e = d
    <3>1. \A s \in Requests : req[s].id # d
      <4> SUFFICES ASSUME NEW s \in Requests, req[s].id = d PROVE FALSE
        OBVIOUS
      <4>1. req[s].next \notin {"idle", "insert"}
        BY DuelsAssumption DEF CopiesOK, CopyOK
      <4>2. req[s].next \in {"accept", "decline", "fire", "label", "mislabel",
                             "finalize", "attacker", "defender"}
        BY <4>1 DEF Request
      <4> QED
        BY <2>1, <2>3, <2>7, <4>2 DEF Sound, Open
    <3>2. \A s \in Requests : req'[s].id # d
      BY <2>5, <3>1, DuelsAssumption
    <3> QED
      BY <2>1, <2>2, <2>3, <2>4, <2>7, <3>2 DEF Sound, Closed
  <2> QED
    BY <2>6, <2>7
<1>6. ASSUME NEW r \in Requests, req[r].id # d, Done(r), raced' = raced,
             duel'[d] = duel[d], paid'[d] = paid[d], winner'[d] = winner[d],
             confirmed'[d] = confirmed[d]
      PROVE  Goal
  <2>1. Idle.id = NoDuel /\ \A s \in Requests : req'[s] \in {req[s], Idle}
    BY <1>6 DEF Done, Idle
  <2> QED
    BY <1>6, <2>1, SoundFrame, DuelsAssumption DEF UnracedSound
<1>7. ASSUME NEW r \in Requests, req[r].id = d, raced' = raced
      PROVE  /\ Sound(d) /\ req[r] \in Request /\ req[r].row \in Row
             /\ duel[d] \in Row /\ duel[d].status # "none"
             /\ req[r].row.status = duel[d].status
             /\ req[r].row.att = duel[d].att /\ req[r].row.def = duel[d].def
             /\ req[r].row.waves = duel[d].waves
             /\ req[r].row.blocked = duel[d].blocked
             /\ req[r].row.ascore = duel[d].ascore
             /\ req[r].row.dscore = duel[d].dscore
  <2>1. Sound(d) /\ req[r] \in Request /\ req[r].row \in Row /\ duel[d] \in Row
    BY <1>7 DEF UnracedSound, Request
  <2>2. [req[r].row EXCEPT !.due = duel[d].due] = duel[d]
    BY <1>7, <2>1 DEF Sound, SameRow
  <2>3. duel[d].status # "none"
    BY <1>7, DuelsAssumption DEF PlayersOK
  <2> HIDE DEF Typed, DuelTypeOK
  <2> QED
    BY <2>1, <2>2, <2>3 DEF Row
<1>8. ASSUME NEW r \in Requests, Answer(r)
      PROVE  Goal
  <2>1. /\ Done(r) /\ UNCHANGED <<xp, fired, confirmed, paid, winner, earned, raced>>
        /\ req[r].next \in {"accept", "decline"}
    BY <1>8 DEF Answer
  <2>2. CASE req[r].id # d
    BY <1>6, <1>8, <2>1, <2>2 DEF Answer
  <2>3. CASE req[r].id = d
    <3>1. Sound(d) /\ duel[d].status = "pending" /\ duel[d] \in Row
      BY <1>7, <2>1, <2>3 DEF Sound
    <3>2. duel'[d] \in {[duel[d] EXCEPT !.status = "active", !.due = FALSE],
                        [duel[d] EXCEPT !.status = "declined"]}
      BY <1>8, <2>3 DEF Answer
    <3>3. duel'[d].status \in {"active", "declined"} /\ duel'[d].blocked = duel[d].blocked
      BY <3>1, <3>2 DEF Row
    <3>4. paid[d] = 0 /\ duel[d].blocked = confirmed[d]
      BY <3>1 DEF Sound
    <3> QED
      BY <2>1, <2>3, <3>1, <3>3, <3>4, SoundWrite DEF Closed
  <2> QED
    BY <2>2, <2>3
<1>9. ASSUME NEW r \in Requests, Fire(r)
      PROVE  Goal
  <2>1. /\ Done(r) /\ UNCHANGED <<xp, confirmed, paid, winner, earned, raced>>
        /\ req[r].next = "fire"
    BY <1>9 DEF Fire
  <2>2. CASE req[r].id # d
    BY <1>6, <1>9, <2>1, <2>2 DEF Fire
  <2>3. CASE req[r].id = d
    <3>1. Sound(d) /\ duel[d].status = "active" /\ duel[d] \in Row
          /\ req[r].row.blocked = duel[d].blocked
      BY <1>7, <2>1, <2>3 DEF Sound
    <3>2. duel'[d] = [duel[d] EXCEPT !.waves = req[r].row.waves \cup {fired[d] + 1},
                                     !.blocked = req[r].row.blocked]
      BY <1>9, <2>3 DEF Fire
    <3>3. duel'[d].status = "active" /\ duel'[d].blocked = duel[d].blocked
      BY <3>1, <3>2 DEF Row
    <3>4. paid[d] = 0 /\ duel[d].blocked = confirmed[d]
      BY <3>1 DEF Sound
    <3> QED
      BY <2>1, <2>3, <3>1, <3>3, <3>4, SoundWrite DEF Closed
  <2> QED
    BY <2>2, <2>3
<1>10. ASSUME NEW r \in Requests, Label(r)
       PROVE  Goal
  <2>1. /\ Done(r) /\ UNCHANGED <<xp, fired, paid, winner, earned, raced>>
        /\ req[r].next \in {"label", "mislabel"}
    BY <1>10 DEF Label
  <2>2. CASE req[r].id # d
    BY <1>6, <1>10, <2>1, <2>2 DEF Label
  <2>3. CASE req[r].id = d
    <3> DEFINE old == req[r].row
               hit == Hit(req[r].next, req[r].wave)
               open == [old EXCEPT !.blocked = @ \cup hit]
               new == Tallied(open)
               mid == [duel[d] EXCEPT !.waves = new.waves, !.blocked = new.blocked]
    <3>1. Sound(d) /\ duel[d].status = "active" /\ duel[d] \in Row /\ old \in Row
          /\ old.blocked = duel[d].blocked
      BY <1>7, <2>1, <2>3 DEF Sound
    <3>2. hit \in SUBSET Wave
      BY <2>1 DEF Hit, CopiesOK, CopyOK
    <3>3. open \in Row /\ open.blocked = duel[d].blocked \cup hit
      BY <3>1, <3>2 DEF Row
    <3> HIDE DEF open
    <3>4. new \in Row /\ new.blocked = duel[d].blocked \cup hit
      BY <3>3, TalliedRow
    <3> HIDE DEF new
    <3>5. mid \in Row /\ mid.status = "active" /\ mid.blocked = duel[d].blocked \cup hit
      BY <3>1, <3>4 DEF Row
    <3> HIDE DEF mid
    <3>6. duel'[d] = WithScores(mid, old, new)
      BY <1>10, <2>3 DEF Label, mid, new, open
    <3>7. duel'[d].status = "active" /\ duel'[d].blocked = duel[d].blocked \cup hit
      BY <3>1, <3>4, <3>5, <3>6, ScoredRow
    <3>8. confirmed'[d] = confirmed[d] \cup hit
      BY <1>10, <2>3 DEF Label, Hit
    <3>9. paid[d] = 0 /\ duel[d].blocked = confirmed[d]
      BY <3>1 DEF Sound
    <3> QED
      BY <2>1, <2>3, <3>1, <3>7, <3>8, <3>9, SoundWrite DEF Closed
  <2> QED
    BY <2>2, <2>3
<1>11. ASSUME NEW r \in Requests, Finalize(r) \/ AwardAttacker(r)
       PROVE  Goal
  <2>1. /\ UNCHANGED <<duel, confirmed, paid, winner, raced>>
        /\ req[r].next \in {"finalize", "attacker"}
    BY <1>11 DEF Finalize, AwardAttacker, StatusUncommitted
  <2>2. /\ req'[r].id = req[r].id /\ req'[r].row = req[r].row
        /\ req'[r].next \in {"attacker", "defender"}
    BY <1>11 DEF Finalize, AwardAttacker, Request
  <2>3. \A s \in Requests \ {r} : req'[s] = req[s]
    BY <1>11 DEF Finalize, AwardAttacker
  <2> QED
    BY <2>1, <2>2, <2>3, SoundFrame DEF UnracedSound
<1>12. ASSUME NEW r \in Requests, AwardDefender(r)
       PROVE  Goal
  <2>1. Done(r) /\ UNCHANGED <<fired, confirmed, raced>> /\ req[r].next = "defender"
    BY <1>12 DEF AwardDefender
  <2>2. CASE req[r].id # d
    BY <1>6, <1>12, <2>1, <2>2 DEF AwardDefender
  <2>3. CASE req[r].id = d
    <3> DEFINE old == req[r].row
               new == Tallied(old)
               mid == [duel[d] EXCEPT !.status = "finished"]
               row == WithScores(mid, old, new)
    <3>1. /\ Sound(d) /\ Open(duel[d]) /\ duel[d] \in Row /\ old \in Row
          /\ old.att = duel[d].att /\ old.def = duel[d].def
          /\ old.waves = duel[d].waves /\ old.blocked = duel[d].blocked
          /\ old.ascore = duel[d].ascore /\ old.dscore = duel[d].dscore
      BY <1>7, <2>1, <2>3 DEF Sound
    <3>2. /\ new \in Row /\ new.att = old.att /\ new.def = old.def
          /\ new.ascore = WavePoints * Cardinality(old.waves \ old.blocked)
          /\ new.dscore = WavePoints * Cardinality(old.blocked)
      BY <3>1, TalliedRow
    <3>3. duel'[d] = row /\ winner'[d] = Winner(new) /\ paid'[d] = paid[d] + 1
      BY <1>12, <2>3 DEF AwardDefender, FinalTally
    <3> HIDE DEF new
    <3>4. /\ mid \in Row /\ mid.status = "finished" /\ mid.att = old.att
          /\ mid.def = old.def /\ mid.waves = old.waves /\ mid.blocked = old.blocked
          /\ mid.ascore = old.ascore /\ mid.dscore = old.dscore
      BY <3>1 DEF Row, Status
    <3> HIDE DEF mid
    <3>5. /\ row \in Row /\ row.status = "finished" /\ row.att = old.att
          /\ row.def = old.def /\ row.waves = old.waves /\ row.blocked = old.blocked
          /\ row.ascore = new.ascore /\ row.dscore = new.dscore
      BY <3>1, <3>2, <3>4, ScoredRow DEF Written
    <3> HIDE DEF row
    <3>6. row = Tallied(row)
      BY <3>2, <3>5 DEF Tallied, Row
    <3>7. Winner(row) = Winner(new)
      BY <3>2, <3>5 DEF Winner
    <3>8. paid[d] = 0 /\ duel[d].blocked = confirmed[d]
      BY <3>1 DEF Sound, Open
    <3> QED
      BY <2>1, <2>3, <3>1, <3>3, <3>5, <3>6, <3>7, <3>8, SoundWrite DEF Closed, Open
  <2> QED
    BY <2>2, <2>3
<1>13. ASSUME NEW r \in Requests, Rollback(r)
       PROVE  Goal
  <2>1. /\ Done(r)
        /\ UNCHANGED <<duel, xp, fired, confirmed, paid, winner, earned, raced>>
    BY <1>13 DEF Rollback
  <2>2. Idle.id = NoDuel /\ \A s \in Requests : req'[s] \in {req[s], Idle}
    BY <2>1 DEF Done, Idle
  <2> QED
    BY <2>1, <2>2, SoundFrame, DuelsAssumption DEF UnracedSound
<1>14. ASSUME NEW e \in DuelIds, TimeUp(e)
       PROVE  Goal
  <2>1. /\ duel' = [duel EXCEPT ![e].due = TRUE] /\ duel[e].status = "active"
        /\ UNCHANGED <<xp, req, fired, confirmed, paid, winner, earned, raced>>
    BY <1>14 DEF TimeUp
  <2>2. Sound(d)
    BY <2>1 DEF UnracedSound
  <2>3. CASE e # d
    BY <2>1, <2>2, <2>3, SoundFrame
  <2>4. CASE e = d
    <3>1. /\ duel'[d] = [duel[d] EXCEPT !.due = TRUE] /\ duel[d] \in Row
      BY <2>1, <2>4
    <3>2. /\ duel'[d].status = "active" /\ duel'[d].blocked = duel[d].blocked
          /\ duel'[d].due = TRUE
      BY <2>1, <2>4, <3>1 DEF Row
    <3>3. ASSUME NEW s \in Requests, req[s].id = d
          PROVE  SameRow(req[s].row, duel'[d])
      <4>1. req[s].row \in Row /\ [req[s].row EXCEPT !.due = duel[d].due] = duel[d]
        BY <2>2, <3>3 DEF Sound, SameRow, Request
      <4>2. [req[s].row EXCEPT !.due = TRUE] = [duel[d] EXCEPT !.due = TRUE]
        BY <4>1
      <4> QED
        BY <3>1, <3>2, <4>2 DEF SameRow
    <3> QED
      BY <2>1, <2>2, <2>4, <3>2, <3>3 DEF Sound, Open, Closed
  <2> QED
    BY <2>3, <2>4
<1> QED
  BY <1>1, <1>4, <1>5, <1>8, <1>9, <1>10, <1>11, <1>12, <1>13, <1>14
     DEF Next, Step, BreakDeadlock

LEMMA RacedGrows ==
  ASSUME [Next]_duelVars
  PROVE  raced \subseteq raced'
<1>1. ASSUME NEW r \in Requests, Arrive(r)
      PROVE  raced \subseteq raced'
  BY <1>1 DEF Arrive, Challenge, LoadToAccept, LoadToDecline, LoadToFire,
              LoadToLabel, LoadToFinish, LoadToExpire, Load
<1>2. ASSUME NEW r \in Requests, Step(r) \/ Rollback(r)
      PROVE  raced \subseteq raced'
  BY <1>2 DEF Step, Insert, Answer, Fire, Label, Finalize, AwardAttacker,
              AwardDefender, Rollback
<1>3. ASSUME NEW d \in DuelIds, TimeUp(d)
      PROVE  raced \subseteq raced'
  BY <1>3 DEF TimeUp
<1> QED
  BY <1>1, <1>2, <1>3 DEF Next, BreakDeadlock, duelVars

LEMMA AlwaysSound == Spec => []UnracedSound
<1>1. Init => UnracedSound
  <2> SUFFICES ASSUME Init, NEW d \in DuelIds PROVE Sound(d)
    BY DEF UnracedSound
  <2>1. /\ Blank.status = "none" /\ Blank.blocked = {} /\ Idle.id = NoDuel
    BY DEF Blank, Idle
  <2> QED
    BY <2>1, DuelsAssumption DEF Init, Sound
<1>2. Typed /\ UnracedSound /\ [Next]_duelVars => UnracedSound'
  BY SoundStep, RacedGrows DEF UnracedSound
<1> QED
  BY <1>1, <1>2, AlwaysTyped, PTL DEF Spec

(* A duel whose requests never overlapped pays when it finishes, once, and *)
(* pays the duel_win to whom the waves in the table say.                   *)
THEOREM PaymentCorrect == Spec => []PaidOnceForItsWaves
<1>1. UnracedSound => PaidOnceForItsWaves
  BY DEF UnracedSound, Sound, PaidOnceForItsWaves
<1> QED BY <1>1, AlwaysSound, PTL

(* In such a duel a wave is blocked exactly when label() said so.          *)
THEOREM BlockedCorrect == Spec => []BlockedIfConfirmed
<1>1. UnracedSound => BlockedIfConfirmed
  BY DEF UnracedSound, Sound, BlockedIfConfirmed
<1> QED BY <1>1, AlwaysSound, PTL

(* No step changes the row of a closed duel whose requests never overlap.  *)
ClosedStaysClosed ==
  [][\A d \in DuelIds \ raced' : Closed(duel[d]) => duel'[d] = duel[d]]_duelVars

(* Such a duel, once declined or finished, keeps its row for good: its     *)
(* status, its waves and its scores; accept(), fire(), label() and         *)
(* finish() that come later find it closed.                                *)
THEOREM ClosedForGood == Spec => ClosedStaysClosed
<1>1. Typed /\ UnracedSound /\ [Next]_duelVars =>
        [\A d \in DuelIds \ raced' : Closed(duel[d]) => duel'[d] = duel[d]]_duelVars
  BY SoundStep
<1> QED
  BY <1>1, AlwaysTyped, AlwaysSound, PTL DEF Spec, ClosedStaysClosed

--------------------------------------------------------------------------
(* Payment *)

(* Only the last step of a finalization makes a duel finished.             *)
LEMMA StepPaid ==
  ASSUME Typed, FinishedWasPaid, [Next]_duelVars
  PROVE  FinishedWasPaid'
<1> USE DEF Typed, DuelTypeOK
<1> SUFFICES ASSUME NEW d \in DuelIds, duel'[d].status = "finished"
             PROVE  paid'[d] > 0
  BY DEF FinishedWasPaid
<1>1. CASE duel'[d].status = duel[d].status /\ paid'[d] = paid[d]
  BY <1>1 DEF FinishedWasPaid
<1>2. CASE UNCHANGED duelVars
  BY <1>1, <1>2 DEF duelVars
<1>3. ASSUME NEW r \in Requests, Arrive(r) \/ Finalize(r) \/ AwardAttacker(r) \/ Rollback(r)
      PROVE  UNCHANGED <<duel, paid>>
  BY <1>3 DEF Arrive, Challenge, LoadToAccept, LoadToDecline, LoadToFire, LoadToLabel,
              LoadToFinish, LoadToExpire, Load, Finalize, AwardAttacker, Rollback,
              StatusUncommitted
<1>4. ASSUME NEW r \in Requests, Insert(r)
      PROVE  paid'[d] > 0
  <2>1. UNCHANGED paid /\ req[r].row.status = "pending"
    BY <1>4 DEF Insert, CopiesOK, CopyOK
  <2>2. PICK e \in DuelIds : duel' = [duel EXCEPT ![e] = req[r].row]
    BY <1>4 DEF Insert
  <2> QED
    BY <1>1, <2>1, <2>2
<1>5. ASSUME NEW r \in Requests, Answer(r)
      PROVE  paid'[d] > 0
  <2>1. UNCHANGED paid /\ duel[d] \in Row
    BY <1>5 DEF Answer
  <2>2. \/ duel'[d] = duel[d]
        \/ duel'[d] = [duel[d] EXCEPT !.status = "active", !.due = FALSE]
        \/ duel'[d] = [duel[d] EXCEPT !.status = "declined"]
    BY <1>5 DEF Answer
  <2>3. duel'[d] = duel[d]
    BY <2>1, <2>2 DEF Row
  <2> QED
    BY <1>1, <2>1, <2>3
<1>6. ASSUME NEW r \in Requests, Fire(r)
      PROVE  paid'[d] > 0
  <2>1. UNCHANGED paid /\ duel'[d].status = duel[d].status
    BY <1>6 DEF Fire, Row
  <2> QED
    BY <1>1, <2>1
<1>7. ASSUME NEW r \in Requests, Label(r)
      PROVE  paid'[d] > 0
  <2> DEFINE old == req[r].row
             hit == Hit(req[r].next, req[r].wave)
             new == Tallied([old EXCEPT !.blocked = @ \cup hit])
             mid == [duel[d] EXCEPT !.waves = new.waves, !.blocked = new.blocked]
  <2>1. CASE req[r].id # d
    BY <1>1, <1>7, <2>1 DEF Label
  <2>2. CASE req[r].id = d
    <3>0. old \in Row /\ duel[d] \in Row /\ hit \in SUBSET Wave
      BY <1>7 DEF Label, CopiesOK, CopyOK, Request, Hit
    <3>1. old \in Row /\ [old EXCEPT !.blocked = @ \cup hit] \in Row /\ duel[d] \in Row
      BY <3>0 DEF Row
    <3>2. new \in Row
      BY <3>1, TalliedRow
    <3> HIDE DEF new
    <3>3. mid \in Row /\ mid.status = duel[d].status
      BY <3>1, <3>2 DEF Row
    <3> HIDE DEF mid
    <3>4. duel'[d] = WithScores(mid, old, new) /\ UNCHANGED paid
      BY <1>7, <2>2 DEF Label, mid, new
    <3> QED
      BY <1>1, <3>1, <3>2, <3>3, <3>4, ScoredRow
  <2> QED
    BY <2>1, <2>2
<1>8. ASSUME NEW r \in Requests, AwardDefender(r)
      PROVE  paid'[d] > 0
  BY <1>1, <1>8 DEF AwardDefender
<1>9. ASSUME NEW e \in DuelIds, TimeUp(e)
      PROVE  paid'[d] > 0
  <2>1. UNCHANGED paid /\ duel'[d].status = duel[d].status
    BY <1>9 DEF TimeUp, Row
  <2> QED
    BY <1>1, <2>1
<1> QED
  BY <1>1, <1>2, <1>3, <1>4, <1>5, <1>6, <1>7, <1>8, <1>9 DEF Next, Step, BreakDeadlock

(* The awards are one transaction with the status: no duel is finished     *)
(* that has not paid, whatever dies on the way.                            *)
THEOREM FinishedPaid == Spec => []FinishedWasPaid
<1>1. Init => FinishedWasPaid
  BY DEF Init, FinishedWasPaid, Blank
<1> QED
  BY <1>1, StepPaid, AlwaysTyped, PTL DEF Spec

--------------------------------------------------------------------------
(* Pairs *)

(* While a challenge is past its check, the open duels of its pair are     *)
(* ones that raced: it or they came in between.                            *)
InsertsRaced ==
  \A r \in Requests : req[r].next = "insert" =>
    \A d \in DuelIds :
      Open(duel[d]) /\ Between(duel[d], req[r].row.att, req[r].row.def) => d \in raced

PairInv == OneOpenPerPair /\ InsertsRaced

(* Only an Insert opens a duel that does not race.                         *)
LEMMA OpenBefore ==
  ASSUME Typed, UnracedSound, [Next]_duelVars, NEW d \in DuelIds, d \notin raced',
         \A r \in Requests : ~Insert(r), Open(duel'[d])
  PROVE  Open(duel[d]) /\ duel'[d].att = duel[d].att /\ duel'[d].def = duel[d].def
<1> USE DEF Typed, DuelTypeOK
<1> DEFINE Goal == Open(duel[d]) /\ duel'[d].att = duel[d].att
                   /\ duel'[d].def = duel[d].def
<1>1. duel[d] \in Row /\ d \notin raced
  BY RacedGrows
<1>2. CASE duel'[d] = duel[d]
  BY <1>2
<1>3. ASSUME NEW r \in Requests, Answer(r)
      PROVE  Goal
  <2>1. \/ duel' = duel \/ req[r].id # d
        \/ req[r].id = d /\ req[r].next \in {"accept", "decline"}
    BY <1>3 DEF Answer
  <2>2. CASE req[r].id # d
    BY <1>2, <1>3, <2>2 DEF Answer
  <2>3. CASE req[r].id = d
    <3>1. Open(duel[d])
      BY <1>1, <2>3, <1>3 DEF Answer, UnracedSound, Sound, Open
    <3>2. duel'[d].att = duel[d].att /\ duel'[d].def = duel[d].def
      BY <1>1, <1>3, <2>3 DEF Answer, Row
    <3> QED BY <3>1, <3>2
  <2> QED BY <2>2, <2>3
<1>4. ASSUME NEW r \in Requests, Fire(r)
      PROVE  Goal
  <2>1. /\ duel'[d].status = duel[d].status /\ duel'[d].att = duel[d].att
        /\ duel'[d].def = duel[d].def
    BY <1>1, <1>4 DEF Fire, Row
  <2> QED BY <2>1 DEF Open
<1>5. ASSUME NEW r \in Requests, Label(r)
      PROVE  Goal
  <2> DEFINE old == req[r].row
             hit == Hit(req[r].next, req[r].wave)
             new == Tallied([old EXCEPT !.blocked = @ \cup hit])
             mid == [duel[d] EXCEPT !.waves = new.waves, !.blocked = new.blocked]
  <2>1. CASE req[r].id # d
    BY <1>2, <1>5, <2>1 DEF Label
  <2>2. CASE req[r].id = d
    <3>1. /\ old \in Row /\ duel[d] \in Row /\ hit \in SUBSET Wave
          /\ [old EXCEPT !.blocked = @ \cup hit] \in Row
      <4>1. old \in Row /\ hit \in SUBSET Wave
        BY <1>5 DEF Label, CopiesOK, CopyOK, Request, Hit
      <4> QED BY <4>1 DEF Row
    <3>2. new \in Row
      BY <3>1, TalliedRow
    <3> HIDE DEF new
    <3>3. /\ mid \in Row /\ mid.status = duel[d].status
          /\ mid.att = duel[d].att /\ mid.def = duel[d].def
      BY <3>1, <3>2 DEF Row
    <3> HIDE DEF mid
    <3>4. duel'[d] = WithScores(mid, old, new)
      BY <1>5, <2>2 DEF Label, mid, new
    <3> QED BY <3>1, <3>2, <3>3, <3>4, ScoredRow DEF Open
  <2> QED BY <2>1, <2>2
<1>6. ASSUME NEW r \in Requests, AwardDefender(r)
      PROVE  Goal
  <2> DEFINE old == req[r].row
             mid == [duel[d] EXCEPT !.status = "finished"]
  <2>1. CASE req[r].id # d
    BY <1>2, <1>6, <2>1 DEF AwardDefender
  <2>2. CASE req[r].id = d
    <3>1. old \in Row /\ mid \in Row /\ mid.status = "finished"
      BY <1>1 DEF Request, Row, Status
    <3>2. FinalTally(old) \in Row
      BY <3>1, TalliedRow DEF FinalTally
    <3> HIDE DEF mid
    <3>3. duel'[d] = WithScores(mid, old, FinalTally(old))
      BY <1>6, <2>2 DEF AwardDefender, mid
    <3> QED BY <3>1, <3>2, <3>3, ScoredRow DEF Open
  <2> QED BY <2>1, <2>2
<1>7. ASSUME NEW e \in DuelIds, TimeUp(e)
      PROVE  Goal
  <2>1. /\ duel'[d].status = duel[d].status /\ duel'[d].att = duel[d].att
        /\ duel'[d].def = duel[d].def
    <3>1. duel' = [duel EXCEPT ![e].due = TRUE]
      BY <1>7 DEF TimeUp
    <3>2. CASE d = e
      BY <1>1, <3>1, <3>2 DEF Row
    <3>3. CASE d # e
      BY <3>1, <3>3
    <3> QED BY <3>2, <3>3
  <2> QED BY <2>1 DEF Open
<1>8. CASE UNCHANGED duel
  BY <1>2, <1>8
<1> QED
  BY ZenonT(40), <1>3, <1>4, <1>5, <1>6, <1>7, <1>8
     DEF Next, Arrive, Step, Challenge, LoadToAccept, LoadToDecline, LoadToFire,
         LoadToLabel, LoadToFinish, LoadToExpire, Load, Finalize, AwardAttacker,
         StatusUncommitted, Rollback, BreakDeadlock, duelVars

(* What a step makes of the challenges that are past their check.          *)
LEMMA InsertsBefore ==
  ASSUME Typed, [Next]_duelVars, NEW r \in Requests, req'[r].next = "insert"
  PROVE  \/ req'[r] = req[r]
         \/ \E p, q \in Players : Challenge(r, p, q)
<1> USE DEF Typed, DuelTypeOK
<1>1. Idle.next = "idle"
  BY DEF Idle
<1>2. ASSUME NEW s \in Requests, NEW d \in DuelIds, NEW w,
             NEW n \in {"accept", "decline", "fire", "label", "mislabel", "finalize"},
             Load(s, d, n, w)
      PROVE  req'[r] = req[r]
  <2>1. req' = [req EXCEPT ![s] = [Idle EXCEPT !.next = n, !.id = d,
                                               !.row = duel[d], !.wave = w]]
    BY <1>2 DEF Load
  <2>2. [Idle EXCEPT !.next = n, !.id = d, !.row = duel[d], !.wave = w].next # "insert"
    BY DEF Idle
  <2> QED BY <2>1, <2>2
<1>3. ASSUME NEW s \in Requests, Arrive(s)
      PROVE  req'[r] = req[r] \/ \E p, q \in Players : Challenge(r, p, q)
  <2>1. CASE \E p, q \in Players : Challenge(s, p, q)
    BY <2>1 DEF Challenge
  <2>2. CASE \E d \in DuelIds :
                 \E n \in {"accept", "decline", "fire", "label", "mislabel", "finalize"} :
                   \E w : Load(s, d, n, w)
    BY <1>2, <2>2
  <2> QED
    BY <1>3, <2>1, <2>2 DEF Arrive, LoadToAccept, LoadToDecline, LoadToFire,
                            LoadToLabel, LoadToFinish, LoadToExpire
<1>4. ASSUME NEW s \in Requests, Done(s)
      PROVE  req'[r] = req[r]
  BY <1>1, <1>4 DEF Done
<1>5. ASSUME NEW s \in Requests, Finalize(s) \/ AwardAttacker(s)
      PROVE  req'[r] = req[r]
  <2>1. req'[s].next \in {"attacker", "defender"} /\ \A q \in Requests \ {s} : req'[q] = req[q]
    BY <1>5 DEF Finalize, AwardAttacker, Request
  <2> QED BY <2>1
<1> QED
  BY <1>3, <1>4, <1>5 DEF Next, Step, Insert, Answer, Fire, Label, AwardDefender,
     Rollback, BreakDeadlock, TimeUp, duelVars

LEMMA PairStep ==
  ASSUME Typed, UnracedSound, PairInv, [Next]_duelVars
  PROVE  PairInv'
<1> USE DEF Typed, DuelTypeOK
<1> DEFINE Pair(row) == {row.att, row.def}
<1>1. raced \subseteq raced'
  BY RacedGrows
<1>2. CASE \A r \in Requests : ~Insert(r)
  <2>1. OneOpenPerPair'
    BY <1>1, <1>2, OpenBefore DEF PairInv, OneOpenPerPair
  <2>2. ASSUME NEW r \in Requests, req'[r].next = "insert", NEW d \in DuelIds,
               Open(duel'[d]), Between(duel'[d], req'[r].row.att, req'[r].row.def),
               d \notin raced'
        PROVE  FALSE
    <3>1. /\ Open(duel[d]) /\ duel'[d].att = duel[d].att /\ duel'[d].def = duel[d].def
          /\ d \notin raced
      BY <1>1, <1>2, <2>2, OpenBefore
    <3>2. CASE req'[r] = req[r]
      BY <2>2, <3>1, <3>2 DEF PairInv, InsertsRaced, Between
    <3>3. ASSUME NEW p \in Players, NEW q \in Players, Challenge(r, p, q)
          PROVE  FALSE
      <4>1. req'[r].row = Pending(p, q) /\ ~Between(duel[d], p, q)
        BY <3>1, <3>3 DEF Challenge, Idle
      <4>2. Pending(p, q).att = p /\ Pending(p, q).def = q
        BY DEF Pending, Blank
      <4> QED BY <2>2, <3>1, <4>1, <4>2 DEF Between
    <3> QED BY <2>2, <3>2, <3>3, InsertsBefore
  <2> QED BY <2>1, <2>2 DEF PairInv, InsertsRaced
<1>3. ASSUME NEW r \in Requests, Insert(r)
      PROVE  PairInv'
  <2> DEFINE row == req[r].row
  <2>1. PICK d \in DuelIds :
          /\ duel[d].status = "none"
          /\ duel' = [duel EXCEPT ![d] = row]
          /\ raced' = IF \E q \in Requests \ {r} :
                          req[q].next = "insert" /\ Between(req[q].row, row.att, row.def)
                      THEN raced \cup {d} ELSE raced
    BY <1>3 DEF Insert
  <2>2. req' = [req EXCEPT ![r] = Idle] /\ Idle.next = "idle" /\ req[r].next = "insert"
    BY <1>3 DEF Insert, Done, Idle
  <2>3. ASSUME NEW c \in DuelIds, c # d, Open(duel[c]), Between(duel[c], row.att, row.def)
        PROVE  c \in raced'
    BY <1>1, <2>2, <2>3 DEF PairInv, InsertsRaced
  <2>4. OneOpenPerPair'
    BY <1>1, <2>1, <2>3 DEF PairInv, OneOpenPerPair, Between
  <2>5. ASSUME NEW q \in Requests, req'[q].next = "insert", NEW c \in DuelIds,
               Open(duel'[c]), Between(duel'[c], req'[q].row.att, req'[q].row.def)
        PROVE  c \in raced'
    <3>1. q # r /\ req'[q] = req[q] /\ req[q].next = "insert"
      BY <2>2, <2>5
    <3>2. CASE c = d
      BY <2>1, <2>5, <3>1, <3>2 DEF Between
    <3>3. CASE c # d
      BY <1>1, <2>1, <2>5, <3>1, <3>3 DEF PairInv, InsertsRaced
    <3> QED BY <3>2, <3>3
  <2> QED BY <2>4, <2>5 DEF PairInv, InsertsRaced
<1> QED BY <1>2, <1>3

(* "No duplicate open duel between the same pair", but for races.          *)
THEOREM OneOpenCorrect == Spec => []OneOpenPerPair
<1>1. Init => PairInv
  BY DEF Init, PairInv, OneOpenPerPair, InsertsRaced, Open, Blank, Idle
<1>2. PairInv => OneOpenPerPair
  BY DEF PairInv
<1> QED
  BY <1>1, <1>2, PairStep, AlwaysTyped, AlwaysSound, PTL DEF Spec

--------------------------------------------------------------------------
(* What the writers write *)

LEMMA CopyTyped ==
  ASSUME Typed, NEW r \in Requests, req[r].id # NoDuel
  PROVE  /\ req[r].id \in DuelIds /\ duel[req[r].id] \in Row /\ req[r].row \in Row
         /\ duel[req[r].id].status # "none"
  BY DEF Typed, DuelTypeOK, PlayersOK, Request

LEMMA AnswerWrites ==
  ASSUME Typed, NEW r \in Requests, Answer(r)
  PROVE  LET d == req[r].id IN
         /\ d \in DuelIds /\ d # NoDuel
         /\ \E row \in Row :
              /\ duel' = [duel EXCEPT ![d] = row]
              /\ row.status = IF req[r].next = "accept" THEN "active" ELSE "declined"
              /\ row.att = duel[d].att /\ row.def = duel[d].def
              /\ row.waves = duel[d].waves /\ row.blocked = duel[d].blocked
<1> DEFINE d == req[r].id
<1>1. req[r].id # NoDuel /\ req[r].next \in {"accept", "decline"}
  BY DEF Answer, Typed, CopiesOK, CopyOK
<1>2. d \in DuelIds /\ duel[d] \in Row
  BY <1>1, CopyTyped
<1>3. CASE req[r].next = "accept"
  <2> DEFINE row == [duel[d] EXCEPT !.status = "active", !.due = FALSE]
  <2>1. duel' = [duel EXCEPT ![d] = row]
    BY <1>3 DEF Answer
  <2>2. /\ row \in Row /\ row.status = "active" /\ row.att = duel[d].att
        /\ row.def = duel[d].def /\ row.waves = duel[d].waves
        /\ row.blocked = duel[d].blocked
    BY <1>2 DEF Row, Status
  <2> QED BY <1>1, <1>2, <1>3, <2>1, <2>2
<1>4. CASE req[r].next = "decline"
  <2> DEFINE row == [duel[d] EXCEPT !.status = "declined"]
  <2>1. duel' = [duel EXCEPT ![d] = row]
    BY <1>4 DEF Answer
  <2>2. /\ row \in Row /\ row.status = "declined" /\ row.att = duel[d].att
        /\ row.def = duel[d].def /\ row.waves = duel[d].waves
        /\ row.blocked = duel[d].blocked
    BY <1>2 DEF Row, Status
  <2> QED BY <1>1, <1>2, <1>4, <2>1, <2>2
<1> QED BY <1>1, <1>3, <1>4

LEMMA FireWrites ==
  ASSUME Typed, NEW r \in Requests, Fire(r)
  PROVE  LET d == req[r].id IN
         /\ d \in DuelIds /\ d # NoDuel
         /\ \E row \in Row :
              /\ duel' = [duel EXCEPT ![d] = row]
              /\ row.status = duel[d].status
              /\ row.att = duel[d].att /\ row.def = duel[d].def
              /\ row.waves = req[r].row.waves \cup {fired[d] + 1}
              /\ row.blocked = req[r].row.blocked
<1> DEFINE d == req[r].id
           w == fired[d] + 1
           row == [duel[d] EXCEPT !.waves = req[r].row.waves \cup {w},
                                  !.blocked = req[r].row.blocked]
<1>1. req[r].id # NoDuel
  BY DEF Fire, Typed, CopiesOK, CopyOK
<1>2. d \in DuelIds /\ duel[d] \in Row /\ req[r].row \in Row
  BY <1>1, CopyTyped
<1>3. w \in Wave
  BY <1>2, DuelsAssumption DEF Fire, Typed, DuelTypeOK, Wave
<1>4. req[r].row.waves \cup {w} \in SUBSET Wave /\ req[r].row.blocked \in SUBSET Wave
  BY <1>2, <1>3 DEF Row
<1>5. duel' = [duel EXCEPT ![d] = row]
  BY DEF Fire
<1>6. /\ row \in Row /\ row.status = duel[d].status /\ row.att = duel[d].att
      /\ row.def = duel[d].def /\ row.waves = req[r].row.waves \cup {w}
      /\ row.blocked = req[r].row.blocked
  BY <1>2, <1>4 DEF Row
<1> QED BY <1>1, <1>2, <1>5, <1>6

LEMMA LabelWrites ==
  ASSUME Typed, NEW r \in Requests, Label(r)
  PROVE  LET d == req[r].id IN
         /\ d \in DuelIds /\ d # NoDuel
         /\ \E row \in Row :
              /\ duel' = [duel EXCEPT ![d] = row]
              /\ row.status = duel[d].status
              /\ row.att = duel[d].att /\ row.def = duel[d].def
              /\ row.waves = req[r].row.waves
              /\ row.blocked = req[r].row.blocked \cup Hit(req[r].next, req[r].wave)
<1> DEFINE d == req[r].id
           old == req[r].row
           hit == Hit(req[r].next, req[r].wave)
           open == [old EXCEPT !.blocked = @ \cup hit]
           new == Tallied(open)
           mid == [duel[d] EXCEPT !.waves = new.waves, !.blocked = new.blocked]
           row == WithScores(mid, old, new)
<1>1. req[r].id # NoDuel /\ hit \in SUBSET Wave
  BY DEF Label, Typed, CopiesOK, CopyOK, Hit
<1>2. d \in DuelIds /\ duel[d] \in Row /\ old \in Row
  BY <1>1, CopyTyped
<1> HIDE DEF hit
<1>3. open \in Row /\ open.waves = old.waves /\ open.blocked = old.blocked \cup hit
  BY <1>1, <1>2 DEF Row
<1> HIDE DEF open
<1>4. new \in Row /\ new.waves = old.waves /\ new.blocked = old.blocked \cup hit
  BY <1>3, TalliedRow
<1> HIDE DEF new
<1>5. /\ mid \in Row /\ mid.status = duel[d].status /\ mid.att = duel[d].att
      /\ mid.def = duel[d].def /\ mid.waves = old.waves
      /\ mid.blocked = old.blocked \cup hit
  BY <1>2, <1>4 DEF Row
<1> HIDE DEF mid
<1>6. /\ row \in Row /\ row.status = duel[d].status /\ row.att = duel[d].att
      /\ row.def = duel[d].def /\ row.waves = old.waves
      /\ row.blocked = old.blocked \cup hit
  BY <1>2, <1>4, <1>5, ScoredRow
<1>7. duel' = [duel EXCEPT ![d] = row]
  BY DEF Label, row, mid, new, open, hit
<1> HIDE DEF row
<1> QED BY <1>1, <1>2, <1>6, <1>7 DEF hit

LEMMA AwardWrites ==
  ASSUME Typed, NEW r \in Requests, AwardDefender(r)
  PROVE  LET d == req[r].id IN
         /\ d \in DuelIds /\ d # NoDuel
         /\ \E row \in Row :
              /\ duel' = [duel EXCEPT ![d] = row]
              /\ row.status = "finished"
              /\ row.att = duel[d].att /\ row.def = duel[d].def
              /\ row.waves = duel[d].waves /\ row.blocked = duel[d].blocked
<1> DEFINE d == req[r].id
           old == req[r].row
           new == FinalTally(old)
           mid == [duel[d] EXCEPT !.status = "finished"]
           row == WithScores(mid, old, new)
<1>1. req[r].id # NoDuel
  BY DEF AwardDefender, Typed, CopiesOK, CopyOK
<1>2. d \in DuelIds /\ duel[d] \in Row /\ old \in Row
  BY <1>1, CopyTyped
<1>3. new \in Row
  BY <1>2, TalliedRow DEF FinalTally
<1> HIDE DEF new
<1>4. /\ mid \in Row /\ mid.status = "finished" /\ mid.att = duel[d].att
      /\ mid.def = duel[d].def /\ mid.waves = duel[d].waves
      /\ mid.blocked = duel[d].blocked
  BY <1>2 DEF Row, Status
<1> HIDE DEF mid
<1>5. /\ row \in Row /\ row.status = "finished" /\ row.att = duel[d].att
      /\ row.def = duel[d].def /\ row.waves = duel[d].waves
      /\ row.blocked = duel[d].blocked
  BY <1>2, <1>3, <1>4, ScoredRow
<1>6. duel' = [duel EXCEPT ![d] = row]
  BY DEF AwardDefender, row, mid, new
<1> HIDE DEF row
<1> QED BY <1>1, <1>2, <1>5, <1>6

(* What a step leaves alone, whatever overlaps: the players of a duel, and *)
(* the numbers fire() has used up.                                         *)
LEMMA PlayersStay ==
  ASSUME Typed, [Next]_duelVars, NEW d \in DuelIds, duel[d].status # "none"
  PROVE  /\ duel'[d].att = duel[d].att /\ duel'[d].def = duel[d].def
         /\ duel'[d].status # "none" /\ fired[d] <= fired'[d]
<1> USE DEF Typed, DuelTypeOK
<1> DEFINE Goal == /\ duel'[d].att = duel[d].att /\ duel'[d].def = duel[d].def
                   /\ duel'[d].status # "none" /\ fired[d] <= fired'[d]
<1>1. fired[d] \in Nat /\ duel[d] \in Row
  BY DuelsAssumption
<1>2. CASE duel'[d] = duel[d] /\ fired'[d] = fired[d]
  BY <1>1, <1>2
<1>3. ASSUME NEW r \in Requests, Insert(r) PROVE Goal
  <2>1. duel'[d] = duel[d] /\ UNCHANGED fired
    BY <1>3 DEF Insert
  <2> QED BY <1>2, <2>1
<1>4. ASSUME NEW r \in Requests, Answer(r) PROVE Goal
  <2>1. PICK row \in Row :
          /\ duel' = [duel EXCEPT ![req[r].id] = row] /\ row.status # "none"
          /\ row.att = duel[req[r].id].att /\ row.def = duel[req[r].id].def
    BY <1>4, AnswerWrites
  <2>2. UNCHANGED fired
    BY <1>4 DEF Answer
  <2> QED BY <1>1, <2>1, <2>2
<1>5. ASSUME NEW r \in Requests, Fire(r) PROVE Goal
  <2>1. PICK row \in Row :
          /\ duel' = [duel EXCEPT ![req[r].id] = row]
          /\ row.status = duel[req[r].id].status
          /\ row.att = duel[req[r].id].att /\ row.def = duel[req[r].id].def
    BY <1>5, FireWrites
  <2>2. fired' = [fired EXCEPT ![req[r].id] = @ + 1]
    BY <1>5 DEF Fire
  <2>3. fired[d] <= fired'[d]
    BY <1>1, <2>2
  <2> QED BY <1>1, <2>1, <2>3
<1>6. ASSUME NEW r \in Requests, Label(r) PROVE Goal
  <2>1. PICK row \in Row :
          /\ duel' = [duel EXCEPT ![req[r].id] = row]
          /\ row.status = duel[req[r].id].status
          /\ row.att = duel[req[r].id].att /\ row.def = duel[req[r].id].def
    BY <1>6, LabelWrites
  <2>2. UNCHANGED fired
    BY <1>6 DEF Label
  <2> QED BY <1>1, <2>1, <2>2
<1>7. ASSUME NEW r \in Requests, AwardDefender(r) PROVE Goal
  <2>1. PICK row \in Row :
          /\ duel' = [duel EXCEPT ![req[r].id] = row] /\ row.status = "finished"
          /\ row.att = duel[req[r].id].att /\ row.def = duel[req[r].id].def
    BY <1>7, AwardWrites
  <2>2. UNCHANGED fired
    BY <1>7 DEF AwardDefender
  <2> QED BY <1>1, <2>1, <2>2
<1>8. ASSUME NEW e \in DuelIds, TimeUp(e) PROVE Goal
  <2>1. duel' = [duel EXCEPT ![e].due = TRUE] /\ UNCHANGED fired
    BY <1>8 DEF TimeUp
  <2>2. CASE d = e
    BY <1>1, <2>1, <2>2 DEF Row
  <2>3. CASE d # e
    BY <1>2, <2>1, <2>3
  <2> QED BY <2>2, <2>3
<1>9. CASE UNCHANGED <<duel, fired>>
  BY <1>2, <1>9
<1> QED
  BY ZenonT(40), <1>3, <1>4, <1>5, <1>6, <1>7, <1>8, <1>9
     DEF Next, Arrive, Step, Challenge, LoadToAccept, LoadToDecline, LoadToFire,
         LoadToLabel, LoadToFinish, LoadToExpire, Load, Finalize, AwardAttacker,
         StatusUncommitted, Rollback, BreakDeadlock, duelVars

--------------------------------------------------------------------------
(* What copies have in common with their duels, even where requests meet   *)

(* A challenge has two players; the copy of a duel has the duel's players  *)
(* and only waves that were fired; the wave to label is one of the copy    *)
(* that is not blocked.                                                    *)
CopyFits(q) ==
  /\ q.next = "insert" =>
       q.row.att # q.row.def /\ q.row.waves = {} /\ q.row.blocked = {}
  /\ q.id # NoDuel =>
       /\ q.row.att = duel[q.id].att /\ q.row.def = duel[q.id].def
       /\ q.row.waves \subseteq 1..fired[q.id]
  /\ q.next \in {"label", "mislabel"} => q.wave \in q.row.waves \ q.row.blocked

Fits ==
  /\ \A r \in Requests : CopyFits(req[r])
  /\ \A d \in DuelIds : duel[d].waves \subseteq 1..fired[d]
  /\ \A d \in raced : duel[d].status # "none"

(* A copy goes on fitting while its request waits.                         *)
LEMMA CopyStays ==
  ASSUME Typed, Fits, [Next]_duelVars, NEW r \in Requests, req'[r] = req[r]
  PROVE  CopyFits(req[r])'
<1>1. CASE req[r].id = NoDuel
  BY <1>1 DEF Fits, CopyFits
<1>2. CASE req[r].id # NoDuel
  <2> DEFINE d == req[r].id
  <2>1. d \in DuelIds /\ duel[d].status # "none"
    BY <1>2, CopyTyped
  <2>2. /\ duel'[d].att = duel[d].att /\ duel'[d].def = duel[d].def
        /\ fired[d] <= fired'[d]
    BY <2>1, PlayersStay
  <2>3. fired[d] \in Nat /\ fired'[d] \in Nat
    BY <2>1, StepTyped, DuelsAssumption DEF Typed, DuelTypeOK
  <2>4. 1..fired[d] \subseteq 1..fired'[d]
    BY <2>2, <2>3
  <2> QED BY <1>2, <2>2, <2>4 DEF Fits, CopyFits
<1> QED BY <1>1, <1>2

LEMMA FitsStep ==
  ASSUME Typed, Fits, [Next]_duelVars
  PROVE  Fits'
<1> USE DEF Typed, DuelTypeOK
<1>1. /\ Idle.next = "idle" /\ Idle.id = NoDuel
  BY DEF Idle
<1>2. ASSUME NEW r \in Requests, req'[r] = Idle PROVE CopyFits(req[r])'
  BY <1>1, <1>2 DEF CopyFits
<1>3. ASSUME NEW r \in Requests, Done(r)
      PROVE  \A q \in Requests : CopyFits(req[q])'
  BY <1>2, <1>3, CopyStays DEF Done
<1>4. ASSUME NEW r \in Requests, NEW row \in Row, NEW d \in DuelIds,
             duel' = [duel EXCEPT ![d] = row], fired' = fired,
             row.waves \subseteq 1..fired[d]
      PROVE  \A e \in DuelIds : duel'[e].waves \subseteq 1..fired'[e]
  BY <1>4 DEF Fits
<1>5. ASSUME raced' = raced PROVE \A d \in raced' : duel'[d].status # "none"
  BY <1>5, PlayersStay DEF Fits
<1>6. CASE UNCHANGED duelVars
  BY <1>6, CopyStays DEF Fits, duelVars
<1>7. ASSUME NEW r \in Requests, NEW p \in Players, NEW q \in Players, Challenge(r, p, q)
      PROVE  Fits'
  <2>1. /\ UNCHANGED <<duel, fired, raced>> /\ p # q
        /\ \A s \in Requests \ {r} : req'[s] = req[s]
        /\ req'[r] = [Idle EXCEPT !.next = "insert", !.row = Pending(p, q)]
    BY <1>7 DEF Challenge
  <2>2. /\ Pending(p, q).att = p /\ Pending(p, q).def = q
        /\ Pending(p, q).waves = {} /\ Pending(p, q).blocked = {}
    BY DEF Pending, Blank
  <2>3. /\ req'[r].next = "insert" /\ req'[r].row = Pending(p, q)
        /\ req'[r].id = NoDuel
    BY <2>1 DEF Idle
  <2>4. CopyFits(req[r])'
    BY <2>1, <2>2, <2>3 DEF CopyFits
  <2> QED BY <2>1, <2>4, CopyStays DEF Fits
<1>8. ASSUME NEW r \in Requests, NEW d \in DuelIds,
             NEW n \in {"accept", "decline", "fire", "label", "mislabel", "finalize"},
             NEW w, Load(r, d, n, w), duel[d].status # "none",
             n \in {"label", "mislabel"} => w \in duel[d].waves \ duel[d].blocked
      PROVE  Fits'
  <2>1. /\ UNCHANGED <<duel, fired>> /\ raced' \subseteq raced \cup {d}
        /\ \A s \in Requests \ {r} : req'[s] = req[s]
        /\ req'[r] = [Idle EXCEPT !.next = n, !.id = d, !.row = duel[d], !.wave = w]
    BY <1>8 DEF Load
  <2>2. /\ req'[r].next = n /\ req'[r].id = d /\ req'[r].row = duel[d]
        /\ req'[r].wave = w
    BY <2>1 DEF Idle
  <2>3. CopyFits(req[r])'
    BY <1>8, <2>1, <2>2 DEF CopyFits, Fits
  <2> QED BY <1>8, <2>1, <2>3, CopyStays DEF Fits
<1>9. ASSUME NEW r \in Requests, Arrive(r) PROVE Fits'
  <2>1. \/ \E p, q \in Players : Challenge(r, p, q)
        \/ \E d \in DuelIds :
             \E n \in {"accept", "decline", "fire", "label", "mislabel", "finalize"}, w \in Wave \cup {0} :
               /\ Load(r, d, n, w) /\ duel[d].status # "none"
               /\ n \in {"label", "mislabel"} => w \in duel[d].waves \ duel[d].blocked
    <3>1. ASSUME NEW d \in DuelIds,
                 LoadToAccept(r, d) \/ LoadToDecline(r, d) \/ LoadToFire(r, d)
                   \/ LoadToFinish(r, d) \/ LoadToExpire(r, d)
          PROVE  \E n \in {"accept", "decline", "fire", "finalize"} :
                   Load(r, d, n, 0) /\ duel[d].status # "none"
      BY <3>1 DEF LoadToAccept, LoadToDecline, LoadToFire, LoadToFinish,
                  LoadToExpire, Acceptable, Open, Overdue
    <3>2. ASSUME NEW d \in DuelIds, LoadToLabel(r, d)
          PROVE  \E n \in {"label", "mislabel"}, w \in Wave :
                   /\ Load(r, d, n, w) /\ duel[d].status # "none"
                   /\ w \in duel[d].waves \ duel[d].blocked
      <4>1. duel[d].waves \subseteq Wave
        BY DEF Row
      <4> QED BY <3>2, <4>1 DEF LoadToLabel
    <3> QED BY <1>9, <3>1, <3>2 DEF Arrive
  <2> QED BY <1>7, <1>8, <2>1
<1>10. ASSUME NEW r \in Requests, Insert(r) PROVE Fits'
  <2>1. PICK d \in DuelIds : duel' = [duel EXCEPT ![d] = req[r].row]
                             /\ raced' \subseteq raced \cup {d}
    BY <1>10 DEF Insert
  <2>2. Done(r) /\ UNCHANGED fired /\ req[r].next = "insert"
    BY <1>10 DEF Insert
  <2>3. req[r].row \in Row /\ req[r].row.status = "pending" /\ req[r].row.waves = {}
    BY <2>2 DEF CopiesOK, CopyOK, Fits, CopyFits, Request
  <2>4. \A e \in raced' : duel'[e].status # "none"
    BY <2>1, <2>3 DEF Fits
  <2> QED BY <1>3, <1>4, <2>1, <2>2, <2>3, <2>4 DEF Fits
<1>11. ASSUME NEW r \in Requests, Answer(r) PROVE Fits'
  <2>1. Done(r) /\ UNCHANGED <<fired, raced>>
    BY <1>11 DEF Answer
  <2> QED BY <1>3, <1>4, <1>5, <1>11, <2>1, AnswerWrites DEF Fits
<1>12. ASSUME NEW r \in Requests, Fire(r) PROVE Fits'
  <2> DEFINE d == req[r].id
  <2>1. Done(r) /\ UNCHANGED raced /\ fired' = [fired EXCEPT ![d] = @ + 1]
    BY <1>12 DEF Fire
  <2>2. PICK row \in Row :
          /\ d \in DuelIds /\ d # NoDuel /\ duel' = [duel EXCEPT ![d] = row]
          /\ row.waves = req[r].row.waves \cup {fired[d] + 1}
    BY <1>12, FireWrites
  <2>3. req[r].row.waves \subseteq 1..fired[d] /\ fired[d] \in Nat
    BY <2>2, DuelsAssumption DEF Fits, CopyFits
  <2>4. row.waves \subseteq 1..(fired[d] + 1)
    BY <2>2, <2>3
  <2>5. \A e \in DuelIds : duel'[e].waves \subseteq 1..fired'[e]
    BY <2>1, <2>2, <2>4 DEF Fits
  <2> QED BY <1>3, <1>5, <2>1, <2>5 DEF Fits
<1>13. ASSUME NEW r \in Requests, Label(r) PROVE Fits'
  <2>1. Done(r) /\ UNCHANGED <<fired, raced>>
    BY <1>13 DEF Label
  <2>2. PICK row \in Row :
          /\ req[r].id \in DuelIds /\ req[r].id # NoDuel
          /\ duel' = [duel EXCEPT ![req[r].id] = row]
          /\ row.waves = req[r].row.waves
    BY <1>13, LabelWrites
  <2>3. row.waves \subseteq 1..fired[req[r].id]
    BY <2>2 DEF Fits, CopyFits
  <2> QED BY <1>3, <1>4, <1>5, <2>1, <2>2, <2>3 DEF Fits
<1>14. ASSUME NEW r \in Requests, Finalize(r) \/ AwardAttacker(r) PROVE Fits'
  <2>1. /\ UNCHANGED <<duel, fired, raced>>
        /\ \A q \in Requests \ {r} : req'[q] = req[q]
        /\ req'[r].next \in {"attacker", "defender"}
        /\ req'[r].id = req[r].id /\ req'[r].row = req[r].row
    BY <1>14 DEF Finalize, AwardAttacker, StatusUncommitted, Request
  <2>2. CopyFits(req[r])'
    BY <2>1 DEF CopyFits, Fits
  <2> QED BY <1>5, <2>1, <2>2, CopyStays DEF Fits
<1>15. ASSUME NEW r \in Requests, AwardDefender(r) PROVE Fits'
  <2>1. Done(r) /\ UNCHANGED <<fired, raced>>
    BY <1>15 DEF AwardDefender
  <2> QED BY <1>3, <1>4, <1>5, <1>15, <2>1, AwardWrites DEF Fits
<1>16. ASSUME NEW r \in Requests, Rollback(r) PROVE Fits'
  BY <1>3, <1>5, <1>16 DEF Rollback, Fits
<1>17. ASSUME NEW d \in DuelIds, TimeUp(d) PROVE Fits'
  <2>1. duel' = [duel EXCEPT ![d].due = TRUE] /\ UNCHANGED <<req, fired, raced>>
    BY <1>17 DEF TimeUp
  <2>2. \A e \in DuelIds : duel'[e].waves = duel[e].waves
    BY <2>1 DEF Row
  <2> QED BY <1>5, <2>1, <2>2, CopyStays DEF Fits
<1> QED
  BY <1>6, <1>9, <1>10, <1>11, <1>12, <1>13, <1>14, <1>15, <1>16, <1>17
     DEF Next, Step, BreakDeadlock

LEMMA InitFits == Init => Fits
<1> SUFFICES ASSUME Init PROVE Fits
  OBVIOUS
<1>1. /\ Idle.next = "idle" /\ Idle.id = NoDuel /\ Blank.waves = {}
  BY DEF Idle, Blank
<1> QED BY <1>1 DEF Init, Fits, CopyFits

--------------------------------------------------------------------------
(* The rules *)

(* What the rules see of one duel is all they see of a step that writes    *)
(* that duel only.                                                         *)
SameMatch(d) ==
  /\ d \in raced' <=> d \in raced
  /\ duel'[d].att = duel[d].att /\ duel'[d].def = duel[d].def
  /\ d \notin raced =>
       /\ duel'[d].status = duel[d].status /\ duel'[d].waves = duel[d].waves
       /\ duel'[d].blocked = duel[d].blocked /\ winner'[d] = winner[d]

LEMMA MatchStays ==
  ASSUME NEW d \in DuelIds, SameMatch(d)
  PROVE  Matches'[d] = Matches[d]
<1>1. Ruled(d)' = Ruled(d)
  BY DEF SameMatch, Ruled
<1> QED BY <1>1 DEF Matches

LEMMA MatchesStay ==
  ASSUME \A d \in DuelIds : SameMatch(d)
  PROVE  Matches' = Matches
<1>1. \A d \in DuelIds : Ruled(d)' = Ruled(d)
  BY DEF SameMatch, Ruled
<1> QED BY <1>1 DEF Matches

LEMMA OneMatch ==
  ASSUME NEW d \in DuelIds, \A e \in DuelIds \ {d} : SameMatch(e)
  PROVE  Matches' = [Matches EXCEPT ![d] = Matches'[d]]
<1>1. \A e \in DuelIds \ {d} : Ruled(e)' = Ruled(e)
  BY DEF SameMatch, Ruled
<1> QED BY <1>1 DEF Matches

(* A duel that is ruled, as its rules see it.                              *)
Play(row, w) ==
  [status |-> row.status, att |-> row.att, def |-> row.def, waves |-> row.waves,
   blocked |-> row.blocked, winner |-> IF row.status = "finished" THEN w ELSE Nobody]

LEMMA MatchOf ==
  ASSUME NEW d \in DuelIds
  PROVE  /\ Matches[d].att = duel[d].att /\ Matches[d].def = duel[d].def
         /\ d \in raced =>
              /\ Matches[d] = Rules!New("overlapped", duel[d].att, duel[d].def)
              /\ Matches[d].status = "overlapped"
         /\ d \notin raced => Matches[d] = Play(duel[d], winner[d])
<1>1. Matches[d] = Ruled(d)
  BY DEF Matches
<1> QED BY <1>1 DEF Ruled, Rules!New, Play

LEMMA NextMatchOf ==
  ASSUME NEW d \in DuelIds
  PROVE  /\ d \in raced' =>
              Matches'[d] = Rules!New("overlapped", duel'[d].att, duel'[d].def)
         /\ d \notin raced' => Matches'[d] = Play(duel'[d], winner'[d])
<1>1. Matches'[d] = Ruled(d)'
  BY DEF Matches
<1> QED BY <1>1 DEF Ruled, Rules!New, Play

(* Both modules count alike.                                               *)
LEMMA SameCount == ASSUME NEW S PROVE Rules!Cardinality(S) = Cardinality(S)
  BY DEF Rules!Cardinality, Cardinality

RuledState == Typed /\ UnracedSound /\ PairInv /\ Fits

(* The copy of a duel whose requests do not meet.                          *)
LEMMA CopyIsRow ==
  ASSUME RuledState, NEW r \in Requests, req[r].id # NoDuel, req[r].id \notin raced
  PROVE  LET d == req[r].id IN
         /\ Sound(d) /\ req[r].row.att = duel[d].att /\ req[r].row.def = duel[d].def
         /\ req[r].row.status = duel[d].status /\ req[r].row.waves = duel[d].waves
         /\ req[r].row.blocked = duel[d].blocked
<1> DEFINE d == req[r].id
<1>1. d \in DuelIds /\ duel[d] \in Row /\ req[r].row \in Row
  BY CopyTyped DEF RuledState
<1>2. Sound(d)
  BY <1>1 DEF RuledState, UnracedSound
<1>3. [req[r].row EXCEPT !.due = duel[d].due] = duel[d]
  BY <1>2 DEF Sound, SameRow
<1> QED BY <1>1, <1>2, <1>3 DEF Row

--------------------------------------------------------------------------
(* The steps, mapped *)

LEMMA LoadMaps ==
  ASSUME RuledState, NEW r \in Requests, NEW d \in DuelIds, NEW n, NEW w,
         Load(r, d, n, w)
  PROVE  Rules!Overlap(d) \/ UNCHANGED Rules!rulesVars
<1>1. /\ UNCHANGED <<duel, winner, earned>>
      /\ raced' = raced \/ (raced' = raced \cup {d} /\ \E q \in Requests : req[q].id = d)
  BY DEF Load
<1>2. CASE raced' = raced
  BY <1>1, <1>2, MatchesStay DEF SameMatch, Rules!rulesVars
<1>3. CASE raced' = raced \cup {d} /\ d \notin raced /\ \E q \in Requests : req[q].id = d
  <2>1. duel[d].status # "none"
    BY <1>3, CopyTyped, DuelsAssumption DEF RuledState
  <2>2. Matches' = [Matches EXCEPT ![d] = Matches'[d]]
    BY <1>1, <1>3, OneMatch DEF SameMatch
  <2>3. Matches'[d] = Rules!New("overlapped", Matches[d].att, Matches[d].def)
    <3>1. Matches'[d] = Rules!New("overlapped", duel'[d].att, duel'[d].def)
      BY <1>3, NextMatchOf
    <3>2. Matches[d].att = duel'[d].att /\ Matches[d].def = duel'[d].def
      BY <1>1, MatchOf
    <3> QED BY <3>1, <3>2
  <2>4. Matches[d].status # "none"
    <3>1. Matches[d] = Play(duel[d], winner[d])
      BY <1>3, <2>1, MatchOf
    <3> QED BY <1>3, <2>1, <3>1 DEF Play
  <2> QED BY <1>1, <2>2, <2>3, <2>4 DEF Rules!Overlap
<1> QED BY <1>1, <1>2, <1>3

LEMMA InsertMaps ==
  ASSUME RuledState, NEW r \in Requests, Insert(r)
  PROVE  \E d \in DuelIds : \E p, q \in Players :
           Rules!Challenge(d, p, q) \/ Rules!RushIn(d, p, q)
<1> DEFINE row == req[r].row
<1>1. PICK d \in DuelIds :
        /\ duel[d].status = "none" /\ duel' = [duel EXCEPT ![d] = row]
        /\ raced' = raced \/ raced' = raced \cup {d}
  BY DEF Insert
<1>2. req[r].next = "insert" /\ UNCHANGED <<winner, earned>>
  BY DEF Insert
<1>3. /\ row.att \in Players /\ row.def \in Players /\ row.att # row.def
      /\ row.status = "pending" /\ row.waves = {} /\ row.blocked = {}
  BY <1>2 DEF RuledState, Typed, CopiesOK, CopyOK, Fits, CopyFits
<1>4. d \notin raced
  BY <1>1 DEF RuledState, Fits
<1>5. duel'[d] = row /\ \A e \in DuelIds \ {d} : duel'[e] = duel[e]
  BY <1>1 DEF RuledState, Typed, DuelTypeOK
<1>6. Matches' = [Matches EXCEPT ![d] = Matches'[d]]
  <2>1. \A e \in DuelIds \ {d} : SameMatch(e)
    BY <1>1, <1>2, <1>5 DEF SameMatch
  <2> QED BY <2>1, OneMatch
<1>7. Matches[d].status = "none"
  <2>1. Matches[d] = Play(duel[d], winner[d])
    BY <1>1, <1>4, MatchOf
  <2> QED BY <1>1, <1>4, <2>1 DEF Play
<1>8. CASE raced' = raced \cup {d}
  <2>1. Matches'[d] = Rules!New("overlapped", row.att, row.def)
    BY <1>5, <1>8, NextMatchOf
  <2>2. Rules!RushIn(d, row.att, row.def)
    BY <1>2, <1>3, <1>6, <1>7, <2>1 DEF Rules!RushIn
  <2> QED BY <1>3, <2>2
<1>9. CASE raced' = raced
  <2>1. Matches'[d] = Rules!New("pending", row.att, row.def)
    <3>1. Matches'[d] = Play(row, winner'[d])
      BY <1>4, <1>5, <1>9, NextMatchOf
    <3> QED BY <1>3, <3>1 DEF Rules!New, Play
  <2>2. ASSUME NEW c \in DuelIds, Rules!IsOpen(Matches[c])
        PROVE  {Matches[c].att, Matches[c].def} # {row.att, row.def}
    <3>1. Matches[c].status \in {"pending", "active"}
      BY <2>2 DEF Rules!IsOpen
    <3>2. c \notin raced
      BY <3>1, MatchOf
    <3>3. Matches[c] = Play(duel[c], winner[c])
      BY <3>2, MatchOf
    <3>4. Open(duel[c]) /\ Matches[c].att = duel[c].att /\ Matches[c].def = duel[c].def
      BY <3>1, <3>3 DEF Open, Play
    <3> QED BY <1>2, <3>2, <3>4 DEF RuledState, PairInv, InsertsRaced, Between
  <2>3. Rules!Challenge(d, row.att, row.def)
    BY <1>2, <1>3, <1>6, <1>7, <2>1, <2>2 DEF Rules!Challenge
  <2> QED BY <1>3, <2>3
<1> QED BY <1>1, <1>8, <1>9

(* A write to a duel that is no longer ruled.                              *)
LEMMA OverlappedStays ==
  ASSUME RuledState, [Next]_duelVars, NEW d \in DuelIds, d \in raced, raced' = raced,
         \A e \in DuelIds \ {d} : duel'[e] = duel[e] /\ winner'[e] = winner[e]
  PROVE  Matches' = Matches
<1>1. duel'[d].att = duel[d].att /\ duel'[d].def = duel[d].def
  BY PlayersStay DEF RuledState, Fits
<1> QED BY <1>1, MatchesStay DEF SameMatch

LEMMA AnswerMaps ==
  ASSUME RuledState, [Next]_duelVars, NEW r \in Requests, Answer(r)
  PROVE  \/ \E d \in DuelIds : Rules!Accept(d) \/ Rules!Decline(d)
         \/ UNCHANGED Rules!rulesVars
<1> DEFINE d == req[r].id
<1>1. UNCHANGED <<winner, earned, raced>> /\ req[r].next \in {"accept", "decline"}
  BY DEF Answer
<1>2. PICK row \in Row :
        /\ d \in DuelIds /\ d # NoDuel /\ duel' = [duel EXCEPT ![d] = row]
        /\ row.status = IF req[r].next = "accept" THEN "active" ELSE "declined"
        /\ row.att = duel[d].att /\ row.def = duel[d].def
        /\ row.waves = duel[d].waves /\ row.blocked = duel[d].blocked
  BY AnswerWrites DEF RuledState
<1>3. duel'[d] = row /\ \A e \in DuelIds \ {d} : duel'[e] = duel[e]
  BY <1>2 DEF RuledState, Typed, DuelTypeOK
<1>4. CASE d \in raced
  BY <1>1, <1>2, <1>3, <1>4, OverlappedStays DEF Rules!rulesVars
<1>5. CASE d \notin raced
  <2>1. duel[d].status = "pending"
    BY <1>1, <1>2, <1>5, CopyIsRow DEF Sound
  <2>2. Matches' = [Matches EXCEPT ![d] = Matches'[d]]
    BY <1>1, <1>2, <1>3, OneMatch DEF SameMatch
  <2>3. Matches'[d] = [Matches[d] EXCEPT !.status = row.status]
    <3>1. Matches[d] = Play(duel[d], winner[d])
      BY <1>2, <1>5, MatchOf
    <3>2. Matches'[d] = Play(row, winner'[d])
      <4>1. d \in DuelIds /\ d \notin raced' /\ duel'[d] = row
        BY <1>1, <1>2, <1>3, <1>5
      <4> QED BY <4>1, NextMatchOf
    <3>3. /\ row.att = duel[d].att /\ row.def = duel[d].def
          /\ row.waves = duel[d].waves /\ row.blocked = duel[d].blocked
          /\ row.status # "finished" /\ duel[d].status # "finished"
      BY <1>1, <1>2, <2>1
    <3>4. Play(row, winner'[d]) =
            [Play(duel[d], winner[d]) EXCEPT !.status = row.status]
      BY <3>3 DEF Play
    <3> QED BY <3>1, <3>2, <3>4
  <2>4. Matches[d].status = "pending"
    <3>1. Matches[d] = Play(duel[d], winner[d])
      BY <1>2, <1>5, <2>1, MatchOf
    <3> QED BY <1>2, <1>5, <2>1, <3>1 DEF Play
  <2>5. Matches' = [Matches EXCEPT ![d].status = row.status]
    BY <2>2, <2>3
  <2> QED BY <1>1, <1>2, <2>4, <2>5 DEF Rules!Accept, Rules!Decline
<1> QED BY <1>4, <1>5

LEMMA FireMaps ==
  ASSUME RuledState, [Next]_duelVars, NEW r \in Requests, Fire(r)
  PROVE  \/ \E d \in DuelIds : \E w \in Wave : Rules!Fire(d, w)
         \/ UNCHANGED Rules!rulesVars
<1> DEFINE d == req[r].id
           w == fired[d] + 1
<1>1. UNCHANGED <<winner, earned, raced>> /\ req[r].next = "fire" /\ fired[d] < MaxFired
  BY DEF Fire
<1>2. PICK row \in Row :
        /\ d \in DuelIds /\ d # NoDuel /\ duel' = [duel EXCEPT ![d] = row]
        /\ row.status = duel[d].status
        /\ row.att = duel[d].att /\ row.def = duel[d].def
        /\ row.waves = req[r].row.waves \cup {w}
        /\ row.blocked = req[r].row.blocked
  BY FireWrites DEF RuledState
<1>3. duel'[d] = row /\ \A e \in DuelIds \ {d} : duel'[e] = duel[e]
  BY <1>2 DEF RuledState, Typed, DuelTypeOK
<1>4. CASE d \in raced
  BY <1>1, <1>2, <1>3, <1>4, OverlappedStays DEF Rules!rulesVars
<1>5. CASE d \notin raced
  <2>1. /\ duel[d].status = "active" /\ req[r].row.waves = duel[d].waves
        /\ req[r].row.blocked = duel[d].blocked
    BY <1>1, <1>2, <1>5, CopyIsRow DEF Sound
  <2>2. Matches' = [Matches EXCEPT ![d] = Matches'[d]]
    BY <1>1, <1>2, <1>3, OneMatch DEF SameMatch
  <2>3. Matches'[d] = [Matches[d] EXCEPT !.waves = Matches[d].waves \cup {w}]
    <3>1. Matches[d] = Play(duel[d], winner[d])
      BY <1>2, <1>5, MatchOf
    <3>2. Matches'[d] = Play(row, winner'[d])
      <4>1. d \in DuelIds /\ d \notin raced' /\ duel'[d] = row
        BY <1>1, <1>2, <1>3, <1>5
      <4> QED BY <4>1, NextMatchOf
    <3>3. /\ row.att = duel[d].att /\ row.def = duel[d].def
          /\ row.waves = duel[d].waves \cup {w} /\ row.blocked = duel[d].blocked
          /\ row.status = duel[d].status /\ duel[d].status = "active"
      BY <1>2, <2>1
    <3>4. Play(row, winner'[d]) =
            [Play(duel[d], winner[d]) EXCEPT !.waves = Play(duel[d], winner[d]).waves \cup {w}]
      BY <3>3 DEF Play
    <3> QED BY <3>1, <3>2, <3>4
  <2>4. Matches[d].status = "active" /\ Matches[d].waves = duel[d].waves
    <3>1. Matches[d] = Play(duel[d], winner[d])
      BY <1>2, <1>5, <2>1, MatchOf
    <3> QED BY <1>2, <1>5, <2>1, <3>1 DEF Play
  <2>5. Rules!Cardinality(Matches[d].waves) < MaxWaves
    BY <1>1, <2>1, <2>4, SameCount DEF RuledState, Typed, CopiesOK, CopyOK
  <2>6. fired[d] \in Nat /\ duel[d].waves \subseteq 1..fired[d]
    BY <1>2, DuelsAssumption DEF RuledState, Typed, DuelTypeOK, Fits
  <2>7. w \in Wave /\ w \notin Matches[d].waves
    BY <1>1, <2>4, <2>6, DuelsAssumption DEF Wave
  <2>8. Matches' = [Matches EXCEPT ![d].waves = @ \cup {w}]
    BY <2>2, <2>3
  <2>9. Rules!Fire(d, w)
    BY <1>1, <2>4, <2>5, <2>7, <2>8 DEF Rules!Fire
  <2> QED BY <1>2, <2>7, <2>9
<1> QED BY <1>4, <1>5

LEMMA LabelMaps ==
  ASSUME RuledState, [Next]_duelVars, NEW r \in Requests, Label(r)
  PROVE  \/ \E d \in DuelIds : \E w \in Wave : Rules!Block(d, w)
         \/ UNCHANGED Rules!rulesVars
<1> DEFINE d == req[r].id
           w == req[r].wave
<1>1. UNCHANGED <<winner, earned, raced>> /\ req[r].next \in {"label", "mislabel"}
  BY DEF Label
<1>2. PICK row \in Row :
        /\ d \in DuelIds /\ d # NoDuel /\ duel' = [duel EXCEPT ![d] = row]
        /\ row.status = duel[d].status
        /\ row.att = duel[d].att /\ row.def = duel[d].def
        /\ row.waves = req[r].row.waves
        /\ row.blocked = req[r].row.blocked \cup Hit(req[r].next, w)
  BY LabelWrites DEF RuledState
<1>3. duel'[d] = row /\ \A e \in DuelIds \ {d} : duel'[e] = duel[e]
  BY <1>2 DEF RuledState, Typed, DuelTypeOK
<1>4. CASE d \in raced
  BY <1>1, <1>2, <1>3, <1>4, OverlappedStays DEF Rules!rulesVars
<1>5. CASE d \notin raced
  <2>1. /\ duel[d].status = "active" /\ req[r].row.waves = duel[d].waves
        /\ req[r].row.blocked = duel[d].blocked
    BY <1>1, <1>2, <1>5, CopyIsRow DEF Sound
  <2>2. CASE req[r].next = "mislabel"
    <3>1. row.blocked = duel[d].blocked
      BY <1>2, <2>1, <2>2 DEF Hit
    <3> QED BY <1>1, <1>2, <1>3, <2>1, <3>1, MatchesStay DEF SameMatch, Rules!rulesVars
  <2>3. CASE req[r].next = "label"
    <3>1. row.blocked = duel[d].blocked \cup {w}
      BY <1>2, <2>1, <2>3 DEF Hit
    <3>2. Matches' = [Matches EXCEPT ![d] = Matches'[d]]
      BY <1>1, <1>2, <1>3, OneMatch DEF SameMatch
    <3>3. Matches'[d] = [Matches[d] EXCEPT !.blocked = Matches[d].blocked \cup {w}]
      <4>1. Matches[d] = Play(duel[d], winner[d])
        BY <1>2, <1>5, MatchOf
      <4>2. Matches'[d] = Play(row, winner'[d])
        <5>1. d \in DuelIds /\ d \notin raced' /\ duel'[d] = row
          BY <1>1, <1>2, <1>3, <1>5
        <5> QED BY <5>1, NextMatchOf
      <4>3. /\ row.att = duel[d].att /\ row.def = duel[d].def
            /\ row.waves = duel[d].waves /\ row.blocked = duel[d].blocked \cup {w}
            /\ row.status = duel[d].status /\ duel[d].status = "active"
        BY <1>2, <2>1, <3>1
      <4>4. Play(row, winner'[d]) =
              [Play(duel[d], winner[d]) EXCEPT !.blocked = Play(duel[d], winner[d]).blocked \cup {w}]
        BY <4>3 DEF Play
      <4> QED BY <4>1, <4>2, <4>4
    <3>4. /\ Matches[d].status = "active" /\ Matches[d].waves = duel[d].waves
          /\ Matches[d].blocked = duel[d].blocked
      <4>1. Matches[d] = Play(duel[d], winner[d])
        BY <1>2, <1>5, <2>1, MatchOf
      <4> QED BY <1>2, <1>5, <2>1, <4>1 DEF Play
    <3>5. w \in duel[d].waves \ duel[d].blocked /\ w \in Wave
      BY <1>1, <2>1 DEF RuledState, Fits, CopyFits, Typed, CopiesOK, CopyOK
    <3>6. Matches' = [Matches EXCEPT ![d].blocked = @ \cup {w}]
      BY <3>2, <3>3
    <3>7. Rules!Block(d, w)
      BY <1>1, <3>4, <3>5, <3>6 DEF Rules!Block
    <3> QED BY <1>2, <3>5, <3>7
  <2> QED BY <1>1, <2>2, <2>3
<1> QED BY <1>4, <1>5

(* The tariff of the rules is the code's.                                  *)
LEMMA PayIs ==
  ASSUME NEW p, NEW q, NEW row, NEW m,
         m.att = p, m.def = q,
         earned' = [earned EXCEPT ![p] = @ + Gain(row, p), ![q] = @ + Gain(row, q)]
  PROVE  Rules!Pay(m, Winner(row))
  BY DEF Rules!Pay, Gain, PlayedXP, WinXP

(* More points are more waves.                                             *)
LEMMA LeaderIs ==
  ASSUME NEW row \in Row, NEW m, m.att = row.att, m.def = row.def,
         m.waves = row.waves, m.blocked = row.blocked
  PROVE  Rules!Leader(m) = Winner(FinalTally(row))
<1> DEFINE held == Cardinality(row.blocked)
           through == Cardinality(row.waves \ row.blocked)
<1>1. row.blocked \in SUBSET Wave /\ row.waves \ row.blocked \in SUBSET Wave
  BY DEF Row
<1>2. held \in Nat /\ through \in Nat
  BY <1>1, WaveSets
<1>3. LET new == FinalTally(row) IN
      /\ new.ascore = 10 * through /\ new.dscore = 10 * held
      /\ new.att = row.att /\ new.def = row.def
  BY TalliedRow DEF FinalTally, WavePoints
<1>4. Rules!Leader(m) = IF through > held THEN row.att
                        ELSE IF held > through THEN row.def ELSE Nobody
  BY SameCount DEF Rules!Leader
<1> HIDE DEF held, through
<1>5. (10 * through > 10 * held <=> through > held) /\ (10 * held > 10 * through <=> held > through)
  BY <1>2
<1> QED BY <1>3, <1>4, <1>5 DEF Winner

LEMMA AwardMaps ==
  ASSUME RuledState, [Next]_duelVars, NEW r \in Requests, AwardDefender(r)
  PROVE  \E d \in DuelIds : Rules!Finish(d) \/ Rules!PayOverlapped(d)
<1> DEFINE d == req[r].id
           old == req[r].row
           w == Winner(FinalTally(old))
<1>1. /\ UNCHANGED raced /\ req[r].next = "defender"
      /\ winner' = [winner EXCEPT ![d] = w]
  BY DEF AwardDefender
<1>2. PICK row \in Row :
        /\ d \in DuelIds /\ d # NoDuel /\ duel' = [duel EXCEPT ![d] = row]
        /\ row.status = "finished"
        /\ row.att = duel[d].att /\ row.def = duel[d].def
        /\ row.waves = duel[d].waves /\ row.blocked = duel[d].blocked
  BY AwardWrites DEF RuledState
<1>3. /\ duel'[d] = row /\ winner'[d] = w
      /\ \A e \in DuelIds \ {d} : duel'[e] = duel[e] /\ winner'[e] = winner[e]
  BY <1>1, <1>2 DEF RuledState, Typed, DuelTypeOK
<1>4. /\ old \in Row /\ FinalTally(old) \in Row
      /\ FinalTally(old).att = old.att /\ FinalTally(old).def = old.def
      /\ old.att = duel[d].att /\ old.def = duel[d].def
  BY <1>2, CopyTyped, TalliedRow DEF RuledState, Fits, CopyFits, FinalTally
<1>5. Rules!Pay(Matches[d], w)
  <2>1. Matches[d].att = old.att /\ Matches[d].def = old.def
    BY <1>2, <1>4, MatchOf
  <2>2. earned' = [earned EXCEPT ![old.att] = @ + Gain(FinalTally(old), old.att),
                                 ![old.def] = @ + Gain(FinalTally(old), old.def)]
    BY <1>4 DEF AwardDefender
  <2> QED BY <2>1, <2>2, PayIs
<1>6. CASE d \in raced
  <2>1. Matches' = Matches
    BY <1>1, <1>2, <1>3, <1>6, OverlappedStays
  <2>2. Matches[d].status = "overlapped"
    BY <1>2, <1>6, MatchOf
  <2>3. w \in {Matches[d].att, Matches[d].def, Nobody}
    BY <1>2, <1>4, MatchOf DEF Winner
  <2> QED BY <1>2, <1>5, <2>1, <2>2, <2>3 DEF Rules!PayOverlapped
<1>7. CASE d \notin raced
  <2>1. /\ Open(duel[d]) /\ old.waves = duel[d].waves /\ old.blocked = duel[d].blocked
    BY <1>1, <1>2, <1>7, CopyIsRow DEF Sound
  <2>2. Matches' = [Matches EXCEPT ![d] = Matches'[d]]
    BY <1>1, <1>2, <1>3, OneMatch DEF SameMatch
  <2>3. Rules!Leader(Matches[d]) = w
    <3>1. Matches[d] = Play(duel[d], winner[d])
      BY <1>2, <1>7, MatchOf
    <3>2. /\ Matches[d].att = old.att /\ Matches[d].def = old.def
          /\ Matches[d].waves = old.waves /\ Matches[d].blocked = old.blocked
      BY <1>4, <2>1, <3>1 DEF Play
    <3> QED BY <1>4, <3>2, LeaderIs
  <2>4. Matches'[d] = [Matches[d] EXCEPT !.status = "finished", !.winner = w]
    <3>1. Matches[d] = Play(duel[d], winner[d])
      BY <1>2, <1>7, MatchOf
    <3>2. Matches'[d] = Play(row, winner'[d])
      <4>1. d \in DuelIds /\ d \notin raced' /\ duel'[d] = row
        BY <1>1, <1>2, <1>3, <1>7
      <4> QED BY <4>1, NextMatchOf
    <3>3. /\ row.att = duel[d].att /\ row.def = duel[d].def
          /\ row.waves = duel[d].waves /\ row.blocked = duel[d].blocked
          /\ row.status = "finished" /\ winner'[d] = w
      BY <1>2, <1>3
    <3>4. Play(row, winner'[d]) =
            [Play(duel[d], winner[d]) EXCEPT !.status = "finished", !.winner = w]
      <4>1. Play(row, winner'[d]) =
              [status |-> "finished", att |-> duel[d].att, def |-> duel[d].def,
               waves |-> duel[d].waves, blocked |-> duel[d].blocked,
               winner |-> winner'[d]]
        BY <3>3 DEF Play
      <4>2. [Play(duel[d], winner[d]) EXCEPT !.status = "finished", !.winner = w] =
              [status |-> "finished", att |-> duel[d].att, def |-> duel[d].def,
               waves |-> duel[d].waves, blocked |-> duel[d].blocked, winner |-> w]
        <5> HIDE DEF w, d
        <5> DEFINE set == [status |-> "finished", att |-> duel[d].att,
                           def |-> duel[d].def, waves |-> duel[d].waves,
                           blocked |-> duel[d].blocked,
                           winner |-> Play(duel[d], winner[d]).winner]
        <5>1. [Play(duel[d], winner[d]) EXCEPT !.status = "finished"] = set
          BY DEF Play
        <5>2. [set EXCEPT !.winner = w] =
                [status |-> "finished", att |-> duel[d].att, def |-> duel[d].def,
                 waves |-> duel[d].waves, blocked |-> duel[d].blocked, winner |-> w]
          OBVIOUS
        <5> HIDE DEF set
        <5> QED BY Zenon, <5>1, <5>2
      <4> QED BY <3>3, <4>1, <4>2
    <3> QED BY <3>1, <3>2, <3>4
  <2>5. Rules!IsOpen(Matches[d])
    <3>1. Matches[d] = Play(duel[d], winner[d])
      BY <1>2, <1>7, <2>1, MatchOf
    <3> QED BY <1>2, <1>7, <2>1, <3>1 DEF Rules!IsOpen, Open, Play
  <2>6. Matches' = [Matches EXCEPT ![d].status = "finished", ![d].winner = w]
    BY <2>2, <2>4
  <2>7. Rules!Finish(d)
    BY <1>5, <2>3, <2>5, <2>6 DEF Rules!Finish
  <2> QED BY <1>2, <2>7
<1> QED BY <1>6, <1>7

LEMMA TimeUpMaps ==
  ASSUME RuledState, NEW d \in DuelIds, TimeUp(d)
  PROVE  UNCHANGED Rules!rulesVars
<1>1. duel' = [duel EXCEPT ![d].due = TRUE] /\ UNCHANGED <<winner, earned, raced>>
  BY DEF TimeUp
<1>2. ASSUME NEW e \in DuelIds PROVE SameMatch(e)
  <2>1. duel[e] \in Row
    BY DEF RuledState, Typed, DuelTypeOK
  <2>2. CASE e = d
    BY <1>1, <2>1, <2>2 DEF SameMatch, Row
  <2>3. CASE e # d
    BY <1>1, <2>3 DEF SameMatch
  <2> QED BY <2>2, <2>3
<1> QED BY <1>1, <1>2, MatchesStay DEF Rules!rulesVars

LEMMA StepMaps ==
  ASSUME RuledState, [Next]_duelVars
  PROVE  [Rules!Next]_(Rules!rulesVars)
<1>1. ASSUME UNCHANGED <<duel, winner, earned, raced>>
      PROVE  UNCHANGED Rules!rulesVars
  BY <1>1, MatchesStay DEF SameMatch, Rules!rulesVars
<1>2. ASSUME NEW r \in Requests, Arrive(r)
      PROVE  (\E d \in DuelIds : Rules!Overlap(d)) \/ UNCHANGED Rules!rulesVars
  <2>1. CASE \E p, q \in Players : Challenge(r, p, q)
    BY <1>1, <2>1 DEF Challenge
  <2>2. CASE \E d \in DuelIds : \E n, w : Load(r, d, n, w)
    BY <2>2, LoadMaps
  <2>3. ASSUME NEW d \in DuelIds,
               LoadToAccept(r, d) \/ LoadToDecline(r, d) \/ LoadToFire(r, d)
                 \/ LoadToLabel(r, d) \/ LoadToFinish(r, d) \/ LoadToExpire(r, d)
        PROVE  \E n, w : Load(r, d, n, w)
    BY <2>3 DEF LoadToAccept, LoadToDecline, LoadToFire, LoadToLabel, LoadToFinish,
                LoadToExpire
  <2> QED BY <1>2, <2>1, <2>2, <2>3 DEF Arrive
<1>3. ASSUME NEW r \in Requests, Finalize(r) \/ AwardAttacker(r) \/ Rollback(r)
      PROVE  UNCHANGED Rules!rulesVars
  BY <1>1, <1>3 DEF Finalize, AwardAttacker, Rollback, StatusUncommitted
<1>4. ASSUME NEW r \in Requests, Step(r)
      PROVE  Rules!Next \/ UNCHANGED Rules!rulesVars
  BY <1>3, <1>4, InsertMaps, AnswerMaps, FireMaps, LabelMaps, AwardMaps
     DEF Step, Rules!Next
<1>5. CASE UNCHANGED duelVars
  BY <1>1, <1>5 DEF duelVars
<1> QED
  BY <1>2, <1>3, <1>4, <1>5, TimeUpMaps DEF Next, BreakDeadlock, Rules!Next

LEMMA InitMaps == Init => Rules!Init
<1> SUFFICES ASSUME Init PROVE Rules!Init
  OBVIOUS
<1>1. \A d \in DuelIds : Ruled(d) = Rules!New("none", Nobody, Nobody)
  BY DEF Init, Ruled, Rules!New, Blank
<1> QED BY <1>1 DEF Init, Rules!Init, Matches

(* Copies, locks and transactions implement the rules: a duel whose        *)
(* requests do not meet is played by them, and one whose requests met pays *)
(* its players only, by the tariff, however often.                         *)
THEOREM RulesImplemented == Spec => ImplementsRules
<1>1. Init => PairInv
  BY DEF Init, PairInv, OneOpenPerPair, InsertsRaced, Open, Blank, Idle
<1>2. Spec => [](Typed /\ UnracedSound /\ PairInv /\ Fits)
  <2>1. Typed /\ UnracedSound /\ PairInv /\ Fits /\ [Next]_duelVars => PairInv' /\ Fits'
    BY PairStep, FitsStep
  <2> QED
    BY <1>1, <2>1, InitFits, AlwaysTyped, AlwaysSound, PTL DEF Spec
<1>3. Typed /\ UnracedSound /\ PairInv /\ Fits /\ [Next]_duelVars =>
        [Rules!Next]_(Rules!rulesVars)
  BY StepMaps DEF RuledState
<1> QED
  BY <1>2, <1>3, InitMaps, PTL DEF Spec, Rules!Spec, ImplementsRules
=============================================================================
