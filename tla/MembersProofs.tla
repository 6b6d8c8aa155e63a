---------------------------- MODULE MembersProofs ----------------------------
(***************************************************************************)
(* What holds of the members' XP and of the arena, for any number of       *)
(* users, requests, waves and windows: a row never tells of more than was  *)
(* committed, only overlapping requests take anything from it, and the     *)
(* scoreboard is what the waves say.                                       *)
(***************************************************************************)
EXTENDS Platform, FiniteSetTheorems, TLAPS

--------------------------------------------------------------------------
(* The rows of user_progress *)

Lessons == UNION {Catalogue[f] : f \in DOMAIN Catalogue}

Tallies == [DOMAIN XPDeltas -> Nat]

AllBadges == DOMAIN XPBadges \cup DOMAIN StreakBadges \cup DOMAIN TallyBadges
             \cup {"student"} \cup DOMAIN FamilyBadges \cup PlatformBadges

ProgressRow ==
  [exists : BOOLEAN, xp : Nat, streak : Nat, best : Nat,
   counts : [tally : Tallies, lessons : SUBSET Lessons], badges : SUBSET AllBadges]

(* What the clients post, what the arena awards, and a look.               *)
ActionNames == Posted \cup {"correct_label", "look"}

ProgressRequest ==
  [id : Txs, user : Users, action : ActionNames, at : {"insert", "save"},
   loaded : ProgressRow, inserted : BOOLEAN, new : ProgressRow]

ProgressTypes ==
  /\ progress \in [Users -> ProgressRow]
  /\ tx \in SUBSET ProgressRequest
  /\ given \in [Users -> Tallies]
  /\ raced \in SUBSET Users

(* What the actions of g may at most have paid.                            *)
PaidBy(g) ==
  15 * g["lesson_complete"] + 10 * g["correct_label"] + 5 * g["canary_found"]
  + 3 * g["block"] + 10 * g["duel_played"] + 25 * g["duel_win"]

(* The row p tells of no more than the actions of g.                       *)
Within(p, g) ==
  /\ p.xp <= PaidBy(g)
  /\ p.streak <= g["correct_label"]
  /\ p.best <= g["correct_label"]
  /\ \A a \in DOMAIN XPDeltas : p.counts.tally[a] <= g[a]

(* Row q has all that row p has, but for XP and streak.                    *)
Keeps(p, q) ==
  /\ p.badges \subseteq q.badges
  /\ p.counts.lessons \subseteq q.counts.lessons
  /\ p.best <= q.best
  /\ \A a \in DOMAIN XPDeltas : p.counts.tally[a] <= q.counts.tally[a]

(* The actions of g and one more.                                          *)
Plus(g, action) == IF action \in DOMAIN XPDeltas THEN [g EXCEPT ![action] = @ + 1] ELSE g

LEMMA XPDomain ==
  DOMAIN XPDeltas = {"lesson_complete", "correct_label", "wrong_label", "canary_found",
                     "block", "duel_played", "duel_win"}
  BY DEF XPDeltas

(* The row a request starts from.                                          *)
LEMMA FreshRows ==
  /\ NoRow \in ProgressRow /\ FreshRow \in ProgressRow
  /\ Keeps(NoRow, FreshRow) /\ Keeps(FreshRow, FreshRow)
  /\ \A g \in Tallies : Within(NoRow, g) /\ Within(FreshRow, g)
<1>1. /\ NoCounts.tally \in Tallies
      /\ \A a \in DOMAIN XPDeltas : NoCounts.tally[a] = 0
      /\ NoCounts.lessons = {}
      /\ NoCounts \in [tally : Tallies, lessons : SUBSET Lessons]
  BY DEF NoCounts, Tallies
<1>2. ASSUME NEW g \in Tallies
      PROVE  PaidBy(g) \in Nat /\ \A a \in DOMAIN XPDeltas : g[a] \in Nat
  BY XPDomain DEF PaidBy, Tallies
<1>5. /\ NoRow \in ProgressRow /\ NoRow.xp = 0 /\ NoRow.streak = 0 /\ NoRow.best = 0
      /\ NoRow.counts = NoCounts /\ NoRow.badges = {}
  BY <1>1 DEF NoRow, ProgressRow
<1>6. /\ FreshRow \in ProgressRow /\ FreshRow.xp = 0 /\ FreshRow.streak = 0
      /\ FreshRow.best = 0 /\ FreshRow.counts = NoCounts /\ FreshRow.badges = {}
  BY <1>5 DEF FreshRow, ProgressRow
<1>3. /\ NoRow \in ProgressRow /\ FreshRow \in ProgressRow
      /\ \A p \in {NoRow, FreshRow} : /\ p.xp = 0 /\ p.streak = 0 /\ p.best = 0
                                      /\ p.counts = NoCounts /\ p.badges = {}
  BY <1>5, <1>6
<1>4. ASSUME NEW g \in Tallies, NEW p \in {NoRow, FreshRow}
      PROVE  Within(p, g)
  BY <1>1, <1>2, <1>3, <1>4, XPDomain DEF Within
<1> QED
  BY <1>1, <1>3, <1>4 DEF Keeps

(* A tally, one higher or not.                                             *)
LEMMA PlusMore ==
  ASSUME NEW g \in Tallies, NEW action
  PROVE  /\ Plus(g, action) \in Tallies
         /\ \A p \in ProgressRow : Within(p, g) => Within(p, Plus(g, action))
<1>1. Plus(g, action) \in Tallies /\ \A a \in DOMAIN XPDeltas : g[a] <= Plus(g, action)[a]
  BY DEF Plus, Tallies
<1>2. PaidBy(g) <= PaidBy(Plus(g, action)) /\ PaidBy(g) \in Nat
      /\ PaidBy(Plus(g, action)) \in Nat
  BY <1>1, XPDomain DEF PaidBy, Tallies
<1> HIDE DEF PaidBy, Plus
<1>3. ASSUME NEW p \in ProgressRow, Within(p, g)
      PROVE  Within(p, Plus(g, action))
  <2>1. /\ p.xp \in Nat /\ p.streak \in Nat /\ p.best \in Nat
        /\ p.counts.tally \in Tallies
    BY DEF ProgressRow
  <2> QED
    BY <1>1, <1>2, <1>3, <2>1, XPDomain DEF Within, Tallies
<1> QED BY <1>1, <1>3

(* apply_event() gives no more than the action, and takes only XP and      *)
(* streak.                                                                 *)
LEMMA AppliedRow ==
  ASSUME NEW p \in ProgressRow, NEW action, NEW lesson \in SUBSET Lessons
  PROVE  /\ Applied(p, action, lesson) \in ProgressRow
         /\ Keeps(p, Applied(p, action, lesson))
         /\ \A g \in Tallies :
              Within(p, g) => Within(Applied(p, action, lesson), Plus(g, action))
<1>0. /\ p.xp \in Nat /\ p.streak \in Nat /\ p.best \in Nat
      /\ p.counts \in [tally : Tallies, lessons : SUBSET Lessons]
      /\ p.counts.tally \in Tallies /\ p.counts.lessons \in SUBSET Lessons
      /\ p.badges \in SUBSET AllBadges
  BY DEF ProgressRow
<1>1. CASE action \notin DOMAIN XPDeltas
  <2>1. Applied(p, action, lesson) = p
    BY <1>1 DEF Applied
  <2>2. \A g \in Tallies : Plus(g, action) = g
    BY <1>1 DEF Plus
  <2> QED BY <1>0, <2>1, <2>2 DEF Keeps, Tallies
<1>2. CASE action \in DOMAIN XPDeltas
  <2> DEFINE streak == CASE action = "correct_label" -> p.streak + 1
                         [] action = "wrong_label" -> 0
                         [] OTHER -> p.streak
             q == Applied(p, action, lesson)
             best == BestOf(p, streak)
             counts == [p.counts EXCEPT !.tally[action] = @ + 1, !.lessons = @ \cup lesson]
             xp == Larger(0, p.xp + XPDeltas[action])
  <2>1. q = [p EXCEPT !.xp = xp, !.streak = streak, !.best = best,
                      !.counts = counts]
    BY ZenonT(40), <1>2 DEF Applied, ProgressRow
  <2>2. /\ streak \in Nat /\ best \in Nat /\ p.best <= best
        /\ best \in {p.best, streak}
        /\ streak <= p.streak + (IF action = "correct_label" THEN 1 ELSE 0)
    BY <1>0 DEF BestOf, Larger
  <2>3. xp \in Nat /\ xp \in {0, p.xp + XPDeltas[action]}
    BY <1>0, <1>2 DEF XPDeltas, Larger
  <2>4. /\ counts \in [tally : Tallies, lessons : SUBSET Lessons]
        /\ counts.tally = [p.counts.tally EXCEPT ![action] = @ + 1]
        /\ counts.lessons = p.counts.lessons \cup lesson
    <3>1. [p.counts.tally EXCEPT ![action] = @ + 1] \in Tallies
      BY <1>0, <1>2 DEF Tallies
    <3>2. counts = [p.counts EXCEPT
                      !.tally = [p.counts.tally EXCEPT ![action] = @ + 1],
                      !.lessons = p.counts.lessons \cup lesson]
      BY <1>0
    <3> QED BY <1>0, <3>1, <3>2
  <2> HIDE DEF counts, xp, best, streak
  <2>5. /\ q \in ProgressRow /\ q.xp = xp /\ q.streak = streak /\ q.best = best
        /\ q.counts = counts /\ q.badges = p.badges
    BY <2>1, <2>2, <2>3, <2>4 DEF ProgressRow
  <2> HIDE DEF q
  <2>6. Keeps(p, q)
    BY <1>0, <1>2, <2>2, <2>4, <2>5 DEF Keeps, Tallies
  <2>7. ASSUME NEW g \in Tallies, Within(p, g)
        PROVE  Within(q, Plus(g, action))
    <3>1. /\ Plus(g, action) = [g EXCEPT ![action] = @ + 1]
          /\ \A a \in DOMAIN XPDeltas : g[a] \in Nat
      BY <1>2 DEF Plus, Tallies
    <3>2. xp <= PaidBy(Plus(g, action))
      BY <1>0, <1>2, <2>3, <2>7, <3>1, XPDomain DEF Within, PaidBy, XPDeltas, Tallies
    <3>3. streak <= Plus(g, action)["correct_label"]
      BY <1>0, <1>2, <2>2, <2>7, <3>1, XPDomain DEF Within, Tallies
    <3>4. p.best <= Plus(g, action)["correct_label"]
      BY <1>0, <1>2, <2>7, <3>1, XPDomain DEF Within, Tallies
    <3>5. best <= Plus(g, action)["correct_label"]
      BY <2>2, <3>3, <3>4
    <3>6. \A a \in DOMAIN XPDeltas : counts.tally[a] <= Plus(g, action)[a]
      BY <1>0, <1>2, <2>4, <2>7, <3>1 DEF Within, Tallies
    <3> QED BY <2>5, <3>2, <3>3, <3>5, <3>6 DEF Within
  <2> QED BY <2>5, <2>6, <2>7 DEF q
<1> QED BY <1>1, <1>2

(* evaluate_badges() adds badges and changes nothing else.                 *)
LEMMA BadgedRow ==
  ASSUME NEW p \in ProgressRow, NEW stats \in SUBSET PlatformBadges, NEW lessons
  PROVE  LET q == WithBadges(p, stats, lessons)
         IN /\ q \in ProgressRow
            /\ \A o \in ProgressRow : Keeps(o, p) => Keeps(o, q)
            /\ \A g \in Tallies : Within(p, g) => Within(q, g)
<1>1. Merited(p, stats, lessons) \in SUBSET AllBadges
  BY DEF Merited, AllBadges
<1> DEFINE m == Merited(p, stats, lessons)
<1> HIDE DEF m
<1>2. WithBadges(p, stats, lessons) = [p EXCEPT !.badges = @ \cup m]
  BY DEF WithBadges, m
<1>3. m \in SUBSET AllBadges
  BY <1>1 DEF m
<1> QED
  BY <1>2, <1>3 DEF Keeps, Within, ProgressRow

--------------------------------------------------------------------------
(* The requests *)

(* A request's copy is bounded by what it will have been given; where no   *)
(* two requests of a user overlapped it is the row, changed.               *)
CopiesWithin ==
  /\ \A u \in Users : Within(progress[u], given[u])
  /\ \A x \in tx : /\ Within(x.loaded, given[x.user])
                  /\ Within(x.new, Plus(given[x.user], x.action))

AsRead(u) == IF progress[u].exists THEN progress[u] ELSE FreshRow

CopiesCurrent ==
  /\ \A x, y \in tx : x.user = y.user /\ x.user \notin raced => x = y
  /\ \A x \in tx : x.user \notin raced =>
                    x.loaded = AsRead(x.user) /\ Keeps(x.loaded, x.new)
  /\ \A u \in Users : ~progress[u].exists => progress[u] = NoRow

ProgressInv == ProgressTypes /\ CopiesWithin /\ CopiesCurrent

(* What the arena and the progress API do to these rows.                   *)
Begins(t, u, action, lesson) ==
  \E stats \in SUBSET PlatformBadges, lessons \in {Catalogue, NoLessons} :
    Begin(t, u, action, lesson, stats, lessons)

ProgressMoves ==
  \/ \E t \in Txs, u \in Users, action \in ActionNames, lesson \in SUBSET Lessons :
       Begins(t, u, action, lesson)
  \/ \E x \in tx : InsertRow(x) \/ Save(x) \/ Abandon(x)
  \/ UNCHANGED progressVars

LEMMA NextMoves ==
  ASSUME [Next]_platformVars
  PROVE  ProgressMoves
<1>1. ASSUME NEW t \in Txs, NEW u \in Users, Award(t, u, "correct_label")
      PROVE  ProgressMoves
  <2>1. NoStats \in SUBSET PlatformBadges /\ {} \in SUBSET Lessons
        /\ "correct_label" \in ActionNames
    BY DEF NoStats, ActionNames
  <2>2. Begins(t, u, "correct_label", {})
    BY <1>1, <2>1 DEF Award, Begins
  <2> QED BY <2>1, <2>2 DEF ProgressMoves
<1>2. ASSUME NEW t \in Txs, NEW u \in Learners, RecordEvent(t, u) \/ GetProgress(t, u)
      PROVE  ProgressMoves
  <2>1. u \in Users /\ PlatformBadges \in SUBSET PlatformBadges
    BY ProgressAssumption
  <2>2. CASE GetProgress(t, u)
    <3>1. Begins(t, u, "look", {}) /\ {} \in SUBSET Lessons /\ "look" \in ActionNames
      BY <2>1, <2>2 DEF GetProgress, Begins, ActionNames
    <3> QED BY <2>1, <3>1 DEF ProgressMoves
  <2>3. CASE RecordEvent(t, u)
    <3>1. PICK a \in Posted, lesson \in SUBSET Lessons : Begins(t, u, a, lesson)
      <4>1. PICK a \in Posted :
              IF a = "lesson_complete"
              THEN \E f \in DOMAIN Catalogue : \E l \in Catalogue[f] :
                     Begin(t, u, a, {l}, PlatformBadges, Catalogue)
              ELSE Begin(t, u, a, {}, PlatformBadges, Catalogue)
        BY <2>3 DEF RecordEvent
      <4>2. CASE a = "lesson_complete"
        <5>1. PICK f \in DOMAIN Catalogue : \E k \in Catalogue[f] :
                Begin(t, u, a, {k}, PlatformBadges, Catalogue)
          BY <4>1, <4>2
        <5>0. PICK l \in Catalogue[f] : Begin(t, u, a, {l}, PlatformBadges, Catalogue)
          BY <5>1
        <5>2. {l} \in SUBSET Lessons
          BY DEF Lessons
        <5>3. Begins(t, u, a, {l})
          BY <2>1, <5>0 DEF Begins
        <5> QED BY <5>2, <5>3
      <4>3. CASE a # "lesson_complete"
        <5>1. Begins(t, u, a, {}) /\ {} \in SUBSET Lessons
          BY <2>1, <4>1, <4>3 DEF Begins
        <5> QED BY <5>1
      <4> QED BY <4>2, <4>3
    <3>2. a \in ActionNames
      BY DEF ActionNames
    <3> QED BY <2>1, <3>1, <3>2 DEF ProgressMoves
  <2> QED BY <1>2, <2>2, <2>3
<1>3. CASE RequestStep
  BY <1>3 DEF RequestStep, ProgressMoves
<1>4. CASE ArenaNext
  BY <1>1, <1>3, <1>4 DEF ArenaNext, GetState, OpenWindow, CloseWindow, WindowEnds,
     LabelInVain, Fire, LabelCorrectly, ProgressMoves
<1>5. CASE ProgressNext
  BY <1>2, <1>3, <1>5 DEF ProgressNext
<1>6. CASE UNCHANGED progressVars
  BY <1>6 DEF ProgressMoves
<1>7. ArenaNext \/ ProgressNext \/ UNCHANGED progressVars
  BY DEF Next, platformVars, apiVars, ApiStep, SensorStep, Members, UserAccounts,
     TaskTable, LobbyMatches, Feed
<1> QED BY <1>4, <1>5, <1>6, <1>7

LEMMA ProgressStart == Init => ProgressInv
<1> SUFFICES ASSUME ProgressInit PROVE ProgressInv
  BY DEF Init
<1>1. \A u \in Users : given[u] \in Tallies
  BY DEF ProgressInit, Tallies
<1>2. ProgressTypes
  BY <1>1, FreshRows DEF ProgressInit, ProgressTypes
<1>3. CopiesWithin /\ CopiesCurrent
  BY <1>1, FreshRows DEF ProgressInit, CopiesWithin, CopiesCurrent
<1> QED BY <1>2, <1>3 DEF ProgressInv

(* A request begins: its copy is the row, changed by the one action.       *)
LEMMA BeginKeeps ==
  ASSUME ProgressInv, NEW t \in Txs, NEW u \in Users, NEW action \in ActionNames,
         NEW lesson \in SUBSET Lessons, Begins(t, u, action, lesson)
  PROVE  ProgressInv'
<1> USE DEF ProgressInv
<1>1. PICK stats \in SUBSET PlatformBadges, lessons \in {Catalogue, NoLessons} :
        Begin(t, u, action, lesson, stats, lessons)
  BY DEF Begins
<1> DEFINE changed == Applied(AsRead(u), action, lesson)
           new == WithBadges(changed, stats, lessons)
           x == [id |-> t, user |-> u, action |-> action,
                 at |-> IF progress[u].exists THEN "save" ELSE "insert",
                 loaded |-> AsRead(u), inserted |-> FALSE, new |-> new]
<1>2. /\ tx' = tx \cup {x}
      /\ raced' = IF OfUser(u) = {} THEN raced ELSE raced \cup {u}
      /\ UNCHANGED <<progress, given>>
  BY <1>1 DEF Begin, AsRead
<1>3. AsRead(u) \in ProgressRow /\ Within(AsRead(u), given[u])
  BY FreshRows DEF AsRead, ProgressTypes, CopiesWithin
<1>4. Keeps(AsRead(u), AsRead(u))
  BY <1>3 DEF Keeps, ProgressRow, Tallies
<1>5. /\ changed \in ProgressRow /\ Keeps(AsRead(u), changed)
      /\ Within(changed, Plus(given[u], action))
  BY <1>3, AppliedRow DEF ProgressTypes
<1>6. Plus(given[u], action) \in Tallies
  BY PlusMore DEF ProgressTypes
<1> HIDE DEF changed
<1>7. /\ new \in ProgressRow /\ Keeps(AsRead(u), new)
      /\ Within(new, Plus(given[u], action))
  BY <1>3, <1>5, <1>6, BadgedRow
<1> HIDE DEF new
<1>8. /\ x \in ProgressRequest /\ x.user = u /\ x.action = action
      /\ x.loaded = AsRead(u) /\ x.new = new
  BY <1>3, <1>7 DEF ProgressRequest
<1> HIDE DEF x
<1>9. ProgressTypes'
  BY <1>2, <1>8 DEF ProgressTypes
<1>10. CopiesWithin'
  BY <1>2, <1>3, <1>7, <1>8 DEF CopiesWithin
<1>11. CopiesCurrent'
  <2>1. \A v \in Users : AsRead(v)' = AsRead(v)
    BY <1>2 DEF AsRead
  <2>2. ASSUME NEW y \in tx', NEW z \in tx', y.user = z.user, y.user \notin raced'
        PROVE  y = z
    <3>1. y.user \notin raced
      BY <1>2, <2>2
    <3>2. CASE y \in tx /\ z \in tx
      BY <2>2, <3>1, <3>2 DEF CopiesCurrent
    <3>3. CASE y.user = u /\ (y \in tx \/ z \in tx)
      BY <1>2, <2>2, <3>3 DEF OfUser
    <3> QED BY <1>2, <1>8, <2>2, <3>2, <3>3
  <2>3. \A y \in tx' : y.user \notin raced' =>
                      y.loaded = AsRead(y.user) /\ Keeps(y.loaded, y.new)
    BY <1>2, <1>7, <1>8 DEF CopiesCurrent
  <2>4. \A y \in tx' : y.user \in Users
    BY <1>9 DEF ProgressTypes, ProgressRequest
  <2> QED BY <1>2, <2>1, <2>2, <2>3, <2>4 DEF CopiesCurrent
<1> QED BY <1>9, <1>10, <1>11

(* A request ends without a commit, or goes on to its flush.               *)
LEMMA EndKeeps ==
  ASSUME ProgressInv, NEW x \in tx, InsertRow(x) \/ Abandon(x)
  PROVE  ProgressInv'
<1> USE DEF ProgressInv
<1>1. x \in ProgressRequest
  BY DEF ProgressTypes
<1> DEFINE y == [x EXCEPT !.at = "save", !.inserted = TRUE]
<1>2. /\ y \in ProgressRequest /\ y.user = x.user /\ y.action = x.action
      /\ y.loaded = x.loaded /\ y.new = x.new
  BY <1>1 DEF ProgressRequest
<1>3. tx' = tx \ {x} \/ tx' = (tx \ {x}) \cup {y}
  BY DEF InsertRow, Abandon
<1>4. UNCHANGED <<progress, given, raced>>
  BY DEF InsertRow, Abandon
<1> HIDE DEF y
<1>5. ProgressTypes'
  BY <1>2, <1>3, <1>4 DEF ProgressTypes
<1>6. CopiesWithin'
  BY <1>2, <1>3, <1>4 DEF CopiesWithin
<1>7. CopiesCurrent'
  BY <1>2, <1>3, <1>4 DEF CopiesCurrent, AsRead
<1> QED BY <1>5, <1>6, <1>7

(* The flush: each column is the request's or stays.                       *)
LEMMA SaveKeeps ==
  ASSUME ProgressInv, NEW x \in tx, Save(x)
  PROVE  /\ ProgressInv'
         /\ \A u \in Users : u \notin raced' => Keeps(progress[u], progress'[u])
<1> USE DEF ProgressInv
<1> DEFINE u == x.user
           old == progress[u]
           row == [exists |-> TRUE,
                   xp |-> Column(x.loaded.xp, x.new.xp, old.xp),
                   streak |-> Column(x.loaded.streak, x.new.streak, old.streak),
                   best |-> Column(x.loaded.best, x.new.best, old.best),
                   counts |-> Column(x.loaded.counts, x.new.counts, old.counts),
                   badges |-> Column(x.loaded.badges, x.new.badges, old.badges)]
<1>1. /\ x \in ProgressRequest /\ u \in Users /\ old \in ProgressRow
      /\ x.loaded \in ProgressRow /\ x.new \in ProgressRow /\ given[u] \in Tallies
  BY DEF ProgressTypes, ProgressRequest
<1>2. /\ progress' = [progress EXCEPT ![u] = row]
      /\ given' = [given EXCEPT ![u] = Plus(given[u], x.action)]
      /\ tx' = tx \ {x} /\ raced' = raced
  BY <1>1 DEF Save, Plus, ProgressTypes
<1>3. /\ row.xp \in {old.xp, x.new.xp} /\ row.streak \in {old.streak, x.new.streak}
      /\ row.best \in {old.best, x.new.best} /\ row.counts \in {old.counts, x.new.counts}
      /\ row.badges \in {old.badges, x.new.badges} /\ row.exists
      /\ row \in ProgressRow
  BY <1>1 DEF Column, ProgressRow
<1>4. u \notin raced => Keeps(old, row)
  <2> SUFFICES ASSUME u \notin raced PROVE Keeps(old, row)
    OBVIOUS
  <2>1. x.loaded = AsRead(u) /\ Keeps(x.loaded, x.new)
    BY DEF CopiesCurrent
  <2>2. Keeps(old, AsRead(u))
    <3>1. CASE old.exists
      BY <1>1, <3>1 DEF AsRead, Keeps, ProgressRow, Tallies
    <3>2. CASE ~old.exists
      BY <1>1, <3>2, FreshRows DEF AsRead, CopiesCurrent
    <3> QED BY <3>1, <3>2
  <2>3. /\ old.best \in Nat /\ x.loaded.best \in Nat /\ x.new.best \in Nat
        /\ \A a \in DOMAIN XPDeltas :
             old.counts.tally[a] \in Nat /\ x.loaded.counts.tally[a] \in Nat
             /\ x.new.counts.tally[a] \in Nat
    BY <1>1 DEF ProgressRow, Tallies
  <2>4. Keeps(old, x.new)
    BY <2>1, <2>2, <2>3 DEF Keeps
  <2> HIDE DEF row
  <2> QED BY <1>3, <2>3, <2>4 DEF Keeps
<1> HIDE DEF row
<1>5. Plus(given[u], x.action) \in Tallies /\ given' \in [Users -> Tallies]
  BY <1>1, <1>2, PlusMore DEF ProgressTypes
<1>6. ProgressTypes'
  BY <1>1, <1>2, <1>3, <1>5 DEF ProgressTypes
<1>7. CopiesWithin'
  <2>1. Within(old, Plus(given[u], x.action)) /\ Within(x.new, Plus(given[u], x.action))
    BY <1>1, PlusMore DEF CopiesWithin
  <2>2. Within(row, Plus(given[u], x.action))
    BY <1>3, <2>1 DEF Within
  <2>3. \A v \in Users : Within(progress'[v], given'[v])
    BY <1>1, <1>2, <2>2 DEF CopiesWithin, ProgressTypes
  <2>4. ASSUME NEW y \in tx
        PROVE  Within(y.loaded, given'[y.user]) /\ Within(y.new, Plus(given'[y.user], y.action))
    <3>1. /\ y.user \in Users /\ y.loaded \in ProgressRow /\ y.new \in ProgressRow
          /\ Within(y.loaded, given[y.user])
          /\ Within(y.new, Plus(given[y.user], y.action))
      BY DEF ProgressTypes, ProgressRequest, CopiesWithin
    <3>2. CASE y.user # u
      BY <1>2, <3>1, <3>2 DEF ProgressTypes
    <3>3. CASE y.user = u
      <4> DEFINE g == Plus(given[u], x.action)
      <4>1. given'[y.user] = g /\ g \in Tallies
        BY <1>1, <1>2, <1>5, <3>3 DEF ProgressTypes
      <4>2. Within(y.loaded, g)
        BY <1>1, <3>1, <3>3, PlusMore
      <4>3. Plus(g, y.action) = Plus(Plus(given[u], y.action), x.action)
        BY <1>1 DEF Plus, Tallies
      <4>4. Plus(given[u], y.action) \in Tallies
        BY <1>1, PlusMore
      <4>5. Within(y.new, Plus(Plus(given[u], y.action), x.action))
        BY <3>1, <3>3, <4>4, PlusMore
      <4> QED BY <4>1, <4>2, <4>3, <4>5
    <3> QED BY <3>2, <3>3
  <2> QED BY <1>2, <2>3, <2>4 DEF CopiesWithin
<1>8. CopiesCurrent'
  <2>1. \A v \in Users \ {u} : AsRead(v)' = AsRead(v)
    BY <1>2 DEF AsRead, ProgressTypes
  <2>2. \A y \in tx' : y.user \in Users /\ (y.user \notin raced => y.user # u)
    BY <1>2 DEF CopiesCurrent, ProgressTypes, ProgressRequest
  <2>3. \A v \in Users : ~progress'[v].exists => progress'[v] = NoRow
    BY <1>2, <1>3 DEF CopiesCurrent, ProgressTypes
  <2> QED BY <1>2, <2>1, <2>2, <2>3 DEF CopiesCurrent
<1>9. ASSUME NEW v \in Users, v \notin raced'
      PROVE  Keeps(progress[v], progress'[v])
  <2>1. CASE v = u
    BY <1>1, <1>2, <1>4, <1>9, <2>1 DEF ProgressTypes
  <2>2. CASE v # u
    BY <1>2, <2>2 DEF ProgressTypes, ProgressRow, Tallies, Keeps
  <2> QED BY <2>1, <2>2
<1> QED BY <1>6, <1>7, <1>8, <1>9

(* A row that is left alone keeps what it has.                             *)
LEMMA KeepsItself ==
  ASSUME NEW p \in ProgressRow
  PROVE  Keeps(p, p)
<1>1. p.best \in Nat /\ p.counts.tally \in [DOMAIN XPDeltas -> Nat]
  BY DEF ProgressRow, Tallies
<1> QED BY <1>1 DEF Keeps

LEMMA ProgressKept ==
  ASSUME ProgressInv, ProgressMoves
  PROVE  /\ ProgressInv'
         /\ \A u \in Users : u \notin raced' => Keeps(progress[u], progress'[u])
<1>0. \A u \in Users : progress[u] \in ProgressRow
  BY DEF ProgressInv, ProgressTypes
<1>1. CASE \E t \in Txs, u \in Users, action \in ActionNames, lesson \in SUBSET Lessons :
             Begins(t, u, action, lesson)
  <2>1. ProgressInv' /\ UNCHANGED progress
    BY ZenonT(40), <1>1, BeginKeeps DEF Begins, Begin
  <2> QED BY <1>0, <2>1, KeepsItself
<1>2. CASE \E x \in tx : InsertRow(x) \/ Abandon(x)
  <2>1. ProgressInv' /\ UNCHANGED progress
    BY <1>2, EndKeeps DEF InsertRow, Abandon
  <2> QED BY <1>0, <2>1, KeepsItself
<1>3. CASE \E x \in tx : Save(x)
  BY <1>3, SaveKeeps
<1>4. CASE UNCHANGED progressVars
  <2>1. ProgressInv' /\ UNCHANGED progress
    BY <1>4 DEF progressVars, ProgressInv, ProgressTypes, CopiesWithin, CopiesCurrent, AsRead
  <2> QED BY <1>0, <2>1, KeepsItself
<1> QED BY <1>1, <1>2, <1>3, <1>4 DEF ProgressMoves

THEOREM ProgressCorrect == Spec => []ProgressInv
<1>1. ProgressInv /\ [Next]_platformVars => ProgressInv'
  BY NextMoves, ProgressKept
<1> QED BY <1>1, ProgressStart, PTL DEF Spec

(* Lost updates only take away: a row never tells of more than was         *)
(* committed to its user.                                                  *)
THEOREM NothingInvented == Spec => []NothingMadeUp
<1>1. ProgressInv => NothingMadeUp
  BY DEF ProgressInv, CopiesWithin, Within, PaidBy, NothingMadeUp, PaidFor
<1> QED BY <1>1, ProgressCorrect, PTL

(* Only overlapping requests of a user take a badge, a lesson, a tally or  *)
(* a best streak from his row.                                             *)
THEOREM NothingLost == Spec => OnlyRacesTakeAway
<1> DEFINE Kept == \A u \in Users : u \notin raced' =>
       /\ progress[u].badges \subseteq progress'[u].badges
       /\ progress[u].counts.lessons \subseteq progress'[u].counts.lessons
       /\ progress[u].best <= progress'[u].best
       /\ \A a \in DOMAIN XPDeltas :
            progress[u].counts.tally[a] <= progress'[u].counts.tally[a]
<1>1. ProgressInv /\ [Next]_platformVars => [Kept]_progressVars
  BY NextMoves, ProgressKept DEF Keeps
<1> HIDE DEF Kept
<1>2. Spec => [][Kept]_progressVars
  BY <1>1, ProgressCorrect, PTL DEF Spec
<1> QED BY <1>2 DEF OnlyRacesTakeAway, Kept

--------------------------------------------------------------------------
(* The scoreboard *)

ArenaWave == [by : Users, fate : {"pending", "blocked", "timed_out"},
              blockedBy : SUBSET Users]

(* Whose wave i of ws pays.                                                *)
PaysFor(ws, i, u) == \/ u \in ws[i].blockedBy
                     \/ ws[i].fate = "timed_out" /\ ws[i].by = u
PayingTo(ws, u) == {i \in DOMAIN ws : PaysFor(ws, i, u)}

ArenaInv ==
  /\ window \in [open : BOOLEAN, due : BOOLEAN]
  /\ waves \in Seq(ArenaWave)
  /\ scores \in [Users -> Nat]
  /\ \A i \in DOMAIN waves :
       IF waves[i].fate = "blocked" THEN \E u \in Users : waves[i].blockedBy = {u}
       ELSE waves[i].blockedBy = {}
  /\ \A u \in Users : scores[u] = WavePoints * Cardinality(PayingTo(waves, u))
  /\ ~window.open => Unresolved(waves) = {}

(* A set of waves is finite.                                               *)
LEMMA WaveCount ==
  ASSUME NEW ws \in Seq(ArenaWave), NEW S \in SUBSET DOMAIN ws
  PROVE  IsFiniteSet(S) /\ Cardinality(S) \in Nat
<1>1. IsFiniteSet(1..Len(ws)) /\ DOMAIN ws = 1..Len(ws)
  BY FS_Interval
<1> QED BY <1>1, FS_Subset, FS_CardinalityType

LEMMA ArenaStart == Init => ArenaInv
<1> SUFFICES ASSUME ArenaInit PROVE ArenaInv
  BY DEF Init
<1>1. waves = <<>> /\ DOMAIN waves = {}
  BY DEF ArenaInit
<1>2. \A u \in Users : Cardinality(PayingTo(waves, u)) = 0
  BY <1>1, FS_EmptySet DEF PayingTo
<1> QED BY <1>1, <1>2 DEF ArenaInit, ArenaInv, WavePoints, Unresolved

LEMMA CloseScores ==
  ASSUME ArenaInv, Close
  PROVE  ArenaInv'
<1> USE DEF ArenaInv
<1>1. CASE ~window.open
  BY <1>1 DEF Close, Unresolved, PayingTo, PaysFor
<1>2. CASE window.open
  <2> DEFINE ws == Closed(waves)
  <2>1. /\ window' = [window EXCEPT !.open = FALSE]
        /\ waves' = ws /\ scores' = ClosedScores(waves)
    BY <1>2 DEF Close
  <2>2. /\ DOMAIN ws = DOMAIN waves
        /\ \A i \in DOMAIN waves :
             ws[i] = IF waves[i].fate = "pending" THEN [waves[i] EXCEPT !.fate = "timed_out"]
                     ELSE waves[i]
    BY DEF Closed, Unresolved
  <2>3. \A i \in DOMAIN waves : waves[i] \in ArenaWave
    OBVIOUS
  <2>4. \A i \in DOMAIN waves :
          /\ ws[i] \in ArenaWave /\ ws[i].by = waves[i].by
          /\ ws[i].blockedBy = waves[i].blockedBy
          /\ ws[i].fate = IF waves[i].fate = "pending" THEN "timed_out" ELSE waves[i].fate
    BY SMTT(20), <2>2, <2>3 DEF ArenaWave
  <2>5. ws \in Seq(ArenaWave)
    <3>1. DOMAIN ws = 1..Len(waves) /\ Len(waves) \in Nat
      BY <2>2
    <3>2. ws = [i \in 1..Len(waves) |-> ws[i]]
      BY <3>1 DEF Closed
    <3> HIDE DEF ws
    <3> QED BY <2>2, <2>4, <3>1, <3>2
  <2> HIDE DEF ws
  <2>6. ASSUME NEW u \in Users
        PROVE  scores'[u] = WavePoints * Cardinality(PayingTo(ws, u))
    <3> DEFINE A == PayingTo(waves, u)
               B == {i \in Unresolved(waves) : waves[i].by = u}
    <3>1. PayingTo(ws, u) = A \cup B /\ A \cap B = {}
      BY <2>2, <2>4 DEF PayingTo, PaysFor, Unresolved
    <3>2. A \in SUBSET DOMAIN waves /\ B \in SUBSET DOMAIN waves
      BY DEF PayingTo, Unresolved
    <3>3. /\ IsFiniteSet(A) /\ IsFiniteSet(B)
          /\ Cardinality(A) \in Nat /\ Cardinality(B) \in Nat
      BY <3>2, WaveCount
    <3>4. Cardinality(A \cup B) = Cardinality(A) + Cardinality(B)
      <4>1. Cardinality(A \cap B) = 0
        BY <3>1, FS_EmptySet
      <4>2. Cardinality(A \cup B) = Cardinality(A) + Cardinality(B) - Cardinality(A \cap B)
        BY <3>3, FS_Union
      <4> HIDE DEF A, B
      <4> QED BY <3>3, <4>1, <4>2
    <3>5. scores'[u] = scores[u] + WavePoints * Cardinality(B)
      BY <2>1 DEF ClosedScores
    <3> QED BY <3>1, <3>3, <3>4, <3>5 DEF WavePoints
  <2>7. scores' \in [Users -> Nat]
    <3>1. \A u \in Users : PayingTo(ws, u) \in SUBSET DOMAIN ws
      BY DEF PayingTo
    <3>2. \A u \in Users : scores'[u] \in Nat
      BY SMTT(20), <2>5, <2>6, <3>1, WaveCount DEF WavePoints
    <3>3. scores' = [u \in Users |-> scores'[u]]
      BY <2>1 DEF ClosedScores
    <3> QED BY <3>2, <3>3
  <2>8. Unresolved(ws) = {}
    BY <2>2, <2>4 DEF Unresolved
  <2>9. \A i \in DOMAIN ws :
          IF ws[i].fate = "blocked" THEN \E u \in Users : ws[i].blockedBy = {u}
          ELSE ws[i].blockedBy = {}
    <3> SUFFICES ASSUME NEW i \in DOMAIN waves
                 PROVE  IF ws[i].fate = "blocked" THEN \E u \in Users : ws[i].blockedBy = {u}
                        ELSE ws[i].blockedBy = {}
      BY <2>2
    <3>1. (ws[i].fate = "blocked") <=> (waves[i].fate = "blocked")
      BY <2>4
    <3> QED BY <2>4, <3>1
  <2> QED BY <2>1, <2>5, <2>6, <2>7, <2>8, <2>9
<1> QED BY <1>1, <1>2

LEMMA FireScores ==
  ASSUME ArenaInv, NEW u \in Users, IsOpen, UNCHANGED <<window, scores>>,
         waves' = Append(waves, [by |-> u, fate |-> "pending", blockedBy |-> {}])
  PROVE  ArenaInv'
<1> USE DEF ArenaInv
<1> DEFINE w == [by |-> u, fate |-> "pending", blockedBy |-> {}]
<1>1. w \in ArenaWave /\ w.fate = "pending" /\ w.blockedBy = {}
  BY DEF ArenaWave
<1> HIDE DEF w
<1>2. /\ waves' \in Seq(ArenaWave) /\ DOMAIN waves' = DOMAIN waves \cup {Len(waves) + 1}
      /\ Len(waves) + 1 \notin DOMAIN waves
      /\ \A i \in DOMAIN waves : waves'[i] = waves[i]
      /\ waves'[Len(waves) + 1] = w
  BY <1>1 DEF w
<1>3. \A v \in Users : PayingTo(waves', v) = PayingTo(waves, v)
  BY <1>1, <1>2 DEF PayingTo, PaysFor
<1>4. \A i \in DOMAIN waves' :
        IF waves'[i].fate = "blocked" THEN \E v \in Users : waves'[i].blockedBy = {v}
        ELSE waves'[i].blockedBy = {}
  BY <1>1, <1>2
<1>5. window.open
  BY DEF IsOpen
<1> QED BY <1>2, <1>3, <1>4, <1>5

LEMMA LabelScores ==
  ASSUME ArenaInv, NEW t, NEW u \in Users, NEW i \in DOMAIN waves,
         LabelCorrectly(t, u, i)
  PROVE  ArenaInv'
<1> USE DEF ArenaInv
<1>1. /\ waves[i] \in ArenaWave /\ waves[i].fate = "pending" /\ waves[i].blockedBy = {}
      /\ window.open /\ UNCHANGED window
  BY DEF LabelCorrectly, Labelable, IsOpen
<1> DEFINE w == [waves[i] EXCEPT !.fate = "blocked", !.blockedBy = @ \cup {u}]
<1>2. /\ waves' = [waves EXCEPT ![i] = w]
      /\ scores' = [scores EXCEPT ![u] = @ + WavePoints]
  BY DEF LabelCorrectly
<1>3. /\ w \in ArenaWave /\ w.fate = "blocked" /\ w.blockedBy = {u}
  BY <1>1 DEF ArenaWave
<1> HIDE DEF w
<1>4. waves' \in Seq(ArenaWave) /\ DOMAIN waves' = DOMAIN waves
  BY <1>2, <1>3
<1>5. PayingTo(waves', u) = PayingTo(waves, u) \cup {i} /\ i \notin PayingTo(waves, u)
  BY <1>1, <1>2, <1>3, <1>4 DEF PayingTo, PaysFor
<1>6. \A v \in Users \ {u} : PayingTo(waves', v) = PayingTo(waves, v)
  BY <1>1, <1>2, <1>3, <1>4 DEF PayingTo, PaysFor
<1>7. Cardinality(PayingTo(waves', u)) = Cardinality(PayingTo(waves, u)) + 1
      /\ Cardinality(PayingTo(waves, u)) \in Nat
  <2>1. PayingTo(waves, u) \in SUBSET DOMAIN waves
    BY DEF PayingTo
  <2>2. IsFiniteSet(PayingTo(waves, u)) /\ Cardinality(PayingTo(waves, u)) \in Nat
    BY <2>1, WaveCount
  <2> QED BY <1>5, <2>2, FS_AddElement
<1>8. ASSUME NEW v \in Users
      PROVE  scores'[v] = WavePoints * Cardinality(PayingTo(waves', v))
  <2>1. CASE v = u
    BY <1>2, <1>7, <2>1 DEF WavePoints
  <2>2. CASE v # u
    BY <1>2, <1>6, <2>2
  <2> QED BY <2>1, <2>2
<1>9. scores' \in [Users -> Nat]
  BY <1>2 DEF WavePoints
<1>10. \A j \in DOMAIN waves' :
         IF waves'[j].fate = "blocked" THEN \E v \in Users : waves'[j].blockedBy = {v}
         ELSE waves'[j].blockedBy = {}
  BY <1>2, <1>3, <1>4
<1> QED BY <1>1, <1>4, <1>8, <1>9, <1>10

LEMMA ArenaFrame ==
  ASSUME ArenaInv, UNCHANGED <<window, waves, scores>>
  PROVE  ArenaInv'
  BY DEF ArenaInv, Unresolved, PayingTo, PaysFor

LEMMA ArenaStep ==
  ASSUME ArenaInv, [Next]_platformVars
  PROVE  ArenaInv'
<1>1. CASE CloseIfOver
  BY <1>1, CloseScores, ArenaFrame DEF CloseIfOver
<1>2. CASE OpenWindow
  <2>1. waves' = <<>> /\ DOMAIN waves' = {}
    BY <1>2 DEF OpenWindow
  <2>2. \A u \in Users : Cardinality(PayingTo(waves', u)) = 0
    BY <2>1, FS_EmptySet DEF PayingTo
  <2> QED BY <1>2, <2>1, <2>2 DEF OpenWindow, ArenaInv, WavePoints, Unresolved
<1>3. CASE WindowEnds
  BY <1>3 DEF WindowEnds, ArenaInv, Unresolved, PayingTo, PaysFor
<1>4. ASSUME NEW u \in Users, Fire(u)
      PROVE  ArenaInv'
  BY <1>1, <1>4, FireScores DEF Fire
<1>5. CASE ArenaNext
  BY <1>1, <1>2, <1>3, <1>4, <1>5, CloseScores, LabelScores, ArenaFrame
     DEF ArenaNext, GetState, CloseWindow, LabelInVain, RequestStep, arenaVars
<1>6. ArenaNext \/ UNCHANGED arenaVars
  BY DEF Next, platformVars, apiVars, ApiStep, SensorStep, Members, UserAccounts,
     TaskTable, LobbyMatches, Feed
<1> QED BY <1>5, <1>6, ArenaFrame DEF arenaVars

(* Ten points for each wave, once, to who blocked it or whose it was.      *)
THEOREM ScoresAreWaves == Spec => []ScoreboardAgrees
<1>1. ArenaInv => ScoreboardAgrees
  <2> SUFFICES ASSUME ArenaInv PROVE ScoreboardAgrees
    OBVIOUS
  <2>1. \A i \in DOMAIN waves : Cardinality(waves[i].blockedBy) =
                              (IF waves[i].fate = "blocked" THEN 1 ELSE 0)
    <3> SUFFICES ASSUME NEW i \in DOMAIN waves
                 PROVE  Cardinality(waves[i].blockedBy) =
                          (IF waves[i].fate = "blocked" THEN 1 ELSE 0)
      OBVIOUS
    <3>1. CASE waves[i].fate = "blocked"
      <4>1. PICK u \in Users : waves[i].blockedBy = {u}
        BY <3>1 DEF ArenaInv
      <4>2. Cardinality({u}) = 1
        BY FS_Singleton
      <4> QED BY <3>1, <4>1, <4>2
    <3>2. CASE waves[i].fate # "blocked"
      BY <3>2, FS_EmptySet DEF ArenaInv
    <3> QED BY <3>1, <3>2
  <2> QED BY <2>1 DEF ArenaInv, ScoreboardAgrees, PayingTo, PaysFor
<1> QED BY <1>1, ArenaStart, ArenaStep, PTL DEF Spec
=============================================================================
