------------------------------ MODULE Progress ------------------------------
(***************************************************************************)
(* XP, streaks, tallies and badges (core/progression.py), and the row of   *)
(* user_progress that the requests of api/routers/progress.py, and the     *)
(* awards of the arena, read, change in memory and write back.  Time       *)
(* stamps and the activity log, which nothing reads back, are left out.    *)
(***************************************************************************)
EXTENDS Integers, FiniteSets
LOCAL INSTANCE FiniteSetsExt

CONSTANTS
  Users,           \* the accounts
  Learners,        \* those that use the progress API
  Txs,             \* requests that may hold a database session at a time
  Posted,          \* the actions the clients post, out of XPDeltas
  Catalogue,       \* the lessons of each family
  PlatformBadges,  \* the badges _platform_stats() merits
  MaxEvents        \* bound: how many actions a user is given

ASSUME ProgressAssumption ==
  /\ Learners \subseteq Users
  /\ MaxEvents \in Nat
  /\ PlatformBadges \subseteq {"critical-catcher", "globalist"}

VARIABLES
  progress,  \* the committed rows
  tx,        \* the requests under way
  given,     \* history: the actions committed to each user
  raced      \* history: the users two of whose requests overlapped

progressVars == <<progress, tx, given, raced>>

--------------------------------------------------------------------------
XPDeltas == [lesson_complete |-> 15, correct_label |-> 10, wrong_label |-> -2,
             canary_found |-> 5, block |-> 3, duel_played |-> 10, duel_win |-> 25]

(* counts: a tally for each action, and lessonsDoneIds.                    *)
NoCounts == [tally |-> [a \in DOMAIN XPDeltas |-> 0], lessons |-> {}]

NoRow == [exists |-> FALSE, xp |-> 0, streak |-> 0, best |-> 0,
          counts |-> NoCounts, badges |-> {}]
FreshRow == [NoRow EXCEPT !.exists = TRUE]

Larger(m, n) == IF m > n THEN m ELSE n

(* Mutant: the label that ends a streak counts.                            *)
BestWithLast(p, streak) == Larger(p.best, p.streak + 1)
BestOf(p, streak) == Larger(p.best, streak)

(* apply_event().  A lesson done again pays its XP again.                  *)
Applied(p, action, lesson) ==
  LET streak == CASE action = "correct_label" -> p.streak + 1
                  [] action = "wrong_label" -> 0
                  [] OTHER -> p.streak
  IN IF action \notin DOMAIN XPDeltas THEN p
     ELSE [p EXCEPT !.xp = Larger(0, @ + XPDeltas[action]),
                    !.streak = streak,
                    !.best = BestOf(p, streak),
                    !.counts.tally[action] = @ + 1,
                    !.counts.lessons = @ \cup lesson]

(* BADGES, by what each asks for.                                          *)
XPBadges == [newcomer |-> 0, firstXP |-> 1, apprentice |-> 50, veteran |-> 250,
             honeymaster |-> 1000]
StreakBadges == [onStreak |-> 3, sharpshooter |-> 10]
TallyBadges == [firstBlock |-> <<"block", 1>>, wallBuilder |-> <<"block", 10>>,
                flagHunter |-> <<"canary_found", 1>>, duelist |-> <<"duel_played", 1>>,
                champion |-> <<"duel_win", 5>>]
FamilyBadges == [scholar |-> "attack", detective |-> "defend"]

(* The lessons of a family are all done, if there are any.                 *)
AllDone(p, lessons, family) ==
  lessons[family] # {} /\ lessons[family] \subseteq p.counts.lessons

Merited(p, stats, lessons) ==
  {b \in DOMAIN XPBadges : p.xp >= XPBadges[b]}
  \cup {b \in DOMAIN StreakBadges : p.best >= StreakBadges[b]}
  \cup {b \in DOMAIN TallyBadges : p.counts.tally[TallyBadges[b][1]] >= TallyBadges[b][2]}
  \cup (IF p.counts.lessons # {} THEN {"student"} ELSE {})
  \cup {b \in DOMAIN FamilyBadges : AllDone(p, lessons, FamilyBadges[b])}
  \cup stats

(* Mutant: the badges are worked out anew each time.                       *)
Reevaluated(p, stats, lessons) == [p EXCEPT !.badges = Merited(p, stats, lessons)]

(* evaluate_badges(): what was earned stays, whatever the XP does.         *)
WithBadges(p, stats, lessons) ==
  [p EXCEPT !.badges = @ \cup Merited(p, stats, lessons)]

--------------------------------------------------------------------------
ProgressInit ==
  /\ progress = [u \in Users |-> NoRow]
  /\ tx = {}
  /\ given = [u \in Users |-> [a \in DOMAIN XPDeltas |-> 0]]
  /\ raced = {}

OfUser(u) == {x \in tx : x.user = u}

GivenTo(u) == MapThenSumSet(LAMBDA a : given[u][a], DOMAIN XPDeltas)

(* The SELECT of _get_or_create() and of _award(), and the change of the   *)
(* copy.  `stats' and `lessons' are what the badges are judged by: the     *)
(* award of a duel or of the arena knows neither.                          *)
Begin(t, u, action, lesson, stats, lessons) ==
  /\ \A x \in tx : x.id # t
  /\ Cardinality(OfUser(u)) + GivenTo(u) < MaxEvents
  /\ LET row == progress[u]
         read == IF row.exists THEN row ELSE FreshRow
         changed == Applied(read, action, lesson)
     IN tx' = tx \cup {[id |-> t, user |-> u, action |-> action,
                        at |-> IF row.exists THEN "save" ELSE "insert",
                        loaded |-> read, inserted |-> FALSE,
                        new |-> WithBadges(changed, stats, lessons)]}
  /\ raced' = IF OfUser(u) = {} THEN raced ELSE raced \cup {u}
  /\ UNCHANGED <<progress, given>>

RecordEvent(t, u) ==
  \E a \in Posted :
    IF a = "lesson_complete"
    THEN \E f \in DOMAIN Catalogue : \E l \in Catalogue[f] :
           Begin(t, u, a, {l}, PlatformBadges, Catalogue)
    ELSE Begin(t, u, a, {}, PlatformBadges, Catalogue)

GetProgress(t, u) == Begin(t, u, "look", {}, PlatformBadges, Catalogue)

NoStats == {}
NoLessons == [f \in DOMAIN Catalogue |-> {}]
Award(t, u, action) == Begin(t, u, action, {}, NoStats, NoLessons)

(* The INSERT of a user's first row waits for another that is not yet      *)
(* committed, and fails if that one commits: user_id is unique.            *)
InsertRow(x) ==
  /\ x.at = "insert"
  /\ \A y \in OfUser(x.user) : ~y.inserted
  /\ tx' = IF progress[x.user].exists THEN tx \ {x}
           ELSE (tx \ {x}) \cup {[x EXCEPT !.at = "save", !.inserted = TRUE]}
  /\ UNCHANGED <<progress, given, raced>>

(* An UPDATE names the columns that differ from the copy's as loaded.      *)
Column(loaded, new, current) == IF new = loaded THEN current ELSE new

(* The flush of _write_back() and the commit.                              *)
Save(x) ==
  /\ x.at = "save"
  /\ progress' = [progress EXCEPT ![x.user] =
       [exists |-> TRUE,
        xp |-> Column(x.loaded.xp, x.new.xp, @.xp),
        streak |-> Column(x.loaded.streak, x.new.streak, @.streak),
        best |-> Column(x.loaded.best, x.new.best, @.best),
        counts |-> Column(x.loaded.counts, x.new.counts, @.counts),
        badges |-> Column(x.loaded.badges, x.new.badges, @.badges)]]
  /\ given' = IF x.action \in DOMAIN XPDeltas
              THEN [given EXCEPT ![x.user][x.action] = @ + 1] ELSE given
  /\ tx' = tx \ {x}
  /\ UNCHANGED raced

(* A request fails, and its transaction is rolled back.                    *)
Abandon(x) ==
  /\ tx' = tx \ {x}
  /\ UNCHANGED <<progress, given, raced>>

RequestStep == \E x \in tx : InsertRow(x) \/ Save(x) \/ Abandon(x)

ProgressNext ==
  \/ \E t \in Txs, u \in Learners : RecordEvent(t, u) \/ GetProgress(t, u)
  \/ RequestStep

--------------------------------------------------------------------------
(* What the actions committed to u may at most have paid.                  *)
PaidFor(u) ==
  15 * given[u]["lesson_complete"] + 10 * given[u]["correct_label"]
  + 5 * given[u]["canary_found"] + 3 * given[u]["block"]
  + 10 * given[u]["duel_played"] + 25 * given[u]["duel_win"]

(* However the requests of a user overlap, and whichever columns of a row  *)
(* each of them writes, the row never tells of more than was committed:    *)
(* lost updates only take away.  (Of wrong labels, too, which cost XP.)    *)
NothingMadeUp ==
  \A u \in Users :
    /\ progress[u].xp <= PaidFor(u)
    /\ progress[u].best <= given[u]["correct_label"]
    /\ \A a \in DOMAIN XPDeltas : progress[u].counts.tally[a] <= given[u][a]

(* As long as no two requests of a user overlap, no step takes a badge, a  *)
(* lesson, a tally or a best streak from his row, whatever happens to his  *)
(* XP and his streak.                                                      *)
OnlyRacesTakeAway ==
  [][\A u \in Users : u \notin raced' =>
       /\ progress[u].badges \subseteq progress'[u].badges
       /\ progress[u].counts.lessons \subseteq progress'[u].counts.lessons
       /\ progress[u].best <= progress'[u].best
       /\ \A a \in DOMAIN XPDeltas :
            progress[u].counts.tally[a] <= progress'[u].counts.tally[a]]_progressVars
=============================================================================
