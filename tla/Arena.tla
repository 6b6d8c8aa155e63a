------------------------------- MODULE Arena -------------------------------
(***************************************************************************)
(* The PvP window of api/routers/arena.py: state of the one API process,   *)
(* changed by handlers that run to their first await without interruption. *)
(* Only label() awaits before it is done: the award of a correct label,    *)
(* one of the requests of Progress.  The attack a wave launches is a best  *)
(* effort of the play API's dispatcher and left out.                       *)
(***************************************************************************)
EXTENDS Progress, Sequences

CONSTANTS
  MaxWaves,    \* MAX_WAVES
  MaxWindows   \* bound: how many windows are opened

ASSUME ArenaAssumption == MaxWaves \in Nat /\ MaxWindows \in Nat

VARIABLES
  window,   \* _arena without its waves: open, whether ends_at has passed
  waves,    \* the waves of the window
  scores,   \* the points of the users who have any
  windows,  \* windows opened so far
  caught    \* history: waves each user blocked, over all windows

arenaVars == <<window, waves, scores, windows, caught>>

WavePoints == 10

ArenaInit ==
  /\ window = [open |-> FALSE, due |-> FALSE]
  /\ waves = <<>>
  /\ scores = [u \in Users |-> 0]
  /\ windows = 0
  /\ caught = [u \in Users |-> 0]

--------------------------------------------------------------------------
(* Mutant: every wave of the window pays its firer.                        *)
AllOf(ws) == DOMAIN ws
Unresolved(ws) == {i \in DOMAIN ws : ws[i].fate = "pending"}

(* _close(): an unblocked wave scores for who fired it.                    *)
Closed(ws) == [i \in DOMAIN ws |-> IF i \in Unresolved(ws)
                                   THEN [ws[i] EXCEPT !.fate = "timed_out"] ELSE ws[i]]
ClosedScores(ws) ==
  [u \in Users |-> scores[u] +
     WavePoints * Cardinality({i \in Unresolved(ws) : ws[i].by = u})]

Close ==
  IF window.open
  THEN /\ window' = [window EXCEPT !.open = FALSE]
       /\ waves' = Closed(waves)
       /\ scores' = ClosedScores(waves)
  ELSE UNCHANGED <<window, waves, scores>>

(* _is_open() closes a window whose time is over.                          *)
IsOpen == window.open /\ ~window.due
CloseIfOver == IF window.open /\ window.due THEN Close
               ELSE UNCHANGED <<window, waves, scores>>

GetState == CloseIfOver /\ UNCHANGED <<windows, caught, progressVars>>

(* An admin opens a window, whatever became of the last one, or closes it. *)
OpenWindow ==
  /\ windows < MaxWindows
  /\ windows' = windows + 1
  /\ window' = [open |-> TRUE, due |-> FALSE]
  /\ waves' = <<>>
  /\ scores' = [u \in Users |-> 0]
  /\ UNCHANGED <<caught, progressVars>>

CloseWindow == Close /\ UNCHANGED <<windows, caught, progressVars>>

WindowEnds ==
  /\ window.open /\ ~window.due
  /\ window' = [window EXCEPT !.due = TRUE]
  /\ UNCHANGED <<waves, scores, windows, caught, progressVars>>

Fire(u) ==
  /\ IF IsOpen /\ Len(waves) < MaxWaves
     THEN /\ waves' = Append(waves, [by |-> u, fate |-> "pending", blockedBy |-> {}])
          /\ UNCHANGED <<window, scores>>
     ELSE CloseIfOver
  /\ UNCHANGED <<windows, caught, progressVars>>

Labelable(i, u) == waves[i].fate = "pending" /\ waves[i].by # u

(* A correct label is decided at once and awarded afterwards.              *)
LabelCorrectly(t, u, i) ==
  /\ IsOpen /\ Labelable(i, u)
  /\ waves' = [waves EXCEPT ![i].fate = "blocked",
                            ![i].blockedBy = @ \cup {u}]
  /\ scores' = [scores EXCEPT ![u] = @ + WavePoints]
  /\ caught' = [caught EXCEPT ![u] = @ + 1]
  /\ Award(t, u, "correct_label")
  /\ UNCHANGED <<window, windows>>

(* Any other label changes nothing, but may end a window that is over.     *)
LabelInVain == CloseIfOver /\ UNCHANGED <<windows, caught, progressVars>>

ArenaNext ==
  \/ GetState \/ OpenWindow \/ CloseWindow \/ WindowEnds \/ LabelInVain
  \/ \E u \in Users : Fire(u)
  \/ \E t \in Txs, u \in Users : \E i \in DOMAIN waves : LabelCorrectly(t, u, i)
  \/ RequestStep /\ UNCHANGED arenaVars

--------------------------------------------------------------------------
(* The scoreboard is what the waves say: ten points for each, once, to who *)
(* blocked it or to who fired it and nobody blocked it in time; a window   *)
(* that is closed has no wave left to decide.                              *)
ScoreboardAgrees ==
  /\ \A u \in Users :
       scores[u] = WavePoints * Cardinality(
         {i \in DOMAIN waves : \/ u \in waves[i].blockedBy
                               \/ waves[i].fate = "timed_out" /\ waves[i].by = u})
  /\ \A i \in DOMAIN waves : Cardinality(waves[i].blockedBy) =
                              (IF waves[i].fate = "blocked" THEN 1 ELSE 0)
  /\ ~window.open => Unresolved(waves) = {}

=============================================================================
