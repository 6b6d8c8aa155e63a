-------------------------------- MODULE Play --------------------------------
(***************************************************************************)
(* The task table of api/routers/play.py and the two caps on launches.     *)
(* The handlers do not await between a check and what follows from it, so  *)
(* each is one step.  What a task runs is Campaigns' matter.               *)
(***************************************************************************)
EXTENDS Limiter, FiniteSets

CONSTANTS
  MaxConcurrent,             \* MAX_CONCURRENT
  LaunchLimit, LaunchWindow, \* MAX_PER_WINDOW, WINDOW_SECONDS
  TaskTTL,                   \* _TASK_TTL_SECONDS
  MaxLaunches                \* bound: how many launches are asked for

ASSUME PlayAssumption ==
  /\ MaxConcurrent \in Nat /\ TaskTTL \in Nat /\ MaxLaunches \in Nat
  /\ LaunchLimit \in Nat /\ LaunchWindow \in Nat

VARIABLES
  tasks,      \* _TASKS
  launches,   \* _launch_times
  asked,      \* launches asked for so far
  launchedAt  \* history: the times launches were admitted at

playVars == <<tasks, launches, asked, launchedAt>>

PlayInit ==
  /\ tasks = {}
  /\ launches = <<>>
  /\ asked = 0
  /\ launchedAt = <<>>

(* _gc_old_tasks()                                                         *)
Old(t) == t.status # "running" /\ clock - t.finished > TaskTTL
Collected == {t \in tasks : ~Old(t)}

RunningTasks == {t \in tasks : t.status = "running"}

(* launch_attack(), launch_campaign(): collection, the concurrency cap,    *)
(* the rate cap, and only then a look at whether there is such an entry.   *)
LaunchTask(known) ==
  /\ asked < MaxLaunches
  /\ asked' = asked + 1
  /\ LET full == Cardinality(RunningTasks) >= MaxConcurrent
         admits == ~full /\ Admits(launches, LaunchLimit, LaunchWindow)
     IN /\ launches' = IF full THEN launches
                       ELSE Called(launches, LaunchLimit, LaunchWindow)
        /\ launchedAt' = IF admits THEN Append(launchedAt, clock) ELSE launchedAt
        /\ tasks' = IF admits /\ known
                    THEN Collected \cup
                           {[id |-> asked, status |-> "running", finished |-> 0]}
                    ELSE Collected

(* _run_task()                                                             *)
TaskEnds(t) ==
  /\ t.status = "running"
  /\ \E result \in {"done", "failed"} :
       tasks' = (tasks \ {t}) \cup {[t EXCEPT !.status = result, !.finished = clock]}
  /\ UNCHANGED <<launches, asked, launchedAt>>

ListTasks ==
  /\ tasks' = Collected
  /\ UNCHANGED <<launches, asked, launchedAt>>

PlayRestarts ==
  /\ tasks' = {} /\ launches' = <<>> /\ launchedAt' = <<>>
  /\ UNCHANGED asked

PlayStep ==
  \/ \E known \in BOOLEAN : LaunchTask(known)
  \/ \E t \in tasks : TaskEnds(t)
  \/ ListTasks
  \/ PlayRestarts

PlayTick == Tick /\ UNCHANGED playVars

=============================================================================
