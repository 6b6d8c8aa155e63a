------------------------------ MODULE Limiter ------------------------------
(***************************************************************************)
(* The sliding-window limiters of the API: sign-ups and reset requests     *)
(* (api/auth.py), launches (api/routers/play.py).  Each keeps the times it *)
(* admitted something at, oldest first, in the memory of the process.      *)
(***************************************************************************)
EXTENDS Integers, Sequences, FiniteSets

CONSTANT MaxClock   \* bound: how long the clock runs

VARIABLE clock      \* time.time(), in units of the model

ASSUME LimiterAssumption == MaxClock \in Nat

Tick == clock < MaxClock /\ clock' = clock + 1

(* What a call keeps of the times: those younger than the window, which    *)
(* are the last ones, for time goes on.                                    *)
Outdated(times, width) == {i \in DOMAIN times : times[i] <= clock - width}
Recent(times, width) ==
  SubSeq(times, Cardinality(Outdated(times, width)) + 1, Len(times))

(* Mutant: one more than the limit.                                        *)
OneTooMany(times, limit, width) == Len(Recent(times, width)) <= limit

Admits(times, limit, width) == Len(Recent(times, width)) < limit

(* The times left behind by a call that admits, or refuses.                *)
Called(times, limit, width) ==
  IF Admits(times, limit, width) THEN Append(Recent(times, width), clock)
  ELSE Recent(times, width)

(* No stretch of time of the window's width saw more than the limit: `all' *)
(* holds the times of all admissions ever.                                 *)
WithinLimit(all, limit, width) ==
  \A i, j \in DOMAIN all : (i <= j /\ all[j] < all[i] + width) => j - i < limit
=============================================================================
