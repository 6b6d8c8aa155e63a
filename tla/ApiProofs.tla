------------------------------ MODULE ApiProofs ------------------------------
(***************************************************************************)
(* What holds of the API's accounts, limiters and tasks, of the lobby and  *)
(* of the live feed, for any number of requests, accounts, launches,       *)
(* invites and clients.                                                    *)
(***************************************************************************)
EXTENDS Platform, FiniteSetTheorems, SequenceTheorems, TLAPS

--------------------------------------------------------------------------
(* The sliding windows *)

(* `all' are the times of all admissions, of which the limiter has kept    *)
(* the last; those it has dropped have left the window.                    *)
Limiting(times, all, limit, width) ==
  /\ times \in Seq(Nat) /\ all \in Seq(Nat)
  /\ Len(times) <= Len(all)
  /\ \A i \in 1..Len(times) : times[i] = all[Len(all) - Len(times) + i]
  /\ \A i \in 1..Len(all) : all[i] <= clock
  /\ \A i \in 1..(Len(all) - Len(times)) : all[i] <= clock - width
  /\ \A i, j \in 1..Len(all) : i <= j => all[i] <= all[j]
  /\ \A i, j \in 1..Len(all) : (i <= j /\ all[j] < all[i] + width) => j - i < limit

(* What is dropped is a prefix.                                            *)
LEMMA OutdatedPrefix ==
  ASSUME clock \in Nat, NEW times, NEW all, NEW limit \in Nat, NEW width \in Nat,
         Limiting(times, all, limit, width)
  PROVE  LET n == Cardinality(Outdated(times, width))
         IN n \in 0..Len(times) /\ Outdated(times, width) = 1..n
<1> DEFINE S == Outdated(times, width)
<1>1. /\ times \in Seq(Nat) /\ DOMAIN times = 1..Len(times) /\ Len(times) \in Nat
      /\ S \in SUBSET (1..Len(times))
  BY DEF Limiting, Outdated
<1>2. ASSUME NEW i \in 1..Len(times), NEW j \in S, i <= j
      PROVE  i \in S
  <2> DEFINE k == Len(all) - Len(times)
  <2>1. Len(all) \in Nat /\ k \in Nat /\ j \in 1..Len(times)
    BY <1>1 DEF Limiting
  <2>2. k + i \in 1..Len(all) /\ k + j \in 1..Len(all) /\ k + i <= k + j
    BY <1>1, <1>2, <2>1
  <2>3. all[k + i] <= all[k + j] /\ times[i] = all[k + i] /\ times[j] = all[k + j]
    BY <1>1, <2>1, <2>2 DEF Limiting
  <2>4. times[i] \in Nat /\ times[j] \in Nat /\ times[j] <= clock - width
    BY <1>1, <2>1 DEF Outdated
  <2> QED BY SMTT(20), <1>1, <2>3, <2>4 DEF Outdated
<1>3. ASSUME NEW n \in Nat
      PROVE  IsFiniteSet(1..n) /\ Cardinality(1..n) = n
  BY FS_Interval
<1>4. IsFiniteSet(S) /\ Cardinality(S) \in Nat /\ Cardinality(S) <= Len(times)
  BY <1>1, <1>3, FS_Subset, FS_CardinalityType
<1> HIDE DEF S
<1>5. ASSUME NEW i \in S
      PROVE  i <= Cardinality(S)
  <2>1. i \in Nat /\ 1..i \subseteq S
    BY <1>1, <1>2
  <2> QED BY <1>3, <1>4, <2>1, FS_Subset
<1>6. ASSUME NEW i \in 1..Cardinality(S), i \notin S
      PROVE  FALSE
  <2>1. i - 1 \in Nat /\ S \subseteq 1..(i - 1)
    BY SMTT(20), <1>1, <1>2, <1>4, <1>6
  <2>2. IsFiniteSet(1..(i - 1)) /\ Cardinality(1..(i - 1)) = i - 1
    BY <1>3, <2>1
  <2>3. Cardinality(S) <= Cardinality(1..(i - 1))
    BY <2>1, <2>2, FS_Subset
  <2> QED BY <1>4, <2>1, <2>2, <2>3
<1>7. S \subseteq 1..Cardinality(S)
  BY <1>1, <1>4, <1>5
<1>8. 1..Cardinality(S) \subseteq S
  BY <1>6
<1>9. Cardinality(S) \in 0..Len(times)
  BY <1>1, <1>4
<1> QED BY <1>7, <1>8, <1>9 DEF S

(* An admission is the newest, and one of fewer than the limit.            *)
LEMMA AdmitKeeps ==
  ASSUME clock \in Nat, NEW times, NEW all, NEW limit \in Nat, NEW width \in Nat,
         Limiting(times, all, limit, width), Len(times) < limit
  PROVE  Limiting(Append(times, clock), Append(all, clock), limit, width)
<1> DEFINE ts == Append(times, clock)
           as == Append(all, clock)
           m == Len(times)
           n == Len(all)
<1>1. times \in Seq(Nat) /\ all \in Seq(Nat)
  BY DEF Limiting
<1>2. m \in Nat /\ n \in Nat /\ m <= n /\ m < limit
  BY DEF Limiting
<1>3. /\ ts \in Seq(Nat) /\ Len(ts) = m + 1 /\ ts[m + 1] = clock
      /\ \A i \in 1..m : ts[i] = times[i]
  BY <1>1, AppendProperties
<1>4. /\ as \in Seq(Nat) /\ Len(as) = n + 1 /\ as[n + 1] = clock
      /\ \A i \in 1..n : as[i] = all[i]
  BY <1>1, AppendProperties
<1>5. /\ \A i \in 1..m : times[i] = all[n - m + i]
      /\ \A i \in 1..n : all[i] \in Nat /\ all[i] <= clock
      /\ \A i \in 1..(n - m) : all[i] <= clock - width
      /\ \A i, j \in 1..n : i <= j => all[i] <= all[j]
      /\ \A i, j \in 1..n : (i <= j /\ all[j] < all[i] + width) => j - i < limit
  BY <1>1 DEF Limiting
<1> HIDE DEF ts, as, m, n
<1>6. ASSUME NEW i \in 1..(m + 1)
      PROVE  ts[i] = as[n - m + i]
  <2>1. CASE i = m + 1
    <3>1. n - m + i = n + 1
      BY <1>2, <2>1
    <3> QED BY <1>3, <1>4, <2>1, <3>1
  <2>2. CASE i # m + 1
    <3>1. i \in 1..m /\ n - m + i \in 1..n
      BY <1>2, <2>2
    <3>2. ts[i] = times[i] /\ as[n - m + i] = all[n - m + i]
      BY <1>3, <1>4, <3>1
    <3> QED BY <1>5, <3>1, <3>2
  <2> QED BY <2>1, <2>2
<1>7. ASSUME NEW i \in 1..(n + 1)
      PROVE  as[i] <= clock /\ as[i] \in Nat /\ (i \in 1..(n - m) => as[i] <= clock - width)
  <2>1. CASE i = n + 1
    <3>1. i \notin 1..(n - m)
      BY <1>2, <2>1
    <3>2. as[i] = clock
      BY <1>4, <2>1
    <3>3. clock <= clock /\ clock \in Nat
      OBVIOUS
    <3> QED BY <3>1, <3>2, <3>3
  <2>2. CASE i # n + 1
    <3>1. i \in 1..n
      BY <1>2, <2>2
    <3> QED BY <1>4, <1>5, <3>1
  <2> QED BY <2>1, <2>2
<1>8. ASSUME NEW i \in 1..(n + 1), NEW j \in 1..(n + 1), i <= j
      PROVE  /\ as[i] <= as[j]
             /\ as[j] < as[i] + width => j - i < limit
  <2>1. CASE j = n + 1
    <3>1. as[j] = clock /\ as[i] <= clock /\ as[i] \in Nat
      BY <1>4, <1>7, <2>1
    <3>2. i \in 1..(n - m) => as[i] <= clock - width
      BY <1>7
    <3>3. ASSUME clock < as[i] + width
          PROVE  i \notin 1..(n - m)
      <4> DEFINE x == as[i]
      <4>1. x \in Nat /\ clock < x + width
        BY <3>1, <3>3
      <4> HIDE DEF x
      <4>2. ~(x <= clock - width)
        BY <4>1
      <4> QED BY <3>2, <4>2 DEF x
    <3>4. i \notin 1..(n - m) => j - i < limit
      BY <1>2, <2>1
    <3> QED BY <3>1, <3>3, <3>4
  <2>2. CASE j # n + 1
    <3>1. i \in 1..n /\ j \in 1..n
      BY <1>2, <1>8, <2>2
    <3>2. as[i] = all[i] /\ as[j] = all[j]
      BY <1>4, <3>1
    <3> QED BY <1>5, <1>8, <3>1, <3>2
  <2> QED BY <2>1, <2>2
<1>9. Len(as) - Len(ts) = n - m /\ Len(ts) <= Len(as)
  BY <1>2, <1>3, <1>4
<1>10. Limiting(ts, as, limit, width)
  <2>1. \A i \in 1..Len(ts) : ts[i] = as[Len(as) - Len(ts) + i]
    BY <1>3, <1>6, <1>9
  <2>2. /\ \A i \in 1..Len(as) : as[i] <= clock
        /\ \A i, j \in 1..Len(as) : i <= j => as[i] <= as[j]
        /\ \A i, j \in 1..Len(as) : (i <= j /\ as[j] < as[i] + width) => j - i < limit
    BY <1>4, <1>7, <1>8
  <2>3. \A i \in 1..(Len(as) - Len(ts)) : as[i] <= clock - width
    <3>1. \A i \in 1..(n - m) : i \in 1..(n + 1)
      BY <1>2
    <3> QED BY <1>7, <1>9, <3>1
  <2> QED BY <1>3, <1>4, <1>9, <2>1, <2>2, <2>3 DEF Limiting
<1> QED BY <1>10 DEF ts, as

(* A call drops what has left the window and adds at most itself.          *)
LEMMA CalledKeeps ==
  ASSUME clock \in Nat, NEW times, NEW all, NEW limit \in Nat, NEW width \in Nat,
         Limiting(times, all, limit, width)
  PROVE  /\ Admits(times, limit, width) =>
              Limiting(Called(times, limit, width), Append(all, clock), limit, width)
         /\ ~Admits(times, limit, width) =>
              Limiting(Called(times, limit, width), all, limit, width)
<1> DEFINE n == Cardinality(Outdated(times, width))
           kept == Recent(times, width)
           k == Len(all) - Len(kept)
<1>0. times \in Seq(Nat) /\ all \in Seq(Nat)
  BY DEF Limiting
<1>s. n \in 0..Len(times) /\ Outdated(times, width) = 1..n
  BY OutdatedPrefix
<1> HIDE DEF n
<1>1. /\ Len(times) \in Nat /\ Len(all) \in Nat /\ Len(times) <= Len(all)
      /\ n \in Nat /\ n <= Len(times)
  <2>1. Len(times) \in Nat /\ Len(all) \in Nat /\ Len(times) <= Len(all)
    BY DEF Limiting
  <2>2. n \in 0..Len(times)
    BY <1>s
  <2> QED BY <2>1, <2>2
<1>2. /\ kept \in Seq(Nat) /\ Len(kept) = Len(times) - n
      /\ \A i \in 1..Len(kept) : kept[i] = times[n + i]
  <2>1. kept = SubSeq(times, n + 1, Len(times))
    BY DEF Recent, n
  <2> HIDE DEF kept
  <2>2. n + 1 \in Int /\ Len(times) \in Int /\ \A i \in (n + 1)..Len(times) : times[i] \in Nat
    BY <1>0, <1>1
  <2>3. /\ kept \in Seq(Nat)
        /\ Len(kept) = IF n + 1 <= Len(times) THEN Len(times) - (n + 1) + 1 ELSE 0
        /\ \A i \in 1..(Len(times) - (n + 1) + 1) : kept[i] = times[(n + 1) + i - 1]
    BY <2>1, <2>2, SubSeqProperties
  <2>4. Len(kept) = Len(times) - n /\ Len(times) - (n + 1) + 1 = Len(times) - n
    BY <1>1, <2>3
  <2>5. \A i \in Nat : (n + 1) + i - 1 = n + i
    BY <1>1
  <2> QED BY <1>1, <2>3, <2>4, <2>5
<1> HIDE DEF kept
<1>3. /\ Len(kept) \in Nat /\ Len(kept) <= Len(all) /\ k \in Nat
      /\ k = (Len(all) - Len(times)) + n
  <2>1. Len(kept) = Len(times) - n
    BY <1>2
  <2> QED BY <1>1, <2>1
<1>4. \A i \in 1..Len(kept) : kept[i] = all[k + i]
  <2> SUFFICES ASSUME NEW i \in 1..Len(kept) PROVE kept[i] = all[k + i]
    OBVIOUS
  <2>1. n + i \in 1..Len(times) /\ kept[i] = times[n + i]
    BY <1>1, <1>2, <1>3
  <2>2. times[n + i] = all[(Len(all) - Len(times)) + (n + i)]
    BY <2>1 DEF Limiting
  <2>3. (Len(all) - Len(times)) + (n + i) = k + i
    BY <1>1, <1>3
  <2> QED BY <2>1, <2>2, <2>3
<1>5. ASSUME NEW i \in 1..k
      PROVE  all[i] <= clock - width
  <2>1. CASE i <= Len(all) - Len(times)
    BY <1>1, <2>1 DEF Limiting
  <2>2. CASE i > Len(all) - Len(times)
    <3> DEFINE j == i - (Len(all) - Len(times))
    <3>1. j \in 1..n /\ j \in 1..Len(times)
      BY <1>1, <1>3, <1>5, <2>2
    <3>2. times[j] <= clock - width
      BY <1>s, <3>1 DEF Outdated
    <3>3. times[j] = all[(Len(all) - Len(times)) + j]
      BY <3>1 DEF Limiting
    <3>4. (Len(all) - Len(times)) + j = i
      BY <1>1
    <3> QED BY <3>2, <3>3, <3>4
  <2> QED BY <1>1, <1>3, <2>1, <2>2
<1>6. Limiting(kept, all, limit, width)
  BY <1>2, <1>3, <1>4, <1>5 DEF Limiting
<1>7. ASSUME Admits(times, limit, width)
      PROVE  Limiting(Append(kept, clock), Append(all, clock), limit, width)
  <2>1. Len(kept) < limit
    BY <1>7 DEF Admits, kept
  <2> QED BY <1>6, <2>1, AdmitKeeps
<1>8. Called(times, limit, width) =
        IF Admits(times, limit, width) THEN Append(kept, clock) ELSE kept
  BY DEF Called, kept
<1> QED BY <1>6, <1>7, <1>8

(* Time goes on, and nothing that has left the window comes back.          *)
LEMMA TickLimits ==
  ASSUME clock \in Nat, clock' = clock + 1, NEW times, NEW all, NEW limit, NEW width \in Nat,
         Limiting(times, all, limit, width)
  PROVE  /\ \A i \in 1..Len(all) : all[i] <= clock'
         /\ \A i \in 1..(Len(all) - Len(times)) : all[i] <= clock' - width
<1>1. /\ Len(times) \in Nat /\ Len(all) \in Nat
      /\ \A i \in 1..Len(all) : all[i] \in Nat /\ all[i] <= clock
      /\ \A i \in 1..(Len(all) - Len(times)) : all[i] <= clock - width
      /\ Len(times) <= Len(all)
  BY DEF Limiting
<1>2. ASSUME NEW i \in 1..Len(all)
      PROVE  all[i] <= clock'
  BY <1>1
<1>3. ASSUME NEW i \in 1..(Len(all) - Len(times))
      PROVE  all[i] <= clock' - width
  <2>1. i \in 1..Len(all)
    BY <1>1
  <2> QED BY <1>1, <2>1
<1> QED BY <1>2, <1>3

--------------------------------------------------------------------------
(* Launches and sign-ups are limited *)

Task == [id : Nat, status : {"running", "done", "failed"}, finished : Nat]

LimitsInv ==
  /\ clock \in Nat
  /\ Limiting(signUps, admitted, SignUpLimit, SignUpWindow)
  /\ Limiting(launches, launchedAt, LaunchLimit, LaunchWindow)
  /\ tasks \in SUBSET Task
  /\ asked \in Nat
  /\ IsFiniteSet(RunningTasks) /\ Cardinality(RunningTasks) <= MaxConcurrent

LEMMA NoTimes ==
  ASSUME NEW limit, NEW width
  PROVE  Limiting(<<>>, <<>>, limit, width)
<1>1. <<>> \in Seq(Nat) /\ Len(<<>>) = 0 /\ 1..0 = {} /\ 0 - 0 = 0
  OBVIOUS
<1> QED BY <1>1 DEF Limiting

LEMMA LimitsStart == Init => LimitsInv
<1> SUFFICES ASSUME Init PROVE LimitsInv
  OBVIOUS
<1>1. /\ clock = 0 /\ signUps = <<>> /\ admitted = <<>>
      /\ launches = <<>> /\ launchedAt = <<>> /\ tasks = {} /\ asked = 0
  BY DEF Init, AccountsInit, PlayInit
<1>2. RunningTasks = {}
  BY <1>1 DEF RunningTasks
<1>3. IsFiniteSet(RunningTasks) /\ Cardinality(RunningTasks) = 0
  BY <1>2, FS_EmptySet
<1> QED BY <1>1, <1>3, NoTimes, PlayAssumption DEF LimitsInv

LEMMA LimitsStep ==
  ASSUME LimitsInv, [Next]_platformVars
  PROVE  LimitsInv'
<1> USE DEF LimitsInv
<1>0. /\ SignUpLimit \in Nat /\ SignUpWindow \in Nat /\ LaunchLimit \in Nat
      /\ LaunchWindow \in Nat /\ MaxConcurrent \in Nat
  BY AccountsAssumption, PlayAssumption
<1>1. CASE UNCHANGED <<clock, signUps, admitted, playVars>>
  BY <1>1 DEF Limiting, playVars, RunningTasks
<1>2. CASE clock' = clock + 1 /\ UNCHANGED <<signUps, admitted, playVars>>
  <2>1. Limiting(signUps, admitted, SignUpLimit, SignUpWindow)'
    <3>1. /\ \A i \in 1..Len(admitted) : admitted[i] <= clock'
          /\ \A i \in 1..(Len(admitted) - Len(signUps)) :
               admitted[i] <= clock' - SignUpWindow
      BY <1>0, <1>2, TickLimits
    <3> QED BY <1>2, <3>1 DEF Limiting
  <2>2. Limiting(launches, launchedAt, LaunchLimit, LaunchWindow)'
    <3>1. /\ \A i \in 1..Len(launchedAt) : launchedAt[i] <= clock'
          /\ \A i \in 1..(Len(launchedAt) - Len(launches)) :
               launchedAt[i] <= clock' - LaunchWindow
      BY <1>0, <1>2, TickLimits
    <3> QED BY <1>2, <3>1 DEF Limiting, playVars
  <2> QED BY <1>2, <2>1, <2>2 DEF playVars, RunningTasks
<1>3. ASSUME UNCHANGED <<clock, playVars>>, NEW r \in requests, Admit(r)
      PROVE  LimitsInv'
  <2>1. CASE UNCHANGED <<signUps, admitted>>
    BY <1>1, <1>3, <2>1
  <2>2. CASE /\ signUps' = Called(signUps, SignUpLimit, SignUpWindow)
             /\ admitted' = IF Admits(signUps, SignUpLimit, SignUpWindow)
                            THEN Append(admitted, clock) ELSE admitted
    <3>1. Limiting(signUps', admitted', SignUpLimit, SignUpWindow)
      BY <1>0, <2>2, CalledKeeps
    <3>2. Limiting(signUps, admitted, SignUpLimit, SignUpWindow)'
      BY <1>3, <3>1 DEF Limiting
    <3>3. Limiting(launches, launchedAt, LaunchLimit, LaunchWindow)'
      BY <1>3 DEF Limiting, playVars
    <3> QED BY <1>3, <3>2, <3>3 DEF playVars, RunningTasks
  <2> QED BY <1>3, <2>1, <2>2 DEF Admit
<1>4. CASE /\ UNCHANGED <<clock, playVars>> /\ signUps' = <<>> /\ admitted' = <<>>
  BY <1>4, NoTimes DEF Limiting, playVars, RunningTasks
<1>5. ASSUME UNCHANGED <<clock, signUps, admitted>>, NEW known \in BOOLEAN, LaunchTask(known)
      PROVE  LimitsInv'
  <2> DEFINE full == Cardinality(RunningTasks) >= MaxConcurrent
             new == [id |-> asked, status |-> "running", finished |-> 0]
  <2>1. Limiting(launches', launchedAt', LaunchLimit, LaunchWindow)
    <3>1. CASE full
      BY <1>5, <3>1 DEF LaunchTask
    <3>2. CASE ~full
      <4>1. /\ launches' = Called(launches, LaunchLimit, LaunchWindow)
            /\ launchedAt' = IF Admits(launches, LaunchLimit, LaunchWindow)
                             THEN Append(launchedAt, clock) ELSE launchedAt
        BY <1>5, <3>2 DEF LaunchTask
      <4> QED BY <1>0, <4>1, CalledKeeps
    <3> QED BY <3>1, <3>2
  <2>2. Limiting(launches, launchedAt, LaunchLimit, LaunchWindow)'
    BY <1>5, <2>1 DEF Limiting
  <2>3. Limiting(signUps, admitted, SignUpLimit, SignUpWindow)'
    BY <1>5 DEF Limiting
  <2>4. new \in Task /\ asked' \in Nat
    BY <1>5 DEF Task, LaunchTask
  <2>5. tasks' \in {Collected, Collected \cup {new}} /\ (full => tasks' = Collected)
    BY <1>5 DEF LaunchTask
  <2>6. /\ tasks' \in SUBSET Task
        /\ RunningTasks' = RunningTasks \/ (~full /\ RunningTasks' = RunningTasks \cup {new})
    BY <2>4, <2>5 DEF RunningTasks, Collected, Old
  <2>7. IsFiniteSet(RunningTasks') /\ Cardinality(RunningTasks') <= MaxConcurrent
    <3>1. CASE RunningTasks' = RunningTasks
      BY <3>1
    <3>2. CASE ~full /\ RunningTasks' = RunningTasks \cup {new}
      <4>1. Cardinality(RunningTasks) \in Nat
        BY FS_CardinalityType
      <4>2. /\ IsFiniteSet(RunningTasks \cup {new})
            /\ Cardinality(RunningTasks \cup {new})
                 \in {Cardinality(RunningTasks), Cardinality(RunningTasks) + 1}
        BY FS_AddElement
      <4> QED BY <1>0, <3>2, <4>1, <4>2
    <3> QED BY <2>6, <3>1, <3>2
  <2> QED BY <1>5, <2>2, <2>3, <2>4, <2>6, <2>7
<1>6. ASSUME UNCHANGED <<clock, signUps, admitted, launches, launchedAt, asked>>,
             tasks' \in SUBSET Task, RunningTasks' \subseteq RunningTasks
      PROVE  LimitsInv'
  <2>1. /\ IsFiniteSet(RunningTasks') /\ Cardinality(RunningTasks') \in Nat
        /\ Cardinality(RunningTasks) \in Nat
        /\ Cardinality(RunningTasks') <= Cardinality(RunningTasks)
    BY <1>6, FS_Subset, FS_CardinalityType
  <2>2. Limiting(signUps, admitted, SignUpLimit, SignUpWindow)'
        /\ Limiting(launches, launchedAt, LaunchLimit, LaunchWindow)'
    BY <1>6 DEF Limiting
  <2> QED BY <1>0, <1>6, <2>1, <2>2
<1>7. ASSUME UNCHANGED <<clock, signUps, admitted>>, NEW t \in tasks, TaskEnds(t)
      PROVE  LimitsInv'
  <2>1. PICK result \in {"done", "failed"} :
          tasks' = (tasks \ {t}) \cup {[t EXCEPT !.status = result, !.finished = clock]}
    BY <1>7 DEF TaskEnds
  <2>2. [t EXCEPT !.status = result, !.finished = clock] \in Task
        /\ [t EXCEPT !.status = result, !.finished = clock].status # "running"
    BY DEF Task
  <2>3. tasks' \in SUBSET Task /\ RunningTasks' \subseteq RunningTasks
    BY <2>1, <2>2 DEF RunningTasks
  <2>4. UNCHANGED <<launches, launchedAt, asked>>
    BY <1>7 DEF TaskEnds
  <2> QED BY <1>6, <1>7, <2>3, <2>4
<1>8. ASSUME UNCHANGED <<clock, signUps, admitted>>, ListTasks
      PROVE  LimitsInv'
  BY <1>6, <1>8 DEF ListTasks, RunningTasks, Collected
<1>9. ASSUME UNCHANGED <<clock, signUps, admitted>>, PlayRestarts
      PROVE  LimitsInv'
  <2>1. RunningTasks' = {} /\ IsFiniteSet({}) /\ Cardinality({}) = 0
    BY <1>9, FS_EmptySet DEF PlayRestarts, RunningTasks
  <2>2. Limiting(launches, launchedAt, LaunchLimit, LaunchWindow)'
    BY <1>9, NoTimes DEF PlayRestarts, Limiting
  <2>3. Limiting(signUps, admitted, SignUpLimit, SignUpWindow)'
    BY <1>9 DEF Limiting
  <2> QED BY <1>0, <1>9, <2>1, <2>2, <2>3 DEF PlayRestarts
<1>10. CASE UserAccounts
  <2>1. UNCHANGED playVars
    BY <1>10 DEF UserAccounts
  <2>2. CASE (SignUpStep \/ AdminStep) /\ UNCHANGED clock
    BY <1>1, <1>3, <1>4, <2>1, <2>2
       DEF SignUpStep, AdminStep, VerifyEmail, ForgotPassword, Register, InsertUser, GiveUp,
           ApiRestarts, SignIn, ChangeUser, CountAdmins, WriteUser
  <2>3. CASE AccountsTick
    BY <1>2, <2>1, <2>3 DEF AccountsTick, Tick, accountVars
  <2> QED BY <1>10, <2>2, <2>3 DEF UserAccounts
<1>11. CASE TaskTable
  BY <1>2, <1>5, <1>7, <1>8, <1>9, <1>11
     DEF TaskTable, PlayStep, PlayTick, Tick, accountVars
<1>12. CASE LobbyMatches
  BY <1>1, <1>2, <1>12 DEF LobbyMatches, LobbyTick, Tick, accountVars
<1>13. CASE Members \/ Feed \/ SensorStep \/ UNCHANGED platformVars
  BY <1>1, <1>13 DEF Members, Feed, SensorStep, platformVars, apiVars, accountVars
<1> QED BY <1>10, <1>11, <1>12, <1>13 DEF Next, ApiStep

(* No window of a limiter's width sees more than the limit, and no more    *)
(* tasks run than the cap says.                                            *)
THEOREM LimitsCorrect == Spec => []LimitsHold
<1>1. ASSUME NEW times, NEW all, NEW limit, NEW width, Limiting(times, all, limit, width)
      PROVE  WithinLimit(all, limit, width)
  <2>1. DOMAIN all = 1..Len(all)
    BY <1>1 DEF Limiting
  <2> QED BY <1>1, <2>1 DEF Limiting, WithinLimit
<1>2. LimitsInv => LimitsHold
  BY <1>1 DEF LimitsInv, LimitsHold
<1> QED BY <1>2, LimitsStart, LimitsStep, PTL DEF Spec

--------------------------------------------------------------------------
(* Which parts a step leaves alone.                                        *)
LEMMA OnlyOnePartMoves ==
  ASSUME [Next]_platformVars
  PROVE  /\ FeedNext \/ UNCHANGED feedVars
         /\ \/ part = "lobby" /\ LobbyStep /\ UNCHANGED clock
            \/ part = "lobby" /\ LobbyTick
            \/ UNCHANGED <<lobbyVars, clock>>
            \/ part # "lobby" /\ clock' \in {clock, clock + 1} /\ UNCHANGED lobbyVars
         /\ (SignUpStep \/ AdminStep) \/ UNCHANGED accountVars
         /\ UNCHANGED part
<1>1. CASE ApiStep
  BY <1>1 DEF ApiStep, Members, UserAccounts, TaskTable, LobbyMatches, Feed,
              AccountsTick, PlayTick, Tick
<1>2. CASE SensorStep \/ UNCHANGED platformVars
  BY <1>2 DEF SensorStep, platformVars, apiVars
<1> QED BY <1>1, <1>2 DEF Next

--------------------------------------------------------------------------
(* The live feed misses nothing but the gap *)

Client == [at : {"off", "seeded", "live"}, got : SUBSET Nat, inbox : Seq(Nat),
           seeded : Nat, missed : SUBSET Nat]

Waiting(f) == {f.inbox[i] : i \in 1..Len(f.inbox)}

(* A client that is connected has every session scored so far or waits for *)
(* it, but for those the property excuses.                                 *)
Excused(f, s) == s <= f.seeded - SeedLimit \/ s \in f.missed \cup failed \cup {unpublished}
Informed(f) ==
  f.at # "off" => \A s \in 1..scored : s \in f.got \cup Waiting(f) \/ Excused(f, s)

FeedInv ==
  /\ scored \in Nat /\ unpublished \in Nat /\ failed \in SUBSET Nat
  /\ feed \in [Clients -> Client]
  /\ \A c \in Clients : Informed(feed[c])

LEMMA FeedStart == Init => FeedInv
<1>1. Disconnected \in Client /\ Disconnected.at = "off"
  BY DEF Disconnected, Client
<1> QED BY <1>1 DEF Init, FeedInit, FeedInv, Informed

(* What arrives waits; what is sent is had.                                *)
LEMMA InboxGrows ==
  ASSUME NEW f \in Client, NEW s \in Nat
  PROVE  LET g == [f EXCEPT !.inbox = Append(@, s)]
         IN g \in Client /\ Waiting(g) = Waiting(f) \cup {s}
<1> DEFINE g == [f EXCEPT !.inbox = Append(@, s)]
           n == Len(f.inbox)
<1>1. f.inbox \in Seq(Nat) /\ n \in Nat
  BY DEF Client
<1>2. /\ Append(f.inbox, s) \in Seq(Nat) /\ Len(Append(f.inbox, s)) = n + 1
      /\ \A i \in 1..n : Append(f.inbox, s)[i] = f.inbox[i]
      /\ Append(f.inbox, s)[n + 1] = s
  BY <1>1, AppendProperties
<1>3. g \in Client /\ g.inbox = Append(f.inbox, s)
  BY <1>2 DEF Client
<1>4. 1..(n + 1) = (1..n) \cup {n + 1}
  BY <1>1
<1> HIDE DEF n
<1>5. Waiting(g) = {g.inbox[i] : i \in (1..n) \cup {n + 1}}
  BY <1>2, <1>3, <1>4 DEF Waiting
<1>6. Waiting(f) = {f.inbox[i] : i \in 1..n}
  BY DEF Waiting, n
<1>7. Waiting(g) = Waiting(f) \cup {s}
  BY <1>2, <1>3, <1>5, <1>6
<1> QED BY <1>3, <1>7

LEMMA InboxSent ==
  ASSUME NEW f \in Client, f.inbox # <<>>
  PROVE  LET g == [f EXCEPT !.inbox = Tail(@), !.got = @ \cup {Head(f.inbox)}]
         IN /\ g \in Client /\ f.got \subseteq g.got
            /\ Waiting(f) \subseteq Waiting(g) \cup g.got
<1> DEFINE g == [f EXCEPT !.inbox = Tail(@), !.got = @ \cup {Head(f.inbox)}]
           n == Len(f.inbox)
<1>1. f.inbox \in Seq(Nat) /\ n \in Nat
  BY DEF Client
<1>2. /\ Head(f.inbox) = f.inbox[1] /\ Head(f.inbox) \in Nat /\ n # 0
      /\ Tail(f.inbox) \in Seq(Nat) /\ Len(Tail(f.inbox)) = n - 1
      /\ \A i \in 1..(n - 1) : Tail(f.inbox)[i] = f.inbox[i + 1]
  BY <1>1, HeadTailProperties, EmptySeq
<1>3. /\ g \in Client /\ g.inbox = Tail(f.inbox)
      /\ g.got = f.got \cup {f.inbox[1]}
  BY <1>2 DEF Client
<1> HIDE DEF g, n
<1>4. ASSUME NEW i \in 1..n
      PROVE  f.inbox[i] \in Waiting(g) \cup g.got
  <2>1. CASE i = 1
    BY <1>3, <2>1
  <2>2. CASE i # 1
    <3>1. i - 1 \in 1..(n - 1) /\ (i - 1) + 1 = i
      BY <1>1, <2>2
    <3>2. g.inbox[i - 1] = f.inbox[i] /\ Len(g.inbox) = n - 1
      BY <1>2, <1>3, <3>1
    <3> QED BY <3>1, <3>2 DEF Waiting
  <2> QED BY <2>1, <2>2
<1> QED BY <1>3, <1>4 DEF Waiting, n, g

LEMMA FeedStep ==
  ASSUME FeedInv, [Next]_platformVars
  PROVE  FeedInv'
<1> USE DEF FeedInv
<1>1. CASE UNCHANGED feedVars
  BY <1>1 DEF feedVars, Informed, Waiting, Excused
<1>2. CASE CommitSession
  <2>1. \A s \in 1..scored' : s \in 1..scored \/ s = unpublished'
    BY <1>2 DEF CommitSession
  <2>2. ASSUME NEW c \in Clients PROVE Informed(feed[c])'
    BY <1>2, <2>1 DEF CommitSession, Informed, Waiting, Excused
  <2> QED BY <1>2, <2>2 DEF CommitSession
<1>3. CASE PublishLive
  <2>1. ASSUME NEW c \in Clients
        PROVE  feed'[c] \in Client /\ Informed(feed[c])'
    <3>1. feed[c] \in Client /\ Informed(feed[c])
      OBVIOUS
    <3>2. CASE c \in Subscribers
      <4>1. feed'[c] = [feed[c] EXCEPT !.inbox = Append(@, unpublished)]
        BY <1>3, <3>2 DEF PublishLive
      <4>2. /\ feed'[c] \in Client /\ Waiting(feed'[c]) = Waiting(feed[c]) \cup {unpublished}
        BY <3>1, <4>1, InboxGrows
      <4>3. /\ feed'[c].at = feed[c].at /\ feed'[c].got = feed[c].got
            /\ feed'[c].seeded = feed[c].seeded /\ feed'[c].missed = feed[c].missed
        BY <3>1, <4>1 DEF Client
      <4> HIDE DEF Waiting
      <4>4. Waiting(feed[c])' = Waiting(feed'[c])
        BY DEF Waiting
      <4> QED BY <1>3, <3>1, <4>2, <4>3, <4>4 DEF PublishLive, Informed, Excused
    <3>3. CASE c \notin Subscribers /\ feed[c].at = "seeded"
      <4>1. feed'[c] = [feed[c] EXCEPT !.missed = @ \cup {unpublished}]
        BY <1>3, <3>3 DEF PublishLive
      <4>2. /\ feed'[c] \in Client
            /\ feed'[c].at = feed[c].at /\ feed'[c].got = feed[c].got
            /\ feed'[c].inbox = feed[c].inbox
            /\ feed'[c].seeded = feed[c].seeded
            /\ feed'[c].missed = feed[c].missed \cup {unpublished}
        <5>1. feed[c].missed \cup {unpublished} \in SUBSET Nat
          BY <3>1 DEF Client
        <5> QED BY <3>1, <4>1, <5>1 DEF Client
      <4> QED BY <1>3, <3>1, <4>2 DEF PublishLive, Informed, Excused, Waiting
    <3>4. CASE c \notin Subscribers /\ feed[c].at # "seeded"
      <4>1. feed'[c] = feed[c] /\ feed[c].at = "off"
        BY <1>3, <3>1, <3>4 DEF PublishLive, Subscribers, Client
      <4> QED BY <3>1, <4>1 DEF Informed
    <3> QED BY <3>2, <3>3, <3>4
  <2>2. feed' \in [Clients -> Client]
    BY <1>3, <2>1 DEF PublishLive
  <2> QED BY <1>3, <2>1, <2>2 DEF PublishLive
<1>4. CASE PublicationFails
  BY <1>4 DEF PublicationFails, Informed, Waiting, Excused
<1>5. ASSUME NEW c \in Clients, UNCHANGED <<scored, unpublished, failed>>,
             NEW f, feed' = [feed EXCEPT ![c] = f], f \in Client, Informed(f)
      PROVE  FeedInv'
  <2>1. feed' \in [Clients -> Client] /\ feed'[c] = f
    BY <1>5
  <2>2. ASSUME NEW d \in Clients PROVE Informed(feed[d])'
    <3>1. Informed(feed'[d])
      BY <1>5
    <3> QED BY <1>5, <3>1 DEF Informed, Excused, Waiting
  <2> QED BY <1>5, <2>1, <2>2
<1>6. ASSUME NEW c \in Clients, Seed(c)
      PROVE  FeedInv'
  <2> DEFINE f == [Disconnected EXCEPT !.at = "seeded", !.got = NewestRows,
                                       !.seeded = scored]
  <2>1. f \in Client
    <3>1. NewestRows \in SUBSET Nat /\ {} \in SUBSET Nat
      BY DEF NewestRows
    <3>2. <<>> \in Seq(Nat) /\ 0 \in Nat
      OBVIOUS
    <3>3. Disconnected \in Client
      BY <3>1, <3>2 DEF Client, Disconnected
    <3>4. scored \in Nat
      OBVIOUS
    <3> HIDE DEF FeedInv
    <3> QED BY <3>1, <3>3, <3>4 DEF Client
  <2>2. Informed(f)
    <3>1. \A s \in 1..scored : s \in NewestRows \/ s <= scored - SeedLimit
      BY LiveFeedAssumption DEF NewestRows
    <3>2. f.got = NewestRows /\ f.seeded = scored
      BY DEF Disconnected
    <3> QED BY <3>1, <3>2 DEF Informed, Excused
  <2> HIDE DEF f
  <2> QED BY <1>5, <1>6, <2>1, <2>2 DEF Seed, f
<1>7. ASSUME NEW c \in Clients, Subscribe(c)
      PROVE  FeedInv'
  <2> DEFINE f == [feed[c] EXCEPT !.at = "live"]
  <2>1. f \in Client /\ f.got = feed[c].got /\ f.inbox = feed[c].inbox
        /\ f.seeded = feed[c].seeded /\ f.missed = feed[c].missed
    BY DEF Client
  <2>2. Informed(f)
    BY <1>7, <2>1 DEF Subscribe, Informed, Excused, Waiting
  <2>3. feed' = [feed EXCEPT ![c] = f]
    BY <1>7 DEF Subscribe
  <2> HIDE DEF f
  <2> QED BY <1>5, <1>7, <2>1, <2>2, <2>3 DEF Subscribe
<1>8. ASSUME NEW c \in Clients, Send(c)
      PROVE  FeedInv'
  <2> DEFINE f == [feed[c] EXCEPT !.inbox = Tail(@), !.got = @ \cup {Head(feed[c].inbox)}]
  <2>1. /\ f \in Client /\ feed[c].got \subseteq f.got
        /\ Waiting(feed[c]) \subseteq Waiting(f) \cup f.got
    BY <1>8, InboxSent DEF Send
  <2>2. f.at = feed[c].at /\ f.seeded = feed[c].seeded /\ f.missed = feed[c].missed
    BY DEF Client
  <2>3. feed' = [feed EXCEPT ![c] = f]
    BY <1>8 DEF Send
  <2> HIDE DEF f
  <2>4. Informed(f)
    BY <2>1, <2>2 DEF Informed, Excused
  <2> QED BY <1>5, <1>8, <2>1, <2>3, <2>4 DEF Send
<1>9. ASSUME NEW c \in Clients, Disconnect(c)
      PROVE  FeedInv'
  <2>1. Disconnected \in Client /\ Informed(Disconnected)
    BY DEF Disconnected, Client, Informed
  <2> QED BY <1>5, <1>9, <2>1 DEF Disconnect
<1> QED BY <1>1, <1>2, <1>3, <1>4, <1>6, <1>7, <1>8, <1>9, OnlyOnePartMoves DEF FeedNext

(* A client that is up to date misses only what its seed had no room for,  *)
(* the gap before its subscription, and what was never published.          *)
THEOREM FeedCorrect == Spec => []FeedMissesOnlyTheGap
<1>1. FeedInv => FeedMissesOnlyTheGap
  <2> SUFFICES ASSUME FeedInv, NEW c \in Subscribers, feed[c].inbox = <<>>,
                      NEW s \in (1..scored) \ feed[c].got
               PROVE  \/ s <= feed[c].seeded - SeedLimit
                      \/ s \in feed[c].missed \cup failed \cup {unpublished}
    BY DEF FeedMissesOnlyTheGap
  <2>1. c \in Clients /\ feed[c].at # "off" /\ Informed(feed[c])
    BY DEF FeedInv, Subscribers
  <2>2. Waiting(feed[c]) = {}
    <3>1. Len(<<>>) = 0 /\ 1..0 = {}
      OBVIOUS
    <3> QED BY <3>1 DEF Waiting
  <2> QED BY <2>1, <2>2 DEF Informed, Excused
<1> QED BY <1>1, FeedStart, FeedStep, PTL DEF Spec

--------------------------------------------------------------------------
(* Invites and the matches they make *)

InviteRow == [status : {"pending", "accepted", "declined"}, expires : Nat, match : Nat]
MatchRow == [invite : Nat, started : Nat, ends : Nat,
             summary : SUBSET {"challenger", "defender"}]

(* Every match is some invite's; an invite names a match once it is        *)
(* accepted, its only one unless the lobby died over it.                   *)
MatchTables ==
  /\ clock \in Nat
  /\ invites \in Seq(InviteRow) /\ matches \in Seq(MatchRow)
  /\ \A m \in 1..Len(matches) : matches[m].invite \in 1..Len(invites)
  /\ \A i \in 1..Len(invites) :
       /\ invites[i].match \in 0..Len(matches)
       /\ invites[i].status = "accepted" <=> invites[i].match # 0
       /\ i \notin cutShort =>
            \A m \in 1..Len(matches) : matches[m].invite = i <=> m = invites[i].match

(* The matches of an invite began no earlier than `slack' before `time'.   *)
Late(i, time, slack) ==
  i \in cutShort \/ \A m \in 1..Len(matches) :
                      matches[m].invite = i => matches[m].started + slack >= time

(* ... and neither do those that begin from now on.                        *)
InTime(time, slack) ==
  time <= clock + slack /\ Late(challenger.invite, time, slack)

ChallengerRow ==
  [at : {"away", "inviting", "waiting", "asking", "told", "attacking"}, invite : Nat,
   deadline : Nat, next : Nat, reply : {"pending", "accepted", "declined"},
   match : Nat, missed : Nat]
Underway == {"inviting", "waiting", "asking", "told"}

(* Who waits for an answer or for the next poll does so until `next'; a    *)
(* poll that was answered has seen no match.                               *)
ChallengerTimely ==
  /\ challenger \in ChallengerRow
  /\ challenger.invite \in 0..Len(invites) /\ challenger.match \in 0..Len(matches)
  /\ challenger.at = "attacking" => challenger.match # 0
  /\ challenger.at = "told" /\ challenger.reply = "accepted" => challenger.match # 0
  /\ challenger.at \in Underway =>
       part = "lobby" /\ challenger.invite # 0 /\ clock <= challenger.next
  /\ challenger.at = "asking" => challenger.next <= clock + RequestTime
  /\ challenger.at = "inviting" => InTime(challenger.next, RequestTime)
  /\ challenger.at = "waiting" => InTime(challenger.next, Slack(challenger.missed))
  /\ challenger.at = "asking" =>
       InTime(challenger.next, Slack(challenger.missed) + RequestTime)
  /\ challenger.at = "told" /\ challenger.reply = "pending" =>
       InTime(challenger.next, RequestTime)
  /\ challenger.at = "away" /\ challenger.invite # 0 =>
       InTime(challenger.deadline, Slack(challenger.missed))

ListenerKnows ==
  /\ listener \in [at : {"listening", "accepting", "playing"}, invite : Nat, match : Nat,
                   seen : SUBSET Nat]
  /\ listener.invite \in 0..Len(invites) /\ listener.match \in 0..Len(matches)
  /\ listener.at = "accepting" => listener.invite # 0
  /\ listener.at = "playing" => listener.match # 0

LobbyInv == MatchTables /\ ChallengerTimely /\ ListenerKnows

(* The challenger's command, where it touches nothing of the lobby.        *)
CommandStep ==
  \/ InviteAnswered \/ Poll \/ AnswerPoll \/ Hear \/ PollIgnored
  \/ GiveUpWaiting \/ ChallengeBreaks

LEMMA CommandFrame ==
  ASSUME CommandStep
  PROVE  UNCHANGED <<invites, matches, listener, crashes, cutShort>>
BY DEF CommandStep, InviteAnswered, Poll, AnswerPoll, Hear, PollIgnored, GiveUpWaiting,
       ChallengeBreaks

(* A poll that is missed adds a period to the slack.                       *)
LEMMA SlackGrows ==
  ASSUME NEW k \in Nat
  PROVE  /\ Period \in Nat /\ Slack(k) \in Nat /\ Slack(k) >= Period
         /\ Slack(0) = Period /\ Slack(k + 1) = Slack(k) + Period
<1>1. Period \in Nat
  BY LobbyAssumption DEF Period
<1>2. (k + 1) * Period = k * Period + Period /\ k * Period \in Nat
  BY <1>1
<1>3. (0 + 1) * Period = Period
  BY <1>1
<1>4. (k + 1 + 1) * Period = (k + 1) * Period + Period
  BY <1>1
<1> HIDE DEF Period
<1> QED BY <1>1, <1>2, <1>3, <1>4 DEF Slack

LEMMA LobbyStart == Init => LobbyInv
<1> SUFFICES ASSUME Init PROVE LobbyInv
  OBVIOUS
<1>1. /\ clock = 0 /\ invites = <<>> /\ matches = <<>> /\ challenger = Away
      /\ listener = Listening /\ cutShort = {}
  BY DEF Init, LobbyInit
<1>2. /\ <<>> \in Seq(InviteRow) /\ <<>> \in Seq(MatchRow) /\ Len(<<>>) = 0 /\ 1..0 = {}
      /\ 0 \in 0..0
  OBVIOUS
<1>3. MatchTables
  BY <1>1, <1>2 DEF MatchTables
<1>4. ChallengerTimely
  BY <1>1, <1>2 DEF ChallengerTimely, ChallengerRow, Underway, Away, NoMatch
<1>5. ListenerKnows
  BY <1>1, <1>2 DEF ListenerKnows, Listening, NoMatch
<1> QED BY <1>3, <1>4, <1>5 DEF LobbyInv

(* A summary changes no match's invite or start.                           *)
LEMMA SummaryKeeps ==
  ASSUME MatchTables, NEW k \in 1..Len(matches), NEW who \in {"challenger", "defender"},
         matches' = Summarised(k, who)
  PROVE  /\ matches' \in Seq(MatchRow) /\ Len(matches') = Len(matches)
         /\ \A m \in 1..Len(matches) : /\ matches'[m].invite = matches[m].invite
                                       /\ matches'[m].started = matches[m].started
<1> DEFINE new == [matches[k] EXCEPT !.summary = {who}]
<1>1. matches \in Seq(MatchRow) /\ matches[k] \in MatchRow
  BY DEF MatchTables
<1>2. /\ new \in MatchRow /\ new.invite = matches[k].invite /\ new.started = matches[k].started
  BY <1>1 DEF MatchRow
<1>3. matches' = [matches EXCEPT ![k] = new]
  BY DEF Summarised
<1> HIDE DEF new
<1>4. /\ matches' \in Seq(MatchRow) /\ Len(matches') = Len(matches)
      /\ \A m \in 1..Len(matches) : matches'[m] = IF m = k THEN new ELSE matches[m]
  BY <1>1, <1>2, <1>3, ExceptSeq
<1> QED BY <1>2, <1>4

(* What a new match is, beside those there were.                           *)
LEMMA MatchAdded ==
  ASSUME MatchTables, NEW i \in 1..Len(invites), matches' = Append(matches, NewMatch(i))
  PROVE  /\ matches' \in Seq(MatchRow) /\ Len(matches') = Len(matches) + 1
         /\ \A m \in 1..Len(matches) : matches'[m] = matches[m]
         /\ matches'[Len(matches) + 1].invite = i
         /\ matches'[Len(matches) + 1].started = clock
<1>1. NewMatch(i) \in MatchRow /\ NewMatch(i).invite = i /\ NewMatch(i).started = clock
  BY LobbyAssumption DEF MatchTables, NewMatch, MatchRow
<1>2. matches \in Seq(MatchRow)
  BY DEF MatchTables
<1> QED BY <1>1, <1>2, AppendProperties

(* A match that begins now makes no invite's matches less late, if the     *)
(* time asked about is at most the slack away.                             *)
LEMMA StillLate ==
  ASSUME MatchTables, NEW i \in 1..Len(invites), matches' = Append(matches, NewMatch(i)),
         cutShort \subseteq cutShort', NEW j, NEW time \in Nat, NEW slack \in Nat,
         time <= clock + slack, Late(j, time, slack)
  PROVE  Late(j, time, slack)'
<1>0. Len(matches) \in Nat
  BY DEF MatchTables
<1>1. /\ Len(matches') = Len(matches) + 1
      /\ \A m \in 1..Len(matches) : matches'[m] = matches[m]
      /\ matches'[Len(matches) + 1].started = clock
  BY MatchAdded
<1>2. ASSUME NEW m \in 1..Len(matches'), matches'[m].invite = j, j \notin cutShort
      PROVE  matches'[m].started + slack >= time
  <2>1. CASE m = Len(matches) + 1
    BY <1>1, <2>1 DEF MatchTables
  <2>2. CASE m # Len(matches) + 1
    BY <1>0, <1>1, <1>2, <2>2 DEF Late
  <2> QED BY <2>1, <2>2
<1> QED BY <1>2 DEF Late

(* What is in time with some slack is so with more slack, or for less time.*)
LEMMA MoreSlack ==
  ASSUME MatchTables, NEW time \in Nat, NEW slack \in Nat, InTime(time, slack),
         NEW new \in Nat, NEW more \in Nat, new + slack <= time + more
  PROVE  InTime(new, more)
<1>1. \A m \in 1..Len(matches) : matches[m].started \in Nat
  <2>1. \A m \in 1..Len(matches) : matches[m] \in MatchRow
    BY DEF MatchTables
  <2> QED BY <2>1 DEF MatchRow
<1>2. clock \in Nat
  BY DEF MatchTables
<1> QED BY <1>1, <1>2 DEF InTime, Late

(* A new match, of an invite that had none unless the lobby died over it.  *)
LEMMA AcceptKeepsTables ==
  ASSUME LobbyInv, Accept \/ AcceptCutShort, clock' = clock
  PROVE  MatchTables'
<1> DEFINE i == listener.invite
           n == Len(invites)
           k == Len(matches)
<1>1. /\ n \in Nat /\ k \in Nat /\ i \in 1..n /\ clock \in Nat
      /\ invites \in Seq(InviteRow)
  BY DEF LobbyInv, MatchTables, ListenerKnows, Accept, AcceptCutShort
<1>2. CASE UNCHANGED <<matches, invites, cutShort>>
  BY <1>2 DEF LobbyInv, MatchTables
<1>3. CASE /\ PendingInvite(i) /\ matches' = Append(matches, NewMatch(i))
           /\ \/ /\ cutShort' = cutShort /\ invites' = [invites EXCEPT ![i].status = "accepted",
                                                                    ![i].match = k + 1]
              \/ cutShort' = cutShort \cup {i} /\ invites' = invites
  <2>1. /\ matches' \in Seq(MatchRow) /\ Len(matches') = k + 1
        /\ \A m \in 1..k : matches'[m] = matches[m]
        /\ matches'[k + 1].invite = i
    BY <1>1, <1>3, MatchAdded DEF LobbyInv
  <2>2. /\ \A m \in 1..k : matches[m].invite \in 1..n
        /\ \A j \in 1..n : invites[j].match \in 0..k
        /\ \A j \in 1..n : invites[j].status = "accepted" <=> invites[j].match # 0
        /\ \A j \in 1..n : j \notin cutShort =>
             \A m \in 1..k : matches[m].invite = j <=> m = invites[j].match
        /\ invites[i].status = "pending" /\ invites[i].match = 0
    BY <1>1, <1>3 DEF LobbyInv, MatchTables, PendingInvite
  <2>3. /\ invites' \in Seq(InviteRow) /\ Len(invites') = n
        /\ \A j \in 1..n : j # i => invites'[j] = invites[j]
        /\ \/ invites'[i].status = "accepted" /\ invites'[i].match = k + 1
           \/ i \in cutShort' /\ invites' = invites
        /\ \A j \in 1..n : j # i => (j \in cutShort' <=> j \in cutShort)
        /\ \A j \in 1..n : j \in cutShort => j \in cutShort'
    <3>1. CASE cutShort' = cutShort \cup {i} /\ invites' = invites
      BY <1>1, <3>1
    <3>2. CASE /\ cutShort' = cutShort
               /\ invites' = [invites EXCEPT ![i].status = "accepted", ![i].match = k + 1]
      <4> DEFINE new == [invites[i] EXCEPT !.status = "accepted", !.match = k + 1]
      <4>1. new \in InviteRow /\ new.status = "accepted" /\ new.match = k + 1
        <5>1. invites[i] \in InviteRow /\ k + 1 \in Nat
          BY <1>1
        <5> HIDE DEF i, k
        <5> QED BY <5>1 DEF InviteRow
      <4>2. invites' = [invites EXCEPT ![i] = new]
        BY <1>1, <3>2
      <4> HIDE DEF new, i, n
      <4>3. /\ invites' \in Seq(InviteRow) /\ Len(invites') = n
            /\ \A j \in 1..n : invites'[j] = IF j = i THEN new ELSE invites[j]
        BY <1>1, <4>1, <4>2, ExceptSeq DEF n
      <4> QED BY <1>1, <3>2, <4>1, <4>3
    <3> QED BY <1>3, <3>1, <3>2
  <2> HIDE DEF i, n, k
  <2>4. \A m \in 1..(k + 1) : m \in 1..k \/ m = k + 1
    BY <1>1
  <2>5. \A m \in 1..(k + 1) : matches'[m].invite \in 1..n
    BY <1>1, <2>1, <2>2, <2>4
  <2>6. ASSUME NEW j \in 1..n
        PROVE  /\ invites'[j].match \in 0..(k + 1)
               /\ invites'[j].status = "accepted" <=> invites'[j].match # 0
               /\ j \notin cutShort' =>
                    \A m \in 1..(k + 1) : matches'[m].invite = j <=> m = invites'[j].match
    <3>1. CASE j # i
      <4>1. invites'[j] = invites[j] /\ invites[j].match \in 0..k
        BY <2>2, <2>3, <3>1
      <4>2. invites[j].match \in 0..(k + 1) /\ k + 1 # invites[j].match
        BY <1>1, <4>1
      <4> QED BY SMTT(20), <2>1, <2>2, <2>3, <2>4, <3>1, <4>1, <4>2
    <3>2. CASE j = i /\ i \in cutShort' /\ invites' = invites
      <4>1. invites[j].match \in 0..(k + 1)
        BY <1>1, <2>2
      <4> QED BY <2>2, <3>2, <4>1
    <3>3. CASE j = i /\ invites'[i].status = "accepted" /\ invites'[i].match = k + 1
      <4>1. k + 1 \in 0..(k + 1) /\ k + 1 # 0 /\ \A m \in 1..k : m # 0
        BY <1>1
      <4> QED BY <2>1, <2>2, <2>3, <2>4, <3>3, <4>1
    <3> QED BY <2>3, <3>1, <3>2, <3>3
  <2>7. clock' \in Nat
    BY <1>1
  <2>8. Len(invites') = n /\ Len(matches') = k + 1
    BY <2>1, <2>3
  <2> QED BY <2>1, <2>3, <2>5, <2>6, <2>7, <2>8 DEF MatchTables
<1> QED BY <1>1, <1>2, <1>3 DEF Accept, AcceptCutShort

(* The tables, whatever else happens.                                      *)
LEMMA TablesKept ==
  ASSUME LobbyInv, LobbyStep, clock' = clock
  PROVE  MatchTables'
<1>0. MatchTables /\ Len(invites) \in Nat /\ Len(matches) \in Nat /\ clock \in Nat
      /\ invites \in Seq(InviteRow)
  BY DEF LobbyInv, MatchTables
<1>1. CASE UNCHANGED <<invites, matches, cutShort>>
  BY <1>0, <1>1 DEF MatchTables
<1>2. CASE Challenge
  <2> DEFINE new == [status |-> "pending", expires |-> clock + InviteTTL, match |-> NoMatch]
  <2>1. new \in InviteRow /\ new.match = 0 /\ new.status = "pending"
    BY <1>0, LobbyAssumption DEF InviteRow, NoMatch
  <2>2. invites' = Append(invites, new)
    BY <1>2 DEF Challenge
  <2> HIDE DEF new
  <2>3. /\ invites' \in Seq(InviteRow) /\ Len(invites') = Len(invites) + 1
        /\ \A i \in 1..Len(invites) : invites'[i] = invites[i]
        /\ invites'[Len(invites) + 1] = new
    BY <1>0, <2>1, <2>2, AppendProperties
  <2>4. \A m \in 1..Len(matches) : /\ matches[m].invite \in 1..(Len(invites) + 1)
                                   /\ matches[m].invite # Len(invites) + 1
    BY <1>0 DEF MatchTables
  <2>5. \A i \in 1..Len(invites') : i \in 1..Len(invites) \/ i = Len(invites) + 1
    BY <1>0, <2>3
  <2>6. 0 \in 0..Len(matches) /\ \A m \in 1..Len(matches) : m # 0
    BY <1>0
  <2>7. UNCHANGED <<matches, cutShort>>
    BY <1>2 DEF Challenge
  <2> QED BY <1>0, <2>1, <2>3, <2>4, <2>5, <2>6, <2>7 DEF MatchTables
<1>3. ASSUME NEW i \in DOMAIN invites, Decline(i)
      PROVE  MatchTables'
  <2> DEFINE new == [invites[i] EXCEPT !.status = "declined"]
  <2>1. i \in 1..Len(invites)
    BY <1>0
  <2>2. /\ new \in InviteRow /\ new.match = invites[i].match /\ new.status # "accepted"
        /\ invites[i].status # "accepted" /\ invites' = [invites EXCEPT ![i] = new]
    <3>1. invites[i] \in InviteRow
      BY <1>0, <2>1
    <3>2. invites[i].status = "pending" /\ invites' = [invites EXCEPT ![i] = new]
      BY <1>3 DEF Decline
    <3> QED BY <3>1, <3>2 DEF InviteRow
  <2> HIDE DEF new
  <2>3. /\ invites' \in Seq(InviteRow) /\ Len(invites') = Len(invites)
        /\ \A j \in 1..Len(invites) : invites'[j] = IF j = i THEN new ELSE invites[j]
    BY <1>0, <2>1, <2>2, ExceptSeq
  <2>4. UNCHANGED <<matches, cutShort>>
    BY <1>3 DEF Decline
  <2> QED BY <1>0, <2>1, <2>2, <2>3, <2>4 DEF MatchTables
<1>4. CASE AttackEnds \/ MatchEnds
  <2>1. PICK k \in 1..Len(matches), who \in {"challenger", "defender"} :
          matches' = Summarised(k, who)
    <3>1. CASE AttackEnds
      <4>1. challenger.match \in 1..Len(matches)
        BY <1>0, <3>1 DEF LobbyInv, ChallengerTimely, AttackEnds
      <4> QED BY <3>1, <4>1 DEF AttackEnds
    <3>2. CASE MatchEnds
      <4>1. listener.match \in 1..Len(matches)
        BY <1>0, <3>2 DEF LobbyInv, ListenerKnows, MatchEnds
      <4> QED BY <3>2, <4>1 DEF MatchEnds
    <3> QED BY <1>4, <3>1, <3>2
  <2>2. /\ matches' \in Seq(MatchRow) /\ Len(matches') = Len(matches)
        /\ \A m \in 1..Len(matches) : matches'[m].invite = matches[m].invite
    BY <1>0, <2>1, SummaryKeeps
  <2>3. UNCHANGED <<invites, cutShort>>
    BY <1>4 DEF AttackEnds, MatchEnds
  <2>4. \A m \in 1..Len(matches) : matches'[m].invite \in 1..Len(invites)
    BY <1>0, <2>2 DEF MatchTables
  <2>5. \A i \in 1..Len(invites) :
          /\ invites[i].match \in 0..Len(matches)
          /\ invites[i].status = "accepted" <=> invites[i].match # 0
          /\ i \notin cutShort =>
               \A m \in 1..Len(matches) : matches'[m].invite = i <=> m = invites[i].match
    <3> TAKE i \in 1..Len(invites)
    <3>1. /\ invites[i].match \in 0..Len(matches)
          /\ invites[i].status = "accepted" <=> invites[i].match # 0
      BY <1>0 DEF MatchTables
    <3>2. i \notin cutShort =>
            \A m \in 1..Len(matches) : matches[m].invite = i <=> m = invites[i].match
      BY <1>0 DEF MatchTables
    <3> QED BY <2>2, <3>1, <3>2
  <2> QED BY <1>0, <2>2, <2>3, <2>4, <2>5 DEF MatchTables
<1>5. CASE Accept \/ AcceptCutShort
  BY <1>5, AcceptKeepsTables
<1> QED BY <1>1, <1>2, <1>3, <1>4, <1>5, CommandFrame
        DEF LobbyStep, CommandStep, SeeInvite, ListenerRestarts

(* Neither table loses a row; matches that began late have begun late.     *)
LEMMA TablesGrow ==
  ASSUME LobbyInv, LobbyStep, clock' = clock
  PROVE  /\ Len(invites) \in Nat /\ Len(invites') \in Nat /\ Len(invites) <= Len(invites')
         /\ Len(matches) \in Nat /\ Len(matches') \in Nat /\ Len(matches) <= Len(matches')
         /\ \A i \in 1..Len(invites), time, slack \in Nat :
              (time <= clock + slack /\ Late(i, time, slack)) => Late(i, time, slack)'
<1>1. MatchTables /\ MatchTables' /\ Len(invites) \in Nat /\ Len(matches) \in Nat
      /\ Len(invites') \in Nat /\ Len(matches') \in Nat
      /\ invites \in Seq(InviteRow)
  BY TablesKept DEF LobbyInv, MatchTables
<1>2. Len(invites) <= Len(invites')
  <2>1. CASE Challenge
    <3> DEFINE new == [status |-> "pending", expires |-> clock + InviteTTL, match |-> NoMatch]
    <3>1. new \in InviteRow /\ invites' = Append(invites, new)
      BY <1>1, <2>1, LobbyAssumption DEF Challenge, NoMatch, InviteRow, MatchTables
    <3> HIDE DEF new
    <3> QED BY <1>1, <3>1, AppendProperties
  <2>2. CASE UNCHANGED invites
    BY <1>1, <2>2
  <2>3. ASSUME NEW i \in DOMAIN invites, Decline(i)
        PROVE  Len(invites) <= Len(invites')
    BY <1>1, <2>3 DEF Decline
  <2>4. CASE Accept
    BY <1>1, <2>4 DEF Accept
  <2> QED BY <2>1, <2>2, <2>3, <2>4, CommandFrame
          DEF LobbyStep, CommandStep, AcceptCutShort, SeeInvite, AttackEnds,
              MatchEnds, ListenerRestarts
<1>3. CASE UNCHANGED <<matches, cutShort>>
  BY <1>1, <1>2, <1>3 DEF Late
<1>4. CASE AttackEnds \/ MatchEnds
  <2>1. PICK k \in 1..Len(matches), who \in {"challenger", "defender"} :
          matches' = Summarised(k, who)
    <3>1. CASE AttackEnds
      <4>1. challenger.match \in 1..Len(matches)
        BY <1>1, <3>1 DEF LobbyInv, ChallengerTimely, AttackEnds
      <4> QED BY <3>1, <4>1 DEF AttackEnds
    <3>2. CASE MatchEnds
      <4>1. listener.match \in 1..Len(matches)
        BY <1>1, <3>2 DEF LobbyInv, ListenerKnows, MatchEnds
      <4> QED BY <3>2, <4>1 DEF MatchEnds
    <3> QED BY <1>4, <3>1, <3>2
  <2>2. /\ Len(matches') = Len(matches)
        /\ \A m \in 1..Len(matches) : /\ matches'[m].invite = matches[m].invite
                                      /\ matches'[m].started = matches[m].started
    BY <1>1, <2>1, SummaryKeeps
  <2>3. cutShort' = cutShort
    BY <1>4 DEF AttackEnds, MatchEnds
  <2> QED BY <1>1, <1>2, <2>2, <2>3 DEF Late
<1>5. CASE Accept \/ AcceptCutShort
  <2>1. CASE UNCHANGED <<matches, cutShort>>
    BY <1>3, <2>1
  <2>2. CASE matches' = Append(matches, NewMatch(listener.invite))
    <3>1. listener.invite \in 1..Len(invites) /\ cutShort \subseteq cutShort'
      BY <1>1, <1>5 DEF LobbyInv, ListenerKnows, Accept, AcceptCutShort
    <3>2. Len(matches') = Len(matches) + 1
      BY <1>1, <2>2, <3>1, MatchAdded
    <3>3. Len(matches) <= Len(matches')
      BY <1>1, <3>2
    <3> QED BY <1>1, <1>2, <2>2, <3>1, <3>3, StillLate
  <2> QED BY <1>5, <2>1, <2>2 DEF Accept, AcceptCutShort
<1> QED BY <1>3, <1>4, <1>5, CommandFrame
        DEF LobbyStep, CommandStep, Challenge, Decline, SeeInvite, ListenerRestarts

(* What is in time stays so while its challenger waits.                    *)
LEMMA StaysInTime ==
  ASSUME LobbyInv, LobbyStep, clock' = clock, challenger.invite \in 1..Len(invites),
         challenger'.invite = challenger.invite,
         NEW time \in Nat, NEW slack \in Nat, InTime(time, slack)
  PROVE  InTime(time, slack)'
<1>1. Late(challenger.invite, time, slack)'
  <2>1. Late(challenger.invite, time, slack) /\ time <= clock + slack
    BY DEF InTime
  <2>2. CASE UNCHANGED <<matches, cutShort>>
    BY <2>1, <2>2 DEF Late
  <2> QED BY <2>1, TablesGrow DEF Late
<1> QED BY <1>1 DEF InTime

(* The command waits: the lobby's other steps leave it where it is.        *)
LEMMA WaitStaysTimely ==
  ASSUME LobbyInv, LobbyStep, clock' = clock, part' = part, challenger' = challenger
  PROVE  ChallengerTimely'
<1>1. /\ Len(invites) \in Nat /\ Len(invites') \in Nat /\ Len(invites) <= Len(invites')
      /\ Len(matches) \in Nat /\ Len(matches') \in Nat /\ Len(matches) <= Len(matches')
  BY TablesGrow
<1>2. /\ challenger \in ChallengerRow /\ ChallengerTimely /\ RequestTime \in Nat
      /\ challenger.next \in Nat /\ challenger.deadline \in Nat
      /\ challenger.missed \in Nat
  BY LobbyAssumption DEF LobbyInv, ChallengerTimely, ChallengerRow
<1>3. /\ challenger.invite \in 0..Len(invites') /\ challenger.match \in 0..Len(matches')
      /\ challenger.invite # 0 => challenger.invite \in 1..Len(invites)
  BY <1>1, <1>2 DEF ChallengerTimely
<1>4. /\ Slack(challenger.missed) \in Nat
      /\ Slack(challenger.missed) + RequestTime \in Nat
  BY <1>2, SlackGrows
<1> HIDE DEF Slack
<1>5. \A time, slack \in Nat :
        challenger.invite # 0 /\ InTime(time, slack) => InTime(time, slack)'
  BY <1>3, StaysInTime
<1>6. challenger.at = "inviting" => InTime(challenger.next, RequestTime)'
  BY <1>2, <1>5 DEF ChallengerTimely, Underway
<1>7. challenger.at = "waiting" => InTime(challenger.next, Slack(challenger.missed))'
  BY <1>2, <1>4, <1>5 DEF ChallengerTimely, Underway
<1>8. challenger.at = "asking" =>
        InTime(challenger.next, Slack(challenger.missed) + RequestTime)'
  BY <1>2, <1>4, <1>5 DEF ChallengerTimely, Underway
<1>9. challenger.at = "told" /\ challenger.reply = "pending" =>
        InTime(challenger.next, RequestTime)'
  BY <1>2, <1>5 DEF ChallengerTimely, Underway
<1>10. challenger.at = "away" /\ challenger.invite # 0 =>
         InTime(challenger.deadline, Slack(challenger.missed))'
  BY <1>2, <1>4, <1>5 DEF ChallengerTimely
<1> QED BY <1>2, <1>3, <1>6, <1>7, <1>8, <1>9, <1>10 DEF ChallengerTimely, Slack

LEMMA ChallengerStaysTimely ==
  ASSUME LobbyInv, LobbyStep, clock' = clock, part = "lobby", part' = part
  PROVE  ChallengerTimely'
<1>1. /\ Len(invites) \in Nat /\ Len(invites') \in Nat /\ Len(invites) <= Len(invites')
      /\ Len(matches) \in Nat /\ Len(matches') \in Nat /\ Len(matches) <= Len(matches')
  BY TablesGrow
<1>2. /\ clock \in Nat /\ PollPeriod \in Nat /\ RequestTime \in Nat
      /\ Period = PollPeriod + RequestTime
      /\ InviteTTL \in Nat /\ InviteTimeout \in Nat
      /\ MatchTables /\ ChallengerTimely
  BY LobbyAssumption DEF LobbyInv, MatchTables, Period
<1>3. /\ challenger \in ChallengerRow
      /\ challenger.next \in Nat /\ challenger.deadline \in Nat
      /\ challenger.missed \in Nat /\ challenger.match \in Nat /\ challenger.invite \in Nat
      /\ challenger.reply \in {"pending", "accepted", "declined"}
      /\ challenger.match \in 0..Len(matches)
  BY <1>2 DEF ChallengerTimely, ChallengerRow
<1>4. /\ Slack(challenger.missed) \in Nat /\ Slack(challenger.missed) >= Period
      /\ Slack(0) = Period
      /\ Slack(challenger.missed + 1) = Slack(challenger.missed) + Period
  BY <1>3, SlackGrows
<1> HIDE DEF Slack, Period
<1>5. CASE challenger' = challenger
  BY <1>5, WaitStaysTimely
<1>6. CASE challenger' = Away
  BY <1>1, <1>6 DEF ChallengerTimely, ChallengerRow, Underway, Away, NoMatch
<1>7. CASE Challenge
  <2> DEFINE new == Len(invites) + 1
  <2>1. /\ challenger' = [at |-> "inviting", invite |-> new, deadline |-> 0,
                          next |-> clock + RequestTime, reply |-> "pending", match |-> 0,
                          missed |-> 0]
        /\ matches' = matches
    BY <1>7 DEF Challenge, Away, NoMatch
  <2>2. Len(invites') = new
    <3> DEFINE row == [status |-> "pending", expires |-> clock + InviteTTL, match |-> NoMatch]
    <3>1. row \in InviteRow /\ invites' = Append(invites, row) /\ invites \in Seq(InviteRow)
      BY <1>2, <1>7 DEF Challenge, NoMatch, InviteRow, MatchTables
    <3> HIDE DEF row
    <3> QED BY <3>1, AppendProperties
  <2>3. \A m \in 1..Len(matches) : matches[m].invite # new
    BY <1>1, <1>2 DEF MatchTables
  <2>4. InTime(challenger.next, RequestTime)'
    BY <1>2, <2>1, <2>3 DEF InTime, Late
  <2>5. /\ new \in Nat /\ new # 0 /\ new \in 0..Len(invites') /\ 0 \in 0..Len(matches')
        /\ clock + RequestTime \in Nat /\ clock <= clock + RequestTime
    BY <1>1, <1>2, <2>2
  <2> QED BY <1>2, <2>1, <2>4, <2>5 DEF ChallengerTimely, ChallengerRow, Underway
<1>8. ASSUME CommandStep, challenger.at \in Underway
      PROVE  /\ challenger.invite \in 1..Len(invites)
             /\ challenger.invite \in 0..Len(invites') /\ challenger.invite # 0
             /\ challenger.match \in 0..Len(matches')
             /\ clock <= challenger.next /\ part' = "lobby"
             /\ \A time, slack \in Nat :
                  challenger'.invite = challenger.invite /\ InTime(time, slack)
                    => InTime(time, slack)'
  <2>1. /\ challenger.invite \in 1..Len(invites) /\ clock <= challenger.next
    BY <1>1, <1>2, <1>8 DEF ChallengerTimely
  <2>2. UNCHANGED <<invites, matches, cutShort>>
    BY <1>8, CommandFrame
  <2> QED BY <1>1, <1>2, <1>3, <2>1, <2>2 DEF InTime, Late
<1>9. CASE InviteAnswered
  <2> DEFINE due == clock + InviteTimeout
  <2>1. /\ challenger.at = "inviting"
        /\ challenger' = [challenger EXCEPT !.at = "waiting", !.next = clock,
                                            !.deadline = due]
    BY <1>9 DEF InviteAnswered
  <2>2. due \in Nat
    BY <1>2
  <2> HIDE DEF due
  <2>3. /\ challenger' \in ChallengerRow /\ challenger'.at = "waiting"
        /\ challenger'.next = clock /\ challenger'.invite = challenger.invite
        /\ challenger'.match = challenger.match /\ challenger'.missed = challenger.missed
    BY <1>2, <1>3, <2>1, <2>2 DEF ChallengerRow
  <2>4. InTime(clock, Slack(challenger.missed))
    <3>1. InTime(challenger.next, RequestTime) /\ clock <= challenger.next
      BY <1>2, <2>1 DEF ChallengerTimely, Underway
    <3>2. clock + RequestTime <= challenger.next + Slack(challenger.missed)
      BY <1>2, <1>3, <1>4, <3>1
    <3> QED BY <1>2, <1>3, <1>4, <3>1, <3>2, MoreSlack
  <2>5. InTime(clock, Slack(challenger.missed))'
    BY <1>2, <1>4, <1>8, <1>9, <2>1, <2>3, <2>4 DEF CommandStep, Underway
  <2> QED BY <1>2, <1>8, <1>9, <2>1, <2>3, <2>5
          DEF CommandStep, ChallengerTimely, Underway
<1>10. CASE Poll
  <2> DEFINE due == clock + RequestTime
             slack == Slack(challenger.missed) + RequestTime
  <2>1. /\ challenger.at = "waiting" /\ challenger.next <= clock
        /\ challenger' = [challenger EXCEPT !.at = "asking", !.next = due]
    BY <1>10 DEF Poll
  <2>2. due \in Nat /\ slack \in Nat /\ clock <= due /\ due <= clock + RequestTime
    BY <1>2, <1>4
  <2>3. challenger.next = clock /\ InTime(challenger.next, Slack(challenger.missed))
    BY <1>2, <1>3, <2>1 DEF ChallengerTimely, Underway
  <2>4. InTime(due, slack)
    <3>1. due + Slack(challenger.missed) <= challenger.next + slack
      BY <1>2, <1>4, <2>3
    <3> QED BY <1>2, <1>3, <1>4, <2>2, <2>3, <3>1, MoreSlack
  <2> HIDE DEF due, slack
  <2>5. /\ challenger' \in ChallengerRow /\ challenger'.at = "asking"
        /\ challenger'.next = due /\ challenger'.invite = challenger.invite
        /\ challenger'.match = challenger.match /\ challenger'.missed = challenger.missed
    BY <1>3, <2>1, <2>2 DEF ChallengerRow
  <2>6. InTime(due, slack)'
    BY <1>8, <1>10, <2>1, <2>2, <2>4, <2>5 DEF CommandStep, Underway, due, slack
  <2>7. InTime(challenger.next, Slack(challenger.missed) + RequestTime)'
    BY <2>5, <2>6 DEF slack, due
  <2> QED BY <1>2, <1>8, <1>10, <2>1, <2>2, <2>5, <2>7
          DEF CommandStep, ChallengerTimely, Underway, due
<1>11. CASE AnswerPoll
  <2> DEFINE i == challenger.invite
  <2>1. /\ challenger.at = "asking"
        /\ challenger' = [challenger EXCEPT !.at = "told", !.reply = invites[i].status,
                                            !.match = invites[i].match]
    BY <1>11 DEF AnswerPoll
  <2>2. i \in 1..Len(invites) /\ i \in 0..Len(invites') /\ i # 0 /\ part' = "lobby"
    BY <1>8, <1>11, <2>1 DEF CommandStep, Underway
  <2>3. /\ invites[i].match \in 0..Len(matches) /\ invites[i].match \in Nat
        /\ invites[i].status \in {"pending", "accepted", "declined"}
        /\ invites[i].status = "accepted" <=> invites[i].match # 0
        /\ i \notin cutShort =>
             \A m \in 1..Len(matches) : matches[m].invite = i <=> m = invites[i].match
    <3>1. invites[i] \in InviteRow
      BY <1>2, <2>2 DEF MatchTables
    <3> HIDE DEF i
    <3> QED BY <1>1, <1>2, <2>2, <3>1 DEF MatchTables, InviteRow
  <2>4. clock <= challenger.next /\ challenger.next <= clock + RequestTime
    BY <1>2, <2>1 DEF ChallengerTimely, Underway
  <2>5. /\ challenger' \in ChallengerRow /\ challenger'.at = "told"
        /\ challenger'.next = challenger.next /\ challenger'.invite = i
        /\ challenger'.match = invites[i].match /\ challenger'.reply = invites[i].status
    BY <1>3, <2>1, <2>3 DEF ChallengerRow
  <2>6. ASSUME invites[i].status = "pending"
        PROVE  InTime(challenger.next, RequestTime)'
    <3>1. InTime(challenger.next, RequestTime)
      BY <2>3, <2>4, <2>6 DEF InTime, Late
    <3> QED BY <1>2, <1>3, <1>8, <1>11, <2>1, <2>5, <3>1 DEF CommandStep, Underway
  <2>7. invites[i].match \in 0..Len(matches')
    BY <1>1, <2>3
  <2> HIDE DEF i
  <2> QED BY <1>2, <2>2, <2>3, <2>4, <2>5, <2>6, <2>7 DEF ChallengerTimely, Underway, i
<1>12. CASE challenger.at \in {"asking", "told"} /\ CommandStep
            /\ \E k \in {0, challenger.missed + 1} :
                 /\ challenger' = [challenger EXCEPT !.at = "waiting", !.next = NextPoll,
                                                     !.missed = k]
                 /\ InTime(NextPoll, Slack(k))
  <2>1. PICK k \in {0, challenger.missed + 1} :
          /\ challenger' = [challenger EXCEPT !.at = "waiting", !.next = NextPoll,
                                              !.missed = k]
          /\ InTime(NextPoll, Slack(k))
    BY <1>12
  <2>2. NextPoll \in Nat /\ clock <= NextPoll /\ k \in Nat /\ Slack(k) \in Nat
    <3>1. k \in Nat
      BY <1>3
    <3> QED BY <1>2, <3>1, SlackGrows DEF NextPoll
  <2> DEFINE due == clock + PollPeriod
  <2>3. /\ challenger' \in ChallengerRow /\ challenger'.at = "waiting"
        /\ challenger'.next = NextPoll /\ challenger'.invite = challenger.invite
        /\ challenger'.match = challenger.match /\ challenger'.missed = k
    BY <1>3, <2>1, <2>2 DEF ChallengerRow
  <2>4. /\ InTime(due, Slack(k))'
        /\ challenger.invite # 0 /\ challenger.invite \in 0..Len(invites')
        /\ challenger.match \in 0..Len(matches') /\ part' = "lobby"
    <3>1. due \in Nat /\ due' = due /\ InTime(due, Slack(k))
      BY <2>1, <2>2 DEF NextPoll
    <3> HIDE DEF due
    <3> QED BY <1>8, <1>12, <2>2, <2>3, <3>1 DEF Underway
  <2>5. InTime(challenger.next, Slack(challenger.missed))'
    <3>1. challenger'.next = due'
      BY <2>3 DEF NextPoll
    <3> HIDE DEF due
    <3> QED BY <2>3, <2>4, <3>1
  <2> QED BY <2>2, <2>3, <2>4, <2>5 DEF ChallengerTimely, Underway
<1>13. CASE Hear
  <2>1. CASE challenger.reply = "pending"
    <3>1. /\ challenger.at = "told"
          /\ challenger' = [challenger EXCEPT !.at = "waiting", !.next = NextPoll, !.missed = 0]
      BY <1>13, <2>1 DEF Hear
    <3>2. InTime(challenger.next, RequestTime) /\ clock <= challenger.next
      BY <1>2, <2>1, <3>1 DEF ChallengerTimely, Underway
    <3>3. NextPoll \in Nat /\ NextPoll + RequestTime <= challenger.next + Slack(0)
      BY <1>2, <1>3, <1>4, <3>2 DEF NextPoll
    <3>4. InTime(NextPoll, Slack(0))
      BY <1>2, <1>3, <1>4, <3>2, <3>3, MoreSlack
    <3> QED BY <1>12, <1>13, <3>1, <3>4 DEF CommandStep
  <2>2. CASE challenger.reply = "accepted"
    <3>1. /\ challenger.at = "told"
          /\ challenger' = [challenger EXCEPT !.at = "attacking"]
      BY <1>13, <2>2 DEF Hear
    <3>2. challenger.match # 0
      BY <1>2, <2>2, <3>1 DEF ChallengerTimely
    <3>3. /\ challenger' \in ChallengerRow /\ challenger'.at = "attacking"
          /\ challenger'.match = challenger.match /\ challenger'.invite = challenger.invite
      BY <1>3, <3>1 DEF ChallengerRow
    <3>4. challenger.invite \in 0..Len(invites') /\ challenger.match \in 0..Len(matches')
      BY <1>8, <1>13, <3>1 DEF CommandStep, Underway
    <3> QED BY <3>2, <3>3, <3>4 DEF ChallengerTimely, Underway
  <2>3. CASE challenger.reply = "declined"
    BY <1>6, <1>13, <2>3 DEF Hear
  <2> QED BY <1>3, <2>1, <2>2, <2>3
<1>14. CASE PollIgnored
  <2>1. /\ challenger.at = "asking"
        /\ challenger' = [challenger EXCEPT !.at = "waiting", !.next = NextPoll,
                                            !.missed = challenger.missed + 1]
    BY <1>14 DEF PollIgnored
  <2>2. /\ InTime(challenger.next, Slack(challenger.missed) + RequestTime)
        /\ clock <= challenger.next
    BY <1>2, <2>1 DEF ChallengerTimely, Underway
  <2>3. /\ NextPoll \in Nat /\ Slack(challenger.missed) + RequestTime \in Nat
        /\ Slack(challenger.missed + 1) \in Nat
        /\ NextPoll + (Slack(challenger.missed) + RequestTime)
             <= challenger.next + Slack(challenger.missed + 1)
    <3> DEFINE k == challenger.missed + 1
               old == Slack(challenger.missed)
               new == Slack(k)
               next == challenger.next
    <3>1. k \in Nat /\ old \in Nat /\ next \in Nat /\ clock <= next
      BY <1>3, <1>4, <2>2
    <3>2. new \in Nat
      BY <3>1, SlackGrows
    <3>3. new = old + Period
      BY <1>4
    <3> HIDE DEF k, old, new, next
    <3>4. /\ clock + PollPeriod \in Nat /\ old + RequestTime \in Nat
          /\ (clock + PollPeriod) + (old + RequestTime) <= next + new
      BY <1>2, <3>1, <3>2, <3>3
    <3> QED BY <3>2, <3>4 DEF NextPoll, k, old, new, next
  <2>4. InTime(NextPoll, Slack(challenger.missed + 1))
    BY <1>2, <1>3, <2>2, <2>3, MoreSlack
  <2> QED BY <1>12, <1>14, <2>1, <2>4 DEF CommandStep
<1>15. CASE GiveUpWaiting
  <2>1. /\ challenger.at = "waiting" /\ clock >= challenger.deadline
        /\ challenger' = [challenger EXCEPT !.at = "away", !.next = 0]
    BY <1>15 DEF GiveUpWaiting
  <2>2. /\ challenger' \in ChallengerRow /\ challenger'.at = "away"
        /\ challenger'.deadline = challenger.deadline
        /\ challenger'.match = challenger.match /\ challenger'.missed = challenger.missed
        /\ challenger'.invite = challenger.invite
    BY <1>3, <2>1 DEF ChallengerRow
  <2>3. InTime(challenger.next, Slack(challenger.missed)) /\ clock <= challenger.next
    BY <1>2, <2>1 DEF ChallengerTimely, Underway
  <2>4. InTime(challenger.deadline, Slack(challenger.missed))
    <3>1. challenger.deadline + Slack(challenger.missed)
            <= challenger.next + Slack(challenger.missed)
      BY <1>2, <1>3, <1>4, <2>1, <2>3
    <3> QED BY <1>2, <1>3, <1>4, <2>3, <3>1, MoreSlack
  <2>5. /\ InTime(challenger.deadline, Slack(challenger.missed))'
        /\ challenger.invite \in 0..Len(invites')
        /\ challenger.match \in 0..Len(matches')
    BY <1>3, <1>4, <1>8, <1>15, <2>1, <2>2, <2>4 DEF CommandStep, Underway
  <2> QED BY <2>2, <2>5 DEF ChallengerTimely, Underway
<1>16. CASE CommandStep
  BY <1>6, <1>9, <1>10, <1>11, <1>13, <1>14, <1>15, <1>16 DEF CommandStep, ChallengeBreaks
<1> QED BY <1>5, <1>6, <1>7, <1>16
        DEF LobbyStep, CommandStep, Accept, AcceptCutShort, Decline, SeeInvite, AttackEnds,
            MatchEnds, ListenerRestarts

LEMMA ListenerStillKnows ==
  ASSUME LobbyInv, LobbyStep, clock' = clock
  PROVE  ListenerKnows'
<1>1. /\ Len(invites) \in Nat /\ Len(invites') \in Nat /\ Len(invites) <= Len(invites')
      /\ Len(matches) \in Nat /\ Len(matches') \in Nat /\ Len(matches) <= Len(matches')
  BY TablesGrow
<1>2. /\ listener \in [at : {"listening", "accepting", "playing"}, invite : Nat, match : Nat,
                       seen : SUBSET Nat]
      /\ listener.invite \in 0..Len(invites) /\ listener.match \in 0..Len(matches)
      /\ ListenerKnows /\ MatchTables
  BY DEF LobbyInv, ListenerKnows
<1>3. listener.invite \in 0..Len(invites') /\ listener.match \in 0..Len(matches')
  BY <1>1, <1>2
<1>4. CASE UNCHANGED listener
  BY <1>2, <1>3, <1>4 DEF ListenerKnows
<1>5. CASE listener' = Listening
  BY <1>1, <1>5 DEF ListenerKnows, Listening, NoMatch
<1>6. CASE listener' = [listener EXCEPT !.at = "listening"]
  BY <1>2, <1>3, <1>6 DEF ListenerKnows
<1>7. CASE Accept /\ PendingInvite(listener.invite)
  <2>1. /\ listener' = [listener EXCEPT !.at = "playing", !.match = Len(matches) + 1]
        /\ matches' = Append(matches, NewMatch(listener.invite))
    BY <1>7 DEF Accept
  <2>2. Len(matches') = Len(matches) + 1
    <3>1. listener.invite \in 1..Len(invites)
      BY <1>1, <1>2, <1>7 DEF ListenerKnows, Accept
    <3> QED BY <1>2, <2>1, <3>1, MatchAdded
  <2>3. Len(matches) + 1 \in 0..Len(matches') /\ Len(matches) + 1 # 0 /\ Len(matches) + 1 \in Nat
    BY <1>1, <2>2
  <2> QED BY <1>2, <1>3, <2>1, <2>3 DEF ListenerKnows
<1>8. ASSUME NEW i \in DOMAIN invites, SeeInvite(i)
      PROVE  ListenerKnows'
  <2>1. PICK at \in {"accepting", "listening"} :
          listener' = [listener EXCEPT !.at = at, !.invite = i, !.seen = @ \cup {i}]
    BY <1>8 DEF SeeInvite
  <2>2. i \in 1..Len(invites)
    BY <1>2 DEF MatchTables
  <2>3. i \in Nat /\ i # 0 /\ i \in 0..Len(invites')
    BY <1>1, <2>2
  <2> QED BY <1>2, <1>3, <2>1, <2>3 DEF ListenerKnows
<1> QED BY <1>4, <1>5, <1>6, <1>7, <1>8, CommandFrame
        DEF LobbyStep, CommandStep, Challenge, Accept, AcceptCutShort, Decline,
            AttackEnds, MatchEnds, ListenerRestarts

LEMMA LobbyKept ==
  ASSUME LobbyInv, [Next]_platformVars
  PROVE  LobbyInv'
<1>1. CASE UNCHANGED <<lobbyVars, clock>> /\ UNCHANGED part
  BY <1>1 DEF LobbyInv, lobbyVars, MatchTables, ChallengerTimely, ListenerKnows, InTime,
              Late, Underway, Slack
<1>2. CASE part = "lobby" /\ LobbyStep /\ UNCHANGED clock /\ UNCHANGED part
  BY <1>2, TablesKept, ChallengerStaysTimely, ListenerStillKnows DEF LobbyInv
<1>3. CASE /\ UNCHANGED <<lobbyVars, part>> /\ clock' = clock + 1
           /\ challenger.at \in Underway => clock < challenger.next
  <2>1. clock \in Nat /\ clock' \in Nat /\ RequestTime \in Nat
    BY <1>3, LobbyAssumption DEF LobbyInv, MatchTables
  <2>2. MatchTables' /\ ListenerKnows'
    BY <1>3, <2>1 DEF LobbyInv, lobbyVars, MatchTables, ListenerKnows
  <2>3. /\ ChallengerTimely /\ challenger \in ChallengerRow
        /\ challenger.missed \in Nat /\ challenger.next \in Nat /\ challenger.deadline \in Nat
    BY DEF LobbyInv, ChallengerTimely, ChallengerRow
  <2>4. /\ challenger' = challenger /\ invites' = invites /\ matches' = matches
        /\ cutShort' = cutShort /\ part' = part
    BY <1>3 DEF lobbyVars
  <2>5. Slack(challenger.missed) \in Nat
    BY <2>3, SlackGrows
  <2> HIDE DEF Slack
  <2>6. \A time, slack \in Nat : InTime(time, slack) => InTime(time, slack)'
    BY <1>3, <2>1, <2>4 DEF InTime, Late
  <2>7. challenger.at \in Underway => clock' <= challenger.next
    BY <1>3, <2>1, <2>3
  <2>8. challenger.at = "asking" => challenger.next <= clock' + RequestTime
    BY <1>3, <2>1, <2>3 DEF ChallengerTimely
  <2>9. challenger.at \in {"inviting", "told"} /\ InTime(challenger.next, RequestTime)
          => InTime(challenger.next, RequestTime)'
    BY <2>1, <2>3, <2>4, <2>6
  <2>10. /\ InTime(challenger.next, Slack(challenger.missed))
             => InTime(challenger.next, Slack(challenger.missed))'
         /\ InTime(challenger.deadline, Slack(challenger.missed))
             => InTime(challenger.deadline, Slack(challenger.missed))'
         /\ InTime(challenger.next, Slack(challenger.missed) + RequestTime)
             => InTime(challenger.next, Slack(challenger.missed) + RequestTime)'
    <3>1. Slack(challenger.missed) + RequestTime \in Nat
      BY <2>1, <2>5
    <3> QED BY <2>3, <2>4, <2>5, <2>6, <3>1
  <2>11. ChallengerTimely'
    BY <2>3, <2>4, <2>7, <2>8, <2>9, <2>10 DEF ChallengerTimely, Slack
  <2> QED BY <2>2, <2>11 DEF LobbyInv
<1>4. CASE part # "lobby" /\ clock' \in {clock, clock + 1} /\ UNCHANGED lobbyVars
           /\ UNCHANGED part
  <2>1. challenger.at \notin Underway
    BY <1>4 DEF LobbyInv, ChallengerTimely
  <2> QED BY <1>1, <1>3, <1>4, <2>1
<1> QED BY <1>1, <1>2, <1>3, <1>4, OnlyOnePartMoves DEF LobbyTick, Tick, Underway

(* An invite makes one match, and the one it names, but where the lobby    *)
(* died between the two statements of an acceptance.                       *)
THEOREM OneMatchCorrect == Spec => []OneMatchPerInvite
<1>1. LobbyInv => OneMatchPerInvite
  <2> SUFFICES ASSUME LobbyInv, NEW i \in DOMAIN invites, i \notin cutShort
               PROVE  /\ MatchesOf(i) = {invites[i].match} \ {NoMatch}
                      /\ invites[i].status # "accepted" => MatchesOf(i) = {}
    BY DEF OneMatchPerInvite
  <2>1. /\ i \in 1..Len(invites) /\ DOMAIN matches = 1..Len(matches)
        /\ Len(matches) \in Nat
    BY DEF LobbyInv, MatchTables
  <2>2. /\ invites[i].match \in 0..Len(matches)
        /\ invites[i].status = "accepted" <=> invites[i].match # 0
        /\ \A m \in 1..Len(matches) : matches[m].invite = i <=> m = invites[i].match
    BY <2>1 DEF LobbyInv, MatchTables
  <2>3. 0 \notin 1..Len(matches) /\ \A m \in 0..Len(matches) : m # 0 => m \in 1..Len(matches)
    BY <2>1
  <2> QED BY <2>1, <2>2, <2>3 DEF MatchesOf, NoMatch
<1> QED BY <1>1, LobbyStart, LobbyKept, PTL DEF Spec

(* Who gave up waiting left a match behind only if it began in the last    *)
(* period before the deadline, or as many periods earlier as polls in a    *)
(* row had not been answered 200, or later; or the lobby died over it.     *)
THEOREM AbandonedCorrect == Spec => []AbandonedIfLate
<1>1. LobbyInv => AbandonedIfLate
  <2> SUFFICES ASSUME LobbyInv, challenger.at = "away", challenger.invite # 0,
                      NEW m \in MatchesOf(challenger.invite)
               PROVE  \/ matches[m].started + Slack(challenger.missed)
                           >= challenger.deadline
                      \/ challenger.invite \in cutShort
    BY DEF AbandonedIfLate
  <2>1. m \in 1..Len(matches) /\ matches[m].invite = challenger.invite
    BY DEF LobbyInv, MatchTables, MatchesOf
  <2>2. Late(challenger.invite, challenger.deadline, Slack(challenger.missed))
    BY DEF LobbyInv, ChallengerTimely, InTime
  <2> QED BY <2>1, <2>2 DEF Late
<1> QED BY <1>1, LobbyStart, LobbyKept, PTL DEF Spec

--------------------------------------------------------------------------
(* Accounts: one of each name *)

AccountRow ==
  [name : Founders \cup Names, email : Emails \cup {NoEmail},
   role : {"admin", "member"}, active : BOOLEAN, verified : BOOLEAN]
SignUp == [id : Requests, kind : {"signUp"}, name : Names, email : Emails,
           at : {"email", "insert"}]
Change == [id : Requests, kind : {"change"}, name : Founders \cup Names,
           change : Changes, at : {"count", "write"}, loaded : AccountRow]

(* A row that shares its name or address with a sign-up past the check of  *)
(* it was committed after that check, and is on record.                    *)
OnRecord(q, a) ==
  /\ Lower(a.name) = Lower(q.name) => Lower(q.name) \in sameName
  /\ (q.at = "insert" /\ q.email # NoEmail /\ a.email = q.email) => q.email \in sameName

NamesInv ==
  /\ accounts \in SUBSET AccountRow
  /\ requests \in SUBSET (SignUp \cup Change)
  /\ \A a, b \in accounts : a.name = b.name => a = b
  /\ \A q \in requests, a \in accounts : q.kind = "signUp" => OnRecord(q, a)
  /\ \A r \in requests : r.kind = "change" => \E a \in accounts : a.name = r.name
  /\ OneAccountEach

LEMMA NamesStart == Init => NamesInv
<1> SUFFICES ASSUME Init PROVE NamesInv
  OBVIOUS
<1>1. accounts = {Account(n, NoEmail, "admin") : n \in Founders} /\ requests = {}
  BY DEF Init, AccountsInit
<1>2. ASSUME NEW n \in Founders
      PROVE  Account(n, NoEmail, "admin") \in AccountRow /\ Account(n, NoEmail, "admin").name = n
             /\ Account(n, NoEmail, "admin").email = NoEmail
  BY DEF Account, AccountRow
<1>3. OneAccountEach
  <2> SUFFICES ASSUME NEW a \in accounts, NEW b \in accounts, a # b
               PROVE  Lower(a.name) # Lower(b.name) /\ a.email = NoEmail
    BY DEF OneAccountEach
  <2>1. PICK n \in Founders, m \in Founders :
          a = Account(n, NoEmail, "admin") /\ b = Account(m, NoEmail, "admin")
    BY <1>1
  <2>2. n # m /\ a.name = n /\ b.name = m /\ a.email = NoEmail
    BY <1>2, <2>1
  <2> QED BY <2>2, AccountsAssumption
<1>4. \A a, b \in accounts : a.name = b.name => a = b
  BY <1>1, <1>2
<1> QED BY <1>1, <1>2, <1>3, <1>4 DEF NamesInv

(* A row is written anew under the name and the address it had.            *)
LEMMA RowRewritten ==
  ASSUME NamesInv, NEW a \in accounts, NEW b \in AccountRow, b.name = a.name, b.email = a.email,
         Replace(a, b), requests' \subseteq requests, sameName' = sameName
  PROVE  NamesInv'
<1>1. accounts' = (accounts \ {a}) \cup {b}
  BY DEF Replace
<1>2. \A c \in accounts' : \E d \in accounts :
        d.name = c.name /\ d.email = c.email /\ (c = b <=> d = a)
  BY <1>1 DEF NamesInv
<1>3. \A d \in accounts : \E c \in accounts' : d.name = c.name
  BY <1>1
<1>4. \A c, d \in accounts' : c.name = d.name => c = d
  BY <1>1 DEF NamesInv
<1>5. \A q \in requests', c \in accounts' : q.kind = "signUp" => OnRecord(q, c)'
  BY <1>1, <1>2 DEF NamesInv, OnRecord
<1>6. OneAccountEach'
  <2> SUFFICES ASSUME NEW c \in accounts', NEW d \in accounts', c # d
               PROVE  /\ Lower(c.name) = Lower(d.name) => Lower(c.name) \in sameName
                      /\ c.email = d.email /\ c.email # NoEmail => c.email \in sameName
    BY DEF OneAccountEach
  <2>1. PICK e \in accounts : e.name = c.name /\ e.email = c.email
    BY <1>2
  <2>2. PICK f \in accounts : f.name = d.name /\ f.email = d.email
    BY <1>2
  <2>3. e # f
    BY <1>4, <2>1, <2>2
  <2> QED BY <2>1, <2>2, <2>3 DEF NamesInv, OneAccountEach
<1>7. accounts' \in SUBSET AccountRow /\ requests' \in SUBSET (SignUp \cup Change)
  BY <1>1 DEF NamesInv
<1>8. \A r \in requests' : r.kind = "change" => \E c \in accounts' : c.name = r.name
  BY <1>3 DEF NamesInv
<1> QED BY <1>4, <1>5, <1>6, <1>7, <1>8 DEF NamesInv

(* What a change does to a row.                                            *)
LEMMA ChangedRow ==
  ASSUME NEW a \in AccountRow, NEW change \in Changes
  PROVE  LET b == Changed(a, change)
         IN /\ b \in AccountRow /\ b.name = a.name /\ b.email = a.email
            /\ change = "admin" => b.role = "admin" /\ b.active = a.active
            /\ change = "active" => b.role = a.role /\ b.active
<1>1. CASE change \in {"admin", "member"}
  <2>1. Changed(a, change) = [a EXCEPT !.role = change]
    BY <1>1 DEF Changed
  <2> QED BY <1>1, <2>1 DEF AccountRow
<1>2. CASE change = "inactive"
  <2>1. Changed(a, change) = [a EXCEPT !.active = FALSE]
    BY <1>2 DEF Changed
  <2> QED BY <1>2, <2>1 DEF AccountRow
<1>3. CASE change = "active"
  <2>1. Changed(a, change) = [a EXCEPT !.active = TRUE]
    BY <1>3 DEF Changed
  <2> QED BY <1>3, <2>1 DEF AccountRow
<1> QED BY <1>1, <1>2, <1>3 DEF Changes

(* What the UPDATE replaces, and what by.                                  *)
LEMMA Written ==
  ASSUME NamesInv, NEW r \in requests, WriteUser(r)
  PROVE  \E a \in accounts : \E b \in AccountRow :
           /\ a.name = r.name /\ b.name = a.name /\ b.email = a.email
           /\ Replace(a, b) /\ requests' = requests \ {r} /\ sameName' = sameName
           /\ b = IF Changed(r.loaded, r.change) = r.loaded THEN a
                  ELSE Changed(a, r.change)
           /\ overtaken' =
                (overtaken \/ (b # a /\ \E q \in requests \ {r} : q.kind = "change"))
<1> DEFINE a == CHOOSE c \in accounts : c.name = r.name
           b == IF Changed(r.loaded, r.change) = r.loaded THEN a ELSE Changed(a, r.change)
<1>1. r \in Change
  BY DEF NamesInv, WriteUser, SignUp
<1>2. \E c \in accounts : c.name = r.name
  BY DEF NamesInv, WriteUser
<1>3. a \in accounts /\ a.name = r.name
  BY <1>2
<1>4. a \in AccountRow /\ r.change \in Changes
  BY <1>1, <1>3 DEF NamesInv, Change
<1>5. /\ Replace(a, b) /\ requests' = requests \ {r} /\ sameName' = sameName
      /\ overtaken' = (overtaken \/ (b # a /\ \E q \in requests \ {r} : q.kind = "change"))
  BY DEF WriteUser
<1> HIDE DEF a
<1>6. b \in AccountRow /\ b.name = a.name /\ b.email = a.email
  BY <1>4, ChangedRow
<1> HIDE DEF b
<1> QED BY <1>3, <1>5, <1>6 DEF b

LEMMA InsertKeepsNames ==
  ASSUME NamesInv, NEW r \in requests, InsertUser(r)
  PROVE  NamesInv'
<1>1. /\ r \in SignUp /\ r.at = "insert" /\ requests' = requests \ {r}
      /\ r.kind = "signUp"
  BY DEF NamesInv, InsertUser, Checking, Change, SignUp
<1>2. CASE UNCHANGED <<accounts, sameName>>
  BY <1>1, <1>2 DEF NamesInv, OneAccountEach, OnRecord
<1>3. CASE ~UNCHANGED <<accounts, sameName>>
  <2> DEFINE new == Account(r.name, r.email, "member")
  <2>1. /\ new \in AccountRow /\ new.name = r.name /\ new.email = r.email
    BY <1>1 DEF Account, AccountRow, SignUp
  <2>2. /\ \A a \in accounts : a.name # r.name
        /\ accounts' = accounts \cup {new} /\ sameName \subseteq sameName'
        /\ \A q \in requests \ {r} : q.kind = "signUp" =>
             /\ Lower(q.name) = Lower(r.name) => Lower(q.name) \in sameName'
             /\ (q.at = "insert" /\ q.email = r.email) => q.email \in sameName'
    BY <1>3 DEF InsertUser, Checking
  <2> HIDE DEF new
  <2>3. \A a \in accounts : OnRecord(r, a)
    BY <1>1 DEF NamesInv
  <2>4. \A q \in requests', a \in accounts' : q.kind = "signUp" => OnRecord(q, a)'
    <3> SUFFICES ASSUME NEW q \in requests \ {r}, NEW a \in accounts', q.kind = "signUp"
                 PROVE  OnRecord(q, a)'
      BY <1>1
    <3>1. CASE a \in accounts
      BY <2>2, <3>1 DEF NamesInv, OnRecord
    <3>2. CASE a = new
      BY <2>1, <2>2, <3>2 DEF OnRecord
    <3> QED BY <2>2, <3>1, <3>2
  <2>5. OneAccountEach'
    <3> SUFFICES ASSUME NEW a \in accounts', NEW b \in accounts', a # b
                 PROVE  /\ Lower(a.name) = Lower(b.name) => Lower(a.name) \in sameName'
                        /\ a.email = b.email /\ a.email # NoEmail => a.email \in sameName'
      BY DEF OneAccountEach
    <3>1. CASE a \in accounts /\ b \in accounts
      BY <2>2, <3>1 DEF NamesInv, OneAccountEach
    <3>2. CASE a \in accounts /\ b = new
      BY <1>1, <2>1, <2>2, <2>3, <3>2 DEF OnRecord
    <3>3. CASE a = new /\ b \in accounts
      BY <1>1, <2>1, <2>2, <2>3, <3>3 DEF OnRecord
    <3> QED BY <2>2, <3>1, <3>2, <3>3
  <2>6. /\ accounts' \in SUBSET AccountRow /\ requests' \in SUBSET (SignUp \cup Change)
        /\ \A a, b \in accounts' : a.name = b.name => a = b
        /\ \A q \in requests' : q.kind = "change" => \E a \in accounts' : a.name = q.name
    BY <1>1, <2>1, <2>2 DEF NamesInv
  <2> QED BY <2>4, <2>5, <2>6 DEF NamesInv
<1> QED BY <1>2, <1>3

LEMMA AdmitKeepsNames ==
  ASSUME NamesInv, NEW r \in requests, Admit(r)
  PROVE  NamesInv'
<1>1. r \in SignUp /\ r.kind = "signUp" /\ UNCHANGED <<accounts, sameName>>
  BY DEF NamesInv, Admit, Checking, Change, SignUp
<1>2. CASE requests' \subseteq requests
  BY <1>1, <1>2 DEF NamesInv, OneAccountEach, OnRecord
<1>3. CASE ~(requests' \subseteq requests)
  <2> DEFINE s == [r EXCEPT !.at = "insert"]
  <2>1. /\ s \in SignUp /\ s.name = r.name /\ s.email = r.email /\ s.kind = "signUp"
    BY <1>1 DEF SignUp
  <2>2. /\ requests' = (requests \ {r}) \cup {s}
        /\ r.email # NoEmail => \A a \in accounts : a.email # r.email
    BY <1>3 DEF Admit
  <2> HIDE DEF s
  <2>3. \A a \in accounts : OnRecord(r, a)
    BY <1>1 DEF NamesInv
  <2>4. \A a \in accounts : OnRecord(s, a)
    BY <2>1, <2>2, <2>3 DEF OnRecord
  <2>5. \A q \in requests', a \in accounts : q.kind = "signUp" => OnRecord(q, a)
    BY <2>2, <2>4 DEF NamesInv
  <2>6. /\ requests' \in SUBSET (SignUp \cup Change)
        /\ \A q \in requests' : q.kind = "change" => \E a \in accounts : a.name = q.name
    BY <2>1, <2>2 DEF NamesInv
  <2> QED BY <1>1, <2>5, <2>6 DEF NamesInv, OneAccountEach, OnRecord
<1> QED BY <1>2, <1>3

LEMMA NamesStep ==
  ASSUME NamesInv, [Next]_platformVars
  PROVE  NamesInv'
<1>1. CASE UNCHANGED <<accounts, sameName>> /\ requests' \subseteq requests
  BY <1>1 DEF NamesInv, OneAccountEach, OnRecord
<1>2. ASSUME NEW a \in accounts, VerifyEmail(a)
      PROVE  NamesInv'
  <2> DEFINE b == [a EXCEPT !.verified = TRUE]
  <2>1. a \in AccountRow
    BY DEF NamesInv
  <2>2. b \in AccountRow /\ b.name = a.name /\ b.email = a.email
    BY <2>1 DEF AccountRow
  <2> HIDE DEF b
  <2> QED BY <1>2, <2>2, RowRewritten DEF VerifyEmail, b
<1>3. ASSUME NEW id \in Requests, NEW n \in Names, NEW e \in Emails, Register(id, n, e)
      PROVE  NamesInv'
  <2> DEFINE q == [id |-> id, kind |-> "signUp", name |-> n, email |-> e, at |-> "email"]
  <2>1. q \in SignUp /\ q.kind = "signUp" /\ q.name = n /\ q.at = "email"
    BY DEF SignUp
  <2>2. /\ requests' = requests \cup {q} /\ UNCHANGED <<accounts, sameName>>
        /\ \A a \in accounts : Lower(a.name) # Lower(n)
    BY <1>3 DEF Register, SameName
  <2> HIDE DEF q
  <2>3. \A a \in accounts : OnRecord(q, a)
    BY <2>1, <2>2 DEF OnRecord
  <2> QED BY <2>1, <2>2, <2>3 DEF NamesInv, OneAccountEach, OnRecord
<1>4. ASSUME NEW r \in requests, Admit(r) \/ InsertUser(r) \/ GiveUp(r)
      PROVE  NamesInv'
  BY <1>1, <1>4, AdmitKeepsNames, InsertKeepsNames DEF GiveUp
<1>5. ASSUME NEW id \in Requests, NEW admin, NEW a \in accounts, NEW c \in Changes,
             ChangeUser(id, admin, a, c)
      PROVE  NamesInv'
  <2> DEFINE q == [id |-> id, kind |-> "change", name |-> a.name, change |-> c,
                   at |-> IF Removes(a, c) THEN "count" ELSE "write", loaded |-> a]
  <2>1. a \in AccountRow /\ a.name \in Founders \cup Names
    BY DEF NamesInv, AccountRow
  <2>2. q \in Change /\ q.kind = "change" /\ q.name = a.name
    BY <2>1 DEF Change
  <2>3. requests' = requests \cup {q} /\ UNCHANGED <<accounts, sameName>>
    BY <1>5 DEF ChangeUser
  <2> HIDE DEF q
  <2> QED BY <2>2, <2>3 DEF NamesInv, OneAccountEach, OnRecord
<1>6. ASSUME NEW r \in requests, CountAdmins(r)
      PROVE  NamesInv'
  <2> DEFINE s == [r EXCEPT !.at = "write"]
  <2>1. CASE requests' \subseteq requests
    BY <1>1, <1>6, <2>1 DEF CountAdmins
  <2>2. CASE requests' = (requests \ {r}) \cup {s}
    <3>1. r \in Change
      BY <1>6 DEF NamesInv, CountAdmins, SignUp
    <3>2. s \in Change /\ s.kind = "change" /\ s.name = r.name /\ r.kind = "change"
      BY <3>1 DEF Change
    <3>3. UNCHANGED <<accounts, sameName>>
      BY <1>6 DEF CountAdmins
    <3> HIDE DEF s
    <3> QED BY <2>2, <3>2, <3>3 DEF NamesInv, OneAccountEach, OnRecord
  <2> QED BY <1>6, <2>1, <2>2 DEF CountAdmins
<1>7. ASSUME NEW r \in requests, WriteUser(r)
      PROVE  NamesInv'
  <2>1. PICK a \in accounts : \E b \in AccountRow :
           /\ b.name = a.name /\ b.email = a.email
           /\ Replace(a, b) /\ requests' = requests \ {r} /\ sameName' = sameName
    BY <1>7, Written
  <2> QED BY <2>1, RowRewritten
<1>8. CASE SignUpStep \/ AdminStep
  BY <1>1, <1>2, <1>3, <1>4, <1>5, <1>6, <1>7, <1>8
     DEF SignUpStep, AdminStep, ForgotPassword, ApiRestarts, SignIn, GiveUp
<1> QED BY <1>1, <1>8, OnlyOnePartMoves DEF accountVars

(* Two accounts of one name or address come only from sign-ups that had    *)
(* both checked before either was committed.                               *)
THEOREM OneAccountCorrect == Spec => []OneAccountEach
<1>1. NamesInv => OneAccountEach
  BY DEF NamesInv
<1> QED BY <1>1, NamesStart, NamesStep, PTL DEF Spec

--------------------------------------------------------------------------
(* An active admin remains *)

(* What a change has loaded is what is there, and a change that is to take *)
(* an admin away has counted another one.                                  *)
UpToDate(r) ==
  /\ \A a \in accounts : a.name = r.name =>
                           a.role = r.loaded.role /\ a.active = r.loaded.active
  /\ (r.at = "write" /\ Removes(r.loaded, r.change)) =>
       \E a \in ActiveAdmins : a.name # r.name

AdminsInv ==
  ~overtaken =>
    /\ ActiveAdmins # {}
    /\ \A r \in requests : r.kind = "change" => UpToDate(r)

LEMMA AdminsStart == Init => AdminsInv
<1> SUFFICES ASSUME Init PROVE AdminsInv
  OBVIOUS
<1>1. accounts = {Account(n, NoEmail, "admin") : n \in Founders} /\ requests = {}
  BY DEF Init, AccountsInit
<1>2. PICK n \in Founders : TRUE
  BY AccountsAssumption
<1>3. Account(n, NoEmail, "admin") \in ActiveAdmins
  BY <1>1 DEF ActiveAdmins, Account
<1> QED BY <1>1, <1>3 DEF AdminsInv

(* Nothing is lost if each row still has its name, role and activation,    *)
(* and rows of new names come in.                                          *)
LEMMA RowsKept ==
  ASSUME NamesInv, AdminsInv, requests' \subseteq requests, overtaken' = overtaken,
         \A a \in accounts : \E b \in accounts' :
           b.name = a.name /\ b.role = a.role /\ b.active = a.active,
         \A b \in accounts' :
           \/ \E a \in accounts : b.name = a.name /\ b.role = a.role /\ b.active = a.active
           \/ \A a \in accounts : a.name # b.name
  PROVE  AdminsInv'
<1> SUFFICES ASSUME ~overtaken PROVE AdminsInv'
  BY DEF AdminsInv
<1>1. \A a \in ActiveAdmins : \E b \in ActiveAdmins' : b.name = a.name
  BY DEF ActiveAdmins
<1>2. ASSUME NEW r \in requests', r.kind = "change"
      PROVE  UpToDate(r)'
  <2>1. UpToDate(r)
    BY <1>2 DEF AdminsInv
  <2>2. PICK c \in accounts : c.name = r.name
    BY <1>2 DEF NamesInv
  <2>3. ASSUME NEW b \in accounts', b.name = r.name
        PROVE  b.role = r.loaded.role /\ b.active = r.loaded.active
    BY <2>1, <2>2, <2>3 DEF UpToDate
  <2>4. (r.at = "write" /\ Removes(r.loaded, r.change)) =>
          \E b \in ActiveAdmins' : b.name # r.name
    BY <1>1, <2>1 DEF UpToDate
  <2> QED BY <2>3, <2>4 DEF UpToDate
<1>3. ActiveAdmins' # {}
  BY <1>1 DEF AdminsInv
<1> QED BY <1>2, <1>3 DEF AdminsInv

(* Where more than one active admin is counted, there is another one.      *)
LEMMA AnotherAdmin ==
  ASSUME NamesInv, NEW n, ~(Cardinality(ActiveAdmins) <= 1)
  PROVE  \E a \in ActiveAdmins : a.name # n
<1> SUFFICES ASSUME \A a \in ActiveAdmins : a.name = n PROVE FALSE
  OBVIOUS
<1>1. CASE ActiveAdmins = {}
  BY <1>1, FS_EmptySet
<1>2. ASSUME NEW a \in ActiveAdmins
      PROVE  FALSE
  <2>1. \A b \in ActiveAdmins : b = a
    BY DEF NamesInv, ActiveAdmins
  <2>2. ActiveAdmins = {a}
    BY <2>1
  <2>3. Cardinality({a}) = 1
    BY FS_Singleton
  <2>4. Cardinality(ActiveAdmins) = 1
    BY <2>2, <2>3
  <2> QED BY <2>4
<1> QED BY <1>1, <1>2

LEMMA CountKeepsAdmins ==
  ASSUME NamesInv, AdminsInv, NEW r \in requests, CountAdmins(r)
  PROVE  AdminsInv'
<1> DEFINE s == [r EXCEPT !.at = "write"]
<1>1. UNCHANGED <<accounts, overtaken>>
  BY DEF CountAdmins
<1>2. CASE requests' \subseteq requests
  BY <1>1, <1>2 DEF AdminsInv, ActiveAdmins, UpToDate
<1>3. CASE requests' = (requests \ {r}) \cup {s} /\ ~(Cardinality(ActiveAdmins) <= 1)
  <2>1. r \in Change /\ r.kind = "change"
    BY DEF NamesInv, CountAdmins, SignUp
  <2>2. /\ s.kind = "change" /\ s.name = r.name /\ s.loaded = r.loaded
        /\ s.change = r.change
    BY <2>1 DEF Change
  <2>3. \E a \in ActiveAdmins : a.name # r.name
    BY <1>3, AnotherAdmin
  <2>4. ~overtaken => UpToDate(s)
    BY <2>1, <2>2, <2>3 DEF AdminsInv, UpToDate
  <2> HIDE DEF s
  <2>5. ~overtaken => \A q \in requests' : q.kind = "change" => UpToDate(q)
    BY <1>3, <2>4 DEF AdminsInv
  <2> QED BY <1>1, <2>5 DEF AdminsInv, ActiveAdmins, UpToDate
<1> QED BY <1>2, <1>3 DEF CountAdmins

LEMMA WriteKeepsAdmins ==
  ASSUME NamesInv, AdminsInv, NEW r \in requests, WriteUser(r)
  PROVE  AdminsInv'
<1>1. PICK a \in accounts : \E b \in AccountRow :
         /\ a.name = r.name /\ b.name = a.name /\ b.email = a.email
         /\ Replace(a, b) /\ requests' = requests \ {r} /\ sameName' = sameName
         /\ b = IF Changed(r.loaded, r.change) = r.loaded THEN a
                ELSE Changed(a, r.change)
         /\ overtaken' =
              (overtaken \/ (b # a /\ \E q \in requests \ {r} : q.kind = "change"))
  BY Written
<1>2. PICK b \in AccountRow :
         /\ a.name = r.name /\ b.name = a.name /\ b.email = a.email
         /\ Replace(a, b) /\ requests' = requests \ {r} /\ sameName' = sameName
         /\ b = IF Changed(r.loaded, r.change) = r.loaded THEN a
                ELSE Changed(a, r.change)
         /\ overtaken' =
              (overtaken \/ (b # a /\ \E q \in requests \ {r} : q.kind = "change"))
  BY <1>1
<1>3. accounts' = (accounts \ {a}) \cup {b}
  BY <1>2 DEF Replace
<1>4. CASE b = a
  <2>1. accounts' = accounts /\ (overtaken' <=> overtaken)
    BY <1>2, <1>3, <1>4
  <2> QED BY <1>2, <2>1 DEF AdminsInv, ActiveAdmins, UpToDate
<1>5. CASE b # a
  <2> SUFFICES ASSUME ~overtaken' PROVE AdminsInv'
    BY DEF AdminsInv
  <2>1. ~overtaken /\ \A q \in requests' : q.kind # "change"
    BY <1>2, <1>5
  <2>2. /\ r \in Change /\ r.kind = "change" /\ r.at = "write" /\ r.change \in Changes
        /\ a \in AccountRow
    BY DEF NamesInv, WriteUser, SignUp, Change
  <2>3. UpToDate(r) /\ a.role = r.loaded.role /\ a.active = r.loaded.active
    BY <1>2, <2>1, <2>2 DEF AdminsInv, UpToDate
  <2>4. b = Changed(a, r.change)
    BY <1>2, <1>5
  <2>5. ActiveAdmins' # {}
    <3>1. CASE Removes(r.loaded, r.change)
      <4>1. PICK c \in ActiveAdmins : c.name # r.name
        BY <2>2, <2>3, <3>1 DEF UpToDate
      <4>2. c \in accounts' /\ c.role = "admin" /\ c.active
        BY <1>2, <1>3, <4>1 DEF ActiveAdmins
      <4> QED BY <4>2 DEF ActiveAdmins
    <3>2. CASE ~Removes(r.loaded, r.change)
      <4>1. PICK c \in ActiveAdmins : TRUE
        BY <2>1 DEF AdminsInv
      <4>2. CASE c # a
        <5>1. c \in accounts' /\ c.role = "admin" /\ c.active
          BY <1>3, <4>2 DEF ActiveAdmins
        <5> QED BY <5>1 DEF ActiveAdmins
      <4>3. CASE c = a
        <5>1. a.role = "admin" /\ a.active /\ r.change \in {"admin", "active"}
          BY <2>2, <2>3, <3>2, <4>3 DEF ActiveAdmins, Removes, Changes
        <5>2. b.role = "admin" /\ b.active
          BY <2>2, <2>4, <5>1, ChangedRow
        <5> QED BY <1>3, <5>2 DEF ActiveAdmins
      <4> QED BY <4>2, <4>3
    <3> QED BY <3>1, <3>2
  <2> QED BY <2>1, <2>5 DEF AdminsInv
<1> QED BY <1>4, <1>5

LEMMA AdminsStep ==
  ASSUME NamesInv, AdminsInv, [Next]_platformVars
  PROVE  AdminsInv'
<1>1. CASE UNCHANGED <<accounts, overtaken>> /\ requests' \subseteq requests
  BY <1>1 DEF AdminsInv, ActiveAdmins, UpToDate
<1>2. ASSUME NEW a \in accounts, VerifyEmail(a)
      PROVE  AdminsInv'
  <2> DEFINE b == [a EXCEPT !.verified = TRUE]
  <2>1. a \in AccountRow
    BY DEF NamesInv
  <2>2. b.name = a.name /\ b.role = a.role /\ b.active = a.active
    BY <2>1 DEF AccountRow
  <2>3. /\ accounts' = (accounts \ {a}) \cup {b}
        /\ UNCHANGED <<requests, overtaken>>
    BY <1>2 DEF VerifyEmail, Replace
  <2> HIDE DEF b
  <2>4. /\ \A c \in accounts : \E d \in accounts' :
             d.name = c.name /\ d.role = c.role /\ d.active = c.active
        /\ \A d \in accounts' : \E c \in accounts :
             d.name = c.name /\ d.role = c.role /\ d.active = c.active
    BY <2>2, <2>3
  <2> QED BY <2>3, <2>4, RowsKept
<1>3. ASSUME UNCHANGED <<accounts, overtaken>>, NEW q, requests' \subseteq requests \cup {q},
             q.kind = "change" => UpToDate(q)
      PROVE  AdminsInv'
  <2>1. ~overtaken => \A r \in requests' : r.kind = "change" => UpToDate(r)
    BY <1>3 DEF AdminsInv
  <2> QED BY <1>3, <2>1 DEF AdminsInv, ActiveAdmins, UpToDate
<1>4. ASSUME NEW id \in Requests, NEW n \in Names, NEW e \in Emails, Register(id, n, e)
      PROVE  AdminsInv'
  <2> DEFINE q == [id |-> id, kind |-> "signUp", name |-> n, email |-> e, at |-> "email"]
  <2>1. q.kind # "change" /\ requests' = requests \cup {q} /\ UNCHANGED <<accounts, overtaken>>
    BY <1>4 DEF Register
  <2> HIDE DEF q
  <2> QED BY <1>3, <2>1
<1>5. ASSUME NEW r \in requests, Admit(r)
      PROVE  AdminsInv'
  <2> DEFINE s == [r EXCEPT !.at = "insert"]
  <2>1. r \in SignUp /\ UNCHANGED <<accounts, overtaken>>
    BY <1>5 DEF NamesInv, Admit, Checking, Change
  <2>2. s.kind # "change"
    BY <2>1 DEF SignUp
  <2>3. requests' \subseteq requests \cup {s}
    BY <1>5 DEF Admit
  <2> HIDE DEF s
  <2> QED BY <1>3, <2>1, <2>2, <2>3
<1>6. ASSUME NEW r \in requests, InsertUser(r)
      PROVE  AdminsInv'
  <2>1. requests' \subseteq requests /\ overtaken' = overtaken
    BY <1>6 DEF InsertUser
  <2>2. CASE accounts' = accounts
    BY <1>1, <2>1, <2>2
  <2>3. CASE accounts' # accounts
    <3> DEFINE new == Account(r.name, r.email, "member")
    <3>1. new.name = r.name
      BY DEF Account
    <3>2. accounts' = accounts \cup {new} /\ \A a \in accounts : a.name # r.name
      BY <1>6, <2>3 DEF InsertUser
    <3> HIDE DEF new
    <3> QED BY <2>1, <3>1, <3>2, RowsKept
  <2> QED BY <2>2, <2>3
<1>7. ASSUME NEW id \in Requests, NEW admin, NEW a \in accounts, NEW c \in Changes,
             ChangeUser(id, admin, a, c)
      PROVE  AdminsInv'
  <2> DEFINE q == [id |-> id, kind |-> "change", name |-> a.name, change |-> c,
                   at |-> IF Removes(a, c) THEN "count" ELSE "write", loaded |-> a]
  <2>1. requests' = requests \cup {q} /\ UNCHANGED <<accounts, overtaken>>
    BY <1>7 DEF ChangeUser
  <2>2. q.name = a.name /\ q.loaded = a /\ q.change = c /\ (q.at = "write" => ~Removes(a, c))
    OBVIOUS
  <2> HIDE DEF q
  <2>3. UpToDate(q)
    BY <2>2 DEF UpToDate, NamesInv
  <2> QED BY <1>3, <2>1, <2>3
<1>8. ASSUME NEW r \in requests, CountAdmins(r)
      PROVE  AdminsInv'
  BY <1>8, CountKeepsAdmins
<1>9. ASSUME NEW r \in requests, WriteUser(r)
      PROVE  AdminsInv'
  BY <1>9, WriteKeepsAdmins
<1>10. CASE SignUpStep \/ AdminStep
  BY <1>1, <1>2, <1>4, <1>5, <1>6, <1>7, <1>8, <1>9, <1>10
     DEF SignUpStep, AdminStep, ForgotPassword, ApiRestarts, SignIn, GiveUp
<1> QED BY <1>1, <1>10, OnlyOnePartMoves DEF accountVars

(* There is an active admin left, but where two changes of roles or        *)
(* activation overlapped and one had counted what the other took away.     *)
THEOREM AdminsCorrect == Spec => []AdminsRemain
<1>1. AdminsInv => AdminsRemain
  BY DEF AdminsInv, AdminsRemain
<1> QED BY <1>1, NamesStart, NamesStep, AdminsStart, AdminsStep, PTL DEF Spec
=============================================================================
