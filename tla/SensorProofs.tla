---------------------------- MODULE SensorProofs ----------------------------
(***************************************************************************)
(* What holds of the honeypots' connections, of the reputation lookups and *)
(* of the attack runs, for any number of connections, captures, workers,   *)
(* days and sessions.                                                      *)
(***************************************************************************)
EXTENDS Platform, FiniteSetTheorems, SequenceTheorems, TLAPS

--------------------------------------------------------------------------
(* Lists without repetition: as long as they have elements *)

Counted(q) == IsFiniteSet(Range(q)) /\ Cardinality(Range(q)) = Len(q)

LEMMA EmptyCounted == <<>> \in Seq(Nat) /\ Range(<<>>) = {} /\ Counted(<<>>)
<1>1. <<>> \in Seq(Nat) /\ Len(<<>>) = 0 /\ DOMAIN <<>> = {}
  OBVIOUS
<1>2. Range(<<>>) = {}
  BY <1>1 DEF Range
<1> QED BY <1>1, <1>2, FS_EmptySet DEF Counted

LEMMA ListGrows ==
  ASSUME NEW q \in Seq(Nat), NEW x \in Nat
  PROVE  /\ Append(q, x) \in Seq(Nat)
         /\ Range(Append(q, x)) = Range(q) \cup {x}
         /\ (Counted(q) /\ x \notin Range(q)) => Counted(Append(q, x))
<1> DEFINE n == Len(q)
           a == Append(q, x)
<1>1. /\ n \in Nat /\ DOMAIN q = 1..n
      /\ a \in Seq(Nat) /\ Len(a) = n + 1 /\ DOMAIN a = 1..(n + 1) /\ a[n + 1] = x
      /\ \A i \in 1..n : a[i] = q[i]
  BY AppendProperties
<1>2. 1..(n + 1) = (1..n) \cup {n + 1}
  BY <1>1
<1> HIDE DEF n, a
<1>3. Range(a) = {a[i] : i \in (1..n) \cup {n + 1}} /\ Range(q) = {q[i] : i \in 1..n}
  BY <1>1, <1>2 DEF Range
<1>4. Range(a) = Range(q) \cup {x}
  BY <1>1, <1>3
<1>5. ASSUME Counted(q), x \notin Range(q) PROVE Counted(a)
  <2>1. IsFiniteSet(Range(q) \cup {x}) /\ Cardinality(Range(q) \cup {x}) = n + 1
    BY <1>1, <1>5, FS_AddElement DEF Counted, n
  <2> QED BY <1>1, <1>4, <2>1 DEF Counted
<1> QED BY <1>1, <1>4, <1>5 DEF a

LEMMA ListsJoined ==
  ASSUME NEW p \in Seq(Nat), NEW q \in Seq(Nat)
  PROVE  /\ p \o q \in Seq(Nat)
         /\ Range(p \o q) = Range(p) \cup Range(q)
         /\ (Counted(p) /\ Counted(q) /\ Range(p) \cap Range(q) = {}) => Counted(p \o q)
<1> DEFINE m == Len(p)
           n == Len(q)
           r == p \o q
<1>1. /\ m \in Nat /\ n \in Nat /\ DOMAIN p = 1..m /\ DOMAIN q = 1..n
      /\ r \in Seq(Nat) /\ Len(r) = m + n /\ DOMAIN r = 1..(m + n)
      /\ \A i \in 1..(m + n) : r[i] = IF i <= m THEN p[i] ELSE q[i - m]
  BY ConcatProperties
<1> HIDE DEF m, n, r
<1>2. \A i \in 1..m : i \in 1..(m + n) /\ r[i] = p[i]
  BY <1>1
<1>3. \A i \in 1..n : m + i \in 1..(m + n) /\ r[m + i] = q[i]
  BY <1>1
<1>4. \A i \in 1..(m + n) : (i \in 1..m /\ r[i] = p[i])
                            \/ (i - m \in 1..n /\ r[i] = q[i - m])
  BY <1>1
<1>5. Range(r) \subseteq Range(p) \cup Range(q)
  BY <1>1, <1>4 DEF Range
<1>6. Range(p) \cup Range(q) \subseteq Range(r)
  <2>1. \A i \in 1..m : p[i] \in Range(r)
    BY <1>1, <1>2 DEF Range
  <2>2. \A i \in 1..n : q[i] \in Range(r)
    BY <1>1, <1>3 DEF Range
  <2>3. \A x \in Range(p) : \E i \in 1..m : x = p[i]
    BY <1>1 DEF Range
  <2>4. \A x \in Range(q) : \E i \in 1..n : x = q[i]
    BY <1>1 DEF Range
  <2> QED BY <2>1, <2>2, <2>3, <2>4
<1>7. Range(r) = Range(p) \cup Range(q)
  BY <1>5, <1>6
<1>8. ASSUME Counted(p), Counted(q), Range(p) \cap Range(q) = {}
      PROVE  Counted(r)
  <2>1. /\ IsFiniteSet(Range(p)) /\ Cardinality(Range(p)) = m
        /\ IsFiniteSet(Range(q)) /\ Cardinality(Range(q)) = n
    BY <1>8 DEF Counted, m, n
  <2>2. /\ IsFiniteSet(Range(p) \cup Range(q))
        /\ Cardinality(Range(p) \cup Range(q)) = m + n - Cardinality(Range(p) \cap Range(q))
    BY <2>1, FS_Union
  <2>3. Cardinality(Range(p) \cap Range(q)) = 0
    BY <1>8, FS_EmptySet
  <2>4. Cardinality(Range(p) \cup Range(q)) = m + n
    BY <1>1, <2>2, <2>3
  <2> QED BY <1>1, <1>7, <2>2, <2>4 DEF Counted
<1> QED BY <1>1, <1>7, <1>8 DEF r

--------------------------------------------------------------------------
(* What an SSH connection has captured is accounted for *)

Looking == {"handshake", "accept", "copy", "wait", "copy again", "shell", "finally"}
Copied == {"clear", "clear again", "closing"}
Through == {"persist", "close"}

SshRecord ==
  [at : {"none", "over"} \cup Looking \cup Copied \cup Through,
   up : BOOLEAN, checking : BOOLEAN, granted : BOOLEAN, channel : BOOLEAN,
   event : BOOLEAN, captured : Seq(Nat), captures : Seq(Nat), made : Nat,
   gap : SUBSET Nat, stored : SUBSET Nat, row : {"none", "open", "closed"}, count : Nat]

(* Everything captured is in the buffer, in the list or lost in the gap,   *)
(* and nothing is to be copied twice; a buffer that has been copied holds  *)
(* nothing else that is not lost.                                          *)
AllThere(s) ==
  /\ Counted(s.captured) /\ Counted(s.captures)
  /\ Range(s.captured) \cup Range(s.captures) \subseteq 1..s.made
  /\ s.at \in {"none"} \cup Looking \cup Copied =>
       1..s.made \subseteq s.gap \cup Range(s.captured) \cup Range(s.captures)
  /\ s.at \in {"none"} \cup Looking => Range(s.captured) \cap Range(s.captures) = {}
  /\ s.at \in Copied => Range(s.captured) \subseteq s.gap \cup Range(s.captures)
  /\ s.at \in Through => ~s.up /\ 1..s.made \subseteq s.gap \cup Range(s.captures)
  /\ s.at = "close" => s.stored = Range(s.captures)
  /\ s.row = "closed" =>
       /\ s.at = "over"
       /\ (1..s.made) \ s.gap \subseteq s.stored
       /\ s.count = Cardinality(s.stored)

SshInv == ssh \in [Connections -> SshRecord] /\ \A c \in Connections : AllThere(ssh[c])

LEMMA SshStart == Init => SshInv
<1>1. NoConnection \in SshRecord
  BY EmptyCounted DEF NoConnection, SshRecord
<1>2. AllThere(NoConnection)
  <2>1. 1..0 = {}
    OBVIOUS
  <2> QED BY <2>1, EmptyCounted DEF NoConnection, AllThere, Through, Copied
<1> QED BY <1>1, <1>2 DEF Init, SshInit, SshInv

(* A step of one connection.                                               *)
LEMMA OneConnection ==
  ASSUME SshInv, NEW c \in Connections, NEW s \in SshRecord, AllThere(s),
         ssh' = [ssh EXCEPT ![c] = s]
  PROVE  SshInv'
<1>1. ssh' \in [Connections -> SshRecord] /\ \A d \in Connections : AllThere(ssh'[d])
  BY DEF SshInv
<1> QED BY <1>1 DEF SshInv

(* What is beside the point: flags, and where the thread is before it has  *)
(* copied or after it is through.                                          *)
LEMMA SameLists ==
  ASSUME NEW s \in SshRecord, NEW t \in SshRecord, AllThere(s), s.row # "closed",
         t.captured = s.captured, t.captures = s.captures, t.made = s.made,
         t.gap = s.gap, t.row # "closed",
         \/ s.at \in {"none"} \cup Looking /\ t.at \in {"none", "over"} \cup Looking
         \/ t.at = "over"
         \/ s.at = t.at /\ s.up = t.up /\ s.stored = t.stored
  PROVE  AllThere(t)
<1>1. CASE s.at \in {"none"} \cup Looking /\ t.at \in {"none", "over"} \cup Looking
  BY <1>1 DEF AllThere, Looking, Copied, Through
<1>2. CASE t.at = "over"
  BY <1>2 DEF AllThere, Looking, Copied, Through
<1>3. CASE s.at = t.at /\ s.up = t.up /\ s.stored = t.stored
  BY <1>3 DEF AllThere
<1> QED BY <1>1, <1>2, <1>3

(* The next number is new.                                                 *)
LEMMA NextNumber ==
  ASSUME NEW s \in SshRecord, AllThere(s)
  PROVE  /\ s.made \in Nat /\ s.made + 1 \in Nat
         /\ s.made + 1 \notin Range(s.captured) \cup Range(s.captures)
         /\ 1..(s.made + 1) = (1..s.made) \cup {s.made + 1}
<1>1. s.made \in Nat
  BY DEF SshRecord
<1>2. s.made + 1 \notin 1..s.made /\ 1..(s.made + 1) = (1..s.made) \cup {s.made + 1}
  BY <1>1
<1> QED BY <1>1, <1>2 DEF AllThere

(* A capture goes to the buffer, and is lost if that is not looked at.     *)
LEMMA CapturedKept ==
  ASSUME SshInv, NEW c \in Connections, Busy(c)
  PROVE  /\ Captured(c) \in SshRecord /\ AllThere(Captured(c))
         /\ Captured(c).row # "closed" /\ ssh[c].row # "closed"
<1> DEFINE s == ssh[c]
           x == s.made + 1
           t == Captured(c)
<1>1. s \in SshRecord /\ AllThere(s)
  BY DEF SshInv
<1>2. /\ s.made \in Nat /\ x \in Nat /\ x \notin Range(s.captured) \cup Range(s.captures)
      /\ 1..x = (1..s.made) \cup {x}
  BY <1>1, NextNumber
<1>3. /\ s.captured \in Seq(Nat) /\ s.gap \in SUBSET Nat
  BY <1>1 DEF SshRecord
<1>4. /\ Append(s.captured, x) \in Seq(Nat)
      /\ Range(Append(s.captured, x)) = Range(s.captured) \cup {x}
      /\ Counted(Append(s.captured, x))
  BY <1>1, <1>2, <1>3, ListGrows DEF AllThere
<1>5. s.at \in Looking \cup Copied /\ s.row # "closed"
  BY <1>1 DEF Busy, AllThere, SshRecord
<1>6. t = [s EXCEPT !.made = x, !.captured = Append(s.captured, x),
                    !.gap = IF s.at \in Copied THEN s.gap \cup {x} ELSE s.gap]
  BY DEF Captured, Number, Unseen, Copied
<1> HIDE DEF s, x, t
<1>7. /\ t \in SshRecord /\ t.made = x /\ t.captured = Append(s.captured, x)
      /\ t.gap = IF s.at \in Copied THEN s.gap \cup {x} ELSE s.gap
      /\ t.at = s.at /\ t.captures = s.captures /\ t.row = s.row
  BY <1>1, <1>2, <1>3, <1>4, <1>6 DEF SshRecord
<1>8. AllThere(t)
  <2>1. CASE s.at \in Copied
    <3>1. s.at \notin {"none"} \cup Looking \cup Through /\ s.at # "close"
      BY <2>1 DEF Copied, Looking, Through
    <3>2. /\ Range(t.captured) = Range(s.captured) \cup {x}
          /\ t.gap = s.gap \cup {x} /\ Range(t.captures) = Range(s.captures)
          /\ Counted(t.captured) /\ Counted(t.captures)
      BY <1>1, <1>4, <1>7, <2>1 DEF AllThere
    <3>3. /\ Range(s.captured) \cup Range(s.captures) \subseteq 1..s.made
          /\ 1..s.made \subseteq s.gap \cup Range(s.captured) \cup Range(s.captures)
          /\ Range(s.captured) \subseteq s.gap \cup Range(s.captures)
      BY <1>1, <2>1 DEF AllThere
    <3>4. /\ Range(t.captured) \cup Range(t.captures) \subseteq 1..t.made
          /\ 1..t.made \subseteq t.gap \cup Range(t.captured) \cup Range(t.captures)
          /\ Range(t.captured) \subseteq t.gap \cup Range(t.captures)
      BY <1>2, <1>7, <3>2, <3>3
    <3> QED BY <1>5, <1>7, <3>1, <3>2, <3>4 DEF AllThere
  <2>2. CASE s.at \in Looking
    <3>1. s.at \notin Copied \cup Through /\ s.at # "close"
      BY <2>2 DEF Copied, Looking, Through
    <3>2. /\ Range(t.captured) = Range(s.captured) \cup {x}
          /\ t.gap = s.gap /\ Range(t.captures) = Range(s.captures)
          /\ Counted(t.captured) /\ Counted(t.captures)
      BY <1>1, <1>4, <1>7, <3>1 DEF AllThere
    <3>3. /\ Range(s.captured) \cup Range(s.captures) \subseteq 1..s.made
          /\ 1..s.made \subseteq s.gap \cup Range(s.captured) \cup Range(s.captures)
          /\ Range(s.captured) \cap Range(s.captures) = {}
      BY <1>1, <2>2 DEF AllThere
    <3>4. /\ Range(t.captured) \cup Range(t.captures) \subseteq 1..t.made
          /\ 1..t.made \subseteq t.gap \cup Range(t.captured) \cup Range(t.captures)
          /\ Range(t.captured) \cap Range(t.captures) = {}
      BY <1>2, <1>7, <3>2, <3>3
    <3> QED BY <1>5, <1>7, <3>1, <3>2, <3>4 DEF AllThere
  <2> QED BY <1>5, <2>1, <2>2
<1> QED BY <1>5, <1>7, <1>8 DEF t, s

(* A capture of the thread's own goes to the list.                         *)
LEMMA NotedKept ==
  ASSUME SshInv, NEW c \in Connections, ssh[c].at \in Looking
  PROVE  /\ Noted(c) \in SshRecord /\ AllThere(Noted(c))
         /\ Noted(c).row # "closed" /\ Noted(c).at = ssh[c].at
<1> DEFINE s == ssh[c]
           x == s.made + 1
           t == Noted(c)
<1>1. s \in SshRecord /\ AllThere(s)
  BY DEF SshInv
<1>2. /\ s.made \in Nat /\ x \in Nat /\ x \notin Range(s.captured) \cup Range(s.captures)
      /\ 1..x = (1..s.made) \cup {x}
  BY <1>1, NextNumber
<1>3. s.captures \in Seq(Nat)
  BY <1>1 DEF SshRecord
<1>4. /\ Append(s.captures, x) \in Seq(Nat)
      /\ Range(Append(s.captures, x)) = Range(s.captures) \cup {x}
      /\ Counted(Append(s.captures, x))
  BY <1>1, <1>2, <1>3, ListGrows DEF AllThere
<1>5. s.at \in Looking /\ s.at \notin Copied \cup Through /\ s.at # "close" /\ s.at # "over"
  BY DEF Looking, Copied, Through
<1>6. t = [s EXCEPT !.made = x, !.captures = Append(s.captures, x)]
  BY DEF Noted, Number
<1>7. s.row # "closed"
  BY <1>1, <1>5 DEF AllThere
<1> HIDE DEF s, x, t
<1>8. /\ t \in SshRecord /\ t.made = x /\ t.captures = Append(s.captures, x)
      /\ t.gap = s.gap /\ t.at = s.at /\ t.captured = s.captured /\ t.row = s.row
  BY <1>1, <1>2, <1>4, <1>6 DEF SshRecord
<1>9. AllThere(t)
  BY SMTT(20), <1>1, <1>2, <1>4, <1>5, <1>7, <1>8 DEF AllThere
<1> QED BY <1>7, <1>8, <1>9 DEF t, s

LEMMA ParamikoKeeps ==
  ASSUME SshInv, NEW c \in Connections, ParamikoStep(c)
  PROVE  SshInv'
<1>0. ssh[c] \in SshRecord /\ AllThere(ssh[c])
  BY DEF SshInv
<1>1. ASSUME Busy(c), NEW t \in {[Captured(c) EXCEPT !.checking = TRUE], Captured(c),
                                 [Captured(c) EXCEPT !.event = TRUE]},
             ssh' = [ssh EXCEPT ![c] = t]
      PROVE  SshInv'
  <2> DEFINE s == Captured(c)
  <2>1. s \in SshRecord /\ AllThere(s) /\ s.row # "closed"
    BY <1>1, CapturedKept
  <2>2. t \in {[s EXCEPT !.checking = TRUE], s, [s EXCEPT !.event = TRUE]}
    BY <1>1
  <2> HIDE DEF s
  <2>3. /\ t \in SshRecord /\ t.captured = s.captured /\ t.captures = s.captures
        /\ t.made = s.made /\ t.gap = s.gap /\ t.row = s.row
        /\ t.at = s.at /\ t.up = s.up /\ t.stored = s.stored
    <3>1. CASE t = s
      BY <2>1, <3>1
    <3>2. CASE t = [s EXCEPT !.checking = TRUE]
      BY <2>1, <3>2 DEF SshRecord
    <3>3. CASE t = [s EXCEPT !.event = TRUE]
      BY <2>1, <3>3 DEF SshRecord
    <3> QED BY <2>2, <3>1, <3>2, <3>3
  <2>4. AllThere(t)
    BY <2>1, <2>3, SameLists
  <2> QED BY <1>1, <2>3, <2>4, OneConnection
<1>2. ASSUME NEW t \in SshRecord, ssh' = [ssh EXCEPT ![c] = t],
             t.captured = ssh[c].captured, t.captures = ssh[c].captures,
             t.made = ssh[c].made, t.gap = ssh[c].gap, t.row = ssh[c].row, t.at = ssh[c].at,
             t.up = ssh[c].up, t.stored = ssh[c].stored, t.count = ssh[c].count
      PROVE  SshInv'
  <2>1. AllThere(t)
    BY <1>0, <1>2 DEF AllThere
  <2> QED BY <1>2, <2>1, OneConnection
<1>3. CASE AttemptPassword(c) \/ AttemptPublicKey(c) \/ RequestExec(c)
  <2>1. Busy(c)
    BY <1>3 DEF AttemptPassword, AttemptPublicKey, RequestExec
  <2>2. \/ ssh' = [ssh EXCEPT ![c] = [Captured(c) EXCEPT !.checking = TRUE]]
        \/ ssh' = [ssh EXCEPT ![c] = Captured(c)]
        \/ ssh' = [ssh EXCEPT ![c] = [Captured(c) EXCEPT !.event = TRUE]]
    BY <1>3 DEF AttemptPassword, AttemptPublicKey, RequestExec
  <2> QED BY <1>1, <2>1, <2>2
<1>4. ASSUME NEW granted \in BOOLEAN,
             ssh' = [ssh EXCEPT ![c].checking = FALSE, ![c].granted = granted]
      PROVE  SshInv'
  <2> DEFINE t == [ssh[c] EXCEPT !.checking = FALSE, !.granted = granted]
  <2>1. ssh' = [ssh EXCEPT ![c] = t]
    BY <1>4
  <2>2. /\ t \in SshRecord /\ t.captured = ssh[c].captured /\ t.captures = ssh[c].captures
        /\ t.made = ssh[c].made /\ t.gap = ssh[c].gap /\ t.row = ssh[c].row /\ t.at = ssh[c].at
        /\ t.up = ssh[c].up /\ t.stored = ssh[c].stored /\ t.count = ssh[c].count
    BY <1>0 DEF SshRecord
  <2> HIDE DEF t
  <2> QED BY <1>2, <2>1, <2>2
<1>5. CASE CheckAttempt(c)
  <2> DEFINE enough == tries + 1 >= GrantFrom
  <2>1. enough \in BOOLEAN
    OBVIOUS
  <2>2. ssh' = [ssh EXCEPT ![c].checking = FALSE, ![c].granted = enough]
    BY <1>5 DEF CheckAttempt
  <2> HIDE DEF enough
  <2> QED BY <1>4, <2>1, <2>2
<1>6. CASE CheckFails(c) \/ OpenChannel(c) \/ RequestShell(c)
  <2>1. PICK t \in {[ssh[c] EXCEPT !.checking = FALSE], [ssh[c] EXCEPT !.channel = TRUE],
                    [ssh[c] EXCEPT !.event = TRUE]} : ssh' = [ssh EXCEPT ![c] = t]
    BY <1>6 DEF CheckFails, OpenChannel, RequestShell
  <2>2. /\ t \in SshRecord /\ t.captured = ssh[c].captured /\ t.captures = ssh[c].captures
        /\ t.made = ssh[c].made /\ t.gap = ssh[c].gap /\ t.row = ssh[c].row /\ t.at = ssh[c].at
        /\ t.up = ssh[c].up /\ t.stored = ssh[c].stored /\ t.count = ssh[c].count
    <3>1. CASE t = [ssh[c] EXCEPT !.checking = FALSE]
      BY <1>0, <3>1 DEF SshRecord
    <3>2. CASE t = [ssh[c] EXCEPT !.channel = TRUE]
      BY <1>0, <3>2 DEF SshRecord
    <3>3. CASE t = [ssh[c] EXCEPT !.event = TRUE]
      BY <1>0, <3>3 DEF SshRecord
    <3> QED BY <2>1, <3>1, <3>2, <3>3
  <2> QED BY <1>2, <2>1, <2>2
<1> QED BY <1>3, <1>5, <1>6 DEF ParamikoStep

(* The thread goes on to another step that is no closer look.              *)
LEMMA GotoKeeps ==
  ASSUME SshInv, NEW c \in Connections, NEW step, Goto(c, step),
         ssh[c].at # "over",
         \/ step = "over"
         \/ ssh[c].at \in Looking /\ step \in Looking
  PROVE  SshInv'
<1> DEFINE t == [ssh[c] EXCEPT !.at = step]
<1>0. ssh[c] \in SshRecord /\ AllThere(ssh[c]) /\ ssh[c].row # "closed"
  BY DEF SshInv, AllThere
<1>1. ssh' = [ssh EXCEPT ![c] = t]
  BY DEF Goto
<1>2. /\ t \in SshRecord /\ t.captured = ssh[c].captured /\ t.captures = ssh[c].captures
      /\ t.made = ssh[c].made /\ t.gap = ssh[c].gap /\ t.row = ssh[c].row /\ t.at = step
  BY <1>0 DEF SshRecord
<1> HIDE DEF t
<1>3. AllThere(t)
  BY <1>0, <1>2, SameLists
<1> QED BY <1>1, <1>2, <1>3, OneConnection

LEMMA CopyKeeps ==
  ASSUME SshInv, NEW c \in Connections, NEW step \in Looking, NEW next \in Copied,
         Copy(c, step, next)
  PROVE  SshInv'
<1> DEFINE s == ssh[c]
           list == s.captures \o s.captured
           t == [s EXCEPT !.captures = list, !.at = next]
<1>0. s \in SshRecord /\ AllThere(s) /\ s.at = step
  BY DEF SshInv, Copy, At
<1>1. ssh' = [ssh EXCEPT ![c] = t]
  BY DEF Copy, Extended
<1>2. /\ s.at \in Looking /\ s.at # "over" /\ next \notin Looking \cup Through
      /\ next \notin {"none", "over", "close"}
  BY <1>0 DEF Looking, Copied, Through
<1>3. s.row # "closed"
  BY <1>0, <1>2 DEF AllThere
<1>4. s.captures \in Seq(Nat) /\ s.captured \in Seq(Nat)
  BY <1>0 DEF SshRecord
<1>5. /\ Counted(s.captures) /\ Counted(s.captured)
      /\ Range(s.captures) \cap Range(s.captured) = {}
      /\ Range(s.captured) \cup Range(s.captures) \subseteq 1..s.made
      /\ 1..s.made \subseteq s.gap \cup Range(s.captured) \cup Range(s.captures)
  BY <1>0, <1>2 DEF AllThere
<1>6. list \in Seq(Nat) /\ Counted(list) /\ Range(list) = Range(s.captures) \cup Range(s.captured)
  BY <1>4, <1>5, ListsJoined
<1> HIDE DEF s, list, t
<1>7. /\ t \in SshRecord /\ t.captured = s.captured /\ t.captures = list
      /\ t.made = s.made /\ t.gap = s.gap /\ t.row = s.row /\ t.at = next
  <2>1. next \in {"none", "over"} \cup Looking \cup Copied \cup Through
    OBVIOUS
  <2> QED BY <1>0, <1>6, <2>1 DEF SshRecord, t
<1>8. AllThere(t)
  <2>1. /\ Range(t.captured) \cup Range(t.captures) \subseteq 1..t.made
        /\ 1..t.made \subseteq t.gap \cup Range(t.captured) \cup Range(t.captures)
        /\ Range(t.captured) \subseteq t.gap \cup Range(t.captures)
        /\ Counted(t.captured) /\ Counted(t.captures)
    BY <1>5, <1>6, <1>7
  <2> QED BY <1>2, <1>3, <1>7, <2>1 DEF AllThere
<1> QED BY <1>1, <1>7, <1>8, OneConnection DEF s

LEMMA ClearKeeps ==
  ASSUME SshInv, NEW c \in Connections, NEW step \in Copied, NEW next \in Looking,
         Clear(c, step, next)
  PROVE  SshInv'
<1> DEFINE s == ssh[c]
           t == [s EXCEPT !.captured = <<>>, !.at = next]
<1>0. s \in SshRecord /\ AllThere(s) /\ s.at = step
  BY DEF SshInv, Clear, At
<1>1. ssh' = [ssh EXCEPT ![c] = t]
  BY DEF Clear
<1>2. /\ s.at \in Copied /\ s.at # "over" /\ next \notin Copied \cup Through
      /\ next \notin {"none", "over", "close"}
  BY <1>0 DEF Looking, Copied, Through
<1>3. s.row # "closed"
  BY <1>0, <1>2 DEF AllThere
<1>4. /\ Counted(s.captures)
      /\ Range(s.captured) \cup Range(s.captures) \subseteq 1..s.made
      /\ 1..s.made \subseteq s.gap \cup Range(s.captured) \cup Range(s.captures)
      /\ Range(s.captured) \subseteq s.gap \cup Range(s.captures)
  BY <1>0, <1>2 DEF AllThere
<1> HIDE DEF s, t
<1>5. /\ t \in SshRecord /\ t.captured = <<>> /\ t.captures = s.captures
      /\ t.made = s.made /\ t.gap = s.gap /\ t.row = s.row /\ t.at = next
  BY <1>0, EmptyCounted DEF SshRecord, t
<1>6. AllThere(t)
  <2>1. /\ Range(t.captured) = {} /\ Counted(t.captured) /\ Counted(t.captures)
        /\ Range(t.captures) \subseteq 1..t.made
        /\ 1..t.made \subseteq t.gap \cup Range(t.captures)
    BY <1>4, <1>5, EmptyCounted
  <2> QED BY <1>2, <1>3, <1>5, <2>1 DEF AllThere
<1> QED BY <1>1, <1>5, <1>6, OneConnection DEF s

(* The end: what is written, and what is said of it.                       *)
LEMMA EndKeeps ==
  ASSUME SshInv, NEW c \in Connections,
         \/ CloseTransport(c) \/ Persist(c) \/ PersistenceFails(c)
         \/ CloseSession(c) \/ ClosingFails(c)
  PROVE  SshInv'
<1> DEFINE s == ssh[c]
<1>0. s \in SshRecord /\ AllThere(s)
  BY DEF SshInv
<1>1. CASE CloseTransport(c)
  <2> DEFINE t == [s EXCEPT !.up = FALSE, !.at = "persist"]
  <2>1. ssh' = [ssh EXCEPT ![c] = t] /\ s.at = "closing"
    BY <1>1 DEF CloseTransport, At
  <2>2. /\ t \in SshRecord /\ t.captured = s.captured /\ t.captures = s.captures
        /\ t.made = s.made /\ t.gap = s.gap /\ t.row = s.row /\ t.at = "persist" /\ ~t.up
    BY <1>0 DEF SshRecord, Through
  <2>3. AllThere(t)
    BY <1>0, <2>1, <2>2 DEF AllThere, Looking, Copied, Through
  <2> HIDE DEF t
  <2> QED BY <2>1, <2>2, <2>3, OneConnection
<1>2. CASE Persist(c)
  <2> DEFINE t == [s EXCEPT !.stored = Range(s.captures), !.at = "close"]
  <2>1. ssh' = [ssh EXCEPT ![c] = t] /\ s.at = "persist"
    BY <1>2 DEF Persist, At
  <2>2. s.made \in Nat /\ Range(s.captures) \in SUBSET Nat
    BY <1>0 DEF AllThere, SshRecord
  <2>3. /\ t \in SshRecord /\ t.captured = s.captured /\ t.captures = s.captures
        /\ t.made = s.made /\ t.gap = s.gap /\ t.row = s.row /\ t.at = "close"
        /\ t.up = s.up /\ t.stored = Range(s.captures)
    BY <1>0, <2>2 DEF SshRecord, Through
  <2>4. AllThere(t)
    BY <1>0, <2>1, <2>3 DEF AllThere, Looking, Copied, Through
  <2> HIDE DEF t
  <2> QED BY <2>1, <2>3, <2>4, OneConnection
<1>3. CASE PersistenceFails(c)
  <2>1. PICK n \in 0..Len(s.captures) :
          ssh' = [ssh EXCEPT ![c].stored = Range(SubSeq(s.captures, 1, n)), ![c].at = "over"]
    BY <1>3 DEF PersistenceFails
  <2> DEFINE part1 == SubSeq(s.captures, 1, n)
             t == [s EXCEPT !.stored = Range(part1), !.at = "over"]
  <2>2. ssh' = [ssh EXCEPT ![c] = t] /\ s.at = "persist"
    BY <1>3, <2>1 DEF PersistenceFails, At
  <2>3. part1 \in Seq(Nat)
    <3>1. s.captures \in Seq(Nat) /\ 1 \in Int /\ n \in Int
          /\ \A i \in 1..n : s.captures[i] \in Nat
      BY SMTT(20), <1>0 DEF SshRecord
    <3> QED BY <3>1, SubSeqProperties
  <2>4. Range(part1) \in SUBSET Nat
    BY <2>3 DEF Range
  <2>5. s.row # "closed"
    BY <1>0, <2>2 DEF AllThere
  <2> HIDE DEF part1
  <2>6. /\ t \in SshRecord /\ t.captured = s.captured /\ t.captures = s.captures
        /\ t.made = s.made /\ t.gap = s.gap /\ t.row = s.row /\ t.at = "over"
    BY <1>0, <2>4 DEF SshRecord
  <2> HIDE DEF t
  <2>7. AllThere(t)
    BY <1>0, <2>5, <2>6, SameLists
  <2> QED BY <2>2, <2>6, <2>7, OneConnection
<1>4. CASE CloseSession(c)
  <2> DEFINE t == [s EXCEPT !.at = "over", !.row = "closed", !.count = Len(s.captures)]
  <2>1. ssh' = [ssh EXCEPT ![c] = t] /\ s.at = "close"
    BY <1>4 DEF CloseSession, At
  <2>2. Len(s.captures) \in Nat
    BY <1>0 DEF SshRecord
  <2>3. /\ t \in SshRecord /\ t.captured = s.captured /\ t.captures = s.captures
        /\ t.made = s.made /\ t.gap = s.gap /\ t.at = "over"
        /\ t.stored = s.stored /\ t.count = Len(s.captures)
    BY <1>0, <2>2 DEF SshRecord
  <2>4. /\ s.stored = Range(s.captures) /\ Cardinality(s.stored) = Len(s.captures)
        /\ 1..s.made \subseteq s.gap \cup Range(s.captures)
    BY <1>0, <2>1 DEF AllThere, Through, Counted
  <2>5. (1..t.made) \ t.gap \subseteq t.stored /\ t.count = Cardinality(t.stored)
    BY <2>3, <2>4
  <2>6. t.at \notin {"none", "close"} \cup Looking \cup Copied \cup Through
    BY <2>3 DEF Looking, Copied, Through
  <2>7. /\ Counted(t.captured) /\ Counted(t.captures)
        /\ Range(t.captured) \cup Range(t.captures) \subseteq 1..t.made
    BY <1>0, <2>3 DEF AllThere
  <2> HIDE DEF t
  <2>8. AllThere(t)
    BY <2>3, <2>5, <2>6, <2>7 DEF AllThere
  <2> QED BY <2>1, <2>3, <2>8, OneConnection
<1>5. CASE ClosingFails(c)
  BY <1>5, GotoKeeps DEF ClosingFails, At
<1> QED BY <1>1, <1>2, <1>3, <1>4, <1>5

LEMMA ThreadKeeps ==
  ASSUME SshInv, NEW c \in Connections, ThreadStep(c)
  PROVE  SshInv'
<1>0. ssh[c] \in SshRecord /\ AllThere(ssh[c])
  BY DEF SshInv
<1>1. CASE OpenConnection(c)
  <2> DEFINE t == [ssh[c] EXCEPT !.at = "handshake", !.up = TRUE, !.row = "open"]
  <2>1. ssh' = [ssh EXCEPT ![c] = t] /\ ssh[c].at = "none"
    BY <1>1 DEF OpenConnection, At
  <2>2. "handshake" \in Looking /\ ssh[c].row # "closed"
    BY <1>0, <2>1 DEF Looking, AllThere
  <2>3. /\ t \in SshRecord /\ t.captured = ssh[c].captured /\ t.captures = ssh[c].captures
        /\ t.made = ssh[c].made /\ t.gap = ssh[c].gap /\ t.row = "open" /\ t.at = "handshake"
    BY <1>0, <2>2 DEF SshRecord
  <2> HIDE DEF t
  <2>4. AllThere(t)
    BY <1>0, <2>1, <2>2, <2>3, SameLists
  <2> QED BY <2>1, <2>3, <2>4, OneConnection
<1>2. CASE OpeningFails(c)
  <2>1. PICK row \in {"none", "open"} : ssh' = [ssh EXCEPT ![c].at = "over", ![c].row = row]
    BY <1>2 DEF OpeningFails
  <2> DEFINE t == [ssh[c] EXCEPT !.at = "over", !.row = row]
  <2>2. ssh' = [ssh EXCEPT ![c] = t] /\ ssh[c].at = "none"
    BY <1>2, <2>1 DEF OpeningFails, At
  <2>3. ssh[c].row # "closed"
    BY <1>0, <2>2 DEF AllThere
  <2>4. /\ t \in SshRecord /\ t.captured = ssh[c].captured /\ t.captures = ssh[c].captures
        /\ t.made = ssh[c].made /\ t.gap = ssh[c].gap /\ t.row # "closed" /\ t.at = "over"
    BY <1>0 DEF SshRecord
  <2> HIDE DEF t
  <2>5. AllThere(t)
    BY <1>0, <2>3, <2>4, SameLists
  <2> QED BY <2>2, <2>4, <2>5, OneConnection
<1>3. CASE Handshake(c)
  <2>1. PICK next \in {"accept", "finally"} :
          ssh' = [ssh EXCEPT ![c] = [Noted(c) EXCEPT !.at = next]]
    BY <1>3 DEF Handshake
  <2> DEFINE s == Noted(c)
             t == [s EXCEPT !.at = next]
  <2>2. ssh[c].at \in Looking /\ next \in Looking
    BY <1>3 DEF Handshake, At, Looking
  <2>3. s \in SshRecord /\ AllThere(s) /\ s.row # "closed" /\ s.at \in Looking
    BY <2>2, NotedKept
  <2> HIDE DEF s
  <2>4. /\ t \in SshRecord /\ t.captured = s.captured /\ t.captures = s.captures
        /\ t.made = s.made /\ t.gap = s.gap /\ t.row = s.row /\ t.at = next
    BY <2>2, <2>3 DEF SshRecord
  <2>5. ssh' = [ssh EXCEPT ![c] = t]
    BY <2>1 DEF s
  <2> HIDE DEF t
  <2>6. AllThere(t)
    BY <2>2, <2>3, <2>4, SameLists
  <2> QED BY <2>4, <2>5, <2>6, OneConnection
<1>4. CASE RunCommand(c)
  <2>1. ssh[c].at \in Looking /\ ssh' = [ssh EXCEPT ![c] = Noted(c)]
    BY <1>4 DEF RunCommand, At, Looking
  <2> QED BY <2>1, NotedKept, OneConnection
<1>5. CASE AcceptChannel(c) \/ NoShell(c) \/ AwaitRequest(c) \/ ShellEnds(c) \/ HandlerError(c)
  BY <1>5, GotoKeeps
     DEF AcceptChannel, NoShell, AwaitRequest, ShellEnds, HandlerError, At, Looking
<1>6. CASE Drain(c) \/ DrainAgain(c) \/ Finally(c)
  <2>1. CASE Copy(c, "copy", "clear") \/ Copy(c, "copy again", "clear again")
             \/ Copy(c, "finally", "closing")
    BY <2>1, CopyKeeps DEF Looking, Copied
  <2>2. CASE Clear(c, "clear", "wait") \/ Clear(c, "clear again", "shell")
    BY <2>2, ClearKeeps DEF Looking, Copied
  <2> QED BY <1>6, <2>1, <2>2 DEF Drain, DrainAgain, Finally
<1> QED BY <1>1, <1>2, <1>3, <1>4, <1>5, <1>6, EndKeeps DEF ThreadStep

(* Which sensor a step leaves alone.                                       *)
LEMMA OnlyOneSensorMoves ==
  ASSUME [Next]_platformVars
  PROVE  /\ SshNext \/ UNCHANGED sshVars
         /\ ListenersNext \/ UNCHANGED listenerVars
         /\ LookupsNext \/ UNCHANGED lookupVars
<1>1. CASE ApiStep \/ UNCHANGED platformVars
  BY <1>1 DEF ApiStep, platformVars, sensorVars
<1>2. CASE SensorStep
  BY <1>2 DEF SensorStep, AttackRun, SshHoneypot, OtherHoneypots, Reputation
<1> QED BY <1>1, <1>2 DEF Next

(* A session that is closed has in the table all that was captured of it,  *)
(* once, and counts as much, but for what fell into the gaps between the   *)
(* two threads.                                                            *)
THEOREM CapturesCorrect == Spec => []CapturesAccounted
<1>1. SshInv => CapturesAccounted
  BY DEF SshInv, AllThere, CapturesAccounted
<1>2. SshInv /\ [Next]_platformVars => SshInv'
  <2> SUFFICES ASSUME SshInv, [Next]_platformVars PROVE SshInv'
    OBVIOUS
  <2>1. CASE UNCHANGED ssh
    BY <2>1 DEF SshInv
  <2> QED BY <2>1, ParamikoKeeps, ThreadKeeps, OnlyOneSensorMoves DEF SshNext, TriesExpire, sshVars
<1> QED BY <1>1, <1>2, SshStart, PTL DEF Spec

--------------------------------------------------------------------------
(* What the other honeypots say of a session is what there is of it *)

Services == {"http", "tls", "rdp", "telnet", "smtp", "redis", "ftp"}
Talking == {"opening", "serving", "recording", "closing"}

PeerRecord ==
  [service : {"none"} \cup Services, at : {"none", "over"} \cup Talking, count : Nat,
   seen : Nat, row : {"none", "OPEN", "CLOSED"}, rows : Nat, late : Nat, stated : Nat,
   failed : Nat]

Events(s) == s.rows + s.late

(* How the count stands to the events while the connection lasts, service  *)
(* by service: what has been counted and not yet recorded, or the other    *)
(* way round.                                                              *)
Tally(s) ==
  /\ s.service \in {"http", "tls"} =>
       IF s.at = "closing" THEN Events(s) = 1 ELSE Events(s) = 0
  /\ s.service = "rdp" =>
       IF s.at = "closing"
       THEN s.count - Events(s) \in {-1, 0} /\ (s.failed = 0 => s.count = Events(s))
       ELSE s.count = 0 /\ Events(s) = 0
  /\ s.service = "ftp" =>
       IF s.at = "recording" THEN s.count - 1 - Events(s) \in 0..s.failed
       ELSE s.count - Events(s) \in 0..s.failed
  /\ s.service \in {"telnet", "smtp", "redis"} =>
       CASE s.at = "closing" ->
              s.count - Events(s) \in {0, 1} /\ (s.failed = 0 => s.count = Events(s))
         [] s.at = "recording" -> s.failed = 0 /\ s.count = Events(s) + 1
         [] OTHER -> s.failed = 0 /\ s.count = Events(s)

(* MaySay, of a record.                                                    *)
MayBe(s) ==
  IF s.failed = 0 THEN {0}
  ELSE CASE s.service = "rdp" -> {-1, 0}
         [] s.service = "ftp" -> 0..s.failed
         [] s.service \in {"http", "tls"} -> {0}
         [] OTHER -> {0, 1}

PeerOK(s) ==
  /\ s \in PeerRecord
  /\ s.at = "none" => s.row = "none" /\ s.count = 0 /\ Events(s) = 0 /\ s.failed = 0
  /\ s.at # "none" => s.service \in Services
  /\ s.at = "opening" => s.row = "none"
  /\ s.at = "over" /\ s.row = "OPEN" => s.failed > 0
  /\ s.row = "CLOSED" => s.at = "over" /\ s.stated - Events(s) \in MayBe(s)
  /\ s.at \in Talking => Tally(s)

PeersInv ==
  /\ peers \in [Peers -> PeerRecord]
  /\ \A p \in Peers : PeerOK(peers[p])

LEMMA PeersStart == Init => PeersInv
<1>1. NoPeer \in PeerRecord
  BY DEF NoPeer, PeerRecord
<1>2. PeerOK(NoPeer)
  BY <1>1 DEF NoPeer, PeerOK, Events, Talking
<1> QED BY <1>1, <1>2 DEF Init, ListenersInit, PeersInv

(* What tells the handlers apart, as far as it matters here.               *)
LEMMA Kinds ==
  /\ DOMAIN Handler = Services
  /\ \A v \in {"http", "tls"} :
       Handler[v].most = 1 /\ Handler[v].counted = "never" /\ Handler[v].onError = {"over"}
  /\ /\ Handler["rdp"].most = 1 /\ Handler["rdp"].counted = "after"
     /\ Handler["rdp"].onError = {"closing"}
  /\ Handler["ftp"].counted = "before" /\ Handler["ftp"].onError = {"serving"}
  /\ \A v \in {"telnet", "smtp", "redis"} :
       Handler[v].counted = "before" /\ Handler[v].onError = {"closing", "over"}
  BY DEF Handler, Http, Tls, Rdp, Telnet, Smtp, RedisTrap, Ftp, Services

LEMMA OnePeer ==
  ASSUME PeersInv, NEW p \in Peers, NEW s, PeerOK(s), Becomes(p, s)
  PROVE  PeersInv'
<1>1. s \in PeerRecord
  BY DEF PeerOK
<1>2. peers' \in [Peers -> PeerRecord] /\ \A q \in Peers : PeerOK(peers'[q])
  BY <1>1 DEF PeersInv, Becomes
<1> QED BY <1>2 DEF PeersInv

(* The connection is over before it could be closed.                       *)
LEMMA EndsUnclosed ==
  ASSUME NEW s, PeerOK(s), s.at # "over", NEW t \in PeerRecord, t.at = "over",
         t.service \in Services, t.row # "CLOSED",
         t.row = "OPEN" => t.failed > 0
  PROVE  PeerOK(t)
  BY DEF PeerOK, Talking

LEMMA PeerConnectsKeeps ==
  ASSUME PeersInv, NEW p \in Peers, NEW service \in DOMAIN Handler, PeerConnects(p, service)
  PROVE  PeersInv'
<1> DEFINE s == peers[p]
<1>1. PICK at \in {"opening", "over"} : Becomes(p, [s EXCEPT !.service = service, !.at = at])
  BY DEF PeerConnects
<1> DEFINE t == [s EXCEPT !.service = service, !.at = at]
<1>2. PeerOK(s) /\ s.at = "none" /\ service \in Services
  BY Kinds DEF PeersInv, PeerConnects
<1>3. /\ t \in PeerRecord /\ t.service = service /\ t.at = at /\ t.row = "none"
      /\ t.count = 0 /\ t.failed = 0 /\ t.rows = s.rows /\ t.late = s.late
  BY <1>2 DEF PeerOK, PeerRecord, Talking
<1> HIDE DEF s, t
<1>4. Events(t) = 0
  BY <1>2, <1>3 DEF Events, PeerOK
<1>5. t.at = "opening" => Tally(t)
  BY <1>3, <1>4 DEF Tally, Services
<1>6. PeerOK(t)
  BY <1>2, <1>3, <1>4, <1>5 DEF PeerOK, Talking
<1> QED BY <1>1, <1>6, OnePeer DEF t

LEMMA OpenKeeps ==
  ASSUME PeersInv, NEW p \in Peers, OpenSession(p) \/ OpenSessionFails(p)
  PROVE  PeersInv'
<1> DEFINE s == peers[p]
<1>1. PeerOK(s) /\ s.at = "opening" /\ s \in PeerRecord /\ Tally(s) /\ s.service \in Services
  BY DEF PeersInv, OpenSession, OpenSessionFails, PeerOK, Talking
<1>2. CASE OpenSession(p)
  <2> DEFINE t == [s EXCEPT !.at = "serving", !.row = "OPEN"]
  <2>1. /\ t \in PeerRecord /\ t.at = "serving" /\ t.row = "OPEN" /\ t.service = s.service
        /\ t.count = s.count /\ t.failed = s.failed /\ t.rows = s.rows /\ t.late = s.late
    BY <1>1 DEF PeerRecord, Talking
  <2>2. Becomes(p, t)
    BY <1>2 DEF OpenSession
  <2> HIDE DEF s, t
  <2>3. Events(t) = Events(s)
    BY <2>1 DEF Events
  <2>4. Tally(t)
    BY <1>1, <2>1, <2>3 DEF Tally
  <2>5. PeerOK(t)
    BY <1>1, <2>1, <2>4 DEF PeerOK
  <2> QED BY <2>2, <2>5, OnePeer
<1>3. CASE OpenSessionFails(p)
  <2>1. PICK row \in {"none", "OPEN"} : Fails(p, [s EXCEPT !.at = "over", !.row = row])
    BY <1>3 DEF OpenSessionFails
  <2> DEFINE u == [s EXCEPT !.at = "over", !.row = row]
             t == [u EXCEPT !.failed = @ + 1]
  <2>2. Becomes(p, t)
    BY <2>1 DEF Fails
  <2>3. u \in PeerRecord /\ u.at = "over" /\ u.row = row /\ u.service = s.service
    BY <1>1 DEF PeerRecord
  <2> HIDE DEF u
  <2>4. /\ t \in PeerRecord /\ t.at = "over" /\ t.row = row /\ t.service = s.service
        /\ t.failed > 0
    BY <2>3 DEF PeerRecord
  <2> HIDE DEF s, t
  <2>5. PeerOK(t)
    BY <1>1, <2>4, EndsUnclosed
  <2> QED BY <2>2, <2>5, OnePeer
<1> QED BY <1>2, <1>3

LEMMA CommandKeeps ==
  ASSUME PeersInv, NEW p \in Peers, CommandArrives(p)
  PROVE  PeersInv'
<1> DEFINE s == peers[p]
           before == Kind(p).counted = "before"
           t == [s EXCEPT !.at = "recording", !.seen = @ + 1,
                          !.count = IF before THEN @ + 1 ELSE @]
<1>1. PeerOK(s) /\ s.at = "serving" /\ s \in PeerRecord /\ Tally(s) /\ s.service \in Services
  BY DEF PeersInv, CommandArrives, PeerOK, Talking
<1>2. Becomes(p, t)
  BY DEF CommandArrives
<1>3. /\ s.service \in {"http", "tls", "rdp"} => ~before
      /\ s.service \in {"ftp", "telnet", "smtp", "redis"} => before
  BY Kinds DEF Kind
<1> HIDE DEF before
<1>4. /\ t \in PeerRecord /\ t.at = "recording" /\ t.row = s.row /\ t.service = s.service
      /\ t.count = IF before THEN s.count + 1 ELSE s.count
      /\ t.failed = s.failed /\ t.rows = s.rows /\ t.late = s.late
  <2> DEFINE count == IF before THEN s.count + 1 ELSE s.count
             seen == s.seen + 1
  <2>1. s.count \in Nat /\ s.seen \in Nat
    BY <1>1 DEF PeerRecord
  <2>2. count \in Nat /\ seen \in Nat /\ "recording" \in {"none", "over"} \cup Talking
    BY <2>1 DEF Talking
  <2>3. t = [s EXCEPT !.at = "recording", !.seen = seen, !.count = count]
    OBVIOUS
  <2> HIDE DEF count, seen, t, s
  <2>4. /\ t \in PeerRecord /\ t.at = "recording" /\ t.row = s.row /\ t.service = s.service
        /\ t.count = count /\ t.failed = s.failed /\ t.rows = s.rows /\ t.late = s.late
    BY <1>1, <2>2, <2>3 DEF PeerRecord
  <2> QED BY <2>4 DEF count
<1>5. s.count \in Nat /\ s.rows \in Nat /\ s.late \in Nat /\ s.failed \in Nat
  BY <1>1 DEF PeerRecord
<1> HIDE DEF s, t
<1>6. Events(t) = Events(s) /\ Events(s) \in Nat
  BY <1>4, <1>5 DEF Events
<1>7. Tally(t)
  <2>1. CASE s.service \in {"http", "tls", "rdp"}
    BY <1>1, <1>3, <1>4, <1>6, <2>1 DEF Tally
  <2>2. CASE s.service = "ftp"
    BY <1>1, <1>3, <1>4, <1>5, <1>6, <2>2 DEF Tally
  <2>3. CASE s.service \in {"telnet", "smtp", "redis"}
    BY <1>1, <1>3, <1>4, <1>5, <1>6, <2>3 DEF Tally
  <2> QED BY <1>1, <2>1, <2>2, <2>3 DEF Services
<1>8. PeerOK(t)
  BY <1>1, <1>4, <1>7 DEF PeerOK
<1> QED BY <1>2, <1>8, OnePeer

LEMMA RecordReturnsKeeps ==
  ASSUME PeersInv, NEW p \in Peers, RecordReturns(p)
  PROVE  PeersInv'
<1> DEFINE s == peers[p]
           more == CountedAfter(p, TRUE)
           next == IF Kind(p).most = 1 THEN "closing" ELSE "serving"
           t == [s EXCEPT !.rows = @ + 1, !.count = @ + more, !.at = next]
<1>1. PeerOK(s) /\ s.at = "recording" /\ s \in PeerRecord /\ Tally(s) /\ s.service \in Services
  BY DEF PeersInv, RecordReturns, PeerOK, Talking
<1>2. Becomes(p, t)
  BY DEF RecordReturns
<1>3. /\ more \in {0, 1} /\ next \in {"closing", "serving"}
      /\ s.service # "rdp" => more = 0
      /\ s.service = "rdp" => more = 1
      /\ s.service \in {"http", "tls", "rdp"} => next = "closing"
  BY <1>1, Kinds DEF Kind, CountedAfter, Services
<1>4. s.count \in Nat /\ s.rows \in Nat /\ s.late \in Nat /\ s.failed \in Nat
  BY <1>1 DEF PeerRecord
<1> HIDE DEF more, next, s
<1>5. /\ t \in PeerRecord /\ t.at = next /\ t.row = s.row /\ t.service = s.service
      /\ t.count = s.count + more
      /\ t.failed = s.failed /\ t.rows = s.rows + 1 /\ t.late = s.late
  <2> DEFINE count == s.count + more
             rows == s.rows + 1
  <2>1. count \in Nat /\ rows \in Nat /\ next \in {"none", "over"} \cup Talking
    BY <1>3, <1>4 DEF Talking
  <2>2. t = [s EXCEPT !.rows = rows, !.count = count, !.at = next]
    OBVIOUS
  <2> HIDE DEF count, rows, t
  <2>3. /\ t \in PeerRecord /\ t.at = next /\ t.row = s.row /\ t.service = s.service
        /\ t.count = count /\ t.failed = s.failed /\ t.rows = rows /\ t.late = s.late
    BY <1>1, <2>1, <2>2 DEF PeerRecord
  <2> QED BY <2>3 DEF count, rows
<1> HIDE DEF t
<1>6. Events(t) = Events(s) + 1 /\ Events(s) \in Nat
  BY <1>4, <1>5 DEF Events
<1>7. Tally(t)
  <2>1. CASE s.service \in {"http", "tls"}
    BY <1>1, <1>3, <1>5, <1>6, <2>1 DEF Tally
  <2>2. CASE s.service = "rdp"
    BY <1>1, <1>3, <1>4, <1>5, <1>6, <2>2 DEF Tally
  <2>3. CASE s.service = "ftp"
    BY <1>1, <1>3, <1>4, <1>5, <1>6, <2>3 DEF Tally
  <2>4. CASE s.service \in {"telnet", "smtp", "redis"}
    BY <1>1, <1>3, <1>4, <1>5, <1>6, <2>4 DEF Tally
  <2> QED BY <1>1, <2>1, <2>2, <2>3, <2>4 DEF Services
<1>8. PeerOK(t)
  BY <1>1, <1>3, <1>5, <1>7 DEF PeerOK
<1> QED BY <1>2, <1>8, OnePeer DEF s

(* A call fails: before its commit, or after it.                           *)
LEMMA RecordRaisesKeeps ==
  ASSUME PeersInv, NEW p \in Peers, RecordRaises(p)
  PROVE  PeersInv'
<1> DEFINE s == peers[p]
           more == CountedAfter(p, FALSE)
<1>1. PeerOK(s) /\ s.at = "recording" /\ s \in PeerRecord /\ Tally(s) /\ s.service \in Services
  BY DEF PeersInv, RecordRaises, PeerOK, Talking
<1>2. PICK at \in Kind(p).onError, kept \in 0..1 :
        Fails(p, [s EXCEPT !.at = at, !.rows = @ + kept, !.count = @ + more])
  BY DEF RecordRaises
<1>3. more = 0
  BY DEF CountedAfter
<1> DEFINE u == [s EXCEPT !.at = at, !.rows = @ + kept, !.count = @ + more]
           t == [u EXCEPT !.failed = @ + 1]
<1>4. Becomes(p, t)
  BY <1>2 DEF Fails
<1>5. /\ at \in {"over", "closing", "serving"}
      /\ s.service \in {"http", "tls"} => at = "over"
      /\ s.service = "rdp" => at = "closing"
      /\ s.service = "ftp" => at = "serving"
      /\ s.service \in {"telnet", "smtp", "redis"} => at \in {"closing", "over"}
  BY <1>1, Kinds DEF Kind, Services
<1>6. /\ s.count \in Nat /\ s.rows \in Nat /\ s.late \in Nat /\ s.failed \in Nat
      /\ kept \in {0, 1}
  BY <1>1 DEF PeerRecord
<1> HIDE DEF s, more
<1>7. /\ u \in PeerRecord /\ u.at = at /\ u.row = s.row /\ u.service = s.service
      /\ u.count = s.count /\ u.failed = s.failed /\ u.rows = s.rows + kept
      /\ u.late = s.late
  <2> DEFINE count == s.count + more
             rows == s.rows + kept
  <2>1. /\ count \in Nat /\ rows \in Nat /\ count = s.count
        /\ at \in {"none", "over"} \cup Talking
    BY <1>3, <1>5, <1>6 DEF Talking
  <2>2. u = [s EXCEPT !.at = at, !.rows = rows, !.count = count]
    OBVIOUS
  <2> HIDE DEF count, rows, u
  <2>3. /\ u \in PeerRecord /\ u.at = at /\ u.row = s.row /\ u.service = s.service
        /\ u.count = count /\ u.failed = s.failed /\ u.rows = rows /\ u.late = s.late
    BY <1>1, <2>1, <2>2 DEF PeerRecord
  <2> QED BY <2>1, <2>3 DEF rows
<1> HIDE DEF u
<1>8. /\ t \in PeerRecord /\ t.at = at /\ t.row = s.row /\ t.service = s.service
      /\ t.count = s.count /\ t.failed = s.failed + 1 /\ t.rows = s.rows + kept
      /\ t.late = s.late
  BY <1>6, <1>7 DEF PeerRecord
<1> HIDE DEF t
<1>9. /\ Events(t) = Events(s) + kept /\ Events(s) \in Nat /\ t.failed > 0 /\ t.failed # 0
  BY <1>6, <1>8 DEF Events
<1>10. CASE at = "over"
  <2>1. s.row # "CLOSED"
    BY <1>1 DEF PeerOK
  <2>2. PeerOK(t)
    BY <1>1, <1>8, <1>9, <1>10, <2>1, EndsUnclosed
  <2> QED BY <1>4, <2>2, OnePeer DEF s
<1>11. CASE at # "over"
  <2>1. Tally(t)
    <3>1. CASE s.service = "rdp"
      BY <1>1, <1>5, <1>6, <1>8, <1>9, <3>1 DEF Tally
    <3>2. CASE s.service = "ftp"
      BY <1>1, <1>5, <1>6, <1>8, <1>9, <3>2 DEF Tally
    <3>3. CASE s.service \in {"telnet", "smtp", "redis"}
      BY <1>1, <1>5, <1>6, <1>8, <1>9, <1>11, <3>3 DEF Tally
    <3> QED BY <1>1, <1>5, <1>11, <3>1, <3>2, <3>3 DEF Services
  <2>2. PeerOK(t)
    BY <1>1, <1>5, <1>8, <1>11, <2>1 DEF PeerOK
  <2> QED BY <1>4, <2>2, OnePeer DEF s
<1> QED BY <1>10, <1>11

(* The FTP handler waits no longer.                                        *)
LEMMA RecordIsLateKeeps ==
  ASSUME PeersInv, NEW p \in Peers, RecordIsLate(p)
  PROVE  PeersInv'
<1> DEFINE s == peers[p]
           u == [s EXCEPT !.at = "serving", !.late = @ + 1]
           t == [u EXCEPT !.failed = @ + 1]
<1>1. PeerOK(s) /\ s.at = "recording" /\ s \in PeerRecord /\ Tally(s) /\ s.service = "ftp"
  BY DEF PeersInv, RecordIsLate, PeerOK, Talking
<1>2. Becomes(p, t)
  BY DEF RecordIsLate, Fails
<1>3. s.count \in Nat /\ s.rows \in Nat /\ s.late \in Nat /\ s.failed \in Nat
  BY <1>1 DEF PeerRecord
<1> HIDE DEF s
<1>4. /\ u \in PeerRecord /\ u.at = "serving" /\ u.row = s.row /\ u.service = "ftp"
      /\ u.count = s.count /\ u.failed = s.failed /\ u.rows = s.rows /\ u.late = s.late + 1
  <2> DEFINE late == s.late + 1
  <2>1. late \in Nat /\ u = [s EXCEPT !.at = "serving", !.late = late]
    BY <1>3
  <2> HIDE DEF late, u
  <2>2. /\ u \in PeerRecord /\ u.at = "serving" /\ u.row = s.row /\ u.service = s.service
        /\ u.count = s.count /\ u.failed = s.failed /\ u.rows = s.rows /\ u.late = late
    BY <1>1, <2>1 DEF PeerRecord, Talking
  <2> QED BY <1>1, <2>2 DEF late
<1> HIDE DEF u
<1>5. /\ t \in PeerRecord /\ t.at = "serving" /\ t.row = s.row /\ t.service = "ftp"
      /\ t.count = s.count /\ t.failed = s.failed + 1 /\ t.rows = s.rows /\ t.late = s.late + 1
  BY <1>3, <1>4 DEF PeerRecord
<1> HIDE DEF t
<1>6. Events(t) = Events(s) + 1 /\ Events(s) \in Nat
  BY <1>3, <1>5 DEF Events
<1>7. Tally(t)
  BY <1>1, <1>3, <1>5, <1>6 DEF Tally
<1>8. PeerOK(t)
  BY <1>1, <1>5, <1>7 DEF PeerOK, Services
<1> QED BY <1>2, <1>8, OnePeer

(* It is recorded all the same, the session being closed or not.           *)
LEMMA LateRecordKeeps ==
  ASSUME PeersInv, NEW p \in Peers, LateRecord(p)
  PROVE  PeersInv'
<1> DEFINE s == peers[p]
           t == [s EXCEPT !.late = @ - 1, !.rows = @ + 1]
<1>1. PeerOK(s) /\ s \in PeerRecord /\ s.late > 0
  BY DEF PeersInv, LateRecord, PeerOK
<1>2. Becomes(p, t)
  BY DEF LateRecord
<1>3. s.rows \in Nat /\ s.late \in Nat
  BY <1>1 DEF PeerRecord
<1> HIDE DEF s
<1>4. /\ t \in PeerRecord /\ t.at = s.at /\ t.row = s.row /\ t.service = s.service
      /\ t.count = s.count /\ t.failed = s.failed /\ t.stated = s.stated
      /\ t.rows = s.rows + 1 /\ t.late = s.late - 1
  <2> DEFINE late == s.late - 1
             rows == s.rows + 1
  <2>1. late \in Nat /\ rows \in Nat /\ t = [s EXCEPT !.late = late, !.rows = rows]
    BY <1>1, <1>3
  <2> HIDE DEF late, rows, t
  <2>2. /\ t \in PeerRecord /\ t.at = s.at /\ t.row = s.row /\ t.service = s.service
        /\ t.count = s.count /\ t.failed = s.failed /\ t.stated = s.stated
        /\ t.rows = rows /\ t.late = late
    BY <1>1, <2>1 DEF PeerRecord
  <2> QED BY <2>2 DEF late, rows
<1> HIDE DEF t
<1>5. Events(t) = Events(s)
  BY <1>3, <1>4 DEF Events
<1>6. Tally(s) => Tally(t)
  BY <1>4, <1>5 DEF Tally
<1>7. MayBe(t) = MayBe(s)
  BY <1>4 DEF MayBe
<1> QED BY <1>1, <1>2, <1>4, <1>5, <1>6, <1>7, OnePeer DEF PeerOK

LEMMA ConnectionOverKeeps ==
  ASSUME PeersInv, NEW p \in Peers, ConnectionOver(p)
  PROVE  PeersInv'
<1> DEFINE s == peers[p]
           t == [s EXCEPT !.at = "closing"]
<1>1. PeerOK(s) /\ s.at = "serving" /\ s \in PeerRecord /\ Tally(s) /\ s.service \in Services
  BY DEF PeersInv, ConnectionOver, PeerOK, Talking
<1>2. Becomes(p, t) /\ s.service \notin {"http", "tls", "rdp"}
  BY Kinds DEF ConnectionOver, Kind
<1>3. s.count \in Nat /\ s.rows \in Nat /\ s.late \in Nat /\ s.failed \in Nat
  BY <1>1 DEF PeerRecord
<1> HIDE DEF s
<1>4. /\ t \in PeerRecord /\ t.at = "closing" /\ t.row = s.row /\ t.service = s.service
      /\ t.count = s.count /\ t.failed = s.failed /\ t.rows = s.rows /\ t.late = s.late
  BY <1>1 DEF PeerRecord, Talking
<1> HIDE DEF t
<1>5. Events(t) = Events(s) /\ Events(s) \in Nat
  BY <1>3, <1>4 DEF Events
<1>6. Tally(t)
  <2>1. CASE s.service = "ftp"
    BY <1>1, <1>4, <1>5, <2>1 DEF Tally
  <2>2. CASE s.service \in {"telnet", "smtp", "redis"}
    BY <1>1, <1>3, <1>4, <1>5, <2>2 DEF Tally
  <2> QED BY <1>1, <1>2, <2>1, <2>2 DEF Services
<1>7. PeerOK(t)
  BY <1>1, <1>4, <1>6 DEF PeerOK
<1> QED BY <1>2, <1>7, OnePeer

LEMMA CutOffKeeps ==
  ASSUME PeersInv, NEW p \in Peers, CutOff(p)
  PROVE  PeersInv'
<1> DEFINE s == peers[p]
           t == [s EXCEPT !.at = "over", !.late = 0, !.failed = @ + 1]
<1>1. /\ PeerOK(s) /\ s.at \in Talking /\ s.at # "over" /\ s \in PeerRecord
      /\ s.service \in Services /\ s.row # "CLOSED"
  BY DEF PeersInv, CutOff, PeerOK, Talking
<1>2. Becomes(p, t)
  BY DEF CutOff
<1>3. s.failed \in Nat
  BY <1>1 DEF PeerRecord
<1> HIDE DEF s
<1>4. t \in PeerRecord /\ t.at = "over" /\ t.row = s.row /\ t.service = s.service /\ t.failed > 0
  <2> DEFINE more == s.failed + 1
  <2>1. /\ more \in Nat /\ more > 0 /\ 0 \in Nat
        /\ t = [s EXCEPT !.at = "over", !.late = 0, !.failed = more]
    BY <1>3
  <2> HIDE DEF more, t
  <2> QED BY <1>1, <2>1 DEF PeerRecord
<1> HIDE DEF t
<1>5. PeerOK(t)
  BY <1>1, <1>4, EndsUnclosed
<1> QED BY <1>2, <1>5, OnePeer

(* What close() is told is as close to the events as it may be.            *)
LEMMA ClosesWell ==
  ASSUME NEW p \in Peers, PeerOK(peers[p]), peers[p].at = "closing",
         NEW t \in PeerRecord, t.at = "over", t.row = "CLOSED", t.stated = Stated(p),
         t.service = peers[p].service, t.rows = peers[p].rows, t.late = peers[p].late,
         t.failed \in {peers[p].failed, peers[p].failed + 1}
  PROVE  PeerOK(t)
<1> DEFINE s == peers[p]
<1>1. s \in PeerRecord /\ s.at = "closing" /\ Tally(s) /\ s.service \in Services
  BY DEF PeerOK, Talking
<1>2. /\ s.service \in {"http", "tls"} => t.stated = 1
      /\ s.service \notin {"http", "tls"} => t.stated = s.count
  BY <1>1, Kinds DEF Stated, Kind, Services
<1>3. /\ s.count \in Nat /\ s.rows \in Nat /\ s.late \in Nat /\ s.failed \in Nat
      /\ t.failed \in Nat
  BY <1>1 DEF PeerRecord
<1>4. Events(t) = Events(s) /\ Events(s) \in Nat
  BY <1>3 DEF Events
<1> HIDE DEF s
<1>5. t.service = s.service /\ t.failed \in {s.failed, s.failed + 1}
  BY DEF s
<1>6. t.stated - Events(t) \in MayBe(t)
  <2>1. CASE s.service \in {"http", "tls"}
    BY <1>1, <1>2, <1>3, <1>4, <1>5, <2>1 DEF Tally, MayBe
  <2>2. CASE s.service = "rdp"
    BY <1>1, <1>2, <1>3, <1>4, <1>5, <2>2 DEF Tally, MayBe
  <2>3. CASE s.service = "ftp"
    BY <1>1, <1>2, <1>3, <1>4, <1>5, <2>3 DEF Tally, MayBe
  <2>4. CASE s.service \in {"telnet", "smtp", "redis"}
    BY <1>1, <1>2, <1>3, <1>4, <1>5, <2>4 DEF Tally, MayBe
  <2> QED BY <1>1, <2>1, <2>2, <2>3, <2>4 DEF Services
<1> QED BY <1>1, <1>5, <1>6 DEF PeerOK, Talking

LEMMA CloseKeeps ==
  ASSUME PeersInv, NEW p \in Peers, ClosePeer(p) \/ ClosePeerFails(p)
  PROVE  PeersInv'
<1> DEFINE s == peers[p]
           stated == Stated(p)
           u == [s EXCEPT !.at = "over", !.row = "CLOSED", !.stated = stated]
           v == [s EXCEPT !.at = "over"]
           t(r) == [r EXCEPT !.failed = @ + 1]
<1>1. /\ PeerOK(s) /\ s.at = "closing" /\ s \in PeerRecord /\ s.row # "CLOSED"
      /\ s.service \in Services
  BY DEF PeersInv, ClosePeer, ClosePeerFails, PeerOK, Talking
<1>2. stated \in Nat /\ s.failed \in Nat /\ s.failed + 1 \in Nat /\ s.failed + 1 > 0
  BY <1>1 DEF Stated, PeerRecord
<1>3. Becomes(p, u) \/ Becomes(p, t(u)) \/ Becomes(p, t(v))
  BY DEF ClosePeer, ClosePeerFails, Fails
<1> HIDE DEF s, stated
<1>4. /\ u \in PeerRecord /\ u.at = "over" /\ u.row = "CLOSED" /\ u.stated = stated
      /\ u.service = s.service /\ u.rows = s.rows /\ u.late = s.late /\ u.failed = s.failed
  BY <1>1, <1>2 DEF PeerRecord
<1>5. /\ v \in PeerRecord /\ v.at = "over" /\ v.row = s.row
      /\ v.service = s.service /\ v.failed = s.failed
  BY <1>1, <1>2 DEF PeerRecord
<1> HIDE DEF u, v
<1>6. /\ t(u) \in PeerRecord /\ t(u).at = "over" /\ t(u).row = "CLOSED"
      /\ t(u).stated = stated /\ t(u).service = s.service /\ t(u).rows = s.rows
      /\ t(u).late = s.late /\ t(u).failed = s.failed + 1
  BY <1>2, <1>4 DEF PeerRecord
<1>7. /\ t(v) \in PeerRecord /\ t(v).at = "over" /\ t(v).row = s.row
      /\ t(v).service = s.service /\ t(v).failed = s.failed + 1
  BY <1>2, <1>5 DEF PeerRecord
<1> HIDE DEF t
<1>8. PeerOK(u)
  BY <1>1, <1>4, ClosesWell DEF s, stated
<1>9. PeerOK(t(u))
  BY <1>1, <1>6, ClosesWell DEF s, stated
<1>10. PeerOK(t(v))
  BY <1>1, <1>2, <1>7, EndsUnclosed
<1> QED BY <1>3, <1>8, <1>9, <1>10, OnePeer

(* A session that is closed counts the events that are in the table, as    *)
(* closely as each honeypot can, and a row is left open only after a       *)
(* failure, however many commands come and however many calls fail.        *)
THEOREM EventsCorrect == Spec => []EventsCounted
<1>1. PeersInv => EventsCounted
  <2> SUFFICES ASSUME PeersInv, NEW p \in Peers
               PROVE  /\ peers[p].row = "CLOSED" =>
                           peers[p].stated - (peers[p].rows + peers[p].late) \in MaySay(p)
                      /\ peers[p].at = "over" /\ peers[p].row = "OPEN" => peers[p].failed > 0
    BY DEF EventsCounted
  <2>1. PeerOK(peers[p])
    BY DEF PeersInv
  <2>2. MaySay(p) = MayBe(peers[p]) /\ Events(peers[p]) = peers[p].rows + peers[p].late
    BY DEF MaySay, MayBe, Events
  <2> QED BY <2>1, <2>2 DEF PeerOK
<1>2. PeersInv /\ [Next]_platformVars => PeersInv'
  <2> SUFFICES ASSUME PeersInv, [Next]_platformVars PROVE PeersInv'
    OBVIOUS
  <2>1. CASE UNCHANGED peers
    BY <2>1 DEF PeersInv
  <2>2. CASE ListenersNext
    BY <2>2, PeerConnectsKeeps, OpenKeeps, CommandKeeps, RecordReturnsKeeps, RecordRaisesKeeps,
       RecordIsLateKeeps, LateRecordKeeps, ConnectionOverKeeps, CutOffKeeps, CloseKeeps
       DEF ListenersNext, PeerStep
  <2> QED BY <2>1, <2>2, OnlyOneSensorMoves DEF listenerVars
<1> QED BY <1>1, <1>2, PeersStart, PTL DEF Spec

--------------------------------------------------------------------------
(* No more requests are sent to AbuseIPDB than it answers *)

Answers == Days \cup {Untracked}
Query == [on : Days, reserved : Answers]
LookupRecord ==
  [at : {"rest", "reserve", "fetch", "store"}, ip : Addresses \cup {"none"}, reserved : Answers]

(* The requests of a list that were sent on some days, reserved for some;  *)
(* and the workers that are about to send one.                             *)
Queried(q, on, reserved) ==
  {i \in DOMAIN q : q[i].on \in on /\ q[i].reserved \in reserved}
Pending(f, reserved) ==
  {w \in Workers : f[w].at = "fetch" /\ f[w].reserved \in reserved}

LookupsTyped ==
  /\ day \in Days /\ quota \in [Days -> Nat] /\ trouble \in Nat
  /\ lookup \in [Workers -> LookupRecord]
  /\ queries \in Seq(Query)

(* Nothing is reserved ahead of the day.                                   *)
NotAhead ==
  /\ \A w \in Workers :
       /\ lookup[w].at = "reserve" => lookup[w].reserved = Untracked
       /\ lookup[w].reserved <= day
  /\ \A i \in DOMAIN queries : queries[i].reserved <= queries[i].on /\ queries[i].on <= day

(* Sent or about to be, a request has had its unit of a day's quota, or a  *)
(* failure of Redis, or belongs to a worker that midnight overtook.        *)
QuotaInv ==
  /\ LookupsTyped /\ NotAhead
  /\ \A d \in Days :
       LET n == Cardinality(Queried(queries, Days, {d})) + Cardinality(Pending(lookup, {d}))
       IN n <= quota[d] /\ n <= DailyQuota
  /\ Cardinality(Queried(queries, Days, {Untracked}))
       + Cardinality(Pending(lookup, {Untracked})) <= trouble
  /\ Cardinality(Queried(queries, {day}, 0..(day - 1)))
       + Cardinality(Pending(lookup, 0..(day - 1))) <= Cardinality(Workers)
  /\ \A d \in Days :
       Cardinality(Queried(queries, {d}, 0..(d - 1))) <= Cardinality(Workers)

(* Both are finite.                                                        *)
LEMMA RequestsFinite ==
  ASSUME NEW q \in Seq(Query), NEW on, NEW reserved
  PROVE  /\ IsFiniteSet(Queried(q, on, reserved))
         /\ Cardinality(Queried(q, on, reserved)) \in Nat
<1>1. DOMAIN q = 1..Len(q) /\ Len(q) \in Nat
  OBVIOUS
<1>2. IsFiniteSet(DOMAIN q)
  BY <1>1, FS_Interval
<1>3. Queried(q, on, reserved) \subseteq DOMAIN q
  BY DEF Queried
<1> QED BY <1>2, <1>3, FS_Subset, FS_CardinalityType

LEMMA PendingFinite ==
  ASSUME NEW f, NEW reserved
  PROVE  /\ IsFiniteSet(Pending(f, reserved)) /\ Cardinality(Pending(f, reserved)) \in Nat
         /\ Cardinality(Pending(f, reserved)) <= Cardinality(Workers)
         /\ Cardinality(Workers) \in Nat
<1>1. Pending(f, reserved) \subseteq Workers /\ IsFiniteSet(Workers)
  BY LookupsAssumption DEF Pending
<1> QED BY <1>1, FS_Subset, FS_CardinalityType

(* A part of the requests is not more than all of them.                    *)
LEMMA FewerRequests ==
  ASSUME NEW q \in Seq(Query), NEW on, NEW reserved, NEW more, NEW wider,
         on \subseteq more, reserved \subseteq wider
  PROVE  Cardinality(Queried(q, on, reserved)) <= Cardinality(Queried(q, more, wider))
<1>1. Queried(q, on, reserved) \subseteq Queried(q, more, wider)
  BY DEF Queried
<1> QED BY <1>1, RequestsFinite, FS_Subset

LEMMA OneMoreRequest ==
  ASSUME NEW q \in Seq(Query), NEW x \in Query
  PROVE  /\ Append(q, x) \in Seq(Query)
         /\ \A on, reserved :
              /\ (x.on \in on /\ x.reserved \in reserved) =>
                   Cardinality(Queried(Append(q, x), on, reserved))
                     = Cardinality(Queried(q, on, reserved)) + 1
              /\ ~(x.on \in on /\ x.reserved \in reserved) =>
                   Queried(Append(q, x), on, reserved) = Queried(q, on, reserved)
<1> DEFINE n == Len(q)
           a == Append(q, x)
<1>1. /\ n \in Nat /\ DOMAIN q = 1..n
      /\ a \in Seq(Query) /\ DOMAIN a = 1..(n + 1) /\ a[n + 1] = x
      /\ \A i \in 1..n : a[i] = q[i]
  BY AppendProperties
<1>2. 1..(n + 1) = (1..n) \cup {n + 1} /\ n + 1 \notin 1..n
  BY <1>1
<1> HIDE DEF n, a
<1>3. ASSUME NEW on, NEW reserved
      PROVE  /\ (x.on \in on /\ x.reserved \in reserved) =>
                  Cardinality(Queried(a, on, reserved))
                    = Cardinality(Queried(q, on, reserved)) + 1
             /\ ~(x.on \in on /\ x.reserved \in reserved) =>
                  Queried(a, on, reserved) = Queried(q, on, reserved)
  <2>1. n + 1 \notin Queried(q, on, reserved)
    BY <1>1, <1>2 DEF Queried
  <2>2. CASE x.on \in on /\ x.reserved \in reserved
    <3>1. Queried(a, on, reserved) = Queried(q, on, reserved) \cup {n + 1}
      BY <1>1, <1>2, <2>2 DEF Queried
    <3> QED BY <2>1, <2>2, <3>1, RequestsFinite, FS_AddElement
  <2>3. CASE ~(x.on \in on /\ x.reserved \in reserved)
    BY <1>1, <1>2, <2>3 DEF Queried
  <2> QED BY <2>2, <2>3
<1> QED BY <1>1, <1>3 DEF a

(* One worker turns to something else.                                     *)
LEMMA WorkerTurns ==
  ASSUME lookup \in [Workers -> LookupRecord], NEW w \in Workers, NEW s \in LookupRecord,
         lookup' = [lookup EXCEPT ![w] = s], NEW reserved
  PROVE  /\ (s.at = "fetch" /\ s.reserved \in reserved /\ lookup[w].at # "fetch") =>
              Cardinality(Pending(lookup', reserved)) = Cardinality(Pending(lookup, reserved)) + 1
         /\ (lookup[w].at = "fetch" /\ lookup[w].reserved \in reserved /\ s.at # "fetch") =>
              Cardinality(Pending(lookup', reserved)) = Cardinality(Pending(lookup, reserved)) - 1
         /\ (/\ ~(s.at = "fetch" /\ s.reserved \in reserved)
             /\ ~(lookup[w].at = "fetch" /\ lookup[w].reserved \in reserved)) =>
              Pending(lookup', reserved) = Pending(lookup, reserved)
<1>1. lookup'[w] = s /\ \A v \in Workers : v # w => lookup'[v] = lookup[v]
  OBVIOUS
<1>2. ASSUME s.at = "fetch", s.reserved \in reserved, lookup[w].at # "fetch"
      PROVE  Cardinality(Pending(lookup', reserved)) = Cardinality(Pending(lookup, reserved)) + 1
  <2>1. w \notin Pending(lookup, reserved) /\ Pending(lookup', reserved) = Pending(lookup, reserved) \cup {w}
    BY <1>1, <1>2 DEF Pending
  <2> QED BY <2>1, PendingFinite, FS_AddElement
<1>3. ASSUME lookup[w].at = "fetch", lookup[w].reserved \in reserved, s.at # "fetch"
      PROVE  Cardinality(Pending(lookup', reserved)) = Cardinality(Pending(lookup, reserved)) - 1
  <2>1. w \in Pending(lookup, reserved) /\ Pending(lookup', reserved) = Pending(lookup, reserved) \ {w}
    BY <1>1, <1>3 DEF Pending
  <2>2. IsFiniteSet(Pending(lookup, reserved))
    BY PendingFinite
  <2> QED BY <2>1, <2>2, FS_RemoveElement
<1>4. ASSUME ~(s.at = "fetch" /\ s.reserved \in reserved),
             ~(lookup[w].at = "fetch" /\ lookup[w].reserved \in reserved)
      PROVE  Pending(lookup', reserved) = Pending(lookup, reserved)
  BY <1>1, <1>4 DEF Pending
<1> QED BY <1>2, <1>3, <1>4

LEMMA QuotaStart == Init => QuotaInv
<1> SUFFICES ASSUME Init PROVE QuotaInv
  OBVIOUS
<1>1. /\ day = 0 /\ quota = [d \in Days |-> 0] /\ lookup = [w \in Workers |-> AtRest]
      /\ queries = <<>> /\ trouble = 0
  BY DEF Init, LookupsInit
<1>2. 0 \in Days /\ DailyQuota \in Nat
  BY LookupsAssumption DEF Days
<1>3. AtRest \in LookupRecord /\ AtRest.at = "rest" /\ AtRest.reserved = -1
  BY DEF AtRest, LookupRecord, Answers, Untracked
<1>4. LookupsTyped /\ NotAhead
  <2>1. <<>> \in Seq(Query) /\ DOMAIN <<>> = {}
    OBVIOUS
  <2> QED BY <1>1, <1>2, <1>3, <2>1 DEF LookupsTyped, NotAhead
<1>5. \A on, reserved : Queried(queries, on, reserved) = {}
  BY <1>1 DEF Queried
<1>6. \A reserved : Pending(lookup, reserved) = {}
  BY <1>1, <1>3 DEF Pending
<1>7. Cardinality({}) = 0 /\ Cardinality(Workers) \in Nat /\ Cardinality(Workers) >= 0
  BY FS_EmptySet, PendingFinite
<1> QED BY <1>1, <1>2, <1>4, <1>5, <1>6, <1>7 DEF QuotaInv

(* Nothing is sent and no worker is about to send what it was not.         *)
LEMMA NothingAsked ==
  ASSUME QuotaInv, LookupsTyped', NotAhead', UNCHANGED <<day, queries>>,
         \A reserved : Pending(lookup', reserved) = Pending(lookup, reserved),
         \A d \in Days : quota'[d] >= quota[d], trouble' >= trouble
  PROVE  QuotaInv'
<1>1. \A d \in Days : quota[d] \in Nat /\ quota'[d] \in Nat
  BY DEF QuotaInv, LookupsTyped
<1>2. trouble \in Nat /\ trouble' \in Nat
  BY DEF QuotaInv, LookupsTyped
<1>3. \A on, reserved : Cardinality(Queried(queries, on, reserved)) \in Nat
  BY RequestsFinite DEF QuotaInv, LookupsTyped
<1>4. \A reserved : Cardinality(Pending(lookup, reserved)) \in Nat
  BY PendingFinite
<1> QED BY SMTT(20), <1>1, <1>2, <1>3, <1>4 DEF QuotaInv

(* A worker turns from what is no request to what is none.                 *)
LEMMA QuietWorker ==
  ASSUME QuotaInv, NEW w \in Workers, NEW s \in LookupRecord, Proceed(w, s),
         lookup[w].at # "fetch", s.at # "fetch",
         s.at = "reserve" => s.reserved = Untracked, s.reserved <= day,
         UNCHANGED <<day, queries>>,
         quota' \in [Days -> Nat], \A d \in Days : quota'[d] >= quota[d],
         trouble' \in Nat, trouble' >= trouble
  PROVE  QuotaInv'
<1>1. lookup \in [Workers -> LookupRecord] /\ lookup' = [lookup EXCEPT ![w] = s]
  BY DEF QuotaInv, LookupsTyped, Proceed
<1>2. lookup' \in [Workers -> LookupRecord]
  BY <1>1
<1>3. LookupsTyped'
  BY <1>2 DEF QuotaInv, LookupsTyped
<1>4. NotAhead'
  BY <1>1 DEF QuotaInv, NotAhead
<1>5. ASSUME NEW reserved PROVE Pending(lookup', reserved) = Pending(lookup, reserved)
  BY <1>1, WorkerTurns
<1> QED BY <1>3, <1>4, <1>5, NothingAsked

LEMMA Resting ==
  ASSUME day \in Days
  PROVE  /\ AtRest \in LookupRecord /\ AtRest.at = "rest" /\ AtRest.reserved <= day
         /\ \A ip \in Addresses :
              LET s == [AtRest EXCEPT !.at = "reserve", !.ip = ip]
              IN s \in LookupRecord /\ s.at = "reserve" /\ s.reserved = Untracked /\ s.reserved <= day
<1>1. Untracked <= day /\ Untracked \in Answers
  BY DEF Days, Answers, Untracked
<1>2. AtRest \in LookupRecord /\ AtRest.at = "rest" /\ AtRest.reserved = Untracked
  BY <1>1 DEF AtRest, LookupRecord
<1>3. ASSUME NEW ip \in Addresses
      PROVE  LET s == [AtRest EXCEPT !.at = "reserve", !.ip = ip]
             IN s \in LookupRecord /\ s.at = "reserve" /\ s.reserved = Untracked
  BY <1>2 DEF LookupRecord
<1> QED BY <1>1, <1>2, <1>3

LEMMA CacheGetKeeps ==
  ASSUME QuotaInv, NEW w \in Workers, NEW ip \in Addresses, CacheGet(w, ip)
  PROVE  QuotaInv'
<1> DEFINE s == [AtRest EXCEPT !.at = "reserve", !.ip = ip]
<1>1. /\ day \in Days /\ quota \in [Days -> Nat] /\ trouble \in Nat
      /\ lookup[w].at = "rest" /\ LookupsTyped /\ NotAhead
  BY DEF QuotaInv, LookupsTyped, CacheGet, Working
<1>2. UNCHANGED <<day, quota, queries>> /\ trouble' \in Nat /\ trouble' >= trouble
  BY <1>1 DEF CacheGet, RedisAnswers, RedisFails
<1>3. \A d \in Days : quota'[d] >= quota[d]
  BY <1>1, <1>2
<1>4. CASE UNCHANGED lookup
  <2>1. LookupsTyped' /\ NotAhead'
    BY <1>1, <1>2, <1>4 DEF LookupsTyped, NotAhead
  <2> QED BY <1>2, <1>3, <1>4, <2>1, NothingAsked
<1>5. CASE Proceed(w, s)
  <2>1. s \in LookupRecord /\ s.at = "reserve" /\ s.reserved = Untracked /\ s.reserved <= day
    BY <1>1, Resting
  <2> HIDE DEF s
  <2> QED BY <1>1, <1>2, <1>3, <1>5, <2>1, QuietWorker
<1> QED BY <1>4, <1>5 DEF CacheGet

LEMMA CacheSetKeeps ==
  ASSUME QuotaInv, NEW w \in Workers, CacheSet(w)
  PROVE  QuotaInv'
<1>1. /\ day \in Days /\ quota \in [Days -> Nat] /\ trouble \in Nat
      /\ lookup[w].at = "store" /\ Proceed(w, AtRest)
  BY DEF QuotaInv, LookupsTyped, CacheSet, Working
<1>2. UNCHANGED <<day, quota, queries>> /\ trouble' \in Nat /\ trouble' >= trouble
  BY <1>1 DEF CacheSet, RedisAnswers, RedisFails
<1>3. \A d \in Days : quota'[d] >= quota[d]
  BY <1>1, <1>2
<1> QED BY <1>1, <1>2, <1>3, Resting, QuietWorker

(* A worker has its unit of the day's quota, or there is none left.        *)
LEMMA QuotaReserveKeeps ==
  ASSUME QuotaInv, NEW w \in Workers, QuotaReserve(w)
  PROVE  QuotaInv'
<1> DEFINE s == [lookup[w] EXCEPT !.at = "fetch", !.reserved = day]
<1>1. /\ day \in Days /\ quota \in [Days -> Nat] /\ trouble \in Nat
      /\ lookup \in [Workers -> LookupRecord] /\ queries \in Seq(Query)
      /\ lookup[w].at = "reserve" /\ lookup[w].reserved = Untracked
      /\ quota' = [quota EXCEPT ![day] = @ + 1]
      /\ UNCHANGED <<day, queries, trouble>>
  BY DEF QuotaInv, LookupsTyped, NotAhead, QuotaReserve, Working
<1>2. /\ \A d \in Days : d # day => quota'[d] = quota[d]
      /\ quota'[day] = quota[day] + 1
      /\ quota' \in [Days -> Nat] /\ \A d \in Days : quota'[d] >= quota[d]
  <2>1. \A d \in Days : quota[d] \in Nat
    BY <1>1
  <2>2. quota[day] + 1 \in Nat
    BY <1>1, <2>1
  <2>3. quota' \in [Days -> Nat]
    BY <1>1, <2>2
  <2>4. quota'[day] = quota[day] + 1 /\ \A d \in Days : d # day => quota'[d] = quota[d]
    BY <1>1
  <2>5. ASSUME NEW d \in Days PROVE quota'[d] >= quota[d]
    <3>1. CASE d = day
      BY <2>1, <2>4, <3>1
    <3>2. CASE d # day
      BY <2>1, <2>4, <3>2
    <3> QED BY <3>1, <3>2
  <2> QED BY <2>3, <2>4, <2>5
<1>3. CASE quota'[day] > DailyQuota
  <2>1. Proceed(w, AtRest)
    BY <1>1, <1>2, <1>3, LookupsAssumption DEF QuotaReserve, WithinQuota
  <2>2. trouble' \in Nat /\ trouble' >= trouble /\ UNCHANGED <<day, queries>>
    BY <1>1
  <2>3. /\ AtRest \in LookupRecord /\ AtRest.at # "fetch" /\ AtRest.at # "reserve"
        /\ AtRest.reserved <= day /\ lookup[w].at # "fetch"
    BY <1>1, Resting
  <2> QED BY <1>2, <2>1, <2>2, <2>3, QuietWorker
<1>4. CASE quota'[day] <= DailyQuota
  <2>1. Proceed(w, s)
    BY <1>1, <1>4 DEF QuotaReserve, WithinQuota
  <2>2. s \in LookupRecord /\ s.at = "fetch" /\ s.reserved = day
    BY <1>1 DEF LookupRecord, Answers
  <2> HIDE DEF s
  <2>3. lookup' = [lookup EXCEPT ![w] = s] /\ lookup' \in [Workers -> LookupRecord]
    BY <1>1, <2>1, <2>2 DEF Proceed
  <2>4. LookupsTyped'
    BY <1>1, <1>2, <2>3 DEF LookupsTyped
  <2>5. NotAhead'
    <3>1. day <= day
      BY <1>1 DEF Days
    <3> QED BY <1>1, <2>2, <2>3, <3>1 DEF QuotaInv, NotAhead
  <2>6. /\ Cardinality(Pending(lookup', {day})) = Cardinality(Pending(lookup, {day})) + 1
        /\ \A reserved :
             day \notin reserved => Pending(lookup', reserved) = Pending(lookup, reserved)
    <3>1. lookup[w].at # "fetch"
      BY <1>1
    <3>2. Cardinality(Pending(lookup', {day})) = Cardinality(Pending(lookup, {day})) + 1
      BY <1>1, <2>2, <2>3, <3>1, WorkerTurns
    <3>3. ASSUME NEW reserved, day \notin reserved
          PROVE  Pending(lookup', reserved) = Pending(lookup, reserved)
      BY <1>1, <2>2, <2>3, <3>1, <3>3, WorkerTurns
    <3> QED BY <3>2, <3>3
  <2>7. day \in Nat /\ day \notin {Untracked} /\ day \notin 0..(day - 1)
    BY <1>1 DEF Days, Untracked
  <2>8. \A d \in Days :
          LET n == Cardinality(Queried(queries, Days, {d})) + Cardinality(Pending(lookup', {d}))
          IN n <= quota'[d] /\ n <= DailyQuota
    <3> SUFFICES ASSUME NEW d \in Days
                 PROVE  LET n == Cardinality(Queried(queries, Days, {d}))
                                   + Cardinality(Pending(lookup', {d}))
                        IN n <= quota'[d] /\ n <= DailyQuota
      OBVIOUS
    <3> DEFINE m == Cardinality(Queried(queries, Days, {d}))
               k == Cardinality(Pending(lookup, {d}))
               l == Cardinality(Pending(lookup', {d}))
    <3>1. /\ m \in Nat /\ k \in Nat /\ l \in Nat /\ DailyQuota \in Nat
          /\ m + k <= quota[d] /\ m + k <= DailyQuota /\ quota[d] \in Nat /\ quota'[d] \in Nat
      BY <1>1, <1>2, RequestsFinite, PendingFinite, LookupsAssumption DEF QuotaInv
    <3>2. IF d = day THEN l = k + 1 ELSE l = k
      BY <2>6
    <3> HIDE DEF m, k, l
    <3>3. m + l <= quota'[d] /\ m + l <= DailyQuota
      BY <1>2, <1>4, <3>1, <3>2
    <3> QED BY <3>3 DEF m, l
  <2> QED BY <1>1, <2>4, <2>5, <2>6, <2>7, <2>8 DEF QuotaInv
<1> QED BY <1>2, <1>3, <1>4, LookupsAssumption, <1>1

(* Without the counter it is a failure that has let the worker through.    *)
LEMMA QuotaFailsKeeps ==
  ASSUME QuotaInv, NEW w \in Workers, QuotaFails(w)
  PROVE  QuotaInv'
<1> DEFINE s == [lookup[w] EXCEPT !.at = "fetch"]
<1>1. PICK n \in 0..1 : quota' = [quota EXCEPT ![day] = @ + n]
  BY DEF QuotaFails
<1>2. /\ day \in Days /\ quota \in [Days -> Nat] /\ trouble \in Nat
      /\ lookup \in [Workers -> LookupRecord] /\ queries \in Seq(Query)
      /\ lookup[w].at = "reserve" /\ lookup[w].reserved = Untracked
      /\ trouble' = trouble + 1 /\ Proceed(w, s) /\ UNCHANGED <<day, queries>>
  BY DEF QuotaInv, LookupsTyped, NotAhead, QuotaFails, Working, RedisFails
<1>3. quota' \in [Days -> Nat] /\ \A d \in Days : quota'[d] >= quota[d]
  <2>1. \A d \in Days : quota[d] \in Nat
    BY <1>2
  <2>2. quota[day] + n \in Nat
    BY <1>2, <2>1
  <2>3. quota' \in [Days -> Nat]
    BY <1>1, <1>2, <2>2
  <2>4. quota'[day] = quota[day] + n /\ \A d \in Days : d # day => quota'[d] = quota[d]
    BY <1>1, <1>2
  <2>5. ASSUME NEW d \in Days PROVE quota'[d] >= quota[d]
    <3>1. CASE d = day
      BY <2>1, <2>4, <3>1
    <3>2. CASE d # day
      BY <2>1, <2>4, <3>2
    <3> QED BY <3>1, <3>2
  <2> QED BY <2>3, <2>5
<1>4. s \in LookupRecord /\ s.at = "fetch" /\ s.reserved = Untracked
  BY <1>2 DEF LookupRecord
<1> HIDE DEF s
<1>5. lookup' = [lookup EXCEPT ![w] = s] /\ lookup' \in [Workers -> LookupRecord]
  BY <1>2, <1>4 DEF Proceed
<1>6. LookupsTyped'
  BY <1>2, <1>3, <1>5 DEF LookupsTyped
<1>7. NotAhead'
  <2>1. Untracked <= day
    BY <1>2 DEF Untracked, Days
  <2> QED BY <1>2, <1>4, <1>5, <2>1 DEF QuotaInv, NotAhead
<1>8. /\ Cardinality(Pending(lookup', {Untracked}))
           = Cardinality(Pending(lookup, {Untracked})) + 1
      /\ \A reserved :
           Untracked \notin reserved => Pending(lookup', reserved) = Pending(lookup, reserved)
  <2>1. lookup[w].at # "fetch"
    BY <1>2
  <2>2. Cardinality(Pending(lookup', {Untracked})) = Cardinality(Pending(lookup, {Untracked})) + 1
    BY <1>2, <1>4, <1>5, <2>1, WorkerTurns
  <2>3. ASSUME NEW reserved, Untracked \notin reserved
        PROVE  Pending(lookup', reserved) = Pending(lookup, reserved)
    BY <1>2, <1>4, <1>5, <2>1, <2>3, WorkerTurns
  <2> QED BY <2>2, <2>3
<1>9. Untracked \notin 0..(day - 1) /\ \A d \in Days : Untracked \notin {d}
  BY DEF Untracked, Days
<1>10. Cardinality(Queried(queries, Days, {Untracked}))
         + Cardinality(Pending(lookup', {Untracked})) <= trouble'
  <2> DEFINE m == Cardinality(Queried(queries, Days, {Untracked}))
             k == Cardinality(Pending(lookup, {Untracked}))
  <2>1. m \in Nat /\ k \in Nat /\ m + k <= trouble
    BY <1>2, RequestsFinite, PendingFinite DEF QuotaInv
  <2> HIDE DEF m, k
  <2>2. m + (k + 1) <= trouble + 1
    BY <1>2, <2>1
  <2> QED BY <1>2, <1>8, <2>2 DEF m, k
<1>11. \A d \in Days :
         LET m == Cardinality(Queried(queries, Days, {d})) + Cardinality(Pending(lookup', {d}))
         IN m <= quota'[d] /\ m <= DailyQuota
  <2> SUFFICES ASSUME NEW d \in Days
               PROVE  LET m == Cardinality(Queried(queries, Days, {d}))
                                 + Cardinality(Pending(lookup', {d}))
                      IN m <= quota'[d] /\ m <= DailyQuota
    OBVIOUS
  <2>1. Pending(lookup', {d}) = Pending(lookup, {d})
    BY <1>8, <1>9
  <2> DEFINE m == Cardinality(Queried(queries, Days, {d})) + Cardinality(Pending(lookup, {d}))
  <2>2. m \in Nat /\ m <= quota[d] /\ m <= DailyQuota /\ quota[d] \in Nat /\ quota'[d] \in Nat
    <3>1. m \in Nat
      BY <1>2, RequestsFinite, PendingFinite
    <3>2. m <= quota[d] /\ m <= DailyQuota
      BY <1>2 DEF QuotaInv
    <3>3. quota[d] \in Nat /\ quota'[d] \in Nat
      BY <1>2, <1>3
    <3> QED BY <3>1, <3>2, <3>3
  <2> HIDE DEF m
  <2>3. m <= quota'[d] /\ m <= DailyQuota
    BY <1>3, <2>2
  <2> QED BY <2>1, <2>3 DEF m
<1> QED BY <1>2, <1>6, <1>7, <1>8, <1>9, <1>10, <1>11 DEF QuotaInv

(* What was pending is sent.                                               *)
LEMMA FetchKeeps ==
  ASSUME QuotaInv, NEW w \in Workers, Fetch(w)
  PROVE  QuotaInv'
<1> DEFINE r == lookup[w].reserved
           x == [on |-> day, reserved |-> r]
<1>1. PICK s \in {[lookup[w] EXCEPT !.at = "store"], AtRest} : Proceed(w, s)
  BY DEF Fetch
<1>2. /\ day \in Days /\ quota \in [Days -> Nat] /\ trouble \in Nat
      /\ lookup \in [Workers -> LookupRecord] /\ queries \in Seq(Query)
      /\ lookup[w].at = "fetch" /\ r <= day /\ queries' = Append(queries, x)
      /\ UNCHANGED <<day, quota, trouble>>
  BY DEF QuotaInv, LookupsTyped, NotAhead, Fetch, Working
<1>3. s \in LookupRecord /\ s.at \in {"store", "rest"} /\ s.reserved <= day
  <2>1. CASE s = AtRest
    BY <1>2, <2>1, Resting
  <2>2. CASE s = [lookup[w] EXCEPT !.at = "store"]
    BY <1>2, <2>2 DEF LookupRecord
  <2> QED BY <2>1, <2>2
<1>4. lookup' = [lookup EXCEPT ![w] = s] /\ lookup' \in [Workers -> LookupRecord]
  BY <1>1, <1>2, <1>3 DEF Proceed
<1>5. x \in Query /\ x.on = day /\ x.reserved = r /\ r \in Answers
  BY <1>2 DEF Query, LookupRecord
<1> HIDE DEF x
<1>6. /\ queries' \in Seq(Query)
      /\ \A on, reserved :
           /\ (day \in on /\ r \in reserved) =>
                Cardinality(Queried(queries', on, reserved))
                  = Cardinality(Queried(queries, on, reserved)) + 1
           /\ ~(day \in on /\ r \in reserved) =>
                Queried(queries', on, reserved) = Queried(queries, on, reserved)
  BY <1>2, <1>5, OneMoreRequest
<1>7. LookupsTyped'
  BY <1>2, <1>4, <1>6 DEF LookupsTyped
<1>8. NotAhead'
  <2>1. \A v \in Workers : lookup'[v] = IF v = w THEN s ELSE lookup[v]
    BY <1>2, <1>4
  <2>2. \A i \in DOMAIN queries' : i \in DOMAIN queries \/ queries'[i] = x
    BY <1>2, <1>5, AppendProperties
  <2>3. \A i \in DOMAIN queries : queries'[i] = queries[i]
    BY <1>2, <1>5, AppendProperties
  <2>4. day <= day
    BY <1>2 DEF Days
  <2> QED BY <1>2, <1>3, <1>5, <2>1, <2>2, <2>3, <2>4 DEF QuotaInv, NotAhead
<1> HIDE DEF r
<1>9. ASSUME NEW reserved
      PROVE  /\ r \in reserved =>
                  Cardinality(Pending(lookup', reserved)) = Cardinality(Pending(lookup, reserved)) - 1
             /\ r \notin reserved => Pending(lookup', reserved) = Pending(lookup, reserved)
  BY <1>2, <1>3, <1>4, WorkerTurns DEF r
(* The sum of the two never grows.                                         *)
<1>10. ASSUME NEW on, NEW reserved, day \in on
       PROVE  Cardinality(Queried(queries', on, reserved)) + Cardinality(Pending(lookup', reserved))
                = Cardinality(Queried(queries, on, reserved)) + Cardinality(Pending(lookup, reserved))
  <2>1. /\ Cardinality(Queried(queries, on, reserved)) \in Nat
        /\ Cardinality(Pending(lookup, reserved)) \in Nat
    BY <1>2, RequestsFinite, PendingFinite
  <2>2. CASE r \in reserved
    BY <1>6, <1>9, <1>10, <2>1, <2>2
  <2>3. CASE r \notin reserved
    BY <1>6, <1>9, <2>3
  <2> QED BY <2>2, <2>3
<1>11. \A d \in Days :
         LET n == Cardinality(Queried(queries', Days, {d})) + Cardinality(Pending(lookup', {d}))
         IN n <= quota'[d] /\ n <= DailyQuota
  BY <1>2, <1>10 DEF QuotaInv
<1>12. Cardinality(Queried(queries', Days, {Untracked}))
         + Cardinality(Pending(lookup', {Untracked})) <= trouble'
  BY <1>2, <1>10 DEF QuotaInv
<1>13. Cardinality(Queried(queries', {day}, 0..(day - 1)))
         + Cardinality(Pending(lookup', 0..(day - 1))) <= Cardinality(Workers)
  BY <1>10 DEF QuotaInv
<1>14. ASSUME NEW d \in Days
       PROVE  Cardinality(Queried(queries', {d}, 0..(d - 1))) <= Cardinality(Workers)
  <2>1. CASE d = day
    <3>1. /\ Cardinality(Queried(queries', {day}, 0..(day - 1))) \in Nat
          /\ Cardinality(Pending(lookup', 0..(day - 1))) \in Nat
          /\ Cardinality(Workers) \in Nat
      BY <1>6, RequestsFinite, PendingFinite
    <3> QED BY <1>13, <2>1, <3>1
  <2>2. CASE d # day
    BY <1>6, <2>2 DEF QuotaInv
  <2> QED BY <2>1, <2>2
<1> QED BY <1>2, <1>7, <1>8, <1>11, <1>12, <1>13, <1>14 DEF QuotaInv

(* The requests of the new day are none as yet.                            *)
LEMMA MidnightKeeps ==
  ASSUME QuotaInv, Midnight
  PROVE  QuotaInv'
<1>1. /\ day \in Nat /\ day' = day + 1 /\ day' \in Days
      /\ UNCHANGED <<quota, lookup, queries, trouble>>
  BY LookupsAssumption DEF QuotaInv, LookupsTyped, Midnight, Days
<1>2. LookupsTyped'
  BY <1>1 DEF QuotaInv, LookupsTyped
<1>3. NotAhead'
  <2>1. \A w \in Workers : lookup[w].reserved \in Int /\ lookup[w].reserved <= day
    BY DEF QuotaInv, LookupsTyped, NotAhead, LookupRecord, Answers, Days, Untracked
  <2>2. \A i \in DOMAIN queries : queries[i].on \in Int /\ queries[i].on <= day
    <3>1. \A i \in DOMAIN queries : queries[i] \in Query
      BY DEF QuotaInv, LookupsTyped
    <3> QED BY <3>1 DEF QuotaInv, NotAhead, Query, Days
  <2> QED BY <1>1, <2>1, <2>2 DEF QuotaInv, NotAhead
<1>4. Queried(queries', {day'}, 0..(day' - 1)) = {}
  <2>1. \A i \in DOMAIN queries : queries[i].on # day'
    BY <1>1 DEF QuotaInv, NotAhead
  <2> QED BY <1>1, <2>1 DEF Queried
<1>5. Cardinality(Queried(queries', {day'}, 0..(day' - 1)))
        + Cardinality(Pending(lookup', 0..(day' - 1))) <= Cardinality(Workers)
  <2>1. /\ Cardinality(Pending(lookup', 0..(day' - 1))) \in Nat
        /\ Cardinality(Pending(lookup', 0..(day' - 1))) <= Cardinality(Workers)
        /\ Cardinality(Workers) \in Nat
    BY PendingFinite
  <2>2. Cardinality(Queried(queries', {day'}, 0..(day' - 1))) = 0
    BY <1>4, FS_EmptySet
  <2> QED BY <2>1, <2>2
<1> QED BY <1>1, <1>2, <1>3, <1>5 DEF QuotaInv

(* On no day more requests are sent than the quota, those not counted      *)
(* because Redis had failed, and one for each worker that midnight         *)
(* overtook, whatever the quota and however many workers and days.         *)
THEOREM QuotaCorrect == Spec => []QuotaKept
<1>1. QuotaInv => QuotaKept
  <2> SUFFICES ASSUME QuotaInv, NEW d \in Days
               PROVE  /\ Sent(d, Days) <= DailyQuota + Cardinality(Workers)
                      /\ Sent(d, {d}) <= DailyQuota
                      /\ Sent(d, {Untracked}) <= trouble
                      /\ Sent(d, 0..(d - 1)) <= Cardinality(Workers)
    BY DEF QuotaKept
  <2>1. /\ queries \in Seq(Query) /\ trouble \in Nat /\ DailyQuota \in Nat
        /\ Cardinality(Workers) \in Nat
    BY LookupsAssumption, PendingFinite DEF QuotaInv, LookupsTyped
  <2>2. ASSUME NEW reserved
        PROVE  /\ Sent(d, reserved) = Cardinality(Queried(queries, {d}, reserved))
               /\ Sent(d, reserved) <= Cardinality(Queried(queries, Days, reserved))
               /\ Sent(d, reserved) \in Nat
               /\ Cardinality(Queried(queries, Days, reserved)) \in Nat
               /\ Cardinality(Pending(lookup, reserved)) \in Nat
    <3>1. {i \in DOMAIN queries : queries[i].on = d /\ queries[i].reserved \in reserved}
            = Queried(queries, {d}, reserved)
      BY DEF Queried
    <3>2. Sent(d, reserved) = Cardinality(Queried(queries, {d}, reserved))
      BY <3>1 DEF Sent
    <3> QED BY <2>1, <3>2, RequestsFinite, PendingFinite, FewerRequests
  <2>3. Sent(d, {d}) <= DailyQuota
    BY SMTT(20), <2>1, <2>2 DEF QuotaInv
  <2>4. Sent(d, {Untracked}) <= trouble
    BY <2>1, <2>2 DEF QuotaInv
  <2>5. Sent(d, 0..(d - 1)) <= Cardinality(Workers)
    BY <2>1, <2>2 DEF QuotaInv
  <2>6. Sent(d, Days) <= Sent(d, {d}) + Sent(d, 0..(d - 1))
    <3> DEFINE A == Queried(queries, {d}, {d})
               B == Queried(queries, {d}, 0..(d - 1))
               C == Queried(queries, {d}, Days)
    <3>1. C \subseteq A \cup B
      <4>1. \A i \in DOMAIN queries : queries[i] \in Query /\ queries[i].reserved <= queries[i].on
        BY <2>1 DEF QuotaInv, NotAhead
      <4> QED BY <4>1 DEF Queried, Query, Days
    <3>2. IsFiniteSet(A) /\ IsFiniteSet(B)
      BY <2>1, RequestsFinite
    <3>3. /\ Sent(d, Days) = Cardinality(C) /\ Sent(d, {d}) = Cardinality(A)
          /\ Sent(d, 0..(d - 1)) = Cardinality(B)
      BY <2>2
    <3> HIDE DEF A, B, C
    <3>4. /\ IsFiniteSet(A \cup B)
          /\ Cardinality(A \cup B) = Cardinality(A) + Cardinality(B) - Cardinality(A \cap B)
      BY <3>2, FS_Union
    <3>5. /\ Cardinality(C) <= Cardinality(A \cup B) /\ Cardinality(C) \in Nat
          /\ Cardinality(A \cup B) \in Nat /\ Cardinality(A \cap B) \in Nat
          /\ Cardinality(A) \in Nat /\ Cardinality(B) \in Nat
      <4>1. IsFiniteSet(C) /\ Cardinality(C) <= Cardinality(A \cup B)
        BY <3>1, <3>4, FS_Subset
      <4>2. A \cap B \subseteq A
        OBVIOUS
      <4>3. IsFiniteSet(A \cap B)
        BY <3>2, <4>2, FS_Subset
      <4> QED BY <3>2, <3>4, <4>1, <4>3, FS_CardinalityType
    <3>6. Cardinality(C) <= Cardinality(A) + Cardinality(B)
      BY <3>4, <3>5
    <3> QED BY <3>3, <3>6
  <2> QED BY SMTT(20), <2>1, <2>2, <2>3, <2>4, <2>5, <2>6
<1>2. QuotaInv /\ [Next]_platformVars => QuotaInv'
  <2> SUFFICES ASSUME QuotaInv, [Next]_platformVars PROVE QuotaInv'
    OBVIOUS
  <2>1. CASE UNCHANGED <<day, quota, lookup, queries, trouble>>
    BY <2>1 DEF QuotaInv, LookupsTyped, NotAhead
  <2>2. CASE LookupsNext
    <3>1. ASSUME NEW ip \in Addresses, RecordExpires(ip)
          PROVE  UNCHANGED <<day, quota, lookup, queries, trouble>>
      BY <3>1 DEF RecordExpires
    <3> QED BY <2>1, <2>2, <3>1, CacheGetKeeps, QuotaReserveKeeps, QuotaFailsKeeps, FetchKeeps,
            CacheSetKeeps, MidnightKeeps DEF LookupsNext
  <2> QED BY <2>1, <2>2, OnlyOneSensorMoves DEF lookupVars
<1> QED BY <1>1, <1>2, QuotaStart, PTL DEF Spec

--------------------------------------------------------------------------
(* An attacker who is let in early is not seen guessing *)

(* The rule of one technique finds no other.                               *)
LEMMA FewGuesses ==
  ASSUME NEW ctx, Cardinality(GuessEvents(ctx)) <= GuessThreshold
  PROVE  "T1110.001" \notin {m.id : m \in TTPMatches(ctx)}
<1>1. PasswordGuessing(ctx) = {}
  BY DEF PasswordGuessing
<1>2. \A m \in CredentialStuffing(ctx) : m.id = "T1110.004"
  BY DEF CredentialStuffing, Match
<1>3. \A m \in ExploitPublicApp(ctx) : m.id = "T1190"
  BY DEF ExploitPublicApp, Match
<1>4. \A m \in FileDiscovery(ctx) : m.id = "T1083"
  BY DEF FileDiscovery, Match
<1>5. \A m \in VictimHostInfo(ctx) : m.id = "T1592"
  <2>1. VictimHostInfo(ctx) \in {{}, Match("T1592", 65)}
    BY Zenon DEF VictimHostInfo
  <2> QED BY <2>1 DEF Match
<1>6. \A m \in ValidAccounts(ctx) : m.id = "T1078"
  BY DEF ValidAccounts, Match
<1>7. \A m \in IpBlockScanning(ctx) : m.id = "T1595.001"
  BY DEF IpBlockScanning, Match
<1>8. \A m \in TTPMatches(ctx) : m.id # "T1110.001"
  BY <1>1, <1>2, <1>3, <1>4, <1>5, <1>6, <1>7 DEF TTPMatches
<1> QED BY <1>8

(* What a client of the catalogue says on one connection: passwords, or no *)
(* more than the rule's threshold.                                         *)
Fine(d) ==
  IF d.service = "ssh" THEN d.talk.passwords \in Nat
  ELSE \E n \in 0..GuessThreshold : DOMAIN d.talk = 1..n

FineRun(run) == run \in Seq(Range(run)) /\ \A d \in Range(run) : Fine(d)

LEMMA OwnRange ==
  ASSUME NEW S, NEW q \in Seq(S)
  PROVE  q \in Seq(Range(q)) /\ Range(q) \subseteq S
<1> DEFINE n == Len(q)
<1>1. n \in Nat /\ q \in [1..n -> S] /\ DOMAIN q = 1..n
  OBVIOUS
<1> HIDE DEF n
<1>2. \A i \in 1..n : q[i] \in Range(q)
  BY <1>1 DEF Range
<1>3. q \in [1..n -> Range(q)]
  BY <1>1, <1>2
<1>4. Range(q) \subseteq S
  BY <1>1 DEF Range
<1> QED BY <1>1, <1>3, <1>4

LEMMA OneDial ==
  ASSUME NEW d, Fine(d)
  PROVE  FineRun(<<d>>)
<1>1. <<d>> \in Seq({d})
  OBVIOUS
<1>2. Range(<<d>>) \subseteq {d}
  BY <1>1, OwnRange
<1> QED BY <1>1, <1>2, OwnRange DEF FineRun

LEMMA DialsJoined ==
  ASSUME NEW p, NEW q, FineRun(p), FineRun(q)
  PROVE  FineRun(p \o q)
<1> DEFINE S == Range(p) \cup Range(q)
<1>1. p \in Seq(S) /\ q \in Seq(S)
  <2>1. p \in Seq(Range(p)) /\ q \in Seq(Range(q))
    BY DEF FineRun
  <2> QED BY <2>1
<1>2. p \o q \in Seq(S)
  BY <1>1, ConcatProperties
<1>3. \A d \in S : Fine(d)
  BY DEF FineRun
<1> HIDE DEF S
<1> QED BY <1>2, <1>3, OwnRange DEF FineRun

LEMMA ManyDials ==
  ASSUME NEW n \in Nat, NEW run, DOMAIN run = 1..n, run = [i \in 1..n |-> run[i]],
         \A i \in 1..n : Fine(run[i])
  PROVE  FineRun(run)
<1>1. Range(run) = {run[i] : i \in 1..n}
  BY DEF Range
<1>2. \A i \in 1..n : run[i] \in Range(run)
  BY <1>1
<1>3. run \in [1..n -> Range(run)]
  BY <1>2
<1> QED BY <1>1, <1>3 DEF FineRun

(* The runs of the catalogue are made of such connections.                 *)
LEMMA RequestFine ==
  ASSUME NEW target, NEW body, NEW agent
  PROVE  Fine(HttpDial(target, body, agent))
<1> DEFINE r == HttpRequest(target, body, agent)
<1>1. HttpDial(target, body, agent) = [service |-> "http", talk |-> <<r>>]
  BY DEF HttpDial, Dial
<1> HIDE DEF r
<1>2. DOMAIN <<r>> = 1..1 /\ 1 \in 0..5
  OBVIOUS
<1> QED BY <1>1, <1>2 DEF Fine, GuessThreshold

LEMMA HttpRunsFine ==
  /\ \A agent : FineRun(HttpRecon(ReconPaths, agent))
  /\ \A agent, path : FineRun(HttpRecon(<<path>>, agent))
  /\ \A target : FineRun(HttpSqlmap(target))
  /\ FineRun(HttpLog4shell)
  /\ \A segment : FineRun(HttpTraversal(segment))
<1>1. ASSUME NEW agent PROVE FineRun(HttpRecon(ReconPaths, agent))
  <2> DEFINE run == HttpRecon(ReconPaths, agent)
  <2>1. /\ DOMAIN ReconPaths = 1..3
        /\ run = [i \in DOMAIN ReconPaths |-> HttpDial(ReconPaths[i], {}, agent)]
    BY DEF ReconPaths, HttpRecon
  <2> HIDE DEF run
  <2>2. DOMAIN run = 1..3 /\ run = [i \in 1..3 |-> run[i]] /\ \A i \in 1..3 : Fine(run[i])
    BY <2>1, RequestFine
  <2> QED BY <2>2, ManyDials DEF run
<1>2. ASSUME NEW agent, NEW path PROVE FineRun(HttpRecon(<<path>>, agent))
  <2> DEFINE run == HttpRecon(<<path>>, agent)
             paths == <<path>>
  <2>1. DOMAIN paths = 1..1 /\ run = [i \in DOMAIN paths |-> HttpDial(paths[i], {}, agent)]
    BY DEF HttpRecon
  <2> HIDE DEF run, paths
  <2>2. DOMAIN run = 1..1 /\ run = [i \in 1..1 |-> run[i]] /\ \A i \in 1..1 : Fine(run[i])
    BY <2>1, RequestFine
  <2> QED BY <2>2, ManyDials DEF run
<1>3. \A target : FineRun(HttpSqlmap(target))
  BY RequestFine, OneDial DEF HttpSqlmap
<1>4. FineRun(HttpLog4shell)
  BY RequestFine, OneDial DEF HttpLog4shell
<1>5. \A segment : FineRun(HttpTraversal(segment))
  BY RequestFine, OneDial DEF HttpTraversal
<1> QED BY <1>1, <1>2, <1>3, <1>4, <1>5

LEMMA OtherRunsFine ==
  /\ \A count \in Nat : \A keepShell : FineRun(SshHydra(count, keepShell))
  /\ \A requested : FineRun(RdpScan(requested))
  /\ FineRun(TlsFingerprint)
  /\ \A S : \A users \in Seq(S) : FineRun(FtpHydra(users))
<1>1. ASSUME NEW count \in Nat, NEW keepShell PROVE FineRun(SshHydra(count, keepShell))
  BY OneDial DEF SshHydra, Dial, Fine
<1>2. ASSUME NEW requested PROVE FineRun(RdpScan(requested))
  <2> DEFINE r == [type |-> "RDP_CONNECT", protocols |-> requested]
  <2>1. DOMAIN <<r>> = 1..1 /\ 1 \in 0..5
    OBVIOUS
  <2>2. RdpScan(requested) = <<[service |-> "rdp", talk |-> <<r>>]>>
    BY DEF RdpScan, Dial
  <2> HIDE DEF r
  <2>3. Fine([service |-> "rdp", talk |-> <<r>>])
    BY <2>1 DEF Fine, GuessThreshold
  <2> QED BY <2>2, <2>3, OneDial
<1>3. FineRun(TlsFingerprint)
  <2> DEFINE r == [type |-> "TLS_CLIENT_HELLO"]
  <2>1. DOMAIN <<r>> = 1..1 /\ 1 \in 0..5
    OBVIOUS
  <2>2. TlsFingerprint = <<[service |-> "tls", talk |-> <<r>>]>>
    BY DEF TlsFingerprint, Dial
  <2> HIDE DEF r
  <2>3. Fine([service |-> "tls", talk |-> <<r>>])
    BY <2>1 DEF Fine, GuessThreshold
  <2> QED BY <2>2, <2>3, OneDial
<1>4. ASSUME NEW S, NEW users \in Seq(S) PROVE FineRun(FtpHydra(users))
  <2> DEFINE n == Len(users)
             run == FtpHydra(users)
  <2>1. n \in Nat /\ DOMAIN users = 1..n
    OBVIOUS
  <2>2. ASSUME NEW a, NEW b, NEW c PROVE Fine([service |-> "ftp", talk |-> <<a, b, c>>])
    <3>1. DOMAIN <<a, b, c>> = 1..3 /\ 3 \in 0..5
      OBVIOUS
    <3> QED BY <3>1 DEF Fine, GuessThreshold
  <2>3. \A a, b, c : Fine(Dial("ftp", <<a, b, c>>))
    BY <2>2 DEF Dial
  <2>4. run = [i \in DOMAIN users |->
                 Dial("ftp", <<FtpCommand("USER", users[i]), FtpCommand("PASS", users[i]),
                               FtpCommand("OTHER", users[i])>>)]
    BY DEF FtpHydra
  <2> HIDE DEF run, n
  <2>5. DOMAIN run = 1..n /\ run = [i \in 1..n |-> run[i]] /\ \A i \in 1..n : Fine(run[i])
    BY <2>1, <2>3, <2>4
  <2> QED BY <2>1, <2>5, ManyDials DEF run
<1> QED BY <1>1, <1>2, <1>3, <1>4

LEMMA SomeServicesFine ==
  ASSUME NEW services \in Seq({"ssh", "http", "ftp", "tls"})
  PROVE  FineRun(MultiService(services))
<1> DEFINE n == Len(services)
           ssh1 == SshHydra(1, FALSE)
           ftp1 == FtpHydra(<<"root">>)
           probe == [ssh |-> ssh1, http |-> Probe, ftp |-> ftp1, tls |-> TlsFingerprint]
           run == MultiService(services)
<1>1. /\ n \in Nat /\ DOMAIN services = 1..n
      /\ \A i \in 1..n : services[i] \in {"ssh", "http", "ftp", "tls"}
  OBVIOUS
<1>2. run = [i \in DOMAIN services |-> probe[services[i]][1]]
  BY DEF MultiService
<1>3. ASSUME NEW r, FineRun(r), 1 \in DOMAIN r PROVE Fine(r[1])
  <2>1. r[1] \in Range(r)
    BY <1>3 DEF Range
  <2> QED BY <1>3, <2>1 DEF FineRun
<1>4. Fine(ssh1[1])
  <2>1. 1 \in DOMAIN ssh1
    BY DEF SshHydra
  <2>2. FineRun(ssh1)
    BY OtherRunsFine
  <2> QED BY <1>3, <2>1, <2>2
<1>5. Fine(Probe[1])
  <2>1. 1 \in DOMAIN Probe /\ FineRun(Probe)
    BY HttpRunsFine DEF Probe, HttpSqlmap
  <2> QED BY <1>3, <2>1
<1>6. Fine(ftp1[1])
  <2> DEFINE users == <<"root">>
  <2>1. users \in Seq({"root"}) /\ DOMAIN users = 1..1
    OBVIOUS
  <2> HIDE DEF users
  <2>2. FineRun(FtpHydra(users))
    BY <2>1, OtherRunsFine
  <2>3. 1 \in DOMAIN FtpHydra(users)
    BY <2>1 DEF FtpHydra
  <2> QED BY <1>3, <2>2, <2>3 DEF users
<1>7. Fine(TlsFingerprint[1])
  <2>1. 1 \in DOMAIN TlsFingerprint
    BY DEF TlsFingerprint
  <2> QED BY <1>3, <2>1, OtherRunsFine
<1> HIDE DEF n, ssh1, ftp1, run
<1>8. \A i \in 1..n : Fine(probe[services[i]][1])
  <2>1. probe.ssh = ssh1 /\ probe.http = Probe /\ probe.ftp = ftp1 /\ probe.tls = TlsFingerprint
    OBVIOUS
  <2> HIDE DEF probe
  <2> QED BY <1>1, <1>4, <1>5, <1>6, <1>7, <2>1
<1> HIDE DEF probe
<1>9. DOMAIN run = 1..n /\ run = [i \in 1..n |-> run[i]] /\ \A i \in 1..n : Fine(run[i])
  BY <1>1, <1>2, <1>8
<1> QED BY <1>1, <1>9, ManyDials DEF run

LEMMA WholeChainFine == FineRun(FullCompromise)
<1> DEFINE users == <<"root", "admin">>
<1>1. users \in Seq({"root", "admin"})
  OBVIOUS
<1> HIDE DEF users
<1>2. /\ FineRun(HttpRecon(ReconPaths, "Nikto")) /\ FineRun(Sqlmap) /\ FineRun(HydraShell)
      /\ FineRun(FtpHydra(users)) /\ FineRun(TlsFingerprint)
  BY <1>1, HttpRunsFine, OtherRunsFine DEF Sqlmap, HydraShell
<1>3. FineRun(HttpRecon(ReconPaths, "Nikto") \o Sqlmap)
  BY <1>2, DialsJoined
<1>4. FineRun(HttpRecon(ReconPaths, "Nikto") \o Sqlmap \o HydraShell)
  BY <1>2, <1>3, DialsJoined
<1>5. FineRun(HttpRecon(ReconPaths, "Nikto") \o Sqlmap \o HydraShell \o FtpHydra(users))
  BY <1>2, <1>4, DialsJoined
<1> QED BY <1>2, <1>5, DialsJoined DEF FullCompromise, users

AllSteps == UNION {Range(StepsOf(e)) : e \in Entries}
AllDials == UNION {Range(s.run) : s \in AllSteps}

(* Every step of every entry, by evaluation of the catalogue.              *)
LEMMA StepsFine ==
  ASSUME NEW e \in Entries
  PROVE  /\ \E n \in Nat \ {0} : DOMAIN StepsOf(e) = 1..n /\ StepsOf(e) \in [1..n -> AllSteps]
         /\ \A i \in DOMAIN StepsOf(e) : FineRun(StepsOf(e)[i].run)
<1> DEFINE Good(plan) == /\ \E n \in Nat \ {0} : plan = [i \in 1..n |-> plan[i]]
                         /\ \A i \in DOMAIN plan : FineRun(plan[i].run)
<1>1. ASSUME NEW a, NEW E, FineRun(a) PROVE Good(<<Step(a, E)>>)
  <2> DEFINE plan == <<Step(a, E)>>
  <2>1. DOMAIN plan = 1..1 /\ 1 \in Nat \ {0} /\ plan = [i \in 1..1 |-> plan[i]]
    OBVIOUS
  <2>2. plan[1].run = a
    BY DEF Step
  <2> HIDE DEF plan
  <2>3. Good(plan)
    BY <1>1, <2>1, <2>2
  <2> QED BY <2>3 DEF plan
<1>2. ASSUME NEW a, NEW b, NEW E, NEW F, FineRun(a), FineRun(b)
      PROVE  Good(<<Step(a, E), Step(b, F)>>)
  <2> DEFINE plan == <<Step(a, E), Step(b, F)>>
  <2>1. DOMAIN plan = 1..2 /\ 2 \in Nat \ {0} /\ plan = [i \in 1..2 |-> plan[i]]
    OBVIOUS
  <2>2. plan[1].run = a /\ plan[2].run = b
    BY DEF Step
  <2> HIDE DEF plan
  <2>3. Good(plan)
    BY <1>2, <2>1, <2>2
  <2> QED BY <2>3 DEF plan
<1>3. ASSUME NEW a, NEW b, NEW c, NEW E, NEW F, NEW G, FineRun(a), FineRun(b), FineRun(c)
      PROVE  Good(<<Step(a, E), Step(b, F), Step(c, G)>>)
  <2> DEFINE plan == <<Step(a, E), Step(b, F), Step(c, G)>>
  <2>1. DOMAIN plan = 1..3 /\ 3 \in Nat \ {0} /\ plan = [i \in 1..3 |-> plan[i]]
    OBVIOUS
  <2>2. plan[1].run = a /\ plan[2].run = b /\ plan[3].run = c
    BY DEF Step
  <2> HIDE DEF plan
  <2>3. Good(plan)
    BY <1>3, <2>1, <2>2
  <2> QED BY <2>3 DEF plan
<1>4. ASSUME NEW a, NEW b, NEW c, NEW d, NEW E, NEW F, NEW G, NEW H,
             FineRun(a), FineRun(b), FineRun(c), FineRun(d)
      PROVE  Good(<<Step(a, E), Step(b, F), Step(c, G), Step(d, H)>>)
  <2> DEFINE plan == <<Step(a, E), Step(b, F), Step(c, G), Step(d, H)>>
  <2>1. DOMAIN plan = 1..4 /\ 4 \in Nat \ {0} /\ plan = [i \in 1..4 |-> plan[i]]
    OBVIOUS
  <2>2. plan[1].run = a /\ plan[2].run = b /\ plan[3].run = c /\ plan[4].run = d
    BY DEF Step
  <2> HIDE DEF plan
  <2>3. Good(plan)
    BY <1>4, <2>1, <2>2
  <2> QED BY <2>3 DEF plan
<1> HIDE DEF Good
<1>5. /\ FineRun(Hydra) /\ FineRun(HydraShell) /\ FineRun(Sqlmap)
      /\ FineRun(FtpHydra(<<"root", "admin", "oracle">>))
      /\ FineRun(MultiService(<<"ssh", "http", "ftp">>))
      /\ FineRun(MultiService(<<"ssh", "http", "ftp", "tls">>))
  <2>1. <<"root", "admin", "oracle">> \in Seq({"root", "admin", "oracle"})
    OBVIOUS
  <2>2. FineRun(FtpHydra(<<"root", "admin", "oracle">>))
    BY <2>1, OtherRunsFine
  <2>3. FineRun(MultiService(<<"ssh", "http", "ftp">>))
    <3>1. <<"ssh", "http", "ftp">> \in Seq({"ssh", "http", "ftp", "tls"})
      OBVIOUS
    <3> QED BY <3>1, SomeServicesFine
  <2>4. FineRun(MultiService(<<"ssh", "http", "ftp", "tls">>))
    <3>1. <<"ssh", "http", "ftp", "tls">> \in Seq({"ssh", "http", "ftp", "tls"})
      OBVIOUS
    <3> QED BY <3>1, SomeServicesFine
  <2> QED BY <2>2, <2>3, <2>4, HttpRunsFine, OtherRunsFine DEF Hydra, HydraShell, Sqlmap
<1>6. /\ Good(Playbooks.apt28) /\ Good(Playbooks.fin7)
      /\ Good(Playbooks.ransomware) /\ Good(Playbooks.scriptKiddie)
  <2>1. Good(Playbooks.apt28)
    BY <1>3, <1>5, HttpRunsFine DEF Playbooks
  <2>2. Good(Playbooks.fin7)
    BY <1>3, <1>5, HttpRunsFine DEF Playbooks
  <2>3. Good(Playbooks.ransomware)
    BY <1>4, <1>5, HttpRunsFine, OtherRunsFine DEF Playbooks
  <2>4. Good(Playbooks.scriptKiddie)
    BY <1>2, HttpRunsFine, OtherRunsFine DEF Playbooks
  <2> QED BY <2>1, <2>2, <2>3, <2>4
<1>7. \A s \in DOMAIN Scenarios : Good(<<Scenarios[s]>>)
  <2>1. ASSUME NEW s \in DOMAIN Scenarios
        PROVE  \E run, E : FineRun(run) /\ Scenarios[s] = Step(run, E)
    BY <1>5, HttpRunsFine, OtherRunsFine, WholeChainFine DEF Scenarios
  <2> QED BY <1>1, <2>1
<1>8. Good(StepsOf(e))
  <2>1. CASE e \in DOMAIN Playbooks
    <3>1. DOMAIN Playbooks = {"apt28", "fin7", "ransomware", "scriptKiddie"}
      BY DEF Playbooks
    <3> QED BY <1>6, <2>1, <3>1 DEF StepsOf
  <2>2. CASE e \notin DOMAIN Playbooks
    BY <1>7, <2>2 DEF StepsOf, Entries
  <2> QED BY <2>1, <2>2
<1>9. \A i \in DOMAIN StepsOf(e) : StepsOf(e)[i] \in AllSteps
  BY DEF AllSteps, Range
<1> QED BY <1>8, <1>9 DEF Good

(* A session that does not look like guessing.                             *)
Unguessed(r) ==
  /\ DOMAIN r = {"service", "start", "events", "state", "found"}
  /\ IsFiniteSet(GuessEvents(r)) /\ Cardinality(GuessEvents(r)) <= GuessThreshold
  /\ "T1110.001" \notin r.found.ttps

Unhidden ==
  /\ attempts \in Nat
  /\ steps \in Seq(AllSteps) /\ dials \in Seq(AllDials)
  /\ sessions \in Seq(Range(sessions))
  /\ \A i \in DOMAIN sessions : Unguessed(sessions[i])

(* As long as no check of the attempt counter failed.                      *)
CheckLost == "lost check" \in hindered
RunInv == ~CheckLost => Unhidden

LEMMA CatalogueFine ==
  /\ \A e \in Entries : StepsOf(e) \in Seq(AllSteps) /\ StepsOf(e) # <<>>
  /\ \A s \in AllSteps : s.run \in Seq(AllDials)
  /\ \A d \in AllDials : Fine(d)
<1>1. ASSUME NEW e \in Entries PROVE StepsOf(e) \in Seq(AllSteps) /\ StepsOf(e) # <<>>
  <2>1. PICK n \in Nat \ {0} : DOMAIN StepsOf(e) = 1..n /\ StepsOf(e) \in [1..n -> AllSteps]
    BY StepsFine
  <2> DEFINE plan == StepsOf(e)
  <2> HIDE DEF plan
  <2>2. plan \in Seq(AllSteps) /\ 1 \in DOMAIN plan
    BY <2>1 DEF plan
  <2>3. plan # <<>>
    BY <2>2
  <2> QED BY <2>2, <2>3 DEF plan
<1>2. ASSUME NEW s \in AllSteps PROVE FineRun(s.run)
  <2>1. PICK e \in Entries : s \in Range(StepsOf(e))
    BY DEF AllSteps
  <2>2. PICK i \in DOMAIN StepsOf(e) : s = StepsOf(e)[i]
    BY <2>1 DEF Range
  <2> QED BY <2>2, StepsFine
<1>3. ASSUME NEW s \in AllSteps PROVE s.run \in Seq(AllDials)
  <2>1. Range(s.run) \subseteq AllDials
    BY DEF AllDials
  <2>2. s.run \in Seq(Range(s.run))
    BY <1>2 DEF FineRun
  <2> QED BY <2>1, <2>2
<1>4. \A d \in AllDials : Fine(d)
  BY <1>2 DEF AllDials, FineRun
<1> QED BY <1>1, <1>3, <1>4

LEMMA RunStart == Init => RunInv
<1> SUFFICES ASSUME Init PROVE RunInv
  OBVIOUS
<1>1. attempts = 0 /\ steps = <<>> /\ dials = <<>> /\ sessions = <<>>
  BY DEF Init, CampaignsInit
<1>2. /\ steps \in Seq(AllSteps) /\ dials \in Seq(AllDials)
      /\ sessions \in Seq(Range(sessions)) /\ DOMAIN sessions = {}
  BY <1>1
<1> QED BY <1>1, <1>2 DEF RunInv, Unhidden

(* As long as no check fails, a password is granted in time.               *)
LEMMA FewPasswords ==
  ASSUME AllowAfter <= GuessThreshold, attempts \in Nat, NEW talk, talk.passwords \in Nat
  PROVE  Guesses(talk, 0, 0) \in 0..GuessThreshold
<1> DEFINE n == Needed(attempts + 0)
           m == talk.passwords
<1>1. n \in 0..GuessThreshold
  BY CampaignAssumption DEF Needed, GuessThreshold
<1>2. m \in Nat
  OBVIOUS
<1>3. Guesses(talk, 0, 0) = IF 0 + n <= m THEN 0 + n ELSE m
  BY DEF Guesses, Granted
<1> HIDE DEF n, m
<1> QED BY <1>1, <1>2, <1>3 DEF GuessThreshold

LEMMA FewAttempts ==
  ASSUME NEW talk, Guesses(talk, 0, 0) \in 0..GuessThreshold,
         NEW r, r.service = "ssh", r.events = SshEvents(talk, 0, 0)
  PROVE  IsFiniteSet(GuessEvents(r)) /\ Cardinality(GuessEvents(r)) <= GuessThreshold
<1> DEFINE n == Guesses(talk, 0, 0)
           granted == Granted(talk, 0, 0)
           banner == [type |-> "SSH_BANNER_GRAB", version |-> {}]
           try == [i \in 1..n |->
                     [type |-> "SSH_AUTH_ATTEMPT", auth_type |-> "password", user |-> "root",
                      common |-> i <= 4, ts |-> 0, success |-> granted /\ i = n]]
           rest == IF granted /\ talk.keepShell THEN Shell ELSE <<>>
           S == {banner} \cup Range(try) \cup Range(Shell)
<1>1. r.events = <<banner>> \o try \o rest
  BY DEF SshEvents
<1>2. n \in Nat /\ n \in 0..GuessThreshold
  BY DEF GuessThreshold
<1>3. Shell \in Seq(Range(Shell)) /\ \A i \in DOMAIN Shell : Shell[i].type = "SSH_COMMAND"
  <2>1. ASSUME NEW a, NEW b, NEW c,
               a.type = "SSH_COMMAND", b.type = "SSH_COMMAND", c.type = "SSH_COMMAND"
        PROVE  /\ <<a, b, c>> \in Seq(Range(<<a, b, c>>))
               /\ \A i \in DOMAIN <<a, b, c>> : <<a, b, c>>[i].type = "SSH_COMMAND"
    <3>1. <<a, b, c>> \in Seq({a, b, c})
      OBVIOUS
    <3>2. \A i \in DOMAIN <<a, b, c>> : <<a, b, c>>[i].type = "SSH_COMMAND"
      BY <2>1
    <3> QED BY <3>1, <3>2, OwnRange
  <2>2. \A raw : Command(raw).type = "SSH_COMMAND"
    BY DEF Command
  <2> QED BY <2>1, <2>2 DEF Shell
<1> HIDE DEF n, granted
<1>4. try \in Seq(Range(try)) /\ Len(try) = n /\ DOMAIN try = 1..n
  <2>1. DOMAIN try = 1..n /\ try = [i \in 1..n |-> try[i]]
    OBVIOUS
  <2> HIDE DEF try
  <2>2. Range(try) = {try[i] : i \in 1..n}
    BY <2>1 DEF Range
  <2>3. try \in [1..n -> Range(try)]
    BY <2>1, <2>2
  <2> QED BY <1>2, <2>1, <2>3
<1>5. banner.type = "SSH_BANNER_GRAB"
  OBVIOUS
<1> HIDE DEF banner, try
<1>6. <<banner>> \in Seq(S) /\ try \in Seq(S) /\ rest \in Seq(S)
  <2>1. Shell \in Seq(S) /\ <<>> \in Seq(S)
    BY <1>3
  <2>2. <<banner>> \in Seq(S) /\ try \in Seq(S)
    BY <1>4
  <2> QED BY <2>1, <2>2
<1>7. \A i \in DOMAIN rest : rest[i].type = "SSH_COMMAND"
  BY <1>3
<1> HIDE DEF rest, S
<1> DEFINE head == <<banner>> \o try
           m == Len(rest)
<1>8. /\ head \in Seq(S) /\ Len(head) = n + 1 /\ DOMAIN head = 1..(n + 1)
      /\ head[1] = banner
  <2>1. Len(<<banner>>) = 1 /\ <<banner>>[1] = banner
    OBVIOUS
  <2>2. /\ head \in Seq(S) /\ Len(head) = 1 + n
        /\ \A i \in 1..(1 + n) : head[i] = IF i <= 1 THEN <<banner>>[i] ELSE try[i - 1]
    BY <1>4, <1>6, <2>1, ConcatProperties
  <2> HIDE DEF head
  <2> QED BY <1>2, <2>1, <2>2
<1> HIDE DEF head
<1>9. /\ m \in Nat /\ DOMAIN rest = 1..m
      /\ DOMAIN r.events = 1..(n + 1 + m)
      /\ \A i \in 1..(n + 1 + m) : r.events[i] = IF i <= n + 1 THEN head[i] ELSE rest[i - (n + 1)]
  <2>1. r.events = head \o rest
    BY <1>1 DEF head
  <2>2. m \in Nat /\ DOMAIN rest = 1..m
    BY <1>6
  <2>3. /\ head \o rest \in Seq(S) /\ Len(head \o rest) = Len(head) + Len(rest)
        /\ \A i \in 1..(Len(head) + Len(rest)) :
             (head \o rest)[i] = IF i <= Len(head) THEN head[i] ELSE rest[i - Len(head)]
    BY <1>6, <1>8, ConcatProperties
  <2>4. Len(head) = n + 1 /\ Len(rest) = m
    BY <1>8
  <2>5. DOMAIN (head \o rest) = 1..(n + 1 + m)
    BY <2>3, <2>4
  <2> QED BY <2>1, <2>2, <2>3, <2>4, <2>5
<1>10. GuessEvents(r) \subseteq 2..(n + 1)
  <2>1. ASSUME NEW i \in DOMAIN r.events, r.events[i].type = "SSH_AUTH_ATTEMPT"
        PROVE  i \in 2..(n + 1)
    <3>1. i \in 1..(n + 1 + m)
      BY <1>9, <2>1
    <3>2. i # 1
      <4>1. CASE i = 1
        <5>1. r.events[1] = head[1]
          BY <1>2, <1>9, <3>1, <4>1
        <5> QED BY <1>5, <1>8, <2>1, <4>1, <5>1
      <4> QED BY <4>1
    <3>3. ~(i > n + 1)
      <4>1. CASE i > n + 1
        <5> DEFINE k == i - (n + 1)
        <5>1. k \in 1..m
          BY <1>2, <1>9, <3>1, <4>1
        <5>2. r.events[i] = rest[k]
          BY <1>2, <1>9, <3>1, <4>1
        <5> HIDE DEF k
        <5> QED BY <1>7, <1>9, <2>1, <5>1, <5>2
      <4> QED BY <4>1
    <3> QED BY <1>2, <1>9, <3>1, <3>2, <3>3
  <2>2. \A i \in GuessEvents(r) : i \in DOMAIN r.events /\ r.events[i].type = "SSH_AUTH_ATTEMPT"
    BY DEF GuessEvents
  <2> QED BY <2>1, <2>2
<1>11. IsFiniteSet(2..(n + 1)) /\ Cardinality(2..(n + 1)) = n
  <2> DEFINE k == n + 1
  <2>1. k \in Int /\ 2 \in Int /\ k >= 1 /\ n \in Nat
    BY <1>2
  <2> HIDE DEF k
  <2>2. IsFiniteSet(2..k) /\ Cardinality(2..k) = IF 2 > k THEN 0 ELSE k - 2 + 1
    BY <2>1, FS_Interval
  <2>3. Cardinality(2..k) = n
    BY <2>1, <2>2 DEF k
  <2> QED BY <2>2, <2>3 DEF k
<1>12. /\ IsFiniteSet(GuessEvents(r)) /\ Cardinality(GuessEvents(r)) <= n
       /\ Cardinality(GuessEvents(r)) \in Nat
  BY <1>10, <1>11, FS_Subset, FS_CardinalityType
<1> QED BY <1>2, <1>12 DEF GuessThreshold

LEMMA FewMessages ==
  ASSUME NEW r, NEW n \in 0..GuessThreshold, DOMAIN r.events = 1..n
  PROVE  IsFiniteSet(GuessEvents(r)) /\ Cardinality(GuessEvents(r)) <= GuessThreshold
<1>1. GuessEvents(r) \subseteq 1..n
  BY DEF GuessEvents
<1>2. n \in Nat /\ IsFiniteSet(1..n) /\ Cardinality(1..n) = n
  <2>1. n \in Nat
    BY DEF GuessThreshold
  <2>2. IsFiniteSet(1..n) /\ Cardinality(1..n) = IF 1 > n THEN 0 ELSE n - 1 + 1
    BY <2>1, FS_Interval
  <2> QED BY <2>1, <2>2
<1>3. /\ IsFiniteSet(GuessEvents(r)) /\ Cardinality(GuessEvents(r)) <= n
      /\ Cardinality(GuessEvents(r)) \in Nat
  BY <1>1, <1>2, FS_Subset, FS_CardinalityType
<1> QED BY <1>2, <1>3 DEF GuessThreshold

LEMMA NewSession ==
  ASSUME Unhidden, NEW service, NEW evs, NEW state,
         LET r == Row(service, evs, state)
         IN IsFiniteSet(GuessEvents(r)) /\ Cardinality(GuessEvents(r)) <= GuessThreshold,
         sessions' = Append(sessions, Row(service, evs, state))
  PROVE  /\ sessions' \in Seq(Range(sessions'))
         /\ \A i \in DOMAIN sessions' : Unguessed(sessions'[i])
<1> DEFINE r == Row(service, evs, state)
           S == Range(sessions) \cup {r}
           n == Len(sessions)
<1>1. Unguessed(r)
  <2>1. r = [service |-> service, start |-> now, events |-> evs, state |-> state,
             found |-> [ttps |-> {}, score |-> -1]]
    BY DEF Row, NotYet
  <2>2. DOMAIN r = {"service", "start", "events", "state", "found"} /\ r.found.ttps = {}
    BY <2>1
  <2> QED BY <2>2 DEF Unguessed
<1> HIDE DEF r
<1>2. sessions \in Seq(S) /\ r \in S /\ n \in Nat /\ DOMAIN sessions = 1..n
  BY DEF Unhidden
<1>3. /\ sessions' \in Seq(S) /\ DOMAIN sessions' = 1..(n + 1) /\ sessions'[n + 1] = r
      /\ \A i \in 1..n : sessions'[i] = sessions[i]
  BY <1>2, AppendProperties DEF r
<1>4. \A i \in 1..(n + 1) : i \in 1..n \/ i = n + 1
  BY <1>2
<1>5. \A i \in DOMAIN sessions' : Unguessed(sessions'[i])
  BY <1>1, <1>2, <1>3, <1>4 DEF Unhidden
<1> QED BY <1>3, <1>5, OwnRange

LEMMA SessionMoves ==
  ASSUME Unhidden, NEW s \in DOMAIN sessions, NEW r, Unguessed(r),
         sessions' = [sessions EXCEPT ![s] = r]
  PROVE  /\ sessions' \in Seq(Range(sessions'))
         /\ \A i \in DOMAIN sessions' : Unguessed(sessions'[i])
<1> DEFINE S == Range(sessions) \cup {r}
<1>1. sessions \in Seq(S) /\ r \in S
  BY DEF Unhidden
<1>2. sessions' \in Seq(S)
  BY <1>1, ExceptSeq
<1>3. /\ DOMAIN sessions' = DOMAIN sessions /\ sessions'[s] = r
      /\ \A i \in DOMAIN sessions : i # s => sessions'[i] = sessions[i]
  OBVIOUS
<1>4. \A i \in DOMAIN sessions' : Unguessed(sessions'[i])
  BY <1>3 DEF Unhidden
<1> QED BY <1>2, <1>4, OwnRange

(* A row whose connection is closed, or that has been enriched.            *)
LEMMA RowMoves ==
  ASSUME NEW r, Unguessed(r), NEW state, NEW found, "T1110.001" \notin found.ttps
  PROVE  /\ Unguessed([r EXCEPT !.state = state])
         /\ Unguessed([r EXCEPT !.state = state, !.found = found])
<1> DEFINE t == [r EXCEPT !.state = state]
           u == [r EXCEPT !.state = state, !.found = found]
<1>1. DOMAIN r = {"service", "start", "events", "state", "found"}
  BY DEF Unguessed
<1>2. /\ DOMAIN t = DOMAIN r /\ t.service = r.service /\ t.events = r.events
      /\ t.found = r.found
  BY <1>1
<1>3. /\ DOMAIN u = DOMAIN r /\ u.service = r.service /\ u.events = r.events
      /\ u.found = found
  BY <1>1
<1> HIDE DEF t, u
<1>4. GuessEvents(t) = GuessEvents(r) /\ GuessEvents(u) = GuessEvents(r)
  BY <1>2, <1>3 DEF GuessEvents
<1>5. Unguessed(t) /\ Unguessed(u)
  BY <1>1, <1>2, <1>3, <1>4 DEF Unguessed
<1> QED BY <1>5 DEF t, u

LEMMA ConnectUnguessed ==
  ASSUME AllowAfter <= GuessThreshold, Unhidden, Connect, ~CheckLost'
  PROVE  Unhidden'
<1> DEFINE dial == Head(dials)
<1>1. dial \in AllDials /\ dials' \in Seq(AllDials) /\ UNCHANGED steps
  BY HeadTailProperties DEF Unhidden, Connect
<1>2. Fine(dial)
  BY <1>1, CatalogueFine
<1>3. CASE dial.service = "ssh"
  <2>0. PICK lost \in LostChecks : \E counted \in {0, lost} :
          /\ sessions' = Append(sessions, Row("ssh", SshEvents(dial.talk, lost, counted), "open"))
          /\ attempts' = attempts + counted + Guesses(dial.talk, lost, counted) - lost
          /\ hindered' = hindered \cup (IF lost > 0 THEN {"lost check"} ELSE {})
    BY <1>3 DEF Connect
  <2>1. PICK counted \in {0, lost} :
          /\ sessions' = Append(sessions, Row("ssh", SshEvents(dial.talk, lost, counted), "open"))
          /\ attempts' = attempts + counted + Guesses(dial.talk, lost, counted) - lost
          /\ hindered' = hindered \cup (IF lost > 0 THEN {"lost check"} ELSE {})
    BY <2>0
  <2>2. lost = 0 /\ counted = 0
    <3>1. ~(lost > 0)
      BY <2>1 DEF CheckLost
    <3>2. lost \in Nat
      BY CampaignAssumption
    <3> QED BY <3>1, <3>2
  <2> DEFINE talk == dial.talk
             r == Row("ssh", SshEvents(talk, 0, 0), "open")
  <2>3. talk.passwords \in Nat
    BY <1>2, <1>3 DEF Fine
  <2>4. Guesses(talk, 0, 0) \in 0..GuessThreshold /\ attempts \in Nat
    BY <2>3, FewPasswords DEF Unhidden
  <2>5. attempts' \in Nat
    <3> DEFINE n == Guesses(talk, 0, 0)
    <3>1. n \in Nat /\ attempts \in Nat
      BY <2>4 DEF GuessThreshold
    <3>2. attempts' = attempts + 0 + n - 0
      BY <2>1, <2>2
    <3> HIDE DEF n
    <3> QED BY <3>1, <3>2
  <2>6. r.service = "ssh" /\ r.events = SshEvents(talk, 0, 0)
    BY DEF Row
  <2>7. sessions' = Append(sessions, r)
    BY <2>1, <2>2
  <2> HIDE DEF talk
  <2>8. IsFiniteSet(GuessEvents(r)) /\ Cardinality(GuessEvents(r)) <= GuessThreshold
    BY <2>4, <2>6, FewAttempts
  <2>9. /\ sessions' \in Seq(Range(sessions'))
        /\ \A i \in DOMAIN sessions' : Unguessed(sessions'[i])
    BY <2>7, <2>8, NewSession
  <2> QED BY <1>1, <2>5, <2>9 DEF Unhidden
<1>4. CASE dial.service # "ssh"
  <2>1. PICK state :
          /\ sessions' = Append(sessions, Row(dial.service, dial.talk, state))
          /\ UNCHANGED attempts
    BY <1>4 DEF Connect
  <2> DEFINE r == Row(dial.service, dial.talk, state)
  <2>2. PICK n \in 0..GuessThreshold : DOMAIN dial.talk = 1..n
    BY <1>2, <1>4 DEF Fine
  <2>3. r.events = dial.talk
    BY DEF Row
  <2>4. IsFiniteSet(GuessEvents(r)) /\ Cardinality(GuessEvents(r)) <= GuessThreshold
    BY <2>2, <2>3, FewMessages
  <2>5. /\ sessions' \in Seq(Range(sessions'))
        /\ \A i \in DOMAIN sessions' : Unguessed(sessions'[i])
    BY <2>1, <2>4, NewSession
  <2> QED BY <1>1, <2>1, <2>5 DEF Unhidden
<1> QED BY <1>3, <1>4

LEMMA EnrichUnguessed ==
  ASSUME Unhidden, EnrichSession
  PROVE  Unhidden'
<1> DEFINE s == Head(closings)
<1>1. UNCHANGED <<attempts, steps, dials>>
  BY DEF EnrichSession
<1>2. PICK siblings \in SiblingChoices(s) :
        LET ctx == Context(s, siblings)
            ttps == TTPMatches(ctx)
        IN sessions' = [sessions EXCEPT
             ![s].state = "enriched",
             ![s].found = [ttps |-> {m.id : m \in ttps},
                           score |-> ScoreSession(0, ToolMatches(ctx), ttps)]]
  BY DEF EnrichSession
<1> DEFINE ctx == Context(s, siblings)
           found == [ttps |-> {m.id : m \in TTPMatches(ctx)},
                     score |-> ScoreSession(0, ToolMatches(ctx), TTPMatches(ctx))]
           r == sessions[s]
           t == [r EXCEPT !.state = "enriched", !.found = found]
<1>3. CASE s \in DOMAIN sessions
  <2>1. ctx.service = r.service /\ ctx.events = r.events
    BY DEF Context
  <2>2. Unguessed(r)
    BY <1>3 DEF Unhidden
  <2>3. found.ttps = {m.id : m \in TTPMatches(ctx)}
    OBVIOUS
  <2>4. sessions' = [sessions EXCEPT ![s] = t]
    BY <1>2
  <2> HIDE DEF ctx, found, r
  <2>5. GuessEvents(ctx) = GuessEvents(r)
    BY <2>1 DEF GuessEvents
  <2>6. "T1110.001" \notin found.ttps
    BY <2>2, <2>3, <2>5, FewGuesses DEF Unguessed
  <2>7. Unguessed(t)
    BY <2>2, <2>6, RowMoves
  <2> QED BY <1>1, <1>3, <2>4, <2>7, SessionMoves DEF Unhidden
<1>4. CASE s \notin DOMAIN sessions
  <2>1. UNCHANGED sessions
    BY <1>2, <1>4 DEF Unhidden
  <2> QED BY <1>1, <2>1 DEF Unhidden
<1> QED BY <1>3, <1>4

(* If the attempt counter lets an attacker in before the rule's threshold  *)
(* is passed, no run of the catalogue is ever attributed to guessing,      *)
(* unless a check of the counter failed: of the two numbers one is an      *)
(* environment variable and the other a constant of the rules.             *)
THEOREM GuessedCorrect ==
  ASSUME AllowAfter <= GuessThreshold
  PROVE  Spec => []GuessedIfUngranted
<1>1. RunInv => GuessedIfUngranted
  BY DEF RunInv, Unhidden, GuessedIfUngranted, Unguessed, CheckLost
<1>2. RunInv /\ [Next]_platformVars => RunInv'
  <2> SUFFICES ASSUME RunInv, [Next]_platformVars, ~CheckLost'
               PROVE  Unhidden'
    BY DEF RunInv
  <2>1. CampaignsNext \/ UNCHANGED campaignVars
    BY OnlyOneSensorMoves DEF Next, ApiStep, SensorStep, AttackRun, SshHoneypot,
       OtherHoneypots, Reputation, platformVars, sensorVars
  <2>2. ~CheckLost
    BY <2>1 DEF CampaignsNext, Launch, Connect, Refused, Unreached, RunnerRaises, StepDone, Finish,
       ListenerEnds, EnrichSession, DefenderBlocks, BlockEnds, CounterExpires, campaignVars,
       CheckLost
  <2>3. Unhidden
    BY <2>2 DEF RunInv
  <2>4. ASSUME UNCHANGED <<attempts, steps, dials, sessions>> PROVE Unhidden'
    BY <2>3, <2>4 DEF Unhidden
  <2>5. ASSUME NEW e \in Scheduled, NEW d, Launch(e, d) PROVE Unhidden'
    <3>1. e \in Entries
      BY ScheduledAssumption
    <3>2. /\ steps' = Tail(StepsOf(e)) /\ dials' = StepsOf(e)[1].run
          /\ UNCHANGED <<attempts, sessions>>
      BY <2>5 DEF Launch
    <3>3. StepsOf(e) \in Seq(AllSteps) /\ StepsOf(e) # <<>>
      BY <3>1, CatalogueFine
    <3>4. steps' \in Seq(AllSteps) /\ StepsOf(e)[1] \in AllSteps
      <4> DEFINE plan == StepsOf(e)
      <4> HIDE DEF plan
      <4>1. plan \in Seq(AllSteps) /\ plan # <<>>
        BY <3>3 DEF plan
      <4>2. Tail(plan) \in Seq(AllSteps) /\ plan[1] \in AllSteps
        BY <4>1, HeadTailProperties
      <4> QED BY <3>2, <4>2 DEF plan
    <3>5. dials' \in Seq(AllDials)
      BY <3>2, <3>4, CatalogueFine
    <3> QED BY <2>3, <3>2, <3>4, <3>5 DEF Unhidden
  <2>6. ASSUME Refused PROVE Unhidden'
    BY <2>3, <2>6, HeadTailProperties DEF Refused, Unhidden
  <2>12. ASSUME Unreached PROVE Unhidden'
    BY <2>3, <2>12, HeadTailProperties DEF Unreached, Unhidden
  <2>7. ASSUME RunnerRaises PROVE Unhidden'
    <3>1. /\ dials' = <<>> /\ steps' \in {steps, <<>>} /\ UNCHANGED <<attempts, sessions>>
      BY <2>7 DEF RunnerRaises
    <3>2. \A S : <<>> \in Seq(S)
      OBVIOUS
    <3>3. steps \in Seq(AllSteps)
      BY <2>3 DEF Unhidden
    <3>4. dials' \in Seq(AllDials) /\ steps' \in Seq(AllSteps)
      BY <3>1, <3>2, <3>3
    <3> QED BY <2>3, <3>1, <3>4 DEF Unhidden
  <2>8. ASSUME StepDone PROVE Unhidden'
    <3>1. /\ steps # <<>> /\ dials' = Head(steps).run /\ steps' = Tail(steps)
          /\ UNCHANGED <<attempts, sessions>>
      BY <2>8 DEF StepDone
    <3>2. Head(steps) \in AllSteps /\ steps' \in Seq(AllSteps)
      BY <2>3, <3>1, HeadTailProperties DEF Unhidden
    <3>3. dials' \in Seq(AllDials)
      BY <3>1, <3>2, CatalogueFine
    <3> QED BY <2>3, <3>1, <3>2, <3>3 DEF Unhidden
  <2>9. ASSUME NEW s \in DOMAIN sessions, ListenerEnds(s) PROVE Unhidden'
    <3> DEFINE r == sessions[s]
               t == [r EXCEPT !.state = "closed"]
    <3>1. sessions' = [sessions EXCEPT ![s] = t] /\ UNCHANGED <<attempts, steps, dials>>
      BY <2>9 DEF ListenerEnds
    <3>2. Unguessed(r)
      BY <2>3 DEF Unhidden
    <3>3. "T1110.001" \notin NotYet.ttps
      BY DEF NotYet
    <3> HIDE DEF r
    <3>4. Unguessed(t)
      BY <3>2, <3>3, RowMoves
    <3> QED BY <2>3, <3>1, <3>4, SessionMoves DEF Unhidden
  <2>10. ASSUME CounterExpires PROVE Unhidden'
    BY <2>3, <2>10 DEF CounterExpires, Unhidden
  <2>11. ASSUME Finish \/ DefenderBlocks \/ BlockEnds \/ UNCHANGED campaignVars
         PROVE  Unhidden'
    BY <2>4, <2>11 DEF Finish, DefenderBlocks, BlockEnds, campaignVars
  <2> QED BY <2>1, <2>3, <2>5, <2>6, <2>7, <2>8, <2>9, <2>10, <2>11, <2>12,
          ConnectUnguessed, EnrichUnguessed DEF CampaignsNext
<1> QED BY <1>1, <1>2, RunStart, PTL DEF Spec
--------------------------------------------------------------------------
(* A run nothing hindered is recognised by what it is expected to be *)

(* What a session is recognised by on its own, whatever else its address   *)
(* did.                                                                    *)
OwnMatches(r) ==
  ExploitPublicApp(r) \cup FileDiscovery(r) \cup VictimHostInfo(r) \cup ValidAccounts(r)
Shows(r, t) == t \in {m.id : m \in OwnMatches(r)}

(* What a connection of the catalogue will be recognised by.               *)
Bears(d, t) ==
  IF d.service = "ssh"
  THEN /\ t \in {"T1078", "T1083", "T1592"}
       /\ d.talk.keepShell /\ AllowAfter <= d.talk.passwords
  ELSE Shows([service |-> d.service, events |-> d.talk], t)

(* The rules look at the service and the events only, and each alone is    *)
(* enough.                                                                 *)
LEMMA OwnIsEnough ==
  ASSUME NEW r
  PROVE  /\ OwnMatches(r) \subseteq TTPMatches(r)
         /\ IpBlockScanning(r) \subseteq TTPMatches(r)
         /\ \A q : q.service = r.service /\ q.events = r.events =>
                     OwnMatches(q) = OwnMatches(r)
<1>1. ASSUME NEW q, q.service = r.service, q.events = r.events
      PROVE  OwnMatches(q) = OwnMatches(r)
  <2>1. \A type : Seen(q, type) = Seen(r, type)
    BY Zenon, <1>1 DEF Seen
  <2>2. ExploitPublicApp(q) = ExploitPublicApp(r)
    BY SMT, <1>1, <2>1 DEF ExploitPublicApp
  <2>3. FileDiscovery(q) = FileDiscovery(r)
    <3> DEFINE Crossing(x) ==
                 x.service = "http" /\ \E e \in Seen(x, "HTTP_REQUEST") : e.path_traversal
               Listing(x) ==
                 x.service = "ssh" /\ \E e \in Seen(x, "SSH_COMMAND") : "discovery" \in e.raw
    <3>1. (Crossing(q) <=> Crossing(r)) /\ (Listing(q) <=> Listing(r))
      BY SMT, <1>1, <2>1
    <3>2. \A x : FileDiscovery(x) = CASE Crossing(x) -> Match("T1083", 75)
                                      [] Listing(x) -> Match("T1083", 70)
                                      [] OTHER -> {}
      BY DEF FileDiscovery
    <3>3. ~(Crossing(r) /\ Listing(r))
      OBVIOUS
    <3> HIDE DEF Crossing, Listing
    <3> QED BY Zenon, <3>1, <3>2, <3>3
  <2>4. VictimHostInfo(q) = VictimHostInfo(r)
    <3> DEFINE Asking(x) ==
                 \/ /\ x.service = "http"
                    /\ \E e \in Seen(x, "HTTP_REQUEST") : Found(HostInfoPaths, e.uri_decoded)
                 \/ x.service = "ssh" /\ \E e \in Seen(x, "SSH_COMMAND") : "host info" \in e.raw
    <3>1. Asking(q) <=> Asking(r)
      <4> DEFINE A == Seen(r, "HTTP_REQUEST")
                 B == Seen(r, "SSH_COMMAND")
      <4>1. Seen(q, "HTTP_REQUEST") = A /\ Seen(q, "SSH_COMMAND") = B
        BY <2>1
      <4> HIDE DEF A, B
      <4>2. Asking(r) <=> \/ r.service = "http" /\ \E e \in A : Found(HostInfoPaths, e.uri_decoded)
                          \/ r.service = "ssh" /\ \E e \in B : "host info" \in e.raw
        BY Zenon DEF A, B
      <4>3. Asking(q) <=> \/ q.service = "http" /\ \E e \in A : Found(HostInfoPaths, e.uri_decoded)
                          \/ q.service = "ssh" /\ \E e \in B : "host info" \in e.raw
        BY Zenon, <4>1
      <4> QED BY Zenon, <1>1, <4>2, <4>3
    <3>2. \A x : VictimHostInfo(x) = IF Asking(x) THEN Match("T1592", 65) ELSE {}
      BY Zenon DEF VictimHostInfo
    <3> HIDE DEF Asking
    <3> QED BY Zenon, <3>1, <3>2
  <2>5. ValidAccounts(q) = ValidAccounts(r)
    BY SMT, <1>1, <2>1 DEF ValidAccounts
  <2> QED BY <2>2, <2>3, <2>4, <2>5 DEF OwnMatches
<1>2. OwnMatches(r) \subseteq TTPMatches(r) /\ IpBlockScanning(r) \subseteq TTPMatches(r)
  BY DEF OwnMatches, TTPMatches
<1> QED BY <1>1, <1>2

LEMMA MatchShows ==
  ASSUME NEW r, NEW id, NEW confidence,
         Match(id, confidence) \in {ExploitPublicApp(r), FileDiscovery(r), VictimHostInfo(r),
                                   ValidAccounts(r)}
  PROVE  Shows(r, id)
<1> DEFINE m == [id |-> id, confidence |-> confidence]
<1>1. m \in Match(id, confidence) /\ m.id = id
  BY DEF Match
<1> HIDE DEF m
<1>2. m \in OwnMatches(r)
  BY <1>1 DEF OwnMatches
<1> QED BY <1>1, <1>2 DEF Shows

LEMMA SeenIs ==
  ASSUME NEW r, NEW i \in DOMAIN r.events, NEW type, r.events[i].type = type
  PROVE  r.events[i] \in Seen(r, type)
BY DEF Seen

(* What a rule finds in a single request.                                  *)
LEMMA RequestShows ==
  ASSUME NEW target, NEW body, NEW agent
  PROVE  LET d == HttpDial(target, body, agent)
             e == HttpRequest(target, body, agent)
         IN /\ e.sqli_pattern \/ e.cve_signature => Bears(d, "T1190")
            /\ e.path_traversal => Bears(d, "T1083")
            /\ Found(HostInfoPaths, e.uri_decoded) => Bears(d, "T1592")
<1> DEFINE d == HttpDial(target, body, agent)
           e == HttpRequest(target, body, agent)
           r == [service |-> "http", events |-> <<e>>]
<1>1. d.service = "http" /\ d.talk = <<e>>
  BY DEF HttpDial, Dial
<1>2. e.type = "HTTP_REQUEST"
  BY DEF HttpRequest
<1> HIDE DEF d, e
<1>3. r.service = "http" /\ r.events = <<e>> /\ 1 \in DOMAIN r.events /\ r.events[1] = e
  OBVIOUS
<1>4. \A t : Bears(d, t) <=> Shows(r, t)
  BY <1>1 DEF Bears
<1> HIDE DEF r
<1>5. e \in Seen(r, "HTTP_REQUEST")
  BY <1>2, <1>3, SeenIs
<1>6. ASSUME e.sqli_pattern \/ e.cve_signature PROVE Shows(r, "T1190")
  <2>1. ExploitPublicApp(r) = Match("T1190", 85)
    BY Zenon, <1>3, <1>5, <1>6 DEF ExploitPublicApp
  <2> QED BY <2>1, MatchShows
<1>7. ASSUME e.path_traversal PROVE Shows(r, "T1083")
  <2>1. FileDiscovery(r) = Match("T1083", 75)
    <3>1. r.service # "ssh"
      BY <1>3
    <3> QED BY Zenon, <1>3, <1>5, <1>7, <3>1 DEF FileDiscovery
  <2> QED BY <2>1, MatchShows
<1>8. ASSUME Found(HostInfoPaths, e.uri_decoded) PROVE Shows(r, "T1592")
  <2>1. VictimHostInfo(r) = Match("T1592", 65)
    BY Zenon, <1>3, <1>5, <1>8 DEF VictimHostInfo
  <2> QED BY <2>1, MatchShows
<1>9. /\ e.sqli_pattern \/ e.cve_signature => Bears(d, "T1190")
      /\ e.path_traversal => Bears(d, "T1083")
      /\ Found(HostInfoPaths, e.uri_decoded) => Bears(d, "T1592")
  BY <1>4, <1>6, <1>7, <1>8
<1> QED BY <1>9 DEF d, e

(* The connections of the catalogue that are told apart on their own.      *)
LEMMA TellingDials ==
  /\ \A agent : Bears(HttpDial({"/.env"}, {}, agent), "T1592")
  /\ \A f \in {"union+select", "or+1=1"} : Bears(HttpDial({f}, {}, "sqlmap"), "T1190")
  /\ Bears(HttpDial({}, {"${jndi:"}, "other"), "T1190")
  /\ \A f \in {"..%2f", "../"} : Bears(HttpDial({f}, {}, "other"), "T1083")
<1>1. /\ Decoded("/.env") = "/.env" /\ Decoded("union+select") = "union select"
      /\ Decoded("or+1=1") = "or 1=1" /\ Decoded("${jndi:") = "${jndi:"
      /\ Decoded("..%2f") = "../" /\ Decoded("../") = "../"
  BY DEF Decoded
<1>2. ASSUME NEW agent PROVE Bears(HttpDial({"/.env"}, {}, agent), "T1592")
  <2> DEFINE e == HttpRequest({"/.env"}, {}, agent)
  <2>1. "/.env" \in e.uri_decoded
    BY <1>1 DEF HttpRequest
  <2>2. Found(HostInfoPaths, e.uri_decoded)
    BY <2>1 DEF Found, HostInfoPaths
  <2> HIDE DEF e
  <2> QED BY <2>2, RequestShows DEF e
<1>3. ASSUME NEW f \in {"union+select", "or+1=1"}
      PROVE  Bears(HttpDial({f}, {}, "sqlmap"), "T1190")
  <2> DEFINE e == HttpRequest({f}, {}, "sqlmap")
  <2>1. Decoded(f) \in SqliPatterns
    BY <1>1 DEF SqliPatterns
  <2>2. e.sqli_pattern = Found(SqliPatterns, {Decoded(g) : g \in {f}} \cup {Decoded(g) : g \in {}})
    BY DEF HttpRequest
  <2>3. e.sqli_pattern
    BY <2>1, <2>2 DEF Found
  <2> HIDE DEF e
  <2> QED BY <2>3, RequestShows DEF e
<1>4. Bears(HttpDial({}, {"${jndi:"}, "other"), "T1190")
  <2> DEFINE e == HttpRequest({}, {"${jndi:"}, "other")
  <2>1. Decoded("${jndi:") \in CvePatterns
    BY <1>1 DEF CvePatterns
  <2>2. e.cve_signature =
          Found(CvePatterns, {Decoded(g) : g \in {}} \cup {Decoded(g) : g \in {"${jndi:"}})
    BY DEF HttpRequest
  <2>3. e.cve_signature
    BY <2>1, <2>2 DEF Found
  <2> HIDE DEF e
  <2> QED BY <2>3, RequestShows DEF e
<1>5. ASSUME NEW f \in {"..%2f", "../"} PROVE Bears(HttpDial({f}, {}, "other"), "T1083")
  <2> DEFINE e == HttpRequest({f}, {}, "other")
  <2>1. Decoded(f) \in TraversalPatterns
    BY <1>1 DEF TraversalPatterns
  <2>2. e.path_traversal = Found(TraversalPatterns, {Decoded(g) : g \in {f}})
    BY DEF HttpRequest
  <2>3. e.path_traversal
    BY <2>1, <2>2 DEF Found
  <2> HIDE DEF e
  <2> QED BY <2>3, RequestShows DEF e
<1> QED BY <1>2, <1>3, <1>4, <1>5

(* What a run of the catalogue will be recognised by, and how many         *)
(* connections it is.                                                      *)
Tells(run, t) == \E d \in Range(run) : Bears(d, t)
LongestRun == 8
LongestPlan == 4
Counts(run) == FineRun(run) /\ Len(run) \in 1..LongestRun

LEMMA FirstTells ==
  ASSUME NEW run, 1 \in DOMAIN run, NEW t, Bears(run[1], t)
  PROVE  Tells(run, t)
BY DEF Tells, Range

LEMMA RunLength ==
  ASSUME NEW run, FineRun(run), NEW n \in Nat, DOMAIN run = 1..n
  PROVE  Len(run) = n
<1> DEFINE S == Range(run)
<1>1. run \in Seq(S)
  BY DEF FineRun
<1> HIDE DEF S
<1> QED BY <1>1

LEMMA JoinedTell ==
  ASSUME NEW p, NEW q, FineRun(p), FineRun(q)
  PROVE  /\ FineRun(p \o q) /\ Len(p \o q) = Len(p) + Len(q)
         /\ \A t : Tells(p, t) \/ Tells(q, t) => Tells(p \o q, t)
<1> DEFINE S == Range(p) \cup Range(q)
           m == Len(p)
           n == Len(q)
           r == p \o q
<1>1. p \in Seq(S) /\ q \in Seq(S)
  <2>1. p \in Seq(Range(p)) /\ q \in Seq(Range(q))
    BY DEF FineRun
  <2> QED BY <2>1
<1> HIDE DEF S
<1>2. /\ m \in Nat /\ n \in Nat /\ DOMAIN p = 1..m /\ DOMAIN q = 1..n
      /\ Len(r) = m + n /\ DOMAIN r = 1..(m + n)
      /\ \A i \in 1..(m + n) : r[i] = IF i <= m THEN p[i] ELSE q[i - m]
  BY <1>1, ConcatProperties
<1> HIDE DEF m, n, r
<1>3. ASSUME NEW i \in 1..m PROVE p[i] \in Range(r)
  <2>1. i \in 1..(m + n) /\ r[i] = p[i]
    BY <1>2
  <2> QED BY <1>2, <2>1 DEF Range
<1>4. ASSUME NEW i \in 1..n PROVE q[i] \in Range(r)
  <2>1. m + i \in 1..(m + n) /\ r[m + i] = q[i]
    BY <1>2
  <2> QED BY <1>2, <2>1 DEF Range
<1>5. Range(p) \subseteq Range(r) /\ Range(q) \subseteq Range(r)
  BY <1>2, <1>3, <1>4 DEF Range
<1>6. \A t : Tells(p, t) \/ Tells(q, t) => Tells(r, t)
  BY <1>5 DEF Tells
<1> QED BY <1>2, <1>6, DialsJoined DEF m, n, r

LEMMA HttpRunsTell ==
  /\ \A agent : /\ Counts(HttpRecon(ReconPaths, agent)) /\ Len(HttpRecon(ReconPaths, agent)) = 3
                /\ Tells(HttpRecon(ReconPaths, agent), "T1592")
  /\ \A agent, path : Counts(HttpRecon(<<path>>, agent))
  /\ \A target : Counts(HttpSqlmap(target)) /\ Len(HttpSqlmap(target)) = 1
  /\ \A f \in {"union+select", "or+1=1"} : Tells(HttpSqlmap({f}), "T1190")
  /\ Counts(HttpLog4shell) /\ Tells(HttpLog4shell, "T1190")
  /\ \A f \in {"..%2f", "../"} : Counts(HttpTraversal(f)) /\ Tells(HttpTraversal(f), "T1083")
<1>1. ASSUME NEW agent
      PROVE  /\ Counts(HttpRecon(ReconPaths, agent)) /\ Len(HttpRecon(ReconPaths, agent)) = 3
             /\ Tells(HttpRecon(ReconPaths, agent), "T1592")
  <2> DEFINE run == HttpRecon(ReconPaths, agent)
  <2>1. DOMAIN ReconPaths = 1..3 /\ ReconPaths[1] = {"/.env"}
    BY DEF ReconPaths
  <2>2. DOMAIN run = 1..3 /\ run[1] = HttpDial({"/.env"}, {}, agent) /\ FineRun(run)
    BY <2>1, HttpRunsFine DEF HttpRecon
  <2> HIDE DEF run
  <2>3. Len(run) = 3
    BY <2>2, RunLength
  <2>4. Tells(run, "T1592")
    <3>1. 1 \in DOMAIN run
      BY <2>2
    <3>2. Bears(run[1], "T1592")
      BY Zenon, <2>2, TellingDials
    <3> QED BY <3>1, <3>2, FirstTells
  <2> QED BY <2>2, <2>3, <2>4 DEF Counts, LongestRun, run
<1>2. ASSUME NEW agent, NEW path PROVE Counts(HttpRecon(<<path>>, agent))
  <2> DEFINE run == HttpRecon(<<path>>, agent)
  <2>1. DOMAIN run = 1..1 /\ FineRun(run)
    BY HttpRunsFine DEF HttpRecon
  <2> HIDE DEF run
  <2>2. Len(run) = 1
    BY <2>1, RunLength
  <2> QED BY <2>1, <2>2 DEF Counts, LongestRun, run
<1>3. ASSUME NEW d, FineRun(<<d>>)
      PROVE  /\ Counts(<<d>>) /\ Len(<<d>>) = 1
             /\ \A t : Bears(d, t) => Tells(<<d>>, t)
  <2>1. Len(<<d>>) = 1 /\ 1 \in DOMAIN <<d>> /\ <<d>>[1] = d
    OBVIOUS
  <2> QED BY <1>3, <2>1, FirstTells DEF Counts, LongestRun
<1>4. \A target : /\ HttpSqlmap(target) = <<HttpDial(target, {}, "sqlmap")>>
                  /\ FineRun(HttpSqlmap(target))
  BY HttpRunsFine DEF HttpSqlmap
<1>5. HttpLog4shell = <<HttpDial({}, {"${jndi:"}, "other")>> /\ FineRun(HttpLog4shell)
  BY HttpRunsFine DEF HttpLog4shell
<1>6. \A f : HttpTraversal(f) = <<HttpDial({f}, {}, "other")>> /\ FineRun(HttpTraversal(f))
  BY HttpRunsFine DEF HttpTraversal
<1>7. ASSUME NEW target PROVE Counts(HttpSqlmap(target)) /\ Len(HttpSqlmap(target)) = 1
  BY <1>3, <1>4
<1>8. ASSUME NEW f \in {"union+select", "or+1=1"} PROVE Tells(HttpSqlmap({f}), "T1190")
  <2>1. Bears(HttpDial({f}, {}, "sqlmap"), "T1190")
    BY TellingDials
  <2> QED BY <1>3, <1>4, <2>1
<1>9. Counts(HttpLog4shell) /\ Tells(HttpLog4shell, "T1190")
  BY <1>3, <1>5, TellingDials
<1>10. ASSUME NEW f \in {"..%2f", "../"}
       PROVE  Counts(HttpTraversal(f)) /\ Tells(HttpTraversal(f), "T1083")
  <2>1. Bears(HttpDial({f}, {}, "other"), "T1083")
    BY TellingDials
  <2> QED BY <1>3, <1>6, <2>1
<1> QED BY <1>1, <1>2, <1>7, <1>8, <1>9, <1>10

(* An attacker who tries as many passwords as are needed gets a shell.     *)
ShellTechniques == {"T1078", "T1083", "T1592"}

LEMMA OtherRunsTell ==
  /\ \A count \in Nat : \A keepShell :
       /\ Counts(SshHydra(count, keepShell)) /\ Len(SshHydra(count, keepShell)) = 1
       /\ keepShell /\ AllowAfter <= count =>
            \A t \in ShellTechniques : Tells(SshHydra(count, keepShell), t)
  /\ \A requested : Counts(RdpScan(requested))
  /\ Counts(TlsFingerprint) /\ Len(TlsFingerprint) = 1
  /\ \A S : \A users \in Seq(S) :
       FineRun(FtpHydra(users)) /\ Len(FtpHydra(users)) = Len(users)
  /\ \A services \in Seq({"ssh", "http", "ftp", "tls"}) :
       FineRun(MultiService(services)) /\ Len(MultiService(services)) = Len(services)
<1>1. ASSUME NEW count \in Nat, NEW keepShell
      PROVE  /\ Counts(SshHydra(count, keepShell)) /\ Len(SshHydra(count, keepShell)) = 1
             /\ keepShell /\ AllowAfter <= count =>
                  \A t \in ShellTechniques : Tells(SshHydra(count, keepShell), t)
  <2> DEFINE d == Dial("ssh", [passwords |-> count, keepShell |-> keepShell])
  <2>1. SshHydra(count, keepShell) = <<d>> /\ FineRun(SshHydra(count, keepShell))
    BY OtherRunsFine DEF SshHydra
  <2>2. d.service = "ssh" /\ d.talk.passwords = count /\ d.talk.keepShell = keepShell
    BY DEF Dial
  <2> HIDE DEF d
  <2>3. Len(<<d>>) = 1 /\ 1 \in DOMAIN <<d>> /\ <<d>>[1] = d
    OBVIOUS
  <2>4. ASSUME keepShell, AllowAfter <= count, NEW t \in ShellTechniques PROVE Bears(d, t)
    BY <2>2, <2>4 DEF Bears, ShellTechniques
  <2> QED BY <2>1, <2>3, <2>4, FirstTells DEF Counts, LongestRun
<1>2. ASSUME NEW requested PROVE Counts(RdpScan(requested))
  <2>1. FineRun(RdpScan(requested)) /\ DOMAIN RdpScan(requested) = 1..1
    BY OtherRunsFine DEF RdpScan
  <2> QED BY <2>1, RunLength DEF Counts, LongestRun
<1>3. Counts(TlsFingerprint) /\ Len(TlsFingerprint) = 1
  <2>1. FineRun(TlsFingerprint) /\ DOMAIN TlsFingerprint = 1..1
    BY OtherRunsFine DEF TlsFingerprint
  <2> QED BY <2>1, RunLength DEF Counts, LongestRun
<1>4. ASSUME NEW S, NEW users \in Seq(S)
      PROVE  FineRun(FtpHydra(users)) /\ Len(FtpHydra(users)) = Len(users)
  <2>1. FineRun(FtpHydra(users)) /\ DOMAIN FtpHydra(users) = DOMAIN users
    BY OtherRunsFine DEF FtpHydra
  <2>2. Len(users) \in Nat /\ DOMAIN users = 1..Len(users)
    OBVIOUS
  <2> QED BY <2>1, <2>2, RunLength
<1>5. ASSUME NEW services \in Seq({"ssh", "http", "ftp", "tls"})
      PROVE  FineRun(MultiService(services)) /\ Len(MultiService(services)) = Len(services)
  <2>1. FineRun(MultiService(services)) /\ DOMAIN MultiService(services) = DOMAIN services
    BY SomeServicesFine DEF MultiService
  <2>2. Len(services) \in Nat /\ DOMAIN services = 1..Len(services)
    OBVIOUS
  <2> QED BY <2>1, <2>2, RunLength
<1> QED BY <1>1, <1>2, <1>3, <1>4, <1>5

LEMMA WholeChainTells ==
  ASSUME AllowAfter <= 10
  PROVE  /\ Counts(FullCompromise)
         /\ \A t \in {"T1190"} \cup ShellTechniques : Tells(FullCompromise, t)
<1> DEFINE users == <<"root", "admin">>
           recon == HttpRecon(ReconPaths, "Nikto")
           ftp == FtpHydra(users)
           two == recon \o Sqlmap
           three == two \o HydraShell
           four == three \o ftp
<1>1. users \in Seq({"root", "admin"}) /\ Len(users) = 2
  OBVIOUS
<1>2. /\ FineRun(recon) /\ Len(recon) = 3
      /\ FineRun(Sqlmap) /\ Len(Sqlmap) = 1 /\ Tells(Sqlmap, "T1190")
  BY HttpRunsTell DEF Sqlmap, Counts
<1>3. FineRun(HydraShell) /\ Len(HydraShell) = 1 /\ \A t \in ShellTechniques : Tells(HydraShell, t)
  BY OtherRunsTell DEF HydraShell, Counts
<1>4. FineRun(ftp) /\ Len(ftp) = 2
  BY <1>1, OtherRunsTell
<1>5. FineRun(TlsFingerprint) /\ Len(TlsFingerprint) = 1
  BY OtherRunsTell DEF Counts
<1>6. FullCompromise = four \o TlsFingerprint
  BY DEF FullCompromise
<1> HIDE DEF users, recon, ftp
<1>7. FineRun(two) /\ Len(two) = 4 /\ Tells(two, "T1190")
  <2>1. /\ FineRun(two) /\ Len(two) = Len(recon) + Len(Sqlmap)
        /\ \A t : Tells(recon, t) \/ Tells(Sqlmap, t) => Tells(two, t)
    BY <1>2, JoinedTell
  <2> QED BY <1>2, <2>1
<1> HIDE DEF two
<1>8. /\ FineRun(three) /\ Len(three) = 5 /\ Tells(three, "T1190")
      /\ \A t \in ShellTechniques : Tells(three, t)
  <2>1. /\ FineRun(three) /\ Len(three) = Len(two) + Len(HydraShell)
        /\ \A t : Tells(two, t) \/ Tells(HydraShell, t) => Tells(three, t)
    BY <1>3, <1>7, JoinedTell
  <2> QED BY <1>3, <1>7, <2>1
<1> HIDE DEF three
<1>9. /\ FineRun(four) /\ Len(four) = 7 /\ Tells(four, "T1190")
      /\ \A t \in ShellTechniques : Tells(four, t)
  <2>1. /\ FineRun(four) /\ Len(four) = Len(three) + Len(ftp)
        /\ \A t : Tells(three, t) \/ Tells(ftp, t) => Tells(four, t)
    BY <1>4, <1>8, JoinedTell
  <2> QED BY <1>4, <1>8, <2>1
<1> HIDE DEF four
<1>10. /\ FineRun(FullCompromise) /\ Len(FullCompromise) = 8 /\ Tells(FullCompromise, "T1190")
       /\ \A t \in ShellTechniques : Tells(FullCompromise, t)
  <2>1. /\ FineRun(FullCompromise) /\ Len(FullCompromise) = Len(four) + Len(TlsFingerprint)
        /\ \A t : Tells(four, t) \/ Tells(TlsFingerprint, t) => Tells(FullCompromise, t)
    BY <1>5, <1>6, <1>9, JoinedTell
  <2> QED BY <1>5, <1>9, <2>1
<1> QED BY <1>10 DEF Counts, LongestRun

(* The two techniques that a whole run may be missed by.                   *)
HardToSee == {"T1110.001", "T1595.001"}
Telling(run, expected) ==
  Counts(run) /\ \A t \in expected \ HardToSee : Tells(run, t)

LEMMA PlansTell ==
  ASSUME AllowAfter <= 10, NEW e \in Entries
  PROVE  /\ Len(StepsOf(e)) \in 1..LongestPlan
         /\ \A i \in DOMAIN StepsOf(e) : Telling(StepsOf(e)[i].run, StepsOf(e)[i].expected)
<1> DEFINE Good(plan) == /\ Len(plan) \in 1..LongestPlan
                         /\ \A i \in DOMAIN plan : Telling(plan[i].run, plan[i].expected)
<1>1. ASSUME NEW a, NEW E, Telling(a, E) PROVE Good(<<Step(a, E)>>)
  <2> DEFINE plan == <<Step(a, E)>>
  <2>1. Len(plan) = 1 /\ DOMAIN plan = 1..1 /\ plan[1].run = a /\ plan[1].expected = E
    BY DEF Step
  <2> HIDE DEF plan
  <2>2. Good(plan)
    BY <1>1, <2>1 DEF LongestPlan
  <2> QED BY <2>2 DEF plan
<1>2. ASSUME NEW a, NEW b, NEW E, NEW F, Telling(a, E), Telling(b, F)
      PROVE  Good(<<Step(a, E), Step(b, F)>>)
  <2> DEFINE plan == <<Step(a, E), Step(b, F)>>
  <2>1. /\ Len(plan) = 2 /\ DOMAIN plan = 1..2
        /\ plan[1].run = a /\ plan[2].run = b /\ plan[1].expected = E /\ plan[2].expected = F
    BY DEF Step
  <2> HIDE DEF plan
  <2>2. Good(plan)
    BY <1>2, <2>1 DEF LongestPlan
  <2> QED BY <2>2 DEF plan
<1>3. ASSUME NEW a, NEW b, NEW c, NEW E, NEW F, NEW G,
             Telling(a, E), Telling(b, F), Telling(c, G)
      PROVE  Good(<<Step(a, E), Step(b, F), Step(c, G)>>)
  <2> DEFINE plan == <<Step(a, E), Step(b, F), Step(c, G)>>
  <2>1. /\ Len(plan) = 3 /\ DOMAIN plan = 1..3
        /\ plan[1].run = a /\ plan[2].run = b /\ plan[3].run = c
        /\ plan[1].expected = E /\ plan[2].expected = F /\ plan[3].expected = G
    BY DEF Step
  <2> HIDE DEF plan
  <2>2. Good(plan)
    BY <1>3, <2>1 DEF LongestPlan
  <2> QED BY <2>2 DEF plan
<1>4. ASSUME NEW a, NEW b, NEW c, NEW d, NEW E, NEW F, NEW G, NEW H,
             Telling(a, E), Telling(b, F), Telling(c, G), Telling(d, H)
      PROVE  Good(<<Step(a, E), Step(b, F), Step(c, G), Step(d, H)>>)
  <2> DEFINE plan == <<Step(a, E), Step(b, F), Step(c, G), Step(d, H)>>
  <2>1. /\ Len(plan) = 4 /\ DOMAIN plan = 1..4
        /\ plan[1].run = a /\ plan[2].run = b /\ plan[3].run = c /\ plan[4].run = d
        /\ plan[1].expected = E /\ plan[2].expected = F
        /\ plan[3].expected = G /\ plan[4].expected = H
    BY DEF Step
  <2> HIDE DEF plan
  <2>2. Good(plan)
    BY <1>4, <2>1 DEF LongestPlan
  <2> QED BY <2>2 DEF plan
<1> HIDE DEF Good
<1>5. /\ Counts(Hydra) /\ Counts(HydraShell) /\ Counts(Sqlmap)
      /\ Tells(Sqlmap, "T1190") /\ \A t \in ShellTechniques : Tells(HydraShell, t)
  BY HttpRunsTell, OtherRunsTell DEF Hydra, HydraShell, Sqlmap
<1>6. Counts(FtpHydra(<<"root", "admin", "oracle">>))
  <2> DEFINE list == <<"root", "admin", "oracle">>
  <2>1. list \in Seq({"root", "admin", "oracle"}) /\ Len(list) = 3
    OBVIOUS
  <2> HIDE DEF list
  <2>2. FineRun(FtpHydra(list)) /\ Len(FtpHydra(list)) = 3
    BY <2>1, OtherRunsTell
  <2> QED BY <2>2 DEF Counts, LongestRun, list
<1>7. Counts(MultiService(<<"ssh", "http", "ftp">>))
  <2> DEFINE list == <<"ssh", "http", "ftp">>
  <2>1. list \in Seq({"ssh", "http", "ftp", "tls"}) /\ Len(list) = 3
    OBVIOUS
  <2> HIDE DEF list
  <2>2. FineRun(MultiService(list)) /\ Len(MultiService(list)) = 3
    BY <2>1, OtherRunsTell
  <2> QED BY <2>2 DEF Counts, LongestRun, list
<1>8. Counts(MultiService(<<"ssh", "http", "ftp", "tls">>))
  <2> DEFINE list == <<"ssh", "http", "ftp", "tls">>
  <2>1. list \in Seq({"ssh", "http", "ftp", "tls"}) /\ Len(list) = 4
    OBVIOUS
  <2> HIDE DEF list
  <2>2. FineRun(MultiService(list)) /\ Len(MultiService(list)) = 4
    BY <2>1, OtherRunsTell
  <2> QED BY <2>2 DEF Counts, LongestRun, list
<1>9. Counts(SshHydra(1, FALSE)) /\ Counts(RdpScan(0)) /\ Counts(TlsFingerprint)
  BY OtherRunsTell
<1>10. ASSUME NEW run, Counts(run), NEW E \in SUBSET HardToSee PROVE Telling(run, E)
  BY <1>10 DEF Telling
<1>11. Good(Playbooks.apt28)
  <2>1. Telling(HttpRecon(ReconPaths, "Nikto"), {"T1592", "T1595.001"})
    BY HttpRunsTell DEF Telling, HardToSee
  <2>2. Telling(Sqlmap, {"T1190"})
    BY <1>5 DEF Telling
  <2>3. Telling(HydraShell, {"T1110.001", "T1078", "T1083", "T1592"})
    BY <1>5 DEF Telling, HardToSee, ShellTechniques
  <2> QED BY <1>3, <2>1, <2>2, <2>3 DEF Playbooks
<1>12. Good(Playbooks.fin7)
  <2>1. Telling(HttpSqlmap({"or+1=1"}), {"T1190"})
    BY HttpRunsTell DEF Telling
  <2>2. Telling(HttpTraversal("..%2f"), {"T1083"})
    BY HttpRunsTell DEF Telling
  <2>3. Telling(FtpHydra(<<"root", "admin", "oracle">>), {"T1110.001"})
    BY <1>6, <1>10 DEF HardToSee
  <2> QED BY <1>3, <2>1, <2>2, <2>3 DEF Playbooks
<1>13. Good(Playbooks.ransomware)
  <2>1. Telling(RdpScan(0), {"T1595.001"}) /\ Telling(Hydra, {"T1110.001"})
    BY <1>5, <1>9, <1>10 DEF HardToSee
  <2>2. Telling(HttpRecon(ReconPaths, "other"), {"T1592"})
    BY HttpRunsTell DEF Telling
  <2>3. Telling(MultiService(<<"ssh", "http", "ftp">>), {"T1595.001"})
    BY <1>7, <1>10 DEF HardToSee
  <2> QED BY <1>4, <2>1, <2>2, <2>3 DEF Playbooks
<1>14. Good(Playbooks.scriptKiddie)
  <2>1. Telling(HttpRecon(<<{"/wp-login.php"}>>, "curl"), {})
    BY HttpRunsTell DEF Telling
  <2>2. Telling(SshHydra(1, FALSE), {})
    BY <1>9 DEF Telling
  <2> QED BY <1>2, <2>1, <2>2 DEF Playbooks
<1>15. ASSUME NEW s \in DOMAIN Scenarios
       PROVE  \E run, E : Telling(run, E) /\ Scenarios[s] = Step(run, E)
  <2>1. /\ Telling(HydraShell, {"T1110.001"})
        /\ Telling(FtpHydra(<<"root", "admin", "oracle">>), {"T1110.001"})
    BY <1>5, <1>6, <1>10 DEF HardToSee
  <2>2. /\ Telling(Sqlmap, {"T1190"}) /\ Telling(HttpLog4shell, {"T1190"})
        /\ Telling(HttpTraversal("../"), {"T1083"})
    BY <1>5, HttpRunsTell DEF Telling
  <2>3. Telling(HttpRecon(ReconPaths, "Nikto"), {"T1592", "T1595.001"})
    BY HttpRunsTell DEF Telling, HardToSee
  <2>4. /\ Telling(RdpScan(0), {"T1595.001"})
        /\ Telling(MultiService(<<"ssh", "http", "ftp", "tls">>), {"T1595.001"})
        /\ Telling(TlsFingerprint, {})
    BY <1>8, <1>9, <1>10 DEF HardToSee
  <2>5. Telling(FullCompromise, {"T1190", "T1110.001", "T1078", "T1083", "T1592"})
    BY WholeChainTells DEF Telling, HardToSee, ShellTechniques
  <2> QED BY <2>1, <2>2, <2>3, <2>4, <2>5 DEF Scenarios
<1>16. Good(StepsOf(e))
  <2>1. CASE e \in DOMAIN Playbooks
    <3>1. DOMAIN Playbooks = {"apt28", "fin7", "ransomware", "scriptKiddie"}
      BY DEF Playbooks
    <3> QED BY <1>11, <1>12, <1>13, <1>14, <2>1, <3>1 DEF StepsOf
  <2>2. CASE e \notin DOMAIN Playbooks
    <3>1. e \in DOMAIN Scenarios
      BY <2>2 DEF Entries
    <3>2. PICK run, E : Telling(run, E) /\ Scenarios[e] = Step(run, E)
      BY <1>15, <3>1
    <3> QED BY <1>1, <2>2, <3>2 DEF StepsOf
  <2> QED BY <2>1, <2>2
<1> QED BY <1>16 DEF Good

(* A connection is recorded as a session that shows what it bears.         *)
LEMMA ShellIs ==
  /\ Shell \in Seq(Range(Shell)) /\ Len(Shell) = 3
  /\ \A i \in 1..3 : Shell[i].type = "SSH_COMMAND"
  /\ "host info" \in Shell[1].raw /\ "discovery" \in Shell[2].raw
<1>1. ASSUME NEW a, NEW b, NEW c
      PROVE  /\ <<a, b, c>> \in Seq(Range(<<a, b, c>>)) /\ Len(<<a, b, c>>) = 3
             /\ <<a, b, c>>[1] = a /\ <<a, b, c>>[2] = b /\ <<a, b, c>>[3] = c
  <2>1. <<a, b, c>> \in Seq({a, b, c})
    OBVIOUS
  <2> QED BY <2>1, OwnRange
<1>2. \A raw : Command(raw).type = "SSH_COMMAND" /\ Command(raw).raw = raw
  BY DEF Command
<1>3. /\ Shell \in Seq(Range(Shell)) /\ Len(Shell) = 3
      /\ Shell[1] = Command({"host info"}) /\ Shell[2] = Command({"discovery", "host info"})
      /\ Shell[3] = Command({})
  BY <1>1 DEF Shell
<1>4. \A i \in 1..3 : i = 1 \/ i = 2 \/ i = 3
  OBVIOUS
<1>5. \A i \in 1..3 : Shell[i].type = "SSH_COMMAND"
  <2>1. /\ Shell[1].type = "SSH_COMMAND" /\ Shell[2].type = "SSH_COMMAND"
        /\ Shell[3].type = "SSH_COMMAND"
    BY Zenon, <1>2, <1>3
  <2> QED BY SMT, <1>4, <2>1
<1>6. Shell[1].raw = {"host info"} /\ Shell[2].raw = {"discovery", "host info"}
  BY Zenon, <1>2, <1>3
<1>7. "host info" \in Shell[1].raw /\ "discovery" \in Shell[2].raw
  BY <1>6
<1> QED BY <1>3, <1>5, <1>7

LEMMA ShellShows ==
  ASSUME attempts \in Nat, NEW talk, talk.passwords \in Nat, talk.keepShell,
         AllowAfter <= talk.passwords,
         NEW r, r.service = "ssh", r.events = SshEvents(talk, 0, 0),
         NEW t \in ShellTechniques
  PROVE  Shows(r, t)
<1> DEFINE n == Guesses(talk, 0, 0)
           granted == Granted(talk, 0, 0)
           banner == [type |-> "SSH_BANNER_GRAB", version |-> {}]
           try == [i \in 1..n |->
                     [type |-> "SSH_AUTH_ATTEMPT", auth_type |-> "password", user |-> "root",
                      common |-> i <= 4, ts |-> 0, success |-> granted /\ i = n]]
           S == {banner} \cup Range(try) \cup Range(Shell)
           head == <<banner>> \o try
<1>1. granted /\ n \in Nat /\ n >= 1
  <2> DEFINE k == Needed(attempts + 0)
             m == talk.passwords
  <2>1. k \in Nat /\ 1 <= k /\ k <= AllowAfter
    BY CampaignAssumption DEF Needed
  <2>2. granted <=> 0 + k <= m
    BY DEF Granted
  <2>3. n = IF granted THEN 0 + k ELSE m
    BY Zenon DEF Guesses
  <2> HIDE DEF n, granted, k, m
  <2>4. AllowAfter <= m /\ AllowAfter \in Nat /\ m \in Nat
    BY CampaignAssumption DEF m
  <2> QED BY <2>1, <2>2, <2>3, <2>4
<1>2. r.events = <<banner>> \o try \o Shell
  BY <1>1 DEF SshEvents
<1> HIDE DEF n, granted
<1>3. /\ try \in Seq(Range(try)) /\ Len(try) = n
      /\ try[n].type = "SSH_AUTH_ATTEMPT" /\ try[n].success
  <2>1. /\ DOMAIN try = 1..n /\ try = [i \in 1..n |-> try[i]]
        /\ try[n].type = "SSH_AUTH_ATTEMPT" /\ try[n].success
    <3>1. n \in 1..n
      BY <1>1
    <3>2. (granted /\ n = n) = TRUE
      BY <1>1
    <3>3. try[n] = [type |-> "SSH_AUTH_ATTEMPT", auth_type |-> "password", user |-> "root",
                    common |-> n <= 4, ts |-> 0, success |-> granted /\ n = n]
      BY Zenon, <3>1
    <3>4. try[n] = [type |-> "SSH_AUTH_ATTEMPT", auth_type |-> "password", user |-> "root",
                    common |-> n <= 4, ts |-> 0, success |-> TRUE]
      BY Zenon, <3>2, <3>3
    <3>5. DOMAIN try = 1..n /\ try = [i \in 1..n |-> try[i]]
      OBVIOUS
    <3> DEFINE low == n <= 4
    <3>6. try[n] = [type |-> "SSH_AUTH_ATTEMPT", auth_type |-> "password", user |-> "root",
                    common |-> low, ts |-> 0, success |-> TRUE]
      BY Zenon, <3>4
    <3> HIDE DEF try, low
    <3>7. try[n].type = "SSH_AUTH_ATTEMPT" /\ try[n].success
      BY SMT, <3>6
    <3> QED BY Zenon, <3>5, <3>7
  <2> HIDE DEF try
  <2>2. Range(try) = {try[i] : i \in 1..n}
    BY <2>1 DEF Range
  <2>3. try \in [1..n -> Range(try)]
    BY <2>1, <2>2
  <2> QED BY <1>1, <2>1, <2>3
<1> HIDE DEF banner, try
<1>4. <<banner>> \in Seq(S) /\ try \in Seq(S) /\ Shell \in Seq(S)
  <2>1. <<banner>> \in Seq({banner})
    OBVIOUS
  <2>2. Shell \in Seq(Range(Shell)) /\ try \in Seq(Range(try))
    BY <1>3, ShellIs
  <2> DEFINE T == Range(Shell)
             U == Range(try)
  <2>3. Shell \in Seq(T) /\ try \in Seq(U) /\ S = {banner} \cup U \cup T
    BY <2>2
  <2> HIDE DEF S, T, U
  <2> QED BY <2>1, <2>3
<1>5. head \in Seq(S) /\ Len(head) = n + 1 /\ head[n + 1] = try[n]
  <2>1. Len(<<banner>>) = 1
    OBVIOUS
  <2>2. /\ head \in Seq(S) /\ Len(head) = 1 + n
        /\ \A i \in 1..(1 + n) : head[i] = IF i <= 1 THEN <<banner>>[i] ELSE try[i - 1]
    BY <1>3, <1>4, <2>1, ConcatProperties
  <2> HIDE DEF head
  <2>3. n + 1 \in 1..(1 + n) /\ ~(n + 1 <= 1) /\ (n + 1) - 1 = n
    BY <1>1
  <2> QED BY <2>2, <2>3
<1> HIDE DEF head, S
<1>6. /\ Len(head \o Shell) = n + 4 /\ DOMAIN (head \o Shell) = 1..(n + 4)
      /\ (head \o Shell)[n + 1] = try[n]
      /\ (head \o Shell)[n + 2] = Shell[1] /\ (head \o Shell)[n + 3] = Shell[2]
  <2> DEFINE all == head \o Shell
  <2>1. /\ all \in Seq(S) /\ Len(all) = (n + 1) + 3
        /\ \A i \in 1..((n + 1) + 3) :
             all[i] = IF i <= n + 1 THEN head[i] ELSE Shell[i - (n + 1)]
    <3>1. /\ all \in Seq(S) /\ Len(all) = Len(head) + Len(Shell)
          /\ \A i \in 1..(Len(head) + Len(Shell)) :
               all[i] = IF i <= Len(head) THEN head[i] ELSE Shell[i - Len(head)]
      BY <1>4, <1>5, ConcatProperties
    <3>2. Len(head) = n + 1 /\ Len(Shell) = 3
      BY <1>5, ShellIs
    <3> HIDE DEF all
    <3> QED BY <3>1, <3>2
  <2> HIDE DEF all
  <2>2. DOMAIN all = 1..(n + 4) /\ Len(all) = n + 4
    BY <1>1, <2>1
  <2>3. all[n + 1] = head[n + 1]
    BY <1>1, <2>1
  <2>4. all[n + 2] = Shell[1] /\ all[n + 3] = Shell[2]
    <3>1. (n + 2) - (n + 1) = 1 /\ (n + 3) - (n + 1) = 2
      BY <1>1
    <3>2. n + 2 \in 1..((n + 1) + 3) /\ n + 3 \in 1..((n + 1) + 3)
          /\ ~(n + 2 <= n + 1) /\ ~(n + 3 <= n + 1)
      BY <1>1
    <3> QED BY <2>1, <3>1, <3>2
  <2> QED BY <1>5, <2>2, <2>3, <2>4 DEF all
<1>7. /\ DOMAIN r.events = 1..(n + 4)
      /\ r.events[n + 1] = try[n] /\ r.events[n + 2] = Shell[1] /\ r.events[n + 3] = Shell[2]
  BY <1>2, <1>6 DEF head
<1>8. n + 1 \in 1..(n + 4) /\ n + 2 \in 1..(n + 4) /\ n + 3 \in 1..(n + 4)
  BY <1>1
<1>9. try[n] \in Seen(r, "SSH_AUTH_ATTEMPT")
  <2>1. r.events[n + 1].type = "SSH_AUTH_ATTEMPT"
    BY <1>3, <1>7
  <2> QED BY <1>7, <1>8, <2>1, SeenIs
<1>10. Shell[1] \in Seen(r, "SSH_COMMAND") /\ Shell[2] \in Seen(r, "SSH_COMMAND")
  <2>1. r.events[n + 2].type = "SSH_COMMAND" /\ r.events[n + 3].type = "SSH_COMMAND"
    <3>1. 1 \in 1..3 /\ 2 \in 1..3
      OBVIOUS
    <3> QED BY Zenon, <1>7, <3>1, ShellIs
  <2> QED BY <1>7, <1>8, <2>1, SeenIs
<1>11. Shows(r, "T1078")
  <2>1. ValidAccounts(r) = Match("T1078", 90)
    BY Zenon, <1>3, <1>9, <1>10 DEF ValidAccounts
  <2> QED BY <2>1, MatchShows
<1>12. Shows(r, "T1083")
  <2>1. r.service # "http"
    OBVIOUS
  <2>2. FileDiscovery(r) = Match("T1083", 70)
    BY Zenon, <1>10, <2>1, ShellIs DEF FileDiscovery
  <2> QED BY <2>2, MatchShows
<1>13. Shows(r, "T1592")
  <2>1. VictimHostInfo(r) = Match("T1592", 65)
    BY Zenon, <1>10, ShellIs DEF VictimHostInfo
  <2> QED BY <2>1, MatchShows
<1> QED BY <1>11, <1>12, <1>13 DEF ShellTechniques

LEMMA SameShows ==
  ASSUME NEW q, NEW r, q.service = r.service, q.events = r.events
  PROVE  \A t : Shows(q, t) <=> Shows(r, t)
BY OwnIsEnough DEF Shows

(* A run of at most LongestPlan steps of at most LongestRun connections    *)
(* never has more sessions than this.                                      *)
MostSessions == 32
Columns == {"service", "start", "events", "state", "found"}

Regular ==
  /\ attempts \in Nat /\ now \in Nat /\ ~blocked
  /\ steps \in Seq(AllSteps) /\ dials \in Seq(AllDials)
  /\ sessions \in Seq(Range(sessions))
  /\ \A s \in DOMAIN sessions : DOMAIN sessions[s] = Columns /\ sessions[s].start \in Nat
  /\ Len(sessions) + Len(dials) + LongestRun * Len(steps) <= MostSessions

(* One connection follows the other within the dwell of a step: of two     *)
(* neighbours in the list of sessions each is in the other's scan window.  *)
LastStart == sessions[Len(sessions)].start
Paced ==
  /\ entry = NoEntry => envelope.status = "none" /\ sessions = <<>>
  /\ envelope.status \in {"none", "running", "done"}
  /\ envelope.status = "running" =>
       /\ \A s \in DOMAIN sessions : sessions[s].start <= now
       /\ sessions # <<>> => now - LastStart <= Dwell
       /\ dials = <<>> => sessions # <<>> /\ LastStart = now
  /\ envelope.status = "done" =>
       /\ steps = <<>> /\ dials = <<>> /\ sessions # <<>>
       /\ \A s \in DOMAIN sessions : sessions[s].start <= envelope.ended
  /\ \A s \in DOMAIN sessions :
       s # 1 => sessions[s].start - sessions[s - 1].start \in 0..Dwell

(* What the run is expected to be recognised by is shown by a session, or  *)
(* will be by a connection that is still to be made.                       *)
Covered ==
  \A t \in Expected \ HardToSee :
    \/ \E s \in DOMAIN sessions : Shows(sessions[s], t)
    \/ Tells(dials, t)
    \/ \E i \in DOMAIN steps : Tells(steps[i].run, t)

(* A session that was enriched is recognised by what it shows, and by      *)
(* scanning if the one before it was of another service.                   *)
AnotherService(s) == s # 1 /\ sessions[s].service # sessions[s - 1].service
Recognised ==
  \A s \in DOMAIN sessions : sessions[s].state = "enriched" =>
    /\ \A t : Shows(sessions[s], t) => t \in sessions[s].found.ttps
    /\ AnotherService(s) => "T1595.001" \in sessions[s].found.ttps

(* If two services were connected to, there are two neighbours of them.    *)
Neighbours ==
  \/ \A s \in DOMAIN sessions : sessions[s].service = sessions[1].service
  \/ \E s \in DOMAIN sessions : AnotherService(s)

Unhindered == hindered = {}
WellRun == Regular /\ Paced /\ Covered /\ Recognised /\ Neighbours
MissInv == Unhindered => WellRun

LEMMA NothingMissedYet == Init => MissInv
<1> SUFFICES ASSUME Init PROVE WellRun
  BY DEF MissInv
<1>1. /\ attempts = 0 /\ now = 0 /\ blocked = FALSE /\ steps = <<>> /\ dials = <<>>
      /\ sessions = <<>> /\ entry = NoEntry /\ envelope.status = "none"
  BY DEF Init, CampaignsInit, NoEnvelope
<1>2. /\ DOMAIN sessions = {} /\ Len(sessions) = 0 /\ Len(dials) = 0 /\ Len(steps) = 0
      /\ steps \in Seq(AllSteps) /\ dials \in Seq(AllDials) /\ sessions \in Seq(Range(sessions))
  BY <1>1
<1>3. Regular
  BY <1>1, <1>2 DEF Regular, MostSessions, LongestRun
<1>4. Paced
  BY <1>1, <1>2 DEF Paced
<1>5. Covered
  BY <1>1 DEF Covered, Expected
<1>6. Recognised /\ Neighbours
  BY <1>2 DEF Recognised, Neighbours
<1> QED BY <1>3, <1>4, <1>5, <1>6 DEF WellRun

(* The rest of the invariant is about what no step but a new session       *)
(* changes of the rows.                                                    *)
LEMMA SameRuns ==
  ASSUME WellRun, sessions' \in Seq(Range(sessions')), DOMAIN sessions' = DOMAIN sessions,
         \A s \in DOMAIN sessions :
           /\ DOMAIN sessions'[s] = Columns
           /\ sessions'[s].service = sessions[s].service
           /\ sessions'[s].start = sessions[s].start
           /\ sessions'[s].events = sessions[s].events,
         Recognised', attempts' \in Nat,
         UNCHANGED <<entry, steps, dials, now, envelope, blocked>>
  PROVE  WellRun'
<1>1. Len(sessions') = Len(sessions) /\ Len(sessions) \in Nat /\ DOMAIN sessions = 1..Len(sessions)
  <2>1. sessions \in Seq(Range(sessions)) /\ sessions' \in Seq(Range(sessions'))
    BY DEF WellRun, Regular
  <2> DEFINE S == Range(sessions)
             T == Range(sessions')
             q == sessions'
             p == sessions
  <2>2. p \in Seq(S) /\ q \in Seq(T) /\ DOMAIN p = DOMAIN q
    BY <2>1
  <2> HIDE DEF S, T, p, q
  <2>3. Len(p) = Len(q) /\ Len(p) \in Nat /\ DOMAIN p = 1..Len(p)
    BY <2>2
  <2> QED BY <2>3 DEF p, q
<1>2. Regular'
  BY <1>1 DEF WellRun, Regular
<1>3. Paced'
  <2>1. (sessions' = <<>>) <=> (sessions = <<>>)
    <3>1. (Len(sessions') = 0 => sessions' = <<>>) /\ (Len(sessions) = 0 => sessions = <<>>)
      BY DEF WellRun, Regular
    <3>2. (sessions = <<>> => Len(sessions) = 0) /\ (sessions' = <<>> => Len(sessions') = 0)
      OBVIOUS
    <3> QED BY <1>1, <3>1, <3>2
  <2>2. sessions # <<>> => Len(sessions) \in DOMAIN sessions
    BY <1>1 DEF WellRun, Regular
  <2>3. sessions # <<>> => LastStart' = LastStart
    BY <1>1, <2>2 DEF LastStart
  <2>4. \A s \in DOMAIN sessions : s # 1 => s - 1 \in DOMAIN sessions
    BY <1>1
  <2> QED BY <2>1, <2>3, <2>4 DEF WellRun, Paced
<1>4. Covered'
  <2>1. ASSUME NEW s \in DOMAIN sessions, NEW t, Shows(sessions[s], t)
        PROVE  Shows(sessions'[s], t)
    BY <2>1, SameShows
  <2>2. Expected' = Expected
    BY DEF Expected
  <2>3. \A t \in Expected \ HardToSee :
          \/ \E s \in DOMAIN sessions : Shows(sessions[s], t)
          \/ Tells(dials, t)
          \/ \E i \in DOMAIN steps : Tells(steps[i].run, t)
    BY DEF WellRun, Covered
  <2> QED BY Zenon, <2>1, <2>2, <2>3 DEF Covered
<1>5. Neighbours'
  <2>1. \A s \in DOMAIN sessions : s # 1 => s - 1 \in DOMAIN sessions
    BY <1>1
  <2>2. \A s \in DOMAIN sessions : AnotherService(s) => AnotherService(s)'
    BY <2>1 DEF AnotherService
  <2>3. \A s \in DOMAIN sessions : 1 \in DOMAIN sessions
    BY <1>1
  <2> QED BY <2>2, <2>3 DEF WellRun, Neighbours
<1> QED BY <1>2, <1>3, <1>4, <1>5 DEF WellRun

LEMMA FiniteImage ==
  ASSUME NEW S, IsFiniteSet(S), NEW f, f = [x \in S |-> f[x]]
  PROVE  IsFiniteSet({f[x] : x \in S})
<1> DEFINE T == {f[x] : x \in S}
<1>1. f \in Surjection(S, T)
  BY DEF Surjection
<1> HIDE DEF T
<1>2. IsFiniteSet(T)
  BY <1>1, FS_Surjection
<1> QED BY <1>2 DEF T

(* Two services among the sessions of an address are scanning.             *)
LEMMA TwoServicesScan ==
  ASSUME NEW ctx, IsFiniteSet(ctx.siblings),
         NEW q \in ctx.siblings, q.service # ctx.service, Apart(q.start, ctx.start) <= ScanWindow
  PROVE  "T1595.001" \in {m.id : m \in TTPMatches(ctx)}
<1> DEFINE near == {t \in ctx.siblings : Apart(t.start, ctx.start) <= ScanWindow}
           others == {t.service : t \in near}
           all == ServicesSeen(ctx)
<1>1. IsFiniteSet(near)
  <2>1. near \subseteq ctx.siblings
    OBVIOUS
  <2> QED BY <2>1, FS_Subset
<1>2. q.service \in others
  OBVIOUS
<1>3. IsFiniteSet(others)
  <2> DEFINE f == [t \in near |-> t.service]
  <2>1. others = {f[t] : t \in near} /\ f = [t \in near |-> f[t]]
    OBVIOUS
  <2> HIDE DEF f, near, others
  <2> QED BY <1>1, <2>1, FiniteImage
<1>4. all = {ctx.service} \cup others
  BY DEF ServicesSeen
<1> HIDE DEF near, others, all
<1>5. IsFiniteSet(all)
  <2>1. IsFiniteSet({ctx.service})
    BY FS_Singleton
  <2> QED BY <1>3, <1>4, <2>1, FS_Union
<1>6. Cardinality(all) >= 2
  <2>1. /\ IsFiniteSet({ctx.service}) /\ Cardinality({ctx.service}) = 1
        /\ q.service \notin {ctx.service}
    BY FS_Singleton
  <2> DEFINE pair == {ctx.service} \cup {q.service}
  <2>2. IsFiniteSet(pair) /\ Cardinality(pair) = 1 + 1
    BY <2>1, FS_AddElement
  <2>3. pair \subseteq all
    BY <1>2, <1>4
  <2> HIDE DEF pair
  <2>4. Cardinality(pair) <= Cardinality(all)
    BY <1>5, <2>3, FS_Subset
  <2>5. Cardinality(all) \in Nat
    BY <1>5, FS_CardinalityType
  <2> QED BY <2>2, <2>4, <2>5
<1>7. IpBlockScanning(ctx) = Match("T1595.001", 95)
  <2>1. Cardinality(all) \in Nat
    BY <1>5, FS_CardinalityType
  <2>2. ~(Cardinality(ServicesSeen(ctx)) < 2)
    BY <1>6, <2>1 DEF all
  <2> QED BY Zenon, <2>2 DEF IpBlockScanning
<1> DEFINE m == [id |-> "T1595.001", confidence |-> 95]
<1>8. m \in IpBlockScanning(ctx) /\ m.id = "T1595.001"
  BY <1>7 DEF Match
<1> HIDE DEF m
<1>9. m \in TTPMatches(ctx)
  BY <1>8, OwnIsEnough
<1> QED BY <1>8, <1>9

LEMMA ListenerEndsWell ==
  ASSUME WellRun, NEW s \in DOMAIN sessions, ListenerEnds(s)
  PROVE  WellRun'
<1> DEFINE t == [sessions[s] EXCEPT !.state = "closed"]
           S == Range(sessions) \cup {t}
<1>1. /\ sessions' = [sessions EXCEPT ![s] = t]
      /\ UNCHANGED <<entry, steps, dials, attempts, now, envelope, blocked>>
  BY DEF ListenerEnds
<1>2. DOMAIN sessions[s] = Columns
  BY DEF WellRun, Regular
<1>3. /\ DOMAIN t = Columns /\ t.service = sessions[s].service /\ t.start = sessions[s].start
      /\ t.events = sessions[s].events /\ t.state = "closed"
  BY <1>2 DEF Columns
<1>4. sessions' \in Seq(Range(sessions'))
  <2>1. sessions \in Seq(S)
    BY DEF WellRun, Regular
  <2>2. sessions' \in Seq(S)
    BY <1>1, <2>1, ExceptSeq
  <2> QED BY <2>2, OwnRange
<1> HIDE DEF t
<1>5. /\ DOMAIN sessions' = DOMAIN sessions /\ sessions'[s] = t
      /\ \A i \in DOMAIN sessions : i # s => sessions'[i] = sessions[i]
  BY <1>1
<1>6. \A i \in DOMAIN sessions :
        /\ DOMAIN sessions'[i] = Columns
        /\ sessions'[i].service = sessions[i].service
        /\ sessions'[i].start = sessions[i].start
        /\ sessions'[i].events = sessions[i].events
  BY <1>3, <1>5 DEF WellRun, Regular
<1>7. \A i \in DOMAIN sessions : i # 1 => i - 1 \in DOMAIN sessions
  BY DEF WellRun, Regular
<1>8. Recognised'
  <2>1. ASSUME NEW i \in DOMAIN sessions, sessions'[i].state = "enriched"
        PROVE  /\ \A u : Shows(sessions'[i], u) => u \in sessions'[i].found.ttps
               /\ AnotherService(i)' => "T1595.001" \in sessions'[i].found.ttps
    <3>1. i # s
      BY <1>3, <1>5, <2>1
    <3>2. sessions'[i] = sessions[i]
      BY <1>5, <3>1
    <3>3. AnotherService(i)' => AnotherService(i)
      BY <1>6, <1>7 DEF AnotherService
    <3> QED BY <2>1, <3>2, <3>3 DEF WellRun, Recognised
  <2> QED BY <1>5, <2>1 DEF Recognised
<1>9. attempts' \in Nat
  BY <1>1 DEF WellRun, Regular
<1> QED BY <1>1, <1>4, <1>5, <1>6, <1>8, <1>9, SameRuns

(* The query for the other sessions of the address returns them all.       *)
LEMMA AllSiblings ==
  ASSUME MostSessions <= SiblingLimit, Dwell <= ScanWindow,
         WellRun, NEW s \in DOMAIN sessions, NEW siblings \in SiblingChoices(s)
  PROVE  /\ IsFiniteSet(siblings)
         /\ s # 1 => /\ s - 1 \in siblings
                     /\ Apart(sessions[s - 1].start, sessions[s].start) <= ScanWindow
<1> DEFINE near == {i \in DOMAIN sessions \ {s} :
                      Apart(sessions[i].start, sessions[s].start) <= ScanWindow}
           n == Len(sessions)
<1>1. n \in Nat /\ DOMAIN sessions = 1..n /\ n <= MostSessions
  BY DEF WellRun, Regular, LongestRun, MostSessions
<1>2. IsFiniteSet(near) /\ Cardinality(near) <= SiblingLimit
  <2>1. near \subseteq 1..n
    BY <1>1
  <2>2. IsFiniteSet(1..n) /\ Cardinality(1..n) = n
    <3>1. IsFiniteSet(1..n) /\ Cardinality(1..n) = IF 1 > n THEN 0 ELSE n - 1 + 1
      BY <1>1, FS_Interval
    <3> QED BY <1>1, <3>1
  <2> HIDE DEF near, n
  <2>3. IsFiniteSet(near) /\ Cardinality(near) <= n
    <3> DEFINE all == 1..n
    <3>1. IsFiniteSet(all) /\ near \subseteq all /\ Cardinality(all) = n
      BY <2>1, <2>2
    <3> HIDE DEF all
    <3>2. IsFiniteSet(near) /\ Cardinality(near) <= Cardinality(all)
      BY <3>1, FS_Subset
    <3> QED BY <3>1, <3>2
  <2>4. Cardinality(near) \in Nat
    BY <2>3, FS_CardinalityType
  <2> QED BY <1>1, <2>3, <2>4, CampaignAssumption DEF MostSessions
<1>3. siblings = near
  <2>1. SiblingChoices(s) = {near}
    BY Zenon, <1>2 DEF SiblingChoices
  <2> QED BY <2>1
<1>4. ASSUME s # 1
      PROVE  s - 1 \in near /\ Apart(sessions[s - 1].start, sessions[s].start) <= ScanWindow
  <2>1. s - 1 \in DOMAIN sessions \ {s}
    BY <1>1, <1>4
  <2>2. /\ sessions[s].start \in Nat /\ sessions[s - 1].start \in Nat
        /\ sessions[s].start - sessions[s - 1].start \in 0..Dwell
    BY <1>4, <2>1 DEF WellRun, Regular, Paced
  <2>3. Apart(sessions[s - 1].start, sessions[s].start) <= ScanWindow
    BY <2>2, CampaignAssumption DEF Apart, ScanWindow
  <2> QED BY <2>1, <2>3
<1> QED BY <1>2, <1>3, <1>4

LEMMA EnrichWell ==
  ASSUME MostSessions <= SiblingLimit, Dwell <= ScanWindow, WellRun, EnrichSession
  PROVE  WellRun'
<1> DEFINE s == Head(closings)
<1>1. UNCHANGED <<entry, steps, dials, attempts, now, envelope, blocked>>
  BY DEF EnrichSession
<1>2. PICK siblings \in SiblingChoices(s) :
        LET ctx == Context(s, siblings)
            ttps == TTPMatches(ctx)
        IN sessions' = [sessions EXCEPT
             ![s].state = "enriched",
             ![s].found = [ttps |-> {m.id : m \in ttps},
                           score |-> ScoreSession(0, ToolMatches(ctx), ttps)]]
  BY DEF EnrichSession
<1> DEFINE ctx == Context(s, siblings)
           found == [ttps |-> {m.id : m \in TTPMatches(ctx)},
                     score |-> ScoreSession(0, ToolMatches(ctx), TTPMatches(ctx))]
           r == sessions[s]
           t == [r EXCEPT !.state = "enriched", !.found = found]
           S == Range(sessions) \cup {t}
<1>3. CASE s \notin DOMAIN sessions
  <2>1. UNCHANGED sessions
    BY <1>2, <1>3 DEF WellRun, Regular
  <2>2. Recognised'
    BY <2>1 DEF WellRun, Recognised, AnotherService
  <2>3. /\ sessions' \in Seq(Range(sessions')) /\ attempts' \in Nat
        /\ \A i \in DOMAIN sessions : DOMAIN sessions'[i] = Columns
    BY <1>1, <2>1 DEF WellRun, Regular
  <2> QED BY <1>1, <2>1, <2>2, <2>3, SameRuns
<1>4. CASE s \in DOMAIN sessions
  <2>1. DOMAIN r = Columns
    BY <1>4 DEF WellRun, Regular
  <2>2. /\ DOMAIN t = Columns /\ t.service = r.service /\ t.start = r.start
        /\ t.events = r.events /\ t.found = found
    BY <2>1 DEF Columns
  <2>3. sessions' = [sessions EXCEPT ![s] = t]
    BY <1>2
  <2>4. found.ttps = {m.id : m \in TTPMatches(ctx)}
    OBVIOUS
  <2> HIDE DEF found, t
  <2>5. sessions' \in Seq(Range(sessions'))
    <3>1. sessions \in Seq(S) /\ t \in S
      BY DEF WellRun, Regular
    <3> HIDE DEF S, s
    <3>2. sessions' \in Seq(S)
      BY <1>4, <2>3, <3>1, ExceptSeq
    <3> QED BY <3>2, OwnRange
  <2>6. /\ DOMAIN sessions' = DOMAIN sessions /\ sessions'[s] = t
        /\ \A i \in DOMAIN sessions : i # s => sessions'[i] = sessions[i]
    BY <1>4, <2>3
  <2> HIDE DEF s
  <2>7. \A i \in DOMAIN sessions :
          /\ DOMAIN sessions'[i] = Columns
          /\ sessions'[i].service = sessions[i].service
          /\ sessions'[i].start = sessions[i].start
          /\ sessions'[i].events = sessions[i].events
    BY <2>2, <2>6 DEF WellRun, Regular
  <2>8. \A i \in DOMAIN sessions : i # 1 => i - 1 \in DOMAIN sessions
    BY DEF WellRun, Regular
  <2>9. \A i \in DOMAIN sessions : AnotherService(i)' => AnotherService(i)
    BY <2>7, <2>8 DEF AnotherService
  <2>10. /\ ctx.service = r.service /\ ctx.start = r.start /\ ctx.events = r.events
         /\ ctx.siblings = {[service |-> sessions[i].service, start |-> sessions[i].start] :
                             i \in siblings}
    BY DEF Context
  <2> HIDE DEF ctx
  <2>11. ASSUME NEW u, Shows(sessions'[s], u) PROVE u \in found.ttps
    <3>1. Shows(ctx, u)
      BY <2>2, <2>6, <2>10, <2>11, SameShows
    <3> QED BY <2>4, <3>1, OwnIsEnough DEF Shows
  <2>12. ASSUME AnotherService(s) PROVE "T1595.001" \in found.ttps
    <3>1. /\ IsFiniteSet(siblings) /\ s - 1 \in siblings
          /\ Apart(sessions[s - 1].start, sessions[s].start) <= ScanWindow
      BY <1>2, <1>4, <2>12, AllSiblings DEF AnotherService
    <3> DEFINE f == [i \in siblings |-> [service |-> sessions[i].service,
                                         start |-> sessions[i].start]]
               q == [service |-> sessions[s - 1].service, start |-> sessions[s - 1].start]
    <3>2. ctx.siblings = {f[i] : i \in siblings} /\ f = [i \in siblings |-> f[i]]
      BY <2>10
    <3> HIDE DEF f
    <3>3. IsFiniteSet(ctx.siblings)
      BY <3>1, <3>2, FiniteImage
    <3>4. q \in ctx.siblings
      BY <2>10, <3>1
    <3>5. q.service = sessions[s - 1].service /\ q.start = sessions[s - 1].start
      OBVIOUS
    <3> HIDE DEF q
    <3>6. q.service # ctx.service /\ Apart(q.start, ctx.start) <= ScanWindow
      BY <2>10, <2>12, <3>1, <3>5 DEF AnotherService
    <3> QED BY <2>4, <3>3, <3>4, <3>6, TwoServicesScan
  <2>13. Recognised'
    <3>1. ASSUME NEW i \in DOMAIN sessions, sessions'[i].state = "enriched"
          PROVE  /\ \A u : Shows(sessions'[i], u) => u \in sessions'[i].found.ttps
                 /\ AnotherService(i)' => "T1595.001" \in sessions'[i].found.ttps
      <4>1. CASE i = s
        BY <2>2, <2>6, <2>9, <2>11, <2>12, <4>1
      <4>2. CASE i # s
        <5>1. sessions'[i] = sessions[i]
          BY <2>6, <4>2
        <5> QED BY <2>9, <3>1, <5>1 DEF WellRun, Recognised
      <4> QED BY <4>1, <4>2
    <3> QED BY <2>6, <3>1 DEF Recognised
  <2>14. attempts' \in Nat
    BY <1>1 DEF WellRun, Regular
  <2> QED BY <1>1, <2>5, <2>6, <2>7, <2>13, <2>14, SameRuns
<1> QED BY <1>3, <1>4

(* What a connection adds to the sessions if the check of every password   *)
(* is counted.                                                             *)
LEMMA NewRow ==
  ASSUME WellRun, Connect, Unhindered'
  PROVE  /\ Head(dials) \in AllDials /\ attempts' \in Nat
         /\ \E r : /\ sessions' = Append(sessions, r)
                   /\ DOMAIN r = Columns /\ r.start = now /\ r.state # "enriched"
                   /\ \A t : Bears(Head(dials), t) => Shows(r, t)
<1> DEFINE dial == Head(dials)
<1>1. dial \in AllDials
  BY HeadTailProperties DEF WellRun, Regular, Connect
<1>2. Fine(dial)
  BY <1>1, CatalogueFine
<1>3. attempts \in Nat
  BY DEF WellRun, Regular
<1>4. ASSUME NEW service, NEW evs, NEW state, state # "enriched"
      PROVE  LET r == Row(service, evs, state)
             IN /\ DOMAIN r = Columns /\ r.start = now /\ r.state # "enriched"
                /\ r.service = service /\ r.events = evs
  BY <1>4 DEF Row, Columns
<1>5. CASE dial.service = "ssh"
  <2>0. PICK lost \in LostChecks : \E counted \in {0, lost} :
          /\ sessions' = Append(sessions, Row("ssh", SshEvents(dial.talk, lost, counted), "open"))
          /\ attempts' = attempts + counted + Guesses(dial.talk, lost, counted) - lost
          /\ hindered' = hindered \cup (IF lost > 0 THEN {"lost check"} ELSE {})
    BY <1>5 DEF Connect
  <2>1. PICK counted \in {0, lost} :
          /\ sessions' = Append(sessions, Row("ssh", SshEvents(dial.talk, lost, counted), "open"))
          /\ attempts' = attempts + counted + Guesses(dial.talk, lost, counted) - lost
          /\ hindered' = hindered \cup (IF lost > 0 THEN {"lost check"} ELSE {})
    BY <2>0
  <2>2. lost = 0 /\ counted = 0
    <3>1. ~(lost > 0)
      BY <2>1 DEF Unhindered
    <3>2. lost \in Nat
      BY CampaignAssumption
    <3> QED BY <3>1, <3>2
  <2> DEFINE talk == dial.talk
             r == Row("ssh", SshEvents(talk, 0, 0), "open")
  <2>3. talk.passwords \in Nat
    BY <1>2, <1>5 DEF Fine
  <2>4. attempts' \in Nat
    <3> DEFINE n == Guesses(talk, 0, 0)
               k == Needed(attempts + 0)
    <3>1. k \in Nat
      BY <1>3, CampaignAssumption DEF Needed
    <3>2. n = IF Granted(talk, 0, 0) THEN 0 + k ELSE talk.passwords
      BY Zenon DEF Guesses
    <3> HIDE DEF k
    <3>3. n \in Nat
      BY <2>3, <3>1, <3>2
    <3>4. attempts' = attempts + 0 + n - 0
      BY <2>1, <2>2
    <3> HIDE DEF n
    <3> QED BY <1>3, <3>3, <3>4
  <2>5. sessions' = Append(sessions, r)
    BY <2>1, <2>2
  <2>6. /\ DOMAIN r = Columns /\ r.start = now /\ r.state # "enriched"
        /\ r.service = "ssh" /\ r.events = SshEvents(talk, 0, 0)
    BY <1>4
  <2>7. ASSUME NEW t, Bears(dial, t) PROVE Shows(r, t)
    <3>1. t \in ShellTechniques /\ talk.keepShell /\ AllowAfter <= talk.passwords
      BY <1>5, <2>7 DEF Bears, ShellTechniques
    <3> HIDE DEF r, talk
    <3> QED BY <1>3, <2>3, <2>6, <3>1, ShellShows
  <2> QED BY <1>1, <2>4, <2>5, <2>6, <2>7
<1>6. CASE dial.service # "ssh"
  <2>1. PICK state \in {"open", "closed"} :
          /\ sessions' = Append(sessions, Row(dial.service, dial.talk, state))
          /\ UNCHANGED attempts
    BY <1>6 DEF Connect
  <2> DEFINE r == Row(dial.service, dial.talk, state)
             q == [service |-> dial.service, events |-> dial.talk]
  <2>2. /\ DOMAIN r = Columns /\ r.start = now /\ r.state # "enriched"
        /\ r.service = dial.service /\ r.events = dial.talk
    BY <1>4
  <2>3. q.service = dial.service /\ q.events = dial.talk
    OBVIOUS
  <2>4. ASSUME NEW t, Bears(dial, t) PROVE Shows(r, t)
    <3>1. Shows(q, t)
      BY <1>6, <2>4 DEF Bears
    <3> HIDE DEF r, q, dial
    <3> QED BY <2>2, <2>3, <3>1, SameShows
  <2> QED BY <1>1, <1>3, <2>1, <2>2, <2>4
<1> QED BY <1>5, <1>6

LEMMA TailTells ==
  ASSUME NEW q \in Seq(AllDials), q # <<>>, NEW t, Tells(q, t)
  PROVE  Bears(Head(q), t) \/ Tells(Tail(q), t)
<1> DEFINE n == Len(q)
           p == Tail(q)
<1>1. /\ n \in Nat /\ DOMAIN q = 1..n /\ Head(q) = q[1]
      /\ DOMAIN p = 1..(n - 1) /\ \A i \in 1..(n - 1) : p[i] = q[i + 1]
  BY HeadTailProperties
<1> HIDE DEF n, p
<1>2. PICK i \in 1..n : Bears(q[i], t)
  BY <1>1 DEF Tells, Range
<1>3. CASE i = 1
  BY <1>1, <1>2, <1>3
<1>4. CASE i # 1
  <2>1. i - 1 \in 1..(n - 1) /\ (i - 1) + 1 = i
    BY <1>1, <1>2, <1>4
  <2>2. p[i - 1] = q[i]
    BY <1>1, <2>1
  <2>3. q[i] \in Range(p)
    BY <1>1, <2>1, <2>2 DEF Range
  <2> QED BY <1>2, <2>3 DEF Tells, p
<1> QED BY <1>3, <1>4

LEMMA ConnectWell ==
  ASSUME WellRun, Connect, Unhindered'
  PROVE  WellRun'
<1> DEFINE n == Len(sessions)
<1>1. /\ envelope.status = "running" /\ dials # <<>> /\ dials' = Tail(dials)
      /\ UNCHANGED <<entry, steps, now, envelope, blocked>>
  BY DEF Connect, Running
<1>2. PICK r :
        /\ sessions' = Append(sessions, r)
        /\ DOMAIN r = Columns /\ r.start = now /\ r.state # "enriched"
        /\ \A t : Bears(Head(dials), t) => Shows(r, t)
  BY NewRow
<1>3. attempts' \in Nat
  BY NewRow
<1> DEFINE S == Range(sessions) \cup {r}
<1>4. sessions \in Seq(S) /\ r \in S
  BY DEF WellRun, Regular
<1>5. /\ n \in Nat /\ DOMAIN sessions = 1..n
      /\ sessions' \in Seq(S) /\ Len(sessions') = n + 1 /\ DOMAIN sessions' = 1..(n + 1)
      /\ sessions'[n + 1] = r /\ \A i \in 1..n : sessions'[i] = sessions[i]
  <2> HIDE DEF S
  <2> QED BY <1>2, <1>4, AppendProperties
<1>6. /\ dials \in Seq(AllDials) /\ dials' \in Seq(AllDials) /\ Len(dials') = Len(dials) - 1
      /\ Len(dials) \in Nat /\ steps \in Seq(AllSteps) /\ Len(steps) \in Nat
  BY <1>1, HeadTailProperties DEF WellRun, Regular
<1>7. sessions' \in Seq(Range(sessions'))
  BY <1>5, OwnRange
<1> HIDE DEF n, S
<1>8. \A i \in 1..(n + 1) : i \in 1..n \/ i = n + 1
  BY <1>5
<1>9. now \in Nat /\ \A i \in 1..n : DOMAIN sessions[i] = Columns /\ sessions[i].start \in Nat
  BY <1>5 DEF WellRun, Regular
<1>10. Regular'
  <2>1. \A i \in DOMAIN sessions' : DOMAIN sessions'[i] = Columns /\ sessions'[i].start \in Nat
    BY <1>2, <1>5, <1>8, <1>9
  <2>2. Len(sessions') + Len(dials') + LongestRun * Len(steps) <= MostSessions
    BY <1>5, <1>6 DEF WellRun, Regular, LongestRun, MostSessions, n
  <2> QED BY <1>1, <1>3, <1>6, <1>7, <2>1, <2>2 DEF WellRun, Regular
<1>11. n # 0 => /\ n \in 1..n /\ sessions[n].start <= now /\ now - sessions[n].start <= Dwell
  <2>1. n # 0 => sessions # <<>> /\ n \in 1..n
    BY <1>5 DEF n
  <2> QED BY <1>1, <1>5, <2>1 DEF WellRun, Paced, LastStart, n
<1>12. Paced'
  <2>1. sessions' # <<>> /\ LastStart' = now
    BY <1>2, <1>5 DEF LastStart
  <2>2. \A i \in DOMAIN sessions' : sessions'[i].start <= now
    BY <1>1, <1>2, <1>5, <1>8, <1>9 DEF WellRun, Paced
  <2>3. ASSUME NEW i \in DOMAIN sessions', i # 1
        PROVE  sessions'[i].start - sessions'[i - 1].start \in 0..Dwell
    <3>1. CASE i \in 1..n
      <4>1. i - 1 \in 1..n /\ sessions'[i] = sessions[i] /\ sessions'[i - 1] = sessions[i - 1]
        BY <1>5, <2>3, <3>1
      <4> QED BY <1>5, <2>3, <3>1, <4>1 DEF WellRun, Paced
    <3>2. CASE i = n + 1
      <4>1. n # 0 /\ i - 1 = n
        BY <1>5, <2>3, <3>2
      <4>2. sessions'[i].start = now /\ sessions'[i - 1].start = sessions[n].start
        BY <1>2, <1>5, <1>11, <3>2, <4>1
      <4>3. sessions[n].start \in Nat
        BY <1>9, <1>11, <4>1
      <4> QED BY <1>9, <1>11, <4>1, <4>2, <4>3, CampaignAssumption
    <3> QED BY <1>5, <1>8, <3>1, <3>2
  <2>4. entry # NoEntry
    BY <1>1 DEF WellRun, Paced
  <2>5. now - now = 0 /\ 0 <= Dwell
    BY <1>9, CampaignAssumption
  <2> QED BY <1>1, <2>1, <2>2, <2>3, <2>4, <2>5 DEF Paced
<1>13. Covered'
  <2>1. ASSUME NEW t \in Expected \ HardToSee
        PROVE  \/ \E s \in DOMAIN sessions' : Shows(sessions'[s], t)
               \/ Tells(dials', t)
               \/ \E i \in DOMAIN steps' : Tells(steps'[i].run, t)
    <3>1. CASE \E s \in DOMAIN sessions : Shows(sessions[s], t)
      BY <1>5, <1>8, <3>1
    <3>2. CASE Tells(dials, t)
      <4>1. CASE Bears(Head(dials), t)
        <5>1. Shows(sessions'[n + 1], t) /\ n + 1 \in DOMAIN sessions'
          BY <1>2, <1>5, <4>1
        <5> QED BY <5>1
      <4> QED BY <1>1, <1>6, <3>2, <4>1, TailTells
    <3>3. CASE \E i \in DOMAIN steps : Tells(steps[i].run, t)
      BY <1>1, <3>3
    <3> QED BY <3>1, <3>2, <3>3 DEF WellRun, Covered
  <2>2. Expected' = Expected
    BY <1>1 DEF Expected
  <2> QED BY Zenon, <2>1, <2>2 DEF Covered
<1>14. \A i \in 1..n : i # 1 => i - 1 \in 1..n
  BY <1>5
<1>15. Recognised'
  <2>1. ASSUME NEW i \in DOMAIN sessions', sessions'[i].state = "enriched"
        PROVE  /\ \A u : Shows(sessions'[i], u) => u \in sessions'[i].found.ttps
               /\ AnotherService(i)' => "T1595.001" \in sessions'[i].found.ttps
    <3>1. i \in 1..n
      BY <1>2, <1>5, <1>8, <2>1
    <3>2. sessions'[i] = sessions[i] /\ AnotherService(i)' => AnotherService(i)
      BY <1>5, <1>14, <3>1 DEF AnotherService
    <3>3. sessions'[i] = sessions[i]
      BY <1>5, <3>1
    <3> QED BY <1>5, <2>1, <3>1, <3>2, <3>3 DEF WellRun, Recognised
  <2> QED BY <2>1 DEF Recognised
<1>16. Neighbours'
  <2>1. CASE n = 0
    <3>1. \A i \in DOMAIN sessions' : i = 1
      BY <1>5, <2>1
    <3> QED BY <3>1 DEF Neighbours
  <2>2. CASE n # 0
    <3>1. 1 \in 1..n /\ n \in 1..n /\ n + 1 \in DOMAIN sessions' /\ n + 1 # 1 /\ (n + 1) - 1 = n
      BY <1>5, <2>2
    <3>2. CASE \E s \in DOMAIN sessions : AnotherService(s)
      <4>1. PICK s \in 1..n : AnotherService(s)
        BY <1>5, <3>2
      <4>2. s \in DOMAIN sessions' /\ AnotherService(s)'
        BY <1>5, <1>14, <4>1 DEF AnotherService
      <4> QED BY <4>2 DEF Neighbours
    <3>3. CASE \A s \in DOMAIN sessions : sessions[s].service = sessions[1].service
      <4>1. CASE r.service = sessions[1].service
        <5>1. \A i \in DOMAIN sessions' : sessions'[i].service = sessions'[1].service
          BY <1>5, <1>8, <3>1, <3>3, <4>1
        <5> QED BY <5>1 DEF Neighbours
      <4>2. CASE r.service # sessions[1].service
        <5>1. sessions'[n + 1].service # sessions'[(n + 1) - 1].service
          BY <1>5, <3>1, <3>3, <4>2
        <5> QED BY <3>1, <5>1 DEF Neighbours, AnotherService
      <4> QED BY <4>1, <4>2
    <3> QED BY <3>2, <3>3 DEF WellRun, Neighbours
  <2> QED BY <2>1, <2>2
<1> QED BY <1>10, <1>12, <1>13, <1>15, <1>16 DEF WellRun

LEMMA StepsCount ==
  ASSUME AllowAfter <= 10, NEW st \in AllSteps
  PROVE  /\ st.run \in Seq(AllDials) /\ Len(st.run) \in 1..LongestRun /\ st.run # <<>>
<1>1. PICK e \in Entries : \E i \in DOMAIN StepsOf(e) : st = StepsOf(e)[i]
  BY DEF AllSteps, Range
<1>2. Counts(st.run)
  BY <1>1, PlansTell DEF Telling
<1>3. Len(st.run) \in 1..LongestRun
  BY <1>2 DEF Counts
<1>4. st.run # <<>>
  BY <1>3 DEF LongestRun
<1> QED BY <1>3, <1>4, CatalogueFine

LEMMA LaunchWell ==
  ASSUME AllowAfter <= 10, WellRun, NEW e \in Scheduled, NEW d, Launch(e, d)
  PROVE  WellRun'
<1> DEFINE plan == StepsOf(e)
           n == Len(plan)
<1>1. /\ entry = NoEntry /\ entry' = e /\ steps' = Tail(plan) /\ dials' = plan[1].run
      /\ envelope'.status = "running"
      /\ UNCHANGED <<sessions, closings, attempts, now, blocked, hindered>>
  BY DEF Launch
<1>2. e \in Entries /\ e # NoEntry
  <2>1. NoEntry \notin Entries
    BY DEF NoEntry, Entries, Playbooks, Scenarios
  <2> QED BY <2>1, ScheduledAssumption
<1>3. /\ plan \in Seq(AllSteps) /\ plan # <<>> /\ n \in 1..LongestPlan
      /\ \A i \in DOMAIN plan : Telling(plan[i].run, plan[i].expected)
  BY <1>2, CatalogueFine, PlansTell
<1>4. Expected' = UNION {plan[i].expected : i \in DOMAIN plan}
  BY <1>1, <1>2 DEF Expected, ExpectedOf
<1>5. sessions = <<>> /\ Len(sessions) = 0 /\ DOMAIN sessions = {}
  BY <1>1 DEF WellRun, Paced
<1> HIDE DEF plan
<1>6. /\ n \in Nat /\ DOMAIN plan = 1..n /\ plan[1] \in AllSteps /\ 1 \in 1..n
      /\ steps' \in Seq(AllSteps) /\ Len(steps') = n - 1
      /\ \A i \in 1..(n - 1) : steps'[i] = plan[i + 1]
  BY <1>1, <1>3, HeadTailProperties
<1> HIDE DEF n
<1>7. dials' \in Seq(AllDials) /\ Len(dials') \in 1..LongestRun /\ dials' # <<>>
  BY <1>1, <1>6, StepsCount
<1>8. Regular'
  <2>1. Len(sessions') + Len(dials') + LongestRun * Len(steps') <= MostSessions
    <3> DEFINE k == Len(steps')
               m == Len(dials')
    <3>1. Len(sessions') = 0 /\ m \in 1..8 /\ n \in 1..4 /\ k = n - 1
      BY <1>1, <1>3, <1>5, <1>6, <1>7 DEF LongestRun, LongestPlan
    <3> HIDE DEF k, m
    <3>2. 0 + m + 8 * k <= 32
      BY <3>1
    <3> QED BY <3>1, <3>2 DEF LongestRun, MostSessions, k, m
  <2> QED BY <1>1, <1>6, <1>7, <2>1 DEF WellRun, Regular
<1>9. Paced'
  BY <1>1, <1>2, <1>5, <1>7 DEF Paced
<1>10. Covered'
  <2>1. ASSUME NEW t \in Expected' \ HardToSee
        PROVE  Tells(dials', t) \/ \E i \in DOMAIN steps' : Tells(steps'[i].run, t)
    <3>1. PICK i \in 1..n : t \in plan[i].expected
      BY <1>4, <1>6, <2>1
    <3>2. Tells(plan[i].run, t)
      BY <1>3, <1>6, <2>1, <3>1 DEF Telling
    <3>3. CASE i = 1
      BY <1>1, <3>2, <3>3
    <3>4. CASE i # 1
      <4>1. i - 1 \in 1..(n - 1) /\ (i - 1) + 1 = i
        BY <1>6, <3>1, <3>4
      <4>2. DOMAIN steps' = 1..(n - 1)
        BY <1>6
      <4>3. steps'[i - 1] = plan[i]
        BY <1>6, <4>1
      <4> QED BY <3>2, <4>1, <4>2, <4>3
    <3> QED BY <3>3, <3>4
  <2> QED BY <2>1 DEF Covered
<1>11. Recognised' /\ Neighbours'
  BY <1>1, <1>5 DEF Recognised, Neighbours
<1> QED BY <1>8, <1>9, <1>10, <1>11 DEF WellRun

LEMMA StepDoneWell ==
  ASSUME AllowAfter <= 10, WellRun, StepDone, Unhindered'
  PROVE  WellRun'
<1>1. /\ envelope.status = "running" /\ dials = <<>> /\ steps # <<>>
      /\ dials' = Head(steps).run /\ steps' = Tail(steps)
      /\ UNCHANGED <<entry, driver, sessions, closings, attempts, envelope, blocked>>
  BY DEF StepDone, Running
<1>2. now' = now + Dwell
  <2>1. PICK took \in {Dwell, LongStep} :
          /\ now' = now + took
          /\ hindered' = hindered \cup (IF took = LongStep THEN {"slow"} ELSE {})
    BY DEF StepDone
  <2>2. took # LongStep
    BY <2>1 DEF Unhindered
  <2> QED BY <2>1, <2>2
<1> DEFINE n == Len(steps)
<1>3. /\ n \in Nat /\ n # 0 /\ DOMAIN steps = 1..n /\ Head(steps) = steps[1]
      /\ Head(steps) \in AllSteps
      /\ steps' \in Seq(AllSteps) /\ Len(steps') = n - 1 /\ DOMAIN steps' = 1..(n - 1)
      /\ \A i \in 1..(n - 1) : steps'[i] = steps[i + 1]
  BY <1>1, HeadTailProperties DEF WellRun, Regular
<1>4. dials' \in Seq(AllDials) /\ Len(dials') \in 1..LongestRun /\ dials' # <<>>
  BY <1>1, <1>3, StepsCount
<1>5. /\ now \in Nat /\ Dwell \in Nat /\ now' \in Nat /\ Len(sessions) \in Nat
      /\ Len(sessions) + 0 + LongestRun * n <= MostSessions
  <2>1. Len(dials) = 0
    BY <1>1
  <2> QED BY <1>2, <2>1, CampaignAssumption DEF WellRun, Regular
<1> HIDE DEF n
<1>6. Regular'
  <2>1. Len(sessions') + Len(dials') + LongestRun * Len(steps') <= MostSessions
    <3> DEFINE k == Len(steps')
               m == Len(dials')
               j == Len(sessions)
    <3>1. /\ Len(sessions') = j /\ m \in 1..8 /\ n \in Nat /\ k = n - 1
          /\ j \in Nat /\ j + 0 + 8 * n <= 32
      BY <1>1, <1>3, <1>4, <1>5 DEF LongestRun, MostSessions
    <3> HIDE DEF k, m, j
    <3>2. j + m + 8 * k <= 32
      BY <3>1
    <3> QED BY <3>1, <3>2 DEF LongestRun, MostSessions, k, m
  <2> QED BY <1>1, <1>3, <1>4, <1>5, <2>1 DEF WellRun, Regular
<1>7. Paced'
  <2>1. sessions # <<>> /\ LastStart = now /\ LastStart' = LastStart
    BY <1>1 DEF WellRun, Paced, LastStart
  <2>2. \A s \in DOMAIN sessions : sessions[s].start <= now /\ sessions[s].start \in Nat
    BY <1>1 DEF WellRun, Paced, Regular
  <2>3. now' - LastStart' <= Dwell /\ \A s \in DOMAIN sessions : sessions[s].start <= now'
    BY <1>2, <1>5, <2>1, <2>2
  <2>4. entry # NoEntry
    BY <1>1 DEF WellRun, Paced
  <2> QED BY <1>1, <1>4, <2>1, <2>3, <2>4 DEF WellRun, Paced
<1>8. Covered'
  <2>1. ASSUME NEW t \in Expected \ HardToSee
        PROVE  \/ \E s \in DOMAIN sessions' : Shows(sessions'[s], t)
               \/ Tells(dials', t)
               \/ \E i \in DOMAIN steps' : Tells(steps'[i].run, t)
    <3>1. ~Tells(dials, t)
      <4>1. Range(dials) = {}
        BY <1>1 DEF Range
      <4> QED BY <4>1 DEF Tells
    <3>2. CASE \E s \in DOMAIN sessions : Shows(sessions[s], t)
      BY <1>1, <3>2
    <3>3. CASE \E i \in DOMAIN steps : Tells(steps[i].run, t)
      <4>1. PICK i \in 1..n : Tells(steps[i].run, t)
        BY <1>3, <3>3
      <4>2. CASE i = 1
        BY <1>1, <1>3, <4>1, <4>2
      <4>3. CASE i # 1
        <5>1. i - 1 \in 1..(n - 1) /\ (i - 1) + 1 = i
          BY <1>3, <4>1, <4>3
        <5>2. steps'[i - 1] = steps[i]
          BY <1>3, <5>1
        <5> QED BY <1>3, <4>1, <5>1, <5>2
      <4> QED BY <4>2, <4>3
    <3> QED BY <3>1, <3>2, <3>3 DEF WellRun, Covered
  <2>2. Expected' = Expected
    BY <1>1 DEF Expected
  <2> QED BY Zenon, <2>1, <2>2 DEF Covered
<1>9. Recognised' /\ Neighbours'
  BY <1>1 DEF WellRun, Recognised, Neighbours, AnotherService
<1> QED BY <1>6, <1>7, <1>8, <1>9 DEF WellRun

LEMMA FinishWell ==
  ASSUME WellRun, Finish
  PROVE  WellRun'
<1>1. /\ envelope.status = "running" /\ dials = <<>> /\ steps = <<>>
      /\ now' = now + Dwell /\ envelope' = [status |-> "done", ended |-> now']
      /\ UNCHANGED <<entry, steps, dials, sessions, attempts, blocked>>
  BY DEF Finish, Running
<1>2. now \in Nat /\ now' \in Nat /\ now <= now'
  BY <1>1, CampaignAssumption DEF WellRun, Regular
<1>3. Regular'
  BY <1>1, <1>2 DEF WellRun, Regular
<1>4. Paced'
  <2>1. sessions # <<>> /\ entry # NoEntry
    BY <1>1 DEF WellRun, Paced
  <2>2. \A s \in DOMAIN sessions : sessions[s].start <= now /\ sessions[s].start \in Nat
    BY <1>1 DEF WellRun, Paced, Regular
  <2>3. \A s \in DOMAIN sessions : sessions[s].start <= now'
    BY <1>2, <2>2
  <2>4. envelope'.status = "done" /\ envelope'.ended = now'
    BY <1>1
  <2> QED BY <1>1, <2>1, <2>3, <2>4 DEF WellRun, Paced
<1>5. Covered'
  BY <1>1 DEF WellRun, Covered, Expected
<1>6. Recognised' /\ Neighbours'
  BY <1>1 DEF WellRun, Recognised, Neighbours, AnotherService
<1> QED BY <1>3, <1>4, <1>5, <1>6 DEF WellRun

(* A run of the catalogue that reaches a listener with every connection,   *)
(* that nobody blocks, that does not run into time-outs and of which no    *)
(* check of a password fails is recognised by                              *)
(* everything it is expected to be, but for guessing and for scanning by a *)
(* run of one service: whatever the order in which its sessions are        *)
(* closed and enriched, if passwords are granted no later than hydra gives *)
(* up, the dwell of a step is shorter than the scan window, and the query  *)
(* for siblings returns as many rows as a run has sessions.                *)
THEOREM RecognitionCorrect ==
  ASSUME AllowAfter <= 10, Dwell <= ScanWindow, MostSessions <= SiblingLimit
  PROVE  Spec => []OnlyTheseAreMissed
<1>1. MissInv => OnlyTheseAreMissed
  <2> SUFFICES ASSUME WellRun, Graded, NEW t \in Expected \ Detected, t # "T1110.001"
               PROVE  t = "T1595.001" /\ Cardinality(ServicesOf) = 1
    BY DEF MissInv, Unhindered, OnlyTheseAreMissed
  <2>1. /\ envelope.status = "done" /\ steps = <<>> /\ dials = <<>> /\ sessions # <<>>
        /\ \A s \in DOMAIN sessions :
             sessions[s].state = "enriched" /\ sessions[s].start <= envelope.ended
    BY DEF WellRun, Paced, Graded
  <2>2. \A s \in DOMAIN sessions : t \notin sessions[s].found.ttps
    BY <2>1 DEF Detected
  <2>3. ~Tells(dials, t) /\ DOMAIN steps = {}
    <3>1. Range(dials) = {} /\ DOMAIN steps = {}
      BY <2>1 DEF Range
    <3> QED BY <3>1 DEF Tells
  <2>4. t \in HardToSee
    <3>1. ASSUME NEW s \in DOMAIN sessions PROVE ~Shows(sessions[s], t)
      BY <2>1, <2>2 DEF WellRun, Recognised
    <3> QED BY <2>3, <3>1 DEF WellRun, Covered
  <2>5. t = "T1595.001"
    BY <2>4 DEF HardToSee
  <2>6. \A s \in DOMAIN sessions : sessions[s].service = sessions[1].service
    BY <2>1, <2>2, <2>5 DEF WellRun, Recognised, Neighbours
  <2>7. ServicesOf = {sessions[1].service}
    <3>1. 1 \in DOMAIN sessions
      <4> DEFINE n == Len(sessions)
      <4>1. n \in Nat /\ DOMAIN sessions = 1..n /\ n # 0
        BY <2>1 DEF WellRun, Regular
      <4> QED BY <4>1
    <3> QED BY <2>6, <3>1 DEF ServicesOf
  <2> QED BY <2>5, <2>7, FS_Singleton
<1>2. MissInv /\ [Next]_platformVars => MissInv'
  <2> SUFFICES ASSUME MissInv, [Next]_platformVars, Unhindered' PROVE WellRun'
    BY DEF MissInv
  <2>1. CampaignsNext \/ UNCHANGED campaignVars
    BY OnlyOneSensorMoves DEF Next, ApiStep, SensorStep, AttackRun, SshHoneypot,
       OtherHoneypots, Reputation, platformVars, sensorVars
  <2>2. Unhindered
    BY <2>1 DEF CampaignsNext, Launch, Connect, Refused, Unreached, RunnerRaises, StepDone, Finish,
       ListenerEnds, EnrichSession, DefenderBlocks, BlockEnds, CounterExpires, campaignVars,
       Unhindered
  <2>3. WellRun
    BY <2>2 DEF MissInv
  <2>4. CASE UNCHANGED campaignVars
    BY <2>3, <2>4 DEF campaignVars, WellRun, Regular, Paced, LastStart, Covered, Expected,
       Recognised, AnotherService, Neighbours
  <2>5. CASE CounterExpires
    <3>1. /\ attempts' = 0
          /\ UNCHANGED <<entry, driver, steps, dials, sessions, closings, now, envelope,
                         blocked, hindered>>
      BY <2>5 DEF CounterExpires
    <3> QED BY <2>3, <3>1 DEF WellRun, Regular, Paced, LastStart, Covered, Expected,
            Recognised, AnotherService, Neighbours
  <2>6. ~Refused /\ ~BlockEnds
    BY <2>3 DEF Refused, BlockEnds, WellRun, Regular
  <2>7. ~DefenderBlocks /\ ~Unreached /\ ~RunnerRaises
    BY DEF DefenderBlocks, Unreached, RunnerRaises, Unhindered
  <2> QED BY <2>1, <2>3, <2>4, <2>5, <2>6, <2>7, LaunchWell, ConnectWell, StepDoneWell,
          FinishWell, ListenerEndsWell, EnrichWell DEF CampaignsNext
<1> QED BY <1>1, <1>2, NothingMissedYet, PTL DEF Spec
=============================================================================
