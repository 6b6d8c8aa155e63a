------------------------- MODULE IntelPipelineProofs -------------------------
(***************************************************************************)
(* Theorems about IntelPipeline, for every value of its constants: first the*)
(* dictionary of SessionAggregator, whose two operations keep keys and     *)
(* buffers in step, then the types of the pipeline.                        *)
(***************************************************************************)
EXTENDS IntelPipeline, TLAPS

--------------------------------------------------------------------------
(* Sequences of sessions *)

(* Removing a key leaves a sequence of sessions.                           *)
LEMMA WithoutType ==
  ASSUME NEW q \in Seq(Sessions), NEW s \in Sessions
  PROVE  Without(q, s) \in Seq(Sessions)
<1>1. CASE ~Holds(q, s)
  BY <1>1 DEF Without
<1>2. CASE Holds(q, s)
  <2>1. Len(q) - 1 \in Nat /\ Len(q) \in Nat /\ DOMAIN q = 1..Len(q)
    BY <1>2 DEF Holds
  <2>2. \A k \in 1..Len(q)-1 : q[k] \in Sessions /\ q[k+1] \in Sessions
    BY <2>1
  <2>3. Without(q, s) \in [1..Len(q)-1 -> Sessions]
    BY <1>2, <2>2 DEF Without
  <2> QED
    BY <2>1, <2>3
<1> QED BY <1>1, <1>2

(* Removing a key that occurs once removes that key, no other, and keeps   *)
(* the others distinct.                                                    *)
LEMMA WithoutKeys ==
  ASSUME NEW q \in Seq(Sessions), NEW s \in Sessions, NoDuplicates(q)
  PROVE  /\ NoDuplicates(Without(q, s))
         /\ \A t \in Sessions : Holds(Without(q, s), t) <=> Holds(q, t) /\ t # s
         /\ Len(Without(q, s)) = IF Holds(q, s) THEN Len(q) - 1 ELSE Len(q)
<1>1. CASE ~Holds(q, s)
  BY <1>1 DEF Without, Holds
<1>2. CASE Holds(q, s)
  <2> DEFINE p == PlaceOf(q, s)
             w == Without(q, s)
             n == Len(q)
             src(k) == IF k < p THEN k ELSE k + 1
  <2>1. n \in Nat /\ n - 1 \in Nat /\ DOMAIN q = 1..n
    BY <1>2 DEF Holds
  <2>2. p \in 1..n /\ q[p] = s
    BY <1>2, <2>1 DEF Holds, PlaceOf
  <2>3. w = [k \in 1..n-1 |-> IF k < p THEN q[k] ELSE q[k+1]]
    BY <1>2 DEF Without
  <2>4. Len(w) = n - 1 /\ DOMAIN w = 1..n-1
    BY <2>1, <2>3
  <2> HIDE DEF p, w, n
  <2>5. \A k \in 1..n-1 : w[k] = q[src(k)] /\ src(k) \in 1..n /\ src(k) # p
    BY <2>1, <2>2, <2>3
  <2>6. \A j, k \in 1..n-1 : src(j) = src(k) => j = k
    BY <2>1, <2>2
  <2>7. \A k \in 1..n : k # p => \E j \in 1..n-1 : src(j) = k
    <3> TAKE k \in 1..n
    <3> HAVE k # p
    <3>1. CASE k < p
      <4>1. k \in 1..n-1 /\ src(k) = k
        BY <3>1, <2>1, <2>2
      <4> QED BY <4>1
    <3>2. CASE k > p
      <4>1. k - 1 \in 1..n-1 /\ src(k - 1) = k
        BY <3>2, <2>1, <2>2
      <4> QED BY <4>1
    <3> QED BY <3>1, <3>2, <2>1, <2>2
  <2>8. \A j, k \in 1..n : q[j] = q[k] => j = k
    BY <2>1 DEF NoDuplicates
  <2> HIDE DEF src
  <2>9. NoDuplicates(w)
    BY <2>4, <2>5, <2>6, <2>8 DEF NoDuplicates
  <2>10. \A t \in Sessions : Holds(w, t) <=> Holds(q, t) /\ t # s
    BY <2>1, <2>2, <2>4, <2>5, <2>7, <2>8 DEF Holds
  <2> QED BY <2>4, <2>9, <2>10, <1>2 DEF w, n
<1> QED BY <1>1, <1>2
(* Appending a key that does not occur yet adds that key and no other.     *)
LEMMA AppendKeys ==
  ASSUME NEW q \in Seq(Sessions), NEW s \in Sessions,
         NoDuplicates(q), ~Holds(q, s)
  PROVE  /\ Append(q, s) \in Seq(Sessions)
         /\ NoDuplicates(Append(q, s))
         /\ \A t \in Sessions : Holds(Append(q, s), t) <=> Holds(q, t) \/ t = s
         /\ Len(Append(q, s)) = Len(q) + 1
<1> DEFINE a == Append(q, s)
           n == Len(q)
<1>1. /\ n \in Nat /\ DOMAIN q = 1..n
      /\ a \in Seq(Sessions) /\ Len(a) = n + 1 /\ DOMAIN a = 1..n+1
      /\ \A k \in 1..n : a[k] = q[k]
      /\ a[n+1] = s
  OBVIOUS
<1> HIDE DEF a, n
<1>2. NoDuplicates(a)
  BY <1>1 DEF NoDuplicates, Holds
<1>3. \A t \in Sessions : Holds(a, t) <=> Holds(q, t) \/ t = s
  <2> TAKE t \in Sessions
  <2>1. Holds(a, t) => Holds(q, t) \/ t = s
    BY <1>1 DEF Holds
  <2>2. Holds(q, t) => Holds(a, t)
    <3> HAVE Holds(q, t)
    <3>1. PICK k \in 1..n : q[k] = t
      BY <1>1 DEF Holds
    <3> QED BY <3>1, <1>1 DEF Holds
  <2>3. t = s => Holds(a, t)
    BY <1>1 DEF Holds
  <2> QED BY <2>1, <2>2, <2>3
<1> QED BY <1>1, <1>2, <1>3 DEF a, n

(* Dropping the first n keys, which are distinct from the rest.            *)
LEMMA SuffixKeys ==
  ASSUME NEW q \in Seq(Sessions), NoDuplicates(q), NEW n \in 1..Len(q)
  PROVE  LET r == SubSeq(q, n + 1, Len(q))
         IN /\ r \in Seq(Sessions)
            /\ NoDuplicates(r)
            /\ \A t \in Sessions :
                 Holds(r, t) <=> Holds(q, t) /\ t \notin {q[k] : k \in 1..n}
            /\ Len(r) = Len(q) - n
<1> DEFINE r == SubSeq(q, n + 1, Len(q))
           m == Len(q)
<1>1. /\ m \in Nat /\ DOMAIN q = 1..m /\ n \in 1..m
      /\ r \in Seq(Sessions) /\ Len(r) = m - n /\ DOMAIN r = 1..m-n
      /\ \A k \in 1..m-n : r[k] = q[k+n]
  OBVIOUS
<1> HIDE DEF r, m
<1>2. \A j, k \in 1..m : q[j] = q[k] => j = k
  BY <1>1 DEF NoDuplicates
<1>3. NoDuplicates(r)
  BY <1>1, <1>2 DEF NoDuplicates
<1>4. \A t \in Sessions :
        Holds(r, t) <=> Holds(q, t) /\ t \notin {q[k] : k \in 1..n}
  <2> TAKE t \in Sessions
  <2>1. ASSUME Holds(r, t)
        PROVE  Holds(q, t) /\ t \notin {q[k] : k \in 1..n}
    <3>1. PICK j \in 1..m-n : r[j] = t
      BY <2>1, <1>1 DEF Holds
    <3>2. j + n \in 1..m /\ q[j+n] = t
      BY <3>1, <1>1
    <3>3. \A k \in 1..n : k \in 1..m /\ k # j + n
      BY <3>1, <1>1
    <3> QED BY <3>2, <3>3, <1>1, <1>2 DEF Holds
  <2>2. ASSUME Holds(q, t), t \notin {q[k] : k \in 1..n}
        PROVE  Holds(r, t)
    <3>1. PICK j \in 1..m : q[j] = t
      BY <2>2, <1>1 DEF Holds
    <3>2. j \notin 1..n
      BY <2>2, <3>1
    <3>3. j - n \in 1..m-n /\ r[j-n] = t
      BY <3>1, <3>2, <1>1
    <3> QED BY <3>3, <1>1 DEF Holds
  <2> QED BY <2>1, <2>2
<1> QED BY <1>1, <1>3, <1>4 DEF r, m

(* Dropping the first key.                                                 *)
LEMMA TailKeys ==
  ASSUME NEW q \in Seq(Sessions), NoDuplicates(q), q # <<>>
  PROVE  /\ Tail(q) \in Seq(Sessions)
         /\ NoDuplicates(Tail(q))
         /\ \A t \in Sessions : Holds(Tail(q), t) <=> Holds(q, t) /\ t # Head(q)
         /\ Len(Tail(q)) = Len(q) - 1
<1> DEFINE r == SubSeq(q, 1 + 1, Len(q))
<1>1. 1 \in 1..Len(q) /\ Head(q) = q[1] /\ Tail(q) = r
  OBVIOUS
<1>2. {q[k] : k \in 1..1} = {Head(q)}
  BY <1>1
<1>3. /\ r \in Seq(Sessions)
      /\ NoDuplicates(r)
      /\ \A t \in Sessions :
           Holds(r, t) <=> Holds(q, t) /\ t \notin {q[k] : k \in 1..1}
      /\ Len(r) = Len(q) - 1
  BY <1>1, SuffixKeys
<1> HIDE DEF r
<1> QED BY <1>1, <1>2, <1>3

--------------------------------------------------------------------------
(* The operations of the aggregator *)

(* move_to_end, or the insertion of a new key: the key is there, once.     *)
LEMMA TouchedKeys ==
  ASSUME order \in Seq(Sessions), NoDuplicates(order), NEW s \in Sessions
  PROVE  /\ Touched(s) \in Seq(Sessions)
         /\ NoDuplicates(Touched(s))
         /\ \A t \in Sessions : Holds(Touched(s), t) <=> Holds(order, t) \/ t = s
         /\ Len(Touched(s)) = IF Holds(order, s) THEN Len(order)
                                                 ELSE Len(order) + 1
<1> DEFINE w == Without(order, s)
<1>1. /\ w \in Seq(Sessions)
      /\ NoDuplicates(w)
      /\ \A t \in Sessions : Holds(w, t) <=> Holds(order, t) /\ t # s
      /\ Len(w) = IF Holds(order, s) THEN Len(order) - 1 ELSE Len(order)
  BY WithoutType, WithoutKeys
<1> HIDE DEF w
<1>2. ~Holds(w, s)
  BY <1>1
<1>3. /\ Append(w, s) \in Seq(Sessions)
      /\ NoDuplicates(Append(w, s))
      /\ \A t \in Sessions : Holds(Append(w, s), t) <=> Holds(w, t) \/ t = s
      /\ Len(Append(w, s)) = Len(w) + 1
  BY <1>1, <1>2, AppendKeys
<1>4. Touched(s) = Append(w, s)
  BY DEF Touched, w
<1>5. Len(order) \in Nat
  OBVIOUS
<1> QED BY <1>1, <1>3, <1>4, <1>5

(* ingest() keeps keys and buffers in step, whether the session is new or  *)
(* known, the dictionary full or not, the buffer returned or not.          *)
LEMMA IngestEventKeys ==
  ASSUME AggregatorTypeOK, OrderMatchesBuffers,
         NEW s \in Sessions, NEW i \in Nat, IngestEvent(s, i)
  PROVE  AggregatorTypeOK' /\ OrderMatchesBuffers'
<1> DEFINE victims == Victims(s)
           kept == IF victims = {} THEN Touched(s) ELSE Tail(Touched(s))
           gone == Without(kept, s)
<1>1. /\ order \in Seq(Sessions) /\ Len(order) \in Nat /\ NoDuplicates(order)
      /\ Len(order) <= MaxBuffers /\ MaxBuffers \in Nat \ {0}
      /\ \A t \in Sessions : buffer[t] # {} <=> Holds(order, t)
      /\ buffer \in [Sessions -> SUBSET Nat] /\ evicted \subseteq Nat
  BY AggregatorAssumption DEF AggregatorTypeOK, OrderMatchesBuffers
<1>2. /\ Touched(s) \in Seq(Sessions)
      /\ NoDuplicates(Touched(s))
      /\ \A t \in Sessions : Holds(Touched(s), t) <=> Holds(order, t) \/ t = s
      /\ Len(Touched(s)) = IF Holds(order, s) THEN Len(order)
                                              ELSE Len(order) + 1
  BY <1>1, TouchedKeys
<1>3. /\ kept \in Seq(Sessions) /\ NoDuplicates(kept) /\ Len(kept) <= MaxBuffers
      /\ victims \subseteq Sessions /\ s \notin victims
      /\ \A t \in Sessions :
           Holds(kept, t) <=> (Holds(order, t) \/ t = s) /\ t \notin victims
  <2>1. CASE victims = {}
    <3>1. kept = Touched(s)
      BY <2>1
    <3>2. Holds(order, s) \/ Len(order) < MaxBuffers
      <4> SUFFICES ASSUME ~Holds(order, s), ~(Len(order) < MaxBuffers)
                   PROVE  FALSE
        OBVIOUS
      <4>1. buffer[s] = {} /\ Len(order) >= MaxBuffers
        BY <1>1
      <4>2. Victims(s) = {Head(order)}
        BY <4>1 DEF Victims
      <4>3. {Head(order)} # {}
        OBVIOUS
      <4> QED BY <4>2, <4>3, <2>1
    <3>3. Len(Touched(s)) <= MaxBuffers
      BY <3>2, <1>1, <1>2
    <3> HIDE DEF kept, victims
    <3> QED BY <3>1, <3>3, <2>1, <1>2
  <2>2. CASE victims # {}
    <3>1. /\ buffer[s] = {} /\ Len(order) >= MaxBuffers
          /\ victims = {Head(order)}
      BY <2>2 DEF Victims
    <3>2. order # <<>> /\ Len(order) = MaxBuffers
      BY <3>1, <1>1
    <3>3. ~Holds(order, s)
      BY <3>1, <1>1
    <3>4. Touched(s) = Append(order, s)
      BY <3>3 DEF Touched, Without
    <3>5. Touched(s) # <<>> /\ Head(Touched(s)) = Head(order)
      BY <3>2, <3>4, <1>1
    <3>6. Head(order) \in Sessions /\ Holds(order, Head(order))
      BY <3>2, <1>1 DEF Holds
    <3>7. kept = Tail(Touched(s))
      BY <2>2
    <3>8. /\ Tail(Touched(s)) \in Seq(Sessions)
          /\ NoDuplicates(Tail(Touched(s)))
          /\ \A t \in Sessions :
               Holds(Tail(Touched(s)), t)
                 <=> Holds(Touched(s), t) /\ t # Head(Touched(s))
          /\ Len(Tail(Touched(s))) = Len(Touched(s)) - 1
      BY <3>5, <1>2, TailKeys
    <3>9. Len(Touched(s)) = MaxBuffers + 1
      BY <3>2, <3>3, <1>2
    <3> HIDE DEF kept, victims
    <3>10. Len(kept) <= MaxBuffers
      BY <3>7, <3>8, <3>9, <1>1
    <3>11. s # Head(order)
      BY <3>3, <3>6
    <3>12. \A t \in Sessions :
             Holds(kept, t) <=> (Holds(order, t) \/ t = s) /\ t \notin victims
      BY <3>1, <3>5, <3>7, <3>8, <1>2
    <3> QED BY <3>1, <3>6, <3>7, <3>8, <3>10, <3>11, <3>12
  <2> QED BY <2>1, <2>2
<1>4. /\ order' = IF Ready(s, i) THEN gone ELSE kept
      /\ buffer' = [t \in Sessions |->
                      IF t \in victims THEN {}
                      ELSE IF t # s THEN buffer[t]
                      ELSE IF Ready(s, i) THEN {} ELSE buffer[s] \cup {i}]
      /\ evicted' = evicted \cup UNION {buffer[t] : t \in victims}
  BY DEF IngestEvent
<1> HIDE DEF kept, victims
<1>5. /\ gone \in Seq(Sessions) /\ NoDuplicates(gone)
      /\ \A t \in Sessions : Holds(gone, t) <=> Holds(kept, t) /\ t # s
      /\ Len(gone) = IF Holds(kept, s) THEN Len(kept) - 1 ELSE Len(kept)
  BY <1>3, WithoutType, WithoutKeys
<1>6. Len(gone) <= MaxBuffers
  <2>1. Len(kept) \in Nat
    BY <1>3
  <2> QED BY <2>1, <1>1, <1>3, <1>5
<1> HIDE DEF gone
<1>7. AggregatorTypeOK'
  BY <1>1, <1>3, <1>4, <1>5 DEF AggregatorTypeOK
<1>8. NoDuplicates(order)' /\ (Len(order) <= MaxBuffers)'
  BY <1>3, <1>4, <1>5, <1>6 DEF NoDuplicates
<1>9. \A t \in Sessions : buffer'[t] # {} <=> Holds(order', t)
  <2> TAKE t \in Sessions
  <2>1. CASE t \in victims
    BY <2>1, <1>3, <1>4, <1>5
  <2>2. CASE t \notin victims /\ t # s
    BY <2>2, <1>1, <1>3, <1>4, <1>5
  <2>3. CASE t = s
    BY <2>3, <1>3, <1>4, <1>5
  <2> QED BY <2>1, <2>2, <2>3
<1> QED BY <1>7, <1>8, <1>9 DEF OrderMatchesBuffers, Holds

(* drain_idle() keeps keys and buffers in step.                            *)
LEMMA PopOldestKeys ==
  ASSUME AggregatorTypeOK, OrderMatchesBuffers, NEW n, PopOldest(n)
  PROVE  AggregatorTypeOK' /\ OrderMatchesBuffers'
<1> DEFINE r == SubSeq(order, n + 1, Len(order))
<1>1. /\ order \in Seq(Sessions) /\ Len(order) \in Nat /\ NoDuplicates(order)
      /\ Len(order) <= MaxBuffers /\ MaxBuffers \in Nat
      /\ \A t \in Sessions : buffer[t] # {} <=> Holds(order, t)
      /\ buffer \in [Sessions -> SUBSET Nat] /\ evicted \subseteq Nat
      /\ n \in 1..Len(order)
  BY AggregatorAssumption DEF AggregatorTypeOK, OrderMatchesBuffers, PopOldest
<1>2. /\ r \in Seq(Sessions)
      /\ NoDuplicates(r)
      /\ \A t \in Sessions : Holds(r, t) <=> Holds(order, t) /\ t \notin Oldest(n)
      /\ Len(r) = Len(order) - n
  BY <1>1, SuffixKeys DEF Oldest
<1>3. /\ order' = r
      /\ buffer' = [s \in Sessions |-> IF s \in Oldest(n) THEN {} ELSE buffer[s]]
      /\ evicted' = evicted
  BY DEF PopOldest
<1> HIDE DEF r
<1>4. AggregatorTypeOK'
  BY <1>1, <1>2, <1>3 DEF AggregatorTypeOK
<1>5. NoDuplicates(order)' /\ (Len(order) <= MaxBuffers)'
  BY <1>1, <1>2, <1>3 DEF NoDuplicates
<1>6. \A t \in Sessions : buffer'[t] # {} <=> Holds(order', t)
  BY <1>1, <1>2, <1>3
<1> QED BY <1>4, <1>5, <1>6 DEF OrderMatchesBuffers, Holds

--------------------------------------------------------------------------
(* The stream *)

(* XADD keeps every entry where it is.                                     *)
LEMMA XAddKeeps ==
  ASSUME StreamTypeOK, NEW e \in Entry, XAdd(e)
  PROVE  /\ StreamTypeOK'
         /\ Positions \subseteq Positions'
         /\ \A i \in Positions : stream'[i] = stream[i]
         /\ Len(stream') = Len(stream) + 1 /\ stream'[Len(stream')] = e
         /\ UNCHANGED <<cursor, pel, acked>>
<1>1. /\ stream \in Seq(Entry) /\ Len(stream) \in Nat
      /\ stream' = Append(stream, e)
      /\ trimmed' \in trimmed..Len(stream)
      /\ UNCHANGED <<cursor, pel, acked>>
      /\ trimmed \in 0..Len(stream) /\ cursor \in 0..Len(stream)
      /\ pel \subseteq 1..cursor /\ acked \subseteq 1..cursor
  BY DEF StreamTypeOK, XAdd
<1>2. /\ stream' \in Seq(Entry) /\ Len(stream') = Len(stream) + 1
      /\ \A i \in 1..Len(stream) : stream'[i] = stream[i]
      /\ stream'[Len(stream) + 1] = e
  BY <1>1
<1>3. trimmed' \in 0..Len(stream') /\ cursor' \in 0..Len(stream')
  BY <1>1, <1>2
<1>4. pel' \subseteq 1..cursor' /\ acked' \subseteq 1..cursor'
  BY <1>1
<1> QED BY <1>1, <1>2, <1>3, <1>4 DEF StreamTypeOK, Positions

(* A read delivers entries beyond the cursor, which were never pending.    *)
LEMMA XReadGroupDelivers ==
  ASSUME StreamTypeOK, NEW last, NEW count, XReadGroup(last, count)
  PROVE  /\ StreamTypeOK'
         /\ ReadUpTo(last) \subseteq Positions
         /\ \A i \in ReadUpTo(last) : i > cursor /\ i <= cursor'
         /\ cursor' >= cursor
         /\ pel' = pel \cup ReadUpTo(last)
         /\ UNCHANGED <<stream, acked>>
<1>1. /\ stream \in Seq(Entry) /\ Len(stream) \in Nat
      /\ trimmed \in 0..Len(stream) /\ cursor \in 0..Len(stream)
      /\ pel \subseteq 1..cursor /\ acked \subseteq 1..cursor
  BY DEF StreamTypeOK
<1>2. /\ last \in 1..Len(stream) /\ last > cursor
      /\ cursor' = last /\ pel' = pel \cup ReadUpTo(last)
      /\ UNCHANGED <<stream, trimmed, acked>>
  BY DEF XReadGroup, Undelivered, Positions
<1>3. \A i \in ReadUpTo(last) : i \in 1..last /\ i > cursor /\ i \in Positions
  BY <1>1, <1>2 DEF ReadUpTo, Undelivered, Positions
<1>4. 1..cursor \subseteq 1..last /\ ReadUpTo(last) \subseteq 1..last
  BY <1>1, <1>2, <1>3
<1>5. pel' \subseteq 1..cursor' /\ acked' \subseteq 1..cursor'
  BY <1>1, <1>2, <1>4
<1> QED BY <1>1, <1>2, <1>3, <1>5 DEF StreamTypeOK

(* An XACK touches the pending list and the history only.                  *)
LEMMA XAckType ==
  ASSUME StreamTypeOK, NEW ids, XAck(ids)
  PROVE  StreamTypeOK' /\ UNCHANGED <<stream, trimmed, cursor>>
BY DEF StreamTypeOK, XAck

(* An unchanged stream keeps its type.                                     *)
LEMMA StreamFrame ==
  ASSUME StreamTypeOK, UNCHANGED streamVars
  PROVE  StreamTypeOK' /\ Positions' = Positions
BY DEF StreamTypeOK, streamVars, Positions

--------------------------------------------------------------------------
(* Types *)

(* What the listeners do leaves the worker's types alone.                  *)
LEMMA ListenerTypeFrame ==
  ASSUME TypeOK, OrderMatchesBuffers, ListenerOnly,
         StreamTypeOK', Positions \subseteq Positions',
         FaultsTypeOK', ManagerTypeOK'
  PROVE  TypeOK' /\ OrderMatchesBuffers'
<1> USE DEF TypeOK, ListenerOnly, aggregatorVars, workerVars
<1>1. AggregatorTypeOK' /\ OrderMatchesBuffers'
  BY DEF AggregatorTypeOK, OrderMatchesBuffers, Holds, NoDuplicates
<1>2. WorkerTypeOK'
  BY DEF WorkerTypeOK
<1> QED BY <1>1, <1>2

(* The two halves of Next.                                                 *)
ListenerNext ==
  /\ ListenerOnly
  /\ \/ \E s \in Sessions : CallOpen(s)
     \/ \E s \in Sessions, ev \in Evidence : CallRecord(s, ev)
     \/ \E s \in Sessions : CallClose(s)
     \/ \E c \in calls : Commit(c)
     \/ \E c \in calls : Publish(c)
     \/ \E c \in calls : OpenOrCloseFails(c)
     \/ \E c \in calls : RecordFails(c)
     \/ \E s \in Sessions : OpenTimesOut(s)
     \/ \E s \in Sessions : ListenerDies(s)
     \/ PublishUndecodable

WorkerNext ==
  /\ WorkerOnly
  /\ \/ Read
     \/ ReplyLost
     \/ \E i \in batch : Ingest(i)
     \/ \E i \in batch : DropBad(i)
     \/ \E n \in 1..Len(order) : DrainIdle(n)
     \/ FlushDrained
     \/ Persist
     \/ PersistFails
     \/ PublishAlert
     \/ PublishReport
     \/ AckFlush
     \/ Crash
     \/ Restart

LEMMA NextSplits == Next <=> ListenerNext \/ WorkerNext
BY DEF Next, ListenerNext, WorkerNext

LEMMA ListenerTypeStep ==
  ASSUME TypeOK, OrderMatchesBuffers, ListenerNext
  PROVE  TypeOK' /\ OrderMatchesBuffers'
<1>1. /\ StreamTypeOK /\ FaultsTypeOK /\ ManagerTypeOK /\ ListenerOnly
      /\ MaxEvents \in Nat /\ MaxFaults \in Nat
  BY MaxEventsAssumption, MaxFaultsAssumption DEF TypeOK, ListenerNext
<1>2. OpenEv \in EventNo /\ CloseEv \in EventNo /\ Evidence \subseteq EventNo
  BY <1>1 DEF OpenEv, CloseEv, EventNo, Evidence
<1>3. Fault => FaultsTypeOK'
  BY <1>1 DEF Fault, FaultsTypeOK
<1>4. UNCHANGED faults => FaultsTypeOK'
  BY <1>1 DEF FaultsTypeOK
<1>5. UNCHANGED streamVars => StreamTypeOK' /\ Positions \subseteq Positions'
  BY <1>1, StreamFrame
<1>6. \A s \in Sessions, ev \in EventNo : NewCall(s, ev) \in Call
  BY DEF NewCall, Call
<1>7. ASSUME NEW s \in Sessions, CallOpen(s)
      PROVE  TypeOK' /\ OrderMatchesBuffers'
  <2>1. ManagerTypeOK'
    BY <1>1, <1>2, <1>6, <1>7 DEF ManagerTypeOK, CallOpen, ListenerState
  <2> QED BY <1>1, <2>1, <1>4, <1>5, <1>7, ListenerTypeFrame DEF CallOpen
<1>8. ASSUME NEW s \in Sessions, NEW ev \in Evidence, CallRecord(s, ev)
      PROVE  TypeOK' /\ OrderMatchesBuffers'
  <2>1. ManagerTypeOK'
    BY <1>1, <1>2, <1>6, <1>8 DEF ManagerTypeOK, CallRecord
  <2> QED BY <1>1, <2>1, <1>4, <1>5, <1>8, ListenerTypeFrame DEF CallRecord
<1>9. ASSUME NEW s \in Sessions, CallClose(s)
      PROVE  TypeOK' /\ OrderMatchesBuffers'
  <2>1. ManagerTypeOK'
    BY <1>1, <1>2, <1>6, <1>9 DEF ManagerTypeOK, CallClose, ListenerState
  <2> QED BY <1>1, <2>1, <1>4, <1>5, <1>9, ListenerTypeFrame DEF CallClose
<1>10. ASSUME NEW c \in calls, Commit(c)
       PROVE  TypeOK' /\ OrderMatchesBuffers'
  <2>1. c \in Call
    BY <1>1 DEF ManagerTypeOK
  <2>2. [c EXCEPT !.next = "publish"] \in Call
    BY <2>1 DEF Call
  <2>3. calls' \subseteq Call /\ listener' = listener
    BY <2>2, <1>1, <1>10 DEF Commit, ManagerTypeOK
  <2>4. row' \in [Sessions -> {"none", "OPEN", "CLOSED"}]
    BY <2>1, <1>1, <1>10 DEF Commit, ManagerTypeOK, Call
  <2>5. eventRows' \in [Sessions -> SUBSET Evidence]
    BY <2>1, <1>1, <1>10 DEF Commit, ManagerTypeOK, Call
  <2>6. ManagerTypeOK'
    BY <2>3, <2>4, <2>5, <1>1 DEF ManagerTypeOK
  <2> QED BY <1>1, <2>6, <1>4, <1>5, <1>10, ListenerTypeFrame DEF Commit
<1>11. ASSUME NEW c \in calls, Publish(c)
       PROVE  TypeOK' /\ OrderMatchesBuffers'
  <2>1. c \in Call
    BY <1>1 DEF ManagerTypeOK
  <2>2. [sid |-> c.sid, ev |-> c.ev] \in Entry
    BY <2>1 DEF Call, Entry, Envelope
  <2>3. StreamTypeOK' /\ Positions \subseteq Positions'
    BY <2>2, <1>1, <1>11, XAddKeeps DEF Publish
  <2>4. listener' \in [Sessions -> ListenerState]
    BY <1>1, <1>11 DEF Publish, Returned, ManagerTypeOK, ListenerState
  <2>5. ManagerTypeOK'
    BY <2>4, <1>1, <1>11 DEF ManagerTypeOK, Publish
  <2> QED BY <1>1, <2>3, <2>5, <1>4, <1>11, ListenerTypeFrame DEF Publish
<1>12. ASSUME NEW c \in calls, OpenOrCloseFails(c)
       PROVE  TypeOK' /\ OrderMatchesBuffers'
  <2>1. ManagerTypeOK'
    BY <1>1, <1>12 DEF ManagerTypeOK, OpenOrCloseFails, ListenerState
  <2> QED BY <1>1, <2>1, <1>3, <1>5, <1>12, ListenerTypeFrame DEF OpenOrCloseFails
<1>13. ASSUME NEW c \in calls, RecordFails(c)
       PROVE  TypeOK' /\ OrderMatchesBuffers'
  <2>1. c \in Call /\ c.sid \in Sessions
    BY <1>1 DEF ManagerTypeOK, Call
  <2>2. ManagerTypeOK'
    BY <2>1, <1>1, <1>2, <1>6, <1>13
    DEF ManagerTypeOK, RecordFails, ListenerState
  <2> QED BY <1>1, <2>2, <1>3, <1>5, <1>13, ListenerTypeFrame DEF RecordFails
<1>14. ASSUME NEW s \in Sessions, OpenTimesOut(s)
       PROVE  TypeOK' /\ OrderMatchesBuffers'
  <2>1. ManagerTypeOK'
    BY <1>1, <1>14 DEF ManagerTypeOK, OpenTimesOut, ListenerState
  <2> QED BY <1>1, <2>1, <1>3, <1>5, <1>14, ListenerTypeFrame DEF OpenTimesOut
<1>15. ASSUME NEW s \in Sessions, ListenerDies(s)
       PROVE  TypeOK' /\ OrderMatchesBuffers'
  <2>1. ManagerTypeOK'
    BY <1>1, <1>15 DEF ManagerTypeOK, ListenerDies, ListenerState
  <2> QED BY <1>1, <2>1, <1>3, <1>5, <1>15, ListenerTypeFrame DEF ListenerDies
<1>16. ASSUME PublishUndecodable
       PROVE  TypeOK' /\ OrderMatchesBuffers'
  <2>1. StreamTypeOK' /\ Positions \subseteq Positions'
    BY <1>1, <1>16, XAddKeeps DEF PublishUndecodable, Entry
  <2>2. ManagerTypeOK'
    BY <1>1, <1>16 DEF ManagerTypeOK, PublishUndecodable, managerVars
  <2> QED BY <1>1, <2>1, <2>2, <1>4, <1>16, ListenerTypeFrame DEF PublishUndecodable
<1> QED
  BY <1>7, <1>8, <1>9, <1>10, <1>11, <1>12, <1>13, <1>14, <1>15, <1>16
  DEF ListenerNext
(* What the worker does leaves the listeners alone.                        *)
LEMMA WorkerTypeFrame ==
  ASSUME TypeOK, WorkerOnly,
         StreamTypeOK', FaultsTypeOK', AggregatorTypeOK', WorkerTypeOK'
  PROVE  TypeOK'
BY DEF TypeOK, WorkerOnly, managerVars, ManagerTypeOK

LEMMA AggregatorFrame ==
  ASSUME AggregatorTypeOK, OrderMatchesBuffers, UNCHANGED aggregatorVars
  PROVE  AggregatorTypeOK' /\ OrderMatchesBuffers'
BY DEF aggregatorVars, AggregatorTypeOK, OrderMatchesBuffers, Holds, NoDuplicates

(* The flush under way, when it is one, is of a session.                   *)
LEMMA FlushType ==
  ASSUME WorkerTypeOK, flush.next # "none"
  PROVE  flush \in Flush
BY DEF WorkerTypeOK, NoFlush

LEMMA FlushMoves ==
  ASSUME NEW f \in Flush, NEW score \in Score,
         NEW step \in {"persist", "alert", "report", "ack"}
  PROVE  /\ [f EXCEPT !.next = step] \in Flush
         /\ [f EXCEPT !.next = step, !.score = score] \in Flush
BY DEF Flush

(* Everything the worker has in memory is a stream position.               *)
LEMMA InMemoryType ==
  ASSUME WorkerTypeOK, Len(stream) \in Nat
  PROVE  InMemory \subseteq Nat
<1>1. batch \subseteq Nat /\ \A s \in Sessions : pendingIds[s] \subseteq Nat
  BY DEF WorkerTypeOK, Positions
<1>2. flush.ids \subseteq Nat
  BY DEF WorkerTypeOK, Flush, NoFlush
<1> QED BY <1>1, <1>2 DEF InMemory

(* The score a flush commits.                                              *)
LEMMA PersistScores ==
  ASSUME Persist
  PROVE  \E score \in Score :
           /\ threat' = [threat EXCEPT ![flush.sid] = score]
           /\ flush' = [flush EXCEPT !.next = "alert", !.score = score]
<1>1. PICK total \in 0..MaxTotal :
        /\ threat' = [threat EXCEPT ![flush.sid] = Clamped(total)]
        /\ flush' = [flush EXCEPT !.next = "alert", !.score = Clamped(total)]
  BY DEF Persist
<1>2. Clamped(total) \in Score
  BY WorkerAssumption DEF Clamped, Score
<1> QED BY <1>1, <1>2

LEMMA AckOrForgetType ==
  ASSUME StreamTypeOK, FaultsTypeOK, forgotten \subseteq Nat,
         NEW ids \in SUBSET Nat, AckOrForget(ids)
  PROVE  /\ StreamTypeOK' /\ FaultsTypeOK' /\ forgotten' \subseteq Nat
         /\ UNCHANGED <<stream, trimmed, cursor>> /\ Positions' = Positions
<1>1. CASE XAck(ids) /\ UNCHANGED <<forgotten, faults>>
  <2>1. StreamTypeOK' /\ UNCHANGED <<stream, trimmed, cursor>>
    BY <1>1, XAckType
  <2> QED BY <2>1, <1>1 DEF FaultsTypeOK, Positions
<1>2. CASE Fault /\ forgotten' = forgotten \cup ids /\ UNCHANGED streamVars
  <2>1. FaultsTypeOK'
    BY <1>2, MaxFaultsAssumption DEF Fault, FaultsTypeOK
  <2> QED BY <2>1, <1>2, StreamFrame DEF streamVars
<1> QED BY <1>1, <1>2 DEF AckOrForget

LEMMA WorkerTypeStep ==
  ASSUME TypeOK, OrderMatchesBuffers, WorkerNext
  PROVE  TypeOK' /\ OrderMatchesBuffers'
<1>1. /\ StreamTypeOK /\ FaultsTypeOK /\ AggregatorTypeOK /\ WorkerTypeOK
      /\ MaxFaults \in Nat /\ MaxScore \in Nat /\ WorkerOnly
  BY MaxFaultsAssumption, WorkerAssumption DEF TypeOK, WorkerNext
<1>2. Fault => FaultsTypeOK'
  BY <1>1 DEF Fault, FaultsTypeOK
<1>3. UNCHANGED faults => FaultsTypeOK'
  BY <1>1 DEF FaultsTypeOK
<1>4. UNCHANGED streamVars => StreamTypeOK' /\ Positions' = Positions
  BY <1>1, StreamFrame
<1>5. UNCHANGED aggregatorVars => AggregatorTypeOK' /\ OrderMatchesBuffers'
  BY <1>1, AggregatorFrame
<1>6. batch \subseteq Nat /\ Len(stream) \in Nat
  BY <1>1 DEF WorkerTypeOK, StreamTypeOK, Positions
<1>7. ASSUME Read
      PROVE  TypeOK' /\ OrderMatchesBuffers'
  <2>1. PICK last \in Undelivered : /\ XReadGroup(last, ReadCount)
                                   /\ batch' = ReadUpTo(last)
    BY <1>7 DEF Read
  <2>2. StreamTypeOK' /\ batch' \subseteq Positions'
    BY <2>1, <1>1, XReadGroupDelivers DEF Positions
  <2>3. WorkerTypeOK'
    BY <2>2, <1>1, <1>7 DEF WorkerTypeOK, Read
  <2> QED BY <1>1, <2>2, <2>3, <1>3, <1>5, <1>7, WorkerTypeFrame DEF Read
<1>8. ASSUME NEW i \in batch, Ingest(i)
      PROVE  TypeOK' /\ OrderMatchesBuffers'
  <2>1. i \in Nat /\ SidOf(i) \in Sessions
    BY <1>1, <1>6, <1>8
    DEF Ingest, IsEnvelope, SidOf, WorkerTypeOK, StreamTypeOK, Entry, Envelope,
        Positions
  <2>2. IngestEvent(SidOf(i), i)
    BY <1>8 DEF Ingest
  <2>3. AggregatorTypeOK' /\ OrderMatchesBuffers'
    BY <2>1, <2>2, <1>1, IngestEventKeys
  <2>4. StreamTypeOK' /\ Positions' = Positions /\ FaultsTypeOK'
    BY <1>3, <1>4, <1>8 DEF Ingest
  <2>5. /\ pendingIds \in [Sessions -> SUBSET Nat]
        /\ buffer[SidOf(i)] \subseteq Nat /\ pendingIds[SidOf(i)] \subseteq Nat
        /\ flush \in Flush \cup {NoFlush}
    BY <2>1, <1>1 DEF WorkerTypeOK, AggregatorTypeOK
  <2>6. NewFlush(SidOf(i), pendingIds[SidOf(i)] \cup {i},
                 buffer[SidOf(i)] \cup {i}) \in Flush
    BY <2>1, <2>5, <1>1 DEF NewFlush, Flush, Score
  <2>7. flush' \in Flush \cup {NoFlush} /\ pendingIds' \in [Sessions -> SUBSET Nat]
    BY <2>1, <2>5, <2>6, <1>8 DEF Ingest
  <2>8. WorkerTypeOK'
    BY <2>4, <2>7, <1>1, <1>8 DEF WorkerTypeOK, Ingest
  <2> QED BY <1>1, <2>3, <2>4, <2>8, WorkerTypeFrame
<1>9. ASSUME NEW i \in batch, DropBad(i)
      PROVE  TypeOK' /\ OrderMatchesBuffers'
  <2>1. {i} \in SUBSET Nat /\ forgotten \subseteq Nat
    BY <1>1, <1>6 DEF WorkerTypeOK
  <2>2. /\ StreamTypeOK' /\ FaultsTypeOK' /\ forgotten' \subseteq Nat
        /\ Positions' = Positions
    BY <2>1, <1>1, <1>9, AckOrForgetType DEF DropBad
  <2>3. WorkerTypeOK'
    BY <2>2, <1>1, <1>9 DEF WorkerTypeOK, DropBad
  <2> QED BY <1>1, <2>2, <2>3, <1>5, <1>9, WorkerTypeFrame DEF DropBad
<1>10. ASSUME NEW n \in 1..Len(order), DrainIdle(n)
       PROVE  TypeOK' /\ OrderMatchesBuffers'
  <2>1. AggregatorTypeOK' /\ OrderMatchesBuffers'
    BY <1>1, <1>10, PopOldestKeys DEF DrainIdle
  <2>2. StreamTypeOK' /\ Positions' = Positions /\ FaultsTypeOK'
    BY <1>3, <1>4, <1>10 DEF DrainIdle
  <2>3. drained' \in Seq(Sessions)
    BY <1>1, <1>10 DEF DrainIdle, AggregatorTypeOK
  <2>4. popped' \in [Sessions -> SUBSET Nat]
    BY <1>1, <1>10 DEF DrainIdle, AggregatorTypeOK
  <2>5. WorkerTypeOK'
    BY <2>2, <2>3, <2>4, <1>1, <1>10 DEF WorkerTypeOK, DrainIdle
  <2> QED BY <1>1, <2>1, <2>2, <2>5, WorkerTypeFrame
<1>11. ASSUME FlushDrained
       PROVE  TypeOK' /\ OrderMatchesBuffers'
  <2>1. StreamTypeOK' /\ Positions' = Positions /\ FaultsTypeOK'
    BY <1>3, <1>4, <1>11 DEF FlushDrained
  <2>2. /\ Head(drained) \in Sessions /\ Tail(drained) \in Seq(Sessions)
        /\ pendingIds \in [Sessions -> SUBSET Nat]
        /\ popped \in [Sessions -> SUBSET Nat]
    BY <1>1, <1>11 DEF FlushDrained, WorkerTypeOK
  <2>3. flush' \in Flush
    BY <2>2, <1>1, <1>11 DEF FlushDrained, NewFlush, Flush, Score
  <2>4. WorkerTypeOK'
    BY <2>1, <2>2, <2>3, <1>1, <1>11 DEF WorkerTypeOK, FlushDrained
  <2> QED BY <1>1, <2>1, <2>4, <1>5, <1>11, WorkerTypeFrame DEF FlushDrained
<1>12. ASSUME Persist
       PROVE  TypeOK' /\ OrderMatchesBuffers'
  <2>1. StreamTypeOK' /\ Positions' = Positions /\ FaultsTypeOK'
    BY <1>3, <1>4, <1>12 DEF Persist
  <2>2. flush \in Flush
    BY <1>1, <1>12, FlushType DEF Persist, At
  <2>3. PICK score \in Score :
          /\ threat' = [threat EXCEPT ![flush.sid] = score]
          /\ flush' = [flush EXCEPT !.next = "alert", !.score = score]
    BY <1>12, PersistScores
  <2>4. flush' \in Flush
    BY <2>2, <2>3, FlushMoves
  <2>5. threat' \in [Sessions -> Score]
    BY <2>3, <1>1 DEF WorkerTypeOK
  <2>6. flush.evs \subseteq Nat /\ flush.sid \in Sessions
    BY <2>2 DEF Flush
  <2>7. fp' \in [Sessions -> SUBSET Nat] /\ enriched' \subseteq Nat
    BY <2>6, <1>1, <1>12 DEF Persist, WorkerTypeOK
  <2>8. WorkerTypeOK'
    BY <2>1, <2>4, <2>5, <2>7, <1>1, <1>12 DEF WorkerTypeOK, Persist
  <2> QED BY <1>1, <2>1, <2>8, <1>5, <1>12, WorkerTypeFrame DEF Persist
<1>13. ASSUME PersistFails
       PROVE  TypeOK' /\ OrderMatchesBuffers'
  <2>1. StreamTypeOK' /\ Positions' = Positions /\ FaultsTypeOK'
    BY <1>2, <1>4, <1>13 DEF PersistFails
  <2>2. flush \in Flush
    BY <1>1, <1>13, FlushType DEF PersistFails, At
  <2>3. forgotten' \subseteq Nat
    BY <2>2, <1>1, <1>13 DEF PersistFails, WorkerTypeOK, Flush
  <2>4. WorkerTypeOK'
    BY <2>1, <2>3, <1>1, <1>13 DEF WorkerTypeOK, PersistFails
  <2> QED BY <1>1, <2>1, <2>4, <1>5, <1>13, WorkerTypeFrame DEF PersistFails
<1>14. ASSUME PublishAlert
       PROVE  TypeOK' /\ OrderMatchesBuffers'
  <2>1. StreamTypeOK' /\ Positions' = Positions /\ FaultsTypeOK'
    BY <1>2, <1>3, <1>4, <1>14 DEF PublishAlert
  <2>2. flush \in Flush
    BY <1>1, <1>14, FlushType DEF PublishAlert, At
  <2>3. flush' \in Flush
    <3>1. flush' = [flush EXCEPT !.next = "report"] /\ 0 \in Score
      BY <1>1, <1>14 DEF PublishAlert, Score
    <3> QED BY <3>1, <2>2, FlushMoves
  <2>4. alerts' \in [Sessions -> Nat]
    <3>1. \/ alerts' = [alerts EXCEPT ![flush.sid] = @ + 1]
          \/ alerts' = alerts
      BY <1>14 DEF PublishAlert
    <3>2. alerts \in [Sessions -> Nat]
      BY <1>1 DEF WorkerTypeOK
    <3> QED BY <3>1, <3>2
  <2>5. WorkerTypeOK'
    BY <2>1, <2>3, <2>4, <1>1, <1>14 DEF WorkerTypeOK, PublishAlert
  <2> QED BY <1>1, <2>1, <2>5, <1>5, <1>14, WorkerTypeFrame DEF PublishAlert
<1>15. ASSUME PublishReport
       PROVE  TypeOK' /\ OrderMatchesBuffers'
  <2>1. StreamTypeOK' /\ Positions' = Positions /\ FaultsTypeOK'
    BY <1>2, <1>3, <1>4, <1>15 DEF PublishReport
  <2>2. flush \in Flush
    BY <1>1, <1>15, FlushType DEF PublishReport, At
  <2>3. flush' \in Flush
    <3>1. flush' = [flush EXCEPT !.next = "ack"] /\ 0 \in Score
      BY <1>1, <1>15 DEF PublishReport, Score
    <3> QED BY <3>1, <2>2, FlushMoves
  <2>4. reports' \in [Sessions -> Nat]
    <3>1. \/ reports' = [reports EXCEPT ![flush.sid] = @ + 1]
          \/ reports' = reports
      BY <1>15 DEF PublishReport
    <3>2. reports \in [Sessions -> Nat]
      BY <1>1 DEF WorkerTypeOK
    <3> QED BY <3>1, <3>2
  <2>5. WorkerTypeOK'
    BY <2>1, <2>3, <2>4, <1>1, <1>15 DEF WorkerTypeOK, PublishReport
  <2> QED BY <1>1, <2>1, <2>5, <1>5, <1>15, WorkerTypeFrame DEF PublishReport
<1>16. ASSUME AckFlush
       PROVE  TypeOK' /\ OrderMatchesBuffers'
  <2>1. flush \in Flush
    BY <1>1, <1>16, FlushType DEF AckFlush, At
  <2>2. flush.ids \in SUBSET Nat /\ forgotten \subseteq Nat
    BY <2>1, <1>1 DEF Flush, WorkerTypeOK
  <2>3. /\ StreamTypeOK' /\ FaultsTypeOK' /\ forgotten' \subseteq Nat
        /\ Positions' = Positions
    BY <2>2, <1>1, <1>16, AckOrForgetType DEF AckFlush
  <2>4. WorkerTypeOK'
    BY <2>3, <1>1, <1>16 DEF WorkerTypeOK, AckFlush
  <2> QED BY <1>1, <2>3, <2>4, <1>5, <1>16, WorkerTypeFrame DEF AckFlush
<1>17. ASSUME Crash
       PROVE  TypeOK' /\ OrderMatchesBuffers'
  <2>1. StreamTypeOK' /\ Positions' = Positions /\ FaultsTypeOK'
    BY <1>2, <1>4, <1>17 DEF Crash
  <2>2. InMemory \subseteq Nat
    BY <1>1, <1>6, InMemoryType
  <2>3. WorkerTypeOK'
    <3>1. NoBuffers \in [Sessions -> SUBSET Nat] /\ <<>> \in Seq(Sessions)
      BY DEF NoBuffers
    <3>2. forgotten' \subseteq Nat
      BY <2>2, <1>1, <1>17 DEF WorkerTypeOK, Crash
    <3> QED BY <3>1, <3>2, <1>1, <1>17 DEF WorkerTypeOK, Crash
  <2>4. /\ order' = <<>> /\ buffer' = NoBuffers /\ evicted' = evicted
        /\ MaxBuffers \in Nat
    BY <1>17, AggregatorAssumption DEF Crash
  <2>5. AggregatorTypeOK' /\ OrderMatchesBuffers'
    BY <2>4, <1>1
    DEF AggregatorTypeOK, OrderMatchesBuffers, Holds, NoDuplicates, NoBuffers
  <2> QED BY <1>1, <2>1, <2>3, <2>5, WorkerTypeFrame
<1>18. ASSUME Restart
       PROVE  TypeOK' /\ OrderMatchesBuffers'
  <2>1. StreamTypeOK' /\ Positions' = Positions /\ FaultsTypeOK'
    BY <1>3, <1>4, <1>18 DEF Restart
  <2>2. WorkerTypeOK'
    BY <2>1, <1>1, <1>18 DEF WorkerTypeOK, Restart
  <2> QED BY <1>1, <2>1, <2>2, <1>5, <1>18, WorkerTypeFrame DEF Restart
<1>19. ASSUME ReplyLost
       PROVE  TypeOK' /\ OrderMatchesBuffers'
  <2>1. PICK last \in Undelivered :
          /\ XReadGroup(last, ReadCount)
          /\ forgotten' = forgotten \cup ReadUpTo(last)
    BY <1>19 DEF ReplyLost
  <2>2. StreamTypeOK' /\ Positions' = Positions /\ ReadUpTo(last) \subseteq Nat
    BY <2>1, <1>1, XReadGroupDelivers DEF Positions
  <2>3. WorkerTypeOK'
    BY <2>1, <2>2, <1>1, <1>19 DEF WorkerTypeOK, ReplyLost
  <2> QED BY <1>1, <2>2, <2>3, <1>2, <1>5, <1>19, WorkerTypeFrame DEF ReplyLost
<1> QED
  BY <1>7, <1>8, <1>9, <1>10, <1>11, <1>12, <1>13, <1>14, <1>15, <1>16, <1>17,
     <1>18, <1>19
  DEF WorkerNext

LEMMA TypeInit == Init => TypeOK /\ OrderMatchesBuffers
<1> SUFFICES ASSUME Init PROVE TypeOK /\ OrderMatchesBuffers
  OBVIOUS
<1> USE DEF Init
<1>1. StreamTypeOK
  BY DEF StreamInit, StreamTypeOK
<1>2. FaultsTypeOK
  BY MaxFaultsAssumption DEF FaultsInit, FaultsTypeOK
<1>3. ManagerTypeOK
  BY DEF ManagerInit, ManagerTypeOK, ListenerState
<1>4. AggregatorTypeOK /\ OrderMatchesBuffers
  BY AggregatorAssumption
  DEF AggregatorInit, AggregatorTypeOK, OrderMatchesBuffers, NoBuffers, Holds,
      NoDuplicates
<1>5. WorkerTypeOK
  BY WorkerAssumption
  DEF WorkerInit, WorkerTypeOK, NoBuffers, NoRow, Score, Positions
<1> QED BY <1>1, <1>2, <1>3, <1>4, <1>5 DEF TypeOK

LEMMA TypeStep ==
  ASSUME TypeOK, OrderMatchesBuffers, [Next]_vars
  PROVE  TypeOK' /\ OrderMatchesBuffers'
<1>1. CASE UNCHANGED vars
  <2>1. UNCHANGED <<streamVars, managerVars, aggregatorVars, workerVars, faults>>
    BY <1>1 DEF vars
  <2>2. StreamTypeOK' /\ Positions' = Positions
    BY <2>1, StreamFrame DEF TypeOK
  <2>3. FaultsTypeOK' /\ ManagerTypeOK'
    BY <2>1 DEF TypeOK, FaultsTypeOK, ManagerTypeOK, managerVars
  <2>4. AggregatorTypeOK' /\ OrderMatchesBuffers'
    BY <2>1, AggregatorFrame DEF TypeOK
  <2>5. WorkerTypeOK'
    BY <2>1, <2>2 DEF TypeOK, WorkerTypeOK, workerVars
  <2> QED BY <2>2, <2>3, <2>4, <2>5 DEF TypeOK
<1>2. CASE Next
  BY <1>2, NextSplits, ListenerTypeStep, WorkerTypeStep
<1> QED BY <1>1, <1>2

(* Every variable keeps its type, and the aggregator's dictionary and its  *)
(* buffers never come apart (aggregator.py: ingest, drain_idle, eviction). *)
THEOREM TypeCorrect == Spec => []TypeOK
<1>1. Init => TypeOK /\ OrderMatchesBuffers
  BY TypeInit
<1>2. (TypeOK /\ OrderMatchesBuffers) /\ [Next]_vars
        => (TypeOK /\ OrderMatchesBuffers)'
  BY TypeStep
<1> QED BY <1>1, <1>2, PTL DEF Spec

THEOREM OrderCorrect == Spec => []OrderMatchesBuffers
<1>1. Init => TypeOK /\ OrderMatchesBuffers
  BY TypeInit
<1>2. (TypeOK /\ OrderMatchesBuffers) /\ [Next]_vars
        => (TypeOK /\ OrderMatchesBuffers)'
  BY TypeStep
<1> QED BY <1>1, <1>2, PTL DEF Spec
==============================================================================
