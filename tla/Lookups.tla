------------------------------ MODULE Lookups ------------------------------
(***************************************************************************)
(* AbuseIPDB answers so many requests a day.  The fingerprint workers ask  *)
(* it about the addresses they see (workers/intel/abuseipdb.py), through a *)
(* cache and a counter in Redis, any call of which may fail; a lookup has  *)
(* steps of its own between which other workers, and midnight, come.       *)
(***************************************************************************)
EXTENDS Integers, FiniteSets, Sequences

CONSTANTS
  Workers, Addresses,
  DailyQuota,
  MaxDay,         \* bound: the last day
  MaxLookups,     \* bound: the lookups made
  LookupFaults    \* bound: calls of Redis that fail

ASSUME LookupsAssumption ==
  /\ IsFiniteSet(Workers)
  /\ DailyQuota \in Nat
  /\ MaxDay \in Nat /\ MaxLookups \in Nat /\ LookupFaults \in Nat

VARIABLES
  day,       \* the UTC day
  quota,     \* abuseipdb:quota:{day}
  records,   \* the addresses with a record in the cache
  lookup,    \* what each worker is about
  queries,   \* the requests sent: for which day they were reserved, if they were
  checks,    \* how many lookups there have been
  trouble    \* how many calls of Redis have failed

lookupVars == <<day, quota, records, lookup, queries, checks, trouble>>

Days == 0..MaxDay
Untracked == -1
AtRest == [at |-> "rest", ip |-> "none", reserved |-> Untracked]

LookupsInit ==
  /\ day = 0
  /\ quota = [d \in Days |-> 0]
  /\ records = {}
  /\ lookup = [w \in Workers |-> AtRest]
  /\ queries = <<>>
  /\ checks = 0
  /\ trouble = 0

RedisFails == trouble < LookupFaults /\ trouble' = trouble + 1
RedisAnswers == UNCHANGED trouble

Working(w, at) == lookup[w].at = at
Proceed(w, new) == lookup' = [lookup EXCEPT ![w] = new]

(* check(): _cache_get().  A failure is a miss.                            *)
CacheGet(w, ip) ==
  /\ Working(w, "rest") /\ checks < MaxLookups
  /\ checks' = checks + 1
  /\ \/ ip \in records /\ RedisAnswers /\ UNCHANGED lookup
     \/ /\ (ip \notin records /\ RedisAnswers) \/ RedisFails
        /\ Proceed(w, [AtRest EXCEPT !.at = "reserve", !.ip = ip])
  /\ UNCHANGED <<day, quota, records, queries>>

(* Mutant: the count from before the increment is compared.                *)
BeforeIncrement(count) == count - 1 <= DailyQuota
WithinQuota(count) == count <= DailyQuota

(* _quota_reserve(): INCR of the day's key, one call.                      *)
QuotaReserve(w) ==
  /\ Working(w, "reserve")
  /\ quota' = [quota EXCEPT ![day] = @ + 1]
  /\ Proceed(w, IF WithinQuota(quota'[day])
                THEN [lookup[w] EXCEPT !.at = "fetch", !.reserved = day] ELSE AtRest)
  /\ UNCHANGED <<day, records, queries, checks, trouble>>

(* Without its counter the request is sent.  The key may have been         *)
(* incremented before the connection broke.                                *)
QuotaFails(w) ==
  /\ Working(w, "reserve")
  /\ RedisFails
  /\ \E n \in 0..1 : quota' = [quota EXCEPT ![day] = @ + n]
  /\ Proceed(w, [lookup[w] EXCEPT !.at = "fetch"])
  /\ UNCHANGED <<day, records, queries, checks>>

(* _fetch(): without a record the unit reserved is used all the same.      *)
Fetch(w) ==
  /\ Working(w, "fetch")
  /\ queries' = Append(queries, [on |-> day, reserved |-> lookup[w].reserved])
  /\ \/ Proceed(w, [lookup[w] EXCEPT !.at = "store"])
     \/ Proceed(w, AtRest)
  /\ UNCHANGED <<day, quota, records, checks, trouble>>

CacheSet(w) ==
  /\ Working(w, "store")
  /\ \/ RedisAnswers /\ records' = records \cup {lookup[w].ip}
     \/ RedisFails /\ UNCHANGED records
  /\ Proceed(w, AtRest)
  /\ UNCHANGED <<day, quota, queries, checks>>

RecordExpires(ip) ==
  /\ ip \in records
  /\ records' = records \ {ip}
  /\ UNCHANGED <<day, quota, lookup, queries, checks, trouble>>

Midnight ==
  /\ day < MaxDay
  /\ day' = day + 1
  /\ UNCHANGED <<quota, records, lookup, queries, checks, trouble>>

LookupsNext ==
  \/ \E w \in Workers :
       \/ \E ip \in Addresses : CacheGet(w, ip)
       \/ QuotaReserve(w) \/ QuotaFails(w) \/ Fetch(w) \/ CacheSet(w)
  \/ \E ip \in Addresses : RecordExpires(ip)
  \/ Midnight

--------------------------------------------------------------------------
Sent(d, reserved) ==
  Cardinality({i \in DOMAIN queries :
                 queries[i].on = d /\ queries[i].reserved \in reserved})

(* On no day more requests are sent than the quota, those not counted      *)
(* because Redis had failed, and those that had been reserved before       *)
(* midnight, no more than one for each worker.                             *)
QuotaKept ==
  \A d \in Days :
    /\ Sent(d, Days) <= DailyQuota + Cardinality(Workers)
    /\ Sent(d, {d}) <= DailyQuota
    /\ Sent(d, {Untracked}) <= trouble
    /\ Sent(d, 0..(d - 1)) <= Cardinality(Workers)
=============================================================================
