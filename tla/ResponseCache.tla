---------------------------- MODULE ResponseCache ----------------------------
(***************************************************************************)
(* cache/cache.go: the in-memory response cache, entries with an expiry    *)
(* time each and a capacity.  Every operation runs under the lock and is   *)
(* one action; Get changes nothing and is the predicate Hit.  Time is      *)
(* discrete and bounded by MaxTime; no entry is written that would expire  *)
(* later.                                                                  *)
(***************************************************************************)
EXTENDS Naturals, FiniteSets

CONSTANTS CacheKeys, MaxSize, TTLs, MaxTime

ASSUME CacheAssumption ==
    /\ IsFiniteSet(CacheKeys)    \* the requests a process has seen
    /\ MaxSize \in Nat \ {0}
    /\ MaxTime \in Nat
    /\ TTLs \subseteq Nat \ {0}

VARIABLES
    expires,    \* expires[k]: ExpiresAt of the entry of k; no entry: Absent
    now

cacheVars == <<expires, now>>

Absent == 0     \* no entry expires at time 0, since every TTL is positive
Present == {k \in CacheKeys : expires[k] # Absent}
Expired(k) == now > expires[k]
Hit(k) == k \in Present /\ ~Expired(k)     \* Get returns the value

CacheInit ==
    /\ expires = [k \in CacheKeys |-> Absent]
    /\ now = 0

\* The entries that SetWithTTL may pick as the one that expires first.
Oldest == {k \in Present : \A j \in Present : expires[k] <= expires[j]}

\* Faulty variants, for checking that the properties can fail: the capacity
\* test off by one, any entry as the victim, and the ticker deleting the entries
\* that are still good.
SetAboveCapacity(k, ttl) ==
    /\ now + ttl <= MaxTime
    /\ \E victim \in IF Cardinality(Present) > MaxSize THEN Oldest ELSE {k} :
         expires' = [expires EXCEPT ![victim] = Absent, ![k] = now + ttl]
    /\ UNCHANGED now

SetForAnyVictim(k, ttl) ==
    /\ now + ttl <= MaxTime
    /\ \E victim \in IF Cardinality(Present) >= MaxSize THEN Present ELSE {k} :
         expires' = [expires EXCEPT ![victim] = Absent, ![k] = now + ttl]
    /\ UNCHANGED now

EvictUnexpired ==
    /\ expires' = [k \in CacheKeys |-> IF Hit(k) THEN Absent ELSE expires[k]]
    /\ UNCHANGED now

SetWithTTL(k, ttl) ==
    /\ now + ttl <= MaxTime
    /\ \E victim \in IF Cardinality(Present) >= MaxSize THEN Oldest ELSE {k} :
         expires' = [expires EXCEPT ![victim] = Absent, ![k] = now + ttl]
    /\ UNCHANGED now

EvictExpired ==
    /\ expires' = [k \in CacheKeys |->
                     IF k \in Present /\ Expired(k) THEN Absent ELSE expires[k]]
    /\ UNCHANGED now

Tick ==
    /\ now <= MaxTime
    /\ now' = now + 1
    /\ UNCHANGED expires

CacheNext ==
    \/ \E k \in CacheKeys, ttl \in TTLs : SetWithTTL(k, ttl)
    \/ EvictExpired
    \/ Tick

CacheSpec == CacheInit /\ [][CacheNext]_cacheVars

\* Time passes, and evictLoop's ticker keeps firing.
CacheFairness == WF_cacheVars(Tick) /\ WF_cacheVars(EvictExpired)

FairCacheSpec == CacheSpec /\ CacheFairness
-----------------------------------------------------------------------------
CacheTypeOK ==
    /\ expires \in [CacheKeys -> 0..MaxTime]
    /\ now \in 0..(MaxTime + 1)

(***************************************************************************)
(* SetWithTTL evicts before it inserts, so the cache never grows past its  *)
(* capacity, whatever mix of new keys, overwritten keys and expired        *)
(* entries it holds.                                                       *)
(***************************************************************************)
WithinCapacity == Cardinality(Present) <= MaxSize

(***************************************************************************)
(* An entry that could still be served is given up only to a write into a  *)
(* full cache, one entry for one write, and only if it expires no later    *)
(* than every entry that stays: a 30-minute entry of a hot prefix is not   *)
(* given up for a 5-minute one.                                            *)
(***************************************************************************)
LosesOnlyTheNextToExpire ==
    [][LET lost == {j \in CacheKeys : Hit(j) /\ expires'[j] = Absent} IN
         /\ Cardinality(lost) <= 1
         /\ lost # {} => Cardinality(Present) = MaxSize
         /\ \A j \in lost, i \in Present :
              expires'[i] = expires[i] => expires[j] <= expires[i]]_cacheVars

(***************************************************************************)
(* The memory of an expired entry comes back: the ticker removes it, or a  *)
(* write takes its place.                                                  *)
(***************************************************************************)
ExpiredEntriesLeave ==
    \A k \in CacheKeys :
        k \in Present /\ Expired(k) ~> ~(k \in Present /\ Expired(k))

=============================================================================
