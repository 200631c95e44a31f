------------------------------- MODULE WarmUp -------------------------------
(***************************************************************************)
(* Prefix warm-up (prefix/profiler.go, quota.go, warmup.go) as server/     *)
(* api.go uses it: a real request takes a token of its prefix's bucket     *)
(* before the upstream call and is observed after it; a scheduler walks,   *)
(* every tick, a copy of the profiler's records and sends a warm-up for    *)
(* every hot and idle prefix, within a reserve and a global cap.           *)
(*                                                                         *)
(* A prefix is the fingerprint of a request (prefix/fingerprint.go); the   *)
(* messages of a record are whatever its last request had.  Bucket levels  *)
(* are in units, Token of them being one token.                            *)
(***************************************************************************)
EXTENDS Integers, FiniteSets

CONSTANTS
    Fingerprints,
    MaxProfiles,            \* of the profiler
    Rpm, Token, Reserve, Refill,   \* units: capacity, one token, rpm * warmReserve,
                                   \* and what a step of the clock adds
    TriggerReq, IdleAfter, CapPercent,  \* of WarmupConfig
    MaxWarmPerTick,
    Prompts,               \* prompt tokens of requests
    MaxReal, MaxWarm, MaxClock          \* bounds

ASSUME WarmAssumption ==
    /\ IsFiniteSet(Fingerprints) /\ MaxProfiles \in Nat \ {0}
    /\ Rpm \in Nat /\ Token \in 1..Rpm /\ Reserve \in 0..Rpm /\ Refill \in 0..Rpm
    /\ TriggerReq \in Nat /\ IdleAfter \in Nat /\ CapPercent \in 1..100
    /\ MaxWarmPerTick \in Nat \ {0}
    /\ Prompts \subseteq Nat \ {0} /\ Prompts # {} /\ IsFiniteSet(Prompts)
    /\ {MaxReal, MaxWarm, MaxClock} \subseteq Nat

VARIABLES
    clock,
    records,       \* the profiler's records: prefix -> requests and last access
    accessed,      \* history: prefix -> its last access ever
    underWay,       \* real requests between RealRequest and ObserveFull
    reals,         \* how many there were
    bucket,        \* QuotaCoordinator: prefix -> units
    drawn,         \* history: real requests since the bucket was above the reserve
    candidates,    \* what is left of the copy that Tick walks
    warmed,        \* of this tick
    warming,       \* the prefix of the warm-up under way: at most one
    warmTokens, totalInput,    \* prompt tokens of warm-ups and of real requests
    warmRequests

profile == <<records, accessed, underWay, reals, totalInput>>
quota == <<bucket, drawn>>
scheduler == <<candidates, warmed, warming, warmTokens, warmRequests>>
warmVars == <<clock, profile, quota, scheduler>>

\* 0 stands for a prefix without a record.
Untracked == [count |-> 0, last |-> 0]
Tracked(rs) == {f \in Fingerprints : rs[f].count > 0}

WarmInit ==
    /\ clock = 1
    /\ records = [f \in Fingerprints |-> Untracked] /\ accessed = [f \in Fingerprints |-> 0]
    /\ underWay = {} /\ reals = 0 /\ totalInput = 0
    /\ bucket = [f \in Fingerprints |-> Rpm] /\ drawn = [f \in Fingerprints |-> 0]
    /\ candidates = {} /\ warmed = 0 /\ warming = {} /\ warmTokens = 0 /\ warmRequests = 0

\* history: the reserve is whole again, or the real request counted.
Drawn(f, level, real) == [drawn EXCEPT ![f] = IF level > Reserve THEN 0 ELSE @ + real]

\* quotaBucket.refill, which happens on access in the code.
Elapse ==
    /\ clock < MaxClock /\ clock' = clock + 1
    /\ bucket' = [f \in Fingerprints |-> IF bucket[f] + Refill > Rpm THEN Rpm ELSE bucket[f] + Refill]
    /\ drawn' = [f \in Fingerprints |-> IF bucket'[f] > Reserve THEN 0 ELSE drawn[f]]
    /\ UNCHANGED <<profile, scheduler>>

\* RealRequest takes a token if there is any part of one.
RealRequest(f) ==
    /\ reals < MaxReal /\ f \notin underWay
    /\ underWay' = underWay \cup {f} /\ reals' = reals + 1
    /\ bucket' = [bucket EXCEPT ![f] = IF @ > 0 THEN @ - Token ELSE @]
    /\ drawn' = Drawn(f, bucket'[f], 1)
    /\ UNCHANGED <<clock, records, accessed, totalInput, scheduler>>

RequestFails(f) ==
    /\ f \in underWay /\ underWay' = underWay \ {f}
    /\ UNCHANGED <<clock, records, accessed, reals, totalInput, quota, scheduler>>

\* Faulty variants: the eviction looks for the least used record, and the reserve
\* is not kept.
EvictLeastUsed(rs) ==
    IF Cardinality(Tracked(rs)) <= MaxProfiles THEN rs
    ELSE LET oldest == CHOOSE f \in Tracked(rs) : \A g \in Tracked(rs) : rs[f].count <= rs[g].count
         IN  [rs EXCEPT ![oldest] = Untracked]

\* evictIfNeededLocked; there is one record too many at most.
EvictIfNeeded(rs) ==
    IF Cardinality(Tracked(rs)) <= MaxProfiles THEN rs
    ELSE LET oldest == CHOOSE f \in Tracked(rs) : \A g \in Tracked(rs) : rs[f].last <= rs[g].last
         IN  [rs EXCEPT ![oldest] = Untracked]

\* RecordTokensFull and ObserveFull, each at a time of its own.
Observe(f) ==
    /\ f \in underWay /\ underWay' = underWay \ {f}
    /\ clock < MaxClock /\ clock' = clock + 1
    /\ records' = EvictIfNeeded([records EXCEPT ![f] = [count |-> @.count + 1, last |-> clock]])
    /\ accessed' = [accessed EXCEPT ![f] = clock]
    /\ \E p \in Prompts : totalInput' = totalInput + p
    /\ UNCHANGED <<reals, quota, scheduler>>

-----------------------------------------------------------------------------
\* Tick takes a copy of the records; hotEnough and the idle time are judged on it
\* and on the time of the tick.
Tick ==
    /\ candidates = {} /\ warming = {} /\ warmRequests < MaxWarm
    /\ candidates' = {f \in Tracked(records) : /\ records[f].count >= TriggerReq
                                               /\ clock - records[f].last >= IdleAfter}
    /\ warmed' = 0
    /\ UNCHANGED <<clock, profile, quota, warming, warmTokens, warmRequests>>

WithinGlobalCap == totalInput = 0 \/ 100 * warmTokens <= CapPercent * totalInput

\* The tick ends early, at the cap or after MaxWarmPerTick warm-ups.
StopTick ==
    /\ candidates # {} /\ warming = {}
    /\ ~WithinGlobalCap \/ warmed >= MaxWarmPerTick
    /\ candidates' = {}
    /\ UNCHANGED <<clock, profile, quota, warmed, warming, warmTokens, warmRequests>>

MayWarm(f) == f \in candidates /\ warming = {} /\ warmed < MaxWarmPerTick /\ WithinGlobalCap

WarmAllowedToZero(f) == bucket[f] >= Token
WarmAllowed(f) == bucket[f] > Reserve /\ bucket[f] >= Token

\* No affinity (external: the router may answer "" at any time), or no quota.
Skip(f) ==
    /\ MayWarm(f) /\ candidates' = candidates \ {f}
    /\ UNCHANGED <<clock, profile, quota, warmed, warming, warmTokens, warmRequests>>

StartWarmUp(f) ==
    /\ MayWarm(f) /\ WarmAllowed(f)
    /\ candidates' = candidates \ {f} /\ warming' = {f}
    /\ bucket' = [bucket EXCEPT ![f] = @ - Token]
    /\ drawn' = Drawn(f, bucket'[f], 0)
    /\ UNCHANGED <<clock, profile, warmed, warmTokens, warmRequests>>

WarmUpDone(f) ==
    /\ f \in warming /\ warming' = {}
    /\ \E p \in Prompts \cup {0} : warmTokens' = warmTokens + p
    /\ warmed' = warmed + 1 /\ warmRequests' = warmRequests + 1
    /\ UNCHANGED <<clock, profile, quota, candidates>>

\* The token is not given back.
WarmUpFails(f) ==
    /\ f \in warming /\ warming' = {}
    /\ UNCHANGED <<clock, profile, quota, candidates, warmed, warmTokens, warmRequests>>

WarmNext ==
    \/ Elapse \/ Tick \/ StopTick
    \/ \E f \in Fingerprints : \/ RealRequest(f) \/ RequestFails(f) \/ Observe(f)
                               \/ Skip(f) \/ StartWarmUp(f) \/ WarmUpDone(f) \/ WarmUpFails(f)

WarmSpec == WarmInit /\ [][WarmNext]_warmVars
-----------------------------------------------------------------------------
(***************************************************************************)
(* The profiler keeps MaxProfiles records at most, and they are those of   *)
(* the prefixes observed last, in whatever order the requests end.         *)
(***************************************************************************)
KeepsTheMostRecent ==
    /\ Cardinality(Tracked(records)) <= MaxProfiles
    /\ \A f \in Tracked(records) : records[f].last = accessed[f]
    /\ \A f \in Tracked(records), g \in Fingerprints \ Tracked(records) : accessed[g] < accessed[f]

(***************************************************************************)
(* Warm-ups never starve real traffic.  A bucket that is below the reserve *)
(* (by more than one warm-up) was emptied by that many real requests,      *)
(* whatever ticks, refills and failing warm-ups came between; and the      *)
(* prompt tokens of warm-ups stay within CapPercent of those of the real   *)
(* requests, plus one warm-up, though a tick sends several.                *)
(***************************************************************************)
ReserveIsForRealRequests ==
    /\ \A f \in Fingerprints : /\ bucket[f] > Reserve - Token - Token * drawn[f]
                               /\ bucket[f] > -Token /\ bucket[f] <= Rpm
    /\ \A m \in Prompts : (\A p \in Prompts : p <= m) =>
         100 * warmTokens <= CapPercent * totalInput + 100 * m
=============================================================================
