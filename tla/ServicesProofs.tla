--------------------------- MODULE ServicesProofs ---------------------------
(***************************************************************************)
(* Proofs about the services beside a request's own path: the prober's     *)
(* health cache, the warm-up quota, the profiler's table, the sort of the  *)
(* degradation chain, the usage log with the sums and the daily quota made *)
(* from it, the reload of the configuration and the windows of the SLO     *)
(* monitor.                                                                *)
(* They share no state; each theorem is about the specification of one of  *)
(* the modules below, by its own inductive invariant.                      *)
(***************************************************************************)
EXTENDS CostLedger, WarmUp, SloMonitor, DegradationOrder, HotReload, Sums,
        FiniteSetTheorems, SequenceTheorems, WellFoundedInduction, TLAPS

-----------------------------------------------------------------------------
(***************************************************************************)
(* The health cache of DegradationOrder.  A result belongs to a round that *)
(* every probe under way shares and that no stored result is newer than:   *)
(* what wg.Wait before the next round is for.                              *)
(***************************************************************************)
Results == [round : Nat, healthy : BOOLEAN, latency : Nat]
Probes == [of : Pool, round : Nat, result : Results]

HealthInv ==
    /\ round \in Nat /\ probes \subseteq Probes
    /\ healthCache \in [Pool -> Results]
    /\ newest \in [Pool -> Nat]
    /\ \A g \in probes : /\ g.round = round
                         /\ g.result # Unknown => g.result.round = round
    /\ \A p \in Pool : healthCache[p].round = newest[p] /\ newest[p] <= round

\* OrderInit establishes HealthInv.
LEMMA InitHealth == OrderInit => HealthInv
BY DEF OrderInit, HealthInv, Results, Unknown

\* Every step of the prober keeps HealthInv; the chain does not touch it.
LEMMA NextHealth == HealthInv /\ [OrderNext]_orderVars => HealthInv'
<1> SUFFICES ASSUME HealthInv, [OrderNext]_orderVars PROVE HealthInv'
    OBVIOUS
<1> USE DEF HealthInv
<1>1. CASE Probe
    <2>1. Unknown \in Results
        BY DEF Unknown, Results
    <2>2. \A p \in Pool : [of |-> p, round |-> round', result |-> Unknown] \in Probes
        BY <1>1, <2>1 DEF Probe, Probes
    <2>3. probes' \subseteq Probes
        BY <1>1, <2>2 DEF Probe
    <2>4. \A g \in probes' : g.round = round' /\ g.result = Unknown
        BY <1>1 DEF Probe
    <2>5. round' = round + 1 /\ UNCHANGED <<healthCache, newest>>
        BY <1>1 DEF Probe
    <2> QED
        BY <2>3, <2>4, <2>5
<1>2. ASSUME NEW g \in probes, Health(g) PROVE HealthInv'
    <2>1. PICK h \in BOOLEAN, l \in Latencies :
            probes' = (probes \ {g}) \cup
                   {[g EXCEPT !.result = [round |-> g.round, healthy |-> h, latency |-> l]]}
        BY <1>2 DEF Health
    <2>2. l \in Nat
        BY OrderAssumption
    <2> DEFINE new == [g EXCEPT !.result = [round |-> g.round, healthy |-> h, latency |-> l]]
    <2>3. g \in Probes
        OBVIOUS
    <2>4. /\ new \in Probes /\ new.round = g.round
          /\ new.result.round = g.round
        BY <2>2, <2>3 DEF Probes, Results
    <2>5. probes' \subseteq probes \cup {new}
        BY <2>1
    <2> HIDE DEF new
    <2>6. UNCHANGED <<round, healthCache, newest>>
        BY <1>2 DEF Health
    <2> QED
        BY <2>4, <2>5, <2>6
<1>3. ASSUME NEW g \in probes, Gone(g) PROVE HealthInv'
    BY <1>3 DEF Gone
<1>4. ASSUME NEW g \in probes, UpdateHealth(g) PROVE HealthInv'
    <2>1. /\ g \in Probes /\ g.of \in Pool /\ g.round \in Nat
          /\ g.result \in Results
        BY DEF Probes
    <2>2. g.result.round = round /\ g.round = round
        BY <1>4 DEF UpdateHealth
    <2>3. newest[g.of] \in Nat /\ newest[g.of] <= round
        BY <2>1
    <2>6. \A x \in Results : x.round \in Nat
        BY DEF Results
    <2>4. newest' = [newest EXCEPT ![g.of] = round]
        <3>1. (IF g.round > newest[g.of] THEN g.round ELSE newest[g.of]) = round
            BY <2>2, <2>3
        <3>2. newest' = [newest EXCEPT ![g.of] = IF g.round > newest[g.of] THEN g.round
                                                 ELSE newest[g.of]]
            BY <1>4 DEF UpdateHealth
        <3> QED
            BY <3>1, <3>2
    <2>5. /\ probes' = probes \ {g} /\ round' = round
          /\ healthCache' = [healthCache EXCEPT ![g.of] = g.result]
        BY <1>4 DEF UpdateHealth
    <2>7. healthCache' \in [Pool -> Results] /\ newest' \in [Pool -> Nat]
        BY <2>1, <2>4, <2>5
    <2>8. \A p \in Pool : healthCache'[p].round = newest'[p] /\ newest'[p] <= round
        BY <2>1, <2>2, <2>4, <2>5, <2>6
    <2> QED
        BY <2>5, <2>7, <2>8
<1>5. CASE UNCHANGED proberVars
    BY <1>5 DEF proberVars
<1>6. UNCHANGED proberVars \/ Probe \/ \E g \in probes : Health(g) \/ Gone(g) \/ UpdateHealth(g)
    BY DEF OrderNext, orderVars, BreakerTurns, Snapshot, ReadScore, Compare, AtFront,
           Sorted, TryNext
<1> QED
    BY <1>1, <1>2, <1>3, <1>4, <1>5, <1>6

(***************************************************************************)
(* HealthIsNewest for every pool and however long the probes of a round    *)
(* take: the prober never overwrites a result with an earlier round's.     *)
(***************************************************************************)
THEOREM HealthNeverGoesBack == OrderSpec => []HealthIsNewest
<1>1. HealthInv => HealthIsNewest
    BY DEF HealthInv, HealthIsNewest
<1> QED
    BY <1>1, InitHealth, NextHealth, PTL DEF OrderSpec

-----------------------------------------------------------------------------
(***************************************************************************)
(* The quota of WarmUp.  What the prefixes' buckets hold, and how far the  *)
(* tokens of warm-ups have come: whenever one is under way or may start,   *)
(* real requests have been observed and the cap is not passed yet.         *)
(***************************************************************************)
QuotaInv ==
    /\ bucket \in [Fingerprints -> Int] /\ drawn \in [Fingerprints -> Nat]
    /\ \A f \in Fingerprints : /\ bucket[f] > Reserve - Token - Token * drawn[f]
                               /\ bucket[f] > -Token /\ bucket[f] <= Rpm

UnderCap == totalInput > 0 /\ 100 * warmTokens <= CapPercent * totalInput
OneAbove(m) == 100 * warmTokens <= CapPercent * totalInput + 100 * m

CapInv ==
    /\ totalInput \in Nat /\ warmTokens \in Nat
    /\ Tracked(records) # {} => totalInput > 0
    /\ candidates # {} => totalInput > 0
    /\ warming # {} => UnderCap
    /\ \A m \in Prompts : (\A p \in Prompts : p <= m) => OneAbove(m)

\* What the proofs use of WarmAssumption.
LEMMA QuotaConstants ==
    /\ Rpm \in Nat /\ Token \in Nat /\ Reserve \in Nat /\ Refill \in Nat
    /\ 1 <= Token /\ Token <= Rpm /\ Reserve <= Rpm
    /\ CapPercent \in Nat /\ Prompts \subseteq Nat
    /\ \A p \in Prompts : p > 0
BY WarmAssumption

\* WarmInit establishes QuotaInv and CapInv.
LEMMA InitQuota == WarmInit => QuotaInv /\ CapInv
<1> SUFFICES ASSUME WarmInit PROVE QuotaInv /\ CapInv
    OBVIOUS
<1>1. QuotaInv
    BY QuotaConstants DEF WarmInit, QuotaInv
<1>2. Tracked(records) = {}
    BY DEF WarmInit, Tracked, Untracked
<1>3. CapInv
    BY <1>2, QuotaConstants DEF WarmInit, CapInv, UnderCap, OneAbove
<1> QED
    BY <1>1, <1>3

\* A token more that a real request may draw lowers the bound by a token.
LEMMA OneMoreDrawn == \A t, d \in Nat : t * (d + 1) = t * d + t /\ t * d >= 0 /\ t * 0 = 0
OBVIOUS

\* Every step keeps QuotaInv.
LEMMA NextQuota == QuotaInv /\ [WarmNext]_warmVars => QuotaInv'
<1> SUFFICES ASSUME QuotaInv, [WarmNext]_warmVars PROVE QuotaInv'
    OBVIOUS
<1> USE DEF QuotaInv
<1>1. CASE Elapse
    <2>1. ASSUME NEW f \in Fingerprints
          PROVE  /\ bucket'[f] \in Int /\ drawn'[f] \in Nat
                 /\ bucket'[f] > Reserve - Token - Token * drawn'[f]
                 /\ bucket'[f] > -Token /\ bucket'[f] <= Rpm
        <3>1. /\ bucket'[f] = IF bucket[f] + Refill > Rpm THEN Rpm ELSE bucket[f] + Refill
              /\ drawn'[f] = IF bucket'[f] > Reserve THEN 0 ELSE drawn[f]
            BY <1>1 DEF Elapse
        <3>2. bucket'[f] \in Int /\ bucket'[f] >= bucket[f] /\ bucket'[f] <= Rpm
            BY <3>1, QuotaConstants
        <3>3. CASE bucket'[f] > Reserve
            <4>1. drawn'[f] = 0
                BY <3>1, <3>3
            <4> QED
                BY <3>2, <3>3, <4>1, QuotaConstants, OneMoreDrawn
        <3>4. CASE ~(bucket'[f] > Reserve)
            <4>1. drawn'[f] = drawn[f]
                BY <3>1, <3>4
            <4>2. Token * drawn[f] \in Int
                BY QuotaConstants
            <4> QED
                BY <3>2, <4>1, <4>2, QuotaConstants
        <3> QED
            BY <3>3, <3>4
    <2>2. /\ bucket' = [f \in Fingerprints |-> bucket'[f]]
          /\ drawn' = [f \in Fingerprints |-> drawn'[f]]
        BY <1>1 DEF Elapse
    <2> QED
        BY <2>1, <2>2
<1>2. ASSUME NEW f \in Fingerprints, RealRequest(f) PROVE QuotaInv'
    <2> DEFINE left == IF bucket[f] > 0 THEN bucket[f] - Token ELSE bucket[f]
               had == IF left > Reserve THEN 0 ELSE drawn[f] + 1
    <2>1. /\ bucket' = [bucket EXCEPT ![f] = left]
          /\ drawn' = [drawn EXCEPT ![f] = had]
        BY <1>2 DEF RealRequest, Drawn
    <2>2. left \in Int /\ left > -Token /\ left <= Rpm /\ left >= bucket[f] - Token
        BY QuotaConstants
    <2>3. had \in Nat
        OBVIOUS
    <2>4. left > Reserve - Token - Token * had
        <3>1. CASE left > Reserve
            <4>1. had = 0
                BY <3>1
            <4> QED
                BY <2>2, <3>1, <4>1, QuotaConstants, OneMoreDrawn
        <3>2. CASE ~(left > Reserve)
            <4>1. had = drawn[f] + 1
                BY <3>2
            <4>2. Token * had = Token * drawn[f] + Token /\ Token * drawn[f] \in Int
                BY <4>1, QuotaConstants, OneMoreDrawn
            <4> HIDE DEF left, had
            <4> QED
                BY <2>2, <4>2, QuotaConstants
        <3> QED
            BY <3>1, <3>2
    <2> HIDE DEF left, had
    <2> QED
        BY <2>1, <2>2, <2>3, <2>4
<1>3. ASSUME NEW f \in Fingerprints, StartWarmUp(f) PROVE QuotaInv'
    <2> DEFINE left == bucket[f] - Token
               had == IF left > Reserve THEN 0 ELSE drawn[f] + 0
    <2>1. /\ bucket' = [bucket EXCEPT ![f] = left]
          /\ drawn' = [drawn EXCEPT ![f] = had]
        BY <1>3 DEF StartWarmUp, Drawn
    <2>2. left \in Int /\ left <= Rpm /\ left > Reserve - Token
        BY <1>3, QuotaConstants DEF StartWarmUp, WarmAllowed
    <2>3. had \in Nat
        OBVIOUS
    <2> HIDE DEF left, had
    <2>4. left > Reserve - Token - Token * had
        <3>1. Token * had \in Int /\ Token * had >= 0
            BY <2>3, QuotaConstants, OneMoreDrawn
        <3> QED
            BY <2>2, <3>1, QuotaConstants
    <2>5. left > -Token
        BY <2>2, QuotaConstants
    <2> QED
        BY <2>1, <2>2, <2>3, <2>4, <2>5
<1>4. CASE UNCHANGED quota
    BY <1>4 DEF quota
<1>5. \/ UNCHANGED quota \/ Elapse
      \/ \E f \in Fingerprints : RealRequest(f) \/ StartWarmUp(f)
    BY DEF WarmNext, warmVars, quota, Tick, StopTick, RequestFails, Observe, Skip,
           WarmUpDone, WarmUpFails
<1> QED
    BY <1>1, <1>2, <1>3, <1>4, <1>5

\* Every step keeps CapInv: a tick copies records only when there are some, and a
\* warm-up starts below the cap.
LEMMA NextCap == CapInv /\ [WarmNext]_warmVars => CapInv'
<1> SUFFICES ASSUME CapInv, [WarmNext]_warmVars PROVE CapInv'
    OBVIOUS
<1> DEFINE spent == 100 * warmTokens
           allowed == CapPercent * totalInput
<1>a. CapPercent * totalInput \in Nat
    BY QuotaConstants DEF CapInv
<1>1. ASSUME NEW f \in Fingerprints, Observe(f) PROVE CapInv'
    <2>1. PICK p \in Prompts : totalInput' = totalInput + p
        BY <1>1 DEF Observe
    <2>2. /\ p \in Nat /\ p > 0 /\ totalInput' \in Nat /\ totalInput' > 0
          /\ CapPercent * totalInput' = CapPercent * totalInput + CapPercent * p
          /\ CapPercent * p \in Nat
        BY <2>1, QuotaConstants DEF CapInv
    <2>3. UNCHANGED <<warmTokens, warming, candidates>>
        BY <1>1 DEF Observe, scheduler
    <2>4. ASSUME NEW m \in Prompts, \A q \in Prompts : q <= m PROVE OneAbove(m)'
        <3>1. OneAbove(m) /\ m \in Nat
            BY <2>4, QuotaConstants DEF CapInv
        <3>2. 100 * warmTokens <= CapPercent * totalInput'  + 100 * m
            BY <1>a, <2>2, <3>1 DEF OneAbove, CapInv
        <3> QED
            BY <2>3, <3>2 DEF OneAbove
    <2>5. warming # {} => UnderCap'
        BY <1>a, <2>2, <2>3 DEF UnderCap, CapInv
    <2> QED
        BY <2>2, <2>3, <2>4, <2>5 DEF CapInv
<1>2. CASE Tick
    <2>1. candidates' \subseteq Tracked(records)
        BY <1>2 DEF Tick
    <2>2. UNCHANGED <<records, totalInput, warmTokens, warming>>
        BY <1>2 DEF Tick, profile
    <2> QED
        BY <2>1, <2>2 DEF CapInv, Tracked, UnderCap, OneAbove
<1>3. ASSUME NEW f \in Fingerprints, StartWarmUp(f) PROVE CapInv'
    <2>1. UNCHANGED <<records, totalInput, warmTokens>> /\ candidates' = candidates \ {f}
        BY <1>3 DEF StartWarmUp, profile
    <2>2. f \in candidates /\ WithinGlobalCap
        BY <1>3 DEF StartWarmUp, MayWarm
    <2>3. UnderCap
        BY <2>2 DEF CapInv, UnderCap, WithinGlobalCap
    <2> QED
        BY <2>1, <2>2, <2>3 DEF CapInv, Tracked, UnderCap, OneAbove
<1>4. ASSUME NEW f \in Fingerprints, WarmUpDone(f) PROVE CapInv'
    <2>1. PICK p \in Prompts \cup {0} : warmTokens' = warmTokens + p
        BY <1>4 DEF WarmUpDone
    <2>2. UNCHANGED <<records, totalInput, candidates>> /\ warming' = {} /\ warming # {}
        BY <1>4 DEF WarmUpDone, profile
    <2>3. ASSUME NEW m \in Prompts, \A q \in Prompts : q <= m PROVE OneAbove(m)'
        <3>1. UnderCap /\ p \in Nat /\ p <= m /\ m \in Nat
            BY <2>2, <2>3, QuotaConstants DEF CapInv
        <3>2. 100 * (warmTokens + p) <= CapPercent * totalInput + 100 * m
            BY <1>a, <3>1 DEF CapInv, UnderCap
        <3> QED
            BY <2>1, <2>2, <3>2 DEF OneAbove
    <2>4. warmTokens' \in Nat
        BY <2>1, QuotaConstants DEF CapInv
    <2> QED
        BY <2>2, <2>3, <2>4 DEF CapInv, Tracked
<1>5. CASE /\ UNCHANGED <<records, totalInput, warmTokens>>
           /\ candidates' \subseteq candidates /\ warming' \subseteq warming
    BY <1>5 DEF CapInv, Tracked, UnderCap, OneAbove
<1>6. \/ Tick
      \/ \E f \in Fingerprints : Observe(f) \/ StartWarmUp(f) \/ WarmUpDone(f)
      \/ /\ UNCHANGED <<records, totalInput, warmTokens>>
         /\ candidates' \subseteq candidates /\ warming' \subseteq warming
    BY DEF WarmNext, warmVars, profile, scheduler, Elapse, RealRequest, RequestFails,
           StopTick, Skip, WarmUpFails
<1> QED
    BY <1>1, <1>2, <1>3, <1>4, <1>5, <1>6

(***************************************************************************)
(* ReserveIsForRealRequests for every rate, reserve and cap, any number of *)
(* prefixes and any order of ticks, requests and failing warm-ups.         *)
(***************************************************************************)
THEOREM WarmUpsNeverStarve == WarmSpec => []ReserveIsForRealRequests
<1>1. QuotaInv /\ CapInv => ReserveIsForRealRequests
    BY DEF QuotaInv, CapInv, OneAbove, ReserveIsForRealRequests
<1>2. QuotaInv /\ CapInv /\ [WarmNext]_warmVars => (QuotaInv /\ CapInv)'
    BY NextQuota, NextCap
<1> QED
    BY <1>1, <1>2, InitQuota, PTL DEF WarmSpec

-----------------------------------------------------------------------------
(***************************************************************************)
(* The profiler of WarmUp.                                                 *)
(***************************************************************************)
\* A set of naturals that is not empty has a least element; so the eviction and
\* minInputPrice find one.
LEMMA LeastExists ==
    ASSUME NEW T, T \subseteq Nat, T # {}
    PROVE  \E x \in T : \A y \in T : x <= y
<1>1. PICK x \in T : \A y \in T : ~ (<<y, x>> \in OpToRel(<, Nat))
    BY NatLessThanWellFounded, WFMin
<1>2. \A y \in T : ~(y < x)
    BY <1>1 DEF OpToRel
<1> QED
    BY <1>2

\* The times of access are different, and the records kept are the latest.
Distinct(acc) == \A f, g \in Fingerprints : f # g /\ acc[f] = acc[g] => acc[f] = 0
Latest(rs, acc) ==
    /\ \A f \in Tracked(rs) : rs[f].last = acc[f] /\ acc[f] > 0
    /\ \A f \in Tracked(rs), g \in Fingerprints \ Tracked(rs) : acc[g] < acc[f]

Records == [count : Nat, last : Nat]

ProfileInv ==
    /\ clock \in Nat \ {0}
    /\ records \in [Fingerprints -> Records] /\ accessed \in [Fingerprints -> Nat]
    /\ \A f \in Fingerprints : accessed[f] < clock
    /\ Cardinality(Tracked(records)) <= MaxProfiles
    /\ Distinct(accessed) /\ Latest(records, accessed)

\* WarmInit establishes ProfileInv.
LEMMA InitProfile == WarmInit => ProfileInv
<1> SUFFICES ASSUME WarmInit PROVE ProfileInv
    OBVIOUS
<1>1. Tracked(records) = {} /\ records \in [Fingerprints -> Records]
    BY DEF WarmInit, Tracked, Untracked, Records
<1> QED
    BY <1>1, FS_EmptySet, WarmAssumption DEF WarmInit, ProfileInv, Distinct, Latest

\* The prefixes with a record are finitely many.
LEMMA TrackedIsFinite ==
    \A rs : IsFiniteSet(Tracked(rs)) /\ Cardinality(Tracked(rs)) \in Nat
BY WarmAssumption, FS_Subset, FS_CardinalityType DEF Tracked

\* What EvictIfNeeded leaves of one record too many at most is as many as allowed,
\* and again the latest.
LEMMA EvictionKeepsTheLatest ==
    ASSUME NEW rs \in [Fingerprints -> Records], NEW acc \in [Fingerprints -> Nat],
           Distinct(acc), Latest(rs, acc),
           Cardinality(Tracked(rs)) <= MaxProfiles + 1
    PROVE  /\ EvictIfNeeded(rs) \in [Fingerprints -> Records]
           /\ Latest(EvictIfNeeded(rs), acc)
           /\ Cardinality(Tracked(EvictIfNeeded(rs))) <= MaxProfiles
<1>1. CASE Cardinality(Tracked(rs)) <= MaxProfiles
    BY <1>1 DEF EvictIfNeeded
<1>2. CASE ~(Cardinality(Tracked(rs)) <= MaxProfiles)
    <2> DEFINE Oldest(f) == \A g \in Tracked(rs) : rs[f].last <= rs[g].last
               oldest == CHOOSE f \in Tracked(rs) : Oldest(f)
               kept == [rs EXCEPT ![oldest] = Untracked]
    <2>1. \E f \in Tracked(rs) : Oldest(f)
        <3> DEFINE Times == {rs[f].last : f \in Tracked(rs)}
        <3>1. Tracked(rs) # {}
            BY <1>2, FS_EmptySet, WarmAssumption
        <3>2. Times \subseteq Nat /\ Times # {}
            BY <3>1 DEF Tracked, Records
        <3>3. PICK x \in Times : \A y \in Times : x <= y
            BY <3>2, LeastExists
        <3> QED
            BY <3>3
    <2>2. oldest \in Tracked(rs) /\ Oldest(oldest)
        BY <2>1
    <2>3. EvictIfNeeded(rs) = kept
        BY <1>2 DEF EvictIfNeeded
    <2> HIDE DEF oldest
    <2>4. oldest \in Fingerprints /\ kept \in [Fingerprints -> Records]
        BY <2>2 DEF Tracked, Records, Untracked
    <2>5. /\ Tracked(kept) = Tracked(rs) \ {oldest}
          /\ \A f \in Fingerprints : f # oldest => kept[f] = rs[f]
        BY <2>4 DEF Tracked, Untracked
    <2>6. Cardinality(Tracked(kept)) <= MaxProfiles
        <3>1. Cardinality(Tracked(kept)) = Cardinality(Tracked(rs)) - 1
            BY <2>2, <2>5, TrackedIsFinite, FS_RemoveElement
        <3> QED
            BY <3>1, TrackedIsFinite, WarmAssumption
    <2>7. \A f \in Tracked(kept) : f \in Tracked(rs) /\ f \in Fingerprints /\ f # oldest
        BY <2>5 DEF Tracked
    <2>8. \A f \in Tracked(kept) : acc[oldest] < acc[f]
        <3> SUFFICES ASSUME NEW f \in Tracked(kept) PROVE acc[oldest] < acc[f]
            OBVIOUS
        <3>1. rs[oldest].last = acc[oldest] /\ rs[f].last = acc[f] /\ acc[f] > 0
            BY <2>2, <2>7 DEF Latest
        <3>2. acc[oldest] <= acc[f]
            BY <2>2, <2>7, <3>1
        <3>3. /\ f \in Fingerprints /\ oldest \in Fingerprints /\ oldest # f
              /\ acc[oldest] \in Nat /\ acc[f] \in Nat
            BY <2>4, <2>7
        <3> HIDE DEF kept
        <3>4. acc[oldest] = acc[f] => acc[oldest] = 0
            BY <3>3 DEF Distinct
        <3> QED
            BY <3>1, <3>2, <3>3, <3>4
    <2>9. Latest(kept, acc)
        <3> HIDE DEF kept
        <3>1. \A f \in Tracked(kept) : kept[f].last = acc[f] /\ acc[f] > 0
            BY <2>5, <2>7 DEF Latest
        <3>2. \A f \in Tracked(kept), g \in Fingerprints \ Tracked(kept) : acc[g] < acc[f]
            BY <2>5, <2>7, <2>8 DEF Latest
        <3> QED
            BY <3>1, <3>2 DEF Latest
    <2> QED
        BY <2>3, <2>4, <2>6, <2>9
<1> QED
    BY <1>1, <1>2

\* Every step keeps ProfileInv.
LEMMA NextProfile == ProfileInv /\ [WarmNext]_warmVars => ProfileInv'
<1> SUFFICES ASSUME ProfileInv, [WarmNext]_warmVars PROVE ProfileInv'
    OBVIOUS
<1>1. ASSUME NEW f \in Fingerprints, Observe(f) PROVE ProfileInv'
    <2> DEFINE new == [count |-> records[f].count + 1, last |-> clock]
               rs == [records EXCEPT ![f] = new]
    <2>1. /\ clock' = clock + 1 /\ accessed' = [accessed EXCEPT ![f] = clock]
          /\ records' = EvictIfNeeded(rs)
        BY <1>1 DEF Observe
    <2>2. records[f] \in Records /\ clock \in Nat \ {0}
        BY DEF ProfileInv
    <2>3. new \in Records /\ new.count > 0 /\ new.last = clock
        BY <2>2 DEF Records
    <2> HIDE DEF new
    <2>4. /\ rs \in [Fingerprints -> Records] /\ rs[f] = new
          /\ \A g \in Fingerprints : g # f => rs[g] = records[g]
        BY <2>3 DEF ProfileInv
    <2> HIDE DEF rs
    <2>5. Tracked(rs) = Tracked(records) \cup {f}
        BY <2>3, <2>4 DEF Tracked
    <2>6. /\ accessed' \in [Fingerprints -> Nat] /\ accessed'[f] = clock
          /\ \A g \in Fingerprints : g # f => accessed'[g] = accessed[g]
          /\ \A g \in Fingerprints : accessed[g] \in Nat /\ accessed[g] < clock
        BY <2>1, <2>2 DEF ProfileInv
    <2>7. Distinct(accessed')
        BY <2>2, <2>6 DEF Distinct, ProfileInv
    <2>8. Latest(rs, accessed')
        <3>1. \A g \in Tracked(rs) : g \in Fingerprints /\ (g # f => g \in Tracked(records))
            BY <2>5 DEF Tracked
        <3>2. \A g \in Tracked(rs) : rs[g].last = accessed'[g] /\ accessed'[g] > 0
            BY <2>2, <2>3, <2>4, <2>6, <3>1 DEF ProfileInv, Latest
        <3>3. \A g \in Tracked(rs), h \in Fingerprints \ Tracked(rs) : accessed'[h] < accessed'[g]
            BY <2>5, <2>6, <3>1 DEF ProfileInv, Latest
        <3> QED
            BY <3>2, <3>3 DEF Latest
    <2>9. Cardinality(Tracked(rs)) <= MaxProfiles + 1
        <3>1. Cardinality(Tracked(rs)) <= Cardinality(Tracked(records)) + 1
            <4>1. Cardinality(Tracked(rs)) = IF f \in Tracked(records) THEN Cardinality(Tracked(records))
                                             ELSE Cardinality(Tracked(records)) + 1
                BY <2>5, TrackedIsFinite, FS_AddElement
            <4> QED
                BY <4>1, TrackedIsFinite
        <3>2. Cardinality(Tracked(records)) <= MaxProfiles
            BY DEF ProfileInv
        <3> QED
            BY <3>1, <3>2, TrackedIsFinite, WarmAssumption
    <2>10. \A g \in Fingerprints : accessed'[g] < clock'
        BY <2>1, <2>2, <2>6
    <2>11. clock' \in Nat \ {0}
        BY <2>1, <2>2
    <2>12. /\ records' \in [Fingerprints -> Records] /\ Latest(records', accessed')
           /\ Cardinality(Tracked(records')) <= MaxProfiles
        BY <2>1, <2>4, <2>6, <2>7, <2>8, <2>9, EvictionKeepsTheLatest
    <2>13. Distinct(accessed)' /\ Latest(records, accessed)' /\ Tracked(records)' = Tracked(records')
        BY <2>7, <2>12 DEF Distinct, Latest, Tracked
    <2> QED
        BY <2>6, <2>10, <2>11, <2>12, <2>13 DEF ProfileInv
<1>2. CASE /\ UNCHANGED <<records, accessed>>
           /\ clock' = clock \/ clock' = clock + 1
    BY <1>2 DEF ProfileInv, Distinct, Latest, Tracked
<1>3. \/ \E f \in Fingerprints : Observe(f)
      \/ /\ UNCHANGED <<records, accessed>>
         /\ clock' = clock \/ clock' = clock + 1
    BY DEF WarmNext, warmVars, profile, Elapse, Tick, StopTick, RealRequest, RequestFails,
           Skip, StartWarmUp, WarmUpDone, WarmUpFails
<1> QED
    BY <1>1, <1>2, <1>3

(***************************************************************************)
(* KeepsTheMostRecent for any number of prefixes and any size of the       *)
(* profiler: evictIfNeededLocked drops the one that was not used longest.  *)
(***************************************************************************)
THEOREM ProfilerKeepsTheLatest == WarmSpec => []KeepsTheMostRecent
<1>1. ProfileInv => KeepsTheMostRecent
    BY DEF ProfileInv, Latest, KeepsTheMostRecent
<1> QED
    BY <1>1, InitProfile, NextProfile, PTL DEF WarmSpec

-----------------------------------------------------------------------------
(***************************************************************************)
(* The degradation chain of DegradationOrder.  Its insertion sort, for any *)
(* relation R on the pool: the part up to k is in order but for the        *)
(* element at l, which no element behind it precedes.                      *)
(***************************************************************************)
Placed(R, seq, k, l) == \A a, b \in Pool : a < b /\ b <= k /\ b # l => <<seq[a], seq[b]>> \in R

\* An element that goes before its predecessor moves ahead of it.
LEMMA SwapPlaces ==
    ASSUME NEW R, NEW seq \in [Pool -> Pool], NEW k \in 2..Count, NEW l \in 2..k,
           Placed(R, seq, k, l), <<seq[l], seq[l - 1]>> \in R
    PROVE  Placed(R, [seq EXCEPT ![l] = seq[l - 1], ![l - 1] = seq[l]], k, l - 1)
<1> DEFINE new == [seq EXCEPT ![l] = seq[l - 1], ![l - 1] = seq[l]]
<1>1. Count \in Nat /\ l \in Nat /\ k \in Nat /\ 2 <= l /\ l <= k /\ k <= Count
    BY OrderAssumption
<1>2. l \in Pool /\ l - 1 \in Pool /\ l # l - 1
    BY <1>1 DEF Pool
<1>3. /\ new[l] = seq[l - 1] /\ new[l - 1] = seq[l]
      /\ \A a \in Pool : a # l /\ a # l - 1 => new[a] = seq[a]
    BY <1>2
<1> HIDE DEF new
<1> SUFFICES ASSUME NEW a \in Pool, NEW b \in Pool, a < b, b <= k, b # l - 1
             PROVE  <<new[a], new[b]>> \in R
    BY DEF Placed, new
<1>4. a \in Nat /\ b \in Nat
    BY DEF Pool
<1>5. CASE b = l /\ a = l - 1
    BY <1>3, <1>5
<1>6. CASE b = l /\ a # l - 1
    <2>1. a < l - 1 /\ a # l /\ l - 1 <= k
        BY <1>1, <1>4, <1>6
    <2>2. <<seq[a], seq[l - 1]>> \in R
        BY <1>2, <2>1 DEF Placed
    <2> QED
        BY <1>3, <1>6, <2>1, <2>2
<1>7. CASE b # l /\ a = l
    <2>1. l - 1 < b
        BY <1>1, <1>4, <1>7
    <2>2. <<seq[l - 1], seq[b]>> \in R
        BY <1>2, <1>7, <2>1 DEF Placed
    <2> QED
        BY <1>3, <1>7, <2>2
<1>8. CASE b # l /\ a = l - 1
    <2>1. l < b
        BY <1>1, <1>4, <1>8
    <2>2. <<seq[l], seq[b]>> \in R
        BY <1>2, <1>8, <2>1 DEF Placed
    <2> QED
        BY <1>3, <1>8, <2>2
<1>9. CASE b # l /\ a # l /\ a # l - 1
    BY <1>3, <1>9 DEF Placed
<1> QED
    BY <1>5, <1>6, <1>7, <1>8, <1>9

\* One that does not stays where it is, and the next one is taken.
LEMMA StopPlaces ==
    ASSUME NEW R, NEW seq \in [Pool -> Pool], NEW k \in 2..Count, NEW l \in 1..k,
           Placed(R, seq, k, l),
           \A p, q, r \in Pool : <<p, q>> \in R /\ <<q, r>> \in R => <<p, r>> \in R,
           l = 1 \/ <<seq[l - 1], seq[l]>> \in R
    PROVE  Placed(R, seq, k + 1, k + 1)
<1>1. Count \in Nat /\ l \in Nat /\ k \in Nat /\ 1 <= l /\ l <= k /\ k <= Count
    BY OrderAssumption
<1> SUFFICES ASSUME NEW a \in Pool, NEW b \in Pool, a < b, b <= k + 1, b # k + 1
             PROVE  <<seq[a], seq[b]>> \in R
    BY DEF Placed
<1>2. a \in Nat /\ b \in Nat /\ 1 <= a /\ b <= k
    BY <1>1 DEF Pool
<1>3. CASE b # l
    BY <1>2, <1>3 DEF Placed
<1>4. CASE b = l
    <2>1. l # 1 /\ l - 1 \in Pool
        BY <1>1, <1>2, <1>4 DEF Pool
    <2>2. <<seq[l - 1], seq[l]>> \in R
        BY <2>1
    <2>3. CASE a = l - 1
        BY <1>4, <2>2, <2>3
    <2>4. CASE a # l - 1
        <3>1. a < l - 1 /\ l - 1 <= k /\ l - 1 # l
            BY <1>1, <1>2, <1>4, <2>4
        <3>2. <<seq[a], seq[l - 1]>> \in R
            BY <2>1, <3>1 DEF Placed
        <3>3. seq[a] \in Pool /\ seq[l - 1] \in Pool /\ seq[l] \in Pool
            BY <1>4, <2>1
        <3> QED
            BY <1>4, <2>2, <3>2, <3>3
    <2> QED
        BY <2>3, <2>4
<1> QED
    BY <1>3, <1>4

\* Fractions with positive denominators are weakly ordered by their cross products.
LEMMA FractionsOrder ==
    ASSUME NEW a1 \in Nat, NEW b1 \in Nat, NEW c1 \in Nat,
           NEW a2 \in Nat \ {0}, NEW b2 \in Nat \ {0}, NEW c2 \in Nat \ {0},
           a1 * b2 >= b1 * a2, b1 * c2 >= c1 * b2
    PROVE  /\ a1 * c2 >= c1 * a2
           /\ a1 * b2 > b1 * a2 \/ b1 * c2 > c1 * b2 => a1 * c2 > c1 * a2
<1>1. /\ (a1 * b2) * c2 >= (b1 * a2) * c2
      /\ a1 * b2 > b1 * a2 => (a1 * b2) * c2 > (b1 * a2) * c2
    OBVIOUS
<1>2. /\ (b1 * c2) * a2 >= (c1 * b2) * a2
      /\ b1 * c2 > c1 * b2 => (b1 * c2) * a2 > (c1 * b2) * a2
    OBVIOUS
<1>3. /\ (a1 * b2) * c2 = (a1 * c2) * b2 /\ (b1 * a2) * c2 = (b1 * c2) * a2
      /\ (c1 * b2) * a2 = (c1 * a2) * b2
    OBVIOUS
<1>4. /\ (a1 * c2) * b2 >= (c1 * a2) * b2
      /\ a1 * b2 > b1 * a2 \/ b1 * c2 > c1 * b2 => (a1 * c2) * b2 > (c1 * a2) * b2
    BY <1>1, <1>2, <1>3
<1>5. a1 * c2 \in Nat /\ c1 * a2 \in Nat
    OBVIOUS
<1>6. \A x, y \in Nat, z \in Nat \ {0} :
        (x * z >= y * z => x >= y) /\ (x * z > y * z => x > y)
    OBVIOUS
<1> QED
    BY <1>4, <1>5, <1>6

\* The two orders: what never changes during a sort, and with the scores as they are.
Ranked(p, q) == Before(p, EffectiveWeight(p), q, EffectiveWeight(q))
InOrderPairs == {pq \in Pool \X Pool : InOrder(pq[1], pq[2])}
RankedPairs == {pq \in Pool \X Pool : Ranked(pq[1], pq[2])}

Score == Nat \X (Nat \ {0})

\* minInputPrice is the price of some provider, or 0.
LEMMA LeastPrice == MinInputPrice \in Nat
<1>1. CASE Priced = {}
    BY <1>1 DEF MinInputPrice
<1>2. CASE Priced # {}
    <2> DEFINE Least(p) == \A q \in Priced : Price[p] <= Price[q]
               Prices == {Price[p] : p \in Priced}
    <2>1. \A p \in Priced : p \in Pool /\ Price[p] \in Nat
        BY OrderAssumption DEF Priced
    <2>2. PICK x \in Prices : \A y \in Prices : x <= y
        BY <1>2, <2>1, LeastExists
    <2>3. \E p \in Priced : Least(p)
        BY <2>2
    <2>4. (CHOOSE p \in Priced : Least(p)) \in Priced
        BY <2>3
    <2>5. MinInputPrice = Price[CHOOSE p \in Priced : Least(p)]
        BY <1>2 DEF MinInputPrice
    <2> QED
        BY <2>1, <2>4, <2>5
<1> QED
    BY <1>1, <1>2

\* effectiveWeight is a fraction.
LEMMA ScoreType ==
    ASSUME healthCache \in [Pool -> Results], NEW p \in Pool
    PROVE  EffectiveWeight(p) \in Score
<1> DEFINE hs == healthCache[p]
           known == hs.round > 0
           w == IF Weight[p] = 0 THEN 1 ELSE Weight[p]
           health == IF known /\ ~hs.healthy THEN 1 ELSE 10
           latency == IF ~known THEN 100 ELSE IF hs.latency > 95 THEN 5 ELSE 100 - hs.latency
           cost == IF Price[p] = 0 \/ MinInputPrice = 0 THEN <<1, 1>>
                   ELSE IF 10 * MinInputPrice < Price[p] THEN <<1, 10>>
                   ELSE <<MinInputPrice, Price[p]>>
<1>1. EffectiveWeight(p) = <<w * health * latency * cost[1], cost[2]>>
    BY DEF EffectiveWeight
<1>2. Weight[p] \in Nat /\ Price[p] \in Nat /\ hs.latency \in Nat
    BY OrderAssumption DEF Results
<1>3. w \in Nat /\ health \in Nat /\ latency \in Nat
    <2>1. w \in Nat
        BY <1>2
    <2>2. health \in Nat
        OBVIOUS
    <2>3. latency \in Nat
        <3>1. CASE ~known
            BY <3>1
        <3>2. CASE known /\ hs.latency > 95
            BY <3>2
        <3>3. CASE known /\ ~(hs.latency > 95)
            BY <1>2, <3>3
        <3> QED
            BY <3>1, <3>2, <3>3
    <2> QED
        BY <2>1, <2>2, <2>3
<1>4. cost \in Score
    BY <1>2, LeastPrice DEF Score
<1> HIDE DEF w, health, latency, cost
<1>5. cost[1] \in Nat /\ cost[2] \in Nat \ {0}
    BY <1>4 DEF Score
<1>6. \A a, b \in Nat : a * b \in Nat
    OBVIOUS
<1>7. w * health * latency * cost[1] \in Nat
    BY <1>3, <1>5, <1>6
<1> QED
    BY <1>1, <1>5, <1>7 DEF Score

\* Of two scores one is higher or they are equal, and this goes on over a third.
LEMMA ScoresOrder ==
    ASSUME NEW a \in Score, NEW b \in Score, NEW c \in Score
    PROVE  /\ ~(Higher(a, b) /\ Higher(b, a))
           /\ ~Higher(b, a) /\ ~Higher(c, b) =>
                /\ ~Higher(c, a)
                /\ Higher(a, b) \/ Higher(b, c) => Higher(a, c)
                /\ ~Higher(a, b) /\ ~Higher(b, c) => ~Higher(a, c)
<1>1. /\ a[1] \in Nat /\ b[1] \in Nat /\ c[1] \in Nat
      /\ a[2] \in Nat \ {0} /\ b[2] \in Nat \ {0} /\ c[2] \in Nat \ {0}
    BY DEF Score
<1>2. /\ a[1] * b[2] \in Nat /\ b[1] * a[2] \in Nat /\ b[1] * c[2] \in Nat
      /\ c[1] * b[2] \in Nat /\ a[1] * c[2] \in Nat /\ c[1] * a[2] \in Nat
    BY <1>1
<1>3. ~(Higher(a, b) /\ Higher(b, a))
    BY <1>2 DEF Higher
<1>4. ASSUME ~Higher(b, a), ~Higher(c, b)
      PROVE  /\ ~Higher(c, a)
             /\ Higher(a, b) \/ Higher(b, c) => Higher(a, c)
    <2>1. a[1] * b[2] >= b[1] * a[2] /\ b[1] * c[2] >= c[1] * b[2]
        BY <1>2, <1>4 DEF Higher
    <2>2. /\ a[1] * c[2] >= c[1] * a[2]
          /\ a[1] * b[2] > b[1] * a[2] \/ b[1] * c[2] > c[1] * b[2] => a[1] * c[2] > c[1] * a[2]
        BY <1>1, <2>1, FractionsOrder
    <2> QED
        BY <1>2, <2>2 DEF Higher
<1>5. ASSUME ~Higher(b, a), ~Higher(c, b), ~Higher(a, b), ~Higher(b, c) PROVE ~Higher(a, c)
    <2>1. b[1] * a[2] >= a[1] * b[2] /\ c[1] * b[2] >= b[1] * c[2]
        BY <1>2, <1>5 DEF Higher
    <2>2. c[1] * a[2] >= a[1] * c[2]
        BY <1>1, <2>1, FractionsOrder
    <2> QED
        BY <1>2, <2>2 DEF Higher
<1> QED
    BY <1>3, <1>4, <1>5

\* What the comparison prefers comes no later, and what it does not prefer no
\* earlier, whatever scores were read.
LEMMA ComparisonIsInOrder ==
    ASSUME NEW p \in Pool, NEW q \in Pool, NEW sp, NEW sq
    PROVE  IF Before(p, sp, q, sq) THEN <<p, q>> \in InOrderPairs ELSE <<q, p>> \in InOrderPairs
<1>1. Priority[p] \in Nat /\ Priority[q] \in Nat
    BY OrderAssumption
<1> QED
    BY <1>1 DEF Before, InOrder, InOrderPairs

\* The two orders are transitive.
LEMMA InOrderIsTransitive ==
    \A p, q, r \in Pool :
      <<p, q>> \in InOrderPairs /\ <<q, r>> \in InOrderPairs => <<p, r>> \in InOrderPairs
<1> SUFFICES ASSUME NEW p \in Pool, NEW q \in Pool, NEW r \in Pool, InOrder(p, q), InOrder(q, r)
             PROVE  InOrder(p, r)
    BY DEF InOrderPairs
<1>1. Priority[p] \in Nat /\ Priority[q] \in Nat /\ Priority[r] \in Nat
    BY OrderAssumption
<1> QED
    BY <1>1 DEF InOrder

\* The order of the sort is transitive.
LEMMA RankedIsTransitive ==
    ASSUME healthCache \in [Pool -> Results]
    PROVE  \A p, q, r \in Pool :
             <<p, q>> \in RankedPairs /\ <<q, r>> \in RankedPairs => <<p, r>> \in RankedPairs
<1> SUFFICES ASSUME NEW p \in Pool, NEW q \in Pool, NEW r \in Pool, Ranked(p, q), Ranked(q, r)
             PROVE  Ranked(p, r)
    BY DEF RankedPairs
<1> DEFINE sp == EffectiveWeight(p)
           sq == EffectiveWeight(q)
           sr == EffectiveWeight(r)
<1>1. /\ Priority[p] \in Nat /\ Priority[q] \in Nat /\ Priority[r] \in Nat
      /\ p \in Nat /\ q \in Nat /\ r \in Nat
    BY OrderAssumption DEF Pool
<1>2. sp \in Score /\ sq \in Score /\ sr \in Score
    BY ScoreType
<1>3. Before(p, sp, q, sq) /\ Before(q, sq, r, sr)
    BY DEF Ranked
<1> HIDE DEF sp, sq, sr
<1>4. ASSUME ~Higher(sq, sp), ~Higher(sr, sq)
      PROVE  /\ ~Higher(sr, sp)
             /\ Higher(sp, sq) \/ Higher(sq, sr) => Higher(sp, sr)
             /\ ~Higher(sp, sq) /\ ~Higher(sq, sr) => ~Higher(sp, sr)
    BY <1>2, <1>4, ScoresOrder
<1>5. Before(p, sp, r, sr)
    <2>1. CASE (p \in openThen) # (r \in openThen)
        BY <1>3, <2>1 DEF Before
    <2>2. CASE (p \in openThen) = (r \in openThen) /\ (p \in openThen) # (q \in openThen)
        BY <1>3, <2>2 DEF Before
    <2>3. CASE (p \in openThen) = (r \in openThen) /\ (p \in openThen) = (q \in openThen)
        <3>1. Priority[p] >= Priority[q] /\ Priority[q] >= Priority[r]
            BY <1>1, <1>3, <2>3 DEF Before
        <3>2. CASE Priority[p] # Priority[r]
            BY <1>1, <2>3, <3>1, <3>2 DEF Before
        <3>3. CASE Priority[p] = Priority[r]
            <4>1. Priority[p] = Priority[q] /\ Priority[q] = Priority[r]
                BY <1>1, <3>1, <3>3
            <4>2. /\ IF Higher(sp, sq) \/ Higher(sq, sp) THEN Higher(sp, sq) ELSE p < q
                  /\ IF Higher(sq, sr) \/ Higher(sr, sq) THEN Higher(sq, sr) ELSE q < r
                BY <1>3, <2>3, <4>1 DEF Before
            <4>3. ~(Higher(sp, sq) /\ Higher(sq, sp)) /\ ~(Higher(sq, sr) /\ Higher(sr, sq))
                BY <1>2, ScoresOrder
            <4>4. ~Higher(sq, sp) /\ ~Higher(sr, sq)
                BY <4>2, <4>3
            <4>5. IF Higher(sp, sr) \/ Higher(sr, sp) THEN Higher(sp, sr) ELSE p < r
                BY <1>1, <1>4, <4>2, <4>4
            <4> QED
                BY <2>3, <3>3, <4>5 DEF Before
        <3> QED
            BY <3>2, <3>3
    <2> QED
        BY <2>1, <2>2, <2>3
<1> QED
    BY <1>5 DEF Ranked, sp, sr

\* Two providers are always ranked one way or the other.
LEMMA ComparisonRanks ==
    ASSUME healthCache \in [Pool -> Results], NEW p \in Pool, NEW q \in Pool, p # q
    PROVE  IF Ranked(p, q) THEN <<p, q>> \in RankedPairs ELSE <<q, p>> \in RankedPairs
<1>1. /\ Priority[p] \in Nat /\ Priority[q] \in Nat /\ p \in Nat /\ q \in Nat
    BY OrderAssumption DEF Pool
<1>2. ~Ranked(p, q) => Ranked(q, p)
    BY <1>1 DEF Ranked, Before
<1> QED
    BY <1>2 DEF RankedPairs

(***************************************************************************)
(* The sort: what is placed by now, in the order that never changes, and   *)
(* also by score as long as no result of a probe has come between.         *)
(***************************************************************************)
Permuted ==
    /\ order \in [Pool -> Pool]
    /\ \A a, b \in Pool : a # b => order[a] # order[b]

SortInv ==
    /\ chain \in {"idle", "sorting", "trying", "over"}
    /\ chain = "idle" => si = Unread
    /\ chain # "idle" => Permuted
    /\ chain = "sorting" => /\ i \in 2..(Count + 1) /\ j \in 1..i
                            /\ i > Count => j = i
                            /\ si # Unread => i <= Count /\ j > 1
                            /\ Placed(InOrderPairs, order, i, j)
    /\ chain = "sorting" /\ ~disturbed => /\ Placed(RankedPairs, order, i, j)
                                          /\ si # Unread => si = EffectiveWeight(order[j])
    /\ chain \in {"trying", "over"} => Placed(InOrderPairs, order, Count + 1, Count + 1)

\* OrderInit establishes SortInv.
LEMMA InitSort == OrderInit => SortInv
BY DEF OrderInit, SortInv

\* The orders read the snapshot and the health cache only.
LEMMA OrdersFollow ==
    /\ openThen' = openThen => InOrderPairs' = InOrderPairs
    /\ UNCHANGED <<openThen, healthCache>> =>
         /\ RankedPairs' = RankedPairs
         /\ \A p : EffectiveWeight(p)' = EffectiveWeight(p)
<1>1. openThen' = openThen => InOrderPairs' = InOrderPairs
    BY DEF InOrderPairs, InOrder
<1>2. healthCache' = healthCache => \A p : EffectiveWeight(p)' = EffectiveWeight(p)
    BY DEF EffectiveWeight
<1>3. UNCHANGED <<openThen, healthCache>> => RankedPairs' = RankedPairs
    BY <1>2 DEF RankedPairs, Ranked, Before
<1> QED
    BY <1>1, <1>2, <1>3

\* The pool as a set of numbers.
LEMMA PoolNumbers ==
    /\ Count \in Nat /\ 1 <= Count /\ IsFiniteSet(Pool) /\ Cardinality(Pool) = Count
    /\ \A a \in Pool : a \in Nat /\ 1 <= a /\ a <= Count
BY OrderAssumption, FS_Interval DEF Pool

\* A comparison keeps SortInv.
LEMMA CompareSorts ==
    ASSUME HealthInv, SortInv, Compare
    PROVE  SortInv'
<1> DEFINE p == order[j]
           q == order[j - 1]
           sq == EffectiveWeight(order[j - 1])
           new == [order EXCEPT ![j] = q, ![j - 1] = p]
<1>1. /\ chain = "sorting" /\ si # Unread /\ si' = Unread /\ chain' = chain
      /\ UNCHANGED <<openThen, healthCache, disturbed>>
    BY DEF Compare, proberVars
<1>2. /\ i \in 2..Count /\ j \in 2..i /\ j \in Pool /\ j - 1 \in Pool /\ j # j - 1
      /\ i \in Nat /\ j \in Nat /\ 2 <= j /\ j <= i /\ i <= Count
    BY <1>1, PoolNumbers DEF SortInv, Pool
<1>3. Permuted /\ Placed(InOrderPairs, order, i, j)
    BY <1>1 DEF SortInv
<1>4. order \in [Pool -> Pool] /\ p \in Pool /\ q \in Pool /\ p # q
    BY <1>2, <1>3 DEF Permuted
<1>5. IF Before(p, si, q, sq) THEN <<p, q>> \in InOrderPairs ELSE <<q, p>> \in InOrderPairs
    BY <1>4, ComparisonIsInOrder
<1>6. ASSUME ~disturbed
      PROVE  /\ Placed(RankedPairs, order, i, j)
             /\ IF Before(p, si, q, sq) THEN <<p, q>> \in RankedPairs
                                        ELSE <<q, p>> \in RankedPairs
    <2>1. Placed(RankedPairs, order, i, j) /\ si = EffectiveWeight(p)
        BY <1>1, <1>6 DEF SortInv
    <2>2. healthCache \in [Pool -> Results]
        BY DEF HealthInv
    <2>3. Before(p, si, q, sq) <=> Ranked(p, q)
        BY <2>1 DEF Ranked
    <2> QED
        BY <1>4, <2>1, <2>2, <2>3, ComparisonRanks
<1>7. InOrderPairs' = InOrderPairs /\ RankedPairs' = RankedPairs
    BY <1>1, OrdersFollow
<1>8. CASE Before(p, si, q, sq)
    <2>1. order' = new /\ j' = j - 1 /\ i' = i
        BY <1>8 DEF Compare
    <2>2. \A R : Placed(R, order, i, j) /\ <<p, q>> \in R => Placed(R, new, i, j - 1)
        BY <1>2, <1>4, SwapPlaces
    <2>3. Placed(InOrderPairs, new, i, j - 1)
        BY <1>3, <1>5, <1>8, <2>2
    <2>4. ~disturbed => Placed(RankedPairs, new, i, j - 1)
        BY <1>6, <1>8, <2>2
    <2>5. Permuted'
        <3>1. /\ new \in [Pool -> Pool] /\ new[j] = q /\ new[j - 1] = p
              /\ \A a \in Pool : a # j /\ a # j - 1 => new[a] = order[a]
            BY <1>2, <1>4
        <3> HIDE DEF new, p, q
        <3>2. p = order[j] /\ q = order[j - 1]
            BY DEF p, q
        <3>3. \A a, b \in Pool : a # b => new[a] # new[b]
            BY <1>2, <1>3, <3>1, <3>2 DEF Permuted
        <3> QED
            BY <2>1, <3>1, <3>3 DEF Permuted
    <2>6. Placed(InOrderPairs, order, i, j)' /\ (~disturbed => Placed(RankedPairs, order, i, j)')
        <3> HIDE DEF new
        <3> QED
            BY <1>7, <2>1, <2>3, <2>4 DEF Placed
    <2>7. i' \in 2..(Count + 1) /\ j' \in 1..i' /\ (i' > Count => j' = i')
        BY <1>2, <2>1, PoolNumbers
    <2> QED
        BY <1>1, <2>5, <2>6, <2>7 DEF SortInv
<1>9. CASE ~Before(p, si, q, sq)
    <2>1. order' = order /\ j' = i + 1 /\ i' = i + 1
        BY <1>9 DEF Compare
    <2>2. Placed(InOrderPairs, order, i + 1, i + 1)
        BY <1>2, <1>3, <1>4, <1>5, <1>9, StopPlaces, InOrderIsTransitive
    <2>3. ~disturbed => Placed(RankedPairs, order, i + 1, i + 1)
        <3>1. healthCache \in [Pool -> Results]
            BY DEF HealthInv
        <3>2. \A a, b, c \in Pool :
                <<a, b>> \in RankedPairs /\ <<b, c>> \in RankedPairs => <<a, c>> \in RankedPairs
            BY <3>1, RankedIsTransitive
        <3> QED
            BY <1>2, <1>4, <1>6, <1>9, <3>2, StopPlaces
    <2>4. Permuted'
        BY <1>3, <2>1 DEF Permuted
    <2>5. Placed(InOrderPairs, order, i, j)' /\ (~disturbed => Placed(RankedPairs, order, i, j)')
        BY <1>7, <2>1, <2>2, <2>3 DEF Placed
    <2>6. i' \in 2..(Count + 1) /\ j' \in 1..i' /\ (i' > Count => j' = i')
        BY <1>2, <2>1, PoolNumbers
    <2> QED
        BY <1>1, <2>4, <2>5, <2>6 DEF SortInv
<1> QED
    BY <1>8, <1>9

\* The other steps of the chain, and the steps of the prober and the breakers between
\* them, keep SortInv.
LEMMA NextSort == HealthInv /\ SortInv /\ [OrderNext]_orderVars => SortInv'
<1> SUFFICES ASSUME HealthInv, SortInv, [OrderNext]_orderVars PROVE SortInv'
    OBVIOUS
<1>1. CASE /\ UNCHANGED <<chain, openThen, order, i, j, si>>
           /\ \/ UNCHANGED <<healthCache, disturbed>>
              \/ disturbed' = (disturbed \/ chain = "sorting")
    <2>1. InOrderPairs' = InOrderPairs
        BY <1>1, OrdersFollow
    <2>2. Permuted' = Permuted
        BY <1>1 DEF Permuted
    <2>3. chain = "sorting" /\ ~disturbed' =>
            /\ ~disturbed /\ RankedPairs' = RankedPairs
            /\ EffectiveWeight(order[j])' = EffectiveWeight(order[j])
        BY <1>1, OrdersFollow
    <2>4. chain = "sorting" /\ ~disturbed' => /\ Placed(RankedPairs, order, i, j)'
                                              /\ si' # Unread => si' = EffectiveWeight(order[j])'
        BY <1>1, <2>3 DEF SortInv, Placed
    <2>5. /\ chain = "sorting" => Placed(InOrderPairs, order, i, j)'
          /\ chain \in {"trying", "over"} => Placed(InOrderPairs, order, Count + 1, Count + 1)'
        BY <1>1, <2>1 DEF SortInv, Placed
    <2> QED
        BY <1>1, <2>2, <2>4, <2>5 DEF SortInv
<1>2. CASE Snapshot
    <2>1. /\ chain = "idle" /\ chain' = "sorting" /\ si' = Unread /\ i' = 2 /\ j' = 2
          /\ order' \in SetToSeqs(Pool)
        BY <1>2 DEF Snapshot, SortInv
    <2>2. Permuted'
        BY <2>1, PoolNumbers DEF SetToSeqs, Permuted, Pool
    <2>3. \A R : Placed(R, order', 2, 2)
        BY PoolNumbers DEF Placed
    <2>4. 2 \in 2..(Count + 1) /\ 2 \in 1..2
        BY PoolNumbers
    <2>5. Placed(InOrderPairs, order, i, j)' /\ Placed(RankedPairs, order, i, j)'
        BY <2>1, <2>3 DEF Placed
    <2> QED
        BY <2>1, <2>2, <2>4, <2>5 DEF SortInv
<1>3. CASE ReadScore
    <2>1. /\ chain = "sorting" /\ i <= Count /\ j > 1 /\ si' = EffectiveWeight(order[j])
          /\ UNCHANGED <<chain, openThen, order, i, j, healthCache, disturbed>>
        BY <1>3 DEF ReadScore, proberVars
    <2>2. InOrderPairs' = InOrderPairs /\ RankedPairs' = RankedPairs /\ Permuted' = Permuted
        BY <2>1, OrdersFollow DEF Permuted
    <2>3. EffectiveWeight(order[j])' = EffectiveWeight(order[j])
        BY <2>1, OrdersFollow
    <2>4. /\ Placed(InOrderPairs, order, i, j)'
          /\ ~disturbed => Placed(RankedPairs, order, i, j)'
        BY <2>1, <2>2 DEF SortInv, Placed
    <2> QED
        BY <2>1, <2>2, <2>3, <2>4 DEF SortInv
<1>4. CASE Compare
    BY <1>4, CompareSorts
<1>5. CASE AtFront
    <2>1. /\ chain = "sorting" /\ i <= Count /\ j = 1 /\ i' = i + 1 /\ j' = i + 1
          /\ UNCHANGED <<chain, openThen, order, si, healthCache, disturbed>>
        BY <1>5 DEF AtFront, proberVars
    <2>2. /\ i \in 2..Count /\ j \in 1..i /\ Permuted /\ si = Unread
          /\ Placed(InOrderPairs, order, i, j) /\ (~disturbed => Placed(RankedPairs, order, i, j))
        BY <2>1, PoolNumbers DEF SortInv
    <2>3. order \in [Pool -> Pool]
        BY <2>2 DEF Permuted
    <2>4. Placed(InOrderPairs, order, i + 1, i + 1)
        BY <2>1, <2>2, <2>3, StopPlaces, InOrderIsTransitive
    <2>5. ~disturbed => Placed(RankedPairs, order, i + 1, i + 1)
        <3>1. healthCache \in [Pool -> Results]
            BY DEF HealthInv
        <3>2. \A a, b, c \in Pool :
                <<a, b>> \in RankedPairs /\ <<b, c>> \in RankedPairs => <<a, c>> \in RankedPairs
            BY <3>1, RankedIsTransitive
        <3> QED
            BY <2>1, <2>2, <2>3, <3>2, StopPlaces
    <2>6. InOrderPairs' = InOrderPairs /\ RankedPairs' = RankedPairs /\ Permuted' = Permuted
        BY <2>1, OrdersFollow DEF Permuted
    <2>7. Placed(InOrderPairs, order, i, j)' /\ (~disturbed => Placed(RankedPairs, order, i, j)')
        BY <2>1, <2>4, <2>5, <2>6 DEF Placed
    <2>8. i' \in 2..(Count + 1) /\ j' \in 1..i' /\ j' = i'
        BY <2>1, <2>2, PoolNumbers
    <2> QED
        BY <2>1, <2>2, <2>6, <2>7, <2>8 DEF SortInv
<1>6. CASE Sorted
    <2>1. /\ chain = "sorting" /\ i > Count /\ chain' = "trying"
          /\ UNCHANGED <<openThen, order>>
        BY <1>6 DEF Sorted
    <2>2. Permuted /\ Placed(InOrderPairs, order, i, j) /\ i = Count + 1 /\ j = i
        BY <2>1, PoolNumbers DEF SortInv
    <2>3. InOrderPairs' = InOrderPairs /\ Permuted' = Permuted
        BY <2>1, OrdersFollow DEF Permuted
    <2>4. Placed(InOrderPairs, order, Count + 1, Count + 1)'
        BY <2>1, <2>2, <2>3 DEF Placed
    <2> QED
        BY <2>1, <2>2, <2>3, <2>4 DEF SortInv
<1>7. CASE TryNext
    <2>1. chain = "trying" /\ chain' \in {"trying", "over"} /\ UNCHANGED <<openThen, order>>
        BY <1>7 DEF TryNext
    <2>2. InOrderPairs' = InOrderPairs /\ Permuted' = Permuted
        BY <2>1, OrdersFollow DEF Permuted
    <2>3. Placed(InOrderPairs, order, Count + 1, Count + 1)'
        BY <2>1, <2>2 DEF SortInv, Placed
    <2> QED
        BY <2>1, <2>2, <2>3 DEF SortInv
<1>8. \/ /\ UNCHANGED <<chain, openThen, order, i, j, si>>
         /\ \/ UNCHANGED <<healthCache, disturbed>>
            \/ disturbed' = (disturbed \/ chain = "sorting")
      \/ Snapshot \/ ReadScore \/ Compare \/ AtFront \/ Sorted \/ TryNext
    BY DEF OrderNext, orderVars, proberVars, chainVars, Probe, Health, Gone, UpdateHealth,
           BreakerTurns
<1> QED
    BY <1>1, <1>2, <1>3, <1>4, <1>5, <1>6, <1>7, <1>8

\* A sort moves the providers: each is somewhere in the order.
LEMMA PermutedIsOnto == Permuted => \A p \in Pool : \E k \in Pool : order[k] = p
<1> SUFFICES ASSUME Permuted PROVE order \in Surjection(Pool, Pool)
    BY DEF Surjection
<1>1. order \in Injection(Pool, Pool)
    BY DEF Permuted, Injection, IsInjective
<1> QED
    BY <1>1, PoolNumbers, FS_Injection

(***************************************************************************)
(* The providers tried so far.                                             *)
(***************************************************************************)
TriedInv ==
    /\ chain \in {"idle", "sorting"} => tried = <<>>
    /\ chain \in {"trying", "over"} =>
         /\ failed \in Pool /\ tried \in Seq(Pool) /\ Len(tried) <= Len(Candidates)
         /\ \A k \in 1..Len(tried) : tried[k] = Candidates[k]

\* The candidates are providers of the pool.
LEMMA CandidatesType ==
    ASSUME Permuted, NEW without \in Pool
    PROVE  RemoveAt(order, CHOOSE k \in Pool : order[k] = without) \in Seq(Pool)
<1> DEFINE at == CHOOSE k \in Pool : order[k] = without
<1>1. at \in Pool
    BY PermutedIsOnto
<1> HIDE DEF at
<1>2. order \in Seq(Pool) /\ Len(order) = Count
    BY PoolNumbers DEF Permuted, Pool
<1>3. at \in Nat /\ 1 <= at /\ at <= Count /\ Count \in Nat
    BY <1>1, PoolNumbers
<1>4. SubSeq(order, 1, at - 1) \in Seq(Pool) /\ SubSeq(order, at + 1, Len(order)) \in Seq(Pool)
    <2>1. /\ \A k \in 1..(at - 1) : order[k] \in Pool
          /\ \A k \in (at + 1)..Count : order[k] \in Pool
        BY <1>2, <1>3 DEF Permuted, Pool
    <2> QED
        BY <1>2, <1>3, <2>1, SubSeqProperties
<1>5. RemoveAt(order, at) = SubSeq(order, 1, at - 1) \o SubSeq(order, at + 1, Len(order))
    BY DEF RemoveAt
<1>6. RemoveAt(order, at) \in Seq(Pool)
    BY <1>4, <1>5, ConcatProperties
<1> QED
    BY <1>6 DEF at

\* OrderInit establishes TriedInv, and the steps keep it.
LEMMA InitTried == OrderInit => TriedInv
BY DEF OrderInit, TriedInv

\* Every step keeps TriedInv.
LEMMA NextTried == SortInv /\ TriedInv /\ [OrderNext]_orderVars => TriedInv'
<1> SUFFICES ASSUME SortInv, TriedInv, [OrderNext]_orderVars PROVE TriedInv'
    OBVIOUS
<1>1. CASE UNCHANGED <<chain, order, failed, tried>>
    <2>1. Candidates' = Candidates
        BY <1>1 DEF Candidates
    <2> QED
        BY <1>1, <2>1 DEF TriedInv
<1>2. CASE UNCHANGED tried /\ chain \in {"idle", "sorting"} /\ chain' = "sorting"
    BY <1>2 DEF TriedInv
<1>3. CASE Sorted
    <2>1. /\ chain = "sorting" /\ chain' = "trying" /\ failed' \in Pool
          /\ order' = order /\ tried' = tried /\ tried = <<>>
        BY <1>3 DEF Sorted, TriedInv
    <2>3. Len(Candidates') \in Nat
        <3>1. Permuted
            BY <2>1 DEF SortInv
        <3>2. Candidates' \in Seq(Pool)
            BY <2>1, <3>1, CandidatesType DEF Candidates
        <3> QED
            BY <3>2, LenProperties
    <2>4. Len(tried') = 0 /\ tried' \in Seq(Pool)
        BY <2>1, EmptySeq
    <2> QED
        BY <2>1, <2>3, <2>4 DEF TriedInv
<1>4. CASE TryNext
    <2>1. chain = "trying" /\ UNCHANGED <<order, failed>> /\ chain' \in {"trying", "over"}
        BY <1>4 DEF TryNext
    <2>2. Candidates' = Candidates
        BY <2>1 DEF Candidates
    <2>3. /\ failed \in Pool /\ tried \in Seq(Pool) /\ Len(tried) <= Len(Candidates)
          /\ \A k \in 1..Len(tried) : tried[k] = Candidates[k]
        BY <2>1 DEF TriedInv
    <2>4. Candidates \in Seq(Pool) /\ Len(Candidates) \in Nat /\ Len(tried) \in Nat
        <3>1. Permuted
            BY <2>1 DEF SortInv
        <3>2. Candidates \in Seq(Pool)
            BY <2>3, <3>1, CandidatesType DEF Candidates
        <3> QED
            BY <2>3, <3>2, LenProperties
    <2>5. CASE tried' = tried
        BY <2>1, <2>2, <2>3, <2>5 DEF TriedInv
    <2>6. CASE Len(tried) # Len(Candidates) /\ tried' = Append(tried, Candidates[Len(tried) + 1])
        <3>1. Len(tried) + 1 \in 1..Len(Candidates)
            BY <2>3, <2>4, <2>6
        <3>2. Candidates[Len(tried) + 1] \in Pool
            BY <2>4, <3>1, ElementOfSeq
        <3>3. /\ tried' \in Seq(Pool) /\ Len(tried') = Len(tried) + 1
              /\ \A k \in 1..Len(tried) : tried'[k] = tried[k]
              /\ tried'[Len(tried) + 1] = Candidates[Len(tried) + 1]
            BY <2>3, <2>6, <3>2, AppendProperties
        <3>4. \A k \in 1..Len(tried') : tried'[k] = Candidates[k]
            BY <2>3, <2>4, <3>3
        <3> QED
            BY <2>1, <2>2, <2>3, <2>4, <3>1, <3>3, <3>4 DEF TriedInv
    <2> QED
        BY <1>4, <2>5, <2>6 DEF TryNext
<1>5. \/ UNCHANGED <<chain, order, failed, tried>>
      \/ UNCHANGED tried /\ chain \in {"idle", "sorting"} /\ chain' = "sorting"
      \/ Sorted \/ TryNext
    BY DEF OrderNext, orderVars, chainVars, Probe, Health, Gone, UpdateHealth,
           BreakerTurns, Snapshot, ReadScore, Compare, AtFront
<1> QED
    BY <1>1, <1>2, <1>3, <1>4, <1>5

(***************************************************************************)
(* PreferenceHolds for every pool of fewer than 20 providers, all weights, *)
(* priorities, prices and latencies, and every order in which the prober   *)
(* and the breakers interfere with the comparisons.                        *)
(***************************************************************************)
THEOREM ChainFollowsThePreference == OrderSpec => []PreferenceHolds
<1>1. HealthInv /\ SortInv /\ TriedInv => PreferenceHolds
    <2> SUFFICES ASSUME HealthInv, SortInv, TriedInv PROVE PreferenceHolds
        OBVIOUS
    <2> DEFINE done == chain = "sorting" /\ i > Count
    <2>1. chain # "idle" => Len(order) = Count /\ ToSet(order) = Pool
        <3> SUFFICES ASSUME Permuted PROVE Len(order) = Count /\ ToSet(order) = Pool
            BY DEF SortInv
        <3>1. Len(order) = Count /\ DOMAIN order = Pool
            BY PoolNumbers DEF Permuted, Pool
        <3>2. \A p \in Pool : \E k \in Pool : order[k] = p
            BY PermutedIsOnto
        <3> QED
            BY <3>1, <3>2 DEF ToSet, Permuted
    <2>2. done => i = Count + 1 /\ j = Count + 1
        BY PoolNumbers DEF SortInv
    <2>3. \A R : Placed(R, order, Count + 1, Count + 1) =>
                  \A a, b \in Pool : a < b => <<order[a], order[b]>> \in R
        BY PoolNumbers DEF Placed
    <2>4. done \/ chain \in {"trying", "over"} =>
            \A a, b \in Pool : a < b => <<order[a], order[b]>> \in InOrderPairs
        <3>1. done \/ chain \in {"trying", "over"} => Placed(InOrderPairs, order, Count + 1, Count + 1)
            BY <2>2 DEF SortInv
        <3> QED
            BY <2>3, <3>1
    <2>5. done /\ ~disturbed => \A a, b \in Pool : a < b => <<order[a], order[b]>> \in RankedPairs
        <3>1. done /\ ~disturbed => Placed(RankedPairs, order, Count + 1, Count + 1)
            BY <2>2 DEF SortInv
        <3> QED
            BY <2>3, <3>1
    <2>7. /\ \A p, q : <<p, q>> \in InOrderPairs => InOrder(p, q)
          /\ \A p, q : <<p, q>> \in RankedPairs => Ranked(p, q)
        BY DEF InOrderPairs, RankedPairs
    <2>6. chain \in {"trying", "over"} => IsPrefix(tried, Candidates)
        <3> SUFFICES ASSUME chain \in {"trying", "over"} PROVE IsPrefix(tried, Candidates)
            OBVIOUS
        <3>1. /\ failed \in Pool /\ tried \in Seq(Pool) /\ Len(tried) <= Len(Candidates)
              /\ \A k \in 1..Len(tried) : tried[k] = Candidates[k]
            BY DEF TriedInv
        <3>2. Permuted
            BY DEF SortInv
        <3>3. Candidates \in Seq(Pool)
            BY <3>1, <3>2, CandidatesType DEF Candidates
        <3> HIDE DEF TriedInv
        <3>4. SubSeq(tried, 1, Len(tried)) = SubSeq(Candidates, 1, Len(tried))
            BY <3>1, <3>3, LenProperties
        <3> QED
            BY <3>1, <3>4 DEF IsPrefix
    <2> QED
        BY <2>1, <2>4, <2>5, <2>6, <2>7 DEF PreferenceHolds, Ranked
<1>2. HealthInv /\ SortInv /\ TriedInv /\ [OrderNext]_orderVars => (HealthInv /\ SortInv /\ TriedInv)'
    BY NextHealth, NextSort, NextTried
<1> QED
    BY <1>1, <1>2, InitHealth, InitSort, InitTried, PTL DEF OrderSpec

-----------------------------------------------------------------------------
(***************************************************************************)
(* The usage log of CostLedger.  A line without its newline is at stake    *)
(* with the next write: what is lost, with what may be lost by this write, *)
(* is paid for by the writes that failed.                                  *)
(***************************************************************************)
LastLine == log[Len(log)]
AtStake == IF ~open THEN 0 ELSE IF LastLine = Garbage THEN 1 ELSE 2
Increasing(lines) == \A a, b \in DOMAIN lines : a < b /\ lines[b] # Garbage => lines[a] < lines[b]

UsageRecord == [key : Keys, model : Models, tokens : Amounts, day : Days]

LogInv ==
    /\ recorded \in Seq(UsageRecord) /\ log \in Seq(0..Len(recorded))
    /\ calling \in [Requests -> Keys \cup {Idle}] /\ day \in Days
    /\ open \in BOOLEAN /\ faults \in Nat
    /\ open => log # <<>>
    /\ Increasing(log)
    /\ Cardinality(Lost) + AtStake <= 2 * faults

\* Nothing of a finite set is more than its elements and the ones added.
LEMMA OneMore ==
    ASSUME NEW S, IsFiniteSet(S), NEW x, NEW T, T \subseteq S \cup {x}
    PROVE  IsFiniteSet(T) /\ Cardinality(T) \in Nat /\ Cardinality(T) <= Cardinality(S) + 1
<1>1. /\ IsFiniteSet(S \cup {x}) /\ Cardinality(S) \in Nat /\ Cardinality(S \cup {x}) \in Nat
      /\ Cardinality(S \cup {x}) = IF x \in S THEN Cardinality(S) ELSE Cardinality(S) + 1
    BY FS_AddElement, FS_CardinalityType
<1>2. IsFiniteSet(T) /\ Cardinality(T) <= Cardinality(S \cup {x}) /\ Cardinality(T) \in Nat
    BY <1>1, FS_Subset, FS_CardinalityType
<1> QED
    BY <1>1, <1>2

\* The records are finitely many, and so are those that are lost.
LEMMA LostIsFinite ==
    ASSUME recorded \in Seq(UsageRecord)
    PROVE  /\ Len(recorded) \in Nat /\ DOMAIN recorded = 1..Len(recorded)
           /\ IsFiniteSet(Lost) /\ Cardinality(Lost) \in Nat
<1>1. Len(recorded) \in Nat /\ DOMAIN recorded = 1..Len(recorded)
    BY LenProperties
<1>2. IsFiniteSet(DOMAIN recorded)
    BY <1>1, FS_Interval
<1> QED
    BY <1>1, <1>2, FS_Subset, FS_CardinalityType DEF Lost

\* Init establishes LogInv.
LEMMA InitLog == Init => LogInv
<1> SUFFICES ASSUME Init PROVE LogInv
    OBVIOUS
<1>1. /\ recorded = <<>> /\ log = <<>> /\ open = FALSE /\ faults = 0 /\ day = 1
      /\ calling = [r \in Requests |-> Idle]
    BY DEF Init
<1>2. Lost = {} /\ DOMAIN log = {}
    BY <1>1 DEF Lost
<1>3. 1 \in Days
    BY LedgerAssumption DEF Days
<1>4. Cardinality(Lost) = 0 /\ AtStake = 0
    BY <1>1, <1>2, FS_EmptySet DEF AtStake
<1>5. Increasing(log)
    BY <1>2 DEF Increasing
<1>6. recorded \in Seq(UsageRecord) /\ log \in Seq(0..Len(recorded))
    BY <1>1, EmptySeq
<1>7. Cardinality(Lost) + AtStake <= 2 * faults
    BY <1>1, <1>4
<1> QED
    BY <1>1, <1>3, <1>5, <1>6, <1>7 DEF LogInv

\* The five things a write may do.
LEMMA WritesDoOneOf ==
    ASSUME NEW id, NEW how \in {"whole", "part", "unended", "lost"}, AppendLog(id, how),
           open \in BOOLEAN
    PROVE  \/ how = "lost" /\ log' = log /\ open' = open
           \/ how # "lost" /\ open /\ log' = [log EXCEPT ![Len(log)] = Garbage]
              /\ open' = (how # "whole")
           \/ how = "whole" /\ ~open /\ log' = Append(log, id) /\ open' = FALSE
           \/ how = "part" /\ ~open /\ log' = Append(log, Garbage) /\ open' = TRUE
           \/ how = "unended" /\ ~open /\ log' = Append(log, id) /\ open' = TRUE
BY DEF AppendLog

\* A record keeps LogInv, however its write goes.
LEMMA RecordKeepsLog ==
    ASSUME LogInv, NEW r \in Requests, NEW m \in Models, NEW n \in Amounts,
           NEW how \in {"whole", "part", "unended", "lost"}, Record(r, m, n, how)
    PROVE  LogInv'
<1> DEFINE id == Len(recorded) + 1
           e == [key |-> calling[r], model |-> m, tokens |-> n, day |-> day]
<1>1. /\ recorded' = Append(recorded, e) /\ AppendLog(id, how) /\ calling[r] # Idle
      /\ calling' = [calling EXCEPT ![r] = Idle] /\ day' = day
      /\ faults' = IF how = "whole" THEN faults ELSE faults + 1
    BY DEF Record
<1>2. /\ Len(recorded) \in Nat /\ DOMAIN recorded = 1..Len(recorded)
      /\ IsFiniteSet(Lost) /\ Cardinality(Lost) \in Nat
    BY LostIsFinite DEF LogInv
<1>3. e \in UsageRecord
    BY <1>1 DEF LogInv, UsageRecord
<1> HIDE DEF e
<1>4. /\ recorded' \in Seq(UsageRecord) /\ Len(recorded') = id
      /\ DOMAIN recorded' = DOMAIN recorded \cup {id}
    <2>1. recorded' \in Seq(UsageRecord) /\ Len(recorded') = id
        BY <1>1, <1>3, AppendProperties DEF LogInv
    <2> QED
        BY <1>2, <2>1, LenProperties
<1>5. /\ log \in Seq(0..id) /\ Len(log) \in Nat /\ DOMAIN log = 1..Len(log)
      /\ \A k \in DOMAIN log : log[k] \in 0..Len(recorded)
    <2>1. log \in Seq(0..Len(recorded)) /\ 0..Len(recorded) \subseteq 0..id
        BY <1>2 DEF LogInv
    <2> QED
        BY <2>1, SeqMonotonic, LenProperties, ElementOfSeq
<1>6. calling' \in [Requests -> Keys \cup {Idle}] /\ day' \in Days /\ faults' \in Nat
    BY <1>1 DEF LogInv
<1>7. Increasing(log) /\ (open => log # <<>>) /\ faults \in Nat /\ open \in BOOLEAN
      /\ Cardinality(Lost) + AtStake <= 2 * faults
    BY DEF LogInv
<1> DEFINE Keeps == /\ log' \in Seq(0..id) /\ open' \in BOOLEAN
                    /\ open' => log' # <<>>
                    /\ Increasing(log')
                    /\ Cardinality(Lost') + AtStake' <= 2 * faults'
<1>8. ASSUME how = "lost" /\ log' = log /\ open' = open PROVE Keeps
    <2>1. Lost' \subseteq Lost \cup {id} /\ AtStake' = AtStake
        BY <1>4, <1>8 DEF Lost, Logged, AtStake, LastLine
    <2>2. Cardinality(Lost') \in Nat /\ Cardinality(Lost') <= Cardinality(Lost) + 1
        BY <1>2, <2>1, OneMore
    <2>3. AtStake \in {0, 1, 2}
        BY DEF AtStake
    <2>4. Cardinality(Lost') + AtStake' <= 2 * faults'
        BY <1>1, <1>2, <1>7, <1>8, <2>1, <2>2, <2>3
    <2> QED
        BY <1>5, <1>7, <1>8, <2>4
<1>9. ASSUME how # "lost" /\ open /\ log' = [log EXCEPT ![Len(log)] = Garbage],
             open' = (how # "whole")
      PROVE  Keeps
    <2>1. Len(log) \in DOMAIN log /\ LastLine \in 0..Len(recorded)
        BY <1>5, <1>7, <1>9, EmptySeq DEF LastLine
    <2>2. /\ log' \in Seq(0..id) /\ Len(log') = Len(log) /\ DOMAIN log' = DOMAIN log
          /\ log'[Len(log)] = Garbage
          /\ \A k \in DOMAIN log : k # Len(log) => log'[k] = log[k]
        <3>1. Garbage \in 0..id
            BY <1>2 DEF Garbage
        <3> QED
            BY <1>5, <1>9, <2>1, <3>1, ExceptSeq, LenProperties
    <2>3. log' # <<>>
        BY <2>1, <2>2
    <2>4. Increasing(log')
        <3>1. \A a \in DOMAIN log : a <= Len(log) /\ a \in Nat
            BY <1>5
        <3> QED
            BY <1>5, <1>7, <2>1, <2>2, <3>1 DEF Increasing
    <2>5. Lost' \subseteq (Lost \cup {LastLine}) \cup {id}
        <3>1. \A k \in DOMAIN log : log[k] # LastLine => k # Len(log)
            BY DEF LastLine
        <3>2. Logged \ {LastLine} \subseteq Logged'
            BY <2>2, <3>1 DEF Logged
        <3> QED
            BY <1>4, <3>2 DEF Lost
    <2>6. LastLine = Garbage => Lost' \subseteq Lost \cup {id}
        <3>1. LastLine = Garbage => \A k \in DOMAIN log : log'[k] = log[k]
            BY <2>2 DEF LastLine
        <3>2. LastLine = Garbage => Logged' = Logged
            BY <2>2, <3>1 DEF Logged
        <3> QED
            BY <1>4, <3>2 DEF Lost
    <2>7. AtStake' = IF how = "whole" THEN 0 ELSE 1
        BY <1>9, <2>2 DEF AtStake, LastLine
    <2>8. Cardinality(Lost') \in Nat /\ Cardinality(Lost') + AtStake' <= 2 * faults'
        <3>1. CASE LastLine = Garbage
            <4>1. Cardinality(Lost') \in Nat /\ Cardinality(Lost') <= Cardinality(Lost) + 1
                BY <1>2, <2>6, <3>1, OneMore
            <4>2. AtStake = 1
                BY <1>9, <3>1 DEF AtStake
            <4> QED
                BY <1>1, <1>2, <1>7, <1>9, <2>7, <4>1, <4>2
        <3>2. CASE LastLine # Garbage
            <4>1. /\ IsFiniteSet(Lost \cup {LastLine}) /\ Cardinality(Lost \cup {LastLine}) \in Nat
                  /\ Cardinality(Lost \cup {LastLine}) <= Cardinality(Lost) + 1
                BY <1>2, OneMore
            <4>2. /\ Cardinality(Lost') \in Nat
                  /\ Cardinality(Lost') <= Cardinality(Lost \cup {LastLine}) + 1
                BY <2>5, <4>1, OneMore
            <4>3. AtStake = 2
                BY <1>9, <3>2 DEF AtStake
            <4> QED
                BY <1>1, <1>2, <1>7, <1>9, <2>7, <4>1, <4>2, <4>3
        <3> QED
            BY <3>1, <3>2
    <2>9. open' \in BOOLEAN
        BY <1>9
    <2> QED
        BY <2>2, <2>3, <2>4, <2>8, <2>9
<1>10. ASSUME NEW line \in {id, Garbage}, ~open, log' = Append(log, line), open' \in BOOLEAN
       PROVE  /\ log' \in Seq(0..id) /\ log' # <<>> /\ Increasing(log') /\ LastLine' = line
              /\ Lost' \subseteq Lost \cup {id}
              /\ line = id => Lost' \subseteq Lost
    <2>1. line \in 0..id
        BY <1>2, <1>10 DEF Garbage
    <2>2. /\ log' \in Seq(0..id) /\ log' # <<>> /\ Len(log') = Len(log) + 1
          /\ \A k \in 1..Len(log) : log'[k] = log[k]
          /\ log'[Len(log) + 1] = line
        BY <1>5, <1>10, <2>1, AppendProperties
    <2>3. DOMAIN log' = DOMAIN log \cup {Len(log) + 1}
        BY <1>5, <2>2, LenProperties
    <2>4. Increasing(log')
        <3> SUFFICES ASSUME NEW a \in DOMAIN log', NEW b \in DOMAIN log', a < b, log'[b] # Garbage
                     PROVE  log'[a] < log'[b]
            BY DEF Increasing
        <3>1. a \in DOMAIN log
            BY <1>5, <2>3
        <3>2. CASE b \in DOMAIN log
            BY <1>5, <1>7, <2>2, <3>1, <3>2 DEF Increasing
        <3>3. CASE b = Len(log) + 1
            <4>1. log'[b] = id /\ log'[a] = log[a]
                BY <1>5, <1>10, <2>2, <3>1, <3>3
            <4> QED
                BY <1>2, <1>5, <3>1, <4>1
        <3> QED
            BY <2>3, <3>2, <3>3
    <2>5. Logged \subseteq Logged' /\ (line = id => id \in Logged')
        <3>1. \A k \in DOMAIN log : log'[k] = log[k] /\ k \in DOMAIN log'
            BY <1>5, <2>2, <2>3
        <3>2. id # Garbage
            BY <1>2 DEF Garbage
        <3> QED
            BY <2>2, <2>3, <3>1, <3>2 DEF Logged
    <2>6. LastLine' = line
        BY <2>2 DEF LastLine
    <2> QED
        BY <1>4, <2>2, <2>4, <2>5, <2>6 DEF Lost
<1>11. ASSUME how = "whole" /\ ~open /\ log' = Append(log, id) /\ open' = FALSE
       PROVE  Keeps
    <2>1. /\ log' \in Seq(0..id) /\ log' # <<>> /\ Increasing(log') /\ Lost' \subseteq Lost
        BY <1>10, <1>11
    <2>2. Cardinality(Lost') \in Nat /\ Cardinality(Lost') <= Cardinality(Lost)
        BY <1>2, <2>1, FS_Subset, FS_CardinalityType
    <2>3. AtStake' = 0 /\ AtStake = 0 /\ faults' = faults
        BY <1>1, <1>11 DEF AtStake
    <2>4. Cardinality(Lost') + AtStake' <= 2 * faults'
        BY <1>2, <1>7, <2>2, <2>3
    <2> QED
        BY <1>11, <2>1, <2>4
<1>12. ASSUME how = "part" /\ ~open /\ log' = Append(log, Garbage) /\ open' = TRUE
       PROVE  Keeps
    <2>1. /\ log' \in Seq(0..id) /\ log' # <<>> /\ Increasing(log') /\ LastLine' = Garbage
          /\ Lost' \subseteq Lost \cup {id}
        BY <1>10, <1>12
    <2>2. Cardinality(Lost') \in Nat /\ Cardinality(Lost') <= Cardinality(Lost) + 1
        BY <1>2, <2>1, OneMore
    <2>3. AtStake' = 1 /\ AtStake = 0 /\ faults' = faults + 1
        BY <1>1, <1>12, <2>1 DEF AtStake
    <2> QED
        BY <1>2, <1>7, <1>12, <2>1, <2>2, <2>3
<1>13. ASSUME how = "unended" /\ ~open /\ log' = Append(log, id) /\ open' = TRUE
       PROVE  Keeps
    <2>1. /\ log' \in Seq(0..id) /\ log' # <<>> /\ Increasing(log') /\ Lost' \subseteq Lost
        BY <1>10, <1>13
    <2>2. Cardinality(Lost') \in Nat /\ Cardinality(Lost') <= Cardinality(Lost)
        BY <1>2, <2>1, FS_Subset, FS_CardinalityType
    <2>3. AtStake' \in {1, 2} /\ AtStake = 0 /\ faults' = faults + 1
        BY <1>1, <1>13 DEF AtStake
    <2> QED
        BY <1>2, <1>7, <1>13, <2>1, <2>2, <2>3
<1>14. Keeps
    BY <1>1, <1>7, <1>8, <1>9, <1>11, <1>12, <1>13, WritesDoOneOf
<1> QED
    BY <1>4, <1>6, <1>14 DEF LogInv, Increasing

\* Every step keeps LogInv; a crash and a restart leave the file alone.
LEMMA NextLog == LogInv /\ [Next]_vars => LogInv'
<1> SUFFICES ASSUME LogInv, [Next]_vars PROVE LogInv'
    OBVIOUS
<1>1. ASSUME NEW r \in Requests, NEW m \in Models, NEW n \in Amounts,
             NEW how \in {"whole", "part", "unended", "lost"}, Record(r, m, n, how)
      PROVE  LogInv'
    BY <1>1, RecordKeepsLog
<1>2. CASE /\ UNCHANGED <<recorded, log, open, faults>>
           /\ calling' \in [Requests -> Keys \cup {Idle}] /\ day' \in Days
    BY <1>2 DEF LogInv, Increasing, Lost, Logged, AtStake, LastLine
<1>3. ASSUME NEW r \in Requests, NEW k \in Keys, CheckQuota(r, k) PROVE LogInv'
    BY <1>2, <1>3 DEF CheckQuota, LogInv
<1>4. ASSUME NEW r \in Requests, NoUsage(r) PROVE LogInv'
    BY <1>2, <1>4 DEF NoUsage, LogInv
<1>5. CASE Crash
    BY <1>2, <1>5 DEF Crash, LogInv
<1>6. CASE Restart
    BY <1>2, <1>6 DEF Restart, LogInv
<1>7. CASE NextDay
    <2>1. day' \in Days
        BY <1>7, LedgerAssumption DEF NextDay, LogInv, Days
    <2> QED
        BY <1>2, <1>7, <2>1 DEF NextDay, LogInv
<1>8. CASE UNCHANGED vars
    BY <1>2, <1>8 DEF vars, LogInv
<1> QED
    BY <1>1, <1>3, <1>4, <1>5, <1>6, <1>7, <1>8 DEF Next

(***************************************************************************)
(* LossIsBounded for any number of records, faults and restarts, wherever  *)
(* the writes break off: each costs two records at most.                   *)
(***************************************************************************)
THEOREM EachFaultLosesTwo == Spec => []LossIsBounded
<1>1. LogInv => LossIsBounded
    <2> SUFFICES ASSUME LogInv PROVE LossIsBounded
        OBVIOUS
    <2>1. Cardinality(Lost) \in Nat /\ AtStake \in {0, 1, 2} /\ faults \in Nat
        BY LostIsFinite DEF LogInv, AtStake
    <2> QED
        BY <2>1 DEF LogInv, Increasing, LossIsBounded
<1> QED
    BY <1>1, InitLog, NextLog, PTL DEF Spec

\* The largest of some numbers up to n.
LEMMA LargestNumber ==
    ASSUME NEW n \in Nat, NEW T \in SUBSET (1..n), T # {}
    PROVE  Max(T) \in T /\ \A x \in T : x <= Max(T)
<1> DEFINE below == {n - x : x \in T}
<1>1. below \in SUBSET Nat /\ below # {}
    <2>1. \A x \in T : n - x \in Nat
        OBVIOUS
    <2> QED BY <2>1
<1>2. PICK m \in below : \A y \in below : m <= y
    BY <1>1, LeastNumber
<1>3. PICK x \in T : m = n - x
    BY <1>2
<1>4. \A y \in T : x >= y
    <2> SUFFICES ASSUME NEW y \in T PROVE x >= y
        OBVIOUS
    <2>1. n - y \in below /\ x \in 1..n /\ y \in 1..n
        OBVIOUS
    <2>2. n - x <= n - y
        BY <1>2, <1>3, <2>1
    <2> QED BY <2>1, <2>2
<1>5. Max(T) \in T /\ \A y \in T : Max(T) >= y
    BY <1>4 DEF Max
<1> QED BY <1>5
-----------------------------------------------------------------------------
(***************************************************************************)
(* The aggregates of CostLedger as sums over the records.                  *)
(***************************************************************************)
Weights(rec) == [id \in DOMAIN rec |-> rec[id].tokens]
TokensIn(rec, ids) == MapThenSumSet(LAMBDA id : rec[id].tokens, ids)

Adds(h, rec, ids) ==
    h = [T \in SUBSET ids |-> IF T = {} THEN 0
           ELSE rec[CHOOSE x \in T : TRUE].tokens + h[T \ {CHOOSE x \in T : TRUE}]]

\* The fold over the tokens is what its recursion says.
LEMMA TokensByRecursion ==
    ASSUME NEW rec, NEW ids, NEW f, Adds(f, rec, ids), \A h : Adds(h, rec, ids) => h = f
    PROVE  TokensIn(rec, ids) = f[ids]
BY DEF Adds, TokensIn, MapThenSumSet, MapThenFoldSet

\* Records have finitely many amounts, and those add up.
LEMMA RecordsHaveSums ==
    ASSUME NEW rec \in Seq(UsageRecord)
    PROVE  /\ Len(rec) \in Nat /\ DOMAIN rec = 1..Len(rec)
           /\ IsFiniteSet(DOMAIN rec) /\ Weights(rec) \in [DOMAIN rec -> Nat]
           /\ \E g : IsSum(g, Weights(rec), DOMAIN rec)
<1>1. Len(rec) \in Nat /\ DOMAIN rec = 1..Len(rec) /\ IsFiniteSet(DOMAIN rec)
    BY LenProperties, FS_Interval
<1>2. \A id \in DOMAIN rec : rec[id].tokens \in Nat
    <2> SUFFICES ASSUME NEW id \in DOMAIN rec PROVE rec[id].tokens \in Nat
        OBVIOUS
    <2>1. rec[id] \in UsageRecord
        BY <1>1, ElementOfSeq
    <2> QED BY <2>1, LedgerAssumption DEF UsageRecord
<1>3. Weights(rec) \in [DOMAIN rec -> Nat]
    BY <1>2 DEF Weights
<1> QED BY <1>1, <1>3, SumExists

\* Tokens adds them.
LEMMA TokensAreSum ==
    ASSUME NEW rec \in Seq(UsageRecord), NEW g, IsSum(g, Weights(rec), DOMAIN rec),
           NEW R \in SUBSET DOMAIN rec
    PROVE  TokensIn(rec, R) = g[R] /\ g[R] \in Nat
<1> DEFINE f == Part(g, R)
           w == [id \in R |-> rec[id].tokens]
<1>1. IsFiniteSet(R)
    BY RecordsHaveSums, FS_Subset
<1>2. IsSum(f, w, R)
    <2>1. \A id \in R : w[id] = Weights(rec)[id]
        BY DEF Weights
    <2> HIDE DEF w
    <2> QED BY <2>1, SumOfPart
<1>3. f[R] = g[R] /\ g[R] \in Nat
    BY DEF IsSum, Part
<1> HIDE DEF f
<1>4. AddsUp(f, w, R) /\ \A h : AddsUp(h, w, R) => h = f
    <2> HIDE DEF w
    <2> QED BY <1>1, <1>2, AnySums
<1>5. \A T \in SUBSET R :
        T # {} => w[CHOOSE x \in T : TRUE] = rec[CHOOSE x \in T : TRUE].tokens
    OBVIOUS
<1> HIDE DEF w
<1>6. ASSUME NEW h PROVE AddsUp(h, w, R) <=> Adds(h, rec, R)
    <2>1. [T \in SUBSET R |-> IF T = {} THEN 0
             ELSE w[CHOOSE x \in T : TRUE] + h[T \ {CHOOSE x \in T : TRUE}]]
          = [T \in SUBSET R |-> IF T = {} THEN 0
               ELSE rec[CHOOSE x \in T : TRUE].tokens + h[T \ {CHOOSE x \in T : TRUE}]]
        BY <1>5
    <2> QED BY <2>1 DEF AddsUp, Adds
<1>7. Adds(f, rec, R)
    BY <1>4, <1>6
<1>8. ASSUME NEW h, Adds(h, rec, R) PROVE h = f
    BY <1>4, <1>6, <1>8
<1>9. TokensIn(rec, R) = f[R]
    BY <1>7, <1>8, TokensByRecursion
<1> QED BY <1>3, <1>9

\* replayLog's pass over the lines as a recursion from the last line.
ReplayedFrom(rec, lines, about) ==
    FoldLeft(LAMBDA sum, id : IF id \in about THEN sum + rec[id].tokens ELSE sum, 0, lines)
Reads(h, rec, lines, about) ==
    h = [T \in SUBSET DOMAIN lines |-> IF T = {} THEN 0
           ELSE IF lines[Max(T)] \in about
                THEN h[T \ {Max(T)}] + rec[lines[Max(T)]].tokens
                ELSE h[T \ {Max(T)}]]

\* So is the fold of the replay.
LEMMA ReplayByRecursion ==
    ASSUME NEW rec, NEW lines, NEW about, NEW f, Reads(f, rec, lines, about),
           \A h : Reads(h, rec, lines, about) => h = f
    PROVE  ReplayedFrom(rec, lines, about) = f[DOMAIN lines]
BY DEF Reads, ReplayedFrom, FoldLeft, MapThenFoldSet

\* What a line adds to an aggregate.
LineWeights(rec, lines, about) ==
    [x \in DOMAIN lines |-> IF lines[x] \in about THEN rec[lines[x]].tokens ELSE 0]

\* The pass adds up the lines.
LEMMA ReplayAddsLines ==
    ASSUME NEW rec \in Seq(UsageRecord), NEW lines \in Seq(0..Len(rec)),
           NEW about \in SUBSET DOMAIN rec
    PROVE  /\ IsFiniteSet(DOMAIN lines)
           /\ LineWeights(rec, lines, about) \in [DOMAIN lines -> Nat]
           /\ \E g : /\ IsSum(g, LineWeights(rec, lines, about), DOMAIN lines)
                     /\ ReplayedFrom(rec, lines, about) = g[DOMAIN lines]
<1> DEFINE D == DOMAIN lines
           w == LineWeights(rec, lines, about)
           c == [T \in SUBSET D |-> Max(T)]
           In == {x \in D : lines[x] \in about}
           t == [x \in D |-> rec[lines[x]].tokens]
<1>1. Len(lines) \in Nat /\ D = 1..Len(lines) /\ IsFiniteSet(D)
    BY LenProperties, FS_Interval
<1>2. \A T \in SUBSET D : T # {} => Max(T) \in T
    BY <1>1, LargestNumber
<1>3. Picks(c, D) /\ \A T \in SUBSET D : c[T] = Max(T)
    BY <1>2 DEF Picks
<1>4. \A id \in DOMAIN rec : rec[id].tokens \in Nat
    <2>1. Weights(rec) \in [DOMAIN rec -> Nat]
        BY RecordsHaveSums
    <2> QED BY <2>1 DEF Weights
<1>5. w \in [D -> Nat]
    BY <1>4 DEF LineWeights
<1>6. WeightsOf(w, t, In, D)
    BY DEF LineWeights, WeightsOf
<1>7. PICK g : IsSum(g, w, D)
    BY <1>1, <1>5, SumExists
<1>8. ASSUME NEW T \in SUBSET D, T # {}
      PROVE  /\ c[T] = Max(T)
             /\ c[T] \in In <=> lines[Max(T)] \in about
             /\ t[c[T]] = rec[lines[Max(T)]].tokens
    BY <1>2, <1>3, <1>8
<1> HIDE DEF w, c, In, t
<1>9. \A h : Filters(h, t, In, c, D) <=> h = g
    BY <1>1, <1>3, <1>5, <1>6, <1>7, FilterRecurses
<1>10. ASSUME NEW h
       PROVE  [T \in SUBSET D |-> IF T = {} THEN 0 ELSE
                 IF c[T] \in In THEN h[T \ {c[T]}] + t[c[T]] ELSE h[T \ {c[T]}]]
              = [T \in SUBSET D |-> IF T = {} THEN 0
                   ELSE IF lines[Max(T)] \in about
                        THEN h[T \ {Max(T)}] + rec[lines[Max(T)]].tokens
                        ELSE h[T \ {Max(T)}]]
    BY <1>8
<1>11. \A h : Reads(h, rec, lines, about) <=> h = g
    <2> SUFFICES ASSUME NEW h PROVE Reads(h, rec, lines, about) <=> h = g
        OBVIOUS
    <2>1. Filters(h, t, In, c, D) <=> Reads(h, rec, lines, about)
        BY <1>10 DEF Filters, Reads
    <2> QED BY <1>9, <2>1
<1>12. ReplayedFrom(rec, lines, about) = g[D]
    BY <1>11, ReplayByRecursion
<1> QED BY <1>1, <1>5, <1>7, <1>12 DEF w

\* No record is on two lines, so the pass adds up the records on the log.
LEMMA ReplayAddsRecords ==
    ASSUME NEW rec \in Seq(UsageRecord), NEW lines \in Seq(0..Len(rec)), Increasing(lines),
           NEW about \in SUBSET DOMAIN rec
    PROVE  ReplayedFrom(rec, lines, about)
             = TokensIn(rec, {lines[x] : x \in DOMAIN lines} \cap about)
<1> DEFINE D == DOMAIN lines
           On(T) == {lines[x] : x \in T} \cap about
<1>1. PICK g : /\ IsSum(g, LineWeights(rec, lines, about), D)
               /\ ReplayedFrom(rec, lines, about) = g[D]
    BY ReplayAddsLines
<1>2. PICK f : IsSum(f, Weights(rec), DOMAIN rec)
    BY RecordsHaveSums
<1>3. IsFiniteSet(D) /\ Len(lines) \in Nat /\ D = 1..Len(lines) /\ 0 \notin about
      /\ \A x \in D : lines[x] \in 0..Len(rec)
    <2>1. IsFiniteSet(D)
        BY ReplayAddsLines
    <2>2. 0 \notin about
        <3>1. Len(rec) \in Nat /\ DOMAIN rec = 1..Len(rec)
            BY RecordsHaveSums
        <3> QED BY <3>1
    <2>3. Len(lines) \in Nat /\ D = 1..Len(lines) /\ \A x \in D : lines[x] \in 0..Len(rec)
        BY LenProperties, ElementOfSeq
    <2> QED BY <2>1, <2>2, <2>3
<1> DEFINE Bad == {T \in SUBSET D : g[T] # f[On(T)]}
<1>4. ASSUME Bad # {} PROVE FALSE
    <2>1. PICK T \in Bad : \A x \in T : T \ {x} \notin Bad
        <3>1. Bad \in SUBSET (SUBSET D)
            OBVIOUS
        <3> HIDE DEF Bad
        <3> QED BY <1>3, <1>4, <3>1, SmallestSet
    <2>2. T # {}
        <3>1. On({}) = {} /\ g[{}] = 0 /\ f[{}] = 0
            BY <1>1, <1>2 DEF IsSum
        <3> QED BY <2>1, <3>1
    <2>3. PICK x : x \in T
        BY <2>2
    <2>4. g[T \ {x}] = f[On(T \ {x})]
        BY <2>1, <2>3
    <2>5. g[T] = LineWeights(rec, lines, about)[x] + g[T \ {x}]
        BY <1>1, <2>1, <2>3 DEF IsSum
    <2>6. CASE lines[x] \notin about
        <3>1. On(T) = On(T \ {x})
            BY <2>6
        <3>2. f[On(T)] \in Nat
            BY <1>2 DEF IsSum
        <3>3. LineWeights(rec, lines, about)[x] = 0
            BY <2>1, <2>3, <2>6 DEF LineWeights
        <3>4. g[T] # f[On(T)]
            BY <2>1
        <3> HIDE DEF On
        <3> QED BY <2>4, <2>5, <3>1, <3>2, <3>3, <3>4
    <2>7. CASE lines[x] \in about
        <3>1. \A y \in T \ {x} : lines[y] # lines[x]
            BY <1>3, <2>1, <2>3, <2>7 DEF Increasing, Garbage
        <3>2. lines[x] \in On(T) /\ On(T) \ {lines[x]} = On(T \ {x})
            BY <2>3, <2>7, <3>1
        <3>3. f[On(T)] = Weights(rec)[lines[x]] + f[On(T) \ {lines[x]}]
            BY <1>2, <3>2 DEF IsSum
        <3>4. LineWeights(rec, lines, about)[x] = Weights(rec)[lines[x]]
            BY <2>1, <2>3, <2>7 DEF LineWeights, Weights
        <3> QED BY <2>1, <2>4, <2>5, <3>2, <3>3, <3>4
    <2> QED BY <2>6, <2>7
<1>5. g[D] = f[On(D)]
    BY <1>4
<1>6. TokensIn(rec, On(D)) = f[On(D)]
    BY <1>2, TokensAreSum
<1> QED BY <1>1, <1>5, <1>6

\* One record more, among those added up or not.
LEMMA AppendedTokens ==
    ASSUME NEW rec \in Seq(UsageRecord), NEW e \in UsageRecord, NEW R \in SUBSET DOMAIN rec
    PROVE  /\ TokensIn(Append(rec, e), R) = TokensIn(rec, R)
           /\ TokensIn(Append(rec, e), R \cup {Len(rec) + 1}) = TokensIn(rec, R) + e.tokens
           /\ TokensIn(rec, R) \in Nat
<1> DEFINE longer == Append(rec, e)
           id == Len(rec) + 1
<1>1. /\ longer \in Seq(UsageRecord) /\ DOMAIN longer = DOMAIN rec \cup {id} /\ id \notin DOMAIN rec
      /\ longer[id] = e /\ \A x \in DOMAIN rec : longer[x] = rec[x]
    <2>1. Len(rec) \in Nat /\ DOMAIN rec = 1..Len(rec)
        BY LenProperties
    <2>2. longer \in Seq(UsageRecord) /\ Len(longer) = id /\ longer[id] = e
          /\ \A x \in 1..Len(rec) : longer[x] = rec[x]
        BY AppendProperties
    <2>3. DOMAIN longer = 1..id
        BY <2>2, LenProperties
    <2> HIDE DEF longer
    <2> QED BY <2>1, <2>2, <2>3
<1> HIDE DEF longer
<1>2. PICK f : IsSum(f, Weights(longer), DOMAIN longer)
    BY <1>1, RecordsHaveSums
<1>3. IsSum(Part(f, DOMAIN rec), Weights(rec), DOMAIN rec)
    <2>1. \A x \in DOMAIN rec : Weights(rec)[x] = Weights(longer)[x]
        BY <1>1 DEF Weights
    <2> QED BY <1>1, <1>2, <2>1, SumOfPart
<1>4. TokensIn(rec, R) = f[R] /\ f[R] \in Nat
    <2>1. Part(f, DOMAIN rec)[R] = f[R]
        BY DEF Part
    <2> QED BY <1>3, <2>1, TokensAreSum
<1>5. TokensIn(longer, R) = f[R] /\ TokensIn(longer, R \cup {id}) = f[R \cup {id}]
    BY <1>1, <1>2, TokensAreSum
<1>6. f[R \cup {id}] = e.tokens + f[R]
    <2>1. R \cup {id} \in SUBSET DOMAIN longer /\ (R \cup {id}) \ {id} = R
        BY <1>1
    <2>2. Weights(longer)[id] = e.tokens
        BY <1>1 DEF Weights
    <2>3. \A T \in SUBSET DOMAIN longer : \A x \in T :
            f[T] = Weights(longer)[x] + f[T \ {x}]
        BY <1>2 DEF IsSum
    <2>4. f[R \cup {id}] = Weights(longer)[id] + f[(R \cup {id}) \ {id}]
        BY <2>1, <2>3
    <2> QED BY <2>1, <2>2, <2>4
<1>7. e.tokens \in Nat
    BY LedgerAssumption DEF UsageRecord
<1> HIDE DEF id
<1> QED BY <1>4, <1>5, <1>6, <1>7 DEF longer, id

(***************************************************************************)
(* The aggregates are the sums of the records they were given, and as long *)
(* as the process runs those are at least the ones on the log.             *)
(***************************************************************************)
SumsInv ==
    /\ faults \in 0..MaxFaults /\ up \in BOOLEAN
    /\ counted \in SUBSET DOMAIN recorded
    /\ up => Logged \subseteq counted
    /\ total = TokensIn(recorded, counted)
    /\ byKey = [k \in Keys |-> TokensIn(recorded, counted \cap OfKey(k))]
    /\ byModel = [m \in Models |-> TokensIn(recorded, counted \cap OfModel(m))]
    /\ dailyTokens = [kd \in Keys \X Days |->
                        TokensIn(recorded, counted \cap OfDay(kd[1], kd[2]))]

\* Sums of nothing are nothing.
LEMMA NoTokens == ASSUME recorded \in Seq(UsageRecord) PROVE TokensIn(recorded, {}) = 0
<1>1. PICK f : IsSum(f, Weights(recorded), DOMAIN recorded)
    BY RecordsHaveSums
<1>2. TokensIn(recorded, {}) = f[{}]
    BY <1>1, TokensAreSum
<1> QED BY <1>1, <1>2 DEF IsSum

\* Init establishes SumsInv.
LEMMA InitSums == Init => SumsInv
<1> SUFFICES ASSUME Init PROVE SumsInv
    OBVIOUS
<1>1. recorded \in Seq(UsageRecord) /\ DOMAIN log = {} /\ counted = {}
    BY EmptySeq DEF Init
<1>2. TokensIn(recorded, {}) = 0 /\ \A X : counted \cap X = {}
    BY <1>1, NoTokens
<1>3. Logged = {}
    BY <1>1 DEF Logged
<1> QED BY <1>1, <1>2, <1>3, LedgerAssumption DEF Init, SumsInv

\* A restart takes from the log what is on it.
LEMMA RestartKeepsSums ==
    ASSUME LogInv, SumsInv, Restart
    PROVE  SumsInv'
<1>1. /\ recorded \in Seq(UsageRecord) /\ log \in Seq(0..Len(recorded)) /\ Increasing(log)
      /\ Len(recorded) \in Nat /\ DOMAIN recorded = 1..Len(recorded)
    BY LenProperties DEF LogInv
<1>2. /\ UNCHANGED <<recorded, log, faults>> /\ counted' = Logged /\ up' = TRUE
      /\ byKey' = [k \in Keys |-> Replayed(log, OfKey(k))]
      /\ byModel' = [m \in Models |-> Replayed(log, OfModel(m))]
      /\ total' = Replayed(log, DOMAIN recorded)
      /\ dailyTokens' = [kd \in Keys \X Days |-> Replayed(log, OfDay(kd[1], kd[2]))]
    BY DEF Restart, Replay
<1>3. Logged \in SUBSET DOMAIN recorded
    <2>1. \A x \in DOMAIN log : log[x] \in 0..Len(recorded)
        BY <1>1, LenProperties, ElementOfSeq
    <2> QED BY <1>1, <2>1 DEF Logged, Garbage
<1>4. ASSUME NEW about \in SUBSET DOMAIN recorded
      PROVE  Replayed(log, about) = TokensIn(recorded, Logged \cap about)
    <2>1. Replayed(log, about) = ReplayedFrom(recorded, log, about)
        BY DEF Replayed, ReplayedFrom
    <2>2. {log[x] : x \in DOMAIN log} \cap about = Logged \cap about
        BY <1>1 DEF Logged, Garbage
    <2>3. ReplayedFrom(recorded, log, about)
            = TokensIn(recorded, {log[x] : x \in DOMAIN log} \cap about)
        BY <1>1, ReplayAddsRecords
    <2> QED BY <2>1, <2>2, <2>3
<1>5. \A k, d : /\ OfKey(k) \in SUBSET DOMAIN recorded /\ OfModel(k) \in SUBSET DOMAIN recorded
                /\ OfDay(k, d) \in SUBSET DOMAIN recorded
    BY DEF OfKey, OfModel, OfDay
<1>6. Logged \cap DOMAIN recorded = Logged
    BY <1>3
<1>7. total' = TokensIn(recorded, Logged)
    BY <1>2, <1>4, <1>6
<1>8. byKey' = [k \in Keys |-> TokensIn(recorded, Logged \cap OfKey(k))]
    BY <1>2, <1>4, <1>5
<1>9. byModel' = [m \in Models |-> TokensIn(recorded, Logged \cap OfModel(m))]
    BY <1>2, <1>4, <1>5
<1>10. dailyTokens' = [kd \in Keys \X Days |->
                         TokensIn(recorded, Logged \cap OfDay(kd[1], kd[2]))]
    BY <1>2, <1>4, <1>5
<1>11. /\ UNCHANGED Logged /\ \A k : UNCHANGED <<OfKey(k), OfModel(k)>>
       /\ \A k, d : UNCHANGED OfDay(k, d)
    BY <1>2 DEF Logged, OfKey, OfModel, OfDay
<1> QED BY <1>2, <1>3, <1>7, <1>8, <1>9, <1>10, <1>11 DEF SumsInv

\* What a write leaves on the log was there before or is the new record.
LEMMA WriteAddsOne ==
    ASSUME LogInv, NEW how \in {"whole", "part", "unended", "lost"},
           AppendLog(Len(recorded) + 1, how)
    PROVE  Logged' \subseteq Logged \cup {Len(recorded) + 1}
<1> DEFINE id == Len(recorded) + 1
<1>1. Len(log) \in Nat /\ DOMAIN log = 1..Len(log) /\ open \in BOOLEAN
    BY LenProperties DEF LogInv
<1>2. ASSUME NEW last, log' = Append(log, last), last \in {id, Garbage}
      PROVE  Logged' \subseteq Logged \cup {id}
    <2>1. /\ DOMAIN log' = DOMAIN log \cup {Len(log) + 1}
          /\ log'[Len(log) + 1] = last /\ \A x \in DOMAIN log : log'[x] = log[x]
        <3>1. log \in Seq(0..Len(recorded) \cup {last})
            BY SeqMonotonic DEF LogInv
        <3>2. /\ Len(log') = Len(log) + 1 /\ log' \in Seq(0..Len(recorded) \cup {last})
              /\ log'[Len(log) + 1] = last /\ \A x \in 1..Len(log) : log'[x] = log[x]
            BY <1>2, <3>1, AppendProperties
        <3>3. DOMAIN log' = 1..Len(log) + 1
            BY <3>2, LenProperties
        <3> QED BY <1>1, <3>2, <3>3
    <2> QED BY <1>2, <2>1 DEF Logged
<1>3. CASE log' = [log EXCEPT ![Len(log)] = Garbage]
    BY <1>3 DEF Logged
<1>4. CASE log' = log
    BY <1>4 DEF Logged
<1> QED BY <1>1, <1>2, <1>3, <1>4, WritesDoOneOf

\* A record is added to each aggregate that it is about.
LEMMA RecordKeepsSums ==
    ASSUME LogInv, SumsInv, NEW r \in Requests, NEW m \in Models, NEW n \in Amounts,
           NEW how \in {"whole", "part", "unended", "lost"}, Record(r, m, n, how)
    PROVE  SumsInv'
<1> DEFINE id == Len(recorded) + 1
           e == [key |-> calling[r], model |-> m, tokens |-> n, day |-> day]
<1>1. /\ recorded' = Append(recorded, e) /\ AppendLog(id, how) /\ calling[r] # Idle
      /\ faults' \in 0..MaxFaults /\ up = TRUE /\ up' = up
      /\ byKey' = [byKey EXCEPT ![e.key] = @ + n]
      /\ byModel' = [byModel EXCEPT ![e.model] = @ + n]
      /\ total' = total + n
      /\ dailyTokens' = [dailyTokens EXCEPT ![<<e.key, e.day>>] = @ + n]
      /\ counted' = counted \cup {id}
    <2>1. faults' \in Nat
        BY DEF Record, LogInv
    <2>2. faults' <= MaxFaults
        BY DEF Record
    <2> QED BY <2>1, <2>2, LedgerAssumption DEF Record, RecordLocked
<1>2. e \in UsageRecord /\ e.key = calling[r] /\ e.model = m /\ e.tokens = n /\ e.day = day
    BY <1>1 DEF LogInv, UsageRecord
<1> HIDE DEF e
<1>3. /\ recorded \in Seq(UsageRecord) /\ Len(recorded) \in Nat
      /\ DOMAIN recorded = 1..Len(recorded)
      /\ recorded' \in Seq(UsageRecord) /\ DOMAIN recorded' = DOMAIN recorded \cup {id}
      /\ id \notin DOMAIN recorded
      /\ recorded'[id] = e /\ \A x \in DOMAIN recorded : recorded'[x] = recorded[x]
    <2>1. recorded \in Seq(UsageRecord) /\ Len(recorded) \in Nat
          /\ DOMAIN recorded = 1..Len(recorded)
        BY LenProperties DEF LogInv
    <2>2. /\ recorded' \in Seq(UsageRecord) /\ Len(recorded') = id /\ recorded'[id] = e
          /\ \A x \in 1..Len(recorded) : recorded'[x] = recorded[x]
        BY <1>1, <1>2, <2>1, AppendProperties
    <2>3. DOMAIN recorded' = 1..id
        BY <2>2, LenProperties
    <2> QED BY <2>1, <2>2, <2>3
<1>4. counted \in SUBSET DOMAIN recorded /\ Logged \subseteq counted
    BY <1>1 DEF SumsInv
<1>5. counted' \in SUBSET DOMAIN recorded' /\ Logged' \subseteq counted'
    <2>1. Logged' \subseteq Logged \cup {id}
        BY <1>1, WriteAddsOne
    <2> QED BY <1>1, <1>3, <1>4, <2>1
<1>6. ASSUME NEW A \in SUBSET DOMAIN recorded
      PROVE  /\ TokensIn(recorded', counted' \cap A) = TokensIn(recorded, counted \cap A)
             /\ TokensIn(recorded', counted' \cap (A \cup {id}))
                  = TokensIn(recorded, counted \cap A) + n
    <2>1. counted' \cap A = counted \cap A
        BY <1>1, <1>3
    <2>2. counted' \cap (A \cup {id}) = (counted \cap A) \cup {id}
        BY <1>1
    <2>3. counted \cap A \in SUBSET DOMAIN recorded
        OBVIOUS
    <2>4. /\ TokensIn(recorded', counted \cap A) = TokensIn(recorded, counted \cap A)
          /\ TokensIn(recorded', (counted \cap A) \cup {id})
               = TokensIn(recorded, counted \cap A) + e.tokens
        <3>1. /\ TokensIn(Append(recorded, e), counted \cap A) = TokensIn(recorded, counted \cap A)
              /\ TokensIn(Append(recorded, e), (counted \cap A) \cup {Len(recorded) + 1})
                   = TokensIn(recorded, counted \cap A) + e.tokens
            BY <1>2, <1>3, <2>3, AppendedTokens
        <3> QED BY <1>1, <3>1
    <2> QED BY <1>2, <2>1, <2>2, <2>4
<1>7. \A k, d : /\ OfKey(k) \in SUBSET DOMAIN recorded /\ OfModel(k) \in SUBSET DOMAIN recorded
                /\ OfDay(k, d) \in SUBSET DOMAIN recorded
    BY DEF OfKey, OfModel, OfDay
<1>8. \A k : OfKey(k)' = IF k = e.key THEN OfKey(k) \cup {id} ELSE OfKey(k)
    BY <1>3 DEF OfKey
<1>9. \A k : OfModel(k)' = IF k = e.model THEN OfModel(k) \cup {id} ELSE OfModel(k)
    BY <1>3 DEF OfModel
<1>10. \A k, d : OfDay(k, d)' = IF k = e.key /\ d = e.day THEN OfDay(k, d) \cup {id}
                                ELSE OfDay(k, d)
    BY <1>3 DEF OfDay, OfKey
<1>11. total' = TokensIn(recorded', counted')
    <2>1. DOMAIN recorded \in SUBSET DOMAIN recorded /\ counted \cap DOMAIN recorded = counted
          /\ counted' \cap (DOMAIN recorded \cup {id}) = counted'
        BY <1>1, <1>4
    <2>2. TokensIn(recorded', counted') = TokensIn(recorded, counted) + n
        BY <1>6, <2>1
    <2> QED BY <1>1, <2>2 DEF SumsInv
<1>12. byKey' = [k \in Keys |-> TokensIn(recorded', counted' \cap OfKey(k)')]
    <2>1. byKey = [k \in Keys |-> TokensIn(recorded, counted \cap OfKey(k))]
        BY DEF SumsInv
    <2>2. ASSUME NEW k \in Keys
          PROVE  byKey'[k] = TokensIn(recorded', counted' \cap OfKey(k)')
        BY <1>1, <1>6, <1>7, <1>8, <2>1
    <2>3. byKey' = [k \in Keys |-> byKey'[k]]
        BY <1>1, <2>1
    <2> QED BY <2>2, <2>3
<1>13. byModel' = [k \in Models |-> TokensIn(recorded', counted' \cap OfModel(k)')]
    <2>1. byModel = [k \in Models |-> TokensIn(recorded, counted \cap OfModel(k))]
        BY DEF SumsInv
    <2>2. ASSUME NEW k \in Models
          PROVE  byModel'[k] = TokensIn(recorded', counted' \cap OfModel(k)')
        BY <1>1, <1>6, <1>7, <1>9, <2>1
    <2>3. byModel' = [k \in Models |-> byModel'[k]]
        BY <1>1, <2>1
    <2> QED BY <2>2, <2>3
<1>14. dailyTokens' = [kd \in Keys \X Days |->
                         TokensIn(recorded', counted' \cap OfDay(kd[1], kd[2])')]
    <2>1. dailyTokens = [kd \in Keys \X Days |->
                           TokensIn(recorded, counted \cap OfDay(kd[1], kd[2]))]
        BY DEF SumsInv
    <2>2. ASSUME NEW kd \in Keys \X Days
          PROVE  dailyTokens'[kd] = TokensIn(recorded', counted' \cap OfDay(kd[1], kd[2])')
        <3>1. kd = <<kd[1], kd[2]>>
            OBVIOUS
        <3>2. dailyTokens'[kd] = IF kd[1] = e.key /\ kd[2] = e.day THEN dailyTokens[kd] + n
                                 ELSE dailyTokens[kd]
            BY <1>1, <2>1, <3>1
        <3>3. OfDay(kd[1], kd[2])' = IF kd[1] = e.key /\ kd[2] = e.day
                                     THEN OfDay(kd[1], kd[2]) \cup {id}
                                     ELSE OfDay(kd[1], kd[2])
            BY <1>10
        <3>4. dailyTokens[kd] = TokensIn(recorded, counted \cap OfDay(kd[1], kd[2]))
            BY <2>1
        <3> QED BY <1>6, <1>7, <3>2, <3>3, <3>4
    <2>3. dailyTokens' = [kd \in Keys \X Days |-> dailyTokens'[kd]]
        BY <1>1, <2>1
    <2> QED BY <2>2, <2>3
<1> QED BY <1>1, <1>5, <1>11, <1>12, <1>13, <1>14 DEF SumsInv

\* Every step keeps LogInv and SumsInv together.
LEMMA NextSums == LogInv /\ SumsInv /\ [Next]_vars => SumsInv'
<1> SUFFICES ASSUME LogInv, SumsInv, [Next]_vars PROVE SumsInv'
    OBVIOUS
<1>1. ASSUME NEW r \in Requests, NEW m \in Models, NEW n \in Amounts,
             NEW how \in {"whole", "part", "unended", "lost"}, Record(r, m, n, how)
      PROVE  SumsInv'
    BY <1>1, RecordKeepsSums
<1>2. ASSUME UNCHANGED <<recorded, log, up, memory, faults>> PROVE SumsInv'
    <2>1. /\ UNCHANGED <<recorded, log, up, faults, byKey, byModel, total, dailyTokens, counted>>
          /\ UNCHANGED Logged /\ \A k : UNCHANGED <<OfKey(k), OfModel(k)>>
          /\ \A k, d : UNCHANGED OfDay(k, d)
        BY <1>2 DEF memory, Logged, OfKey, OfModel, OfDay
    <2> QED BY <2>1 DEF SumsInv
<1>3. ASSUME NEW r \in Requests PROVE /\ \A k \in Keys : CheckQuota(r, k) => SumsInv'
                                      /\ NoUsage(r) => SumsInv'
    BY <1>2 DEF CheckQuota, NoUsage
<1>4. CASE Crash
    <2>1. /\ UNCHANGED <<recorded, faults>> /\ up' = FALSE /\ counted' = {} /\ total' = 0
          /\ byKey' = [k \in Keys |-> 0] /\ byModel' = [m \in Models |-> 0]
          /\ dailyTokens' = [kd \in Keys \X Days |-> 0]
        BY <1>4 DEF Crash
    <2>2. TokensIn(recorded', {}) = 0
        BY <2>1, NoTokens DEF LogInv
    <2>3. ASSUME NEW A PROVE TokensIn(recorded', counted' \cap A) = 0
        <3>1. counted' \cap A = {}
            BY <2>1
        <3> QED BY <2>2, <3>1
    <2>4. /\ byKey' = [k \in Keys |-> TokensIn(recorded', counted' \cap OfKey(k)')]
          /\ byModel' = [m \in Models |-> TokensIn(recorded', counted' \cap OfModel(m)')]
          /\ dailyTokens' = [kd \in Keys \X Days |->
                               TokensIn(recorded', counted' \cap OfDay(kd[1], kd[2])')]
        BY <2>1, <2>3
    <2>5. total' = TokensIn(recorded', counted') /\ counted' \in SUBSET DOMAIN recorded'
        BY <2>1, <2>2
    <2>6. faults' \in 0..MaxFaults /\ up' \in BOOLEAN /\ ~up'
        BY <2>1 DEF SumsInv
    <2> QED BY <2>4, <2>5, <2>6 DEF SumsInv
<1>5. CASE Restart
    BY <1>5, RestartKeepsSums
<1>6. CASE NextDay
    BY <1>2, <1>6 DEF NextDay
<1>7. CASE UNCHANGED vars
    BY <1>2, <1>7 DEF vars
<1> QED BY <1>1, <1>3, <1>4, <1>5, <1>6, <1>7 DEF Next

\* The sums are the aggregates of the property.
LEMMA SumsAgree == LogInv /\ SumsInv => AggregatesAgree
<1> SUFFICES ASSUME LogInv, SumsInv PROVE AggregatesAgree
    OBVIOUS
<1>1. \A ids : Tokens(ids) = TokensIn(recorded, ids)
    BY DEF Tokens, TokensIn
<1>2. ASSUME NEW A PROVE TokensIn(recorded, counted \cap A) \in Nat
    <2>1. PICK f : IsSum(f, Weights(recorded), DOMAIN recorded)
        BY RecordsHaveSums DEF LogInv
    <2>2. counted \cap A \in SUBSET DOMAIN recorded
        BY DEF SumsInv
    <2> QED BY <2>1, <2>2, TokensAreSum DEF LogInv
<1>3. counted \cap counted = counted
    OBVIOUS
<1>4. TypeOK
    <2>1. total \in Nat
        BY <1>2, <1>3 DEF SumsInv
    <2>2. byKey \in [Keys -> Nat]
        BY <1>2 DEF SumsInv
    <2>3. byModel \in [Models -> Nat]
        BY <1>2 DEF SumsInv
    <2>4. dailyTokens \in [Keys \X Days -> Nat]
        BY <1>2 DEF SumsInv
    <2>5. recorded \in Seq([key : Keys, model : Models, tokens : Amounts, day : Days])
        BY DEF LogInv, UsageRecord
    <2> QED BY <2>1, <2>2, <2>3, <2>4, <2>5 DEF TypeOK, LogInv, SumsInv
<1>5. total = Tokens(counted) /\ (up => Logged \subseteq counted)
    BY <1>1 DEF SumsInv
<1>6. \A k \in Keys : byKey[k] = Tokens(counted \cap OfKey(k))
    BY <1>1 DEF SumsInv
<1>7. \A m \in Models : byModel[m] = Tokens(counted \cap OfModel(m))
    BY <1>1 DEF SumsInv
<1>8. \A k \in Keys, d \in Days : dailyTokens[<<k, d>>] = Tokens(counted \cap OfDay(k, d))
    <2> SUFFICES ASSUME NEW k \in Keys, NEW d \in Days
                 PROVE  dailyTokens[<<k, d>>] = Tokens(counted \cap OfDay(k, d))
        OBVIOUS
    <2>1. <<k, d>> \in Keys \X Days /\ <<k, d>>[1] = k /\ <<k, d>>[2] = d
        OBVIOUS
    <2>2. \A kd \in Keys \X Days :
            dailyTokens[kd] = TokensIn(recorded, counted \cap OfDay(kd[1], kd[2]))
        BY DEF SumsInv
    <2>3. dailyTokens[<<k, d>>] = TokensIn(recorded, counted \cap OfDay(k, d))
        BY <2>1, <2>2
    <2> QED BY <1>1, <2>3
<1> QED BY <1>4, <1>5, <1>6, <1>7, <1>8 DEF AggregatesAgree

(***************************************************************************)
(* AggregatesAgree for any number of records, keys, models and days: the   *)
(* sums that Record keeps up and those that replayLog forms from the log,  *)
(* with its broken and missing lines, are sums over one set of records.    *)
(***************************************************************************)
THEOREM AggregatesAreSums == Spec => []AggregatesAgree
<1>1. Init => LogInv /\ SumsInv
    BY InitLog, InitSums
<1>2. LogInv /\ SumsInv /\ [Next]_vars => (LogInv /\ SumsInv)'
    BY NextLog, NextSums
<1>3. LogInv /\ SumsInv => AggregatesAgree
    BY SumsAgree
<1> QED BY <1>1, <1>2, <1>3, PTL DEF Spec

\* A finite set of numbers has a largest.
LEMMA FiniteMax ==
    ASSUME NEW S \in SUBSET Nat, IsFiniteSet(S), S # {}
    PROVE  Max(S) \in S /\ \A x \in S : x <= Max(S)
<1> DEFINE Bad == {T \in SUBSET S : T # {} /\ ~ \E x \in T : \A y \in T : x >= y}
<1>1. ASSUME Bad # {} PROVE FALSE
    <2>1. PICK T \in Bad : \A x \in T : T \ {x} \notin Bad
        <3>1. Bad \in SUBSET (SUBSET S)
            OBVIOUS
        <3> HIDE DEF Bad
        <3> QED BY <1>1, <3>1, SmallestSet
    <2>2. PICK x : x \in T
        BY <2>1
    <2>3. x \in Nat /\ \A y \in T : y \in Nat
        BY <2>1, <2>2
    <2>4. CASE T \ {x} = {}
        <3>1. \A y \in T : x >= y
            BY <2>3, <2>4
        <3> QED BY <2>1, <2>2, <3>1
    <2>5. CASE T \ {x} # {}
        <3>1. PICK z \in T \ {x} : \A y \in T \ {x} : z >= y
            BY <2>1, <2>2, <2>5
        <3>2. CASE z >= x
            <4>1. \A y \in T : z >= y
                BY <3>1, <3>2
            <4> QED BY <2>1, <3>1, <4>1
        <3>3. CASE x >= z
            <4>1. \A y \in T : x >= y
                BY <2>3, <3>1, <3>3
            <4> QED BY <2>1, <2>2, <4>1
        <3> QED BY <2>3, <3>1, <3>2, <3>3
    <2> QED BY <2>4, <2>5
<1>2. \E x \in S : \A y \in S : x >= y
    BY <1>1
<1>3. Max(S) \in S /\ \A y \in S : Max(S) >= y
    BY <1>2 DEF Max
<1> QED BY <1>3

(***************************************************************************)
(* What keeps the overshoot bounded: the handlers that have passed the     *)
(* check for the key and still run, each of which adds one call at most,   *)
(* fit below the bound with what the key has already used today.           *)
(***************************************************************************)
Calling(k, d) == IF d = day THEN {r \in Requests : calling[r] = k /\ k # Idle} ELSE {}
LargestCall == Max(Amounts)
UsageBound == Quota - 1 + LargestCall * (Cardinality(Requests) + 2 * faults)

Fits(k, d) ==
    TokensIn(recorded, OfDay(k, d)) + LargestCall * Cardinality(Calling(k, d)) <= UsageBound

ChargesFit ==
    /\ \A id \in DOMAIN recorded : recorded[id].day <= day
    /\ Quota > 0 => \A k \in Keys, d \in Days : Fits(k, d)

\* A call is bounded, and there are finitely many requests.
LEMMA CallsAreFinite ==
    /\ LargestCall \in Nat /\ \A n \in Amounts : n \in Nat /\ n <= LargestCall
    /\ IsFiniteSet(Requests) /\ Cardinality(Requests) \in Nat
<1>1. Amounts \in SUBSET Nat /\ IsFiniteSet(Amounts) /\ Amounts # {}
    BY LedgerAssumption
<1>2. Max(Amounts) \in Amounts /\ \A n \in Amounts : n <= Max(Amounts)
    BY <1>1, FiniteMax
<1> QED BY <1>1, <1>2, LedgerAssumption, FS_CardinalityType DEF LargestCall

\* At most one handler for each request calls for a key.
LEMMA CallersAreFew ==
    ASSUME NEW S \in SUBSET Requests, NEW T \in SUBSET S
    PROVE  /\ IsFiniteSet(S) /\ Cardinality(S) \in Nat /\ Cardinality(T) \in Nat
           /\ Cardinality(T) <= Cardinality(S) /\ Cardinality(S) <= Cardinality(Requests)
           /\ LargestCall * Cardinality(T) <= LargestCall * Cardinality(S)
           /\ LargestCall * Cardinality(S) <= LargestCall * Cardinality(Requests)
           /\ LargestCall * Cardinality(T) \in Nat /\ LargestCall * Cardinality(S) \in Nat
           /\ LargestCall * Cardinality(Requests) \in Nat
<1>1. IsFiniteSet(Requests) /\ Cardinality(Requests) \in Nat /\ LargestCall \in Nat
    BY CallsAreFinite
<1>2. IsFiniteSet(S) /\ Cardinality(S) <= Cardinality(Requests) /\ Cardinality(S) \in Nat
    BY <1>1, FS_Subset, FS_CardinalityType
<1>3. Cardinality(T) <= Cardinality(S) /\ Cardinality(T) \in Nat
    BY <1>2, FS_Subset, FS_CardinalityType
<1> QED BY <1>1, <1>2, <1>3, TimesGrows

\* The bound is made of three parts, and grows with the faults.
LEMMA BoundHasParts ==
    ASSUME NEW F \in Nat, NEW G \in Nat, F <= G, NEW R \in Nat
    PROVE  /\ LargestCall * (R + 2 * F) = LargestCall * R + LargestCall * (2 * F)
           /\ LargestCall * (R + 2 * F) <= LargestCall * (R + 2 * G)
           /\ LargestCall * R \in Nat /\ LargestCall * (2 * F) \in Nat
           /\ LargestCall * (R + 2 * F) \in Nat /\ LargestCall * (R + 2 * G) \in Nat
<1>1. LargestCall \in Nat /\ 2 * F \in Nat /\ 2 * G \in Nat
      /\ R + 2 * F \in Nat /\ R + 2 * G \in Nat /\ R + 2 * F <= R + 2 * G
    BY CallsAreFinite
<1>2. LargestCall * (R + 2 * F) = LargestCall * R + LargestCall * (2 * F)
      /\ LargestCall * R \in Nat /\ LargestCall * (2 * F) \in Nat
    BY <1>1, Distributes
<1>3. LargestCall * (R + 2 * F) <= LargestCall * (R + 2 * G)
      /\ LargestCall * (R + 2 * F) \in Nat /\ LargestCall * (R + 2 * G) \in Nat
    BY <1>1, TimesGrows
<1> QED BY <1>2, <1>3

\* While the process runs, it has forgotten at most two calls for each fault.
LEMMA ForgottenIsBounded ==
    ASSUME LogInv, SumsInv, up = TRUE, NEW A \in SUBSET DOMAIN recorded
    PROVE  /\ TokensIn(recorded, A) \in Nat /\ TokensIn(recorded, counted \cap A) \in Nat
           /\ LargestCall * (2 * faults) \in Nat
           /\ TokensIn(recorded, A)
                <= TokensIn(recorded, counted \cap A) + LargestCall * (2 * faults)
<1> DEFINE D == DOMAIN recorded
           w == Weights(recorded)
           B == A \ counted
<1>1. /\ recorded \in Seq(UsageRecord) /\ IsFiniteSet(D) /\ w \in [D -> Nat]
      /\ \A x \in D : recorded[x] \in UsageRecord
    <2>1. recorded \in Seq(UsageRecord)
        BY DEF LogInv
    <2>2. \A x \in D : recorded[x] \in UsageRecord
        BY <2>1, LenProperties, ElementOfSeq
    <2> QED BY <2>1, <2>2, RecordsHaveSums
<1>2. PICK f : IsSum(f, w, D)
    BY <1>1, RecordsHaveSums
<1>3. \A x \in D : w[x] <= LargestCall
    BY <1>1, CallsAreFinite DEF UsageRecord, Weights
<1>4. /\ counted \cap A \in SUBSET D /\ B \in SUBSET D /\ (counted \cap A) \cap B = {}
      /\ (counted \cap A) \cup B = A
    OBVIOUS
<1>5. TokensIn(recorded, A) = f[A] /\ TokensIn(recorded, counted \cap A) = f[counted \cap A]
      /\ f[A] \in Nat /\ f[counted \cap A] \in Nat
    BY <1>1, <1>2, <1>4, TokensAreSum
<1> HIDE DEF w, D
<1>6. f[(counted \cap A) \cup B] = f[counted \cap A] + f[B]
    BY <1>1, <1>2, <1>4, SumsAdd
<1>7. f[B] <= LargestCall * Cardinality(B)
    BY <1>1, <1>2, <1>3, <1>4, CallsAreFinite, SumIsBounded
<1>8. LargestCall * Cardinality(B) <= LargestCall * (2 * faults)
      /\ LargestCall * Cardinality(B) \in Nat /\ LargestCall * (2 * faults) \in Nat
    <2>1. B \subseteq Lost
        BY DEF SumsInv, Lost
    <2>2. IsFiniteSet(Lost) /\ Cardinality(Lost) \in Nat
        BY <1>1, LostIsFinite
    <2>3. Cardinality(B) \in Nat /\ Cardinality(B) <= Cardinality(Lost)
        BY <2>1, <2>2, FS_Subset, FS_CardinalityType
    <2>4. Cardinality(Lost) <= 2 * faults /\ 2 * faults \in Nat
        BY <2>2 DEF LogInv, AtStake
    <2>5. Cardinality(B) <= 2 * faults
        BY <2>2, <2>3, <2>4
    <2> QED BY <2>3, <2>4, <2>5, CallsAreFinite, TimesGrows
<1>9. f[B] \in Nat
    BY <1>2, <1>4 DEF IsSum
<1>10. f[A] = f[counted \cap A] + f[B]
    BY <1>4, <1>6
<1> HIDE DEF B
<1>11. f[A] <= f[counted \cap A] + LargestCall * (2 * faults)
    BY <1>5, <1>7, <1>8, <1>9, <1>10
<1> QED BY <1>5, <1>8, <1>11

\* A step that records nothing and lets nobody else in.
LEMMA FewerCallsFit ==
    ASSUME LogInv, ChargesFit, UNCHANGED <<recorded, faults, day>>,
           \A k, d : Calling(k, d)' \subseteq Calling(k, d)
    PROVE  ChargesFit'
<1>1. \A id \in DOMAIN recorded' : recorded'[id].day <= day'
    BY DEF ChargesFit
<1>2. ASSUME Quota > 0, NEW k \in Keys, NEW d \in Days PROVE Fits(k, d)'
    <2>1. Calling(k, d) \in SUBSET Requests /\ Calling(k, d)' \in SUBSET Calling(k, d)
        BY DEF Calling
    <2>2. /\ LargestCall * Cardinality(Calling(k, d)') <= LargestCall * Cardinality(Calling(k, d))
          /\ LargestCall * Cardinality(Calling(k, d)') \in Nat
          /\ LargestCall * Cardinality(Calling(k, d)) \in Nat
        BY <2>1, CallersAreFew
    <2>3. UNCHANGED <<OfDay(k, d), UsageBound>>
        BY DEF OfDay, OfKey, UsageBound, LargestCall
    <2>4. TokensIn(recorded', OfDay(k, d)') = TokensIn(recorded, OfDay(k, d))
        BY <2>3
    <2>5. TokensIn(recorded, OfDay(k, d)) \in Nat
        <3>1. PICK f : IsSum(f, Weights(recorded), DOMAIN recorded)
            BY RecordsHaveSums DEF LogInv
        <3> QED BY <3>1, TokensAreSum DEF LogInv, OfDay, OfKey
    <2>6. UsageBound \in Int
        <3>1. LargestCall * (Cardinality(Requests) + 2 * faults) \in Nat
            BY CallsAreFinite, BoundHasParts DEF LogInv
        <3> QED BY <3>1, LedgerAssumption DEF UsageBound
    <2>7. TokensIn(recorded, OfDay(k, d)) + LargestCall * Cardinality(Calling(k, d)) <= UsageBound
        BY <1>2 DEF ChargesFit, Fits
    <2>8. TokensIn(recorded', OfDay(k, d)') + LargestCall * Cardinality(Calling(k, d)')
            <= UsageBound'
        BY <2>2, <2>3, <2>4, <2>5, <2>6, <2>7
    <2> QED BY <2>8 DEF Fits, LargestCall
<1> QED BY <1>1, <1>2 DEF ChargesFit

\* Used below the quota, as far as the process remembers: all may call.
LEMMA CheckedFits ==
    ASSUME LogInv, SumsInv, up = TRUE, NEW k \in Keys, NEW d \in Days,
           dailyTokens[<<k, d>>] < Quota, NEW S \in SUBSET Requests
    PROVE  TokensIn(recorded, OfDay(k, d)) + LargestCall * Cardinality(S) <= UsageBound
<1>1. OfDay(k, d) \in SUBSET DOMAIN recorded
    BY DEF OfDay, OfKey
<1>2. dailyTokens[<<k, d>>] = TokensIn(recorded, counted \cap OfDay(k, d))
    <2>1. <<k, d>> \in Keys \X Days /\ <<k, d>>[1] = k /\ <<k, d>>[2] = d
        OBVIOUS
    <2>2. \A kd \in Keys \X Days :
            dailyTokens[kd] = TokensIn(recorded, counted \cap OfDay(kd[1], kd[2]))
        BY DEF SumsInv
    <2> QED BY <2>1, <2>2
<1>3. /\ TokensIn(recorded, OfDay(k, d)) \in Nat
      /\ TokensIn(recorded, counted \cap OfDay(k, d)) \in Nat
      /\ LargestCall * (2 * faults) \in Nat
      /\ TokensIn(recorded, OfDay(k, d))
           <= TokensIn(recorded, counted \cap OfDay(k, d)) + LargestCall * (2 * faults)
    BY <1>1, ForgottenIsBounded
<1>4. /\ LargestCall * Cardinality(S) <= LargestCall * Cardinality(Requests)
      /\ LargestCall * Cardinality(S) \in Nat /\ LargestCall * Cardinality(Requests) \in Nat
    BY CallersAreFew
<1>5. LargestCall * (Cardinality(Requests) + 2 * faults)
        = LargestCall * Cardinality(Requests) + LargestCall * (2 * faults)
    BY CallsAreFinite, BoundHasParts DEF LogInv
<1>6. Quota \in Nat
    BY LedgerAssumption
<1> QED BY <1>2, <1>3, <1>4, <1>5, <1>6 DEF UsageBound

\* The quota check lets one more call in.
LEMMA CheckKeepsFit ==
    ASSUME LogInv, SumsInv, ChargesFit, NEW r \in Requests, NEW k \in Keys, CheckQuota(r, k)
    PROVE  ChargesFit'
<1>1. /\ up = TRUE /\ calling[r] = Idle /\ calling' = [calling EXCEPT ![r] = k]
      /\ UNCHANGED <<recorded, faults, day>>
      /\ Quota > 0 => dailyTokens[<<k, day>>] < Quota
    BY DEF CheckQuota, SumsInv
<1>2. \A id \in DOMAIN recorded' : recorded'[id].day <= day'
    BY <1>1 DEF ChargesFit
<1>3. ASSUME Quota > 0, NEW q \in Keys, NEW d \in Days PROVE Fits(q, d)'
    <2>1. UNCHANGED <<OfDay(q, d), UsageBound, recorded>>
        BY <1>1 DEF OfDay, OfKey, UsageBound, LargestCall
    <2>2. CASE q = k /\ d = day
        <3>1. Calling(q, d)' \in SUBSET Requests
            BY DEF Calling
        <3>2. TokensIn(recorded, OfDay(q, d)) + LargestCall * Cardinality(Calling(q, d)')
                <= UsageBound
            BY <1>1, <1>3, <2>2, <3>1, CheckedFits
        <3> QED BY <2>1, <3>2 DEF Fits, LargestCall
    <2>3. CASE ~(q = k /\ d = day)
        <3>1. Calling(q, d)' = Calling(q, d)
            BY <1>1, <2>3 DEF Calling, LogInv
        <3>2. Fits(q, d)
            BY <1>3 DEF ChargesFit
        <3> QED BY <2>1, <3>1, <3>2 DEF Fits, LargestCall
    <2> QED BY <2>2, <2>3
<1> QED BY <1>2, <1>3 DEF ChargesFit

\* A call becomes a record: what it was counted for covers it.
LEMMA RecordKeepsFit ==
    ASSUME LogInv, ChargesFit, NEW r \in Requests, NEW m \in Models, NEW n \in Amounts,
           NEW how \in {"whole", "part", "unended", "lost"}, Record(r, m, n, how)
    PROVE  ChargesFit'
<1> DEFINE id == Len(recorded) + 1
           e == [key |-> calling[r], model |-> m, tokens |-> n, day |-> day]
<1>1. /\ recorded' = Append(recorded, e) /\ calling[r] # Idle /\ day' = day
      /\ calling' = [calling EXCEPT ![r] = Idle]
      /\ faults \in Nat /\ faults' \in Nat /\ faults <= faults' /\ day \in Days
    BY DEF Record, LogInv
<1>2. e \in UsageRecord /\ e.key = calling[r] /\ e.tokens = n /\ e.day = day
    BY <1>1 DEF LogInv, UsageRecord
<1> HIDE DEF e
<1>3. /\ recorded \in Seq(UsageRecord) /\ DOMAIN recorded' = DOMAIN recorded \cup {id}
      /\ id \notin DOMAIN recorded
      /\ recorded'[id] = e /\ \A x \in DOMAIN recorded : recorded'[x] = recorded[x]
    <2>1. recorded \in Seq(UsageRecord) /\ Len(recorded) \in Nat
          /\ DOMAIN recorded = 1..Len(recorded)
        BY LenProperties DEF LogInv
    <2>2. /\ recorded' \in Seq(UsageRecord) /\ Len(recorded') = id /\ recorded'[id] = e
          /\ \A x \in 1..Len(recorded) : recorded'[x] = recorded[x]
        BY <1>1, <1>2, <2>1, AppendProperties
    <2>3. DOMAIN recorded' = 1..id
        BY <2>2, LenProperties
    <2> QED BY <2>1, <2>2, <2>3
<1>4. \A x \in DOMAIN recorded' : recorded'[x].day <= day'
    BY <1>1, <1>2, <1>3 DEF ChargesFit, Days
<1>5. ASSUME Quota > 0, NEW k \in Keys, NEW d \in Days PROVE Fits(k, d)'
    <2> DEFINE used == TokensIn(recorded, OfDay(k, d))
               after == TokensIn(recorded', OfDay(k, d)')
               c == Cardinality(Calling(k, d))
               left == Cardinality(Calling(k, d)')
    <2>1. OfDay(k, d) \in SUBSET DOMAIN recorded /\ Calling(k, d) \in SUBSET Requests
        BY DEF OfDay, OfKey, Calling
    <2>2. OfDay(k, d)' = IF k = e.key /\ d = e.day THEN OfDay(k, d) \cup {id} ELSE OfDay(k, d)
        BY <1>3 DEF OfDay, OfKey
    <2>3. /\ TokensIn(Append(recorded, e), OfDay(k, d)) = used
          /\ TokensIn(Append(recorded, e), OfDay(k, d) \cup {Len(recorded) + 1}) = used + e.tokens
          /\ used \in Nat
        <3> DEFINE R == OfDay(k, d)
        <3>1. recorded \in Seq(UsageRecord) /\ e \in UsageRecord /\ R \in SUBSET DOMAIN recorded
            BY <1>2, <1>3, <2>1
        <3> HIDE DEF R
        <3>2. /\ TokensIn(Append(recorded, e), R) = TokensIn(recorded, R)
              /\ TokensIn(Append(recorded, e), R \cup {Len(recorded) + 1})
                     = TokensIn(recorded, R) + e.tokens
              /\ TokensIn(recorded, R) \in Nat
            BY ONLY <3>1, AppendedTokens
        <3> QED BY <3>2 DEF R
    <2>4. used + LargestCall * c <= UsageBound
        BY <1>5 DEF ChargesFit, Fits
    <2>5. UsageBound <= UsageBound' /\ UsageBound \in Int /\ UsageBound' \in Int
        <3>1. /\ LargestCall * (Cardinality(Requests) + 2 * faults)
                   <= LargestCall * (Cardinality(Requests) + 2 * faults')
              /\ LargestCall * (Cardinality(Requests) + 2 * faults) \in Nat
              /\ LargestCall * (Cardinality(Requests) + 2 * faults') \in Nat
            BY <1>1, CallsAreFinite, BoundHasParts
        <3>2. Quota \in Nat
            BY LedgerAssumption
        <3> QED BY <3>1, <3>2 DEF UsageBound, LargestCall
    <2>6. CASE k = e.key /\ d = e.day
        <3>1. r \in Calling(k, d) /\ Calling(k, d)' = Calling(k, d) \ {r}
            BY <1>1, <1>2, <2>6 DEF Calling, LogInv
        <3>2. IsFiniteSet(Calling(k, d)) /\ c \in Nat
            BY <2>1, CallersAreFew
        <3>3. left = c - 1 /\ left \in Nat
            BY <3>1, <3>2, FS_RemoveElement, FS_CardinalityType
        <3>4. LargestCall \in Nat /\ n \in Nat /\ n <= LargestCall
            BY CallsAreFinite
        <3>5. LargestCall * c = LargestCall * left + LargestCall /\ LargestCall * left \in Nat
            <4>1. LargestCall * (left + 1) = LargestCall * left + LargestCall
                  /\ LargestCall * left \in Nat
                BY <3>3, <3>4, OneMoreTimes
            <4>2. left + 1 = c
                BY <3>2, <3>3
            <4> HIDE DEF left, c
            <4> QED BY <4>1, <4>2
        <3>6. after = used + n
            BY <1>1, <1>2, <2>2, <2>3, <2>6
        <3> HIDE DEF used, after, c, left
        <3>7. after + LargestCall * left <= UsageBound'
            BY <2>3, <2>4, <2>5, <3>4, <3>5, <3>6
        <3> QED BY <3>7 DEF Fits, LargestCall, after, left
    <2>7. CASE ~(k = e.key /\ d = e.day)
        <3>1. Calling(k, d)' \in SUBSET Calling(k, d)
            BY <1>1 DEF Calling, LogInv
        <3>2. LargestCall * left <= LargestCall * c /\ LargestCall * left \in Nat
              /\ LargestCall * c \in Nat
            BY <2>1, <3>1, CallersAreFew
        <3>3. after = used
            BY <1>1, <2>2, <2>3, <2>7
        <3> HIDE DEF used, after, c, left
        <3>4. after + LargestCall * left <= UsageBound'
            BY <2>3, <2>4, <2>5, <3>2, <3>3
        <3> QED BY <3>4 DEF Fits, LargestCall, after, left
    <2> QED BY <2>6, <2>7
<1> QED BY <1>4, <1>5 DEF ChargesFit

\* On a new day nothing has been used yet.
LEMMA NextDayKeepsFit == ASSUME LogInv, ChargesFit, NextDay PROVE ChargesFit'
<1>1. /\ day \in Nat /\ day' = day + 1 /\ UNCHANGED <<recorded, faults, calling>>
      /\ recorded \in Seq(UsageRecord) /\ faults \in Nat
    BY DEF NextDay, LogInv, Days
<1>2. \A x \in DOMAIN recorded : recorded[x].day \in Nat
    <2> SUFFICES ASSUME NEW x \in DOMAIN recorded PROVE recorded[x].day \in Nat
        OBVIOUS
    <2>1. recorded[x] \in UsageRecord
        BY <1>1, LenProperties, ElementOfSeq
    <2> QED BY <2>1 DEF UsageRecord, Days
<1>3. \A x \in DOMAIN recorded' : recorded'[x].day <= day'
    BY <1>1, <1>2 DEF ChargesFit
<1>4. ASSUME Quota > 0, NEW k \in Keys, NEW d \in Days PROVE Fits(k, d)'
    <2>1. UNCHANGED <<OfDay(k, d), UsageBound, recorded>>
        BY <1>1 DEF OfDay, OfKey, UsageBound, LargestCall
    <2>2. Calling(k, d)' \in SUBSET Requests /\ Calling(k, d) \in SUBSET Requests
        BY DEF Calling
    <2>3. LargestCall * (Cardinality(Requests) + 2 * faults)
            = LargestCall * Cardinality(Requests) + LargestCall * (2 * faults)
          /\ LargestCall * (2 * faults) \in Nat
        BY <1>1, CallsAreFinite, BoundHasParts
    <2>4. /\ LargestCall * Cardinality(Calling(k, d)') <= LargestCall * Cardinality(Requests)
          /\ LargestCall * Cardinality(Calling(k, d)') \in Nat
          /\ LargestCall * Cardinality(Calling(k, d)) \in Nat
          /\ LargestCall * Cardinality(Requests) \in Nat
        BY <2>2, CallersAreFew
    <2>5. Quota \in Nat
        BY LedgerAssumption
    <2>6. CASE d = day + 1
        <3>1. OfDay(k, d) = {}
            BY <1>1, <2>6 DEF OfDay, OfKey, ChargesFit
        <3>2. TokensIn(recorded, OfDay(k, d)) = 0
            BY <1>1, <3>1, NoTokens
        <3>3. LargestCall * Cardinality(Calling(k, d)') <= UsageBound
            BY <1>4, <2>3, <2>4, <2>5 DEF UsageBound
        <3>4. TokensIn(recorded, OfDay(k, d)) + LargestCall * Cardinality(Calling(k, d)')
                <= UsageBound
            BY <2>4, <3>2, <3>3
        <3> QED BY <2>1, <3>4 DEF Fits, LargestCall
    <2>7. CASE d # day + 1
        <3>1. Calling(k, d)' = {}
            BY <1>1, <2>7 DEF Calling
        <3>2. LargestCall * Cardinality({}) = 0
            BY CallsAreFinite, FS_EmptySet
        <3>3. TokensIn(recorded, OfDay(k, d)) + LargestCall * Cardinality(Calling(k, d))
                <= UsageBound
            BY <1>4 DEF ChargesFit, Fits
        <3>4. TokensIn(recorded, OfDay(k, d)) \in Nat /\ UsageBound \in Int
            <4>1. PICK f : IsSum(f, Weights(recorded), DOMAIN recorded)
                BY <1>1, RecordsHaveSums
            <4>2. TokensIn(recorded, OfDay(k, d)) \in Nat
                BY <1>1, <4>1, TokensAreSum DEF OfDay, OfKey
            <4> QED BY <2>3, <2>4, <2>5, <4>2 DEF UsageBound
        <3>5. TokensIn(recorded, OfDay(k, d)) + LargestCall * Cardinality(Calling(k, d)')
                <= UsageBound
            BY <2>4, <3>1, <3>2, <3>3, <3>4
        <3> QED BY <2>1, <3>5 DEF Fits, LargestCall
    <2> QED BY <2>6, <2>7
<1> QED BY <1>3, <1>4 DEF ChargesFit

\* Every step keeps ChargesFit.
LEMMA NextFit == LogInv /\ SumsInv /\ ChargesFit /\ [Next]_vars => ChargesFit'
<1> SUFFICES ASSUME LogInv, SumsInv, ChargesFit, [Next]_vars PROVE ChargesFit'
    OBVIOUS
<1>1. ASSUME NEW r \in Requests, NEW m \in Models, NEW n \in Amounts,
             NEW how \in {"whole", "part", "unended", "lost"}, Record(r, m, n, how)
      PROVE  ChargesFit'
    BY <1>1, RecordKeepsFit
<1>2. ASSUME NEW r \in Requests, NEW k \in Keys, CheckQuota(r, k) PROVE ChargesFit'
    BY <1>2, CheckKeepsFit
<1>3. ASSUME NEW r \in Requests, NoUsage(r) PROVE ChargesFit'
    <2>1. /\ UNCHANGED <<recorded, faults, day>> /\ \A k, d : Calling(k, d)' \subseteq Calling(k, d)
        BY <1>3 DEF NoUsage, Calling, LogInv
    <2> QED BY <2>1, FewerCallsFit
<1>4. CASE Crash
    <2>1. /\ UNCHANGED <<recorded, faults, day>> /\ \A k, d : Calling(k, d)' \subseteq Calling(k, d)
        BY <1>4 DEF Crash, Calling
    <2> QED BY <2>1, FewerCallsFit
<1>5. CASE Restart \/ UNCHANGED vars
    <2>1. UNCHANGED <<recorded, faults, day, calling>>
        BY <1>5 DEF Restart, vars
    <2>2. \A k, d : Calling(k, d)' \subseteq Calling(k, d)
        BY <2>1 DEF Calling
    <2> QED BY <2>1, <2>2, FewerCallsFit
<1>6. CASE NextDay
    BY <1>6, NextDayKeepsFit
<1> QED BY <1>1, <1>2, <1>3, <1>4, <1>5, <1>6 DEF Next

\* Init establishes ChargesFit.
LEMMA InitFit == Init => ChargesFit
<1> SUFFICES ASSUME Init PROVE ChargesFit
    OBVIOUS
<1>1. LogInv /\ DOMAIN recorded = {}
    BY InitLog DEF Init
<1>2. ASSUME Quota > 0, NEW k \in Keys, NEW d \in Days PROVE Fits(k, d)
    <2>1. OfDay(k, d) = {}
        BY <1>1 DEF OfDay, OfKey
    <2>2. TokensIn(recorded, OfDay(k, d)) = 0
        BY <1>1, <2>1, NoTokens DEF LogInv
    <2>3. Calling(k, d) \in SUBSET Requests
        BY DEF Calling
    <2>4. /\ LargestCall * Cardinality(Calling(k, d)) <= LargestCall * Cardinality(Requests)
          /\ LargestCall * Cardinality(Calling(k, d)) \in Nat
          /\ LargestCall * Cardinality(Requests) \in Nat
        BY <2>3, CallersAreFew
    <2>5. LargestCall * (Cardinality(Requests) + 2 * faults)
            = LargestCall * Cardinality(Requests) + LargestCall * (2 * faults)
          /\ LargestCall * (2 * faults) \in Nat
        BY <1>1, CallsAreFinite, BoundHasParts DEF LogInv
    <2>6. Quota \in Nat
        BY LedgerAssumption
    <2>7. TokensIn(recorded, OfDay(k, d)) + LargestCall * Cardinality(Calling(k, d)) <= UsageBound
        BY <1>2, <2>2, <2>4, <2>5, <2>6 DEF UsageBound
    <2> QED BY <2>7 DEF Fits
<1> QED BY <1>1, <1>2 DEF ChargesFit

(***************************************************************************)
(* OvershootIsBounded for any number of handlers, keys, days and faults:   *)
(* whoever passed the quota check yesterday, or before a restart forgot    *)
(* records, is counted among the handlers that run and the faults.         *)
(***************************************************************************)
THEOREM QuotaIsNotFarExceeded == Spec => []OvershootIsBounded
<1>1. Init => LogInv /\ SumsInv /\ ChargesFit
    BY InitLog, InitSums, InitFit
<1>2. LogInv /\ SumsInv /\ ChargesFit /\ [Next]_vars => (LogInv /\ SumsInv /\ ChargesFit)'
    BY NextLog, NextSums, NextFit
<1>3. LogInv /\ SumsInv /\ ChargesFit => OvershootIsBounded
    <2> SUFFICES ASSUME LogInv, ChargesFit, Quota > 0, NEW k \in Keys, NEW d \in Days
                 PROVE  Tokens(OfDay(k, d)) <= Quota - 1
                          + Max(Amounts) * (Cardinality(Requests) + 2 * faults)
        BY DEF OvershootIsBounded
    <2>1. Calling(k, d) \in SUBSET Requests
        BY DEF Calling
    <2>2. LargestCall * Cardinality(Calling(k, d)) \in Nat
        BY <2>1, CallersAreFew
    <2>3. TokensIn(recorded, OfDay(k, d)) + LargestCall * Cardinality(Calling(k, d)) <= UsageBound
        BY DEF ChargesFit, Fits
    <2>4. TokensIn(recorded, OfDay(k, d)) \in Nat /\ UsageBound \in Int
        <3>1. PICK f : IsSum(f, Weights(recorded), DOMAIN recorded)
            BY RecordsHaveSums DEF LogInv
        <3>2. TokensIn(recorded, OfDay(k, d)) \in Nat
            BY <3>1, TokensAreSum DEF LogInv, OfDay, OfKey
        <3>3. LargestCall * (Cardinality(Requests) + 2 * faults) \in Nat
            BY CallsAreFinite, BoundHasParts DEF LogInv
        <3> QED BY <3>2, <3>3, LedgerAssumption DEF UsageBound
    <2>5. TokensIn(recorded, OfDay(k, d)) <= UsageBound
        BY <2>2, <2>3, <2>4
    <2>6. Tokens(OfDay(k, d)) = TokensIn(recorded, OfDay(k, d))
        BY DEF Tokens, TokensIn
    <2> QED BY <2>5, <2>6 DEF UsageBound, LargestCall
<1> QED BY <1>1, <1>2, <1>3, PTL DEF Spec

-----------------------------------------------------------------------------
(***************************************************************************)
(* The configuration in HotReload: the types of contents and requests.     *)
(***************************************************************************)
Table == [Names -> Entries \cup {Absent}]
RequestRecords ==
    {NoRequest} \cup [at : {"register", "persist", "truncate", "write"},
                      name : Names, entry : Entries]

ReloadTypes ==
    /\ ReloadTypeOK /\ admin \in RequestRecords

\* Contents are made of tables, and made from them.
LEMMA ContentsAreTables ==
    /\ \A c \in Contents : c.entries \in Table /\ c.rules \in 0..1
    /\ \A e \in Table, r \in 0..1 : Content(e, r) \in Contents
    /\ Invalid \in Contents /\ Empty \in Contents /\ NoEntries \in Table
    /\ Empty.valid = TRUE /\ Empty.entries = NoEntries
<1>1. NoEntries \in Table
    BY DEF NoEntries, Table
<1>2. Contents = {Invalid} \cup {Content(e, r) : e \in Table, r \in 0..1}
    BY DEF Contents, Table
<1>3. \A e \in Table, r \in 0..1 : Content(e, r) \in Contents
    BY <1>2
<1>4. \A e, r : Content(e, r).entries = e /\ Content(e, r).rules = r /\ Content(e, r).valid = TRUE
    BY DEF Content
<1>5. Invalid.entries = NoEntries /\ Invalid.rules = 0
    BY DEF Invalid
<1>6. \A c \in Contents : c.entries \in Table /\ c.rules \in 0..1
    <2> SUFFICES ASSUME NEW c \in Contents PROVE c.entries \in Table /\ c.rules \in 0..1
        OBVIOUS
    <2>1. c = Invalid \/ \E e \in Table, r \in 0..1 : c = Content(e, r)
        BY <1>2
    <2> HIDE DEF Contents
    <2> QED
        BY <1>1, <1>4, <1>5, <2>1
<1>7. Empty \in Contents /\ Empty.valid = TRUE /\ Empty.entries = NoEntries
    BY <1>1, <1>3, <1>4 DEF Empty
<1> QED
    BY <1>1, <1>2, <1>3, <1>6, <1>7

\* What the editor makes of a content is a content.
LEMMA ChangesAreContents == \A c \in Contents : Changes(c) \subseteq Contents
<1> SUFFICES ASSUME NEW c \in Contents PROVE Changes(c) \subseteq Contents
    OBVIOUS
<1>1. c.entries \in Table /\ c.rules \in 0..1
    BY ContentsAreTables
<1> HIDE DEF Contents
<1>2. \A n \in Names : [c.entries EXCEPT ![n] = Absent] \in Table
    BY <1>1 DEF Table
<1>3. \A n \in Names, k \in ApiKeys : [c.entries EXCEPT ![n].key = k] \in Table
    <2> SUFFICES ASSUME NEW n \in Names, NEW k \in ApiKeys
                 PROVE  [c.entries EXCEPT ![n].key = k] \in Table
        OBVIOUS
    <2>1. c.entries[n] \in Entries \cup {Absent}
        BY <1>1 DEF Table
    <2>2. [c.entries[n] EXCEPT !.key = k] \in Entries
        BY <2>1 DEF Entries, Absent
    <2> QED
        BY <1>1, <2>2 DEF Table
<1>4. \A n \in {m \in Names : c.entries[m] # Absent}, e \in Entries :
        [c.entries EXCEPT ![n].rest = e.rest] \in Table
    <2> SUFFICES ASSUME NEW n \in Names, c.entries[n] # Absent, NEW e \in Entries
                 PROVE  [c.entries EXCEPT ![n].rest = e.rest] \in Table
        OBVIOUS
    <2>1. c.entries[n] \in Entries
        BY <1>1 DEF Table
    <2>2. [c.entries[n] EXCEPT !.rest = e.rest] \in Entries
        BY <2>1 DEF Entries
    <2> QED
        BY <1>1, <2>2 DEF Table
<1>5. \A r \in 0..1, e \in Table : Content(e, r) \in Contents
    BY ContentsAreTables
<1> DEFINE Cleared(n) == [c.entries EXCEPT ![n] = Absent]
           Keyed(n, k) == [c.entries EXCEPT ![n].key = k]
           Rested(n, e) == [c.entries EXCEPT ![n].rest = e.rest]
           Filled == {m \in Names : c.entries[m] # Absent}
<1>6. /\ \A r \in 0..1 : Content(c.entries, r) \in Contents
      /\ \A n \in Names : Content(Cleared(n), c.rules) \in Contents
      /\ \A n \in Names, k \in ApiKeys : Content(Keyed(n, k), c.rules) \in Contents
      /\ \A n \in Filled, e \in Entries : Content(Rested(n, e), c.rules) \in Contents
    BY <1>1, <1>2, <1>3, <1>4, <1>5
<1>7. Changes(c) = {Invalid} \cup {Content(c.entries, r) : r \in 0..1}
                   \cup {Content(Cleared(n), c.rules) : n \in Names}
                   \cup {Content(Keyed(n, k), c.rules) : n \in Names, k \in ApiKeys}
                   \cup {Content(Rested(n, e), c.rules) : n \in Filled, e \in Entries}
    BY DEF Changes
<1> HIDE DEF Cleared, Keyed, Rested, Filled
<1>8. {Content(Keyed(n, k), c.rules) : n \in Names, k \in ApiKeys} \subseteq Contents
    BY <1>6
<1>9. {Content(Rested(n, e), c.rules) : n \in Filled, e \in Entries} \subseteq Contents
    BY <1>6
<1>10. /\ {Content(c.entries, r) : r \in 0..1} \subseteq Contents
       /\ {Content(Cleared(n), c.rules) : n \in Names} \subseteq Contents
    BY <1>6
<1>11. {Invalid} \subseteq Contents
    BY ContentsAreTables
<1> QED
    BY <1>7, <1>8, <1>9, <1>10, <1>11

\* Register and Unregister keep the table of what is served.
LEMMA RegisterType ==
    ASSUME NEW n \in Names, NEW e \in Entries \cup {Absent}, NEW who \in {"file", "start", "admin"},
           served \in Table, owner \in [Names -> {"file", "start", "admin"}],
           Register(n, e, who) \/ Unregister(n, who)
    PROVE  served' \in Table /\ owner' \in [Names -> {"file", "start", "admin"}]
<1>1. Built(e) \in Entries \cup {Absent}
    BY DEF Built
<1> QED
    BY <1>1 DEF Register, Unregister, Table

\* ReloadInit establishes the types, and every step keeps them.
LEMMA InitReloadTypes == ReloadInit => ReloadTypes
<1> SUFFICES ASSUME ReloadInit PROVE ReloadTypes
    OBVIOUS
<1> DEFINE first == [n \in Names |-> [key |-> InitialKey, rest |-> "default"]]
<1>1. first \in Table
    BY ReloadAssumption DEF Table, Entries
<1> HIDE DEF first
<1>2. file = Content(first, 1) /\ served = file.entries /\ rules = file.rules
    BY DEF ReloadInit, first
<1>3. file \in Contents /\ file.entries = first /\ file.rules = 1
    <2>1. file \in Contents
        BY <1>1, <1>2, ContentsAreTables
    <2>2. file.entries = first /\ file.rules = 1
        BY <1>2 DEF Content
    <2> QED
        BY <2>1, <2>2
<1>4. /\ editing = Empty /\ edits = 0 /\ owner = [n \in Names |-> "file"]
      /\ watcher = "off" /\ data = Empty /\ lastHash = Empty /\ lastProviders = NoEntries
      /\ events = NoEvents /\ admin = NoRequest /\ persisting = Empty /\ requests = 0
    BY DEF ReloadInit
<1>5. admin.at = "idle" /\ admin \in RequestRecords
    BY <1>4 DEF NoRequest, RequestRecords
<1>6. events \in [Names -> {"none", "added", "updated", "removed"}]
    BY <1>4 DEF NoEvents
<1> QED
    BY <1>1, <1>2, <1>3, <1>4, <1>5, <1>6, ContentsAreTables, ReloadAssumption
    DEF ReloadTypes, ReloadTypeOK, Table

\* The changes of the table that Diff finds are of these kinds.
Kinds == {"none", "added", "updated", "removed"}
\* A difference of two configurations says of each name what became of it.
LEMMA DiffType == \A old, new : Diff(old, new) \in [Names -> Kinds]
BY DEF Diff, Kinds

\* Every step keeps ReloadTypes.
LEMMA NextReloadTypes == ReloadTypes /\ [ReloadNext]_reloadVars => ReloadTypes'
<1> SUFFICES ASSUME ReloadTypes, [ReloadNext]_reloadVars PROVE ReloadTypes'
    OBVIOUS
<1>a. /\ file \in Contents /\ editing \in Contents /\ data \in Contents
      /\ lastHash \in Contents /\ persisting \in Contents
      /\ served \in Table /\ rules \in 0..1 /\ lastProviders \in Table
      /\ owner \in [Names -> {"file", "start", "admin"}]
      /\ watcher \in {"off", "idle", "read", "rules", "apply"}
      /\ events \in [Names -> Kinds]
      /\ admin \in RequestRecords
      /\ edits \in 0..MaxEdits /\ requests \in 0..MaxAdmin
    BY DEF ReloadTypes, ReloadTypeOK, Table, Kinds
<1>b. /\ MaxEdits \in Nat /\ MaxAdmin \in Nat
      /\ Bodies \subseteq Entries
    BY ReloadAssumption DEF Entries
<1>c. ASSUME /\ file' \in Contents /\ editing' \in Contents /\ data' \in Contents
             /\ lastHash' \in Contents /\ persisting' \in Contents
             /\ served' \in Table /\ rules' \in 0..1 /\ lastProviders' \in Table
             /\ owner' \in [Names -> {"file", "start", "admin"}]
             /\ watcher' \in {"off", "idle", "read", "rules", "apply"}
             /\ events' \in [Names -> Kinds]
             /\ admin' \in RequestRecords
             /\ edits' \in 0..MaxEdits /\ requests' \in 0..MaxAdmin
      PROVE  ReloadTypes'
    <2>1. admin'.at \in {"idle", "register", "persist", "truncate", "write"}
        BY <1>c DEF RequestRecords, NoRequest
    <2> QED
        BY <1>c, <2>1 DEF ReloadTypes, ReloadTypeOK, Table, Kinds
<1>1. CASE Editor
    <2>1. /\ \A c \in Contents : Changes(c) \subseteq Contents
          /\ Empty \in Contents
        BY ChangesAreContents, ContentsAreTables
    <2>2. /\ file' \in Contents /\ editing' \in Contents
          /\ edits' \in 0..MaxEdits
        BY <1>1, <1>a, <1>b, <2>1 DEF Editor, Replace, Truncate, Write
    <2>3. UNCHANGED <<data, lastHash, persisting, served, rules, lastProviders, owner, watcher,
                      events, admin, requests>>
        BY <1>1 DEF Editor, Replace, Truncate, Write, watchVars, adminVars
    <2> QED
        BY <1>a, <1>c, <2>2, <2>3
<1>2. CASE Start
    <2>1. lastProviders' \in Table
        BY <1>2, <1>a, ContentsAreTables DEF Start
    <2>2. owner' \in [Names -> {"file", "start", "admin"}]
        BY <1>2, <1>a DEF Start
    <2> QED
        BY <1>2, <1>a, <1>c, <2>1, <2>2 DEF Start, fileVars, adminVars
<1>3. CASE Read
    BY <1>3, <1>a, <1>c DEF Read, fileVars, adminVars
<1>4. CASE Unchanged
    BY <1>4, <1>a, <1>c, ContentsAreTables DEF Unchanged, fileVars, adminVars
<1>5. CASE Changed
    <2>1. lastProviders' \in Table /\ events' \in [Names -> Kinds]
        BY <1>5, <1>a, ContentsAreTables, DiffType DEF Changed
    <2> QED
        BY <1>5, <1>a, <1>c, <2>1, ContentsAreTables DEF Changed, fileVars, adminVars
<1>6. CASE ReloadRules
    <2>1. rules' \in 0..1
        BY <1>6, <1>a, ContentsAreTables DEF ReloadRules
    <2> QED
        BY <1>6, <1>a, <1>c, <2>1 DEF ReloadRules, fileVars, adminVars
<1>7. ASSUME NEW n \in Names, ApplyAdded(n) \/ ApplyUpdated(n) \/ ApplyRemoved(n)
      PROVE  ReloadTypes'
    <2>1. lastProviders[n] \in Entries \cup {Absent}
        BY <1>a DEF Table
    <2>2. Register(n, lastProviders[n], "file") \/ Unregister(n, "file")
        BY <1>7 DEF ApplyAdded, ApplyUpdated, ApplyRemoved
    <2>3. served' \in Table /\ owner' \in [Names -> {"file", "start", "admin"}]
        BY <1>a, <2>1, <2>2, RegisterType
    <2>4. Applied(n, "none") \/ Applied(n, "added")
        BY <1>7 DEF ApplyAdded, ApplyUpdated, ApplyRemoved
    <2>5. events' \in [Names -> Kinds] /\ watcher' \in {"idle", "apply"}
        BY <1>a, <2>4 DEF Applied, Kinds
    <2> QED
        BY <1>a, <1>c, <2>3, <2>4, <2>5 DEF Applied, fileVars, adminVars
<1>8. CASE AdminCall
    <2>1. PICK n \in Names : \/ AdminRemove(n)
                             \/ \E e \in Bodies : AdminAdd(n, e) \/ AdminEdit(n, e)
        BY <1>8 DEF AdminCall
    <2>2. \/ Unregister(n, "admin")
          \/ \E e \in Entries : Register(n, e, "admin")
        BY <1>b, <2>1 DEF AdminRemove, AdminAdd, AdminEdit
    <2>3. served' \in Table /\ owner' \in [Names -> {"file", "start", "admin"}]
        <3>1. Absent \in Entries \cup {Absent}
            OBVIOUS
        <3> QED
            BY <1>a, <2>2, <3>1, RegisterType
    <2>4. requests' \in 0..MaxAdmin
        BY <1>a, <1>b, <2>1 DEF AdminRemove, AdminAdd, AdminEdit, Request
    <2>5. admin' \in RequestRecords
        BY <1>a, <1>b, <2>1 DEF AdminRemove, AdminAdd, AdminEdit, RequestRecords
    <2>6. UNCHANGED <<fileVars, rules, watchVars, persisting>>
        BY <2>1 DEF AdminRemove, AdminAdd, AdminEdit
    <2> QED
        BY <1>a, <1>c, <2>3, <2>4, <2>5, <2>6 DEF fileVars, watchVars
<1>9. CASE AdminRegister
    <2>1. admin.name \in Names /\ admin.entry \in Entries /\ admin.at = "register"
        BY <1>9, <1>a DEF AdminRegister, RequestRecords, NoRequest
    <2>2. served' \in Table /\ owner' \in [Names -> {"file", "start", "admin"}]
        BY <1>9, <1>a, <2>1, RegisterType DEF AdminRegister
    <2>3. admin' \in RequestRecords
        BY <1>9, <1>a, <2>1 DEF AdminRegister, RequestRecords, NoRequest
    <2> QED
        BY <1>9, <1>a, <1>c, <2>2, <2>3 DEF AdminRegister, fileVars, watchVars
<1>10. CASE AdminRead
    <2>1. admin' \in RequestRecords
        BY <1>10, <1>a DEF AdminRead, RequestRecords, NoRequest
    <2>2. persisting' \in Contents
        BY <1>10, <1>a DEF AdminRead
    <2> QED
        BY <1>10, <1>a, <1>c, <2>1, <2>2 DEF AdminRead, fileVars, watchVars
<1>11. CASE AdminTruncate
    <2>1. admin' \in RequestRecords
        BY <1>11, <1>a DEF AdminTruncate, RequestRecords, NoRequest
    <2> QED
        BY <1>11, <1>a, <1>c, <2>1, ContentsAreTables DEF AdminTruncate, watchVars
<1>12. CASE AdminWrite
    <2>1. admin.entry \in Entries
        BY <1>12, <1>a DEF AdminWrite, RequestRecords, NoRequest
    <2> DEFINE written == [n \in Names |->
                  [key |-> IF n = admin.name THEN admin.entry.key ELSE persisting.entries[n].key,
                   rest |-> "default"]]
    <2>2. persisting.entries \in Table
        BY <1>a, ContentsAreTables
    <2>3. written \in Table
        <3>1. \A n \in Names : persisting.entries[n].key \in ApiKeys \cup {0}
            BY <2>2 DEF Table, Entries, Absent
        <3>2. admin.entry.key \in ApiKeys
            BY <2>1 DEF Entries
        <3> QED
            BY <3>1, <3>2 DEF Table, Entries, Absent
    <2> HIDE DEF written
    <2>4. Content(written, 0) \in Contents /\ Empty \in Contents
        BY <2>3, ContentsAreTables
    <2>5. file' \in Contents
        BY <1>12, <2>4 DEF AdminWrite, Persisted, written
    <2>6. admin' \in RequestRecords
        BY <1>12 DEF AdminWrite, RequestRecords
    <2> QED
        BY <1>12, <1>a, <1>c, <2>4, <2>5, <2>6 DEF AdminWrite, watchVars
<1>13. CASE UNCHANGED reloadVars
    BY <1>13, <1>a, <1>c DEF reloadVars, fileVars, watchVars, adminVars
<1> QED
    BY <1>1, <1>2, <1>3, <1>4, <1>5, <1>6, <1>7, <1>8, <1>9, <1>10, <1>11, <1>12, <1>13
    DEF ReloadNext, Watching, AdminStep

(***************************************************************************)
(* What is served: between reloads no event is left, and of the providers  *)
(* that the file was the last to change, those without an event are served *)
(* as remembered and those to be added are not served.                     *)
(***************************************************************************)
ServedInv ==
    /\ watcher \in {"off", "idle", "read"} => events = NoEvents
    /\ \A n \in Names : events[n] = "removed" => lastProviders[n] = Absent
    /\ watcher # "off" => \A n \in Names : owner[n] = "file" =>
         /\ events[n] = "none" => sameProvider(served[n], Built(lastProviders[n]))
         /\ events[n] = "added" => served[n] = Absent

\* ReloadInit establishes ServedInv.
LEMMA InitServed == ReloadInit => ServedInv
BY DEF ReloadInit, ServedInv, NoEvents

\* Built keeps an absent entry absent, and entries that are the same provider alike.
LEMMA BuiltFacts ==
    /\ Built(Absent) = Absent
    /\ \A a, b, c \in Entries \cup {Absent} :
         /\ sameProvider(a, a)
         /\ sameProvider(a, b) /\ sameProvider(b, c) => sameProvider(a, c)
         /\ sameProvider(a, Absent) => a = Absent
         /\ sameProvider(a, b) => sameProvider(Built(a), Built(b))
         /\ Built(a) \in Entries \cup {Absent}
<1>1. Absent.key = 0 /\ Absent.rest = "default"
    BY DEF Absent
<1>2. 0 \notin Unbuildable /\ 0 \notin ApiKeys
    BY ReloadAssumption
<1>3. Built(Absent) = Absent
    BY <1>1, <1>2 DEF Built
<1>4. \A a \in Entries : a.key \in ApiKeys
    BY DEF Entries
<1>5. \A a, b, c : /\ sameProvider(a, a)
                   /\ sameProvider(a, b) /\ sameProvider(b, c) => sameProvider(a, c)
    BY DEF sameProvider
<1>6. \A a \in Entries \cup {Absent} : sameProvider(a, Absent) => a = Absent
    BY <1>1, <1>2, <1>4 DEF sameProvider
<1>7. \A a, b : sameProvider(a, b) => sameProvider(Built(a), Built(b))
    BY DEF sameProvider, Built
<1>8. \A a \in Entries \cup {Absent} : Built(a) \in Entries \cup {Absent}
    BY DEF Built
<1> QED
    BY <1>3, <1>5, <1>6, <1>7, <1>8

\* A reload finds the events against what it remembers, and remembers the new table.
LEMMA ChangedKeepsServed ==
    ASSUME ReloadTypes, ServedInv, Changed
    PROVE  ServedInv'
<1> DEFINE old == lastProviders
           new == data.entries
<1>1. /\ watcher = "read" /\ events' = Diff(old, new) /\ lastProviders' = new
      /\ watcher' = IF events' = NoEvents THEN "idle" ELSE "rules"
      /\ UNCHANGED <<served, owner>>
    BY DEF Changed
<1>2. old \in Table /\ new \in Table /\ served \in Table
    BY ContentsAreTables DEF ReloadTypes, ReloadTypeOK, Table
<1> HIDE DEF new
<1>3. ASSUME NEW n \in Names
      PROVE  /\ events'[n] = "removed" => new[n] = Absent
             /\ events'[n] = "none" => old[n] = new[n] \/ sameProvider(old[n], new[n])
             /\ events'[n] = "added" => old[n] = Absent
    BY <1>1 DEF Diff
<1>4. ASSUME NEW n \in Names, owner[n] = "file"
      PROVE  /\ events'[n] = "none" => sameProvider(served[n], Built(new[n]))
             /\ events'[n] = "added" => served[n] = Absent
    <2>1. sameProvider(served[n], Built(old[n]))
        BY <1>1, <1>4 DEF ServedInv, NoEvents
    <2>2. /\ old[n] \in Entries \cup {Absent} /\ new[n] \in Entries \cup {Absent}
          /\ served[n] \in Entries \cup {Absent}
        BY <1>2 DEF Table
    <2>3. Built(old[n]) \in Entries \cup {Absent} /\ Built(new[n]) \in Entries \cup {Absent}
        BY <2>2, BuiltFacts
    <2>4. ASSUME events'[n] = "none" PROVE sameProvider(served[n], Built(new[n]))
        <3>1. sameProvider(old[n], new[n])
            BY <1>3, <2>2, <2>4, BuiltFacts
        <3>2. sameProvider(Built(old[n]), Built(new[n]))
            BY <2>2, <3>1, BuiltFacts
        <3> QED
            BY <2>1, <2>2, <2>3, <3>2, BuiltFacts
    <2>5. ASSUME events'[n] = "added" PROVE served[n] = Absent
        <3>1. old[n] = Absent
            BY <1>3, <2>5
        <3> QED
            BY <2>1, <2>2, <3>1, BuiltFacts
    <2> QED
        BY <2>4, <2>5
<1>5. watcher' \in {"idle", "rules"} /\ (watcher' = "idle" => events' = NoEvents)
    BY <1>1
<1>6. \A n \in Names : events'[n] = "removed" => lastProviders'[n] = Absent
    BY <1>1, <1>3
<1>7. \A n \in Names : owner'[n] = "file" =>
        /\ events'[n] = "none" => sameProvider(served'[n], Built(lastProviders'[n]))
        /\ events'[n] = "added" => served'[n] = Absent
    BY <1>1, <1>4
<1> QED
    BY <1>5, <1>6, <1>7 DEF ServedInv, NoEvents

\* Applying an event keeps ServedInv.
LEMMA ApplyKeepsServed ==
    ASSUME ReloadTypes, ServedInv, NEW n \in Names,
           ApplyAdded(n) \/ ApplyUpdated(n) \/ ApplyRemoved(n)
    PROVE  ServedInv'
<1>1. /\ watcher = "apply" /\ watcher' = (IF events' = NoEvents THEN "idle" ELSE "apply")
      /\ lastProviders' = lastProviders
    BY DEF ApplyAdded, ApplyUpdated, ApplyRemoved, Applied
<1>2. /\ lastProviders \in Table /\ served \in Table
      /\ owner \in [Names -> {"file", "start", "admin"}]
      /\ events \in [Names -> Kinds]
    BY DEF ReloadTypes, ReloadTypeOK, Table, Kinds
<1>3. lastProviders[n] \in Entries \cup {Absent} /\ served[n] \in Entries \cup {Absent}
    BY <1>2 DEF Table
<1>4. /\ Built(lastProviders[n]) \in Entries \cup {Absent}
      /\ sameProvider(Built(lastProviders[n]), Built(lastProviders[n]))
      /\ sameProvider(Absent, Absent) /\ Built(Absent) = Absent
    BY <1>3, BuiltFacts
<1>5. \A m \in Names : m # n => /\ served'[m] = served[m] /\ owner'[m] = owner[m]
                                /\ events'[m] = events[m]
    BY <1>2 DEF ApplyAdded, ApplyUpdated, ApplyRemoved, Applied, Register, Unregister, Table
<1>6. /\ events'[n] \in {"none", "added"}
      /\ owner'[n] = "file" =>
           /\ events'[n] = "none" => sameProvider(served'[n], Built(lastProviders[n]))
           /\ events'[n] = "added" => served'[n] = Absent
    <2>1. CASE ApplyAdded(n)
        <3>1. events[n] = "added" /\ events'[n] = "none"
            BY <1>2, <2>1 DEF ApplyAdded, Applied
        <3>2. Register(n, lastProviders[n], "file")
            BY <2>1 DEF ApplyAdded
        <3>3. CASE served[n] = Absent
            BY <1>2, <1>4, <3>1, <3>2, <3>3 DEF Register, Table
        <3>4. CASE served[n] # Absent
            <4>1. owner[n] # "file"
                BY <1>1, <3>1, <3>4 DEF ServedInv
            <4> QED
                BY <3>1, <3>2, <3>4, <4>1 DEF Register
        <3> QED
            BY <3>3, <3>4
    <2>2. CASE ApplyUpdated(n)
        BY <1>2, <2>2 DEF ApplyUpdated, Applied, Unregister, Table
    <2>3. CASE ApplyRemoved(n)
        <3>1. lastProviders[n] = Absent /\ events'[n] = "none" /\ served'[n] = Absent
            BY <1>2, <2>3 DEF ApplyRemoved, Applied, Unregister, Table, ServedInv
        <3> QED
            BY <1>4, <3>1
    <2> QED
        BY <2>1, <2>2, <2>3
<1>7. \A m \in Names : events'[m] = "removed" => lastProviders'[m] = Absent
    BY <1>1, <1>5, <1>6 DEF ServedInv
<1>8. \A m \in Names : owner'[m] = "file" =>
        /\ events'[m] = "none" => sameProvider(served'[m], Built(lastProviders'[m]))
        /\ events'[m] = "added" => served'[m] = Absent
    BY <1>1, <1>5, <1>6 DEF ServedInv
<1> QED
    BY <1>1, <1>7, <1>8 DEF ServedInv, NoEvents

\* The admin API leaves no provider to the file that it changes.
LEMMA AdminKeepsServed ==
    ASSUME ReloadTypes, ServedInv, NEW n \in Names,
           Unregister(n, "admin") \/ \E e : Register(n, e, "admin"),
           UNCHANGED watchVars
    PROVE  ServedInv'
<1>1. served \in Table /\ owner \in [Names -> {"file", "start", "admin"}]
    BY DEF ReloadTypes, ReloadTypeOK, Table
<1>2. \A m \in Names : owner'[m] = "file" => owner[m] = "file" /\ served'[m] = served[m]
    BY <1>1 DEF Register, Unregister, Table
<1>3. UNCHANGED <<watcher, lastProviders, events>>
    BY DEF watchVars
<1> QED
    BY <1>2, <1>3 DEF ServedInv, NoEvents

\* Every step keeps ServedInv.
LEMMA NextServed == ReloadTypes /\ ServedInv /\ [ReloadNext]_reloadVars => ServedInv'
<1> SUFFICES ASSUME ReloadTypes, ServedInv, [ReloadNext]_reloadVars PROVE ServedInv'
    OBVIOUS
<1>1. CASE UNCHANGED <<served, owner, watcher, lastProviders, events>>
    BY <1>1 DEF ServedInv, NoEvents
<1>2. CASE Start
    <2>1. /\ watcher = "off" /\ watcher' = "idle" /\ events' = events /\ events = NoEvents
          /\ served' = served
        BY <1>2 DEF Start, ServedInv
    <2>2. \A n \in Names : owner'[n] = "file" => sameProvider(served[n], Built(lastProviders'[n]))
        BY <1>2 DEF Start
    <2> QED
        BY <2>1, <2>2 DEF ServedInv, NoEvents
<1>3. CASE Read \/ Unchanged
    BY <1>3 DEF Read, Unchanged, ServedInv, NoEvents
<1>4. CASE Changed
    BY <1>4, ChangedKeepsServed
<1>5. CASE ReloadRules
    BY <1>5 DEF ReloadRules, ServedInv, NoEvents
<1>6. ASSUME NEW n \in Names, ApplyAdded(n) \/ ApplyUpdated(n) \/ ApplyRemoved(n)
      PROVE  ServedInv'
    BY <1>6, ApplyKeepsServed
<1>7. CASE AdminCall
    <2>1. PICK n \in Names : \/ AdminRemove(n)
                             \/ \E e \in Bodies : AdminAdd(n, e) \/ AdminEdit(n, e)
        BY <1>7 DEF AdminCall
    <2> QED
        BY <2>1, AdminKeepsServed DEF AdminRemove, AdminAdd, AdminEdit
<1>8. CASE AdminRegister
    <2>1. admin.name \in Names
        BY <1>8 DEF AdminRegister, ReloadTypes, RequestRecords, NoRequest
    <2> QED
        BY <1>8, <2>1, AdminKeepsServed DEF AdminRegister
<1>9. CASE Editor \/ AdminRead \/ AdminTruncate \/ AdminWrite \/ UNCHANGED reloadVars
    BY <1>1, <1>9 DEF Editor, Replace, Truncate, Write, AdminRead, AdminTruncate, AdminWrite,
                      reloadVars, watchVars
<1> QED
    BY <1>2, <1>3, <1>4, <1>5, <1>6, <1>7, <1>8, <1>9 DEF ReloadNext, Watching, AdminStep

(***************************************************************************)
(* ServedAsRemembered for any number of providers, edits and admin         *)
(* requests, in every order in which these and a reload interleave at the  *)
(* calls of the manager.                                                   *)
(***************************************************************************)
THEOREM ReloadsServeAsRemembered == ReloadSpec => []ServedAsRemembered
<1>1. ReloadTypes /\ ServedInv => ServedAsRemembered
    BY DEF ReloadTypes, ServedInv, ServedAsRemembered
<1>2. ReloadTypes /\ ServedInv /\ [ReloadNext]_reloadVars => (ReloadTypes /\ ServedInv)'
    BY NextReloadTypes, NextServed
<1> QED
    BY <1>1, <1>2, InitReloadTypes, InitServed, PTL DEF ReloadSpec

-----------------------------------------------------------------------------
(***************************************************************************)
(* The rings of the SLO monitor.  Between a record and now the rings have  *)
(* made some number of steps, the record's age; a ring of n counts at each *)
(* place the records of one age below n, and what that says of their time  *)
(* depends on how much of it every step forgot.                            *)
(***************************************************************************)

\* What % and \div mean for the rings and the steps.
LEMMA ModWraps ==
    ASSUME NEW n \in Nat \ {0}, NEW x \in 0..(2 * n - 1)
    PROVE  x % n = IF x < n THEN x ELSE x - n
OBVIOUS

\* A quotient times the divisor is at most the dividend, and nearly it.
LEMMA DivBounds ==
    ASSUME NEW n \in Nat \ {0}, NEW x \in Nat
    PROVE  x \div n \in Nat /\ n * (x \div n) <= x /\ x < n * (x \div n) + n
OBVIOUS

\* The slot of a ring of n that was entered a steps ago.
Slot(idx, a, n) == IF a <= idx THEN idx - a ELSE idx - a + n

\* The slots of the ages below n are the places of the ring, one each.
LEMMA SlotsAreThePlaces ==
    ASSUME NEW n \in Nat \ {0}, NEW idx \in 0..(n - 1)
    PROVE  /\ \A a \in 0..(n - 1) : Slot(idx, a, n) \in 0..(n - 1)
           /\ \A a, b \in 0..(n - 1) : Slot(idx, a, n) = Slot(idx, b, n) => a = b
           /\ \A p \in 0..(n - 1) : \E a \in 0..(n - 1) : p = Slot(idx, a, n)
<1>1. \A a \in 0..(n - 1) : Slot(idx, a, n) \in 0..(n - 1)
    BY DEF Slot
<1>2. \A a, b \in 0..(n - 1) : Slot(idx, a, n) = Slot(idx, b, n) => a = b
    BY DEF Slot
<1>3. ASSUME NEW p \in 0..(n - 1) PROVE \E a \in 0..(n - 1) : p = Slot(idx, a, n)
    <2>1. CASE p <= idx
        <3>1. idx - p \in 0..(n - 1) /\ p = Slot(idx, idx - p, n)
            BY <2>1 DEF Slot
        <3> QED BY <3>1
    <2>2. CASE p > idx
        <3>1. idx - p + n \in 0..(n - 1) /\ p = Slot(idx, idx - p + n, n)
            BY <2>2 DEF Slot
        <3> QED BY <3>1
    <2> QED BY <2>1, <2>2
<1> QED BY <1>1, <1>2, <1>3

\* s steps on, the slots entered are those of the last s steps, and the others are
\* s steps older.
LEMMA StepsMoveSlots ==
    ASSUME NEW n \in Nat \ {0}, NEW idx \in 0..(n - 1), NEW s \in 0..n,
           NEW a \in 0..(n - 1)
    PROVE  /\ (idx + s) % n \in 0..(n - 1)
           /\ a < s => \E k \in 1..s : Slot((idx + s) % n, a, n) = (idx + k) % n
           /\ a >= s => /\ Slot((idx + s) % n, a, n) = Slot(idx, a - s, n)
                        /\ ~ \E k \in 1..s : Slot((idx + s) % n, a, n) = (idx + k) % n
<1>1. \A k \in 0..s : (idx + k) % n = IF idx + k < n THEN idx + k ELSE idx + k - n
    <2> SUFFICES ASSUME NEW k \in 0..s
                 PROVE  (idx + k) % n = IF idx + k < n THEN idx + k ELSE idx + k - n
        OBVIOUS
    <2> DEFINE x == idx + k
    <2>1. x \in 0..(2 * n - 1)
        OBVIOUS
    <2> HIDE DEF x
    <2>2. x % n = IF x < n THEN x ELSE x - n
        BY <2>1, ModWraps
    <2> QED BY <2>2 DEF x
<1>2. (idx + s) % n = IF idx + s < n THEN idx + s ELSE idx + s - n
    BY <1>1
<1> DEFINE new == (idx + s) % n
<1>3. new \in 0..(n - 1)
    BY <1>2
<1>4. ASSUME a < s PROVE \E k \in 1..s : Slot(new, a, n) = (idx + k) % n
    <2>1. s - a \in 1..s /\ s - a \in 0..s
        BY <1>4
    <2>2. (idx + (s - a)) % n = IF idx + (s - a) < n THEN idx + (s - a) ELSE idx + (s - a) - n
        BY <1>1, <2>1
    <2> HIDE DEF new
    <2>3. new = IF idx + s < n THEN idx + s ELSE idx + s - n
        BY <1>2 DEF new
    <2>4. Slot(new, a, n) = (idx + (s - a)) % n
        BY <1>4, <2>2, <2>3 DEF Slot
    <2> QED BY <2>1, <2>4
<1>5. ASSUME a >= s PROVE /\ Slot(new, a, n) = Slot(idx, a - s, n)
                          /\ ~ \E k \in 1..s : Slot(new, a, n) = (idx + k) % n
    <2> HIDE DEF new
    <2>1. new = IF idx + s < n THEN idx + s ELSE idx + s - n
        BY <1>2 DEF new
    <2>2. Slot(new, a, n) = Slot(idx, a - s, n)
        BY <1>5, <2>1 DEF Slot
    <2>3. ASSUME NEW k \in 1..s, Slot(new, a, n) = (idx + k) % n PROVE FALSE
        <3>1. (idx + k) % n = IF idx + k < n THEN idx + k ELSE idx + k - n
            BY <1>1
        <3> QED BY <1>5, <2>1, <2>3, <3>1 DEF Slot
    <2> QED BY <2>2, <2>3
<1> QED BY <1>3, <1>4, <1>5

\* The folds of the rings as sums.
Bucket == [successes : Nat, failures : Nat]
Successes(ring) == MapThenSumSet(LAMBDA b : ring[b].successes, DOMAIN ring)
FailuresOf(ring) == [b \in DOMAIN ring |-> ring[b].failures]
SuccessesOf(ring) == [b \in DOMAIN ring |-> ring[b].successes]

AddsFailures(h, ring) ==
    h = [T \in SUBSET DOMAIN ring |-> IF T = {} THEN 0
           ELSE ring[CHOOSE x \in T : TRUE].failures + h[T \ {CHOOSE x \in T : TRUE}]]
AddsSuccesses(h, ring) ==
    h = [T \in SUBSET DOMAIN ring |-> IF T = {} THEN 0
           ELSE ring[CHOOSE x \in T : TRUE].successes + h[T \ {CHOOSE x \in T : TRUE}]]

\* The fold over the failures is what its recursion says.
LEMMA FailuresByRecursion ==
    ASSUME NEW ring, NEW g, AddsFailures(g, ring), \A h : AddsFailures(h, ring) => h = g
    PROVE  Failures(ring) = g[DOMAIN ring]
BY DEF AddsFailures, Failures, MapThenSumSet, MapThenFoldSet

\* So is the fold over the successes.
LEMMA SuccessesByRecursion ==
    ASSUME NEW ring, NEW g, AddsSuccesses(g, ring), \A h : AddsSuccesses(h, ring) => h = g
    PROVE  Successes(ring) = g[DOMAIN ring]
BY DEF AddsSuccesses, Successes, MapThenSumSet, MapThenFoldSet

\* Both are sums over the buckets.
LEMMA RingHasSums ==
    ASSUME NEW I, IsFiniteSet(I), NEW ring \in [I -> Bucket],
           NEW g, IsSum(g, FailuresOf(ring), I), NEW f, IsSum(f, SuccessesOf(ring), I)
    PROVE  Failures(ring) = g[I] /\ Successes(ring) = f[I]
<1> DEFINE v == FailuresOf(ring)
           w == SuccessesOf(ring)
<1>1. DOMAIN ring = I
    OBVIOUS
<1>2. \A T \in SUBSET I : T # {} =>
        /\ v[CHOOSE x \in T : TRUE] = ring[CHOOSE x \in T : TRUE].failures
        /\ w[CHOOSE x \in T : TRUE] = ring[CHOOSE x \in T : TRUE].successes
    BY DEF FailuresOf, SuccessesOf
<1> HIDE DEF v, w
<1>3. AddsUp(g, v, I) /\ \A h : AddsUp(h, v, I) => h = g
    BY AnySums DEF v
<1>4. AddsUp(f, w, I) /\ \A h : AddsUp(h, w, I) => h = f
    BY AnySums DEF w
<1>5. ASSUME NEW h
      PROVE  /\ AddsUp(h, v, I) <=> AddsFailures(h, ring)
             /\ AddsUp(h, w, I) <=> AddsSuccesses(h, ring)
    <2>1. [T \in SUBSET I |-> IF T = {} THEN 0
             ELSE v[CHOOSE x \in T : TRUE] + h[T \ {CHOOSE x \in T : TRUE}]]
          = [T \in SUBSET I |-> IF T = {} THEN 0
               ELSE ring[CHOOSE x \in T : TRUE].failures + h[T \ {CHOOSE x \in T : TRUE}]]
        BY <1>2
    <2>2. [T \in SUBSET I |-> IF T = {} THEN 0
             ELSE w[CHOOSE x \in T : TRUE] + h[T \ {CHOOSE x \in T : TRUE}]]
          = [T \in SUBSET I |-> IF T = {} THEN 0
               ELSE ring[CHOOSE x \in T : TRUE].successes + h[T \ {CHOOSE x \in T : TRUE}]]
        BY <1>2
    <2>3. AddsUp(h, v, I) <=> AddsFailures(h, ring)
        BY <1>1, <2>1 DEF AddsUp, AddsFailures
    <2>4. AddsUp(h, w, I) <=> AddsSuccesses(h, ring)
        BY <1>1, <2>2 DEF AddsUp, AddsSuccesses
    <2> QED BY <2>3, <2>4
<1>6. AddsFailures(g, ring) /\ AddsSuccesses(f, ring)
    BY <1>3, <1>4, <1>5
<1>7. ASSUME NEW h, AddsFailures(h, ring) PROVE h = g
    BY <1>3, <1>5, <1>7
<1>8. ASSUME NEW h, AddsSuccesses(h, ring) PROVE h = f
    BY <1>4, <1>5, <1>8
<1>9. Failures(ring) = g[DOMAIN ring]
    BY <1>6, <1>7, FailuresByRecursion
<1>10. Successes(ring) = f[DOMAIN ring]
    BY <1>6, <1>8, SuccessesByRecursion
<1> QED BY <1>1, <1>9, <1>10

(***************************************************************************)
(* A ring counts the records by their age, the number of steps since they  *)
(* were made.                                                              *)
(***************************************************************************)
SloRecords == [at : Nat, ok : BOOLEAN]
Aged(rec, age, a, ok) == {r \in DOMAIN rec : age[r] = a /\ rec[r].ok = ok}
Younger(rec, age, n, ok) == {r \in DOMAIN rec : age[r] < n /\ rec[r].ok = ok}

RingCounts(ring, idx, n, rec, age) ==
    /\ idx \in 0..(n - 1) /\ ring \in [0..(n - 1) -> Bucket]
    /\ \A a \in 0..(n - 1) :
         /\ ring[Slot(idx, a, n)].successes = Cardinality(Aged(rec, age, a, TRUE))
         /\ ring[Slot(idx, a, n)].failures = Cardinality(Aged(rec, age, a, FALSE))

\* Any of the records are finitely many.
LEMMA RecordsAreFinite ==
    ASSUME NEW rec \in Seq(SloRecords), NEW R \in SUBSET DOMAIN rec
    PROVE  IsFiniteSet(R) /\ Cardinality(R) \in Nat
<1>1. IsFiniteSet(DOMAIN rec)
    BY LenProperties, FS_Interval
<1> QED BY <1>1, FS_Subset, FS_CardinalityType

\* A ring of n buckets that counts records of these ages.
Counting(ring, idx, n, rec, age) ==
    /\ n \in Nat \ {0} /\ rec \in Seq(SloRecords) /\ age \in [DOMAIN rec -> Nat]
    /\ RingCounts(ring, idx, n, rec, age)

\* Its sums are the numbers of records that are younger than the ring is long.
Totalled(ring, n, rec, age) ==
    /\ Failures(ring) = Cardinality(Younger(rec, age, n, FALSE))
    /\ Successes(ring) = Cardinality(Younger(rec, age, n, TRUE))

\* A ring that counts by age has those sums.
LEMMA RingTotals ==
    ASSUME NEW n, NEW idx, NEW ring, NEW rec, NEW age, Counting(ring, idx, n, rec, age)
    PROVE  Totalled(ring, n, rec, age)
<1> DEFINE I == 0..(n - 1)
           S(ok) == Younger(rec, age, n, ok)
           f(ok) == [r \in S(ok) |-> Slot(idx, age[r], n)]
<1> n \in Nat \ {0} /\ rec \in Seq(SloRecords) /\ age \in [DOMAIN rec -> Nat]
    /\ RingCounts(ring, idx, n, rec, age)
    BY DEF Counting
<1>1. IsFiniteSet(I) /\ idx \in I /\ ring \in [I -> Bucket]
    BY FS_Interval DEF RingCounts
<1>2. \A ok : S(ok) \in SUBSET DOMAIN rec /\ IsFiniteSet(S(ok))
    BY RecordsAreFinite DEF Younger
<1>3. ASSUME NEW ok, NEW r \in S(ok) PROVE age[r] \in I
    BY <1>3 DEF Younger
<1>4. ASSUME NEW ok PROVE f(ok) \in [S(ok) -> I]
    BY <1>1, <1>3, SlotsAreThePlaces
<1>5. ASSUME NEW a \in I, NEW ok PROVE {r \in S(ok) : f(ok)[r] = Slot(idx, a, n)} = Aged(rec, age, a, ok)
    <2>1. ASSUME NEW r \in S(ok) PROVE f(ok)[r] = Slot(idx, a, n) <=> age[r] = a
        BY <1>1, <1>3, SlotsAreThePlaces
    <2>2. Aged(rec, age, a, ok) \subseteq S(ok)
        BY DEF Aged, Younger
    <2>3. \A r \in S(ok) : age[r] = a <=> r \in Aged(rec, age, a, ok)
        BY DEF Aged, Younger
    <2> QED BY <2>1, <2>2, <2>3
<1>6. FailuresOf(ring) \in [I -> Nat] /\ SuccessesOf(ring) \in [I -> Nat]
    BY <1>1 DEF FailuresOf, SuccessesOf, Bucket
<1>7. PICK g : IsSum(g, FailuresOf(ring), I)
    BY <1>1, <1>6, SumExists
<1>8. PICK h : IsSum(h, SuccessesOf(ring), I)
    BY <1>1, <1>6, SumExists
<1>9. ASSUME NEW p \in I
      PROVE  /\ FailuresOf(ring)[p] = Cardinality({r \in S(FALSE) : f(FALSE)[r] = p})
             /\ SuccessesOf(ring)[p] = Cardinality({r \in S(TRUE) : f(TRUE)[r] = p})
    <2>1. PICK a \in I : p = Slot(idx, a, n)
        BY <1>1, SlotsAreThePlaces
    <2>2. /\ ring[p].failures = Cardinality(Aged(rec, age, a, FALSE))
          /\ ring[p].successes = Cardinality(Aged(rec, age, a, TRUE))
        BY <2>1 DEF RingCounts
    <2>3. /\ {r \in S(FALSE) : f(FALSE)[r] = p} = Aged(rec, age, a, FALSE)
          /\ {r \in S(TRUE) : f(TRUE)[r] = p} = Aged(rec, age, a, TRUE)
        BY <1>5, <2>1
    <2>4. FailuresOf(ring)[p] = ring[p].failures /\ SuccessesOf(ring)[p] = ring[p].successes
        BY <1>1 DEF FailuresOf, SuccessesOf
    <2> QED BY <2>2, <2>3, <2>4
<1>10. g[I] = Cardinality(S(FALSE))
    <2> DEFINE k == f(FALSE)
    <2>1. k \in [S(FALSE) -> I] /\ IsFiniteSet(S(FALSE))
        BY <1>2, <1>4
    <2>2. NumbersOf(FailuresOf(ring), S(FALSE), k, I)
        BY <1>9 DEF NumbersOf
    <2> DEFINE w == FailuresOf(ring)
               R == S(FALSE)
    <2>3. /\ IsFiniteSet(R) /\ IsFiniteSet(I) /\ k \in [R -> I] /\ w \in [I -> Nat]
          /\ NumbersOf(w, R, k, I) /\ IsSum(g, w, I)
        BY <1>1, <1>6, <1>7, <2>1, <2>2
    <2> HIDE DEF k, w, R, I
    <2>4. g[I] = Cardinality(R)
        BY ONLY <2>3, CountByPlace
    <2> QED BY <2>4 DEF R
<1>11. h[I] = Cardinality(S(TRUE))
    <2> DEFINE k == f(TRUE)
    <2>1. k \in [S(TRUE) -> I] /\ IsFiniteSet(S(TRUE))
        BY <1>2, <1>4
    <2>2. NumbersOf(SuccessesOf(ring), S(TRUE), k, I)
        BY <1>9 DEF NumbersOf
    <2> DEFINE w == SuccessesOf(ring)
               R == S(TRUE)
    <2>3. /\ IsFiniteSet(R) /\ IsFiniteSet(I) /\ k \in [R -> I] /\ w \in [I -> Nat]
          /\ NumbersOf(w, R, k, I) /\ IsSum(h, w, I)
        BY <1>1, <1>6, <1>8, <2>1, <2>2
    <2> HIDE DEF k, w, R, I
    <2>4. h[I] = Cardinality(R)
        BY ONLY <2>3, CountByPlace
    <2> QED BY <2>4 DEF R
<1>12. Failures(ring) = g[I] /\ Successes(ring) = h[I]
    BY <1>1, <1>7, <1>8, RingHasSums
<1> QED BY <1>10, <1>11, <1>12 DEF Totalled

\* The ring after s steps, and the ages after them and a new record.
AdvancedBy(ring, idx, n, s) ==
    [b \in 0..(n - 1) |-> IF \E k \in 1..s : b = (idx + k) % n THEN EmptyBucket ELSE ring[b]]
Older(rec, age, s) == [r \in 1..(Len(rec) + 1) |-> IF r = Len(rec) + 1 THEN 0 ELSE age[r] + s]

\* Appending leaves the records before where they were.
LEMMA AppendedRecord ==
    ASSUME NEW rec \in Seq(SloRecords), NEW e \in SloRecords
    PROVE  /\ Len(rec) \in Nat /\ DOMAIN rec = 1..Len(rec)
           /\ Append(rec, e) \in Seq(SloRecords) /\ Len(Append(rec, e)) = Len(rec) + 1
           /\ DOMAIN Append(rec, e) = 1..(Len(rec) + 1)
           /\ Append(rec, e)[Len(rec) + 1] = e
           /\ \A r \in DOMAIN rec : Append(rec, e)[r] = rec[r]
<1>1. Len(rec) \in Nat /\ DOMAIN rec = 1..Len(rec)
    BY LenProperties
<1>2. /\ Append(rec, e) \in Seq(SloRecords) /\ Len(Append(rec, e)) = Len(rec) + 1
      /\ Append(rec, e)[Len(rec) + 1] = e
      /\ \A r \in 1..Len(rec) : Append(rec, e)[r] = rec[r]
    BY AppendProperties
<1>3. DOMAIN Append(rec, e) = 1..(Len(rec) + 1)
    BY <1>2, LenProperties
<1> QED BY <1>1, <1>2, <1>3

\* Record steps on and counts itself: the ring still counts by age.
LEMMA RecordIsCounted ==
    ASSUME NEW n \in Nat \ {0}, NEW idx, NEW ring, NEW rec \in Seq(SloRecords),
           NEW age \in [DOMAIN rec -> Nat], RingCounts(ring, idx, n, rec, age),
           NEW s \in 0..n, NEW e \in SloRecords
    PROVE  RingCounts(Counted(AdvancedBy(ring, idx, n, s), (idx + s) % n, e.ok),
                      (idx + s) % n, n, Append(rec, e), Older(rec, age, s))
<1> DEFINE longer == Append(rec, e)
           id == Len(rec) + 1
           new == (idx + s) % n
           older == Older(rec, age, s)
           mid == AdvancedBy(ring, idx, n, s)
           I == 0..(n - 1)
           with == Counted(mid, new, e.ok)
<1>1. /\ Len(rec) \in Nat /\ DOMAIN rec = 1..Len(rec) /\ DOMAIN longer = 1..id
      /\ longer[id] = e /\ \A r \in DOMAIN rec : longer[r] = rec[r]
    BY AppendedRecord
<1>2. /\ older \in [DOMAIN longer -> Nat] /\ older[id] = 0
      /\ \A r \in DOMAIN rec : older[r] = age[r] + s
    <2>1. \A r \in 1..id : (IF r = id THEN 0 ELSE age[r] + s) \in Nat
        BY <1>1
    <2> QED BY <1>1, <2>1 DEF Older
<1>3. idx \in I /\ ring \in [I -> Bucket] /\ e.ok \in BOOLEAN /\ EmptyBucket \in Bucket
      /\ EmptyBucket.successes = 0 /\ EmptyBucket.failures = 0
    BY DEF RingCounts, SloRecords, EmptyBucket, Bucket
<1>4. new \in I /\ 0 \in I
    <2>1. 0 \in I
        OBVIOUS
    <2> QED BY <1>3, <2>1, StepsMoveSlots
<1>5. ASSUME NEW a \in I
      PROVE  mid[Slot(new, a, n)] = IF a < s THEN EmptyBucket ELSE ring[Slot(idx, a - s, n)]
    <2>1. Slot(new, a, n) \in I
        BY <1>4, SlotsAreThePlaces
    <2>2. /\ a < s => \E k \in 1..s : Slot(new, a, n) = (idx + k) % n
          /\ a >= s => /\ Slot(new, a, n) = Slot(idx, a - s, n)
                       /\ ~ \E k \in 1..s : Slot(new, a, n) = (idx + k) % n
        BY <1>3, StepsMoveSlots
    <2>3. mid[Slot(new, a, n)] = IF \E k \in 1..s : Slot(new, a, n) = (idx + k) % n
                                 THEN EmptyBucket ELSE ring[Slot(new, a, n)]
        BY <2>1 DEF AdvancedBy
    <2> HIDE DEF new, mid
    <2>4. CASE a < s
        BY <2>2, <2>3, <2>4
    <2>5. CASE a >= s
        BY <2>2, <2>3, <2>5
    <2> QED BY <2>4, <2>5
<1>6. mid \in [I -> Bucket]
    BY <1>3 DEF AdvancedBy
<1> HIDE DEF mid, new, older, longer
<1>7. /\ with \in [I -> Bucket]
      /\ \A p \in I : p # new => with[p] = mid[p]
      /\ with[new].successes = mid[new].successes + (IF e.ok THEN 1 ELSE 0)
      /\ with[new].failures = mid[new].failures + (IF e.ok THEN 0 ELSE 1)
    <2>1. mid[new] \in Bucket
        BY <1>4, <1>6
    <2> DEFINE more == [mid[new] EXCEPT !.successes = @ + 1]
               worse == [mid[new] EXCEPT !.failures = @ + 1]
    <2>2. /\ more \in Bucket /\ more.successes = mid[new].successes + 1
          /\ more.failures = mid[new].failures
          /\ worse \in Bucket /\ worse.failures = mid[new].failures + 1
          /\ worse.successes = mid[new].successes
          /\ mid[new].successes + 0 = mid[new].successes /\ mid[new].failures + 0 = mid[new].failures
        BY <2>1 DEF Bucket
    <2>3. with = IF e.ok THEN [mid EXCEPT ![new] = more] ELSE [mid EXCEPT ![new] = worse]
        BY DEF Counted
    <2> HIDE DEF more, worse, with
    <2>4. CASE e.ok
        BY <1>4, <1>6, <2>2, <2>3, <2>4
    <2>5. CASE ~e.ok
        BY <1>4, <1>6, <2>2, <2>3, <2>5
    <2> QED BY <2>4, <2>5
<1> HIDE DEF with
<1>8. ASSUME NEW a \in I, NEW ok \in BOOLEAN
      PROVE  Aged(longer, older, a, ok)
               = (IF a < s THEN {} ELSE Aged(rec, age, a - s, ok))
                 \cup (IF a = 0 /\ e.ok = ok THEN {id} ELSE {})
    <2>1. ASSUME NEW r \in DOMAIN rec
          PROVE  r \in Aged(longer, older, a, ok) <=> a >= s /\ r \in Aged(rec, age, a - s, ok)
        <3>1. age[r] \in Nat /\ older[r] = age[r] + s /\ longer[r] = rec[r] /\ r \in DOMAIN longer
            BY <1>1, <1>2
        <3>2. age[r] + s = a <=> a >= s /\ age[r] = a - s
            BY <3>1
        <3> QED BY <3>1, <3>2 DEF Aged
    <2>2. id \in Aged(longer, older, a, ok) <=> a = 0 /\ e.ok = ok
        BY <1>1, <1>2 DEF Aged
    <2>3. Aged(longer, older, a, ok) \subseteq DOMAIN rec \cup {id}
        BY <1>1 DEF Aged
    <2>4. Aged(rec, age, a - s, ok) \subseteq DOMAIN rec /\ id \notin DOMAIN rec
        BY <1>1 DEF Aged
    <2> QED BY <2>1, <2>2, <2>3, <2>4
<1>9. ASSUME NEW a \in I, NEW ok \in BOOLEAN
      PROVE  Cardinality(Aged(longer, older, a, ok))
               = (IF a < s THEN 0 ELSE Cardinality(Aged(rec, age, a - s, ok)))
                 + (IF a = 0 /\ e.ok = ok THEN 1 ELSE 0)
    <2> DEFINE A == IF a < s THEN {} ELSE Aged(rec, age, a - s, ok)
    <2>1. A \in SUBSET DOMAIN rec /\ id \notin A
        BY <1>1 DEF Aged
    <2>2. IsFiniteSet(A) /\ Cardinality(A) \in Nat
        BY <2>1, RecordsAreFinite
    <2>3. Cardinality(A) = IF a < s THEN 0 ELSE Cardinality(Aged(rec, age, a - s, ok))
        BY FS_EmptySet
    <2>4. Aged(longer, older, a, ok) = A \cup (IF a = 0 /\ e.ok = ok THEN {id} ELSE {})
        BY <1>8
    <2> HIDE DEF A
    <2>5. CASE a = 0 /\ e.ok = ok
        <3>1. Cardinality(A \cup {id}) = Cardinality(A) + 1
            BY <2>1, <2>2, FS_AddElement
        <3> QED BY <2>3, <2>4, <2>5, <3>1
    <2>6. CASE ~(a = 0 /\ e.ok = ok)
        <3>1. Aged(longer, older, a, ok) = A
            BY <2>4, <2>6
        <3> QED BY <2>2, <2>3, <2>6, <3>1
    <2> QED BY <2>5, <2>6
<1>10. ASSUME NEW a \in I
       PROVE  /\ with[Slot(new, a, n)].successes = Cardinality(Aged(longer, older, a, TRUE))
              /\ with[Slot(new, a, n)].failures = Cardinality(Aged(longer, older, a, FALSE))
    <2>1. /\ mid[Slot(new, a, n)].successes
               = IF a < s THEN 0 ELSE Cardinality(Aged(rec, age, a - s, TRUE))
          /\ mid[Slot(new, a, n)].failures
               = IF a < s THEN 0 ELSE Cardinality(Aged(rec, age, a - s, FALSE))
        <3> DEFINE c == mid[Slot(new, a, n)]
                   one == Cardinality(Aged(rec, age, a - s, TRUE))
                   two == Cardinality(Aged(rec, age, a - s, FALSE))
        <3>3. c = IF a < s THEN EmptyBucket ELSE ring[Slot(idx, a - s, n)]
            BY <1>5
        <3>1. CASE a < s
            BY <1>3, <3>1, <3>3
        <3>2. CASE a >= s
            <4>1. a - s \in I
                BY <3>2
            <4>2. /\ ring[Slot(idx, a - s, n)].successes = Cardinality(Aged(rec, age, a - s, TRUE))
                  /\ ring[Slot(idx, a - s, n)].failures = Cardinality(Aged(rec, age, a - s, FALSE))
                BY <4>1 DEF RingCounts
            <4>3. ~(a < s)
                BY <3>2
            <4>4. mid[Slot(new, a, n)] = ring[Slot(idx, a - s, n)]
                BY <3>3, <4>3
            <4>5. mid[Slot(new, a, n)].successes = IF a < s THEN 0 ELSE one
                BY <4>2, <4>3, <4>4
            <4>6. mid[Slot(new, a, n)].failures = IF a < s THEN 0 ELSE two
                BY <4>2, <4>3, <4>4
            <4> QED BY <4>5, <4>6
        <3> HIDE DEF c
        <3>4. a < s \/ a >= s
            BY <1>3
        <3> QED BY <3>1, <3>2, <3>4
    <2>2. Slot(new, 0, n) = new /\ (Slot(new, a, n) = new <=> a = 0) /\ Slot(new, a, n) \in I
        <3>1. Slot(new, 0, n) = new
            BY <1>4 DEF Slot
        <3>2. /\ \A x \in 0..(n - 1) : Slot(new, x, n) \in 0..(n - 1)
              /\ \A x, y \in 0..(n - 1) : Slot(new, x, n) = Slot(new, y, n) => x = y
            BY <1>4, SlotsAreThePlaces
        <3> QED BY <1>4, <3>1, <3>2
    <2>3. mid[Slot(new, a, n)] \in Bucket
        BY <1>6, <2>2
    <2> DEFINE cs == Cardinality(Aged(longer, older, a, TRUE))
               cf == Cardinality(Aged(longer, older, a, FALSE))
               os == IF a < s THEN 0 ELSE Cardinality(Aged(rec, age, a - s, TRUE))
               of == IF a < s THEN 0 ELSE Cardinality(Aged(rec, age, a - s, FALSE))
    <2>6. /\ cs = os + (IF a = 0 /\ e.ok = TRUE THEN 1 ELSE 0)
          /\ cf = of + (IF a = 0 /\ e.ok = FALSE THEN 1 ELSE 0)
        BY <1>9
    <2>7. mid[Slot(new, a, n)].successes = os /\ mid[Slot(new, a, n)].failures = of
        BY <2>1
    <2>8. os \in Nat /\ of \in Nat
        BY <2>3, <2>7 DEF Bucket
    <2> HIDE DEF cs, cf, os, of
    <2>4. CASE a = 0
        <3>1. Slot(new, a, n) = new
            BY <2>2, <2>4
        <3>2. CASE e.ok
            BY <1>7, <2>4, <2>6, <2>7, <3>1, <3>2 DEF cs, cf
        <3>3. CASE ~e.ok
            BY <1>3, <1>7, <2>4, <2>6, <2>7, <3>1, <3>3 DEF cs, cf
        <3> QED BY <3>2, <3>3
    <2>5. CASE a # 0
        <3>1. with[Slot(new, a, n)] = mid[Slot(new, a, n)]
            BY <1>7, <2>2, <2>5
        <3>2. cs = os + 0 /\ cf = of + 0
            BY <2>5, <2>6
        <3>3. cs = os /\ cf = of
            BY <2>8, <3>2
        <3> QED BY <2>7, <3>1, <3>3 DEF cs, cf
    <2> QED BY <2>4, <2>5
<1> QED BY <1>4, <1>7, <1>10 DEF RingCounts, with, mid, new, older, longer


-----------------------------------------------------------------------------
(***************************************************************************)
(* Where the records are: the steps since each, and the last advance when  *)
(* it was made, with what they say of its time.  A step is at least a      *)
(* bucket size; it is less than two of them unless advance was capped,     *)
(* which needs a pause.                                                    *)
(***************************************************************************)
NoPause(rec) ==
    \A r \in DOMAIN rec : r > 1 => rec[r].at - rec[r - 1].at <= ShortBuckets * BucketSize

TimesFit(rec, age, base, last, time) ==
    /\ age \in [DOMAIN rec -> Nat] /\ base \in [DOMAIN rec -> Nat]
    /\ \A r \in DOMAIN rec :
         /\ rec[r].at <= time
         /\ base[r] <= rec[r].at /\ rec[r].at < base[r] + BucketSize
         /\ base[r] <= last
         /\ BucketSize * age[r] <= last - base[r]
         /\ age[r] < ShortBuckets \/ NoPause(rec)
              => last - base[r] <= (2 * BucketSize - 1) * age[r]

LastFits(rec, last) ==
    rec # <<>> => last <= rec[Len(rec)].at /\ rec[Len(rec)].at < last + BucketSize

RingsCount ==
    \E age, base :
        /\ TimesFit(seen, age, base, lastAdvance, now)
        /\ RingCounts(short, shortIdx, ShortBuckets, seen, age)
        /\ RingCounts(long, longIdx, LongBuckets, seen, age)

AlertSent == lastAlert # "none" => alerts # <<>> /\ alerts[Len(alerts)] = lastAlert

SloInv ==
    /\ now \in 0..MaxNow /\ lastAdvance \in 0..now
    /\ seen \in Seq(SloRecords) /\ LastFits(seen, lastAdvance)
    /\ RingsCount
    /\ alerts \in Seq({"page", "ticket"}) /\ AlertSent

\* SloInit establishes SloInv.
LEMMA InitSlo == SloInit => SloInv
<1> SUFFICES ASSUME SloInit PROVE SloInv
    OBVIOUS
<1>1. ASSUME NEW n \in Nat \ {0} PROVE RingCounts(EmptyRing(n), 0, n, <<>>, <<>>)
    <2> DEFINE ring == EmptyRing(n)
    <2>1. 0 \in 0..(n - 1) /\ EmptyBucket \in Bucket
        BY DEF EmptyBucket, Bucket
    <2>2. ring \in [0..(n - 1) -> Bucket] /\ \A b \in 0..(n - 1) : ring[b] = EmptyBucket
        BY <2>1 DEF EmptyRing
    <2>3. EmptyBucket.successes = 0 /\ EmptyBucket.failures = 0
        BY DEF EmptyBucket
    <2>4. \A a : \A ok : Cardinality(Aged(<<>>, <<>>, a, ok)) = 0
        <3>1. \A a : \A ok : Aged(<<>>, <<>>, a, ok) = {}
            BY DEF Aged
        <3> QED BY <3>1, FS_EmptySet
    <2> HIDE DEF ring
    <2>5. ASSUME NEW a \in 0..(n - 1) PROVE ring[Slot(0, a, n)] = EmptyBucket
        BY <2>1, <2>2, SlotsAreThePlaces
    <2> QED BY <2>1, <2>2, <2>3, <2>4, <2>5 DEF RingCounts, ring
<1>2. TimesFit(seen, <<>>, <<>>, 0, 0)
    BY DEF SloInit, TimesFit
<1>3. RingsCount
    BY <1>1, <1>2, SloAssumption DEF SloInit, RingsCount
<1>4. seen \in Seq(SloRecords) /\ LastFits(seen, lastAdvance)
    BY DEF SloInit, LastFits
<1>5. alerts \in Seq({"page", "ticket"}) /\ AlertSent
    BY DEF SloInit, AlertSent
<1>6. now \in 0..MaxNow /\ lastAdvance \in 0..now
    BY SloAssumption DEF SloInit
<1> QED BY <1>3, <1>4, <1>5, <1>6 DEF SloInv

\* How far a call of advance steps, and how far that is from the time it takes.
LEMMA StepsFit ==
    ASSUME now \in Nat, lastAdvance \in 0..now
    PROVE  /\ Steps \in 0..ShortBuckets
           /\ now - lastAdvance < BucketSize => Steps = 0
           /\ BucketSize * Steps <= now - lastAdvance
           /\ ~(now - lastAdvance < BucketSize) =>
                /\ Steps >= 1
                /\ \/ Steps < ShortBuckets
                   \/ now - lastAdvance < ShortBuckets * BucketSize + BucketSize
                   => now - lastAdvance <= (2 * BucketSize - 1) * Steps
<1> DEFINE B == BucketSize
           e == now - lastAdvance
           q == e \div B
<1>1. B \in Nat \ {0} /\ e \in Nat /\ ShortBuckets \in Nat \ {0}
    BY SloAssumption
<1>2. q \in Nat /\ B * q <= e /\ e < B * q + B
    BY <1>1, DivBounds
<1>3. Steps = IF q > ShortBuckets THEN ShortBuckets ELSE q
    BY DEF Steps
<1>4. e < B => q = 0
    <2>1. q >= 1 => B * 1 <= B * q
        BY <1>1, <1>2, TimesGrows
    <2> QED BY <1>1, <1>2, <2>1
<1>5. B * ShortBuckets = ShortBuckets * B /\ B * ShortBuckets \in Nat
    BY <1>1
<1> HIDE DEF B, e, q
<1>6. q > ShortBuckets => /\ B * (ShortBuckets + 1) <= B * q
                          /\ B * (ShortBuckets + 1) = B * ShortBuckets + B
    BY <1>1, <1>2, TimesGrows, OneMoreTimes
<1>7. ~(e < B) => q >= 1
    <2>1. q = 0 => B * q = 0
        BY <1>1
    <2> QED BY <1>1, <1>2, <2>1
<1>8. q >= 1 => e <= (2 * B - 1) * q
    <2> SUFFICES ASSUME q >= 1 PROVE e <= (2 * B - 1) * q
        OBVIOUS
    <2>1. B - 1 \in Nat /\ 2 * B - 1 = B + (B - 1)
        BY <1>1
    <2>2. q * (B + (B - 1)) = q * B + q * (B - 1) /\ q * B \in Nat
        BY <1>1, <1>2, <2>1, Distributes
    <2>3. (B - 1) * 1 <= (B - 1) * q
        BY <1>2, <2>1, TimesGrows
    <2>4. q * B = B * q /\ q * (B - 1) = (B - 1) * q /\ (2 * B - 1) * q = q * (2 * B - 1)
        BY <1>1, <1>2
    <2> QED BY <1>1, <1>2, <2>1, <2>2, <2>3, <2>4
<1>9. B * Steps <= e
    BY <1>1, <1>2, <1>3, <1>5, <1>6
<1>10. Steps < ShortBuckets \/ e < ShortBuckets * B + B => Steps = q
    BY <1>1, <1>2, <1>3, <1>5, <1>6
<1> QED BY <1>1, <1>2, <1>3, <1>4, <1>7, <1>8, <1>9, <1>10 DEF B, e

\* The records after a Record, with the times of the new one.
LEMMA RecordIsPlaced ==
    ASSUME SloInv, NEW age, NEW base, TimesFit(seen, age, base, lastAdvance, now),
           NEW e \in SloRecords, e.at = now,
           NEW last, last = IF now - lastAdvance < BucketSize THEN lastAdvance ELSE now
    PROVE  /\ \E later : TimesFit(Append(seen, e), Older(seen, age, Steps), later, last, now)
           /\ LastFits(Append(seen, e), last)
           /\ last \in 0..now
<1> DEFINE longer == Append(seen, e)
           id == Len(seen) + 1
           older == Older(seen, age, Steps)
           later == [r \in 1..id |-> IF r = id THEN last ELSE base[r]]
           B == BucketSize
           SB == ShortBuckets
<1>1. now \in 0..MaxNow /\ lastAdvance \in 0..now /\ seen \in Seq(SloRecords)
      /\ MaxNow \in Nat /\ B \in Nat \ {0} /\ SB \in Nat \ {0} /\ now \in Nat /\ lastAdvance \in Nat
    BY SloAssumption DEF SloInv
<1>2. /\ Len(seen) \in Nat /\ DOMAIN seen = 1..Len(seen) /\ DOMAIN longer = 1..id
      /\ Len(longer) = id /\ longer[id] = e /\ \A r \in DOMAIN seen : longer[r] = seen[r]
    BY <1>1, AppendedRecord
<1>3. last \in 0..now /\ lastAdvance <= last /\ now < last + B
    BY <1>1
<1>4. /\ Steps \in 0..SB /\ B * Steps <= last - lastAdvance
      /\ Steps < SB \/ now - lastAdvance < SB * B + B
           => last - lastAdvance <= (2 * B - 1) * Steps
    <2>1. /\ Steps \in 0..SB
          /\ now - lastAdvance < B => Steps = 0
          /\ B * Steps <= now - lastAdvance
          /\ ~(now - lastAdvance < B) =>
               (Steps < SB \/ now - lastAdvance < SB * B + B
                  => now - lastAdvance <= (2 * B - 1) * Steps)
        BY <1>1, StepsFit
    <2>2. Steps = 0 => B * Steps = 0 /\ (2 * B - 1) * Steps = 0
        BY <1>1
    <2> HIDE DEF B, SB
    <2>3. CASE now - lastAdvance < B
        <3>1. last - lastAdvance = 0
            BY <1>1, <2>3 DEF B
        <3> QED BY <2>1, <2>2, <2>3, <3>1
    <2>4. CASE ~(now - lastAdvance < B)
        <3>1. last = now
            BY <2>4 DEF B
        <3> QED BY <2>1, <2>4, <3>1
    <2> QED BY <2>3, <2>4
<1>5. LastFits(longer, last)
    BY <1>2, <1>3 DEF LastFits
<1>6. /\ older \in [DOMAIN longer -> Nat] /\ later \in [DOMAIN longer -> Nat]
      /\ older[id] = 0 /\ later[id] = last
      /\ \A r \in DOMAIN seen : older[r] = age[r] + Steps /\ later[r] = base[r]
    <2>1. age \in [DOMAIN seen -> Nat] /\ base \in [DOMAIN seen -> Nat]
        BY DEF TimesFit
    <2>2. \A r \in 1..id : r # id => r \in DOMAIN seen
        BY <1>2
    <2>3. \A r \in DOMAIN seen : r \in 1..id /\ r # id
        BY <1>2
    <2>4. last \in Nat /\ id \in 1..id
        BY <1>1, <1>2, <1>3
    <2>5. \A r \in 1..id : (IF r = id THEN 0 ELSE age[r] + Steps) \in Nat
        BY <1>4, <2>1, <2>2
    <2> QED BY <1>2, <2>1, <2>2, <2>3, <2>4, <2>5 DEF Older
<1> HIDE DEF longer, older, later
<1>7. NoPause(longer) => NoPause(seen)
    <2> SUFFICES ASSUME NoPause(longer), NEW r \in DOMAIN seen, r > 1
                 PROVE  seen[r].at - seen[r - 1].at <= ShortBuckets * BucketSize
        BY DEF NoPause
    <2>1. r - 1 \in DOMAIN seen /\ r \in DOMAIN longer
        BY <1>2
    <2>2. longer[r].at - longer[r - 1].at <= ShortBuckets * BucketSize
        BY <2>1 DEF NoPause
    <2> QED BY <1>2, <2>1, <2>2
<1>8. NoPause(longer) /\ seen # <<>> => now - lastAdvance < SB * B + B
    <2> SUFFICES ASSUME NoPause(longer), seen # <<>> PROVE now - lastAdvance < SB * B + B
        OBVIOUS
    <2>1. Len(seen) >= 1 /\ Len(seen) \in DOMAIN seen /\ id \in DOMAIN longer /\ id - 1 = Len(seen)
          /\ id > 1
        BY <1>1, <1>2, EmptySeq
    <2>2. now - seen[Len(seen)].at <= SB * B
        BY <1>2, <2>1 DEF NoPause
    <2>3. seen[Len(seen)].at < lastAdvance + B
        BY DEF SloInv, LastFits
    <2>4. seen[Len(seen)] \in SloRecords
        BY <1>1, <2>1, ElementOfSeq
    <2>5. SB * B \in Nat
        BY <1>1
    <2> QED BY <1>1, <2>2, <2>3, <2>4, <2>5 DEF SloRecords
<1>9. ASSUME NEW r \in DOMAIN seen
      PROVE  /\ longer[r].at <= now
             /\ later[r] <= longer[r].at /\ longer[r].at < later[r] + B
             /\ later[r] <= last
             /\ B * older[r] <= last - later[r]
             /\ older[r] < SB \/ NoPause(longer) => last - later[r] <= (2 * B - 1) * older[r]
    <2>1. /\ seen[r].at <= now
          /\ base[r] <= seen[r].at /\ seen[r].at < base[r] + B
          /\ base[r] <= lastAdvance /\ base[r] \in Nat /\ age[r] \in Nat
          /\ B * age[r] <= lastAdvance - base[r]
          /\ age[r] < SB \/ NoPause(seen) => lastAdvance - base[r] <= (2 * B - 1) * age[r]
        BY DEF TimesFit
    <2>2. longer[r] = seen[r] /\ older[r] = age[r] + Steps /\ later[r] = base[r]
        BY <1>2, <1>6
    <2>3. /\ B * (age[r] + Steps) = B * age[r] + B * Steps
          /\ (2 * B - 1) * (age[r] + Steps) = (2 * B - 1) * age[r] + (2 * B - 1) * Steps
          /\ B * age[r] \in Nat /\ B * Steps \in Nat
          /\ (2 * B - 1) * age[r] \in Nat /\ (2 * B - 1) * Steps \in Nat
        <3> DEFINE m == 2 * B - 1
        <3>1. Steps \in Nat /\ m \in Nat /\ B \in Nat /\ age[r] \in Nat
            <4>1. B \in Nat \ {0} /\ SB \in Nat /\ Steps \in 0..SB
                BY <1>1, <1>4
            <4>2. age[r] \in Nat
                BY <2>1
            <4> HIDE DEF B, SB
            <4> QED BY ONLY <4>1, <4>2 DEF m
        <3> HIDE DEF m, B
        <3>2. /\ B * (age[r] + Steps) = B * age[r] + B * Steps
              /\ B * age[r] \in Nat /\ B * Steps \in Nat
            BY ONLY <3>1, Distributes
        <3>3. /\ m * (age[r] + Steps) = m * age[r] + m * Steps
              /\ m * age[r] \in Nat /\ m * Steps \in Nat
            BY ONLY <3>1, Distributes
        <3> QED BY <3>2, <3>3 DEF m
    <2>4. seen # <<>>
        OBVIOUS
    <2> HIDE DEF B, SB
    <2>5. ASSUME older[r] < SB \/ NoPause(longer) PROVE last - later[r] <= (2 * B - 1) * older[r]
        <3>1. age[r] < SB \/ NoPause(seen)
            BY <1>1, <1>4, <1>7, <2>1, <2>2, <2>5
        <3>2. Steps < SB \/ now - lastAdvance < SB * B + B
            BY <1>1, <1>4, <1>8, <2>1, <2>2, <2>4, <2>5
        <3>3. last - lastAdvance <= (2 * B - 1) * Steps
            BY <1>4, <3>2
        <3>4. lastAdvance - base[r] <= (2 * B - 1) * age[r]
            BY <2>1, <3>1
        <3> DEFINE f == (2 * B - 1) * age[r]
                   g == (2 * B - 1) * Steps
        <3>5. f \in Nat /\ g \in Nat /\ (2 * B - 1) * older[r] = f + g
            BY <2>2, <2>3
        <3>6. last - lastAdvance <= g /\ lastAdvance - base[r] <= f
            BY <3>3, <3>4
        <3> HIDE DEF f, g
        <3>7. last - base[r] <= f + g
            BY <1>1, <1>3, <2>1, <3>5, <3>6
        <3> QED BY <2>2, <3>5, <3>7
    <2>6. B * older[r] <= last - later[r]
        <3> DEFINE f == B * age[r]
                   g == B * Steps
        <3>1. f \in Nat /\ g \in Nat /\ B * older[r] = f + g
            BY <2>2, <2>3
        <3>2. g <= last - lastAdvance /\ f <= lastAdvance - base[r]
            BY <1>4, <2>1
        <3> HIDE DEF f, g
        <3>3. f + g <= last - base[r]
            BY <1>1, <1>3, <2>1, <3>1, <3>2
        <3> QED BY <2>2, <3>1, <3>3
    <2>7. later[r] <= last
        BY <1>1, <1>3, <2>1, <2>2
    <2> QED BY <2>1, <2>2, <2>5, <2>6, <2>7
<1>10. /\ longer[id].at <= now
       /\ later[id] <= longer[id].at /\ longer[id].at < later[id] + B
       /\ later[id] <= last
       /\ B * older[id] <= last - later[id]
       /\ last - later[id] <= (2 * B - 1) * older[id]
    <2>1. B * 0 = 0 /\ (2 * B - 1) * 0 = 0 /\ last - last = 0
        BY <1>1, <1>3
    <2> QED BY <1>1, <1>2, <1>3, <1>6, <2>1
<1>11. \A r \in DOMAIN longer : r = id \/ r \in DOMAIN seen
    BY <1>2
<1>12. TimesFit(longer, older, later, last, now)
    BY <1>6, <1>9, <1>10, <1>11 DEF TimesFit
<1> QED BY <1>3, <1>5, <1>12 DEF longer, older

\* A Record keeps SloInv.
LEMMA RecordKeepsSlo == SloInv /\ (\E ok \in BOOLEAN : SloRecord(ok)) => SloInv'
<1> SUFFICES ASSUME SloInv, NEW ok \in BOOLEAN, SloRecord(ok) PROVE SloInv'
    OBVIOUS
<1> DEFINE e == [at |-> now, ok |-> ok]
<1>1. /\ now \in 0..MaxNow /\ now \in Nat /\ lastAdvance \in 0..now /\ seen \in Seq(SloRecords)
      /\ alerts \in Seq({"page", "ticket"}) /\ AlertSent
      /\ ShortBuckets \in Nat \ {0} /\ LongBuckets \in Nat \ {0} /\ ShortBuckets <= LongBuckets
    BY SloAssumption DEF SloInv
<1>2. e \in SloRecords /\ e.at = now /\ e.ok = ok
    BY <1>1 DEF SloRecords
<1>3. /\ seen' = Append(seen, e) /\ now' = now
      /\ lastAdvance' = IF now - lastAdvance < BucketSize THEN lastAdvance ELSE now
      /\ shortIdx' = (shortIdx + Steps) % ShortBuckets
      /\ longIdx' = (longIdx + Steps) % LongBuckets
      /\ short' = Counted(Advanced(short, shortIdx, ShortBuckets), shortIdx', ok)
      /\ long' = Counted(Advanced(long, longIdx, LongBuckets), longIdx', ok)
    BY DEF SloRecord
<1> HIDE DEF e
<1>4. PICK age, base :
        /\ TimesFit(seen, age, base, lastAdvance, now)
        /\ RingCounts(short, shortIdx, ShortBuckets, seen, age)
        /\ RingCounts(long, longIdx, LongBuckets, seen, age)
    BY DEF SloInv, RingsCount
<1>5. PICK later : TimesFit(Append(seen, e), Older(seen, age, Steps), later, lastAdvance', now)
    BY <1>2, <1>3, <1>4, RecordIsPlaced
<1>6. LastFits(Append(seen, e), lastAdvance') /\ lastAdvance' \in 0..now
    BY <1>2, <1>3, <1>4, RecordIsPlaced
<1>7. age \in [DOMAIN seen -> Nat] /\ Steps \in 0..ShortBuckets /\ Steps \in 0..LongBuckets
    <2>1. Steps \in 0..ShortBuckets
        BY <1>1, StepsFit
    <2> QED BY <1>1, <1>4, <2>1 DEF TimesFit
<1>8. /\ AdvancedBy(short, shortIdx, ShortBuckets, Steps) = Advanced(short, shortIdx, ShortBuckets)
      /\ AdvancedBy(long, longIdx, LongBuckets, Steps) = Advanced(long, longIdx, LongBuckets)
    BY DEF AdvancedBy, Advanced
<1>9. RingCounts(short', shortIdx', ShortBuckets, seen', Older(seen, age, Steps))
    <2>1. RingCounts(Counted(AdvancedBy(short, shortIdx, ShortBuckets, Steps),
                             (shortIdx + Steps) % ShortBuckets, e.ok),
                     (shortIdx + Steps) % ShortBuckets, ShortBuckets, Append(seen, e),
                     Older(seen, age, Steps))
        BY <1>1, <1>2, <1>4, <1>7, RecordIsCounted
    <2> QED BY <1>2, <1>3, <1>8, <2>1
<1>10. RingCounts(long', longIdx', LongBuckets, seen', Older(seen, age, Steps))
    <2>1. RingCounts(Counted(AdvancedBy(long, longIdx, LongBuckets, Steps),
                             (longIdx + Steps) % LongBuckets, e.ok),
                     (longIdx + Steps) % LongBuckets, LongBuckets, Append(seen, e),
                     Older(seen, age, Steps))
        BY <1>1, <1>2, <1>4, <1>7, RecordIsCounted
    <2> QED BY <1>2, <1>3, <1>8, <2>1
<1>11. RingsCount'
    <2>1. TimesFit(seen', Older(seen, age, Steps), later, lastAdvance', now')
        BY <1>3, <1>5
    <2> QED BY <1>9, <1>10, <2>1 DEF RingsCount
<1>12. seen' \in Seq(SloRecords) /\ LastFits(seen, lastAdvance)'
    BY <1>1, <1>2, <1>3, <1>6, AppendProperties
<1>13. alerts' \in Seq({"page", "ticket"}) /\ AlertSent'
    <2> DEFINE level == Level(short', long')
    <2>1. level \in {"page", "ticket", "none"}
        BY DEF Level
    <2>2. \/ lastAlert' = level
             /\ alerts' = IF level \in {"none", lastAlert} THEN alerts ELSE Append(alerts, level)
          \/ UNCHANGED <<lastAlert, alerts>>
        BY DEF SloRecord, Evaluate
    <2> HIDE DEF level
    <2>3. CASE lastAlert' = level /\ level \notin {"none", lastAlert}
                /\ alerts' = Append(alerts, level)
        <3>1. level \in {"page", "ticket"}
            BY <2>1, <2>3
        <3>2. /\ Append(alerts, level) \in Seq({"page", "ticket"})
              /\ Len(Append(alerts, level)) = Len(alerts) + 1
              /\ Append(alerts, level)[Len(alerts) + 1] = level
              /\ Len(alerts) \in Nat
            BY <1>1, <3>1, AppendProperties, LenProperties
        <3>3. Append(alerts, level) # <<>>
            BY <3>2, EmptySeq
        <3> QED BY <2>3, <3>2, <3>3 DEF AlertSent
    <2>4. CASE lastAlert' = level /\ level \in {"none", lastAlert} /\ alerts' = alerts
        BY <1>1, <2>4 DEF AlertSent
    <2>5. CASE UNCHANGED <<lastAlert, alerts>>
        BY <1>1, <2>5 DEF AlertSent
    <2> QED BY <2>2, <2>3, <2>4, <2>5
<1>14. now' \in 0..MaxNow /\ lastAdvance' \in 0..now'
    BY <1>1, <1>3, <1>6
<1> QED BY <1>11, <1>12, <1>13, <1>14 DEF SloInv

\* So does every step.
LEMMA NextSlo == SloInv /\ [SloNext]_sloVars => SloInv'
<1> SUFFICES ASSUME SloInv, [SloNext]_sloVars PROVE SloInv'
    OBVIOUS
<1>1. CASE SloTick
    <2>1. /\ now < MaxNow /\ now' = now + 1
          /\ UNCHANGED <<lastAdvance, short, long, shortIdx, longIdx, lastAlert, alerts, seen>>
        BY <1>1 DEF SloTick
    <2>2. /\ now \in 0..MaxNow /\ lastAdvance \in 0..now /\ MaxNow \in Nat
          /\ seen \in Seq(SloRecords) /\ LastFits(seen, lastAdvance)
          /\ alerts \in Seq({"page", "ticket"}) /\ AlertSent
        BY SloAssumption DEF SloInv
    <2>3. now' \in 0..MaxNow /\ lastAdvance' \in 0..now'
        BY <2>1, <2>2
    <2>4. PICK age, base :
            /\ TimesFit(seen, age, base, lastAdvance, now)
            /\ RingCounts(short, shortIdx, ShortBuckets, seen, age)
            /\ RingCounts(long, longIdx, LongBuckets, seen, age)
        BY DEF SloInv, RingsCount
    <2>5. \A r \in DOMAIN seen : seen[r].at <= now => seen[r].at <= now'
        <3> SUFFICES ASSUME NEW r \in DOMAIN seen PROVE seen[r].at <= now => seen[r].at <= now'
            OBVIOUS
        <3>1. seen[r] \in SloRecords
            BY <2>2, LenProperties, ElementOfSeq
        <3>2. seen[r].at \in Nat
            BY <3>1 DEF SloRecords
        <3> HIDE DEF SloInv
        <3> QED BY <2>1, <2>2, <3>2
    <2>6. TimesFit(seen, age, base, lastAdvance, now')
        BY <2>4, <2>5 DEF TimesFit
    <2>7. RingsCount'
        BY <2>1, <2>4, <2>6 DEF RingsCount
    <2>8. (LastFits(seen, lastAdvance) /\ AlertSent)'
        BY <2>1, <2>2 DEF LastFits, AlertSent
    <2> QED BY <2>1, <2>2, <2>3, <2>7, <2>8 DEF SloInv
<1>2. CASE UNCHANGED sloVars
    <2>1. /\ UNCHANGED <<now, lastAdvance, seen, alerts>>
          /\ UNCHANGED <<short, shortIdx, long, longIdx>>
        BY <1>2 DEF sloVars
    <2>2. RingsCount'
        <3>1. PICK age, base : /\ TimesFit(seen, age, base, lastAdvance, now)
                               /\ RingCounts(short, shortIdx, ShortBuckets, seen, age)
                               /\ RingCounts(long, longIdx, LongBuckets, seen, age)
            BY DEF SloInv, RingsCount
        <3> QED BY <2>1, <3>1 DEF RingsCount
    <2>3. (LastFits(seen, lastAdvance) /\ AlertSent)'
        BY <1>2, <2>1 DEF sloVars, SloInv, LastFits, AlertSent
    <2> QED BY <1>2, <2>1, <2>2, <2>3 DEF sloVars, SloInv
<1> QED BY <1>1, <1>2, RecordKeepsSlo DEF SloNext

\* SloInv says that the windows hold, for a ring that counts by age.
LEMMA RingHolds ==
    ASSUME SloInv, seen # <<>>, seen[Len(seen)].at = now,
           NEW age, NEW base, TimesFit(seen, age, base, lastAdvance, now),
           NEW n \in Nat \ {0}, NEW idx, NEW ring, RingCounts(ring, idx, n, seen, age),
           NEW forgets \in BOOLEAN, forgets => n = ShortBuckets \/ NoPause(seen)
    PROVE  Holds(ring, n, forgets)
<1> DEFINE B == BucketSize
           young == Since((n - 1) * B + 1)
           all == Since((2 * n - 1) * B)
           in == Younger(seen, age, n, TRUE)
           out == Younger(seen, age, n, FALSE)
<1>1. /\ now \in 0..MaxNow /\ now \in Nat /\ lastAdvance \in 0..now /\ seen \in Seq(SloRecords)
      /\ B \in Nat \ {0} /\ age \in [DOMAIN seen -> Nat] /\ now < lastAdvance + B
    BY SloAssumption DEF SloInv, LastFits, TimesFit
<1>2. Failures(ring) = Cardinality(out) /\ Successes(ring) = Cardinality(in)
    <2>1. /\ Failures(ring) = Cardinality(Younger(seen, age, n, FALSE))
          /\ Successes(ring) = Cardinality(Younger(seen, age, n, TRUE))
        <3>1. Counting(ring, idx, n, seen, age)
            BY <1>1 DEF Counting
        <3>2. Totalled(ring, n, seen, age)
            BY ONLY <3>1, RingTotals
        <3> QED BY <3>2 DEF Totalled
    <2> QED BY <2>1
<1>3. Total(ring) = Failures(ring) + Successes(ring)
    BY DEF Total, Successes
<1>4. ASSUME NEW r \in DOMAIN seen
      PROVE  /\ seen[r].at \in Nat /\ seen[r].ok \in BOOLEAN
             /\ seen[r].at <= now /\ age[r] \in Nat /\ base[r] \in Nat
             /\ base[r] <= seen[r].at /\ seen[r].at < base[r] + B /\ base[r] <= lastAdvance
             /\ B * age[r] <= lastAdvance - base[r]
             /\ age[r] < ShortBuckets \/ NoPause(seen)
                  => lastAdvance - base[r] <= (2 * B - 1) * age[r]
    <2>1. seen[r] \in SloRecords
        BY <1>1, LenProperties, ElementOfSeq
    <2> QED BY <2>1 DEF SloRecords, TimesFit
<1>5. n - 1 \in Nat /\ (n - 1) * B \in Nat /\ B * n = (n - 1) * B + B
      /\ (2 * n - 1) * B = 2 * ((n - 1) * B) + B
    <2>1. B * ((n - 1) + 1) = B * (n - 1) + B /\ B * (n - 1) \in Nat
        BY <1>1, OneMoreTimes
    <2>2. (2 * n - 1) * B = B * ((n - 1) + n) /\ B * ((n - 1) + n) = B * (n - 1) + B * n
        <3>1. B * ((n - 1) + n) = B * (n - 1) + B * n
            BY <1>1, Distributes
        <3>2. 2 * n - 1 = (n - 1) + n
            OBVIOUS
        <3>3. ((n - 1) + n) * B = B * ((n - 1) + n)
            BY <1>1
        <3> QED BY <3>1, <3>2, <3>3
    <2>3. (n - 1) * B = B * (n - 1) /\ (n - 1) + 1 = n
        BY <1>1
    <2> DEFINE m == B * (n - 1)
    <2> HIDE DEF B
    <2>4. B * n = m + B
        BY <2>1, <2>3
    <2>5. (2 * n - 1) * B = m + (m + B)
        BY <2>2, <2>4
    <2>6. (n - 1) * B = m /\ m \in Nat
        BY <2>1, <2>3
    <2> HIDE DEF m
    <2> QED BY <1>1, <2>4, <2>5, <2>6
<1>6. ASSUME NEW r \in young PROVE r \in DOMAIN seen /\ age[r] < n
    <2>1. r \in DOMAIN seen /\ now - seen[r].at < (n - 1) * B + 1
        BY <1>6 DEF Since
    <2> DEFINE m == (n - 1) * B
    <2>2. now - base[r] < m + B
        <3>1. now - seen[r].at < m + 1
            BY <2>1
        <3>2. seen[r].at \in Nat /\ base[r] \in Nat /\ seen[r].at < base[r] + B
            BY <1>4, <2>1
        <3>3. m \in Nat /\ B \in Nat /\ now \in Nat
            BY <1>1, <1>5
        <3> HIDE DEF B, m
        <3> QED BY ONLY <3>1, <3>2, <3>3
    <2> HIDE DEF B, m
    <2>3. lastAdvance - base[r] < B * n
        BY <1>1, <1>4, <1>5, <2>1, <2>2 DEF m
    <2>4. n <= age[r] => B * n <= B * age[r] /\ B * n \in Nat /\ B * age[r] \in Nat
        BY <1>1, <1>4, <2>1, TimesGrows
    <2>5. B * age[r] <= lastAdvance - base[r] /\ age[r] \in Nat /\ base[r] \in Nat
        BY <1>4, <2>1
    <2> DEFINE f == B * age[r]
               g == B * n
    <2>6. n <= age[r] => g <= f /\ g \in Nat /\ f \in Nat
        BY <2>4
    <2>7. f <= lastAdvance - base[r] /\ lastAdvance - base[r] < g
        BY <2>3, <2>5
    <2> HIDE DEF f, g
    <2>8. ~(n <= age[r])
        BY <1>1, <2>5, <2>6, <2>7
    <2> QED BY <2>1, <2>5, <2>8
<1>7. ASSUME forgets, NEW r \in DOMAIN seen, age[r] < n PROVE r \in all
    <2>1. lastAdvance - base[r] <= (2 * B - 1) * age[r] /\ age[r] \in Nat
        BY <1>4, <1>7
    <2>2. (2 * B - 1) * age[r] <= (2 * B - 1) * (n - 1)
        <3>1. 2 * B - 1 \in Nat /\ age[r] <= n - 1
            BY <1>1, <1>7, <2>1
        <3> QED BY <1>5, <2>1, <3>1, TimesGrows
    <2>3. (2 * B - 1) * (n - 1) <= 2 * ((n - 1) * B)
        <3>1. (n - 1) * (2 * B) = (n - 1) * (2 * B - 1) + (n - 1) * 1
            <4>1. (n - 1) * ((2 * B - 1) + 1) = (n - 1) * (2 * B - 1) + (n - 1) * 1
                <5>1. 2 * B - 1 \in Nat
                    BY <1>1
                <5> QED BY <1>5, <5>1, Distributes
            <4>2. (2 * B - 1) + 1 = 2 * B
                BY <1>1
            <4> QED BY <4>1, <4>2
        <3>2. (n - 1) * (2 * B) = 2 * ((n - 1) * B)
            <4>1. (n - 1) * (B + B) = (n - 1) * B + (n - 1) * B
                BY <1>1, <1>5, Distributes
            <4>2. B + B = 2 * B
                BY <1>1
            <4> QED BY <1>5, <4>1, <4>2
        <3>3. (n - 1) * (2 * B - 1) = (2 * B - 1) * (n - 1) /\ (n - 1) * (2 * B - 1) \in Nat
              /\ (n - 1) * 1 = n - 1
            BY <1>1
        <3> DEFINE x == (2 * B - 1) * (n - 1)
                   y == (n - 1) * (2 * B)
        <3>4. x \in Nat /\ y = x + (n - 1)
            BY <3>1, <3>3
        <3>5. y = 2 * ((n - 1) * B)
            BY <3>2
        <3> HIDE DEF x, y
        <3>6. x <= y
            BY <1>5, <3>4
        <3> QED BY <3>5, <3>6 DEF x
    <2> DEFINE m == (n - 1) * B
               f == (2 * B - 1) * age[r]
               g == (2 * B - 1) * (n - 1)
               w == (2 * n - 1) * B
    <2>4. m \in Nat /\ w = 2 * m + B /\ f \in Int /\ g \in Int
        BY <1>1, <1>4, <1>5, <1>7
    <2>5. lastAdvance - base[r] <= f /\ f <= g /\ g <= 2 * m
        BY <2>1, <2>2, <2>3
    <2> HIDE DEF m, f, g, w
    <2>6. now - seen[r].at < w
        <3>1. /\ seen[r].at \in Nat /\ base[r] \in Nat /\ base[r] <= seen[r].at
            BY <1>4, <1>7
        <3>2. lastAdvance - base[r] <= 2 * m
            BY <1>1, <2>4, <2>5, <3>1
        <3> HIDE DEF B
        <3> QED BY <1>1, <2>4, <3>1, <3>2
    <2> QED BY <1>7, <2>6 DEF Since, w
<1>8. /\ in \in SUBSET DOMAIN seen /\ out \in SUBSET DOMAIN seen /\ in \cap out = {}
      /\ young \in SUBSET DOMAIN seen /\ all \in SUBSET DOMAIN seen
    BY DEF Younger, Since
<1>9. /\ young \subseteq in \cup out /\ Failed(young) \subseteq out
      /\ Failed(young) \in SUBSET DOMAIN seen /\ Failed(all) \in SUBSET DOMAIN seen
    BY <1>4, <1>6, <1>8 DEF Younger, Failed
<1>10. forgets => in \cup out \subseteq all /\ out \subseteq Failed(all)
    <2>1. \A r \in in \cup out : r \in DOMAIN seen /\ age[r] < n
        BY DEF Younger
    <2>2. \A r \in out : ~seen[r].ok
        BY DEF Younger
    <2> HIDE DEF in, out, all
    <2> QED BY <1>7, <2>1, <2>2 DEF Failed
<1> HIDE DEF in, out, young, all
<1>11. Total(ring) = Cardinality(in \cup out)
    <2>1. /\ IsFiniteSet(in) /\ IsFiniteSet(out) /\ Cardinality(in) \in Nat
          /\ Cardinality(out) \in Nat /\ Cardinality(in \cap out) = 0
        BY <1>1, <1>8, RecordsAreFinite, FS_EmptySet
    <2>2. Cardinality(in \cup out) = Cardinality(in) + Cardinality(out) - Cardinality(in \cap out)
        BY <2>1, FS_Union
    <2> QED BY <1>2, <1>3, <2>1, <2>2
<1>12. \A S, T \in SUBSET DOMAIN seen : S \subseteq T => Cardinality(S) <= Cardinality(T)
    BY <1>1, RecordsAreFinite, FS_Subset
<1>13. in \cup out \in SUBSET DOMAIN seen
    BY <1>8
<1>14. /\ Cardinality(young) <= Total(ring) /\ Cardinality(Failed(young)) <= Failures(ring)
       /\ forgets => /\ Total(ring) <= Cardinality(all)
                     /\ Failures(ring) <= Cardinality(Failed(all))
    BY <1>2, <1>8, <1>9, <1>10, <1>11, <1>12, <1>13
<1> QED BY <1>14 DEF Holds, young, all

\* SloInv says that the windows hold.
LEMMA SloFromInv == SloInv => SloWindowsHold
<1> SUFFICES ASSUME SloInv PROVE SloWindowsHold
    OBVIOUS
<1>1. ASSUME seen # <<>>, seen[Len(seen)].at = now
      PROVE  /\ Holds(short, ShortBuckets, TRUE)
             /\ Holds(long, LongBuckets, ~Quiet(MaxNow + 1))
    <2>1. PICK age, base :
            /\ TimesFit(seen, age, base, lastAdvance, now)
            /\ RingCounts(short, shortIdx, ShortBuckets, seen, age)
            /\ RingCounts(long, longIdx, LongBuckets, seen, age)
        BY DEF SloInv, RingsCount
    <2> DEFINE forgets == ~Quiet(MaxNow + 1)
    <2>2. forgets => NoPause(seen)
        <3> SUFFICES ASSUME forgets, NEW r \in DOMAIN seen, r > 1
                     PROVE  seen[r].at - seen[r - 1].at <= ShortBuckets * BucketSize
            BY DEF NoPause
        <3>1. /\ now \in 0..MaxNow /\ MaxNow \in Nat /\ seen \in Seq(SloRecords)
              /\ ShortBuckets * BucketSize \in Nat
            BY SloAssumption DEF SloInv
        <3>2. r \in 1..Len(seen) /\ r - 1 \in 1..Len(seen) /\ Len(seen) \in Nat
            BY <3>1, LenProperties
        <3>3. seen[r] \in SloRecords /\ seen[r - 1] \in SloRecords
            BY <3>1, <3>2, ElementOfSeq
        <3>4. seen[r].at \in Nat /\ seen[r - 1].at \in Nat
            BY <3>3 DEF SloRecords
        <3>5. r \in Since(MaxNow + 1)
            BY <3>1, <3>4 DEF Since
        <3>6. ~(seen[r].at - seen[r - 1].at > ShortBuckets * BucketSize)
            BY <3>5 DEF Quiet
        <3> QED BY <3>1, <3>4, <3>6
    <2>3. forgets \in BOOLEAN
        BY DEF Quiet
    <2>4. ShortBuckets \in Nat \ {0} /\ LongBuckets \in Nat \ {0}
        BY SloAssumption
    <2>5. Holds(short, ShortBuckets, TRUE)
        BY <1>1, <2>1, <2>4, RingHolds
    <2> HIDE DEF forgets
    <2>6. Holds(long, LongBuckets, forgets)
        BY <1>1, <2>1, <2>2, <2>3, <2>4, RingHolds
    <2> QED BY <2>5, <2>6 DEF forgets
<1>2. lastAlert # "none" => alerts # <<>> /\ alerts[Len(alerts)] = lastAlert
    BY DEF SloInv, AlertSent
<1> QED BY <1>1, <1>2 DEF SloWindowsHold

(***************************************************************************)
(* SloWindowsHold for every size of the rings and of the buckets, every    *)
(* time and every sequence of records: each time the burn rate is          *)
(* evaluated, the windows hold what they must and nothing too old, and an  *)
(* alert is not lost.                                                      *)
(***************************************************************************)
THEOREM WindowsCountTheRecent == SloSpec => []SloWindowsHold
<1>1. SloSpec => []SloInv
    BY InitSlo, NextSlo, PTL DEF SloSpec
<1>2. SloInv => SloWindowsHold
    BY SloFromInv
<1> QED BY <1>1, <1>2, PTL
=============================================================================
