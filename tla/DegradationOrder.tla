-------------------------- MODULE DegradationOrder --------------------------
(***************************************************************************)
(* The degradation chain: gracefulDegradation (server/api.go) tries the    *)
(* other providers in the order of routingCandidates (server/routing.go),  *)
(* which sorts a snapshot of the pool.  The order reads the circuit and    *)
(* the priority from the snapshot, but the score from the health cache as  *)
(* it is at each comparison, while the prober (provider/tenant.go) fills   *)
(* that cache.                                                             *)
(*                                                                         *)
(* Providers are numbered in the order of their names.  A score is a       *)
(* fraction: weight times health (in tenths) times latency (in percent)    *)
(* times the ratio of the prices.                                          *)
(***************************************************************************)
EXTENDS Naturals, Sequences, SequencesExt, FiniteSets

CONSTANTS
    Count,                     \* of the providers in the pool, below 20
    Weight, Priority, Price,   \* of each provider; price 0: none configured
    Latencies,                 \* that a probe may measure, in units of 50 ms
    MaxRounds, MaxTurns        \* bounds: rounds of the prober, breakers that turn
                               \* and providers that go

Pool == 1..Count

ASSUME OrderAssumption ==
    /\ Count \in 1..19
    /\ Weight \in [Pool -> Nat] /\ Priority \in [Pool -> Nat] /\ Price \in [Pool -> Nat]
    /\ Latencies \subseteq Nat /\ MaxRounds \in Nat /\ MaxTurns \in Nat

VARIABLES
    healthCache,    \* provider -> its last result; round 0: none
    round,          \* of the prober
    probes,         \* the goroutines of the prober that are not done
    newest,         \* history: the last round that has stored a result
    openNow,        \* the providers with an open breaker
    turns,
    chain,          \* idle, sorting, trying or over
    openThen,       \* openNow at the snapshot
    order,          \* the slice being sorted
    i, j,           \* of insertionSort
    si,             \* the score already read in a comparison
    disturbed,      \* history: a result was stored since the snapshot
    failed, tried   \* the provider whose call failed before; the ones tried then

proberVars == <<healthCache, round, probes, newest>>
breakerVars == <<openNow, turns>>
chainVars == <<chain, openThen, order, i, j, si, failed, tried>>
orderVars == <<proberVars, breakerVars, chainVars, disturbed>>

Unknown == [round |-> 0, healthy |-> FALSE, latency |-> 0]
Unread == <<0, 0>>

OrderInit ==
    /\ healthCache = [p \in Pool |-> Unknown]
    /\ round = 0 /\ probes = {} /\ newest = [p \in Pool |-> 0]
    /\ openNow = {} /\ turns = 0
    /\ chain = "idle" /\ openThen = {} /\ order = <<>> /\ i = 1 /\ j = 1 /\ si = Unread
    /\ disturbed = FALSE /\ failed = 0 /\ tried = <<>>

-----------------------------------------------------------------------------
\* Faulty variants: rounds that do not wait for the one before, and an order that
\* looks at the breakers as they are by now.
ProbeWithoutWaiting ==
    /\ round < MaxRounds /\ round' = round + 1
    /\ probes' = probes \cup {[of |-> p, round |-> round', result |-> Unknown] : p \in Pool}
    /\ UNCHANGED <<healthCache, newest, breakerVars, chainVars, disturbed>>

\* probe: one goroutine for each provider, and wg.Wait before the next round.
Probe ==
    /\ probes = {} /\ round < MaxRounds /\ round' = round + 1
    /\ probes' = {[of |-> p, round |-> round', result |-> Unknown] : p \in Pool}
    /\ UNCHANGED <<healthCache, newest, breakerVars, chainVars, disturbed>>

\* Health answers, or fails at its timeout;
Health(g) ==
    /\ g.result = Unknown
    /\ \E h \in BOOLEAN, l \in Latencies :
         probes' = (probes \ {g}) \cup
                   {[g EXCEPT !.result = [round |-> g.round, healthy |-> h, latency |-> l]]}
    /\ UNCHANGED <<healthCache, round, newest, breakerVars, chainVars, disturbed>>

\* or the provider has been removed since it was listed.
Gone(g) ==
    /\ g.result = Unknown /\ probes' = probes \ {g}
    /\ turns < MaxTurns /\ turns' = turns + 1
    /\ UNCHANGED <<healthCache, round, newest, openNow, chainVars, disturbed>>

UpdateHealth(g) ==
    /\ g.result # Unknown /\ probes' = probes \ {g}
    /\ healthCache' = [healthCache EXCEPT ![g.of] = g.result]
    /\ newest' = [newest EXCEPT ![g.of] = IF g.round > @ THEN g.round ELSE @]
    /\ disturbed' = (disturbed \/ chain = "sorting")
    /\ UNCHANGED <<round, breakerVars, chainVars>>

BreakerTurns(p) ==
    /\ turns < MaxTurns /\ turns' = turns + 1
    /\ openNow' = IF p \in openNow THEN openNow \ {p} ELSE openNow \cup {p}
    /\ UNCHANGED <<proberVars, chainVars, disturbed>>

-----------------------------------------------------------------------------
\* minInputPrice: of the providers with a price, if there is one.
Priced == {p \in Pool : Price[p] > 0}
MinInputPrice == IF Priced = {} THEN 0
                 ELSE Price[CHOOSE p \in Priced : \A q \in Priced : Price[p] <= Price[q]]

\* effectiveWeight.
EffectiveWeight(p) ==
    LET hs == healthCache[p]
        known == hs.round > 0
        w == IF Weight[p] = 0 THEN 1 ELSE Weight[p]
        health == IF known /\ ~hs.healthy THEN 1 ELSE 10
        latency == IF ~known THEN 100 ELSE IF hs.latency > 95 THEN 5 ELSE 100 - hs.latency
        cost == IF Price[p] = 0 \/ MinInputPrice = 0 THEN <<1, 1>>
                ELSE IF 10 * MinInputPrice < Price[p] THEN <<1, 10>>
                ELSE <<MinInputPrice, Price[p]>>
    IN  <<w * health * latency * cost[1], cost[2]>>
Higher(a, b) == a[1] * b[2] > b[1] * a[2]

BeforeLive(p, sp, q, sq) ==
    IF (p \in openNow) # (q \in openNow) THEN p \notin openNow
    ELSE IF Priority[p] # Priority[q] THEN Priority[p] > Priority[q]
    ELSE IF Higher(sp, sq) \/ Higher(sq, sp) THEN Higher(sp, sq) ELSE p < q

\* The comparison, given the scores as they were read: an open circuit last, then
\* by priority, score and name.
Before(p, sp, q, sq) ==
    IF (p \in openThen) # (q \in openThen) THEN p \notin openThen
    ELSE IF Priority[p] # Priority[q] THEN Priority[p] > Priority[q]
    ELSE IF Higher(sp, sq) \/ Higher(sq, sp) THEN Higher(sp, sq) ELSE p < q

\* poolEligible: Go's order of a map is any order.
Snapshot ==
    /\ chain = "idle" /\ chain' = "sorting"
    /\ order' \in SetToSeqs(Pool) /\ openThen' = openNow
    /\ i' = 2 /\ j' = 2
    /\ UNCHANGED <<si, failed, tried, proberVars, breakerVars, disturbed>>

\* SliceStable sorts fewer than 20 elements by insertion.  A comparison reads the
\* two scores one after the other.
ReadScore ==
    /\ chain = "sorting" /\ i <= Count /\ j > 1 /\ si = Unread
    /\ si' = EffectiveWeight(order[j])
    /\ UNCHANGED <<chain, openThen, order, i, j, failed, tried, proberVars, breakerVars, disturbed>>

Compare ==
    /\ chain = "sorting" /\ si # Unread /\ si' = Unread
    /\ IF Before(order[j], si, order[j - 1], EffectiveWeight(order[j - 1]))
         THEN /\ order' = [order EXCEPT ![j] = order[j - 1], ![j - 1] = order[j]]
              /\ j' = j - 1 /\ UNCHANGED i
         ELSE i' = i + 1 /\ j' = i + 1 /\ UNCHANGED order
    /\ UNCHANGED <<chain, openThen, failed, tried, proberVars, breakerVars, disturbed>>

AtFront ==
    /\ chain = "sorting" /\ i <= Count /\ j = 1
    /\ i' = i + 1 /\ j' = i + 1
    /\ UNCHANGED <<chain, openThen, order, si, failed, tried, proberVars, breakerVars, disturbed>>

Sorted ==
    /\ chain = "sorting" /\ i > Count /\ chain' = "trying"
    /\ failed' \in Pool
    /\ UNCHANGED <<openThen, order, i, j, si, tried, proberVars, breakerVars, disturbed>>

\* gracefulDegradation: the next candidate, whose call may fail; one that answers
\* ends the chain, and so does the last one.
Candidates == RemoveAt(order, CHOOSE k \in Pool : order[k] = failed)
TryNext ==
    /\ chain = "trying"
    /\ IF Len(tried) = Len(Candidates) THEN chain' = "over" /\ UNCHANGED tried
       ELSE /\ tried' = Append(tried, Candidates[Len(tried) + 1])
            /\ chain' \in {"trying", "over"}
    /\ UNCHANGED <<openThen, order, i, j, si, failed, proberVars, breakerVars, disturbed>>

OrderNext ==
    \/ Probe \/ \E g \in probes : Health(g) \/ Gone(g) \/ UpdateHealth(g)
    \/ \E p \in Pool : BreakerTurns(p)
    \/ Snapshot \/ ReadScore \/ Compare \/ AtFront \/ Sorted \/ TryNext

OrderSpec == OrderInit /\ [][OrderNext]_orderVars
-----------------------------------------------------------------------------
(***************************************************************************)
(* The scores may change between and within the comparisons of the sort.   *)
(* All the same the chain has every provider of the pool once, those whose *)
(* circuit was open last and the others by priority; undisturbed it is     *)
(* sorted by score and name as well; and the providers are tried in this   *)
(* order, without the one that failed.                                     *)
(***************************************************************************)
InOrder(p, q) ==
    /\ p \in openThen => q \in openThen
    /\ (p \in openThen <=> q \in openThen) => Priority[p] >= Priority[q]

PreferenceHolds ==
    LET done == chain = "sorting" /\ i > Count
    IN  /\ chain # "idle" => Len(order) = Count /\ ToSet(order) = Pool
        /\ done \/ chain \in {"trying", "over"} =>
             \A a, b \in Pool : a < b => InOrder(order[a], order[b])
        /\ done /\ ~disturbed =>
             \A a, b \in Pool : a < b => Before(order[a], EffectiveWeight(order[a]),
                                             order[b], EffectiveWeight(order[b]))
        /\ chain \in {"trying", "over"} => IsPrefix(tried, Candidates)

(***************************************************************************)
(* The health cache never goes back to the result of an earlier round,     *)
(* however long a probe of it takes.                                       *)
(***************************************************************************)
HealthIsNewest == \A p \in Pool : healthCache[p].round = newest[p]
=============================================================================
