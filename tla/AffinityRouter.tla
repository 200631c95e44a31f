--------------------------- MODULE AffinityRouter ---------------------------
(***************************************************************************)
(* How a request finds its provider: server/routing.go with the affinity   *)
(* ring of prefix/affinity.go, several requests at a time, while the       *)
(* configuration, the routing pool and the breakers change.                *)
(*                                                                         *)
(* A request without an explicit provider follows a rule if one matches,   *)
(* else the ring (DM_GATEWAY_AFFINITY=1): it reads the pool, the provider  *)
(* list and the weights under three different locks, rebuilds the ring if  *)
(* what it read differs, walks it under the router's mutex, and counts its *)
(* choice after releasing that mutex.  If nothing is found it draws from   *)
(* the pool.                                                               *)
(*                                                                         *)
(* Walk[k] is the circle of all virtual nodes as seen clockwise from key   *)
(* k: provider p has the nodes <<p, 0>>, <<p, 1>>, ..., at places fixed by *)
(* a hash of name and number, and a ring holds the first weight of them    *)
(* (the code's 256 per unit of weight are one here).  RecordOverflow is    *)
(* left out: the router asks for it only after a decision that only an     *)
(* earlier mark can lead to, so there is never one.                        *)
(***************************************************************************)
EXTENDS Integers, Sequences, FiniteSets

CONSTANTS
    Providers, Requests, Keys,
    Walk,            \* key -> virtual nodes, clockwise from it
    MaxWeight,       \* bound on configured weights
    InitialWeight,   \* what Bootstrap registers
    Priority,        \* provider -> its priority
    OverNum, OverDen,  \* DM_GATEWAY_AFFINITY_OVERLOAD as a fraction
    Failing,         \* providers whose breaker may open
    MaxChanges,      \* bound on changes of configuration, pool and breakers
    NoProvider, NoKey

ASSUME RouterAssumption ==
    /\ IsFiniteSet(Requests)
    /\ MaxWeight \in Nat \ {0} /\ MaxChanges \in Nat
    /\ OverNum \in Nat \ {0} /\ OverDen \in Nat \ {0}
    /\ Walk \in [Keys -> Seq(Providers \X Nat)]
    /\ Priority \in [Providers -> Int]
    /\ Failing \subseteq Providers
    /\ InitialWeight \in [Providers -> 0..MaxWeight]
    /\ NoProvider \notin Providers /\ NoKey \notin Keys

VARIABLES
    weight,    \* provider -> weight, 0 unless it is active and has a key
    members,   \* routingPool; everybody if empty
    open,      \* providers with an open breaker
    changes,   \* number of changes so far
    ring,      \* affinitySig and the ring built with it: provider -> weight
    load,      \* inflight: provider -> number
    at, via,   \* where each request is, and on which route
    key, pos,  \* its key, and the place of its walk
    names,     \* its copy of the pool, then the eligible providers
    nodes,     \* its nodes for the ring
    pick,      \* its provider
    own,       \* history: what has been true of providers since it arrived,
               \* while it can still change the ring
    wide       \* history: the same since the oldest request arrived that could
               \* still change the ring when this one did

envVars == <<weight, members, open, changes>>
reqVars == <<at, via, key, pos, names, nodes, pick>>
histVars == <<own, wide>>
vars == <<envVars, ring, load, reqVars, histVars>>

Weights == [Providers -> 0..MaxWeight]
NoNodes == [p \in Providers |-> 0]
InPool(S, p) == S = {} \/ p \in S
Active == {p \in Providers : weight[p] > 0}
Eligible == [p \in Providers |-> IF InPool(members, p) THEN weight[p] ELSE 0]
Facts == {<<p, "active">> : p \in Active}
         \cup {<<p, "member">> : p \in {q \in Providers : InPool(members, q)}}
Rebuilding(r) ==
    via[r] = "affinity" /\ at[r] \in {"copy", "list", "configs", "rebuild"}
Deciding(r) ==
    via[r] = "affinity" /\ at[r] \notin {"picked", "run"}

Init ==
    /\ weight = InitialWeight
    /\ members = {} /\ open = {} /\ changes = 0
    /\ ring = NoNodes
    /\ load = NoNodes
    /\ at = [r \in Requests |-> "idle"]
    /\ via = [r \in Requests |-> "none"]
    /\ key = [r \in Requests |-> NoKey]
    /\ pos = [r \in Requests |-> 0]
    /\ names = [r \in Requests |-> {}]
    /\ nodes = [r \in Requests |-> NoNodes]
    /\ pick = [r \in Requests |-> NoProvider]
    /\ own = [r \in Requests |-> {}]
    /\ wide = [r \in Requests |-> {}]
-----------------------------------------------------------------------------
\* The watcher and the admin API register, unregister and reweigh providers.
Configure(p, w) ==
    /\ changes < MaxChanges
    /\ weight[p] # w
    /\ weight' = [weight EXCEPT ![p] = w]
    /\ changes' = changes + 1
    /\ UNCHANGED <<members, open>>

toggleRoutingPool(p) ==
    /\ changes < MaxChanges
    /\ \/ p \notin members /\ weight[p] > 0 /\ members' = members \cup {p}
       \/ p \in members /\ members' = members \ {p}
    /\ changes' = changes + 1
    /\ UNCHANGED <<weight, open>>

BreakerTurns(p) ==
    /\ changes < MaxChanges
    /\ open' = IF p \in open THEN open \ {p} ELSE open \cup {p}
    /\ changes' = changes + 1
    /\ UNCHANGED <<weight, members>>

\* A change, and what has now been true for the requests on the way.
Environment ==
    /\ \/ \E p \in Providers, w \in 0..MaxWeight : Configure(p, w)
       \/ \E p \in Providers : toggleRoutingPool(p)
       \/ \E p \in Failing : BreakerTurns(p)
    /\ own' = [r \in Requests |-> IF Rebuilding(r) THEN own[r] \cup Facts' ELSE {}]
    /\ wide' = [r \in Requests |-> IF Deciding(r) THEN wide[r] \cup Facts' ELSE {}]
    /\ UNCHANGED <<ring, load, reqVars>>
-----------------------------------------------------------------------------
\* The request r takes the given route, arriving.
Arrive(r, place, route) ==
    /\ at[r] = "idle"
    /\ at' = [at EXCEPT ![r] = place]
    /\ via' = [via EXCEPT ![r] = route]
    /\ UNCHANGED <<envVars, ring, load, pos, names, nodes>>

\* applyRule: a rule's provider is used if it is active, whatever its breaker
\* or the pool say; if it is not, or the rule names none, the pool decides.
RuleHit(r) ==
    /\ Arrive(r, "run", "rule")
    /\ \E p \in Active : pick' = [pick EXCEPT ![r] = p]
    /\ UNCHANGED <<key, histVars>>

RuleMiss(r) == Arrive(r, "copy", "last") /\ UNCHANGED <<key, pick, histVars>>

NoRule(r) ==
    /\ Arrive(r, "copy", "affinity")
    /\ \E k \in Keys : key' = [key EXCEPT ![r] = k]
    /\ own' = [own EXCEPT ![r] = Facts]
    /\ wide' = [wide EXCEPT ![r] = Facts \cup UNION {own[q] : q \in Requests}]
    /\ UNCHANGED pick

Goto(r, place) == at' = [at EXCEPT ![r] = place]

\* poolEligible: the pool under poolMutex ...
CopyPool(r) ==
    /\ at[r] = "copy"
    /\ Goto(r, "list")
    /\ names' = [names EXCEPT ![r] = members]
    /\ UNCHANGED <<envVars, ring, load, via, key, pos, nodes, pick, histVars>>

\* ... and then the provider list under the manager's lock.
Listed(r) == {p \in Active : InPool(names[r], p)}
ListForRing(r) ==
    /\ at[r] = "list" /\ via[r] = "affinity"
    /\ Goto(r, "configs")
    /\ names' = [names EXCEPT ![r] = Listed(r)]
    /\ UNCHANGED <<envVars, ring, load, via, key, pos, nodes, pick, histVars>>

\* Manager.Config: a provider that is gone by now keeps the weight 1.  (Here and
\* below a local variable is cleared after its last use.)
ReadConfigs(r) ==
    /\ at[r] = "configs"
    /\ Goto(r, "rebuild")
    /\ nodes' = [nodes EXCEPT ![r] = [p \in Providers |->
                    IF p \notin names[r] THEN 0
                    ELSE IF weight[p] > 0 THEN weight[p] ELSE 1]]
    /\ names' = [names EXCEPT ![r] = {}]
    /\ UNCHANGED <<envVars, ring, load, via, key, pos, pick, histVars>>

NobodyWalks == \A q \in Requests : at[q] # "walk"

\* The request r goes on to the ring that its nodes leave.
Rebuilt(r) ==
    /\ Goto(r, "decide")
    /\ nodes' = [nodes EXCEPT ![r] = NoNodes]
    /\ own' = [own EXCEPT ![r] = {}]
    /\ UNCHANGED <<envVars, load, via, key, pos, names, pick, wide>>

\* Faulty variants, for checking that the properties can fail: the ring is only
\* rebuilt if its names change, or only if there is a new one.
RebuildByNames(r) ==
    /\ at[r] = "rebuild" /\ NobodyWalks
    /\ ring' = IF \E p \in Providers : (nodes[r][p] = 0) # (ring[p] = 0)
               THEN nodes[r] ELSE ring
    /\ Rebuilt(r)

RebuildWhenGrown(r) ==
    /\ at[r] = "rebuild" /\ NobodyWalks
    /\ ring' = IF \E p \in Providers : nodes[r][p] > 0 /\ ring[p] = 0
               THEN nodes[r] ELSE ring
    /\ Rebuilt(r)

\* rebuildAffinityRing: under affinityMu, and SetRing under the router's mutex
\* if the signature differs.
Rebuild(r) ==
    /\ at[r] = "rebuild"
    /\ nodes[r] # ring => NobodyWalks
    /\ ring' = nodes[r]
    /\ Rebuilt(r)
-----------------------------------------------------------------------------
\* A faulty variant: nodes numbered on from the weight.
OnRingByWeight(W, v) == v[2] \in (W[v[1]] - 1)..(2 * W[v[1]] - 2)

OnRing(W, v) == v[2] < W[v[1]]

\* The next node on the ring after the place n in the walk from the key k.
IsNext(W, k, n, i) ==
    /\ i \in 1..Len(Walk[k]) /\ i > n
    /\ OnRing(W, Walk[k][i])
    /\ \A j \in 1..Len(Walk[k]) : n < j /\ j < i => ~OnRing(W, Walk[k][j])

Healthy(p) == p \in Active /\ p \notin open
Overloaded(p) == load[p] * OverDen > OverNum * ring[p]

\* Decide takes the mutex.
StartWalk(r) ==
    /\ at[r] = "decide" /\ NobodyWalks
    /\ Goto(r, "walk")
    /\ pos' = [pos EXCEPT ![r] = 0]
    /\ UNCHANGED <<envVars, ring, load, via, key, names, nodes, pick, histVars>>

\* The loop, one virtual node at a time: breakers turn and loads change
\* meanwhile.  A node of the provider visited last is not looked at.
Provider(r, i) == Walk[key[r]][i][1]
Again(r, i) == pos[r] # 0 /\ Provider(r, pos[r]) = Provider(r, i)
Suits(r, i) == Healthy(Provider(r, i)) /\ ~Overloaded(Provider(r, i))

Take(r) ==
    /\ at[r] = "walk"
    /\ \E i \in 1..Len(Walk[key[r]]) :
        /\ IsNext(ring, key[r], pos[r], i)
        /\ ~Again(r, i) /\ Suits(r, i)
        /\ pick' = [pick EXCEPT ![r] = Provider(r, i)]
    /\ Goto(r, "picked")
    /\ pos' = [pos EXCEPT ![r] = 0]
    /\ wide' = [wide EXCEPT ![r] = {}]
    /\ UNCHANGED <<envVars, ring, load, via, key, names, nodes, own>>

Skip(r) ==
    /\ at[r] = "walk"
    /\ \E i \in 1..Len(Walk[key[r]]) :
        /\ IsNext(ring, key[r], pos[r], i)
        /\ Again(r, i) \/ ~Suits(r, i)
        /\ pos' = [pos EXCEPT ![r] = i]
    /\ UNCHANGED <<envVars, ring, load, at, via, key, names, nodes, pick, histVars>>

Fallback(r) ==
    /\ at[r] = "walk"
    /\ \A i \in 1..Len(Walk[key[r]]) : ~IsNext(ring, key[r], pos[r], i)
    /\ Goto(r, "copy")
    /\ via' = [via EXCEPT ![r] = "pool"]
    /\ pos' = [pos EXCEPT ![r] = 0]
    /\ key' = [key EXCEPT ![r] = NoKey]
    /\ wide' = [wide EXCEPT ![r] = {}]
    /\ UNCHANGED <<envVars, ring, load, names, nodes, pick, own>>

\* The choice is counted after the mutex has been released.
Inc(r) ==
    /\ at[r] = "picked"
    /\ Goto(r, "run")
    /\ load' = [load EXCEPT ![pick[r]] = @ + 1]
    /\ key' = [key EXCEPT ![r] = NoKey]
    /\ UNCHANGED <<envVars, ring, via, pos, names, nodes, pick, histVars>>
-----------------------------------------------------------------------------
\* selectFromPool: providers with an open breaker only if there is no other,
\* of those the highest priority, of those any (its score is never zero).
Preferred(S) == IF S \subseteq open THEN S ELSE S \ open
TopTier(S) == {p \in S : \A q \in S : Priority[q] <= Priority[p]}

SelectFromPool(r) ==
    /\ at[r] = "list" /\ via[r] # "affinity"
    /\ \E p \in TopTier(Preferred(Listed(r))) : pick' = [pick EXCEPT ![r] = p]
    /\ Goto(r, "run")
    /\ names' = [names EXCEPT ![r] = {}]
    /\ UNCHANGED <<envVars, ring, load, via, key, pos, nodes, histVars>>

\* The handler goes.
Leave(r) ==
    /\ Goto(r, "idle")
    /\ via' = [via EXCEPT ![r] = "none"]
    /\ pick' = [pick EXCEPT ![r] = NoProvider]
    /\ UNCHANGED <<envVars, ring, key, pos, names, nodes, histVars>>

\* Nobody is eligible: the handler asks once more, then answers 503.
PoolIsEmpty(r) ==
    /\ at[r] = "list" /\ via[r] # "affinity"
    /\ Listed(r) = {}
    /\ \/ /\ via[r] = "pool"
          /\ Goto(r, "copy")
          /\ via' = [via EXCEPT ![r] = "last"]
          /\ UNCHANGED <<envVars, ring, load, key, pos, names, nodes, pick, histVars>>
       \/ via[r] = "last" /\ Leave(r) /\ UNCHANGED load

\* A faulty variant: Dec for every request.
FinishAlways(r) ==
    /\ at[r] = "run"
    /\ Leave(r)
    /\ load' = [load EXCEPT ![pick[r]] = IF @ > 0 THEN @ - 1 ELSE 0]

\* The request has been answered or refused: the deferred Dec runs if the ring
\* chose.  Dec's second step, storing 0 over a negative count, is one with the
\* first: LoadsAreCounted shows that it is never taken.
Finish(r) ==
    /\ at[r] = "run"
    /\ Leave(r)
    /\ load' = IF via[r] = "affinity"
               THEN [load EXCEPT ![pick[r]] = IF @ > 0 THEN @ - 1 ELSE 0]
               ELSE load

Advance(r) ==
    \/ CopyPool(r) \/ ListForRing(r) \/ ReadConfigs(r) \/ Rebuild(r)
    \/ StartWalk(r) \/ Take(r) \/ Skip(r) \/ Fallback(r) \/ Inc(r)
    \/ SelectFromPool(r) \/ PoolIsEmpty(r) \/ Finish(r)

Next ==
    \/ Environment
    \/ \E r \in Requests : RuleHit(r) \/ RuleMiss(r) \/ NoRule(r) \/ Advance(r)

Spec == Init /\ [][Next]_vars

\* Handlers go on (a Go mutex does not starve a waiter), and requests that no
\* rule matches keep arriving.
FairSpec ==
    Spec /\ \A r \in Requests : SF_vars(Advance(r)) /\ SF_vars(NoRule(r))
-----------------------------------------------------------------------------
TypeOK ==
    /\ weight \in Weights /\ members \subseteq Providers
    /\ open \subseteq Failing /\ changes \in 0..MaxChanges
    /\ ring \in Weights /\ load \in [Providers -> Nat]
    /\ at \in [Requests -> {"idle", "copy", "list", "configs", "rebuild",
                            "decide", "walk", "picked", "run"}]
    /\ via \in [Requests -> {"none", "rule", "affinity", "pool", "last"}]
    /\ key \in [Requests -> Keys \cup {NoKey}]
    /\ pos \in [Requests -> Nat]
    /\ names \in [Requests -> SUBSET Providers]
    /\ nodes \in [Requests -> Weights]
    /\ pick \in [Requests -> Providers \cup {NoProvider}]
    /\ own \in [Requests -> SUBSET (Providers \X {"active", "member"})]
    /\ wide \in [Requests -> SUBSET (Providers \X {"active", "member"})]

Counted(p) ==
    {r \in Requests : at[r] = "run" /\ via[r] = "affinity" /\ pick[r] = p}

(***************************************************************************)
(* The load the ring goes by is the number of requests it has sent to a    *)
(* provider and that still run; requests on other routes, fallbacks and    *)
(* refusals leave no trace in it, and the clamp of Dec never has to act.   *)
(***************************************************************************)
LoadsAreCounted == \A p \in Providers : load[p] = Cardinality(Counted(p))

(***************************************************************************)
(* Although a slower request can put an older ring over a newer one        *)
(* between another's rebuild and its decision, staleness is bounded: the   *)
(* provider the ring chooses has been active, and has been in the pool, at *)
(* some time since the request arrived, or since the oldest request did    *)
(* that could still rebuild the ring by then.                              *)
(***************************************************************************)
PicksAreRecent ==
    [][\A r \in Requests : at[r] = "walk" /\ at'[r] = "picked" =>
        {<<pick'[r], "active">>, <<pick'[r], "member">>} \subseteq wide[r]]_vars

Home(W, k) ==
    LET first == {i \in 1..Len(Walk[k]) : IsNext(W, k, 0, i)}
    IN  IF first = {} THEN NoProvider ELSE Walk[k][CHOOSE i \in first : TRUE][1]

(***************************************************************************)
(* A rebuild moves a key to another provider only from one whose weight    *)
(* shrank or to one whose weight grew: the prefix caches of all the others *)
(* stay warm.                                                              *)
(***************************************************************************)
OnlyNecessaryMoves ==
    [][\A k \in Keys :
        LET old == Home(ring, k) new == Home(ring', k)
        IN  old # new /\ NoProvider \notin {old, new} =>
                ring'[old] < ring[old] \/ ring'[new] > ring[new]]_ring

(***************************************************************************)
(* Once configuration and pool no longer change, the ring is in the end    *)
(* the one of the eligible providers with their weights, whatever stale    *)
(* rebuilds were under way.                                                *)
(***************************************************************************)
RingFollowsPool == <>[](ring = Eligible)
=============================================================================
