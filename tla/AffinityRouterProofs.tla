------------------------ MODULE AffinityRouterProofs ------------------------
(***************************************************************************)
(* Proofs about AffinityRouter for any number of requests, providers and   *)
(* virtual nodes and any weights: the load counters are exact, a choice of *)
(* the ring is never staler than the oldest overlapping request, and a     *)
(* rebuild moves a key only to or from a provider that changed.            *)
(***************************************************************************)
EXTENDS AffinityRouter, FiniteSetTheorems, TLAPS

\* The place of a request fits its route.
PlacesFit ==
    \A r \in Requests :
        /\ at[r] \in {"configs", "rebuild", "decide", "walk", "picked"}
                => via[r] = "affinity"
        /\ at[r] \in {"copy", "list"} => via[r] \in {"affinity", "pool", "last"}
        /\ at[r] = "idle" => via[r] = "none"
        /\ at[r] \in {"picked", "run"} => pick[r] \in Providers
        /\ Deciding(r) => key[r] \in Keys

Known(S, p) == {<<p, "active">>, <<p, "member">>} \subseteq S

\* What is true now has been recorded by everybody on the way.
PresentIsRecorded ==
    \A r \in Requests :
        /\ Rebuilding(r) => Facts \subseteq own[r]
        /\ Deciding(r) => Facts \subseteq wide[r]

\* Whoever decides knows all that those know who may still rebuild.
OthersAreCovered ==
    \A q, r \in Requests : Rebuilding(q) /\ Deciding(r) => own[q] \subseteq wide[r]

\* What a request has read, it has recorded.
ReadingIsRecorded ==
    \A r \in Requests : via[r] = "affinity" =>
        /\ at[r] = "list" => \A p \in Providers :
                InPool(names[r], p) => <<p, "member">> \in own[r]
        /\ at[r] = "configs" => \A p \in names[r] : Known(own[r], p)
        /\ at[r] = "rebuild" => \A p \in Providers :
                nodes[r][p] > 0 => Known(own[r], p)

\* Whatever ring is installed, those who decide by it know its providers.
RingIsKnown ==
    \A r \in Requests : at[r] \in {"decide", "walk"} =>
        \A p \in Providers : ring[p] > 0 => Known(wide[r], p)

History ==
    PresentIsRecorded /\ OthersAreCovered /\ ReadingIsRecorded /\ RingIsKnown

IInv == TypeOK /\ PlacesFit /\ LoadsAreCounted /\ History

\* Requests are finitely many, so those counted are.
LEMMA CountedIsFinite ==
    \A p : IsFiniteSet(Counted(p)) /\ Cardinality(Counted(p)) \in Nat
<1>1. \A p : Counted(p) \subseteq Requests
    BY DEF Counted
<1> QED BY <1>1, RouterAssumption, FS_Subset, FS_CardinalityType

\* Nothing is in flight at first.
LEMMA InitIInv == Init => IInv
<1> SUFFICES ASSUME Init PROVE IInv
    OBVIOUS
<1>1. TypeOK
    BY RouterAssumption DEF Init, TypeOK, NoNodes, Weights
<1>2. PlacesFit /\ History
    BY DEF Init, PlacesFit, History, PresentIsRecorded, OthersAreCovered,
       ReadingIsRecorded, RingIsKnown, Rebuilding, Deciding
<1>3. \A p : Counted(p) = {}
    BY DEF Init, Counted
<1>4. LoadsAreCounted
    BY <1>3, FS_EmptySet DEF Init, LoadsAreCounted, NoNodes
<1> QED BY <1>1, <1>2, <1>4 DEF IInv

\* The place in a walk and its virtual node.
LEMMA WalkTypes ==
    ASSUME NEW k \in Keys, NEW i \in 1..Len(Walk[k])
    PROVE  Walk[k][i][1] \in Providers /\ Walk[k][i][2] \in Nat
<1>1. Walk[k] \in Seq(Providers \X Nat)
    BY RouterAssumption
<1>2. Walk[k][i] \in Providers \X Nat
    BY <1>1
<1> QED BY <1>2

\* Facts are about providers.
LEMMA FactsType == Facts \subseteq Providers \X {"active", "member"}
BY DEF Facts, Active

\* Every step preserves the types and keeps place and route together.
LEMMA NextTypes ==
    ASSUME TypeOK, PlacesFit, Next
    PROVE  TypeOK' /\ PlacesFit'
<1>1. CASE Environment
    <2>1. Facts' \subseteq Providers \X {"active", "member"}
        BY DEF Facts, Active
    <2>2. weight' \in Weights /\ members' \subseteq Providers
          /\ open' \subseteq Failing /\ changes' \in 0..MaxChanges
        <3>1. ASSUME NEW p \in Providers, NEW w \in 0..MaxWeight, Configure(p, w)
              PROVE  /\ weight' \in Weights /\ members' \subseteq Providers
                     /\ open' \subseteq Failing /\ changes' \in 0..MaxChanges
            BY <3>1, RouterAssumption DEF Configure, TypeOK, Weights
        <3>2. ASSUME NEW p \in Providers, toggleRoutingPool(p)
              PROVE  /\ weight' \in Weights /\ members' \subseteq Providers
                     /\ open' \subseteq Failing /\ changes' \in 0..MaxChanges
            BY <3>2, RouterAssumption DEF toggleRoutingPool, TypeOK
        <3>3. ASSUME NEW p \in Failing, BreakerTurns(p)
              PROVE  /\ weight' \in Weights /\ members' \subseteq Providers
                     /\ open' \subseteq Failing /\ changes' \in 0..MaxChanges
            BY <3>3, RouterAssumption DEF BreakerTurns, TypeOK
        <3> QED BY <1>1, <3>1, <3>2, <3>3 DEF Environment
    <2>3. UNCHANGED <<ring, load, reqVars>>
          /\ own' \in [Requests -> SUBSET (Providers \X {"active", "member"})]
          /\ wide' \in [Requests -> SUBSET (Providers \X {"active", "member"})]
        BY <1>1, <2>1 DEF Environment, TypeOK
    <2> QED BY <2>2, <2>3 DEF TypeOK, PlacesFit, Deciding, reqVars
<1>2. ASSUME NEW r \in Requests, RuleHit(r) \/ RuleMiss(r)
      PROVE  TypeOK' /\ PlacesFit'
    BY <1>2 DEF TypeOK, PlacesFit, Deciding, RuleHit, RuleMiss, Arrive, Active,
       envVars, histVars
<1>3. ASSUME NEW r \in Requests, NoRule(r)
      PROVE  TypeOK' /\ PlacesFit'
    <2>1. own' \in [Requests -> SUBSET (Providers \X {"active", "member"})]
          /\ wide' \in [Requests -> SUBSET (Providers \X {"active", "member"})]
        BY <1>3, FactsType DEF NoRule, TypeOK
    <2> QED BY <1>3, <2>1 DEF TypeOK, PlacesFit, Deciding, NoRule, Arrive, envVars
<1>4. ASSUME NEW r \in Requests, CopyPool(r) \/ ListForRing(r) \/ StartWalk(r)
      PROVE  TypeOK' /\ PlacesFit'
    BY <1>4 DEF TypeOK, PlacesFit, Deciding, CopyPool, ListForRing, StartWalk,
       Goto, Listed, Active, envVars, histVars
<1>5. ASSUME NEW r \in Requests, ReadConfigs(r) \/ Rebuild(r)
      PROVE  TypeOK' /\ PlacesFit'
    <2>1. nodes' \in [Requests -> Weights] /\ ring' \in Weights
        <3>1. CASE ReadConfigs(r)
            BY <3>1, RouterAssumption DEF TypeOK, ReadConfigs, Weights
        <3>2. CASE Rebuild(r)
            <4>1. NoNodes \in Weights
                BY RouterAssumption DEF NoNodes, Weights
            <4> QED BY <3>2, <4>1 DEF TypeOK, Rebuild, Rebuilt
        <3> QED BY <1>5, <3>1, <3>2
    <2> QED BY <1>5, <2>1 DEF TypeOK, PlacesFit, Deciding, ReadConfigs, Rebuild,
            Rebuilt, Goto, envVars, histVars
<1>6. ASSUME NEW r \in Requests, Take(r) \/ Skip(r) \/ Fallback(r)
      PROVE  TypeOK' /\ PlacesFit'
    <2>1. at[r] = "walk" /\ key[r] \in Keys /\ via[r] = "affinity"
        BY <1>6 DEF Take, Skip, Fallback, PlacesFit, Deciding
    <2>2. \A i \in 1..Len(Walk[key[r]]) : i \in Nat /\ Provider(r, i) \in Providers
        BY <2>1, WalkTypes DEF Provider
    <2>3. CASE Take(r)
        <3>1. PICK p \in Providers :
                /\ pick' = [pick EXCEPT ![r] = p] /\ at' = [at EXCEPT ![r] = "picked"]
                /\ pos' = [pos EXCEPT ![r] = 0] /\ wide' = [wide EXCEPT ![r] = {}]
                /\ UNCHANGED <<envVars, ring, load, via, key, names, nodes, own>>
            BY <2>2, <2>3 DEF Take, Goto
        <3>2. TypeOK'
            BY <3>1 DEF TypeOK, envVars
        <3>3. PlacesFit'
            BY <2>1, <3>1 DEF TypeOK, PlacesFit, Deciding
        <3> QED BY <3>2, <3>3
    <2>4. CASE Skip(r)
        BY <2>1, <2>2, <2>4 DEF TypeOK, PlacesFit, Deciding, Skip, envVars, histVars
    <2>5. CASE Fallback(r)
        <3>1. TypeOK'
            BY <2>5 DEF TypeOK, Fallback, Goto, envVars
        <3>2. PlacesFit'
            BY <2>1, <2>5 DEF TypeOK, PlacesFit, Deciding, Fallback, Goto, envVars
        <3> QED BY <3>1, <3>2
    <2> QED BY <1>6, <2>3, <2>4, <2>5
<1>7. ASSUME NEW r \in Requests, Inc(r) \/ Finish(r)
      PROVE  TypeOK' /\ PlacesFit'
    BY <1>7 DEF TypeOK, PlacesFit, Deciding, Inc, Finish, Leave, Goto, envVars,
       histVars
<1>8. ASSUME NEW r \in Requests, SelectFromPool(r) \/ PoolIsEmpty(r)
      PROVE  TypeOK' /\ PlacesFit'
    BY <1>8 DEF TypeOK, PlacesFit, Deciding, SelectFromPool, PoolIsEmpty,
       TopTier, Preferred, Listed, Active, Leave, Goto, envVars, histVars
<1> QED BY <1>1, <1>2, <1>3, <1>4, <1>5, <1>6, <1>7, <1>8 DEF Next, Advance

\* Inc and Finish change a counter together with the set it counts; no other
\* step changes either.
LEMMA NextLoads ==
    ASSUME TypeOK, PlacesFit, LoadsAreCounted, Next
    PROVE  LoadsAreCounted'
<1>1. ASSUME NEW r \in Requests, Inc(r)
      PROVE  LoadsAreCounted'
    <2> PICK p \in Providers : p = pick[r]
        BY <1>1 DEF PlacesFit, Inc
    <2>1. at[r] = "picked" /\ via[r] = "affinity" /\ UNCHANGED <<via, pick>>
          /\ at' = [at EXCEPT ![r] = "run"] /\ load' = [load EXCEPT ![p] = @ + 1]
        BY <1>1 DEF PlacesFit, Inc, Goto
    <2>2. Counted(p)' = Counted(p) \cup {r} /\ r \notin Counted(p)
          /\ \A q \in Providers : q # p => Counted(q)' = Counted(q)
        BY <2>1 DEF TypeOK, Counted
    <2>3. Cardinality(Counted(p)') = Cardinality(Counted(p)) + 1
        BY <2>2, CountedIsFinite, FS_AddElement
    <2> QED BY <2>1, <2>2, <2>3 DEF TypeOK, LoadsAreCounted
<1>2. ASSUME NEW r \in Requests, Finish(r), via[r] = "affinity"
      PROVE  LoadsAreCounted'
    <2> PICK p \in Providers : p = pick[r]
        BY <1>2 DEF PlacesFit, Finish
    <2>1. at[r] = "run" /\ at' = [at EXCEPT ![r] = "idle"]
          /\ via' = [via EXCEPT ![r] = "none"]
          /\ pick' = [pick EXCEPT ![r] = NoProvider]
          /\ load' = [load EXCEPT ![p] = IF @ > 0 THEN @ - 1 ELSE 0]
        BY <1>2 DEF Finish, Leave, Goto
    <2>2. Counted(p)' = Counted(p) \ {r} /\ r \in Counted(p)
          /\ \A q \in Providers : q # p => Counted(q)' = Counted(q)
        BY <1>2, <2>1 DEF TypeOK, Counted
    <2>3. Cardinality(Counted(p) \ {r}) = Cardinality(Counted(p)) - 1
          /\ Cardinality(Counted(p) \ {r}) \in Nat
        BY <2>2, CountedIsFinite, FS_RemoveElement, FS_CardinalityType
    <2>4. load[p] = Cardinality(Counted(p)) /\ load[p] \in Nat /\ load[p] - 1 \in Nat
        BY <2>3, CountedIsFinite DEF LoadsAreCounted
    <2>5. load'[p] = load[p] - 1 /\ \A q \in Providers : q # p => load'[q] = load[q]
        BY <2>1, <2>4 DEF TypeOK
    <2>6. ASSUME NEW q \in Providers
          PROVE  load'[q] = Cardinality(Counted(q)')
        <3>1. CASE q = p
            BY <2>2, <2>3, <2>4, <2>5, <3>1
        <3>2. CASE q # p
            BY <2>2, <2>5, <3>2 DEF LoadsAreCounted
        <3> QED BY <3>1, <3>2
    <2> QED BY <2>6 DEF LoadsAreCounted
<1>3. ASSUME UNCHANGED load, \A p \in Providers : Counted(p)' = Counted(p)
      PROVE  LoadsAreCounted'
    BY <1>3 DEF LoadsAreCounted
<1>4. ASSUME Environment PROVE LoadsAreCounted'
    <2> UNCHANGED load /\ \A p \in Providers : Counted(p)' = Counted(p)
        BY <1>4 DEF Environment, Counted, reqVars
    <2> QED BY <1>3
<1>5. ASSUME NEW r \in Requests, RuleHit(r) \/ RuleMiss(r) \/ NoRule(r)
      PROVE  LoadsAreCounted'
    <2> UNCHANGED load /\ \A p \in Providers : Counted(p)' = Counted(p)
        BY <1>5 DEF TypeOK, RuleHit, RuleMiss, NoRule, Arrive, Counted
    <2> QED BY <1>3
<1>6. ASSUME NEW r \in Requests,
             CopyPool(r) \/ ListForRing(r) \/ ReadConfigs(r) \/ Rebuild(r)
      PROVE  LoadsAreCounted'
    <2> UNCHANGED load /\ \A p \in Providers : Counted(p)' = Counted(p)
        BY <1>6 DEF TypeOK, CopyPool, ListForRing, ReadConfigs, Rebuild, Rebuilt,
           Goto, Counted
    <2> QED BY <1>3
<1>7. ASSUME NEW r \in Requests, StartWalk(r) \/ Take(r) \/ Skip(r) \/ Fallback(r)
      PROVE  LoadsAreCounted'
    <2>1. at[r] # "run" /\ UNCHANGED load
        BY <1>7 DEF StartWalk, Take, Skip, Fallback
    <2>2. /\ \A q \in Requests : q # r =>
                at'[q] = at[q] /\ via'[q] = via[q] /\ pick'[q] = pick[q]
          /\ at'[r] # "run"
        BY <1>7 DEF TypeOK, StartWalk, Take, Skip, Fallback, Goto
    <2> \A p \in Providers : Counted(p)' = Counted(p)
        BY <2>1, <2>2 DEF Counted
    <2> QED BY <1>3, <2>1
<1>8. ASSUME NEW r \in Requests, SelectFromPool(r) \/ PoolIsEmpty(r)
      PROVE  LoadsAreCounted'
    <2>1. at[r] = "list" /\ via[r] # "affinity" /\ UNCHANGED load
        BY <1>8 DEF SelectFromPool, PoolIsEmpty
    <2>2. /\ \A q \in Requests : q # r =>
                at'[q] = at[q] /\ via'[q] = via[q] /\ pick'[q] = pick[q]
          /\ via'[r] # "affinity"
        BY <1>8, <2>1 DEF TypeOK, SelectFromPool, PoolIsEmpty, Leave, Goto
    <2> \A p \in Providers : Counted(p)' = Counted(p)
        BY <2>1, <2>2 DEF Counted
    <2> QED BY <1>3, <2>1
<1>9. ASSUME NEW r \in Requests, Finish(r), via[r] # "affinity"
      PROVE  LoadsAreCounted'
    <2> UNCHANGED load /\ \A p \in Providers : Counted(p)' = Counted(p)
        BY <1>9 DEF TypeOK, Finish, Leave, Goto, Counted
    <2> QED BY <1>3
<1> QED BY <1>1, <1>2, <1>4, <1>5, <1>6, <1>7, <1>8, <1>9 DEF Next, Advance

\* An active member of the pool is known to whoever has recorded the present.
LEMMA FactsAreFacts ==
    \A p \in Providers :
        /\ p \in Active <=> <<p, "active">> \in Facts
        /\ InPool(members, p) <=> <<p, "member">> \in Facts
BY DEF Facts, Active

\* The facts are those of the environment alone.
LEMMA SameFacts ==
    ASSUME UNCHANGED envVars
    PROVE  Facts' = Facts /\ Active' = Active
BY DEF Facts, Active, InPool, envVars

\* A change of the environment is recorded at once.
LEMMA EnvironmentHistory ==
    ASSUME TypeOK, PlacesFit, History, Environment
    PROVE  History'
<1>1. UNCHANGED <<ring, reqVars>>
      /\ \A r \in Requests : Rebuilding(r)' = Rebuilding(r) /\ Deciding(r)' = Deciding(r)
    BY DEF Environment, reqVars, Rebuilding, Deciding
<1>2. \A r \in Requests : Rebuilding(r) => own'[r] = own[r] \cup Facts'
    BY DEF Environment
<1>3. \A r \in Requests : Deciding(r) => wide'[r] = wide[r] \cup Facts'
    BY DEF Environment
<1>4. PresentIsRecorded'
    BY <1>1, <1>2, <1>3 DEF PresentIsRecorded
<1>5. OthersAreCovered'
    BY <1>1, <1>2, <1>3 DEF History, OthersAreCovered
<1>6. ReadingIsRecorded'
    <2>1. \A r \in Requests : via[r] = "affinity" /\ at[r] \in {"list", "configs", "rebuild"}
            => own[r] \subseteq own'[r]
        BY <1>2 DEF Rebuilding
    <2> QED BY <1>1, <2>1 DEF History, ReadingIsRecorded, Known, InPool, reqVars
<1>7. RingIsKnown'
    <2>1. \A r \in Requests : at[r] \in {"decide", "walk"} /\ via[r] = "affinity"
            => wide[r] \subseteq wide'[r]
        BY <1>3 DEF Deciding
    <2>2. \A r \in Requests : at[r] \in {"decide", "walk"} => via[r] = "affinity"
        BY DEF PlacesFit
    <2> QED BY <1>1, <2>1, <2>2 DEF History, RingIsKnown, Known, reqVars
<1> QED BY <1>4, <1>5, <1>6, <1>7 DEF History

\* A request that arrives knows the present and what the others have recorded;
\* the others know the present already.
LEMMA ArrivalHistory ==
    ASSUME TypeOK, PlacesFit, History, NEW r \in Requests, NoRule(r)
    PROVE  History'
<1>1. at[r] = "idle" /\ UNCHANGED <<ring, names, nodes, envVars>>
      /\ at' = [at EXCEPT ![r] = "copy"] /\ via' = [via EXCEPT ![r] = "affinity"]
      /\ own' = [own EXCEPT ![r] = Facts]
      /\ wide' = [wide EXCEPT ![r] = Facts \cup UNION {own[q] : q \in Requests}]
    BY DEF NoRule, Arrive
<1>2. Facts' = Facts
    BY <1>1, SameFacts
<1>3. \A q \in Requests : q # r => /\ Rebuilding(q)' = Rebuilding(q) /\ own'[q] = own[q]
                                   /\ Deciding(q)' = Deciding(q) /\ wide'[q] = wide[q]
    BY <1>1 DEF TypeOK, Rebuilding, Deciding
<1>4. own'[r] = Facts /\ Facts \subseteq wide'[r] /\ \A q \in Requests : own[q] \subseteq wide'[r]
    BY <1>1 DEF TypeOK
<1>5. PresentIsRecorded'
    BY <1>2, <1>3, <1>4 DEF History, PresentIsRecorded
<1>6. OthersAreCovered'
    BY <1>2, <1>3, <1>4 DEF History, PresentIsRecorded, OthersAreCovered
<1>7. ReadingIsRecorded'
    BY <1>1, <1>3 DEF TypeOK, History, ReadingIsRecorded, Known
<1>8. RingIsKnown'
    BY <1>1, <1>3 DEF TypeOK, History, RingIsKnown, Known
<1> QED BY <1>5, <1>6, <1>7, <1>8 DEF History

\* What is read under a lock is true then, and recorded.
LEMMA ReadingHistory ==
    ASSUME TypeOK, PlacesFit, History, NEW r \in Requests,
           CopyPool(r) \/ ListForRing(r) \/ ReadConfigs(r)
    PROVE  History'
<1>1. UNCHANGED <<envVars, ring, via, histVars>>
      /\ \A q \in Requests : Rebuilding(q)' = Rebuilding(q) /\ Deciding(q)' = Deciding(q)
    BY DEF TypeOK, CopyPool, ListForRing, ReadConfigs, Goto, Rebuilding, Deciding
<1>2. PresentIsRecorded' /\ OthersAreCovered'
    BY <1>1, SameFacts DEF History, PresentIsRecorded, OthersAreCovered, histVars
<1>3. RingIsKnown'
    BY <1>1 DEF TypeOK, History, RingIsKnown, Known, CopyPool, ListForRing,
       ReadConfigs, Goto, histVars
<1>4. via[r] = "affinity" => Facts \subseteq own[r]
    BY DEF History, PresentIsRecorded, Rebuilding, CopyPool, ListForRing, ReadConfigs
<1>5. ReadingIsRecorded'
    <2>1. CASE CopyPool(r)
        BY <1>1, <1>4, <2>1, FactsAreFacts
        DEF TypeOK, History, ReadingIsRecorded, Known, CopyPool, Goto, histVars
    <2>2. CASE ListForRing(r)
        <3>1. \A p \in Listed(r) : Known(own[r], p)
            BY <1>4, <2>2, FactsAreFacts
            DEF History, ReadingIsRecorded, Known, ListForRing, Listed, Active
        <3> QED BY <1>1, <2>2, <3>1
                DEF TypeOK, History, ReadingIsRecorded, ListForRing, Goto,
                    histVars
    <2>3. CASE ReadConfigs(r)
        BY <1>1, <2>3
        DEF TypeOK, History, ReadingIsRecorded, Known, ReadConfigs, Goto, histVars
    <2> QED BY <2>1, <2>2, <2>3
<1> QED BY <1>2, <1>3, <1>5 DEF History

\* The ring that r installs consists of providers that r has recorded, and so
\* has everybody who may decide by it.
LEMMA RebuildHistory ==
    ASSUME TypeOK, PlacesFit, History, NEW r \in Requests, Rebuild(r)
    PROVE  History'
<1>1. /\ at[r] = "rebuild" /\ via[r] = "affinity" /\ ring' = nodes[r]
      /\ UNCHANGED <<envVars, via, names, wide>>
      /\ at' = [at EXCEPT ![r] = "decide"] /\ own' = [own EXCEPT ![r] = {}]
      /\ nodes' = [nodes EXCEPT ![r] = NoNodes]
    BY DEF PlacesFit, Rebuild, Rebuilt, Goto
<1>2. \A q \in Requests : /\ Deciding(q)' = Deciding(q)
                          /\ Rebuilding(q)' => q # r /\ Rebuilding(q) /\ own'[q] = own[q]
    BY <1>1 DEF TypeOK, Rebuilding, Deciding
<1>3. PresentIsRecorded' /\ OthersAreCovered'
    BY <1>1, <1>2, SameFacts DEF History, PresentIsRecorded, OthersAreCovered
<1>4. ReadingIsRecorded'
    BY <1>1, <1>2 DEF TypeOK, History, ReadingIsRecorded, Known
<1>5. RingIsKnown'
    <2>1. \A p \in Providers : nodes[r][p] > 0 => Known(own[r], p)
        BY <1>1 DEF History, ReadingIsRecorded
    <2>2. \A q \in Requests : Deciding(q) => own[r] \subseteq wide[q]
        BY <1>1 DEF History, OthersAreCovered, Rebuilding
    <2>3. \A q \in Requests : at'[q] \in {"decide", "walk"} => Deciding(q)
        BY <1>1 DEF TypeOK, PlacesFit, Deciding
    <2> QED BY <1>1, <2>1, <2>2, <2>3 DEF RingIsKnown, Known
<1> QED BY <1>3, <1>4, <1>5 DEF History

\* All other steps of a request record nothing and read nothing.
LEMMA OtherHistory ==
    ASSUME TypeOK, PlacesFit, History, NEW r \in Requests,
           \/ RuleHit(r) \/ RuleMiss(r) \/ StartWalk(r) \/ Take(r) \/ Skip(r)
           \/ Fallback(r) \/ Inc(r) \/ SelectFromPool(r) \/ PoolIsEmpty(r)
           \/ Finish(r)
    PROVE  History'
<1>1. UNCHANGED <<envVars, ring, nodes, own>>
    BY DEF RuleHit, RuleMiss, StartWalk, Take, Skip, Fallback, Inc, Finish,
       SelectFromPool, PoolIsEmpty, Arrive, Leave, histVars
<1>2. /\ ~Rebuilding(r)' /\ at'[r] \notin {"decide"}
      /\ at'[r] = "walk" => at[r] \in {"decide", "walk"} /\ wide'[r] = wide[r]
      /\ Deciding(r)' => Deciding(r) /\ wide'[r] = wide[r]
    BY DEF TypeOK, PlacesFit, Rebuilding, Deciding, RuleHit, RuleMiss, StartWalk,
       Take, Skip, Fallback, Inc, Finish, SelectFromPool, PoolIsEmpty, Arrive,
       Leave, Goto, histVars
<1>3. \A q \in Requests : q # r =>
            /\ at'[q] = at[q] /\ via'[q] = via[q] /\ names'[q] = names[q]
            /\ wide'[q] = wide[q]
    BY DEF TypeOK, RuleHit, RuleMiss, StartWalk, Take, Skip, Fallback, Inc,
       Finish, SelectFromPool, PoolIsEmpty, Arrive, Leave, Goto, histVars
<1>4. PresentIsRecorded' /\ OthersAreCovered'
    BY <1>1, <1>2, <1>3, SameFacts
    DEF History, PresentIsRecorded, OthersAreCovered, Rebuilding, Deciding
<1>5. ReadingIsRecorded'
    BY <1>1, <1>2, <1>3 DEF History, ReadingIsRecorded, Rebuilding, Known
<1>6. RingIsKnown'
    BY <1>1, <1>2, <1>3 DEF History, RingIsKnown, Known
<1> QED BY <1>4, <1>5, <1>6 DEF History

\* Every step of Next preserves the invariant.
LEMMA NextIInv == IInv /\ [Next]_vars => IInv'
<1>1. CASE UNCHANGED vars
    BY <1>1 DEF IInv, TypeOK, PlacesFit, LoadsAreCounted, Counted, History,
       PresentIsRecorded, OthersAreCovered, ReadingIsRecorded, RingIsKnown,
       Rebuilding, Deciding, Facts, Active, InPool, Known, vars, envVars,
       reqVars, histVars
<1>2. ASSUME IInv, Next PROVE IInv'
    <2>1. History'
        BY <1>2, EnvironmentHistory, ArrivalHistory, ReadingHistory,
           RebuildHistory, OtherHistory DEF IInv, Next, Advance
    <2> QED BY <1>2, <2>1, NextTypes, NextLoads DEF IInv
<1> QED BY <1>1, <1>2

\* The invariant holds in every reachable state.
THEOREM InvariantHolds == Spec => []IInv
BY InitIInv, NextIInv, PTL DEF Spec

(***************************************************************************)
(* Routing keeps its types for any number of requests and providers.       *)
(***************************************************************************)
THEOREM TypeCorrect == Spec => []TypeOK
<1>1. IInv => TypeOK
    BY DEF IInv
<1> QED BY <1>1, InvariantHolds, PTL

(***************************************************************************)
(* The load counters are exactly the requests in flight that the ring has  *)
(* sent: Inc and Dec are paired on every route through the handler.        *)
(***************************************************************************)
THEOREM LoadsAreExact == Spec => []LoadsAreCounted
<1>1. IInv => LoadsAreCounted
    BY DEF IInv
<1> QED BY <1>1, InvariantHolds, PTL

(***************************************************************************)
(* Although the pool, the list, the weights, the ring and the decision are *)
(* five separate critical sections, the ring never chooses a provider that *)
(* had left before the oldest overlapping request arrived.                 *)
(***************************************************************************)
THEOREM StalenessIsBounded == Spec => PicksAreRecent
<1>1. ASSUME IInv, [Next]_vars, NEW r \in Requests,
             at[r] = "walk", at'[r] = "picked"
      PROVE  {<<pick'[r], "active">>, <<pick'[r], "member">>} \subseteq wide[r]
    <2>1. Take(r)
        <3>1. ~Environment /\ ~UNCHANGED vars
            BY <1>1 DEF Environment, reqVars, vars
        <3>2. ASSUME NEW q \in Requests,
                     RuleHit(q) \/ RuleMiss(q) \/ NoRule(q) \/ Advance(q)
              PROVE  Take(q)
            BY <1>1, <3>2
            DEF IInv, TypeOK, RuleHit, RuleMiss, NoRule, Advance, CopyPool,
                ListForRing, ReadConfigs, Rebuild, StartWalk, Skip, Fallback,
                Inc, SelectFromPool, PoolIsEmpty, Finish, Arrive, Rebuilt,
                Leave, Goto
        <3>3. ASSUME NEW q \in Requests, Take(q) PROVE q = r
            BY <1>1, <3>3 DEF IInv, TypeOK, Take, Goto
        <3> QED BY <1>1, <3>1, <3>2, <3>3 DEF Next
    <2>2. PICK i \in 1..Len(Walk[key[r]]) :
            IsNext(ring, key[r], pos[r], i) /\ pick'[r] = Provider(r, i)
        BY <1>1, <2>1 DEF Take, IInv, TypeOK
    <2>3. key[r] \in Keys
        BY <1>1 DEF IInv, PlacesFit, Deciding
    <2>4. Provider(r, i) \in Providers /\ Walk[key[r]][i][2] \in Nat
        BY <2>3, WalkTypes DEF Provider
    <2>5. ring[Provider(r, i)] > 0
        <3>1. ring \in [Providers -> 0..MaxWeight]
            BY <1>1 DEF IInv, TypeOK, Weights
        <3>2. Walk[key[r]][i][2] < ring[Provider(r, i)]
            BY <2>2 DEF IsNext, OnRing, Provider
        <3>3. ring[Provider(r, i)] \in 0..MaxWeight
            BY <2>4, <3>1
        <3>4. \A m \in Nat, n \in 0..MaxWeight : m < n => n > 0
            BY RouterAssumption
        <3> QED BY <2>4, <3>2, <3>3, <3>4
    <2>6. Known(wide[r], Provider(r, i))
        BY <1>1, <2>4, <2>5 DEF IInv, History, RingIsKnown
    <2> QED BY <2>2, <2>6 DEF Known
<1>2. IInv /\ [Next]_vars =>
        [\A r \in Requests : at[r] = "walk" /\ at'[r] = "picked" =>
            {<<pick'[r], "active">>, <<pick'[r], "member">>} \subseteq wide[r]]_vars
    BY <1>1
<1> QED BY <1>2, InvariantHolds, PTL DEF Spec, PicksAreRecent

-----------------------------------------------------------------------------
\* Home is the provider of the first virtual node that is on the ring.
LEMMA HomeIsFirst ==
    ASSUME NEW W, NEW k \in Keys, Home(W, k) # NoProvider
    PROVE  \E i \in 1..Len(Walk[k]) : /\ IsNext(W, k, 0, i)
                                      /\ Home(W, k) = Walk[k][i][1]
<1> DEFINE first == {i \in 1..Len(Walk[k]) : IsNext(W, k, 0, i)}
<1>1. Home(W, k) = IF first = {} THEN NoProvider ELSE Walk[k][CHOOSE i \in first : TRUE][1]
    BY DEF Home
<1>2. first # {}
    BY <1>1
<1>3. (CHOOSE i \in first : TRUE) \in first
    BY <1>2
<1> QED BY <1>1, <1>2, <1>3

\* Consistent hashing, one key: if the first node changes, the old one has left the
\* ring, or the new one has come to it.
LEMMA HomeMoves ==
    ASSUME NEW V \in Weights, NEW W \in Weights, NEW k \in Keys,
           Home(V, k) # NoProvider, Home(W, k) # NoProvider, Home(V, k) # Home(W, k)
    PROVE  W[Home(V, k)] < V[Home(V, k)] \/ W[Home(W, k)] > V[Home(W, k)]
<1>1. PICK i \in 1..Len(Walk[k]) : IsNext(V, k, 0, i) /\ Home(V, k) = Walk[k][i][1]
    BY HomeIsFirst
<1>2. PICK j \in 1..Len(Walk[k]) : IsNext(W, k, 0, j) /\ Home(W, k) = Walk[k][j][1]
    BY HomeIsFirst
<1> DEFINE old == Walk[k][i][1]
           new == Walk[k][j][1]
<1>3. /\ old \in Providers /\ Walk[k][i][2] \in Nat
      /\ new \in Providers /\ Walk[k][j][2] \in Nat
    BY WalkTypes
<1>4. /\ V[old] \in Nat /\ V[new] \in Nat /\ W[old] \in Nat /\ W[new] \in Nat
    <2>1. MaxWeight \in Nat
        BY RouterAssumption
    <2>2. \A p \in Providers : V[p] \in 0..MaxWeight /\ W[p] \in 0..MaxWeight
        BY DEF Weights
    <2> HIDE DEF old, new
    <2> QED BY <1>3, <2>1, <2>2
<1>5. i # j
    BY <1>1, <1>2
<1>6. Len(Walk[k]) \in Nat
    BY RouterAssumption
<1>7. CASE i < j
    <2>1. ~OnRing(W, Walk[k][i])
        BY <1>2, <1>6, <1>7 DEF IsNext
    <2>2. Walk[k][i][2] < V[old] /\ ~(Walk[k][i][2] < W[old])
        BY <1>1, <2>1 DEF IsNext, OnRing
    <2> QED BY <1>1, <1>3, <1>4, <2>2
<1>8. CASE j < i
    <2>1. ~OnRing(V, Walk[k][j])
        BY <1>1, <1>6, <1>8 DEF IsNext
    <2>2. Walk[k][j][2] < W[new] /\ ~(Walk[k][j][2] < V[new])
        BY <1>2, <2>1 DEF IsNext, OnRing
    <2> QED BY <1>2, <1>3, <1>4, <2>2
<1> QED BY <1>5, <1>6, <1>7, <1>8

(***************************************************************************)
(* SetRing's virtual nodes are numbered per provider, so a rebuild moves a *)
(* key only from a provider whose weight shrank or to one whose weight     *)
(* grew, wherever the nodes lie on the ring and however many there are.    *)
(***************************************************************************)
THEOREM RebuildsKeepHomes == Spec => OnlyNecessaryMoves
<1>1. ASSUME IInv, IInv'
      PROVE  \A k \in Keys :
                LET old == Home(ring, k) new == Home(ring', k)
                IN  old # new /\ NoProvider \notin {old, new} =>
                        ring'[old] < ring[old] \/ ring'[new] > ring[new]
    <2>1. ring \in Weights /\ ring' \in Weights
        BY <1>1 DEF IInv, TypeOK, Weights
    <2> QED BY <2>1, HomeMoves
<1>2. IInv /\ IInv' =>
        [\A k \in Keys :
            LET old == Home(ring, k) new == Home(ring', k)
            IN  old # new /\ NoProvider \notin {old, new} =>
                    ring'[old] < ring[old] \/ ring'[new] > ring[new]]_ring
    BY <1>1
<1> QED BY <1>2, InvariantHolds, PTL DEF OnlyNecessaryMoves
=============================================================================
