------------------------ MODULE ProviderManagerProofs ------------------------
(***************************************************************************)
(* Proofs about ProviderManager for any finite set of callers, any number  *)
(* of concurrent editors, and any limits: slots are neither lost nor freed *)
(* twice, and a call never runs under limits older than its provider.      *)
(*                                                                         *)
(* And about RateLimits, the buckets a call passes on its way to a slot,   *)
(* for any requests and any limits: the lazy refill of last and tokens     *)
(* implements buckets that are filled every second (TokenBuckets).         *)
(***************************************************************************)
EXTENDS ProviderManager, RateLimits, FiniteSetTheorems, TLAPS

\* Exactly the instances installed so far have a configuration.
BuiltInOrder ==
    \A g \in Instances : built[g] \in Configs <=> g <= latest

\* Nobody knows, and no slot belongs to, an instance that is yet to come.
NothingAhead ==
    /\ \A g \in Instances : g > latest => slots[g] = 0
    /\ \A c \in Callers : lim[c] <= latest /\ inst[c] <= latest

\* What a caller has found when it is past a lookup.
LookupsSucceeded ==
    \A c \in Callers :
        /\ at[c] # "idle" => inst[c] # None
        /\ at[c] = "waiting" => Limited(lim[c])

IInv ==
    /\ TypeOK /\ BuiltInOrder /\ NothingAhead /\ LookupsSucceeded
    /\ SlotsAreHeld /\ LimitsFitTheInstance /\ ProvidersAreListed

\* The callers are finitely many, so the holders of a slot can be counted.
LEMMA HoldersAreFinite ==
    \A g : IsFiniteSet(Holders(g)) /\ Cardinality(Holders(g)) \in Nat
<1>1. \A g : Holders(g) \subseteq Callers
    BY DEF Holders
<1> QED BY <1>1, ManagerAssumption, FS_Subset, FS_CardinalityType

\* After Bootstrap one instance is installed and no call has begun.
LEMMA InitIInv == Init => IInv
<1> SUFFICES ASSUME Init PROVE IInv
    OBVIOUS
<1> PICK c0 \in Buildable :
        built = [g \in Instances |-> IF g = 1 THEN c0 ELSE NoConfig] /\ config = c0
    BY DEF Init
<1>1. TypeOK
    BY ManagerAssumption DEF Init, TypeOK, Instances
<1>2. /\ BuiltInOrder /\ NothingAhead /\ LookupsSucceeded
      /\ LimitsFitTheInstance /\ ProvidersAreListed
    BY ManagerAssumption DEF Init, BuiltInOrder, NothingAhead, LookupsSucceeded,
       LimitsFitTheInstance, ProvidersAreListed, Instances, None
<1>3. \A g : Holders(g) = {}
    BY DEF Init, Holders
<1>4. SlotsAreHeld
    <2> SUFFICES ASSUME NEW g \in Instances
                 PROVE  slots[g] = Cardinality(Holders(g)) /\ slots[g] <= Limit(g)
        BY DEF SlotsAreHeld
    <2>1. slots[g] = 0 /\ Limit(g) \in Nat
        BY ManagerAssumption DEF Init, Limit
    <2> QED BY <1>3, <2>1, FS_EmptySet
<1> QED BY <1>1, <1>2, <1>4 DEF IInv

\* A step that neither installs an instance nor touches slots and callers
\* keeps the count of the slots.
LEMMA SlotsUntouched ==
    ASSUME IInv, UNCHANGED <<built, callVars>>
    PROVE  SlotsAreHeld'
BY DEF IInv, SlotsAreHeld, Limited, Limit, Holders, callVars

\* Steps of the admin API and the watcher that install nothing.
LEMMA EditIInv ==
    ASSUME IInv, NEW e \in Editors,
           Unregister(e) \/ QuickCheck(e) \/ UpdateConfig(e)
    PROVE  IInv'
<1>1. TypeOK'
    BY DEF IInv, TypeOK, Unregister, QuickCheck, UpdateConfig, Go, mapVars,
       callVars
<1>2. UNCHANGED <<latest, built, callVars>> /\ current' \in {current, None}
    BY DEF Unregister, QuickCheck, UpdateConfig, mapVars
<1>3. BuiltInOrder' /\ NothingAhead' /\ LookupsSucceeded'
    BY <1>2 DEF IInv, BuiltInOrder, NothingAhead, LookupsSucceeded, Limited,
       Limit, callVars
<1>4. LimitsFitTheInstance'
    BY <1>2 DEF IInv, TypeOK, LookupsSucceeded, LimitsFitTheInstance, callVars
<1>5. ProvidersAreListed'
    BY ManagerAssumption
    DEF IInv, TypeOK, ProvidersAreListed, Unregister, QuickCheck, UpdateConfig,
        Go, mapVars
<1> QED BY <1>1, <1>2, <1>3, <1>4, <1>5, SlotsUntouched DEF IInv

\* Installing an instance: its slots are free and nobody has found it yet.
LEMMA InstallIInv ==
    ASSUME IInv, NEW e \in Editors, Install(e)
    PROVE  IInv'
<1>1. CASE UNCHANGED <<mapVars, callVars>>
    <2>1. TypeOK'
        BY <1>1 DEF IInv, TypeOK, Install, Go, mapVars, callVars
    <2>2. /\ BuiltInOrder' /\ NothingAhead' /\ LookupsSucceeded'
          /\ LimitsFitTheInstance' /\ ProvidersAreListed'
        BY <1>1 DEF IInv, BuiltInOrder, NothingAhead, LookupsSucceeded,
           LimitsFitTheInstance, ProvidersAreListed, Limited, Limit, mapVars,
           callVars
    <2> QED BY <1>1, <2>1, <2>2, SlotsUntouched DEF IInv, mapVars
<1>2. CASE /\ current = None /\ latest < Last
           /\ current' = latest + 1 /\ latest' = latest + 1
           /\ built' = [built EXCEPT ![latest + 1] = task[e].cfg]
           /\ config' = task[e].cfg /\ UNCHANGED callVars
    <2> DEFINE new == latest + 1
    <2>1. latest \in Nat /\ new \in Instances /\ task[e].cfg \in Configs
        BY <1>2, ManagerAssumption DEF IInv, TypeOK, Instances
    <2>2. TypeOK'
        BY <1>2, <2>1 DEF IInv, TypeOK, Install, Go, callVars
    <2>3. built'[new] \in Configs /\ \A g \in Instances : g # new => built'[g] = built[g]
        BY <1>2, <2>1 DEF IInv, TypeOK
    <2>4. BuiltInOrder'
        BY <1>2, <2>1, <2>3 DEF IInv, BuiltInOrder, Instances
    <2>5. NothingAhead'
        <3>1. \A g \in Instances : g > new => g > latest
            BY <2>1 DEF Instances
        <3>2. \A n \in Instances \cup {None} : n <= latest => n <= new
            BY <2>1 DEF Instances, None
        <3>3. lim \in [Callers -> Instances \cup {None}]
              /\ inst \in [Callers -> Instances \cup {None}]
            BY DEF IInv, TypeOK
        <3> QED BY <1>2, <3>1, <3>2, <3>3 DEF IInv, NothingAhead, callVars
    <2>6. \A c \in Callers : lim[c] # new /\ inst[c] # new /\ lim[c] \in Nat /\ inst[c] \in Nat
        BY <2>1 DEF IInv, TypeOK, NothingAhead, Instances, None
    <2>7. LookupsSucceeded'
        BY <1>2, <2>3, <2>6 DEF IInv, TypeOK, LookupsSucceeded, Limited, Limit, callVars
    <2>8. LimitsFitTheInstance'
        BY <1>2, <2>1, <2>6 DEF IInv, LimitsFitTheInstance, callVars
    <2>9. SlotsAreHeld'
        <3> SUFFICES ASSUME NEW g \in Instances, Limited(g)'
                     PROVE  slots[g] = Cardinality(Holders(g)) /\ slots[g] <= Limit(g)'
            BY <1>2 DEF SlotsAreHeld, Holders, callVars
        <3>1. CASE g = new
            <4>1. Holders(g) = {}
                BY <2>6, <3>1 DEF Holders
            <4>2. slots[g] = 0
                BY <2>1, <3>1 DEF IInv, NothingAhead
            <4>3. Limit(g)' \in Nat
                BY ManagerAssumption DEF Limit
            <4> QED BY <4>1, <4>2, <4>3, FS_EmptySet
        <3>2. CASE g # new
            BY <2>3, <3>2 DEF IInv, SlotsAreHeld, Limited, Limit
        <3> QED BY <3>1, <3>2
    <2>10. ProvidersAreListed'
        BY <1>2, <2>1, ManagerAssumption DEF ProvidersAreListed
    <2> QED BY <2>2, <2>4, <2>5, <2>7, <2>8, <2>9, <2>10 DEF IInv
<1> QED BY <1>1, <1>2 DEF Install

\* The lookups of Generate occupy no slot.
LEMMA LookupIInv ==
    ASSUME IInv, NEW c \in Callers, Get(c) \/ FindLimits(c) \/ GiveUp(c)
    PROVE  IInv'
<1>1. TypeOK'
    BY DEF IInv, TypeOK, Get, FindLimits, GiveUp, Leave, mapVars, editVars
<1>2. UNCHANGED <<mapVars, slots>>
    BY DEF Get, FindLimits, GiveUp
<1>3. BuiltInOrder' /\ ProvidersAreListed'
    BY <1>2 DEF IInv, BuiltInOrder, ProvidersAreListed, mapVars
<1>4. NothingAhead'
    BY <1>2 DEF IInv, TypeOK, NothingAhead, Get, FindLimits, GiveUp, Leave,
       mapVars, None, Instances
<1>5. LookupsSucceeded'
    BY <1>2 DEF IInv, TypeOK, LookupsSucceeded, Get, FindLimits, GiveUp, Leave,
       mapVars, Limited, Limit
<1>6. LimitsFitTheInstance'
    BY <1>2 DEF IInv, TypeOK, NothingAhead, LookupsSucceeded,
       LimitsFitTheInstance, Get, FindLimits, GiveUp, Leave, mapVars, None,
       Instances
<1>7. \A g \in Instances : Limited(g) => Holders(g)' = Holders(g)
    BY <1>2 DEF IInv, TypeOK, Get, FindLimits, GiveUp, Leave, Holders, Limited
<1>8. SlotsAreHeld'
    BY <1>2, <1>7 DEF IInv, SlotsAreHeld, Limited, Limit, mapVars
<1> QED BY <1>1, <1>3, <1>4, <1>5, <1>6, <1>8 DEF IInv

\* A caller takes a free slot of the semaphore it waits for.
LEMMA AcquireIInv ==
    ASSUME IInv, NEW c \in Callers, Acquire(c)
    PROVE  IInv'
<1> PICK h : h = lim[c]
    OBVIOUS
<1>1. h \in Instances /\ Limited(h) /\ at[c] = "waiting" /\ slots[h] < Limit(h)
      /\ slots[h] \in Nat /\ Limit(h) \in Nat /\ latest \in Nat
    BY ManagerAssumption
    DEF IInv, TypeOK, LookupsSucceeded, Limited, Acquire, Limit, Instances
<1>2. slots' = [slots EXCEPT ![h] = @ + 1] /\ at' = [at EXCEPT ![c] = "running"]
      /\ UNCHANGED <<mapVars, editVars, inst, lim>>
    BY DEF Acquire
<1>3. TypeOK'
    BY <1>1, <1>2 DEF IInv, TypeOK, mapVars, editVars
<1>4. /\ BuiltInOrder' /\ LookupsSucceeded' /\ LimitsFitTheInstance'
      /\ ProvidersAreListed'
    BY <1>1, <1>2 DEF IInv, TypeOK, BuiltInOrder, LookupsSucceeded,
       LimitsFitTheInstance, ProvidersAreListed, Limited, Limit, mapVars
<1>5. NothingAhead'
    BY <1>1, <1>2 DEF IInv, TypeOK, NothingAhead, mapVars, Instances
<1>6. Holders(h)' = Holders(h) \cup {c} /\ c \notin Holders(h)
      /\ \A g \in Instances : g # h => Holders(g)' = Holders(g)
    BY <1>1, <1>2 DEF IInv, TypeOK, Holders
<1>7. Cardinality(Holders(h)') = Cardinality(Holders(h)) + 1
    BY <1>6, HoldersAreFinite, FS_AddElement
<1>8. SlotsAreHeld'
    <2> SUFFICES ASSUME NEW g \in Instances, Limited(g)
                 PROVE  slots'[g] = Cardinality(Holders(g)') /\ slots'[g] <= Limit(g)
        BY <1>2 DEF SlotsAreHeld, Limited, Limit, mapVars
    <2>1. slots[g] = Cardinality(Holders(g)) /\ slots[g] <= Limit(g)
        BY DEF IInv, SlotsAreHeld
    <2>2. slots'[g] = IF g = h THEN slots[g] + 1 ELSE slots[g]
        BY <1>2 DEF IInv, TypeOK
    <2>3. CASE g = h
        BY <1>1, <1>7, <2>1, <2>2, <2>3
    <2>4. CASE g # h
        BY <1>6, <2>1, <2>2, <2>4
    <2> QED BY <2>3, <2>4
<1> QED BY <1>3, <1>4, <1>5, <1>8 DEF IInv

\* The deferred Release frees the slot that was taken, wherever it was.
LEMMA ReturnIInv ==
    ASSUME IInv, NEW c \in Callers, Return(c)
    PROVE  IInv'
<1> PICK h : h = lim[c]
    OBVIOUS
<1>1. at[c] = "running" /\ Leave(c) /\ UNCHANGED <<mapVars, editVars>>
      /\ slots' = IF Limited(h) THEN [slots EXCEPT ![h] = @ - 1] ELSE slots
    BY DEF Return
<1>2. latest \in Nat /\ h \in Instances \cup {None}
    BY DEF IInv, TypeOK, Instances
<1>3. Limited(h) => /\ h \in Instances /\ slots[h] = Cardinality(Holders(h))
                    /\ slots[h] <= Limit(h) /\ c \in Holders(h)
                    /\ Limit(h) \in Nat /\ h <= latest
    BY <1>1, <1>2, ManagerAssumption
    DEF IInv, SlotsAreHeld, NothingAhead, Holders, Limited, Limit
<1>4. Limited(h) => Holders(h)' = Holders(h) \ {c}
    BY <1>1, <1>2 DEF IInv, TypeOK, Holders, Leave, Limited, None, Instances
<1>5. \A g \in Instances : g # h => Holders(g)' = Holders(g)
    BY <1>1 DEF IInv, TypeOK, Holders, Leave, None, Instances
<1>6. Limited(h) => /\ Cardinality(Holders(h)') = Cardinality(Holders(h)) - 1
                    /\ slots[h] - 1 \in Nat /\ slots[h] \in Nat
    <2> SUFFICES ASSUME Limited(h)
                 PROVE  /\ Cardinality(Holders(h)') = Cardinality(Holders(h)) - 1
                        /\ slots[h] - 1 \in Nat /\ slots[h] \in Nat
        OBVIOUS
    <2>1. Cardinality(Holders(h) \ {c}) = Cardinality(Holders(h)) - 1
        BY <1>3, HoldersAreFinite, FS_RemoveElement
    <2>2. IsFiniteSet(Holders(h) \ {c}) /\ Cardinality(Holders(h) \ {c}) \in Nat
        BY HoldersAreFinite, FS_RemoveElement, FS_CardinalityType
    <2> QED BY <1>3, <1>4, <2>1, <2>2, HoldersAreFinite
<1>7. TypeOK'
    <2>1. slots' \in [Instances -> Nat]
        BY <1>1, <1>3, <1>6 DEF IInv, TypeOK
    <2> QED BY <1>1, <2>1 DEF IInv, TypeOK, Leave, mapVars, editVars
<1>8. /\ BuiltInOrder' /\ LookupsSucceeded' /\ LimitsFitTheInstance'
      /\ ProvidersAreListed'
    BY <1>1 DEF IInv, TypeOK, BuiltInOrder, LookupsSucceeded,
       LimitsFitTheInstance, ProvidersAreListed, Limited, Limit, mapVars, Leave
<1>9. NothingAhead'
    BY <1>1, <1>2, <1>3 DEF IInv, TypeOK, NothingAhead, mapVars, Leave, None,
       Instances
<1>10. SlotsAreHeld'
    <2> SUFFICES ASSUME NEW g \in Instances, Limited(g)
                 PROVE  slots'[g] = Cardinality(Holders(g)') /\ slots'[g] <= Limit(g)
        BY <1>1 DEF SlotsAreHeld, Limited, Limit, mapVars
    <2>1. slots[g] = Cardinality(Holders(g)) /\ slots[g] <= Limit(g)
        BY DEF IInv, SlotsAreHeld
    <2>2. slots'[g] = IF g = h THEN slots[g] - 1 ELSE slots[g]
        BY <1>1 DEF IInv, TypeOK
    <2>3. CASE g = h
        BY <1>3, <1>6, <2>1, <2>2, <2>3
    <2>4. CASE g # h
        BY <1>5, <2>1, <2>2, <2>4
    <2> QED BY <2>3, <2>4
<1> QED BY <1>7, <1>8, <1>9, <1>10 DEF IInv

\* Every step of an editor or a caller preserves the invariant.
LEMMA NextIInv == IInv /\ [Next]_vars => IInv'
<1> SUFFICES ASSUME IInv, [Next]_vars PROVE IInv'
    OBVIOUS
<1>1. CASE UNCHANGED vars
    BY <1>1 DEF IInv, TypeOK, BuiltInOrder, NothingAhead, LookupsSucceeded,
       SlotsAreHeld, LimitsFitTheInstance, ProvidersAreListed, Limited, Limit,
       Holders, vars
<1>2. ASSUME NEW e \in Editors, Edit(e) PROVE IInv'
    BY <1>2, EditIInv, InstallIInv DEF Edit
<1>3. ASSUME NEW c \in Callers, Generate(c) PROVE IInv'
    BY <1>3, LookupIInv, AcquireIInv, ReturnIInv DEF Generate
<1> QED BY <1>1, <1>2, <1>3 DEF Next

\* The invariant holds in every reachable state.
THEOREM InvariantHolds == Spec => []IInv
BY InitIInv, NextIInv, PTL DEF Spec

(***************************************************************************)
(* The maps of the manager keep their types under concurrent edits: what   *)
(* they hold is nothing or the instance that was installed last.           *)
(***************************************************************************)
THEOREM TypeCorrect == Spec => []TypeOK
<1>1. IInv => TypeOK
    BY DEF IInv
<1> QED BY <1>1, InvariantHolds, PTL

(***************************************************************************)
(* For every limit and any number of callers and editors, the slots of a   *)
(* semaphore are exactly the calls running under it, at most               *)
(* MaxConcurrency, also after Register has replaced the semaphore.         *)
(***************************************************************************)
THEOREM SlotsAreNotLost == Spec => []SlotsAreHeld
<1>1. IInv => SlotsAreHeld
    BY DEF IInv
<1> QED BY <1>1, InvariantHolds, PTL

(***************************************************************************)
(* Although Generate looks the provider and its limits up under separate   *)
(* locks, a call never runs under limits older than its provider, and      *)
(* under those of another or none only if its own has been unregistered.   *)
(***************************************************************************)
THEOREM LimitsAreNotOlder == Spec => []LimitsFitTheInstance
<1>1. IInv => LimitsFitTheInstance
    BY DEF IInv
<1> QED BY <1>1, InvariantHolds, PTL
(***************************************************************************)
(* A registered provider stays visible to List and to routing under every  *)
(* overlap of registrations, updates and removals.                         *)
(***************************************************************************)
THEOREM NoUnlistedProvider == Spec => []ProvidersAreListed
<1>1. IInv => ProvidersAreListed
    BY DEF IInv
<1> QED BY <1>1, InvariantHolds, PTL
-----------------------------------------------------------------------------
(***************************************************************************)
(* The rate limits in front of the manager.  No bucket holds less than     *)
(* nothing or more than its capacity; and a bucket that cleanup drops, or  *)
(* whose age is no longer counted, is full.                                *)
(***************************************************************************)
Amounts == [{1, 2} -> Nat]

LimitsInv ==
    /\ limit \in [LimitNames -> Nat \X Nat]
    /\ bucket \in [Buckets -> Amounts]
    /\ age \in [Buckets -> 0..MaxAge]
    /\ \A b \in Buckets, i \in {1, 2} : bucket[b][i] <= Capacity(b)[i]

\* Products of natural numbers are natural numbers.
LEMMA ProductOfNats == ASSUME NEW m \in Nat, NEW n \in Nat PROVE m * n \in Nat
OBVIOUS

\* A product grows with both factors.
LEMMA MoreTimesMore ==
    ASSUME NEW m \in Nat, NEW n \in Nat, NEW x \in Nat, m <= n
    PROVE  m * x <= n * x
<1>1. PICK d \in Nat : n = m + d
    BY SMT
<1>2. n * x = m * x + d * x
    BY <1>1, SMT
<1>3. m * x \in Nat /\ d * x \in Nat
    BY ProductOfNats
<1> QED BY <1>2, <1>3

\* A bucket with enough for its capacity is full.
LEMMA LeastOfEnough ==
    ASSUME NEW c \in Nat, NEW v \in Nat, NEW x \in Nat, x >= c
    PROVE  Least(c, v + x) = c
BY DEF Least

\* The capacities, rates and costs are natural numbers.
LEMMA CapacityType ==
    ASSUME limit \in [LimitNames -> Nat \X Nat], NEW b \in Buckets, NEW i \in {1, 2}
    PROVE  /\ Capacity(b) \in Amounts
           /\ Capacity(b)[i] \in Nat /\ Rate(b)[i] \in Nat
           /\ Capacity(b)[i] = Unit * Rate(b)[i] \/ b \in Clients
<1>1. CASE b \in Clients
    <2>1. Capacity(b)[1] = Unit * ClientBurst /\ Capacity(b)[2] = Unit * 0
        BY <1>1 DEF Capacity
    <2>2. Rate(b)[1] = ClientRate /\ Rate(b)[2] = 0
        BY <1>1 DEF Rate
    <2>3. Unit * ClientBurst \in Nat /\ Unit * 0 \in Nat /\ ClientRate \in Nat
        BY ProductOfNats, LimitsAssumption
    <2>4. Capacity(b) = [j \in {1, 2} |-> Capacity(b)[j]]
        BY DEF Capacity
    <2> QED BY <1>1, <2>1, <2>2, <2>3, <2>4 DEF Amounts
<1>2. CASE b \notin Clients
    <2>1. limit[b] \in Nat \X Nat
        BY <1>2 DEF Buckets
    <2>2. limit[b][1] \in Nat /\ limit[b][2] \in Nat
        BY <2>1
    <2>3. \A j \in {1, 2} : Capacity(b)[j] = Unit * limit[b][j]
        BY <1>2 DEF Capacity
    <2>4. \A j \in {1, 2} : Unit * limit[b][j] \in Nat
        BY <2>2, ProductOfNats, LimitsAssumption
    <2>5. Capacity(b) = [j \in {1, 2} |-> Capacity(b)[j]]
        BY DEF Capacity
    <2>6. Rate(b) = limit[b]
        BY <1>2 DEF Rate
    <2> QED BY <2>2, <2>3, <2>4, <2>5, <2>6 DEF Amounts
<1> QED BY <1>1, <1>2

\* What a bucket holds after the refill it is due.
LEMMA RefilledType ==
    ASSUME LimitsInv, NEW b \in Buckets, NEW i \in {1, 2}
    PROVE  /\ Refilled(b) \in Amounts
           /\ Refilled(b)[i] = Least(Capacity(b)[i], bucket[b][i] + age[b] * Rate(b)[i])
           /\ Refilled(b)[i] \in 0..Capacity(b)[i]
<1>1. \A j \in {1, 2} : /\ Capacity(b)[j] \in Nat /\ Rate(b)[j] \in Nat
                        /\ bucket[b][j] \in Nat /\ age[b] \in Nat
    BY CapacityType, LimitsAssumption DEF LimitsInv, Amounts, MaxAge
<1>2. \A j \in {1, 2} : age[b] * Rate(b)[j] \in Nat
    BY <1>1, ProductOfNats
<1>3. \A j \in {1, 2} :
         Refilled(b)[j] = Least(Capacity(b)[j], bucket[b][j] + age[b] * Rate(b)[j])
    BY DEF Refilled
<1>4. \A j \in {1, 2} : Refilled(b)[j] \in 0..Capacity(b)[j]
    BY <1>1, <1>2, <1>3 DEF Least
<1>5. \A j \in {1, 2} : Refilled(b)[j] \in Nat
    BY <1>1, <1>4
<1>6. Refilled(b) = [j \in {1, 2} |-> Refilled(b)[j]]
    BY DEF Refilled
<1> QED BY <1>3, <1>4, <1>5, <1>6 DEF Amounts

\* Cleanup forgets nothing, and neither does the end of counting.
LEMMA FullAfterLong ==
    ASSUME LimitsInv, NEW b \in Buckets,
           age[b] = MaxAge \/ (b \in Clients /\ age[b] > StaleAfter)
    PROVE  Refilled(b) = Capacity(b)
<1> SUFFICES ASSUME NEW i \in {1, 2} PROVE Refilled(b)[i] = Capacity(b)[i]
    <2>1. Capacity(b) = [j \in {1, 2} |-> Capacity(b)[j]]
        BY DEF Capacity
    <2>2. Refilled(b) = [j \in {1, 2} |-> Refilled(b)[j]]
        BY DEF Refilled
    <2> QED BY <2>1, <2>2
<1>1. /\ Capacity(b)[i] \in Nat /\ Rate(b)[i] \in Nat
      /\ bucket[b][i] \in Nat /\ age[b] \in Nat
    BY CapacityType, LimitsAssumption DEF LimitsInv, Amounts, MaxAge
<1>2. age[b] * Rate(b)[i] \in Nat
    BY <1>1, ProductOfNats
<1>3. SUFFICES age[b] * Rate(b)[i] >= Capacity(b)[i]
    <2>1. Refilled(b)[i] = Least(Capacity(b)[i], bucket[b][i] + age[b] * Rate(b)[i])
        BY RefilledType
    <2> QED BY <1>1, <1>2, <1>3, <2>1, LeastOfEnough
<1>4. CASE b \in Clients /\ i = 1
    <2>1. Capacity(b)[i] = Unit * ClientBurst /\ Rate(b)[i] = ClientRate
        BY <1>4 DEF Capacity, Rate
    <2>2. age[b] >= StaleAfter
        BY <1>1, <1>4, LimitsAssumption DEF MaxAge
    <2>3. StaleAfter * ClientRate <= age[b] * ClientRate
        BY <1>1, <2>2, MoreTimesMore, LimitsAssumption
    <2>4. StaleAfter * ClientRate = ClientRate * StaleAfter /\ Unit * ClientBurst = ClientBurst * Unit
        BY LimitsAssumption
    <2>5. /\ StaleAfter * ClientRate \in Nat /\ age[b] * ClientRate \in Nat
          /\ Unit * ClientBurst \in Nat
        BY ProductOfNats, <1>1, LimitsAssumption
    <2>6. ClientBurst * Unit <= ClientRate * StaleAfter
        BY LimitsAssumption
    <2>7. Unit * ClientBurst <= StaleAfter * ClientRate
        BY <2>4, <2>6
    <2>8. Unit * ClientBurst <= age[b] * ClientRate
        BY <2>3, <2>5, <2>7, LimitsAssumption
    <2> QED BY <2>1, <2>8
<1>5. CASE b \in Clients /\ i = 2
    <2>1. Capacity(b)[i] = Unit * 0 /\ Rate(b)[i] = 0
        BY <1>5 DEF Capacity, Rate
    <2> QED BY <2>1, <1>1, <1>2, LimitsAssumption
<1>6. CASE b \notin Clients
    <2>1. Capacity(b)[i] = Unit * Rate(b)[i]
        BY <1>6, CapacityType DEF LimitsInv
    <2>2. age[b] >= Unit
        BY <1>1, <1>6, LimitsAssumption DEF MaxAge
    <2> QED BY <1>1, <2>1, <2>2, MoreTimesMore, LimitsAssumption
<1> QED BY <1>4, <1>5, <1>6

\* Where requests are, and what they ask for.
RequestsInv ==
    place \in [Requests -> {"away", "arrived", "routed", "acquired", "limited"}]

\* The costs of a request are natural numbers.
LEMMA CostType ==
    ASSUME NEW r \in Requests
    PROVE  \A i \in {1, 2} : Cost(r)[i] \in Nat
<1>1. TokenEstimate(r) \in Nat
    <2>1. Ask[r].chars \in Nat /\ Ask[r].messages \in Nat /\ Ask[r].maxTokens \in Nat
        BY LimitsAssumption
    <2>2. Ask[r].chars \div 4 \in Nat
        BY <2>1, SMT
    <2> QED BY <2>1, <2>2 DEF TokenEstimate
<1>2. TokenEstimate(r) * Unit \in Nat
    BY <1>1, ProductOfNats, LimitsAssumption
<1> QED BY <1>2, LimitsAssumption DEF Cost

\* The buckets that are charged together.
GateSets == {{c} : c \in Clients} \cup {{Provider}} \cup {{k, m} : k \in Keys, m \in Models}

\* The buckets of the gate a request stands at are those of one of its levels.
LEMMA GateIsCharged ==
    ASSUME NEW r \in Requests, place[r] \in DOMAIN Behind
    PROVE  /\ Gate(r) \in GateSets /\ Gate(r) \subseteq Buckets
           /\ \E n \in {1, 2} : DOMAIN Levels(r)[place[r]] = 1..n
<1>1. Ask[r].client \in Clients /\ Ask[r].key \in Keys /\ Ask[r].model \in Models
    BY LimitsAssumption
<1>2. CASE place[r] = "arrived"
    <2>1. Levels(r)[place[r]] = <<Ask[r].client>>
        BY <1>2 DEF Levels
    <2>2. Gate(r) = {Ask[r].client}
        BY <2>1 DEF Gate
    <2> QED BY <1>1, <2>1, <2>2 DEF GateSets, Buckets
<1>3. CASE place[r] = "routed"
    <2>1. Levels(r)[place[r]] = <<Ask[r].key, Ask[r].model>>
        BY <1>3 DEF Levels
    <2>2. Gate(r) = {Ask[r].key, Ask[r].model}
        BY <2>1 DEF Gate
    <2> QED BY <1>1, <2>1, <2>2 DEF GateSets, Buckets, LimitNames
<1>4. CASE place[r] = "acquired"
    <2>1. Levels(r)[place[r]] = <<Provider>>
        BY <1>4 DEF Levels
    <2>2. Gate(r) = {Provider}
        BY <2>1 DEF Gate
    <2> QED BY <2>1, <2>2 DEF GateSets, Buckets, LimitNames
<1> QED BY <1>2, <1>3, <1>4 DEF Behind

\* A request that passes is charged in every bucket of its gate.
LEMMA PassCharges ==
    ASSUME NEW r \in Requests, Pass(r)
    PROVE  /\ bucket' = [b \in Buckets |-> IF b \in Gate(r) THEN Charged(b, Cost(r)) ELSE bucket[b]]
           /\ age' = [b \in Buckets |-> IF b \in Gate(r) THEN 0 ELSE age[b]]
<1> DEFINE levels == Levels(r)[place[r]]
           seen == {levels[i] : i \in {j \in DOMAIN levels :
                      \A h \in 1..(j - 1) : ~Short(levels[h], Cost(r))}}
<1>1. PICK n \in {1, 2} : DOMAIN levels = 1..n
    BY GateIsCharged DEF Pass
<1>2. Gate(r) = {levels[i] : i \in DOMAIN levels}
    BY DEF Gate
<1>3. \A i \in DOMAIN levels : ~Short(levels[i], Cost(r))
    BY <1>2 DEF Pass
<1>4. \A j \in DOMAIN levels : 1..(j - 1) \subseteq DOMAIN levels
    BY <1>1
<1>5. seen = Gate(r)
    BY <1>2, <1>3, <1>4
<1>6. /\ bucket' = [b \in Buckets |-> IF b \notin seen THEN bucket[b]
                                      ELSE IF \A i \in DOMAIN levels : ~Short(levels[i], Cost(r))
                                      THEN Charged(b, Cost(r)) ELSE Refilled(b)]
      /\ age' = [b \in Buckets |-> IF b \in seen THEN 0 ELSE age[b]]
    BY DEF Pass, Allow
<1> HIDE DEF seen, levels
<1> QED BY <1>3, <1>5, <1>6

\* A request that is refused only refills.
LEMMA RefuseRefills ==
    ASSUME NEW r \in Requests, Refuse(r)
    PROVE  \E seen : /\ bucket' = [b \in Buckets |-> IF b \in seen THEN Refilled(b) ELSE bucket[b]]
                     /\ age' = [b \in Buckets |-> IF b \in seen THEN 0 ELSE age[b]]
<1> DEFINE levels == Levels(r)[place[r]]
           seen == {levels[i] : i \in {j \in DOMAIN levels :
                      \A h \in 1..(j - 1) : ~Short(levels[h], Cost(r))}}
<1>1. \E i \in DOMAIN levels : Short(levels[i], Cost(r))
    BY DEF Refuse, Gate
<1>2. /\ bucket' = [b \in Buckets |-> IF b \notin seen THEN bucket[b]
                                      ELSE IF \A i \in DOMAIN levels : ~Short(levels[i], Cost(r))
                                      THEN Charged(b, Cost(r)) ELSE Refilled(b)]
      /\ age' = [b \in Buckets |-> IF b \in seen THEN 0 ELSE age[b]]
    BY DEF Refuse, Allow
<1> HIDE DEF seen, levels
<1>3. bucket' = [b \in Buckets |-> IF b \in seen THEN Refilled(b) ELSE bucket[b]]
    BY <1>1, <1>2
<1> QED BY <1>2, <1>3

\* What is left after a charge, and what a bucket shows that has just been used,
\* or has not been touched.
LEMMA ChargedType ==
    ASSUME LimitsInv, NEW b \in Buckets, NEW cost, \A i \in {1, 2} : cost[i] \in Nat,
           ~Short(b, cost)
    PROVE  /\ Charged(b, cost) \in Amounts
           /\ \A i \in {1, 2} : Charged(b, cost)[i] <= Capacity(b)[i]
           /\ \A i \in {1, 2} : Capacity(b)[i] > 0 => Refilled(b)[i] >= cost[i]
<1>1. \A i \in {1, 2} : /\ Capacity(b)[i] \in Nat
                        /\ Refilled(b)[i] \in 0..Capacity(b)[i]
    BY CapacityType, RefilledType DEF LimitsInv
<1>2. \A i \in {1, 2} : Capacity(b)[i] > 0 => Refilled(b)[i] >= cost[i]
    BY <1>1 DEF Short
<1>3. \A i \in {1, 2} : Charged(b, cost)[i] = IF Capacity(b)[i] > 0 THEN Refilled(b)[i] - cost[i]
                                              ELSE Refilled(b)[i]
    BY DEF Charged
<1>4. \A i \in {1, 2} : Charged(b, cost)[i] \in Nat /\ Charged(b, cost)[i] <= Capacity(b)[i]
    BY <1>1, <1>2, <1>3
<1>5. Charged(b, cost) = [i \in {1, 2} |-> Charged(b, cost)[i]]
    BY DEF Charged
<1> QED BY <1>2, <1>4, <1>5 DEF Amounts

\* A bucket that was just used holds what was stored.
LEMMA JustUsed ==
    ASSUME limit \in [LimitNames -> Nat \X Nat], UNCHANGED limit, NEW b \in Buckets,
           age'[b] = 0, bucket'[b] \in Amounts,
           \A i \in {1, 2} : bucket'[b][i] <= Capacity(b)[i]
    PROVE  Refilled(b)' = bucket'[b]
<1>1. \A i \in {1, 2} : /\ Refilled(b)'[i] = Least(Capacity(b)[i], bucket'[b][i] + 0 * Rate(b)[i])
                        /\ Capacity(b)[i] \in Nat /\ Rate(b)[i] \in Nat
    BY CapacityType DEF Refilled, Capacity, Rate
<1>2. \A i \in {1, 2} : Refilled(b)'[i] = bucket'[b][i]
    <2> SUFFICES ASSUME NEW i \in {1, 2} PROVE Refilled(b)'[i] = bucket'[b][i]
        OBVIOUS
    <2>1. bucket'[b][i] \in Nat /\ bucket'[b][i] <= Capacity(b)[i] /\ 0 * Rate(b)[i] = 0
        BY <1>1 DEF Amounts
    <2> QED BY <1>1, <2>1 DEF Least
<1>3. Refilled(b)' = [i \in {1, 2} |-> Refilled(b)'[i]]
    BY DEF Refilled
<1>4. bucket'[b] = [i \in {1, 2} |-> bucket'[b][i]]
    BY DEF Amounts
<1> QED BY <1>2, <1>3, <1>4

\* One that was not touched holds what it held.
LEMMA NotTouched ==
    ASSUME NEW b \in Buckets, UNCHANGED Capacity(b), UNCHANGED Rate(b),
           age'[b] = age[b], bucket'[b] = bucket[b]
    PROVE  Refilled(b)' = Refilled(b)
BY DEF Refilled

\* Only the administrator changes capacities and rates.
LEMMA SameLimits ==
    ASSUME UNCHANGED limit, NEW b
    PROVE  UNCHANGED <<Capacity(b), Rate(b)>>
BY DEF Capacity, Rate

\* A step that changes no limit keeps the buckets within them.
LEMMA SameLimitsAreKept ==
    ASSUME LimitsInv, UNCHANGED limit, age' \in [Buckets -> 0..MaxAge],
           bucket' \in [Buckets -> Amounts],
           \A b \in Buckets, i \in {1, 2} : bucket'[b][i] <= Capacity(b)[i]
    PROVE  LimitsInv'
<1>1. \A b : Capacity(b)' = Capacity(b)
    BY SameLimits
<1> QED BY <1>1 DEF LimitsInv

\* A request passes: it takes its cost from its gate.
LEMMA PassTakes ==
    ASSUME LimitsInv, RequestsInv, NEW r \in Requests, Pass(r)
    PROVE  LimitsInv' /\ RequestsInv' /\ Eager!Take(Gate(r), Cost(r))
<1>1. /\ bucket' = [b \in Buckets |-> IF b \in Gate(r) THEN Charged(b, Cost(r)) ELSE bucket[b]]
      /\ age' = [b \in Buckets |-> IF b \in Gate(r) THEN 0 ELSE age[b]]
    BY PassCharges
<1>2. \A i \in {1, 2} : Cost(r)[i] \in Nat
    BY CostType
<1>3. Gate(r) \subseteq Buckets
    BY GateIsCharged DEF Pass
<1>4. \A b \in Gate(r) : /\ Charged(b, Cost(r)) \in Amounts
                         /\ \A i \in {1, 2} : Charged(b, Cost(r))[i] <= Capacity(b)[i]
                         /\ \A i \in {1, 2} : Capacity(b)[i] > 0 => Refilled(b)[i] >= Cost(r)[i]
    BY <1>2, <1>3, ChargedType DEF Pass
<1>5. UNCHANGED limit
    BY DEF Pass
<1>6. LimitsInv'
    <2>1. bucket' \in [Buckets -> Amounts]
        BY <1>1, <1>4 DEF LimitsInv
    <2>2. \A b \in Buckets, i \in {1, 2} : bucket'[b][i] <= Capacity(b)[i]
        BY <1>1, <1>4 DEF LimitsInv
    <2>3. age' \in [Buckets -> 0..MaxAge]
        BY <1>1, LimitsAssumption DEF LimitsInv, MaxAge
    <2> QED BY <1>5, <2>1, <2>2, <2>3, SameLimitsAreKept
<1>7. RequestsInv'
    BY DEF RequestsInv, Pass, Behind
<1>8. \A b \in Buckets : Refilled(b)' = IF b \in Gate(r) THEN Charged(b, Cost(r)) ELSE Refilled(b)
    <2> SUFFICES ASSUME NEW b \in Buckets
                 PROVE  Refilled(b)' = IF b \in Gate(r) THEN Charged(b, Cost(r)) ELSE Refilled(b)
        OBVIOUS
    <2>1. CASE b \in Gate(r)
        <3>1. age'[b] = 0 /\ bucket'[b] = Charged(b, Cost(r))
            BY <1>1, <2>1
        <3>2. Refilled(b)' = bucket'[b]
            BY <1>4, <1>5, <2>1, <3>1, JustUsed DEF LimitsInv
        <3> QED BY <2>1, <3>1, <3>2
    <2>2. CASE b \notin Gate(r)
        <3>1. age'[b] = age[b] /\ bucket'[b] = bucket[b]
            BY <1>1, <2>2
        <3> QED BY <1>5, <2>2, <3>1, SameLimits, NotTouched
    <2> QED BY <2>1, <2>2
<1>9. \A b \in Buckets, i \in {1, 2} :
         Refilled(b)'[i] = IF b \in Gate(r) /\ Capacity(b)[i] > 0 THEN Refilled(b)[i] - Cost(r)[i]
                                                                  ELSE Refilled(b)[i]
    BY <1>8 DEF Charged
<1>10. \A b \in Buckets : Refilled(b)' = [i \in {1, 2} |-> Refilled(b)'[i]]
    BY DEF Refilled
<1>11. [b \in Buckets |-> Refilled(b)]' = [b \in Buckets |-> [i \in {1, 2} |->
          IF b \in Gate(r) /\ Capacity(b)[i] > 0 THEN Refilled(b)[i] - Cost(r)[i]
                                                 ELSE Refilled(b)[i]]]
    BY <1>9, <1>10
<1>12. UNCHANGED <<[b \in Buckets |-> Capacity(b)], [b \in Buckets |-> Rate(b)]>>
    BY <1>5, SameLimits
<1>13. Eager!Take(Gate(r), Cost(r))
    BY <1>3, <1>4, <1>11, <1>12 DEF Eager!Take
<1> QED BY <1>6, <1>7, <1>13

\* Nothing is gained or lost: the levels and their limits stay.
LevelsStay == UNCHANGED <<[b \in Buckets |-> Capacity(b)], [b \in Buckets |-> Rate(b)],
                          [b \in Buckets |-> Refilled(b)]>>

\* A refill by a refused request, and a bucket that cleanup drops and that is
\* made anew, show what they showed before.
LEMMA RefillsChangeNothing ==
    ASSUME LimitsInv, UNCHANGED limit, NEW seen,
           bucket' = [b \in Buckets |-> IF b \in seen THEN Refilled(b) ELSE bucket[b]],
           age' = [b \in Buckets |-> IF b \in seen THEN 0 ELSE age[b]]
    PROVE  LimitsInv' /\ LevelsStay
<1>1. \A b \in Buckets : /\ Refilled(b) \in Amounts
                         /\ \A i \in {1, 2} : Refilled(b)[i] <= Capacity(b)[i]
    <2> TAKE b \in Buckets
    <2>1. Refilled(b) \in Amounts
        BY RefilledType
    <2>2. \A i \in {1, 2} : Refilled(b)[i] \in 0..Capacity(b)[i] /\ Capacity(b)[i] \in Nat
        BY RefilledType, CapacityType DEF LimitsInv
    <2> QED BY <2>1, <2>2
<1>2. LimitsInv'
    <2>1. bucket' \in [Buckets -> Amounts]
        BY <1>1 DEF LimitsInv
    <2>2. \A b \in Buckets, i \in {1, 2} : bucket'[b][i] <= Capacity(b)[i]
        BY <1>1 DEF LimitsInv
    <2>3. age' \in [Buckets -> 0..MaxAge]
        BY LimitsAssumption DEF LimitsInv, MaxAge
    <2> QED BY <2>1, <2>2, <2>3, SameLimitsAreKept
<1>3. \A b \in Buckets : Refilled(b)' = Refilled(b)
    <2> SUFFICES ASSUME NEW b \in Buckets PROVE Refilled(b)' = Refilled(b)
        OBVIOUS
    <2>1. CASE b \in seen
        <3>1. age'[b] = 0 /\ bucket'[b] = Refilled(b)
            BY <2>1
        <3> QED BY <1>1, <3>1, JustUsed DEF LimitsInv
    <2>2. CASE b \notin seen
        <3>1. age'[b] = age[b] /\ bucket'[b] = bucket[b]
            BY <2>2
        <3> QED BY <3>1, SameLimits, NotTouched
    <2> QED BY <2>1, <2>2
<1>4. UNCHANGED <<[b \in Buckets |-> Capacity(b)], [b \in Buckets |-> Rate(b)]>>
    BY SameLimits
<1> QED BY <1>2, <1>3, <1>4 DEF LevelsStay

\* A refusal takes no tokens.
LEMMA RefuseStutters ==
    ASSUME LimitsInv, RequestsInv, NEW r \in Requests, Refuse(r)
    PROVE  LimitsInv' /\ RequestsInv' /\ LevelsStay
<1>1. LimitsInv' /\ LevelsStay
    BY RefuseRefills, RefillsChangeNothing DEF Refuse
<1>2. RequestsInv'
    BY DEF RequestsInv, Refuse
<1> QED BY <1>1, <1>2

\* Forgetting a client that was long idle takes none and gives none.
LEMMA CleanupStutters ==
    ASSUME LimitsInv, RequestsInv, Cleanup
    PROVE  LimitsInv' /\ RequestsInv' /\ LevelsStay
<1> DEFINE stale == {c \in Clients : age[c] > StaleAfter}
<1>1. \A b \in stale : b \in Buckets /\ Refilled(b) = Capacity(b)
    BY FullAfterLong DEF Buckets
<1>2. /\ bucket' = [b \in Buckets |-> IF b \in stale THEN Refilled(b) ELSE bucket[b]]
      /\ age' = [b \in Buckets |-> IF b \in stale THEN 0 ELSE age[b]]
    <2>1. /\ bucket' = [b \in Buckets |-> IF b \in stale THEN Capacity(b) ELSE bucket[b]]
          /\ age' = [b \in Buckets |-> IF b \in stale THEN 0 ELSE age[b]]
        BY DEF Cleanup
    <2> HIDE DEF stale
    <2> QED BY <1>1, <2>1
<1> HIDE DEF stale
<1>3. LimitsInv' /\ LevelsStay
    BY <1>2, RefillsChangeNothing DEF Cleanup
<1>4. RequestsInv'
    BY DEF RequestsInv, Cleanup
<1> QED BY <1>3, <1>4

\* Time passes: every bucket gains its rate.
LEMMA TickTicks ==
    ASSUME LimitsInv, RequestsInv, Tick
    PROVE  LimitsInv' /\ RequestsInv' /\ Eager!Tick
<1>1. UNCHANGED <<limit, bucket, place>> /\ age' = [b \in Buckets |-> Least(MaxAge, age[b] + 1)]
    BY DEF Tick
<1>2. MaxAge \in Nat
    BY LimitsAssumption DEF MaxAge
<1>3. LimitsInv'
    <2>1. age' \in [Buckets -> 0..MaxAge]
        BY <1>1, <1>2 DEF LimitsInv, Least
    <2> QED BY <1>1, <2>1, SameLimitsAreKept DEF LimitsInv
<1>4. \A b \in Buckets, i \in {1, 2} :
         Refilled(b)'[i] = Least(Capacity(b)[i], Refilled(b)[i] + Rate(b)[i])
    <2> SUFFICES ASSUME NEW b \in Buckets, NEW i \in {1, 2}
                 PROVE  Refilled(b)'[i] = Least(Capacity(b)[i], Refilled(b)[i] + Rate(b)[i])
        OBVIOUS
    <2>1. /\ Capacity(b)[i] \in Nat /\ Rate(b)[i] \in Nat
          /\ bucket[b][i] \in Nat /\ age[b] \in 0..MaxAge
        BY CapacityType DEF LimitsInv, Amounts
    <2>2. Refilled(b)'[i] = Least(Capacity(b)[i], bucket[b][i] + age'[b] * Rate(b)[i])
        BY <1>1, SameLimits DEF Refilled
    <2>3. Refilled(b)[i] = Least(Capacity(b)[i], bucket[b][i] + age[b] * Rate(b)[i])
        BY DEF Refilled
    <2>4. CASE age[b] < MaxAge
        <3>1. age'[b] = age[b] + 1
            BY <1>1, <1>2, <2>1, <2>4 DEF Least
        <3>2. age[b] \in Nat
            BY <1>2, <2>1
        <3>3. Least(Capacity(b)[i], bucket[b][i] + (age[b] + 1) * Rate(b)[i])
                = Least(Capacity(b)[i], Least(Capacity(b)[i], bucket[b][i] + age[b] * Rate(b)[i])
                                          + Rate(b)[i])
            <4> DEFINE c == Capacity(b)[i]
                       v == bucket[b][i]
                       t == age[b]
                       x == Rate(b)[i]
            <4>1. c \in Nat /\ v \in Nat /\ t \in Nat /\ x \in Nat
                BY <2>1, <3>2
            <4> HIDE DEF c, v, t, x
            <4>2. t * x \in Nat /\ (t + 1) * x = t * x + x
                BY ONLY <4>1, ProductOfNats
            <4> DEFINE p == t * x
                       q == (t + 1) * x
            <4>3. p \in Nat /\ q = p + x
                BY <4>2
            <4> HIDE DEF p, q
            <4>4. Least(c, v + q) = Least(c, Least(c, v + p) + x)
                BY ONLY <4>1, <4>3 DEF Least
            <4> QED BY <4>4 DEF c, v, t, x, p, q
        <3> QED BY <2>2, <2>3, <3>1, <3>3
    <2>5. CASE age[b] = MaxAge
        <3>1. age'[b] = age[b]
            BY <1>1, <1>2, <2>5 DEF Least
        <3>2. Refilled(b)[i] = Capacity(b)[i]
            BY <2>5, FullAfterLong
        <3>3. Refilled(b)'[i] = Capacity(b)[i]
            BY <2>2, <2>3, <3>1, <3>2
        <3> QED BY <2>1, <3>2, <3>3, LeastOfEnough
    <2> QED BY <1>2, <2>1, <2>4, <2>5
<1>5. \A b \in Buckets : Refilled(b)' = [i \in {1, 2} |-> Refilled(b)'[i]]
    BY DEF Refilled
<1>6. [b \in Buckets |-> Refilled(b)]' =
         [b \in Buckets |-> [i \in {1, 2} |-> Least(Capacity(b)[i], Refilled(b)[i] + Rate(b)[i])]]
    BY <1>4, <1>5
<1>7. UNCHANGED <<[b \in Buckets |-> Capacity(b)], [b \in Buckets |-> Rate(b)]>>
    BY <1>1, SameLimits
<1>8. Eager!Tick
    BY <1>6, <1>7 DEF Eager!Tick, Eager!Least, Least
<1> QED BY <1>1, <1>3, <1>8 DEF RequestsInv

\* The administrator's new bucket is full.
LEMMA SetLimitReplaces ==
    ASSUME LimitsInv, RequestsInv, NEW b \in Keys \cup Models, NEW l \in AdminLimits, SetLimit(b, l)
    PROVE  LimitsInv' /\ RequestsInv' /\ Eager!Replace(b)
<1>1. l \in Nat \X Nat /\ l[1] \in Nat /\ l[2] \in Nat
    BY LimitsAssumption
<1>2. b \in LimitNames /\ b \in Buckets /\ b \notin Clients
    BY LimitsAssumption DEF LimitNames, Buckets
<1>3. /\ limit' = [limit EXCEPT ![b] = l] /\ age' = [age EXCEPT ![b] = 0]
      /\ bucket' = [bucket EXCEPT ![b] = <<l[1] * Unit, l[2] * Unit>>] /\ place' = place
    BY DEF SetLimit
<1>4. limit' \in [LimitNames -> Nat \X Nat] /\ limit'[b] = l
    BY <1>1, <1>2, <1>3 DEF LimitsInv
<1>5. Capacity(b)' = [i \in {1, 2} |-> Unit * l[i]]
    BY <1>2, <1>4 DEF Capacity
<1>6. \A i \in {1, 2} : Unit * l[i] \in Nat /\ Unit * l[i] = l[i] * Unit
    BY <1>1, ProductOfNats, LimitsAssumption
<1>7. bucket'[b] = [i \in {1, 2} |-> Unit * l[i]]
    <2>1. bucket'[b] = <<l[1] * Unit, l[2] * Unit>>
        BY <1>2, <1>3 DEF LimitsInv
    <2> DEFINE t == <<l[1] * Unit, l[2] * Unit>>
    <2>2. t = [i \in 1..2 |-> IF i = 1 THEN l[1] * Unit ELSE l[2] * Unit]
        BY <1>6
    <2>3. 1..2 = {1, 2}
        OBVIOUS
    <2> QED BY <1>6, <2>1, <2>2, <2>3
<1>8. bucket'[b] \in Amounts /\ bucket'[b] = Capacity(b)'
    BY <1>5, <1>6, <1>7 DEF Amounts
<1>9. \A c \in Buckets \ {b} : Capacity(c)' = Capacity(c) /\ Rate(c)' = Rate(c)
    <2> SUFFICES ASSUME NEW c \in Buckets \ {b} PROVE Capacity(c)' = Capacity(c) /\ Rate(c)' = Rate(c)
        OBVIOUS
    <2>1. c \notin Clients => limit'[c] = limit[c]
        BY <1>3 DEF LimitsInv, Buckets
    <2> QED BY <2>1 DEF Capacity, Rate
<1>10. \A c \in Buckets \ {b} : bucket'[c] = bucket[c] /\ age'[c] = age[c]
    BY <1>3 DEF LimitsInv
<1>11. LimitsInv'
    <2>1. bucket' \in [Buckets -> Amounts]
        BY <1>3, <1>8 DEF LimitsInv
    <2>2. age' \in [Buckets -> 0..MaxAge]
        <3>1. 0 \in 0..MaxAge
            BY LimitsAssumption DEF MaxAge
        <3> QED BY <1>3, <3>1 DEF LimitsInv
    <2>3. \A c \in Buckets, i \in {1, 2} : bucket'[c][i] <= Capacity(c)'[i]
        <3> SUFFICES ASSUME NEW c \in Buckets, NEW i \in {1, 2} PROVE bucket'[c][i] <= Capacity(c)'[i]
            OBVIOUS
        <3>1. CASE c = b
            <4>1. Capacity(c)'[i] = Unit * l[i] /\ bucket'[c][i] = Unit * l[i]
                BY <1>2, <1>4, <1>7, <3>1 DEF Capacity
            <4> QED BY <1>6, <4>1
        <3>2. CASE c # b
            BY <1>9, <1>10, <3>2 DEF LimitsInv
        <3> QED BY <3>1, <3>2
    <2> QED BY <1>4, <2>1, <2>2, <2>3 DEF LimitsInv
<1>12. Refilled(b)' = Capacity(b)'
    <2>1. age'[b] = 0
        BY <1>2, <1>3 DEF LimitsInv
    <2>2. \A i \in {1, 2} : Capacity(b)'[i] = Unit * l[i] /\ bucket'[b][i] = Unit * l[i] /\ Rate(b)'[i] \in Nat
        BY <1>1, <1>2, <1>4, <1>5, <1>7 DEF Rate
    <2>3. \A i \in {1, 2} : Refilled(b)'[i] = Least(Unit * l[i], Unit * l[i] + 0 * Rate(b)'[i])
        BY <2>1, <2>2 DEF Refilled
    <2>4. \A i \in {1, 2} : 0 * Rate(b)'[i] = 0
        BY <2>2
    <2>5. \A i \in {1, 2} : Refilled(b)'[i] = Unit * l[i]
        BY <1>6, <2>3, <2>4 DEF Least
    <2>6. Refilled(b)' = [i \in {1, 2} |-> Refilled(b)'[i]]
        BY DEF Refilled
    <2> QED BY <1>5, <2>5, <2>6
<1>13. \A c \in Buckets \ {b} : Refilled(c)' = Refilled(c)
    BY <1>9, <1>10, NotTouched
<1>14. Eager!Replace(b)
    BY <1>2, <1>9, <1>12, <1>13 DEF Eager!Replace
<1> QED BY <1>3, <1>11, <1>14 DEF RequestsInv

\* newKeyLimiterFromEnv: every bucket is new.
LEMMA LimitsInitInv == LimitsInit => LimitsInv /\ RequestsInv /\ Eager!Init
<1> SUFFICES ASSUME LimitsInit PROVE LimitsInv /\ RequestsInv /\ Eager!Init
    OBVIOUS
<1>1. limit \in [LimitNames -> Nat \X Nat]
    BY LimitsAssumption DEF LimitsInit
<1>2. \A b \in Buckets : Capacity(b) \in Amounts /\ \A i \in {1, 2} : Capacity(b)[i] \in Nat
    BY <1>1, CapacityType
<1>3. LimitsInv
    <2>1. bucket \in [Buckets -> Amounts]
        BY <1>2 DEF LimitsInit
    <2>2. \A b \in Buckets, i \in {1, 2} : bucket[b][i] <= Capacity(b)[i]
        BY <1>2 DEF LimitsInit
    <2>3. age \in [Buckets -> 0..MaxAge]
        BY LimitsAssumption DEF LimitsInit, MaxAge
    <2> QED BY <1>1, <2>1, <2>2, <2>3 DEF LimitsInv
<1>4. RequestsInv
    BY DEF LimitsInit, RequestsInv
<1>5. Eager!Init
    BY <1>3, RefilledType DEF Eager!Init, Eager!Within
<1> QED BY <1>3, <1>4, <1>5

\* Every step keeps the invariants, and is a step or a stutter of the eager buckets.
LEMMA LimitsStep ==
    LimitsInv /\ RequestsInv /\ [LimitsNext]_limitVars
      => LimitsInv' /\ RequestsInv' /\ [Eager!Next]_(Eager!vars)
<1> SUFFICES ASSUME LimitsInv, RequestsInv, [LimitsNext]_limitVars
             PROVE  LimitsInv' /\ RequestsInv' /\ [Eager!Next]_(Eager!vars)
    OBVIOUS
<1>0. ASSUME LevelsStay PROVE [Eager!Next]_(Eager!vars)
    BY <1>0 DEF LevelsStay, Eager!vars
<1>1. ASSUME NEW r \in Requests, Pass(r)
      PROVE  LimitsInv' /\ RequestsInv' /\ [Eager!Next]_(Eager!vars)
    <2>1. LimitsInv' /\ RequestsInv' /\ Eager!Take(Gate(r), Cost(r))
        BY <1>1, PassTakes
    <2>2. Gate(r) \in GateSets
        BY <1>1, GateIsCharged DEF Pass
    <2>3. Cost(r) \in {Cost(q) : q \in Requests}
        BY <1>1
    <2> QED BY <2>1, <2>2, <2>3 DEF Eager!Next, GateSets
<1>2. ASSUME NEW r \in Requests, Refuse(r)
      PROVE  LimitsInv' /\ RequestsInv' /\ [Eager!Next]_(Eager!vars)
    BY <1>0, <1>2, RefuseStutters
<1>3. ASSUME NEW r \in Requests, Send(r) \/ AskBreaker(r)
      PROVE  LimitsInv' /\ RequestsInv' /\ [Eager!Next]_(Eager!vars)
    <2>1. UNCHANGED <<limit, bucket, age>>
        BY <1>3 DEF Send, AskBreaker
    <2>2. \A b : UNCHANGED <<Capacity(b), Rate(b)>>
        BY <2>1, SameLimits
    <2>3. LimitsInv'
        BY <2>1, <2>2 DEF LimitsInv
    <2>4. \A b \in Buckets : Refilled(b)' = Refilled(b)
        BY <2>1, <2>2, NotTouched
    <2>5. RequestsInv'
        BY <1>3 DEF RequestsInv, Send, AskBreaker
    <2>6. LevelsStay
        BY <2>2, <2>4 DEF LevelsStay
    <2> QED BY <1>0, <2>3, <2>5, <2>6
<1>4. ASSUME NEW b \in Keys \cup Models, NEW l \in AdminLimits, SetLimit(b, l)
      PROVE  LimitsInv' /\ RequestsInv' /\ [Eager!Next]_(Eager!vars)
    <2>1. LimitsInv' /\ RequestsInv' /\ Eager!Replace(b)
        BY <1>4, SetLimitReplaces
    <2>2. b \in Buckets
        BY DEF Buckets, LimitNames
    <2> QED BY <2>1, <2>2 DEF Eager!Next
<1>5. ASSUME Cleanup PROVE LimitsInv' /\ RequestsInv' /\ [Eager!Next]_(Eager!vars)
    BY <1>0, <1>5, CleanupStutters
<1>6. ASSUME Tick PROVE LimitsInv' /\ RequestsInv' /\ [Eager!Next]_(Eager!vars)
    BY <1>6, TickTicks DEF Eager!Next
<1>7. ASSUME UNCHANGED limitVars PROVE LimitsInv' /\ RequestsInv' /\ [Eager!Next]_(Eager!vars)
    <2>1. UNCHANGED <<limit, bucket, age, place>>
        BY <1>7 DEF limitVars
    <2>2. \A b : UNCHANGED <<Capacity(b), Rate(b)>>
        BY <2>1, SameLimits
    <2>3. LimitsInv'
        BY <2>1, <2>2 DEF LimitsInv
    <2>4. \A b \in Buckets : Refilled(b)' = Refilled(b)
        BY <2>1, <2>2, NotTouched
    <2>5. RequestsInv' /\ LevelsStay
        BY <2>1, <2>2, <2>4 DEF RequestsInv, LevelsStay
    <2> QED BY <1>0, <2>3, <2>5
<1>8. CASE LimitsNext
    <2>1. CASE \E r \in Requests : Send(r) \/ Serve(r)
        BY <1>1, <1>2, <1>3, <2>1 DEF Serve
    <2> QED BY <1>4, <1>5, <1>6, <1>8, <2>1 DEF LimitsNext
<1> QED BY <1>7, <1>8

(***************************************************************************)
(* The lazy buckets of the gateway are token buckets: whenever they are    *)
(* refilled, dropped or replaced, and whatever the limits, rates and       *)
(* requests are, a request takes its cost from all buckets of a gate or    *)
(* from none, and none is overdrawn or overfull.                           *)
(***************************************************************************)
THEOREM LimitsAreTokenBuckets == LimitsSpec => ImplementsTokenBuckets
<1>1. LimitsSpec => [](LimitsInv /\ RequestsInv)
    BY LimitsInitInv, LimitsStep, PTL DEF LimitsSpec
<1> QED BY <1>1, LimitsInitInv, LimitsStep, PTL
        DEF LimitsSpec, ImplementsTokenBuckets, Eager!Spec
=============================================================================
